---------------------------- MODULE ServicesProofs ----------------------------
(***************************************************************************)
(* The invariants of the six services that MCServices runs side by side,   *)
(* for any sizes that its assumptions allow.                               *)
(*                                                                         *)
(* A step of MCServices is a step of one service and none of the others,   *)
(* or of none (EachMoves), so that each service has an invariant of its    *)
(* own, over its own variables, and ServicesInv is their conjunction.      *)
(*                                                                         *)
(* Builds.  Only the callback that finds a job in no terminal status       *)
(* starts a deployment, and leaves it terminal.  Nothing takes a job out   *)
(* of a terminal status: the next callback does not, and the spawner's     *)
(* update, which would, has happened before any builder ends.              *)
(*                                                                         *)
(* HostedBilling.  What was charged, is owed, or was spent stopped never   *)
(* shrinks (Accounted).  It reaches the watermark and what the cycle is    *)
(* about to make the watermark, and a job that settled, or found nothing   *)
(* to settle, leaves it at its own time, which becomes the end.  The       *)
(* delicate case is a cycle whose key is known, which moves the watermark  *)
(* and charges nothing: the cycle that used the key was at the same hour,  *)
(* and has charged what this one bills (KnownCovered).  As long as nothing *)
(* fails half-way the sum is exact (Exact): one cycle or job at a time is  *)
(* between the debit and the watermark.                                    *)
(*                                                                         *)
(* Failover.  A row's lineage holds rows whose pipeline has ended, so that *)
(* their providers stay what they are, and whose providers the row         *)
(* excludes.  A retry and a failover extend the lineage with their old row *)
(* and the exclusions with its provider, which the failover read when it   *)
(* decided, some steps before it creates the row.  A pass that may still   *)
(* create a row counted the failovers before, which the window's moving on *)
(* only makes fewer (Capped); each but one of the passes under way was an  *)
(* overlap.                                                                *)
(*                                                                         *)
(* Suspension.  A running deployment with a reason is in the hands of a    *)
(* policy that will stop it, or of the resumption that will clear it       *)
(* (Limited), unless something failed: a stop that has yet to record its   *)
(* reason has taken the row out of ACTIVE, and what made it ACTIVE again   *)
(* has noted the crossing (Noted).                                         *)
(*                                                                         *)
(* Wallet.  A caller past its turn is the head of its pod's queue, so that *)
(* the callers an await resumes are the ones the queue admits; an attempt  *)
(* runs its command once, and once more if the lock failed it.  As long as *)
(* nothing fails, a probe's last answer says whether its deployment is     *)
(* there (Closes).                                                         *)
(*                                                                         *)
(* Runway.  After a top-up that went through, an hour of the price is      *)
(* left; after one that did not, half an hour: the next one is due then.   *)
(* With a price of which parseInt drops a fraction, what is left shrinks   *)
(* by what was dropped since the last look at the balance.                 *)
(***************************************************************************)
EXTENDS MCServices, FiniteSetTheorems, TLAPS

(* Builds *)

\* The rows are numbered in the order of their creation.
JobsDense == \E n \in 0..MaxJobs : D!Existing = 1..n

\* What is not created yet has no request, no builder and no callback.
Unborn == \A j \in D!BuildJobs : build[j].status = "ABSENT" => spawner[j] = "none"
Spawned == \A j \in D!BuildJobs :
  builders[j] > 0 \/ (\E s \in {"RUNNING", "SUCCEEDED", "FAILED"} : <<j, s>> \in calls)
    => spawner[j] \in {"update", "service", "done"}

\* The jobs whose builds are slow: all of them, or none.
Slow == {j \in D!BuildJobs : SlowBuilds}

\* The spawner is done before their builders end.
EndsLate == \A j \in Slow :
  <<j, "SUCCEEDED">> \in calls \/ <<j, "FAILED">> \in calls \/ build[j].status \in D!Terminal
    => spawner[j] = "done"

\* A deployment that was started, or is about to be, rests on a terminal status.
Ongoing(j) == IF deploying[j] = "none" THEN 0 ELSE 1
DeploysTerminal == \A j \in Slow :
  deployed[j] + Ongoing(j) > 0 => build[j].status \in D!Terminal
OneDeployment == \A j \in Slow : deployed[j] + Ongoing(j) <= 1

BuildsInv == D!TypeOK /\ JobsDense /\ Unborn /\ Spawned /\ EndsLate /\ DeploysTerminal /\ OneDeployment

\* An instance of FiniteSets counts as FiniteSets does.
LEMMA Counting ==
  ASSUME NEW things
  PROVE  D!Cardinality(things) = Cardinality(things) /\ F!Cardinality(things) = Cardinality(things)
BY DEF Cardinality, D!Cardinality, F!Cardinality

LEMMA SlowJobs == Slow \subseteq D!BuildJobs
BY Zenon DEF Slow

LEMMA BuildsInit == BuildsAssumption /\ D!Init => BuildsInv
<1> SUFFICES ASSUME BuildsAssumption, D!Init PROVE BuildsInv
  OBVIOUS
<1> USE DEF BuildsAssumption, D!Init, D!BuildJobs, D!Terminal, D!None
<1>1. D!TypeOK
  <2>1. build \in [D!BuildJobs -> [status : D!Terminal \cup {"ABSENT", "PENDING", "RUNNING"},
                                sha : Shas \cup {D!None}, byPush : BOOLEAN]]
    OBVIOUS
  <2>2. /\ push \in [Deliveries -> Shas \cup {D!None, "done"}]
        /\ spawner \in [D!BuildJobs -> {"none", "spawn", "update", "service", "done"}]
        /\ builders \in [D!BuildJobs -> 0..2]
    OBVIOUS
  <2>3. /\ deploying \in [D!BuildJobs -> {"none", "read", "deploy"}]
        /\ deployed \in [D!BuildJobs -> Nat]
    OBVIOUS
  <2>4. calls \subseteq D!BuildJobs \X {"RUNNING", "SUCCEEDED", "FAILED"}
    OBVIOUS
  <2>5. image \in Shas \cup {D!None} /\ mishaps \in 0..MaxMishap
    OBVIOUS
  <2>6. recent \in BOOLEAN
    BY Zenon
  <2> QED
    BY <2>1, <2>2, <2>3, <2>4, <2>5, <2>6, Zenon DEF D!TypeOK
<1>2. JobsDense
  <2>1. D!Existing = 1..0
    BY DEF D!Existing
  <2>2. 0 \in 0..MaxJobs
    OBVIOUS
  <2> HIDE DEF D!Init
  <2> QED
    BY <2>1, <2>2 DEF JobsDense
<1> QED
  BY <1>1, <1>2, SlowJobs DEF BuildsInv, Unborn, Spawned, EndsLate, DeploysTerminal, OneDeployment, Ongoing

\* A new job takes the first row that does not exist.
LEMMA NextJobIsAbsent ==
  ASSUME BuildsAssumption, BuildsInv, D!NextJob \in D!BuildJobs
  PROVE  /\ build[D!NextJob].status = "ABSENT"
         /\ D!Existing \cup {D!NextJob} = 1..D!NextJob
<1>1. PICK n \in 0..MaxJobs : D!Existing = 1..n
  BY DEF BuildsInv, JobsDense
<1>2. Cardinality(1..n) = n
  BY <1>1, FS_Interval DEF BuildsAssumption
<1>3. D!NextJob = n + 1
  BY <1>1, <1>2, Counting DEF D!NextJob
<1>4. n + 1 \notin 1..n
  OBVIOUS
<1>5. D!NextJob \notin D!Existing
  BY <1>1, <1>3, <1>4
<1> QED
  BY <1>1, <1>3, <1>5 DEF D!Existing

\* A step that neither creates a row nor leaves one keeps the rows dense.
LEMMA SameJobs ==
  ASSUME JobsDense, \A j \in D!BuildJobs : build[j].status = "ABSENT" <=> build'[j].status = "ABSENT"
  PROVE  JobsDense'
<1>1. D!Existing' = D!Existing
  BY DEF D!Existing
<1> QED
  BY <1>1 DEF JobsDense

\* A job is created.
LEMMA CreateInv ==
  ASSUME BuildsAssumption, BuildsInv, NEW sha \in Shas, NEW byPush \in BOOLEAN, D!Create(sha, byPush),
         push' \in [Deliveries -> Shas \cup {D!None, "done"}],
         UNCHANGED <<builders, calls, image, deploying, recent, deployed, mishaps>>
  PROVE  BuildsInv'
<1> DEFINE n == D!NextJob
<1>1. n \in D!BuildJobs
  BY DEF D!Create
<1>2. build[n].status = "ABSENT" /\ D!Existing \cup {n} = 1..n
  BY <1>1, NextJobIsAbsent
<1>3. /\ build' = [build EXCEPT ![n] = [status |-> "PENDING", sha |-> sha, byPush |-> byPush]]
      /\ spawner' = [spawner EXCEPT ![n] = "spawn"]
  BY DEF D!Create
<1> HIDE DEF n
<1>4. D!TypeOK'
  BY <1>1, <1>3 DEF BuildsInv, D!TypeOK, BuildsAssumption
<1>5. JobsDense'
  <2>1. D!Existing' = D!Existing \cup {n}
    BY <1>1, <1>3 DEF D!Existing, BuildsInv, D!TypeOK
  <2>2. n \in 0..MaxJobs
    BY <1>1 DEF D!BuildJobs, BuildsAssumption
  <2> QED
    BY <1>2, <2>1, <2>2 DEF JobsDense
<1>6. Unborn' /\ Spawned' /\ EndsLate'
  BY <1>1, <1>2, <1>3 DEF BuildsInv, D!TypeOK, Unborn, Spawned, EndsLate, D!Terminal
<1>7. DeploysTerminal' /\ OneDeployment'
  BY <1>1, <1>2, <1>3 DEF BuildsInv, D!TypeOK, DeploysTerminal, OneDeployment, Ongoing, D!Terminal
<1> QED
  BY <1>4, <1>5, <1>6, <1>7 DEF BuildsInv

\* The spawner and the builders of a job.
LEMMA SpawnerInv ==
  ASSUME BuildsAssumption, BuildsInv, NEW j \in D!BuildJobs,
         D!Spawn(j) \/ D!SpawnFails(j) \/ D!MarkRunning(j) \/ D!UpdateService(j)
  PROVE  BuildsInv'
<1> USE DEF BuildsInv, D!TypeOK, D!Terminal, D!Mishap, BuildsAssumption
<1>1. CASE D!Spawn(j)
  <2>1. D!TypeOK'
    BY <1>1 DEF D!Spawn
  <2>2. JobsDense'
    BY <1>1, SameJobs DEF D!Spawn
  <2>3. Unborn' /\ Spawned' /\ EndsLate'
    BY <1>1 DEF D!Spawn, Unborn, Spawned, EndsLate
  <2>4. DeploysTerminal' /\ OneDeployment'
    BY <1>1 DEF D!Spawn, DeploysTerminal, OneDeployment, Ongoing
  <2> QED
    BY <2>1, <2>2, <2>3, <2>4
<1>2. CASE D!SpawnFails(j)
  <2>1. D!TypeOK'
    BY <1>2 DEF D!SpawnFails
  <2>2. build[j].status # "ABSENT"
    BY <1>2 DEF D!SpawnFails, Unborn
  <2>3. JobsDense'
    BY <1>2, <2>2, SameJobs DEF D!SpawnFails
  <2>4. /\ build'[j].status \in {build[j].status, "FAILED"}
        /\ \A k \in D!BuildJobs \ {j} : build'[k].status = build[k].status
    BY <1>2 DEF D!SpawnFails
  <2>5. /\ spawner[j] # "none" /\ spawner'[j] = "done"
        /\ \A k \in D!BuildJobs \ {j} : spawner'[k] = spawner[k] /\ builders'[k] = builders[k]
        /\ UNCHANGED <<calls, deploying, deployed>>
    BY <1>2 DEF D!SpawnFails
  <2>6. Unborn'
    BY <2>2, <2>4, <2>5 DEF Unborn
  <2>7. Spawned'
    BY <2>5 DEF Spawned
  <2>8. EndsLate'
    BY <2>4, <2>5, SlowJobs DEF EndsLate
  <2>9. DeploysTerminal'
    BY <2>4, <2>5, SlowJobs DEF DeploysTerminal, Ongoing
  <2>10. OneDeployment'
    BY <2>5, SlowJobs DEF OneDeployment, Ongoing
  <2> QED
    BY <2>1, <2>3, <2>6, <2>7, <2>8, <2>9, <2>10
<1>3. CASE D!MarkRunning(j)
  <2>1. D!TypeOK'
    BY <1>3 DEF D!MarkRunning
  <2>2. build[j].status # "ABSENT" /\ (j \in Slow => build[j].status \notin D!Terminal)
    BY <1>3 DEF D!MarkRunning, Unborn, EndsLate
  <2>3. JobsDense'
    BY <1>3, <2>2, SameJobs DEF D!MarkRunning
  <2>4. Unborn' /\ Spawned' /\ EndsLate'
    BY <1>3, <2>2 DEF D!MarkRunning, Unborn, Spawned, EndsLate
  <2>5. DeploysTerminal' /\ OneDeployment'
    BY <1>3, <2>2 DEF D!MarkRunning, DeploysTerminal, OneDeployment, Ongoing
  <2> QED
    BY <2>1, <2>3, <2>4, <2>5
<1>4. CASE D!UpdateService(j)
  <2>1. D!TypeOK'
    BY <1>4 DEF D!UpdateService
  <2>2. JobsDense'
    BY <1>4, SameJobs DEF D!UpdateService
  <2>3. Unborn' /\ Spawned' /\ EndsLate'
    BY <1>4 DEF D!UpdateService, Unborn, Spawned, EndsLate
  <2>4. DeploysTerminal' /\ OneDeployment'
    BY <1>4 DEF D!UpdateService, DeploysTerminal, OneDeployment, Ongoing
  <2> QED
    BY <2>1, <2>2, <2>3, <2>4
<1> QED
  BY <1>1, <1>2, <1>3, <1>4

LEMMA ReportInv ==
  ASSUME BuildsAssumption, BuildsInv, NEW j \in D!BuildJobs,
         \/ D!BuilderReports(j)
         \/ \E outcome \in {"SUCCEEDED", "FAILED"} : D!BuilderEnds(j, outcome)
         \/ \E outcome \in {"RUNNING", "SUCCEEDED", "FAILED"} : D!Lost(<<j, outcome>>)
  PROVE  BuildsInv'
<1> USE DEF BuildsInv, D!TypeOK, D!Terminal, D!Mishap, BuildsAssumption
<1>1. build' = build /\ spawner' = spawner /\ deploying' = deploying /\ deployed' = deployed
  BY DEF D!BuilderReports, D!BuilderEnds, D!Lost
<1>2. D!TypeOK'
  BY DEF D!BuilderReports, D!BuilderEnds, D!Lost
<1>3. JobsDense' /\ Unborn'
  BY <1>1, SameJobs DEF Unborn
<1>4. Spawned'
  BY <1>1 DEF D!BuilderReports, D!BuilderEnds, D!Lost, Spawned
<1>6. EndsLate'
  <2>1. (\E outcome \in {"SUCCEEDED", "FAILED"} : D!BuilderEnds(j, outcome)) /\ j \in Slow
          => spawner[j] = "done"
    BY Zenon DEF D!BuilderEnds, Slow
  <2> QED
    BY <1>1, <2>1 DEF D!BuilderReports, D!BuilderEnds, D!Lost, EndsLate
<1>5. DeploysTerminal' /\ OneDeployment'
  BY <1>1 DEF DeploysTerminal, OneDeployment, Ongoing
<1> QED
  BY <1>2, <1>3, <1>4, <1>5, <1>6

\* A callback that starts a deployment finds none started and none under way.
LEMMA CallbackInv ==
  ASSUME BuildsAssumption, BuildsInv, NEW j \in D!BuildJobs,
         NEW outcome \in {"RUNNING", "SUCCEEDED", "FAILED"}, D!Callback(j, outcome)
  PROVE  BuildsInv'
<1> USE DEF BuildsInv, D!TypeOK, BuildsAssumption
<1>1. <<j, outcome>> \in calls /\ calls' \subseteq calls /\ mishaps' \in 0..MaxMishap
  BY DEF D!Callback, D!Delivered, D!Mishap
<1>2. spawner[j] \in {"update", "service", "done"} /\ (j \in Slow /\ outcome # "RUNNING" => spawner[j] = "done")
  BY <1>1 DEF Spawned, EndsLate
<1>3. build[j].status # "ABSENT"
  BY <1>2 DEF Unborn
<1>4. UNCHANGED <<push, spawner, builders, recent, deployed>>
  BY DEF D!Callback
<1>5. CASE build[j].status \in D!Terminal
  <2>1. UNCHANGED <<build, image, deploying>>
    BY <1>5 DEF D!Callback
  <2> QED
    BY <1>1, <1>4, <2>1, SameJobs
    DEF Unborn, Spawned, EndsLate, DeploysTerminal, OneDeployment, Ongoing
<1>6. CASE build[j].status \notin D!Terminal
  <2>1. /\ build' = [build EXCEPT ![j].status = outcome]
        /\ image' \in {image, build[j].sha}
        /\ deploying' = IF outcome = "SUCCEEDED" THEN [deploying EXCEPT ![j] = "read"] ELSE deploying
    BY <1>6 DEF D!Callback, D!Outcome
  <2>2. D!TypeOK'
    BY <1>1, <1>4, <2>1 DEF D!Terminal
  <2>3. JobsDense'
    BY <1>3, <2>1, SameJobs
  <2>4. Unborn' /\ Spawned' /\ EndsLate'
    BY <1>1, <1>2, <1>4, <2>1 DEF Unborn, Spawned, EndsLate, D!Terminal
  <2>5. j \in Slow => deployed[j] = 0 /\ deploying[j] = "none"
    BY <1>6 DEF DeploysTerminal, Ongoing
  <2>6. DeploysTerminal' /\ OneDeployment'
    BY <1>4, <2>1, <2>5 DEF DeploysTerminal, OneDeployment, Ongoing, D!Terminal
  <2> QED
    BY <2>2, <2>3, <2>4, <2>6
<1> QED
  BY <1>5, <1>6

\* A deployment under way becomes one that was started, or none.
LEMMA DeployInv ==
  ASSUME BuildsAssumption, BuildsInv, NEW j \in D!BuildJobs,
         D!LookForDeployment(j) \/ D!Deploy(j) \/ D!Crash(j)
  PROVE  BuildsInv'
<1> USE DEF BuildsInv, D!TypeOK, BuildsAssumption, D!Mishap
<1>1. UNCHANGED <<build, push, spawner, builders, calls, image>>
  BY DEF D!LookForDeployment, D!Deploy, D!Crash
<1>2. D!TypeOK'
  <2>1. deploying' \in [D!BuildJobs -> {"none", "read", "deploy"}]
    BY DEF D!LookForDeployment, D!Deploy, D!Crash
  <2>2. deployed' \in [D!BuildJobs -> Nat]
    BY DEF D!LookForDeployment, D!Deploy, D!Crash
  <2>3. recent' \in BOOLEAN
    BY Zenon DEF D!LookForDeployment, D!Deploy, D!Crash
  <2>4. mishaps' \in 0..MaxMishap
    BY DEF D!LookForDeployment, D!Deploy, D!Crash
  <2> QED
    BY <1>1, <2>1, <2>2, <2>3, <2>4
<1>3. JobsDense' /\ Unborn' /\ Spawned' /\ EndsLate'
  BY <1>1, SameJobs DEF Unborn, Spawned, EndsLate
<1>4. deployed'[j] + Ongoing(j)' <= deployed[j] + Ongoing(j)
  BY DEF D!LookForDeployment, D!Deploy, D!Crash, Ongoing
<1>5. \A i \in D!BuildJobs \ {j} : deployed'[i] = deployed[i] /\ Ongoing(i)' = Ongoing(i)
  BY DEF D!LookForDeployment, D!Deploy, D!Crash, Ongoing
<1>6. \A i \in D!BuildJobs : /\ deployed[i] + Ongoing(i) \in Nat
                           /\ deployed'[i] + Ongoing(i)' \in Nat
                           /\ deployed'[i] + Ongoing(i)' <= deployed[i] + Ongoing(i)
  BY <1>2, <1>4, <1>5 DEF Ongoing
<1>7. DeploysTerminal' /\ OneDeployment'
  BY <1>1, <1>6, SlowJobs DEF DeploysTerminal, OneDeployment
<1> QED
  BY <1>2, <1>3, <1>7

LEMMA BuildsNext == BuildsAssumption /\ BuildsInv /\ [D!Next]_dvars => BuildsInv'
<1> SUFFICES ASSUME BuildsAssumption, BuildsInv, [D!Next]_dvars PROVE BuildsInv'
  OBVIOUS
<1>1. CASE \E sha \in Shas : D!Request(sha)
  BY <1>1, CreateInv DEF D!Request, BuildsInv, D!TypeOK
<1>2. CASE \E sha \in Shas, d \in Deliveries : D!PushReads(d, sha)
  <2>1. PICK sha \in Shas, d \in Deliveries : D!PushReads(d, sha)
    BY <1>2
  <2>2. UNCHANGED <<build, spawner, builders, calls, image, deploying, recent, deployed, mishaps>>
    BY <2>1 DEF D!PushReads
  <2>3. D!TypeOK'
    BY <2>1, <2>2 DEF D!PushReads, BuildsInv, D!TypeOK
  <2> QED
    BY <2>2, <2>3, SameJobs
    DEF BuildsInv, Unborn, Spawned, EndsLate, DeploysTerminal, OneDeployment, Ongoing
<1>3. CASE \E d \in Deliveries : D!PushCreates(d)
  <2>1. PICK d \in Deliveries : D!PushCreates(d)
    BY <1>3
  <2>2. push' \in [Deliveries -> Shas \cup {D!None, "done"}]
    BY <2>1 DEF D!PushCreates, BuildsInv, D!TypeOK
  <2> QED
    BY <2>1, <2>2, CreateInv DEF D!PushCreates
<1>4. CASE \E j \in D!BuildJobs :
             D!Spawn(j) \/ D!SpawnFails(j) \/ D!MarkRunning(j) \/ D!UpdateService(j)
  BY <1>4, SpawnerInv
<1>5. CASE \E j \in D!BuildJobs :
             \/ D!BuilderReports(j)
             \/ \E outcome \in {"SUCCEEDED", "FAILED"} : D!BuilderEnds(j, outcome)
             \/ \E outcome \in {"RUNNING", "SUCCEEDED", "FAILED"} : D!Lost(<<j, outcome>>)
  BY <1>5, ReportInv
<1>6. CASE \E j \in D!BuildJobs, outcome \in {"RUNNING", "SUCCEEDED", "FAILED"} : D!Callback(j, outcome)
  BY <1>6, CallbackInv
<1>7. CASE \E j \in D!BuildJobs : D!LookForDeployment(j) \/ D!Deploy(j) \/ D!Crash(j)
  BY <1>7, DeployInv
<1>8. CASE D!Later
  <2>1. UNCHANGED <<build, push, spawner, builders, calls, image, deploying, deployed, mishaps>>
        /\ recent' = FALSE
    BY <1>8 DEF D!Later
  <2>2. D!TypeOK'
    BY <2>1 DEF BuildsInv, D!TypeOK
  <2> QED
    BY <2>1, <2>2, SameJobs
    DEF BuildsInv, Unborn, Spawned, EndsLate, DeploysTerminal, OneDeployment, Ongoing
<1>9. CASE UNCHANGED dvars
  BY <1>9, SameJobs
  DEF dvars, BuildsInv, D!TypeOK, Unborn, Spawned, EndsLate, DeploysTerminal, OneDeployment, Ongoing
<1> QED
  BY <1>1, <1>2, <1>3, <1>4, <1>5, <1>6, <1>7, <1>8, <1>9 DEF D!Next



(* HostedBilling *)

\* Whole hours between a moment and now, in ticks.
Billable(t) == ((clock - t) \div HourTicks) * HourTicks

Accounted == charged + owed + gap + StartedAt

\* The clock stands still while a cycle or a job is at work.
Working(j) == job[j].pc \in {"read", "debit", "write", "mark"} \/ (job[j].pc = "stop" /\ ~job[j].again)
Momentary ==
  /\ watermark <= clock
  /\ cycle.pc # "idle" =>
       /\ cycle.at = clock /\ clock % HourTicks = 0 /\ cycle.from <= clock
       /\ cycle.hours >= 1 /\ cycle.hours * HourTicks = Billable(cycle.from)
       /\ watermark = cycle.from \/ watermark > clock - HourTicks
  /\ \A j \in Jobs : Working(j) => job[j].at = clock
  /\ \A h \in hoursPaid : h * HourTicks <= clock

OnlySpheronAgain == \A j \in Jobs : job[j].again => adapter = "spheron"

\* A charge covers the time since the job's reading.
DueSuffices == \A j \in Jobs : job[j].pc = "debit" => job[j].due >= job[j].at - job[j].from

WatermarkCovered == Accounted >= watermark

HourIsKnown == clock \div HourTicks \in hoursPaid
KnownCovered ==
  clock % HourTicks = 0 /\ HourIsKnown
    => watermark > clock - HourTicks \/ Accounted >= watermark + Billable(watermark)
CycleCovered ==
  cycle.pc = "mirror" \/ (cycle.pc = "debit" /\ HourIsKnown)
    => Accounted >= cycle.from + Billable(cycle.from)
ReadCovered == cycle.pc = "debit" => Accounted >= cycle.from

Covered(j) ==
  /\ job[j].pc = "debit" => Accounted + job[j].due >= job[j].at
  /\ job[j].pc = "write" => Accounted >= job[j].at
  /\ job[j].pc \in {"stop", "mark"} =>
       Accounted >= job[j].at \/ (adapter = "spheron" /\ status # "ACTIVE")
JobCovered == \A j \in Jobs : Covered(j)
EndCovered == status # "ACTIVE" => Accounted >= endedAt

Cover == WatermarkCovered /\ KnownCovered /\ CycleCovered /\ ReadCovered /\ JobCovered /\ EndCovered
HostedInv  == B!TypeOK /\ Momentary /\ OnlySpheronAgain /\ DueSuffices /\ Cover

-----------------------------------------------------------------------------
LEMMA WholeHours ==
  ASSUME HostedAssumption, NEW a \in Nat
  PROVE  /\ a \div HourTicks \in Nat /\ a \div HourTicks <= a
         /\ (a \div HourTicks) * HourTicks \in Nat
         /\ (a \div HourTicks) * HourTicks <= a
         /\ a < (a \div HourTicks) * HourTicks + HourTicks
         /\ a \div HourTicks >= 1 => a >= HourTicks
         /\ a % HourTicks = 0 => (a \div HourTicks) * HourTicks = a
BY DEF HostedAssumption

LEMMA BillableIsPast ==
  ASSUME HostedAssumption, clock \in Nat, NEW t \in Nat, t <= clock
  PROVE  /\ Billable(t) \in Nat /\ t + Billable(t) <= clock
         /\ t + Billable(t) > clock - HourTicks
BY WholeHours, clock - t \in Nat DEF Billable, HostedAssumption

LEMMA HostedInit == HostedAssumption /\ B!Init => HostedInv
<1> SUFFICES ASSUME HostedAssumption, B!Init PROVE HostedInv
  OBVIOUS
<1> USE DEF HostedAssumption, B!Init, B!Waiting, B!Idle, B!Time, B!Kinds
<1>1. B!TypeOK
  <2>1. job \in [Jobs -> [pc : {"new", "read", "debit", "write", "stop", "mark", "done"}, kind : B!Kinds,
                          from : B!Time, at : B!Time, due : Nat, again : BOOLEAN]]
    OBVIOUS
  <2>2. cycle \in [pc : {"idle", "debit", "mirror"}, from : B!Time, at : B!Time, hours : B!Time]
    OBVIOUS
  <2>3. disturbed \in BOOLEAN
    BY Zenon
  <2> QED
    BY <2>1, <2>2, <2>3 DEF B!TypeOK
<1>2. Momentary
  BY DEF Momentary, Working
<1>3. OnlySpheronAgain /\ DueSuffices
  BY DEF OnlySpheronAgain, DueSuffices
<1>4. Cover
  BY DEF Cover, Accounted, WatermarkCovered, KnownCovered, CycleCovered, ReadCovered, JobCovered,
         Covered, EndCovered, HourIsKnown
<1> QED
  BY <1>1, <1>2, <1>3, <1>4 DEF HostedInv

-----------------------------------------------------------------------------
(* The billing cycle. *)
LEMMA CycleReadsInv == ASSUME HostedAssumption, HostedInv, B!CycleReads PROVE HostedInv'
<1> USE DEF HostedAssumption, HostedInv, B!TypeOK, B!Time
<1> DEFINE hours == (clock - watermark) \div HourTicks
<1>1. clock - watermark \in Nat /\ hours \in Nat /\ hours <= clock /\ hours \in B!Time
  BY WholeHours DEF Momentary
<1>2. /\ cycle' = [pc |-> "debit", from |-> watermark, at |-> clock, hours |-> hours]
      /\ cycle.pc = "idle" /\ status = "ACTIVE" /\ clock % HourTicks = 0 /\ hours >= 1
      /\ UNCHANGED <<clock, adapter, minimum, status, watermark, charged, hoursPaid, owed,
                     job, endedAt, gap, excess, failures>>
  BY DEF B!CycleReads
<1>3. disturbed' \in BOOLEAN
  BY Zenon DEF B!CycleReads
<1>4. hours * HourTicks = Billable(watermark)
  BY DEF Billable
<1>5. clock - watermark >= HourTicks
  BY <1>1, <1>2, WholeHours
<1> HIDE DEF hours
<1>6. B!TypeOK'
  BY <1>1, <1>2, <1>3
<1>7. \A t : Billable(t)' = Billable(t)
  BY <1>2 DEF Billable
<1>8. Momentary' /\ OnlySpheronAgain' /\ DueSuffices'
  BY <1>2, <1>4, <1>7 DEF Momentary, Working, OnlySpheronAgain, DueSuffices
<1>9. Accounted' = Accounted /\ HourIsKnown' = HourIsKnown
  BY <1>2 DEF Accounted, HourIsKnown
<1>10. CycleCovered' /\ ReadCovered'
  BY <1>2, <1>5, <1>7, <1>9 DEF Cover, CycleCovered, ReadCovered, KnownCovered, WatermarkCovered
<1>11. WatermarkCovered' /\ KnownCovered' /\ JobCovered' /\ EndCovered'
  BY <1>2, <1>7, <1>9 DEF Cover, WatermarkCovered, KnownCovered, JobCovered, Covered, EndCovered
<1> QED
  BY <1>6, <1>8, <1>10, <1>11 DEF Cover

\* What was charged only grows; the rest of the row stays.
LEMMA MoreCharged ==
  ASSUME HostedAssumption, HostedInv, Accounted' \in Int, Accounted \in Int, Accounted' >= Accounted,
         UNCHANGED <<clock, adapter, status, watermark, hoursPaid, job, endedAt>>,
         cycle' = cycle \/ cycle'.pc = "idle"
  PROVE  Cover' /\ OnlySpheronAgain' /\ DueSuffices' /\ Momentary'
<1> USE DEF HostedAssumption, HostedInv, B!TypeOK, B!Time
<1>1. \A t : Billable(t)' = Billable(t)
  BY DEF Billable
<1>2. HourIsKnown' = HourIsKnown
  BY DEF HourIsKnown
<1>3. \A t \in B!Time : t <= clock => Billable(t) \in Nat
  BY BillableIsPast
<1>4. Momentary' /\ OnlySpheronAgain' /\ DueSuffices'
  BY <1>1 DEF Momentary, Working, OnlySpheronAgain, DueSuffices
<1>5. WatermarkCovered' /\ KnownCovered'
  BY <1>1, <1>2, <1>3 DEF Cover, WatermarkCovered, KnownCovered, Momentary
<1>6. CycleCovered' /\ ReadCovered'
  BY <1>1, <1>2, <1>3 DEF Cover, CycleCovered, ReadCovered, Momentary
<1>7. JobCovered' /\ EndCovered'
  BY DEF Cover, JobCovered, Covered, EndCovered
<1> QED
  BY <1>4, <1>5, <1>6, <1>7 DEF Cover

LEMMA CycleDebitsInv == ASSUME HostedAssumption, HostedInv, B!CycleDebits PROVE HostedInv'
<1> USE DEF HostedAssumption, HostedInv, B!TypeOK, B!Time
<1> DEFINE hour == clock \div HourTicks
           owing  == Billable(cycle.from)
<1>1. cycle.pc = "debit" /\ cycle.at = clock /\ cycle.hours * HourTicks = owing /\ cycle.from <= clock
  BY DEF B!CycleDebits, Momentary
<1>2. /\ cycle' = [cycle EXCEPT !.pc = "mirror"]
      /\ charged' = charged + IF hour \in hoursPaid THEN 0 ELSE owing
      /\ hoursPaid' = hoursPaid \cup {hour}
      /\ UNCHANGED <<clock, adapter, minimum, status, watermark, owed, job, endedAt, gap, excess,
                     disturbed, failures>>
  BY <1>1 DEF B!CycleDebits
<1>3. owing \in Nat /\ cycle.from + owing > clock - HourTicks
  BY <1>1, BillableIsPast
<1>4. hour \in B!Time /\ hour * HourTicks <= clock
  BY WholeHours
<1> HIDE DEF hour
<1>5. \A t : Billable(t)' = Billable(t)
  BY <1>2 DEF Billable
<1> HIDE DEF owing
<1>6. B!TypeOK'
  BY <1>2, <1>3, <1>4
<1>7. Momentary' /\ OnlySpheronAgain' /\ DueSuffices'
  <2>1. \A h \in hoursPaid' : h * HourTicks <= clock'
    BY <1>2, <1>4 DEF Momentary
  <2>2. cycle'.at = cycle.at /\ cycle'.from = cycle.from /\ cycle'.hours = cycle.hours
    BY <1>2
  <2>3. cycle'.hours * HourTicks = Billable(cycle.from)'
    BY <1>1, <1>5, <2>2 DEF owing
  <2> QED
    BY <1>1, <1>2, <2>1, <2>2, <2>3 DEF Momentary, Working, OnlySpheronAgain, DueSuffices
<1>8. Accounted \in Int /\ Accounted' \in Int /\ Accounted' >= Accounted
  BY <1>2, <1>3 DEF Accounted
<1>9. Accounted' >= cycle.from + owing
  <2>1. CASE hour \in hoursPaid
    BY <1>1, <1>2, <1>8, <2>1 DEF Cover, CycleCovered, HourIsKnown, hour, owing
  <2>2. CASE hour \notin hoursPaid
    <3>1. Accounted' = Accounted + owing
      BY <1>2, <1>3, <2>2 DEF Accounted
    <3> QED
      BY <1>1, <1>3, <1>8, <3>1 DEF Cover, ReadCovered
  <2> QED
    BY <2>1, <2>2
<1>10. CycleCovered' /\ ReadCovered'
  BY <1>2, <1>5, <1>9 DEF CycleCovered, ReadCovered, owing
<1>11. KnownCovered'
  BY <1>1, <1>2, <1>5, <1>9 DEF KnownCovered, Momentary, owing
<1>12. WatermarkCovered' /\ EndCovered'
  BY <1>2, <1>8 DEF Cover, WatermarkCovered, EndCovered
<1>13. JobCovered'
  BY <1>2, <1>8 DEF Cover, JobCovered, Covered
<1> QED
  BY <1>6, <1>7, <1>10, <1>11, <1>12, <1>13 DEF Cover

LEMMA CycleEndsInv ==
  ASSUME HostedAssumption, HostedInv, B!CycleRefused \/ B!CycleBreaks
  PROVE  HostedInv'
<1> USE DEF HostedInv, B!TypeOK, HostedAssumption
<1>1. /\ cycle' = B!Idle
      /\ UNCHANGED <<clock, adapter, minimum, status, watermark, charged, hoursPaid, owed, job,
                     endedAt, gap, excess>>
  BY DEF B!CycleRefused, B!CycleBreaks
<1>2. disturbed' \in BOOLEAN
  BY Zenon DEF B!CycleRefused, B!CycleBreaks
<1>3. failures' \in 0..MaxFault
  BY DEF B!CycleRefused, B!CycleBreaks, B!Fail
<1>4. cycle' \in [pc : {"idle", "debit", "mirror"}, from : B!Time, at : B!Time, hours : B!Time]
  BY <1>1 DEF B!Idle, B!Time
<1>5. B!TypeOK'
  BY <1>1, <1>2, <1>3, <1>4
<1>6. Accounted' = Accounted /\ Accounted \in Int
  BY <1>1 DEF Accounted, B!Time
<1> QED
  BY <1>1, <1>5, <1>6, MoreCharged DEF B!Idle

LEMMA CycleMirrorsInv == ASSUME HostedAssumption, HostedInv, B!CycleMirrors PROVE HostedInv'
<1> USE DEF HostedInv, B!TypeOK, HostedAssumption, B!Time
<1> DEFINE to == cycle.from + Billable(cycle.from)
<1>1. cycle.pc = "mirror" /\ cycle.at = clock /\ cycle.hours * HourTicks = Billable(cycle.from)
  BY DEF B!CycleMirrors, Momentary
<1>2. to \in Nat /\ to <= clock /\ to > clock - HourTicks
  BY <1>1, BillableIsPast DEF Momentary
<1>3. /\ watermark' = to /\ cycle' = B!Idle
      /\ UNCHANGED <<clock, adapter, minimum, status, charged, hoursPaid, owed, job, endedAt, gap,
                     excess, disturbed, failures>>
  BY <1>1, <1>2 DEF B!CycleMirrors, B!Shorter
<1>4. Accounted' = Accounted /\ Accounted >= to
  BY <1>1, <1>3 DEF Accounted, Cover, CycleCovered
<1> HIDE DEF to
<1>5. B!TypeOK'
  BY <1>2, <1>3 DEF B!Idle
<1>6. Momentary' /\ OnlySpheronAgain' /\ DueSuffices'
  BY <1>2, <1>3 DEF Momentary, Working, OnlySpheronAgain, DueSuffices, B!Idle
<1>7. WatermarkCovered' /\ KnownCovered' /\ CycleCovered' /\ ReadCovered'
  BY <1>2, <1>3, <1>4 DEF WatermarkCovered, KnownCovered, CycleCovered, ReadCovered, B!Idle
<1>8. JobCovered' /\ EndCovered'
  BY <1>3, <1>4 DEF Cover, JobCovered, Covered, EndCovered
<1> QED
  BY <1>5, <1>6, <1>7, <1>8 DEF Cover
-----------------------------------------------------------------------------
(* The jobs that end the deployment. *)

\* What a step of a job has to show: about its own stage, and that it takes
\* nothing back.
LEMMA JobMoves ==
  ASSUME HostedAssumption, HostedInv, NEW j \in Jobs, B!TypeOK',
         UNCHANGED <<clock, adapter, cycle, hoursPaid>>,
         \A i \in Jobs \ {j} : job'[i] = job[i],
         Accounted' >= Accounted,
         watermark' = watermark \/ (watermark' = clock /\ Accounted' >= clock),
         status # "ACTIVE" => status' # "ACTIVE", EndCovered',
         Working(j)' => job'[j].at = clock, job'[j].again => adapter = "spheron",
         job'[j].pc = "debit" => job'[j].due >= job'[j].at - job'[j].from, Covered(j)'
  PROVE  HostedInv'
<1> USE DEF HostedInv, B!TypeOK, HostedAssumption, B!Time
<1>1. \A t : Billable(t)' = Billable(t)
  BY DEF Billable
<1>2. \A t \in B!Time : t <= clock => Billable(t) \in Nat
  BY BillableIsPast
<1>3. Accounted \in Int /\ Accounted' \in Int
  BY DEF Accounted
<1>4. HourIsKnown' = HourIsKnown
  BY DEF HourIsKnown
<1>5. Momentary'
  BY <1>1 DEF Momentary, Working
<1>6. OnlySpheronAgain' /\ DueSuffices'
  BY DEF OnlySpheronAgain, DueSuffices
<1>7. WatermarkCovered' /\ KnownCovered' /\ CycleCovered' /\ ReadCovered'
  BY <1>1, <1>2, <1>3, <1>4
  DEF Cover, WatermarkCovered, KnownCovered, CycleCovered, ReadCovered, Momentary
<1>8. \A i \in Jobs \ {j} : Covered(i)'
  BY <1>3 DEF Cover, JobCovered, Covered
<1> QED
  BY <1>5, <1>6, <1>7, <1>8 DEF Cover, JobCovered

JobRecord == [pc : {"new", "read", "debit", "write", "stop", "mark", "done"}, kind : B!Kinds,
              from : B!Time, at : B!Time, due : Nat, again : BOOLEAN]

\* A job that begins; the flag's set is a parameter, which keeps Booleans out
\* of the arithmetic prover's way.
LEMMA RecordOfJob ==
  ASSUME NEW Flags, NEW flag \in Flags, NEW Kind, NEW sort \in Kind, NEW Times, NEW at \in Times,
         NEW w \in [pc : {"new", "read", "debit", "write", "stop", "mark", "done"}, kind : Kind,
                    from : Times, at : Times, due : Nat, again : Flags]
  PROVE  [w EXCEPT !.pc = "read", !.kind = sort, !.at = at, !.again = flag]
           \in [pc : {"new", "read", "debit", "write", "stop", "mark", "done"}, kind : Kind,
               from : Times, at : Times, due : Nat, again : Flags]
OBVIOUS

LEMMA WaitingIsQuiet ==
  ASSUME HostedAssumption
  PROVE  B!Waiting \in JobRecord /\ B!Waiting.again = FALSE
<1>1. 0 \in B!Time /\ 0 \in Nat
  BY DEF B!Time, HostedAssumption
<1>2. "new" \in {"new", "read", "debit", "write", "stop", "mark", "done"} /\ "close" \in B!Kinds
  BY DEF B!Kinds
<1>3. B!Waiting \in JobRecord
  BY <1>1, <1>2, Zenon DEF JobRecord, B!Waiting
<1>4. B!Waiting.again = FALSE
  BY Zenon DEF B!Waiting
<1> QED
  BY <1>3, <1>4

LEMMA DoneIsQuiet ==
  ASSUME HostedAssumption
  PROVE  B!Done \in JobRecord
BY WaitingIsQuiet DEF B!Done, JobRecord

\* A step that moves nothing but the job.
LEMMA OnlyTheJob ==
  ASSUME HostedAssumption, HostedInv, NEW j \in Jobs, B!TypeOK',
         UNCHANGED <<clock, adapter, status, watermark, charged, hoursPaid, owed, cycle, endedAt, gap>>,
         \A i \in Jobs \ {j} : job'[i] = job[i],
         Working(j)' => job'[j].at = clock, job'[j].again => adapter = "spheron",
         job'[j].pc = "debit" => job'[j].due >= job'[j].at - job'[j].from, Covered(j)'
  PROVE  HostedInv'
<1>1. Accounted' = Accounted /\ Accounted \in Int
  BY DEF Accounted, HostedInv, B!TypeOK, B!Time, HostedAssumption
<1>2. EndCovered'
  BY <1>1 DEF EndCovered, HostedInv, Cover
<1> QED
  BY <1>1, <1>2, JobMoves

LEMMA BeginInv == ASSUME HostedAssumption, HostedInv, NEW j \in Jobs, B!Begin(j) PROVE HostedInv'
<1> USE DEF HostedInv, B!TypeOK
<1>1. PICK sort \in B!Kinds, again \in BOOLEAN :
        /\ job' = [job EXCEPT ![j] = [B!Waiting EXCEPT !.pc = "read", !.kind = sort, !.at = clock,
                                        !.again = again]]
        /\ again => adapter = "spheron"
  BY Zenon DEF B!Begin
<1> DEFINE new == [B!Waiting EXCEPT !.pc = "read", !.kind = sort, !.at = clock, !.again = again]
<1>2. new \in JobRecord /\ new.pc = "read" /\ new.at = clock /\ new.again = again
  <2>1. B!Waiting \in JobRecord /\ clock \in B!Time
    BY WaitingIsQuiet
  <2> HIDE DEF HostedInv, B!TypeOK
  <2>2. new.pc = "read" /\ new.at = clock
    BY <2>1 DEF JobRecord
  <2>3. new.again = again
    BY <2>1, Zenon DEF JobRecord
  <2>4. new \in JobRecord
    BY <2>1, <1>1, RecordOfJob DEF JobRecord
  <2> QED
    BY <2>2, <2>3, <2>4
<1>3. job' = [job EXCEPT ![j] = new]
  BY <1>1
<1>4. UNCHANGED <<clock, adapter, minimum, status, watermark, charged, hoursPaid, owed,
                  cycle, endedAt, gap, excess, disturbed, failures>>
  BY DEF B!Begin
<1> HIDE DEF new
<1>5. job' \in [Jobs -> JobRecord]
  BY <1>2, <1>3 DEF JobRecord
<1>6. B!TypeOK'
  BY <1>4, <1>5 DEF JobRecord
<1>7. job'[j].pc = "read" /\ job'[j].at = clock /\ job'[j].again = again
  BY <1>2, <1>3
<1> QED
  BY <1>1, <1>3, <1>4, <1>6, <1>7, OnlyTheJob DEF Covered

LEMMA SettleInv == ASSUME HostedAssumption, HostedInv, NEW j \in Jobs, B!Settle(j) PROVE HostedInv'
<1> USE DEF HostedInv, B!TypeOK, HostedAssumption, B!Time
<1> DEFINE life == B!Longer(job[j].at - StartedAt, minimum)
           owing  == B!Longer(0, life - (watermark - StartedAt))
           pc   == IF owing = 0 THEN "stop" ELSE "debit"
<1>1. /\ job[j].pc = "read" /\ disturbed' = (disturbed \/ cycle.pc # "idle" \/ B!Settling)
      /\ job' = [job EXCEPT ![j].from = watermark, ![j].due = owing, ![j].pc = pc]
      /\ UNCHANGED <<clock, adapter, minimum, status, watermark, charged, hoursPaid, owed,
                     cycle, endedAt, gap, excess, failures>>
  BY DEF B!Settle
<1>2. owing \in Nat /\ owing >= job[j].at - watermark
  BY DEF B!Longer
<1>3. pc \in {"stop", "debit"} /\ (pc = "stop" => owing = 0)
  OBVIOUS
<1> HIDE DEF owing, pc
<1>4. disturbed' \in BOOLEAN
  BY <1>1, Zenon
<1>5. B!TypeOK'
  BY <1>1, <1>2, <1>3, <1>4
<1>6. /\ job'[j].pc = pc /\ job'[j].at = job[j].at /\ job'[j].due = owing
      /\ job'[j].from = watermark /\ job'[j].again = job[j].again
  BY <1>1
<1>7. Accounted' = Accounted /\ Accounted \in Int /\ Accounted >= watermark
  BY <1>1 DEF Accounted, Cover, WatermarkCovered
<1>8. Covered(j)'
  BY <1>2, <1>3, <1>6, <1>7 DEF Covered
<1>9. job[j].at = clock /\ (job[j].again => adapter = "spheron")
  BY <1>1 DEF Momentary, Working, OnlySpheronAgain
<1> QED
  BY <1>1, <1>2, <1>3, <1>5, <1>6, <1>8, <1>9, OnlyTheJob

LEMMA DebitInv ==
  ASSUME HostedAssumption, HostedInv, NEW j \in Jobs, B!Debit(j) \/ B!DebitFails(j)
  PROVE  HostedInv'
<1> USE DEF HostedInv, B!TypeOK, HostedAssumption, B!Time
<1>1. /\ job[j].pc = "debit"
      /\ charged' + owed' = charged + owed + job[j].due /\ charged' \in Nat /\ owed' \in Nat
      /\ UNCHANGED <<clock, adapter, minimum, status, watermark, hoursPaid, cycle, endedAt, gap>>
  BY DEF B!Debit, B!DebitFails
<1>2. PICK pc \in {"write", "stop"} : job' = [job EXCEPT ![j].pc = pc]
  BY DEF B!Debit, B!DebitFails
<1>3. excess' \in Nat
  BY <1>1 DEF B!Debit, B!DebitFails, DueSuffices
<1>4. disturbed' \in BOOLEAN
  BY Zenon DEF B!Debit, B!DebitFails
<1>5. failures' \in 0..MaxFault
  BY DEF B!Debit, B!DebitFails, B!Fail
<1>6. B!TypeOK'
  BY <1>1, <1>2, <1>3, <1>4, <1>5
<1>7. Accounted' = Accounted + job[j].due /\ Accounted \in Int
  BY <1>1 DEF Accounted
<1>8. job'[j].pc = pc /\ job'[j].at = job[j].at /\ job'[j].again = job[j].again
  BY <1>2
<1>9. Covered(j)'
  BY <1>1, <1>7, <1>8 DEF Cover, JobCovered, Covered
<1>10. EndCovered'
  BY <1>1, <1>7 DEF Cover, EndCovered
<1>11. job[j].at = clock /\ (job[j].again => adapter = "spheron")
  BY <1>1 DEF Momentary, Working, OnlySpheronAgain
<1>12. Accounted' >= Accounted
  BY <1>7
<1> QED
  BY <1>1, <1>2, <1>6, <1>8, <1>9, <1>10, <1>11, <1>12, JobMoves

LEMMA MoveWatermarkInv == ASSUME HostedAssumption, HostedInv, NEW j \in Jobs, B!MoveWatermark(j) PROVE HostedInv'
<1> USE DEF HostedInv, B!TypeOK, HostedAssumption, B!Time
<1>1. /\ job[j].pc = "write" /\ watermark' = job[j].at /\ job' = [job EXCEPT ![j].pc = "stop"]
      /\ UNCHANGED <<clock, adapter, minimum, status, charged, hoursPaid, owed, cycle, endedAt,
                     gap, excess, disturbed, failures>>
  BY DEF B!MoveWatermark
<1>2. B!TypeOK'
  BY <1>1
<1>3. job[j].at = clock /\ (job[j].again => adapter = "spheron")
  BY <1>1 DEF Momentary, Working, OnlySpheronAgain
<1>4. Accounted' = Accounted /\ Accounted \in Int /\ Accounted >= job[j].at
  BY <1>1 DEF Accounted, Cover, JobCovered, Covered
<1>5. job'[j].pc = "stop" /\ job'[j].at = job[j].at /\ job'[j].again = job[j].again
  BY <1>1
<1>6. Covered(j)' /\ EndCovered'
  BY <1>1, <1>4, <1>5 DEF Cover, Covered, EndCovered
<1> QED
  BY <1>1, <1>2, <1>3, <1>4, <1>5, <1>6, JobMoves

LEMMA SettleAgainInv == ASSUME HostedAssumption, HostedInv, NEW j \in Jobs, B!SettleAgain(j) PROVE HostedInv'
<1> USE DEF HostedInv, B!TypeOK, HostedAssumption, B!Time
<1>1. /\ job[j].pc = "stop" /\ job[j].again
      /\ UNCHANGED <<clock, adapter, minimum, status, watermark, charged, hoursPaid, owed, cycle,
                     endedAt, gap, excess, disturbed, failures>>
  BY DEF B!SettleAgain
<1>2. adapter = "spheron"
  BY <1>1 DEF OnlySpheronAgain
<1>3. CASE status = "ACTIVE"
  <2>1. job' = [job EXCEPT ![j] = [job[j] EXCEPT !.again = FALSE, !.at = clock, !.pc = "read"]]
    BY <1>3 DEF B!SettleAgain
  <2>2. B!TypeOK'
    BY <1>1, <2>1
  <2>3. job'[j].pc = "read" /\ job'[j].at = clock
    BY <2>1
  <2> QED
    BY <1>1, <1>2, <2>1, <2>2, <2>3, OnlyTheJob DEF Covered
<1>4. CASE status = "STOPPED"
  <2>1. job' = [job EXCEPT ![j] = [job[j] EXCEPT !.again = FALSE, !.at = clock]]
    BY <1>4 DEF B!SettleAgain
  <2>2. B!TypeOK'
    BY <1>1, <2>1
  <2>3. job'[j].pc = "stop" /\ job'[j].at = clock
    BY <1>1, <2>1
  <2> QED
    BY <1>1, <1>2, <1>4, <2>1, <2>2, <2>3, OnlyTheJob DEF Covered
<1>5. CASE status = "DELETED"
  <2>1. job' = [job EXCEPT ![j] = B!Done]
    BY <1>5 DEF B!SettleAgain
  <2>2. B!TypeOK'
    <3>1. job' \in [Jobs -> JobRecord]
      BY <2>1, DoneIsQuiet DEF JobRecord
    <3> QED
      BY <1>1, <3>1 DEF JobRecord
  <2>3. job'[j].pc = "done"
    BY <2>1 DEF B!Done, B!Waiting
  <2> QED
    BY <1>1, <1>2, <2>1, <2>2, <2>3, OnlyTheJob DEF Covered, Working
<1> QED
  BY <1>3, <1>4, <1>5

LEMMA StopUpstreamInv == ASSUME HostedAssumption, HostedInv, NEW j \in Jobs, B!StopUpstream(j) PROVE HostedInv'
<1> USE DEF HostedInv, B!TypeOK, HostedAssumption, B!Time
<1>1. /\ job[j].pc = "stop" /\ ~job[j].again
      /\ job' = [job EXCEPT ![j].pc = "mark"] \/ job' = [job EXCEPT ![j] = B!Done]
      /\ UNCHANGED <<clock, adapter, minimum, status, watermark, charged, hoursPaid, owed, cycle,
                     endedAt, gap, excess, disturbed, failures>>
  BY DEF B!StopUpstream
<1>2. job[j].at = clock
  BY <1>1 DEF Momentary, Working
<1>3. CASE job' = [job EXCEPT ![j].pc = "mark"]
  <2>1. B!TypeOK'
    BY <1>1, <1>3
  <2>2. job'[j].pc = "mark" /\ job'[j].at = job[j].at /\ job'[j].again = job[j].again
    BY <1>3
  <2>3. Accounted' = Accounted
    BY <1>1 DEF Accounted
  <2>4. Covered(j)'
    BY <1>1, <2>2, <2>3 DEF Cover, JobCovered, Covered
  <2> QED
    BY <1>1, <1>2, <1>3, <2>1, <2>2, <2>4, OnlyTheJob DEF OnlySpheronAgain
<1>4. CASE job' = [job EXCEPT ![j] = B!Done]
  <2>1. B!TypeOK'
    <3>1. job' \in [Jobs -> JobRecord]
      BY <1>4, DoneIsQuiet DEF JobRecord
    <3> QED
      BY <1>1, <3>1 DEF JobRecord
  <2>2. job'[j].pc = "done" /\ job'[j].again = FALSE
    BY <1>4 DEF B!Done, B!Waiting
  <2> QED
    BY <1>1, <1>4, <2>1, <2>2, OnlyTheJob DEF Covered, Working
<1> QED
  BY <1>1, <1>3, <1>4

LEMMA MarkInv == ASSUME HostedAssumption, HostedInv, NEW j \in Jobs, B!Mark(j) PROVE HostedInv'
<1> USE DEF HostedInv, B!TypeOK, HostedAssumption, B!Time
<1>1. /\ job[j].pc = "mark" /\ job' = [job EXCEPT ![j] = B!Done]
      /\ UNCHANGED <<clock, adapter, minimum, watermark, charged, hoursPaid, owed, cycle, gap,
                     excess, disturbed, failures>>
  BY DEF B!Mark
<1>2. \/ UNCHANGED <<status, endedAt>>
      \/ /\ status' \in {"STOPPED", "DELETED"}
         /\ endedAt' = IF status = "ACTIVE" THEN job[j].at ELSE endedAt
  BY DEF B!Mark, B!Ends
<1>3. B!TypeOK'
  <2>1. job' \in [Jobs -> JobRecord]
    BY <1>1, DoneIsQuiet DEF JobRecord
  <2> QED
    BY <1>1, <1>2, <2>1 DEF JobRecord
<1>4. job'[j].pc = "done" /\ job'[j].again = FALSE
  BY <1>1 DEF B!Done, B!Waiting
<1>5. Accounted' = Accounted /\ Accounted \in Int
  BY <1>1 DEF Accounted
<1>6. status = "ACTIVE" => Accounted >= job[j].at
  BY <1>1 DEF Cover, JobCovered, Covered
<1>7. EndCovered'
  BY <1>2, <1>5, <1>6 DEF Cover, EndCovered
<1>8. Covered(j)' /\ ~Working(j)'
  BY <1>4 DEF Covered, Working
<1> QED
  BY <1>1, <1>2, <1>3, <1>4, <1>5, <1>7, <1>8, JobMoves

LEMMA JobBreaksInv == ASSUME HostedAssumption, HostedInv, NEW j \in Jobs, B!JobBreaks(j) PROVE HostedInv'
<1> USE DEF HostedInv, B!TypeOK, HostedAssumption, B!Time
<1>1. /\ job' = [job EXCEPT ![j] = B!Done] /\ owed' \in Nat /\ owed' >= owed
      /\ UNCHANGED <<clock, adapter, minimum, status, watermark, charged, hoursPaid, cycle,
                     endedAt, gap, excess>>
  BY DEF B!JobBreaks
<1>2. disturbed' \in BOOLEAN
  BY Zenon DEF B!JobBreaks
<1>3. failures' \in 0..MaxFault
  BY DEF B!JobBreaks, B!Fail
<1>4. B!TypeOK'
  <2>1. job' \in [Jobs -> JobRecord]
    BY <1>1, DoneIsQuiet DEF JobRecord
  <2> QED
    BY <1>1, <1>2, <1>3, <2>1 DEF JobRecord
<1>5. job'[j].pc = "done" /\ job'[j].again = FALSE
  BY <1>1 DEF B!Done, B!Waiting
<1>6. Accounted' >= Accounted /\ Accounted \in Int /\ Accounted' \in Int
  BY <1>1 DEF Accounted
<1>7. EndCovered'
  BY <1>1, <1>6 DEF Cover, EndCovered
<1>8. Covered(j)' /\ ~Working(j)'
  BY <1>5 DEF Covered, Working
<1> QED
  BY <1>1, <1>4, <1>5, <1>6, <1>7, <1>8, JobMoves
-----------------------------------------------------------------------------
(* A top-up, the ledger's reconciler, time. *)
LEMMA ResumeInv == ASSUME HostedAssumption, HostedInv, B!Resume PROVE HostedInv'
<1> USE DEF HostedInv, B!TypeOK, HostedAssumption, B!Time
<1>1. /\ adapter = "phala" /\ status' = "ACTIVE" /\ watermark' = clock
      /\ gap' = gap + clock - watermark
      /\ UNCHANGED <<clock, adapter, minimum, charged, hoursPaid, owed, cycle, job, endedAt,
                     excess, failures>>
  BY DEF B!Resume
<1>2. disturbed' \in BOOLEAN
  BY Zenon DEF B!Resume
<1>3. clock - watermark \in Nat
  BY DEF Momentary
<1>4. B!TypeOK'
  BY <1>1, <1>2, <1>3
<1>5. Accounted' >= Accounted /\ Accounted \in Int /\ Accounted' >= clock
  BY <1>1, <1>3 DEF Accounted, Cover, WatermarkCovered
<1>6. \A t : Billable(t)' = Billable(t)
  BY <1>1 DEF Billable
<1>7. Momentary' /\ OnlySpheronAgain' /\ DueSuffices'
  BY <1>1, <1>6 DEF Momentary, Working, OnlySpheronAgain, DueSuffices
<1>8. WatermarkCovered' /\ KnownCovered' /\ EndCovered'
  BY <1>1, <1>5 DEF WatermarkCovered, KnownCovered, EndCovered
<1>9. CycleCovered' /\ ReadCovered'
  <2>1. cycle.pc # "idle" => cycle.from + Billable(cycle.from) <= clock /\ cycle.from <= clock
                             /\ Billable(cycle.from) \in Nat
    <3> SUFFICES ASSUME cycle.pc # "idle"
                 PROVE  /\ cycle.from + Billable(cycle.from) <= clock /\ cycle.from <= clock
                        /\ Billable(cycle.from) \in Nat
      OBVIOUS
    <3>1. cycle.from \in Nat /\ clock \in Nat
      OBVIOUS
    <3>2. cycle.from <= clock
      BY DEF Momentary
    <3> HIDE DEF HostedInv, B!TypeOK
    <3> QED
      BY <3>1, <3>2, BillableIsPast
  <2>2. clock \in Nat /\ cycle.from \in Nat /\ Accounted' \in Int
    BY <1>1, <1>3 DEF Accounted
  <2>3. cycle' = cycle /\ Billable(cycle.from)' = Billable(cycle.from)
    BY <1>1, <1>6
  <2> HIDE DEF HostedInv, B!TypeOK
  <2> QED
    BY <1>5, <2>1, <2>2, <2>3 DEF CycleCovered, ReadCovered
<1>10. JobCovered'
  <2> SUFFICES ASSUME NEW j \in Jobs PROVE Covered(j)'
    BY DEF JobCovered
  <2>1. Covered(j) /\ job'[j] = job[j]
    BY <1>1 DEF Cover, JobCovered
  <2>2. Accounted' \in Int
    BY <1>1, <1>3 DEF Accounted
  <2> QED
    BY <1>1, <1>5, <2>1, <2>2 DEF Covered
<1> QED
  BY <1>4, <1>7, <1>8, <1>9, <1>10 DEF Cover

LEMMA ReconcileInv == ASSUME HostedAssumption, HostedInv, B!Reconcile PROVE HostedInv'
<1> USE DEF HostedInv, B!TypeOK, HostedAssumption, B!Time
<1>1. /\ charged' = charged + owed /\ owed' = 0
      /\ UNCHANGED <<clock, adapter, minimum, status, watermark, hoursPaid, cycle, job, endedAt,
                     gap, excess, disturbed, failures>>
  BY DEF B!Reconcile
<1>2. B!TypeOK'
  BY <1>1
<1>3. Accounted' = Accounted /\ Accounted \in Int
  BY <1>1 DEF Accounted
<1> QED
  BY <1>1, <1>2, <1>3, MoreCharged

\* No cycle is at work, and no key of the next tick is known.
LEMMA TickInv == ASSUME HostedAssumption, HostedInv, B!Tick PROVE HostedInv'
<1> USE DEF HostedInv, B!TypeOK, HostedAssumption, B!Time
<1>1. /\ clock < MaxNow /\ clock' = clock + 1 /\ cycle.pc = "idle"
      /\ \A j \in Jobs : ~Working(j)
      /\ UNCHANGED <<adapter, minimum, status, watermark, charged, hoursPaid, owed, cycle, job,
                     endedAt, gap, excess, disturbed, failures>>
  BY DEF B!Tick, Working
<1>2. B!TypeOK'
  BY <1>1
<1>3. \A h \in hoursPaid : h * HourTicks \in Int /\ h * HourTicks <= clock
  <2>1. \A h \in Int : h * HourTicks \in Int
    OBVIOUS
  <2> QED
    BY <2>1 DEF Momentary
<1>4. Momentary' /\ OnlySpheronAgain' /\ DueSuffices'
  BY <1>1, <1>3 DEF Momentary, Working, OnlySpheronAgain, DueSuffices
<1>5. ~(clock' % HourTicks = 0 /\ HourIsKnown')
  <2> SUFFICES ASSUME clock' % HourTicks = 0, HourIsKnown' PROVE FALSE
    OBVIOUS
  <2> DEFINE hour == clock' \div HourTicks
  <2>1. hour * HourTicks = clock'
    BY <1>1, <1>2, WholeHours
  <2>2. hour \in hoursPaid
    BY <1>1 DEF HourIsKnown
  <2> HIDE DEF hour
  <2> QED
    BY <1>1, <1>3, <2>1, <2>2
<1>6. Accounted' = Accounted
  BY <1>1 DEF Accounted
<1>7. Cover'
  BY <1>1, <1>5, <1>6
  DEF Cover, WatermarkCovered, KnownCovered, CycleCovered, ReadCovered, JobCovered, Covered, EndCovered
<1> QED
  BY <1>2, <1>4, <1>7

LEMMA HostedNext == HostedAssumption /\ HostedInv /\ [B!Next]_bvars => HostedInv'
<1> SUFFICES ASSUME HostedAssumption, HostedInv, [B!Next]_bvars PROVE HostedInv'
  OBVIOUS
<1>1. CASE B!CycleReads
  BY <1>1, CycleReadsInv
<1>2. CASE B!CycleStep
  BY <1>2, CycleDebitsInv, CycleEndsInv, CycleMirrorsInv DEF B!CycleStep
<1>3. CASE B!CycleBreaks
  BY <1>3, CycleEndsInv
<1>4. CASE B!Resume
  BY <1>4, ResumeInv
<1>5. CASE B!Reconcile
  BY <1>5, ReconcileInv
<1>6. CASE B!Tick
  BY <1>6, TickInv
<1>7. CASE \E j \in Jobs : B!Begin(j) \/ B!JobStep(j) \/ B!DebitFails(j) \/ B!JobBreaks(j)
  BY <1>7, BeginInv, SettleInv, DebitInv, MoveWatermarkInv, SettleAgainInv, StopUpstreamInv,
     MarkInv, JobBreaksInv DEF B!JobStep
<1>8. CASE UNCHANGED bvars
  <2>1. B!TypeOK' /\ Accounted' = Accounted /\ Accounted \in Int
    BY <1>8 DEF bvars, HostedInv, B!TypeOK, Accounted, HostedAssumption, B!Time
  <2> QED
    BY <1>8, <2>1, MoreCharged DEF bvars, HostedInv
<1> QED
  BY <1>1, <1>2, <1>3, <1>4, <1>5, <1>6, <1>7, <1>8 DEF B!Next

-----------------------------------------------------------------------------
(* Nothing is charged twice. *)

\* Who is about to change what was charged, or the watermark.
Busy == {"debit", "write"}
Exact ==
  /\ \A j \in Jobs : job[j].pc \in Busy =>
       cycle.pc = "idle" /\ \A i \in Jobs \ {j} : job[i].pc \notin Busy
  /\ cycle.pc # "idle" => watermark = cycle.from
  /\ \A j \in Jobs : job[j].pc = "debit" => watermark = job[j].from
  /\ cycle.pc # "mirror" /\ (\A j \in Jobs : job[j].pc # "write") => Accounted = watermark + excess
  /\ cycle.pc = "mirror" => Accounted = watermark + Billable(watermark) + excess
  /\ \A j \in Jobs : job[j].pc = "write" => Accounted = job[j].at + excess
  /\ clock % HourTicks = 0 /\ HourIsKnown /\ cycle.pc # "mirror" => watermark > clock - HourTicks

LEMMA ExactInit == HostedAssumption /\ B!Init => Exact
<1> SUFFICES ASSUME HostedAssumption, B!Init PROVE Exact
  OBVIOUS
<1>1. /\ clock = StartedAt /\ watermark = StartedAt /\ charged = 0 /\ hoursPaid = {} /\ owed = 0
      /\ cycle.pc = "idle" /\ gap = 0 /\ excess = 0 /\ \A j \in Jobs : job[j].pc = "new"
  BY DEF B!Init, B!Idle, B!Waiting
<1> QED
  BY <1>1 DEF HostedAssumption, Exact, Busy, Accounted, HourIsKnown

\* A step that leaves the charges and the watermark to others.
LEMMA ExactKept ==
  ASSUME HostedInv, Exact, UNCHANGED <<clock, watermark, hoursPaid, cycle, excess>>,
         Accounted' = Accounted,
         \A i \in Jobs : \/ job'[i] = job[i]
                         \/ job[i].pc \notin Busy /\ job'[i].pc \notin Busy
  PROVE  Exact'
<1>1. \A t : Billable(t)' = Billable(t)
  BY DEF Billable
<1>2. HourIsKnown' = HourIsKnown
  BY DEF HourIsKnown
<1> QED
  BY <1>1, <1>2 DEF Exact, Busy

LEMMA IdleJobs == ~B!Settling <=> \A j \in Jobs : job[j].pc \notin Busy
BY DEF B!Settling, Busy

LEMMA CycleExact ==
  ASSUME HostedAssumption, HostedInv, Exact,
         \/ B!CycleReads /\ \A j \in Jobs : job[j].pc \notin Busy
         \/ B!CycleDebits \/ B!CycleRefused \/ B!CycleMirrors
  PROVE  Exact'
<1> USE DEF HostedInv, B!TypeOK, HostedAssumption, B!Time
<1>1. \A t : clock' = clock => Billable(t)' = Billable(t)
  BY DEF Billable
<1>2. Accounted \in Int /\ (cycle.pc # "idle" => cycle.from + Billable(cycle.from) <= clock
        /\ cycle.from + Billable(cycle.from) > clock - HourTicks /\ Billable(cycle.from) \in Nat)
  BY BillableIsPast DEF Accounted, Momentary
<1>3. CASE B!CycleReads /\ \A j \in Jobs : job[j].pc \notin Busy
  <2>1. /\ cycle'.pc = "debit" /\ cycle'.from = watermark /\ cycle.pc = "idle"
        /\ UNCHANGED <<clock, watermark, charged, hoursPaid, owed, job, gap, excess>>
    BY <1>3 DEF B!CycleReads
  <2>2. Accounted' = Accounted /\ HourIsKnown' = HourIsKnown
    BY <2>1 DEF Accounted, HourIsKnown
  <2> QED
    BY <1>3, <2>1, <2>2 DEF Exact, Busy
<1>4. CASE B!CycleDebits
  <2> DEFINE hour == clock \div HourTicks
  <2>1. /\ cycle.pc = "debit" /\ cycle.at = clock /\ clock % HourTicks = 0
        /\ cycle.hours * HourTicks = Billable(cycle.from) /\ cycle.hours >= 1
    BY <1>4 DEF B!CycleDebits, Momentary
  <2>2. /\ cycle'.pc = "mirror" /\ cycle'.from = cycle.from
        /\ charged' = charged + IF hour \in hoursPaid THEN 0 ELSE Billable(cycle.from)
        /\ UNCHANGED <<clock, watermark, owed, job, gap, excess>>
    BY <1>4, <2>1 DEF B!CycleDebits
  <2>3. Billable(cycle.from) >= HourTicks
    <3>1. \A n \in Nat : n >= 1 => n * HourTicks >= HourTicks
      BY DEF HostedAssumption
    <3> QED
      BY <2>1, <3>1
  <2>4. hour \notin hoursPaid
    BY <1>2, <2>1, <2>3 DEF Exact, HourIsKnown
  <2> HIDE DEF hour
  <2>5. Accounted' = Accounted + Billable(cycle.from)
    BY <1>2, <2>1, <2>2, <2>4 DEF Accounted
  <2>6. \A j \in Jobs : job[j].pc \notin Busy
    BY <2>1 DEF Exact
  <2> QED
    BY <1>1, <1>2, <2>1, <2>2, <2>5, <2>6 DEF Exact, Busy
<1>5. CASE B!CycleRefused
  <2>1. /\ cycle.pc = "debit" /\ cycle'.pc = "idle"
        /\ UNCHANGED <<clock, watermark, charged, hoursPaid, owed, job, gap, excess>>
    BY <1>5 DEF B!CycleRefused, B!Idle
  <2>2. Accounted' = Accounted /\ HourIsKnown' = HourIsKnown
    BY <2>1 DEF Accounted, HourIsKnown
  <2> QED
    BY <2>1, <2>2 DEF Exact, Busy
<1>6. CASE B!CycleMirrors
  <2>1. /\ cycle.pc = "mirror" /\ cycle.at = clock /\ watermark = cycle.from
        /\ cycle.hours * HourTicks = Billable(cycle.from)
    BY <1>6 DEF B!CycleMirrors, Momentary, Exact
  <2>2. /\ watermark' = cycle.from + Billable(cycle.from) /\ cycle'.pc = "idle"
        /\ UNCHANGED <<clock, charged, hoursPaid, owed, job, gap, excess>>
    BY <1>2, <1>6, <2>1 DEF B!CycleMirrors, B!Shorter, B!Idle
  <2>3. Accounted' = Accounted /\ HourIsKnown' = HourIsKnown
    BY <2>2 DEF Accounted, HourIsKnown
  <2> QED
    BY <1>2, <2>1, <2>2, <2>3 DEF Exact, Busy
<1> QED
  BY <1>3, <1>4, <1>5, <1>6

LEMMA SettlementExact ==
  ASSUME HostedAssumption, HostedInv, Exact, NEW j \in Jobs,
         \/ B!Settle(j) /\ cycle.pc = "idle" /\ \A i \in Jobs : job[i].pc \notin Busy
         \/ B!Debit(j) \/ B!MoveWatermark(j)
  PROVE  Exact'
<1> USE DEF HostedInv, B!TypeOK, HostedAssumption, B!Time
<1>1. Accounted \in Int
  BY DEF Accounted
<1>2. CASE B!Settle(j) /\ cycle.pc = "idle" /\ \A i \in Jobs : job[i].pc \notin Busy
  <2>1. /\ job'[j].pc \in {"stop", "debit"} /\ job'[j].from = watermark
        /\ \A i \in Jobs \ {j} : job'[i] = job[i]
        /\ UNCHANGED <<clock, watermark, charged, hoursPaid, owed, cycle, gap, excess>>
    BY <1>2 DEF B!Settle
  <2>2. Accounted' = Accounted /\ HourIsKnown' = HourIsKnown
    BY <2>1 DEF Accounted, HourIsKnown
  <2> QED
    BY <1>1, <1>2, <2>1, <2>2 DEF Exact, Busy
<1>3. CASE B!Debit(j)
  <2>1. /\ job[j].pc = "debit" /\ job'[j].pc = "write" /\ job'[j].at = job[j].at
        /\ \A i \in Jobs \ {j} : job'[i] = job[i]
        /\ charged' = charged + job[j].due
        /\ excess' = excess + job[j].due - (job[j].at - job[j].from)
        /\ UNCHANGED <<clock, watermark, hoursPaid, owed, cycle, gap>>
    BY <1>3 DEF B!Debit
  <2>2. Accounted' = Accounted + job[j].due /\ HourIsKnown' = HourIsKnown
    BY <2>1 DEF Accounted, HourIsKnown
  <2>3. /\ cycle.pc = "idle" /\ \A i \in Jobs \ {j} : job[i].pc \notin Busy
        /\ watermark = job[j].from
    BY <2>1 DEF Exact, Busy
  <2>4. Accounted = watermark + excess
    BY <2>1, <2>3 DEF Exact, Busy
  <2>5. Accounted' = job'[j].at + excess'
    BY <2>1, <2>2, <2>3, <2>4
  <2> QED
    BY <2>1, <2>2, <2>3, <2>5 DEF Exact, Busy
<1>4. CASE B!MoveWatermark(j)
  <2>1. /\ job[j].pc = "write" /\ job'[j].pc = "stop" /\ watermark' = job[j].at
        /\ \A i \in Jobs \ {j} : job'[i] = job[i]
        /\ UNCHANGED <<clock, charged, hoursPaid, owed, cycle, gap, excess>>
    BY <1>4 DEF B!MoveWatermark
  <2>2. Accounted' = Accounted /\ HourIsKnown' = HourIsKnown
    BY <2>1 DEF Accounted, HourIsKnown
  <2>3. job[j].at = clock
    BY <2>1 DEF Momentary, Working
  <2>4. cycle.pc = "idle" /\ (\A i \in Jobs \ {j} : job[i].pc \notin Busy) /\ Accounted = job[j].at + excess
    BY <2>1 DEF Exact, Busy
  <2> QED
    BY <1>1, <2>1, <2>2, <2>3, <2>4 DEF Exact, Busy
<1> QED
  BY <1>2, <1>3, <1>4

\* The other steps of a job.
LEMMA StopExact ==
  ASSUME HostedAssumption, HostedInv, Exact, NEW j \in Jobs,
         \/ B!Begin(j) \/ B!SettleAgain(j) \/ B!StopUpstream(j) \/ B!Mark(j)
         \/ B!JobBreaks(j) /\ job[j].pc \notin Busy
  PROVE  Exact'
<1> USE DEF HostedInv, B!TypeOK, Busy
<1>1. UNCHANGED <<clock, watermark, charged, hoursPaid, owed, cycle, gap, excess>>
  <2>1. CASE B!Begin(j)
    BY <2>1 DEF B!Begin
  <2>2. CASE B!SettleAgain(j) \/ B!StopUpstream(j) \/ B!Mark(j)
    BY <2>2 DEF B!SettleAgain, B!StopUpstream, B!Mark
  <2>3. CASE B!JobBreaks(j) /\ job[j].pc \notin Busy
    BY <2>3 DEF B!JobBreaks
  <2> QED
    BY <2>1, <2>2, <2>3
<1>2. Accounted' = Accounted
  BY <1>1 DEF Accounted
<1>3. job[j].pc \notin Busy /\ job'[j].pc \notin Busy /\ \A i \in Jobs \ {j} : job'[i] = job[i]
  <2>1. B!Done.pc = "done"
    BY DEF B!Done, B!Waiting
  <2>2. B!Begin(j) => \E sort, again : job' = [job EXCEPT ![j] = [B!Waiting EXCEPT !.pc = "read",
                              !.kind = sort, !.at = clock, !.again = again]]
    BY Zenon DEF B!Begin
  <2>3. \A sort, again : [B!Waiting EXCEPT !.pc = "read", !.kind = sort, !.at = clock, !.again = again].pc = "read"
    BY DEF B!Waiting
  <2>4. CASE B!Begin(j)
    <3>1. job[j].pc = "new"
      BY <2>4 DEF B!Begin
    <3>2. PICK sort, again : job' = [job EXCEPT ![j] = [B!Waiting EXCEPT !.pc = "read",
                              !.kind = sort, !.at = clock, !.again = again]]
      BY <2>2, <2>4
    <3>3. job'[j].pc = "read"
      BY <2>3, <3>2
    <3> QED
      BY <3>1, <3>2, <3>3
  <2>5. CASE B!SettleAgain(j)
    BY <2>1, <2>5 DEF B!SettleAgain
  <2>6. CASE B!StopUpstream(j)
    BY <2>1, <2>6 DEF B!StopUpstream
  <2>7. CASE B!Mark(j)
    BY <2>1, <2>7 DEF B!Mark
  <2>8. CASE B!JobBreaks(j) /\ job[j].pc \notin Busy
    BY <2>1, <2>8 DEF B!JobBreaks
  <2> QED
    BY <2>4, <2>5, <2>6, <2>7, <2>8
<1> HIDE DEF Busy
<1> QED
  BY <1>1, <1>2, <1>3, ExactKept

LEMMA RestExact ==
  ASSUME HostedAssumption, HostedInv, Exact,
         \/ B!Resume /\ cycle.pc = "idle" /\ \A i \in Jobs : job[i].pc \notin Busy
         \/ B!Reconcile \/ B!Tick \/ UNCHANGED bvars
  PROVE  Exact'
<1> USE DEF HostedInv, B!TypeOK, HostedAssumption, B!Time
<1>1. Accounted \in Int
  BY DEF Accounted
<1>2. CASE B!Resume /\ cycle.pc = "idle" /\ \A i \in Jobs : job[i].pc \notin Busy
  <2>1. /\ watermark' = clock /\ gap' = gap + clock - watermark
        /\ UNCHANGED <<clock, charged, hoursPaid, owed, cycle, job, excess>>
    BY <1>2 DEF B!Resume
  <2>2. Accounted = watermark + excess
    BY <1>2 DEF Exact, Busy
  <2>3. Accounted' = clock + excess
    BY <2>1, <2>2 DEF Accounted
  <2> QED
    BY <1>2, <2>1, <2>3 DEF Exact, Busy
<1>3. CASE B!Reconcile \/ UNCHANGED bvars
  <2>1. /\ UNCHANGED <<clock, watermark, hoursPaid, cycle, job, gap, excess>>
        /\ charged' + owed' = charged + owed
    BY <1>3 DEF B!Reconcile, bvars
  <2>2. Accounted' = Accounted
    BY <1>3 DEF B!Reconcile, bvars, Accounted
  <2> QED
    BY <2>1, <2>2, ExactKept
<1>4. CASE B!Tick
  <2>1. /\ cycle.pc = "idle" /\ clock' = clock + 1 /\ clock' \in Nat
        /\ \A j \in Jobs : job[j].pc \notin Busy
        /\ UNCHANGED <<watermark, charged, hoursPaid, owed, cycle, job, gap, excess>>
    BY <1>4 DEF B!Tick, Busy
  <2>2. Accounted' = Accounted
    BY <2>1 DEF Accounted
  <2>3. ~(clock' % HourTicks = 0 /\ HourIsKnown')
    <3> SUFFICES ASSUME clock' % HourTicks = 0, HourIsKnown' PROVE FALSE
      OBVIOUS
    <3> DEFINE hour == clock' \div HourTicks
    <3>1. hour * HourTicks = clock'
      BY <2>1, WholeHours
    <3>2. hour \in hoursPaid
      BY <2>1 DEF HourIsKnown
    <3>3. \A h \in hoursPaid : h * HourTicks <= clock
      BY DEF Momentary
    <3> HIDE DEF hour
    <3> QED
      BY <2>1, <3>1, <3>2, <3>3
  <2>4. Accounted = watermark + excess
    BY <2>1 DEF Exact, Busy
  <2> QED
    BY <2>1, <2>2, <2>3, <2>4 DEF Exact, Busy
<1> QED
  BY <1>2, <1>3, <1>4

\* What disturbs is remembered.
LEMMA ExactNext ==
  ASSUME HostedAssumption, HostedInv, [B!Next]_bvars, ~disturbed => Exact
  PROVE  ~disturbed' => Exact'
<1> SUFFICES ASSUME ~disturbed' PROVE Exact'
  OBVIOUS
<1>1. CASE B!CycleReads
  <2>1. ~disturbed /\ ~B!Settling
    BY <1>1, Zenon DEF B!CycleReads
  <2> QED
    BY <1>1, <2>1, IdleJobs, CycleExact
<1>2. CASE B!CycleStep
  <2>1. ~disturbed
    BY <1>2, Zenon DEF B!CycleStep, B!CycleDebits, B!CycleRefused, B!CycleMirrors
  <2> QED
    BY <1>2, <2>1, CycleExact DEF B!CycleStep
<1>3. ~B!CycleBreaks
  BY Zenon DEF B!CycleBreaks
<1>4. CASE B!Resume
  <2>1. ~disturbed /\ ~B!Settling /\ cycle.pc = "idle"
    BY <1>4, Zenon DEF B!Resume
  <2> QED
    BY <1>4, <2>1, IdleJobs, RestExact
<1>5. CASE B!Reconcile \/ B!Tick \/ UNCHANGED bvars
  <2>1. ~disturbed
    BY <1>5, Zenon DEF B!Reconcile, B!Tick, bvars
  <2> QED
    BY <1>5, <2>1, RestExact
<1>6. ASSUME NEW j \in Jobs, B!Begin(j) \/ B!JobStep(j) \/ B!DebitFails(j) \/ B!JobBreaks(j) PROVE Exact'
  <2>1. CASE B!Settle(j)
    <3>1. ~disturbed /\ ~B!Settling /\ cycle.pc = "idle"
      BY <2>1, Zenon DEF B!Settle
    <3> QED
      BY <2>1, <3>1, IdleJobs, SettlementExact
  <2>2. CASE B!Debit(j) \/ B!MoveWatermark(j)
    <3>1. ~disturbed
      BY <2>2, Zenon DEF B!Debit, B!MoveWatermark
    <3> QED
      BY <2>2, <3>1, SettlementExact
  <2>3. CASE B!Begin(j) \/ B!SettleAgain(j) \/ B!StopUpstream(j) \/ B!Mark(j)
    <3>1. ~disturbed
      BY <2>3, Zenon DEF B!Begin, B!SettleAgain, B!StopUpstream, B!Mark
    <3> QED
      BY <2>3, <3>1, StopExact
  <2>4. ~B!DebitFails(j)
    BY Zenon DEF B!DebitFails
  <2>5. CASE B!JobBreaks(j)
    <3>1. ~disturbed /\ job[j].pc \notin Busy
      BY <2>5, Zenon DEF B!JobBreaks, Busy
    <3> QED
      BY <2>5, <3>1, StopExact
  <2> QED
    BY <1>6, <2>1, <2>2, <2>3, <2>4, <2>5 DEF B!JobStep
<1> QED
  BY <1>1, <1>2, <1>3, <1>4, <1>5, <1>6 DEF B!Next

LEMMA ExactIsOnce == HostedInv /\ HostedAssumption /\ (~disturbed => Exact) => B!ChargedOnce
<1> SUFFICES ASSUME HostedInv, HostedAssumption, ~disturbed => Exact, ~disturbed, cycle.pc = "idle", ~B!Settling
             PROVE  charged + owed = watermark - StartedAt - gap + excess
  BY DEF B!ChargedOnce
<1>1. \A j \in Jobs : job[j].pc # "write"
  BY DEF B!Settling
<1>2. Accounted = watermark + excess
  BY <1>1 DEF Exact
<1> QED
  BY <1>2 DEF Accounted, HostedInv, B!TypeOK, HostedAssumption, B!Time


(* Failover *)

\* The rows are numbered in the order of their creation.
RowsDense == \E n \in 0..MaxRows : F!Used = 1..n

\* Rows whose pipeline has ended, and those of them that it placed.
Past   == F!Used \ F!Is({"CREATING"})
Hosted == {r \in Past : row[r].provider \in Providers}

Elsewhere == \A r \in F!Is({"ACTIVE"}) : row[r].provider \in Providers \ row[r].excluded

\* Where a row comes from it does not go.
Chain(r) == /\ row[r].lineage \subseteq Past
            /\ \A s \in row[r].lineage : row[s].provider \in row[r].excluded \cup {NoProvider}
Chains == \A r \in F!ServiceRows : Chain(r)

\* A pass works on rows that were placed, and remembers what they exclude.
PassOK(p) ==
  /\ pass[p].todo \cup pass[p].gone \cup pass[p].sick \subseteq Hosted
  /\ pass[p].pc \in {"close", "spawn"} =>
       /\ pass[p].at \in Hosted
       /\ row[pass[p].at].excluded \cup {row[pass[p].at].provider} \subseteq pass[p].excluded
  /\ pass[p].pc = "publish" => pass[p].at \in F!Used
PassesOK == \A p \in Pods : PassOK(p)

FailoverInv == F!TypeOK /\ RowsDense /\ Elsewhere /\ Chains /\ PassesOK /\ overlaps <= upset

RowRecord ==
  [status : {"ABSENT", "CREATING", "ACTIVE", "CLOSED", "FAILED", "PERMANENTLY_FAILED"},
   provider : Providers \cup {NoProvider}, excluded : SUBSET Providers,
   failover : BOOLEAN, tries : 0..MaxRetry, lineage : SUBSET F!ServiceRows,
   why : {"none", "deterministic", "cancelled", "exhausted"}]

PassRecord ==
  [pc : {"idle", "probe", "act", "close", "spawn", "publish"}, todo : SUBSET F!ServiceRows,
   gone : SUBSET F!ServiceRows, sick : SUBSET F!ServiceRows, at : F!ServiceRows,
   excluded : SUBSET Providers]

-----------------------------------------------------------------------------
LEMMA AbsentIsARow == ASSUME FailoverAssumption PROVE F!Absent \in RowRecord
<1>1. 0 \in 0..MaxRetry
  BY DEF FailoverAssumption
<1>2. /\ "ABSENT" \in {"ABSENT", "CREATING", "ACTIVE", "CLOSED", "FAILED", "PERMANENTLY_FAILED"}
      /\ "none" \in {"none", "deterministic", "cancelled", "exhausted"}
  OBVIOUS
<1> QED
  BY <1>1, <1>2, Zenon DEF F!Absent, RowRecord

\* The row of a replacement; its flag's set is a parameter, which keeps
\* Booleans out of the arithmetic prover's way.
LEMMA Replacement ==
  ASSUME NEW Status, NEW Provider, NEW Excluded, NEW Flags, NEW Tries, NEW Lineage, NEW Whys,
         NEW w \in [status : Status, provider : Provider, excluded : Excluded, failover : Flags,
                    tries : Tries, lineage : Lineage, why : Whys],
         "CREATING" \in Status, NEW excluded \in Excluded, NEW flag \in Flags,
         NEW lineage \in Lineage,
         NEW new, new = [w EXCEPT !.status = "CREATING", !.failover = flag, !.excluded = excluded,
                                  !.lineage = lineage]
  PROVE  /\ new \in [status : Status, provider : Provider, excluded : Excluded, failover : Flags,
                     tries : Tries, lineage : Lineage, why : Whys]
         /\ new.status = "CREATING" /\ new.excluded = excluded /\ new.lineage = lineage
OBVIOUS

\* The fields that steps change in a row that is there.
LEMMA Editing ==
  ASSUME NEW Status, NEW Provider, NEW Excluded, NEW Flags, NEW Tries, NEW Lineage, NEW Whys,
         NEW w \in [status : Status, provider : Provider, excluded : Excluded, failover : Flags,
                    tries : Tries, lineage : Lineage, why : Whys],
         NEW st \in Status, NEW provider \in Provider, NEW why \in Whys
  PROVE  /\ [w EXCEPT !.status = st]
              \in [status : Status, provider : Provider, excluded : Excluded, failover : Flags,
                  tries : Tries, lineage : Lineage, why : Whys]
         /\ [w EXCEPT !.status = st, !.provider = provider]
              \in [status : Status, provider : Provider, excluded : Excluded, failover : Flags,
                  tries : Tries, lineage : Lineage, why : Whys]
         /\ [w EXCEPT !.status = st, !.provider = provider, !.why = why]
              \in [status : Status, provider : Provider, excluded : Excluded, failover : Flags,
                  tries : Tries, lineage : Lineage, why : Whys]
OBVIOUS

LEMMA Edited ==
  ASSUME NEW w \in RowRecord,
         NEW st \in {"ABSENT", "CREATING", "ACTIVE", "CLOSED", "FAILED", "PERMANENTLY_FAILED"},
         NEW provider \in Providers \cup {NoProvider},
         NEW why \in {"none", "deterministic", "cancelled", "exhausted"}
  PROVE  /\ [w EXCEPT !.status = st] \in RowRecord
         /\ [w EXCEPT !.status = st, !.provider = provider] \in RowRecord
         /\ [w EXCEPT !.status = st, !.provider = provider, !.why = why] \in RowRecord
BY Editing DEF RowRecord

LEMMA FailoverTypes == F!TypeOK => /\ row \in [F!ServiceRows -> RowRecord] /\ pass \in [Pods -> PassRecord]
                         /\ message \subseteq F!Used
BY Zenon DEF F!TypeOK, RowRecord, PassRecord

LEMMA FailoverTypesKept ==
  ASSUME F!TypeOK, UNCHANGED <<lease, leader, streak, pass, overlaps, threw, upset>>,
         row' \in [F!ServiceRows -> RowRecord], message' \subseteq F!Used', {userClosed'} \subseteq BOOLEAN
  PROVE  F!TypeOK'
<1>1. {userClosed', threw'} \subseteq BOOLEAN
  BY Zenon DEF F!TypeOK
<1> QED
  BY <1>1, Zenon DEF F!TypeOK, RowRecord

\* A new row takes the first number that is not used.
LEMMA NextRowIsAbsent ==
  ASSUME FailoverAssumption, FailoverInv, F!NextRow \in F!ServiceRows
  PROVE  row[F!NextRow].status = "ABSENT" /\ F!Used \cup {F!NextRow} = 1..F!NextRow
<1>1. PICK n \in 0..MaxRows : F!Used = 1..n
  BY DEF FailoverInv, RowsDense
<1>2. Cardinality(1..n) = n
  BY <1>1, FS_Interval DEF FailoverAssumption
<1>3. F!NextRow = n + 1
  BY <1>1, <1>2, Counting DEF F!NextRow
<1>4. n + 1 \notin 1..n
  OBVIOUS
<1>5. F!NextRow \notin F!Used
  BY <1>1, <1>3, <1>4
<1> QED
  BY <1>1, <1>3, <1>5 DEF F!Used, F!Is

LEMMA FailoverInit == FailoverAssumption /\ F!Init => FailoverInv
<1> SUFFICES ASSUME FailoverAssumption, F!Init PROVE FailoverInv
  OBVIOUS
<1> DEFINE first == [F!Absent EXCEPT !.status = "CREATING"]
<1>1. first \in RowRecord /\ first.status = "CREATING" /\ first.lineage = {}
  <2>1. F!Absent \in RowRecord /\ F!Absent.lineage = {}
    BY AbsentIsARow DEF F!Absent
  <2> QED
    BY <2>1 DEF RowRecord
<1>2. F!Absent \in RowRecord /\ F!Absent.status = "ABSENT" /\ F!Absent.lineage = {}
  BY AbsentIsARow DEF F!Absent
<1>3. row = [r \in F!ServiceRows |-> IF r = 1 THEN first ELSE F!Absent]
  BY DEF F!Init
<1> HIDE DEF first
<1>4. 1 \in F!ServiceRows
  BY DEF F!ServiceRows, FailoverAssumption
<1>5. F!Used = {1} /\ F!Is({"ACTIVE"}) = {}
  BY <1>1, <1>2, <1>3, <1>4 DEF F!Used, F!Is
<1>6. F!TypeOK
  <2>1. row \in [F!ServiceRows -> RowRecord]
    BY <1>1, <1>2, <1>3
  <2>2. lease \in [F!ServiceRows -> {"up", "down", "gone"}] /\ message \subseteq F!Used
    BY <1>5 DEF F!Init
  <2>3. streak \in [Pods -> [F!ServiceRows -> [gone : Nat, sick : Nat]]]
    BY DEF F!Init, F!Quiet
  <2>4. pass \in [Pods -> PassRecord]
    BY <1>4 DEF F!Init, F!NoPass, PassRecord
  <2>5. {userClosed, threw} \subseteq BOOLEAN
    BY Zenon DEF F!Init
  <2>6. leader \in Pods /\ overlaps \in 0..MaxUpset /\ upset \in 0..MaxUpset
    BY DEF F!Init, FailoverAssumption
  <2> QED
    BY <2>1, <2>2, <2>3, <2>4, <2>5, <2>6, Zenon DEF F!TypeOK, RowRecord, PassRecord
<1>7. RowsDense
  BY <1>5 DEF RowsDense, FailoverAssumption
<1>8. Elsewhere /\ Chains
  BY <1>1, <1>2, <1>3, <1>5 DEF Elsewhere, Chains, Chain
<1>9. PassesOK
  BY DEF F!Init, F!NoPass, PassesOK, PassOK
<1>10. overlaps <= upset
  BY DEF F!Init
<1> QED
  BY <1>6, <1>7, <1>8, <1>9, <1>10 DEF FailoverInv

-----------------------------------------------------------------------------
(* What every step leaves alone. *)
KeepsPast == \A r \in Past :
  /\ row'[r].status \notin {"ABSENT", "CREATING"} /\ row'[r].provider = row[r].provider
  /\ row'[r].excluded = row[r].excluded

LEMMA PastStays ==
  ASSUME KeepsPast
  PROVE  Past \subseteq Past' /\ Hosted \subseteq Hosted'
BY DEF KeepsPast, Past, Hosted, F!Used, F!Is

LEMMA PassKept ==
  ASSUME FailoverInv, KeepsPast, F!Used \subseteq F!Used', NEW p \in Pods, pass'[p] = pass[p]
  PROVE  PassOK(p)'
<1>1. PassOK(p)
  BY DEF FailoverInv, PassesOK
<1>2. Hosted \subseteq Hosted'
  BY PastStays
<1>3. pass[p].at \in Hosted => /\ row'[pass[p].at].excluded = row[pass[p].at].excluded
                               /\ row'[pass[p].at].provider = row[pass[p].at].provider
  BY DEF KeepsPast, Hosted
<1> QED
  BY <1>1, <1>2, <1>3 DEF PassOK

\* A step that changes rows where they are.
LEMMA InPlace ==
  ASSUME FailoverInv, F!TypeOK', KeepsPast, overlaps' <= upset',
         \A r \in F!ServiceRows :
           /\ row'[r].lineage = row[r].lineage /\ row'[r].excluded = row[r].excluded
           /\ row'[r].status = "ABSENT" <=> row[r].status = "ABSENT"
           /\ row'[r].status = "ACTIVE" => row'[r].provider \in Providers \ row[r].excluded,
         \A p \in Pods : pass'[p] = pass[p] \/ PassOK(p)'
  PROVE  FailoverInv'
<1>1. F!Used' = F!Used
  BY DEF F!Used, F!Is
<1>2. RowsDense'
  BY <1>1 DEF FailoverInv, RowsDense
<1>3. Elsewhere'
  BY DEF Elsewhere, F!Is
<1>4. Chains'
  <2> SUFFICES ASSUME NEW r \in F!ServiceRows PROVE Chain(r)'
    BY DEF Chains
  <2>1. Chain(r)
    BY DEF FailoverInv, Chains
  <2> QED
    BY <2>1, PastStays DEF Chain, KeepsPast
<1>5. PassesOK'
  BY <1>1, PassKept DEF PassesOK
<1> QED
  BY <1>2, <1>3, <1>4, <1>5 DEF FailoverInv

\* A step that creates a row.
LEMMA Creates ==
  ASSUME FailoverAssumption, FailoverInv, F!TypeOK', KeepsPast, overlaps' <= upset',
         F!NextRow \in F!ServiceRows, row'[F!NextRow].status = "CREATING",
         \A s \in row'[F!NextRow].lineage :
           s \in Past' /\ row'[s].provider \in row'[F!NextRow].excluded \cup {NoProvider},
         \A r \in F!ServiceRows \ {F!NextRow} :
           /\ row'[r].lineage = row[r].lineage /\ row'[r].excluded = row[r].excluded
           /\ row'[r].status = "ABSENT" <=> row[r].status = "ABSENT"
           /\ row'[r].status = "ACTIVE" => row'[r].provider \in Providers \ row[r].excluded,
         \A p \in Pods : pass'[p] = pass[p] \/ PassOK(p)'
  PROVE  FailoverInv'
<1> DEFINE n == F!NextRow
<1>1. row[n].status = "ABSENT" /\ F!Used \cup {n} = 1..n
  BY NextRowIsAbsent
<1>2. n \in F!ServiceRows /\ row'[n].status = "CREATING"
  OBVIOUS
<1> HIDE DEF n
<1>3. F!Used' = F!Used \cup {n}
  BY <1>1, <1>2 DEF F!Used, F!Is, n
<1>4. RowsDense'
  <2>1. n \in 0..MaxRows
    BY <1>2 DEF F!ServiceRows, FailoverAssumption
  <2> QED
    BY <1>1, <1>3, <2>1 DEF RowsDense
<1>5. Elsewhere'
  BY <1>2 DEF Elsewhere, F!Is, n
<1>6. Chains'
  <2> SUFFICES ASSUME NEW r \in F!ServiceRows PROVE Chain(r)'
    BY DEF Chains
  <2>1. CASE r = n
    BY <2>1 DEF Chain, n
  <2>2. CASE r # n
    <3>1. Chain(r)
      BY DEF FailoverInv, Chains
    <3> QED
      BY <2>2, <3>1, PastStays DEF Chain, KeepsPast, n
  <2> QED
    BY <2>1, <2>2
<1>7. PassesOK'
  BY <1>3, PassKept DEF PassesOK
<1> QED
  BY <1>4, <1>5, <1>6, <1>7 DEF FailoverInv

-----------------------------------------------------------------------------
(* The pipeline, the user, the provider. *)
LEMMA PlacedInv ==
  ASSUME FailoverAssumption, FailoverInv, NEW r \in F!ServiceRows, NEW p \in Providers, F!Placed(r, p)
  PROVE  FailoverInv'
<1> USE DEF FailoverInv, F!TypeOK
<1>1. /\ row' = [row EXCEPT ![r].status = "ACTIVE", ![r].provider = p]
      /\ row[r].status = "CREATING" /\ p \notin row[r].excluded /\ message' = message \ {r}
      /\ UNCHANGED <<lease, leader, streak, pass, userClosed, overlaps, threw, upset>>
  BY DEF F!Placed
<1>2. F!Used' = F!Used
  BY <1>1 DEF F!Used, F!Is
<1>3. F!TypeOK'
  <2> DEFINE new == [row[r] EXCEPT !.status = "ACTIVE", !.provider = p]
  <2>1. row \in [F!ServiceRows -> RowRecord] /\ message \subseteq F!Used
    BY FailoverTypes
  <2>2. new \in RowRecord
    BY <2>1, Edited
  <2>3. row' = [row EXCEPT ![r] = new]
    BY <1>1, <2>1
  <2> HIDE DEF new, F!TypeOK
  <2>4. {userClosed'} \subseteq BOOLEAN
    BY <1>1, Zenon DEF F!TypeOK
  <2> QED
    BY <1>1, <1>2, <2>1, <2>2, <2>3, <2>4, FailoverTypesKept
<1>4. KeepsPast
  BY <1>1 DEF KeepsPast, Past, F!Used, F!Is
<1>5. \A s \in F!ServiceRows : row[s].status = "ACTIVE" => row[s].provider \in Providers \ row[s].excluded
  BY DEF Elsewhere, F!Is
<1> QED
  BY <1>1, <1>3, <1>4, <1>5, InPlace

\* A row that ends where it is, on whatever provider its pipeline left it, and
\* messages that do not announce anything new.
LEMMA EndsInv ==
  ASSUME FailoverAssumption, FailoverInv, F!TypeOK', overlaps' <= upset',
         \A r \in F!ServiceRows :
           \/ row'[r] = row[r]
           \/ /\ row[r].status # "ABSENT"
              /\ row'[r].status \in {"CLOSED", "FAILED", "PERMANENTLY_FAILED"}
              /\ row'[r].lineage = row[r].lineage /\ row'[r].excluded = row[r].excluded
              /\ row[r].status # "CREATING" => row'[r].provider = row[r].provider,
         \A p \in Pods : pass'[p] = pass[p] \/ PassOK(p)'
  PROVE  FailoverInv'
<1>1. KeepsPast
  BY DEF KeepsPast, Past, F!Used, F!Is
<1>2. \A r \in F!ServiceRows : row[r].status = "ACTIVE" => row[r].provider \in Providers \ row[r].excluded
  BY DEF FailoverInv, Elsewhere, F!Is
<1> QED
  BY <1>1, <1>2, InPlace

LEMMA HandleFailureInv ==
  ASSUME FailoverAssumption, FailoverInv, NEW r \in F!ServiceRows, NEW p \in Providers \cup {NoProvider},
         NEW d \in BOOLEAN, F!HandleFailure(r, p, d)
  PROVE  FailoverInv'
<1> USE DEF FailoverInv, F!TypeOK
<1>1. /\ row[r].status = "CREATING" /\ row \in [F!ServiceRows -> RowRecord] /\ message \subseteq F!Used
      /\ UNCHANGED <<lease, leader, streak, pass, userClosed, overlaps, threw, upset>>
  BY DEF F!HandleFailure, RowRecord
<1>2. CASE /\ row[r].tries < MaxRetry /\ F!NextRow \in F!ServiceRows /\ F!Retry(r, p)
           /\ message' = (message \ {r}) \cup {F!NextRow}
  <2> DEFINE n   == F!NextRow
             new == [F!Absent EXCEPT !.status = "CREATING",
                       !.excluded = row[r].excluded \cup ({p} \ {NoProvider}),
                       !.tries = row[r].tries + 1, !.lineage = row[r].lineage \cup {r}]
             old == [row[r] EXCEPT !.status = "FAILED", !.provider = p]
  <2>1. n \in F!ServiceRows /\ row[n].status = "ABSENT" /\ n # r
    BY <1>1, <1>2, NextRowIsAbsent
  <2>2. /\ new \in RowRecord /\ new.status = "CREATING" /\ new.lineage = row[r].lineage \cup {r}
        /\ new.excluded = row[r].excluded \cup ({p} \ {NoProvider})
    <3>1. row[r].tries + 1 \in 0..MaxRetry
      BY <1>1, <1>2 DEF RowRecord, FailoverAssumption
    <3> QED
      BY <1>1, <3>1, AbsentIsARow DEF RowRecord
  <2>3. /\ old \in RowRecord /\ old.status = "FAILED" /\ old.provider = p
        /\ old.lineage = row[r].lineage /\ old.excluded = row[r].excluded
    <3>1. old \in RowRecord
      BY <1>1, Edited
    <3> QED
      BY <1>1, <3>1 DEF RowRecord
  <2> HIDE DEF new, old
  <2>4. row' = [[row EXCEPT ![r] = old] EXCEPT ![n] = new]
    BY <1>1, <1>2, <2>1 DEF F!Retry, new, old, RowRecord
  <2> HIDE DEF n
  <2>5. /\ row' \in [F!ServiceRows -> RowRecord] /\ row'[n] = new /\ row'[r] = old
        /\ \A s \in F!ServiceRows \ {n, r} : row'[s] = row[s]
    BY <1>1, <2>1, <2>2, <2>3, <2>4
  <2>6. message' \subseteq F!Used'
    BY <1>1, <1>2, <2>1, <2>2, <2>3, <2>5 DEF F!Used, F!Is, n
  <2>7. F!TypeOK'
    BY <1>1, <2>5, <2>6 DEF RowRecord
  <2>8. KeepsPast
    BY <1>1, <2>1, <2>5 DEF KeepsPast, Past, F!Used, F!Is
  <2>9. \A s \in new.lineage : s \in Past' /\ row'[s].provider \in new.excluded \cup {NoProvider}
    <3>1. Chain(r)
      BY DEF Chains
    <3>2. r \in Past'
      BY <2>3, <2>5 DEF Past, F!Used, F!Is
    <3> QED
      BY <2>2, <2>3, <2>5, <2>8, <3>1, <3>2, PastStays DEF Chain, KeepsPast
  <2>10. \A s \in F!ServiceRows : row[s].status = "ACTIVE" => row[s].provider \in Providers \ row[s].excluded
    BY DEF Elsewhere, F!Is
  <2> HIDE DEF FailoverInv, F!TypeOK
  <2>11. \A s \in F!ServiceRows \ {n} :
           /\ row'[s].lineage = row[s].lineage /\ row'[s].excluded = row[s].excluded
           /\ row'[s].status = "ABSENT" <=> row[s].status = "ABSENT"
           /\ row'[s].status = "ACTIVE" => row'[s].provider \in Providers \ row[s].excluded
    BY <1>1, <2>3, <2>5, <2>10
  <2>12. overlaps' <= upset'
    BY <1>1 DEF FailoverInv
  <2> QED
    BY <1>1, <2>1, <2>2, <2>5, <2>7, <2>8, <2>9, <2>11, <2>12, Creates DEF n
<1>3. CASE (\E why \in {"deterministic", "exhausted", "cancelled"} : F!GiveUp(r, p, why)) /\ message' = message \ {r}
  <2>1. PICK why \in {"deterministic", "exhausted", "cancelled"} :
          row' = [row EXCEPT ![r].status = "PERMANENTLY_FAILED", ![r].provider = p, ![r].why = why]
    BY <1>3 DEF F!GiveUp
  <2>2. F!Used' = F!Used
    BY <1>1, <2>1 DEF F!Used, F!Is, RowRecord
  <2> DEFINE new == [row[r] EXCEPT !.status = "PERMANENTLY_FAILED", !.provider = p, !.why = why]
  <2>4. new \in RowRecord
    BY <1>1, Edited
  <2>5. row' = [row EXCEPT ![r] = new]
    BY <1>1, <2>1
  <2>3. F!TypeOK'
    <3> HIDE DEF new, F!TypeOK
    <3>1. {userClosed'} \subseteq BOOLEAN
      BY <1>1, Zenon DEF F!TypeOK
    <3> QED
      BY <1>1, <1>3, <2>2, <2>4, <2>5, <3>1, FailoverTypesKept
  <2> QED
    BY <1>1, <2>1, <2>3, EndsInv
<1> QED
  BY <1>2, <1>3, Zenon DEF F!HandleFailure

LEMMA EndedInv ==
  ASSUME FailoverAssumption, FailoverInv, NEW r \in F!ServiceRows, F!Stale(r) \/ F!UserCloses(r) \/ F!Ignore(r)
  PROVE  FailoverInv'
<1> USE DEF FailoverInv, F!TypeOK
<1>1. CASE F!Stale(r)
  <2>1. /\ row' = [row EXCEPT ![r].status = "FAILED"] /\ row[r].status = "CREATING"
        /\ UNCHANGED <<lease, message, leader, streak, pass, userClosed, overlaps, threw, upset>>
    BY <1>1 DEF F!Stale, F!Is
  <2>2. F!Used' = F!Used
    BY <2>1 DEF F!Used, F!Is
  <2> DEFINE new == [row[r] EXCEPT !.status = "FAILED"]
  <2>4. row \in [F!ServiceRows -> RowRecord] /\ message \subseteq F!Used
    BY FailoverTypes
  <2>5. new \in RowRecord
    BY <2>4, Edited
  <2>6. row' = [row EXCEPT ![r] = new]
    BY <2>1, <2>4
  <2>3. F!TypeOK'
    <3> HIDE DEF new, F!TypeOK
    <3>1. {userClosed'} \subseteq BOOLEAN
      BY <2>1, Zenon DEF F!TypeOK
    <3> QED
      BY <2>1, <2>2, <2>4, <2>5, <2>6, <3>1, FailoverTypesKept
  <2>7. \A s \in F!ServiceRows : row'[s] = row[s] \/ (s = r /\ row'[s].status = "FAILED")
    BY <2>1
  <2>8. row'[r].lineage = row[r].lineage /\ row'[r].excluded = row[r].excluded
    BY <2>1
  <2>9. overlaps' <= upset' /\ \A p \in Pods : pass'[p] = pass[p]
    BY <2>1
  <2> HIDE DEF FailoverInv, F!TypeOK
  <2> QED
    BY <2>1, <2>3, <2>7, <2>8, <2>9, EndsInv
<1>2. CASE F!UserCloses(r)
  <2>1. /\ r \in F!Live
        /\ row' = [s \in F!ServiceRows |-> IF s = r \/ s \in F!Is({"CREATING"})
                                          THEN [row[s] EXCEPT !.status = "CLOSED"] ELSE row[s]]
        /\ UNCHANGED <<lease, message, leader, streak, pass, overlaps, threw, upset>>
    BY <1>2 DEF F!UserCloses
  <2>2. F!Used' = F!Used
    BY <2>1 DEF F!Used, F!Is, F!Live
  <2>3. row' \in [F!ServiceRows -> RowRecord]
    <3>1. row \in [F!ServiceRows -> RowRecord]
      BY FailoverTypes
    <3>2. \A s \in F!ServiceRows : [row[s] EXCEPT !.status = "CLOSED"] \in RowRecord
      BY <3>1, Edited
    <3> HIDE DEF F!TypeOK
    <3> QED
      BY <2>1, <3>1, <3>2
  <2>4. {userClosed'} \subseteq BOOLEAN
    BY <1>2, Zenon DEF F!UserCloses
  <2>5. F!TypeOK'
    BY <2>1, <2>2, <2>3, <2>4, FailoverTypes, FailoverTypesKept
  <2>6. \A s \in F!ServiceRows :
          \/ row'[s] = row[s]
          \/ /\ row[s].status # "ABSENT"
             /\ row'[s].status \in {"CLOSED", "FAILED", "PERMANENTLY_FAILED"}
             /\ row'[s].lineage = row[s].lineage /\ row'[s].excluded = row[s].excluded
             /\ row[s].status # "CREATING" => row'[s].provider = row[s].provider
    BY <2>1 DEF F!Live, F!Is
  <2>7. overlaps' <= upset' /\ \A p \in Pods : pass'[p] = pass[p]
    BY <2>1
  <2> HIDE DEF FailoverInv, F!TypeOK
  <2> QED
    BY <2>5, <2>6, <2>7, EndsInv
<1>3. CASE F!Ignore(r)
  <2>1. F!TypeOK' /\ UNCHANGED <<row, pass, overlaps, upset>>
    BY <1>3 DEF F!Ignore, F!Used, F!Is
  <2> QED
    BY <2>1, EndsInv
<1> QED
  BY <1>1, <1>2, <1>3

LEMMA BreaksInv ==
  ASSUME FailoverAssumption, FailoverInv, NEW r \in F!ServiceRows, NEW how \in {"down", "gone"}, F!Breaks(r, how)
  PROVE  FailoverInv'
<1>1. F!TypeOK' /\ UNCHANGED <<row, pass, overlaps, upset>>
  BY DEF FailoverInv, F!TypeOK, F!Breaks, F!Used, F!Is
<1> QED
  BY <1>1, EndsInv DEF FailoverInv

-----------------------------------------------------------------------------
(* The pass. *)
Streaks == [Pods -> [F!ServiceRows -> [gone : Nat, sick : Nat]]]

LEMMA PassTypes ==
  ASSUME F!TypeOK, UNCHANGED <<lease, userClosed>>, row' \in [F!ServiceRows -> RowRecord],
         message' \subseteq F!Used', leader' \in Pods, streak' \in Streaks,
         pass' \in [Pods -> PassRecord], {threw'} \subseteq BOOLEAN,
         overlaps' \in 0..MaxUpset, upset' \in 0..MaxUpset
  PROVE  F!TypeOK'
<1>1. {userClosed', threw'} \subseteq BOOLEAN
  BY Zenon DEF F!TypeOK
<1> QED
  BY <1>1, Zenon DEF F!TypeOK, RowRecord, PassRecord, Streaks

LEMMA Disturbs ==
  ASSUME FailoverAssumption, F!TypeOK, F!Upset \/ UNCHANGED upset
  PROVE  /\ overlaps \in 0..MaxUpset /\ upset' \in 0..MaxUpset
         /\ overlaps <= upset => overlaps <= upset'
BY DEF F!TypeOK, F!Upset, FailoverAssumption

LEMMA Unthrown == F!TypeOK => {threw} \subseteq BOOLEAN
BY Zenon DEF F!TypeOK

\* A step that looks at the rows and goes on.
LEMMA LooksOn ==
  ASSUME FailoverAssumption, FailoverInv, NEW p \in Pods, NEW new \in PassRecord,
         pass' = [pass EXCEPT ![p] = new], PassOK(p)', streak' \in Streaks,
         UNCHANGED <<row, lease, message, leader, userClosed, overlaps, threw, upset>>
  PROVE  FailoverInv'
<1>1. pass' \in [Pods -> PassRecord] /\ \A q \in Pods \ {p} : pass'[q] = pass[q]
  BY FailoverTypes DEF FailoverInv
<1>2. message' \subseteq F!Used' /\ leader' \in Pods
  BY DEF FailoverInv, F!TypeOK, F!Used, F!Is
<1>3. F!TypeOK'
  BY <1>1, <1>2, PassTypes, FailoverTypes, Disturbs, Unthrown DEF FailoverInv
<1> QED
  BY <1>1, <1>3, EndsInv DEF FailoverInv

LEMMA HandoverInv ==
  ASSUME FailoverAssumption, FailoverInv, NEW p \in Pods, F!Handover(p)
  PROVE  FailoverInv'
<1>1. /\ leader' \in Pods /\ overlaps' \in 0..MaxUpset /\ upset' \in 0..MaxUpset
      /\ overlaps' <= upset'
  BY DEF FailoverInv, F!TypeOK, F!Handover, F!Upset, FailoverAssumption
<1>2. UNCHANGED <<row, lease, message, streak, pass, userClosed, threw>>
  BY DEF F!Handover
<1>3. message' \subseteq F!Used' /\ streak' \in Streaks
  BY <1>2 DEF FailoverInv, F!TypeOK, F!Used, F!Is, Streaks
<1>4. F!TypeOK'
  BY <1>1, <1>2, <1>3, PassTypes, FailoverTypes, Unthrown DEF FailoverInv
<1> QED
  BY <1>1, <1>2, <1>4, EndsInv

LEMMA SweepInv ==
  ASSUME FailoverAssumption, FailoverInv, NEW p \in Pods, F!StartPass(p) \/ F!MassEvent(p) \/ F!Act(p) \/ F!EndPass(p)
  PROVE  FailoverInv'
<1>1. pass \in [Pods -> PassRecord] /\ streak \in Streaks /\ PassOK(p)
  BY FailoverTypes DEF FailoverInv, F!TypeOK, PassesOK, Streaks
<1>2. F!NoPass \in PassRecord /\ F!NoPass.todo \cup F!NoPass.gone \cup F!NoPass.sick = {} /\ F!NoPass.pc = "idle"
  BY DEF F!NoPass, PassRecord, F!ServiceRows, FailoverAssumption
<1>3. CASE F!StartPass(p)
  <2> DEFINE new == [F!NoPass EXCEPT !.pc = "probe", !.todo = F!Is({"ACTIVE"})]
  <2>1. /\ new \in PassRecord /\ new.pc = "probe" /\ new.todo = F!Is({"ACTIVE"})
        /\ new.gone \cup new.sick = {}
    BY <1>2 DEF PassRecord, F!Is
  <2>2. /\ pass' = [pass EXCEPT ![p] = new]
        /\ UNCHANGED <<row, lease, message, leader, streak, userClosed, overlaps, threw, upset>>
    BY <1>3 DEF F!StartPass
  <2>3. F!Is({"ACTIVE"}) \subseteq Hosted
    BY DEF FailoverInv, Elsewhere, Hosted, Past, F!Used, F!Is
  <2>4. PassOK(p)'
    <3> HIDE DEF new
    <3> QED
      BY <1>1, <2>1, <2>2, <2>3 DEF PassOK, Hosted, Past, F!Used, F!Is
  <2> QED
    BY <1>1, <2>1, <2>2, <2>4, LooksOn
<1>4. CASE F!MassEvent(p) \/ F!EndPass(p)
  <2>1. /\ pass' = [pass EXCEPT ![p] = F!NoPass]
        /\ UNCHANGED <<row, lease, message, leader, userClosed, overlaps, threw, upset>>
    BY <1>4 DEF F!MassEvent, F!EndPass
  <2>2. streak' \in Streaks
    <3>1. CASE F!MassEvent(p)
      <4> DEFINE reset == [r \in F!ServiceRows |->
                            [gone |-> IF r \in pass[p].gone THEN 0 ELSE streak[p][r].gone,
                             sick |-> IF r \in pass[p].sick THEN 0 ELSE streak[p][r].sick]]
      <4>1. streak[p] \in [F!ServiceRows -> [gone : Nat, sick : Nat]]
        BY <1>1 DEF Streaks
      <4>2. reset \in [F!ServiceRows -> [gone : Nat, sick : Nat]]
        BY <4>1
      <4>3. streak' = [streak EXCEPT ![p] = reset]
        BY <3>1, <1>1 DEF F!MassEvent, Streaks
      <4> HIDE DEF reset
      <4> QED
        BY <1>1, <4>2, <4>3 DEF Streaks
    <3>2. CASE F!EndPass(p)
      BY <1>1, <3>2 DEF F!EndPass
    <3> QED
      BY <1>4, <3>1, <3>2
  <2>3. PassOK(p)'
    BY <1>1, <1>2, <2>1 DEF PassOK
  <2> QED
    BY <1>2, <2>1, <2>2, <2>3, LooksOn
<1>5. CASE F!Act(p)
  <2> DEFINE new == [pass[p] EXCEPT !.pc = "act"]
  <2>1. /\ new \in PassRecord /\ new.pc = "act" /\ new.todo = pass[p].todo
        /\ new.gone = pass[p].gone /\ new.sick = pass[p].sick
    BY <1>1 DEF PassRecord
  <2>2. /\ pass' = [pass EXCEPT ![p] = new]
        /\ UNCHANGED <<row, lease, message, leader, streak, userClosed, overlaps, threw, upset>>
    BY <1>1, <1>5 DEF F!Act
  <2>3. PassOK(p)'
    <3> HIDE DEF new
    <3> QED
      BY <1>1, <2>1, <2>2 DEF PassOK, Hosted, Past, F!Used, F!Is
  <2> QED
    BY <1>1, <2>1, <2>2, <2>3, LooksOn
<1> QED
  BY <1>3, <1>4, <1>5

LEMMA ProbeInv ==
  ASSUME FailoverAssumption, FailoverInv, NEW p \in Pods, NEW reading, F!Probe(p, reading)
  PROVE  FailoverInv'
<1>1. pass \in [Pods -> PassRecord] /\ streak \in Streaks /\ PassOK(p)
  BY FailoverTypes DEF FailoverInv, F!TypeOK, PassesOK, Streaks
<1> DEFINE r   == CHOOSE r \in pass[p].todo : TRUE
           counted == F!Counted(streak[p][r], reading)
           new == [pass[p] EXCEPT !.todo = @ \ {r},
                                  !.gone = IF counted.gone = Threshold THEN @ \cup {r} ELSE @,
                                  !.sick = IF counted.sick = Threshold THEN @ \cup {r} ELSE @]
<1>2. /\ r \in pass[p].todo /\ pass[p].pc = "probe"
      /\ streak' = [streak EXCEPT ![p][r] = counted]
      /\ UNCHANGED <<row, lease, message, leader, userClosed, overlaps, threw, upset>>
  BY DEF F!Probe
<1>3. pass' = [pass EXCEPT ![p] = new]
  BY <1>1 DEF F!Probe
<1>4. r \in F!ServiceRows
  BY <1>1, <1>2 DEF PassRecord
<1>5. counted \in [gone : Nat, sick : Nat]
  <2>1. streak[p][r] \in [gone : Nat, sick : Nat]
    BY <1>1, <1>4 DEF Streaks
  <2> HIDE DEF r
  <2> QED
    BY <2>1 DEF F!Counted, FailoverAssumption
<1> HIDE DEF counted, r
<1>6. streak' \in Streaks
  BY <1>1, <1>2, <1>4, <1>5 DEF Streaks
<1>7. /\ new \in PassRecord /\ new.pc = "probe"
      /\ new.todo \cup new.gone \cup new.sick \subseteq pass[p].todo \cup pass[p].gone \cup pass[p].sick
  BY <1>1, <1>2, <1>4 DEF PassRecord
<1> HIDE DEF new
<1>8. PassOK(p)'
  BY <1>1, <1>2, <1>3, <1>7 DEF PassOK, Hosted, Past, F!Used, F!Is
<1> QED
  BY <1>2, <1>3, <1>6, <1>7, <1>8, LooksOn

-----------------------------------------------------------------------------
(* What a pass does about what it found. *)

\* Closing a row that was placed.
LEMMA CloseInv ==
  ASSUME FailoverAssumption, FailoverInv, NEW p \in Pods, NEW r \in Hosted, NEW new \in PassRecord,
         F!Closed(r) \/ UNCHANGED row, pass' = [pass EXCEPT ![p] = new],
         new.todo \cup new.gone \cup new.sick \subseteq pass[p].todo \cup pass[p].gone \cup pass[p].sick,
         new.pc = "act" \/ (new.pc = "spawn" /\ pass[p].pc = "close" /\ new.at = pass[p].at
                             /\ new.excluded = pass[p].excluded),
         F!Upset \/ UNCHANGED upset, streak' \in Streaks, {threw'} \subseteq BOOLEAN,
         UNCHANGED <<lease, message, leader, userClosed, overlaps>>
  PROVE  FailoverInv'
<1>1. row \in [F!ServiceRows -> RowRecord] /\ pass \in [Pods -> PassRecord] /\ PassOK(p)
  BY FailoverTypes DEF FailoverInv, PassesOK
<1>2. r \in F!ServiceRows /\ row[r].status \notin {"ABSENT", "CREATING"}
  BY DEF Hosted, Past, F!Used, F!Is
<1> DEFINE shut == [row[r] EXCEPT !.status = "CLOSED"]
<1>3. /\ shut \in RowRecord /\ shut.status = "CLOSED" /\ shut.provider = row[r].provider
      /\ shut.excluded = row[r].excluded /\ shut.lineage = row[r].lineage
  <2>1. shut \in RowRecord
    BY <1>1, <1>2, Edited
  <2> QED
    BY <1>1, <1>2, <2>1 DEF RowRecord
<1>4. row' = [row EXCEPT ![r] = shut] \/ row' = row
  BY <1>1, <1>2 DEF F!Closed
<1> HIDE DEF shut
<1>5. /\ row' \in [F!ServiceRows -> RowRecord]
      /\ \A s \in F!ServiceRows : row'[s] = row[s] \/ (s = r /\ row'[s] = shut)
  BY <1>1, <1>2, <1>3, <1>4
<1>6. F!Used' = F!Used /\ KeepsPast
  BY <1>2, <1>3, <1>5 DEF F!Used, F!Is, KeepsPast, Past
<1>7. F!TypeOK'
  <2>1. pass' \in [Pods -> PassRecord] /\ message' \subseteq F!Used' /\ leader' \in Pods
    BY <1>1, <1>6 DEF FailoverInv, F!TypeOK
  <2> QED
    BY <1>5, <2>1, PassTypes, Disturbs DEF FailoverInv
<1>8. PassOK(p)'
  <2>1. pass'[p] = new /\ Hosted \subseteq Hosted'
    BY <1>1, <1>6, PastStays
  <2> QED
    BY <1>1, <1>6, <2>1 DEF PassOK, KeepsPast, Hosted
<1>9. \A q \in Pods \ {p} : pass'[q] = pass[q]
  BY <1>1
<1>10. overlaps' <= upset'
  BY Disturbs DEF FailoverInv
<1> QED
  BY <1>2, <1>3, <1>5, <1>7, <1>8, <1>9, <1>10, EndsInv

LEMMA ClosesInv ==
  ASSUME FailoverAssumption, FailoverInv, NEW p \in Pods,
         F!CloseOld(p) \/ \E r \in F!ServiceRows : F!CloseGone(p, r)
  PROVE  FailoverInv'
<1>1. pass \in [Pods -> PassRecord] /\ streak \in Streaks /\ PassOK(p)
  BY FailoverTypes DEF FailoverInv, F!TypeOK, PassesOK, Streaks
<1>2. CASE F!CloseOld(p)
  <2> DEFINE new == [pass[p] EXCEPT !.pc = "spawn"]
  <2>1. /\ new \in PassRecord /\ new.pc = "spawn" /\ new.at = pass[p].at
        /\ new.excluded = pass[p].excluded
        /\ new.todo \cup new.gone \cup new.sick = pass[p].todo \cup pass[p].gone \cup pass[p].sick
    BY <1>1 DEF PassRecord
  <2>2. /\ pass[p].pc = "close" /\ pass' = [pass EXCEPT ![p] = new]
        /\ F!Closed(pass[p].at) \/ UNCHANGED row
        /\ F!Upset \/ UNCHANGED upset
        /\ UNCHANGED <<lease, message, leader, streak, userClosed, overlaps>>
    BY <1>1, <1>2 DEF F!CloseOld
  <2>3. {threw'} \subseteq BOOLEAN
    BY <1>2, Unthrown, Zenon DEF F!CloseOld, FailoverInv
  <2>4. pass[p].at \in Hosted
    BY <1>1, <2>2 DEF PassOK
  <2> HIDE DEF new
  <2> QED
    BY <1>1, <2>1, <2>2, <2>3, <2>4, CloseInv
<1>3. ASSUME NEW r \in F!ServiceRows, F!CloseGone(p, r) PROVE FailoverInv'
  <2> DEFINE new == [pass[p] EXCEPT !.gone = @ \ {r}]
  <2>1. /\ new \in PassRecord /\ new.pc = pass[p].pc
        /\ new.todo \cup new.gone \cup new.sick \subseteq pass[p].todo \cup pass[p].gone \cup pass[p].sick
    BY <1>1 DEF PassRecord
  <2>2. /\ pass[p].pc = "act" /\ r \in pass[p].gone /\ pass' = [pass EXCEPT ![p] = new]
        /\ streak' = [streak EXCEPT ![p][r] = [gone |-> 0, sick |-> 0]]
        /\ F!Closed(r) \/ UNCHANGED row
        /\ F!Upset \/ UNCHANGED upset
        /\ UNCHANGED <<lease, message, leader, userClosed, overlaps, threw>>
    BY <1>1, <1>3 DEF F!CloseGone
  <2>3. streak' \in Streaks
    BY <1>1, <2>2 DEF Streaks
  <2>4. r \in Hosted
    BY <1>1, <2>2 DEF PassOK
  <2> HIDE DEF new
  <2> QED
    BY <1>1, <2>1, <2>2, <2>3, <2>4, Unthrown, CloseInv DEF FailoverInv
<1> QED
  BY <1>2, <1>3

LEMMA EvaluateInv ==
  ASSUME FailoverAssumption, FailoverInv, NEW p \in Pods, NEW r \in F!ServiceRows,
         F!NotEligible(p, r) \/ F!Evaluate(p, r)
  PROVE  FailoverInv'
<1>1. /\ row \in [F!ServiceRows -> RowRecord] /\ pass \in [Pods -> PassRecord]
      /\ streak \in Streaks /\ PassOK(p)
  BY FailoverTypes DEF FailoverInv, F!TypeOK, PassesOK, Streaks
<1>2. CASE F!NotEligible(p, r)
  <2> DEFINE new == [pass[p] EXCEPT !.sick = @ \ {r}]
  <2>1. /\ new \in PassRecord /\ new.pc = pass[p].pc
        /\ new.todo \cup new.gone \cup new.sick \subseteq pass[p].todo \cup pass[p].gone \cup pass[p].sick
    BY <1>1 DEF PassRecord
  <2>2. /\ pass[p].pc = "act" /\ pass' = [pass EXCEPT ![p] = new]
        /\ UNCHANGED <<row, lease, message, leader, streak, userClosed, overlaps, threw, upset>>
    BY <1>1, <1>2 DEF F!NotEligible
  <2> HIDE DEF new
  <2>3. PassOK(p)'
    BY <1>1, <2>1, <2>2 DEF PassOK, Hosted, Past, F!Used, F!Is
  <2> QED
    BY <1>1, <2>1, <2>2, <2>3, LooksOn
<1>3. CASE F!Evaluate(p, r)
  <2> DEFINE new == [pass[p] EXCEPT !.pc = "close", !.at = r, !.sick = @ \ {r},
                                    !.excluded = row[r].excluded \cup {row[r].provider}]
  <2>1. r \in pass[p].sick /\ r \in Hosted
    BY <1>1, <1>3 DEF F!Evaluate, PassOK
  <2>2. /\ new \in PassRecord /\ new.pc = "close" /\ new.at = r
        /\ new.excluded = row[r].excluded \cup {row[r].provider}
        /\ new.todo \cup new.gone \cup new.sick \subseteq pass[p].todo \cup pass[p].gone \cup pass[p].sick
    <3>1. row[r].excluded \cup {row[r].provider} \in SUBSET Providers
      BY <1>1, <2>1 DEF RowRecord, Hosted
    <3> QED
      BY <1>1, <3>1 DEF PassRecord
  <2>3. /\ pass' = [pass EXCEPT ![p] = new]
        /\ UNCHANGED <<row, lease, message, leader, streak, userClosed, overlaps, threw, upset>>
    BY <1>1, <1>3 DEF F!Evaluate
  <2> HIDE DEF new
  <2>4. PassOK(p)'
    BY <1>1, <2>1, <2>2, <2>3 DEF PassOK, Hosted, Past, F!Used, F!Is
  <2> QED
    BY <1>1, <2>2, <2>3, <2>4, LooksOn
<1> QED
  BY <1>2, <1>3

\* The replacement excludes what the pass read, which covers its lineage.
LEMMA SpawnInv ==
  ASSUME FailoverAssumption, FailoverInv, NEW p \in Pods, F!Spawn(p)
  PROVE  FailoverInv'
<1> DEFINE n    == F!NextRow
           at   == pass[p].at
           new  == [F!Absent EXCEPT !.status = "CREATING", !.failover = TRUE,
                                  !.excluded = pass[p].excluded,
                                  !.lineage = row[pass[p].at].lineage \cup {pass[p].at}]
           next == [pass[p] EXCEPT !.pc = "publish", !.at = F!NextRow]
<1>1. /\ row \in [F!ServiceRows -> RowRecord] /\ pass \in [Pods -> PassRecord]
      /\ PassOK(p) /\ message \subseteq F!Used
  BY FailoverTypes DEF FailoverInv, PassesOK
<1>2. /\ pass[p].pc = "spawn" /\ n \in F!ServiceRows
      /\ row' = [row EXCEPT ![n] = new] /\ pass' = [pass EXCEPT ![p] = next]
      /\ UNCHANGED <<lease, message, leader, streak, userClosed, overlaps, threw, upset>>
  BY <1>1 DEF F!Spawn
<1>3. /\ at \in Hosted /\ row[at].excluded \cup {row[at].provider} \subseteq pass[p].excluded
      /\ pass[p].excluded \in SUBSET Providers /\ at \in F!ServiceRows /\ Chain(at)
  BY <1>1, <1>2 DEF PassOK, PassRecord, FailoverInv, Chains
<1>4. /\ new \in RowRecord /\ new.status = "CREATING" /\ new.excluded = pass[p].excluded
      /\ new.lineage = row[at].lineage \cup {at}
  <2>1. F!Absent \in RowRecord /\ TRUE \in BOOLEAN
    BY AbsentIsARow
  <2>2. row[at].lineage \cup {at} \in SUBSET F!ServiceRows
    BY <1>1, <1>3 DEF RowRecord
  <2> HIDE DEF at
  <2> QED
    BY <1>3, <2>1, <2>2, Replacement DEF RowRecord, at
<1>5. /\ next \in PassRecord /\ next.pc = "publish" /\ next.at = n
      /\ next.todo \cup next.gone \cup next.sick = pass[p].todo \cup pass[p].gone \cup pass[p].sick
  BY <1>1, <1>2 DEF PassRecord
<1>6. row[n].status = "ABSENT"
  BY <1>2, NextRowIsAbsent
<1> HIDE DEF n, at, new, next
<1>7. /\ row' \in [F!ServiceRows -> RowRecord] /\ row'[n] = new
      /\ \A s \in F!ServiceRows \ {n} : row'[s] = row[s]
      /\ pass' \in [Pods -> PassRecord] /\ pass'[p] = next /\ \A q \in Pods \ {p} : pass'[q] = pass[q]
  BY <1>1, <1>2, <1>4, <1>5
<1>8. KeepsPast /\ F!Used \subseteq F!Used' /\ n \in F!Used'
  BY <1>2, <1>4, <1>6, <1>7 DEF KeepsPast, Past, F!Used, F!Is
<1>9. F!TypeOK'
  <2>1. message' \subseteq F!Used' /\ leader' \in Pods /\ streak' \in Streaks
    BY <1>1, <1>2, <1>8 DEF FailoverInv, F!TypeOK, Streaks
  <2> QED
    BY <1>2, <1>7, <2>1, PassTypes, Disturbs, Unthrown DEF FailoverInv
<1>10. PassOK(p)'
  BY <1>1, <1>5, <1>7, <1>8, PastStays DEF PassOK
<1>11. \A s \in new.lineage : s \in Past' /\ row'[s].provider \in new.excluded \cup {NoProvider}
  <2>1. \A s \in row[at].lineage : s \in Past /\ row[s].provider \in pass[p].excluded \cup {NoProvider}
    BY <1>3 DEF Chain
  <2>2. at \in Past /\ row[at].provider \in pass[p].excluded
    BY <1>3 DEF Hosted
  <2> QED
    BY <1>4, <1>8, <2>1, <2>2, PastStays DEF KeepsPast
<1>12. \A s \in F!ServiceRows \ {n} :
         /\ row'[s].lineage = row[s].lineage /\ row'[s].excluded = row[s].excluded
         /\ row'[s].status = "ABSENT" <=> row[s].status = "ABSENT"
         /\ row'[s].status = "ACTIVE" => row'[s].provider \in Providers \ row[s].excluded
  BY <1>7 DEF FailoverInv, Elsewhere, F!Is
<1>13. overlaps' <= upset'
  BY <1>2 DEF FailoverInv
<1> QED
  BY <1>2, <1>4, <1>7, <1>8, <1>9, <1>10, <1>11, <1>12, <1>13, Creates DEF n

LEMMA PublishInv ==
  ASSUME FailoverAssumption, FailoverInv, NEW p \in Pods, F!Publish(p)
  PROVE  FailoverInv'
<1> DEFINE new == [pass[p] EXCEPT !.pc = "act", !.at = 1, !.excluded = {}]
<1>1. /\ row \in [F!ServiceRows -> RowRecord] /\ pass \in [Pods -> PassRecord]
      /\ PassOK(p) /\ message \subseteq F!Used
  BY FailoverTypes DEF FailoverInv, PassesOK
<1>2. /\ pass[p].pc = "publish" /\ pass' = [pass EXCEPT ![p] = new]
      /\ message' = message \cup {pass[p].at} \/ message' = message
      /\ F!Upset \/ UNCHANGED upset
      /\ UNCHANGED <<row, lease, leader, streak, userClosed, overlaps, threw>>
  BY <1>1 DEF F!Publish
<1>3. /\ new \in PassRecord /\ new.pc = "act"
      /\ new.todo \cup new.gone \cup new.sick = pass[p].todo \cup pass[p].gone \cup pass[p].sick
  <2>1. 1 \in F!ServiceRows /\ {} \in SUBSET Providers
    BY DEF F!ServiceRows, FailoverAssumption
  <2> QED
    BY <1>1, <2>1 DEF PassRecord
<1> HIDE DEF new
<1>4. pass' \in [Pods -> PassRecord] /\ pass'[p] = new /\ \A q \in Pods \ {p} : pass'[q] = pass[q]
  BY <1>1, <1>2, <1>3
<1>5. message' \subseteq F!Used' /\ leader' \in Pods /\ streak' \in Streaks
  BY <1>1, <1>2 DEF FailoverInv, F!TypeOK, Streaks, PassOK, F!Used, F!Is
<1>6. F!TypeOK'
  BY <1>1, <1>2, <1>4, <1>5, PassTypes, Disturbs, Unthrown DEF FailoverInv
<1>7. PassOK(p)'
  BY <1>1, <1>2, <1>3, <1>4 DEF PassOK, Hosted, Past, F!Used, F!Is
<1>8. overlaps' <= upset'
  BY <1>2, Disturbs DEF FailoverInv
<1> QED
  BY <1>2, <1>4, <1>6, <1>7, <1>8, EndsInv

-----------------------------------------------------------------------------
\* The flag of a row that counted is taken; its set is a parameter as before.
LEMMA Unflagged ==
  ASSUME NEW Status, NEW Provider, NEW Excluded, NEW Flags, NEW Tries, NEW Lineage, NEW Whys,
         NEW w \in [status : Status, provider : Provider, excluded : Excluded, failover : Flags,
                    tries : Tries, lineage : Lineage, why : Whys],
         NEW flag \in Flags, NEW new, new = [w EXCEPT !.failover = flag]
  PROVE  /\ new \in [status : Status, provider : Provider, excluded : Excluded, failover : Flags,
                     tries : Tries, lineage : Lineage, why : Whys]
         /\ new.failover = flag /\ new.status = w.status /\ new.provider = w.provider
         /\ new.excluded = w.excluded /\ new.lineage = w.lineage
OBVIOUS

\* The window passes: one failover fewer counts, and nothing else changes.
LEMMA WindowSteps ==
  ASSUME FailoverAssumption, FailoverInv, NEW r \in F!ServiceRows, F!WindowPasses(r)
  PROVE  /\ FailoverInv' /\ F!Failovers' \subseteq F!Failovers /\ F!Live' = F!Live
         /\ UNCHANGED <<pass, leader, overlaps, threw>>
<1> DEFINE new == [row[r] EXCEPT !.failover = FALSE]
<1>1. row \in [F!ServiceRows -> RowRecord] /\ message \subseteq F!Used
  BY FailoverTypes DEF FailoverInv
<1>2. /\ row' = [row EXCEPT ![r] = new]
      /\ UNCHANGED <<lease, message, leader, streak, pass, userClosed, overlaps, threw, upset>>
  BY <1>1 DEF F!WindowPasses
<1>3. /\ new \in RowRecord /\ new.failover = FALSE /\ new.status = row[r].status
      /\ new.provider = row[r].provider /\ new.excluded = row[r].excluded
      /\ new.lineage = row[r].lineage
  <2>1. FALSE \in BOOLEAN /\ row[r] \in RowRecord
    BY <1>1
  <2> QED
    BY <2>1, Unflagged, Zenon DEF RowRecord
<1> HIDE DEF new
<1>4. row' \in [F!ServiceRows -> RowRecord] /\ row'[r] = new /\ \A s \in F!ServiceRows \ {r} : row'[s] = row[s]
  BY <1>1, <1>2, <1>3
<1>5. \A s \in F!ServiceRows :
        /\ row'[s].status = row[s].status /\ row'[s].provider = row[s].provider
        /\ row'[s].excluded = row[s].excluded /\ row'[s].lineage = row[s].lineage
  BY <1>3, <1>4
<1>6. F!Used' = F!Used /\ F!Live' = F!Live
  BY <1>5 DEF F!Used, F!Live, F!Is
<1>7. F!TypeOK'
  <2>1. {userClosed'} \subseteq BOOLEAN
    BY <1>2, Zenon DEF FailoverInv, F!TypeOK
  <2> QED
    BY <1>1, <1>2, <1>4, <1>6, <2>1, FailoverTypesKept DEF FailoverInv
<1>8. F!Failovers' \subseteq F!Failovers
  <2>1. \A s \in F!ServiceRows : (s # r /\ row'[s] = row[s]) \/ (s = r /\ row'[s].failover = FALSE)
    BY <1>3, <1>4
  <2> QED
    BY <1>6, <2>1, Zenon DEF F!Failovers, F!Used
<1>9. KeepsPast
  BY <1>5 DEF KeepsPast, Past, F!Used, F!Is
<1>10. \A s \in F!ServiceRows : row[s].status = "ACTIVE" => row[s].provider \in Providers \ row[s].excluded
  BY DEF FailoverInv, Elsewhere, F!Is
<1>11. FailoverInv'
  <2>1. overlaps' <= upset' /\ pass' = pass
    BY <1>2 DEF FailoverInv
  <2> QED
    BY <1>5, <1>7, <1>9, <1>10, <2>1, InPlace
<1> QED
  BY <1>2, <1>6, <1>8, <1>11

LEMMA FailoverNext == FailoverAssumption /\ FailoverInv /\ [F!Next]_fvars => FailoverInv'
<1> SUFFICES ASSUME FailoverAssumption, FailoverInv, [F!Next]_fvars PROVE FailoverInv'
  OBVIOUS
<1>1. ASSUME NEW r \in F!ServiceRows, NEW p \in Providers, F!Placed(r, p) PROVE FailoverInv'
  BY <1>1, PlacedInv
<1>2. ASSUME NEW r \in F!ServiceRows, NEW p \in Providers \cup {NoProvider}, NEW d \in BOOLEAN,
             F!HandleFailure(r, p, d)
      PROVE  FailoverInv'
  BY <1>2, HandleFailureInv
<1>3. ASSUME NEW r \in F!ServiceRows, F!Stale(r) \/ F!UserCloses(r) \/ F!Ignore(r) PROVE FailoverInv'
  BY <1>3, EndedInv
<1>4. ASSUME NEW r \in F!ServiceRows, NEW how \in {"down", "gone"}, F!Breaks(r, how) PROVE FailoverInv'
  BY <1>4, BreaksInv
<1>5. ASSUME NEW p \in Pods, F!Handover(p) PROVE FailoverInv'
  BY <1>5, HandoverInv
<1>6. ASSUME NEW p \in Pods, F!StartPass(p) \/ F!MassEvent(p) \/ F!Act(p) \/ F!EndPass(p) PROVE FailoverInv'
  BY <1>6, SweepInv
<1>7. ASSUME NEW p \in Pods, NEW reading, F!Probe(p, reading) PROVE FailoverInv'
  BY <1>7, ProbeInv
<1>8. ASSUME NEW p \in Pods, F!CloseOld(p) \/ \E r \in F!ServiceRows : F!CloseGone(p, r) PROVE FailoverInv'
  BY <1>8, ClosesInv
<1>9. ASSUME NEW p \in Pods, NEW r \in F!ServiceRows, F!NotEligible(p, r) \/ F!Evaluate(p, r) PROVE FailoverInv'
  BY <1>9, EvaluateInv
<1>10. ASSUME NEW p \in Pods, F!Spawn(p) \/ F!Publish(p) PROVE FailoverInv'
  BY <1>10, SpawnInv, PublishInv
<1>12. ASSUME NEW r \in F!ServiceRows, F!WindowPasses(r) PROVE FailoverInv'
  BY <1>12, WindowSteps
<1>11. CASE UNCHANGED fvars
  <2>1. F!TypeOK'
    BY <1>11, Zenon DEF fvars, FailoverInv, F!TypeOK, F!Used, F!Is
  <2> QED
    BY <1>11, <2>1, EndsInv DEF fvars, FailoverInv
<1> QED
  BY <1>1, <1>2, <1>3, <1>4, <1>5, <1>6, <1>7, <1>8, <1>9, <1>10, <1>11, <1>12, Zenon DEF F!Next

-----------------------------------------------------------------------------
(* As many failovers as the policy says. *)

\* Passes under way, and those that are going to create a row.
Running   == {p \in Pods : pass[p].pc # "idle"}
Committed == {p \in Pods : pass[p].pc \in {"close", "spawn"}}

\* Each pass but the leader's once overlapped; a pass looks at the number of
\* failovers before it is committed to another.
Capped ==
  /\ Cardinality(Running \ {leader}) <= overlaps
  /\ Cardinality(F!Failovers) + Cardinality(Committed) <= MaxAttempts + overlaps

LEMMA Sizes ==
  ASSUME FailoverAssumption, F!TypeOK
  PROVE  /\ IsFiniteSet(F!Failovers) /\ Cardinality(F!Failovers) \in Nat
         /\ IsFiniteSet(Running) /\ Cardinality(Running) \in Nat
         /\ IsFiniteSet(Committed) /\ Cardinality(Committed) \in Nat
         /\ Cardinality(Running \ {leader}) \in Nat /\ IsFiniteSet(Running \ {leader})
         /\ overlaps \in Nat /\ leader \in Pods /\ MaxAttempts \in Nat
<1>1. IsFiniteSet(F!ServiceRows)
  <2>1. MaxRows \in Int /\ 1 \in Int
    BY DEF FailoverAssumption
  <2> QED
    BY <2>1, FS_Interval DEF F!ServiceRows
<1>2. F!Failovers \subseteq F!ServiceRows
  BY Zenon DEF F!Failovers, F!Used
<1>3. Running \subseteq Pods /\ Committed \subseteq Pods /\ Running \ {leader} \subseteq Pods
  BY DEF Running, Committed
<1>4. overlaps \in Nat /\ leader \in Pods /\ MaxAttempts \in Nat
  BY DEF F!TypeOK, FailoverAssumption
<1>5. IsFiniteSet(Pods)
  BY DEF FailoverAssumption
<1> QED
  BY <1>1, <1>2, <1>3, <1>4, <1>5, FS_Subset, FS_CardinalityType

LEMMA CapKept ==
  ASSUME FailoverAssumption, F!TypeOK, F!TypeOK', Capped,
         F!Failovers' \subseteq F!Failovers, Running' \subseteq Running, Committed' \subseteq Committed,
         UNCHANGED <<leader, overlaps>>
  PROVE  Capped'
<1>1. Cardinality(F!Failovers)' <= Cardinality(F!Failovers) /\ Cardinality(F!Failovers)' \in Nat
  BY Sizes, FS_Subset, FS_CardinalityType
<1>2. Cardinality(Committed)' <= Cardinality(Committed) /\ Cardinality(Committed)' \in Nat
  BY Sizes, FS_Subset, FS_CardinalityType
<1>3. Cardinality(Running \ {leader})' <= Cardinality(Running \ {leader}) /\ Cardinality(Running \ {leader})' \in Nat
  <2>1. (Running \ {leader})' \subseteq Running \ {leader}
    OBVIOUS
  <2> QED
    BY <2>1, Sizes, FS_Subset, FS_CardinalityType
<1> QED
  BY <1>1, <1>2, <1>3, Sizes DEF Capped

\* The rows that change keep their flag, and a new one has none.
LEMMA SameFailovers ==
  ASSUME \A r \in F!ServiceRows :
           \/ /\ row'[r].failover = row[r].failover
              /\ row'[r].status = "ABSENT" <=> row[r].status = "ABSENT"
           \/ row[r].status = "ABSENT" /\ row'[r].failover = FALSE
  PROVE  F!Failovers' = F!Failovers
<1>1. ASSUME NEW r \in F!ServiceRows
      PROVE  r \in F!Failovers' <=> r \in F!Failovers
  BY Zenon DEF F!Failovers, F!Used, F!Is
<1>2. F!Failovers \subseteq F!ServiceRows /\ F!Failovers' \subseteq F!ServiceRows
  BY Zenon DEF F!Failovers, F!Used, F!ServiceRows
<1> QED
  BY <1>1, <1>2

LEMMA EditKeepsFlag ==
  ASSUME NEW w \in RowRecord, NEW st, NEW provider, NEW why
  PROVE  /\ [w EXCEPT !.status = st].failover = w.failover
         /\ [w EXCEPT !.status = st, !.provider = provider].failover = w.failover
         /\ [w EXCEPT !.status = st, !.provider = provider, !.why = why].failover = w.failover
BY DEF RowRecord

-----------------------------------------------------------------------------
(* One deployment at a time. *)

Sick(p) == pass[p].todo \cup pass[p].sick

\* What a pass that nobody overlaps knows of the service's deployments.
OneAt(p) ==
  /\ pass[p].pc # "probe" => pass[p].todo = {}
  /\ pass[p].pc \in {"probe", "act"} =>
       Sick(p) = {} \/ \E r \in F!ServiceRows : Sick(p) = {r} /\ F!Live \subseteq {r}
  /\ pass[p].pc = "close" => F!Live \subseteq {pass[p].at}
  /\ pass[p].pc = "spawn" => F!Live = {}
  /\ pass[p].pc \notin {"probe", "act"} => Sick(p) = {}

Single == (\A r, s \in F!Live : r = s) /\ \A p \in Pods : OneAt(p)

LEMMA SingleKept ==
  ASSUME Single, F!Live' \subseteq F!Live, \A p \in Pods : pass'[p] = pass[p] \/ OneAt(p)'
  PROVE  Single'
<1>1. ASSUME NEW p \in Pods, pass'[p] = pass[p], OneAt(p) PROVE OneAt(p)'
  BY <1>1 DEF OneAt, Sick
<1> QED
  BY <1>1 DEF Single

\* The pipeline, the user and the provider place and end rows.
LEMMA RowSteps ==
  ASSUME FailoverAssumption, FailoverInv, NEW r \in F!ServiceRows,
         \/ \E p \in Providers : F!Placed(r, p)
         \/ \E p \in Providers \cup {NoProvider}, why \in {"deterministic", "exhausted", "cancelled"} :
              F!GiveUp(r, p, why) /\ row[r].status = "CREATING"
              /\ UNCHANGED <<pass, leader, overlaps, threw>>
         \/ F!Stale(r) \/ F!UserCloses(r) \/ F!Ignore(r) \/ \E how \in {"down", "gone"} : F!Breaks(r, how)
  PROVE  F!Failovers' = F!Failovers /\ F!Live' \subseteq F!Live /\ UNCHANGED <<pass, leader, overlaps, threw>>
<1>1. row \in [F!ServiceRows -> RowRecord]
  BY FailoverTypes DEF FailoverInv
<1>2. ASSUME NEW new \in RowRecord, row' = [row EXCEPT ![r] = new], row[r].status \in {"CREATING", "ACTIVE"},
             new.failover = row[r].failover, new.status # "ABSENT"
      PROVE  F!Failovers' = F!Failovers /\ F!Live' \subseteq F!Live
  <2>1. \A s \in F!ServiceRows : row'[s].failover = row[s].failover
                              /\ (row'[s].status = "ABSENT" <=> row[s].status = "ABSENT")
    BY <1>1, <1>2
  <2>2. F!Live' \subseteq F!Live
    BY <1>1, <1>2 DEF F!Live, F!Is
  <2> QED
    BY <2>1, <2>2, SameFailovers
<1>3. ASSUME NEW p \in Providers, F!Placed(r, p)
      PROVE  F!Failovers' = F!Failovers /\ F!Live' \subseteq F!Live /\ UNCHANGED <<pass, leader, overlaps, threw>>
  <2> DEFINE new == [row[r] EXCEPT !.status = "ACTIVE", !.provider = p]
  <2>1. new \in RowRecord /\ new.status = "ACTIVE" /\ new.failover = row[r].failover
    <3>1. new \in RowRecord
      BY <1>1, Edited
    <3>2. new.failover = row[r].failover
      BY <1>1, EditKeepsFlag
    <3> QED
      BY <1>1, <3>1, <3>2 DEF RowRecord
  <2>2. /\ row' = [row EXCEPT ![r] = new] /\ row[r].status = "CREATING"
        /\ UNCHANGED <<pass, leader, overlaps, threw>>
    BY <1>1, <1>3 DEF F!Placed
  <2> HIDE DEF new
  <2> QED
    BY <1>2, <2>1, <2>2
<1>4. ASSUME NEW p \in Providers \cup {NoProvider}, NEW why \in {"deterministic", "exhausted", "cancelled"},
             F!GiveUp(r, p, why), row[r].status = "CREATING"
      PROVE  F!Failovers' = F!Failovers /\ F!Live' \subseteq F!Live
  <2> DEFINE new == [row[r] EXCEPT !.status = "PERMANENTLY_FAILED", !.provider = p, !.why = why]
  <2>1. new \in RowRecord /\ new.status = "PERMANENTLY_FAILED" /\ new.failover = row[r].failover
    <3>1. new \in RowRecord
      BY <1>1, Edited
    <3>2. new.failover = row[r].failover
      BY <1>1, EditKeepsFlag
    <3> QED
      BY <1>1, <3>1, <3>2 DEF RowRecord
  <2>2. row' = [row EXCEPT ![r] = new]
    BY <1>1, <1>4 DEF F!GiveUp
  <2> HIDE DEF new
  <2> QED
    BY <1>2, <1>4, <2>1, <2>2
<1>5. CASE F!Stale(r)
  <2> DEFINE new == [row[r] EXCEPT !.status = "FAILED"]
  <2>1. new \in RowRecord /\ new.status = "FAILED" /\ new.failover = row[r].failover
    <3>1. new \in RowRecord
      BY <1>1, Edited
    <3>2. new.failover = row[r].failover
      BY <1>1, EditKeepsFlag
    <3> QED
      BY <1>1, <3>1, <3>2 DEF RowRecord
  <2>2. /\ row' = [row EXCEPT ![r] = new] /\ row[r].status = "CREATING"
        /\ UNCHANGED <<pass, leader, overlaps, threw>>
    BY <1>1, <1>5 DEF F!Stale, F!Is
  <2> HIDE DEF new
  <2> QED
    BY <1>2, <2>1, <2>2
<1>6. CASE F!UserCloses(r)
  <2>1. /\ r \in F!Live /\ UNCHANGED <<pass, leader, overlaps, threw>>
        /\ row' = [s \in F!ServiceRows |-> IF s = r \/ s \in F!Is({"CREATING"})
                                          THEN [row[s] EXCEPT !.status = "CLOSED"] ELSE row[s]]
    BY <1>6 DEF F!UserCloses
  <2>2. \A s \in F!ServiceRows : [row[s] EXCEPT !.status = "CLOSED"].failover = row[s].failover
                              /\ [row[s] EXCEPT !.status = "CLOSED"].status = "CLOSED"
    BY <1>1, EditKeepsFlag DEF RowRecord
  <2>3. \A s \in F!ServiceRows : \/ row'[s] = row[s]
                                 \/ /\ row'[s].failover = row[s].failover /\ row'[s].status = "CLOSED"
                                    /\ row[s].status \in {"CREATING", "ACTIVE"}
    BY <2>1, <2>2, Zenon DEF F!Live, F!Is
  <2>4. \A s \in F!ServiceRows : row'[s].failover = row[s].failover
                              /\ (row'[s].status = "ABSENT" <=> row[s].status = "ABSENT")
    BY <2>3
  <2>5. F!Live' \subseteq F!Live
    BY <2>3 DEF F!Live, F!Is
  <2> QED
    BY <2>1, <2>4, <2>5, SameFailovers
<1>7. CASE F!Ignore(r) \/ \E how \in {"down", "gone"} : F!Breaks(r, how)
  <2>1. UNCHANGED <<row, pass, leader, overlaps, threw>>
    BY <1>7 DEF F!Ignore, F!Breaks
  <2> QED
    BY <2>1 DEF F!Failovers, F!Used, F!Live, F!Is
<1> QED
  BY <1>3, <1>4, <1>5, <1>6, <1>7

Few == Capped /\ (overlaps = 0 /\ ~threw => Single)

LEMMA FewInit == FailoverAssumption /\ F!Init /\ FailoverInv => Few
<1> SUFFICES ASSUME FailoverAssumption, F!Init, FailoverInv PROVE Few
  OBVIOUS
<1>1. overlaps = 0 /\ \A p \in Pods : pass[p] = F!NoPass
  BY DEF F!Init
<1>2. F!NoPass.pc = "idle" /\ F!NoPass.todo = {} /\ F!NoPass.sick = {}
  BY DEF F!NoPass
<1>3. Running = {} /\ Committed = {} /\ Running \ {leader} = {}
  BY <1>1, <1>2 DEF Running, Committed
<1>4. F!Absent.status = "ABSENT" /\ F!Absent.failover = FALSE
  BY DEF F!Absent
<1>5. F!Failovers = {}
  <2>1. \A r \in F!ServiceRows : row[r].status = "ABSENT" \/ row[r].failover = FALSE
    <3>1. [F!Absent EXCEPT !.status = "CREATING"].failover = FALSE
      BY DEF F!Absent
    <3> QED
      BY <1>4, <3>1 DEF F!Init
  <2> QED
    BY <2>1, Zenon DEF F!Failovers, F!Used, F!Is
<1>6. Capped
  BY <1>1, <1>3, <1>5, FS_EmptySet DEF Capped, FailoverAssumption
<1>7. \A r \in F!Live : r = 1
  BY <1>4 DEF F!Init, F!Live, F!Is
<1>8. \A p \in Pods : OneAt(p)
  BY <1>1, <1>2 DEF OneAt, Sick
<1> QED
  BY <1>6, <1>7, <1>8, Zenon DEF Few, Single

LEMMA RowFew ==
  ASSUME FailoverAssumption, F!TypeOK, F!TypeOK', Few,
         F!Failovers' \subseteq F!Failovers, F!Live' \subseteq F!Live, UNCHANGED <<pass, leader, overlaps, threw>>
  PROVE  Few'
<1>1. Capped'
  <2>1. Running' = Running /\ Committed' = Committed
    BY DEF Running, Committed
  <2> QED
    BY <2>1, CapKept DEF Few
<1>2. Single => Single'
  BY SingleKept
<1> QED
  BY <1>1, <1>2, Zenon DEF Few

\* A failed row is replaced by its retry; a pass works on rows that were placed.
LEMMA RetryFew ==
  ASSUME FailoverAssumption, FailoverInv, F!TypeOK', Few, NEW r \in F!ServiceRows,
         NEW p \in Providers \cup {NoProvider}, row[r].status = "CREATING",
         F!NextRow \in F!ServiceRows, F!Retry(r, p), UNCHANGED <<pass, leader, overlaps, threw>>
  PROVE  Few'
<1> DEFINE n   == F!NextRow
           new == [F!Absent EXCEPT !.status = "CREATING",
                     !.excluded = row[r].excluded \cup ({p} \ {NoProvider}),
                     !.tries = row[r].tries + 1, !.lineage = row[r].lineage \cup {r}]
           old == [row[r] EXCEPT !.status = "FAILED", !.provider = p]
<1>1. row \in [F!ServiceRows -> RowRecord] /\ \A q \in Pods : PassOK(q)
  BY FailoverTypes DEF FailoverInv, PassesOK
<1>2. n \in F!ServiceRows /\ row[n].status = "ABSENT" /\ n # r
  BY NextRowIsAbsent
<1>3. new.status = "CREATING" /\ new.failover = FALSE
  BY DEF F!Absent
<1>4. old.status = "FAILED" /\ old.failover = row[r].failover
  BY <1>1, EditKeepsFlag DEF RowRecord
<1>5. row' = [[row EXCEPT ![r] = old] EXCEPT ![n] = new]
  BY <1>1, <1>2 DEF F!Retry, RowRecord
<1> HIDE DEF n, new, old
<1>6. row'[n] = new /\ row'[r] = old /\ \A s \in F!ServiceRows \ {n, r} : row'[s] = row[s]
  BY <1>1, <1>2, <1>5
<1>7. F!Failovers' = F!Failovers
  <2>1. ASSUME NEW s \in F!ServiceRows
        PROVE  \/ /\ row'[s].failover = row[s].failover
                  /\ row'[s].status = "ABSENT" <=> row[s].status = "ABSENT"
               \/ row[s].status = "ABSENT" /\ row'[s].failover = FALSE
    <3>1. CASE s = n
      BY <1>2, <1>3, <1>6, <3>1
    <3>2. CASE s = r
      <4>1. row'[s].failover = row[s].failover
        BY <1>4, <1>6, <3>2
      <4>2. row'[s].status = "FAILED" /\ row[s].status = "CREATING"
        BY <1>4, <1>6, <3>2
      <4> QED
        BY <4>1, <4>2
    <3>3. CASE s \notin {n, r}
      BY <1>6, <3>3
    <3> QED
      BY <3>1, <3>2, <3>3
  <2> QED
    BY <2>1, SameFailovers
<1>8. Capped'
  <2>1. Running' = Running /\ Committed' = Committed
    BY DEF Running, Committed
  <2> QED
    BY <1>7, <2>1, CapKept DEF Few, FailoverInv
<1>9. ASSUME Single PROVE Single'
  <2>1. F!Live = {r} /\ F!Live' = {n}
    BY <1>2, <1>3, <1>4, <1>6, <1>9 DEF Single, F!Live, F!Is
  <2>2. r \notin Hosted
    BY DEF Hosted, Past, F!Is
  <2>3. ASSUME NEW q \in Pods PROVE OneAt(q)'
    <3>1. OneAt(q) /\ PassOK(q)
      BY <1>1, <1>9 DEF Single
    <3>2. Sick(q) \subseteq Hosted /\ Sick(q)' = Sick(q) /\ pass'[q] = pass[q]
      BY <3>1 DEF PassOK, Sick
    <3>3. Sick(q) = {}
      BY <2>1, <2>2, <3>1, <3>2 DEF OneAt
    <3>4. pass[q].pc \notin {"close", "spawn"}
      BY <2>1, <2>2, <3>1 DEF OneAt, PassOK
    <3> QED
      BY <3>1, <3>2, <3>3, <3>4 DEF OneAt
  <2> QED
    BY <2>1, <2>3 DEF Single
<1> QED
  BY <1>8, <1>9, Zenon DEF Few

\* The pass that goes on after a handover is the one more.
LEMMA HandoverFew ==
  ASSUME FailoverAssumption, F!TypeOK, F!TypeOK', Few, NEW p \in Pods, F!Handover(p)
  PROVE  Few'
<1>1. /\ leader' = p /\ UNCHANGED <<row, pass, threw>>
      /\ overlaps' = overlaps + IF pass[leader].pc = "idle" THEN 0 ELSE 1
  BY DEF F!Handover
<1>2. Running' = Running /\ Committed' = Committed /\ F!Failovers' = F!Failovers /\ F!Live' = F!Live
  BY <1>1 DEF Running, Committed, F!Failovers, F!Used, F!Live, F!Is
<1>3. Capped'
  <2> DEFINE rest == Running \ {leader}
  <2>1. IsFiniteSet(rest) /\ Cardinality(rest) \in Nat /\ overlaps \in Nat
    BY Sizes
  <2>2. Cardinality(Running \ {p}) <= overlaps'
    <3>1. CASE pass[leader].pc = "idle"
      <4>1. Running \ {p} \subseteq rest
        BY <3>1 DEF Running
      <4> QED
        BY <1>1, <2>1, <3>1, <4>1, FS_Subset, FS_CardinalityType DEF Few, Capped
    <3>2. CASE pass[leader].pc # "idle"
      <4>1. Running \ {p} \subseteq rest \cup {leader} /\ leader \notin rest
        OBVIOUS
      <4> HIDE DEF rest
      <4>2. IsFiniteSet(rest \cup {leader}) /\ Cardinality(rest \cup {leader}) = Cardinality(rest) + 1
        BY <2>1, <4>1, FS_AddElement
      <4>3. Cardinality(Running \ {p}) <= Cardinality(rest) + 1 /\ Cardinality(Running \ {p}) \in Nat
        BY <4>1, <4>2, FS_Subset, FS_CardinalityType
      <4> QED
        BY <1>1, <2>1, <3>2, <4>3 DEF Few, Capped, rest
    <3> QED
      BY <3>1, <3>2
  <2>3. Cardinality(F!Failovers) + Cardinality(Committed) <= MaxAttempts + overlaps'
    BY <1>1, Sizes DEF Few, Capped
  <2>4. (Running \ {leader})' = Running \ {p}
    BY <1>1, <1>2
  <2> QED
    BY <1>2, <2>2, <2>3, <2>4 DEF Capped
<1>4. Single => Single'
  BY <1>1, <1>2, SingleKept
<1>5. overlaps' = 0 => overlaps = 0
  BY <1>1 DEF F!TypeOK
<1> QED
  BY <1>1, <1>3, <1>4, <1>5, Zenon DEF Few

\* A step of a pass that commits to nothing new.
LEMMA PassCapped ==
  ASSUME FailoverAssumption, FailoverInv, F!TypeOK', Few, NEW p \in Pods, NEW new \in PassRecord,
         pass' = [pass EXCEPT ![p] = new], F!Failovers' = F!Failovers, UNCHANGED <<leader, overlaps>>,
         pass[p].pc # "idle", new.pc \in {"close", "spawn"} => pass[p].pc \in {"close", "spawn"}
  PROVE  Capped'
<1>1. pass \in [Pods -> PassRecord]
  BY FailoverTypes DEF FailoverInv
<1>2. Running' \subseteq Running /\ Committed' \subseteq Committed
  BY <1>1 DEF Running, Committed
<1> QED
  BY <1>2, CapKept DEF Few, FailoverInv

LEMMA PassFew ==
  ASSUME FailoverAssumption, FailoverInv, F!TypeOK', Few, NEW p \in Pods, NEW new \in PassRecord,
         pass' = [pass EXCEPT ![p] = new], F!Failovers' = F!Failovers, F!Live' \subseteq F!Live,
         UNCHANGED <<leader, overlaps, threw>>, pass[p].pc # "idle",
         new.pc \in {"close", "spawn"} => pass[p].pc \in {"close", "spawn"},
         Single => OneAt(p)'
  PROVE  Few'
<1>1. Capped'
  BY PassCapped
<1>2. \A q \in Pods : q = p \/ pass'[q] = pass[q]
  BY FailoverTypes DEF FailoverInv
<1>3. Single => Single'
  BY <1>2, SingleKept
<1> QED
  BY <1>1, <1>3, Zenon DEF Few

LEMMA StartFew ==
  ASSUME FailoverAssumption, FailoverInv, F!TypeOK', Few, NEW p \in Pods, F!StartPass(p)
  PROVE  Few'
<1> DEFINE new == [F!NoPass EXCEPT !.pc = "probe", !.todo = F!Is({"ACTIVE"})]
<1>1. /\ p = leader /\ pass' = [pass EXCEPT ![p] = new]
      /\ UNCHANGED <<row, leader, overlaps, threw>>
  BY DEF F!StartPass
<1>2. new.pc = "probe" /\ new.todo = F!Is({"ACTIVE"}) /\ new.sick = {}
  BY DEF F!NoPass
<1> HIDE DEF new
<1>3. pass \in [Pods -> PassRecord]
  BY FailoverTypes DEF FailoverInv
<1>4. pass'[p] = new /\ \A q \in Pods : q = p \/ pass'[q] = pass[q]
  BY <1>1, <1>3
<1>5. F!Failovers' = F!Failovers /\ F!Live' = F!Live
  BY <1>1 DEF F!Failovers, F!Used, F!Live, F!Is
<1>6. Capped'
  <2>1. Running' \ {leader} = Running \ {leader} /\ Committed' \subseteq Committed
    BY <1>1, <1>2, <1>4 DEF Running, Committed
  <2>2. Cardinality(Committed)' <= Cardinality(Committed) /\ Cardinality(Committed)' \in Nat
    BY <2>1, Sizes, FS_Subset, FS_CardinalityType DEF FailoverInv
  <2>3. (Running \ {leader})' = Running \ {leader}
    BY <1>1, <2>1
  <2>4. Cardinality(F!Failovers) + Cardinality(Committed)' <= MaxAttempts + overlaps
    BY <2>2, Sizes DEF Few, Capped, FailoverInv
  <2> QED
    BY <1>1, <1>5, <2>3, <2>4 DEF Few, Capped
<1>7. ASSUME Single PROVE OneAt(p)'
  <2>1. F!Is({"ACTIVE"}) \subseteq F!Live /\ F!Live \subseteq F!ServiceRows
    BY DEF F!Live, F!Is
  <2>2. F!Is({"ACTIVE"}) = {} \/ \E r \in F!ServiceRows : F!Is({"ACTIVE"}) = {r} /\ F!Live \subseteq {r}
    BY <1>7, <2>1 DEF Single
  <2>3. Sick(p)' = F!Is({"ACTIVE"})
    BY <1>2, <1>4 DEF Sick
  <2> QED
    BY <1>2, <1>4, <1>5, <2>2, <2>3 DEF OneAt
<1>8. Single => Single'
  BY <1>4, <1>5, <1>7, SingleKept
<1> QED
  BY <1>1, <1>6, <1>8, Zenon DEF Few

\* Probing, and what ends a pass, finds nothing new.
LEMMA SweepFew ==
  ASSUME FailoverAssumption, FailoverInv, F!TypeOK', Few, NEW p \in Pods,
         \/ F!MassEvent(p) \/ F!EndPass(p) \/ F!Act(p) \/ \E reading : F!Probe(p, reading)
         \/ \E r \in F!ServiceRows : F!NotEligible(p, r)
  PROVE  Few'
<1>1. pass \in [Pods -> PassRecord]
  BY FailoverTypes DEF FailoverInv
<1>2. UNCHANGED <<row, leader, overlaps, threw>>
  BY DEF F!MassEvent, F!EndPass, F!Act, F!Probe, F!NotEligible
<1>3. F!Failovers' = F!Failovers /\ F!Live' = F!Live
  BY <1>2 DEF F!Failovers, F!Used, F!Live, F!Is
<1>4. ASSUME NEW new \in PassRecord, pass' = [pass EXCEPT ![p] = new], pass[p].pc \in {"probe", "act"},
             \/ /\ new.pc \in {"probe", "act"} /\ new.todo \cup new.sick \subseteq Sick(p)
                /\ new.pc # "probe" => new.todo = {}
             \/ new.pc = "idle" /\ new.todo = {} /\ new.sick = {}
      PROVE  Few'
  <2>1. pass'[p] = new
    BY <1>1, <1>4
  <2>2. ASSUME Single PROVE OneAt(p)'
    <3>1. Sick(p)' \subseteq Sick(p)
      BY <1>4, <2>1 DEF Sick
    <3>2. OneAt(p)
      BY <2>2 DEF Single
    <3>3. Sick(p)' = {} \/ Sick(p)' = Sick(p) \/ Sick(p) = {}
          \/ ~\E r \in F!ServiceRows : Sick(p) = {r}
      BY <3>1
    <3>4. Sick(p)' = {} \/ \E r \in F!ServiceRows : Sick(p)' = {r} /\ F!Live \subseteq {r}
      BY <1>4, <3>1, <3>2, <3>3 DEF OneAt
    <3>5. pass'[p].pc = "idle" => Sick(p)' = {}
      BY <1>4, <2>1 DEF Sick
    <3> QED
      BY <1>3, <1>4, <2>1, <3>4, <3>5 DEF OneAt
  <2>3. pass[p].pc # "idle" /\ new.pc \notin {"close", "spawn"}
    BY <1>4
  <2> QED
    BY <1>2, <1>3, <1>4, <2>2, <2>3, PassFew
<1>5. CASE F!MassEvent(p) \/ F!EndPass(p)
  <2>1. pass' = [pass EXCEPT ![p] = F!NoPass] /\ pass[p].pc \in {"probe", "act"}
    BY <1>5 DEF F!MassEvent, F!EndPass
  <2>2. F!NoPass \in PassRecord /\ F!NoPass.pc = "idle" /\ F!NoPass.todo = {} /\ F!NoPass.sick = {}
    BY DEF F!NoPass, PassRecord, F!ServiceRows, FailoverAssumption
  <2> QED
    BY <1>4, <2>1, <2>2
<1>6. CASE F!Act(p)
  <2> DEFINE new == [pass[p] EXCEPT !.pc = "act"]
  <2>1. new \in PassRecord /\ new.pc = "act" /\ new.todo = pass[p].todo /\ new.sick = pass[p].sick
    BY <1>1 DEF PassRecord
  <2>2. pass' = [pass EXCEPT ![p] = new] /\ pass[p].pc = "probe" /\ pass[p].todo = {}
    BY <1>1, <1>6 DEF F!Act
  <2> HIDE DEF new
  <2> QED
    BY <1>4, <2>1, <2>2 DEF Sick
<1>7. ASSUME NEW reading, F!Probe(p, reading) PROVE Few'
  <2> DEFINE r   == CHOOSE r \in pass[p].todo : TRUE
             counted == F!Counted(streak[p][r], reading)
             new == [pass[p] EXCEPT !.todo = @ \ {r},
                                    !.gone = IF counted.gone = Threshold THEN @ \cup {r} ELSE @,
                                    !.sick = IF counted.sick = Threshold THEN @ \cup {r} ELSE @]
  <2>1. r \in pass[p].todo /\ pass[p].pc = "probe" /\ pass' = [pass EXCEPT ![p] = new]
    BY <1>1, <1>7 DEF F!Probe
  <2>2. r \in F!ServiceRows
    BY <1>1, <2>1 DEF PassRecord
  <2> HIDE DEF counted, r
  <2>3. /\ new \in PassRecord /\ new.pc = "probe"
        /\ new.todo \cup new.sick \subseteq pass[p].todo \cup pass[p].sick
    BY <1>1, <2>1, <2>2 DEF PassRecord
  <2> HIDE DEF new
  <2> QED
    BY <1>4, <2>1, <2>3 DEF Sick
<1>8. ASSUME NEW r \in F!ServiceRows, F!NotEligible(p, r) PROVE Few'
  <2> DEFINE new == [pass[p] EXCEPT !.sick = @ \ {r}]
  <2>1. pass[p].pc = "act" /\ pass' = [pass EXCEPT ![p] = new]
    BY <1>1, <1>8 DEF F!NotEligible
  <2>2. new \in PassRecord /\ new.pc = "act" /\ new.todo = pass[p].todo /\ new.sick \subseteq pass[p].sick
    BY <1>1, <2>1 DEF PassRecord
  <2> HIDE DEF new
  <2>3. ASSUME NEW q \in Pods, Single PROVE OneAt(q)
    BY <2>3 DEF Single
  <2>4. ASSUME Single PROVE Few'
    <3>1. pass[p].todo = {}
      BY <2>1, <2>3, <2>4 DEF OneAt
    <3> QED
      BY <1>4, <2>1, <2>2, <3>1 DEF Sick
  <2>5. ASSUME ~Single PROVE Few'
    BY <1>2, <1>3, <2>1, <2>2, <2>5, PassFew
  <2> QED
    BY <2>4, <2>5
<1> QED
  BY <1>5, <1>6, <1>7, <1>8

\* Closing a row that was placed.
LEMMA ShutsRow ==
  ASSUME FailoverAssumption, FailoverInv, NEW r \in Hosted, F!Closed(r) \/ UNCHANGED row
  PROVE  /\ F!Failovers' = F!Failovers /\ F!Live' \subseteq F!Live
         /\ F!Closed(r) => r \notin F!Live'
<1>1. row \in [F!ServiceRows -> RowRecord]
  BY FailoverTypes DEF FailoverInv
<1>2. r \in F!ServiceRows /\ row[r].status \notin {"ABSENT", "CREATING"}
  BY DEF Hosted, Past, F!Used, F!Is
<1>3. CASE F!Closed(r)
  <2> DEFINE shut == [row[r] EXCEPT !.status = "CLOSED"]
  <2>1. shut.failover = row[r].failover
    BY <1>1, <1>2, EditKeepsFlag
  <2>2. shut.status = "CLOSED"
    BY <1>1, <1>2 DEF RowRecord
  <2>3. row' = [row EXCEPT ![r] = shut]
    BY <1>1, <1>2, <1>3 DEF F!Closed
  <2> HIDE DEF shut
  <2>4. row'[r] = shut /\ \A s \in F!ServiceRows \ {r} : row'[s] = row[s]
    BY <1>1, <1>2, <2>3
  <2>5. ASSUME NEW s \in F!ServiceRows
        PROVE  row'[s].failover = row[s].failover /\ (row'[s].status = "ABSENT" <=> row[s].status = "ABSENT")
    <3>1. CASE s = r
      <4>1. row'[s].failover = row[s].failover
        BY <2>1, <2>4, <3>1
      <4>2. row'[s].status = "CLOSED" /\ row[s].status # "ABSENT"
        BY <1>2, <2>2, <2>4, <3>1
      <4> QED
        BY <4>1, <4>2
    <3>2. CASE s # r
      BY <2>4, <3>2
    <3> QED
      BY <3>1, <3>2
  <2>6. F!Live' \subseteq F!Live /\ r \notin F!Live'
    BY <2>2, <2>4 DEF F!Live, F!Is
  <2> QED
    BY <2>5, <2>6, SameFailovers
<1>4. CASE row' = row
  <2>1. F!Failovers' = F!Failovers /\ F!Live' = F!Live
    BY <1>4 DEF F!Failovers, F!Used, F!Live, F!Is
  <2>2. F!Closed(r) => r \notin F!Live'
    BY <1>1, <1>2 DEF F!Closed, F!Live, F!Is
  <2> QED
    BY <2>1, <2>2
<1> QED
  BY <1>3, <1>4

LEMMA CloseGoneFew ==
  ASSUME FailoverAssumption, FailoverInv, F!TypeOK', Few, NEW p \in Pods, NEW r \in F!ServiceRows,
         F!CloseGone(p, r)
  PROVE  Few'
<1> DEFINE new == [pass[p] EXCEPT !.gone = @ \ {r}]
<1>1. pass \in [Pods -> PassRecord] /\ PassOK(p)
  BY FailoverTypes DEF FailoverInv, PassesOK
<1>2. /\ new \in PassRecord /\ new.pc = pass[p].pc /\ new.todo = pass[p].todo /\ new.sick = pass[p].sick
  BY <1>1 DEF PassRecord
<1>3. /\ pass[p].pc = "act" /\ r \in pass[p].gone /\ pass' = [pass EXCEPT ![p] = new]
      /\ F!Closed(r) \/ UNCHANGED row
      /\ UNCHANGED <<leader, overlaps, threw>>
  BY <1>1 DEF F!CloseGone
<1>4. r \in Hosted
  BY <1>1, <1>3 DEF PassOK
<1> HIDE DEF new
<1>5. F!Failovers' = F!Failovers /\ F!Live' \subseteq F!Live
  BY <1>3, <1>4, ShutsRow
<1>6. pass'[p] = new
  BY <1>1, <1>3
<1>7. ASSUME Single PROVE OneAt(p)'
  <2>1. OneAt(p)
    BY <1>7 DEF Single
  <2>2. Sick(p)' = Sick(p)
    BY <1>2, <1>6 DEF Sick
  <2> QED
    BY <1>2, <1>3, <1>5, <1>6, <2>1, <2>2 DEF OneAt
<1> QED
  BY <1>2, <1>3, <1>5, <1>7, PassFew

\* The one place where a pass commits itself: the policy allows one more.
LEMMA EvaluateFew ==
  ASSUME FailoverAssumption, FailoverInv, F!TypeOK', Few, NEW p \in Pods, NEW r \in F!ServiceRows,
         F!Evaluate(p, r)
  PROVE  Few'
<1>1. /\ pass[p].pc = "act" /\ r \in pass[p].sick /\ Cardinality(F!Failovers) < MaxAttempts
      /\ UNCHANGED <<row, leader, overlaps, threw>>
  BY Counting DEF F!Evaluate
<1>2. pass \in [Pods -> PassRecord]
  BY FailoverTypes DEF FailoverInv
<1>3. /\ pass'[p].pc = "close" /\ pass'[p].at = r /\ pass'[p].todo = pass[p].todo
      /\ pass'[p].sick = pass[p].sick \ {r} /\ \A q \in Pods : q = p \/ pass'[q] = pass[q]
  BY <1>2 DEF F!Evaluate, PassRecord
<1>4. F!Failovers' = F!Failovers /\ F!Live' = F!Live
  BY <1>1 DEF F!Failovers, F!Used, F!Live, F!Is
<1>5. Capped'
  <2>1. Running' = Running /\ Committed' \subseteq (Running \ {leader}) \cup {leader}
    BY <1>1, <1>3 DEF Running, Committed
  <2> DEFINE rest == Running \ {leader}
  <2>2. IsFiniteSet(rest) /\ leader \notin rest /\ Cardinality(rest) <= overlaps
    BY Sizes DEF Few, Capped, FailoverInv
  <2>3. Cardinality(rest) \in Nat /\ overlaps \in Nat /\ MaxAttempts \in Nat /\ Cardinality(F!Failovers) \in Nat
    BY Sizes DEF FailoverInv
  <2>4. Committed' \subseteq rest \cup {leader}
    BY <2>1
  <2> HIDE DEF rest
  <2>5. IsFiniteSet(rest \cup {leader}) /\ Cardinality(rest \cup {leader}) = Cardinality(rest) + 1
    BY <2>2, FS_AddElement
  <2>6. Cardinality(Committed') <= Cardinality(rest) + 1 /\ Cardinality(Committed') \in Nat
    BY <2>4, <2>5, FS_Subset, FS_CardinalityType
  <2>7. Cardinality(F!Failovers) + Cardinality(Committed') <= MaxAttempts + overlaps
    BY <1>1, <2>2, <2>3, <2>6
  <2>8. (Running \ {leader})' = Running \ {leader}
    BY <1>1, <2>1
  <2> QED
    BY <1>1, <1>4, <2>7, <2>8 DEF Few, Capped
<1>6. ASSUME Single PROVE Single'
  <2>1. OneAt(p)
    BY <1>6 DEF Single
  <2>2. r \in Sick(p)
    BY <1>1 DEF Sick
  <2>3. Sick(p) = {r} /\ F!Live \subseteq {r} /\ pass[p].todo = {} /\ pass[p].sick \subseteq {r}
    BY <1>1, <2>1, <2>2 DEF OneAt, Sick
  <2>4. Sick(p)' = {}
    BY <1>3, <2>3 DEF Sick
  <2>5. OneAt(p)'
    BY <1>3, <1>4, <2>3, <2>4 DEF OneAt
  <2> QED
    BY <1>3, <1>4, <1>6, <2>5, SingleKept
<1> QED
  BY <1>1, <1>5, <1>6, Zenon DEF Few

LEMMA CloseOldFew ==
  ASSUME FailoverAssumption, FailoverInv, F!TypeOK', Few, NEW p \in Pods, F!CloseOld(p)
  PROVE  Few'
<1> DEFINE new == [pass[p] EXCEPT !.pc = "spawn"]
<1>1. pass \in [Pods -> PassRecord] /\ PassOK(p)
  BY FailoverTypes DEF FailoverInv, PassesOK
<1>2. new \in PassRecord /\ new.pc = "spawn" /\ new.todo = pass[p].todo /\ new.sick = pass[p].sick
  BY <1>1 DEF PassRecord
<1>3. /\ pass[p].pc = "close" /\ pass' = [pass EXCEPT ![p] = new]
      /\ F!Closed(pass[p].at) \/ UNCHANGED row
      /\ UNCHANGED <<leader, overlaps>>
  BY <1>1 DEF F!CloseOld
<1>4. pass[p].at \in Hosted
  BY <1>1, <1>3 DEF PassOK
<1> HIDE DEF new
<1>5. F!Failovers' = F!Failovers /\ F!Live' \subseteq F!Live /\ (F!Closed(pass[p].at) => pass[p].at \notin F!Live')
  BY <1>3, <1>4, ShutsRow
<1>6. Capped'
  BY <1>2, <1>3, <1>5, PassCapped
<1>7. pass'[p] = new /\ \A q \in Pods : q = p \/ pass'[q] = pass[q]
  BY <1>1, <1>3
<1>8. ASSUME Single, F!Closed(pass[p].at) PROVE Single'
  <2>1. OneAt(p)
    BY <1>8 DEF Single
  <2>2. F!Live' = {}
    BY <1>3, <1>5, <1>8, <2>1 DEF OneAt
  <2>3. Sick(p)' = {} /\ pass[p].todo = {}
    BY <1>2, <1>3, <1>7, <2>1 DEF OneAt, Sick
  <2>4. OneAt(p)'
    BY <1>2, <1>7, <2>2, <2>3 DEF OneAt
  <2> QED
    BY <1>5, <1>7, <1>8, <2>4, SingleKept
<1>9. (F!Closed(pass[p].at) /\ UNCHANGED threw) \/ threw'
  BY Zenon DEF F!CloseOld
<1> QED
  BY <1>3, <1>6, <1>8, <1>9, Zenon DEF Few

\* The replacement is announced; the other passes are idle.
LEMMA SpawnFew ==
  ASSUME FailoverAssumption, FailoverInv, F!TypeOK', Few, NEW p \in Pods, F!Spawn(p)
  PROVE  Few'
<1> DEFINE n == F!NextRow
<1>1. row \in [F!ServiceRows -> RowRecord] /\ pass \in [Pods -> PassRecord]
  BY FailoverTypes DEF FailoverInv
<1>2. pass[p].pc = "spawn" /\ n \in F!ServiceRows /\ UNCHANGED <<leader, overlaps, threw>>
  BY DEF F!Spawn
<1>3. row[n].status = "ABSENT"
  BY <1>2, NextRowIsAbsent
<1>4. /\ pass'[p].pc = "publish" /\ pass'[p].todo = pass[p].todo /\ pass'[p].sick = pass[p].sick
      /\ \A q \in Pods : q = p \/ pass'[q] = pass[q]
  BY <1>1 DEF F!Spawn, PassRecord
<1>5. row'[n].status = "CREATING" /\ \A s \in F!ServiceRows \ {n} : row'[s] = row[s]
  BY <1>1, <1>2 DEF F!Spawn, F!Absent
<1> HIDE DEF n
<1>6. F!Failovers' \subseteq F!Failovers \cup {n}
  <2>1. \A s \in F!ServiceRows : s = n \/ row'[s] = row[s]
    BY <1>5
  <2> QED
    BY <2>1, Zenon DEF F!Failovers, F!Used, F!Is, F!ServiceRows
<1>7. Running' = Running /\ p \in Committed /\ Committed' = Committed \ {p}
  BY <1>2, <1>4 DEF Running, Committed
<1>8. Capped'
  <2>1. IsFiniteSet(F!Failovers) /\ IsFiniteSet(Committed)
    BY Sizes DEF FailoverInv
  <2>2. Cardinality(F!Failovers) \in Nat /\ Cardinality(Committed) \in Nat
    BY <2>1, FS_CardinalityType
  <2>3. n \notin F!Failovers
    BY <1>3 DEF F!Failovers, F!Used, F!Is
  <2>4. IsFiniteSet(F!Failovers \cup {n}) /\ Cardinality(F!Failovers \cup {n}) = Cardinality(F!Failovers) + 1
    BY <2>1, <2>3, FS_AddElement
  <2>5. Cardinality(F!Failovers') <= Cardinality(F!Failovers) + 1 /\ Cardinality(F!Failovers') \in Nat
    BY <1>6, <2>4, FS_Subset, FS_CardinalityType
  <2>6. Cardinality(Committed') = Cardinality(Committed) - 1
    BY <1>7, <2>1, FS_RemoveElement
  <2>7. Cardinality(F!Failovers') + Cardinality(Committed') <= MaxAttempts + overlaps
    BY <2>2, <2>5, <2>6, Sizes DEF Few, Capped, FailoverInv
  <2>8. (Running \ {leader})' = Running \ {leader}
    BY <1>2, <1>7
  <2> QED
    BY <1>2, <2>7, <2>8 DEF Few, Capped
<1>9. ASSUME Single, overlaps = 0 PROVE Single'
  <2>1. F!Live = {} /\ \A q \in Pods : OneAt(q)
    BY <1>2, <1>9 DEF Single, OneAt
  <2>2. F!Live' \subseteq {n}
    BY <1>5, <2>1 DEF F!Live, F!Is
  <2>3. Running \ {leader} = {}
    <3>1. Cardinality(Running \ {leader}) = 0 /\ IsFiniteSet(Running \ {leader})
      BY <1>9, Sizes DEF Few, Capped, FailoverInv
    <3> QED
      BY <3>1, FS_EmptySet
  <2>4. \A q \in Pods : q = p \/ pass[q].pc = "idle"
    BY <1>2, <2>3 DEF Running
  <2>5. ASSUME NEW q \in Pods PROVE OneAt(q)'
    <3>1. Sick(q)' = {} /\ pass'[q].todo = {} /\ pass'[q].pc \in {"idle", "publish"}
      BY <1>2, <1>4, <2>1, <2>4 DEF OneAt, Sick
    <3> QED
      BY <3>1 DEF OneAt
  <2> QED
    BY <2>2, <2>5 DEF Single
<1> QED
  BY <1>2, <1>8, <1>9, Zenon DEF Few

LEMMA PublishFew ==
  ASSUME FailoverAssumption, FailoverInv, F!TypeOK', Few, NEW p \in Pods, F!Publish(p)
  PROVE  Few'
<1> DEFINE new == [pass[p] EXCEPT !.pc = "act", !.at = 1, !.excluded = {}]
<1>1. pass \in [Pods -> PassRecord]
  BY FailoverTypes DEF FailoverInv
<1>2. /\ pass[p].pc = "publish" /\ pass' = [pass EXCEPT ![p] = new]
      /\ UNCHANGED <<row, leader, overlaps, threw>>
  BY <1>1 DEF F!Publish
<1>3. new \in PassRecord /\ new.pc = "act" /\ new.todo = pass[p].todo /\ new.sick = pass[p].sick
  <2>1. 1 \in F!ServiceRows /\ {} \in SUBSET Providers
    BY DEF F!ServiceRows, FailoverAssumption
  <2> QED
    BY <1>1, <2>1 DEF PassRecord
<1> HIDE DEF new
<1>4. F!Failovers' = F!Failovers /\ F!Live' = F!Live
  BY <1>2 DEF F!Failovers, F!Used, F!Live, F!Is
<1>5. pass'[p] = new
  BY <1>1, <1>2
<1>6. ASSUME Single PROVE OneAt(p)'
  <2>1. Sick(p) = {}
    BY <1>2, <1>6 DEF Single, OneAt
  <2> QED
    BY <1>3, <1>5, <2>1 DEF OneAt, Sick
<1> QED
  BY <1>2, <1>3, <1>4, <1>6, PassFew

LEMMA FewNext ==
  ASSUME FailoverAssumption, FailoverInv, Few, [F!Next]_fvars
  PROVE  Few'
<1>1. F!TypeOK /\ F!TypeOK'
  BY FailoverNext DEF FailoverInv
<1>2. ASSUME NEW r \in F!ServiceRows, NEW p \in Providers, F!Placed(r, p) PROVE Few'
  BY <1>1, <1>2, RowSteps, RowFew
<1>3. ASSUME NEW r \in F!ServiceRows, NEW p \in Providers \cup {NoProvider}, NEW d \in BOOLEAN,
             F!HandleFailure(r, p, d)
      PROVE  Few'
  <2>1. row[r].status = "CREATING" /\ UNCHANGED <<pass, leader, overlaps, threw>>
    BY <1>3, Zenon DEF F!HandleFailure
  <2>2. CASE F!NextRow \in F!ServiceRows /\ F!Retry(r, p)
    BY <1>1, <2>1, <2>2, RetryFew
  <2>3. CASE \E why \in {"deterministic", "exhausted", "cancelled"} : F!GiveUp(r, p, why)
    BY <1>1, <2>1, <2>3, RowSteps, RowFew
  <2> QED
    BY <1>3, <2>2, <2>3, Zenon DEF F!HandleFailure
<1>4. ASSUME NEW r \in F!ServiceRows, F!Stale(r) \/ F!UserCloses(r) \/ F!Ignore(r) PROVE Few'
  BY <1>1, <1>4, RowSteps, RowFew
<1>5. ASSUME NEW r \in F!ServiceRows, NEW how \in {"down", "gone"}, F!Breaks(r, how) PROVE Few'
  BY <1>1, <1>5, RowSteps, RowFew
<1>6. ASSUME NEW p \in Pods, F!Handover(p) PROVE Few'
  BY <1>1, <1>6, HandoverFew
<1>7. ASSUME NEW p \in Pods, F!StartPass(p) PROVE Few'
  BY <1>1, <1>7, StartFew
<1>8. ASSUME NEW p \in Pods, F!MassEvent(p) \/ F!Act(p) \/ F!EndPass(p) PROVE Few'
  BY <1>1, <1>8, SweepFew
<1>9. ASSUME NEW p \in Pods, NEW reading, F!Probe(p, reading) PROVE Few'
  BY <1>1, <1>9, SweepFew
<1>10. ASSUME NEW p \in Pods, F!CloseOld(p) \/ F!Spawn(p) \/ F!Publish(p) PROVE Few'
  BY <1>1, <1>10, CloseOldFew, SpawnFew, PublishFew
<1>11. ASSUME NEW p \in Pods, NEW r \in F!ServiceRows, F!CloseGone(p, r) PROVE Few'
  BY <1>1, <1>11, CloseGoneFew
<1>12. ASSUME NEW p \in Pods, NEW r \in F!ServiceRows, F!NotEligible(p, r) PROVE Few'
  BY <1>1, <1>12, SweepFew
<1>13. ASSUME NEW p \in Pods, NEW r \in F!ServiceRows, F!Evaluate(p, r) PROVE Few'
  BY <1>1, <1>13, EvaluateFew
<1>15. ASSUME NEW r \in F!ServiceRows, F!WindowPasses(r) PROVE Few'
  BY <1>1, <1>15, WindowSteps, RowFew
<1>14. CASE UNCHANGED fvars
  <2>1. UNCHANGED <<row, pass, leader, overlaps, threw>>
    BY <1>14 DEF fvars
  <2>2. F!Failovers' = F!Failovers /\ F!Live' = F!Live
    BY <2>1 DEF F!Failovers, F!Used, F!Live, F!Is
  <2> QED
    BY <1>1, <2>1, <2>2, RowFew
<1> QED
  BY <1>2, <1>3, <1>4, <1>5, <1>6, <1>7, <1>8, <1>9, <1>10, <1>11, <1>12, <1>13, <1>14, <1>15, Zenon DEF F!Next

LEMMA FewIsBounded == FailoverAssumption /\ FailoverInv /\ Few => F!FailoverCap /\ F!OneLive
<1> SUFFICES ASSUME FailoverAssumption, FailoverInv, Few PROVE F!FailoverCap /\ F!OneLive
  OBVIOUS
<1>1. F!FailoverCap
  <2>1. Cardinality(F!Failovers) <= MaxAttempts + overlaps
    BY Sizes DEF Few, Capped, FailoverInv
  <2> QED
    BY <2>1, Counting DEF F!FailoverCap
<1>2. ASSUME Single PROVE F!Cardinality(F!Live) <= 1
  <2>1. F!Live = {} \/ \E r : F!Live = {r}
    BY <1>2 DEF Single
  <2>2. Cardinality({}) = 0 /\ \A r : Cardinality({r}) = 1
    BY FS_EmptySet, FS_Singleton
  <2>3. Cardinality(F!Live) \in {0, 1}
    BY <2>1, <2>2
  <2> QED
    BY <2>3, Counting
<1> QED
  BY <1>1, <1>2, Zenon DEF F!OneLive, Few


-----------------------------------------------------------------------------
(* Suspension *)

DepRecord  == [status : {"none", "ACTIVE", "STOPPED", "DELETED"}, reason : S!Reasons,
               over : BOOLEAN, machine : {"on", "off", "gone"}, crossed : BOOLEAN]
TaskRecord == [pc : S!Pcs, row : Rows, todo : SUBSET Rows]

\* What is done to a row; the set of its flags is a parameter.
LEMMA RowEdits ==
  ASSUME NEW Statuses, NEW Whys, NEW Marks, NEW Machines, NEW Deps,
         Deps = [status : Statuses, reason : Whys, over : Marks, machine : Machines, crossed : Marks],
         NEW w \in Deps,
         NEW st \in Statuses, NEW why \in Whys, NEW flag \in Marks, NEW machine \in Machines
  PROVE  /\ [w EXCEPT !.status = st] \in Deps
         /\ [w EXCEPT !.reason = why] \in Deps
         /\ [w EXCEPT !.over = flag] \in Deps
         /\ [w EXCEPT !.machine = machine] \in Deps
         /\ [w EXCEPT !.status = st, !.machine = machine] \in Deps
         /\ [w EXCEPT !.status = st, !.crossed = flag] \in Deps
         /\ w.over \in Marks /\ w.crossed \in Marks /\ w.reason \in Whys /\ w.machine \in Machines
OBVIOUS

LEMMA DepEdits ==
  ASSUME NEW w \in DepRecord, NEW st \in {"none", "ACTIVE", "STOPPED", "DELETED"}, NEW why \in S!Reasons,
         NEW flag \in BOOLEAN, NEW machine \in {"on", "off", "gone"}
  PROVE  /\ [w EXCEPT !.status = st] \in DepRecord
         /\ [w EXCEPT !.reason = why] \in DepRecord
         /\ [w EXCEPT !.over = flag] \in DepRecord
         /\ [w EXCEPT !.machine = machine] \in DepRecord
         /\ [w EXCEPT !.status = st, !.machine = machine] \in DepRecord
         /\ [w EXCEPT !.status = st, !.crossed = flag] \in DepRecord
         /\ w.over \in BOOLEAN /\ w.crossed \in BOOLEAN
         /\ w.reason \in S!Reasons /\ w.machine \in {"on", "off", "gone"}
BY RowEdits DEF DepRecord

\* What a resumption does.
ResumePcs == {"idle", "start", "activate", "clear", "schedule"}

SuspensionTypes == kind \in {"phala", "spheron"} /\ dep \in [Rows -> DepRecord]
                   /\ task \in [S!Tasks -> TaskRecord] /\ missed \in 0..MaxMissed

SuspensionInv == SuspensionTypes /\ task["resume"].pc \in ResumePcs

LEMMA SuspensionTyped == SuspensionTypes <=> S!TypeOK
BY Zenon DEF SuspensionTypes, S!TypeOK, DepRecord, TaskRecord

LEMMA QuietIsATask == ASSUME SuspensionAssumption PROVE S!Quiet \in TaskRecord
BY DEF S!Quiet, TaskRecord, SuspensionAssumption, S!Pcs

LEMMA UnbornIsARow == S!Unborn \in DepRecord
<1>1. "null" \in S!Reasons /\ FALSE \in BOOLEAN
  BY DEF S!Reasons
<1> QED
  BY <1>1, Zenon DEF S!Unborn, DepRecord

LEMMA SuspensionInit == SuspensionAssumption /\ S!Init => SuspensionInv
<1> SUFFICES ASSUME SuspensionAssumption, S!Init PROVE SuspensionInv
  OBVIOUS
<1>1. S!Unborn \in DepRecord
  BY UnbornIsARow
<1>2. [S!Unborn EXCEPT !.status = "ACTIVE", !.machine = "on"] \in DepRecord
  <2>1. "null" \in S!Reasons /\ FALSE \in BOOLEAN
    BY DEF S!Reasons
  <2> QED
    BY <1>1, <2>1, DepEdits
<1>3. dep \in [Rows -> DepRecord]
  BY <1>1, <1>2, Zenon DEF S!Init
<1>4. task \in [S!Tasks -> TaskRecord]
  BY QuietIsATask, Zenon DEF S!Init
<1>5. task["resume"].pc = "idle"
  BY DEF S!Init, S!Quiet, S!Tasks, S!Requests
<1> QED
  BY <1>3, <1>4, <1>5 DEF SuspensionInv, SuspensionTypes, ResumePcs, S!Init, SuspensionAssumption

LEMMA Pieces ==
  ASSUME SuspensionAssumption, SuspensionInv
  PROVE  /\ \A t \in S!Tasks : task[t] \in TaskRecord /\ task[t].row \in Rows /\ task[t].todo \subseteq Rows
         /\ \A r \in Rows : dep[r] \in DepRecord
         /\ S!Quiet \in TaskRecord /\ {"check", "expire", "resume"} \subseteq S!Tasks /\ MaxMissed \in Nat
BY QuietIsATask DEF SuspensionInv, SuspensionTypes, TaskRecord, SuspensionAssumption, S!Tasks, S!Requests

LEMMA Continues ==
  ASSUME SuspensionAssumption, NEW todo \in SUBSET Rows
  PROVE  S!Following(todo) \in TaskRecord /\ S!Following(todo).pc \in ResumePcs
<1>1. S!Quiet \in TaskRecord /\ S!Quiet.pc = "idle"
  BY QuietIsATask DEF S!Quiet
<1>2. [S!Quiet EXCEPT !.pc = "start", !.todo = todo] \in TaskRecord
  BY <1>1 DEF TaskRecord, S!Pcs
<1>3. [S!Quiet EXCEPT !.pc = "start", !.todo = todo].pc = "start"
  BY <1>1 DEF TaskRecord
<1> QED
  BY <1>1, <1>2, <1>3 DEF S!Following, ResumePcs

\* What becomes of a task.
LEMMA TaskMoves ==
  ASSUME SuspensionAssumption, SuspensionInv, NEW t \in S!Tasks,
         \/ UNCHANGED task
         \/ \E pc \in S!Pcs : S!Go(t, pc) /\ (t = "resume" => pc \in ResumePcs)
         \/ S!Finish(t)
         \/ \E pc \in S!Pcs, r \in Rows : S!Take(t, r, pc) /\ t # "resume"
         \/ \E todo \in SUBSET Rows : task' = [task EXCEPT ![t] = S!Following(todo)]
  PROVE  task' \in [S!Tasks -> TaskRecord] /\ task'["resume"].pc \in ResumePcs
<1>1. /\ task \in [S!Tasks -> TaskRecord] /\ task["resume"].pc \in ResumePcs /\ task[t] \in TaskRecord
      /\ S!Quiet \in TaskRecord /\ S!Quiet.pc = "idle"
  BY Pieces DEF SuspensionInv, SuspensionTypes, S!Quiet
<1>2. ASSUME NEW new \in TaskRecord, task' = [task EXCEPT ![t] = new], t = "resume" => new.pc \in ResumePcs
      PROVE  task' \in [S!Tasks -> TaskRecord] /\ task'["resume"].pc \in ResumePcs
  <2>1. "resume" \in S!Tasks
    BY DEF S!Tasks, S!Requests
  <2> QED
    BY <1>1, <1>2, <2>1
<1>3. ASSUME NEW pc \in S!Pcs, S!Go(t, pc), t = "resume" => pc \in ResumePcs
      PROVE  task' \in [S!Tasks -> TaskRecord] /\ task'["resume"].pc \in ResumePcs
  <2> DEFINE new == [task[t] EXCEPT !.pc = pc]
  <2>1. new \in TaskRecord /\ new.pc = pc /\ task' = [task EXCEPT ![t] = new]
    BY <1>1, <1>3 DEF S!Go, TaskRecord
  <2> HIDE DEF new
  <2> QED
    BY <1>2, <1>3, <2>1
<1>4. ASSUME NEW pc \in S!Pcs, NEW r \in Rows, S!Take(t, r, pc), t # "resume"
      PROVE  task' \in [S!Tasks -> TaskRecord] /\ task'["resume"].pc \in ResumePcs
  <2>1. [S!Quiet EXCEPT !.pc = pc, !.row = r] \in TaskRecord
    BY <1>1 DEF TaskRecord
  <2> QED
    BY <1>2, <1>4, <2>1 DEF S!Take
<1>5. ASSUME NEW todo \in SUBSET Rows, task' = [task EXCEPT ![t] = S!Following(todo)]
      PROVE  task' \in [S!Tasks -> TaskRecord] /\ task'["resume"].pc \in ResumePcs
  BY <1>2, <1>5, Continues
<1>6. CASE S!Finish(t)
  BY <1>1, <1>2, <1>6 DEF S!Finish, ResumePcs
<1>7. CASE UNCHANGED task
  BY <1>1, <1>7
<1> QED
  BY <1>3, <1>4, <1>5, <1>6, <1>7

\* What becomes of a row.
LEMMA DepMoves ==
  ASSUME SuspensionInv, NEW r \in Rows,
         \/ UNCHANGED dep
         \/ \E st \in {"none", "ACTIVE", "STOPPED", "DELETED"} : dep' = [dep EXCEPT ![r].status = st]
         \/ \E why \in S!Reasons : dep' = [dep EXCEPT ![r].reason = why]
         \/ \E flag \in BOOLEAN : dep' = [dep EXCEPT ![r].over = flag]
         \/ \E machine \in {"on", "off", "gone"} : dep' = [dep EXCEPT ![r].machine = machine]
         \/ \E new \in DepRecord : dep' = [dep EXCEPT ![r] = new]
  PROVE  dep' \in [Rows -> DepRecord]
<1>1. dep \in [Rows -> DepRecord] /\ dep[r] \in DepRecord
  BY DEF SuspensionInv, SuspensionTypes
<1>2. ASSUME NEW new \in DepRecord, dep' = [dep EXCEPT ![r] = new] PROVE dep' \in [Rows -> DepRecord]
  BY <1>1, <1>2
<1>3. "null" \in S!Reasons /\ FALSE \in BOOLEAN
  BY DEF S!Reasons
<1>4. ASSUME NEW st \in {"none", "ACTIVE", "STOPPED", "DELETED"}, dep' = [dep EXCEPT ![r].status = st]
      PROVE  dep' \in [Rows -> DepRecord]
  <2>1. [dep[r] EXCEPT !.status = st] \in DepRecord
    BY <1>1, <1>3, DepEdits
  <2> QED
    BY <1>2, <1>4, <2>1
<1>5. ASSUME NEW why \in S!Reasons, dep' = [dep EXCEPT ![r].reason = why] PROVE dep' \in [Rows -> DepRecord]
  <2>1. [dep[r] EXCEPT !.reason = why] \in DepRecord
    BY <1>1, <1>3, DepEdits
  <2> QED
    BY <1>2, <1>5, <2>1
<1>6. ASSUME NEW flag \in BOOLEAN, dep' = [dep EXCEPT ![r].over = flag] PROVE dep' \in [Rows -> DepRecord]
  <2>1. [dep[r] EXCEPT !.over = flag] \in DepRecord
    BY <1>1, <1>3, <1>6, DepEdits
  <2> QED
    BY <1>2, <1>6, <2>1
<1>7. ASSUME NEW machine \in {"on", "off", "gone"}, dep' = [dep EXCEPT ![r].machine = machine]
      PROVE  dep' \in [Rows -> DepRecord]
  <2>1. [dep[r] EXCEPT !.machine = machine] \in DepRecord
    BY <1>1, <1>3, DepEdits
  <2> QED
    BY <1>2, <1>7, <2>1
<1> QED
  BY <1>1, <1>2, <1>4, <1>5, <1>6, <1>7

\* What a redeployment makes: a row with its reason cleared, or with no policy
\* after a failure.
LEMMA Births ==
  ASSUME SuspensionInv, NEW s \in Rows, NEW new \in Rows, S!Redeploy(s, new)
  PROVE  \E birth \in DepRecord :
           /\ dep' = [dep EXCEPT ![new] = birth]
           /\ \/ birth.reason = "null"
              \/ missed' = missed + 1
<1> DEFINE born == [S!Unborn EXCEPT !.status = "ACTIVE", !.machine = "on"]
<1>1. {"null", "NO_POLICY"} \subseteq S!Reasons /\ FALSE \in BOOLEAN
  BY DEF S!Reasons
<1>2. born \in DepRecord
  BY <1>1, UnbornIsARow, DepEdits
<1>3. born.reason = "null"
  BY DEF S!Unborn
<1>4. dep[s].over \in BOOLEAN
  <2>1. dep[s] \in DepRecord
    BY DEF SuspensionInv, SuspensionTypes
  <2> QED
    BY <2>1, Zenon DEF DepRecord
<1>5. ASSUME NEW over \in BOOLEAN PROVE [born EXCEPT !.over = over] \in DepRecord /\ [born EXCEPT !.over = over].reason = "null"
  <2> HIDE DEF born
  <2>1. [born EXCEPT !.over = over] \in DepRecord
    BY <1>1, <1>2, DepEdits
  <2>2. [born EXCEPT !.over = over].reason = born.reason
    BY <1>2 DEF DepRecord
  <2> QED
    BY <1>3, <2>1, <2>2
<1>6. [born EXCEPT !.reason = "NO_POLICY"] \in DepRecord
  BY <1>1, <1>2, DepEdits
<1>7. \/ \E over \in {FALSE, dep[s].over} : dep' = [dep EXCEPT ![new] = [born EXCEPT !.over = over]]
      \/ dep' = [dep EXCEPT ![new] = [born EXCEPT !.reason = "NO_POLICY"]] /\ missed' = missed + 1
  BY Zenon DEF S!Redeploy, S!Failure
<1> HIDE DEF born
<1>8. ASSUME NEW over \in {FALSE, dep[s].over}, dep' = [dep EXCEPT ![new] = [born EXCEPT !.over = over]]
      PROVE  \E birth \in DepRecord : dep' = [dep EXCEPT ![new] = birth] /\ birth.reason = "null"
  <2>1. over \in BOOLEAN
    BY <1>4, Zenon
  <2> QED
    BY <1>5, <1>8, <2>1, Zenon
<1> QED
  BY <1>6, <1>7, <1>8, Zenon

LEMMA Suspends ==
  ASSUME SuspensionAssumption, SuspensionInv, kind' = kind, missed' \in 0..MaxMissed,
         dep' \in [Rows -> DepRecord], task' \in [S!Tasks -> TaskRecord], task'["resume"].pc \in ResumePcs
  PROVE  SuspensionInv'
BY DEF SuspensionInv, SuspensionTypes

LEMMA TaskSteps ==
  ASSUME SuspensionAssumption, SuspensionInv, NEW t \in S!Tasks,
         S!Proceed(t) \/ S!StopRefused(t) \/ S!Dies(t)
  PROVE  SuspensionInv'
<1> DEFINE r == task[t].row
<1>1. r \in Rows /\ dep[r] \in DepRecord /\ kind \in {"phala", "spheron"} /\ missed \in 0..MaxMissed
      /\ MaxMissed \in Nat
  BY Pieces DEF SuspensionInv, SuspensionTypes
<1> HIDE DEF r
<1>8. S!Proceed(t) \/ S!StopRefused(t) => t # "resume"
  BY DEF S!Proceed, S!RecordReason, S!StopUpstream, S!Mark, S!RecordStop, S!StopRefused,
         S!At, S!Policing, SuspensionInv, ResumePcs
<1>2. CASE S!RecordReason(t)
  <2>0. t # "resume"
    BY <1>2, <1>8 DEF S!Proceed
  <2>1. dep' = [dep EXCEPT ![r].reason = "LIMIT"] /\ S!Go(t, "upstream") /\ UNCHANGED <<kind, missed>>
    BY <1>2 DEF S!RecordReason, S!Row, r
  <2>2. "LIMIT" \in S!Reasons /\ "upstream" \in S!Pcs
    BY DEF S!Reasons, S!Pcs
  <2> QED
    BY <1>1, <2>0, <2>1, <2>2, DepMoves, TaskMoves, Suspends
<1>3. CASE S!StopUpstream(t)
  <2>0. t # "resume"
    BY <1>3, <1>8 DEF S!Proceed
  <2>1. /\ S!Finish(t) \/ S!Go(t, "mark")
        /\ UNCHANGED dep \/ \E machine \in {"on", "off", "gone"} : dep' = [dep EXCEPT ![r].machine = machine]
        /\ UNCHANGED <<kind, missed>>
    <3>1. dep[r].machine \in {"on", "off", "gone"}
      BY <1>1, DepEdits, Zenon DEF DepRecord
    <3> QED
      BY <1>3, <3>1 DEF S!StopUpstream, S!Row, S!Off, r
  <2>2. "mark" \in S!Pcs
    BY DEF S!Pcs
  <2> QED
    BY <1>1, <2>0, <2>1, <2>2, DepMoves, TaskMoves, Suspends
<1>4. CASE S!Mark(t)
  <2>0. t # "resume"
    BY <1>4, <1>8 DEF S!Proceed
  <2>1. /\ S!Finish(t) \/ S!Go(t, "after")
        /\ UNCHANGED dep \/ \E st \in {"none", "ACTIVE", "STOPPED", "DELETED"} : dep' = [dep EXCEPT ![r].status = st]
        /\ UNCHANGED <<kind, missed>>
    BY <1>4 DEF S!Mark, S!Row, S!Target, r
  <2>2. "after" \in S!Pcs
    BY DEF S!Pcs
  <2> QED
    BY <1>1, <2>0, <2>1, <2>2, DepMoves, TaskMoves, Suspends
<1>5. CASE S!RecordStop(t)
  <2>0. t # "resume"
    BY <1>5, <1>8 DEF S!Proceed
  <2>1. /\ S!Finish(t) /\ UNCHANGED <<kind, missed>>
        /\ \E why \in S!StopReason(t) : dep' = [dep EXCEPT ![r].reason = why]
    BY <1>5 DEF S!RecordStop, S!Row, r
  <2>2. S!StopReason(t) \subseteq S!Reasons
    <3>1. dep[r].reason \in S!Reasons
      BY <1>1, Zenon DEF DepRecord
    <3> QED
      BY <2>0, <3>1 DEF S!StopReason, S!Row, S!Reasons, S!Policing, S!Tasks, S!Requests, r
  <2> QED
    BY <1>1, <2>0, <2>1, <2>2, DepMoves, TaskMoves, Suspends
<1>6. CASE S!StopRefused(t)
  <2>0. t # "resume"
    BY <1>6, <1>8 DEF S!Proceed
  <2>1. /\ S!Finish(t) \/ S!Go(t, "mark")
        /\ missed' \in 0..MaxMissed /\ UNCHANGED <<kind, dep>>
    BY <1>1, <1>6 DEF S!StopRefused, S!Failure
  <2>2. "mark" \in S!Pcs
    BY DEF S!Pcs
  <2> QED
    BY <1>1, <2>0, <2>1, <2>2, DepMoves, TaskMoves, Suspends
<1>7. CASE S!Dies(t)
  <2>1. S!Finish(t) /\ missed' \in 0..MaxMissed /\ UNCHANGED <<kind, dep>>
    BY <1>1, <1>7 DEF S!Dies, S!Failure
  <2> QED
    BY <1>1, <2>1, DepMoves, TaskMoves, Suspends
<1> QED
  BY <1>2, <1>3, <1>4, <1>5, <1>6, <1>7 DEF S!Proceed

LEMMA ResumeSteps ==
  ASSUME SuspensionAssumption, SuspensionInv, S!Resume \/ S!Resuming
  PROVE  SuspensionInv'
<1> DEFINE rest == task["resume"].todo
           r    == task["resume"].row
<1>1. /\ rest \subseteq Rows /\ r \in Rows /\ missed \in 0..MaxMissed /\ "resume" \in S!Tasks /\ "expire" \in S!Tasks
      /\ S!Quiet \in TaskRecord /\ task \in [S!Tasks -> TaskRecord] /\ dep \in [Rows -> DepRecord]
  BY Pieces DEF SuspensionInv, SuspensionTypes
<1>2. {"start", "activate", "clear", "schedule", "reason"} \subseteq S!Pcs /\ "null" \in S!Reasons
      /\ {"start", "activate", "clear", "schedule"} \subseteq ResumePcs
  BY DEF S!Pcs, S!Reasons, ResumePcs
<1>3. CASE S!Resume
  <2>1. PICK stopped \in SUBSET Rows : task' = [task EXCEPT !["resume"] = [S!Quiet EXCEPT !.pc = "start", !.todo = stopped]]
    BY <1>3 DEF S!Resume
  <2> DEFINE new == [S!Quiet EXCEPT !.pc = "start", !.todo = stopped]
  <2>2. new \in TaskRecord /\ new.pc = "start"
    BY <1>1, <1>2 DEF TaskRecord
  <2>3. UNCHANGED <<kind, dep, missed>>
    BY <1>3 DEF S!Resume
  <2> HIDE DEF new
  <2>4. task' \in [S!Tasks -> TaskRecord] /\ task'["resume"].pc \in ResumePcs
    BY <1>1, <1>2, <2>1, <2>2 DEF new
  <2> QED
    BY <1>1, <2>3, <2>4, Suspends
<1>4. CASE S!ActivateCvm
  <2>1. PICK flag \in BOOLEAN : dep' = [dep EXCEPT ![r] = [dep[r] EXCEPT !.status = "ACTIVE", !.crossed = flag]]
    BY <1>1, <1>4 DEF S!ActivateCvm, S!Row
  <2>2. S!Go("resume", "clear") /\ UNCHANGED <<kind, missed>>
    BY <1>4 DEF S!ActivateCvm
  <2>3. dep[r] \in DepRecord
    BY <1>1
  <2>4. [dep[r] EXCEPT !.status = "ACTIVE", !.crossed = flag] \in DepRecord
    BY <1>2, <2>3, DepEdits
  <2>5. dep' \in [Rows -> DepRecord]
    BY <1>1, <2>1, <2>4, DepMoves
  <2> QED
    BY <1>1, <1>2, <2>2, <2>5, TaskMoves, Suspends
<1>5. CASE S!ClearReason
  <2>1. /\ UNCHANGED dep \/ \E why \in S!Reasons : dep' = [dep EXCEPT ![r].reason = why]
        /\ missed' \in 0..MaxMissed /\ S!Go("resume", "schedule") /\ UNCHANGED kind
    BY <1>1, <1>2, <1>5, Pieces DEF S!ClearReason, S!Row, S!Failure, S!Reasons
  <2> QED
    BY <1>1, <1>2, <2>1, DepMoves, TaskMoves, Suspends
<1>6. CASE S!ScheduleExpiry
  <2>1. UNCHANGED <<kind, dep, missed>>
    BY <1>6 DEF S!ScheduleExpiry
  <2>2. CASE task' = [task EXCEPT !["resume"] = S!Following(task["resume"].todo)]
    BY <1>1, <2>1, <2>2, TaskMoves, Suspends
  <2>3. CASE task' = [task EXCEPT !["expire"] = [S!Quiet EXCEPT !.pc = "reason", !.row = r],
                                  !["resume"] = S!Following(task["resume"].todo)]
    <3>1. [S!Quiet EXCEPT !.pc = "reason", !.row = r] \in TaskRecord
      BY <1>1, <1>2 DEF TaskRecord
    <3>2. S!Following(rest) \in TaskRecord /\ S!Following(rest).pc \in ResumePcs
      BY <1>1, Continues
    <3>3. task' \in [S!Tasks -> TaskRecord] /\ task'["resume"].pc \in ResumePcs
      BY <1>1, <2>3, <3>1, <3>2
    <3> QED
      BY <1>1, <2>1, <3>3, Suspends
  <2> QED
    BY <1>6, <2>2, <2>3 DEF S!ScheduleExpiry, S!Row
<1>7. ASSUME NEW s \in Rows, S!StartCvm(s) PROVE SuspensionInv'
  <2>1. UNCHANGED <<kind, missed>> /\ rest \ {s} \in SUBSET Rows
    BY <1>1, <1>7 DEF S!StartCvm
  <2>2. CASE task' = [task EXCEPT !["resume"] = S!Following(rest \ {s})] /\ UNCHANGED dep
    BY <1>1, <2>1, <2>2, TaskMoves, Suspends
  <2>3. CASE /\ dep' = [dep EXCEPT ![s].machine = "on"]
             /\ task' = [task EXCEPT !["resume"] = [pc |-> "activate", row |-> s, todo |-> rest \ {s}]]
    <3>1. [pc |-> "activate", row |-> s, todo |-> rest \ {s}] \in TaskRecord
      BY <1>2, <2>1 DEF TaskRecord
    <3>2. dep' \in [Rows -> DepRecord]
      BY <2>3, DepMoves
    <3> HIDE DEF rest
    <3>3. task' \in [S!Tasks -> TaskRecord] /\ task'["resume"].pc \in ResumePcs
      BY <1>1, <1>2, <2>3, <3>1
    <3> QED
      BY <1>1, <2>1, <3>2, <3>3, Suspends
  <2> QED
    BY <1>7, <2>2, <2>3 DEF S!StartCvm
<1>8. ASSUME NEW s \in Rows, S!ResumeFails(s) PROVE SuspensionInv'
  <2>1. /\ UNCHANGED <<kind, dep, missed>> /\ rest \ {s} \in SUBSET Rows
        /\ task' = [task EXCEPT !["resume"] = S!Following(rest \ {s})]
    BY <1>1, <1>8 DEF S!ResumeFails
  <2> QED
    BY <1>1, <2>1, TaskMoves, Suspends
<1>9. ASSUME NEW s \in Rows, NEW new \in Rows, S!Redeploy(s, new) PROVE SuspensionInv'
  <2>1. /\ missed' \in 0..MaxMissed /\ kind' = kind /\ rest \ {s} \in SUBSET Rows
        /\ task' = [task EXCEPT !["resume"] = S!Following(rest \ {s})]
    BY <1>1, <1>9, Pieces DEF S!Redeploy, S!Failure
  <2>2. PICK birth \in DepRecord : dep' = [dep EXCEPT ![new] = birth]
    BY <1>1, <1>9, Births, Zenon
  <2>3. dep' \in [Rows -> DepRecord]
    BY <2>2, DepMoves
  <2> QED
    BY <1>1, <2>1, <2>3, TaskMoves, Suspends
<1> QED
  BY <1>3, <1>4, <1>5, <1>6, <1>7, <1>8, <1>9 DEF S!Resuming

LEMMA SuspensionNext == SuspensionAssumption /\ SuspensionInv /\ [S!Next]_svars => SuspensionInv'
<1> SUFFICES ASSUME SuspensionAssumption, SuspensionInv, [S!Next]_svars PROVE SuspensionInv'
  OBVIOUS
<1>1. missed \in 0..MaxMissed
  BY DEF SuspensionInv, SuspensionTypes
<1>2. ASSUME NEW r \in Rows, S!Exceed(r) PROVE SuspensionInv'
  <2>1. dep' = [dep EXCEPT ![r].over = TRUE] /\ UNCHANGED <<kind, task, missed>> /\ TRUE \in BOOLEAN
    BY <1>2 DEF S!Exceed
  <2>2. dep' \in [Rows -> DepRecord]
    BY <2>1, DepMoves
  <2> QED
    BY <1>1, <2>1, <2>2, Suspends DEF SuspensionInv, SuspensionTypes
<1>3. ASSUME NEW r \in Rows, NEW t \in S!Tasks, S!Enforce(t, r) \/ S!Request(t, r) PROVE SuspensionInv'
  <2>1. /\ S!Take(t, r, "reason") \/ S!Take(t, r, "upstream")
        /\ UNCHANGED <<kind, dep, missed>> /\ t # "resume"
    BY <1>3 DEF S!Enforce, S!Request, S!Policing
  <2>2. {"reason", "upstream"} \subseteq S!Pcs
    BY DEF S!Pcs
  <2> QED
    BY <1>1, <2>1, <2>2, TaskMoves, Suspends DEF SuspensionInv, SuspensionTypes
<1>4. CASE UNCHANGED svars
  BY <1>4 DEF svars, SuspensionInv, SuspensionTypes
<1> QED
  BY <1>2, <1>3, <1>4, TaskSteps, ResumeSteps DEF S!Next

\* A stop that has yet to record its reason has written the row, and what has
\* made the row ACTIVE since has noted the crossing.
Marked(r) == dep[r].status # "none" /\ (dep[r].status = "ACTIVE" => dep[r].crossed = TRUE)
Records(t) == task[t].pc = "after" => Marked(task[t].row)
Noted == \A t \in S!Tasks :
  /\ Records(t)
  /\ task[t].pc = "reason" => t \in S!Policing

\* The policy is about to stop the row, or a resumption to clear its reason.
Hand(t) == \/ t \in S!Policing /\ task[t].pc \in {"upstream", "mark"}
           \/ t = "resume" /\ task[t].pc = "clear"
InHand(r) == \E t \in S!Tasks : Hand(t) /\ task[t].row = r
Limited(r) ==
  /\ dep[r].reason # "NO_POLICY"
  /\ dep[r].status # "ACTIVE" \/ dep[r].crossed = TRUE \/ dep[r].reason = "null" \/ InHand(r)
UnderPolicies == missed = 0 => \A r \in Rows : Limited(r)

LEMMA PolicyInit == SuspensionAssumption /\ S!Init => Noted /\ UnderPolicies
<1> SUFFICES ASSUME SuspensionAssumption, S!Init PROVE Noted /\ UnderPolicies
  OBVIOUS
<1>1. \A t \in S!Tasks : task[t].pc = "idle"
  BY DEF S!Init, S!Quiet
<1>2. \A r \in Rows : dep[r].reason = "null"
  BY DEF S!Init, S!Unborn
<1> QED
  BY <1>1, <1>2 DEF Noted, Records, UnderPolicies, Limited

\* What a row shows its jobs.
Same(r) == dep'[r].status = dep[r].status /\ dep'[r].reason = dep[r].reason /\ dep'[r].crossed = dep[r].crossed
Holds(t) == Hand(t)' /\ task'[t].row = task[t].row

\* Only the movers' tasks and the touched rows need a look.
LEMMA Untouched ==
  ASSUME SuspensionInv, SuspensionInv', Noted, UnderPolicies, NEW movers, NEW touched,
         \A t \in S!Tasks \ movers : task'[t] = task[t],
         \A r \in Rows \ touched : Same(r),
         \A t \in S!Tasks \cap movers : /\ Records(t)'
                                        /\ task'[t].pc = "reason" => t \in S!Policing,
         \A t \in S!Tasks \ movers : task[t].pc = "after" /\ task[t].row \in touched => Marked(task[t].row)',
         missed' = 0 => /\ missed = 0
                        /\ \A r \in Rows \cap touched : Limited(r)'
                        /\ \A t \in S!Tasks \cap movers : Hand(t) => task[t].row \in touched \/ Holds(t)
  PROVE  Noted' /\ UnderPolicies'
<1>1. Noted'
  <2>4. \A t \in S!Tasks : task'[t].pc = "reason" => t \in S!Policing
    BY DEF Noted, Records
  <2> SUFFICES ASSUME NEW t \in S!Tasks PROVE Records(t)'
    BY <2>4 DEF Noted
  <2>1. CASE t \in movers
    BY <2>1
  <2>2. CASE t \notin movers /\ task[t].row \in touched
    BY <2>2 DEF Records
  <2>3. CASE t \notin movers /\ task[t].row \notin touched
    <3>1. task'[t] = task[t] /\ task[t].row \in Rows /\ Same(task[t].row) /\ Records(t)
      BY <2>3 DEF SuspensionInv, SuspensionTypes, TaskRecord, Noted
    <3> QED
      BY <3>1 DEF Records, Marked, Same
  <2> QED
    BY <2>1, <2>2, <2>3
<1>2. UnderPolicies'
  <2> SUFFICES ASSUME missed' = 0, NEW r \in Rows, r \notin touched PROVE Limited(r)'
    BY DEF UnderPolicies
  <2>1. Limited(r) /\ Same(r)
    BY DEF UnderPolicies
  <2>2. InHand(r) => InHand(r)'
    <3> SUFFICES ASSUME NEW t \in S!Tasks, Hand(t), task[t].row = r PROVE Hand(t)' /\ task'[t].row = r
      BY Zenon DEF InHand
    <3>1. CASE t \in movers
      BY <3>1, Zenon DEF Holds
    <3>2. CASE t \notin movers
      BY <3>2 DEF Hand
    <3> QED
      BY <3>1, <3>2
  <2> QED
    BY <2>1, <2>2 DEF Limited, Same
<1> QED
  BY <1>1, <1>2

\* Where one task goes, the others stay; where one row changes, the others do not.
LEMMA Stays ==
  ASSUME SuspensionInv
  PROVE  /\ UNCHANGED task => \A u \in S!Tasks : task'[u] = task[u]
         /\ UNCHANGED dep => \A s \in Rows : Same(s)
         /\ \A t \in S!Tasks : \A new : task' = [task EXCEPT ![t] = new]
              => task'[t] = new /\ \A u \in S!Tasks \ {t} : task'[u] = task[u]
         /\ \A r \in Rows : \A new : dep' = [dep EXCEPT ![r] = new]
              => dep'[r] = new /\ \A s \in Rows \ {r} : Same(s)
BY DEF SuspensionInv, SuspensionTypes, Same

\* Goes on with pc, ends, or begins.
LEMMA TaskGoes ==
  ASSUME SuspensionInv, NEW t \in S!Tasks
  PROVE  /\ \A pc : S!Go(t, pc) => /\ task'[t].pc = pc /\ task'[t].row = task[t].row
                                   /\ \A u \in S!Tasks \ {t} : task'[u] = task[u]
         /\ S!Finish(t) => task'[t].pc = "idle" /\ \A u \in S!Tasks \ {t} : task'[u] = task[u]
         /\ \A pc : \A r : S!Take(t, r, pc) => /\ task'[t].pc = pc /\ task[t].pc = "idle"
                                           /\ \A u \in S!Tasks \ {t} : task'[u] = task[u]
         /\ \A todo : task' = [task EXCEPT ![t] = S!Following(todo)]
              => task'[t].pc \in {"idle", "start"} /\ \A u \in S!Tasks \ {t} : task'[u] = task[u]
<1>1. task \in [S!Tasks -> TaskRecord] /\ task[t] \in TaskRecord
  BY DEF SuspensionInv, SuspensionTypes
<1>2. \A new : task' = [task EXCEPT ![t] = new]
        => task'[t] = new /\ \A u \in S!Tasks \ {t} : task'[u] = task[u]
  BY Stays
<1>3. ASSUME NEW pc, S!Go(t, pc)
      PROVE  /\ task'[t].pc = pc /\ task'[t].row = task[t].row
             /\ \A u \in S!Tasks \ {t} : task'[u] = task[u]
  <2>1. task' = [task EXCEPT ![t] = [task[t] EXCEPT !.pc = pc]]
    BY <1>1, <1>3 DEF S!Go
  <2>2. task'[t] = [task[t] EXCEPT !.pc = pc] /\ \A u \in S!Tasks \ {t} : task'[u] = task[u]
    BY <1>2, <2>1
  <2> QED
    BY <1>1, <2>2 DEF TaskRecord
<1>4. S!Quiet.pc = "idle"
  BY DEF S!Quiet
<1>5. S!Finish(t) => task'[t].pc = "idle" /\ \A u \in S!Tasks \ {t} : task'[u] = task[u]
  BY <1>2, <1>4 DEF S!Finish
<1>6. ASSUME NEW pc, NEW r, S!Take(t, r, pc)
      PROVE  /\ task'[t].pc = pc /\ task[t].pc = "idle"
             /\ \A u \in S!Tasks \ {t} : task'[u] = task[u]
  <2>1. task'[t] = [S!Quiet EXCEPT !.pc = pc, !.row = r] /\ \A u \in S!Tasks \ {t} : task'[u] = task[u]
    BY <1>2, <1>6 DEF S!Take
  <2> QED
    BY <1>6, <2>1 DEF S!Take, S!At, S!Quiet
<1>7. \A todo : S!Following(todo).pc \in {"idle", "start"}
  BY DEF S!Following, S!Quiet
<1>8. \A todo : task' = [task EXCEPT ![t] = S!Following(todo)]
        => task'[t].pc \in {"idle", "start"} /\ \A u \in S!Tasks \ {t} : task'[u] = task[u]
  BY <1>2, <1>7
<1> QED
  BY <1>3, <1>5, <1>6, <1>8

\* A task goes on, ends or begins without a look at its row.
LEMMA TaskOnly ==
  ASSUME SuspensionInv, SuspensionInv', Noted, UnderPolicies, NEW t \in S!Tasks,
         \A u \in S!Tasks \ {t} : task'[u] = task[u], \A s \in Rows : Same(s),
         task'[t].pc # "after", task'[t].pc = "reason" => t \in S!Policing,
         missed' = 0 => missed = 0 /\ (Hand(t) => Holds(t))
  PROVE  Noted' /\ UnderPolicies'
<1> DEFINE movers  == {t}
           touched == {}
<1>1. /\ \A u \in S!Tasks \ movers : task'[u] = task[u]
      /\ \A s \in Rows \ touched : Same(s)
      /\ \A u \in S!Tasks \cap movers : /\ Records(u)'
                                        /\ task'[u].pc = "reason" => u \in S!Policing
      /\ \A u \in S!Tasks \ movers : task[u].pc = "after" /\ task[u].row \in touched => Marked(task[u].row)'
      /\ missed' = 0 => /\ missed = 0
                        /\ \A s \in Rows \cap touched : Limited(s)'
                        /\ \A u \in S!Tasks \cap movers : Hand(u) => task[u].row \in touched \/ Holds(u)
  BY DEF Records
<1> HIDE DEF movers, touched
<1> QED
  BY <1>1, Untouched

LEMMA NothingMoves ==
  ASSUME SuspensionInv, SuspensionInv', Noted, UnderPolicies, UNCHANGED <<task, missed>>, \A s \in Rows : Same(s)
  PROVE  Noted' /\ UnderPolicies'
<1> DEFINE none == {}
<1>1. /\ \A u \in S!Tasks \ none : task'[u] = task[u]
      /\ \A s \in Rows \ none : Same(s)
      /\ \A u \in S!Tasks \cap none : /\ Records(u)'
                                      /\ task'[u].pc = "reason" => u \in S!Policing
      /\ \A u \in S!Tasks \ none : task[u].pc = "after" /\ task[u].row \in none => Marked(task[u].row)'
      /\ missed' = 0 => /\ missed = 0
                        /\ \A s \in Rows \cap none : Limited(s)'
                        /\ \A u \in S!Tasks \cap none : Hand(u) => task[u].row \in none \/ Holds(u)
  OBVIOUS
<1> HIDE DEF none
<1> QED
  BY <1>1, Untouched

\* A task writes its row.
LEMMA TaskAndRow ==
  ASSUME SuspensionInv, SuspensionInv', Noted, UnderPolicies, NEW t \in S!Tasks, NEW r \in Rows,
         \A u \in S!Tasks \ {t} : task'[u] = task[u], \A s \in Rows \ {r} : Same(s),
         Records(t)', task'[t].pc = "reason" => t \in S!Policing,
         (\E u \in S!Tasks \ {t} : task[u].pc = "after" /\ task[u].row = r) => Marked(r)',
         missed' = 0 => missed = 0 /\ Limited(r)' /\ (Hand(t) => task[t].row = r \/ Holds(t))
  PROVE  Noted' /\ UnderPolicies'
<1> DEFINE movers  == {t}
           touched == {r}
<1>1. /\ \A u \in S!Tasks \ movers : task'[u] = task[u]
      /\ \A s \in Rows \ touched : Same(s)
      /\ \A u \in S!Tasks \cap movers : /\ Records(u)'
                                        /\ task'[u].pc = "reason" => u \in S!Policing
  OBVIOUS
<1>2. \A u \in S!Tasks \ movers : task[u].pc = "after" /\ task[u].row \in touched => Marked(task[u].row)'
  OBVIOUS
<1>3. missed' = 0 => /\ missed = 0
                     /\ \A s \in Rows \cap touched : Limited(s)'
                     /\ \A u \in S!Tasks \cap movers : Hand(u) => task[u].row \in touched \/ Holds(u)
  OBVIOUS
<1> HIDE DEF movers, touched
<1> QED
  BY <1>1, <1>2, <1>3, Untouched

\* A stop's reason is no loss of the policy.
LEMMA StopReasons ==
  ASSUME NEW t \in S!Tasks, task[t].pc = "after", task["resume"].pc \in ResumePcs,
         dep[S!Row(t)].reason # "NO_POLICY"
  PROVE  "NO_POLICY" \notin S!StopReason(t)
<1>1. t # "resume"
  BY DEF ResumePcs
<1> QED
  BY <1>1 DEF S!StopReason, S!Policing, S!Tasks, S!Requests

LEMMA PolicyTaskSteps ==
  ASSUME SuspensionAssumption, SuspensionInv, SuspensionInv', Noted, UnderPolicies, NEW t \in S!Tasks,
         NEW r \in Rows, r = task[t].row, S!Proceed(t) \/ S!StopRefused(t) \/ S!Dies(t)
  PROVE  Noted' /\ UnderPolicies'
<1>1. /\ dep[r] \in DepRecord /\ dep \in [Rows -> DepRecord] /\ missed \in Nat
      /\ dep' \in [Rows -> DepRecord]
  BY DEF SuspensionInv, SuspensionTypes, TaskRecord
<1>2. CASE S!RecordReason(t)
  <2>1. /\ dep' = [dep EXCEPT ![r].reason = "LIMIT"] /\ S!Go(t, "upstream") /\ missed' = missed
        /\ t \in S!Policing
    BY <1>2 DEF S!RecordReason, S!Row, S!At, Noted
  <2>2. /\ dep'[r].reason = "LIMIT" /\ dep'[r].status = dep[r].status /\ dep'[r].crossed = dep[r].crossed
        /\ \A s \in Rows \ {r} : Same(s)
    BY <1>1, <2>1 DEF DepRecord, Same
  <2>3. task'[t].pc = "upstream" /\ task'[t].row = r /\ \A u \in S!Tasks \ {t} : task'[u] = task[u]
    BY <2>1, TaskGoes
  <2>4. Limited(r)'
    BY <2>1, <2>2, <2>3 DEF Limited, InHand, Hand
  <2>5. (\E u \in S!Tasks \ {t} : task[u].pc = "after" /\ task[u].row = r) => Marked(r)'
    BY <2>2 DEF Noted, Records, Marked
  <2> QED
    BY <1>1, <2>1, <2>2, <2>3, <2>4, <2>5, TaskAndRow DEF Records
<1>3. CASE S!StopUpstream(t)
  <2>1. missed' = missed /\ task[t].pc = "upstream"
    BY <1>3 DEF S!StopUpstream, S!At
  <2>2. CASE S!Finish(t) /\ UNCHANGED dep /\ ~(t \in S!Policing /\ dep[r].status # "DELETED")
    <3>1. task'[t].pc = "idle" /\ (\A u \in S!Tasks \ {t} : task'[u] = task[u]) /\ (\A s \in Rows : Same(s))
      BY <2>2, TaskGoes, Stays
    <3>2. Hand(t) => dep'[r].status = "DELETED"
      BY <2>1, <2>2 DEF Hand
    <3>3. (\E u \in S!Tasks \ {t} : task[u].pc = "after" /\ task[u].row = r) => Marked(r)'
      BY <1>1, <3>1 DEF Noted, Records, Marked, Same
    <3>4. missed' = 0 => Limited(r)' \/ ~Hand(t)
      BY <1>1, <2>1, <3>1, <3>2 DEF UnderPolicies, Limited, Same
    <3>5. CASE Hand(t)
      BY <1>1, <2>1, <3>1, <3>3, <3>4, <3>5, TaskAndRow DEF Records
    <3>6. CASE ~Hand(t)
      BY <2>1, <3>1, <3>6, TaskOnly
    <3> QED
      BY <3>5, <3>6
  <2>3. CASE S!Go(t, "mark") /\ \E machine : dep' = [dep EXCEPT ![r].machine = machine]
    <3>1. \A s \in Rows : Same(s)
      BY <1>1, <2>3 DEF DepRecord, Same
    <3>2. task'[t].pc = "mark" /\ task'[t].row = task[t].row /\ \A u \in S!Tasks \ {t} : task'[u] = task[u]
      BY <2>3, TaskGoes
    <3>3. Hand(t) => Holds(t)
      BY <2>1, <3>2 DEF Hand, Holds
    <3> QED
      BY <2>1, <3>1, <3>2, <3>3, TaskOnly
  <2> QED
    BY <1>3, <2>2, <2>3 DEF S!StopUpstream, S!Row
<1>4. CASE S!Mark(t)
  <2>1. missed' = missed /\ task[t].pc = "mark"
    BY <1>4 DEF S!Mark, S!At
  <2>2. CASE S!Finish(t) /\ UNCHANGED dep /\ t = "pause"
    <3>1. task'[t].pc = "idle" /\ (\A u \in S!Tasks \ {t} : task'[u] = task[u]) /\ (\A s \in Rows : Same(s))
      BY <2>2, TaskGoes, Stays
    <3>2. ~Hand(t)
      BY <2>1, <2>2 DEF Hand, S!Policing
    <3> QED
      BY <2>1, <3>1, <3>2, TaskOnly
  <2>3. CASE S!Go(t, "after") /\ \E st \in {"STOPPED", "DELETED"} : dep' = [dep EXCEPT ![r].status = st]
    <3>1. /\ dep'[r].status \in {"STOPPED", "DELETED"} /\ dep'[r].reason = dep[r].reason
          /\ \A s \in Rows \ {r} : Same(s)
      BY <1>1, <2>3 DEF DepRecord, Same
    <3>2. task'[t].pc = "after" /\ task'[t].row = r /\ \A u \in S!Tasks \ {t} : task'[u] = task[u]
      BY <2>3, TaskGoes
    <3>3. Marked(r)'
      BY <3>1 DEF Marked
    <3>4. missed' = 0 => Limited(r)'
      BY <1>1, <2>1, <3>1 DEF UnderPolicies, Limited
    <3> QED
      BY <1>1, <2>1, <3>1, <3>2, <3>3, <3>4, TaskAndRow DEF Records
  <2> QED
    BY <1>4, <2>2, <2>3 DEF S!Mark, S!Row, S!Target
<1>5. CASE S!RecordStop(t)
  <2>1. PICK why \in S!StopReason(t) : dep' = [dep EXCEPT ![r].reason = why]
    BY <1>5 DEF S!RecordStop, S!Row
  <2>2. missed' = missed /\ task[t].pc = "after" /\ S!Finish(t)
    BY <1>5 DEF S!RecordStop, S!At
  <2>3. /\ dep'[r].status = dep[r].status /\ dep'[r].reason = why /\ dep'[r].crossed = dep[r].crossed
        /\ \A s \in Rows \ {r} : Same(s)
    BY <1>1, <2>1 DEF DepRecord, Same
  <2>4. task'[t].pc = "idle" /\ \A u \in S!Tasks \ {t} : task'[u] = task[u]
    BY <2>2, TaskGoes
  <2>5. dep[r].reason # "NO_POLICY" => why # "NO_POLICY"
    BY <2>1, <2>2, StopReasons DEF S!Row, SuspensionInv
  <2>6. Marked(r)
    BY <2>2 DEF Noted, Records
  <2>7. missed' = 0 => Limited(r)'
    BY <1>1, <2>2, <2>3, <2>5, <2>6 DEF UnderPolicies, Limited, Marked
  <2>8. Marked(r)'
    BY <2>3, <2>6 DEF Marked
  <2> QED
    BY <1>1, <2>2, <2>3, <2>4, <2>7, <2>8, TaskAndRow DEF Records
<1>6. CASE S!StopRefused(t)
  <2>1. CASE t \in S!Policing
    <3>1. missed' # 0 /\ UNCHANGED dep /\ (S!Go(t, "mark") \/ S!Finish(t))
      BY <1>1, <1>6, <2>1 DEF S!StopRefused, S!Failure
    <3>2. task'[t].pc \in {"mark", "idle"} /\ \A u \in S!Tasks \ {t} : task'[u] = task[u]
      BY <3>1, TaskGoes
    <3> QED
      BY <3>1, <3>2, Stays, TaskOnly
  <2>2. CASE t \notin S!Policing
    <3>1. missed' = missed /\ UNCHANGED dep /\ S!Finish(t) /\ task[t].pc = "upstream"
      BY <1>6, <2>2 DEF S!StopRefused, S!At
    <3>2. task'[t].pc = "idle" /\ (\A u \in S!Tasks \ {t} : task'[u] = task[u]) /\ ~Hand(t)
      BY <2>2, <3>1, TaskGoes DEF Hand
    <3> QED
      BY <3>1, <3>2, Stays, TaskOnly
  <2> QED
    BY <2>1, <2>2
<1>7. CASE S!Dies(t)
  <2>1. missed' # 0 /\ UNCHANGED dep /\ S!Finish(t)
    BY <1>1, <1>7 DEF S!Dies, S!Failure
  <2>2. task'[t].pc = "idle" /\ \A u \in S!Tasks \ {t} : task'[u] = task[u]
    BY <2>1, TaskGoes
  <2> QED
    BY <2>1, <2>2, Stays, TaskOnly
<1> QED
  BY <1>2, <1>3, <1>4, <1>5, <1>6, <1>7 DEF S!Proceed

\* A resumption and the enforcer's expiry job move together, and write no row.
LEMMA ResumeOnly ==
  ASSUME SuspensionInv, SuspensionInv', Noted, UnderPolicies,
         \A u \in S!Tasks \ {"resume", "expire"} : task'[u] = task[u], UNCHANGED <<dep, missed>>,
         task["resume"].pc # "clear", task'["resume"].pc \in {"idle", "start"},
         task["expire"].pc = "idle", task'["expire"].pc = "reason"
  PROVE  Noted' /\ UnderPolicies'
<1> DEFINE movers  == {"resume", "expire"}
           touched == {}
<1>1. \A u \in movers : ~Hand(u)
  BY DEF Hand, S!Policing
<1>2. \A s \in Rows : Same(s)
  BY Stays
<1>3. \A u \in S!Tasks \cap movers : /\ Records(u)'
                                     /\ task'[u].pc = "reason" => u \in S!Policing
  BY DEF Records, S!Policing
<1>4. /\ \A u \in S!Tasks \ movers : task'[u] = task[u]
      /\ \A s \in Rows \ touched : Same(s)
      /\ \A u \in S!Tasks \ movers : task[u].pc = "after" /\ task[u].row \in touched => Marked(task[u].row)'
      /\ missed' = 0 => /\ missed = 0
                        /\ \A s \in Rows \cap touched : Limited(s)'
                        /\ \A u \in S!Tasks \cap movers : Hand(u) => task[u].row \in touched \/ Holds(u)
  BY <1>1, <1>2
<1> HIDE DEF movers, touched
<1> QED
  BY <1>3, <1>4, Untouched

LEMMA PolicyResumes ==
  ASSUME SuspensionAssumption, SuspensionInv, SuspensionInv', Noted, UnderPolicies,
         NEW r \in Rows, r = task["resume"].row, S!Resume \/ S!Resuming
  PROVE  Noted' /\ UnderPolicies'
<1>1. /\ dep[r] \in DepRecord /\ dep \in [Rows -> DepRecord] /\ task \in [S!Tasks -> TaskRecord]
      /\ missed \in Nat /\ "resume" \in S!Tasks /\ "expire" \in S!Tasks /\ "resume" \notin S!Policing
  BY DEF SuspensionInv, SuspensionTypes, S!Tasks, S!Requests, S!Policing
<1>2. CASE S!Resume
  <2>1. PICK new : task' = [task EXCEPT !["resume"] = new] /\ new.pc = "start"
    <3>1. PICK stopped : task' = [task EXCEPT !["resume"] = [S!Quiet EXCEPT !.pc = "start", !.todo = stopped]]
      BY <1>2 DEF S!Resume
    <3>2. [S!Quiet EXCEPT !.pc = "start", !.todo = stopped].pc = "start"
      BY DEF S!Quiet
    <3> QED
      BY <3>1, <3>2
  <2>2. task["resume"].pc = "idle" /\ UNCHANGED <<dep, missed>>
    BY <1>2 DEF S!Resume, S!At
  <2>3. task'["resume"].pc = "start" /\ \A u \in S!Tasks \ {"resume"} : task'[u] = task[u]
    BY <1>1, <2>1, Stays
  <2>4. ~Hand("resume")
    BY <1>1, <2>2 DEF Hand
  <2> QED
    BY <1>1, <2>2, <2>3, <2>4, Stays, TaskOnly
<1>3. CASE S!ActivateCvm
  <2> DEFINE crossing == \E t \in S!Tasks : task[t].pc = "after" /\ task[t].row = r
  <2>1. /\ dep' = [dep EXCEPT ![r] = [dep[r] EXCEPT !.status = "ACTIVE", !.crossed = crossing]]
        /\ S!Go("resume", "clear") /\ missed' = missed /\ task["resume"].pc = "activate"
    BY <1>1, <1>3 DEF S!ActivateCvm, S!Row, S!At
  <2> HIDE DEF crossing
  <2>2. /\ dep'[r].status = "ACTIVE" /\ dep'[r].reason = dep[r].reason /\ dep'[r].crossed = crossing
        /\ \A s \in Rows \ {r} : Same(s)
    <3>1. dep'[r] = [dep[r] EXCEPT !.status = "ACTIVE", !.crossed = crossing] /\ \A s \in Rows \ {r} : Same(s)
      BY <2>1, Stays
    <3> QED
      BY <1>1, <3>1 DEF DepRecord
  <2>3. task'["resume"].pc = "clear" /\ task'["resume"].row = r /\ \A u \in S!Tasks \ {"resume"} : task'[u] = task[u]
    BY <1>1, <2>1, TaskGoes
  <2>4. (\E u \in S!Tasks \ {"resume"} : task[u].pc = "after" /\ task[u].row = r) => Marked(r)'
    BY <2>2 DEF Marked, crossing
  <2>5. missed' = 0 => Limited(r)'
    BY <1>1, <2>1, <2>2, <2>3 DEF UnderPolicies, Limited, InHand, Hand
  <2>6. ~Hand("resume")
    BY <1>1, <2>1 DEF Hand
  <2> QED
    BY <1>1, <2>1, <2>2, <2>3, <2>4, <2>5, <2>6, TaskAndRow DEF Records
<1>4. CASE S!ClearReason
  <2>1. S!Go("resume", "schedule") /\ task["resume"].pc = "clear"
    BY <1>4 DEF S!ClearReason, S!At
  <2>2. task'["resume"].pc = "schedule" /\ \A u \in S!Tasks \ {"resume"} : task'[u] = task[u]
    BY <1>1, <2>1, TaskGoes
  <2>3. CASE UNCHANGED dep /\ S!Failure
    BY <1>1, <2>2, <2>3, Stays, TaskOnly DEF S!Failure
  <2>4. CASE dep' = [dep EXCEPT ![r].reason = IF @ = "NO_POLICY" THEN @ ELSE "null"] /\ missed' = missed
    <3>1. /\ dep'[r].status = dep[r].status /\ dep'[r].crossed = dep[r].crossed
          /\ dep[r].reason # "NO_POLICY" => dep'[r].reason = "null"
          /\ \A s \in Rows \ {r} : Same(s)
      BY <1>1, <2>4 DEF DepRecord, Same
    <3>2. missed' = 0 => Limited(r)'
      BY <2>4, <3>1 DEF UnderPolicies, Limited
    <3>3. (\E u \in S!Tasks \ {"resume"} : task[u].pc = "after" /\ task[u].row = r) => Marked(r)'
      BY <3>1 DEF Noted, Records, Marked
    <3> QED
      BY <1>1, <2>2, <2>4, <3>1, <3>2, <3>3, TaskAndRow DEF Records
  <2> QED
    BY <1>4, <2>3, <2>4 DEF S!ClearReason, S!Row
<1>5. CASE S!ScheduleExpiry
  <2>1. task["resume"].pc = "schedule" /\ UNCHANGED <<dep, missed>> /\ ~Hand("resume")
    BY <1>1, <1>5 DEF S!ScheduleExpiry, S!At, Hand
  <2>2. CASE task' = [task EXCEPT !["resume"] = S!Following(task["resume"].todo)]
    BY <1>1, <2>1, <2>2, TaskGoes, Stays, TaskOnly
  <2>3. CASE /\ task["expire"].pc = "idle"
             /\ task' = [task EXCEPT !["expire"] = [S!Quiet EXCEPT !.pc = "reason", !.row = r],
                                     !["resume"] = S!Following(task["resume"].todo)]
    <3>1. S!Following(task["resume"].todo).pc \in {"idle", "start"}
      BY DEF S!Following, S!Quiet
    <3>2. [S!Quiet EXCEPT !.pc = "reason", !.row = r].pc = "reason"
      BY DEF S!Quiet
    <3>3. /\ task'["resume"].pc \in {"idle", "start"} /\ task'["expire"].pc = "reason"
          /\ \A u \in S!Tasks \ {"resume", "expire"} : task'[u] = task[u]
      BY <1>1, <2>3, <3>1, <3>2
    <3> QED
      BY <2>1, <2>3, <3>3, ResumeOnly
  <2> QED
    BY <1>5, <2>2, <2>3 DEF S!ScheduleExpiry, S!Row, S!At
<1>6. ASSUME NEW s \in Rows, S!StartCvm(s) PROVE Noted' /\ UnderPolicies'
  <2>1. task["resume"].pc = "start" /\ missed' = missed /\ ~Hand("resume")
    BY <1>1, <1>6 DEF S!StartCvm, S!At, Hand
  <2>2. \A q \in Rows : Same(q)
    BY <1>1, <1>6 DEF S!StartCvm, DepRecord, Same
  <2>3. task'["resume"].pc \in {"idle", "start", "activate"} /\ \A u \in S!Tasks \ {"resume"} : task'[u] = task[u]
    BY <1>1, <1>6, TaskGoes DEF S!StartCvm
  <2> QED
    BY <1>1, <2>1, <2>2, <2>3, TaskOnly
<1>7. ASSUME NEW s \in Rows, S!ResumeFails(s) PROVE Noted' /\ UnderPolicies'
  <2>1. task["resume"].pc = "start" /\ UNCHANGED <<dep, missed>> /\ ~Hand("resume")
    BY <1>1, <1>7 DEF S!ResumeFails, S!At, Hand
  <2>2. task'["resume"].pc \in {"idle", "start"} /\ \A u \in S!Tasks \ {"resume"} : task'[u] = task[u]
    BY <1>1, <1>7, TaskGoes DEF S!ResumeFails
  <2> QED
    BY <1>1, <2>1, <2>2, Stays, TaskOnly
<1>8. ASSUME NEW s \in Rows, NEW new \in Rows, S!Redeploy(s, new) PROVE Noted' /\ UnderPolicies'
  <2>1. /\ task["resume"].pc = "start" /\ dep[new].status = "none" /\ ~Hand("resume")
        /\ missed' \in {missed, missed + 1}
    BY <1>1, <1>8 DEF S!Redeploy, S!At, S!Failure, Hand
  <2>2. task'["resume"].pc \in {"idle", "start"} /\ \A u \in S!Tasks \ {"resume"} : task'[u] = task[u]
    BY <1>1, <1>8, TaskGoes DEF S!Redeploy
  <2>3. /\ dep'[new].reason = "null" \/ missed' = missed + 1
        /\ \A q \in Rows \ {new} : Same(q)
    BY <1>8, Births, Stays
  <2>4. ~\E u \in S!Tasks \ {"resume"} : task[u].pc = "after" /\ task[u].row = new
    BY <2>1 DEF Noted, Records, Marked
  <2>5. missed' = 0 => missed = 0 /\ Limited(new)'
    BY <1>1, <2>1, <2>3 DEF Limited
  <2> QED
    BY <1>1, <2>1, <2>2, <2>3, <2>4, <2>5, TaskAndRow DEF Records
<1> QED
  BY <1>2, <1>3, <1>4, <1>5, <1>6, <1>7, <1>8 DEF S!Resuming

LEMMA PolicyNext ==
  ASSUME SuspensionAssumption, SuspensionInv, SuspensionInv', Noted, UnderPolicies, [S!Next]_svars
  PROVE  Noted' /\ UnderPolicies'
<1>1. ASSUME NEW r \in Rows, S!Exceed(r) PROVE Noted' /\ UnderPolicies'
  <2>1. UNCHANGED <<task, missed>> /\ \A s \in Rows : Same(s)
    BY <1>1 DEF S!Exceed, SuspensionInv, SuspensionTypes, DepRecord, Same
  <2> QED
    BY <2>1, NothingMoves
<1>2. ASSUME NEW r \in Rows, NEW t \in S!Tasks, S!Enforce(t, r) \/ S!Request(t, r) PROVE Noted' /\ UnderPolicies'
  <2>1. /\ UNCHANGED <<dep, missed>>
        /\ (S!Take(t, r, "reason") /\ t \in S!Policing) \/ S!Take(t, r, "upstream")
    BY <1>2 DEF S!Enforce, S!Request
  <2>2. /\ task'[t].pc # "after" /\ task[t].pc = "idle" /\ \A u \in S!Tasks \ {t} : task'[u] = task[u]
        /\ task'[t].pc = "reason" => t \in S!Policing
    BY <2>1, TaskGoes
  <2>3. ~Hand(t)
    BY <2>2 DEF Hand
  <2> QED
    BY <2>1, <2>2, <2>3, Stays, TaskOnly
<1>3. CASE UNCHANGED svars
  BY <1>3, Stays, NothingMoves DEF svars
<1>4. \A t \in S!Tasks : task[t].row \in Rows
  BY DEF SuspensionInv, SuspensionTypes, TaskRecord
<1>5. "resume" \in S!Tasks
  BY DEF S!Tasks, S!Requests
<1>6. ASSUME NEW t \in S!Tasks, S!Proceed(t) \/ S!StopRefused(t) \/ S!Dies(t) PROVE Noted' /\ UnderPolicies'
  BY <1>4, <1>6, PolicyTaskSteps
<1>7. CASE S!Resume \/ S!Resuming
  BY <1>4, <1>5, <1>7, PolicyResumes
<1> QED
  BY <1>1, <1>2, <1>3, <1>6, <1>7 DEF S!Next

LEMMA PoliciesHold ==
  ASSUME SuspensionInv, UnderPolicies
  PROVE  S!RunningIsUnderItsPolicy
<1> SUFFICES ASSUME NEW r \in Rows, dep[r].status = "ACTIVE", missed = 0, ~dep[r].crossed, ~S!Busy(r)
             PROVE  dep[r].reason = "null"
  BY Zenon DEF S!RunningIsUnderItsPolicy
<1>1. ~InHand(r)
  BY DEF InHand, Hand, S!Busy, S!At, S!Row
<1>2. dep[r].crossed # TRUE
  OBVIOUS
<1> QED
  BY <1>1, <1>2 DEF UnderPolicies, Limited

-----------------------------------------------------------------------------
(* Wallet *)

Ops  == {"create", "close", "other"}
Gots == {"none", "ok", "mismatch", "error"}
Flags == BOOLEAN    \* a name that keeps them out of the arithmetic prover's way
CallRecord == [pc : W!Pcs, op : Ops, try : 1..TxRetries, fresh : Flags, got : Gots, again : Flags]

\* Between its turn in the queue and the delay, a caller is the head.
InTurn == {"lock", "read", "cast", "back", "threw", "settle"}
HeadOf(c)  == queue[pod[c]] # <<>> /\ Head(queue[pod[c]]) = c
Queued ==
  /\ \A c \in W!Callers : call[c].pc \in InTurn => HeadOf(c)
  /\ \A c \in W!Callers : call[c].pc = "queued" => \E i \in 1..Len(queue[pod[c]]) : queue[pod[c]][i] = c

\* How often an attempt has run the command: once more, if the lock failed it.
Again == {c \in W!Callers : call[c].again}
Runs(c) == CASE call[c].pc \in {"ready", "queued", "lock", "sleep"} -> 0
             [] call[c].pc \in {"read", "cast"}  -> IF c \in Again THEN 1 ELSE 0
             [] call[c].pc \in {"back", "threw"} -> IF c \in Again THEN 2 ELSE 1
             [] OTHER -> 2
FewOpenAt(c) == /\ open[c] \in Nat /\ open[c] <= 2 * TxRetries
                /\ call[c].op = "create" => open[c] <= 2 * (call[c].try - 1) + Runs(c)

WalletTypes ==
  /\ queue \in [Pods -> Seq(W!Callers)] /\ lock \in W!Callers \cup {NoOne}
  /\ call \in [W!Callers -> CallRecord] /\ DOMAIN open = Probes /\ open = [p \in Probes |-> open[p]]
  /\ {mempool, refused} \subseteq BOOLEAN /\ slips \in 0..MaxSlips
WalletInv == WalletTypes /\ Queued /\ \A c \in Probes : FewOpenAt(c)

LEMMA WalletTyped == WalletAssumption /\ WalletInv => W!TypeOK
<1> SUFFICES ASSUME WalletAssumption, WalletInv PROVE W!TypeOK
  OBVIOUS
<1>1. open \in [Probes -> 0 .. 2 * TxRetries]
  BY DEF WalletInv, WalletTypes, FewOpenAt, WalletAssumption
<1> QED
  BY <1>1, Zenon DEF W!TypeOK, WalletInv, WalletTypes, CallRecord, Ops, Gots, Flags

\* Only this caller moves.
Alone(c) == \A d \in W!Callers \ {c} :
  /\ call'[d].pc = call[d].pc /\ call'[d].op = call[d].op /\ call'[d].try = call[d].try
  /\ d \in Again' <=> d \in Again

LEMMA RunsKept ==
  ASSUME NEW c, call'[c].pc = call[c].pc, c \in Again' <=> c \in Again
  PROVE  Runs(c)' = Runs(c)
BY DEF Runs

\* The queue: a caller is at work only as its head.
LEMMA QueueKept ==
  ASSUME WalletAssumption, Queued, WalletTypes, NEW c \in W!Callers, Alone(c),
         \/ /\ UNCHANGED queue /\ call'[c].pc # "queued"
            /\ call'[c].pc \in InTurn => HeadOf(c)
         \/ call'[c].pc = "queued" /\ queue' = [queue EXCEPT ![pod[c]] = Append(@, c)]
         \/ /\ call[c].pc \in InTurn /\ call'[c].pc \notin InTurn \cup {"queued"}
            /\ queue' = [queue EXCEPT ![pod[c]] = Tail(@)]
  PROVE  queue' \in [Pods -> Seq(W!Callers)] /\ Queued'
<1> DEFINE line == queue[pod[c]]
<1>1. /\ queue \in [Pods -> Seq(W!Callers)] /\ \A d \in W!Callers : pod[d] \in Pods
      /\ line \in Seq(W!Callers)
  BY DEF WalletTypes, WalletAssumption, W!Callers
<1>2. "queued" \notin InTurn
  BY DEF InTurn
<1>3. CASE UNCHANGED queue /\ call'[c].pc # "queued" /\ (call'[c].pc \in InTurn => HeadOf(c))
  BY <1>1, <1>3 DEF Queued, HeadOf, Alone
<1>4. CASE call'[c].pc = "queued" /\ queue' = [queue EXCEPT ![pod[c]] = Append(@, c)]
  <2>1. queue'[pod[c]] = Append(line, c) /\ \A p \in Pods \ {pod[c]} : queue'[p] = queue[p]
    BY <1>1, <1>4
  <2>2. /\ Append(line, c) \in Seq(W!Callers) /\ Len(Append(line, c)) = Len(line) + 1
        /\ Append(line, c)[Len(line) + 1] = c /\ \A i \in 1..Len(line) : Append(line, c)[i] = line[i]
        /\ line # <<>> => Append(line, c) # <<>> /\ Head(Append(line, c)) = Head(line)
        /\ Len(line) \in Nat
    <3>1. Len(Append(line, c)) = Len(line) + 1 /\ Len(line) \in Nat /\ Len(<<>>) = 0
      BY <1>1
    <3>2. Append(line, c) # <<>>
      BY <3>1
    <3>3. line # <<>> => Head(Append(line, c)) = Head(line)
      BY <1>1
    <3> QED
      BY <1>1, <3>1, <3>2, <3>3
  <2>3. queue' \in [Pods -> Seq(W!Callers)]
    BY <1>1, <1>4, <2>2
  <2> HIDE DEF line
  <2>4. ASSUME NEW d \in W!Callers, call'[d].pc \in InTurn PROVE HeadOf(d)'
    <3>1. d # c /\ HeadOf(d)
      BY <1>2, <1>4, <2>4 DEF Queued, Alone
    <3> QED
      BY <1>1, <2>1, <2>2, <3>1 DEF HeadOf, line
  <2>5. ASSUME NEW d \in W!Callers, call'[d].pc = "queued"
        PROVE  \E i \in 1..Len(queue'[pod[d]]) : queue'[pod[d]][i] = d
    <3>1. CASE d = c
      BY <2>1, <2>2, <3>1
    <3>2. CASE d # c
      <4>1. PICK i \in 1..Len(queue[pod[d]]) : queue[pod[d]][i] = d
        BY <2>5, <3>2 DEF Queued, Alone
      <4>2. CASE pod[d] = pod[c]
        <5>1. i \in 1..Len(line) /\ line[i] = d
          BY <4>1, <4>2 DEF line
        <5>2. i \in 1..Len(Append(line, c)) /\ Append(line, c)[i] = d
          BY <2>2, <5>1
        <5> QED
          BY <2>1, <4>2, <5>2
      <4>3. CASE pod[d] # pod[c]
        BY <1>1, <2>1, <4>1, <4>3
      <4> QED
        BY <4>2, <4>3
    <3> QED
      BY <3>1, <3>2
  <2> QED
    BY <2>3, <2>4, <2>5 DEF Queued
<1>5. CASE /\ call[c].pc \in InTurn /\ call'[c].pc \notin InTurn \cup {"queued"}
           /\ queue' = [queue EXCEPT ![pod[c]] = Tail(@)]
  <2>1. queue'[pod[c]] = Tail(line) /\ \A p \in Pods \ {pod[c]} : queue'[p] = queue[p]
    BY <1>1, <1>5
  <2>2. line # <<>> /\ Head(line) = c
    BY <1>5 DEF Queued, HeadOf
  <2>3. /\ Tail(line) \in Seq(W!Callers) /\ Len(Tail(line)) = Len(line) - 1 /\ Len(line) \in Nat /\ line[1] = c
        /\ \A i \in 2..Len(line) : Tail(line)[i - 1] = line[i]
    BY <1>1, <2>2
  <2>4. queue' \in [Pods -> Seq(W!Callers)]
    BY <1>1, <1>5, <2>3
  <2> HIDE DEF line
  <2>5. ASSUME NEW d \in W!Callers, call'[d].pc \in InTurn PROVE HeadOf(d)'
    <3>1. d # c /\ HeadOf(d)
      BY <1>5, <2>5 DEF Queued, Alone
    <3>2. pod[d] # pod[c]
      BY <2>2, <3>1 DEF HeadOf, line
    <3> QED
      BY <1>1, <2>1, <3>1, <3>2 DEF HeadOf
  <2>6. ASSUME NEW d \in W!Callers, call'[d].pc = "queued"
        PROVE  \E i \in 1..Len(queue'[pod[d]]) : queue'[pod[d]][i] = d
    <3>1. d # c
      BY <1>5, <2>6
    <3>2. PICK i \in 1..Len(queue[pod[d]]) : queue[pod[d]][i] = d
      BY <2>6, <3>1 DEF Queued, Alone
    <3>3. CASE pod[d] = pod[c]
      <4>1. i \in 2..Len(line) /\ line[i] = d
        BY <2>3, <3>1, <3>2, <3>3 DEF line
      <4>2. i - 1 \in 1..Len(Tail(line)) /\ Tail(line)[i - 1] = d
        BY <2>3, <4>1
      <4> QED
        BY <2>1, <3>3, <4>2
    <3>4. CASE pod[d] # pod[c]
      BY <1>1, <2>1, <3>2, <3>4
    <3> QED
      BY <3>3, <3>4
  <2> QED
    BY <2>4, <2>5, <2>6 DEF Queued
<1> QED
  BY <1>3, <1>4, <1>5

\* A probe opens at most two deployments in an attempt.
LEMMA OpenKept ==
  ASSUME WalletTypes, NEW c \in W!Callers, Alone(c), \A p \in Probes \ {c} : open'[p] = open[p],
         c \in Probes => FewOpenAt(c)', \A p \in Probes : FewOpenAt(p)
  PROVE  \A p \in Probes : FewOpenAt(p)'
<1> SUFFICES ASSUME NEW p \in Probes, p # c PROVE FewOpenAt(p)'
  OBVIOUS
<1>1. p \in W!Callers
  BY DEF W!Callers
<1>2. /\ call'[p].pc = call[p].pc /\ call'[p].op = call[p].op /\ call'[p].try = call[p].try
      /\ p \in Again' <=> p \in Again
  BY <1>1 DEF Alone
<1>3. Runs(p)' = Runs(p)
  BY <1>2, RunsKept
<1> QED
  BY <1>2, <1>3 DEF FewOpenAt

\* A step of a caller that sends nothing.
LEMMA CallerMoves ==
  ASSUME WalletAssumption, WalletInv, NEW c \in W!Callers, NEW new \in CallRecord,
         call' = [call EXCEPT ![c] = new], UNCHANGED <<mempool, open, refused>>,
         lock' \in W!Callers \cup {NoOne}, W!Slip \/ UNCHANGED slips,
         \/ /\ UNCHANGED queue /\ new.pc # "queued"
            /\ new.pc \in InTurn => HeadOf(c)
         \/ new.pc = "queued" /\ queue' = [queue EXCEPT ![pod[c]] = Append(@, c)]
         \/ /\ call[c].pc \in InTurn /\ new.pc \notin InTurn \cup {"queued"}
            /\ queue' = [queue EXCEPT ![pod[c]] = Tail(@)],
         c \in Probes /\ new.op = "create" =>
            /\ call[c].op = "create"
            /\ 2 * (call[c].try - 1) + Runs(c) <= 2 * (new.try - 1) + Runs(c)'
  PROVE  WalletInv'
<1>1. WalletTypes /\ Queued /\ \A p \in Probes : FewOpenAt(p)
  BY DEF WalletInv
<1>2. call' \in [W!Callers -> CallRecord] /\ call'[c] = new /\ \A d \in W!Callers \ {c} : call'[d] = call[d]
  BY <1>1 DEF WalletTypes
<1>3. Alone(c)
  BY <1>2 DEF Alone, Again
<1>4. queue' \in [Pods -> Seq(W!Callers)] /\ Queued'
  BY <1>1, <1>2, <1>3, QueueKept
<1>5. c \in Probes => FewOpenAt(c)'
  <2> SUFFICES ASSUME c \in Probes PROVE FewOpenAt(c)'
    OBVIOUS
  <2>1. open'[c] = open[c] /\ FewOpenAt(c)
    BY <1>1
  <2>2. call[c].try \in Nat /\ new.try \in Nat
    BY <1>1, WalletAssumption DEF WalletTypes, CallRecord
  <2>3. Runs(c) \in Nat /\ Runs(c)' \in Nat
    BY DEF Runs
  <2>4. TxRetries \in Nat
    BY DEF WalletAssumption
  <2> QED
    BY <1>2, <2>1, <2>2, <2>3, <2>4 DEF FewOpenAt
<1>6. \A p \in Probes : FewOpenAt(p)'
  BY <1>1, <1>3, <1>5, OpenKept
<1>7. slips' \in 0..MaxSlips
  BY <1>1 DEF W!Slip, WalletTypes, WalletAssumption
<1>8. {mempool', refused'} \subseteq BOOLEAN
  BY <1>1, Zenon DEF WalletTypes
<1>9. DOMAIN open' = Probes /\ open' = [p \in Probes |-> open'[p]]
  BY <1>1 DEF WalletTypes
<1> QED
  BY <1>2, <1>4, <1>6, <1>7, <1>8, <1>9, Zenon DEF WalletInv, WalletTypes

LEMMA CallOf ==
  ASSUME WalletInv, NEW c \in W!Callers
  PROVE  /\ call \in [W!Callers -> CallRecord] /\ call[c] \in CallRecord
         /\ call[c].again \in Flags /\ call[c].fresh \in Flags /\ {TRUE, FALSE, ~mempool} \subseteq Flags
         /\ call[c].pc \in W!Pcs /\ call[c].try \in 1..TxRetries /\ call[c].got \in Gots
         /\ lock \in W!Callers \cup {NoOne} /\ W!Freed(c) \in W!Callers \cup {NoOne}
<1>1. call \in [W!Callers -> CallRecord] /\ call[c] \in CallRecord /\ lock \in W!Callers \cup {NoOne}
  BY DEF WalletInv, WalletTypes
<1>2. {TRUE, FALSE, ~mempool} \subseteq Flags
  BY Zenon DEF WalletInv, WalletTypes, Flags
<1>3. W!Freed(c) \in W!Callers \cup {NoOne}
  BY <1>1 DEF W!Freed
<1> QED
  BY <1>1, <1>2, <1>3 DEF CallRecord

\* Steps that change nothing of a call but its place.
LEMMA Goes ==
  ASSUME WalletAssumption, WalletInv, NEW c \in W!Callers, NEW pc \in W!Pcs \ {"queued"}, W!Go(c, pc),
         UNCHANGED <<mempool, open, refused>>, lock' \in W!Callers \cup {NoOne}, W!Slip \/ UNCHANGED slips,
         \/ UNCHANGED queue /\ (pc \in InTurn => HeadOf(c))
         \/ /\ call[c].pc \in InTurn /\ pc \notin InTurn
            /\ queue' = [queue EXCEPT ![pod[c]] = Tail(@)],
         call[c].pc \in {"ready", "queued", "lock", "sleep"} \/ pc \in {"settle", "answer", "done"}
  PROVE  WalletInv'
<1> DEFINE new == [call[c] EXCEPT !.pc = pc]
<1>1. call[c] \in CallRecord /\ call \in [W!Callers -> CallRecord] /\ call[c].again \in Flags
      /\ call[c].fresh \in Flags /\ call[c].try \in 1..TxRetries /\ call[c].got \in Gots
  BY CallOf
<1>2. new \in CallRecord /\ new.pc = pc /\ new.op = call[c].op /\ new.try = call[c].try
  BY <1>1 DEF CallRecord
<1>3. call' = [call EXCEPT ![c] = new]
  BY <1>1 DEF W!Go
<1> HIDE DEF new
<1>4. call'[c] = new
  BY <1>1, <1>3
<1>5. Runs(c) <= Runs(c)' /\ Runs(c) \in 0..2 /\ Runs(c)' \in 0..2
  BY <1>2, <1>4 DEF Runs
<1>6. 2 * (call[c].try - 1) + Runs(c) <= 2 * (new.try - 1) + Runs(c)'
  BY <1>1, <1>2, <1>5 DEF WalletAssumption
<1>7. \/ UNCHANGED queue /\ new.pc # "queued" /\ (new.pc \in InTurn => HeadOf(c))
      \/ /\ call[c].pc \in InTurn /\ new.pc \notin InTurn \cup {"queued"}
         /\ queue' = [queue EXCEPT ![pod[c]] = Tail(@)]
  BY <1>2
<1> QED
  BY <1>2, <1>3, <1>6, <1>7, CallerMoves

LEMMA GoSteps ==
  ASSUME WalletAssumption, WalletInv, NEW c \in W!Callers,
         \/ W!MyTurn(c) \/ W!Locked(c) \/ W!Return(c) \/ W!ThrewTwice(c) \/ W!Settled(c)
         \/ W!Wake(c) \/ W!DseqUnknown(c) \/ W!End(c)
  PROVE  WalletInv'
<1>1. lock \in W!Callers \cup {NoOne} /\ W!Freed(c) \in W!Callers \cup {NoOne}
  BY CallOf
<1>2. {"lock", "read", "settle", "answer", "ready", "done"} \subseteq W!Pcs \ {"queued"}
  BY DEF W!Pcs
<1>3. call[c].pc \in InTurn => HeadOf(c)
  BY DEF WalletInv, Queued
<1>4. CASE W!MyTurn(c)
  <2>1. /\ call[c].pc = "queued" /\ Head(queue[pod[c]]) = c /\ W!Go(c, "lock")
        /\ UNCHANGED <<queue, lock, mempool, open, refused, slips>>
    BY <1>4 DEF W!MyTurn, W!At
  <2>2. queue[pod[c]] # <<>>
    <3>1. PICK i \in 1..Len(queue[pod[c]]) : queue[pod[c]][i] = c
      BY <2>1 DEF WalletInv, Queued
    <3>2. Len(<<>>) = 0
      OBVIOUS
    <3> QED
      BY <3>1, <3>2
  <2> QED
    BY <1>1, <1>2, <2>1, <2>2, Goes DEF HeadOf
<1>5. CASE W!Locked(c)
  <2>1. /\ call[c].pc = "lock" /\ W!Go(c, "read") /\ lock' = c
        /\ UNCHANGED <<queue, mempool, open, refused, slips>>
    BY <1>5 DEF W!Locked, W!At
  <2> QED
    BY <1>1, <1>2, <1>3, <2>1, Goes DEF InTurn
<1>6. CASE W!Return(c) \/ W!ThrewTwice(c)
  <2>1. /\ call[c].pc \in {"back", "threw"} /\ W!Go(c, "settle") /\ lock' \in {lock, W!Freed(c)}
        /\ UNCHANGED <<queue, mempool, open, refused, slips>>
    BY <1>6 DEF W!Return, W!ThrewTwice, W!At
  <2> QED
    BY <1>1, <1>2, <1>3, <2>1, Goes DEF InTurn
<1>7. CASE W!Settled(c)
  <2>1. /\ call[c].pc = "settle" /\ W!Go(c, "answer")
        /\ queue' = [queue EXCEPT ![pod[c]] = Tail(@)]
        /\ UNCHANGED <<lock, mempool, open, refused, slips>>
    BY <1>7 DEF W!Settled, W!At
  <2>2. "answer" \notin InTurn /\ "settle" \in InTurn
    BY DEF InTurn
  <2> QED
    BY <1>1, <1>2, <2>1, <2>2, Goes
<1>8. CASE W!Wake(c)
  <2>1. /\ call[c].pc = "sleep" /\ W!Go(c, "ready")
        /\ UNCHANGED <<queue, lock, mempool, open, refused, slips>>
    BY <1>8 DEF W!Wake, W!At
  <2> QED
    BY <1>1, <1>2, <2>1, Goes DEF InTurn
<1>9. CASE W!DseqUnknown(c) \/ W!End(c)
  <2>1. /\ W!Go(c, "done") /\ (W!Slip \/ UNCHANGED slips)
        /\ UNCHANGED <<queue, lock, mempool, open, refused>>
    BY <1>9 DEF W!DseqUnknown, W!End
  <2> QED
    BY <1>1, <1>2, <2>1, Goes DEF InTurn
<1> QED
  BY <1>4, <1>5, <1>6, <1>7, <1>8, <1>9

\* Whether an attempt is the second.
LEMMA SecondTime ==
  ASSUME NEW c \in W!Callers, NEW new, call \in [W!Callers -> CallRecord], call' = [call EXCEPT ![c] = new]
  PROVE  (c \in Again <=> call[c].again) /\ (c \in Again' <=> new.again)
<1>1. call'[c] = new
  OBVIOUS
<1> QED
  BY <1>1, Zenon DEF Again

LEMMA CallSteps ==
  ASSUME WalletAssumption, WalletInv, NEW c \in W!Callers,
         W!Call(c) \/ W!LockFails(c) \/ W!ReadSequence(c) \/ W!RunAgain(c) \/ W!TryAgain(c)
  PROVE  WalletInv'
<1>1. /\ call[c] \in CallRecord /\ call \in [W!Callers -> CallRecord] /\ call[c].again \in Flags
      /\ call[c].fresh \in Flags /\ call[c].try \in 1..TxRetries /\ call[c].got \in Gots
      /\ {TRUE, FALSE, ~mempool} \subseteq Flags
      /\ lock \in W!Callers \cup {NoOne} /\ W!Freed(c) \in W!Callers \cup {NoOne}
  BY CallOf
<1>2. {"queued", "read", "cast", "sleep"} \subseteq W!Pcs /\ TxRetries \in Nat
  BY DEF W!Pcs, WalletAssumption
<1>3. call[c].pc \in InTurn => HeadOf(c)
  BY DEF WalletInv, Queued
<1>4. CASE W!Call(c)
  <2> DEFINE new == [call[c] EXCEPT !.pc = "queued", !.again = FALSE]
  <2>1. new \in CallRecord /\ new.pc = "queued" /\ new.op = call[c].op /\ new.try = call[c].try
    BY <1>1, <1>2 DEF CallRecord
  <2>2. /\ call' = [call EXCEPT ![c] = new] /\ call[c].pc = "ready"
        /\ queue' = [queue EXCEPT ![pod[c]] = Append(@, c)]
        /\ UNCHANGED <<lock, mempool, open, refused, slips>>
    BY <1>1, <1>4 DEF W!Call, W!At
  <2> HIDE DEF new
  <2>3. Runs(c) = 0 /\ Runs(c)' = 0
    BY <1>1, <2>1, <2>2 DEF Runs
  <2>4. 2 * (call[c].try - 1) + Runs(c) <= 2 * (new.try - 1) + Runs(c)'
    BY <1>1, <1>2, <2>1, <2>3
  <2> QED
    BY <1>1, <2>1, <2>2, <2>4, CallerMoves
<1>5. CASE W!LockFails(c) \/ W!RunAgain(c)
  <2> DEFINE new == [call[c] EXCEPT !.pc = "read", !.again = TRUE]
  <2>1. new \in CallRecord /\ new.pc = "read" /\ new.op = call[c].op /\ new.try = call[c].try /\ new.again
    BY <1>1, <1>2 DEF CallRecord
  <2>2. /\ call' = [call EXCEPT ![c] = new] /\ call[c].pc \in {"lock", "back", "threw"}
        /\ W!Slip \/ UNCHANGED slips
        /\ lock' \in {lock, W!Freed(c)}
        /\ UNCHANGED <<queue, mempool, open, refused>>
    BY <1>1, <1>5 DEF W!LockFails, W!RunAgain, W!At
  <2>3. call[c].pc = "lock" \/ ~call[c].again
    BY <1>5, Zenon DEF W!LockFails, W!RunAgain, W!At
  <2> HIDE DEF new
  <2>4. c \in Again' /\ (call[c].pc = "lock" \/ c \notin Again)
    BY <1>1, <2>1, <2>2, <2>3, SecondTime, Zenon
  <2>5. Runs(c) <= Runs(c)' /\ Runs(c) \in 0..2 /\ Runs(c)' \in 0..2
    BY <1>1, <2>1, <2>2, <2>4 DEF Runs
  <2>6. HeadOf(c)
    BY <1>3, <2>2 DEF InTurn
  <2>7. 2 * (call[c].try - 1) + Runs(c) <= 2 * (new.try - 1) + Runs(c)'
    BY <1>1, <1>2, <2>1, <2>5
  <2> QED
    BY <1>1, <2>1, <2>2, <2>6, <2>7, CallerMoves
<1>6. CASE W!ReadSequence(c)
  <2> DEFINE new == [call[c] EXCEPT !.pc = "cast", !.fresh = ~mempool]
  <2>1. /\ new \in CallRecord /\ new.pc = "cast" /\ new.op = call[c].op /\ new.try = call[c].try
        /\ new.again = call[c].again
    BY <1>1, <1>2 DEF CallRecord
  <2>2. /\ call' = [call EXCEPT ![c] = new] /\ call[c].pc = "read"
        /\ UNCHANGED <<queue, lock, mempool, open, refused, slips>>
    BY <1>1, <1>6 DEF W!ReadSequence, W!At
  <2> HIDE DEF new
  <2>3. c \in Again' <=> c \in Again
    BY <1>1, <2>1, <2>2, SecondTime, Zenon
  <2>4. Runs(c) = Runs(c)' /\ Runs(c) \in 0..2
    BY <1>1, <2>1, <2>2, <2>3 DEF Runs
  <2>5. HeadOf(c)
    BY <1>3, <2>2 DEF InTurn
  <2>6. 2 * (call[c].try - 1) + Runs(c) <= 2 * (new.try - 1) + Runs(c)'
    BY <1>1, <1>2, <2>1, <2>4
  <2> QED
    BY <1>1, <2>1, <2>2, <2>5, <2>6, CallerMoves
<1>7. CASE W!TryAgain(c)
  <2> DEFINE new == [call[c] EXCEPT !.pc = "sleep", !.try = call[c].try + 1, !.fresh = ~mempool]
  <2>1. /\ call' = [call EXCEPT ![c] = new] /\ call[c].try < TxRetries
        /\ UNCHANGED <<queue, lock, mempool, open, refused, slips>>
    BY <1>1, <1>7 DEF W!TryAgain, W!At
  <2>2. call[c].try + 1 \in 1..TxRetries
    BY <1>1, <1>2, <2>1
  <2>3. new \in CallRecord /\ new.pc = "sleep" /\ new.op = call[c].op /\ new.try = call[c].try + 1
    BY <1>1, <1>2, <2>2 DEF CallRecord
  <2> HIDE DEF new
  <2>4. Runs(c) \in 0..2 /\ Runs(c)' = 0
    BY <1>1, <2>1, <2>3 DEF Runs
  <2>5. 2 * (call[c].try - 1) + Runs(c) <= 2 * (new.try - 1) + Runs(c)'
    BY <1>1, <1>2, <2>3, <2>4
  <2>6. "sleep" \notin InTurn
    BY DEF InTurn
  <2> QED
    BY <1>1, <2>1, <2>3, <2>5, <2>6, CallerMoves
<1> QED
  BY <1>4, <1>5, <1>6, <1>7

\* The command: it opens or closes a deployment at most, and its answer or error
\* is the end of this run.
LEMMA Sends ==
  ASSUME WalletAssumption, WalletInv, NEW c \in W!Callers, call[c].pc = "cast",
         call' \in [W!Callers -> CallRecord], Alone(c), c \in Again' <=> c \in Again,
         call'[c].pc \in {"back", "threw"}, call'[c].op = call[c].op, call'[c].try = call[c].try,
         UNCHANGED open \/ open' = W!Effect(c),
         {mempool', refused'} \subseteq BOOLEAN, W!Slip \/ UNCHANGED slips, UNCHANGED <<queue, lock>>
  PROVE  WalletInv'
<1>1. WalletTypes /\ Queued /\ \A p \in Probes : FewOpenAt(p)
  BY DEF WalletInv
<1>2. HeadOf(c)
  BY <1>1 DEF Queued, InTurn
<1>3. queue' \in [Pods -> Seq(W!Callers)] /\ Queued'
  BY <1>1, <1>2, QueueKept
<1>4. slips' \in 0..MaxSlips
  BY <1>1 DEF W!Slip, WalletTypes, WalletAssumption
<1>5. /\ DOMAIN open' = Probes /\ open' = [p \in Probes |-> open'[p]]
      /\ \A p \in Probes \ {c} : open'[p] = open[p]
  BY <1>1 DEF WalletTypes, W!Effect
<1>6. Runs(c)' = Runs(c) + 1 /\ Runs(c) \in 0..1
  BY DEF Runs
<1>7. c \in Probes => FewOpenAt(c)'
  <2> SUFFICES ASSUME c \in Probes PROVE FewOpenAt(c)'
    OBVIOUS
  <2>1. FewOpenAt(c) /\ call[c].try \in 1..TxRetries /\ TxRetries \in Nat
    BY <1>1 DEF WalletTypes, CallRecord, WalletAssumption
  <2>2. CASE call[c].op = "create"
    <3>1. open'[c] \in {open[c], open[c] + 1} /\ open[c] \in Nat
      BY <1>1, <2>1, <2>2 DEF W!Effect, WalletTypes, FewOpenAt
    <3>2. open[c] <= 2 * (call[c].try - 1) + Runs(c)
      BY <2>1, <2>2 DEF FewOpenAt
    <3>3. open'[c] \in Nat /\ open'[c] <= 2 * (call[c].try - 1) + Runs(c)' /\ open'[c] <= 2 * TxRetries
      BY <1>6, <2>1, <3>1, <3>2
    <3> QED
      BY <3>3 DEF FewOpenAt
  <2>3. CASE call[c].op # "create"
    <3>1. open'[c] \in {open[c], open[c] - 1, 0} /\ open[c] \in Nat /\ open'[c] \in Nat
      BY <1>1, <2>1, <2>3 DEF W!Effect, WalletTypes, FewOpenAt
    <3>2. open'[c] <= 2 * TxRetries
      BY <2>1, <3>1 DEF FewOpenAt
    <3> QED
      BY <2>3, <3>1, <3>2 DEF FewOpenAt
  <2> QED
    BY <2>2, <2>3
<1>8. \A p \in Probes : FewOpenAt(p)'
  BY <1>1, <1>5, <1>7, OpenKept
<1> QED
  BY <1>1, <1>3, <1>4, <1>5, <1>8, Zenon DEF WalletInv, WalletTypes

LEMMA Accepted ==
  ASSUME WalletAssumption, WalletInv, NEW c \in W!Callers, NEW pc \in {"back", "threw"}, NEW got \in Gots,
         W!Accept(c, pc, got)
  PROVE  /\ call' \in [W!Callers -> CallRecord] /\ Alone(c) /\ (c \in Again' <=> c \in Again)
         /\ call'[c].pc = pc /\ call'[c].op = call[c].op /\ call'[c].try = call[c].try
<1> DEFINE new(d) == IF d = c THEN [call[c] EXCEPT !.pc = pc, !.got = got, !.fresh = FALSE]
                     ELSE [call[d] EXCEPT !.fresh = (call[d].fresh /\ call[d].pc # "cast")]
<1>1. call' = [d \in W!Callers |-> new(d)]
  BY Zenon DEF W!Accept
<1>2. ASSUME NEW d \in W!Callers
      PROVE  /\ new(d) \in CallRecord /\ new(d).op = call[d].op /\ new(d).try = call[d].try
             /\ new(d).again = call[d].again
             /\ new(d).pc = IF d = c THEN pc ELSE call[d].pc
  <2>1. call[d] \in CallRecord /\ FALSE \in Flags /\ pc \in W!Pcs
    BY CallOf DEF W!Pcs
  <2> DEFINE flag == call[d].fresh /\ call[d].pc # "cast"
  <2>2. flag \in Flags
    BY Zenon DEF Flags
  <2>3. CASE d = c
    BY <2>1, <2>3 DEF CallRecord
  <2>4. CASE d # c
    <3>1. new(d) = [call[d] EXCEPT !.fresh = flag]
      BY <2>4, Zenon
    <3> HIDE DEF flag, new
    <3> QED
      BY <2>1, <2>2, <2>4, <3>1 DEF CallRecord
  <2> QED
    BY <2>3, <2>4
<1> HIDE DEF new
<1>3. \A d \in W!Callers : call'[d] = new(d)
  BY <1>1
<1>4. \A d \in W!Callers : d \in Again' <=> d \in Again
  BY <1>2, <1>3, Zenon DEF Again
<1>5. call' \in [W!Callers -> CallRecord]
  BY <1>1, <1>2
<1> QED
  BY <1>2, <1>3, <1>4, <1>5 DEF Alone

LEMMA Commands ==
  ASSUME WalletAssumption, WalletInv, NEW c \in W!Callers, W!Broadcast(c) \/ W!CommandFails(c)
  PROVE  WalletInv'
<1>1. call[c].pc = "cast" /\ (W!Slip \/ UNCHANGED slips) /\ UNCHANGED <<queue, lock>>
  BY DEF W!Broadcast, W!CommandFails, W!At
<1>2. /\ call[c] \in CallRecord /\ call \in [W!Callers -> CallRecord]
      /\ {"ok", "error", "mismatch"} \subseteq Gots /\ {"back", "threw"} \subseteq W!Pcs
  BY CallOf DEF Gots, W!Pcs
<1>3. {mempool', refused'} \subseteq BOOLEAN
  BY Zenon DEF WalletInv, WalletTypes, W!Broadcast, W!CommandFails, W!Accept
<1>4. CASE \E pc \in {"back", "threw"}, got \in Gots : W!Accept(c, pc, got)
  <2>1. PICK pc \in {"back", "threw"}, got \in Gots : W!Accept(c, pc, got)
    BY <1>4
  <2>2. open' = W!Effect(c)
    BY <2>1 DEF W!Accept
  <2>3. /\ call' \in [W!Callers -> CallRecord] /\ Alone(c) /\ (c \in Again' <=> c \in Again)
        /\ call'[c].pc \in {"back", "threw"} /\ call'[c].op = call[c].op /\ call'[c].try = call[c].try
    BY <2>1, Accepted
  <2> QED
    BY <1>1, <1>3, <2>2, <2>3, Sends
<1>5. CASE \E pc \in {"back", "threw"}, got \in Gots :
             call' = [call EXCEPT ![c].pc = pc, ![c].got = got] /\ UNCHANGED open
  <2>1. PICK pc \in {"back", "threw"}, got \in Gots :
          call' = [call EXCEPT ![c].pc = pc, ![c].got = got] /\ UNCHANGED open
    BY <1>5
  <2> DEFINE new == [call[c] EXCEPT !.pc = pc, !.got = got]
  <2>2. /\ new \in CallRecord /\ new.pc = pc /\ new.op = call[c].op /\ new.try = call[c].try
        /\ new.again = call[c].again /\ call' = [call EXCEPT ![c] = new]
    BY <1>2, <2>1 DEF CallRecord
  <2> HIDE DEF new
  <2>3. /\ call' \in [W!Callers -> CallRecord] /\ call'[c] = new
        /\ \A d \in W!Callers \ {c} : call'[d] = call[d]
    BY <1>2, <2>2
  <2>4. c \in Again' <=> c \in Again
    BY <1>2, <2>2, SecondTime, Zenon
  <2>5. Alone(c)
    BY <2>3 DEF Alone, Again
  <2>6. call'[c].pc \in {"back", "threw"} /\ call'[c].op = call[c].op /\ call'[c].try = call[c].try
    BY <2>2, <2>3
  <2>7. call' \in [W!Callers -> CallRecord] /\ UNCHANGED open
    BY <2>1, <2>3
  <2> QED
    BY <1>1, <1>3, <2>4, <2>5, <2>6, <2>7, Sends
<1> QED
  BY <1>2, <1>4, <1>5 DEF W!Broadcast, W!CommandFails

\* A probe closes what it created: what it opened is still at most what its
\* attempts opened.
LEMMA CreatedInv ==
  ASSUME WalletAssumption, WalletInv, NEW c \in W!Callers, W!Created(c)
  PROVE  WalletInv'
<1> DEFINE new == [W!Fresh(c) EXCEPT !.op = "close", !.pc = "sleep", !.fresh = ~mempool]
<1>1. /\ call \in [W!Callers -> CallRecord] /\ lock \in W!Callers \cup {NoOne}
      /\ FALSE \in Flags /\ (~mempool) \in Flags /\ 1 \in 1..TxRetries
  <2>1. 1 \in 1..TxRetries
    BY DEF WalletAssumption
  <2> QED
    BY <2>1, CallOf, Zenon
<1>2. new \in CallRecord /\ new.pc = "sleep" /\ new.op = "close"
  BY <1>1 DEF W!Fresh, CallRecord, W!Pcs, Ops, Gots
<1>3. call' = [call EXCEPT ![c] = new] /\ UNCHANGED <<queue, lock, mempool, open, refused, slips>>
  BY DEF W!Created
<1> HIDE DEF new
<1>4. "sleep" \notin InTurn
  BY DEF InTurn
<1>5. new.pc # "queued" /\ new.pc \notin InTurn /\ new.op # "create" /\ UNCHANGED <<mempool, open, refused>>
      /\ lock' \in W!Callers \cup {NoOne} /\ UNCHANGED slips /\ UNCHANGED queue
      /\ ~(c \in Probes /\ new.op = "create")
  BY <1>1, <1>2, <1>3, <1>4
<1> QED
  BY <1>2, <1>3, <1>5, CallerMoves

\* Nothing that is counted changes.
LEMMA Idles ==
  ASSUME WalletAssumption, WalletInv, W!Block \/ (\E c \in W!Callers : W!LockExpires(c)) \/ UNCHANGED wvars
  PROVE  WalletInv'
<1>1. WalletTypes /\ Queued /\ \A p \in Probes : FewOpenAt(p)
  BY DEF WalletInv
<1>2. /\ UNCHANGED <<queue, open, refused>> /\ lock' \in {lock, NoOne} /\ (W!Slip \/ UNCHANGED slips)
  BY DEF W!Block, W!LockExpires, wvars
<1>3. {mempool', refused'} \subseteq BOOLEAN
  BY <1>1, Zenon DEF WalletTypes, W!Block, W!LockExpires, wvars
<1>4. ASSUME NEW d \in W!Callers
      PROVE  /\ call'[d] \in CallRecord /\ call'[d].pc = call[d].pc /\ call'[d].op = call[d].op
             /\ call'[d].try = call[d].try /\ call'[d].again = call[d].again
  <2>1. call[d] \in CallRecord
    BY CallOf
  <2>2. CASE W!Block
    <3> DEFINE flag == call[d].fresh \/ call[d].pc = "sleep"
    <3>1. flag \in Flags
      BY Zenon DEF Flags
    <3>2. call'[d] = [call[d] EXCEPT !.fresh = flag]
      BY <2>2, Zenon DEF W!Block
    <3> HIDE DEF flag
    <3> QED
      BY <2>1, <3>1, <3>2 DEF CallRecord
  <2>3. CASE UNCHANGED call
    BY <2>1, <2>3
  <2> QED
    BY <2>2, <2>3 DEF W!LockExpires, wvars
<1>5. call' \in [W!Callers -> CallRecord]
  <2>1. call' = [d \in W!Callers |-> call'[d]]
    BY <1>1 DEF WalletTypes, W!Block, W!LockExpires, wvars
  <2> QED
    BY <1>4, <2>1
<1>6. \A d \in W!Callers : d \in Again' <=> d \in Again
  BY <1>4, Zenon DEF Again
<1>7. Queued'
  BY <1>1, <1>2, <1>4 DEF Queued, HeadOf
<1>8. \A p \in Probes : FewOpenAt(p)'
  <2> SUFFICES ASSUME NEW p \in Probes PROVE FewOpenAt(p)'
    OBVIOUS
  <2>1. p \in W!Callers
    BY DEF W!Callers
  <2>2. Runs(p)' = Runs(p)
    BY <1>4, <1>6, <2>1, RunsKept
  <2> QED
    BY <1>1, <1>2, <1>4, <2>1, <2>2 DEF FewOpenAt
<1>9. slips' \in 0..MaxSlips
  BY <1>1, <1>2 DEF W!Slip, WalletTypes, WalletAssumption
<1> QED
  BY <1>1, <1>2, <1>3, <1>5, <1>7, <1>8, <1>9 DEF WalletInv, WalletTypes

LEMMA WalletInit == WalletAssumption /\ W!Init => WalletInv
<1> SUFFICES ASSUME WalletAssumption, W!Init PROVE WalletInv
  OBVIOUS
<1>1. ASSUME NEW c \in W!Callers PROVE W!Fresh(c) \in CallRecord /\ W!Fresh(c).pc = "ready"
  <2>1. FALSE \in Flags /\ 1 \in 1..TxRetries
    BY DEF Flags, WalletAssumption
  <2> QED
    BY <2>1 DEF W!Fresh, CallRecord, W!Pcs, Ops, Gots
<1>2. call \in [W!Callers -> CallRecord] /\ \A c \in W!Callers : call[c].pc = "ready"
  BY <1>1 DEF W!Init
<1>3. {mempool, refused} \subseteq BOOLEAN
  BY Zenon DEF W!Init
<1>4. /\ queue \in [Pods -> Seq(W!Callers)] /\ lock \in W!Callers \cup {NoOne}
      /\ open = [p \in Probes |-> 0] /\ slips \in 0..MaxSlips
  BY DEF W!Init, WalletAssumption
<1>5. Queued
  BY <1>2 DEF Queued, InTurn
<1>6. \A p \in Probes : FewOpenAt(p)
  <2> SUFFICES ASSUME NEW p \in Probes PROVE FewOpenAt(p)
    OBVIOUS
  <2>1. p \in W!Callers /\ TxRetries \in Nat
    BY DEF W!Callers, WalletAssumption
  <2>2. call[p].try \in 1..TxRetries /\ Runs(p) = 0 /\ open[p] = 0
    BY <1>2, <1>4, <2>1 DEF CallRecord, Runs
  <2> QED
    BY <2>1, <2>2 DEF FewOpenAt
<1>7. DOMAIN open = Probes /\ open = [p \in Probes |-> open[p]]
  BY <1>4
<1> QED
  BY <1>2, <1>3, <1>4, <1>5, <1>6, <1>7, Zenon DEF WalletInv, WalletTypes

LEMMA WalletNext == WalletAssumption /\ WalletInv /\ [W!Next]_wvars => WalletInv'
BY GoSteps, CallSteps, Commands, CreatedInv, Idles DEF W!Next, W!Step

\* Without a failure: a probe holds the lock around its command, runs it once,
\* and its last answer says whether its deployment is there.
Later == {"back", "settle", "answer", "done"}
Closes(c) ==
  /\ call[c].op \in {"create", "close"} /\ call[c].got # "error" /\ call[c].pc # "threw" /\ c \notin Again
  /\ call[c].pc \in {"read", "cast", "back"} => lock = c
  /\ call[c].pc \in Later => call[c].got \in {"ok", "mismatch"}
  /\ call[c].got = "ok" => call[c].pc \in Later
  /\ call[c].op = "create" => open[c] = IF call[c].got = "ok" THEN 1 ELSE 0
  /\ call[c].op = "close"  => open[c] = IF call[c].got = "ok" THEN 0 ELSE 1
  /\ call[c].pc = "done" => \/ call[c].got = "ok" /\ call[c].op = "close"
                            \/ call[c].got = "mismatch" /\ call[c].try = TxRetries
Unslipped == slips = 0 => \A c \in Probes : Closes(c)

Kept(c) ==
  /\ call'[c].pc = call[c].pc /\ call'[c].op = call[c].op /\ call'[c].try = call[c].try
  /\ call'[c].got = call[c].got /\ (c \in Again' <=> c \in Again) /\ open'[c] = open[c]
  /\ lock = c => lock' = c

LEMMA KeptCloses == ASSUME NEW c, Kept(c), Closes(c) PROVE Closes(c)'
BY DEF Kept, Closes

\* What others send is nothing to a probe.
LEMMA OthersSend ==
  ASSUME WalletAssumption, WalletInv, NEW c \in W!Callers, NEW d \in Probes \ {c},
         NEW pc, NEW got, W!Accept(c, pc, got)
  PROVE  /\ call'[d].pc = call[d].pc /\ call'[d].op = call[d].op /\ call'[d].try = call[d].try
         /\ call'[d].got = call[d].got /\ (d \in Again' <=> d \in Again) /\ open'[d] = open[d]
<1> DEFINE flag == call[d].fresh /\ call[d].pc # "cast"
<1>1. d \in W!Callers /\ call[d] \in CallRecord
  BY CallOf DEF W!Callers
<1>2. call'[d] = [call[d] EXCEPT !.fresh = flag]
  BY <1>1, Zenon DEF W!Accept
<1> HIDE DEF flag
<1>3. /\ call'[d].pc = call[d].pc /\ call'[d].op = call[d].op /\ call'[d].try = call[d].try
      /\ call'[d].got = call[d].got /\ call'[d].again = call[d].again
  BY <1>1, <1>2 DEF CallRecord
<1>4. d \in Again' <=> d \in Again
  BY <1>1, <1>3, Zenon DEF Again
<1>5. open'[d] = open[d]
  BY DEF W!Accept, W!Effect, WalletInv, WalletTypes
<1> QED
  BY <1>3, <1>4, <1>5

LEMMA Bystands ==
  ASSUME WalletAssumption, WalletInv, NEW c \in W!Callers, NEW d \in Probes \ {c},
         W!Step(c) \/ W!LockFails(c) \/ W!LockExpires(c) \/ W!CommandFails(c) \/ W!DseqUnknown(c)
  PROVE  Kept(d)
<1>1. d \in W!Callers /\ call \in [W!Callers -> CallRecord] /\ d # NoOne
  BY CallOf DEF W!Callers, WalletAssumption
<1>2. lock = d => lock' = d
  BY <1>1 DEF W!Step, W!Call, W!MyTurn, W!Locked, W!LockFails, W!LockExpires, W!ReadSequence, W!Broadcast,
         W!CommandFails, W!Return, W!RunAgain, W!ThrewTwice, W!Settled, W!TryAgain, W!Wake, W!Created,
         W!DseqUnknown, W!End, W!Freed
<1>3. ASSUME call'[d] = call[d], UNCHANGED open PROVE Kept(d)
  <2>1. d \in Again' <=> d \in Again
    BY <1>1, <1>3, Zenon DEF Again
  <2> QED
    BY <1>2, <1>3, <2>1 DEF Kept
<1>4. ASSUME NEW pc, NEW got, W!Accept(c, pc, got) PROVE Kept(d)
  BY <1>2, <1>4, OthersSend DEF Kept
<1>5. CASE W!Call(c) \/ W!MyTurn(c) \/ W!Locked(c) \/ W!LockFails(c) \/ W!LockExpires(c) \/ W!ReadSequence(c)
  BY <1>1, <1>3, <1>5 DEF W!Call, W!MyTurn, W!Locked, W!LockFails, W!LockExpires, W!ReadSequence, W!Go
<1>6. CASE W!Return(c) \/ W!RunAgain(c) \/ W!ThrewTwice(c) \/ W!Settled(c)
  BY <1>1, <1>3, <1>6 DEF W!Return, W!RunAgain, W!ThrewTwice, W!Settled, W!Go
<1>7. CASE W!TryAgain(c) \/ W!Wake(c) \/ W!Created(c) \/ W!DseqUnknown(c) \/ W!End(c)
  BY <1>1, <1>3, <1>7 DEF W!TryAgain, W!Wake, W!Created, W!DseqUnknown, W!End, W!Go
<1>8. CASE W!Broadcast(c)
  BY <1>1, <1>3, <1>4, <1>8 DEF W!Broadcast
<1>9. CASE W!CommandFails(c)
  BY <1>1, <1>3, <1>4, <1>9 DEF W!CommandFails
<1> QED
  BY <1>5, <1>6, <1>7, <1>8, <1>9 DEF W!Step

\* A probe's own steps, when nothing fails.
LEMMA ProbeGoes ==
  ASSUME WalletAssumption, WalletInv, NEW c \in Probes, NEW pc, W!Go(c, pc), UNCHANGED open
  PROVE  /\ call'[c].pc = pc /\ call'[c].op = call[c].op /\ call'[c].try = call[c].try
         /\ call'[c].got = call[c].got /\ (c \in Again' <=> c \in Again) /\ open'[c] = open[c]
<1>1. c \in W!Callers /\ call \in [W!Callers -> CallRecord] /\ call[c] \in CallRecord
  BY CallOf DEF W!Callers
<1>2. call'[c] = [call[c] EXCEPT !.pc = pc]
  BY <1>1 DEF W!Go
<1>3. /\ call'[c].pc = pc /\ call'[c].op = call[c].op /\ call'[c].try = call[c].try
      /\ call'[c].got = call[c].got /\ call'[c].again = call[c].again
  BY <1>1, <1>2 DEF CallRecord
<1>4. c \in Again' <=> c \in Again
  BY <1>1, <1>3, Zenon DEF Again
<1> QED
  BY <1>3, <1>4

LEMMA ProbeSteps ==
  ASSUME WalletAssumption, WalletInv, NEW c \in Probes, Closes(c), W!Step(c)
  PROVE  Closes(c)'
<1>1. /\ c \in W!Callers /\ call \in [W!Callers -> CallRecord] /\ call[c] \in CallRecord
      /\ {TRUE, FALSE, ~mempool} \subseteq Flags /\ call[c].again \in Flags /\ call[c].got \in Gots
      /\ c \in Again <=> call[c].again
  <2>1. c \in W!Callers
    BY DEF W!Callers
  <2> QED
    BY <2>1, CallOf, Zenon DEF Again
<1>2. CASE W!MyTurn(c) \/ W!Locked(c) \/ W!Return(c) \/ W!Settled(c) \/ W!Wake(c) \/ W!End(c)
  <2>1. PICK pc : W!Go(c, pc) /\ UNCHANGED open
                  /\ \/ pc = "lock" /\ call[c].pc = "queued"
                     \/ pc = "read" /\ call[c].pc = "lock" /\ lock' = c
                     \/ pc = "settle" /\ call[c].pc = "back"
                     \/ pc = "answer" /\ call[c].pc = "settle"
                     \/ pc = "ready" /\ call[c].pc = "sleep"
                     \/ /\ pc = "done" /\ call[c].pc = "answer"
                        /\ call[c].got = "ok" => call[c].op = "close"
                        /\ W!Retriable(c) => call[c].try = TxRetries
    BY <1>2 DEF W!MyTurn, W!Locked, W!Return, W!Settled, W!Wake, W!End, W!At
  <2>2. /\ call'[c].pc = pc /\ call'[c].op = call[c].op /\ call'[c].try = call[c].try
        /\ call'[c].got = call[c].got /\ (c \in Again' <=> c \in Again) /\ open'[c] = open[c]
    BY <2>1, ProbeGoes
  <2> QED
    BY <2>1, <2>2 DEF Closes, Later, W!Retriable
<1>3. ~W!RunAgain(c) /\ ~W!ThrewTwice(c)
  BY <1>1 DEF W!RunAgain, W!ThrewTwice, W!At, Closes
<1>4. CASE W!Call(c)
  <2> DEFINE new == [call[c] EXCEPT !.pc = "queued", !.again = FALSE]
  <2>1. /\ new.pc = "queued" /\ new.op = call[c].op /\ new.try = call[c].try /\ new.got = call[c].got
        /\ new.again = FALSE
    BY <1>1 DEF CallRecord
  <2>2. call' = [call EXCEPT ![c] = new] /\ UNCHANGED <<lock, open>> /\ call[c].pc = "ready"
    BY <1>1, <1>4 DEF W!Call, W!At
  <2> HIDE DEF new
  <2>3. call'[c] = new /\ c \notin Again'
    BY <1>1, <2>1, <2>2, SecondTime
  <2> QED
    BY <2>1, <2>2, <2>3 DEF Closes, Later
<1>5. CASE W!ReadSequence(c)
  <2> DEFINE new == [call[c] EXCEPT !.pc = "cast", !.fresh = ~mempool]
  <2>1. /\ new.pc = "cast" /\ new.op = call[c].op /\ new.try = call[c].try /\ new.got = call[c].got
        /\ new.again = call[c].again
    BY <1>1 DEF CallRecord
  <2>2. call' = [call EXCEPT ![c] = new] /\ UNCHANGED <<lock, open>> /\ call[c].pc = "read"
    BY <1>1, <1>5 DEF W!ReadSequence, W!At
  <2> HIDE DEF new
  <2>3. call'[c] = new /\ (c \in Again' <=> c \in Again)
    BY <1>1, <2>1, <2>2, SecondTime, Zenon
  <2> QED
    BY <2>1, <2>2, <2>3 DEF Closes, Later
<1>6. CASE W!TryAgain(c)
  <2> DEFINE new == [call[c] EXCEPT !.pc = "sleep", !.try = call[c].try + 1, !.fresh = ~mempool]
  <2>1. /\ new.pc = "sleep" /\ new.op = call[c].op /\ new.got = call[c].got /\ new.again = call[c].again
    BY <1>1 DEF CallRecord
  <2>2. call' = [call EXCEPT ![c] = new] /\ UNCHANGED <<lock, open>> /\ call[c].got # "ok"
    BY <1>1, <1>6 DEF W!TryAgain, W!At, W!Retriable
  <2> HIDE DEF new
  <2>3. call'[c] = new /\ (c \in Again' <=> c \in Again)
    BY <1>1, <2>1, <2>2, SecondTime, Zenon
  <2> QED
    BY <2>1, <2>2, <2>3 DEF Closes, Later
<1>7. CASE W!Created(c)
  <2> DEFINE new == [W!Fresh(c) EXCEPT !.op = "close", !.pc = "sleep", !.fresh = ~mempool]
  <2>1. new.pc = "sleep" /\ new.op = "close" /\ new.got = "none" /\ new.again = FALSE
    BY DEF W!Fresh
  <2>2. /\ call' = [call EXCEPT ![c] = new] /\ UNCHANGED <<lock, open>>
        /\ call[c].got = "ok" /\ call[c].op = "create"
    BY <1>7 DEF W!Created
  <2> HIDE DEF new
  <2>3. call'[c] = new /\ c \notin Again'
    BY <1>1, <2>1, <2>2, SecondTime
  <2> QED
    BY <2>1, <2>2, <2>3 DEF Closes, Later
<1>8. CASE W!Broadcast(c)
  <2>1. call[c].pc = "cast" /\ UNCHANGED lock /\ call[c].got # "ok"
    BY <1>8 DEF W!Broadcast, W!At, Closes, Later
  <2>2. CASE W!Accept(c, "back", "ok")
    <3>1. /\ (c \in Again' <=> c \in Again) /\ call'[c].pc = "back" /\ call'[c].op = call[c].op
          /\ call'[c].try = call[c].try
      BY <1>1, <2>2, Accepted DEF Gots
    <3>2. call'[c].got = "ok"
      <4>1. call'[c] = [call[c] EXCEPT !.pc = "back", !.got = "ok", !.fresh = FALSE]
        BY <1>1, <2>2, Zenon DEF W!Accept
      <4> QED
        BY <1>1, <4>1 DEF CallRecord
    <3>3. open'[c] = IF call[c].op = "create" THEN 1 ELSE 0
      BY <2>1, <2>2 DEF W!Accept, W!Effect, WalletInv, WalletTypes, Closes
    <3> QED
      BY <2>1, <3>1, <3>2, <3>3 DEF Closes, Later
  <2>3. CASE call' = [call EXCEPT ![c].pc = "back", ![c].got = "mismatch"] /\ UNCHANGED open
    <3> DEFINE new == [call[c] EXCEPT !.pc = "back", !.got = "mismatch"]
    <3>1. /\ new.pc = "back" /\ new.op = call[c].op /\ new.try = call[c].try /\ new.got = "mismatch"
          /\ new.again = call[c].again
      BY <1>1 DEF CallRecord
    <3>2. call' = [call EXCEPT ![c] = new]
      BY <1>1, <2>3
    <3> HIDE DEF new
    <3>3. call'[c] = new /\ (c \in Again' <=> c \in Again)
      BY <1>1, <3>1, <3>2, SecondTime, Zenon
    <3> QED
      BY <2>1, <2>3, <3>1, <3>3 DEF Closes, Later
  <2> QED
    BY <1>8, <2>2, <2>3 DEF W!Broadcast
<1> QED
  BY <1>2, <1>3, <1>4, <1>5, <1>6, <1>7, <1>8 DEF W!Step

LEMMA UnslippedInit == WalletAssumption /\ W!Init => Unslipped
<1> SUFFICES ASSUME WalletAssumption, W!Init, NEW c \in Probes PROVE Closes(c)
  BY DEF Unslipped
<1>1. c \in W!Callers /\ call[c] = W!Fresh(c) /\ open[c] = 0
  BY DEF W!Init, W!Callers
<1>2. call[c].pc = "ready" /\ call[c].op = "create" /\ call[c].got = "none" /\ call[c].again = FALSE
  BY <1>1 DEF W!Fresh
<1>3. c \notin Again
  BY <1>2 DEF Again
<1> QED
  BY <1>1, <1>2, <1>3 DEF Closes, Later

LEMMA UnslippedNext == WalletAssumption /\ WalletInv /\ Unslipped /\ [W!Next]_wvars => Unslipped'
<1> SUFFICES ASSUME WalletAssumption, WalletInv, Unslipped, [W!Next]_wvars, slips' = 0, NEW c \in Probes
             PROVE  Closes(c)'
  BY DEF Unslipped
<1>1. slips \in Nat /\ c \in W!Callers
  BY DEF WalletInv, WalletTypes, W!Callers
<1>2. CASE UNCHANGED wvars
  <2>1. Kept(c) /\ slips = 0
    BY <1>1, <1>2 DEF wvars, Kept, Again
  <2> QED
    BY <2>1, KeptCloses DEF Unslipped
<1>3. CASE W!Block
  <2>1. call'[c] = [call[c] EXCEPT !.fresh = (call[c].fresh \/ call[c].pc = "sleep")]
    BY <1>1, <1>3, Zenon DEF W!Block
  <2>2. call[c] \in CallRecord
    BY <1>1, CallOf
  <2> DEFINE flag == call[c].fresh \/ call[c].pc = "sleep"
  <2>3. call'[c] = [call[c] EXCEPT !.fresh = flag]
    BY <2>1
  <2> HIDE DEF flag
  <2>4. /\ call'[c].pc = call[c].pc /\ call'[c].op = call[c].op /\ call'[c].try = call[c].try
        /\ call'[c].got = call[c].got /\ call'[c].again = call[c].again
    BY <2>2, <2>3 DEF CallRecord
  <2>5. c \in Again' <=> c \in Again
    BY <1>1, <2>4, Zenon DEF Again
  <2>6. Kept(c) /\ slips = 0
    BY <1>3, <2>4, <2>5 DEF Kept, W!Block
  <2> QED
    BY <2>6, KeptCloses DEF Unslipped
<1>4. ASSUME NEW d \in W!Callers,
             W!Step(d) \/ W!LockFails(d) \/ W!LockExpires(d) \/ W!CommandFails(d) \/ W!DseqUnknown(d)
      PROVE  Closes(c)'
  <2>1. ~W!Slip
    BY <1>1 DEF W!Slip
  <2>2. W!Step(d)
    BY <1>4, <2>1 DEF W!LockFails, W!LockExpires, W!CommandFails, W!DseqUnknown
  <2>3. slips = 0
    BY <2>2 DEF W!Step, W!Call, W!MyTurn, W!Locked, W!ReadSequence, W!Broadcast, W!Return, W!RunAgain,
           W!ThrewTwice, W!Settled, W!TryAgain, W!Wake, W!Created, W!End
  <2>4. Closes(c)
    BY <2>3 DEF Unslipped
  <2>5. CASE d = c
    BY <2>2, <2>4, <2>5, ProbeSteps
  <2>6. CASE d # c
    BY <1>4, <2>4, <2>6, Bystands, KeptCloses
  <2> QED
    BY <2>5, <2>6
<1> QED
  BY <1>2, <1>3, <1>4 DEF W!Next

LEMMA UnslippedCloses == Unslipped => W!ProbesCloseWhatTheyOpen
<1> SUFFICES ASSUME NEW c \in Probes, call[c].pc = "done", Closes(c), ~W!GaveUp(c) PROVE open[c] = 0
  BY Zenon DEF Unslipped, W!ProbesCloseWhatTheyOpen, W!At
<1> QED
  BY DEF Closes, W!GaveUp

-----------------------------------------------------------------------------
(* Runway *)

\* Products, by a name: the arithmetic below is linear in them.
Times(a, b) == a * b

LEMMA Products ==
  ASSUME NEW a \in Int, NEW b \in Int, NEW c \in Int
  PROVE  /\ Times(a, c) \in Int /\ Times(0, c) = 0 /\ Times(a + 1, c) = Times(a, c) + c
         /\ Times(a + b, c) = Times(a, c) + Times(b, c)
BY DEF Times

LEMMA Grows ==
  ASSUME NEW a \in Int, NEW b \in Int, NEW c \in Nat, a <= b
  PROVE  Times(a, c) <= Times(b, c)
BY DEF Times

\* The monitor's time; ticks into the hour; ticks since the cycle or the monitor.
Half  == Hour \div 2
Into  == now % Hour
Since == IF Into < Half THEN Into ELSE Into - Half
Last  == MaxHours * Hour

\* What half an hour costs, and what the code takes it to cost.
HalfCost  == Times(Half, price)
HalfWorth == Times(Half, Ppb)
SinceCost == Times(Since, price)

Dues == {"nothing", "cycle", "top-up", "monitor", "refill", "close"}
RunwayTypes ==
  /\ now \in 0..Last /\ price \in Prices /\ deposit \in Deposits
  /\ account \in [settled : Nat, at : 0..Last]
  /\ chain \in {"open", "dry", "closed"}
  /\ phase \in {"CREATING_LEASE", "DEPLOYING", "ACTIVE", "CLOSED"}
  /\ billedTo \in 0..Last /\ due \in Dues
  /\ misses \in 0..MaxMiss /\ streaks \in 0..MaxMiss /\ worst \in 0..MaxMiss
  /\ {thin} \subseteq BOOLEAN

\* The deployment before it is ACTIVE.
Beginning ==
  /\ phase \in {"CREATING_LEASE", "DEPLOYING"} =>
       chain = "open" /\ account.at = now /\ now < Hour /\ billedTo = 0
  /\ phase = "CREATING_LEASE" => account.settled = deposit
  /\ due # "nothing" => phase = "ACTIVE"

\* When cycle and monitor run, and what was billed by then.
Timetable ==
  /\ due \in {"cycle", "top-up"}     => Into = 0 /\ now >= Hour
  /\ due \in {"monitor", "refill"}   => Into = Half
  /\ due = "refill" => chain = "open"
  /\ phase = "ACTIVE" /\ due = "cycle" => now = Hour \/ billedTo <= now - Hour
  /\ phase = "ACTIVE" /\ due # "cycle" => now < Hour \/ billedTo <= now - Into

RunwayInv ==
  /\ RunwayTypes /\ Beginning /\ Timetable
  /\ account.at <= now /\ billedTo <= now /\ streaks <= worst /\ worst <= misses
  /\ chain = "open" => R!Balance >= 0

LEMMA HourSizes ==
  ASSUME RunwayAssumption
  PROVE  Half \in Nat \ {0} /\ Hour = 2 * Half /\ Hour \in Nat \ {0} /\ Last \in Nat /\ Hour <= Last
BY DEF RunwayAssumption, Half, Last

LEMMA RunwayTyped == RunwayAssumption /\ RunwayInv => R!TypeOK
<1> SUFFICES ASSUME RunwayAssumption, RunwayInv PROVE R!TypeOK
  OBVIOUS
<1>1. thin \in BOOLEAN
  BY Zenon DEF RunwayInv, RunwayTypes
<1> QED
  BY <1>1, Zenon DEF RunwayInv, RunwayTypes, R!TypeOK, Last, Dues

LEMMA NextRemainder ==
  ASSUME NEW n \in Nat, NEW size \in Nat \ {0}
  PROVE  (n + 1) % size = IF (n % size) = size - 1 THEN 0 ELSE (n % size) + 1
<1> DEFINE a == n % size
           b == (n + 1) % size
           k == (n + 1) \div size - n \div size
<1>1. /\ a \in 0 .. size - 1 /\ b \in 0 .. size - 1
      /\ n = size * (n \div size) + a /\ n + 1 = size * ((n + 1) \div size) + b
      /\ n \div size \in Int /\ (n + 1) \div size \in Int
  OBVIOUS
<1>2. size * k = size * ((n + 1) \div size) - size * (n \div size) /\ k \in Int
  BY <1>1
<1>3. size * ((n + 1) \div size) \in Int /\ size * (n \div size) \in Int
  BY <1>1
<1> HIDE DEF a, b, k
<1>4. size * k = a + 1 - b
  BY <1>1, <1>2, <1>3
<1>5. k >= 1 => size * k >= size
  BY <1>2
<1>6. k <= -1 => size * k <= -size
  BY <1>2
<1>7. k = 0 => size * k = 0
  OBVIOUS
<1>8. b = IF a = size - 1 THEN 0 ELSE a + 1
  BY <1>1, <1>2, <1>4, <1>5, <1>6, <1>7
<1> QED
  BY <1>8 DEF a, b

LEMMA IntoHour ==
  ASSUME RunwayAssumption, now \in Nat
  PROVE  /\ Into \in 0 .. Hour - 1 /\ Since \in 0 .. Half - 1
         /\ now < Hour => Into = now
         /\ now = Hour => Into = 0
<1>1. Into \in 0 .. Hour - 1 /\ (now < Hour => Into = now) /\ (now = Hour => Into = 0)
  BY DEF Into, RunwayAssumption
<1> QED
  BY <1>1, HourSizes DEF Since

\* A tick, in the hour.
LEMMA HourGoes ==
  ASSUME RunwayAssumption, now \in Nat, now' = now + 1
  PROVE  /\ Into' = IF Into = Hour - 1 THEN 0 ELSE Into + 1
         /\ Into' \in {0, Half} => Since + 1 = Half /\ Since' = 0
         /\ Into' \notin {0, Half} => Since' = Since + 1
         /\ Into' = Half => Into < Half
         /\ Into' # Half /\ Into' # 0 => (Into' < Half <=> Into < Half)
         /\ Into' = 0 => Into >= Half /\ now' >= Hour /\ now - Into = now' - Hour
         /\ now' < Hour => now < Hour
<1>1. Into' = IF Into = Hour - 1 THEN 0 ELSE Into + 1
  BY NextRemainder, HourSizes DEF Into
<1>2. /\ Into \in 0 .. Hour - 1 /\ Hour = 2 * Half /\ Half \in Nat \ {0}
      /\ now < Hour => Into = now
  BY IntoHour, HourSizes
<1>3. Since' = IF Into' < Half THEN Into' ELSE Into' - Half
  BY DEF Since, Half
<1> QED
  BY <1>1, <1>2, <1>3 DEF Since

LEMMA Sums ==
  ASSUME RunwayAssumption, RunwayInv
  PROVE  /\ {HalfCost, HalfWorth, SinceCost, R!Balance} \subseteq Int
         /\ Times(Hour, price) = 2 * HalfCost /\ Times(Hour, Ppb) = 2 * HalfWorth
         /\ HalfCost >= 0 /\ HalfWorth >= 0 /\ SinceCost >= 0 /\ price \in Nat
         /\ SinceCost + price <= HalfCost
         /\ Since + 1 = Half => SinceCost + price = HalfCost
         /\ Into \in {0, Half} => SinceCost = 0
         /\ {0, Half, Hour, Since} \subseteq Nat /\ Hour = Half + Half /\ Half > 0
<1>1. /\ now \in Nat /\ price \in Nat /\ Ppb \in Nat /\ account.settled \in Int /\ account.at \in Int
  BY HourSizes DEF RunwayInv, RunwayTypes, RunwayAssumption
<1>2. /\ Half \in Nat \ {0} /\ Hour = Half + Half /\ Since \in 0 .. Half - 1
  BY <1>1, HourSizes, IntoHour
<1>3. Times(Hour, price) = HalfCost + HalfCost /\ Times(Hour, Ppb) = HalfWorth + HalfWorth
  <2>1. /\ Half \in Int /\ price \in Int /\ Ppb \in Int
        /\ Times(Hour, price) = Times(Half + Half, price) /\ Times(Hour, Ppb) = Times(Half + Half, Ppb)
    BY <1>1, <1>2
  <2> QED
    BY <2>1, Products DEF HalfCost, HalfWorth
<1>4. /\ Times(Since + 1, price) = SinceCost + price /\ Times(Since + 1, price) <= HalfCost
      /\ Times(0, price) = 0 /\ 0 <= HalfWorth /\ 0 <= SinceCost /\ 0 <= HalfCost
      /\ {HalfCost, HalfWorth, SinceCost} \subseteq Int
  <2>1. /\ Times(Since + 1, price) = SinceCost + price /\ Times(0, price) = 0 /\ Times(0, Ppb) = 0
        /\ {HalfCost, HalfWorth, SinceCost} \subseteq Int
    <3>1. {Half, Since, price, Ppb, 0} \subseteq Int
      BY <1>1, <1>2
    <3>2. /\ Times(Since, price) \in Int /\ Times(Since + 1, price) = Times(Since, price) + price
          /\ Times(0, price) = 0
      BY <3>1, Products
    <3>3. Times(Half, price) \in Int
      BY <3>1, Products
    <3>4. Times(Half, Ppb) \in Int /\ Times(0, Ppb) = 0
      BY <3>1, Products
    <3> QED
      BY <3>2, <3>3, <3>4 DEF HalfCost, HalfWorth, SinceCost
  <2>2. Since + 1 <= Half /\ 0 <= Half /\ 0 <= Since /\ {0, Half, Since, Since + 1} \subseteq Int
    BY <1>2
  <2>3. Times(Since + 1, price) <= Times(Half, price)
    BY <1>1, <2>2, Grows
  <2>4. Times(0, Ppb) <= Times(Half, Ppb) /\ Times(0, price) <= Times(Half, price)
        /\ Times(0, price) <= Times(Since, price)
    BY <1>1, <2>2, Grows
  <2> QED
    BY <2>1, <2>3, <2>4 DEF HalfCost, HalfWorth, SinceCost
<1>5. R!Balance \in Int
  BY <1>1 DEF R!Balance
<1>6. Into \in {0, Half} => Since = 0
  BY <1>2 DEF Since
<1>7. Since + 1 = Half => SinceCost + price = HalfCost
  BY <1>4 DEF HalfCost
<1>8. Into \in {0, Half} => SinceCost = 0
  BY <1>4, <1>6 DEF SinceCost
<1> QED
  BY <1>1, <1>2, <1>3, <1>4, <1>5, <1>7, <1>8

\* What a step makes of the balance.
LEMMA BalanceTypes ==
  ASSUME RunwayAssumption, RunwayInv
  PROVE  /\ now \in Nat /\ price \in Nat /\ account.settled \in Nat /\ account.at \in Nat
         /\ account.at <= now /\ R!Balance \in Int
BY HourSizes, Sums DEF RunwayInv, RunwayTypes, RunwayAssumption

LEMMA BalanceKept ==
  ASSUME UNCHANGED <<now, account, price>>
  PROVE  R!Balance' = R!Balance
BY DEF R!Balance

LEMMA BalancePaid ==
  ASSUME RunwayAssumption, RunwayInv, UNCHANGED <<now, price>>, NEW amount \in Int, R!PayIn(amount)
  PROVE  /\ R!Balance' = R!Balance + amount
         /\ account' = [settled |-> R!Balance + amount, at |-> now]
<1>1. account'.settled = R!Balance + amount /\ account'.at = now
  BY DEF R!PayIn
<1>2. R!Balance' = account'.settled - (now' - account'.at) * price'
  BY DEF R!Balance
<1>3. account' = [settled |-> R!Balance + amount, at |-> now]
  BY DEF R!PayIn
<1> HIDE DEF R!Balance
<1> QED
  BY <1>1, <1>2, <1>3, BalanceTypes

LEMMA BalanceTicks ==
  ASSUME RunwayAssumption, RunwayInv, UNCHANGED <<account, price>>, now' = now + 1
  PROVE  R!Balance' = R!Balance - price
<1> DEFINE gone == now - account.at
<1>1. gone \in Int /\ price \in Int /\ account.settled \in Int /\ now' - account'.at = gone + 1
  BY BalanceTypes
<1>2. R!Balance = account.settled - Times(gone, price)
      /\ R!Balance' = account.settled - Times(now' - account'.at, price)
  BY DEF R!Balance, Times
<1> HIDE DEF gone
<1>3. Times(gone + 1, price) = Times(gone, price) + price /\ Times(gone, price) \in Int
  BY <1>1, Products
<1> QED
  BY <1>1, <1>2, <1>3

-----------------------------------------------------------------------------
LEMMA RunwayInit == RunwayAssumption /\ R!Init => RunwayInv
<1> SUFFICES ASSUME RunwayAssumption, R!Init PROVE RunwayInv
  OBVIOUS
<1>1. /\ now \in 0..Last /\ now < Hour /\ price \in Prices /\ deposit \in Deposits /\ deposit \in Nat
      /\ price \in Nat
  BY HourSizes DEF R!Init, RunwayAssumption
<1>2. {thin} \subseteq BOOLEAN
  BY Zenon DEF R!Init
<1>3. /\ account = [settled |-> deposit, at |-> now] /\ chain = "open" /\ phase = "CREATING_LEASE"
      /\ billedTo = 0 /\ due = "nothing" /\ misses = 0 /\ streaks = 0 /\ worst = 0
  BY DEF R!Init
<1>4. RunwayTypes
  BY <1>1, <1>2, <1>3, HourSizes DEF RunwayTypes, Dues, RunwayAssumption
<1>5. R!Balance >= 0
  BY <1>1, <1>3 DEF R!Balance
<1> QED
  BY <1>1, <1>3, <1>4, <1>5 DEF RunwayInv, Beginning, Timetable

\* Failures are counted.
LEMMA Counted ==
  ASSUME RunwayAssumption, RunwayInv, R!Went(TRUE) \/ R!Went(FALSE) \/ UNCHANGED <<misses, streaks, worst>>
  PROVE  /\ {misses', streaks', worst'} \subseteq 0..MaxMiss
         /\ streaks' <= worst' /\ worst' <= misses'
BY DEF R!Went, RunwayInv, RunwayTypes, RunwayAssumption


\* What is due is done: the clock stands.
LEMMA DueKept ==
  ASSUME RunwayAssumption, RunwayInv, due # "nothing",
         UNCHANGED <<now, price, deposit, thin>>,
         account' = account \/ (chain = "open" /\ \E amount \in Nat : R!PayIn(amount)),
         chain' = chain \/ chain' = "closed",
         phase' = "ACTIVE" \/ (phase' = "CLOSED" /\ due' = "nothing"),
         due' \in {"nothing", "top-up", "refill", "close"},
         due' = "top-up" => due = "cycle",
         due' = "refill" => due = "monitor" /\ chain' = "open",
         billedTo' = billedTo \/ (due = "cycle" /\ billedTo' \in 0..now),
         {misses', streaks', worst'} \subseteq 0..MaxMiss, streaks' <= worst', worst' <= misses'
  PROVE  RunwayInv'
<1>1. /\ phase = "ACTIVE" /\ RunwayTypes /\ Timetable
      /\ billedTo <= now
      /\ chain = "open" => R!Balance >= 0
  BY DEF RunwayInv, Beginning
<1>2. Last \in Nat /\ now \in 0..Last /\ now \in Nat /\ Into \in Nat /\ Into' = Into /\ Last' = Last
  BY <1>1, HourSizes, IntoHour DEF RunwayTypes, Into, Last
<1>3. /\ account' \in [settled : Nat, at : 0..Last] /\ account'.at <= now'
      /\ chain' = "open" => R!Balance' >= 0
  <2>1. CASE account' = account
    BY <1>1, <2>1, BalanceKept DEF RunwayInv, RunwayTypes
  <2>2. CASE chain = "open" /\ \E amount \in Nat : R!PayIn(amount)
    <3>1. PICK amount \in Nat : R!PayIn(amount)
      BY <2>2
    <3>2. R!Balance \in Int /\ R!Balance >= 0
      BY <2>2, BalanceTypes DEF RunwayInv
    <3>3. R!Balance' = R!Balance + amount /\ account' = [settled |-> R!Balance + amount, at |-> now]
      BY <3>1, BalancePaid
    <3> HIDE DEF R!Balance
    <3> QED
      BY <1>2, <3>2, <3>3
  <2> QED
    BY <2>1, <2>2
<1>4. billedTo' \in 0..Last /\ billedTo' <= now'
  BY <1>1, <1>2 DEF RunwayTypes
<1>5. {thin'} \subseteq BOOLEAN
  BY <1>1, Zenon DEF RunwayTypes
<1>6. chain' \in {"open", "dry", "closed"}
  BY <1>1 DEF RunwayTypes
<1>7. RunwayTypes'
  BY <1>1, <1>2, <1>3, <1>4, <1>5, <1>6 DEF RunwayTypes, Dues
<1>8. Beginning'
  BY DEF Beginning
<1>9. Timetable'
  <2>1. due' # "cycle" /\ Half' = Half
    BY DEF Half
  <2>2. now < Hour \/ billedTo' <= now - Into
    BY <1>1, <1>2 DEF Timetable, RunwayTypes
  <2> QED
    BY <1>1, <1>2, <2>1, <2>2 DEF Timetable
<1> QED
  BY <1>3, <1>4, <1>7, <1>8, <1>9 DEF RunwayInv

\* What a failed or a successful run changes.
LEMMA DueInv ==
  ASSUME RunwayAssumption, RunwayInv,
         \/ R!TooSoon \/ R!Bill \/ R!TopUp \/ R!MissCycle \/ R!MonitorReads
         \/ R!MissMonitor \/ R!Refill \/ R!MonitorCloses
  PROVE  RunwayInv'
<1>1. /\ Ppb * Hour \in Nat /\ MinRefill \in Nat /\ Hour \in Nat \ {0} /\ Ppb \in Nat
  BY DEF RunwayAssumption
<1>2. /\ due # "nothing" => phase = "ACTIVE"
      /\ due = "refill" => chain = "open"
      /\ billedTo <= now /\ billedTo \in Nat /\ now \in Nat
  BY HourSizes DEF RunwayInv, Beginning, Timetable, RunwayTypes
<1>3. CASE R!TooSoon
  BY <1>2, <1>3, Counted, DueKept DEF R!TooSoon
<1>4. CASE R!Bill
  <2>1. billedTo' \in 0..now
    <3> DEFINE late == now - billedTo
    <3>1. late \in Nat /\ billedTo' = billedTo + (late \div Hour) * Hour
      BY <1>2, <1>4 DEF R!Bill
    <3> HIDE DEF late
    <3>2. (late \div Hour) * Hour \in Nat /\ (late \div Hour) * Hour <= late
      BY <1>1, <3>1
    <3>3. billedTo + late = now
      BY <1>2 DEF late
    <3> HIDE DEF late
    <3> QED
      BY <1>2, <3>1, <3>2, <3>3
  <2> QED
    BY <1>2, <1>4, <2>1, Counted, DueKept DEF R!Bill
<1>5. CASE R!TopUp
  <2>1. R!Went(TRUE) \/ R!Went(FALSE)
    BY <1>5, Zenon DEF R!TopUp
  <2>2. account' = account \/ (chain = "open" /\ \E amount \in Nat : R!PayIn(amount))
    BY <1>1, <1>5, Zenon DEF R!TopUp
  <2> QED
    BY <1>2, <1>5, <2>1, <2>2, Counted, DueKept DEF R!TopUp
<1>6. CASE R!MissCycle \/ R!MissMonitor
  BY <1>2, <1>6, Counted, DueKept DEF R!MissCycle, R!MissMonitor
<1>7. CASE R!MonitorReads
  <2>1. R!Went(TRUE) \/ R!Went(FALSE) \/ UNCHANGED <<misses, streaks, worst>>
    BY <1>7, Zenon DEF R!MonitorReads
  <2> QED
    BY <1>2, <1>7, <2>1, Counted, DueKept DEF R!MonitorReads
<1>8. CASE R!Refill
  <2>1. R!Went(TRUE) \/ R!Went(FALSE)
    BY <1>8, Zenon DEF R!Refill
  <2>2. (IF Ppb * Hour > MinRefill THEN Ppb * Hour ELSE MinRefill) \in Nat
    BY <1>1
  <2>3. account' = account \/ (chain = "open" /\ \E amount \in Nat : R!PayIn(amount))
    BY <1>2, <1>8, <2>2, Zenon DEF R!Refill
  <2> QED
    BY <1>2, <1>8, <2>1, <2>3, Counted, DueKept DEF R!Refill
<1>9. CASE R!MonitorCloses
  BY <1>2, <1>9, Counted, DueKept DEF R!MonitorCloses
<1> QED
  BY <1>3, <1>4, <1>5, <1>6, <1>7, <1>8, <1>9

LEMMA StartInv ==
  ASSUME RunwayAssumption, RunwayInv, R!PostLease \/ R!Activate
  PROVE  RunwayInv'
<1>1. /\ phase \in {"CREATING_LEASE", "DEPLOYING"} /\ chain = "open" /\ account.at = now /\ now < Hour
      /\ billedTo = 0 /\ due = "nothing" /\ R!Balance >= 0 /\ R!Balance \in Int /\ RunwayTypes
  BY BalanceTypes DEF R!PostLease, R!Activate, RunwayInv, Beginning
<1>2. Last \in Nat /\ now \in 0..Last /\ now \in Nat /\ Into' = Into /\ Last' = Last /\ Into = now
  <2>1. Last \in Nat /\ now \in 0..Last /\ now \in Nat
    BY <1>1, HourSizes DEF RunwayTypes
  <2>2. Into' = Into /\ Last' = Last
    BY DEF R!PostLease, R!Activate, Into, Last
  <2> QED
    BY <1>1, <2>1, <2>2, IntoHour
<1>3. /\ UNCHANGED <<now, price, deposit, chain, due>> /\ billedTo' \in {0, now}
      /\ phase' \in {"DEPLOYING", "ACTIVE"}
      /\ phase' = "DEPLOYING" => billedTo' = 0
  BY <1>1 DEF R!PostLease, R!Activate
<1>4. account' = account \/ \E amount \in Nat : R!PayIn(amount)
  <2>1. Ppb * Hour * R!PostLeaseHours \in Nat
    BY DEF RunwayAssumption, R!PostLeaseHours
  <2> QED
    BY <2>1, Zenon DEF R!PostLease, R!Activate
<1>5. account' \in [settled : Nat, at : 0..Last] /\ account'.at = now /\ R!Balance' >= 0
  <2>1. CASE account' = account
    BY <1>1, <1>3, <2>1, BalanceKept DEF RunwayTypes
  <2>2. CASE \E amount \in Nat : R!PayIn(amount)
    <3>1. PICK amount \in Nat : R!PayIn(amount)
      BY <2>2
    <3>2. R!Balance' = R!Balance + amount /\ account' = [settled |-> R!Balance + amount, at |-> now]
      BY <1>3, <3>1, BalancePaid
    <3> HIDE DEF R!Balance
    <3> QED
      BY <1>1, <1>2, <3>2
  <2> QED
    BY <1>4, <2>1, <2>2
<1>6. R!Went(TRUE) \/ R!Went(FALSE) \/ UNCHANGED <<misses, streaks, worst>>
  BY Zenon DEF R!PostLease, R!Activate
<1>7. /\ {misses', streaks', worst'} \subseteq 0..MaxMiss /\ streaks' <= worst' /\ worst' <= misses'
  BY <1>6, Counted
<1>8. {thin'} \subseteq BOOLEAN
  BY <1>1, Zenon DEF RunwayTypes, R!PostLease, R!Activate
<1>9. RunwayTypes'
  BY <1>1, <1>2, <1>3, <1>5, <1>7, <1>8 DEF RunwayTypes
<1>10. Beginning'
  BY <1>1, <1>3, <1>5 DEF Beginning
<1>11. Timetable'
  BY <1>1, <1>2, <1>3 DEF Timetable
<1> QED
  BY <1>2, <1>3, <1>5, <1>7, <1>9, <1>10, <1>11 DEF RunwayInv

LEMMA DrainInv ==
  ASSUME RunwayAssumption, RunwayInv, R!Tick
  PROVE  RunwayInv'
<1>1. /\ phase = "ACTIVE" /\ due = "nothing" /\ RunwayTypes /\ account.at <= now /\ billedTo <= now
      /\ now < Last /\ now' = now + 1 /\ Last \in Nat
      /\ UNCHANGED <<price, deposit, phase, billedTo, misses, streaks, worst, thin>>
  BY HourSizes DEF R!Tick, RunwayInv, Last
<1>2. /\ now \in Nat /\ Last' = Last /\ Into \in Nat /\ Half' = Half /\ Half \in Nat \ {0}
  BY <1>1, IntoHour, HourSizes DEF RunwayTypes, Last, Half
<1>3. due' = CASE Into' = 0 -> "cycle" [] Into' = Half -> "monitor" [] OTHER -> "nothing"
  BY DEF R!Tick, Into, Half
<1>4. /\ Into' = 0 => now' >= Hour /\ now - Into = now' - Hour
      /\ Into' # 0 => Into' = Into + 1
      /\ now' < Hour => now < Hour
      /\ now = Hour => Into = 0
      /\ now < Hour => Into = now
      /\ Into \in 0 .. Hour - 1 /\ Into' \in 0 .. Hour - 1 /\ Hour \in Nat
  BY <1>1, <1>2, HourGoes, IntoHour, HourSizes
<1>5. \/ /\ chain = "open" /\ R!Balance - price < 0 /\ chain' = "dry"
         /\ account' = [settled |-> 0, at |-> now]
      \/ /\ ~(chain = "open" /\ R!Balance - price < 0)
         /\ UNCHANGED <<chain, account>>
  BY DEF R!Tick
<1>6. /\ account' \in [settled : Nat, at : 0..Last] /\ account'.at <= now' /\ chain' \in {"open", "dry", "closed"}
      /\ chain' = "open" => R!Balance' >= 0
  <2>1. account' = account => R!Balance' = R!Balance - price
    BY <1>1, BalanceTicks
  <2>2. R!Balance \in Int /\ price \in Int
    BY BalanceTypes
  <2> HIDE DEF R!Balance
  <2> QED
    BY <1>1, <1>2, <1>5, <2>1, <2>2 DEF RunwayTypes
<1>7. {thin'} \subseteq BOOLEAN
  BY <1>1, Zenon DEF RunwayTypes
<1>8. due' \in Dues /\ due' \in {"nothing", "cycle", "monitor"}
  BY <1>3 DEF Dues
<1>9. RunwayTypes'
  BY <1>1, <1>2, <1>6, <1>7, <1>8 DEF RunwayTypes
<1>10. Beginning'
  BY <1>1 DEF Beginning
<1>11. Timetable'
  <2>1. now < Hour \/ billedTo <= now - Into
    BY <1>1 DEF RunwayInv, Timetable
  <2>2. billedTo \in Nat
    BY <1>1 DEF RunwayTypes
  <2>3. due' = "cycle" => now' = Hour \/ billedTo' <= now' - Hour
    BY <1>1, <1>2, <1>3, <1>4, <2>1, <2>2
  <2>4. due' # "cycle" => now' < Hour \/ billedTo' <= now' - Into'
    BY <1>1, <1>2, <1>3, <1>4, <2>1, <2>2
  <2> QED
    BY <1>1, <1>2, <1>3, <1>4, <2>3, <2>4 DEF Timetable
<1> QED
  BY <1>1, <1>2, <1>6, <1>9, <1>10, <1>11 DEF RunwayInv, RunwayTypes

LEMMA RunwayNext == RunwayAssumption /\ RunwayInv /\ [R!Next]_rvars => RunwayInv'
<1> SUFFICES ASSUME RunwayAssumption, RunwayInv, [R!Next]_rvars PROVE RunwayInv'
  OBVIOUS
<1>1. ASSUME UNCHANGED rvars PROVE RunwayInv'
  <2>1. {thin'} \subseteq BOOLEAN
    BY <1>1, Zenon DEF RunwayInv, RunwayTypes, rvars
  <2>2. R!Balance' = R!Balance
    BY <1>1, BalanceKept DEF rvars
  <2>3. Last' = Last /\ Into' = Into /\ Half' = Half
    BY <1>1 DEF Last, Into, Half, rvars
  <2> QED
    BY <1>1, <2>1, <2>2, <2>3 DEF RunwayInv, RunwayTypes, Beginning, Timetable, rvars
<1> QED
  BY <1>1, StartInv, DueInv, DrainInv DEF R!Next

-----------------------------------------------------------------------------
(* With one failure, and a price without a fraction. *)

\* The deposit alone, and less than two hours of it.
Bare == thin /\ deposit < 2 * Hour * price
Steadily == price = Ppb /\ worst <= 1 /\ ~Bare

\* After a success an hour is left, after a failure half an hour; and in the
\* first hour, what is left of two.
Enough ==
  /\ due = "nothing" => R!Balance >= (IF streaks = 0 THEN 2 * HalfCost ELSE HalfCost) - SinceCost
  /\ due \in {"cycle", "top-up", "monitor", "refill"} => R!Balance >= IF streaks = 0 THEN HalfCost ELSE 0
  /\ now < Hour \/ (now = Hour /\ due = "cycle") => R!Balance >= 4 * HalfCost - Times(now - billedTo, price)
Steady ==
  Steadily => /\ chain # "dry"
              /\ phase = "DEPLOYING" => R!Balance >= 4 * HalfCost
              /\ phase = "ACTIVE" /\ chain = "open" => Enough

\* What a step of what is due leaves alone.
LEMMA DueFrame ==
  ASSUME RunwayAssumption, RunwayInv,
         \/ R!TooSoon \/ R!Bill \/ R!TopUp \/ R!MissCycle \/ R!MonitorReads
         \/ R!MissMonitor \/ R!Refill \/ R!MonitorCloses
  PROVE  /\ UNCHANGED <<now, price, deposit, thin>> /\ phase = "ACTIVE" /\ due # "nothing"
         /\ phase' \in {"ACTIVE", "CLOSED"} /\ chain' \in {chain, "closed"}
         /\ worst <= worst' /\ HalfCost' = HalfCost /\ SinceCost' = SinceCost /\ Bare' = Bare
         /\ HalfWorth' = HalfWorth /\ Into' = Into /\ Half' = Half
         /\ due = "cycle" => now >= Hour
         /\ due \in {"cycle", "top-up"} => SinceCost = 0 /\ now >= Hour /\ Into = 0
         /\ due \in {"monitor", "refill"} => SinceCost = 0 /\ Into = Half
         /\ phase' = "ACTIVE" => due # "close"
<1>1. UNCHANGED <<now, price, deposit, thin>> /\ due # "nothing"
  BY DEF R!TooSoon, R!Bill, R!TopUp, R!MissCycle, R!MonitorReads, R!MissMonitor, R!Refill, R!MonitorCloses
<1>2. phase = "ACTIVE" /\ RunwayTypes /\ Timetable
  BY <1>1 DEF RunwayInv, Beginning
<1>3. worst <= worst'
  BY <1>2 DEF R!TooSoon, R!Bill, R!TopUp, R!MissCycle, R!MonitorReads, R!MissMonitor, R!Refill, R!MonitorCloses,
            R!Went, RunwayTypes, RunwayAssumption
<1>4. phase' \in {"ACTIVE", "CLOSED"} /\ chain' \in {chain, "closed"} /\ (phase' = "ACTIVE" => due # "close")
  BY <1>2 DEF R!TooSoon, R!Bill, R!TopUp, R!MissCycle, R!MonitorReads, R!MissMonitor, R!Refill, R!MonitorCloses
<1>5. /\ HalfCost' = HalfCost /\ SinceCost' = SinceCost /\ Bare' = Bare
      /\ HalfWorth' = HalfWorth /\ Into' = Into /\ Half' = Half
  <2>1. Into' = Into /\ Half' = Half
    BY <1>1 DEF Into, Half
  <2>2. Bare' = Bare
    BY <1>1, Zenon DEF Bare
  <2>3. HalfCost' = HalfCost /\ HalfWorth' = HalfWorth
    BY <1>1, <2>1 DEF HalfCost, HalfWorth
  <2>4. Since' = Since
    BY <2>1 DEF Since
  <2>5. SinceCost' = SinceCost
    BY <1>1, <2>4 DEF SinceCost
  <2> QED
    BY <2>1, <2>2, <2>3, <2>5
<1>6. /\ due \in {"cycle", "top-up"} => SinceCost = 0 /\ now >= Hour /\ Into = 0
      /\ due \in {"monitor", "refill"} => SinceCost = 0 /\ Into = Half
  BY <1>2, Sums DEF Timetable
<1> QED
  BY <1>1, <1>2, <1>3, <1>4, <1>5, <1>6

\* What is paid in, in half hours.
LEMMA PaidHours ==
  ASSUME RunwayAssumption, RunwayInv
  PROVE  /\ Ppb * Hour = 2 * HalfWorth /\ Ppb * Hour * R!PostLeaseHours = 4 * HalfWorth
         /\ Hour * Ppb = 2 * HalfWorth /\ Ppb * Hour \in Nat
         /\ 2 * Hour * price = 4 * HalfCost
<1>1. Times(Hour, Ppb) = 2 * HalfWorth /\ Times(Hour, price) = 2 * HalfCost
      /\ HalfWorth \in Int /\ HalfCost \in Int /\ price \in Nat
  BY Sums
<1>2. Hour \in Nat /\ Ppb \in Nat /\ price \in Nat
  BY <1>1 DEF RunwayAssumption
<1>3. Ppb * Hour = Times(Hour, Ppb) /\ Hour * Ppb = Times(Hour, Ppb) /\ Ppb * Hour \in Nat
      /\ 2 * Hour * price = 2 * Times(Hour, price) /\ Ppb * Hour * 2 = 2 * Times(Hour, Ppb)
  BY <1>2 DEF Times
<1> QED
  BY <1>1, <1>3 DEF R!PostLeaseHours

\* The successes and failures of what is due.
LEMMA Outcomes ==
  ASSUME RunwayAssumption, RunwayInv
  PROVE  /\ R!Went(TRUE) => streaks' = 0 /\ worst' = worst
         /\ R!Went(FALSE) => streaks' = streaks + 1 /\ worst' >= streaks' /\ worst' >= 1 /\ streaks' >= 1
         /\ streaks \in Nat /\ worst \in Nat
BY DEF R!Went, RunwayInv, RunwayTypes, RunwayAssumption

\* A payment of what the code takes for an hour, or more.
LEMMA PaysAnHour ==
  ASSUME RunwayAssumption, RunwayInv, NEW amount \in Nat, R!PayIn(amount), amount >= Ppb * Hour,
         UNCHANGED <<now, price>>, chain = "open"
  PROVE  /\ R!Balance' = R!Balance + amount /\ R!Balance' >= R!Balance /\ R!Balance' >= 2 * HalfWorth
         /\ R!Balance' \in Int /\ account'.at = now
<1>1. /\ R!Balance' = R!Balance + amount /\ account' = [settled |-> R!Balance + amount, at |-> now]
      /\ R!Balance \in Int /\ R!Balance >= 0 /\ Ppb * Hour = 2 * HalfWorth /\ HalfWorth \in Int
  BY BalancePaid, BalanceTypes, PaidHours, Sums DEF RunwayInv
<1> HIDE DEF R!Balance
<1> QED
  BY <1>1

\* What is due, as far as the balance goes: a success pays at least an hour, or
\* found that an hour is left; a failure pays nothing.
PaidOrNot ==
  /\ R!Balance' \in Int /\ R!Balance' >= R!Balance
  /\ due' \in {"nothing", "top-up", "refill", "close"}
  /\ due' = "top-up" => due = "cycle" /\ UNCHANGED <<account, streaks, worst>>
  /\ due' = "refill" => due = "monitor" /\ UNCHANGED <<account, streaks, worst>>
  /\ due' = "nothing" /\ phase' = "ACTIVE" =>
       \/ due = "cycle" /\ now - billedTo < Hour /\ UNCHANGED <<account, streaks>>
       \/ streaks' = streaks + 1 /\ worst' >= streaks' /\ UNCHANGED account
       \/ streaks' = 0 /\ due \in {"top-up", "refill"} /\ R!Balance' >= 2 * HalfWorth /\ account'.at = now
       \/ streaks' = 0 /\ due = "monitor" /\ UNCHANGED account /\ ~R!RunsLow
  /\ due # "cycle" => UNCHANGED billedTo

LEMMA PaidInDue ==
  ASSUME RunwayAssumption, RunwayInv, chain = "open",
         \/ R!TooSoon \/ R!Bill \/ R!TopUp \/ R!MissCycle \/ R!MonitorReads
         \/ R!MissMonitor \/ R!Refill \/ R!MonitorCloses
  PROVE  PaidOrNot
<1>1. UNCHANGED <<now, price>>
  BY DueFrame
<1>2. /\ UNCHANGED account => R!Balance' = R!Balance
      /\ R!Balance \in Int
  BY <1>1, BalanceKept, BalanceTypes
<1>3. ASSUME NEW amount \in Nat, R!PayIn(amount), amount >= Ppb * Hour
      PROVE  R!Balance' \in Int /\ R!Balance' >= R!Balance /\ R!Balance' >= 2 * HalfWorth /\ account'.at = now
  BY <1>1, <1>3, PaysAnHour
<1>4. /\ R!Went(TRUE) => streaks' = 0
      /\ R!Went(FALSE) => streaks' = streaks + 1 /\ worst' >= streaks'
  BY Outcomes
<1> HIDE DEF R!Balance
<1>5. CASE R!TopUp
  <2>1. \/ R!PayIn(Ppb * Hour) /\ R!Went(TRUE)
        \/ UNCHANGED account /\ R!Went(FALSE)
    BY <1>5, Zenon DEF R!TopUp
  <2>2. due = "top-up" /\ due' = "nothing" /\ UNCHANGED billedTo
    BY <1>5 DEF R!TopUp
  <2>3. Ppb * Hour \in Nat /\ Ppb * Hour >= Ppb * Hour
    BY PaidHours
  <2>4. \/ streaks' = 0 /\ R!Balance' \in Int /\ R!Balance' >= R!Balance /\ R!Balance' >= 2 * HalfWorth
             /\ account'.at = now
        \/ UNCHANGED account /\ streaks' = streaks + 1 /\ worst' >= streaks'
    BY <1>3, <1>4, <2>1, <2>3
  <2> QED
    BY <1>2, <2>2, <2>4 DEF PaidOrNot
<1>6. CASE R!Refill
  <2> DEFINE amount == IF Ppb * Hour > MinRefill THEN Ppb * Hour ELSE MinRefill
  <2>1. \/ R!PayIn(amount) /\ R!Went(TRUE)
        \/ UNCHANGED account /\ R!Went(FALSE)
    BY <1>6, Zenon DEF R!Refill
  <2>2. due = "refill" /\ due' = "nothing" /\ UNCHANGED billedTo
    BY <1>6 DEF R!Refill
  <2>3. amount \in Nat /\ amount >= Ppb * Hour
    BY PaidHours DEF RunwayAssumption
  <2> HIDE DEF amount
  <2>4. \/ streaks' = 0 /\ R!Balance' \in Int /\ R!Balance' >= R!Balance /\ R!Balance' >= 2 * HalfWorth
             /\ account'.at = now
        \/ UNCHANGED account /\ streaks' = streaks + 1 /\ worst' >= streaks'
    BY <1>3, <1>4, <2>1, <2>3
  <2> QED
    BY <1>2, <2>2, <2>4 DEF PaidOrNot
<1>7. CASE R!TooSoon \/ R!Bill
  <2>1. /\ UNCHANGED <<account, streaks, worst>> /\ due = "cycle"
        /\ (due' = "nothing" /\ now - billedTo < Hour) \/ due' = "top-up"
    BY <1>7 DEF R!TooSoon, R!Bill
  <2> QED
    BY <1>2, <2>1 DEF PaidOrNot
<1>8. CASE R!MissCycle \/ R!MissMonitor
  <2>1. UNCHANGED <<account, billedTo>> /\ R!Went(FALSE) /\ due' = "nothing"
    BY <1>8 DEF R!MissCycle, R!MissMonitor
  <2> QED
    BY <1>2, <1>4, <2>1 DEF PaidOrNot
<1>9. CASE R!MonitorReads
  <2>1. /\ UNCHANGED <<account, billedTo>> /\ due = "monitor"
        /\ \/ due' = "refill" /\ UNCHANGED <<streaks, worst>>
           \/ due' = "nothing" /\ ~R!RunsLow /\ R!Went(TRUE)
           \/ due' \in {"nothing", "close"} /\ R!Went(FALSE)
    BY <1>9 DEF R!MonitorReads
  <2>2. \/ due' = "refill" /\ UNCHANGED <<streaks, worst>>
        \/ due' = "nothing" /\ ~R!RunsLow /\ streaks' = 0
        \/ due' \in {"nothing", "close"} /\ streaks' = streaks + 1 /\ worst' >= streaks'
    BY <1>4, <2>1, Zenon
  <2> HIDE DEF R!RunsLow
  <2> QED
    BY <1>2, <2>1, <2>2 DEF PaidOrNot
<1>10. CASE R!MonitorCloses
  <2>1. UNCHANGED <<account, billedTo>> /\ due' = "nothing" /\ phase' # "ACTIVE"
    BY <1>10 DEF R!MonitorCloses
  <2> QED
    BY <1>2, <2>1 DEF PaidOrNot
<1> QED
  BY <1>5, <1>6, <1>7, <1>8, <1>9, <1>10

\* The time that is not billed, and its cost.
LEMMA Elapsed ==
  ASSUME RunwayAssumption, RunwayInv
  PROVE  /\ now - billedTo \in Nat /\ now \in Nat /\ billedTo \in Nat
         /\ Times(now - billedTo, price) \in Int
         /\ now - billedTo <= Hour => Times(now - billedTo, price) <= 2 * HalfCost
<1>1. now \in Nat /\ billedTo \in Nat /\ billedTo <= now
  BY HourSizes DEF RunwayInv, RunwayTypes
<1>2. now - billedTo \in Nat /\ Hour \in Nat /\ price \in Nat /\ Times(Hour, price) = 2 * HalfCost
  BY <1>1, Sums, HourSizes
<1>3. Times(now - billedTo, price) \in Int
  BY <1>2, Products
<1>4. now - billedTo <= Hour => Times(now - billedTo, price) <= Times(Hour, price)
  BY <1>2, Grows
<1> QED
  BY <1>1, <1>2, <1>3, <1>4

\* The monitor finds an hour, by the price that it takes.
LEMMA NotLow ==
  ASSUME RunwayAssumption, RunwayInv, ~R!RunsLow
  PROVE  account.settled - Times(now - account.at, Ppb) >= 2 * HalfWorth
<1>1. Hour * Ppb = 2 * HalfWorth /\ HalfWorth \in Int
  BY PaidHours, Sums
<1>2. now \in Int /\ account.at \in Int /\ account.settled \in Int /\ Ppb \in Int
  BY BalanceTypes DEF RunwayAssumption
<1>3. (now - account.at) * Ppb \in Int
  BY <1>2
<1> QED
  BY <1>1, <1>2, <1>3 DEF R!RunsLow, Times

LEMMA SteadyDue ==
  ASSUME RunwayAssumption, RunwayInv, Steady,
         \/ R!TooSoon \/ R!Bill \/ R!TopUp \/ R!MissCycle \/ R!MonitorReads
         \/ R!MissMonitor \/ R!Refill \/ R!MonitorCloses
  PROVE  Steady'
<1>1. /\ UNCHANGED <<now, price, deposit, thin>> /\ phase = "ACTIVE" /\ due # "nothing"
      /\ phase' \in {"ACTIVE", "CLOSED"} /\ chain' \in {chain, "closed"}
      /\ worst <= worst' /\ HalfCost' = HalfCost /\ SinceCost' = SinceCost /\ Bare' = Bare
      /\ due \in {"cycle", "top-up"} => SinceCost = 0 /\ now >= Hour
      /\ due \in {"monitor", "refill"} => SinceCost = 0
      /\ phase' = "ACTIVE" => due # "close"
  BY DueFrame
<1>2. /\ {worst, worst', streaks, streaks'} \subseteq Int
      /\ streaks >= 0 /\ streaks' >= 0 /\ streaks <= worst /\ streaks' <= worst'
  <2>1. RunwayInv'
    BY DueInv
  <2> QED
    BY <2>1 DEF RunwayInv, RunwayTypes
<1> SUFFICES ASSUME Steadily' PROVE chain' # "dry" /\ (phase' = "ACTIVE" /\ chain' = "open" => Enough')
  BY <1>1 DEF Steady
<1>3. Steadily /\ price = Ppb /\ worst' <= 1
  BY <1>1, <1>2 DEF Steadily
<1>4. chain # "dry" /\ (chain = "open" => Enough)
  BY <1>1, <1>3 DEF Steady
<1> SUFFICES ASSUME phase' = "ACTIVE", chain' = "open" PROVE Enough'
  BY <1>1, <1>4
<1>5. /\ Enough /\ chain = "open" /\ due # "close"
      /\ HalfCost \in Int /\ HalfCost >= 0 /\ R!Balance \in Int /\ R!Balance >= 0
      /\ Times(Hour, price) = 2 * HalfCost /\ HalfWorth = HalfCost
  <2>1. chain = "open" /\ Enough /\ due # "close"
    BY <1>1, <1>4
  <2>2. R!Balance >= 0
    BY <2>1 DEF RunwayInv
  <2>3. HalfWorth = HalfCost
    BY <1>3 DEF HalfCost, HalfWorth
  <2> HIDE DEF R!Balance
  <2> QED
    BY <2>1, <2>2, <2>3, Sums
<1>7. UNCHANGED account => R!Balance' = R!Balance
  BY <1>1, BalanceKept
<1>8. PaidOrNot
  BY <1>5, PaidInDue
<1>9. R!Balance' \in Int /\ R!Balance' >= R!Balance
  BY <1>8 DEF PaidOrNot
<1>10. due \in Dues /\ due # "nothing" /\ due' \in {"nothing", "top-up", "refill", "close"}
  BY <1>1, <1>8 DEF PaidOrNot, RunwayInv, RunwayTypes
<1>11. ~R!RunsLow => R!Balance >= 2 * HalfCost
  <2> SUFFICES ASSUME ~R!RunsLow PROVE R!Balance >= 2 * HalfCost
    OBVIOUS
  <2>1. account.settled - Times(now - account.at, Ppb) >= 2 * HalfWorth
    BY NotLow
  <2>2. R!Balance = account.settled - Times(now - account.at, Ppb)
    BY <1>3 DEF R!Balance, Times
  <2> QED
    BY <1>5, <2>1, <2>2
<1> HIDE DEF R!Balance
<1>12. now < Hour \/ (now = Hour /\ due' = "cycle") => R!Balance' >= 4 * HalfCost - Times(now - billedTo', price)
  <2>1. SUFFICES ASSUME now < Hour PROVE R!Balance' >= 4 * HalfCost - Times(now - billedTo, price)
    BY <1>1, <1>8, <1>10, HourSizes, Elapsed DEF PaidOrNot
  <2>2. R!Balance >= 4 * HalfCost - Times(now - billedTo, price)
    BY <1>5, <2>1 DEF Enough
  <2>3. Times(now - billedTo, price) \in Int
    BY Elapsed
  <2> QED
    BY <1>5, <1>9, <2>2, <2>3
<1>13. due' \in {"top-up", "refill"} => R!Balance' >= IF streaks' = 0 THEN HalfCost ELSE 0
  <2>1. R!Balance >= IF streaks = 0 THEN HalfCost ELSE 0
    BY <1>5, <1>10 DEF Enough, Dues
  <2> QED
    BY <1>5, <1>8, <1>9, <2>1 DEF PaidOrNot
<1>14. due' = "nothing" => R!Balance' >= IF streaks' = 0 THEN 2 * HalfCost ELSE HalfCost
  <2>1. CASE due = "cycle" /\ now - billedTo < Hour /\ UNCHANGED <<account, streaks>>
    <3>1. now = Hour /\ R!Balance' = R!Balance
      BY <2>1, <1>1, <1>7, Elapsed, HourSizes DEF RunwayInv, Timetable
    <3>2. Times(now - billedTo, price) <= 2 * HalfCost /\ Times(now - billedTo, price) \in Int
      BY <2>1, Elapsed, HourSizes
    <3>3. R!Balance >= 4 * HalfCost - Times(now - billedTo, price)
      BY <1>5, <2>1, <3>1 DEF Enough
    <3> QED
      BY <1>5, <3>1, <3>2, <3>3
  <2>2. CASE streaks' = streaks + 1 /\ worst' >= streaks' /\ UNCHANGED account
    <3>1. streaks = 0 /\ streaks' = 1
      BY <1>2, <1>3, <2>2
    <3>2. R!Balance >= HalfCost
      BY <1>5, <1>10, <3>1 DEF Enough, Dues
    <3> QED
      BY <1>5, <1>9, <3>1, <3>2
  <2>3. CASE R!Balance' >= 2 * HalfWorth
    BY <1>5, <1>9, <2>3
  <2>4. CASE UNCHANGED account /\ ~R!RunsLow
    BY <1>5, <1>7, <1>11, <2>4
  <2> QED
    BY <1>8, <2>1, <2>2, <2>3, <2>4 DEF PaidOrNot
<1>15. SinceCost' = 0 /\ UNCHANGED now /\ HalfCost' = HalfCost /\ UNCHANGED price
  BY <1>1, <1>5, <1>10 DEF Dues
<1> QED
  BY <1>5, <1>10, <1>12, <1>13, <1>14, <1>15 DEF Enough

LEMMA SteadyStart ==
  ASSUME RunwayAssumption, RunwayInv, Steady, R!PostLease \/ R!Activate
  PROVE  Steady'
<1>1. /\ chain = "open" /\ account.at = now /\ now < Hour /\ due = "nothing" /\ RunwayTypes
      /\ phase = "CREATING_LEASE" => account.settled = deposit
      /\ UNCHANGED <<now, price, deposit, chain, due>>
  BY DEF R!PostLease, R!Activate, RunwayInv, Beginning
<1>2. /\ HalfCost' = HalfCost /\ SinceCost' = SinceCost /\ 2 * Hour * price = 4 * HalfCost
      /\ HalfCost \in Int /\ HalfCost >= 0 /\ SinceCost \in Int /\ SinceCost >= 0 /\ R!Balance \in Int /\ R!Balance >= 0
  <2>1. Since' = Since /\ Half' = Half
    BY <1>1 DEF Since, Into, Half
  <2>2. HalfCost' = HalfCost /\ SinceCost' = SinceCost
    BY <1>1, <2>1 DEF HalfCost, SinceCost
  <2> QED
    BY <1>1, <2>2, PaidHours, Sums DEF RunwayInv
<1> SUFFICES ASSUME Steadily'
             PROVE  /\ phase' = "DEPLOYING" => R!Balance' >= 4 * HalfCost
                    /\ phase' = "ACTIVE" => Enough'
  BY <1>1, <1>2 DEF Steady
<1>3. CASE R!PostLease
  <2>1. R!Balance = deposit /\ deposit \in Int
    BY <1>1, <1>3 DEF R!Balance, R!PostLease, RunwayTypes, RunwayAssumption
  <2>2. price = Ppb /\ ~Bare'
    BY <1>1 DEF Steadily
  <2>3. CASE R!PayIn(Ppb * Hour * R!PostLeaseHours)
    <3>1. Ppb * Hour * R!PostLeaseHours = 4 * HalfCost
      BY <2>2, PaidHours DEF HalfWorth, HalfCost
    <3>2. R!Balance' = R!Balance + 4 * HalfCost
      BY <1>1, <1>2, <2>3, <3>1, BalancePaid
    <3> HIDE DEF R!Balance
    <3> QED
      BY <1>2, <1>3, <3>2 DEF R!PostLease
  <2>4. CASE UNCHANGED account /\ thin' = TRUE
    <3>1. deposit >= 4 * HalfCost
      <4>1. ~(deposit' < 2 * Hour * price')
        BY <2>2, <2>4, Zenon DEF Bare
      <4> QED
        BY <1>1, <1>2, <2>1, <4>1
    <3>2. R!Balance' = R!Balance
      BY <1>1, <2>4, BalanceKept
    <3> HIDE DEF R!Balance
    <3> QED
      BY <1>3, <2>1, <3>1, <3>2 DEF R!PostLease
  <2> QED
    BY <1>3, <2>3, <2>4, Zenon DEF R!PostLease
<1>4. CASE R!Activate
  <2>1. UNCHANGED <<account, worst, thin, streaks>> /\ phase = "DEPLOYING" /\ phase' = "ACTIVE" /\ billedTo' = now
    BY <1>4 DEF R!Activate
  <2>2. Bare' = Bare
    BY <1>1, <2>1, Zenon DEF Bare
  <2>3. R!Balance >= 4 * HalfCost
    BY <1>1, <2>1, <2>2 DEF Steady, Steadily
  <2>4. R!Balance' = R!Balance
    BY <1>1, <2>1, BalanceKept
  <2>5. Times(now' - billedTo', price') = 0
    <3>1. now' - billedTo' = 0 /\ price' \in Int
      BY <1>1, <2>1, Sums DEF RunwayTypes
    <3> QED
      BY <3>1, Products
  <2> HIDE DEF R!Balance
  <2> QED
    BY <1>1, <1>2, <2>1, <2>3, <2>4, <2>5 DEF Enough
<1> QED
  BY <1>3, <1>4

\* The next tick, in what it costs.
LEMMA TickCosts ==
  ASSUME RunwayAssumption, RunwayInv, R!Tick
  PROVE  /\ HalfCost' = HalfCost /\ HalfWorth' = HalfWorth /\ Half' = Half
         /\ Into' \in {0, Half} => SinceCost + price = HalfCost /\ SinceCost' = 0
         /\ Into' \notin {0, Half} => SinceCost' = SinceCost + price
         /\ Times(now' - billedTo', price') = Times(now - billedTo, price) + price
<1>1. now' = now + 1 /\ UNCHANGED <<price, billedTo>> /\ now \in Nat /\ price \in Nat /\ price \in Int
  BY Sums, BalanceTypes DEF R!Tick
<1>2. Half' = Half
  BY DEF Half
<1>3. HalfCost' = HalfCost /\ HalfWorth' = HalfWorth
  BY <1>1, <1>2 DEF HalfCost, HalfWorth
<1>4. /\ Into' \in {0, Half} => Since + 1 = Half /\ Since' = 0
      /\ Into' \notin {0, Half} => Since' = Since + 1
      /\ Since \in Int
  BY <1>1, HourGoes, IntoHour, HourSizes
<1>5. SinceCost' = Times(Since', price)
  BY <1>1 DEF SinceCost
<1>6. /\ Times(0, price) = 0 /\ Times(Since + 1, price) = SinceCost + price
      /\ Since + 1 = Half => SinceCost + price = HalfCost
  BY <1>1, <1>4, Products, Sums DEF SinceCost
<1>7. Times(now' - billedTo', price') = Times(now - billedTo, price) + price
  <2>1. now' - billedTo' = (now - billedTo) + 1 /\ now - billedTo \in Int
    BY <1>1, Elapsed
  <2> QED
    BY <1>1, <2>1, Products
<1> QED
  BY <1>2, <1>3, <1>4, <1>5, <1>6, <1>7

LEMMA SteadyTick ==
  ASSUME RunwayAssumption, RunwayInv, Steady, R!Tick
  PROVE  Steady'
<1>1. /\ phase = "ACTIVE" /\ due = "nothing" /\ now' = now + 1 /\ now \in Nat
      /\ UNCHANGED <<price, deposit, phase, billedTo, misses, streaks, worst, thin>>
  BY BalanceTypes DEF R!Tick
<1>2. Bare' = Bare
  BY <1>1, Zenon DEF Bare
<1> SUFFICES ASSUME Steadily' PROVE chain' # "dry" /\ (chain' = "open" => Enough')
  BY <1>1 DEF Steady
<1>3. Steadily /\ worst <= 1
  BY <1>1, <1>2 DEF Steadily
<1>4. chain # "dry" /\ (chain = "open" => Enough)
  BY <1>1, <1>3 DEF Steady
<1>5. chain # "open" => chain' = chain
  BY DEF R!Tick
<1> SUFFICES ASSUME chain = "open" PROVE chain' # "dry" /\ Enough'
  BY <1>4, <1>5
<1>6. /\ R!Balance >= (IF streaks = 0 THEN 2 * HalfCost ELSE HalfCost) - SinceCost
      /\ now < Hour => R!Balance >= 4 * HalfCost - Times(now - billedTo, price)
      /\ {HalfCost, SinceCost, R!Balance, price} \subseteq Int /\ HalfCost >= 0 /\ SinceCost + price <= HalfCost
      /\ Times(now - billedTo, price) \in Int /\ price >= 0 /\ Hour \in Nat
  BY <1>1, <1>4, Sums, Elapsed, HourSizes DEF Enough
<1>7. ~(R!Balance - price < 0)
  BY <1>6
<1>8. UNCHANGED <<account, chain>>
  BY <1>7 DEF R!Tick
<1>9. R!Balance' = R!Balance - price
  BY <1>1, <1>8, BalanceTicks
<1>10. due' = CASE Into' = 0 -> "cycle" [] Into' = Half -> "monitor" [] OTHER -> "nothing"
  BY DEF R!Tick, Into, Half
<1>11. /\ HalfCost' = HalfCost
       /\ Into' \in {0, Half} => SinceCost + price = HalfCost /\ SinceCost' = 0
       /\ Into' \notin {0, Half} => SinceCost' = SinceCost + price
       /\ Times(now' - billedTo', price') = Times(now - billedTo, price) + price
  BY TickCosts
<1> HIDE DEF R!Balance
<1>12. due' = "nothing" => R!Balance' >= (IF streaks' = 0 THEN 2 * HalfCost' ELSE HalfCost') - SinceCost'
  BY <1>1, <1>6, <1>9, <1>10, <1>11
<1>13. due' \in {"cycle", "top-up", "monitor", "refill"} => R!Balance' >= IF streaks' = 0 THEN HalfCost' ELSE 0
  BY <1>1, <1>6, <1>9, <1>10, <1>11
<1>14. now' <= Hour => R!Balance' >= 4 * HalfCost' - Times(now' - billedTo', price')
  BY <1>1, <1>6, <1>9, <1>11
<1> QED
  BY <1>1, <1>6, <1>8, <1>12, <1>13, <1>14 DEF Enough

LEMMA SteadyNext == RunwayAssumption /\ RunwayInv /\ Steady /\ [R!Next]_rvars => Steady'
<1> SUFFICES ASSUME RunwayAssumption, RunwayInv, Steady, [R!Next]_rvars PROVE Steady'
  OBVIOUS
<1>1. ASSUME UNCHANGED rvars PROVE Steady'
  <2>1. Bare' = Bare
    BY <1>1, Zenon DEF Bare, rvars
  <2>2. R!Balance' = R!Balance
    BY <1>1, BalanceKept DEF rvars
  <2>3. HalfCost' = HalfCost /\ SinceCost' = SinceCost
    BY <1>1 DEF HalfCost, SinceCost, Since, Into, Half, rvars
  <2> QED
    BY <1>1, <2>1, <2>2, <2>3 DEF Steady, Steadily, Enough, rvars
<1> QED
  BY <1>1, SteadyStart, SteadyDue, SteadyTick DEF R!Next

-----------------------------------------------------------------------------
(* With no failure, and a price of which a fraction is dropped. *)

\* What the code drops of a price is at most a fourth of what it keeps.
DropsLittle == \A cost \in Prices : Ppb <= cost /\ 4 * (cost - Ppb) <= Ppb

\* A cycle or a monitor leaves at least an hour, less what was dropped since.
Plenty ==
  /\ due = "nothing" /\ Into < Half =>
       R!Balance >= 4 * HalfWorth - 2 * HalfCost - SinceCost /\ now - account.at <= Into + Hour
  /\ due = "nothing" /\ Into >= Half => R!Balance >= 5 * HalfWorth - 3 * HalfCost - SinceCost
  /\ due \in {"cycle", "top-up"} => R!Balance >= 5 * HalfWorth - 4 * HalfCost
  /\ due \in {"monitor", "refill"} => R!Balance >= 4 * HalfWorth - 3 * HalfCost
  /\ due = "monitor" => now - account.at <= Half + Hour
  /\ now < Hour \/ (now = Hour /\ due = "cycle") => R!Balance >= 4 * HalfWorth - Times(now - billedTo, price)
Unfailing ==
  worst = 0 => /\ chain # "dry"
               /\ phase = "DEPLOYING" => R!Balance >= 4 * HalfWorth
               /\ phase = "ACTIVE" /\ chain = "open" => Plenty

\* What is dropped of the price, in half an hour and in any time up to three.
LEMMA Dropped ==
  ASSUME RunwayAssumption, RunwayInv, DropsLittle
  PROVE  /\ HalfWorth <= HalfCost /\ 4 * HalfCost <= 5 * HalfWorth
         /\ ~R!RunsLow /\ now - account.at <= Half + Hour => R!Balance >= 5 * HalfWorth - 3 * HalfCost
<1> DEFINE less == price - Ppb
           time == now - account.at
<1>1. /\ price \in Prices /\ price \in Nat /\ Ppb \in Nat /\ Half \in Nat /\ Hour = Half + Half
      /\ time \in Nat /\ account.settled \in Int
  BY BalanceTypes, HourSizes DEF RunwayInv, RunwayTypes, RunwayAssumption
<1>2. less \in Nat /\ 4 * less <= Ppb /\ price = Ppb + less
  BY <1>1 DEF DropsLittle
<1>3. R!Balance = account.settled - Times(time, price)
  BY DEF R!Balance, Times
<1>4. ~R!RunsLow => account.settled - Times(time, Ppb) >= 2 * HalfWorth
  BY NotLow
<1> HIDE DEF less, time, R!Balance
<1>5. ASSUME NEW n \in Nat PROVE Times(n, price) = Times(n, Ppb) + Times(n, less)
  BY <1>1, <1>2 DEF Times
<1>6. /\ Times(Half, less) >= 0 /\ 4 * Times(Half, less) <= HalfWorth
      /\ Times(Half, less) \in Int /\ HalfWorth \in Int
  <2>1. Times(Half, less) >= 0 /\ Times(Half, less) \in Int /\ Times(Half, Ppb) \in Int
    BY <1>1, <1>2 DEF Times
  <2>2. Times(4 * less, Half) <= Times(Ppb, Half)
    BY <1>1, <1>2, Grows
  <2>3. Times(4 * less, Half) = 4 * Times(Half, less) /\ Times(Ppb, Half) = Times(Half, Ppb)
    BY <1>1, <1>2 DEF Times
  <2> QED
    BY <2>1, <2>2, <2>3 DEF HalfWorth
<1>7. HalfCost = HalfWorth + Times(Half, less)
  BY <1>1, <1>5 DEF HalfCost, HalfWorth
<1>8. time <= Half + Hour => Times(time, less) <= 3 * Times(Half, less)
  <2>1. time <= Half + Hour => Times(time, less) <= Times(Half + Half + Half, less)
    BY <1>1, <1>2, Grows
  <2>2. Times(Half + Half + Half, less) = 3 * Times(Half, less)
    BY <1>1, <1>2 DEF Times
  <2> QED
    BY <2>1, <2>2
<1>9. Times(time, less) \in Int /\ Times(time, Ppb) \in Int /\ Times(time, price) = Times(time, Ppb) + Times(time, less)
  <2>1. Times(time, less) \in Int
    BY <1>1, <1>2, Products
  <2>2. Times(time, Ppb) \in Int
    BY <1>1, Products
  <2> QED
    BY <1>1, <1>5, <2>1, <2>2
<1> QED
  BY <1>1, <1>3, <1>4, <1>6, <1>7, <1>8, <1>9 DEF time

LEMMA UnfailingDue ==
  ASSUME RunwayAssumption, RunwayInv, DropsLittle, Unfailing,
         \/ R!TooSoon \/ R!Bill \/ R!TopUp \/ R!MissCycle \/ R!MonitorReads
         \/ R!MissMonitor \/ R!Refill \/ R!MonitorCloses
  PROVE  Unfailing'
<1>1. /\ UNCHANGED <<now, price, deposit, thin>> /\ phase = "ACTIVE" /\ due # "nothing"
      /\ phase' \in {"ACTIVE", "CLOSED"} /\ chain' \in {chain, "closed"}
      /\ worst <= worst' /\ HalfCost' = HalfCost /\ SinceCost' = SinceCost
      /\ HalfWorth' = HalfWorth /\ Into' = Into /\ Half' = Half
      /\ due \in {"cycle", "top-up"} => SinceCost = 0 /\ now >= Hour /\ Into = 0
      /\ due \in {"monitor", "refill"} => SinceCost = 0 /\ Into = Half
      /\ phase' = "ACTIVE" => due # "close"
  BY DueFrame
<1>2. /\ {worst, worst', streaks, streaks'} \subseteq Int
      /\ streaks >= 0 /\ worst >= 0
  <2>1. RunwayInv'
    BY DueInv
  <2> QED
    BY <2>1 DEF RunwayInv, RunwayTypes
<1> SUFFICES ASSUME worst' = 0 PROVE chain' # "dry" /\ (phase' = "ACTIVE" /\ chain' = "open" => Plenty')
  BY <1>1 DEF Unfailing
<1>3. worst = 0
  BY <1>1, <1>2
<1>4. chain # "dry" /\ (chain = "open" => Plenty)
  BY <1>1, <1>3 DEF Unfailing
<1> SUFFICES ASSUME phase' = "ACTIVE", chain' = "open" PROVE Plenty'
  BY <1>1, <1>4
<1>5. chain = "open" /\ Plenty /\ due # "close"
  BY <1>1, <1>4
<1>6. R!Balance >= 0
  BY <1>5 DEF RunwayInv
<1>7. /\ UNCHANGED account => R!Balance' = R!Balance
      /\ {HalfCost, HalfWorth, R!Balance} \subseteq Int /\ HalfCost >= 0 /\ HalfWorth >= 0
      /\ Half \in Nat \ {0} /\ Hour = 2 * Half /\ Half' = Half /\ now \in Nat /\ account.at \in Nat
  BY <1>1, BalanceKept, BalanceTypes, Sums, HourSizes
<1>8. PaidOrNot
  BY <1>5, PaidInDue
<1>9. /\ HalfWorth <= HalfCost /\ 4 * HalfCost <= 5 * HalfWorth
      /\ ~R!RunsLow /\ now - account.at <= Half + Hour => R!Balance >= 5 * HalfWorth - 3 * HalfCost
  BY Dropped
<1> HIDE DEF R!Balance, R!RunsLow
<1>10. R!Balance' \in Int /\ R!Balance' >= R!Balance
  BY <1>8 DEF PaidOrNot
<1>11. due \in Dues /\ due # "nothing" /\ due' \in {"nothing", "top-up", "refill", "close"}
  BY <1>1, <1>8 DEF PaidOrNot, RunwayInv, RunwayTypes
<1>12. now < Hour \/ (now = Hour /\ due' = "cycle") => R!Balance' >= 4 * HalfWorth - Times(now - billedTo', price)
  <2>1. SUFFICES ASSUME now < Hour PROVE R!Balance' >= 4 * HalfWorth - Times(now - billedTo, price)
    BY <1>1, <1>8, <1>11, HourSizes, Elapsed DEF PaidOrNot
  <2>2. R!Balance >= 4 * HalfWorth - Times(now - billedTo, price)
    BY <1>5, <2>1 DEF Plenty
  <2>3. Times(now - billedTo, price) \in Int
    BY Elapsed
  <2> QED
    BY <1>7, <1>10, <2>2, <2>3
<1>13. /\ due' = "top-up" => R!Balance' >= 5 * HalfWorth - 4 * HalfCost
       /\ due' = "refill" => R!Balance' >= 4 * HalfWorth - 3 * HalfCost
  <2>1. /\ due = "cycle" => R!Balance >= 5 * HalfWorth - 4 * HalfCost
        /\ due = "monitor" => R!Balance >= 4 * HalfWorth - 3 * HalfCost
    BY <1>5 DEF Plenty
  <2> QED
    BY <1>7, <1>8, <1>10, <2>1 DEF PaidOrNot
<1>14. due' = "nothing" =>
         /\ Into < Half => R!Balance' >= 4 * HalfWorth - 2 * HalfCost /\ now - account'.at <= Into + Hour
         /\ Into >= Half => R!Balance' >= 5 * HalfWorth - 3 * HalfCost
  <2>1. CASE due = "cycle" /\ now - billedTo < Hour /\ UNCHANGED <<account, streaks>>
    <3>1. now = Hour /\ R!Balance' = R!Balance /\ Into = 0
      BY <2>1, <1>1, <1>7, Elapsed, HourSizes DEF RunwayInv, Timetable
    <3>2. Times(now - billedTo, price) <= 2 * HalfCost /\ Times(now - billedTo, price) \in Int
      BY <2>1, Elapsed, HourSizes
    <3>3. R!Balance >= 4 * HalfWorth - Times(now - billedTo, price)
      BY <1>5, <2>1, <3>1 DEF Plenty
    <3> QED
      BY <1>7, <2>1, <3>1, <3>2, <3>3
  <2>2. CASE streaks' = streaks + 1 /\ worst' >= streaks' /\ UNCHANGED account
    BY <1>2, <2>2
  <2>3. CASE R!Balance' >= 2 * HalfWorth /\ due \in {"top-up", "refill"} /\ account'.at = now
    BY <1>1, <1>7, <1>9, <1>10, <2>3
  <2>4. CASE UNCHANGED account /\ ~R!RunsLow /\ due = "monitor"
    <3>1. now - account.at <= Half + Hour
      BY <1>5, <2>4 DEF Plenty
    <3> QED
      BY <1>1, <1>7, <1>9, <2>4, <3>1
  <2> QED
    BY <1>8, <2>1, <2>2, <2>3, <2>4 DEF PaidOrNot
<1>15. SinceCost' = 0 /\ UNCHANGED now /\ HalfCost' = HalfCost /\ UNCHANGED price
       /\ HalfWorth' = HalfWorth /\ Into' = Into /\ Half' = Half
  BY <1>1, <1>5, <1>11 DEF Dues
<1> QED
  BY <1>7, <1>11, <1>12, <1>13, <1>14, <1>15 DEF Plenty

LEMMA UnfailingStart ==
  ASSUME RunwayAssumption, RunwayInv, DropsLittle, Unfailing, R!PostLease \/ R!Activate
  PROVE  Unfailing'
<1>1. /\ chain = "open" /\ account.at = now /\ now < Hour /\ due = "nothing" /\ RunwayTypes /\ worst \in Nat
      /\ UNCHANGED <<now, price, deposit, chain, due>> /\ now \in Nat
  BY Outcomes, BalanceTypes DEF R!PostLease, R!Activate, RunwayInv, Beginning
<1>2. /\ HalfCost' = HalfCost /\ SinceCost' = SinceCost /\ HalfWorth' = HalfWorth /\ Into' = Into /\ Half' = Half
      /\ {HalfCost, HalfWorth, SinceCost, R!Balance} \subseteq Int
      /\ HalfCost >= 0 /\ SinceCost >= 0 /\ R!Balance >= 0
      /\ HalfWorth <= HalfCost /\ Into \in Nat /\ Hour \in Nat
  <2>1. Since' = Since /\ Half' = Half /\ Into' = Into
    BY <1>1 DEF Since, Into, Half
  <2>2. HalfCost' = HalfCost /\ SinceCost' = SinceCost /\ HalfWorth' = HalfWorth
    BY <1>1, <2>1 DEF HalfCost, SinceCost, HalfWorth
  <2>3. R!Balance >= 0
    BY <1>1 DEF RunwayInv
  <2> HIDE DEF R!Balance
  <2> QED
    BY <1>1, <2>1, <2>2, <2>3, Dropped, Sums, IntoHour, HourSizes
<1> SUFFICES ASSUME worst' = 0
             PROVE  /\ phase' = "DEPLOYING" => R!Balance' >= 4 * HalfWorth
                    /\ phase' = "ACTIVE" => Plenty'
  BY <1>1, <1>2 DEF Unfailing
<1>3. CASE R!PostLease
  <2>1. R!PayIn(Ppb * Hour * R!PostLeaseHours)
    <3>1. ~R!Went(FALSE)
      <4>1. R!Went(FALSE) => worst' >= 1
        BY Outcomes
      <4>2. ~(0 >= 1)
        OBVIOUS
      <4> QED
        BY <4>1, <4>2, Zenon
    <3> QED
      BY <1>3, <3>1, Zenon DEF R!PostLease
  <2>2. Ppb * Hour * R!PostLeaseHours = 4 * HalfWorth
    BY PaidHours
  <2>3. R!Balance' = R!Balance + 4 * HalfWorth
    BY <1>1, <1>2, <2>1, <2>2, BalancePaid
  <2> HIDE DEF R!Balance
  <2> QED
    BY <1>2, <1>3, <2>3 DEF R!PostLease
<1>4. CASE R!Activate
  <2>1. UNCHANGED <<account, worst, thin, streaks>> /\ phase = "DEPLOYING" /\ phase' = "ACTIVE" /\ billedTo' = now
    BY <1>4 DEF R!Activate
  <2>2. R!Balance >= 4 * HalfWorth
    BY <1>1, <2>1 DEF Unfailing
  <2>3. R!Balance' = R!Balance
    BY <1>1, <2>1, BalanceKept
  <2>4. Times(now' - billedTo', price') = 0
    <3>1. now' - billedTo' = 0 /\ price' \in Int
      BY <1>1, <2>1, Sums DEF RunwayTypes
    <3> QED
      BY <3>1, Products
  <2> HIDE DEF R!Balance
  <2> QED
    BY <1>1, <1>2, <2>1, <2>2, <2>3, <2>4 DEF Plenty
<1> QED
  BY <1>3, <1>4

LEMMA UnfailingTick ==
  ASSUME RunwayAssumption, RunwayInv, DropsLittle, Unfailing, R!Tick
  PROVE  Unfailing'
<1>1. /\ phase = "ACTIVE" /\ due = "nothing" /\ now' = now + 1 /\ now \in Nat
      /\ UNCHANGED <<price, deposit, phase, billedTo, misses, streaks, worst, thin>>
  BY BalanceTypes DEF R!Tick
<1> SUFFICES ASSUME worst = 0 PROVE chain' # "dry" /\ (chain' = "open" => Plenty')
  BY <1>1 DEF Unfailing
<1>2. chain # "dry" /\ (chain = "open" => Plenty)
  BY <1>1 DEF Unfailing
<1>3. chain # "open" => chain' = chain
  BY DEF R!Tick
<1> SUFFICES ASSUME chain = "open" PROVE chain' # "dry" /\ Plenty'
  BY <1>2, <1>3
<1>4. /\ Into < Half => R!Balance >= 4 * HalfWorth - 2 * HalfCost - SinceCost /\ now - account.at <= Into + Hour
      /\ Into >= Half => R!Balance >= 5 * HalfWorth - 3 * HalfCost - SinceCost
      /\ now < Hour => R!Balance >= 4 * HalfWorth - Times(now - billedTo, price)
  BY <1>1, <1>2 DEF Plenty
<1>5. /\ {HalfCost, HalfWorth, SinceCost, R!Balance, price} \subseteq Int /\ HalfCost >= 0
      /\ HalfWorth <= HalfCost /\ 4 * HalfCost <= 5 * HalfWorth
      /\ SinceCost + price <= HalfCost /\ account.at \in Nat
      /\ Times(now - billedTo, price) \in Int /\ price >= 0 /\ Hour \in Nat /\ Into \in Nat /\ Half \in Nat
  BY <1>1, Sums, Dropped, BalanceTypes, Elapsed, HourSizes, IntoHour
<1>6. ~(R!Balance - price < 0)
  BY <1>4, <1>5
<1>7. UNCHANGED <<account, chain>>
  BY <1>6 DEF R!Tick
<1>8. R!Balance' = R!Balance - price
  BY <1>1, <1>7, BalanceTicks
<1>9. due' = CASE Into' = 0 -> "cycle" [] Into' = Half -> "monitor" [] OTHER -> "nothing"
  BY DEF R!Tick, Into, Half
<1>10. /\ HalfCost' = HalfCost /\ HalfWorth' = HalfWorth /\ Half' = Half
       /\ Into' \in {0, Half} => SinceCost + price = HalfCost /\ SinceCost' = 0
       /\ Into' \notin {0, Half} => SinceCost' = SinceCost + price
       /\ Times(now' - billedTo', price') = Times(now - billedTo, price) + price
  BY TickCosts
<1>11. /\ Into' = IF Into = Hour - 1 THEN 0 ELSE Into + 1
       /\ Into' = Half => Into < Half
       /\ Into' # Half /\ Into' # 0 => (Into' < Half <=> Into < Half)
       /\ Into' = 0 => Into >= Half
  BY <1>1, HourGoes
<1> HIDE DEF R!Balance
<1>12. due' = "nothing" /\ Into' < Half =>
         R!Balance' >= 4 * HalfWorth - 2 * HalfCost - SinceCost' /\ now' - account'.at <= Into' + Hour
  BY <1>1, <1>4, <1>5, <1>7, <1>8, <1>9, <1>10, <1>11
<1>13. due' = "nothing" /\ Into' >= Half => R!Balance' >= 5 * HalfWorth - 3 * HalfCost - SinceCost'
  BY <1>1, <1>4, <1>5, <1>8, <1>9, <1>10, <1>11
<1>14. /\ due' \in {"cycle", "top-up"} => R!Balance' >= 5 * HalfWorth - 4 * HalfCost
       /\ due' \in {"monitor", "refill"} => R!Balance' >= 4 * HalfWorth - 3 * HalfCost
  BY <1>1, <1>4, <1>5, <1>8, <1>9, <1>10, <1>11
<1>15. due' = "monitor" => now' - account'.at <= Half + Hour
  BY <1>1, <1>4, <1>5, <1>7, <1>9, <1>11
<1>16. now' <= Hour => R!Balance' >= 4 * HalfWorth - Times(now' - billedTo', price')
  BY <1>1, <1>4, <1>5, <1>8, <1>10
<1> QED
  BY <1>1, <1>5, <1>7, <1>10, <1>12, <1>13, <1>14, <1>15, <1>16 DEF Plenty

LEMMA UnfailingNext == RunwayAssumption /\ RunwayInv /\ DropsLittle /\ Unfailing /\ [R!Next]_rvars => Unfailing'
<1> SUFFICES ASSUME RunwayAssumption, RunwayInv, DropsLittle, Unfailing, [R!Next]_rvars PROVE Unfailing'
  OBVIOUS
<1>1. ASSUME UNCHANGED rvars PROVE Unfailing'
  <2>1. R!Balance' = R!Balance
    BY <1>1, BalanceKept DEF rvars
  <2>2. HalfCost' = HalfCost /\ HalfWorth' = HalfWorth /\ SinceCost' = SinceCost /\ Half' = Half /\ Into' = Into
    BY <1>1 DEF HalfCost, HalfWorth, SinceCost, Since, Into, Half, rvars
  <2> HIDE DEF R!Balance
  <2> QED
    BY <1>1, <2>1, <2>2 DEF Unfailing, Plenty, rvars
<1> QED
  BY <1>1, UnfailingStart, UnfailingDue, UnfailingTick DEF R!Next

LEMMA LastingInit == R!Init => Steady /\ Unfailing
BY DEF R!Init, Steady, Unfailing

LEMMA LastingIsRunway == RunwayInv /\ Steady /\ Unfailing => R!RunwayLasts
<1> SUFFICES ASSUME RunwayInv, Steady, Unfailing, chain = "dry"
             PROVE  worst >= 2 \/ (worst = 1 /\ (price # Ppb \/ (thin /\ deposit < 2 * Hour * price)))
  BY DEF R!RunwayLasts
<1>1. ~Steadily /\ worst # 0
  BY DEF Steady, Unfailing
<1>2. worst >= 2 \/ worst = 1
  BY <1>1 DEF RunwayInv, RunwayTypes
<1>3. worst = 1 => price # Ppb \/ Bare
  BY <1>1 DEF Steadily
<1> QED
  BY <1>2, <1>3, Zenon DEF Bare

-----------------------------------------------------------------------------
(* The six side by side: a step is one of theirs, or none, for each. *)

ServicesInv ==
  /\ HostedInv /\ (~disturbed => Exact) /\ SuspensionInv /\ Noted /\ UnderPolicies /\ WalletInv /\ Unslipped
  /\ FailoverInv /\ Few /\ BuildsInv /\ RunwayInv /\ Steady

LEMMA EachMoves ==
  ASSUME [Next]_vars
  PROVE  /\ [B!Next]_bvars /\ [S!Next]_svars /\ [W!Next]_wvars
         /\ [F!Next]_fvars /\ [D!Next]_dvars /\ [R!Next]_rvars
<1>1. ASSUME UNCHANGED vars PROVE UNCHANGED bvars /\ UNCHANGED svars /\ UNCHANGED wvars /\ UNCHANGED fvars
                                  /\ UNCHANGED dvars /\ UNCHANGED rvars
  BY <1>1 DEF vars
<1> QED
  BY <1>1, Zenon DEF Next, Billing, Suspending, Signing, FailingOver, Building, Draining

LEMMA ServicesInit == Init => ServicesInv /\ Unfailing
<1> SUFFICES ASSUME Init PROVE ServicesInv /\ Unfailing
  OBVIOUS
<1>1. B!Init /\ S!Init /\ W!Init /\ F!Init /\ D!Init /\ R!Init
  BY Zenon DEF Init
<1>2. /\ HostedAssumption /\ SuspensionAssumption /\ WalletAssumption /\ FailoverAssumption
      /\ BuildsAssumption /\ RunwayAssumption
  BY ServicesAssumption
<1>3. HostedInv /\ Exact
  BY <1>1, <1>2, HostedInit, ExactInit, Zenon
<1>4. FailoverInv /\ Few
  BY <1>1, <1>2, FailoverInit, FewInit, Zenon
<1>5. SuspensionInv /\ Noted /\ UnderPolicies /\ WalletInv /\ Unslipped /\ BuildsInv
  BY <1>1, <1>2, SuspensionInit, PolicyInit, WalletInit, UnslippedInit, BuildsInit, Zenon
<1>6. RunwayInv /\ Steady /\ Unfailing
  BY <1>1, <1>2, RunwayInit, LastingInit, Zenon
<1> QED
  BY <1>3, <1>4, <1>5, <1>6, Zenon DEF ServicesInv

LEMMA ServicesNext == ServicesInv /\ [Next]_vars => ServicesInv' /\ (DropsLittle /\ Unfailing => Unfailing')
<1> SUFFICES ASSUME ServicesInv, [Next]_vars PROVE ServicesInv' /\ (DropsLittle /\ Unfailing => Unfailing')
  OBVIOUS
<1>1. /\ [B!Next]_bvars /\ [S!Next]_svars /\ [W!Next]_wvars
      /\ [F!Next]_fvars /\ [D!Next]_dvars /\ [R!Next]_rvars
  BY EachMoves, Zenon
<1>2. /\ HostedAssumption /\ SuspensionAssumption /\ WalletAssumption /\ FailoverAssumption
      /\ BuildsAssumption /\ RunwayAssumption
  BY ServicesAssumption
<1>3. /\ HostedInv /\ (~disturbed => Exact) /\ SuspensionInv /\ Noted /\ UnderPolicies /\ WalletInv /\ Unslipped
      /\ FailoverInv /\ Few /\ BuildsInv /\ RunwayInv /\ Steady
  BY Zenon DEF ServicesInv
<1>4. HostedInv'
  BY <1>1, <1>2, <1>3, HostedNext, Zenon
<1>5. (~disturbed => Exact)'
  BY <1>1, <1>2, <1>3, ExactNext, Zenon
<1>6. FailoverInv' /\ Few'
  BY <1>1, <1>2, <1>3, FailoverNext, FewNext, Zenon
<1>7. SuspensionInv' /\ WalletInv' /\ BuildsInv'
  BY <1>1, <1>2, <1>3, SuspensionNext, WalletNext, BuildsNext, Zenon
<1>10. Noted' /\ UnderPolicies' /\ Unslipped'
  BY <1>1, <1>2, <1>3, <1>7, PolicyNext, UnslippedNext, Zenon
<1>8. RunwayInv' /\ Steady'
  BY <1>1, <1>2, <1>3, RunwayNext, SteadyNext, Zenon
<1>9. DropsLittle /\ Unfailing => Unfailing'
  BY <1>1, <1>2, <1>3, UnfailingNext, Zenon
<1> QED
  BY <1>4, <1>5, <1>6, <1>7, <1>8, <1>9, <1>10, Zenon DEF ServicesInv

LEMMA Invariance == Spec => []ServicesInv
BY ServicesInit, ServicesNext, PTL DEF Spec

\* Types of the six: the watermark and a job's times lie within the clock's
\* range, a wallet's queue holds callers only and a probe opens at most two
\* deployments in an attempt, messages name rows that exist, a job has at most
\* two builders, and no account on the chain is overdrawn.
THEOREM TypeCorrect == Spec => []TypeOK
<1>1. ServicesInv => TypeOK
  BY ServicesAssumption, SuspensionTyped, WalletTyped, RunwayTyped, Zenon
  DEF ServicesInv, TypeOK, HostedInv, SuspensionInv, FailoverInv, BuildsInv
<1> QED
  BY <1>1, Invariance, PTL

\* processHourlyCompute and the final settlements never debit a tick of a
\* Phala or Spheron deployment twice, and leave out none, as long as no step
\* fails between a debit and the write of its watermark.
THEOREM ChargesOnce == Spec => []ChargedOnce
<1>1. ServicesInv => ChargedOnce
  BY ServicesAssumption, ExactIsOnce, Zenon DEF ServicesInv, ChargedOnce
<1> QED
  BY <1>1, Invariance, PTL

\* The time up to the end of a Phala or Spheron deployment is debited or
\* announced in the ledger: processFinalPhalaBilling and
\* processFinalSpheronBilling run before any job writes the row.
THEOREM EndIsCharged == Spec => []EndedIsCharged
<1>1. ServicesInv => EndedIsCharged
  <2> SUFFICES ASSUME HostedInv, HostedAssumption PROVE B!EndedIsCharged
    BY ServicesAssumption, Zenon DEF ServicesInv, EndedIsCharged
  <2> QED
    BY DEF HostedAssumption, HostedInv, B!TypeOK, B!Time, Cover, EndCovered, Accounted, B!EndedIsCharged
<1> QED
  BY <1>1, Invariance, PTL

\* Along a chain of failovers and retries no provider is used twice: what
\* executeFailover and HANDLE_FAILURE hand on as excludedProviders covers
\* every provider of the lineage.
THEOREM NeverBack == Spec => []KnownBadAvoided
<1>1. ServicesInv => KnownBadAvoided
  <2> SUFFICES ASSUME FailoverInv, FailoverAssumption, NEW r \in F!Is({"ACTIVE"}), NEW s \in row[r].lineage
               PROVE  row[s].provider # row[r].provider
    BY ServicesAssumption, Zenon DEF ServicesInv, KnownBadAvoided, F!KnownBadAvoided
  <2>1. row[r].provider \in Providers \ row[r].excluded
    BY DEF FailoverInv, Elsewhere
  <2>2. row[s].provider \in row[r].excluded \cup {NoProvider}
    BY DEF FailoverInv, Chains, Chain, F!Is
  <2> QED
    BY <2>1, <2>2 DEF FailoverAssumption
<1> QED
  BY <1>1, Invariance, PTL

\* However often passes overlap, the rows that failovers created within the
\* policy's window are as many as failoverMaxAttempts and one more for each
\* overlap, however the window moves on; without an overlap, and without a
\* failover that throws half-way, one row of the service is live at most.
THEOREM FailoversAreFew == Spec => []FailoverBounded
<1>1. ServicesInv => FailoverBounded
  BY ServicesAssumption, FewIsBounded, Zenon DEF ServicesInv, FailoverBounded
<1> QED
  BY <1>1, Invariance, PTL

\* enforcer.ts:21: a deployment that runs is under its policy's limits, for any
\* number of requests at a time and whatever stopped and resumed it before: what
\* could leave a reason on a running deployment is a failure, or a stop between
\* the two writes of which the row was resumed.
THEOREM LimitsApply == Spec => []RunningIsUnderItsPolicy
<1>1. ServicesInv => RunningIsUnderItsPolicy
  BY PoliciesHold, Zenon DEF ServicesInv, RunningIsUnderItsPolicy
<1> QED
  BY <1>1, Invariance, PTL

\* gpuBidProbe.ts:456: without a failure of the lock or of a command, and however
\* many callers share the wallet, a probe leaves a deployment on the chain only
\* if the chain refused TX_RETRIES closes of it.
THEOREM ProbesClose == Spec => [](part = "wallet" => W!ProbesCloseWhatTheyOpen)
<1>1. ServicesInv => W!ProbesCloseWhatTheyOpen
  BY UnslippedCloses, Zenon DEF ServicesInv
<1> QED
  BY <1>1, Invariance, PTL

\* buildCallbackEndpoint.ts:117: the deployment of a build "must run AT MOST
\* ONCE", for any number of builders' reports, in any order, if a build takes
\* longer than the spawner's last update.
THEOREM AtMostOnce == SlowBuilds = TRUE => (Spec => []DeployedOnce)
<1> SUFFICES ASSUME SlowBuilds = TRUE PROVE Spec => []DeployedOnce
  OBVIOUS
<1>1. ServicesInv => DeployedOnce
  <2> SUFFICES ASSUME BuildsInv PROVE D!DeployedOnce
    BY Zenon DEF ServicesInv, DeployedOnce
  <2>1. Slow = D!BuildJobs
    BY DEF Slow
  <2> QED
    BY <2>1 DEF BuildsInv, D!TypeOK, OneDeployment, Ongoing, D!DeployedOnce
<1> QED
  BY <1>1, Invariance, PTL

\* config/akash.ts:57: a lease that begins at any minute outlasts one failed
\* top-up or missed run, whatever its price and deposit; with a failure, if
\* its price has no fraction, and its first top-up succeeded or its deposit
\* is worth two hours.
THEOREM LeaseLasts == DropsLittle => (Spec => []RunwayLasts)
<1> SUFFICES ASSUME DropsLittle PROVE Spec => []RunwayLasts
  OBVIOUS
<1>1. Init => ServicesInv /\ Unfailing
  BY ServicesInit
<1>2. ServicesInv /\ Unfailing /\ [Next]_vars => (ServicesInv /\ Unfailing)'
  BY ServicesNext
<1>3. ServicesInv /\ Unfailing => RunwayLasts
  BY LastingIsRunway, Zenon DEF ServicesInv, RunwayLasts
<1> QED
  BY <1>1, <1>2, <1>3, PTL DEF Spec
=============================================================================

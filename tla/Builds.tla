------------------------------- MODULE Builds -------------------------------
(***************************************************************************)
(* Builds of a service from its GitHub repository: pushes and rebuilds     *)
(* create a BuildJob (services/github/webhookEndpoint.ts,                  *)
(* resolvers/github.ts), a builder is spawned for it on Fly or, if that    *)
(* fails, on Kubernetes (buildSpawner.ts), and its callbacks end the job   *)
(* and deploy what was built (buildCallbackEndpoint.ts).  One service.     *)
(***************************************************************************)
EXTENDS Naturals, FiniteSets

CONSTANTS Shas,        \* commits
          Deliveries,  \* requests that bring a push, redeliveries among them
          MaxJobs,     \* bound: rows of build_job
          SlowBuilds,  \* whether a build outlasts the spawner's last update
          MaxMishap    \* bound: failed spawns, lost and repeated callbacks, crashes

VARIABLES
  build,     \* the rows of build_job
  push,      \* handlePushEvent, for this service, per delivery
  spawner,   \* where the request that created each job is
  builders,  \* machines that build each job
  calls,     \* callbacks on their way
  image,     \* Service.dockerImage, by commit
  deploying, \* autoDeployAfterBuild of each job
  recent,    \* a deployment younger than thirty seconds is in flight
  deployed,  \* deployments that each job's success has started
  mishaps    \* disturbances so far

dvars == <<build, push, spawner, builders, calls, image, deploying, recent, deployed, mishaps>>

BuildJobs == 1..MaxJobs
Terminal == {"SUCCEEDED", "FAILED", "CANCELED"}
None == "none"

TypeOK ==
  /\ build \in [BuildJobs -> [status : Terminal \cup {"ABSENT", "PENDING", "RUNNING"},
                              sha : Shas \cup {None}, byPush : BOOLEAN]]
  /\ push \in [Deliveries -> Shas \cup {None, "done"}]
  /\ spawner \in [BuildJobs -> {"none", "spawn", "update", "service", "done"}]
  /\ builders \in [BuildJobs -> 0..2]
  /\ calls \subseteq BuildJobs \X {"RUNNING", "SUCCEEDED", "FAILED"}
  /\ image \in Shas \cup {None}
  /\ deploying \in [BuildJobs -> {"none", "read", "deploy"}]
  /\ recent \in BOOLEAN /\ deployed \in [BuildJobs -> Nat] /\ mishaps \in 0..MaxMishap

Init ==
  /\ build = [j \in BuildJobs |-> [status |-> "ABSENT", sha |-> None, byPush |-> FALSE]]
  /\ push = [d \in Deliveries |-> None]
  /\ spawner = [j \in BuildJobs |-> "none"] /\ builders = [j \in BuildJobs |-> 0] /\ calls = {}
  /\ image = None /\ deploying = [j \in BuildJobs |-> "none"]
  /\ recent = FALSE /\ deployed = [j \in BuildJobs |-> 0] /\ mishaps = 0

Mishap == mishaps < MaxMishap /\ mishaps' = mishaps + 1
Existing == {j \in BuildJobs : build[j].status # "ABSENT"}
NextJob == Cardinality(Existing) + 1

Create(sha, byPush) ==
  /\ NextJob \in BuildJobs
  /\ build' = [build EXCEPT ![NextJob] = [status |-> "PENDING", sha |-> sha, byPush |-> byPush]]
  /\ spawner' = [spawner EXCEPT ![NextJob] = "spawn"]

-----------------------------------------------------------------------------
(* Pushes and rebuilds. *)

\* The push is taken for a redelivery if a job of its commit is younger than
\* five minutes and has not failed; the job is created later.
PushReads(d, sha) ==
  /\ push[d] = None
  /\ \/ push' = [push EXCEPT ![d] = sha]
     \/ /\ \E j \in Existing : build[j].sha = sha /\ build[j].status \in {"PENDING", "RUNNING", "SUCCEEDED"}
        /\ push' = [push EXCEPT ![d] = "done"]
  /\ UNCHANGED <<build, spawner, builders, calls, image, deploying, recent, deployed, mishaps>>

PushCreates(d) ==
  /\ push[d] \in Shas /\ Create(push[d], TRUE)
  /\ push' = [push EXCEPT ![d] = "done"]
  /\ UNCHANGED <<builders, calls, image, deploying, recent, deployed, mishaps>>

\* createGithubService, connectGithubRepo, redeployGithubService.
Request(sha) ==
  /\ Create(sha, FALSE)
  /\ UNCHANGED <<push, builders, calls, image, deploying, recent, deployed, mishaps>>

\* spawnBuildJob.  A Fly request that fails may have started its machine,
\* and the Kubernetes job is created beside it.
Spawn(j) ==
  /\ spawner[j] = "spawn"
  /\ \/ builders' = [builders EXCEPT ![j] = 1] /\ UNCHANGED mishaps
     \/ builders' = [builders EXCEPT ![j] = 2] /\ Mishap
  /\ spawner' = [spawner EXCEPT ![j] = "update"]
  /\ UNCHANGED <<build, push, calls, image, deploying, recent, deployed>>

\* The update after the spawn looks at nothing; a request updates its service too.
MarkRunning(j) ==
  /\ spawner[j] = "update"
  /\ build' = [build EXCEPT ![j].status = "RUNNING"]
  /\ spawner' = [spawner EXCEPT ![j] = IF build[j].byPush THEN "done" ELSE "service"]
  /\ UNCHANGED <<push, builders, calls, image, deploying, recent, deployed, mishaps>>

UpdateService(j) ==
  /\ spawner[j] = "service"
  /\ spawner' = [spawner EXCEPT ![j] = "done"]
  /\ UNCHANGED <<build, push, builders, calls, image, deploying, recent, deployed, mishaps>>

\* Both builders fail to start, or an update after it fails: the catch of a
\* request marks the job, whatever its status, and a push leaves it as it is.
\* Or the process dies.
SpawnFails(j) ==
  /\ Mishap
  /\ \/ spawner[j] = "spawn" /\ \E n \in 0..1 : builders' = [builders EXCEPT ![j] = n]
     \/ spawner[j] \in {"update", "service"} /\ UNCHANGED builders
  /\ spawner' = [spawner EXCEPT ![j] = "done"]
  /\ \/ UNCHANGED build
     \/ ~build[j].byPush /\ build' = [build EXCEPT ![j].status = "FAILED"]
  /\ UNCHANGED <<push, calls, image, deploying, recent, deployed>>

-----------------------------------------------------------------------------
(* Builders and their callbacks. *)
BuilderReports(j) ==
  /\ builders[j] > 0 /\ calls' = calls \cup {<<j, "RUNNING">>}
  /\ UNCHANGED <<build, push, spawner, builders, image, deploying, recent, deployed, mishaps>>

BuilderEnds(j, status) ==
  /\ builders[j] > 0 /\ (SlowBuilds => spawner[j] = "done")
  /\ builders' = [builders EXCEPT ![j] = @ - 1]
  /\ calls' = calls \cup {<<j, status>>}
  /\ UNCHANGED <<build, push, spawner, image, deploying, recent, deployed, mishaps>>

\* Delivered once, or again later (the builder retries), or never.
Delivered(c) == \/ calls' = calls \ {c} /\ UNCHANGED mishaps
                \/ UNCHANGED calls /\ Mishap

Lost(c) ==
  /\ c \in calls /\ calls' = calls \ {c} /\ Mishap
  /\ UNCHANGED <<build, push, spawner, builders, image, deploying, recent, deployed>>

Outcome(j, status) ==
  /\ build' = [build EXCEPT ![j].status = status]
  /\ image' = IF status = "SUCCEEDED" THEN build[j].sha ELSE image
  /\ deploying' = IF status = "SUCCEEDED" THEN [deploying EXCEPT ![j] = "read"] ELSE deploying

\* Mutant: only a different terminal status is held off.
CallbackMismatchOnly(j, status) ==
  /\ <<j, status>> \in calls /\ Delivered(<<j, status>>)
  /\ IF build[j].status \in Terminal \ {status} THEN UNCHANGED <<build, image, deploying>>
     ELSE Outcome(j, status)
  /\ UNCHANGED <<push, spawner, builders, recent, deployed>>

\* handleBuildCallback: the transaction compares and sets, and only the call
\* that moved the job out of its way deploys.
Callback(j, status) ==
  /\ <<j, status>> \in calls /\ Delivered(<<j, status>>)
  /\ IF build[j].status \in Terminal THEN UNCHANGED <<build, image, deploying>>
     ELSE Outcome(j, status)
  /\ UNCHANGED <<push, spawner, builders, recent, deployed>>

\* autoDeployAfterBuild looks for a deployment in flight, and then calls the
\* provider's mutation, which may refuse.  The process may die before it.
LookForDeployment(j) ==
  /\ deploying[j] = "read"
  /\ deploying' = [deploying EXCEPT ![j] = IF recent THEN "none" ELSE "deploy"]
  /\ UNCHANGED <<build, push, spawner, builders, calls, image, recent, deployed, mishaps>>

Deploy(j) ==
  /\ deploying[j] = "deploy"
  /\ deploying' = [deploying EXCEPT ![j] = "none"]
  /\ \/ deployed' = [deployed EXCEPT ![j] = @ + 1] /\ recent' = TRUE
     \/ UNCHANGED <<deployed, recent>>
  /\ UNCHANGED <<build, push, spawner, builders, calls, image, mishaps>>

Crash(j) ==
  /\ deploying[j] # "none" /\ Mishap
  /\ deploying' = [deploying EXCEPT ![j] = "none"]
  /\ UNCHANGED <<build, push, spawner, builders, calls, image, recent, deployed>>

\* The deployment ends, or thirty seconds pass.
Later ==
  /\ recent /\ recent' = FALSE
  /\ UNCHANGED <<build, push, spawner, builders, calls, image, deploying, deployed, mishaps>>

Next ==
  \/ \E sha \in Shas : Request(sha) \/ \E d \in Deliveries : PushReads(d, sha)
  \/ \E d \in Deliveries : PushCreates(d)
  \/ \E j \in BuildJobs :
       \/ Spawn(j) \/ SpawnFails(j) \/ MarkRunning(j) \/ UpdateService(j)
       \/ BuilderReports(j)
       \/ \E status \in {"SUCCEEDED", "FAILED"} : BuilderEnds(j, status)
       \/ \E status \in {"RUNNING", "SUCCEEDED", "FAILED"} : Callback(j, status) \/ Lost(<<j, status>>)
       \/ LookForDeployment(j) \/ Deploy(j) \/ Crash(j)
  \/ Later

Spec == Init /\ [][Next]_dvars

-----------------------------------------------------------------------------
(* Properties. *)

\* buildCallbackEndpoint.ts:117: autoDeployAfterBuild "must run AT MOST ONCE"
\* for a job, whatever its one or two builders report, in whatever order, and
\* however often each report arrives.
DeployedOnce == \A j \in BuildJobs : deployed[j] <= 1
=============================================================================

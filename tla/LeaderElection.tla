--------------------------- MODULE LeaderElection ---------------------------
(***************************************************************************)
(* Leader election (services/leader/leaderElection.ts) for one singleton   *)
(* scheduler, the stale deployment sweeper: the lease row in the database, *)
(* and per pod the acquire poll, the heartbeat interval, onLost, the       *)
(* graceful stop and the sweeps, over queries that take effect and are     *)
(* answered at different moments.                                          *)
(*                                                                         *)
(* Time is discrete.  An interval fires exactly when it is due; a query is *)
(* answered, or throws, within Latency of being sent, after or before it   *)
(* took effect.  A sweep takes any time, and goes on when the pod loses    *)
(* the lease or is stopped.  Pods that died do not come back: a restarted  *)
(* process has a leader id of its own.  To start this scheduler does not   *)
(* throw, so the catch around onAcquire is left out.                       *)
(***************************************************************************)
EXTENDS Integers, FiniteSets

CONSTANTS Pod,           \* processes, by leader id
          NoPod,         \* the owner of a lease that does not exist
          LeaseTtl,      \* LEASE_TTL_MS
          Heartbeat,     \* HEARTBEAT_MS
          PollEvery,     \* half of it
          Latency,       \* bound on the round trip of a query
          MaxFaults      \* bound on crashes and throwing calls

ASSUME LeaderAssumption ==
  /\ NoPod \notin Pod
  /\ {LeaseTtl, Heartbeat, PollEvery, Latency} \subseteq Nat \ {0}
  /\ MaxFaults \in Nat
  /\ 2 * Latency < PollEvery /\ PollEvery <= Heartbeat
  /\ Heartbeat + 2 * Latency <= LeaseTtl

VARIABLES owner,     \* leader_id of the lease row, NoPod without a row
          leaseAge,  \* time since the row's last renewal
          phase,     \* [Pod -> stage of its life]
          leading,   \* [Pod -> isLeader, with the sweep interval set]
          beats,     \* [Pod -> phases of its heartbeat intervals]
          sweeps,    \* [Pod -> its sweeps in flight: activeSweep, and such as a
                     \*         later start of the scheduler displaced from it]
          since,     \* [Pod -> time its sweeps have gone on without a renewal]
          timer,     \* [Pod -> time since the last poll]
          queries,   \* statements sent to the database and not yet answered
          vacant,    \* time since the last fault or stop with pods up, none leading
          faults

row  == <<owner, leaseAge>>
work == <<leading, sweeps, since>>
vars == <<row, phase, work, beats, timer, queries, vacant, faults>>

\* A standby may have to wait for a renewal that lands as its pod stops, for
\* the whole lease, for its next poll, and for the answer to that poll or to
\* that of the pod which takes the lease just before.
MaxVacancy == LeaseTtl + PollEvery + 3 * Latency

\* What is left of the lease when a beat fails, at the least.
Grace == LeaseTtl - Heartbeat - 2 * Latency

Query == [pod    : Pod,
          kind   : {"acquire", "beat", "release"},
          status : {"sent", "won", "lost"},   \* not yet in effect, or its result
          age    : 0..Latency]

Init ==
  /\ owner = NoPod
  /\ leaseAge = 0
  /\ phase = [p \in Pod |-> "off"]
  /\ leading = [p \in Pod |-> FALSE]
  /\ sweeps = [p \in Pod |-> {}]
  /\ since = [p \in Pod |-> 0]
  /\ beats = [p \in Pod |-> {}]
  /\ timer = [p \in Pod |-> 0]
  /\ queries = {}
  /\ vacant = 0
  /\ faults = 0

Sent(p, kind) == [pod |-> p, kind |-> kind, status |-> "sent", age |-> 0]

Alive(p) == phase[p] \in {"starting", "up", "draining", "stopping", "stopped"}

-----------------------------------------------------------------------------
(* The database *)

Expired == leaseAge > LeaseTtl

\* Mutant: an expired lease is not taken over.
AcquirableUnexpired(p) == owner \in {NoPod, p}

\* The WHERE clause of the upsert: no row, our own row, or an expired one.
Acquirable(p) == owner \in {NoPod, p} \/ Expired

\* tryAcquire takes effect: the row is written as a whole, or not at all.
Upsert(q) ==
  /\ q.kind # "release"
  /\ q.status = "sent"
  /\ IF Acquirable(q.pod)
       THEN /\ owner' = q.pod
            /\ leaseAge' = 0
            /\ queries' = (queries \ {q}) \union {[q EXCEPT !.status = "won"]}
       ELSE /\ queries' = (queries \ {q}) \union {[q EXCEPT !.status = "lost"]}
            /\ UNCHANGED row
  /\ UNCHANGED <<phase, work, beats, timer, vacant, faults>>

\* releaseLease deletes the row if it is still ours.
Delete(q) ==
  /\ q.kind = "release"
  /\ q.status = "sent"
  /\ owner' = IF owner = q.pod THEN NoPod ELSE owner
  /\ queries' = (queries \ {q}) \union {[q EXCEPT !.status = "won"]}
  /\ UNCHANGED <<leaseAge, phase, work, beats, timer, vacant, faults>>

-----------------------------------------------------------------------------
(* attemptAcquireAndStart *)

\* runWithLeadership tries eagerly; the poll interval starts afterwards.
Start(p) ==
  /\ phase[p] = "off"
  /\ phase' = [phase EXCEPT ![p] = "starting"]
  /\ queries' = queries \union {Sent(p, "acquire")}
  /\ UNCHANGED <<row, work, beats, timer, vacant, faults>>

\* Each poll sends an acquire, unless this pod leads.
Poll(p) ==
  /\ phase[p] = "up"
  /\ timer[p] = PollEvery
  /\ timer' = [timer EXCEPT ![p] = 0]
  /\ queries' = IF leading[p] THEN queries
                ELSE queries \union {Sent(p, "acquire")}
  /\ UNCHANGED <<row, phase, work, beats, vacant, faults>>

\* The eager attempt is over: the poll interval starts.
Attempted(p) ==
  IF phase[p] = "starting"
    THEN /\ phase' = [phase EXCEPT ![p] = "up"]
         /\ timer' = [timer EXCEPT ![p] = 0]
    ELSE UNCHANGED <<phase, timer>>

Answered(q, kind, status) ==
  /\ q.kind = kind
  /\ q.status = status
  /\ Alive(q.pod)

\* runSweep: the new sweep is the active one, whether or not one was in flight.
Begun(S) == {"active"} \union (IF S = {} THEN {} ELSE {"displaced"})

\* The lease was won: the heartbeat interval and the scheduler start, with a
\* sweep at once.  Whether the pod was stopped while it waited is not asked
\* again; an interval it starts after the stop finds it stopped and beats no
\* more.
Win(q) ==
  /\ Answered(q, "acquire", "won")
  /\ leading' = [leading EXCEPT ![q.pod] = TRUE]
  /\ sweeps' = [sweeps EXCEPT ![q.pod] = Begun(@)]
  /\ since' = [since EXCEPT ![q.pod] = 0]
  /\ beats' = IF phase[q.pod] \in {"starting", "up"}
                THEN [beats EXCEPT ![q.pod] = @ \union {0}]
                ELSE beats
  /\ queries' = queries \ {q}
  /\ Attempted(q.pod)
  /\ UNCHANGED <<row, vacant, faults>>

Lose(q) ==
  /\ Answered(q, "acquire", "lost")
  /\ queries' = queries \ {q}
  /\ Attempted(q.pod)
  /\ UNCHANGED <<row, work, beats, vacant, faults>>

-----------------------------------------------------------------------------
(* The sweeps *)

\* The interval starts a sweep unless one is active.
Sweep(p) ==
  /\ leading[p]
  /\ "active" \notin sweeps[p]
  /\ sweeps' = [sweeps EXCEPT ![p] = Begun(@)]
  /\ UNCHANGED <<row, phase, leading, since, beats, timer, queries, vacant, faults>>

Swept(p, s) ==
  /\ s \in sweeps[p]
  /\ sweeps' = [sweeps EXCEPT ![p] = @ \ {s}]
  /\ UNCHANGED <<row, phase, leading, since, beats, timer, queries, vacant, faults>>

-----------------------------------------------------------------------------
(* The heartbeat interval, and onLost *)

Beat(p) ==
  /\ phase[p] = "up"
  /\ Heartbeat \in beats[p]
  /\ beats' = [beats EXCEPT ![p] = (@ \ {Heartbeat}) \union {0}]
  /\ queries' = queries \union {Sent(p, "beat")}
  /\ UNCHANGED <<row, phase, work, timer, vacant, faults>>

Renewed(q) ==
  /\ Answered(q, "beat", "won")
  /\ queries' = queries \ {q}
  /\ UNCHANGED <<row, phase, work, beats, timer, vacant, faults>>

\* A rejected renewal clears the sweep interval: no sweep begins any more, and
\* the one in flight goes on.  The heartbeat interval keeps beating.
Rejected(q) ==
  /\ Answered(q, "beat", "lost")
  /\ leading' = [leading EXCEPT ![q.pod] = FALSE]
  /\ queries' = queries \ {q}
  /\ UNCHANGED <<row, phase, sweeps, since, beats, timer, vacant, faults>>

\* The pod's lease is released, or was not: it goes on with its shutdown.
Released(p) ==
  /\ phase' = IF phase[p] = "stopping" THEN [phase EXCEPT ![p] = "stopped"] ELSE phase
  /\ UNCHANGED timer

\* A query throws, before or after it took effect.  A failed attempt waits for
\* the next poll, a failed beat is like a rejected one, a failed release is
\* swallowed.
Throw(q) ==
  /\ faults < MaxFaults
  /\ Alive(q.pod)
  /\ queries' = queries \ {q}
  /\ leading' = IF q.kind = "beat" THEN [leading EXCEPT ![q.pod] = FALSE]
                ELSE leading
  /\ IF q.kind = "release" THEN Released(q.pod)
     ELSE IF q.kind = "acquire" THEN Attempted(q.pod)
     ELSE UNCHANGED <<phase, timer>>
  /\ faults' = faults + 1
  /\ vacant' = 0
  /\ UNCHANGED <<row, sweeps, since, beats>>

-----------------------------------------------------------------------------
(* stopLifecycle, and the end of a process *)

\* Mutant: the lease is released before the sweep is waited for.
StopReleasesFirst(p) ==
  /\ phase[p] \in {"starting", "up"}
  /\ phase' = [phase EXCEPT ![p] = IF leading[p] THEN "stopping" ELSE "stopped"]
  /\ queries' = IF leading[p] THEN queries \union {Sent(p, "release")} ELSE queries
  /\ leading' = [leading EXCEPT ![p] = FALSE]
  /\ beats' = [beats EXCEPT ![p] = {}]
  /\ timer' = [timer EXCEPT ![p] = 0]
  /\ vacant' = 0
  /\ UNCHANGED <<row, sweeps, since, faults>>

\* Mutant: the heartbeat interval is not cleared.
StopKeepsBeating(p) ==
  /\ phase[p] \in {"starting", "up"}
  /\ phase' = [phase EXCEPT ![p] = IF leading[p] THEN "draining" ELSE "stopped"]
  /\ leading' = [leading EXCEPT ![p] = FALSE]
  /\ timer' = [timer EXCEPT ![p] = 0]
  /\ vacant' = 0
  /\ UNCHANGED <<row, sweeps, since, beats, queries, faults>>

\* The intervals are cleared.  A leading pod waits for its active sweep, however
\* long that takes, before it gives up the lease.
Stop(p) ==
  /\ phase[p] \in {"starting", "up"}
  /\ phase' = [phase EXCEPT ![p] = IF leading[p] THEN "draining" ELSE "stopped"]
  /\ leading' = [leading EXCEPT ![p] = FALSE]
  /\ beats' = [beats EXCEPT ![p] = {}]
  /\ timer' = [timer EXCEPT ![p] = 0]
  /\ vacant' = 0
  /\ UNCHANGED <<row, sweeps, since, queries, faults>>

\* onRelease is done: the lease is released, and that is waited for.
Drained(p) ==
  /\ phase[p] = "draining"
  /\ "active" \notin sweeps[p]
  /\ phase' = [phase EXCEPT ![p] = "stopping"]
  /\ queries' = queries \union {Sent(p, "release")}
  /\ UNCHANGED <<row, work, beats, timer, vacant, faults>>

Deleted(q) ==
  /\ Answered(q, "release", "won")
  /\ queries' = queries \ {q}
  /\ Released(q.pod)
  /\ UNCHANGED <<row, work, beats, vacant, faults>>

\* p is gone; what it sent may still take effect.
Die(p) ==
  /\ phase' = [phase EXCEPT ![p] = "dead"]
  /\ leading' = [leading EXCEPT ![p] = FALSE]
  /\ sweeps' = [sweeps EXCEPT ![p] = {}]
  /\ since' = [since EXCEPT ![p] = 0]
  /\ beats' = [beats EXCEPT ![p] = {}]
  /\ timer' = [timer EXCEPT ![p] = 0]
  /\ queries' = {q \in queries : q.pod = p => q.status = "sent"}

\* gracefulShutdown exits the process some time after the schedulers stopped.
Exit(p) ==
  /\ phase[p] = "stopped"
  /\ Die(p)
  /\ UNCHANGED <<row, vacant, faults>>

Crash(p) ==
  /\ faults < MaxFaults
  /\ Alive(p)
  /\ Die(p)
  /\ faults' = faults + 1
  /\ vacant' = 0
  /\ UNCHANGED row

\* The connection of a dead pod is closed before its query took effect.
Dropped(q) ==
  /\ ~Alive(q.pod)
  /\ queries' = queries \ {q}
  /\ UNCHANGED <<row, phase, work, beats, timer, vacant, faults>>

-----------------------------------------------------------------------------
(* Time *)

Up == {p \in Pod : phase[p] = "up"}

\* What must happen before time passes: due intervals, stops with nothing to
\* wait for, and late answers.
Urgent ==
  \/ \E p \in Up : timer[p] = PollEvery \/ Heartbeat \in beats[p]
  \/ \E p \in Pod : phase[p] = "draining" /\ "active" \notin sweeps[p]
  \/ \E q \in queries : q.age = Latency

\* The age of what has expired makes no difference.
Capped(n, max) == IF n = max THEN n ELSE n + 1

\* A pod works while it leads or its sweeps go on, but for a displaced sweep,
\* which the pod's stop does not wait for, once the stop released the lease.
\* Nothing renews the lease of a pod that leads no more, or leads only since it
\* was stopped.
Works(p) ==
  \/ leading[p] \/ "active" \in sweeps[p]
  \/ sweeps[p] # {} /\ phase[p] \in {"up", "draining"}
Renewing(p) == leading[p] /\ phase[p] = "up"

Tick ==
  /\ ~Urgent
  /\ leaseAge' = IF owner = NoPod THEN leaseAge ELSE Capped(leaseAge, LeaseTtl + 1)
  /\ beats' = [p \in Pod |-> {t + 1 : t \in beats[p]}]
  /\ timer' = [p \in Pod |-> IF phase[p] = "up" THEN timer[p] + 1 ELSE timer[p]]
  /\ since' = [p \in Pod |-> IF Works(p) /\ ~Renewing(p)
                               THEN Capped(since[p], Grace + 1) ELSE 0]
  /\ queries' = {[q EXCEPT !.age = @ + 1] : q \in queries}
  /\ vacant' = IF Up = {} \/ \E p \in Up : leading[p] THEN 0
               ELSE Capped(vacant, MaxVacancy + 1)
  /\ UNCHANGED <<owner, phase, leading, sweeps, faults>>

Next ==
  \/ \E p \in Pod : \/ Start(p) \/ Poll(p) \/ Beat(p) \/ Sweep(p)
                    \/ Swept(p, "active") \/ Swept(p, "displaced")
                    \/ Stop(p) \/ Drained(p) \/ Exit(p) \/ Crash(p)
  \/ \E q \in queries : \/ Upsert(q) \/ Delete(q) \/ Win(q) \/ Lose(q)
                        \/ Renewed(q) \/ Rejected(q) \/ Throw(q)
                        \/ Deleted(q) \/ Dropped(q)
  \/ Tick

Spec == Init /\ [][Next]_vars

-----------------------------------------------------------------------------
(* Properties *)

\* Besides the types: intervals run only in pods that are not stopped, and
\* sweeps only in processes that are there.
TypeOK ==
  /\ owner \in Pod \union {NoPod}
  /\ leaseAge \in 0..(LeaseTtl + 1)
  /\ phase \in [Pod -> {"off", "starting", "up", "draining", "stopping", "stopped", "dead"}]
  /\ leading \in [Pod -> BOOLEAN]
  /\ sweeps \in [Pod -> SUBSET {"active", "displaced"}]
  /\ since \in [Pod -> 0..(Grace + 1)]
  /\ beats \in [Pod -> SUBSET (0..Heartbeat)]
  /\ timer \in [Pod -> 0..PollEvery]
  /\ queries \subseteq Query
  /\ vacant \in 0..(MaxVacancy + 1)
  /\ faults \in 0..MaxFaults
  /\ \A p \in Pod : /\ phase[p] # "up" => beats[p] = {}
                    /\ phase[p] \in {"off", "dead"} => sweeps[p] = {}

\* What a working pod does without a renewal counts for as long as its lease
\* cannot have run out.
Active(p) == Works(p) /\ since[p] <= Grace

\* Only one pod is elected: no two pods start sweeps or have one in flight, not
\* even while an old leader has yet to learn that it lost the lease, sweeps on
\* after a failed beat or drains its sweep before it exits, or when a pod wins
\* the lease while it is being stopped.
AtMostOneActive == \A p, q \in Pod : Active(p) /\ Active(q) => p = q

\* A standby takes over: as long as a pod is up, the scheduler is not without
\* a leader for longer than a lease, a poll and the queries they take, counted
\* from the last fault or shutdown, though the sweep of a stopped leader may
\* go on for longer.
TakeoverInTime == vacant <= MaxVacancy
=============================================================================

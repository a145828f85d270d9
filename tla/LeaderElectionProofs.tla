------------------------ MODULE LeaderElectionProofs ------------------------
(***************************************************************************)
(* No two pods are active at a time, and the scheduler is not without a    *)
(* leader for longer than MaxVacancy, for any pods, faults and timings     *)
(* within LeaderAssumption.                                                *)
(*                                                                         *)
(* The first argument: a pod that leads owns the lease, and the lease is   *)
(* young (Rules): its beats renew it in time while the pod is up.  When it *)
(* leads no more the lease it had ages with its sweeps (Holds), and the    *)
(* only one who may delete it is the pod itself, in a release it sends     *)
(* when its active sweep has ended.  So nobody else can take the lease     *)
(* before Grace is over.  OneAtATime is why a pod whose release is on its  *)
(* way has no attempt on its way.  The second argument is with its         *)
(* invariant, VInv, below.                                                 *)
(***************************************************************************)
EXTENDS LeaderElection, TLAPS

\* What there is in which phase.
Timed(p) ==
  /\ phase[p] # "up" => timer[p] = 0 /\ beats[p] = {}
  /\ phase[p] \in {"off", "starting", "dead"} => sweeps[p] = {}

Of(p, kind) == {q \in queries : q.pod = p /\ q.kind = kind}

\* A pod has at most one attempt on its way, and a release only when it has no
\* attempt and no active sweep: polls are further apart than an attempt lasts,
\* and a pod that leads does not poll.
OneAtATime(p) ==
  /\ \A q, r \in Of(p, "acquire") : q = r
  /\ \A q, r \in Of(p, "release") : q = r
  /\ Of(p, "acquire") = {} \/ Of(p, "release") = {}
  /\ phase[p] = "off" => Of(p, "acquire") = {}
  /\ phase[p] \notin {"stopping", "dead"} => Of(p, "release") = {}
  /\ phase[p] \in {"draining", "stopping"} => Of(p, "acquire") = {}
  /\ phase[p] = "stopping" => "active" \notin sweeps[p]
  /\ phase[p] = "up" => \A q \in Of(p, "acquire") : timer[p] <= q.age

\* What was won lately is still owned.
Fresh == \A q \in queries :
  q.kind # "release" /\ q.status = "won" /\ owner = q.pod => leaseAge <= q.age
Kept == \A q \in queries : q.kind = "acquire" /\ q.status = "won" => owner = q.pod

Leads == {p \in Pod : leading[p]}

\* Whoever leads owns a lease that a beat renews, or has tried to renew, in time.
Renews(p) ==
  \/ \E t \in beats[p] : leaseAge <= t + Latency
  \/ \E q \in Of(p, "beat") : leaseAge <= Heartbeat + Latency + q.age
Rules(p) ==
  /\ Of(p, "acquire") = {}
  /\ phase[p] \in {"up", "stopped"}
  /\ phase[p] = "up" => owner = p /\ beats[p] # {} /\ Renews(p) /\ since[p] = 0

\* Works, and what the lease of a pod that works is like.
Busy(p) ==
  \/ p \in Leads \/ "active" \in sweeps[p]
  \/ sweeps[p] # {} /\ phase[p] \in {"up", "draining"}
Holds(p) == Busy(p) /\ since[p] <= Grace =>
  owner = p /\ leaseAge <= Heartbeat + 2 * Latency + since[p]

IInv ==
  /\ TypeOK /\ Fresh /\ Kept
  /\ \A p \in Pod : Timed(p) /\ OneAtATime(p) /\ Holds(p)
  /\ \A p \in Leads : Rules(p)

Typed ==
  /\ owner \in Pod \union {NoPod} /\ leaseAge \in 0..(LeaseTtl + 1)
  /\ phase \in [Pod -> {"off", "starting", "up", "draining", "stopping", "stopped", "dead"}]
  /\ sweeps \in [Pod -> SUBSET {"active", "displaced"}] /\ since \in [Pod -> 0..(Grace + 1)]
  /\ beats \in [Pod -> SUBSET (0..Heartbeat)]
  /\ timer \in [Pod -> 0..PollEvery]
  /\ queries \subseteq Query
  /\ vacant \in 0..(MaxVacancy + 1) /\ faults \in 0..MaxFaults

LEMMA Types == TypeOK => Typed /\ leading \in [Pod -> BOOLEAN]
BY Zenon DEF TypeOK, Typed

LEMMA TypesNow ==
  Typed /\ leading \in [Pod -> BOOLEAN] /\ (\A p \in Pod : Timed(p)) => TypeOK
<1>1. (\A p \in Pod : Timed(p)) =>
      \A p \in Pod : (phase[p] # "up" => beats[p] = {})
                     /\ (phase[p] \in {"off", "dead"} => sweeps[p] = {})
  BY DEF Timed
<1> QED
  BY <1>1, Zenon DEF TypeOK, Typed

LEMMA TypesNext ==
  /\ TypeOK' => Typed' /\ leading' \in [Pod -> BOOLEAN]
  /\ Typed' /\ leading' \in [Pod -> BOOLEAN] /\ (\A p \in Pod : Timed(p))' => TypeOK'
<1>1. (\A p \in Pod : Timed(p))' =>
      \A p \in Pod : (phase'[p] # "up" => beats'[p] = {})
                     /\ (phase'[p] \in {"off", "dead"} => sweeps'[p] = {})
  BY DEF Timed
<1>2. TypeOK' => Typed' /\ leading' \in [Pod -> BOOLEAN]
  BY Zenon DEF TypeOK, Typed
<1>3. Typed' /\ leading' \in [Pod -> BOOLEAN] /\ (\A p \in Pod : Timed(p))' => TypeOK'
  BY <1>1, Zenon DEF TypeOK, Typed
<1> QED
  BY <1>2, <1>3

LEMMA WorksBusy == \A p \in Pod : Works(p) <=> Busy(p)
BY Zenon DEF Works, Busy, Leads

LEMMA GraceFits == Grace \in Nat /\ Heartbeat + 2 * Latency + Grace = LeaseTtl
BY LeaderAssumption DEF Grace

LEMMA InitIInv == Init => IInv
<1> SUFFICES ASSUME Init PROVE IInv
  OBVIOUS
<1>1. Typed
  BY LeaderAssumption, GraceFits DEF Init, Typed, MaxVacancy
<1>2. leading \in [Pod -> BOOLEAN] /\ Leads = {}
  BY Zenon DEF Init, Leads
<1>3. Fresh /\ Kept /\ \A p \in Pod : Timed(p) /\ OneAtATime(p) /\ Holds(p)
  BY <1>2, LeaderAssumption DEF Init, Fresh, Kept, Timed, OneAtATime, Of, Holds, Busy
<1> QED
  BY <1>1, <1>2, <1>3, TypesNow DEF IInv

-----------------------------------------------------------------------------
LEMMA Loses ==
  ASSUME TypeOK, NEW p \in Pod, leading' = [leading EXCEPT ![p] = FALSE]
  PROVE  leading' \in [Pod -> BOOLEAN] /\ Leads' \subseteq Leads \ {p}
<1>1. leading \in [Pod -> BOOLEAN]
  BY Types
<1>2. leading' \in [Pod -> BOOLEAN]
  BY <1>1, Zenon
<1>3. ~leading'[p] /\ \A r \in Pod \ {p} : leading'[r] = leading[r]
  BY <1>1, Zenon
<1> QED
  BY <1>2, <1>3, Zenon DEF Leads

LEMMA Gains ==
  ASSUME TypeOK, NEW p \in Pod, leading' = [leading EXCEPT ![p] = TRUE]
  PROVE  leading' \in [Pod -> BOOLEAN] /\ Leads' \subseteq Leads \cup {p}
<1>1. leading \in [Pod -> BOOLEAN]
  BY Types
<1>2. leading' \in [Pod -> BOOLEAN]
  BY <1>1, Zenon
<1>3. \A r \in Pod \ {p} : leading'[r] = leading[r]
  BY <1>1, Zenon
<1> QED
  BY <1>2, <1>3, Zenon DEF Leads

LEMMA Stays ==
  ASSUME TypeOK, leading' = leading
  PROVE  leading' \in [Pod -> BOOLEAN] /\ Leads' = Leads
BY Types, Zenon DEF Leads

\* A lease that beats renew is young.
LEMMA RenewsInTime ==
  ASSUME Typed, NEW p \in Pod, Renews(p) PROVE leaseAge <= Heartbeat + 2 * Latency
<1>1. \A q \in queries : q.age \in 0..Latency
  BY DEF Typed, Query
<1>2. ASSUME NEW q \in Of(p, "beat"), leaseAge <= Heartbeat + Latency + q.age
      PROVE  leaseAge <= Heartbeat + 2 * Latency
  BY <1>1, <1>2, LeaderAssumption DEF Typed, Of
<1>3. ASSUME NEW t \in beats[p], leaseAge <= t + Latency
      PROVE  leaseAge <= Heartbeat + 2 * Latency
  BY <1>3, LeaderAssumption DEF Typed
<1> QED
  BY <1>2, <1>3 DEF Renews

LEMMA RenewsInTimeNext ==
  ASSUME Typed', NEW p \in Pod, Renews(p)' PROVE leaseAge' <= Heartbeat + 2 * Latency
<1>1. \A q \in queries' : q.age \in 0..Latency
  BY DEF Typed, Query
<1>2. ASSUME NEW q \in Of(p, "beat")', leaseAge' <= Heartbeat + Latency + q.age
      PROVE  leaseAge' <= Heartbeat + 2 * Latency
  BY <1>1, <1>2, LeaderAssumption DEF Typed, Of
<1>3. ASSUME NEW t \in beats'[p], leaseAge' <= t + Latency
      PROVE  leaseAge' <= Heartbeat + 2 * Latency
  BY <1>3, LeaderAssumption DEF Typed
<1> QED
  BY <1>2, <1>3 DEF Renews

\* The lease of a pod that is up and leads has not expired.
LEMMA RulesInTime ==
  ASSUME IInv, NEW p \in Leads, phase[p] = "up"
  PROVE  p \in Pod /\ owner = p /\ leaseAge <= LeaseTtl
<1>1. Typed /\ Rules(p) /\ p \in Pod
  BY Types DEF IInv, Leads
<1>2. leaseAge <= Heartbeat + 2 * Latency
  BY <1>1, RenewsInTime DEF Rules
<1> QED
  BY <1>1, <1>2, LeaderAssumption DEF Typed, Rules

\* Who is busy, and not for too long, owns a lease that has not expired.
LEMMA BusyInTime ==
  ASSUME IInv, NEW p \in Pod, Busy(p), since[p] <= Grace
  PROVE  owner = p /\ ~Expired
<1>1. owner = p /\ leaseAge <= Heartbeat + 2 * Latency + since[p] /\ Typed
  BY Types DEF IInv, Holds
<1>2. leaseAge <= LeaseTtl
  BY <1>1, GraceFits, LeaderAssumption DEF Typed
<1> QED
  BY <1>1, <1>2, LeaderAssumption DEF Expired, Typed

\* A step of one pod, which leaves the database alone.
LEMMA StepOfPod ==
  ASSUME IInv, NEW p \in Pod, Typed', leading' \in [Pod -> BOOLEAN], UNCHANGED row,
         \A r \in Pod \ {p} : /\ phase'[r] = phase[r] /\ beats'[r] = beats[r]
                              /\ timer'[r] = timer[r] /\ sweeps'[r] = sweeps[r]
                              /\ since'[r] = since[r],
         {q \in queries' : q.pod # p} = {q \in queries : q.pod # p},
         \A q \in queries' \ queries : q.status = "sent",
         Leads' \subseteq Leads \cup {p},
         Timed(p)', OneAtATime(p)', Holds(p)', p \in Leads' => Rules(p)'
  PROVE  IInv'
<1>1. Fresh' /\ Kept'
  BY DEF IInv, Fresh, Kept, row
<1>2. \A r \in Pod \ {p} : Of(r, "acquire")' = Of(r, "acquire") /\ Of(r, "release")' = Of(r, "release")
                            /\ Of(r, "beat")' = Of(r, "beat")
  BY DEF Of
<1>3. ASSUME NEW r \in Pod \ {p} PROVE Timed(r)' /\ OneAtATime(r)' /\ Holds(r)'
  <2>1. Timed(r) /\ OneAtATime(r) /\ Holds(r)
    BY DEF IInv
  <2>2. Timed(r)' /\ OneAtATime(r)'
    BY <1>2, <2>1 DEF Timed, OneAtATime
  <2>3. Holds(r)'
    BY <2>1 DEF Holds, Busy, row
  <2> QED
    BY <2>2, <2>3
<1>4. ASSUME NEW r \in Leads' \ {p} PROVE Rules(r)'
  <2>1. Rules(r) /\ r \in Pod \ {p}
    BY DEF IInv, Leads
  <2> QED
    BY <1>2, <2>1 DEF Rules, Renews, row
<1>5. (\A r \in Pod : Timed(r) /\ OneAtATime(r) /\ Holds(r))' /\ (\A r \in Leads : Rules(r))'
  BY <1>3, <1>4
<1>6. TypeOK'
  BY <1>5, TypesNext
<1> QED
  BY <1>1, <1>5, <1>6 DEF IInv

\* A step by which a pod that holds the lease, or is idle, gets no busier.
LEMMA NoBusier ==
  ASSUME IInv, NEW p \in Pod, UNCHANGED row, since'[p] = since[p], Busy(p)' => Busy(p)
  PROVE  Holds(p)'
BY DEF IInv, Holds, row

LEMMA SentIsAQuery ==
  ASSUME NEW p \in Pod, NEW kind \in {"acquire", "beat", "release"}
  PROVE  /\ Sent(p, kind) \in Query /\ Sent(p, kind).pod = p /\ Sent(p, kind).kind = kind
         /\ Sent(p, kind).status = "sent" /\ Sent(p, kind).age = 0
BY LeaderAssumption DEF Sent, Query

\* A step that removes an answered query, or sends one.
LEMMA Removed ==
  ASSUME NEW q \in queries, queries' = queries \ {q}
  PROVE  /\ {r \in queries' : r.pod # q.pod} = {r \in queries : r.pod # q.pod}
         /\ \A p, kind : Of(p, kind)' = Of(p, kind) \ {q}
BY DEF Of

LEMMA Added ==
  ASSUME NEW p \in Pod, NEW kind \in {"acquire", "beat", "release"},
         queries' = queries \union {Sent(p, kind)}
  PROVE  /\ {r \in queries' : r.pod # p} = {r \in queries : r.pod # p}
         /\ \A r \in queries' \ queries : r.status = "sent"
         /\ Of(p, kind)' = Of(p, kind) \cup {Sent(p, kind)}
         /\ \A other : other # kind => Of(p, other)' = Of(p, other)
BY SentIsAQuery DEF Of

-----------------------------------------------------------------------------
(* Polls and attempts. *)
LEMMA StartIInv == ASSUME IInv, NEW p \in Pod, Start(p) PROVE IInv'
<1>1. /\ phase[p] = "off" /\ phase' = [phase EXCEPT ![p] = "starting"]
      /\ queries' = queries \union {Sent(p, "acquire")}
      /\ UNCHANGED <<row, leading, sweeps, since, beats, timer, vacant, faults>>
  BY DEF Start, work
<1>2. Typed /\ Timed(p) /\ OneAtATime(p)
  BY Types DEF IInv
<1>3. Typed'
  BY <1>1, <1>2, SentIsAQuery DEF Typed, row
<1>4. leading' \in [Pod -> BOOLEAN] /\ Leads' = Leads
  BY <1>1, Stays DEF IInv
<1>5. p \notin Leads
  BY <1>1 DEF IInv, Rules
<1>6. Of(p, "acquire")' = {Sent(p, "acquire")} /\ Of(p, "release")' = {}
  BY <1>1, <1>2, Added DEF OneAtATime
<1>7. phase'[p] = "starting" /\ \A r \in Pod \ {p} : phase'[r] = phase[r]
  BY <1>1, <1>2 DEF Typed
<1>8. Timed(p)' /\ OneAtATime(p)'
  BY <1>1, <1>2, <1>6, <1>7 DEF Timed, OneAtATime
<1>9. Holds(p)'
  BY <1>1, <1>2, <1>4, <1>5, <1>7 DEF Holds, Busy, Timed
<1> QED
  BY <1>1, <1>3, <1>4, <1>5, <1>7, <1>8, <1>9, Added, StepOfPod

LEMMA PollIInv == ASSUME IInv, NEW p \in Pod, Poll(p) PROVE IInv'
<1>1. /\ phase[p] = "up" /\ timer[p] = PollEvery /\ timer' = [timer EXCEPT ![p] = 0]
      /\ UNCHANGED <<row, phase, leading, sweeps, since, beats, vacant, faults>>
  BY DEF Poll, work
<1>2. Typed /\ Timed(p) /\ OneAtATime(p)
  BY Types DEF IInv
<1>3. Of(p, "acquire") = {} /\ Of(p, "release") = {}
  <2>1. \A q \in queries : q.age <= Latency /\ q.age \in Nat
    BY <1>2, LeaderAssumption DEF Typed, Query
  <2> QED
    BY <1>1, <1>2, <2>1, LeaderAssumption DEF OneAtATime, Of
<1>4. leading' \in [Pod -> BOOLEAN] /\ Leads' = Leads
  BY <1>1, Stays DEF IInv
<1>5. timer'[p] = 0 /\ \A r \in Pod \ {p} : timer'[r] = timer[r]
  BY <1>1, <1>2 DEF Typed
<1>6. Timed(p)'
  BY <1>1, <1>2, <1>5, LeaderAssumption DEF Timed
<1>10. Holds(p)'
  BY <1>1, <1>4, NoBusier DEF Busy
<1>7. CASE queries' = queries
  <2>1. Typed'
    BY <1>1, <1>2, <1>7, LeaderAssumption DEF Typed, row
  <2>2. OneAtATime(p)'
    BY <1>1, <1>2, <1>3, <1>7 DEF OneAtATime, Of
  <2>3. p \in Leads => Rules(p)'
    BY <1>1, <1>3, <1>7 DEF IInv, Rules, Renews, Of, row
  <2> QED
    BY <1>1, <1>4, <1>5, <1>6, <1>7, <1>10, <2>1, <2>2, <2>3, StepOfPod
<1>8. CASE queries' = queries \union {Sent(p, "acquire")} /\ p \notin Leads
  <2>1. Typed'
    BY <1>1, <1>2, <1>8, SentIsAQuery, LeaderAssumption DEF Typed, row
  <2>2. Of(p, "acquire")' = {Sent(p, "acquire")} /\ Of(p, "release")' = {}
    BY <1>3, <1>8, Added
  <2>3. OneAtATime(p)'
    BY <1>1, <1>2, <1>5, <2>2, SentIsAQuery DEF OneAtATime
  <2> QED
    BY <1>1, <1>4, <1>5, <1>6, <1>8, <1>10, <2>1, <2>3, Added, StepOfPod
<1>9. queries' = queries \/ (queries' = queries \union {Sent(p, "acquire")} /\ p \notin Leads)
  BY Zenon DEF Poll, Leads
<1> QED
  BY <1>7, <1>8, <1>9

\* An attempt that is over: the pod has none, and no release either.
LEMMA AttemptOver ==
  ASSUME IInv, NEW q \in queries, q.kind = "acquire", queries' = queries \ {q}, Attempted(q.pod)
  PROVE  /\ q.pod \in Pod /\ Of(q.pod, "acquire")' = {} /\ Of(q.pod, "release")' = {}
         /\ Of(q.pod, "beat")' = Of(q.pod, "beat") /\ OneAtATime(q.pod)'
         /\ phase' \in [Pod -> {"off", "starting", "up", "draining", "stopping", "stopped", "dead"}]
         /\ timer' \in [Pod -> 0..PollEvery] /\ queries' \subseteq Query
         /\ \A r \in Pod \ {q.pod} : phase'[r] = phase[r] /\ timer'[r] = timer[r]
         /\ phase'[q.pod] = IF phase[q.pod] = "starting" THEN "up" ELSE phase[q.pod]
         /\ timer'[q.pod] = timer[q.pod]
<1> DEFINE p == q.pod
<1>1. Typed /\ q \in Query /\ p \in Pod
  BY Types DEF IInv, Typed, Query
<1>2. Timed(p) /\ OneAtATime(p)
  BY <1>1 DEF IInv
<1>3. q \in Of(p, "acquire")
  BY DEF Of
<1>4. Of(p, "acquire")' = {} /\ Of(p, "release")' = {} /\ Of(p, "beat")' = Of(p, "beat")
  <2>1. Of(p, "acquire") = {q} /\ Of(p, "release") = {}
    BY <1>2, <1>3 DEF OneAtATime
  <2> QED
    BY <2>1, Removed DEF Of
<1>5. /\ phase' \in [Pod -> {"off", "starting", "up", "draining", "stopping", "stopped", "dead"}]
      /\ timer' \in [Pod -> 0..PollEvery] /\ queries' \subseteq Query
      /\ \A r \in Pod \ {p} : phase'[r] = phase[r] /\ timer'[r] = timer[r]
      /\ phase'[p] = IF phase[p] = "starting" THEN "up" ELSE phase[p]
      /\ timer'[p] = timer[p]
  BY <1>1, <1>2, LeaderAssumption DEF Typed, Attempted, Timed
<1>6. OneAtATime(p)'
  <2>1. phase'[p] # "stopping"
    BY <1>2, <1>3, <1>5 DEF OneAtATime
  <2> QED
    BY <1>4, <2>1 DEF OneAtATime
<1> QED
  BY <1>1, <1>4, <1>5, <1>6

LEMMA WinIInv == ASSUME IInv, NEW q \in queries, q \in Query, Win(q) PROVE IInv'
<1> DEFINE p == q.pod
<1>1. /\ q.kind = "acquire" /\ q.status = "won" /\ Alive(p)
      /\ leading' = [leading EXCEPT ![p] = TRUE]
      /\ sweeps' = [sweeps EXCEPT ![p] = Begun(@)] /\ since' = [since EXCEPT ![p] = 0]
      /\ beats' = IF phase[p] \in {"starting", "up"} THEN [beats EXCEPT ![p] = @ \union {0}] ELSE beats
      /\ queries' = queries \ {q} /\ Attempted(p)
      /\ UNCHANGED <<row, vacant, faults>>
  BY DEF Win, Answered
<1>2. p \in Pod /\ Typed /\ Timed(p) /\ OneAtATime(p)
  BY Types DEF IInv, Query
<1>3. q \in Of(p, "acquire")
  BY <1>1 DEF Of
<1>4. phase[p] \in {"starting", "up", "stopped"}
  BY <1>1, <1>2, <1>3 DEF Alive, OneAtATime
<1>5. owner = p /\ leaseAge <= q.age /\ q.age \in 0..Latency
  BY <1>1 DEF IInv, Fresh, Kept, Query
<1>6. \A S : Begun(S) \subseteq {"active", "displaced"}
  BY DEF Begun
<1>7. Typed'
  <2>1. sweeps' \in [Pod -> SUBSET {"active", "displaced"}] /\ since' \in [Pod -> 0..(Grace + 1)]
    BY <1>1, <1>2, <1>6, GraceFits DEF Typed
  <2> QED
    BY <1>1, <1>2, <2>1, AttemptOver, LeaderAssumption DEF Typed, row
<1>8. leading' \in [Pod -> BOOLEAN] /\ Leads' \subseteq Leads \cup {p}
  BY <1>1, <1>2, Gains DEF IInv
<1>9. /\ \A r \in Pod \ {p} : beats'[r] = beats[r] /\ sweeps'[r] = sweeps[r] /\ since'[r] = since[r]
      /\ phase[p] # "stopped" => 0 \in beats'[p]
      /\ phase[p] = "stopped" => beats'[p] = beats[p]
      /\ since'[p] = 0
  BY <1>1, <1>2, <1>4 DEF Typed
<1>10. Timed(p)'
  BY <1>1, <1>2, <1>4, <1>9, AttemptOver, LeaderAssumption DEF Timed
<1>11. /\ owner' = p /\ leaseAge' = leaseAge /\ leaseAge <= Latency /\ leaseAge \in Nat
       /\ Latency \in Nat
  BY <1>1, <1>2, <1>5, LeaderAssumption DEF row, Typed
<1>12. Rules(p)'
  <2>2. Of(p, "acquire")' = {}
    BY <1>1, AttemptOver
  <2>3. CASE phase[p] = "stopped"
    <3>1. phase'[p] = "stopped"
      BY <1>1, <1>2, <2>3, AttemptOver DEF Typed
    <3> QED
      BY <2>2, <3>1 DEF Rules
  <2>4. CASE phase[p] # "stopped"
    <3>1. phase'[p] = "up"
      BY <1>1, <1>4, <2>4, AttemptOver
    <3>2. Renews(p)'
      BY <1>9, <1>11, <2>4 DEF Renews
    <3> QED
      BY <1>9, <1>11, <2>2, <2>4, <3>1, <3>2 DEF Rules
  <2> QED
    BY <2>3, <2>4
<1>13. Holds(p)'
  BY <1>9, <1>11, LeaderAssumption DEF Holds
<1> QED
  BY <1>1, <1>2, <1>7, <1>8, <1>9, <1>10, <1>12, <1>13, AttemptOver, Removed, StepOfPod

\* An attempt that was lost, or threw.
LEMMA LoseIInv ==
  ASSUME IInv, NEW q \in Query, q \in queries, q.kind = "acquire", leading' = leading,
         queries' = queries \ {q}, Attempted(q.pod), UNCHANGED <<row, beats, sweeps, since>>,
         vacant' \in 0..(MaxVacancy + 1), faults' \in 0..MaxFaults
  PROVE  IInv'
<1> DEFINE p == q.pod
<1>1. p \in Pod /\ Typed /\ Timed(p) /\ OneAtATime(p)
  BY Types DEF IInv, Query
<1>2. p \notin Leads
  BY DEF IInv, Rules, Of
<1>3. Typed'
  BY <1>1, AttemptOver DEF Typed, row
<1>4. leading' \in [Pod -> BOOLEAN] /\ Leads' = Leads
  BY Stays DEF IInv
<1>5. Timed(p)'
  BY <1>1, AttemptOver, LeaderAssumption DEF Timed
<1>6. Holds(p)'
  <2>1. Busy(p)' => Busy(p)
    BY <1>1, <1>4, AttemptOver DEF Busy, Timed
  <2> QED
    BY <1>1, <2>1, NoBusier
<1> QED
  BY <1>1, <1>2, <1>3, <1>4, <1>5, <1>6, AttemptOver, Removed, StepOfPod

-----------------------------------------------------------------------------
(* Sweeps. *)
LEMMA SweepIInv == ASSUME IInv, NEW p \in Pod, Sweep(p) PROVE IInv'
<1>1. /\ sweeps' = [sweeps EXCEPT ![p] = Begun(@)]
      /\ UNCHANGED <<row, phase, leading, since, beats, timer, queries, vacant, faults>>
  BY DEF Sweep
<1>2. Typed /\ Timed(p) /\ OneAtATime(p)
  BY Types DEF IInv
<1>3. p \in Leads
  BY Zenon DEF Sweep, Leads
<1>4. \A S : Begun(S) \subseteq {"active", "displaced"}
  BY DEF Begun
<1>5. Typed'
  BY <1>1, <1>2, <1>4 DEF Typed, row
<1>6. leading' \in [Pod -> BOOLEAN] /\ Leads' = Leads
  BY <1>1, Stays DEF IInv
<1>7. \A r \in Pod \ {p} : sweeps'[r] = sweeps[r]
  BY <1>1, <1>2 DEF Typed
<1>8. Rules(p) /\ phase[p] \in {"up", "stopped"}
  BY <1>3 DEF IInv, Rules
<1>9. Timed(p)' /\ OneAtATime(p)'
  BY <1>1, <1>2, <1>8 DEF Timed, OneAtATime, Of
<1>10. Rules(p)'
  BY <1>1, <1>8 DEF Rules, Renews, Of, row
<1>11. Holds(p)'
  BY <1>1, <1>3, NoBusier DEF Busy
<1> QED
  BY <1>1, <1>5, <1>6, <1>7, <1>9, <1>10, <1>11, StepOfPod

LEMMA SweptIInv == ASSUME IInv, NEW p \in Pod, NEW s, Swept(p, s) PROVE IInv'
<1>1. /\ sweeps' = [sweeps EXCEPT ![p] = @ \ {s}]
      /\ UNCHANGED <<row, phase, leading, since, beats, timer, queries, vacant, faults>>
  BY DEF Swept
<1>2. Typed /\ Timed(p) /\ OneAtATime(p)
  BY Types DEF IInv
<1>3. Typed'
  BY <1>1, <1>2 DEF Typed, row
<1>4. leading' \in [Pod -> BOOLEAN] /\ Leads' = Leads
  BY <1>1, Stays DEF IInv
<1>5. sweeps'[p] \subseteq sweeps[p] /\ \A r \in Pod \ {p} : sweeps'[r] = sweeps[r]
  BY <1>1, <1>2 DEF Typed
<1>6. Timed(p)' /\ OneAtATime(p)'
  BY <1>1, <1>2, <1>5 DEF Timed, OneAtATime, Of
<1>7. p \in Leads => Rules(p)'
  BY <1>1 DEF IInv, Rules, Renews, Of, row
<1>8. Busy(p)' => Busy(p)
  BY <1>1, <1>4, <1>5 DEF Busy
<1>9. Holds(p)'
  BY <1>1, <1>8, NoBusier
<1> QED
  BY <1>1, <1>3, <1>4, <1>5, <1>6, <1>7, <1>9, StepOfPod

-----------------------------------------------------------------------------
(* Beats. *)
LEMMA BeatIInv == ASSUME IInv, NEW p \in Pod, Beat(p) PROVE IInv'
<1> DEFINE s == Sent(p, "beat")
<1>1. /\ phase[p] = "up" /\ Heartbeat \in beats[p]
      /\ beats' = [beats EXCEPT ![p] = (@ \ {Heartbeat}) \union {0}]
      /\ queries' = queries \union {s}
      /\ UNCHANGED <<row, phase, leading, sweeps, since, timer, vacant, faults>>
  BY DEF Beat, work
<1>2. Typed /\ Timed(p) /\ OneAtATime(p)
  BY Types DEF IInv
<1>3. s \in Query /\ s.age = 0
  BY SentIsAQuery
<1>4. /\ Of(p, "acquire")' = Of(p, "acquire") /\ Of(p, "release")' = Of(p, "release")
      /\ Of(p, "beat")' = Of(p, "beat") \cup {s}
  BY <1>1, Added
<1> HIDE DEF s
<1>5. Typed'
  BY <1>1, <1>2, <1>3, LeaderAssumption DEF Typed, row
<1>6. leading' \in [Pod -> BOOLEAN] /\ Leads' = Leads
  BY <1>1, Stays DEF IInv
<1>7. /\ \A r \in Pod \ {p} : beats'[r] = beats[r]
      /\ beats'[p] = (beats[p] \ {Heartbeat}) \union {0}
  BY <1>1, <1>2 DEF Typed
<1>8. Timed(p)' /\ OneAtATime(p)'
  BY <1>1, <1>2, <1>4 DEF Timed, OneAtATime
<1>9. p \in Leads => Rules(p)'
  <2> SUFFICES ASSUME p \in Leads PROVE Rules(p)'
    OBVIOUS
  <2>1. Rules(p) /\ leaseAge' = leaseAge /\ owner' = owner
    BY <1>1 DEF IInv, row
  <2>2. Renews(p)'
    <3>1. CASE \E t \in beats[p] : leaseAge <= t + Latency
      <4>1. PICK t \in beats[p] : leaseAge <= t + Latency
        BY <3>1
      <4>2. CASE t = Heartbeat
        <5>1. leaseAge' <= Heartbeat + Latency + s.age
          BY <1>2, <1>3, <2>1, <4>1, <4>2, LeaderAssumption DEF Typed
        <5> QED
          BY <1>4, <5>1 DEF Renews
      <4>3. CASE t # Heartbeat
        BY <1>7, <2>1, <4>1, <4>3 DEF Renews
      <4> QED
        BY <4>2, <4>3
    <3>2. CASE \E q \in Of(p, "beat") : leaseAge <= Heartbeat + Latency + q.age
      BY <1>4, <2>1, <3>2 DEF Renews
    <3> QED
      BY <1>1, <2>1, <3>1, <3>2 DEF Rules, Renews
  <2> QED
    BY <1>1, <1>4, <1>7, <2>1, <2>2 DEF Rules
<1>20. Holds(p)'
  BY <1>1, <1>2, <1>6, NoBusier DEF Busy
<1> QED
  BY <1>1, <1>5, <1>6, <1>7, <1>8, <1>9, Added, <1>20, StepOfPod DEF s

LEMMA RenewedIInv == ASSUME IInv, NEW q \in queries, q \in Query, Renewed(q) PROVE IInv'
<1> DEFINE p == q.pod
<1>1. /\ q \in queries /\ q.kind = "beat" /\ q.status = "won" /\ queries' = queries \ {q}
      /\ UNCHANGED <<row, phase, leading, sweeps, since, beats, timer, vacant, faults>>
  BY DEF Renewed, Answered, work
<1>2. p \in Pod /\ Typed /\ Timed(p) /\ OneAtATime(p)
  BY Types DEF IInv, Query
<1>3. Of(p, "acquire")' = Of(p, "acquire") /\ Of(p, "release")' = Of(p, "release")
  BY <1>1 DEF Of
<1>4. Typed'
  BY <1>1, <1>2 DEF Typed, row
<1>5. leading' \in [Pod -> BOOLEAN] /\ Leads' = Leads
  BY <1>1, Stays DEF IInv
<1>6. Timed(p)' /\ OneAtATime(p)'
  BY <1>1, <1>2, <1>3 DEF Timed, OneAtATime
<1>7. p \in Leads => Rules(p)'
  <2> SUFFICES ASSUME p \in Leads PROVE Rules(p)'
    OBVIOUS
  <2>1. Rules(p) /\ leaseAge' = leaseAge /\ owner' = owner
    BY <1>1 DEF IInv, row
  <2>2. phase[p] = "up" => leaseAge <= Latency
    <3>1. phase[p] = "up" => leaseAge <= q.age /\ q.age \in 0..Latency
      BY <1>1, <2>1 DEF IInv, Fresh, Rules, Query
    <3> QED
      BY <1>2, <3>1, LeaderAssumption DEF Typed
  <2>3. phase[p] = "up" => \A t \in beats[p] : leaseAge <= t + Latency
    BY <1>2, <2>2, LeaderAssumption DEF Typed
  <2> QED
    BY <1>1, <1>3, <2>1, <2>3 DEF Rules, Renews
<1>20. Holds(p)'
  BY <1>1, <1>2, <1>5, NoBusier DEF Busy
<1> QED
  BY <1>1, <1>2, <1>4, <1>5, <1>6, <1>7, Removed, <1>20, StepOfPod

\* A beat that was rejected, or threw.
LEMMA RejectedIInv ==
  ASSUME IInv, NEW q \in Query, q \in queries, q.kind = "beat", queries' = queries \ {q},
         leading' = [leading EXCEPT ![q.pod] = FALSE], UNCHANGED <<row, phase, beats, timer, sweeps, since>>,
         vacant' \in 0..(MaxVacancy + 1), faults' \in 0..MaxFaults
  PROVE  IInv'
<1> DEFINE p == q.pod
<1>1. p \in Pod /\ Typed /\ Timed(p) /\ OneAtATime(p)
  BY Types DEF IInv, Query
<1>2. Of(p, "acquire")' = Of(p, "acquire") /\ Of(p, "release")' = Of(p, "release")
  BY DEF Of
<1>3. Typed'
  BY <1>1 DEF Typed, row
<1>4. leading' \in [Pod -> BOOLEAN] /\ Leads' \subseteq Leads \ {p}
  BY <1>1, Loses DEF IInv
<1>5. Timed(p)' /\ OneAtATime(p)'
  BY <1>1, <1>2 DEF Timed, OneAtATime
<1>6. Holds(p)'
  BY <1>1, <1>4, NoBusier DEF Busy
<1> QED
  BY <1>1, <1>3, <1>4, <1>5, <1>6, Removed, StepOfPod

-----------------------------------------------------------------------------
(* Stops, releases, crashes. *)

\* Fewer queries on their way.
LEMMA FewerQueries ==
  ASSUME NEW p \in Pod, OneAtATime(p), sweeps'[p] \subseteq sweeps[p],
         Of(p, "acquire")' \subseteq Of(p, "acquire"), Of(p, "release")' \subseteq Of(p, "release"),
         \/ phase'[p] = phase[p] /\ timer'[p] = timer[p]
         \/ phase'[p] = "dead"
         \/ phase'[p] = "stopped" /\ Of(p, "release")' = {}
  PROVE  OneAtATime(p)'
BY DEF OneAtATime

\* A release that is done, or threw.
LEMMA ReleasedIInv ==
  ASSUME IInv, NEW q \in Query, q \in queries, q.kind = "release", queries' = queries \ {q},
         Released(q.pod), leading' = leading, UNCHANGED <<row, beats, sweeps, since>>,
         vacant' \in 0..(MaxVacancy + 1), faults' \in 0..MaxFaults
  PROVE  IInv'
<1> DEFINE p == q.pod
<1>1. p \in Pod /\ Typed /\ Timed(p) /\ OneAtATime(p)
  BY Types DEF IInv, Query
<1>2. phase[p] \in {"stopping", "dead"} /\ p \notin Leads
  <2>1. phase[p] \in {"stopping", "dead"}
    BY <1>1 DEF OneAtATime, Of
  <2> QED
    BY <2>1 DEF IInv, Rules
<1>3. /\ \A r \in Pod \ {p} : phase'[r] = phase[r]
      /\ \/ phase'[p] = "stopped" /\ phase[p] = "stopping"
         \/ phase'[p] = phase[p] /\ phase[p] = "dead"
      /\ timer' = timer
  BY <1>1, <1>2 DEF Typed, Released
<1>4. Typed'
  BY <1>1, <1>3, LeaderAssumption DEF Typed, row, Released
<1>5. leading' \in [Pod -> BOOLEAN] /\ Leads' = Leads
  BY Stays DEF IInv
<1>6. Timed(p)'
  BY <1>1, <1>3, LeaderAssumption DEF Timed
<1>7. OneAtATime(p)'
  <2>1. Of(p, "acquire")' \subseteq Of(p, "acquire") /\ Of(p, "release")' = {}
    BY <1>1 DEF Of, OneAtATime
  <2> QED
    BY <1>1, <1>3, <2>1, FewerQueries
<1>8. Holds(p)'
  <2>1. ~Busy(p)'
    BY <1>1, <1>2, <1>3, <1>5 DEF Busy, OneAtATime, Timed
  <2> QED
    BY <2>1 DEF Holds
<1> QED
  BY <1>1, <1>2, <1>3, <1>4, <1>5, <1>6, <1>7, <1>8, Removed, StepOfPod

LEMMA StopIInv == ASSUME IInv, NEW p \in Pod, Stop(p) PROVE IInv'
<1>1. /\ phase[p] \in {"starting", "up"} /\ leading' = [leading EXCEPT ![p] = FALSE]
      /\ beats' = [beats EXCEPT ![p] = {}] /\ timer' = [timer EXCEPT ![p] = 0] /\ vacant' = 0
      /\ UNCHANGED <<row, sweeps, since, queries, faults>>
  BY DEF Stop
<1>2. Typed /\ Timed(p) /\ OneAtATime(p)
  BY Types DEF IInv
<1>3. leading' \in [Pod -> BOOLEAN] /\ Leads' \subseteq Leads \ {p}
  BY <1>1, Loses DEF IInv
<1>4. \/ p \in Leads /\ phase' = [phase EXCEPT ![p] = "draining"]
      \/ phase' = [phase EXCEPT ![p] = "stopped"]
  BY Zenon DEF Stop, Leads
<1>5. /\ \A r \in Pod \ {p} : phase'[r] = phase[r] /\ beats'[r] = beats[r] /\ timer'[r] = timer[r]
      /\ beats'[p] = {} /\ timer'[p] = 0
      /\ phase'[p] \in {"draining", "stopped"} /\ (phase'[p] = "draining" => p \in Leads)
  BY <1>1, <1>2, <1>4 DEF Typed
<1>6. Typed'
  BY <1>1, <1>2, <1>4, LeaderAssumption DEF Typed, row, MaxVacancy
<1>7. Of(p, "release") = {} /\ (phase'[p] = "draining" => Of(p, "acquire") = {})
      /\ Of(p, "acquire")' = Of(p, "acquire") /\ Of(p, "release")' = Of(p, "release")
  BY <1>1, <1>2, <1>5 DEF OneAtATime, IInv, Rules, Of
<1>8. Timed(p)' /\ OneAtATime(p)'
  BY <1>2, <1>5, <1>7 DEF Timed, OneAtATime
<1>9. Holds(p)'
  <2>1. Busy(p)' => Busy(p)
    BY <1>1, <1>2, <1>3, <1>5 DEF Busy
  <2> QED
    BY <1>1, <2>1, NoBusier
<1> QED
  BY <1>1, <1>3, <1>5, <1>6, <1>8, <1>9, StepOfPod

LEMMA DrainedIInv == ASSUME IInv, NEW p \in Pod, Drained(p) PROVE IInv'
<1>1. /\ phase[p] = "draining" /\ "active" \notin sweeps[p]
      /\ phase' = [phase EXCEPT ![p] = "stopping"]
      /\ queries' = queries \union {Sent(p, "release")}
      /\ UNCHANGED <<row, leading, sweeps, since, beats, timer, vacant, faults>>
  BY DEF Drained, work
<1>2. Typed /\ Timed(p) /\ OneAtATime(p)
  BY Types DEF IInv
<1>3. Typed'
  BY <1>1, <1>2, SentIsAQuery DEF Typed, row
<1>4. leading' \in [Pod -> BOOLEAN] /\ Leads' = Leads
  BY <1>1, Stays DEF IInv
<1>5. p \notin Leads
  BY <1>1 DEF IInv, Rules
<1>6. Of(p, "acquire")' = {} /\ Of(p, "release")' = {Sent(p, "release")}
  BY <1>1, <1>2, Added DEF OneAtATime
<1>7. phase'[p] = "stopping" /\ \A r \in Pod \ {p} : phase'[r] = phase[r]
  BY <1>1, <1>2 DEF Typed
<1>8. Timed(p)' /\ OneAtATime(p)'
  BY <1>1, <1>2, <1>6, <1>7 DEF Timed, OneAtATime
<1>9. Holds(p)'
  BY <1>1, <1>4, <1>5, <1>7 DEF Holds, Busy
<1> QED
  BY <1>1, <1>3, <1>4, <1>5, <1>7, <1>8, <1>9, Added, StepOfPod

LEMMA DieIInv ==
  ASSUME IInv, NEW p \in Pod, Die(p), UNCHANGED row,
         vacant' \in 0..(MaxVacancy + 1), faults' \in 0..MaxFaults
  PROVE  IInv'
<1>1. /\ phase' = [phase EXCEPT ![p] = "dead"] /\ leading' = [leading EXCEPT ![p] = FALSE]
      /\ sweeps' = [sweeps EXCEPT ![p] = {}] /\ since' = [since EXCEPT ![p] = 0]
      /\ beats' = [beats EXCEPT ![p] = {}] /\ timer' = [timer EXCEPT ![p] = 0]
      /\ queries' = {q \in queries : q.pod = p => q.status = "sent"}
  BY DEF Die
<1>2. Typed /\ Timed(p) /\ OneAtATime(p)
  BY Types DEF IInv
<1>3. leading' \in [Pod -> BOOLEAN] /\ Leads' \subseteq Leads \ {p}
  BY <1>1, Loses DEF IInv
<1>4. /\ \A r \in Pod \ {p} : /\ phase'[r] = phase[r] /\ beats'[r] = beats[r]
                              /\ timer'[r] = timer[r] /\ sweeps'[r] = sweeps[r]
                              /\ since'[r] = since[r]
      /\ beats'[p] = {} /\ timer'[p] = 0 /\ sweeps'[p] = {} /\ phase'[p] = "dead"
  BY <1>1, <1>2 DEF Typed
<1>5. Typed'
  BY <1>1, <1>2, GraceFits, LeaderAssumption DEF Typed, row
<1>6. Timed(p)'
  BY <1>4 DEF Timed
<1>7. OneAtATime(p)'
  <2>1. Of(p, "acquire")' \subseteq Of(p, "acquire") /\ Of(p, "release")' \subseteq Of(p, "release")
    BY <1>1 DEF Of
  <2> QED
    BY <1>2, <1>4, <2>1, FewerQueries
<1>8. {q \in queries' : q.pod # p} = {q \in queries : q.pod # p} /\ queries' \subseteq queries
  BY <1>1
<1>9. Holds(p)'
  BY <1>3, <1>4 DEF Holds, Busy
<1> QED
  BY <1>3, <1>4, <1>5, <1>6, <1>7, <1>8, <1>9, StepOfPod

LEMMA DroppedIInv == ASSUME IInv, NEW q \in queries, q \in Query, Dropped(q) PROVE IInv'
<1> DEFINE p == q.pod
<1>1. /\ q \in queries /\ ~Alive(p) /\ queries' = queries \ {q}
      /\ UNCHANGED <<row, phase, leading, sweeps, since, beats, timer, vacant, faults>>
  BY DEF Dropped, work
<1>2. p \in Pod /\ Typed /\ Timed(p) /\ OneAtATime(p)
  BY Types DEF IInv, Query
<1>3. p \notin Leads
  BY <1>1 DEF IInv, Rules, Alive, Leads
<1>4. Typed'
  BY <1>1, <1>2 DEF Typed, row
<1>5. leading' \in [Pod -> BOOLEAN] /\ Leads' = Leads
  BY <1>1, Stays DEF IInv
<1>6. Timed(p)'
  BY <1>1, <1>2 DEF Timed
<1>7. OneAtATime(p)'
  <2>1. Of(p, "acquire")' \subseteq Of(p, "acquire") /\ Of(p, "release")' \subseteq Of(p, "release")
    BY <1>1 DEF Of
  <2> QED
    BY <1>1, <1>2, <2>1, FewerQueries
<1>8. Holds(p)'
  BY <1>1, <1>2, <1>5, NoBusier DEF Busy
<1> QED
  BY <1>1, <1>2, <1>3, <1>4, <1>5, <1>6, <1>7, <1>8, Removed, StepOfPod

LEMMA ThrowIInv == ASSUME IInv, NEW q \in queries, q \in Query, Throw(q) PROVE IInv'
<1>1. /\ q \in queries /\ queries' = queries \ {q} /\ UNCHANGED <<row, sweeps, since, beats>>
      /\ faults < MaxFaults /\ faults' = faults + 1 /\ vacant' = 0
  BY DEF Throw
<1>2. vacant' \in 0..(MaxVacancy + 1) /\ faults' \in 0..MaxFaults
  <2>1. Typed
    BY Types DEF IInv
  <2> QED
    BY <1>1, <2>1, LeaderAssumption DEF Typed, MaxVacancy
<1>3. CASE q.kind = "acquire"
  <2>1. leading' = leading
    BY <1>3, Zenon DEF Throw
  <2>2. Attempted(q.pod)
    BY <1>3 DEF Throw
  <2> QED
    BY <1>1, <1>2, <1>3, <2>1, <2>2, LoseIInv
<1>4. CASE q.kind = "beat"
  <2>1. leading' = [leading EXCEPT ![q.pod] = FALSE]
    BY <1>4, Zenon DEF Throw
  <2>2. UNCHANGED <<phase, timer>>
    BY <1>4 DEF Throw
  <2> QED
    BY <1>1, <1>2, <1>4, <2>1, <2>2, RejectedIInv
<1>5. CASE q.kind = "release"
  <2>1. leading' = leading
    BY <1>5, Zenon DEF Throw
  <2>2. Released(q.pod)
    BY <1>5 DEF Throw
  <2> QED
    BY <1>1, <1>2, <1>5, <2>1, <2>2, ReleasedIInv
<1> QED
  BY <1>3, <1>4, <1>5 DEF Query

-----------------------------------------------------------------------------
(* The database. *)

\* A query takes effect: it is the same query with another status.
LEMMA Effected ==
  ASSUME NEW q \in queries, queries \subseteq Query, NEW status \in {"won", "lost"},
         queries' = (queries \ {q}) \union {[q EXCEPT !.status = status]},
         UNCHANGED <<phase, timer, sweeps>>
  PROVE  /\ queries' \subseteq Query
         /\ \A p \in Pod : OneAtATime(p) => OneAtATime(p)'
         /\ \A p \in Pod, kind \in {"acquire", "release"} : Of(p, kind) = {} => Of(p, kind)' = {}
         /\ \A p \in Pod : \A x \in Of(p, "beat") : \E y \in Of(p, "beat")' : y.age = x.age
<1> DEFINE won == [q EXCEPT !.status = status]
<1>1. /\ won \in Query /\ won.pod = q.pod /\ won.kind = q.kind /\ won.age = q.age
  BY DEF Query
<1>2. queries' = (queries \ {q}) \union {won}
  OBVIOUS
<1> HIDE DEF won
<1>3. \A p, kind : Of(p, kind)' = IF q.pod = p /\ q.kind = kind THEN (Of(p, kind) \ {q}) \union {won}
                                  ELSE Of(p, kind) \ {q}
  BY <1>1, <1>2 DEF Of
<1>4. \A p, kind : q \in Of(p, kind) <=> q.pod = p /\ q.kind = kind
  BY DEF Of
<1>5. ASSUME NEW p \in Pod, OneAtATime(p) PROVE OneAtATime(p)'
  BY <1>1, <1>3, <1>4, <1>5 DEF OneAtATime
<1>6. \A p \in Pod, kind \in {"acquire", "release"} : Of(p, kind) = {} => Of(p, kind)' = {}
  BY <1>3, <1>4
<1>7. \A p \in Pod : \A x \in Of(p, "beat") : \E y \in Of(p, "beat")' : y.age = x.age
  BY <1>1, <1>3, <1>4
<1> QED
  BY <1>1, <1>2, <1>5, <1>6, <1>7

LEMMA UpsertIInv == ASSUME IInv, NEW q \in queries, q \in Query, Upsert(q) PROVE IInv'
<1> DEFINE p == q.pod
<1>1. /\ q.kind # "release" /\ q.status = "sent"
      /\ UNCHANGED <<phase, leading, sweeps, since, beats, timer, vacant, faults>>
  BY DEF Upsert, work
<1>2. p \in Pod /\ Typed /\ Fresh /\ Kept /\ \A r \in Pod : Timed(r) /\ OneAtATime(r)
  BY Types DEF IInv, Query
<1>3. leading' \in [Pod -> BOOLEAN] /\ Leads' = Leads /\ Leads \subseteq Pod
  BY <1>1, Stays DEF IInv, Leads
<1>4. \A r \in Pod : Timed(r)'
  BY <1>1, <1>2 DEF Timed
<1>5. \A r \in Leads : Rules(r) /\ (phase[r] = "up" => owner = r /\ ~Expired)
  <2>1. ASSUME NEW r \in Leads PROVE Rules(r) /\ (phase[r] = "up" => owner = r /\ ~Expired)
    <3>1. Rules(r)
      BY DEF IInv
    <3>2. ASSUME phase[r] = "up" PROVE owner = r /\ ~Expired
      <4>1. owner = r /\ leaseAge <= LeaseTtl
        BY <3>2, RulesInTime
      <4> QED
        BY <1>2, <4>1, LeaderAssumption DEF Expired, Typed
    <3> QED
      BY <3>1, <3>2
  <2> QED
    BY <2>1
<1>20. \A r \in Pod : Holds(r) /\ (Busy(r) /\ since[r] <= Grace => owner = r /\ ~Expired)
  BY BusyInTime DEF IInv
<1>21. \A r \in Pod : Busy(r)' = Busy(r) /\ since'[r] = since[r]
  BY <1>1, <1>3 DEF Busy
<1>6. CASE Acquirable(p)
  <2>1. /\ owner' = p /\ leaseAge' = 0
        /\ queries' = (queries \ {q}) \union {[q EXCEPT !.status = "won"]}
    BY <1>6 DEF Upsert
  <2>2. /\ queries' \subseteq Query /\ \A r \in Pod : OneAtATime(r)'
        /\ \A r \in Pod, kind \in {"acquire", "release"} : Of(r, kind) = {} => Of(r, kind)' = {}
    BY <1>1, <1>2, <2>1, Effected DEF Typed
  <2>3. Typed'
    BY <1>1, <1>2, <2>1, <2>2, LeaderAssumption DEF Typed
  <2>4. Fresh'
    <3>1. \A x \in queries' : 0 <= x.age
      BY <2>2, LeaderAssumption DEF Query
    <3> QED
      BY <2>1, <3>1 DEF Fresh
  <2>5. Kept'
    <3> SUFFICES ASSUME NEW x \in queries', x.kind = "acquire", x.status = "won" PROVE x.pod = p
      BY <2>1 DEF Kept
    <3>1. CASE x \in queries
      <4>1. x \in Query /\ owner = x.pod /\ leaseAge <= x.age
        BY <1>2, <3>1 DEF Kept, Fresh, Typed
      <4>2. x.age \in 0..Latency /\ x.pod \in Pod
        BY <4>1 DEF Query
      <4>3. ~Expired
        BY <1>2, <4>1, <4>2, LeaderAssumption DEF Expired, Typed
      <4> QED
        BY <1>6, <4>1, <4>2, <4>3, LeaderAssumption DEF Acquirable
    <3>2. CASE x = [q EXCEPT !.status = "won"]
      BY <3>2 DEF Query
    <3> QED
      BY <2>1, <3>1, <3>2
  <2>6. ASSUME NEW r \in Leads PROVE Rules(r)'
    <3>1. r \in Pod /\ Rules(r)
      BY <1>3, <1>5
    <3>2. Of(r, "acquire")' = {}
      BY <2>2, <3>1 DEF Rules
    <3>3. CASE phase[r] = "up"
      <4>1. r = p
        BY <1>5, <1>6, <3>1, <3>3, LeaderAssumption DEF Acquirable
      <4>2. beats[r] # {} => Renews(r)'
        BY <1>1, <1>2, <2>1, <3>1, LeaderAssumption DEF Renews, Typed
      <4> QED
        BY <1>1, <2>1, <3>1, <3>2, <3>3, <4>1, <4>2 DEF Rules
    <3> QED
      BY <1>1, <3>1, <3>2, <3>3 DEF Rules
  <2>9. ASSUME NEW r \in Pod PROVE Holds(r)'
    <3> SUFFICES ASSUME Busy(r), since[r] <= Grace
                 PROVE  owner' = r /\ leaseAge' <= Heartbeat + 2 * Latency + since[r]
      BY <1>21 DEF Holds
    <3>1. owner = r /\ ~Expired /\ r # NoPod
      BY <1>20, LeaderAssumption
    <3>2. r = p /\ since[r] \in 0..(Grace + 1)
      BY <1>2, <1>6, <3>1 DEF Acquirable, Typed
    <3> QED
      BY <2>1, <3>2, GraceFits, LeaderAssumption
  <2>7. TypeOK'
    BY <1>3, <1>4, <2>3, TypesNext
  <2>8. (\A r \in Pod : Timed(r) /\ OneAtATime(r) /\ Holds(r))' /\ (\A r \in Leads : Rules(r))'
    BY <1>3, <1>4, <2>2, <2>6, <2>9
  <2> QED
    BY <2>4, <2>5, <2>7, <2>8 DEF IInv
<1>7. CASE ~Acquirable(p)
  <2>1. /\ UNCHANGED <<owner, leaseAge>>
        /\ queries' = (queries \ {q}) \union {[q EXCEPT !.status = "lost"]}
    BY <1>7 DEF Upsert, row
  <2>2. /\ queries' \subseteq Query /\ \A r \in Pod : OneAtATime(r)'
        /\ \A r \in Pod, kind \in {"acquire", "release"} : Of(r, kind) = {} => Of(r, kind)' = {}
        /\ \A r \in Pod : \A x \in Of(r, "beat") : \E y \in Of(r, "beat")' : y.age = x.age
    BY <1>1, <1>2, <2>1, Effected DEF Typed
  <2>3. Typed'
    BY <1>1, <1>2, <2>1, <2>2 DEF Typed
  <2>4. \A x \in queries' : x.status = "won" => x \in queries
    BY <2>1 DEF Query
  <2>5. Fresh' /\ Kept'
    BY <1>2, <2>1, <2>4 DEF Fresh, Kept
  <2>6. ASSUME NEW r \in Leads PROVE Rules(r)'
    <3>1. r \in Pod /\ Rules(r)
      BY <1>3, <1>5
    <3>2. Renews(r) => Renews(r)'
      BY <1>1, <2>1, <2>2, <3>1 DEF Renews
    <3> QED
      BY <1>1, <2>1, <2>2, <3>1, <3>2 DEF Rules
  <2>9. \A r \in Pod : Holds(r)'
    BY <1>20, <1>21, <2>1 DEF Holds
  <2>7. TypeOK'
    BY <1>3, <1>4, <2>3, TypesNext
  <2>8. (\A r \in Pod : Timed(r) /\ OneAtATime(r) /\ Holds(r))' /\ (\A r \in Leads : Rules(r))'
    BY <1>3, <1>4, <2>2, <2>6, <2>9
  <2> QED
    BY <2>5, <2>7, <2>8 DEF IInv
<1> QED
  BY <1>6, <1>7

LEMMA DeleteIInv == ASSUME IInv, NEW q \in queries, q \in Query, Delete(q) PROVE IInv'
<1> DEFINE p == q.pod
<1>1. /\ q.kind = "release" /\ owner' = IF owner = p THEN NoPod ELSE owner
      /\ queries' = (queries \ {q}) \union {[q EXCEPT !.status = "won"]}
      /\ UNCHANGED <<leaseAge, phase, leading, sweeps, since, beats, timer, vacant, faults>>
  BY DEF Delete, work
<1>2. p \in Pod /\ Typed /\ Fresh /\ Kept /\ \A r \in Pod : Timed(r) /\ OneAtATime(r)
  BY Types DEF IInv, Query
<1>3. leading' \in [Pod -> BOOLEAN] /\ Leads' = Leads /\ Leads \subseteq Pod
  BY <1>1, Stays DEF IInv, Leads
<1>4. \A r \in Pod : Timed(r)'
  BY <1>1, <1>2 DEF Timed
<1>5. /\ queries' \subseteq Query /\ \A r \in Pod : OneAtATime(r)'
      /\ \A r \in Pod, kind \in {"acquire", "release"} : Of(r, kind) = {} => Of(r, kind)' = {}
      /\ \A r \in Pod : \A x \in Of(r, "beat") : \E y \in Of(r, "beat")' : y.age = x.age
  BY <1>1, <1>2, Effected DEF Typed
<1>6. Typed'
  BY <1>1, <1>2, <1>5 DEF Typed
<1>7. \A x \in queries' : x.kind # "release" => x \in queries /\ x \in Query
  BY <1>1, <1>5 DEF Query
<1>8. Fresh'
  BY <1>1, <1>2, <1>7, LeaderAssumption DEF Fresh, Query
<1>9. Kept'
  <2> SUFFICES ASSUME NEW x \in queries', x.kind = "acquire", x.status = "won" PROVE owner' = x.pod
    BY DEF Kept
  <2>1. x \in queries /\ owner = x.pod
    BY <1>2, <1>7 DEF Kept
  <2>2. x.pod # p
    BY <1>1, <1>2, <2>1 DEF OneAtATime, Of
  <2> QED
    BY <1>1, <2>1, <2>2
<1>10. phase[p] \in {"stopping", "dead"} /\ Of(p, "acquire") = {} /\ ~Busy(p)
  <2>1. phase[p] \in {"stopping", "dead"}
    BY <1>1, <1>2 DEF OneAtATime, Of
  <2>2. Timed(p) /\ OneAtATime(p) /\ p \notin Leads
    BY <1>2, <2>1 DEF IInv, Rules
  <2> QED
    BY <1>1, <2>1, <2>2 DEF OneAtATime, Timed, Busy, Of
<1>11. ASSUME NEW r \in Leads PROVE Rules(r)'
  <2>1. r \in Pod /\ Rules(r) /\ r # p
    BY <1>3, <1>10 DEF IInv, Busy
  <2>2. Renews(r) => Renews(r)'
    BY <1>1, <1>5, <2>1 DEF Renews
  <2> QED
    BY <1>1, <1>5, <2>1, <2>2 DEF Rules
<1>12. ASSUME NEW r \in Pod PROVE Holds(r)'
  <2>1. Holds(r) /\ (Busy(r)' => Busy(r) /\ r # p)
    BY <1>1, <1>3, <1>10 DEF IInv, Busy
  <2> QED
    BY <1>1, <2>1 DEF Holds
<1>13. TypeOK'
  BY <1>3, <1>4, <1>6, TypesNext
<1>14. (\A r \in Pod : Timed(r) /\ OneAtATime(r) /\ Holds(r))' /\ (\A r \in Leads : Rules(r))'
  BY <1>3, <1>4, <1>5, <1>11, <1>12
<1> QED
  BY <1>8, <1>9, <1>13, <1>14 DEF IInv

-----------------------------------------------------------------------------
(* Time. *)
LEMMA TickIInv == ASSUME IInv, Tick PROVE IInv'
<1>1. Typed /\ Fresh /\ Kept /\ \A r \in Pod : Timed(r) /\ OneAtATime(r)
  BY Types DEF IInv
<1>2. /\ leaseAge' = IF owner = NoPod THEN leaseAge ELSE Capped(leaseAge, LeaseTtl + 1)
      /\ beats' = [p \in Pod |-> {t + 1 : t \in beats[p]}]
      /\ timer' = [p \in Pod |-> IF phase[p] = "up" THEN timer[p] + 1 ELSE timer[p]]
      /\ queries' = {[q EXCEPT !.age = @ + 1] : q \in queries}
      /\ UNCHANGED <<owner, phase, leading, sweeps, faults>>
  BY DEF Tick
<1>3. /\ \A p \in Pod : phase[p] = "up" => timer[p] # PollEvery /\ Heartbeat \notin beats[p]
      /\ \A q \in queries : q.age # Latency
  BY DEF Tick, Urgent, Up
<1>4. vacant' \in 0..(MaxVacancy + 1)
  <2>1. vacant' = 0 \/ vacant' = Capped(vacant, MaxVacancy + 1)
    BY Zenon DEF Tick
  <2>2. MaxVacancy + 1 \in Nat
    BY LeaderAssumption DEF MaxVacancy
  <2> QED
    BY <1>1, <2>1, <2>2 DEF Typed, Capped
<1>5. /\ leaseAge' \in 0..(LeaseTtl + 1) /\ leaseAge' <= leaseAge + 1
  BY <1>1, <1>2, LeaderAssumption DEF Typed, Capped
<1> DEFINE Older(q) == [q EXCEPT !.age = @ + 1]
<1>6. \A q \in queries : /\ Older(q) \in Query /\ Older(q).pod = q.pod /\ Older(q).kind = q.kind
                         /\ Older(q).status = q.status /\ Older(q).age = q.age + 1
                         /\ q.age \in Nat
  <2> SUFFICES ASSUME NEW q \in queries
               PROVE  /\ Older(q) \in Query /\ Older(q).pod = q.pod /\ Older(q).kind = q.kind
                      /\ Older(q).status = q.status /\ Older(q).age = q.age + 1
                      /\ q.age \in Nat
    OBVIOUS
  <2>1. q \in Query /\ q.age \in 0..Latency /\ q.age # Latency
    BY <1>1, <1>3 DEF Typed, Query
  <2>2. q.age + 1 \in 0..Latency
    BY <2>1, LeaderAssumption
  <2> QED
    BY <2>1, <2>2 DEF Query
<1>7. queries' = {Older(q) : q \in queries}
  BY <1>2
<1> HIDE DEF Older
<1>8. \A r, kind : Of(r, kind)' = {Older(q) : q \in Of(r, kind)}
  BY <1>6, <1>7 DEF Of
<1>9. \A r \in Pod : /\ \A t \in beats[r] : t \in 0..Heartbeat /\ t + 1 \in beats'[r]
                     /\ beats[r] = {} => beats'[r] = {}
                     /\ timer'[r] = IF phase[r] = "up" THEN timer[r] + 1 ELSE timer[r]
                     /\ timer[r] \in Nat
  BY <1>1, <1>2 DEF Typed
<1>10. \A r \in Pod : Timed(r)'
  <2> SUFFICES ASSUME NEW r \in Pod PROVE Timed(r)'
    OBVIOUS
  <2>1. Timed(r)
    BY <1>1
  <2> QED
    BY <1>2, <1>9, <2>1 DEF Timed
<1>18. since' = [p \in Pod |-> IF Works(p) /\ ~Renewing(p) THEN Capped(since[p], Grace + 1) ELSE 0]
  BY DEF Tick
<1>19. \A r \in Pod : since'[r] = IF Busy(r) /\ ~(r \in Leads /\ phase[r] = "up")
                                THEN Capped(since[r], Grace + 1) ELSE 0
  <2> SUFFICES ASSUME NEW r \in Pod
               PROVE  since'[r] = IF Busy(r) /\ ~(r \in Leads /\ phase[r] = "up")
                                  THEN Capped(since[r], Grace + 1) ELSE 0
    OBVIOUS
  <2>1. Works(r) <=> Busy(r)
    BY WorksBusy
  <2>2. Renewing(r) <=> r \in Leads /\ phase[r] = "up"
    BY Zenon DEF Renewing, Leads
  <2>3. since'[r] = IF Works(r) /\ ~Renewing(r) THEN Capped(since[r], Grace + 1) ELSE 0
    BY <1>18, Zenon
  <2> QED
    BY <2>1, <2>2, <2>3, Zenon
<1>11. Typed'
  <2>1. queries' \subseteq Query
    BY <1>6, <1>7
  <2>2. beats' \in [Pod -> SUBSET (0..Heartbeat)]
    <3>1. \A r \in Pod : \A t \in beats[r] : t + 1 \in 0..Heartbeat
      <4> SUFFICES ASSUME NEW r \in Pod, NEW t \in beats[r] PROVE t + 1 \in 0..Heartbeat
        OBVIOUS
      <4>1. phase[r] = "up"
        BY <1>1 DEF Timed
      <4>2. t \in 0..Heartbeat /\ t # Heartbeat
        BY <1>3, <1>9, <4>1
      <4> QED
        BY <4>2, LeaderAssumption
    <3> QED
      BY <1>2, <3>1
  <2>3. timer' \in [Pod -> 0..PollEvery]
    <3>1. \A r \in Pod : timer[r] \in 0..PollEvery
      BY <1>1 DEF Typed
    <3>2. \A r \in Pod : timer'[r] \in 0..PollEvery
      BY <1>3, <1>9, <3>1, LeaderAssumption
    <3> QED
      BY <1>2, <3>2
  <2>4. since' \in [Pod -> 0..(Grace + 1)]
    <3>1. \A r \in Pod : since[r] \in 0..(Grace + 1) /\ Capped(since[r], Grace + 1) \in 0..(Grace + 1)
      BY <1>1, GraceFits DEF Typed, Capped
    <3>2. \A r \in Pod : since'[r] \in 0..(Grace + 1)
      BY <1>19, <3>1, GraceFits
    <3> QED
      BY <1>18, <3>2
  <2> QED
    BY <1>1, <1>2, <1>4, <1>5, <2>1, <2>2, <2>3, <2>4 DEF Typed
<1>12. Fresh' /\ Kept'
  <2> SUFFICES ASSUME NEW q \in queries
               PROVE  LET o == Older(q) IN
                      /\ o.kind # "release" /\ o.status = "won" /\ owner' = o.pod => leaseAge' <= o.age
                      /\ o.kind = "acquire" /\ o.status = "won" => owner' = o.pod
    BY <1>7 DEF Fresh, Kept
  <2> QED
    BY <1>1, <1>2, <1>5, <1>6 DEF Fresh, Kept, Typed
<1>13. \A r \in Pod : OneAtATime(r)'
  <2> SUFFICES ASSUME NEW r \in Pod PROVE OneAtATime(r)'
    OBVIOUS
  <2>1. OneAtATime(r) /\ \A kind : \A q \in Of(r, kind) : Older(q).age = q.age + 1 /\ q.age \in Nat
    BY <1>1, <1>6 DEF Of
  <2>2. /\ \A q, x \in Of(r, "acquire")' : q = x
        /\ Of(r, "acquire") = {} => Of(r, "acquire")' = {}
        /\ \A q, x \in Of(r, "release")' : q = x
        /\ Of(r, "release") = {} => Of(r, "release")' = {}
    BY <1>8, <2>1 DEF OneAtATime
  <2>3. phase[r] = "up" => \A q \in Of(r, "acquire")' : timer'[r] <= q.age
    BY <1>8, <1>9, <2>1, LeaderAssumption DEF OneAtATime
  <2> QED
    BY <1>2, <2>1, <2>2, <2>3 DEF OneAtATime
<1>14. leading' \in [Pod -> BOOLEAN] /\ Leads' = Leads /\ Leads \subseteq Pod
  BY <1>2, Stays DEF IInv, Leads
<1>15. ASSUME NEW r \in Leads PROVE Rules(r)'
  <2>1. r \in Pod /\ Rules(r)
    BY <1>14 DEF IInv
  <2>2. leaseAge \in Nat /\ leaseAge' \in Nat /\ leaseAge' <= leaseAge + 1
    BY <1>1, <1>5, LeaderAssumption DEF Typed
  <2>3. Of(r, "acquire")' = {}
    BY <1>8, <2>1 DEF Rules
  <2>4. beats[r] # {} => beats'[r] # {}
    BY <1>9, <2>1
  <2>5. Renews(r) => Renews(r)'
    <3>1. ASSUME NEW t \in beats[r], leaseAge <= t + Latency PROVE Renews(r)'
      <4>1. leaseAge' <= (t + 1) + Latency /\ t + 1 \in beats'[r]
        BY <1>9, <2>1, <2>2, <3>1, LeaderAssumption
      <4> QED
        BY <4>1 DEF Renews
    <3>2. ASSUME NEW q \in Of(r, "beat"), leaseAge <= Heartbeat + Latency + q.age PROVE Renews(r)'
      <4>1. Older(q) \in Of(r, "beat")' /\ Older(q).age = q.age + 1 /\ q.age \in Nat
        <5>1. q \in queries /\ q.pod = r /\ q.kind = "beat"
          BY DEF Of
        <5>2. Older(q) \in queries'
          BY <1>7, <5>1
        <5>3. /\ Older(q).pod = r /\ Older(q).kind = "beat" /\ Older(q).age = q.age + 1
              /\ q.age \in Nat
          BY <1>6, <5>1
        <5> QED
          BY <5>2, <5>3 DEF Of
      <4>2. leaseAge' <= Heartbeat + Latency + Older(q).age
        BY <2>2, <3>2, <4>1, LeaderAssumption
      <4> QED
        BY <4>1, <4>2 DEF Renews
    <3> QED
      BY <3>1, <3>2 DEF Renews
  <2>6. phase[r] = "up" => since'[r] = 0
    BY <1>19, <2>1
  <2> QED
    BY <1>2, <2>1, <2>3, <2>4, <2>5, <2>6 DEF Rules
<1>20. ASSUME NEW r \in Pod PROVE Holds(r)'
  <2> SUFFICES ASSUME Busy(r)', since'[r] <= Grace
               PROVE  owner = r /\ leaseAge' <= Heartbeat + 2 * Latency + since'[r]
    BY <1>2 DEF Holds
  <2>1. Busy(r) /\ Holds(r)
    BY <1>2, <1>14 DEF Busy, IInv
  <2>2. CASE r \in Leads /\ phase[r] = "up"
    <3>1. Rules(r)' /\ phase'[r] = "up" /\ since'[r] = 0
      BY <1>2, <1>15, <1>19, <2>2
    <3>2. leaseAge' <= Heartbeat + 2 * Latency
      BY <1>11, <3>1, RenewsInTimeNext DEF Rules
    <3> QED
      BY <1>2, <1>5, <3>1, <3>2, LeaderAssumption DEF Rules
  <2>3. CASE ~(r \in Leads /\ phase[r] = "up")
    <3>1. since'[r] = Capped(since[r], Grace + 1) /\ since[r] \in 0..(Grace + 1)
      BY <1>1, <1>19, <2>1, <2>3 DEF Typed
    <3>2. since'[r] = since[r] + 1 /\ since[r] <= Grace
      BY <3>1, GraceFits DEF Capped
    <3> QED
      BY <1>1, <1>5, <2>1, <3>1, <3>2, GraceFits, LeaderAssumption DEF Holds, Typed
  <2> QED
    BY <2>2, <2>3
<1>16. TypeOK'
  BY <1>10, <1>11, <1>14, TypesNext
<1>17. (\A r \in Pod : Timed(r) /\ OneAtATime(r) /\ Holds(r))' /\ (\A r \in Leads : Rules(r))'
  BY <1>10, <1>13, <1>14, <1>15, <1>20
<1> QED
  BY <1>12, <1>16, <1>17 DEF IInv

-----------------------------------------------------------------------------
LEMMA NextIInv == IInv /\ [Next]_vars => IInv'
<1> SUFFICES ASSUME IInv, [Next]_vars PROVE IInv'
  OBVIOUS
<1>1. /\ vacant \in 0..(MaxVacancy + 1) /\ faults \in 0..MaxFaults /\ 0 \in 0..(MaxVacancy + 1)
      /\ (faults < MaxFaults => faults + 1 \in 0..MaxFaults) /\ queries \subseteq Query
  BY Types, LeaderAssumption DEF IInv, Typed, MaxVacancy
<1>2. ASSUME NEW p \in Pod, \/ Start(p) \/ Poll(p) \/ Beat(p) \/ Sweep(p) \/ Swept(p, "active")
                            \/ Swept(p, "displaced") \/ Stop(p) \/ Drained(p)
      PROVE  IInv'
  BY <1>2, StartIInv, PollIInv, BeatIInv, SweepIInv, SweptIInv, StopIInv, DrainedIInv
<1>3. ASSUME NEW p \in Pod, Exit(p) \/ Crash(p) PROVE IInv'
  BY <1>1, <1>3, DieIInv DEF Exit, Crash
<1>4. ASSUME NEW q \in queries, Upsert(q) \/ Delete(q) \/ Win(q) \/ Renewed(q) \/ Throw(q) \/ Dropped(q)
      PROVE  IInv'
  BY <1>1, <1>4, UpsertIInv, DeleteIInv, WinIInv, RenewedIInv, ThrowIInv, DroppedIInv
<1>5. ASSUME NEW q \in queries, Lose(q) PROVE IInv'
  BY <1>1, <1>5, LoseIInv DEF Lose, Answered, work
<1>6. ASSUME NEW q \in queries, Rejected(q) PROVE IInv'
  BY <1>1, <1>6, RejectedIInv DEF Rejected, Answered
<1>7. ASSUME NEW q \in queries, Deleted(q) PROVE IInv'
  BY <1>1, <1>7, ReleasedIInv DEF Deleted, Answered, work
<1>8. CASE Tick
  BY <1>8, TickIInv
<1>9. CASE UNCHANGED vars
  <2>1. TypeOK'
    BY <1>9, Zenon DEF vars, row, work, IInv, TypeOK
  <2>2. Leads' = Leads
    BY <1>9, Zenon DEF vars, work, Leads
  <2>3. Fresh' /\ Kept' /\ (\A r \in Pod : Timed(r) /\ OneAtATime(r) /\ Holds(r))'
    BY <1>9, <2>2 DEF vars, row, work, IInv, Fresh, Kept, Timed, OneAtATime, Of, Holds, Busy
  <2>4. (\A r \in Leads : Rules(r))'
    BY <1>9, <2>2 DEF vars, row, work, IInv, Rules, Renews, Of
  <2> QED
    BY <2>1, <2>3, <2>4 DEF IInv
<1> QED
  BY <1>2, <1>3, <1>4, <1>5, <1>6, <1>7, <1>8, <1>9, Zenon DEF Next

LEMMA Invariance == Spec => []IInv
<1>1. Init => IInv
  BY InitIInv
<1>2. IInv /\ [Next]_vars => IInv'
  BY NextIInv
<1> QED
  BY <1>1, <1>2, PTL DEF Spec

\* No interval outlives its period or its pod, no sweep its process and no query
\* its bound, whatever the pods do.
THEOREM TypeCorrect == Spec => []TypeOK
<1>1. IInv => TypeOK
  BY DEF IInv
<1> QED
  BY <1>1, Invariance, PTL

\* runWithLeadership: as long as no pod sweeps on for longer than its lease may
\* last, at most one process runs the scheduler or has a sweep in flight.
THEOREM OneLeader == Spec => []AtMostOneActive
<1>1. IInv => AtMostOneActive
  <2> SUFFICES ASSUME IInv, NEW p \in Pod, NEW q \in Pod, Active(p), Active(q) PROVE p = q
    BY DEF AtMostOneActive
  <2>1. Busy(p) /\ since[p] <= Grace /\ Busy(q) /\ since[q] <= Grace
    BY WorksBusy DEF Active
  <2> QED
    BY <2>1, BusyInTime
<1> QED
  BY <1>1, Invariance, PTL

-----------------------------------------------------------------------------
(***************************************************************************)
(* A standby takes over in time.  The lease is not renewed once Latency is *)
(* over (Late), unless it is taken by a pod that is up and will lead: so   *)
(* it lapses, and whoever is up polls when it has lapsed (Lapsing), takes  *)
(* it, and leads after that poll or the next (Taken).                      *)
(***************************************************************************)
UpLeads == Up \cap Leads
LapsedBy == LeaseTtl + Latency

\* Attempts and beats of pods that are gone or going were sent before vacant
\* was reset.
Late == \A q \in queries :
  q.kind # "release" /\ phase[q.pod] \notin {"starting", "up"} => vacant <= q.age
NoEarlyBeat == \A q \in queries : q.kind = "beat" => phase[q.pod] \notin {"off", "starting"}

\* Who was refused and owns the lease now has taken it since.
FreshLost == \A q \in queries : q.status = "lost" /\ owner = q.pod => leaseAge <= q.age
Waits == vacant > 0 => Up # {}

Unanswered(p) == {q \in queries : q.pod = p /\ q.kind = "acquire" /\ q.status = "sent"}
Refused(q) == q.status = "lost" => vacant <= LapsedBy + q.age

\* The lease was renewed for the last time when vacant was at most Latency.
Old == owner = NoPod \/ leaseAge = LeaseTtl + 1 \/ vacant <= leaseAge + Latency
Lapsing ==
  /\ Old
  /\ \A q \in queries : Refused(q)
  /\ \E p \in Up : \/ \E q \in Unanswered(p) : vacant <= LapsedBy + PollEvery + q.age
                   \/ vacant <= LapsedBy + timer[p]
  /\ \A p \in Up : Unanswered(p) # {} \/ vacant <= LapsedBy + Latency + timer[p]

Won(q)    == /\ q.kind = "acquire" /\ q.status = "won" /\ owner = q.pod
             /\ vacant <= LapsedBy + PollEvery + Latency + q.age
Asks(q)   == /\ q.kind = "acquire" /\ q.status = "sent" /\ owner = q.pod /\ owner \in Up
             /\ vacant <= LapsedBy + PollEvery + Latency + q.age
             /\ leaseAge <= PollEvery + Latency + q.age
WillAsk(p) == /\ owner = p /\ p \in Up
              /\ vacant <= LapsedBy + Latency + timer[p] /\ leaseAge <= timer[p] + Latency
Taken == (\E q \in queries : Won(q) \/ Asks(q)) \/ (\E p \in Pod : WillAsk(p))

Vacancy == vacant > Latency =>
  /\ vacant <= MaxVacancy
  /\ \/ UpLeads = {} /\ Lapsing
     \/ /\ UpLeads # {} \/ Taken
        /\ \A q \in queries : q.pod = owner => Refused(q)

VInv == IInv /\ Late /\ NoEarlyBeat /\ FreshLost /\ Waits /\ Vacancy

LEMMA Resets == ASSUME VInv, IInv', vacant' <= Latency PROVE Vacancy'
<1>1. vacant' \in Nat
  BY LeaderAssumption, TypesNext DEF IInv, Typed, MaxVacancy
<1> QED
  BY <1>1, LeaderAssumption DEF Vacancy

LEMMA InitVInv == Init => VInv
<1> SUFFICES ASSUME Init PROVE VInv
  OBVIOUS
<1>1. queries = {} /\ vacant = 0 /\ IInv
  BY InitIInv DEF Init
<1> QED
  BY <1>1, LeaderAssumption DEF VInv, Late, NoEarlyBeat, FreshLost, Waits, Vacancy

\* What a query may do to the first four conjuncts, if the lease is left alone.
LEMMA Framed ==
  ASSUME VInv, IInv', UNCHANGED row, vacant' \in {0, vacant}, vacant' = vacant => Up \subseteq Up',
         \A q \in queries' : \/ q \in queries
                             \/ /\ q.status = "sent" /\ q.age = 0
                                /\ q.kind # "release" /\ phase'[q.pod] \notin {"starting", "up"}
                                     => vacant' = 0
                                /\ q.kind = "beat" => phase'[q.pod] \notin {"off", "starting"},
         \A q \in queries : /\ phase[q.pod] \notin {"off", "starting"}
                                 => phase'[q.pod] \notin {"off", "starting"}
                            /\ phase[q.pod] \in {"starting", "up"}
                                 => phase'[q.pod] \in {"starting", "up"} \/ vacant' = 0
  PROVE  Late' /\ NoEarlyBeat' /\ FreshLost' /\ Waits'
<1>1. \A q \in queries' : q.age \in Nat
  BY LeaderAssumption, TypesNext DEF IInv, Typed, Query
<1>2. Late'
  BY <1>1 DEF VInv, Late
<1>3. NoEarlyBeat'
  BY DEF VInv, NoEarlyBeat
<1>4. FreshLost'
  BY DEF VInv, FreshLost, row
<1>5. Waits'
  BY DEF VInv, Waits
<1> QED
  BY <1>2, <1>3, <1>4, <1>5

\* Steps that change nothing about attempts and leaders.
LEMMA Undisturbed ==
  ASSUME VInv, IInv', UNCHANGED <<row, vacant>>, Up' = Up, UpLeads' = UpLeads,
         \A p \in Up : timer'[p] = timer[p],
         \A q \in queries : q.kind = "acquire" => q \in queries',
         \A q \in queries' : q.status = "lost" => q \in queries
  PROVE  Vacancy'
<1> SUFFICES ASSUME vacant > Latency PROVE Vacancy'
  BY DEF Vacancy
<1>1. row' = row /\ vacant' = vacant /\ owner' = owner /\ leaseAge' = leaseAge
  BY DEF row
<1>2. Vacancy
  BY DEF VInv
<1>3. ASSUME Lapsing PROVE Lapsing'
  <2>1. Old' /\ (\A q \in queries : Refused(q))'
    BY <1>1, <1>3 DEF Lapsing, Old, Refused
  <2>2. \A p : Unanswered(p) \subseteq Unanswered(p)'
    BY DEF Unanswered
  <2>3. \A p \in Up : Unanswered(p) # {} \/ vacant <= LapsedBy + Latency + timer[p]
    BY <1>3 DEF Lapsing
  <2>4. \A p \in Up' : Unanswered(p)' # {} \/ vacant' <= LapsedBy + Latency + timer'[p]
    BY <1>1, <2>2, <2>3
  <2>5. PICK p \in Up : \/ \E q \in Unanswered(p) : vacant <= LapsedBy + PollEvery + q.age
                        \/ vacant <= LapsedBy + timer[p]
    BY <1>3 DEF Lapsing
  <2>6. \/ \E q \in Unanswered(p)' : vacant' <= LapsedBy + PollEvery + q.age
        \/ vacant' <= LapsedBy + timer'[p]
    BY <1>1, <2>2, <2>5
  <2> QED
    BY <2>1, <2>4, <2>5, <2>6 DEF Lapsing, LapsedBy
<1>4. ASSUME Taken PROVE Taken'
  <2>1. ASSUME NEW q \in queries, Won(q) \/ Asks(q) PROVE q \in queries' /\ (Won(q)' \/ Asks(q)')
    BY <1>1, <2>1 DEF Won, Asks, LapsedBy
  <2>2. ASSUME NEW p \in Pod, WillAsk(p) PROVE WillAsk(p)'
    BY <1>1, <2>2 DEF WillAsk, LapsedBy
  <2> QED
    BY <1>4, <2>1, <2>2 DEF Taken
<1>5. ASSUME \A q \in queries : q.pod = owner => Refused(q)
      PROVE  (\A q \in queries : q.pod = owner => Refused(q))'
  BY <1>1, <1>5 DEF Refused, LapsedBy
<1> QED
  BY <1>1, <1>2, <1>3, <1>4, <1>5 DEF Vacancy, MaxVacancy


\* Nobody leads but by Win, whatever the other steps do to the flags.
LEMMA SameLeaders ==
  ASSUME IInv, leading' = leading, Up' = Up PROVE UpLeads' = UpLeads
BY Stays DEF IInv, UpLeads

LEMMA StartVInv == ASSUME VInv, IInv', NEW p \in Pod, Start(p) PROVE VInv'
<1>1. /\ phase[p] = "off" /\ phase' = [phase EXCEPT ![p] = "starting"]
      /\ queries' = queries \union {Sent(p, "acquire")}
      /\ UNCHANGED <<row, leading, sweeps, since, beats, timer, vacant, faults>>
  BY DEF Start, work
<1>2. Typed /\ IInv
  BY Types DEF VInv, IInv
<1>3. Up' = Up
  BY <1>1, <1>2 DEF Up, Typed
<1>4. /\ Sent(p, "acquire").pod = p /\ Sent(p, "acquire").kind = "acquire"
      /\ Sent(p, "acquire").status = "sent" /\ Sent(p, "acquire").age = 0
  BY SentIsAQuery
<1>5. Late' /\ NoEarlyBeat' /\ FreshLost' /\ Waits'
  BY <1>1, <1>2, <1>3, <1>4, Framed DEF Typed, Query
<1>6. UpLeads' = UpLeads
  BY <1>1, <1>2, <1>3, SameLeaders
<1>7. Vacancy'
  BY <1>1, <1>3, <1>4, <1>6, Undisturbed
<1> QED
  BY <1>5, <1>7 DEF VInv

LEMMA BeatVInv == ASSUME VInv, IInv', NEW p \in Pod, Beat(p) PROVE VInv'
<1>1. /\ phase[p] = "up" /\ queries' = queries \union {Sent(p, "beat")}
      /\ UNCHANGED <<row, phase, leading, sweeps, since, timer, vacant, faults>>
  BY DEF Beat, work
<1>2. Typed /\ IInv
  BY Types DEF VInv, IInv
<1>3. Up' = Up
  BY <1>1 DEF Up
<1>4. /\ Sent(p, "beat").pod = p /\ Sent(p, "beat").kind = "beat"
      /\ Sent(p, "beat").status = "sent" /\ Sent(p, "beat").age = 0
  BY SentIsAQuery
<1>5. Late' /\ NoEarlyBeat' /\ FreshLost' /\ Waits'
  BY <1>1, <1>2, <1>3, <1>4, Framed DEF Typed, Query
<1>6. UpLeads' = UpLeads
  BY <1>1, <1>2, <1>3, SameLeaders
<1>7. Vacancy'
  BY <1>1, <1>3, <1>4, <1>6, Undisturbed
<1> QED
  BY <1>5, <1>7 DEF VInv

\* After Latency, only pods that start or are up have attempts and beats.
LEMMA AfterLatency ==
  ASSUME VInv, vacant > Latency, NEW q \in queries
  PROVE  /\ q.pod \in Pod /\ (q.kind # "release" => phase[q.pod] \in {"starting", "up"})
         /\ vacant \in Nat /\ q.age \in 0..Latency
<1>1. q \in Query /\ vacant \in Nat /\ q.age \in 0..Latency
  BY Types, LeaderAssumption DEF VInv, IInv, Typed, Query, MaxVacancy
<1>2. ~(vacant <= q.age)
  BY <1>1, LeaderAssumption
<1> QED
  BY <1>1, <1>2 DEF VInv, Late, Query

\* The answer to a beat or a release, or a connection that drops.
LEMMA AnsweredVInv ==
  ASSUME VInv, IInv', NEW q \in queries, queries' = queries \ {q}, q.kind # "acquire",
         UNCHANGED <<row, leading, timer, vacant>>, Up' = Up,
         \A r \in Pod : /\ phase[r] \notin {"off", "starting"} => phase'[r] \notin {"off", "starting"}
                        /\ phase[r] \in {"starting", "up"} => phase'[r] \in {"starting", "up"}
  PROVE  VInv'
<1>1. IInv /\ Typed
  BY Types DEF VInv, IInv
<1>2. Late' /\ NoEarlyBeat' /\ FreshLost' /\ Waits'
  BY <1>1, Framed DEF Typed, Query
<1>3. UpLeads' = UpLeads
  BY <1>1, SameLeaders
<1>4. Vacancy'
  BY <1>1, <1>3, Undisturbed
<1> QED
  BY <1>2, <1>4 DEF VInv

\* Steps of the sweeps.
LEMMA SweepsVInv ==
  ASSUME VInv, IInv', UNCHANGED <<row, phase, leading, timer, queries, vacant>>
  PROVE  VInv'
<1>1. IInv /\ Up' = Up
  BY DEF VInv, Up
<1>2. Late' /\ NoEarlyBeat' /\ FreshLost' /\ Waits'
  BY <1>1, Framed
<1>3. UpLeads' = UpLeads
  BY <1>1, SameLeaders
<1>4. Vacancy'
  BY <1>1, <1>3, Undisturbed
<1> QED
  BY <1>2, <1>4 DEF VInv

LEMMA DrainedVInv == ASSUME VInv, IInv', NEW p \in Pod, Drained(p) PROVE VInv'
<1>1. /\ phase[p] = "draining" /\ phase' = [phase EXCEPT ![p] = "stopping"]
      /\ queries' = queries \union {Sent(p, "release")}
      /\ UNCHANGED <<row, leading, timer, vacant>>
  BY DEF Drained, work
<1>2. Typed /\ IInv
  BY Types DEF VInv, IInv
<1>3. Up' = Up
  BY <1>1, <1>2 DEF Up, Typed
<1>4. /\ Sent(p, "release").pod = p /\ Sent(p, "release").kind = "release"
      /\ Sent(p, "release").status = "sent" /\ Sent(p, "release").age = 0
  BY SentIsAQuery
<1>5. Late' /\ NoEarlyBeat' /\ FreshLost' /\ Waits'
  BY <1>1, <1>2, <1>3, <1>4, Framed DEF Typed, Query
<1>6. UpLeads' = UpLeads
  BY <1>1, <1>2, <1>3, SameLeaders
<1>7. Vacancy'
  BY <1>1, <1>3, <1>4, <1>6, Undisturbed
<1> QED
  BY <1>5, <1>7 DEF VInv

\* The connection of a pod that is gone drops.
LEMMA DroppedVInv == ASSUME VInv, IInv', NEW q \in queries, Dropped(q) PROVE VInv'
<1>1. /\ ~Alive(q.pod) /\ queries' = queries \ {q}
      /\ UNCHANGED <<row, phase, leading, timer, vacant>> /\ Up' = Up
  BY DEF Dropped, work, Up
<1>2. Typed /\ IInv
  BY Types DEF VInv, IInv
<1>3. CASE q.kind # "acquire"
  BY <1>1, <1>3, AnsweredVInv
<1>4. CASE q.kind = "acquire"
  <2>1. Late' /\ NoEarlyBeat' /\ FreshLost' /\ Waits'
    BY <1>1, <1>2, Framed DEF Typed, Query
  <2>2. ~(vacant > Latency)
    BY <1>1, <1>4, AfterLatency DEF Alive
  <2>3. vacant' <= Latency
    BY <1>1, <1>2, <2>2, LeaderAssumption DEF Typed, MaxVacancy
  <2> QED
    BY <2>1, <2>3, Resets DEF VInv
<1> QED
  BY <1>3, <1>4

LEMMA ExitVInv == ASSUME VInv, IInv', NEW p \in Pod, Exit(p) PROVE VInv'
<1>1. /\ phase[p] = "stopped" /\ phase' = [phase EXCEPT ![p] = "dead"]
      /\ leading' = [leading EXCEPT ![p] = FALSE] /\ timer' = [timer EXCEPT ![p] = 0]
      /\ queries' = {q \in queries : q.pod = p => q.status = "sent"}
      /\ UNCHANGED <<row, vacant>>
  BY DEF Exit, Die
<1>2. Typed /\ IInv /\ TypeOK
  BY Types DEF VInv, IInv
<1>3. Up' = Up /\ p \notin Up
  BY <1>1, <1>2 DEF Up, Typed
<1>4. Late' /\ NoEarlyBeat' /\ FreshLost' /\ Waits'
  BY <1>1, <1>2, <1>3, Framed DEF Typed, Query
<1>5. UpLeads' = UpLeads
  <2>1. Leads' \subseteq Leads \ {p}
    BY <1>1, <1>2, Loses
  <2>2. leading \in [Pod -> BOOLEAN]
    BY <1>2, Types
  <2>3. \A r \in Pod \ {p} : leading'[r] = leading[r]
    BY <1>1, <2>2, Zenon
  <2>4. Leads \ {p} \subseteq Leads'
    BY <2>3, Zenon DEF Leads
  <2> QED
    BY <1>3, <2>1, <2>4 DEF UpLeads
<1>6. Vacancy'
  <2>1. CASE vacant > Latency
    <3>1. \A q \in queries : q.pod # p
      <4>1. \A q \in queries : q.pod = p => q.kind # "release"
        BY <1>1, <1>2 DEF IInv, OneAtATime, Of
      <4> QED
        BY <1>1, <2>1, <4>1, AfterLatency
    <3>2. queries' = queries
      BY <1>1, <3>1
    <3>3. \A r \in Up : timer'[r] = timer[r]
      BY <1>1, <1>2, <1>3 DEF Up, Typed
    <3> QED
      BY <1>1, <1>3, <1>5, <3>2, <3>3, Undisturbed
  <2>2. CASE ~(vacant > Latency)
    <3>1. vacant' <= Latency
      BY <1>1, <1>2, <2>2, LeaderAssumption DEF Typed, MaxVacancy
    <3> QED
      BY <3>1, Resets
  <2> QED
    BY <2>1, <2>2
<1> QED
  BY <1>4, <1>6 DEF VInv

\* A fault, or a stop: vacant is reset.
LEMMA FaultVInv ==
  ASSUME VInv, IInv', UNCHANGED row, vacant' = 0,
         \A r \in Pod : phase[r] \notin {"off", "starting"} => phase'[r] \notin {"off", "starting"},
         \A q \in queries' : \/ q \in queries
                             \/ q.status = "sent" /\ q.age = 0 /\ q.kind # "beat"
  PROVE  VInv'
<1>1. Typed
  BY Types DEF VInv, IInv
<1>2. Late' /\ NoEarlyBeat' /\ FreshLost' /\ Waits'
  <2>1. \A q \in queries' : q.age \in Nat
    BY LeaderAssumption, TypesNext DEF IInv, Typed, Query
  <2> QED
    BY <1>1, <2>1 DEF VInv, Late, NoEarlyBeat, FreshLost, Waits, row, Typed, Query
<1>3. Vacancy'
  BY Resets, LeaderAssumption
<1> QED
  BY <1>2, <1>3 DEF VInv

LEMMA FaultsVInv ==
  ASSUME VInv, IInv',
         \/ \E p \in Pod : Stop(p) \/ Crash(p)
         \/ \E q \in queries : Throw(q)
  PROVE  VInv'
<1>1. Typed
  BY Types DEF VInv, IInv
<1>2. ASSUME NEW p \in Pod, Stop(p) PROVE VInv'
  <2>1. phase' = [phase EXCEPT ![p] = "draining"] \/ phase' = [phase EXCEPT ![p] = "stopped"]
    BY <1>2, Zenon DEF Stop
  <2> QED
    BY <1>1, <1>2, <2>1, FaultVInv DEF Stop, Typed
<1>3. ASSUME NEW p \in Pod, Crash(p) PROVE VInv'
  BY <1>1, <1>3, FaultVInv DEF Crash, Die, Typed
<1>4. ASSUME NEW q \in queries, Throw(q) PROVE VInv'
  <2>1. q.pod \in Pod
    BY <1>1 DEF Typed, Query
  <2> QED
    BY <1>1, <1>4, <2>1, FaultVInv DEF Throw, Attempted, Released, Typed
<1> QED
  BY <1>2, <1>3, <1>4


LEMMA PollVInv == ASSUME VInv, IInv', NEW p \in Pod, Poll(p) PROVE VInv'
<1> DEFINE s == Sent(p, "acquire")
<1>1. /\ phase[p] = "up" /\ timer[p] = PollEvery /\ timer' = [timer EXCEPT ![p] = 0]
      /\ queries' = IF leading[p] THEN queries ELSE queries \union {s}
      /\ UNCHANGED <<row, phase, leading, sweeps, since, beats, vacant, faults>>
  BY DEF Poll, work
<1>2. Typed /\ IInv /\ Up' = Up /\ p \in Up
  BY <1>1, Types DEF VInv, IInv, Up
<1>3. s.pod = p /\ s.kind = "acquire" /\ s.status = "sent" /\ s.age = 0
  BY SentIsAQuery
<1> HIDE DEF s
<1>4. queries \subseteq queries' /\ \A q \in queries' \ queries : q = s
  BY <1>1
<1>5. Late' /\ NoEarlyBeat' /\ FreshLost' /\ Waits'
  BY <1>1, <1>2, <1>3, <1>4, Framed DEF Typed, Query
<1>6. UpLeads' = UpLeads
  BY <1>1, <1>2, SameLeaders
<1>7. ASSUME vacant > Latency PROVE Vacancy'
  <2>1. Vacancy /\ vacant \in Nat /\ vacant' = vacant /\ owner' = owner /\ leaseAge' = leaseAge
    BY <1>1, <1>2, LeaderAssumption DEF VInv, row, Typed, MaxVacancy
  <2>2. \A r \in Up \ {p} : timer'[r] = timer[r]
    BY <1>1, <1>2 DEF Up, Typed
  <2>3. timer'[p] = 0 /\ timer[p] = PollEvery
    BY <1>1, <1>2 DEF Typed
  <2>4. Unanswered(p) = {}
    <3>1. ASSUME NEW q \in Unanswered(p) PROVE FALSE
      <4>1. timer[p] <= q.age /\ q.age \in 0..Latency
        BY <1>1, <1>2, <3>1 DEF IInv, OneAtATime, Of, Unanswered, Typed, Query
      <4> QED
        BY <1>1, <4>1, LeaderAssumption
    <3> QED
      BY <3>1
  <2>5. \A r : Unanswered(r) \subseteq Unanswered(r)'
    BY <1>4 DEF Unanswered
  <2>6. ASSUME Lapsing, UpLeads = {} PROVE Lapsing'
    <3>1. p \notin Leads
      BY <1>2, <2>6 DEF UpLeads
    <3>2. ~leading[p]
      BY <3>1, Zenon DEF Leads
    <3>3. s \in Unanswered(p)'
      BY <1>1, <1>3, <3>2 DEF Unanswered
    <3>4. Old' /\ (\A q \in queries : Refused(q))'
      BY <1>3, <1>4, <2>1, <2>6 DEF Lapsing, Old, Refused, LapsedBy
    <3>5. \A r \in Up : Unanswered(r)' # {} \/ vacant' <= LapsedBy + Latency + timer'[r]
      <4>1. \A r \in Up : Unanswered(r) # {} \/ vacant <= LapsedBy + Latency + timer[r]
        BY <2>6 DEF Lapsing
      <4> QED
        BY <2>1, <2>2, <2>5, <3>3, <4>1
    <3>6. PICK x \in Up : \/ \E q \in Unanswered(x) : vacant <= LapsedBy + PollEvery + q.age
                          \/ vacant <= LapsedBy + timer[x]
      BY <2>6 DEF Lapsing
    <3>7. \E r \in Up : \/ \E q \in Unanswered(r)' : vacant' <= LapsedBy + PollEvery + q.age
                        \/ vacant' <= LapsedBy + timer'[r]
      <4>1. CASE x = p
        <5>1. vacant' <= LapsedBy + PollEvery + s.age
          BY <1>3, <2>1, <2>3, <2>4, <3>6, <4>1, LeaderAssumption DEF LapsedBy
        <5> QED
          BY <1>2, <3>3, <5>1
      <4>2. CASE x # p
        BY <2>1, <2>2, <2>5, <3>6, <4>2
      <4> QED
        BY <4>1, <4>2
    <3> QED
      BY <1>2, <3>4, <3>5, <3>7 DEF Lapsing, LapsedBy
  <2>7. ASSUME Taken, UpLeads = {} PROVE Taken'
    <3>1. ASSUME NEW q \in queries, Won(q) \/ Asks(q) PROVE Taken'
      <4>1. q \in queries' /\ (Won(q)' \/ Asks(q)')
        BY <1>2, <1>4, <2>1, <3>1 DEF Won, Asks, LapsedBy
      <4> QED
        BY <4>1 DEF Taken
    <3>2. ASSUME NEW r \in Pod, WillAsk(r), r # p PROVE Taken'
      <4>1. timer'[r] = timer[r]
        BY <2>2, <3>2 DEF WillAsk
      <4>2. WillAsk(r)'
        BY <1>2, <2>1, <3>2, <4>1 DEF WillAsk, LapsedBy
      <4> QED
        BY <4>2 DEF Taken
    <3>3. ASSUME WillAsk(p) PROVE Taken'
      <4>1. p \notin Leads
        BY <1>2, <2>7 DEF UpLeads
      <4>2. ~leading[p]
        BY <4>1, Zenon DEF Leads
      <4>3. s \in queries'
        BY <1>1, <4>2
      <4>4. Asks(s)'
        BY <1>2, <1>3, <2>1, <2>3, <3>3, LeaderAssumption DEF WillAsk, Asks, LapsedBy
      <4> QED
        BY <4>3, <4>4 DEF Taken
    <3> QED
      BY <2>7, <3>1, <3>2, <3>3 DEF Taken
  <2>8. ASSUME \A q \in queries : q.pod = owner => Refused(q)
        PROVE  (\A q \in queries : q.pod = owner => Refused(q))'
    BY <1>3, <1>4, <2>1, <2>8 DEF Refused, LapsedBy
  <2> QED
    BY <1>6, <1>7, <2>1, <2>6, <2>7, <2>8 DEF Vacancy, MaxVacancy
<1>8. ASSUME ~(vacant > Latency) PROVE Vacancy'
  <2>1. vacant' <= Latency
    BY <1>1, <1>2, <1>8, LeaderAssumption DEF Typed, MaxVacancy
  <2> QED
    BY <2>1, Resets
<1> QED
  BY <1>5, <1>7, <1>8 DEF VInv

\* Whoever takes the lease after Latency is up, and leads.
LEMMA WinVInv == ASSUME VInv, IInv', NEW q \in queries, q \in Query, Win(q) PROVE VInv'
<1> DEFINE p == q.pod
<1>1. /\ q.kind = "acquire" /\ q.status = "won" /\ Alive(p)
      /\ leading' = [leading EXCEPT ![p] = TRUE]
      /\ queries' = queries \ {q} /\ Attempted(p) /\ UNCHANGED <<row, vacant, faults>>
  BY DEF Win, Answered
<1>2. Typed /\ IInv /\ TypeOK /\ p \in Pod
  BY Types DEF VInv, IInv, Query
<1>3. /\ \A r \in Pod \ {p} : phase'[r] = phase[r] /\ timer'[r] = timer[r]
      /\ phase[p] = "starting" => phase'[p] = "up"
      /\ phase[p] # "starting" => phase'[p] = phase[p]
  BY <1>1, <1>2 DEF Attempted, Typed
<1>4. Up \subseteq Up'
  BY <1>3 DEF Up
<1>5. Late' /\ NoEarlyBeat' /\ FreshLost' /\ Waits'
  BY <1>1, <1>2, <1>3, <1>4, Framed DEF Typed, Query
<1>6. ASSUME vacant > Latency PROVE Vacancy'
  <2>1. p \in Up'
    BY <1>1, <1>2, <1>3, <1>6, AfterLatency DEF Up
  <2>2. leading'[p]
    BY <1>1, <1>2, Types, Zenon
  <2>3. p \in UpLeads'
    BY <1>2, <2>1, <2>2, Zenon DEF UpLeads, Leads
  <2>4. Vacancy /\ vacant' = vacant /\ owner' = owner
    BY <1>1 DEF VInv, row
  <2>5. \A x \in queries : x.pod = owner => Refused(x)
    BY <1>6, <2>4 DEF Vacancy, Lapsing
  <2>6. (\A x \in queries : x.pod = owner => Refused(x))'
    BY <1>1, <2>4, <2>5 DEF Refused, LapsedBy
  <2> QED
    BY <1>6, <2>3, <2>4, <2>6 DEF Vacancy, MaxVacancy
<1>7. ASSUME ~(vacant > Latency) PROVE Vacancy'
  <2>1. vacant' <= Latency
    BY <1>1, <1>2, <1>7, LeaderAssumption DEF Typed, MaxVacancy
  <2> QED
    BY <2>1, Resets
<1> QED
  BY <1>5, <1>6, <1>7 DEF VInv

\* The attempt of a pod that starts may be lost to the last renewal.
LEMMA LoseVInv == ASSUME VInv, IInv', NEW q \in queries, q \in Query, Lose(q) PROVE VInv'
<1> DEFINE p == q.pod
<1>1. /\ q.kind = "acquire" /\ q.status = "lost" /\ Alive(p)
      /\ queries' = queries \ {q} /\ Attempted(p)
      /\ UNCHANGED <<row, leading, beats, vacant, faults>>
  BY DEF Lose, Answered, work
<1>2. Typed /\ IInv /\ TypeOK /\ p \in Pod
  BY Types DEF VInv, IInv, Query
<1>3. /\ \A r \in Pod \ {p} : phase'[r] = phase[r] /\ timer'[r] = timer[r]
      /\ phase[p] = "starting" => phase'[p] = "up" /\ timer'[p] = 0
      /\ phase[p] # "starting" => phase'[p] = phase[p] /\ timer'[p] = timer[p]
  BY <1>1, <1>2 DEF Attempted, Typed
<1>4. Up \subseteq Up' /\ Up' \subseteq Up \cup {p} /\ \A r \in Up : timer'[r] = timer[r]
  BY <1>3 DEF Up
<1>5. Late' /\ NoEarlyBeat' /\ FreshLost' /\ Waits'
  BY <1>1, <1>2, <1>3, <1>4, Framed DEF Typed, Query
<1>6. ASSUME vacant > Latency PROVE Vacancy'
  <2>1. /\ Vacancy /\ vacant' = vacant /\ owner' = owner /\ leaseAge' = leaseAge /\ vacant \in Nat
        /\ q.age \in 0..Latency
    BY <1>1, <1>2, LeaderAssumption DEF VInv, row, Typed, MaxVacancy, Query
  <2>2. \A r : Unanswered(r)' = Unanswered(r)
    BY <1>1 DEF Unanswered
  <2>3. UpLeads \subseteq UpLeads' /\ (UpLeads = {} => UpLeads' = {})
    <3>1. Leads' = Leads
      BY <1>1, <1>2, Stays
    <3>2. p \in Leads => phase[p] # "starting"
      BY <1>2 DEF IInv, Rules
    <3>3. p \in Leads /\ p \in Up' => p \in Up
      BY <1>2, <1>3, <3>2 DEF Up
    <3> QED
      BY <1>4, <3>1, <3>3 DEF UpLeads
  <2>4. ASSUME Lapsing PROVE Lapsing'
    <3>1. Old' /\ (\A x \in queries : Refused(x))'
      BY <1>1, <2>1, <2>4 DEF Lapsing, Old, Refused, LapsedBy
    <3>2. vacant <= LapsedBy + Latency
      BY <1>1, <2>1, <2>4, LeaderAssumption DEF Lapsing, Refused, LapsedBy
    <3>3. \A r \in Up' : Unanswered(r)' # {} \/ vacant' <= LapsedBy + Latency + timer'[r]
      <4>1. \A r \in Up : Unanswered(r) # {} \/ vacant <= LapsedBy + Latency + timer[r]
        BY <2>4 DEF Lapsing
      <4>2. p \in Up' /\ p \notin Up => timer'[p] = 0
        BY <1>2, <1>3 DEF Up
      <4>3. p \in Up' /\ p \notin Up => vacant' <= LapsedBy + Latency + timer'[p]
        BY <2>1, <3>2, <4>2, LeaderAssumption DEF LapsedBy
      <4> QED
        BY <1>4, <2>1, <2>2, <4>1, <4>3
    <3>4. \E r \in Up' : \/ \E x \in Unanswered(r)' : vacant' <= LapsedBy + PollEvery + x.age
                         \/ vacant' <= LapsedBy + timer'[r]
      BY <1>4, <2>1, <2>2, <2>4 DEF Lapsing
    <3> QED
      BY <3>1, <3>3, <3>4 DEF Lapsing, LapsedBy
  <2>5. ASSUME Taken PROVE Taken'
    <3>1. ASSUME NEW x \in queries, Won(x) \/ Asks(x) PROVE x \in queries' /\ (Won(x)' \/ Asks(x)')
      BY <1>1, <1>4, <2>1, <3>1 DEF Won, Asks, LapsedBy
    <3>2. ASSUME NEW r \in Pod, WillAsk(r) PROVE WillAsk(r)'
      BY <1>4, <2>1, <3>2 DEF WillAsk, LapsedBy
    <3> QED
      BY <2>5, <3>1, <3>2 DEF Taken
  <2>6. ASSUME \A x \in queries : x.pod = owner => Refused(x)
        PROVE  (\A x \in queries : x.pod = owner => Refused(x))'
    BY <1>1, <2>1, <2>6 DEF Refused, LapsedBy
  <2> QED
    BY <1>6, <2>1, <2>3, <2>4, <2>5, <2>6 DEF Vacancy, MaxVacancy
<1>7. ASSUME ~(vacant > Latency) PROVE Vacancy'
  <2>1. vacant' <= Latency
    BY <1>1, <1>2, <1>7, LeaderAssumption DEF Typed, MaxVacancy
  <2> QED
    BY <2>1, Resets
<1> QED
  BY <1>5, <1>6, <1>7 DEF VInv


\* A leader that is told of a refusal had just taken the lease since.
LEMMA RejectedVInv == ASSUME VInv, IInv', NEW q \in queries, q \in Query, Rejected(q) PROVE VInv'
<1> DEFINE p == q.pod
<1>1. /\ q.kind = "beat" /\ q.status = "lost"
      /\ leading' = [leading EXCEPT ![p] = FALSE] /\ queries' = queries \ {q}
      /\ UNCHANGED <<row, phase, beats, timer, vacant, faults>>
  BY DEF Rejected, Answered
<1>2. Typed /\ IInv /\ TypeOK /\ p \in Pod /\ Up' = Up
  BY <1>1, Types DEF VInv, IInv, Query, Up
<1>3. Late' /\ NoEarlyBeat' /\ FreshLost' /\ Waits'
  BY <1>1, <1>2, Framed DEF Typed, Query
<1>4. \A r \in Pod \ {p} : r \in Leads => r \in Leads'
  <2>1. leading \in [Pod -> BOOLEAN]
    BY <1>2, Types
  <2>2. \A r \in Pod \ {p} : leading'[r] = leading[r]
    BY <1>1, <2>1, Zenon
  <2> QED
    BY <2>2, Zenon DEF Leads
<1>5. Leads' \subseteq Leads \ {p}
  BY <1>1, <1>2, Loses
<1>6. CASE p \notin UpLeads
  <2>1. UpLeads' = UpLeads
    BY <1>2, <1>4, <1>5, <1>6 DEF UpLeads, Up
  <2>2. Vacancy'
    BY <1>1, <1>2, <2>1, Undisturbed
  <2> QED
    BY <1>3, <2>2 DEF VInv
<1>7. CASE p \in UpLeads /\ vacant > Latency
  <2>1. /\ owner = p /\ p \in Up /\ vacant' = vacant /\ owner' = owner /\ leaseAge' = leaseAge
        /\ Vacancy /\ vacant \in Nat /\ leaseAge \in Nat /\ q.age \in 0..Latency /\ timer[p] \in Nat
    BY <1>1, <1>2, <1>7, LeaderAssumption DEF UpLeads, Up, IInv, Rules, VInv, row, Typed, MaxVacancy, Query
  <2>2. \A x \in queries : x.pod = owner => Refused(x)
    BY <1>7, <2>1 DEF Vacancy, Lapsing
  <2>3. vacant <= LapsedBy + Latency
    BY <1>1, <2>1, <2>2, LeaderAssumption DEF Refused, LapsedBy
  <2>4. leaseAge <= Latency
    BY <1>1, <2>1, LeaderAssumption DEF VInv, FreshLost
  <2>5. WillAsk(p)'
    BY <1>1, <1>2, <2>1, <2>3, <2>4, LeaderAssumption DEF WillAsk, LapsedBy
  <2>6. (\A x \in queries : x.pod = owner => Refused(x))'
    BY <1>1, <2>1, <2>2 DEF Refused, LapsedBy
  <2>7. Vacancy'
    BY <1>2, <1>7, <2>1, <2>5, <2>6 DEF Vacancy, MaxVacancy, Taken
  <2> QED
    BY <1>3, <2>7 DEF VInv
<1>8. CASE ~(vacant > Latency)
  <2>1. vacant' <= Latency
    BY <1>1, <1>2, <1>8, LeaderAssumption DEF Typed, MaxVacancy
  <2> QED
    BY <1>3, <2>1, Resets DEF VInv
<1> QED
  BY <1>6, <1>7, <1>8

\* Who holds the lease holds it against the others.
LEMMA HeldInTime ==
  ASSUME VInv, vacant > Latency, UpLeads # {} \/ Taken
  PROVE  owner \in Pod /\ leaseAge <= LeaseTtl
<1>1. Typed /\ IInv
  BY Types DEF VInv, IInv
<1>2. CASE UpLeads # {}
  BY <1>1, <1>2, RulesInTime DEF UpLeads, Up
<1>3. ASSUME NEW q \in queries, Won(q) \/ Asks(q) PROVE owner \in Pod /\ leaseAge <= LeaseTtl
  <2>1. owner = q.pod /\ q.pod \in Pod /\ q.age \in 0..Latency /\ leaseAge \in Nat
    BY <1>1, <1>3, LeaderAssumption DEF Won, Asks, Typed, Query
  <2>2. CASE Won(q)
    BY <1>1, <2>1, <2>2, LeaderAssumption DEF Won, IInv, Fresh
  <2>3. CASE Asks(q)
    BY <2>1, <2>3, LeaderAssumption DEF Asks
  <2> QED
    BY <1>3, <2>1, <2>2, <2>3
<1>4. ASSUME NEW p \in Pod, WillAsk(p) PROVE owner \in Pod /\ leaseAge <= LeaseTtl
  <2>1. owner = p /\ leaseAge <= timer[p] + Latency /\ timer[p] <= PollEvery
    BY <1>1, <1>4 DEF WillAsk, Typed, Up
  <2> QED
    BY <1>1, <2>1, LeaderAssumption DEF Typed
<1> QED
  BY <1>2, <1>3, <1>4 DEF Taken

LEMMA UpsertVInv == ASSUME VInv, IInv', NEW q \in queries, q \in Query, Upsert(q) PROVE VInv'
<1> DEFINE p == q.pod
<1>1. /\ q.kind # "release" /\ q.status = "sent"
      /\ UNCHANGED <<phase, leading, sweeps, since, beats, timer, vacant, faults>>
  BY DEF Upsert, work
<1>2. /\ Typed /\ IInv /\ TypeOK /\ p \in Pod /\ Up' = Up /\ q.kind \in {"acquire", "beat"}
      /\ q.age \in 0..Latency /\ p # NoPod /\ leaseAge \in Nat
  BY <1>1, LeaderAssumption, Types DEF VInv, IInv, Query, Up, Typed
<1>3. UpLeads' = UpLeads
  BY <1>1, <1>2, SameLeaders
<1>4. PICK status \in {"won", "lost"} :
        /\ queries' = (queries \ {q}) \union {[q EXCEPT !.status = status]}
        /\ IF status = "won" THEN Acquirable(p) /\ owner' = p /\ leaseAge' = 0
           ELSE UNCHANGED row /\ ~Acquirable(p)
  BY DEF Upsert
<1> DEFINE n == [q EXCEPT !.status = status]
<1>5. n.pod = p /\ n.kind = q.kind /\ n.status = status /\ n.age = q.age
  BY <1>2, <1>4 DEF Query
<1>6. queries' = (queries \ {q}) \union {n}
  BY <1>4
<1> HIDE DEF n
<1>7. Late' /\ NoEarlyBeat' /\ FreshLost' /\ Waits'
  <2>1. Late' /\ NoEarlyBeat' /\ Waits'
    BY <1>1, <1>2, <1>5, <1>6 DEF VInv, Late, NoEarlyBeat, Waits
  <2>2. FreshLost'
    <3>1. \A x \in queries' : x.age \in Nat
      BY LeaderAssumption, TypesNext DEF IInv, Typed, Query
    <3> QED
      BY <1>4, <1>5, <1>6, <3>1 DEF VInv, FreshLost, row, Acquirable
  <2> QED
    BY <2>1, <2>2
<1>8. ASSUME vacant > Latency PROVE Vacancy'
  <2>1. /\ Vacancy /\ vacant \in Nat /\ vacant' = vacant /\ phase[p] \in {"starting", "up"}
        /\ q.kind = "beat" => p \in Up
    <3>1. phase[p] \in {"starting", "up"}
      BY <1>1, <1>2, <1>8, AfterLatency
    <3> QED
      BY <1>1, <1>2, <3>1, LeaderAssumption DEF VInv, Typed, MaxVacancy, NoEarlyBeat, Up
  <2>2. CASE status = "lost"
    <3>1. owner' = owner /\ leaseAge' = leaseAge /\ owner # NoPod /\ owner # p /\ leaseAge <= LeaseTtl
      BY <1>2, <1>4, <2>2, LeaderAssumption DEF row, Acquirable, Expired, Typed
    <3>2. ASSUME Lapsing PROVE Lapsing'
      <4>1. vacant <= LapsedBy
        BY <1>2, <2>1, <3>1, <3>2, LeaderAssumption DEF Lapsing, Old, LapsedBy
      <4>2. Old' /\ (\A x \in queries : Refused(x))'
        BY <1>2, <1>5, <1>6, <2>1, <3>1, <3>2, <4>1, LeaderAssumption
        DEF Lapsing, Old, Refused, LapsedBy
      <4>3. \A r \in Up : timer[r] \in Nat /\ vacant' <= LapsedBy + timer'[r]
                          /\ vacant' <= LapsedBy + Latency + timer'[r]
        BY <1>1, <1>2, <2>1, <4>1, LeaderAssumption DEF Typed, Up, LapsedBy
      <4>4. Up # {}
        BY <3>2 DEF Lapsing
      <4> QED
        BY <1>2, <4>2, <4>3, <4>4 DEF Lapsing, LapsedBy
    <3>3. ASSUME Taken PROVE Taken'
      <4>1. ASSUME NEW x \in queries, Won(x) \/ Asks(x)
            PROVE  x \in queries' /\ (Won(x)' \/ Asks(x)')
        BY <1>2, <1>6, <2>1, <3>1, <4>1 DEF Won, Asks, LapsedBy
      <4>2. ASSUME NEW r \in Pod, WillAsk(r) PROVE WillAsk(r)'
        BY <1>1, <1>2, <2>1, <3>1, <4>2 DEF WillAsk, LapsedBy
      <4> QED
        BY <3>3, <4>1, <4>2 DEF Taken
    <3>4. ASSUME \A x \in queries : x.pod = owner => Refused(x)
          PROVE  (\A x \in queries : x.pod = owner => Refused(x))'
      BY <1>5, <1>6, <2>1, <3>1, <3>4 DEF Refused, LapsedBy
    <3> QED
      BY <1>3, <1>8, <2>1, <3>2, <3>3, <3>4 DEF Vacancy, MaxVacancy
  <2>3. CASE status = "won" /\ UpLeads = {} /\ Lapsing
    <3>1. owner' = p /\ leaseAge' = 0
      BY <1>4, <2>3
    <3>2. (\A x \in queries : x.pod = owner => Refused(x))'
      BY <1>5, <1>6, <2>1, <2>3, <3>1 DEF Lapsing, Refused, LapsedBy
    <3>3. vacant <= LapsedBy + PollEvery + Latency
      <4>1. PICK x \in Up : \/ \E y \in Unanswered(x) : vacant <= LapsedBy + PollEvery + y.age
                            \/ vacant <= LapsedBy + timer[x]
        BY <2>3 DEF Lapsing
      <4>2. x \in Pod /\ timer[x] <= PollEvery /\ timer[x] \in Nat
        BY <1>2 DEF Up, IInv, Timed, Typed
      <4>3. \A y \in Unanswered(x) : y.age \in 0..Latency
        BY <1>2 DEF Unanswered, Typed, Query
      <4> QED
        BY <2>1, <4>1, <4>2, <4>3, LeaderAssumption DEF LapsedBy
    <3>4. CASE q.kind = "acquire"
      <4>1. Won(n)'
        BY <1>2, <1>5, <2>1, <2>3, <3>1, <3>3, <3>4, LeaderAssumption DEF Won, LapsedBy
      <4> QED
        BY <1>6, <1>8, <2>1, <2>3, <3>2, <4>1 DEF Vacancy, Taken, MaxVacancy
    <3>5. CASE q.kind = "beat"
      <4>1. p \in Up
        BY <2>1, <3>5
      <4>2. CASE Unanswered(p) # {}
        <5>1. PICK x \in queries : x.pod = p /\ x.kind = "acquire" /\ x.status = "sent"
          BY <4>2 DEF Unanswered
        <5>2. x \in queries' /\ x.age \in 0..Latency
          BY <1>2, <1>6, <3>5, <5>1 DEF Typed, Query
        <5>3. Asks(x)'
          BY <1>2, <2>1, <3>1, <3>3, <4>1, <5>1, <5>2, LeaderAssumption DEF Asks, LapsedBy
        <5> QED
          BY <1>8, <2>1, <2>3, <3>2, <5>2, <5>3 DEF Vacancy, Taken, MaxVacancy
      <4>3. CASE Unanswered(p) = {}
        <5>1. vacant <= LapsedBy + Latency + timer[p] /\ timer[p] \in Nat
          BY <1>2, <2>3, <4>1, <4>3, LeaderAssumption DEF Lapsing, Typed
        <5>2. WillAsk(p)'
          BY <1>1, <1>2, <2>1, <3>1, <4>1, <5>1, LeaderAssumption DEF WillAsk, LapsedBy
        <5> QED
          BY <1>2, <1>8, <2>1, <2>3, <3>2, <5>2 DEF Vacancy, Taken, MaxVacancy
      <4> QED
        BY <4>2, <4>3
    <3> QED
      BY <1>2, <3>4, <3>5
  <2>4. CASE status = "won" /\ (UpLeads # {} \/ Taken) /\ \A x \in queries : x.pod = owner => Refused(x)
    <3>1. owner = p /\ owner' = p /\ leaseAge' = 0
      <4>1. owner \in Pod /\ leaseAge <= LeaseTtl
        BY <1>8, <2>4, HeldInTime
      <4>2. Acquirable(p)
        BY <1>4, <2>4
      <4> QED
        BY <1>2, <1>4, <2>4, <4>1, <4>2, LeaderAssumption DEF Acquirable, Expired, Typed
    <3>2. (\A x \in queries : x.pod = owner => Refused(x))'
      BY <1>5, <1>6, <2>1, <2>4, <3>1 DEF Refused, LapsedBy
    <3>3. ASSUME Taken PROVE Taken'
      <4>1. ASSUME NEW x \in queries, Won(x) PROVE Taken'
        <5>1. x \in queries' /\ Won(x)'
          BY <1>1, <1>6, <2>1, <3>1, <4>1 DEF Won, LapsedBy
        <5> QED
          BY <5>1 DEF Taken
      <4>2. ASSUME NEW x \in queries, Asks(x), x # q PROVE Taken'
        <5>1. x.age \in Nat
          BY <1>2, LeaderAssumption DEF Typed, Query
        <5>2. x \in queries' /\ Asks(x)'
          BY <1>2, <1>6, <2>1, <3>1, <4>2, <5>1, LeaderAssumption DEF Asks, LapsedBy
        <5> QED
          BY <5>2 DEF Taken
      <4>3. CASE Asks(q)
        <5>1. Won(n)'
          BY <1>5, <2>1, <2>4, <3>1, <4>3 DEF Won, Asks, LapsedBy
        <5> QED
          BY <1>6, <5>1 DEF Taken
      <4>4. ASSUME NEW r \in Pod, WillAsk(r) PROVE Taken'
        <5>1. timer[r] \in Nat
          BY <1>2 DEF Typed
        <5>2. WillAsk(r)'
          BY <1>1, <1>2, <2>1, <3>1, <4>4, <5>1, LeaderAssumption DEF WillAsk, LapsedBy
        <5> QED
          BY <5>2 DEF Taken
      <4> QED
        BY <3>3, <4>1, <4>2, <4>3, <4>4 DEF Taken
    <3> QED
      BY <1>3, <1>8, <2>1, <2>4, <3>2, <3>3 DEF Vacancy, MaxVacancy
  <2> QED
    BY <1>8, <2>1, <2>2, <2>3, <2>4 DEF Vacancy
<1>9. ASSUME ~(vacant > Latency) PROVE Vacancy'
  <2>1. vacant' <= Latency
    BY <1>1, <1>2, <1>9, LeaderAssumption DEF Typed, MaxVacancy
  <2> QED
    BY <2>1, Resets
<1> QED
  BY <1>7, <1>8, <1>9 DEF VInv


\* A release deletes the lease of a pod that is not up: it leaves no lease to
\* wait for, or the lease that another pod has taken.
LEMMA DeleteVInv == ASSUME VInv, IInv', NEW q \in queries, q \in Query, Delete(q) PROVE VInv'
<1> DEFINE n == [q EXCEPT !.status = "won"]
           p == q.pod
<1>1. /\ q.kind = "release" /\ owner' = IF owner = p THEN NoPod ELSE owner
      /\ queries' = (queries \ {q}) \union {n}
      /\ UNCHANGED <<leaseAge, phase, leading, sweeps, since, beats, timer, vacant, faults>>
  BY DEF Delete, work
<1>2. Typed /\ IInv /\ NoPod \notin Pod /\ n.pod = p /\ n.kind = q.kind /\ n.age = q.age
      /\ n.status = "won" /\ p \in Pod /\ Up' = Up
  BY <1>1, LeaderAssumption, Types DEF VInv, IInv, Query, Up
<1> HIDE DEF n
<1>3. Late' /\ NoEarlyBeat' /\ Waits'
  BY <1>1, <1>2 DEF VInv, Late, NoEarlyBeat, Waits, Up
<1>4. FreshLost'
  BY <1>1, <1>2 DEF VInv, FreshLost, Typed, Query
<1>5. phase[p] \in {"stopping", "dead"} /\ \A x \in queries : x.pod = p => x.kind # "acquire"
  BY <1>1, <1>2 DEF IInv, OneAtATime, Of
<1>6. UpLeads' = UpLeads
  BY <1>1, <1>2, SameLeaders
<1>7. ASSUME vacant > Latency PROVE Vacancy'
  <2>1. Vacancy /\ vacant' = vacant /\ leaseAge' = leaseAge
    BY <1>1 DEF VInv
  <2>2. \A r : Unanswered(r)' = Unanswered(r)
    BY <1>1, <1>2 DEF Unanswered
  <2>3. ASSUME Lapsing PROVE Lapsing'
    <3>1. Old'
      BY <1>1, <2>1, <2>3 DEF Lapsing, Old
    <3>2. (\A x \in queries : Refused(x))'
      BY <1>1, <1>2, <2>1, <2>3 DEF Lapsing, Refused, LapsedBy
    <3> QED
      BY <1>1, <1>2, <2>1, <2>2, <2>3, <3>1, <3>2 DEF Lapsing, LapsedBy
  <2>4. ASSUME UpLeads # {} \/ Taken PROVE owner # p
    <3>1. CASE UpLeads # {}
      <4>1. PICK r \in UpLeads : TRUE
        BY <3>1
      <4>2. phase[r] = "up" /\ owner = r
        BY <1>2, RulesInTime DEF UpLeads, Up
      <4> QED
        BY <1>5, <4>2
    <3>2. ASSUME NEW x \in queries, Won(x) \/ Asks(x) PROVE owner # p
      BY <1>5, <3>2 DEF Won, Asks
    <3>3. ASSUME NEW r \in Pod, WillAsk(r) PROVE owner # p
      BY <1>5, <3>3 DEF WillAsk, Up
    <3> QED
      BY <2>4, <3>1, <3>2, <3>3 DEF Taken
  <2>5. ASSUME Taken PROVE Taken'
    <3>1. owner' = owner
      BY <1>1, <2>4, <2>5
    <3>2. ASSUME NEW x \in queries, Won(x) \/ Asks(x) PROVE x \in queries' /\ (Won(x)' \/ Asks(x)')
      BY <1>1, <1>2, <2>1, <3>1, <3>2 DEF Won, Asks, LapsedBy
    <3>3. ASSUME NEW r \in Pod, WillAsk(r) PROVE WillAsk(r)'
      BY <1>1, <1>2, <2>1, <3>1, <3>3 DEF WillAsk, LapsedBy
    <3> QED
      BY <2>5, <3>2, <3>3 DEF Taken
  <2>6. ASSUME UpLeads # {} \/ Taken, \A x \in queries : x.pod = owner => Refused(x)
        PROVE  (\A x \in queries : x.pod = owner => Refused(x))'
    BY <1>1, <1>2, <2>1, <2>4, <2>6 DEF Refused, LapsedBy
  <2> QED
    BY <1>6, <1>7, <2>1, <2>3, <2>5, <2>6 DEF Vacancy, MaxVacancy
<1>8. ASSUME ~(vacant > Latency) PROVE Vacancy'
  <2>1. vacant' <= Latency
    BY <1>1, <1>2, <1>8, LeaderAssumption DEF Typed, MaxVacancy
  <2> QED
    BY <2>1, Resets
<1> QED
  BY <1>3, <1>4, <1>7, <1>8 DEF VInv

LEMMA TickVInv == ASSUME VInv, IInv', Tick PROVE VInv'
<1>1. Typed /\ IInv /\ TypeOK
  BY Types DEF VInv, IInv
<1>2. /\ leaseAge' = IF owner = NoPod THEN leaseAge ELSE Capped(leaseAge, LeaseTtl + 1)
      /\ timer' = [p \in Pod |-> IF phase[p] = "up" THEN timer[p] + 1 ELSE timer[p]]
      /\ queries' = {[q EXCEPT !.age = @ + 1] : q \in queries}
      /\ UNCHANGED <<owner, phase, leading, faults>> /\ Up' = Up
  BY DEF Tick, Up
<1>3. /\ \A p \in Up : timer[p] # PollEvery
      /\ \A q \in queries : q.age # Latency
  BY DEF Tick, Urgent
<1>4. UpLeads' = UpLeads /\ UpLeads = {p \in Up : leading[p]}
  <2>1. UpLeads = {p \in Up : leading[p]}
    BY Zenon DEF UpLeads, Leads, Up
  <2> QED
    BY <1>1, <1>2, <2>1, SameLeaders
<1>5. vacant' = IF Up = {} \/ UpLeads # {} THEN 0 ELSE Capped(vacant, MaxVacancy + 1)
  <2>1. (\E p \in Up : leading[p]) <=> UpLeads # {}
    BY <1>4, Zenon
  <2> QED
    BY <2>1, Zenon DEF Tick
<1> DEFINE Older(q) == [q EXCEPT !.age = @ + 1]
<1>6. \A q \in queries : /\ Older(q).pod = q.pod /\ Older(q).kind = q.kind
                         /\ Older(q).status = q.status /\ Older(q).age = q.age + 1
                         /\ q.age \in 0..Latency /\ q.age # Latency /\ q.pod \in Pod
  BY <1>1, <1>3 DEF Typed, Query
<1>7. queries' = {Older(q) : q \in queries}
  BY <1>2
<1> HIDE DEF Older
<1>8. /\ vacant \in 0..MaxVacancy + 1 /\ leaseAge \in 0..LeaseTtl + 1 /\ MaxVacancy + 1 \in Nat
      /\ vacant' \in {0, vacant, vacant + 1} /\ vacant' \in Nat
      /\ leaseAge' <= leaseAge + 1 /\ leaseAge' \in Nat
  BY <1>1, <1>2, <1>5, LeaderAssumption DEF Typed, MaxVacancy, Capped
<1>9. Late' /\ NoEarlyBeat' /\ FreshLost' /\ Waits'
  <2>1. Late'
    BY <1>2, <1>6, <1>7, <1>8, LeaderAssumption DEF VInv, Late
  <2>2. NoEarlyBeat'
    BY <1>2, <1>6, <1>7 DEF VInv, NoEarlyBeat
  <2>3. FreshLost'
    BY <1>2, <1>6, <1>7, <1>8, LeaderAssumption DEF VInv, FreshLost
  <2>4. Waits'
    BY <1>2, <1>5 DEF Waits
  <2> QED
    BY <2>1, <2>2, <2>3, <2>4
<1>10. CASE Up = {} \/ UpLeads # {}
  <2>1. vacant' <= Latency
    BY <1>5, <1>10, LeaderAssumption
  <2> QED
    BY <1>9, <2>1, Resets DEF VInv
<1>11. CASE UpLeads = {} /\ Up # {} /\ vacant < Latency
  <2>1. vacant' <= Latency
    BY <1>8, <1>11, LeaderAssumption
  <2> QED
    BY <1>9, <2>1, Resets DEF VInv
<1>12. \A p \in Up : p \in Pod /\ timer'[p] = timer[p] + 1 /\ timer[p] \in Nat /\ timer[p] < PollEvery
  BY <1>1, <1>2, <1>3, LeaderAssumption DEF Up, Typed
<1>13. Old /\ UpLeads = {} /\ vacant >= Latency /\ vacant' = vacant + 1 => Old'
  BY <1>2, <1>8, LeaderAssumption DEF Old, Capped
\* From Latency on, nothing is late yet.
<1>14. CASE UpLeads = {} /\ Up # {} /\ vacant = Latency
  <2>1. vacant' = Latency + 1
    BY <1>5, <1>8, <1>14, LeaderAssumption DEF Capped, MaxVacancy
  <2>2. Old'
    BY <1>2, <1>8, <2>1, LeaderAssumption DEF Old, Capped
  <2>3. \A q \in queries' : q.age \in Nat
    BY <1>6, <1>7, LeaderAssumption
  <2>4. (\A q \in queries : Refused(q))'
    BY <2>1, <2>3, LeaderAssumption DEF Refused, LapsedBy
  <2>5. \A p \in Up : vacant' <= LapsedBy + timer'[p] /\ vacant' <= LapsedBy + Latency + timer'[p]
    BY <1>12, <2>1, LeaderAssumption DEF LapsedBy
  <2>6. Lapsing'
    BY <1>2, <1>14, <2>2, <2>4, <2>5 DEF Lapsing, LapsedBy
  <2>7. vacant' <= MaxVacancy
    BY <2>1, LeaderAssumption DEF MaxVacancy
  <2> QED
    BY <1>4, <1>9, <1>14, <2>6, <2>7 DEF VInv, Vacancy, MaxVacancy
<1>15. CASE UpLeads = {} /\ Up # {} /\ vacant > Latency
  <2>1. Vacancy /\ vacant <= MaxVacancy
    BY <1>15 DEF VInv, Vacancy
  <2>2. vacant' = vacant + 1
    BY <1>5, <1>8, <1>15, <2>1, LeaderAssumption DEF Capped, MaxVacancy
  <2>3. ASSUME NEW q \in queries, Refused(q) PROVE Refused(Older(q))'
    BY <1>6, <1>8, <2>2, <2>3, LeaderAssumption DEF Refused, LapsedBy
  <2>4. CASE Lapsing
    <3>1. Old' /\ (\A q \in queries : Refused(q))'
      BY <1>7, <1>13, <1>15, <1>8, <2>2, <2>3, <2>4, LeaderAssumption DEF Lapsing
    <3>2. ASSUME NEW p, NEW q \in Unanswered(p) PROVE Older(q) \in Unanswered(p)'
      BY <1>6, <1>7 DEF Unanswered
    <3>3. \A p \in Up : Unanswered(p)' # {} \/ vacant' <= LapsedBy + Latency + timer'[p]
      <4> SUFFICES ASSUME NEW p \in Up PROVE Unanswered(p)' # {} \/ vacant' <= LapsedBy + Latency + timer'[p]
        OBVIOUS
      <4>1. Unanswered(p) # {} \/ vacant <= LapsedBy + Latency + timer[p]
        BY <2>4 DEF Lapsing
      <4> QED
        BY <1>8, <1>12, <2>2, <3>2, <4>1, LeaderAssumption DEF LapsedBy
    <3>4. PICK p \in Up : \/ \E q \in Unanswered(p) : vacant <= LapsedBy + PollEvery + q.age
                          \/ vacant <= LapsedBy + timer[p]
      BY <2>4 DEF Lapsing
    <3>5. /\ vacant' <= MaxVacancy
          /\ \/ \E q \in Unanswered(p)' : vacant' <= LapsedBy + PollEvery + q.age
             \/ vacant' <= LapsedBy + timer'[p]
      <4>1. ASSUME NEW q \in Unanswered(p), vacant <= LapsedBy + PollEvery + q.age
            PROVE  vacant' <= MaxVacancy /\ vacant' <= LapsedBy + PollEvery + Older(q).age
        <5>1. q \in queries
          BY DEF Unanswered
        <5> QED
          BY <1>6, <1>8, <2>2, <4>1, <5>1, LeaderAssumption DEF LapsedBy, MaxVacancy
      <4>2. CASE vacant <= LapsedBy + timer[p]
        BY <1>8, <1>12, <2>2, <4>2, LeaderAssumption DEF LapsedBy, MaxVacancy
      <4> QED
        BY <3>2, <3>4, <4>1, <4>2
    <3>6. Lapsing'
      BY <1>2, <3>1, <3>3, <3>5 DEF Lapsing, LapsedBy
    <3> QED
      BY <1>4, <1>9, <1>15, <3>5, <3>6 DEF VInv, Vacancy, MaxVacancy
  <2>5. CASE Taken /\ \A q \in queries : q.pod = owner => Refused(q)
    <3>1. (\A q \in queries : q.pod = owner => Refused(q))'
      BY <1>2, <1>6, <1>7, <2>3, <2>5
    <3>2. ASSUME NEW q \in queries, Won(q) \/ Asks(q), NEW o \in queries', o = Older(q)
          PROVE  vacant' <= MaxVacancy /\ Taken'
      <4>1. /\ o.pod = q.pod /\ o.kind = q.kind /\ o.status = q.status /\ o.age = q.age + 1
            /\ q.age \in 0..Latency /\ q.age # Latency
        BY <1>6, <3>2
      <4>2. CASE Won(q)
        <5>1. vacant' <= MaxVacancy /\ Won(o)'
          BY <1>2, <1>8, <2>2, <4>1, <4>2, LeaderAssumption DEF Won, LapsedBy, MaxVacancy
        <5> QED
          BY <5>1 DEF Taken
      <4>3. CASE Asks(q)
        <5>1. vacant' <= MaxVacancy /\ Asks(o)'
          BY <1>2, <1>8, <2>2, <4>1, <4>3, LeaderAssumption DEF Asks, LapsedBy, MaxVacancy
        <5> QED
          BY <5>1 DEF Taken
      <4> QED
        BY <3>2, <4>2, <4>3
    <3>3. ASSUME NEW p \in Pod, WillAsk(p) PROVE vacant' <= MaxVacancy /\ WillAsk(p)'
      <4>1. /\ owner = p /\ p \in Up /\ vacant <= LapsedBy + Latency + timer[p]
            /\ leaseAge <= timer[p] + Latency
        BY <3>3 DEF WillAsk
      <4>2. timer'[p] = timer[p] + 1 /\ timer[p] \in Nat /\ timer[p] < PollEvery
        BY <1>12, <4>1
      <4>3. /\ vacant' <= MaxVacancy /\ vacant' <= LapsedBy + Latency + timer'[p]
            /\ leaseAge' <= timer'[p] + Latency
        BY <1>8, <2>2, <4>1, <4>2, LeaderAssumption DEF LapsedBy, MaxVacancy
      <4> QED
        BY <1>2, <4>1, <4>3 DEF WillAsk, LapsedBy
    <3>4. vacant' <= MaxVacancy /\ Taken'
      <4>1. CASE \E p \in Pod : WillAsk(p)
        BY <3>3, <4>1 DEF Taken
      <4>2. CASE \E q \in queries : Won(q) \/ Asks(q)
        BY <1>7, <3>2, <4>2
      <4> QED
        BY <2>5, <4>1, <4>2 DEF Taken
    <3> QED
      BY <1>9, <3>1, <3>4 DEF VInv, Vacancy, MaxVacancy
  <2> QED
    BY <1>15, <2>1, <2>4, <2>5 DEF Vacancy
<1> QED
  BY <1>8, <1>10, <1>11, <1>14, <1>15, LeaderAssumption

LEMMA NextVInv == VInv /\ [Next]_vars => VInv'
<1> SUFFICES ASSUME VInv, [Next]_vars PROVE VInv'
  OBVIOUS
<1>1. IInv /\ IInv' /\ Typed /\ queries \subseteq Query
  BY NextIInv, Types DEF VInv, IInv, Typed
<1>2. ASSUME NEW p \in Pod, Start(p) \/ Poll(p) \/ Beat(p) \/ Drained(p) \/ Exit(p) PROVE VInv'
  BY <1>1, <1>2, StartVInv, PollVInv, BeatVInv, DrainedVInv, ExitVInv
<1>3. ASSUME NEW p \in Pod, Stop(p) \/ Crash(p) PROVE VInv'
  BY <1>1, <1>3, FaultsVInv
<1>4. ASSUME NEW q \in queries, Throw(q) PROVE VInv'
  BY <1>1, <1>4, FaultsVInv
<1>5. ASSUME NEW q \in queries, Upsert(q) \/ Delete(q) \/ Win(q) \/ Lose(q) \/ Rejected(q) PROVE VInv'
  BY <1>1, <1>5, UpsertVInv, DeleteVInv, WinVInv, LoseVInv, RejectedVInv
<1>6. ASSUME NEW q \in queries, Renewed(q) PROVE VInv'
  <2>1. Up' = Up
    BY <1>6 DEF Renewed, Up
  <2> QED
    BY <1>1, <1>6, <2>1, AnsweredVInv DEF Renewed, Answered, work
<1>7. ASSUME NEW q \in queries, Dropped(q) PROVE VInv'
  BY <1>1, <1>7, DroppedVInv
<1>8. ASSUME NEW q \in queries, Deleted(q) PROVE VInv'
  <2>1. /\ q.kind = "release" /\ queries' = queries \ {q} /\ q.pod \in Pod
        /\ \/ phase[q.pod] = "stopping" /\ phase' = [phase EXCEPT ![q.pod] = "stopped"]
           \/ phase' = phase
        /\ UNCHANGED <<row, leading, timer, vacant>>
    BY <1>1, <1>8 DEF Deleted, Released, Answered, Query, work
  <2>2. Up' = Up
    BY <1>1, <2>1 DEF Up, Typed
  <2> QED
    BY <1>1, <2>1, <2>2, AnsweredVInv DEF Typed
<1>9. CASE Tick
  BY <1>1, <1>9, TickVInv
<1>10. ASSUME NEW p \in Pod, Sweep(p) \/ Swept(p, "active") \/ Swept(p, "displaced") PROVE VInv'
  BY <1>1, <1>10, SweepsVInv DEF Sweep, Swept
<1>11. CASE UNCHANGED vars
  BY <1>1, <1>11, SweepsVInv DEF vars, work
<1> QED
  BY <1>2, <1>3, <1>4, <1>5, <1>6, <1>7, <1>8, <1>9, <1>10, <1>11, Zenon DEF Next

\* runWithLeadership: a standby takes over within a lease, a poll and three
\* queries of the last fault or shutdown, as long as a pod is up.
THEOREM StandbyTakesOver == Spec => []TakeoverInTime
<1>1. Init => VInv
  BY InitVInv
<1>2. VInv /\ [Next]_vars => VInv'
  BY NextVInv
<1>3. VInv => TakeoverInTime
  <2> SUFFICES ASSUME VInv PROVE vacant <= MaxVacancy
    BY DEF TakeoverInTime
  <2>1. vacant \in Nat
    BY Types, LeaderAssumption DEF VInv, IInv, Typed, MaxVacancy
  <2> QED
    BY <2>1, LeaderAssumption DEF VInv, Vacancy, MaxVacancy
<1> QED
  BY <1>1, <1>2, <1>3, PTL DEF Spec
=============================================================================

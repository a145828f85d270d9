---------------------- MODULE ConcurrencyCounterProofs ----------------------
(***************************************************************************)
(* Claims serialise and the counter stays within the number of             *)
(* deployments, for any launches, closers, faults and any cap.             *)
(*                                                                         *)
(* The argument: a launch that is about to commit holds the row's lock     *)
(* (LockHeld), everything that writes a committed counter waits for that   *)
(* lock, and a row that is not committed counts nothing (NothingCounted);  *)
(* so what the launch read is still the counter (ReadIsCurrent).           *)
(***************************************************************************)
EXTENDS ConcurrencyCounter, FiniteSetTheorems, TLAPS

\* The part of the types that the argument needs.
Numbers ==
  /\ row \in {"none", "inserting", "present"}
  /\ counter \in Nat
  /\ pc \in [Deployment -> {"idle", "missing", "locked", "fallback", "recounted",
                            "counting", "launching", "over"}]
  /\ seen \in [Deployment -> Nat]
  /\ counted \subseteq Nat

LockHeld == \A d \in Deployment : pc[d] = "locked" => lock = d /\ row # "none"
NothingCounted == row # "present" => counter = 0
ReadIsCurrent == \A d \in Deployment : pc[d] = "locked" => seen[d] = counter

IInv == Numbers /\ LockHeld /\ NothingCounted /\ ReadIsCurrent

\* A count of deployments is a number.
LEMMA OccupiedIsNumber == Occupied \in Nat
<1>1. {d \in Deployment : status[d] = "active"} \subseteq Deployment
  OBVIOUS
<1>2. IsFiniteSet({d \in Deployment : status[d] = "active"})
  BY <1>1, FS_Subset, ConcurrencyAssumption
<1> QED
  BY <1>2, FS_CardinalityType DEF Occupied

\* No row, no count, no launch.
LEMMA InitIInv == Init => IInv
BY DEF Init, IInv, Numbers, LockHeld, NothingCounted, ReadIsCurrent

\* A step that leaves the row, the counter, the lock and what was read alone,
\* and brings no launch to its commit, preserves the invariant.
LEMMA QuietStep ==
  ASSUME IInv, UNCHANGED <<row, counter, lock, seen>>, Numbers',
         \A d \in Deployment : pc'[d] = "locked" => pc[d] = "locked"
  PROVE  IInv'
BY DEF IInv, LockHeld, NothingCounted, ReadIsCurrent

\* Nobody is about to commit while the lock is free.
LEMMA FreeLock ==
  ASSUME LockHeld, lock = NoOne
  PROVE  \A d \in Deployment : pc[d] # "locked"
BY ConcurrencyAssumption DEF LockHeld

\* Every step of a launch, of a closer and of the reconciler preserves the
\* invariant.
LEMMA NextIInv == IInv /\ [Next]_vars => IInv'
<1> SUFFICES ASSUME IInv, [Next]_vars PROVE IInv'
  OBVIOUS
<1> USE DEF IInv
<1>1. ASSUME NEW d \in Deployment, Read(d) PROVE IInv'
  <2>1. CASE row = "present"
    <3>1. \A e \in Deployment : pc[e] # "locked"
      BY <1>1, <2>1, FreeLock DEF Read
    <3>2. /\ UNCHANGED <<row, counter, counted>> /\ lock' = d
          /\ seen' = [seen EXCEPT ![d] = counter]
          /\ pc' = [pc EXCEPT ![d] = "locked"]
      BY <1>1, <2>1 DEF Read
    <3>3. Numbers'
      BY <3>2 DEF Numbers
    <3>4. LockHeld' /\ ReadIsCurrent' /\ NothingCounted'
      BY <3>1, <3>2, <2>1 DEF Numbers, LockHeld, ReadIsCurrent, NothingCounted
    <3> QED
      BY <3>3, <3>4
  <2>2. CASE row # "present"
    <3>1. UNCHANGED <<row, counter, lock, seen, counted>> /\ pc' = [pc EXCEPT ![d] = "missing"]
      BY <1>1, <2>2 DEF Read
    <3> QED
      BY <3>1, QuietStep DEF Numbers
  <2> QED
    BY <2>1, <2>2
<1>2. ASSUME NEW d \in Deployment, Insert(d) PROVE IInv'
  <2>1. CASE row = "none" /\ row' = "inserting"
    <3>1. /\ UNCHANGED <<counter, counted>> /\ lock' = d
          /\ seen' = [seen EXCEPT ![d] = 0]
          /\ pc' = [pc EXCEPT ![d] = "locked"]
      BY <1>2, <2>1 DEF Insert
    <3>2. \A e \in Deployment : pc[e] # "locked"
      BY <2>1 DEF LockHeld
    <3> QED
      BY <3>1, <3>2, <2>1 DEF Numbers, LockHeld, NothingCounted, ReadIsCurrent
  <2>2. CASE row = "present"
    <3>1. UNCHANGED <<row, counter, lock, seen, counted>> /\ pc' = [pc EXCEPT ![d] = "fallback"]
      BY <1>2, <2>2 DEF Insert
    <3> QED
      BY <3>1, QuietStep DEF Numbers
  <2> QED
    BY <1>2, <2>1, <2>2 DEF Insert
<1>3. ASSUME NEW d \in Deployment, Claim(d) \/ Abort(d) PROVE IInv'
  <2>1. /\ pc[d] = "locked" /\ lock = d /\ seen[d] = counter
        /\ lock' = NoOne /\ counted' = counted
        /\ seen' = [seen EXCEPT ![d] = 0]
    BY <1>3 DEF Claim, Abort, LockHeld, ReadIsCurrent
  <2>2. \A e \in Deployment : e # d => pc[e] # "locked"
    BY <2>1 DEF LockHeld
  <2>3. \E to \in {"over", "launching", "fallback"} : pc' = [pc EXCEPT ![d] = to]
    BY <1>3 DEF Claim, Abort
  <2>4. \A e \in Deployment : pc'[e] # "locked"
    BY <2>2, <2>3 DEF Numbers
  <2>5. CASE row' = "present" /\ counter' = counter + 1
    <3>1. Numbers'
      BY <2>1, <2>3, <2>5 DEF Numbers
    <3> QED
      BY <3>1, <2>4, <2>5 DEF LockHeld, NothingCounted, ReadIsCurrent
  <2>6. CASE counter' = counter /\ row' = IF row = "inserting" THEN "none" ELSE row
    <3>1. Numbers'
      BY <2>1, <2>3, <2>6 DEF Numbers
    <3> QED
      BY <3>1, <2>4, <2>6 DEF LockHeld, NothingCounted, ReadIsCurrent
  <2> QED
    BY <1>3, <2>1, <2>5, <2>6 DEF Claim, Abort
<1>4. ASSUME NEW d \in Deployment, Recount(d) \/ RecomputeFails(d) PROVE IInv'
  <2>1. /\ pc[d] # "locked" /\ UNCHANGED <<row, counter, lock, counted>>
        /\ \E n \in Nat : seen' = [seen EXCEPT ![d] = n]
        /\ \E to \in {"recounted", "counting"} : pc' = [pc EXCEPT ![d] = to]
    BY <1>4, OccupiedIsNumber DEF Recount, RecomputeFails, table
  <2>2. Numbers'
    BY <2>1 DEF Numbers
  <2>3. \A e \in Deployment : pc'[e] = "locked" => pc[e] = "locked" /\ seen'[e] = seen[e]
    BY <2>1 DEF Numbers
  <2> QED
    BY <2>1, <2>2, <2>3 DEF LockHeld, NothingCounted, ReadIsCurrent
<1>5. ASSUME NEW d \in Deployment, Recompute(d) PROVE IInv'
  <2>1. \A e \in Deployment : pc[e] # "locked"
    BY <1>5, FreeLock DEF Recompute
  <2>2. /\ row' = "present" /\ counter' = seen[d] /\ UNCHANGED <<lock, counted>>
        /\ seen' = [seen EXCEPT ![d] = 0]
        /\ pc' = [pc EXCEPT ![d] = "counting"]
    BY <1>5 DEF Recompute
  <2>3. Numbers' /\ \A e \in Deployment : pc'[e] # "locked"
    BY <2>1, <2>2 DEF Numbers
  <2> QED
    BY <2>2, <2>3 DEF LockHeld, NothingCounted, ReadIsCurrent
<1>6. ASSUME NEW d \in Deployment, RawCount(d) \/ Launch(d) \/ LaunchFails(d) PROVE IInv'
  <2>1. /\ UNCHANGED <<row, counter, lock, seen, counted>>
        /\ \E to \in {"over", "launching"} : pc' = [pc EXCEPT ![d] = to]
    BY <1>6 DEF RawCount, Launch, LaunchFails, table
  <2> QED
    BY <2>1, QuietStep DEF Numbers
<1>7. ASSUME NEW d \in Deployment, Fail(d) PROVE IInv'
  <2>1. /\ UNCHANGED <<row, counter, lock, seen, counted>>
        /\ \/ pc' = pc
           \/ \E e \in Deployment : pc' = [pc EXCEPT ![e] = "launching"]
    BY <1>7 DEF Fail, table
  <2> QED
    BY <2>1, QuietStep DEF Numbers
<1>8. ASSUME NEW c \in Closer, Mark(c) \/ MarkFails(c) \/ ReleaseLost(c) PROVE IInv'
  <2>1. UNCHANGED <<row, counter, lock, seen, pc, counted>>
    BY <1>8 DEF Mark, MarkFails, ReleaseLost, table, launches
  <2> QED
    BY <2>1, QuietStep DEF Numbers
<1>9. ASSUME NEW c \in Closer, Release(c) PROVE IInv'
  <2>1. UNCHANGED <<row, lock, seen, pc, counted>>
    BY <1>9 DEF Release, launches
  <2>2. CASE row = "present" /\ counter > 0
    <3>1. (\A e \in Deployment : pc[e] # "locked") /\ counter' = counter - 1
      BY <1>9, <2>2, FreeLock DEF Release
    <3> QED
      BY <2>1, <2>2, <3>1 DEF Numbers, LockHeld, NothingCounted, ReadIsCurrent
  <2>3. CASE ~(row = "present" /\ counter > 0)
    <3>1. counter' = counter
      BY <1>9, <2>3 DEF Release
    <3> QED
      BY <2>1, <3>1, QuietStep DEF Numbers
  <2> QED
    BY <2>2, <2>3
<1>10. ASSUME NEW c \in Closer, NEW d \in Deployment,
              OpenClose(c, d) \/ OpenSuspend(c, d) \/ GuardedEnd(c, d)
       PROVE  IInv'
  <2>1. UNCHANGED <<row, counter, lock, seen, pc, counted>>
    BY <1>10 DEF OpenClose, OpenSuspend, GuardedEnd, table, launches
  <2> QED
    BY <2>1, QuietStep DEF Numbers
<1>11. ASSUME NEW c \in Closer, NEW d \in Deployment, Resume(c, d) PROVE IInv'
  <2>1. /\ UNCHANGED <<row, counter, lock, seen, counted>>
        /\ \E e \in Deployment : pc' = [pc EXCEPT ![e] = "over"]
    BY <1>11 DEF Resume, table
  <2> QED
    BY <2>1, QuietStep DEF Numbers
<1>12. CASE Count
  <2>1. UNCHANGED <<row, counter, lock, seen, pc>> /\ counted' = {Occupied}
    BY <1>12 DEF Count, table, launches
  <2> QED
    BY <2>1, OccupiedIsNumber, QuietStep DEF Numbers
<1>13. CASE Overwrite
  <2>1. \A e \in Deployment : pc[e] # "locked"
    BY <1>13, FreeLock DEF Overwrite
  <2>2. /\ UNCHANGED <<lock, seen, pc>> /\ row' = "present" /\ counted' = {}
        /\ counter' \in Nat
    BY <1>13 DEF Overwrite, launches, Numbers
  <2> QED
    BY <2>1, <2>2 DEF Numbers, LockHeld, NothingCounted, ReadIsCurrent
<1>14. CASE UNCHANGED vars
  BY <1>14, QuietStep DEF vars, table, launches, Numbers
<1> QED
  BY <1>1, <1>2, <1>3, <1>4, <1>5, <1>6, <1>7, <1>8, <1>9, <1>10, <1>11, <1>12, <1>13, <1>14
     DEF Next, LaunchStep, CloserStep

\* A launch holds the lock from its read to its commit, nothing is counted
\* before the row is there, and what the launch read is the counter still.
THEOREM Invariant == Spec => []IInv
BY InitIInv, NextIInv, PTL DEF Spec

\* A step in which a launch commits is its Claim.
LEMMA OnlyClaimCommits ==
  ASSUME IInv, Next, NEW d \in Deployment, pc[d] = "locked", pc'[d] = "launching"
  PROVE  Claim(d)
<1> USE DEF IInv, Numbers
<1>1. ASSUME NEW e \in Deployment, Read(e) \/ LaunchStep(e) \/ Fail(e) PROVE Claim(d)
  <2>1. CASE Claim(e)
    BY <2>1 DEF Claim
  <2>2. CASE Read(e)
    BY <2>2 DEF Read
  <2>3. CASE Insert(e) \/ Abort(e) \/ Recount(e) \/ Recompute(e) \/ RecomputeFails(e)
    BY <2>3 DEF Insert, Abort, Recount, Recompute, RecomputeFails
  <2>4. CASE RawCount(e) \/ Launch(e) \/ LaunchFails(e)
    BY <2>4 DEF RawCount, Launch, LaunchFails
  <2>5. CASE Fail(e)
    BY <2>5 DEF Fail
  <2> QED
    BY <1>1, <2>1, <2>2, <2>3, <2>4, <2>5 DEF LaunchStep
<1>2. ASSUME NEW c \in Closer, CloserStep(c) PROVE Claim(d)
  BY <1>2 DEF CloserStep, Mark, MarkFails, Release, ReleaseLost, launches
<1>3. ASSUME NEW c \in Closer, NEW e \in Deployment,
             OpenClose(c, e) \/ OpenSuspend(c, e) \/ GuardedEnd(c, e) \/ Resume(c, e)
      PROVE  Claim(d)
  BY <1>3 DEF OpenClose, OpenSuspend, GuardedEnd, Resume, launches
<1>4. CASE Count \/ Overwrite
  BY <1>4 DEF Count, Overwrite, launches
<1> QED
  BY <1>1, <1>2, <1>3, <1>4 DEF Next

\* Concurrent claimants serialise (assertAndIncrementOrgConcurrency): a claim
\* adds one slot to the counter as it stands at the commit, within the cap.
THEOREM Serialized == Spec => ClaimsSerialize
<1>1. IInv /\ [Next]_vars =>
        [\A d \in Deployment :
           pc[d] = "locked" /\ pc'[d] = "launching" =>
             counter' = counter + 1 /\ counter' <= Cap]_vars
  <2> SUFFICES ASSUME IInv, Next, NEW d \in Deployment,
                      pc[d] = "locked", pc'[d] = "launching"
               PROVE  counter' = counter + 1 /\ counter' <= Cap
    OBVIOUS
  <2>1. Claim(d)
    BY OnlyClaimCommits
  <2>2. seen[d] = counter /\ counter \in Nat
    BY DEF IInv, ReadIsCurrent, Numbers
  <2>3. seen[d] + 1 <= Cap /\ counter' = seen[d] + 1
    BY <2>1, <2>2, ConcurrencyAssumption DEF Claim, IInv, Numbers
  <2> QED
    BY <2>2, <2>3
<1> QED
  BY <1>1, Invariant, PTL DEF Spec, ClaimsSerialize

-----------------------------------------------------------------------------
(* Types, and the bound on the counter: it never passes the number of launches
   that got a slot or a deployment, because such a launch never starts again. *)

Statements ==
  /\ lock \in Deployment \union {NoOne}
  /\ status \in [Deployment -> Status]
  /\ job \in [Closer -> {"idle", "closing", "suspending", "replacing",
                         "releasing", "released", "done"}]
  /\ target \in [Closer -> Deployment \union {NoOne}]
  /\ counted = {} \/ \E n \in Nat : counted = {n}
  /\ faults \in 0..MaxFaults

Beyond == {d \in Deployment : pc[d] \in {"launching", "over"}}
Slots  == Cardinality(Beyond)

\* A deployment that was created, and one that a closer works on, is beyond.
Placed  == \A d \in Deployment : status[d] # "none" => pc[d] = "over"
Targets == \A c \in Closer : job[c] # "idle" => target[c] \in Deployment /\ pc[target[c]] = "over"

Bounded ==
  /\ counter <= Slots
  /\ \A d \in Deployment : seen[d] <= Slots
  /\ \A n \in counted : n <= Slots

TInv == Statements /\ Placed /\ Targets /\ Bounded

LEMMA SlotsAreNumbers ==
  /\ Slots \in Nat /\ Cardinality(Deployment) \in Nat
  /\ Slots <= Cardinality(Deployment)
<1>1. Beyond \in SUBSET Deployment
  BY DEF Beyond
<1>2. IsFiniteSet(Beyond) /\ Cardinality(Beyond) <= Cardinality(Deployment)
  BY <1>1, FS_Subset, ConcurrencyAssumption
<1> QED
  BY <1>2, FS_CardinalityType, ConcurrencyAssumption DEF Slots

LEMMA SlotsAreNumbersNext == Slots' \in Nat
<1>1. Beyond' \in SUBSET Deployment
  BY DEF Beyond
<1>2. IsFiniteSet(Beyond')
  BY <1>1, FS_Subset, ConcurrencyAssumption
<1> QED
  BY <1>2, FS_CardinalityType DEF Slots

LEMMA SlotsGrow == ASSUME Beyond \subseteq Beyond' PROVE Slots <= Slots'
<1>1. Beyond' \in SUBSET Deployment
  BY DEF Beyond
<1>2. IsFiniteSet(Beyond')
  BY <1>1, FS_Subset, ConcurrencyAssumption
<1> QED
  BY <1>2, FS_Subset DEF Slots

LEMMA OccupiedIsBeyond == ASSUME Placed PROVE Occupied \in Nat /\ Occupied <= Slots
<1>1. {d \in Deployment : status[d] = "active"} \in SUBSET Beyond
  BY DEF Placed, Beyond
<1>2. Beyond \in SUBSET Deployment
  BY DEF Beyond
<1>3. IsFiniteSet(Beyond)
  BY <1>2, FS_Subset, ConcurrencyAssumption
<1>4. Cardinality({d \in Deployment : status[d] = "active"}) <= Cardinality(Beyond)
  BY <1>1, <1>3, FS_Subset
<1> QED
  BY <1>4, OccupiedIsNumber DEF Occupied, Slots

\* What is written was counted before, and whoever is beyond stays there.
LEMMA StaysBounded ==
  ASSUME IInv, Bounded, Beyond \subseteq Beyond', counter' \in Nat,
         counter' <= counter \/ counter' <= Slots',
         \A d \in Deployment : seen'[d] \in Nat /\ (seen'[d] <= seen[d] \/ seen'[d] <= Slots),
         \A n \in counted' : n \in Nat /\ (n \in counted \/ n <= Slots)
  PROVE  Bounded'
<1>1. Slots \in Nat /\ Slots' \in Nat /\ Slots <= Slots'
  BY SlotsAreNumbers, SlotsAreNumbersNext, SlotsGrow
<1>2. counter \in Nat /\ seen \in [Deployment -> Nat]
  BY DEF IInv, Numbers
<1>3. counter' <= Slots'
  BY <1>1, <1>2 DEF Bounded
<1>4. ASSUME NEW d \in Deployment PROVE seen'[d] <= Slots'
  BY <1>1, <1>2 DEF Bounded
<1>5. ASSUME NEW n \in counted' PROVE n <= Slots'
  BY <1>1 DEF Bounded
<1> QED
  BY <1>3, <1>4, <1>5 DEF Bounded

\* A launch goes on: it leaves "over" for nothing, and "launching" for "over".
LEMMA LaunchGoesOn ==
  ASSUME IInv, Placed, Targets, NEW d \in Deployment, NEW to,
         pc' = [pc EXCEPT ![d] = to],
         pc[d] # "over", pc[d] = "launching" => to = "over"
  PROVE  /\ Beyond \subseteq Beyond'
         /\ UNCHANGED status => Placed'
         /\ UNCHANGED jobs => Targets'
BY DEF IInv, Numbers, Beyond, Placed, Targets, jobs

LEMMA InitTInv == Init => TInv
<1> SUFFICES ASSUME Init PROVE TInv
  OBVIOUS
<1>1. Statements /\ Placed /\ Targets
  BY ConcurrencyAssumption DEF Init, Statements, Placed, Targets, Status
<1>2. Bounded
  BY SlotsAreNumbers DEF Init, Bounded
<1> QED
  BY <1>1, <1>2 DEF TInv

LEMMA LaunchTInv ==
  ASSUME IInv, IInv', TInv, NEW d \in Deployment, Read(d) \/ LaunchStep(d)
  PROVE  TInv'
<1>1. Statements'
  <2>1. /\ UNCHANGED <<jobs, counted>>
        /\ faults' = faults \/ (faults < MaxFaults /\ faults' = faults + 1)
        /\ lock' \in {lock, d, NoOne}
        /\ status' = status \/ status' = [status EXCEPT ![d] = "active"]
    BY DEF Read, LaunchStep, Insert, Claim, Abort, Recount, Recompute, RecomputeFails, RawCount,
           Launch, LaunchFails, table
  <2>2. faults' \in 0..MaxFaults
    BY <2>1, ConcurrencyAssumption DEF TInv, Statements
  <2>3. status' \in [Deployment -> Status]
    BY <2>1 DEF TInv, Statements, Status
  <2> QED
    BY <2>1, <2>2, <2>3 DEF TInv, Statements, jobs
<1>2. PICK to \in {"missing", "locked", "fallback", "recounted", "counting", "launching", "over"} :
        /\ pc' = [pc EXCEPT ![d] = to] /\ pc[d] # "over"
        /\ pc[d] = "launching" => to = "over"
  BY DEF Read, LaunchStep, Insert, Claim, Abort, Recount, Recompute, RecomputeFails, RawCount,
         Launch, LaunchFails
<1>3. Beyond \subseteq Beyond' /\ UNCHANGED jobs /\ counted' = counted
  BY <1>2, LaunchGoesOn DEF TInv, Read, LaunchStep, Insert, Claim, Abort, Recount, Recompute,
                            RecomputeFails, RawCount, Launch, LaunchFails
<1>4. Targets'
  BY <1>2, <1>3, LaunchGoesOn DEF TInv
<1>5. Placed'
  <2>1. CASE Launch(d)
    <3>1. status' = [status EXCEPT ![d] = "active"] /\ pc' = [pc EXCEPT ![d] = "over"]
      BY <2>1 DEF Launch
    <3> QED
      BY <3>1 DEF TInv, Statements, Placed, IInv, Numbers
  <2>2. CASE ~Launch(d)
    <3>1. UNCHANGED status
      BY <2>2 DEF Read, LaunchStep, Insert, Claim, Abort, Recount, Recompute, RecomputeFails,
                  RawCount, LaunchFails
    <3> QED
      BY <1>2, <3>1, LaunchGoesOn DEF TInv
  <2> QED
    BY <2>1, <2>2
<1>6. Bounded'
  <2>1. counter' \in Nat /\ (counter' <= counter \/ counter' <= Slots')
    <3>1. CASE Claim(d)
      <4>1. CASE counter' = counter
        BY <4>1 DEF IInv, Numbers
      <4>2. CASE counter' # counter
        <5>1. /\ pc[d] = "locked" /\ pc' = [pc EXCEPT ![d] = "launching"]
              /\ counter' = seen[d] + 1 /\ seen[d] = counter
          BY <3>1, <4>2 DEF Claim, IInv, ReadIsCurrent
        <5>2. Beyond' = Beyond \union {d} /\ d \notin Beyond
          BY <5>1 DEF Beyond, IInv, Numbers
        <5>3. IsFiniteSet(Beyond)
          BY FS_Subset, ConcurrencyAssumption DEF Beyond
        <5>4. Slots' = Slots + 1
          BY <5>2, <5>3, FS_AddElement DEF Slots
        <5> QED
          BY <5>1, <5>4, SlotsAreNumbers DEF TInv, Bounded, IInv, Numbers
      <4> QED
        BY <4>1, <4>2
    <3>2. CASE Recompute(d)
      <4>1. counter' = seen[d]
        BY <3>2 DEF Recompute
      <4>2. seen[d] \in Nat /\ seen[d] <= Slots
        BY DEF IInv, Numbers, TInv, Bounded
      <4>3. Slots <= Slots' /\ Slots \in Nat /\ Slots' \in Nat
        BY <1>3, SlotsGrow, SlotsAreNumbers, SlotsAreNumbersNext
      <4> QED
        BY <4>1, <4>2, <4>3
    <3>3. CASE ~Claim(d) /\ ~Recompute(d)
      <4>1. counter' = counter
        BY <3>3 DEF Read, LaunchStep, Insert, Abort, Recount, RecomputeFails, RawCount, Launch,
                    LaunchFails, table
      <4> QED
        BY <4>1 DEF IInv, Numbers
    <3> QED
      BY <3>1, <3>2, <3>3
  <2>2. \A e \in Deployment : seen'[e] \in Nat /\ (seen'[e] <= seen[e] \/ seen'[e] <= Slots)
    <3>1. \/ seen' = seen
          \/ \E n \in {0, counter, Occupied} : seen' = [seen EXCEPT ![d] = n]
      BY DEF Read, LaunchStep, Insert, Claim, Abort, Recount, Recompute, RecomputeFails, RawCount,
             Launch, LaunchFails
    <3>2. \A n \in {0, counter, Occupied} : n \in Nat /\ n <= Slots
      BY OccupiedIsBeyond, SlotsAreNumbers DEF TInv, Bounded, IInv, Numbers
    <3> QED
      BY <3>1, <3>2 DEF IInv, Numbers
  <2>3. \A n \in counted' : n \in Nat /\ (n \in counted \/ n <= Slots)
    BY <1>3 DEF IInv, Numbers
  <2> QED
    BY <1>3, <2>1, <2>2, <2>3, StaysBounded DEF TInv
<1> QED
  BY <1>1, <1>4, <1>5, <1>6 DEF TInv

LEMMA FailTInv == ASSUME IInv, IInv', TInv, NEW d \in Deployment, Fail(d) PROVE TInv'
<1>1. /\ UNCHANGED <<table, seen, jobs, counted, faults>>
      /\ status[d] = "active" /\ status' = [status EXCEPT ![d] = "failed"]
      /\ \/ UNCHANGED pc
         \/ \E e \in Deployment : pc[e] = "idle" /\ pc' = [pc EXCEPT ![e] = "launching"]
  BY DEF Fail
<1>2. Beyond \subseteq Beyond'
  BY <1>1 DEF Beyond, IInv, Numbers
<1>3. Statements'
  BY <1>1 DEF TInv, Statements, table, jobs, Status
<1>4. Placed' /\ Targets'
  BY <1>1 DEF TInv, Statements, Placed, Targets, jobs, IInv, Numbers
<1>5. Bounded'
  BY <1>1, <1>2, StaysBounded DEF TInv, table, IInv, Numbers
<1> QED
  BY <1>3, <1>4, <1>5 DEF TInv

LEMMA CloserTInv ==
  ASSUME IInv, IInv', TInv, NEW c \in Closer,
         \/ CloserStep(c)
         \/ \E d \in Deployment : OpenClose(c, d) \/ OpenSuspend(c, d) \/ GuardedEnd(c, d)
  PROVE  TInv'
<1>1. /\ UNCHANGED <<row, lock, pc, seen, counted>>
      /\ faults' = faults \/ (faults < MaxFaults /\ faults' = faults + 1)
      /\ counter' = counter \/ (counter > 0 /\ counter' = counter - 1)
  BY DEF CloserStep, Mark, MarkFails, Release, ReleaseLost, OpenClose, OpenSuspend, GuardedEnd,
         table, launches
<1>2. faults' \in 0..MaxFaults
  BY <1>1, ConcurrencyAssumption DEF TInv, Statements
<1>3. Bounded'
  <2>1. Beyond \subseteq Beyond'
    BY <1>1 DEF Beyond
  <2>2. counter' \in Nat /\ counter' <= counter
    BY <1>1 DEF IInv, Numbers
  <2> QED
    BY <1>1, <2>1, <2>2, StaysBounded DEF TInv, IInv, Numbers
<1>4. CASE CloserStep(c)
  <2>1. /\ job[c] # "idle" /\ target' = target
        /\ \E to \in {"releasing", "released", "done"} : job' = [job EXCEPT ![c] = to]
        /\ \/ status' = status
           \/ \E to \in {"suspended", "closed"} : status' = [status EXCEPT ![target[c]] = to]
    BY <1>4 DEF CloserStep, Mark, MarkFails, Release, ReleaseLost, TInv, Statements
  <2>2. target[c] \in Deployment /\ pc[target[c]] = "over"
    BY <2>1 DEF TInv, Targets
  <2>3. Statements'
    BY <1>1, <1>2, <2>1, <2>2 DEF TInv, Statements, Status
  <2>4. Placed' /\ Targets'
    BY <1>1, <2>1, <2>2 DEF TInv, Statements, Placed, Targets
  <2> QED
    BY <1>3, <2>3, <2>4 DEF TInv
<1>5. ASSUME NEW d \in Deployment, OpenClose(c, d) \/ OpenSuspend(c, d) \/ GuardedEnd(c, d)
      PROVE  TInv'
  <2>1. /\ status[d] # "none" /\ target' = [target EXCEPT ![c] = d]
        /\ \E to \in {"closing", "suspending", "releasing"} : job' = [job EXCEPT ![c] = to]
        /\ \/ status' = status
           \/ \E to \in {"suspended", "closed", "failed"} : status' = [status EXCEPT ![d] = to]
    BY <1>5 DEF OpenClose, OpenSuspend, GuardedEnd, Begin
  <2>2. pc[d] = "over"
    BY <2>1 DEF TInv, Placed
  <2>3. Statements'
    BY <1>1, <1>2, <2>1 DEF TInv, Statements, Status
  <2>4. Placed' /\ Targets'
    BY <1>1, <2>1, <2>2 DEF TInv, Statements, Placed, Targets
  <2> QED
    BY <1>3, <2>3, <2>4 DEF TInv
<1> QED
  BY <1>4, <1>5

LEMMA ResumeTInv ==
  ASSUME IInv, IInv', TInv, NEW c \in Closer, NEW d \in Deployment, Resume(c, d)
  PROVE  TInv'
<1>1. PICK e \in Deployment :
        /\ pc[e] = "idle" /\ pc' = [pc EXCEPT ![e] = "over"]
        /\ status' = [status EXCEPT ![e] = "active"]
  BY DEF Resume
<1>2. /\ UNCHANGED <<row, counter, lock, seen, counted, faults>> /\ status[d] = "suspended"
      /\ job' = [job EXCEPT ![c] = "replacing"] /\ target' = [target EXCEPT ![c] = d]
  BY DEF Resume, Begin, table
<1>3. Beyond \subseteq Beyond' /\ pc[d] = "over"
  BY <1>1, <1>2 DEF Beyond, TInv, Placed, IInv, Numbers
<1>4. Statements'
  BY <1>1, <1>2 DEF TInv, Statements, Status
<1>5. Placed' /\ Targets'
  BY <1>1, <1>2, <1>3 DEF TInv, Statements, Placed, Targets, IInv, Numbers
<1>6. Bounded'
  BY <1>2, <1>3, StaysBounded DEF TInv, IInv, Numbers
<1> QED
  BY <1>4, <1>5, <1>6 DEF TInv

LEMMA NextTInv == IInv /\ IInv' /\ TInv /\ [Next]_vars => TInv'
<1> SUFFICES ASSUME IInv, IInv', TInv, [Next]_vars PROVE TInv'
  OBVIOUS
<1>1. ASSUME NEW d \in Deployment, Read(d) \/ LaunchStep(d) PROVE TInv'
  BY <1>1, LaunchTInv
<1>2. ASSUME NEW d \in Deployment, Fail(d) PROVE TInv'
  BY <1>2, FailTInv
<1>3. ASSUME NEW c \in Closer, CloserStep(c) PROVE TInv'
  BY <1>3, CloserTInv
<1>4. ASSUME NEW c \in Closer, NEW d \in Deployment,
             OpenClose(c, d) \/ OpenSuspend(c, d) \/ GuardedEnd(c, d)
      PROVE  TInv'
  BY <1>4, CloserTInv
<1>5. ASSUME NEW c \in Closer, NEW d \in Deployment, Resume(c, d) PROVE TInv'
  BY <1>5, ResumeTInv
<1>6. CASE Count \/ Overwrite \/ UNCHANGED vars
  <2>1. /\ UNCHANGED <<lock, launches, status, jobs, faults>>
        /\ counter' = counter \/ counter' \in counted
        /\ counted' \in {counted, {}, {Occupied}}
    BY <1>6 DEF Count, Overwrite, vars, table
  <2>2. Beyond' = Beyond
    BY <2>1 DEF Beyond, launches
  <2>3. Occupied \in Nat /\ Occupied <= Slots
    BY OccupiedIsBeyond DEF TInv
  <2>4. Slots' = Slots
    BY <2>2 DEF Slots
  <2>5. counter' \in Nat /\ (counter' <= counter \/ counter' <= Slots')
    BY <2>1, <2>4 DEF IInv, Numbers, TInv, Bounded
  <2>6. \A n \in counted' : n \in Nat /\ (n \in counted \/ n <= Slots)
    BY <2>1, <2>3 DEF IInv, Numbers
  <2>7. Bounded'
    BY <2>1, <2>2, <2>5, <2>6, StaysBounded DEF TInv, IInv, Numbers, launches
  <2>8. Statements' /\ Placed' /\ Targets'
    BY <2>1, <2>3 DEF TInv, Statements, Placed, Targets, launches, jobs
  <2> QED
    BY <2>7, <2>8 DEF TInv
<1> QED
  BY <1>1, <1>2, <1>3, <1>4, <1>5, <1>6 DEF Next

\* Every variable keeps its type; in particular the organisation's counter
\* (assertAndIncrementOrgConcurrency, decrementOrgConcurrency, reconcileAll),
\* the counts on their way to it and what a launch read never go below zero
\* nor past the number of deployments.
THEOREM TypeCorrect == Spec => []TypeOK
<1>1. IInv /\ TInv => TypeOK
  <2> SUFFICES ASSUME IInv, TInv PROVE TypeOK
    OBVIOUS
  <2> DEFINE N == Cardinality(Deployment)
  <2>1. Slots \in Nat /\ N \in Nat /\ Slots <= N
    BY SlotsAreNumbers
  <2> HIDE DEF N
  <2>2. counter \in 0..N /\ seen \in [Deployment -> 0..N]
    BY <2>1 DEF IInv, Numbers, TInv, Bounded
  <2>3. counted \in {{}} \union {{n} : n \in 0..N}
    BY <2>1 DEF TInv, Statements, Bounded
  <2> QED
    BY <2>2, <2>3 DEF TypeOK, IInv, Numbers, TInv, Statements, N
<1>2. Init => IInv /\ TInv
  BY InitIInv, InitTInv
<1>3. (IInv /\ TInv) /\ [Next]_vars => (IInv /\ TInv)'
  BY NextIInv, NextTInv
<1> QED
  BY <1>1, <1>2, <1>3, PTL DEF Spec
=============================================================================

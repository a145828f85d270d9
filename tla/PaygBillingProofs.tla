-------------------------- MODULE PaygBillingProofs --------------------------
(***************************************************************************)
(* The watermark of a deployment never lies in the future, and as long as  *)
(* nothing is disturbed every tick up to it is billed exactly once, for    *)
(* any settlements, failures and forced cycles and any granularity of time.*)
(*                                                                         *)
(* The first argument (IInv): whatever moves the watermark carries a       *)
(* moment that it read from the clock (BillIsPast, StopIsPast), the clock  *)
(* only advances, and a bill rounded up to whole hours is cut at the       *)
(* moment of the bill.  The second (Calm): the bills lie end to end, and a *)
(* cycle or a settlement, of which one is at work at a time, adds its bill *)
(* where the last one ended.                                               *)
(***************************************************************************)
EXTENDS PaygBilling, FiniteSetTheorems, TLAPS

\* The part of the types that the argument needs.
Moments ==
  /\ now \in Nat
  /\ lastBilled \in Int
  /\ bill \in [from : Int, at : Int, hours : Int, key : {"hourly", "force", "none"} \X Int]
  /\ stoppedAt \in [Settler -> Nat]

BillIsPast == cycle \in {"sent", "debited"} => bill.at <= now
StopIsPast == \A s \in Settler : stoppedAt[s] <= now

IInv == Moments /\ NotBilledAhead /\ BillIsPast /\ StopIsPast

\* At creation nothing is billed, and the watermark is the time of creation.
LEMMA InitIInv == Init => IInv
<1> SUFFICES ASSUME Init PROVE IInv
  OBVIOUS
<1>1. Created \in Nat
  BY BillingAssumption
<1> QED
  BY <1>1 DEF Init, IInv, Moments, NotBilledAhead, BillIsPast, StopIsPast, NoBill

\* Hours are whole numbers of ticks.
LEMMA HoursAreNumbers == \A t \in Int : Hour(t) \in Int
BY BillingAssumption DEF Hour

\* A step of the cycle moves nothing but its bill.
LEMMA BillStep ==
  ASSUME IInv, UNCHANGED <<now, lastBilled, stoppedAt>>, Moments', BillIsPast'
  PROVE  IInv'
BY DEF IInv, NotBilledAhead, StopIsPast

\* A step that only ends a bill, or moves no watermark and stops nothing.
LEMMA QuietStep ==
  ASSUME IInv, UNCHANGED <<now, lastBilled, stoppedAt>>,
         \/ bill' = bill /\ (cycle' = cycle \/ cycle = "sent" \/ cycle' \in {"idle", "read"})
         \/ bill' = NoBill /\ cycle' = "idle"
  PROVE  IInv'
<1>1. Moments'
  BY DEF IInv, Moments, NoBill
<1>2. BillIsPast'
  BY DEF IInv, BillIsPast
<1> QED
  BY <1>1, <1>2, BillStep

\* Every step of the cycle, of a settlement and of the clock preserves the
\* invariant.
LEMMA NextIInv == IInv /\ [Next]_vars => IInv'
<1> SUFFICES ASSUME IInv, [Next]_vars PROVE IInv'
  OBVIOUS
<1>1. CASE Tick
  <2>1. now' = now + 1 /\ UNCHANGED <<lastBilled, bill, cycle, stoppedAt>>
    BY <1>1 DEF Tick, books, settling
  <2>2. Moments'
    BY <2>1 DEF IInv, Moments
  <2>3. NotBilledAhead' /\ BillIsPast' /\ StopIsPast'
    BY <2>1 DEF IInv, Moments, NotBilledAhead, BillIsPast, StopIsPast
  <2> QED
    BY <2>2, <2>3 DEF IInv
<1>2. CASE Snapshot
  <2>1. /\ UNCHANGED <<now, lastBilled, stoppedAt>> /\ cycle' = "read"
        /\ bill' = [NoBill EXCEPT !.from = lastBilled]
    BY <1>2 DEF Snapshot, books, settling
  <2>2. Moments'
    BY <2>1 DEF IInv, Moments, NoBill
  <2>3. BillIsPast'
    BY <2>1 DEF BillIsPast
  <2> QED
    BY <2>1, <2>2, <2>3, BillStep
<1>3. CASE Bill \/ BillForced
  <2>1. /\ UNCHANGED <<now, lastBilled, stoppedAt>>
        /\ bill'.at = now
        /\ \E h \in Int, k \in {"hourly", "force"} :
             bill' = [bill EXCEPT !.at = now, !.hours = h, !.key = <<k, Hour(now)>>]
    <3>1. now \in Int /\ bill.from \in Int /\ now - bill.from \in Int
      BY DEF IInv, Moments
    <3>2. Hour(now - bill.from) \in Int /\ Larger(1, Hour(now - bill.from)) \in Int
      BY <3>1, HoursAreNumbers DEF Larger
    <3>3. CASE Bill
      <4>1. bill' = [bill EXCEPT !.at = now, !.hours = Hour(now - bill.from),
                                 !.key = <<"hourly", Hour(now)>>]
        BY <3>3 DEF Bill
      <4>2. UNCHANGED <<now, lastBilled, stoppedAt>>
        BY <3>3 DEF Bill, books, settling
      <4> QED
        BY <4>1, <4>2, <3>2 DEF IInv, Moments
    <3>4. CASE BillForced
      <4>1. bill' = [bill EXCEPT !.at = now, !.hours = Larger(1, Hour(now - bill.from)),
                                 !.key = <<"force", Hour(now)>>]
        BY <3>4 DEF BillForced
      <4>2. UNCHANGED <<now, lastBilled, stoppedAt>>
        BY <3>4 DEF BillForced, books, settling
      <4> QED
        BY <4>1, <4>2, <3>2 DEF IInv, Moments
    <3> QED
      BY <1>3, <3>3, <3>4
  <2>2. Hour(now) \in Int
    BY HoursAreNumbers DEF IInv, Moments
  <2>3. Moments'
    <3>1. PICK h \in Int, k \in {"hourly", "force"} :
            bill' = [bill EXCEPT !.at = now, !.hours = h, !.key = <<k, Hour(now)>>]
      BY <2>1
    <3> DEFINE key == <<k, Hour(now)>>
    <3>2. key \in {"hourly", "force", "none"} \X Int
      BY <2>2
    <3>3. bill' = [bill EXCEPT !.at = now, !.hours = h, !.key = key]
      BY <3>1
    <3> HIDE DEF key
    <3>4. bill' \in [from : Int, at : Int, hours : Int,
                     key : {"hourly", "force", "none"} \X Int]
      <4>1. bill \in [from : Int, at : Int, hours : Int,
                      key : {"hourly", "force", "none"} \X Int]
        BY DEF IInv, Moments
      <4>2. now \in Int
        BY DEF IInv, Moments
      <4> DEFINE Keys == {"hourly", "force", "none"} \X Int
      <4>3. key \in Keys /\ bill \in [from : Int, at : Int, hours : Int, key : Keys]
        BY <3>2, <4>1
      <4> HIDE DEF Keys
      <4>4. [bill EXCEPT !.at = now, !.hours = h, !.key = key]
              \in [from : Int, at : Int, hours : Int, key : Keys]
        BY <4>2, <4>3
      <4> QED
        BY <3>3, <4>4 DEF Keys
    <3> QED
      BY <2>1, <3>4 DEF IInv, Moments
  <2>4. BillIsPast'
    BY <2>1 DEF BillIsPast, IInv, Moments
  <2> QED
    BY <2>1, <2>3, <2>4, BillStep
<1>4. CASE TooSoon \/ AuthRefuse \/ CycleBreaks
  BY <1>4, QuietStep DEF TooSoon, AuthRefuse, CycleBreaks, books, settling
<1>5. CASE AuthDebit
  BY <1>5, QuietStep DEF AuthDebit, books, settling
<1>6. CASE Mirror
  <2>1. /\ UNCHANGED <<now, stoppedAt>> /\ cycle' = "idle" /\ bill' = NoBill
        /\ lastBilled' = Smaller(bill.at, BilledTo)
        /\ bill.at <= now
    BY <1>6 DEF Mirror, settling, IInv, BillIsPast
  <2>2. BilledTo \in Int /\ bill.at \in Int /\ now \in Int
    <3>1. bill.from \in Int /\ bill.hours \in Int /\ TicksPerHour \in Int
      BY BillingAssumption DEF IInv, Moments
    <3>2. bill.hours * TicksPerHour \in Int
      BY <3>1
    <3> QED
      BY <3>1, <3>2 DEF BilledTo, IInv, Moments
  <2>3. Smaller(bill.at, BilledTo) \in Int /\ Smaller(bill.at, BilledTo) <= bill.at
    BY <2>2 DEF Smaller
  <2>4. Moments' /\ NotBilledAhead'
    BY <2>1, <2>2, <2>3 DEF IInv, Moments, NotBilledAhead, NoBill
  <2> QED
    BY <2>1, <2>4 DEF IInv, BillIsPast, StopIsPast
<1>7. ASSUME NEW s \in Settler, Stop(s) PROVE IInv'
  <2>1. /\ UNCHANGED <<now, lastBilled, bill, cycle>>
        /\ stoppedAt' = [stoppedAt EXCEPT ![s] = now]
    BY <1>7 DEF Stop, books
  <2>2. Moments'
    BY <2>1 DEF IInv, Moments
  <2>3. StopIsPast'
    BY <2>1 DEF IInv, Moments, StopIsPast
  <2> QED
    BY <2>1, <2>2, <2>3 DEF IInv, NotBilledAhead, BillIsPast
<1>8. ASSUME NEW s \in Settler, Refused(s) \/ SettlerBreaks(s) PROVE IInv'
  <2>1. /\ UNCHANGED <<now, lastBilled, bill, cycle>>
        /\ stoppedAt' = [stoppedAt EXCEPT ![s] = 0]
    BY <1>8 DEF Refused, SettlerBreaks, books
  <2>2. Moments'
    BY <2>1 DEF IInv, Moments
  <2>3. StopIsPast'
    BY <2>1 DEF IInv, Moments, StopIsPast
  <2> QED
    BY <2>1, <2>2, <2>3 DEF IInv, NotBilledAhead, BillIsPast
<1>9. ASSUME NEW s \in Settler, SettleWrite(s) PROVE IInv'
  <2>1. /\ UNCHANGED <<now, bill, cycle, stoppedAt>>
        /\ lastBilled' \in {lastBilled, stoppedAt[s]}
    BY <1>9 DEF SettleWrite
  <2>2. Moments' /\ NotBilledAhead'
    BY <2>1 DEF IInv, Moments, NotBilledAhead, StopIsPast
  <2> QED
    BY <2>1, <2>2 DEF IInv, BillIsPast, StopIsPast
<1>10. ASSUME NEW s \in Settler,
              Mark(s) \/ SettleRead(s) \/ Announce(s) \/ Finish(s)
       PROVE  IInv'
  BY <1>10, QuietStep DEF Mark, SettleRead, Announce, Finish, books, settling
<1>11. CASE LedgerDebit
  BY <1>11, QuietStep DEF LedgerDebit, books, settling
<1>12. CASE UNCHANGED vars
  BY <1>12, QuietStep DEF vars, books, settling
<1> QED
  BY <1>1, <1>2, <1>3, <1>4, <1>5, <1>6, <1>7, <1>8, <1>9, <1>10, <1>11, <1>12
     DEF Next, Cycling, Ending

\* Whatever is forced, fails or overlaps, the watermark (lastBilledAt, moved by
\* processAkashEscrows and settleAkashEscrowToTime) is never ahead of the clock.
THEOREM NeverAhead == Spec => []NotBilledAhead
<1>1. IInv => NotBilledAhead
  BY DEF IInv
<1> QED
  BY <1>1, InitIInv, NextIInv, PTL DEF Spec

-----------------------------------------------------------------------------
(* Types, of which the interesting one is that of a charge: it pays for some
   time, and within bounds.  A bill that was sent pays for an hour at least,
   and a settlement that moved the watermark had something left to charge. *)

Cycles == {"idle", "read", "sent", "debited"}
Stages == {"idle", "closing", "refused", "marked", "read", "advanced", "settled", "done"}
Keys   == {"hourly", "force", "none"} \X Time

ClockTyped   == now \in Created..MaxTime /\ irregular \in 0..MaxIrregular
BooksTyped   == /\ lastBilled \in Time
                /\ escrow \in {"ACTIVE", "PAUSED", "REFUNDED"}
                /\ deployment \in {"ACTIVE", "SUSPENDED", "CLOSED"}
ChargesTyped == charges \subseteq Charged /\ owed \subseteq Charged
CycleTyped   == cycle \in Cycles /\ bill \in [from : Time, at : Time, hours : Time, key : Keys]
JobsTyped    == /\ pc \in [Settler -> Stages]
                /\ stoppedAt \in [Settler -> Time] /\ readAt \in [Settler -> Time]

BillWorth ==
  /\ cycle # "idle" => bill.from <= now
  /\ cycle \in {"sent", "debited"} =>
       /\ bill.key \in {"hourly", "force"} \X Time
       /\ bill.from < BilledTo /\ BilledTo \in Time
StopWorth == \A s \in Settler : pc[s] = "advanced" => ChargeableTo(s) > readAt[s]

CycleInv == CycleTyped /\ BillWorth
JobsInv  == JobsTyped /\ StopWorth
Types    == ClockTyped /\ BooksTyped /\ ChargesTyped /\ CycleInv /\ JobsInv

LEMMA TypesAre == Types /\ disturbed \in BOOLEAN => TypeOK
BY Zenon DEF Types, ClockTyped, BooksTyped, ChargesTyped, CycleInv, CycleTyped, JobsInv, JobsTyped,
             Keys, Cycles, Stages, TypeOK

\* What the moments that occur leave room for.
LEMMA TimeHolds ==
  /\ Time \subseteq Nat
  /\ \A t \in 0..MaxTime : t \in Time /\ t + TicksPerHour \in Time /\ t + Floor \in Time
  /\ \A t \in Nat : t <= MaxTime + TicksPerHour => t \in Time
  /\ \A t \in Nat : t <= MaxTime + Floor => t \in Time
  /\ 0 \in Time /\ 1 \in Time
BY BillingAssumption DEF Time

LEMMA WholeHours ==
  ASSUME NEW t \in Nat
  PROVE  /\ Hour(t) \in Nat /\ Hour(t) <= t /\ Hour(t) * TicksPerHour <= t
         /\ t >= TicksPerHour => Hour(t) * TicksPerHour >= TicksPerHour
BY BillingAssumption DEF Hour

LEMMA InitTypes == Init => Types /\ disturbed \in BOOLEAN
<1> SUFFICES ASSUME Init PROVE Types /\ disturbed \in BOOLEAN
  OBVIOUS
<1>1. ClockTyped /\ BooksTyped /\ ChargesTyped
  BY BillingAssumption DEF Init, ClockTyped, BooksTyped, ChargesTyped, Time
<1>2. CycleInv
  <2>1. 0 \in Time /\ <<"none", 0>> \in Keys
    BY TimeHolds DEF Keys
  <2>2. cycle = "idle" /\ bill = [from |-> 0, at |-> 0, hours |-> 0, key |-> <<"none", 0>>]
    BY DEF Init, NoBill
  <2> HIDE DEF Keys, Time
  <2> QED
    BY <2>1, <2>2 DEF CycleInv, CycleTyped, BillWorth, Cycles
<1>3. JobsInv
  BY TimeHolds DEF Init, JobsInv, JobsTyped, StopWorth, Stages
<1>4. disturbed \in BOOLEAN
  BY Zenon DEF Init
<1> QED
  BY <1>1, <1>2, <1>3, <1>4 DEF Types

\* An idle cycle keeps nothing of its bill.
LEMMA NoBillIsFine == ASSUME cycle' = "idle", bill' = NoBill PROVE CycleInv'
<1>1. 0 \in Time /\ <<"none", 0>> \in Keys
  BY TimeHolds DEF Keys
<1> QED
  BY <1>1 DEF NoBill, CycleInv, CycleTyped, BillWorth, Cycles

LEMMA MomentsAre ==
  ASSUME ClockTyped, CycleTyped
  PROVE  now \in Nat /\ now <= MaxTime /\ bill.from \in Nat
<1>1. Created \in Nat /\ MaxTime \in Nat
  BY BillingAssumption
<1>2. now \in Nat /\ now <= MaxTime
  BY <1>1 DEF ClockTyped
<1>3. bill.from \in Time
  BY DEF CycleTyped
<1> QED
  BY <1>2, <1>3, TimeHolds

\* A step that leaves the cycle alone, or only records that it debited.
LEMMA SameBill ==
  ASSUME CycleInv, ClockTyped, UNCHANGED bill, now' \in {now, now + 1},
         cycle' = cycle \/ (cycle = "sent" /\ cycle' = "debited")
  PROVE  CycleInv'
<1>1. BilledTo' = BilledTo
  BY DEF BilledTo
<1>2. now \in Nat /\ bill.from \in Nat
  BY MomentsAre DEF CycleInv
<1>3. CycleTyped'
  BY DEF CycleInv, CycleTyped, Cycles
<1>4. BillWorth'
  <2>1. bill.from <= now => bill.from <= now'
    BY <1>2
  <2>2. /\ cycle' # "idle" => cycle # "idle"
        /\ cycle' \in {"sent", "debited"} => cycle \in {"sent", "debited"}
    OBVIOUS
  <2> QED
    BY <1>1, <2>1, <2>2 DEF CycleInv, BillWorth
<1> QED
  BY <1>3, <1>4 DEF CycleInv

LEMMA SameJobs == ASSUME JobsInv, UNCHANGED settling PROVE JobsInv'
BY DEF JobsInv, JobsTyped, StopWorth, ChargeableTo, settling

LEMMA SameBooks == ASSUME BooksTyped, UNCHANGED books PROVE BooksTyped'
BY DEF BooksTyped, books

\* A new charge pays for some time.
LEMMA ChargeTyped ==
  ASSUME NEW kind \in {"hourly", "force", "final"}, NEW t \in Time, NEW a \in Time, NEW b \in Time,
         a < b
  PROVE  Charge(<<kind, t>>, a, b) \in Charged
BY DEF Charge, Charged

LEMMA BillTypes ==
  ASSUME IInv, Types, Bill \/ BillForced
  PROVE  CycleInv'
<1>1. /\ cycle = "read" /\ cycle' = "sent" /\ UNCHANGED now
      /\ \E k \in {"hourly", "force"}, h \in {1, Hour(now - bill.from)} :
           /\ bill' = [bill EXCEPT !.at = now, !.hours = h, !.key = <<k, Hour(now)>>]
           /\ h * TicksPerHour >= TicksPerHour
  <2>1. now \in Nat /\ bill.from \in Nat /\ (cycle = "read" => bill.from <= now)
    BY MomentsAre DEF Types, CycleInv, BillWorth
  <2>2. CASE Bill
    <3>1. now - bill.from >= TicksPerHour /\ now - bill.from \in Nat
      BY <2>1, <2>2 DEF Bill
    <3>2. Hour(now - bill.from) * TicksPerHour >= TicksPerHour
      BY <3>1, WholeHours
    <3> QED
      BY <2>2, <3>2 DEF Bill
  <2>3. CASE BillForced
    <3>1. now - bill.from \in Nat
      BY <2>1, <2>3 DEF BillForced
    <3> DEFINE h == Hour(now - bill.from)
    <3>2. h \in Nat
      BY <3>1, WholeHours
    <3> HIDE DEF h
    <3>3. Larger(1, h) \in {1, h} /\ Larger(1, h) \in Nat /\ Larger(1, h) >= 1
      BY <3>2 DEF Larger
    <3>4. Larger(1, h) * TicksPerHour >= TicksPerHour
      BY <3>3, BillingAssumption
    <3> QED
      BY <2>3, <3>3, <3>4 DEF BillForced, h
  <2> QED
    BY <2>2, <2>3
<1>2. PICK k \in {"hourly", "force"}, h \in {1, Hour(now - bill.from)} :
        /\ bill' = [bill EXCEPT !.at = now, !.hours = h, !.key = <<k, Hour(now)>>]
        /\ h * TicksPerHour >= TicksPerHour
  BY <1>1
<1>3. /\ now \in 0..MaxTime /\ bill.from \in Nat /\ bill.from <= now
      /\ bill \in [from : Time, at : Time, hours : Time, key : Keys]
  BY <1>1, MomentsAre, BillingAssumption DEF Types, CycleInv, CycleTyped, BillWorth
<1>4. h \in Time /\ h * TicksPerHour \in Nat
      /\ (h * TicksPerHour = TicksPerHour \/ h * TicksPerHour <= now - bill.from)
  <2>1. CASE h = 1
    BY <2>1, TimeHolds, BillingAssumption
  <2>2. CASE h = Hour(now - bill.from)
    <3>1. now - bill.from \in Nat /\ now - bill.from \in 0..MaxTime
      BY <1>3, BillingAssumption
    <3>2. h \in Nat /\ h <= now - bill.from /\ h * TicksPerHour <= now - bill.from
      BY <2>2, <3>1, WholeHours
    <3>3. h \in 0..MaxTime
      BY <3>1, <3>2, BillingAssumption
    <3>4. h * TicksPerHour \in Nat
      BY <3>2, BillingAssumption
    <3> QED
      BY <3>2, <3>3, <3>4, TimeHolds
  <2> QED
    BY <2>1, <2>2
<1>5. Hour(now) \in Time
  <2>1. Hour(now) \in 0..MaxTime
    BY <1>3, WholeHours, BillingAssumption
  <2> QED
    BY <2>1, TimeHolds
<1> DEFINE key == <<k, Hour(now)>>
<1>6. key \in Keys /\ key \in {"hourly", "force"} \X Time
  BY <1>5 DEF Keys
<1>7. now \in Time
  BY <1>3, TimeHolds
<1>8. bill' = [bill EXCEPT !.at = now, !.hours = h, !.key = key]
  BY <1>2
<1> HIDE DEF key
<1>9. /\ bill' \in [from : Time, at : Time, hours : Time, key : Keys]
      /\ bill'.from = bill.from /\ bill'.hours = h /\ bill'.key = key
  BY <1>3, <1>4, <1>6, <1>7, <1>8
<1>10. BilledTo' = bill.from + h * TicksPerHour
  BY <1>9 DEF BilledTo
<1>11. bill.from < BilledTo' /\ BilledTo' \in Nat /\ BilledTo' <= MaxTime + TicksPerHour
  <2> DEFINE span == h * TicksPerHour
  <2>1. span \in Nat /\ span >= TicksPerHour /\ (span = TicksPerHour \/ span <= now - bill.from)
    BY <1>2, <1>4
  <2>2. BilledTo' = bill.from + span
    BY <1>10
  <2> HIDE DEF span
  <2> QED
    BY <1>3, <2>1, <2>2, BillingAssumption
<1>12. BilledTo' \in Time
  BY <1>11, TimeHolds
<1> QED
  BY <1>1, <1>3, <1>6, <1>9, <1>11, <1>12 DEF CycleInv, CycleTyped, BillWorth, Cycles

LEMMA JobStep ==
  ASSUME JobsInv, NEW s \in Settler, NEW stage \in Stages, NEW stopped \in Time, NEW read \in Time,
         pc' = [pc EXCEPT ![s] = stage],
         stoppedAt' = [stoppedAt EXCEPT ![s] = stopped] , readAt' = [readAt EXCEPT ![s] = read],
         stage = "advanced" => Larger(stopped, Created + Floor) > read
  PROVE  JobsInv'
<1>1. JobsTyped'
  BY DEF JobsInv, JobsTyped
<1>2. StopWorth'
  <2> SUFFICES ASSUME NEW r \in Settler, pc'[r] = "advanced"
               PROVE  Larger(stoppedAt'[r], Created + Floor) > readAt'[r]
    BY DEF StopWorth, ChargeableTo
  <2>1. CASE r = s
    BY <2>1 DEF JobsInv, JobsTyped
  <2>2. CASE r # s
    BY <2>2 DEF JobsInv, JobsTyped, StopWorth, ChargeableTo
  <2> QED
    BY <2>1, <2>2
<1> QED
  BY <1>1, <1>2 DEF JobsInv

\* A settlement that keeps the two moments it holds.
LEMMA JobMoves ==
  ASSUME JobsInv, NEW s \in Settler, NEW stage \in Stages, UNCHANGED <<stoppedAt, readAt>>,
         pc' = [pc EXCEPT ![s] = stage],
         stage = "advanced" => ChargeableTo(s) > readAt[s]
  PROVE  JobsInv'
<1>1. PICK stopped \in Time, read \in Time :
        /\ stopped = stoppedAt[s] /\ read = readAt[s]
        /\ stoppedAt' = [stoppedAt EXCEPT ![s] = stopped] /\ readAt' = [readAt EXCEPT ![s] = read]
  BY DEF JobsInv, JobsTyped
<1>2. stage = "advanced" => Larger(stopped, Created + Floor) > read
  BY <1>1 DEF ChargeableTo
<1> QED
  BY <1>1, <1>2, JobStep

\* A step of the cycle leaves the settlements alone, and the other way around.
LEMMA CyclingTypes ==
  ASSUME IInv, Types, Snapshot \/ Cycling
  PROVE  Types'
<1>1. ClockTyped' /\ JobsInv'
  <2>1. /\ UNCHANGED <<now, settling>>
        /\ irregular' = irregular \/ (irregular < MaxIrregular /\ irregular' = irregular + 1)
    BY DEF Snapshot, Cycling, Bill, BillForced, TooSoon, AuthDebit, AuthRefuse, Mirror, CycleBreaks
  <2>2. irregular' \in 0..MaxIrregular
    BY <2>1, BillingAssumption DEF Types, ClockTyped
  <2> QED
    BY <2>1, <2>2, SameJobs DEF Types, ClockTyped
<1>2. CycleInv'
  <2>1. CASE Snapshot
    <3>1. 0 \in Time /\ <<"none", 0>> \in Keys
      BY TimeHolds DEF Keys
    <3>2. /\ cycle' = "read" /\ UNCHANGED now
          /\ bill' = [from |-> lastBilled, at |-> 0, hours |-> 0, key |-> <<"none", 0>>]
      BY <2>1 DEF Snapshot, NoBill
    <3>3. lastBilled \in Time /\ lastBilled <= now
      BY DEF Types, BooksTyped, IInv, NotBilledAhead
    <3> HIDE DEF Time, Keys
    <3> QED
      BY <3>1, <3>2, <3>3 DEF CycleInv, CycleTyped, BillWorth, Cycles
  <2>2. CASE Bill \/ BillForced
    BY <2>2, BillTypes
  <2>3. CASE AuthDebit
    <3>1. UNCHANGED <<bill, now>> /\ cycle = "sent" /\ cycle' = "debited"
      BY <2>3 DEF AuthDebit
    <3> QED
      BY <3>1, SameBill DEF Types
  <2>4. CASE TooSoon \/ AuthRefuse \/ Mirror \/ CycleBreaks
    BY <2>4, NoBillIsFine DEF TooSoon, AuthRefuse, Mirror, CycleBreaks
  <2> QED
    BY <2>1, <2>2, <2>3, <2>4 DEF Cycling
<1>3. BooksTyped'
  <2>1. CASE Mirror
    <3>1. /\ cycle = "debited" /\ UNCHANGED <<escrow, deployment>>
          /\ lastBilled' = Smaller(bill.at, BilledTo)
      BY <2>1 DEF Mirror
    <3>2. bill.at \in Time /\ BilledTo \in Time
      BY <3>1 DEF Types, CycleInv, CycleTyped, BillWorth
    <3> QED
      BY <3>1, <3>2 DEF Types, BooksTyped, Smaller
  <2>2. CASE ~Mirror
    <3>1. UNCHANGED books
      BY <2>2 DEF Snapshot, Cycling, Bill, BillForced, TooSoon, AuthDebit, AuthRefuse, CycleBreaks
    <3> QED
      BY <3>1, SameBooks DEF Types
  <2> QED
    BY <2>1, <2>2
<1>4. ChargesTyped'
  <2>1. CASE AuthDebit
    <3>1. /\ cycle = "sent" /\ UNCHANGED owed
          /\ charges' = Debited(Charge(bill.key, bill.from, BilledTo))
      BY <2>1 DEF AuthDebit
    <3>2. PICK k \in {"hourly", "force"}, t \in Time : bill.key = <<k, t>>
      BY <3>1 DEF Types, CycleInv, BillWorth
    <3>3. bill.from \in Time /\ BilledTo \in Time /\ bill.from < BilledTo
      BY <3>1 DEF Types, CycleInv, CycleTyped, BillWorth
    <3>4. Charge(bill.key, bill.from, BilledTo) \in Charged
      BY <3>2, <3>3, ChargeTyped
    <3> QED
      BY <3>1, <3>4 DEF Debited, Types, ChargesTyped
  <2>2. CASE ~AuthDebit
    BY <2>2 DEF Snapshot, Cycling, Bill, BillForced, TooSoon, AuthRefuse, Mirror, CycleBreaks,
                Types, ChargesTyped
  <2> QED
    BY <2>1, <2>2
<1> QED
  BY <1>1, <1>2, <1>3, <1>4 DEF Types

LEMMA EndingTypes ==
  ASSUME IInv, Types, NEW s \in Settler, Stop(s) \/ Ending(s)
  PROVE  Types'
<1>0. stoppedAt[s] \in Nat /\ stoppedAt[s] <= now /\ stoppedAt[s] \in Time /\ readAt[s] \in Time
  BY TimeHolds DEF IInv, Moments, StopIsPast, Types, JobsInv, JobsTyped
<1>1. now \in Nat /\ now <= MaxTime /\ now \in Time /\ 0 \in Time
  <2>1. now \in Nat /\ now <= MaxTime
    BY MomentsAre DEF Types, CycleInv
  <2>2. now \in 0..MaxTime
    BY <2>1, BillingAssumption
  <2> QED
    BY <2>1, <2>2, TimeHolds
<1>2. ClockTyped' /\ CycleInv'
  <2>1. /\ UNCHANGED <<now, bill, cycle>>
        /\ irregular' = irregular \/ (irregular < MaxIrregular /\ irregular' = irregular + 1)
    BY DEF Stop, Ending, Refused, Mark, SettleRead, SettleWrite, Announce, Finish, SettlerBreaks
  <2>2. irregular' \in 0..MaxIrregular
    BY <2>1, BillingAssumption DEF Types, ClockTyped
  <2>3. CycleInv'
    BY <2>1, SameBill DEF Types
  <2> QED
    BY <2>1, <2>2, <2>3 DEF Types, ClockTyped
<1>3. BooksTyped'
  <2>1. /\ lastBilled' \in {lastBilled, stoppedAt[s]}
        /\ escrow' \in {escrow, "PAUSED", "REFUNDED"}
        /\ deployment' \in {deployment, "CLOSED", "SUSPENDED"}
    BY DEF Stop, Ending, Refused, Mark, SettleRead, SettleWrite, Announce, Finish,
           SettlerBreaks, books
  <2> QED
    BY <2>1, <1>0 DEF Types, BooksTyped
<1>4. ChargesTyped'
  <2>1. CASE Announce(s)
    <3> DEFINE c == Charge(<<"final", stoppedAt[s]>>, readAt[s], ChargeableTo(s))
    <3>1. readAt[s] < ChargeableTo(s)
      <4>1. pc[s] = "advanced"
        BY <2>1 DEF Announce
      <4>2. ChargeableTo(s) > readAt[s]
        BY <4>1 DEF Types, JobsInv, StopWorth
      <4> QED
        BY <4>2
    <3>2. ChargeableTo(s) \in Time
      <4>1. Created + Floor \in Nat /\ Created + Floor <= MaxTime + Floor
        BY BillingAssumption
      <4>2. Created + Floor \in Time
        BY <4>1, TimeHolds
      <4> QED
        BY <4>2, <1>0 DEF ChargeableTo, Larger
    <3>3. c \in Charged
      BY <1>0, <3>1, <3>2, ChargeTyped
    <3>4. UNCHANGED charges /\ owed' \in {owed, owed \union {c}}
      BY <2>1 DEF Announce
    <3> HIDE DEF c
    <3> QED
      BY <3>3, <3>4 DEF Types, ChargesTyped
  <2>2. CASE ~Announce(s)
    BY <2>2 DEF Stop, Ending, Refused, Mark, SettleRead, SettleWrite, Finish, SettlerBreaks,
                Types, ChargesTyped
  <2> QED
    BY <2>1, <2>2
<1>5. JobsInv'
  <2>1. CASE Stop(s)
    <3>1. readAt' = [readAt EXCEPT ![s] = readAt[s]]
      BY <2>1 DEF Stop, Types, JobsInv, JobsTyped
    <3>2. pc' = [pc EXCEPT ![s] = "closing"] /\ stoppedAt' = [stoppedAt EXCEPT ![s] = now]
      BY <2>1 DEF Stop
    <3> QED
      BY <1>0, <1>1, <3>1, <3>2, JobStep DEF Stages, Types
  <2>2. CASE Refused(s)
    <3>1. readAt' = [readAt EXCEPT ![s] = readAt[s]]
      BY <2>2 DEF Refused, Types, JobsInv, JobsTyped
    <3>2. pc' = [pc EXCEPT ![s] = "refused"] /\ stoppedAt' = [stoppedAt EXCEPT ![s] = 0]
      BY <2>2 DEF Refused
    <3> QED
      BY <1>0, <1>1, <3>1, <3>2, JobStep DEF Stages, Types
  <2>3. CASE SettlerBreaks(s)
    <3>1. /\ pc' = [pc EXCEPT ![s] = "refused"] /\ stoppedAt' = [stoppedAt EXCEPT ![s] = 0]
          /\ readAt' = [readAt EXCEPT ![s] = 0]
      BY <2>3 DEF SettlerBreaks
    <3> QED
      BY <1>1, <3>1, JobStep DEF Stages, Types
  <2>4. CASE Mark(s) \/ Finish(s)
    <3>1. /\ UNCHANGED <<stoppedAt, readAt>>
          /\ pc' = [pc EXCEPT ![s] = "marked"] \/ pc' = [pc EXCEPT ![s] = "done"]
      BY <2>4 DEF Mark, Finish
    <3> QED
      BY <3>1, JobMoves DEF Stages, Types
  <2>5. CASE SettleRead(s)
    <3>1. CASE escrow = "ACTIVE"
      <4>1. /\ readAt' = [readAt EXCEPT ![s] = lastBilled] /\ pc' = [pc EXCEPT ![s] = "read"]
            /\ stoppedAt' = [stoppedAt EXCEPT ![s] = stoppedAt[s]]
        BY <2>5, <3>1 DEF SettleRead, Types, JobsInv, JobsTyped
      <4>2. lastBilled \in Time
        BY DEF Types, BooksTyped
      <4> QED
        BY <1>0, <4>1, <4>2, JobStep DEF Stages, Types
    <3>2. CASE escrow # "ACTIVE"
      <4>1. UNCHANGED <<stoppedAt, readAt>> /\ pc' = [pc EXCEPT ![s] = "settled"]
        BY <2>5, <3>2 DEF SettleRead
      <4> QED
        BY <4>1, JobMoves DEF Stages, Types
    <3> QED
      BY <3>1, <3>2
  <2>6. CASE SettleWrite(s)
    <3>1. CASE ChargeableTo(s) > readAt[s]
      <4>1. UNCHANGED <<stoppedAt, readAt>> /\ pc' = [pc EXCEPT ![s] = "advanced"]
        BY <2>6, <3>1 DEF SettleWrite
      <4> QED
        BY <3>1, <4>1, JobMoves DEF Stages, Types
    <3>2. CASE ~(ChargeableTo(s) > readAt[s])
      <4>1. /\ readAt' = [readAt EXCEPT ![s] = 0] /\ pc' = [pc EXCEPT ![s] = "settled"]
            /\ stoppedAt' = [stoppedAt EXCEPT ![s] = stoppedAt[s]]
        BY <2>6, <3>2 DEF SettleWrite, Types, JobsInv, JobsTyped
      <4> QED
        BY <1>0, <1>1, <4>1, JobStep DEF Stages, Types
    <3> QED
      BY <3>1, <3>2
  <2>7. CASE Announce(s)
    <3>1. /\ readAt' = [readAt EXCEPT ![s] = 0] /\ pc' = [pc EXCEPT ![s] = "settled"]
          /\ stoppedAt' = [stoppedAt EXCEPT ![s] = stoppedAt[s]]
      BY <2>7 DEF Announce, Types, JobsInv, JobsTyped
    <3> QED
      BY <1>0, <1>1, <3>1, JobStep DEF Stages, Types
  <2> QED
    BY <2>1, <2>2, <2>3, <2>4, <2>5, <2>6, <2>7 DEF Ending
<1> QED
  BY <1>2, <1>3, <1>4, <1>5 DEF Types

\* The flag of the past only ever becomes TRUE.
LEMMA DisturbedIsBoolean ==
  ASSUME disturbed \in BOOLEAN, [Next]_vars
  PROVE  disturbed' \in BOOLEAN
<1>1. CASE Snapshot \/ Bill
  BY <1>1, Zenon DEF Snapshot, Bill
<1>2. ASSUME NEW s \in Settler, SettleRead(s) PROVE disturbed' \in BOOLEAN
  BY <1>2, Zenon DEF SettleRead
<1>3. CASE BillForced \/ CycleBreaks
  BY <1>3, Zenon DEF BillForced, CycleBreaks
<1>4. ASSUME NEW s \in Settler, SettlerBreaks(s) PROVE disturbed' \in BOOLEAN
  BY <1>4, Zenon DEF SettlerBreaks
<1>5. CASE Tick \/ TooSoon \/ AuthDebit \/ AuthRefuse \/ Mirror \/ LedgerDebit \/ UNCHANGED vars
  BY <1>5, Zenon DEF Tick, TooSoon, AuthDebit, AuthRefuse, Mirror, LedgerDebit, vars
<1>6. ASSUME NEW s \in Settler,
             Stop(s) \/ Refused(s) \/ Mark(s) \/ SettleWrite(s) \/ Announce(s) \/ Finish(s)
      PROVE  disturbed' \in BOOLEAN
  BY <1>6, Zenon DEF Stop, Refused, Mark, SettleWrite, Announce, Finish
<1> QED
  BY <1>1, <1>2, <1>3, <1>4, <1>5, <1>6, Zenon DEF Next, Cycling, Ending

LEMMA NextTypes == IInv /\ Types /\ [Next]_vars => Types'
<1> SUFFICES ASSUME IInv, Types, [Next]_vars PROVE Types'
  OBVIOUS
<1>1. CASE Tick
  <2>1. now < MaxTime /\ now' = now + 1
        /\ UNCHANGED <<books, charges, owed, cycle, bill, settling, irregular>>
    BY <1>1 DEF Tick
  <2>2. ClockTyped'
    BY <2>1, BillingAssumption DEF Types, ClockTyped
  <2>3. CycleInv'
    BY <2>1, SameBill DEF Types
  <2> QED
    BY <2>1, <2>2, <2>3, SameJobs, SameBooks DEF Types, ChargesTyped
<1>2. CASE Snapshot \/ Cycling
  BY <1>2, CyclingTypes
<1>3. ASSUME NEW s \in Settler, Stop(s) \/ Ending(s) PROVE Types'
  BY <1>3, EndingTypes
<1>4. CASE LedgerDebit
  <2>1. /\ UNCHANGED <<now, books, cycle, bill, settling, irregular>>
        /\ \E c \in owed : charges' = Debited(c) /\ owed' = owed \ {c}
    BY <1>4 DEF LedgerDebit
  <2>2. ChargesTyped'
    BY <2>1 DEF Types, ChargesTyped, Debited
  <2>3. ClockTyped' /\ CycleInv'
    BY <2>1, SameBill DEF Types, ClockTyped
  <2> QED
    BY <2>1, <2>2, <2>3, SameJobs, SameBooks DEF Types
<1>5. CASE UNCHANGED vars
  <2>1. ClockTyped' /\ CycleInv' /\ ChargesTyped'
    BY <1>5, SameBill DEF vars, Types, ClockTyped, ChargesTyped
  <2> QED
    BY <1>5, <2>1, SameJobs, SameBooks DEF vars, Types
<1> QED
  BY <1>1, <1>2, <1>3, <1>4, <1>5 DEF Next

-----------------------------------------------------------------------------
(* Every tick is billed once.  Bills that were made without a disturbance lie
   end to end: each begins where the watermark was, which is where the last one
   ended, because a cycle and a settlement never overlap, and one settlement
   is all there is. *)

\* The bills in B pay for every tick from the creation up to `end', once, and
\* for no other.
Exact(B, end) ==
  /\ \A t \in Time : Created <= t /\ t < end => \E c \in B : PaysFor(c, t)
  /\ \A c \in B, t \in Time : PaysFor(c, t) => Created <= t /\ t < end
  /\ \A c, d \in B, t \in Time : PaysFor(c, t) /\ PaysFor(d, t) => c = d

NoFinal == \A c \in Bills : c.key[1] # "final"
Reading == {s \in Settler : pc[s] \in {"read", "advanced"}}

\* What the ledger announced under a key, nothing else was charged under.
KeysApart ==
  /\ \A c \in owed : c.key[1] = "final"
  /\ \A c \in owed, d \in charges : c.key # d.key
  /\ \A c, d \in owed : c.key = d.key => c = d

\* While the deployment runs nobody settles.
RunsUnsettled ==
  deployment = "ACTIVE" => NoFinal /\ \A s \in Settler : pc[s] \in {"idle", "closing", "refused"}

StopsAfterCreation ==
  \A s \in Settler : pc[s] \notin {"idle", "refused"} => stoppedAt[s] >= Created

\* The cycle bills whole hours from the watermark, under a key of its own.
CycleCalm ==
  /\ cycle # "idle" => NoFinal /\ Reading = {} /\ bill.from = lastBilled
  /\ cycle \in {"sent", "debited"} => bill.key[1] = "hourly" /\ BilledTo <= bill.at
  /\ cycle = "sent" => ~Spent(bill.key)

\* One job settles, from the watermark to its own moment.
JobsCalm ==
  /\ \A s, r \in Settling : s = r
  /\ NoFinal \/ escrow # "ACTIVE" \/ \E s \in Settler : pc[s] = "settled"
  /\ Reading # {} => NoFinal
  /\ \A s \in Settler : /\ pc[s] = "read" => readAt[s] = lastBilled
                        /\ pc[s] = "advanced" => lastBilled = stoppedAt[s]

\* What is billed ends where the bill that is to move the watermark does, or
\* where the settlement that moved it began, or at the watermark.
BillsCalm ==
  /\ cycle = "debited" => Exact(Bills, BilledTo)
  /\ \A s \in Settler : pc[s] = "advanced" => Exact(Bills, readAt[s])
  /\ cycle # "debited" /\ (\A s \in Settler : pc[s] # "advanced") => Exact(Bills, BilledUntil)

Calm == Created <= lastBilled /\ CycleCalm /\ JobsCalm /\ BillsCalm

Always == KeysApart /\ RunsUnsettled /\ StopsAfterCreation

-----------------------------------------------------------------------------
LEMMA ExactExtends ==
  ASSUME NEW B, NEW c, c.from \in Time, c.to \in Time, Created <= c.from, c.from < c.to,
         Exact(B, c.from)
  PROVE  Exact(B \union {c}, c.to)
<1>1. Created \in Nat /\ Time \subseteq Nat
  BY TimeHolds, BillingAssumption
<1>2. ASSUME NEW t \in Time
      PROVE  PaysFor(c, t) <=> c.from <= t /\ t < c.to
  BY DEF PaysFor
<1>3. c.from \in Nat /\ c.to \in Nat
  BY <1>1
<1>4. ASSUME NEW t \in Time, Created <= t, t < c.to PROVE \E d \in B \union {c} : PaysFor(d, t)
  <2>1. CASE t < c.from
    BY <1>4, <2>1 DEF Exact
  <2>2. CASE ~(t < c.from)
    BY <1>1, <1>2, <1>3, <1>4, <2>2
  <2> QED
    BY <2>1, <2>2
<1>5. ASSUME NEW d \in B, NEW t \in Time, PaysFor(d, t) PROVE Created <= t /\ t < c.from
  BY <1>5 DEF Exact
<1>6. ASSUME NEW d \in B \union {c}, NEW t \in Time, PaysFor(d, t) PROVE Created <= t /\ t < c.to
  <2>1. t \in Nat
    BY <1>1
  <2>2. CASE d \in B
    BY <1>1, <1>3, <1>5, <1>6, <2>1, <2>2
  <2>3. CASE d = c
    BY <1>1, <1>2, <1>3, <1>6, <2>1, <2>3
  <2> QED
    BY <2>2, <2>3
<1>7. ASSUME NEW d \in B, NEW t \in Time, PaysFor(d, t) PROVE ~PaysFor(c, t)
  <2>1. t \in Nat /\ t < c.from
    BY <1>1, <1>5, <1>7
  <2> QED
    BY <1>2, <1>3, <2>1
<1>8. ASSUME NEW d \in B \union {c}, NEW e \in B \union {c}, NEW t \in Time,
             PaysFor(d, t), PaysFor(e, t)
      PROVE  d = e
  BY <1>7, <1>8 DEF Exact
<1> QED
  BY <1>4, <1>6, <1>8 DEF Exact

LEMMA ExactCounts ==
  ASSUME NEW B, NEW end \in Time, Exact(B, end), NEW t \in Time
  PROVE  Cardinality({c \in B : PaysFor(c, t)}) = IF Created <= t /\ t < end THEN 1 ELSE 0
<1>1. CASE Created <= t /\ t < end
  <2>1. PICK c \in B : PaysFor(c, t)
    BY <1>1 DEF Exact
  <2>2. {d \in B : PaysFor(d, t)} = {c}
    BY <2>1 DEF Exact
  <2> QED
    BY <1>1, <2>2, FS_Singleton
<1>2. CASE ~(Created <= t /\ t < end)
  <2>1. {c \in B : PaysFor(c, t)} = {}
    BY <1>2 DEF Exact
  <2> QED
    BY <1>2, <2>1, FS_EmptySet
<1> QED
  BY <1>1, <1>2

LEMMA UntilIs ==
  /\ NoFinal => BilledUntil = lastBilled
  /\ ~NoFinal => BilledUntil = Larger(lastBilled, Created + Floor)
BY DEF NoFinal, BilledUntil

LEMMA UntilIsNext ==
  /\ NoFinal' => BilledUntil' = lastBilled'
  /\ ~NoFinal' => BilledUntil' = Larger(lastBilled', Created + Floor)
BY DEF NoFinal, BilledUntil

LEMMA SameUntil ==
  ASSUME Bills' = Bills, lastBilled' = lastBilled
  PROVE  BilledUntil' = BilledUntil /\ (NoFinal' <=> NoFinal)
BY DEF NoFinal, BilledUntil

LEMMA InitOInv == Init => Always /\ Calm
<1> SUFFICES ASSUME Init PROVE Always /\ Calm
  OBVIOUS
<1>1. Bills = {}
  BY DEF Init, Bills
<1>2. Always /\ NoFinal
  BY <1>1 DEF Init, Always, KeysApart, RunsUnsettled, StopsAfterCreation, NoFinal
<1>3. BilledUntil = Created
  BY <1>2, UntilIs DEF Init
<1>4. Exact(Bills, BilledUntil)
  <2>1. Created \in Nat /\ Time \subseteq Nat
    BY TimeHolds, BillingAssumption
  <2> QED
    BY <1>1, <1>3, <2>1 DEF Exact
<1>5. CycleCalm /\ JobsCalm /\ BillsCalm
  BY <1>2, <1>4 DEF Init, CycleCalm, JobsCalm, BillsCalm, Reading, Settling
<1>6. Created <= lastBilled
  BY BillingAssumption DEF Init
<1> QED
  BY <1>2, <1>5, <1>6 DEF Calm

-----------------------------------------------------------------------------
(* What always holds *)

\* The ledger debits what it announced: no bill is added or lost.
LEMMA LedgerKeepsBills ==
  ASSUME KeysApart, LedgerDebit
  PROVE  Bills' = Bills /\ KeysApart'
<1>1. PICK c \in owed : charges' = Debited(c) /\ owed' = owed \ {c}
  BY DEF LedgerDebit
<1>2. charges' = charges \union {c}
  BY <1>1 DEF Debited, Spent, KeysApart
<1> QED
  BY <1>1, <1>2 DEF Bills, KeysApart

\* A final charge is announced under the moment of its settlement, once.
LEMMA AnnounceKeepsKeys ==
  ASSUME KeysApart, NEW s \in Settler, Announce(s)
  PROVE  KeysApart'
<1> DEFINE c == Charge(<<"final", stoppedAt[s]>>, readAt[s], ChargeableTo(s))
<1>1. c.key[1] = "final"
  BY DEF Charge
<1>2. charges' = charges
      /\ owed' = IF \E d \in charges \union owed : d.key = c.key THEN owed ELSE owed \union {c}
  BY DEF Announce
<1> HIDE DEF c
<1> QED
  BY <1>1, <1>2 DEF KeysApart

LEMMA DebitKeepsKeys ==
  ASSUME Types, KeysApart, AuthDebit
  PROVE  KeysApart'
<1> DEFINE c == Charge(bill.key, bill.from, BilledTo)
<1>1. c.key = bill.key /\ bill.key[1] # "final"
  BY DEF Charge, AuthDebit, Types, CycleInv, BillWorth
<1>2. owed' = owed /\ charges' \in {charges, charges \union {c}}
  BY DEF AuthDebit, Debited
<1> HIDE DEF c
<1> QED
  BY <1>1, <1>2 DEF KeysApart

LEMMA KeysStayApart == Types /\ Always /\ [Next]_vars => KeysApart'
<1> SUFFICES ASSUME Types, Always, [Next]_vars PROVE KeysApart'
  OBVIOUS
<1>1. CASE LedgerDebit
  BY <1>1, LedgerKeepsBills DEF Always
<1>2. ASSUME NEW s \in Settler, Announce(s) PROVE KeysApart'
  BY <1>2, AnnounceKeepsKeys DEF Always
<1>3. CASE AuthDebit
  BY <1>3, DebitKeepsKeys DEF Always
<1>4. CASE UNCHANGED <<charges, owed>>
  BY <1>4 DEF Always, KeysApart
<1>5. \/ LedgerDebit \/ AuthDebit \/ (\E s \in Settler : Announce(s))
      \/ UNCHANGED <<charges, owed>>
  BY DEF Next, Cycling, Ending, Tick, Snapshot, Bill, BillForced, TooSoon, AuthRefuse, Mirror,
         CycleBreaks, Stop, Refused, Mark, SettleRead, SettleWrite, Finish, SettlerBreaks, vars
<1> QED
  BY <1>1, <1>2, <1>3, <1>4, <1>5

\* What a step of a settlement does to its stage.
LEMMA StageOf ==
  ASSUME NEW s \in Settler, Stop(s) \/ Ending(s)
  PROVE  \/ /\ pc[s] = "idle" /\ pc' = [pc EXCEPT ![s] = "closing"]
            /\ stoppedAt' = [stoppedAt EXCEPT ![s] = now] /\ deployment' = deployment
         \/ pc' = [pc EXCEPT ![s] = "refused"] /\ deployment' = deployment
              /\ stoppedAt' = [stoppedAt EXCEPT ![s] = 0]
         \/ /\ pc[s] = "closing" /\ pc' = [pc EXCEPT ![s] = "marked"]
            /\ deployment' \in {"CLOSED", "SUSPENDED"} /\ stoppedAt' = stoppedAt
         \/ /\ pc[s] \in {"marked", "read", "advanced", "settled"}
            /\ \E to \in {"read", "advanced", "settled", "done"} : pc' = [pc EXCEPT ![s] = to]
            /\ deployment' = deployment /\ stoppedAt' = stoppedAt
BY DEF Stop, Ending, Refused, Mark, SettleRead, SettleWrite, Announce, Finish, SettlerBreaks, books

LEMMA StopsStayAfter == IInv /\ Types /\ Always /\ [Next]_vars => StopsAfterCreation'
<1> SUFFICES ASSUME IInv, Types, Always, [Next]_vars PROVE StopsAfterCreation'
  OBVIOUS
<1>1. ASSUME NEW s \in Settler, Stop(s) \/ Ending(s) PROVE StopsAfterCreation'
  <2>1. now >= Created
    BY BillingAssumption DEF Types, ClockTyped
  <2> QED
    BY <1>1, <2>1, StageOf DEF Always, StopsAfterCreation, Types, JobsInv, JobsTyped
<1>2. CASE UNCHANGED settling
  BY <1>2 DEF Always, StopsAfterCreation, settling
<1>3. (\E s \in Settler : Stop(s) \/ Ending(s)) \/ UNCHANGED settling
  BY DEF Next, Cycling, Tick, Snapshot, Bill, BillForced, TooSoon, AuthDebit, AuthRefuse, Mirror,
         CycleBreaks, LedgerDebit, vars
<1> QED
  BY <1>1, <1>2, <1>3

LEMMA RunsStayUnsettled == Types /\ Always /\ [Next]_vars => RunsUnsettled'
<1> SUFFICES ASSUME Types, Always, [Next]_vars, deployment' = "ACTIVE"
             PROVE  NoFinal' /\ \A s \in Settler : pc'[s] \in {"idle", "closing", "refused"}
  BY DEF RunsUnsettled
<1>1. ASSUME NEW s \in Settler, Stop(s) \/ Ending(s)
      PROVE  NoFinal' /\ \A r \in Settler : pc'[r] \in {"idle", "closing", "refused"}
  <2>1. deployment = "ACTIVE"
    BY <1>1, StageOf
  <2>2. NoFinal /\ \A r \in Settler : pc[r] \in {"idle", "closing", "refused"}
    BY <2>1 DEF Always, RunsUnsettled
  <2>3. \A r \in Settler : pc'[r] \in {"idle", "closing", "refused"}
    BY <1>1, <2>2, StageOf DEF Types, JobsInv, JobsTyped
  <2>4. UNCHANGED <<charges, owed>>
    BY <1>1, <2>2 DEF Stop, Ending, Refused, Mark, SettleRead, SettleWrite, Announce, Finish,
                      SettlerBreaks
  <2>5. NoFinal'
    BY <2>2, <2>4 DEF NoFinal, Bills
  <2> QED
    BY <2>3, <2>5
<1>2. CASE AuthDebit
  <2>1. /\ owed' = owed /\ deployment' = deployment /\ pc' = pc
        /\ charges' \in {charges, charges \union {Charge(bill.key, bill.from, BilledTo)}}
        /\ bill.key[1] # "final"
    BY <1>2 DEF AuthDebit, Debited, books, settling, Types, CycleInv, BillWorth
  <2> QED
    BY <2>1 DEF Always, RunsUnsettled, NoFinal, Bills, Charge
<1>3. CASE LedgerDebit
  <2>1. UNCHANGED <<deployment, pc>>
    BY <1>3 DEF LedgerDebit, books, settling
  <2>2. NoFinal' <=> NoFinal
    BY <1>3, LedgerKeepsBills DEF Always, NoFinal
  <2> QED
    BY <2>1, <2>2 DEF Always, RunsUnsettled
<1>4. CASE UNCHANGED <<charges, owed, deployment, pc>>
  BY <1>4 DEF Always, RunsUnsettled, NoFinal, Bills
<1>5. \/ (\E s \in Settler : Stop(s) \/ Ending(s)) \/ AuthDebit \/ LedgerDebit
      \/ UNCHANGED <<charges, owed, deployment, pc>>
  BY DEF Next, Cycling, Tick, Snapshot, Bill, BillForced, TooSoon, AuthRefuse, Mirror,
         CycleBreaks, vars, books, settling
<1> QED
  BY <1>1, <1>2, <1>3, <1>4, <1>5

-----------------------------------------------------------------------------
(* What holds as long as nothing was disturbed *)

\* A step that moves neither the watermark nor the cycle nor any bill, and that
\* no settlement begins to read with.
LEMMA CalmKept ==
  ASSUME Calm, UNCHANGED <<lastBilled, cycle, bill>>, Bills' = Bills,
         Spent(bill.key)' => Spent(bill.key) \/ cycle # "sent",
         Settling' \subseteq Settling,
         \A s \in Settler : pc'[s] \in {"read", "advanced"} =>
           pc'[s] = pc[s] /\ readAt'[s] = readAt[s] /\ stoppedAt'[s] = stoppedAt[s],
         \A s \in Settler : pc[s] = "advanced" => pc'[s] = "advanced",
         NoFinal \/ escrow' # "ACTIVE" \/ \E s \in Settler : pc'[s] = "settled"
  PROVE  Calm'
<1>1. BilledUntil' = BilledUntil /\ (NoFinal' <=> NoFinal) /\ BilledTo' = BilledTo
  BY SameUntil DEF BilledTo
<1>2. Reading' \subseteq Reading
  BY DEF Reading
<1>3. CycleCalm'
  BY <1>1, <1>2 DEF Calm, CycleCalm
<1>4. JobsCalm'
  BY <1>1, <1>2 DEF Calm, JobsCalm
<1>5. BillsCalm'
  BY <1>1 DEF Calm, BillsCalm
<1> QED
  BY <1>3, <1>4, <1>5 DEF Calm

\* The clock, the user and the chain, and the ledger.
LEMMA OutsideCalm ==
  ASSUME Types, Always, Calm, Tick \/ LedgerDebit \/ UNCHANGED vars
  PROVE  Calm'
<1>1. UNCHANGED <<lastBilled, cycle, bill, escrow, pc, readAt, stoppedAt>>
  BY DEF Tick, LedgerDebit, vars, books, settling
<1>2. Bills' = Bills
  BY LedgerKeepsBills DEF Always, Tick, vars, Bills
<1>3. Spent(bill.key)' => Spent(bill.key) \/ cycle # "sent"
  <2>1. CASE LedgerDebit
    <3>1. PICK c \in owed : charges' \subseteq charges \union {c}
      BY <2>1 DEF LedgerDebit, Debited
    <3>2. cycle = "sent" => bill.key[1] # "final"
      BY DEF Types, CycleInv, BillWorth
    <3> QED
      BY <1>1, <3>1, <3>2 DEF Spent, Always, KeysApart
  <2>2. CASE Tick \/ UNCHANGED vars
    BY <1>1, <2>2 DEF Tick, vars, Spent
  <2> QED
    BY <2>1, <2>2
<1>4. Settling' = Settling
  BY <1>1 DEF Settling
<1> QED
  BY <1>1, <1>2, <1>3, <1>4, CalmKept DEF Calm, JobsCalm

LEMMA StoppingCalm ==
  ASSUME Types, Calm, NEW s \in Settler, Stop(s) \/ Refused(s) \/ Mark(s) \/ Finish(s)
  PROVE  Calm'
<1>1. /\ UNCHANGED <<lastBilled, cycle, bill, charges, owed, readAt>>
      /\ pc[s] \in {"idle", "closing", "settled"}
      /\ \E to \in {"closing", "refused", "marked", "done"} : pc' = [pc EXCEPT ![s] = to]
      /\ \A r \in Settler : r # s => stoppedAt'[r] = stoppedAt[r]
  BY DEF Stop, Refused, Mark, Finish, books, Types, JobsInv, JobsTyped
<1>2. Bills' = Bills /\ (Spent(bill.key)' <=> Spent(bill.key))
  BY <1>1 DEF Bills, Spent
<1>3. Settling' \subseteq Settling
  BY <1>1 DEF Settling, Types, JobsInv, JobsTyped
<1>4. NoFinal \/ escrow' # "ACTIVE" \/ \E r \in Settler : pc'[r] = "settled"
  <2>1. CASE Finish(s)
    BY <2>1 DEF Finish
  <2>2. CASE Stop(s) \/ Refused(s) \/ Mark(s)
    <3>1. UNCHANGED escrow /\ pc[s] # "settled"
      BY <2>2 DEF Stop, Refused, Mark, books
    <3> QED
      BY <1>1, <3>1 DEF Calm, JobsCalm, Types, JobsInv, JobsTyped
  <2> QED
    BY <2>1, <2>2
<1> QED
  BY <1>1, <1>2, <1>3, <1>4, CalmKept DEF Types, JobsInv, JobsTyped

LEMMA SnapshotCalm ==
  ASSUME Types, Always, Calm, Snapshot, Settling = {}
  PROVE  Calm'
<1>1. /\ cycle = "idle" /\ cycle' = "read" /\ bill'.from = lastBilled /\ deployment = "ACTIVE"
      /\ UNCHANGED <<lastBilled, charges, owed, escrow, pc, readAt, stoppedAt>>
  BY DEF Snapshot, NoBill, books, settling
<1>2. NoFinal /\ Reading = {}
  BY <1>1 DEF Always, RunsUnsettled, Reading
<1>3. Bills' = Bills /\ Reading' = Reading /\ Settling' = Settling
  BY <1>1 DEF Bills, Reading, Settling
<1>4. BilledUntil' = BilledUntil /\ (NoFinal' <=> NoFinal)
  BY <1>1, <1>3, SameUntil
<1>5. CycleCalm'
  BY <1>1, <1>2, <1>3, <1>4 DEF CycleCalm
<1>6. JobsCalm'
  BY <1>1, <1>3, <1>4 DEF Calm, JobsCalm
<1>7. BillsCalm'
  BY <1>1, <1>3, <1>4 DEF Calm, BillsCalm
<1> QED
  BY <1>1, <1>5, <1>6, <1>7 DEF Calm

LEMMA BillCalm ==
  ASSUME IInv, Types, Calm, Bill, ~Spent(bill'.key)
  PROVE  Calm'
<1>1. /\ cycle = "read" /\ cycle' = "sent"
      /\ bill' = [bill EXCEPT !.at = now, !.hours = Hour(now - bill.from),
                              !.key = <<"hourly", Hour(now)>>]
      /\ now - bill.from >= TicksPerHour
      /\ UNCHANGED <<lastBilled, charges, owed, escrow, pc, readAt, stoppedAt>>
  BY DEF Bill, books, settling
<1>2. Bills' = Bills /\ Reading' = Reading /\ Settling' = Settling
  BY <1>1 DEF Bills, Reading, Settling
<1>3. BilledUntil' = BilledUntil /\ (NoFinal' <=> NoFinal)
  BY <1>1, <1>2, SameUntil
<1>4. bill'.from = bill.from /\ bill'.at = now /\ bill'.hours = Hour(now - bill.from)
      /\ bill'.key[1] = "hourly"
  BY <1>1 DEF Types, CycleInv, CycleTyped
<1>5. BilledTo' <= bill'.at
  <2>1. now \in Nat /\ bill.from \in Nat /\ bill.from <= now
    BY <1>1, MomentsAre DEF Types, CycleInv, BillWorth
  <2>2. Hour(now - bill.from) * TicksPerHour <= now - bill.from
    BY <2>1, WholeHours
  <2>3. Hour(now - bill.from) * TicksPerHour \in Nat
    BY <2>1, WholeHours, BillingAssumption
  <2>4. BilledTo' = bill.from + Hour(now - bill.from) * TicksPerHour
    BY <1>4 DEF BilledTo
  <2> DEFINE span == Hour(now - bill.from) * TicksPerHour
  <2>5. span \in Nat /\ span <= now - bill.from /\ BilledTo' = bill.from + span
    BY <2>2, <2>3, <2>4
  <2> HIDE DEF span
  <2> QED
    BY <1>4, <2>1, <2>5
<1>6. ~Spent(bill.key)'
  BY <1>1 DEF Spent
<1>7. CycleCalm'
  BY <1>1, <1>2, <1>3, <1>4, <1>5, <1>6 DEF Calm, CycleCalm
<1>8. JobsCalm'
  BY <1>1, <1>2, <1>3 DEF Calm, JobsCalm
<1>9. BillsCalm'
  BY <1>1, <1>2, <1>3 DEF Calm, BillsCalm
<1> QED
  BY <1>1, <1>7, <1>8, <1>9 DEF Calm

\* The cycle gives up before it debits anything.
LEMMA GiveUpCalm ==
  ASSUME Calm, TooSoon \/ AuthRefuse
  PROVE  Calm'
<1>1. /\ cycle \in {"read", "sent"} /\ cycle' = "idle"
      /\ UNCHANGED <<lastBilled, charges, owed, escrow, pc, readAt, stoppedAt>>
  BY DEF TooSoon, AuthRefuse, books, settling
<1>2. Bills' = Bills /\ Reading' = Reading /\ Settling' = Settling
  BY <1>1 DEF Bills, Reading, Settling
<1>3. BilledUntil' = BilledUntil /\ (NoFinal' <=> NoFinal)
  BY <1>1, <1>2, SameUntil
<1>4. CycleCalm'
  BY <1>1 DEF CycleCalm
<1>5. JobsCalm'
  BY <1>1, <1>2, <1>3 DEF Calm, JobsCalm
<1>6. BillsCalm'
  BY <1>1, <1>2, <1>3 DEF Calm, BillsCalm
<1> QED
  BY <1>1, <1>4, <1>5, <1>6 DEF Calm

\* The bill begins at the watermark, where the bills so far end.
LEMMA DebitCalm ==
  ASSUME Types, Calm, AuthDebit
  PROVE  Calm'
<1> DEFINE c == Charge(bill.key, bill.from, BilledTo)
<1>1. /\ cycle = "sent" /\ cycle' = "debited" /\ charges' = Debited(c)
      /\ UNCHANGED <<lastBilled, bill, owed, escrow, pc, readAt, stoppedAt>>
  BY DEF AuthDebit, books, settling
<1>2. /\ NoFinal /\ Reading = {} /\ bill.from = lastBilled /\ ~Spent(bill.key)
      /\ bill.key[1] = "hourly" /\ BilledTo <= bill.at
  BY <1>1 DEF Calm, CycleCalm
<1>3. c.key = bill.key /\ c.from = bill.from /\ c.to = BilledTo
  BY DEF Charge
<1>4. charges' = charges \union {c}
  BY <1>1, <1>2, <1>3 DEF Debited
<1>5. Bills' = Bills \union {c} /\ Reading' = Reading /\ Settling' = Settling
  BY <1>1, <1>4 DEF Bills, Reading, Settling
<1> HIDE DEF c
<1>6. NoFinal'
  BY <1>2, <1>3, <1>5 DEF NoFinal
<1>7. BilledTo' = BilledTo
  BY <1>1 DEF BilledTo
<1>8. Exact(Bills, bill.from)
  <2>1. \A s \in Settler : pc[s] # "advanced"
    BY <1>2 DEF Reading
  <2> QED
    BY <1>1, <1>2, <2>1, UntilIs DEF Calm, BillsCalm
<1>9. Exact(Bills', BilledTo)
  <2>1. bill.from \in Time /\ BilledTo \in Time /\ bill.from < BilledTo /\ Created <= bill.from
    BY <1>1, <1>2 DEF Calm, Types, CycleInv, CycleTyped, BillWorth
  <2> QED
    BY <1>3, <1>5, <1>8, <2>1, ExactExtends
<1>10. CycleCalm'
  BY <1>1, <1>2, <1>5, <1>6, <1>7 DEF CycleCalm
<1>11. JobsCalm'
  BY <1>1, <1>5, <1>6 DEF Calm, JobsCalm
<1>12. BillsCalm'
  BY <1>1, <1>2, <1>5, <1>7, <1>9 DEF BillsCalm, Reading
<1> QED
  BY <1>1, <1>10, <1>11, <1>12 DEF Calm

LEMMA MirrorCalm ==
  ASSUME Types, Calm, Mirror
  PROVE  Calm'
<1>1. /\ cycle = "debited" /\ cycle' = "idle" /\ lastBilled' = Smaller(bill.at, BilledTo)
      /\ UNCHANGED <<charges, owed, escrow, pc, readAt, stoppedAt>>
  BY DEF Mirror, settling
<1>2. /\ NoFinal /\ Reading = {} /\ bill.from = lastBilled /\ BilledTo <= bill.at
      /\ Exact(Bills, BilledTo)
  BY <1>1 DEF Calm, CycleCalm, BillsCalm
<1>3. /\ bill.at \in Nat /\ BilledTo \in Nat /\ bill.from \in Nat /\ bill.from < BilledTo
      /\ Created \in Nat
  BY <1>1, TimeHolds, BillingAssumption DEF Types, CycleInv, CycleTyped, BillWorth
<1>4. lastBilled' = BilledTo
  BY <1>1, <1>2, <1>3 DEF Smaller
<1>5. Bills' = Bills /\ Reading' = Reading /\ Settling' = Settling
  BY <1>1 DEF Bills, Reading, Settling
<1>6. NoFinal'
  BY <1>2, <1>5 DEF NoFinal
<1>7. BilledUntil' = BilledTo
  BY <1>4, <1>6, UntilIsNext
<1>8. CycleCalm'
  BY <1>1 DEF CycleCalm
<1>9. JobsCalm'
  BY <1>1, <1>2, <1>5, <1>6 DEF Calm, JobsCalm, Reading
<1>10. BillsCalm'
  BY <1>1, <1>2, <1>5, <1>7 DEF BillsCalm, Reading
<1>11. Created <= lastBilled'
  BY <1>2, <1>3, <1>4 DEF Calm
<1> QED
  BY <1>8, <1>9, <1>10, <1>11 DEF Calm

LEMMA SettleReadCalm ==
  ASSUME Types, Calm, NEW s \in Settler, SettleRead(s), cycle = "idle", Settling = {}
  PROVE  Calm'
<1>1. /\ UNCHANGED <<lastBilled, charges, owed, escrow, cycle, bill, stoppedAt>>
      /\ pc[s] = "marked"
  BY DEF SettleRead, books
<1>2. Bills' = Bills
  BY <1>1 DEF Bills
<1>3. BilledUntil' = BilledUntil /\ (NoFinal' <=> NoFinal)
  BY <1>1, <1>2, SameUntil
<1>4. /\ \E to \in {"read", "settled"} : pc' = [pc EXCEPT ![s] = to]
      /\ pc'[s] = "read" => escrow = "ACTIVE" /\ readAt'[s] = lastBilled
  BY DEF SettleRead, Types, JobsInv, JobsTyped
<1>5. \A r \in Settler : r # s => pc'[r] = pc[r] /\ pc[r] \notin {"read", "advanced", "settled"}
  BY <1>4 DEF Settling, Types, JobsInv, JobsTyped
<1>6. pc'[s] \in {"read", "settled"}
  BY <1>4 DEF Types, JobsInv, JobsTyped
<1>7. Settling' \subseteq {s}
  BY <1>5 DEF Settling
<1>8. pc'[s] = "read" => NoFinal
  BY <1>4, <1>5, <1>1 DEF Calm, JobsCalm
<1>9. CycleCalm'
  BY <1>1 DEF CycleCalm
<1>10. JobsCalm'
  <2>1. \A r, q \in Settling' : r = q
    BY <1>7
  <2>2. NoFinal' \/ escrow' # "ACTIVE" \/ \E r \in Settler : pc'[r] = "settled"
    BY <1>3, <1>6, <1>8
  <2>3. Reading' # {} => NoFinal'
    BY <1>3, <1>5, <1>6, <1>8 DEF Reading
  <2>4. \A r \in Settler : /\ pc'[r] = "read" => readAt'[r] = lastBilled'
                           /\ pc'[r] = "advanced" => lastBilled' = stoppedAt'[r]
    BY <1>1, <1>4, <1>5, <1>6
  <2> QED
    BY <2>1, <2>2, <2>3, <2>4 DEF JobsCalm
<1>11. BillsCalm'
  BY <1>1, <1>2, <1>3, <1>5, <1>6 DEF Calm, BillsCalm
<1> QED
  BY <1>1, <1>9, <1>10, <1>11 DEF Calm

\* The one that reads is the only one, and no cycle is under way.
LEMMA ReaderIsAlone ==
  ASSUME Types, Calm, NEW s \in Settler, pc[s] \in {"read", "advanced"}
  PROVE  /\ NoFinal /\ cycle = "idle"
         /\ \A r \in Settler : r # s => pc[r] \notin {"read", "advanced", "settled"}
<1>1. s \in Reading /\ s \in Settling
  BY DEF Reading, Settling
<1>2. NoFinal /\ cycle = "idle"
  BY <1>1 DEF Calm, JobsCalm, CycleCalm
<1>3. ASSUME NEW r \in Settler, r # s, pc[r] \in {"read", "advanced", "settled"} PROVE FALSE
  BY <1>1, <1>3 DEF Calm, JobsCalm, Settling
<1> QED
  BY <1>2, <1>3

LEMMA SettleWriteCalm ==
  ASSUME IInv, Types, Always, Calm, NEW s \in Settler, SettleWrite(s)
  PROVE  Calm'
<1>1. /\ UNCHANGED <<charges, owed, escrow, cycle, bill, stoppedAt>> /\ pc[s] = "read"
      /\ \/ /\ lastBilled' = stoppedAt[s] /\ pc' = [pc EXCEPT ![s] = "advanced"]
            /\ readAt' = readAt
         \/ lastBilled' = lastBilled /\ pc' = [pc EXCEPT ![s] = "settled"]
  BY DEF SettleWrite
<1>2. /\ NoFinal /\ cycle = "idle" /\ readAt[s] = lastBilled
      /\ \A r \in Settler : r # s => pc[r] \notin {"read", "advanced", "settled"}
  BY <1>1, ReaderIsAlone DEF Calm, JobsCalm
<1>3. /\ \A r \in Settler : r # s => pc'[r] \notin {"read", "advanced", "settled"}
      /\ pc'[s] \in {"advanced", "settled"}
      /\ pc'[s] = "advanced" => lastBilled' = stoppedAt[s] /\ readAt' = readAt
      /\ pc'[s] = "settled" => lastBilled' = lastBilled
  BY <1>1, <1>2 DEF Types, JobsInv, JobsTyped
<1>4. Bills' = Bills /\ NoFinal'
  BY <1>1, <1>2 DEF Bills, NoFinal
<1>5. Exact(Bills, lastBilled)
  <2>1. \A r \in Settler : pc[r] # "advanced"
    BY <1>1, <1>2
  <2> QED
    BY <1>2, <2>1, UntilIs DEF Calm, BillsCalm
<1>6. CycleCalm'
  BY <1>1, <1>2 DEF CycleCalm
<1>7. JobsCalm'
  BY <1>1, <1>3, <1>4 DEF JobsCalm, Settling
<1>8. BillsCalm'
  <2>1. pc'[s] = "advanced" => Exact(Bills', readAt'[s])
    BY <1>2, <1>3, <1>4, <1>5
  <2>2. pc'[s] = "settled" => Exact(Bills', BilledUntil')
    BY <1>3, <1>4, <1>5, UntilIsNext
  <2> QED
    BY <1>1, <1>2, <1>3, <2>1, <2>2 DEF BillsCalm
<1>9. Created <= lastBilled'
  BY <1>1 DEF Calm, Always, StopsAfterCreation
<1> QED
  BY <1>6, <1>7, <1>8, <1>9 DEF Calm

\* The final bill begins where the watermark was, and ends where the
\* settlement put it, or with the minimum runtime.
LEMMA AnnounceCalm ==
  ASSUME Types, Always, Calm, NEW s \in Settler, Announce(s), Created <= readAt[s]
  PROVE  Calm'
<1> DEFINE c == Charge(<<"final", stoppedAt[s]>>, readAt[s], ChargeableTo(s))
<1>1. /\ UNCHANGED <<lastBilled, charges, escrow, cycle, bill, stoppedAt>> /\ pc[s] = "advanced"
      /\ pc' = [pc EXCEPT ![s] = "settled"]
      /\ owed' = IF \E d \in charges \union owed : d.key = c.key THEN owed ELSE owed \union {c}
  BY DEF Announce, books
<1>2. /\ NoFinal /\ cycle = "idle"
      /\ \A r \in Settler : r # s => pc[r] \notin {"read", "advanced", "settled"}
  BY <1>1, ReaderIsAlone
<1>3. lastBilled = stoppedAt[s] /\ Exact(Bills, readAt[s])
  BY <1>1 DEF Calm, JobsCalm, BillsCalm
<1>4. c.key[1] = "final" /\ c.from = readAt[s] /\ c.to = ChargeableTo(s)
  BY DEF Charge
<1>5. c.from \in Time /\ c.to \in Time /\ c.from < c.to
  <2>1. readAt[s] \in Time /\ stoppedAt[s] \in Time /\ ChargeableTo(s) > readAt[s]
    BY <1>1 DEF Types, JobsInv, JobsTyped, StopWorth
  <2>2. Created + Floor \in Nat /\ Created + Floor <= MaxTime + Floor
    BY BillingAssumption
  <2>3. Created + Floor \in Time
    BY <2>2, TimeHolds
  <2>4. ChargeableTo(s) \in Time
    BY <2>1, <2>3 DEF ChargeableTo, Larger
  <2>5. readAt[s] \in Nat /\ ChargeableTo(s) \in Nat
    BY <2>1, <2>4, TimeHolds
  <2> QED
    BY <1>4, <2>1, <2>4, <2>5
<1> HIDE DEF c
<1>6. owed' = owed \union {c}
  BY <1>1, <1>2, <1>4 DEF NoFinal, Bills
<1>7. Bills' = Bills \union {c}
  BY <1>1, <1>6 DEF Bills
<1>8. Exact(Bills', ChargeableTo(s))
  BY <1>3, <1>4, <1>5, <1>7, ExactExtends
<1>9. BilledUntil' = ChargeableTo(s)
  <2>1. ~NoFinal'
    BY <1>4, <1>7 DEF NoFinal
  <2> QED
    BY <1>1, <1>3, <2>1, UntilIsNext DEF ChargeableTo
<1>10. /\ pc'[s] = "settled"
       /\ \A r \in Settler : r # s => pc'[r] \notin {"read", "advanced", "settled"}
  BY <1>1, <1>2 DEF Types, JobsInv, JobsTyped
<1>11. CycleCalm'
  BY <1>1, <1>2 DEF CycleCalm
<1>12. JobsCalm'
  BY <1>10 DEF JobsCalm, Settling, Reading
<1>13. BillsCalm'
  BY <1>1, <1>2, <1>8, <1>9, <1>10 DEF BillsCalm
<1> QED
  BY <1>1, <1>11, <1>12, <1>13 DEF Calm

-----------------------------------------------------------------------------
\* A settlement that moved the watermark read one at or after the creation.
ReadsAfterCreation == \A s \in Settler : pc[s] = "advanced" => Created <= readAt[s]

LEMMA ReadsStayAfter ==
  ASSUME IInv, Types, Calm, ReadsAfterCreation, [Next]_vars
  PROVE  ReadsAfterCreation'
<1>1. ASSUME NEW s \in Settler, SettleWrite(s) PROVE ReadsAfterCreation'
  <2>1. /\ pc[s] = "read"
        /\ \/ readAt' = readAt /\ pc' = [pc EXCEPT ![s] = "advanced"]
           \/ readAt' = [readAt EXCEPT ![s] = 0] /\ pc' = [pc EXCEPT ![s] = "settled"]
    BY <1>1 DEF SettleWrite
  <2>2. Created <= readAt[s]
    BY <2>1 DEF Calm, JobsCalm
  <2> QED
    BY <2>1, <2>2 DEF ReadsAfterCreation, Types, JobsInv, JobsTyped
<1>2. ASSUME NEW s \in Settler, Stop(s) \/ Ending(s), ~SettleWrite(s) PROVE ReadsAfterCreation'
  <2>1. /\ \E to \in Stages \ {"advanced"} : pc' = [pc EXCEPT ![s] = to]
        /\ \A r \in Settler : r # s => readAt'[r] = readAt[r]
    BY <1>2 DEF Stop, Ending, Refused, Mark, SettleRead, Announce, Finish, SettlerBreaks, Stages,
                Types, JobsInv, JobsTyped
  <2> QED
    BY <2>1 DEF ReadsAfterCreation, Types, JobsInv, JobsTyped
<1>3. CASE UNCHANGED settling
  BY <1>3 DEF ReadsAfterCreation, settling
<1>4. (\E s \in Settler : Stop(s) \/ Ending(s)) \/ UNCHANGED settling
  BY DEF Next, Cycling, Tick, Snapshot, Bill, BillForced, TooSoon, AuthDebit, AuthRefuse, Mirror,
         CycleBreaks, LedgerDebit, vars
<1> QED
  BY <1>1, <1>2, <1>3, <1>4

\* A step that disturbs nothing is one of the calm ones, at a calm moment.
CalmStep ==
  \/ Tick \/ LedgerDebit \/ UNCHANGED vars
  \/ Snapshot /\ Settling = {}
  \/ Bill /\ ~Spent(bill'.key)
  \/ TooSoon \/ AuthRefuse \/ AuthDebit \/ Mirror
  \/ \E s \in Settler :
       \/ Stop(s) \/ Refused(s) \/ Mark(s) \/ Finish(s) \/ SettleWrite(s) \/ Announce(s)
       \/ SettleRead(s) /\ cycle = "idle" /\ Settling = {}

LEMMA UndisturbedIsCalm ==
  ASSUME [Next]_vars, ~disturbed'
  PROVE  ~disturbed /\ CalmStep
<1>1. CASE Tick \/ LedgerDebit \/ UNCHANGED vars
  <2>1. disturbed' = disturbed
    BY <1>1 DEF Tick, LedgerDebit, vars
  <2> QED
    BY <1>1, <2>1, Zenon DEF CalmStep
<1>2. CASE Snapshot
  <2>1. disturbed' = (disturbed \/ Settling # {})
    BY <1>2 DEF Snapshot
  <2>2. ~disturbed /\ Settling = {}
    BY <2>1, Zenon
  <2> QED
    BY <1>2, <2>2, Zenon DEF CalmStep
<1>3. CASE Bill
  <2>1. disturbed' = (disturbed \/ Spent(bill'.key))
    BY <1>3 DEF Bill
  <2>2. ~disturbed /\ ~Spent(bill'.key)
    BY <2>1, Zenon
  <2> QED
    BY <1>3, <2>2, Zenon DEF CalmStep
<1>4. CASE BillForced \/ CycleBreaks
  BY <1>4, Zenon DEF BillForced, CycleBreaks
<1>5. CASE TooSoon \/ AuthRefuse \/ AuthDebit \/ Mirror
  <2>1. disturbed' = disturbed
    BY <1>5 DEF TooSoon, AuthRefuse, AuthDebit, Mirror
  <2> QED
    BY <1>5, <2>1, Zenon DEF CalmStep
<1>6. ASSUME NEW s \in Settler, SettleRead(s) PROVE ~disturbed /\ CalmStep
  BY <1>6, Zenon DEF SettleRead, CalmStep
<1>7. ASSUME NEW s \in Settler, SettlerBreaks(s) PROVE FALSE
  BY <1>7, Zenon DEF SettlerBreaks
<1>8. ASSUME NEW s \in Settler,
             Stop(s) \/ Refused(s) \/ Mark(s) \/ Finish(s) \/ SettleWrite(s) \/ Announce(s)
      PROVE  ~disturbed /\ CalmStep
  <2>1. disturbed' = disturbed
    BY <1>8, Zenon DEF Stop, Refused, Mark, Finish, SettleWrite, Announce
  <2> QED
    BY <1>8, <2>1, Zenon DEF CalmStep
<1> QED
  BY <1>1, <1>2, <1>3, <1>4, <1>5, <1>6, <1>7, <1>8, Zenon DEF Next, Cycling, Ending

LEMMA CalmStays ==
  ASSUME IInv, Types, Always, Calm, ReadsAfterCreation, CalmStep
  PROVE  Calm'
<1>1. CASE Tick \/ LedgerDebit \/ UNCHANGED vars
  BY <1>1, OutsideCalm
<1>2. CASE Snapshot /\ Settling = {}
  BY <1>2, SnapshotCalm
<1>3. CASE Bill /\ ~Spent(bill'.key)
  BY <1>3, BillCalm
<1>4. CASE TooSoon \/ AuthRefuse
  BY <1>4, GiveUpCalm
<1>5. CASE AuthDebit
  BY <1>5, DebitCalm
<1>6. CASE Mirror
  BY <1>6, MirrorCalm
<1>7. ASSUME NEW s \in Settler, Stop(s) \/ Refused(s) \/ Mark(s) \/ Finish(s) PROVE Calm'
  BY <1>7, StoppingCalm
<1>8. ASSUME NEW s \in Settler, SettleRead(s), cycle = "idle", Settling = {} PROVE Calm'
  BY <1>8, SettleReadCalm
<1>9. ASSUME NEW s \in Settler, SettleWrite(s) PROVE Calm'
  BY <1>9, SettleWriteCalm
<1>10. ASSUME NEW s \in Settler, Announce(s) PROVE Calm'
  <2>1. Created <= readAt[s]
    BY <1>10 DEF Announce, ReadsAfterCreation
  <2> QED
    BY <1>10, <2>1, AnnounceCalm
<1> QED
  BY <1>1, <1>2, <1>3, <1>4, <1>5, <1>6, <1>7, <1>8, <1>9, <1>10 DEF CalmStep
-----------------------------------------------------------------------------
\* What holds in every reachable state.
SInv ==
  /\ IInv /\ Types /\ disturbed \in BOOLEAN
  /\ Always /\ (~disturbed => Calm /\ ReadsAfterCreation)

LEMMA Invariance == Spec => []SInv
<1>1. Init => SInv
  <2>1. Init => ReadsAfterCreation
    BY DEF Init, ReadsAfterCreation
  <2> QED
    BY <2>1, InitIInv, InitTypes, InitOInv, Zenon DEF SInv
<1>2. SInv /\ [Next]_vars => SInv'
  <2> SUFFICES ASSUME SInv, [Next]_vars PROVE SInv'
    OBVIOUS
  <2>1. IInv' /\ Types' /\ disturbed' \in BOOLEAN
    BY NextIInv, NextTypes, DisturbedIsBoolean, Zenon DEF SInv
  <2>2. Always'
    BY KeysStayApart, RunsStayUnsettled, StopsStayAfter, Zenon DEF SInv, Always
  <2>3. ASSUME ~disturbed' PROVE Calm' /\ ReadsAfterCreation'
    <3>1. ~disturbed /\ CalmStep
      BY <2>3, UndisturbedIsCalm
    <3>2. IInv /\ Types /\ Always /\ Calm /\ ReadsAfterCreation
      BY <3>1, Zenon DEF SInv
    <3> QED
      BY <3>1, <3>2, CalmStays, ReadsStayAfter
  <2> QED
    BY <2>1, <2>2, <2>3, Zenon DEF SInv
<1> QED
  BY <1>1, <1>2, PTL DEF Spec

\* Every variable keeps its type; in particular every charge that is made or
\* announced (computeDebit, settleViaLedger) pays for some time, within bounds.
THEOREM TypeCorrect == Spec => []TypeOK
<1>1. SInv => TypeOK
  BY TypesAre, Zenon DEF SInv
<1> QED
  BY <1>1, Invariance, PTL

\* As long as nothing is disturbed, every tick up to the watermark, or up to the
\* end of the minimum runtime, is billed once and no other tick is, whatever the
\* cycle (processAkashEscrows) and the settlements (settleAkashEscrowToTime) do.
THEOREM OnceEach == Spec => []BilledExactlyOnce
<1>1. SInv => BilledExactlyOnce
  <2> SUFFICES ASSUME SInv, ~disturbed, cycle = "idle", Settling = {}, NEW t \in Time
               PROVE  Cardinality({c \in Bills : PaysFor(c, t)}) =
                        IF Created <= t /\ t < BilledUntil THEN 1 ELSE 0
    BY Zenon DEF BilledExactlyOnce
  <2>1. Calm /\ Types
    BY Zenon DEF SInv
  <2>2. Exact(Bills, BilledUntil)
    <3>1. \A s \in Settler : pc[s] # "advanced"
      BY DEF Settling
    <3> QED
      BY <2>1, <3>1 DEF Calm, BillsCalm
  <2>3. BilledUntil \in Time
    <3>1. Created + Floor \in Nat /\ Created + Floor <= MaxTime + Floor
      BY BillingAssumption
    <3>2. Created + Floor \in Time /\ lastBilled \in Time
      BY <2>1, <3>1, TimeHolds DEF Types, BooksTyped
    <3> QED
      BY <3>2 DEF BilledUntil, Larger
  <2> QED
    BY <2>2, <2>3, ExactCounts
<1> QED
  BY <1>1, Invariance, PTL
=============================================================================

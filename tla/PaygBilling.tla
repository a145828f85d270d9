----------------------------- MODULE PaygBilling -----------------------------
(***************************************************************************)
(* Pay-as-you-go billing of one Akash deployment: the hourly cycle         *)
(* (services/billing/computeBillingScheduler.ts), which debits whole hours *)
(* and then moves the escrow's watermark lastBilledAt past them, and the   *)
(* jobs that end the deployment, which settle the rest up to the moment it *)
(* stopped (services/billing/deploymentSettlement.ts).                     *)
(*                                                                         *)
(* A charge is the span of time that its amount pays for, under its        *)
(* idempotency key.  Time is counted in ticks, TicksPerHour to the hour.   *)
(* A settlement charges through the ledger: `owed' is what the ledger has  *)
(* announced and, by DebitContract, debits in the end.                     *)
(***************************************************************************)
EXTENDS Integers, FiniteSets

CONSTANTS Settler,       \* jobs that end the deployment
          TicksPerHour,
          Created,       \* createdAt
          Floor,         \* minimum runtime charged (GPU workloads)
          MaxTime,       \* bound on the clock
          MaxIrregular   \* bound on crashes, lost answers and forced cycles

ASSUME BillingAssumption ==
  /\ TicksPerHour \in Nat \ {0}
  /\ {Created, Floor, MaxTime, MaxIrregular} \subseteq Nat
  /\ Created <= MaxTime

VARIABLES now,
          lastBilled,   \* lastBilledAt, createdAt before the first bill
          escrow, deployment,   \* their statuses
          charges,      \* debits the auth service made
          owed,         \* rows of the settlement ledger not yet debited
          cycle,        \* stage of the billing cycle at this escrow
          bill,         \* what it read and what it bills
          pc, stoppedAt, readAt,  \* [Settler -> stage, closedAt, lastBilledAt it read]
          irregular,    \* crashes, lost answers and forced cycles so far
          disturbed     \* a fault, a forced cycle, an overlap or a spent key so far

books    == <<lastBilled, escrow, deployment>>
settling == <<pc, stoppedAt, readAt>>
vars == <<now, books, charges, owed, cycle, bill, settling, irregular, disturbed>>

Larger(a, b)  == IF a > b THEN a ELSE b
Smaller(a, b) == IF a < b THEN a ELSE b
Hour(t) == t \div TicksPerHour

NoBill == [from |-> 0, at |-> 0, hours |-> 0, key |-> <<"none", 0>>]

Init ==
  /\ now = Created
  /\ lastBilled = Created
  /\ escrow = "ACTIVE"
  /\ deployment = "ACTIVE"
  /\ charges = {}
  /\ owed = {}
  /\ cycle = "idle"
  /\ bill = NoBill
  /\ pc = [s \in Settler |-> "idle"]
  /\ stoppedAt = [s \in Settler |-> 0]
  /\ readAt = [s \in Settler |-> 0]
  /\ irregular = 0
  /\ disturbed = FALSE

Tick ==
  /\ now < MaxTime
  /\ now' = now + 1
  /\ UNCHANGED <<books, charges, owed, cycle, bill, settling, irregular, disturbed>>

\* The settlements between their read of the escrow and its pause or refund.
Settling == {s \in Settler : pc[s] \in {"read", "advanced", "settled"}}

\* The auth service takes this key for one that it has already charged.
Spent(key) == \E c \in charges : c.key = key

Charge(key, from, to) == [key |-> key, from |-> from, to |-> to]

\* computeDebit: a key is charged once, whatever it is sent with later.
Debited(c) == IF Spent(c.key) THEN charges ELSE charges \union {c}

-----------------------------------------------------------------------------
(* processAkashEscrows *)

\* The cycle reads every active escrow before it bills the first.
Snapshot ==
  /\ cycle = "idle"
  /\ escrow = "ACTIVE"
  /\ deployment = "ACTIVE"
  /\ cycle' = "read"
  /\ bill' = [NoBill EXCEPT !.from = lastBilled]
  /\ disturbed' = (disturbed \/ Settling # {})
  /\ UNCHANGED <<now, books, charges, owed, settling, irregular>>

\* Whole hours since the last bill, under the key of this hour.
Bill ==
  /\ cycle = "read"
  /\ now - bill.from >= TicksPerHour
  /\ cycle' = "sent"
  /\ bill' = [bill EXCEPT !.at = now,
                          !.hours = Hour(now - bill.from),
                          !.key = <<"hourly", Hour(now)>>]
  /\ disturbed' = (disturbed \/ Spent(bill'.key))
  /\ UNCHANGED <<now, books, charges, owed, settling, irregular>>

\* A forced cycle bills an hour at least.
BillForced ==
  /\ cycle = "read"
  /\ irregular < MaxIrregular
  /\ cycle' = "sent"
  /\ bill' = [bill EXCEPT !.at = now,
                          !.hours = Larger(1, Hour(now - bill.from)),
                          !.key = <<"force", Hour(now)>>]
  /\ irregular' = irregular + 1
  /\ disturbed' = TRUE
  /\ UNCHANGED <<now, books, charges, owed, settling>>

TooSoon ==
  /\ cycle = "read"
  /\ now - bill.from < TicksPerHour
  /\ cycle' = "idle"
  /\ bill' = NoBill
  /\ UNCHANGED <<now, books, charges, owed, settling, irregular, disturbed>>

BilledTo == bill.from + bill.hours * TicksPerHour

AuthDebit ==
  /\ cycle = "sent"
  /\ cycle' = "debited"
  /\ charges' = Debited(Charge(bill.key, bill.from, BilledTo))
  /\ UNCHANGED <<now, books, owed, bill, settling, irregular, disturbed>>

\* The wallet cannot pay: this cycle gives the escrow up.
AuthRefuse ==
  /\ cycle = "sent"
  /\ cycle' = "idle"
  /\ bill' = NoBill
  /\ UNCHANGED <<now, books, charges, owed, settling, irregular, disturbed>>

\* Mutant: the watermark moves to the time of the bill.
MirrorToNow ==
  /\ cycle = "debited"
  /\ lastBilled' = bill.at
  /\ cycle' = "idle"
  /\ bill' = NoBill
  /\ UNCHANGED <<now, escrow, deployment, charges, owed, settling, irregular, disturbed>>

\* Mutant: the watermark is not held back to the time of the bill.
MirrorUncapped ==
  /\ cycle = "debited"
  /\ lastBilled' = BilledTo
  /\ cycle' = "idle"
  /\ bill' = NoBill
  /\ UNCHANGED <<now, escrow, deployment, charges, owed, settling, irregular, disturbed>>

\* The watermark moves by the hours billed, idempotency hit or not.
Mirror ==
  /\ cycle = "debited"
  /\ lastBilled' = Smaller(bill.at, BilledTo)
  /\ cycle' = "idle"
  /\ bill' = NoBill
  /\ UNCHANGED <<now, escrow, deployment, charges, owed, settling, irregular, disturbed>>

\* The process dies, or the answer or the update is lost.
CycleBreaks ==
  /\ irregular < MaxIrregular
  /\ cycle # "idle"
  /\ cycle' = "idle"
  /\ bill' = NoBill
  /\ irregular' = irregular + 1
  /\ disturbed' = TRUE
  /\ UNCHANGED <<now, books, charges, owed, settling>>

-----------------------------------------------------------------------------
(* Ending the deployment, and settleAkashEscrowToTime *)

\* closedAt is taken before the chain is asked.
Stop(s) ==
  /\ pc[s] = "idle"
  /\ deployment = "ACTIVE"
  /\ pc' = [pc EXCEPT ![s] = "closing"]
  /\ stoppedAt' = [stoppedAt EXCEPT ![s] = now]
  /\ UNCHANGED <<now, books, charges, owed, cycle, bill, readAt, irregular, disturbed>>

\* The billing scheduler gives the stop up: the chain refuses the close, or the
\* row has moved on.
Refused(s) ==
  /\ pc[s] = "closing"
  /\ pc' = [pc EXCEPT ![s] = "refused"]
  /\ stoppedAt' = [stoppedAt EXCEPT ![s] = 0]
  /\ UNCHANGED <<now, books, charges, owed, cycle, bill, readAt, irregular, disturbed>>

\* Mutant: the escrow is paused before it is settled.
MarkAndPause(s) ==
  /\ pc[s] = "closing"
  /\ deployment' = "CLOSED"
  /\ escrow' = "PAUSED"
  /\ pc' = [pc EXCEPT ![s] = "marked"]
  /\ UNCHANGED <<now, lastBilled, charges, owed, cycle, bill, stoppedAt, readAt,
                 irregular, disturbed>>

\* The user's close writes CLOSED whatever the row says by then; the billing
\* scheduler and the health monitor move a row that is still ACTIVE.
Mark(s) ==
  /\ pc[s] = "closing"
  /\ \/ deployment' = "CLOSED"
     \/ deployment = "ACTIVE" /\ deployment' = "SUSPENDED"
  /\ pc' = [pc EXCEPT ![s] = "marked"]
  /\ UNCHANGED <<now, lastBilled, escrow, charges, owed, cycle, bill, stoppedAt, readAt,
                 irregular, disturbed>>

\* Nothing is settled once the escrow is paused or refunded.
SettleRead(s) ==
  /\ pc[s] = "marked"
  /\ IF escrow = "ACTIVE"
       THEN /\ readAt' = [readAt EXCEPT ![s] = lastBilled]
            /\ pc' = [pc EXCEPT ![s] = "read"]
       ELSE /\ pc' = [pc EXCEPT ![s] = "settled"]
            /\ UNCHANGED readAt
  /\ disturbed' = (disturbed \/ cycle # "idle" \/ Settling # {})
  /\ UNCHANGED <<now, books, charges, owed, cycle, bill, stoppedAt, irregular>>

\* What is charged for ends with the runtime, or with the floor.
ChargeableTo(s) == Larger(stoppedAt[s], Created + Floor)

\* Mutant: what is left to charge for is not compared with zero.
SettleWriteAnyway(s) ==
  /\ pc[s] = "read"
  /\ lastBilled' = stoppedAt[s]
  /\ pc' = [pc EXCEPT ![s] = "advanced"]
  /\ UNCHANGED <<now, escrow, deployment, charges, owed, cycle, bill, stoppedAt, readAt,
                 irregular, disturbed>>

\* The watermark moves first, to the moment the deployment stopped.
SettleWrite(s) ==
  /\ pc[s] = "read"
  /\ IF ChargeableTo(s) > readAt[s]
       THEN /\ lastBilled' = stoppedAt[s]
            /\ pc' = [pc EXCEPT ![s] = "advanced"]
            /\ UNCHANGED readAt
       ELSE /\ pc' = [pc EXCEPT ![s] = "settled"]
            /\ readAt' = [readAt EXCEPT ![s] = 0]
            /\ UNCHANGED lastBilled
  /\ UNCHANGED <<now, escrow, deployment, charges, owed, cycle, bill, stoppedAt,
                 irregular, disturbed>>

\* settleViaLedger announces the charge; a row under the same key stands.
Announce(s) ==
  /\ pc[s] = "advanced"
  /\ LET c == Charge(<<"final", stoppedAt[s]>>, readAt[s], ChargeableTo(s))
     IN owed' = IF \E d \in charges \union owed : d.key = c.key THEN owed
                ELSE owed \union {c}
  /\ pc' = [pc EXCEPT ![s] = "settled"]
  /\ readAt' = [readAt EXCEPT ![s] = 0]
  /\ UNCHANGED <<now, books, charges, cycle, bill, stoppedAt, irregular, disturbed>>

LedgerDebit ==
  /\ \E c \in owed : /\ charges' = Debited(c)
                     /\ owed' = owed \ {c}
  /\ UNCHANGED <<now, books, cycle, bill, settling, irregular, disturbed>>

\* refundEscrow, or pauseEscrow.
Finish(s) ==
  /\ pc[s] = "settled"
  /\ \/ escrow' = "REFUNDED"
     \/ escrow' = IF escrow = "ACTIVE" THEN "PAUSED" ELSE escrow
  /\ pc' = [pc EXCEPT ![s] = "done"]
  /\ UNCHANGED <<now, lastBilled, deployment, charges, owed, cycle, bill, stoppedAt, readAt,
                 irregular, disturbed>>

SettlerBreaks(s) ==
  /\ irregular < MaxIrregular
  /\ pc[s] \notin {"idle", "refused", "done"}
  /\ pc' = [pc EXCEPT ![s] = "refused"]
  /\ stoppedAt' = [stoppedAt EXCEPT ![s] = 0]
  /\ readAt' = [readAt EXCEPT ![s] = 0]
  /\ irregular' = irregular + 1
  /\ disturbed' = TRUE
  /\ UNCHANGED <<now, books, charges, owed, cycle, bill>>

-----------------------------------------------------------------------------

Cycling ==
  Bill \/ BillForced \/ TooSoon \/ AuthDebit \/ AuthRefuse \/ Mirror \/ CycleBreaks

Ending(s) ==
  \/ Refused(s) \/ Mark(s) \/ SettleRead(s) \/ SettleWrite(s)
  \/ Announce(s) \/ Finish(s) \/ SettlerBreaks(s)

Next ==
  \/ Tick
  \/ Snapshot
  \/ Cycling
  \/ \E s \in Settler : Stop(s) \/ Ending(s)
  \/ LedgerDebit

Spec == Init /\ [][Next]_vars

\* A job that has begun goes on, and the ledger debits what it announced.
FairSpec ==
  /\ Spec
  /\ WF_vars(Cycling)
  /\ \A s \in Settler : WF_vars(Ending(s))
  /\ WF_vars(LedgerDebit)

-----------------------------------------------------------------------------
(* Properties *)

Time == 0..(MaxTime + TicksPerHour + Floor)
Charged == {c \in [key : {"hourly", "force", "final"} \X Time, from : Time, to : Time] :
              c.from < c.to}

TypeOK ==
  /\ now \in Created..MaxTime
  /\ lastBilled \in Time
  /\ escrow \in {"ACTIVE", "PAUSED", "REFUNDED"}
  /\ deployment \in {"ACTIVE", "SUSPENDED", "CLOSED"}
  /\ charges \subseteq Charged
  /\ owed \subseteq Charged
  /\ cycle \in {"idle", "read", "sent", "debited"}
  /\ bill \in [from : Time, at : Time, hours : Time,
               key : {"hourly", "force", "none"} \X Time]
  /\ pc \in [Settler -> {"idle", "closing", "refused", "marked", "read", "advanced",
                         "settled", "done"}]
  /\ stoppedAt \in [Settler -> Time]
  /\ readAt \in [Settler -> Time]
  /\ irregular \in 0..MaxIrregular
  /\ disturbed \in BOOLEAN

PaysFor(c, t) == c.from <= t /\ t < c.to
Bills == charges \union owed

\* The end of what is billed: the watermark, or the floor once it was applied.
BilledUntil ==
  IF \E c \in Bills : c.key[1] = "final" THEN Larger(lastBilled, Created + Floor)
  ELSE lastBilled

\* The fraction of an hour that a cycle leaves is billed by a later cycle or by
\* the settlement: as long as no process failed, no cycle was forced, no hour
\* saw two bills and no settlement ran into a cycle or another, every tick up
\* to the watermark is billed by one charge and no tick beyond it by any.
BilledExactlyOnce ==
  ~disturbed /\ cycle = "idle" /\ Settling = {} =>
    \A t \in Time :
      Cardinality({c \in Bills : PaysFor(c, t)}) =
        IF Created <= t /\ t < BilledUntil THEN 1 ELSE 0

\* The watermark never lies in the future, whatever is forced or overlaps: the
\* next cycle would be skipped in silence.
NotBilledAhead == lastBilled <= now

\* A deployment that ended is charged for up to the moment that it stopped,
\* the earliest one if several jobs ended it.
Ended == {s \in Settler : pc[s] \in {"marked", "read", "advanced", "settled", "done"}}
EndedIsCharged ==
  \A s \in Settler :
    pc[s] = "marked" ~>
      \/ disturbed
      \/ \E e \in Ended : \A t \in Created..(stoppedAt[e] - 1) :
           \E c \in charges : PaysFor(c, t)

\* What the comment on the mirror says: the next cycle does not charge again,
\* under a fresh key, for hours that the auth service has already debited.
HoursChargedOnce ==
  \A c, d \in charges :
    c # d /\ c.key[1] = "hourly" /\ d.key[1] = "hourly" => c.to <= d.from \/ d.to <= c.from
=============================================================================

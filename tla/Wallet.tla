------------------------------- MODULE Wallet -------------------------------
(***************************************************************************)
(* Transactions from the one Akash wallet (services/akash/walletMutex.ts): *)
(* a queue in each process, a Postgres advisory lock around the command,   *)
(* a delay after it; and two kinds of callers, the price probes and        *)
(* provider checks, which create a deployment and close it again, and any  *)
(* other transaction.  The chain accepts a transaction if it carries the   *)
(* account's next sequence number.                                         *)
(***************************************************************************)
EXTENDS Naturals, Sequences

CONSTANTS Probes,       \* callers that create and close (gpuBidProbe, providerVerification)
          Others,       \* callers of one transaction, by execAsync
          Pods,         \* processes
          pod,          \* the process of each caller
          NoOne,        \* nobody holds the lock
          TxRetries,    \* TX_RETRIES
          LongSettle,   \* whether TX_SETTLE_DELAY_MS outlasts a block
          MaxSlips      \* bound: failures of the lock and of the command

Callers == Probes \cup Others

VARIABLES
  queue,    \* walletMutex's chain of promises, per process
  lock,     \* who holds the advisory lock
  call,     \* what each caller is doing
  mempool,  \* some accepted transaction is in no block yet
  open,     \* deployments of each probe on the chain
  refused,  \* a sequence number was not the next one
  slips     \* failures so far

wvars == <<queue, lock, call, mempool, open, refused, slips>>

Pcs == {"ready", "queued", "lock", "read", "cast", "back", "threw", "settle", "answer",
        "sleep", "done"}
Fresh(c) == [pc |-> "ready", op |-> IF c \in Probes THEN "create" ELSE "other", try |-> 1,
             fresh |-> FALSE, got |-> "none", again |-> FALSE]

TypeOK ==
  /\ queue \in [Pods -> Seq(Callers)]
  /\ lock \in Callers \cup {NoOne}
  /\ call \in [Callers -> [pc : Pcs, op : {"create", "close", "other"}, try : 1..TxRetries,
                           fresh : BOOLEAN, got : {"none", "ok", "mismatch", "error"}, again : BOOLEAN]]
  /\ mempool \in BOOLEAN
  /\ open \in [Probes -> 0 .. 2 * TxRetries]    \* each attempt runs the command once or twice
  /\ refused \in BOOLEAN /\ slips \in 0..MaxSlips

Init ==
  /\ queue = [p \in Pods |-> <<>>] /\ lock = NoOne
  /\ call = [c \in Callers |-> Fresh(c)]
  /\ mempool = FALSE /\ open = [p \in Probes |-> 0]
  /\ refused = FALSE /\ slips = 0

Go(c, pc) == call' = [call EXCEPT ![c].pc = pc]
At(c, pc) == call[c].pc = pc
Slip == slips < MaxSlips /\ slips' = slips + 1
Freed(c) == IF lock = c THEN NoOne ELSE lock

-----------------------------------------------------------------------------
(* withWalletLock. *)
Call(c) ==
  /\ At(c, "ready")
  /\ queue' = [queue EXCEPT ![pod[c]] = Append(@, c)]
  /\ call' = [call EXCEPT ![c].pc = "queued", ![c].again = FALSE]
  /\ UNCHANGED <<lock, mempool, open, refused, slips>>

MyTurn(c) ==
  /\ At(c, "queued") /\ Head(queue[pod[c]]) = c
  /\ Go(c, "lock")
  /\ UNCHANGED <<queue, lock, mempool, open, refused, slips>>

\* withChainAdvisoryLock: pg_advisory_xact_lock in a transaction of its own.
Locked(c) ==
  /\ At(c, "lock") /\ lock = NoOne
  /\ lock' = c /\ Go(c, "read")
  /\ UNCHANGED <<queue, mempool, open, refused, slips>>

\* It cannot be had, or not in time: the command runs without it.
LockFails(c) ==
  /\ At(c, "lock") /\ Slip
  /\ call' = [call EXCEPT ![c].pc = "read", ![c].again = TRUE]
  /\ UNCHANGED <<queue, lock, mempool, open, refused>>

\* The transaction times out around a running command: others get the lock.
LockExpires(c) ==
  /\ lock = c /\ Slip
  /\ lock' = NoOne
  /\ UNCHANGED <<queue, call, mempool, open, refused>>

\* The command reads the sequence number, as of the last block, and broadcasts.
\* What it read is fresh if nothing has been accepted that is not in that block.
ReadSequence(c) ==
  /\ At(c, "read")
  /\ call' = [call EXCEPT ![c].pc = "cast", ![c].fresh = ~mempool]
  /\ UNCHANGED <<queue, lock, mempool, open, refused, slips>>

Effect(c) == CASE call[c].op = "create" -> [open EXCEPT ![c] = @ + 1]
               [] call[c].op = "close"  -> [open EXCEPT ![c] = IF @ = 0 THEN 0 ELSE @ - 1]
               [] OTHER -> open

\* What the others have read is not fresh any more.
Accept(c, pc, got) ==
  /\ mempool' = TRUE /\ open' = Effect(c)
  /\ call' = [d \in Callers |->
                IF d = c THEN [call[c] EXCEPT !.pc = pc, !.got = got, !.fresh = FALSE]
                ELSE [call[d] EXCEPT !.fresh = @ /\ call[d].pc # "cast"]]

\* Code 32 is an answer, not an error: the command exits with 0.
Broadcast(c) ==
  /\ At(c, "cast")
  /\ \/ call[c].fresh /\ Accept(c, "back", "ok") /\ UNCHANGED refused
     \/ /\ ~call[c].fresh /\ refused' = TRUE /\ UNCHANGED <<mempool, open>>
        /\ call' = [call EXCEPT ![c].pc = "back", ![c].got = "mismatch"]
  /\ UNCHANGED <<queue, lock, slips>>

\* The command times out, or exits with an error, before the broadcast or
\* after it.  execAsync rejects; the probes' execCli returns the exit code.
CommandFails(c) ==
  /\ At(c, "cast") /\ Slip
  /\ LET pc == IF c \in Others THEN "threw" ELSE "back"
     IN  \/ call' = [call EXCEPT ![c].pc = pc, ![c].got = "error"] /\ UNCHANGED <<mempool, open>>
         \/ call[c].fresh /\ Accept(c, pc, "error")
  /\ UNCHANGED <<queue, lock, refused>>

\* The lock's transaction commits, or turns out to have expired; then, and
\* when the command threw in it, the catch runs the command once more.
Return(c) ==
  /\ At(c, "back") /\ (lock = c \/ call[c].again)
  /\ lock' = Freed(c) /\ Go(c, "settle")
  /\ UNCHANGED <<queue, mempool, open, refused, slips>>

RunAgain(c) ==
  /\ ~call[c].again
  /\ At(c, "threw") \/ (At(c, "back") /\ lock # c)
  /\ lock' = Freed(c)
  /\ call' = [call EXCEPT ![c].pc = "read", ![c].again = TRUE]
  /\ UNCHANGED <<queue, mempool, open, refused, slips>>

ThrewTwice(c) ==
  /\ At(c, "threw") /\ call[c].again
  /\ Go(c, "settle")
  /\ UNCHANGED <<queue, lock, mempool, open, refused, slips>>

\* The delay is over: the queue moves on.
Settled(c) ==
  /\ At(c, "settle") /\ (LongSettle => ~mempool)
  /\ queue' = [queue EXCEPT ![pod[c]] = Tail(@)]
  /\ Go(c, "answer")
  /\ UNCHANGED <<lock, mempool, open, refused, slips>>

\* All that was accepted is committed; who sleeps may go on.
Block ==
  /\ mempool /\ mempool' = FALSE
  /\ call' = [c \in Callers |-> [call[c] EXCEPT !.fresh = @ \/ call[c].pc = "sleep"]]
  /\ UNCHANGED <<queue, lock, open, refused, slips>>

-----------------------------------------------------------------------------
(* The callers. *)
\* Mutant: a close that exits with 0 is taken for closed, whatever its code.
RetriableIfThrown(c) == call[c].got = "mismatch" /\ call[c].op = "create"

Retriable(c) == \/ call[c].got = "mismatch"
                \/ call[c].got = "error" /\ call[c].op = "close"

\* Mutant: off by one.
TryAgainLate(c) ==
  /\ At(c, "answer") /\ c \in Probes /\ Retriable(c) /\ call[c].try <= TxRetries
  /\ call' = [call EXCEPT ![c].pc = "sleep", ![c].try = @ + 1, ![c].fresh = ~mempool]
  /\ UNCHANGED <<queue, lock, mempool, open, refused, slips>>

\* Eight seconds until the next attempt.
TryAgain(c) ==
  /\ At(c, "answer") /\ c \in Probes /\ Retriable(c) /\ call[c].try < TxRetries
  /\ call' = [call EXCEPT ![c].pc = "sleep", ![c].try = @ + 1, ![c].fresh = ~mempool]
  /\ UNCHANGED <<queue, lock, mempool, open, refused, slips>>

\* A block takes less than any of these waits.
Wake(c) ==
  /\ At(c, "sleep") /\ call[c].fresh
  /\ Go(c, "ready")
  /\ UNCHANGED <<queue, lock, mempool, open, refused, slips>>

\* The deployment is known: bids are polled for more than a block, and it is
\* closed (finally).
Created(c) ==
  /\ At(c, "answer") /\ call[c].op = "create" /\ call[c].got = "ok"
  /\ call' = [call EXCEPT ![c] = [Fresh(c) EXCEPT !.op = "close", !.pc = "sleep", !.fresh = ~mempool]]
  /\ UNCHANGED <<queue, lock, mempool, open, refused, slips>>

\* The answer and three queries by hash hold no dseq: the probe returns.
DseqUnknown(c) ==
  /\ At(c, "answer") /\ call[c].op = "create" /\ call[c].got = "ok" /\ Slip
  /\ Go(c, "done")
  /\ UNCHANGED <<queue, lock, mempool, open, refused>>

\* It is closed, or left to the sweep of orphans; others are done in any case.
End(c) ==
  /\ At(c, "answer")
  /\ c \in Probes /\ call[c].got = "ok" => call[c].op = "close"
  /\ c \in Probes /\ Retriable(c) => call[c].try = TxRetries
  /\ Go(c, "done")
  /\ UNCHANGED <<queue, lock, mempool, open, refused, slips>>

Step(c) == \/ Call(c) \/ MyTurn(c) \/ Locked(c) \/ ReadSequence(c) \/ Broadcast(c) \/ Return(c)
           \/ RunAgain(c) \/ ThrewTwice(c) \/ Settled(c)
           \/ TryAgain(c) \/ Wake(c) \/ Created(c) \/ End(c)

Next ==
  \/ Block
  \/ \E c \in Callers : Step(c) \/ LockFails(c) \/ LockExpires(c) \/ CommandFails(c) \/ DseqUnknown(c)

Spec == Init /\ [][Next]_wvars

-----------------------------------------------------------------------------
(* Properties. *)

\* The chain refused a probe's last attempt to close what it opened.
GaveUp(c) == call[c].op = "close" /\ call[c].try = TxRetries /\ call[c].got = "mismatch"

\* A probe leaves a deployment behind only after failures, or when the chain
\* refused TX_RETRIES closes of it for their sequence numbers.
ProbesCloseWhatTheyOpen ==
  \A c \in Probes : At(c, "done") /\ slips = 0 /\ ~GaveUp(c) => open[c] = 0

\* As long as a caller has not returned, some caller's step, or the next block,
\* is possible, whatever failed before, the lock included.  No caller takes
\* infinitely many steps: all of them return.
QueueMoves == (\A c \in Callers : At(c, "done")) \/ ENABLED (Block \/ \E c \in Callers : Step(c))

\* walletMutex.ts:112: the advisory lock is there "so chain TX serialization
\* holds across replicas".  With no failure, and a delay that outlasts a block,
\* no transaction is refused for its sequence number.
SerializedAcrossReplicas == slips = 0 => ~refused
=============================================================================

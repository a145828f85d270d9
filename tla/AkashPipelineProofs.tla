------------------------ MODULE AkashPipelineProofs ------------------------
(***************************************************************************)
(* What AkashPipeline keeps true of its rows and deposits, for any number  *)
(* of handlers, retries, polls and faults.  Neither RetriesDoNotMultiply   *)
(* nor OneDeposit is inductive: a second row of a retry, or a second       *)
(* deposit, is on its way long before it is there.  The invariant counts   *)
(* what is on its way as well.                                             *)
(*                                                                         *)
(* An activity is a message to be delivered or a handler at work.          *)
(* Retries: the rows of retry k + 1, and the activities whose row has had  *)
(* at most k retries and which may still lead to one, are at most one and  *)
(* one for each fault.                                                     *)
(* Deposits: an activity holds at most one deployment, the one that it or  *)
(* its successor closes when the row fails; a deployment that none holds   *)
(* is loose.  Activities, those that are about to create a deployment once *)
(* more, and loose deployments, less the rows that have yet to get one,    *)
(* are at most one and two for each fault.                                 *)
(*                                                                         *)
(* A step of a handler changes one handler and one message, so that each   *)
(* action is shown to be of one of five kinds (Moves, Leaves, Ends, Drops, *)
(* Takes), and each kind to pay for what it adds; SaveDseq and Spawn, which*)
(* change what is counted, are weighed on their own.                       *)
(*                                                                         *)
(* EndedRowsRest: a row that has ended may be revived only by somebody who *)
(* is already at work on it.  Rests says so of the handlers, the sweeper   *)
(* and the monitor, and is kept by every step.                             *)
(***************************************************************************)
EXTENDS AkashPipeline, FiniteSetTheorems, TLAPS

\* The flags' set, by a name that keeps it out of the arithmetic prover's way.
Flags == BOOLEAN
States == {"none", "open", "leased", "closed"}
Note == [step : Step, at : Attempt, poll : 1..MaxPolls, final : Flags]
Job == [pc : Pc, msg : Note, at : Attempt, dseq : 0..MaxDseq, next : Note]
Sibling == [at : Attempt, dseq : 0..MaxDseq]
Mutation == [pc : {"close", "mark", "siblings", "next"}, at : Attempt, dseq : 0..MaxDseq,
             todo : SUBSET Sibling]
Sweep == [pc : {"close", "mark"}, at : Attempt, saw : Status, dseq : 0..MaxDseq, ok : Flags]
Pass == [pc : {"close", "sync"}, at : 0..MaxRows, dseq : 0..MaxDseq, gone : Flags, ok : Flags]

Typed ==
  /\ row \in [Attempt -> Row]
  /\ chain \in [0..MaxDseq -> States] /\ chain[0] = "none"
  /\ queue \subseteq Note /\ IsFiniteSet(queue)
  /\ worker \in [Worker -> Job \cup {Idle}]
  /\ user \in Mutation \cup {Idle} /\ sweeper \in Sweep \cup {Idle} /\ monitor \in Pass \cup {Idle}
  /\ stopped \in Flags /\ redeployed \in Flags
  /\ faults \in 0..MaxFaults

-----------------------------------------------------------------------------
(* Handlers and what they work on. *)

\* The stages of HANDLE_FAILURE, those after which a retry follows, and those of a
\* step that may poll on.
Failing == {"fail_row", "retry", "reclaim", "give_up", "spawn", "bury"}
Retrying == {"retry", "reclaim", "spawn"}
Polling == {"bids", "select", "choose", "poll"}
WritingOff == {"abandon", "write_off"}
PhaseOK(j) ==
  /\ j.pc \in Failing => j.msg.step = "HANDLE_FAILURE"
  /\ j.msg.step = "HANDLE_FAILURE" => j.pc \in Failing \cup WritingOff \cup {"publish"}
  /\ j.pc \in Polling => j.msg.step # "SUBMIT_TX"
  /\ j.pc \notin WritingOff => j.msg.at = j.at
  /\ j.pc = "publish" =>
       IF j.msg.step = "HANDLE_FAILURE" THEN j.next.step = "SUBMIT_TX"
       ELSE j.next.at = j.at /\ j.next.step # "SUBMIT_TX"

\* A handler works on a row that exists, under a dseq that the chain gave.
JobOK(j) ==
  /\ Exists(j.at) /\ Exists(j.msg.at) /\ Exists(j.next.at)
  /\ j.dseq # 0 => chain[j.dseq] # "none"
  /\ j.pc \in Retrying => row[j.at].tries < MaxRetry
  /\ PhaseOK(j)

RowOK(a) ==
  /\ Exists(a) /\ row[a].tries = 0 => a = 1
  /\ row[a].dseq # 0 => chain[row[a].dseq] # "none"

UserOK == user # Idle => Exists(user.at) /\ \A t \in user.todo : Exists(t.at)
SweeperOK == sweeper # Idle => Exists(sweeper.at)
MonitorOK == monitor # Idle /\ monitor.at # 0 => Exists(monitor.at)

Busy == {w \in Worker : worker[w] # Idle}
Refs ==
  /\ \A a \in Attempt : RowOK(a)
  /\ \A m \in queue : Exists(m.at)
  /\ \A w \in Busy : JobOK(worker[w])
  /\ UserOK /\ SweeperOK /\ MonitorOK

-----------------------------------------------------------------------------
(* Activities: a message that is to be delivered, or a handler at work. *)

\* The row that a handler leads to, whether it is to create a deployment for it,
\* and the deployment that it, or its successor, is to close when the row fails.
Target(j) == IF j.pc = "publish" THEN j.next.at ELSE j.at
Submits(j) == \/ j.pc \in {"submit", "cancel", "save_dseq"}
              \/ j.pc = "publish" /\ j.next.step = "SUBMIT_TX"
Remembers == {"save_dseq", "fail_row", "retry", "reclaim", "give_up", "bury"}
Holds(j) == IF j.pc \in Remembers THEN j.dseq
            ELSE IF j.pc \in {"idle", "spawn"} \/ Submits(j) THEN 0
            ELSE row[j.at].dseq
Keeps(m) == IF m.step = "SUBMIT_TX" THEN 0 ELSE row[m.at].dseq

\* Rows of a retry, and what may still lead to one.
Retried(k) == {a \in Attempt : Exists(a) /\ row[a].tries = k + 1}
Waiting(k) == {m \in queue : row[m.at].tries <= k}
Working(k) == {w \in Busy : row[Target(worker[w])].tries <= k}
Retries == \A k \in Nat :
  Cardinality(Retried(k)) + Cardinality(Waiting(k)) + Cardinality(Working(k)) <= 1 + faults

\* Deployments that no activity is to close.
Loose == {d \in Dseq : /\ Open(d)
                       /\ \A w \in Worker : Holds(worker[w]) # d
                       /\ \A m \in queue : Keeps(m) # d}
\* Activities that create a deployment, and rows that have none yet and get one.
SubmitMessages == {m \in queue : m.step = "SUBMIT_TX"}
Submitters == {w \in Busy : Submits(worker[w])}
Fresh == {a \in Attempt : /\ row[a].dseq = 0
                          /\ \/ \E m \in SubmitMessages : m.at = a
                             \/ \E w \in Submitters : Target(worker[w]) = a}
Deposits ==
  Cardinality(queue) + Cardinality(Busy) + Cardinality(SubmitMessages) + Cardinality(Submitters)
    + Cardinality(Loose) <= 1 + 2 * faults + Cardinality(Fresh)

IInv == Typed /\ Refs /\ Retries /\ Deposits

-----------------------------------------------------------------------------
(* Types. *)

LEMMA InFlags == TRUE \in Flags /\ FALSE \in Flags
BY Zenon DEF Flags

LEMMA NotesAreMessages == Note = Message
BY Zenon DEF Note, Message, Flags

LEMMA Zeros == 0 \in 0..MaxRetry /\ 0 \in 0..MaxDseq /\ 1 \in 1..MaxPolls /\ 1 \in Attempt
BY PipelineAssumption DEF Attempt

LEMMA IdleIsNoJob == Idle \notin Job /\ Idle.pc = "idle"
BY DEF Idle, Job, Pc

LEMMA BusyJob ==
  ASSUME Typed, NEW w \in Worker
  PROVE  /\ worker[w] \in Job <=> ~At(w, "idle")
         /\ worker[w] = Idle <=> At(w, "idle")
<1>1. worker[w] \in Job \/ worker[w] = Idle
  BY DEF Typed
<1>2. \A j \in Job : j.pc # "idle"
  BY DEF Job, Pc
<1> QED
  BY <1>1, <1>2, IdleIsNoJob, Zenon DEF At

\* What Typed says of messages and handlers, with the records behind names.
LEMMA NoteFields ==
  ASSUME NEW m \in Note
  PROVE  m.step \in Step /\ m.at \in Attempt /\ m.poll \in 1..MaxPolls /\ m.final \in Flags
BY DEF Note

LEMMA JobFields ==
  ASSUME NEW j \in Job
  PROVE  j.pc \in Pc /\ j.msg \in Note /\ j.at \in Attempt /\ j.dseq \in 0..MaxDseq /\ j.next \in Note
BY DEF Job

LEMMA MsgTypes ==
  ASSUME NEW s \in Step, NEW a \in Attempt
  PROVE  Msg(s, a) \in Note /\ Msg(s, a).step = s /\ Msg(s, a).at = a
BY Zeros, InFlags DEF Msg, Note

LEMMA FailureTypes ==
  ASSUME NEW a \in Attempt, NEW f \in Flags
  PROVE  Failure(a, f) \in Note /\ Failure(a, f).step = "HANDLE_FAILURE" /\ Failure(a, f).at = a
<1> DEFINE m == Msg("HANDLE_FAILURE", a)
<1>1. m \in Note /\ m.step = "HANDLE_FAILURE" /\ m.at = a
  BY MsgTypes DEF Step
<1> HIDE DEF m
<1>2. Failure(a, f) = [m EXCEPT !.final = f]
  BY DEF Failure, m
<1> QED
  BY <1>1, <1>2 DEF Note

Again(m) == [m EXCEPT !.poll = @ + 1]
LEMMA AgainTypes ==
  ASSUME NEW m \in Note, m.poll # MaxPolls
  PROVE  Again(m) \in Note /\ Again(m).step = m.step /\ Again(m).at = m.at
<1>1. m.poll + 1 \in 1..MaxPolls
  BY PipelineAssumption DEF Note
<1> QED
  BY <1>1 DEF Note, Again

\* What is done to a handler.
To(j, pc) == [j EXCEPT !.pc = pc]
LEMMA ToTypes ==
  ASSUME NEW j \in Job, NEW pc \in Pc
  PROVE  /\ To(j, pc) \in Job /\ To(j, pc).pc = pc /\ To(j, pc).msg = j.msg /\ To(j, pc).at = j.at
         /\ To(j, pc).dseq = j.dseq /\ To(j, pc).next = j.next
BY DEF Job, To

Sends(j, m) == [j EXCEPT !.pc = "publish", !.next = m]
LEMMA SendsTypes ==
  ASSUME NEW j \in Job, NEW m \in Note
  PROVE  /\ Sends(j, m) \in Job /\ Sends(j, m).pc = "publish" /\ Sends(j, m).msg = j.msg
         /\ Sends(j, m).at = j.at /\ Sends(j, m).dseq = j.dseq /\ Sends(j, m).next = m
BY DEF Job, Sends, Pc

Got(j, d) == [j EXCEPT !.pc = "save_dseq", !.dseq = d]
LEMMA GotTypes ==
  ASSUME NEW j \in Job, NEW d \in 0..MaxDseq
  PROVE  /\ Got(j, d) \in Job /\ Got(j, d).pc = "save_dseq" /\ Got(j, d).msg = j.msg
         /\ Got(j, d).at = j.at /\ Got(j, d).dseq = d /\ Got(j, d).next = j.next
BY DEF Job, Got, Pc

GivesUp(j) == [j EXCEPT !.pc = "abandon", !.at = j.next.at]
LEMMA GivesUpTypes ==
  ASSUME NEW j \in Job
  PROVE  /\ GivesUp(j) \in Job /\ GivesUp(j).pc = "abandon" /\ GivesUp(j).msg = j.msg
         /\ GivesUp(j).at = j.next.at /\ GivesUp(j).dseq = j.dseq /\ GivesUp(j).next = j.next
BY NoteFields DEF Job, GivesUp, Pc

Becomes(w, j) == worker' = [worker EXCEPT ![w] = j]
LEMMA Moved ==
  ASSUME Typed, NEW w \in Worker
  PROVE  /\ \A pc : Goto(w, pc) => Becomes(w, To(worker[w], pc))
         /\ \A m : Publish(w, m) => Becomes(w, Sends(worker[w], m))
         /\ Finish(w) => Becomes(w, Idle)
BY DEF Typed, Goto, Publish, Finish, Becomes, To, Sends

-----------------------------------------------------------------------------
(* Rows do not go and do not change their retries, and the chain takes no dseq back. *)

RowsKept == \A a \in Attempt : Exists(a) => Exists(a)' /\ row'[a].tries = row[a].tries
\* Nor does the step create a row or give one a dseq.
TriesStill == \A a \in Attempt : (Exists(a)' => Exists(a)) /\ row'[a].tries = row[a].tries
DseqsStill == \A a \in Attempt : row'[a].dseq = row[a].dseq
RowsStill == TriesStill /\ DseqsStill
ChainKept == \A d \in 0..MaxDseq : chain[d] # "none" => chain'[d] # "none"
OnlyCloses == \A d \in Dseq : Open(d)' => Open(d)
Steady ==
  /\ row' \in [Attempt -> Row] /\ chain' \in [0..MaxDseq -> States] /\ chain'[0] = "none"
  /\ RowsKept /\ ChainKept

LEMMA Unchanged ==
  ASSUME Typed
  PROVE  /\ UNCHANGED row => row' \in [Attempt -> Row] /\ RowsKept /\ RowsStill
         /\ UNCHANGED chain => chain' \in [0..MaxDseq -> States] /\ chain'[0] = "none" /\ ChainKept /\ OnlyCloses
BY DEF Typed, RowsKept, RowsStill, TriesStill, DseqsStill, ChainKept, OnlyCloses, Exists, Open

LEMMA Writes ==
  ASSUME Typed, NEW a \in Attempt, Exists(a), NEW st \in Status \ {"ABSENT"}, SetStatus(a, st)
  PROVE  row' \in [Attempt -> Row] /\ RowsKept /\ RowsStill
<1>1. row[a] \in Row
  BY DEF Typed
<1> DEFINE new == [row[a] EXCEPT !.status = st]
<1>2. new \in Row /\ new.status = st /\ new.tries = row[a].tries /\ new.dseq = row[a].dseq
  BY <1>1 DEF Row
<1>3. row' = [row EXCEPT ![a] = new]
  BY DEF SetStatus
<1> HIDE DEF new
<1> QED
  BY <1>2, <1>3 DEF Typed, RowsKept, RowsStill, TriesStill, DseqsStill, Exists

LEMMA ClosesTypes ==
  ASSUME Typed, NEW d, Closes(d) \/ Refuses(d)
  PROVE  /\ chain' \in [0..MaxDseq -> States] /\ chain'[0] = "none" /\ ChainKept /\ OnlyCloses
         /\ faults' \in {faults, faults + 1} /\ faults' \in 0..MaxFaults
         /\ faults' = faults /\ d \in Dseq => ~Open(d)'
<1>1. CASE Closes(d)
  <2>1. faults' = faults /\ faults' \in 0..MaxFaults
    BY <1>1 DEF Closes, Typed
  <2>2. CASE d = 0
    <3>1. UNCHANGED chain /\ d \notin Dseq
      BY <1>1, <2>2 DEF Closes, Dseq
    <3> QED
      BY <2>1, <3>1, Unchanged
  <2>3. CASE d # 0
    <3>1. chain' = [chain EXCEPT ![d] = "closed"]
      BY <1>1, <2>3 DEF Closes
    <3>2. chain' \in [0..MaxDseq -> States] /\ chain'[0] = "none"
      BY <2>3, <3>1, Zeros DEF Typed, States
    <3>3. ChainKept
      BY <3>1 DEF Typed, ChainKept
    <3>4. OnlyCloses /\ (d \in Dseq => ~Open(d)')
      <4>1. Dseq \subseteq 0..MaxDseq
        BY PipelineAssumption DEF Dseq
      <4>2. \A e \in Dseq : chain'[e] = (IF e = d THEN "closed" ELSE chain[e])
        BY <3>1, <4>1 DEF Typed
      <4> QED
        BY <4>2 DEF OnlyCloses, Open
    <3> QED
      BY <2>1, <3>2, <3>3, <3>4
  <2> QED
    BY <2>2, <2>3
<1>2. CASE Refuses(d)
  BY <1>2, Unchanged, PipelineAssumption DEF Refuses, Typed, Fault
<1> QED
  BY <1>1, <1>2

LEMMA FaultTypes ==
  ASSUME Typed
  PROVE  /\ Fault => faults' = faults + 1 /\ faults' \in 0..MaxFaults
         /\ UNCHANGED faults => faults' \in 0..MaxFaults
         /\ faults \in Nat
BY PipelineAssumption DEF Typed, Fault

LEMMA JobKept ==
  ASSUME Steady, NEW j \in Job, JobOK(j)
  PROVE  JobOK(j)'
<1>1. /\ j.at \in Attempt /\ j.msg.at \in Attempt /\ j.next.at \in Attempt /\ j.dseq \in 0..MaxDseq
  BY JobFields, NoteFields
<1>2. /\ Exists(j.at)' /\ Exists(j.msg.at)' /\ Exists(j.next.at)'
      /\ row'[j.at].tries = row[j.at].tries /\ (j.dseq # 0 => chain'[j.dseq] # "none")
  BY <1>1 DEF Steady, RowsKept, ChainKept, JobOK
<1> QED
  BY <1>2, Zenon DEF JobOK, PhaseOK

LEMMA RowsStay ==
  ASSUME Typed, Refs, Steady, RowsStill
  PROVE  \A a \in Attempt : RowOK(a)'
<1> TAKE a \in Attempt
<1>1. row[a].dseq \in 0..MaxDseq /\ RowOK(a)
  BY DEF Typed, Row, Refs
<1> QED
  BY <1>1 DEF Steady, RowsStill, TriesStill, DseqsStill, ChainKept, RowOK

LEMMA UserStays ==
  ASSUME Typed, RowsKept, UserOK, UNCHANGED user
  PROVE  UserOK'
<1> SUFFICES ASSUME user # Idle PROVE Exists(user.at)' /\ \A t \in user.todo : Exists(t.at)'
  BY DEF UserOK
<1>1. user.at \in Attempt /\ \A t \in user.todo : t.at \in Attempt
  BY DEF Typed, Mutation, Sibling
<1> QED
  BY <1>1 DEF UserOK, RowsKept

LEMMA SweeperStays ==
  ASSUME Typed, RowsKept, SweeperOK, UNCHANGED sweeper
  PROVE  SweeperOK'
<1>1. sweeper # Idle => sweeper.at \in Attempt
  BY DEF Typed, Sweep
<1> QED
  BY <1>1 DEF SweeperOK, RowsKept

LEMMA MonitorStays ==
  ASSUME Typed, RowsKept, MonitorOK, UNCHANGED monitor
  PROVE  MonitorOK'
<1>1. monitor # Idle => monitor.at \in 0..MaxRows
  BY DEF Typed, Pass
<1>2. monitor # Idle /\ monitor.at # 0 => monitor.at \in Attempt
  BY <1>1, PipelineAssumption DEF Attempt
<1> QED
  BY <1>2 DEF MonitorOK, RowsKept

\* What every step of a handler does: the handler goes on as j, and message m, if any,
\* is taken or published.
Handles(w, j, m) ==
  /\ Steady /\ \A a \in Attempt : RowOK(a)'
  /\ Becomes(w, j) /\ j \in Job \cup {Idle} /\ (j # Idle => JobOK(j)')
  /\ m \in Note /\ Exists(m.at) /\ queue' \in {queue, queue \cup {m}, queue \ {m}}
  /\ faults' \in 0..MaxFaults
  /\ UNCHANGED others

LEMMA HandlerTypes ==
  ASSUME Typed, Refs, NEW w \in Worker, NEW j, NEW m, Handles(w, j, m)
  PROVE  Typed' /\ Refs'
<1>1. queue' \subseteq queue \cup {m} /\ queue' \subseteq Note /\ IsFiniteSet(queue')
  <2>1. queue' \subseteq queue \cup {m} /\ queue' \subseteq Note
    BY Zenon DEF Handles, Typed
  <2>2. IsFiniteSet(queue \cup {m})
    BY FS_AddElement DEF Typed
  <2> QED
    BY <2>1, <2>2, FS_Subset, Zenon
<1>2. worker' \in [Worker -> Job \cup {Idle}] /\ worker'[w] = j /\ \A v \in Worker \ {w} : worker'[v] = worker[v]
  BY DEF Typed, Handles, Becomes
<1>3. Typed'
  BY <1>1, <1>2, Zenon DEF Typed, Handles, Steady, others
<1>4. \A a \in Attempt : RowOK(a)'
  BY DEF Handles
<1>5. ASSUME NEW n \in queue' PROVE Exists(n.at)'
  <2>1. n.at \in Attempt /\ Exists(n.at)
    BY <1>1, NoteFields, Zenon DEF Refs, Handles
  <2> QED
    BY <2>1 DEF Handles, Steady, RowsKept
<1>6. ASSUME NEW v \in Worker, worker'[v] # Idle PROVE JobOK(worker[v])'
  <2>1. PICK i : i = worker'[v]
    OBVIOUS
  <2>2. JobOK(i)'
    <3>1. CASE v = w
      <4>1. i = j /\ j # Idle
        BY <1>2, <1>6, <2>1, <3>1
      <4> QED
        BY <4>1, Zenon DEF Handles
    <3>2. CASE v # w
      <4>1. i = worker[v] /\ v \in Busy /\ i \in Job
        BY <1>2, <1>6, <2>1, <3>2, Zenon DEF Busy, Typed
      <4>2. JobOK(i) /\ Steady
        BY <4>1 DEF Refs, Handles
      <4> QED
        BY <4>1, <4>2, JobKept
    <3> QED
      BY <3>1, <3>2
  <2> QED
    BY <2>1, <2>2, Zenon DEF JobOK, PhaseOK, Exists
<1>7. \A v \in Busy' : JobOK(worker[v])'
  BY <1>6, Zenon DEF Busy
<1>8. UserOK' /\ SweeperOK' /\ MonitorOK'
  BY UserStays, SweeperStays, MonitorStays DEF Refs, Handles, Steady, others
<1> QED
  BY <1>3, <1>4, <1>5, <1>7, <1>8 DEF Refs

-----------------------------------------------------------------------------
(* Counting: a step changes one handler and one message. *)

Ind(p) == IF p THEN 1 ELSE 0

LEMMA Toggle ==
  ASSUME NEW S, NEW T, NEW x, IsFiniteSet(S), S \ {x} = T \ {x}
  PROVE  /\ IsFiniteSet(T) /\ Cardinality(S) \in Nat /\ Cardinality(T) \in Nat
         /\ Cardinality(T) + Ind(x \in S) = Cardinality(S) + Ind(x \in T)
<1>1. CASE x \in S /\ x \notin T
  <2>1. T = S \ {x}
    BY <1>1, Zenon
  <2>2. IsFiniteSet(T) /\ Cardinality(T) = Cardinality(S) - 1
    BY <1>1, <2>1, FS_RemoveElement
  <2> QED
    BY <1>1, <2>2, FS_CardinalityType DEF Ind
<1>2. CASE x \notin S /\ x \in T
  <2>1. T = S \cup {x}
    BY <1>2, Zenon
  <2>2. IsFiniteSet(T) /\ Cardinality(T) = Cardinality(S) + 1
    BY <1>2, <2>1, FS_AddElement
  <2> QED
    BY <1>2, <2>2, FS_CardinalityType DEF Ind
<1>3. CASE (x \in S) <=> (x \in T)
  <2>1. S = T
    <3> SUFFICES ASSUME NEW y PROVE y \in S <=> y \in T
      OBVIOUS
    <3>1. CASE y = x
      BY <1>3, <3>1
    <3>2. CASE y # x
      BY <3>2
    <3> QED
      BY <3>1, <3>2
  <2>2. Ind(x \in S) = Ind(x \in T) /\ Ind(x \in T) \in Nat
    BY <2>1 DEF Ind
  <2>3. Cardinality(S) \in Nat /\ Cardinality(T) = Cardinality(S)
    BY <2>1, FS_CardinalityType
  <2> QED
    BY <2>1, <2>2, <2>3
<1> QED
  BY <1>1, <1>2, <1>3

LEMMA OneMore ==
  ASSUME NEW S, NEW T, NEW x, IsFiniteSet(S), T \subseteq S \cup {x}
  PROVE  /\ Cardinality(S) \in Nat /\ Cardinality(T) \in Nat
         /\ Cardinality(T) <= Cardinality(S) + 1
<1>1. IsFiniteSet(S \cup {x}) /\ Cardinality(S \cup {x}) \in {Cardinality(S), Cardinality(S) + 1}
  <2>1. CASE x \in S
    <3>1. S \cup {x} = S
      BY <2>1
    <3> QED
      BY <3>1
  <2>2. CASE x \notin S
    <3>1. IsFiniteSet(S \cup {x}) /\ Cardinality(S \cup {x}) = Cardinality(S) + 1
      BY <2>2, FS_AddElement
    <3> QED
      BY <3>1
  <2> QED
    BY <2>1, <2>2
<1>2. Cardinality(T) <= Cardinality(S \cup {x}) /\ IsFiniteSet(T)
  BY <1>1, FS_Subset, Zenon
<1> QED
  BY <1>1, <1>2, FS_CardinalityType

LEMMA NoMore ==
  ASSUME NEW S, NEW T, IsFiniteSet(S), T \subseteq S
  PROVE  /\ Cardinality(S) \in Nat /\ Cardinality(T) \in Nat
         /\ Cardinality(T) <= Cardinality(S)
<1>1. IsFiniteSet(T) /\ Cardinality(T) <= Cardinality(S)
  BY FS_Subset, Zenon
<1> QED
  BY <1>1, FS_CardinalityType

LEMMA Finite ==
  ASSUME Typed
  PROVE  /\ IsFiniteSet(queue) /\ IsFiniteSet(Worker) /\ IsFiniteSet(Attempt) /\ IsFiniteSet(Dseq)
<1>1. MaxRows \in Int /\ MaxDseq \in Int /\ 1 \in Int
  BY PipelineAssumption
<1> QED
  BY <1>1, FS_Interval, PipelineAssumption DEF Typed, Attempt, Dseq

LEMMA HandlesIs ==
  ASSUME Typed, Refs, NEW w \in Worker, NEW j, NEW m, Handles(w, j, m)
  PROVE  /\ worker'[w] = j /\ \A v \in Worker \ {w} : worker'[v] = worker[v]
         /\ queue' \ {m} = queue \ {m}
BY Zenon DEF Typed, Handles, Becomes

\* The target of a handler exists, and keeps its retries.
LEMMA Targets ==
  ASSUME Typed, Refs, RowsKept, NEW w \in Busy
  PROVE  /\ worker[w] \in Job /\ JobOK(worker[w]) /\ Target(worker[w]) \in Attempt
         /\ Exists(Target(worker[w]))
         /\ row'[Target(worker[w])].tries = row[Target(worker[w])].tries
<1>1. worker[w] \in Job /\ JobOK(worker[w])
  BY DEF Busy, Typed, Refs
<1>2. Target(worker[w]) \in Attempt /\ Exists(Target(worker[w]))
  BY <1>1, JobFields, NoteFields DEF JobOK, Target
<1> QED
  BY <1>1, <1>2 DEF RowsKept

LEMMA NoteAt ==
  ASSUME Typed, Refs, RowsKept, NEW m \in queue
  PROVE  m \in Note /\ m.at \in Attempt /\ Exists(m.at) /\ row'[m.at].tries = row[m.at].tries
<1>1. m \in Note /\ Exists(m.at)
  BY DEF Typed, Refs
<1>2. m.at \in Attempt
  BY <1>1, NoteFields
<1> QED
  BY <1>1, <1>2 DEF RowsKept

LEMMA RowType ==
  ASSUME Typed, NEW a \in Attempt
  PROVE  row[a] \in Row /\ row[a].tries \in Nat /\ row[a].dseq \in 0..MaxDseq
BY PipelineAssumption DEF Typed, Row

LEMMA WorkingCount ==
  ASSUME Typed, Refs, NEW w \in Worker, NEW j, NEW m, Handles(w, j, m), NEW k \in Nat
  PROVE  /\ Cardinality(Working(k)) \in Nat /\ Cardinality(Working(k)') \in Nat
         /\ Cardinality(Working(k)') + Ind(w \in Working(k)) = Cardinality(Working(k)) + Ind(w \in Working(k)')
<1> DEFINE S == Working(k)
           T == Working(k)'
<1>1. IsFiniteSet(S)
  BY Finite, FS_Subset, Zenon DEF Working, Busy
<1>2. S \ {w} = T \ {w}
  <2> SUFFICES ASSUME NEW v \in Worker \ {w} PROVE v \in S <=> v \in T
    BY DEF Working, Busy
  <2>1. worker'[v] = worker[v]
    BY HandlesIs
  <2>2. RowsKept
    BY DEF Handles, Steady
  <2>3. v \in Busy => row'[Target(worker[v])].tries = row[Target(worker[v])].tries
    BY <2>2, Targets
  <2>4. v \in Busy <=> v \in Busy'
    BY <2>1 DEF Busy
  <2>5. (Target(worker[v]))' = Target(worker[v])
    BY <2>1 DEF Target
  <2> QED
    BY <2>3, <2>4, <2>5, Zenon DEF Working
<1> HIDE DEF S, T
<1>3. Cardinality(S) \in Nat /\ Cardinality(T) \in Nat /\ Cardinality(T) + Ind(w \in S) = Cardinality(S) + Ind(w \in T)
  BY <1>1, <1>2, Toggle
<1> QED
  BY <1>3 DEF S, T

LEMMA WaitingCount ==
  ASSUME Typed, Refs, NEW w \in Worker, NEW j, NEW m, Handles(w, j, m), NEW k \in Nat
  PROVE  /\ Cardinality(Waiting(k)) \in Nat /\ Cardinality(Waiting(k)') \in Nat
         /\ Cardinality(Waiting(k)') + Ind(m \in Waiting(k)) = Cardinality(Waiting(k)) + Ind(m \in Waiting(k)')
<1> DEFINE S == Waiting(k)
           T == Waiting(k)'
<1>1. IsFiniteSet(S)
  BY Finite, FS_Subset, Zenon DEF Waiting
<1>2. S \ {m} = T \ {m}
  <2> SUFFICES ASSUME NEW n, n # m PROVE n \in S <=> n \in T
    OBVIOUS
  <2>1. n \in queue <=> n \in queue'
    BY HandlesIs
  <2>2. RowsKept
    BY DEF Handles, Steady
  <2>3. n \in queue => row'[n.at].tries = row[n.at].tries
    BY <2>2, NoteAt
  <2> QED
    BY <2>1, <2>3, Zenon DEF Waiting
<1> HIDE DEF S, T
<1>3. Cardinality(S) \in Nat /\ Cardinality(T) \in Nat /\ Cardinality(T) + Ind(m \in S) = Cardinality(S) + Ind(m \in T)
  BY <1>1, <1>2, Toggle
<1> QED
  BY <1>3 DEF S, T

\* The step adds an activity to no retry but by a fault.
Pays(w, m, k) ==
  Ind(m \in Waiting(k)') + Ind(w \in Working(k)')
    <= Ind(m \in Waiting(k)) + Ind(w \in Working(k)) + (faults' - faults)

LEMMA IndNat == \A p : Ind(p) \in {0, 1}
BY DEF Ind

LEMMA RetriesKept ==
  ASSUME Typed, Refs, Retries, NEW w \in Worker, NEW j, NEW m, Handles(w, j, m), TriesStill,
         \A k \in Nat : Pays(w, m, k)
  PROVE  Retries'
<1> SUFFICES ASSUME NEW k \in Nat
             PROVE  Cardinality(Retried(k)') + Cardinality(Waiting(k)') + Cardinality(Working(k)') <= 1 + faults'
  BY Zenon DEF Retries
<1>1. Retried(k)' \subseteq Retried(k)
  BY DEF Retried, TriesStill
<1>2. IsFiniteSet(Retried(k))
  BY Finite, FS_Subset, Zenon DEF Retried
<1>3. /\ Cardinality(Retried(k)) \in Nat /\ Cardinality(Retried(k)') \in Nat
      /\ Cardinality(Retried(k)') <= Cardinality(Retried(k))
  BY <1>1, <1>2, NoMore
<1>4. Cardinality(Retried(k)) + Cardinality(Waiting(k)) + Cardinality(Working(k)) <= 1 + faults
  BY DEF Retries
<1>5. faults \in Nat /\ faults' \in Nat
  BY PipelineAssumption DEF Typed, Handles
<1>6. /\ Ind(m \in Waiting(k)') \in Nat /\ Ind(w \in Working(k)') \in Nat
      /\ Ind(m \in Waiting(k)) \in Nat /\ Ind(w \in Working(k)) \in Nat
  BY DEF Ind
<1> QED
  BY <1>3, <1>4, <1>5, <1>6, WorkingCount, WaitingCount DEF Pays

LEMMA QueueCount ==
  ASSUME Typed, Refs, NEW w \in Worker, NEW j, NEW m, Handles(w, j, m)
  PROVE  /\ Cardinality(queue) \in Nat /\ Cardinality(queue') \in Nat
         /\ Cardinality(queue') + Ind(m \in queue) = Cardinality(queue) + Ind(m \in queue')
<1>1. IsFiniteSet(queue)
  BY Finite, FS_Subset, Zenon DEF Busy, Submitters, SubmitMessages
<1>2. queue \ {m} = queue' \ {m}
  BY HandlesIs
<1> QED
  BY <1>1, <1>2, Toggle

LEMMA BusyCount ==
  ASSUME Typed, Refs, NEW w \in Worker, NEW j, NEW m, Handles(w, j, m)
  PROVE  /\ Cardinality(Busy) \in Nat /\ Cardinality(Busy') \in Nat
         /\ Cardinality(Busy') + Ind(w \in Busy) = Cardinality(Busy) + Ind(w \in Busy')
<1>1. IsFiniteSet(Busy)
  BY Finite, FS_Subset, Zenon DEF Busy, Submitters, SubmitMessages
<1>2. Busy \ {w} = Busy' \ {w}
  BY HandlesIs DEF Busy
<1> QED
  BY <1>1, <1>2, Toggle

LEMMA SubmitMessagesCount ==
  ASSUME Typed, Refs, NEW w \in Worker, NEW j, NEW m, Handles(w, j, m)
  PROVE  /\ Cardinality(SubmitMessages) \in Nat /\ Cardinality(SubmitMessages') \in Nat
         /\ Cardinality(SubmitMessages') + Ind(m \in SubmitMessages) = Cardinality(SubmitMessages) + Ind(m \in SubmitMessages')
<1>1. IsFiniteSet(SubmitMessages)
  BY Finite, FS_Subset, Zenon DEF Busy, Submitters, SubmitMessages
<1>2. SubmitMessages \ {m} = SubmitMessages' \ {m}
  BY HandlesIs DEF SubmitMessages
<1> QED
  BY <1>1, <1>2, Toggle

LEMMA SubmittersCount ==
  ASSUME Typed, Refs, NEW w \in Worker, NEW j, NEW m, Handles(w, j, m)
  PROVE  /\ Cardinality(Submitters) \in Nat /\ Cardinality(Submitters') \in Nat
         /\ Cardinality(Submitters') + Ind(w \in Submitters) = Cardinality(Submitters) + Ind(w \in Submitters')
<1>1. IsFiniteSet(Submitters)
  BY Finite, FS_Subset, Zenon DEF Busy, Submitters, SubmitMessages
<1>2. Submitters \ {w} = Submitters' \ {w}
  <2> SUFFICES ASSUME NEW v \in Worker \ {w} PROVE v \in Submitters <=> v \in Submitters'
    BY DEF Submitters, Busy
  <2>1. worker'[v] = worker[v]
    BY HandlesIs
  <2> QED
    BY <2>1, Zenon DEF Submitters, Busy, Submits
<1> QED
  BY <1>1, <1>2, Toggle

\* The potential: activities, those of them that submit, loose deposits, less the rows
\* that are fresh.
Weight(w, m) == Ind(m \in queue) + Ind(w \in Busy) + Ind(m \in SubmitMessages) + Ind(w \in Submitters)

LEMMA DepositsKept ==
  ASSUME Typed, Refs, Deposits, NEW w \in Worker, NEW j, NEW m, Handles(w, j, m),
         NEW l \in Nat, NEW f \in Int,
         Cardinality(Loose') <= Cardinality(Loose) + l,
         Cardinality(Fresh) <= Cardinality(Fresh') + f,
         Weight(w, m)' + l + f <= Weight(w, m) + 2 * (faults' - faults)
  PROVE  Deposits'
<1>1. faults \in Nat /\ faults' \in Nat
  BY PipelineAssumption DEF Typed, Handles
<1>2. /\ Cardinality(Loose) \in Nat /\ Cardinality(Loose') \in Nat
      /\ Cardinality(Fresh) \in Nat /\ Cardinality(Fresh') \in Nat
  <2>1. Loose \subseteq Dseq /\ Loose' \subseteq Dseq /\ Fresh \subseteq Attempt /\ Fresh' \subseteq Attempt
    BY Zenon DEF Loose, Fresh
  <2> QED
    BY <2>1, Finite, NoMore
<1>3. /\ Ind(m \in queue) \in Nat /\ Ind(m \in queue') \in Nat
      /\ Ind(w \in Busy) \in Nat /\ Ind(w \in Busy') \in Nat
      /\ Ind(m \in SubmitMessages) \in Nat /\ Ind(m \in SubmitMessages') \in Nat
      /\ Ind(w \in Submitters) \in Nat /\ Ind(w \in Submitters') \in Nat
  BY DEF Ind
<1>4. /\ Cardinality(queue) \in Nat /\ Cardinality(queue') \in Nat
      /\ Cardinality(queue') + Ind(m \in queue) = Cardinality(queue) + Ind(m \in queue')
  BY QueueCount
<1>5. /\ Cardinality(Busy) \in Nat /\ Cardinality(Busy') \in Nat
      /\ Cardinality(Busy') + Ind(w \in Busy) = Cardinality(Busy) + Ind(w \in Busy')
  BY BusyCount
<1>6. /\ Cardinality(SubmitMessages) \in Nat /\ Cardinality(SubmitMessages') \in Nat
      /\ Cardinality(SubmitMessages') + Ind(m \in SubmitMessages) = Cardinality(SubmitMessages) + Ind(m \in SubmitMessages')
  BY SubmitMessagesCount
<1>7. /\ Cardinality(Submitters) \in Nat /\ Cardinality(Submitters') \in Nat
      /\ Cardinality(Submitters') + Ind(w \in Submitters) = Cardinality(Submitters) + Ind(w \in Submitters')
  BY SubmittersCount
<1>8. Ind(m \in queue') + Ind(w \in Busy') + Ind(m \in SubmitMessages') + Ind(w \in Submitters') + l + f
        <= Ind(m \in queue) + Ind(w \in Busy) + Ind(m \in SubmitMessages) + Ind(w \in Submitters) + 2 * (faults' - faults)
  BY DEF Weight, Ind
<1>9. Cardinality(queue) + Cardinality(Busy) + Cardinality(SubmitMessages) + Cardinality(Submitters)
        + Cardinality(Loose) <= 1 + 2 * faults + Cardinality(Fresh)
  BY Zenon DEF Deposits
<1>10. Cardinality(queue') + Cardinality(Busy') + Cardinality(SubmitMessages') + Cardinality(Submitters')
        + Cardinality(Loose') <= 1 + 2 * faults' + Cardinality(Fresh')
  BY <1>1, <1>2, <1>3, <1>4, <1>5, <1>6, <1>7, <1>8, <1>9
<1> QED
  BY <1>10, Zenon DEF Deposits

Cost(x) == IF x = 0 THEN 0 ELSE 1

\* Every open deposit but x is held after the step, or was loose before it.
Accounted(w, j, m, x) == \A e \in Dseq \ {x} : Open(e)' =>
  \/ e = Holds(j) \/ (m \in queue' /\ e = Keeps(m))
  \/ Open(e) /\ e # Holds(worker[w]) /\ (m \in queue => e # Keeps(m))
\* Every row but a that waits for its deposit still does.
Expected(w, j, m, a) ==
  /\ w \in Submitters /\ Target(worker[w]) # a =>
       \/ Submits(j) /\ Target(j) = Target(worker[w])
       \/ m \in SubmitMessages' /\ m.at = Target(worker[w])
  /\ m \in SubmitMessages /\ m.at # a =>
       \/ m \in SubmitMessages'
       \/ Submits(j) /\ Target(j) = m.at

LEMMA HoldsStill ==
  ASSUME RowsStill
  PROVE  /\ \A j \in Job \cup {Idle} : (Holds(j))' = Holds(j)
         /\ \A m \in Note : (Keeps(m))' = Keeps(m)
<1>1. ASSUME NEW j \in Job \cup {Idle} PROVE (Holds(j))' = Holds(j)
  <2>1. CASE j = Idle
    BY <2>1, IdleIsNoJob DEF Holds, Remembers
  <2>2. CASE j \in Job
    <3>1. row'[j.at].dseq = row[j.at].dseq
      BY <2>2, JobFields DEF RowsStill, TriesStill, DseqsStill
    <3> QED
      BY <3>1, Zenon DEF Holds, Submits
  <2> QED
    BY <2>1, <2>2
<1>2. ASSUME NEW m \in Note PROVE (Keeps(m))' = Keeps(m)
  BY NoteFields, Zenon DEF RowsStill, TriesStill, DseqsStill, Keeps
<1> QED
  BY <1>1, <1>2

LEMMA LooseKept ==
  ASSUME Typed, Refs, NEW w \in Worker, NEW j, NEW m, Handles(w, j, m), RowsStill,
         NEW x \in 0..MaxDseq, Accounted(w, j, m, x)
  PROVE  Cardinality(Loose') <= Cardinality(Loose) + Cost(x) /\ Cost(x) \in Nat
<1>1. Loose' \subseteq Loose \cup {x}
  <2> SUFFICES ASSUME NEW e \in Loose', e # x PROVE e \in Loose
    OBVIOUS
  <2>1. e \in Dseq /\ Open(e)'
    BY Zenon DEF Loose
  <2>2. ASSUME NEW v \in Worker PROVE e # (Holds(worker[v]))'
    BY Zenon DEF Loose
  <2>3. ASSUME NEW n \in queue' PROVE e # (Keeps(n))'
    BY Zenon DEF Loose
  <2>4. j \in Job \cup {Idle} /\ m \in Note /\ worker'[w] = j
    BY HandlesIs DEF Handles
  <2>5. e # Holds(j)
    <3>1. (Holds(worker[w]))' = (Holds(j))'
      BY <2>4, Zenon DEF Holds, Submits
    <3> QED
      BY <3>1, <2>2, <2>4, HoldsStill
  <2>6. m \in queue' => e # Keeps(m)
    BY <2>3, <2>4, HoldsStill
  <2>7. Open(e) /\ e # Holds(worker[w]) /\ (m \in queue => e # Keeps(m))
    BY <2>1, <2>5, <2>6, Zenon DEF Accounted
  <2>8. ASSUME NEW v \in Worker PROVE e # Holds(worker[v])
    <3>1. CASE v = w
      BY <2>7, <3>1
    <3>2. CASE v # w
      <4>1. worker'[v] = worker[v] /\ worker[v] \in Job \cup {Idle}
        BY <3>2, HandlesIs DEF Typed
      <4>2. PICK i : i = worker[v]
        OBVIOUS
      <4>3. (Holds(worker[v]))' = (Holds(i))'
        BY <4>1, <4>2, Zenon DEF Holds, Submits
      <4> QED
        BY <2>2, <4>1, <4>2, <4>3, HoldsStill
    <3> QED
      BY <3>1, <3>2
  <2>9. ASSUME NEW n \in queue PROVE e # Keeps(n)
    <3>1. CASE n = m
      BY <2>7, <3>1
    <3>2. CASE n # m
      <4>1. n \in queue' /\ n \in Note
        BY <3>2, HandlesIs DEF Typed
      <4> QED
        BY <2>3, <4>1, HoldsStill
    <3> QED
      BY <3>1, <3>2
  <2> QED
    BY <2>1, <2>7, <2>8, <2>9, Zenon DEF Loose
<1>2. IsFiniteSet(Loose)
  BY Finite, FS_Subset, Zenon DEF Loose
<1>3. CASE x = 0
  <2>1. Loose' \subseteq Loose
    <3>1. 0 \notin Loose'
      BY DEF Loose, Dseq
    <3> QED
      BY <1>1, <1>3, <3>1
  <2> QED
    BY <1>2, <1>3, <2>1, NoMore DEF Cost
<1>4. CASE x # 0
  BY <1>1, <1>2, <1>4, OneMore DEF Cost
<1> QED
  BY <1>3, <1>4

LEMMA FreshKept ==
  ASSUME Typed, Refs, NEW w \in Worker, NEW j, NEW m, Handles(w, j, m), RowsStill,
         NEW a \in 0..MaxRows, Expected(w, j, m, a)
  PROVE  Cardinality(Fresh) <= Cardinality(Fresh') + Cost(a) /\ Cost(a) \in Nat
<1>0. worker'[w] = j /\ (Submits(j) => j # Idle)
  BY HandlesIs, IdleIsNoJob DEF Submits
<1>1. Fresh \subseteq Fresh' \cup {a}
  <2> SUFFICES ASSUME NEW b \in Fresh, b # a PROVE b \in Fresh'
    OBVIOUS
  <2>1. b \in Attempt /\ row'[b].dseq = 0
    BY DEF Fresh, RowsStill, TriesStill, DseqsStill
  <2>2. Submits(j) /\ Target(j) = b => b \in Fresh'
    <3> SUFFICES ASSUME Submits(j), Target(j) = b PROVE \E v \in Submitters' : (Target(worker[v]))' = b
      BY <2>1, Zenon DEF Fresh
    <3>1. w \in Submitters'
      BY <1>0, Zenon DEF Submitters, Busy, Submits
    <3>2. (Target(worker[w]))' = b
      BY <1>0, Zenon DEF Target
    <3> QED
      BY <3>1, <3>2
  <2>3. m \in SubmitMessages' /\ m.at = b => b \in Fresh'
    BY <2>1, Zenon DEF Fresh
  <2>4. CASE \E n \in SubmitMessages : n.at = b
    <3>1. PICK n \in SubmitMessages : n.at = b
      BY <2>4
    <3>2. CASE n = m
      BY <2>2, <2>3, <3>1, <3>2, Zenon DEF Expected
    <3>3. CASE n # m
      <4>1. n \in SubmitMessages'
        BY <3>1, <3>3, HandlesIs DEF SubmitMessages
      <4> QED
        BY <2>1, <3>1, <4>1, Zenon DEF Fresh
    <3> QED
      BY <3>2, <3>3
  <2>5. CASE \E v \in Submitters : Target(worker[v]) = b
    <3>1. PICK v \in Submitters : Target(worker[v]) = b
      BY <2>5
    <3>2. CASE v = w
      BY <2>2, <2>3, <3>1, <3>2, Zenon DEF Expected
    <3>3. CASE v # w
      <4>1. worker'[v] = worker[v] /\ v \in Worker
        BY <3>1, <3>3, HandlesIs DEF Submitters, Busy
      <4>2. v \in Submitters' /\ (Target(worker[v]))' = b
        BY <3>1, <4>1, Zenon DEF Submitters, Busy, Submits, Target
      <4> QED
        BY <2>1, <4>2, Zenon DEF Fresh
    <3> QED
      BY <3>2, <3>3
  <2> QED
    BY <2>4, <2>5, Zenon DEF Fresh
<1>2. IsFiniteSet(Fresh')
  BY Finite, FS_Subset, Zenon DEF Fresh
<1>3. CASE a = 0
  <2>1. Fresh \subseteq Fresh'
    <3>1. 0 \notin Fresh
      BY DEF Fresh, Attempt
    <3> QED
      BY <1>1, <1>3, <3>1
  <2> QED
    BY <1>2, <1>3, <2>1, NoMore DEF Cost
<1>4. CASE a # 0
  BY <1>1, <1>2, <1>4, OneMore DEF Cost
<1> QED
  BY <1>3, <1>4

LEMMA Balanced ==
  ASSUME IInv, NEW w \in Worker, NEW j, NEW m, Handles(w, j, m), RowsStill,
         NEW x \in 0..MaxDseq, NEW a \in 0..MaxRows, Accounted(w, j, m, x), Expected(w, j, m, a),
         Weight(w, m)' + Cost(x) + Cost(a) <= Weight(w, m) + 2 * (faults' - faults),
         \A k \in Nat : Pays(w, m, k)
  PROVE  IInv'
<1>1. Typed /\ Refs /\ Retries /\ Deposits
  BY DEF IInv
<1>2. Typed' /\ Refs'
  BY <1>1, HandlerTypes
<1>3. Retries'
  BY <1>1, RetriesKept DEF RowsStill
<1>4. /\ Cost(x) \in Nat /\ Cardinality(Loose') <= Cardinality(Loose) + Cost(x)
      /\ Cost(a) \in Nat /\ Cardinality(Fresh) <= Cardinality(Fresh') + Cost(a)
  BY <1>1, LooseKept, FreshKept
<1>5. Deposits'
  BY <1>1, <1>4, DepositsKept
<1> QED
  BY <1>2, <1>3, <1>5 DEF IInv

\* Who is counted, in terms of the handler before and after and of the message.
Low(a, k) == row[a].tries <= k
LEMMA CountedAre ==
  ASSUME Typed, Refs, NEW w \in Worker, NEW j, NEW m, Handles(w, j, m), TriesStill, NEW k \in Nat
  PROVE  /\ w \in Working(k) <=> worker[w] # Idle /\ Low(Target(worker[w]), k)
         /\ w \in Working(k)' <=> j # Idle /\ Low(Target(j), k)
         /\ m \in Waiting(k) <=> m \in queue /\ Low(m.at, k)
         /\ m \in Waiting(k)' <=> m \in queue' /\ Low(m.at, k)
<1>1. worker'[w] = j /\ m.at \in Attempt /\ (j # Idle => j \in Job)
  BY HandlesIs, NoteFields DEF Handles
<1>2. j # Idle => Target(j) \in Attempt
  BY <1>1, JobFields, NoteFields DEF Target
<1>3. row'[m.at].tries = row[m.at].tries /\ (j # Idle => row'[Target(j)].tries = row[Target(j)].tries)
  BY <1>1, <1>2 DEF RowsStill, TriesStill, DseqsStill
<1>4. w \in Working(k)' <=> j # Idle /\ Low(Target(j), k)
  BY <1>1, <1>3, Zenon DEF Working, Busy, Low, Target
<1>5. m \in Waiting(k)' <=> m \in queue' /\ Low(m.at, k)
  BY <1>3, Zenon DEF Waiting, Low
<1>6. w \in Working(k) <=> worker[w] # Idle /\ Low(Target(worker[w]), k)
  BY Zenon DEF Working, Busy, Low
<1>7. m \in Waiting(k) <=> m \in queue /\ Low(m.at, k)
  BY Zenon DEF Waiting, Low
<1> QED
  BY <1>4, <1>5, <1>6, <1>7

LEMMA WeighedAre ==
  ASSUME Typed, Refs, NEW w \in Worker, NEW j, NEW m, Handles(w, j, m)
  PROVE  /\ w \in Busy <=> worker[w] # Idle
         /\ w \in Busy' <=> j # Idle
         /\ w \in Submitters <=> Submits(worker[w])
         /\ w \in Submitters' <=> Submits(j)
         /\ m \in SubmitMessages <=> m \in queue /\ m.step = "SUBMIT_TX"
         /\ m \in SubmitMessages' <=> m \in queue' /\ m.step = "SUBMIT_TX"
<1>1. worker'[w] = j
  BY HandlesIs
<1>2. ~Submits(Idle)
  BY IdleIsNoJob DEF Submits
<1>3. w \in Busy <=> worker[w] # Idle
  BY Zenon DEF Busy
<1>4. w \in Busy' <=> j # Idle
  BY <1>1, Zenon DEF Busy
<1>5. w \in Submitters <=> Submits(worker[w])
  BY <1>2, <1>3, Zenon DEF Submitters
<1>6. w \in Submitters' <=> Submits(j)
  BY <1>1, <1>2, <1>4, Zenon DEF Submitters, Submits
<1>7. /\ m \in SubmitMessages <=> m \in queue /\ m.step = "SUBMIT_TX"
      /\ m \in SubmitMessages' <=> m \in queue' /\ m.step = "SUBMIT_TX"
  BY Zenon DEF SubmitMessages
<1> QED
  BY <1>3, <1>4, <1>5, <1>6, <1>7

\* What the weights are, for the arithmetic.
LEMMA Weights ==
  ASSUME NEW w, NEW m
  PROVE  /\ Weight(w, m)' = Ind(m \in queue') + Ind(w \in Busy') + Ind(m \in SubmitMessages') + Ind(w \in Submitters')
         /\ Weight(w, m) = Ind(m \in queue) + Ind(w \in Busy) + Ind(m \in SubmitMessages) + Ind(w \in Submitters)
BY DEF Weight, Ind

IsSubmit(m) == m.step = "SUBMIT_TX"
\* The same two conditions, of the handler before and after and of the message.
Affords(w, j, m, x, a) ==
  Ind(m \in queue') + Ind(j # Idle) + Ind(m \in queue' /\ IsSubmit(m)) + Ind(Submits(j)) + Cost(x) + Cost(a)
    <= Ind(m \in queue) + Ind(worker[w] # Idle) + Ind(m \in queue /\ IsSubmit(m)) + Ind(Submits(worker[w]))
       + 2 * (faults' - faults)
Owes(w, j, m, k) ==
  Ind(m \in queue' /\ Low(m.at, k)) + Ind(j # Idle /\ Low(Target(j), k))
    <= Ind(m \in queue /\ Low(m.at, k)) + Ind(worker[w] # Idle /\ Low(Target(worker[w]), k)) + (faults' - faults)

LEMMA IndSame ==
  ASSUME NEW p, NEW q, p <=> q
  PROVE  Ind(p) = Ind(q)
BY DEF Ind

LEMMA Balance ==
  ASSUME IInv, NEW w \in Worker, NEW j, NEW m, Handles(w, j, m), RowsStill,
         NEW x \in 0..MaxDseq, NEW a \in 0..MaxRows, Accounted(w, j, m, x), Expected(w, j, m, a),
         Affords(w, j, m, x, a), \A k \in Nat : Owes(w, j, m, k)
  PROVE  IInv'
<1>1. Typed /\ Refs
  BY DEF IInv
<1>2. Weight(w, m)' + Cost(x) + Cost(a) <= Weight(w, m) + 2 * (faults' - faults)
  <2>1. /\ Ind(w \in Busy) = Ind(worker[w] # Idle)
        /\ Ind(w \in Busy') = Ind(j # Idle)
        /\ Ind(w \in Submitters) = Ind(Submits(worker[w]))
        /\ Ind(w \in Submitters') = Ind(Submits(j))
        /\ Ind(m \in SubmitMessages) = Ind(m \in queue /\ IsSubmit(m))
        /\ Ind(m \in SubmitMessages') = Ind(m \in queue' /\ IsSubmit(m))
    BY <1>1, WeighedAre DEF Ind, IsSubmit
  <2>2. /\ Weight(w, m)' = Ind(m \in queue') + Ind(w \in Busy') + Ind(m \in SubmitMessages') + Ind(w \in Submitters')
        /\ Weight(w, m) = Ind(m \in queue) + Ind(w \in Busy) + Ind(m \in SubmitMessages) + Ind(w \in Submitters)
    BY Weights
  <2> QED
    BY <2>1, <2>2 DEF Affords
<1>3. ASSUME NEW k \in Nat PROVE Pays(w, m, k)
  <2>1. /\ Ind(w \in Working(k)) = Ind(worker[w] # Idle /\ Low(Target(worker[w]), k))
        /\ Ind(w \in Working(k)') = Ind(j # Idle /\ Low(Target(j), k))
        /\ Ind(m \in Waiting(k)) = Ind(m \in queue /\ Low(m.at, k))
        /\ Ind(m \in Waiting(k)') = Ind(m \in queue' /\ Low(m.at, k))
    BY <1>1, CountedAre DEF Ind, RowsStill
  <2> QED
    BY <2>1 DEF Pays, Owes
<1>4. \A k \in Nat : Pays(w, m, k)
  BY <1>3
<1> QED
  BY <1>2, <1>4, Balanced, Zenon

-----------------------------------------------------------------------------
(* The kinds of steps that keep the invariant. *)

\* Every open deposit but x is held by j, or was and is held by others.
Held(w, j, x) == \A e \in Dseq \ {x} : Open(e)' => e = Holds(j) \/ (Open(e) /\ e # Holds(worker[w]))

\* The handler goes on; deposit x is left behind by a fault.
Moves(w, j, x) ==
  /\ Handles(w, j, worker[w].msg) /\ RowsStill /\ UNCHANGED queue
  /\ worker[w] \in Job /\ j \in Job
  /\ Target(j) = Target(worker[w]) /\ (Submits(j) => Submits(worker[w]))
  /\ x \in 0..MaxDseq /\ Held(w, j, x) /\ faults' >= faults + Cost(x)

\* Handler i hands on to message m, or was started by it.
Passes(i, m) == Target(i) = m.at /\ (Submits(i) <=> IsSubmit(m)) /\ Holds(i) = Keeps(m)

\* The message has left, although the handler was told that it has not.
Leaves(w, j, m) ==
  /\ Handles(w, j, m) /\ RowsStill /\ OnlyCloses /\ queue' = queue \cup {m}
  /\ worker[w] \in Job /\ j \in Job
  /\ Passes(worker[w], m) /\ Target(j) = Target(worker[w]) /\ ~Submits(j)
  /\ faults' = faults + 1

\* The handler ends with a message.
Ends(w, m) ==
  /\ Handles(w, Idle, m) /\ RowsStill /\ OnlyCloses /\ queue' = queue \cup {m}
  /\ worker[w] \in Job /\ Passes(worker[w], m) /\ faults' >= faults

\* The handler ends without one, or dies.
Drops(w, m) ==
  /\ Handles(w, Idle, m) /\ RowsStill /\ OnlyCloses /\ worker[w] \in Job
  /\ \/ queue' = queue /\ faults' >= faults
     \/ queue' = queue \cup {m} /\ faults' = faults + 1

\* The handler starts with a message, or reads that the row has ended.
Takes(w, j, m) ==
  /\ Handles(w, j, m) /\ RowsStill /\ OnlyCloses /\ worker[w] = Idle /\ m \in queue
  /\ j = Idle \/ (j \in Job /\ Passes(j, m))
  /\ \/ queue' = queue \ {m} /\ faults' >= faults
     \/ queue' = queue /\ faults' = faults + 1

LEMMA MovesKeeps ==
  ASSUME IInv, NEW w \in Worker, NEW j, NEW x, Moves(w, j, x)
  PROVE  IInv'
<1>m. PICK m : m = worker[w].msg
  OBVIOUS
<1>a. PICK a : a = IF Submits(worker[w]) /\ ~Submits(j) THEN Target(worker[w]) ELSE 0
  OBVIOUS
<1>1. Typed /\ Refs /\ Handles(w, j, m) /\ RowsStill
  BY <1>m DEF IInv, Moves
<1>f. faults \in Nat /\ faults' \in Nat
  BY <1>1, PipelineAssumption DEF Typed, Handles
<1>h. Holds(Idle) = 0 /\ ~Submits(Idle) /\ Idle \notin Job
  BY IdleIsNoJob DEF Holds, Submits, Remembers
<1>i. /\ (w \in Submitters <=> Submits(worker[w]))
      /\ (m \in SubmitMessages <=> m \in queue /\ IsSubmit(m))
      /\ (m \in SubmitMessages' <=> m \in queue' /\ IsSubmit(m))
  BY <1>1, WeighedAre DEF IsSubmit
<1>2. /\ worker[w] # Idle /\ j # Idle /\ queue' = queue /\ x \in 0..MaxDseq
      /\ Target(j) = Target(worker[w]) /\ (Submits(j) => Submits(worker[w])) /\ faults' >= faults + Cost(x)
  BY <1>h DEF Moves
<1>3. a \in 0..MaxRows
  <2>1. Target(worker[w]) \in Attempt
    BY JobFields, NoteFields DEF Moves, Target
  <2> QED
    BY <1>a, <2>1, PipelineAssumption DEF Attempt
<1>4. Accounted(w, j, m, x)
  BY <1>2 DEF Moves, Held, Accounted
<1>5. Expected(w, j, m, a)
  BY <1>2, <1>a, <1>i, Zenon DEF Expected
<1>6. Affords(w, j, m, x, a)
  <2>1. /\ Ind(m \in queue') = Ind(m \in queue) /\ Ind(j # Idle) = Ind(worker[w] # Idle)
        /\ Ind(m \in queue' /\ IsSubmit(m)) = Ind(m \in queue /\ IsSubmit(m))
    BY <1>2 DEF Ind
  <2>2. Ind(Submits(j)) + Cost(a) <= Ind(Submits(worker[w]))
    BY <1>2, <1>a DEF Ind, Cost
  <2>3. /\ Ind(m \in queue) \in Nat /\ Ind(worker[w] # Idle) \in Nat /\ Ind(m \in queue /\ IsSubmit(m)) \in Nat
        /\ Ind(Submits(j)) \in Nat /\ Ind(Submits(worker[w])) \in Nat /\ Cost(a) \in Nat /\ Cost(x) \in Nat
    BY DEF Ind, Cost
  <2> QED
    BY <1>2, <1>f, <2>1, <2>2, <2>3 DEF Affords
<1>7. ASSUME NEW k \in Nat PROVE Owes(w, j, m, k)
  <2>1. /\ Ind(m \in queue' /\ Low(m.at, k)) = Ind(m \in queue /\ Low(m.at, k))
        /\ Ind(j # Idle /\ Low(Target(j), k)) = Ind(worker[w] # Idle /\ Low(Target(worker[w]), k))
    BY <1>2 DEF Ind
  <2>2. /\ Ind(m \in queue /\ Low(m.at, k)) \in Nat /\ Ind(worker[w] # Idle /\ Low(Target(worker[w]), k)) \in Nat
        /\ faults' >= faults
    BY <1>2, <1>f DEF Ind, Cost
  <2> QED
    BY <1>f, <2>1, <2>2 DEF Owes
<1>8. \A k \in Nat : Owes(w, j, m, k)
  BY <1>7
<1> QED
  BY <1>1, <1>2, <1>3, <1>4, <1>5, <1>6, <1>8, Balance, Zenon

LEMMA LeavesKeeps ==
  ASSUME IInv, NEW w \in Worker, NEW j, NEW m, Leaves(w, j, m)
  PROVE  IInv'
<1>m. PICK x, a : x = 0 /\ a = 0
  OBVIOUS
<1>1. Typed /\ Refs /\ Handles(w, j, m) /\ RowsStill
  BY DEF IInv, Leaves
<1>f. faults \in Nat /\ faults' \in Nat
  BY <1>1, PipelineAssumption DEF Typed, Handles
<1>h. Holds(Idle) = 0 /\ ~Submits(Idle) /\ Idle \notin Job
  BY IdleIsNoJob DEF Holds, Submits, Remembers
<1>i. /\ (w \in Submitters <=> Submits(worker[w]))
      /\ (m \in SubmitMessages <=> m \in queue /\ IsSubmit(m))
      /\ (m \in SubmitMessages' <=> m \in queue' /\ IsSubmit(m))
  BY <1>1, WeighedAre DEF IsSubmit
<1>2. /\ worker[w] # Idle /\ j # Idle /\ queue' = queue \cup {m} /\ ~Submits(j)
      /\ Target(j) = Target(worker[w]) /\ Passes(worker[w], m) /\ faults' = faults + 1
  BY <1>h DEF Leaves
<1>3. x \in 0..MaxDseq /\ a \in 0..MaxRows
  BY <1>m, PipelineAssumption
<1>4. Accounted(w, j, m, x)
  BY <1>2 DEF Leaves, OnlyCloses, Accounted, Passes
<1>5. Expected(w, j, m, a)
  BY <1>2, <1>i DEF Expected, Passes
<1>6. Affords(w, j, m, x, a)
  BY <1>2, <1>m, <1>f DEF Affords, Ind, Cost, Passes
<1>7. ASSUME NEW k \in Nat PROVE Owes(w, j, m, k)
  BY <1>2, <1>f DEF Owes, Ind, Cost, Passes
<1>8. \A k \in Nat : Owes(w, j, m, k)
  BY <1>7
<1> QED
  BY <1>1, <1>2, <1>3, <1>4, <1>5, <1>6, <1>8, Balance, Zenon

LEMMA EndsKeeps ==
  ASSUME IInv, NEW w \in Worker, NEW m, Ends(w, m)
  PROVE  IInv'
<1>m. PICK x, a, j : x = 0 /\ a = 0 /\ j = Idle
  OBVIOUS
<1>1. Typed /\ Refs /\ Handles(w, j, m) /\ RowsStill
  BY <1>m DEF IInv, Ends
<1>f. faults \in Nat /\ faults' \in Nat
  BY <1>1, PipelineAssumption DEF Typed, Handles
<1>h. Holds(Idle) = 0 /\ ~Submits(Idle) /\ Idle \notin Job
  BY IdleIsNoJob DEF Holds, Submits, Remembers
<1>i. /\ (w \in Submitters <=> Submits(worker[w]))
      /\ (m \in SubmitMessages <=> m \in queue /\ IsSubmit(m))
      /\ (m \in SubmitMessages' <=> m \in queue' /\ IsSubmit(m))
  BY <1>1, WeighedAre DEF IsSubmit
<1>2. /\ worker[w] # Idle /\ j = Idle /\ queue' = queue \cup {m} /\ ~Submits(j)
      /\ Passes(worker[w], m) /\ faults' >= faults
  BY <1>h, <1>m DEF Ends
<1>3. x \in 0..MaxDseq /\ a \in 0..MaxRows
  BY <1>m, PipelineAssumption
<1>4. Accounted(w, j, m, x)
  BY <1>2 DEF Ends, OnlyCloses, Accounted, Passes
<1>5. Expected(w, j, m, a)
  BY <1>2, <1>i DEF Expected, Passes
<1>6. Affords(w, j, m, x, a)
  <2>1. /\ Ind(m \in queue) \in {0, 1} /\ Ind(m \in queue') \in {0, 1}
        /\ Ind(worker[w] # Idle) \in {0, 1} /\ Ind(j # Idle) \in {0, 1}
        /\ Ind(m \in queue /\ IsSubmit(m)) \in {0, 1} /\ Ind(m \in queue' /\ IsSubmit(m)) \in {0, 1}
        /\ Ind(Submits(j)) \in {0, 1} /\ Ind(Submits(worker[w])) \in {0, 1} /\ Cost(a) \in {0, 1} /\ Cost(x) \in {0, 1}
    BY DEF Ind, Cost
  <2>2. /\ Ind(j # Idle) = 0 /\ Ind(worker[w] # Idle) = 1 /\ Ind(Submits(j)) = 0 /\ Cost(x) = 0 /\ Cost(a) = 0
    BY <1>2, <1>m DEF Ind, Cost
  <2>3. Ind(m \in queue' /\ IsSubmit(m)) = Ind(Submits(worker[w]))
    BY <1>2 DEF Ind, Passes
  <2> QED
    BY <1>2, <1>f, <2>1, <2>2, <2>3 DEF Affords
<1>7. ASSUME NEW k \in Nat PROVE Owes(w, j, m, k)
  <2>1. /\ Ind(m \in queue /\ Low(m.at, k)) \in {0, 1} /\ Ind(m \in queue' /\ Low(m.at, k)) \in {0, 1}
        /\ Ind(worker[w] # Idle /\ Low(Target(worker[w]), k)) \in {0, 1} /\ Ind(j # Idle /\ Low(Target(j), k)) \in {0, 1}
    BY DEF Ind
  <2>2. /\ Ind(j # Idle /\ Low(Target(j), k)) = 0
        /\ Ind(m \in queue' /\ Low(m.at, k)) = Ind(worker[w] # Idle /\ Low(Target(worker[w]), k))
    BY <1>2 DEF Ind, Passes
  <2> QED
    BY <1>2, <1>f, <2>1, <2>2 DEF Owes
<1>8. \A k \in Nat : Owes(w, j, m, k)
  BY <1>7
<1> QED
  BY <1>1, <1>2, <1>3, <1>4, <1>5, <1>6, <1>8, Balance, Zenon

LEMMA DropsKeeps ==
  ASSUME IInv, NEW w \in Worker, NEW m, Drops(w, m)
  PROVE  IInv'
<1>m. PICK x, a, j : x = Holds(worker[w]) /\ a = (IF Submits(worker[w]) THEN Target(worker[w]) ELSE 0) /\ j = Idle
  OBVIOUS
<1>1. Typed /\ Refs /\ Handles(w, j, m) /\ RowsStill
  BY <1>m DEF IInv, Drops
<1>f. faults \in Nat /\ faults' \in Nat
  BY <1>1, PipelineAssumption DEF Typed, Handles
<1>h. Holds(Idle) = 0 /\ ~Submits(Idle) /\ Idle \notin Job
  BY IdleIsNoJob DEF Holds, Submits, Remembers
<1>i. /\ (w \in Submitters <=> Submits(worker[w]))
      /\ (m \in SubmitMessages <=> m \in queue /\ IsSubmit(m))
      /\ (m \in SubmitMessages' <=> m \in queue' /\ IsSubmit(m))
  BY <1>1, WeighedAre DEF IsSubmit
<1>2. /\ worker[w] # Idle /\ j = Idle /\ ~Submits(j)
      /\ \/ queue' = queue /\ faults' >= faults
         \/ queue' = queue \cup {m} /\ faults' = faults + 1
  BY <1>h, <1>m DEF Drops
<1>3. x \in 0..MaxDseq /\ a \in 0..MaxRows
  <2>1. Target(worker[w]) \in Attempt /\ Holds(worker[w]) \in 0..MaxDseq
    BY <1>1, JobFields, NoteFields, RowType, Zeros DEF Drops, Target, Holds
  <2> QED
    BY <1>m, <2>1, PipelineAssumption DEF Attempt
<1>4. Accounted(w, j, m, x)
  BY <1>2, <1>m DEF Drops, OnlyCloses, Accounted
<1>5. Expected(w, j, m, a)
  BY <1>2, <1>m, <1>i DEF Expected
<1>6. Affords(w, j, m, x, a)
  <2>1. /\ Ind(m \in queue) \in {0, 1} /\ Ind(m \in queue') \in {0, 1}
        /\ Ind(worker[w] # Idle) \in {0, 1} /\ Ind(j # Idle) \in {0, 1}
        /\ Ind(m \in queue /\ IsSubmit(m)) \in {0, 1} /\ Ind(m \in queue' /\ IsSubmit(m)) \in {0, 1}
        /\ Ind(Submits(j)) \in {0, 1} /\ Ind(Submits(worker[w])) \in {0, 1} /\ Cost(a) \in {0, 1} /\ Cost(x) \in {0, 1}
    BY DEF Ind, Cost
  <2>2. Ind(j # Idle) = 0 /\ Ind(worker[w] # Idle) = 1 /\ Ind(Submits(j)) = 0
    BY <1>2 DEF Ind
  <2>3. Cost(a) <= Ind(Submits(worker[w]))
    BY <1>m DEF Ind, Cost
  <2>4. queue' = queue => /\ Ind(m \in queue') = Ind(m \in queue)
                          /\ Ind(m \in queue' /\ IsSubmit(m)) = Ind(m \in queue /\ IsSubmit(m))
    BY DEF Ind
  <2> QED
    BY <1>2, <1>f, <2>1, <2>2, <2>3, <2>4 DEF Affords
<1>7. ASSUME NEW k \in Nat PROVE Owes(w, j, m, k)
  <2>1. /\ Ind(m \in queue /\ Low(m.at, k)) \in {0, 1} /\ Ind(m \in queue' /\ Low(m.at, k)) \in {0, 1}
        /\ Ind(worker[w] # Idle /\ Low(Target(worker[w]), k)) \in {0, 1} /\ Ind(j # Idle /\ Low(Target(j), k)) \in {0, 1}
    BY DEF Ind
  <2>2. Ind(j # Idle /\ Low(Target(j), k)) = 0
    BY <1>2 DEF Ind
  <2>3. queue' = queue => Ind(m \in queue' /\ Low(m.at, k)) = Ind(m \in queue /\ Low(m.at, k))
    BY DEF Ind
  <2> QED
    BY <1>2, <1>f, <2>1, <2>2, <2>3 DEF Owes
<1>8. \A k \in Nat : Owes(w, j, m, k)
  BY <1>7
<1> QED
  BY <1>1, <1>2, <1>3, <1>4, <1>5, <1>6, <1>8, Balance, Zenon

LEMMA TakesKeeps ==
  ASSUME IInv, NEW w \in Worker, NEW j, NEW m, Takes(w, j, m)
  PROVE  IInv'
<1>m. PICK x, a : /\ x = (IF j = Idle /\ m \notin queue' THEN Keeps(m) ELSE 0)
                  /\ a = (IF j = Idle /\ m \notin queue' /\ IsSubmit(m) THEN m.at ELSE 0)
  OBVIOUS
<1>1. Typed /\ Refs /\ Handles(w, j, m) /\ RowsStill
  BY DEF IInv, Takes
<1>f. faults \in Nat /\ faults' \in Nat
  BY <1>1, PipelineAssumption DEF Typed, Handles
<1>h. Holds(Idle) = 0 /\ ~Submits(Idle) /\ Idle \notin Job
  BY IdleIsNoJob DEF Holds, Submits, Remembers
<1>i. /\ (w \in Submitters <=> Submits(worker[w]))
      /\ (m \in SubmitMessages <=> m \in queue /\ IsSubmit(m))
      /\ (m \in SubmitMessages' <=> m \in queue' /\ IsSubmit(m))
  BY <1>1, WeighedAre DEF IsSubmit
<1>2. /\ worker[w] = Idle /\ m \in queue /\ ~Submits(worker[w]) /\ Holds(worker[w]) = 0
      /\ j = Idle \/ (j # Idle /\ Passes(j, m))
      /\ \/ queue' = queue \ {m} /\ faults' >= faults
         \/ queue' = queue /\ faults' = faults + 1
  BY <1>h DEF Takes
<1>3. x \in 0..MaxDseq /\ a \in 0..MaxRows
  <2>1. m.at \in Attempt /\ Keeps(m) \in 0..MaxDseq
    BY <1>1, NoteFields, RowType, Zeros DEF Handles, Keeps
  <2> QED
    BY <1>m, <2>1, PipelineAssumption DEF Attempt
<1>4. Accounted(w, j, m, x)
  BY <1>2, <1>m DEF Takes, OnlyCloses, Accounted, Passes, Dseq
<1>5. Expected(w, j, m, a)
  BY <1>2, <1>m, <1>i DEF Expected, Passes
<1>6. Affords(w, j, m, x, a)
  <2>1. /\ Ind(m \in queue) \in {0, 1} /\ Ind(m \in queue') \in {0, 1}
        /\ Ind(worker[w] # Idle) \in {0, 1} /\ Ind(j # Idle) \in {0, 1}
        /\ Ind(m \in queue /\ IsSubmit(m)) \in {0, 1} /\ Ind(m \in queue' /\ IsSubmit(m)) \in {0, 1}
        /\ Ind(Submits(j)) \in {0, 1} /\ Ind(Submits(worker[w])) \in {0, 1} /\ Cost(a) \in {0, 1} /\ Cost(x) \in {0, 1}
    BY DEF Ind, Cost
  <2>2. Ind(worker[w] # Idle) = 0 /\ Ind(Submits(worker[w])) = 0 /\ Ind(m \in queue) = 1
    BY <1>2 DEF Ind
  <2>3. Ind(m \in queue /\ IsSubmit(m)) = Ind(IsSubmit(m)) /\ Ind(IsSubmit(m)) \in {0, 1}
    BY <1>2 DEF Ind
  <2>4. CASE queue' = queue \ {m} /\ faults' >= faults
    <3>1. Ind(m \in queue') = 0 /\ Ind(m \in queue' /\ IsSubmit(m)) = 0
      BY <2>4 DEF Ind
    <3>2. CASE j = Idle
      <4>1. Ind(j # Idle) = 0 /\ Ind(Submits(j)) = 0
        BY <1>h, <3>2 DEF Ind
      <4>2. Cost(a) <= Ind(IsSubmit(m)) /\ (IsSubmit(m) => x = 0)
        BY <1>m DEF Ind, Cost, Keeps, IsSubmit
      <4> QED
        BY <1>f, <2>1, <2>2, <2>3, <2>4, <3>1, <4>1, <4>2 DEF Affords
    <3>3. CASE j # Idle /\ Passes(j, m)
      <4>1. Ind(j # Idle) = 1 /\ Ind(Submits(j)) = Ind(IsSubmit(m)) /\ Cost(a) = 0 /\ Cost(x) = 0
        BY <1>m, <3>3 DEF Ind, Cost, Passes
      <4> QED
        BY <1>f, <2>1, <2>2, <2>3, <2>4, <3>1, <4>1 DEF Affords
    <3> QED
      BY <1>2, <3>2, <3>3
  <2>5. CASE queue' = queue /\ faults' = faults + 1
    <3>1. Ind(m \in queue' /\ IsSubmit(m)) = Ind(m \in queue /\ IsSubmit(m)) /\ Cost(a) = 0 /\ Cost(x) = 0
      BY <1>2, <1>m, <2>5 DEF Ind, Cost
    <3> QED
      BY <1>f, <2>1, <2>2, <2>3, <2>5, <3>1 DEF Affords
  <2> QED
    BY <1>2, <2>4, <2>5
<1>7. ASSUME NEW k \in Nat PROVE Owes(w, j, m, k)
  <2>1. /\ Ind(m \in queue /\ Low(m.at, k)) \in {0, 1} /\ Ind(m \in queue' /\ Low(m.at, k)) \in {0, 1}
        /\ Ind(worker[w] # Idle /\ Low(Target(worker[w]), k)) \in {0, 1} /\ Ind(j # Idle /\ Low(Target(j), k)) \in {0, 1}
    BY DEF Ind
  <2>2. Ind(worker[w] # Idle /\ Low(Target(worker[w]), k)) = 0
    BY <1>2 DEF Ind
  <2>3. Ind(j # Idle /\ Low(Target(j), k)) <= Ind(m \in queue /\ Low(m.at, k))
    BY <1>2 DEF Ind, Passes
  <2>4. /\ queue' = queue => Ind(m \in queue' /\ Low(m.at, k)) = Ind(m \in queue /\ Low(m.at, k))
        /\ queue' = queue \ {m} => Ind(m \in queue' /\ Low(m.at, k)) = 0
    BY DEF Ind
  <2> QED
    BY <1>2, <1>f, <2>1, <2>2, <2>3, <2>4 DEF Owes
<1>8. \A k \in Nat : Owes(w, j, m, k)
  BY <1>7
<1> QED
  BY <1>1, <1>2, <1>3, <1>4, <1>5, <1>6, <1>8, Balance, Zenon

-----------------------------------------------------------------------------
(* What handlers do: go on to a call, publish, end. *)

\* No row is created or given a dseq, and nothing is opened on the chain.
Calm == /\ row' \in [Attempt -> Row] /\ RowsKept /\ RowsStill
        /\ chain' \in [0..MaxDseq -> States] /\ chain'[0] = "none" /\ ChainKept /\ OnlyCloses
\* The step is a fault or not.
MayFail == Fault \/ UNCHANGED faults

LEMMA CalmIs ==
  ASSUME IInv, Calm
  PROVE  Steady /\ RowsStill /\ OnlyCloses /\ \A a \in Attempt : RowOK(a)'
<1>1. Steady /\ RowsStill /\ OnlyCloses
  BY DEF Calm, Steady
<1> QED
  BY <1>1, RowsStay DEF IInv

LEMMA MayFailTypes ==
  ASSUME IInv, MayFail
  PROVE  faults' \in 0..MaxFaults /\ faults' >= faults /\ faults \in Nat /\ (Fault => faults' = faults + 1)
BY FaultTypes DEF IInv, MayFail

LEMMA AtWork ==
  ASSUME IInv, NEW w \in Worker, ~At(w, "idle")
  PROVE  /\ worker[w] \in Job /\ JobOK(worker[w]) /\ worker[w] # Idle
         /\ Here(w) \in Attempt /\ Exists(Here(w)) /\ PhaseOK(worker[w])
         /\ worker[w].msg \in Note /\ worker[w].msg.at \in Attempt /\ Exists(worker[w].msg.at)
         /\ worker[w].next \in Note /\ worker[w].next.at \in Attempt /\ Exists(worker[w].next.at)
         /\ worker[w].dseq \in 0..MaxDseq
<1>1. worker[w] \in Job /\ worker[w] # Idle
  BY BusyJob, IdleIsNoJob DEF IInv
<1>2. JobOK(worker[w])
  BY <1>1 DEF IInv, Refs, Busy
<1> QED
  BY <1>1, <1>2, JobFields, NoteFields DEF JobOK, Here

\* The handler goes on to the call pc; what it holds is given up only by a fault.
LEMMA Goes ==
  ASSUME IInv, Calm, MayFail, UNCHANGED <<queue, others>>,
         NEW w \in Worker, ~At(w, "idle"), NEW pc \in Pc, Goto(w, pc),
         pc \notin {"publish", "submit", "cancel", "save_dseq"},
         PhaseOK(To(worker[w], pc)),
         At(w, "publish") => worker[w].msg.step # "HANDLE_FAILURE",
         pc \in Retrying => row[Here(w)].tries < MaxRetry,
         \/ Holds(To(worker[w], pc)) = Holds(worker[w])
         \/ \A e \in Dseq : e = Holds(worker[w]) => ~Open(e)'
         \/ Fault
  PROVE  IInv'
<1>i. PICK i, j : i = worker[w] /\ j = To(worker[w], pc)
  OBVIOUS
<1>x. PICK x : x = IF Holds(j) = Holds(i) \/ (\A e \in Dseq : e = Holds(i) => ~Open(e)') THEN 0 ELSE Holds(i)
  OBVIOUS
<1>1. /\ i \in Job /\ JobOK(i) /\ i.msg \in Note /\ Exists(i.msg.at) /\ i.at \in Attempt
      /\ i.dseq \in 0..MaxDseq /\ PhaseOK(i)
  BY <1>i, AtWork DEF Here
<1>2. /\ j \in Job /\ j.pc = pc /\ j.msg = i.msg /\ j.at = i.at /\ j.dseq = i.dseq /\ j.next = i.next
  BY <1>i, <1>1, ToTypes
<1>3. JobOK(j)
  BY <1>i, <1>1, <1>2 DEF JobOK, Here
<1>4. Handles(w, j, worker[w].msg)
  <2>1. Becomes(w, j)
    BY <1>i, Moved DEF IInv
  <2>2. JobOK(j)'
    BY <1>2, <1>3, CalmIs, JobKept
  <2> QED
    BY <1>i, <1>1, <1>2, <2>1, <2>2, CalmIs, MayFailTypes DEF Handles
<1>5. Target(j) = Target(worker[w]) /\ ~Submits(j)
  BY <1>i, <1>1, <1>2 DEF Target, Submits, At, PhaseOK
<1>6. Holds(i) \in 0..MaxDseq
  BY <1>1, RowType, Zeros DEF Holds, IInv
<1>7. x \in 0..MaxDseq /\ Held(w, j, x)
  BY <1>i, <1>x, <1>6, Zeros DEF Held, Calm, OnlyCloses
<1>8. faults' >= faults + Cost(x)
  <2>1. x = 0 \/ Fault
    <3>1. CASE Holds(j) = Holds(i)
      BY <1>x, <3>1
    <3>2. CASE \A e \in Dseq : e = Holds(i) => ~Open(e)'
      BY <1>x, <3>2
    <3> QED
      BY <1>i, <3>1, <3>2
  <2>2. faults' >= faults /\ faults \in Nat /\ faults' \in 0..MaxFaults
    BY MayFailTypes
  <2>3. x = 0 \/ faults' = faults + 1
    BY <2>1, Zenon DEF Fault
  <2>4. CASE x = 0
    <3>1. Cost(x) = 0
      BY <2>4 DEF Cost
    <3> QED
      BY <2>2, <3>1
  <2>5. CASE faults' = faults + 1
    <3>1. Cost(x) \in {0, 1}
      BY DEF Cost
    <3> QED
      BY <2>2, <2>5, <3>1
  <2> QED
    BY <2>3, <2>4, <2>5
<1>9. Moves(w, j, x)
  BY <1>i, <1>1, <1>2, <1>4, <1>5, <1>7, <1>8, CalmIs DEF Moves
<1> QED
  BY <1>9, MovesKeeps

\* A step publishes a message to its row.
LEMMA Publishes ==
  ASSUME IInv, Calm, MayFail, UNCHANGED <<queue, others>>,
         NEW w \in Worker, ~At(w, "idle"), NEW m \in Note, Publish(w, m),
         m.at = Here(w), m.step # "SUBMIT_TX", worker[w].msg.step # "HANDLE_FAILURE",
         worker[w].msg.at = Here(w), Holds(worker[w]) = row[Here(w)].dseq,
         At(w, "publish") => worker[w].next.at = Here(w)
  PROVE  IInv'
<1>i. PICK i, j : i = worker[w] /\ j = Sends(worker[w], m)
  OBVIOUS
<1>1. /\ i \in Job /\ JobOK(i) /\ i.msg \in Note /\ Exists(i.msg.at) /\ i.at \in Attempt /\ Exists(i.at)
  BY <1>i, AtWork DEF Here
<1>2. /\ j \in Job /\ j.pc = "publish" /\ j.msg = i.msg /\ j.at = i.at /\ j.dseq = i.dseq /\ j.next = m
  BY <1>i, <1>1, SendsTypes
<1>3. JobOK(j)
  BY <1>i, <1>1, <1>2 DEF JobOK, Here, PhaseOK, Failing, Retrying, Polling, WritingOff
<1>4. Handles(w, j, worker[w].msg)
  <2>1. Becomes(w, j)
    BY <1>i, Moved DEF IInv
  <2>2. JobOK(j)'
    BY <1>2, <1>3, CalmIs, JobKept
  <2> QED
    BY <1>i, <1>1, <1>2, <2>1, <2>2, CalmIs, MayFailTypes DEF Handles
<1>5. Target(j) = Target(worker[w]) /\ ~Submits(j) /\ Holds(j) = Holds(worker[w])
  BY <1>i, <1>1, <1>2 DEF Target, Submits, At, Here, Holds, Remembers
<1>7. Held(w, j, 0)
  BY <1>5 DEF Held, Calm, OnlyCloses
<1>8. faults' >= faults + Cost(0)
  BY MayFailTypes DEF Cost
<1>9. Moves(w, j, 0)
  BY <1>i, <1>1, <1>2, <1>4, <1>5, <1>7, <1>8, CalmIs, Zeros DEF Moves
<1> QED
  BY <1>9, MovesKeeps

\* The handler ends, or dies and is delivered again.
LEMMA Finishes ==
  ASSUME IInv, Calm, MayFail, UNCHANGED others, NEW w \in Worker, ~At(w, "idle"), Finish(w),
         queue' = queue \/ (Fault /\ queue' = queue \cup {worker[w].msg})
  PROVE  IInv'
<1>m. PICK m : m = worker[w].msg
  OBVIOUS
<1>1. worker[w] \in Job /\ m \in Note /\ Exists(m.at)
  BY <1>m, AtWork
<1>2. Becomes(w, Idle)
  BY Moved DEF IInv
<1>3. Handles(w, Idle, m)
  BY <1>m, <1>1, <1>2, CalmIs, MayFailTypes DEF Handles
<1>4. Drops(w, m)
  BY <1>m, <1>1, <1>3, CalmIs, MayFailTypes DEF Drops
<1> QED
  BY <1>4, DropsKeeps

\* The handler hands on to a message.
LEMMA HandsOn ==
  ASSUME IInv, Calm, MayFail, UNCHANGED others, NEW w \in Worker, ~At(w, "idle"), Finish(w),
         NEW m \in Note, Exists(m.at), queue' = queue \cup {m}, Passes(worker[w], m)
  PROVE  IInv'
<1>1. worker[w] \in Job
  BY AtWork
<1>2. Becomes(w, Idle)
  BY Moved DEF IInv
<1>3. Handles(w, Idle, m)
  BY <1>1, <1>2, CalmIs, MayFailTypes DEF Handles
<1>4. Ends(w, m)
  BY <1>1, <1>3, CalmIs, MayFailTypes DEF Ends
<1> QED
  BY <1>4, EndsKeeps

LEMMA CalmStill ==
  ASSUME IInv, UNCHANGED <<row, chain>>
  PROVE  Calm
BY Unchanged DEF IInv, Calm

LEMMA CalmWrites ==
  ASSUME IInv, UNCHANGED chain, NEW a \in Attempt, Exists(a), NEW st \in Status \ {"ABSENT"}, SetStatus(a, st)
  PROVE  Calm
BY Unchanged, Writes DEF IInv, Calm

LEMMA CalmCloses ==
  ASSUME IInv, UNCHANGED row, NEW d, Closes(d) \/ Refuses(d)
  PROVE  /\ Calm /\ MayFail
         /\ Fault \/ \A e \in Dseq : e = d => ~Open(e)'
<1>1. Calm
  BY Unchanged, ClosesTypes DEF IInv, Calm
<1>2. CASE Closes(d)
  BY <1>1, <1>2, ClosesTypes DEF IInv, MayFail, Closes
<1>3. CASE Refuses(d)
  BY <1>1, <1>3, Zenon DEF MayFail, Refuses
<1> QED
  BY <1>2, <1>3

Statuses == {"CREATING", "WAITING_BIDS", "SELECTING_BID", "CREATING_LEASE", "SENDING_MANIFEST",
             "DEPLOYING", "ACTIVE", "CLOSED", "FAILED", "PERMANENTLY_FAILED", "CLOSE_FAILED",
             "AWAITING_REGION_RESPONSE"}
LEMMA StatusesAre == Statuses \subseteq Status \ {"ABSENT"}
BY DEF Statuses, Status, InProgress, Terminal

\* A handler of a step other than HANDLE_FAILURE, that is not about to submit.
Plain == Pc \ (Failing \cup WritingOff \cup {"submit", "cancel", "save_dseq", "publish"})

LEMMA PlainIs ==
  ASSUME IInv, NEW w \in Worker, worker[w].pc \in Plain
  PROVE  /\ ~At(w, "idle") /\ ~At(w, "publish")
         /\ worker[w].msg.step # "HANDLE_FAILURE" /\ worker[w].msg.at = Here(w)
         /\ worker[w].pc \in Polling => worker[w].msg.step # "SUBMIT_TX"
         /\ Holds(worker[w]) = row[Here(w)].dseq
<1>1. ~At(w, "idle") /\ ~At(w, "publish")
  BY DEF At, Plain, Pc
<1>2. PhaseOK(worker[w])
  BY <1>1, AtWork
<1> QED
  BY <1>1, <1>2 DEF PhaseOK, Plain, Pc, Failing, WritingOff, Polling, Holds, Remembers, Submits, Here, At

LEMMA Runs ==
  ASSUME IInv, Calm, MayFail, UNCHANGED <<queue, others>>, NEW w \in Worker, worker[w].pc \in Plain,
         NEW pc \in Plain \cup {"abandon"}, Goto(w, pc), pc \in Polling => worker[w].pc \in Polling
  PROVE  IInv'
<1>1. /\ ~At(w, "idle") /\ ~At(w, "publish")
      /\ worker[w].msg.step # "HANDLE_FAILURE" /\ worker[w].msg.at = Here(w)
      /\ worker[w].pc \in Polling => worker[w].msg.step # "SUBMIT_TX"
      /\ Holds(worker[w]) = row[Here(w)].dseq
  BY PlainIs
<1>2. pc \in Pc /\ pc \notin {"publish", "submit", "cancel", "save_dseq"} /\ pc \notin Retrying /\ pc \notin Failing
  BY DEF Plain, Pc, Retrying, Failing
<1>3. PICK j : j = To(worker[w], pc)
  OBVIOUS
<1>4. /\ j.pc = pc /\ j.msg = worker[w].msg /\ j.at = Here(w)
  BY <1>1, <1>2, <1>3, AtWork, ToTypes DEF Here
<1>5. PhaseOK(j)
  BY <1>1, <1>2, <1>4 DEF PhaseOK
<1>6. Holds(j) = row[Here(w)].dseq
  BY <1>2, <1>4 DEF Holds, Remembers, Submits, Plain, Failing, Pc
<1> QED
  BY <1>1, <1>2, <1>3, <1>5, <1>6, Goes, Zenon

\* A plain handler writes its row's status, or nothing, and goes on.
LEMMA PlainGoes ==
  ASSUME IInv, UNCHANGED <<row, chain, queue, others>>, MayFail, NEW w \in Worker, worker[w].pc \in Plain,
         NEW pc \in Plain \cup {"abandon"}, Goto(w, pc), pc \in Polling => worker[w].pc \in Polling
  PROVE  IInv'
BY CalmStill, Runs

\* Or publishes a message to its row.
LEMMA PlainPublishes ==
  ASSUME IInv, Calm, UNCHANGED <<queue, faults, others>>, NEW w \in Worker, worker[w].pc \in Plain,
         NEW m \in Note, Publish(w, m), m.at = Here(w), m.step # "SUBMIT_TX"
  PROVE  IInv'
<1>1. MayFail
  BY DEF MayFail
<1>2. UNCHANGED <<queue, others>>
  OBVIOUS
<1>3. /\ ~At(w, "idle") /\ ~At(w, "publish")
      /\ worker[w].msg.step # "HANDLE_FAILURE" /\ worker[w].msg.at = Here(w)
      /\ Holds(worker[w]) = row[Here(w)].dseq
  BY PlainIs
<1> QED
  BY <1>1, <1>2, <1>3, Publishes, Zenon

-----------------------------------------------------------------------------
(* Action by action. *)

PlainPcs == {"bids", "select", "choose", "await", "save_bid", "lease", "save_lease", "manifest",
             "save_manifest", "poll", "finalize", "activate", "report"}
LEMMA PlainAre == Plain = PlainPcs
BY DEF Plain, PlainPcs, Pc, Failing, WritingOff

LEMMA PlainPollAgain ==
  ASSUME IInv, NEW w \in Worker, worker[w].pc \in Polling, PollAgain(w), UNCHANGED <<row, chain, queue, faults, others>>
  PROVE  IInv'
<1> DEFINE m == worker[w].msg
<1>1. worker[w].pc \in Plain
  BY PlainAre DEF PlainPcs, Polling
<1>2. m \in Note /\ m.at = Here(w) /\ m.step # "SUBMIT_TX"
  BY <1>1, PlainIs, AtWork
<1>3. m.poll # MaxPolls /\ Publish(w, Again(m))
  BY <1>2, NoteFields, PipelineAssumption DEF PollAgain, Again
<1>4. Again(m) \in Note /\ Again(m).step = m.step /\ Again(m).at = m.at
  BY <1>2, <1>3, AgainTypes
<1>5. Calm
  BY CalmStill
<1> QED
  BY <1>1, <1>2, <1>3, <1>4, <1>5, PlainPublishes

LEMMA PlainFailure ==
  ASSUME IInv, NEW w \in Worker, worker[w].pc \in Plain, NEW f \in Flags, Publish(w, Failure(Here(w), f)),
         UNCHANGED <<row, chain, queue, faults, others>>
  PROVE  IInv'
<1>1. Here(w) \in Attempt
  BY PlainIs, AtWork
<1>2. Failure(Here(w), f) \in Note /\ Failure(Here(w), f).step = "HANDLE_FAILURE" /\ Failure(Here(w), f).at = Here(w)
  BY <1>1, FailureTypes
<1>3. Calm
  BY CalmStill
<1> QED
  BY <1>2, <1>3, PlainPublishes

LEMMA PlainAdvances ==
  ASSUME IInv, NEW w \in Worker, worker[w].pc \in Plain, NEW st \in Statuses, NEW s \in Step \ {"SUBMIT_TX"},
         Advance(w, st, s)
  PROVE  IInv'
<1>1. Here(w) \in Attempt /\ Exists(Here(w))
  BY PlainIs, AtWork
<1>2. Msg(s, Here(w)) \in Note /\ Msg(s, Here(w)).step = s /\ Msg(s, Here(w)).at = Here(w)
  BY <1>1, MsgTypes
<1>3. Calm
  BY <1>1, StatusesAre, CalmWrites DEF Advance
<1>4. Publish(w, Msg(s, Here(w))) /\ UNCHANGED <<queue, faults, others>>
  BY DEF Advance, others
<1> QED
  BY <1>2, <1>3, <1>4, PlainPublishes

LEMMA PlainExhausted ==
  ASSUME IInv, NEW w \in Worker, worker[w].pc \in Plain, PollsExhausted(w), UNCHANGED <<row, chain, queue, faults, others>>
  PROVE  IInv'
<1>1. MayFail /\ "await" \in Plain \cup {"abandon"} /\ "await" \notin Polling
  BY PlainAre DEF MayFail, PlainPcs, Polling
<1>2. CASE Goto(w, "await")
  BY <1>1, <1>2, PlainGoes
<1>3. CASE Publish(w, Failure(Here(w), FALSE))
  BY <1>3, InFlags, PlainFailure
<1> QED
  BY <1>2, <1>3 DEF PollsExhausted

LEMMA CheckBidsKeeps ==
  ASSUME IInv, NEW w \in Worker, CheckBids(w)
  PROVE  IInv'
<1>1. /\ worker[w].pc \in Plain /\ worker[w].pc \in Polling /\ UNCHANGED <<row, chain, queue, faults, others>>
      /\ MayFail /\ "select" \in Plain \cup {"abandon"}
  BY PlainAre DEF CheckBids, At, PlainPcs, Polling, MayFail, others
<1>2. CASE Goto(w, "select")
  BY <1>1, <1>2, PlainGoes
<1> QED
  BY <1>1, <1>2, PlainPollAgain, PlainExhausted DEF CheckBids

LEMMA ChooseBidKeeps ==
  ASSUME IInv, NEW w \in Worker, ChooseBid(w)
  PROVE  IInv'
<1>1. /\ worker[w].pc \in Plain /\ worker[w].pc \in Polling /\ UNCHANGED <<row, chain, queue, faults, others>>
      /\ MayFail /\ "save_bid" \in Plain \cup {"abandon"} /\ "save_bid" \notin Polling
  BY PlainAre DEF ChooseBid, At, PlainPcs, Polling, MayFail, others
<1>2. CASE Goto(w, "save_bid")
  BY <1>1, <1>2, PlainGoes
<1>3. CASE Publish(w, Failure(Here(w), FALSE))
  BY <1>1, <1>3, InFlags, PlainFailure
<1> QED
  BY <1>1, <1>2, <1>3, PlainPollAgain, PlainExhausted DEF ChooseBid

LEMMA SelectingBidKeeps ==
  ASSUME IInv, NEW w \in Worker, SelectingBid(w)
  PROVE  IInv'
<1>1. /\ worker[w].pc \in Plain /\ worker[w].pc \in Polling /\ UNCHANGED <<queue, others>> /\ UNCHANGED chain
      /\ MayFail /\ "choose" \in Plain \cup {"abandon"} /\ Goto(w, "choose") /\ SetStatus(Here(w), "SELECTING_BID")
  BY PlainAre DEF SelectingBid, At, PlainPcs, Polling, MayFail, others
<1>2. Here(w) \in Attempt /\ Exists(Here(w)) /\ "SELECTING_BID" \in Statuses
  BY <1>1, PlainIs, AtWork DEF Statuses
<1>3. Calm
  BY <1>1, <1>2, StatusesAre, CalmWrites
<1> QED
  BY <1>1, <1>3, Runs

LEMMA AwaitRegionKeeps ==
  ASSUME IInv, NEW w \in Worker, AwaitRegion(w)
  PROVE  IInv'
<1>1. /\ worker[w].pc \in Plain /\ UNCHANGED <<queue, chain, others>>
      /\ MayFail /\ Finish(w) /\ SetStatus(Here(w), "AWAITING_REGION_RESPONSE")
  BY PlainAre DEF AwaitRegion, At, PlainPcs, MayFail, others
<1>2. Here(w) \in Attempt /\ Exists(Here(w)) /\ "AWAITING_REGION_RESPONSE" \in Statuses /\ ~At(w, "idle")
  BY <1>1, PlainIs, AtWork DEF Statuses
<1>3. Calm
  BY <1>1, <1>2, StatusesAre, CalmWrites
<1> QED
  BY <1>1, <1>2, <1>3, Finishes

LEMMA SavesKeep ==
  ASSUME IInv, NEW w \in Worker, SaveBid(w) \/ SaveLease(w) \/ SaveManifest(w)
  PROVE  IInv'
<1>1. worker[w].pc \in Plain
  BY PlainAre DEF SaveBid, SaveLease, SaveManifest, At, PlainPcs
<1>2. /\ {"CREATE_LEASE", "SEND_MANIFEST", "POLL_URLS"} \subseteq Step \ {"SUBMIT_TX"}
      /\ {"CREATING_LEASE", "SENDING_MANIFEST", "DEPLOYING"} \subseteq Statuses
  BY DEF Step, Statuses
<1> QED
  BY <1>1, <1>2, PlainAdvances DEF SaveBid, SaveLease, SaveManifest

LEMMA CreateLeaseKeeps ==
  ASSUME IInv, NEW w \in Worker, CreateLease(w)
  PROVE  IInv'
<1>1. /\ worker[w].pc \in Plain /\ "save_lease" \in Plain \cup {"abandon"} /\ "save_lease" \notin Polling
      /\ UNCHANGED <<queue, others>> /\ MayFail /\ Goto(w, "save_lease") /\ UNCHANGED row
  BY PlainAre DEF CreateLease, At, PlainPcs, Polling, MayFail, others
<1>2. Calm
  <2>1. /\ chain' = [chain EXCEPT ![worker[w].dseq] = "leased"]
        /\ worker[w].dseq # 0 /\ chain[worker[w].dseq] = "open"
    BY DEF CreateLease
  <2>2. chain' \in [0..MaxDseq -> States] /\ chain'[0] = "none" /\ ChainKept
    BY <2>1, Zeros DEF IInv, Typed, States, ChainKept
  <2>3. OnlyCloses
    <3>1. Dseq \subseteq 0..MaxDseq
      BY PipelineAssumption DEF Dseq
    <3> QED
      BY <2>1, <3>1 DEF IInv, Typed, OnlyCloses, Open
  <2> QED
    BY <1>1, <2>2, <2>3, Unchanged DEF Calm, IInv
<1> QED
  BY <1>1, <1>2, Runs

LEMMA SendManifestKeeps ==
  ASSUME IInv, NEW w \in Worker, SendManifest(w) \/ Finalize(w)
  PROVE  IInv'
<1>1. /\ worker[w].pc \in Plain /\ UNCHANGED <<row, chain, queue, others>> /\ MayFail
      /\ {"save_manifest", "activate", "report"} \subseteq (Plain \cup {"abandon"}) \ Polling
      /\ \E pc \in {"save_manifest", "activate", "report"} : Goto(w, pc)
  BY PlainAre DEF SendManifest, Finalize, At, PlainPcs, Polling, MayFail, others
<1> QED
  BY <1>1, PlainGoes

LEMMA PollUrlsKeeps ==
  ASSUME IInv, NEW w \in Worker, PollUrls(w)
  PROVE  IInv'
<1>1. /\ worker[w].pc \in Plain /\ worker[w].pc \in Polling /\ UNCHANGED <<row, chain, queue, faults, others>>
      /\ MayFail /\ "finalize" \in Plain \cup {"abandon"} /\ "finalize" \notin Polling
  BY PlainAre DEF PollUrls, At, PlainPcs, Polling, MayFail, others
<1>2. CASE Goto(w, "finalize")
  BY <1>1, <1>2, PlainGoes
<1>3. CASE \E f \in BOOLEAN : Publish(w, Failure(Here(w), f))
  <2>1. PICK f \in Flags : Publish(w, Failure(Here(w), f))
    BY <1>3, Zenon DEF Flags
  <2> QED
    BY <1>1, <2>1, PlainFailure
<1>4. PollAgain(w) \/ Goto(w, "finalize") \/ \E f \in BOOLEAN : Publish(w, Failure(Here(w), f))
  BY Zenon DEF PollUrls
<1> QED
  BY <1>1, <1>2, <1>3, <1>4, PlainPollAgain

LEMMA ActivateKeeps ==
  ASSUME IInv, NEW w \in Worker, Activate(w)
  PROVE  IInv'
<1>1. /\ worker[w].pc \in Plain /\ UNCHANGED <<queue, others>> /\ UNCHANGED chain
      /\ "report" \in Plain \cup {"abandon"} /\ "report" \notin Polling /\ SetStatus(Here(w), "ACTIVE")
      /\ MayFail /\ (Finish(w) \/ Goto(w, "report"))
  BY PlainAre DEF Activate, At, PlainPcs, Polling, MayFail, others
<1>2. Here(w) \in Attempt /\ Exists(Here(w)) /\ "ACTIVE" \in Statuses /\ ~At(w, "idle")
  BY <1>1, PlainIs, AtWork DEF Statuses
<1>3. Calm
  BY <1>1, <1>2, StatusesAre, CalmWrites
<1> QED
  BY <1>1, <1>2, <1>3, Runs, Finishes

\* The other steps of a handler's end.

LEMMA RejectedKeeps ==
  ASSUME IInv, NEW w \in Worker, Rejected(w)
  PROVE  IInv'
<1>1. /\ UNCHANGED <<row, chain, queue, others>> /\ MayFail /\ Goto(w, "report")
      /\ "report" \in Plain \cup {"abandon"} /\ "report" \notin Polling /\ "report" \in Pc
      /\ worker[w].pc \in Plain \/ At(w, "submit")
  BY PlainAre DEF Rejected, At, PlainPcs, Polling, MayFail, others, Pc
<1>2. CASE worker[w].pc \in Plain
  BY <1>1, <1>2, PlainGoes
<1>3. CASE At(w, "submit")
  <2>1. ~At(w, "idle") /\ ~At(w, "publish") /\ Holds(worker[w]) = 0
    BY <1>3 DEF At, Holds, Remembers, Submits
  <2>2. PICK j : j = To(worker[w], "report")
    OBVIOUS
  <2>3. j.pc = "report" /\ j.msg = worker[w].msg /\ j.at = worker[w].at
    BY <1>1, <2>1, <2>2, AtWork, ToTypes
  <2>4. PhaseOK(worker[w])
    BY <2>1, AtWork
  <2>5. PhaseOK(j)
    BY <1>3, <2>3, <2>4 DEF PhaseOK, At, Failing, WritingOff, Polling
  <2>6. \A e \in Dseq : e = Holds(worker[w]) => ~Open(e)'
    BY <2>1 DEF Dseq
  <2>7. Calm /\ "report" \notin {"publish", "submit", "cancel", "save_dseq"} /\ "report" \notin Retrying
    BY <1>1, CalmStill DEF Retrying
  <2>8. UNCHANGED <<queue, others>>
    BY <1>1
  <2> QED
    BY <1>1, <2>1, <2>2, <2>5, <2>6, <2>7, <2>8, Goes, Zenon
<1> QED
  BY <1>1, <1>2, <1>3

LEMMA ThrowsKeeps ==
  ASSUME IInv, NEW w \in Worker, Throws(w)
  PROVE  IInv'
<1>1. /\ UNCHANGED <<row, chain, queue, others>> /\ MayFail /\ Fault /\ Goto(w, "report")
      /\ "report" \in Plain \cup {"abandon"} /\ "report" \notin Polling /\ "report" \in Pc
      /\ worker[w].pc \in Plain \/ At(w, "save_dseq")
  BY PlainAre DEF Throws, At, PlainPcs, Polling, MayFail, others, Pc
<1>2. CASE worker[w].pc \in Plain
  BY <1>1, <1>2, PlainGoes
<1>3. CASE At(w, "save_dseq")
  <2>1. ~At(w, "idle") /\ ~At(w, "publish")
    BY <1>3 DEF At
  <2>2. PICK j : j = To(worker[w], "report")
    OBVIOUS
  <2>3. j.pc = "report" /\ j.msg = worker[w].msg /\ j.at = worker[w].at
    BY <1>1, <2>1, <2>2, AtWork, ToTypes
  <2>4. PhaseOK(worker[w])
    BY <2>1, AtWork
  <2>5. PhaseOK(j)
    BY <1>3, <2>3, <2>4 DEF PhaseOK, At, Failing, WritingOff, Polling
  <2>7. Calm /\ "report" \notin {"publish", "submit", "cancel", "save_dseq"} /\ "report" \notin Retrying
    BY <1>1, CalmStill DEF Retrying
  <2>8. UNCHANGED <<queue, others>>
    BY <1>1
  <2> QED
    BY <1>1, <2>1, <2>2, <2>5, <2>7, <2>8, Goes, Zenon
<1> QED
  BY <1>1, <1>2, <1>3

LEMMA ReportKeeps ==
  ASSUME IInv, NEW w \in Worker, Report(w)
  PROVE  IInv'
<1>1. /\ worker[w].pc \in Plain /\ At(w, "report") /\ "abandon" \notin Polling /\ UNCHANGED <<row, chain>> /\ UNCHANGED others
  BY PlainAre DEF Report, At, PlainPcs, Polling, others
<1>2. Calm /\ ~At(w, "idle") /\ Holds(worker[w]) = row[Here(w)].dseq
  BY <1>1, CalmStill, PlainIs
<1>3. Here(w) \in Attempt /\ Exists(Here(w))
  BY <1>2, AtWork
<1>4. CASE \E f \in BOOLEAN : queue' = queue \cup {Failure(Here(w), f)} /\ Finish(w) /\ UNCHANGED faults
  <2>1. PICK f \in Flags : queue' = queue \cup {Failure(Here(w), f)} /\ Finish(w) /\ UNCHANGED faults
    BY <1>4, Zenon DEF Flags
  <2>2. PICK m : m = Failure(Here(w), f)
    OBVIOUS
  <2>3. m \in Note /\ m.step = "HANDLE_FAILURE" /\ m.at = Here(w)
    BY <1>3, <2>2, FailureTypes
  <2>4. Passes(worker[w], m)
    BY <1>1, <1>2, <2>3 DEF Passes, Target, Submits, IsSubmit, Keeps, At, Here
  <2>5. MayFail /\ Exists(m.at)
    BY <1>3, <2>1, <2>3 DEF MayFail
  <2> QED
    BY <1>1, <1>2, <2>1, <2>2, <2>3, <2>4, <2>5, HandsOn, Zenon
<1>5. CASE UNCHANGED queue /\ Goto(w, "abandon") /\ Fault
  <2>1. MayFail /\ "abandon" \in Plain \cup {"abandon"} /\ UNCHANGED <<row, chain, queue, others>>
    BY <1>1, <1>5 DEF MayFail
  <2> QED
    BY <1>1, <1>5, <2>1, PlainGoes
<1> QED
  <2>1. (\E f \in BOOLEAN : queue' = queue \cup {Failure(Here(w), f)} /\ Finish(w) /\ UNCHANGED faults)
        \/ (UNCHANGED queue /\ Goto(w, "abandon") /\ Fault)
    BY Zenon DEF Report
  <2> QED
    BY <1>4, <1>5, <2>1, Zenon

LEMMA AbandonKeeps ==
  ASSUME IInv, NEW w \in Worker, Abandon(w)
  PROVE  IInv'
<1>1. At(w, "abandon") /\ ~At(w, "idle") /\ ~At(w, "publish") /\ Goto(w, "write_off") /\ "write_off" \in Pc
  BY DEF Abandon, At, Pc
<1>2. Calm /\ MayFail /\ UNCHANGED <<queue, others>>
  BY CalmCloses DEF Abandon, others
<1>3. PICK j : j = To(worker[w], "write_off")
  OBVIOUS
<1>4. j.pc = "write_off" /\ j.msg = worker[w].msg /\ j.at = worker[w].at /\ PhaseOK(worker[w])
  BY <1>1, <1>3, AtWork, ToTypes
<1>5. PhaseOK(j) /\ Holds(j) = Holds(worker[w])
  BY <1>1, <1>4 DEF PhaseOK, At, Failing, WritingOff, Polling, Holds, Remembers, Submits
<1>6. "write_off" \notin {"publish", "submit", "cancel", "save_dseq"} /\ "write_off" \notin Retrying
  BY DEF Retrying
<1> QED
  BY <1>1, <1>2, <1>3, <1>5, <1>6, Goes, Zenon

LEMMA LastWritesKeep ==
  ASSUME IInv, NEW w \in Worker, WriteOff(w) \/ CancelRetry(w) \/ Bury(w)
  PROVE  IInv'
<1>1. /\ ~At(w, "idle") /\ Finish(w) /\ MayFail /\ UNCHANGED others /\ UNCHANGED chain /\ queue' = queue
      /\ \E st \in Statuses : SetStatus(Here(w), st)
  BY DEF WriteOff, CancelRetry, Bury, At, MayFail, others, Statuses
<1>2. Here(w) \in Attempt /\ Exists(Here(w))
  BY <1>1, AtWork
<1>3. Calm
  BY <1>1, <1>2, StatusesAre, CalmWrites
<1> QED
  BY <1>1, <1>3, Finishes

LEMMA CrashKeeps ==
  ASSUME IInv, NEW w \in Worker, Crash(w)
  PROVE  IInv'
<1>1. /\ ~At(w, "idle") /\ Finish(w) /\ MayFail /\ Fault /\ UNCHANGED others /\ UNCHANGED <<row, chain>>
      /\ queue' = queue \/ queue' = queue \cup {worker[w].msg}
  BY Zenon DEF Crash, MayFail, others
<1>2. Calm
  BY <1>1, CalmStill
<1> QED
  BY <1>1, <1>2, Finishes, Zenon

LEMMA SendKeeps ==
  ASSUME IInv, NEW w \in Worker, Send(w)
  PROVE  IInv'
<1>1. /\ At(w, "publish") /\ ~At(w, "idle") /\ Finish(w) /\ MayFail /\ UNCHANGED others /\ UNCHANGED <<row, chain>>
      /\ queue' = queue \cup {worker[w].next}
  BY DEF Send, MayFail, others, At
<1>2. PICK m : m = worker[w].next
  OBVIOUS
<1>3. Calm /\ m \in Note /\ Exists(m.at) /\ PhaseOK(worker[w])
  BY <1>1, <1>2, CalmStill, AtWork
<1>4. Passes(worker[w], m)
  BY <1>1, <1>2, <1>3 DEF Passes, PhaseOK, Target, Submits, IsSubmit, Keeps, Holds, Remembers, At
<1> QED
  BY <1>1, <1>2, <1>3, <1>4, HandsOn, Zenon

-----------------------------------------------------------------------------
(* HANDLE_FAILURE. *)

LEMMA FailureGoes ==
  ASSUME IInv, Calm, MayFail, UNCHANGED <<queue, others>>, NEW w \in Worker, NEW pc \in Failing, Goto(w, pc),
         worker[w].pc \in Failing \ {"spawn"}, pc \in Retrying => row[Here(w)].tries < MaxRetry,
         pc = "spawn" => Fault \/ \A e \in Dseq : e = worker[w].dseq => ~Open(e)'
  PROVE  IInv'
<1>1. ~At(w, "idle") /\ ~At(w, "publish") /\ pc \in Pc /\ pc \notin {"publish", "submit", "cancel", "save_dseq"}
  BY DEF At, Failing, Pc
<1>2. PICK j : j = To(worker[w], pc)
  OBVIOUS
<1>3. j.pc = pc /\ j.msg = worker[w].msg /\ j.at = worker[w].at /\ j.dseq = worker[w].dseq /\ PhaseOK(worker[w])
  BY <1>1, <1>2, AtWork, ToTypes
<1>4. PhaseOK(j)
  BY <1>1, <1>3 DEF PhaseOK, Failing, WritingOff, Polling
<1>5. Holds(worker[w]) = worker[w].dseq /\ (pc # "spawn" => Holds(j) = worker[w].dseq)
  BY <1>3 DEF Holds, Failing, Remembers
<1>6. \/ Holds(j) = Holds(worker[w])
      \/ \A e \in Dseq : e = Holds(worker[w]) => ~Open(e)'
      \/ Fault
  BY <1>5, Zenon
<1> QED
  BY <1>1, <1>2, <1>4, <1>6, Goes, Zenon

LEMMA MarkFailedKeeps ==
  ASSUME IInv, NEW w \in Worker, MarkFailed(w)
  PROVE  IInv'
<1>1. /\ At(w, "fail_row") /\ ~At(w, "idle") /\ SetStatus(Here(w), "FAILED") /\ "FAILED" \in Statuses
      /\ UNCHANGED chain /\ UNCHANGED <<queue, others>> /\ MayFail
  BY DEF MarkFailed, At, Statuses, MayFail, others
<1>2. Here(w) \in Attempt /\ Exists(Here(w))
  BY <1>1, AtWork
<1>3. Calm
  BY <1>1, <1>2, StatusesAre, CalmWrites
<1>4. PICK pc \in {"give_up", "retry"} : Goto(w, pc) /\ (pc = "retry" => row[Here(w)].tries # MaxRetry)
  <2>1. CASE worker[w].msg.final \/ row[Here(w)].tries = MaxRetry
    BY <2>1, Zenon DEF MarkFailed
  <2>2. CASE ~(worker[w].msg.final \/ row[Here(w)].tries = MaxRetry)
    BY <2>2, Zenon DEF MarkFailed
  <2> QED
    BY <2>1, <2>2
<1>5. row[Here(w)].tries \in 0..MaxRetry
  BY <1>2 DEF IInv, Typed, Row
<1>6. pc \in Retrying => row[Here(w)].tries < MaxRetry
  BY <1>4, <1>5, PipelineAssumption DEF Retrying
<1>7. pc \in Failing /\ pc # "spawn" /\ worker[w].pc \in Failing \ {"spawn"}
  BY <1>1, <1>4 DEF Failing, At
<1> QED
  BY <1>1, <1>3, <1>4, <1>6, <1>7, FailureGoes, Zenon

LEMMA RetryKeeps ==
  ASSUME IInv, NEW w \in Worker, Retry(w)
  PROVE  IInv'
<1>1. /\ At(w, "retry") /\ ~At(w, "idle") /\ UNCHANGED <<row, chain>> /\ UNCHANGED <<queue, others>> /\ MayFail
      /\ worker[w].pc \in Failing \ {"spawn"} /\ worker[w].pc \in Retrying
  BY DEF Retry, At, MayFail, others, Failing, Retrying
<1>2. Calm
  BY <1>1, CalmStill
<1>3. PICK pc \in {"bury", "reclaim"} : Goto(w, pc)
  <2>1. CASE Cancelled
    BY <2>1, Zenon DEF Retry
  <2>2. CASE ~Cancelled
    BY <2>2, Zenon DEF Retry
  <2> QED
    BY <2>1, <2>2
<1>4. row[Here(w)].tries < MaxRetry
  BY <1>1, AtWork DEF JobOK, Here
<1>5. pc \in Failing /\ pc # "spawn"
  BY <1>3 DEF Failing
<1> QED
  BY <1>1, <1>2, <1>3, <1>4, <1>5, FailureGoes, Zenon

LEMMA ReclaimKeeps ==
  ASSUME IInv, NEW w \in Worker, Reclaim(w)
  PROVE  IInv'
<1>1. /\ worker[w].pc \in {"reclaim", "give_up"} /\ ~At(w, "idle") /\ UNCHANGED row /\ UNCHANGED <<queue, others>>
      /\ worker[w].pc \in Failing \ {"spawn"}
  BY DEF Reclaim, At, others, Failing
<1>2. /\ Calm /\ MayFail
      /\ Fault \/ \A e \in Dseq : e = worker[w].dseq => ~Open(e)'
  BY CalmCloses DEF Reclaim
<1>3. PICK pc \in {"spawn", "bury"} : Goto(w, pc) /\ (pc = "spawn" => At(w, "reclaim"))
  <2>1. CASE At(w, "reclaim")
    BY <2>1, Zenon DEF Reclaim
  <2>2. CASE ~At(w, "reclaim")
    BY <2>2, Zenon DEF Reclaim
  <2> QED
    BY <2>1, <2>2
<1>4. pc \in Retrying => row[Here(w)].tries < MaxRetry
  <2>1. pc \in Retrying => worker[w].pc \in Retrying
    BY <1>3 DEF Retrying, At
  <2> QED
    BY <1>1, <2>1, AtWork DEF JobOK, Here
<1>5. pc \in Failing
  BY <1>3 DEF Failing
<1> QED
  BY <1>1, <1>2, <1>3, <1>4, <1>5, FailureGoes, Zenon

\* A handler whose publishing failed polls on, writes the retry off or reports; the
\* message may have left all the same.
FailedSend(w, j) ==
  /\ j \in Job /\ JobOK(j) /\ Becomes(w, j)
  /\ Target(j) = worker[w].next.at /\ ~Submits(j)
  /\ Holds(j) = Holds(worker[w]) \/ Holds(worker[w]) = 0

LEMMA PollFailedSend ==
  ASSUME IInv, NEW w \in Worker, At(w, "publish"), worker[w].msg.step # "HANDLE_FAILURE",
         NEW pc \in {"finalize", "report"}, Goto(w, pc)
  PROVE  \E j : FailedSend(w, j)
<1>i. PICK i, j : i = worker[w] /\ j = To(worker[w], pc)
  OBVIOUS
<1>1. ~At(w, "idle") /\ pc \in Pc
  BY DEF At, Pc
<1>2. i \in Job /\ JobOK(i) /\ PhaseOK(i) /\ i.pc = "publish"
  BY <1>i, <1>1, AtWork DEF At
<1>3. j \in Job /\ j.pc = pc /\ j.msg = i.msg /\ j.at = i.at /\ j.dseq = i.dseq /\ j.next = i.next
  BY <1>i, <1>1, <1>2, ToTypes
<1>4. /\ i.msg.at = i.at /\ i.next.at = i.at /\ i.next.step # "SUBMIT_TX" /\ i.msg.step # "HANDLE_FAILURE"
  BY <1>i, <1>2 DEF PhaseOK, WritingOff
<1>5. JobOK(j)
  BY <1>2, <1>3, <1>4 DEF JobOK, PhaseOK, Failing, Retrying, Polling, WritingOff
<1>6. Target(j) = i.next.at /\ ~Submits(j) /\ Holds(j) = Holds(i)
  BY <1>2, <1>3, <1>4 DEF Target, Submits, Holds, Remembers
<1>7. Becomes(w, j)
  BY <1>i, Moved DEF IInv
<1> QED
  BY <1>i, <1>3, <1>5, <1>6, <1>7, Zenon DEF FailedSend

LEMMA AgainFailedSend ==
  ASSUME IInv, NEW w \in Worker, At(w, "publish"), worker[w].msg.step = "POLL_URLS",
         worker[w].msg.poll # MaxPolls, Publish(w, Again(worker[w].msg))
  PROVE  \E j : FailedSend(w, j)
<1>i. PICK i, m, j : i = worker[w] /\ m = Again(worker[w].msg) /\ j = Sends(worker[w], m)
  OBVIOUS
<1>1. ~At(w, "idle")
  BY DEF At
<1>2. i \in Job /\ JobOK(i) /\ PhaseOK(i) /\ i.pc = "publish" /\ i.msg \in Note
  BY <1>i, <1>1, AtWork DEF At
<1>3. m \in Note /\ m.step = "POLL_URLS" /\ m.at = i.msg.at
  BY <1>i, <1>2, AgainTypes
<1>4. j \in Job /\ j.pc = "publish" /\ j.msg = i.msg /\ j.at = i.at /\ j.dseq = i.dseq /\ j.next = m
  BY <1>i, <1>2, <1>3, SendsTypes
<1>5. /\ i.msg.at = i.at /\ i.next.at = i.at /\ i.next.step # "SUBMIT_TX"
      /\ i.msg.step # "HANDLE_FAILURE"
  BY <1>i, <1>2 DEF PhaseOK, WritingOff
<1>6. JobOK(j)
  BY <1>2, <1>3, <1>4, <1>5 DEF JobOK, PhaseOK, Failing, Retrying, Polling, WritingOff
<1>7. Target(j) = i.next.at /\ ~Submits(j) /\ Holds(j) = Holds(i)
  BY <1>2, <1>3, <1>4, <1>5 DEF Target, Submits, Holds, Remembers
<1>8. Becomes(w, j)
  BY <1>i, Moved DEF IInv
<1> QED
  BY <1>i, <1>4, <1>6, <1>7, <1>8, Zenon DEF FailedSend

LEMMA RetryFailedSend ==
  ASSUME IInv, NEW w \in Worker, At(w, "publish"), worker[w].msg.step = "HANDLE_FAILURE",
         Becomes(w, GivesUp(worker[w]))
  PROVE  \E j : FailedSend(w, j)
<1>i. PICK i, j : i = worker[w] /\ j = GivesUp(worker[w])
  OBVIOUS
<1>1. ~At(w, "idle")
  BY DEF At
<1>2. i \in Job /\ JobOK(i) /\ PhaseOK(i) /\ i.pc = "publish"
  BY <1>i, <1>1, AtWork DEF At
<1>3. j \in Job /\ j.pc = "abandon" /\ j.msg = i.msg /\ j.at = i.next.at /\ j.dseq = i.dseq /\ j.next = i.next
  BY <1>i, <1>2, GivesUpTypes
<1>4. i.next.step = "SUBMIT_TX" /\ i.msg.step = "HANDLE_FAILURE"
  BY <1>i, <1>2 DEF PhaseOK
<1>5. JobOK(j)
  BY <1>2, <1>3, <1>4 DEF JobOK, PhaseOK, Failing, Retrying, Polling, WritingOff
<1>6. Target(j) = i.next.at /\ ~Submits(j) /\ Holds(i) = 0
  BY <1>2, <1>3, <1>4 DEF Target, Submits, Holds, Remembers
<1> QED
  BY <1>i, <1>3, <1>5, <1>6, Zenon DEF FailedSend

LEMMA SendFailsKeeps ==
  ASSUME IInv, NEW w \in Worker, SendFails(w)
  PROVE  IInv'
<1>1. /\ At(w, "publish") /\ ~At(w, "idle") /\ Fault /\ MayFail /\ UNCHANGED others /\ UNCHANGED <<row, chain>>
      /\ queue' = queue \/ queue' = queue \cup {worker[w].next}
  BY Zenon DEF SendFails, At, MayFail, others
<1>2. Calm
  BY <1>1, CalmStill
<1>3. PICK j : FailedSend(w, j)
  <2>1. CASE worker[w].msg.step = "POLL_URLS" /\ worker[w].msg.poll = MaxPolls
    <3>1. Goto(w, "finalize") /\ worker[w].msg.step # "HANDLE_FAILURE"
      BY <2>1 DEF SendFails
    <3> QED
      BY <1>1, <3>1, PollFailedSend
  <2>2. CASE worker[w].msg.step = "POLL_URLS" /\ worker[w].msg.poll # MaxPolls
    <3>1. Publish(w, Again(worker[w].msg))
      BY <2>2 DEF SendFails, Again
    <3> QED
      BY <1>1, <2>2, <3>1, AgainFailedSend
  <2>3. CASE worker[w].msg.step = "HANDLE_FAILURE"
    <3>1. worker' = [worker EXCEPT ![w].pc = "abandon", ![w].at = worker[w].next.at]
      BY <2>3 DEF SendFails
    <3>2. Becomes(w, GivesUp(worker[w]))
      BY <3>1 DEF Becomes, GivesUp, IInv, Typed
    <3> QED
      BY <1>1, <2>3, <3>2, RetryFailedSend
  <2>4. CASE worker[w].msg.step \notin {"POLL_URLS", "HANDLE_FAILURE"}
    <3>1. Goto(w, "report") /\ worker[w].msg.step # "HANDLE_FAILURE"
      BY <2>4 DEF SendFails
    <3> QED
      BY <1>1, <3>1, PollFailedSend
  <2> QED
    BY <2>1, <2>2, <2>3, <2>4
<1>4. PICK i, m : i = worker[w] /\ m = worker[w].next
  OBVIOUS
<1>5. /\ i \in Job /\ JobOK(i) /\ PhaseOK(i) /\ i.pc = "publish" /\ m \in Note /\ Exists(m.at)
      /\ i.msg \in Note /\ Exists(i.msg.at)
  BY <1>1, <1>4, AtWork DEF At
<1>6. JobOK(j)'
  BY <1>2, <1>3, CalmIs, JobKept DEF FailedSend
<1>7. faults' = faults + 1 /\ faults' \in 0..MaxFaults /\ faults \in Nat
  BY <1>1, MayFailTypes
<1>8. Target(j) = Target(i) /\ ~Submits(j) /\ j \in Job /\ Becomes(w, j)
  BY <1>3, <1>4, <1>5 DEF FailedSend, Target
<1>9. CASE queue' = queue
  <2>1. Handles(w, j, worker[w].msg)
    BY <1>1, <1>2, <1>4, <1>5, <1>6, <1>7, <1>8, <1>9, CalmIs DEF Handles
  <2>2. Held(w, j, 0)
    BY <1>2, <1>3 DEF Held, Calm, OnlyCloses, FailedSend, Dseq
  <2>3. faults' >= faults + Cost(0)
    BY <1>7 DEF Cost
  <2>4. Moves(w, j, 0)
    BY <1>2, <1>4, <1>5, <1>8, <1>9, <2>1, <2>2, <2>3, Zeros, Zenon DEF Moves, Calm
  <2> QED
    BY <2>4, MovesKeeps
<1>10. CASE queue' = queue \cup {m}
  <2>1. Handles(w, j, m)
    BY <1>1, <1>2, <1>4, <1>5, <1>6, <1>7, <1>8, <1>10, CalmIs DEF Handles
  <2>2. Passes(i, m)
    BY <1>4, <1>5 DEF Passes, PhaseOK, Target, Submits, IsSubmit, Keeps, Holds, Remembers
  <2>3. Leaves(w, j, m)
    BY <1>2, <1>4, <1>5, <1>7, <1>8, <1>10, <2>1, <2>2, Zenon DEF Leaves, Calm
  <2> QED
    BY <2>3, LeavesKeeps
<1> QED
  BY <1>1, <1>4, <1>9, <1>10

-----------------------------------------------------------------------------
(* SUBMIT_TX: a deployment is created, and its dseq saved. *)

LEMMA SubmitKeeps ==
  ASSUME IInv, NEW w \in Worker, Submit(w)
  PROVE  IInv'
<1>1. At(w, "submit") /\ ~At(w, "idle") /\ UNCHANGED row /\ UNCHANGED queue /\ UNCHANGED others
  BY DEF Submit, At, others
<1>2. PICK d \in Dseq : /\ IsLeast(d, {e \in Dseq : chain[e] = "none"})
                        /\ chain' = [chain EXCEPT ![d] = "open"]
                        /\ \/ /\ worker' = [worker EXCEPT ![w].pc = "save_dseq", ![w].dseq = d]
                              /\ UNCHANGED faults
                           \/ Goto(w, "report") /\ Fault
  BY DEF Submit
<1>3. d \in 0..MaxDseq /\ d # 0 /\ chain[d] = "none"
  BY <1>2, PipelineAssumption DEF IsLeast, Dseq
<1>4. PICK i : i = worker[w]
  OBVIOUS
<1>5. /\ i \in Job /\ JobOK(i) /\ PhaseOK(i) /\ i.pc = "submit" /\ i.msg \in Note /\ Exists(i.msg.at)
      /\ i.msg.step # "HANDLE_FAILURE" /\ i.msg.at = i.at
  <2>1. i \in Job /\ JobOK(i) /\ PhaseOK(i) /\ i.pc = "submit" /\ i.msg \in Note /\ Exists(i.msg.at)
    BY <1>1, <1>4, AtWork DEF At
  <2> QED
    BY <2>1 DEF PhaseOK, Failing, WritingOff
<1>6. /\ chain' \in [0..MaxDseq -> States] /\ chain'[0] = "none" /\ ChainKept /\ chain'[d] = "open"
      /\ \A e \in Dseq \ {d} : chain'[e] = chain[e]
  <2>1. Dseq \subseteq 0..MaxDseq
    BY PipelineAssumption DEF Dseq
  <2> QED
    BY <1>2, <1>3, <2>1 DEF IInv, Typed, States, ChainKept
<1>7. Steady /\ RowsStill
  BY <1>1, <1>6, Unchanged DEF IInv, Steady
<1>8. (\A a \in Attempt : RowOK(a)') /\ \A e \in Dseq \ {d} : Open(e)' => Open(e)
  BY <1>6, <1>7, RowsStay DEF IInv, Open
<1>9. Target(i) = i.at /\ Submits(i) /\ Holds(i) = 0
  BY <1>5 DEF Target, Submits, Holds, Remembers
<1>10. CASE worker' = [worker EXCEPT ![w].pc = "save_dseq", ![w].dseq = d] /\ UNCHANGED faults
  <2>1. PICK j : j = Got(i, d)
    OBVIOUS
  <2>2. j \in Job /\ j.pc = "save_dseq" /\ j.msg = i.msg /\ j.at = i.at /\ j.dseq = d /\ j.next = i.next
    BY <1>3, <1>5, <2>1, GotTypes
  <2>3. Becomes(w, j)
    BY <1>4, <1>10, <2>1 DEF Becomes, Got, IInv, Typed
  <2>4. JobOK(j)'
    <3>1. JobOK(i)'
      BY <1>5, <1>7, JobKept
    <3> QED
      BY <1>5, <1>6, <2>2, <3>1 DEF JobOK, PhaseOK, Failing, Retrying, Polling, WritingOff
  <2>5. Handles(w, j, worker[w].msg)
    BY <1>1, <1>4, <1>5, <1>7, <1>8, <1>10, <2>2, <2>3, <2>4, FaultTypes DEF Handles, IInv
  <2>6. Target(j) = Target(i) /\ Holds(j) = d
    BY <1>9, <2>2 DEF Target, Holds, Remembers
  <2>7. Held(w, j, 0)
    BY <1>4, <1>8, <1>9, <2>6 DEF Held, Dseq
  <2>8. faults' >= faults + Cost(0)
    BY <1>10, FaultTypes DEF Cost, IInv
  <2>9. Moves(w, j, 0)
    BY <1>1, <1>4, <1>5, <1>7, <1>9, <2>2, <2>5, <2>6, <2>7, <2>8, Zeros, Zenon DEF Moves
  <2> QED
    BY <2>9, MovesKeeps
<1>11. CASE Goto(w, "report") /\ Fault
  <2>1. PICK j : j = To(i, "report")
    OBVIOUS
  <2>2. j \in Job /\ j.pc = "report" /\ j.msg = i.msg /\ j.at = i.at /\ j.dseq = i.dseq /\ j.next = i.next
    BY <1>5, <2>1, ToTypes DEF Pc
  <2>3. Becomes(w, j)
    BY <1>4, <1>11, <2>1, Moved DEF IInv
  <2>4. JobOK(j)
    BY <1>5, <2>2 DEF JobOK, PhaseOK, Failing, Retrying, Polling, WritingOff
  <2>5. JobOK(j)'
    BY <1>7, <2>2, <2>4, JobKept
  <2>6. faults' = faults + 1 /\ faults' \in 0..MaxFaults /\ faults \in Nat
    BY <1>11, FaultTypes DEF IInv
  <2>7. Handles(w, j, worker[w].msg)
    BY <1>1, <1>4, <1>5, <1>7, <1>8, <2>2, <2>3, <2>5, <2>6 DEF Handles
  <2>8. Target(j) = Target(i) /\ ~Submits(j)
    BY <1>9, <2>2 DEF Target, Submits
  <2>9. Held(w, j, d)
    BY <1>4, <1>8, <1>9 DEF Held, Dseq
  <2>10. faults' >= faults + Cost(d)
    BY <1>3, <2>6 DEF Cost
  <2>11. Moves(w, j, d)
    BY <1>1, <1>3, <1>4, <1>5, <1>7, <1>9, <2>2, <2>7, <2>8, <2>9, <2>10, Zenon DEF Moves
  <2> QED
    BY <2>11, MovesKeeps
<1> QED
  BY <1>2, <1>10, <1>11

\* A step changes the dseq of row a only: what is held changes for its handlers only.
LEMMA HoldsBut ==
  ASSUME NEW a \in Attempt, \A b \in Attempt \ {a} : row'[b].dseq = row[b].dseq
  PROVE  /\ \A j \in Job \cup {Idle} : (Holds(j))' = Holds(j) \/ (j # Idle /\ j.at = a /\ Holds(j) = row[a].dseq)
         /\ \A m \in Note : (Keeps(m))' = Keeps(m) \/ (m.at = a /\ Keeps(m) = row[a].dseq)
<1>1. ASSUME NEW j \in Job \cup {Idle}
      PROVE  (Holds(j))' = Holds(j) \/ (j # Idle /\ j.at = a /\ Holds(j) = row[a].dseq)
  <2>1. CASE j = Idle
    BY <2>1, IdleIsNoJob DEF Holds, Remembers
  <2>2. CASE j \in Job /\ j.at # a
    <3>1. row'[j.at].dseq = row[j.at].dseq
      BY <2>2, JobFields
    <3> QED
      BY <3>1, Zenon DEF Holds, Submits
  <2>3. CASE j \in Job /\ j.at = a
    <3>1. j # Idle
      BY <2>3, IdleIsNoJob
    <3> QED
      BY <2>3, <3>1, Zenon DEF Holds, Submits
  <2> QED
    BY <2>1, <2>2, <2>3
<1>2. ASSUME NEW m \in Note PROVE (Keeps(m))' = Keeps(m) \/ (m.at = a /\ Keeps(m) = row[a].dseq)
  <2>1. CASE m.at # a
    BY <2>1, NoteFields, Zenon DEF Keeps
  <2>2. CASE m.at = a
    BY <2>2, Zenon DEF Keeps
  <2> QED
    BY <2>1, <2>2
<1> QED
  BY <1>1, <1>2

LEMMA SaveDseqKeeps ==
  ASSUME IInv, NEW w \in Worker, SaveDseq(w)
  PROVE  IInv'
<1>i. PICK i, a, d, m : i = worker[w] /\ a = Here(w) /\ d = worker[w].dseq /\ m = worker[w].msg
  OBVIOUS
<1>n. PICK n : n = Msg("CHECK_BIDS", a)
  OBVIOUS
<1>s. PICK j : j = Sends(i, n)
  OBVIOUS
<1>t. Typed /\ Refs /\ Retries /\ Deposits
  BY DEF IInv
<1>1. /\ At(w, "save_dseq") /\ ~At(w, "idle") /\ UNCHANGED chain /\ UNCHANGED queue /\ UNCHANGED faults /\ UNCHANGED others
      /\ row' = [row EXCEPT ![a].dseq = d, ![a].status = "WAITING_BIDS"]
  BY <1>i DEF SaveDseq, At, others
<1>2. /\ i \in Job /\ JobOK(i) /\ PhaseOK(i) /\ i.pc = "save_dseq" /\ m \in Note /\ Exists(m.at) /\ a = i.at
      /\ m = i.msg /\ d = i.dseq /\ a \in Attempt /\ Exists(a) /\ d \in 0..MaxDseq
      /\ m.step # "HANDLE_FAILURE" /\ m.at = a
  <2>1. /\ i \in Job /\ JobOK(i) /\ PhaseOK(i) /\ i.pc = "save_dseq" /\ m \in Note /\ Exists(m.at) /\ a = i.at
        /\ m = i.msg /\ d = i.dseq /\ a \in Attempt /\ Exists(a) /\ d \in 0..MaxDseq
    BY <1>i, <1>1, AtWork DEF At, Here
  <2> QED
    BY <2>1 DEF PhaseOK, Failing, WritingOff
<1>3. n \in Note /\ n.step = "CHECK_BIDS" /\ n.at = a
  BY <1>2, <1>n, MsgTypes DEF Step
<1>4. j \in Job /\ j.pc = "publish" /\ j.msg = m /\ j.at = a /\ j.dseq = d /\ j.next = n
  BY <1>2, <1>3, <1>s, SendsTypes
<1>5. Becomes(w, j)
  BY <1>i, <1>n, <1>s, <1>t, Moved DEF SaveDseq
<1>6. /\ row' \in [Attempt -> Row] /\ row'[a].dseq = d /\ row'[a].tries = row[a].tries /\ row'[a].status = "WAITING_BIDS"
      /\ \A b \in Attempt \ {a} : row'[b] = row[b]
  <2> DEFINE new == [row[a] EXCEPT !.dseq = d, !.status = "WAITING_BIDS"]
  <2>1. row[a] \in Row
    BY <1>2, <1>t, RowType
  <2>2. "WAITING_BIDS" \in Status
    BY DEF Status, InProgress
  <2>3. new \in Row /\ new.status = "WAITING_BIDS" /\ new.tries = row[a].tries /\ new.dseq = d
    BY <1>2, <2>1, <2>2 DEF Row
  <2>4. row' = [row EXCEPT ![a] = new]
    BY <1>1, <1>2 DEF Typed, IInv
  <2> HIDE DEF new
  <2> QED
    BY <1>2, <1>t, <2>3, <2>4 DEF Typed
<1>7. TriesStill /\ RowsKept
  <2>1. ASSUME NEW b \in Attempt
        PROVE  (Exists(b)' => Exists(b)) /\ (Exists(b) => Exists(b)') /\ row'[b].tries = row[b].tries
    BY <1>2, <1>6 DEF Exists
  <2> QED
    BY <2>1 DEF TriesStill, RowsKept
<1>8. Steady
  BY <1>1, <1>6, <1>7, <1>t, Unchanged DEF Steady
<1>9. \A b \in Attempt : RowOK(b)'
  <2> TAKE b \in Attempt
  <2>1. RowOK(b)
    BY <1>t DEF Refs
  <2>2. row'[b].dseq # 0 => chain'[row'[b].dseq] # "none"
    BY <1>1, <1>2, <1>6, <2>1 DEF RowOK, JobOK
  <2>3. Exists(b)' /\ row'[b].tries = 0 => b = 1
    BY <1>7, <2>1 DEF RowOK, TriesStill
  <2> QED
    BY <2>2, <2>3 DEF RowOK
<1>10. JobOK(j)
  BY <1>2, <1>3, <1>4 DEF JobOK, PhaseOK, Failing, Retrying, Polling, WritingOff
<1>11. JobOK(j)'
  BY <1>4, <1>8, <1>10, JobKept
<1>f. faults \in Nat /\ faults' = faults /\ faults' \in 0..MaxFaults
  BY <1>1, <1>t, FaultTypes
<1>12. Handles(w, j, m)
  BY <1>1, <1>2, <1>4, <1>5, <1>8, <1>9, <1>11, <1>f DEF Handles
<1>13. Typed' /\ Refs'
  BY <1>12, <1>t, HandlerTypes
<1>h. worker[w] # Idle /\ j # Idle /\ Target(i) = a /\ Target(j) = a /\ Submits(i) /\ ~Submits(j) /\ Holds(i) = d
  BY <1>i, <1>2, <1>3, <1>4, IdleIsNoJob DEF Target, Submits, Holds, Remembers
<1>14. Retries'
  <2>1. ASSUME NEW k \in Nat PROVE Pays(w, m, k)
    <3>1. /\ w \in Working(k) <=> worker[w] # Idle /\ Low(Target(worker[w]), k)
          /\ w \in Working(k)' <=> j # Idle /\ Low(Target(j), k)
          /\ m \in Waiting(k) <=> m \in queue /\ Low(m.at, k)
          /\ m \in Waiting(k)' <=> m \in queue' /\ Low(m.at, k)
      BY <1>7, <1>12, <1>t, CountedAre
    <3>2. (w \in Working(k) <=> w \in Working(k)') /\ (m \in Waiting(k) <=> m \in Waiting(k)')
      BY <1>i, <1>1, <1>h, <3>1, Zenon
    <3>3. Ind(w \in Working(k)) = Ind(w \in Working(k)') /\ Ind(m \in Waiting(k)) = Ind(m \in Waiting(k)')
      BY <3>2 DEF Ind
    <3>4. Ind(w \in Working(k)') \in {0, 1} /\ Ind(m \in Waiting(k)') \in {0, 1}
      BY DEF Ind
    <3> QED
      BY <1>f, <3>3, <3>4 DEF Pays
  <2> QED
    BY <1>7, <1>12, <1>t, <2>1, RetriesKept
<1>15. Weight(w, m)' + 1 <= Weight(w, m)
  <2>1. /\ w \in Busy <=> worker[w] # Idle
        /\ w \in Busy' <=> j # Idle
        /\ w \in Submitters <=> Submits(worker[w])
        /\ w \in Submitters' <=> Submits(j)
        /\ m \in SubmitMessages <=> m \in queue /\ m.step = "SUBMIT_TX"
        /\ m \in SubmitMessages' <=> m \in queue' /\ m.step = "SUBMIT_TX"
    BY <1>12, <1>t, WeighedAre
  <2>2. /\ w \in Busy /\ w \in Busy' /\ w \in Submitters /\ w \notin Submitters'
        /\ (m \in SubmitMessages <=> m \in SubmitMessages') /\ (m \in queue <=> m \in queue')
    BY <1>i, <1>1, <1>h, <2>1, Zenon
  <2>3. /\ Ind(w \in Busy) = 1 /\ Ind(w \in Busy') = 1 /\ Ind(w \in Submitters) = 1 /\ Ind(w \in Submitters') = 0
        /\ Ind(m \in SubmitMessages) = Ind(m \in SubmitMessages') /\ Ind(m \in queue) = Ind(m \in queue')
    BY <2>2 DEF Ind
  <2>4. Ind(m \in SubmitMessages') \in {0, 1} /\ Ind(m \in queue') \in {0, 1}
    BY DEF Ind
  <2> QED
    BY <2>3, <2>4, Weights
<1>b. \A b \in Attempt \ {a} : row'[b].dseq = row[b].dseq
  BY <1>6
<1>c. /\ worker'[w] = j /\ worker[w] = i /\ \A v \in Worker \ {w} : worker'[v] = worker[v]
      /\ queue' = queue /\ chain' = chain
  BY <1>i, <1>1, <1>12, <1>t, HandlesIs
<1>16. Loose' \subseteq Loose \cup {row[a].dseq}
  <2> SUFFICES ASSUME NEW e \in Loose', e # row[a].dseq PROVE e \in Loose
    OBVIOUS
  <2>1. e \in Dseq /\ Open(e)
    BY <1>c, Zenon DEF Loose, Open
  <2>2. ASSUME NEW v \in Worker PROVE e # Holds(worker[v])
    <3>1. e # (Holds(worker[v]))'
      BY Zenon DEF Loose
    <3>2. CASE v = w
      <4>1. (Holds(worker[w]))' = row'[a].dseq
        BY <1>3, <1>4, <1>c, Zenon DEF Holds, Submits, Remembers
      <4> QED
        BY <1>6, <1>c, <1>h, <3>1, <3>2, <4>1, Zenon
    <3>3. CASE v # w
      <4>1. worker'[v] = worker[v] /\ worker[v] \in Job \cup {Idle}
        BY <1>c, <1>t, <3>3 DEF Typed
      <4>2. PICK q : q = worker[v]
        OBVIOUS
      <4>3. (Holds(worker[v]))' = (Holds(q))'
        BY <4>1, <4>2, Zenon DEF Holds, Submits
      <4>4. (Holds(q))' = Holds(q) \/ Holds(q) = row[a].dseq
        BY <1>2, <1>b, <4>1, <4>2, HoldsBut
      <4> QED
        BY <3>1, <4>2, <4>3, <4>4
    <3> QED
      BY <3>2, <3>3
  <2>3. ASSUME NEW q \in queue PROVE e # Keeps(q)
    <3>1. e # (Keeps(q))'
      BY <1>c, Zenon DEF Loose
    <3>2. (Keeps(q))' = Keeps(q) \/ Keeps(q) = row[a].dseq
      BY <1>2, <1>b, <1>t, HoldsBut DEF Typed
    <3> QED
      BY <3>1, <3>2
  <2> QED
    BY <2>1, <2>2, <2>3, Zenon DEF Loose
<1>17. Fresh \subseteq Fresh' \cup {a} /\ (row[a].dseq # 0 => Fresh \subseteq Fresh')
  <2> SUFFICES ASSUME NEW b \in Fresh, b # a PROVE b \in Fresh'
    <3>1. row[a].dseq # 0 => a \notin Fresh
      BY DEF Fresh
    <3> QED
      BY <3>1
  <2>1. b \in Attempt /\ row'[b].dseq = 0
    BY <1>b DEF Fresh
  <2>2. CASE \E q \in SubmitMessages : q.at = b
    <3>1. \E q \in SubmitMessages' : q.at = b
      BY <1>c, <2>2, Zenon DEF SubmitMessages
    <3> QED
      BY <2>1, <3>1, Zenon DEF Fresh
  <2>3. CASE \E v \in Submitters : Target(worker[v]) = b
    <3>1. PICK v \in Submitters : Target(worker[v]) = b
      BY <2>3
    <3>2. v # w
      BY <1>c, <1>h, <3>1
    <3>3. worker'[v] = worker[v] /\ v \in Worker
      BY <1>c, <3>1, <3>2 DEF Submitters, Busy
    <3>4. v \in Submitters' /\ (Target(worker[v]))' = b
      BY <3>1, <3>3, Zenon DEF Submitters, Busy, Submits, Target
    <3> QED
      BY <2>1, <3>4, Zenon DEF Fresh
  <2> QED
    BY <2>2, <2>3, Zenon DEF Fresh
<1>18. IsFiniteSet(Loose) /\ IsFiniteSet(Fresh') /\ IsFiniteSet(Loose')
  BY Finite, <1>t, FS_Subset, Zenon DEF Loose, Fresh
<1>19. CASE row[a].dseq = 0
  <2>1. 0 \notin Loose'
    BY DEF Loose, Dseq
  <2>2. Loose' \subseteq Loose
    BY <1>16, <1>19, <2>1
  <2>3. Cardinality(Loose') <= Cardinality(Loose) + 0
    BY <1>18, <2>2, NoMore
  <2>4. Cardinality(Fresh) <= Cardinality(Fresh') + 1
    BY <1>17, <1>18, OneMore
  <2>5. Weight(w, m)' + 0 + 1 <= Weight(w, m) + 2 * (faults' - faults)
    BY <1>15, <1>f DEF Weight, Ind
  <2>6. Deposits'
    BY <1>12, <1>t, <2>3, <2>4, <2>5, DepositsKept
  <2> QED
    BY <1>13, <1>14, <2>6 DEF IInv
<1>20. CASE row[a].dseq # 0
  <2>3. Cardinality(Loose') <= Cardinality(Loose) + 1
    BY <1>16, <1>18, OneMore
  <2>4. Cardinality(Fresh) <= Cardinality(Fresh') + 0
    BY <1>17, <1>18, <1>20, NoMore
  <2>5. Weight(w, m)' + 1 + 0 <= Weight(w, m) + 2 * (faults' - faults)
    BY <1>15, <1>f DEF Weight, Ind
  <2>6. Deposits'
    BY <1>12, <1>t, <2>3, <2>4, <2>5, DepositsKept
  <2> QED
    BY <1>13, <1>14, <2>6 DEF IInv
<1> QED
  BY <1>19, <1>20

\* A retry: the row that is added counts for the handler that adds it.
LEMMA SpawnKeeps ==
  ASSUME IInv, NEW w \in Worker, Spawn(w)
  PROVE  IInv'
<1>i. PICK i, h, m : i = worker[w] /\ h = Here(w) /\ m = worker[w].msg
  OBVIOUS
<1>t. Typed /\ Refs /\ Retries /\ Deposits
  BY DEF IInv
<1>1. /\ At(w, "spawn") /\ ~At(w, "idle") /\ UNCHANGED chain /\ UNCHANGED queue /\ UNCHANGED faults /\ UNCHANGED others
  BY DEF Spawn, At, others
<1>2. /\ i \in Job /\ JobOK(i) /\ PhaseOK(i) /\ i.pc = "spawn" /\ m \in Note /\ Exists(m.at) /\ h = i.at
      /\ m = i.msg /\ h \in Attempt /\ Exists(h) /\ row[h].tries < MaxRetry
      /\ m.step = "HANDLE_FAILURE" /\ m.at = h
  <2>1. /\ i \in Job /\ JobOK(i) /\ PhaseOK(i) /\ i.pc = "spawn" /\ m \in Note /\ Exists(m.at) /\ h = i.at
        /\ m = i.msg /\ h \in Attempt /\ Exists(h)
    BY <1>i, <1>1, AtWork DEF At, Here
  <2> QED
    BY <2>1 DEF PhaseOK, JobOK, Failing, Retrying, WritingOff
<1>3. PICK a \in Attempt :
        /\ IsLeast(a, Unused)
        /\ row' = [row EXCEPT ![a] = [status |-> "CREATING", tries |-> row[h].tries + 1, dseq |-> 0]]
        /\ Publish(w, Msg("SUBMIT_TX", a))
  BY <1>i DEF Spawn
<1>n. PICK n, j : n = Msg("SUBMIT_TX", a) /\ j = Sends(i, n)
  OBVIOUS
<1>4. n \in Note /\ n.step = "SUBMIT_TX" /\ n.at = a
  BY <1>n, MsgTypes DEF Step
<1>5. j \in Job /\ j.pc = "publish" /\ j.msg = m /\ j.at = h /\ j.dseq = i.dseq /\ j.next = n
  BY <1>2, <1>4, <1>n, SendsTypes
<1>6. Becomes(w, j)
  BY <1>i, <1>n, <1>3, <1>t, Moved
<1>7. ~Exists(a)
  BY <1>3 DEF IsLeast, Unused
<1>8. /\ row' \in [Attempt -> Row] /\ row'[a].dseq = 0 /\ row'[a].tries = row[h].tries + 1 /\ Exists(a)'
      /\ \A b \in Attempt \ {a} : row'[b] = row[b]
  <2> DEFINE new == [status |-> "CREATING", tries |-> row[h].tries + 1, dseq |-> 0]
  <2>1. row[h].tries \in 0..MaxRetry
    BY <1>2, <1>t DEF Typed, Row
  <2>2. row[h].tries + 1 \in 0..MaxRetry
    BY <1>2, <2>1, PipelineAssumption
  <2>3. "CREATING" \in Status /\ 0 \in 0..MaxDseq
    BY Zeros DEF Status, InProgress
  <2>4. new \in Row
    BY <2>2, <2>3 DEF Row
  <2>5. new.dseq = 0 /\ new.tries = row[h].tries + 1 /\ new.status = "CREATING" /\ row' = [row EXCEPT ![a] = new]
    BY <1>3
  <2> HIDE DEF new
  <2>6. row' \in [Attempt -> Row] /\ row'[a] = new /\ \A b \in Attempt \ {a} : row'[b] = row[b]
    BY <1>t, <2>4, <2>5 DEF Typed
  <2>7. Exists(a)'
    BY <2>5, <2>6 DEF Exists
  <2> QED
    BY <2>5, <2>6, <2>7
<1>9. RowsKept /\ \A b \in Attempt \ {a} : Exists(b)' <=> Exists(b)
  BY <1>7, <1>8 DEF RowsKept, Exists
<1>10. Steady
  BY <1>1, <1>8, <1>9, <1>t, Unchanged DEF Steady
<1>11. row[h].tries \in Nat
  BY <1>2, <1>t, RowType
<1>12. \A b \in Attempt : RowOK(b)'
  <2> TAKE b \in Attempt
  <2>1. RowOK(b)
    BY <1>t DEF Refs
  <2>2. CASE b = a
    BY <1>8, <1>11, <2>2 DEF RowOK
  <2>3. CASE b # a
    BY <1>1, <1>8, <1>9, <2>1, <2>3 DEF RowOK
  <2> QED
    BY <2>2, <2>3
<1>13. JobOK(j)'
  <2>1. JobOK(i)'
    BY <1>2, <1>10, JobKept
  <2> QED
    BY <1>2, <1>4, <1>5, <1>8, <2>1 DEF JobOK, PhaseOK, Failing, Retrying, Polling, WritingOff
<1>f. faults \in Nat /\ faults' = faults /\ faults' \in 0..MaxFaults
  BY <1>1, <1>t, FaultTypes
<1>14. Handles(w, j, m)
  BY <1>1, <1>2, <1>5, <1>6, <1>10, <1>12, <1>13, <1>f DEF Handles
<1>15. Typed' /\ Refs'
  BY <1>14, <1>t, HandlerTypes
<1>h. /\ worker[w] # Idle /\ j # Idle /\ Target(i) = h /\ Target(j) = a /\ ~Submits(i) /\ Submits(j)
      /\ Holds(i) = 0
  BY <1>i, <1>2, <1>4, <1>5, IdleIsNoJob DEF Target, Submits, Holds, Remembers
<1>c. /\ worker'[w] = j /\ worker[w] = i /\ \A v \in Worker \ {w} : worker'[v] = worker[v]
      /\ queue' = queue /\ chain' = chain
  BY <1>i, <1>1, <1>14, <1>t, HandlesIs
<1>16. Retries'
  <2> SUFFICES ASSUME NEW k \in Nat
               PROVE  Cardinality(Retried(k)') + Cardinality(Waiting(k)') + Cardinality(Working(k)') <= 1 + faults'
    BY Zenon DEF Retries
  <2>1. Cardinality(Retried(k)) + Cardinality(Waiting(k)) + Cardinality(Working(k)) <= 1 + faults
    BY <1>t DEF Retries
  <2>2. Waiting(k)' = Waiting(k)
    <3>1. \A q \in queue : row'[q.at].tries = row[q.at].tries
      BY <1>9, <1>t, NoteAt
    <3> QED
      BY <1>c, <3>1 DEF Waiting
  <2>3. /\ Cardinality(Working(k)) \in Nat /\ Cardinality(Working(k)') \in Nat
        /\ Cardinality(Working(k)') + Ind(w \in Working(k)) = Cardinality(Working(k)) + Ind(w \in Working(k)')
    BY <1>14, <1>t, WorkingCount
  <2>4. /\ w \in Working(k) <=> row[h].tries <= k
        /\ w \in Working(k)' <=> row[h].tries + 1 <= k
    <3>1. w \in Busy /\ w \in Busy'
      BY <1>c, <1>h DEF Busy
    <3>2. Target(worker[w]) = h /\ (Target(worker[w]))' = a
      <4>1. (Target(worker[w]))' = Target(j)
        BY <1>c, Zenon DEF Target
      <4> QED
        BY <1>c, <1>h, <4>1
    <3>3. w \in Working(k) <=> row[h].tries <= k
      BY <3>1, <3>2 DEF Working
    <3>4. w \in Working(k)' <=> row'[a].tries <= k
      BY <3>1, <3>2, Zenon DEF Working
    <3> QED
      BY <1>8, <3>3, <3>4
  <2>5. IsFiniteSet(Retried(k)) /\ Cardinality(Waiting(k)) \in Nat
    BY <1>14, <1>t, WaitingCount, Finite, FS_Subset, Zenon DEF Retried
  <2>6. CASE row[h].tries = k
    <3>1. Ind(w \in Working(k)) = 1 /\ Ind(w \in Working(k)') = 0
      BY <1>11, <2>4, <2>6 DEF Ind
    <3>2. Retried(k)' \subseteq Retried(k) \cup {a}
      BY <1>8, <1>9 DEF Retried
    <3>3. /\ Cardinality(Retried(k)) \in Nat /\ Cardinality(Retried(k)') \in Nat
          /\ Cardinality(Retried(k)') <= Cardinality(Retried(k)) + 1
      BY <2>5, <3>2, OneMore
    <3> QED
      BY <1>f, <2>1, <2>2, <2>3, <2>5, <3>1, <3>3
  <2>7. CASE row[h].tries # k
    <3>1. Ind(w \in Working(k)) = Ind(w \in Working(k)') /\ Ind(w \in Working(k)) \in {0, 1}
      BY <1>11, <2>4, <2>7 DEF Ind
    <3>2. Retried(k)' \subseteq Retried(k)
      <4> SUFFICES ASSUME NEW b \in Retried(k)' PROVE b \in Retried(k)
        OBVIOUS
      <4>1. b \in Attempt /\ Exists(b)' /\ row'[b].tries = k + 1
        BY DEF Retried
      <4>2. b # a
        BY <1>8, <1>11, <2>7, <4>1
      <4> QED
        BY <1>8, <1>9, <4>1, <4>2 DEF Retried
    <3>3. /\ Cardinality(Retried(k)) \in Nat /\ Cardinality(Retried(k)') \in Nat
          /\ Cardinality(Retried(k)') <= Cardinality(Retried(k))
      BY <2>5, <3>2, NoMore
    <3> QED
      BY <1>f, <2>1, <2>2, <2>3, <2>5, <3>1, <3>3
  <2> QED
    BY <2>6, <2>7
<1>17. Weight(w, m)' = Weight(w, m) + 1
  <2>1. /\ w \in Busy <=> worker[w] # Idle
        /\ w \in Busy' <=> j # Idle
        /\ w \in Submitters <=> Submits(worker[w])
        /\ w \in Submitters' <=> Submits(j)
        /\ m \in SubmitMessages <=> m \in queue /\ m.step = "SUBMIT_TX"
        /\ m \in SubmitMessages' <=> m \in queue' /\ m.step = "SUBMIT_TX"
    BY <1>14, <1>t, WeighedAre
  <2>2. /\ w \in Busy /\ w \in Busy' /\ w \notin Submitters /\ w \in Submitters'
        /\ (m \in SubmitMessages <=> m \in SubmitMessages') /\ (m \in queue <=> m \in queue')
    BY <1>c, <1>h, <2>1, Zenon
  <2>3. /\ Ind(w \in Busy) = 1 /\ Ind(w \in Busy') = 1 /\ Ind(w \in Submitters) = 0 /\ Ind(w \in Submitters') = 1
        /\ Ind(m \in SubmitMessages) = Ind(m \in SubmitMessages') /\ Ind(m \in queue) = Ind(m \in queue')
    BY <2>2 DEF Ind
  <2>4. Ind(m \in SubmitMessages') \in {0, 1} /\ Ind(m \in queue') \in {0, 1}
    BY DEF Ind
  <2> QED
    BY <2>3, <2>4, Weights
<1>b. \A b \in Attempt \ {a} : row'[b].dseq = row[b].dseq
  BY <1>8
<1>d. \A v \in Busy : worker[v] \in Job /\ worker[v].at # a /\ Target(worker[v]) # a
  <2> TAKE v \in Busy
  <2>1. worker[v] \in Job /\ JobOK(worker[v]) /\ Exists(Target(worker[v]))
    BY <1>9, <1>t, Targets
  <2> QED
    BY <1>7, <2>1 DEF JobOK
<1>q. \A q \in queue : q \in Note /\ q.at # a
  BY <1>7, <1>t DEF Typed, Refs
<1>18. Loose' \subseteq Loose
  <2> SUFFICES ASSUME NEW e \in Loose' PROVE e \in Loose
    OBVIOUS
  <2>1. e \in Dseq /\ Open(e) /\ e # 0
    BY <1>c DEF Loose, Open, Dseq
  <2>2. ASSUME NEW v \in Worker PROVE e # Holds(worker[v])
    <3>1. e # (Holds(worker[v]))'
      BY Zenon DEF Loose
    <3>2. CASE v = w
      BY <1>c, <1>h, <2>1, <3>2
    <3>3. CASE v # w
      <4>1. worker'[v] = worker[v] /\ worker[v] \in Job \cup {Idle}
        BY <1>c, <1>t, <3>3 DEF Typed
      <4>2. PICK q : q = worker[v]
        OBVIOUS
      <4>3. (Holds(worker[v]))' = (Holds(q))'
        BY <4>1, <4>2, Zenon DEF Holds, Submits
      <4>4. ~(q # Idle /\ q.at = a)
        BY <1>d, <4>2 DEF Busy
      <4>5. (Holds(q))' = Holds(q)
        BY <1>b, <4>1, <4>2, <4>4, HoldsBut
      <4> QED
        BY <3>1, <4>2, <4>3, <4>5
    <3> QED
      BY <3>2, <3>3
  <2>3. ASSUME NEW q \in queue PROVE e # Keeps(q)
    <3>1. e # (Keeps(q))'
      BY <1>c, Zenon DEF Loose
    <3>2. (Keeps(q))' = Keeps(q)
      BY <1>b, <1>q, HoldsBut
    <3> QED
      BY <3>1, <3>2
  <2> QED
    BY <2>1, <2>2, <2>3, Zenon DEF Loose
<1>19. a \notin Fresh /\ Fresh \cup {a} \subseteq Fresh'
  <2>1. a \notin Fresh
    BY <1>d, <1>q DEF Fresh, Submitters, SubmitMessages
  <2>2. a \in Fresh'
    <3>1. w \in Submitters' /\ (Target(worker[w]))' = a
      <4>1. (Target(worker[w]))' = Target(j)
        BY <1>c, Zenon DEF Target
      <4>2. w \in Submitters'
        BY <1>c, <1>h, Zenon DEF Submitters, Busy, Submits
      <4> QED
        BY <1>h, <4>1, <4>2
    <3> QED
      BY <1>8, <3>1, Zenon DEF Fresh
  <2>3. ASSUME NEW b \in Fresh PROVE b \in Fresh'
    <3>1. b \in Attempt /\ row'[b].dseq = 0
      BY <1>b, <2>1 DEF Fresh
    <3>2. CASE \E q \in SubmitMessages : q.at = b
      <4>1. \E q \in SubmitMessages' : q.at = b
        BY <1>c, <3>2, Zenon DEF SubmitMessages
      <4> QED
        BY <3>1, <4>1, Zenon DEF Fresh
    <3>3. CASE \E v \in Submitters : Target(worker[v]) = b
      <4>1. PICK v \in Submitters : Target(worker[v]) = b
        BY <3>3
      <4>2. v # w
        BY <1>c, <1>h, <4>1 DEF Submitters
      <4>3. worker'[v] = worker[v] /\ v \in Worker
        BY <1>c, <4>1, <4>2 DEF Submitters, Busy
      <4>4. v \in Submitters' /\ (Target(worker[v]))' = b
        BY <4>1, <4>3, Zenon DEF Submitters, Busy, Submits, Target
      <4> QED
        BY <3>1, <4>4, Zenon DEF Fresh
    <3> QED
      BY <3>2, <3>3, Zenon DEF Fresh
  <2> QED
    BY <2>1, <2>2, <2>3
<1>20. Deposits'
  <2>1. IsFiniteSet(Loose) /\ IsFiniteSet(Fresh) /\ IsFiniteSet(Fresh')
    BY Finite, <1>t, FS_Subset, Zenon DEF Loose, Fresh
  <2>2. Cardinality(Loose') <= Cardinality(Loose) + 0
    BY <1>18, <2>1, NoMore
  <2>3. Cardinality(Fresh) <= Cardinality(Fresh') + (-1)
    <3>1. Cardinality(Fresh \cup {a}) = Cardinality(Fresh) + 1
      BY <1>19, <2>1, FS_AddElement
    <3>2. Cardinality(Fresh \cup {a}) <= Cardinality(Fresh') /\ Cardinality(Fresh') \in Nat
      BY <1>19, <2>1, NoMore
    <3>3. Cardinality(Fresh) \in Nat
      BY <2>1, FS_CardinalityType
    <3> QED
      BY <3>1, <3>2, <3>3
  <2>4. Weight(w, m)' + 0 + (-1) <= Weight(w, m) + 2 * (faults' - faults)
    <3>1. Weight(w, m) \in Int
      BY DEF Weight, Ind
    <3> QED
      BY <1>17, <1>f, <3>1
  <2>5. -1 \in Int /\ 0 \in Nat
    OBVIOUS
  <2> QED
    BY <1>14, <1>t, <2>2, <2>3, <2>4, <2>5, DepositsKept
<1> QED
  BY <1>15, <1>16, <1>20 DEF IInv

-----------------------------------------------------------------------------
(* A message is delivered. *)

LEMMA ReceiveKeeps ==
  ASSUME IInv, NEW w \in Worker, NEW m \in queue, Receive(w, m)
  PROVE  IInv'
<1>1. /\ At(w, "idle") /\ m \in Note /\ Exists(m.at) /\ UNCHANGED others /\ UNCHANGED <<row, chain>>
      /\ \/ queue' = queue \ {m} /\ UNCHANGED faults
         \/ queue' = queue /\ Fault
  BY Zenon DEF Receive, others, IInv, Typed, Refs
<1>2. worker[w] = Idle /\ Calm /\ m.at \in Attempt /\ MayFail
  BY <1>1, BusyJob, CalmStill, NoteFields, Zenon DEF IInv, MayFail
<1>3. /\ \/ queue' = queue \ {m} /\ faults' >= faults
         \/ queue' = queue /\ faults' = faults + 1
  BY <1>1, <1>2, MayFailTypes
<1>4. PICK j : /\ Becomes(w, j)
               /\ j = Idle \/ j = [pc |-> FirstPc(m), msg |-> m, at |-> m.at, dseq |-> row[m.at].dseq, next |-> m]
  <2>1. CASE row[m.at].status \in Terminal
    <3>1. worker' = worker
      BY <2>1, Zenon DEF Receive
    <3>2. Becomes(w, Idle)
      BY <1>2, <3>1 DEF Becomes, IInv, Typed
    <3> QED
      BY <3>2
  <2>2. CASE row[m.at].status \notin Terminal
    BY <2>2, Zenon DEF Receive, Becomes
  <2> QED
    BY <2>1, <2>2
<1>5. j = Idle \/ (j \in Job /\ JobOK(j) /\ Passes(j, m))
  <2> SUFFICES ASSUME j # Idle PROVE j \in Job /\ JobOK(j) /\ Passes(j, m)
    OBVIOUS
  <2>1. PICK pc : pc = FirstPc(m)
    OBVIOUS
  <2>2. j = [pc |-> pc, msg |-> m, at |-> m.at, dseq |-> row[m.at].dseq, next |-> m]
    BY <1>4, <2>1
  <2>3. \/ m.step = "SUBMIT_TX" /\ pc \in {"cancel", "submit"}
        \/ m.step = "CHECK_BIDS" /\ pc = "bids"
        \/ m.step = "CREATE_LEASE" /\ pc = "lease"
        \/ m.step = "SEND_MANIFEST" /\ pc = "manifest"
        \/ m.step = "POLL_URLS" /\ pc = "poll"
        \/ m.step = "HANDLE_FAILURE" /\ pc = "fail_row"
    <3>1. m.step \in Step
      BY <1>1, NoteFields
    <3>2. m.step = "SUBMIT_TX" => pc \in {"cancel", "submit"}
      BY <2>1, Zenon DEF FirstPc
    <3>3. /\ m.step = "CHECK_BIDS" => pc = "bids"
          /\ m.step = "CREATE_LEASE" => pc = "lease"
          /\ m.step = "SEND_MANIFEST" => pc = "manifest"
          /\ m.step = "POLL_URLS" => pc = "poll"
          /\ m.step = "HANDLE_FAILURE" => pc = "fail_row"
      BY <2>1 DEF FirstPc
    <3> QED
      BY <3>1, <3>2, <3>3, Zenon DEF Step
  <2>4. pc \in Pc /\ row[m.at].dseq \in 0..MaxDseq
    BY <1>2, <2>3, RowType DEF Pc, IInv
  <2>5. j \in Job /\ j.pc = pc /\ j.msg = m /\ j.at = m.at /\ j.dseq = row[m.at].dseq /\ j.next = m
    BY <1>1, <1>2, <2>2, <2>4 DEF Job
  <2>6. JobOK(j)
    <3>1. row[m.at].dseq # 0 => chain[row[m.at].dseq] # "none"
      BY <1>2 DEF IInv, Refs, RowOK
    <3> QED
      BY <1>1, <2>3, <2>5, <3>1 DEF JobOK, PhaseOK, Failing, Retrying, Polling, WritingOff
  <2>7. Passes(j, m)
    BY <2>3, <2>5 DEF Passes, Target, Submits, IsSubmit, Holds, Keeps, Remembers
  <2> QED
    BY <2>5, <2>6, <2>7
<1>6. j # Idle => JobOK(j)'
  BY <1>2, <1>5, CalmIs, JobKept
<1>7. Handles(w, j, m)
  <2>1. queue' \in {queue, queue \cup {m}, queue \ {m}}
    BY <1>1
  <2> QED
    BY <1>1, <1>2, <1>4, <1>5, <1>6, <2>1, CalmIs, MayFailTypes, Zenon DEF Handles
<1>8. Takes(w, j, m)
  BY <1>2, <1>3, <1>5, <1>7, Zenon DEF Takes, Calm
<1> QED
  BY <1>8, TakesKeeps

-----------------------------------------------------------------------------
(* The mutation, the sweeper and the monitor publish nothing and start no handler. *)

LEMMA OutsideRetries ==
  ASSUME IInv, Calm, MayFail, UNCHANGED <<queue, worker>>
  PROVE  Retries'
<1>t. Typed /\ Refs /\ Retries /\ RowsKept /\ RowsStill
  BY DEF IInv, Calm
<1> SUFFICES ASSUME NEW k \in Nat
             PROVE  Cardinality(Retried(k)') + Cardinality(Waiting(k)') + Cardinality(Working(k)') <= 1 + faults'
  BY Zenon DEF Retries
<1>1. Retried(k)' = Retried(k)
  BY <1>t DEF Retried, RowsKept, RowsStill, TriesStill
<1>2. Waiting(k)' = Waiting(k)
  <2>1. \A m \in queue : row'[m.at].tries = row[m.at].tries
    BY <1>t, NoteAt
  <2> QED
    BY <2>1 DEF Waiting
<1>3. Working(k)' = Working(k)
  <2> SUFFICES ASSUME NEW v \in Worker PROVE v \in Working(k)' <=> v \in Working(k)
    BY DEF Working, Busy
  <2>1. worker'[v] = worker[v]
    OBVIOUS
  <2>2. v \in Busy => row'[Target(worker[v])].tries = row[Target(worker[v])].tries
    BY <1>t, Targets
  <2>3. v \in Busy <=> v \in Busy'
    BY <2>1 DEF Busy
  <2>4. (Target(worker[v]))' = Target(worker[v])
    BY <2>1 DEF Target
  <2> QED
    BY <2>2, <2>3, <2>4, Zenon DEF Working
<1>4. Cardinality(Retried(k)) + Cardinality(Waiting(k)) + Cardinality(Working(k)) <= 1 + faults
  BY <1>t DEF Retries
<1>5. /\ Cardinality(Retried(k)) \in Nat /\ Cardinality(Waiting(k)) \in Nat /\ Cardinality(Working(k)) \in Nat
  <2>1. Retried(k) \subseteq Attempt /\ Waiting(k) \subseteq queue /\ Working(k) \subseteq Worker
    BY Zenon DEF Retried, Waiting, Working, Busy
  <2> QED
    BY <1>t, <2>1, Finite, NoMore
<1>6. faults' >= faults /\ faults \in Nat /\ faults' \in 0..MaxFaults
  BY MayFailTypes
<1> QED
  BY <1>1, <1>2, <1>3, <1>4, <1>5, <1>6, PipelineAssumption

LEMMA OutsideDeposits ==
  ASSUME IInv, Calm, MayFail, UNCHANGED <<queue, worker>>
  PROVE  Deposits'
<1>t. Typed /\ Refs /\ Deposits /\ RowsKept /\ RowsStill /\ OnlyCloses
  BY DEF IInv, Calm
<1>1. Busy' = Busy /\ SubmitMessages' = SubmitMessages /\ Submitters' = Submitters
  BY Zenon DEF Busy, SubmitMessages, Submitters, Submits
<1>2. Loose' \subseteq Loose
  <2> SUFFICES ASSUME NEW e \in Loose' PROVE e \in Loose
    OBVIOUS
  <2>1. e \in Dseq /\ Open(e)
    BY <1>t, Zenon DEF Loose, OnlyCloses
  <2>2. ASSUME NEW v \in Worker PROVE e # Holds(worker[v])
    <3>1. e # (Holds(worker[v]))'
      BY Zenon DEF Loose
    <3>2. PICK q : q = worker[v]
      OBVIOUS
    <3>3. worker'[v] = q /\ q \in Job \cup {Idle}
      BY <1>t, <3>2 DEF Typed
    <3>4. (Holds(worker[v]))' = (Holds(q))'
      BY <3>3, Zenon DEF Holds, Submits
    <3> QED
      BY <1>t, <3>1, <3>2, <3>3, <3>4, HoldsStill
  <2>3. ASSUME NEW q \in queue PROVE e # Keeps(q)
    <3>1. e # (Keeps(q))'
      BY Zenon DEF Loose
    <3>2. q \in Note
      BY <1>t DEF Typed
    <3> QED
      BY <1>t, <3>1, <3>2, HoldsStill
  <2> QED
    BY <2>1, <2>2, <2>3, Zenon DEF Loose
<1>3. Fresh' = Fresh
  <2>1. \A a \in Attempt : row'[a].dseq = row[a].dseq
    BY <1>t DEF RowsStill, DseqsStill
  <2>2. \A v \in Submitters : (Target(worker[v]))' = Target(worker[v])
    BY Zenon DEF Target
  <2> SUFFICES ASSUME NEW a \in Attempt PROVE a \in Fresh' <=> a \in Fresh
    BY DEF Fresh
  <2>3. (\E v \in Submitters' : (Target(worker[v]))' = a) <=> (\E v \in Submitters : Target(worker[v]) = a)
    BY <1>1, <2>2, Zenon
  <2> QED
    BY <1>1, <2>1, <2>3, Zenon DEF Fresh
<1>4. /\ Cardinality(Loose) \in Nat /\ Cardinality(Loose') \in Nat
      /\ Cardinality(Loose') <= Cardinality(Loose)
  <2>1. IsFiniteSet(Loose)
    BY <1>t, Finite, FS_Subset, Zenon DEF Loose
  <2> QED
    BY <1>2, <2>1, NoMore
<1>5. /\ Cardinality(queue) \in Nat /\ Cardinality(Busy) \in Nat /\ Cardinality(SubmitMessages) \in Nat
      /\ Cardinality(Submitters) \in Nat /\ Cardinality(Fresh) \in Nat
  <2>1. SubmitMessages \subseteq queue /\ Busy \subseteq Worker /\ Submitters \subseteq Worker /\ Fresh \subseteq Attempt
        /\ queue \subseteq queue
    BY Zenon DEF SubmitMessages, Busy, Submitters, Fresh
  <2> QED
    BY <1>t, <2>1, Finite, NoMore
<1>6. faults' >= faults /\ faults \in Nat /\ faults' \in 0..MaxFaults
  BY MayFailTypes
<1>7. Cardinality(queue) + Cardinality(Busy) + Cardinality(SubmitMessages) + Cardinality(Submitters)
        + Cardinality(Loose) <= 1 + 2 * faults + Cardinality(Fresh)
  BY <1>t, Zenon DEF Deposits
<1>8. Cardinality(queue) + Cardinality(Busy) + Cardinality(SubmitMessages) + Cardinality(Submitters)
        + Cardinality(Loose') <= 1 + 2 * faults' + Cardinality(Fresh)
  BY <1>4, <1>5, <1>6, <1>7, PipelineAssumption
<1>9. queue' = queue
  OBVIOUS
<1> QED
  BY <1>1, <1>3, <1>8, <1>9, Zenon DEF Deposits

LEMMA OutsideKeeps ==
  ASSUME IInv, Calm, MayFail, UNCHANGED <<queue, worker>>,
         user' \in Mutation \cup {Idle}, sweeper' \in Sweep \cup {Idle}, monitor' \in Pass \cup {Idle},
         stopped' \in Flags, redeployed' \in Flags, UserOK', SweeperOK', MonitorOK'
  PROVE  IInv'
<1>1. Retries' /\ Deposits'
  BY OutsideRetries, OutsideDeposits
<1>2. Steady /\ \A a \in Attempt : RowOK(a)'
  BY CalmIs
<1>3. Typed'
  BY MayFailTypes, Zenon DEF IInv, Typed, Calm
<1>4. ASSUME NEW m \in queue' PROVE Exists(m.at)'
  <2>1. m \in queue
    OBVIOUS
  <2> QED
    BY <2>1, NoteAt DEF IInv, Calm, RowsKept
<1>5. ASSUME NEW v \in Worker, worker'[v] # Idle PROVE JobOK(worker[v])'
  <2>1. PICK i : i = worker'[v]
    OBVIOUS
  <2>2. i = worker[v] /\ v \in Busy /\ i \in Job
    BY <1>5, <2>1, Zenon DEF Busy, IInv, Typed
  <2>3. JobOK(i)'
    <3>1. JobOK(i)
      BY <2>2 DEF IInv, Refs
    <3> QED
      BY <1>2, <2>2, <3>1, JobKept
  <2> QED
    BY <2>1, <2>3, Zenon DEF JobOK, PhaseOK, Exists
<1>6. \A v \in Busy' : JobOK(worker[v])'
  BY <1>5, Zenon DEF Busy
<1>7. Refs'
  BY <1>2, <1>4, <1>6 DEF Refs
<1> QED
  BY <1>1, <1>3, <1>7 DEF IInv

LEMMA UserKeeps ==
  ASSUME IInv, Calm, MayFail, UNCHANGED <<queue, worker, sweeper, monitor, redeployed>>,
         stopped' \in Flags, user' \in Mutation \cup {Idle}, UserOK'
  PROVE  IInv'
<1>1. SweeperOK' /\ MonitorOK'
  BY SweeperStays, MonitorStays DEF IInv, Refs, Calm
<1>2. sweeper' \in Sweep \cup {Idle} /\ monitor' \in Pass \cup {Idle} /\ redeployed' \in Flags
  BY Zenon DEF IInv, Typed
<1>3. UNCHANGED <<queue, worker>>
  OBVIOUS
<1> QED
  BY <1>1, <1>2, <1>3, OutsideKeeps, Zenon

LEMMA SweeperKeeps ==
  ASSUME IInv, Calm, MayFail, UNCHANGED <<queue, worker, user, monitor, stopped, redeployed>>,
         sweeper' \in Sweep \cup {Idle}, SweeperOK'
  PROVE  IInv'
<1>1. UserOK' /\ MonitorOK'
  BY UserStays, MonitorStays DEF IInv, Refs, Calm
<1>2. user' \in Mutation \cup {Idle} /\ monitor' \in Pass \cup {Idle} /\ redeployed' \in Flags /\ stopped' \in Flags
  BY Zenon DEF IInv, Typed
<1>3. UNCHANGED <<queue, worker>>
  OBVIOUS
<1> QED
  BY <1>1, <1>2, <1>3, OutsideKeeps, Zenon

LEMMA MonitorKeeps ==
  ASSUME IInv, Calm, MayFail, UNCHANGED <<queue, worker, user, sweeper, stopped, redeployed>>,
         monitor' \in Pass \cup {Idle}, MonitorOK'
  PROVE  IInv'
<1>1. UserOK' /\ SweeperOK'
  BY UserStays, SweeperStays DEF IInv, Refs, Calm
<1>2. user' \in Mutation \cup {Idle} /\ sweeper' \in Sweep \cup {Idle} /\ redeployed' \in Flags /\ stopped' \in Flags
  BY Zenon DEF IInv, Typed
<1>3. UNCHANGED <<queue, worker>>
  OBVIOUS
<1> QED
  BY <1>1, <1>2, <1>3, OutsideKeeps, Zenon

LEMMA Present ==
  ASSUME IInv
  PROVE  /\ user.pc # "idle" => user \in Mutation /\ user # Idle
         /\ sweeper.pc # "idle" => sweeper \in Sweep /\ sweeper # Idle
         /\ monitor.pc # "idle" => monitor \in Pass /\ monitor # Idle
BY IdleIsNoJob DEF IInv, Typed

\* closeAkashDeployment.

LEMMA UserStopsKeeps ==
  ASSUME IInv, NEW a \in Attempt, UserStops(a)
  PROVE  IInv'
<1>1. /\ UNCHANGED <<row, chain>> /\ UNCHANGED <<queue, worker, sweeper, monitor, redeployed>> /\ UNCHANGED stopped
      /\ MayFail /\ Exists(a)
      /\ user' = [pc |-> "close", at |-> a, dseq |-> row[a].dseq, todo |-> {}]
  BY DEF UserStops, MayFail, Exists
<1>2. Calm /\ row[a].dseq \in 0..MaxDseq /\ stopped' \in Flags
  BY <1>1, CalmStill, RowType DEF IInv, Typed
<1>3. user' \in Mutation
  BY <1>1, <1>2 DEF Mutation
<1>4. UserOK'
  <2>1. Exists(a)' /\ user'.at = a /\ user'.todo = {}
    BY <1>1, <1>2 DEF Calm, RowsKept
  <2> QED
    BY <2>1 DEF UserOK, Exists
<1> QED
  BY <1>1, <1>2, <1>3, <1>4, UserKeeps, Zenon

LEMMA UserClosesKeeps ==
  ASSUME IInv, UserCloses
  PROVE  IInv'
<1>1. /\ user.pc = "close" /\ user' = [user EXCEPT !.pc = "mark"] /\ UNCHANGED row
      /\ UNCHANGED <<queue, worker, sweeper, monitor, redeployed>> /\ UNCHANGED stopped
  BY DEF UserCloses
<1>2. Calm /\ MayFail /\ stopped' \in Flags
  BY <1>1, CalmCloses DEF UserCloses, IInv, Typed
<1>3. user \in Mutation /\ user # Idle
  BY <1>1, Present
<1>4. user' \in Mutation /\ user'.at = user.at /\ user'.todo = user.todo /\ user.at \in Attempt
  BY <1>1, <1>3 DEF Mutation
<1>5. \A t \in user.todo : t.at \in Attempt
  BY <1>3 DEF Mutation, Sibling
<1>6. UserOK'
  BY <1>1, <1>3, <1>4, <1>5 DEF IInv, Refs, UserOK, Exists
<1> QED
  BY <1>1, <1>2, <1>4, <1>6, UserKeeps, Zenon

LEMMA UserMarksKeeps ==
  ASSUME IInv, UserMarks
  PROVE  IInv'
<1>1. /\ user.pc = "mark" /\ SetStatus(user.at, "CLOSED") /\ stopped' = TRUE /\ UNCHANGED chain
      /\ UNCHANGED <<queue, worker, sweeper, monitor, redeployed>> /\ UNCHANGED faults
      /\ user' = [user EXCEPT !.pc = IF stopped THEN "next" ELSE "siblings"]
  BY DEF UserMarks
<1>2. user \in Mutation /\ user # Idle
  BY <1>1, Present
<1>3. user.at \in Attempt /\ Exists(user.at) /\ "CLOSED" \in Statuses
  BY <1>2 DEF Mutation, IInv, Refs, UserOK, Statuses
<1>4. Calm
  BY <1>1, <1>3, StatusesAre, CalmWrites
<1>5. PICK pc \in {"next", "siblings"} : user' = [user EXCEPT !.pc = pc]
  <2>1. CASE stopped
    BY <1>1, <2>1, Zenon
  <2>2. CASE ~stopped
    BY <1>1, <2>2, Zenon
  <2> QED
    BY <2>1, <2>2
<1>6. user' \in Mutation /\ user'.at = user.at /\ user'.todo = user.todo
  BY <1>2, <1>5 DEF Mutation
<1>7. \A t \in user.todo : t.at \in Attempt
  BY <1>2 DEF Mutation, Sibling
<1>8. UserOK'
  BY <1>2, <1>3, <1>4, <1>6, <1>7 DEF IInv, Refs, UserOK, Calm, RowsKept
<1>9. MayFail /\ stopped' \in Flags
  BY <1>1, InFlags DEF MayFail
<1> QED
  BY <1>1, <1>4, <1>6, <1>8, <1>9, UserKeeps, Zenon

LEMMA UserReadsSiblingsKeeps ==
  ASSUME IInv, UserReadsSiblings
  PROVE  IInv'
<1>s. PICK S : S = {[at |-> a, dseq |-> row[a].dseq] :
                     a \in {b \in Attempt : b # user.at /\ row[b].status \in InProgress}}
  OBVIOUS
<1>1. /\ user.pc = "siblings" /\ UNCHANGED <<row, chain>>
      /\ UNCHANGED <<queue, worker, sweeper, monitor, redeployed>> /\ UNCHANGED faults /\ UNCHANGED stopped
      /\ user' = [user EXCEPT !.pc = "next", !.todo = S]
  BY <1>s DEF UserReadsSiblings
<1>2. user \in Mutation /\ user # Idle
  BY <1>1, Present
<1>3. S \subseteq Sibling /\ \A t \in S : Exists(t.at)
  <2> SUFFICES ASSUME NEW t \in S PROVE t \in Sibling /\ Exists(t.at)
    OBVIOUS
  <2>1. PICK a \in Attempt : row[a].status \in InProgress /\ t = [at |-> a, dseq |-> row[a].dseq]
    BY <1>s
  <2>2. row[a].dseq \in 0..MaxDseq
    BY RowType DEF IInv
  <2>3. Exists(a)
    BY <2>1 DEF Exists, InProgress
  <2> QED
    BY <2>1, <2>2, <2>3 DEF Sibling
<1>4. user' \in Mutation /\ user'.at = user.at /\ user'.todo = S
  BY <1>1, <1>2, <1>3 DEF Mutation
<1>5. UserOK'
  BY <1>1, <1>2, <1>3, <1>4 DEF IInv, Refs, UserOK, Exists
<1>6. Calm /\ MayFail /\ stopped' \in Flags
  BY <1>1, CalmStill DEF MayFail, IInv, Typed
<1> QED
  BY <1>1, <1>4, <1>5, <1>6, UserKeeps, Zenon

LEMMA UserTakesSiblingKeeps ==
  ASSUME IInv, UserTakesSibling
  PROVE  IInv'
<1>1. /\ user.pc = "next" /\ UNCHANGED <<row, chain>>
      /\ UNCHANGED <<queue, worker, sweeper, monitor, redeployed>> /\ UNCHANGED faults /\ UNCHANGED stopped
  BY DEF UserTakesSibling
<1>2. user \in Mutation /\ user # Idle
  BY <1>1, Present
<1>3. Calm /\ MayFail /\ stopped' \in Flags
  BY <1>1, CalmStill DEF MayFail, IInv, Typed
<1>4. CASE user' = Idle
  <2>1. UserOK'
    BY <1>4 DEF UserOK
  <2>2. user' \in Mutation \cup {Idle}
    BY <1>4
  <2> QED
    BY <1>1, <1>3, <2>1, <2>2, UserKeeps, Zenon
<1>5. CASE \E t \in user.todo : user' = [pc |-> "close", at |-> t.at, dseq |-> t.dseq, todo |-> user.todo \ {t}]
  <2>1. PICK t \in user.todo : user' = [pc |-> "close", at |-> t.at, dseq |-> t.dseq, todo |-> user.todo \ {t}]
    BY <1>5
  <2>2. user.todo \subseteq Sibling
    BY <1>2 DEF Mutation
  <2>3. t.at \in Attempt /\ t.dseq \in 0..MaxDseq
    BY <2>2 DEF Sibling
  <2>4. user' \in Mutation
    BY <2>1, <2>2, <2>3 DEF Mutation
  <2>5. UserOK'
    BY <1>1, <1>2, <2>1 DEF IInv, Refs, UserOK, Exists
  <2> QED
    BY <1>1, <1>3, <2>4, <2>5, UserKeeps, Zenon
<1> QED
  BY <1>4, <1>5, Zenon DEF UserTakesSibling

\* The sweeper.

LEMMA SweepPicksKeeps ==
  ASSUME IInv, NEW a \in Attempt, SweepPicks(a)
  PROVE  IInv'
<1>1. /\ UNCHANGED <<row, chain>> /\ UNCHANGED <<queue, worker, user, monitor, stopped, redeployed>>
      /\ sweeper' = [pc |-> "close", at |-> a, saw |-> row[a].status, dseq |-> row[a].dseq, ok |-> TRUE]
  BY DEF SweepPicks
<1>2. MayFail
  <2>1. CASE row[a].status \in InProgress /\ Driven(a)
    BY <2>1, Zenon DEF SweepPicks, MayFail
  <2>2. CASE ~(row[a].status \in InProgress /\ Driven(a))
    BY <2>2, Zenon DEF SweepPicks, MayFail
  <2> QED
    BY <2>1, <2>2
<1>3. Exists(a)
  <2>1. row[a].status \in InProgress \/ row[a].status = "AWAITING_REGION_RESPONSE" \/ row[a].status = "ACTIVE"
    BY Zenon DEF SweepPicks
  <2> QED
    BY <2>1 DEF Exists, InProgress
<1>4. row[a].dseq \in 0..MaxDseq /\ row[a].status \in Status
  BY DEF IInv, Typed, Row
<1>5. sweeper' \in Sweep
  BY <1>1, <1>4, InFlags DEF Sweep
<1>6. SweeperOK'
  BY <1>1, <1>3 DEF SweeperOK, Exists
<1>7. Calm
  BY <1>1, CalmStill
<1> QED
  BY <1>1, <1>2, <1>5, <1>6, <1>7, SweeperKeeps, Zenon

LEMMA SweepClosesKeeps ==
  ASSUME IInv, SweepCloses
  PROVE  IInv'
<1>1. /\ sweeper.pc = "close" /\ UNCHANGED row /\ UNCHANGED <<queue, worker, user, monitor, stopped, redeployed>>
      /\ Closes(sweeper.dseq) \/ Refuses(sweeper.dseq)
      /\ \/ sweeper' = [sweeper EXCEPT !.pc = "mark"]
         \/ sweeper' = [sweeper EXCEPT !.pc = "mark", !.ok = FALSE]
  BY DEF SweepCloses
<1>2. Calm /\ MayFail
  BY <1>1, CalmCloses
<1>3. sweeper \in Sweep /\ sweeper # Idle
  BY <1>1, Present
<1>4. sweeper' \in Sweep /\ sweeper'.at = sweeper.at
  <2>1. CASE sweeper' = [sweeper EXCEPT !.pc = "mark"]
    BY <1>3, <2>1 DEF Sweep
  <2>2. CASE sweeper' = [sweeper EXCEPT !.pc = "mark", !.ok = FALSE]
    BY <1>3, <2>2, InFlags DEF Sweep
  <2> QED
    BY <1>1, <2>1, <2>2
<1>5. SweeperOK'
  BY <1>1, <1>3, <1>4 DEF IInv, Refs, SweeperOK, Exists
<1> QED
  BY <1>1, <1>2, <1>4, <1>5, SweeperKeeps, Zenon

LEMMA SweepMarksKeeps ==
  ASSUME IInv, SweepMarks
  PROVE  IInv'
<1>1. /\ sweeper.pc = "mark" /\ sweeper' = Idle /\ UNCHANGED chain
      /\ UNCHANGED <<queue, worker, user, monitor, stopped, redeployed>> /\ UNCHANGED faults
  BY Zenon DEF SweepMarks
<1>2. UNCHANGED row \/ \E st \in Statuses : SetStatus(sweeper.at, st)
  <2>1. PICK failed : failed = IF sweeper.ok THEN "FAILED" ELSE "CLOSE_FAILED"
    OBVIOUS
  <2>2. failed \in {"FAILED", "CLOSE_FAILED"}
    <3>1. CASE sweeper.ok
      BY <2>1, <3>1, Zenon
    <3>2. CASE ~sweeper.ok
      BY <2>1, <3>2, Zenon
    <3> QED
      BY <3>1, <3>2
  <2>3. failed \in Statuses /\ "CLOSED" \in Statuses
    BY <2>2 DEF Statuses
  <2>4. CASE sweeper.saw = "ACTIVE"
    BY <2>3, <2>4 DEF SweepMarks
  <2>5. CASE sweeper.saw = "AWAITING_REGION_RESPONSE"
    BY <2>1, <2>3, <2>5 DEF SweepMarks
  <2>6. CASE sweeper.saw \notin {"ACTIVE", "AWAITING_REGION_RESPONSE"}
    BY <2>1, <2>3, <2>6 DEF SweepMarks
  <2> QED
    BY <2>4, <2>5, <2>6
<1>3. sweeper \in Sweep /\ sweeper # Idle
  BY <1>1, Present
<1>4. sweeper.at \in Attempt /\ Exists(sweeper.at)
  BY <1>3 DEF Sweep, IInv, Refs, SweeperOK
<1>5. Calm
  BY <1>1, <1>2, <1>4, StatusesAre, CalmWrites, CalmStill
<1>6. SweeperOK' /\ MayFail /\ sweeper' \in Sweep \cup {Idle}
  BY <1>1 DEF SweeperOK, MayFail
<1> QED
  BY <1>1, <1>5, <1>6, SweeperKeeps, Zenon

\* The escrow monitor.

LEMMA MonitorFindsKeeps ==
  ASSUME IInv, NEW a \in 0..MaxRows, a # 0 => Exists(a), NEW d \in 0..MaxDseq, NEW g \in Flags,
         UNCHANGED <<row, chain, queue, worker, user, sweeper, stopped, redeployed, faults>>,
         monitor' = [pc |-> "close", at |-> a, dseq |-> d, gone |-> g, ok |-> TRUE]
  PROVE  IInv'
<1>1. monitor' \in Pass
  BY InFlags DEF Pass
<1>2. MonitorOK'
  BY DEF MonitorOK, Exists
<1>3. Calm /\ MayFail
  BY CalmStill DEF MayFail
<1>4. UNCHANGED <<queue, worker, user, sweeper, stopped, redeployed>>
  OBVIOUS
<1> QED
  BY <1>1, <1>2, <1>3, <1>4, MonitorKeeps, Zenon

LEMMA MonitorFindsGoneKeeps ==
  ASSUME IInv, NEW a \in Attempt, MonitorFindsGone(a)
  PROVE  IInv'
<1>1. /\ UNCHANGED <<row, chain, queue, worker, user, sweeper, stopped, redeployed, faults>>
      /\ monitor' = [pc |-> "close", at |-> a, dseq |-> row[a].dseq, gone |-> TRUE, ok |-> TRUE]
      /\ Exists(a)
  BY DEF MonitorFindsGone, Exists
<1>2. a \in 0..MaxRows /\ row[a].dseq \in 0..MaxDseq
  BY RowType, PipelineAssumption DEF IInv, Attempt
<1> QED
  BY <1>1, <1>2, InFlags, MonitorFindsKeeps

LEMMA MonitorFindsLeakKeeps ==
  ASSUME IInv, NEW d \in Dseq, MonitorFindsLeak(d)
  PROVE  IInv'
<1>1. /\ UNCHANGED <<row, chain, queue, worker, user, sweeper, stopped, redeployed, faults>>
      /\ \A a \in Owners(d) : row[a].status \in ShouldBeClosed
  BY DEF MonitorFindsLeak
<1>2. PICK a \in IF Owners(d) = {} THEN {0} ELSE Owners(d) :
        monitor' = [pc |-> "close", at |-> a, dseq |-> d, gone |-> FALSE, ok |-> TRUE]
  BY DEF MonitorFindsLeak
<1>3. a = 0 \/ a \in Owners(d)
  BY <1>2
<1>4. a # 0 => a \in Attempt /\ Exists(a)
  BY <1>1, <1>3 DEF Owners, Exists, ShouldBeClosed
<1>5. a \in 0..MaxRows /\ d \in 0..MaxDseq
  BY <1>4, PipelineAssumption DEF Attempt, Dseq
<1> QED
  BY <1>1, <1>2, <1>4, <1>5, InFlags, MonitorFindsKeeps

LEMMA MonitorClosesKeeps ==
  ASSUME IInv, MonitorCloses
  PROVE  IInv'
<1>1. monitor.pc = "close" /\ UNCHANGED row /\ UNCHANGED <<queue, worker, user, sweeper, stopped, redeployed>>
  BY DEF MonitorCloses
<1>2. monitor \in Pass /\ monitor # Idle
  BY <1>1, Present
<1>3. Calm /\ MayFail
  <2>1. CASE Closes(monitor.dseq)
    BY <1>1, <2>1, CalmCloses
  <2>2. CASE Fault /\ UNCHANGED chain
    BY <1>1, <2>2, CalmStill DEF MayFail
  <2> QED
    BY <2>1, <2>2 DEF MonitorCloses
<1>4. \/ monitor' = Idle \/ monitor' = [monitor EXCEPT !.pc = "sync"]
      \/ monitor' = [monitor EXCEPT !.pc = "sync", !.ok = FALSE]
  <2>1. CASE monitor.gone
    BY <2>1, Zenon DEF MonitorCloses
  <2>2. CASE ~monitor.gone
    BY <2>2, Zenon DEF MonitorCloses
  <2> QED
    BY <2>1, <2>2
<1>5. monitor' = Idle \/ (monitor' \in Pass /\ monitor'.at = monitor.at)
  BY <1>2, <1>4, InFlags DEF Pass
<1>6. MonitorOK'
  BY <1>1, <1>2, <1>5 DEF IInv, Refs, MonitorOK, Exists
<1>7. monitor' \in Pass \cup {Idle}
  BY <1>5
<1> QED
  BY <1>1, <1>3, <1>6, <1>7, MonitorKeeps, Zenon

LEMMA MonitorSyncsKeeps ==
  ASSUME IInv, MonitorSyncs
  PROVE  IInv'
<1>1. /\ monitor.pc = "sync" /\ monitor' = Idle /\ UNCHANGED chain
      /\ UNCHANGED <<queue, worker, user, sweeper, stopped, redeployed>> /\ UNCHANGED faults
  BY Zenon DEF MonitorSyncs
<1>2. UNCHANGED row \/ (monitor.at # 0 /\ \E st \in Statuses : SetStatus(monitor.at, st))
  <2>1. PICK st : st = IF monitor.ok THEN "CLOSED" ELSE "CLOSE_FAILED"
    OBVIOUS
  <2>2. st \in {"CLOSED", "CLOSE_FAILED"}
    <3>1. CASE monitor.ok
      BY <2>1, <3>1, Zenon
    <3>2. CASE ~monitor.ok
      BY <2>1, <3>2, Zenon
    <3> QED
      BY <3>1, <3>2
  <2>3. st \in Statuses
    BY <2>2 DEF Statuses
  <2>4. UNCHANGED row \/ (monitor.at # 0 /\ SetStatus(monitor.at, st))
    <3>1. PICK stays : stays = IF monitor.gone THEN Status \ {"ACTIVE"} ELSE {"CLOSED", "PERMANENTLY_FAILED"}
      OBVIOUS
    <3>2. CASE monitor.at = 0 \/ row[monitor.at].status \in stays
      BY <3>1, <3>2, Zenon DEF MonitorSyncs
    <3>3. CASE ~(monitor.at = 0 \/ row[monitor.at].status \in stays)
      BY <2>1, <3>1, <3>3, Zenon DEF MonitorSyncs
    <3> QED
      BY <3>2, <3>3
  <2> QED
    BY <2>3, <2>4
<1>3. monitor \in Pass /\ monitor # Idle
  BY <1>1, Present
<1>4. monitor.at # 0 => monitor.at \in Attempt /\ Exists(monitor.at)
  <2>1. monitor.at \in 0..MaxRows
    BY <1>3 DEF Pass
  <2>2. monitor.at # 0 => monitor.at \in Attempt
    BY <2>1, PipelineAssumption DEF Attempt
  <2> QED
    BY <1>3, <2>2 DEF IInv, Refs, MonitorOK
<1>5. Calm
  BY <1>1, <1>2, <1>4, StatusesAre, CalmWrites, CalmStill
<1>6. MonitorOK' /\ MayFail /\ monitor' \in Pass \cup {Idle}
  BY <1>1 DEF MonitorOK, MayFail
<1> QED
  BY <1>1, <1>5, <1>6, MonitorKeeps, Zenon

LEMMA DiesKeeps ==
  ASSUME IInv, Dies
  PROVE  IInv'
<1>1. /\ UNCHANGED <<row, chain>> /\ UNCHANGED <<queue, worker, stopped, redeployed>> /\ MayFail
      /\ \/ user' = Idle /\ UNCHANGED <<sweeper, monitor>>
         \/ sweeper' = Idle /\ UNCHANGED <<user, monitor>>
         \/ monitor' = Idle /\ UNCHANGED <<user, sweeper>>
  BY DEF Dies, MayFail
<1>2. Calm /\ stopped' \in Flags
  BY <1>1, CalmStill DEF IInv, Typed
<1>3. CASE user' = Idle /\ UNCHANGED <<sweeper, monitor>>
  <2>1. UserOK' /\ user' \in Mutation \cup {Idle}
    BY <1>3 DEF UserOK
  <2> QED
    BY <1>1, <1>2, <1>3, <2>1, UserKeeps
<1>4. CASE sweeper' = Idle /\ UNCHANGED <<user, monitor>>
  <2>1. SweeperOK' /\ sweeper' \in Sweep \cup {Idle}
    BY <1>4 DEF SweeperOK
  <2> QED
    BY <1>1, <1>2, <1>4, <2>1, SweeperKeeps
<1>5. CASE monitor' = Idle /\ UNCHANGED <<user, sweeper>>
  <2>1. MonitorOK' /\ monitor' \in Pass \cup {Idle}
    BY <1>5 DEF MonitorOK
  <2> QED
    BY <1>1, <1>2, <1>5, <2>1, MonitorKeeps
<1> QED
  BY <1>1, <1>3, <1>4, <1>5

-----------------------------------------------------------------------------
(* The invariant, and what it says of retries and deposits. *)

LEMMA InitIInv ==
  ASSUME Init
  PROVE  IInv
<1>1. /\ row = [a \in Attempt |-> [status |-> IF a = 1 THEN "CREATING" ELSE "ABSENT", tries |-> 0, dseq |-> 0]]
      /\ chain = [d \in 0..MaxDseq |-> "none"] /\ worker = [w \in Worker |-> Idle]
      /\ queue = {} \/ queue = {Msg("SUBMIT_TX", 1)}
      /\ user = Idle /\ sweeper = Idle /\ monitor = Idle /\ faults = 0
  BY Zenon DEF Init
<1>2. stopped \in Flags /\ redeployed \in Flags
  BY Zenon DEF Init, Flags
<1>m. PICK m : m = Msg("SUBMIT_TX", 1)
  OBVIOUS
<1>3. m \in Note /\ m.step = "SUBMIT_TX" /\ m.at = 1
  BY <1>m, Zeros, MsgTypes DEF Step
<1>4. IsFiniteSet({}) /\ Cardinality({}) = 0 /\ IsFiniteSet({m}) /\ Cardinality({m}) = 1 /\ Cardinality({1}) = 1
  BY FS_EmptySet, FS_Singleton
<1>5. row \in [Attempt -> Row] /\ \A a \in Attempt : row[a].tries = 0 /\ row[a].dseq = 0 /\ (Exists(a) <=> a = 1)
  <2>1. {"CREATING", "ABSENT"} \subseteq Status
    BY DEF Status, InProgress
  <2> QED
    BY <1>1, <2>1, Zeros DEF Row, Exists
<1>6. Typed
  <2>1. queue \subseteq Note /\ IsFiniteSet(queue)
    BY <1>1, <1>3, <1>4, <1>m
  <2>2. chain \in [0..MaxDseq -> States] /\ chain[0] = "none"
    BY <1>1, Zeros DEF States
  <2>3. faults \in 0..MaxFaults /\ worker \in [Worker -> Job \cup {Idle}]
    BY <1>1, PipelineAssumption
  <2> QED
    BY <1>1, <1>2, <1>5, <2>1, <2>2, <2>3, Zenon DEF Typed
<1>7. Busy = {} /\ Submitters = {}
  BY <1>1 DEF Busy, Submitters
<1>8. Refs
  BY <1>1, <1>3, <1>5, <1>7, <1>m, Zeros DEF Refs, RowOK, UserOK, SweeperOK, MonitorOK
<1>9. Cardinality(queue) \in {0, 1}
  BY <1>1, <1>4, <1>m
<1>10. Retries
  <2> SUFFICES ASSUME NEW k \in Nat
               PROVE  Cardinality(Retried(k)) + Cardinality(Waiting(k)) + Cardinality(Working(k)) <= 1 + faults
    BY Zenon DEF Retries
  <2>1. Retried(k) = {} /\ Working(k) = {}
    BY <1>5, <1>7 DEF Retried, Working
  <2>2. Waiting(k) \subseteq queue
    BY DEF Waiting
  <2>3. Cardinality(Waiting(k)) <= 1 /\ Cardinality(Waiting(k)) \in Nat
    BY <1>6, <1>9, <2>2, Finite, NoMore
  <2> QED
    BY <1>1, <1>4, <2>1, <2>3
<1>11. Deposits
  <2>1. Loose = {}
    <3>1. \A d \in Dseq : ~Open(d)
      BY <1>1, PipelineAssumption DEF Open, Dseq
    <3> QED
      BY <3>1 DEF Loose
  <2>2. Fresh \subseteq Attempt
    BY DEF Fresh
  <2>3. Cardinality(Fresh) \in Nat
    BY <1>6, <2>2, Finite, NoMore
  <2>4. CASE queue = {}
    <3>1. SubmitMessages = {}
      BY <2>4 DEF SubmitMessages
    <3> QED
      BY <1>1, <1>4, <1>7, <2>1, <2>3, <2>4, <3>1 DEF Deposits
  <2>5. CASE queue = {m}
    <3>1. SubmitMessages = {m}
      BY <1>3, <2>5 DEF SubmitMessages
    <3>2. Fresh = {1}
      <4> SUFFICES ASSUME NEW a PROVE a \in Fresh <=> a = 1
        OBVIOUS
      <4> QED
        BY <1>3, <1>5, <1>7, <3>1, Zeros DEF Fresh
    <3> QED
      BY <1>1, <1>4, <1>7, <2>1, <2>5, <3>1, <3>2 DEF Deposits
  <2> QED
    BY <1>1, <1>m, <2>4, <2>5
<1> QED
  BY <1>6, <1>8, <1>10, <1>11 DEF IInv

LEMMA HandleKeeps ==
  ASSUME IInv, NEW w \in Worker, Handle(w)
  PROVE  IInv'
BY SendKeeps, SendFailsKeeps, ReportKeeps, AbandonKeeps, LastWritesKeep, SubmitKeeps, RejectedKeeps, SaveDseqKeeps,
   CheckBidsKeeps, SelectingBidKeeps, ChooseBidKeeps, AwaitRegionKeeps, SavesKeep, CreateLeaseKeeps,
   SendManifestKeeps, PollUrlsKeeps, ActivateKeeps, MarkFailedKeeps, RetryKeeps, ReclaimKeeps, SpawnKeeps, Zenon
   DEF Handle

LEMMA StutterKeeps ==
  ASSUME IInv, UNCHANGED vars
  PROVE  IInv'
<1>1. UNCHANGED <<row, chain>> /\ UNCHANGED <<queue, worker>> /\ UNCHANGED faults
      /\ UNCHANGED user /\ UNCHANGED sweeper /\ UNCHANGED monitor /\ UNCHANGED stopped /\ UNCHANGED redeployed
  BY DEF vars
<1>2. Calm /\ MayFail
  BY <1>1, CalmStill DEF MayFail
<1>3. UserOK' /\ SweeperOK' /\ MonitorOK'
  BY <1>1, <1>2, UserStays, SweeperStays, MonitorStays DEF IInv, Refs, Calm
<1>4. /\ user' \in Mutation \cup {Idle} /\ sweeper' \in Sweep \cup {Idle} /\ monitor' \in Pass \cup {Idle}
      /\ stopped' \in Flags /\ redeployed' \in Flags
  BY <1>1, Zenon DEF IInv, Typed
<1> QED
  BY <1>1, <1>2, <1>3, <1>4, OutsideKeeps, Zenon

LEMMA NextIInv ==
  ASSUME IInv, [Next]_vars
  PROVE  IInv'
<1>1. CASE \E w \in Worker : Deliver(w) \/ Handle(w) \/ Throws(w) \/ Crash(w)
  BY <1>1, ReceiveKeeps, HandleKeeps, ThrowsKeeps, CrashKeeps, Zenon DEF Deliver
<1>2. CASE \E a \in Attempt : UserStops(a)
  BY <1>2, UserStopsKeeps
<1>3. CASE UserStep
  BY <1>3, UserClosesKeeps, UserMarksKeeps, UserReadsSiblingsKeeps, UserTakesSiblingKeeps, Zenon DEF UserStep
<1>4. CASE SweepStep
  BY <1>4, SweepPicksKeeps, SweepClosesKeeps, SweepMarksKeeps, Zenon DEF SweepStep
<1>5. CASE MonitorStep
  BY <1>5, MonitorFindsGoneKeeps, MonitorFindsLeakKeeps, MonitorClosesKeeps, MonitorSyncsKeeps, Zenon DEF MonitorStep
<1>6. CASE Dies
  BY <1>6, DiesKeeps
<1>7. CASE UNCHANGED vars
  BY <1>7, StutterKeeps
<1> QED
  BY <1>1, <1>2, <1>3, <1>4, <1>5, <1>6, <1>7, Zenon DEF Next

\* What the two counts and the references keep true, whatever the interleaving and
\* the faults: the inductive invariant.
THEOREM Invariance == Spec => []IInv
<1>1. Init => IInv
  BY InitIInv
<1>2. IInv /\ [Next]_vars => IInv'
  BY NextIInv
<1> QED
  BY <1>1, <1>2, PTL DEF Spec

LEMMA InvTypeOK ==
  ASSUME IInv
  PROVE  TypeOK
<1>1. Typed /\ Refs
  BY DEF IInv
<1>2. row \in [Attempt -> Row] /\ chain \in [0..MaxDseq -> {"none", "open", "leased", "closed"}] /\ chain[0] = "none"
  BY <1>1 DEF Typed, States
<1>3. \A a \in Attempt : row[a].dseq # 0 => chain[row[a].dseq] # "none"
  BY <1>1 DEF Refs, RowOK
<1>4. queue \subseteq Message
  BY <1>1, NotesAreMessages, Zenon DEF Typed
<1>5. Job = [pc : Pc, msg : Message, at : Attempt, dseq : 0..MaxDseq, next : Message]
  BY NotesAreMessages, Zenon DEF Job
<1>6. \A w \in Worker : worker[w] = Idle \/
        worker[w] \in [pc : Pc, msg : Message, at : Attempt, dseq : 0..MaxDseq, next : Message]
  <2>1. \A w \in Worker : worker[w] = Idle \/ worker[w] \in Job
    BY <1>1 DEF Typed
  <2> QED
    BY <1>5, <2>1, Zenon
<1>7. stopped \in BOOLEAN /\ redeployed \in BOOLEAN /\ faults \in 0..MaxFaults
  BY <1>1, Zenon DEF Typed, Flags
<1> QED
  BY <1>2, <1>3, <1>4, <1>6, <1>7, Zenon DEF TypeOK

LEMMA InvRetries ==
  ASSUME IInv
  PROVE  RetriesDoNotMultiply
<1> SUFFICES ASSUME NEW k \in 0..MaxRetry
             PROVE  Cardinality({a \in Attempt : Exists(a) /\ row[a].tries = k}) <= 1 + faults
  BY Zenon DEF RetriesDoNotMultiply
<1> DEFINE S == {a \in Attempt : Exists(a) /\ row[a].tries = k}
<1>1. Typed /\ Refs /\ Retries /\ faults \in Nat
  BY PipelineAssumption DEF IInv, Typed
<1>2. CASE k = 0
  <2>1. S \subseteq {} \cup {1}
    BY <1>1, <1>2 DEF Refs, RowOK
  <2> HIDE DEF S
  <2>2. Cardinality(S) <= Cardinality({}) + 1 /\ Cardinality(S) \in Nat /\ Cardinality({}) = 0
    BY <2>1, FS_EmptySet, OneMore
  <2>3. Cardinality(S) <= 1 + faults
    BY <1>1, <2>2
  <2> QED
    BY <2>3 DEF S
<1>3. CASE k # 0
  <2>1. PICK l \in Nat : k = l + 1
    <3>1. k - 1 \in Nat /\ k = (k - 1) + 1
      BY <1>3, PipelineAssumption
    <3> QED
      BY <3>1
  <2>2. S = Retried(l)
    BY <2>1, Zenon DEF Retried
  <2> HIDE DEF S
  <2>3. Cardinality(Retried(l)) + Cardinality(Waiting(l)) + Cardinality(Working(l)) <= 1 + faults
    BY <1>1 DEF Retries
  <2>4. Cardinality(Retried(l)) \in Nat /\ Cardinality(Waiting(l)) \in Nat /\ Cardinality(Working(l)) \in Nat
    <3>1. Retried(l) \subseteq Attempt /\ Waiting(l) \subseteq queue /\ Working(l) \subseteq Worker
      BY Zenon DEF Retried, Waiting, Working, Busy
    <3> QED
      BY <1>1, <3>1, Finite, NoMore
  <2>5. Cardinality(S) <= 1 + faults
    BY <1>1, <2>2, <2>3, <2>4
  <2> QED
    BY <2>5 DEF S
<1> QED
  BY <1>2, <1>3

\* The images of a finite set are no more than its elements, and so with a union.
LEMMA ImageBound ==
  ASSUME NEW S, IsFiniteSet(S), NEW g, NEW R, R \subseteq {g[x] : x \in S}
  PROVE  IsFiniteSet(R) /\ Cardinality(R) \in Nat /\ Cardinality(S) \in Nat /\ Cardinality(R) <= Cardinality(S)
<1> DEFINE T == {g[x] : x \in S}
           h == [x \in S |-> g[x]]
<1>1. h \in Surjection(S, T)
  BY DEF Surjection
<1> HIDE DEF h, T
<1>2. IsFiniteSet(T) /\ Cardinality(T) <= Cardinality(S)
  BY <1>1, FS_Surjection
<1>3. IsFiniteSet(R) /\ Cardinality(R) <= Cardinality(T)
  <2>1. R \in SUBSET T
    BY DEF T
  <2> QED
    BY <1>2, <2>1, FS_Subset, Zenon
<1> QED
  BY <1>2, <1>3, FS_CardinalityType

LEMMA UnionBound ==
  ASSUME NEW S, NEW T, IsFiniteSet(S), IsFiniteSet(T), NEW R, R \subseteq S \cup T
  PROVE  IsFiniteSet(R) /\ Cardinality(R) \in Nat /\ Cardinality(R) <= Cardinality(S) + Cardinality(T)
<1>1. /\ IsFiniteSet(S \cup T)
      /\ Cardinality(S \cup T) = Cardinality(S) + Cardinality(T) - Cardinality(S \cap T)
  BY FS_Union
<1>2. IsFiniteSet(S \cap T)
  BY FS_Subset, Zenon
<1>3. IsFiniteSet(R) /\ Cardinality(R) <= Cardinality(S \cup T)
  BY <1>1, FS_Subset, Zenon
<1> QED
  BY <1>1, <1>2, <1>3, FS_CardinalityType

LEMMA InvDeposits ==
  ASSUME IInv
  PROVE  OneDeposit
<1>1. Typed /\ Deposits /\ faults \in Nat
  BY PipelineAssumption DEF IInv, Typed
<1>2. /\ IsFiniteSet(queue) /\ IsFiniteSet(Busy) /\ IsFiniteSet(Loose)
      /\ IsFiniteSet(SubmitMessages) /\ IsFiniteSet(Submitters) /\ IsFiniteSet(Fresh)
  BY <1>1, Finite, FS_Subset, Zenon DEF Busy, Submitters, SubmitMessages, Loose, Fresh
<1> DEFINE O == {d \in Dseq : Open(d)}
           byWorker == [w \in Busy |-> Holds(worker[w])]
           byMessage == [m \in queue |-> Keeps(m)]
           A == {byWorker[w] : w \in Busy}
           B == {byMessage[m] : m \in queue}
           toRow == [w \in Submitters |-> Target(worker[w])]
           atRow == [m \in SubmitMessages |-> m.at]
           C == {toRow[w] : w \in Submitters}
           D == {atRow[m] : m \in SubmitMessages}
<1>3. O \subseteq Loose \cup (A \cup B)
  <2> SUFFICES ASSUME NEW d \in O, d \notin Loose PROVE d \in A \cup B
    OBVIOUS
  <2>1. d \in Dseq /\ Open(d) /\ d # 0
    BY DEF Dseq
  <2>2. (\E w \in Worker : Holds(worker[w]) = d) \/ (\E m \in queue : Keeps(m) = d)
    BY <2>1, Zenon DEF Loose
  <2>3. ASSUME NEW w \in Worker, Holds(worker[w]) = d PROVE d \in A
    <3>1. w \in Busy
      <4>1. Holds(Idle) = 0
        BY IdleIsNoJob DEF Holds, Remembers
      <4> QED
        BY <2>1, <2>3, <4>1 DEF Busy
    <3> QED
      BY <2>3, <3>1
  <2>4. ASSUME NEW m \in queue, Keeps(m) = d PROVE d \in B
    BY <2>4
  <2> QED
    BY <2>2, <2>3, <2>4
<1>4. Fresh \subseteq C \cup D
  BY DEF Fresh
<1>5. /\ IsFiniteSet(A) /\ Cardinality(A) \in Nat /\ Cardinality(A) <= Cardinality(Busy)
      /\ IsFiniteSet(B) /\ Cardinality(B) \in Nat /\ Cardinality(B) <= Cardinality(queue)
      /\ IsFiniteSet(C) /\ Cardinality(C) \in Nat /\ Cardinality(C) <= Cardinality(Submitters)
      /\ IsFiniteSet(D) /\ Cardinality(D) \in Nat /\ Cardinality(D) <= Cardinality(SubmitMessages)
  <2> HIDE DEF byWorker, byMessage, toRow, atRow
  <2> QED
    BY <1>2, ImageBound
<1> HIDE DEF O, A, B, C, D
<1>6. IsFiniteSet(A \cup B) /\ Cardinality(A \cup B) <= Cardinality(A) + Cardinality(B) /\ Cardinality(A \cup B) \in Nat
  BY <1>5, UnionBound
<1>7. Cardinality(O) <= Cardinality(Loose) + Cardinality(A \cup B) /\ Cardinality(O) \in Nat
  BY <1>2, <1>3, <1>6, UnionBound
<1>8. Cardinality(Fresh) <= Cardinality(C) + Cardinality(D) /\ Cardinality(Fresh) \in Nat
  BY <1>4, <1>5, UnionBound
<1>9. /\ Cardinality(queue) \in Nat /\ Cardinality(Busy) \in Nat /\ Cardinality(Loose) \in Nat
      /\ Cardinality(SubmitMessages) \in Nat /\ Cardinality(Submitters) \in Nat
  BY <1>2, FS_CardinalityType
<1>10. Cardinality(queue) + Cardinality(Busy) + Cardinality(SubmitMessages) + Cardinality(Submitters)
         + Cardinality(Loose) <= 1 + 2 * faults + Cardinality(Fresh)
  BY <1>1, Zenon DEF Deposits
<1>11. Cardinality(O) <= 1 + 2 * faults
  BY <1>1, <1>5, <1>6, <1>7, <1>8, <1>9, <1>10
<1> QED
  BY <1>11 DEF O, OneDeposit

\* The variables keep their types in every reachable state, whatever the number of
\* handlers, retries, polls and faults; a row has a dseq only once the chain gave it.
THEOREM TypeCorrect == Spec => []TypeOK
BY Invariance, InvTypeOK, PTL

\* Retries do not multiply: of the rows of one service at most one is the k-th retry,
\* and one more for each fault, however the handlers interleave.
THEOREM RetriesBounded == Spec => []RetriesDoNotMultiply
BY Invariance, InvRetries, PTL

\* A service holds one deposit on the chain, and at most two more for each fault.
THEOREM DepositsBounded == Spec => []OneDeposit
BY Invariance, InvDeposits, PTL

-----------------------------------------------------------------------------
(* A row that has ended, with nobody at work on it, has ended for ever. *)

EndedStatuses == {"CLOSED", "FAILED", "PERMANENTLY_FAILED"}
\* A handler that failed to publish a retry may still come to the row, to write it off.
Rests(a) ==
  /\ row[a].status \in EndedStatuses
  /\ \A w \in Worker : At(w, "idle") \/ Here(w) # a \/ worker[w].pc \in WritingOff
  /\ sweeper.pc = "idle" \/ sweeper.at # a
\* The monitor writes CLOSE_FAILED only over an ACTIVE row.
RefusedIsGone == monitor # Idle => monitor.ok = TRUE \/ monitor.gone = TRUE

\* What a handler does to its own stage, and to rows.
Stays(w) == \E j : /\ Becomes(w, j)
                   /\ \/ j = Idle
                      \/ j.pc \in WritingOff
                      \/ j.at = Here(w) /\ worker[w].pc \notin WritingOff
SparesEnded(w) == \A a \in Attempt :
  \/ row'[a].status = row[a].status
  \/ row'[a].status \in EndedStatuses
  \/ ~Exists(a)
  \/ a = Here(w) /\ worker[w].pc \notin WritingOff

LEMMA StaysIf ==
  ASSUME IInv, NEW w \in Worker, ~At(w, "idle")
  PROVE  /\ Finish(w) => Stays(w)
         /\ \A pc : Goto(w, pc) /\ (pc \in WritingOff \/ worker[w].pc \notin WritingOff) => Stays(w)
         /\ \A m : Publish(w, m) /\ worker[w].pc \notin WritingOff => Stays(w)
<1>1. worker[w] \in Job /\ Typed
  BY AtWork DEF IInv
<1>2. /\ \A pc : To(worker[w], pc).at = Here(w) /\ To(worker[w], pc).pc = pc
      /\ \A m : Sends(worker[w], m).at = Here(w)
  BY <1>1 DEF Job, To, Sends, Here
<1>3. /\ \A pc : Goto(w, pc) => Becomes(w, To(worker[w], pc))
      /\ \A m : Publish(w, m) => Becomes(w, Sends(worker[w], m))
      /\ Finish(w) => Becomes(w, Idle)
  BY <1>1, Moved
<1>4. Finish(w) => Stays(w)
  BY <1>3, Zenon DEF Stays
<1>5. ASSUME NEW pc, Goto(w, pc), pc \in WritingOff \/ worker[w].pc \notin WritingOff
      PROVE  Stays(w)
  <2>1. Becomes(w, To(worker[w], pc)) /\ To(worker[w], pc).at = Here(w) /\ To(worker[w], pc).pc = pc
    BY <1>2, <1>3, <1>5
  <2> QED
    BY <1>5, <2>1 DEF Stays
<1>6. ASSUME NEW m, Publish(w, m), worker[w].pc \notin WritingOff
      PROVE  Stays(w)
  <2>1. Becomes(w, Sends(worker[w], m)) /\ Sends(worker[w], m).at = Here(w)
    BY <1>2, <1>3, <1>6
  <2> QED
    BY <1>6, <2>1 DEF Stays
<1> QED
  BY <1>4, <1>5, <1>6

LEMMA RowsIf ==
  ASSUME IInv, NEW w \in Worker, ~At(w, "idle")
  PROVE  /\ UNCHANGED row => SparesEnded(w)
         /\ \A st \in EndedStatuses : SetStatus(Here(w), st) => SparesEnded(w)
         /\ \A st : SetStatus(Here(w), st) /\ worker[w].pc \notin WritingOff => SparesEnded(w)
<1>1. Here(w) \in Attempt /\ row \in [Attempt -> Row]
  BY AtWork DEF IInv, Typed
<1>2. UNCHANGED row => SparesEnded(w)
  BY DEF SparesEnded
<1>3. \A st : SetStatus(Here(w), st) =>
        /\ \A a \in Attempt \ {Here(w)} : row'[a].status = row[a].status
        /\ row'[Here(w)].status = st
  BY <1>1 DEF SetStatus, Row
<1> QED
  BY <1>2, <1>3 DEF SparesEnded

Steps(w) == ~At(w, "idle") /\ Stays(w) /\ SparesEnded(w) /\ UNCHANGED sweeper

LEMMA StillSteps ==
  ASSUME IInv, NEW w \in Worker,
         \/ Send(w) \/ Report(w) \/ Abandon(w) \/ Rejected(w) \/ Throws(w) \/ Crash(w)
         \/ CheckBids(w) \/ ChooseBid(w) \/ CreateLease(w) \/ SendManifest(w) \/ PollUrls(w) \/ Finalize(w)
         \/ Retry(w) \/ Reclaim(w)
  PROVE  Steps(w)
<1>1. /\ ~At(w, "idle") /\ UNCHANGED row /\ UNCHANGED sweeper
      /\ worker[w].pc \notin WritingOff \/ Abandon(w) \/ Crash(w)
  BY DEF Send, Report, Abandon, Rejected, Throws, Crash, CheckBids, ChooseBid, CreateLease, SendManifest,
         PollUrls, Finalize, Retry, Reclaim, At, others, WritingOff
<1>2. \/ Finish(w)
      \/ \E pc : Goto(w, pc) /\ (pc \in WritingOff \/ worker[w].pc \notin WritingOff)
      \/ \E m : Publish(w, m) /\ worker[w].pc \notin WritingOff
  <2>1. CASE Abandon(w) \/ Crash(w)
    BY <2>1 DEF Abandon, Crash, WritingOff
  <2>2. CASE ~(Abandon(w) \/ Crash(w))
    <3>1. Finish(w) \/ (\E pc : Goto(w, pc)) \/ (\E m : Publish(w, m))
      BY <2>2, Zenon DEF Send, Report, Rejected, Throws, CheckBids, ChooseBid, CreateLease, SendManifest,
         PollUrls, Finalize, Retry, Reclaim, PollAgain, PollsExhausted
    <3> QED
      BY <1>1, <2>2, <3>1, Zenon
  <2> QED
    BY <2>1, <2>2
<1>3. Stays(w)
  BY <1>1, <1>2, StaysIf, Zenon
<1>4. SparesEnded(w)
  BY <1>1, RowsIf
<1> QED
  BY <1>1, <1>3, <1>4 DEF Steps

LEMMA WritingSteps ==
  ASSUME IInv, NEW w \in Worker,
         \/ WriteOff(w) \/ CancelRetry(w) \/ Bury(w) \/ SelectingBid(w) \/ AwaitRegion(w)
         \/ SaveBid(w) \/ SaveLease(w) \/ SaveManifest(w) \/ Activate(w) \/ MarkFailed(w)
  PROVE  Steps(w)
<1>1. /\ ~At(w, "idle") /\ UNCHANGED sweeper
      /\ worker[w].pc \notin WritingOff \/ WriteOff(w)
  BY DEF WriteOff, CancelRetry, Bury, SelectingBid, AwaitRegion, SaveBid, SaveLease, SaveManifest, Activate,
         MarkFailed, Advance, At, others, WritingOff
<1>2. CASE WriteOff(w)
  <2>1. Finish(w) /\ SetStatus(Here(w), "FAILED") /\ "FAILED" \in EndedStatuses
    BY <1>2 DEF WriteOff, EndedStatuses
  <2> QED
    BY <1>1, <2>1, StaysIf, RowsIf, Zenon DEF Steps
<1>3. CASE ~WriteOff(w)
  <2>1. \E st : SetStatus(Here(w), st)
    BY <1>3, Zenon DEF CancelRetry, Bury, SelectingBid, AwaitRegion, SaveBid, SaveLease, SaveManifest, Activate,
       MarkFailed, Advance
  <2>2. Finish(w) \/ (\E pc : Goto(w, pc)) \/ (\E m : Publish(w, m))
    BY <1>3, Zenon DEF CancelRetry, Bury, SelectingBid, AwaitRegion, SaveBid, SaveLease, SaveManifest, Activate,
       MarkFailed, Advance
  <2> QED
    BY <1>1, <1>3, <2>1, <2>2, StaysIf, RowsIf, Zenon DEF Steps
<1> QED
  BY <1>2, <1>3

LEMMA OtherSteps ==
  ASSUME IInv, NEW w \in Worker, SendFails(w) \/ Submit(w) \/ SaveDseq(w) \/ Spawn(w)
  PROVE  Steps(w)
<1>1. ~At(w, "idle") /\ UNCHANGED sweeper /\ worker[w].pc \notin WritingOff
  BY Zenon DEF SendFails, Submit, SaveDseq, Spawn, At, others, WritingOff
<1>2. worker[w] \in Job /\ Here(w) \in Attempt /\ row \in [Attempt -> Row] /\ Typed
  BY <1>1, AtWork DEF IInv, Typed
<1>3. CASE SendFails(w)
  <2>1. UNCHANGED row
    BY <1>3, Zenon DEF SendFails
  <2>2. Stays(w)
    <3>1. CASE worker[w].msg.step = "HANDLE_FAILURE"
      <4>1. worker' = [worker EXCEPT ![w].pc = "abandon", ![w].at = worker[w].next.at]
        BY <1>3, <3>1 DEF SendFails
      <4>2. Becomes(w, GivesUp(worker[w])) /\ GivesUp(worker[w]).pc = "abandon"
        BY <1>2, <4>1, GivesUpTypes DEF Becomes, GivesUp, Typed
      <4> QED
        BY <4>2 DEF Stays, WritingOff
    <3>2. CASE worker[w].msg.step # "HANDLE_FAILURE"
      <4>1. (\E pc : Goto(w, pc)) \/ (\E m : Publish(w, m))
        BY <1>3, <3>2 DEF SendFails
      <4> QED
        BY <1>1, <4>1, StaysIf, Zenon
    <3> QED
      BY <3>1, <3>2
  <2> QED
    BY <1>1, <2>1, <2>2, RowsIf DEF Steps
<1>4. CASE Submit(w)
  <2>1. UNCHANGED row
    BY <1>4 DEF Submit
  <2>2. Stays(w)
    <3>1. PICK d \in Dseq : \/ worker' = [worker EXCEPT ![w].pc = "save_dseq", ![w].dseq = d]
                            \/ Goto(w, "report")
      BY <1>4 DEF Submit
    <3>2. CASE worker' = [worker EXCEPT ![w].pc = "save_dseq", ![w].dseq = d]
      <4>1. Becomes(w, Got(worker[w], d)) /\ Got(worker[w], d).at = Here(w)
        BY <1>2, <3>2 DEF Becomes, Got, Typed, Job, Here
      <4> QED
        BY <1>1, <4>1, Zenon DEF Stays
    <3>3. CASE Goto(w, "report")
      BY <1>1, <3>3, StaysIf, Zenon
    <3> QED
      BY <3>1, <3>2, <3>3
  <2> QED
    BY <1>1, <2>1, <2>2, RowsIf DEF Steps
<1>5. CASE SaveDseq(w)
  <2>1. Stays(w)
    BY <1>1, <1>5, StaysIf, Zenon DEF SaveDseq
  <2>2. SparesEnded(w)
    <3>1. \A a \in Attempt \ {Here(w)} : row'[a] = row[a]
      BY <1>2, <1>5 DEF SaveDseq
    <3> QED
      BY <1>1, <3>1 DEF SparesEnded
  <2> QED
    BY <1>1, <2>1, <2>2 DEF Steps
<1>6. CASE Spawn(w)
  <2>1. PICK b \in Attempt : /\ IsLeast(b, Unused)
                             /\ row' = [row EXCEPT ![b] = [status |-> "CREATING", tries |-> row[Here(w)].tries + 1, dseq |-> 0]]
                             /\ Publish(w, Msg("SUBMIT_TX", b))
    BY <1>6 DEF Spawn
  <2>2. Stays(w)
    BY <1>1, <2>1, StaysIf, Zenon
  <2>3. ~Exists(b) /\ \A a \in Attempt \ {b} : row'[a] = row[a]
    BY <1>2, <2>1 DEF IsLeast, Unused
  <2>4. SparesEnded(w)
    BY <2>3 DEF SparesEnded
  <2> QED
    BY <1>1, <2>2, <2>4 DEF Steps
<1> QED
  BY <1>3, <1>4, <1>5, <1>6

LEMMA HandlerSteps ==
  ASSUME IInv, NEW w \in Worker, Handle(w) \/ Throws(w) \/ Crash(w)
  PROVE  Steps(w)
BY StillSteps, WritingSteps, OtherSteps, Zenon DEF Handle

LEMMA StepsRest ==
  ASSUME IInv, NEW w \in Worker, Steps(w), NEW a \in Attempt, Rests(a)
  PROVE  Rests(a)'
<1>1. At(w, "idle") \/ Here(w) # a \/ worker[w].pc \in WritingOff
  BY DEF Rests
<1>2. PICK j : /\ Becomes(w, j)
               /\ \/ j = Idle
                  \/ j.pc \in WritingOff
                  \/ j.at = Here(w) /\ worker[w].pc \notin WritingOff
  BY DEF Steps, Stays
<1>3. worker'[w] = j /\ \A v \in Worker \ {w} : worker'[v] = worker[v]
  BY <1>2 DEF Becomes, IInv, Typed
<1>4. Exists(a) /\ row'[a].status \in EndedStatuses
  <2>1. Exists(a)
    BY DEF Rests, Exists, EndedStatuses
  <2> QED
    BY <1>1, <2>1 DEF Rests, Steps, SparesEnded
<1>5. j.pc = "idle" \/ j.at # a \/ j.pc \in WritingOff
  BY <1>1, <1>2, IdleIsNoJob DEF Steps
<1>6. \A v \in Worker : worker'[v].pc = "idle" \/ worker'[v].at # a \/ worker'[v].pc \in WritingOff
  BY <1>3, <1>5 DEF Rests, At, Here
<1>7. sweeper'.pc = "idle" \/ sweeper'.at # a
  BY DEF Rests, Steps
<1> QED
  BY <1>4, <1>6, <1>7 DEF Rests, At, Here

LEMMA HandlerLeavesMonitor ==
  ASSUME NEW w \in Worker, Handle(w) \/ Throws(w) \/ Crash(w)
  PROVE  UNCHANGED monitor
BY Zenon DEF Handle, Throws, Crash, Send, SendFails, Report, Abandon, WriteOff, CancelRetry, Submit, Rejected,
   SaveDseq, CheckBids, SelectingBid, ChooseBid, AwaitRegion, SaveBid, CreateLease, SaveLease, SendManifest,
   SaveManifest, PollUrls, Finalize, Activate, MarkFailed, Retry, Reclaim, Spawn, Bury, Advance, others

LEMMA ReceiveRests ==
  ASSUME IInv, NEW w \in Worker, NEW m \in queue, Receive(w, m), NEW a \in Attempt, Rests(a)
  PROVE  Rests(a)'
<1>1. At(w, "idle") /\ UNCHANGED row /\ UNCHANGED sweeper /\ row[a].status \in EndedStatuses
  BY Zenon DEF Receive, others, Rests
<1>2. CASE row[m.at].status \in Terminal
  <2>1. UNCHANGED worker
    BY <1>2, Zenon DEF Receive
  <2> QED
    BY <1>1, <2>1 DEF Rests, At, Here
<1>3. CASE row[m.at].status \notin Terminal
  <2>1. m.at # a
    BY <1>1, <1>3 DEF EndedStatuses, Terminal
  <2>2. PICK j : /\ j = [pc |-> FirstPc(m), msg |-> m, at |-> m.at, dseq |-> row[m.at].dseq, next |-> m]
                 /\ worker' = [worker EXCEPT ![w] = j]
    BY <1>3, Zenon DEF Receive
  <2>3. j.at # a
    BY <2>1, <2>2
  <2>4. worker'[w] = j /\ \A v \in Worker \ {w} : worker'[v] = worker[v]
    BY <2>2 DEF IInv, Typed
  <2>5. \A v \in Worker : worker'[v].pc = "idle" \/ worker'[v].at # a \/ worker'[v].pc \in WritingOff
    BY <2>3, <2>4 DEF Rests, At, Here
  <2> QED
    BY <1>1, <2>5 DEF Rests, At, Here
<1> QED
  BY <1>2, <1>3

\* The mutation, the sweeper and the monitor write rows, and only the sweeper takes
\* one that it may not have found to have ended.
LEMMA OutsideRests ==
  ASSUME UNCHANGED worker, NEW a \in Attempt, Rests(a), row'[a].status \in EndedStatuses,
         sweeper'.pc = "idle" \/ sweeper'.at # a
  PROVE  Rests(a)'
BY DEF Rests, At, Here

LEMMA EndedIs ==
  ASSUME NEW a \in Attempt, Rests(a)
  PROVE  /\ row[a].status \in EndedStatuses
         /\ row[a].status \notin InProgress \cup {"AWAITING_REGION_RESPONSE", "ACTIVE", "CLOSE_FAILED"}
         /\ sweeper.pc = "idle" \/ sweeper.at # a
BY DEF Rests, EndedStatuses, InProgress

LEMMA UserRests ==
  ASSUME IInv, UserStep \/ (\E b \in Attempt : UserStops(b)), NEW a \in Attempt, Rests(a)
  PROVE  Rests(a)'
<1>1. UNCHANGED worker /\ UNCHANGED sweeper
  BY DEF UserStep, UserStops, UserCloses, UserMarks, UserReadsSiblings, UserTakesSibling
<1>2. row'[a].status \in EndedStatuses
  <2>1. CASE UserMarks
    BY <2>1, EndedIs DEF UserMarks, SetStatus, IInv, Typed, Row, EndedStatuses
  <2>2. CASE ~UserMarks
    <3>1. UNCHANGED row
      BY <2>2 DEF UserStep, UserStops, UserCloses, UserReadsSiblings, UserTakesSibling
    <3> QED
      BY <3>1, EndedIs
  <2> QED
    BY <2>1, <2>2
<1> QED
  BY <1>1, <1>2, EndedIs, OutsideRests

LEMMA SweeperRests ==
  ASSUME IInv, SweepStep, NEW a \in Attempt, Rests(a)
  PROVE  Rests(a)'
<1>1. UNCHANGED worker
  BY DEF SweepStep, SweepPicks, SweepCloses, SweepMarks
<1>2. CASE \E b \in Attempt : SweepPicks(b)
  <2>1. PICK b \in Attempt : SweepPicks(b)
    BY <1>2
  <2>2. UNCHANGED row /\ a # b /\ sweeper'.at = b
    BY <2>1, EndedIs DEF SweepPicks
  <2> QED
    BY <1>1, <2>2, EndedIs, OutsideRests
<1>3. CASE SweepCloses
  <2>1. UNCHANGED row /\ sweeper.pc = "close"
    BY <1>3 DEF SweepCloses
  <2>2. sweeper \in Sweep
    BY <2>1, IdleIsNoJob DEF IInv, Typed, Sweep
  <2>3. sweeper'.at = sweeper.at
    BY <1>3, <2>2 DEF SweepCloses, Sweep
  <2> QED
    BY <1>1, <2>1, <2>3, EndedIs, OutsideRests
<1>4. CASE SweepMarks
  <2>1. sweeper.pc = "mark" /\ sweeper' = Idle
    BY <1>4, Zenon DEF SweepMarks
  <2>2. sweeper.at # a
    BY <2>1, EndedIs
  <2>3. UNCHANGED row \/ \E st : SetStatus(sweeper.at, st)
    BY <1>4, Zenon DEF SweepMarks
  <2>4. row'[a].status \in EndedStatuses
    BY <2>2, <2>3, EndedIs DEF SetStatus, IInv, Typed
  <2> QED
    BY <1>1, <2>1, <2>4, IdleIsNoJob, OutsideRests
<1> QED
  BY <1>2, <1>3, <1>4 DEF SweepStep

LEMMA MonitorRests ==
  ASSUME IInv, RefusedIsGone, MonitorStep, NEW a \in Attempt, Rests(a)
  PROVE  Rests(a)'
<1>1. UNCHANGED worker /\ UNCHANGED sweeper
  BY DEF MonitorStep, MonitorFindsGone, MonitorFindsLeak, MonitorCloses, MonitorSyncs
<1>2. CASE MonitorSyncs
  <2> SUFFICES row'[a].status \in EndedStatuses
    BY <1>1, EndedIs, OutsideRests
  <2>1. monitor.pc = "sync" /\ monitor # Idle
    BY <1>2, IdleIsNoJob DEF MonitorSyncs
  <2>2. UNCHANGED row \/ \E st : SetStatus(monitor.at, st)
    BY <1>2, Zenon DEF MonitorSyncs
  <2>3. CASE monitor.at # a
    BY <2>2, <2>3, EndedIs DEF SetStatus, IInv, Typed
  <2>4. CASE monitor.at = a /\ monitor.gone = TRUE
    <3>1. row[a].status \in Status \ {"ACTIVE"}
      BY EndedIs DEF IInv, Typed, Row
    <3>2. UNCHANGED row
      BY <1>2, <2>4, <3>1, Zenon DEF MonitorSyncs
    <3> QED
      BY <3>2, EndedIs
  <2>5. CASE monitor.at = a /\ monitor.ok = TRUE
    <3>1. UNCHANGED row \/ SetStatus(a, "CLOSED")
      BY <1>2, <2>5, Zenon DEF MonitorSyncs
    <3> QED
      BY <3>1, EndedIs DEF SetStatus, IInv, Typed, Row, EndedStatuses
  <2> QED
    BY <2>1, <2>3, <2>4, <2>5, Zenon DEF RefusedIsGone
<1>3. CASE ~MonitorSyncs
  <2>1. UNCHANGED row
    BY <1>3 DEF MonitorStep, MonitorFindsGone, MonitorFindsLeak, MonitorCloses
  <2> QED
    BY <1>1, <2>1, EndedIs, OutsideRests
<1> QED
  BY <1>2, <1>3

LEMMA DiesRests ==
  ASSUME Dies \/ UNCHANGED vars, NEW a \in Attempt, Rests(a)
  PROVE  Rests(a)'
<1>1. UNCHANGED worker /\ UNCHANGED row /\ (UNCHANGED sweeper \/ sweeper' = Idle)
  BY Zenon DEF Dies, vars
<1> QED
  BY <1>1, EndedIs, IdleIsNoJob, OutsideRests

LEMMA NextRests ==
  ASSUME IInv, RefusedIsGone, NEW a \in Attempt, Rests(a), [Next]_vars
  PROVE  Rests(a)'
<1>1. CASE \E w \in Worker : Deliver(w)
  BY <1>1, ReceiveRests DEF Deliver
<1>2. CASE \E w \in Worker : Handle(w) \/ Throws(w) \/ Crash(w)
  BY <1>2, HandlerSteps, StepsRest, Zenon
<1>3. CASE UserStep \/ \E b \in Attempt : UserStops(b)
  BY <1>3, UserRests
<1>4. CASE SweepStep \/ MonitorStep \/ Dies \/ UNCHANGED vars
  BY <1>4, SweeperRests, MonitorRests, DiesRests, Zenon
<1> QED
  BY <1>1, <1>2, <1>3, <1>4, Zenon DEF Next

LEMMA NextRefused ==
  ASSUME IInv, RefusedIsGone, [Next]_vars
  PROVE  RefusedIsGone'
<1>1. CASE UNCHANGED monitor \/ monitor' = Idle
  BY <1>1, Zenon DEF RefusedIsGone
<1>2. CASE MonitorStep
  <2>1. CASE \E a \in Attempt : MonitorFindsGone(a)
    BY <2>1 DEF MonitorFindsGone, RefusedIsGone
  <2>2. CASE \E d \in Dseq : MonitorFindsLeak(d)
    BY <2>2 DEF MonitorFindsLeak, RefusedIsGone
  <2>3. CASE MonitorCloses
    <3>1. monitor.pc = "close" /\ monitor # Idle /\ monitor \in Pass
      BY <2>3, IdleIsNoJob DEF MonitorCloses, IInv, Typed
    <3>2. \/ monitor' = [monitor EXCEPT !.pc = "sync"]
          \/ monitor' = [monitor EXCEPT !.pc = "sync", !.ok = FALSE] /\ monitor.gone = TRUE
          \/ monitor' = Idle
      <4>1. monitor.gone = TRUE \/ ~monitor.gone
        BY <3>1, Zenon DEF Pass, Flags
      <4> QED
        BY <2>3, <4>1, Zenon DEF MonitorCloses
    <3> QED
      BY <3>1, <3>2 DEF RefusedIsGone, Pass
  <2>4. CASE MonitorSyncs
    BY <1>1, <2>4 DEF MonitorSyncs
  <2> QED
    BY <1>2, <2>1, <2>2, <2>3, <2>4 DEF MonitorStep
<1>3. CASE ~MonitorStep
  <2>1. CASE \E w \in Worker : Deliver(w) \/ Handle(w) \/ Throws(w) \/ Crash(w)
    <3>1. PICK w \in Worker : Deliver(w) \/ Handle(w) \/ Throws(w) \/ Crash(w)
      BY <2>1
    <3>2. UNCHANGED monitor
      BY <3>1, HandlerLeavesMonitor DEF Deliver, Receive, others
    <3> QED
      BY <1>1, <3>2
  <2>2. CASE UserStep \/ SweepStep \/ (\E a \in Attempt : UserStops(a)) \/ Dies \/ UNCHANGED vars
    BY <1>1, <2>2 DEF UserStep, SweepStep, UserStops, UserCloses, UserMarks, UserReadsSiblings, UserTakesSibling,
       SweepPicks, SweepCloses, SweepMarks, Dies, vars
  <2> QED
    BY <1>3, <2>1, <2>2, Zenon DEF Next
<1> QED
  BY <1>2, <1>3

\* What a row's ending and the monitor's pass keep true.
LEMMA RefusalsInvariance == Spec => [](IInv /\ RefusedIsGone)
<1>1. Init => RefusedIsGone
  BY DEF Init, RefusedIsGone
<1>2. IInv /\ RefusedIsGone /\ [Next]_vars => RefusedIsGone'
  BY NextRefused
<1> QED
  BY <1>1, <1>2, Invariance, PTL DEF Spec

\* A stale or duplicate message revives no row: whatever the handlers, the user, the
\* sweeper and the monitor do, and whatever fails, a row that has ended with nobody at
\* work on it keeps one of the statuses of a row that has ended.
THEOREM EndedStay == Spec => EndedRowsRest
<1>1. ASSUME NEW a \in Attempt
      PROVE  Spec => [](AtRest(a) => [](row[a].status \in {"CLOSED", "FAILED", "PERMANENTLY_FAILED"}))
  <2>1. AtRest(a) => Rests(a)
    BY DEF AtRest, Rests, EndedStatuses
  <2>2. IInv /\ RefusedIsGone /\ Rests(a) /\ [Next]_vars => Rests(a)'
    BY NextRests
  <2>3. Rests(a) => row[a].status \in {"CLOSED", "FAILED", "PERMANENTLY_FAILED"}
    BY DEF Rests, EndedStatuses
  <2>4. Spec => []IInv /\ []RefusedIsGone /\ [][Next]_vars
    BY RefusalsInvariance, PTL DEF Spec
  <2> QED
    BY <2>1, <2>2, <2>3, <2>4, PTL
<1> QED
  BY <1>1 DEF EndedRowsRest
=============================================================================

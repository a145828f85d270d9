------------------------ MODULE HostedPipelineProofs ------------------------
(***************************************************************************)
(* A stamped Spheron row names a dead machine, for any rows, machines,     *)
(* retries, polls and faults.                                              *)
(*                                                                         *)
(* The argument: machines and rows are attached to each other for good.  A *)
(* row gets a machine once, from the one handler that rented it under the  *)
(* row's name: the name is not free while that machine lives, so no second *)
(* handler rents one (Apart), and what a failure handler or a close read   *)
(* before is the row's machine still.  A machine that is gone stays gone,  *)
(* and every stamp was preceded by a DELETE of the row's machine.          *)
(***************************************************************************)
EXTENDS HostedPipeline, TLAPS

\* The flags' set, by a name that keeps it out of the arithmetic prover's way.
Flags == BOOLEAN
States == {"unborn", "young", "old", "gone"}
Row     == [status : Statuses \cup {"none"}, vm : Machines \cup {NoVm},
            ip : Flags, retryCount : 0..MaxRetry, upstreamDeleted : Flags]
Handler == [row : Rows, kind : {"launch", "deploy", "activate"}, vm : Machines]
Failure == [row : Rows, vm : Machines \cup {NoVm}, retryable : Flags, wrote : Flags]
Close   == [row : Rows, to : {"STOPPED", "DELETED", "PAUSED"}, cleaned : Flags]

Typed ==
  /\ row \in [Rows -> Row] /\ machine \in [Machines -> States]
  /\ owner \in [Machines -> Rows \cup {NoVm}]
  /\ msgs \subseteq Message /\ flight \subseteq Handler
  /\ failing \subseteq Failure /\ closing \subseteq Close
  /\ faults \in 0..MaxFault /\ provider \in {"phala", "spheron"}

LEMMA TypedIsTypeOK == Typed <=> TypeOK
BY Zenon DEF Typed, TypeOK, Flags, States, Row, RowRecord, Handler, Failure, Close

LEMMA InFlags == TRUE \in Flags /\ FALSE \in Flags /\ \A a, b : (a = b) \in Flags /\ (a # b) \in Flags
BY Zenon DEF Flags

-----------------------------------------------------------------------------
(* Types. *)

\* What is done to a row.
LEMMA StatusEdit ==
  ASSUME NEW w \in Row, NEW st \in Statuses
  PROVE  /\ [w EXCEPT !.status = st] \in Row
         /\ [w EXCEPT !.status = st].vm = w.vm
         /\ [w EXCEPT !.status = st].upstreamDeleted = w.upstreamDeleted
         /\ [w EXCEPT !.status = st].status = st
BY DEF Row

Saved(w, v, st) == [w EXCEPT !.vm = v, !.status = st]
LEMMA SaveEdit ==
  ASSUME NEW w \in Row, NEW st \in Statuses, NEW v \in Machines \cup {NoVm}
  PROVE  /\ Saved(w, v, st) \in Row /\ Saved(w, v, st).vm = v
         /\ Saved(w, v, st).status = st /\ Saved(w, v, st).upstreamDeleted = w.upstreamDeleted
BY DEF Row, Saved

LEMMA AddressEdit ==
  ASSUME NEW w \in Row, NEW flag \in Flags
  PROVE  /\ [w EXCEPT !.ip = flag] \in Row
         /\ [w EXCEPT !.ip = flag].vm = w.vm
         /\ [w EXCEPT !.ip = flag].status = w.status
         /\ [w EXCEPT !.ip = flag].upstreamDeleted = w.upstreamDeleted
BY DEF Row

Stamped(w, st, flag) == [w EXCEPT !.status = st, !.upstreamDeleted = flag]
LEMMA StampEdit ==
  ASSUME NEW w \in Row, NEW st \in Statuses, NEW flag \in Flags
  PROVE  /\ Stamped(w, st, flag) \in Row /\ Stamped(w, st, flag).vm = w.vm
         /\ Stamped(w, st, flag).status = st /\ Stamped(w, st, flag).upstreamDeleted = flag
BY DEF Row, Stamped

LEMMA NewRows ==
  ASSUME NEW r \in Rows, NEW n \in 0..MaxRetry
  PROVE  /\ NewRow(r, n) \in Row /\ NewRow(r, n).vm = NoVm
         /\ NewRow(r, n).status = "CREATING" /\ NewRow(r, n).upstreamDeleted = FALSE
BY HostedAssumption, InFlags DEF NewRow, Unborn, Row, Statuses, InProgress, Terminal

LEMMA StepTypes ==
  ASSUME NEW s \in Steps, NEW r \in Rows, NEW n \in 1..MaxPoll+1
  PROVE  Step(s, r, n) \in Message /\ 1 \in 1..MaxPoll+1
BY HostedAssumption DEF Step, Message

LEMMA FaultTypes ==
  ASSUME Typed, Fault \/ UNCHANGED faults
  PROVE  faults' \in 0..MaxFault
BY HostedAssumption DEF Typed, Fault

LEMMA AckTypes ==
  ASSUME Typed, NEW m, NEW new \in SUBSET Message, Ack(m, new)
  PROVE  msgs' \subseteq Message /\ faults' \in 0..MaxFault
<1>1. Fault \/ UNCHANGED faults
  BY DEF Ack
<1> QED
  BY <1>1, FaultTypes DEF Typed, Ack

LEMMA DeleteTypes ==
  ASSUME Typed, NEW v, DeleteMachine(v) \/ TryDelete(v)
  PROVE  /\ machine' \in [Machines -> States]
         /\ \A u \in Machines : u # v => machine'[u] = machine[u]
         /\ \A u \in Machines : machine'[u] \in {machine[u], "gone"}
         /\ DeleteMachine(v) /\ v \in Machines => machine'[v] = "gone"
BY DEF Typed, DeleteMachine, TryDelete, States

LEMMA RentTypes ==
  ASSUME Typed, NEW r \in Rows, NEW v \in Machines, Rent(r, v)
  PROVE  machine' \in [Machines -> States] /\ owner' \in [Machines -> Rows \cup {NoVm}]
BY DEF Typed, Rent, States

LEMMA Edited ==
  ASSUME Typed, NEW r \in Rows, NEW new \in Row, row' = [row EXCEPT ![r] = new]
  PROVE  /\ row' \in [Rows -> Row] /\ row'[r] = new
         /\ \A s \in Rows : s # r => row'[s] = row[s]
BY DEF Typed

-----------------------------------------------------------------------------
(* Rows and their machines, on Spheron. *)

Attached(r) ==
  /\ row[r].status = "none" => row[r].vm = NoVm
  /\ row[r].vm # NoVm => owner[row[r].vm] = r /\ machine[row[r].vm] # "unborn"
  /\ row[r].status = "ACTIVE" => row[r].vm # NoVm
  /\ row[r].upstreamDeleted => row[r].vm # NoVm /\ machine[row[r].vm] = "gone"

\* Handlers whose machine no row names yet.
Launching == {f \in flight : f.kind # "activate"}
FlightOK(f) ==
  IF f.kind = "activate" THEN row[f.row].vm # NoVm
  ELSE Live(f.vm) /\ owner[f.vm] = f.row /\ row[f.row].vm = NoVm /\ row[f.row].status # "none"
Apart == \A f, g \in Launching : f.row = g.row => f = g

FailingOK(f) == f.vm \in {NoVm, row[f.row].vm}
ClosingOK(c) == c.cleaned => row[c.row].vm # NoVm /\ machine[row[c.row].vm] = "gone"

Fleet ==
  /\ \A r \in Rows : Attached(r)
  /\ \A f \in flight : FlightOK(f)
  /\ Apart
  /\ \A f \in failing : FailingOK(f)
  /\ \A c \in closing : ClosingOK(c)
IInv == Typed /\ (provider = "spheron" => Fleet)

\* What most steps do: rows keep their machines, and only a machine that a row
\* names, or that nobody is about to save, goes away.
RowKept(r) ==
  /\ row'[r].vm = row[r].vm
  /\ row'[r].status = "none" => row[r].status = "none"
  /\ row'[r].status = "ACTIVE" => row[r].status = "ACTIVE" \/ row[r].vm # NoVm
  /\ row'[r].upstreamDeleted =>
       row[r].upstreamDeleted \/ (row[r].vm # NoVm /\ machine'[row[r].vm] = "gone")
MachineKept(v) ==
  \/ machine'[v] = machine[v]
  \/ machine[v] = "young" /\ machine'[v] = "old"
  \/ machine'[v] = "gone" /\ ((\E r \in Rows : row[r].vm = v) \/ (\A f \in Launching : f.vm # v))
Deletes(c) == c.cleaned => row[c.row].vm # NoVm /\ machine'[row[c.row].vm] = "gone"
Kept ==
  /\ \A r \in Rows : RowKept(r)
  /\ \A v \in Machines : MachineKept(v)
  /\ owner' = owner
  /\ \A f \in flight' : f \in flight \/ (f.kind = "activate" /\ row[f.row].vm # NoVm)
  /\ \A f \in failing' : f \in failing \/ FailingOK(f)
  /\ \A c \in closing' : c \in closing \/ Deletes(c)

LEMMA MachinesLast ==
  ASSUME Typed, Fleet, Kept, NEW v \in Machines
  PROVE  /\ machine[v] # "unborn" => machine'[v] # "unborn"
         /\ machine[v] = "gone" => machine'[v] = "gone"
BY DEF Kept, MachineKept

LEMMA KeptFleet ==
  ASSUME Typed, Typed', Fleet, Kept
  PROVE  Fleet'
<1>1. ASSUME NEW r \in Rows PROVE Attached(r)'
  <2>1. Attached(r) /\ RowKept(r) /\ owner' = owner
    BY DEF Fleet, Kept
  <2>2. row[r].vm \in Machines \cup {NoVm}
    BY DEF Typed, Row
  <2>3. CASE row[r].vm = NoVm
    BY <2>1, <2>3, Zenon DEF Attached, RowKept
  <2>4. CASE row[r].vm # NoVm
    <3>1. row[r].vm \in Machines
      BY <2>2, <2>4
    <3>2. machine'[row[r].vm] # "unborn" /\ owner'[row[r].vm] = r /\ row'[r].vm = row[r].vm /\ row'[r].status # "none"
      BY <2>1, <2>4, <3>1, MachinesLast, Zenon DEF Attached, RowKept
    <3>3. row'[r].upstreamDeleted => machine'[row[r].vm] = "gone"
      BY <2>1, <3>1, MachinesLast, Zenon DEF Attached, RowKept
    <3> QED
      BY <2>1, <2>4, <3>1, <3>2, <3>3, Zenon DEF Attached
  <2> QED
    BY <2>3, <2>4
<1>2. ASSUME NEW f \in flight', f.kind # "activate" PROVE f \in flight /\ FlightOK(f)'
  <2>1. f \in Launching /\ f \in flight /\ f.row \in Rows /\ f.vm \in Machines
    BY <1>2 DEF Kept, Launching, Typed, Handler
  <2>2. Live(f.vm) /\ owner[f.vm] = f.row /\ row[f.row].vm = NoVm /\ row[f.row].status # "none"
    BY <1>2, <2>1 DEF Fleet, FlightOK
  <2>3. \A r \in Rows : row[r].vm # f.vm
    <3> SUFFICES ASSUME NEW r \in Rows, row[r].vm = f.vm PROVE FALSE
      OBVIOUS
    <3>1. f.vm # NoVm
      BY <2>1, HostedAssumption
    <3>2. owner[f.vm] = r
      BY <3>1 DEF Fleet, Attached
    <3> QED
      BY <2>2, <3>1, <3>2
  <2>4. MachineKept(f.vm) /\ RowKept(f.row) /\ owner' = owner
    BY <2>1 DEF Kept
  <2>5. machine'[f.vm] \in {"young", "old"}
    BY <2>1, <2>2, <2>3, <2>4 DEF MachineKept, Live
  <2> QED
    BY <1>2, <2>1, <2>2, <2>4, <2>5, Zenon DEF FlightOK, Live, RowKept
<1>3. ASSUME NEW f \in flight' PROVE FlightOK(f)'
  <2>1. CASE f.kind = "activate"
    <3>1. row[f.row].vm # NoVm /\ f.row \in Rows
      BY <2>1 DEF Kept, Fleet, FlightOK, Typed, Handler
    <3> QED
      BY <2>1, <3>1 DEF FlightOK, Kept, RowKept
  <2> QED
    BY <1>2, <2>1
<1>4. Apart'
  <2>1. Launching' \subseteq Launching
    BY <1>2, Zenon DEF Launching
  <2> QED
    BY <2>1, Zenon DEF Fleet, Apart
<1>5. ASSUME NEW f \in failing' PROVE FailingOK(f)'
  <2>1. f.row \in Rows
    BY DEF Typed, Failure
  <2> QED
    BY <2>1 DEF Kept, RowKept, Fleet, FailingOK
<1>6. ASSUME NEW c \in closing' PROVE ClosingOK(c)'
  <2>1. c.row \in Rows
    BY DEF Typed, Close
  <2>2. RowKept(c.row) /\ row[c.row].vm \in Machines \cup {NoVm}
    BY <2>1 DEF Kept, Typed, Row
  <2>3. c.cleaned => row[c.row].vm # NoVm /\ machine'[row[c.row].vm] = "gone"
    <3>1. CASE c \in closing
      <4> SUFFICES ASSUME c.cleaned PROVE row[c.row].vm # NoVm /\ machine'[row[c.row].vm] = "gone"
        OBVIOUS
      <4>1. row[c.row].vm # NoVm /\ machine[row[c.row].vm] = "gone"
        BY <3>1, Zenon DEF Fleet, ClosingOK
      <4> QED
        BY <4>1, <2>2, MachinesLast
    <3> QED
      BY <3>1, Zenon DEF Kept, Deletes
  <2> QED
    BY <2>2, <2>3, Zenon DEF ClosingOK, RowKept
<1> QED
  BY <1>1, <1>3, <1>4, <1>5, <1>6, Zenon DEF Fleet

\* A machine is rented under a row's name, for a row that has none.
LEMMA RentFleet ==
  ASSUME Typed, Typed', Fleet, provider = "spheron", NEW r \in Rows, NEW v \in Machines,
         Rent(r, v), NEW f \in Handler, f.row = r, f.vm = v, f.kind # "activate",
         row[r].vm = NoVm, flight' = flight \cup {f},
         \A s \in Rows \ {r} : row'[s] = row[s],
         row'[r].vm = NoVm, row'[r].status \notin {"none", "ACTIVE"}, ~row'[r].upstreamDeleted,
         UNCHANGED <<failing, closing>>
  PROVE  Fleet'
<1>1. /\ machine[v] = "unborn" /\ machine' = [machine EXCEPT ![v] = "young"]
      /\ owner' = [owner EXCEPT ![v] = r] /\ v # NoVm
      /\ \A u \in Machines : owner[u] = r => ~Live(u)
  BY HostedAssumption DEF Rent, NameIsFree
<1>2. /\ machine'[v] = "young" /\ owner'[v] = r
      /\ \A u \in Machines : u # v => machine'[u] = machine[u] /\ owner'[u] = owner[u]
  BY <1>1 DEF Typed
<1>3. ASSUME NEW s \in Rows PROVE row'[s].vm = row[s].vm /\ row[s].vm # v /\ row[s].vm \in Machines \cup {NoVm}
  <2>1. row[s].vm # v
    BY <1>1 DEF Fleet, Attached
  <2>2. row[s].vm \in Machines \cup {NoVm}
    BY DEF Typed, Row
  <2> QED
    BY <2>1, <2>2
<1>4. ASSUME NEW s \in Rows PROVE Attached(s)'
  <2>1. CASE s = r
    BY <2>1, Zenon DEF Attached
  <2>2. CASE s # r
    <3>1. row'[s] = row[s] /\ Attached(s)
      BY <2>2 DEF Fleet
    <3>2. row[s].vm # NoVm => machine'[row[s].vm] = machine[row[s].vm] /\ owner'[row[s].vm] = owner[row[s].vm]
      BY <1>2, <1>3
    <3> QED
      BY <3>1, <3>2, Zenon DEF Attached
  <2> QED
    BY <2>1, <2>2
<1>5. ASSUME NEW g \in flight PROVE FlightOK(g)' /\ (g.kind # "activate" => g.row # r)
  <2>1. g.row \in Rows /\ g.vm \in Machines /\ FlightOK(g)
    BY DEF Typed, Handler, Fleet
  <2>2. CASE g.kind = "activate"
    BY <1>3, <2>1, <2>2 DEF FlightOK
  <2>3. CASE g.kind # "activate"
    <3>1. Live(g.vm) /\ owner[g.vm] = g.row /\ row[g.row].vm = NoVm /\ row[g.row].status # "none"
      BY <2>1, <2>3 DEF FlightOK
    <3>2. g.vm # v /\ g.row # r
      BY <1>1, <2>1, <3>1 DEF Live
    <3>3. machine'[g.vm] = machine[g.vm] /\ owner'[g.vm] = owner[g.vm] /\ row'[g.row] = row[g.row]
      BY <1>2, <2>1, <3>2
    <3> QED
      BY <2>3, <3>1, <3>2, <3>3, Zenon DEF FlightOK, Live
  <2> QED
    BY <2>2, <2>3
<1>6. FlightOK(f)'
  BY <1>2 DEF FlightOK, Live
<1>7. Apart'
  <2>1. \A g \in Launching' : g = f \/ (g \in Launching /\ g.row # r)
    BY <1>5 DEF Launching
  <2> QED
    BY <2>1, Zenon DEF Apart, Fleet
<1>8. ASSUME NEW g \in failing' PROVE FailingOK(g)'
  BY <1>3 DEF FailingOK, Fleet, Typed, Failure
<1>9. ASSUME NEW c \in closing' PROVE ClosingOK(c)'
  <2>1. c.row \in Rows /\ ClosingOK(c)
    BY DEF Typed, Close, Fleet
  <2>2. row[c.row].vm # NoVm => machine'[row[c.row].vm] = machine[row[c.row].vm]
    BY <1>2, <1>3, <2>1
  <2> QED
    BY <1>3, <2>1, <2>2, Zenon DEF ClosingOK
<1> QED
  BY <1>4, <1>5, <1>6, <1>7, <1>8, <1>9 DEF Fleet

\* The handler saves what it rented, or takes it back.
LEMMA SaveFleet ==
  ASSUME Typed, Typed', Fleet, NEW f \in Launching, NEW st \in {"STARTING", "FAILED"},
         row' = [row EXCEPT ![f.row].vm = f.vm, ![f.row].status = st],
         flight' = flight \ {f},
         machine' = machine \/ machine' = [machine EXCEPT ![f.vm] = "gone"],
         UNCHANGED <<owner, failing, closing>>
  PROVE  Fleet'
<1> DEFINE r == f.row
           v == f.vm
<1>1. /\ f \in flight /\ r \in Rows /\ v \in Machines /\ v # NoVm /\ f.kind # "activate"
      /\ Live(v) /\ owner[v] = r /\ row[r].vm = NoVm /\ row[r] \in Row
  BY HostedAssumption DEF Launching, Typed, Handler, Fleet, FlightOK
<1> HIDE DEF r, v
<1>2. /\ row' = [row EXCEPT ![r] = [row[r] EXCEPT !.vm = v, !.status = st]]
      /\ \A u \in Machines : u # v => machine'[u] = machine[u]
      /\ machine'[v] \in {machine[v], "gone"}
  BY <1>1 DEF Typed, r, v
<1>3. st \in Statuses /\ v \in Machines \cup {NoVm}
  BY <1>1 DEF Statuses, InProgress, Terminal
<1>4. /\ row'[r].vm = v /\ row'[r].status = st /\ row'[r].upstreamDeleted = row[r].upstreamDeleted
      /\ \A s \in Rows \ {r} : row'[s] = row[s]
  <2> DEFINE new == Saved(row[r], v, st)
  <2>1. new \in Row /\ new.vm = v /\ new.status = st /\ new.upstreamDeleted = row[r].upstreamDeleted
    BY <1>1, <1>3, SaveEdit
  <2>2. row' = [row EXCEPT ![r] = new]
    BY <1>2 DEF Saved
  <2> HIDE DEF new
  <2> QED
    BY <1>1, <2>1, <2>2, Edited
<1>5. ~row[r].upstreamDeleted
  BY <1>1, Zenon DEF Fleet, Attached
<1>6. \A s \in Rows : row[s].vm # v /\ row[s].vm \in Machines \cup {NoVm}
  <2>1. ASSUME NEW s \in Rows, row[s].vm = v PROVE FALSE
    BY <1>1, <2>1 DEF Fleet, Attached
  <2> QED
    BY <2>1 DEF Typed, Row
<1>7. ASSUME NEW s \in Rows PROVE Attached(s)'
  <2>1. CASE s = r
    <3>1. machine'[v] # "unborn" /\ st # "none" /\ ~row'[r].upstreamDeleted
      BY <1>1, <1>2, <1>4, <1>5 DEF Live
    <3> QED
      BY <1>1, <1>4, <2>1, <3>1, Zenon DEF Attached
  <2>2. CASE s # r
    <3>1. row'[s] = row[s] /\ Attached(s)
      BY <1>4, <2>2 DEF Fleet
    <3>2. row[s].vm # NoVm => machine'[row[s].vm] = machine[row[s].vm]
      BY <1>2, <1>6
    <3> QED
      BY <3>1, <3>2, Zenon DEF Attached
  <2> QED
    BY <2>1, <2>2
<1>8. ASSUME NEW g \in flight' PROVE FlightOK(g)'
  <2>1. g \in flight /\ g # f /\ g.row \in Rows /\ g.vm \in Machines /\ FlightOK(g)
    BY DEF Typed, Handler, Fleet
  <2>2. CASE g.kind = "activate"
    BY <1>1, <1>4, <2>1, <2>2 DEF FlightOK
  <2>3. CASE g.kind # "activate"
    <3>1. Live(g.vm) /\ owner[g.vm] = g.row /\ row[g.row].vm = NoVm /\ row[g.row].status # "none"
      BY <2>1, <2>3 DEF FlightOK
    <3>2. g.row # r
      BY <2>1, <2>3 DEF Fleet, Apart, Launching, r
    <3>3. g.vm # v
      BY <1>1, <3>1, <3>2
    <3>4. machine'[g.vm] = machine[g.vm] /\ row'[g.row] = row[g.row]
      BY <1>2, <1>4, <2>1, <3>2, <3>3
    <3> QED
      BY <2>3, <3>1, <3>4, Zenon DEF FlightOK, Live
  <2> QED
    BY <2>2, <2>3
<1>9. Apart'
  BY Zenon DEF Apart, Launching, Fleet
<1>10. ASSUME NEW g \in failing' PROVE FailingOK(g)'
  <2>1. g.row \in Rows /\ FailingOK(g)
    BY DEF Typed, Failure, Fleet
  <2> QED
    BY <1>1, <1>4, <2>1 DEF FailingOK
<1>11. ASSUME NEW c \in closing' PROVE ClosingOK(c)'
  <2>1. c.row \in Rows /\ ClosingOK(c)
    BY DEF Typed, Close, Fleet
  <2>2. CASE c.row = r
    BY <1>1, <2>1, <2>2, Zenon DEF ClosingOK
  <2>3. CASE c.row # r
    <3>1. row'[c.row] = row[c.row]
      BY <1>4, <2>1, <2>3
    <3>2. row[c.row].vm # NoVm => machine'[row[c.row].vm] = machine[row[c.row].vm]
      BY <1>2, <1>6, <2>1
    <3> QED
      BY <2>1, <3>1, <3>2, Zenon DEF ClosingOK
  <2> QED
    BY <2>2, <2>3
<1> QED
  BY <1>7, <1>8, <1>9, <1>10, <1>11 DEF Fleet

-----------------------------------------------------------------------------
(* Action by action. *)

\* On Spheron, what is rented and not saved waits for a row without a machine.
LEMMA LaunchingRows ==
  ASSUME Typed, Fleet, NEW f \in Launching
  PROVE  row[f.row].vm = NoVm /\ f.row \in Rows /\ f.vm \in Machines
BY DEF Fleet, FlightOK, Launching, Typed, Handler

\* A row whose status is written, machines that are its own or unharmed.
LEMMA EditKept ==
  ASSUME Typed, NEW r \in Rows, NEW new \in Row, row' = [row EXCEPT ![r] = new],
         new.vm = row[r].vm, new.status # "none",
         new.status = "ACTIVE" => row[r].status = "ACTIVE" \/ row[r].vm # NoVm,
         new.upstreamDeleted =>
           row[r].upstreamDeleted \/ (row[r].vm # NoVm /\ machine'[row[r].vm] = "gone")
  PROVE  \A s \in Rows : RowKept(s)
<1>1. row'[r] = new /\ \A s \in Rows : s # r => row'[s] = row[s]
  BY Edited
<1>2. RowKept(r)
  BY <1>1, Zenon DEF RowKept
<1>3. ASSUME NEW s \in Rows, s # r PROVE RowKept(s)
  <2>1. row'[s] = row[s]
    BY <1>1, <1>3
  <2> QED
    BY <2>1, Zenon DEF RowKept
<1> QED
  BY <1>2, <1>3

LEMMA SameRowsKept == ASSUME UNCHANGED row PROVE \A s \in Rows : RowKept(s)
BY Zenon DEF RowKept
LEMMA SameMachinesKept == ASSUME UNCHANGED machine PROVE \A v \in Machines : MachineKept(v)
BY DEF MachineKept
LEMMA SameFlight ==
  /\ flight' \subseteq flight => \A f \in flight' : f \in flight \/ (f.kind = "activate" /\ row[f.row].vm # NoVm)
  /\ failing' \subseteq failing => \A f \in failing' : f \in failing \/ FailingOK(f)
  /\ closing' \subseteq closing => \A c \in closing' : c \in closing \/ Deletes(c)
BY Zenon

\* A DELETE of a row's machine.
LEMMA DeleteKept ==
  ASSUME Typed, NEW r \in Rows, NEW v, v \in {NoVm, row[r].vm}, TryDelete(v) \/ DeleteMachine(v)
  PROVE  /\ machine' \in [Machines -> States]
         /\ \A u \in Machines : MachineKept(u)
<1>1. /\ machine' \in [Machines -> States]
      /\ \A u \in Machines : u # v => machine'[u] = machine[u]
      /\ \A u \in Machines : machine'[u] \in {machine[u], "gone"}
  BY DeleteTypes
<1>2. ASSUME NEW u \in Machines PROVE MachineKept(u)
  <2>1. CASE u # v
    BY <1>1, <2>1 DEF MachineKept
  <2>2. CASE u = v
    <3>1. row[r].vm = u
      BY <2>2, HostedAssumption
    <3> QED
      BY <1>1, <3>1 DEF MachineKept
  <2> QED
    BY <2>1, <2>2
<1> QED
  BY <1>1, <1>2

\* A row's status, or its stamp too, is written.
LEMMA StatusKept ==
  ASSUME Typed, NEW r \in Rows, NEW st \in Statuses, row' = [row EXCEPT ![r].status = st]
  PROVE  /\ row' \in [Rows -> Row]
         /\ (st = "ACTIVE" => row[r].vm # NoVm) => \A s \in Rows : RowKept(s)
<1> DEFINE new == [row[r] EXCEPT !.status = st]
<1>1. /\ new \in Row /\ new.vm = row[r].vm /\ new.status = st
      /\ new.upstreamDeleted = row[r].upstreamDeleted
  <2>1. row[r] \in Row
    BY DEF Typed
  <2> QED
    BY <2>1, StatusEdit, Zenon
<1>2. row' = [row EXCEPT ![r] = new] /\ st # "none"
  BY DEF Statuses, InProgress, Terminal
<1> HIDE DEF new
<1>3. (st = "ACTIVE" => row[r].vm # NoVm) => \A s \in Rows : RowKept(s)
  BY <1>1, <1>2, EditKept, Zenon
<1> QED
  BY <1>1, <1>2, <1>3, Edited

LEMMA StampKept ==
  ASSUME Typed, NEW r \in Rows, NEW st \in Statuses, NEW flag \in Flags, st # "ACTIVE",
         row' = [row EXCEPT ![r] = Stamped(row[r], st, flag)]
  PROVE  /\ row' \in [Rows -> Row]
         /\ (flag => row[r].upstreamDeleted \/ (row[r].vm # NoVm /\ machine'[row[r].vm] = "gone"))
              => \A s \in Rows : RowKept(s)
<1> DEFINE new == Stamped(row[r], st, flag)
<1>1. new \in Row /\ new.vm = row[r].vm /\ new.status = st /\ new.upstreamDeleted = flag
  <2>1. row[r] \in Row
    BY DEF Typed
  <2> QED
    BY <2>1, StampEdit
<1>2. row' = [row EXCEPT ![r] = new] /\ st # "none"
  BY DEF Statuses, InProgress, Terminal
<1> HIDE DEF new
<1>3. (flag => row[r].upstreamDeleted \/ (row[r].vm # NoVm /\ machine'[row[r].vm] = "gone"))
        => \A s \in Rows : RowKept(s)
  BY <1>1, <1>2, EditKept, Zenon
<1> QED
  BY <1>1, <1>2, <1>3, Edited

\* A row is created.
LEMMA NewRowKept ==
  ASSUME Typed, NEW r \in Rows, NEW n \in 0..MaxRetry, row[r].status = "none",
         \/ row' = [row EXCEPT ![r] = NewRow(r, n)]
         \/ row' = [row EXCEPT ![r] = [NewRow(r, n) EXCEPT !.status = "FAILED"]]
  PROVE  /\ row' \in [Rows -> Row] /\ (Attached(r) => \A s \in Rows : RowKept(s))
         /\ row'[r].vm = NoVm /\ row'[r].status \notin {"none", "ACTIVE"} /\ ~row'[r].upstreamDeleted
         /\ \A s \in Rows \ {r} : row'[s] = row[s]
<1>1. PICK new \in Row : /\ new.vm = NoVm /\ new.status \in {"CREATING", "FAILED"} /\ ~new.upstreamDeleted
                         /\ row' = [row EXCEPT ![r] = new]
  <2>1. /\ NewRow(r, n) \in Row /\ NewRow(r, n).vm = NoVm
        /\ NewRow(r, n).status = "CREATING" /\ ~NewRow(r, n).upstreamDeleted
    BY NewRows
  <2>2. /\ [NewRow(r, n) EXCEPT !.status = "FAILED"] \in Row
        /\ [NewRow(r, n) EXCEPT !.status = "FAILED"].vm = NoVm
        /\ [NewRow(r, n) EXCEPT !.status = "FAILED"].status = "FAILED"
        /\ [NewRow(r, n) EXCEPT !.status = "FAILED"].upstreamDeleted = NewRow(r, n).upstreamDeleted
    <3>1. "FAILED" \in Statuses
      BY DEF Statuses, Terminal
    <3> QED
      BY <2>1, <3>1, StatusEdit, Zenon
  <2>3. "CREATING" \in {"CREATING", "FAILED"} /\ "FAILED" \in {"CREATING", "FAILED"}
    OBVIOUS
  <2> QED
    BY <2>1, <2>2, <2>3, Zenon
<1>2. row' \in [Rows -> Row] /\ row'[r] = new /\ \A s \in Rows : s # r => row'[s] = row[s]
  BY <1>1, Edited
<1>3. ASSUME Attached(r) PROVE \A s \in Rows : RowKept(s)
  <2>1. new.vm = row[r].vm /\ new.status # "none" /\ new.status # "ACTIVE"
    BY <1>1, <1>3 DEF Attached
  <2> QED
    BY <1>1, <2>1, EditKept, Zenon
<1> QED
  BY <1>1, <1>2, <1>3

LEMMA GiveUpKept ==
  ASSUME Typed, NEW m \in Message, GiveUp(m)
  PROVE  /\ row' \in [Rows -> Row] /\ machine' \in [Machines -> States]
         /\ msgs' \subseteq Message /\ faults' \in 0..MaxFault
         /\ \A s \in Rows : RowKept(s)
         /\ \A v \in Machines : MachineKept(v)
<1>1. Step("HANDLE_FAILURE", m.row, 1) \in Message /\ m.row \in Rows
  BY StepTypes, HostedAssumption DEF Message, Steps
<1>2. msgs' \subseteq Message /\ faults' \in 0..MaxFault
  BY <1>1, AckTypes DEF GiveUp
<1>3. CASE UNCHANGED <<row, machine>>
  BY <1>2, <1>3, SameRowsKept, SameMachinesKept DEF Typed
<1>4. CASE FailDirectly(m.row)
  <2>1. row' = [row EXCEPT ![m.row].status = "FAILED"] /\ TryDelete(row[m.row].vm) /\ "FAILED" \in Statuses
    BY <1>4 DEF FailDirectly, Statuses, Terminal
  <2>2. row' \in [Rows -> Row] /\ \A s \in Rows : RowKept(s)
    BY <1>1, <2>1, StatusKept
  <2>3. machine' \in [Machines -> States] /\ \A v \in Machines : MachineKept(v)
    BY <1>1, <2>1, DeleteKept
  <2> QED
    BY <1>2, <2>2, <2>3
<1> QED
  BY <1>3, <1>4 DEF GiveUp

LEMMA PollAgainKept ==
  ASSUME Typed, NEW m \in Message, PollAgain(m)
  PROVE  /\ row' \in [Rows -> Row] /\ machine' \in [Machines -> States]
         /\ msgs' \subseteq Message /\ faults' \in 0..MaxFault
         /\ \A s \in Rows : RowKept(s)
         /\ \A v \in Machines : MachineKept(v)
<1>1. CASE m.attempt < MaxPoll
  <2>1. Step(m.step, m.row, m.attempt + 1) \in Message
    BY <1>1, HostedAssumption DEF Message, Step
  <2>2. msgs' \subseteq Message /\ faults' \in 0..MaxFault /\ UNCHANGED <<row, machine>>
    BY <1>1, <2>1, AckTypes DEF PollAgain
  <2> QED
    BY <2>2, SameRowsKept, SameMachinesKept DEF Typed
<1> QED
  BY <1>1, GiveUpKept DEF PollAgain

\* A step keeps the invariant if it is of the usual kind on Spheron.
LEMMA Moves ==
  ASSUME IInv, Typed', provider' = provider, provider = "spheron" /\ Fleet => Kept
  PROVE  IInv'
BY KeptFleet, Zenon DEF IInv

LEMMA DeployIInv == ASSUME IInv, NEW r \in Rows, Deploy(r) PROVE IInv'
<1>1. Typed /\ row[r].status = "none" /\ UNCHANGED <<provider, failing, closing, faults>> /\ 0 \in 0..MaxRetry
  BY HostedAssumption DEF IInv, Deploy
<1>2. \/ row' = [row EXCEPT ![r] = NewRow(r, 0)]
      \/ row' = [row EXCEPT ![r] = [NewRow(r, 0) EXCEPT !.status = "FAILED"]]
  BY DEF Deploy
<1>3. /\ row' \in [Rows -> Row] /\ (Attached(r) => \A s \in Rows : RowKept(s))
      /\ row'[r].vm = NoVm /\ row'[r].status \notin {"none", "ACTIVE"} /\ ~row'[r].upstreamDeleted
      /\ \A s \in Rows \ {r} : row'[s] = row[s]
  BY <1>1, <1>2, NewRowKept
<1>4. CASE UNCHANGED <<machine, owner, flight>>
  <2>1. msgs' \subseteq Message
    <3>1. Step("DEPLOY", r, 1) \in Message
      BY StepTypes, HostedAssumption DEF Steps
    <3> QED
      BY <1>1, <3>1 DEF Deploy, Typed
  <2>2. Typed'
    BY <1>1, <1>3, <1>4, <2>1 DEF Typed
  <2>3. ASSUME Fleet PROVE Kept
    <3>1. \A s \in Rows : RowKept(s)
      BY <1>3, <2>3 DEF Fleet
    <3> QED
      BY <1>1, <1>4, <3>1, SameMachinesKept, SameFlight DEF Kept
  <2> QED
    BY <1>1, <2>2, <2>3, Moves
<1>5. ASSUME provider = "spheron", UNCHANGED msgs, NEW v \in Machines, Rent(r, v),
             flight' = flight \cup {[row |-> r, kind |-> "launch", vm |-> v]}
      PROVE  IInv'
  <2> DEFINE f == [row |-> r, kind |-> "launch", vm |-> v]
  <2>1. f \in Handler /\ f.row = r /\ f.vm = v /\ f.kind # "activate" /\ flight' = flight \cup {f}
    BY <1>5 DEF Handler
  <2> HIDE DEF f
  <2>2. Typed'
    BY <1>1, <1>3, <1>5, <2>1, RentTypes DEF Typed
  <2>3. Fleet /\ row[r].vm = NoVm
    BY <1>1, <1>5 DEF IInv, Fleet, Attached
  <2>4. Fleet'
    BY <1>1, <1>3, <1>5, <2>1, <2>2, <2>3, RentFleet
  <2> QED
    BY <2>2, <2>4 DEF IInv
<1> QED
  BY <1>4, <1>5 DEF Deploy

LEMMA SaveRow ==
  ASSUME Typed, NEW r \in Rows, NEW v \in Machines \cup {NoVm}, NEW st \in Statuses,
         row' = [row EXCEPT ![r].vm = v, ![r].status = st]
  PROVE  row' \in [Rows -> Row]
<1>1. row' = [row EXCEPT ![r] = Saved(row[r], v, st)] /\ row[r] \in Row
  BY DEF Typed, Saved
<1>2. Saved(row[r], v, st) \in Row
  BY <1>1, SaveEdit
<1> QED
  BY <1>1, <1>2, Edited

LEMMA SaveLaunchedIInv == ASSUME IInv, NEW f \in flight, SaveLaunched(f) PROVE IInv'
<1>1. /\ Typed /\ f \in Launching /\ f.row \in Rows /\ f.vm \in Machines \cup {NoVm} /\ f.kind = "launch"
      /\ flight' = flight \ {f} /\ UNCHANGED <<provider, owner, machine, failing, closing, faults>>
  BY DEF IInv, Typed, Handler, Launching, SaveLaunched
<1>2. CASE UNCHANGED <<row, msgs>>
  <2>1. Typed' /\ flight' \subseteq flight
    BY <1>1, <1>2 DEF Typed
  <2>2. Kept
    BY <1>1, <1>2, <2>1, SameRowsKept, SameMachinesKept, SameFlight DEF Kept
  <2> QED
    BY <1>1, <2>1, <2>2, Moves
<1>3. ASSUME row' = [row EXCEPT ![f.row].vm = f.vm, ![f.row].status = "STARTING"],
             msgs' \in {msgs, msgs \cup {Step("POLL_STATUS", f.row, 1)}}
      PROVE  IInv'
  <2>1. Step("POLL_STATUS", f.row, 1) \in Message
    BY <1>1, StepTypes, HostedAssumption DEF Steps
  <2>2. row' \in [Rows -> Row]
    BY <1>1, <1>3, SaveRow DEF Statuses, InProgress
  <2>3. Typed'
    BY <1>1, <1>3, <2>1, <2>2 DEF Typed
  <2>4. provider = "spheron" => Fleet'
    BY <1>1, <1>3, <2>3, SaveFleet DEF IInv
  <2> QED
    BY <1>1, <2>3, <2>4 DEF IInv
<1> QED
  BY <1>2, <1>3 DEF SaveLaunched

LEMMA SaveDeployedIInv == ASSUME IInv, NEW f \in flight, SaveDeployed(f) PROVE IInv'
<1>1. /\ Typed /\ f \in Launching /\ f.row \in Rows /\ f.vm \in Machines
      /\ flight' = flight \ {f} /\ UNCHANGED <<provider, owner, failing, closing, faults>>
  BY DEF IInv, Typed, Handler, Launching, SaveDeployed
<1>2. Step("POLL_STATUS", f.row, 1) \in Message /\ Step("HANDLE_FAILURE", f.row, 1) \in Message
  BY <1>1, StepTypes, HostedAssumption DEF Steps
<1>3. CASE UNCHANGED <<row, machine>> /\ msgs' = msgs \cup {Step("HANDLE_FAILURE", f.row, 1)}
  <2>1. Typed' /\ flight' \subseteq flight
    BY <1>1, <1>2, <1>3 DEF Typed
  <2>2. Kept
    BY <1>1, <1>3, <2>1, SameRowsKept, SameMachinesKept, SameFlight DEF Kept
  <2> QED
    BY <1>1, <2>1, <2>2, Moves
<1>4. ASSUME NEW saved \in Machines \cup {NoVm}, NEW st \in {"STARTING", "FAILED"}, msgs' \subseteq Message,
             saved \in {f.vm, row[f.row].vm},
             row' = [row EXCEPT ![f.row].vm = saved, ![f.row].status = st],
             UNCHANGED machine \/ TryDelete(saved)
      PROVE  IInv'
  <2>1. row' \in [Rows -> Row]
    BY <1>1, <1>4, SaveRow DEF Statuses, InProgress, Terminal
  <2>2. machine' \in [Machines -> States]
    BY <1>1, <1>4, DeleteTypes DEF Typed
  <2>3. Typed'
    BY <1>1, <1>4, <2>1, <2>2 DEF Typed
  <2>4. ASSUME provider = "spheron", saved = f.vm PROVE Fleet'
    <3>1. machine' = machine \/ machine' = [machine EXCEPT ![f.vm] = "gone"]
      BY <1>1, <1>4, <2>4, HostedAssumption DEF TryDelete, DeleteMachine
    <3> QED
      BY <1>1, <1>4, <2>3, <2>4, <3>1, SaveFleet DEF IInv
  <2>5. ASSUME provider = "spheron", saved # f.vm PROVE Fleet'
    <3>1. Fleet /\ saved = NoVm /\ row[f.row].vm = NoVm
      BY <1>1, <1>4, <2>5, LaunchingRows DEF IInv
    <3>2. UNCHANGED machine
      BY <1>4, <3>1, HostedAssumption DEF TryDelete
    <3>3. /\ row' = [row EXCEPT ![f.row] = Saved(row[f.row], saved, st)] /\ st \in Statuses
          /\ row[f.row] \in Row
      BY <1>1, <1>4 DEF Typed, Saved, Statuses, InProgress, Terminal
    <3>4. \A s \in Rows : RowKept(s)
      <4>1. /\ Saved(row[f.row], saved, st) \in Row /\ Saved(row[f.row], saved, st).vm = saved
            /\ Saved(row[f.row], saved, st).status = st
            /\ Saved(row[f.row], saved, st).upstreamDeleted = row[f.row].upstreamDeleted
        BY <3>3, SaveEdit
      <4>2. st # "none" /\ st # "ACTIVE"
        OBVIOUS
      <4> QED
        BY <1>1, <3>1, <3>3, <4>1, <4>2, EditKept, Zenon
    <3>5. Kept
      BY <1>1, <3>2, <3>4, SameMachinesKept, SameFlight DEF Kept
    <3> QED
      BY <1>1, <2>3, <3>1, <3>5, KeptFleet
  <2> QED
    BY <1>1, <2>3, <2>4, <2>5 DEF IInv
<1>5. row[f.row].vm \in Machines \cup {NoVm} /\ msgs \subseteq Message
  BY <1>1 DEF Typed, Row
<1>6. CASE /\ row' = [row EXCEPT ![f.row].vm = f.vm, ![f.row].status = "STARTING"]
           /\ \/ msgs' = msgs \cup {Step("POLL_STATUS", f.row, 1)}
              \/ msgs' = msgs \cup {Step("HANDLE_FAILURE", f.row, 1)}
           /\ UNCHANGED machine
  <2>1. msgs' \subseteq Message
    BY <1>2, <1>5, <1>6
  <2> QED
    BY <1>1, <1>4, <1>6, <2>1
<1>7. ASSUME NEW saved \in {f.vm, row[f.row].vm}, UNCHANGED msgs, TryDelete(saved),
             row' = [row EXCEPT ![f.row].vm = saved, ![f.row].status = "FAILED"]
      PROVE  IInv'
  <2>1. saved \in Machines \cup {NoVm} /\ msgs' \subseteq Message
    BY <1>1, <1>5, <1>7
  <2> QED
    BY <1>4, <1>7, <2>1
<1> QED
  BY <1>3, <1>6, <1>7 DEF SaveDeployed

LEMMA HandleDeployIInv == ASSUME IInv, NEW m \in msgs, HandleDeploy(m) PROVE IInv'
<1>1. Typed /\ m \in Message /\ m.row \in Rows /\ UNCHANGED <<provider, failing, closing>>
  BY DEF IInv, Typed, Message, HandleDeploy
<1>2. CASE UNCHANGED <<row, machine, owner, flight>> /\ (Ack(m, {}) \/ Ack(m, {Step("POLL_STATUS", m.row, 1)}))
  <2>1. Step("POLL_STATUS", m.row, 1) \in Message
    BY <1>1, StepTypes, HostedAssumption DEF Steps
  <2>2. msgs' \subseteq Message /\ faults' \in 0..MaxFault
    BY <1>1, <1>2, <2>1, AckTypes
  <2>3. Typed'
    BY <1>1, <1>2, <2>2 DEF Typed
  <2>4. Kept
    BY <1>1, <1>2, SameRowsKept, SameMachinesKept, SameFlight DEF Kept
  <2> QED
    BY <1>1, <2>3, <2>4, Moves
<1>3. CASE GiveUp(m) /\ UNCHANGED <<owner, flight>>
  <2>1. /\ row' \in [Rows -> Row] /\ machine' \in [Machines -> States]
        /\ msgs' \subseteq Message /\ faults' \in 0..MaxFault
        /\ \A s \in Rows : RowKept(s)
        /\ \A v \in Machines : MachineKept(v)
    BY <1>1, <1>3, GiveUpKept
  <2>2. Typed'
    BY <1>1, <1>3, <2>1 DEF Typed
  <2>3. Kept
    BY <1>1, <1>3, <2>1, SameFlight DEF Kept
  <2> QED
    BY <1>1, <2>2, <2>3, Moves
<1>4. ASSUME NEW v \in Machines, Rent(m.row, v), Ack(m, {}), UNCHANGED row,
             flight' = flight \cup {[row |-> m.row, kind |-> "deploy", vm |-> v]},
             row[m.row].status \in InProgress, provider = "phala" \/ row[m.row].vm = NoVm
      PROVE  IInv'
  <2> DEFINE f == [row |-> m.row, kind |-> "deploy", vm |-> v]
  <2>1. f \in Handler /\ f.row = m.row /\ f.vm = v /\ f.kind # "activate" /\ flight' = flight \cup {f}
    BY <1>1, <1>4 DEF Handler
  <2> HIDE DEF f
  <2>2. msgs' \subseteq Message /\ faults' \in 0..MaxFault
    BY <1>1, <1>4, AckTypes
  <2>3. Typed'
    BY <1>1, <1>4, <2>1, <2>2, RentTypes DEF Typed
  <2>4. ASSUME provider = "spheron" PROVE Fleet'
    <3>1. Fleet /\ row[m.row].vm = NoVm /\ row[m.row].status \notin {"none", "ACTIVE"}
      BY <1>4, <2>4 DEF IInv, InProgress
    <3>2. ~row[m.row].upstreamDeleted
      BY <1>1, <3>1, Zenon DEF Fleet, Attached
    <3> QED
      BY <1>1, <1>4, <2>1, <2>3, <2>4, <3>1, <3>2, RentFleet
  <2> QED
    BY <1>1, <2>3, <2>4 DEF IInv
<1> QED
  BY <1>2, <1>3, <1>4 DEF HandleDeploy, RequestMachine

\* A handler that only answers for its message, tries again, or gives up.
LEMMA RestIInv ==
  ASSUME IInv, NEW m \in Message, UNCHANGED <<provider, owner, flight, failing, closing>>,
         \/ Ack(m, {}) /\ UNCHANGED <<row, machine>>
         \/ GiveUp(m) \/ PollAgain(m)
  PROVE  IInv'
<1>1. Typed
  BY DEF IInv
<1>2. /\ row' \in [Rows -> Row] /\ machine' \in [Machines -> States]
      /\ msgs' \subseteq Message /\ faults' \in 0..MaxFault
      /\ \A s \in Rows : RowKept(s)
      /\ \A v \in Machines : MachineKept(v)
  <2>1. CASE Ack(m, {}) /\ UNCHANGED <<row, machine>>
    <3>1. msgs' \subseteq Message /\ faults' \in 0..MaxFault
      BY <1>1, <2>1, AckTypes
    <3> QED
      BY <1>1, <2>1, <3>1, SameRowsKept, SameMachinesKept DEF Typed
  <2> QED
    BY <1>1, <2>1, GiveUpKept, PollAgainKept
<1>3. Typed'
  BY <1>1, <1>2 DEF Typed
<1>4. Kept
  BY <1>2, SameFlight DEF Kept
<1> QED
  BY <1>3, <1>4, Moves

\* A handler found the row's machine running, and is going to say so.
LEMMA FoundIInv ==
  ASSUME IInv, NEW m \in Message, row[m.row].vm \in Machines, Ack(m, {}),
         flight' = flight \cup {[row |-> m.row, kind |-> "activate", vm |-> row[m.row].vm]},
         UNCHANGED <<provider, owner, row, machine, failing, closing>>
  PROVE  IInv'
<1> DEFINE f == [row |-> m.row, kind |-> "activate", vm |-> row[m.row].vm]
<1>1. /\ Typed /\ f \in Handler /\ f.kind = "activate" /\ row[f.row].vm # NoVm
      /\ flight' = flight \cup {f}
  BY HostedAssumption DEF IInv, Handler, Message
<1> HIDE DEF f
<1>2. msgs' \subseteq Message /\ faults' \in 0..MaxFault
  BY <1>1, AckTypes
<1>3. Typed'
  BY <1>1, <1>2 DEF Typed
<1>4. Kept
  BY <1>1, SameRowsKept, SameMachinesKept, SameFlight DEF Kept
<1> QED
  BY <1>3, <1>4, Moves

LEMMA HandlePollIInv == ASSUME IInv, NEW m \in msgs, HandlePoll(m) PROVE IInv'
<1>1. Typed /\ m \in Message /\ m.row \in Rows /\ UNCHANGED <<provider, owner, failing, closing>>
  BY DEF IInv, Typed, Message, HandlePoll
<1>2. CASE UNCHANGED flight /\ ((Ack(m, {}) /\ UNCHANGED <<row, machine>>) \/ GiveUp(m) \/ PollAgain(m))
  BY <1>1, <1>2, RestIInv
<1>3. CASE row[m.row].vm \in Machines /\ PhalaRunning(m)
  BY <1>1, <1>3, FoundIInv DEF PhalaRunning
<1>4. CASE row[m.row].status \in InProgress /\ SpheronRunning(m)
  <2> DEFINE new == [row[m.row] EXCEPT !.ip = TRUE]
  <2>1. Step("RUN_CLOUDINIT_PROBE", m.row, 1) \in Message /\ row[m.row] \in Row
    BY <1>1, StepTypes, HostedAssumption DEF Steps, Typed
  <2>2. msgs' \subseteq Message /\ faults' \in 0..MaxFault /\ UNCHANGED <<machine, flight>>
    BY <1>1, <1>4, <2>1, AckTypes DEF SpheronRunning
  <2>3. /\ new \in Row /\ new.vm = row[m.row].vm /\ new.status = row[m.row].status
        /\ new.upstreamDeleted = row[m.row].upstreamDeleted
    BY <2>1, AddressEdit, InFlags, Zenon
  <2>4. row' = [row EXCEPT ![m.row] = new]
    BY <1>4 DEF SpheronRunning
  <2> HIDE DEF new
  <2>5. row' \in [Rows -> Row]
    BY <1>1, <2>3, <2>4, Edited
  <2>6. \A s \in Rows : RowKept(s)
    <3>1. new.status # "none" /\ new.status # "ACTIVE"
      BY <1>4, <2>3 DEF InProgress
    <3> QED
      BY <1>1, <2>3, <2>4, <3>1, EditKept, Zenon
  <2>7. Typed'
    BY <1>1, <2>2, <2>5 DEF Typed
  <2>8. Kept
    BY <1>1, <2>2, <2>6, SameMachinesKept, SameFlight DEF Kept
  <2> QED
    BY <1>1, <2>7, <2>8, Moves
<1> QED
  BY <1>2, <1>3, <1>4 DEF HandlePoll

LEMMA HandleProbeIInv == ASSUME IInv, NEW m \in msgs, HandleProbe(m) PROVE IInv'
<1>1. Typed /\ m \in Message /\ m.row \in Rows /\ UNCHANGED <<provider, owner, failing, closing>>
  BY DEF IInv, Typed, Message, HandleProbe
<1>2. CASE UNCHANGED flight /\ ((Ack(m, {}) /\ UNCHANGED <<row, machine>>) \/ GiveUp(m) \/ PollAgain(m))
  BY <1>1, <1>2, RestIInv
<1>3. CASE /\ row[m.row].vm \in Machines /\ Ack(m, {}) /\ UNCHANGED <<row, machine>>
           /\ flight' = flight \cup {[row |-> m.row, kind |-> "activate", vm |-> row[m.row].vm]}
  BY <1>1, <1>3, FoundIInv
<1> QED
  BY <1>2, <1>3, Zenon DEF HandleProbe

LEMMA ActivateIInv == ASSUME IInv, NEW f \in flight, Activate(f) PROVE IInv'
<1>1. /\ Typed /\ f \in Handler /\ f.row \in Rows /\ f.kind = "activate" /\ flight' \subseteq flight
      /\ row' = [row EXCEPT ![f.row].status = "ACTIVE"] /\ "ACTIVE" \in Statuses
      /\ UNCHANGED <<provider, owner, machine, msgs, failing, closing, faults>>
  BY DEF IInv, Typed, Handler, Activate, Statuses, Terminal
<1>2. Typed'
  BY <1>1, StatusKept DEF Typed
<1>3. ASSUME Fleet PROVE Kept
  <2>1. row[f.row].vm # NoVm
    BY <1>1, <1>3 DEF Fleet, FlightOK
  <2>2. \A s \in Rows : RowKept(s)
    BY <1>1, <2>1, StatusKept
  <2> QED
    BY <1>1, <2>2, SameMachinesKept, SameFlight DEF Kept
<1> QED
  BY <1>1, <1>2, <1>3, Moves

LEMMA HandleFailureIInv == ASSUME IInv, NEW m \in msgs, HandleFailure(m) PROVE IInv'
<1>1. /\ Typed /\ m \in Message /\ m.row \in Rows /\ Ack(m, {})
      /\ UNCHANGED <<provider, owner, machine, flight, closing>>
  BY DEF IInv, Typed, Message, HandleFailure
<1>2. msgs' \subseteq Message /\ faults' \in 0..MaxFault
  BY <1>1, AckTypes
<1>3. CASE UNCHANGED <<row, failing>>
  BY <1>1, <1>3, RestIInv
<1>4. ASSUME NEW retryable \in BOOLEAN,
             failing' = failing \cup
               {[row |-> m.row, vm |-> row[m.row].vm, retryable |-> retryable, wrote |-> FALSE]}
      PROVE  IInv'
  <2>1. retryable \in Flags /\ FALSE \in Flags
    BY Zenon DEF Flags
  <2>2. [row |-> m.row, vm |-> row[m.row].vm, retryable |-> retryable, wrote |-> FALSE] \in Failure
    BY <1>1, <2>1 DEF Failure, Typed, Row
  <2>3. UNCHANGED row
    BY DEF HandleFailure
  <2>4. Typed'
    BY <1>1, <1>2, <1>4, <2>2, <2>3 DEF Typed
  <2>5. \A f \in failing' : f \in failing \/ FailingOK(f)
    BY <1>4 DEF FailingOK
  <2>6. Kept
    BY <1>1, <2>3, <2>5, SameRowsKept, SameMachinesKept, SameFlight DEF Kept
  <2> QED
    BY <1>1, <2>4, <2>6, Moves
<1> QED
  BY <1>3, <1>4 DEF HandleFailure

LEMMA WriteFailedIInv == ASSUME IInv, NEW f \in failing, WriteFailed(f) PROVE IInv'
<1> DEFINE g == [f EXCEPT !.wrote = TRUE]
<1>1. /\ Typed /\ f \in Failure /\ failing' = (failing \ {f}) \cup {g}
      /\ row' = [row EXCEPT ![f.row].status = "FAILED"]
      /\ UNCHANGED <<provider, owner, machine, msgs, flight, closing, faults>>
  BY DEF IInv, Typed, WriteFailed
<1>2. TRUE \in Flags /\ "FAILED" \in Statuses
  BY InFlags DEF Statuses, Terminal
<1>3. g \in Failure /\ g.row = f.row /\ g.vm = f.vm /\ f.row \in Rows
  BY <1>1, <1>2 DEF Failure
<1> HIDE DEF g
<1>4. row' \in [Rows -> Row] /\ \A s \in Rows : RowKept(s)
  BY <1>1, <1>2, <1>3, StatusKept
<1>5. Typed'
  BY <1>1, <1>3, <1>4 DEF Typed
<1>6. Fleet => Kept
  <2>1. Fleet => \A h \in failing' : h \in failing \/ FailingOK(h)
    BY <1>1, <1>3 DEF Fleet, FailingOK
  <2> QED
    BY <1>1, <1>4, <2>1, SameMachinesKept, SameFlight DEF Kept
<1> QED
  BY <1>1, <1>5, <1>6, Moves

LEMMA FinishFailureIInv == ASSUME IInv, NEW f \in failing, FinishFailure(f) PROVE IInv'
<1>1. /\ Typed /\ f.row \in Rows /\ failing' \subseteq failing
      /\ UNCHANGED <<provider, owner, flight, closing, faults>>
  BY DEF IInv, Typed, Failure, FinishFailure
<1>2. ASSUME UNCHANGED machine \/ TryDelete(f.vm)
      PROVE  /\ machine' \in [Machines -> States]
             /\ Fleet => \A v \in Machines : MachineKept(v)
  <2>1. machine' \in [Machines -> States]
    BY <1>1, <1>2, DeleteTypes DEF Typed
  <2>2. Fleet => f.vm \in {NoVm, row[f.row].vm}
    BY DEF Fleet, FailingOK
  <2> QED
    BY <1>1, <1>2, <2>1, <2>2, SameMachinesKept, DeleteKept
<1>3. CASE FailForGood(f)
  <2>1. /\ row' = [row EXCEPT ![f.row].status = "PERMANENTLY_FAILED"] /\ "PERMANENTLY_FAILED" \in Statuses
        /\ UNCHANGED machine \/ TryDelete(f.vm)
        /\ UNCHANGED msgs
    BY <1>3 DEF FailForGood, Statuses, Terminal
  <2>2. row' \in [Rows -> Row] /\ \A s \in Rows : RowKept(s)
    BY <1>1, <2>1, StatusKept
  <2>3. Typed'
    BY <1>1, <1>2, <2>1, <2>2 DEF Typed
  <2>4. Fleet => Kept
    BY <1>1, <1>2, <2>1, <2>2, SameFlight DEF Kept
  <2> QED
    BY <1>1, <2>3, <2>4, Moves
<1>4. ASSUME NEW r \in Rows, row[r].status = "none", TryDelete(f.vm), row[f.row].retryCount + 1 <= MaxRetry,
             \/ /\ row' = [row EXCEPT ![r] = NewRow(r, row[f.row].retryCount + 1)]
                /\ msgs' = msgs \cup {Step("DEPLOY", r, 1)}
             \/ /\ row' = [row EXCEPT ![r] = [NewRow(r, row[f.row].retryCount + 1) EXCEPT !.status = "FAILED"]]
                /\ UNCHANGED msgs
      PROVE  IInv'
  <2>1. row[f.row].retryCount + 1 \in 0..MaxRetry
    <3>1. row[f.row].retryCount \in 0..MaxRetry
      BY <1>1 DEF Typed, Row
    <3> QED
      BY <1>4, <3>1, HostedAssumption
  <2>2. row' \in [Rows -> Row] /\ (Attached(r) => \A s \in Rows : RowKept(s))
    BY <1>1, <1>4, <2>1, NewRowKept
  <2>3. Step("DEPLOY", r, 1) \in Message
    BY StepTypes, HostedAssumption DEF Steps
  <2>4. Typed'
    BY <1>1, <1>2, <1>4, <2>2, <2>3 DEF Typed
  <2>5. Fleet => Kept
    BY <1>1, <1>2, <1>4, <2>2, SameFlight DEF Kept, Fleet
  <2> QED
    BY <1>1, <2>4, <2>5, Moves
<1> QED
  BY <1>3, <1>4 DEF FinishFailure, Retry

\* A close calls the upstream, and remembers whether the machine is gone.
LEMMA CallIInv ==
  ASSUME IInv, NEW r \in Rows, NEW to \in {"STOPPED", "DELETED", "PAUSED"}, NEW cleaned \in Flags,
         cleaned /\ provider = "spheron" => row[r].vm # NoVm,
         closing' = closing \cup {[row |-> r, to |-> to, cleaned |-> cleaned]},
         IF cleaned THEN DeleteMachine(row[r].vm) ELSE UNCHANGED machine,
         UNCHANGED <<provider, owner, row, msgs, flight, failing, faults>>
  PROVE  IInv'
<1> DEFINE c == [row |-> r, to |-> to, cleaned |-> cleaned]
<1>1. Typed /\ c \in Close /\ c.row = r /\ c.cleaned = cleaned /\ closing' = closing \cup {c}
  BY DEF IInv, Close
<1> HIDE DEF c
<1>2. /\ machine' \in [Machines -> States] /\ \A v \in Machines : MachineKept(v)
      /\ cleaned /\ row[r].vm \in Machines => machine'[row[r].vm] = "gone"
  <2>1. CASE cleaned
    <3>1. DeleteMachine(row[r].vm)
      BY <2>1
    <3> QED
      BY <1>1, <3>1, DeleteKept, DeleteTypes
  <2>2. CASE ~cleaned
    BY <1>1, <2>2, SameMachinesKept DEF Typed
  <2> QED
    BY <2>1, <2>2
<1>3. Typed'
  BY <1>1, <1>2 DEF Typed
<1>4. ASSUME provider = "spheron" PROVE Kept
  <2>1. cleaned => row[r].vm # NoVm /\ machine'[row[r].vm] = "gone"
    <3>1. row[r].vm \in Machines \cup {NoVm}
      BY <1>1 DEF Typed, Row
    <3> QED
      BY <1>2, <1>4, <3>1
  <2>2. Deletes(c)
    BY <1>1, <2>1, Zenon DEF Deletes
  <2>3. \A d \in closing' : d \in closing \/ Deletes(d)
    BY <1>1, <2>2
  <2> QED
    BY <1>2, <2>3, SameRowsKept, SameFlight DEF Kept
<1> QED
  BY <1>3, <1>4, Moves

LEMMA StartCloseIInv == ASSUME IInv, NEW r \in Rows, StartClose(r) PROVE IInv'
<1> DEFINE cleaned == row[r].vm # NoVm /\ CanDelete(row[r].vm)
<1>1. PICK to \in CloseTargets :
        /\ closing' = closing \cup {[row |-> r, to |-> to, cleaned |-> cleaned]}
        /\ IF cleaned THEN DeleteMachine(row[r].vm) ELSE UNCHANGED machine
  BY Zenon DEF StartClose
<1>2. to \in {"STOPPED", "DELETED", "PAUSED"} /\ (cleaned => row[r].vm # NoVm)
      /\ UNCHANGED <<provider, owner, row, msgs, flight, failing, faults>>
  BY DEF CloseTargets, StartClose
<1>3. cleaned \in Flags
  BY Zenon DEF Flags, CanDelete
<1> HIDE DEF cleaned
<1> QED
  BY <1>1, <1>2, <1>3, CallIInv

LEMMA StartPauseIInv == ASSUME IInv, NEW r \in Rows, StartPause(r) PROVE IInv'
<1> DEFINE cleaned == CanDelete(row[r].vm)
<1>1. /\ closing' = closing \cup {[row |-> r, to |-> "PAUSED", cleaned |-> cleaned]}
      /\ IF cleaned THEN DeleteMachine(row[r].vm) ELSE UNCHANGED machine
      /\ UNCHANGED <<provider, owner, row, msgs, flight, failing, faults>>
  BY DEF StartPause
<1>2. provider = "spheron" => row[r].vm # NoVm
  BY DEF StartPause, IInv, Fleet, Attached
<1>3. cleaned \in Flags
  BY Zenon DEF Flags, CanDelete
<1> HIDE DEF cleaned
<1>4. "PAUSED" \in {"STOPPED", "DELETED", "PAUSED"} /\ (cleaned /\ provider = "spheron" => row[r].vm # NoVm)
  BY <1>2
<1> QED
  BY <1>1, <1>3, <1>4, CallIInv

LEMMA FinishCloseIInv == ASSUME IInv, NEW c \in closing, FinishClose(c) PROVE IInv'
<1> DEFINE doomed == {row[r].vm : r \in {s \in Rows : Sibling(s, c)}} \ {NoVm}
<1>1. /\ Typed /\ c.row \in Rows /\ c.cleaned \in Flags /\ c.to \in {"STOPPED", "DELETED"} /\ closing' \subseteq closing
      /\ UNCHANGED <<provider, owner, msgs, flight, failing, faults>>
  BY DEF IInv, Typed, Close, FinishClose
<1>2. PICK ok \in SUBSET doomed : machine' = [v \in Machines |-> IF v \in ok THEN "gone" ELSE machine[v]]
  BY DEF FinishClose
<1>3. machine' \in [Machines -> States] /\ \A v \in Machines : MachineKept(v)
  <2>1. machine' \in [Machines -> States]
    BY <1>1, <1>2 DEF Typed, States
  <2>2. ASSUME NEW v \in Machines PROVE MachineKept(v)
    <3>1. CASE v \in ok
      <4>1. machine'[v] = "gone" /\ v \in doomed
        BY <1>2, <3>1
      <4>2. \E r \in Rows : row[r].vm = v
        BY <4>1
      <4> QED
        BY <4>1, <4>2 DEF MachineKept
    <3>2. CASE v \notin ok
      BY <1>2, <3>2 DEF MachineKept
    <3> QED
      BY <3>1, <3>2
  <2> QED
    BY <2>1, <2>2
<1>4. /\ "DELETED" \in Statuses /\ c.to \in Statuses /\ c.to \notin {"none", "ACTIVE"}
  BY <1>1 DEF Statuses, Terminal
<1>5. ASSUME NEW r \in Rows
      PROVE  /\ row'[r] \in Row
             /\ Fleet => RowKept(r)
  <2>1. row[r] \in Row
    BY <1>1 DEF Typed
  <2>2. CASE r = c.row
    <3>1. row'[r] = Stamped(row[r], c.to, c.cleaned)
      BY <2>2 DEF FinishClose, Stamped, Sibling
    <3>2. /\ row'[r] \in Row /\ row'[r].vm = row[r].vm /\ row'[r].status = c.to
          /\ row'[r].upstreamDeleted = c.cleaned
      BY <1>1, <1>4, <2>1, <3>1, StampEdit
    <3>3. ASSUME Fleet, c.cleaned PROVE row[r].vm # NoVm /\ machine'[row[r].vm] = "gone"
      <4>1. row[r].vm # NoVm /\ machine[row[r].vm] = "gone"
        BY <2>2, <3>3, Zenon DEF Fleet, ClosingOK
      <4>2. row[r].vm \in Machines
        BY <2>1, <4>1 DEF Row
      <4>3. machine'[row[r].vm] = "gone"
        BY <1>2, <4>1, <4>2
      <4> QED
        BY <4>1, <4>3
    <3> QED
      BY <1>4, <3>2, <3>3, Zenon DEF RowKept
  <2>3. CASE r # c.row /\ Sibling(r, c)
    <3>1. row'[r] = [row[r] EXCEPT !.status = "DELETED"]
      BY <2>3 DEF FinishClose
    <3>2. /\ row'[r] \in Row /\ row'[r].vm = row[r].vm /\ row'[r].status = "DELETED"
          /\ row'[r].upstreamDeleted = row[r].upstreamDeleted
      BY <1>4, <2>1, <3>1, StatusEdit
    <3> QED
      BY <3>2, Zenon DEF RowKept
  <2>4. CASE r # c.row /\ ~Sibling(r, c)
    <3>1. row'[r] = row[r]
      BY <2>4 DEF FinishClose
    <3> QED
      BY <2>1, <3>1, Zenon DEF RowKept
  <2> QED
    BY <2>2, <2>3, <2>4
<1>6. row' \in [Rows -> Row]
  BY <1>5 DEF FinishClose
<1>7. Typed'
  BY <1>1, <1>3, <1>6 DEF Typed
<1>8. Fleet => Kept
  BY <1>1, <1>3, <1>5, SameFlight DEF Kept
<1> QED
  BY <1>1, <1>7, <1>8, Moves

LEMMA FinishPauseIInv == ASSUME IInv, NEW c \in closing, FinishPause(c) PROVE IInv'
<1>1. /\ Typed /\ c.row \in Rows /\ closing' \subseteq closing
      /\ UNCHANGED <<provider, owner, machine, msgs, flight, failing, faults>>
  BY DEF IInv, Typed, Close, FinishPause
<1>2. CASE UNCHANGED row
  <2>1. Typed'
    BY <1>1, <1>2 DEF Typed
  <2>2. Kept
    BY <1>1, <1>2, SameRowsKept, SameMachinesKept, SameFlight DEF Kept
  <2> QED
    BY <1>1, <2>1, <2>2, Moves
<1>3. CASE row[c.row].status = "ACTIVE"
  <2> DEFINE flag == row[c.row].upstreamDeleted \/ (provider = "spheron" /\ c.cleaned)
  <2>1. row' = [row EXCEPT ![c.row] = Stamped(row[c.row], "STOPPED", flag)] /\ "STOPPED" \in Statuses
    BY <1>1, <1>3 DEF FinishPause, Stamped, Typed, Statuses, Terminal
  <2>2. flag \in Flags
    BY Zenon DEF Flags
  <2>3. ASSUME Fleet, flag
        PROVE  row[c.row].upstreamDeleted \/ (row[c.row].vm # NoVm /\ machine'[row[c.row].vm] = "gone")
    BY <1>1, <2>3, Zenon DEF Fleet, ClosingOK
  <2> HIDE DEF flag
  <2>4. row' \in [Rows -> Row] /\ (Fleet => \A s \in Rows : RowKept(s))
    BY <1>1, <2>1, <2>2, <2>3, StampKept
  <2>5. Typed'
    BY <1>1, <2>4 DEF Typed
  <2>6. Fleet => Kept
    BY <1>1, <2>4, SameMachinesKept, SameFlight DEF Kept
  <2> QED
    BY <1>1, <2>5, <2>6, Moves
<1> QED
  BY <1>2, <1>3 DEF FinishPause

\* A sweep writes a row, and its stamp after the DELETE of its machine.
LEMMA SweepIInv ==
  ASSUME IInv, NEW r \in Rows, NEW st \in Statuses, st # "ACTIVE",
         provider = "spheron" => row[r].vm # NoVm,
         \/ DeleteMachine(row[r].vm)
         \/ UNCHANGED machine /\ (provider = "spheron" => machine[row[r].vm] = "gone"),
         row' = [row EXCEPT ![r] = Stamped(row[r], st, TRUE)],
         UNCHANGED <<provider, owner, msgs, flight, failing, closing, faults>>
  PROVE  IInv'
<1>1. Typed /\ TRUE \in Flags /\ row[r].vm \in Machines \cup {NoVm}
  BY InFlags DEF IInv, Typed, Row
<1>2. machine' \in [Machines -> States] /\ \A v \in Machines : MachineKept(v)
  BY <1>1, DeleteKept, SameMachinesKept DEF Typed
<1>3. provider = "spheron" => row[r].vm # NoVm /\ machine'[row[r].vm] = "gone"
  BY <1>1, DeleteTypes
<1>4. row' \in [Rows -> Row] /\ (provider = "spheron" => \A s \in Rows : RowKept(s))
  BY <1>1, <1>3, StampKept
<1>5. Typed'
  BY <1>1, <1>2, <1>4 DEF Typed
<1>6. provider = "spheron" => Kept
  BY <1>2, <1>4, SameFlight DEF Kept
<1> QED
  BY <1>5, <1>6, Moves

LEMMA SweepStaleIInv == ASSUME IInv, NEW r \in Rows, SweepStale(r) PROVE IInv'
<1>1. Typed /\ "FAILED" \in Statuses /\ UNCHANGED <<provider, owner, msgs, flight, failing, closing, faults>>
  BY DEF IInv, SweepStale, Statuses, Terminal
<1>2. CASE row[r].vm # NoVm /\ DeleteMachine(row[r].vm)
           /\ row' = [row EXCEPT ![r].status = "FAILED", ![r].upstreamDeleted = TRUE]
  <2>1. row' = [row EXCEPT ![r] = Stamped(row[r], "FAILED", TRUE)]
    BY <1>1, <1>2 DEF Typed, Stamped
  <2> QED
    BY <1>1, <1>2, <2>1, SweepIInv
<1>3. CASE row' = [row EXCEPT ![r].status = "FAILED"] /\ UNCHANGED machine
  <2>1. row' \in [Rows -> Row] /\ \A s \in Rows : RowKept(s)
    BY <1>1, <1>3, StatusKept
  <2>2. Typed'
    BY <1>1, <1>3, <2>1 DEF Typed
  <2>3. Kept
    BY <1>1, <1>3, <2>1, SameMachinesKept, SameFlight DEF Kept
  <2> QED
    BY <1>1, <2>2, <2>3, Moves
<1> QED
  BY <1>2, <1>3 DEF SweepStale

LEMMA CleanUpstreamIInv == ASSUME IInv, NEW r \in Rows, CleanUpstream(r) PROVE IInv'
<1>1. /\ row[r].status = "DELETED" /\ row[r].vm # NoVm /\ DeleteMachine(row[r].vm)
      /\ row' = [row EXCEPT ![r].upstreamDeleted = TRUE] /\ row[r] \in Row /\ Typed
      /\ UNCHANGED <<provider, owner, msgs, flight, failing, closing, faults>>
  BY DEF IInv, Typed, CleanUpstream, NeedsCleanup
<1>2. [row[r] EXCEPT !.upstreamDeleted = TRUE] = Stamped(row[r], "DELETED", TRUE)
  BY <1>1 DEF Stamped, Row
<1>3. row' = [row EXCEPT ![r] = Stamped(row[r], "DELETED", TRUE)]
  BY <1>1, <1>2, Zenon
<1>4. "DELETED" \in Statuses
  BY DEF Statuses, Terminal
<1> QED
  BY <1>1, <1>3, <1>4, SweepIInv

LEMMA ReconcileGoneIInv == ASSUME IInv, NEW r \in Rows, ReconcileGone(r) PROVE IInv'
<1>1. /\ row[r].status = "ACTIVE" /\ machine[row[r].vm] = "gone" /\ Typed
      /\ row' = [row EXCEPT ![r].status = "DELETED", ![r].upstreamDeleted = TRUE]
      /\ UNCHANGED <<provider, machine, owner, msgs, flight, failing, closing, faults>>
  BY DEF IInv, ReconcileGone
<1>2. row' = [row EXCEPT ![r] = Stamped(row[r], "DELETED", TRUE)]
  BY <1>1 DEF Typed, Stamped
<1>3. provider = "spheron" => row[r].vm # NoVm
  BY <1>1 DEF IInv, Fleet, Attached
<1>4. "DELETED" \in Statuses
  BY DEF Statuses, Terminal
<1> QED
  BY <1>1, <1>2, <1>3, <1>4, SweepIInv

LEMMA MachinesIInv == ASSUME IInv, NEW v \in Machines, FloorPasses(v) \/ MachineDies(v) PROVE IInv'
<1>1. Typed /\ UNCHANGED <<provider, owner, row, msgs, flight, failing, closing>>
  BY DEF IInv, FloorPasses, MachineDies
<1>2. faults' \in 0..MaxFault
  BY <1>1, FaultTypes DEF FloorPasses, MachineDies
<1>3. machine' \in [Machines -> States] /\ \A u \in Machines : MachineKept(u)
  <2>1. CASE FloorPasses(v)
    BY <1>1, <2>1 DEF FloorPasses, Typed, States, MachineKept
  <2>2. CASE MachineDies(v)
    <3>1. /\ machine' \in [Machines -> States] /\ machine'[v] = "gone"
          /\ \A u \in Machines : u # v => machine'[u] = machine[u]
      BY <1>1, <2>2, DeleteTypes DEF MachineDies
    <3>2. \A f \in Launching : f.vm # v
      BY <2>2 DEF MachineDies, Launching
    <3> QED
      BY <3>1, <3>2 DEF MachineKept
  <2> QED
    BY <2>1, <2>2
<1>4. Typed'
  BY <1>1, <1>2, <1>3 DEF Typed
<1>5. Kept
  BY <1>1, <1>3, SameRowsKept, SameFlight DEF Kept
<1> QED
  BY <1>1, <1>4, <1>5, Moves

LEMMA CrashIInv == ASSUME IInv, Crash PROVE IInv'
<1>1. /\ Typed /\ UNCHANGED <<provider, owner, row, machine>>
      /\ flight' = {} /\ failing' = {} /\ closing' = {}
  BY DEF IInv, Crash
<1>2. faults' \in 0..MaxFault
  BY <1>1, FaultTypes DEF Crash
<1>3. msgs' \subseteq Message
  <2>1. \A r \in Rows : \A s \in {"DEPLOY", "RUN_CLOUDINIT_PROBE", "POLL_STATUS"} : Step(s, r, 1) \in Message
    BY StepTypes, HostedAssumption DEF Steps
  <2> QED
    BY <1>1, <2>1 DEF Crash, Typed
<1>4. Typed'
  BY <1>1, <1>2, <1>3 DEF Typed
<1>5. Kept
  BY <1>1, SameRowsKept, SameMachinesKept, SameFlight DEF Kept
<1> QED
  BY <1>1, <1>4, <1>5, Moves

LEMMA InitIInv == Init => IInv
<1> SUFFICES ASSUME Init PROVE IInv
  OBVIOUS
<1>1. row = [r \in Rows |-> Unborn] /\ machine = [v \in Machines |-> "unborn"] /\ owner = [v \in Machines |-> NoVm]
      /\ msgs = {} /\ flight = {} /\ failing = {} /\ closing = {} /\ faults = 0
      /\ provider \in {"phala", "spheron"}
  BY DEF Init
<1>2. Unborn \in Row /\ Unborn.vm = NoVm /\ Unborn.status = "none" /\ Unborn.upstreamDeleted = FALSE
  <2>1. 0 \in 0..MaxRetry
    BY HostedAssumption
  <2>2. Unborn \in Row
    BY <2>1, InFlags DEF Unborn, Row
  <2> QED
    BY <2>2 DEF Unborn
<1>3. Typed
  BY <1>1, <1>2, HostedAssumption DEF Typed, States
<1>4. Fleet
  <2>1. ASSUME NEW r \in Rows PROVE Attached(r)
    <3>1. row[r] = Unborn
      BY <1>1
    <3> QED
      BY <1>2, <3>1, Zenon DEF Attached
  <2> QED
    BY <1>1, <2>1 DEF Fleet, Apart, Launching
<1> QED
  BY <1>3, <1>4 DEF IInv

LEMMA NextIInv == IInv /\ [Next]_vars => IInv'
<1> SUFFICES ASSUME IInv, [Next]_vars PROVE IInv'
  OBVIOUS
<1>1. CASE UNCHANGED vars
  <2>1. Typed'
    BY <1>1 DEF IInv, Typed, vars
  <2>2. Kept
    BY <1>1, SameRowsKept, SameMachinesKept, SameFlight DEF Kept, vars
  <2> QED
    BY <1>1, <2>1, <2>2, Moves DEF vars
<1>2. ASSUME NEW r \in Rows,
             \/ Deploy(r) \/ StartClose(r) \/ StartPause(r) \/ SweepStale(r)
             \/ CleanUpstream(r) \/ ReconcileGone(r)
      PROVE  IInv'
  BY <1>2, DeployIInv, StartCloseIInv, StartPauseIInv, SweepStaleIInv, CleanUpstreamIInv, ReconcileGoneIInv
<1>3. ASSUME NEW m \in msgs, HandleDeploy(m) \/ HandlePoll(m) \/ HandleProbe(m) \/ HandleFailure(m)
      PROVE  IInv'
  BY <1>3, HandleDeployIInv, HandlePollIInv, HandleProbeIInv, HandleFailureIInv
<1>4. ASSUME NEW f \in flight, SaveLaunched(f) \/ SaveDeployed(f) \/ Activate(f) PROVE IInv'
  BY <1>4, SaveLaunchedIInv, SaveDeployedIInv, ActivateIInv
<1>5. ASSUME NEW f \in failing, WriteFailed(f) \/ FinishFailure(f) PROVE IInv'
  BY <1>5, WriteFailedIInv, FinishFailureIInv
<1>6. ASSUME NEW c \in closing, FinishClose(c) \/ FinishPause(c) PROVE IInv'
  BY <1>6, FinishCloseIInv, FinishPauseIInv
<1>7. ASSUME NEW v \in Machines, FloorPasses(v) \/ MachineDies(v) PROVE IInv'
  BY <1>7, MachinesIInv
<1> QED
  BY <1>1, <1>2, <1>3, <1>4, <1>5, <1>6, <1>7, CrashIInv, Zenon DEF Next

LEMMA Invariance == Spec => []IInv
BY InitIInv, NextIInv, PTL DEF Spec

\* Messages name rows and attempts that exist, and a handler in progress holds
\* a machine, whatever steps are lost, repeated or overtaken.
THEOREM TypeCorrect == Spec => []TypeOK
<1>1. IInv => TypeOK
  BY TypedIsTypeOK DEF IInv
<1> QED
  BY <1>1, Invariance, PTL

\* spheronSteps.ts and staleDeploymentSweeper.ts set upstreamDeletedAt, the
\* only thing the clean-up sweep looks at, only on rows whose machine is gone.
THEOREM StampsAreTrue == Spec => []StampIsTrue
<1>1. IInv => StampIsTrue
  <2> SUFFICES ASSUME IInv, NEW r \in Rows, provider = "spheron", row[r].upstreamDeleted
               PROVE  machine[row[r].vm] = "gone"
    BY Zenon DEF StampIsTrue
  <2> QED
    BY Zenon DEF IInv, Fleet, Attached
<1> QED
  BY <1>1, Invariance, PTL
=============================================================================

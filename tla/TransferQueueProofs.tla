------------------------- MODULE TransferQueueProofs -------------------------
(***************************************************************************)
(* Proofs, for every number of hosts, callers and transfers and every cap, *)
(* that TransferQueue keeps its type, its ownership invariants, the        *)
(* outcomes it has reported and the places it shows, and that it           *)
(* implements QueueContract.                                               *)
(***************************************************************************)
EXTENDS TransferQueue, FiniteSetTheorems, TLAPS

(* The pump lock: one holder, and orders exist only while it is held.      *)
PumpHeldOnce ==
  /\ \A c, d \in Callers : at[c] = "dispatch" /\ at[d] = "dispatch" => c = d
  /\ orders # {} => \E c \in Callers : at[c] = "dispatch"

(* Ids not given out yet are blank everywhere.                             *)
UnaskedBlank ==
  \A i \in Ids : i >= nextId =>
    records[i].state = "Absent" /\ ~cancel[i] /\ task[i] = "none" /\ ~Ordered(i)

(* While somebody still works for a row it is Running, cleared away, or    *)
(* failed by fail_host with its flag up.                                   *)
OwnedOutcome ==
  \A i \in Ids : task[i] \in LivePhases \/ Ordered(i) =>
    \/ records[i].state \in {"Running", "Absent"}
    \/ records[i].state = "Failed" /\ records[i].error = "gone" /\ cancel[i]

IInv ==
  /\ TypeOK
  /\ PumpHeldOnce
  /\ UnaskedBlank
  /\ OwnedOutcome
  /\ RunningHasOwner
  /\ HandedOutOnce
  /\ StoppedNeverDone

-----------------------------------------------------------------------------
(* What the operators on the records map leave alone.                      *)

LEMMA BlankType == Blank \in Record
BY DEF Blank, Record, Priorities, Low, Normal, High, States, Reasons

LEMMA IdsFinite == IsFiniteSet(Ids)
BY QueueAssumption, FS_Interval DEF Ids

LEMMA RankIsNat ==
  ASSUME NEW r, NEW S, S \subseteq Ids, NEW i
  PROVE  Rank(r, S, i) \in Nat
BY IdsFinite, FS_Subset, FS_CardinalityType DEF Rank

(* renumber touches nothing but positions.                                 *)
LEMMA RenumberKeeps ==
  ASSUME NEW r \in [Ids -> Record]
  PROVE  /\ Renumber(r) \in [Ids -> Record]
         /\ \A i \in Ids :
              /\ Renumber(r)[i].state = r[i].state
              /\ Renumber(r)[i].error = r[i].error
              /\ Renumber(r)[i].host = r[i].host
              /\ Renumber(r)[i].priority = r[i].priority
<1> DEFINE queued == InState(r, {"Queued"})
<1>1. queued \subseteq Ids BY DEF InState
<1>2. \A i \in Ids : 1 + Rank(r, queued, i) \in Nat
  BY <1>1, RankIsNat
<1> HIDE DEF queued
<1>3. Renumber(r) = [i \in Ids |->
        IF i \in queued THEN [r[i] EXCEPT !.position = 1 + Rank(r, queued, i)]
        ELSE r[i]]
  BY DEF Renumber, queued
<1>4. QED BY <1>2, <1>3 DEF Record

(* prune_history leaves a row as it is, or drops a settled one.            *)
LEMMA PruneKeeps ==
  ASSUME NEW r \in [Ids -> Record]
  PROVE  /\ PruneHistory(r) \in [Ids -> Record]
         /\ \A i \in Ids :
              \/ PruneHistory(r)[i] = r[i]
              \/ r[i].state \in SettledStates /\ PruneHistory(r)[i] = Blank
BY BlankType DEF PruneHistory, InState

(* finish settles its own row, if there is one, and no other.              *)
LEMMA FinishEffect ==
  ASSUME TypeOK, NEW i \in Ids, NEW e \in Reasons
  PROVE  /\ Finish(i, e) \in [Ids -> Record]
         /\ \A j \in Ids : j # i \/ records[i].state = "Absent" =>
              Finish(i, e)[j].state = records[j].state
                /\ Finish(i, e)[j].error = records[j].error
         /\ records[i].state # "Absent" =>
              /\ Finish(i, e)[i].state =
                   IF cancel[i] THEN "Canceled"
                   ELSE IF e = "none" THEN "Done" ELSE "Failed"
              /\ Finish(i, e)[i].error = IF cancel[i] THEN "none" ELSE e
         /\ \A j \in Ids : Finish(i, e)[j].priority = records[j].priority
<1> DEFINE state == IF cancel[i] THEN "Canceled"
                    ELSE IF e = "none" THEN "Done" ELSE "Failed"
           error == IF cancel[i] THEN "none" ELSE e
           settled == [records EXCEPT ![i].state = state, ![i].error = error,
                                      ![i].position = 0]
<1>1. state \in States /\ error \in Reasons
  BY DEF States, Reasons
<1>2. Finish(i, e) = IF records[i].state = "Absent" THEN Renumber(records)
                     ELSE Renumber(settled)
  BY DEF Finish
<1> HIDE DEF state, error
<1>3. records \in [Ids -> Record]
  BY DEF TypeOK
<1>4. /\ settled \in [Ids -> Record]
      /\ \A j \in Ids : j # i => settled[j] = records[j]
      /\ settled[i].state = state /\ settled[i].error = error
      /\ settled[i].priority = records[i].priority
  BY <1>1, <1>3 DEF Record
<1> HIDE DEF settled
<1>5. CASE records[i].state = "Absent"
  BY <1>2, <1>3, <1>5, RenumberKeeps
<1>6. CASE records[i].state # "Absent"
  BY <1>2, <1>3, <1>4, <1>6, RenumberKeeps DEF state, error
<1>7. QED BY <1>5, <1>6

-----------------------------------------------------------------------------
(* Typing.                                                                 *)

LEMMA ChosenReady == Chosen \subseteq Ready /\ Ready \subseteq Queued /\ Queued \subseteq Ids
BY DEF Chosen, Ready, Queued, InState

(* The rows take_ready picks turn Running; no other row changes its state. *)
LEMMA PromoteEffect ==
  ASSUME TypeOK
  PROVE  /\ Promote \in [Ids -> Record]
         /\ \A i \in Ids :
              /\ Promote[i].state = IF i \in Chosen THEN "Running" ELSE records[i].state
              /\ Promote[i].error = records[i].error
              /\ Promote[i].priority = records[i].priority
<1> DEFINE promoted == [i \in Ids |->
         IF i \in Chosen THEN [records[i] EXCEPT !.state = "Running", !.position = 0]
         ELSE records[i]]
<1>1. records \in [Ids -> Record] BY DEF TypeOK
<1>2. /\ promoted \in [Ids -> Record]
      /\ \A i \in Ids :
           /\ promoted[i].state = IF i \in Chosen THEN "Running" ELSE records[i].state
           /\ promoted[i].error = records[i].error
           /\ promoted[i].priority = records[i].priority
  BY <1>1 DEF Record, States
<1>3. Promote = IF Chosen = {} THEN records ELSE Renumber(promoted)
  BY DEF Promote
<1> HIDE DEF promoted
<1>4. CASE Chosen = {} BY <1>1, <1>3, <1>4
<1>5. CASE Chosen # {} BY <1>2, <1>3, <1>5, RenumberKeeps
<1>6. QED BY <1>4, <1>5

LEMMA OrdersAreTyped ==
  ASSUME TypeOK
  PROVE  {OrderFor(i) : i \in Chosen} \subseteq StartOrder
<1>1. \A i \in Chosen : i \in Ids /\ records[i].host \in Hosts /\ records[i].priority \in Priorities
  BY ChosenReady DEF TypeOK, Ready, Record
<1>2. QED BY <1>1 DEF OrderFor, StartOrder

(* fail_host: the pending rows of one host are failed, no other row moves. *)
LEMMA ReleaseEffect ==
  ASSUME TypeOK, NEW c \in Callers, ReleaseHost(c)
  PROVE  /\ records' \in [Ids -> Record]
         /\ \A i \in Ids :
              IF i \in Stranded(target[c])
              THEN records'[i].state = "Failed" /\ records'[i].error = "gone" /\ cancel'[i]
              ELSE /\ records'[i].state = records[i].state
                   /\ records'[i].error = records[i].error
                   /\ cancel'[i] = cancel[i]
         /\ \A i \in Ids : records'[i].priority = records[i].priority
<1> DEFINE hit == Stranded(target[c])
           failed == [i \in Ids |->
             IF i \in hit
             THEN [records[i] EXCEPT !.state = "Failed", !.error = "gone", !.position = 0]
             ELSE records[i]]
<1>1. records \in [Ids -> Record] /\ cancel \in [Ids -> BOOLEAN] BY DEF TypeOK
<1>2. records' = Renumber(failed) /\ cancel' = [i \in Ids |-> i \in hit \/ cancel[i]]
  BY DEF ReleaseHost
<1> HIDE DEF hit
<1>3. /\ failed \in [Ids -> Record]
      /\ \A i \in Ids :
           /\ failed[i].state = IF i \in hit THEN "Failed" ELSE records[i].state
           /\ failed[i].error = IF i \in hit THEN "gone" ELSE records[i].error
           /\ failed[i].priority = records[i].priority
  BY <1>1 DEF Record, States, Reasons
<1>4. \A i \in Ids : cancel'[i] = (i \in hit \/ cancel[i])
  BY <1>2
<1> HIDE DEF failed
<1>5. QED BY <1>1, <1>2, <1>3, <1>4, RenumberKeeps DEF hit

(* enqueue: the new row waits, and prune_history may drop settled ones.    *)
LEMMA EnqueueEffect ==
  ASSUME TypeOK, NEW c \in Callers, NEW p \in PriorityChoices, Enqueue(c, p)
  PROVE  /\ records' \in [Ids -> Record]
         /\ nextId \in Ids /\ records'[nextId].state = "Queued"
         /\ records'[nextId].priority = p
         /\ \A i \in Ids \ {nextId} :
              \/ records'[i] = records[i]
              \/ records[i].state \in SettledStates /\ records'[i].state = "Absent"
<1> DEFINE row == [Blank EXCEPT !.host = target[c], !.priority = p, !.state = "Queued"]
           added == [records EXCEPT ![nextId] = row]
<1>1. /\ records \in [Ids -> Record] /\ nextId \in Ids /\ p \in Priorities
      /\ target[c] \in Hosts \cup {NoHost}
  BY QueueAssumption DEF TypeOK, Enqueue
<1>2. row \in Record /\ row.state = "Queued" /\ row.priority = p
  BY <1>1, BlankType DEF Record, States, Blank
<1>3. records' = PruneHistory(added)
  BY DEF Enqueue
<1> HIDE DEF row
<1>4. added \in [Ids -> Record] /\ added[nextId] = row
        /\ \A i \in Ids \ {nextId} : added[i] = records[i]
  BY <1>1, <1>2
<1> HIDE DEF added
<1>5. Blank.state = "Absent" /\ "Queued" \notin SettledStates
  BY DEF Blank, SettledStates
<1>6. QED BY <1>1, <1>2, <1>3, <1>4, <1>5, PruneKeeps

(* cancel: a queued row settles, a running one is only flagged.            *)
LEMMA CancelEffect ==
  ASSUME TypeOK, NEW c \in Callers, NEW i \in Ids, CancelTransfer(c, i)
  PROVE  /\ records' \in [Ids -> Record]
         /\ records[i].state \in {"Queued", "Running"}
         /\ \A j \in Ids :
              /\ records'[j].state =
                   IF j = i /\ records[i].state = "Queued" THEN "Canceled"
                   ELSE records[j].state
              /\ records'[j].error = records[j].error
              /\ records'[j].priority = records[j].priority
         /\ cancel' \in [Ids -> BOOLEAN]
         /\ cancel'[i] /\ \A j \in Ids \ {i} : cancel'[j] = cancel[j]
<1> DEFINE settled == IF i \in Queued
             THEN [records EXCEPT ![i].state = "Canceled", ![i].position = 0]
             ELSE records
<1>1. records \in [Ids -> Record] /\ cancel \in [Ids -> BOOLEAN] BY DEF TypeOK
<1>2. /\ records' = Renumber(settled) /\ cancel' = [cancel EXCEPT ![i] = TRUE]
      /\ i \in Queued <=> records[i].state = "Queued"
      /\ records[i].state \in {"Queued", "Running"}
  BY DEF CancelTransfer, Queued, Pending, InState
<1>3. /\ settled \in [Ids -> Record]
      /\ \A j \in Ids :
           /\ settled[j].state = IF j = i /\ records[i].state = "Queued" THEN "Canceled"
                                 ELSE records[j].state
           /\ settled[j].error = records[j].error
           /\ settled[j].priority = records[j].priority
  BY <1>1, <1>2 DEF Record, States
<1> HIDE DEF settled
<1>4. cancel' \in [Ids -> BOOLEAN] /\ cancel'[i] /\ \A j \in Ids \ {i} : cancel'[j] = cancel[j]
  BY <1>1, <1>2
<1>5. QED BY <1>2, <1>3, <1>4, RenumberKeeps

LEMMA PriorityEffect ==
  ASSUME TypeOK, NEW c \in Callers, NEW i \in Ids, NEW p \in PriorityChoices,
         SetPriority(c, i, p)
  PROVE  /\ records' \in [Ids -> Record]
         /\ \A j \in Ids : /\ records'[j].state = records[j].state
                           /\ records'[j].error = records[j].error
                           /\ records'[j].priority = IF j = i THEN p ELSE records[j].priority
<1> DEFINE ranked == [records EXCEPT ![i].priority = p]
<1>1. records \in [Ids -> Record] /\ p \in Priorities
  BY QueueAssumption DEF TypeOK
<1>2. /\ ranked \in [Ids -> Record]
      /\ \A j \in Ids : /\ ranked[j].state = records[j].state
                        /\ ranked[j].error = records[j].error
                        /\ ranked[j].priority = IF j = i THEN p ELSE records[j].priority
  BY <1>1 DEF Record
<1>3. records' = Renumber(ranked) BY DEF SetPriority
<1> HIDE DEF ranked
<1>4. QED BY <1>2, <1>3, RenumberKeeps

LEMMA ClearEffect ==
  ASSUME TypeOK, ClearFinished
  PROVE  /\ records' \in [Ids -> Record]
         /\ \A i \in Ids :
              \/ records'[i] = records[i] /\ records[i].state \notin SettledStates
              \/ records[i].state \in SettledStates /\ records'[i].state = "Absent"
<1>1. records \in [Ids -> Record] BY DEF TypeOK
<1>2. records' = [i \in Ids |-> IF i \in Settled THEN Blank ELSE records[i]]
  BY DEF ClearFinished
<1>3. QED BY <1>1, <1>2, BlankType DEF Settled, InState, Blank

(* Every variable keeps its type (TypeOK), whatever the constants are.     *)
LEMMA TypePreserved == TypeOK /\ [Next]_vars => TypeOK'
<1> SUFFICES ASSUME TypeOK, [Next]_vars PROVE TypeOK'
  OBVIOUS
<1> USE DEF TypeOK, Goto, Untarget, Stations
<1>1. ASSUME NEW c \in Callers, Progress(c) PROVE TypeOK'
  <2>1. ASSUME NEW p \in PriorityChoices, Enqueue(c, p) PROVE TypeOK'
    <3>1. records' \in [Ids -> Record] /\ nextId \in Ids
      BY <2>1, EnqueueEffect
    <3>2. nextId' \in 1 .. MaxTransfers + 1
      BY <2>1, <3>1, QueueAssumption DEF Enqueue, Ids
    <3>3. QED BY <2>1, <3>1, <3>2 DEF Enqueue
  <2>2. CASE ReleaseHost(c)
    <3>1. cancel' \in [Ids -> BOOLEAN]
      BY <2>2 DEF ReleaseHost
    <3>2. QED BY <2>2, <3>1, ReleaseEffect DEF ReleaseHost
  <2>3. CASE TakeReady(c)
    BY <2>3, PromoteEffect, OrdersAreTyped DEF TakeReady
  <2>4. ASSUME NEW o \in orders, Spawn(c, o) PROVE TypeOK'
    BY <2>4 DEF Spawn, OrderDone, StartOrder, Phases
  <2>5. ASSUME NEW o \in orders, DropOrder(c, o) PROVE TypeOK'
    <3>1. records' = Finish(o.id, "gone") /\ o.id \in Ids
      BY <2>5 DEF DropOrder, StartOrder
    <3>2. records' \in [Ids -> Record]
      BY <3>1, FinishEffect DEF Reasons
    <3>3. QED BY <2>5, <3>2 DEF DropOrder, OrderDone
  <2>6. QED BY <1>1, <2>1, <2>2, <2>3, <2>4, <2>5 DEF Progress
<1>2. ASSUME NEW c \in Callers, Command(c) PROVE TypeOK'
  <2>1. ASSUME NEW h \in Hosts, Request(c, h) PROVE TypeOK'
    BY <2>1 DEF Request
  <2>2. ASSUME NEW h \in Hosts, DisconnectHost(c, h) PROVE TypeOK'
    BY <2>2 DEF DisconnectHost
  <2>3. CASE RequestRefused(c)
    BY <2>3 DEF RequestRefused
  <2>4. ASSUME NEW i \in Ids, CancelTransfer(c, i) PROVE TypeOK'
    BY <2>4, CancelEffect DEF CancelTransfer
  <2>5. ASSUME NEW i \in Ids, NEW p \in PriorityChoices, SetPriority(c, i, p) PROVE TypeOK'
    BY <2>5, PriorityEffect DEF SetPriority
  <2>6. CASE RefusedButPumped(c)
    BY <2>6 DEF RefusedButPumped
  <2>7. ASSUME NEW v \in CapChoices, SetMaxConcurrent(c, v) PROVE TypeOK'
    BY <2>7, QueueAssumption DEF SetMaxConcurrent, Clamp
  <2>8. QED BY <1>2, <2>1, <2>2, <2>3, <2>4, <2>5, <2>6, <2>7 DEF Command, ReapHost
<1>3. CASE Sessions
  BY <1>3 DEF Sessions, Connect, PowerHost
<1>4. CASE ClearFinished
  BY <1>4, ClearEffect DEF ClearFinished
<1>5. ASSUME NEW i \in Ids, TaskStep(i) PROVE TypeOK'
  <2>1. CASE TaskFinish(i)
    <3>1. records' \in [Ids -> Record]
      BY <2>1, FinishEffect DEF TaskFinish, Reasons
    <3>2. QED BY <2>1, <3>1 DEF TaskFinish, Phases
  <2>2. CASE NoticeCancel(i) \/ LastChunk(i) \/ Land(i) \/ IoError(i)
    BY <2>2 DEF NoticeCancel, LastChunk, Land, IoError, TaskMoves, Phases
  <2>3. QED BY <1>5, <2>1, <2>2 DEF TaskStep
<1>6. CASE UNCHANGED vars
  BY <1>6 DEF vars
<1>7. QED BY <1>1, <1>2, <1>3, <1>4, <1>5, <1>6 DEF Next

THEOREM TypeCorrect == Spec => []TypeOK
<1>1. Init => TypeOK
  BY QueueAssumption, BlankType
  DEF Init, InitWith, TypeOK, Stations, Phases
<1>2. QED BY <1>1, TypePreserved, PTL DEF Spec

-----------------------------------------------------------------------------
(* Ownership.                                                              *)

LEMMA InitInductive == Init => IInv
<1> SUFFICES ASSUME Init PROVE IInv
  OBVIOUS
<1>1. TypeOK
  BY QueueAssumption, BlankType DEF Init, InitWith, TypeOK, Stations, Phases
<1>2. /\ orders = {} /\ \A c \in Callers : at[c] = "idle"
      /\ \A i \in Ids : records[i].state = "Absent" /\ ~cancel[i] /\ task[i] = "none"
  BY DEF Init, InitWith, Blank
<1>3. QED
  BY <1>1, <1>2 DEF IInv, PumpHeldOnce, UnaskedBlank, OwnedOutcome, RunningHasOwner,
     HandedOutOnce, StoppedNeverDone, Ordered, Running, Queued, InState, LivePhases

(* An action that moves neither rows, flags, tasks nor orders keeps the    *)
(* invariant as long as it does not touch the pump.                        *)
LEMMA BystanderStep ==
  ASSUME IInv, TypeOK', UNCHANGED <<records, cancel, nextId, task, orders>>,
         \A c \in Callers : at'[c] = "dispatch" <=> at[c] = "dispatch"
  PROVE  IInv'
BY DEF IInv, PumpHeldOnce, UnaskedBlank, OwnedOutcome, RunningHasOwner,
   HandedOutOnce, StoppedNeverDone, Ordered, Running, Queued, InState

LEMMA EnqueueStep ==
  ASSUME IInv, TypeOK', NEW c \in Callers, NEW p \in PriorityChoices, Enqueue(c, p)
  PROVE  IInv'
<1>1. /\ nextId \in Ids /\ nextId' = nextId + 1
      /\ UNCHANGED <<cancel, task, orders>>
      /\ at' = [at EXCEPT ![c] = "pump"] /\ at[c] # "dispatch"
  BY EnqueueEffect DEF Enqueue, Goto, IInv
<1>2. /\ records'[nextId].state = "Queued"
      /\ \A i \in Ids \ {nextId} :
           \/ records'[i] = records[i]
           \/ records[i].state \in SettledStates /\ records'[i].state = "Absent"
  BY EnqueueEffect DEF IInv
<1>3. PumpHeldOnce'
  BY <1>1 DEF IInv, PumpHeldOnce, TypeOK
<1>4. UnaskedBlank'
  BY <1>1, <1>2 DEF IInv, UnaskedBlank, Ordered, Ids, TypeOK, SettledStates
<1>5. task[nextId] = "none" /\ ~Ordered(nextId) /\ ~cancel[nextId]
  BY <1>1 DEF IInv, UnaskedBlank, Ids
<1>6. OwnedOutcome'
  BY <1>1, <1>2, <1>5 DEF IInv, OwnedOutcome, Ordered, LivePhases
<1>7. RunningHasOwner'
  BY <1>1, <1>2 DEF IInv, RunningHasOwner, Ordered, Running, InState
<1>8. HandedOutOnce'
  BY <1>1, <1>2, <1>5 DEF IInv, HandedOutOnce, Ordered, Queued, InState
<1>9. StoppedNeverDone'
  BY <1>1, <1>2 DEF IInv, StoppedNeverDone
<1>10. QED BY <1>3, <1>4, <1>6, <1>7, <1>8, <1>9 DEF IInv

LEMMA TakeReadyStep ==
  ASSUME IInv, TypeOK', NEW c \in Callers, TakeReady(c)
  PROVE  IInv'
<1>1. /\ UNCHANGED <<cancel, nextId, task>>
      /\ orders' = {OrderFor(i) : i \in Chosen}
      /\ at' = [at EXCEPT ![c] = IF Chosen = {} THEN "idle" ELSE "dispatch"]
      /\ \A d \in Callers : at[d] # "dispatch"
  BY DEF TakeReady, Goto
<1>2. /\ \A i \in Ids :
           /\ records'[i].state = IF i \in Chosen THEN "Running" ELSE records[i].state
           /\ records'[i].error = records[i].error
  BY PromoteEffect DEF TakeReady, IInv
<1>3. orders = {}
  BY <1>1 DEF IInv, PumpHeldOnce
<1>4. \A i \in Ids : Ordered(i)' <=> i \in Chosen
  <2>1. \A i \in Chosen : OrderFor(i) \in orders' /\ OrderFor(i).id = i
    BY <1>1 DEF OrderFor
  <2>2. \A o \in orders' : \E i \in Chosen : o = OrderFor(i)
    BY <1>1
  <2>3. QED BY <2>1, <2>2 DEF Ordered
<1>5. \A i \in Chosen : i \in Ids /\ records[i].state = "Queued" /\ task[i] = "none"
  BY ChosenReady DEF IInv, HandedOutOnce, Queued, InState
<1>6. PumpHeldOnce'
  <2>1. orders' # {} => Chosen # {}
    BY <1>1
  <2>2. QED BY <1>1, <2>1 DEF PumpHeldOnce, IInv, TypeOK
<1>7. UnaskedBlank'
  BY <1>1, <1>2, <1>4, <1>5 DEF IInv, UnaskedBlank
<1>8. OwnedOutcome'
  BY <1>1, <1>2, <1>3, <1>4 DEF IInv, OwnedOutcome, Ordered
<1>9. RunningHasOwner'
  BY <1>1, <1>2, <1>3, <1>4 DEF IInv, RunningHasOwner, Ordered, Running, InState
<1>10. HandedOutOnce'
  <2>1. \A i \in Queued' : task'[i] = "none" /\ ~Ordered(i)'
    BY <1>1, <1>2, <1>4 DEF IInv, HandedOutOnce, Queued, InState
  <2>2. \A o \in orders' : task'[o.id] = "none"
    BY <1>1, <1>5 DEF OrderFor
  <2>3. \A o, q \in orders' : o.id = q.id => o = q
    BY <1>1 DEF OrderFor
  <2>4. QED BY <2>1, <2>2, <2>3 DEF HandedOutOnce
<1>11. StoppedNeverDone'
  BY <1>1, <1>2 DEF IInv, StoppedNeverDone
<1>12. QED BY <1>6, <1>7, <1>8, <1>9, <1>10, <1>11 DEF IInv

LEMMA SpawnStep ==
  ASSUME IInv, TypeOK', NEW c \in Callers, NEW o \in orders, Spawn(c, o)
  PROVE  IInv'
<1>1. /\ UNCHANGED <<records, cancel, nextId>> /\ o.id \in Ids
      /\ task' = [task EXCEPT ![o.id] = "copying"]
      /\ orders' = orders \ {o} /\ at[c] = "dispatch"
      /\ at' = [at EXCEPT ![c] = IF orders = {o} THEN "idle" ELSE "dispatch"]
  BY DEF Spawn, OrderDone, Goto, IInv, TypeOK, StartOrder
<1>2. /\ \A i \in Ids : task'[i] = IF i = o.id THEN "copying" ELSE task[i]
      /\ \A i \in Ids : Ordered(i)' => Ordered(i) /\ i # o.id
      /\ \A i \in Ids : Ordered(i) /\ i # o.id => Ordered(i)'
      /\ Ordered(o.id)
  BY <1>1 DEF Ordered, IInv, HandedOutOnce, TypeOK
<1>3. PumpHeldOnce'
  BY <1>1 DEF IInv, PumpHeldOnce, TypeOK
<1>4. UnaskedBlank'
  BY <1>1, <1>2 DEF IInv, UnaskedBlank
<1>5. OwnedOutcome'
  BY <1>1, <1>2 DEF IInv, OwnedOutcome
<1>6. RunningHasOwner'
  BY <1>1, <1>2 DEF IInv, RunningHasOwner, Running, InState, LivePhases
<1>7. HandedOutOnce'
  BY <1>1, <1>2 DEF IInv, HandedOutOnce, Queued, InState, TypeOK, StartOrder
<1>8. StoppedNeverDone'
  BY <1>1 DEF IInv, StoppedNeverDone
<1>9. QED BY <1>3, <1>4, <1>5, <1>6, <1>7, <1>8 DEF IInv

LEMMA DropOrderStep ==
  ASSUME IInv, TypeOK', NEW c \in Callers, NEW o \in orders, DropOrder(c, o)
  PROVE  IInv'
<1>1. /\ UNCHANGED <<task, cancel, nextId>> /\ o.id \in Ids
      /\ records' = Finish(o.id, "gone")
      /\ orders' = orders \ {o} /\ at[c] = "dispatch"
      /\ at' = [at EXCEPT ![c] = IF orders = {o} THEN "idle" ELSE "dispatch"]
  BY DEF DropOrder, OrderDone, Goto, IInv, TypeOK, StartOrder
<1>2. /\ \A i \in Ids : Ordered(i)' => Ordered(i) /\ i # o.id
      /\ \A i \in Ids : Ordered(i) /\ i # o.id => Ordered(i)'
      /\ Ordered(o.id) /\ task[o.id] = "none"
  BY <1>1 DEF Ordered, IInv, HandedOutOnce
<1>3. /\ \A i \in Ids : i # o.id \/ records[i].state = "Absent" =>
           records'[i].state = records[i].state /\ records'[i].error = records[i].error
      /\ records[o.id].state # "Absent" => records'[o.id].state \in {"Canceled", "Failed"}
  BY <1>1, FinishEffect DEF IInv, Reasons
<1>4. PumpHeldOnce'
  BY <1>1 DEF IInv, PumpHeldOnce, TypeOK
<1>5. UnaskedBlank'
  BY <1>1, <1>2, <1>3 DEF IInv, UnaskedBlank
<1>6. OwnedOutcome'
  BY <1>1, <1>2, <1>3 DEF IInv, OwnedOutcome, LivePhases
<1>7. RunningHasOwner'
  BY <1>1, <1>2, <1>3 DEF IInv, RunningHasOwner, Running, InState
<1>8. HandedOutOnce'
  BY <1>1, <1>2, <1>3 DEF IInv, HandedOutOnce, Queued, InState
<1>9. StoppedNeverDone'
  BY <1>1, <1>3 DEF IInv, StoppedNeverDone
<1>10. QED BY <1>4, <1>5, <1>6, <1>7, <1>8, <1>9 DEF IInv

LEMMA ReleaseStep ==
  ASSUME IInv, TypeOK', NEW c \in Callers, ReleaseHost(c)
  PROVE  IInv'
<1>1. /\ UNCHANGED <<task, nextId, orders>>
      /\ at' = [at EXCEPT ![c] = "pump"] /\ at[c] # "dispatch"
  BY DEF ReleaseHost, Goto
<1>2. \A i \in Ids :
        IF i \in Stranded(target[c])
        THEN records'[i].state = "Failed" /\ records'[i].error = "gone" /\ cancel'[i]
        ELSE /\ records'[i].state = records[i].state
             /\ records'[i].error = records[i].error
             /\ cancel'[i] = cancel[i]
  BY ReleaseEffect DEF IInv
<1>3. \A i \in Stranded(target[c]) : records[i].state \in {"Queued", "Running"}
  BY DEF Stranded, Pending, InState
<1>4. PumpHeldOnce'
  BY <1>1 DEF IInv, PumpHeldOnce, TypeOK
<1>5. UnaskedBlank'
  BY <1>1, <1>2, <1>3 DEF IInv, UnaskedBlank, Ordered
<1>6. OwnedOutcome'
  BY <1>1, <1>2 DEF IInv, OwnedOutcome, Ordered
<1>7. RunningHasOwner'
  BY <1>1, <1>2 DEF IInv, RunningHasOwner, Running, InState, Ordered
<1>8. HandedOutOnce'
  BY <1>1, <1>2 DEF IInv, HandedOutOnce, Queued, InState, Ordered
<1>9. StoppedNeverDone'
  BY <1>1, <1>2 DEF IInv, StoppedNeverDone
<1>10. QED BY <1>4, <1>5, <1>6, <1>7, <1>8, <1>9 DEF IInv

LEMMA CancelStep ==
  ASSUME IInv, TypeOK', NEW c \in Callers, NEW i \in Ids, CancelTransfer(c, i)
  PROVE  IInv'
<1>1. /\ UNCHANGED <<task, nextId, orders>>
      /\ at' = [at EXCEPT ![c] = "pump"] /\ at[c] # "dispatch"
  BY DEF CancelTransfer, Goto
<1>2. /\ records[i].state \in {"Queued", "Running"}
      /\ \A j \in Ids :
           /\ records'[j].state =
                IF j = i /\ records[i].state = "Queued" THEN "Canceled"
                ELSE records[j].state
           /\ records'[j].error = records[j].error
      /\ cancel'[i] /\ \A j \in Ids \ {i} : cancel'[j] = cancel[j]
  BY CancelEffect DEF IInv
<1>3. records[i].state = "Queued" => task[i] = "none" /\ ~Ordered(i)
  BY DEF IInv, HandedOutOnce, Queued, InState
<1>4. PumpHeldOnce'
  BY <1>1 DEF IInv, PumpHeldOnce, TypeOK
<1>5. UnaskedBlank'
  BY <1>1, <1>2 DEF IInv, UnaskedBlank, Ordered
<1>6. OwnedOutcome'
  BY <1>1, <1>2, <1>3 DEF IInv, OwnedOutcome, Ordered, LivePhases
<1>7. RunningHasOwner'
  BY <1>1, <1>2 DEF IInv, RunningHasOwner, Running, InState, Ordered
<1>8. HandedOutOnce'
  BY <1>1, <1>2 DEF IInv, HandedOutOnce, Queued, InState, Ordered
<1>9. StoppedNeverDone'
  BY <1>1, <1>2 DEF IInv, StoppedNeverDone
<1>10. QED BY <1>4, <1>5, <1>6, <1>7, <1>8, <1>9 DEF IInv

(* Any action that at most drops settled rows, and moves no flag, task,    *)
(* order or pump.                                                          *)
LEMMA TidyStep ==
  ASSUME IInv, TypeOK', UNCHANGED <<cancel, nextId, task, orders>>,
         \A c \in Callers : at'[c] = "dispatch" <=> at[c] = "dispatch",
         \A i \in Ids :
           \/ records'[i].state = records[i].state /\ records'[i].error = records[i].error
           \/ records[i].state \in SettledStates /\ records'[i].state = "Absent"
  PROVE  IInv'
<1>1. PumpHeldOnce'
  BY DEF IInv, PumpHeldOnce
<1>2. UnaskedBlank'
  BY DEF IInv, UnaskedBlank, Ordered
<1>3. OwnedOutcome'
  BY DEF IInv, OwnedOutcome, Ordered
<1>4. RunningHasOwner'
  BY DEF IInv, RunningHasOwner, Running, InState, Ordered
<1>5. HandedOutOnce'
  BY DEF IInv, HandedOutOnce, Queued, InState, Ordered
<1>6. StoppedNeverDone'
  BY DEF IInv, StoppedNeverDone
<1>7. QED BY <1>1, <1>2, <1>3, <1>4, <1>5, <1>6 DEF IInv

(* A live task moves to another live phase.                                *)
LEMMA PhaseStep ==
  ASSUME IInv, TypeOK', NEW i \in Ids, NEW to \in LivePhases,
         task[i] \in LivePhases, TaskMoves(i, task[i], to)
  PROVE  IInv'
<1>1. /\ UNCHANGED <<records, cancel, nextId, orders, at>>
      /\ \A j \in Ids : task'[j] = IF j = i THEN to ELSE task[j]
  BY DEF TaskMoves, IInv, TypeOK
<1>2. task[i] # "none" /\ to # "none"
  BY DEF LivePhases
<1>3. PumpHeldOnce'
  BY <1>1 DEF IInv, PumpHeldOnce
<1>4. UnaskedBlank'
  BY <1>1, <1>2 DEF IInv, UnaskedBlank, Ordered
<1>5. OwnedOutcome'
  BY <1>1 DEF IInv, OwnedOutcome, Ordered
<1>6. RunningHasOwner'
  BY <1>1 DEF IInv, RunningHasOwner, Running, InState, Ordered
<1>7. HandedOutOnce'
  BY <1>1, <1>2 DEF IInv, HandedOutOnce, Queued, InState, Ordered, TypeOK, StartOrder
<1>8. StoppedNeverDone'
  BY <1>1 DEF IInv, StoppedNeverDone
<1>9. QED BY <1>3, <1>4, <1>5, <1>6, <1>7, <1>8 DEF IInv

LEMMA TaskFinishStep ==
  ASSUME IInv, TypeOK', NEW i \in Ids, TaskFinish(i)
  PROVE  IInv'
<1>1. /\ UNCHANGED <<cancel, nextId, orders, at>>
      /\ task[i] \in {"ok", "error"}
      /\ \A j \in Ids : task'[j] = IF j = i THEN "over" ELSE task[j]
  BY DEF TaskFinish, IInv, TypeOK
<1>2. /\ \A j \in Ids : j # i \/ records[j].state = "Absent" =>
           records'[j].state = records[j].state /\ records'[j].error = records[j].error
      /\ records[i].state # "Absent" =>
           /\ records'[i].state \in SettledStates
           /\ cancel[i] => records'[i].state = "Canceled"
  <2>1. PICK e \in Reasons : records' = Finish(i, e)
    BY DEF TaskFinish, Reasons
  <2>2. \A j \in Ids : j # i \/ records[i].state = "Absent" =>
          records'[j].state = records[j].state /\ records'[j].error = records[j].error
    BY <2>1, FinishEffect DEF IInv
  <2>3. records[i].state # "Absent" =>
          records'[i].state = IF cancel[i] THEN "Canceled"
                              ELSE IF e = "none" THEN "Done" ELSE "Failed"
    BY <2>1, FinishEffect DEF IInv
  <2>4. QED BY <2>2, <2>3 DEF SettledStates
<1>3. ~Ordered(i)
  BY <1>1 DEF IInv, HandedOutOnce, Ordered
<1>4. PumpHeldOnce'
  BY <1>1 DEF IInv, PumpHeldOnce
<1>5. UnaskedBlank'
  BY <1>1, <1>2 DEF IInv, UnaskedBlank, Ordered
<1>6. OwnedOutcome'
  BY <1>1, <1>2, <1>3 DEF IInv, OwnedOutcome, Ordered, LivePhases
<1>7. RunningHasOwner'
  BY <1>1, <1>2 DEF IInv, RunningHasOwner, Running, InState, Ordered, SettledStates
<1>8. HandedOutOnce'
  <2>1. \A o \in orders : o.id \in Ids /\ o.id # i
    BY <1>3 DEF IInv, TypeOK, StartOrder, Ordered
  <2>2. QED BY <1>1, <1>2, <2>1 DEF IInv, HandedOutOnce, Queued, InState, Ordered, SettledStates
<1>9. StoppedNeverDone'
  BY <1>1, <1>2 DEF IInv, StoppedNeverDone
<1>10. QED BY <1>4, <1>5, <1>6, <1>7, <1>8, <1>9 DEF IInv

LEMMA InductiveStep == IInv /\ [Next]_vars => IInv'
<1> SUFFICES ASSUME IInv, [Next]_vars PROVE IInv'
  OBVIOUS
<1>1. TypeOK' /\ TypeOK
  BY TypePreserved DEF IInv
<1>2. ASSUME NEW c \in Callers, Progress(c) PROVE IInv'
  BY <1>1, <1>2, EnqueueStep, ReleaseStep, TakeReadyStep, SpawnStep, DropOrderStep
  DEF Progress
<1>3. ASSUME NEW c \in Callers, Command(c) PROVE IInv'
  <2>1. ASSUME NEW h \in Hosts, Request(c, h) PROVE IInv'
    BY <1>1, <2>1, BystanderStep DEF Request, Goto, TypeOK
  <2>2. ASSUME NEW h \in Hosts, DisconnectHost(c, h) PROVE IInv'
    BY <1>1, <2>2, BystanderStep DEF DisconnectHost, Goto, TypeOK
  <2>3. CASE RequestRefused(c)
    BY <1>1, <2>3, BystanderStep DEF RequestRefused, Goto, TypeOK
  <2>4. ASSUME NEW i \in Ids, CancelTransfer(c, i) PROVE IInv'
    BY <1>1, <2>4, CancelStep
  <2>5. ASSUME NEW i \in Ids, NEW p \in PriorityChoices, SetPriority(c, i, p) PROVE IInv'
    <3>1. \A d \in Callers : at'[d] = "dispatch" <=> at[d] = "dispatch"
      BY <1>1, <2>5 DEF SetPriority, Goto, TypeOK
    <3>2. UNCHANGED <<cancel, nextId, task, orders>>
      BY <2>5 DEF SetPriority
    <3>3. QED BY <1>1, <2>5, <3>1, <3>2, PriorityEffect, TidyStep
  <2>6. CASE RefusedButPumped(c)
    BY <1>1, <2>6, BystanderStep DEF RefusedButPumped, Goto, TypeOK
  <2>7. ASSUME NEW v \in CapChoices, SetMaxConcurrent(c, v) PROVE IInv'
    BY <1>1, <2>7, BystanderStep DEF SetMaxConcurrent, Goto, TypeOK
  <2>8. QED BY <1>3, <2>1, <2>2, <2>3, <2>4, <2>5, <2>6, <2>7 DEF Command, ReapHost
<1>4. CASE Sessions
  BY <1>1, <1>4, BystanderStep DEF Sessions, Connect, PowerHost
<1>5. CASE ClearFinished
  <2>1. UNCHANGED <<cancel, nextId, task, orders, at>>
    BY <1>5 DEF ClearFinished
  <2>2. QED BY <1>1, <1>5, <2>1, ClearEffect, TidyStep
<1>6. ASSUME NEW i \in Ids, TaskStep(i) PROVE IInv'
  <2>1. CASE TaskFinish(i)
    BY <1>1, <2>1, TaskFinishStep
  <2>2. CASE NoticeCancel(i) \/ LastChunk(i) \/ Land(i) \/ IoError(i)
    <3>1. PICK to \in LivePhases : task[i] \in LivePhases /\ TaskMoves(i, task[i], to)
      BY <2>2 DEF NoticeCancel, LastChunk, Land, IoError, TaskMoves, LivePhases
    <3>2. QED BY <1>1, <3>1, PhaseStep
  <2>3. QED BY <1>6, <2>1, <2>2 DEF TaskStep
<1>7. CASE UNCHANGED vars
  BY <1>1, <1>7, BystanderStep DEF vars
<1>8. QED BY <1>2, <1>3, <1>4, <1>5, <1>6, <1>7 DEF Next

(* The inductive invariant holds in every state the queue can reach.       *)
THEOREM Inductive == Spec => []IInv
BY InitInductive, InductiveStep, PTL DEF Spec

(* No progress bar without somebody behind it: every Running row has its   *)
(* task or its start order, with any number of commands in flight.         *)
THEOREM RunningAlwaysOwned == Spec => []RunningHasOwner
<1>1. IInv => RunningHasOwner BY DEF IInv
<1>2. QED BY <1>1, Inductive, PTL

(* No transfer is ever handed to two tasks.                                *)
THEOREM NeverHandedOutTwice == Spec => []HandedOutOnce
<1>1. IInv => HandedOutOnce BY DEF IInv
<1>2. QED BY <1>1, Inductive, PTL

(* A transfer that was asked to stop is never reported as Done.            *)
THEOREM StoppedIsNeverDone == Spec => []StoppedNeverDone
<1>1. IInv => StoppedNeverDone BY DEF IInv
<1>2. QED BY <1>1, Inductive, PTL

-----------------------------------------------------------------------------
(* Outcomes.                                                               *)

FinalStep ==
  \A i \in Settled :
    \/ records'[i].state \in {records[i].state, "Absent"}
    \/ records[i].error = "gone" /\ records'[i].state = "Canceled"

LEMMA FinishIsFinal ==
  ASSUME IInv, NEW i \in Ids, NEW e \in Reasons, records' = Finish(i, e),
         task[i] \in LivePhases \/ Ordered(i)
  PROVE  FinalStep
<1>1. \A j \in Ids : j # i => records'[j].state = records[j].state
  BY FinishEffect DEF IInv
<1>2. records[i].state \in SettledStates => records[i].error = "gone" /\ cancel[i]
  BY DEF IInv, OwnedOutcome, SettledStates
<1>3. records[i].state \in SettledStates => records'[i].state = "Canceled"
  BY <1>2, FinishEffect DEF IInv, SettledStates
<1>4. QED BY <1>1, <1>2, <1>3 DEF FinalStep, Settled, InState

LEMMA StepIsFinal == IInv /\ [Next]_vars => FinalStep
<1> SUFFICES ASSUME IInv, [Next]_vars PROVE FinalStep
  OBVIOUS
<1>1. TypeOK
  BY DEF IInv
<1>2. CASE UNCHANGED records
  BY <1>2 DEF FinalStep
<1>3. ASSUME NEW c \in Callers, Progress(c) PROVE FinalStep
  <2>1. ASSUME NEW p \in PriorityChoices, Enqueue(c, p) PROVE FinalStep
    <3>1. nextId \notin Settled
      BY <1>1, <2>1, EnqueueEffect
      DEF IInv, UnaskedBlank, Settled, InState, SettledStates, Ids
    <3>2. QED BY <1>1, <2>1, <3>1, EnqueueEffect DEF FinalStep, Settled, InState
  <2>2. CASE ReleaseHost(c)
    <3>1. Stranded(target[c]) \cap Settled = {}
      BY DEF Stranded, Pending, Settled, InState, SettledStates
    <3>2. QED BY <1>1, <2>2, <3>1, ReleaseEffect DEF FinalStep, Settled, InState
  <2>3. CASE TakeReady(c)
    <3>1. Chosen \cap Settled = {}
      BY ChosenReady DEF Queued, Settled, InState, SettledStates
    <3>2. QED BY <1>1, <2>3, <3>1, PromoteEffect DEF TakeReady, FinalStep, Settled, InState
  <2>4. ASSUME NEW o \in orders, DropOrder(c, o) PROVE FinalStep
    <3>1. o.id \in Ids /\ Ordered(o.id) /\ records' = Finish(o.id, "gone")
      BY <1>1, <2>4 DEF DropOrder, TypeOK, StartOrder, Ordered
    <3>2. QED BY <3>1, FinishIsFinal DEF Reasons
  <2>5. QED BY <1>2, <1>3, <2>1, <2>2, <2>3, <2>4 DEF Progress, Spawn
<1>4. ASSUME NEW c \in Callers, Command(c) PROVE FinalStep
  <2>1. ASSUME NEW i \in Ids, CancelTransfer(c, i) PROVE FinalStep
    BY <1>1, <2>1, CancelEffect DEF FinalStep, Settled, InState, SettledStates
  <2>2. ASSUME NEW i \in Ids, NEW p \in PriorityChoices, SetPriority(c, i, p) PROVE FinalStep
    BY <1>1, <2>2, PriorityEffect DEF FinalStep, Settled, InState
  <2>3. QED
    BY <1>2, <1>4, <2>1, <2>2
    DEF Command, Request, DisconnectHost, ReapHost, RequestRefused, RefusedButPumped,
        SetMaxConcurrent
<1>5. CASE Sessions
  BY <1>2, <1>5 DEF Sessions, Connect, PowerHost
<1>6. CASE ClearFinished
  BY <1>1, <1>6, ClearEffect DEF FinalStep, Settled, InState
<1>7. ASSUME NEW i \in Ids, TaskStep(i) PROVE FinalStep
  <2>1. CASE TaskFinish(i)
    <3>1. task[i] \in LivePhases /\ \E e \in Reasons : records' = Finish(i, e)
      BY <2>1 DEF TaskFinish, Reasons, LivePhases
    <3>2. QED BY <3>1, FinishIsFinal
  <2>2. QED
    BY <1>2, <1>7, <2>1 DEF TaskStep, NoticeCancel, LastChunk, Land, IoError, TaskMoves
<1>8. QED BY <1>2, <1>3, <1>4, <1>5, <1>6, <1>7 DEF Next, vars

(* A reported outcome changes in one way only: the task of a row fail_host *)
(* has failed ends, and finish turns the row into Canceled.                *)
THEOREM OutcomesAreFinal == Spec => OutcomeIsFinal
<1>1. IInv /\ [Next]_vars =>
        [\A i \in Settled :
           \/ records'[i].state \in {records[i].state, "Absent"}
           \/ records[i].error = "gone" /\ records'[i].state = "Canceled"]_vars
  BY StepIsFinal DEF FinalStep
<1>2. QED BY <1>1, Inductive, PTL DEF Spec, OutcomeIsFinal

-----------------------------------------------------------------------------
(* Ranks.                                                                  *)

(* Ahead orders rows strictly, and no two alike.                           *)
LEMMA AheadIsOrder ==
  ASSUME NEW r \in [Ids -> Record], NEW i \in Ids, NEW j \in Ids
  PROVE  /\ ~Ahead(r, i, i)
         /\ i # j => Ahead(r, i, j) \/ Ahead(r, j, i)
         /\ ~(Ahead(r, i, j) /\ Ahead(r, j, i))
         /\ \A k \in Ids : Ahead(r, i, j) /\ Ahead(r, j, k) => Ahead(r, i, k)
<1>1. /\ \A k \in Ids : k \in Int /\ r[k].priority \in Int
  BY DEF Record, Priorities, Low, Normal, High, Ids
<1>2. QED BY <1>1 DEF Ahead

(* Of two rows the one that is ahead has the lower rank.                   *)
LEMMA RankFollowsAhead ==
  ASSUME NEW r \in [Ids -> Record], NEW S \in SUBSET Ids, NEW i \in S, NEW j \in S
  PROVE  Rank(r, S, i) < Rank(r, S, j) <=> Ahead(r, i, j)
<1> DEFINE before(x) == {k \in S : Ahead(r, k, x)}
<1>1. ASSUME NEW x \in S, NEW y \in S, Ahead(r, x, y)
      PROVE  Rank(r, S, x) < Rank(r, S, y)
  <2>1. before(x) \subseteq before(y)
    BY <1>1, AheadIsOrder
  <2>2. x \in before(y) /\ x \notin before(x)
    BY <1>1, AheadIsOrder
  <2>3. IsFiniteSet(before(x)) /\ IsFiniteSet(before(y))
    BY IdsFinite, FS_Subset
  <2>4. Cardinality(before(x)) \in Nat /\ Cardinality(before(y)) \in Nat
    BY <2>3, FS_CardinalityType
  <2>5. Cardinality(before(x)) <= Cardinality(before(y))
          /\ (Cardinality(before(y)) = Cardinality(before(x)) => before(y) = before(x))
    BY <2>1, <2>3, FS_Subset
  <2> HIDE DEF before
  <2>6. Cardinality(before(x)) < Cardinality(before(y))
    BY <2>2, <2>4, <2>5
  <2>7. QED BY <2>6 DEF Rank, before
<1>2. Rank(r, S, i) \in Nat /\ Rank(r, S, j) \in Nat
  BY RankIsNat
<1>3. CASE i = j
  BY <1>2, <1>3, AheadIsOrder
<1>4. CASE i # j
  BY <1>1, <1>2, <1>4, AheadIsOrder
<1>5. QED BY <1>3, <1>4

LEMMA RankIsBelow ==
  ASSUME NEW r \in [Ids -> Record], NEW S \in SUBSET Ids, NEW i \in S
  PROVE  Rank(r, S, i) \in 0 .. Cardinality(S) - 1
<1> DEFINE before == {k \in S : Ahead(r, k, i)}
<1>1. IsFiniteSet(S) /\ before \in SUBSET S
  BY IdsFinite, FS_Subset
<1>2. i \notin before
  BY AheadIsOrder
<1>3. /\ Cardinality(before) <= Cardinality(S)
      /\ Cardinality(S) = Cardinality(before) => S = before
      /\ Cardinality(S) \in Nat /\ Cardinality(before) \in Nat
  BY <1>1, FS_Subset, FS_CardinalityType
<1> HIDE DEF before
<1>4. Cardinality(before) \in 0 .. Cardinality(S) - 1
  BY <1>2, <1>3
<1>5. QED BY <1>4 DEF Rank, before

(* The ranks within a set are 0, 1, ... with none left out.                *)
LEMMA RanksFill ==
  ASSUME NEW r \in [Ids -> Record], NEW S \in SUBSET Ids
  PROVE  {Rank(r, S, i) : i \in S} = 0 .. Cardinality(S) - 1
<1> DEFINE f == [i \in S |-> Rank(r, S, i)]
           T == 0 .. Cardinality(S) - 1
<1>1. IsFiniteSet(S) /\ Cardinality(S) \in Nat
  BY IdsFinite, FS_Subset, FS_CardinalityType
<1>2. IsFiniteSet(T) /\ Cardinality(T) = Cardinality(S)
  BY <1>1, FS_Interval
<1>3. f \in [S -> T]
  BY RankIsBelow
<1>4. \A i, j \in S : f[i] = f[j] => i = j
  <2>1. SUFFICES ASSUME NEW i \in S, NEW j \in S, Rank(r, S, i) = Rank(r, S, j), i # j
                 PROVE FALSE
    OBVIOUS
  <2>2. Rank(r, S, i) \in Nat
    BY RankIsNat
  <2>3. QED BY <2>1, <2>2, RankFollowsAhead, AheadIsOrder
<1>5. f \in Injection(S, T)
  BY <1>3, <1>4 DEF Injection, IsInjective
<1>6. f \in Surjection(S, T)
  BY <1>2, <1>5, FS_Injection
<1>7. \A n \in T : \E i \in S : f[i] = n
  BY <1>6 DEF Surjection
<1>8. QED BY <1>3, <1>7

-----------------------------------------------------------------------------
(* Places in the queue.                                                    *)

Numbered(r) == {i \in Ids : r[i].position # 0}

Bare(r) == {i \in InState(r, {"Queued"}) : r[i].position = 0}

(* Every number is one more than the rank among the numbered rows, only    *)
(* waiting rows have one, and those without joined after all of them.      *)
Placed(r) ==
  /\ Numbered(r) \subseteq InState(r, {"Queued"})
  /\ \A i \in Bare(r), j \in Numbered(r) : j < i
  /\ \A i \in Numbered(r) : r[i].position = 1 + Rank(r, Numbered(r), i)

(* A rank depends on priorities only.                                      *)
LEMMA RankOfSame ==
  ASSUME NEW r, NEW s, NEW S \in SUBSET Ids, NEW i \in S,
         \A j \in S : s[j].priority = r[j].priority
  PROVE  Rank(s, S, i) = Rank(r, S, i)
<1>1. {j \in S : Ahead(s, j, i)} = {j \in S : Ahead(r, j, i)}
  BY DEF Ahead
<1>2. QED BY <1>1 DEF Rank

(* Whatever was there before, renumber gives every waiting row its place,  *)
(* if no other row shows one.                                              *)
LEMMA RenumberPlaces ==
  ASSUME NEW r \in [Ids -> Record],
         \A i \in Ids : r[i].state # "Queued" => r[i].position = 0
  PROVE  Placed(Renumber(r))
<1> DEFINE queued == InState(r, {"Queued"})
           s == Renumber(r)
<1>1. queued \subseteq Ids BY DEF InState
<1>2. \A i \in Ids : Rank(r, queued, i) \in Nat
  BY <1>1, RankIsNat
<1>3. \A i \in Ids : s[i] = IF i \in queued
                            THEN [r[i] EXCEPT !.position = 1 + Rank(r, queued, i)]
                            ELSE r[i]
  BY DEF Renumber
<1>4. \A i \in Ids : s[i].state = r[i].state /\ s[i].priority = r[i].priority
  BY RenumberKeeps
<1>5. \A i \in queued : s[i].position = 1 + Rank(r, queued, i)
  BY <1>1, <1>3 DEF Record
<1>6. \A i \in Ids \ queued : s[i].position = 0
  BY <1>3 DEF InState
<1>7. InState(s, {"Queued"}) = queued
  BY <1>4 DEF InState
<1> HIDE DEF s, queued
<1>8. Numbered(s) = queued
  BY <1>1, <1>2, <1>5, <1>6 DEF Numbered
<1>9. \A i \in queued : Rank(s, queued, i) = Rank(r, queued, i)
  BY <1>1, <1>4, RankOfSame
<1>10. Bare(s) = {}
  BY <1>7, <1>8 DEF Bare, Numbered
<1>11. QED BY <1>5, <1>7, <1>8, <1>9, <1>10 DEF Placed, s

LEMMA RenumberPlacesAll ==
  ASSUME NEW r \in [Ids -> Record]
  PROVE  AllPlaced(Renumber(r))
<1> DEFINE queued == InState(r, {"Queued"})
           s == Renumber(r)
<1>1. queued \subseteq Ids BY DEF InState
<1>2. \A i \in Ids : s[i] = IF i \in queued
                            THEN [r[i] EXCEPT !.position = 1 + Rank(r, queued, i)]
                            ELSE r[i]
  BY DEF Renumber
<1>3. \A i \in Ids : s[i].state = r[i].state /\ s[i].priority = r[i].priority
  BY RenumberKeeps
<1>4. \A i \in queued : s[i].position = 1 + Rank(r, queued, i)
  BY <1>1, <1>2 DEF Record
<1>5. InState(s, {"Queued"}) = queued
  BY <1>3 DEF InState
<1> HIDE DEF s, queued
<1>6. \A i \in queued : Rank(s, queued, i) = Rank(r, queued, i)
  BY <1>1, <1>3, RankOfSame
<1>7. QED BY <1>4, <1>5, <1>6 DEF AllPlaced, s

(* Rows that show no place may go and change, and come after those that do.*)
LEMMA PlacedUntouched ==
  ASSUME NEW r, NEW s, Placed(r),
         \A i \in Ids : /\ s[i].position = r[i].position
                        /\ r[i].position # 0 => s[i].state = r[i].state
                                                  /\ s[i].priority = r[i].priority,
         \A i \in Bare(s) : i \in Bare(r) \/ \A j \in Numbered(r) : j < i
  PROVE  Placed(s)
<1>1. Numbered(s) = Numbered(r) /\ Numbered(r) \in SUBSET Ids
  BY DEF Numbered
<1>2. \A i \in Numbered(r) : s[i].state = r[i].state /\ s[i].priority = r[i].priority
  BY DEF Numbered
<1>3. \A i \in Numbered(r) : Rank(s, Numbered(r), i) = Rank(r, Numbered(r), i)
  BY <1>1, <1>2, RankOfSame
<1>4. \A i \in Bare(s), j \in Numbered(s) : j < i
  BY <1>1 DEF Placed
<1>5. QED BY <1>1, <1>2, <1>3, <1>4 DEF Placed, Numbered, InState

LEMMA PlacedBare ==
  ASSUME NEW r, Placed(r), NEW i \in Ids, r[i].state # "Queued"
  PROVE  r[i].position = 0
BY DEF Placed, Numbered, InState

LEMMA FinishPlaces ==
  ASSUME TypeOK, Placed(records), NEW i \in Ids, NEW e \in Reasons
  PROVE  Placed(Finish(i, e))
<1> DEFINE state == IF cancel[i] THEN "Canceled"
                    ELSE IF e = "none" THEN "Done" ELSE "Failed"
           error == IF cancel[i] THEN "none" ELSE e
           settled == [records EXCEPT ![i].state = state, ![i].error = error,
                                      ![i].position = 0]
<1>1. state \in States /\ error \in Reasons
  BY DEF States, Reasons
<1>2. Finish(i, e) = IF records[i].state = "Absent" THEN Renumber(records)
                     ELSE Renumber(settled)
  BY DEF Finish
<1> HIDE DEF state, error
<1>3. records \in [Ids -> Record]
  BY DEF TypeOK
<1>4. /\ settled \in [Ids -> Record] /\ settled[i].position = 0
      /\ \A j \in Ids : j # i => settled[j] = records[j]
  BY <1>1, <1>3 DEF Record
<1> HIDE DEF settled
<1>5. QED BY <1>2, <1>3, <1>4, PlacedBare, RenumberPlaces

LEMMA EnqueuePlaces ==
  ASSUME TypeOK, UnaskedBlank, Placed(records),
         NEW c \in Callers, NEW p \in PriorityChoices, Enqueue(c, p)
  PROVE  Placed(records')
<1> DEFINE row == [Blank EXCEPT !.host = target[c], !.priority = p, !.state = "Queued"]
           added == [records EXCEPT ![nextId] = row]
<1>1. /\ records \in [Ids -> Record] /\ nextId \in Ids /\ p \in Priorities
      /\ target[c] \in Hosts \cup {NoHost}
  BY QueueAssumption DEF TypeOK, Enqueue
<1>2. row \in Record /\ row.position = 0 /\ Blank.position = 0
  BY <1>1, BlankType DEF Record, States, Blank
<1>3. records' = PruneHistory(added)
  BY DEF Enqueue
<1> HIDE DEF row
<1>4. /\ added \in [Ids -> Record] /\ added[nextId].position = 0
      /\ \A i \in Ids \ {nextId} : added[i] = records[i]
  BY <1>1, <1>2
<1>5. records[nextId].position = 0
  <2>1. records[nextId].state = "Absent"
    BY <1>1 DEF UnaskedBlank, Ids
  <2>2. QED BY <1>1, <2>1, PlacedBare
<1> HIDE DEF added
<1>6. Placed(added)
  <2>1. \A j \in Numbered(records) : j < nextId
    BY <1>1 DEF Placed, Numbered, InState, UnaskedBlank, Ids
  <2>2. \A i \in Bare(added) : i \in Bare(records) \/ i = nextId
    BY <1>4 DEF Bare, InState
  <2>3. QED BY <1>4, <1>5, <2>1, <2>2, PlacedUntouched
<1>7. \A i \in Ids : added[i].state \in SettledStates => added[i].position = 0
  BY <1>6, PlacedBare DEF SettledStates
<1>8. \A i \in Ids : \/ records'[i] = added[i]
                     \/ added[i].state \in SettledStates /\ records'[i] = Blank
  BY <1>3, <1>4, PruneKeeps
<1>9. \A i \in Bare(records') : i \in Bare(added)
  BY <1>8 DEF Bare, InState, Blank
<1>10. QED BY <1>2, <1>6, <1>7, <1>8, <1>9, PlacedUntouched

LEMMA PromotePlaces == ASSUME TypeOK, Placed(records) PROVE Placed(Promote)
<1> DEFINE promoted == [i \in Ids |->
         IF i \in Chosen THEN [records[i] EXCEPT !.state = "Running", !.position = 0]
         ELSE records[i]]
<1>1. records \in [Ids -> Record] BY DEF TypeOK
<1>2. /\ promoted \in [Ids -> Record]
      /\ \A i \in Ids : \/ promoted[i].position = 0
                        \/ promoted[i] = records[i]
  BY <1>1 DEF Record, States
<1>3. Promote = IF Chosen = {} THEN records ELSE Renumber(promoted)
  BY DEF Promote
<1> HIDE DEF promoted
<1>4. QED BY <1>2, <1>3, PlacedBare, RenumberPlaces

LEMMA ReleasePlaces ==
  ASSUME TypeOK, Placed(records), NEW c \in Callers, ReleaseHost(c)
  PROVE  Placed(records')
<1> DEFINE hit == Stranded(target[c])
           failed == [i \in Ids |->
             IF i \in hit
             THEN [records[i] EXCEPT !.state = "Failed", !.error = "gone", !.position = 0]
             ELSE records[i]]
<1>1. records \in [Ids -> Record] BY DEF TypeOK
<1>2. records' = Renumber(failed)
  BY DEF ReleaseHost
<1> HIDE DEF hit
<1>3. /\ failed \in [Ids -> Record]
      /\ \A i \in Ids : failed[i].position = 0 \/ failed[i] = records[i]
  BY <1>1 DEF Record, States, Reasons
<1> HIDE DEF failed
<1>4. QED BY <1>2, <1>3, PlacedBare, RenumberPlaces

LEMMA CancelPlaces ==
  ASSUME TypeOK, Placed(records), NEW c \in Callers, NEW i \in Ids, CancelTransfer(c, i)
  PROVE  Placed(records')
<1> DEFINE settled == IF i \in Queued
             THEN [records EXCEPT ![i].state = "Canceled", ![i].position = 0]
             ELSE records
<1>1. records \in [Ids -> Record] BY DEF TypeOK
<1>2. records' = Renumber(settled) BY DEF CancelTransfer
<1>3. /\ settled \in [Ids -> Record]
      /\ \A j \in Ids : settled[j].position = 0 \/ settled[j] = records[j]
  BY <1>1 DEF Record, States
<1> HIDE DEF settled
<1>4. QED BY <1>2, <1>3, PlacedBare, RenumberPlaces

LEMMA PriorityPlaces ==
  ASSUME TypeOK, Placed(records), NEW c \in Callers, NEW i \in Ids,
         NEW p \in PriorityChoices, SetPriority(c, i, p)
  PROVE  Placed(records')
<1> DEFINE ranked == [records EXCEPT ![i].priority = p]
<1>1. records \in [Ids -> Record] /\ p \in Priorities
  BY QueueAssumption DEF TypeOK
<1>2. /\ ranked \in [Ids -> Record]
      /\ \A j \in Ids : /\ ranked[j].state = records[j].state
                        /\ ranked[j].position = records[j].position
  BY <1>1 DEF Record
<1>3. records' = Renumber(ranked) BY DEF SetPriority
<1> HIDE DEF ranked
<1>4. QED BY <1>2, <1>3, PlacedBare, RenumberPlaces

LEMMA ClearPlaces == ASSUME Placed(records), ClearFinished PROVE Placed(records')
<1>1. \A i \in Ids : records'[i] = IF i \in Settled THEN Blank ELSE records[i]
  BY DEF ClearFinished
<1>2. \A i \in Ids : i \in Settled => records[i].position = 0
  BY PlacedBare DEF Settled, InState, SettledStates
<1>3. Blank.position = 0 BY DEF Blank
<1>4. \A i \in Bare(records') : i \in Bare(records)
  BY <1>1 DEF Bare, InState, Blank
<1>5. QED BY <1>1, <1>2, <1>3, <1>4, PlacedUntouched

LEMMA PlacedStep == IInv /\ Placed(records) /\ [Next]_vars => Placed(records)'
<1> SUFFICES ASSUME IInv, Placed(records), [Next]_vars PROVE Placed(records')
  OBVIOUS
<1>1. TypeOK /\ UnaskedBlank
  BY DEF IInv
<1>2. CASE UNCHANGED records
  BY <1>2
<1>3. ASSUME NEW c \in Callers, Progress(c) PROVE Placed(records')
  <2>1. ASSUME NEW p \in PriorityChoices, Enqueue(c, p) PROVE Placed(records')
    BY <1>1, <2>1, EnqueuePlaces
  <2>2. CASE ReleaseHost(c)
    BY <1>1, <2>2, ReleasePlaces
  <2>3. CASE TakeReady(c)
    BY <1>1, <2>3, PromotePlaces DEF TakeReady
  <2>4. ASSUME NEW o \in orders, DropOrder(c, o) PROVE Placed(records')
    <3>1. o.id \in Ids /\ records' = Finish(o.id, "gone")
      BY <1>1, <2>4 DEF DropOrder, TypeOK, StartOrder
    <3>2. QED BY <1>1, <3>1, FinishPlaces DEF Reasons
  <2>5. QED BY <1>2, <1>3, <2>1, <2>2, <2>3, <2>4 DEF Progress, Spawn
<1>4. ASSUME NEW c \in Callers, Command(c) PROVE Placed(records')
  <2>1. ASSUME NEW i \in Ids, CancelTransfer(c, i) PROVE Placed(records')
    BY <1>1, <2>1, CancelPlaces
  <2>2. ASSUME NEW i \in Ids, NEW p \in PriorityChoices, SetPriority(c, i, p)
        PROVE  Placed(records')
    BY <1>1, <2>2, PriorityPlaces
  <2>3. QED
    BY <1>2, <1>4, <2>1, <2>2
    DEF Command, Request, DisconnectHost, ReapHost, RequestRefused, RefusedButPumped,
        SetMaxConcurrent
<1>5. CASE Sessions
  BY <1>2, <1>5 DEF Sessions, Connect, PowerHost
<1>6. CASE ClearFinished
  BY <1>6, ClearPlaces
<1>7. ASSUME NEW i \in Ids, TaskStep(i) PROVE Placed(records')
  <2>1. CASE TaskFinish(i)
    <3>1. \E e \in Reasons : records' = Finish(i, e)
      BY <2>1 DEF TaskFinish, Reasons
    <3>2. QED BY <1>1, <3>1, FinishPlaces
  <2>2. QED
    BY <1>2, <1>7, <2>1 DEF TaskStep, NoticeCancel, LastChunk, Land, IoError, TaskMoves
<1>8. QED BY <1>2, <1>3, <1>4, <1>5, <1>6, <1>7 DEF Next, vars

LEMMA PlacedAgree == TypeOK /\ Placed(records) => PlacesAgree
<1> SUFFICES ASSUME TypeOK, Placed(records) PROVE PlacesAgree
  OBVIOUS
<1> DEFINE numbered == {i \in Ids : records[i].position # 0}
<1>1. /\ records \in [Ids -> Record]
      /\ numbered \in SUBSET Ids /\ numbered \subseteq Queued
      /\ \A i \in numbered : records[i].position = 1 + Rank(records, numbered, i)
  BY DEF TypeOK, Placed, Numbered, Queued
<1>2. IsFiniteSet(numbered) /\ Cardinality(numbered) \in Nat
  BY <1>1, IdsFinite, FS_Subset, FS_CardinalityType
<1> HIDE DEF numbered
<1>3. \A i, j \in numbered :
        records[i].position < records[j].position <=> i # j /\ Ahead(records, i, j)
  <2>1. SUFFICES ASSUME NEW i \in numbered, NEW j \in numbered
                 PROVE  records[i].position < records[j].position
                          <=> i # j /\ Ahead(records, i, j)
    OBVIOUS
  <2>2. Rank(records, numbered, i) \in Nat /\ Rank(records, numbered, j) \in Nat
    BY <1>1, RankIsNat
  <2>3. Rank(records, numbered, i) < Rank(records, numbered, j) <=> Ahead(records, i, j)
    BY <1>1, RankFollowsAhead
  <2>4. i = j => ~Ahead(records, i, j)
    BY <1>1, AheadIsOrder
  <2>5. QED BY <1>1, <2>2, <2>3, <2>4
<1>4. {records[i].position : i \in numbered} = 1 .. Cardinality(numbered)
  <2>1. {Rank(records, numbered, i) : i \in numbered} = 0 .. Cardinality(numbered) - 1
    BY <1>1, RanksFill
  <2>2. \A n \in 1 .. Cardinality(numbered) : n - 1 \in 0 .. Cardinality(numbered) - 1
    BY <1>2
  <2>3. \A i \in numbered : Rank(records, numbered, i) \in 0 .. Cardinality(numbered) - 1
    BY <2>1
  <2>4. \A n \in 1 .. Cardinality(numbered) : \E i \in numbered : records[i].position = n
    <3>1. SUFFICES ASSUME NEW n \in 1 .. Cardinality(numbered)
                   PROVE  \E i \in numbered : records[i].position = n
      OBVIOUS
    <3>2. PICK i \in numbered : Rank(records, numbered, i) = n - 1
      BY <2>1, <2>2
    <3>3. QED BY <1>1, <3>2
  <2>5. \A i \in numbered : records[i].position \in 1 .. Cardinality(numbered)
    BY <1>1, <1>2, <2>3
  <2>6. QED BY <2>4, <2>5
<1>5. \A i \in Queued \ numbered, j \in numbered : j < i
  BY DEF Placed, Bare, Numbered, Queued, InState, numbered
<1>6. QED BY <1>1, <1>3, <1>4, <1>5 DEF PlacesAgree, numbered

-----------------------------------------------------------------------------
(* A step numbers every waiting row, or leaves those that wait as they are.*)

Renumbers == \E r \in [Ids -> Record] : records' = Renumber(r)
LeavesTheLine == \A i \in Queued : records'[i] = records[i]

LEMMA FinishRenumbers ==
  ASSUME TypeOK, NEW i \in Ids, NEW e \in Reasons, records' = Finish(i, e)
  PROVE  Renumbers
<1> DEFINE state == IF cancel[i] THEN "Canceled"
                    ELSE IF e = "none" THEN "Done" ELSE "Failed"
           error == IF cancel[i] THEN "none" ELSE e
           settled == [records EXCEPT ![i].state = state, ![i].error = error,
                                      ![i].position = 0]
<1>1. state \in States /\ error \in Reasons
  BY DEF States, Reasons
<1>2. \/ records' = Renumber(records)
      \/ records' = Renumber(settled)
  BY DEF Finish
<1> HIDE DEF state, error
<1>3. records \in [Ids -> Record]
  BY DEF TypeOK
<1>4. settled \in [Ids -> Record]
  BY <1>1, <1>3 DEF Record
<1> HIDE DEF settled
<1>5. QED BY <1>2, <1>3, <1>4 DEF Renumbers

LEMMA ProgressPlaces ==
  ASSUME TypeOK, UnaskedBlank, NEW c \in Callers, Progress(c)
  PROVE  Renumbers \/ LeavesTheLine
<1>1. records \in [Ids -> Record] BY DEF TypeOK
<1>2. ASSUME NEW p \in PriorityChoices, Enqueue(c, p) PROVE LeavesTheLine
  <2> DEFINE row == [Blank EXCEPT !.host = target[c], !.priority = p, !.state = "Queued"]
             added == [records EXCEPT ![nextId] = row]
  <2>1. nextId \in Ids /\ p \in Priorities /\ target[c] \in Hosts \cup {NoHost}
    BY <1>2, QueueAssumption DEF TypeOK, Enqueue
  <2>2. row \in Record
    BY <2>1, BlankType DEF Record, States, Blank
  <2>3. records' = PruneHistory(added)
    BY <1>2 DEF Enqueue
  <2> HIDE DEF row
  <2>4. added \in [Ids -> Record] /\ \A i \in Ids \ {nextId} : added[i] = records[i]
    BY <1>1, <2>1, <2>2
  <2>5. records[nextId].state = "Absent"
    BY <2>1 DEF UnaskedBlank, Ids
  <2> HIDE DEF added
  <2>6. \A i \in Queued : i \in Ids /\ added[i] = records[i] /\ records[i].state = "Queued"
    BY <2>4, <2>5 DEF Queued, InState
  <2>7. \A i \in Ids : records'[i] = added[i] \/ added[i].state \in SettledStates
    BY <2>3, <2>4, PruneKeeps
  <2>8. QED BY <2>6, <2>7 DEF LeavesTheLine, SettledStates
<1>3. CASE ReleaseHost(c)
  <2> DEFINE failed == [i \in Ids |->
               IF i \in Stranded(target[c])
               THEN [records[i] EXCEPT !.state = "Failed", !.error = "gone", !.position = 0]
               ELSE records[i]]
  <2>1. failed \in [Ids -> Record]
    BY <1>1 DEF Record, States, Reasons
  <2>2. records' = Renumber(failed)
    BY <1>3 DEF ReleaseHost
  <2> HIDE DEF failed
  <2>3. QED BY <2>1, <2>2 DEF Renumbers
<1>4. CASE TakeReady(c)
  <2> DEFINE promoted == [i \in Ids |->
           IF i \in Chosen THEN [records[i] EXCEPT !.state = "Running", !.position = 0]
           ELSE records[i]]
  <2>1. promoted \in [Ids -> Record]
    BY <1>1 DEF Record, States
  <2>2. records' = records \/ records' = Renumber(promoted)
    BY <1>4 DEF TakeReady, Promote
  <2> HIDE DEF promoted
  <2>3. QED BY <2>1, <2>2 DEF Renumbers, LeavesTheLine
<1>5. ASSUME NEW o \in orders, DropOrder(c, o) PROVE Renumbers
  <2>1. o.id \in Ids /\ records' = Finish(o.id, "gone")
    BY <1>5 DEF DropOrder, TypeOK, StartOrder
  <2>2. QED BY <2>1, FinishRenumbers DEF Reasons
<1>6. QED BY <1>2, <1>3, <1>4, <1>5 DEF Progress, Spawn, LeavesTheLine

LEMMA CommandPlaces ==
  ASSUME TypeOK, NEW c \in Callers, Command(c)
  PROVE  Renumbers \/ LeavesTheLine
<1>1. records \in [Ids -> Record] BY DEF TypeOK
<1>2. ASSUME NEW i \in Ids, CancelTransfer(c, i) PROVE Renumbers
  <2> DEFINE settled == IF i \in Queued
               THEN [records EXCEPT ![i].state = "Canceled", ![i].position = 0]
               ELSE records
  <2>1. settled \in [Ids -> Record]
    BY <1>1 DEF Record, States
  <2>2. records' = Renumber(settled)
    BY <1>2 DEF CancelTransfer
  <2> HIDE DEF settled
  <2>3. QED BY <2>1, <2>2 DEF Renumbers
<1>3. ASSUME NEW i \in Ids, NEW p \in PriorityChoices, SetPriority(c, i, p) PROVE Renumbers
  <2> DEFINE ranked == [records EXCEPT ![i].priority = p]
  <2>1. ranked \in [Ids -> Record]
    BY <1>1, QueueAssumption DEF Record
  <2>2. records' = Renumber(ranked)
    BY <1>3 DEF SetPriority
  <2> HIDE DEF ranked
  <2>3. QED BY <2>1, <2>2 DEF Renumbers
<1>4. QED
  BY <1>2, <1>3
  DEF Command, Request, DisconnectHost, ReapHost, RequestRefused, RefusedButPumped,
      SetMaxConcurrent, LeavesTheLine

LEMMA PlacesStep ==
  IInv /\ [Next]_vars => AllPlaced(records)' \/ LeavesTheLine
<1> SUFFICES ASSUME IInv, [Next]_vars PROVE AllPlaced(records') \/ LeavesTheLine
  BY DEF AllPlaced, InState, Rank, Ahead
<1>1. TypeOK /\ UnaskedBlank
  BY DEF IInv
<1>2. Renumbers => AllPlaced(records')
  BY RenumberPlacesAll DEF Renumbers
<1>3. ASSUME NEW c \in Callers, Progress(c) \/ Command(c) PROVE Renumbers \/ LeavesTheLine
  BY <1>1, <1>3, ProgressPlaces, CommandPlaces
<1>4. CASE ClearFinished
  <2>1. \A i \in Queued : i \in Ids /\ i \notin Settled
    BY DEF Queued, Settled, InState, SettledStates
  <2>2. QED BY <1>4, <2>1 DEF ClearFinished, LeavesTheLine
<1>5. ASSUME NEW i \in Ids, TaskStep(i) PROVE Renumbers \/ LeavesTheLine
  <2>1. CASE TaskFinish(i)
    <3>1. \E e \in Reasons : records' = Finish(i, e)
      BY <2>1 DEF TaskFinish, Reasons
    <3>2. QED BY <1>1, <3>1, FinishRenumbers
  <2>2. QED
    BY <1>5, <2>1
    DEF TaskStep, NoticeCancel, LastChunk, Land, IoError, TaskMoves, LeavesTheLine
<1>6. CASE Sessions
  BY <1>6 DEF Sessions, Connect, PowerHost, LeavesTheLine
<1>7. CASE UNCHANGED vars
  BY <1>7 DEF vars, LeavesTheLine
<1>8. QED BY <1>2, <1>3, <1>4, <1>5, <1>6, <1>7 DEF Next

(* The numbers beside waiting rows are 1..k in the scheduler's order, only *)
(* later rows wait without one, and whatever takes a waiting row out of    *)
(* the line or changes its rank numbers all that wait (renumber and all    *)
(* its callers).                                                           *)
THEOREM PlacesAlwaysInOrder == Spec => PlacesInOrder
<1>1. Init => Placed(records)
  BY DEF Init, InitWith, Placed, Numbered, Bare, InState, Blank
<1>2. IInv => TypeOK
  BY DEF IInv
<1>3. IInv /\ [Next]_vars =>
        [AllPlaced(records') \/ \A i \in Queued : records'[i] = records[i]]_vars
  BY PlacesStep DEF AllPlaced, InState, Rank, Ahead, LeavesTheLine
<1>4. QED
  BY <1>1, <1>2, <1>3, PlacedStep, PlacedAgree, Inductive, PTL DEF Spec, PlacesInOrder

-----------------------------------------------------------------------------
(* The contract.  Its line, its slots and its history are the queue's own  *)
(* rows by state; each step is one of its steps, or none.                  *)

MappedLine == [i \in Queued |-> records[i].priority]
MappedVars == <<MappedLine, Running, Settled, 1 .. nextId - 1, maxConcurrent>>

LEMMA StatesApart ==
  /\ Queued \subseteq Ids /\ Running \subseteq Ids /\ Settled \subseteq Ids
  /\ Queued \cap Running = {} /\ Queued \cap Settled = {} /\ Running \cap Settled = {}
BY DEF Queued, Running, Settled, InState, SettledStates

(* Nothing the contract sees has changed: rows kept their state, or went   *)
(* from one outcome to another, and waiting rows their priority.           *)
LEMMA UnseenStep ==
  ASSUME UNCHANGED <<nextId, maxConcurrent>>,
         \A i \in Ids : /\ \/ records'[i].state = records[i].state
                           \/ {records[i].state, records'[i].state} \subseteq SettledStates
                        /\ records'[i].priority = records[i].priority
  PROVE  UNCHANGED MappedVars
<1>1. \A i \in Ids : /\ records'[i].state = "Queued" <=> records[i].state = "Queued"
                     /\ records'[i].state = "Running" <=> records[i].state = "Running"
                     /\ records'[i].state \in SettledStates
                          <=> records[i].state \in SettledStates
  BY DEF SettledStates
<1>2. Queued' = Queued /\ Running' = Running /\ Settled' = Settled
  BY <1>1 DEF Queued, Running, Settled, InState
<1>3. MappedLine' = MappedLine
  BY <1>2, StatesApart DEF MappedLine
<1>4. QED BY <1>2, <1>3 DEF MappedVars

(* The contract counts as the queue does.                                  *)
LEMMA SameCount == \A S : Contract!Cardinality(S) = Cardinality(S)
BY DEF Contract!Cardinality, Cardinality

LEMMA LineShrinks ==
  ASSUME NEW S, Queued' = Queued \ S,
         \A i \in Queued \ S : records'[i].priority = records[i].priority
  PROVE  MappedLine' = Contract!LineWithout(S)
BY DEF MappedLine, Contract!LineWithout, Contract!Waiting

(* Pending rows got their outcome.                                         *)
LEMMA SettleStep ==
  ASSUME NEW S, S # {}, S \subseteq Queued \cup Running,
         UNCHANGED <<nextId, maxConcurrent>>,
         \A i \in Ids : /\ IF i \in S THEN records'[i].state \in SettledStates
                           ELSE records'[i].state = records[i].state
                        /\ records'[i].priority = records[i].priority
  PROVE  Contract!Next
<1>1. /\ Queued' = Queued \ S /\ Running' = Running \ S /\ Settled' = Settled \cup S
  BY DEF Queued, Running, Settled, InState, SettledStates
<1>2. MappedLine' = Contract!LineWithout(S)
  BY <1>1, StatesApart, LineShrinks
<1>3. Contract!Waiting = Queued
  BY DEF Contract!Waiting
<1>4. Contract!Settle(S)
  BY <1>1, <1>2, <1>3 DEF Contract!Settle, MappedLine
<1>5. S \in SUBSET (Contract!Waiting \cup Running)
  BY <1>3
<1>6. QED BY <1>4, <1>5 DEF Contract!Next

(* enqueue: the new row joins the line, and settled rows may be dropped.   *)
LEMMA SubmitStep ==
  ASSUME IInv, NEW c \in Callers, NEW p \in PriorityChoices, Enqueue(c, p)
  PROVE  Contract!Next
<1> DEFINE F == {i \in Settled : records'[i].state = "Absent"}
<1>1. /\ nextId \in Ids /\ nextId' = nextId + 1 /\ maxConcurrent' = maxConcurrent
      /\ records[nextId].state = "Absent"
      /\ p \in Priorities
  <2>1. nextId \in Ids /\ nextId' = nextId + 1 /\ maxConcurrent' = maxConcurrent
    BY DEF Enqueue
  <2>2. nextId >= nextId
    BY <2>1 DEF Ids
  <2>3. QED BY <2>1, <2>2, QueueAssumption DEF IInv, UnaskedBlank
<1>2. /\ records'[nextId].state = "Queued" /\ records'[nextId].priority = p
      /\ \A i \in Ids \ {nextId} :
           \/ records'[i] = records[i]
           \/ records[i].state \in SettledStates /\ records'[i].state = "Absent"
  BY EnqueueEffect DEF IInv
<1>3. Queued' = Queued \cup {nextId} /\ Running' = Running
  BY <1>1, <1>2 DEF Queued, Running, InState, SettledStates
<1>4. Settled' = Settled \ F
  BY <1>1, <1>2 DEF Settled, InState, SettledStates
<1>5. \A i \in Queued : i # nextId /\ records'[i] = records[i]
  BY <1>1, <1>2 DEF Queued, InState, SettledStates
<1>6. MappedLine' = [j \in Queued \cup {nextId} |->
                       IF j = nextId THEN p ELSE MappedLine[j]]
  BY <1>2, <1>3, <1>5 DEF MappedLine
<1>7. /\ nextId \notin 1 .. nextId - 1 /\ \A j \in Ids : j < nextId => j \in 1 .. nextId - 1
      /\ 1 .. nextId' - 1 = (1 .. nextId - 1) \cup {nextId}
  BY <1>1 DEF Ids
<1>8. F \in SUBSET Settled
  OBVIOUS
<1> HIDE DEF F
<1>9. PICK n \in Ids : n = nextId
  BY <1>1
<1>10. PICK G \in SUBSET Settled : G = F
  BY <1>8
<1>11. Contract!Submit(n, p, G)
  BY <1>1, <1>3, <1>4, <1>6, <1>7, <1>9, <1>10
  DEF Contract!Submit, Contract!Waiting, MappedLine
<1>12. QED BY <1>1, <1>11 DEF Contract!Next

(* What take_ready picks: the best of what is ready, as many as fit, and   *)
(* all of them if they fit.                                                *)
LEMMA ChosenAreBest ==
  ASSUME TypeOK, Chosen # {}
  PROVE  /\ Cardinality(Running \cup Chosen) <= maxConcurrent
         /\ \A i \in Chosen, j \in Ready \ Chosen : Ahead(records, i, j)
         /\ Chosen = Ready \/ Cardinality(Running \cup Chosen) = maxConcurrent
<1>1. /\ records \in [Ids -> Record] /\ Ready \in SUBSET Ids /\ Chosen \in SUBSET Ready
      /\ Ready \subseteq Queued /\ Chosen \in SUBSET Ids /\ maxConcurrent \in Int
  BY ChosenReady, QueueAssumption DEF TypeOK
<1>2. /\ IsFiniteSet(Running) /\ IsFiniteSet(Chosen) /\ IsFiniteSet(Ready)
      /\ Cardinality(Running) \in Nat /\ Cardinality(Chosen) \in Nat
      /\ Cardinality(Ready) \in Nat
  BY <1>1, StatesApart, IdsFinite, FS_Subset, FS_CardinalityType
<1>3. FreeSlots \in Int
  BY <1>1, <1>2 DEF FreeSlots
<1>4. \A i \in Ready : /\ Rank(records, Ready, i) \in 0 .. Cardinality(Ready) - 1
                       /\ i \in Chosen <=> Rank(records, Ready, i) < FreeSlots
  BY <1>1, RankIsBelow DEF Chosen
<1>5. \A i \in Chosen, j \in Ready \ Chosen : Ahead(records, i, j)
  <2>1. SUFFICES ASSUME NEW i \in Chosen, NEW j \in Ready \ Chosen
                 PROVE  Ahead(records, i, j)
    OBVIOUS
  <2>2. Rank(records, Ready, i) < Rank(records, Ready, j)
    BY <1>1, <1>3, <1>4
  <2>3. QED BY <1>1, <2>2, RankFollowsAhead
(* A chosen row has the same rank among the chosen.                        *)
<1>6. \A i \in Chosen : Rank(records, Chosen, i) = Rank(records, Ready, i)
  <2>1. SUFFICES ASSUME NEW i \in Chosen
                 PROVE  Rank(records, Chosen, i) = Rank(records, Ready, i)
    OBVIOUS
  <2>2. {j \in Chosen : Ahead(records, j, i)} = {j \in Ready : Ahead(records, j, i)}
    BY <1>1, <1>5, AheadIsOrder
  <2>3. QED BY <2>2 DEF Rank
<1>7. {Rank(records, Chosen, i) : i \in Chosen} = 0 .. Cardinality(Chosen) - 1
  BY <1>1, RanksFill
<1>8. {Rank(records, Ready, i) : i \in Ready} = 0 .. Cardinality(Ready) - 1
  BY <1>1, RanksFill
<1>9. Cardinality(Chosen) # 0
  BY <1>2, FS_EmptySet
<1>10. Cardinality(Chosen) <= FreeSlots
  <2>1. PICK i \in Chosen : Rank(records, Chosen, i) = Cardinality(Chosen) - 1
    BY <1>2, <1>7, <1>9
  <2>2. QED BY <1>1, <1>2, <1>3, <1>4, <1>6, <2>1
<1>11. Chosen = Ready \/ Cardinality(Chosen) = FreeSlots
  <2>1. SUFFICES ASSUME Chosen # Ready PROVE Cardinality(Chosen) >= FreeSlots
    BY <1>2, <1>3, <1>10
  <2>2. PICK j \in Ready : j \notin Chosen
    BY <1>1, <2>1
  <2>3. FreeSlots <= Cardinality(Ready) - 1
    BY <1>2, <1>3, <1>4, <2>2
  <2>4. FreeSlots - 1 \in 0 .. Cardinality(Ready) - 1
    BY <1>2, <1>3, <1>9, <1>10, <2>3
  <2>5. PICK i \in Ready : Rank(records, Ready, i) = FreeSlots - 1
    BY <1>8, <2>4
  <2>6. i \in Chosen
    BY <1>3, <1>4, <2>5
  <2>7. FreeSlots - 1 \in 0 .. Cardinality(Chosen) - 1
    BY <1>6, <1>7, <2>5, <2>6
  <2>8. QED BY <1>2, <1>3, <2>7
<1>12. Cardinality(Running \cup Chosen) = Cardinality(Running) + Cardinality(Chosen)
  <2>1. Running \cap Chosen = {}
    BY <1>1, StatesApart
  <2>2. Cardinality(Running \cup Chosen)
          = Cardinality(Running) + Cardinality(Chosen) - Cardinality({})
    BY <1>2, <2>1, FS_Union
  <2>3. QED BY <1>2, <2>2, FS_EmptySet
<1>13. QED BY <1>1, <1>2, <1>5, <1>10, <1>11, <1>12 DEF FreeSlots

LEMMA GrantStep ==
  ASSUME IInv, NEW c \in Callers, TakeReady(c), Chosen # {}
  PROVE  Contract!Next
<1>1. /\ TypeOK /\ UNCHANGED <<nextId, maxConcurrent>>
      /\ \A i \in Ids :
           /\ records'[i].state = IF i \in Chosen THEN "Running" ELSE records[i].state
           /\ records'[i].priority = records[i].priority
  BY PromoteEffect DEF TakeReady, IInv
<1>2. Chosen \subseteq Ready /\ Ready \subseteq Queued /\ Queued \subseteq Ids
  BY ChosenReady
<1>3. /\ Queued' = Queued \ Chosen /\ Running' = Running \cup Chosen /\ Settled' = Settled
  BY <1>1, <1>2 DEF Queued, Running, Settled, InState, SettledStates
<1>4. Contract!Waiting = Queued
  BY DEF Contract!Waiting
<1>5. \A i, j \in Queued : Ahead(records, i, j) => Contract!Before(i, j)
  BY DEF Ahead, Contract!Before
<1>6. PICK E \in SUBSET Contract!Waiting : E = Ready
  BY <1>2, <1>4
<1>7. PICK G \in SUBSET E : G = Chosen
  BY <1>2, <1>6
<1>8. MappedLine' = Contract!LineWithout(G)
  BY <1>1, <1>2, <1>3, <1>7, LineShrinks
<1>9. Contract!Grant(E, G)
  BY <1>1, <1>2, <1>3, <1>4, <1>5, <1>6, <1>7, <1>8, ChosenAreBest, SameCount
  DEF Contract!Grant, MappedLine
<1>10. QED BY <1>6, <1>7, <1>9 DEF Contract!Next

(* finish: a running row settles; to one that fail_host has settled, or    *)
(* that has been cleared away, nothing happens that the contract sees.     *)
LEMMA FinishContract ==
  ASSUME IInv, NEW i \in Ids, task[i] \in LivePhases \/ Ordered(i), NEW e \in Reasons,
         records' = Finish(i, e), UNCHANGED <<nextId, maxConcurrent>>
  PROVE  Contract!Next \/ UNCHANGED MappedVars
<1>1. /\ \A j \in Ids : /\ j # i \/ records[i].state = "Absent" =>
                             records'[j].state = records[j].state
                        /\ records'[j].priority = records[j].priority
      /\ records[i].state # "Absent" => records'[i].state \in SettledStates
  BY FinishEffect DEF IInv, SettledStates
<1>2. records[i].state \in {"Running", "Absent", "Failed"}
  BY DEF IInv, OwnedOutcome
<1>3. CASE records[i].state = "Running"
  <2>1. {i} \subseteq Queued \cup Running
    BY <1>3 DEF Running, InState
  <2>2. \A j \in Ids : /\ IF j \in {i} THEN records'[j].state \in SettledStates
                          ELSE records'[j].state = records[j].state
                       /\ records'[j].priority = records[j].priority
    BY <1>1, <1>3
  <2>3. QED BY <2>1, <2>2, SettleStep
<1>4. CASE records[i].state # "Running"
  <2>1. \A j \in Ids : \/ records'[j].state = records[j].state
                       \/ {records[j].state, records'[j].state} \subseteq SettledStates
    BY <1>1, <1>2, <1>4 DEF SettledStates
  <2>2. QED BY <1>1, <2>1, UnseenStep
<1>5. QED BY <1>3, <1>4

LEMMA RerankStep ==
  ASSUME TypeOK, NEW c \in Callers, NEW i \in Ids, NEW p \in PriorityChoices,
         SetPriority(c, i, p)
  PROVE  Contract!Next
<1>1. /\ i \in Queued /\ UNCHANGED <<nextId, maxConcurrent>> /\ p \in Priorities
      /\ \A j \in Ids : /\ records'[j].state = records[j].state
                        /\ records'[j].priority = IF j = i THEN p ELSE records[j].priority
  BY PriorityEffect, QueueAssumption DEF SetPriority
<1>2. Queued' = Queued /\ Running' = Running /\ Settled' = Settled
  BY <1>1 DEF Queued, Running, Settled, InState
<1>3. MappedLine' = [MappedLine EXCEPT ![i] = p]
  BY <1>1, <1>2, StatesApart DEF MappedLine
<1>4. Contract!Rerank(i, p)
  BY <1>1, <1>2, <1>3 DEF Contract!Rerank, Contract!Waiting, MappedLine
<1>5. QED BY <1>1, <1>4 DEF Contract!Next

LEMMA ResizeStep ==
  ASSUME NEW c \in Callers, NEW v \in CapChoices, SetMaxConcurrent(c, v)
  PROVE  Contract!Next
<1>1. /\ UNCHANGED <<records, nextId>>
      /\ maxConcurrent' \in MinConcurrent .. MaxConcurrentCap
  BY QueueAssumption DEF SetMaxConcurrent, Clamp
<1>2. Contract!Resize(maxConcurrent')
  BY <1>1 DEF Contract!Resize, Queued, Running, Settled, InState
<1>3. QED BY <1>1, <1>2 DEF Contract!Next

LEMMA ForgetStep == ASSUME TypeOK, ClearFinished PROVE Contract!Next
<1>1. /\ Settled # {} /\ UNCHANGED <<nextId, maxConcurrent>>
      /\ \A i \in Ids :
           \/ records'[i] = records[i] /\ records[i].state \notin SettledStates
           \/ records[i].state \in SettledStates /\ records'[i].state = "Absent"
  BY ClearEffect DEF ClearFinished
<1>2. Queued' = Queued /\ Running' = Running /\ Settled' = Settled \ Settled
  BY <1>1 DEF Queued, Running, Settled, InState, SettledStates
<1>3. MappedLine' = MappedLine
  BY <1>1, <1>2 DEF MappedLine, Queued, InState, SettledStates
<1>4. Contract!Forget(Settled)
  BY <1>1, <1>2, <1>3 DEF Contract!Forget, MappedLine
<1>5. QED BY <1>4 DEF Contract!Next

LEMMA StepKeepsContract ==
  IInv /\ [Next]_vars => Contract!Next \/ UNCHANGED MappedVars
<1> DEFINE Goal == Contract!Next \/ UNCHANGED MappedVars
<1> SUFFICES ASSUME IInv, [Next]_vars PROVE Goal
  OBVIOUS
<1>1. TypeOK
  BY DEF IInv
<1>2. CASE UNCHANGED <<records, nextId, maxConcurrent>>
  BY <1>2, UnseenStep
<1>3. ASSUME NEW c \in Callers, Progress(c) PROVE Goal
  <2>1. ASSUME NEW p \in PriorityChoices, Enqueue(c, p) PROVE Goal
    BY <2>1, SubmitStep
  <2>2. CASE ReleaseHost(c)
    <3> UNCHANGED <<nextId, maxConcurrent>>
      BY <2>2 DEF ReleaseHost
    <3>1. \A i \in Ids :
            /\ records'[i].state = IF i \in Stranded(target[c]) THEN "Failed"
                                   ELSE records[i].state
            /\ records'[i].priority = records[i].priority
      BY <1>1, <2>2, ReleaseEffect
    <3>2. Stranded(target[c]) \subseteq Queued \cup Running
      BY DEF Stranded, Pending, Queued, Running, InState
    <3>3. CASE Stranded(target[c]) = {}
      BY <3>1, <3>3, UnseenStep
    <3>4. CASE Stranded(target[c]) # {}
      BY <3>1, <3>2, <3>4, SettleStep DEF SettledStates
    <3>5. QED BY <3>3, <3>4
  <2>3. CASE TakeReady(c)
    <3>1. CASE Chosen = {}
      BY <1>2, <2>3, <3>1 DEF TakeReady, Promote
    <3>2. CASE Chosen # {}
      BY <2>3, <3>2, GrantStep
    <3>3. QED BY <3>1, <3>2
  <2>4. ASSUME NEW o \in orders, DropOrder(c, o) PROVE Goal
    <3>1. /\ o.id \in Ids /\ Ordered(o.id) /\ records' = Finish(o.id, "gone")
          /\ UNCHANGED <<nextId, maxConcurrent>>
      BY <1>1, <2>4 DEF DropOrder, TypeOK, StartOrder, Ordered
    <3>2. QED BY <3>1, FinishContract DEF Reasons
  <2>5. QED BY <1>2, <1>3, <2>1, <2>2, <2>3, <2>4 DEF Progress, Spawn
<1>4. ASSUME NEW c \in Callers, Command(c) PROVE Goal
  <2>1. ASSUME NEW i \in Ids, CancelTransfer(c, i) PROVE Goal
    <3> UNCHANGED <<nextId, maxConcurrent>>
      BY <2>1 DEF CancelTransfer
    <3>1. /\ records[i].state \in {"Queued", "Running"}
          /\ \A j \in Ids :
               /\ records'[j].state = IF j = i /\ records[i].state = "Queued"
                                      THEN "Canceled" ELSE records[j].state
               /\ records'[j].priority = records[j].priority
      BY <1>1, <2>1, CancelEffect
    <3>2. CASE records[i].state = "Queued"
      <4>1. {i} \subseteq Queued \cup Running
        BY <3>2 DEF Queued, InState
      <4>2. \A j \in Ids : /\ IF j \in {i} THEN records'[j].state \in SettledStates
                              ELSE records'[j].state = records[j].state
                           /\ records'[j].priority = records[j].priority
        BY <3>1, <3>2 DEF SettledStates
      <4>3. QED BY <3>1, <4>1, <4>2, SettleStep
    <3>3. CASE records[i].state # "Queued"
      BY <3>1, <3>3, UnseenStep
    <3>4. QED BY <3>2, <3>3
  <2>2. ASSUME NEW i \in Ids, NEW p \in PriorityChoices, SetPriority(c, i, p) PROVE Goal
    BY <1>1, <2>2, RerankStep
  <2>3. ASSUME NEW v \in CapChoices, SetMaxConcurrent(c, v) PROVE Goal
    BY <2>3, ResizeStep
  <2>4. QED
    BY <1>2, <1>4, <2>1, <2>2, <2>3
    DEF Command, Request, DisconnectHost, ReapHost, RequestRefused, RefusedButPumped
<1>5. CASE Sessions
  BY <1>2, <1>5 DEF Sessions, Connect, PowerHost
<1>6. CASE ClearFinished
  BY <1>1, <1>6, ForgetStep
<1>7. ASSUME NEW i \in Ids, TaskStep(i) PROVE Goal
  <2>1. CASE TaskFinish(i)
    <3>1. /\ task[i] \in LivePhases /\ UNCHANGED <<nextId, maxConcurrent>>
          /\ \E e \in Reasons : records' = Finish(i, e)
      BY <2>1 DEF TaskFinish, Reasons, LivePhases
    <3>2. QED BY <3>1, FinishContract
  <2>2. QED
    BY <1>2, <1>7, <2>1 DEF TaskStep, NoticeCancel, LastChunk, Land, IoError, TaskMoves
<1>8. QED BY <1>2, <1>3, <1>4, <1>5, <1>6, <1>7 DEF Next, vars

(* The queue keeps its contract: slots go to the best of the waiting       *)
(* transfers that have a session, never past the cap and none withheld;    *)
(* outcomes are not taken back, and only settled rows disappear.           *)
THEOREM QueueKeepsContract == Spec => KeepsContract
<1>1. Init => Contract!Init
  <2>1. ASSUME Init PROVE Queued = {} /\ Running = {} /\ Settled = {} /\ 1 .. nextId - 1 = {}
    BY <2>1 DEF Init, InitWith, Blank, Queued, Running, Settled, InState, SettledStates
  <2>2. QED BY <2>1 DEF Init, InitWith, Contract!Init
<1>2. IInv /\ [Next]_vars => [Contract!Next]_MappedVars
  BY StepKeepsContract
<1>3. QED
  BY <1>1, <1>2, Inductive, PTL
  DEF Spec, KeepsContract, Contract!Spec, MappedVars, MappedLine
==============================================================================

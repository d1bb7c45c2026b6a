--------------------------- MODULE TransferQueue ---------------------------
(***************************************************************************)
(* The app-wide file transfer queue of ParolaSSH and everything that acts  *)
(* on it concurrently: TransferManager (remote/transfers.rs), the command  *)
(* handlers that feed and pump it (remote/commands.rs), the task that runs *)
(* one transfer (remote/transfer_task.rs) and the membership of the        *)
(* session registry, which decides what may start.                         *)
(*                                                                         *)
(* TransferManager's records sit behind a std Mutex, so each of its        *)
(* methods is one atomic update here.  Between two of them, at every await *)
(* of a handler, anything else may happen: a command is a caller that      *)
(* walks through the stations below.                                       *)
(*                                                                         *)
(* Abstracted: names, paths, timestamps and byte counts; NEXT_TRANSFER_ID  *)
(* and NEXT_SEQUENCE, two counters that advance together, are one.         *)
(***************************************************************************)
EXTENDS Integers, FiniteSets

CONSTANTS
  Hosts,              \* saved hosts, by id
  NoHost,             \* no host: the target of a caller that needs none
  Callers,            \* command invocations that may be in progress at once
  MaxTransfers,       \* bound: transfers enqueued in one behaviour
  MaxHistory,         \* MAX_HISTORY, 200 in the code
  DefaultConcurrent,  \* DEFAULT_MAX_CONCURRENT, 3 in the code
  MinConcurrent,      \* MIN_MAX_CONCURRENT, 1
  MaxConcurrentCap,   \* MAX_MAX_CONCURRENT, 8
  CapChoices,         \* values the settings page may send, sane or not
  PriorityChoices     \* levels the user picks from

Low == 0
Normal == 1
High == 2
Priorities == {Low, Normal, High}

ASSUME QueueAssumption ==
  /\ NoHost \notin Hosts
  /\ MaxTransfers \in Nat
  /\ MaxHistory \in Nat
  /\ MinConcurrent \in Nat \ {0}
  /\ MaxConcurrentCap \in Nat
  /\ DefaultConcurrent \in MinConcurrent .. MaxConcurrentCap
  /\ CapChoices \subseteq Nat
  /\ PriorityChoices \subseteq Priorities

Ids == 1 .. MaxTransfers

VARIABLES
  records,        \* TransferManager.records: id -> row, "Absent" if not in the map
  cancel,         \* id -> the flag row and task share; it outlives the row
  nextId,         \* NEXT_TRANSFER_ID and NEXT_SEQUENCE
  maxConcurrent,  \* TransferManager.max_concurrent
  orders,         \* start orders taken by the pump's holder, not yet dispatched
  task,           \* id -> where its transfer_task::run stands
  connected,      \* hosts with an entry in SessionRegistry
  at,             \* caller -> the await its handler is suspended at
  target          \* caller -> the host its handler was called for

vars == <<records, cancel, nextId, maxConcurrent, orders, task, connected, at, target>>

States == {"Absent", "Queued", "Running", "Done", "Failed", "Canceled"}
SettledStates == {"Done", "Failed", "Canceled"}
(* "gone" is "The host disconnected.", "io" any error of the copy itself.  *)
Reasons == {"none", "gone", "io"}
(* "over" is a task that called finish and returned.                       *)
Phases == {"none", "copying", "landing", "ok", "error", "over"}
LivePhases == {"copying", "landing", "ok", "error"}
(* "enqueue": require passed, row not inserted yet.  "release": the session*)
(* is out of the registry, fail_host not called yet.  "pump": waiting for  *)
(* the pump lock.  "dispatch": holding it, with orders left.               *)
Stations == {"idle", "enqueue", "release", "pump", "dispatch"}

Record == [host : Hosts \cup {NoHost}, priority : Priorities, state : States,
           position : Nat, error : Reasons]   \* position 0 is None

StartOrder == [id : Ids, host : Hosts, priority : Priorities]

Blank == [host |-> NoHost, priority |-> Low, state |-> "Absent",
          position |-> 0, error |-> "none"]

TypeOK ==
  /\ records \in [Ids -> Record]
  /\ cancel \in [Ids -> BOOLEAN]
  /\ nextId \in 1 .. MaxTransfers + 1
  /\ maxConcurrent \in MinConcurrent .. MaxConcurrentCap
  /\ orders \subseteq StartOrder
  /\ task \in [Ids -> Phases]
  /\ connected \in SUBSET Hosts
  /\ at \in [Callers -> Stations]
  /\ target \in [Callers -> Hosts \cup {NoHost}]

-----------------------------------------------------------------------------
(* The records map and what the manager computes from it.                  *)

InState(r, S) == {i \in Ids : r[i].state \in S}
Queued == InState(records, {"Queued"})
Running == InState(records, {"Running"})
Pending == InState(records, {"Queued", "Running"})
Settled == InState(records, SettledStates)

(* Priority first, then arrival: min_by_key((Reverse(priority), sequence)).*)
Ahead(r, i, j) ==
  \/ r[i].priority > r[j].priority
  \/ r[i].priority = r[j].priority /\ i < j

(* How many of S the scheduler would take before i.                        *)
Rank(r, S, i) == Cardinality({j \in S : Ahead(r, j, i)})

Renumber(r) ==
  LET queued == InState(r, {"Queued"}) IN
  [i \in Ids |->
     IF i \in queued THEN [r[i] EXCEPT !.position = 1 + Rank(r, queued, i)]
     ELSE r[i]]

(* Keep the newest MaxHistory settled rows.                                *)
PruneHistory(r) ==
  LET settled == InState(r, SettledStates) IN
  [i \in Ids |->
     IF i \in settled /\ Cardinality({j \in settled : j > i}) >= MaxHistory
     THEN Blank
     ELSE r[i]]

(* Mutant of Finish: the outcome outranks the flag.                        *)
FinishByOutcome(i, error) ==
  IF records[i].state = "Absent"
  THEN Renumber(records)
  ELSE Renumber([records EXCEPT
         ![i].state = IF error = "none" THEN "Done" ELSE "Failed",
         ![i].error = error,
         ![i].position = 0])

(* finish: the row's own flag outranks the outcome, and nothing looks at   *)
(* the state the row is in.                                                *)
Finish(i, error) ==
  IF records[i].state = "Absent"
  THEN Renumber(records)
  ELSE Renumber([records EXCEPT
         ![i].state = IF cancel[i] THEN "Canceled"
                      ELSE IF error = "none" THEN "Done" ELSE "Failed",
         ![i].error = IF cancel[i] THEN "none" ELSE error,
         ![i].position = 0])

(* Mutant of Chosen: while running <= cap.                                 *)
ChosenPastCap == {i \in {j \in Queued : records[j].host \in connected} :
  Rank(records, {j \in Queued : records[j].host \in connected}, i)
    <= maxConcurrent - Cardinality(Running)}

(* take_ready: rows whose host has a session, best first, while there is   *)
(* a free slot.                                                            *)
Ready == {i \in Queued : records[i].host \in connected}
FreeSlots == maxConcurrent - Cardinality(Running)
Chosen ==
  LET ready == Ready free == FreeSlots IN
  {i \in ready : Rank(records, ready, i) < free}

(* Mutant of Promote: the orders are drawn up, the rows stay Queued.       *)
PromoteNothing == records

Promote ==
  LET chosen == Chosen IN
  IF chosen = {} THEN records
  ELSE Renumber([i \in Ids |->
         IF i \in chosen
         THEN [records[i] EXCEPT !.state = "Running", !.position = 0]
         ELSE records[i]])

-----------------------------------------------------------------------------
(* Commands.                                                               *)

Goto(c, station) == at' = [at EXCEPT ![c] = station]
Untarget(c) == target' = [target EXCEPT ![c] = NoHost]

Enqueueing == {c \in Callers : at[c] = "enqueue"}

(* enqueue_download / enqueue_upload up to the last thing before the       *)
(* insert: the host must have a session now.  The third conjunct is the    *)
(* bound MaxTransfers: everybody past it will find an id to take.          *)
Request(c, h) ==
  /\ at[c] = "idle"
  /\ h \in connected
  /\ nextId + Cardinality(Enqueueing) <= MaxTransfers
  /\ Goto(c, "enqueue")
  /\ target' = [target EXCEPT ![c] = h]
  /\ UNCHANGED <<records, cancel, nextId, maxConcurrent, orders, task, connected>>

(* A bad name, a missing folder, a refused stat: the handler returns Err.  *)
RequestRefused(c) ==
  /\ at[c] = "enqueue"
  /\ Goto(c, "idle")
  /\ Untarget(c)
  /\ UNCHANGED <<records, cancel, nextId, maxConcurrent, orders, task, connected>>

(* TransferManager::enqueue.  No renumber: the new row has no position.    *)
Enqueue(c, p) ==
  /\ at[c] = "enqueue"
  /\ nextId \in Ids
  /\ records' = PruneHistory([records EXCEPT
                  ![nextId] = [Blank EXCEPT !.host = target[c], !.priority = p,
                                            !.state = "Queued"]])
  /\ nextId' = nextId + 1
  /\ Goto(c, "pump")
  /\ Untarget(c)
  /\ UNCHANGED <<cancel, maxConcurrent, orders, task, connected>>

OrderFor(i) == [id |-> i, host |-> records[i].host, priority |-> records[i].priority]

Earlier(o, q) ==
  \/ o.priority > q.priority
  \/ o.priority = q.priority /\ o.id < q.id

(* Mutant of TakeReady: the guard is not dropped when there are no orders. *)
TakeReadyKeepsGuard(c) ==
  /\ at[c] = "pump"
  /\ \A d \in Callers : at[d] # "dispatch"
  /\ records' = Promote
  /\ orders' = {OrderFor(i) : i \in Chosen}
  /\ Goto(c, "dispatch")
  /\ UNCHANGED <<cancel, nextId, maxConcurrent, task, connected, target>>

(* pump_transfers: the lock, then take_ready.  With no orders the guard is *)
(* dropped at once.                                                        *)
TakeReady(c) ==
  /\ at[c] = "pump"
  /\ \A d \in Callers : at[d] # "dispatch"
  /\ records' = Promote
  /\ orders' = {OrderFor(i) : i \in Chosen}
  /\ Goto(c, IF Chosen = {} THEN "idle" ELSE "dispatch")
  /\ UNCHANGED <<cancel, nextId, maxConcurrent, task, connected, target>>

(* The orders are dispatched in the order the slots were handed out.       *)
NextOrder(o) == o \in orders /\ \A q \in orders \ {o} : Earlier(o, q)

OrderDone(c, o) ==
  /\ orders' = orders \ {o}
  /\ Goto(c, IF orders = {o} THEN "idle" ELSE "dispatch")

(* The host still has a session: spawn transfer_task::run.                 *)
Spawn(c, o) ==
  /\ at[c] = "dispatch"
  /\ NextOrder(o)
  /\ o.host \in connected
  /\ task' = [task EXCEPT ![o.id] = "copying"]
  /\ OrderDone(c, o)
  /\ UNCHANGED <<records, cancel, nextId, maxConcurrent, connected, target>>

(* Mutant of DropOrder: skip the order without failing its row.            *)
SkipOrder(c, o) ==
  /\ at[c] = "dispatch"
  /\ NextOrder(o)
  /\ o.host \notin connected
  /\ OrderDone(c, o)
  /\ UNCHANGED <<records, cancel, nextId, maxConcurrent, task, connected, target>>

(* Disconnected between take_ready and here.                               *)
DropOrder(c, o) ==
  /\ at[c] = "dispatch"
  /\ NextOrder(o)
  /\ o.host \notin connected
  /\ records' = Finish(o.id, "gone")
  /\ OrderDone(c, o)
  /\ UNCHANGED <<cancel, nextId, maxConcurrent, task, connected, target>>

(* cancel: a queued row settles, a running one is only flagged.            *)
CancelTransfer(c, i) ==
  /\ at[c] = "idle"
  /\ i \in Pending
  /\ cancel' = [cancel EXCEPT ![i] = TRUE]
  /\ records' = Renumber(
       IF i \in Queued
       THEN [records EXCEPT ![i].state = "Canceled", ![i].position = 0]
       ELSE records)
  /\ Goto(c, "pump")
  /\ UNCHANGED <<nextId, maxConcurrent, orders, task, connected, target>>

(* Mutant of SetPriority: the places are not recomputed.                   *)
SetPriorityInPlace(c, i, p) ==
  /\ at[c] = "idle"
  /\ i \in Queued
  /\ records' = [records EXCEPT ![i].priority = p]
  /\ Goto(c, "pump")
  /\ UNCHANGED <<cancel, nextId, maxConcurrent, orders, task, connected, target>>

SetPriority(c, i, p) ==
  /\ at[c] = "idle"
  /\ i \in Queued
  /\ records' = Renumber([records EXCEPT ![i].priority = p])
  /\ Goto(c, "pump")
  /\ UNCHANGED <<cancel, nextId, maxConcurrent, orders, task, connected, target>>

(* cancel_transfer or set_transfer_priority on a row they have to refuse:  *)
(* nothing changes, and the queue is pumped all the same.                  *)
RefusedButPumped(c) ==
  /\ at[c] = "idle"
  /\ Goto(c, "pump")
  /\ UNCHANGED <<records, cancel, nextId, maxConcurrent, orders, task, connected, target>>

(* Mutant of Clamp: only the lower bound.                                  *)
ClampBelow(v) == IF v < MinConcurrent THEN MinConcurrent ELSE v

Clamp(v) ==
  IF v < MinConcurrent THEN MinConcurrent
  ELSE IF v > MaxConcurrentCap THEN MaxConcurrentCap ELSE v

SetMaxConcurrent(c, v) ==
  /\ at[c] = "idle"
  /\ maxConcurrent' = Clamp(v)
  /\ Goto(c, "pump")
  /\ UNCHANGED <<records, cancel, nextId, orders, task, connected, target>>

(* A synchronous command: it never suspends and never pumps.               *)
ClearFinished ==
  /\ Settled # {}
  /\ records' = [i \in Ids |-> IF i \in Settled THEN Blank ELSE records[i]]
  /\ UNCHANGED <<cancel, nextId, maxConcurrent, orders, task, connected, at, target>>

-----------------------------------------------------------------------------
(* Sessions coming and going, as far as the queue can tell.                *)

(* connect_host ends in SessionRegistry::insert, and pumps nothing.        *)
Connect(h) ==
  /\ h \notin connected
  /\ connected' = connected \cup {h}
  /\ UNCHANGED <<records, cancel, nextId, maxConcurrent, orders, task, at, target>>

(* disconnect_host: the entry leaves the registry, the teardown is awaited,*)
(* and only then are the host's transfers released.  It asks nothing about *)
(* the host first.                                                         *)
DisconnectHost(c, h) ==
  /\ at[c] = "idle"
  /\ connected' = connected \ {h}
  /\ Goto(c, "release")
  /\ target' = [target EXCEPT ![c] = h]
  /\ UNCHANGED <<records, cancel, nextId, maxConcurrent, orders, task>>

(* heartbeat's reap of one host: the same two steps, for a connected host. *)
ReapHost(c, h) == h \in connected /\ DisconnectHost(c, h)

(* power_host after an immediate shutdown: the entry goes, and the         *)
(* transfers are not released.                                             *)
PowerHost(h) ==
  /\ h \in connected
  /\ connected' = connected \ {h}
  /\ UNCHANGED <<records, cancel, nextId, maxConcurrent, orders, task, at, target>>

(* Mutant of Stranded: settled rows are failed as well.                    *)
EveryRowOf(h) == {i \in Pending \cup Settled : records[i].host = h}

Stranded(h) == {i \in Pending : records[i].host = h}

(* release_host_transfers: fail_host, then on to the pump.                 *)
ReleaseHost(c) ==
  LET hit == Stranded(target[c]) IN
  /\ at[c] = "release"
  /\ cancel' = [i \in Ids |-> i \in hit \/ cancel[i]]
  /\ records' = Renumber([i \in Ids |->
       IF i \in hit
       THEN [records[i] EXCEPT !.state = "Failed", !.error = "gone", !.position = 0]
       ELSE records[i]])
  /\ Goto(c, "pump")
  /\ Untarget(c)
  /\ UNCHANGED <<nextId, maxConcurrent, orders, task, connected>>

-----------------------------------------------------------------------------
(* transfer_task::run.  The outcome does not depend on the registry: the   *)
(* task holds the session itself, and a closed one only makes I/O fail.    *)

TaskMoves(i, from, to) ==
  /\ task[i] = from
  /\ task' = [task EXCEPT ![i] = to]
  /\ UNCHANGED <<records, cancel, nextId, maxConcurrent, orders, connected, at, target>>

(* The flag is looked at between chunks and never again after the last.    *)
NoticeCancel(i) == cancel[i] /\ TaskMoves(i, "copying", "error")
LastChunk(i) == ~cancel[i] /\ TaskMoves(i, "copying", "landing")

(* flush, verify_length, rename.                                           *)
Land(i) == TaskMoves(i, "landing", "ok")

IoError(i) == TaskMoves(i, "copying", "error") \/ TaskMoves(i, "landing", "error")

(* Mutant of TaskFinish: a failed copy returns before finish.              *)
TaskReturns(i) ==
  /\ task[i] \in {"ok", "error"}
  /\ records' = IF task[i] = "ok" THEN Finish(i, "none") ELSE records
  /\ task' = [task EXCEPT ![i] = "over"]
  /\ UNCHANGED <<cancel, nextId, maxConcurrent, orders, connected, at, target>>

(* run's last step: finish.  Nobody is told that a slot is free.           *)
TaskFinish(i) ==
  /\ task[i] \in {"ok", "error"}
  /\ records' = Finish(i, IF task[i] = "ok" THEN "none" ELSE "io")
  /\ task' = [task EXCEPT ![i] = "over"]
  /\ UNCHANGED <<cancel, nextId, maxConcurrent, orders, connected, at, target>>

-----------------------------------------------------------------------------
InitWith(hosts) ==
  /\ records = [i \in Ids |-> Blank]
  /\ cancel = [i \in Ids |-> FALSE]
  /\ nextId = 1
  /\ maxConcurrent = DefaultConcurrent
  /\ orders = {}
  /\ task = [i \in Ids |-> "none"]
  /\ connected = hosts
  /\ at = [c \in Callers |-> "idle"]
  /\ target = [c \in Callers |-> NoHost]

Init == InitWith({})

(* What a handler does once called, up to its return.                      *)
Progress(c) ==
  \/ \E p \in PriorityChoices : Enqueue(c, p)
  \/ ReleaseHost(c)
  \/ TakeReady(c)
  \/ \E o \in orders : Spawn(c, o) \/ DropOrder(c, o)

Command(c) ==
  \/ \E h \in Hosts : Request(c, h) \/ DisconnectHost(c, h) \/ ReapHost(c, h)
  \/ RequestRefused(c)
  \/ \E i \in Ids : CancelTransfer(c, i) \/ \E p \in PriorityChoices : SetPriority(c, i, p)
  \/ RefusedButPumped(c)
  \/ \E v \in CapChoices : SetMaxConcurrent(c, v)

Sessions == \E h \in Hosts : Connect(h) \/ PowerHost(h)

TaskStep(i) ==
  NoticeCancel(i) \/ LastChunk(i) \/ Land(i) \/ IoError(i) \/ TaskFinish(i)

Next ==
  \/ \E c \in Callers : Progress(c) \/ Command(c)
  \/ Sessions
  \/ ClearFinished
  \/ \E i \in Ids : TaskStep(i)

Spec == Init /\ [][Next]_vars

(* Between call and return a handler always moves on: the runtime polls it,*)
(* tokio's Mutex is FIFO (hence strong fairness for the lock), and every   *)
(* teardown it awaits is bounded.  SFTP requests time out, so a copy ends. *)
(* Nothing obliges a user to do anything.                                  *)
Fairness ==
  /\ \A c \in Callers :
       /\ WF_vars((\E p \in PriorityChoices : Enqueue(c, p)) \/ RequestRefused(c))
       /\ WF_vars(ReleaseHost(c))
       /\ SF_vars(TakeReady(c))
       /\ WF_vars(\E o \in orders : Spawn(c, o) \/ DropOrder(c, o))
  /\ \A i \in Ids : WF_vars(TaskStep(i))

FairSpec == Spec /\ Fairness

(* The friendliest world for the queue: no session comes or goes.          *)
SteadySpec ==
  InitWith(Hosts) /\ [][Next /\ UNCHANGED connected]_vars /\ Fairness

-----------------------------------------------------------------------------
(* What must hold.                                                         *)

Ordered(i) == \E o \in orders : o.id = i

(* A row that shows Running has somebody working for it: its task, or the  *)
(* pump that is about to start the task.  Otherwise it is a progress bar   *)
(* nobody will ever move, and its slot is lost (take_ready, pump_transfers,*)
(* run, finish).                                                           *)
RunningHasOwner == \A i \in Running : task[i] \in LivePhases \/ Ordered(i)

(* No transfer is handed out twice: a row that still waits has no order    *)
(* and never had a task, an order's task has not started, and no two       *)
(* orders name one row.                                                    *)
HandedOutOnce ==
  /\ \A i \in Queued : task[i] = "none" /\ ~Ordered(i)
  /\ \A o \in orders : task[o.id] = "none"
  /\ \A o, q \in orders : o.id = q.id => o = q

(* A transfer that was asked to stop is never reported as Done, however    *)
(* the request raced the last chunk (cancel, fail_host, finish).           *)
StoppedNeverDone == \A i \in Ids : cancel[i] => records[i].state # "Done"

(* The numbers the page shows beside waiting rows are 1..k and in the      *)
(* scheduler's order among themselves, and only rows that joined after all *)
(* of these wait without one.  A row that no longer waits shows none.      *)
PlacesAgree ==
  LET numbered == {i \in Ids : records[i].position # 0} IN
  /\ numbered \subseteq Queued
  /\ \A i, j \in numbered :
       records[i].position < records[j].position <=> i # j /\ Ahead(records, i, j)
  /\ {records[i].position : i \in numbered} = 1 .. Cardinality(numbered)
  /\ \A i \in Queued \ numbered, j \in numbered : j < i

(* Every waiting row has its place among all that wait.                    *)
AllPlaced(r) ==
  LET queued == InState(r, {"Queued"}) IN
  \A i \in queued : r[i].position = 1 + Rank(r, queued, i)

(* transfers.rs:422: the places are recomputed "after any change that      *)
(* could reorder".  That is so of every change but one: whenever a waiting *)
(* row starts, settles or is re-ranked, every waiting row has its place    *)
(* afterwards, those without a number included.  A row that joins is given *)
(* none, and until such a change the numbers shown leave it out (enqueue,  *)
(* renumber and its callers).                                              *)
PlacesInOrder ==
  /\ []PlacesAgree
  /\ [][AllPlaced(records') \/ \A i \in Queued : records'[i] = records[i]]_vars

(* A settled row never waits or runs again, and the outcome a user has     *)
(* seen changes in one way only: the task of a row fail_host has failed    *)
(* comes to an end, and its finish rewrites the row (finish).              *)
OutcomeIsFinal ==
  [][\A i \in Settled :
       \/ records'[i].state \in {records[i].state, "Absent"}
       \/ records[i].error = "gone" /\ records'[i].state = "Canceled"]_vars

(* The queue keeps its contract: the cap holds whenever slots are handed   *)
(* out, no waiting transfer with a session is overtaken, a free slot is    *)
(* never withheld at a handout, and only settled rows disappear.           *)
Contract == INSTANCE QueueContract WITH
  Levels <- Priorities,
  SlotCounts <- MinConcurrent .. MaxConcurrentCap,
  FirstSlots <- DefaultConcurrent,
  line <- [i \in Queued |-> records[i].priority],
  active <- Running,
  over <- Settled,
  asked <- 1 .. nextId - 1,
  slots <- maxConcurrent

KeepsContract == Contract!Spec

(* Every transfer that was started ends, whatever the host, the user and   *)
(* the other callers do meanwhile.                                         *)
RunningSettles == \A i \in Ids : i \in Running ~> i \notin Running

(* No handler waits forever, for the pump lock or for anything else.       *)
CommandsReturn == \A c \in Callers : at[c] # "idle" ~> at[c] = "idle"

-----------------------------------------------------------------------------
(* What the documentation says and the code does not do.                   *)

(* transfers.rs:9-11: "a queue left alone drains in the order it was       *)
(* filled".  With every host connected throughout (SteadySpec), a waiting  *)
(* transfer is started, or withdrawn.                                      *)
QueueDrains == \A i \in Ids : i \in Queued ~> i \notin Queued

(* transfers.rs:12: "the rest sit in `Queued` with a visible position",    *)
(* and transfers.rs:99: "Its place among everything still waiting".  A row *)
(* that joins while no slot is free has no position, and if it is High the *)
(* row shown as 1 is not the next; so it stays when every handler is done. *)
WaitingHavePlaces == (\A c \in Callers : at[c] = "idle") => AllPlaced(records)

(* transfers.rs:335-337: queued and running entries of a host that went    *)
(* away "both end up visible, with the reason attached".                   *)
ReasonStays ==
  [][\A i \in Settled : records[i].error = "gone" =>
       records'[i].state = "Absent" \/ records'[i].error = "gone"]_vars

(* transfers.rs:335-336: "Queued entries are failed rather than left       *)
(* parked".  A row waits for a host without a session only while a handler *)
(* is on its way to release it.                                            *)
NothingParked ==
  \A i \in Queued : records[i].host \notin connected =>
    \E c \in Callers : at[c] = "release" /\ target[c] = records[i].host
=============================================================================

------------------------------ MODULE TaskRuns ------------------------------
(***************************************************************************)
(* Tasks and followed journals of one host: the calls that open a stream   *)
(* (start_task in tasks/commands.rs, follow_service_log in                 *)
(* remote/commands.rs), the stream itself (remote/stream.rs), its slot in  *)
(* the session (LiveSession in remote/registry.rs) and what the window     *)
(* makes of its events (features/hosts/taskStore.ts and the follow effect  *)
(* of panes/ServicesPane.tsx).                                             *)
(*                                                                         *)
(* A stream has the name of the call that opened it: ids are only compared.*)
(* Nothing orders the answer to a call and the close event of its stream:  *)
(* the two reach the window by different ways.                             *)
(*                                                                         *)
(* Abstracted: output, passwords, plans, and every exit code but zero.     *)
(***************************************************************************)
EXTENDS Integers, FiniteSets

CONSTANTS
  Calls,        \* calls of start_task and follow_service_log
  NoCall,       \* no call
  Tasks,        \* task ids
  Journal,      \* what a call follows that is not a task
  What,         \* call -> the task it starts, or Journal
  MaxStreams,   \* MAX_STREAMS_PER_HOST, 4
  MaxOpening,   \* bound: calls between their look at the cap and their slot
  MaxSessions   \* bound: sessions the host has had

ASSUME TaskRunAssumption ==
  /\ NoCall \notin Calls
  /\ Journal \notin Tasks
  /\ What \in [Calls -> Tasks \cup {Journal}]
  /\ IsFiniteSet(Calls)
  /\ MaxStreams \in Nat \ {0}
  /\ MaxOpening \in Nat \ {0}
  /\ MaxSessions \in Nat

VARIABLES
  session,   \* the host's session in the registry, 0 if there is none
  lives,     \* sessions it has had
  alive,     \* sessions whose transport is open
  draining,  \* sessions taken out of the registry, streams not drained yet
  slots,     \* session -> LiveSession.streams
  call,      \* call -> how far it has come
  over,      \* call -> the session it got from the registry
  chan,      \* call -> its channel, and the task that emits its events
  code,      \* call -> the exit code of its command
  posted,    \* calls whose close event is on its way to the window
  view,      \* call -> TaskRun.state, for a journal whether it is followed
  heard,     \* call -> closedStreamId
  asked      \* calls of which a close_stream is on its way

vars == <<session, lives, alive, draining, slots, call, over, chan, code,
          posted, view, heard, asked>>
backend == <<session, lives, alive, draining, slots, over, chan, code, posted>>
window == <<view, heard, asked>>

Sessions == 1 .. MaxSessions

(* "required": has the session.  "checked": under the cap, the channel is  *)
(* being opened.  "opened": stream::open has returned.  "parked" and       *)
(* "refused": the answer is on its way.                                    *)
CallStages == {"none", "sent", "required", "checked", "opened", "parked",
               "refused", "answered", "rejected"}

(* "closing": its handle was taken and close called, or its transport is   *)
(* gone.  "closed": batch_and_emit has ended.                              *)
ChanStages == {"none", "open", "closing", "closed"}

(* "dropped": closeHost threw the run away as it ran.                      *)
Views == {"none", "running", "finished", "failed", "stopped", "dropped"}

TypeOK ==
  /\ session \in 0 .. lives
  /\ lives \in 0 .. MaxSessions
  /\ alive \subseteq 1 .. lives
  /\ draining \subseteq (1 .. lives) \ {session}
  /\ slots \in [Sessions -> SUBSET Calls]
  /\ call \in [Calls -> CallStages]
  /\ over \in [Calls -> 0 .. lives]
  /\ chan \in [Calls -> ChanStages]
  /\ code \in [Calls -> {"none", "zero", "other"}]
  /\ posted \subseteq Calls
  /\ view \in [Calls -> Views]
  /\ heard \in [Calls -> Calls \cup {NoCall}]
  /\ asked \subseteq Calls

Known(c) == call[c] = "answered"
IsTask(c) == What[c] \in Tasks

-----------------------------------------------------------------------------
(* The window: taskStore.start, stop, settle, closeHost, the follow effect.*)

(* start: refused while a run of the task is running.  The pane follows    *)
(* one journal at a time.  The listeners are on before the command is      *)
(* asked for.                                                              *)
Start(c) ==
  /\ call[c] = "none"
  /\ \A d \in Calls : What[d] = What[c] => view[d] # "running"
  /\ call' = [call EXCEPT ![c] = "sent"]
  /\ view' = [view EXCEPT ![c] = "running"]
  /\ UNCHANGED <<backend, heard, asked>>

(* stop, and the cleanup of the follow effect.  The stream is closed if    *)
(* its id has come back.                                                   *)
Stop(c) ==
  /\ view[c] = "running"
  /\ view' = [view EXCEPT ![c] = "stopped"]
  /\ asked' = IF Known(c) THEN asked \cup {c} ELSE asked
  /\ UNCHANGED <<backend, call, heard>>

(* closeHost, on a disconnect or a reap.                                   *)
CloseHost ==
  LET running == {c \in Calls : IsTask(c) /\ view[c] = "running"} IN
  /\ running # {}
  /\ view' = [c \in Calls |-> IF c \in running THEN "dropped" ELSE view[c]]
  /\ asked' = asked \cup {c \in running : Known(c)}
  /\ UNCHANGED <<backend, call, heard>>

(* Mutant of Settled: what a run came to can be overwritten.               *)
SettledAgain(c, state) == [view EXCEPT ![c] = state]

(* settle.                                                                 *)
Settled(c, state) == [view EXCEPT ![c] = IF @ = "running" THEN state ELSE @]

Outcome(d) == IF code[d] = "zero" THEN "finished" ELSE "failed"

(* Mutant of Mine: any close event heard so far will do.                   *)
MineIfAny(c) == heard[c] # NoCall

(* closedStreamId === streamId.                                            *)
Mine(c) == heard[c] = c

(* start_task gives its id: a close event that came first is acted on.     *)
(* closedStreamId is not looked at again.                                  *)
TaskAnswered(c) ==
  /\ IsTask(c)
  /\ call[c] = "parked"
  /\ call' = [call EXCEPT ![c] = "answered"]
  /\ view' = IF Mine(c) THEN Settled(c, Outcome(heard[c])) ELSE view
  /\ heard' = [heard EXCEPT ![c] = NoCall]
  /\ UNCHANGED <<backend, asked>>

(* Mutant of JournalAnswered: nobody asks whether the pane has gone.       *)
JournalAnsweredLate(c) ==
  /\ What[c] = Journal
  /\ call[c] = "parked"
  /\ call' = [call EXCEPT ![c] = "answered"]
  /\ UNCHANGED <<backend, view, heard, asked>>

(* follow_service_log gives its id: if the pane has gone by then, the      *)
(* stream is closed at once.                                               *)
JournalAnswered(c) ==
  /\ What[c] = Journal
  /\ call[c] = "parked"
  /\ call' = [call EXCEPT ![c] = "answered"]
  /\ asked' = IF view[c] = "stopped" THEN asked \cup {c} ELSE asked
  /\ UNCHANGED <<backend, view, heard>>

TaskRejected(c) ==
  /\ IsTask(c)
  /\ call[c] = "refused"
  /\ call' = [call EXCEPT ![c] = "rejected"]
  /\ view' = Settled(c, "failed")
  /\ heard' = [heard EXCEPT ![c] = NoCall]
  /\ UNCHANGED <<backend, asked>>

(* setFollow(false), which ends whatever the pane follows by now.          *)
JournalRejected(c) ==
  LET running == {d \in Calls : What[d] = Journal /\ view[d] = "running"} IN
  /\ What[c] = Journal
  /\ call[c] = "refused"
  /\ call' = [call EXCEPT ![c] = "rejected"]
  /\ view' = [d \in Calls |-> IF d \in running THEN "stopped" ELSE view[d]]
  /\ asked' = asked \cup {d \in running : Known(d)}
  /\ UNCHANGED <<backend, heard>>

(* stream://closed reaches every run of the host.  The one whose stream it *)
(* is settles; one that does not know its id yet remembers the event, and  *)
(* forgets the one before.  A journal that ends is not followed any more.  *)
Deliver(c) ==
  /\ c \in posted
  /\ posted' = posted \ {c}
  /\ view' = IF ~Known(c) THEN view
             ELSE Settled(c, IF IsTask(c) THEN Outcome(c) ELSE "stopped")
  /\ asked' = IF Known(c) /\ What[c] = Journal /\ view[c] = "running"
              THEN asked \cup {c} ELSE asked
  /\ heard' = [d \in Calls |->
                 IF IsTask(d) /\ view[d] = "running" /\ ~Known(d) THEN c ELSE heard[d]]
  /\ UNCHANGED <<session, lives, alive, draining, slots, over, chan, code, call>>

-----------------------------------------------------------------------------
(* The handlers start_task and follow_service_log.                         *)

Move(c, from, to) == call[c] = from /\ call' = [call EXCEPT ![c] = to]

Require(c) ==
  /\ Move(c, "sent", "required")
  /\ session # 0
  /\ over' = [over EXCEPT ![c] = session]
  /\ UNCHANGED <<session, lives, alive, draining, slots, chan, code, posted, window>>

Opening(s) == {c \in Calls : call[c] \in {"checked", "opened"} /\ over[c] = s}

(* Mutant of UnderCap: one too many.                                       *)
UnderCapToo(s) == Cardinality(slots[s]) <= MaxStreams

(* stream_count() < MAX_STREAMS_PER_HOST.                                  *)
UnderCap(s) == Cardinality(slots[s]) < MaxStreams

CheckCap(c) ==
  /\ Move(c, "required", "checked")
  /\ UnderCap(over[c])
  /\ Cardinality(Opening(over[c])) < MaxOpening
  /\ UNCHANGED <<backend, window>>

(* No session, no password, the cap, or the channel cannot be opened.      *)
Refuse(c) ==
  /\ \/ Move(c, "sent", "refused")
     \/ Move(c, "required", "refused")
     \/ Move(c, "checked", "refused")
  /\ UNCHANGED <<backend, window>>

(* stream::open: from here on the command runs and its events are sent.    *)
OpenStream(c) ==
  /\ over[c] \in alive
  /\ Move(c, "checked", "opened")
  /\ chan' = [chan EXCEPT ![c] = "open"]
  /\ UNCHANGED <<session, lives, alive, draining, slots, over, code, posted, window>>

(* add_stream, in the session the call got, whether it is connected or not.*)
Park(c) ==
  /\ Move(c, "opened", "parked")
  /\ slots' = [slots EXCEPT ![over[c]] = @ \cup {c}]
  /\ UNCHANGED <<session, lives, alive, draining, over, chan, code, posted, window>>

-----------------------------------------------------------------------------
(* The stream.                                                             *)

(* Mutant of WithoutSlot: the session's streams are all let go.            *)
WithoutSlots(c) == IF session = 0 THEN slots ELSE [slots EXCEPT ![session] = {}]

(* remove_stream in the session that the host has now: it may have none,   *)
(* or another, and the stream may not have its slot yet.                   *)
WithoutSlot(c) == IF session = 0 THEN slots ELSE [slots EXCEPT ![session] = @ \ {c}]

(* The command ends, or the channel does: batch_and_emit sends the close   *)
(* event and, awaiting nothing in between, gives the slot back.            *)
StreamEnds(c) ==
  /\ chan[c] \in {"open", "closing"}
  /\ chan' = [chan EXCEPT ![c] = "closed"]
  /\ \E k \in {"zero", "other"} : code' = [code EXCEPT ![c] = k]
  /\ posted' = posted \cup {c}
  /\ slots' = WithoutSlot(c)
  /\ UNCHANGED <<session, lives, alive, draining, call, over, window>>

(* close_stream: what it finds in the session it closes.                   *)
CloseStream(c) ==
  /\ c \in asked
  /\ asked' = asked \ {c}
  /\ slots' = WithoutSlot(c)
  /\ chan' = IF session # 0 /\ c \in slots[session] /\ chan[c] = "open"
             THEN [chan EXCEPT ![c] = "closing"] ELSE chan
  /\ UNCHANGED <<session, lives, alive, draining, call, over, code, posted, view, heard>>

-----------------------------------------------------------------------------
(* The session, seen from its streams.                                     *)

Connect ==
  /\ lives < MaxSessions
  /\ lives' = lives + 1
  /\ session' = lives + 1
  /\ alive' = alive \cup {lives + 1}
  /\ draining' = draining \cup ({session} \ {0})
  /\ UNCHANGED <<slots, call, over, chan, code, posted, window>>

(* Mutant of Disconnect: get instead of remove.                            *)
DisconnectByGet ==
  /\ session # 0
  /\ draining' = draining \cup {session}
  /\ UNCHANGED <<session, lives, alive, slots, call, over, chan, code, posted, window>>

Disconnect ==
  /\ session # 0
  /\ session' = 0
  /\ draining' = draining \cup {session}
  /\ UNCHANGED <<lives, alive, slots, call, over, chan, code, posted, window>>

(* drain_streams, each of them closed.                                     *)
Drain(s) ==
  /\ s \in draining
  /\ draining' = draining \ {s}
  /\ chan' = [c \in Calls |->
                IF c \in slots[s] /\ chan[c] = "open" THEN "closing" ELSE chan[c]]
  /\ slots' = [slots EXCEPT ![s] = {}]
  /\ UNCHANGED <<session, lives, alive, call, over, code, posted, window>>

(* The transport is closed or breaks, and its channels end.                *)
TransportEnds(s) ==
  /\ s \in alive
  /\ alive' = alive \ {s}
  /\ chan' = [c \in Calls |->
                IF chan[c] = "open" /\ over[c] = s THEN "closing" ELSE chan[c]]
  /\ UNCHANGED <<session, lives, draining, slots, call, over, code, posted, window>>

-----------------------------------------------------------------------------
Init ==
  /\ session = 0
  /\ lives = 0
  /\ alive = {}
  /\ draining = {}
  /\ slots = [s \in Sessions |-> {}]
  /\ call = [c \in Calls |-> "none"]
  /\ over = [c \in Calls |-> 0]
  /\ chan = [c \in Calls |-> "none"]
  /\ code = [c \in Calls |-> "none"]
  /\ posted = {}
  /\ view = [c \in Calls |-> "none"]
  /\ heard = [c \in Calls |-> NoCall]
  /\ asked = {}

InWindow(c) ==
  \/ Start(c) \/ Stop(c)
  \/ TaskAnswered(c) \/ JournalAnswered(c)
  \/ TaskRejected(c) \/ JournalRejected(c)
  \/ Deliver(c)

InHandler(c) == Require(c) \/ CheckCap(c) \/ Refuse(c) \/ OpenStream(c) \/ Park(c)

InStream(c) == StreamEnds(c) \/ CloseStream(c)

InSession == Connect \/ Disconnect \/ \E s \in Sessions : Drain(s) \/ TransportEnds(s)

Next ==
  \/ \E c \in Calls : InWindow(c) \/ InHandler(c) \/ InStream(c)
  \/ CloseHost
  \/ InSession

Spec == Init /\ [][Next]_vars

-----------------------------------------------------------------------------
(* What must hold.                                                         *)

(* registry.rs:30: the cap is there "to stop a quiet leak".  Over the      *)
(* session the host has, a channel that nobody has begun to close is in    *)
(* the session's streams, where the cap counts it and a disconnect finds   *)
(* it, or its call is about to put it there.                               *)
OpenIsCounted ==
  \A c \in Calls : chan[c] = "open" /\ over[c] = session =>
    call[c] = "opened" \/ c \in slots[session]

(* registry.rs:224: "Two concurrent opens can overshoot by one".  Calls    *)
(* that look at the cap together pass it by one less than they are.        *)
OvershootBounded ==
  \A s \in Sessions : Cardinality(slots[s]) <= MaxStreams + MaxOpening - 1

(* taskStore.ts:175: "taking its output would be worse than dropping       *)
(* ours".  A task is shown as finished only if its own command ended with  *)
(* zero, and as failed only if it was refused or its own command ended     *)
(* otherwise, whatever the other streams of the host do meanwhile.         *)
OwnOutcome ==
  \A c \in Calls : IsTask(c) =>
    /\ view[c] = "finished" => chan[c] = "closed" /\ code[c] = "zero"
    /\ view[c] = "failed" =>
         \/ call[c] = "rejected"
         \/ chan[c] = "closed" /\ code[c] # "zero"

(* settle, taskStore.ts:261.  A run that has come to something keeps it: a *)
(* late answer or close event does not turn a stopped run into another.    *)
OutcomeStays ==
  [][\A c \in Calls : view[c] \in {"finished", "failed", "stopped"} => view'[c] = view[c]]_vars

(* ServicesPane.tsx:263: cleanup "closes the stream, or the remote         *)
(* journalctl -f would keep running against the stream cap".  The open     *)
(* stream of a pane that has gone is about to be closed, however the pane  *)
(* leaves and the answer arrives.                                          *)
JournalsAreClosed ==
  \A c \in Calls : What[c] = Journal /\ view[c] = "stopped" /\ chan[c] = "open" =>
    call[c] \in {"opened", "parked"} \/ c \in asked \/ over[c] # session

(* taskStore.ts:220: "A task that finished before its id came back is      *)
(* finished, not running."  The code does not see to this: it remembers    *)
(* one close event only, and another stream's may take its place.          *)
EndedIsSettled ==
  \A c \in Calls :
    IsTask(c) /\ Known(c) /\ chan[c] = "closed" /\ c \notin posted => view[c] # "running"
=============================================================================

---------------------------- MODULE ChannelsProofs ----------------------------
(***************************************************************************)
(* Proofs about Channels and its parts.                                    *)
(*                                                                         *)
(* TaskRuns, for any calls, tasks, caps and sessions.  The idea: a close   *)
(* event, on its way or remembered, is of a stream that has ended, so what *)
(* a run makes of its own is final; and a call counts for its session from *)
(* the moment it has looked at the cap.                                    *)
(*                                                                         *)
(* Sudo, Power, Metrics and Shells after it; then Services, for any hosts  *)
(* whose services have names: a list or a log is read line by line, so its *)
(* readers are followed along the lines of a block, from what was read     *)
(* before it to what it adds, and from block to block.                     *)
(*                                                                         *)
(* Last, what the parts are proved to do, stated of every behaviour of     *)
(* Channels.                                                               *)
(***************************************************************************)
EXTENDS Channels, Recursion, TLAPS, FiniteSetTheorems, SequenceTheorems

(* What a call's progress says of the rest of it.                          *)
InStep ==
  \A c \in Calls :
    /\ call[c] \in {"required", "checked", "opened", "parked", "answered"} => over[c] # 0
    /\ chan[c] # "none" <=> call[c] \in {"opened", "parked", "answered"}
    /\ call[c] = "none" => view[c] = "none"

(* Close events are of streams that have ended.                            *)
HeardEnded ==
  /\ \A c \in posted : chan[c] = "closed"
  /\ \A c \in Calls : heard[c] # NoCall => chan[heard[c]] = "closed"

(* Whoever has looked at the cap counts already.                           *)
Counted ==
  \A s \in Sessions :
    Cardinality(slots[s]) + Cardinality(Opening(s)) <= MaxStreams + MaxOpening - 1

(* The inductive invariant.                                                *)
TInv ==
  /\ TypeOK /\ InStep /\ HeardEnded
  /\ OpenIsCounted /\ Counted /\ OwnOutcome /\ JournalsAreClosed

-----------------------------------------------------------------------------
(* Every step keeps the types.                                             *)
LEMMA TypeStep == ASSUME TypeOK, Next PROVE TypeOK'
  <1> USE DEF TypeOK, CallStages, ChanStages, Views, Sessions, backend, window
  <1>1. ASSUME NEW c \in Calls, Start(c) PROVE TypeOK'
    BY <1>1, TaskRunAssumption DEF Start
  <1>2. ASSUME NEW c \in Calls, Stop(c) PROVE TypeOK'
    BY <1>2, TaskRunAssumption DEF Stop, Known
  <1>3. ASSUME NEW c \in Calls, TaskAnswered(c) PROVE TypeOK'
    BY <1>3, TaskRunAssumption DEF TaskAnswered, IsTask, Mine, Settled, Outcome
  <1>4. ASSUME NEW c \in Calls, JournalAnswered(c) PROVE TypeOK'
    BY <1>4, TaskRunAssumption DEF JournalAnswered
  <1>5. ASSUME NEW c \in Calls, TaskRejected(c) PROVE TypeOK'
    BY <1>5, TaskRunAssumption DEF TaskRejected, IsTask, Settled
  <1>6. ASSUME NEW c \in Calls, JournalRejected(c) PROVE TypeOK'
    BY <1>6, TaskRunAssumption DEF JournalRejected, Known
  <1>7. ASSUME NEW c \in Calls, Deliver(c) PROVE TypeOK'
    BY <1>7, TaskRunAssumption DEF Deliver, Known, IsTask, Settled, Outcome
  <1>8. ASSUME NEW c \in Calls, Require(c) PROVE TypeOK'
    BY <1>8, TaskRunAssumption DEF Require, Move
  <1>9. ASSUME NEW c \in Calls, CheckCap(c) PROVE TypeOK'
    BY <1>9, TaskRunAssumption DEF CheckCap, Move
  <1>10. ASSUME NEW c \in Calls, Refuse(c) PROVE TypeOK'
    <2>1. call' = [call EXCEPT ![c] = "refused"]
      BY <1>10 DEF Refuse, Move
    <2> QED
      BY <1>10, <2>1 DEF Refuse
  <1>11. ASSUME NEW c \in Calls, OpenStream(c) PROVE TypeOK'
    BY <1>11, TaskRunAssumption DEF OpenStream, Move
  <1>12. ASSUME NEW c \in Calls, Park(c) PROVE TypeOK'
    <2>1. slots' = [slots EXCEPT ![over[c]] = @ \cup {c}]
      BY <1>12 DEF Park
    <2>2. slots' \in [Sessions -> SUBSET Calls]
      <3>1. CASE over[c] \in Sessions
        <4>1. slots[over[c]] \cup {c} \in SUBSET Calls
          BY <3>1
        <4> QED
          BY <2>1, <4>1
      <3>2. CASE over[c] \notin Sessions
        BY <2>1, <3>2
      <3> QED
        BY <3>1, <3>2
    <2> QED
      BY <1>12, <2>2 DEF Park, Move
  <1>13. ASSUME NEW c \in Calls, StreamEnds(c) PROVE TypeOK'
    BY <1>13, TaskRunAssumption DEF StreamEnds, WithoutSlot
  <1>14. ASSUME NEW c \in Calls, CloseStream(c) PROVE TypeOK'
    BY <1>14, TaskRunAssumption DEF CloseStream, WithoutSlot
  <1>15. CASE CloseHost
    BY <1>15, TaskRunAssumption DEF CloseHost, Known, IsTask
  <1>16. CASE Connect
    BY <1>16, TaskRunAssumption DEF Connect
  <1>17. CASE Disconnect
    BY <1>17, TaskRunAssumption DEF Disconnect
  <1>18. ASSUME NEW s \in Sessions, Drain(s) PROVE TypeOK'
    BY <1>18, TaskRunAssumption DEF Drain
  <1>19. ASSUME NEW s \in Sessions, TransportEnds(s) PROVE TypeOK'
    BY <1>19, TaskRunAssumption DEF TransportEnds
  <1> QED
    BY <1>1, <1>2, <1>3, <1>4, <1>5, <1>6, <1>7, <1>8, <1>9, <1>10,
       <1>11, <1>12, <1>13, <1>14, <1>15, <1>16, <1>17, <1>18, <1>19
    DEF Next, InWindow, InHandler, InStream, InSession

(* Every step keeps calls and channels in step.                            *)
LEMMA InStepStep == ASSUME TypeOK, InStep, Next PROVE InStep'
  <1> USE DEF TypeOK, InStep, backend, window
  <1>1. ASSUME NEW c \in Calls, Start(c) PROVE InStep'
    BY <1>1 DEF Start
  <1>2. ASSUME NEW c \in Calls, Stop(c) PROVE InStep'
    BY <1>2 DEF Stop, Known
  <1>3. ASSUME NEW c \in Calls, TaskAnswered(c) PROVE InStep'
    BY <1>3 DEF TaskAnswered, IsTask, Mine, Settled, Outcome
  <1>4. ASSUME NEW c \in Calls, JournalAnswered(c) PROVE InStep'
    BY <1>4 DEF JournalAnswered
  <1>5. ASSUME NEW c \in Calls, TaskRejected(c) PROVE InStep'
    BY <1>5 DEF TaskRejected, IsTask, Settled
  <1>6. ASSUME NEW c \in Calls, JournalRejected(c) PROVE InStep'
    BY <1>6 DEF JournalRejected, Known
  <1>7. ASSUME NEW c \in Calls, Deliver(c) PROVE InStep'
    BY <1>7 DEF Deliver, Known, IsTask, Settled, Outcome
  <1>8. ASSUME NEW c \in Calls, Require(c) PROVE InStep'
    BY <1>8 DEF Require, Move
  <1>9. ASSUME NEW c \in Calls, CheckCap(c) PROVE InStep'
    BY <1>9 DEF CheckCap, Move
  <1>10. ASSUME NEW c \in Calls, Refuse(c) PROVE InStep'
    BY <1>10 DEF Refuse, Move
  <1>11. ASSUME NEW c \in Calls, OpenStream(c) PROVE InStep'
    BY <1>11 DEF OpenStream, Move
  <1>12. ASSUME NEW c \in Calls, Park(c) PROVE InStep'
    BY <1>12 DEF Park, Move
  <1>13. ASSUME NEW c \in Calls, StreamEnds(c) PROVE InStep'
    BY <1>13 DEF StreamEnds, WithoutSlot
  <1>14. ASSUME NEW c \in Calls, CloseStream(c) PROVE InStep'
    BY <1>14 DEF CloseStream, WithoutSlot
  <1>15. CASE CloseHost
    BY <1>15 DEF CloseHost, Known, IsTask
  <1>16. CASE Connect
    BY <1>16 DEF Connect
  <1>17. CASE Disconnect
    BY <1>17 DEF Disconnect
  <1>18. ASSUME NEW s \in Sessions, Drain(s) PROVE InStep'
    BY <1>18 DEF Drain
  <1>19. ASSUME NEW s \in Sessions, TransportEnds(s) PROVE InStep'
    BY <1>19 DEF TransportEnds
  <1> QED
    BY <1>1, <1>2, <1>3, <1>4, <1>5, <1>6, <1>7, <1>8, <1>9, <1>10,
       <1>11, <1>12, <1>13, <1>14, <1>15, <1>16, <1>17, <1>18, <1>19
    DEF Next, InWindow, InHandler, InStream, InSession

(* Every step hears only of streams that have ended.                       *)
LEMMA HeardStep == ASSUME TypeOK, InStep, HeardEnded, Next PROVE HeardEnded'
  <1> USE DEF TypeOK, InStep, HeardEnded, backend, window
  <1>1. ASSUME NEW c \in Calls, Start(c) PROVE HeardEnded'
    BY <1>1, TaskRunAssumption DEF Start
  <1>2. ASSUME NEW c \in Calls, Stop(c) PROVE HeardEnded'
    BY <1>2, TaskRunAssumption DEF Stop, Known
  <1>3. ASSUME NEW c \in Calls, TaskAnswered(c) PROVE HeardEnded'
    BY <1>3, TaskRunAssumption DEF TaskAnswered, IsTask, Mine, Settled, Outcome
  <1>4. ASSUME NEW c \in Calls, JournalAnswered(c) PROVE HeardEnded'
    BY <1>4, TaskRunAssumption DEF JournalAnswered
  <1>5. ASSUME NEW c \in Calls, TaskRejected(c) PROVE HeardEnded'
    BY <1>5, TaskRunAssumption DEF TaskRejected, IsTask, Settled
  <1>6. ASSUME NEW c \in Calls, JournalRejected(c) PROVE HeardEnded'
    BY <1>6, TaskRunAssumption DEF JournalRejected, Known
  <1>7. ASSUME NEW c \in Calls, Deliver(c) PROVE HeardEnded'
    BY <1>7, TaskRunAssumption DEF Deliver, Known, IsTask, Settled, Outcome
  <1>8. ASSUME NEW c \in Calls, Require(c) PROVE HeardEnded'
    BY <1>8, TaskRunAssumption DEF Require, Move
  <1>9. ASSUME NEW c \in Calls, CheckCap(c) PROVE HeardEnded'
    BY <1>9, TaskRunAssumption DEF CheckCap, Move
  <1>10. ASSUME NEW c \in Calls, Refuse(c) PROVE HeardEnded'
    BY <1>10, TaskRunAssumption DEF Refuse, Move
  <1>11. ASSUME NEW c \in Calls, OpenStream(c) PROVE HeardEnded'
    BY <1>11, TaskRunAssumption DEF OpenStream, Move
  <1>12. ASSUME NEW c \in Calls, Park(c) PROVE HeardEnded'
    BY <1>12, TaskRunAssumption DEF Park, Move
  <1>13. ASSUME NEW c \in Calls, StreamEnds(c) PROVE HeardEnded'
    BY <1>13, TaskRunAssumption DEF StreamEnds, WithoutSlot
  <1>14. ASSUME NEW c \in Calls, CloseStream(c) PROVE HeardEnded'
    BY <1>14, TaskRunAssumption DEF CloseStream, WithoutSlot
  <1>15. CASE CloseHost
    BY <1>15, TaskRunAssumption DEF CloseHost, Known, IsTask
  <1>16. CASE Connect
    BY <1>16, TaskRunAssumption DEF Connect
  <1>17. CASE Disconnect
    BY <1>17, TaskRunAssumption DEF Disconnect
  <1>18. ASSUME NEW s \in Sessions, Drain(s) PROVE HeardEnded'
    BY <1>18, TaskRunAssumption DEF Drain
  <1>19. ASSUME NEW s \in Sessions, TransportEnds(s) PROVE HeardEnded'
    BY <1>19, TaskRunAssumption DEF TransportEnds
  <1> QED
    BY <1>1, <1>2, <1>3, <1>4, <1>5, <1>6, <1>7, <1>8, <1>9, <1>10,
       <1>11, <1>12, <1>13, <1>14, <1>15, <1>16, <1>17, <1>18, <1>19
    DEF Next, InWindow, InHandler, InStream, InSession

(* Every step keeps the open streams of the session in its map.            *)
LEMMA OpenStep == ASSUME TypeOK, InStep, OpenIsCounted, Next PROVE OpenIsCounted'
  <1> USE DEF TypeOK, InStep, OpenIsCounted, Sessions, backend, window
  <1>1. ASSUME NEW c \in Calls, Start(c) PROVE OpenIsCounted'
    BY <1>1 DEF Start
  <1>2. ASSUME NEW c \in Calls, Stop(c) PROVE OpenIsCounted'
    BY <1>2 DEF Stop, Known
  <1>3. ASSUME NEW c \in Calls, TaskAnswered(c) PROVE OpenIsCounted'
    BY <1>3 DEF TaskAnswered, IsTask, Mine, Settled, Outcome
  <1>4. ASSUME NEW c \in Calls, JournalAnswered(c) PROVE OpenIsCounted'
    BY <1>4 DEF JournalAnswered
  <1>5. ASSUME NEW c \in Calls, TaskRejected(c) PROVE OpenIsCounted'
    BY <1>5 DEF TaskRejected, IsTask, Settled
  <1>6. ASSUME NEW c \in Calls, JournalRejected(c) PROVE OpenIsCounted'
    BY <1>6 DEF JournalRejected, Known
  <1>7. ASSUME NEW c \in Calls, Deliver(c) PROVE OpenIsCounted'
    BY <1>7 DEF Deliver, Known, IsTask, Settled, Outcome
  <1>8. ASSUME NEW c \in Calls, Require(c) PROVE OpenIsCounted'
    BY <1>8 DEF Require, Move
  <1>9. ASSUME NEW c \in Calls, CheckCap(c) PROVE OpenIsCounted'
    BY <1>9 DEF CheckCap, Move
  <1>10. ASSUME NEW c \in Calls, Refuse(c) PROVE OpenIsCounted'
    BY <1>10 DEF Refuse, Move
  <1>11. ASSUME NEW c \in Calls, OpenStream(c) PROVE OpenIsCounted'
    BY <1>11 DEF OpenStream, Move
  <1>12. ASSUME NEW c \in Calls, Park(c) PROVE OpenIsCounted'
    <2>1. over[c] \in Sessions /\ call[c] = "opened"
      BY <1>12, TaskRunAssumption DEF Park, Move
    <2>2. slots' = [slots EXCEPT ![over[c]] = slots[over[c]] \cup {c}]
      BY <1>12 DEF Park
    <2>3. ASSUME NEW d \in Calls, chan[d] = "open", over[d] = session
          PROVE  call'[d] = "opened" \/ d \in slots'[session]
      <3>1. CASE d = c
        <4>1. slots'[over[c]] = slots[over[c]] \cup {c}
          BY <2>1, <2>2
        <4> QED
          BY <3>1, <4>1, <2>3
      <3>2. CASE d # c
        <4>1. call'[d] = call[d]
          BY <1>12, <3>2 DEF Park, Move
        <4>2. over[d] \in Sessions
          BY <2>3, TaskRunAssumption DEF ChanStages
        <4>3. slots[session] \subseteq slots'[session]
          BY <2>1, <2>2, <2>3, <4>2
        <4> QED
          BY <4>1, <4>3, <2>3
      <3> QED
        BY <3>1, <3>2
    <2> QED
      BY <1>12, <2>3 DEF Park
  <1>13. ASSUME NEW c \in Calls, StreamEnds(c) PROVE OpenIsCounted'
    BY <1>13 DEF StreamEnds, WithoutSlot
  <1>14. ASSUME NEW c \in Calls, CloseStream(c) PROVE OpenIsCounted'
    BY <1>14 DEF CloseStream, WithoutSlot
  <1>15. CASE CloseHost
    BY <1>15 DEF CloseHost, Known, IsTask
  <1>16. CASE Connect
    BY <1>16 DEF Connect
  <1>17. CASE Disconnect
    BY <1>17 DEF Disconnect
  <1>18. ASSUME NEW s \in Sessions, Drain(s) PROVE OpenIsCounted'
    BY <1>18 DEF Drain
  <1>19. ASSUME NEW s \in Sessions, TransportEnds(s) PROVE OpenIsCounted'
    BY <1>19 DEF TransportEnds
  <1> QED
    BY <1>1, <1>2, <1>3, <1>4, <1>5, <1>6, <1>7, <1>8, <1>9, <1>10,
       <1>11, <1>12, <1>13, <1>14, <1>15, <1>16, <1>17, <1>18, <1>19
    DEF Next, InWindow, InHandler, InStream, InSession

(* Every step gives a task its own outcome.                                *)
LEMMA OutcomeStep == ASSUME TypeOK, InStep, HeardEnded, OwnOutcome, Next PROVE OwnOutcome'
  <1> USE DEF TypeOK, InStep, HeardEnded, OwnOutcome, IsTask, backend, window
  <1>1. ASSUME NEW c \in Calls, Start(c) PROVE OwnOutcome'
    BY <1>1, TaskRunAssumption DEF Start
  <1>2. ASSUME NEW c \in Calls, Stop(c) PROVE OwnOutcome'
    BY <1>2, TaskRunAssumption DEF Stop, Known
  <1>3. ASSUME NEW c \in Calls, TaskAnswered(c) PROVE OwnOutcome'
    BY <1>3, TaskRunAssumption DEF TaskAnswered, IsTask, Mine, Settled, Outcome
  <1>4. ASSUME NEW c \in Calls, JournalAnswered(c) PROVE OwnOutcome'
    BY <1>4, TaskRunAssumption DEF JournalAnswered
  <1>5. ASSUME NEW c \in Calls, TaskRejected(c) PROVE OwnOutcome'
    BY <1>5, TaskRunAssumption DEF TaskRejected, IsTask, Settled
  <1>6. ASSUME NEW c \in Calls, JournalRejected(c) PROVE OwnOutcome'
    BY <1>6, TaskRunAssumption DEF JournalRejected, Known
  <1>7. ASSUME NEW c \in Calls, Deliver(c) PROVE OwnOutcome'
    BY <1>7, TaskRunAssumption DEF Deliver, Known, IsTask, Settled, Outcome
  <1>8. ASSUME NEW c \in Calls, Require(c) PROVE OwnOutcome'
    BY <1>8, TaskRunAssumption DEF Require, Move
  <1>9. ASSUME NEW c \in Calls, CheckCap(c) PROVE OwnOutcome'
    BY <1>9, TaskRunAssumption DEF CheckCap, Move
  <1>10. ASSUME NEW c \in Calls, Refuse(c) PROVE OwnOutcome'
    BY <1>10, TaskRunAssumption DEF Refuse, Move
  <1>11. ASSUME NEW c \in Calls, OpenStream(c) PROVE OwnOutcome'
    BY <1>11, TaskRunAssumption DEF OpenStream, Move
  <1>12. ASSUME NEW c \in Calls, Park(c) PROVE OwnOutcome'
    BY <1>12, TaskRunAssumption DEF Park, Move
  <1>13. ASSUME NEW c \in Calls, StreamEnds(c) PROVE OwnOutcome'
    BY <1>13, TaskRunAssumption DEF StreamEnds, WithoutSlot
  <1>14. ASSUME NEW c \in Calls, CloseStream(c) PROVE OwnOutcome'
    BY <1>14, TaskRunAssumption DEF CloseStream, WithoutSlot
  <1>15. CASE CloseHost
    BY <1>15, TaskRunAssumption DEF CloseHost, Known, IsTask
  <1>16. CASE Connect
    BY <1>16, TaskRunAssumption DEF Connect
  <1>17. CASE Disconnect
    BY <1>17, TaskRunAssumption DEF Disconnect
  <1>18. ASSUME NEW s \in Sessions, Drain(s) PROVE OwnOutcome'
    BY <1>18, TaskRunAssumption DEF Drain
  <1>19. ASSUME NEW s \in Sessions, TransportEnds(s) PROVE OwnOutcome'
    BY <1>19, TaskRunAssumption DEF TransportEnds
  <1> QED
    BY <1>1, <1>2, <1>3, <1>4, <1>5, <1>6, <1>7, <1>8, <1>9, <1>10,
       <1>11, <1>12, <1>13, <1>14, <1>15, <1>16, <1>17, <1>18, <1>19
    DEF Next, InWindow, InHandler, InStream, InSession

(* Every step leaves the journals of a pane that has gone to be closed.    *)
LEMMA JournalStep ==
  ASSUME TypeOK, InStep, HeardEnded, OpenIsCounted, JournalsAreClosed, Next
  PROVE  JournalsAreClosed'
  <1> USE DEF TypeOK, InStep, HeardEnded, OpenIsCounted, JournalsAreClosed, Sessions, backend,
              window
  <1>1. ASSUME NEW c \in Calls, Start(c) PROVE JournalsAreClosed'
    BY <1>1, TaskRunAssumption DEF Start
  <1>2. ASSUME NEW c \in Calls, Stop(c) PROVE JournalsAreClosed'
    BY <1>2, TaskRunAssumption DEF Stop, Known
  <1>3. ASSUME NEW c \in Calls, TaskAnswered(c) PROVE JournalsAreClosed'
    BY <1>3, TaskRunAssumption DEF TaskAnswered, IsTask, Mine, Settled, Outcome
  <1>4. ASSUME NEW c \in Calls, JournalAnswered(c) PROVE JournalsAreClosed'
    BY <1>4, TaskRunAssumption DEF JournalAnswered
  <1>5. ASSUME NEW c \in Calls, TaskRejected(c) PROVE JournalsAreClosed'
    BY <1>5, TaskRunAssumption DEF TaskRejected, IsTask, Settled
  <1>6. ASSUME NEW c \in Calls, JournalRejected(c) PROVE JournalsAreClosed'
    BY <1>6, TaskRunAssumption DEF JournalRejected, Known
  <1>7. ASSUME NEW c \in Calls, Deliver(c) PROVE JournalsAreClosed'
    BY <1>7, TaskRunAssumption DEF Deliver, Known, IsTask, Settled, Outcome
  <1>8. ASSUME NEW c \in Calls, Require(c) PROVE JournalsAreClosed'
    BY <1>8, TaskRunAssumption DEF Require, Move
  <1>9. ASSUME NEW c \in Calls, CheckCap(c) PROVE JournalsAreClosed'
    BY <1>9, TaskRunAssumption DEF CheckCap, Move
  <1>10. ASSUME NEW c \in Calls, Refuse(c) PROVE JournalsAreClosed'
    BY <1>10, TaskRunAssumption DEF Refuse, Move
  <1>11. ASSUME NEW c \in Calls, OpenStream(c) PROVE JournalsAreClosed'
    BY <1>11, TaskRunAssumption DEF OpenStream, Move
  <1>12. ASSUME NEW c \in Calls, Park(c) PROVE JournalsAreClosed'
    BY <1>12, TaskRunAssumption DEF Park, Move
  <1>13. ASSUME NEW c \in Calls, StreamEnds(c) PROVE JournalsAreClosed'
    BY <1>13, TaskRunAssumption DEF StreamEnds, WithoutSlot
  <1>14. ASSUME NEW c \in Calls, CloseStream(c) PROVE JournalsAreClosed'
    BY <1>14, TaskRunAssumption DEF CloseStream, WithoutSlot
  <1>15. CASE CloseHost
    BY <1>15, TaskRunAssumption DEF CloseHost, Known, IsTask
  <1>16. CASE Connect
    BY <1>16, TaskRunAssumption DEF Connect
  <1>17. CASE Disconnect
    BY <1>17, TaskRunAssumption DEF Disconnect
  <1>18. ASSUME NEW s \in Sessions, Drain(s) PROVE JournalsAreClosed'
    BY <1>18, TaskRunAssumption DEF Drain
  <1>19. ASSUME NEW s \in Sessions, TransportEnds(s) PROVE JournalsAreClosed'
    BY <1>19, TaskRunAssumption DEF TransportEnds
  <1> QED
    BY <1>1, <1>2, <1>3, <1>4, <1>5, <1>6, <1>7, <1>8, <1>9, <1>10,
       <1>11, <1>12, <1>13, <1>14, <1>15, <1>16, <1>17, <1>18, <1>19
    DEF Next, InWindow, InHandler, InStream, InSession

-----------------------------------------------------------------------------
(* Sets of calls are finite and can be counted.                            *)
LEMMA CallsCount ==
  ASSUME NEW A \in SUBSET Calls
  PROVE  IsFiniteSet(A) /\ Cardinality(A) \in Nat
  BY TaskRunAssumption, FS_Subset, FS_CardinalityType

(* Fewer calls count for less.                                             *)
LEMMA FewerCount ==
  ASSUME NEW A \in SUBSET Calls, NEW B \in SUBSET A
  PROVE  Cardinality(B) <= Cardinality(A)
  BY CallsCount, FS_Subset

(* One more call counts for at most one.                                   *)
LEMMA OneMoreCount ==
  ASSUME NEW A \in SUBSET Calls, NEW c \in Calls
  PROVE  Cardinality(A \cup {c}) <= Cardinality(A) + 1
  <1>1. IsFiniteSet(A) /\ Cardinality(A) \in Nat
    BY CallsCount
  <1>2. CASE c \in A
    <2>1. Cardinality(A \cup {c}) = Cardinality(A)
      BY <1>1, <1>2, FS_AddElement, Zenon
    <2> QED
      BY <1>1, <2>1
  <1>3. CASE c \notin A
    <2>1. Cardinality(A \cup {c}) = Cardinality(A) + 1
      BY <1>1, <1>3, FS_AddElement, Zenon
    <2> QED
      BY <1>1, <2>1
  <1> QED
    BY <1>2, <1>3

(* A step that lets nobody past the cap keeps the count.                   *)
LEMMA NobodyPasses ==
  ASSUME TypeOK, TypeOK', Counted,
         \A s \in Sessions : slots'[s] \subseteq slots[s] /\ Opening(s)' \subseteq Opening(s)
  PROVE  Counted'
  <1> SUFFICES ASSUME NEW s \in Sessions
               PROVE  Cardinality(slots'[s]) + Cardinality(Opening(s)')
                        <= MaxStreams + MaxOpening - 1
    BY DEF Counted
  <1>1. slots[s] \in SUBSET Calls /\ slots'[s] \in SUBSET slots[s]
    BY DEF TypeOK
  <1>2. Opening(s) \in SUBSET Calls /\ Opening(s)' \in SUBSET Opening(s)
    BY DEF Opening
  <1>3. Cardinality(slots'[s]) <= Cardinality(slots[s])
    BY <1>1, FewerCount
  <1>4. Cardinality(Opening(s)') <= Cardinality(Opening(s))
    BY <1>2, FewerCount
  <1>5. /\ Cardinality(slots[s]) \in Nat /\ Cardinality(Opening(s)) \in Nat
        /\ Cardinality(slots'[s]) \in Nat /\ Cardinality(Opening(s)') \in Nat
    BY <1>1, <1>2, CallsCount
  <1>6. Cardinality(slots[s]) + Cardinality(Opening(s)) <= MaxStreams + MaxOpening - 1
    BY DEF Counted
  <1> QED
    BY <1>3, <1>4, <1>5, <1>6, TaskRunAssumption

(* Looking at the cap: one more is on its way, where there was room.       *)
LEMMA CapCounted ==
  ASSUME TypeOK, InStep, Counted, NEW c \in Calls, CheckCap(c)
  PROVE  Counted'
  <1> SUFFICES ASSUME NEW s \in Sessions
               PROVE  Cardinality(slots'[s]) + Cardinality(Opening(s)')
                        <= MaxStreams + MaxOpening - 1
    BY DEF Counted
  <1>1. slots'[s] = slots[s] /\ slots[s] \in SUBSET Calls
    BY DEF TypeOK, CheckCap, backend
  <1>2. Opening(s) \in SUBSET Calls
    BY DEF Opening
  <1>3. /\ Cardinality(slots[s]) \in Nat /\ Cardinality(Opening(s)) \in Nat
        /\ IsFiniteSet(Opening(s))
    BY <1>1, <1>2, CallsCount
  <1>4. CASE over[c] = s
    <2>1. Opening(s)' = Opening(s) \cup {c}
      BY <1>4 DEF Opening, TypeOK, CheckCap, Move, backend
    <2>2. Cardinality(Opening(s)') <= Cardinality(Opening(s)) + 1
      BY <2>1, <1>2, OneMoreCount
    <2>3. Cardinality(slots[s]) < MaxStreams /\ Cardinality(Opening(s)) < MaxOpening
      BY <1>4 DEF CheckCap, UnderCap
    <2>4. Cardinality(Opening(s)') \in Nat
      BY CallsCount DEF Opening
    <2> QED
      BY <1>1, <1>3, <2>2, <2>3, <2>4, TaskRunAssumption
  <1>5. CASE over[c] # s
    <2>1. Opening(s)' = Opening(s)
      BY <1>5 DEF Opening, TypeOK, CheckCap, Move, backend
    <2> QED
      BY <1>1, <2>1 DEF Counted
  <1> QED
    BY <1>4, <1>5

(* Taking the slot: the call counts as a stream and no longer as opening.  *)
LEMMA ParkCounted ==
  ASSUME TypeOK, InStep, Counted, NEW c \in Calls, Park(c)
  PROVE  Counted'
  <1> SUFFICES ASSUME NEW s \in Sessions
               PROVE  Cardinality(slots'[s]) + Cardinality(Opening(s)')
                        <= MaxStreams + MaxOpening - 1
    BY DEF Counted
  <1>1. slots[s] \in SUBSET Calls /\ Opening(s) \in SUBSET Calls
    BY DEF TypeOK, Opening
  <1>2. /\ Cardinality(slots[s]) \in Nat /\ IsFiniteSet(slots[s])
        /\ Cardinality(Opening(s)) \in Nat /\ IsFiniteSet(Opening(s))
    BY <1>1, CallsCount
  <1>3. Cardinality(slots[s]) + Cardinality(Opening(s)) <= MaxStreams + MaxOpening - 1
    BY DEF Counted
  <1>4. slots' = [slots EXCEPT ![over[c]] = slots[over[c]] \cup {c}]
    BY DEF Park
  <1>5. CASE over[c] = s
    <2>1. slots'[s] = slots[s] \cup {c}
      BY <1>4, <1>5 DEF TypeOK
    <2>2. c \in Opening(s)
      BY <1>5 DEF Opening, Park, Move
    <2>3. Opening(s)' = Opening(s) \ {c}
      BY <1>5 DEF Opening, TypeOK, Park, Move
    <2>4. Cardinality(slots'[s]) <= Cardinality(slots[s]) + 1
      BY <2>1, <1>1, OneMoreCount
    <2>5. Cardinality(Opening(s)') = Cardinality(Opening(s)) - 1
      BY <2>2, <2>3, <1>2, FS_RemoveElement
    <2>6. Cardinality(slots'[s]) \in Nat
      BY <1>1, <2>1, CallsCount
    <2> QED
      BY <1>2, <1>3, <2>4, <2>5, <2>6, TaskRunAssumption
  <1>6. CASE over[c] # s
    <2>1. slots'[s] = slots[s]
      BY <1>4, <1>6 DEF TypeOK
    <2>2. Opening(s)' = Opening(s)
      BY <1>6 DEF Opening, TypeOK, Park, Move
    <2> QED
      BY <1>3, <2>1, <2>2
  <1> QED
    BY <1>5, <1>6

(* Every step keeps the count.                                             *)
LEMMA CountedStep == ASSUME TypeOK, InStep, Counted, Next PROVE Counted'
  <1>1. TypeOK'
    BY TypeStep
  <1> DEFINE Fewer == \A s \in Sessions :
                        slots'[s] \subseteq slots[s] /\ Opening(s)' \subseteq Opening(s)
  <1>2. Fewer => Counted'
    BY <1>1, NobodyPasses
  <1>3. ASSUME NEW c \in Calls, Start(c) PROVE Fewer
    BY <1>3 DEF Start, Opening, TypeOK, backend, window
  <1>4. ASSUME NEW c \in Calls, Stop(c) PROVE Fewer
    BY <1>4 DEF Stop, Opening, TypeOK, backend, window
  <1>5. ASSUME NEW c \in Calls, TaskAnswered(c) PROVE Fewer
    BY <1>5 DEF TaskAnswered, Opening, TypeOK, backend, window
  <1>6. ASSUME NEW c \in Calls, JournalAnswered(c) PROVE Fewer
    BY <1>6 DEF JournalAnswered, Opening, TypeOK, backend, window
  <1>7. ASSUME NEW c \in Calls, TaskRejected(c) PROVE Fewer
    BY <1>7 DEF TaskRejected, Opening, TypeOK, backend, window
  <1>8. ASSUME NEW c \in Calls, JournalRejected(c) PROVE Fewer
    BY <1>8 DEF JournalRejected, Opening, TypeOK, backend, window
  <1>9. ASSUME NEW c \in Calls, Deliver(c) PROVE Fewer
    BY <1>9 DEF Deliver, Opening, TypeOK, backend, window
  <1>10. ASSUME NEW c \in Calls, Require(c) PROVE Fewer
    BY <1>10 DEF Require, Move, Opening, TypeOK, backend, window
  <1>11. ASSUME NEW c \in Calls, Refuse(c) PROVE Fewer
    BY <1>11 DEF Refuse, Move, Opening, TypeOK, backend, window
  <1>12. ASSUME NEW c \in Calls, OpenStream(c) PROVE Fewer
    BY <1>12 DEF OpenStream, Move, Opening, TypeOK, backend, window
  <1>13. ASSUME NEW c \in Calls, StreamEnds(c) PROVE Fewer
    BY <1>13 DEF StreamEnds, WithoutSlot, Opening, TypeOK, backend, window
  <1>14. ASSUME NEW c \in Calls, CloseStream(c) PROVE Fewer
    BY <1>14 DEF CloseStream, WithoutSlot, Opening, TypeOK, backend, window
  <1>15. ASSUME CloseHost PROVE Fewer
    BY <1>15 DEF CloseHost, Opening, TypeOK, backend, window
  <1>16. ASSUME Connect PROVE Fewer
    BY <1>16 DEF Connect, Opening, TypeOK, backend, window
  <1>17. ASSUME Disconnect PROVE Fewer
    BY <1>17 DEF Disconnect, Opening, TypeOK, backend, window
  <1>18. ASSUME NEW s \in Sessions, Drain(s) PROVE Fewer
    BY <1>18 DEF Drain, Opening, TypeOK, window
  <1>19. ASSUME NEW s \in Sessions, TransportEnds(s) PROVE Fewer
    BY <1>19 DEF TransportEnds, Opening, TypeOK, window
  <1> HIDE DEF Fewer
  <1> QED
    BY CapCounted, ParkCounted, <1>2, <1>3, <1>4, <1>5, <1>6, <1>7, <1>8, <1>9,
       <1>10, <1>11, <1>12, <1>13, <1>14, <1>15, <1>16, <1>17, <1>18, <1>19
    DEF Next, InWindow, InHandler, InStream, InSession

-----------------------------------------------------------------------------
LEMMA InitInv == Init => TInv
  <1> SUFFICES ASSUME Init PROVE TInv
    OBVIOUS
  <1>1. TypeOK
    BY TaskRunAssumption DEF Init, TypeOK, CallStages, ChanStages, Views, Sessions
  <1>2. Counted
    <2> SUFFICES ASSUME NEW s \in Sessions
                 PROVE  Cardinality(slots[s]) + Cardinality(Opening(s))
                          <= MaxStreams + MaxOpening - 1
      BY DEF Counted
    <2>1. slots[s] = {} /\ Opening(s) = {}
      BY DEF Init, Opening
    <2> QED
      BY <2>1, FS_EmptySet, TaskRunAssumption
  <1>3. InStep /\ HeardEnded /\ OpenIsCounted /\ OwnOutcome /\ JournalsAreClosed
    BY TaskRunAssumption DEF Init, InStep, HeardEnded, OpenIsCounted, OwnOutcome,
       JournalsAreClosed
  <1> QED
    BY <1>1, <1>2, <1>3 DEF TInv

LEMMA StutterInv == ASSUME TInv, UNCHANGED vars PROVE TInv'
  <1>1. TypeOK' /\ InStep' /\ HeardEnded'
    BY DEF TInv, vars, TypeOK, InStep, HeardEnded
  <1>2. OpenIsCounted' /\ OwnOutcome' /\ JournalsAreClosed'
    BY DEF TInv, vars, OpenIsCounted, OwnOutcome, JournalsAreClosed
  <1>3. Counted'
    BY DEF TInv, vars, Counted, Opening
  <1> QED
    BY <1>1, <1>2, <1>3 DEF TInv

(* The inductive invariant holds of every behaviour.                       *)
THEOREM TaskRunsInductive == Spec => []TInv
  <1>1. Init => TInv
    BY InitInv
  <1>2. TInv /\ [Next]_vars => TInv'
    <2>1. ASSUME TInv, Next PROVE TInv'
      BY <2>1, TypeStep, InStepStep, HeardStep, OpenStep, OutcomeStep, JournalStep,
         CountedStep DEF TInv
    <2> QED
      BY <2>1, StutterInv
  <1> QED
    BY <1>1, <1>2, PTL DEF Spec

(* Every variable of the streams keeps its type.                           *)
THEOREM TaskRunsTyped == Spec => []TypeOK
  <1>1. TInv => TypeOK
    BY DEF TInv
  <1> QED
    BY <1>1, TaskRunsInductive, PTL

(* registry.rs:30: over the host's session no open channel escapes the map *)
(* that the cap counts and a disconnect drains.                            *)
THEOREM OpenStreamsCounted == Spec => []OpenIsCounted
  <1>1. TInv => OpenIsCounted
    BY DEF TInv
  <1> QED
    BY <1>1, TaskRunsInductive, PTL

(* registry.rs:224: however many calls race, the cap is passed by one less *)
(* than looked at it together.                                             *)
THEOREM OvershootIsBounded == Spec => []OvershootBounded
  <1>1. TInv => OvershootBounded
    <2> SUFFICES ASSUME TInv, NEW s \in Sessions
                 PROVE  Cardinality(slots[s]) <= MaxStreams + MaxOpening - 1
      BY DEF OvershootBounded
    <2>1. slots[s] \in SUBSET Calls /\ Opening(s) \in SUBSET Calls
      BY DEF TInv, TypeOK, Opening
    <2>2. Cardinality(slots[s]) \in Nat /\ Cardinality(Opening(s)) \in Nat
      BY <2>1, CallsCount
    <2>3. Cardinality(slots[s]) + Cardinality(Opening(s)) <= MaxStreams + MaxOpening - 1
      BY DEF TInv, Counted
    <2> QED
      BY <2>2, <2>3, TaskRunAssumption
  <1> QED
    BY <1>1, TaskRunsInductive, PTL

(* taskStore.ts:206-228: a run is shown with what its own command came to, *)
(* never with another stream's.                                            *)
THEOREM OutcomesOwn == Spec => []OwnOutcome
  <1>1. TInv => OwnOutcome
    BY DEF TInv
  <1> QED
    BY <1>1, TaskRunsInductive, PTL

(* ServicesPane.tsx:263: no journal is left followed by a pane that has    *)
(* gone.                                                                   *)
THEOREM JournalsGetClosed == Spec => []JournalsAreClosed
  <1>1. TInv => JournalsAreClosed
    BY DEF TInv
  <1> QED
    BY <1>1, TaskRunsInductive, PTL

(* taskStore.ts:261: no late answer or event changes what a run came to.   *)
THEOREM OutcomesStay == Spec => OutcomeStays
  <1> DEFINE Stay == \A c \in Calls :
                       view[c] \in {"finished", "failed", "stopped"} => view'[c] = view[c]
  <1>1. TInv /\ [Next]_vars => [Stay]_vars
    <2> USE DEF TypeOK, InStep, backend, window
    <2> SUFFICES ASSUME TypeOK, InStep, Next PROVE Stay
      BY DEF TInv
    <2>1. ASSUME NEW c \in Calls, Start(c) PROVE Stay
      BY <2>1 DEF Start
    <2>2. ASSUME NEW c \in Calls, Stop(c) PROVE Stay
      BY <2>2 DEF Stop
    <2>3. ASSUME NEW c \in Calls, TaskAnswered(c) PROVE Stay
      BY <2>3 DEF TaskAnswered, Settled
    <2>4. ASSUME NEW c \in Calls, JournalAnswered(c) PROVE Stay
      BY <2>4 DEF JournalAnswered
    <2>5. ASSUME NEW c \in Calls, TaskRejected(c) PROVE Stay
      BY <2>5 DEF TaskRejected, Settled
    <2>6. ASSUME NEW c \in Calls, JournalRejected(c) PROVE Stay
      BY <2>6 DEF JournalRejected
    <2>7. ASSUME NEW c \in Calls, Deliver(c) PROVE Stay
      BY <2>7 DEF Deliver, Settled
    <2>8. ASSUME NEW c \in Calls, Require(c) PROVE Stay
      BY <2>8 DEF Require
    <2>9. ASSUME NEW c \in Calls, CheckCap(c) PROVE Stay
      BY <2>9 DEF CheckCap
    <2>10. ASSUME NEW c \in Calls, Refuse(c) PROVE Stay
      BY <2>10 DEF Refuse
    <2>11. ASSUME NEW c \in Calls, OpenStream(c) PROVE Stay
      BY <2>11 DEF OpenStream
    <2>12. ASSUME NEW c \in Calls, Park(c) PROVE Stay
      BY <2>12 DEF Park
    <2>13. ASSUME NEW c \in Calls, StreamEnds(c) PROVE Stay
      BY <2>13 DEF StreamEnds
    <2>14. ASSUME NEW c \in Calls, CloseStream(c) PROVE Stay
      BY <2>14 DEF CloseStream
    <2>15. ASSUME CloseHost PROVE Stay
      BY <2>15 DEF CloseHost
    <2>16. ASSUME Connect PROVE Stay
      BY <2>16 DEF Connect
    <2>17. ASSUME Disconnect PROVE Stay
      BY <2>17 DEF Disconnect
    <2>18. ASSUME NEW s \in Sessions, Drain(s) PROVE Stay
      BY <2>18 DEF Drain
    <2>19. ASSUME NEW s \in Sessions, TransportEnds(s) PROVE Stay
      BY <2>19 DEF TransportEnds
    <2> HIDE DEF Stay
    <2> QED
      BY <2>1, <2>2, <2>3, <2>4, <2>5, <2>6, <2>7, <2>8, <2>9, <2>10,
         <2>11, <2>12, <2>13, <2>14, <2>15, <2>16, <2>17, <2>18, <2>19
      DEF Next, InWindow, InHandler, InStream, InSession
  <1> QED
    BY <1>1, TaskRunsInductive, PTL DEF Spec, OutcomeStays

-----------------------------------------------------------------------------
(* Sudo, where v1 is live, v2 made, v3 right, v5 kept and v7 call.  The    *)
(* session whose host is asked is the one that keeps the password, and a   *)
(* reconnect makes a session that keeps nothing yet.                       *)

(* A call is checked over a session that was made.                         *)
SudoOverMade ==
  \A c \in Pair : v7[c].step = "checking" => v7[c].on \in 1 .. v2

(* A session that is yet to come keeps nothing.                            *)
NewKeepNothing == \A s \in Su!All : s > v2 => v5[s] = NoPassword

SudoInv == Su!TypeOK /\ SudoOverMade /\ NewKeepNothing /\ Su!KeptWasAccepted

LEMMA InitSudo == ASSUME Su!SudoAssumption, Su!Init PROVE SudoInv
<1>1. Su!TypeOK
  <2>1. v3 \in [Su!All -> Passwords]
    BY DEF Su!Init, Su!SudoAssumption
  <2>2. QED  BY <2>1 DEF Su!Init, Su!TypeOK, Su!Idle, Su!SudoAssumption
<1>2. SudoOverMade
  BY DEF Su!Init, SudoOverMade, Su!Idle
<1>3. NewKeepNothing /\ Su!KeptWasAccepted
  BY DEF Su!Init, NewKeepNothing, Su!KeptWasAccepted
<1>4. QED  BY <1>1, <1>2, <1>3 DEF SudoInv

LEMMA SudoConnectKeeps ==
  ASSUME Su!SudoAssumption, SudoInv, NEW byPassword \in BOOLEAN, Su!Connect(byPassword)
  PROVE  SudoInv'
<1> USE DEF SudoInv
<1>1. v2 + 1 \in Su!All /\ v2 \in Nat
  BY DEF Su!SudoAssumption, Su!Connect, Su!All, Su!TypeOK
<1>2. Su!TypeOK'
  BY <1>1 DEF Su!TypeOK, Su!Connect, Su!SudoAssumption
<1>3. SudoOverMade'
  BY <1>1 DEF SudoOverMade, Su!Connect
<1>4. NewKeepNothing'
  BY <1>1 DEF NewKeepNothing, Su!Connect, Su!All
<1>5. Su!KeptWasAccepted'
  BY <1>1 DEF Su!KeptWasAccepted, NewKeepNothing, Su!Connect, Su!TypeOK, Su!All
<1>6. QED  BY <1>2, <1>3, <1>4, <1>5

LEMMA SudoAcceptedKeeps ==
  ASSUME Su!SudoAssumption, SudoInv, NEW c \in Pair, Su!Accepted(c) PROVE SudoInv'
<1> USE DEF SudoInv
<1>1. v7[c].on \in Su!All /\ v7[c].on <= v2 /\ v2 \in Nat
  BY DEF Su!SudoAssumption, SudoOverMade, Su!Accepted, Su!All, Su!TypeOK
<1>2. v7[c].typed \in Passwords /\ v5' = [v5 EXCEPT ![v7[c].on] = v7[c].typed]
  BY <1>1 DEF Su!Accepted, Su!KeptBy, Su!TypeOK
<1>3. Su!TypeOK'
  <2>1. v5' \in [Su!All -> Passwords \cup {NoPassword}]
    BY <1>1, <1>2 DEF Su!TypeOK
  <2>2. v7'  \in [Pair -> [step : {"idle", "checking"}, on : 0 .. SudoSessions,
                              typed : Passwords \cup {NoPassword}]]
    BY DEF Su!Accepted, Su!TypeOK, Su!Idle, Su!SudoAssumption
  <2>3. QED  BY <2>1, <2>2 DEF Su!TypeOK, Su!Accepted
<1>4. SudoOverMade'
  BY DEF SudoOverMade, Su!Accepted, Su!Idle, Su!TypeOK
<1>5. NewKeepNothing'
  BY <1>1, <1>2 DEF NewKeepNothing, Su!Accepted, Su!TypeOK, Su!All
<1>6. Su!KeptWasAccepted'
  BY <1>1, <1>2 DEF Su!KeptWasAccepted, Su!Accepted, Su!TypeOK
<1>7. QED  BY <1>3, <1>4, <1>5, <1>6

LEMMA SudoCallKeeps ==
  ASSUME Su!SudoAssumption, SudoInv, NEW c \in Pair,
         Su!Resolve(c) \/ Su!Refused(c) \/ \E p \in Passwords : Su!Check(c, p)
  PROVE  SudoInv'
<1> USE DEF SudoInv
<1>1. UNCHANGED <<v1, v2, v3, v4, v5, v6>>
  BY DEF Su!Resolve, Su!Refused, Su!Check
<1>2. CASE Su!Resolve(c)
  BY <1>2 DEF Su!Resolve, Su!TypeOK, SudoOverMade, NewKeepNothing, Su!KeptWasAccepted
<1>3. CASE Su!Refused(c)
  <2>1. Su!TypeOK' /\ SudoOverMade'
    BY <1>1, <1>3 DEF Su!Refused, Su!TypeOK, SudoOverMade, Su!Idle, Su!SudoAssumption
  <2>2. QED  BY <1>1, <2>1 DEF NewKeepNothing, Su!KeptWasAccepted
<1>4. ASSUME NEW p \in Passwords, Su!Check(c, p) PROVE SudoInv'
  <2>1. v1 \in 1 .. v2 /\ v1 \in 0 .. SudoSessions
    BY <1>4 DEF Su!Check, Su!TypeOK, Su!SudoAssumption
  <2>2. Su!TypeOK' /\ SudoOverMade'
    BY <1>1, <1>4, <2>1 DEF Su!Check, Su!TypeOK, SudoOverMade
  <2>3. QED  BY <1>1, <2>2 DEF NewKeepNothing, Su!KeptWasAccepted
<1>5. QED  BY <1>2, <1>3, <1>4

LEMMA StepKeepsSudo ==
  ASSUME Su!SudoAssumption, SudoInv, [Su!Next]_(Su!vars) PROVE SudoInv'
<1>1. ASSUME NEW b \in BOOLEAN, Su!Connect(b) PROVE SudoInv'
  BY <1>1, SudoConnectKeeps
<1>2. CASE Su!Disconnect
  BY <1>2 DEF Su!Disconnect, SudoInv, Su!TypeOK, SudoOverMade, NewKeepNothing,
              Su!KeptWasAccepted, Su!SudoAssumption
<1>3. CASE Su!Forget
  BY <1>3 DEF Su!Forget, SudoInv, Su!TypeOK, SudoOverMade, NewKeepNothing, Su!KeptWasAccepted
<1>4. ASSUME NEW c \in Pair, Su!Accepted(c) PROVE SudoInv'
  BY <1>4, SudoAcceptedKeeps
<1>5. ASSUME NEW c \in Pair,
             Su!Resolve(c) \/ Su!Refused(c) \/ \E p \in Passwords : Su!Check(c, p)
      PROVE  SudoInv'
  BY <1>5, SudoCallKeeps
<1>6. CASE UNCHANGED Su!vars
  BY <1>6 DEF Su!vars, SudoInv, Su!TypeOK, SudoOverMade, NewKeepNothing, Su!KeptWasAccepted
<1>7. QED  BY <1>1, <1>2, <1>3, <1>4, <1>5, <1>6 DEF Su!Next

-----------------------------------------------------------------------------
(* Power.  What the machine does on the command for a request that is not  *)
(* refused is what was asked, on whatever family it is thought to be.      *)
LEMMA DoesAsWanted ==
  ASSUME NEW r \in Po!Requests, r.delay \in Nat, NEW v, v.os \in Po!Families, ~Po!Refuses(r, v)
  PROVE  Po!Does(Po!CommandFor(r, v)) = Po!Wanted(r)
<1>1. r.action \in {"shutdown", "reboot", "cancel"}
  BY DEF Po!Requests
<1>2. CASE v.os = "windows"
  <2>1. Po!CommandFor(r, v) = Po!WindowsCommand(r)
    BY <1>2 DEF Po!CommandFor
  <2>2. CASE r.action = "cancel"
    BY <2>1, <2>2 DEF Po!WindowsCommand, Po!Does, Po!Wanted
  <2>3. CASE r.action # "cancel"
    <3>1. Po!WindowsCommand(r)
            = [tool |-> "shutdown.exe", verb |-> r.action, delay |-> r.delay * 60]
      BY <2>3 DEF Po!WindowsCommand
    <3>2. QED  BY <2>1, <2>3, <3>1 DEF Po!Does, Po!Wanted
  <2>4. QED  BY <2>2, <2>3
<1>3. CASE v.os # "windows" /\ (v.os = "macos" \/ v.platform.shutdown)
  <2>1. PICK m \in BOOLEAN : Po!CommandFor(r, v) = Po!UnixCommand(r, m)
    BY <1>3 DEF Po!CommandFor
  <2>2. CASE r.action = "cancel"
    <3>1. Po!UnixCommand(r, m).verb = "cancel"
      BY <2>2 DEF Po!UnixCommand
    <3>2. QED  BY <2>1, <2>2, <3>1 DEF Po!Does, Po!Wanted
  <2>3. CASE r.action # "cancel"
    <3>1. Po!UnixCommand(r, m) = [tool |-> "shutdown", verb |-> r.action, delay |-> r.delay]
      BY <2>3 DEF Po!UnixCommand
    <3>2. QED  BY <2>1, <2>3, <3>1 DEF Po!Does, Po!Wanted
  <2>4. QED  BY <2>2, <2>3
<1>4. CASE v.os \notin {"windows", "macos"} /\ ~v.platform.shutdown
  <2>1. ~Po!BusyboxRefuses(r)
    BY <1>4 DEF Po!Refuses, Po!Families
  <2>2. r.action # "cancel" /\ r.delay = 0
    BY <2>1 DEF Po!BusyboxRefuses
  <2>3. Po!CommandFor(r, v) = Po!BusyboxCommand(r)
    BY <1>4 DEF Po!CommandFor
  <2>4. Po!BusyboxCommand(r).verb = r.action /\ Po!BusyboxCommand(r).tool # "shutdown.exe"
        /\ Po!BusyboxCommand(r).delay = 0
    BY DEF Po!BusyboxCommand
  <2>5. QED  BY <2>2, <2>3, <2>4 DEF Po!Does, Po!Wanted
<1>5. QED  BY <1>2, <1>3, <1>4

(* A plan that runs is the command for what was asked, not refused.        *)
Planned ==
  v4 # <<>> /\ v4[1] = "run" =>
    \E v \in {v3[1]} : ~Po!Refuses(v2, v) /\ v4[2] = Po!CommandFor(v2, v)

Viewed == v3 # <<>> => v3[1].os \in Po!Families

(* The inductive invariant of Power.                                       *)
PowerInv == v2 \in Po!Requests /\ Viewed /\ (v4 # <<>> => v3 # <<>>) /\ Planned /\ Po!AsAsked

LEMMA InitPower == ASSUME Po!Init PROVE PowerInv
BY DEF Po!Init, PowerInv, Viewed, Planned, Po!AsAsked

LEMMA StepKeepsPower == ASSUME PowerInv, [Po!Next]_(Po!vars) PROVE PowerInv'
<1> USE DEF PowerInv
<1>1. CASE Po!Detect
  <2>1. \A words : Po!ClassifyOs(words) \in Po!Families
    BY DEF Po!ClassifyOs, Po!Families
  <2>2. Viewed'
    BY <1>1, <2>1 DEF Po!Detect, Viewed
  <2>3. v4 = <<>>
    BY <1>1 DEF Po!Detect
  <2>4. QED  BY <1>1, <2>2, <2>3 DEF Po!Detect, Planned, Po!AsAsked, Po!Wanted
<1>2. CASE Po!Plan
  <2>1. Planned'
    BY <1>2 DEF Po!Plan, Planned
  <2>2. v6' \in {v6, "refused"} /\ UNCHANGED <<v1, v2, v3, v5>> /\ v3 # <<>>
    BY <1>2 DEF Po!Plan
  <2>3. QED  BY <2>1, <2>2 DEF Viewed, Po!AsAsked
<1>3. ASSUME NEW password \in {"none", "right", "wrong"}, Po!Run(password) PROVE PowerInv'
  <2>1. UNCHANGED <<v1, v2, v3, v4>> /\ v4 # <<>> /\ v4[1] = "run"
    BY <1>3 DEF Po!Run
  <2>2. CASE v6' # "done"
    BY <2>1, <2>2 DEF Viewed, Planned, Po!AsAsked
  <2>3. CASE v6' = "done"
    <3>1. v5' = Po!Does(v4[2])
      BY <1>3, <2>3 DEF Po!Run, Po!Interpret
    <3>2. v5' = Po!Wanted(v2)
      BY <2>1, <3>1, PartsAssumption, DoesAsWanted DEF Planned, Viewed, Po!Requests
    <3>3. QED  BY <2>1, <3>2 DEF Viewed, Planned, Po!AsAsked
  <2>4. QED  BY <2>2, <2>3
<1>4. CASE UNCHANGED Po!vars
  BY <1>4 DEF Po!vars, Viewed, Planned, Po!AsAsked
<1>5. QED  BY <1>1, <1>2, <1>3, <1>4 DEF Po!Next

-----------------------------------------------------------------------------
(* Metrics.  What the host is, and what it may answer.                     *)
HostStates ==
  [cpu : [busy : Nat, total : Nat], count : [Me!Devices -> Nat], carried : [Me!Devices -> Nat]]
Answers ==
  [of : Nat, with : Parts, cpu : [busy : Nat, total : Nat], count : [Me!Devices -> Nat],
   carried : [Me!Devices -> Nat]]
Samplings ==
  [stage : {"idle", "asked", "answered"}, id : Nat, answer : {<<>>} \cup {<<a>> : a \in Answers}]
Sampler(lines, answers) == <<[asked |-> lines, answers |-> answers]>>

MetricsTyped ==
  /\ v2 \in Int /\ v3 \in HostStates /\ v9 \in Nat
  /\ v7 \subseteq Pair /\ v8 \in [Pair -> Samplings]

(* Whoever waits for the sampler is alone, and in it is nothing but its    *)
(* request or the answer to it.                                            *)
AloneAtSampler ==
  /\ v1 # "windows" => v6 = <<>> /\ v7 = {}
  /\ v1 = "windows" => \A c \in Pair : v8[c].stage = "asked" => c \in v7
  /\ \A c, d \in v7 : c = d
  /\ v7 = {} => v6 = <<>> \/ v6 = Sampler(<<>>, <<>>)
  /\ \A c \in v7 :
       /\ v8[c].stage = "asked"
       /\ \/ v6 = Sampler(<<v8[c].id>>, <<>>)
          \/ \E a \in Answers : a.of = v8[c].id /\ v6 = Sampler(<<>>, <<a>>)

OwnAnswer ==
  \A c \in Pair : v8[c].stage = "answered" =>
    \E a \in Answers : v8[c].answer = <<a>> /\ a.of = v8[c].id

(* A reading that is kept is of an answer, without the devices that never  *)
(* carried a byte.                                                         *)
ReadOf(x, a, t) ==
  \E on \in SUBSET Me!Devices :
    /\ \A d \in on : a.count[d] > 0
    /\ x = <<[at |-> t, answer |-> a, count |-> [d \in on |-> a.count[d]]]>>
Reading(x) == x # <<>> => \E a \in Answers, t \in Int : ReadOf(x, a, t)
ReadingsKept == \A s \in {"net", "disk"} : Reading(v5[s])

(* What the host was no later.                                             *)
Earlier(a, b) ==
  \A d \in Me!Devices :
    /\ a.carried[d] <= b.carried[d]
    /\ b.count[d] - a.count[d] <= b.carried[d] - a.carried[d]
    /\ a.carried[d] = b.carried[d] => b.count[d] \in {0, a.count[d]}

(* The answers that are somewhere on their way, or kept.                   *)
Taken ==
  {a \in Answers : \/ \E c \in Pair : v8[c].answer = <<a>>
                   \/ v6 = Sampler(<<>>, <<a>>)
                   \/ \E s \in {"net", "disk"} : v5[s] # <<>> /\ v5[s][1].answer = a}
InTime == \A a \in Taken : Earlier(a, v3) /\ \A b \in Taken : Earlier(a, b) \/ Earlier(b, a)

(* The inductive invariant of Metrics.                                     *)
MetricsInv ==
  /\ MetricsTyped /\ AloneAtSampler /\ OwnAnswer /\ ReadingsKept /\ InTime
  /\ Me!AnswersItsOwn /\ Me!NeverMoreThanCarried

LEMMA InitMetrics == ASSUME Me!Init PROVE MetricsInv
<1>1. MetricsTyped
  <2>1. v3 \in HostStates
    BY DEF Me!Init, HostStates
  <2>2. v8 \in [Pair -> Samplings]
    BY DEF Me!Init, Me!Idle, Samplings
  <2>3. QED  BY <2>1, <2>2 DEF Me!Init, MetricsTyped
<1>2. AloneAtSampler /\ OwnAnswer
  BY DEF Me!Init, AloneAtSampler, OwnAnswer, Me!Idle
<1>3. ReadingsKept
  BY DEF Me!Init, ReadingsKept, Reading, Me!NoReadings
<1>4. InTime
  <2>1. \A a : <<>> # <<a>>
    OBVIOUS
  <2>2. \A a : <<>> # Sampler(<<>>, <<a>>)
    BY DEF Sampler
  <2>3. Taken = {}
    BY <2>1, <2>2 DEF Me!Init, Taken, Me!NoReadings, Me!Idle
  <2>4. QED  BY <2>3 DEF InTime
<1>5. Me!AnswersItsOwn /\ Me!NeverMoreThanCarried
  BY DEF Me!Init, Me!AnswersItsOwn, Me!NeverMoreThanCarried
<1>6. QED  BY <1>1, <1>2, <1>3, <1>4, <1>5 DEF MetricsInv


(* Two readings, and the rate between them: no device is said to have      *)
(* moved more than it did.                                                 *)
Rate(a, b, t, u, on, by, total) ==
  [elapsed |-> u - t,
   moved |-> [d \in {e \in on \cap by : b.count[e] >= a.count[e]} |-> b.count[d] - a.count[d]],
   total |-> total, from |-> a, to |-> b]

RightRate(r) ==
  /\ r.elapsed > 0
  /\ Me!InOrder(r) => \A d \in DOMAIN r.moved :
       0 <= r.moved[d] /\ r.moved[d] <= r.to.carried[d] - r.from.carried[d]

LEMMA RateIsRight ==
  ASSUME NEW a \in Answers, NEW b \in Answers, Earlier(a, b) \/ Earlier(b, a),
         NEW t \in Int, NEW u \in Int, u - t > 0, NEW total,
         NEW on \in SUBSET Me!Devices, NEW by \in SUBSET Me!Devices, \A d \in on : a.count[d] > 0
  PROVE  RightRate(Rate(a, b, t, u, on, by, total))
<1> DEFINE r == Rate(a, b, t, u, on, by, total)
<1>1. r.elapsed = u - t /\ r.from = a /\ r.to = b
  BY DEF Rate
<1>2. \A d \in DOMAIN r.moved :
        /\ d \in on /\ d \in by /\ b.count[d] >= a.count[d]
        /\ r.moved[d] = b.count[d] - a.count[d]
  BY DEF Rate
<1> HIDE DEF r
<1>3. ASSUME Me!InOrder(r), NEW d \in DOMAIN r.moved
      PROVE  0 <= r.moved[d] /\ r.moved[d] <= b.carried[d] - a.carried[d]
  <2>1. d \in Me!Devices /\ a.carried[d] <= b.carried[d] /\ a.count[d] > 0
    BY <1>1, <1>2, <1>3 DEF Me!InOrder
  <2>2. /\ a.count[d] \in Nat /\ b.count[d] \in Nat
        /\ a.carried[d] \in Nat /\ b.carried[d] \in Nat
    BY <2>1 DEF Answers
  <2>3. 0 <= r.moved[d] /\ r.moved[d] = b.count[d] - a.count[d]
    BY <1>2, <1>3, <2>2
  <2>4. CASE Earlier(a, b)
    BY <2>1, <2>2, <2>3, <2>4 DEF Earlier
  <2>5. CASE Earlier(b, a)
    <3>1. a.count[d] \in {0, b.count[d]} /\ b.carried[d] = a.carried[d]
      BY <2>1, <2>2, <2>5 DEF Earlier
    <3>2. QED  BY <2>1, <2>2, <2>3, <3>1
  <2>6. QED  BY <2>4, <2>5
<1>4. r.elapsed > 0
  BY <1>1
<1>5. RightRate(r)
  BY <1>1, <1>3, <1>4 DEF RightRate
<1>6. QED  BY <1>5 DEF r

LEMMA OneRate ==
  ASSUME NEW x, x = <<>> \/ \E r : RightRate(r) /\ x = <<r>>
  PROVE  \A r \in Me!Range(x) : RightRate(r)
BY DEF Me!Range

(* Both rates are of that form.                                            *)
LEMMA RatesOf ==
  ASSUME NEW a \in Answers, NEW b \in Answers, Earlier(a, b) \/ Earlier(b, a),
         NEW t \in Int, NEW u \in Int,
         NEW on \in SUBSET Me!Devices, NEW by \in SUBSET Me!Devices, \A d \in on : a.count[d] > 0,
         NEW before, NEW after,
         before = [at |-> t, answer |-> a, count |-> [d \in on |-> a.count[d]]],
         after = [at |-> u, answer |-> b, count |-> [d \in by |-> b.count[d]]]
  PROVE  /\ \A r \in Me!Range(Me!NetworkRate(before, after)) : RightRate(r)
         /\ \A r \in Me!Range(Me!DiskIoRate(before, after)) : RightRate(r)
<1>1. Me!Grown(before, after) = {e \in on \cap by : b.count[e] >= a.count[e]}
  BY DEF Me!Grown
<1> DEFINE moved ==
             [d \in {e \in on \cap by : b.count[e] >= a.count[e]} |-> b.count[d] - a.count[d]]
<1>2. \A d \in {e \in on \cap by : b.count[e] >= a.count[e]} :
        after.count[d] - before.count[d] = b.count[d] - a.count[d]
  OBVIOUS
<1>3. [d \in Me!Grown(before, after) |-> after.count[d] - before.count[d]] = moved
  BY <1>1, <1>2
<1>4. after.at - before.at = u - t /\ before.answer = a /\ after.answer = b
  OBVIOUS
<1>5. \/ Me!NetworkRate(before, after) = <<>>
      \/ /\ ~(u - t <= 0)
         /\ \E total : Me!NetworkRate(before, after) = <<Rate(a, b, t, u, on, by, total)>>
  BY <1>3, <1>4, Zenon DEF Me!NetworkRate, Me!Rates, Rate
<1>6. \/ Me!DiskIoRate(before, after) = <<>>
      \/ /\ ~(u - t <= 0)
         /\ \E total : Me!DiskIoRate(before, after) = <<Rate(a, b, t, u, on, by, total)>>
  BY <1>3, <1>4, Zenon DEF Me!DiskIoRate, Me!Rates, Rate
<1>7. \A total : ~(u - t <= 0) => RightRate(Rate(a, b, t, u, on, by, total))
  <2>1. ASSUME NEW total, ~(u - t <= 0) PROVE RightRate(Rate(a, b, t, u, on, by, total))
    <3>1. u - t > 0
      BY <2>1
    <3>2. QED  BY <3>1, RateIsRight
  <2>2. QED  BY <2>1
<1>8. \A x : x = <<>> \/ (~(u - t <= 0) /\ \E total : x = <<Rate(a, b, t, u, on, by, total)>>)
        => \A r \in Me!Range(x) : RightRate(r)
  BY <1>7, OneRate, Zenon
<1>9. QED  BY <1>5, <1>6, <1>8, Zenon

LEMMA Singles ==
  \A x : /\ <<x>>[1] = x /\ <<x>> # <<>> /\ Head(<<x>>) = x
         /\ Tail(<<x>>) = <<>> /\ Append(<<>>, x) = <<x>>
OBVIOUS

LEMMA SamplerIs ==
  \A p, q : /\ Sampler(p, q) # <<>>
            /\ Sampler(p, q)[1] = [asked |-> p, answers |-> q]
            /\ Sampler(p, q)[1].asked = p /\ Sampler(p, q)[1].answers = q
BY DEF Sampler

LEMMA SamplerOnly ==
  \A p, q, r, s : Sampler(p, q) = Sampler(r, s) => p = r /\ q = s
<1>1. ASSUME NEW p, NEW q, NEW r, NEW s, Sampler(p, q) = Sampler(r, s) PROVE p = r /\ q = s
  BY <1>1, SamplerIs
<1>2. QED  BY <1>1

(* What a step leaves of the invariant when it takes nothing new.          *)
LEMMA NothingNew ==
  ASSUME MetricsInv, Taken' \subseteq Taken, UNCHANGED v3 PROVE InTime'
BY DEF MetricsInv, InTime, Earlier

(* What the host answers now is later than all it answered.                *)
LEMMA AnswersNow ==
  ASSUME MetricsInv, NEW id \in Nat, NEW with \in Parts
  PROVE  Me!Answer(id, with) \in Answers /\ Earlier(Me!Answer(id, with), v3)
<1>1. Me!Answer(id, with) \in Answers
  BY DEF MetricsInv, MetricsTyped, HostStates, Answers, Me!Answer
<1>2. \A d \in Me!Devices : v3.count[d] \in Nat /\ v3.carried[d] \in Nat
  BY DEF MetricsInv, MetricsTyped, HostStates
<1>3. Earlier(Me!Answer(id, with), v3)
  BY <1>2 DEF Me!Answer, Earlier
<1>4. QED  BY <1>1, <1>3

LEMMA OneNew ==
  ASSUME MetricsInv, NEW id \in Nat, NEW with \in Parts,
         Taken' \subseteq Taken \cup {Me!Answer(id, with)}, UNCHANGED v3
  PROVE  InTime'
<1> DEFINE new == Me!Answer(id, with)
<1>1. new \in Answers /\ Earlier(new, v3) /\ new.count = v3.count /\ new.carried = v3.carried
  BY AnswersNow DEF Me!Answer
<1> HIDE DEF new
<1>2. \A a \in Taken : Earlier(a, v3) => Earlier(a, new)
  BY <1>1 DEF Earlier
<1>3. Earlier(new, new)
  BY <1>1 DEF Earlier
<1>4. \A a, b \in Taken \cup {new} : Earlier(a, v3) /\ (Earlier(a, b) \/ Earlier(b, a))
  BY <1>1, <1>2, <1>3 DEF MetricsInv, InTime
<1>5. QED  BY <1>4 DEF InTime, Earlier, new

(* The host goes on.                                                       *)
LEMMA HostGoesOn ==
  ASSUME MetricsInv, v3' \in HostStates, Earlier(v3, v3'),
         UNCHANGED <<v5, v6, v8>>
  PROVE  InTime'
<1>1. Taken' = Taken
  BY DEF Taken
<1>2. \A a \in Taken : Earlier(a, v3')
  <2>1. ASSUME NEW a \in Taken, NEW d \in Me!Devices
        PROVE  /\ a.carried[d] <= v3'.carried[d]
               /\ v3'.count[d] - a.count[d] <= v3'.carried[d] - a.carried[d]
               /\ a.carried[d] = v3'.carried[d] => v3'.count[d] \in {0, a.count[d]}
    <3>1. /\ a.carried[d] \in Nat /\ a.count[d] \in Nat
          /\ v3.carried[d] \in Nat /\ v3.count[d] \in Nat
          /\ v3'.carried[d] \in Nat /\ v3'.count[d] \in Nat
      BY DEF Taken, Answers, MetricsInv, MetricsTyped, HostStates
    <3>2. /\ a.carried[d] <= v3.carried[d]
          /\ v3.count[d] - a.count[d] <= v3.carried[d] - a.carried[d]
          /\ a.carried[d] = v3.carried[d] => v3.count[d] \in {0, a.count[d]}
      BY DEF MetricsInv, InTime, Earlier
    <3>3. /\ v3.carried[d] <= v3'.carried[d]
          /\ v3'.count[d] - v3.count[d] <= v3'.carried[d] - v3.carried[d]
          /\ v3.carried[d] = v3'.carried[d] => v3'.count[d] \in {0, v3.count[d]}
      BY DEF Earlier
    <3>4. QED  BY <3>1, <3>2, <3>3
  <2>2. QED  BY <2>1 DEF Earlier
<1>3. QED  BY <1>1, <1>2 DEF MetricsInv, InTime, Earlier

(* The steps that leave what is kept and shown as it is.                   *)
LEMMA StillShown ==
  ASSUME MetricsInv, UNCHANGED <<v5, v10>>
  PROVE  ReadingsKept' /\ (Me!AnswersItsOwn /\ Me!NeverMoreThanCarried)'
BY DEF MetricsInv, ReadingsKept, Reading, Me!AnswersItsOwn, Me!NeverMoreThanCarried, Me!InOrder

LEMMA AskKeeps ==
  ASSUME MetricsInv, NEW c \in Pair, Me!Ask(c) PROVE MetricsInv'
<1> DEFINE waits == [stage |-> "asked", id |-> v9 + 1, answer |-> <<>>]
<1>1. /\ v8[c] = Me!Idle /\ v8' = [v8 EXCEPT ![c] = waits] /\ v9' = v9 + 1
      /\ UNCHANGED <<v1, v2, v3, v4, v5, v10>>
  BY DEF Me!Ask
<1>2. /\ v9 \in Nat /\ v8 \in [Pair -> Samplings] /\ v8[c].stage = "idle"
      /\ waits \in Samplings /\ waits.stage = "asked" /\ waits.id = v9 + 1 /\ waits.answer = <<>>
  BY <1>1 DEF MetricsInv, MetricsTyped, Samplings, Me!Idle
<1> HIDE DEF waits
<1>3. v8'[c] = waits /\ (\A d \in Pair : d # c => v8'[d] = v8[d]) /\ v8' \in [Pair -> Samplings]
  BY <1>1, <1>2
<1>4. ASSUME v1 = "windows" PROVE v6' = Sampler(<<v9 + 1>>, <<>>)
  <2>1. v7 = {}
    BY <1>4 DEF Me!Ask
  <2>2. CASE v6 = <<>>
    BY <1>4, <2>2 DEF Me!Ask, Sampler
  <2>3. CASE v6 = Sampler(<<>>, <<>>)
    <3>1. v6 # <<>> /\ v6[1] = [asked |-> <<>>, answers |-> <<>>]
      BY <2>3, SamplerIs
    <3>2. v6' = <<[v6[1] EXCEPT !.asked = Append(@, v9 + 1)]>>
      BY <1>4, <3>1 DEF Me!Ask
    <3>3. QED  BY <3>1, <3>2, Singles DEF Sampler
  <2>4. QED  BY <2>1, <2>2, <2>3 DEF MetricsInv, AloneAtSampler
<1>5. MetricsTyped' /\ AloneAtSampler'
  <2>1. CASE v1 # "windows"
    <3>1. v6' = v6 /\ v7' = v7 /\ v6 = <<>> /\ v7 = {}
      BY <2>1 DEF Me!Ask, MetricsInv, AloneAtSampler
    <3>2. QED  BY <1>1, <1>2, <1>3, <2>1, <3>1 DEF MetricsInv, MetricsTyped, AloneAtSampler
  <2>2. CASE v1 = "windows"
    <3>1. v7 = {} /\ v7' = {c}
      BY <2>2 DEF Me!Ask
    <3>2. v6' = Sampler(<<v9 + 1>>, <<>>)
      BY <1>4, <2>2
    <3>3. MetricsTyped'
      BY <1>1, <1>2, <1>3, <3>1 DEF MetricsInv, MetricsTyped
    <3>4. \A d \in Pair : v8'[d].stage = "asked" => d \in v7'
      BY <1>3, <2>2, <3>1 DEF MetricsInv, AloneAtSampler
    <3>5. QED  BY <1>1, <1>2, <1>3, <2>2, <3>1, <3>2, <3>3, <3>4 DEF AloneAtSampler
  <2>3. QED  BY <2>1, <2>2
<1>6. OwnAnswer'
  BY <1>2, <1>3 DEF MetricsInv, OwnAnswer
<1>7. InTime'
  <2>1. \A a : v6' = Sampler(<<>>, <<a>>) => v6 = Sampler(<<>>, <<a>>)
    <3>1. CASE v1 # "windows"
      BY <3>1 DEF Me!Ask
    <3>2. CASE v1 = "windows"
      <4>1. v6' = Sampler(<<v9 + 1>>, <<>>) /\ \A a : <<>> # <<a>>
        BY <1>4, <3>2
      <4>2. QED  BY <4>1, SamplerOnly
    <3>3. QED  BY <3>1, <3>2
  <2>2. \A a : <<>> # <<a>>
    OBVIOUS
  <2>3. Taken' \subseteq Taken
    BY <1>1, <1>2, <1>3, <2>1, <2>2 DEF Taken
  <2>4. QED  BY <1>1, <2>3, NothingNew
<1>8. QED  BY <1>1, <1>5, <1>6, <1>7, StillShown DEF MetricsInv

LEMMA HostRunsKeeps ==
  ASSUME MetricsInv, NEW c \in Pair, NEW with \in Parts, Me!HostRuns(c, with)
  PROVE  MetricsInv'
<1> DEFINE new == Me!Answer(v8[c].id, with)
           now == [v8[c] EXCEPT !.stage = "answered", !.answer = <<new>>]
<1>1. /\ v8[c].stage = "asked" /\ v1 # "windows"
      /\ UNCHANGED <<v1, v2, v3, v4, v5, v6, v7, v9, v10>>
  BY DEF Me!HostRuns
<1>2. v8 \in [Pair -> Samplings] /\ v8[c] \in Samplings /\ v8[c].id \in Nat
  BY DEF MetricsInv, MetricsTyped, Samplings
<1>3. new \in Answers /\ new.of = v8[c].id
  BY <1>2, AnswersNow DEF Me!Answer
<1>4. v8' = [v8 EXCEPT ![c] = now]
  BY <1>2 DEF Me!HostRuns, Samplings
<1> HIDE DEF new
<1>5. now \in Samplings /\ now.stage = "answered" /\ now.answer = <<new>> /\ now.id = v8[c].id
  BY <1>2, <1>3 DEF Samplings
<1> HIDE DEF now
<1>6. v8'[c] = now /\ (\A d \in Pair : d # c => v8'[d] = v8[d]) /\ v8' \in [Pair -> Samplings]
  BY <1>2, <1>4, <1>5
<1>7. MetricsTyped' /\ AloneAtSampler'
  BY <1>1, <1>6 DEF MetricsInv, MetricsTyped, AloneAtSampler
<1>8. OwnAnswer'
  BY <1>3, <1>5, <1>6 DEF MetricsInv, OwnAnswer
<1>9. InTime'
  <2>1. \A a : now.answer = <<a>> => a = new
    BY <1>5
  <2>2. Taken' \subseteq Taken \cup {new}
    BY <1>1, <1>6, <2>1 DEF Taken
  <2>3. QED  BY <1>1, <1>2, <2>2, OneNew DEF new
<1>10. QED  BY <1>1, <1>7, <1>8, <1>9, StillShown DEF MetricsInv

LEMMA SamplerKeeps ==
  ASSUME MetricsInv, NEW with \in Parts, Me!SamplerAnswers(with)
  PROVE  MetricsInv'
<1>1. /\ v6 # <<>> /\ v6[1].asked # <<>>
      /\ UNCHANGED <<v1, v2, v3, v4, v5, v7, v8, v9, v10>>
  BY DEF Me!SamplerAnswers
<1>2. PICK c \in v7 : c \in Pair /\ v8[c].stage = "asked" /\ v6 = Sampler(<<v8[c].id>>, <<>>)
  <2>1. \A q : v6 # Sampler(<<>>, q)
    BY <1>1, SamplerIs, Zenon
  <2>2. QED  BY <1>1, <2>1 DEF MetricsInv, MetricsTyped, AloneAtSampler
<1> DEFINE new == Me!Answer(v8[c].id, with)
<1>3. v8[c].id \in Nat
  BY <1>2 DEF MetricsInv, MetricsTyped, Samplings
<1>4. new \in Answers /\ new.of = v8[c].id
  BY <1>3, AnswersNow DEF Me!Answer
<1>5. v6' = Sampler(<<>>, <<new>>)
  <2>1. v6[1].asked = <<v8[c].id>> /\ v6[1].answers = <<>>
    BY <1>2, SamplerIs
  <2>2. v6' = <<[asked |-> Tail(<<v8[c].id>>),
                 answers |-> Append(<<>>, Me!Answer(Head(<<v8[c].id>>), with))]>>
    BY <2>1 DEF Me!SamplerAnswers
  <2>3. QED  BY <2>2, Singles DEF Sampler
<1> HIDE DEF new
<1>6. AloneAtSampler'
  BY <1>1, <1>2, <1>4, <1>5 DEF MetricsInv, AloneAtSampler
<1>7. MetricsTyped' /\ OwnAnswer'
  BY <1>1 DEF MetricsInv, MetricsTyped, OwnAnswer
<1>8. InTime'
  <2>1. \A a : v6' = Sampler(<<>>, <<a>>) => a = new
    BY <1>5, SamplerOnly, Singles
  <2>2. Taken' \subseteq Taken \cup {new}
    BY <1>1, <2>1 DEF Taken
  <2>3. QED  BY <1>1, <1>3, <2>2, OneNew DEF new
<1>9. QED  BY <1>1, <1>6, <1>7, <1>8, StillShown DEF MetricsInv

LEMMA TakeLineKeeps ==
  ASSUME MetricsInv, NEW c \in Pair, Me!TakeLine(c) PROVE MetricsInv'
<1>1. /\ v8[c].stage = "asked" /\ c \in v7 /\ v6[1].answers # <<>> /\ v7' = {}
      /\ UNCHANGED <<v1, v2, v3, v4, v5, v9, v10>>
  BY DEF Me!TakeLine
<1>2. PICK a \in Answers : a.of = v8[c].id /\ v6 = Sampler(<<>>, <<a>>)
  <2>1. ASSUME NEW p, v6 = Sampler(p, <<>>) PROVE FALSE
    BY <1>1, <2>1, SamplerIs
  <2>2. QED  BY <1>1, <2>1 DEF MetricsInv, AloneAtSampler
<1> DEFINE now == [v8[c] EXCEPT !.stage = "answered", !.answer = <<a>>]
<1>3. v8 \in [Pair -> Samplings] /\ v8[c] \in Samplings
  BY DEF MetricsInv, MetricsTyped
<1>4. v6' = Sampler(<<>>, <<>>) /\ v8' = [v8 EXCEPT ![c] = now]
  <2>1. v6[1] = [asked |-> <<>>, answers |-> <<a>>]
    BY <1>2, SamplerIs
  <2>2. v6' = <<[v6[1] EXCEPT !.answers = Tail(<<a>>)]>>
    BY <2>1 DEF Me!TakeLine
  <2>3. v8' = [v8 EXCEPT ![c].stage = "answered", ![c].answer = <<Head(<<a>>)>>]
    BY <2>1 DEF Me!TakeLine
  <2>4. v6' = Sampler(<<>>, <<>>)
    BY <2>1, <2>2, Singles DEF Sampler
  <2>5. Head(<<a>>) = a
    BY Singles
  <2>6. v8' = [v8 EXCEPT ![c] = now]
    BY <1>3, <2>3, <2>5 DEF Samplings
  <2>7. QED  BY <2>4, <2>6
<1>5. now \in Samplings /\ now.stage = "answered" /\ now.answer = <<a>> /\ now.id = v8[c].id
  BY <1>3 DEF Samplings
<1> HIDE DEF now
<1>6. v8'[c] = now /\ (\A d \in Pair : d # c => v8'[d] = v8[d]) /\ v8' \in [Pair -> Samplings]
  BY <1>3, <1>4, <1>5
<1>7. v1 = "windows" /\ \A d \in v7 : d = c
  BY <1>1 DEF MetricsInv, AloneAtSampler
<1>8. \A d \in Pair : v8'[d].stage # "asked"
  BY <1>5, <1>6, <1>7 DEF MetricsInv, AloneAtSampler
<1>9. MetricsTyped' /\ AloneAtSampler'
  BY <1>1, <1>4, <1>6, <1>7, <1>8 DEF MetricsInv, MetricsTyped, AloneAtSampler
<1>10. OwnAnswer'
  BY <1>2, <1>5, <1>6 DEF MetricsInv, OwnAnswer
<1>11. InTime'
  <2>1. \A b : now.answer = <<b>> => v6 = Sampler(<<>>, <<b>>)
    BY <1>2, <1>5, Singles
  <2>2. \A b : v6' # Sampler(<<>>, <<b>>)
    BY <1>4, SamplerOnly, Singles
  <2>3. Taken' \subseteq Taken
    BY <1>1, <1>6, <2>1, <2>2 DEF Taken
  <2>4. QED  BY <1>1, <2>3, NothingNew
<1>12. QED  BY <1>1, <1>9, <1>10, <1>11, StillShown DEF MetricsInv

LEMMA AskFailsKeeps ==
  ASSUME MetricsInv, NEW c \in Pair, Me!AskFails(c) PROVE MetricsInv'
<1>1. /\ v8[c].stage = "asked" /\ v7' = v7 \ {c} /\ v8' = [v8 EXCEPT ![c] = Me!Idle]
      /\ v6' = IF c \in v7 THEN <<>> ELSE v6
      /\ UNCHANGED <<v1, v2, v3, v4, v5, v9, v10>>
  BY DEF Me!AskFails, Me!Dropped
<1>2. v8 \in [Pair -> Samplings] /\ Me!Idle \in Samplings
  BY DEF MetricsInv, MetricsTyped, Samplings, Me!Idle
<1>3. /\ v8'[c] = Me!Idle /\ (\A d \in Pair : d # c => v8'[d] = v8[d])
      /\ v8' \in [Pair -> Samplings]
  BY <1>1, <1>2
<1>4. Me!Idle.stage = "idle" /\ Me!Idle.answer = <<>>
  BY DEF Me!Idle
<1>5. MetricsTyped'
  BY <1>1, <1>3 DEF MetricsInv, MetricsTyped
<1>6. AloneAtSampler'
  <2>1. CASE c \in v7
    <3>1. v7' = {} /\ v6' = <<>>
      BY <1>1, <2>1 DEF MetricsInv, AloneAtSampler
    <3>2. \A d \in Pair : v1 = "windows" => v8'[d].stage # "asked"
      BY <1>3, <1>4, <2>1 DEF MetricsInv, AloneAtSampler
    <3>3. QED  BY <1>1, <3>1, <3>2 DEF AloneAtSampler
  <2>2. CASE c \notin v7
    <3>1. v7' = v7 /\ v6' = v6 /\ v1 # "windows"
      BY <1>1, <2>2 DEF MetricsInv, AloneAtSampler
    <3>2. QED  BY <1>1, <3>1 DEF MetricsInv, AloneAtSampler
  <2>3. QED  BY <2>1, <2>2
<1>7. OwnAnswer'
  BY <1>3, <1>4 DEF MetricsInv, OwnAnswer
<1>8. InTime'
  <2>1. \A a : <<>> # <<a>> /\ <<>> # Sampler(<<>>, <<a>>)
    BY SamplerIs, Singles
  <2>2. Taken' \subseteq Taken
    BY <1>1, <1>3, <1>4, <2>1 DEF Taken
  <2>3. QED  BY <1>1, <2>2, NothingNew
<1>9. QED  BY <1>1, <1>5, <1>6, <1>7, <1>8, StillShown DEF MetricsInv

LEMMA TakeKeeps ==
  ASSUME MetricsInv, NEW c \in Pair, Me!Take(c) PROVE MetricsInv'
<1>1. /\ v8[c].stage = "answered" /\ v8' = [v8 EXCEPT ![c] = Me!Idle]
      /\ UNCHANGED <<v1, v2, v3, v4, v6, v7, v9>>
  BY DEF Me!Take
<1>2. PICK b \in Answers : v8[c].answer = <<b>> /\ b.of = v8[c].id
  BY <1>1 DEF MetricsInv, OwnAnswer
<1> DEFINE current == Me!Readings(b)
<1>3. v5' = Me!Keep(current)
      /\ v10' = <<[of |-> v8[c].id, answer |-> b, rates |-> Me!HostMetrics(current)]>>
  BY <1>2, Singles DEF Me!Take
<1>4. v8 \in [Pair -> Samplings] /\ Me!Idle \in Samplings
      /\ Me!Idle.stage = "idle" /\ Me!Idle.answer = <<>>
  BY DEF MetricsInv, MetricsTyped, Samplings, Me!Idle
<1>5. /\ v8'[c] = Me!Idle /\ (\A d \in Pair : d # c => v8'[d] = v8[d])
      /\ v8' \in [Pair -> Samplings]
  BY <1>1, <1>4
<1>6. b \in Taken
  BY <1>2 DEF Taken
<1>7. \A s \in {"net", "disk"} : current[s] = <<>> \/ ReadOf(current[s], b, v2)
  <2>1. ASSUME NEW devices \in {Interfaces, Disks}, NEW section \in {"net", "disk"},
               Me!Counters(b, section, devices) # <<>>
        PROVE  ReadOf(Me!Counters(b, section, devices), b, v2)
    <3> DEFINE on == Me!Listed(b, devices)
    <3>1. on \in SUBSET Me!Devices /\ \A d \in on : b.count[d] > 0
      BY DEF Me!Listed, Me!Devices
    <3>2. Me!Counters(b, section, devices)
            = <<[at |-> v2, answer |-> b, count |-> [d \in on |-> b.count[d]]]>>
      BY <2>1 DEF Me!Counters, Me!Restrict
    <3> HIDE DEF on
    <3>3. QED  BY <3>1, <3>2 DEF ReadOf
  <2>2. current["net"] = Me!NetCounters(b) /\ current["disk"] = Me!DiskCounters(b)
    BY DEF Me!Readings
  <2>3. QED  BY <2>1, <2>2 DEF Me!NetCounters, Me!DiskCounters
<1> HIDE DEF current
<1>8. \A s \in {"net", "disk"} : v5'[s] = IF current[s] # <<>> THEN current[s] ELSE v5[s]
  BY <1>3 DEF Me!Keep, Me!Sections
<1>9. MetricsTyped' /\ v2 \in Int
  BY <1>1, <1>5 DEF MetricsInv, MetricsTyped
<1>10. AloneAtSampler' /\ OwnAnswer'
  <2>1. c \notin v7
    BY <1>1 DEF MetricsInv, AloneAtSampler
  <2>2. \A d \in v7 : v8'[d] = v8[d]
    BY <1>5, <2>1 DEF MetricsInv, MetricsTyped
  <2>3. AloneAtSampler'
    BY <1>1, <1>4, <1>5, <2>2, SMTT(20) DEF MetricsInv, AloneAtSampler
  <2>4. OwnAnswer'
    BY <1>4, <1>5 DEF MetricsInv, OwnAnswer
  <2>5. QED  BY <2>3, <2>4
<1>11. ReadingsKept'
  BY <1>7, <1>8, <1>9 DEF MetricsInv, ReadingsKept, Reading
<1>12. InTime'
  <2>1. \A a : <<>> # <<a>>
    BY Singles
  <2>2. \A s \in {"net", "disk"}, a \in Answers :
          ReadOf(current[s], b, v2) /\ current[s][1].answer = a => a = b
    BY Singles DEF ReadOf
  <2>3. Taken' \subseteq Taken
    BY <1>1, <1>4, <1>5, <1>6, <1>7, <1>8, <2>1, <2>2 DEF Taken
  <2>4. QED  BY <1>1, <2>3, NothingNew
<1>13. Me!AnswersItsOwn'
  BY <1>2, <1>3, Singles DEF Me!AnswersItsOwn
<1>14. Me!NeverMoreThanCarried'
  <2>1. ASSUME NEW s \in {"net", "disk"}, v5[s] # <<>>, current[s] # <<>>
        PROVE  /\ \A r \in Me!Range(Me!NetworkRate(v5[s][1], current[s][1])) : RightRate(r)
               /\ \A r \in Me!Range(Me!DiskIoRate(v5[s][1], current[s][1])) : RightRate(r)
    <3>1. PICK a \in Answers, t \in Int : ReadOf(v5[s], a, t)
      BY <2>1 DEF MetricsInv, ReadingsKept, Reading
    <3>2. ReadOf(current[s], b, v2)
      BY <1>7, <2>1
    <3>3. PICK on \in SUBSET Me!Devices :
            /\ \A d \in on : a.count[d] > 0
            /\ v5[s] = <<[at |-> t, answer |-> a, count |-> [d \in on |-> a.count[d]]]>>
      BY <3>1 DEF ReadOf
    <3>4. PICK by \in SUBSET Me!Devices :
            current[s] = <<[at |-> v2, answer |-> b, count |-> [d \in by |-> b.count[d]]]>>
      BY <3>2 DEF ReadOf
    <3>5. /\ v5[s][1] = [at |-> t, answer |-> a, count |-> [d \in on |-> a.count[d]]]
          /\ current[s][1] = [at |-> v2, answer |-> b, count |-> [d \in by |-> b.count[d]]]
      BY <3>3, <3>4, Singles, Zenon
    <3>6. a \in Taken
      BY <2>1, <3>5 DEF Taken
    <3>7. Earlier(a, b) \/ Earlier(b, a)
      BY <1>6, <3>6 DEF MetricsInv, InTime
    <3>8. QED  BY <1>9, <3>3, <3>5, <3>7, RatesOf
  <2>2. Me!Range(<<>>) = {}
    BY DEF Me!Range
  <2>3. /\ v10'[1].rates.net = Me!Between(v5["net"], current["net"], Me!NetworkRate)
        /\ v10'[1].rates.disk = Me!Between(v5["disk"], current["disk"], Me!DiskIoRate)
    BY <1>3 DEF Me!HostMetrics
  <2>4. /\ \A r \in Me!Range(v10'[1].rates.net) : RightRate(r)
        /\ \A r \in Me!Range(v10'[1].rates.disk) : RightRate(r)
    BY <2>1, <2>2, <2>3 DEF Me!Between
  <2>5. QED  BY <2>4 DEF Me!NeverMoreThanCarried, RightRate, Me!InOrder
<1>15. QED  BY <1>9, <1>10, <1>11, <1>12, <1>13, <1>14 DEF MetricsInv

LEMMA HostKeeps ==
  ASSUME MetricsInv, Me!HostSteps PROVE MetricsInv'
<1>1. UNCHANGED <<v1, v2, v5, v6, v7, v8, v9, v10>>
  BY DEF Me!HostSteps
<1>2. v3 \in HostStates
  BY DEF MetricsInv, MetricsTyped
<1>3. v3' \in HostStates /\ Earlier(v3, v3')
  <2>1. \A d \in Me!Devices : v3.count[d] \in Nat /\ v3.carried[d] \in Nat
    BY <1>2 DEF HostStates
  <2>2. ASSUME NEW d \in Me!Devices, Me!Counts(d) PROVE v3' \in HostStates /\ Earlier(v3, v3')
    <3>1. v3' = [cpu |-> v3.cpu, count |-> [v3.count EXCEPT ![d] = v3.count[d] + 1],
                 carried |-> [v3.carried EXCEPT ![d] = v3.carried[d] + 1]]
      BY <1>2, <2>2 DEF Me!Counts, HostStates
    <3>2. /\ v3'.cpu = v3.cpu /\ v3'.count = [v3.count EXCEPT ![d] = v3.count[d] + 1]
          /\ v3'.carried = [v3.carried EXCEPT ![d] = v3.carried[d] + 1]
          /\ v3' = [cpu |-> v3'.cpu, count |-> v3'.count, carried |-> v3'.carried]
      BY <3>1, Zenon
    <3>3. v3' \in HostStates
      BY <1>2, <2>1, <3>2 DEF HostStates
    <3>4. \A e \in Me!Devices :
            \/ v3'.count[e] = v3.count[e] /\ v3'.carried[e] = v3.carried[e]
            \/ v3'.count[e] = v3.count[e] + 1 /\ v3'.carried[e] = v3.carried[e] + 1
      BY <1>2, <3>2 DEF HostStates
    <3>5. QED  BY <2>1, <3>3, <3>4 DEF Earlier
  <2>3. ASSUME NEW d \in Me!Devices, Me!Recreated(d) PROVE v3' \in HostStates /\ Earlier(v3, v3')
    <3>1. v3' = [v3 EXCEPT !.count = [@ EXCEPT ![d] = 0]]
      BY <2>3 DEF Me!Recreated
    <3>2. /\ v3'.cpu = v3.cpu /\ v3'.count = [v3.count EXCEPT ![d] = 0] /\ v3'.carried = v3.carried
          /\ v3' = [cpu |-> v3'.cpu, count |-> v3'.count, carried |-> v3'.carried]
      BY <1>2, <3>1 DEF HostStates
    <3>3. v3' \in HostStates
      BY <1>2, <3>2 DEF HostStates
    <3>4. \A e \in Me!Devices :
            v3'.carried[e] = v3.carried[e] /\ v3'.count[e] \in {0, v3.count[e]}
      BY <1>2, <3>2 DEF HostStates
    <3>5. QED  BY <2>1, <3>3, <3>4 DEF Earlier
  <2>4. ASSUME NEW busy \in {0, 1}, Me!Works(busy) PROVE v3' \in HostStates /\ Earlier(v3, v3')
    <3>1. /\ v3'.count = v3.count /\ v3'.carried = v3.carried
          /\ v3'.cpu = [busy |-> v3.cpu.busy + busy, total |-> v3.cpu.total + 1]
          /\ v3' = [cpu |-> v3'.cpu, count |-> v3'.count, carried |-> v3'.carried]
      BY <1>2, <2>4 DEF Me!Works, HostStates
    <3>2. v3' \in HostStates
      BY <1>2, <3>1 DEF HostStates
    <3>3. QED  BY <2>1, <3>1, <3>2 DEF Earlier
  <2>5. QED  BY <2>2, <2>3, <2>4 DEF Me!HostSteps
<1>4. InTime'
  BY <1>1, <1>3, HostGoesOn
<1>5. MetricsTyped' /\ AloneAtSampler' /\ OwnAnswer'
  BY <1>1, <1>3 DEF MetricsInv, MetricsTyped, AloneAtSampler, OwnAnswer
<1>6. QED  BY <1>1, <1>4, <1>5, StillShown DEF MetricsInv

LEMMA StepKeepsMetrics == ASSUME MetricsInv, [Me!Next]_(Me!vars) PROVE MetricsInv'
<1>1. ASSUME UNCHANGED <<v1, v3, v5, v6, v7, v8, v9, v10>>, v2' \in Int PROVE MetricsInv'
  <2>1. Taken' \subseteq Taken
    BY <1>1 DEF Taken
  <2>2. InTime'
    BY <1>1, <2>1, NothingNew
  <2>3. MetricsTyped' /\ AloneAtSampler' /\ OwnAnswer'
    BY <1>1 DEF MetricsInv, MetricsTyped, AloneAtSampler, OwnAnswer
  <2>4. QED  BY <1>1, <2>2, <2>3, StillShown DEF MetricsInv
<1>2. v2 \in Int
  BY DEF MetricsInv, MetricsTyped
<1>3. CASE Me!Tick
  <2>1. v2' \in Int
    BY <1>2, <1>3 DEF Me!Tick
  <2>2. QED  BY <1>1, <1>3, <2>1 DEF Me!Tick
<1>4. CASE UNCHANGED Me!vars
  BY <1>1, <1>2, <1>4 DEF Me!vars
<1>5. QED
  BY <1>3, <1>4, AskKeeps, HostRunsKeeps, SamplerKeeps, TakeLineKeeps, AskFailsKeeps, TakeKeeps,
     HostKeeps DEF Me!Next

-----------------------------------------------------------------------------
(* Shells.  A call under way holds its session's lock while it opens, and  *)
(* had room under the cap when it took it.                                 *)

(* A call under way has its session, and beyond the cap also the lock, and *)
(* room.                                                                   *)
OpensOver == \A c \in Pair : v9[c].step # "idle" => v9[c].on \in Sh!All
OpensApart ==
  \A c \in Pair : v9[c].step = "opening" =>
    v8[v9[c].on] = c /\ Cardinality(v4[v9[c].on]) < MaxShells

AtMostCap == \A s \in Sh!All : Cardinality(v4[s]) <= MaxShells

(* What is parked and what is open has been given an id and is of its      *)
(* session; what is open is parked, or somebody is closing it.             *)
ParkedOwn == \A s \in Sh!All : \A i \in v4[s] : i <= v7 /\ v6[i] = s
OpenParked == \A i \in v5 : v6[i] \in Sh!All /\ (i \in v4[v6[i]] \/ i \in v10)
ClosingOld == \A i \in v10 : i <= v7

(* The inductive invariant.                                                *)
ShellInv ==
  Sh!TypeOK /\ OpensOver /\ OpensApart /\ AtMostCap /\ ParkedOwn /\ OpenParked /\ ClosingOld

-----------------------------------------------------------------------------
(* A session's map is finite, so that its size goes by ones.               *)
LEMMA ParkedFinite ==
  ASSUME Sh!ShellAssumption, NEW P, P \subseteq Sh!Ids
  PROVE  /\ IsFiniteSet(P) /\ Cardinality(P) \in Nat
         /\ \A i \in Sh!Ids : Cardinality(P \cup {i}) <= Cardinality(P) + 1
         /\ \A Q \in SUBSET P : Cardinality(Q) <= Cardinality(P) /\ Cardinality(Q) \in Nat
<1>1. IsFiniteSet(Sh!Ids)
  BY FS_Interval DEF Sh!Ids, Sh!ShellAssumption
<1>2. IsFiniteSet(P)
  BY <1>1, FS_Subset
<1>3. Cardinality(P) \in Nat
  BY <1>2, FS_CardinalityType
<1>4. \A i \in Sh!Ids : Cardinality(P \cup {i}) <= Cardinality(P) + 1
  <2>1. ASSUME NEW i \in Sh!Ids PROVE Cardinality(P \cup {i}) <= Cardinality(P) + 1
    BY <1>2, <1>3, FS_AddElement
  <2>2. QED  BY <2>1
<1>5. \A Q \in SUBSET P : Cardinality(Q) <= Cardinality(P) /\ Cardinality(Q) \in Nat
  BY <1>2, FS_Subset, FS_CardinalityType
<1>6. QED  BY <1>2, <1>3, <1>4, <1>5

LEMMA CountedAlike == \A S : Sh!Cardinality(S) = Cardinality(S)
BY DEF Sh!Cardinality, Cardinality

LEMMA NoneCounted == Cardinality({}) = 0
  BY FS_EmptySet

LEMMA InitShells == ASSUME Sh!ShellAssumption, Sh!Init PROVE ShellInv
<1>1. Sh!TypeOK
  BY DEF Sh!Init, Sh!TypeOK, Sh!Idle, Sh!ShellAssumption
<1>2. OpensOver /\ OpensApart
  BY DEF Sh!Init, OpensOver, OpensApart, Sh!Idle
<1>3. AtMostCap /\ ParkedOwn /\ OpenParked /\ ClosingOld
  BY NoneCounted DEF Sh!Init, AtMostCap, ParkedOwn, OpenParked, ClosingOld,
                     Sh!ShellAssumption
<1>4. QED  BY <1>1, <1>2, <1>3 DEF ShellInv

-----------------------------------------------------------------------------
LEMMA OpenShellKeeps ==
  ASSUME Sh!ShellAssumption, ShellInv, NEW c \in Pair,
         Sh!Require(c) \/ Sh!TakeLock(c) \/ Sh!TooMany(c) \/ Sh!OpenFails(c)
  PROVE  ShellInv'
<1> USE DEF ShellInv
<1>1. UNCHANGED <<v1, v2, v3, v4, v5, v6, v7, v10>>
  BY DEF Sh!Require, Sh!TakeLock, Sh!TooMany, Sh!OpenFails
<1>2. AtMostCap' /\ ParkedOwn' /\ OpenParked' /\ ClosingOld'
  BY <1>1 DEF AtMostCap, ParkedOwn, OpenParked, ClosingOld
<1>3. CASE Sh!Require(c)
  <2>1. v1 \in Sh!All /\ v1 \in 0 .. ShellSessions
    BY <1>3 DEF Sh!Require, Sh!TypeOK, Sh!All, Sh!ShellAssumption
  <2>2. Sh!TypeOK' /\ OpensOver' /\ OpensApart'
    BY <1>1, <1>3, <2>1 DEF Sh!Require, Sh!TypeOK, OpensOver, OpensApart
  <2>3. QED  BY <1>2, <2>2
<1>4. CASE Sh!TakeLock(c)
  <2>1. v9[c].on \in Sh!All /\ v8[v9[c].on] = NoCall
    BY <1>4 DEF Sh!TakeLock, Sh!LockFree, OpensOver
  <2>2. Sh!TypeOK' /\ OpensOver'
    BY <1>1, <1>4, <2>1 DEF Sh!TakeLock, Sh!TypeOK, OpensOver
  <2>3. OpensApart'
    BY <1>1, <1>4, <2>1, CountedAlike DEF Sh!TakeLock, Sh!TypeOK, OpensApart,
                                          Sh!ShellAssumption
  <2>4. QED  BY <1>2, <2>2, <2>3
<1>5. CASE Sh!TooMany(c)
  <2>1. Sh!TypeOK' /\ OpensOver' /\ OpensApart'
    BY <1>1, <1>5 DEF Sh!TooMany, Sh!TypeOK, OpensOver, OpensApart, Sh!Idle,
                      Sh!ShellAssumption
  <2>2. QED  BY <1>2, <2>1
<1>6. CASE Sh!OpenFails(c)
  <2>1. Sh!TypeOK' /\ OpensOver'
    BY <1>1, <1>6 DEF Sh!OpenFails, Sh!TypeOK, OpensOver, Sh!Idle, Sh!ShellAssumption
  <2>2. OpensApart'
    BY <1>1, <1>6 DEF Sh!OpenFails, Sh!TypeOK, OpensApart, OpensOver, Sh!Idle
  <2>3. QED  BY <1>2, <2>1, <2>2
<1>7. QED  BY <1>3, <1>4, <1>5, <1>6

LEMMA OpenedKeeps ==
  ASSUME Sh!ShellAssumption, ShellInv, NEW c \in Pair, Sh!Opened(c) PROVE ShellInv'
<1> DEFINE s == v9[c].on  i == v7 + 1
<1> USE DEF ShellInv
<1>1. /\ s \in Sh!All /\ v8[s] = c /\ Cardinality(v4[s]) < MaxShells
      /\ i \in Sh!Ids /\ v7 \in Nat
  BY DEF Sh!Opened, OpensOver, OpensApart, Sh!TypeOK, Sh!Ids, Sh!ShellAssumption
<1>2. /\ v4' = [v4 EXCEPT ![s] = @ \cup {i}] /\ v5' = v5 \cup {i}
      /\ v6' = [v6 EXCEPT ![i] = s] /\ v7' = i
      /\ v9' = [v9 EXCEPT ![c] = Sh!Idle] /\ v8' = [v8 EXCEPT ![s] = NoCall]
      /\ UNCHANGED <<v1, v2, v3, v10>>
  BY DEF Sh!Opened
<1> HIDE DEF s, i
<1>3. Sh!TypeOK'
  <2>1. v4' \in [Sh!All -> SUBSET Sh!Ids] /\ v5' \subseteq Sh!Ids
    BY <1>1, <1>2 DEF Sh!TypeOK
  <2>2. v6' \in [Sh!Ids -> 0 .. ShellSessions] /\ v7' \in 0 .. MaxIds
    BY <1>1, <1>2 DEF Sh!TypeOK, Sh!All, Sh!Ids
  <2>3. /\ v8' \in [Sh!All -> Pair \cup {NoCall}]
        /\ v9' \in [Pair -> [step : {"idle", "waiting", "opening"}, on : 0 .. ShellSessions]]
    BY <1>1, <1>2 DEF Sh!TypeOK, Sh!Idle, Sh!ShellAssumption
  <2>4. QED  BY <1>2, <2>1, <2>2, <2>3 DEF Sh!TypeOK
<1>4. OpensOver'
  BY <1>2 DEF OpensOver, Sh!TypeOK, Sh!Idle
<1>5. OpensApart'
  BY <1>1, <1>2 DEF OpensApart, OpensOver, Sh!TypeOK, Sh!Idle
<1>6. AtMostCap'
  <2>1. Cardinality(v4[s] \cup {i}) <= MaxShells
    BY <1>1, ParkedFinite DEF Sh!TypeOK, Sh!ShellAssumption
  <2>2. QED  BY <1>1, <1>2, <2>1 DEF AtMostCap, Sh!TypeOK
<1>7. (\A t \in Sh!All : i \notin v4[t]) /\ i \notin v10
  BY <1>1 DEF ParkedOwn, ClosingOld, i
<1>8. i \notin v5
  BY <1>7 DEF OpenParked
<1>9. ParkedOwn'
  <2>1. ASSUME NEW t \in Sh!All, NEW j \in v4'[t] PROVE j <= v7' /\ v6'[j] = t
    <3>1. CASE j = i
      <4>1. t = s  BY <1>1, <1>2, <1>7, <2>1, <3>1 DEF Sh!TypeOK
      <4>2. v6'[i] = s /\ v7' = i  BY <1>1, <1>2 DEF Sh!TypeOK
      <4>3. i <= i  BY <1>1 DEF Sh!Ids
      <4>4. QED  BY <3>1, <4>1, <4>2, <4>3
    <3>2. CASE j # i
      <4>1. j \in v4[t] /\ j \in Sh!Ids  BY <1>1, <1>2, <2>1, <3>2 DEF Sh!TypeOK
      <4>2. j <= v7 /\ v6[j] = t  BY <4>1 DEF ParkedOwn
      <4>3. v6'[j] = v6[j] /\ v7' = i  BY <1>2, <3>2, <4>1 DEF Sh!TypeOK
      <4>4. j <= i  BY <1>1, <4>1, <4>2 DEF Sh!Ids, i
      <4>5. QED  BY <4>2, <4>3, <4>4
    <3>3. QED  BY <3>1, <3>2
  <2>2. QED  BY <2>1 DEF ParkedOwn
<1>10. OpenParked'
  BY <1>1, <1>2, <1>8 DEF OpenParked, Sh!TypeOK
<1>11. ClosingOld'
  BY <1>1, <1>2 DEF ClosingOld, Sh!TypeOK, Sh!Ids, i
<1>12. QED  BY <1>3, <1>4, <1>5, <1>6, <1>9, <1>10, <1>11

(* Fewer parked shells never hurt the cap; they are closed next.           *)
LEMMA FewerShells ==
  ASSUME Sh!ShellAssumption, ShellInv, NEW s \in Sh!All, NEW P \in SUBSET v4[s],
         v4' = [v4 EXCEPT ![s] = P], v10' = v10 \cup (v4[s] \ P),
         UNCHANGED <<v1, v2, v3, v5, v6, v7, v8, v9>>
  PROVE  ShellInv'
<1> USE DEF ShellInv
<1>1. v4[s] \subseteq Sh!Ids
  BY DEF Sh!TypeOK
<1>2. Cardinality(P) <= Cardinality(v4[s]) /\ Cardinality(P) \in Nat
      /\ Cardinality(v4[s]) \in Nat
  BY <1>1, ParkedFinite
<1>3. Sh!TypeOK'
  BY <1>1 DEF Sh!TypeOK
<1>4. OpensOver'
  BY DEF OpensOver
<1>5. OpensApart'
  <2>1. \A t \in Sh!All : v4'[t] = IF t = s THEN P ELSE v4[t]
    BY DEF Sh!TypeOK
  <2>2. \A t \in Sh!All : Cardinality(v4[t]) < MaxShells => Cardinality(v4'[t]) < MaxShells
    BY <1>2, <2>1 DEF Sh!ShellAssumption
  <2>3. QED  BY <2>2 DEF OpensApart, OpensOver
<1>6. AtMostCap'
  BY <1>2 DEF AtMostCap, Sh!TypeOK, Sh!ShellAssumption
<1>7. ParkedOwn'
  BY DEF ParkedOwn, Sh!TypeOK
<1>8. OpenParked'
  BY DEF OpenParked, Sh!TypeOK
<1>9. ClosingOld'
  BY DEF ClosingOld, ParkedOwn
<1>10. QED  BY <1>3, <1>4, <1>5, <1>6, <1>7, <1>8, <1>9

(* Fewer open channels, and no more being closed than have gone.           *)
LEMMA FewerOpen ==
  ASSUME ShellInv, NEW gone, v5' = v5 \ gone, v10 \ gone \subseteq v10', v10' \subseteq v10,
         UNCHANGED <<v1, v2, v3, v4, v6, v7, v8, v9>>
  PROVE  ShellInv'
<1>1. Sh!TypeOK' /\ OpensOver' /\ OpensApart'
  BY DEF ShellInv, Sh!TypeOK, OpensOver, OpensApart
<1>2. AtMostCap' /\ ParkedOwn' /\ OpenParked' /\ ClosingOld'
  BY DEF ShellInv, AtMostCap, ParkedOwn, OpenParked, ClosingOld
<1>3. QED  BY <1>1, <1>2 DEF ShellInv

LEMMA StepKeepsShells ==
  ASSUME Sh!ShellAssumption, ShellInv, [Sh!Next]_(Sh!vars) PROVE ShellInv'
<1>1. ASSUME NEW c \in Pair, Sh!Require(c) \/ Sh!TakeLock(c) \/ Sh!TooMany(c) \/ Sh!OpenFails(c)
      PROVE ShellInv'
  BY <1>1, OpenShellKeeps
<1>2. ASSUME NEW c \in Pair, Sh!Opened(c) PROVE ShellInv'
  BY <1>2, OpenedKeeps
<1>3. ASSUME NEW i \in Sh!Ids, Sh!CloseShell(i) PROVE ShellInv'
  <2>1. v1 \in Sh!All
    BY <1>3 DEF Sh!CloseShell, Sh!Found, ShellInv, Sh!TypeOK, Sh!All, Sh!ShellAssumption
  <2>2. i \in v4[v1]
    BY <1>3 DEF Sh!CloseShell, Sh!Found
  <2>3. v10' = v10 \cup (v4[v1] \ (v4[v1] \ {i}))
    BY <1>3, <2>2 DEF Sh!CloseShell
  <2>4. QED  BY <1>3, <2>1, <2>3, FewerShells DEF Sh!CloseShell
<1>4. ASSUME NEW i \in Sh!Ids, Sh!ShellExits(i) PROVE ShellInv'
  BY <1>4, FewerOpen DEF Sh!ShellExits
<1>5. CASE Sh!Connect
  <2>1. Sh!TypeOK'
    BY <1>5 DEF Sh!Connect, ShellInv, Sh!TypeOK, Sh!ShellAssumption
  <2>2. QED  BY <1>5, <2>1 DEF Sh!Connect, ShellInv, OpensOver, OpensApart, AtMostCap,
                               ParkedOwn, OpenParked, ClosingOld
<1>6. CASE Sh!Leave
  BY <1>6 DEF Sh!Leave, ShellInv, Sh!TypeOK, OpensOver, OpensApart, AtMostCap, ParkedOwn,
              OpenParked, ClosingOld, Sh!ShellAssumption
<1>7. ASSUME NEW s \in Sh!All, Sh!Drain(s) PROVE ShellInv'
  <2>1. v10' = v10 \cup (v4[s] \ {})
    BY <1>7 DEF Sh!Drain
  <2>2. QED  BY <1>7, <2>1, FewerShells DEF Sh!Drain
<1>8. ASSUME NEW s \in Sh!All, Sh!Close(s) PROVE ShellInv'
  BY <1>8 DEF Sh!Close, ShellInv, Sh!TypeOK, OpensOver, OpensApart, AtMostCap, ParkedOwn,
              OpenParked, ClosingOld
<1>9. CASE UNCHANGED Sh!vars
  BY <1>9 DEF Sh!vars, ShellInv, Sh!TypeOK, OpensOver, OpensApart, AtMostCap, ParkedOwn,
              OpenParked, ClosingOld
<1>10. ASSUME NEW i \in Sh!Ids, Sh!ShellClosed(i) PROVE ShellInv'
  BY <1>10, FewerOpen DEF Sh!ShellClosed
<1>11. QED
  BY <1>1, <1>2, <1>3, <1>4, <1>5, <1>6, <1>7, <1>8, <1>9, <1>10 DEF Sh!Next

-----------------------------------------------------------------------------
(* Services.  First the folds it is made of.                               *)
(* A fold of a sequence is the last of a run along it.                     *)
LEMMA RangeMax ==
  ASSUME NEW n \in Nat, NEW k \in 1 .. n
  PROVE  1 .. k \in SUBSET (1 .. n) /\ 1 .. k # {} /\ Sv!Max(1 .. k) = k
         /\ (1 .. k) \ {k} = 1 .. (k - 1)
<1>1. Top(1 .. k) = k
  BY TopOfRange
<1>2. Sv!Max(1 .. k) = Top(1 .. k)
  BY DEF Sv!Max, Top
<1>3. (1 .. k) \ {k} = 1 .. (k - 1) /\ k \in 1 .. k
  OBVIOUS
<1>4. 1 .. k \in SUBSET (1 .. n)
  OBVIOUS
<1>5. QED  BY <1>1, <1>2, <1>3, <1>4

Folding(f, base, Op, lines) ==
  \A s \in SUBSET (DOMAIN lines) :
    f[s] = IF s = {} THEN base ELSE Op[<<f[s \ {Sv!Max(s)}], lines[Sv!Max(s)]>>]

(* There is a run along any sequence.                                      *)
LEMMA FoldingIsThere ==
  ASSUME NEW T, NEW L, NEW base \in T, NEW Op \in [T \X L -> T], NEW lines \in Seq(L)
  PROVE  \E f \in [SUBSET (DOMAIN lines) -> T] : Folding(f, base, Op, lines)
<1> DEFINE n == Len(lines)
           G == [x \in (SUBSET (1 .. n)) \X T |->
                   IF x[1] = {} THEN base ELSE Op[<<x[2], lines[Top(x[1])]>>]]
<1>1. n \in Nat /\ DOMAIN lines = 1 .. n /\ \A i \in 1 .. n : lines[i] \in L
  OBVIOUS
<1>2. ASSUME NEW s \in SUBSET (1 .. n), s # {}
      PROVE  lines[Top(s)] \in L /\ Sv!Max(s) = Top(s) /\ s \ {Top(s)} \in SUBSET (1 .. n)
  <2>1. Top(s) \in s
    BY <1>1, <1>2, TopIs
  <2>2. Sv!Max(s) = Top(s)
    BY DEF Sv!Max, Top
  <2> HIDE DEF n
  <2>3. QED  BY <1>1, <2>1, <2>2
<1>3. G \in [(SUBSET (1 .. n)) \X T -> T]
  <2> HIDE DEF n
  <2>1. ASSUME NEW x \in (SUBSET (1 .. n)) \X T, x[1] # {} 
        PROVE  Op[<<x[2], lines[Top(x[1])]>>] \in T
    BY <1>2, <2>1
  <2>2. QED  BY <2>1
<1>4. \A s \in SUBSET (1 .. n), r \in T : s # {} => G[<<s, r>>] = Op[<<r, lines[Top(s)]>>]
  OBVIOUS
<1> HIDE DEF G, n
<1>5. PICK f \in [SUBSET (1 .. n) -> T] : Folds(f, n, base, G)
  BY <1>1, <1>3, FoldIsThere
<1>6. ASSUME NEW s \in SUBSET (1 .. n), s # {}
      PROVE  f[s] = Op[<<f[s \ {Sv!Max(s)}], lines[Sv!Max(s)]>>]
  <2>1. f[s] = G[<<s, f[s \ {Top(s)}]>>] /\ f[s \ {Top(s)}] \in T
    BY <1>2, <1>5, <1>6 DEF Folds
  <2>2. QED  BY <1>2, <1>4, <1>6, <2>1
<1>7. f[{}] = base
  BY <1>5 DEF Folds
<1>8. Folding(f, base, Op, lines)
  BY <1>1, <1>6, <1>7 DEF Folding
<1>9. QED  BY <1>1, <1>5, <1>8

-----------------------------------------------------------------------------
(* The lines of sc query, read one by one.                                 *)
Words == STRING \cup {"", "other", "running", "stopped", "RUNNING", "STOPPED",
                     "SERVICE_NAME", "DISPLAY_NAME", "STATE"}
ScLines == [key : Words, value : Words]
ScEntries == [name : Words, state : Words]
ScReads == [entries : Seq(ScEntries), name : Words, state : Words]
ScBlank == [entries |-> <<>>, name |-> "", state |-> "other"]

ScRun(r, lines) ==
  /\ r[0] = ScBlank
  /\ \A k \in 1 .. Len(lines) : r[k] = Sv!ScLine(r[k - 1], lines[k])

LEMMA ScLineTyped ==
  ASSUME NEW read \in ScReads, NEW line \in ScLines PROVE Sv!ScLine(read, line) \in ScReads
<1> USE DEF ScReads
<1>1. Sv!Flush(read) \in Seq(ScEntries)
  <2>1. Sv!Entry(read.name, read.state) \in ScEntries
    BY DEF Sv!Entry, ScEntries
  <2>2. read.entries \in Seq(ScEntries)
    OBVIOUS
  <2>3. Append(read.entries, Sv!Entry(read.name, read.state)) \in Seq(ScEntries)
    BY <2>1, <2>2
  <2>4. QED  BY <2>2, <2>3, Zenon DEF Sv!Flush
<1>2. line.value \in Words
  BY DEF ScLines
<1>3. CASE line.key = "SERVICE_NAME"
  <2>1. Sv!ScLine(read, line) = [entries |-> Sv!Flush(read), name |-> line.value, state |-> "other"]
    BY <1>3 DEF Sv!ScLine
  <2>2. "other" \in Words
    BY Zenon DEF Words
  <2>3. QED  BY <1>1, <1>2, <2>1, <2>2
<1>4. CASE line.key = "STATE"
  <2>1. PICK state \in {"running", "stopped", "other"} :
          Sv!ScLine(read, line) = [read EXCEPT !.state = state]
    BY <1>4 DEF Sv!ScLine
  <2>2. state \in Words
    BY Zenon DEF Words
  <2>3. QED  BY <2>1, <2>2
<1>5. CASE line.key \notin {"SERVICE_NAME", "STATE"}
  BY <1>5 DEF Sv!ScLine
<1>6. QED  BY <1>3, <1>4, <1>5

(* What parse_sc_query returns is the last reading, flushed.               *)
LEMMA ScRuns ==
  ASSUME NEW lines \in Seq(ScLines)
  PROVE  \E r : ScRun(r, lines) /\ Sv!ParseScQuery(lines) = Sv!Flush(r[Len(lines)])
<1> DEFINE Op == [x \in ScReads \X ScLines |-> Sv!ScLine(x[1], x[2])]
           D == DOMAIN lines
           Body(f) == [s \in SUBSET D |->
                         IF s = {} THEN ScBlank
                         ELSE Sv!ScLine(f[s \ {Sv!Max(s)}], lines[Sv!Max(s)])]
           g == CHOOSE f : f = Body(f)
<1>1. Len(lines) \in Nat /\ D = 1 .. Len(lines)
  OBVIOUS
<1>2. Op \in [ScReads \X ScLines -> ScReads]
  <2>1. \A x \in ScReads \X ScLines : Sv!ScLine(x[1], x[2]) \in ScReads
    BY ScLineTyped
  <2>2. QED  BY <2>1
<1>3. ScBlank \in ScReads
  <2>1. <<>> \in Seq(ScEntries) /\ "" \in Words /\ "other" \in Words
    BY DEF Words
  <2>2. QED  BY <2>1, Zenon DEF ScBlank, ScReads
<1>4. PICK f \in [SUBSET D -> ScReads] : Folding(f, ScBlank, Op, lines)
  <2> HIDE DEF Op
  <2>1. QED  BY <1>2, <1>3, FoldingIsThere
<1>5. ASSUME NEW s \in SUBSET D, s # {}
      PROVE  f[s] = Sv!ScLine(f[s \ {Sv!Max(s)}], lines[Sv!Max(s)])
  <2>1. f[s] = Op[<<f[s \ {Sv!Max(s)}], lines[Sv!Max(s)]>>]
    BY <1>4, <1>5 DEF Folding
  <2>2. f[s \ {Sv!Max(s)}] \in ScReads
    BY <1>4
  <2>3. lines[Sv!Max(s)] \in ScLines
    <3>1. Sv!Max(s) \in D
      <4>1. Top(s) \in s
        BY <1>1, <1>5, TopIs
      <4>2. Sv!Max(s) = Top(s)
        BY DEF Sv!Max, Top
      <4>3. QED  BY <4>1, <4>2
    <3>2. QED  BY <1>1, <3>1
  <2>4. QED  BY <2>1, <2>2, <2>3
<1>6. f = Body(f)
  <2>1. f[{}] = ScBlank
    BY <1>4 DEF Folding
  <2>2. QED  BY <1>4, <1>5, <2>1
<1> HIDE DEF Op
<1>7. g = Body(g)
  <2> HIDE DEF Body
  <2>1. QED  BY <1>6
<1>8. Sv!ParseScQuery(lines) = Sv!Flush(g[D])
  BY DEF Sv!ParseScQuery, Sv!FoldLeft, Sv!MapThenFoldSet, ScBlank
<1> DEFINE r == [k \in 0 .. Len(lines) |-> g[1 .. k]]
<1>9. r[0] = ScBlank
  <2>1. 1 .. 0 = {} /\ {} \in SUBSET D
    OBVIOUS
  <2>2. g[{}] = ScBlank
    <3> HIDE DEF g, D
    <3>1. QED  BY <1>7, <2>1
  <2> HIDE DEF g
  <2>3. QED  BY <1>1, <2>1, <2>2
<1>10. ASSUME NEW k \in 1 .. Len(lines) PROVE r[k] = Sv!ScLine(r[k - 1], lines[k])
  <2>1. 1 .. k \in SUBSET D /\ 1 .. k # {} /\ Sv!Max(1 .. k) = k /\ (1 .. k) \ {k} = 1 .. (k - 1)
    BY <1>1, RangeMax
  <2> DEFINE s == 1 .. k
  <2>2. g[s] = Sv!ScLine(g[s \ {Sv!Max(s)}], lines[Sv!Max(s)])
    <3>1. s \in SUBSET D /\ s # {}
      BY <2>1
    <3> HIDE DEF g, D, s
    <3>2. QED  BY <1>7, <3>1
  <2> HIDE DEF g
  <2>3. r[k] = g[1 .. k] /\ r[k - 1] = g[1 .. (k - 1)]
    BY <1>1
  <2>4. QED  BY <2>1, <2>2, <2>3
<1>11. r[Len(lines)] = g[D]
  BY <1>1
<1> HIDE DEF r, g, D
<1>12. QED  BY <1>8, <1>9, <1>10, <1>11 DEF ScRun

-----------------------------------------------------------------------------
(* What of a sequence is in a set.                                         *)
Kept(S, kept, x) == IF x \in S THEN Append(kept, x) ELSE kept

OnlyRun(r, S, seq) ==
  r[0] = <<>> /\ \A k \in 1 .. Len(seq) : r[k] = Kept(S, r[k - 1], seq[k])

LEMMA OnlyRuns ==
  ASSUME NEW E, NEW lines \in Seq(E), NEW S
  PROVE  \E r : OnlyRun(r, S, lines) /\ Sv!Only(S, lines) = r[Len(lines)]
<1> DEFINE Op == [x \in Seq(E) \X E |-> Kept(S, x[1], x[2])]
           D == DOMAIN lines
           Body(f) == [s \in SUBSET D |->
                         IF s = {} THEN <<>>
                         ELSE Kept(S, f[s \ {Sv!Max(s)}], lines[Sv!Max(s)])]
           g == CHOOSE f : f = Body(f)
<1>1. Len(lines) \in Nat /\ D = 1 .. Len(lines)
  OBVIOUS
<1>2. Op \in [Seq(E) \X E -> Seq(E)]
  <2>1. \A x \in Seq(E) \X E : Kept(S, x[1], x[2]) \in Seq(E)
    BY DEF Kept
  <2>2. QED  BY <2>1
<1>3. <<>> \in Seq(E)
  OBVIOUS
<1>4. PICK f \in [SUBSET D -> Seq(E)] : Folding(f, <<>>, Op, lines)
  <2> HIDE DEF Op
  <2>1. QED  BY <1>2, <1>3, FoldingIsThere
<1>5. ASSUME NEW s \in SUBSET D, s # {}
      PROVE  f[s] = Kept(S, f[s \ {Sv!Max(s)}], lines[Sv!Max(s)])
  <2>1. f[s] = Op[<<f[s \ {Sv!Max(s)}], lines[Sv!Max(s)]>>]
    BY <1>4, <1>5 DEF Folding
  <2>2. f[s \ {Sv!Max(s)}] \in Seq(E)
    BY <1>4
  <2>3. lines[Sv!Max(s)] \in E
    <3>1. Sv!Max(s) \in D
      <4>1. Top(s) \in s
        BY <1>1, <1>5, TopIs
      <4>2. Sv!Max(s) = Top(s)
        BY DEF Sv!Max, Top
      <4>3. QED  BY <4>1, <4>2
    <3>2. QED  BY <1>1, <3>1
  <2>4. QED  BY <2>1, <2>2, <2>3
<1>6. f = Body(f)
  <2>1. f[{}] = <<>>
    BY <1>4 DEF Folding
  <2>2. QED  BY <1>4, <1>5, <2>1
<1> HIDE DEF Op
<1>7. g = Body(g)
  <2> HIDE DEF Body
  <2>1. QED  BY <1>6
<1>8. Sv!Only(S, lines) = g[D]
  BY DEF Sv!Only, Sv!FoldLeft, Sv!MapThenFoldSet, Kept
<1> DEFINE r == [k \in 0 .. Len(lines) |-> g[1 .. k]]
<1>9. r[0] = <<>>
  <2>1. 1 .. 0 = {} /\ {} \in SUBSET D
    OBVIOUS
  <2>2. g[{}] = <<>>
    <3> HIDE DEF g, D
    <3>1. QED  BY <1>7, <2>1
  <2> HIDE DEF g
  <2>3. QED  BY <1>1, <2>1, <2>2
<1>10. ASSUME NEW k \in 1 .. Len(lines) PROVE r[k] = Kept(S, r[k - 1], lines[k])
  <2>1. 1 .. k \in SUBSET D /\ 1 .. k # {} /\ Sv!Max(1 .. k) = k /\ (1 .. k) \ {k} = 1 .. (k - 1)
    BY <1>1, RangeMax
  <2> DEFINE s == 1 .. k
  <2>2. g[s] = Kept(S, g[s \ {Sv!Max(s)}], lines[Sv!Max(s)])
    <3>1. s \in SUBSET D /\ s # {}
      BY <2>1
    <3> HIDE DEF g, D, s
    <3>2. QED  BY <1>7, <3>1
  <2> HIDE DEF g
  <2>3. r[k] = g[1 .. k] /\ r[k - 1] = g[1 .. (k - 1)]
    BY <1>1
  <2>4. QED  BY <2>1, <2>2, <2>3
<1>11. r[Len(lines)] = g[D]
  BY <1>1
<1> HIDE DEF r, g, D
<1>12. QED  BY <1>8, <1>9, <1>10, <1>11 DEF OnlyRun

(* It is the k-th such thing of the sequence that comes k-th.              *)
Own(S, seq, k) == {i \in 1 .. k : seq[i] \in S}

OnlyUpTo(S, seq, k, kept) ==
  /\ Len(kept) = Cardinality(Own(S, seq, k))
  /\ \A i \in Own(S, seq, k) : kept[Cardinality(Own(S, seq, i))] = seq[i]

(* How many there are, and that the k-th grows with k.                     *)
LEMMA OwnCounted ==
  ASSUME NEW S, NEW seq, NEW k \in Nat
  PROVE  /\ Cardinality(Own(S, seq, k)) \in Nat
         /\ \A i \in Own(S, seq, k) : 
              Cardinality(Own(S, seq, i)) \in 1 .. Cardinality(Own(S, seq, k))
         /\ seq[k + 1] \in S =>
              /\ Own(S, seq, k + 1) = Own(S, seq, k) \cup {k + 1}
              /\ Cardinality(Own(S, seq, k + 1)) = Cardinality(Own(S, seq, k)) + 1
         /\ seq[k + 1] \notin S => Own(S, seq, k + 1) = Own(S, seq, k)
<1> DEFINE own(n) == Own(S, seq, n)
<1>1. ASSUME NEW n \in Nat PROVE IsFiniteSet(own(n)) /\ Cardinality(own(n)) \in Nat
  <2>1. IsFiniteSet(1 .. n) /\ own(n) \subseteq 1 .. n
    BY FS_Interval DEF Own
  <2>2. QED  BY <2>1, FS_Subset, FS_CardinalityType
<1>2. ASSUME NEW i \in own(k) PROVE Cardinality(own(i)) \in 1 .. Cardinality(own(k))
  <2>1. i \in Nat /\ i \in 1 .. k /\ i \in own(i) /\ own(i) \subseteq own(k)
    BY DEF Own
  <2>2. Cardinality(own(i)) <= Cardinality(own(k))
    BY <1>1, <2>1, FS_Subset
  <2>3. Cardinality(own(i)) # 0
    BY <1>1, <2>1, FS_EmptySet
  <2> HIDE DEF own
  <2>4. QED  BY <1>1, <2>1, <2>2, <2>3
<1>3. ASSUME seq[k + 1] \in S
      PROVE  own(k + 1) = own(k) \cup {k + 1} /\ Cardinality(own(k + 1)) = Cardinality(own(k)) + 1
  <2>1. own(k + 1) = own(k) \cup {k + 1} /\ k + 1 \notin own(k)
    BY <1>3 DEF Own
  <2>2. Cardinality(own(k) \cup {k + 1}) = Cardinality(own(k)) + 1
    BY <1>1, <2>1, FS_AddElement
  <2>3. QED  BY <2>1, <2>2
<1>4. seq[k + 1] \notin S => own(k + 1) = own(k)
  BY DEF Own
<1>5. QED  BY <1>1, <1>2, <1>3, <1>4

LEMMA OwnGrows ==
  ASSUME NEW S, NEW seq, NEW k \in Nat, seq[k + 1] \in S
  PROVE  /\ Own(S, seq, k + 1) = Own(S, seq, k) \cup {k + 1}
         /\ Cardinality(Own(S, seq, k + 1)) = Cardinality(Own(S, seq, k)) + 1
         /\ Cardinality(Own(S, seq, k)) \in Nat
BY OwnCounted

(* Only takes each of them, in order, and nothing else.                    *)
LEMMA OnlyIs ==
  ASSUME NEW E, NEW seq \in Seq(E), NEW S
  PROVE  Sv!Only(S, seq) \in Seq(E) /\ OnlyUpTo(S, seq, Len(seq), Sv!Only(S, seq))
<1> DEFINE n == Len(seq)
<1>1. n \in Nat /\ \A k \in 1 .. n : seq[k] \in E
  OBVIOUS
<1>2. PICK r : OnlyRun(r, S, seq) /\ Sv!Only(S, seq) = r[n]
  BY OnlyRuns
<1> DEFINE T == {k \in Nat : k <= n => r[k] \in Seq(E) /\ OnlyUpTo(S, seq, k, r[k])}
<1>3. 0 \in T
  <2>1. Own(S, seq, 0) = {} /\ Cardinality({}) = 0
    BY FS_EmptySet DEF Own
  <2>2. r[0] = <<>>
    BY <1>2 DEF OnlyRun
  <2>3. r[0] \in Seq(E) /\ Len(r[0]) = 0
    BY <2>2
  <2>4. OnlyUpTo(S, seq, 0, r[0])
    BY <2>1, <2>3 DEF OnlyUpTo
  <2>5. QED  BY <2>3, <2>4
<1>4. ASSUME NEW k \in Nat, k \in T PROVE k + 1 \in T
  <2>1. SUFFICES ASSUME k + 1 <= n PROVE r[k + 1] \in Seq(E) /\ OnlyUpTo(S, seq, k + 1, r[k + 1])
    OBVIOUS
  <2> DEFINE was == r[k]  x == seq[k + 1]  is == r[k + 1]
             c == Cardinality(Own(S, seq, k))
  <2>2. was \in Seq(E) /\ OnlyUpTo(S, seq, k, was)
    BY <1>1, <1>4, <2>1
  <2>3. x \in E
    BY <1>1, <2>1
  <2>4. is = Kept(S, was, x)
    <3>1. k + 1 \in 1 .. n /\ (k + 1) - 1 = k
      BY <1>1, <2>1
    <3>2. QED  BY <1>2, <3>1 DEF OnlyRun
  <2> HIDE DEF was, is, n
  <2>5. CASE x \notin S
    <3>1. is = was /\ Own(S, seq, k + 1) = Own(S, seq, k)
      BY <2>4, <2>5, OwnCounted DEF Kept
    <3>2. QED  BY <2>2, <3>1 DEF OnlyUpTo, is
  <2>6. CASE x \in S
    <3>1. /\ Own(S, seq, k + 1) = Own(S, seq, k) \cup {k + 1}
          /\ Cardinality(Own(S, seq, k + 1)) = c + 1 /\ c \in Nat
      <4>1. seq[k + 1] \in S
        BY <2>6
      <4>2. QED  BY <4>1, OwnGrows
    <3>2. is = Append(was, x) /\ Len(was) = c
      BY <2>2, <2>4, <2>6 DEF Kept, OnlyUpTo
    <3>3. ASSUME NEW i \in Own(S, seq, k) PROVE is[Cardinality(Own(S, seq, i))] = seq[i]
      <4>1. Cardinality(Own(S, seq, i)) \in 1 .. c
        BY OwnCounted
      <4>2. was[Cardinality(Own(S, seq, i))] = seq[i]
        BY <2>2 DEF OnlyUpTo
      <4> DEFINE j == Cardinality(Own(S, seq, i))
      <4> HIDE DEF j, c, x
      <4>3. j \in 1 .. Len(was)
        BY <3>2, <4>1 DEF j
      <4>4. is[j] = was[j]
        BY <2>2, <2>3, <3>2, <4>3
      <4>5. QED  BY <4>2, <4>4 DEF j
    <3>4. is[c + 1] = x /\ Len(is) = c + 1 /\ is \in Seq(E)
      <4> HIDE DEF c, x
      <4>1. QED  BY <2>2, <2>3, <3>1, <3>2
    <3>5. ASSUME NEW i \in Own(S, seq, k + 1) PROVE is[Cardinality(Own(S, seq, i))] = seq[i]
      <4>1. CASE i = k + 1
        BY <3>1, <3>4, <4>1
      <4>2. CASE i \in Own(S, seq, k)
        BY <3>3, <4>2
      <4>3. QED  BY <3>1, <4>1, <4>2
    <3>6. QED  BY <3>1, <3>4, <3>5 DEF OnlyUpTo, is
  <2>7. QED  BY <2>5, <2>6
<1>5. n \in T
  <2> HIDE DEF T, n
  <2>1. Nat \subseteq T
    BY <1>3, <1>4, SetInduction
  <2>2. QED  BY <1>1, <2>1
<1>6. QED  BY <1>1, <1>2, <1>5

(* Where all of it is in the set, it is all taken.                         *)
LEMMA OnlyAll ==
  ASSUME NEW E, NEW seq \in Seq(E), NEW S, \A i \in DOMAIN seq : seq[i] \in S
  PROVE  Sv!Only(S, seq) = seq
<1> DEFINE n == Len(seq)  kept == Sv!Only(S, seq)
<1>1. n \in Nat /\ DOMAIN seq = 1 .. n
  OBVIOUS
<1>2. kept \in Seq(E) /\ OnlyUpTo(S, seq, n, kept)
  BY OnlyIs
<1>3. ASSUME NEW k \in Nat, k <= n PROVE Own(S, seq, k) = 1 .. k /\ Cardinality(Own(S, seq, k)) = k
  <2>1. Own(S, seq, k) = 1 .. k
    BY <1>1, <1>3 DEF Own
  <2>2. QED  BY <2>1, FS_Interval
<1> HIDE DEF n, kept
<1>4. Len(kept) = n
  BY <1>1, <1>2, <1>3 DEF OnlyUpTo
<1>5. ASSUME NEW i \in 1 .. n PROVE kept[i] = seq[i]
  <2>1. i \in Nat /\ i <= n /\ n <= n
    BY <1>1
  <2>2. i \in Own(S, seq, n) /\ Cardinality(Own(S, seq, i)) = i
    BY <1>1, <1>3, <2>1
  <2>3. QED  BY <1>2, <2>2 DEF OnlyUpTo
<1>6. n = Len(seq)
  BY DEF n
<1>7. kept = seq
  BY <1>1, <1>2, <1>4, <1>5, <1>6
<1>8. QED  BY <1>7 DEF kept

-----------------------------------------------------------------------------
(* Sequences one after another.                                            *)
FlatOf(seqs, off, flat) ==
  /\ off[0] = 0 /\ off \in [0 .. Len(seqs) -> Nat] /\ Len(flat) = off[Len(seqs)]
  /\ \A k \in 1 .. Len(seqs) : off[k] = off[k - 1] + Len(seqs[k]) /\ off[k] <= Len(flat)
  /\ \A k \in 1 .. Len(seqs) : \A j \in 1 .. Len(seqs[k]) : flat[off[k - 1] + j] = seqs[k][j]

Flattening(f, seqs) ==
  f = [i \in 1 .. Len(seqs) |-> IF i = 1 THEN seqs[i] ELSE f[i - 1] \o seqs[i]]

LEMMA FlatteningIsThere ==
  ASSUME NEW L, NEW seqs \in Seq(Seq(L)), Len(seqs) # 0
  PROVE  \E f : Flattening(f, seqs)
<1> DEFINE n == Len(seqs)  D == 1 .. n
           size == [i \in D |-> i]
           Ends == {1}
           rest == [i \in D \ Ends |-> i - 1]
           bases == [i \in Ends |-> seqs[i]]
           G == [x \in D \X Seq(L) |-> x[2] \o seqs[x[1]]]
<1>1. n \in Nat /\ 1 \in D /\ \A i \in D : seqs[i] \in Seq(L)
  OBVIOUS
<1>2. Sized(D, size, Ends, rest)
  <2> HIDE DEF n
  <2>1. size \in [D -> Nat] /\ Ends \subseteq D
    BY <1>1
  <2>2. \A i \in D \ Ends : i - 1 \in D /\ i - 1 < i
    BY <1>1
  <2>3. QED  BY <2>1, <2>2 DEF Sized
<1>3. bases \in [Ends -> Seq(L)] /\ G \in [D \X Seq(L) -> Seq(L)]
  <2> HIDE DEF n
  <2>1. \A x \in D \X Seq(L) : x[2] \o seqs[x[1]] \in Seq(L)
    BY <1>1
  <2>2. QED  BY <1>1, <2>1
<1>4. PICK f \in [D -> Seq(L)] : Recursive(f, D, Ends, bases, rest, G)
  <2> HIDE DEF D, size, Ends, rest, bases, G
  <2>1. QED  BY <1>2, <1>3, Recurses
<1>5. ASSUME NEW i \in D PROVE f[i] = IF i = 1 THEN seqs[i] ELSE f[i - 1] \o seqs[i]
  <2>1. f[i] = IF i \in Ends THEN bases[i] ELSE G[<<i, f[rest[i]]>>]
    BY <1>4 DEF Recursive
  <2> HIDE DEF n
  <2>2. CASE i = 1
    BY <2>1, <2>2
  <2>3. CASE i # 1
    <3>1. rest[i] = i - 1 /\ f[i - 1] \in Seq(L) /\ i \notin Ends
      BY <1>1, <1>4, <2>3
    <3>2. QED  BY <2>1, <2>3, <3>1
  <2>4. QED  BY <2>2, <2>3
<1>6. Flattening(f, seqs)
  BY <1>4, <1>5 DEF Flattening
<1>7. QED  BY <1>6

(* As far as the first k of them.                                          *)
FlatUpTo(seqs, off, k, flat) ==
  /\ Len(flat) = off[k]
  /\ \A i \in 1 .. k : off[i] <= off[k]
  /\ \A i \in 1 .. k : \A j \in 1 .. Len(seqs[i]) : flat[off[i - 1] + j] = seqs[i][j]

LEMMA Within ==
  ASSUME NEW a \in Nat, NEW n \in Nat, NEW b \in Nat, a + n <= b, NEW j \in 1 .. n
  PROVE  a + j \in 1 .. b
OBVIOUS

(* FlattenSeq puts each sequence where the one before it ends.             *)
LEMMA FlatIs ==
  ASSUME NEW L, NEW seqs \in Seq(Seq(L))
  PROVE  /\ Sv!FlattenSeq(seqs) \in Seq(L)
         /\ \E off : FlatOf(seqs, off, Sv!FlattenSeq(seqs))
<1> DEFINE n == Len(seqs)  flat == Sv!FlattenSeq(seqs)
<1>1. n \in Nat /\ \A i \in 1 .. n : seqs[i] \in Seq(L) /\ Len(seqs[i]) \in Nat
  OBVIOUS
<1>2. CASE n = 0
  <2>1. flat = seqs /\ seqs = <<>>
    BY <1>2 DEF Sv!FlattenSeq
  <2> DEFINE off == [i \in 0 .. 0 |-> 0]
  <2>2. off[0] = 0 /\ off \in [0 .. 0 -> Nat]
    OBVIOUS
  <2> HIDE DEF flat, off
  <2>3. flat \in Seq(L) /\ Len(flat) = 0
    BY <2>1
  <2>4. FlatOf(seqs, off, flat)
    BY <1>2, <2>2, <2>3 DEF FlatOf
  <2>5. QED  BY <2>3, <2>4 DEF flat
<1>3. CASE n # 0
  <2> DEFINE f == CHOOSE g : Flattening(g, seqs)
             off == [i \in 0 .. n |-> IF i = 0 THEN 0 ELSE Len(f[i])]
  <2>1. flat = f[n]
    BY <1>3 DEF Sv!FlattenSeq, Flattening
  <2>2. Flattening(f, seqs)
    BY <1>3, FlatteningIsThere
  <2> HIDE DEF f
  <2>3. \A i \in 1 .. n : f[i] = IF i = 1 THEN seqs[i] ELSE f[i - 1] \o seqs[i]
    BY <2>2 DEF Flattening
  <2> HIDE DEF n, flat
  <2>4. \A i \in 1 .. n : f[i] \in Seq(L)
    <3> DEFINE T == {k \in Nat : k \in 1 .. n => f[k] \in Seq(L)}
    <3>1. 0 \in T
      OBVIOUS
    <3>2. ASSUME NEW k \in Nat, k \in T PROVE k + 1 \in T
      <4>1. SUFFICES ASSUME k + 1 \in 1 .. n PROVE f[k + 1] \in Seq(L)
        OBVIOUS
      <4>2. CASE k = 0
        BY <1>1, <2>3, <4>1, <4>2
      <4>3. CASE k # 0
        <5>1. k \in 1 .. n /\ (k + 1) - 1 = k /\ k + 1 # 1
          BY <1>1, <4>1, <4>3
        <5>2. f[k] \in Seq(L) /\ seqs[k + 1] \in Seq(L)
          BY <1>1, <3>2, <4>1, <5>1
        <5>3. f[k + 1] = f[k] \o seqs[k + 1]
          BY <2>3, <4>1, <5>1
        <5>4. QED  BY <5>2, <5>3
      <4>4. QED  BY <4>2, <4>3
    <3> HIDE DEF T
    <3>3. Nat \subseteq T
      BY <3>1, <3>2, SetInduction
    <3>4. QED  BY <3>3 DEF T
  <2>5. off[0] = 0 /\ off \in [0 .. n -> Nat] /\ \A i \in 1 .. n : off[i] = Len(f[i])
    <3>1. \A i \in 1 .. n : Len(f[i]) \in Nat
      BY <2>4
    <3>2. QED  BY <1>1, <3>1
  <2> HIDE DEF off
  <2>6. ASSUME NEW k \in 1 .. n
        PROVE  /\ off[k] = off[k - 1] + Len(seqs[k]) /\ off[k - 1] \in Nat /\ off[k] \in Nat
               /\ k # 1 => f[k] = f[k - 1] \o seqs[k] /\ f[k - 1] \in Seq(L)
                           /\ off[k - 1] = Len(f[k - 1])
               /\ k = 1 => f[k] = seqs[k] /\ off[k - 1] = 0
    <3>1. seqs[k] \in Seq(L) /\ Len(seqs[k]) \in Nat /\ off[k] = Len(f[k])
      BY <1>1, <2>5
    <3>2. CASE k = 1
      <4>1. f[k] = seqs[k] /\ off[k - 1] = 0
        BY <2>3, <2>5, <3>2
      <4>2. QED  BY <3>1, <3>2, <4>1
    <3>3. CASE k # 1
      <4>1. k - 1 \in 1 .. n
        BY <1>1, <3>3
      <4>2. f[k] = f[k - 1] \o seqs[k] /\ f[k - 1] \in Seq(L) /\ off[k - 1] = Len(f[k - 1])
        BY <2>3, <2>4, <2>5, <3>3, <4>1
      <4>3. Len(f[k]) = Len(f[k - 1]) + Len(seqs[k]) /\ Len(f[k - 1]) \in Nat
        BY <3>1, <4>2
      <4>4. off[k] = off[k - 1] + Len(seqs[k]) /\ off[k - 1] \in Nat /\ off[k] \in Nat
        <5> DEFINE a == off[k - 1]  b == Len(f[k - 1])  c == Len(seqs[k])  d == Len(f[k])
        <5>1. off[k] = d /\ a = b /\ d = b + c /\ b \in Nat /\ c \in Nat
          BY <3>1, <4>2, <4>3
        <5> HIDE DEF a, b, c, d
        <5>2. off[k] = a + c /\ a \in Nat /\ off[k] \in Nat
          BY <5>1
        <5>3. QED  BY <5>2 DEF a, c
      <4>5. QED  BY <3>3, <4>2, <4>4
    <3>4. QED  BY <3>2, <3>3
  <2> DEFINE T == {k \in Nat : k \in 1 .. n => FlatUpTo(seqs, off, k, f[k])}
  <2>7. ASSUME NEW k \in Nat, k \in T PROVE k + 1 \in T
    <3> DEFINE m == k + 1  was == f[k]  more == seqs[m]  is == f[m]
    <3>1. SUFFICES ASSUME m \in 1 .. n PROVE FlatUpTo(seqs, off, m, is)
      OBVIOUS
    <3>2. m - 1 = k /\ m \in Nat /\ more \in Seq(L) /\ is \in Seq(L) /\ off[m] = Len(is)
      BY <1>1, <2>4, <2>5, <3>1
    <3>3. off[m] = off[k] + Len(more) /\ off[k] \in Nat /\ Len(more) \in Nat
      BY <1>1, <2>6, <3>1, <3>2
    <3>4. \A j \in 1 .. Len(more) : is[off[k] + j] = more[j]
      <4>1. CASE m = 1
        <5>1. is = more /\ off[k] = 0
          BY <2>6, <3>1, <3>2, <4>1
        <5> HIDE DEF is, more
        <5>2. QED  BY <3>3, <5>1
      <4>2. CASE m # 1
        <5>1. is = was \o more /\ was \in Seq(L) /\ off[k] = Len(was)
          BY <2>6, <3>1, <3>2, <4>2
        <5> HIDE DEF is, more, was
        <5>2. QED  BY <3>2, <3>3, <5>1
      <4>3. QED  BY <4>1, <4>2
    <3>5. ASSUME NEW i \in 1 .. k
          PROVE  off[i] <= off[m] /\ \A j \in 1 .. Len(seqs[i]) : is[off[i - 1] + j] = seqs[i][j]
      <4>1. k \in 1 .. n /\ i \in 1 .. n /\ m # 1
        BY <1>1, <3>1
      <4>2. FlatUpTo(seqs, off, k, was)
        BY <2>7, <4>1
      <4>3. is = was \o more /\ was \in Seq(L) /\ off[k] = Len(was)
        BY <2>6, <3>1, <3>2, <4>1
      <4> HIDE DEF is, more, was, m
      <4>4. \A j \in 1 .. Len(was) : is[j] = was[j]
        BY <3>2, <4>3
      <4>5. off[i] <= off[k] /\ off[i] \in Nat /\ off[i - 1] \in Nat /\ Len(seqs[i]) \in Nat
            /\ off[i] = off[i - 1] + Len(seqs[i])
        BY <1>1, <2>6, <4>1, <4>2 DEF FlatUpTo
      <4>6. ASSUME NEW j \in 1 .. Len(seqs[i]) PROVE is[off[i - 1] + j] = seqs[i][j]
        <5>1. was[off[i - 1] + j] = seqs[i][j]
          BY <4>2 DEF FlatUpTo
        <5>2. off[i - 1] + j \in 1 .. Len(was)
          <6>1. off[i - 1] + Len(seqs[i]) <= Len(was) /\ Len(was) \in Nat
            BY <3>3, <4>3, <4>5
          <6>2. QED  BY <4>5, <6>1, Within
        <5>3. QED  BY <4>4, <5>1, <5>2
      <4>7. off[i] <= off[m]
        BY <3>3, <4>5
      <4>8. QED  BY <4>6, <4>7
    <3> HIDE DEF is, more, was
    <3>6. ASSUME NEW i \in 1 .. m
          PROVE  off[i] <= off[m] /\ \A j \in 1 .. Len(seqs[i]) : is[off[i - 1] + j] = seqs[i][j]
      <4>1. CASE i = m
        <5>1. off[i] <= off[m]
          <6>1. off[m] \in Nat
            BY <3>3
          <6>2. QED  BY <4>1, <6>1
        <5>2. i - 1 = k /\ seqs[i] = more
          BY <3>2, <4>1 DEF more
        <5>3. QED  BY <3>4, <5>1, <5>2
      <4>2. CASE i # m
        <5>1. i \in 1 .. k
          BY <4>2
        <5>2. QED  BY <3>5, <5>1
      <4>3. QED  BY <4>1, <4>2
    <3> HIDE DEF m
    <3>7. QED  BY <3>2, <3>6 DEF FlatUpTo
  <2>8. n \in T
    <3>1. 0 \in T
      OBVIOUS
    <3> HIDE DEF T
    <3>2. Nat \subseteq T
      BY <2>7, <3>1, SetInduction
    <3>3. QED  BY <1>1, <3>2
  <2>9. FlatUpTo(seqs, off, n, flat)
    BY <1>1, <1>3, <2>1, <2>8
  <2>10. FlatOf(seqs, off, flat)
    BY <2>5, <2>6, <2>9 DEF FlatOf, FlatUpTo, n
  <2>11. flat \in Seq(L)
    BY <1>1, <1>3, <2>1, <2>4
  <2>12. QED  BY <2>10, <2>11 DEF flat
<1>4. QED  BY <1>2, <1>3

-----------------------------------------------------------------------------
(* The lines of wevtutil, read one by one.                                 *)
LogWords == STRING \cup {"", "Event", "field", "Date", "Event ID", "Description", "text"}
LogLines == [key : LogWords, value : LogWords]
Logged == [date : LogWords, id : LogWords, text : Seq(LogWords)]
LogReads == [events : Seq(Logged), inside : BOOLEAN, event : Seq(Logged)]
LogBlank == [events |-> <<>>, inside |-> FALSE, event |-> <<>>]

LogRun(r, lines) ==
  /\ r[0] = LogBlank
  /\ \A k \in 1 .. Len(lines) : r[k] = Sv!LogLine(r[k - 1], lines[k])

LEMMA ChangesFirst ==
  ASSUME NEW L, NEW seq \in Seq(L), seq # <<>>, NEW x \in L
  PROVE  seq[1] \in L /\ [seq EXCEPT ![1] = x] \in Seq(L)
<1>1. Len(seq) \in Nat /\ Len(seq) # 0 /\ 1 \in 1 .. Len(seq)
  OBVIOUS
<1>2. [seq EXCEPT ![1] = x] \in [1 .. Len(seq) -> L]
  BY <1>1
<1>3. QED  BY <1>1, <1>2

LEMMA LogLineTyped ==
  ASSUME NEW read \in LogReads, NEW line \in LogLines PROVE Sv!LogLine(read, line) \in LogReads
<1> DEFINE first == read.event[1]  v == line.value
<1>1. read.events \in Seq(Logged) /\ read.event \in Seq(Logged) /\ v \in LogWords
  BY DEF LogReads, LogLines
<1>2. CASE line.key = "Event"
  <2> DEFINE blank == [date |-> "", id |-> "", text |-> <<>>]
  <2>1. "" \in LogWords /\ <<>> \in Seq(LogWords)
    BY DEF LogWords
  <2>2. blank \in Logged
    BY <2>1, Zenon DEF Logged
  <2> HIDE DEF blank
  <2>3. <<blank>> \in Seq(Logged)
    BY <2>2
  <2>4. Sv!Push(read) \in Seq(Logged)
    <3>1. CASE read.event = <<>>
      BY <1>1, <3>1 DEF Sv!Push
    <3>2. CASE read.event # <<>>
      <4>1. first \in Logged
        BY <1>1, <3>2
      <4> HIDE DEF first
      <4>2. Append(read.events, first) \in Seq(Logged)
        BY <1>1, <4>1
      <4>3. QED  BY <3>2, <4>2 DEF Sv!Push, first
    <3>3. QED  BY <3>1, <3>2
  <2>5. Sv!LogLine(read, line) = [events |-> Sv!Push(read), inside |-> FALSE, event |-> <<blank>>]
    BY <1>2 DEF Sv!LogLine, blank
  <2>6. QED  BY <2>3, <2>4, <2>5 DEF LogReads
<1>3. CASE line.key # "Event" /\ read.event = <<>>
  BY <1>3 DEF Sv!LogLine
<1>4. CASE line.key # "Event" /\ read.event # <<>>
  <2>1. first \in Logged
    BY <1>1, <1>4
  <2>2. ASSUME NEW e \in Logged, NEW b \in BOOLEAN
        PROVE  [read EXCEPT !.event = [read.event EXCEPT ![1] = e], !.inside = b] \in LogReads
    <3>1. [read.event EXCEPT ![1] = e] \in Seq(Logged)
      BY <1>1, <1>4, ChangesFirst
    <3> DEFINE f == [read.event EXCEPT ![1] = e]
    <3> HIDE DEF f
    <3>2. [read EXCEPT !.event = f, !.inside = b] \in LogReads
      BY <3>1 DEF LogReads, f
    <3>3. QED  BY <3>2 DEF f
  <2> DEFINE LL == Sv!LogLine(read, line)
             W(e, b) == [read EXCEPT !.event = [read.event EXCEPT ![1] = e], !.inside = b]
  <2>3. first.date \in LogWords /\ first.id \in LogWords /\ first.text \in Seq(LogWords)
        /\ read.inside \in BOOLEAN
    BY <2>1 DEF Logged, LogReads
  <2>4. CASE line.key = "Date"
    <3>1. LL = W([first EXCEPT !.date = v], FALSE)
      BY <1>4, <2>4 DEF Sv!LogLine
    <3>2. [first EXCEPT !.date = v] \in Logged
      BY <1>1, <2>1 DEF Logged
    <3>3. QED  BY <2>2, <3>1, <3>2, Zenon
  <2>5. CASE line.key = "Event ID"
    <3>1. LL = W([first EXCEPT !.id = v], FALSE)
      BY <1>4, <2>5, Zenon DEF Sv!LogLine
    <3>2. [first EXCEPT !.id = v] \in Logged
      BY <1>1, <2>1 DEF Logged
    <3>3. QED  BY <2>2, <3>1, <3>2, Zenon
  <2>6. CASE line.key = "Description"
    <3> DEFINE t == IF v = "" THEN first.text ELSE Append(first.text, v)
    <3>1. LL = W([first EXCEPT !.text = t], TRUE)
      BY <1>4, <2>6 DEF Sv!LogLine
    <3>2. [first EXCEPT !.text = t] \in Logged
      <4>1. t \in Seq(LogWords)
        <5>1. CASE v = ""
          BY <2>3, <5>1, Zenon
        <5>2. CASE v # ""
          <6>1. Append(first.text, v) \in Seq(LogWords)
            BY <1>1, <2>3, AppendProperties
          <6>2. QED  BY <5>2, <6>1, Zenon
        <5>3. QED  BY <5>1, <5>2, Zenon
      <4> HIDE DEF t
      <4>2. QED  BY <2>1, <4>1 DEF Logged
    <3>3. QED  BY <2>2, <3>1, <3>2, Zenon
  <2>7. CASE line.key = "text" /\ read.inside /\ v # ""
    <3> DEFINE t == Append(first.text, v)
    <3>1. LL = [read EXCEPT !.event = [read.event EXCEPT ![1] = [first EXCEPT !.text = t]]]
      BY <1>4, <2>7, Zenon DEF Sv!LogLine
    <3>2. [first EXCEPT !.text = t] \in Logged
      <4>1. t \in Seq(LogWords)
        BY <1>1, <2>3
      <4> HIDE DEF t
      <4>2. QED  BY <2>1, <4>1 DEF Logged
    <3> DEFINE f == [read.event EXCEPT ![1] = [first EXCEPT !.text = t]]
    <3>3. f \in Seq(Logged)
      <4> DEFINE e == [first EXCEPT !.text = t]
      <4> HIDE DEF e, first
      <4>1. QED  BY <1>1, <1>4, <3>2, ChangesFirst DEF e
    <3> HIDE DEF f
    <3>4. [read EXCEPT !.event = f] \in LogReads
      BY <3>3 DEF LogReads
    <3>5. QED  BY <3>1, <3>4 DEF f
  <2>8. CASE line.key = "field" /\ read.inside
    <3>1. LL = [read EXCEPT !.inside = FALSE]
      BY <1>4, <2>8 DEF Sv!LogLine
    <3>2. QED  BY <3>1 DEF LogReads
  <2>9. CASE /\ line.key \notin {"Date", "Event ID", "Description"}
             /\ ~(line.key = "text" /\ read.inside /\ v # "")
             /\ ~(line.key = "field" /\ read.inside)
    <3>1. LL = read
      BY <1>4, <2>9, Zenon DEF Sv!LogLine
    <3>2. QED  BY <3>1
  <2>10. QED  BY <2>4, <2>5, <2>6, <2>7, <2>8, <2>9, Zenon
<1>5. QED  BY <1>2, <1>3, <1>4

(* What parse_wevtutil pushes is the last reading.                         *)
LEMMA LogRuns ==
  ASSUME NEW lines \in Seq(LogLines)
  PROVE  \E r : /\ LogRun(r, lines)
               /\ \A filter : Sv!ParseWevtutil(lines, filter) =
                      LET events == Sv!Push(r[Len(lines)])
                      IN  Sv!Only({e \in Sv!ToSet(events) : Sv!Mentions(e, filter)}, events)
<1> DEFINE Op == [x \in LogReads \X LogLines |-> Sv!LogLine(x[1], x[2])]
           D == DOMAIN lines
           Body(f) == [s \in SUBSET D |->
                         IF s = {} THEN LogBlank
                         ELSE Sv!LogLine(f[s \ {Sv!Max(s)}], lines[Sv!Max(s)])]
           g == CHOOSE f : f = Body(f)
<1>1. Len(lines) \in Nat /\ D = 1 .. Len(lines)
  OBVIOUS
<1>2. Op \in [LogReads \X LogLines -> LogReads]
  <2>1. \A x \in LogReads \X LogLines : Sv!LogLine(x[1], x[2]) \in LogReads
    BY LogLineTyped
  <2>2. QED  BY <2>1
<1>3. LogBlank \in LogReads
  <2>1. <<>> \in Seq(Logged)
    OBVIOUS
  <2>2. QED  BY <2>1 DEF LogBlank, LogReads
<1>4. PICK f \in [SUBSET D -> LogReads] : Folding(f, LogBlank, Op, lines)
  <2> HIDE DEF Op
  <2>1. QED  BY <1>2, <1>3, FoldingIsThere
<1>5. ASSUME NEW s \in SUBSET D, s # {}
      PROVE  f[s] = Sv!LogLine(f[s \ {Sv!Max(s)}], lines[Sv!Max(s)])
  <2>1. f[s] = Op[<<f[s \ {Sv!Max(s)}], lines[Sv!Max(s)]>>]
    BY <1>4, <1>5 DEF Folding
  <2>2. f[s \ {Sv!Max(s)}] \in LogReads
    BY <1>4
  <2>3. lines[Sv!Max(s)] \in LogLines
    <3>1. Sv!Max(s) \in D
      <4>1. Top(s) \in s
        BY <1>1, <1>5, TopIs
      <4>2. Sv!Max(s) = Top(s)
        BY DEF Sv!Max, Top
      <4>3. QED  BY <4>1, <4>2
    <3>2. QED  BY <1>1, <3>1
  <2>4. QED  BY <2>1, <2>2, <2>3
<1>6. f = Body(f)
  <2>1. f[{}] = LogBlank
    BY <1>4 DEF Folding
  <2>2. QED  BY <1>4, <1>5, <2>1
<1> HIDE DEF Op
<1>7. g = Body(g)
  <2> HIDE DEF Body
  <2>1. QED  BY <1>6
<1>8. ASSUME NEW filter
      PROVE  Sv!ParseWevtutil(lines, filter) =
               LET events == Sv!Push(g[D])
               IN  Sv!Only({e \in Sv!ToSet(events) : Sv!Mentions(e, filter)}, events)
  BY DEF Sv!ParseWevtutil, Sv!FoldLeft, Sv!MapThenFoldSet, LogBlank
<1> DEFINE r == [k \in 0 .. Len(lines) |-> g[1 .. k]]
<1>9. r[0] = LogBlank
  <2>1. 1 .. 0 = {} /\ {} \in SUBSET D
    OBVIOUS
  <2>2. g[{}] = LogBlank
    <3> HIDE DEF g, D
    <3>1. QED  BY <1>7, <2>1
  <2> HIDE DEF g
  <2>3. QED  BY <1>1, <2>1, <2>2
<1>10. ASSUME NEW k \in 1 .. Len(lines) PROVE r[k] = Sv!LogLine(r[k - 1], lines[k])
  <2>1. 1 .. k \in SUBSET D /\ 1 .. k # {} /\ Sv!Max(1 .. k) = k /\ (1 .. k) \ {k} = 1 .. (k - 1)
    BY <1>1, RangeMax
  <2> DEFINE s == 1 .. k
  <2>2. g[s] = Sv!LogLine(g[s \ {Sv!Max(s)}], lines[Sv!Max(s)])
    <3>1. s \in SUBSET D /\ s # {}
      BY <2>1
    <3> HIDE DEF g, D, s
    <3>2. QED  BY <1>7, <3>1
  <2> HIDE DEF g
  <2>3. r[k] = g[1 .. k] /\ r[k - 1] = g[1 .. (k - 1)]
    BY <1>1
  <2>4. QED  BY <2>1, <2>2, <2>3
<1>11. r[Len(lines)] = g[D]
  BY <1>1
<1> HIDE DEF r, g, D
<1>12. QED  BY <1>8, <1>9, <1>10, <1>11 DEF LogRun

-----------------------------------------------------------------------------
(* The reader within an event, before its description and in it.           *)
About(date, id, text) == [date |-> date, id |-> id, text |-> text]
Heads(read, evs, e) ==
  read \in LogReads /\ read.events = evs /\ read.event = <<e>> /\ read.inside = FALSE
Inside(read, evs, e) ==
  read \in LogReads /\ read.events = evs /\ read.event = <<e>> /\ read.inside = TRUE

Says(v) == v # ""

LEMMA LineTyped ==
  ASSUME NEW k \in {"Event", "field", "Date", "Event ID", "Description", "text"},
         NEW v \in LogWords
  PROVE  Sv!Line(k, v) \in LogLines /\ Sv!Line(k, v).key = k /\ Sv!Line(k, v).value = v
<1>1. k \in LogWords
  BY Zenon DEF LogWords
<1>2. QED  BY <1>1, Zenon DEF Sv!Line, LogLines

(* A line Event pushes what is under way and begins the next.              *)
LEMMA EventLine ==
  ASSUME NEW read \in LogReads
  PROVE  Heads(Sv!LogLine(read, Sv!Line("Event", "")), Sv!Push(read), About("", "", <<>>))
<1> DEFINE w == Sv!Line("Event", "")  q == Sv!LogLine(read, w)  f == About("", "", <<>>)
<1>1. w.key = "Event" /\ w \in LogLines
  BY LineTyped, Zenon DEF LogWords
<1>2. q = [events |-> Sv!Push(read), inside |-> FALSE, event |-> <<f>>]
  <2> HIDE DEF w
  <2>1. QED  BY <1>1 DEF Sv!LogLine, About
<1>3. q \in LogReads
  BY <1>1, LogLineTyped, Zenon
<1>4. q.events = Sv!Push(read) /\ q.event = <<f>> /\ q.inside = FALSE
  <2> HIDE DEF q, f, w
  <2>1. QED  BY <1>2
<1> HIDE DEF q, f, w
<1>5. QED  BY <1>3, <1>4, Zenon DEF Heads, q, f, w

(* Lines that are passed over: fields, and empty ones.                     *)
LEMMA Unread ==
  ASSUME NEW read \in LogReads, NEW line \in LogLines, read.event # <<>>,
         \/ line.key = "field" /\ read.inside = FALSE
         \/ line.key = "text" /\ line.value = ""
  PROVE  Sv!LogLine(read, line) = read
BY Zenon DEF Sv!LogLine

LEMMA FieldLine ==
  ASSUME NEW read, NEW evs, NEW e, Heads(read, evs, e)
  PROVE  Heads(Sv!LogLine(read, Sv!Line("field", "")), evs, e)
<1> DEFINE w == Sv!Line("field", "")
<1>1. w.key = "field" /\ w \in LogLines
  BY LineTyped, Zenon DEF LogWords
<1>2. read \in LogReads /\ read.event = <<e>> /\ read.inside = FALSE
  BY DEF Heads
<1>3. read.event # <<>>
  BY <1>2
<1> HIDE DEF w
<1>4. Sv!LogLine(read, w) = read
  BY <1>1, <1>2, <1>3, Unread, Zenon
<1>5. QED  BY <1>4, Zenon DEF w

LEMMA EmptyLine ==
  ASSUME NEW read, NEW evs, NEW e, Inside(read, evs, e)
  PROVE  Inside(Sv!LogLine(read, Sv!Line("text", "")), evs, e)
<1> DEFINE w == Sv!Line("text", "")
<1>1. w.key = "text" /\ w.value = "" /\ w \in LogLines
  BY LineTyped, Zenon DEF LogWords
<1>2. read \in LogReads /\ read.event = <<e>>
  BY DEF Inside
<1>3. read.event # <<>>
  BY <1>2
<1> HIDE DEF w
<1>4. Sv!LogLine(read, w) = read
  BY <1>1, <1>2, <1>3, Unread, Zenon
<1>5. QED  BY <1>4, Zenon DEF w

(* Lines that fill in the event.                                           *)
LEMMA DateLine ==
  ASSUME NEW read, NEW evs, NEW e, NEW v \in LogWords,
         Heads(read, evs, e)
  PROVE  Heads(Sv!LogLine(read, Sv!Line("Date", v)), evs, [e EXCEPT !.date = v])
<1> DEFINE w == Sv!Line("Date", v)  q == Sv!LogLine(read, w)  f == [e EXCEPT !.date = v]
<1>1. w.key = "Date" /\ w.value = v /\ w \in LogLines
  BY LineTyped, Zenon
<1>2. read \in LogReads /\ read.events = evs /\ read.event = <<e>> /\ read.event[1] = e
  BY DEF Heads
<1>3. q = [read EXCEPT !.event = [read.event EXCEPT ![1] = f], !.inside = FALSE]
  <2>1. read.event # <<>>
    BY <1>2
  <2> HIDE DEF w
  <2>2. QED  BY <1>1, <1>2, <2>1 DEF Sv!LogLine
<1>4. q \in LogReads
  BY <1>1, <1>2, LogLineTyped
<1>5. q.events = evs /\ q.event = <<f>> /\ q.inside = FALSE
  <2> HIDE DEF q, f, w
  <2>1. QED  BY <1>2, <1>3 DEF LogReads
<1> HIDE DEF q, f, w
<1>6. QED  BY <1>4, <1>5 DEF Heads, q, f, w

LEMMA IdLine ==
  ASSUME NEW read, NEW evs, NEW e, NEW v \in LogWords,
         Heads(read, evs, e)
  PROVE  Heads(Sv!LogLine(read, Sv!Line("Event ID", v)), evs, [e EXCEPT !.id = v])
<1> DEFINE w == Sv!Line("Event ID", v)  q == Sv!LogLine(read, w)  f == [e EXCEPT !.id = v]
<1>1. w.key = "Event ID" /\ w.value = v /\ w \in LogLines
  BY LineTyped, Zenon
<1>2. read \in LogReads /\ read.events = evs /\ read.event = <<e>> /\ read.event[1] = e
  BY DEF Heads
<1>3. q = [read EXCEPT !.event = [read.event EXCEPT ![1] = f], !.inside = FALSE]
  <2>1. read.event # <<>>
    BY <1>2
  <2> HIDE DEF w
  <2>2. QED  BY <1>1, <1>2, <2>1, Zenon DEF Sv!LogLine
<1>4. q \in LogReads
  BY <1>1, <1>2, LogLineTyped, Zenon
<1>5. q.events = evs /\ q.event = <<f>> /\ q.inside = FALSE
  <2> HIDE DEF q, f, w
  <2>1. QED  BY <1>2, <1>3 DEF LogReads
<1> HIDE DEF q, f, w
<1>6. QED  BY <1>4, <1>5, Zenon DEF Heads, q, f, w

LEMMA DescriptionLine ==
  ASSUME NEW read, NEW evs, NEW e, NEW v \in LogWords, Says(v),
         Heads(read, evs, e)
  PROVE  Inside(Sv!LogLine(read, Sv!Line("Description", v)),
                evs, [e EXCEPT !.text = Append(e.text, v)])
<1> DEFINE w == Sv!Line("Description", v)  q == Sv!LogLine(read, w)
           f == [e EXCEPT !.text = Append(e.text, v)]
<1>1. w.key = "Description" /\ w.value = v /\ w \in LogLines
  BY LineTyped, Zenon
<1>2. read \in LogReads /\ read.events = evs /\ read.event = <<e>> /\ read.event[1] = e
  BY DEF Heads
<1>3. q = [read EXCEPT !.inside = TRUE, !.event = [read.event EXCEPT ![1] = f]]
  <2>1. read.event # <<>>
    BY <1>2
  <2> HIDE DEF w
  <2>2. QED  BY <1>1, <1>2, <2>1, Zenon DEF Sv!LogLine, Says
<1>4. q \in LogReads
  BY <1>1, <1>2, LogLineTyped
<1>5. q.events = evs /\ q.event = <<f>> /\ q.inside = TRUE
  <2> HIDE DEF q, f, w
  <2>1. QED  BY <1>2, <1>3 DEF LogReads
<1> HIDE DEF q, f, w
<1>6. QED  BY <1>4, <1>5 DEF Inside, q, f, w

LEMMA NoDescription ==
  ASSUME NEW read, NEW evs, NEW e, Heads(read, evs, e)
  PROVE  Inside(Sv!LogLine(read, Sv!Line("Description", "")), evs, [e EXCEPT !.text = e.text])
<1> DEFINE w == Sv!Line("Description", "")  q == Sv!LogLine(read, w)
           f == [e EXCEPT !.text = e.text]
<1>1. w.key = "Description" /\ w.value = "" /\ w \in LogLines
  BY LineTyped, Zenon DEF LogWords
<1>2. read \in LogReads /\ read.events = evs /\ read.event = <<e>> /\ read.event[1] = e
  BY DEF Heads
<1>3. q = [read EXCEPT !.inside = TRUE, !.event = [read.event EXCEPT ![1] = f]]
  <2>1. read.event # <<>>
    BY <1>2
  <2> HIDE DEF w
  <2>2. QED  BY <1>1, <1>2, <2>1, Zenon DEF Sv!LogLine
<1>4. q \in LogReads
  BY <1>1, <1>2, LogLineTyped, Zenon
<1>5. q.events = evs /\ q.event = <<f>> /\ q.inside = TRUE
  <2> HIDE DEF q, f, w
  <2>1. QED  BY <1>2, <1>3 DEF LogReads
<1> HIDE DEF q, f, w
<1>6. QED  BY <1>4, <1>5, Zenon DEF Inside, q, f, w

LEMMA TextLine ==
  ASSUME NEW read, NEW evs, NEW e, NEW v \in LogWords, Says(v),
         Inside(read, evs, e)
  PROVE  Inside(Sv!LogLine(read, Sv!Line("text", v)),
                evs, [e EXCEPT !.text = Append(e.text, v)])
<1> DEFINE w == Sv!Line("text", v)  q == Sv!LogLine(read, w)
           f == [e EXCEPT !.text = Append(e.text, v)]
<1>1. w.key = "text" /\ w.value = v /\ w \in LogLines
  BY LineTyped, Zenon
<1>2. /\ read \in LogReads /\ read.events = evs
      /\ read.event = <<e>> /\ read.event[1] = e /\ read.inside = TRUE
  BY DEF Inside
<1>3. q = [read EXCEPT !.event = [read.event EXCEPT ![1] = f]]
  <2>1. read.event # <<>>
    BY <1>2
  <2> HIDE DEF w
  <2>2. QED  BY <1>1, <1>2, <2>1, Zenon DEF Sv!LogLine, Says
<1>4. q \in LogReads
  BY <1>1, <1>2, LogLineTyped
<1>5. q.events = evs /\ q.event = <<f>> /\ q.inside = TRUE
  <2> HIDE DEF q, f, w
  <2>1. QED  BY <1>2, <1>3 DEF LogReads
<1> HIDE DEF q, f, w
<1>6. QED  BY <1>4, <1>5 DEF Inside, q, f, w

-----------------------------------------------------------------------------
(* What is read of an event is its record.                                 *)
Events == [date : STRING, id : STRING, text : Seq(STRING), spills : BOOLEAN]
Sayings(e) == e.text # <<>> /\ \A j \in 1 .. Len(e.text) : Says(e.text[j])

LEMMA EventIs ==
  ASSUME NEW e \in Events, Sayings(e)
  PROVE  /\ Len(e.text) \in Nat \ {0} /\ e.date \in LogWords /\ e.id \in LogWords
         /\ \A i \in 1 .. Len(e.text) : e.text[i] \in LogWords /\ Says(e.text[i])
<1>1. e.date \in STRING /\ e.id \in STRING /\ e.text \in Seq(STRING)
  BY DEF Events
<1>2. e.date \in LogWords /\ e.id \in LogWords
  BY <1>1, Zenon DEF LogWords
<1> DEFINE t == e.text
<1>3. t \in Seq(STRING) /\ t # <<>> /\ \A i \in 1 .. Len(t) : Says(t[i])
  BY <1>1 DEF Sayings
<1> HIDE DEF t
<1>4. Len(t) \in Nat \ {0} /\ \A i \in 1 .. Len(t) : t[i] \in STRING
  BY <1>3
<1>5. STRING \subseteq LogWords
  BY Zenon DEF LogWords
<1>6. QED  BY <1>2, <1>3, <1>4, <1>5 DEF t

(* The first lines of an event, its description, the rest of that.         *)
BlockParts(block, head, mid, tail) ==
  /\ block \in Seq(LogLines) /\ Len(block) = Len(head) + Len(mid) + Len(tail)
  /\ \A i \in 1 .. Len(head) : block[i] = head[i]
  /\ \A i \in 1 .. Len(mid) : block[Len(head) + i] = mid[i]
  /\ \A i \in 1 .. Len(tail) : block[Len(head) + Len(mid) + i] = tail[i]

LEMMA Joined ==
  ASSUME NEW s \in Seq(LogLines), NEW t \in Seq(LogLines)
  PROVE  /\ s \o t \in Seq(LogLines) /\ Len(s \o t) = Len(s) + Len(t)
         /\ \A i \in 1 .. Len(s) : (s \o t)[i] = s[i]
         /\ \A i \in 1 .. Len(t) : (s \o t)[Len(s) + i] = t[i]
OBVIOUS

LEMMA ThreeParts ==
  ASSUME NEW head \in Seq(LogLines), NEW mid \in Seq(LogLines), NEW tail \in Seq(LogLines)
  PROVE  BlockParts(head \o mid \o tail, head, mid, tail)
<1> DEFINE a == head \o mid  n == Len(head)  m == Len(mid)  k == Len(tail)
<1>1. n \in Nat /\ m \in Nat /\ k \in Nat
  OBVIOUS
<1>2. a \in Seq(LogLines) /\ Len(a) = n + m /\ (\A i \in 1 .. n : a[i] = head[i])
      /\ \A i \in 1 .. m : a[n + i] = mid[i]
  OBVIOUS
<1> DEFINE b == a \o tail
<1> HIDE DEF a, n, m
<1>3. b \in Seq(LogLines) /\ Len(b) = n + m + k /\ (\A i \in 1 .. n + m : b[i] = a[i])
      /\ \A i \in 1 .. k : b[n + m + i] = tail[i]
  <2> DEFINE p == Len(a)
  <2>1. b \in Seq(LogLines) /\ Len(b) = p + k /\ (\A i \in 1 .. p : b[i] = a[i])
        /\ \A i \in 1 .. k : b[p + i] = tail[i]
    BY <1>2, Joined
  <2>2. p = n + m
    BY <1>2
  <2> HIDE DEF p, b, k
  <2>3. QED  BY <2>1, <2>2
<1> HIDE DEF b, n, m, k
<1>4. \A i \in 1 .. n : b[i] = head[i]
  BY <1>1, <1>2, <1>3
<1>5. ASSUME NEW i \in 1 .. m PROVE b[n + i] = mid[i]
  <2>1. n + i \in 1 .. n + m
    BY <1>1
  <2>2. QED  BY <1>2, <1>3, <2>1
<1>6. QED  BY <1>3, <1>4, <1>5 DEF BlockParts, a, b, n, m, k

BlockHead(e) ==
  <<Sv!Line("Event", ""), Sv!Line("field", ""), Sv!Line("Date", e.date),
    Sv!Line("Event ID", e.id), Sv!Line("field", "")>>
BlockMid(e) ==
  IF e.spills THEN <<Sv!Line("Description", ""), Sv!Line("text", e.text[1]), Sv!Line("text", "")>>
  ELSE <<Sv!Line("Description", e.text[1])>>
BlockTail(e) == [i \in 1 .. Len(e.text) - 1 |-> Sv!Line("text", e.text[i + 1])]

LEMMA HeadIs ==
  ASSUME NEW e \in Events, Sayings(e)
  PROVE  /\ BlockHead(e) \in Seq(LogLines) /\ Len(BlockHead(e)) = 5
         /\ BlockHead(e)[1] = Sv!Line("Event", "") /\ BlockHead(e)[2] = Sv!Line("field", "")
         /\ BlockHead(e)[3] = Sv!Line("Date", e.date) /\ BlockHead(e)[4] = Sv!Line("Event ID", e.id)
         /\ BlockHead(e)[5] = Sv!Line("field", "")
<1> DEFINE a == Sv!Line("Event", "")  b == Sv!Line("field", "")  c == Sv!Line("Date", e.date)
           d == Sv!Line("Event ID", e.id)
<1>1. "" \in LogWords
  BY DEF LogWords
<1>2. a \in LogLines /\ b \in LogLines /\ c \in LogLines /\ d \in LogLines
  BY <1>1, EventIs, LineTyped, Zenon
<1>3. BlockHead(e) = <<a, b, c, d, b>>
  BY DEF BlockHead
<1> HIDE DEF a, b, c, d
<1>4. <<a, b, c, d, b>> \in Seq(LogLines)
  BY <1>2
<1>5. LET s == <<a, b, c, d, b>>
      IN  Len(s) = 5 /\ s[1] = a /\ s[2] = b /\ s[3] = c /\ s[4] = d /\ s[5] = b
  OBVIOUS
<1>6. QED  BY <1>3, <1>4, <1>5, Zenon DEF a, b, c, d

LEMMA MidSpills ==
  ASSUME NEW e \in Events, Sayings(e), e.spills = TRUE
  PROVE  /\ BlockMid(e) \in Seq(LogLines) /\ Len(BlockMid(e)) = 3
         /\ BlockMid(e)[1] = Sv!Line("Description", "")
         /\ BlockMid(e)[2] = Sv!Line("text", e.text[1])
         /\ BlockMid(e)[3] = Sv!Line("text", "")
<1> DEFINE v == e.text[1]
           a == Sv!Line("Description", "")  b == Sv!Line("text", v)  c == Sv!Line("text", "")
<1>1. "" \in LogWords
  BY DEF LogWords
<1>2. v \in LogWords
  BY EventIs
<1>3. a \in LogLines /\ b \in LogLines /\ c \in LogLines
  <2> HIDE DEF v
  <2>1. QED  BY <1>1, <1>2, LineTyped, Zenon
<1>4. BlockMid(e) = <<a, b, c>>
  BY Zenon DEF BlockMid
<1> HIDE DEF a, b, c, v
<1>5. LET s == <<a, b, c>>
      IN  s \in Seq(LogLines) /\ Len(s) = 3 /\ s[1] = a /\ s[2] = b /\ s[3] = c
  BY <1>3
<1>6. QED  BY <1>4, <1>5, Zenon DEF a, b, c, v

LEMMA MidPlain ==
  ASSUME NEW e \in Events, Sayings(e), e.spills = FALSE
  PROVE  /\ BlockMid(e) \in Seq(LogLines) /\ Len(BlockMid(e)) = 1
         /\ BlockMid(e)[1] = Sv!Line("Description", e.text[1])
<1> DEFINE v == e.text[1]  d == Sv!Line("Description", v)
<1>1. v \in LogWords
  BY EventIs
<1>2. d \in LogLines
  <2> HIDE DEF v
  <2>1. QED  BY <1>1, LineTyped, Zenon
<1>3. BlockMid(e) = <<d>>
  BY Zenon DEF BlockMid
<1> HIDE DEF d, v
<1>4. <<d>> \in Seq(LogLines) /\ Len(<<d>>) = 1 /\ <<d>>[1] = d
  BY <1>2
<1>5. QED  BY <1>3, <1>4 DEF d, v

LEMMA MidIs ==
  ASSUME NEW e \in Events, Sayings(e)
  PROVE  BlockMid(e) \in Seq(LogLines) /\ Len(BlockMid(e)) \in Nat
<1>1. e.spills = TRUE \/ e.spills = FALSE
  BY DEF Events
<1>2. CASE e.spills = TRUE
  <2>1. BlockMid(e) \in Seq(LogLines) /\ Len(BlockMid(e)) = 3
    BY <1>2, MidSpills, Zenon
  <2>2. QED  BY <2>1
<1>3. CASE e.spills = FALSE
  <2>1. BlockMid(e) \in Seq(LogLines) /\ Len(BlockMid(e)) = 1
    BY <1>3, MidPlain, Zenon
  <2>2. QED  BY <2>1
<1>4. QED  BY <1>1, <1>2, <1>3

LEMMA TailIs ==
  ASSUME NEW e \in Events, Sayings(e)
  PROVE  BlockTail(e) \in Seq(LogLines) /\ Len(BlockTail(e)) = Len(e.text) - 1
<1> DEFINE t == e.text  n == Len(t)
<1>1. n \in Nat \ {0} /\ \A i \in 1 .. n : t[i] \in LogWords
  BY EventIs
<1>2. ASSUME NEW i \in 1 .. n - 1 PROVE Sv!Line("text", t[i + 1]) \in LogLines
  <2> HIDE DEF t, n
  <2>1. t[i + 1] \in LogWords
    BY <1>1
  <2>2. QED  BY <2>1, LineTyped, Zenon
<1>3. BlockTail(e) = [i \in 1 .. n - 1 |-> Sv!Line("text", t[i + 1])]
  BY DEF BlockTail
<1> HIDE DEF t, n
<1>4. [i \in 1 .. n - 1 |-> Sv!Line("text", t[i + 1])] \in [1 .. n - 1 -> LogLines]
  BY <1>2
<1>5. n - 1 \in Nat
  BY <1>1
<1> DEFINE tail == [i \in 1 .. n - 1 |-> Sv!Line("text", t[i + 1])]
<1>6. tail \in Seq(LogLines) /\ Len(tail) = n - 1
  <2>1. tail \in [1 .. n - 1 -> LogLines] /\ DOMAIN tail = 1 .. n - 1
    BY <1>4
  <2> HIDE DEF tail
  <2>2. QED  BY <1>5, <2>1
<1>7. QED  BY <1>3, <1>6 DEF n, t

LEMMA BlockIs ==
  ASSUME NEW e \in Events, Sayings(e)
  PROVE  BlockParts(Sv!Block(e), BlockHead(e), BlockMid(e), BlockTail(e))
<1>1. Sv!Block(e) = BlockHead(e) \o BlockMid(e) \o BlockTail(e)
  BY DEF Sv!Block, BlockHead, BlockMid, BlockTail
<1>2. QED  BY <1>1, HeadIs, MidIs, TailIs, ThreeParts, Zenon

(* A run comes to a block.                                                 *)
Meets(r, lines, o, block) ==
  /\ LogRun(r, lines) /\ o + Len(block) <= Len(lines)
  /\ \A j \in 1 .. Len(block) : lines[o + j] = block[j]

LogSteps(r, o, block) ==
  \A k \in Nat, j \in 1 .. Len(block) : j = k + 1 => r[o + j] = Sv!LogLine(r[o + k], block[j])

LEMMA MeetsSteps ==
  ASSUME NEW lines \in Seq(LogLines), NEW block \in Seq(LogLines), NEW o \in Nat, NEW r,
         Meets(r, lines, o, block)
  PROVE  LogSteps(r, o, block)
<1>1. Len(lines) \in Nat /\ Len(block) \in Nat /\ o + Len(block) <= Len(lines) /\ LogRun(r, lines)
      /\ \A j \in 1 .. Len(block) : lines[o + j] = block[j]
  BY DEF Meets
<1>2. ASSUME NEW k \in Nat, NEW j \in 1 .. Len(block), j = k + 1
      PROVE  r[o + j] = Sv!LogLine(r[o + k], block[j])
  <2> DEFINE i == o + j
  <2>1. i \in 1 .. Len(lines) /\ i - 1 = o + k
    BY <1>1, <1>2
  <2>2. lines[i] = block[j]
    BY <1>1
  <2>3. r[i] = Sv!LogLine(r[i - 1], lines[i])
    <3> HIDE DEF i
    <3>1. QED  BY <1>1, <2>1 DEF LogRun
  <2>4. QED  BY <2>1, <2>2, <2>3
<1>3. QED  BY <1>2 DEF LogSteps

LEMMA DateRead ==
  ASSUME NEW read, NEW evs, NEW d, NEW i, NEW t, NEW v \in LogWords,
         Heads(read, evs, About(d, i, t))
  PROVE  Heads(Sv!LogLine(read, Sv!Line("Date", v)), evs, About(v, i, t))
<1> DEFINE was == About(d, i, t)  is == About(v, i, t)  f == [was EXCEPT !.date = v]
<1>1. f = is
  BY DEF About
<1>2. Heads(read, evs, was)
  OBVIOUS
<1> HIDE DEF was, is
<1>3. Heads(Sv!LogLine(read, Sv!Line("Date", v)), evs, f)
  BY <1>2, DateLine, Zenon
<1> HIDE DEF f
<1>4. QED  BY <1>1, <1>3 DEF is

LEMMA IdRead ==
  ASSUME NEW read, NEW evs, NEW d, NEW i, NEW t, NEW v \in LogWords,
         Heads(read, evs, About(d, i, t))
  PROVE  Heads(Sv!LogLine(read, Sv!Line("Event ID", v)), evs, About(d, v, t))
<1> DEFINE was == About(d, i, t)  is == About(d, v, t)  f == [was EXCEPT !.id = v]
<1>1. f = is
  BY DEF About
<1>2. Heads(read, evs, was)
  OBVIOUS
<1> HIDE DEF was, is
<1>3. Heads(Sv!LogLine(read, Sv!Line("Event ID", v)), evs, f)
  BY <1>2, IdLine, Zenon
<1> HIDE DEF f
<1>4. QED  BY <1>1, <1>3, Zenon DEF is

LEMMA DescriptionRead ==
  ASSUME NEW read, NEW evs, NEW d, NEW i, NEW t, NEW v \in LogWords, Says(v),
         Heads(read, evs, About(d, i, t))
  PROVE  Inside(Sv!LogLine(read, Sv!Line("Description", v)), evs, About(d, i, Append(t, v)))
<1> DEFINE was == About(d, i, t)  is == About(d, i, Append(t, v))
           f == [was EXCEPT !.text = Append(was.text, v)]
<1>1. f = is
  BY SMTT(20) DEF About
<1>2. Heads(read, evs, was)
  OBVIOUS
<1> HIDE DEF was, is
<1>3. Inside(Sv!LogLine(read, Sv!Line("Description", v)), evs, f)
  BY <1>2, DescriptionLine, Zenon
<1> HIDE DEF f
<1>4. QED  BY <1>1, <1>3 DEF is

LEMMA TextRead ==
  ASSUME NEW read, NEW evs, NEW d, NEW i, NEW t, NEW v \in LogWords, Says(v),
         Inside(read, evs, About(d, i, t))
  PROVE  Inside(Sv!LogLine(read, Sv!Line("text", v)), evs, About(d, i, Append(t, v)))
<1> DEFINE was == About(d, i, t)  is == About(d, i, Append(t, v))
           f == [was EXCEPT !.text = Append(was.text, v)]
<1>1. f = is
  BY SMTT(20) DEF About
<1>2. Inside(read, evs, was)
  OBVIOUS
<1> HIDE DEF was, is
<1>3. Inside(Sv!LogLine(read, Sv!Line("text", v)), evs, f)
  BY <1>2, TextLine, Zenon
<1> HIDE DEF f
<1>4. QED  BY <1>1, <1>3 DEF is

LEMMA NoneRead ==
  ASSUME NEW read, NEW evs, NEW d, NEW i, NEW t, Heads(read, evs, About(d, i, t))
  PROVE  Inside(Sv!LogLine(read, Sv!Line("Description", "")), evs, About(d, i, t))
<1> DEFINE was == About(d, i, t)  is == About(d, i, t)  f == [was EXCEPT !.text = was.text]
<1>1. f = is
  BY DEF About
<1>2. Heads(read, evs, was)
  OBVIOUS
<1> HIDE DEF was, is
<1>3. Inside(Sv!LogLine(read, Sv!Line("Description", "")), evs, f)
  BY <1>2, NoDescription, Zenon
<1> HIDE DEF f
<1>4. QED  BY <1>1, <1>3, Zenon DEF is

(* After its first lines the event under way has its date and its id.      *)
LEMMA HeadRead ==
  ASSUME NEW lines \in Seq(LogLines), NEW e \in Events, Sayings(e), NEW o \in Nat, NEW r,
         Meets(r, lines, o, Sv!Block(e)), r[o] \in LogReads
  PROVE  Heads(r[o + 5], Sv!Push(r[o]), About(e.date, e.id, <<>>))
<1> DEFINE block == Sv!Block(e)  evs == Sv!Push(r[o])  head == BlockHead(e)
<1>1. BlockParts(block, head, BlockMid(e), BlockTail(e))
  BY BlockIs
<1>2. head \in Seq(LogLines) /\ Len(head) = 5 /\ Len(BlockMid(e)) \in Nat
      /\ Len(BlockTail(e)) \in Nat
  <2>1. Len(BlockMid(e)) \in Nat
    BY MidIs
  <2>2. Len(BlockTail(e)) \in Nat
    BY TailIs
  <2>3. QED  BY <2>1, <2>2, HeadIs, Zenon
<1>3. /\ head[1] = Sv!Line("Event", "") /\ head[2] = Sv!Line("field", "")
      /\ head[3] = Sv!Line("Date", e.date) /\ head[4] = Sv!Line("Event ID", e.id)
      /\ head[5] = Sv!Line("field", "")
  BY HeadIs, Zenon
<1>4. block \in Seq(LogLines) /\ Len(block) >= 5 /\ Len(block) \in Nat
      /\ \A j \in 1 .. 5 : block[j] = head[j]
  BY <1>1, <1>2 DEF BlockParts
<1>5. ASSUME NEW k \in Nat, NEW j \in 1 .. 5, j = k + 1
      PROVE  r[o + j] = Sv!LogLine(r[o + k], head[j])
  <2>1. LogSteps(r, o, block)
    <3> HIDE DEF head
    <3>1. QED  BY <1>4, MeetsSteps
  <2>2. j \in 1 .. Len(block)
    BY <1>4
  <2> HIDE DEF block, head
  <2>3. r[o + j] = Sv!LogLine(r[o + k], block[j])
    BY <1>5, <2>1, <2>2 DEF LogSteps
  <2>4. QED  BY <1>4, <2>3
<1>6. /\ r[o + 1] = Sv!LogLine(r[o + 0], head[1]) /\ r[o + 2] = Sv!LogLine(r[o + 1], head[2])
      /\ r[o + 3] = Sv!LogLine(r[o + 2], head[3]) /\ r[o + 4] = Sv!LogLine(r[o + 3], head[4])
      /\ r[o + 5] = Sv!LogLine(r[o + 4], head[5]) /\ o + 0 = o
  <2>1. 0 \in Nat /\ 1 \in Nat /\ 2 \in Nat /\ 3 \in Nat /\ 4 \in Nat
        /\ 1 \in 1 .. 5 /\ 2 \in 1 .. 5 /\ 3 \in 1 .. 5 /\ 4 \in 1 .. 5 /\ 5 \in 1 .. 5
        /\ 1 = 0 + 1 /\ 2 = 1 + 1 /\ 3 = 2 + 1 /\ 4 = 3 + 1 /\ 5 = 4 + 1 /\ o + 0 = o
    OBVIOUS
  <2> HIDE DEF head
  <2>2. QED  BY <1>5, <2>1, Zenon
<1> HIDE DEF evs, block, head
<1>7. Heads(r[o + 1], evs, About("", "", <<>>))
  <2>1. r[o + 1] = Sv!LogLine(r[o], Sv!Line("Event", ""))
    BY <1>6, <1>3, Zenon
  <2>2. QED  BY <2>1, EventLine, Zenon DEF evs
<1>8. Heads(r[o + 2], evs, About("", "", <<>>))
  <2>1. r[o + 2] = Sv!LogLine(r[o + 1], Sv!Line("field", ""))
    BY <1>6, <1>3, Zenon
  <2>2. QED  BY <1>7, <2>1, FieldLine, Zenon
<1>9. Heads(r[o + 3], evs, About(e.date, "", <<>>))
  <2>1. r[o + 3] = Sv!LogLine(r[o + 2], Sv!Line("Date", e.date))
    BY <1>6, <1>3, Zenon
  <2>2. e.date \in LogWords
    BY EventIs
  <2>3. QED  BY <1>8, <2>1, <2>2, DateRead, Zenon
<1>10. Heads(r[o + 4], evs, About(e.date, e.id, <<>>))
  <2>1. r[o + 4] = Sv!LogLine(r[o + 3], Sv!Line("Event ID", e.id))
    BY <1>6, <1>3, Zenon
  <2>2. e.id \in LogWords
    BY EventIs
  <2>3. QED  BY <1>9, <2>1, <2>2, IdRead, Zenon
<1>11. QED
  <2>1. r[o + 5] = Sv!LogLine(r[o + 4], Sv!Line("field", ""))
    BY <1>6, <1>3, Zenon
  <2>2. QED  BY <1>10, <2>1, FieldLine, Zenon DEF evs

LEMMA MeetsParts ==
  ASSUME NEW r, NEW lines \in Seq(LogLines), NEW o \in Nat, NEW block, NEW head \in Seq(LogLines),
         NEW mid \in Seq(LogLines), NEW tail \in Seq(LogLines),
         BlockParts(block, head, mid, tail), Meets(r, lines, o, block)
  PROVE  /\ Meets(r, lines, o + Len(head), mid)
         /\ Meets(r, lines, o + Len(head) + Len(mid), tail)
<1> DEFINE n == Len(head)  m == Len(mid)  k == Len(tail)
<1>1. n \in Nat /\ m \in Nat /\ k \in Nat /\ Len(lines) \in Nat
  OBVIOUS
<1>2. Len(block) = n + m + k /\ o + Len(block) <= Len(lines) /\ LogRun(r, lines)
  BY DEF BlockParts, Meets
<1> HIDE DEF n, m, k
<1>3. ASSUME NEW i \in 1 .. m PROVE lines[o + n + i] = mid[i]
  <2>1. block[n + i] = mid[i]
    BY DEF BlockParts, n, m
  <2>2. n + i \in 1 .. Len(block)
    BY <1>1, <1>2
  <2>3. lines[o + (n + i)] = block[n + i]
    BY <2>2 DEF Meets
  <2>4. o + (n + i) = o + n + i
    BY <1>1
  <2>5. QED  BY <2>1, <2>3, <2>4
<1>4. ASSUME NEW i \in 1 .. k PROVE lines[o + n + m + i] = tail[i]
  <2>1. block[n + m + i] = tail[i]
    BY DEF BlockParts, n, m, k
  <2>2. n + m + i \in 1 .. Len(block)
    BY <1>1, <1>2
  <2>3. lines[o + (n + m + i)] = block[n + m + i]
    BY <2>2 DEF Meets
  <2>4. o + (n + m + i) = o + n + m + i
    BY <1>1
  <2>5. QED  BY <2>1, <2>3, <2>4
<1>5. o + n + m <= Len(lines) /\ o + n + m + k <= Len(lines)
  BY <1>1, <1>2
<1>6. QED  BY <1>2, <1>3, <1>4, <1>5 DEF Meets, n, m, k

(* After its description it has its first words.                           *)
LEMMA MidRead ==
  ASSUME NEW lines \in Seq(LogLines), NEW e \in Events, Sayings(e), NEW o \in Nat, NEW r,
         Meets(r, lines, o, BlockMid(e)), NEW evs, NEW d, NEW i, Heads(r[o], evs, About(d, i, <<>>))
  PROVE  Inside(r[o + Len(BlockMid(e))], evs, About(d, i, <<e.text[1]>>))
<1> DEFINE v == e.text[1]  mid == BlockMid(e)
<1>1. v \in LogWords /\ Says(v)
  BY EventIs
<1>2. Append(<<>>, v) = <<v>>
  OBVIOUS
<1>3. mid \in Seq(LogLines)
  BY MidIs
<1>4. ASSUME NEW k \in Nat, NEW j \in 1 .. Len(mid), j = k + 1
      PROVE  r[o + j] = Sv!LogLine(r[o + k], mid[j])
  <2>1. LogSteps(r, o, mid)
    BY <1>3, MeetsSteps
  <2> HIDE DEF mid
  <2>2. QED  BY <1>4, <2>1 DEF LogSteps
<1>5. 0 \in Nat /\ 1 \in Nat /\ 2 \in Nat /\ 1 = 0 + 1 /\ 2 = 1 + 1 /\ 3 = 2 + 1 /\ o + 0 = o
      /\ 1 \in 1 .. 1 /\ 1 \in 1 .. 3 /\ 2 \in 1 .. 3 /\ 3 \in 1 .. 3
  OBVIOUS
<1>6. CASE e.spills = TRUE
  <2>1. /\ Len(mid) = 3 /\ mid[1] = Sv!Line("Description", "")
        /\ mid[2] = Sv!Line("text", v) /\ mid[3] = Sv!Line("text", "")
    BY <1>6, MidSpills, Zenon
  <2> HIDE DEF mid, v
  <2>2. /\ r[o + 1] = Sv!LogLine(r[o], Sv!Line("Description", ""))
        /\ r[o + 2] = Sv!LogLine(r[o + 1], Sv!Line("text", v))
        /\ r[o + 3] = Sv!LogLine(r[o + 2], Sv!Line("text", ""))
    <3>1. ASSUME NEW k \in Nat, NEW j \in 1 .. 3, j = k + 1
          PROVE  r[o + j] = Sv!LogLine(r[o + k], mid[j])
      BY <1>4, <2>1, <3>1, Zenon
    <3>2. /\ r[o + 1] = Sv!LogLine(r[o + 0], mid[1]) /\ r[o + 2] = Sv!LogLine(r[o + 1], mid[2])
          /\ r[o + 3] = Sv!LogLine(r[o + 2], mid[3])
      BY <1>5, <3>1, Zenon
    <3>3. r[o + 0] = r[o]
      BY <1>5
    <3>4. QED  BY <2>1, <3>2, <3>3, Zenon
  <2>3. Inside(r[o + 1], evs, About(d, i, <<>>))
    BY <2>2, NoneRead, Zenon
  <2>4. Inside(r[o + 2], evs, About(d, i, <<v>>))
    BY <1>1, <1>2, <2>2, <2>3, TextRead, Zenon
  <2>5. Inside(r[o + 3], evs, About(d, i, <<v>>))
    BY <2>2, <2>4, EmptyLine, Zenon
  <2>6. QED  BY <2>1, <2>5, Zenon DEF mid, v
<1>7. CASE e.spills = FALSE
  <2>1. Len(mid) = 1 /\ mid[1] = Sv!Line("Description", v)
    BY <1>7, MidPlain, Zenon
  <2> HIDE DEF mid, v
  <2>2. r[o + 1] = Sv!LogLine(r[o], Sv!Line("Description", v))
    <3>1. 1 \in 1 .. Len(mid)
      BY <2>1, <1>5, Zenon
    <3>2. r[o + 1] = Sv!LogLine(r[o + 0], mid[1])
      BY <1>4, <1>5, <3>1, Zenon
    <3>3. QED  BY <1>5, <2>1, <3>2, Zenon
  <2>3. Inside(r[o + 1], evs, About(d, i, <<v>>))
    BY <1>1, <1>2, <2>2, DescriptionRead, Zenon
  <2>4. QED  BY <2>1, <2>3, Zenon DEF mid, v
<1>8. e.spills = TRUE \/ e.spills = FALSE
  BY DEF Events
<1>9. QED  BY <1>6, <1>7, <1>8

(* And after the rest of it, all of them.                                  *)
LEMMA TailRead ==
  ASSUME NEW lines \in Seq(LogLines), NEW e \in Events, Sayings(e), NEW o \in Nat, NEW r,
         Meets(r, lines, o, BlockTail(e)), NEW evs, NEW d, NEW i,
         Inside(r[o], evs, About(d, i, <<e.text[1]>>))
  PROVE  Inside(r[o + Len(BlockTail(e))], evs, About(d, i, e.text))
<1> DEFINE t == e.text  n == Len(t)  tail == BlockTail(e)
           Upto(m) == [j \in 1 .. m |-> t[j]]
<1>1. n \in Nat \ {0} /\ \A j \in 1 .. n : t[j] \in LogWords /\ Says(t[j])
  BY EventIs
<1>2. tail \in Seq(LogLines) /\ Len(tail) = n - 1
  BY TailIs
<1>3. ASSUME NEW k \in Nat, NEW j \in 1 .. Len(tail), j = k + 1
       PROVE  r[o + j] = Sv!LogLine(r[o + k], tail[j])
  <2>1. LogSteps(r, o, tail)
    BY <1>2, MeetsSteps
  <2> HIDE DEF tail, n, t, Upto
  <2>2. QED  BY <1>3, <2>1 DEF LogSteps
<1>4. \A j \in 1 .. n - 1 : tail[j] = Sv!Line("text", t[j + 1])
  BY DEF BlockTail
<1>5. t = Upto(n)
  BY DEF Events
<1> HIDE DEF t, n, tail
<1>6. ASSUME NEW m \in Nat, m < n PROVE Append(Upto(m), t[m + 1]) = Upto(m + 1)
  <2>1. Upto(m) \in Seq(LogWords) /\ Len(Upto(m)) = m /\ t[m + 1] \in LogWords
    BY <1>1, <1>6
  <2>2. QED  BY <2>1
<1>7. <<t[1]>> = Upto(1)
  OBVIOUS
<1> DEFINE T == {m \in Nat : m < n => Inside(r[o + m], evs, About(d, i, Upto(m + 1)))}
<1>8. 0 \in T
  <2>1. o + 0 = o /\ 0 + 1 = 1
    OBVIOUS
  <2>2. Inside(r[o], evs, About(d, i, <<t[1]>>))
    BY DEF t
  <2> HIDE DEF Upto
  <2>3. QED  BY <1>7, <2>1, <2>2
<1>9. ASSUME NEW m \in Nat, m \in T PROVE m + 1 \in T
  <2> DEFINE j == m + 1  v == t[j + 1]
  <2>1. SUFFICES ASSUME j < n PROVE Inside(r[o + j], evs, About(d, i, Upto(j + 1)))
    OBVIOUS
  <2>2. m < n /\ j \in Nat /\ j \in 1 .. n - 1 /\ v \in LogWords /\ Says(v)
    BY <1>1, <2>1
  <2>3. Inside(r[o + m], evs, About(d, i, Upto(j)))
    BY <1>9, <2>2
  <2>4. r[o + j] = Sv!LogLine(r[o + m], tail[j])
    <3>1. j \in 1 .. Len(tail)
      BY <1>2, <2>2
    <3>2. j = m + 1
      OBVIOUS
    <3> HIDE DEF j
    <3>3. QED  BY <1>3, <3>1, <3>2
  <2>5. tail[j] = Sv!Line("text", v)
    BY <1>4, <2>2
  <2>6. Append(Upto(j), v) = Upto(j + 1)
    BY <1>6, <2>1, <2>2
  <2> HIDE DEF Upto, j, v
  <2>7. QED  BY <2>2, <2>3, <2>4, <2>5, <2>6, TextRead, Zenon
<1>10. n - 1 \in T
  <2> HIDE DEF T
  <2>1. Nat \subseteq T
    BY <1>8, <1>9, SetInduction
  <2>2. QED  BY <1>1, <2>1
<1>11. (n - 1) + 1 = n /\ n - 1 < n
  BY <1>1
<1>12. Inside(r[o + (n - 1)], evs, About(d, i, Upto(n)))
  BY <1>10, <1>11
<1>13. QED  BY <1>2, <1>12, <1>5 DEF t, tail

(* So a whole block makes its own event, and what came before is pushed.   *)
LEMMA BlockRead ==
  ASSUME NEW lines \in Seq(LogLines), NEW e \in Events, Sayings(e), NEW o \in Nat, NEW r,
         Meets(r, lines, o, Sv!Block(e)), r[o] \in LogReads, NEW p, p = o + Len(Sv!Block(e))
  PROVE  r[p] \in LogReads /\ Sv!Push(r[p]) = Append(Sv!Push(r[o]), About(e.date, e.id, e.text))
<1> DEFINE evs == Sv!Push(r[o])  head == BlockHead(e)  mid == BlockMid(e)  tail == BlockTail(e)
           block == Sv!Block(e)  a == About(e.date, e.id, e.text)
<1>1. head \in Seq(LogLines) /\ Len(head) = 5
  BY HeadIs, Zenon
<1>2. mid \in Seq(LogLines) /\ Len(mid) \in Nat
  BY MidIs
<1>3. tail \in Seq(LogLines)
  BY TailIs
<1>4. BlockParts(block, head, mid, tail)
  BY BlockIs
<1>5. Meets(r, lines, o + 5, mid) /\ Meets(r, lines, o + 5 + Len(mid), tail)
  <2> HIDE DEF block, head, mid, tail
  <2>1. Meets(r, lines, o, block)
    BY DEF block
  <2>2. Meets(r, lines, o + Len(head), mid) /\ Meets(r, lines, o + Len(head) + Len(mid), tail)
    BY <1>1, <1>2, <1>3, <1>4, <2>1, MeetsParts, Zenon
  <2>3. QED  BY <1>1, <2>2, Zenon
<1>6. o + 5 \in Nat /\ o + 5 + Len(mid) \in Nat
  BY <1>2
<1>7. Heads(r[o + 5], evs, About(e.date, e.id, <<>>))
  BY HeadRead
<1>8. Inside(r[o + 5 + Len(mid)], evs, About(e.date, e.id, <<e.text[1]>>))
  <2> HIDE DEF evs
  <2>1. QED  BY <1>5, <1>6, <1>7, MidRead, Zenon
<1>9. Inside(r[o + 5 + Len(mid) + Len(tail)], evs, a)
  <2> HIDE DEF evs
  <2>1. QED  BY <1>5, <1>6, <1>8, TailRead, Zenon
<1>10. p = o + 5 + Len(mid) + Len(tail)
  <2>1. Len(block) = 5 + Len(mid) + Len(tail) /\ Len(tail) \in Nat
    BY <1>1, <1>3, <1>4 DEF BlockParts
  <2> HIDE DEF mid, tail
  <2>2. QED  BY <1>2, <2>1
<1> DEFINE q == r[p]
<1>11. Inside(q, evs, a)
  BY <1>9, <1>10
<1> HIDE DEF q, evs, a
<1>12. q \in LogReads /\ q.events = evs /\ q.event = <<a>>
  BY <1>11 DEF Inside
<1>13. q.event # <<>> /\ q.event[1] = a
  BY <1>12
<1>14. Sv!Push(q) = Append(evs, a)
  BY <1>12, <1>13 DEF Sv!Push
<1>15. QED  BY <1>12, <1>14 DEF q, evs, a

Blocks(events) == [i \in DOMAIN events |-> Sv!Block(events[i])]
Records(events) == [i \in DOMAIN events |-> About(events[i].date, events[i].id, events[i].text)]

(* All events are read, each from its own block.                           *)
LEMMA EventsRead ==
  ASSUME NEW events \in Seq(Events), \A i \in DOMAIN events : Sayings(events[i]), NEW filter
  PROVE  Sv!ParseWevtutil(Sv!FlattenSeq(Blocks(events)), filter) =
           Sv!Only({e \in Sv!ToSet(Records(events)) : Sv!Mentions(e, filter)}, Records(events))
<1> DEFINE n == Len(events)  blocks == Blocks(events)  lines == Sv!FlattenSeq(blocks)
           Rec(i) == About(events[i].date, events[i].id, events[i].text)
<1>1. n \in Nat /\ DOMAIN events = 1 .. n /\ \A i \in 1 .. n : events[i] \in Events
  OBVIOUS
<1>2. \A i \in 1 .. n : blocks[i] = Sv!Block(events[i])
  BY <1>1 DEF Blocks
<1>3. ASSUME NEW i \in 1 .. n PROVE Sv!Block(events[i]) \in Seq(LogLines)
  <2>1. events[i] \in Events /\ Sayings(events[i])
    BY <1>1
  <2>2. BlockParts(Sv!Block(events[i]), BlockHead(events[i]), BlockMid(events[i]),
                   BlockTail(events[i]))
    BY <2>1, BlockIs, Zenon
  <2>3. QED  BY <2>2 DEF BlockParts
<1>4. blocks \in Seq(Seq(LogLines)) /\ Len(blocks) = n
  <2>1. blocks = [i \in 1 .. n |-> Sv!Block(events[i])]
    BY <1>1 DEF Blocks
  <2> HIDE DEF n
  <2>2. [i \in 1 .. n |-> Sv!Block(events[i])] \in [1 .. n -> Seq(LogLines)]
    BY <1>3
  <2>3. DOMAIN blocks = 1 .. n /\ blocks \in [1 .. n -> Seq(LogLines)]
    BY <2>1, <2>2
  <2> HIDE DEF blocks
  <2>4. QED  BY <1>1, <2>3
<1> HIDE DEF blocks
<1>5. lines \in Seq(LogLines)
  BY <1>4, FlatIs
<1>6. PICK off : FlatOf(blocks, off, lines)
  BY <1>4, FlatIs
<1> HIDE DEF lines, n
<1>7. PICK r : /\ LogRun(r, lines)
               /\ Sv!ParseWevtutil(lines, filter) =
                      LET recs == Sv!Push(r[Len(lines)])
                      IN  Sv!Only({e \in Sv!ToSet(recs) : Sv!Mentions(e, filter)}, recs)
  BY <1>5, LogRuns
<1>8. /\ off[0] = 0 /\ Len(lines) = off[n]
      /\ \A k \in 0 .. n : off[k] \in Nat
      /\ \A k \in 1 .. n : off[k] = off[k - 1] + Len(blocks[k]) /\ off[k] <= Len(lines)
      /\ \A k \in 1 .. n : \A j \in 1 .. Len(blocks[k]) : lines[off[k - 1] + j] = blocks[k][j]
  BY <1>1, <1>4, <1>6 DEF FlatOf
<1> DEFINE Upto(k) == [i \in 1 .. k |-> Rec(i)]
           T == {k \in Nat : k <= n => r[off[k]] \in LogReads /\ Sv!Push(r[off[k]]) = Upto(k)}
<1>9. 0 \in T
  <2>1. r[0] = LogBlank
    BY <1>7 DEF LogRun
  <2>2. LogBlank \in LogReads /\ Sv!Push(LogBlank) = <<>>
    <3>1. <<>> \in Seq(Logged)
      OBVIOUS
    <3>2. QED  BY <3>1 DEF LogBlank, LogReads, Sv!Push
  <2>3. Upto(0) = <<>>
    OBVIOUS
  <2> HIDE DEF Upto
  <2>4. QED  BY <1>8, <2>1, <2>2, <2>3
<1>10. ASSUME NEW k \in Nat, k \in T PROVE k + 1 \in T
  <2> DEFINE m == k + 1  e == events[m]  o == off[k]  p == off[m]  a == About(e.date, e.id, e.text)
  <2>1. SUFFICES ASSUME m <= n PROVE r[p] \in LogReads /\ Sv!Push(r[p]) = Upto(m)
    OBVIOUS
  <2>2. m \in 1 .. n /\ m - 1 = k /\ k \in 0 .. n
    BY <1>1, <2>1
  <2>3. r[o] \in LogReads /\ Sv!Push(r[o]) = Upto(k)
    BY <1>10, <2>2
  <2>4. e \in Events /\ Sayings(e) /\ blocks[m] = Sv!Block(e) /\ Sv!Block(e) \in Seq(LogLines)
    BY <1>1, <1>2, <1>3, <2>2
  <2> HIDE DEF e, m
  <2>5. o \in Nat /\ p = o + Len(Sv!Block(e)) /\ p <= Len(lines)
    BY <1>8, <2>2, <2>4
  <2>6. Meets(r, lines, o, Sv!Block(e))
    <3>1. \A j \in 1 .. Len(Sv!Block(e)) : lines[o + j] = Sv!Block(e)[j]
      BY <1>8, <2>2, <2>4
    <3> HIDE DEF o, p
    <3>2. QED  BY <1>7, <2>5, <3>1 DEF Meets
  <2>7. r[p] \in LogReads /\ Sv!Push(r[p]) = Append(Sv!Push(r[o]), a)
    <3> HIDE DEF o, p
    <3>1. QED  BY <1>5, <2>3, <2>4, <2>5, <2>6, BlockRead, Zenon
  <2>8. Append(Upto(k), a) = Upto(m)
    <3>1. a = Rec(m)
      BY DEF e
    <3> HIDE DEF Rec, a
    <3>2. Upto(k) \in Seq({Rec(i) : i \in 1 .. m}) /\ Len(Upto(k)) = k /\ m = k + 1
      BY <2>2, SMTT(20) DEF m
    <3>3. QED  BY <2>2, <3>1, <3>2
  <2>9. QED  BY <2>3, <2>7, <2>8
<1>11. n \in T
  <2> HIDE DEF T
  <2>1. Nat \subseteq T
    BY <1>9, <1>10, SetInduction
  <2>2. QED  BY <1>1, <2>1
<1>12. Upto(n) = Records(events)
  BY <1>1 DEF Records
<1>13. Sv!Push(r[Len(lines)]) = Records(events)
  BY <1>1, <1>8, <1>11, <1>12
<1>14. QED  BY <1>7, <1>13 DEF lines, blocks

LEMMA ServicesCounted == \A S : Sv!Cardinality(S) = Cardinality(S)
BY DEF Sv!Cardinality, Cardinality

(* The log has the events that name the service, whole and in order.       *)
LogOf(log, events, unit) ==
  LET own == {i \in DOMAIN events : Sv!Mentions(events[i], unit)} IN
  /\ Len(log) = Sv!Cardinality(own)
  /\ \A i \in own : log[Sv!Cardinality({j \in own : j <= i})] =
                      [date |-> events[i].date, id |-> events[i].id, text |-> events[i].text]

(* And of them the log keeps those that name the service.                  *)
LEMMA LogIsOwn ==
  ASSUME NEW events \in Seq(Events), \A i \in DOMAIN events : Sayings(events[i]), NEW unit
  PROVE  LogOf(Sv!ParseWevtutil(Sv!FlattenSeq(Blocks(events)), unit), events, unit)
<1> DEFINE n == Len(events)  recs == Records(events)
           S == {e \in Sv!ToSet(recs) : Sv!Mentions(e, unit)}  log == Sv!Only(S, recs)
           own == {i \in DOMAIN events : Sv!Mentions(events[i], unit)}
           Rec(i) == About(events[i].date, events[i].id, events[i].text)
<1>1. Sv!ParseWevtutil(Sv!FlattenSeq(Blocks(events)), unit) = log
  BY EventsRead
<1>2. n \in Nat /\ DOMAIN events = 1 .. n
  OBVIOUS
<1>3. DOMAIN recs = 1 .. n /\ \A i \in 1 .. n : recs[i] = Rec(i)
  BY <1>2 DEF Records
<1> DEFINE R == {Rec(i) : i \in 1 .. n}
<1>4. recs \in Seq(R) /\ Len(recs) = n
  <2>1. \A i \in 1 .. n : recs[i] \in R
    BY <1>3
  <2>2. recs = [i \in 1 .. n |-> recs[i]]
    BY <1>2 DEF Records
  <2> HIDE DEF recs, n, R
  <2>3. QED  BY <1>2, <2>1, <2>2
<1> HIDE DEF R
<1>5. ASSUME NEW i \in 1 .. n PROVE recs[i] \in S <=> i \in own
  <2>1. recs[i] \in Sv!ToSet(recs)
    BY <1>3 DEF Sv!ToSet
  <2>2. recs[i].text = events[i].text
    BY <1>3 DEF About
  <2>3. Sv!Mentions(recs[i], unit) <=> Sv!Mentions(events[i], unit)
    <3> HIDE DEF recs
    <3>1. QED  BY <2>2, Zenon DEF Sv!Mentions
  <2> HIDE DEF recs
  <2>4. QED  BY <1>2, <2>1, <2>3
<1> HIDE DEF S, recs
<1>6. OnlyUpTo(S, recs, n, log)
  BY <1>4, OnlyIs
<1>7. Own(S, recs, n) = own
  BY <1>2, <1>5 DEF Own
<1>8. ASSUME NEW i \in own PROVE Own(S, recs, i) = {j \in own : j <= i}
  BY <1>2, <1>5 DEF Own
<1> HIDE DEF own, log
<1>9. Len(log) = Sv!Cardinality(own)
  BY <1>6, <1>7, ServicesCounted DEF OnlyUpTo
<1>10. ASSUME NEW i \in own
       PROVE  log[Sv!Cardinality({j \in own : j <= i})] = Rec(i)
  <2>1. log[Cardinality(Own(S, recs, i))] = recs[i]
    BY <1>6, <1>7 DEF OnlyUpTo
  <2>2. i \in 1 .. n
    BY <1>2 DEF own
  <2>3. Cardinality(Own(S, recs, i)) = Sv!Cardinality({j \in own : j <= i})
    BY <1>8, ServicesCounted
  <2>4. QED  BY <1>3, <2>1, <2>2, <2>3
<1>11. LogOf(log, events, unit)
  BY <1>9, <1>10 DEF LogOf, own, About
<1>12. QED  BY <1>1, <1>11

-----------------------------------------------------------------------------
(* What a list shows of a service.                                         *)
Named(unit) == unit \notin {"", "footer"}

Shown(manager, unit, state, mute) ==
  CASE manager = "systemd" ->
         (CASE state = "failed" -> "failed" [] state = "up" -> "running"
            [] state = "down" -> "stopped" [] OTHER -> "other")
    [] manager = "openrc" ->
         (CASE state = "failed" -> "failed" [] state = "up" -> "running"
            [] state = "down" -> "stopped" [] OTHER -> "other")
    [] manager = "sysv" ->
         (CASE unit \in mute -> "other" [] unit \notin mute /\ state = "up" -> "running"
            [] OTHER -> "stopped")
    [] OTHER ->
         (CASE state = "changing" -> "other" [] state = "up" -> "running" [] OTHER -> "stopped")

(* Blocks of sc, one after another.                                        *)
ScMeets(r, lines, o, block) ==
  /\ ScRun(r, lines) /\ o + Len(block) <= Len(lines)
  /\ \A j \in 1 .. Len(block) : lines[o + j] = block[j]

ScSteps(r, o, block) ==
  \A k \in Nat, j \in 1 .. Len(block) : j = k + 1 => r[o + j] = Sv!ScLine(r[o + k], block[j])

LEMMA ScMeetsSteps ==
  ASSUME NEW lines \in Seq(ScLines), NEW block \in Seq(ScLines), NEW o \in Nat, NEW r,
         ScMeets(r, lines, o, block)
  PROVE  ScSteps(r, o, block)
<1>1. Len(lines) \in Nat /\ Len(block) \in Nat /\ o + Len(block) <= Len(lines) /\ ScRun(r, lines)
      /\ \A j \in 1 .. Len(block) : lines[o + j] = block[j]
  BY DEF ScMeets
<1>2. ASSUME NEW k \in Nat, NEW j \in 1 .. Len(block), j = k + 1
      PROVE  r[o + j] = Sv!ScLine(r[o + k], block[j])
  <2> DEFINE i == o + j
  <2>1. i \in 1 .. Len(lines) /\ i - 1 = o + k
    BY <1>1, <1>2
  <2>2. lines[i] = block[j]
    BY <1>1
  <2>3. r[i] = Sv!ScLine(r[i - 1], lines[i])
    <3> HIDE DEF i
    <3>1. QED  BY <1>1, <2>1 DEF ScRun
  <2>4. QED  BY <2>1, <2>2, <2>3
<1>3. QED  BY <1>2 DEF ScSteps

ScBlocks(unit, state) ==
  LET name == [key |-> "SERVICE_NAME", value |-> unit]
      shown == [key |-> "DISPLAY_NAME", value |-> unit]
  IN  IF state = "changing" THEN <<name, shown>>
      ELSE <<name, shown,
             [key |-> "STATE", value |-> IF state = "up" THEN "RUNNING" ELSE "STOPPED"]>>

LEMMA ScLinesOf ==
  ASSUME NEW unit \in STRING, NEW state, NEW mute
  PROVE  Sv!Lines("scm", unit, state, mute) = ScBlocks(unit, state)
         /\ ScBlocks(unit, state) \in Seq(ScLines)
<1> DEFINE name == [key |-> "SERVICE_NAME", value |-> unit]
           shown == [key |-> "DISPLAY_NAME", value |-> unit]
           last == [key |-> "STATE", value |-> IF state = "up" THEN "RUNNING" ELSE "STOPPED"]
<1>1. name \in ScLines /\ shown \in ScLines /\ last \in ScLines
  BY Zenon DEF ScLines, Words
<1>2. Sv!Lines("scm", unit, state, mute)
        = <<name, shown>> \o IF state = "changing" THEN <<>> ELSE <<last>>
  BY DEF Sv!Lines
<1> HIDE DEF name, shown, last
<1>3. /\ <<name, shown>> \o <<>> = <<name, shown>>
      /\ <<name, shown>> \o <<last>> = <<name, shown, last>>
      /\ <<name, shown>> \in Seq(ScLines) /\ <<name, shown, last>> \in Seq(ScLines)
  <2>1. <<name, shown>> \in Seq(ScLines) /\ <<name, shown, last>> \in Seq(ScLines)
        /\ <<last>> \in Seq(ScLines)
    BY <1>1
  <2>2. <<name, shown>> \o <<>> = <<name, shown>>
    BY <2>1, ConcatEmptySeq
  <2>3. <<name, shown>> \o <<last>> = <<name, shown, last>>
    <3>1. Append(<<name, shown>>, last) = <<name, shown, last>>
      <4> DEFINE a == Append(<<name, shown>>, last)  b == <<name, shown, last>>
      <4>1. a \in Seq(ScLines) /\ Len(a) = 3 /\ a[1] = name /\ a[2] = shown /\ a[3] = last
        BY <1>1
      <4>2. b \in Seq(ScLines) /\ Len(b) = 3 /\ b[1] = name /\ b[2] = shown /\ b[3] = last
        BY <1>1
      <4> HIDE DEF a, b
      <4>3. \A i \in 1 .. 3 : a[i] = b[i]
        BY <4>1, <4>2
      <4>4. a = b
        BY <4>1, <4>2, <4>3, SeqEqual
      <4>5. QED  BY <4>4 DEF a, b
    <3>2. Append(<<name, shown>>, last) = <<name, shown>> \o <<last>>
      BY <1>1, <2>1, AppendIsConcat
    <3>3. QED  BY <3>1, <3>2
  <2>4. QED  BY <2>1, <2>2, <2>3
<1>4. ScBlocks(unit, state) = IF state = "changing" THEN <<name, shown>> ELSE <<name, shown, last>>
  BY DEF ScBlocks, name, shown, last
<1>5. QED  BY <1>2, <1>3, <1>4

LEMMA FlushIs ==
  ASSUME NEW read, NEW es, NEW unit, Named(unit), NEW state,
         read = [entries |-> es, name |-> unit, state |-> state]
  PROVE  Sv!Flush(read) = Append(es, Sv!Entry(unit, state))
<1>1. read.name # "" /\ read.name = unit /\ read.entries = es /\ read.state = state
  BY Zenon DEF Named
<1>2. QED  BY <1>1, Zenon DEF Sv!Flush

(* A block of sc makes its own entry, and what came before is flushed.     *)
LEMMA ScBlockRead ==
  ASSUME NEW lines \in Seq(ScLines), NEW o \in Nat, NEW r, NEW unit \in STRING, Named(unit),
         NEW state, ScMeets(r, lines, o, ScBlocks(unit, state)),
         NEW p, p = o + Len(ScBlocks(unit, state)), NEW mute
  PROVE  Sv!Flush(r[p]) =
           Append(Sv!Flush(r[o]), Sv!Entry(unit, Shown("scm", unit, state, mute)))
<1> DEFINE block == ScBlocks(unit, state)  es == Sv!Flush(r[o])
<1>1. block \in Seq(ScLines)
  BY ScLinesOf
<1>2. ASSUME NEW k \in Nat, NEW j \in 1 .. Len(block), j = k + 1
      PROVE  r[o + j] = Sv!ScLine(r[o + k], block[j])
  <2>1. ScSteps(r, o, block)
    BY <1>1, ScMeetsSteps
  <2> HIDE DEF block
  <2>2. QED  BY <1>2, <2>1 DEF ScSteps
<1>3. 0 \in Nat /\ 1 \in Nat /\ 2 \in Nat /\ 1 = 0 + 1 /\ 2 = 1 + 1 /\ 3 = 2 + 1 /\ o + 0 = o
      /\ 1 \in 1 .. 2 /\ 2 \in 1 .. 2 /\ 1 \in 1 .. 3 /\ 2 \in 1 .. 3 /\ 3 \in 1 .. 3
  OBVIOUS
<1>4. Len(block) \in {2, 3} /\ block[1] = [key |-> "SERVICE_NAME", value |-> unit]
      /\ block[2] = [key |-> "DISPLAY_NAME", value |-> unit]
  BY DEF ScBlocks
<1>5. r[o + 1] = Sv!ScLine(r[o], block[1]) /\ r[o + 2] = Sv!ScLine(r[o + 1], block[2])
  <2>1. 1 \in 1 .. Len(block) /\ 2 \in 1 .. Len(block)
    BY <1>4
  <2> HIDE DEF block
  <2>2. r[o + 1] = Sv!ScLine(r[o + 0], block[1]) /\ r[o + 2] = Sv!ScLine(r[o + 1], block[2])
    BY <1>2, <1>3, <2>1, Zenon
  <2>3. QED  BY <1>3, <2>2, Zenon
<1>6. r[o + 1] = [entries |-> es, name |-> unit, state |-> "other"]
  <2> HIDE DEF block, es
  <2>1. QED  BY <1>4, <1>5 DEF Sv!ScLine, es
<1>7. r[o + 2] = [entries |-> es, name |-> unit, state |-> "other"]
  <2> HIDE DEF block, es
  <2>1. QED  BY <1>4, <1>5, <1>6 DEF Sv!ScLine
<1>8. CASE state = "changing"
  <2>1. Len(block) = 2 /\ Shown("scm", unit, state, mute) = "other"
    BY <1>8 DEF ScBlocks, Shown
  <2>2. r[p] = r[o + 2]
    BY <2>1
  <2> HIDE DEF es
  <2>3. Sv!Flush(r[p]) = Append(es, Sv!Entry(unit, "other"))
    BY <1>7, <2>2, FlushIs
  <2>4. QED  BY <2>1, <2>3 DEF es
<1>9. CASE state # "changing"
  <2> DEFINE word == IF state = "up" THEN "RUNNING" ELSE "STOPPED"
             seen == IF state = "up" THEN "running" ELSE "stopped"
  <2>1. Len(block) = 3 /\ block[3] = [key |-> "STATE", value |-> word]
    BY <1>9 DEF ScBlocks
  <2>2. Shown("scm", unit, state, mute) = seen
    BY <1>9 DEF Shown
  <2>3. r[o + 3] = Sv!ScLine(r[o + 2], block[3])
    <3>1. 3 \in 1 .. Len(block)
      BY <2>1
    <3> HIDE DEF block
    <3>2. QED  BY <1>2, <1>3, <3>1, Zenon
  <2>4. r[o + 3] = [r[o + 2] EXCEPT !.state = seen]
    <3> DEFINE line == block[3]
    <3>1. line.key = "STATE" /\ (line.value = "RUNNING" <=> state = "up")
          /\ (line.value = "STOPPED" <=> state # "up")
      BY <2>1
    <3> HIDE DEF line
    <3>2. r[o + 3] = Sv!ScLine(r[o + 2], line)
      BY <2>3 DEF line
    <3>3. QED  BY <3>1, <3>2 DEF Sv!ScLine
  <2> HIDE DEF es, seen
  <2>5. r[o + 3] = [entries |-> es, name |-> unit, state |-> seen]
    BY <1>7, <2>4
  <2>6. r[p] = r[o + 3]
    BY <2>1
  <2>7. Sv!Flush(r[p]) = Append(es, Sv!Entry(unit, seen))
    BY <2>5, <2>6, FlushIs
  <2>8. QED  BY <2>2, <2>7 DEF es
<1>10. QED  BY <1>8, <1>9

(* The services us in the states ss, and what a list of them says.         *)
ListOf(manager, n, us, ss, mute) ==
  Sv!FlattenSeq([i \in 1 .. n |-> Sv!Lines(manager, us[i], ss[i], mute)])
Entries(manager, n, us, ss, mute) ==
  [i \in 1 .. n |-> Sv!Entry(us[i], Shown(manager, us[i], ss[i], mute))]

(* All services of sc are read, each from its own block.                   *)
LEMMA ScListRead ==
  ASSUME NEW n \in Nat, NEW us \in [1 .. n -> STRING], \A i \in 1 .. n : Named(us[i]), NEW ss,
         NEW mute
  PROVE  Sv!ParseScQuery(ListOf("scm", n, us, ss, mute)) = Entries("scm", n, us, ss, mute)
<1> DEFINE blocks == [i \in 1 .. n |-> Sv!Lines("scm", us[i], ss[i], mute)]
           lines == Sv!FlattenSeq(blocks)
           Rec(i) == Sv!Entry(us[i], Shown("scm", us[i], ss[i], mute))
<1>1. \A i \in 1 .. n : 
        blocks[i] = ScBlocks(us[i], ss[i]) /\ ScBlocks(us[i], ss[i]) \in Seq(ScLines)
  <2>1. ASSUME NEW i \in 1 .. n
        PROVE  blocks[i] = ScBlocks(us[i], ss[i]) /\ ScBlocks(us[i], ss[i]) \in Seq(ScLines)
    <3>1. us[i] \in STRING
      OBVIOUS
    <3>2. Sv!Lines("scm", us[i], ss[i], mute) = ScBlocks(us[i], ss[i])
          /\ ScBlocks(us[i], ss[i]) \in Seq(ScLines)
      BY <3>1, ScLinesOf
    <3>3. QED  BY <3>2
  <2>2. QED  BY <2>1
<1>2. blocks \in Seq(Seq(ScLines)) /\ Len(blocks) = n
  <2>1. DOMAIN blocks = 1 .. n /\ blocks \in [1 .. n -> Seq(ScLines)]
    BY <1>1
  <2> HIDE DEF blocks
  <2>2. QED  BY <2>1
<1> HIDE DEF blocks
<1>3. lines \in Seq(ScLines)
  BY <1>2, FlatIs
<1>4. PICK off : FlatOf(blocks, off, lines)
  BY <1>2, FlatIs
<1> HIDE DEF lines
<1>5. PICK r : ScRun(r, lines) /\ Sv!ParseScQuery(lines) = Sv!Flush(r[Len(lines)])
  BY <1>3, ScRuns
<1>6. /\ off[0] = 0 /\ Len(lines) = off[n]
      /\ \A k \in 0 .. n : off[k] \in Nat
      /\ \A k \in 1 .. n : off[k] = off[k - 1] + Len(blocks[k]) /\ off[k] <= Len(lines)
      /\ \A k \in 1 .. n : \A j \in 1 .. Len(blocks[k]) : lines[off[k - 1] + j] = blocks[k][j]
  BY <1>2, <1>4 DEF FlatOf
<1> DEFINE Upto(k) == [i \in 1 .. k |-> Rec(i)]
           T == {k \in Nat : k <= n => Sv!Flush(r[off[k]]) = Upto(k)}
<1>7. 0 \in T
  <2>1. r[0] = ScBlank
    BY <1>5 DEF ScRun
  <2>2. Sv!Flush(ScBlank) = <<>>
    BY DEF ScBlank, Sv!Flush
  <2>3. Upto(0) = <<>>
    OBVIOUS
  <2> HIDE DEF Upto
  <2>4. QED  BY <1>6, <2>1, <2>2, <2>3
<1>8. ASSUME NEW k \in Nat, k \in T PROVE k + 1 \in T
  <2> DEFINE m == k + 1  u == us[m]  s == ss[m]  o == off[k]  p == off[m]
             a == Sv!Entry(u, Shown("scm", u, s, mute))
  <2>1. SUFFICES ASSUME m <= n PROVE Sv!Flush(r[p]) = Upto(m)
    OBVIOUS
  <2>2. m \in 1 .. n /\ m - 1 = k /\ k \in 0 .. n
    BY <2>1
  <2>3. Sv!Flush(r[o]) = Upto(k)
    BY <1>8, <2>2
  <2>4. u \in STRING /\ Named(u) /\ blocks[m] = ScBlocks(u, s) /\ ScBlocks(u, s) \in Seq(ScLines)
    BY <1>1, <2>2
  <2> HIDE DEF u, s, m
  <2>5. o \in Nat /\ p = o + Len(ScBlocks(u, s)) /\ p <= Len(lines)
    BY <1>6, <2>2, <2>4
  <2>6. ScMeets(r, lines, o, ScBlocks(u, s))
    <3>1. \A j \in 1 .. Len(ScBlocks(u, s)) : lines[o + j] = ScBlocks(u, s)[j]
      BY <1>6, <2>2, <2>4
    <3> HIDE DEF o, p
    <3>2. QED  BY <1>5, <2>5, <3>1 DEF ScMeets
  <2>7. Sv!Flush(r[p]) = Append(Sv!Flush(r[o]), a)
    <3> HIDE DEF o, p
    <3>1. QED  BY <1>3, <2>4, <2>5, <2>6, ScBlockRead
  <2>8. Append(Upto(k), a) = Upto(m)
    <3>1. a = Rec(m)
      BY DEF u, s
    <3> HIDE DEF Rec, a
    <3>2. Upto(k) \in Seq({Rec(i) : i \in 1 .. m}) /\ Len(Upto(k)) = k /\ m = k + 1
      BY <2>2, SMTT(20) DEF m
    <3>3. QED  BY <2>2, <3>1, <3>2
  <2>9. QED  BY <2>3, <2>7, <2>8
<1>9. n \in T
  <2> HIDE DEF T
  <2>1. Nat \subseteq T
    BY <1>7, <1>8, SetInduction
  <2>2. QED  BY <2>1
<1>10. Upto(n) = Entries("scm", n, us, ss, mute)
  BY DEF Entries
<1>11. Sv!Flush(r[Len(lines)]) = Entries("scm", n, us, ss, mute)
  BY <1>6, <1>9, <1>10
<1>12. QED  BY <1>5, <1>11 DEF ListOf, lines, blocks

-----------------------------------------------------------------------------
(* A line each.                                                            *)
LEMMA FlatOnes ==
  ASSUME NEW L, NEW n \in Nat, NEW x \in [1 .. n -> L], NEW seqs, seqs = [i \in 1 .. n |-> <<x[i]>>]
  PROVE  Sv!FlattenSeq(seqs) = x
<1> DEFINE flat == Sv!FlattenSeq(seqs)
<1>1. \A i \in 1 .. n : seqs[i] = <<x[i]>> /\ Len(seqs[i]) = 1 /\ seqs[i] \in Seq(L)
                       /\ seqs[i][1] = x[i]
  OBVIOUS
<1>2. seqs \in Seq(Seq(L)) /\ Len(seqs) = n
  <2>1. seqs \in [1 .. n -> Seq(L)] /\ DOMAIN seqs = 1 .. n
    BY <1>1
  <2>2. QED  BY <2>1
<1>3. flat \in Seq(L)
  BY <1>2, FlatIs
<1>4. PICK off : FlatOf(seqs, off, flat)
  BY <1>2, FlatIs
<1> HIDE DEF flat
<1>5. /\ off[0] = 0 /\ Len(flat) = off[n]
      /\ \A k \in 1 .. n : off[k] = off[k - 1] + 1 /\ flat[off[k - 1] + 1] = x[k]
  BY <1>1, <1>2, <1>4 DEF FlatOf
<1> DEFINE T == {k \in Nat : k <= n => off[k] = k}
<1>6. 0 \in T
  BY <1>5
<1>7. ASSUME NEW k \in Nat, k \in T PROVE k + 1 \in T
  <2> DEFINE m == k + 1
  <2>1. SUFFICES ASSUME m <= n PROVE off[m] = m
    OBVIOUS
  <2>2. m \in 1 .. n /\ m - 1 = k /\ off[k] = k /\ m = k + 1
    BY <1>7, <2>1
  <2> HIDE DEF m
  <2>3. QED  BY <1>5, <2>2
<1>8. \A k \in Nat : k <= n => off[k] = k
  <2> HIDE DEF T
  <2>1. Nat \subseteq T
    BY <1>6, <1>7, SetInduction
  <2>2. QED  BY <2>1 DEF T
<1>9. Len(flat) = n
  BY <1>5, <1>8
<1>10. ASSUME NEW k \in 1 .. n PROVE flat[k] = x[k]
  <2>1. off[k - 1] = k - 1 /\ (k - 1) + 1 = k
    BY <1>8
  <2>2. QED  BY <1>5, <2>1
<1>11. x \in Seq(L) /\ Len(x) = n
  OBVIOUS
<1>12. QED  BY <1>3, <1>9, <1>10, <1>11, SeqEqual DEF flat

(* The managers that say a line of each.                                   *)
Liners == {"systemd", "openrc", "sysv"}
LineOf(manager, unit, state, mute) == Sv!Lines(manager, unit, state, mute)[1]

LEMMA OneLine ==
  ASSUME NEW manager \in Liners, NEW unit, NEW state, NEW mute
  PROVE  Sv!Lines(manager, unit, state, mute) = <<LineOf(manager, unit, state, mute)>>
<1>1. CASE manager = "systemd"
  BY <1>1 DEF LineOf, Sv!Lines
<1>2. CASE manager = "openrc"
  BY <1>2 DEF LineOf, Sv!Lines
<1>3. CASE manager = "sysv"
  BY <1>3 DEF LineOf, Sv!Lines
<1>4. QED  BY <1>1, <1>2, <1>3 DEF Liners

LEMMA ListIsLines ==
  ASSUME NEW manager \in Liners, NEW n \in Nat, NEW us, NEW ss, NEW mute
  PROVE  ListOf(manager, n, us, ss, mute) = [i \in 1 .. n |-> LineOf(manager, us[i], ss[i], mute)]
<1> DEFINE x == [i \in 1 .. n |-> LineOf(manager, us[i], ss[i], mute)]
           seqs == [i \in 1 .. n |-> <<x[i]>>]
           L == {x[i] : i \in 1 .. n}
           said == [i \in 1 .. n |-> Sv!Lines(manager, us[i], ss[i], mute)]
<1>1. \A i \in 1 .. n : Sv!Lines(manager, us[i], ss[i], mute) = <<x[i]>>
  BY OneLine
<1>2. said = seqs
  BY <1>1
<1>3. x \in [1 .. n -> L]
  OBVIOUS
<1> HIDE DEF x, L
<1>4. Sv!FlattenSeq(seqs) = x
  BY <1>3, FlatOnes
<1>5. ListOf(manager, n, us, ss, mute) = Sv!FlattenSeq(said)
  BY DEF ListOf
<1>6. QED  BY <1>2, <1>4, <1>5 DEF x

LEMMA SystemdListRead ==
  ASSUME NEW n \in Nat, NEW us \in [1 .. n -> STRING], \A i \in 1 .. n : Named(us[i]), NEW ss,
         NEW mute
  PROVE  Sv!ParseSystemctl(ListOf("systemd", n, us, ss, mute)) = Entries("systemd", n, us, ss, mute)
<1> DEFINE x == [i \in 1 .. n |-> LineOf("systemd", us[i], ss[i], mute)]
           L == {x[i] : i \in 1 .. n}  S == {l \in Sv!ToSet(x) : l.name # "footer"}
<1>1. ListOf("systemd", n, us, ss, mute) = x
  BY ListIsLines DEF Liners
<1>2. x \in Seq(L) /\ Len(x) = n /\ DOMAIN x = 1 .. n
  OBVIOUS
<1>3. \A i \in 1 .. n : x[i].name = us[i]
  BY DEF LineOf, Sv!Lines
<1>4. \A i \in 1 .. n : x[i] \in S
  <2> HIDE DEF x
  <2>1. QED  BY <1>2, <1>3, Zenon DEF Sv!ToSet, Named
<1>5. Sv!Only(S, x) = x
  <2> HIDE DEF S, x, L
  <2>1. QED  BY <1>2, <1>4, OnlyAll
<1> DEFINE Tells(l) == CASE "failed" \in {l.active, l.sub} -> "failed"
                    [] l.active = "active" /\ l.sub = "running" -> "running"
                    [] l.active = "inactive" /\ l.sub # "failed" -> "stopped"
                    [] OTHER -> "other"
<1>6. \A i \in 1 .. n : Tells(x[i]) = Shown("systemd", us[i], ss[i], mute)
  BY DEF LineOf, Sv!Lines, Shown
<1> HIDE DEF x
<1>7. Sv!ParseSystemctl(x) = [i \in DOMAIN x |-> Sv!Entry(x[i].name, Tells(x[i]))]
  BY <1>5 DEF Sv!ParseSystemctl
<1> HIDE DEF Tells
<1>8. Sv!ParseSystemctl(x) = Entries("systemd", n, us, ss, mute)
  BY <1>2, <1>3, <1>6, <1>7 DEF Entries
<1>9. QED  BY <1>1, <1>8

LEMMA OpenrcListRead ==
  ASSUME NEW n \in Nat, NEW us, NEW ss, NEW mute
  PROVE  Sv!ParseRcStatus(ListOf("openrc", n, us, ss, mute)) = Entries("openrc", n, us, ss, mute)
<1> DEFINE x == [i \in 1 .. n |-> LineOf("openrc", us[i], ss[i], mute)]
           State(l) == CASE l.word = "started" -> "running" [] l.word = "stopped" -> "stopped"
                    [] l.word = "crashed" -> "failed" [] OTHER -> "other"
<1>1. ListOf("openrc", n, us, ss, mute) = x
  BY ListIsLines DEF Liners
<1>2. DOMAIN x = 1 .. n
  OBVIOUS
<1>3. \A i \in 1 .. n : x[i].name = us[i]
  BY DEF LineOf, Sv!Lines
<1>4. \A i \in 1 .. n : State(x[i]) = Shown("openrc", us[i], ss[i], mute)
  BY DEF LineOf, Sv!Lines, Shown
<1> HIDE DEF x
<1>5. Sv!ParseRcStatus(x) = [i \in DOMAIN x |-> Sv!Entry(x[i].name, State(x[i]))]
  BY DEF Sv!ParseRcStatus
<1> HIDE DEF State
<1>6. Sv!ParseRcStatus(x) = Entries("openrc", n, us, ss, mute)
  BY <1>2, <1>3, <1>4, <1>5 DEF Entries
<1>7. QED  BY <1>1, <1>6

LEMMA SysvListRead ==
  ASSUME NEW n \in Nat, NEW us, NEW ss, NEW mute
  PROVE  Sv!ParseStatusAll(ListOf("sysv", n, us, ss, mute)) = Entries("sysv", n, us, ss, mute)
<1> DEFINE x == [i \in 1 .. n |-> LineOf("sysv", us[i], ss[i], mute)]
           State(l) == CASE l.mark = "+" -> "running" [] l.mark = "-" -> "stopped"
                    [] OTHER -> "other"
<1>1. ListOf("sysv", n, us, ss, mute) = x
  BY ListIsLines DEF Liners
<1>2. DOMAIN x = 1 .. n
  OBVIOUS
<1>3. \A i \in 1 .. n : x[i].name = us[i]
  BY DEF LineOf, Sv!Lines
<1>4. \A i \in 1 .. n : State(x[i]) = Shown("sysv", us[i], ss[i], mute)
  BY DEF LineOf, Sv!Lines, Shown
<1> HIDE DEF x
<1>5. Sv!ParseStatusAll(x) = [i \in DOMAIN x |-> Sv!Entry(x[i].name, State(x[i]))]
  BY DEF Sv!ParseStatusAll
<1> HIDE DEF State
<1>6. Sv!ParseStatusAll(x) = Entries("sysv", n, us, ss, mute)
  BY <1>2, <1>3, <1>4, <1>5 DEF Entries
<1>7. QED  BY <1>1, <1>6

(* Whoever the manager is, each service is read as its own lines say.      *)
LEMMA ListRead ==
  ASSUME NEW manager \in Liners \cup {"scm"}, NEW n \in Nat, NEW us \in [1 .. n -> STRING],
         \A i \in 1 .. n : Named(us[i]), NEW ss, NEW mute
  PROVE  Sv!ParseList(manager, ListOf(manager, n, us, ss, mute)) = Entries(manager, n, us, ss, mute)
<1>1. CASE manager = "systemd"
  BY <1>1, SystemdListRead DEF Sv!ParseList
<1>2. CASE manager = "openrc"
  BY <1>2, OpenrcListRead DEF Sv!ParseList
<1>3. CASE manager = "sysv"
  BY <1>3, SysvListRead DEF Sv!ParseList
<1>4. CASE manager = "scm"
  BY <1>4, ScListRead DEF Sv!ParseList
<1>5. QED  BY <1>1, <1>2, <1>3, <1>4 DEF Liners

(* The managers there are.                                                 *)
Managers == Liners \cup {"scm"}

(* What a manager says of one service is read as it is in a list.          *)
LEMMA OneRead ==
  ASSUME NEW manager \in Managers, NEW unit \in STRING, Named(unit), NEW state, NEW mute
  PROVE  Sv!ParseList(manager, Sv!Lines(manager, unit, state, mute))
           = <<Sv!Entry(unit, Shown(manager, unit, state, mute))>>
<1> DEFINE block == Sv!Lines(manager, unit, state, mute)
           us == [i \in 1 .. 1 |-> unit]  ss == [i \in 1 .. 1 |-> state]
           seqs == [i \in 1 .. 1 |-> block]  flat == Sv!FlattenSeq(seqs)
           entry == Sv!Entry(unit, Shown(manager, unit, state, mute))
<1>1. PICK L : block \in Seq(L)
  <2>1. CASE manager \in Liners
    <3> DEFINE line == LineOf(manager, unit, state, mute)
    <3>1. block = <<line>>
      BY <2>1, OneLine
    <3> HIDE DEF line, block
    <3>2. block \in Seq({line})
      BY <3>1
    <3>3. QED  BY <3>2
  <2>2. CASE manager = "scm"
    <3>1. block \in Seq(ScLines)
      BY <2>2, ScLinesOf
    <3>2. QED  BY <3>1
  <2>3. QED  BY <2>1, <2>2 DEF Managers
<1> HIDE DEF block
<1>2. seqs \in Seq(Seq(L)) /\ Len(seqs) = 1 /\ seqs[1] = block
  BY <1>1
<1>3. flat \in Seq(L)
  BY <1>2, FlatIs
<1>4. PICK off : FlatOf(seqs, off, flat)
  BY <1>2, FlatIs
<1>5. flat = block
  <2> HIDE DEF flat, seqs
  <2>1. off[0] = 0 /\ Len(flat) = off[1] /\ off[1] = off[1 - 1] + Len(block)
        /\ \A j \in 1 .. Len(block) : flat[off[1 - 1] + j] = block[j]
    BY <1>2, <1>4 DEF FlatOf
  <2>2. Len(block) \in Nat /\ 1 - 1 = 0 /\ \A j \in 1 .. Len(block) : 0 + j = j
    BY <1>1
  <2>3. Len(flat) = Len(block) /\ \A j \in 1 .. Len(block) : flat[j] = block[j]
    BY <2>1, <2>2
  <2>4. QED  BY <1>1, <1>3, <2>3, SeqEqual
<1>6. us \in [1 .. 1 -> STRING] /\ \A i \in 1 .. 1 : us[i] = unit /\ ss[i] = state
  OBVIOUS
<1>7. ListOf(manager, 1, us, ss, mute) = flat
  BY <1>6 DEF ListOf, block
<1>8. Entries(manager, 1, us, ss, mute) = <<entry>>
  <2>1. Entries(manager, 1, us, ss, mute) = [i \in 1 .. 1 |-> entry]
    BY <1>6 DEF Entries
  <2> HIDE DEF entry
  <2>2. QED  BY <2>1
<1> HIDE DEF us, ss, flat, entry
<1>9. Sv!ParseList(manager, ListOf(manager, 1, us, ss, mute)) = Entries(manager, 1, us, ss, mute)
  <2>1. 1 \in Nat /\ manager \in Liners \cup {"scm"} /\ \A i \in 1 .. 1 : Named(us[i])
    BY <1>6 DEF Managers
  <2> DEFINE n == 1
  <2>2. n \in Nat /\ us \in [1 .. n -> STRING] /\ \A i \in 1 .. n : Named(us[i])
    BY <1>6, <2>1
  <2> HIDE DEF n
  <2>3. Sv!ParseList(manager, ListOf(manager, n, us, ss, mute)) = Entries(manager, n, us, ss, mute)
    BY <2>1, <2>2, ListRead, SMTT(20)
  <2>4. QED  BY <2>3 DEF n
<1>10. QED  BY <1>5, <1>7, <1>8, <1>9 DEF block, entry

(* The services of a host, one after another.                              *)
LEMMA ServicesInSequence ==
  ASSUME NEW S, IsFiniteSet(S), NEW n, n = Sv!Cardinality(S)
  PROVE  /\ n \in Nat /\ Sv!SetToSeq(S) \in [1 .. n -> S]
         /\ \A x \in S : \E i \in 1 .. n : Sv!SetToSeq(S)[i] = x
<1> DEFINE f == Sv!SetToSeq(S)
<1>1. n = Cardinality(S)
  BY ServicesCounted
<1>2. n \in Nat /\ ExistsBijection(1 .. n, S)
  BY <1>1, FS_CardinalityType
<1>3. PICK b \in [1 .. n -> S] : Sv!IsInjective(b)
  BY <1>2 DEF ExistsBijection, Bijection, Injection, IsInjective, Sv!IsInjective
<1>4. f \in [1 .. n -> S] /\ Sv!IsInjective(f)
  BY <1>3 DEF Sv!SetToSeq
<1> HIDE DEF f
<1>5. f \in Surjection(1 .. n, S)
  <2>1. IsFiniteSet(1 .. n) /\ Cardinality(1 .. n) = n
    BY <1>2, FS_Interval
  <2>2. f \in Injection(1 .. n, S)
    BY <1>4 DEF Injection, IsInjective, Sv!IsInjective
  <2>3. Cardinality(1 .. n) = Cardinality(S)
    BY <1>1, <2>1
  <2>4. QED  BY <2>1, <2>2, <2>3, FS_Injection
<1>6. \A x \in S : \E i \in 1 .. n : f[i] = x
  BY <1>5 DEF Surjection
<1>7. QED  BY <1>2, <1>4, <1>6 DEF f

(* The states of a service.                                                *)
States == {"up", "down", "failed", "exited", "changing"}

(* The list has every service as its own lines say.                        *)
LEMMA PrintedRead ==
  ASSUME NEW manager \in Managers, NEW states, IsFiniteSet(DOMAIN states),
         \A unit \in DOMAIN states : unit \in STRING /\ Named(unit), NEW mute,
         NEW entries, entries = Sv!ParseList(manager, Sv!Printed(manager, states, mute))
  PROVE  /\ Len(entries) = Sv!Cardinality(DOMAIN states)
         /\ DOMAIN entries = 1 .. Len(entries)
         /\ \A unit \in DOMAIN states : \E i \in DOMAIN entries :
              entries[i] = Sv!Entry(unit, Shown(manager, unit, states[unit], mute))
<1> DEFINE n == Sv!Cardinality(DOMAIN states)  f == Sv!SetToSeq(DOMAIN states)
           ss == [i \in 1 .. n |-> states[f[i]]]
<1>1. n \in Nat /\ f \in [1 .. n -> DOMAIN states]
      /\ \A unit \in DOMAIN states : \E i \in 1 .. n : f[i] = unit
  BY ServicesInSequence
<1>2. Sv!Printed(manager, states, mute) = ListOf(manager, n, f, ss, mute)
  <2>1. [i \in 1 .. n |-> LET unit == f[i] IN Sv!Lines(manager, unit, states[unit], mute)]
          = [i \in 1 .. n |-> Sv!Lines(manager, f[i], ss[i], mute)]
    OBVIOUS
  <2>2. QED  BY <2>1 DEF Sv!Printed, ListOf
<1>3. \A i \in 1 .. n : ss[i] = states[f[i]]
  OBVIOUS
<1> HIDE DEF n, f, ss
<1>4. f \in [1 .. n -> STRING] /\ \A i \in 1 .. n : Named(f[i])
  BY <1>1
<1>5. entries = Entries(manager, n, f, ss, mute)
  BY <1>1, <1>2, <1>4, ListRead DEF Managers
<1>6. DOMAIN entries = 1 .. n /\ Len(entries) = n
      /\ \A i \in 1 .. n : entries[i] = Sv!Entry(f[i], Shown(manager, f[i], ss[i], mute))
  BY <1>1, <1>5 DEF Entries
<1>7. QED  BY <1>1, <1>3, <1>6 DEF n

(* The inductive invariant of Services: the host is one of the assumed but *)
(* for the states of its services; what is left to run ends in what was    *)
(* asked; a command that is done has left its service in the last state    *)
(* that it put it in; and the log is what was read of the host's events.   *)
SameHost ==
  \E h \in ServiceHosts :
    /\ v1 = [os |-> h.os, init |-> h.init, elevation |-> h.elevation, state |-> v1.state,
             mute |-> h.mute, events |-> h.events]
    /\ v1.state \in [DOMAIN h.state -> States]

(* What may be left to run.                                                *)
Plans(action) == IF action = "stop" THEN {<<"stop">>}
                 ELSE {<<"start">>, <<"restart">>, <<"stop", "start">>}

StillAsked == v3 # <<>> /\ v4 = "none" => Sv!Manager(v1) # "none" /\ v3[1] \in Plans(v2.action)

LeftAsAsked ==
  v4 = "done" =>
    /\ Sv!Manager(v1) # "none" /\ v2.unit \in DOMAIN v5
    /\ v5[v2.unit] \in IF v2.action = "stop" THEN {"down"}
                       ELSE {"up"} \cup IF Sv!Manager(v1) = "systemd" THEN {"exited"} ELSE {}

LogOfHost ==
  Sv!Manager(v1) = "scm" /\ v6 # <<>> =>
    v6[1] = Sv!ParseWevtutil(
              Sv!FlattenSeq([i \in DOMAIN v1.events |-> Sv!Block(v1.events[i])]), v2.unit)

ServicesInv ==
  /\ SameHost /\ v5 \in [DOMAIN v1.state -> States]
  /\ v2.action \in {"start", "stop", "restart"}
  /\ StillAsked /\ LeftAsAsked /\ LogOfHost

SameButState(q, r) ==
  /\ q.os = r.os /\ q.init = r.init /\ q.elevation = r.elevation
  /\ q.mute = r.mute /\ q.events = r.events

(* The host but for what its services do.                                  *)
LEMMA HostIs ==
  ASSUME PartsAssumption, SameHost
  PROVE  \E h \in ServiceHosts :
           /\ SameButState(v1, h) /\ Sv!Manager(v1) = Sv!Manager(h)
           /\ DOMAIN v1.state = DOMAIN h.state /\ v1.state \in [DOMAIN h.state -> States]
<1>1. PICK h \in ServiceHosts :
        /\ v1 = [os |-> h.os, init |-> h.init, elevation |-> h.elevation, state |-> v1.state,
                 mute |-> h.mute, events |-> h.events]
        /\ v1.state \in [DOMAIN h.state -> States]
  BY DEF SameHost
<1>2. SameButState(v1, h)
  BY <1>1 DEF SameButState
<1>3. Sv!Manager(v1) = Sv!Manager(h)
  BY <1>2 DEF Sv!Manager, SameButState
<1>4. QED  BY <1>1, <1>2, <1>3

LEMMA ManagerKnown == ASSUME NEW h PROVE Sv!Manager(h) \in Managers \cup {"none"}
BY DEF Sv!Manager, Managers, Liners

LEMMA InitServices == ASSUME PartsAssumption, Sv!Init PROVE ServicesInv
<1>1. PICK h \in ServiceHosts : v1 = h
  BY DEF Sv!Init
<1>2. /\ h = [os |-> h.os, init |-> h.init, elevation |-> h.elevation, state |-> h.state,
              mute |-> h.mute, events |-> h.events]
      /\ h.state \in [DOMAIN h.state -> States]
  BY Zenon DEF PartsAssumption, Sv!ServiceAssumption, States
<1>3. SameHost
  BY <1>1, <1>2 DEF SameHost
<1>4. v5 \in [DOMAIN v1.state -> States]
  BY <1>1, <1>2 DEF Sv!Init
<1>5. v2.action \in {"start", "stop", "restart"}
  BY DEF Sv!Init
<1>6. StillAsked /\ LeftAsAsked /\ LogOfHost
  BY DEF Sv!Init, StillAsked, LeftAsAsked, LogOfHost
<1>7. QED  BY <1>3, <1>4, <1>5, <1>6 DEF ServicesInv

(* One service changed.                                                    *)
LEMMA StateChanged ==
  ASSUME NEW a, NEW b, NEW c, NEW s, NEW d, NEW e, NEW r, NEW q, NEW unit, NEW state,
         r = [os |-> a, init |-> b, elevation |-> c, state |-> s, mute |-> d, events |-> e],
         q = [r EXCEPT !.state[unit] = state]
  PROVE  q = [os |-> a, init |-> b, elevation |-> c, state |-> [s EXCEPT ![unit] = state],
              mute |-> d, events |-> e]
OBVIOUS

(* A changed service leaves the host what it is.                           *)
LEMMA HostChanges ==
  ASSUME SameHost, NEW unit \in DOMAIN v1.state, NEW state \in States,
         v1' = [v1 EXCEPT !.state[unit] = state]
  PROVE  /\ SameHost' /\ SameButState(v1', v1) /\ Sv!Manager(v1)' = Sv!Manager(v1)
         /\ v1'.state = [v1.state EXCEPT ![unit] = state]
         /\ DOMAIN v1'.state = DOMAIN v1.state /\ v1'.state \in [DOMAIN v1.state -> States]
<1>1. PICK h \in ServiceHosts :
        /\ v1 = [os |-> h.os, init |-> h.init, elevation |-> h.elevation, state |-> v1.state,
                 mute |-> h.mute, events |-> h.events]
        /\ v1.state \in [DOMAIN h.state -> States]
  BY DEF SameHost
<1> DEFINE s == v1.state  t == [s EXCEPT ![unit] = state]
<1>2. v1' = [os |-> h.os, init |-> h.init, elevation |-> h.elevation, state |-> t,
             mute |-> h.mute, events |-> h.events]
  BY <1>1, StateChanged
<1>3. DOMAIN s = DOMAIN h.state /\ t \in [DOMAIN h.state -> States]
  BY <1>1
<1> HIDE DEF t
<1>4. v1'.state = t
  BY <1>2
<1>5. SameHost'
  <2>1. v1' = [os |-> h.os, init |-> h.init, elevation |-> h.elevation, state |-> v1'.state,
               mute |-> h.mute, events |-> h.events]
    BY <1>2, <1>4
  <2>2. QED  BY <1>3, <1>4, <2>1 DEF SameHost
<1>6. SameButState(v1', v1)
  BY <1>1, <1>2 DEF SameButState
<1>7. Sv!Manager(v1)' = Sv!Manager(v1)
  BY <1>6 DEF Sv!Manager, SameButState
<1>8. DOMAIN t = DOMAIN s
  BY <1>3
<1>9. QED  BY <1>3, <1>4, <1>5, <1>6, <1>7, <1>8 DEF t

LEMMA LogStays ==
  ASSUME LogOfHost, SameButState(v1', v1), Sv!Manager(v1)' = Sv!Manager(v1), UNCHANGED <<v2, v6>>
  PROVE  LogOfHost'
BY DEF LogOfHost, SameButState

LEMMA TailOfOne == \A x : Tail(<<x>>) = <<>>
OBVIOUS

LEMMA TailOfTwo == \A x, y : Tail(<<x, y>>) = <<y>> /\ <<y>> # <<>>
<1>1. ASSUME NEW x, NEW y PROVE Tail(<<x, y>>) = <<y>> /\ <<y>> # <<>>
  <2> DEFINE s == <<x, y>>  t == Tail(s)  u == <<y>>  E == {x, y}
  <2>1. s \in Seq(E) /\ Len(s) = 2 /\ s[2] = y /\ s # <<>>
    OBVIOUS
  <2>2. u \in Seq(E) /\ Len(u) = 1 /\ u[1] = y /\ u # <<>>
    OBVIOUS
  <2> HIDE DEF s, u, E
  <2>3. t \in Seq(E) /\ Len(t) = 1 /\ t[1] = y
    <3>1. t \in Seq(E) /\ Len(t) = Len(s) - 1 /\ \A i \in 1 .. Len(t) : t[i] = s[i + 1]
      BY <2>1, HeadTailProperties
    <3> HIDE DEF t
    <3>2. QED  BY <2>1, <3>1
  <2> HIDE DEF t
  <2>4. t = u
    BY <2>2, <2>3, SeqEqual
  <2>5. QED  BY <2>2, <2>4 DEF s, t, u
<1>2. QED  BY <1>1, Zenon

(* What a plan ends in is what was asked.                                  *)
LEMMA PlansEnd ==
  ASSUME NEW action, NEW plan \in Plans(action)
  PROVE  /\ Tail(plan) = <<>> => (plan[1] = "stop" <=> action = "stop")
         /\ Tail(plan) # <<>> => Tail(plan) = <<"start">> /\ action # "stop"
<1>1. plan = <<"stop">> \/ plan = <<"start">> \/ plan = <<"restart">> \/ plan = <<"stop", "start">>
  BY DEF Plans
<1>2. CASE plan = <<"stop">>
  <2>1. Tail(plan) = <<>> /\ plan[1] = "stop"
    BY <1>2, TailOfOne
  <2>2. action = "stop"
    <3>1. plan # <<"start">> /\ plan # <<"restart">> /\ plan # <<"stop", "start">>
      BY <1>2
    <3>2. QED  BY <3>1, Zenon DEF Plans
  <2>3. QED  BY <2>1, <2>2
<1>3. CASE plan # <<"stop">>
  <2>1. action # "stop"
    BY <1>3 DEF Plans
  <2>2. CASE plan = <<"start">> \/ plan = <<"restart">>
    <3>1. Tail(plan) = <<>>
      BY <2>2, TailOfOne
    <3>2. plan[1] # "stop"
      BY <2>2
    <3>3. QED  BY <2>1, <3>1, <3>2
  <2>3. CASE plan = <<"stop", "start">>
    <3>1. Tail(plan) = <<"start">> /\ Tail(plan) # <<>>
      BY <2>3, TailOfTwo
    <3>2. QED  BY <2>1, <3>1
  <2>4. QED  BY <1>1, <1>3, <2>2, <2>3
<1>4. QED  BY <1>2, <1>3

(* Every step keeps the invariant.                                         *)
LEMMA StepKeepsServices ==
  ASSUME PartsAssumption, ServicesInv, [Sv!Next]_(Sv!vars) PROVE ServicesInv'
<1> USE DEF ServicesInv
<1>1. ASSUME NEW password \in BOOLEAN, Sv!Begin(password) PROVE ServicesInv'
  <2>1. UNCHANGED <<v1, v2, v5, v6, v7>> /\ v3 = <<>> /\ v4 = "none"
    BY <1>1 DEF Sv!Begin
  <2>2. SameHost' /\ LogOfHost'
    BY <2>1 DEF SameHost, LogOfHost
  <2>3. CASE v4' = "refused" /\ v3' = v3
    BY <2>1, <2>2, <2>3 DEF StillAsked, LeftAsAsked
  <2>4. CASE v3' = <<Sv!Commands(Sv!Manager(v1), v2.action)>> /\ Sv!Manager(v1) # "none" /\ v4' = v4
    <3>1. Sv!Commands(Sv!Manager(v1), v2.action) \in Plans(v2.action)
      BY DEF Sv!Commands, Plans
    <3>2. v3'[1] = Sv!Commands(Sv!Manager(v1), v2.action)
      BY <2>4
    <3>3. QED  BY <2>1, <2>2, <2>4, <3>1, <3>2 DEF StillAsked, LeftAsAsked
  <2>5. QED  BY <1>1, <2>3, <2>4 DEF Sv!Begin
<1>2. CASE Sv!HostRuns
  <2> DEFINE unit == v2.unit  plan == v3[1]  verb == plan[1]  more == Tail(plan)
             Leave(state) == v1' = [v1 EXCEPT !.state[unit] = state]
  <2>1. /\ v3 # <<>> /\ plan # <<>> /\ v4 = "none" /\ UNCHANGED <<v2, v6, v7>>
        /\ \/ Sv!Ends(1, v1.state) /\ UNCHANGED v1
           \/ /\ unit \in DOMAIN v1.state
              /\ \/ verb = "stop" /\ Leave("down")
                 \/ verb # "stop" /\ Leave("up")
                 \/ verb # "stop" /\ Sv!Manager(v1) = "systemd" /\ Leave("exited")
              /\ IF more = <<>> THEN Sv!Ends(0, v1'.state)
                 ELSE v3' = <<more>> /\ UNCHANGED <<v4, v5>>
    BY <1>2 DEF Sv!HostRuns
  <2>2. Sv!Manager(v1) # "none" /\ plan \in Plans(v2.action)
    BY <2>1 DEF StillAsked
  <2>3. v1.state \in [DOMAIN v1.state -> States]
    BY DEF SameHost
  <2>4. CASE Sv!Ends(1, v1.state) /\ UNCHANGED v1
    <3>1. v4' = "failed" /\ v5' = v1.state
      BY <2>4 DEF Sv!Ends, Sv!Interpret
    <3>2. SameHost' /\ LogOfHost'
      BY <2>1, <2>4 DEF SameHost, LogOfHost
    <3>3. QED  BY <2>1, <2>3, <2>4, <3>1, <3>2 DEF StillAsked, LeftAsAsked
  <2>5. ASSUME NEW state \in States, Leave(state), unit \in DOMAIN v1.state,
               state \in IF verb = "stop" THEN {"down"}
                         ELSE {"up"} \cup IF Sv!Manager(v1) = "systemd" THEN {"exited"} ELSE {},
               IF more = <<>> THEN Sv!Ends(0, v1'.state) ELSE v3' = <<more>> /\ UNCHANGED <<v4, v5>>
        PROVE  ServicesInv'
    <3>1. /\ SameHost' /\ SameButState(v1', v1) /\ Sv!Manager(v1)' = Sv!Manager(v1)
          /\ v1'.state = [v1.state EXCEPT ![unit] = state]
          /\ DOMAIN v1'.state = DOMAIN v1.state /\ v1'.state \in [DOMAIN v1.state -> States]
      BY <2>5, HostChanges
    <3>2. LogOfHost'
      BY <2>1, <3>1, LogStays
    <3>3. CASE more = <<>>
      <4>1. v4' = "done" /\ v5' = v1'.state /\ v3' # <<>>
        BY <2>5, <3>3 DEF Sv!Ends, Sv!Interpret
      <4>2. verb = "stop" <=> v2.action = "stop"
        <5> HIDE DEF plan
        <5>1. QED  BY <2>2, <3>3, PlansEnd
      <4>3. v5'[unit] = state
        BY <2>3, <2>5, <3>1, <4>1
      <4>4. LeftAsAsked'
        BY <2>1, <2>2, <2>5, <3>1, <4>1, <4>2, <4>3 DEF LeftAsAsked
      <4>5. QED  BY <2>1, <3>1, <3>2, <4>1, <4>4 DEF StillAsked
    <3>4. CASE more # <<>>
      <4>1. v3' = <<more>> /\ UNCHANGED <<v4, v5>>
        BY <2>5, <3>4
      <4>2. more = <<"start">> /\ v2.action # "stop"
        <5> HIDE DEF plan
        <5>1. QED  BY <2>2, <3>4, PlansEnd
      <4>3. v3'[1] \in Plans(v2.action)
        BY <4>1, <4>2 DEF Plans
      <4>4. StillAsked' /\ LeftAsAsked'
        BY <2>1, <2>2, <3>1, <4>1, <4>3 DEF StillAsked, LeftAsAsked
      <4>5. QED  BY <2>1, <3>1, <3>2, <4>1, <4>4
    <3>5. QED  BY <3>3, <3>4
  <2>6. QED
    <3>1. "down" \in States /\ "up" \in States /\ "exited" \in States
      BY DEF States
    <3>2. QED  BY <2>1, <2>4, <2>5, <3>1
<1>3. CASE Sv!ServiceLog
  <2>1. UNCHANGED <<v1, v2, v3, v4, v5, v7>>
    BY <1>3 DEF Sv!ServiceLog
  <2>2. SameHost' /\ StillAsked' /\ LeftAsAsked'
    BY <2>1 DEF SameHost, StillAsked, LeftAsAsked
  <2>3. LogOfHost'
    BY <1>3, <2>1 DEF Sv!ServiceLog, LogOfHost
  <2>4. QED  BY <2>1, <2>2, <2>3
<1>4. ASSUME NEW unit \in DOMAIN v1.state, NEW state \in {"up", "down", "failed"},
             Sv!Turn(unit, state)
      PROVE  ServicesInv'
  <2>1. UNCHANGED <<v2, v3, v4, v5, v6>> /\ v1' = [v1 EXCEPT !.state[unit] = state]
    BY <1>4 DEF Sv!Turn
  <2>2. /\ SameHost' /\ SameButState(v1', v1) /\ Sv!Manager(v1)' = Sv!Manager(v1)
        /\ DOMAIN v1'.state = DOMAIN v1.state
    <3>1. state \in States
      BY DEF States
    <3>2. QED  BY <2>1, <3>1, HostChanges
  <2>3. LogOfHost'
    BY <2>1, <2>2, LogStays
  <2>4. StillAsked' /\ LeftAsAsked'
    BY <2>1, <2>2 DEF StillAsked, LeftAsAsked
  <2>5. QED  BY <2>1, <2>2, <2>3, <2>4
<1>5. CASE UNCHANGED Sv!vars
  BY <1>5 DEF Sv!vars, SameHost, StillAsked, LeftAsAsked, LogOfHost
<1>6. QED  BY <1>1, <1>2, <1>3, <1>4, <1>5 DEF Sv!Next

LEMMA ServicesFinite == \A S : Sv!IsFiniteSet(S) <=> IsFiniteSet(S)
BY Zenon DEF Sv!IsFiniteSet, IsFiniteSet

(* The services of the host, and its events, as assumed.                   *)
LEMMA ServicesNamed ==
  ASSUME PartsAssumption, SameHost
  PROVE  /\ IsFiniteSet(DOMAIN v1.state)
         /\ \A unit \in DOMAIN v1.state : unit \in STRING /\ Named(unit)
         /\ Sv!Manager(v1) = "scm" =>
              v1.events \in Seq(Events) /\ \A i \in DOMAIN v1.events : Sayings(v1.events[i])
<1>1. PICK h \in ServiceHosts :
        SameButState(v1, h) /\ Sv!Manager(v1) = Sv!Manager(h) /\ DOMAIN v1.state = DOMAIN h.state
  BY HostIs
<1>2. /\ Sv!IsFiniteSet(DOMAIN h.state)
      /\ \A unit \in DOMAIN h.state : unit \in STRING /\ Named(unit)
  BY Zenon DEF PartsAssumption, Sv!ServiceAssumption, Named
<1>3. ASSUME Sv!Manager(v1) = "scm"
      PROVE  v1.events \in Seq(Events) /\ \A i \in DOMAIN v1.events : Sayings(v1.events[i])
  <2> DEFINE events == v1.events
  <2>1. events = h.events
    BY <1>1 DEF SameButState
  <2>2. Sv!Manager(h) = "scm" =>
          /\ h.events \in Seq([date : STRING, id : STRING, text : Seq(STRING), spills : BOOLEAN])
          /\ \A i \in DOMAIN h.events :
               h.events[i].text # <<>> /\ "" \notin Sv!ToSet(h.events[i].text)
    BY Zenon DEF PartsAssumption, Sv!ServiceAssumption
  <2>3. /\ events \in Seq(Events)
        /\ \A i \in DOMAIN events : events[i].text # <<>> /\ "" \notin Sv!ToSet(events[i].text)
    BY <1>1, <1>3, <2>1, <2>2, Zenon DEF Events
  <2> HIDE DEF events
  <2>4. ASSUME NEW i \in DOMAIN events PROVE Sayings(events[i])
    <3> DEFINE text == events[i].text
    <3>1. events \in Seq(Events)
      BY <2>3, Zenon
    <3>2. text \in Seq(STRING)
      <4> DEFINE e == events[i]
      <4>1. e \in Events
        BY <3>1
      <4> HIDE DEF e
      <4>2. e.text \in Seq(STRING)
        BY <4>1 DEF Events
      <4>3. QED  BY <4>2 DEF e
    <3>3. text # <<>> /\ "" \notin Sv!ToSet(text)
      BY <2>3, Zenon
    <3> HIDE DEF text
    <3>4. \A j \in DOMAIN text : text[j] \in Sv!ToSet(text)
      BY Zenon DEF Sv!ToSet
    <3>5. DOMAIN text = 1 .. Len(text)
      BY <3>2
    <3>6. \A j \in 1 .. Len(text) : Says(text[j])
      BY <3>3, <3>4, <3>5, Zenon DEF Says
    <3>7. QED  BY <3>3, <3>6, Zenon DEF Sayings, text
  <2>5. QED  BY <2>3, <2>4, Zenon DEF events
<1>4. QED  BY <1>1, <1>2, <1>3, ServicesFinite

(* Where a command is done, the list shows it.                             *)
LEMMA ServicesShown ==
  ASSUME PartsAssumption, ServicesInv PROVE Sv!ShowsAsDone
<1> DEFINE manager == Sv!Manager(v1)  unit == v2.unit
           entries == Sv!ParseList(manager, Sv!Printed(manager, v5, v1.mute))
           word == Shown(manager, unit, v5[unit], v1.mute)
           undone == IF v2.action = "stop" THEN {"running"} ELSE {"stopped", "failed"}
<1>1. SUFFICES ASSUME v4 = "done"
               PROVE  \E i \in DOMAIN entries :
                        entries[i].name = unit /\ entries[i].state \notin undone
  BY DEF Sv!ShowsAsDone
<1>2. /\ manager # "none" /\ unit \in DOMAIN v5
      /\ v5[unit] \in IF v2.action = "stop" THEN {"down"}
                      ELSE {"up"} \cup IF manager = "systemd" THEN {"exited"} ELSE {}
  BY <1>1 DEF ServicesInv, LeftAsAsked
<1>3. manager \in Managers
  BY <1>2, ManagerKnown
<1>4. IsFiniteSet(DOMAIN v5) /\ \A u \in DOMAIN v5 : u \in STRING /\ Named(u)
  BY ServicesNamed DEF ServicesInv
<1>5. word \notin undone
  <2> HIDE DEF manager, unit
  <2>1. QED  BY <1>2, <1>3 DEF Shown, Managers, Liners
<1> DEFINE states == v5  mute == v1.mute
<1> HIDE DEF manager, unit, word, undone
<1>6. \E i \in DOMAIN entries : entries[i] = Sv!Entry(unit, word)
  <2> HIDE DEF entries, states, mute
  <2>1. entries = Sv!ParseList(manager, Sv!Printed(manager, states, mute))
        /\ IsFiniteSet(DOMAIN states) /\ unit \in DOMAIN states
        /\ \A u \in DOMAIN states : u \in STRING /\ Named(u)
    BY <1>2, <1>4 DEF entries, states, mute
  <2>2. \A u \in DOMAIN states : \E i \in DOMAIN entries :
          entries[i] = Sv!Entry(u, Shown(manager, u, states[u], mute))
    BY <1>3, <2>1, PrintedRead
  <2>3. QED  BY <2>1, <2>2 DEF word, states, mute
<1> HIDE DEF entries
<1>7. QED  BY <1>5, <1>6 DEF Sv!Entry

(* No block and no event is read into its neighbour.                       *)
LEMMA ServicesApart ==
  ASSUME PartsAssumption, ServicesInv PROVE Sv!EachItsOwn
<1> DEFINE manager == Sv!Manager(v1)  states == v1.state  mute == v1.mute
           entries == Sv!ParseList(manager, Sv!Printed(manager, states, mute))
<1>1. ASSUME manager # "none"
      PROVE  /\ Len(entries) = Sv!Cardinality(DOMAIN states)
             /\ \A unit \in DOMAIN states :
                  Sv!ParseList(manager, Sv!Lines(manager, unit, states[unit], mute))[1]
                    \in Sv!ToSet(entries)
  <2>1. manager \in Managers
    BY <1>1, ManagerKnown
  <2>2. IsFiniteSet(DOMAIN states) /\ \A u \in DOMAIN states : u \in STRING /\ Named(u)
    BY ServicesNamed DEF ServicesInv
  <2>3. entries = Sv!ParseList(manager, Sv!Printed(manager, states, mute))
    OBVIOUS
  <2> HIDE DEF manager, states, mute, entries
  <2>4. /\ Len(entries) = Sv!Cardinality(DOMAIN states)
        /\ \A u \in DOMAIN states : \E i \in DOMAIN entries :
             entries[i] = Sv!Entry(u, Shown(manager, u, states[u], mute))
    BY <2>1, <2>2, <2>3, PrintedRead
  <2>5. ASSUME NEW unit \in DOMAIN states
        PROVE  Sv!ParseList(manager, Sv!Lines(manager, unit, states[unit], mute))[1]
                 \in Sv!ToSet(entries)
    <3> DEFINE one == Sv!ParseList(manager, Sv!Lines(manager, unit, states[unit], mute))
               entry == Sv!Entry(unit, Shown(manager, unit, states[unit], mute))
    <3>1. unit \in STRING /\ Named(unit)
      BY <2>2
    <3>2. one = <<entry>>
      <4> DEFINE state == states[unit]
      <4> HIDE DEF state
      <4>1. Sv!ParseList(manager, Sv!Lines(manager, unit, state, mute))
              = <<Sv!Entry(unit, Shown(manager, unit, state, mute))>>
        BY <2>1, <3>1, OneRead
      <4>2. QED  BY <4>1 DEF state
    <3>3. \E i \in DOMAIN entries : entries[i] = entry
      BY <2>4
    <3> HIDE DEF one, entry
    <3>4. one[1] = entry
      BY <3>2
    <3>5. one[1] \in Sv!ToSet(entries)
      BY <3>3, <3>4 DEF Sv!ToSet
    <3>6. QED  BY <3>5 DEF one
  <2>6. QED  BY <2>4, <2>5
<1>2. ASSUME manager = "scm", v6 # <<>> PROVE LogOf(v6[1], v1.events, v2.unit)
  <2> DEFINE events == v1.events
  <2>1. events \in Seq(Events) /\ \A i \in DOMAIN events : Sayings(events[i])
    BY <1>2, ServicesNamed DEF ServicesInv
  <2>2. v6[1] = Sv!ParseWevtutil(Sv!FlattenSeq(Blocks(events)), v2.unit)
    BY <1>2 DEF ServicesInv, LogOfHost, Blocks
  <2> HIDE DEF events
  <2>3. LogOf(v6[1], events, v2.unit)
    BY <2>1, <2>2, LogIsOwn
  <2>4. QED  BY <2>3 DEF events
<1>3. QED  BY <1>1, <1>2 DEF Sv!EachItsOwn, LogOf

-----------------------------------------------------------------------------
(* A step of Channels is a step of the part that has the turn, or leaves   *)
(* it as it is.                                                            *)
AnyVars == <<vars, area, Lent>>

LEMMA ShellSteps ==
  ASSUME [AnyNext]_AnyVars, area' = "shells" PROVE area = "shells" /\ [Sh!Next]_(Sh!vars)
BY DEF AnyNext, AnyVars, Lent, Sh!vars

LEMMA OutputSteps ==
  ASSUME [AnyNext]_AnyVars, area' = "output" PROVE area = "output" /\ [So!Next]_(So!vars)
BY DEF AnyNext, AnyVars, Lent, So!vars

LEMMA SudoSteps ==
  ASSUME [AnyNext]_AnyVars, area' = "sudo" PROVE area = "sudo" /\ [Su!Next]_(Su!vars)
BY DEF AnyNext, AnyVars, Lent, Su!vars

LEMMA PowerSteps ==
  ASSUME [AnyNext]_AnyVars, area' = "power" PROVE area = "power" /\ [Po!Next]_(Po!vars)
BY DEF AnyNext, AnyVars, Lent, Po!vars

LEMMA ServicesSteps ==
  ASSUME [AnyNext]_AnyVars, area' = "services" PROVE area = "services" /\ [Sv!Next]_(Sv!vars)
BY DEF AnyNext, AnyVars, Lent, Sv!vars

LEMMA MetricsSteps ==
  ASSUME [AnyNext]_AnyVars, area' = "metrics" PROVE area = "metrics" /\ [Me!Next]_(Me!vars)
BY DEF AnyNext, AnyVars, Lent, Me!vars

-----------------------------------------------------------------------------
(* However many calls open a shell at once, no session has more than the   *)
(* cap (open_shell, lock_shell_open).                                      *)
THEOREM ShellsCapped == AnySpec => []CapHolds
<1> DEFINE Inv == area = "shells" => ShellInv
<1>1. AnyInit => Inv
  BY PartsAssumption, InitShells DEF AnyInit
<1>2. Inv /\ [AnyNext]_AnyVars => Inv'
  BY PartsAssumption, ShellSteps, StepKeepsShells
<1>3. Inv => CapHolds
  BY CountedAlike DEF CapHolds, ShellInv, Sh!CapHolds, AtMostCap, OpenParked
<1>4. QED  BY <1>1, <1>2, <1>3, PTL DEF AnySpec, AnyVars

(* However a program's bytes are cut into packets, what has been decoded   *)
(* and what is still pending and unread make the text of all it wrote,     *)
(* nothing lost, doubled or out of order; and when the close is announced, *)
(* no decoded character and no exit status is on the way (Decoder, open,   *)
(* batch_and_emit).                                                        *)
THEOREM TextsAreKept == AnySpec => []TextIsKept
<1> DEFINE Inv == area = "output" => So!OInv
<1>1. AnyInit => Inv
  BY PartsAssumption, So!InitOInv DEF AnyInit
<1>2. Inv /\ [AnyNext]_AnyVars => Inv'
  BY PartsAssumption, OutputSteps, So!StepKeepsOInv
<1>3. Inv => TextIsKept
  BY So!OInvKeepsText DEF TextIsKept
<1>4. QED  BY <1>1, <1>2, <1>3, PTL DEF AnySpec, AnyVars

(* What a session keeps as its sudo password its host has accepted         *)
(* (resolve_sudo_password, LiveSession).                                   *)
THEOREM AcceptedIsKept == AnySpec => []KeptWasAccepted
<1> DEFINE Inv == area = "sudo" => SudoInv
<1>1. AnyInit => Inv
  BY PartsAssumption, InitSudo DEF AnyInit
<1>2. Inv /\ [AnyNext]_AnyVars => Inv'
  BY PartsAssumption, SudoSteps, StepKeepsSudo
<1>3. Inv => KeptWasAccepted
  BY DEF KeptWasAccepted, SudoInv
<1>4. QED  BY <1>1, <1>2, <1>3, PTL DEF AnySpec, AnyVars

LEMMA MetricsKept == AnySpec => [](area = "metrics" => MetricsInv)
<1> DEFINE Inv == area = "metrics" => MetricsInv
<1>1. AnyInit => Inv
  BY InitMetrics DEF AnyInit
<1>2. Inv /\ [AnyNext]_AnyVars => Inv'
  BY MetricsSteps, StepKeepsMetrics
<1>3. QED  BY <1>1, <1>2, PTL DEF AnySpec, AnyVars

(* A sample shows what was read for it, whatever became of the sampler and *)
(* of the samples before it (sample, WindowsSampler::next).                *)
THEOREM SamplesAnswerThemselves == AnySpec => []AnswersItsOwn
<1>1. (area = "metrics" => MetricsInv) => AnswersItsOwn
  BY DEF AnswersItsOwn, MetricsInv
<1>2. QED  BY <1>1, MetricsKept, PTL

(* Of two readings, in whatever order they come in, no device is said to   *)
(* have moved more than it carried between them (network_rate,             *)
(* disk_io_rate).                                                          *)
THEOREM RatesNeverOvershoot == AnySpec => []NeverMoreThanCarried
<1>1. (area = "metrics" => MetricsInv) => NeverMoreThanCarried
  BY DEF NeverMoreThanCarried, MetricsInv
<1>2. QED  BY <1>1, MetricsKept, PTL

(* What is reported done is done: a shutdown, restart or cancel is what    *)
(* the machine did, in the delay that was asked, and a list would show a   *)
(* service as its command asked, whatever its own people or a crash did    *)
(* before; and however many services and events a host has, each is read   *)
(* from its own lines (plan, interpret, plan_action, interpret_action,     *)
(* parse_list, parse_log).                                                 *)
THEOREM DoneAsAsked == AnySpec => []AsAsked
<1> DEFINE Inv == /\ area = "power" => PowerInv
                  /\ area = "services" => ServicesInv
<1>1. AnyInit => Inv
  BY InitPower, InitServices, PartsAssumption DEF AnyInit
<1>2. Inv /\ [AnyNext]_AnyVars => Inv'
  BY PowerSteps, StepKeepsPower, ServicesSteps, StepKeepsServices, PartsAssumption
<1>3. Inv => AsAsked
  BY ServicesShown, ServicesApart, PartsAssumption DEF AsAsked, PowerInv
<1>4. QED  BY <1>1, <1>2, <1>3, PTL DEF AnySpec, AnyVars
=============================================================================

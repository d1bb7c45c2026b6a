---------------------------- MODULE QueueContract ----------------------------
(***************************************************************************)
(* What the transfer queue promises a user, with no pump, no tasks and no  *)
(* command handlers: transfers wait in line, are granted a slot, settle,   *)
(* and are at last forgotten.  remote/transfers.rs:9-12 is the policy:     *)
(* priority, then arrival, and only so many at once.                       *)
(***************************************************************************)
EXTENDS Integers, FiniteSets

CONSTANTS
  Ids,         \* transfers, numbered in the order they are asked for
  Levels,      \* priorities
  SlotCounts,  \* the caps a user may set
  FirstSlots   \* the cap before any was set

VARIABLES
  line,    \* transfer in line -> its level
  active,  \* transfers holding a slot
  over,    \* settled transfers still listed
  asked,   \* every transfer ever asked for
  slots    \* the cap

Waiting == DOMAIN line
LineWithout(S) == [i \in Waiting \ S |-> line[i]]

Before(i, j) == line[i] > line[j] \/ (line[i] = line[j] /\ i < j)

(* A new transfer joins; a history that overflows loses settled ones only. *)
Submit(i, l, F) ==
  /\ i \notin asked
  /\ \A j \in Ids : j < i => j \in asked
  /\ F \subseteq over
  /\ line' = [j \in Waiting \cup {i} |-> IF j = i THEN l ELSE line[j]]
  /\ over' = over \ F
  /\ asked' = asked \cup {i}
  /\ UNCHANGED <<active, slots>>

(* Slots go to the best G of the eligible waiting transfers E, never past  *)
(* the cap, and none is held back while another eligible one waits.        *)
Grant(E, G) ==
  /\ G # {} /\ G \subseteq E /\ E \subseteq Waiting
  /\ Cardinality(active \cup G) <= slots
  /\ \A i \in G, j \in E \ G : Before(i, j)
  /\ G = E \/ Cardinality(active \cup G) = slots
  /\ line' = LineWithout(G)
  /\ active' = active \cup G
  /\ UNCHANGED <<over, asked, slots>>

Settle(S) ==
  /\ S # {} /\ S \subseteq Waiting \cup active
  /\ line' = LineWithout(S)
  /\ active' = active \ S
  /\ over' = over \cup S
  /\ UNCHANGED <<asked, slots>>

Forget(F) ==
  /\ F # {} /\ F \subseteq over
  /\ over' = over \ F
  /\ UNCHANGED <<line, active, asked, slots>>

Rerank(i, l) ==
  /\ i \in Waiting
  /\ line' = [line EXCEPT ![i] = l]
  /\ UNCHANGED <<active, over, asked, slots>>

Resize(n) == slots' = n /\ UNCHANGED <<line, active, over, asked>>

Init ==
  /\ line = [i \in {} |-> 0]
  /\ active = {}
  /\ over = {}
  /\ asked = {}
  /\ slots = FirstSlots

Next ==
  \/ \E i \in Ids, l \in Levels, F \in SUBSET over : Submit(i, l, F)
  \/ \E E \in SUBSET Waiting : \E G \in SUBSET E : Grant(E, G)
  \/ \E S \in SUBSET (Waiting \cup active) : Settle(S)
  \/ \E F \in SUBSET over : Forget(F)
  \/ \E i \in Ids, l \in Levels : Rerank(i, l)
  \/ \E n \in SlotCounts : Resize(n)

Spec == Init /\ [][Next]_<<line, active, over, asked, slots>>
==============================================================================

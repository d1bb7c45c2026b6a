------------------------------ MODULE MCProgress ------------------------------
(***************************************************************************)
(* What must eventually happen: in the transfer queue (TransferQueue), and *)
(* in what the window shows of a host (HostsView).  A behaviour is one of  *)
(* the two: area says which, and the other keeps its initial values, where *)
(* it owes nothing.                                                        *)
(***************************************************************************)
EXTENDS TransferQueueProofs

CONSTANT Beats

VARIABLES area, parked, up, shown, rendered, health, dial, exit, beat, fresh

Hv == INSTANCE HostsView

windowVars == <<parked, up, shown, rendered, health, dial, exit, beat, fresh>>

AnyInit == Init /\ Hv!Init /\ area \in {"queue", "window"}

AnyNext ==
  /\ UNCHANGED area
  /\ \/ area = "queue" /\ Next /\ UNCHANGED windowVars
     \/ area = "window" /\ Hv!Next /\ UNCHANGED vars

FairAnySpec ==
  /\ AnyInit /\ [][AnyNext]_<<vars, area, windowVars>>
  /\ Fairness
  /\ WF_windowVars(area = "window" /\ Hv!Render)
  /\ WF_windowVars(area = "window" /\ Hv!Leaves)
  /\ WF_windowVars(area = "window" /\ Hv!RefreshAnswered)
  /\ WF_windowVars(area = "window" /\ Hv!Silently)
  /\ \A d \in Hv!Dialers : WF_windowVars(area = "window" /\ Hv!Answered(d))
  /\ \A b \in Beats :
       /\ WF_windowVars(area = "window" /\ Hv!Beat(b))
       /\ WF_windowVars(area = "window" /\ Hv!Judged(b))
       /\ WF_windowVars(area = "window" /\ Hv!BeatAnswered(b))

(* README.md:37: the dot of a host comes to say what the registry says,    *)
(* in both directions (HostsProvider, statusFor, heartbeat).               *)
StatusIsHonest == Hv!StatusIsHonest
===============================================================================

----------------------------- MODULE MCSessions -----------------------------
(***************************************************************************)
(* The registry of sessions (Sessions), and the tunnels of one host        *)
(* (Tunnels), which have their own, smaller picture of the registry.  A    *)
(* behaviour is one or the other: area says which, and the variables of    *)
(* the other keep their initial values.                                    *)
(***************************************************************************)
EXTENDS SessionsProofs

CONSTANTS TunnelCalls, Addresses, Conns, MaxTunnels

VARIABLES area, live, phase, own, bind, listed, stopped, loops, listening,
          routes, served, arrived, conn, call

Tu == INSTANCE Tunnels WITH Calls <- TunnelCalls

tunnelVars == <<live, phase, own, bind, listed, stopped, loops, listening,
                routes, served, arrived, conn, call>>

AnyInit == Init /\ Tu!Init /\ area \in {"sessions", "tunnels"}

AnyNext ==
  /\ UNCHANGED area
  /\ \/ area = "sessions" /\ Next /\ UNCHANGED tunnelVars
     \/ area = "tunnels" /\ Tu!Next /\ UNCHANGED vars

AnySpec == AnyInit /\ [][AnyNext]_<<vars, area, tunnelVars>>

(* The fairness of each.  A behaviour of tunnels is asked for none of the  *)
(* heartbeat's; where there are no tunnels Tunnels is fair to nothing.     *)
FairAnySpec ==
  /\ AnySpec
  /\ \A u \in Users : WF_vars(area = "sessions" /\ Proceed(u))
  /\ \A b \in Beats :
       /\ WF_vars(area = "sessions" /\ BeatStep(b))
       /\ \A h \in Hosts : WF_vars(area = "sessions" /\ Check(b, h))
  /\ \A s \in Sessions : WF_vars(area = "sessions" /\ CloseEvicted(s))
  /\ Tu!Fairness

(* tunnel.rs:83: a tunnel that was closed, or whose session has left the   *)
(* registry, comes to have no listener and no connection (close,           *)
(* accept_loop, relay).                                                    *)
GoneTunnelsEnd == Tu!GoneTunnelsEnd
=============================================================================

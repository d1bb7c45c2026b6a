------------------------------- MODULE Tunnels -------------------------------
(***************************************************************************)
(* Port forwarding of one host (remote/tunnel.rs): open_local and its      *)
(* accept loop, open_remote and its dispatcher, close, and the relay of    *)
(* each connection, with the map of tunnels and the routes of a session    *)
(* (remote/registry.rs) and the requests they make (remote/client.rs).     *)
(*                                                                         *)
(* A tunnel is told to end by stop, or when the last holder of its handle  *)
(* drops it: its session's map, which lives as long as anything holds the  *)
(* session.  An accept loop never holds the session: it looks the host up  *)
(* for every connection, and may find another one than it was opened on.   *)
(*                                                                         *)
(* Abstracted: the bytes relayed and their half-closes, the counters and   *)
(* last error, and ports: every remote tunnel asks for the same port, on   *)
(* an address of its own.                                                  *)
(***************************************************************************)
EXTENDS Naturals, FiniteSets

CONSTANTS
  Calls,        \* calls of open_tunnel, open_remote_tunnel, close_tunnel
  Addresses,    \* bind addresses of remote tunnels
  Conns,        \* connections at once
  MaxTunnels,   \* bound: tunnels opened in one behaviour
  MaxSessions   \* bound: sessions of the host

VARIABLES
  live,       \* the session in the registry, or 0
  phase,      \* session -> none, live, leaving, stopped, closed
  own,        \* tunnel -> the session it was opened on, 0 before
  bind,       \* tunnel -> <<>> for a local one, <<address>> for a remote one
  listed,     \* tunnels in the map of their session
  stopped,    \* tunnels whose stop was sent
  loops,      \* tunnels whose accept loop runs
  listening,  \* session -> addresses the server listens on
  routes,     \* session -> address -> the tunnel routed to, or 0
  served,     \* sessions whose dispatcher runs
  arrived,    \* session -> addresses of the channels not dispatched yet
  conn,       \* connection -> [step, of, over]
  call        \* call -> [step, on, t, at]

vars == <<live, phase, own, bind, listed, stopped, loops, listening, routes,
          served, arrived, conn, call>>
sessionVars == <<live, phase>>
routeVars == <<listening, routes, served, arrived>>

Tunnels == 1 .. MaxTunnels
Sessions == 1 .. MaxSessions
NoCall == [step |-> "idle", on |-> 0, t |-> 0, at |-> <<>>]
NoConn == [step |-> "none", of |-> 0, over |-> 0]
Up(s) == phase[s] \in {"live", "leaving", "stopped"}
Opened == {t \in Tunnels : own[t] # 0}

(* What holds a LiveSession: the registry, its teardown, a call, a dial.   *)
Held(s) ==
  \/ Up(s)
  \/ \E c \in Calls : call[c].on = s
  \/ \E k \in Conns : conn[k].step = "dialing" /\ conn[k].over = s

(* Mutant of Told: a dropped sender is not noticed.                        *)
ToldByStop(t) == t \in stopped

(* stop.changed(): true was sent, or the sender is dropped.                *)
Told(t) == t \in stopped \/ t \notin listed \/ ~Held(own[t])

-----------------------------------------------------------------------------
(* open_local: the session, the bind, then the map and the accept loop.    *)
Require(c, at) ==
  /\ call[c] = NoCall /\ live # 0
  /\ call' = [call EXCEPT ![c] = [step |-> "opening", on |-> live, t |-> 0, at |-> at]]
  /\ UNCHANGED <<sessionVars, own, bind, listed, stopped, loops, routeVars, conn>>

Refused(c) ==
  /\ call[c].step = "opening"
  /\ call' = [call EXCEPT ![c] = NoCall]
  /\ UNCHANGED <<sessionVars, own, bind, listed, stopped, loops, routeVars, conn>>

(* The tunnel both kinds are given: new_tunnel, then add_tunnel.           *)
Park(c, t) ==
  /\ t \notin Opened /\ \A u \in Tunnels : u < t => u \in Opened
  /\ own' = [own EXCEPT ![t] = call[c].on]
  /\ bind' = [bind EXCEPT ![t] = call[c].at]
  /\ listed' = listed \cup {t}

OpenLocal(c, t) ==
  /\ call[c].step = "opening" /\ call[c].at = <<>>
  /\ Park(c, t)
  /\ loops' = loops \cup {t}
  /\ call' = [call EXCEPT ![c] = NoCall]
  /\ UNCHANGED <<sessionVars, stopped, routeVars, conn>>

(* One accepted connection.  The stop is looked at first (biased).         *)
Accept(t, k) ==
  /\ t \in loops /\ ~Told(t) /\ live # 0 /\ conn[k] = NoConn
  /\ conn' = [conn EXCEPT ![k] = [step |-> "dialing", of |-> t, over |-> live]]
  /\ UNCHANGED <<sessionVars, own, bind, listed, stopped, loops, routeVars, call>>

(* The loop ends: it was told to, or it accepted with no session there.    *)
LoopEnds(t) ==
  /\ t \in loops /\ (Told(t) \/ live = 0)
  /\ loops' = loops \ {t}
  /\ listed' = IF own[t] = live THEN listed \ {t} ELSE listed
  /\ UNCHANGED <<sessionVars, own, bind, stopped, routeVars, conn, call>>

-----------------------------------------------------------------------------
(* open_remote: the server listens, the tunnel is parked, then routed.     *)
OpenRemote(c, t) ==
  LET s == call[c].on IN
  /\ call[c].step = "opening" /\ call[c].at # <<>> /\ Up(s)
  /\ call[c].at[1] \notin listening[s]
  /\ listening' = [listening EXCEPT ![s] = @ \cup {call[c].at[1]}]
  /\ Park(c, t)
  /\ call' = [call EXCEPT ![c].step = "routing", ![c].t = t]
  /\ UNCHANGED <<sessionVars, stopped, loops, routes, served, arrived, conn>>

Route(c) ==
  LET s == call[c].on IN
  /\ call[c].step = "routing"
  /\ routes' = [routes EXCEPT ![s][call[c].at[1]] = call[c].t]
  /\ served' = served \cup {s}
  /\ call' = [call EXCEPT ![c] = NoCall]
  /\ UNCHANGED <<sessionVars, own, bind, listed, stopped, loops, listening, arrived, conn>>

(* A channel comes in; the server reports the address it was asked to bind *)
(* or one of its own.                                                      *)
Arrive(s, a) ==
  /\ Up(s) /\ listening[s] # {} /\ a \notin arrived[s]
  /\ arrived' = [arrived EXCEPT ![s] = @ \cup {a}]
  /\ UNCHANGED <<sessionVars, own, bind, listed, stopped, loops, listening, routes,
                 served, conn, call>>

(* find_target: the exact address, else the only route on the port.        *)
Routed(s) == {a \in Addresses : routes[s][a] # 0}
FindTarget(s, a) ==
  IF a \in Routed(s) THEN {routes[s][a]}
  ELSE IF Cardinality(Routed(s)) = 1 THEN {routes[s][b] : b \in Routed(s)} ELSE {}

(* The local target is then reached, or it is not: either way no session   *)
(* is held while it is tried.                                              *)
Dispatch(s, a, k) ==
  /\ s \in served /\ Up(s) /\ a \in arrived[s]
  /\ arrived' = [arrived EXCEPT ![s] = @ \ {a}]
  /\ \/ \E t \in FindTarget(s, a) :
          /\ conn[k] = NoConn
          /\ conn' = [conn EXCEPT ![k] = [step |-> "relaying", of |-> t, over |-> s]]
     \/ UNCHANGED conn
  /\ UNCHANGED <<sessionVars, own, bind, listed, stopped, loops, listening, routes,
                 served, call>>

-----------------------------------------------------------------------------
(* The connection: direct-tcpip opens or fails, and the relay ends when    *)
(* either side closes, the tunnel is told, or the transport is gone.       *)
Dialed(k) ==
  /\ conn[k].step = "dialing"
  /\ conn' = [conn EXCEPT ![k] = IF Up(@.over) THEN [@ EXCEPT !.step = "relaying"] ELSE NoConn]
  /\ UNCHANGED <<sessionVars, own, bind, listed, stopped, loops, routeVars, call>>

RelayEnds(k) ==
  /\ conn[k].step # "none"
  /\ conn' = [conn EXCEPT ![k] = NoConn]
  /\ UNCHANGED <<sessionVars, own, bind, listed, stopped, loops, routeVars, call>>

MustEnd(k) ==
  /\ conn[k].step = "relaying" /\ (Told(conn[k].of) \/ ~Up(conn[k].over))
  /\ RelayEnds(k)

-----------------------------------------------------------------------------
(* close: the handle leaves the map and is stopped; a remote tunnel is     *)
(* unrouted, then cancelled.                                               *)
CloseTunnel(c, t) ==
  /\ call[c] = NoCall /\ live # 0 /\ t \in listed /\ own[t] = live
  /\ listed' = listed \ {t}
  /\ stopped' = stopped \cup {t}
  /\ call' = IF bind[t] = <<>> THEN call
             ELSE [call EXCEPT ![c] = [step |-> "unrouting", on |-> live, t |-> t,
                                       at |-> bind[t]]]
  /\ UNCHANGED <<sessionVars, own, bind, loops, routeVars, conn>>

Unroute(c) ==
  /\ call[c].step = "unrouting"
  /\ routes' = [routes EXCEPT ![call[c].on][call[c].at[1]] = 0]
  /\ call' = [call EXCEPT ![c].step = "cancelling"]
  /\ UNCHANGED <<sessionVars, own, bind, listed, stopped, loops, listening, served,
                 arrived, conn>>

Cancelled(c) ==
  /\ call[c].step = "cancelling"
  /\ listening' = [listening EXCEPT ![call[c].on] = @ \ {call[c].at[1]}]
  /\ call' = [call EXCEPT ![c] = NoCall]
  /\ UNCHANGED <<sessionVars, own, bind, listed, stopped, loops, routes, served,
                 arrived, conn>>

-----------------------------------------------------------------------------
(* The registry: a session comes in, replacing the one before, or goes     *)
(* out; the one that is out has its tunnels stopped and is then closed.    *)
Connect(s) ==
  /\ phase[s] = "none" /\ \A r \in Sessions : r < s => phase[r] # "none"
  /\ live' = s
  /\ phase' = [r \in Sessions |-> IF r = s THEN "live"
                                  ELSE IF r = live THEN "leaving" ELSE phase[r]]
  /\ UNCHANGED <<own, bind, listed, stopped, loops, routeVars, conn, call>>

Disconnect ==
  /\ live # 0
  /\ live' = 0
  /\ phase' = [phase EXCEPT ![live] = "leaving"]
  /\ UNCHANGED <<own, bind, listed, stopped, loops, routeVars, conn, call>>

(* stop_all_tunnels, which leaves the handles in the map.                  *)
StopAll(s) ==
  /\ phase[s] = "leaving"
  /\ stopped' = stopped \cup {t \in listed : own[t] = s}
  /\ phase' = [phase EXCEPT ![s] = "stopped"]
  /\ UNCHANGED <<live, own, bind, listed, loops, routeVars, conn, call>>

Close(s) ==
  /\ phase[s] = "stopped"
  /\ phase' = [phase EXCEPT ![s] = "closed"]
  /\ UNCHANGED <<live, own, bind, listed, stopped, loops, routeVars, conn, call>>

-----------------------------------------------------------------------------
Init ==
  /\ live = 0 /\ phase = [s \in Sessions |-> "none"]
  /\ own = [t \in Tunnels |-> 0] /\ bind = [t \in Tunnels |-> <<>>]
  /\ listed = {} /\ stopped = {} /\ loops = {} /\ served = {}
  /\ listening = [s \in Sessions |-> {}] /\ arrived = [s \in Sessions |-> {}]
  /\ routes = [s \in Sessions |-> [a \in Addresses |-> 0]]
  /\ conn = [k \in Conns |-> NoConn] /\ call = [c \in Calls |-> NoCall]

Asked == {<<>>} \cup {<<a>> : a \in Addresses}

Next ==
  \/ \E c \in Calls :
       \/ \E at \in Asked : Require(c, at)
       \/ Refused(c) \/ Route(c) \/ Unroute(c) \/ Cancelled(c)
       \/ \E t \in Tunnels : OpenLocal(c, t) \/ OpenRemote(c, t) \/ CloseTunnel(c, t)
  \/ \E t \in Tunnels : LoopEnds(t) \/ \E k \in Conns : Accept(t, k)
  \/ \E s \in Sessions :
       \/ Connect(s) \/ StopAll(s) \/ Close(s)
       \/ \E a \in Addresses : Arrive(s, a) \/ \E k \in Conns : Dispatch(s, a, k)
  \/ \E k \in Conns : Dialed(k) \/ RelayEnds(k)
  \/ Disconnect

Spec == Init /\ [][Next]_vars

(* What runs by itself: a call goes on, a task that was told ends, a dial  *)
(* is answered, a teardown is carried through.                             *)
Fairness ==
  /\ \A c \in Calls : WF_vars(Refused(c) \/ Route(c) \/ Unroute(c) \/ Cancelled(c))
  /\ \A t \in Tunnels : WF_vars(t \in loops /\ Told(t) /\ LoopEnds(t))
  /\ \A k \in Conns : WF_vars(Dialed(k)) /\ WF_vars(MustEnd(k))
  /\ \A s \in Sessions : WF_vars(StopAll(s)) /\ WF_vars(Close(s))

FairSpec == Spec /\ Fairness

-----------------------------------------------------------------------------
Gone(t) == t \in Opened /\ (own[t] # live \/ t \notin listed)
Quiet(t) == t \notin loops /\ \A k \in Conns : conn[k].of # t

(* tunnel.rs:83: stop "ends every connection still flowing through", and a *)
(* disconnect stops them all.  A tunnel that was closed, or whose session  *)
(* has left the registry, comes to have no listener and no connection, the *)
(* one parked in a session that was already stopped while it was opened    *)
(* included.                                                               *)
GoneTunnelsEnd == \A t \in Tunnels : Gone(t) ~> Quiet(t)
=============================================================================

------------------------------ MODULE HostsView ------------------------------
(***************************************************************************)
(* What the window shows of one saved host: HostsProvider.tsx and          *)
(* hostStatus.ts, over the registry as the window's calls change it        *)
(* (Sessions has the registry's own interleavings).                        *)
(*                                                                         *)
(* A call is a message there and one back; heartbeats, connects, a         *)
(* disconnect and a refresh are under way together, and nothing orders     *)
(* their answers.  A handler that runs between two renders sees the new    *)
(* state in setConnections, and the old one in connectionsRef.             *)
(*                                                                         *)
(* Abstracted: terminals, task runs and caches, which are dropped along    *)
(* with a connection; latencies; a window that is hidden.                  *)
(***************************************************************************)
CONSTANT Beats   \* heartbeats that may be under way at once

VARIABLES
  parked,        \* whether the registry has a session of the host
  up,            \* whether the registry's session answers
  shown,         \* connections: whether the window has the info of one
  rendered,      \* connectionsRef: the same as of the last render
  health,        \* the last word on the host: [known, connected, reachable]
  dial,          \* who connects -> how far the call is
  exit,          \* how far a disconnect or a power command is
  beat,          \* heartbeat -> [step, current, connected, reachable]; current:
                 \*   whether the session it got is the registry's still
  fresh          \* the newest refresh: "idle", or what it found

vars == <<parked, up, shown, rendered, health, dial, exit, beat, fresh>>

Dialers == {"user", "silent"}

Known(connected, reachable) ==
  [known |-> TRUE, connected |-> connected, reachable |-> reachable]
NoBeat == [step |-> "idle", current |-> FALSE, connected |-> FALSE, reachable |-> FALSE]

(* The host is in the set of those left on purpose, of those connected     *)
(* again.                                                                  *)
Leaving == exit # "idle"
Reconnecting == dial["silent"] # "idle"

(* The registry lets go of its session: no heartbeat has it any more.      *)
Replaced == [b \in Beats |-> [beat[b] EXCEPT !.current = FALSE]]

TypeOK ==
  /\ {parked, up, shown, rendered} \subseteq BOOLEAN
  /\ health \in [known : BOOLEAN, connected : BOOLEAN, reachable : BOOLEAN]
  /\ dial \in [Dialers -> {"idle", "checking", "asked", "taken", "reopening"}]
  /\ exit \in {"idle", "asked", "left", "power", "powered"}
  /\ beat \in [Beats -> [step : {"idle", "asked", "judged"}, current : BOOLEAN,
                         connected : BOOLEAN, reachable : BOOLEAN]]
  /\ fresh \in {"idle", "connected", "not connected"}

(* Mutant of Status: only what connect returned counts.                    *)
StatusOfInfo ==
  CASE shown -> "connected"
    [] ~shown /\ ~health.known -> "unknown"
    [] OTHER -> IF health.reachable THEN "reachable" ELSE "offline"

(* statusFor.                                                              *)
Status ==
  CASE shown \/ (health.known /\ health.connected) -> "connected"
    [] ~shown /\ ~health.known -> "unknown"
    [] OTHER -> IF health.reachable THEN "reachable" ELSE "offline"

Render ==
  /\ rendered # shown
  /\ rendered' = shown
  /\ UNCHANGED <<parked, up, shown, health, dial, exit, beat, fresh>>

-----------------------------------------------------------------------------
(* connect, and the same by reconnect.                                     *)
Connect ==
  /\ dial["user"] = "idle"
  /\ dial' = [dial EXCEPT !["user"] = "asked"]
  /\ UNCHANGED <<parked, up, shown, rendered, health, exit, beat, fresh>>

(* canReconnectSilently.                                                   *)
CanReconnect(can) ==
  /\ dial["silent"] = "checking"
  /\ dial' = [dial EXCEPT !["silent"] = IF can THEN "asked" ELSE "idle"]
  /\ UNCHANGED <<parked, up, shown, rendered, health, exit, beat, fresh>>

(* connect_host: a new session takes the place of the old one, or none.    *)
Park(d) ==
  /\ dial[d] = "asked"
  /\ parked' = TRUE /\ up' = TRUE /\ beat' = Replaced
  /\ dial' = [dial EXCEPT ![d] = "taken"]
  /\ UNCHANGED <<shown, rendered, health, exit, fresh>>

ConnectAnswered(d) ==
  /\ dial[d] = "taken"
  /\ shown' = TRUE
  /\ dial' = [dial EXCEPT ![d] = IF d = "silent" THEN "reopening" ELSE "idle"]
  /\ UNCHANGED <<parked, up, rendered, health, exit, beat, fresh>>

ConnectRefused(d) ==
  /\ dial[d] = "asked"
  /\ health' = Known(FALSE, FALSE)
  /\ dial' = [dial EXCEPT ![d] = "idle"]
  /\ UNCHANGED <<parked, up, shown, rendered, exit, beat, fresh>>

(* The terminals of the dropped connection are opened again, one by one.   *)
Reopened ==
  /\ dial["silent"] = "reopening"
  /\ dial' = [dial EXCEPT !["silent"] = "idle"]
  /\ UNCHANGED <<parked, up, shown, rendered, health, exit, beat, fresh>>

-----------------------------------------------------------------------------
(* disconnect: the terminals and runs are closed first.                    *)
Disconnect ==
  /\ exit = "idle" /\ Status = "connected"
  /\ exit' = "asked"
  /\ UNCHANGED <<parked, up, shown, rendered, health, dial, beat, fresh>>

(* disconnect_host, and a power_host that is immediate and goes through.   *)
Left ==
  /\ exit \in {"asked", "power"}
  /\ parked' = FALSE /\ up' = FALSE /\ beat' = Replaced
  /\ exit' = IF exit = "asked" THEN "left" ELSE "powered"
  /\ UNCHANGED <<shown, rendered, health, dial, fresh>>

DisconnectAnswered ==
  /\ exit = "left"
  /\ shown' = FALSE /\ exit' = "idle"
  /\ health' = Known(FALSE, health.known => health.reachable)
  /\ UNCHANGED <<parked, up, rendered, dial, beat, fresh>>

(* power.                                                                  *)
Power ==
  /\ exit = "idle" /\ Status = "connected"
  /\ exit' = "power"
  /\ UNCHANGED <<parked, up, shown, rendered, health, dial, beat, fresh>>

(* The command went through, or it was refused, failed or is for later.    *)
PowerAnswered ==
  /\ exit \in {"power", "powered"}
  /\ exit' = "idle"
  /\ IF exit = "powered" THEN shown' = FALSE /\ health' = Known(FALSE, FALSE)
                         ELSE UNCHANGED <<shown, health>>
  /\ UNCHANGED <<parked, up, rendered, dial, beat, fresh>>

-----------------------------------------------------------------------------
(* The transport breaks, or stays silent for too many beats.               *)
Breaks ==
  /\ up
  /\ up' = FALSE
  /\ UNCHANGED <<parked, shown, rendered, health, dial, exit, beat, fresh>>

(* beat, on its timer or because the window is looked at again.            *)
Beat(b) ==
  /\ beat[b] = NoBeat
  /\ beat' = [beat EXCEPT ![b] = [NoBeat EXCEPT !.step = "asked", !.current = parked]]
  /\ UNCHANGED <<parked, up, shown, rendered, health, dial, exit, fresh>>

(* heartbeat: the session it got at the start, then the machine.  One that *)
(* is found gone is reaped, whichever session the host has by then.        *)
Judge(b, reachable) ==
  LET alive == beat[b].current /\ up
      found == [beat EXCEPT ![b].step = "judged", ![b].connected = alive,
                            ![b].reachable = alive \/ reachable]
  IN
  /\ beat[b].step = "asked"
  /\ IF alive THEN UNCHANGED <<parked, up>> ELSE parked' = FALSE /\ up' = FALSE
  /\ beat' = [x \in Beats |-> IF alive \/ x = b THEN found[x] ELSE Replaced[x]]
  /\ UNCHANGED <<shown, rendered, health, dial, exit, fresh>>

(* The rest of beat.  A connection that was dropped is connected again,    *)
(* unless it is left on purpose or being connected again already.          *)
BeatAnswered(b) ==
  LET dropped == rendered /\ ~beat[b].connected
      again == dropped /\ beat[b].reachable /\ ~Leaving /\ ~Reconnecting
  IN
  /\ beat[b].step = "judged"
  /\ beat' = [beat EXCEPT ![b] = NoBeat]
  /\ health' = Known(beat[b].connected, beat[b].reachable)
  /\ shown' = (shown /\ ~dropped)
  /\ dial' = IF again THEN [dial EXCEPT !["silent"] = "checking"] ELSE dial
  /\ UNCHANGED <<parked, up, rendered, exit, fresh>>

(* refresh: an answer that a newer request has overtaken is not looked at. *)
Refresh ==
  /\ fresh' = IF parked THEN "connected" ELSE "not connected"
  /\ UNCHANGED <<parked, up, shown, rendered, health, dial, exit, beat>>

RefreshAnswered ==
  /\ fresh # "idle"
  /\ shown' = (shown /\ fresh = "connected")
  /\ fresh' = "idle"
  /\ UNCHANGED <<parked, up, rendered, health, dial, exit, beat>>

-----------------------------------------------------------------------------
Init ==
  /\ parked = FALSE /\ up = FALSE /\ shown = FALSE /\ rendered = FALSE
  /\ health = [known |-> FALSE, connected |-> FALSE, reachable |-> FALSE]
  /\ dial = [d \in Dialers |-> "idle"] /\ exit = "idle"
  /\ beat = [b \in Beats |-> NoBeat] /\ fresh = "idle"

Answered(d) == ConnectAnswered(d) \/ ConnectRefused(d)
Leaves == Left \/ DisconnectAnswered \/ PowerAnswered
Silently == Reopened \/ \E can \in BOOLEAN : CanReconnect(can)
Judged(b) == \E reachable \in BOOLEAN : Judge(b, reachable)

Next ==
  \/ Render \/ Connect \/ Silently
  \/ \E d \in Dialers : Park(d) \/ Answered(d)
  \/ Disconnect \/ Power \/ Leaves
  \/ Breaks \/ Refresh \/ RefreshAnswered
  \/ \E b \in Beats : Beat(b) \/ Judged(b) \/ BeatAnswered(b)

Spec == Init /\ [][Next]_vars

(* Renders happen, calls are answered, and the heart beats while the       *)
(* window is looked at.  Nothing is asked of the user.                     *)
FairSpec ==
  /\ Spec
  /\ WF_vars(Render) /\ WF_vars(Leaves) /\ WF_vars(Silently) /\ WF_vars(RefreshAnswered)
  /\ \A d \in Dialers : WF_vars(Answered(d))
  /\ \A b \in Beats : WF_vars(Beat(b)) /\ WF_vars(Judged(b)) /\ WF_vars(BeatAnswered(b))

-----------------------------------------------------------------------------
(* README.md:37: "four honest status states".  The dot is at most some     *)
(* answers behind the registry, in both directions: whatever answers are   *)
(* applied late, a session that is gone stops being shown, and a session   *)
(* that is there comes to be shown, the one whose connection a late answer *)
(* has taken out of the window included.                                   *)
StatusIsHonest ==
  /\ ~parked /\ Status = "connected" ~> parked \/ Status # "connected"
  /\ parked /\ Status # "connected" ~> ~parked \/ Status = "connected"
=============================================================================

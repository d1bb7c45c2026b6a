------------------------------ MODULE Sessions ------------------------------
(***************************************************************************)
(* Which hosts are connected: SessionRegistry (remote/registry.rs), the    *)
(* command handlers that put sessions in and take them out (connect_host,  *)
(* disconnect_host, power_host in remote/commands.rs) and the heartbeat    *)
(* that looks after them.                                                  *)
(*                                                                         *)
(* The registry is a map behind a std Mutex, so each of its methods is one *)
(* atomic step; everything a handler awaits is a station where others run. *)
(* Sessions are numbered as their handshakes succeed, so that a session of *)
(* a host can be told from the one that replaced it, which the registry,   *)
(* keyed by host id, cannot.                                               *)
(*                                                                         *)
(* Abstracted: what is inside a session (shells, streams and tunnels, all  *)
(* torn down before the transport), credentials, latencies.                *)
(***************************************************************************)
EXTENDS Integers

CONSTANTS
  Hosts,           \* saved hosts, by id
  NoHost,          \* no host
  Users,           \* command invocations that may be in progress at once
  Beats,           \* heartbeat invocations that may be in progress at once
  MaxSessions,     \* bound: handshakes that succeed in one behaviour
  MaxMissedBeats,  \* MAX_MISSED_BEATS, 2
  MissedCeiling    \* u8::MAX, where missed_beats saturates

ASSUME SessionAssumption ==
  /\ NoHost \notin Hosts
  /\ MaxSessions \in Nat
  /\ MissedCeiling \in Nat
  /\ MaxMissedBeats \in 1 .. MissedCeiling

VARIABLES
  entry,    \* SessionRegistry.sessions: host -> session, None if no entry
  evicted,  \* sessions a reconnect replaced, with their teardown spawned
  created,  \* sessions made so far: 1 .. created
  host,     \* session -> LiveSession.host_id
  link,     \* session -> its transport
  missed,   \* session -> LiveSession.missed_beats
  at,       \* user -> the await its command is suspended at
  target,   \* user -> the host of its command
  holds,    \* user -> the session in its hands, out of the registry
  asked,    \* heartbeat -> host -> the session it got at the start
  verdict,  \* heartbeat -> host -> how far its check has come
  taken     \* heartbeat -> the session it is tearing down

vars == <<entry, evicted, created, host, link, missed, at, target, holds,
          asked, verdict, taken>>

None == 0
Sessions == 1 .. MaxSessions

Links == {"none", "up", "down"}

(* "dial": jump chain, handshake, authentication.  "check": authenticated, *)
(* asking for privileges and platform.  "exec": the power command runs.    *)
(* "close": disconnect_host tears a session down.  "off": power_host does. *)
(* "release": the session is gone, release_host_transfers not called yet.  *)
Stations == {"idle", "dial", "check", "exec", "close", "off", "release"}

(* "resting": no heartbeat.  "asking": is_alive.  "probing": the TCP probe.*)
(* "well" and "gone" are HostHealth.connected; the rest is the reap loop.  *)
Verdicts == {"resting", "asking", "probing", "well", "gone", "close", "release", "reaped"}

Types ==
  /\ entry \in [Hosts -> Sessions \cup {None}]
  /\ evicted \subseteq Sessions
  /\ created \in 0 .. MaxSessions
  /\ host \in [Sessions -> Hosts \cup {NoHost}]
  /\ link \in [Sessions -> Links]
  /\ missed \in [Sessions -> 0 .. MissedCeiling]
  /\ at \in [Users -> Stations]
  /\ target \in [Users -> Hosts \cup {NoHost}]
  /\ holds \in [Users -> Sessions \cup {None}]
  /\ asked \in [Beats -> [Hosts -> Sessions \cup {None}]]
  /\ verdict \in [Beats -> [Hosts -> Verdicts]]
  /\ taken \in [Beats -> Sessions \cup {None}]

(* Sessions get their link as they are made.                               *)
MadeInOrder == \A s \in Sessions : link[s] = "none" <=> s > created

(* A suspended handler has its host, and a session where it needs one.     *)
HandlersInStep ==
  \A u \in Users :
    /\ at[u] = "idle" <=> target[u] = NoHost
    /\ holds[u] # None <=> at[u] \in {"check", "close", "off"}

(* A heartbeat asks sessions, and tears down one at a time.                *)
BeatsInStep ==
  \A b \in Beats :
    /\ \A h \in Hosts : verdict[b][h] = "asking" => asked[b][h] # None
    /\ taken[b] # None <=> \E h \in Hosts : verdict[b][h] = "close"
    /\ \A g, h \in Hosts : verdict[b][g] = "close" /\ verdict[b][h] = "close" => g = h

TypeOK == Types /\ MadeInOrder /\ HandlersInStep /\ BeatsInStep

Connected(h) == entry[h] # None

-----------------------------------------------------------------------------
(* connect_host.                                                           *)

Handler(u, station, h, s) ==
  /\ at' = [at EXCEPT ![u] = station]
  /\ target' = [target EXCEPT ![u] = h]
  /\ holds' = [holds EXCEPT ![u] = s]

(* Mutant of Return: the handler's local outlives it.                      *)
ReturnHolding(u) == Handler(u, "idle", NoHost, holds[u])

Return(u) == Handler(u, "idle", NoHost, None)

(* Nothing asks whether the host is connected already.                     *)
Dial(u, h) ==
  /\ at[u] = "idle"
  /\ Handler(u, "dial", h, None)
  /\ UNCHANGED <<entry, evicted, created, host, link, missed, asked, verdict, taken>>

DialFails(u) ==
  /\ at[u] = "dial"
  /\ Return(u)
  /\ UNCHANGED <<entry, evicted, created, host, link, missed, asked, verdict, taken>>

(* A handshake beyond MaxSessions is out of the bound.                     *)
Authenticate(u) ==
  /\ at[u] = "dial"
  /\ created < MaxSessions
  /\ created' = created + 1
  /\ host' = [host EXCEPT ![created + 1] = target[u]]
  /\ link' = [link EXCEPT ![created + 1] = "up"]
  /\ Handler(u, "check", target[u], created + 1)
  /\ UNCHANGED <<entry, evicted, missed, asked, verdict, taken>>

(* check_privileges or the store fails: the session is dropped unparked.   *)
CheckFails(u) ==
  /\ at[u] = "check"
  /\ link' = [link EXCEPT ![holds[u]] = "down"]
  /\ Return(u)
  /\ UNCHANGED <<entry, evicted, created, host, missed, asked, verdict, taken>>

(* Mutant of Park: the map's old value is thrown away.                     *)
ParkOver(u) ==
  /\ at[u] = "check"
  /\ entry' = [entry EXCEPT ![target[u]] = holds[u]]
  /\ Return(u)
  /\ UNCHANGED <<evicted, created, host, link, missed, asked, verdict, taken>>

(* SessionRegistry::insert: a session already there is replaced, and its   *)
(* teardown spawned.                                                       *)
Park(u) ==
  /\ at[u] = "check"
  /\ entry' = [entry EXCEPT ![target[u]] = holds[u]]
  /\ evicted' = evicted \cup ({entry[target[u]]} \ {None})
  /\ Return(u)
  /\ UNCHANGED <<created, host, link, missed, asked, verdict, taken>>

CloseEvicted(s) ==
  /\ s \in evicted
  /\ evicted' = evicted \ {s}
  /\ link' = [link EXCEPT ![s] = "down"]
  /\ UNCHANGED <<entry, created, host, missed, at, target, holds, asked, verdict, taken>>

-----------------------------------------------------------------------------
(* disconnect_host and power_host, both through SessionRegistry::disconnect*)

(* Mutant of Take: get instead of remove.                                  *)
TakeByGet(h) == UNCHANGED entry

Take(h) == entry' = [entry EXCEPT ![h] = None]

(* Without a session there is nothing to tear down, but the host's         *)
(* transfers are released all the same.                                    *)
Disconnect(u, h) ==
  /\ at[u] = "idle"
  /\ Take(h)
  /\ Handler(u, IF Connected(h) THEN "close" ELSE "release", h, entry[h])
  /\ UNCHANGED <<evicted, created, host, link, missed, asked, verdict, taken>>

Power(u, h) ==
  /\ at[u] = "idle"
  /\ Connected(h)
  /\ Handler(u, "exec", h, None)
  /\ UNCHANGED <<entry, evicted, created, host, link, missed, asked, verdict, taken>>

(* Refused, delayed, or a cancellation: the session stays.                 *)
PowerLeaves(u) ==
  /\ at[u] = "exec"
  /\ Return(u)
  /\ UNCHANGED <<entry, evicted, created, host, link, missed, asked, verdict, taken>>

(* An immediate shutdown takes whichever session the host has by now.      *)
PowerTakes(u) ==
  /\ at[u] = "exec"
  /\ Take(target[u])
  /\ IF Connected(target[u])
     THEN Handler(u, "off", target[u], entry[target[u]])
     ELSE Return(u)
  /\ UNCHANGED <<evicted, created, host, link, missed, asked, verdict, taken>>

(* The end of the teardown: the transport is closed.                       *)
Close(u) ==
  /\ at[u] \in {"close", "off"}
  /\ link' = [link EXCEPT ![holds[u]] = "down"]
  /\ IF at[u] = "close" THEN Handler(u, "release", target[u], None) ELSE Return(u)
  /\ UNCHANGED <<entry, evicted, created, host, missed, asked, verdict, taken>>

Release(u) ==
  /\ at[u] = "release"
  /\ Return(u)
  /\ UNCHANGED <<entry, evicted, created, host, link, missed, asked, verdict, taken>>

(* Keepalives run out, the server hangs up, the socket breaks.             *)
Drop(s) ==
  /\ link[s] = "up"
  /\ link' = [link EXCEPT ![s] = "down"]
  /\ UNCHANGED <<entry, evicted, created, host, missed, at, target, holds, asked,
                 verdict, taken>>

-----------------------------------------------------------------------------
(* heartbeat.                                                              *)

Finds(b, h, v) == verdict' = [verdict EXCEPT ![b][h] = v]

(* Every session is fetched when join_all collects the checks; a host      *)
(* without one goes straight to the probe.                                 *)
Beat(b) ==
  /\ \A h \in Hosts : verdict[b][h] = "resting"
  /\ asked' = [asked EXCEPT ![b] = entry]
  /\ verdict' = [verdict EXCEPT ![b] =
       [h \in Hosts |-> IF Connected(h) THEN "asking" ELSE "probing"]]
  /\ UNCHANGED <<entry, evicted, created, host, link, missed, at, target, holds, taken>>

Answers(b, h) ==
  /\ verdict[b][h] = "asking"
  /\ link[asked[b][h]] = "up"
  /\ missed' = [missed EXCEPT ![asked[b][h]] = 0]
  /\ Finds(b, h, "well")
  /\ UNCHANGED <<entry, evicted, created, host, link, at, target, holds, asked, taken>>

OneMore(s) == IF missed[s] < MissedCeiling THEN missed[s] + 1 ELSE MissedCeiling

(* Mutant of SlowReply: the first missed beat is one too many.             *)
SlowReplyFatal(b, h) ==
  LET s == asked[b][h] IN
  /\ verdict[b][h] = "asking"
  /\ link[s] = "up"
  /\ missed' = [missed EXCEPT ![s] = OneMore(s)]
  /\ Finds(b, h, "probing")
  /\ UNCHANGED <<entry, evicted, created, host, link, at, target, holds, asked, taken>>

(* No answer in time over a transport that is still open.                  *)
SlowReply(b, h) ==
  LET s == asked[b][h] IN
  /\ verdict[b][h] = "asking"
  /\ link[s] = "up"
  /\ missed' = [missed EXCEPT ![s] = OneMore(s)]
  /\ Finds(b, h, IF OneMore(s) < MaxMissedBeats THEN "well" ELSE "probing")
  /\ UNCHANGED <<entry, evicted, created, host, link, at, target, holds, asked, taken>>

(* Mutant of FoundClosed: a closed transport is given another beat.        *)
FoundClosedWaits(b, h) ==
  /\ verdict[b][h] = "asking"
  /\ link[asked[b][h]] = "down"
  /\ Finds(b, h, "well")
  /\ UNCHANGED <<entry, evicted, created, host, link, missed, at, target, holds, asked,
                 taken>>

FoundClosed(b, h) ==
  /\ verdict[b][h] = "asking"
  /\ link[asked[b][h]] = "down"
  /\ Finds(b, h, "probing")
  /\ UNCHANGED <<entry, evicted, created, host, link, missed, at, target, holds, asked,
                 taken>>

Probe(b, h) ==
  /\ verdict[b][h] = "probing"
  /\ Finds(b, h, "gone")
  /\ UNCHANGED <<entry, evicted, created, host, link, missed, at, target, holds, asked,
                 taken>>

(* join_all: no host is reaped while another one's check is under way, and *)
(* the loop reaps one host at a time.                                      *)
Reaping(b) == \A h \in Hosts : verdict[b][h] \notin {"resting", "asking", "probing"}
Between(b) == Reaping(b) /\ \A h \in Hosts : verdict[b][h] \notin {"close", "release"}

(* The loop asks whether the HOST is connected, not whether the session it *)
(* looked at is still the one in the registry.                             *)
Reap(b, h) ==
  /\ Between(b)
  /\ verdict[b][h] = "gone"
  /\ Connected(h)
  /\ Take(h)
  /\ taken' = [taken EXCEPT ![b] = entry[h]]
  /\ Finds(b, h, "close")
  /\ UNCHANGED <<evicted, created, host, link, missed, at, target, holds, asked>>

NothingToReap(b, h) ==
  /\ Between(b)
  /\ verdict[b][h] = "gone"
  /\ ~Connected(h)
  /\ Finds(b, h, "reaped")
  /\ UNCHANGED <<entry, evicted, created, host, link, missed, at, target, holds, asked,
                 taken>>

(* Mutant of ReapClose: the session is dropped from the map, not closed.   *)
ReapForgets(b, h) ==
  /\ verdict[b][h] = "close"
  /\ taken' = [taken EXCEPT ![b] = None]
  /\ Finds(b, h, "release")
  /\ UNCHANGED <<entry, evicted, created, host, link, missed, at, target, holds, asked>>

ReapClose(b, h) ==
  /\ verdict[b][h] = "close"
  /\ link' = [link EXCEPT ![taken[b]] = "down"]
  /\ taken' = [taken EXCEPT ![b] = None]
  /\ Finds(b, h, "release")
  /\ UNCHANGED <<entry, evicted, created, host, missed, at, target, holds, asked>>

ReapRelease(b, h) ==
  /\ verdict[b][h] = "release"
  /\ Finds(b, h, "reaped")
  /\ UNCHANGED <<entry, evicted, created, host, link, missed, at, target, holds, asked,
                 taken>>

BeatEnds(b) ==
  /\ \A h \in Hosts : verdict[b][h] \in {"well", "reaped"}
  /\ verdict' = [verdict EXCEPT ![b] = [h \in Hosts |-> "resting"]]
  /\ asked' = [asked EXCEPT ![b] = [h \in Hosts |-> None]]
  /\ UNCHANGED <<entry, evicted, created, host, link, missed, at, target, holds, taken>>

-----------------------------------------------------------------------------
Init ==
  /\ entry = [h \in Hosts |-> None]
  /\ evicted = {}
  /\ created = 0
  /\ host = [s \in Sessions |-> NoHost]
  /\ link = [s \in Sessions |-> "none"]
  /\ missed = [s \in Sessions |-> 0]
  /\ at = [u \in Users |-> "idle"]
  /\ target = [u \in Users |-> NoHost]
  /\ holds = [u \in Users |-> None]
  /\ asked = [b \in Beats |-> [h \in Hosts |-> None]]
  /\ verdict = [b \in Beats |-> [h \in Hosts |-> "resting"]]
  /\ taken = [b \in Beats |-> None]

Call(u) == \E h \in Hosts : Dial(u, h) \/ Disconnect(u, h) \/ Power(u, h)

(* What a handler does once called; each disjunct ends an await of its own.*)
Proceed(u) ==
  \/ DialFails(u) \/ Authenticate(u)
  \/ CheckFails(u) \/ Park(u)
  \/ PowerLeaves(u) \/ PowerTakes(u)
  \/ Close(u) \/ Release(u)

Check(b, h) ==
  Answers(b, h) \/ SlowReply(b, h) \/ FoundClosed(b, h) \/ Probe(b, h)

ReapStep(b, h) ==
  Reap(b, h) \/ NothingToReap(b, h) \/ ReapClose(b, h) \/ ReapRelease(b, h)

BeatStep(b) ==
  \/ Beat(b) \/ BeatEnds(b)
  \/ \E h \in Hosts : Check(b, h) \/ ReapStep(b, h)

Next ==
  \/ \E u \in Users : Call(u) \/ Proceed(u)
  \/ \E b \in Beats : BeatStep(b)
  \/ \E s \in Sessions : CloseEvicted(s) \/ Drop(s)

Spec == Init /\ [][Next]_vars

(* Dialling and remote commands time out and a teardown is a message to    *)
(* the transport's own task, so every await of a handler ends.  The        *)
(* heartbeat is a timer of the window: it beats while the window is        *)
(* visible, its checks time out after 5 s and its probes after 3 s.        *)
FairSpec ==
  /\ Spec
  /\ \A u \in Users : WF_vars(Proceed(u))
  /\ \A b \in Beats : WF_vars(BeatStep(b)) /\ \A h \in Hosts : WF_vars(Check(b, h))
  /\ \A s \in Sessions : WF_vars(CloseEvicted(s))

-----------------------------------------------------------------------------
(* What must hold.                                                         *)

(* Who may close session s, and so has to.                                 *)
Keepers(s) ==
  {<<"registry", h>> : h \in {g \in Hosts : entry[g] = s}}
    \cup {<<"user", u>> : u \in {v \in Users : holds[v] = s}}
    \cup {<<"beat", b>> : b \in {c \in Beats : taken[c] = s}}
    \cup {<<"spawned", s>> : r \in evicted \cap {s}}

(* registry.rs:309-310: "a reconnect never leaks the connection it         *)
(* replaced".  However connects, disconnects, shutdowns and reaps overlap, *)
(* an open transport has somebody who will close it ...                    *)
NoLeak == \A s \in Sessions : link[s] = "up" => Keepers(s) # {}

(* ... and never two: a session in the registry is not being torn down, a  *)
(* teardown is not run twice, and an entry is its host's.                  *)
OneKeeper ==
  /\ \A s \in Sessions : \A j, k \in Keepers(s) : j = k
  /\ \A h \in Hosts : Connected(h) => host[entry[h]] = h

(* registry.rs:77-79: "so one slow round trip does not reap the session".  *)
(* A heartbeat closes the session it looked at only if that is closed      *)
(* already or has missed MaxMissedBeats beats in a row.  This needs        *)
(* heartbeats that do not overlap.                                         *)
SlowReplySpared ==
  [][\A b \in Beats, h \in Hosts :
       LET s == entry[h] IN
       verdict[b][h] = "gone" /\ verdict'[b][h] = "close" /\ s = asked[b][h] =>
         link[s] = "down" \/ missed[s] >= MaxMissedBeats]_vars

(* A session whose transport has died does not stay in the registry: with  *)
(* the window visible a heartbeat finds it out and reaps it.               *)
DeadIsReaped ==
  \A h \in Hosts, s \in Sessions :
    entry[h] = s /\ link[s] = "down" ~> entry[h] # s

(* A session that is out of the registry is closed in the end, whoever     *)
(* took it out.                                                            *)
OutIsClosed ==
  \A s \in Sessions :
    link[s] = "up" /\ (\A h \in Hosts : entry[h] # s)
      ~> link[s] # "up" \/ \E h \in Hosts : entry[h] = s

-----------------------------------------------------------------------------
(* What the documentation says and the code does not do.                   *)

(* commands.rs:457: "Reap sessions that failed their liveness check": the  *)
(* session a heartbeat closes is one it has looked at.                     *)
ReapsOnlyChecked ==
  [][\A b \in Beats, h \in Hosts :
       verdict[b][h] = "gone" /\ verdict'[b][h] = "close" => entry[h] = asked[b][h]]_vars
=============================================================================

-------------------------------- MODULE Shells --------------------------------
(***************************************************************************)
(* The shells of one host: open_shell with its cap, write_shell,           *)
(* resize_shell, broadcast_shells, close_shell and list_shells             *)
(* (remote/commands.rs), the map they are parked in (LiveSession in        *)
(* remote/registry.rs) and the handle of each (ShellHandle in              *)
(* remote/shell.rs).                                                       *)
(*                                                                         *)
(* A call keeps the session it found while it waits; the session may be    *)
(* closed, and another be connected, before it goes on.                    *)
(*                                                                         *)
(* Abstracted: terminal sizes, and the output (module ShellOutput).        *)
(***************************************************************************)
EXTENDS Naturals, FiniteSets

CONSTANTS
  Calls,         \* calls of open_shell under way at once
  NoCall,
  MaxShells,     \* MAX_SHELLS_PER_HOST
  MaxIds,        \* bound: shells opened in one behaviour
  MaxSessions    \* bound: sessions of the host

(* What the proofs assume of the constants.                                *)
ShellAssumption ==
  /\ MaxShells \in Nat /\ MaxIds \in Nat /\ MaxSessions \in Nat
  /\ NoCall \notin Calls

VARIABLES
  live,      \* the session in the registry, or 0
  sessions,  \* sessions made so far
  up,        \* sessions whose transport is open
  parked,    \* session -> ids in its map of shells
  open,      \* ids whose channel is open
  closing,   \* ids taken from their map, whose close is waited for
  over,      \* id -> the session whose channel it is
  ids,       \* ids given so far
  lock,      \* session -> the call that holds shell_open
  call       \* call -> how far it is

vars == <<live, sessions, up, parked, open, closing, over, ids, lock, call>>

Ids == 1 .. MaxIds
All == 1 .. MaxSessions
Idle == [step |-> "idle", on |-> 0]

TypeOK ==
  /\ live \in 0 .. sessions /\ sessions \in 0 .. MaxSessions
  /\ up \subseteq 1 .. sessions
  /\ parked \in [All -> SUBSET Ids] /\ open \subseteq Ids
  /\ closing \subseteq Ids
  /\ over \in [Ids -> 0 .. MaxSessions] /\ ids \in 0 .. MaxIds
  /\ lock \in [All -> Calls \cup {NoCall}]
  /\ call \in [Calls -> [step : {"idle", "waiting", "opening"}, on : 0 .. MaxSessions]]

-----------------------------------------------------------------------------
(* open_shell: the session, the lock, the cap, the channel, the map.       *)
Require(c) ==
  /\ call[c].step = "idle" /\ live # 0
  /\ call' = [call EXCEPT ![c] = [step |-> "waiting", on |-> live]]
  /\ UNCHANGED <<live, sessions, up, parked, open, closing, over, ids, lock>>

(* Mutant of LockFree: opens are not kept apart.                           *)
LockNone(s) == TRUE

LockFree(s) == lock[s] = NoCall

TakeLock(c) ==
  LET s == call[c].on IN
  /\ call[c].step = "waiting" /\ LockFree(s) /\ Cardinality(parked[s]) < MaxShells
  /\ lock' = [lock EXCEPT ![s] = c]
  /\ call' = [call EXCEPT ![c].step = "opening"]
  /\ UNCHANGED <<live, sessions, up, parked, open, closing, over, ids>>

TooMany(c) ==
  LET s == call[c].on IN
  /\ call[c].step = "waiting" /\ LockFree(s) /\ Cardinality(parked[s]) >= MaxShells
  /\ call' = [call EXCEPT ![c] = Idle]
  /\ UNCHANGED <<live, sessions, up, parked, open, closing, over, ids, lock>>

(* shell::open and add_shell.  The session may have left the registry, and *)
(* its map been drained, since the call found it.                          *)
Opened(c) ==
  LET s == call[c].on IN
  /\ call[c].step = "opening" /\ s \in up /\ ids < MaxIds
  /\ ids' = ids + 1
  /\ open' = open \cup {ids + 1}
  /\ over' = [over EXCEPT ![ids + 1] = s]
  /\ parked' = [parked EXCEPT ![s] = @ \cup {ids + 1}]
  /\ lock' = [lock EXCEPT ![s] = NoCall]
  /\ call' = [call EXCEPT ![c] = Idle]
  /\ UNCHANGED <<live, sessions, up, closing>>

OpenFails(c) ==
  /\ call[c].step = "opening"
  /\ lock' = [lock EXCEPT ![call[c].on] = NoCall]
  /\ call' = [call EXCEPT ![c] = Idle]
  /\ UNCHANGED <<live, sessions, up, parked, open, closing, over, ids>>

(* shell, as the registry finds it for a call that names an id: keys, a    *)
(* resize or one target of a broadcast go to it and to no other.           *)
Found(i) == live # 0 /\ i \in parked[live]

(* close_shell takes it from the map, and then waits while the channel is  *)
(* closed: for so long it is open and no longer counted.                   *)
CloseShell(i) ==
  /\ Found(i)
  /\ parked' = [parked EXCEPT ![live] = @ \ {i}]
  /\ closing' = closing \cup {i}
  /\ UNCHANGED <<live, sessions, up, open, over, ids, lock, call>>

ShellClosed(i) ==
  /\ i \in closing
  /\ closing' = closing \ {i}
  /\ open' = open \ {i}
  /\ UNCHANGED <<live, sessions, up, parked, over, ids, lock, call>>

(* The remote shell exits; it keeps its place until it is closed.          *)
ShellExits(i) ==
  /\ i \in open
  /\ open' = open \ {i}
  /\ UNCHANGED <<live, sessions, up, parked, closing, over, ids, lock, call>>

-----------------------------------------------------------------------------
(* insert, remove, and the teardown of a session that left the registry.   *)
Connect ==
  /\ sessions < MaxSessions
  /\ sessions' = sessions + 1
  /\ live' = sessions + 1
  /\ up' = up \cup {sessions + 1}
  /\ UNCHANGED <<parked, open, closing, over, ids, lock, call>>

Leave ==
  /\ live # 0
  /\ live' = 0
  /\ UNCHANGED <<sessions, up, parked, open, closing, over, ids, lock, call>>

Drain(s) ==
  /\ s \in up \ {live} /\ parked[s] # {}
  /\ parked' = [parked EXCEPT ![s] = {}]
  /\ closing' = closing \cup parked[s]
  /\ UNCHANGED <<live, sessions, up, open, over, ids, lock, call>>

Close(s) ==
  /\ s \in up \ {live}
  /\ up' = up \ {s}
  /\ open' = {i \in open : over[i] # s}
  /\ UNCHANGED <<live, sessions, parked, closing, over, ids, lock, call>>

-----------------------------------------------------------------------------
Init ==
  /\ live = 0 /\ sessions = 0 /\ up = {} /\ open = {} /\ closing = {} /\ ids = 0
  /\ parked = [s \in All |-> {}] /\ over = [i \in Ids |-> 0]
  /\ lock = [s \in All |-> NoCall] /\ call = [c \in Calls |-> Idle]

Next ==
  \/ \E c \in Calls : Require(c) \/ TakeLock(c) \/ TooMany(c) \/ Opened(c) \/ OpenFails(c)
  \/ \E i \in Ids : CloseShell(i) \/ ShellClosed(i) \/ ShellExits(i)
  \/ Connect \/ Leave
  \/ \E s \in All : Drain(s) \/ Close(s)

Spec == Init /\ [][Next]_vars

-----------------------------------------------------------------------------
(* commands.rs:500: the lock is held "so concurrent opens cannot both take *)
(* the last slot".  No session ever holds more shells than the cap, and no *)
(* channel is open that neither its session's own map holds nor a call is  *)
(* about to close.                                                         *)
CapHolds ==
  /\ \A s \in All : Cardinality(parked[s]) <= MaxShells
  /\ \A i \in open : i \in parked[over[i]] \/ i \in closing
=============================================================================

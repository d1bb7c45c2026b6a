----------------------------- MODULE MCChannels -----------------------------
(***************************************************************************)
(* The small instance of Channels that TLC runs, with the lemmas' invariant*)
(* definitions in reach.                                                   *)
(***************************************************************************)
EXTENDS ChannelsProofs, TLC

CONSTANTS TaskCalls, Task

(* TaskRuns: one task, and journals for the other calls.                   *)
MCTasks == {Task}
MCWhat == [c \in Calls |-> IF c \in TaskCalls THEN Task ELSE Journal]

(* Shells: two calls where one shell is allowed, over two sessions.        *)
(* ShellOutput: every text of three bytes, and one on both outputs.        *)
MCBytes == {"A", "L2", "L3", "C", "X"}
MCPrograms ==
  {[out |-> o, err |-> <<>>] : o \in [1 .. 3 -> MCBytes]}
    \cup {[out |-> <<"A", "X", "A">>, err |-> <<"L2", "C">>]}

(* Sudo: two calls, two passwords, a session and its successor.            *)
(* Power: every machine that can be, each request with delays to 3.        *)
OsWord == [linux |-> {"linux"}, macos |-> {"darwin"}, bsd |-> {"bsd"},
           windows |-> {"windows", "microsoft"}, unknown |-> {}]
MCMachines ==
  {m \in [family : {"linux", "macos", "bsd", "windows", "unknown"},
          words : {OsWord[f] : f \in DOMAIN OsWord},
          marker : {"none", "docker"}, virt : {"none", "lxc"}, cgroup : {"none"},
          pid1 : {"systemd", "sshd"}, shutdown : BOOLEAN, uid0 : BOOLEAN,
          admin : BOOLEAN, sudo : {"nopasswd", "passwd", "missing"}] :
     /\ m.words = OsWord[m.family]
     /\ m.admin => m.family = "windows"
     /\ m.family # "linux" =>
          m.marker = "none" /\ m.virt = "none" /\ m.pid1 = "systemd" /\ m.shutdown
     /\ m.family = "windows" => ~m.uid0 /\ m.sudo = "missing"}
MCDelays == 0 .. 3

(* Services: two services of a host of each manager, and of one without;   *)
(* Windows has a log of two events; on openrc one may lack the right to act.*)
Systems == {<<"windows", "native">>, <<"linux", "systemd">>, <<"linux", "openrc">>,
            <<"linux", "sysv">>, <<"linux", "none">>, <<"macos", "native">>}
Event(id, text, spills) == [date |-> "today", id |-> id, text |-> text, spills |-> spills]
EventLogs ==
  {<<Event("7036", <<"ssh", "-x">>, s), Event("7034", <<"-x", "stopped">>, ~s)>> : s \in BOOLEAN}
MCServiceHosts ==
  UNION {[os : {system[1]}, init : {system[2]},
          elevation : {"password"} \cup (IF system[2] = "openrc" THEN {"unavailable"} ELSE {}),
          state : [{"ssh", "-x"} -> {"up", "down", "changing"}],
          mute : IF system[2] = "sysv" THEN {{}, {"ssh"}} ELSE {{}},
          events : IF system[1] = "windows" THEN EventLogs ELSE {<<>>}] : system \in Systems}
MCOdd == {"a$(b"}

(* Metrics: two samples at once of one interface and the processor.        *)
MCPlatforms == {"linux", "windows"}
MCInterfaces == {"eth"}
MCParts == {{}, {"cpu", "net", "disk"}}

Alike == Permutations(TaskCalls) \cup Permutations(Calls \ TaskCalls) \cup Permutations(Pair)
=============================================================================

-------------------------------- MODULE Power --------------------------------
(***************************************************************************)
(* A power request from the question to the report: what the host is       *)
(* (remote/platform.rs, detect_os), how the account is elevated            *)
(* (check_privileges), the command that is planned, and how its answer is  *)
(* read (remote/power.rs).  The machine's own behaviour is what the        *)
(* commands are documented to do on each family.                           *)
(*                                                                         *)
(* Abstracted: wall messages, explanations and the wording of refusals,    *)
(* quoting, and the text of a probe, of which only the words that are      *)
(* looked for are kept.                                                    *)
(***************************************************************************)
EXTENDS Naturals

CONSTANTS
  Machines,    \* the hosts looked at
  Delays,      \* minutes asked for
  MaxDelay     \* MAX_DELAY_MINUTES

VARIABLES
  machine,   \* the host: what it is, and who is logged in
  request,   \* PowerRequest
  view,      \* what was detected: [os, platform, elevation], or <<>>
  plan,      \* PowerPlan: <<>>, <<"refused">>, or <<command, needs password>>
  power,     \* what the machine is going to do: <<>> or <<kind, seconds>>
  outcome    \* what is reported

vars == <<machine, request, view, plan, power, outcome>>

Families == {"linux", "macos", "bsd", "windows", "unknown"}
Requests == [action : {"shutdown", "reboot", "cancel"}, delay : Delays, force : BOOLEAN]
Unix(os) == os \in {"linux", "macos", "bsd"}

-----------------------------------------------------------------------------
(* classify_os: the words of the probe's answer, Windows before the rest.  *)
ClassifyOs(words) ==
  IF {"windows", "microsoft"} \cap words # {} THEN "windows"
  ELSE IF "darwin" \in words THEN "macos"
  ELSE IF "linux" \in words THEN "linux"
  ELSE IF {"bsd", "dragonfly"} \cap words # {} THEN "bsd" ELSE "unknown"

(* parse, over the KEY=value lines of the platform probe: the first marker *)
(* file, else what systemd-detect-virt says, else the control group.       *)
Platform(m) ==
  IF ClassifyOs(m.words) # "linux"
  THEN [container |-> "none", init |-> TRUE, shutdown |-> TRUE]
  ELSE [container |-> IF m.marker # "none" THEN m.marker
                      ELSE IF m.virt # "none" THEN m.virt ELSE m.cgroup,
        init |-> m.pid1 \in {"systemd", "init", "openrc-init", "runit", "s6-svscan"},
        shutdown |-> m.shutdown]

PowerRefusal(platform) == platform.container # "none" /\ ~platform.init

(* check_unix_privileges and check_windows_privileges.                     *)
Elevation(os, m) ==
  CASE os = "windows" -> IF m.admin THEN "windowsAdminToken" ELSE "unavailable"
    [] Unix(os) /\ m.uid0 -> "notNeeded"
    [] Unix(os) /\ ~m.uid0 -> CASE m.sudo = "nopasswd" -> "sudoNoPassword"
                                [] m.sudo = "passwd" -> "sudoPassword"
                                [] OTHER -> "unavailable"
    [] OTHER -> "unavailable"

Detect ==
  /\ view = <<>>
  /\ LET os == ClassifyOs(machine.words)
     IN view' = <<[os |-> os, platform |-> Platform(machine),
                   elevation |-> Elevation(os, machine)]>>
  /\ UNCHANGED <<machine, request, plan, power, outcome>>

-----------------------------------------------------------------------------
(* The commands, as [tool, verb, delay].  Unix counts the delay in         *)
(* minutes, Windows in seconds.                                            *)
UnixCommand(r, macos) ==
  IF r.action = "cancel"
  THEN IF macos THEN [tool |-> "killall", verb |-> "cancel", delay |-> 0]
       ELSE [tool |-> "shutdown", verb |-> "cancel", delay |-> 0]
  ELSE [tool |-> "shutdown", verb |-> r.action, delay |-> r.delay]

(* Mutant of WindowsCommand: minutes, as on Unix.                          *)
WindowsMinutes(r) ==
  [tool |-> "shutdown.exe", verb |-> r.action,
   delay |-> IF r.action = "cancel" THEN 0 ELSE r.delay]

WindowsCommand(r) ==
  IF r.action = "cancel" THEN [tool |-> "shutdown.exe", verb |-> "cancel", delay |-> 0]
  ELSE [tool |-> "shutdown.exe", verb |-> r.action, delay |-> r.delay * 60]

BusyboxRefuses(r) == r.action = "cancel" \/ r.delay > 0
BusyboxCommand(r) ==
  [tool |-> IF r.action = "reboot" THEN "reboot" ELSE "poweroff", verb |-> r.action, delay |-> 0]

Refuses(r, v) ==
  \/ PowerRefusal(v.platform)
  \/ v.elevation = "unavailable"
  \/ r.delay > MaxDelay
  \/ v.os \in {"linux", "bsd"} /\ ~v.platform.shutdown /\ BusyboxRefuses(r)
  \/ v.os = "unknown"

CommandFor(r, v) ==
  CASE v.os = "windows" -> WindowsCommand(r)
    [] v.os = "macos" -> UnixCommand(r, TRUE)
    [] v.os \notin {"windows", "macos"} ->
         IF v.platform.shutdown THEN UnixCommand(r, FALSE) ELSE BusyboxCommand(r)

Plan ==
  /\ view # <<>> /\ plan = <<>>
  /\ LET v == view[1] IN
     plan' = IF Refuses(request, v) THEN <<"refused">>
             ELSE <<"run", CommandFor(request, v),
                    v.elevation \in {"sudoPassword", "sudoNoPassword"},
                    v.elevation = "sudoPassword">>
  /\ outcome' = IF plan' = <<"refused">> THEN "refused" ELSE outcome
  /\ UNCHANGED <<machine, request, view, power>>

-----------------------------------------------------------------------------
(* The machine: who may, which tools there are, and what they do.          *)
MayPower(m, sudo, password) ==
  \/ m.uid0 \/ m.admin
  \/ sudo /\ (m.sudo = "nopasswd" \/ (m.sudo = "passwd" /\ password = "right"))

Tools(m) ==
  CASE m.family = "windows" -> {"shutdown.exe"}
    [] m.family = "macos" -> {"shutdown", "killall"}
    [] OTHER -> {"reboot", "poweroff"} \cup IF m.shutdown THEN {"shutdown"} ELSE {}

Obeys(m, command, sudo, password) ==
  /\ MayPower(m, sudo, password)
  /\ command.tool \in Tools(m)
  /\ m.family \in {"bsd", "macos"} /\ command.verb = "cancel" => command.tool = "killall"
  /\ m.marker = "none" \/ m.pid1 = "systemd"

Does(command) ==
  IF command.verb = "cancel" THEN <<>>
  ELSE <<command.verb, IF command.tool = "shutdown.exe" THEN command.delay
                       ELSE command.delay * 60>>

(* interpret: exit 0 is success, and so is no exit status at all when the  *)
(* machine was told to go down at once.                                    *)
Immediate(r) == r.action # "cancel" /\ r.delay = 0
Interpret(r, exit) ==
  CASE exit = "zero" -> "done"
    [] exit = "none" /\ Immediate(r) -> "dropped"
    [] OTHER -> "failed"

(* execute_on: the password goes to stdin when the plan wants one; without *)
(* one to send nothing is run.                                             *)
Run(password) ==
  /\ plan # <<>> /\ plan[1] = "run" /\ outcome = "none"
  /\ IF plan[4] /\ password = "none"
     THEN outcome' = "refused" /\ UNCHANGED power
     ELSE LET obeyed == Obeys(machine, plan[2], plan[3], password) IN
          \/ /\ power' = IF obeyed THEN Does(plan[2]) ELSE power
             /\ outcome' = Interpret(request, IF obeyed THEN "zero" ELSE "nonzero")
          \/ /\ obeyed /\ power' = Does(plan[2])
             /\ outcome' = Interpret(request, "none")
          \/ /\ UNCHANGED power                  \* the transport went first
             /\ outcome' = Interpret(request, "none")
  /\ UNCHANGED <<machine, request, view, plan>>

Init ==
  /\ machine \in Machines /\ request \in Requests
  /\ view = <<>> /\ plan = <<>> /\ outcome = "none"
  /\ power \in {<<>>, <<"reboot", 240>>}

Next == Detect \/ Plan \/ \E password \in {"none", "right", "wrong"} : Run(password)

Spec == Init /\ [][Next]_vars

-----------------------------------------------------------------------------
Wanted(r) == IF r.action = "cancel" THEN <<>> ELSE <<r.action, r.delay * 60>>

(* power.rs:3: "the command differs per family: Unix counts the delay in   *)
(* minutes and Windows in seconds, and macOS has no shutdown -c".  Whoever *)
(* is told that it was done has a machine that will do what was asked,     *)
(* after the delay that was asked, whatever machine it is.                 *)
AsAsked == outcome = "done" => power = Wanted(request)
=============================================================================

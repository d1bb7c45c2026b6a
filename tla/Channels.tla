------------------------------- MODULE Channels -------------------------------
(***************************************************************************)
(* What runs over the channels of one session, each part by itself: the    *)
(* followed commands (TaskRuns), shells and what they print (Shells,       *)
(* ShellOutput), the sudo password (Sudo), a shutdown (Power), a service   *)
(* command (Services) and samples (Metrics).  A behaviour is one of them:  *)
(* area says which, and all but TaskRuns take turns in v1 .. v10, in the   *)
(* order of their own variables.                                           *)
(***************************************************************************)
EXTENDS TaskRuns, Sequences

CONSTANTS
  Pair,                                         \* whoever acts at once, in each part
  MaxShells, MaxIds, ShellSessions,             \* Shells
  Bytes, Programs, ExitCodes,                   \* ShellOutput
  Passwords, NoPassword, SudoSessions,          \* Sudo
  Machines, Delays, MaxDelay,                   \* Power
  ServiceHosts, Odd, ServiceTurns,              \* Services
  Platforms, Interfaces, Virtual, Ignored, Disks, Parts,
  MaxTime, MaxWork, MaxSamples                  \* Metrics

VARIABLES area, v1, v2, v3, v4, v5, v6, v7, v8, v9, v10

Lent == <<v1, v2, v3, v4, v5, v6, v7, v8, v9, v10>>
Unused == 0

-----------------------------------------------------------------------------
Sh == INSTANCE Shells WITH
  Calls <- Pair, MaxSessions <- ShellSessions,
  live <- v1, sessions <- v2, up <- v3, parked <- v4, open <- v5, over <- v6,
  ids <- v7, lock <- v8, call <- v9, closing <- v10

So == INSTANCE ShellOutputProofs WITH
  program <- v1, wrote <- v2, unread <- v3, pending <- v4, queue <- v5,
  batch <- v6, shown <- v7, code <- v8, status <- v9, ended <- v10

Su == INSTANCE Sudo WITH
  Calls <- Pair, None <- NoPassword, MaxSessions <- SudoSessions,
  live <- v1, made <- v2, right <- v3, login <- v4, kept <- v5, vault <- v6,
  call <- v7, sent <- v8

Po == INSTANCE Power WITH
  machine <- v1, request <- v2, view <- v3, plan <- v4, power <- v5, outcome <- v6

Sv == INSTANCE Services WITH
  Hosts <- ServiceHosts, MaxTurns <- ServiceTurns,
  host <- v1, request <- v2, rest <- v3, outcome <- v4, left <- v5, log <- v6, turns <- v7

Me == INSTANCE Metrics WITH
  Calls <- Pair,
  family <- v1, now <- v2, host <- v3, work <- v4, previous <- v5, slot <- v6,
  holder <- v7, call <- v8, samples <- v9, shown <- v10

(* What the proofs assume of the constants.                                *)
ASSUME PartsAssumption ==
  /\ Sh!ShellAssumption /\ So!OutputAssumption /\ Su!SudoAssumption /\ Delays \subseteq Nat
  /\ Sv!ServiceAssumption

-----------------------------------------------------------------------------
AnyInit ==
  /\ Init
  /\ \/ /\ area = "runs" /\ v1 = Unused /\ v2 = Unused /\ v3 = Unused /\ v4 = Unused
        /\ v5 = Unused /\ v6 = Unused /\ v7 = Unused /\ v8 = Unused /\ v9 = Unused /\ v10 = Unused
     \/ area = "shells" /\ Sh!Init
     \/ area = "output" /\ So!Init
     \/ area = "sudo" /\ Su!Init /\ v9 = Unused /\ v10 = Unused
     \/ area = "power" /\ Po!Init /\ v7 = Unused /\ v8 = Unused /\ v9 = Unused /\ v10 = Unused
     \/ area = "services" /\ Sv!Init /\ v8 = Unused /\ v9 = Unused /\ v10 = Unused
     \/ area = "metrics" /\ Me!Init

AnyNext ==
  /\ UNCHANGED area
  /\ \/ area = "runs" /\ Next /\ UNCHANGED Lent
     \/ /\ UNCHANGED vars
        /\ \/ area = "shells" /\ Sh!Next
           \/ area = "output" /\ So!Next
           \/ area = "sudo" /\ Su!Next /\ UNCHANGED <<v9, v10>>
           \/ area = "power" /\ Po!Next /\ UNCHANGED <<v7, v8, v9, v10>>
           \/ area = "services" /\ Sv!Next /\ UNCHANGED <<v8, v9, v10>>
           \/ area = "metrics" /\ Me!Next

AnySpec == AnyInit /\ [][AnyNext]_<<vars, area, Lent>>

-----------------------------------------------------------------------------
(* commands.rs:488: two opens at once never leave a session with more      *)
(* shells than it may have (open_shell).                                   *)
CapHolds == area = "shells" => Sh!TypeOK /\ Sh!CapHolds

(* shell.rs:147: what a program writes is shown once and in order, however *)
(* its bytes are cut into packets and batches (Decoder, open).             *)
TextIsKept == area = "output" => So!TypeOK /\ So!TextIsKept

(* A session keeps a sudo password only if its host accepted it            *)
(* (resolve_sudo_password, LiveSession).                                   *)
KeptWasAccepted == area = "sudo" => Su!TypeOK /\ Su!KeptWasAccepted

(* What is reported done is done: the machine is about to do what a power  *)
(* command asked, when it asked for it, and a list would show a service as *)
(* its command asked; and no service is shown with another's state or      *)
(* events (plan, interpret, plan_action, interpret_action, parse_list).    *)
AsAsked ==
  /\ area = "power" => Po!AsAsked
  /\ area = "services" => Sv!ShowsAsDone /\ Sv!EachItsOwn

(* A sample is made of what was read for it (windows_sample).              *)
AnswersItsOwn == area = "metrics" => Me!AnswersItsOwn

(* No device is said to have moved more than it did (network_rate).        *)
NeverMoreThanCarried == area = "metrics" => Me!NeverMoreThanCarried
=============================================================================

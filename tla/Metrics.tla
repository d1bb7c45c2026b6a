------------------------------- MODULE Metrics -------------------------------
(***************************************************************************)
(* The metrics of a connected host: sample and its parsers                 *)
(* (remote/metrics.rs), and the readings a session keeps between two       *)
(* samples (prev_readings, windows_sampler in remote/registry.rs).         *)
(*                                                                         *)
(* A host is asked for counters that only grow, until the device they      *)
(* belong to is re-created.  A Unix host is asked by one exec per sample,  *)
(* several of which may be under way; a Windows host by one line written   *)
(* to a PowerShell that is kept running, under a lock.                     *)
(*                                                                         *)
(* Abstracted: the text of the answers (a section is there or it is not),  *)
(* received and sent, read and written bytes (one count per device), what  *)
(* is shown without being kept (memory, load, uptime, disk sizes), and the *)
(* division by the elapsed time: a rate is [moved, elapsed].  Readings of  *)
(* the host carry ghosts: the request they answer, and what every device   *)
(* had carried by then.                                                    *)
(***************************************************************************)
EXTENDS Integers, Sequences, FiniteSets, Functions, FiniteSetsExt

CONSTANTS
  Calls,        \* calls of sample that may run at once
  Platforms,     \* what the host may run
  Interfaces, Virtual, Ignored,   \* network devices; is_virtual_, is_ignored_interface
  Disks,
  Parts,        \* bound: the sections an answer may come with
  MaxTime, MaxWork, MaxSamples    \* bounds: the clock, what the host does, samples

VARIABLES
  family,    \* what the host runs
  now,       \* the clock of this machine, sampled_at_ms
  host,      \* [cpu, count, carried]: its counters, and all they ever counted
  work,      \* how often the host did something
  previous,  \* LiveSession.prev_readings
  slot,      \* LiveSession.windows_sampler: <<>> or <<[asked, answers]>>
  holder,    \* the calls that have the lock on slot: at most one
  call,      \* call -> [stage, id]
  samples,   \* samples asked for so far
  shown      \* the last HostMetrics, or <<>>

vars == <<family, now, host, work, previous, slot, holder, call, samples, shown>>

Devices == Interfaces \cup Disks
Sections == {"cpu", "net", "disk"}

Idle == [stage |-> "idle", id |-> 0, answer |-> <<>>]

-----------------------------------------------------------------------------
(* The readers.  An answer is [cpu, count, ...] with the sections in it.   *)

(* parse_proc_stat, windows_cpu; the other families have none.             *)
CpuTimes(answer) ==
  IF "cpu" \in answer.with /\ family \in {"linux", "windows"} THEN <<answer.cpu>> ELSE <<>>

(* push_interface, push_device: what never carried a byte is left out, and *)
(* so are loopback and the ends of containers.                             *)
Listed(answer, devices) == {d \in devices \ Ignored : answer.count[d] > 0}

Counters(answer, section, devices) ==
  IF section \in answer.with /\ Listed(answer, devices) # {}
    THEN <<[at |-> now, answer |-> answer, count |-> Restrict(answer.count, Listed(answer, devices))]>>
    ELSE <<>>

NetCounters(answer) == Counters(answer, "net", Interfaces)
DiskCounters(answer) == Counters(answer, "disk", Disks)

Readings(answer) ==
  [cpu |-> CpuTimes(answer), net |-> NetCounters(answer), disk |-> DiskCounters(answer)]

NoReadings == [cpu |-> <<>>, net |-> <<>>, disk |-> <<>>]

-----------------------------------------------------------------------------
(* The rates.                                                              *)

(* cpu_percent: none when the counters went back.                          *)
CpuPercent(before, after) ==
  IF after.total <= before.total \/ after.busy < before.busy THEN <<>>
  ELSE <<[busy |-> after.busy - before.busy, total |-> after.total - before.total]>>

(* Mutant of Grown: one that was re-created is not left out.               *)
GrownAny(before, after) == DOMAIN before.count \cap DOMAIN after.count

(* The devices in both readings whose count did not go back.               *)
Grown(before, after) ==
  {d \in DOMAIN before.count \cap DOMAIN after.count : after.count[d] >= before.count[d]}

Rates(before, after, Summed(_)) ==
  LET moved == [d \in Grown(before, after) |-> after.count[d] - before.count[d]]
      elapsed == after.at - before.at
  IN  IF elapsed <= 0 \/ DOMAIN moved = {} THEN <<>>
      ELSE <<[elapsed |-> elapsed, moved |-> moved,
              total |-> FoldFunctionOnSet(LAMBDA a, b : a + b, 0, moved, Summed(DOMAIN moved)),
              from |-> before.answer, to |-> after.answer]>>

(* network_rate: a virtual interface relays what a real one counts too.    *)
NetworkRate(before, after) == Rates(before, after, LAMBDA on : on \ Virtual)

(* disk_io_rate.                                                           *)
DiskIoRate(before, after) == Rates(before, after, LAMBDA on : on)

(* network_between, disk_io_between.                                       *)
Between(before, after, Rate(_, _)) ==
  IF before = <<>> \/ after = <<>> THEN <<>> ELSE Rate(before[1], after[1])

(* parse_linux, parse_unix_fallback, parse_windows: the same three lines.  *)
HostMetrics(current) ==
  [cpu |-> Between(previous.cpu, current.cpu, CpuPercent),
   net |-> Between(previous.net, current.net, NetworkRate),
   disk |-> Between(previous.disk, current.disk, DiskIoRate)]

(* A failed read keeps the older reading.                                  *)
Keep(current) ==
  [s \in Sections |-> IF current[s] # <<>> THEN current[s] ELSE previous[s]]

-----------------------------------------------------------------------------
(* sample.                                                                 *)
Answer(id, with) ==
  [of |-> id, with |-> with, cpu |-> host.cpu, count |-> host.count, carried |-> host.carried]

Ask(c) ==
  /\ call[c] = Idle /\ samples < MaxSamples /\ family # "unknown"
  /\ family # "windows" \/ holder = {}
  /\ samples' = samples + 1
  /\ call' = [call EXCEPT ![c] = [stage |-> "asked", id |-> samples + 1, answer |-> <<>>]]
  /\ holder' = IF family = "windows" THEN {c} ELSE holder
  /\ slot' = IF family # "windows" THEN slot
             ELSE IF slot = <<>> THEN <<[asked |-> <<samples + 1>>, answers |-> <<>>]>>
             ELSE <<[slot[1] EXCEPT !.asked = Append(@, samples + 1)]>>
  /\ UNCHANGED <<family, now, host, work, previous, shown>>

(* A Unix host runs the command at some moment, and may leave parts out.   *)
HostRuns(c, with) ==
  /\ call[c].stage = "asked" /\ family # "windows"
  /\ call' = [call EXCEPT ![c].stage = "answered", ![c].answer = <<Answer(call[c].id, with)>>]
  /\ UNCHANGED <<family, now, host, work, previous, slot, holder, samples, shown>>

(* The PowerShell answers one line with one line, in order.                *)
SamplerAnswers(with) ==
  /\ slot # <<>> /\ slot[1].asked # <<>>
  /\ slot' = <<[asked |-> Tail(slot[1].asked),
                answers |-> Append(slot[1].answers, Answer(Head(slot[1].asked), with))]>>
  /\ UNCHANGED <<family, now, host, work, previous, holder, call, samples, shown>>

(* WindowsSampler::next: the first whole line.                             *)
TakeLine(c) ==
  /\ call[c].stage = "asked" /\ c \in holder /\ slot[1].answers # <<>>
  /\ call' = [call EXCEPT ![c].stage = "answered", ![c].answer = <<Head(slot[1].answers)>>]
  /\ slot' = <<[slot[1] EXCEPT !.answers = Tail(@)]>>
  /\ holder' = {}
  /\ UNCHANGED <<family, now, host, work, previous, samples, shown>>

(* The command, or the PowerShell, fails or takes too long.                *)
Dropped == <<>>
(* Mutant of AskFails: the sampler that was too slow is kept.              *)
AskFailsKept(c) ==
  /\ call[c].stage = "asked"
  /\ call' = [call EXCEPT ![c] = Idle]
  /\ holder' = holder \ {c}
  /\ UNCHANGED <<family, now, host, work, previous, slot, samples, shown>>

AskFails(c) ==
  /\ call[c].stage = "asked"
  /\ call' = [call EXCEPT ![c] = Idle]
  /\ slot' = IF c \in holder THEN Dropped ELSE slot
  /\ holder' = holder \ {c}
  /\ UNCHANGED <<family, now, host, work, previous, samples, shown>>

(* The rest of sample, with no wait in it.                                 *)
Take(c) ==
  /\ call[c].stage = "answered"
  /\ LET current == Readings(call[c].answer[1]) IN
       /\ shown' = <<[of |-> call[c].id, answer |-> call[c].answer[1], rates |-> HostMetrics(current)]>>
       /\ previous' = Keep(current)
  /\ call' = [call EXCEPT ![c] = Idle]
  /\ UNCHANGED <<family, now, host, work, slot, holder, samples>>

-----------------------------------------------------------------------------
(* The host, and time.                                                     *)
Counts(d) ==
  host' = [host EXCEPT !.count[d] = @ + 1, !.carried[d] = @ + 1]

Works(busy) ==
  host' = [host EXCEPT !.cpu = [busy |-> @.busy + busy, total |-> @.total + 1]]

(* An interface or a disk is taken away and comes back.                    *)
Recreated(d) == host.count[d] > 0 /\ host' = [host EXCEPT !.count[d] = 0]

HostSteps ==
  /\ work < MaxWork /\ work' = work + 1
  /\ \/ \E d \in Devices : Counts(d) \/ Recreated(d)
     \/ \E busy \in {0, 1} : Works(busy)
  /\ UNCHANGED <<family, now, previous, slot, holder, call, samples, shown>>

(* The clock of this machine, which may also be set back.                  *)
Tick ==
  /\ now' \in 0 .. MaxTime /\ now' # now
  /\ now' \in {now + 1, now - 1}
  /\ UNCHANGED <<family, host, work, previous, slot, holder, call, samples, shown>>

Init ==
  /\ family \in Platforms
  /\ now = 0
  /\ host = [cpu |-> [busy |-> 0, total |-> 0], count |-> [d \in Devices |-> 0],
             carried |-> [d \in Devices |-> 0]]
  /\ work = 0
  /\ previous = NoReadings
  /\ slot = <<>>
  /\ holder = {}
  /\ call = [c \in Calls |-> Idle]
  /\ samples = 0
  /\ shown = <<>>

Next ==
  \/ \E c \in Calls :
       Ask(c) \/ TakeLine(c) \/ AskFails(c) \/ Take(c) \/ \E with \in Parts : HostRuns(c, with)
  \/ \E with \in Parts : SamplerAnswers(with)
  \/ HostSteps \/ Tick

Spec == Init /\ [][Next]_vars

-----------------------------------------------------------------------------
(* metrics.rs:251: "a late answer can never be read as the reply to a      *)
(* later request".  What a sample is made of was read for that sample.     *)
AnswersItsOwn == shown # <<>> => shown[1].answer.of = shown[1].of

InOrder(r) == \A d \in Devices : r.from.carried[d] <= r.to.carried[d]

(* metrics.rs:391: an interface "whose counter shrank (reboot, re-created  *)
(* device), sits this sample out".  Of two readings made in this order, no *)
(* device is said to have moved more than it carried between them, nor     *)
(* less than nothing; and the time they are spread over has passed.        *)
NeverMoreThanCarried ==
  shown # <<>> => \A s \in {"net", "disk"} : \A r \in Range(shown[1].rates[s]) :
    /\ r.elapsed > 0
    /\ InOrder(r) => \A d \in DOMAIN r.moved :
         0 <= r.moved[d] /\ r.moved[d] <= r.to.carried[d] - r.from.carried[d]
=============================================================================

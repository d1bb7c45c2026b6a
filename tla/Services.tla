------------------------------- MODULE Services -------------------------------
(***************************************************************************)
(* The services of a host: which manager drives them, how its list and its *)
(* event log are read, what a start, stop or restart runs and what its end *)
(* is taken for (remote/services.rs), with list_services, service_action   *)
(* and service_log (remote/commands.rs).  The host's own people, or a      *)
(* crash, may change a service before and between the steps of a command.  *)
(*                                                                         *)
(* A service is up, down, failed, changing or exited (one that has done    *)
(* its work: systemd's); the scripts in mute have no status to tell.       *)
(* Abstracted: the text of a line, which is what its reader looks for in   *)
(* it, what an error says, how the command is wrapped in sudo, and how the *)
(* password is come by (module Sudo).                                      *)
(***************************************************************************)
EXTENDS Naturals, Sequences, FiniteSets, SequencesExt

CONSTANTS
  Hosts,       \* [os, init, elevation, state : unit -> state, mute, events]
  Odd,         \* names asked for that no service has
  MaxTurns     \* bound: times somebody else changes a service

VARIABLES
  host,
  request,     \* [action, unit]
  rest,        \* <<>> before the command is sent, then <<what is left of it>>
  outcome,     \* "none", "refused", "done" or "failed"
  left,        \* the services when the command ended
  log,         \* <<>> or <<the lines of service_log>>
  turns

vars == <<host, request, rest, outcome, left, log, turns>>

-----------------------------------------------------------------------------
(* What is in S of a sequence, in its order.                               *)
Only(S, seq) == FoldLeft(LAMBDA kept, x : IF x \in S THEN Append(kept, x) ELSE kept, <<>>, seq)

(* ServiceManager::for_host, "none" where it explains why there is none.   *)
Manager(h) ==
  CASE h.os = "windows" -> "scm"
    [] h.os = "linux" /\ h.init \in {"systemd", "openrc", "sysv"} -> h.init
    [] OTHER -> "none"

LogsToSyslog(manager) == manager \in {"openrc", "sysv"}

(* The lists.  What a manager says of one service is a line, or for sc a   *)
(* block of lines that starts with its name.                               *)
Entry(name, state) == [name |-> name, state |-> state]

ParseSystemctl(lines) ==
  LET units == Only({l \in ToSet(lines) : l.name # "footer"}, lines)
      State(l) == CASE "failed" \in {l.active, l.sub} -> "failed"
                    [] l.active = "active" /\ l.sub = "running" -> "running"
                    [] l.active = "inactive" /\ l.sub # "failed" -> "stopped"
                    [] OTHER -> "other"
  IN  [i \in DOMAIN units |-> Entry(units[i].name, State(units[i]))]

ParseRcStatus(lines) ==
  LET State(l) == CASE l.word = "started" -> "running" [] l.word = "stopped" -> "stopped"
                    [] l.word = "crashed" -> "failed" [] OTHER -> "other"
  IN  [i \in DOMAIN lines |-> Entry(lines[i].name, State(lines[i]))]

ParseStatusAll(lines) ==
  LET State(l) == CASE l.mark = "+" -> "running" [] l.mark = "-" -> "stopped" [] OTHER -> "other"
  IN  [i \in DOMAIN lines |-> Entry(lines[i].name, State(lines[i]))]

(* parse_sc_query: the block under way is flushed when the next name comes,*)
(* and at the end.                                                         *)
Flush(read) == IF read.name = "" THEN read.entries
               ELSE Append(read.entries, Entry(read.name, read.state))

ScLine(read, line) ==
  CASE line.key = "SERVICE_NAME" ->
         [entries |-> Flush(read), name |-> line.value, state |-> "other"]
    [] line.key = "STATE" ->
         [read EXCEPT !.state = CASE line.value = "RUNNING" -> "running"
                                  [] line.value = "STOPPED" -> "stopped" [] OTHER -> "other"]
    [] OTHER -> read

ParseScQuery(lines) ==
  Flush(FoldLeft(ScLine, [entries |-> <<>>, name |-> "", state |-> "other"], lines))

ParseList(manager, lines) ==
  CASE manager = "systemd" -> ParseSystemctl(lines)
    [] manager = "openrc" -> ParseRcStatus(lines)
    [] manager = "sysv" -> ParseStatusAll(lines)
    [] OTHER -> ParseScQuery(lines)

(* What the managers print of a service, and of all of them.               *)
Lines(manager, unit, state, mute) ==
  CASE manager = "systemd" ->
         << [name |-> unit,
             active |-> CASE state \in {"up", "exited"} -> "active" [] state = "down" -> "inactive"
                          [] state = "failed" -> "failed" [] OTHER -> "activating",
             sub |-> CASE state = "up" -> "running" [] state = "exited" -> "exited"
                       [] state = "failed" -> "failed" [] OTHER -> "dead"] >>
    [] manager = "openrc" ->
         << [name |-> unit, word |-> CASE state = "up" -> "started" [] state = "down" -> "stopped"
                                       [] state = "failed" -> "crashed" [] OTHER -> "starting"] >>
    [] manager = "sysv" ->
         << [name |-> unit, mark |-> CASE unit \in mute -> "?" [] unit \notin mute /\ state = "up" -> "+"
                                       [] OTHER -> "-"] >>
    [] OTHER ->
         << [key |-> "SERVICE_NAME", value |-> unit], [key |-> "DISPLAY_NAME", value |-> unit] >>
         \o IF state = "changing" THEN <<>>   \* a block cut off, or of another kind
            ELSE << [key |-> "STATE", value |-> IF state = "up" THEN "RUNNING" ELSE "STOPPED"] >>

Printed(manager, states, mute) ==
  FlattenSeq([i \in 1 .. Cardinality(DOMAIN states) |->
    LET unit == SetToSeq(DOMAIN states)[i] IN Lines(manager, unit, states[unit], mute)])

-----------------------------------------------------------------------------
(* validate_unit.                                                          *)
Valid(manager, unit) ==
  /\ unit \notin {"", "a\nb"}
  /\ LogsToSyslog(manager) => unit \notin {"-x", "a/b"}
  /\ manager = "scm" => unit # "a$(b)"

(* plan_action: what is run, one command after another as long as they     *)
(* succeed.  For Windows a restart is two.                                 *)
Commands(manager, action) ==
  IF manager = "scm" /\ action = "restart" THEN <<"stop", "start">> ELSE <<action>>

(* service_action: the plan, the password, and the command is sent.        *)
Begin(password) ==
  /\ rest = <<>> /\ outcome = "none"
  /\ LET manager == Manager(host) IN
     IF \/ manager = "none" \/ host.elevation = "unavailable"
        \/ ~Valid(manager, request.unit)
        \/ host.elevation = "password" /\ ~password
     THEN outcome' = "refused" /\ UNCHANGED rest
     ELSE rest' = <<Commands(manager, request.action)>> /\ UNCHANGED outcome
  /\ UNCHANGED <<host, request, left, log, turns>>

(* interpret_action: exit 0 and nothing else is success.                   *)
Interpret(exit) == IF exit = 0 THEN "done" ELSE "failed"

Ends(exit, states) == outcome' = Interpret(exit) /\ left' = states /\ rest' = <<<<>>>>

(* The host carries out the next command.  net refuses to start what runs  *)
(* and to stop what does not; the others have nothing to do then.          *)
HostRuns ==
  /\ rest # <<>> /\ rest[1] # <<>> /\ outcome = "none"
  /\ LET unit == request.unit
         verb == rest[1][1]
         more == Tail(rest[1])
         Leave(state) == host' = [host EXCEPT !.state[unit] = state]
     IN  \/ /\ Ends(1, host.state) /\ UNCHANGED host
         \/ /\ unit \in DOMAIN host.state
            /\ Manager(host) = "scm" => (verb = "stop") = (host.state[unit] = "up")
            /\ \/ verb = "stop" /\ Leave("down")
               \/ verb # "stop" /\ Leave("up")
               \/ verb # "stop" /\ Manager(host) = "systemd" /\ Leave("exited")
            /\ IF more = <<>> THEN Ends(0, host'.state)
               ELSE rest' = <<more>> /\ UNCHANGED <<outcome, left>>
  /\ UNCHANGED <<request, log, turns>>

(* Somebody else, or a crash.                                              *)
Turn(unit, state) ==
  /\ turns < MaxTurns /\ turns' = turns + 1
  /\ host' = [host EXCEPT !.state[unit] = state]
  /\ UNCHANGED <<request, rest, outcome, left, log>>

-----------------------------------------------------------------------------
(* parse_wevtutil: an event is its date, its id and its description, which *)
(* goes on over lines until a field label or the next event.               *)
Push(read) == IF read.event = <<>> THEN read.events ELSE Append(read.events, read.event[1])

LogLine(read, line) ==
  CASE line.key = "Event" ->
         [events |-> Push(read), inside |-> FALSE, event |-> <<[date |-> "", id |-> "", text |-> <<>>]>>]
    [] line.key # "Event" /\ read.event = <<>> -> read
    [] OTHER ->
         CASE line.key = "Date" -> [read EXCEPT !.event[1].date = line.value, !.inside = FALSE]
           [] line.key = "Event ID" -> [read EXCEPT !.event[1].id = line.value, !.inside = FALSE]
           [] line.key = "Description" ->
                [read EXCEPT !.inside = TRUE,
                             !.event[1].text = IF line.value = "" THEN @ ELSE Append(@, line.value)]
           [] line.key = "text" /\ read.inside /\ line.value # "" ->
                [read EXCEPT !.event[1].text = Append(@, line.value)]
           [] line.key = "field" /\ read.inside -> [read EXCEPT !.inside = FALSE]
           [] OTHER -> read

Mentions(event, filter) == Contains(event.text, filter)

ParseWevtutil(lines, filter) ==
  LET events == Push(FoldLeft(LogLine, [events |-> <<>>, inside |-> FALSE, event |-> <<>>], lines))
  IN  Only({e \in ToSet(events) : Mentions(e, filter)}, events)

(* What wevtutil prints of one event.                                      *)
Line(key, value) == [key |-> key, value |-> value]
Block(event) ==
  <<Line("Event", ""), Line("field", ""), Line("Date", event.date), Line("Event ID", event.id),
    Line("field", "")>>
  \o (IF event.spills THEN <<Line("Description", ""), Line("text", event.text[1]), Line("text", "")>>
      ELSE <<Line("Description", event.text[1])>>)
  \o [i \in 1 .. Len(event.text) - 1 |-> Line("text", event.text[i + 1])]

(* service_log with parse_log: on Windows the events that name the         *)
(* service, elsewhere the lines the manager or syslog has for it.          *)
ServiceLog ==
  /\ log = <<>>
  /\ LET manager == Manager(host) IN
     /\ manager # "none" /\ Valid(manager, request.unit)
     /\ log' = IF manager = "scm"
               THEN <<ParseWevtutil(FlattenSeq([i \in DOMAIN host.events |-> Block(host.events[i])]),
                                    request.unit)>>
               ELSE <<host.events>>
  /\ UNCHANGED <<host, request, rest, outcome, left, turns>>

-----------------------------------------------------------------------------
(* What is assumed of the hosts: their services have names, and an event   *)
(* says something on each of its lines.                                    *)
ServiceAssumption ==
  \A h \in Hosts :
    /\ h = [os |-> h.os, init |-> h.init, elevation |-> h.elevation, state |-> h.state,
            mute |-> h.mute, events |-> h.events]
    /\ IsFiniteSet(DOMAIN h.state)
    /\ \A unit \in DOMAIN h.state : unit \in STRING /\ unit \notin {"", "footer"}
    /\ h.state \in [DOMAIN h.state -> {"up", "down", "failed", "exited", "changing"}]
    /\ Manager(h) = "scm" =>
         /\ h.events \in Seq([date : STRING, id : STRING, text : Seq(STRING), spills : BOOLEAN])
         /\ \A i \in DOMAIN h.events : /\ h.events[i].text # <<>>
                                       /\ "" \notin ToSet(h.events[i].text)

Init ==
  /\ host \in Hosts
  /\ request \in [action : {"start", "stop", "restart"}, unit : DOMAIN host.state \cup Odd]
  /\ rest = <<>> /\ outcome = "none" /\ left = host.state /\ log = <<>> /\ turns = 0

Next ==
  \/ \E password \in BOOLEAN : Begin(password)
  \/ HostRuns \/ ServiceLog
  \/ \E unit \in DOMAIN host.state : \E state \in {"up", "down", "failed"} : Turn(unit, state)

Spec == Init /\ [][Next]_vars

-----------------------------------------------------------------------------
(* services.rs:419: net waits for the transition, "so its exit status      *)
(* means something".  Where a start, a stop or a restart was reported done,*)
(* a list read at that moment, whoever the manager is and whatever the     *)
(* other services are, would have shown the service as not stopped, or as  *)
(* not running.                                                            *)
ShowsAsDone ==
  LET manager == Manager(host)
      entries == ParseList(manager, Printed(manager, left, host.mute))
  IN  outcome = "done" =>
        \E i \in DOMAIN entries :
          /\ entries[i].name = request.unit
          /\ entries[i].state \notin IF request.action = "stop" THEN {"running"}
                                     ELSE {"stopped", "failed"}

(* services.rs:289, :562: no block of a list and no event of the log is    *)
(* read into its neighbour: the list has every service with the state that *)
(* its own lines give, the log every event that names the service, whole.  *)
EachItsOwn ==
  LET manager == Manager(host)
      entries == ParseList(manager, Printed(manager, host.state, host.mute))
  IN  /\ manager # "none" =>
           /\ Len(entries) = Cardinality(DOMAIN host.state)
           /\ \A unit \in DOMAIN host.state :
                ParseList(manager, Lines(manager, unit, host.state[unit], host.mute))[1] \in ToSet(entries)
      /\ manager = "scm" /\ log # <<>> =>
           LET own == {i \in DOMAIN host.events : Mentions(host.events[i], request.unit)} IN
           /\ Len(log[1]) = Cardinality(own)
           /\ \A i \in own :
                log[1][Cardinality({j \in own : j <= i})] =
                  [date |-> host.events[i].date, id |-> host.events[i].id,
                   text |-> host.events[i].text]
=============================================================================

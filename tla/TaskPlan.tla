------------------------------- MODULE TaskPlan -------------------------------
(***************************************************************************)
(* What a host is offered to run and what a press would run: the built-in  *)
(* tasks (tasks/catalog.rs), the saved ones with their scope and families  *)
(* (tasks/model.rs, tasks/store.rs), the plan of one press (plan), and the *)
(* decisions of list_host_tasks, save_task, plan_task and start_task       *)
(* (tasks/commands.rs) before anything is sent to the host.                *)
(*                                                                         *)
(* A saved task is [id, owner ("everywhere", or a host), families, text,   *)
(* elevated]; a built-in is [id, on (family -> text, or <<>>), elevated].  *)
(* The files and the stream are other modules' (SettingsFiles, TaskRuns).  *)
(***************************************************************************)
EXTENDS Danger

-----------------------------------------------------------------------------
(* command_for: BSD takes the portable phrasing, an unknown host nothing.  *)
CommandFor(builtin, os) ==
  CASE os = "bsd" -> builtin.on["macos"]
    [] os = "unknown" -> <<>>
    [] OTHER -> builtin.on[os]

ForOs(catalog, os) == {b \in catalog : CommandFor(b, os) # <<>>}

AppliesTo(task, host) == task.owner \in {"everywhere", host}
Supports(task, os) == task.families = {} \/ os \in task.families

(* for_host: which of the saved ones, whatever their order on the screen.  *)
ForHost(saved, host, os) ==
  {saved[i] : i \in {j \in DOMAIN saved : AppliesTo(saved[j], host) /\ Supports(saved[j], os)}}

(* list_host_tasks.                                                        *)
Offered(catalog, saved, host, os) ==
  {b.id : b \in ForOs(catalog, os)}
    \cup {t.id : t \in ForHost(saved, host, os)}

-----------------------------------------------------------------------------
Refusal(why) == [ok |-> FALSE, why |-> why, text |-> <<>>, elevated |-> FALSE]

(* resolve, with find: a built-in of this family is looked up first.       *)
Resolve(catalog, saved, host, id, os) ==
  LET builtin == {b \in ForOs(catalog, os) : b.id = id}
      found == {i \in DOMAIN saved : saved[i].id = id}
      task == saved[CHOOSE i \in found : \A j \in found : i <= j]
  IN  CASE builtin # {} -> LET b == CHOOSE b \in builtin : TRUE IN
             [ok |-> TRUE, why |-> "", text |-> CommandFor(b, os), elevated |-> b.elevated]
        [] builtin = {} /\ found = {} -> Refusal("no longer exists")
        [] OTHER ->
             CASE ~AppliesTo(task, host) -> Refusal("belongs to a different host")
               [] AppliesTo(task, host) /\ ~Supports(task, os) -> Refusal("not for this system")
               [] OTHER -> [ok |-> TRUE, why |-> "", text |-> task.text,
                            elevated |-> task.elevated]

-----------------------------------------------------------------------------
(* An elevation is "not needed", "admin token", "no password", "password"  *)
(* or "unavailable".  A plan is what is sent, in which wrapping, and says  *)
(* whether it is elevated.                                                 *)
NoPlan(why) == [ok |-> FALSE, why |-> why, wrap |-> "none", elevated |-> FALSE,
                needsPassword |-> FALSE]
Shell(os) == IF os = "windows" THEN "powershell" ELSE "none"

(* Mutant of Plan: a session without a route runs it without.              *)
PlanDowngrades(os, elevation, text, elevated) ==
  CASE text = <<>> -> NoPlan("no command")
    [] text # <<>> /\ ~elevated -> [NoPlan("") EXCEPT !.ok = TRUE, !.wrap = Shell(os)]
    [] OTHER ->
         CASE elevation \in {"not needed", "admin token", "unavailable"} ->
                [NoPlan("") EXCEPT !.ok = TRUE, !.wrap = Shell(os), !.elevated = TRUE]
           [] ~IsUnix(os) -> NoPlan("sudo is a Unix route")
           [] OTHER -> [ok |-> TRUE, why |-> "", wrap |-> "sudo", elevated |-> TRUE,
                        needsPassword |-> elevation = "password"]

(* plan.  The rating is of the text as it is written.                      *)
Plan(os, elevation, text, elevated) ==
  CASE text = <<>> -> NoPlan("no command")
    [] text # <<>> /\ ~elevated -> [NoPlan("") EXCEPT !.ok = TRUE, !.wrap = Shell(os)]
    [] OTHER ->
         CASE elevation = "unavailable" -> NoPlan("no route")
           [] elevation \in {"not needed", "admin token"} ->
                [NoPlan("") EXCEPT !.ok = TRUE, !.wrap = Shell(os), !.elevated = TRUE]
           [] elevation \in {"no password", "password"} /\ ~IsUnix(os) ->
                NoPlan("sudo is a Unix route")
           [] OTHER -> [ok |-> TRUE, why |-> "", wrap |-> "sudo", elevated |-> TRUE,
                        needsPassword |-> elevation = "password"]

(* What is asked of one press: elevated as the task says, or overridden.   *)
Wants(found, asked) == IF asked = "default" THEN found.elevated ELSE asked = "yes"

(* start_task, up to the stream: the plan is built again, then the         *)
(* setting is asked, then the password.                                    *)
Start(catalog, saved, host, id, os, elevation, asked, blockFrom) ==
  LET found == Resolve(catalog, saved, host, id, os)
      plan == Plan(os, elevation, found.text, Wants(found, asked))
  IN  CASE ~found.ok -> [plan EXCEPT !.ok = FALSE, !.why = found.why]
        [] found.ok /\ ~plan.ok -> plan
        [] OTHER -> IF Refused(Reasons(os, found.text), blockFrom)
                    THEN [plan EXCEPT !.ok = FALSE, !.why = "blocked"] ELSE plan

(* save_task with a host's family, or "unknown" where none is in context.  *)
Saves(os, draft, blockFrom) ==
  ~Refused(Reasons(os, draft.text), blockFrom) /\ draft.text # <<>>

-----------------------------------------------------------------------------
(* tasks/commands.rs:283: "a stale window holding a task id must not be    *)
(* able to run it against a host it was never for".  What the list of a    *)
(* connected host offers is what can be resolved there, and nothing else:  *)
(* the filter of the list and the refusals of a start agree.               *)
OfferedIsResolved(catalog, saved, host, os) ==
  \A id \in {b.id : b \in catalog} \cup {saved[i].id : i \in DOMAIN saved} :
    id \in Offered(catalog, saved, host, os) <=> Resolve(catalog, saved, host, id, os).ok

(* model.rs:234: "a task that says it runs as root and then does not is    *)
(* the failure mode this app avoids".  A press that goes through as        *)
(* elevated runs as root, one that goes through as not elevated is given   *)
(* no way to root; and a task that was saved with no host in context is    *)
(* not blocked on any host under the same setting.                         *)
RunsAsRoot(elevation, plan) ==
  plan.wrap = "sudo" \/ elevation \in {"not needed", "admin token"}

StartsAsSaid(catalog, saved, host, os, elevation, asked, blockFrom) ==
  \A i \in DOMAIN saved :
    LET task == saved[i]
        started == Start(catalog, saved, host, task.id, os, elevation, asked, blockFrom)
    IN  /\ started.ok /\ started.elevated => RunsAsRoot(elevation, started)
        /\ started.ok /\ ~started.elevated => started.wrap # "sudo"
        /\ Saves("unknown", task, blockFrom) => started.why # "blocked"
=============================================================================

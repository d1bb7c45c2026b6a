-------------------------------- MODULE Sudo ---------------------------------
(***************************************************************************)
(* The password of an elevated action: resolve_sudo_password with          *)
(* verify_sudo_password, has_kept_sudo_password and forget_sudo_password   *)
(* (remote/commands.rs), the two passwords a session holds                 *)
(* (remote/registry.rs) and the order they are taken in (pick_sudo_password*)
(* in remote/power.rs).                                                    *)
(*                                                                         *)
(* A typed password is checked by the host while the session it was typed  *)
(* for may be disconnected, and the host be connected again as another     *)
(* account.                                                                *)
(***************************************************************************)
EXTENDS Naturals

CONSTANTS
  Calls,
  Passwords, None,
  MaxSessions    \* bound: sessions of the host

(* What the proofs assume of the constants.                                *)
SudoAssumption == Passwords # {} /\ MaxSessions \in Nat

VARIABLES
  live,     \* the session in the registry, or 0
  made,     \* sessions made
  right,    \* session -> the password of its account
  login,    \* session -> the password it logged in with, or None
  kept,     \* session -> the sudo password it keeps, or None
  vault,    \* the password remembered for the host, or None
  call,     \* call -> [step, on, typed]
  sent      \* call -> the password resolved, [on, password], or <<>>

vars == <<live, made, right, login, kept, vault, call, sent>>

All == 1 .. MaxSessions
Idle == [step |-> "idle", on |-> 0, typed |-> None]

TypeOK ==
  /\ live \in 0 .. made /\ made \in 0 .. MaxSessions
  /\ right \in [All -> Passwords] /\ login \in [All -> Passwords \cup {None}]
  /\ kept \in [All -> Passwords \cup {None}] /\ vault \in Passwords \cup {None}
  /\ call \in [Calls -> [step : {"idle", "checking"}, on : 0 .. MaxSessions,
                         typed : Passwords \cup {None}]]

(* A connect with a password, which is then the session's login password,  *)
(* or with a key.  The vault may hold one, right or not.                   *)
Connect(byPassword) ==
  /\ made < MaxSessions
  /\ made' = made + 1 /\ live' = made + 1
  /\ \E p \in Passwords :
       /\ right' = [right EXCEPT ![made + 1] = p]
       /\ login' = [login EXCEPT ![made + 1] = IF byPassword THEN p ELSE None]
  /\ vault' \in Passwords \cup {None}
  /\ UNCHANGED <<kept, call, sent>>

Disconnect ==
  /\ live # 0 /\ live' = 0
  /\ UNCHANGED <<made, right, login, kept, vault, call, sent>>

PickSudoPassword(typed, s) ==
  CASE typed # None -> typed
    [] typed = None /\ kept[s] # None -> kept[s]
    [] typed = None /\ kept[s] = None /\ login[s] # None -> login[s]
    [] OTHER -> vault

(* The session is looked up once; with nothing typed there is no check.    *)
Resolve(c) ==
  /\ call[c] = Idle /\ live # 0
  /\ sent' = [sent EXCEPT ![c] = <<live, PickSudoPassword(None, live)>>]
  /\ UNCHANGED <<live, made, right, login, kept, vault, call>>

Check(c, typed) ==
  /\ call[c] = Idle /\ live # 0
  /\ call' = [call EXCEPT ![c] = [step |-> "checking", on |-> live, typed |-> typed]]
  /\ UNCHANGED <<live, made, right, login, kept, vault, sent>>

(* Mutant of KeptBy: the host is looked up again for the session.          *)
KeptByLive(c) == IF live # 0 THEN live ELSE call[c].on

KeptBy(c) == call[c].on

(* sudo -k -v answers: only an accepted password is kept.                  *)
Accepted(c) ==
  /\ call[c].step = "checking" /\ call[c].typed = right[call[c].on]
  /\ kept' = [kept EXCEPT ![KeptBy(c)] = call[c].typed]
  /\ sent' = [sent EXCEPT ![c] = <<call[c].on, PickSudoPassword(call[c].typed, call[c].on)>>]
  /\ call' = [call EXCEPT ![c] = Idle]
  /\ UNCHANGED <<live, made, right, login, vault>>

(* A refusal, or the command that could not be run.                        *)
Refused(c) ==
  /\ call[c].step = "checking"
  /\ call' = [call EXCEPT ![c] = Idle]
  /\ UNCHANGED <<live, made, right, login, kept, vault, sent>>

Forget ==
  /\ live # 0
  /\ kept' = [kept EXCEPT ![live] = None]
  /\ UNCHANGED <<live, made, right, login, vault, call, sent>>

Init ==
  /\ live = 0 /\ made = 0 /\ vault = None
  /\ right = [s \in All |-> CHOOSE p \in Passwords : TRUE]
  /\ login = [s \in All |-> None] /\ kept = [s \in All |-> None]
  /\ call = [c \in Calls |-> Idle] /\ sent = [c \in Calls |-> <<>>]

Next ==
  \/ Connect(TRUE) \/ Connect(FALSE) \/ Disconnect \/ Forget
  \/ \E c \in Calls : Resolve(c) \/ Accepted(c) \/ Refused(c)
                      \/ \E p \in Passwords : Check(c, p)

Spec == Init /\ [][Next]_vars

(* registry.rs:68: the session keeps "a typed sudo password that sudo      *)
(* accepted".  It is a password of that session's own account: one typed   *)
(* for a session that has since been replaced is never kept by another.    *)
KeptWasAccepted == \A s \in All : kept[s] \in {None, right[s]}
=============================================================================

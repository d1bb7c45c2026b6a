-------------------------------- MODULE Danger --------------------------------
(***************************************************************************)
(* The rating of a command (tasks/danger.rs): the rules that fire on its   *)
(* text, the level of the worst, and what the blocking setting makes of it.*)
(*                                                                         *)
(* A text is the normalised copy: a sequence of words, lowercased and one  *)
(* space apart.  A word is [w, glued]: its spelling, and whether a ";"     *)
(* stands right after it.  Abstracted: letters inside a word, so that a    *)
(* phrase the code looks for anywhere is looked for at the words it is     *)
(* made of, and one spelling stands for those that share a prefix (sd for  *)
(* sda, $x for any variable).                                              *)
(***************************************************************************)
EXTENDS Naturals, Sequences

Families == {"linux", "macos", "bsd", "windows", "unknown"}
IsUnix(os) == os \in {"linux", "macos", "bsd"}

None == 0
Caution == 1
Destructive == 2

Separators == {";", "&", "&&", "|", "||"}
Words == [w : STRING \cup Separators, glued : BOOLEAN]

-----------------------------------------------------------------------------
(* Where a phrase, a sequence of spellings, stands in a text.              *)
At(text, phrase, i) ==
  /\ Len(phrase) \in 0 .. Len(text) - i + 1
  /\ \A k \in 1 .. Len(phrase) : text[i + k - 1].w = phrase[k]
  /\ \A k \in 1 .. (Len(phrase) - 1) : ~text[i + k - 1].glued

Has(text, phrases) == \E p \in phrases : \E i \in DOMAIN text : At(text, p, i)
(* A phrase with the space after it, which the code looks for too.         *)
Spaced(text, phrases) ==
  \E p \in phrases : \E i, last \in DOMAIN text :
    /\ At(text, p, i) /\ last = i + Len(p) - 1
    /\ last < Len(text) /\ ~text[last].glued

Spells(text, spellings) == \E i \in DOMAIN text : text[i].w \in spellings

(* Mutant of Follows: only the first word is a command.                    *)
FollowsNothing(text, i) == i = 1

(* Whether a command may begin at i: at the start, after a separator, or   *)
(* after sudo.                                                             *)
Follows(text, i) ==
  \/ i = 1
  \/ i > 1 /\ (text[i - 1].glued \/ text[i - 1].w \in Separators \cup {"sudo", "doas"})

(* starts_or_follows.                                                      *)
Runs(text, verbs) ==
  \E v \in verbs : \E i \in DOMAIN text : At(text, v, i) /\ Follows(text, i)

-----------------------------------------------------------------------------
(* recursive_delete_targets: the text is cut at the separators that stand  *)
(* alone; in each piece the first rm takes all that follows as its flags   *)
(* and targets.  The first that recurses, forces and names a target tells. *)
(* A ";" comes off a target; rm and a long flag are not read under one.    *)
Alone(text) == {i \in DOMAIN text : text[i].w \in Separators \ {"&"}}
Starts(text) == {1} \cup {i + 1 : i \in Alone(text)}
Piece(text, s) == {i \in DOMAIN text : i >= s /\ ~\E k \in Alone(text) : s <= k /\ k <= i}
LongFlags == {"--recursive", "--force"}
ArgsOf(text, s) ==
  LET rms == {i \in Piece(text, s) : text[i].w = "rm" /\ ~text[i].glued}
      Read(i) == IF text[i].w \in LongFlags /\ text[i].glued THEN "--" ELSE text[i].w
  IN  {Read(i) : i \in {j \in Piece(text, s) : \E r \in rms : r < j}}

Recursing == {"-r", "-rf", "-fr", "--recursive"}
Forcing == {"-f", "-rf", "-fr", "--force"}
Flags == Recursing \cup Forcing \cup {"-i", "--no-preserve-root", "--"}

RmPieces(text) ==
  {s \in Starts(text) : ArgsOf(text, s) \cap Recursing # {} /\ ArgsOf(text, s) \cap Forcing # {}}
RmTargets(text) ==
  LET named == {s \in RmPieces(text) : ArgsOf(text, s) \ Flags # {}}
  IN  IF named = {} THEN {}
      ELSE ArgsOf(text, CHOOSE s \in named : \A t \in named : s <= t) \ Flags

CriticalPaths == {"/", "/*", "/etc", "/home", "/usr", "/var"}

(* touches_system_root: a word after a space that begins with a critical   *)
(* path, whatever is glued to it; the root only as a word of its own.      *)
OnSystemPath ==
  (CriticalPaths \ {"/", "/*"}) \cup {"/var/log", "/etc/passwd", "/etc/fstab", "/dev/sd"}
Slashed == CriticalPaths \cup OnSystemPath \cup {"/tmp", "/c", "/f", "/s", "/r", "/im"}
AloneRoot == {"/", "/*", "~"}
TouchesSystemRoot(text) ==
  \/ \E i \in DOMAIN text : i > 1 /\ text[i].w \in OnSystemPath
  \/ /\ \E i \in DOMAIN text : i > 1 /\ text[i].w \in Slashed
     /\ \E i \in DOMAIN text : text[i].w \in AloneRoot /\ ~text[i].glued

PipesDownloadToShell(text) ==
  /\ Spaced(text, {<<"curl">>, <<"wget">>, <<"fetch">>})
  /\ Has(text, {<<"|", shell>> : shell \in {"sh", "bash", "zsh", "python", "perl"}})

-----------------------------------------------------------------------------
Rule(label, level, fires) == IF fires THEN {[label |-> label, level |-> level]} ELSE {}

(* assess_unix, in four parts: what rm is told to delete,                  *)
AssessRm(t) ==
  UNION
  { Rule("Recursive delete of a system path", Destructive,
         RmTargets(t) \cap CriticalPaths # {}),
    Rule("Recursive delete", Caution,
         RmPieces(t) # {} /\ RmTargets(t) \cap CriticalPaths = {}),
    Rule("Overrides rm's root safeguard", Destructive, Has(t, {<<"--no-preserve-root">>})),
    Rule("Delete path comes from a variable", Destructive,
         /\ Has(t, {<<"rm", "-rf", "$x">>, <<"rm", "-fr", "$x">>, <<"rm", "-r", "-f", "$x">>})
         /\ ~Has(t, {<<"rm", "-rf", "'$x'">>})) }

(* what else is written over,                                              *)
AssessUnixData(t) ==
  UNION
  { Rule("Formats a filesystem", Destructive, Has(t, {<<"mkfs">>, <<"mke2fs">>})),
    Rule("Writes directly to a disk", Destructive, Has(t, {<<"of=/dev/sd">>, <<"of=/dev/vd">>})),
    Rule("Redirects output onto a disk device", Destructive,
         Has(t, {<<">", "/dev/sd">>, <<">/dev/sd">>})) }

(* how the machine is reached, what protects it and what it runs,          *)
AssessUnixAccess(t) ==
  UNION
  { Rule("Stops or restarts the machine", Caution,
         \/ Runs(t, {<<"shutdown">>, <<"poweroff">>, <<"halt">>, <<"reboot">>})
         \/ Has(t, {<<"init", "0">>, <<"init", "6">>, <<"systemctl", "isolate">>})),
    Rule("Restarts the SSH service", Caution,
         Has(t, {<<"restart", "ssh">>, <<"restart", "sshd">>, <<"stop", "ssh">>})),
    Rule("Disables host protection", Destructive,
         Has(t, {<<"iptables", "-f">>, <<"nft", "flush", "ruleset">>, <<"ufw", "disable">>,
                 <<"systemctl", "stop", "firewalld">>, <<"setenforce", "0">>})),
    Rule("Makes files world-writable", Destructive,
         \/ Has(t, {<<"chmod", "-r", "777">>, <<"chmod", "-r", "a+rwx">>})
         \/ Has(t, {<<"chmod", "777", path>> : path \in Slashed})),
    Rule("Rewrites ownership across a system path", Destructive,
         Has(t, {<<"chown", "-r">>, <<"chmod", "-r">>}) /\ TouchesSystemRoot(t)),
    Rule("Runs code downloaded from the network", Destructive, PipesDownloadToShell(t)) }

(* accounts, traces, processes and packages.                               *)
AssessUnixRest(t) ==
  UNION
  { Rule("Removes an account", Caution, Runs(t, {<<"userdel">>, <<"groupdel">>})),
    Rule("Erases the record of what happened", Caution,
         Has(t, {<<"rm", "-rf", "/var/log">>, <<"history", "-c">>,
                 <<"truncate", "-s", "0", "/var/log">>, <<"journalctl", "--vacuum-time=0">>})),
    Rule("Overwrites a critical system file", Destructive,
         Has(t, {<<">", "/etc/passwd">>, <<">/etc/passwd">>, <<">", "/etc/fstab">>})),
    Rule("Kills processes by name", Caution,
         Runs(t, {<<"killall">>}) \/ Has(t, {<<"pkill", "-9">>, <<"kill", "-9", "-1">>})),
    Rule("Removes installed packages", Caution,
         Has(t, {<<"apt", "remove">>, <<"apt", "purge">>, <<"dnf", "remove">>, <<"pacman", "-r">>})),
    Rule("Fork bomb", Destructive, Has(t, {<<":(){:|:&};:">>})) }

AssessUnix(t) ==
  AssessRm(t) \cup AssessUnixData(t) \cup AssessUnixAccess(t) \cup AssessUnixRest(t)

(* launches_wininit: the first word of a command that is no launcher and   *)
(* no switch of one.                                                       *)
Launchers == {"&", "start", "start-process", "saps", "ii", "cmd", "/c", "call", "-filepath"}
LaunchesWininit(t) ==
  \E i \in DOMAIN t : t[i].w \in {"wininit", "wininit.exe"}
    /\ \E s \in 1 .. i : /\ s = 1 \/ t[s - 1].glued \/ t[s - 1].w \in Separators
                         /\ \A k \in s .. i - 1 : t[k].w \in Launchers /\ ~t[k].glued

(* kills_critical_process.                                                 *)
CriticalProcesses == {"wininit", "csrss", "smss", "lsass", "winlogon", "services"}
KillsCriticalProcess(t) ==
  /\ \/ Spells(t, {"taskkill", "stop-process", "pskill"})
     \/ Runs(t, {<<"kill">>, <<"spps">>})
     \/ Spells(t, {"wmic"}) /\ Spells(t, {"process"}) /\ Spells(t, {"delete"})
     \/ Spells(t, {"win32_process"}) /\ Spells(t, {"terminate"})
  /\ \/ Spells(t, CriticalProcesses)
     \/ Spells(t, {"svchost"}) /\ Spells(t, {"/im", "-name"})

(* assess_windows, in two parts: what is lost or left unprotected,         *)
AssessWindowsData(t) ==
  UNION
  { Rule("Formats a volume", Destructive, Runs(t, {<<"format">>}) \/ Has(t, {<<"format", "c:">>})),
    Rule("Recursive delete of a system path", Destructive,
         Has(t, {<<"del", "/f">>, <<"del", "/s">>, <<"rd", "/s">>})
           /\ Spells(t, {"c:\\", "%systemroot%", "%windir%"})),
    Rule("Recursive delete", Caution,
         Spells(t, {"remove-item"}) /\ Spells(t, {"-recurse"}) /\ Spells(t, {"-force"})),
    Rule("Deletes backups and shadow copies", Destructive,
         Has(t, {<<"vssadmin", "delete", "shadows">>, <<"wbadmin", "delete", "catalog">>})),
    Rule("Disables the firewall", Destructive,
         Has(t, {<<"advfirewall", "set">>}) /\ Has(t, {<<"state", "off">>})) }

(* and what is stopped, run or killed.                                     *)
AssessWindowsRest(t) ==
  UNION
  { Rule("Stops or restarts the machine", Caution,
         \/ Runs(t, {<<"shutdown", "/s">>, <<"shutdown", "/r">>})
         \/ Spells(t, {"restart-computer", "stop-computer"})),
    Rule("Restarts the SSH service", Caution,
         /\ (Spells(t, {"restart-service", "stop-service"}) \/ Has(t, {<<"net", "stop">>}))
         /\ Spells(t, {"sshd"})),
    Rule("Runs code downloaded from the network", Destructive,
         Spells(t, {"downloadstring"}) \/ (Spaced(t, {<<"irm">>}) /\ Has(t, {<<"|", "iex">>}))),
    Rule("Starts wininit by hand", Destructive, LaunchesWininit(t)),
    Rule("Kills a process Windows cannot run without", Destructive, KillsCriticalProcess(t)),
    Rule("Edits boot or partition configuration", Caution,
         Runs(t, {<<"bcdedit">>, <<"diskpart">>})) }

AssessWindows(t) == AssessWindowsData(t) \cup AssessWindowsRest(t)

AssessSecrets(t) ==
  Rule("Password on the command line", Caution,
       \/ Has(t, {<<"sshpass", "-p">>, <<"--password=x">>, <<"mysql", "-p">>})
       \/ Spaced(t, {<<"--password">>, <<"curl", "-u">>}))

(* assess: the family chooses the rules, a family nobody knows takes all.  *)
Reasons(os, t) ==
  (IF IsUnix(os) \/ os = "unknown" THEN AssessUnix(t) ELSE {})
    \cup (IF os \in {"windows", "unknown"} THEN AssessWindows(t) ELSE {})
    \cup AssessSecrets(t)

Level(reasons) ==
  IF \E r \in reasons : r.level = Destructive THEN Destructive
  ELSE IF reasons # {} THEN Caution ELSE None

(* refusal: blocking is off (None), or starts at a level.                  *)
Refused(reasons, blockFrom) ==
  blockFrom # None /\ Level(reasons) # None /\ Level(reasons) >= blockFrom

-----------------------------------------------------------------------------
(* Two commands in one text: a ";" glued to the first, a separator of its  *)
(* own between them, or a line end, which the copy turns into a space.     *)
Word(w) == [w |-> w, glued |-> FALSE]
Glued(a) == [i \in 1 .. Len(a) |-> [w |-> a[i].w, glued |-> i = Len(a) \/ a[i].glued]]
Join(a, by, b) ==
  CASE by = "glued" -> Glued(a) \o b
    [] by = "line" -> a \o b
    [] OTHER -> a \o <<Word(by)>> \o b


(* danger.rs:129, for what the rules do keep: joined by a separator, the   *)
(* two commands lose no reason but those of recursive deletes and, of the  *)
(* first, to a ";" glued to its path, that of an ownership rewritten; and  *)
(* no text is rated lower for a host nobody knows than for one of a family.*)
OfRm == {"Recursive delete", "Recursive delete of a system path",
         "Delete path comes from a variable"}
OfOwner == "Rewrites ownership across a system path"
Lost(by) == OfRm \cup (IF by = "glued" THEN {OfOwner} ELSE {})
BothAreAssessed(os, a, by, b) ==
  LET text == Join(a, by, b)
      whole == Reasons(os, text) IN
  /\ by # "line" =>
       /\ \A r \in Reasons(os, a) : r.label \notin Lost(by) => r \in whole
       /\ \A r \in Reasons(os, b) : r.label \notin OfRm => r \in whole
  /\ Level(whole) <= Level(Reasons("unknown", text))
=============================================================================

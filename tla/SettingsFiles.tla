----------------------------- MODULE SettingsFiles -----------------------------
(***************************************************************************)
(* A settings file of the app (hosts.json, tasks.json, the dismissed       *)
(* findings): private_file.rs, hosts/store.rs, tasks/store.rs,             *)
(* ssh/store.rs and the commands that read the file, change it and write   *)
(* it back (hosts/commands.rs, tasks/commands.rs).                         *)
(*                                                                         *)
(* Synchronous commands run one at a time on the main thread; a connect    *)
(* and a start of a task are asynchronous and stamp their record from a    *)
(* worker thread, beside them and beside each other.  A write truncates    *)
(* the one temporary file, fills it and renames it over the file; names    *)
(* link to inodes, and a writer goes on writing to the inode it opened     *)
(* whatever name that inode has by then.                                   *)
(*                                                                         *)
(* Abstracted: a record is its form (0: there is none) and its stamp; JSON *)
(* is text that is whole or not.  The system calls are Unix's.             *)
(***************************************************************************)
EXTENDS Naturals, FiniteSets

CONSTANTS
  Ids,
  Pinned,      \* the records that belong to a host being deleted
  Stampers,    \* asynchronous commands at once
  Forms,       \* bound: versions of a record
  MaxOps       \* bound: commands that are begun

(* What the proofs assume of the constants.                                *)
StoreAssumption == IsFiniteSet(Stampers) /\ Forms \in Nat

VARIABLES
  inode,     \* inode -> [whole, records]
  tmp,       \* the inode the temporary name links to, 0 when it is missing
  final,     \* the inode the file's name links to, 0 when it is missing
  act,       \* actor -> [step, op, text, on]
  ops,       \* commands begun
  saved,     \* what the last write that succeeded meant to leave
  mixed      \* whether a command ever read while another was to write

vars == <<inode, tmp, final, act, ops, saved, mixed>>

Actors == {"main"} \cup Stampers
Inodes == 1 .. Cardinality(Actors) + 2
Absent == [form |-> 0, stamp |-> 0]
NoRecords == [i \in Ids |-> Absent]
Torn == [whole |-> FALSE, records |-> NoRecords]
Whole(records) == [whole |-> TRUE, records |-> records]
NoAct == [step |-> "idle", op |-> "none", text |-> NoRecords, on |-> 0]

TypeOK ==
  /\ \A n \in Inodes : inode[n].records \in [Ids -> [form : 0 .. Forms, stamp : 0 .. 1]]
  /\ tmp \in {0} \cup Inodes /\ final \in {0} \cup Inodes
  /\ \A a \in Actors : act[a].step \in {"idle", "read", "opened", "filled"}

-----------------------------------------------------------------------------
(* read: a missing or unreadable file is an empty list.                    *)
OnDisk == IF final = 0 THEN Whole(NoRecords) ELSE inode[final]
Read == OnDisk.records

Busy(a) == act[a].step # "idle"

Begin(a, op, text) ==
  /\ ~Busy(a) /\ ops < MaxOps
  /\ act' = [act EXCEPT ![a] = [step |-> "read", op |-> op, text |-> text, on |-> 0]]
  /\ ops' = ops + 1
  /\ mixed' = (mixed \/ \E b \in Actors : Busy(b))
  /\ UNCHANGED <<inode, tmp, final, saved>>

(* upsert without an id, after validate: a new record.                     *)
Add(i, form) ==
  /\ Read[i] = Absent
  /\ Begin("main", "add", [Read EXCEPT ![i] = [form |-> form, stamp |-> 0]])

(* upsert with an id: one that is gone is an error, and nothing is written.*)
(* The stamp is carried over.                                              *)
Edit(i, form) ==
  /\ Read[i] # Absent
  /\ Begin("main", "edit", [Read EXCEPT ![i].form = form])

Delete(i) ==
  /\ Read[i] # Absent
  /\ Begin("main", "delete", [Read EXCEPT ![i] = Absent])

(* forget_host_tasks writes only if it dropped something.                  *)
ForgetHost ==
  /\ \E i \in Pinned : Read[i] # Absent
  /\ Begin("main", "forget", [i \in Ids |-> IF i \in Pinned THEN Absent ELSE Read[i]])

(* touch ignores a record that is gone; the list is written all the same.  *)
Touch(a, i) ==
  Begin(a, "touch", IF Read[i] = Absent THEN Read ELSE [Read EXCEPT ![i].stamp = 1])

-----------------------------------------------------------------------------
InUse == {tmp, final} \cup {act[a].on : a \in {b \in Actors : Busy(b)}}
Fresh == CHOOSE n \in Inodes : n \notin InUse

(* Mutant of Target: the file is opened in place.                          *)
TargetInPlace == IF final = 0 THEN Fresh ELSE final

(* The inode a write opens: the temporary name's, or a new one.            *)
Target == IF tmp = 0 THEN Fresh ELSE tmp

Open(a) ==
  /\ act[a].step = "read"
  /\ inode' = [inode EXCEPT ![Target] = Torn]
  /\ tmp' = Target
  /\ act' = [act EXCEPT ![a].step = "opened", ![a].on = Target]
  /\ UNCHANGED <<final, ops, saved, mixed>>

(* write_all, from the start of what the handle has open: text that lands  *)
(* on another's text may leave the end of that one behind.                 *)
Fill(a) ==
  /\ act[a].step = "opened"
  /\ LET text == Whole(act[a].text) IN
     inode' \in {[inode EXCEPT ![act[a].on] = it] :
                   it \in IF inode[act[a].on].whole THEN {text, Torn} ELSE {text}}
  /\ act' = [act EXCEPT ![a].step = "filled"]
  /\ UNCHANGED <<tmp, final, ops, saved, mixed>>

(* The disk is full, or the like: the temporary file stays as it is.       *)
FillFails(a) ==
  /\ act[a].step = "opened"
  /\ act' = [act EXCEPT ![a] = NoAct]
  /\ UNCHANGED <<inode, tmp, final, ops, saved, mixed>>

Rename(a) ==
  /\ act[a].step = "filled" /\ tmp # 0
  /\ final' = tmp /\ tmp' = 0
  /\ saved' = act[a].text
  /\ act' = [act EXCEPT ![a] = NoAct]
  /\ UNCHANGED <<inode, ops, mixed>>

(* The temporary file was renamed by another, or the rename is refused:    *)
(* the temporary file is removed.                                          *)
RenameFails(a) ==
  /\ act[a].step = "filled"
  /\ tmp' = 0
  /\ act' = [act EXCEPT ![a] = NoAct]
  /\ UNCHANGED <<inode, final, ops, saved, mixed>>

(* The program dies and is started again.                                  *)
Crash ==
  /\ \E a \in Actors : Busy(a)
  /\ act' = [a \in Actors |-> NoAct]
  /\ UNCHANGED <<inode, tmp, final, ops, saved, mixed>>

Init ==
  /\ inode = [n \in Inodes |-> Torn]
  /\ tmp = 0 /\ final = 0 /\ ops = 0 /\ mixed = FALSE
  /\ act = [a \in Actors |-> NoAct] /\ saved = NoRecords

Next ==
  \/ \E i \in Ids :
       \/ \E form \in 1 .. Forms : Add(i, form) \/ Edit(i, form)
       \/ Delete(i)
       \/ \E a \in Stampers : Touch(a, i)
  \/ ForgetHost
  \/ \E a \in Actors : Open(a) \/ Fill(a) \/ FillFails(a) \/ Rename(a) \/ RenameFails(a)
  \/ Crash

Spec == Init /\ [][Next]_vars

-----------------------------------------------------------------------------
(* private_file.rs:35: a crash mid-write, a full disk or a refused rename  *)
(* leaves the previous version intact.  As long as no command read the     *)
(* file while another was about to write it, the file holds exactly what   *)
(* the last write that reported success meant it to hold, at every moment. *)
IntactAlone == ~mixed => OnDisk = Whole(saved)

(* private_file.rs:32: "replacing any existing file atomically".  The file *)
(* is never anything but a whole list that some command wrote.             *)
ReplacedAtomically == OnDisk.whole

(* hosts/store.rs:45: an unknown id errors, since "resurrecting it         *)
(* silently would surprise".  A record that is gone from the file comes    *)
(* back only if someone adds it.                                           *)
DeletedStaysDeleted ==
  [][\A i \in Ids : Read[i] = Absent /\ Read'[i] # Absent
       => \E a \in Actors : act[a].op = "add"]_vars
=============================================================================

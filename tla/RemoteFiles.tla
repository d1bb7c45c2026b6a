------------------------------ MODULE RemoteFiles ------------------------------
(***************************************************************************)
(* What this program does to the files of a host: uploads (enqueue_upload  *)
(* and available_remote_path in remote/commands.rs, upload in              *)
(* remote/transfer_task.rs), and the deletes, renames and copies of the    *)
(* file browser with the channel they share (remote/commands.rs,           *)
(* BrowseSession and refuse_unless_regular in remote/sftp.rs).             *)
(*                                                                         *)
(* Paths is the row of names "keep both" tries, 0 the plain one.  A path   *)
(* holds [kind, of, parts, open, mixed]: whose it is ("host", or the       *)
(* upload that created or truncated it last), how many chunks of it are    *)
(* there, which uploads have it open, and whether another wrote into it.   *)
(* Every request is answered after a moment in which others act.           *)
(*                                                                         *)
(* Abstracted: when the queue starts an upload (module TransferQueue).  The*)
(* server is modelled from its protocol: a rename never replaces, an open  *)
(* with truncate does.                                                     *)
(***************************************************************************)
EXTENDS Naturals, FiniteSets

CONSTANTS
  Uploads, Calls,
  MaxVariant,    \* names tried beyond the plain one, 999
  Length,        \* chunks of the local file when it is opened
  MaxTurns       \* bound: calls begun and times the host's own people act

VARIABLES
  at,       \* path -> what is there
  up,       \* upload -> [step, path, mode, read, total]
  cancel,   \* upload -> its flag
  source,   \* chunks the local file has now
  call,     \* call -> [step, op, from, to, on]
  channel,  \* the shared channel: "none", "open" or "dead"
  turns

vars == <<at, up, cancel, source, call, channel, turns>>

Paths == 0 .. MaxVariant
Thing(kind, of) == [kind |-> kind, of |-> of, parts |-> 0, open |-> {}, mixed |-> FALSE]
Nothing == Thing("none", "host")
Own(kind) == Thing(kind, "host")
NoUpload == [step |-> "none", path |-> 0, mode |-> "keepBoth", read |-> 0, total |-> 0]
NotCalled == [step |-> "none", op |-> "none", from |-> 0, to |-> 0]

Taken == {p \in Paths : at[p].kind # "none"}

(* refuse_unless_regular: files and folders pass.                          *)
Refused(kind) == kind \in {"link", "other"}

-----------------------------------------------------------------------------
Free == Paths \ Taken

(* available_remote_path; with every name taken the upload is refused.     *)
Enqueue(u, mode) ==
  /\ up[u].step = "none"
  /\ \/ mode = "overwrite" /\ up' = [up EXCEPT ![u] = [@ EXCEPT !.step = "queued", !.mode = mode]]
     \/ /\ mode = "keepBoth" /\ Free # {}
        /\ up' = [up EXCEPT ![u] = [@ EXCEPT !.step = "queued", !.mode = mode,
                                    !.path = CHOOSE p \in Free : \A q \in Free : p <= q]]
  /\ UNCHANGED <<at, cancel, source, call, channel, turns>>

Step(u, step) == up' = [up EXCEPT ![u].step = step]
KeepFiles == UNCHANGED <<at, cancel, source, call, channel, turns>>

(* The destination is looked at: a link or a device is refused; the local  *)
(* file's length is read.                                                  *)
Look(u) ==
  /\ up[u].step = "queued"
  /\ IF Refused(at[up[u].path].kind) THEN Step(u, "failed")
     ELSE up' = [up EXCEPT ![u].step = "opening", ![u].total = source]
  /\ KeepFiles

(* create: what is there is truncated, and a folder that is there is an    *)
(* error.  Who has a file open goes on writing into it, whatever it is     *)
(* named by then and whoever has truncated it since.                       *)
Create(u) ==
  /\ up[u].step = "opening"
  /\ LET p == up[u].path IN
     IF at[p].kind = "dir" THEN Step(u, "failed") /\ at' = at
     ELSE /\ at' = [at EXCEPT ![p] = [Thing("file", u) EXCEPT !.open = at[p].open \cup {u}]]
          /\ Step(u, "copying")
  /\ UNCHANGED <<cancel, source, call, channel, turns>>

(* One chunk, unless the cancel flag is up.                                *)
Copy(u) ==
  /\ up[u].step = "copying" /\ ~cancel[u] /\ up[u].read < source
  /\ up' = [up EXCEPT ![u].read = @ + 1]
  /\ at' = [p \in Paths |->
               IF u \notin at[p].open THEN at[p]
               ELSE IF at[p].of = u THEN [at[p] EXCEPT !.parts = up[u].read + 1]
               ELSE [at[p] EXCEPT !.mixed = TRUE]]
  /\ UNCHANGED <<cancel, source, call, channel, turns>>

Cancelled(u) ==
  /\ up[u].step = "copying" /\ cancel[u]
  /\ Step(u, "failed") /\ KeepFiles

(* Mutant of Ends: whatever was read is what was to be sent.               *)
EndsAnyhow(u) == "done"

(* verify_length.                                                          *)
Ends(u) == IF up[u].read = up[u].total THEN "done" ELSE "failed"

Finish(u) ==
  /\ up[u].step = "copying" /\ ~cancel[u] /\ up[u].read >= source
  /\ Step(u, Ends(u)) /\ KeepFiles

(* The connection ends, or the server refuses a write.                     *)
Breaks(u) == up[u].step \in {"opening", "copying"} /\ Step(u, "failed") /\ KeepFiles

Cancel(u) ==
  /\ up[u].step \in {"queued", "opening", "copying"} /\ ~cancel[u]
  /\ cancel' = [cancel EXCEPT ![u] = TRUE]
  /\ IF up[u].step = "queued" THEN Step(u, "failed") ELSE up' = up
  /\ UNCHANGED <<at, source, call, channel, turns>>

-----------------------------------------------------------------------------
(* get_or_open, under its mutex, and the look at the path that follows.    *)
(* delete has no second path; a rename or a copy to where it is, is none.  *)
Begin(c, op, from, to) ==
  /\ call[c].step = "none" /\ from # to
  /\ turns < MaxTurns /\ turns' = turns + 1
  /\ channel' = IF channel = "none" THEN "open" ELSE channel
  /\ call' = [call EXCEPT ![c] = [step |-> "looking", op |-> op, from |-> from, to |-> to]]
  /\ UNCHANGED <<at, up, cancel, source>>

Drop(c) == call' = [call EXCEPT ![c] = NotCalled]
KeepRest == UNCHANGED <<up, cancel, source, turns>>

(* On a dead channel a request fails.  Only a listing drops the channel.   *)
CallFails(c) ==
  /\ call[c].step # "none" /\ channel = "dead"
  /\ Drop(c)
  /\ channel' = IF call[c].op = "list" THEN "none" ELSE channel
  /\ UNCHANGED at /\ KeepRest

List(c) ==
  /\ call[c].step = "looking" /\ call[c].op = "list" /\ channel # "dead"
  /\ Drop(c) /\ UNCHANGED <<at, channel>> /\ KeepRest

(* symlink_metadata of what is acted on.                                   *)
LookAt(c) ==
  /\ call[c].step = "looking" /\ call[c].op # "list" /\ channel # "dead"
  /\ IF at[call[c].from].kind = "none" \/ Refused(at[call[c].from].kind) THEN Drop(c)
     ELSE call' = [call EXCEPT ![c].step = IF call[c].op = "delete" THEN "acting" ELSE "asking"]
  /\ UNCHANGED <<at, channel>> /\ KeepRest

(* try_exists of where it would go.                                        *)
AskExists(c) ==
  /\ call[c].step = "asking" /\ channel # "dead"
  /\ IF call[c].to \in Taken THEN Drop(c) ELSE call' = [call EXCEPT ![c].step = "acting"]
  /\ UNCHANGED <<at, channel>> /\ KeepRest

Act(c) ==
  /\ call[c].step = "acting" /\ channel # "dead"
  /\ Drop(c)
  /\ LET from == call[c].from
         to == call[c].to
     IN  at' = CASE call[c].op = "delete" -> [at EXCEPT ![from] = Nothing]
                 [] call[c].op = "rename" ->
                      IF to \in Taken THEN at ELSE [at EXCEPT ![to] = at[from], ![from] = Nothing]
                 [] OTHER -> IF from \in Taken THEN [at EXCEPT ![to] = Own(at[from].kind)]
                             ELSE at
  /\ UNCHANGED channel /\ KeepRest

-----------------------------------------------------------------------------
(* The host's own people, and the file on this machine.                    *)
HostTurns(p, thing) ==
  /\ turns < MaxTurns /\ at[p].kind # thing.kind
  /\ at' = [at EXCEPT ![p] = thing] /\ turns' = turns + 1
  /\ UNCHANGED <<up, cancel, source, call, channel>>

SourceTurns(n) ==
  /\ turns < MaxTurns /\ n # source
  /\ source' = n /\ turns' = turns + 1
  /\ UNCHANGED <<at, up, cancel, call, channel>>

ChannelDies ==
  /\ channel = "open" /\ channel' = "dead"
  /\ UNCHANGED <<at, call>> /\ KeepRest

Init ==
  /\ at \in [Paths -> {Nothing, Own("file")}]
  /\ up = [u \in Uploads |-> NoUpload] /\ cancel = [u \in Uploads |-> FALSE]
  /\ source = Length /\ call = [c \in Calls |-> NotCalled] /\ channel = "none"
  /\ turns = 0

Next ==
  \/ \E u \in Uploads :
       \/ \E mode \in {"keepBoth", "overwrite"} : Enqueue(u, mode)
       \/ Look(u) \/ Create(u) \/ Copy(u) \/ Cancelled(u) \/ Finish(u) \/ Breaks(u) \/ Cancel(u)
  \/ \E c \in Calls :
       \/ \E op \in {"list", "delete", "rename", "copy"}, from, to \in Paths : Begin(c, op, from, to)
       \/ CallFails(c) \/ List(c) \/ LookAt(c) \/ AskExists(c) \/ Act(c)
  \/ \E p \in Paths, thing \in {Nothing, Own("file"), Own("link"), Own("dir")} : HostTurns(p, thing)
  \/ \E n \in {Length - 1, Length + 1} : SourceTurns(n)
  \/ ChannelDies

Spec == Init /\ [][Next]_vars

-----------------------------------------------------------------------------
(* transfer_task.rs:301: "a short count means our own loop lost bytes".    *)
(* What an upload that is done has left on the host is as long as the row  *)
(* said the file was, wherever it has been moved to: not when it was       *)
(* cancelled, not when the local file shrank or grew under it - unless     *)
(* another upload wrote into the same file.                                *)
DoneIsWhole ==
  \A u \in Uploads : up[u].step = "done" =>
    /\ ~cancel[u] \/ up[u].read = up[u].total
    /\ \A p \in Paths : at[p].of = u /\ ~at[p].mixed => at[p].parts = up[u].total

(* commands.rs:1400: KeepBoth is the default "so a caller that forgets to  *)
(* choose cannot destroy anything".  What an upload of that mode has       *)
(* brought is not replaced by another upload of that mode.                 *)
KeepBothDestroysNothing ==
  [][\A u, v \in Uploads :
       up[u].mode = "keepBoth" /\ up[v].mode = "keepBoth" /\ u # v
         => ~\E p \in Paths : at[p].of = u /\ at'[p].of = v]_vars
=============================================================================

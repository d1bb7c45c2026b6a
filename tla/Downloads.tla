------------------------------ MODULE Downloads ------------------------------
(***************************************************************************)
(* How a download becomes a file: the choice of its path when it is queued *)
(* (enqueue_download in remote/commands.rs, available_path), the copy into *)
(* a staging file and the rename (download, download_into, verify_length   *)
(* in remote/transfer_task.rs, RemoteReader::copy_to in remote/sftp.rs).   *)
(*                                                                         *)
(* A path is a name and the number available_path gives it, 0 for none;    *)
(* each path can have a file, and a staging file beside it.  A file is     *)
(* apart from its path, as an inode is: a rename moves it while whoever    *)
(* has it open goes on writing into it.                                    *)
(*                                                                         *)
(* Abstracted: when the queue starts a download (module TransferQueue),    *)
(* the folder, buffers between the copy and the file, and the depth of the *)
(* read pipeline, whose replies are taken in the order of the requests.    *)
(***************************************************************************)
EXTENDS Integers, FiniteSets

CONSTANTS
  Remotes,       \* remote files
  NoRemote,      \* no remote file
  Length,        \* remote file -> its size when it is opened
  MaxLength,     \* bound: no remote file is longer
  Names,         \* safe local names
  NoPath,        \* no path
  MaxVariant,    \* numbers available_path tries, 999
  ChunkSize,     \* RemoteReader.chunk
  MaxDownloads,  \* bound: downloads queued in one behaviour
  MaxPending     \* bound: downloads pending at once

ASSUME DownloadAssumption ==
  /\ NoRemote \notin Remotes
  /\ NoPath \notin Names \X (0 .. MaxVariant)
  /\ MaxLength \in Nat
  /\ Length \in [Remotes -> 0 .. MaxLength]
  /\ MaxVariant \in Nat
  /\ ChunkSize \in Nat \ {0}
  /\ MaxDownloads \in Nat
  /\ MaxPending \in Nat

VARIABLES
  stage,    \* download -> how far it has come
  remote,   \* download -> the remote file
  path,     \* download -> local_path
  mode,     \* pending download -> the OnConflict it was queued with
  cancel,   \* download -> its cancel flag
  fd,       \* download -> the staging file it has open, or None
  offset,   \* download -> where the next reply was asked for
  wrote,    \* download -> bytes written
  bytes,    \* file -> position -> what is there
  part,     \* path -> the staging file beside it, or None
  final,    \* path -> the file, or None
  there,    \* pending download -> the files there when it was queued: history
  shared    \* the paths two downloads were pending for at once: history

vars == <<stage, remote, path, mode, cancel, fd, offset, wrote, bytes, part, final,
          there, shared>>
history == <<there, shared>>

Downloads == 1 .. MaxDownloads
None == 0
Files == Downloads  \* a file has the number of the download that created it
Variants == 0 .. MaxVariant
Paths == Names \X Variants
Modes == {"keepBoth", "overwrite"}
Positions == 1 .. MaxLength
Hole == <<>>
Tags == (Remotes \X Positions) \cup {Hole}

(* "lost" is a download the process died under.                            *)
Stages == {"none", "queued", "opening", "copying", "flushing", "landing",
           "done", "failed", "lost"}

Open(d) == stage[d] \in {"copying", "flushing", "landing"}
Pending(d) == Open(d) \/ stage[d] \in {"queued", "opening"}

TypeOK ==
  /\ stage \in [Downloads -> Stages]
  /\ remote \in [Downloads -> Remotes \cup {NoRemote}]
  /\ path \in [Downloads -> Paths \cup {NoPath}]
  /\ mode \in [Downloads -> Modes]
  /\ cancel \in [Downloads -> BOOLEAN]
  /\ fd \in [Downloads -> Files \cup {None}]
  /\ offset \in [Downloads -> Nat]
  /\ wrote \in [Downloads -> 0 .. MaxLength]
  /\ bytes \in [Files -> [Positions -> Tags]]
  /\ part \in [Paths -> Files \cup {None}]
  /\ final \in [Paths -> Files \cup {None}]
  /\ there \in [Downloads -> SUBSET Files]
  /\ shared \subseteq Paths
  /\ \A d \in Downloads : stage[d] # "none" => remote[d] \in Remotes /\ path[d] \in Paths
  /\ \A d \in Downloads : fd[d] # None <=> Open(d)

-----------------------------------------------------------------------------
(* enqueue_download.                                                       *)

(* Mutant of Free: a path whose file is there but not being staged is free.*)
FreeOfParts(n, v) == part[<<n, v>>] = None

Free(n, v) == final[<<n, v>>] = None /\ part[<<n, v>>] = None

(* available_path: the first number that is free, and the plain name if    *)
(* there is none.  It looks at the folder, not at the queue.               *)
AvailableVariants(n) ==
  {v \in Variants :
     \/ Free(n, v) /\ \A w \in Variants : w < v => ~Free(n, w)
     \/ v = 0 /\ \A w \in Variants : ~Free(n, w)}

Folder == {f \in Files : \E p \in Paths : part[p] = f \/ final[p] = f}

Wanted == {path[e] : e \in {e \in Downloads : Pending(e)}}

Enqueue(d, r, n, m) ==
  /\ stage[d] = "none"
  /\ Cardinality({e \in Downloads : Pending(e)}) < MaxPending
  /\ \A e \in Downloads : e < d => stage[e] # "none"
  /\ \E v \in IF m = "overwrite" THEN {0} ELSE AvailableVariants(n) :
       path' = [path EXCEPT ![d] = <<n, v>>]
  /\ stage' = [stage EXCEPT ![d] = "queued"]
  /\ remote' = [remote EXCEPT ![d] = r]
  /\ mode' = [mode EXCEPT ![d] = m]
  /\ there' = [there EXCEPT ![d] = Folder]
  /\ shared' = shared \cup (Wanted \cap {path'[d]})
  /\ UNCHANGED <<cancel, fd, offset, wrote, bytes, part, final>>

(* cancel and fail_host settle a queued row and raise a running one's flag.*)
DropQueued(d) ==
  /\ stage[d] = "queued"
  /\ stage' = [stage EXCEPT ![d] = "failed"]
  /\ mode' = [mode EXCEPT ![d] = "keepBoth"]
  /\ there' = [there EXCEPT ![d] = {}]
  /\ UNCHANGED <<remote, path, cancel, fd, offset, wrote, bytes, part, final, shared>>

Cancel(d) ==
  /\ Open(d) \/ stage[d] = "opening"
  /\ cancel' = [cancel EXCEPT ![d] = TRUE]
  /\ UNCHANGED <<stage, remote, path, mode, fd, offset, wrote, bytes, part, final, history>>

Start(d) ==
  /\ stage[d] = "queued"
  /\ stage' = [stage EXCEPT ![d] = "opening"]
  /\ UNCHANGED <<remote, path, mode, cancel, fd, offset, wrote, bytes, part, final, history>>

-----------------------------------------------------------------------------
(* download_into.                                                          *)

Lesser(a, b) == IF a < b THEN a ELSE b

Empty == [i \in Positions |-> Hole]

(* create_owner_only: the staging file is created, or the one that has its *)
(* name is opened and truncated.                                           *)
Create(d) ==
  LET f == IF part[path[d]] = None THEN d ELSE part[path[d]] IN
  /\ stage[d] = "opening"
  /\ stage' = [stage EXCEPT ![d] = "copying"]
  /\ part' = [part EXCEPT ![path[d]] = f]
  /\ fd' = [fd EXCEPT ![d] = f]
  /\ bytes' = [bytes EXCEPT ![f] = Empty]
  /\ UNCHANGED <<remote, path, mode, cancel, offset, wrote, final, history>>

(* One reply is taken: k of the bytes asked for at offset, with what was   *)
(* asked again to fill the gap.  They are written where the file is, and   *)
(* the next reply is the one asked for a chunk further on.                 *)
Reply(d, k) ==
  LET r == remote[d] IN
  /\ stage[d] = "copying"
  /\ ~cancel[d]
  /\ offset[d] < Length[r]
  /\ k \in 1 .. Lesser(ChunkSize, Length[r] - offset[d])
  /\ bytes' = [bytes EXCEPT ![fd[d]] =
       [i \in Positions |->
          IF i \in wrote[d] + 1 .. wrote[d] + k
          THEN <<r, offset[d] + (i - wrote[d])>>
          ELSE bytes[fd[d]][i]]]
  /\ wrote' = [wrote EXCEPT ![d] = @ + k]
  /\ offset' = [offset EXCEPT ![d] = @ + ChunkSize]
  /\ UNCHANGED <<stage, remote, path, mode, cancel, fd, part, final, history>>

(* The last reply has been taken, or one is empty or says end of file.     *)
CopyEnds(d) ==
  /\ stage[d] = "copying"
  /\ offset[d] < Length[remote[d]] => ~cancel[d]
  /\ stage' = [stage EXCEPT ![d] = "flushing"]
  /\ UNCHANGED <<remote, path, mode, cancel, fd, offset, wrote, bytes, part, final, history>>

(* What a task has goes when it ends.                                      *)
Over(d) ==
  /\ cancel' = [cancel EXCEPT ![d] = FALSE]
  /\ offset' = [offset EXCEPT ![d] = 0]
  /\ wrote' = [wrote EXCEPT ![d] = 0]
  /\ mode' = [mode EXCEPT ![d] = "keepBoth"]
  /\ there' = [there EXCEPT ![d] = {}]
  /\ UNCHANGED <<remote, path, bytes, shared>>

(* Mutant of Fail: the cleanup is forgotten.                               *)
FailLeaving(d) ==
  /\ stage' = [stage EXCEPT ![d] = "failed"]
  /\ fd' = [fd EXCEPT ![d] = None]
  /\ Over(d)
  /\ UNCHANGED <<part, final>>

(* Whatever fails, the staging file is removed, by name.                   *)
Fail(d) ==
  /\ stage' = [stage EXCEPT ![d] = "failed"]
  /\ fd' = [fd EXCEPT ![d] = None]
  /\ part' = [part EXCEPT ![path[d]] = None]
  /\ Over(d)
  /\ UNCHANGED final

(* The file cannot be opened, read, created, written, flushed or renamed.  *)
IoError(d) == (Open(d) \/ stage[d] = "opening") /\ Fail(d)

(* The flag is looked at when a reply is taken.                            *)
NoticeCancel(d) ==
  /\ stage[d] = "copying"
  /\ cancel[d]
  /\ offset[d] < Length[remote[d]]
  /\ Fail(d)

(* Mutant of LengthRight: a short file passes.                             *)
LengthAny(d) == wrote[d] <= Length[remote[d]]

LengthRight(d) == wrote[d] = Length[remote[d]]

Verify(d) ==
  /\ stage[d] = "flushing"
  /\ IF LengthRight(d)
     THEN /\ stage' = [stage EXCEPT ![d] = "landing"]
          /\ UNCHANGED <<remote, path, mode, cancel, fd, offset, wrote, bytes, part, final,
                         history>>
     ELSE Fail(d)

(* The rename, of whatever has the staging name by now.                    *)
Land(d) ==
  /\ stage[d] = "landing"
  /\ part[path[d]] # None
  /\ final' = [final EXCEPT ![path[d]] = part[path[d]]]
  /\ part' = [part EXCEPT ![path[d]] = None]
  /\ stage' = [stage EXCEPT ![d] = "done"]
  /\ fd' = [fd EXCEPT ![d] = None]
  /\ Over(d)

(* The process dies: files stay, downloads do not.                         *)
Crash ==
  /\ \E d \in Downloads : Pending(d)
  /\ stage' = [d \in Downloads |-> IF Pending(d) THEN "lost" ELSE stage[d]]
  /\ fd' = [d \in Downloads |-> None]
  /\ cancel' = [d \in Downloads |-> FALSE]
  /\ offset' = [d \in Downloads |-> 0]
  /\ wrote' = [d \in Downloads |-> 0]
  /\ mode' = [d \in Downloads |-> "keepBoth"]
  /\ there' = [d \in Downloads |-> {}]
  /\ UNCHANGED <<remote, path, bytes, part, final, shared>>

-----------------------------------------------------------------------------
Init ==
  /\ stage = [d \in Downloads |-> "none"]
  /\ remote = [d \in Downloads |-> NoRemote]
  /\ path = [d \in Downloads |-> NoPath]
  /\ mode = [d \in Downloads |-> "keepBoth"]
  /\ cancel = [d \in Downloads |-> FALSE]
  /\ fd = [d \in Downloads |-> None]
  /\ offset = [d \in Downloads |-> 0]
  /\ wrote = [d \in Downloads |-> 0]
  /\ bytes = [f \in Files |-> Empty]
  /\ part = [p \in Paths |-> None]
  /\ final = [p \in Paths |-> None]
  /\ there = [d \in Downloads |-> {}]
  /\ shared = {}

Call(d) ==
  \/ \E r \in Remotes, n \in Names, m \in Modes : Enqueue(d, r, n, m)
  \/ DropQueued(d) \/ Cancel(d)

Work(d) ==
  \/ Start(d) \/ Create(d)
  \/ \E k \in 1 .. ChunkSize : Reply(d, k)
  \/ CopyEnds(d) \/ Verify(d) \/ Land(d)
  \/ IoError(d) \/ NoticeCancel(d)

Next == (\E d \in Downloads : Call(d) \/ Work(d)) \/ Crash

Spec == Init /\ [][Next]_vars

-----------------------------------------------------------------------------
(* What must hold.                                                         *)

Whole(f) ==
  \E r \in Remotes : \A i \in Positions :
    bytes[f][i] = IF i <= Length[r] THEN <<r, i>> ELSE Hole

(* transfer_task.rs:10: "A partial file never looks finished".  Short      *)
(* replies, ends of file too early, cancels, errors and crashes may come   *)
(* in any order: a file under its own name is all of one remote file,      *)
(* unless two downloads were pending for its path at once.  Those write    *)
(* into one staging file, each from its own offset.                        *)
FinalIsWhole == \A p \in Paths \ shared : final[p] # None => Whole(final[p])

(* transfer_task.rs:163: "Every failure below must leave nothing behind".  *)
(* A staging file belongs to a download under way, or a crash left it,     *)
(* whoever shares its path.                                                *)
NothingLeftBehind ==
  \A p \in Paths : part[p] # None =>
    \E d \in Downloads : path[d] = p /\ (Open(d) \/ stage[d] = "lost")

(* A file is where it was, and as it was.                                  *)
Spares(f) ==
  /\ bytes'[f] = bytes[f]
  /\ \A p \in Paths : /\ part[p] = f => part'[p] = f
                      /\ final[p] = f => final'[p] = f

Moves(d) == stage'[d] # stage[d] \/ wrote'[d] # wrote[d]

(* commands.rs:1400: "a caller that forgets to choose cannot destroy       *)
(* anything".  Whatever else is queued for its path, finished or left by a *)
(* crash: no step of a download that is to keep both removes, replaces or  *)
(* rewrites a file, finished or staged, that was there when it was queued. *)
KeepBothKeeps ==
  [][\A d \in Downloads : mode[d] = "keepBoth" /\ Moves(d) =>
       \A f \in there[d] : Spares(f)]_vars

(* The same of every file, which does not hold: available_path cannot see  *)
(* what is queued, and of two queued for one free path the second to land  *)
(* replaces what the first brought.                                        *)
KeepBothKeepsAll ==
  [][\A p \in Paths : final[p] # None /\ final'[p] # final[p] =>
       \E d \in Downloads : Moves(d) /\ path[d] = p /\ mode[d] = "overwrite"]_vars
=============================================================================

------------------------------ MODULE RemoteTree ------------------------------
(***************************************************************************)
(* The walk of a remote folder that is to be transferred: list_dir and     *)
(* walk in remote/sftp.rs, list_remote_tree and the place a file of it is  *)
(* given on this machine (enqueue_download in remote/commands.rs).         *)
(*                                                                         *)
(* A tree is a set of nodes, each with a kind, a name and the node it is   *)
(* in; Root is the folder the walk starts at.  Abstracted: paths, which    *)
(* are sequences of names, sizes and times, and the order of a listing     *)
(* beyond what its ceiling cuts off.                                       *)
(***************************************************************************)
EXTENDS Naturals, Sequences, FiniteSets, FiniteSetsExt, SequencesExt

CONSTANTS
  Root,
  Trees,       \* the trees walked: node -> [kind, name, in]
  Blocked,     \* a set of sets: the folders the server will not list
  MaxEntries, MaxTreeFiles, MaxTreeDepth

VARIABLES
  tree, blocked,
  queue,      \* folders to list, with their depth: a stack
  files,      \* files found
  skipped,    \* nodes passed over and named
  truncated,  \* whether the walk stopped at MaxTreeFiles
  walking

vars == <<tree, blocked, queue, files, skipped, truncated, walking>>

In(dir) == {n \in DOMAIN tree : tree[n].in = dir}

(* What is assumed of the trees: names are those of a file system, where   *)
(* no two in one folder are alike; a file has nothing in it, though a link *)
(* may lead somewhere; and everything is below Root.                       *)
IsTree(t) ==
  /\ IsFiniteSet(DOMAIN t) /\ Root \in DOMAIN t
  /\ t[Root].kind = "dir" /\ t[Root].in \notin DOMAIN t
  /\ \A n \in DOMAIN t \ {Root} :
       /\ t[n].kind \in {"dir", "file", "link", "other"}
       /\ t[n].name \notin {"", ".", ".."}
       /\ t[n].in \in DOMAIN t /\ t[t[n].in].kind # "file"
       /\ \A m \in DOMAIN t \ {Root} :
            t[m].in = t[n].in /\ t[m].name = t[n].name => m = n
  /\ \A S \in SUBSET (DOMAIN t \ {Root}) : S # {} => \E n \in S : t[n].in \notin S
TreeAssumption == MaxEntries \in Nat /\ \A t \in Trees : IsTree(t)

(* No node is further than this from Root.                                 *)
Height(t) == Cardinality(DOMAIN t)

-----------------------------------------------------------------------------
(* normalize: "." and empty parts are dropped, ".." takes the part before  *)
(* it, and nothing climbs above the root.                                  *)
Normalize(path) ==
  FoldLeft(LAMBDA parts, part :
             CASE part \in {"", "."} -> parts
               [] part = ".." -> IF parts = <<>> THEN <<>> ELSE Front(parts)
               [] OTHER -> Append(parts, part),
           <<>>, path)

(* safe_local_name.                                                        *)
Safe(name) == name \notin {"", ".", "..", "a/b", "C:"}

(* A file's path below Root (relative_to), by climbing to it.              *)
Climb(t) ==
  LET climb[steps \in 0 .. Height(t)] == [n \in DOMAIN t |->
        IF steps = 0 \/ n = Root THEN <<>>
        ELSE Append(climb[steps - 1][t[n].in], t[n].name)]
  IN  climb
Relative(n) == Climb(tree)[Height(tree)][n]

(* enqueue_download: the name is the last of the remote path, the folders  *)
(* above it are those of the relative path, and each is checked.           *)
Refuses(path, relative) ==
  \/ ~Safe(Last(Normalize(path)))
  \/ \E i \in DOMAIN Front(relative) : relative[i] # "" /\ ~Safe(relative[i])
LocalTarget(dir, path, relative) ==
  Append(FoldLeft(LAMBDA folder, part : IF part = "" THEN folder ELSE Append(folder, part),
                  dir, Front(relative)),
         Last(Normalize(path)))

-----------------------------------------------------------------------------
(* list_dir: at most MaxEntries of what the server sends, folders first.   *)
Listings(dir) ==
  IF Cardinality(In(dir)) <= MaxEntries THEN {In(dir)} ELSE kSubset(MaxEntries, In(dir))

Of(entries, kind) == {n \in entries : tree[n].kind = kind}

(* Files are taken in the order of the listing until there are too many.   *)
Taken(entries) ==
  LET room == MaxTreeFiles - Cardinality(files)
      found == Of(entries, "file")
  IN  IF Cardinality(found) <= room THEN {found} ELSE kSubset(room, found)

Pop == queue' = Front(queue)

TooDeep ==
  /\ walking /\ queue # <<>> /\ Last(queue).depth > MaxTreeDepth
  /\ skipped' = skipped \cup {Last(queue).dir} /\ Pop
  /\ UNCHANGED <<tree, blocked, files, truncated, walking>>

(* Mutant of SkipUnread: a folder that cannot be read is passed over.      *)
SkipUnreadQuietly(dir) == skipped

SkipUnread(dir) == skipped \cup {dir}

Unreadable ==
  /\ walking /\ queue # <<>> /\ Last(queue).depth <= MaxTreeDepth
  /\ Last(queue).dir \in blocked
  /\ skipped' = SkipUnread(Last(queue).dir) /\ Pop
  /\ UNCHANGED <<tree, blocked, files, truncated, walking>>

(* One folder: its folders go on the stack, its files into the list, and   *)
(* what is neither is named as skipped.  One file too many ends the walk;  *)
(* the files are the last of a listing but for links, which may come       *)
(* before or after the one that ends it.                                   *)
ListOne ==
  /\ walking /\ queue # <<>> /\ Last(queue).depth <= MaxTreeDepth
  /\ Last(queue).dir \notin blocked
  /\ \E entries \in Listings(Last(queue).dir) :
     \E taken \in Taken(entries) :
       LET full == taken # Of(entries, "file")
           dirs == SetToSeq(Of(entries, "dir"))
           others == Of(entries, "link") \cup Of(entries, "other")
       IN  /\ files' = files \cup taken
           /\ truncated' = (truncated \/ full)
           /\ walking' = ~full
           /\ skipped' \in IF full THEN {skipped \cup o : o \in SUBSET others}
                           ELSE {skipped \cup others}
           /\ queue' = Front(queue) \o [i \in DOMAIN dirs |->
                         [dir |-> dirs[i], depth |-> Last(queue).depth + 1]]
  /\ UNCHANGED <<tree, blocked>>

Done ==
  /\ walking /\ queue = <<>>
  /\ walking' = FALSE
  /\ UNCHANGED <<tree, blocked, queue, files, skipped, truncated>>

Init ==
  /\ tree \in Trees /\ blocked \in Blocked
  /\ queue = <<[dir |-> Root, depth |-> 0]>>
  /\ files = {} /\ skipped = {} /\ truncated = FALSE /\ walking = TRUE

Next == TooDeep \/ Unreadable \/ ListOne \/ Done

Spec == Init /\ [][Next]_vars

-----------------------------------------------------------------------------
(* A node and everything it is in.                                         *)
Above(t) ==
  LET above[steps \in 0 .. Height(t)] == [n \in DOMAIN t |->
        IF steps = 0 \/ n = Root THEN {n} ELSE {n} \cup above[steps - 1][t[n].in]]
  IN  above
Up(n) == Above(tree)[Height(tree)][n]

(* Whether what the walk says accounts for a file.                         *)
ToldOf(n) == n \in files \/ truncated \/ Up(n) \cap skipped # {}

Served(n) == <<"srv">> \o Relative(n)
Target(n) == LocalTarget(<<"home">>, Served(n), Relative(n))
RefusedFile(n) == Refuses(Served(n), Relative(n))

Overflows == \E d \in DOMAIN tree : Cardinality(In(d)) > MaxEntries

(* sftp.rs:395: links are never followed and nothing is left out unsaid.   *)
(* When the walk ends it has taken only files that are reached through     *)
(* folders, no two of them to one place on this machine, and every file    *)
(* below the folder is taken, lies in something that is named as skipped,  *)
(* or the walk says it stopped - as long as every folder's entries fit in  *)
(* one listing.                                                            *)
MirrorsTheTree ==
  ~walking =>
    /\ \A f \in files : /\ tree[f].kind = "file"
                        /\ \A d \in Up(f) \ {f} : tree[d].kind = "dir"
    /\ \A f, g \in files : Target(f) = Target(g) /\ ~RefusedFile(f) => f = g
    /\ ~Overflows => \A n \in DOMAIN tree : tree[n].kind = "file" => ToldOf(n)

(* sftp.rs:345: what was passed over is named "so the UI can say what was  *)
(* left out rather than silently transferring less than the user saw".     *)
NothingLeftOutUnsaid ==
  ~walking => \A n \in DOMAIN tree : tree[n].kind = "file" => ToldOf(n)
=============================================================================

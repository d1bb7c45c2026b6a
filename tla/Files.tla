--------------------------------- MODULE Files ---------------------------------
(***************************************************************************)
(* What is kept on this machine and on the hosts, each part by itself:     *)
(* downloads (Downloads), the program's own files (SettingsFiles), the     *)
(* files of a host and the walk of its folders (RemoteFiles, RemoteTree),  *)
(* passwords and host keys (Connecting), what the VPN client said          *)
(* (VpnCache).  The tables that are only read (JumpChain, Danger, TaskPlan,*)
(* VpnClients) are parts without steps: their inputs are the initial       *)
(* states.  A behaviour is one part; all but Downloads take turns in       *)
(* v1 .. v11, in the order of their own variables.                         *)
(***************************************************************************)
EXTENDS Downloads, Sequences, FiniteSets

CONSTANTS
  Pair, NoCall,                                 \* whoever acts at once, in each part
  Ids, Pinned, Stampers, Forms, MaxOps,         \* SettingsFiles
  Browsers, RemoteVariants, Chunks, MaxRemoteTurns,   \* RemoteFiles
  Root, Trees, Blocked, MaxEntries, MaxTreeFiles, MaxTreeDepth,   \* RemoteTree
  Hosts, NoHost, Keys, NoKey, Algorithm, Passwords, NoPassword, Layouts, AtOnce,
  Presented, MaxHops, MaxLines, MaxChanges,                \* Connecting
  Lists, StatusTtl, ResourceTtl, MaxTime, MaxClientTurns,   \* VpnCache
  Stores, HopLimits,                            \* what JumpChain is asked,
  Commands,                                     \* Danger,
  Catalog, Presses,                             \* TaskPlan
  Bits, CgnatBase, CgnatPrefix, PCs, Addresses, Resources   \* and VpnClients

VARIABLES area, v1, v2, v3, v4, v5, v6, v7, v8, v9, v10, v11

Lent == <<v1, v2, v3, v4, v5, v6, v7, v8, v9, v10, v11>>
Unused == 0
From8 == v8 = Unused /\ v9 = Unused /\ v10 = Unused /\ v11 = Unused
From5 == v5 = Unused /\ v6 = Unused /\ v7 = Unused /\ From8
Same8 == UNCHANGED <<v8, v9, v10, v11>>

-----------------------------------------------------------------------------
Se == INSTANCE SettingsFiles WITH
  inode <- v1, tmp <- v2, final <- v3, act <- v4, ops <- v5, saved <- v6, mixed <- v7

Rf == INSTANCE RemoteFiles WITH
  Uploads <- Pair, Calls <- Browsers, MaxVariant <- RemoteVariants, Length <- Chunks,
  MaxTurns <- MaxRemoteTurns,
  at <- v1, up <- v2, cancel <- v3, source <- v4, call <- v5, channel <- v6, turns <- v7

Tr == INSTANCE RemoteTreeProofs WITH
  tree <- v1, blocked <- v2, queue <- v3, files <- v4, skipped <- v5,
  truncated <- v6, walking <- v7

Co == INSTANCE ConnectingProofs WITH
  Calls <- Pair,
  saved <- v1, file <- v2, known <- v3, vault <- v4, accepts <- v5, changes <- v6,
  call <- v7, sent <- v8, refused <- v9, overlapped <- v10

Vc == INSTANCE VpnCache WITH
  Calls <- Pair, MaxTurns <- MaxClientTurns,
  now <- v1, online <- v2, granted <- v3, turns <- v4, slot <- v5, lock <- v6,
  reading <- v7, call <- v8, memory <- v9, disk <- v10, forgot <- v11

Da == INSTANCE Danger
Ta == INSTANCE TaskPlan
Vp == INSTANCE VpnClients

(* What the proofs assume of the constants.  The store keeps one task of   *)
(* an id, and a saved task has an id no built-in has (tasks/store.rs,      *)
(* tasks/commands.rs).                                                     *)
PressAssumption ==
  \A press \in Presses :
    /\ press.blockFrom \in Nat /\ DOMAIN press.saved \subseteq Nat
    /\ \A i \in DOMAIN press.saved : press.saved[i].elevated \in BOOLEAN
    /\ \A i, j \in DOMAIN press.saved : press.saved[i].id = press.saved[j].id => i = j
    /\ \A i \in DOMAIN press.saved, b \in Catalog : press.saved[i].id # b.id

ASSUME PartsAssumption ==
  /\ Se!StoreAssumption /\ Co!ConnectAssumption /\ Tr!TreeAssumption
  /\ "host" \notin Pair /\ RemoteVariants \in Nat /\ Chunks \in Nat \ {0}
  /\ (\A jump \in Stores : NoHost \notin DOMAIN jump) /\ HopLimits \subseteq Nat
  /\ Commands \subseteq Seq(Da!Words) \ {<<>>} /\ PressAssumption

-----------------------------------------------------------------------------
AnyInit ==
  /\ Init
  /\ \/ area = "downloads" /\ v1 = Unused /\ v2 = Unused /\ v3 = Unused /\ v4 = Unused /\ From5
     \/ area = "settings" /\ Se!Init /\ From8
     \/ area = "remote" /\ Rf!Init /\ From8
     \/ area = "tree" /\ Tr!Init /\ From8
     \/ area = "connect" /\ Co!Init /\ v11 = Unused
     \/ area = "vpn" /\ Vc!Init
     \/ /\ area = "chain" /\ v1 \in Stores /\ v2 \in DOMAIN v1 /\ v3 \in HopLimits
        /\ v4 = Unused /\ From5
     \/ /\ area = "rating" /\ v1 \in Da!Families /\ v2 \in Commands /\ v4 \in Commands
        /\ v3 \in {"glued", "line", "&&", ";", "|"} /\ From5
     \/ area = "press" /\ v1 \in Presses /\ v2 = Unused /\ v3 = Unused /\ v4 = Unused /\ From5
     \/ /\ area = "advice" /\ v1 \in PCs /\ v2 \in Addresses /\ v3 \in Resources
        /\ v4 = Unused /\ From5

AnyNext ==
  /\ UNCHANGED area
  /\ \/ area = "downloads" /\ Next /\ UNCHANGED Lent
     \/ /\ UNCHANGED vars
        /\ \/ area = "settings" /\ Se!Next /\ Same8
           \/ area = "remote" /\ Rf!Next /\ Same8
           \/ area = "tree" /\ Tr!Next /\ Same8
           \/ area = "connect" /\ Co!Next /\ UNCHANGED v11
           \/ area = "vpn" /\ Vc!Next

AnySpec == AnyInit /\ [][AnyNext]_<<vars, area, Lent>>

-----------------------------------------------------------------------------
(* private_file.rs:32, as far as it goes: as long as no two commands write *)
(* one file at once, it is what the last of them left (write).             *)
IntactAlone == area = "settings" => Se!TypeOK /\ Se!IntactAlone

(* private_file.rs:33: "replacing any existing file atomically", whoever   *)
(* else writes (write).                                                    *)
ReplacedAtomically == area = "settings" => Se!ReplacedAtomically

(* transfer_task.rs:301: an upload that is done has sent the whole file,   *)
(* and nothing else is in what it left (upload, verify_length).            *)
DoneIsWhole == area = "remote" => Rf!DoneIsWhole

(* commands.rs:1400: with KeepBoth nothing of another upload is destroyed  *)
(* (enqueue_upload).                                                       *)
KeepBothDestroysNothing ==
  [][area = "remote" =>
      \A u, v \in Pair : u # v /\ v2[u].mode = "keepBoth" /\ v2[v].mode = "keepBoth"
        => ~\E p \in Rf!Paths : v1[p].of = u /\ v1'[p].of = v]_Lent

(* sftp.rs:395: a walk takes what is below the folder, follows no link and *)
(* says what it left out, where every listing fits (walk).                 *)
MirrorsTheTree == area = "tree" => Tr!MirrorsTheTree

(* sftp.rs:345: nothing is left out unsaid (walk, list_dir).               *)
NothingLeftOutUnsaid == area = "tree" => Tr!NothingLeftOutUnsaid

(* client.rs:3: no credential goes to a key nobody vouched for             *)
(* (check_server_key, connect_host).                                       *)
KeyBeforeCredential == area = "connect" => Co!TypeOK /\ Co!KeyBeforeCredential

(* secrets.rs:52: a password the target refused is not kept                *)
(* (connect_host).                                                         *)
RefusedNotKept == area = "connect" => Co!RefusedNotKept

(* cache.rs:31: what a forced call is given was read after it asked, or by *)
(* a load that was under way then (get).                                   *)
FreshUnlessShared == area = "vpn" => Vc!FreshUnlessShared

(* The chain of jump hosts is found where there is one, and its absence is *)
(* said where there is none (resolve in remote/jump.rs).                   *)
Resolves == area = "chain" => Co!Resolves(v1, v2, NoHost, v3)

(* danger.rs:129, for what the rules keep: joining two commands by a       *)
(* separator loses no reason (assess).                                     *)
BothAreAssessed == area = "rating" => Da!BothAreAssessed(v1, v2, v3, v4)


(* tasks/commands.rs:283, model.rs:234: the list of a host offers what may *)
(* start on it and nothing else, and what starts runs as root exactly when *)
(* it is said to (list_host_tasks, resolve, plan, start_task).             *)
StartsAsOffered ==
  area = "press" =>
    /\ Ta!OfferedIsResolved(Catalog, v1.saved, v1.host, v1.os)
    /\ Ta!StartsAsSaid(Catalog, v1.saved, v1.host, v1.os, v1.elevation, v1.asked,
                       v1.blockFrom)

(* vpn/mod.rs:208: the glyph of an address and the advice about it blame   *)
(* the same VPN, and only one that is down (bind, explain_unreachable).    *)
BlamesTheOwner == area = "advice" => Vp!BlamesTheOwner(v1, v2, v3)
=============================================================================

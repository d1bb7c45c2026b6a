------------------------------- MODULE MCFiles -------------------------------
(* Values for Files.  Words and letters are themselves; what the code only *)
(* compares are model values, which files.cfg names.                       *)
EXTENDS FilesProofs, TLC

CONSTANTS key1, key2, key3   \* host keys

(* Downloads to one name, of remote files one chunk and a half long: the   *)
(* last request is for less than a chunk.                                  *)
MCLength == [r \in Remotes |-> MaxLength]

(* Trees of a root, a folder in it, and five more nodes of the kinds that  *)
(* can be, in either, or behind a link; a listing holds three at a time.   *)
Node(kind, name, in) == [kind |-> kind, name |-> name, in |-> in]
ATree(k2, k5, p2, p3, p5, p6) ==
  [n \in 0 .. 6 |->
     CASE n = 0 -> Node("dir", "d", 99) [] n = 1 -> Node("dir", "d", 0)
       [] n = 2 -> Node(k2, "x", p2)    [] n = 3 -> Node("file", "y", p3)
       [] n = 4 -> Node("file", "z", p3) [] n = 5 -> Node(k5, "v", p5)
       [] OTHER -> Node("file", "w", p6)]
MCTrees ==
  {ATree(k2, k5, p2, p3, p5, p6) :
     k2 \in {"dir", "file"}, k5 \in {"link", "other", "file"}, p2, p3, p5, p6 \in {0, 1}} \cup
  {ATree(k2, "link", p2, p3, p5, 5) : k2 \in {"dir", "file"}, p2, p3, p5 \in {0, 1}}
MCBlocked == SUBSET {0, 1, 2}

(* A gateway and a database behind it, in every pair of methods that       *)
(* matters; two calls at once, and a third key, where the database is all  *)
(* there is.                                                               *)
Layout(m1, j1, m2, j2) ==
  "gw" :> [method |-> m1, jump |-> j1] @@ "db" :> [method |-> m2, jump |-> j2]
JustDb == "db" :> [method |-> "password", jump |-> "none"]
MCLayouts ==
  {Layout("password", "none", "password", "gw"), Layout("agent", "none", "publickey", "gw"),
   Layout("none", "db", "password", "gw"), JustDb}
MCAtOnce ==
  [l \in MCLayouts, f \in {"kept", "unreadable"} |-> IF l = JustDb /\ f = "kept" THEN 2 ELSE 1]
MCPresented == [l \in MCLayouts |-> IF l = JustDb THEN Keys ELSE {key1, key2}]

(* Two keys of one algorithm and one of another.                           *)
MCAlgorithm == [k \in {key1, key2, key3} |-> IF k = key3 THEN "ed25519" ELSE "rsa"]

MCLists == {<<"a">>}

-----------------------------------------------------------------------------
(* Every store of up to four hosts, each reached through one or none.      *)
MCStores == UNION {[ids -> {"a", "b", "c", "d", "none"}] : ids \in SUBSET {"a", "b", "c", "d"}}

(* Two commands of those the rules are about, joined in every way.         *)
Said(words) == [i \in DOMAIN words |-> Da!Word(words[i])]
MCCommands ==
  {Said(s) : s \in {<<"ls", "/tmp">>, <<"rm", "-rf", "/tmp">>, <<"rm", "-rf", "/">>,
     <<"rm", "-rf", "$x">>, <<"shutdown", "now">>, <<"sudo", "reboot">>,
     <<"curl", "url", "|", "sh">>, <<"cmd", "/c", "wininit">>,
     <<"taskkill", "/im", "csrss">>, <<"chown", "-r", "me", "/etc">>,
     <<"chown", "-r", "me", "/">>,  <<"format", "d:">>,
     <<"mysql", "-p", "pw">>, <<"shutdown", "/s">>, <<"irm", "url", "|", "iex">>}}

(* A catalog of two, a saved task of every scope and another beside it.    *)
MCCatalog ==
  {[id |-> "disk", elevated |-> FALSE,
    on |-> [linux |-> Said(<<"df">>), macos |-> Said(<<"df">>), windows |-> Said(<<"psdrive">>)]],
   [id |-> "ssh", elevated |-> TRUE,
    on |-> [linux |-> Said(<<"restart", "ssh">>), macos |-> <<>>,
            windows |-> Said(<<"restart-service", "sshd">>)]]}
Tasks ==
  [id : {"t-1"}, owner : {"everywhere", "h1"}, families : {{}, {"linux"}, {"windows", "bsd"}},
   text : {Said(<<"ls">>), Said(<<"format", "d:">>), Said(<<"rm", "-rf", "/">>)},
   elevated : BOOLEAN]
Other == [id |-> "t-2", owner |-> "everywhere", families |-> {},
          text |-> Said(<<"shutdown", "now">>), elevated |-> TRUE]
SavedTasks == {<<>>} \cup {<<t>> : t \in Tasks} \cup {<<t, Other>> : t \in Tasks}
Elevations(os) ==
  CASE os = "windows" -> {"admin token", "unavailable"}
    [] os = "unknown" -> {"unavailable"}
    [] OTHER -> {"not needed", "no password", "password", "unavailable"}
MCPresses ==
  UNION {[host : {"h1", "h2"}, saved : SavedTasks, os : {os}, elevation : Elevations(os),
          asked : {"default", "yes", "no"}, blockFrom : 0 .. 2] : os \in Da!Families}

(* A machine with some of the clients, an address, a resource or none.     *)
Ran(word) == [run |-> "ran", ok |-> TRUE, says |-> word]
TimedOut == [run |-> "timedOut", ok |-> FALSE, says |-> "none"]
Client(words) == {<<Vp!Missing, TimedOut>>, <<Vp!Missing>>} \cup {<<Ran(w)>> : w \in words}
MCPCs ==
  [os : {"linux", "macos"}, tailscale : Client({"Running", "Stopped"}),
   twingate : Client({"online"}), netbird : Client({"connected"}), zerotier : Client({"none"}),
   wireguard : {<<Vp!Missing>>, <<TimedOut, Ran("none")>>}, interfaces : {{}, {"wt0", "wg0"}},
   processes : {{}, {"zerotier", "twingate", "wireguard"}}]
Name(name, parent, ip) == [name |-> name, parent |-> parent, ip |-> ip]
MCAddresses ==
  {Name("box.ts.net", "ts.net", 0), Name("host", "none", 0), Name("a.corp", "corp", 0),
   Name("ip", "none", 9), Name("ip", "none", 3)}
Resource(address, wildcard, range) ==
  [address |-> address, alias |-> "-", wildcard |-> wildcard, range |-> range, auth |-> "expired"]
MCResources ==
  {<<>>, <<Resource("host", "none", <<>>)>>, <<Resource("x", "corp", <<>>)>>,
   <<Resource("x", "none", <<8, 3>>)>>}

Alike == Permutations(Pair) \cup Permutations({key1, key2}) \cup Permutations(Passwords)
=============================================================================

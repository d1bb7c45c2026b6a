----------------------------- MODULE Connecting -----------------------------
(***************************************************************************)
(* What a connection proves and what it gives away: connect_host, its jump *)
(* chain and its credentials (remote/commands.rs), the host key check and  *)
(* the authentication (remote/client.rs), the passwords kept until the     *)
(* program ends (remote/secrets.rs).                                       *)
(*                                                                         *)
(* Two calls may run at once.  Whoever answers at an address presents any  *)
(* key; a server's password may be changed under the one that is kept.     *)
(*                                                                         *)
(* Abstracted: the bytes of the handshake (one step per hop for the key    *)
(* exchange, one for the authentication), passphrases of key files, and    *)
(* what becomes of the session after it is authenticated (Sessions).  No   *)
(* two saved connections have one address: known_hosts goes by address.    *)
(***************************************************************************)
EXTENDS JumpChain, FiniteSets

CONSTANTS
  Hosts, NoHost,          \* saved connections
  Passwords, NoPassword,
  Keys, NoKey,            \* host keys
  Algorithm,              \* key -> the algorithm it is of
  Calls,                  \* calls of connect_host that may run at once
  Layouts,                \* what the store may say: host -> [method, jump]
  AtOnce,                 \* bound: layout, file -> calls that run at once
  Presented,              \* bound: layout -> keys its servers may present
  MaxHops,                \* MAX_HOPS
  MaxLines,               \* bound: keys known_hosts has for a host at first
  MaxChanges              \* bound: passwords changed on their servers

VARIABLES
  saved,     \* the store; some hosts may not be in it
  file,      \* known_hosts is "kept", or can be neither read nor written
  known,     \* host -> the keys known_hosts has for it
  vault,     \* host -> the password kept for it
  accepts,   \* host -> the password its server accepts
  changes,   \* passwords changed so far
  call,      \* call -> what it is doing
  sent,      \* the credentials that have left the machine
  refused,   \* <<host, password, as>> its server refused since it last took it
  overlapped \* hosts whose key two calls were about to write down at once

vars == <<saved, file, known, vault, accepts, changes, call, sent, refused, overlapped>>

Methods == {"password", "publickey", "agent", "none"}
Records == [method : Methods, jump : Hosts \cup {NoHost}]

(* What the proofs assume of the constants.                                *)
ConnectAssumption ==
  /\ NoKey \notin Keys /\ Keys \subseteq DOMAIN Algorithm
  /\ NoPassword \notin Passwords /\ NoHost \notin Hosts
  /\ Layouts \subseteq UNION {[D -> Records] : D \in SUBSET Hosts}
  /\ MaxHops \in Nat /\ MaxChanges \in Nat

Idle == [stage |-> "idle", host |-> NoHost, todo |-> <<>>, own |-> NoPassword,
         offer |-> NoPassword, key |-> NoKey, sure |-> FALSE, trust |-> FALSE,
         remember |-> FALSE]

TypeOK ==
  /\ DOMAIN saved \subseteq Hosts /\ saved \in [DOMAIN saved -> Records]
  /\ file \in {"kept", "unreadable"}
  /\ known \in [Hosts -> SUBSET Keys]
  /\ vault \in [Hosts -> Passwords \cup {NoPassword}]
  /\ accepts \in [Hosts -> Passwords]
  /\ changes \in 0 .. MaxChanges
  /\ \A c \in Calls :
       /\ call[c].stage \in {"idle", "chain", "dial", "learn", "auth", "account"}
       /\ call[c].stage # "idle" => call[c].host \in Hosts
       /\ call[c].stage \in {"chain", "dial", "learn", "auth"} => call[c].todo # <<>>
  /\ sent \subseteq [host : Hosts, key : Keys, allowed : BOOLEAN]
  /\ refused \subseteq Hosts \X Passwords \X {"target", "hop"}
  /\ overlapped \subseteq Hosts

Jumps == [h \in DOMAIN saved |-> saved[h].jump]

-----------------------------------------------------------------------------
(* SecretVault.                                                            *)
Remember(h, p) == vault' = [vault EXCEPT ![h] = p]
Forget(h) == vault' = [vault EXCEPT ![h] = NoPassword]

ForgetPassword(h) ==
  /\ vault[h] # NoPassword
  /\ Forget(h)
  /\ UNCHANGED <<saved, file, known, accepts, changes, call, sent, refused, overlapped>>

(* build_credentials: what is typed goes before what is kept.  For a key   *)
(* it is the passphrase; the other methods take nothing.                   *)
Offer(h, typed) ==
  CASE saved[h].method = "password" -> IF typed # NoPassword THEN typed ELSE vault[h]
    [] saved[h].method = "publickey" -> typed
    [] OTHER -> NoPassword

CanOffer(h, typed) ==
  saved[h].method = "password" => Offer(h, typed) # NoPassword

-----------------------------------------------------------------------------
(* connect_host.                                                           *)

(* The call up to its first wait: the record, the credential of the target *)
(* and the chain.  A call that finds one of them missing returns at once.  *)
Connect(c, h, typed, remember, trust) ==
  LET chain == Resolve(Jumps, h, NoHost, MaxHops) IN
  /\ call[c] = Idle /\ Cardinality({d \in Calls : call[d] # Idle}) < AtOnce[saved, file]
  /\ h \in DOMAIN saved /\ CanOffer(h, typed)
  /\ chain.error = ""
  /\ call' = [call EXCEPT ![c] =
       [stage |-> "chain", host |-> h, todo |-> Append(chain.hops, h), own |-> Offer(h, typed),
        offer |-> NoPassword, key |-> NoKey, sure |-> FALSE, trust |-> trust,
        remember |-> remember]]
  /\ UNCHANGED <<saved, file, known, vault, accepts, changes, sent, refused, overlapped>>

AtTarget(c) == Len(call[c].todo) = 1
Peer(c) == Head(call[c].todo)

(* open_jump_chain: a hop is offered what is kept for it and nothing else. *)
(* The target's credential was read when the call began.                   *)
NextHop(c) ==
  /\ call[c].stage = "chain"
  /\ AtTarget(c) \/ CanOffer(Peer(c), NoPassword)
  /\ call' = [call EXCEPT ![c].stage = "dial",
                          ![c].offer = IF AtTarget(c) THEN @ ELSE Offer(Peer(c), NoPassword)]
  /\ UNCHANGED <<saved, file, known, vault, accepts, changes, sent, refused, overlapped>>

(* A hop that cannot be offered anything ends the call; nobody's password  *)
(* is forgotten for that.                                                  *)
HopWithout(c) ==
  /\ call[c].stage = "chain" /\ ~AtTarget(c) /\ ~CanOffer(Peer(c), NoPassword)
  /\ call' = [call EXCEPT ![c] = Idle]
  /\ UNCHANGED <<saved, file, known, vault, accepts, changes, sent, refused, overlapped>>

(* Mutant of Consent: what was answered for the target holds all the way.  *)
ConsentForAll(c) == call[c].trust

(* Consent is about the target's key: connect_reporting is given FALSE at  *)
(* every hop.                                                              *)
Consent(c) == call[c].trust /\ AtTarget(c)

(* check_known_hosts_path: a line of the key's own algorithm with another  *)
(* key is a change, whatever the other lines say; a key of an algorithm    *)
(* the host has no line of is unknown.                                     *)
Recorded(h, k) == {j \in known[h] : Algorithm[j] = Algorithm[k]}
WasKnown(h, k) == file = "kept" /\ Recorded(h, k) = {k}
Changed(h, k) == file = "kept" /\ ~(Recorded(h, k) \subseteq {k})
Unknown(h, k) == ~WasKnown(h, k) /\ ~Changed(h, k)

(* Mutant of Drops: a call that was given a password to remember keeps it. *)
DropsTyped(c) == AtTarget(c) /\ saved[call[c].host].method = "password" /\ ~call[c].remember

(* The call's end with an error: only when it was the target that was      *)
(* dialled is the target's kept password dropped, whatever went wrong.     *)
Drops(c) == AtTarget(c) /\ saved[call[c].host].method = "password"

Fail(c) ==
  /\ call' = [call EXCEPT ![c] = Idle]
  /\ IF Drops(c) THEN Forget(call[c].host) ELSE UNCHANGED vault

(* connect_inner, up to the end of the key exchange.                       *)
DialFails(c) ==
  /\ call[c].stage = "dial"
  /\ Fail(c)
  /\ UNCHANGED <<saved, file, known, accepts, changes, sent, refused, overlapped>>

(* Handler::check_server_key, which runs in the task of its own session    *)
(* and locks nothing.                                                      *)
KeyRefused(c, k) ==
  /\ call[c].stage = "dial"
  /\ Changed(Peer(c), k) \/ (Unknown(Peer(c), k) /\ ~Consent(c))
  /\ Fail(c)
  /\ UNCHANGED <<saved, file, known, accepts, changes, sent, refused, overlapped>>

KeyMatches(c, k) ==
  /\ call[c].stage = "dial" /\ WasKnown(Peer(c), k)
  /\ call' = [call EXCEPT ![c].stage = "auth", ![c].key = k, ![c].sure = TRUE]
  /\ UNCHANGED <<saved, file, known, vault, accepts, changes, sent, refused, overlapped>>

(* The key is unknown and the user has said yes; it is written down next.  *)
Learning(h) == {c \in Calls : call[c].stage = "learn" /\ Peer(c) = h}

KeyConsented(c, k) ==
  /\ call[c].stage = "dial" /\ Unknown(Peer(c), k) /\ Consent(c)
  /\ call' = [call EXCEPT ![c].stage = "learn", ![c].key = k]
  /\ overlapped' = overlapped \cup (IF Learning(Peer(c)) = {} THEN {} ELSE {Peer(c)})
  /\ UNCHANGED <<saved, file, known, vault, accepts, changes, sent, refused>>

(* learn_known_hosts_path adds a line, or fails and nobody looks.          *)
KeyLearned(c) ==
  /\ call[c].stage = "learn"
  /\ known' = IF file = "kept" THEN [known EXCEPT ![Peer(c)] = @ \cup {call[c].key}] ELSE known
  /\ call' = [call EXCEPT ![c].stage = "auth"]
  /\ UNCHANGED <<saved, file, vault, accepts, changes, sent, refused, overlapped>>

(* authenticate.  What leaves the machine, and to which key.               *)
Secret(c) == IF AtTarget(c) THEN call[c].own ELSE call[c].offer

Send(c) ==
  sent' = IF saved[Peer(c)].method = "none" THEN sent ELSE
    sent \cup {[host |-> Peer(c), key |-> call[c].key,
                allowed |-> call[c].sure \/ (call[c].trust /\ Peer(c) = call[c].host)]}

(* What the server says of a password, if it was asked for one.            *)
Note(c, taken) ==
  LET h == Peer(c)  p == Secret(c) IN
  refused' = IF saved[h].method # "password" THEN refused
             ELSE IF taken THEN refused \ {<<h, p, "target">>, <<h, p, "hop">>}
             ELSE refused \cup {<<h, p, IF AtTarget(c) THEN "target" ELSE "hop">>}

MayTake(c) == saved[Peer(c)].method = "password" => Secret(c) = accepts[Peer(c)]
MayRefuse(c) == saved[Peer(c)].method = "password" => Secret(c) # accepts[Peer(c)]

(* A hop is gone through, or the target is reached; then, before anything  *)
(* else is waited for, the password it took is kept if that was asked.     *)
Accepted(c) ==
  /\ call[c].stage = "auth" /\ MayTake(c)
  /\ Send(c) /\ Note(c, TRUE)
  /\ call' = [call EXCEPT ![c].stage = IF AtTarget(c) THEN "account" ELSE "chain",
                          ![c].todo = Tail(@), ![c].offer = NoPassword,
                          ![c].key = NoKey, ![c].sure = FALSE]
  /\ IF AtTarget(c) /\ call[c].remember /\ saved[call[c].host].method = "password"
       THEN Remember(call[c].host, Secret(c)) ELSE UNCHANGED vault
  /\ UNCHANGED <<saved, file, known, accepts, changes, overlapped>>

Rejected(c) ==
  /\ call[c].stage = "auth" /\ MayRefuse(c)
  /\ Send(c) /\ Note(c, FALSE)
  /\ Fail(c)
  /\ UNCHANGED <<saved, file, known, accepts, changes, overlapped>>

(* A key file that cannot be loaded, an agent that is not there or holds   *)
(* no keys: the call ends before anything is sent.                         *)
NothingToSend(c) ==
  /\ call[c].stage = "auth" /\ saved[Peer(c)].method \in {"publickey", "agent"}
  /\ Fail(c)
  /\ UNCHANGED <<saved, file, known, accepts, changes, sent, refused, overlapped>>

(* check_privileges, platform::detect, touch and insert follow; each may   *)
(* fail, and none of them touches the vault.                               *)
Return(c) ==
  /\ call[c].stage = "account"
  /\ call' = [call EXCEPT ![c] = Idle]
  /\ UNCHANGED <<saved, file, known, vault, accepts, changes, sent, refused, overlapped>>

(* Somebody changes the password on the server.                            *)
ChangePassword(h, p) ==
  /\ changes < MaxChanges /\ h \in DOMAIN saved /\ accepts[h] # p
  /\ accepts' = [accepts EXCEPT ![h] = p]
  /\ changes' = changes + 1
  /\ refused' = {r \in refused : <<r[1], r[2]>> # <<h, p>>}
  /\ UNCHANGED <<saved, file, known, vault, call, sent, overlapped>>

-----------------------------------------------------------------------------
Init ==
  /\ saved \in Layouts
  /\ file \in {"kept", "unreadable"}
  /\ known \in {f \in [Hosts -> SUBSET Keys] :
                 \A h \in Hosts : Cardinality(f[h]) <= IF h \in DOMAIN saved THEN MaxLines ELSE 0}
  /\ vault = [h \in Hosts |-> NoPassword]
  /\ accepts \in [Hosts -> Passwords]
  /\ changes = 0
  /\ call = [c \in Calls |-> Idle]
  /\ sent = {}
  /\ refused = {}
  /\ overlapped = {}

Next ==
  \/ \E c \in Calls :
       \/ \E h \in Hosts, typed \in Passwords \cup {NoPassword}, remember, trust \in BOOLEAN :
            Connect(c, h, typed, remember, trust)
       \/ NextHop(c) \/ HopWithout(c) \/ DialFails(c)
       \/ \E k \in Keys \cap Presented[saved] : KeyRefused(c, k) \/ KeyMatches(c, k) \/ KeyConsented(c, k)
       \/ KeyLearned(c)
       \/ Accepted(c) \/ Rejected(c) \/ NothingToSend(c) \/ Return(c)
  \/ \E h \in Hosts : ForgetPassword(h) \/ \E p \in Passwords : ChangePassword(h, p)

Spec == Init /\ [][Next]_vars

-----------------------------------------------------------------------------
(* client.rs:3: the key is decided on "before any credential is sent", and *)
(* commands.rs:1059: consent "was about a different machine's key".  What  *)
(* has been sent to a host went to the key known for it, or to a target    *)
(* whose key the user had just consented to; and where known_hosts is      *)
(* kept, that key is its only line of its algorithm, so that no other key  *)
(* is ever sent anything, unless two calls learnt a key of the host at     *)
(* once (check_server_key).                                                *)
KeyBeforeCredential ==
  /\ \A s \in sent : s.allowed
  /\ file = "kept" =>
       \A s \in sent : s.host \notin overlapped => Recorded(s.host, s.key) = {s.key}

(* commands.rs:167: "Never replay a rejected password: repeated failures   *)
(* lock accounts".  No password is kept for a host that refused it when it *)
(* was connected to, whatever another call remembers in the meantime.      *)
RefusedNotKept ==
  \A h \in Hosts : <<h, vault[h], "target">> \notin refused

(* secrets.rs:52: forget is "used when the credential is rejected, so a    *)
(* stale password is not retried forever".  The same of a host that is     *)
(* gone through on the way to another.                                     *)
RefusedByHopNotKept ==
  \A h \in Hosts : <<h, vault[h], "hop">> \notin refused

(* ConnectDialog.tsx:194: the key is saved to known_hosts "and checked     *)
(* automatically from now on".  What KeyBeforeCredential says, even of two *)
(* calls at once: each looks before either writes, both are consented to,  *)
(* and the host ends with two lines, against either of which any key of    *)
(* that algorithm has changed.                                             *)
OneKeyOfAKind ==
  file = "kept" => \A s \in sent : Recorded(s.host, s.key) = {s.key}
=============================================================================

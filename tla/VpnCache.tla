------------------------------- MODULE VpnCache -------------------------------
(***************************************************************************)
(* The two cached answers about Twingate and the list that is remembered:  *)
(* TtlCache (vpn/cache.rs), statuses and resources (vpn/mod.rs), resolve   *)
(* with reconcile (vpn/remembered.rs) and the command that asks for them   *)
(* (vpn/commands.rs).                                                      *)
(*                                                                         *)
(* A cache is locked across a load, so the callers of one load wait for    *)
(* it; the two caches are loaded side by side and age differently.         *)
(*                                                                         *)
(* The clock is coarse and an Instant is not: a person presses refresh at  *)
(* no instant at which an answer comes in.                                 *)
(*                                                                         *)
(* Abstracted: the other clients' statuses, which travel in the same       *)
(* answer, and the list, which is <<>> or one of Lists.                    *)
(***************************************************************************)
EXTENDS Naturals, Sequences

CONSTANTS
  Calls,        \* callers at once
  NoCall,
  Lists,        \* resource lists that are not empty
  StatusTtl, ResourceTtl,
  MaxTime,      \* bound: the clock
  MaxTurns      \* bound: times the client or its administrator acts

VARIABLES
  now,      \* the clock
  online,   \* the client's service runs and is connected
  granted,  \* the list its administrator grants, <<>> when none
  turns,    \* times online or granted changed
  slot,     \* cache -> <<>> or <<[value, at, from]>>
  lock,     \* cache -> the call that loads it, or NoCall
  reading,  \* cache -> what the load in progress read, or <<>>
  call,     \* call -> [fresh, asked, got : cache -> <<>> or <<answer>>, under,
            \*          shares : caches being loaded when a forced call asked]
  memory,   \* the list remembered in the process, or <<>>
  disk,     \* the list remembered in its file, or <<>>
  forgot    \* the answer the last forgetting rests on, or <<>>

vars == <<now, online, granted, turns, slot, lock, reading, call, memory, disk, forgot>>
worldVars == <<online, granted, turns>>

Caches == {"status", "resources"}
Ttl(k) == IF k = "status" THEN StatusTtl ELSE ResourceTtl
Nothing == [k \in Caches |-> <<>>]
NoOne == [fresh |-> "cached", asked |-> 0, got |-> Nothing, under |-> FALSE,
          shares |-> {}]

-----------------------------------------------------------------------------
(* The world.                                                              *)
Tick ==
  /\ now < MaxTime /\ now' = now + 1
  /\ UNCHANGED <<worldVars, slot, lock, reading, call, memory, disk, forgot>>

Turn(on, list) ==
  /\ turns < MaxTurns /\ <<on, list>> # <<online, granted>>
  /\ online' = on /\ granted' = list /\ turns' = turns + 1
  /\ UNCHANGED <<now, slot, lock, reading, call, memory, disk, forgot>>

(* What the client says: its status; its list, which it cannot give, or    *)
(* gives as an empty table, while its service is down.                     *)
Says(k) ==
  IF k = "status" THEN {[list |-> <<"none">>, online |-> online]}
  ELSE IF online THEN {[list |-> <<"some", granted>>, online |-> TRUE]}
       ELSE {[list |-> <<"none">>, online |-> FALSE],
             [list |-> <<"some", <<>>>>, online |-> FALSE]}

-----------------------------------------------------------------------------
Ask(c, fresh) ==
  /\ ~call[c].under
  /\ fresh = "forced" => \A k \in Caches : slot[k] # <<>> => slot[k][1].at < now
  /\ call' = [call EXCEPT ![c] = [fresh |-> fresh, asked |-> now, got |-> Nothing,
                                  under |-> TRUE,
                                  shares |-> {k \in Caches : fresh = "forced" /\ lock[k] # NoCall}]]
  /\ UNCHANGED <<now, worldVars, slot, lock, reading, memory, disk, forgot>>

Waits(c, k) == call[c].under /\ call[c].got[k] = <<>> /\ lock[k] = NoCall

(* Mutant of Usable: a forced call takes what a poll would take.           *)
UsableByTtl(k, entry, c) == now - entry.at < Ttl(k)

(* get, once it holds the slot.                                            *)
Usable(k, entry, c) ==
  IF call[c].fresh = "cached" THEN now - entry.at < Ttl(k) ELSE entry.at >= call[c].asked

Hit(c, k) ==
  /\ Waits(c, k) /\ slot[k] # <<>> /\ Usable(k, slot[k][1], c)
  /\ call' = [call EXCEPT ![c].got[k] = slot[k]]
  /\ UNCHANGED <<now, worldVars, slot, lock, reading, memory, disk, forgot>>

Load(c, k) ==
  /\ Waits(c, k) /\ ~(slot[k] # <<>> /\ Usable(k, slot[k][1], c))
  /\ lock' = [lock EXCEPT ![k] = c]
  /\ UNCHANGED <<now, worldVars, slot, reading, call, memory, disk, forgot>>

(* The client reads its state, and the answer is here a moment later; from *)
(* is when it was read.                                                    *)
ClientAnswers(k) ==
  /\ lock[k] # NoCall /\ reading[k] = <<>>
  /\ \E said \in Says(k) : reading' = [reading EXCEPT ![k] = <<[value |-> said, from |-> now]>>]
  /\ UNCHANGED <<now, worldVars, slot, lock, call, memory, disk, forgot>>

Loaded(k) ==
  /\ reading[k] # <<>>
  /\ LET entry == [value |-> reading[k][1].value, at |-> now, from |-> reading[k][1].from] IN
     /\ slot' = [slot EXCEPT ![k] = <<entry>>]
     /\ call' = [call EXCEPT ![lock[k]].got[k] = <<entry>>]
  /\ lock' = [lock EXCEPT ![k] = NoCall]
  /\ reading' = [reading EXCEPT ![k] = <<>>]
  /\ UNCHANGED <<now, worldVars, memory, disk, forgot>>

-----------------------------------------------------------------------------
(* reconcile: a list is kept, an empty one of a client that is online      *)
(* empties the memory, and any other answer leaves it as it was.           *)
Reconcile(answer, isOnline, remembered) ==
  CASE answer[1] = "some" /\ answer[2] # <<>> -> answer[2]
    [] answer[1] = "some" /\ answer[2] = <<>> /\ isOnline -> <<>>
    [] OTHER -> remembered

(* resolve, under its mutex.  Saving is best effort.                       *)
Resolve(c) ==
  LET got == call[c].got IN
  /\ call[c].under /\ \A k \in Caches : got[k] # <<>>
  /\ memory' = Reconcile(got["resources"][1].value.list, got["status"][1].value.online, memory)
  /\ disk' \in IF memory' = memory THEN {disk} ELSE {disk, memory'}
  /\ forgot' = IF memory # <<>> /\ memory' = <<>> THEN <<got["resources"][1].value>> ELSE forgot
  /\ call' = [call EXCEPT ![c] = NoOne]
  /\ UNCHANGED <<now, worldVars, slot, lock, reading>>

(* The program is started again: what was loaded and asked is gone, and    *)
(* the memory is the file's.                                               *)
Restart ==
  /\ slot' = Nothing /\ reading' = Nothing
  /\ lock' = [k \in Caches |-> NoCall] /\ call' = [c \in Calls |-> NoOne]
  /\ memory' = disk /\ forgot' = <<>>
  /\ UNCHANGED <<now, worldVars, disk>>

Init ==
  /\ now = 0 /\ online \in BOOLEAN /\ granted \in Lists /\ turns = 0
  /\ slot = Nothing /\ reading = Nothing
  /\ lock = [k \in Caches |-> NoCall] /\ call = [c \in Calls |-> NoOne]
  /\ memory \in Lists \cup {<<>>} /\ disk = memory /\ forgot = <<>>

Next ==
  \/ Tick \/ Restart
  \/ \E on \in BOOLEAN, list \in Lists \cup {<<>>} : Turn(on, list)
  \/ \E c \in Calls :
       \/ \E fresh \in {"cached", "forced"} : Ask(c, fresh)
       \/ \E k \in Caches : Hit(c, k) \/ Load(c, k)
       \/ Resolve(c)
  \/ \E k \in Caches : ClientAnswers(k) \/ Loaded(k)

Spec == Init /\ [][Next]_vars

-----------------------------------------------------------------------------
(* cache.rs:31: "the user pressed refresh".  What is shown then was read   *)
(* from the client after the press, whoever read it and however long the   *)
(* press waited for the lock; but for one case: a load that was under way  *)
(* at the press, whose answer had not come in yet (get).                   *)
FreshUnlessShared ==
  \A c \in Calls : \A k \in Caches :
    call[c].got[k] # <<>> /\ call[c].fresh = "forced" =>
      \/ call[c].got[k][1].from >= call[c].asked
      \/ k \in call[c].shares /\ call[c].got[k][1].at >= call[c].asked

(* cache.rs:33: "anything loaded before they asked is stale by definition  *)
(* - but a load that started after they asked still counts".  What a       *)
(* person who pressed refresh is shown was read after the press, also when *)
(* a load was under way then: its answer is stamped when it comes in, and  *)
(* the press that waited for it takes it.                                  *)
ForcedIsFresh ==
  \A c \in Calls : \A k \in Caches :
    call[c].got[k] # <<>> /\ call[c].fresh = "forced" => call[c].got[k][1].from >= call[c].asked

(* remembered.rs:9: "an empty list only replaces it when the client is     *)
(* online and answered".  The list that is dropped was dropped on the word *)
(* of a client that was online when it gave the empty one.                 *)
ForgetsOnlyOnline == forgot # <<>> => forgot[1].online
=============================================================================

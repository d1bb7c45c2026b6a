------------------------------ MODULE JumpChain ------------------------------
(* The order in which a connection goes through its jump hosts: resolve in *)
(* remote/jump.rs, which reads the saved connections and connects nothing. *)
(* jump is what proxy_jump says, for the ids that are saved: a function of *)
(* them to an id, which need not be saved any more, or NoHost.             *)
EXTENDS Naturals, Sequences, SequencesExt

(* Where the walk stands before its first turn, and one turn of its loop.  *)
Outset(target) == [at |-> target, chain |-> <<>>, error |-> "", over |-> FALSE]

Stop(walk, why) == [walk EXCEPT !.over = TRUE, !.error = why]

(* Mutant of Turn: the target itself is not taken for visited.             *)
TurnForgets(jump, target, none, maxHops, walk) ==
  LET next == jump[walk.at] IN
  CASE walk.over -> walk
    [] ~walk.over /\ (walk.at \notin DOMAIN jump \/ next = none) -> Stop(walk, "")
    [] OTHER -> IF Contains(walk.chain, next) \/ Len(walk.chain) = maxHops
                  THEN Stop(walk, "loop")
                  ELSE [walk EXCEPT !.at = next, !.chain = Append(@, next)]

Turn(jump, target, none, maxHops, walk) ==
  LET next == jump[walk.at] IN
  CASE walk.over -> walk
    [] ~walk.over /\ walk.at \notin DOMAIN jump -> Stop(walk, "gone")
    [] ~walk.over /\ walk.at \in DOMAIN jump /\ next = none -> Stop(walk, "")
    [] OTHER ->
         CASE next = target \/ Contains(walk.chain, next) -> Stop(walk, "loop")
           [] next # target /\ ~Contains(walk.chain, next) /\ next \notin DOMAIN jump ->
                Stop(walk, "deleted")
           [] OTHER -> IF Len(walk.chain) = maxHops
                         THEN Stop(walk, "deep")
                         ELSE [walk EXCEPT !.at = next, !.chain = Append(@, next)]

(* resolve: built from the target outwards and then turned round, for the  *)
(* hops are dialled from the outermost one inwards.                        *)
Resolve(jump, target, none, maxHops) ==
  LET walk[n \in 0 .. maxHops + 1] ==
        IF n = 0 THEN Outset(target)
                 ELSE Turn(jump, target, none, maxHops, walk[n - 1])
      end == walk[maxHops + 1]
  IN  [error |-> end.error, hops |-> Reverse(end.chain)]

(* What a chain is: each hop is reached through the one before it, the     *)
(* target through the last, the first through nobody, and no machine is    *)
(* gone through twice.                                                     *)
IsChain(jump, target, none, maxHops, hops) ==
  LET route == Append(hops, target) IN
  /\ hops \in Seq(DOMAIN jump) /\ Len(hops) <= maxHops
  /\ \A i \in DOMAIN route : /\ route[i] \in DOMAIN jump
                             /\ jump[route[i]] = IF i = 1 THEN none ELSE route[i - 1]
  /\ \A i, j \in DOMAIN route : route[i] = route[j] => i = j

(* resolve finds the chain where there is one, and says so where not.      *)
Resolves(jump, target, none, maxHops) ==
  LET found == Resolve(jump, target, none, maxHops)
      ids == DOMAIN jump
  IN  IF found.error = ""
        THEN IsChain(jump, target, none, maxHops, found.hops)
        ELSE \A n \in 0 .. maxHops : \A hops \in [1 .. n -> ids] :
               ~IsChain(jump, target, none, maxHops, hops)
=============================================================================

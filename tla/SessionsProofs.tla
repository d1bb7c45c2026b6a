--------------------------- MODULE SessionsProofs ---------------------------
(***************************************************************************)
(* Proofs about Sessions, for any hosts, handlers, heartbeats and limits.  *)
(* The idea: the session a handler or heartbeat has in its hands is in     *)
(* nobody else's, so that taking it out of the registry first, as          *)
(* SessionRegistry::disconnect does, is enough to make its teardown        *)
(* exclusive, and replacing it is enough to hand it to the spawned one.    *)
(***************************************************************************)
EXTENDS Sessions, TLAPS

(* An entry is a session of its host.                                      *)
EntriesOwn ==
  \A h \in Hosts : entry[h] # None => entry[h] <= created /\ host[entry[h]] = h

(* A session on its way into the registry goes to the host it is of.       *)
CheckedOwn ==
  \A u \in Users : at[u] = "check" => host[holds[u]] = target[u]

(* Sessions that were made and are not in the registry.                    *)
Outside(s) == s <= created /\ \A h \in Hosts : entry[h] # s

(* The replaced, the held and the taken are outside and apart.             *)
EvictedApart == \A s \in evicted : Outside(s)

HeldApart ==
  \A u \in Users : holds[u] # None =>
    /\ Outside(holds[u])
    /\ holds[u] \notin evicted
    /\ \A v \in Users : holds[v] = holds[u] => v = u
    /\ \A b \in Beats : taken[b] # holds[u]

TakenApart ==
  \A b \in Beats : taken[b] # None =>
    /\ Outside(taken[b])
    /\ taken[b] \notin evicted
    /\ \A c \in Beats : taken[c] = taken[b] => c = b

(* NoLeak without the sets.                                                *)
Kept ==
  \A s \in Sessions : link[s] = "up" =>
    \/ \E h \in Hosts : entry[h] = s
    \/ \E u \in Users : holds[u] = s
    \/ \E b \in Beats : taken[b] = s
    \/ s \in evicted

(* The inductive invariant: types and stations, whose a session is, that   *)
(* nobody shares one, and that none is lost.                               *)
SInv ==
  /\ TypeOK /\ EntriesOwn /\ CheckedOwn
  /\ EvictedApart /\ HeldApart /\ TakenApart
  /\ Kept

-----------------------------------------------------------------------------
(* What the parts of an action do.                                         *)

LEMMA NoneApart == None \notin Sessions
  BY DEF None, Sessions

LEMMA HandlerEffect ==
  ASSUME Types, NEW u \in Users, NEW st \in Stations, NEW h \in Hosts \cup {NoHost},
         NEW s \in Sessions \cup {None}, Handler(u, st, h, s)
  PROVE  /\ at' \in [Users -> Stations]
         /\ target' \in [Users -> Hosts \cup {NoHost}]
         /\ holds' \in [Users -> Sessions \cup {None}]
         /\ at'[u] = st /\ target'[u] = h /\ holds'[u] = s
         /\ \A v \in Users \ {u} : at'[v] = at[v] /\ target'[v] = target[v]
                                      /\ holds'[v] = holds[v]
  BY DEF Types, Handler

LEMMA FindsEffect ==
  ASSUME Types, NEW b \in Beats, NEW h \in Hosts, NEW v \in Verdicts, Finds(b, h, v)
  PROVE  /\ verdict' \in [Beats -> [Hosts -> Verdicts]]
         /\ verdict'[b][h] = v
         /\ \A g \in Hosts \ {h} : verdict'[b][g] = verdict[b][g]
         /\ \A c \in Beats \ {b} : verdict'[c] = verdict[c]
  <1>1. verdict' = [verdict EXCEPT ![b] = [verdict[b] EXCEPT ![h] = v]]
    BY DEF Finds, Types
  <1>2. verdict[b] \in [Hosts -> Verdicts]
    BY DEF Types
  <1> DEFINE row == [verdict[b] EXCEPT ![h] = v]
  <1>3. row \in [Hosts -> Verdicts] /\ row[h] = v
          /\ \A g \in Hosts \ {h} : row[g] = verdict[b][g]
    BY <1>2
  <1> HIDE DEF row
  <1>4. verdict' = [verdict EXCEPT ![b] = row]
    BY <1>1 DEF row
  <1> QED
    BY <1>3, <1>4 DEF Types

LEMMA TakeEffect ==
  ASSUME Types, NEW h \in Hosts, Take(h)
  PROVE  /\ entry' \in [Hosts -> Sessions \cup {None}]
         /\ entry'[h] = None
         /\ \A g \in Hosts \ {h} : entry'[g] = entry[g]
  BY DEF Types, Take

LEMMA DownEffect ==
  ASSUME Types, MadeInOrder, NEW s \in Sessions, s <= created,
         link' = [link EXCEPT ![s] = "down"], created' = created
  PROVE  /\ link' \in [Sessions -> Links]
         /\ link'[s] = "down"
         /\ \A r \in Sessions \ {s} : link'[r] = link[r]
         /\ MadeInOrder'
  <1>1. /\ link' \in [Sessions -> Links]
        /\ link'[s] = "down"
        /\ \A r \in Sessions \ {s} : link'[r] = link[r]
    BY DEF Types, Links
  <1>2. ~(s > created)
    BY DEF Types, Sessions
  <1> QED
    BY <1>1, <1>2 DEF MadeInOrder

-----------------------------------------------------------------------------
(* The invariant holds at first ...                                        *)

LEMMA InitKept == Init => SInv
  <1> SUFFICES ASSUME Init PROVE SInv
    OBVIOUS
  <1>1. Types
    BY SessionAssumption DEF Init, Types, Links, Stations, Verdicts, Sessions, None
  <1>2. MadeInOrder
    BY DEF Init, MadeInOrder, Sessions
  <1>3. HandlersInStep /\ BeatsInStep
    BY DEF Init, HandlersInStep, BeatsInStep
  <1> QED
    BY <1>1, <1>2, <1>3 DEF Init, SInv, TypeOK, EntriesOwn, CheckedOwn, EvictedApart,
       HeldApart, TakenApart, Kept

(* ... and every kind of step keeps it.  A handler moves on without        *)
(* touching a session.                                                     *)
LEMMA HandlerOnly ==
  ASSUME SInv, NEW u \in Users, NEW st \in Stations \ {"check", "close", "off"},
         NEW h \in Hosts \cup {NoHost}, st = "idle" <=> h = NoHost,
         holds[u] = None, Handler(u, st, h, None),
         UNCHANGED <<entry, evicted, created, host, link, missed, asked, verdict, taken>>
  PROVE  SInv'
  <1> USE DEF SInv, TypeOK
  <1>1. /\ at' \in [Users -> Stations]
        /\ target' \in [Users -> Hosts \cup {NoHost}]
        /\ holds' \in [Users -> Sessions \cup {None}]
        /\ at'[u] = st /\ target'[u] = h /\ holds'[u] = None
        /\ \A v \in Users \ {u} : at'[v] = at[v] /\ target'[v] = target[v]
                                     /\ holds'[v] = holds[v]
    BY HandlerEffect
  <1>2. holds' = holds
    BY <1>1 DEF Types
  <1>3. Types'
    BY <1>1 DEF Types
  <1>4. HandlersInStep'
    BY <1>1 DEF HandlersInStep
  <1>5. MadeInOrder' /\ BeatsInStep'
    BY DEF MadeInOrder, BeatsInStep
  <1>6. CheckedOwn'
    BY <1>1 DEF CheckedOwn
  <1>7. EntriesOwn' /\ EvictedApart' /\ HeldApart' /\ TakenApart' /\ Kept'
    BY <1>2 DEF EntriesOwn, EvictedApart, HeldApart, TakenApart, Kept, Outside
  <1> QED
    BY <1>3, <1>4, <1>5, <1>6, <1>7

(* A heartbeat finds something out, and tears nothing down.                *)
LEMMA FindingOnly ==
  ASSUME SInv, NEW b \in Beats, NEW h \in Hosts,
         NEW v \in Verdicts \ {"asking", "close"}, verdict[b][h] # "close",
         Finds(b, h, v), missed' \in [Sessions -> 0 .. MissedCeiling],
         UNCHANGED <<entry, evicted, created, host, link, at, target, holds, asked, taken>>
  PROVE  SInv'
  <1> USE DEF SInv, TypeOK
  <1>1. /\ verdict' \in [Beats -> [Hosts -> Verdicts]]
        /\ verdict'[b][h] = v
        /\ \A g \in Hosts \ {h} : verdict'[b][g] = verdict[b][g]
        /\ \A c \in Beats \ {b} : verdict'[c] = verdict[c]
    BY FindsEffect
  <1>2. \A c \in Beats, g \in Hosts :
          /\ verdict'[c][g] = "close" <=> verdict[c][g] = "close"
          /\ verdict'[c][g] = "asking" => verdict[c][g] = "asking"
    BY <1>1
  <1>3. Types'
    BY <1>1 DEF Types
  <1>4. BeatsInStep'
    BY <1>2 DEF BeatsInStep
  <1>5. MadeInOrder' /\ HandlersInStep'
    BY DEF MadeInOrder, HandlersInStep
  <1>6. EntriesOwn' /\ CheckedOwn' /\ EvictedApart' /\ HeldApart' /\ TakenApart' /\ Kept'
    BY DEF EntriesOwn, CheckedOwn, EvictedApart, HeldApart, TakenApart, Kept, Outside
  <1> QED
    BY <1>3, <1>4, <1>5, <1>6

(* A handler takes its host's session out of the registry.                 *)
LEMMA HandlerTakes ==
  ASSUME SInv, NEW u \in Users, NEW st \in {"close", "off"}, NEW h \in Hosts,
         Connected(h), holds[u] = None, Take(h), Handler(u, st, h, entry[h]),
         UNCHANGED <<evicted, created, host, link, missed, asked, verdict, taken>>
  PROVE  SInv'
  <1> USE DEF SInv, TypeOK
  <1>s. PICK s \in Sessions : s = entry[h] /\ s # None /\ s <= created /\ host[s] = h
    BY DEF Types, EntriesOwn, Connected
  <1>1. /\ at' \in [Users -> Stations]
        /\ target' \in [Users -> Hosts \cup {NoHost}]
        /\ holds' \in [Users -> Sessions \cup {None}]
        /\ at'[u] = st /\ target'[u] = h /\ holds'[u] = s
        /\ \A v \in Users \ {u} : at'[v] = at[v] /\ target'[v] = target[v]
                                     /\ holds'[v] = holds[v]
    BY <1>s, HandlerEffect DEF Stations
  <1>2. /\ entry' \in [Hosts -> Sessions \cup {None}]
        /\ entry'[h] = None
        /\ \A g \in Hosts \ {h} : entry'[g] = entry[g]
    BY TakeEffect
  <1>3. Types'
    BY <1>1, <1>2 DEF Types
  <1>4. MadeInOrder' /\ BeatsInStep'
    BY DEF MadeInOrder, BeatsInStep
  <1>5. HandlersInStep'
    BY <1>1, <1>s, SessionAssumption DEF HandlersInStep
  <1>6. EntriesOwn'
    BY <1>2 DEF EntriesOwn
  <1>7. CheckedOwn'
    BY <1>1 DEF CheckedOwn
  <1>8. \A g \in Hosts : entry'[g] # s
    BY <1>2, <1>s DEF EntriesOwn
  <1>9. Outside(s)' /\ \A r \in Sessions : Outside(r) => Outside(r)'
    <2>1. \A r \in Sessions : Outside(r) => Outside(r)'
      <3> SUFFICES ASSUME NEW r \in Sessions, Outside(r) PROVE Outside(r)'
        OBVIOUS
      <3>1. r # None
        BY NoneApart
      <3> QED
        BY <1>2, <3>1 DEF Outside
    <2> QED
      BY <2>1, <1>8, <1>s DEF Outside
  <1>10. EvictedApart'
    BY <1>9 DEF EvictedApart, Types
  <1>11. s \notin evicted /\ (\A v \in Users : holds[v] # s) /\ (\A b \in Beats : taken[b] # s)
    BY <1>s DEF EvictedApart, HeldApart, TakenApart, Outside
  <1>12. HeldApart'
    <2> SUFFICES ASSUME NEW v \in Users, holds'[v] # None
                 PROVE  /\ Outside(holds[v])'
                        /\ holds'[v] \notin evicted'
                        /\ \A w \in Users : holds'[w] = holds'[v] => w = v
                        /\ \A b \in Beats : taken'[b] # holds'[v]
      BY DEF HeldApart
    <2>1. CASE v = u
      BY <2>1, <1>1, <1>9, <1>11 DEF Outside
    <2>2. CASE v # u
      BY <2>2, <1>1, <1>9, <1>11 DEF HeldApart, Types
    <2> QED
      BY <2>1, <2>2
  <1>13. TakenApart'
    BY <1>9 DEF TakenApart, Types
  <1>14. Kept'
    BY <1>1, <1>2, <1>s DEF Kept
  <1> QED
    BY <1>3, <1>4, <1>5, <1>6, <1>7, <1>10, <1>12, <1>13, <1>14

(* A handler closes the session it holds.                                  *)
LEMMA HandlerCloses ==
  ASSUME SInv, NEW u \in Users, at[u] \in {"check", "close", "off"},
         NEW st \in Stations \ {"check", "close", "off"},
         NEW h \in Hosts \cup {NoHost}, st = "idle" <=> h = NoHost,
         link' = [link EXCEPT ![holds[u]] = "down"], Handler(u, st, h, None),
         UNCHANGED <<entry, evicted, created, host, missed, asked, verdict, taken>>
  PROVE  SInv'
  <1> USE DEF SInv, TypeOK
  <1>s. PICK s \in Sessions : s = holds[u] /\ s # None /\ s <= created
    BY DEF Types, HandlersInStep, HeldApart, Outside
  <1>1. /\ at' \in [Users -> Stations]
        /\ target' \in [Users -> Hosts \cup {NoHost}]
        /\ holds' \in [Users -> Sessions \cup {None}]
        /\ at'[u] = st /\ target'[u] = h /\ holds'[u] = None
        /\ \A v \in Users \ {u} : at'[v] = at[v] /\ target'[v] = target[v]
                                     /\ holds'[v] = holds[v]
    BY HandlerEffect
  <1>2. /\ link' \in [Sessions -> Links]
        /\ link'[s] = "down"
        /\ \A r \in Sessions \ {s} : link'[r] = link[r]
        /\ MadeInOrder'
    BY <1>s, DownEffect
  <1>3. Types'
    BY <1>1, <1>2 DEF Types
  <1>4. BeatsInStep'
    BY DEF BeatsInStep
  <1>5. HandlersInStep'
    BY <1>1 DEF HandlersInStep
  <1>6. EntriesOwn' /\ EvictedApart' /\ TakenApart'
    BY DEF EntriesOwn, EvictedApart, TakenApart, Outside
  <1>7. CheckedOwn'
    BY <1>1 DEF CheckedOwn
  <1>8. HeldApart'
    BY <1>1 DEF HeldApart, Outside
  <1>9. Kept'
    BY <1>1, <1>2 DEF Kept
  <1> QED
    BY <1>2, <1>3, <1>4, <1>5, <1>6, <1>7, <1>8, <1>9

LEMMA AuthenticateKeeps ==
  ASSUME SInv, NEW u \in Users, Authenticate(u)
  PROVE  SInv'
  <1> USE DEF SInv, TypeOK
  <1>s. PICK s \in Sessions :
          /\ s = created + 1 /\ s # None /\ created' = s /\ created' \in 0 .. MaxSessions
          /\ \A r \in Sessions : r <= created => r # s /\ r <= s
          /\ \A r \in Sessions : r > s <=> r > created /\ r # s
    BY SessionAssumption DEF Authenticate, Types, Sessions, None
  <1>t. target[u] \in Hosts /\ holds[u] = None
    BY DEF Authenticate, HandlersInStep, Types
  <1>1. /\ at' \in [Users -> Stations]
        /\ target' \in [Users -> Hosts \cup {NoHost}]
        /\ holds' \in [Users -> Sessions \cup {None}]
        /\ at'[u] = "check" /\ target'[u] = target[u] /\ holds'[u] = s
        /\ \A v \in Users \ {u} : at'[v] = at[v] /\ target'[v] = target[v]
                                     /\ holds'[v] = holds[v]
    BY <1>s, <1>t, HandlerEffect DEF Authenticate, Stations
  <1>2. /\ host' \in [Sessions -> Hosts \cup {NoHost}] /\ link' \in [Sessions -> Links]
        /\ host'[s] = target[u] /\ link'[s] = "up"
        /\ \A r \in Sessions \ {s} : host'[r] = host[r] /\ link'[r] = link[r]
    BY <1>s, <1>t DEF Authenticate, Types, Links
  <1>3. Types'
    BY <1>1, <1>2, <1>s DEF Types, Authenticate
  <1>4. MadeInOrder'
    BY <1>2, <1>s DEF MadeInOrder
  <1>5. BeatsInStep'
    BY DEF BeatsInStep, Authenticate
  <1>6. HandlersInStep'
    BY <1>1, <1>s, <1>t, SessionAssumption DEF HandlersInStep
  <1>7. ~Outside(s) /\ s \notin evicted
          /\ (\A h \in Hosts : entry[h] # s)
          /\ (\A v \in Users : holds[v] # s) /\ (\A b \in Beats : taken[b] # s)
    <2>1. ~(s <= created)
      BY <1>s DEF Types
    <2> QED
      BY <2>1, <1>s DEF Outside, EvictedApart, EntriesOwn, HeldApart, TakenApart
  <1>8. Outside(s)' /\ \A r \in Sessions : Outside(r) => Outside(r)'
    <2>1. s <= created'
      BY <1>s DEF Types
    <2> QED
      BY <2>1, <1>7, <1>s DEF Outside, Authenticate
  <1>9. EntriesOwn'
    <2> SUFFICES ASSUME NEW h \in Hosts, entry[h] # None
                 PROVE  entry[h] <= created' /\ host'[entry[h]] = h
      BY DEF EntriesOwn, Authenticate
    <2>1. entry[h] \in Sessions \ {s} /\ entry[h] <= created
      BY <1>7 DEF EntriesOwn, Types
    <2> QED
      BY <2>1, <1>2, <1>s DEF EntriesOwn
  <1>10. CheckedOwn'
    <2> SUFFICES ASSUME NEW v \in Users, at'[v] = "check"
                 PROVE  host'[holds'[v]] = target'[v]
      BY DEF CheckedOwn
    <2>1. CASE v = u
      BY <2>1, <1>1, <1>2
    <2>2. CASE v # u
      <3>1. at[v] = "check" /\ holds'[v] = holds[v] /\ target'[v] = target[v]
        BY <2>2, <1>1
      <3>2. holds[v] \in Sessions \ {s}
        BY <3>1, <1>7 DEF HandlersInStep, Types
      <3> QED
        BY <3>1, <3>2, <1>2 DEF CheckedOwn
    <2> QED
      BY <2>1, <2>2
  <1>11. EvictedApart'
    BY <1>8 DEF EvictedApart, Types, Authenticate
  <1>12. HeldApart'
    <2> SUFFICES ASSUME NEW v \in Users, holds'[v] # None
                 PROVE  /\ Outside(holds[v])'
                        /\ holds'[v] \notin evicted'
                        /\ \A w \in Users : holds'[w] = holds'[v] => w = v
                        /\ \A b \in Beats : taken'[b] # holds'[v]
      BY DEF HeldApart
    <2>1. evicted' = evicted /\ taken' = taken
      BY DEF Authenticate
    <2>2. CASE v = u
      BY <2>1, <2>2, <1>1, <1>7, <1>8 DEF Outside
    <2>3. CASE v # u
      BY <2>1, <2>3, <1>1, <1>7, <1>8 DEF HeldApart, Types
    <2> QED
      BY <2>2, <2>3
  <1>13. TakenApart'
    BY <1>8 DEF TakenApart, Types, Authenticate
  <1>14. Kept'
    BY <1>1, <1>2, <1>t, NoneApart DEF Kept, Authenticate
  <1> QED
    BY <1>3, <1>4, <1>5, <1>6, <1>9, <1>10, <1>11, <1>12, <1>13, <1>14

LEMMA ParkKeeps ==
  ASSUME SInv, NEW u \in Users, Park(u)
  PROVE  SInv'
  <1> USE DEF SInv, TypeOK
  <1>s. PICK s \in Sessions : s = holds[u] /\ s # None /\ Outside(s) /\ s \notin evicted
    BY DEF Park, Types, HandlersInStep, HeldApart
  <1>h. PICK h \in Hosts : h = target[u] /\ host[s] = h
    BY <1>s DEF Park, Types, HandlersInStep, CheckedOwn
  <1>o. PICK old \in Sessions \cup {None} : old = entry[h]
    BY DEF Types
  <1>1. /\ at' \in [Users -> Stations]
        /\ target' \in [Users -> Hosts \cup {NoHost}]
        /\ holds' \in [Users -> Sessions \cup {None}]
        /\ at'[u] = "idle" /\ target'[u] = NoHost /\ holds'[u] = None
        /\ \A v \in Users \ {u} : at'[v] = at[v] /\ target'[v] = target[v]
                                     /\ holds'[v] = holds[v]
    BY HandlerEffect DEF Park, Return, Stations
  <1>2. /\ entry' \in [Hosts -> Sessions \cup {None}]
        /\ entry'[h] = s
        /\ \A g \in Hosts \ {h} : entry'[g] = entry[g]
    BY <1>s, <1>h DEF Park, Types
  <1>3. evicted' = evicted \cup ({old} \ {None}) /\ evicted' \subseteq Sessions
    BY <1>h, <1>o DEF Park, Types
  <1>4. Types'
    BY <1>1, <1>2, <1>3 DEF Types, Park
  <1>5. MadeInOrder' /\ BeatsInStep'
    BY DEF MadeInOrder, BeatsInStep, Park
  <1>6. HandlersInStep'
    BY <1>1 DEF HandlersInStep
  <1>7. EntriesOwn'
    BY <1>2, <1>s, <1>h DEF EntriesOwn, Outside, Park
  <1>8. CheckedOwn'
    BY <1>1 DEF CheckedOwn, Park
  <1>9. \A r \in Sessions \ {s} : Outside(r) => Outside(r)'
    BY <1>2 DEF Outside, Park
  <1>10. old # None => old # s /\ Outside(old)'
    BY <1>2, <1>s, <1>o DEF Outside, Park, EntriesOwn
  <1>11. EvictedApart'
    BY <1>3, <1>9, <1>10, <1>s DEF EvictedApart, Types
  <1>12. old # None => (\A v \in Users : holds[v] # old) /\ (\A b \in Beats : taken[b] # old)
    BY <1>o DEF HeldApart, TakenApart, Outside
  <1>13. HeldApart'
    <2> SUFFICES ASSUME NEW v \in Users, holds'[v] # None
                 PROVE  /\ Outside(holds[v])'
                        /\ holds'[v] \notin evicted'
                        /\ \A w \in Users : holds'[w] = holds'[v] => w = v
                        /\ \A b \in Beats : taken'[b] # holds'[v]
      BY DEF HeldApart
    <2>1. v # u /\ holds'[v] = holds[v] /\ taken' = taken
      BY <1>1 DEF Park
    <2>2. holds[v] \in Sessions \ {s}
      BY <2>1, <1>s DEF HeldApart, Types
    <2> QED
      BY <2>1, <2>2, <1>1, <1>3, <1>9, <1>12 DEF HeldApart, Outside
  <1>14. TakenApart'
    <2> SUFFICES ASSUME NEW b \in Beats, taken[b] # None
                 PROVE  /\ Outside(taken[b])'
                        /\ taken[b] \notin evicted'
                        /\ \A c \in Beats : taken[c] = taken[b] => c = b
      BY DEF TakenApart, Park
    <2>1. taken[b] \in Sessions \ {s} /\ taken' = taken
      BY <1>s DEF HeldApart, Types, Park
    <2> QED
      BY <2>1, <1>3, <1>9, <1>12 DEF TakenApart, Outside
  <1>15. Kept'
    <2> SUFFICES ASSUME NEW r \in Sessions, link[r] = "up"
                 PROVE  \/ \E g \in Hosts : entry'[g] = r
                        \/ \E v \in Users : holds'[v] = r
                        \/ \E b \in Beats : taken'[b] = r
                        \/ r \in evicted'
      BY DEF Kept, Park
    <2>1. taken' = taken /\ r # None
      BY NoneApart DEF Park
    <2>2. CASE r = s
      BY <2>2, <1>2
    <2>3. CASE r = old
      BY <2>1, <2>3, <1>3
    <2>4. CASE r # s /\ r # old
      BY <2>1, <2>4, <1>1, <1>2, <1>3, <1>s, <1>o DEF Kept
    <2> QED
      BY <2>2, <2>3, <2>4
  <1> QED
    BY <1>4, <1>5, <1>6, <1>7, <1>8, <1>11, <1>13, <1>14, <1>15

LEMMA CloseEvictedKeeps ==
  ASSUME SInv, NEW s \in Sessions, CloseEvicted(s)
  PROVE  SInv'
  <1> USE DEF SInv, TypeOK
  <1>1. /\ link' \in [Sessions -> Links]
        /\ link'[s] = "down"
        /\ \A r \in Sessions \ {s} : link'[r] = link[r]
        /\ MadeInOrder'
    BY DownEffect DEF CloseEvicted, EvictedApart, Outside
  <1>2. Types'
    BY <1>1 DEF Types, CloseEvicted
  <1>3. HandlersInStep' /\ BeatsInStep' /\ EntriesOwn' /\ CheckedOwn'
    BY DEF HandlersInStep, BeatsInStep, EntriesOwn, CheckedOwn, CloseEvicted
  <1>4. EvictedApart' /\ HeldApart' /\ TakenApart'
    BY DEF EvictedApart, HeldApart, TakenApart, Outside, CloseEvicted
  <1>5. Kept'
    BY <1>1 DEF Kept, CloseEvicted
  <1> QED
    BY <1>1, <1>2, <1>3, <1>4, <1>5

LEMMA DropKeeps ==
  ASSUME SInv, NEW s \in Sessions, Drop(s)
  PROVE  SInv'
  <1> USE DEF SInv, TypeOK
  <1>1. s <= created
    BY DEF Drop, MadeInOrder, Types, Sessions
  <1>2. /\ link' \in [Sessions -> Links]
        /\ link'[s] = "down"
        /\ \A r \in Sessions \ {s} : link'[r] = link[r]
        /\ MadeInOrder'
    BY <1>1, DownEffect DEF Drop
  <1>3. Types'
    BY <1>2 DEF Types, Drop
  <1>4. HandlersInStep' /\ BeatsInStep' /\ EntriesOwn' /\ CheckedOwn'
    BY DEF HandlersInStep, BeatsInStep, EntriesOwn, CheckedOwn, Drop
  <1>5. EvictedApart' /\ HeldApart' /\ TakenApart'
    BY DEF EvictedApart, HeldApart, TakenApart, Outside, Drop
  <1>6. Kept'
    BY <1>2 DEF Kept, Drop
  <1> QED
    BY <1>2, <1>3, <1>4, <1>5, <1>6

LEMMA BeatKeeps ==
  ASSUME SInv, NEW b \in Beats, Beat(b) \/ BeatEnds(b)
  PROVE  SInv'
  <1> USE DEF SInv, TypeOK
  <1> DEFINE row == IF Beat(b) THEN [h \in Hosts |-> IF Connected(h) THEN "asking" ELSE "probing"]
                    ELSE [h \in Hosts |-> "resting"]
             got == IF Beat(b) THEN entry ELSE [h \in Hosts |-> None]
  <1>1. /\ row \in [Hosts -> Verdicts] /\ got \in [Hosts -> Sessions \cup {None}]
        /\ \A h \in Hosts : row[h] # "close" /\ (row[h] = "asking" => got[h] # None)
    BY DEF Types, Verdicts, Connected
  <1>2. /\ verdict' = [verdict EXCEPT ![b] = row]
        /\ asked' = [asked EXCEPT ![b] = got]
        /\ UNCHANGED <<entry, evicted, created, host, link, missed, at, target, holds, taken>>
    <2>1. CASE Beat(b)
      BY <2>1 DEF Beat
    <2>2. CASE ~Beat(b)
      BY <2>2 DEF BeatEnds
    <2> QED
      BY <2>1, <2>2
  <1>3. \A h \in Hosts : verdict[b][h] # "close"
    BY DEF Beat, BeatEnds
  <1> HIDE DEF row, got
  <1>4. /\ verdict'[b] = row /\ asked'[b] = got
        /\ \A c \in Beats \ {b} : verdict'[c] = verdict[c] /\ asked'[c] = asked[c]
    BY <1>2 DEF Types
  <1>5. Types'
    BY <1>1, <1>2 DEF Types
  <1>6. BeatsInStep'
    BY <1>1, <1>2, <1>3, <1>4 DEF BeatsInStep
  <1>7. MadeInOrder' /\ HandlersInStep' /\ EntriesOwn' /\ CheckedOwn'
    BY <1>2 DEF MadeInOrder, HandlersInStep, EntriesOwn, CheckedOwn
  <1>8. EvictedApart' /\ HeldApart' /\ TakenApart' /\ Kept'
    BY <1>2 DEF EvictedApart, HeldApart, TakenApart, Kept, Outside
  <1> QED
    BY <1>5, <1>6, <1>7, <1>8

LEMMA ReapKeeps ==
  ASSUME SInv, NEW b \in Beats, NEW h \in Hosts, Reap(b, h)
  PROVE  SInv'
  <1> USE DEF SInv, TypeOK
  <1>s. PICK s \in Sessions : s = entry[h] /\ s # None /\ s <= created /\ host[s] = h
    BY DEF Types, EntriesOwn, Connected, Reap
  <1>b. taken[b] = None /\ \A g \in Hosts : verdict[b][g] # "close"
    BY DEF Reap, Between, BeatsInStep
  <1>1. /\ verdict' \in [Beats -> [Hosts -> Verdicts]]
        /\ verdict'[b][h] = "close"
        /\ \A g \in Hosts \ {h} : verdict'[b][g] = verdict[b][g]
        /\ \A c \in Beats \ {b} : verdict'[c] = verdict[c]
    BY FindsEffect DEF Reap, Verdicts
  <1>2. /\ entry' \in [Hosts -> Sessions \cup {None}]
        /\ entry'[h] = None
        /\ \A g \in Hosts \ {h} : entry'[g] = entry[g]
    BY TakeEffect DEF Reap
  <1>3. /\ taken' \in [Beats -> Sessions \cup {None}]
        /\ taken'[b] = s
        /\ \A c \in Beats \ {b} : taken'[c] = taken[c]
    BY <1>s DEF Types, Reap
  <1>4. Types'
    BY <1>1, <1>2, <1>3 DEF Types, Reap
  <1>5. MadeInOrder' /\ HandlersInStep' /\ CheckedOwn'
    BY DEF MadeInOrder, HandlersInStep, CheckedOwn, Reap
  <1>6. BeatsInStep'
    BY <1>1, <1>3, <1>b, <1>s DEF BeatsInStep, Reap
  <1>7. EntriesOwn'
    BY <1>2 DEF EntriesOwn, Reap
  <1>8. \A g \in Hosts : entry'[g] # s
    BY <1>2, <1>s DEF EntriesOwn
  <1>9. Outside(s)' /\ \A r \in Sessions : Outside(r) => Outside(r)'
    BY <1>2, <1>8, <1>s, NoneApart DEF Outside, Reap
  <1>10. EvictedApart'
    BY <1>9 DEF EvictedApart, Types, Reap
  <1>11. s \notin evicted /\ (\A v \in Users : holds[v] # s) /\ (\A c \in Beats : taken[c] # s)
    BY <1>s DEF EvictedApart, HeldApart, TakenApart, Outside
  <1>12. HeldApart'
    BY <1>3, <1>9, <1>11 DEF HeldApart, Types, Reap
  <1>13. TakenApart'
    <2> SUFFICES ASSUME NEW c \in Beats, taken'[c] # None
                 PROVE  /\ Outside(taken[c])'
                        /\ taken'[c] \notin evicted'
                        /\ \A d \in Beats : taken'[d] = taken'[c] => d = c
      BY DEF TakenApart
    <2>0. evicted' = evicted
      BY DEF Reap
    <2>1. CASE c = b
      BY <2>0, <2>1, <1>3, <1>9, <1>11 DEF Outside
    <2>2. CASE c # b
      BY <2>0, <2>2, <1>3, <1>9, <1>11 DEF TakenApart, Types, Outside
    <2> QED
      BY <2>1, <2>2
  <1>14. Kept'
    BY <1>2, <1>3, <1>s, <1>b, NoneApart DEF Kept, Reap
  <1> QED
    BY <1>4, <1>5, <1>6, <1>7, <1>10, <1>12, <1>13, <1>14

LEMMA ReapCloseKeeps ==
  ASSUME SInv, NEW b \in Beats, NEW h \in Hosts, ReapClose(b, h)
  PROVE  SInv'
  <1> USE DEF SInv, TypeOK
  <1>s. PICK s \in Sessions : s = taken[b] /\ s # None /\ s <= created
    BY DEF ReapClose, BeatsInStep, Types, TakenApart, Outside
  <1>1. /\ verdict' \in [Beats -> [Hosts -> Verdicts]]
        /\ verdict'[b][h] = "release"
        /\ \A g \in Hosts \ {h} : verdict'[b][g] = verdict[b][g]
        /\ \A c \in Beats \ {b} : verdict'[c] = verdict[c]
    BY FindsEffect DEF ReapClose, Verdicts
  <1>2. /\ link' \in [Sessions -> Links]
        /\ link'[s] = "down"
        /\ \A r \in Sessions \ {s} : link'[r] = link[r]
        /\ MadeInOrder'
    BY <1>s, DownEffect DEF ReapClose
  <1>3. /\ taken' \in [Beats -> Sessions \cup {None}]
        /\ taken'[b] = None
        /\ \A c \in Beats \ {b} : taken'[c] = taken[c]
    BY DEF Types, ReapClose
  <1>4. Types'
    BY <1>1, <1>2, <1>3 DEF Types, ReapClose
  <1>5. HandlersInStep' /\ EntriesOwn' /\ CheckedOwn' /\ EvictedApart'
    BY DEF HandlersInStep, EntriesOwn, CheckedOwn, EvictedApart, Outside, ReapClose
  <1>6. BeatsInStep'
    <2> SUFFICES ASSUME NEW c \in Beats
                 PROVE  /\ \A g \in Hosts : verdict'[c][g] = "asking" => asked'[c][g] # None
                        /\ taken'[c] # None <=> \E g \in Hosts : verdict'[c][g] = "close"
                        /\ \A f, g \in Hosts :
                             verdict'[c][f] = "close" /\ verdict'[c][g] = "close" => f = g
      BY DEF BeatsInStep
    <2>1. CASE c = b
      <3>1. \A g \in Hosts : verdict'[b][g] # "close"
        BY <1>1 DEF BeatsInStep, ReapClose
      <3>2. \A g \in Hosts : verdict'[b][g] = "asking" => asked'[b][g] # None
        BY <1>1 DEF BeatsInStep, ReapClose
      <3> QED
        BY <2>1, <3>1, <3>2, <1>3
    <2>2. CASE c # b
      BY <2>2, <1>1, <1>3 DEF BeatsInStep, ReapClose
    <2> QED
      BY <2>1, <2>2
  <1>7. HeldApart' /\ TakenApart'
    BY <1>3 DEF HeldApart, TakenApart, Outside, ReapClose
  <1>8. Kept'
    BY <1>2, <1>3, <1>s DEF Kept, ReapClose
  <1> QED
    BY <1>2, <1>4, <1>5, <1>6, <1>7, <1>8

LEMMA HandlerKeeps ==
  ASSUME SInv, NEW u \in Users, Call(u) \/ Proceed(u)
  PROVE  SInv'
  <1> USE DEF SInv, TypeOK
  <1>0. at[u] \notin {"check", "close", "off"} => holds[u] = None
    BY DEF HandlersInStep
  <1>t. at[u] # "idle" => target[u] \in Hosts
    BY DEF HandlersInStep, Types
  <1>n. NoHost \notin Hosts
    BY SessionAssumption
  <1>1. ASSUME NEW h \in Hosts, Dial(u, h) PROVE SInv'
    BY <1>0, <1>1, <1>n, HandlerOnly DEF Dial, Stations
  <1>2. ASSUME NEW h \in Hosts, Power(u, h) PROVE SInv'
    BY <1>0, <1>2, <1>n, HandlerOnly DEF Power, Stations
  <1>3. ASSUME NEW h \in Hosts, Disconnect(u, h) PROVE SInv'
    <2>1. CASE Connected(h)
      BY <2>1, <1>0, <1>3, HandlerTakes DEF Disconnect
    <2>2. CASE ~Connected(h)
      <3>1. entry[h] = None /\ entry' = entry
        BY <2>2, <1>3 DEF Disconnect, Take, Connected, Types
      <3> QED
        BY <2>2, <3>1, <1>0, <1>3, <1>n, HandlerOnly DEF Disconnect, Stations
    <2> QED
      BY <2>1, <2>2
  <1>4. CASE DialFails(u) \/ PowerLeaves(u) \/ Release(u)
    BY <1>0, <1>4, HandlerOnly DEF DialFails, PowerLeaves, Release, Return, Stations
  <1>5. CASE Authenticate(u)
    BY <1>5, AuthenticateKeeps
  <1>6. CASE CheckFails(u)
    BY <1>6, HandlerCloses DEF CheckFails, Return, Stations
  <1>7. CASE Park(u)
    BY <1>7, ParkKeeps
  <1>8. CASE PowerTakes(u)
    <2>1. CASE Connected(target[u])
      BY <2>1, <1>0, <1>t, <1>8, HandlerTakes DEF PowerTakes
    <2>2. CASE ~Connected(target[u])
      <3>1. entry' = entry
        BY <2>2, <1>8, <1>t DEF PowerTakes, Take, Connected, Types
      <3> QED
        BY <2>2, <3>1, <1>0, <1>8, HandlerOnly DEF PowerTakes, Return, Stations
    <2> QED
      BY <2>1, <2>2
  <1>9. CASE Close(u)
    <2>1. CASE at[u] = "close"
      BY <2>1, <1>9, <1>t, <1>n, HandlerCloses DEF Close, Stations
    <2>2. CASE at[u] = "off"
      BY <2>2, <1>9, HandlerCloses DEF Close, Return, Stations
    <2> QED
      BY <2>1, <2>2, <1>9 DEF Close
  <1> QED
    BY <1>1, <1>2, <1>3, <1>4, <1>5, <1>6, <1>7, <1>8, <1>9 DEF Call, Proceed

LEMMA BeatStepKeeps ==
  ASSUME SInv, NEW b \in Beats, BeatStep(b)
  PROVE  SInv'
  <1> USE DEF SInv, TypeOK
  <1>1. CASE Beat(b) \/ BeatEnds(b)
    BY <1>1, BeatKeeps
  <1>2. ASSUME NEW h \in Hosts, Check(b, h) PROVE SInv'
    <2>1. missed' \in [Sessions -> 0 .. MissedCeiling]
      BY <1>2, SessionAssumption
      DEF Check, Answers, SlowReply, FoundClosed, Probe, OneMore, Types
    <2>2. CASE Answers(b, h)
      BY <2>1, <2>2, FindingOnly DEF Answers, Verdicts
    <2>3. CASE SlowReply(b, h)
      BY <2>1, <2>3, FindingOnly DEF SlowReply, Verdicts
    <2>4. CASE FoundClosed(b, h)
      BY <2>1, <2>4, FindingOnly DEF FoundClosed, Verdicts
    <2>5. CASE Probe(b, h)
      BY <2>1, <2>5, FindingOnly DEF Probe, Verdicts
    <2> QED
      BY <1>2, <2>2, <2>3, <2>4, <2>5 DEF Check
  <1>3. ASSUME NEW h \in Hosts, NothingToReap(b, h) \/ ReapRelease(b, h) PROVE SInv'
    BY <1>3, FindingOnly DEF NothingToReap, ReapRelease, Verdicts, Types
  <1>4. ASSUME NEW h \in Hosts, Reap(b, h) PROVE SInv'
    BY <1>4, ReapKeeps
  <1>5. ASSUME NEW h \in Hosts, ReapClose(b, h) PROVE SInv'
    BY <1>5, ReapCloseKeeps
  <1> QED
    BY <1>1, <1>2, <1>3, <1>4, <1>5 DEF BeatStep, ReapStep

-----------------------------------------------------------------------------
(* ... hence it always holds.                                              *)

(* SInv is an invariant of the registry with all that uses it.             *)
THEOREM SessionsInductive == Spec => []SInv
  <1>1. Init => SInv
    BY InitKept
  <1>2. SInv /\ [Next]_vars => SInv'
    <2> SUFFICES ASSUME SInv, [Next]_vars PROVE SInv'
      OBVIOUS
    <2>1. CASE UNCHANGED vars
      BY <2>1 DEF vars, SInv, TypeOK, Types, MadeInOrder, HandlersInStep, BeatsInStep,
         EntriesOwn, CheckedOwn, EvictedApart, HeldApart, TakenApart, Kept, Outside
    <2>2. CASE \E u \in Users : Call(u) \/ Proceed(u)
      BY <2>2, HandlerKeeps
    <2>3. CASE \E b \in Beats : BeatStep(b)
      BY <2>3, BeatStepKeeps
    <2>4. CASE \E s \in Sessions : CloseEvicted(s) \/ Drop(s)
      BY <2>4, CloseEvictedKeeps, DropKeeps
    <2> QED
      BY <2>1, <2>2, <2>3, <2>4 DEF Next
  <1> QED
    BY <1>1, <1>2, PTL DEF Spec

(* Every variable keeps its type and every station its session (registry,  *)
(* handlers and heartbeat).                                                *)
THEOREM SessionsTyped == Spec => []TypeOK
  BY SessionsInductive, PTL DEF SInv

(* An open transport always has somebody who will close it (insert,        *)
(* disconnect).                                                            *)
THEOREM SessionsNeverLeak == Spec => []NoLeak
  <1>1. SInv => NoLeak
    <2> SUFFICES ASSUME SInv, NEW s \in Sessions, link[s] = "up"
                 PROVE  Keepers(s) # {}
      BY DEF NoLeak
    <2>1. ASSUME NEW h \in Hosts, entry[h] = s PROVE <<"registry", h>> \in Keepers(s)
      BY <2>1 DEF Keepers
    <2>2. ASSUME NEW u \in Users, holds[u] = s PROVE <<"user", u>> \in Keepers(s)
      BY <2>2 DEF Keepers
    <2>3. ASSUME NEW b \in Beats, taken[b] = s PROVE <<"beat", b>> \in Keepers(s)
      BY <2>3 DEF Keepers
    <2>4. ASSUME s \in evicted PROVE <<"spawned", s>> \in Keepers(s)
      BY <2>4 DEF Keepers
    <2> QED
      BY <2>1, <2>2, <2>3, <2>4 DEF SInv, Kept
  <1> QED
    BY <1>1, SessionsInductive, PTL

(* And never two: teardowns do not overlap, and a session in the registry  *)
(* is not being torn down (SessionRegistry::insert, remove, disconnect).   *)
THEOREM SessionsHaveOneKeeper == Spec => []OneKeeper
  <1>1. SInv => OneKeeper
    <2> SUFFICES ASSUME SInv PROVE OneKeeper
      OBVIOUS
    <2>1. \A h \in Hosts : Connected(h) => host[entry[h]] = h
      BY DEF SInv, EntriesOwn, Connected
    <2>2. ASSUME NEW s \in Sessions, NEW j \in Keepers(s), NEW k \in Keepers(s)
          PROVE  j = k
      <3>1. s # None
        BY NoneApart
      <3>2. ASSUME NEW h \in Hosts, entry[h] = s
            PROVE  /\ \A g \in Hosts : entry[g] = s => g = h
                   /\ \A u \in Users : holds[u] # s
                   /\ \A b \in Beats : taken[b] # s
                   /\ s \notin evicted
        BY <3>1, <3>2 DEF SInv, EntriesOwn, EvictedApart, HeldApart, TakenApart, Outside
      <3>3. ASSUME NEW u \in Users, holds[u] = s
            PROVE  /\ \A v \in Users : holds[v] = s => v = u
                   /\ \A b \in Beats : taken[b] # s
                   /\ s \notin evicted
        BY <3>1, <3>3 DEF SInv, HeldApart
      <3>4. ASSUME NEW b \in Beats, taken[b] = s
            PROVE  (\A c \in Beats : taken[c] = s => c = b) /\ s \notin evicted
        BY <3>1, <3>4 DEF SInv, TakenApart
      <3> QED
        BY <3>2, <3>3, <3>4 DEF Keepers
    <2> QED
      BY <2>1, <2>2 DEF OneKeeper
  <1> QED
    BY <1>1, SessionsInductive, PTL

-----------------------------------------------------------------------------
(* What a heartbeat knows when it takes a session down.                    *)

OneBeat == \A b, c \in Beats : b = c

(* It asked sessions that were made, and each for one host only.           *)
AskedMade ==
  \A b \in Beats, h \in Hosts : asked[b][h] # None => asked[b][h] <= created
AskedApart ==
  \A b \in Beats, g, h \in Hosts : asked[b][g] # None /\ asked[b][g] = asked[b][h] => g = h

(* What it no longer takes for well was closed or silent for too long.     *)
FoundOut ==
  \A b \in Beats, h \in Hosts :
    verdict[b][h] \in {"probing", "gone"} /\ asked[b][h] # None =>
      link[asked[b][h]] = "down" \/ missed[asked[b][h]] >= MaxMissedBeats

Grounded == AskedMade /\ AskedApart /\ FoundOut

LEMMA AskedSession ==
  ASSUME Types, NEW b \in Beats, NEW h \in Hosts, asked[b][h] # None
  PROVE  asked[b][h] \in Sessions
  BY DEF Types

(* Nothing the handlers do revives a transport.                            *)
LEMMA OthersKeepGround ==
  ASSUME SInv, Grounded, UNCHANGED <<asked, verdict, missed>>,
         \A s \in Sessions : s <= created => s <= created',
         \A s \in Sessions : s <= created /\ link[s] = "down" => link'[s] = "down"
  PROVE  Grounded'
  <1>1. Types
    BY DEF SInv, TypeOK
  <1>2. AskedMade'
    BY <1>1, AskedSession DEF Grounded, AskedMade
  <1>3. AskedApart'
    BY DEF Grounded, AskedApart
  <1>4. FoundOut'
    BY <1>1, AskedSession DEF Grounded, FoundOut, AskedMade
  <1> QED
    BY <1>2, <1>3, <1>4 DEF Grounded

LEMMA HandlerKeepsGround ==
  ASSUME SInv, Grounded, NEW u \in Users, Call(u) \/ Proceed(u)
  PROVE  Grounded'
  <1>1. Types /\ created \in Nat /\ (at[u] \in {"check", "close", "off"} => holds[u] \in Sessions)
    BY SessionAssumption, NoneApart DEF SInv, TypeOK, HandlersInStep, Types
  <1>2. UNCHANGED <<asked, verdict, missed>>
    BY DEF Call, Proceed, Dial, Disconnect, Power, DialFails, Authenticate, CheckFails, Park,
           PowerLeaves, PowerTakes, Close, Release
  <1>3. CASE Authenticate(u)
    <2>1. created' = created + 1 /\ link' = [link EXCEPT ![created + 1] = "up"]
      BY <1>3 DEF Authenticate
    <2>2. \A s \in Sessions : s <= created => s <= created' /\ s # created + 1
      BY <1>1, <2>1 DEF Sessions
    <2>3. \A s \in Sessions : s <= created /\ link[s] = "down" => link'[s] = "down"
      BY <1>1, <2>1, <2>2 DEF Types
    <2> QED
      BY <1>2, <2>2, <2>3, OthersKeepGround
  <1>4. CASE CheckFails(u) \/ Close(u)
    <2>1. created' = created /\ link' = [link EXCEPT ![holds[u]] = "down"]
      BY <1>4 DEF CheckFails, Close
    <2>2. \A s \in Sessions : link[s] = "down" => link'[s] = "down"
      BY <1>1, <2>1 DEF Types
    <2> QED
      BY <1>2, <2>1, <2>2, OthersKeepGround
  <1>5. CASE ~Authenticate(u) /\ ~CheckFails(u) /\ ~Close(u)
    <2>1. UNCHANGED <<created, link>>
      BY <1>5 DEF Call, Proceed, Dial, Disconnect, Power, DialFails, Park,
             PowerLeaves, PowerTakes, Release
    <2> QED
      BY <1>2, <2>1, OthersKeepGround
  <1> QED
    BY <1>3, <1>4, <1>5

(* A check or a step of the reap loop, which writes one verdict.           *)
LEMMA FindingKeepsGround ==
  ASSUME SInv, Grounded, OneBeat, NEW b \in Beats, NEW h \in Hosts, NEW v \in Verdicts,
         Finds(b, h, v), UNCHANGED <<asked, created>>,
         \A s \in Sessions : link[s] = "down" => link'[s] = "down",
         \A s \in Sessions : s # asked[b][h] => missed'[s] = missed[s],
         v \in {"probing", "gone"} /\ asked[b][h] # None =>
           link'[asked[b][h]] = "down" \/ missed'[asked[b][h]] >= MaxMissedBeats
  PROVE  Grounded'
  <1>1. Types
    BY DEF SInv, TypeOK
  <1>2. AskedMade' /\ AskedApart'
    BY DEF Grounded, AskedMade, AskedApart
  <1>3. verdict'[b][h] = v /\ \A g \in Hosts \ {h} : verdict'[b][g] = verdict[b][g]
    BY <1>1, FindsEffect
  <1>4. ASSUME NEW c \in Beats, NEW g \in Hosts,
               verdict'[c][g] \in {"probing", "gone"}, asked'[c][g] # None
        PROVE  link'[asked'[c][g]] = "down" \/ missed'[asked'[c][g]] >= MaxMissedBeats
    <2>1. c = b /\ asked'[c][g] = asked[b][g] /\ asked[b][g] \in Sessions
      BY <1>1, <1>4, AskedSession DEF OneBeat
    <2>2. CASE g = h
      BY <1>3, <1>4, <2>1, <2>2
    <2>3. CASE g # h
      <3>1. asked[b][g] # asked[b][h] /\ verdict[b][g] \in {"probing", "gone"}
        BY <1>3, <1>4, <2>1, <2>3 DEF Grounded, AskedApart
      <3>2. link[asked[b][g]] = "down" \/ missed[asked[b][g]] >= MaxMissedBeats
        BY <1>4, <2>1, <3>1 DEF Grounded, FoundOut
      <3>3. missed'[asked[b][g]] = missed[asked[b][g]]
        BY <2>1, <3>1
      <3> QED
        BY <2>1, <3>2, <3>3
    <2> QED
      BY <2>2, <2>3
  <1>5. FoundOut'
    BY <1>4 DEF FoundOut
  <1> QED
    BY <1>2, <1>5 DEF Grounded

LEMMA CheckKeepsGround ==
  ASSUME SInv, Grounded, OneBeat, NEW b \in Beats, NEW h \in Hosts, Check(b, h)
  PROVE  Grounded'
  <1>1. Types /\ UNCHANGED <<asked, created, link>>
    BY DEF SInv, TypeOK, Check, Answers, SlowReply, FoundClosed, Probe
  <1>2. verdict[b][h] = "asking" => asked[b][h] \in Sessions
    BY <1>1, AskedSession DEF SInv, TypeOK, BeatsInStep
  <1>3. CASE Answers(b, h)
    <2>1. verdict[b][h] = "asking" /\ missed' = [missed EXCEPT ![asked[b][h]] = 0]
      BY <1>3 DEF Answers
    <2>2. \A s \in Sessions : s # asked[b][h] => missed'[s] = missed[s]
      BY <1>1, <1>2, <2>1 DEF Types
    <2>3. Finds(b, h, "well") /\ "well" \in Verdicts
      BY <1>3 DEF Answers, Verdicts
    <2> QED
      BY <1>1, <2>2, <2>3, FindingKeepsGround
  <1>4. CASE SlowReply(b, h)
    <2> DEFINE s == asked[b][h]
               v == IF OneMore(s) < MaxMissedBeats THEN "well" ELSE "probing"
    <2>1. verdict[b][h] = "asking" /\ missed' = [missed EXCEPT ![s] = OneMore(s)]
          /\ Finds(b, h, v)
      BY <1>4 DEF SlowReply
    <2>2. /\ \A r \in Sessions : r # s => missed'[r] = missed[r]
          /\ missed'[s] = OneMore(s)
      BY <1>1, <1>2, <2>1 DEF Types
    <2>3. v = "probing" => OneMore(s) >= MaxMissedBeats
      <3>1. OneMore(s) \in Nat /\ MaxMissedBeats \in Nat
        BY <1>1, <1>2, <2>1, SessionAssumption DEF Types, OneMore
      <3> QED
        BY <3>1
    <2>4. v \in Verdicts /\ v # "gone"
      BY DEF Verdicts
    <2> HIDE DEF v
    <2> QED
      BY <1>1, <2>1, <2>2, <2>3, <2>4, FindingKeepsGround
  <1>5. CASE FoundClosed(b, h)
    <2>1. Finds(b, h, "probing") /\ "probing" \in Verdicts /\ missed' = missed
          /\ link[asked[b][h]] = "down"
      BY <1>5 DEF FoundClosed, Verdicts
    <2> QED
      BY <1>1, <2>1, FindingKeepsGround
  <1>6. CASE Probe(b, h)
    <2>1. Finds(b, h, "gone") /\ "gone" \in Verdicts /\ missed' = missed
          /\ verdict[b][h] = "probing"
      BY <1>6 DEF Probe, Verdicts
    <2>2. asked[b][h] # None =>
            link'[asked[b][h]] = "down" \/ missed'[asked[b][h]] >= MaxMissedBeats
      BY <1>1, <2>1 DEF Grounded, FoundOut
    <2> QED
      BY <1>1, <2>1, <2>2, FindingKeepsGround
  <1> QED
    BY <1>3, <1>4, <1>5, <1>6 DEF Check

LEMMA BeatKeepsGround ==
  ASSUME SInv, Grounded, OneBeat, NEW b \in Beats, BeatStep(b)
  PROVE  Grounded'
  <1>1. Types
    BY DEF SInv, TypeOK
  <1>2. CASE Beat(b)
    <2>1. \A c \in Beats : c = b
      BY DEF OneBeat
    <2>2. UNCHANGED <<created, link, missed>>
      BY <1>2 DEF Beat
    <2>3. /\ asked'[b] = entry
          /\ verdict'[b] = [h \in Hosts |-> IF Connected(h) THEN "asking" ELSE "probing"]
      BY <1>1, <1>2 DEF Beat, Types
    <2>4. AskedMade'
      BY <2>1, <2>2, <2>3 DEF AskedMade, SInv, EntriesOwn
    <2>5. AskedApart'
      BY <2>1, <2>3 DEF AskedApart, SInv, EntriesOwn
    <2>6. FoundOut'
      BY <2>1, <2>3 DEF FoundOut, Connected
    <2> QED
      BY <2>4, <2>5, <2>6 DEF Grounded
  <1>3. CASE BeatEnds(b)
    <2>1. \A c \in Beats, h \in Hosts : asked'[c][h] = None
      BY <1>1, <1>3 DEF BeatEnds, Types, OneBeat
    <2> QED
      BY <2>1 DEF Grounded, AskedMade, AskedApart, FoundOut
  <1>4. ASSUME NEW h \in Hosts, Check(b, h) PROVE Grounded'
    BY <1>4, CheckKeepsGround
  <1>5. ASSUME NEW h \in Hosts, ReapStep(b, h) PROVE Grounded'
    <2>1. UNCHANGED <<asked, created, missed>>
      BY <1>5 DEF ReapStep, Reap, NothingToReap, ReapClose, ReapRelease
    <2>2. \A s \in Sessions : link[s] = "down" => link'[s] = "down"
      <3>1. link' = link \/ link' = [link EXCEPT ![taken[b]] = "down"]
        BY <1>5 DEF ReapStep, Reap, NothingToReap, ReapClose, ReapRelease
      <3> QED
        BY <1>1, <3>1 DEF Types
    <2>3. PICK v \in {"close", "reaped", "release"} : Finds(b, h, v)
      BY <1>5 DEF ReapStep, Reap, NothingToReap, ReapClose, ReapRelease
    <2>4. v \in Verdicts /\ v \notin {"probing", "gone"}
      BY DEF Verdicts
    <2> QED
      BY <2>1, <2>2, <2>3, <2>4, FindingKeepsGround
  <1> QED
    BY <1>2, <1>3, <1>4, <1>5 DEF BeatStep

(* A heartbeat only takes down what is in the registry.                    *)
LEMMA ClosesConnected ==
  ASSUME Types, OneBeat, [Next]_vars, NEW b \in Beats, NEW h \in Hosts,
         verdict[b][h] = "gone", verdict'[b][h] = "close"
  PROVE  Connected(h)
  <1>1. verdict' # verdict
    OBVIOUS
  <1>2. PICK c \in Beats : BeatStep(c)
    BY <1>1 DEF Next, vars, Call, Proceed, Dial, Disconnect, Power, DialFails, Authenticate,
       CheckFails, Park, PowerLeaves, PowerTakes, Close, Release, CloseEvicted, Drop
  <1>3. c = b
    BY DEF OneBeat
  <1>4. ~Beat(b) /\ ~BeatEnds(b)
    <2>1. Beat(b) => verdict'[b][h] \in {"asking", "probing"}
      BY DEF Beat, Types
    <2>2. BeatEnds(b) => verdict'[b][h] = "resting"
      BY DEF BeatEnds, Types
    <2> QED
      BY <2>1, <2>2
  <1>5. PICK g \in Hosts : Check(b, g) \/ ReapStep(b, g)
    BY <1>2, <1>3, <1>4 DEF BeatStep
  <1>6. ASSUME NEW v \in Verdicts, Finds(b, g, v) PROVE g = h /\ v = "close"
    BY <1>6, FindsEffect
  <1>7. ~Check(b, g)
    <2>1. \A v \in Verdicts : Finds(b, g, v) => v = "close"
      BY <1>6
    <2> QED
      BY <2>1 DEF Check, Answers, SlowReply, FoundClosed, Probe, Verdicts
  <1>8. Reap(b, g)
    <2>1. \A v \in Verdicts : Finds(b, g, v) => v = "close"
      BY <1>6
    <2>2. ~NothingToReap(b, g) /\ ~ReapClose(b, g) /\ ~ReapRelease(b, g)
      BY <2>1 DEF NothingToReap, ReapClose, ReapRelease, Verdicts
    <2> QED
      BY <1>5, <1>7, <2>2 DEF ReapStep
  <1>9. Finds(b, g, "close") /\ "close" \in Verdicts
    BY <1>8 DEF Reap, Verdicts
  <1> QED
    BY <1>6, <1>8, <1>9 DEF Reap

(* A heartbeat closes the session it looked at only if that was closed     *)
(* already or has missed as many beats in a row as are allowed, whatever   *)
(* connects, disconnects and shutdowns come in between, for heartbeats     *)
(* that do not overlap (missed_beats, heartbeat).                          *)
THEOREM SlowRepliesAreSpared ==
  ASSUME OneBeat PROVE Spec => SlowReplySpared
  <1>1. Init => Grounded
    BY DEF Init, Grounded, AskedMade, AskedApart, FoundOut
  <1>2. SInv /\ Grounded /\ [Next]_vars => Grounded'
    <2> SUFFICES ASSUME SInv, Grounded, [Next]_vars PROVE Grounded'
      OBVIOUS
    <2>1. CASE UNCHANGED vars
      BY <2>1 DEF vars, Grounded, AskedMade, AskedApart, FoundOut
    <2>2. CASE \E u \in Users : Call(u) \/ Proceed(u)
      BY <2>2, HandlerKeepsGround
    <2>3. CASE \E b \in Beats : BeatStep(b)
      BY <2>3, BeatKeepsGround
    <2>4. ASSUME NEW s \in Sessions, CloseEvicted(s) \/ Drop(s) PROVE Grounded'
      <3>1. UNCHANGED <<asked, verdict, missed, created>>
            /\ link' = [link EXCEPT ![s] = "down"]
        BY <2>4 DEF CloseEvicted, Drop
      <3>2. \A r \in Sessions : link[r] = "down" => link'[r] = "down"
        BY <3>1 DEF SInv, TypeOK, Types
      <3> QED
        BY <3>1, <3>2, OthersKeepGround
    <2> QED
      BY <2>1, <2>2, <2>3, <2>4 DEF Next
  <1>3. SInv /\ Grounded /\ [Next]_vars =>
          [\A b \in Beats, h \in Hosts :
             LET s == entry[h] IN
             verdict[b][h] = "gone" /\ verdict'[b][h] = "close" /\ s = asked[b][h] =>
               link[s] = "down" \/ missed[s] >= MaxMissedBeats]_vars
    <2> SUFFICES ASSUME SInv, Grounded, [Next]_vars, NEW b \in Beats, NEW h \in Hosts,
                        verdict[b][h] = "gone", verdict'[b][h] = "close",
                        entry[h] = asked[b][h]
                 PROVE  link[entry[h]] = "down" \/ missed[entry[h]] >= MaxMissedBeats
      OBVIOUS
    <2>1. entry[h] # None
      BY ClosesConnected DEF Connected, SInv, TypeOK
    <2> QED
      BY <2>1 DEF Grounded, FoundOut
  <1> QED
    BY <1>1, <1>2, <1>3, SessionsInductive, PTL DEF Spec, SlowReplySpared
=============================================================================

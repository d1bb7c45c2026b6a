----------------------------- MODULE FilesProofs -----------------------------
(***************************************************************************)
(* Proofs about Files and its parts.                                       *)
(*                                                                         *)
(* Downloads, for any remote files, sizes, chunk and number of downloads:  *)
(* a file is at the path of the download that made it and nowhere else, so *)
(* that nobody writes into the staging file of a download whose path no    *)
(* other was pending for; and its bytes are in place as long as no reply   *)
(* was short, which is what the length check finds out.                    *)
(*                                                                         *)
(* The smaller parts after it, and then what the parts are proved to do,   *)
(* stated of every behaviour of Files.                                     *)
(***************************************************************************)
EXTENDS Files, Recursion, TLAPS

NotStarted(d) == stage[d] \in {"none", "queued", "opening"}

(* A file is where the download that made it was to put it, under one of   *)
(* the two names.                                                          *)
FilesInPlace ==
  \A p \in Paths : /\ part[p] # None => path[part[p]] = p /\ part[p] # final[p]
                   /\ final[p] # None => path[final[p]] = p

(* The file a download writes is one made for its path.                    *)
OwnPath == \A d \in Downloads : Open(d) => path[fd[d]] = path[d] /\ ~NotStarted(fd[d])

(* Two downloads that are pending for one path share it.                   *)
Alone(d) == path[d] \notin shared

Apart ==
  \A d, e \in Downloads : Pending(d) /\ Pending(e) /\ path[d] = path[e] /\ Alone(d) => d = e

(* The file a download may still create is not there.                      *)
FilesOld ==
  \A p \in Paths : /\ part[p] # None => ~NotStarted(part[p])
                   /\ final[p] # None => ~NotStarted(final[p])

(* A copy starts from nothing.                                             *)
StartsEmpty ==
  \A d \in Downloads : NotStarted(d) => offset[d] = 0 /\ wrote[d] = 0

(* A copy has written no more than it asked for, nor than there is.        *)
Measured ==
  \A d \in Downloads : Open(d) =>
    /\ wrote[d] <= offset[d] /\ wrote[d] <= Length[remote[d]]
    /\ stage[d] = "landing" => LengthRight(d)

(* An open download that shares no path has the staging file beside it;    *)
(* nothing is past what it wrote; and unless a reply was short, what it    *)
(* wrote is right.                                                         *)
SoFar(d) ==
  /\ part[path[d]] = fd[d]
  /\ \A i \in Positions : i > wrote[d] => bytes[fd[d]][i] = Hole
  /\ wrote[d] = Lesser(offset[d], Length[remote[d]]) =>
       \A i \in Positions : i <= wrote[d] => bytes[fd[d]][i] = <<remote[d], i>>

Copied == \A d \in Downloads : Open(d) /\ Alone(d) => SoFar(d)

(* The inductive invariant.                                                *)
DInv ==
  /\ TypeOK /\ Apart /\ FilesInPlace /\ OwnPath /\ FilesOld /\ StartsEmpty /\ Measured
  /\ Copied /\ FinalIsWhole /\ NothingLeftBehind

-----------------------------------------------------------------------------
LEMMA NoFile == None \notin Files
  BY DEF None, Files, Downloads

LEMMA DInvInit == Init => DInv
  <1> SUFFICES ASSUME Init PROVE DInv
    OBVIOUS
  <1>1. TypeOK
    BY DownloadAssumption DEF Init, TypeOK, Stages, Modes, Files, None, Empty, Tags, Open
  <1> QED
    BY <1>1 DEF Init, DInv, Apart, FilesInPlace, OwnPath, FilesOld, StartsEmpty, Measured,
       Copied, FinalIsWhole, NothingLeftBehind, Pending, Open, NotStarted

(* A download whose share of the state stays is where it was.              *)
LEMMA Undisturbed ==
  ASSUME NEW e \in Downloads, SoFar(e),
         part'[path'[e]] = part[path[e]], fd'[e] = fd[e],
         remote'[e] = remote[e], offset'[e] = offset[e], wrote'[e] = wrote[e],
         bytes'[fd'[e]] = bytes[fd[e]]
  PROVE  SoFar(e)'
  <1> SUFFICES
        /\ part'[path'[e]] = fd'[e]
        /\ \A i \in Positions : i > wrote'[e] => bytes'[fd'[e]][i] = Hole
        /\ wrote'[e] = Lesser(offset'[e], Length[remote'[e]]) =>
             \A i \in Positions : i <= wrote'[e] => bytes'[fd'[e]][i] = <<remote'[e], i>>
    BY DEF SoFar, Lesser
  <1>1. /\ part[path[e]] = fd[e]
        /\ \A i \in Positions : i > wrote[e] => bytes[fd[e]][i] = Hole
        /\ wrote[e] = Lesser(offset[e], Length[remote[e]]) =>
             \A i \in Positions : i <= wrote[e] => bytes[fd[e]][i] = <<remote[e], i>>
    BY DEF SoFar
  <1> QED
    BY <1>1, Zenon

(* Files stay in place when a download that has made none gets its path.   *)
LEMMA PlacesKept ==
  ASSUME FilesInPlace, FilesOld, part \in [Paths -> Files \cup {None}],
         final \in [Paths -> Files \cup {None}], part' = part, final' = final,
         NEW d \in Downloads, NotStarted(d),
         \A e \in Downloads \ {d} : path'[e] = path[e]
  PROVE  FilesInPlace'
  <1>1. ASSUME NEW f \in Files, ~NotStarted(f) PROVE path'[f] = path[f]
    BY <1>1 DEF Files
  <1>2. ASSUME NEW p \in Paths, part[p] # None PROVE path'[part[p]] = p /\ part[p] # final[p]
    BY <1>1, <1>2 DEF FilesInPlace, FilesOld
  <1>3. ASSUME NEW p \in Paths, final[p] # None PROVE path'[final[p]] = p
    BY <1>1, <1>3 DEF FilesInPlace, FilesOld
  <1> QED
    BY <1>2, <1>3 DEF FilesInPlace

(* Steps that touch no file and open none.                                 *)
LEMMA QueueSteps ==
  ASSUME DInv, NEW d \in Downloads, NEW st \in {"queued", "opening", "failed"},
         NotStarted(d), stage' = [stage EXCEPT ![d] = st],
         remote' \in [Downloads -> Remotes \cup {NoRemote}],
         path' \in [Downloads -> Paths \cup {NoPath}],
         mode' \in [Downloads -> Modes], there' \in [Downloads -> SUBSET Files],
         remote'[d] \in Remotes, path'[d] \in Paths,
         \A e \in Downloads \ {d} : remote'[e] = remote[e] /\ path'[e] = path[e],
         shared \subseteq shared', shared' \subseteq Paths,
         Apart', UNCHANGED <<cancel, fd, offset, wrote, bytes, part, final>>
  PROVE  DInv'
  <1> USE DEF DInv
  <1>1. /\ stage' \in [Downloads -> Stages] /\ stage'[d] = st
        /\ \A e \in Downloads \ {d} : stage'[e] = stage[e]
    BY DEF TypeOK, Stages
  <1>2. \A e \in Downloads : Open(e)' <=> Open(e)
    BY <1>1 DEF Open, NotStarted
  <1>3. \A e \in Downloads : NotStarted(e)' => NotStarted(e)
    BY <1>1 DEF NotStarted
  <1>4. \A e \in Downloads : Open(e) => e # d
    BY DEF Open, NotStarted
  <1>5. TypeOK'
    BY <1>1, <1>2 DEF TypeOK
  <1>6. FilesOld'
    BY <1>3 DEF FilesOld, TypeOK, Files
  <1>7. StartsEmpty'
    BY <1>3 DEF StartsEmpty
  <1>8. Copied'
    <2> SUFFICES ASSUME NEW e \in Downloads, Open(e), Alone(e)' PROVE SoFar(e)'
      BY <1>2 DEF Copied
    <2>1. e \in Downloads \ {d} /\ Alone(e)
      BY <1>4 DEF Alone
    <2> QED
      BY <1>1, <2>1, Undisturbed DEF Copied
  <1>9. NothingLeftBehind'
    <2>1. \A e \in Downloads : stage[e] = "lost" => stage'[e] = "lost" /\ e # d
      BY <1>1 DEF NotStarted
    <2> QED
      BY <1>2, <1>4, <2>1 DEF NothingLeftBehind
  <1>10. FilesInPlace'
    <2>1. /\ part \in [Paths -> Files \cup {None}] /\ part' = part
          /\ final \in [Paths -> Files \cup {None}] /\ final' = final
      BY DEF TypeOK
    <2> QED
      BY <2>1, PlacesKept
  <1>11. OwnPath'
    <2> SUFFICES ASSUME NEW e \in Downloads, Open(e)
                 PROVE  path'[fd[e]] = path'[e] /\ ~NotStarted(fd[e])'
      BY <1>2 DEF OwnPath
    <2>1. fd[e] \in Downloads /\ path[fd[e]] = path[e] /\ ~NotStarted(fd[e])
      BY NoFile DEF OwnPath, TypeOK, Files
    <2>2. fd[e] \in Downloads \ {d} /\ e \in Downloads \ {d}
      BY <2>1, <1>4
    <2> QED
      BY <2>1, <2>2, <1>1 DEF NotStarted
  <1>12. FinalIsWhole'
    BY DEF FinalIsWhole, Whole
  <1>13. Measured'
    BY <1>1, <1>2, <1>4 DEF Measured, LengthRight
  <1> QED
    BY <1>5, <1>6, <1>7, <1>8, <1>9, <1>10, <1>11, <1>12, <1>13

LEMMA CancelKeeps ==
  ASSUME DInv, NEW d \in Downloads, Cancel(d)
  PROVE  DInv'
  BY DEF DInv, Cancel, TypeOK, Apart, FilesInPlace, OwnPath, FilesOld, StartsEmpty,
     Measured, Copied, SoFar, FinalIsWhole, Whole, NothingLeftBehind, Pending, Open,
     NotStarted, LengthRight, Alone, history

(* What is known of the file an open download writes.                      *)
LEMMA FileIsThere ==
  ASSUME DInv, NEW d \in Downloads, Open(d)
  PROVE  /\ fd[d] \in Files /\ path[d] \in Paths /\ remote[d] \in Remotes
         /\ path[fd[d]] = path[d] /\ fd[d] # None /\ Pending(d)
  BY NoFile DEF DInv, TypeOK, Open, OwnPath, Pending

(* Nobody else has the file of an open download that shares no path, and   *)
(* it is at no path.                                                       *)
LEMMA FileIsOwn ==
  ASSUME DInv, NEW d \in Downloads, Open(d), Alone(d)
  PROVE  /\ part[path[d]] = fd[d]
         /\ \A e \in Downloads \ {d} : Open(e) => fd[e] # fd[d]
         /\ \A p \in Paths : final[p] # fd[d]
         /\ \A p \in Paths \ {path[d]} : part[p] # fd[d]
  <1> USE DEF DInv
  <1>1. /\ fd[d] \in Files /\ path[d] \in Paths /\ path[fd[d]] = path[d] /\ fd[d] # None
        /\ Pending(d)
    BY FileIsThere
  <1>2. part[path[d]] = fd[d]
    BY DEF Copied, SoFar
  <1>3. ASSUME NEW e \in Downloads \ {d}, Open(e) PROVE fd[e] # fd[d]
    <2>1. path[fd[e]] = path[e] /\ Pending(e)
      BY <1>3, FileIsThere
    <2> QED
      BY <1>1, <2>1 DEF Apart
  <1> QED
    BY <1>1, <1>2, <1>3 DEF FilesInPlace

LEMMA CreateKeeps ==
  ASSUME DInv, NEW d \in Downloads, Create(d)
  PROVE  DInv'
  <1> USE DEF DInv
  <1> DEFINE f == IF part[path[d]] = None THEN d ELSE part[path[d]]
  <1>0. /\ path[d] \in Paths /\ remote[d] \in Remotes
        /\ f \in Files /\ f # None /\ ~Open(d) /\ stage[d] = "opening"
        /\ NotStarted(d) /\ Pending(d)
    BY NoFile DEF Pending, Create, TypeOK, Files, Open, NotStarted
  <1>1. /\ stage' = [stage EXCEPT ![d] = "copying"]
        /\ part' = [part EXCEPT ![path[d]] = f]
        /\ fd' = [fd EXCEPT ![d] = f]
        /\ bytes' = [bytes EXCEPT ![f] = Empty]
        /\ UNCHANGED <<remote, path, mode, cancel, offset, wrote, final, history>>
    BY DEF Create
  <1>f. /\ part[path[d]] = None => f = d
        /\ part[path[d]] # None => f = part[path[d]]
    OBVIOUS
  <1> HIDE DEF f
  <1>2. /\ stage' \in [Downloads -> Stages] /\ stage'[d] = "copying"
        /\ \A e \in Downloads \ {d} : stage'[e] = stage[e]
        /\ part' \in [Paths -> Files \cup {None}] /\ part'[path[d]] = f
        /\ \A p \in Paths \ {path[d]} : part'[p] = part[p]
        /\ fd' \in [Downloads -> Files \cup {None}] /\ fd'[d] = f
        /\ \A e \in Downloads \ {d} : fd'[e] = fd[e]
    BY <1>0, <1>1 DEF TypeOK, Stages
  <1>3. /\ bytes' \in [Files -> [Positions -> Tags]] /\ bytes'[f] = Empty
        /\ \A g \in Files \ {f} : bytes'[g] = bytes[g]
    <2>1. Empty \in [Positions -> Tags]
      BY DEF Empty, Tags
    <2> QED
      BY <1>0, <1>1, <2>1 DEF TypeOK
  <1>4. \A e \in Downloads : Open(e)' <=> Open(e) \/ e = d
    BY <1>2 DEF Open
  <1>5. TypeOK'
    BY <1>0, <1>1, <1>2, <1>3, <1>4 DEF TypeOK, history
  <1>6. /\ \A p \in Paths : final[p] # f
        /\ path[f] = path[d]
    BY <1>0, <1>f DEF FilesInPlace, FilesOld
  <1>7. Apart'
    <2>1. \A e \in Downloads : Pending(e)' <=> Pending(e)
      BY <1>0, <1>2 DEF Pending, Open
    <2> QED
      BY <1>1, <2>1 DEF Apart, Alone, history
  <1>8. FilesInPlace'
    BY <1>1, <1>2, <1>6 DEF FilesInPlace
  <1>9. FilesOld'
    <2> DEFINE early == {"none", "queued", "opening"}
    <2>1. \A e \in Downloads : stage[e] \notin early => stage'[e] \notin early
      BY <1>2
    <2>2. stage'[f] \notin early
      BY <1>0, <1>2, <1>f, <2>1 DEF FilesOld, Files, NotStarted
    <2>3. ASSUME NEW p \in Paths
          PROVE  /\ part'[p] # None => stage'[part'[p]] \notin early
                 /\ final[p] # None => stage'[final[p]] \notin early
      <3>1. /\ part[p] # None => part[p] \in Downloads /\ stage[part[p]] \notin early
            /\ final[p] # None => final[p] \in Downloads /\ stage[final[p]] \notin early
        BY DEF FilesOld, TypeOK, Files, NotStarted
      <3> QED
        BY <3>1, <2>1, <2>2, <1>2
    <2> QED
      BY <1>1, <2>3 DEF FilesOld, NotStarted
  <1>10. StartsEmpty'
    BY <1>1, <1>2 DEF StartsEmpty, NotStarted
  <1>11. Copied'
    <2> SUFFICES ASSUME NEW e \in Downloads, Open(e)', Alone(e)' PROVE SoFar(e)'
      BY DEF Copied
    <2>0. Alone(e)
      BY <1>1 DEF Alone, history
    <2>1. CASE e = d
      <3>1. offset[d] = 0 /\ wrote[d] = 0
        BY <1>0 DEF StartsEmpty
      <3>2. Length[remote[d]] \in Nat
        BY <1>0, DownloadAssumption
      <3>3. \A i \in Positions : ~(i <= 0)
        BY DEF Positions
      <3> QED
        BY <2>1, <3>1, <3>2, <3>3, <1>1, <1>2, <1>3 DEF SoFar, Empty
    <2>2. CASE e # d
      <3>1. Open(e) /\ SoFar(e)
        BY <2>0, <2>2, <1>4 DEF Copied
      <3>2. path[e] # path[d]
        BY <3>1, <2>0, <2>2, <1>0 DEF Apart, Pending
      <3>3. path[e] \in Paths /\ fd[e] \in Files /\ path[fd[e]] = path[e]
        BY <3>1, FileIsThere
      <3>4. part'[path[e]] = part[path[e]] /\ fd'[e] = fd[e] /\ stage'[e] = stage[e]
        BY <2>2, <3>2, <3>3, <1>2
      <3>5. bytes'[fd'[e]] = bytes[fd[e]]
        BY <3>2, <3>3, <3>4, <1>3, <1>6
      <3> QED
        BY <1>1, <3>1, <3>4, <3>5, Undisturbed
    <2> QED
      BY <2>1, <2>2
  <1>12. FinalIsWhole'
    BY <1>1, <1>3, <1>6 DEF FinalIsWhole, Whole, TypeOK, history
  <1>13. NothingLeftBehind'
    <2>1. \A e \in Downloads : stage[e] = "lost" => stage'[e] = "lost"
      BY <1>2, <1>0 DEF NotStarted
    <2> QED
      BY <1>1, <1>2, <1>4, <2>1 DEF NothingLeftBehind
  <1>14. OwnPath'
    <2> SUFFICES ASSUME NEW e \in Downloads, Open(e)'
                 PROVE  path[fd'[e]] = path[e] /\ ~NotStarted(fd[e])'
      BY <1>1 DEF OwnPath
    <2>1. fd'[e] \in Downloads /\ path[fd'[e]] = path[e]
          /\ (fd'[e] = d \/ ~NotStarted(fd'[e]))
      <3>1. CASE e = d
        BY <3>1, <1>0, <1>2, <1>6, <1>f DEF Files, FilesOld
      <3>2. CASE e # d
        BY <3>2, <1>2, <1>4, NoFile DEF OwnPath, TypeOK, Files
      <3> QED
        BY <3>1, <3>2
    <2> QED
      BY <2>1, <1>2 DEF NotStarted
  <1>15. Measured'
    <2>1. offset[d] = 0 /\ wrote[d] = 0
      BY <1>0 DEF StartsEmpty
    <2>2. Length[remote[d]] \in Nat
      BY <1>0, DownloadAssumption
    <2> QED
      BY <1>1, <1>2, <1>4, <2>1, <2>2 DEF Measured, LengthRight
  <1> QED
    BY <1>5, <1>7, <1>8, <1>9, <1>10, <1>11, <1>12, <1>13, <1>14, <1>15

(* What an open download's stage may become without a file being touched.  *)
LEMMA StageKeeps ==
  ASSUME DInv, NEW d \in Downloads, NEW st \in {"flushing", "landing"}, Open(d),
         st = "landing" => LengthRight(d), stage' = [stage EXCEPT ![d] = st],
         UNCHANGED <<remote, path, mode, cancel, fd, offset, wrote, bytes, part, final,
                     history>>
  PROVE  DInv'
  <1> USE DEF DInv
  <1>1. /\ stage' \in [Downloads -> Stages] /\ stage'[d] = st
        /\ \A e \in Downloads \ {d} : stage'[e] = stage[e]
    BY DEF TypeOK, Stages
  <1>2. \A e \in Downloads : Open(e)' <=> Open(e)
    BY <1>1 DEF Open
  <1>3. \A e \in Downloads : NotStarted(e)' <=> NotStarted(e)
    BY <1>1 DEF NotStarted, Open
  <1>4. \A e \in Downloads : Pending(e)' <=> Pending(e)
    BY <1>1, <1>2 DEF Pending, Open
  <1>5. TypeOK'
    <2>1. remote[d] \in Remotes /\ path[d] \in Paths
      BY DEF TypeOK, Open
    <2> QED
      BY <1>1, <1>2, <2>1 DEF TypeOK, history
  <1>6. Apart' /\ FilesInPlace' /\ StartsEmpty'
    BY <1>3, <1>4 DEF Apart, Alone, FilesInPlace, StartsEmpty, history
  <1>7. FilesOld'
    BY <1>3 DEF FilesOld, TypeOK, Files
  <1>8. Copied'
    <2>1. ASSUME NEW e \in Downloads \ {d}, Open(e), Alone(e) PROVE SoFar(e)'
      BY <1>1, <2>1, Undisturbed DEF Copied
    <2>2. Alone(d) => SoFar(d)'
      BY <1>1 DEF Copied, SoFar
    <2> QED
      BY <1>2, <2>1, <2>2 DEF Copied, Alone, history
  <1>9. FinalIsWhole' /\ NothingLeftBehind'
    <2>1. \A e \in Downloads : stage[e] = "lost" => stage'[e] = "lost"
      BY <1>1 DEF Open
    <2> QED
      BY <1>2, <2>1 DEF FinalIsWhole, Whole, NothingLeftBehind, history
  <1>10. OwnPath'
    <2>1. \A e \in Downloads : Open(e) => fd[e] \in Downloads
      BY NoFile DEF TypeOK, Files
    <2> QED
      BY <1>2, <1>3, <2>1 DEF OwnPath
  <1>11. Measured'
    BY <1>1, <1>2 DEF Measured, LengthRight
  <1> QED
    BY <1>5, <1>6, <1>7, <1>8, <1>9, <1>10, <1>11

(* A download ends: it lets go of its file, and the staging name is free.  *)
LEMMA EndKeeps ==
  ASSUME DInv, NEW d \in Downloads, NEW st \in {"failed", "done"},
         Open(d) \/ stage[d] = "opening", stage' = [stage EXCEPT ![d] = st],
         fd' = [fd EXCEPT ![d] = None], part' = [part EXCEPT ![path[d]] = None],
         Over(d),
         \/ final' = final
         \/ /\ Open(d) /\ (Alone(d) => Whole(fd[d]))
            /\ final' = [final EXCEPT ![path[d]] = part[path[d]]]
  PROVE  DInv'
  <1> USE DEF DInv
  <1>0. path[d] \in Paths /\ remote[d] \in Remotes /\ Pending(d)
    BY DEF TypeOK, Open, Pending
  <1>1. /\ stage' \in [Downloads -> Stages] /\ stage'[d] = st
        /\ \A e \in Downloads \ {d} : stage'[e] = stage[e]
        /\ fd' \in [Downloads -> Files \cup {None}] /\ fd'[d] = None
        /\ \A e \in Downloads \ {d} : fd'[e] = fd[e]
        /\ part' \in [Paths -> Files \cup {None}] /\ part'[path[d]] = None
        /\ \A p \in Paths \ {path[d]} : part'[p] = part[p]
    BY <1>0 DEF TypeOK, Stages
  <1>2. /\ final' \in [Paths -> Files \cup {None}]
        /\ \A p \in Paths :
             \/ final'[p] = final[p]
             \/ /\ Open(d) /\ (Alone(d) => Whole(fd[d]))
                /\ p = path[d] /\ final'[p] = part[path[d]]
    BY <1>0 DEF TypeOK
  <1>o. /\ cancel' \in [Downloads -> BOOLEAN] /\ mode' \in [Downloads -> Modes]
        /\ offset' \in [Downloads -> Nat] /\ offset'[d] = 0
        /\ \A e \in Downloads \ {d} : offset'[e] = offset[e]
        /\ wrote' \in [Downloads -> 0 .. MaxLength] /\ wrote'[d] = 0
        /\ \A e \in Downloads \ {d} : wrote'[e] = wrote[e]
        /\ there' \in [Downloads -> SUBSET Files]
        /\ UNCHANGED <<remote, path, bytes, shared>>
    <2>1. 0 \in 0 .. MaxLength /\ "keepBoth" \in Modes
      BY DownloadAssumption DEF Modes
    <2> QED
      BY <2>1 DEF Over, TypeOK
  <1>3. \A e \in Downloads : Open(e)' <=> Open(e) /\ e # d
    BY <1>1 DEF Open
  <1>4. \A e \in Downloads : NotStarted(e)' => NotStarted(e) /\ e # d
    BY <1>1 DEF NotStarted
  <1>5. \A e \in Downloads : Pending(e)' => Pending(e)
    BY <1>1, <1>3 DEF Pending
  <1>6. TypeOK'
    BY <1>0, <1>1, <1>2, <1>3, <1>o DEF TypeOK
  <1>7. Apart' /\ StartsEmpty'
    BY <1>4, <1>5, <1>o DEF Apart, Alone, StartsEmpty
  <1>8. FilesInPlace'
    BY <1>0, <1>1, <1>2, <1>o DEF FilesInPlace
  <1>9. FilesOld'
    <2> SUFFICES ASSUME NEW p \in Paths
                 PROVE  /\ part'[p] # None => ~NotStarted(part[p])'
                        /\ final'[p] # None => ~NotStarted(final[p])'
      BY DEF FilesOld
    <2>1. part'[p] # None => part'[p] \in Downloads /\ ~NotStarted(part'[p])
      BY <1>1 DEF FilesOld, TypeOK, Files
    <2>2. final'[p] # None => final'[p] \in Downloads /\ ~NotStarted(final'[p])
      BY <1>0, <1>2 DEF FilesOld, TypeOK, Files
    <2>3. \A e \in Downloads : ~NotStarted(e) => stage'[e] \notin {"none", "queued", "opening"}
      BY <1>1 DEF NotStarted
    <2> QED
      BY <2>1, <2>2, <2>3 DEF NotStarted
  <1>10. Copied'
    <2> SUFFICES ASSUME NEW e \in Downloads, Open(e), e # d, Alone(e) PROVE SoFar(e)'
      BY <1>3, <1>o DEF Copied, Alone
    <2>1. path[e] # path[d] /\ path[e] \in Paths
      BY <1>0 DEF Apart, Pending, TypeOK, Open
    <2>2. part'[path[e]] = part[path[e]] /\ fd'[e] = fd[e] /\ stage'[e] = stage[e]
      BY <2>1, <1>1
    <2> QED
      BY <2>2, <1>o, Undisturbed DEF Copied
  <1>11. FinalIsWhole'
    <2> SUFFICES ASSUME NEW p \in Paths \ shared, final'[p] # None PROVE Whole(final'[p])
      BY <1>o DEF FinalIsWhole, Whole
    <2>1. CASE final'[p] = final[p]
      BY <2>1 DEF FinalIsWhole
    <2>2. CASE Open(d) /\ (Alone(d) => Whole(fd[d])) /\ p = path[d] /\ final'[p] = part[path[d]]
      BY <2>2, FileIsOwn DEF Alone
    <2> QED
      BY <1>2, <2>1, <2>2
  <1>12. NothingLeftBehind'
    <2> SUFFICES ASSUME NEW p \in Paths, part'[p] # None
                 PROVE  \E e \in Downloads : path[e] = p /\ (Open(e)' \/ stage'[e] = "lost")
      BY <1>o DEF NothingLeftBehind
    <2>1. part[p] # None /\ p # path[d]
      BY <1>1
    <2>2. PICK e \in Downloads : path[e] = p /\ (Open(e) \/ stage[e] = "lost")
      BY <2>1 DEF NothingLeftBehind
    <2> QED
      BY <2>1, <2>2, <1>1, <1>3
  <1>13. OwnPath'
    <2>1. \A e \in Downloads : Open(e) => fd[e] \in Downloads
      BY NoFile DEF TypeOK, Files
    <2> QED
      BY <1>1, <1>3, <1>4, <1>o, <2>1 DEF OwnPath
  <1>14. Measured'
    BY <1>1, <1>3, <1>o DEF Measured, LengthRight
  <1> QED
    BY <1>6, <1>7, <1>8, <1>9, <1>10, <1>11, <1>12, <1>13, <1>14

(* A reply extends what is right, or leaves too little for the check.      *)
LEMMA ReplyKeeps ==
  ASSUME DInv, NEW d \in Downloads, NEW k \in 1 .. ChunkSize, Reply(d, k)
  PROVE  DInv'
  <1> USE DEF DInv
  <1> DEFINE r == remote[d]
             f == fd[d]
             L == Length[r]
             w == wrote[d]
             o == offset[d]
             new == [i \in Positions |->
                       IF i \in w + 1 .. w + k THEN <<r, o + (i - w)>> ELSE bytes[f][i]]
  <1>0. /\ Open(d) /\ r \in Remotes /\ path[d] \in Paths /\ f \in Files
        /\ path[f] = path[d] /\ L \in Nat /\ L <= MaxLength /\ w \in Nat /\ o \in Nat
        /\ MaxLength \in Nat
        /\ o < L /\ k \in Nat /\ k >= 1 /\ k <= ChunkSize /\ k <= L - o
        /\ ChunkSize \in Nat
    BY FileIsThere, DownloadAssumption DEF Reply, Open, TypeOK, Lesser
  <1>1. /\ bytes' = [bytes EXCEPT ![f] = new]
        /\ wrote' = [wrote EXCEPT ![d] = w + k]
        /\ offset' = [offset EXCEPT ![d] = o + ChunkSize]
        /\ UNCHANGED <<stage, remote, path, mode, cancel, fd, part, final, history>>
    BY DEF Reply
  <1>2. w <= o /\ w + k <= L
    BY <1>0 DEF Measured
  <1>3. new \in [Positions -> Tags]
    <2> SUFFICES ASSUME NEW i \in Positions PROVE new[i] \in Tags
      OBVIOUS
    <2>1. CASE i \in w + 1 .. w + k
      <3>1. o + (i - w) \in Positions
        BY <2>1, <1>0, <1>2 DEF Positions
      <3> QED
        BY <2>1, <3>1, <1>0 DEF Tags
    <2>2. CASE i \notin w + 1 .. w + k
      BY <2>2, <1>0 DEF TypeOK
    <2> QED
      BY <2>1, <2>2
  <1>4. /\ \A i \in Positions : i > w + k => new[i] = bytes[f][i]
        /\ \A i \in Positions : i <= w => new[i] = bytes[f][i]
        /\ w = o => \A i \in Positions : w < i /\ i <= w + k => new[i] = <<r, i>>
    <2>1. \A i \in Positions : i > w + k \/ i <= w => i \notin w + 1 .. w + k
      BY <1>0 DEF Positions
    <2>2. \A i \in Positions : w < i /\ i <= w + k => i \in w + 1 .. w + k /\ w + (i - w) = i
      BY <1>0 DEF Positions
    <2> QED
      BY <2>1, <2>2
  <1> HIDE DEF new
  <1>5. /\ bytes' \in [Files -> [Positions -> Tags]] /\ bytes'[f] = new
        /\ \A g \in Files \ {f} : bytes'[g] = bytes[g]
        /\ wrote' \in [Downloads -> 0 .. MaxLength] /\ wrote'[d] = w + k
        /\ \A e \in Downloads \ {d} : wrote'[e] = wrote[e]
        /\ offset' \in [Downloads -> Nat] /\ offset'[d] = o + ChunkSize
        /\ \A e \in Downloads \ {d} : offset'[e] = offset[e]
    <2>1. w + k \in 0 .. MaxLength /\ o + ChunkSize \in Nat
      BY <1>0, <1>2
    <2> QED
      BY <1>0, <1>1, <1>3, <2>1 DEF TypeOK
  <1>6. TypeOK'
    BY <1>1, <1>5 DEF TypeOK, Open, history
  <1>7. Apart' /\ FilesInPlace' /\ OwnPath' /\ FilesOld' /\ NothingLeftBehind'
    BY <1>1 DEF Apart, Alone, FilesInPlace, OwnPath, FilesOld, NothingLeftBehind, Pending,
       Open, NotStarted, history
  <1>8. StartsEmpty'
    BY <1>0, <1>1, <1>5 DEF StartsEmpty, NotStarted, Open
  <1>9. FinalIsWhole'
    <2> SUFFICES ASSUME NEW p \in Paths \ shared, final[p] # None PROVE Whole(final[p])'
      BY <1>1 DEF FinalIsWhole, history
    <2>1. final[p] # f
      <3>1. ASSUME final[p] = f PROVE FALSE
        <4>1. path[f] = p
          BY <3>1 DEF FilesInPlace
        <4>2. Alone(d)
          BY <1>0, <4>1 DEF Alone
        <4> QED
          BY <1>0, <3>1, <4>2, FileIsOwn
      <3> QED
        BY <3>1
    <2>2. final[p] \in Files /\ bytes'[final[p]] = bytes[final[p]]
      BY <2>1, <1>5 DEF TypeOK
    <2>3. Whole(final[p])
      BY DEF FinalIsWhole
    <2> QED
      BY <1>1, <2>2, <2>3 DEF Whole
  <1>10. Copied'
    <2> SUFFICES ASSUME NEW e \in Downloads, Open(e), Alone(e) PROVE SoFar(e)'
      BY <1>1 DEF Copied, Open, Alone, history
    <2>1. CASE e # d
      <3>1. fd[e] # f /\ fd[e] \in Files
        BY <2>1, <1>0, FileIsOwn, FileIsThere
      <3> QED
        BY <2>1, <3>1, <1>1, <1>5, Undisturbed DEF Copied
    <2>2. ASSUME w + k = Lesser(o + ChunkSize, L), e = d
          PROVE  \A i \in Positions : i <= w + k => new[i] = <<r, i>>
      <3>1. w = o /\ w = Lesser(o, L)
        BY <2>2, <1>0, <1>2 DEF Lesser
      <3>2. \A i \in Positions : i <= w => new[i] = <<r, i>>
        BY <2>2, <3>1, <1>0, <1>4 DEF Copied, SoFar
      <3>3. \A i \in Positions : i <= w \/ w < i
        BY <1>0 DEF Positions
      <3> QED
        BY <3>1, <3>2, <3>3, <1>4
    <2>3. ASSUME e = d PROVE \A i \in Positions : i > w + k => new[i] = Hole
      <3>1. \A i \in Positions : i > w + k => i > w
        BY <1>0 DEF Positions
      <3> QED
        BY <2>3, <3>1, <1>0, <1>4 DEF Copied, SoFar
    <2>4. e = d => part[path[d]] = f
      BY DEF Copied, SoFar
    <2> QED
      BY <2>1, <2>2, <2>3, <2>4, <1>0, <1>1, <1>5 DEF SoFar, Lesser
  <1>11. Measured'
    <2>1. w + k <= o + ChunkSize /\ stage[d] # "landing"
      BY <1>0, <1>2 DEF Reply
    <2> QED
      BY <2>1, <1>1, <1>2, <1>5 DEF Measured, LengthRight, Open
  <1> QED
    BY <1>6, <1>7, <1>8, <1>9, <1>10, <1>11

LEMMA CrashKeeps ==
  ASSUME DInv, Crash
  PROVE  DInv'
  <1> USE DEF DInv
  <1>1. \A d \in Downloads :
          /\ stage'[d] = IF Pending(d) THEN "lost" ELSE stage[d]
          /\ fd'[d] = None
    BY DEF Crash
  <1>2. \A d \in Downloads :
          /\ ~Open(d)' /\ ~Pending(d)' /\ (NotStarted(d)' => NotStarted(d))
          /\ Open(d) => stage'[d] = "lost"
          /\ stage[d] = "lost" => stage'[d] = "lost"
    BY <1>1 DEF Pending, Open, NotStarted
  <1>3. stage' \in [Downloads -> Stages]
    BY <1>1 DEF Crash, TypeOK, Stages
  <1>4. TypeOK'
    <2>1. 0 \in 0 .. MaxLength /\ "keepBoth" \in Modes
      BY DownloadAssumption DEF Modes
    <2> QED
      BY <1>1, <1>2, <1>3, <2>1 DEF TypeOK, Crash, Pending, Open
  <1>5. FilesOld' /\ StartsEmpty' /\ Measured'
    BY <1>2 DEF FilesOld, StartsEmpty, Measured, Crash, TypeOK, Files
  <1>6. /\ Apart' /\ FilesInPlace' /\ OwnPath' /\ Copied' /\ FinalIsWhole'
        /\ NothingLeftBehind'
    BY <1>2 DEF Apart, FilesInPlace, OwnPath, Copied, FinalIsWhole, Whole, NothingLeftBehind,
       Crash
  <1> QED
    BY <1>4, <1>5, <1>6

-----------------------------------------------------------------------------
LEMMA CallKeeps ==
  ASSUME DInv, NEW d \in Downloads, Call(d)
  PROVE  DInv'
  <1>1. ASSUME NEW r \in Remotes, NEW n \in Names, NEW m \in Modes, Enqueue(d, r, n, m)
        PROVE  DInv'
    <2>1. PICK v \in Variants : path' = [path EXCEPT ![d] = <<n, v>>]
      <3>1. 0 \in Variants /\ AvailableVariants(n) \subseteq Variants
        BY DownloadAssumption DEF AvailableVariants, Variants
      <3>2. PICK v \in IF m = "overwrite" THEN {0} ELSE AvailableVariants(n) :
              path' = [path EXCEPT ![d] = <<n, v>>]
        BY <1>1 DEF Enqueue
      <3> QED
        BY <3>1, <3>2
    <2>2. /\ path' \in [Downloads -> Paths \cup {NoPath}] /\ path'[d] \in Paths
          /\ \A e \in Downloads \ {d} : path'[e] = path[e]
      BY <2>1 DEF Paths, DInv, TypeOK
    <2>3. /\ remote' \in [Downloads -> Remotes \cup {NoRemote}] /\ remote'[d] \in Remotes
          /\ \A e \in Downloads \ {d} : remote'[e] = remote[e]
          /\ mode' \in [Downloads -> Modes]
      BY <1>1 DEF Enqueue, DInv, TypeOK
    <2>4. /\ there' \in [Downloads -> SUBSET Files]
          /\ shared \subseteq shared' /\ shared' \subseteq Paths
      BY <1>1, <2>2 DEF Enqueue, DInv, TypeOK, Folder
    <2>5. Apart'
      <3>1. \A e \in Downloads \ {d} : Pending(e)' <=> Pending(e)
        BY <1>1 DEF Enqueue, Pending, Open, DInv, TypeOK
      <3>2. \A e \in Downloads \ {d} : Pending(e) /\ path[e] = path'[d] => ~Alone(d)'
        BY <1>1 DEF Enqueue, Wanted, Alone
      <3>3. ASSUME NEW e \in Downloads, NEW g \in Downloads,
                   Pending(e)', Pending(g)', path'[e] = path'[g], Alone(e)'
            PROVE  e = g
        <4>1. CASE e = d /\ g # d
          BY <4>1, <3>1, <3>2, <3>3, <2>2
        <4>2. CASE e # d /\ g = d
          BY <4>2, <3>1, <3>2, <3>3, <2>2 DEF Alone
        <4>3. CASE e # d /\ g # d
          BY <4>3, <3>1, <3>3, <2>2, <2>4 DEF Alone, DInv, Apart
        <4> QED
          BY <4>1, <4>2, <4>3
      <3> QED
        BY <3>3 DEF Apart
    <2> QED
      BY <1>1, <2>2, <2>3, <2>4, <2>5, QueueSteps DEF Enqueue, NotStarted
  <1>2. CASE DropQueued(d)
    <2>1. mode' \in [Downloads -> Modes] /\ there' \in [Downloads -> SUBSET Files]
      BY <1>2 DEF DropQueued, DInv, TypeOK, Modes
    <2>2. Apart'
      BY <1>2 DEF DropQueued, DInv, TypeOK, Apart, Alone, Pending, Open
    <2> QED
      BY <1>2, <2>1, <2>2, QueueSteps DEF DropQueued, NotStarted, DInv, TypeOK
  <1>3. CASE Cancel(d)
    BY <1>3, CancelKeeps
  <1> QED
    BY <1>1, <1>2, <1>3 DEF Call

LEMMA WorkKeeps ==
  ASSUME DInv, NEW d \in Downloads, Work(d)
  PROVE  DInv'
  <1>1. CASE Start(d)
    <2>1. Apart'
      BY <1>1 DEF Start, DInv, TypeOK, Apart, Alone, Pending, Open, history
    <2> QED
      BY <1>1, <2>1, QueueSteps DEF Start, NotStarted, DInv, TypeOK, history
  <1>2. CASE Create(d)
    BY <1>2, CreateKeeps
  <1>3. ASSUME NEW k \in 1 .. ChunkSize, Reply(d, k) PROVE DInv'
    BY <1>3, ReplyKeeps
  <1>4. CASE CopyEnds(d)
    BY <1>4, StageKeeps DEF CopyEnds, Open
  <1>5. ASSUME Fail(d), Open(d) \/ stage[d] = "opening" PROVE DInv'
    BY <1>5, EndKeeps DEF Fail
  <1>6. CASE Verify(d)
    <2>1. CASE LengthRight(d)
      BY <1>6, <2>1, StageKeeps DEF Verify, Open
    <2>2. CASE ~LengthRight(d)
      BY <1>6, <2>2, <1>5 DEF Verify, Open
    <2> QED
      BY <2>1, <2>2
  <1>7. CASE Land(d)
    <2>1. Open(d) /\ remote[d] \in Remotes
      BY <1>7 DEF Land, DInv, Open, TypeOK
    <2>2. ASSUME Alone(d) PROVE Whole(fd[d])
      <3>1. /\ wrote[d] = Length[remote[d]] /\ wrote[d] \in Nat /\ offset[d] \in Nat
            /\ wrote[d] <= offset[d]
        BY <1>7, <2>1, DownloadAssumption DEF Land, Measured, LengthRight, DInv, TypeOK
      <3>2. wrote[d] = Lesser(offset[d], Length[remote[d]])
        BY <3>1 DEF Lesser
      <3>3. \A i \in Positions : ~(i <= wrote[d]) => i > wrote[d]
        BY <3>1 DEF Positions
      <3>4. SoFar(d)
        BY <2>1, <2>2 DEF DInv, Copied
      <3> QED
        BY <2>1, <3>1, <3>2, <3>3, <3>4 DEF SoFar, Whole
    <2> QED
      BY <1>7, <2>1, <2>2, EndKeeps DEF Land
  <1>8. CASE IoError(d)
    BY <1>8, <1>5 DEF IoError
  <1>9. CASE NoticeCancel(d)
    BY <1>9, <1>5 DEF NoticeCancel, Open
  <1> QED
    BY <1>1, <1>2, <1>3, <1>4, <1>6, <1>7, <1>8, <1>9 DEF Work

(* DInv is an invariant.                                                   *)
THEOREM DownloadsInductive == Spec => []DInv
  <1>1. Init => DInv
    BY DInvInit
  <1>2. DInv /\ [Next]_vars => DInv'
    <2> SUFFICES ASSUME DInv, [Next]_vars PROVE DInv'
      OBVIOUS
    <2>1. CASE UNCHANGED vars
      BY <2>1 DEF vars, DInv, TypeOK, Apart, Alone, FilesInPlace, OwnPath, FilesOld,
         StartsEmpty, Measured, Copied, SoFar, FinalIsWhole, Whole, NothingLeftBehind,
         Pending, Open, NotStarted, LengthRight
    <2>2. CASE \E d \in Downloads : Call(d) \/ Work(d)
      BY <2>2, CallKeeps, WorkKeeps
    <2>3. CASE Crash
      BY <2>3, CrashKeeps
    <2> QED
      BY <2>1, <2>2, <2>3 DEF Next
  <1> QED
    BY <1>1, <1>2, PTL DEF Spec

(* Every variable of the downloads keeps its type (enqueue_download,       *)
(* download).                                                              *)
THEOREM DownloadsTyped == Spec => []TypeOK
  BY DownloadsInductive, PTL DEF DInv

(* Whatever the server and the user do, and wherever the process dies, a   *)
(* file with its own name is all of one remote file, unless two downloads  *)
(* were pending for its path at once (copy_to, verify_length, rename).     *)
THEOREM FilesAreWhole == Spec => []FinalIsWhole
  BY DownloadsInductive, PTL DEF DInv

(* A staging file belongs to a download under way or to a crash, whoever   *)
(* shares a path (download).                                               *)
THEOREM FailuresCleanUp == Spec => []NothingLeftBehind
  BY DownloadsInductive, PTL DEF DInv

-----------------------------------------------------------------------------
(* No more downloads than numbers to try.                                  *)
NamesSuffice == MaxDownloads <= MaxVariant + 1

(* What was there when a download that is to keep both was queued is at    *)
(* other paths.                                                            *)
Spared ==
  \A d \in Downloads : Pending(d) /\ mode[d] = "keepBoth" =>
    \A f \in there[d] : ~NotStarted(f) /\ path[f] # path[d]

(* Who holds a path that is not free.                                      *)
Holder(p) == IF final[p] # None THEN final[p] ELSE part[p]

(* With a download still to come, there is a number left for its name.     *)
LEMMA NumberLeft ==
  ASSUME NamesSuffice, DInv, NEW d \in Downloads, stage[d] = "none",
         NEW n \in Names
  PROVE  \E v \in Variants : Free(n, v)
  <1> SUFFICES ASSUME \A v \in Variants : ~Free(n, v) PROVE FALSE
    OBVIOUS
  <1> DEFINE h == [v \in Variants |-> Holder(<<n, v>>)]
             Others == Downloads \ {d}
  <1>1. ASSUME NEW v \in Variants PROVE h[v] \in Others /\ path[h[v]] = <<n, v>>
    <2>1. <<n, v>> \in Paths
      BY DEF Paths
    <2>2. final[<<n, v>>] # None \/ part[<<n, v>>] # None
      BY DEF Free
    <2>3. ASSUME NEW p \in Paths, final[p] # None \/ part[p] # None
          PROVE  Holder(p) \in Downloads /\ path[Holder(p)] = p /\ ~NotStarted(Holder(p))
      <3>1. CASE final[p] # None
        BY <3>1 DEF Holder, FilesInPlace, FilesOld, DInv, TypeOK, Files
      <3>2. CASE final[p] = None
        BY <2>3, <3>2 DEF Holder, FilesInPlace, FilesOld, DInv, TypeOK, Files
      <3> QED
        BY <3>1, <3>2
    <2> QED
      BY <2>1, <2>2, <2>3 DEF NotStarted
  <1>2. h \in [Variants -> Others]
    BY <1>1
  <1>3. \A v, w \in Variants : h[v] = h[w] => v = w
    <2>1. ASSUME NEW v \in Variants, NEW w \in Variants, h[v] = h[w] PROVE v = w
      <3>1. <<n, v>> = <<n, w>>
        BY <1>1, <2>1
      <3> QED
        BY <3>1
    <2> QED
      BY <2>1
  <1>4. IsFiniteSet(Variants) /\ Cardinality(Variants) = MaxVariant + 1
    BY FS_Interval, DownloadAssumption DEF Variants
  <1>5. IsFiniteSet(Downloads) /\ Cardinality(Downloads) = MaxDownloads
    <2>1. MaxDownloads \in Nat /\ ~(1 > MaxDownloads)
      BY DownloadAssumption DEF Downloads
    <2>2. MaxDownloads - 1 + 1 = MaxDownloads
      BY <2>1
    <2> QED
      BY <2>1, <2>2, FS_Interval DEF Downloads
  <1>6. IsFiniteSet(Others) /\ Cardinality(Others) = MaxDownloads - 1
    BY <1>5, FS_RemoveElement
  <1>7. Cardinality(Others) < Cardinality(Variants)
    BY <1>4, <1>6, DownloadAssumption DEF NamesSuffice
  <1> HIDE DEF h, Others
  <1>8. IsFiniteSet(Variants) /\ IsFiniteSet(Others)
    BY <1>4, <1>6
  <1>9. \E v, w \in Variants : v # w /\ h[v] = h[w]
    BY <1>2, <1>7, <1>8, FS_PigeonHole
  <1> QED
    BY <1>3, <1>9

(* Steps that queue nothing.                                               *)
LEMMA NothingQueuedSpares ==
  ASSUME DInv, Spared, UNCHANGED path,
         \A e \in Downloads : /\ Pending(e)' => /\ Pending(e) /\ mode'[e] = mode[e]
                                               /\ there'[e] = there[e]
                              /\ ~NotStarted(e) => ~NotStarted(e)'
  PROVE  Spared'
  <1> SUFFICES ASSUME NEW e \in Downloads, Pending(e)', mode'[e] = "keepBoth",
                      NEW f \in there'[e]
               PROVE  ~NotStarted(f)' /\ path'[f] # path'[e]
    BY DEF Spared
  <1>1. f \in there[e] /\ f \in Downloads /\ Pending(e) /\ mode[e] = "keepBoth"
    BY DEF DInv, TypeOK, Files
  <1>2. ~NotStarted(f) /\ path[f] # path[e]
    BY <1>1 DEF Spared
  <1> QED
    BY <1>1, <1>2

LEMMA EnqueueSpares ==
  ASSUME NamesSuffice, DInv, Spared, NEW d \in Downloads,
         NEW r \in Remotes, NEW n \in Names, NEW m \in Modes, Enqueue(d, r, n, m)
  PROVE  Spared'
  <1>1. stage[d] = "none"
    BY DEF Enqueue
  <1>2. PICK v \in Variants :
          /\ path' = [path EXCEPT ![d] = <<n, v>>]
          /\ m = "keepBoth" => v \in AvailableVariants(n)
    <2>1. 0 \in Variants
      BY DownloadAssumption DEF Variants
    <2> QED
      BY <2>1 DEF Enqueue, Modes, AvailableVariants
  <1>3. m = "keepBoth" => Free(n, v)
    <2>1. \E w \in Variants : Free(n, w)
      BY <1>1, NumberLeft
    <2> QED
      BY <1>2, <2>1 DEF AvailableVariants
  <1>4. /\ path'[d] = <<n, v>> /\ mode'[d] = m /\ there'[d] = Folder
        /\ \A e \in Downloads \ {d} : /\ path'[e] = path[e] /\ mode'[e] = mode[e]
                                     /\ there'[e] = there[e] /\ stage'[e] = stage[e]
    BY <1>2 DEF Enqueue, DInv, TypeOK
  <1>5. \A e \in Downloads \ {d} : Pending(e)' <=> Pending(e)
    BY <1>4 DEF Pending, Open
  <1>6. ASSUME NEW f \in Downloads, ~NotStarted(f)
        PROVE  f # d /\ ~NotStarted(f)' /\ path'[f] = path[f]
    BY <1>1, <1>4, <1>6 DEF NotStarted
  <1>7. ASSUME NEW f \in Folder, Free(n, v)
        PROVE  f \in Downloads /\ ~NotStarted(f) /\ path[f] # <<n, v>>
    <2>1. f \in Downloads /\ f # None
      BY NoFile DEF Folder, Files
    <2>2. PICK p \in Paths : part[p] = f \/ final[p] = f
      BY DEF Folder
    <2>3. path[f] = p /\ ~NotStarted(f)
      BY <2>1, <2>2 DEF DInv, FilesInPlace, FilesOld
    <2>4. p # <<n, v>>
      BY <2>1, <2>2, <1>7 DEF Free
    <2> QED
      BY <2>1, <2>3, <2>4
  <1>8. ASSUME NEW e \in Downloads, Pending(e)', mode'[e] = "keepBoth", NEW f \in there'[e]
        PROVE  ~NotStarted(f)' /\ path'[f] # path'[e]
    <2>1. CASE e = d
      <3>1. Free(n, v) /\ f \in Folder
        BY <1>3, <1>4, <1>8, <2>1
      <3>2. f \in Downloads /\ ~NotStarted(f) /\ path[f] # <<n, v>>
        BY <3>1, <1>7
      <3> QED
        BY <2>1, <3>2, <1>4, <1>6
    <2>2. CASE e # d
      <3>1. f \in Downloads /\ ~NotStarted(f) /\ path[f] # path[e]
        BY <2>2, <1>4, <1>5, <1>8 DEF Spared, DInv, TypeOK, Files
      <3> QED
        BY <2>2, <3>1, <1>4, <1>6
    <2> QED
      BY <2>1, <2>2
  <1> QED
    BY <1>8 DEF Spared

LEMMA StepSpares ==
  ASSUME NamesSuffice, DInv, Spared, [Next]_vars
  PROVE  Spared'
  <1>1. CASE UNCHANGED vars
    BY <1>1, NothingQueuedSpares DEF vars, Pending, Open, NotStarted
  <1>2. CASE Crash
    <2>1. UNCHANGED path
      BY <1>2 DEF Crash
    <2>2. \A d \in Downloads : ~Pending(d)' /\ (~NotStarted(d) => ~NotStarted(d)')
      BY <1>2 DEF Crash, Pending, Open, NotStarted
    <2> QED
      BY <2>1, <2>2, NothingQueuedSpares
  <1>3. ASSUME NEW d \in Downloads, DropQueued(d) \/ Cancel(d) \/ Work(d) PROVE Spared'
    <2>1. UNCHANGED path
      BY <1>3 DEF DropQueued, Cancel, Work, Start, Create, Reply, CopyEnds, Verify, Land,
         IoError, NoticeCancel, Fail, Over
    <2>2. \A e \in Downloads \ {d} : /\ stage'[e] = stage[e] /\ mode'[e] = mode[e]
                                    /\ there'[e] = there[e]
      BY <1>3 DEF DropQueued, Cancel, Work, Start, Create, Reply, CopyEnds, Verify, Land,
         IoError, NoticeCancel, Fail, Over, history, DInv, TypeOK
    <2>3. /\ Pending(d)' => /\ Pending(d) /\ mode'[d] = mode[d] /\ there'[d] = there[d]
          /\ ~NotStarted(d) => ~NotStarted(d)'
      BY <1>3 DEF DropQueued, Cancel, Work, Start, Create, Reply, CopyEnds, Verify, Land,
         IoError, NoticeCancel, Fail, history, Pending, Open, NotStarted, DInv, TypeOK
    <2>4. \A e \in Downloads :
             /\ Pending(e)' => /\ Pending(e) /\ mode'[e] = mode[e] /\ there'[e] = there[e]
             /\ ~NotStarted(e) => ~NotStarted(e)'
      BY <2>2, <2>3 DEF Pending, Open, NotStarted
    <2> QED
      BY <2>1, <2>4, NothingQueuedSpares
  <1>4. ASSUME NEW d \in Downloads, NEW r \in Remotes, NEW n \in Names, NEW m \in Modes,
               Enqueue(d, r, n, m)
        PROVE  Spared'
    BY <1>4, EnqueueSpares
  <1> QED
    BY <1>1, <1>2, <1>3, <1>4 DEF Next, Call

(* A step of a download disturbs files of its own path only.               *)
LEMMA OthersSpared ==
  ASSUME DInv, NEW d \in Downloads, Call(d) \/ Work(d),
         NEW f \in Downloads, path[f] # path[d], ~NotStarted(f)
  PROVE  Spares(f)
  <1> USE DEF DInv
  <1>1. CASE UNCHANGED <<bytes, part, final>>
    BY <1>1 DEF Spares
  <1>2. ASSUME /\ path[d] \in Paths /\ bytes' = bytes
               /\ \A p \in Paths \ {path[d]} : part'[p] = part[p] /\ final'[p] = final[p]
        PROVE  Spares(f)
    <2>1. \A p \in Paths : part[p] = f \/ final[p] = f => p # path[d]
      BY NoFile DEF FilesInPlace, Files
    <2> QED
      BY <1>2, <2>1 DEF Spares
  <1>3. CASE Create(d)
    <2> DEFINE g == IF part[path[d]] = None THEN d ELSE part[path[d]]
    <2>1. path[d] \in Paths /\ stage[d] = "opening"
      BY <1>3 DEF Create, TypeOK
    <2>2. g # f
      BY <2>1 DEF FilesInPlace, NotStarted
    <2>3. bytes'[f] = bytes[f] /\ final' = final
          /\ \A p \in Paths \ {path[d]} : part'[p] = part[p]
      BY <1>3, <2>1, <2>2 DEF Create, TypeOK, Files
    <2>4. \A p \in Paths : part[p] = f => p # path[d]
      BY NoFile DEF FilesInPlace, Files
    <2> QED
      BY <2>3, <2>4 DEF Spares
  <1>4. ASSUME NEW k \in 1 .. ChunkSize, Reply(d, k) PROVE Spares(f)
    <2>1. fd[d] # f
      BY <1>4, FileIsThere DEF Reply, Open
    <2>2. bytes'[f] = bytes[f] /\ UNCHANGED <<part, final>>
      BY <1>4, <2>1 DEF Reply, TypeOK, Files
    <2> QED
      BY <2>2 DEF Spares
  <1>5. ASSUME Fail(d), Open(d) \/ stage[d] = "opening" PROVE Spares(f)
    BY <1>2, <1>5 DEF Fail, Over, Open, TypeOK
  <1>6. CASE Land(d)
    BY <1>2, <1>6 DEF Land, Over, TypeOK
  <1>7. CASE \/ \E r \in Remotes, n \in Names, m \in Modes : Enqueue(d, r, n, m)
             \/ DropQueued(d) \/ Cancel(d) \/ Start(d) \/ CopyEnds(d)
    BY <1>1, <1>7 DEF Enqueue, DropQueued, Cancel, Start, CopyEnds
  <1>8. CASE Verify(d)
    BY <1>1, <1>5, <1>8 DEF Verify, Open
  <1>9. CASE IoError(d) \/ NoticeCancel(d)
    BY <1>5, <1>9 DEF IoError, NoticeCancel, Open
  <1> QED
    BY <1>3, <1>4, <1>6, <1>7, <1>8, <1>9 DEF Call, Work

(* A download that is to keep both destroys nothing that was there when it *)
(* was queued, for any remote files and names and whoever else has its     *)
(* path, as long as there are no more downloads than numbers to try        *)
(* (available_path, rename).                                               *)
THEOREM KeepBothKeepsBoth ==
  ASSUME NamesSuffice PROVE Spec => KeepBothKeeps
  <1>1. Init => Spared
    BY DEF Init, Spared, Pending, Open
  <1>2. DInv /\ Spared /\ [Next]_vars => Spared'
    BY StepSpares
  <1>3. DInv /\ Spared /\ [Next]_vars =>
          [\A d \in Downloads : mode[d] = "keepBoth" /\ Moves(d) =>
             \A f \in there[d] : Spares(f)]_vars
    <2> SUFFICES ASSUME DInv, Spared, Next, NEW d \in Downloads,
                        mode[d] = "keepBoth", Moves(d), NEW f \in there[d]
                 PROVE  Spares(f)
      OBVIOUS
    <2>1. CASE Crash
      BY <2>1 DEF Crash, Spares
    <2>2. ASSUME NEW e \in Downloads, Call(e) \/ Work(e) PROVE Spares(f)
      <3>1. ASSUME NEW g \in Downloads \ {e} PROVE ~Moves(g)
        BY <2>2 DEF Moves, Call, Work, Enqueue, DropQueued, Cancel, Start, Create, Reply,
           CopyEnds, Verify, Land, IoError, NoticeCancel, Fail, Over, DInv, TypeOK
      <3>2. e = d
        BY <3>1
      <3>3. CASE Pending(d)
        <4>1. f \in Downloads /\ ~NotStarted(f) /\ path[f] # path[d]
          BY <3>3 DEF Spared, DInv, TypeOK, Files
        <4> QED
          BY <2>2, <3>2, <4>1, OthersSpared
      <3>4. CASE ~Pending(d)
        BY <2>2, <3>2, <3>4 DEF Spares, Call, Work, Enqueue, DropQueued, Cancel, Start, Create,
           Reply, CopyEnds, Verify, Land, IoError, NoticeCancel, Pending, Open
      <3> QED
        BY <3>3, <3>4
    <2> QED
      BY <2>1, <2>2 DEF Next
  <1> QED
    BY <1>1, <1>2, <1>3, DownloadsInductive, PTL DEF Spec, KeepBothKeeps
-----------------------------------------------------------------------------
(* VpnCache, for any calls, lists and times to live: v1 is its clock, v5   *)
(* its slots, v6 its locks, v7 what loads have read, v8 its calls.  Nobody *)
(* asks in the future; and what a slot or a load may give to a forced call *)
(* that shares no load was read after that call asked (Due).               *)
CallShaped(c) ==
  /\ v8[c] = [fresh |-> v8[c].fresh, asked |-> v8[c].asked, got |-> v8[c].got,
              under |-> v8[c].under, shares |-> v8[c].shares]
  /\ v8[c].got = [k \in Vc!Caches |-> v8[c].got[k]]

CallsFit ==
  /\ v1 \in Nat /\ v8 = [c \in Pair |-> v8[c]]
  /\ \A c \in Pair : CallShaped(c) /\ v8[c].asked \in Nat /\ v8[c].asked <= v1
  /\ Vc!FreshUnlessShared

SlotsFit ==
  /\ v5 = [k \in Vc!Caches |-> v5[k]] /\ v6 = [k \in Vc!Caches |-> v6[k]]
  /\ v7 = [k \in Vc!Caches |-> v7[k]]
  /\ \A k \in Vc!Caches :
       /\ v5[k] # <<>> => v5[k][1].at \in Nat
       /\ v7[k] # <<>> => v6[k] # NoCall

Due ==
  \A c \in Pair, k \in Vc!Caches :
    v8[c].fresh = "forced" /\ k \notin v8[c].shares =>
      /\ v5[k] # <<>> /\ v5[k][1].at >= v8[c].asked => v5[k][1].from >= v8[c].asked
      /\ v7[k] # <<>> => v7[k][1].from >= v8[c].asked

VpnInv == CallsFit /\ SlotsFit /\ Due

LEMMA NobodyAskedFits ==
  ASSUME NEW c \in Pair, v8[c] = Vc!NoOne
  PROVE  /\ CallShaped(c) /\ v8[c].asked = 0 /\ v8[c].fresh = "cached"
BY DEF CallShaped, Vc!NoOne, Vc!Nothing, Vc!Caches

LEMMA InitVpn == ASSUME Vc!Init PROVE VpnInv
<1>1. v8 = [c \in Pair |-> Vc!NoOne] /\ v1 = 0
  BY DEF Vc!Init
<1>2. \A c \in Pair : v8[c] = Vc!NoOne
  BY <1>1
<1>3. v8 = [c \in Pair |-> v8[c]]
  BY <1>1
<1>4. CallsFit
  BY <1>1, <1>2, <1>3, NobodyAskedFits DEF CallsFit, Vc!FreshUnlessShared
<1>5. SlotsFit
  BY DEF Vc!Init, Vc!Nothing, SlotsFit
<1>6. Due
  BY <1>2, NobodyAskedFits DEF Due
<1>7. QED  BY <1>4, <1>5, <1>6 DEF VpnInv

(* What each call asked for, and when.                                     *)
SameAsked(c) ==
  v8'[c].asked = v8[c].asked /\ v8'[c].fresh = v8[c].fresh /\ v8'[c].shares = v8[c].shares

(* A call is given an answer for one cache.                                *)
LEMMA GivenInTime ==
  ASSUME CallsFit, NEW c, NEW k \in Vc!Caches, NEW entry,
         v8' = [v8 EXCEPT ![c].got[k] = entry], v1' = v1,
         c \in Pair /\ v8[c].fresh = "forced" =>
           \/ entry[1].from >= v8[c].asked
           \/ k \in v8[c].shares /\ entry[1].at >= v8[c].asked
  PROVE  CallsFit' /\ \A d \in Pair : SameAsked(d)
<1> DEFINE mine == [v8[c] EXCEPT !.got = [@ EXCEPT ![k] = entry]]
<1>1. ASSUME c \in Pair
      PROVE  /\ mine = [fresh |-> v8[c].fresh, asked |-> v8[c].asked,
                        got |-> [v8[c].got EXCEPT ![k] = entry], under |-> v8[c].under,
                        shares |-> v8[c].shares]
  <2>1. CallShaped(c)
    BY <1>1 DEF CallsFit
  <2>2. PICK f, a, g, u, h :
          v8[c] = [fresh |-> f, asked |-> a, got |-> g, under |-> u, shares |-> h]
    BY <2>1, Zenon DEF CallShaped
  <2>3. QED  BY <2>2
<1>2. v8' = [v8 EXCEPT ![c] = mine]
  OBVIOUS
<1> HIDE DEF mine
<1>3. v8' = [d \in Pair |-> v8'[d]] /\ \A d \in Pair : d # c => v8'[d] = v8[d]
  BY <1>2 DEF CallsFit
<1>4. c \in Pair => v8'[c] = mine
  BY <1>2 DEF CallsFit
<1>5. ASSUME NEW d \in Pair
      PROVE  /\ CallShaped(d)' /\ SameAsked(d)
             /\ \A j \in Vc!Caches : v8'[d].got[j] = v8[d].got[j]
                                     \/ (d = c /\ j = k /\ v8'[d].got[j] = entry)
  <2>1. CASE d = c
    <3>1. v8[c].got = [j \in Vc!Caches |-> v8[c].got[j]]
      BY <2>1 DEF CallsFit, CallShaped
    <3>2. \A j \in Vc!Caches :
            [v8[c].got EXCEPT ![k] = entry][j] = IF j = k THEN entry ELSE v8[c].got[j]
      BY <3>1
    <3>3. [v8[c].got EXCEPT ![k] = entry] = [j \in Vc!Caches |-> [v8[c].got EXCEPT ![k] = entry][j]]
      BY <3>1
    <3>4. v8'[c].got = [v8[c].got EXCEPT ![k] = entry] /\ CallShaped(c)'
      BY <1>1, <1>4, <2>1, <3>3 DEF CallShaped
    <3>5. SameAsked(c)
      BY <1>1, <1>4, <2>1 DEF SameAsked
    <3>6. QED  BY <2>1, <3>2, <3>4, <3>5
  <2>2. CASE d # c
    <3>1. v8'[d] = v8[d]
      BY <1>3, <2>2
    <3>2. QED  BY <3>1 DEF CallsFit, CallShaped, SameAsked
  <2>3. QED  BY <2>1, <2>2
<1>6. Vc!FreshUnlessShared'
  <2> SUFFICES ASSUME NEW d \in Pair, NEW j \in Vc!Caches,
                      v8'[d].got[j] # <<>>, v8'[d].fresh = "forced"
               PROVE  \/ v8'[d].got[j][1].from >= v8'[d].asked
                      \/ j \in v8'[d].shares /\ v8'[d].got[j][1].at >= v8'[d].asked
    BY DEF Vc!FreshUnlessShared
  <2>1. QED  BY <1>5 DEF CallsFit, Vc!FreshUnlessShared, SameAsked
<1>7. QED  BY <1>3, <1>5, <1>6 DEF CallsFit, SameAsked

(* A call starts or ends: it has been given nothing yet.                   *)
LEMMA TurnsInTime ==
  ASSUME CallsFit, NEW c \in Pair, NEW fresh, NEW asked \in Nat, NEW under, asked <= v1,
         NEW shares,
         v8' = [v8 EXCEPT ![c] = [fresh |-> fresh, asked |-> asked, got |-> Vc!Nothing,
                                  under |-> under, shares |-> shares]],
         v1' = v1
  PROVE  /\ CallsFit'
         /\ v8'[c].asked = asked /\ v8'[c].fresh = fresh /\ v8'[c].shares = shares
         /\ \A d \in Pair \ {c} : SameAsked(d)
<1>1. v8' = [d \in Pair |-> v8'[d]] /\ \A d \in Pair : d # c => v8'[d] = v8[d]
  BY DEF CallsFit
<1>2. v8'[c] = [fresh |-> fresh, asked |-> asked, got |-> Vc!Nothing, under |-> under,
                shares |-> shares]
  BY DEF CallsFit
<1>3. /\ CallShaped(c)' /\ v8'[c].asked = asked /\ v8'[c].fresh = fresh
      /\ v8'[c].shares = shares
      /\ \A k \in Vc!Caches : v8'[c].got[k] = <<>>
  BY <1>2 DEF CallShaped, Vc!Nothing
<1>4. \A d \in Pair : CallShaped(d)' /\ v8'[d].asked \in Nat /\ v8'[d].asked <= v1
  BY <1>1, <1>3 DEF CallsFit, CallShaped
<1>5. Vc!FreshUnlessShared'
  BY <1>1, <1>3 DEF CallsFit, Vc!FreshUnlessShared
<1>6. QED  BY <1>1, <1>3, <1>4, <1>5 DEF CallsFit, SameAsked

LEMMA StepKeepsVpn == ASSUME VpnInv, [Vc!Next]_(Vc!vars) PROVE VpnInv'
<1> USE DEF VpnInv
<1>1. CASE Vc!Tick
  <2>1. v1' = v1 + 1 /\ UNCHANGED <<v5, v6, v7, v8>>
    BY <1>1 DEF Vc!Tick
  <2>2. QED  BY <2>1 DEF CallsFit, CallShaped, SlotsFit, Due, Vc!FreshUnlessShared
<1>2. CASE Vc!Restart
  <2>1. /\ v8' = [c \in Pair |-> Vc!NoOne] /\ v1' = v1
        /\ v5' = Vc!Nothing /\ v7' = Vc!Nothing /\ v6' = [k \in Vc!Caches |-> NoCall]
    BY <1>2 DEF Vc!Restart
  <2>2. \A c \in Pair : CallShaped(c)' /\ v8'[c].asked = 0 /\ v8'[c].fresh = "cached"
    BY <2>1 DEF CallShaped, Vc!NoOne, Vc!Nothing
  <2>3. v8' = [c \in Pair |-> v8'[c]]
    BY <2>1
  <2>4. CallsFit'
    BY <2>1, <2>2, <2>3 DEF CallsFit, Vc!FreshUnlessShared
  <2>5. SlotsFit'
    BY <2>1 DEF SlotsFit, Vc!Nothing
  <2>6. QED  BY <2>2, <2>4, <2>5 DEF Due
<1>3. ASSUME NEW c \in Pair, NEW fresh \in {"cached", "forced"}, Vc!Ask(c, fresh) PROVE VpnInv'
  <2> DEFINE shares == {k \in Vc!Caches : fresh = "forced" /\ v6[k] # NoCall}
  <2>1. v1 \in Nat /\ v1 <= v1
    BY DEF CallsFit
  <2>2. /\ v8' = [v8 EXCEPT ![c] = [fresh |-> fresh, asked |-> v1, got |-> Vc!Nothing,
                                    under |-> TRUE, shares |-> shares]]
        /\ v1' = v1 /\ UNCHANGED <<v5, v6, v7>>
        /\ fresh = "forced" => \A k \in Vc!Caches : v5[k] # <<>> => v5[k][1].at < v1
    BY <1>3 DEF Vc!Ask
  <2> HIDE DEF shares
  <2>3. /\ CallsFit'
        /\ v8'[c].asked = v1 /\ v8'[c].fresh = fresh /\ v8'[c].shares = shares
        /\ \A d \in Pair \ {c} : SameAsked(d)
    BY <2>1, <2>2, TurnsInTime
  <2>4. SlotsFit'
    BY <2>2 DEF SlotsFit
  <2>5. ASSUME NEW d \in Pair, NEW k \in Vc!Caches,
               v8'[d].fresh = "forced", k \notin v8'[d].shares
        PROVE  /\ v5[k] # <<>> /\ v5[k][1].at >= v8'[d].asked => v5[k][1].from >= v8'[d].asked
               /\ v7[k] # <<>> => v7[k][1].from >= v8'[d].asked
    <3>1. CASE d = c
      <4>1. v6[k] = NoCall
        BY <2>3, <2>5, <3>1 DEF shares
      <4>2. v7[k] = <<>>
        BY <4>1 DEF SlotsFit
      <4>3. v5[k] # <<>> => v5[k][1].at \in Nat /\ v5[k][1].at < v1
        BY <2>2, <2>3, <2>5, <3>1 DEF SlotsFit
      <4>4. QED  BY <2>1, <2>3, <3>1, <4>2, <4>3
    <3>2. CASE d # c
      BY <2>3, <2>5, <3>2 DEF Due, SameAsked
    <3>3. QED  BY <3>1, <3>2
  <2>6. Due'
    BY <2>2, <2>5 DEF Due
  <2>7. QED  BY <2>3, <2>4, <2>6
<1>4. ASSUME NEW c \in Pair, NEW k \in Vc!Caches, Vc!Hit(c, k) PROVE VpnInv'
  <2>1. /\ v8' = [v8 EXCEPT ![c].got[k] = v5[k]] /\ UNCHANGED <<v1, v5, v6, v7>>
        /\ v5[k] # <<>> /\ Vc!Usable(k, v5[k][1], c)
    BY <1>4 DEF Vc!Hit
  <2>2. v8[c].fresh = "forced" =>
           \/ v5[k][1].from >= v8[c].asked
           \/ k \in v8[c].shares /\ v5[k][1].at >= v8[c].asked
    BY <2>1 DEF Vc!Usable, Due
  <2>3. CallsFit' /\ \A d \in Pair : SameAsked(d)
    BY <2>1, <2>2, GivenInTime
  <2>4. SlotsFit' /\ Due'
    BY <2>1, <2>3 DEF SlotsFit, Due, SameAsked
  <2>5. QED  BY <2>3, <2>4
<1>5. ASSUME NEW k \in Vc!Caches, Vc!Loaded(k) PROVE VpnInv'
  <2> DEFINE entry == [value |-> v7[k][1].value, at |-> v1, from |-> v7[k][1].from]
  <2>1. /\ v8' = [v8 EXCEPT ![v6[k]].got[k] = <<entry>>] /\ v1' = v1 /\ v7[k] # <<>>
        /\ v5' = [v5 EXCEPT ![k] = <<entry>>] /\ v6' = [v6 EXCEPT ![k] = NoCall]
        /\ v7' = [v7 EXCEPT ![k] = <<>>]
    BY <1>5 DEF Vc!Loaded
  <2>2. <<entry>>[1] = entry /\ entry.at = v1 /\ entry.from = v7[k][1].from
    OBVIOUS
  <2>3. v1 \in Nat /\ \A c \in Pair : v8[c].asked \in Nat /\ v8[c].asked <= v1
    BY DEF CallsFit
  <2> HIDE DEF entry
  <2>4. v6[k] \in Pair /\ v8[v6[k]].fresh = "forced" =>
           \/ <<entry>>[1].from >= v8[v6[k]].asked
           \/ k \in v8[v6[k]].shares /\ <<entry>>[1].at >= v8[v6[k]].asked
    BY <2>1, <2>2, <2>3 DEF Due
  <2>5. CallsFit' /\ \A d \in Pair : SameAsked(d)
    BY <2>1, <2>4, GivenInTime
  <2>6. /\ v5'[k] = <<entry>> /\ v7'[k] = <<>>
        /\ \A j \in Vc!Caches \ {k} : v5'[j] = v5[j] /\ v6'[j] = v6[j] /\ v7'[j] = v7[j]
        /\ v5' = [j \in Vc!Caches |-> v5'[j]] /\ v6' = [j \in Vc!Caches |-> v6'[j]]
        /\ v7' = [j \in Vc!Caches |-> v7'[j]]
    BY <2>1 DEF SlotsFit
  <2>7. SlotsFit'
    BY <2>2, <2>3, <2>6 DEF SlotsFit
  <2>8. Due'
    <3> SUFFICES ASSUME NEW c \in Pair, NEW j \in Vc!Caches,
                        v8'[c].fresh = "forced", j \notin v8'[c].shares
                 PROVE  /\ v5'[j] # <<>> /\ v5'[j][1].at >= v8'[c].asked
                             => v5'[j][1].from >= v8'[c].asked
                        /\ v7'[j] # <<>> => v7'[j][1].from >= v8'[c].asked
      BY DEF Due
    <3>1. CASE j = k
      BY <2>1, <2>2, <2>5, <2>6, <3>1 DEF Due, SameAsked
    <3>2. CASE j # k
      BY <2>5, <2>6, <3>2 DEF Due, SameAsked
    <3>3. QED  BY <3>1, <3>2
  <2>9. QED  BY <2>5, <2>7, <2>8
<1>6. ASSUME NEW c \in Pair, Vc!Resolve(c) PROVE VpnInv'
  <2>1. /\ v8' = [v8 EXCEPT ![c] = Vc!NoOne] /\ v1' = v1 /\ v1 \in Nat /\ 0 <= v1
        /\ UNCHANGED <<v5, v6, v7>>
    BY <1>6 DEF Vc!Resolve, CallsFit
  <2>2. /\ CallsFit' /\ v8'[c].fresh = "cached"
        /\ \A d \in Pair \ {c} : SameAsked(d)
    BY <2>1, TurnsInTime DEF Vc!NoOne
  <2>3. SlotsFit' /\ Due'
    BY <2>1, <2>2 DEF SlotsFit, Due, SameAsked
  <2>4. QED  BY <2>2, <2>3
<1>7. ASSUME NEW k \in Vc!Caches, NEW c \in Pair, Vc!Load(c, k) PROVE VpnInv'
  <2>1. v6' = [v6 EXCEPT ![k] = c] /\ UNCHANGED <<v1, v5, v7, v8>> /\ v6[k] = NoCall
    BY <1>7 DEF Vc!Load, Vc!Waits
  <2>2. v7[k] = <<>>
    BY <2>1 DEF SlotsFit
  <2>3. QED
    BY <2>1, <2>2 DEF CallsFit, CallShaped, SlotsFit, Due, Vc!FreshUnlessShared
<1>8. ASSUME NEW k \in Vc!Caches, Vc!ClientAnswers(k) PROVE VpnInv'
  <2>1. PICK said : v7' = [v7 EXCEPT ![k] = <<[value |-> said, from |-> v1]>>]
    BY <1>8 DEF Vc!ClientAnswers
  <2>2. UNCHANGED <<v1, v5, v6, v8>> /\ v6[k] # NoCall
    BY <1>8 DEF Vc!ClientAnswers
  <2>3. /\ v7'[k][1].from = v1 /\ v7' = [j \in Vc!Caches |-> v7'[j]]
        /\ \A j \in Vc!Caches \ {k} : v7'[j] = v7[j]
    BY <2>1 DEF SlotsFit
  <2>4. \A c \in Pair : v1 >= v8[c].asked
    BY DEF CallsFit
  <2>5. Due'
    BY <2>2, <2>3, <2>4 DEF Due
  <2>6. QED
    BY <2>2, <2>3, <2>5 DEF CallsFit, CallShaped, SlotsFit, Vc!FreshUnlessShared
<1>9. CASE UNCHANGED <<v1, v5, v6, v7, v8>>
  BY <1>9 DEF CallsFit, CallShaped, SlotsFit, Due, Vc!FreshUnlessShared
<1>10. QED
  BY <1>1, <1>2, <1>3, <1>4, <1>5, <1>6, <1>7, <1>8, <1>9
     DEF Vc!Next, Vc!vars, Vc!Turn

-----------------------------------------------------------------------------
(* RemoteFiles, for any uploads, browser calls, names and chunks: v1 is    *)
(* what is at its paths, v2 its uploads, v4 the local file, v5 its calls.  *)
(* Until it has created its file nothing on the host is of an upload; from *)
(* then on what is of it and unmixed, wherever it was moved, has what the  *)
(* upload has read.                                                        *)
Things ==
  [kind : {"none", "file", "dir", "link", "other"}, of : Pair \cup {"host"}, parts : Nat,
   open : SUBSET Pair, mixed : BOOLEAN]
UploadRows ==
  [step : {"none", "queued", "opening", "copying", "done", "failed"}, path : Rf!Paths,
   mode : {"keepBoth", "overwrite"}, read : Nat, total : Nat]

BrowserCalls ==
  [step : {"none", "looking", "asking", "acting"},
   op : {"none", "list", "delete", "rename", "copy"}, from : Rf!Paths, to : Rf!Paths]

RemoteTyped ==
  /\ v1 \in [Rf!Paths -> Things] /\ v2 \in [Pair -> UploadRows] /\ v4 \in Nat
  /\ v5 \in [Browsers -> BrowserCalls]

Unmixed(u, p) == v1[p].of = u /\ ~v1[p].mixed

Brings(u) ==
  /\ v2[u].step \in {"none", "queued", "opening"} =>
       v2[u].read = 0 /\ \A p \in Rf!Paths : v1[p].of # u
  /\ v2[u].step \in {"copying", "done"} =>
       \A p \in Rf!Paths : Unmixed(u, p) => v1[p].parts = v2[u].read
  /\ v2[u].step = "copying" => \A p \in Rf!Paths : v1[p].of = u => u \in v1[p].open
  /\ v2[u].step = "done" => v2[u].read = v2[u].total

RemoteInv == RemoteTyped /\ \A u \in Pair : Brings(u)

LEMMA ThingsTyped ==
  ASSUME NEW kind \in {"none", "file", "dir", "link", "other"}, NEW of \in Pair \cup {"host"}
  PROVE  /\ Rf!Thing(kind, of) \in Things
         /\ Rf!Thing(kind, of).of = of /\ Rf!Thing(kind, of).parts = 0
BY DEF Rf!Thing, Things

LEMMA InitRemote == ASSUME Rf!Init PROVE RemoteInv
<1>1. 0 \in Rf!Paths
  BY PartsAssumption DEF Rf!Paths
<1>2. \A p \in Rf!Paths : v1[p] \in Things /\ v1[p].of = "host"
  BY ThingsTyped DEF Rf!Init, Rf!Nothing, Rf!Own
<1>3. v1 \in [Rf!Paths -> Things]
  BY <1>2 DEF Rf!Init
<1>4. v2 \in [Pair -> UploadRows] /\ v4 \in Nat
  BY <1>1, PartsAssumption DEF Rf!Init, Rf!NoUpload, UploadRows
<1>5. \A u \in Pair : v2[u].step = "none" /\ v2[u].read = 0
  BY DEF Rf!Init, Rf!NoUpload
<1>6. v5 \in [Browsers -> BrowserCalls]
  BY <1>1 DEF Rf!Init, Rf!NotCalled, BrowserCalls
<1>7. \A u \in Pair : Brings(u)
  BY <1>2, <1>5, PartsAssumption DEF Brings
<1>8. QED  BY <1>3, <1>4, <1>6, <1>7 DEF RemoteInv, RemoteTyped

(* A row changes and no file does: it goes on where it was, or gives up,   *)
(* or is done with what it was to send.                                    *)
LEMMA RowKeepsRemote ==
  ASSUME RemoteInv, NEW u \in Pair, NEW row \in UploadRows,
         v2' = [v2 EXCEPT ![u] = row], v1' = v1, v4' \in Nat, v5' = v5, row.read = v2[u].read,
         \/ row.step = "failed"
         \/ row.step \in {"queued", "opening"} /\ v2[u].step \in {"none", "queued", "opening"}
         \/ row.step = "done" /\ v2[u].step = "copying" /\ row.read = row.total
         \/ row.step = v2[u].step /\ row.total = v2[u].total
  PROVE  RemoteInv'
<1>1. v2' \in [Pair -> UploadRows] /\ v2'[u] = row /\ \A w \in Pair : w # u => v2'[w] = v2[w]
  BY DEF RemoteInv, RemoteTyped
<1>2. RemoteTyped'
  BY <1>1 DEF RemoteInv, RemoteTyped
<1>3. Brings(u)'
  BY <1>1 DEF RemoteInv, Brings, Unmixed
<1>4. ASSUME NEW w \in Pair, w # u PROVE Brings(w)'
  BY <1>1, <1>4 DEF RemoteInv, Brings, Unmixed
<1>5. QED  BY <1>2, <1>3, <1>4 DEF RemoteInv

LEMMA CreateKeepsRemote == ASSUME RemoteInv, NEW u \in Pair, Rf!Create(u) PROVE RemoteInv'
<1> DEFINE p == v2[u].path
           new == [Rf!Thing("file", u) EXCEPT !.open = v1[p].open \cup {u}]
           row(step) == [v2[u] EXCEPT !.step = step]
<1>1. p \in Rf!Paths /\ v1[p] \in Things /\ v2[u] \in UploadRows /\ v2[u].step = "opening"
  BY DEF RemoteInv, RemoteTyped, UploadRows, Rf!Create
<1>2. \A step \in {"failed", "copying"} :
        /\ row(step) \in UploadRows /\ row(step).step = step
        /\ row(step).read = v2[u].read /\ row(step).total = v2[u].total
  BY <1>1 DEF UploadRows
<1>3. CASE v1[p].kind = "dir"
  <2>1. v2' = [v2 EXCEPT ![u] = row("failed")] /\ v1' = v1 /\ v4' = v4 /\ v5' = v5
    BY <1>3 DEF Rf!Create, Rf!Step
  <2> HIDE DEF row
  <2>2. QED  BY <1>2, <2>1, RowKeepsRemote DEF RemoteInv, RemoteTyped
<1>4. CASE v1[p].kind # "dir"
  <2>1. /\ v2' = [v2 EXCEPT ![u] = row("copying")] /\ v1' = [v1 EXCEPT ![p] = new]
        /\ v4' = v4 /\ v5' = v5
    BY <1>4 DEF Rf!Create, Rf!Step
  <2>2. new \in Things /\ new.of = u /\ new.parts = 0 /\ u \in new.open
    BY <1>1 DEF Rf!Thing, Things
  <2> HIDE DEF new, row, p
  <2>3. /\ v2' \in [Pair -> UploadRows] /\ v2'[u] = row("copying")
        /\ \A w \in Pair : w # u => v2'[w] = v2[w]
        /\ v1' \in [Rf!Paths -> Things] /\ v1'[p] = new
        /\ \A q \in Rf!Paths : q # p => v1'[q] = v1[q]
    BY <1>1, <1>2, <2>1, <2>2 DEF RemoteInv, RemoteTyped
  <2>4. RemoteTyped'
    BY <2>1, <2>3 DEF RemoteInv, RemoteTyped
  <2>5. Brings(u)'
    <3>1. v2[u].read = 0 /\ \A q \in Rf!Paths : v1[q].of # u
      BY <1>1 DEF RemoteInv, Brings
    <3>2. v2'[u].step = "copying" /\ v2'[u].read = 0
      BY <1>2, <2>3, <3>1
    <3>3. \A q \in Rf!Paths : v1'[q].of = u => v1'[q] = new
      BY <2>3, <3>1
    <3>4. QED  BY <2>2, <3>2, <3>3 DEF Brings, Unmixed
  <2>6. ASSUME NEW w \in Pair, w # u PROVE Brings(w)'
    <3>1. v2'[w] = v2[w] /\ \A q \in Rf!Paths : v1'[q].of = w => v1'[q] = v1[q]
      BY <2>2, <2>3, <2>6
    <3>2. QED  BY <3>1 DEF RemoteInv, Brings, Unmixed
  <2>7. QED  BY <2>4, <2>5, <2>6 DEF RemoteInv
<1>5. QED  BY <1>3, <1>4

LEMMA CopyKeepsRemote == ASSUME RemoteInv, NEW u \in Pair, Rf!Copy(u) PROVE RemoteInv'
<1> DEFINE row == [v2[u] EXCEPT !.read = @ + 1]
<1>1. v2[u] \in UploadRows /\ v2[u].step = "copying"
  BY DEF RemoteInv, RemoteTyped, Rf!Copy
<1>2. row \in UploadRows /\ row.read = v2[u].read + 1 /\ row.step = "copying"
  BY <1>1 DEF UploadRows
<1>3. v2' = [v2 EXCEPT ![u] = row] /\ v4' = v4 /\ v5' = v5
  BY DEF Rf!Copy
<1> HIDE DEF row
<1>4. /\ v2' \in [Pair -> UploadRows] /\ v2'[u] = row
      /\ \A w \in Pair : w # u => v2'[w] = v2[w]
  BY <1>2, <1>3 DEF RemoteInv, RemoteTyped
<1>5. ASSUME NEW q \in Rf!Paths
      PROVE  /\ v1'[q] \in Things /\ v1'[q].of = v1[q].of /\ v1'[q].open = v1[q].open
             /\ v1'[q] = v1[q] \/ v1'[q].mixed \/ v1[q].of = u
             /\ v1'[q].mixed \/ v1'[q].mixed = v1[q].mixed
             /\ v1[q].of = u /\ u \in v1[q].open => v1'[q].parts = row.read
  <2>1. v1[q] \in Things /\ v2[u].read + 1 \in Nat
    BY <1>1 DEF RemoteInv, RemoteTyped, UploadRows
  <2>2. v1'[q] = IF u \notin v1[q].open THEN v1[q]
                 ELSE IF v1[q].of = u THEN [v1[q] EXCEPT !.parts = v2[u].read + 1]
                 ELSE [v1[q] EXCEPT !.mixed = TRUE]
    BY DEF Rf!Copy
  <2>3. QED  BY <1>2, <2>1, <2>2 DEF Things
<1>6. RemoteTyped'
  <2>1. v1' = [q \in Rf!Paths |-> v1'[q]]
    BY DEF Rf!Copy
  <2>2. v1' \in [Rf!Paths -> Things]
    BY <1>5, <2>1
  <2>3. QED  BY <1>3, <1>4, <2>2 DEF RemoteInv, RemoteTyped
<1>7. Brings(u)'
  <2>1. \A q \in Rf!Paths : v1[q].of = u => u \in v1[q].open
    BY <1>1 DEF RemoteInv, Brings
  <2>2. QED  BY <1>2, <1>4, <1>5, <2>1 DEF Brings, Unmixed
<1>8. ASSUME NEW w \in Pair, w # u PROVE Brings(w)'
  <2>1. v2'[w] = v2[w]
    BY <1>4, <1>8
  <2>2. \A q \in Rf!Paths : Unmixed(w, q)' => Unmixed(w, q) /\ v1'[q].parts = v1[q].parts
    BY <1>5, <1>8 DEF Unmixed
  <2>3. QED  BY <1>5, <2>1, <2>2 DEF RemoteInv, Brings
<1>9. QED  BY <1>6, <1>7, <1>8 DEF RemoteInv

(* The host's own people, and the browser: what is there moves, or what    *)
(* comes in its place is nobody's.                                         *)
LEMMA MovesKeepRemote ==
  ASSUME RemoteInv, v2' = v2, v4' = v4, v1' \in [Rf!Paths -> Things],
         v5' \in [Browsers -> BrowserCalls],
         \A p \in Rf!Paths : v1'[p].of = "host" \/ \E q \in Rf!Paths : v1'[p] = v1[q]
  PROVE  RemoteInv'
<1>1. ASSUME NEW u \in Pair PROVE Brings(u)'
  <2>1. \A p \in Rf!Paths : v1'[p].of = u => \E q \in Rf!Paths : v1'[p] = v1[q]
    BY PartsAssumption
  <2>2. QED  BY <2>1 DEF RemoteInv, Brings, Unmixed
<1>2. QED  BY <1>1 DEF RemoteInv, RemoteTyped

LEMMA ActKeepsRemote == ASSUME RemoteInv, NEW c \in Browsers, Rf!Act(c) PROVE RemoteInv'
<1> DEFINE from == v5[c].from
           to == v5[c].to
<1>1. from \in Rf!Paths /\ to \in Rf!Paths
  BY DEF RemoteInv, RemoteTyped, BrowserCalls
<1>2. /\ Rf!Nothing \in Things /\ Rf!Nothing.of = "host"
      /\ v1[from] \in Things /\ v1[to] \in Things
  BY <1>1, ThingsTyped DEF RemoteInv, RemoteTyped, Rf!Nothing
<1>3. Rf!Own(v1[from].kind) \in Things /\ Rf!Own(v1[from].kind).of = "host"
  BY <1>2, ThingsTyped DEF Rf!Own, Things
<1>4. \/ v1' = v1 \/ v1' = [v1 EXCEPT ![from] = Rf!Nothing]
      \/ v1' = [v1 EXCEPT ![to] = v1[from], ![from] = Rf!Nothing]
      \/ v1' = [v1 EXCEPT ![to] = Rf!Own(v1[from].kind)]
  BY DEF Rf!Act
<1>5. v5' \in [Browsers -> BrowserCalls]
  BY <1>1, PartsAssumption
     DEF Rf!Act, Rf!Drop, Rf!NotCalled, RemoteInv, RemoteTyped, BrowserCalls, Rf!Paths
<1> HIDE DEF from, to
<1>6. /\ v1' \in [Rf!Paths -> Things]
      /\ \A p \in Rf!Paths : v1'[p].of = "host" \/ \E q \in Rf!Paths : v1'[p] = v1[q]
  BY <1>1, <1>2, <1>3, <1>4 DEF RemoteInv, RemoteTyped
<1>7. v2' = v2 /\ v4' = v4
  BY DEF Rf!Act, Rf!KeepRest
<1>8. QED  BY <1>5, <1>6, <1>7, MovesKeepRemote DEF RemoteInv, RemoteTyped

LEMMA StepKeepsRemote == ASSUME RemoteInv, [Rf!Next]_(Rf!vars) PROVE RemoteInv'
<1>1. ASSUME NEW u \in Pair,
             \/ \E m \in {"keepBoth", "overwrite"} : Rf!Enqueue(u, m)
             \/ Rf!Look(u) \/ Rf!Cancelled(u) \/ Rf!Finish(u) \/ Rf!Breaks(u) \/ Rf!Cancel(u)
      PROVE  RemoteInv'
  <2>1. v2[u] \in UploadRows /\ v4 \in Nat /\ v1' = v1 /\ v4' = v4 /\ v5' = v5
    BY <1>1 DEF RemoteInv, RemoteTyped, Rf!Enqueue, Rf!Look, Rf!Cancelled, Rf!Finish, Rf!Breaks,
                Rf!Cancel, Rf!KeepFiles
  <2>2. PICK row \in UploadRows :
          /\ v2' = [v2 EXCEPT ![u] = row] /\ row.read = v2[u].read
          /\ \/ row.step = "failed"
             \/ /\ row.step \in {"queued", "opening"}
                /\ v2[u].step \in {"none", "queued", "opening"}
             \/ row.step = "done" /\ v2[u].step = "copying" /\ row.read = row.total
             \/ row.step = v2[u].step /\ row.total = v2[u].total
    <3> DEFINE to(step) == [v2[u] EXCEPT !.step = step]
               opened == [v2[u] EXCEPT !.step = "opening", !.total = v4]
    <3>1. /\ \A step \in {"failed", "done"} :
               /\ to(step) \in UploadRows /\ to(step).step = step
               /\ to(step).read = v2[u].read /\ to(step).total = v2[u].total
          /\ opened \in UploadRows /\ opened.step = "opening" /\ opened.read = v2[u].read
      BY <2>1 DEF UploadRows
    <3>2. CASE \E m \in {"keepBoth", "overwrite"} : Rf!Enqueue(u, m)
      <4>1. PICK m \in {"keepBoth", "overwrite"} : Rf!Enqueue(u, m)
        BY <3>2
      <4>2. PICK place \in Rf!Paths :
              v2' = [v2 EXCEPT ![u] = [@ EXCEPT !.step = "queued", !.mode = m, !.path = place]]
        <5>1. CASE m = "overwrite"
          <6>1. v2[u].path \in Rf!Paths
                /\ [v2[u] EXCEPT !.step = "queued", !.mode = m]
                   = [v2[u] EXCEPT !.step = "queued", !.mode = m, !.path = v2[u].path]
            BY <2>1 DEF UploadRows
          <6>2. v2' = [v2 EXCEPT ![u] = [v2[u] EXCEPT !.step = "queued", !.mode = m]]
            BY <4>1, <5>1 DEF Rf!Enqueue
          <6>3. QED  BY <6>1, <6>2
        <5>2. CASE m = "keepBoth"
          <6> DEFINE first == CHOOSE p \in Rf!Free : \A q \in Rf!Free : p <= q
          <6>1. Rf!Free # {} /\ Rf!Free \subseteq Rf!Paths /\ Rf!Paths \subseteq Nat
            BY <4>1, <5>2, PartsAssumption DEF Rf!Enqueue, Rf!Free, Rf!Paths
          <6>2. \E p \in Rf!Free : \A q \in Rf!Free : p <= q
            BY <6>1, Least
          <6>3. first \in Rf!Paths
            BY <6>1, <6>2
          <6>4. v2' = [v2 EXCEPT ![u] = [v2[u] EXCEPT !.step = "queued", !.mode = m,
                                                      !.path = first]]
            BY <4>1, <5>2 DEF Rf!Enqueue
          <6>5. QED  BY <6>3, <6>4
        <5>3. QED  BY <5>1, <5>2
      <4> DEFINE row == [v2[u] EXCEPT !.step = "queued", !.mode = m, !.path = place]
      <4>3. row \in UploadRows /\ row.step = "queued" /\ row.read = v2[u].read
        BY <2>1 DEF UploadRows
      <4>4. v2' = [v2 EXCEPT ![u] = row] /\ v2[u].step = "none"
        BY <4>1, <4>2 DEF Rf!Enqueue
      <4> HIDE DEF row
      <4>5. QED  BY <4>3, <4>4
    <3>3. CASE Rf!Look(u)
      <4>1. /\ v2[u].step = "queued"
            /\ v2' = [v2 EXCEPT ![u] = to("failed")] \/ v2' = [v2 EXCEPT ![u] = opened]
        BY <3>3 DEF Rf!Look, Rf!Step
      <4> HIDE DEF to, opened
      <4>2. QED  BY <3>1, <4>1
    <3>4. CASE Rf!Cancelled(u) \/ Rf!Breaks(u)
      <4>1. v2' = [v2 EXCEPT ![u] = to("failed")]
        BY <3>4 DEF Rf!Cancelled, Rf!Breaks, Rf!Step
      <4> HIDE DEF to
      <4>2. QED  BY <3>1, <4>1
    <3>5. CASE Rf!Finish(u)
      <4>1. /\ v2' = [v2 EXCEPT ![u] = to(Rf!Ends(u))] /\ v2[u].step = "copying"
            /\ Rf!Ends(u) \in {"done", "failed"}
            /\ Rf!Ends(u) = "done" => v2[u].read = v2[u].total
        BY <3>5 DEF Rf!Finish, Rf!Step, Rf!Ends
      <4> HIDE DEF to
      <4>2. QED  BY <3>1, <4>1
    <3>6. CASE Rf!Cancel(u)
      <4>1. CASE v2[u].step = "queued"
        <5>1. v2' = [v2 EXCEPT ![u] = to("failed")]
          BY <3>6, <4>1 DEF Rf!Cancel, Rf!Step
        <5> HIDE DEF to
        <5>2. QED  BY <3>1, <5>1
      <4>2. CASE v2[u].step # "queued"
        <5>1. v2' = [v2 EXCEPT ![u] = v2[u]]
          BY <3>6, <4>2 DEF Rf!Cancel, RemoteInv, RemoteTyped
        <5>2. QED  BY <2>1, <5>1
      <4>3. QED  BY <4>1, <4>2
    <3>7. QED  BY <1>1, <3>2, <3>3, <3>4, <3>5, <3>6
  <2>3. QED  BY <2>1, <2>2, RowKeepsRemote
<1>2. ASSUME NEW u \in Pair, Rf!Create(u) \/ Rf!Copy(u) PROVE RemoteInv'
  BY <1>2, CreateKeepsRemote, CopyKeepsRemote
<1>3. ASSUME NEW c \in Browsers,
             \/ \E op \in {"list", "delete", "rename", "copy"}, from, to \in Rf!Paths :
                  Rf!Begin(c, op, from, to)
             \/ Rf!CallFails(c) \/ Rf!List(c) \/ Rf!LookAt(c) \/ Rf!AskExists(c)
      PROVE  RemoteInv'
  <2>1. v1' = v1 /\ v2' = v2 /\ v4' = v4
    BY <1>3 DEF Rf!Begin, Rf!CallFails, Rf!List, Rf!LookAt, Rf!AskExists, Rf!KeepRest
  <2>2. v5[c] \in BrowserCalls /\ Rf!NotCalled \in BrowserCalls
    BY PartsAssumption DEF RemoteInv, RemoteTyped, BrowserCalls, Rf!NotCalled, Rf!Paths
  <2>3. \E row \in BrowserCalls : v5' = [v5 EXCEPT ![c] = row]
    <3>1. CASE \E op \in {"list", "delete", "rename", "copy"}, from, to \in Rf!Paths :
                 Rf!Begin(c, op, from, to)
      BY <3>1 DEF Rf!Begin, BrowserCalls
    <3>2. CASE Rf!CallFails(c) \/ Rf!List(c)
      BY <2>2, <3>2 DEF Rf!CallFails, Rf!List, Rf!Drop
    <3>3. CASE Rf!LookAt(c) \/ Rf!AskExists(c)
      <4>1. \/ v5' = [v5 EXCEPT ![c] = Rf!NotCalled]
            \/ \E step \in {"asking", "acting"} : v5' = [v5 EXCEPT ![c].step = step]
        BY <3>3 DEF Rf!LookAt, Rf!AskExists, Rf!Drop
      <4>2. \A step \in {"asking", "acting"} : [v5[c] EXCEPT !.step = step] \in BrowserCalls
        BY <2>2 DEF BrowserCalls
      <4>3. QED  BY <2>2, <4>1, <4>2
    <3>4. QED  BY <1>3, <3>1, <3>2, <3>3
  <2>4. v5' \in [Browsers -> BrowserCalls]
    BY <2>3 DEF RemoteInv, RemoteTyped
  <2>5. QED  BY <2>1, <2>4, MovesKeepRemote DEF RemoteInv, RemoteTyped
<1>4. ASSUME NEW c \in Browsers, Rf!Act(c) PROVE RemoteInv'
  BY <1>4, ActKeepsRemote
<1>5. ASSUME NEW p \in Rf!Paths,
             NEW thing \in {Rf!Nothing, Rf!Own("file"), Rf!Own("link"), Rf!Own("dir")},
             Rf!HostTurns(p, thing)
      PROVE  RemoteInv'
  <2>1. thing \in Things /\ thing.of = "host"
    BY ThingsTyped DEF Rf!Nothing, Rf!Own
  <2>2. v1' = [v1 EXCEPT ![p] = thing] /\ UNCHANGED <<v2, v4, v5>>
    BY <1>5 DEF Rf!HostTurns
  <2>3. /\ v1' \in [Rf!Paths -> Things]
        /\ \A q \in Rf!Paths : v1'[q].of = "host" \/ v1'[q] = v1[q]
    BY <2>1, <2>2 DEF RemoteInv, RemoteTyped
  <2>4. QED  BY <2>2, <2>3, MovesKeepRemote DEF RemoteInv, RemoteTyped
<1>6. ASSUME NEW n \in {Chunks - 1, Chunks + 1}, Rf!SourceTurns(n) PROVE RemoteInv'
  <2>1. n \in Nat /\ v4' = n /\ UNCHANGED <<v1, v2, v5>>
    BY <1>6, PartsAssumption DEF Rf!SourceTurns
  <2>2. QED  BY <2>1 DEF RemoteInv, RemoteTyped, Brings, Unmixed
<1>7. CASE UNCHANGED <<v1, v2, v4, v5>>
  BY <1>7 DEF RemoteInv, RemoteTyped, Brings, Unmixed
<1>8. QED
  BY <1>1, <1>2, <1>3, <1>4, <1>5, <1>6, <1>7
     DEF Rf!Next, Rf!vars, Rf!ChannelDies, Rf!KeepRest

-----------------------------------------------------------------------------
(* VpnClients: the glyph and the advice look at the same clients, and      *)
(* whoever may be to blame for an address of the shared range may own it.  *)
LEMMA CountedAlike == \A S : Vp!Cardinality(S) = Cardinality(S)
BY DEF Vp!Cardinality, Cardinality

LEMMA OneOwner ==
  ASSUME NEW statuses, Vp!Cardinality(Vp!Owners(statuses)) = 1
  PROVE  \E k \in Vp!Kinds : Vp!Owners(statuses) = {k}
<1>1. IsFiniteSet(Vp!Kinds)
  <2>1. /\ IsFiniteSet({}) /\ Vp!Kinds = ((((({} \cup {"tailscale"}) \cup {"twingate"})
                                  \cup {"netbird"}) \cup {"zerotier"}) \cup {"wireguard"})
    BY FS_EmptySet DEF Vp!Kinds
  <2>2. QED  BY <2>1, FS_AddElement
<1>2. IsFiniteSet(Vp!Owners(statuses)) /\ Vp!Owners(statuses) \subseteq Vp!Kinds
  BY <1>1, FS_Subset DEF Vp!Owners
<1>3. \E k : Vp!Owners(statuses) = {k}
  BY <1>2, CountedAlike, FS_Singleton
<1>4. QED  BY <1>2, <1>3

LEMMA BlameIsOwned ==
  ASSUME NEW host, NEW resources, NEW statuses
  PROVE  LET bound == Vp!Bind(host, resources, statuses)
             told == Vp!Explain(host, resources, statuses)
         IN  /\ told.says = "not connected" => \A k \in told.of : ~statuses[k].up
             /\ bound \in Vp!Kinds => told.of \subseteq {bound}
             /\ bound = "several" => told.of \subseteq Vp!Owners(statuses)
             /\ bound = "none" => told = Vp!Quiet
<1> DEFINE mine == Vp!Mine(host, resources)
           bound == Vp!Bind(host, resources, statuses)
           told == Vp!Explain(host, resources, statuses)
           owners == Vp!Owners(statuses)
           hint == Vp!AddressHint(host)
<1>1. \A k \in {"several", "none"} : k \notin Vp!Kinds
  BY DEF Vp!Kinds
<1>2. "twingate" \in Vp!Kinds /\ "tailscale" \in Vp!Kinds
  BY DEF Vp!Kinds
<1>3. CASE mine # <<>>
  <2>1. bound = "twingate"
    BY <1>3 DEF Vp!Bind
  <2>2. told.of = {"twingate"} /\ (told.says = "not connected" => ~statuses["twingate"].up)
    BY <1>3 DEF Vp!Explain
  <2>3. QED  BY <2>1, <2>2
<1>4. CASE mine = <<>> /\ hint = "tailscale"
  <2>1. bound = "tailscale"
    BY <1>4 DEF Vp!Bind
  <2>2. told.of = {"tailscale"} /\ (told.says = "not connected" => ~statuses["tailscale"].up)
    BY <1>4 DEF Vp!Explain, Vp!Advice
  <2>3. QED  BY <2>1, <2>2
<1>5. CASE mine = <<>> /\ hint = "cgnat"
  <2>1. /\ Vp!ToBlame(statuses) \subseteq owners
        /\ \A k \in Vp!ToBlame(statuses) : ~statuses[k].up
    BY DEF Vp!ToBlame, Vp!Owners
  <2>2. /\ Vp!ToBlame(statuses) = {} => told = Vp!Quiet
        /\ told.of = Vp!ToBlame(statuses)
    BY <1>5 DEF Vp!Explain, Vp!Advice, Vp!Quiet
  <2>3. CASE owners = {}
    <3>1. bound = "none"
      BY <1>5, <2>3 DEF Vp!Bind
    <3>2. QED  BY <1>1, <2>1, <2>2, <2>3, <3>1
  <2>4. CASE owners # {} /\ Vp!Cardinality(owners) = 1
    <3>1. PICK k \in Vp!Kinds : owners = {k}
      BY <2>4, OneOwner
    <3>2. bound = CHOOSE j \in owners : TRUE
      BY <1>5, <2>4 DEF Vp!Bind
    <3>3. bound = k
      BY <3>1, <3>2
    <3>4. QED  BY <1>1, <2>1, <2>2, <3>1, <3>3
  <2>5. CASE owners # {} /\ Vp!Cardinality(owners) # 1
    <3>1. bound = "several"
      BY <1>5, <2>5 DEF Vp!Bind
    <3>2. QED  BY <1>1, <2>1, <2>2, <3>1
  <2>6. QED  BY <2>3, <2>4, <2>5
<1>6. CASE mine = <<>> /\ hint \notin {"tailscale", "cgnat"}
  <2>1. bound = "none"
    BY <1>6 DEF Vp!Bind
  <2>2. told = Vp!Quiet /\ told.of = {} /\ told.says = "nothing"
    BY <1>6 DEF Vp!Explain, Vp!Advice, Vp!Quiet
  <2>3. QED  BY <1>1, <2>1, <2>2
<1>7. QED  BY <1>3, <1>4, <1>5, <1>6

-----------------------------------------------------------------------------
(* Danger.  A command that stands in a text from place d on, where a       *)
(* command may begin, with a ";" after it or not.                          *)
Within(t, text, d) ==
  /\ Len(t) + d <= Len(text)
  /\ \A i \in 1 .. Len(t) : text[i + d].w = t[i].w
  /\ \A i \in 1 .. Len(t) - 1 : text[i + d].glued = t[i].glued
  /\ d = 0 \/ text[d].glued \/ text[d].w \in Da!Separators

LEMMA WordsWithin ==
  ASSUME NEW t \in Seq(Da!Words), NEW text \in Seq(Da!Words), NEW d \in Nat, Within(t, text, d),
         NEW i \in DOMAIN t
  PROVE  /\ i + d \in DOMAIN text /\ text[i + d].w = t[i].w
         /\ i \in 1 .. Len(t) /\ Len(t) \in Nat /\ Len(text) \in Nat /\ Len(t) + d <= Len(text)
BY DEF Within

LEMMA AtWithin ==
  ASSUME NEW t \in Seq(Da!Words), NEW text \in Seq(Da!Words), NEW d \in Nat, Within(t, text, d),
         NEW p, NEW i \in DOMAIN t, Da!At(t, p, i)
  PROVE  i + d \in DOMAIN text /\ Da!At(text, p, i + d)
<1>1. /\ i \in 1 .. Len(t) /\ Len(t) \in Nat /\ Len(text) \in Nat
      /\ Len(p) \in Nat /\ Len(p) <= Len(t) - i + 1
  BY DEF Da!At
<1>2. i + d \in DOMAIN text /\ Len(p) \in 0 .. Len(text) - (i + d) + 1
  BY <1>1 DEF Within
<1>3. ASSUME NEW k \in 1 .. Len(p) PROVE text[(i + d) + k - 1].w = p[k]
  <2>1. i + k - 1 \in 1 .. Len(t) /\ (i + d) + k - 1 = (i + k - 1) + d
    BY <1>1
  <2>2. QED  BY <2>1 DEF Within, Da!At
<1>4. ASSUME NEW k \in 1 .. Len(p) - 1 PROVE ~text[(i + d) + k - 1].glued
  <2>1. i + k - 1 \in 1 .. Len(t) - 1 /\ (i + d) + k - 1 = (i + k - 1) + d
    BY <1>1
  <2>2. QED  BY <2>1 DEF Within, Da!At
<1>5. QED  BY <1>2, <1>3, <1>4 DEF Da!At

LEMMA FollowsWithin ==
  ASSUME NEW t \in Seq(Da!Words), NEW text \in Seq(Da!Words), NEW d \in Nat, Within(t, text, d),
         NEW i \in DOMAIN t, Da!Follows(t, i)
  PROVE  Da!Follows(text, i + d)
<1>1. i \in 1 .. Len(t) /\ Len(t) \in Nat
  OBVIOUS
<1>2. CASE i = 1
  BY <1>1, <1>2 DEF Within, Da!Follows
<1>3. CASE i > 1
  <2>1. i - 1 \in 1 .. Len(t) - 1 /\ i - 1 \in 1 .. Len(t) /\ (i + d) - 1 = (i - 1) + d
    BY <1>1, <1>3
  <2>2. text[(i + d) - 1].w = t[i - 1].w /\ text[(i + d) - 1].glued = t[i - 1].glued
    BY <2>1 DEF Within
  <2>3. QED  BY <1>1, <1>3, <2>2 DEF Da!Follows
<1>4. QED  BY <1>1, <1>2, <1>3

LEMMA SpacedWithin ==
  ASSUME NEW t \in Seq(Da!Words), NEW text \in Seq(Da!Words), NEW d \in Nat, Within(t, text, d),
         NEW P, Da!Spaced(t, P)
  PROVE  Da!Spaced(text, P)
<1>1. PICK p \in P, i \in DOMAIN t, last \in DOMAIN t :
        /\ Da!At(t, p, i) /\ last = i + Len(p) - 1
        /\ last < Len(t) /\ ~t[last].glued
  BY DEF Da!Spaced
<1>2. i + d \in DOMAIN text /\ Da!At(text, p, i + d)
  BY <1>1, AtWithin
<1>3. /\ last \in 1 .. Len(t) - 1 /\ last + d \in DOMAIN text /\ last + d < Len(text)
      /\ ~text[last + d].glued
  BY <1>1 DEF Within
<1>4. last + d = (i + d) + Len(p) - 1
  BY <1>1
<1>5. QED  BY <1>2, <1>3, <1>4 DEF Da!Spaced

(* What is looked for is found where it was.                               *)
LEMMA FoundWithin ==
  ASSUME NEW t \in Seq(Da!Words), NEW text \in Seq(Da!Words), NEW d \in Nat, Within(t, text, d)
  PROVE  /\ \A P : (Da!Has(t, P) => Da!Has(text, P)) /\ (Da!Runs(t, P) => Da!Runs(text, P))
         /\ \A P : Da!Spaced(t, P) => Da!Spaced(text, P)
         /\ \A S : Da!Spells(t, S) => Da!Spells(text, S)
<1>1. \A S : Da!Spells(t, S) => Da!Spells(text, S)
  <2>1. ASSUME NEW S, NEW i \in DOMAIN t, t[i].w \in S
        PROVE  i + d \in DOMAIN text /\ text[i + d].w \in S
    BY <2>1 DEF Within
  <2>2. QED  BY <2>1 DEF Da!Spells
<1>2. ASSUME NEW P
      PROVE  (Da!Has(t, P) => Da!Has(text, P)) /\ (Da!Runs(t, P) => Da!Runs(text, P))
  BY AtWithin, FollowsWithin DEF Da!Has, Da!Runs
<1>3. \A P : Da!Spaced(t, P) => Da!Spaced(text, P)
  BY SpacedWithin
<1>4. QED  BY <1>1, <1>2, <1>3

(* Nothing is glued to the command's last word that was not.               *)
Unglued(t, text, d) == text[Len(t) + d].glued = t[Len(t)].glued

LEMMA TouchesWithin ==
  ASSUME NEW t \in Seq(Da!Words), NEW text \in Seq(Da!Words), NEW d \in Nat, Within(t, text, d),
         Unglued(t, text, d)
  PROVE  Da!TouchesSystemRoot(t) => Da!TouchesSystemRoot(text)
<1>1. \A S : (\E i \in DOMAIN t : i > 1 /\ t[i].w \in S)
              => \E i \in DOMAIN text : i > 1 /\ text[i].w \in S
  <2>1. ASSUME NEW S, NEW i \in DOMAIN t, i > 1, t[i].w \in S
        PROVE  i + d \in DOMAIN text /\ i + d > 1 /\ text[i + d].w \in S
    BY <2>1, WordsWithin
  <2>2. QED  BY <2>1
<1>2. ASSUME NEW i \in DOMAIN t, t[i].w \in Da!AloneRoot, ~t[i].glued
      PROVE  i + d \in DOMAIN text /\ text[i + d].w \in Da!AloneRoot /\ ~text[i + d].glued
  <2>1. /\ i + d \in DOMAIN text /\ text[i + d].w \in Da!AloneRoot
        /\ i \in 1 .. Len(t) /\ Len(t) \in Nat
    BY <1>2, WordsWithin
  <2>2. CASE i = Len(t)
    BY <1>2, <2>1, <2>2 DEF Unglued
  <2>3. CASE i # Len(t)
    <3>1. i \in 1 .. Len(t) - 1
      BY <2>1, <2>3
    <3>2. text[i + d].glued = t[i].glued
      BY <3>1 DEF Within
    <3>3. QED  BY <1>2, <2>1, <3>2
  <2>4. QED  BY <2>1, <2>2, <2>3
<1>3. QED  BY <1>1, <1>2 DEF Da!TouchesSystemRoot

LEMMA PipesWithin ==
  ASSUME NEW t \in Seq(Da!Words), NEW text \in Seq(Da!Words), NEW d \in Nat, Within(t, text, d)
  PROVE  Da!PipesDownloadToShell(t) => Da!PipesDownloadToShell(text)
BY FoundWithin DEF Da!PipesDownloadToShell

LEMMA LaunchesWithin ==
  ASSUME NEW t \in Seq(Da!Words), NEW text \in Seq(Da!Words), NEW d \in Nat, Within(t, text, d)
  PROVE  Da!LaunchesWininit(t) => Da!LaunchesWininit(text)
<1> SUFFICES ASSUME Da!LaunchesWininit(t) PROVE Da!LaunchesWininit(text)
  OBVIOUS
<1>1. PICK i \in DOMAIN t : \E s \in 1 .. i :
        /\ t[i].w \in {"wininit", "wininit.exe"}
        /\ s = 1 \/ t[s - 1].glued \/ t[s - 1].w \in Da!Separators
        /\ \A k \in s .. i - 1 : t[k].w \in Da!Launchers /\ ~t[k].glued
  BY DEF Da!LaunchesWininit
<1>2. PICK s \in 1 .. i :
        /\ t[i].w \in {"wininit", "wininit.exe"}
        /\ s = 1 \/ t[s - 1].glued \/ t[s - 1].w \in Da!Separators
        /\ \A k \in s .. i - 1 : t[k].w \in Da!Launchers /\ ~t[k].glued
  BY <1>1
<1>3. i \in 1 .. Len(t) /\ Len(t) \in Nat
  OBVIOUS
<1>4. i + d \in DOMAIN text /\ text[i + d].w \in {"wininit", "wininit.exe"}
  BY <1>2, <1>3 DEF Within
<1>5. s + d \in 1 .. i + d
  BY <1>3
<1>6. s + d = 1 \/ text[(s + d) - 1].glued \/ text[(s + d) - 1].w \in Da!Separators
  <2>1. CASE s = 1
    BY <2>1 DEF Within
  <2>2. CASE s # 1
    <3>1. s - 1 \in 1 .. Len(t) - 1 /\ s - 1 \in 1 .. Len(t) /\ (s + d) - 1 = (s - 1) + d
      BY <1>3, <2>2
    <3>2. QED  BY <1>2, <2>2, <3>1 DEF Within
  <2>3. QED  BY <2>1, <2>2
<1>7. ASSUME NEW k \in s + d .. (i + d) - 1
      PROVE  text[k].w \in Da!Launchers /\ ~text[k].glued
  <2>1. /\ k - d \in s .. i - 1 /\ k - d \in 1 .. Len(t) - 1 /\ k - d \in 1 .. Len(t)
        /\ (k - d) + d = k
    BY <1>3
  <2>2. QED  BY <1>2, <2>1 DEF Within
<1>8. QED  BY <1>4, <1>5, <1>6, <1>7 DEF Da!LaunchesWininit

LEMMA KillsWithin ==
  ASSUME NEW t \in Seq(Da!Words), NEW text \in Seq(Da!Words), NEW d \in Nat, Within(t, text, d)
  PROVE  Da!KillsCriticalProcess(t) => Da!KillsCriticalProcess(text)
BY FoundWithin DEF Da!KillsCriticalProcess

(* The rules that fire on a command fire on a text it stands in, but those *)
(* of recursive deletes, and of ownership if something is glued to it.     *)
LEMMA RuleKept ==
  ASSUME NEW label, NEW level, NEW old, NEW new, old => new
  PROVE  Da!Rule(label, level, old) \subseteq Da!Rule(label, level, new)
BY DEF Da!Rule

LEMMA OneOfFour ==
  ASSUME NEW A, NEW B, NEW C, NEW D, NEW r \in UNION {A, B, C, D},
         r \notin A, r \notin B, r \notin D
  PROVE  r \in C
OBVIOUS

LEMMA RulesKept ==
  ASSUME NEW t \in Seq(Da!Words), NEW text \in Seq(Da!Words), NEW d \in Nat, Within(t, text, d),
         NEW os, NEW r \in Da!Reasons(os, t), r.label \notin Da!OfRm,
         r.label = Da!OfOwner => Unglued(t, text, d)
  PROVE  r \in Da!Reasons(os, text)
<1>1. \A P : (Da!Has(t, P) => Da!Has(text, P)) /\ (Da!Runs(t, P) => Da!Runs(text, P))
  BY FoundWithin
<1>2. /\ \A S : Da!Spells(t, S) => Da!Spells(text, S)
      /\ \A P : Da!Spaced(t, P) => Da!Spaced(text, P)
  BY FoundWithin
<1>3. ASSUME r \in Da!AssessUnixData(t) PROVE r \in Da!AssessUnixData(text)
  BY <1>1, <1>3 DEF Da!AssessUnixData, Da!Rule, Da!OfRm
<1>4. ASSUME r \in Da!AssessRm(t) PROVE r \in Da!AssessRm(text)
  <2>1. \A label, level, fires : r \in Da!Rule(label, level, fires) => r.label = label
    BY DEF Da!Rule
  <2>2. \A level, fires : /\ r \notin Da!Rule("Recursive delete of a system path", level, fires)
                          /\ r \notin Da!Rule("Recursive delete", level, fires)
                          /\ r \notin Da!Rule("Delete path comes from a variable", level, fires)
    BY <2>1 DEF Da!OfRm
  <2>3. r \in Da!Rule("Overrides rm's root safeguard", Da!Destructive,
                     Da!Has(t, {<<"--no-preserve-root">>}))
    <3> DEFINE First == Da!RmTargets(t) \cap Da!CriticalPaths # {}
               Second == Da!RmPieces(t) # {} /\ Da!RmTargets(t) \cap Da!CriticalPaths = {}
               Third == Da!Has(t, {<<"--no-preserve-root">>})
               Fourth == /\ Da!Has(t, {<<"rm", "-rf", "$x">>, <<"rm", "-fr", "$x">>,
                                       <<"rm", "-r", "-f", "$x">>})
                         /\ ~Da!Has(t, {<<"rm", "-rf", "'$x'">>})
    <3>1. r \in UNION
               {Da!Rule("Recursive delete of a system path", Da!Destructive, First),
                Da!Rule("Recursive delete", Da!Caution, Second),
                Da!Rule("Overrides rm's root safeguard", Da!Destructive, Third),
                Da!Rule("Delete path comes from a variable", Da!Destructive, Fourth)}
      BY <1>4, Zenon DEF Da!AssessRm
    <3> HIDE DEF First, Second, Third, Fourth
    <3>2. r \notin Da!Rule("Recursive delete of a system path", Da!Destructive, First)
      BY <2>2, Zenon
    <3>3. r \notin Da!Rule("Recursive delete", Da!Caution, Second)
      BY <2>2, Zenon
    <3>4. r \notin Da!Rule("Delete path comes from a variable", Da!Destructive, Fourth)
      BY <2>2, Zenon
    <3>5. r \in Da!Rule("Overrides rm's root safeguard", Da!Destructive, Third)
      BY <3>1, <3>2, <3>3, <3>4, OneOfFour, Zenon
    <3>6. QED
      BY <3>5 DEF Third
  <2>4. Da!Has(t, {<<"--no-preserve-root">>}) => Da!Has(text, {<<"--no-preserve-root">>})
    BY <1>1
  <2>5. r \in Da!Rule("Overrides rm's root safeguard", Da!Destructive,
                     Da!Has(text, {<<"--no-preserve-root">>}))
    BY <2>3, <2>4 DEF Da!Rule
  <2>6. QED
    BY <2>5, Zenon DEF Da!AssessRm
<1>5. ASSUME r \in Da!AssessUnixAccess(t) PROVE r \in Da!AssessUnixAccess(text)
  <2> DEFINE Stops(x) ==
               \/ Da!Runs(x, {<<"shutdown">>, <<"poweroff">>, <<"halt">>, <<"reboot">>})
               \/ Da!Has(x, {<<"init", "0">>, <<"init", "6">>, <<"systemctl", "isolate">>})
             Restarts(x) ==
               Da!Has(x, {<<"restart", "ssh">>, <<"restart", "sshd">>, <<"stop", "ssh">>})
             Disables(x) ==
               Da!Has(x, {<<"iptables", "-f">>, <<"nft", "flush", "ruleset">>,
                          <<"ufw", "disable">>, <<"systemctl", "stop", "firewalld">>,
                          <<"setenforce", "0">>})
             Opens(x) ==
               \/ Da!Has(x, {<<"chmod", "-r", "777">>, <<"chmod", "-r", "a+rwx">>})
               \/ Da!Has(x, {<<"chmod", "777", path0>> : path0 \in Da!Slashed})
             Owns(x) ==
               Da!Has(x, {<<"chown", "-r">>, <<"chmod", "-r">>}) /\ Da!TouchesSystemRoot(x)
             Of(label, level, fires) == r \in Da!Rule(label, level, fires)
             Any(x) ==
               \/ Of("Stops or restarts the machine", Da!Caution, Stops(x))
               \/ Of("Restarts the SSH service", Da!Caution, Restarts(x))
               \/ Of("Disables host protection", Da!Destructive, Disables(x))
               \/ Of("Makes files world-writable", Da!Destructive, Opens(x))
               \/ Of("Rewrites ownership across a system path", Da!Destructive, Owns(x))
               \/ Of("Runs code downloaded from the network", Da!Destructive,
                     Da!PipesDownloadToShell(x))
  <2>1. \A x : r \in Da!AssessUnixAccess(x) <=> Any(x)
    BY DEF Da!AssessUnixAccess
  <2>2. /\ Stops(t) => Stops(text)
        /\ Restarts(t) => Restarts(text)
        /\ Disables(t) => Disables(text)
        /\ Opens(t) => Opens(text)
    BY <1>1
  <2>3. Da!PipesDownloadToShell(t) => Da!PipesDownloadToShell(text)
    BY PipesWithin
  <2>4. r.label = Da!OfOwner => (Owns(t) => Owns(text))
    BY <1>1, TouchesWithin
  <2> HIDE DEF Stops, Restarts, Disables, Opens, Owns
  <2>5. Any(t) => Any(text)
    <3>1. ASSUME NEW label, NEW level, NEW old, NEW new,
                 Of(label, level, old), r.label = label => (old => new)
          PROVE  Of(label, level, new)
      BY <3>1 DEF Da!Rule
    <3> HIDE DEF Of
    <3>2. QED
      BY <2>2, <2>3, <2>4, <3>1, Zenon DEF Da!OfOwner
  <2> HIDE DEF Any
  <2>6. QED  BY <1>5, <2>1, <2>5
<1>6. ASSUME r \in Da!AssessUnixRest(t) PROVE r \in Da!AssessUnixRest(text)
  BY <1>1, <1>6 DEF Da!AssessUnixRest, Da!Rule, Da!OfRm
<1>7. ASSUME r \in Da!AssessWindowsData(t) PROVE r \in Da!AssessWindowsData(text)
  BY <1>1, <1>2, <1>7 DEF Da!AssessWindowsData, Da!Rule, Da!OfRm
<1>8. ASSUME r \in Da!AssessWindowsRest(t) PROVE r \in Da!AssessWindowsRest(text)
  <2>1. /\ Da!LaunchesWininit(t) => Da!LaunchesWininit(text)
        /\ Da!KillsCriticalProcess(t) => Da!KillsCriticalProcess(text)
    BY LaunchesWithin, KillsWithin
  <2>2. QED
    BY <1>1, <1>2, <1>8, <2>1 DEF Da!AssessWindowsRest, Da!Rule
<1>9. ASSUME r \in Da!AssessSecrets(t) PROVE r \in Da!AssessSecrets(text)
  BY <1>1, <1>2, <1>9 DEF Da!AssessSecrets, Da!Rule, Da!OfRm
<1>10. QED
  BY <1>3, <1>5, <1>6, <1>7, <1>9, <1>4, <1>8 DEF Da!Reasons, Da!AssessUnix, Da!AssessWindows

(* The level of a rating grows with its reasons.                           *)
LEMMA LevelGrows ==
  ASSUME NEW few, NEW many, few \subseteq many
  PROVE  Da!Level(few) <= Da!Level(many)
BY DEF Da!Level, Da!None, Da!Caution, Da!Destructive

(* A host nobody knows is rated by all the rules there are.                *)
LEMMA UnknownTakesAll ==
  ASSUME NEW os, NEW t
  PROVE  Da!Reasons(os, t) \subseteq Da!Reasons("unknown", t)
BY DEF Da!Reasons

(* Two commands joined: each stands in the text, the second after all of   *)
(* the first, and no separator but the space of a line end.                *)
LEMMA SeparatorsSpelled ==
  "glued" \notin Da!Separators /\ "line" \notin Da!Separators
BY Zenon DEF Da!Separators

(* A sequence before another, as functions.                                *)
LEMMA Follow ==
  ASSUME NEW S, NEW a \in Seq(S), NEW b \in Seq(S)
  PROVE  /\ a \o b \in Seq(S) /\ Len(a \o b) = Len(a) + Len(b)
         /\ Len(a) \in Nat /\ Len(b) \in Nat
         /\ \A i \in 1 .. Len(a) : (a \o b)[i] = a[i]
         /\ \A i \in 1 .. Len(b) : (a \o b)[i + Len(a)] = b[i]
OBVIOUS

(* What Within asks of a text that is one before the other.                *)
LEMMA FirstWithin ==
  ASSUME NEW a \in Seq(Da!Words), NEW c \in Seq(Da!Words), NEW b \in Seq(Da!Words),
         Len(c) = Len(a), \A i \in 1 .. Len(a) : c[i].w = a[i].w,
         \A i \in 1 .. Len(a) - 1 : c[i].glued = a[i].glued
  PROVE  /\ Within(a, c \o b, 0)
         /\ a # <<>> /\ c[Len(a)].glued = a[Len(a)].glued => Unglued(a, c \o b, 0)
<1>1. \A i \in 1 .. Len(a) : (c \o b)[i + 0] = c[i]
  BY Follow
<1>2. Len(a) + 0 <= Len(c \o b) /\ Len(a) \in Nat
  BY Follow
<1>3. a # <<>> => Len(a) \in 1 .. Len(a) /\ Len(a) + 0 = Len(a)
  BY <1>2
<1>4. QED
  BY <1>1, <1>2, <1>3 DEF Within, Unglued

LEMMA SecondWithin ==
  ASSUME NEW c \in Seq(Da!Words), NEW b \in Seq(Da!Words), c # <<>>,
         c[Len(c)].glued \/ c[Len(c)].w \in Da!Separators
  PROVE  /\ Within(b, c \o b, Len(c)) /\ Len(c) \in Nat
         /\ b # <<>> => Unglued(b, c \o b, Len(c))
<1>1. \A i \in 1 .. Len(b) : (c \o b)[i + Len(c)] = b[i]
  BY Follow
<1>2. Len(b) + Len(c) <= Len(c \o b) /\ Len(b) \in Nat /\ Len(c) \in Nat \ {0}
  BY Follow
<1>3. (c \o b)[Len(c)] = c[Len(c)]
  BY <1>2, Follow
<1>4. b # <<>> => Len(b) \in 1 .. Len(b)
  BY <1>2
<1>5. QED
  BY <1>1, <1>2, <1>3, <1>4 DEF Within, Unglued

LEMMA JoinedWithin ==
  ASSUME NEW a \in Seq(Da!Words), NEW b \in Seq(Da!Words), a # <<>>, b # <<>>,
         NEW sep \in {"glued"} \cup Da!Separators
  PROVE  /\ Da!Join(a, sep, b) \in Seq(Da!Words) /\ Within(a, Da!Join(a, sep, b), 0)
         /\ sep # "glued" => Unglued(a, Da!Join(a, sep, b), 0)
         /\ \E d \in Nat : Within(b, Da!Join(a, sep, b), d) /\ Unglued(b, Da!Join(a, sep, b), d)
<1>1. Len(a) \in Nat \ {0} /\ Len(b) \in Nat
  OBVIOUS
<1>2. CASE sep = "glued"
  <2> DEFINE c == Da!Glued(a)
  <2>1. \A i \in 1 .. Len(a) : a[i] \in Da!Words
    BY <1>1
  <2>2. \A i \in 1 .. Len(a) : c[i] \in Da!Words /\ c[i].w = a[i].w
    BY <2>1 DEF Da!Words, Da!Glued
  <2>3. c[Len(a)].glued /\ \A i \in 1 .. Len(a) - 1 : c[i].glued = a[i].glued
    <3>1. Len(a) \in 1 .. Len(a) /\ \A i \in 1 .. Len(a) - 1 : i \in 1 .. Len(a) /\ i # Len(a)
      BY <1>1
    <3>2. c[Len(a)].glued = TRUE
      BY <3>1, Zenon DEF Da!Glued
    <3>3. ASSUME NEW i \in 1 .. Len(a) - 1 PROVE c[i].glued = a[i].glued
      <4>1. a[i].glued \in BOOLEAN
        BY <2>1, <3>1 DEF Da!Words
      <4>2. CASE a[i].glued
        BY <3>1, <4>1, <4>2 DEF Da!Glued
      <4>3. CASE ~a[i].glued
        BY <3>1, <4>1, <4>3 DEF Da!Glued
      <4>4. QED
        BY <4>2, <4>3
    <3>4. QED
      BY <3>2, <3>3
  <2>4. c \in Seq(Da!Words) /\ Len(c) = Len(a) /\ c # <<>>
    BY <1>1, <2>2 DEF Da!Glued
  <2> HIDE DEF c
  <2>5. Da!Join(a, sep, b) = c \o b
    BY <1>2 DEF Da!Join, c
  <2>6. /\ Within(a, c \o b, 0) /\ Within(b, c \o b, Len(c)) /\ Len(c) \in Nat
        /\ Unglued(b, c \o b, Len(c))
    BY <2>2, <2>3, <2>4, FirstWithin, SecondWithin
  <2>7. c \o b \in Seq(Da!Words)
    BY <2>4
  <2>8. QED
    BY <1>2, <2>5, <2>6, <2>7
<1>3. CASE sep # "glued"
  <2> DEFINE m == [w |-> sep, glued |-> FALSE]
             c == a \o <<m>>
  <2>1. m \in Da!Words /\ m.w \in Da!Separators
    BY <1>3, SeparatorsSpelled DEF Da!Words
  <2>2. Da!Join(a, sep, b) = c \o b
    BY <1>3, SeparatorsSpelled DEF Da!Join, Da!Word
  <2> HIDE DEF m
  <2>3. <<m>> \in Seq(Da!Words) /\ Len(<<m>>) = 1
    BY <2>1
  <2>4. c \in Seq(Da!Words) /\ c # <<>> /\ c[Len(c)] = m
    BY <1>1, <2>1, <2>3
  <2>5. <<m>> \o b \in Seq(Da!Words)
    BY <2>3
  <2>6. Within(a, a \o (<<m>> \o b), 0) /\ Unglued(a, a \o (<<m>> \o b), 0)
    BY <2>5, FirstWithin
  <2>7. a \o (<<m>> \o b) = c \o b
    BY <2>3
  <2> HIDE DEF c
  <2>8. Within(b, c \o b, Len(c)) /\ Len(c) \in Nat /\ Unglued(b, c \o b, Len(c))
    BY <2>1, <2>4, SecondWithin
  <2>9. c \o b \in Seq(Da!Words)
    BY <2>4
  <2>10. QED
    BY <2>2, <2>6, <2>7, <2>8, <2>9
<1>4. QED
  BY <1>2, <1>3

LEMMA CommandsAssessed ==
  ASSUME NEW os, NEW a \in Seq(Da!Words), NEW b \in Seq(Da!Words), a # <<>>, b # <<>>,
         NEW sep \in {"glued", "line", "&&", ";", "|"}
  PROVE  Da!BothAreAssessed(os, a, sep, b)
<1> DEFINE text == Da!Join(a, sep, b)
<1>1. ASSUME sep # "line", NEW r, r.label \notin Da!OfRm,
             \/ r \in Da!Reasons(os, a) /\ r.label \notin Da!Lost(sep)
             \/ r \in Da!Reasons(os, b)
      PROVE  r \in Da!Reasons(os, text)
  <2>1. /\ text \in Seq(Da!Words) /\ Within(a, text, 0)
        /\ sep # "glued" => Unglued(a, text, 0)
        /\ \E d \in Nat : Within(b, text, d) /\ Unglued(b, text, d)
    <3>1. sep \in {"glued"} \cup Da!Separators
      BY <1>1, Zenon DEF Da!Separators
    <3>2. QED
      BY <3>1, JoinedWithin
  <2>2. CASE r \in Da!Reasons(os, a) /\ r.label \notin Da!Lost(sep)
    <3>1. r.label = Da!OfOwner => sep # "glued"
      BY <2>2 DEF Da!Lost
    <3>2. QED
      BY <1>1, <2>1, <2>2, <3>1, RulesKept
  <2>3. CASE r \in Da!Reasons(os, b)
    BY <1>1, <2>1, <2>3, RulesKept
  <2>4. QED
    BY <1>1, <2>2, <2>3
<1>2. Da!Level(Da!Reasons(os, text)) <= Da!Level(Da!Reasons("unknown", text))
  BY UnknownTakesAll, LevelGrows
<1>3. \A label : label \notin Da!Lost(sep) => label \notin Da!OfRm
  BY DEF Da!Lost
<1>4. QED
  BY <1>1, <1>2, <1>3 DEF Da!BothAreAssessed

-----------------------------------------------------------------------------
(* TaskPlan.  The saved task an id means is the only one of that id.       *)
LEMMA FoundOnce ==
  ASSUME NEW saved, NEW i \in DOMAIN saved, DOMAIN saved \subseteq Nat,
         \A m, n \in DOMAIN saved : saved[m].id = saved[n].id => m = n
  PROVE  LET found == {j \in DOMAIN saved : saved[j].id = saved[i].id}
         IN  (CHOOSE k \in found : \A j \in found : k <= j) = i
<1> DEFINE found == {j \in DOMAIN saved : saved[j].id = saved[i].id}
<1>1. found = {i}
  OBVIOUS
<1>2. QED
  BY <1>1

(* What a host is offered is what it may start.                            *)
LEMMA OfferedResolves ==
  ASSUME NEW catalog, NEW saved, NEW host, NEW os,
         DOMAIN saved \subseteq Nat,
         \A m, n \in DOMAIN saved : saved[m].id = saved[n].id => m = n
  PROVE  Ta!OfferedIsResolved(catalog, saved, host, os)
<1> SUFFICES ASSUME NEW id
             PROVE  id \in Ta!Offered(catalog, saved, host, os)
                      <=> Ta!Resolve(catalog, saved, host, id, os).ok
  BY DEF Ta!OfferedIsResolved
<1> DEFINE builtin == {b \in Ta!ForOs(catalog, os) : b.id = id}
           found == {j \in DOMAIN saved : saved[j].id = id}
           task == saved[CHOOSE k \in found : \A j \in found : k <= j]
           may == \E i \in found : Ta!AppliesTo(saved[i], host) /\ Ta!Supports(saved[i], os)
<1>1. id \in Ta!Offered(catalog, saved, host, os) <=> builtin # {} \/ may
  BY DEF Ta!Offered, Ta!ForHost
<1>2. CASE builtin # {}
  <2>1. Ta!Resolve(catalog, saved, host, id, os).ok = TRUE
    BY <1>2 DEF Ta!Resolve
  <2>2. QED
    BY <1>1, <1>2, <2>1
<1>3. CASE builtin = {} /\ found = {}
  <2>1. Ta!Resolve(catalog, saved, host, id, os).ok = FALSE
    BY <1>3 DEF Ta!Resolve, Ta!Refusal
  <2>2. QED
    BY <1>1, <1>3, <2>1
<1>4. CASE builtin = {} /\ found # {}
  <2>1. PICK i \in DOMAIN saved : saved[i].id = id
    BY <1>4
  <2>2. task = saved[i] /\ found = {i}
    BY <2>1, FoundOnce
  <2>3. CASE ~Ta!AppliesTo(task, host)
    BY <1>1, <1>4, <2>2, <2>3 DEF Ta!Resolve, Ta!Refusal
  <2>4. CASE Ta!AppliesTo(task, host) /\ ~Ta!Supports(task, os)
    BY <1>1, <1>4, <2>2, <2>4 DEF Ta!Resolve, Ta!Refusal
  <2>5. CASE Ta!AppliesTo(task, host) /\ Ta!Supports(task, os)
    BY <1>1, <1>4, <2>2, <2>5 DEF Ta!Resolve, Ta!Refusal
  <2>6. QED
    BY <2>3, <2>4, <2>5
<1>5. QED
  BY <1>2, <1>3, <1>4

(* A plan that goes through runs as root exactly when it says so.          *)
LEMMA PlansAsSaid ==
  ASSUME NEW os, NEW elevation, NEW text, NEW elevated \in BOOLEAN,
         Ta!Plan(os, elevation, text, elevated).ok
  PROVE  LET plan == Ta!Plan(os, elevation, text, elevated)
         IN  /\ plan.elevated => Ta!RunsAsRoot(elevation, plan)
             /\ ~plan.elevated => plan.wrap # "sudo"
BY DEF Ta!Plan, Ta!NoPlan, Ta!Shell, Ta!RunsAsRoot

(* No plan is refused as blocked: only a start is.                         *)
LEMMA PlansUnblocked ==
  ASSUME NEW os, NEW elevation, NEW text, NEW elevated \in BOOLEAN
  PROVE  Ta!Plan(os, elevation, text, elevated).why # "blocked"
BY DEF Ta!Plan, Ta!NoPlan

(* What blocks a text on a host of some family blocks it for one nobody    *)
(* knows.                                                                  *)
LEMMA BlockedEverywhere ==
  ASSUME NEW os, NEW text, NEW blockFrom \in Nat,
         Ta!Refused(Ta!Reasons(os, text), blockFrom)
  PROVE  Ta!Refused(Ta!Reasons("unknown", text), blockFrom)
<1>1. Ta!Reasons(os, text) \subseteq Ta!Reasons("unknown", text)
  BY DEF Ta!Reasons
<1>2. \A few, many : few \subseteq many => Ta!Level(few) <= Ta!Level(many)
  BY DEF Ta!Level, Ta!None, Ta!Caution, Ta!Destructive
<1>3. \A reasons : Ta!Level(reasons) \in 0 .. 2
  BY DEF Ta!Level, Ta!None, Ta!Caution, Ta!Destructive
<1>4. QED
  BY <1>1, <1>2, <1>3 DEF Ta!Refused, Ta!None

(* What a press does of the saved tasks.                                   *)
LEMMA StartsSaid ==
  ASSUME NEW catalog, NEW saved, NEW host, NEW os, NEW elevation, NEW asked,
         NEW blockFrom \in Nat, DOMAIN saved \subseteq Nat,
         \A m, n \in DOMAIN saved : saved[m].id = saved[n].id => m = n,
         \A m \in DOMAIN saved, b \in catalog : saved[m].id # b.id,
         \A m \in DOMAIN saved : saved[m].elevated \in BOOLEAN
  PROVE  Ta!StartsAsSaid(catalog, saved, host, os, elevation, asked, blockFrom)
<1> SUFFICES ASSUME NEW i \in DOMAIN saved
             PROVE  LET started == Ta!Start(catalog, saved, host, saved[i].id, os, elevation,
                                            asked, blockFrom)
                    IN  /\ started.ok /\ started.elevated => Ta!RunsAsRoot(elevation, started)
                        /\ started.ok /\ ~started.elevated => started.wrap # "sudo"
                        /\ Ta!Saves("unknown", saved[i], blockFrom) => started.why # "blocked"
  BY DEF Ta!StartsAsSaid
<1> DEFINE id == saved[i].id
           found == Ta!Resolve(catalog, saved, host, id, os)
           wants == Ta!Wants(found, asked)
           plan == Ta!Plan(os, elevation, found.text, wants)
           started == Ta!Start(catalog, saved, host, id, os, elevation, asked, blockFrom)
<1>1. found \in {Ta!Refusal("no longer exists"), Ta!Refusal("belongs to a different host"),
                Ta!Refusal("not for this system"),
                [ok |-> TRUE, why |-> "", text |-> saved[i].text,
                 elevated |-> saved[i].elevated]}
  <2>1. {b \in Ta!ForOs(catalog, os) : b.id = id} = {}
    BY DEF Ta!ForOs
  <2>2. (CHOOSE k \in {j \in DOMAIN saved : saved[j].id = id} :
           \A j \in {m \in DOMAIN saved : saved[m].id = id} : k <= j) = i
    BY FoundOnce
  <2>3. QED
    BY <2>1, <2>2 DEF Ta!Resolve
<1>2. /\ found.elevated \in BOOLEAN /\ found.ok \in BOOLEAN /\ found.why # "blocked"
      /\ found.ok => found.text = saved[i].text
  <2> HIDE DEF found
  <2>1. CASE \E why \in {"no longer exists", "belongs to a different host",
                        "not for this system"} : found = Ta!Refusal(why)
    <3>1. PICK why \in {"no longer exists", "belongs to a different host",
                       "not for this system"} : found = Ta!Refusal(why)
      BY <2>1
    <3>2. found.ok = FALSE /\ found.elevated = FALSE /\ found.why = why
      BY <3>1 DEF Ta!Refusal
    <3>3. QED
      BY <3>2
  <2>2. CASE found = [ok |-> TRUE, why |-> "", text |-> saved[i].text,
                      elevated |-> saved[i].elevated]
    BY <2>2
  <2>3. QED
    BY <1>1, <2>1, <2>2
<1>3. wants \in BOOLEAN
  BY <1>2 DEF Ta!Wants
<1>4. /\ plan.ok \in BOOLEAN /\ plan.why # "blocked"
      /\ plan.ok => /\ plan.elevated => Ta!RunsAsRoot(elevation, plan)
                    /\ ~plan.elevated => plan.wrap # "sudo"
  <2>1. plan.ok \in BOOLEAN
    BY <1>3 DEF Ta!Plan, Ta!NoPlan
  <2>2. QED
    BY <1>3, <2>1, PlansAsSaid, PlansUnblocked
<1>5. plan = [ok |-> plan.ok, why |-> plan.why, wrap |-> plan.wrap, elevated |-> plan.elevated,
              needsPassword |-> plan.needsPassword]
  BY <1>3 DEF Ta!Plan, Ta!NoPlan
<1> HIDE DEF found, wants, plan
<1>6. CASE ~found.ok
  <2>1. started = [plan EXCEPT !.ok = FALSE, !.why = found.why]
    BY <1>6 DEF Ta!Start, found, plan, wants
  <2>2. started.ok = FALSE /\ started.why = found.why
    BY <1>5, <2>1
  <2>3. QED
    BY <1>2, <2>2
<1>7. CASE found.ok /\ ~plan.ok
  <2>1. started = plan
    BY <1>7 DEF Ta!Start, found, plan, wants
  <2>2. QED
    BY <1>4, <1>7, <2>1
<1>8. CASE found.ok /\ plan.ok /\ Ta!Refused(Ta!Reasons(os, found.text), blockFrom)
  <2>1. started = [plan EXCEPT !.ok = FALSE, !.why = "blocked"]
    BY <1>8 DEF Ta!Start, found, plan, wants
  <2>2. started.ok = FALSE
    BY <1>5, <2>1
  <2>3. ~Ta!Saves("unknown", saved[i], blockFrom)
    BY <1>2, <1>8, BlockedEverywhere DEF Ta!Saves
  <2>4. QED
    BY <2>2, <2>3
<1>9. CASE found.ok /\ plan.ok /\ ~Ta!Refused(Ta!Reasons(os, found.text), blockFrom)
  <2>1. started = plan
    BY <1>9 DEF Ta!Start, found, plan, wants
  <2>2. QED
    BY <1>4, <2>1
<1>10. QED
  BY <1>2, <1>4, <1>6, <1>7, <1>8, <1>9

-----------------------------------------------------------------------------
(* SettingsFiles, for any records and any number of stampers.  As long as  *)
(* no two commands overlapped there is at most one writer; it opens, fills *)
(* and renames an inode that is not the file's, so that the file's own     *)
(* inode is never written to, and the step that replaces it is the one     *)
(* that reports success.                                                   *)
Contents == [Ids -> [form : 0 .. Forms, stamp : 0 .. 1]]
StoreFiles == [whole : BOOLEAN, records : Contents]
StoreOps == {"none", "add", "edit", "delete", "forget", "touch"}

StoreTyped ==
  /\ v1 \in [Se!Inodes -> StoreFiles]
  /\ v2 \in {0} \cup Se!Inodes /\ v3 \in {0} \cup Se!Inodes
  /\ v4 \in [Se!Actors -> [step : {"idle", "read", "opened", "filled"}, op : StoreOps,
                         text : Contents, on : {0} \cup Se!Inodes]]
  /\ v6 \in Contents

(* At most one command is under way.                                       *)
OneWriter == \A a, b \in Se!Actors : Se!Busy(a) /\ Se!Busy(b) => a = b

(* The temporary name is not a second name of the file.                    *)
TmpApart == v2 # 0 => v2 # v3

(* What a command writes to is the temporary file, which holds no text yet *)
(* or the whole of it.                                                     *)
WritesToTmp ==
  \A a \in Se!Actors :
    /\ v4[a].step \in {"idle", "read"} => v4[a].on = 0
    /\ v4[a].step \in {"opened", "filled"} => v2 # 0 /\ v4[a].on = v2
    /\ v4[a].step = "opened" => v1[v2] = Se!Torn
    /\ v4[a].step = "filled" => v1[v2] = Se!Whole(v4[a].text)

StoreAlone == StoreTyped /\ OneWriter /\ TmpApart /\ WritesToTmp /\ Se!OnDisk = Se!Whole(v6)

(* The inductive invariant: once two commands have overlapped, nothing.    *)
StoreInv == v7 \in BOOLEAN /\ (~v7 => StoreAlone)

-----------------------------------------------------------------------------
LEMMA TornTyped ==
  ASSUME Se!StoreAssumption
  PROVE  /\ Se!Absent \in [form : 0 .. Forms, stamp : 0 .. 1]
         /\ Se!NoRecords \in Contents /\ Se!Torn \in StoreFiles
BY DEF Se!StoreAssumption, Se!Absent, Se!NoRecords, Contents, Se!Torn, StoreFiles

LEMMA StoreCounts == (\A S : Se!Cardinality(S) = Cardinality(S))
                    /\ (\A S : Se!IsFiniteSet(S) <=> IsFiniteSet(S))
BY Zenon DEF Se!Cardinality, Cardinality, Se!IsFiniteSet, IsFiniteSet

LEMMA ActorsCounted ==
  ASSUME Se!StoreAssumption PROVE IsFiniteSet(Se!Actors) /\ Cardinality(Se!Actors) \in Nat
<1>1. IsFiniteSet({"main"})  BY FS_Singleton
<1>2. IsFiniteSet(Se!Actors)  BY <1>1, StoreCounts, FS_Union DEF Se!Actors, Se!StoreAssumption
<1>3. QED  BY <1>2, FS_CardinalityType

LEMMA InodeFree ==
  ASSUME Se!StoreAssumption, StoreTyped, WritesToTmp, v2 = 0,
         NEW a \in Se!Actors, v4[a].step = "read", OneWriter
  PROVE  Se!Fresh \in Se!Inodes /\ Se!Fresh # v3
<1>1. Cardinality(Se!Actors) \in Nat
  BY ActorsCounted
<1>2. 1 \in Se!Inodes /\ 2 \in Se!Inodes /\ 0 \notin Se!Inodes
  BY <1>1, StoreCounts DEF Se!Inodes
<1>3. \A b \in Se!Actors : Se!Busy(b) => v4[b].on = 0
  BY DEF OneWriter, Se!Busy, WritesToTmp
<1>4. Se!InUse \subseteq {0, v3}
  BY <1>3 DEF Se!InUse
<1>5. \E n \in Se!Inodes : n \notin Se!InUse
  <2>1. CASE v3 = 1  BY <1>2, <1>4, <2>1
  <2>2. CASE v3 # 1  BY <1>2, <1>4, <2>2
  <2>3. QED  BY <2>1, <2>2
<1>6. v3 \in Se!InUse
  BY DEF Se!InUse
<1>7. QED  BY <1>5, <1>6 DEF Se!Fresh

LEMMA InitStoreTyped == ASSUME Se!StoreAssumption, Se!Init PROVE StoreTyped
BY TornTyped DEF Se!Init, StoreTyped, Se!NoAct, StoreOps

LEMMA InitStore == ASSUME Se!StoreAssumption, Se!Init PROVE StoreInv
<1>1. StoreTyped
  BY InitStoreTyped
<1>2. OneWriter /\ TmpApart /\ WritesToTmp
  BY DEF Se!Init, OneWriter, Se!Busy, TmpApart, WritesToTmp, Se!NoAct
<1>3. Se!OnDisk = Se!Whole(v6)
  BY DEF Se!Init, Se!OnDisk
<1>4. QED  BY <1>1, <1>2, <1>3 DEF StoreInv, StoreAlone, Se!Init

-----------------------------------------------------------------------------
LEMMA BeginOpKeeps ==
  ASSUME Se!StoreAssumption, StoreInv, NEW a \in Se!Actors, NEW op \in StoreOps, NEW text,
         StoreAlone => text \in Contents, Se!Begin(a, op, text)
  PROVE  StoreInv'
<1>1. v7' \in BOOLEAN
  BY DEF Se!Begin, StoreInv
<1>2. ASSUME ~v7' PROVE StoreAlone'
  <2>1. StoreAlone /\ text \in Contents /\ \A b \in Se!Actors : ~Se!Busy(b)
    BY <1>1, <1>2 DEF Se!Begin, StoreInv
  <2>2. /\ v4' = [v4 EXCEPT ![a] = [step |-> "read", op |-> op, text |-> text, on |-> 0]]
        /\ UNCHANGED <<v1, v2, v3, v6>>
    BY DEF Se!Begin
  <2>3. StoreTyped'
    BY <2>1, <2>2 DEF StoreAlone, StoreTyped
  <2>4. OneWriter'
    BY <2>1, <2>2 DEF StoreAlone, StoreTyped, OneWriter, Se!Busy
  <2>5. TmpApart' /\ (Se!OnDisk = Se!Whole(v6))'
    BY <2>1, <2>2 DEF StoreAlone, TmpApart, Se!OnDisk
  <2>6. WritesToTmp'
    BY <2>1, <2>2 DEF StoreAlone, StoreTyped, WritesToTmp, Se!Busy
  <2>7. QED  BY <2>3, <2>4, <2>5, <2>6 DEF StoreAlone
<1>3. QED  BY <1>1, <1>2 DEF StoreInv

LEMMA OpenTmpKeeps ==
  ASSUME Se!StoreAssumption, StoreAlone, NEW a \in Se!Actors, Se!Open(a) PROVE StoreAlone'
<1> USE DEF StoreAlone
<1> DEFINE n == Se!Target
<1>1. n \in Se!Inodes /\ n # v3 /\ n # 0
  <2>1. 0 \notin Se!Inodes  BY DEF Se!Inodes
  <2>2. CASE v2 = 0  BY <2>1, <2>2, InodeFree DEF Se!Target, Se!Open
  <2>3. CASE v2 # 0  BY <2>1, <2>3 DEF Se!Target, StoreTyped, TmpApart
  <2>4. QED  BY <2>2, <2>3
<1>2. /\ v1' = [v1 EXCEPT ![n] = Se!Torn] /\ v2' = n
      /\ v4' = [v4 EXCEPT ![a].step = "opened", ![a].on = n]
      /\ v4[a].step = "read"
      /\ UNCHANGED <<v3, v6>>
  BY DEF Se!Open
<1> HIDE DEF n
<1>3. StoreTyped'
  <2>1. v1' \in [Se!Inodes -> StoreFiles]
    BY <1>1, <1>2, TornTyped DEF StoreTyped
  <2>2. v4' \in [Se!Actors -> [step : {"idle", "read", "opened", "filled"}, op : StoreOps,
                            text : Contents, on : {0} \cup Se!Inodes]]
    BY <1>1, <1>2 DEF StoreTyped
  <2>3. QED  BY <1>1, <1>2, <2>1, <2>2 DEF StoreTyped
<1>4. OneWriter'
  BY <1>2 DEF OneWriter, Se!Busy, StoreTyped
<1>5. TmpApart'
  BY <1>1, <1>2 DEF TmpApart
<1>6. (Se!OnDisk = Se!Whole(v6))'
  BY <1>1, <1>2 DEF Se!OnDisk, StoreTyped
<1>7. WritesToTmp'
  <2>1. \A b \in Se!Actors : b # a => v4[b].step = "idle"
    BY <1>2 DEF OneWriter, Se!Busy
  <2>2. QED  BY <1>1, <1>2, <2>1 DEF WritesToTmp, StoreTyped
<1>8. QED  BY <1>3, <1>4, <1>5, <1>6, <1>7

LEMMA FillTmpKeeps ==
  ASSUME Se!StoreAssumption, StoreAlone, NEW a \in Se!Actors, Se!Fill(a) PROVE StoreAlone'
<1> USE DEF StoreAlone
<1>1. v4[a].on = v2 /\ v2 # 0 /\ v1[v2] = Se!Torn /\ v2 \in Se!Inodes /\ v2 # v3
  BY DEF Se!Fill, WritesToTmp, StoreTyped, TmpApart
<1>2. /\ v1' = [v1 EXCEPT ![v2] = Se!Whole(v4[a].text)]
      /\ v4' = [v4 EXCEPT ![a].step = "filled"] /\ v4[a].step = "opened"
      /\ UNCHANGED <<v2, v3, v6>>
  BY <1>1 DEF Se!Fill, Se!Torn
<1>3. StoreTyped'
  BY <1>1, <1>2 DEF StoreTyped, StoreFiles, Se!Whole
<1>4. OneWriter' /\ TmpApart'
  BY <1>2 DEF OneWriter, TmpApart, Se!Busy, StoreTyped
<1>5. (Se!OnDisk = Se!Whole(v6))'
  BY <1>1, <1>2 DEF Se!OnDisk, StoreTyped
<1>6. WritesToTmp'
  <2>1. \A b \in Se!Actors : b # a => v4[b].step = "idle"
    BY <1>2 DEF OneWriter, Se!Busy
  <2>2. v1'[v2] = Se!Whole(v4[a].text) /\ v4'[a].text = v4[a].text
    BY <1>1, <1>2 DEF StoreTyped
  <2>3. QED  BY <1>1, <1>2, <2>1, <2>2 DEF WritesToTmp, StoreTyped
<1>7. QED  BY <1>3, <1>4, <1>5, <1>6

(* A writer that gives up: the temporary file stays or goes.               *)
LEMMA StopTmpKeeps ==
  ASSUME Se!StoreAssumption, StoreAlone, NEW a \in Se!Actors, Se!Busy(a),
         v4' = [v4 EXCEPT ![a] = Se!NoAct], v2' \in {0, v2},
         UNCHANGED <<v1, v3, v6>>
  PROVE  StoreAlone'
<1> USE DEF StoreAlone
<1>1. StoreTyped'
  BY TornTyped DEF StoreTyped, Se!NoAct, StoreOps
<1>2. OneWriter' /\ TmpApart'
  BY DEF OneWriter, TmpApart, Se!Busy, StoreTyped, Se!NoAct
<1>3. (Se!OnDisk = Se!Whole(v6))'
  BY DEF Se!OnDisk
<1>4. WritesToTmp'
  <2>1. \A b \in Se!Actors : b # a => v4[b].step = "idle"
    BY DEF OneWriter, Se!Busy
  <2>2. QED  BY <2>1 DEF WritesToTmp, StoreTyped, Se!NoAct
<1>5. QED  BY <1>1, <1>2, <1>3, <1>4

LEMMA RenameTmpKeeps ==
  ASSUME Se!StoreAssumption, StoreAlone, NEW a \in Se!Actors, Se!Rename(a) PROVE StoreAlone'
<1> USE DEF StoreAlone
<1>1. v1[v2] = Se!Whole(v4[a].text) /\ v2 \in Se!Inodes /\ v4[a].text \in Contents
  BY DEF Se!Rename, WritesToTmp, StoreTyped
<1>2. StoreTyped'
  BY <1>1, TornTyped DEF Se!Rename, StoreTyped, Se!NoAct, StoreOps
<1>3. OneWriter' /\ TmpApart'
  BY DEF Se!Rename, OneWriter, TmpApart, Se!Busy, StoreTyped, Se!NoAct
<1>4. (Se!OnDisk = Se!Whole(v6))'
  BY <1>1 DEF Se!Rename, Se!OnDisk, Se!Inodes
<1>5. WritesToTmp'
  <2>1. \A b \in Se!Actors : b # a => v4[b].step = "idle"
    BY DEF Se!Rename, OneWriter, Se!Busy
  <2>2. QED  BY <2>1 DEF Se!Rename, WritesToTmp, StoreTyped, Se!NoAct
<1>6. QED  BY <1>2, <1>3, <1>4, <1>5

LEMMA CrashTmpKeeps == ASSUME Se!StoreAssumption, StoreAlone, Se!Crash PROVE StoreAlone'
<1> USE DEF StoreAlone
<1>1. StoreTyped'
  BY TornTyped DEF Se!Crash, StoreTyped, Se!NoAct, StoreOps
<1>2. OneWriter' /\ TmpApart' /\ (Se!OnDisk = Se!Whole(v6))'
  BY DEF Se!Crash, OneWriter, TmpApart, Se!OnDisk, Se!Busy, Se!NoAct
<1>3. WritesToTmp'
  BY DEF Se!Crash, WritesToTmp, Se!NoAct
<1>4. QED  BY <1>1, <1>2, <1>3

-----------------------------------------------------------------------------
LEMMA StepKeepsStore ==
  ASSUME Se!StoreAssumption, StoreInv, [Se!Next]_(Se!vars)
  PROVE  StoreInv'
<1>1. StoreAlone => Se!Read \in Contents
  BY TornTyped DEF StoreAlone, StoreTyped, Se!Read, Se!OnDisk, Se!Whole, StoreFiles
<1>2. ASSUME NEW i \in Ids, NEW form \in 1 .. Forms, Se!Add(i, form) \/ Se!Edit(i, form)
      PROVE  StoreInv'
  <2>1. form \in 0 .. Forms
    BY DEF Se!StoreAssumption
  <2>2. StoreAlone => /\ [Se!Read EXCEPT ![i] = [form |-> form, stamp |-> 0]] \in Contents
                 /\ [Se!Read EXCEPT ![i].form = form] \in Contents
    BY <1>1, <2>1 DEF Contents
  <2>3. CASE Se!Add(i, form)
    BY <2>2, <2>3, BeginOpKeeps DEF Se!Add, Se!Actors, StoreOps
  <2>4. CASE Se!Edit(i, form)
    BY <2>2, <2>4, BeginOpKeeps DEF Se!Edit, Se!Actors, StoreOps
  <2>5. QED  BY <1>2, <2>3, <2>4
<1>3. ASSUME NEW i \in Ids, Se!Delete(i) PROVE StoreInv'
  <2>1. StoreAlone => [Se!Read EXCEPT ![i] = Se!Absent] \in Contents
    BY <1>1, TornTyped DEF Contents
  <2>2. QED  BY <1>3, <2>1, BeginOpKeeps DEF Se!Delete, Se!Actors, StoreOps
<1>4. ASSUME NEW i \in Ids, NEW a \in Stampers, Se!Touch(a, i) PROVE StoreInv'
  <2>1. StoreAlone =>
            (IF Se!Read[i] = Se!Absent THEN Se!Read ELSE [Se!Read EXCEPT ![i].stamp = 1]) \in Contents
    BY <1>1 DEF Contents
  <2>2. QED  BY <1>4, <2>1, BeginOpKeeps DEF Se!Touch, Se!Actors, StoreOps
<1>5. CASE Se!ForgetHost
  <2>1. StoreAlone => [i \in Ids |-> IF i \in Pinned THEN Se!Absent ELSE Se!Read[i]] \in Contents
    BY <1>1, TornTyped DEF Contents
  <2>2. QED  BY <1>5, <2>1, BeginOpKeeps DEF Se!ForgetHost, Se!Actors, StoreOps
<1>6. ASSUME NEW a \in Se!Actors,
             Se!Open(a) \/ Se!Fill(a) \/ Se!FillFails(a) \/ Se!Rename(a) \/ Se!RenameFails(a)
      PROVE  StoreInv'
  <2>1. v7' = v7
    BY <1>6 DEF Se!Open, Se!Fill, Se!FillFails, Se!Rename, Se!RenameFails
  <2>2. Se!FillFails(a) \/ Se!RenameFails(a) => (StoreAlone => StoreAlone')
    BY StopTmpKeeps DEF Se!FillFails, Se!RenameFails, Se!Busy
  <2>3. StoreAlone => StoreAlone'
    BY <1>6, <2>2, OpenTmpKeeps, FillTmpKeeps, RenameTmpKeeps
  <2>4. QED  BY <2>1, <2>3 DEF StoreInv
<1>7. CASE Se!Crash
  BY <1>7, CrashTmpKeeps DEF StoreInv, Se!Crash
<1>8. CASE UNCHANGED Se!vars
  BY <1>8 DEF Se!vars, StoreInv, StoreAlone, StoreTyped, OneWriter, TmpApart, WritesToTmp,
              Se!OnDisk, Se!Busy
<1>9. QED
  BY <1>2, <1>3, <1>4, <1>5, <1>6, <1>7, <1>8 DEF Se!Next

-----------------------------------------------------------------------------
(* Whatever overlaps, there is an inode nobody has in use: everybody else  *)
(* has one at most, and the file another.                                  *)
LEMMA FreshFound ==
  ASSUME Se!StoreAssumption, v2 = 0 PROVE Se!Fresh \in Se!Inodes
<1> DEFINE ons == {v4[a].on : a \in {b \in Se!Actors : Se!Busy(b)}}
           held == {v3} \cup ons
<1>1. IsFiniteSet(Se!Actors) /\ Cardinality(Se!Actors) \in Nat
  BY ActorsCounted
<1>2. IsFiniteSet({b \in Se!Actors : Se!Busy(b)})
      /\ Cardinality({b \in Se!Actors : Se!Busy(b)}) <= Cardinality(Se!Actors)
  BY <1>1, FS_Subset
<1>3. IsFiniteSet(ons) /\ Cardinality(ons) <= Cardinality({b \in Se!Actors : Se!Busy(b)})
  <2> DEFINE busy == {b \in Se!Actors : Se!Busy(b)}
             f == [b \in busy |-> v4[b].on]
  <2>1. f \in Surjection(busy, ons)
    BY DEF Surjection
  <2> HIDE DEF f, ons, busy
  <2>2. IsFiniteSet(busy)
    BY <1>2 DEF busy
  <2>3. IsFiniteSet(ons) /\ Cardinality(ons) <= Cardinality(busy)
    BY <2>1, <2>2, FS_Surjection
  <2>4. QED  BY <2>3 DEF busy
<1>4. IsFiniteSet({v3}) /\ Cardinality({v3}) = 1
  BY FS_Singleton
<1>5. IsFiniteSet(held)
  BY <1>3, <1>4, FS_Union
<1>6. Cardinality(held) <= Cardinality(Se!Actors) + 1
  <2>1. Cardinality(held) = Cardinality({v3}) + Cardinality(ons) - Cardinality({v3} \cap ons)
    BY <1>3, <1>4, FS_Union
  <2>2. IsFiniteSet({v3} \cap ons)
    BY <1>4, FS_Subset
  <2>3. Cardinality({v3} \cap ons) \in Nat /\ Cardinality(ons) \in Nat
        /\ Cardinality({b \in Se!Actors : Se!Busy(b)}) \in Nat
    BY <1>2, <1>3, <2>2, FS_CardinalityType
  <2>4. QED  BY <1>1, <1>2, <1>3, <1>4, <2>1, <2>3
<1>7. IsFiniteSet(Se!Inodes) /\ Cardinality(Se!Inodes) = Cardinality(Se!Actors) + 2
  BY <1>1, StoreCounts, FS_Interval DEF Se!Inodes
<1>8. ~(Se!Inodes \subseteq held)
  <2>1. Se!Inodes \subseteq held => Cardinality(Se!Inodes) <= Cardinality(held)
    BY <1>5, FS_Subset
  <2>2. Cardinality(held) \in Nat
    BY <1>5, FS_CardinalityType
  <2>3. QED  BY <1>1, <1>6, <1>7, <2>1, <2>2
<1>9. PICK n \in Se!Inodes : n \notin held
  BY <1>8
<1>10. n \notin Se!InUse
  <2>1. n # 0
    BY <1>1 DEF Se!Inodes
  <2>2. QED  BY <1>9, <2>1 DEF Se!InUse
<1>11. QED  BY <1>10 DEF Se!Fresh

LEMMA BeginTyped ==
  ASSUME StoreTyped, NEW a \in Se!Actors, NEW op \in StoreOps, NEW text \in Contents,
         Se!Begin(a, op, text)
  PROVE  StoreTyped'
<1>1. v4' = [v4 EXCEPT ![a] = [step |-> "read", op |-> op, text |-> text, on |-> 0]]
  BY DEF Se!Begin
<1>2. QED  BY <1>1 DEF StoreTyped, Se!Begin

LEMMA StepKeepsStoreTyped ==
  ASSUME Se!StoreAssumption, StoreTyped, [Se!Next]_(Se!vars)
  PROVE  StoreTyped'
<1>1. Se!Read \in Contents
  BY TornTyped DEF StoreTyped, Se!Read, Se!OnDisk, Se!Whole, StoreFiles
<1>2. ASSUME NEW i \in Ids, NEW form \in 1 .. Forms, Se!Add(i, form) \/ Se!Edit(i, form)
      PROVE  StoreTyped'
  <2>1. form \in 0 .. Forms
    BY DEF Se!StoreAssumption
  <2>2. /\ [Se!Read EXCEPT ![i] = [form |-> form, stamp |-> 0]] \in Contents
        /\ [Se!Read EXCEPT ![i].form = form] \in Contents
    BY <1>1, <2>1 DEF Contents
  <2>3. QED  BY <1>2, <2>2, BeginTyped DEF Se!Add, Se!Edit, Se!Actors, StoreOps
<1>3. ASSUME NEW i \in Ids, Se!Delete(i) PROVE StoreTyped'
  <2>1. [Se!Read EXCEPT ![i] = Se!Absent] \in Contents
    BY <1>1, TornTyped DEF Contents
  <2>2. QED  BY <1>3, <2>1, BeginTyped DEF Se!Delete, Se!Actors, StoreOps
<1>4. ASSUME NEW i \in Ids, NEW a \in Stampers, Se!Touch(a, i) PROVE StoreTyped'
  <2>1. (IF Se!Read[i] = Se!Absent THEN Se!Read ELSE [Se!Read EXCEPT ![i].stamp = 1]) \in Contents
    BY <1>1 DEF Contents
  <2>2. QED  BY <1>4, <2>1, BeginTyped DEF Se!Touch, Se!Actors, StoreOps
<1>5. CASE Se!ForgetHost
  <2>1. [i \in Ids |-> IF i \in Pinned THEN Se!Absent ELSE Se!Read[i]] \in Contents
    BY <1>1, TornTyped DEF Contents
  <2>2. QED  BY <1>5, <2>1, BeginTyped DEF Se!ForgetHost, Se!Actors, StoreOps
<1>6. ASSUME NEW a \in Se!Actors, Se!Open(a) PROVE StoreTyped'
  <2> DEFINE n == Se!Target
  <2>1. n \in Se!Inodes
    BY FreshFound DEF Se!Target, StoreTyped
  <2>2. /\ v1' = [v1 EXCEPT ![n] = Se!Torn] /\ v2' = n
        /\ v4' = [v4 EXCEPT ![a].step = "opened", ![a].on = n]
        /\ UNCHANGED <<v3, v6>>
    BY <1>6 DEF Se!Open
  <2> HIDE DEF n
  <2>3. v1' \in [Se!Inodes -> StoreFiles]
    BY <2>1, <2>2, TornTyped DEF StoreTyped
  <2>4. v4' \in [Se!Actors -> [step : {"idle", "read", "opened", "filled"}, op : StoreOps,
                            text : Contents, on : {0} \cup Se!Inodes]]
    BY <2>1, <2>2 DEF StoreTyped
  <2>5. QED  BY <2>1, <2>2, <2>3, <2>4 DEF StoreTyped
<1>7. ASSUME NEW a \in Se!Actors, Se!Fill(a) PROVE StoreTyped'
  <2>1. v4[a].text \in Contents
    BY DEF StoreTyped
  <2>2. Se!Whole(v4[a].text) \in StoreFiles /\ Se!Torn \in StoreFiles
    BY <2>1, TornTyped DEF Se!Whole, StoreFiles
  <2>3. PICK it \in {Se!Whole(v4[a].text), Se!Torn} : v1' = [v1 EXCEPT ![v4[a].on] = it]
    BY <1>7 DEF Se!Fill
  <2>4. v1' \in [Se!Inodes -> StoreFiles]
    BY <2>2, <2>3 DEF StoreTyped
  <2>5. v4' = [v4 EXCEPT ![a].step = "filled"] /\ UNCHANGED <<v2, v3, v6>>
    BY <1>7 DEF Se!Fill
  <2>6. QED  BY <2>4, <2>5 DEF StoreTyped
<1>8. ASSUME NEW a \in Se!Actors, Se!FillFails(a) \/ Se!Rename(a) \/ Se!RenameFails(a)
      PROVE  StoreTyped'
  <2>1. v4' = [v4 EXCEPT ![a] = Se!NoAct] /\ UNCHANGED v1
    BY <1>8 DEF Se!FillFails, Se!Rename, Se!RenameFails
  <2>2. v2' \in {0} \cup Se!Inodes /\ v3' \in {0} \cup Se!Inodes /\ v6' \in Contents
    BY <1>8 DEF Se!FillFails, Se!Rename, Se!RenameFails, StoreTyped
  <2>3. QED  BY <2>1, <2>2, TornTyped DEF StoreTyped, Se!NoAct, StoreOps
<1>9. CASE Se!Crash
  BY <1>9, TornTyped DEF Se!Crash, StoreTyped, Se!NoAct, StoreOps
<1>10. CASE UNCHANGED Se!vars
  BY <1>10 DEF Se!vars, StoreTyped
<1>11. QED
  BY <1>2, <1>3, <1>4, <1>5, <1>6, <1>7, <1>8, <1>9, <1>10 DEF Se!Next

LEMMA StoreTypesKept == ASSUME StoreTyped PROVE Se!TypeOK
BY DEF StoreTyped, Se!TypeOK, StoreFiles, Contents

-----------------------------------------------------------------------------
(* A step of Files is a step of the part that has the turn, or leaves it   *)
(* as it is.                                                               *)
AnyVars == <<vars, area, Lent>>

LEMMA SettingsSteps ==
  ASSUME [AnyNext]_AnyVars, area' = "settings" PROVE area = "settings" /\ [Se!Next]_(Se!vars)
BY DEF AnyNext, AnyVars, Lent, Se!vars

LEMMA ConnectSteps ==
  ASSUME [AnyNext]_AnyVars, area' = "connect" PROVE area = "connect" /\ [Co!Next]_(Co!vars)
BY DEF AnyNext, AnyVars, Lent, Co!vars

LEMMA RemoteSteps ==
  ASSUME [AnyNext]_AnyVars, area' = "remote" PROVE area = "remote" /\ [Rf!Next]_(Rf!vars)
BY DEF AnyNext, AnyVars, Lent, Rf!vars

LEMMA TreeSteps ==
  ASSUME [AnyNext]_AnyVars, area' = "tree" PROVE area = "tree" /\ [Tr!Next]_(Tr!vars)
BY DEF AnyNext, AnyVars, Lent, Tr!vars

LEMMA VpnSteps ==
  ASSUME [AnyNext]_AnyVars, area' = "vpn" PROVE area = "vpn" /\ [Vc!Next]_(Vc!vars)
BY DEF AnyNext, AnyVars, Lent, Vc!vars

(* The tables have no steps.                                               *)
LEMMA TablesStay ==
  ASSUME [AnyNext]_AnyVars, area' \in {"chain", "rating", "press", "advice"}
  PROVE  area = area' /\ UNCHANGED Lent
BY DEF AnyNext, AnyVars, Lent

-----------------------------------------------------------------------------
(* A settings file is as the last write left it, as long as no two         *)
(* commands write at once (private_file.rs, write).                        *)
THEOREM SettingsIntact == AnySpec => []IntactAlone
<1> DEFINE Inv == area = "settings" => StoreTyped /\ StoreInv
<1>1. AnyInit => Inv
  BY PartsAssumption, InitStoreTyped, InitStore DEF AnyInit
<1>2. Inv /\ [AnyNext]_AnyVars => Inv'
  BY PartsAssumption, SettingsSteps, StepKeepsStoreTyped, StepKeepsStore
<1>3. Inv => IntactAlone
  BY StoreTypesKept DEF IntactAlone, StoreInv, StoreAlone, Se!IntactAlone
<1>4. QED  BY <1>1, <1>2, <1>3, PTL DEF AnySpec, AnyVars

(* No credential goes to a key nobody vouched for, and none to two keys of *)
(* one algorithm but where two calls were about to learn at once, whatever *)
(* is saved, typed and presented (check_server_key, connect_host).         *)
THEOREM KeysCheckedFirst == AnySpec => []KeyBeforeCredential
<1> DEFINE Inv == area = "connect" => Co!CInv /\ Co!Outline
<1>1. AnyInit => Inv
  BY PartsAssumption, Co!InitCInv, Co!InitOutline DEF AnyInit
<1>2. Inv /\ [AnyNext]_AnyVars => Inv'
  BY PartsAssumption, ConnectSteps, Co!StepKeepsCInv, Co!StepKeepsOutline
<1>3. Inv => KeyBeforeCredential
  BY PartsAssumption, Co!TypesFollow
     DEF KeyBeforeCredential, Co!CInv, Co!SentRight, Co!Sole, Co!KeyBeforeCredential
<1>4. QED  BY <1>1, <1>2, <1>3, PTL DEF AnySpec, AnyVars

(* A password its target refused is forgotten (connect_host).              *)
THEOREM RefusedForgotten == AnySpec => []RefusedNotKept
<1> DEFINE Inv == area = "connect" => Co!CInv
<1>1. AnyInit => Inv
  BY PartsAssumption, Co!InitCInv DEF AnyInit
<1>2. Inv /\ [AnyNext]_AnyVars => Inv'
  BY PartsAssumption, ConnectSteps, Co!StepKeepsCInv
<1>3. Inv => RefusedNotKept
  BY DEF Co!CInv, RefusedNotKept
<1>4. QED  BY <1>1, <1>2, <1>3, PTL DEF AnySpec, AnyVars

(* A walk that has ended took files it reached through folders, no two of  *)
(* them to one place on this machine, and accounts for every file below    *)
(* its folder, in whatever tree and whatever a listing leaves out          *)
(* (walk, list_dir, enqueue_download).                                     *)
THEOREM WalksMirrorTrees == AnySpec => []MirrorsTheTree
<1> DEFINE Inv == area = "tree" => Tr!WalkInv
<1>1. AnyInit => Inv
  BY PartsAssumption, Tr!InitWalk DEF AnyInit
<1>2. Inv /\ [AnyNext]_AnyVars => Inv'
  BY PartsAssumption, TreeSteps, Tr!StepKeepsWalk
<1>3. Inv => MirrorsTheTree
  BY PartsAssumption, Tr!WalkMirrors DEF MirrorsTheTree
<1>4. QED  BY <1>1, <1>2, <1>3, PTL DEF AnySpec, AnyVars

(* The walk of jump hosts finds the chain there is, or says why there is   *)
(* none, for every store and every limit (resolve in remote/jump.rs).      *)
THEOREM ChainsAreFound == AnySpec => []Resolves
<1> DEFINE Inv == area = "chain" => v1 \in Stores /\ v2 \in DOMAIN v1 /\ v3 \in HopLimits
<1>1. AnyInit => Inv
  BY DEF AnyInit
<1>2. Inv /\ [AnyNext]_AnyVars => Inv'
  BY TablesStay DEF Lent
<1>3. Inv => Resolves
  BY PartsAssumption, Co!ChainIsFound DEF Resolves
<1>4. QED  BY <1>1, <1>2, <1>3, PTL DEF AnySpec, AnyVars

(* An upload that is done has sent the whole file, wherever on the host it *)
(* has been moved to, whatever others do there (upload, verify_length).    *)
THEOREM UploadsAreWhole == AnySpec => []DoneIsWhole
<1> DEFINE Inv == area = "remote" => RemoteInv
<1>1. AnyInit => Inv
  BY InitRemote DEF AnyInit
<1>2. Inv /\ [AnyNext]_AnyVars => Inv'
  BY RemoteSteps, StepKeepsRemote
<1>3. Inv => DoneIsWhole
  BY DEF DoneIsWhole, Rf!DoneIsWhole, RemoteInv, Brings, Unmixed
<1>4. QED  BY <1>1, <1>2, <1>3, PTL DEF AnySpec, AnyVars

(* What a forced call is given was read from the client after the call     *)
(* asked, or by a load that was under way then and had not come in,        *)
(* however many ask at once and whoever loads (get).                       *)
THEOREM ForcedIsFreshUnlessShared == AnySpec => []FreshUnlessShared
<1> DEFINE Inv == area = "vpn" => VpnInv
<1>1. AnyInit => Inv
  BY InitVpn DEF AnyInit
<1>2. Inv /\ [AnyNext]_AnyVars => Inv'
  BY VpnSteps, StepKeepsVpn
<1>3. Inv => FreshUnlessShared
  BY DEF FreshUnlessShared, VpnInv, CallsFit
<1>4. QED  BY <1>1, <1>2, <1>3, PTL DEF AnySpec, AnyVars

(* The glyph of an address and the advice about it blame the same VPN, and *)
(* one that is down, whatever the clients answer and whatever resources    *)
(* are listed (bind, explain_unreachable).                                 *)
THEOREM OwnersAreBlamed == AnySpec => []BlamesTheOwner
<1>1. BlamesTheOwner
  BY BlameIsOwned DEF BlamesTheOwner, Vp!BlamesTheOwner
<1>2. QED  BY <1>1, PTL

(* Two commands joined by a separator lose no reason but those of          *)
(* recursive deletes, and the first that of ownership if the separator is  *)
(* glued to it; and no text is rated lower for a host nobody knows,        *)
(* whatever the commands are (normalise, assess).                          *)
THEOREM CommandsKeepReasons == AnySpec => []BothAreAssessed
<1> DEFINE Inv == area = "rating" =>
                    /\ v2 \in Commands /\ v4 \in Commands
                    /\ v3 \in {"glued", "line", "&&", ";", "|"}
<1>1. AnyInit => Inv
  BY Zenon DEF AnyInit
<1>2. Inv /\ [AnyNext]_AnyVars => Inv'
  BY TablesStay, Zenon DEF Lent
<1>3. Inv => BothAreAssessed
  <2> SUFFICES ASSUME Inv, area = "rating" PROVE Da!BothAreAssessed(v1, v2, v3, v4)
    BY DEF BothAreAssessed
  <2>1. v2 \in Seq(Da!Words) /\ v2 # <<>> /\ v4 \in Seq(Da!Words) /\ v4 # <<>>
    BY PartsAssumption
  <2>2. QED
    BY <2>1, CommandsAssessed, Zenon
<1>4. QED  BY <1>1, <1>2, <1>3, PTL DEF AnySpec, AnyVars

(* What a host is offered is what may start on it, what starts runs as     *)
(* root exactly when it is said to, and no task is blocked on a host that  *)
(* could be saved with none in context, for every catalog and every list   *)
(* of saved tasks (list_host_tasks, resolve, plan, start_task).            *)
THEOREM OffersStart == AnySpec => []StartsAsOffered
<1> DEFINE Inv == area = "press" => v1 \in Presses
<1>1. AnyInit => Inv
  BY DEF AnyInit
<1>2. Inv /\ [AnyNext]_AnyVars => Inv'
  BY TablesStay DEF Lent
<1>3. Inv => StartsAsOffered
  <2> SUFFICES ASSUME Inv, area = "press"
               PROVE  /\ Ta!OfferedIsResolved(Catalog, v1.saved, v1.host, v1.os)
                      /\ Ta!StartsAsSaid(Catalog, v1.saved, v1.host, v1.os, v1.elevation,
                                         v1.asked, v1.blockFrom)
    BY DEF StartsAsOffered
  <2>1. PICK press \in Presses : press = v1
    OBVIOUS
  <2>2. /\ press.blockFrom \in Nat /\ DOMAIN press.saved \subseteq Nat
        /\ \A i \in DOMAIN press.saved : press.saved[i].elevated \in BOOLEAN
        /\ \A i, j \in DOMAIN press.saved :
             press.saved[i].id = press.saved[j].id => i = j
        /\ \A i \in DOMAIN press.saved, b \in Catalog : press.saved[i].id # b.id
    BY PartsAssumption DEF PressAssumption
  <2>3. Ta!OfferedIsResolved(Catalog, press.saved, press.host, press.os)
    BY <2>2, OfferedResolves
  <2>4. Ta!StartsAsSaid(Catalog, press.saved, press.host, press.os, press.elevation,
                        press.asked, press.blockFrom)
    BY <2>2, StartsSaid
  <2>5. QED
    BY <2>1, <2>3, <2>4, Zenon
<1>4. QED  BY <1>1, <1>2, <1>3, PTL DEF AnySpec, AnyVars
=============================================================================

--------------------------- MODULE Library_proofs ---------------------------
(***************************************************************************)
(* The library's parts for any keys, shards, days, loggers, capacities and *)
(* limits: an iteration of the table returns shards as they were; no line  *)
(* of the log file is lost to its rotation or written twice; what is       *)
(* pending when the logger is flushed reaches the files; the values of a   *)
(* call cross and cross back; and packs are read as they were written.     *)
(***************************************************************************)
EXTENDS TLAPS, FiniteSetTheorems, SequenceTheorems, WellFoundedInduction, Library

-----------------------------------------------------------------------------
\* The table.

MapTypes ==
    /\ items = [k \in DOMAIN items |-> items[k]] /\ DOMAIN items \subseteq Keys
    /\ DOMAIN sized \subseteq Shards /\ DOMAIN chans \subseteq DOMAIN sized
    /\ during = [s \in Shards |-> during[s]]

\* A shard is locked from the sizing of its channel to the filling, so that its contents are
\* still as many then.
Locked ==
    /\ rlocked = DOMAIN sized \ DOMAIN chans
    /\ \A s \in rlocked : sized[s] = Cardinality(DOMAIN Map!Contents(items, s))

\* What a shard holds while the iteration is under way is among what it held meanwhile.
Recorded ==
    /\ iterating = "no" => DOMAIN sized = {}
    /\ iterating \in {"snapshot", "fanIn"} =>
           \A s \in Shards : Map!Contents(items, s) \in during[s]
    /\ iterating \notin {"no", "snapshot", "fanIn"} => DOMAIN chans = Shards
    /\ \A s \in DOMAIN chans : chans[s] \in during[s]

MapInv == MapTypes /\ Locked /\ Recorded

ChangedOnlyAt(k, m) ==
    /\ m = [j \in DOMAIN m |-> m[j]] /\ DOMAIN m \subseteq Keys
    /\ DOMAIN m \ {k} = DOMAIN items \ {k}
    /\ \A j \in DOMAIN items \ {k} : m[j] = items[j]

LEMMA SizeOfMap == ASSUME NEW S PROVE Map!Cardinality(S) = Cardinality(S)
BY DEF Map!Cardinality, Cardinality

LEMMA OtherShards ==
    ASSUME NEW k \in Keys, NEW m, ChangedOnlyAt(k, m), NEW s \in Shards, GetShard[k] # s
    PROVE  Map!Contents(m, s) = Map!Contents(items, s)
<1>1. DOMAIN m \cap Map!KeysOf(s) = DOMAIN items \cap Map!KeysOf(s)
    BY DEF ChangedOnlyAt, Map!KeysOf
<1>2. \A j \in DOMAIN m \cap Map!KeysOf(s) : m[j] = items[j]
    BY DEF ChangedOnlyAt, Map!KeysOf
<1> QED BY <1>1, <1>2 DEF Map!Contents, Map!Restrict

LEMMA ChangeKeeps ==
    ASSUME MapInv, NEW k \in Keys, NEW m, ChangedOnlyAt(k, m), Map!Change(k, m)
    PROVE  MapInv'
<1> USE DEF Map!Change
<1>1. GetShard[k] \in Shards
    BY LibraryAssumption DEF LibraryAssumption
<1>2. MapTypes'
    BY <1>1 DEF MapInv, MapTypes, ChangedOnlyAt
<1>3. Locked'
  <2>1. ASSUME NEW s \in rlocked
        PROVE  Map!Contents(items, s)' = Map!Contents(items, s)
      <3>1. s \in Shards /\ GetShard[k] # s
          BY <2>1 DEF MapInv, MapTypes, Locked
      <3>2. Map!Contents(m, s) = Map!Contents(items, s)
          BY <3>1, OtherShards
      <3> QED BY <3>2 DEF Map!Contents
  <2> QED BY <2>1 DEF MapInv, Locked
<1>4. Recorded'
  <2>1. \A s \in Shards : during[s] \subseteq during'[s]
      BY DEF MapInv, MapTypes
  <2>2. ASSUME iterating \in {"snapshot", "fanIn"}, NEW s \in Shards
        PROVE  Map!Contents(items, s)' \in during'[s]
      <3>1. CASE s = GetShard[k]
          BY <1>1, <2>2, <3>1 DEF MapInv, MapTypes, Map!Contents
      <3>2. CASE s # GetShard[k]
          <4>1. Map!Contents(m, s) = Map!Contents(items, s)
              BY <3>2, OtherShards
          <4> QED BY <4>1, <2>1, <2>2 DEF MapInv, Recorded, Map!Contents
      <3> QED BY <3>1, <3>2
  <2> QED BY <2>1, <2>2 DEF MapInv, MapTypes, Recorded
<1> QED BY <1>2, <1>3, <1>4 DEF MapInv

LEMMA MapInitially == Map!Init => MapInv
<1> SUFFICES ASSUME Map!Init PROVE MapInv
    OBVIOUS
<1>1. PICK ks \in SUBSET Keys : items \in [ks -> Vals]
    BY DEF Map!Init
<1>2. sized = <<>> /\ chans = <<>> /\ DOMAIN sized = {} /\ DOMAIN chans = {}
    BY DEF Map!Init
<1> QED BY <1>1, <1>2 DEF Map!Init, MapInv, MapTypes, Locked, Recorded

LEMMA MapStepKeeps == MapInv /\ [Map!Next]_(Map!mapVars) => MapInv'
<1> SUFFICES ASSUME MapInv, [Map!Next]_(Map!mapVars) PROVE MapInv'
    OBVIOUS
<1>1. ASSUME NEW k \in Keys, NEW v \in Vals,
             Map!Set(k, v) \/ Map!SetIfAbsent(k, v) \/ Map!Upsert(k, v)
      PROVE  MapInv'
  <2>1. \A w : ChangedOnlyAt(k, Map!With(k, w))
      BY DEF MapInv, MapTypes, ChangedOnlyAt, Map!With
  <2>2. ChangedOnlyAt(k, items)
      BY DEF MapInv, MapTypes, ChangedOnlyAt
  <2>3. CASE Map!Set(k, v)
      BY <2>1, <2>3, ChangeKeeps DEF Map!Set
  <2>4. CASE Map!SetIfAbsent(k, v)
      <3>1. ChangedOnlyAt(k, IF k \in DOMAIN items THEN items ELSE Map!With(k, v))
          BY <2>1, <2>2
      <3> QED BY <2>4, <3>1, ChangeKeeps DEF Map!SetIfAbsent
  <2>5. CASE Map!Upsert(k, v)
      BY <2>1, <2>5, ChangeKeeps DEF Map!Upsert
  <2> QED BY <1>1, <2>3, <2>4, <2>5
<1>2. ASSUME NEW k \in Keys, Map!Remove(k) \/ Map!RemoveCb(k)
      PROVE  MapInv'
  <2>1. ChangedOnlyAt(k, Map!Without(k))
      BY DEF MapInv, MapTypes, ChangedOnlyAt, Map!Without, Map!Restrict
  <2>2. ChangedOnlyAt(k, items)
      BY DEF MapInv, MapTypes, ChangedOnlyAt
  <2>3. CASE Map!Remove(k)
      BY <2>1, <2>3, ChangeKeeps DEF Map!Remove
  <2>4. CASE Map!RemoveCb(k)
      <3>1. PICK remove \in BOOLEAN : Map!Change(k, IF remove THEN Map!Without(k) ELSE items)
          BY <2>4 DEF Map!RemoveCb
      <3>2. ChangedOnlyAt(k, IF remove THEN Map!Without(k) ELSE items)
          BY <2>1, <2>2
      <3> QED BY <3>1, <3>2, ChangeKeeps
  <2> QED BY <1>2, <2>3, <2>4
<1>3. CASE Map!IterBuffered
    BY <1>3 DEF Map!IterBuffered, MapInv, MapTypes, Locked, Recorded, Map!Contents
<1>4. CASE Map!Snapshot
    BY <1>4 DEF Map!Snapshot, MapInv, MapTypes, Locked, Recorded, Map!Contents
<1>5. CASE Map!FanIn
    BY <1>5 DEF Map!FanIn, MapInv, MapTypes, Locked, Recorded, Map!Contents
<1>6. ASSUME NEW s \in Shards, Map!Size(s)
      PROVE  MapInv'
  <2> USE <1>6 DEF Map!Size
  <2>1. \A t : Map!Contents(items, t)' = Map!Contents(items, t)
      BY DEF Map!Contents
  <2>2. IsFiniteSet(DOMAIN Map!Contents(items, s))
    <3>1. DOMAIN Map!Contents(items, s) \subseteq Keys
        BY DEF MapInv, MapTypes, Map!Contents, Map!Restrict
    <3> QED BY <3>1, FS_Subset, LibraryAssumption DEF LibraryAssumption
  <2>3. sized'[s] = Cardinality(DOMAIN Map!Contents(items, s))
      BY <2>2, SizeOfMap
  <2>4. DOMAIN sized' = DOMAIN sized \cup {s} /\ \A t \in DOMAIN sized : sized'[t] = sized[t]
      OBVIOUS
  <2>5. MapTypes'
      BY <2>4 DEF MapInv, MapTypes
  <2>6. Locked'
      BY <2>1, <2>3, <2>4 DEF MapInv, MapTypes, Locked
  <2>7. Recorded'
      BY <2>1, <2>4 DEF MapInv, Recorded
  <2> QED BY <2>5, <2>6, <2>7 DEF MapInv
<1>7. ASSUME NEW s \in Shards, Map!Fill(s)
      PROVE  MapInv'
  <2> USE <1>7 DEF Map!Fill
  <2>1. \A t : Map!Contents(items, t)' = Map!Contents(items, t)
      BY DEF Map!Contents
  <2>2. /\ DOMAIN chans' = DOMAIN chans \cup {s}
        /\ chans'[s] = Map!Contents(items, s)
        /\ \A t \in DOMAIN chans : chans'[t] = chans[t]
      OBVIOUS
  <2>3. MapTypes'
      BY <2>2 DEF MapInv, MapTypes
  <2>4. Locked'
      BY <2>1, <2>2 DEF MapInv, MapTypes, Locked
  <2>5. iterating \in {"snapshot", "fanIn"}
      BY DEF MapInv, MapTypes, Recorded
  <2>6. Recorded'
      BY <2>1, <2>2, <2>5 DEF MapInv, Recorded
  <2> QED BY <2>3, <2>4, <2>6 DEF MapInv
<1>8. CASE UNCHANGED Map!mapVars
    BY <1>8 DEF Map!mapVars, MapInv, MapTypes, Locked, Recorded, Map!Contents
<1> QED BY <1>1, <1>2, <1>3, <1>4, <1>5, <1>6, <1>7, <1>8 DEF Map!Next

LEMMA MapHolds == Spec => []MapInv
<1>1. Init => MapInv
    BY MapInitially DEF Init
<1>2. MapInv /\ [Next]_vars => MapInv'
  <2> SUFFICES ASSUME MapInv, [Next]_vars PROVE MapInv'
      OBVIOUS
  <2>1. [Map!Next]_(Map!mapVars)
      BY DEF Next, CodecStep, ValueStep, LogStep, FileStep, MapStep, vars, mapVars, Map!mapVars
  <2> QED BY <2>1, MapStepKeeps
<1> QED BY <1>1, <1>2, PTL DEF Spec

\* An iteration over the table (IterBuffered and Items of the concurrent map) yields of every
\* shard what it held at one moment of the iteration, and its goroutines never wait for room.
THEOREM ShardsAsTheyWere == Spec => []ItemsSound
<1>1. MapInv => ItemsSound
  <2> SUFFICES ASSUME MapInv PROVE ItemsSound
      OBVIOUS
  <2>1. ASSUME NEW s \in DOMAIN sized \ DOMAIN chans
        PROVE  Map!Cardinality(DOMAIN Map!Contents(items, s)) <= sized[s]
    <3>1. DOMAIN Map!Contents(items, s) \subseteq Keys
        BY DEF MapInv, MapTypes, Map!Contents, Map!Restrict
    <3>2. IsFiniteSet(DOMAIN Map!Contents(items, s))
        BY <3>1, FS_Subset, LibraryAssumption DEF LibraryAssumption
    <3>3. /\ sized[s] = Cardinality(DOMAIN Map!Contents(items, s))
          /\ Map!Cardinality(DOMAIN Map!Contents(items, s)) = sized[s]
        BY <3>2, SizeOfMap DEF MapInv, Locked
    <3>4. sized[s] \in Nat
        BY <3>2, <3>3, FS_CardinalityType
    <3> QED BY <3>3, <3>4
  <2> QED BY <2>1 DEF ItemsSound, Map!ItemsSound, MapInv, Recorded
<1> QED BY <1>1, MapHolds, PTL

-----------------------------------------------------------------------------
\* The log file.

\* The files there are, and the lines of each, by the contents of the current one and the
\* table of the others.
FilesOf(cur, arch) == (IF cur = File!Missing THEN {} ELSE {File!Current}) \cup DOMAIN arch
LinesOf(cur, arch, f) == IF f = File!Current THEN cur ELSE arch[f].lines

IsFile(lines, n) == lines \in Seq(Nat) /\ Len(lines) <= n

\* Of n messages every one that is not gone is in one file at one place.
Kept(cur, arch, n, gone) ==
    /\ cur = File!Missing \/ IsFile(cur, n)
    /\ arch = [f \in DOMAIN arch |-> arch[f]]
    /\ \A f \in DOMAIN arch : f # File!Current /\ IsFile(arch[f].lines, n)
    /\ gone \subseteq 1 .. n
    /\ \A f \in FilesOf(cur, arch) : \A i \in 1 .. Len(LinesOf(cur, arch, f)) :
            LinesOf(cur, arch, f)[i] \in (1 .. n) \ gone
    /\ \A f, g \in FilesOf(cur, arch) :
         \A i \in 1 .. Len(LinesOf(cur, arch, f)), j \in 1 .. Len(LinesOf(cur, arch, g)) :
            LinesOf(cur, arch, f)[i] = LinesOf(cur, arch, g)[j] => f = g /\ i = j
    /\ \A m \in (1 .. n) \ gone :
         \E f \in FilesOf(cur, arch) : \E i \in 1 .. Len(LinesOf(cur, arch, f)) :
            LinesOf(cur, arch, f)[i] = m

LEMMA MissingIsNoFile == ASSUME NEW n PROVE ~IsFile(File!Missing, n)
BY DEF IsFile, File!Missing

\* The file is created.
LEMMA Created ==
    ASSUME NEW arch, NEW n \in Nat, NEW gone, Kept(File!Missing, arch, n, gone)
    PROVE  Kept(<<>>, arch, n, gone)
<1>1. <<>> # File!Missing /\ <<>> \in Seq(Nat) /\ Len(<<>>) = 0
    BY DEF File!Missing
<1>2. /\ FilesOf(<<>>, arch) = FilesOf(File!Missing, arch) \cup {File!Current}
      /\ File!Current \notin FilesOf(File!Missing, arch)
    BY <1>1 DEF FilesOf, Kept
<1>3. \A f \in FilesOf(File!Missing, arch) :
        LinesOf(<<>>, arch, f) = LinesOf(File!Missing, arch, f)
    BY <1>2 DEF LinesOf
<1>4. LinesOf(<<>>, arch, File!Current) = <<>>
    BY DEF LinesOf
<1>5. IsFile(<<>>, n)
    BY <1>1 DEF IsFile
<1>6. \A f \in FilesOf(<<>>, arch) : \A i \in 1 .. Len(LinesOf(<<>>, arch, f)) :
        /\ f \in FilesOf(File!Missing, arch)
        /\ LinesOf(<<>>, arch, f) = LinesOf(File!Missing, arch, f)
    BY <1>1, <1>2, <1>3, <1>4
<1>7. \A f, g \in FilesOf(<<>>, arch) :
         \A i \in 1 .. Len(LinesOf(<<>>, arch, f)), j \in 1 .. Len(LinesOf(<<>>, arch, g)) :
            LinesOf(<<>>, arch, f)[i] = LinesOf(<<>>, arch, g)[j] => f = g /\ i = j
    BY <1>6 DEF Kept
<1>8. \A f \in FilesOf(<<>>, arch) : \A i \in 1 .. Len(LinesOf(<<>>, arch, f)) :
            LinesOf(<<>>, arch, f)[i] \in (1 .. n) \ gone
    BY <1>6 DEF Kept
<1>9. \A m \in (1 .. n) \ gone :
         \E f \in FilesOf(<<>>, arch) : \E i \in 1 .. Len(LinesOf(<<>>, arch, f)) :
            LinesOf(<<>>, arch, f)[i] = m
    BY <1>2, <1>3 DEF Kept
<1> QED BY <1>5, <1>7, <1>8, <1>9 DEF Kept

\* The file is renamed.
LEMMA Renamed ==
    ASSUME NEW cur, NEW arch, NEW n \in Nat, NEW gone, Kept(cur, arch, n, gone),
           cur # File!Missing, NEW name, name \notin DOMAIN arch, name # File!Current,
           NEW arch2, arch2 = [f \in DOMAIN arch2 |-> arch2[f]],
           DOMAIN arch2 = DOMAIN arch \cup {name}, arch2[name].lines = cur,
           \A f \in DOMAIN arch : arch2[f] = arch[f]
    PROVE  Kept(File!Missing, arch2, n, gone)
<1>1. /\ FilesOf(cur, arch) = DOMAIN arch \cup {File!Current}
      /\ FilesOf(File!Missing, arch2) = DOMAIN arch \cup {name}
      /\ File!Current \notin DOMAIN arch
    BY DEF FilesOf, Kept
<1>2. \A f \in DOMAIN arch : LinesOf(File!Missing, arch2, f) = LinesOf(cur, arch, f)
    BY <1>1 DEF LinesOf
<1>3. LinesOf(File!Missing, arch2, name) = LinesOf(cur, arch, File!Current)
    BY DEF LinesOf
<1>4. \A f \in DOMAIN arch2 : f # File!Current /\ IsFile(arch2[f].lines, n)
    BY DEF Kept
<1>5. \A m \in (1 .. n) \ gone :
         \E f \in FilesOf(File!Missing, arch2) :
            \E i \in 1 .. Len(LinesOf(File!Missing, arch2, f)) :
                LinesOf(File!Missing, arch2, f)[i] = m
  <2> SUFFICES ASSUME NEW m \in (1 .. n) \ gone
               PROVE  \E f \in FilesOf(File!Missing, arch2) :
                        \E i \in 1 .. Len(LinesOf(File!Missing, arch2, f)) :
                            LinesOf(File!Missing, arch2, f)[i] = m
      OBVIOUS
  <2>1. PICK f \in FilesOf(cur, arch) : \E i \in 1 .. Len(LinesOf(cur, arch, f)) :
                LinesOf(cur, arch, f)[i] = m
      BY DEF Kept
  <2>2. CASE f = File!Current
      BY <1>1, <1>3, <2>1, <2>2
  <2>3. CASE f \in DOMAIN arch
      BY <1>1, <1>2, <2>1, <2>3
  <2> QED BY <1>1, <2>1, <2>2, <2>3
<1>6. \A f \in FilesOf(File!Missing, arch2) :
        \E g \in FilesOf(cur, arch) :
            /\ LinesOf(File!Missing, arch2, f) = LinesOf(cur, arch, g)
            /\ g = IF f = name THEN File!Current ELSE f
    BY <1>1, <1>2, <1>3
<1>7. \A f \in FilesOf(File!Missing, arch2) :
        \A i \in 1 .. Len(LinesOf(File!Missing, arch2, f)) :
            LinesOf(File!Missing, arch2, f)[i] \in (1 .. n) \ gone
  <2> SUFFICES ASSUME NEW f \in FilesOf(File!Missing, arch2),
                      NEW i \in 1 .. Len(LinesOf(File!Missing, arch2, f))
               PROVE  LinesOf(File!Missing, arch2, f)[i] \in (1 .. n) \ gone
      OBVIOUS
  <2>1. PICK g \in FilesOf(cur, arch) : LinesOf(File!Missing, arch2, f) = LinesOf(cur, arch, g)
      BY <1>6
  <2> QED BY <2>1 DEF Kept
<1>8. File!Current \notin FilesOf(File!Missing, arch2)
    BY <1>1
<1>9. ASSUME NEW f \in FilesOf(File!Missing, arch2), NEW g \in FilesOf(File!Missing, arch2),
             NEW i \in 1 .. Len(LinesOf(File!Missing, arch2, f)),
             NEW j \in 1 .. Len(LinesOf(File!Missing, arch2, g)),
             LinesOf(File!Missing, arch2, f)[i] = LinesOf(File!Missing, arch2, g)[j]
      PROVE  f = g /\ i = j
  <2>1. PICK f1 \in FilesOf(cur, arch) :
            /\ LinesOf(File!Missing, arch2, f) = LinesOf(cur, arch, f1)
            /\ f1 = IF f = name THEN File!Current ELSE f
      BY <1>6
  <2>2. PICK g1 \in FilesOf(cur, arch) :
            /\ LinesOf(File!Missing, arch2, g) = LinesOf(cur, arch, g1)
            /\ g1 = IF g = name THEN File!Current ELSE g
      BY <1>6
  <2>3. f1 = g1 /\ i = j
      BY <1>9, <2>1, <2>2 DEF Kept
  <2>4. f # File!Current /\ g # File!Current
      BY <1>9, <1>8
  <2>5. f = g
      BY <2>1, <2>2, <2>3, <2>4
  <2> QED BY <2>3, <2>5
<1>10. arch2 = [f \in DOMAIN arch2 |-> arch2[f]] /\ gone \subseteq 1 .. n
    BY DEF Kept
<1> QED BY <1>4, <1>5, <1>7, <1>8, <1>9, <1>10 DEF Kept

\* A message is written to the file ...
LEMMA Appended ==
    ASSUME NEW cur, NEW arch, NEW n \in Nat, NEW gone, Kept(cur, arch, n, gone),
           cur # File!Missing
    PROVE  Kept(Append(cur, n + 1), arch, n + 1, gone)
<1> DEFINE new == Append(cur, n + 1)
<1>1. cur \in Seq(Nat) /\ Len(cur) <= n /\ Len(cur) \in Nat
    BY DEF Kept, IsFile
<1>2. /\ new \in Seq(Nat) /\ Len(new) = Len(cur) + 1 /\ new[Len(cur) + 1] = n + 1
      /\ \A i \in 1 .. Len(cur) : new[i] = cur[i]
    BY <1>1
<1>3. new # File!Missing
  <2>1. new[1] \in Nat
      BY <1>1, <1>2
  <2> HIDE DEF new
  <2> QED BY <2>1 DEF File!Missing
<1>4. FilesOf(new, arch) = FilesOf(cur, arch) /\ File!Current \in FilesOf(cur, arch)
    BY <1>3 DEF FilesOf
<1>5. \A f \in FilesOf(cur, arch) \ {File!Current} : LinesOf(new, arch, f) = LinesOf(cur, arch, f)
    BY DEF LinesOf
<1>6. LinesOf(new, arch, File!Current) = new /\ LinesOf(cur, arch, File!Current) = cur
    BY DEF LinesOf
<1> HIDE DEF new
<1>7. \A f \in FilesOf(cur, arch) : Len(LinesOf(cur, arch, f)) \in Nat
    BY <1>1 DEF FilesOf, LinesOf, Kept, IsFile
<1>8. IsFile(new, n + 1) /\ \A f \in DOMAIN arch : IsFile(arch[f].lines, n + 1)
    BY <1>1, <1>2 DEF Kept, IsFile
<1>9. \A f \in FilesOf(cur, arch) : \A i \in 1 .. Len(LinesOf(new, arch, f)) :
        \/ /\ i \in 1 .. Len(LinesOf(cur, arch, f))
           /\ LinesOf(new, arch, f)[i] = LinesOf(cur, arch, f)[i]
        \/ f = File!Current /\ i = Len(cur) + 1 /\ LinesOf(new, arch, f)[i] = n + 1
  <2> SUFFICES ASSUME NEW f \in FilesOf(cur, arch), NEW i \in 1 .. Len(LinesOf(new, arch, f))
               PROVE  \/ /\ i \in 1 .. Len(LinesOf(cur, arch, f))
                         /\ LinesOf(new, arch, f)[i] = LinesOf(cur, arch, f)[i]
                      \/ /\ f = File!Current /\ i = Len(cur) + 1
                         /\ LinesOf(new, arch, f)[i] = n + 1
      OBVIOUS
  <2>1. CASE f = File!Current
      BY <1>1, <1>2, <1>6, <2>1
  <2>2. CASE f # File!Current
      BY <1>5, <2>2
  <2> QED BY <2>1, <2>2
<1>10. \A f \in FilesOf(cur, arch) : \A i \in 1 .. Len(LinesOf(cur, arch, f)) :
        /\ i \in 1 .. Len(LinesOf(new, arch, f))
        /\ LinesOf(new, arch, f)[i] = LinesOf(cur, arch, f)[i]
        /\ LinesOf(cur, arch, f)[i] \in (1 .. n) \ gone
  <2> SUFFICES ASSUME NEW f \in FilesOf(cur, arch), NEW i \in 1 .. Len(LinesOf(cur, arch, f))
               PROVE  /\ i \in 1 .. Len(LinesOf(new, arch, f))
                      /\ LinesOf(new, arch, f)[i] = LinesOf(cur, arch, f)[i]
                      /\ LinesOf(cur, arch, f)[i] \in (1 .. n) \ gone
      OBVIOUS
  <2>1. LinesOf(cur, arch, f)[i] \in (1 .. n) \ gone
      BY DEF Kept
  <2>2. CASE f = File!Current
      BY <1>1, <1>2, <1>6, <2>1, <2>2
  <2>3. CASE f # File!Current
      BY <1>5, <2>1, <2>3
  <2> QED BY <2>2, <2>3
<1>11. gone \subseteq 1 .. n + 1 /\ n + 1 \notin gone
    BY DEF Kept
<1>12. ASSUME NEW f \in FilesOf(cur, arch), NEW i \in 1 .. Len(LinesOf(new, arch, f))
       PROVE  LinesOf(new, arch, f)[i] \in (1 .. n + 1) \ gone
    BY <1>9, <1>10, <1>11
<1>13. ASSUME NEW f \in FilesOf(cur, arch), NEW g \in FilesOf(cur, arch),
              NEW i \in 1 .. Len(LinesOf(new, arch, f)), NEW j \in 1 .. Len(LinesOf(new, arch, g)),
              LinesOf(new, arch, f)[i] = LinesOf(new, arch, g)[j]
       PROVE  f = g /\ i = j
  <2>1. \A h \in FilesOf(cur, arch) : \A k \in 1 .. Len(LinesOf(cur, arch, h)) :
            LinesOf(cur, arch, h)[k] # n + 1
      BY <1>10
  <2> QED BY <1>9, <1>13, <2>1 DEF Kept
<1>14. ASSUME NEW m \in (1 .. n + 1) \ gone
       PROVE  \E f \in FilesOf(cur, arch) : \E i \in 1 .. Len(LinesOf(new, arch, f)) :
                  LinesOf(new, arch, f)[i] = m
  <2>1. CASE m = n + 1
      BY <1>1, <1>2, <1>4, <1>6, <2>1
  <2>2. CASE m # n + 1
    <3>1. m \in (1 .. n) \ gone
        BY <2>2
    <3>2. PICK f \in FilesOf(cur, arch) : \E i \in 1 .. Len(LinesOf(cur, arch, f)) :
                LinesOf(cur, arch, f)[i] = m
        BY <3>1 DEF Kept
    <3> QED BY <3>2, <1>10
  <2> QED BY <2>1, <2>2
<1>15. Kept(new, arch, n + 1, gone)
  <2>1. arch = [f \in DOMAIN arch |-> arch[f]] /\ \A f \in DOMAIN arch : f # File!Current
      BY DEF Kept
  <2> QED BY <1>4, <1>8, <1>11, <1>12, <1>13, <1>14, <2>1 DEF Kept
<1> QED BY <1>15 DEF new

\* ... or to one that is not there any more.
LEMMA Orphaned ==
    ASSUME NEW cur, NEW arch, NEW n \in Nat, NEW gone, Kept(cur, arch, n, gone)
    PROVE  Kept(cur, arch, n + 1, gone \cup {n + 1})
<1>1. (1 .. n + 1) \ (gone \cup {n + 1}) = (1 .. n) \ gone
    BY DEF Kept
<1>2. \A lines : IsFile(lines, n) => IsFile(lines, n + 1)
  <2> SUFFICES ASSUME NEW lines, IsFile(lines, n) PROVE IsFile(lines, n + 1)
      OBVIOUS
  <2>1. Len(lines) \in Nat
      BY DEF IsFile
  <2> QED BY <2>1 DEF IsFile
<1>3. gone \cup {n + 1} \subseteq 1 .. n + 1
    BY DEF Kept
<1> QED BY <1>1, <1>2, <1>3 DEF Kept

\* Files are deleted with the lines they have.
Going(cur, arch, cur2, arch2) ==
    UNION {{LinesOf(cur, arch, f)[i] : i \in 1 .. Len(LinesOf(cur, arch, f))} :
                f \in FilesOf(cur, arch) \ FilesOf(cur2, arch2)}

LEMMA Deleted ==
    ASSUME NEW cur, NEW arch, NEW n \in Nat, NEW gone, Kept(cur, arch, n, gone),
           NEW cur2 \in {cur, File!Missing}, NEW arch2,
           arch2 = [f \in DOMAIN arch2 |-> arch[f]], DOMAIN arch2 \subseteq DOMAIN arch
    PROVE  Kept(cur2, arch2, n, gone \cup Going(cur, arch, cur2, arch2))
<1> DEFINE gone2 == gone \cup Going(cur, arch, cur2, arch2)
<1>0. \A m : m \in gone2 <=>
        \/ m \in gone
        \/ \E f \in FilesOf(cur, arch) \ FilesOf(cur2, arch2) :
             \E i \in 1 .. Len(LinesOf(cur, arch, f)) : m = LinesOf(cur, arch, f)[i]
    BY DEF Going
<1> HIDE DEF gone2
<1>1. FilesOf(cur2, arch2) \subseteq FilesOf(cur, arch)
    BY DEF FilesOf
<1>2. \A f \in FilesOf(cur2, arch2) : LinesOf(cur2, arch2, f) = LinesOf(cur, arch, f)
    BY DEF FilesOf, LinesOf, Kept
<1>3. gone2 \subseteq 1 .. n
    BY <1>0 DEF Kept
<1>4. \A f \in FilesOf(cur2, arch2) : \A i \in 1 .. Len(LinesOf(cur2, arch2, f)) :
            LinesOf(cur2, arch2, f)[i] \in (1 .. n) \ gone2
    BY <1>0, <1>1, <1>2 DEF Kept
<1>5. \A m \in (1 .. n) \ gone2 :
         \E f \in FilesOf(cur2, arch2) : \E i \in 1 .. Len(LinesOf(cur2, arch2, f)) :
            LinesOf(cur2, arch2, f)[i] = m
    BY <1>0, <1>1, <1>2 DEF Kept
<1>6. /\ arch2 = [f \in DOMAIN arch2 |-> arch2[f]]
      /\ \A f \in DOMAIN arch2 : f # File!Current /\ IsFile(arch2[f].lines, n)
      /\ cur2 = File!Missing \/ IsFile(cur2, n)
    BY DEF Kept
<1>7. Kept(cur2, arch2, n, gone2)
    BY <1>1, <1>2, <1>3, <1>4, <1>5, <1>6 DEF Kept
<1> QED BY <1>7 DEF gone2

-----------------------------------------------------------------------------
Days == Nat \ {0}

FileTypes ==
    /\ config.MaxLines \in Nat /\ config.Daily \in BOOLEAN
    /\ config.MaxLines > 0 \/ config.Daily
    /\ today \in Days /\ dailyOpenDate \in Days /\ currentMod \in Days
    /\ written \in 0 .. MaxWrites /\ faults \in Nat /\ maxLinesCurLines \in Nat
    /\ \A f \in DOMAIN archives : archives[f].mod \in Days

WriterTypes ==
    /\ writing \in [Writers -> [at : {"idle", "check", "rotate", "write", "cram"}, day : Nat]]
    /\ \A w \in Writers : writing[w].at # "idle" => writing[w].day \in Days

\* What is open is there, and its lines are counted; what is unlinked is not there.
Counted ==
    /\ fileWriter = "open" => current # File!Missing
    /\ fileWriter \notin {"open", "closed"} => current = File!Missing
    /\ current # File!Missing => maxLinesCurLines = Len(current)

FilesKept == Kept(current, archives, written, expired \cup orphans)

\* Whoever is about to write found room, or made it; those that could not are not counted.
AboutToWrite == {w \in Writers : writing[w].at = "write"}
Uncrammed(lines, among) == {k \in DOMAIN lines : lines[k] \notin among}
Room ==
    ~config.Daily /\ faults = 0 /\ current # File!Missing =>
        Cardinality(Uncrammed(current, crammed)) + Cardinality(AboutToWrite)
            < config.MaxLines + Cardinality(Writers)

Full ==
    ~config.Daily =>
        \A n \in DOMAIN archives :
            /\ Len(archives[n].lines) >= config.MaxLines
            /\ faults = 0 => Cardinality(Uncrammed(archives[n].lines, crammed))
                                < config.MaxLines + Cardinality(Writers)

FileInv == FileTypes /\ WriterTypes /\ Counted /\ FilesKept /\ Room /\ Full

LEMMA SizeInFile == ASSUME NEW S PROVE File!Cardinality(S) = Cardinality(S)
BY DEF File!Cardinality, Cardinality

LEMMA SomeWriters ==
    ASSUME NEW A, A \subseteq Writers
    PROVE  /\ IsFiniteSet(A) /\ Cardinality(A) \in Nat /\ Cardinality(Writers) \in Nat
           /\ Cardinality(A) <= Cardinality(Writers)
BY LibraryAssumption, FS_Subset, FS_CardinalityType DEF LibraryAssumption

\* The lines that are counted: at most all of them, and no more when others are crammed.
LEMMA UncrammedSize ==
    ASSUME NEW lines \in Seq(Nat), NEW among
    PROVE  /\ IsFiniteSet(Uncrammed(lines, among)) /\ Cardinality(Uncrammed(lines, among)) \in Nat
           /\ Cardinality(Uncrammed(lines, among)) <= Len(lines)
           /\ \A more : among \subseteq more =>
                  Cardinality(Uncrammed(lines, more)) <= Cardinality(Uncrammed(lines, among))
<1>1. DOMAIN lines = 1 .. Len(lines) /\ Len(lines) \in Nat
    OBVIOUS
<1>2. /\ IsFiniteSet(1 .. Len(lines)) /\ Cardinality(1 .. Len(lines)) = Len(lines)
    BY <1>1, FS_Interval
<1>3. \A X : /\ Uncrammed(lines, X) \subseteq 1 .. Len(lines)
              /\ IsFiniteSet(Uncrammed(lines, X)) /\ Cardinality(Uncrammed(lines, X)) \in Nat
              /\ Cardinality(Uncrammed(lines, X)) <= Len(lines)
  <2> TAKE X
  <2>1. Uncrammed(lines, X) \subseteq 1 .. Len(lines)
      BY <1>1 DEF Uncrammed
  <2> QED BY <1>2, <2>1, FS_Subset, FS_CardinalityType
<1>4. ASSUME NEW more, among \subseteq more
      PROVE  Cardinality(Uncrammed(lines, more)) <= Cardinality(Uncrammed(lines, among))
  <2>1. Uncrammed(lines, more) \subseteq Uncrammed(lines, among)
      BY <1>4 DEF Uncrammed
  <2> QED BY <1>3, <2>1, FS_Subset
<1> QED BY <1>3, <1>4

\* One more line is one more to count, unless it is crammed.
LEMMA UncrammedAppend ==
    ASSUME NEW lines \in Seq(Nat), NEW x \in Nat, NEW among, NEW more, among \subseteq more
    PROVE  /\ Cardinality(Uncrammed(Append(lines, x), more))
                  <= Cardinality(Uncrammed(lines, among)) + 1
           /\ x \in more => Cardinality(Uncrammed(Append(lines, x), more))
                               <= Cardinality(Uncrammed(lines, among))
<1> DEFINE longer == Append(lines, x)
<1>1. /\ Len(lines) \in Nat /\ longer \in Seq(Nat) /\ Len(longer) = Len(lines) + 1
      /\ \A i \in 1 .. Len(lines) : longer[i] = lines[i]
      /\ longer[Len(lines) + 1] = x
      /\ DOMAIN lines = 1 .. Len(lines) /\ DOMAIN longer = 1 .. Len(lines) + 1
    BY AppendProperties, LenProperties
<1> HIDE DEF longer
<1>2. /\ Uncrammed(longer, more) \subseteq Uncrammed(lines, among) \cup {Len(lines) + 1}
      /\ x \in more => Uncrammed(longer, more) \subseteq Uncrammed(lines, among)
    BY <1>1 DEF Uncrammed
<1>3. IsFiniteSet(Uncrammed(lines, among)) /\ Cardinality(Uncrammed(lines, among)) \in Nat
    BY UncrammedSize
<1>4. /\ IsFiniteSet(Uncrammed(lines, among) \cup {Len(lines) + 1})
      /\ Cardinality(Uncrammed(lines, among) \cup {Len(lines) + 1})
            <= Cardinality(Uncrammed(lines, among)) + 1
  <2> DEFINE S == Uncrammed(lines, among)
             last == Len(lines) + 1
  <2>1. IsFiniteSet(S) /\ Cardinality(S) \in Nat
      BY <1>3
  <2> HIDE DEF S, last
  <2>2. /\ IsFiniteSet(S \cup {last})
        /\ Cardinality(S \cup {last}) = IF last \in S THEN Cardinality(S) ELSE Cardinality(S) + 1
      BY <2>1, FS_AddElement
  <2>3. Cardinality(S \cup {last}) <= Cardinality(S) + 1
      BY <2>1, <2>2
  <2> QED BY <2>2, <2>3 DEF S, last
<1>5. Cardinality(Uncrammed(longer, more)) \in Nat
    BY <1>1, UncrammedSize
<1>6. /\ Cardinality(Uncrammed(longer, more))
            <= Cardinality(Uncrammed(lines, among) \cup {Len(lines) + 1})
      /\ Cardinality(Uncrammed(lines, among) \cup {Len(lines) + 1}) \in Nat
    BY <1>2, <1>4, FS_Subset, FS_CardinalityType
<1>7. x \in more => Cardinality(Uncrammed(longer, more)) <= Cardinality(Uncrammed(lines, among))
    BY <1>2, <1>3, FS_Subset
<1>8. Cardinality(Uncrammed(longer, more)) <= Cardinality(Uncrammed(lines, among)) + 1
    BY <1>3, <1>4, <1>5, <1>6
<1> QED BY <1>7, <1>8 DEF longer

LEMMA EmptyFile == \A among : Cardinality(Uncrammed(<<>>, among)) = 0
<1> TAKE among
<1>1. Uncrammed(<<>>, among) = {}
    BY DEF Uncrammed
<1> QED BY <1>1, FS_EmptySet

LEMMA Initially == File!Init => FileInv
<1> SUFFICES ASSUME File!Init PROVE FileInv
    OBVIOUS
<1> USE DEF File!Init
<1>1. /\ config.MaxLines \in Nat /\ config.Daily \in BOOLEAN
      /\ config.MaxLines > 0 \/ config.Daily
  <2>1. /\ config \in [MaxLines : {0} \cup LineLimits, Daily : BOOLEAN]
        /\ config.MaxLines > 0 \/ config.Daily
      OBVIOUS
  <2> HIDE DEF File!Init
  <2>2. (config.MaxLines = 0 \/ config.MaxLines \in LineLimits) /\ config.Daily \in BOOLEAN
      BY <2>1
  <2>3. LineLimits \subseteq Nat
      BY LibraryAssumption DEF LibraryAssumption
  <2>4. config.MaxLines \in Nat
    <3>1. config.MaxLines = 0 => config.MaxLines \in Nat
        OBVIOUS
    <3> QED BY <2>2, <2>3, <3>1, Zenon
  <2> QED BY <2>1, <2>2, <2>4
<1>2. archives = <<>> /\ DOMAIN archives = {} /\ archives = [f \in DOMAIN archives |-> archives[f]]
    OBVIOUS
<1>3. FileTypes
    BY <1>1, <1>2, LibraryAssumption DEF FileTypes, Days, LibraryAssumption
<1>4. WriterTypes
  <2>1. writing = [w \in Writers |-> [at |-> "idle", day |-> 0]]
      BY DEF File!Idle
  <2> HIDE DEF File!Init
  <2> QED BY <2>1 DEF WriterTypes
<1>5. current # File!Missing /\ Len(current) = 0 /\ current \in Seq(Nat)
    BY DEF File!Missing
<1>6. FilesKept
  <2>1. FilesOf(current, archives) = {File!Current}
      BY <1>2, <1>5 DEF FilesOf
  <2>2. LinesOf(current, archives, File!Current) = current
      BY DEF LinesOf
  <2> QED BY <1>2, <1>5, <2>1, <2>2 DEF FilesKept, Kept, IsFile
<1>7. Room
  <2>1. AboutToWrite = {}
      BY DEF AboutToWrite, File!Idle
  <2>2. Cardinality(Uncrammed(current, crammed)) = 0
      BY EmptyFile
  <2> HIDE DEF File!Init
  <2>3. ~config.Daily => config.MaxLines > 0
      BY <1>1
  <2> QED BY <1>1, <2>1, <2>2, <2>3, FS_EmptySet, SomeWriters DEF Room
<1> QED BY <1>2, <1>3, <1>4, <1>5, <1>6, <1>7 DEF FileInv, Counted, Full

\* doRotate takes a name that no file has.
LEMMA NameIsFree ==
    ASSUME FileTypes, NEW day \in Days, File!Free(day) # {}
    PROVE  File!NextName(day) \notin DOMAIN archives \cup {File!Current}
<1>1. File!Free(day) \subseteq Nat
    BY LibraryAssumption DEF LibraryAssumption, File!Free, File!Names
<1>2. \E k \in File!Free(day) : \A j \in File!Free(day) : k <= j
  <2>1. PICK k \in File!Free(day) : \A j \in File!Free(day) : ~(<<j, k>> \in OpToRel(<, Nat))
      BY <1>1, NatLessThanWellFounded, WFMin
  <2>2. \A j \in Nat : j < k => <<j, k>> \in OpToRel(<, Nat)
      BY <1>1 DEF OpToRel
  <2>3. \A j \in File!Free(day) : ~(j < k)
      BY <1>1, <2>1, <2>2
  <2> QED BY <1>1, <2>3
<1>3. PICK k \in File!Free(day) : File!NextName(day) = File!Names(day)[k]
    BY <1>2 DEF File!NextName
<1>4. File!NextName(day) \notin DOMAIN archives
    BY <1>3 DEF File!Free
<1>5. File!Names(day)[k] # File!Current
  <2>1. CASE config.MaxLines > 0
    <3>1. File!Names(day)[k] = <<day, k>>
        BY <2>1 DEF File!Free, File!Names
    <3> QED BY <3>1 DEF Days, File!Current
  <2>2. CASE ~(config.MaxLines > 0)
    <3>1. File!Names(day)[k] = <<dailyOpenDate, k - 1>>
        BY <2>2 DEF File!Free, File!Names
    <3> QED BY <3>1 DEF FileTypes, Days, File!Current
  <2> QED BY <2>1, <2>2
<1> QED BY <1>3, <1>4, <1>5
-----------------------------------------------------------------------------
\* startLogger leaves a file that is counted, or none that is open.
LEMMA Started ==
    ASSUME NEW lines, NEW arch, NEW gone, NEW waiting, NEW opens \in BOOLEAN,
           FileTypes, Counted, lines \in {File!Missing, current},
           Kept(lines, arch, written, gone),
           File!startLogger(lines, waiting, opens)
    PROVE  /\ Kept(current', arch, written, gone)
           /\ Counted'
           /\ dailyOpenDate' \in Days /\ currentMod' \in Days /\ maxLinesCurLines' \in Nat
           /\ lines = File!Missing => current' \in {File!Missing, <<>>}
<1>1. CASE opens
  <2>1. current' = IF lines = File!Missing THEN <<>> ELSE lines
      BY <1>1 DEF File!startLogger
  <2>2. Kept(current', arch, written, gone)
      BY <2>1, Created DEF FileTypes
  <2>3. current' # File!Missing
      BY <2>1 DEF File!Missing
  <2>4. Len(current') \in Nat
      BY <2>2, <2>3 DEF Kept, IsFile
  <2>5. maxLinesCurLines' = Len(current') /\ dailyOpenDate' = today /\ fileWriter' = "open"
      BY <1>1 DEF File!startLogger
  <2>6. currentMod' \in Days /\ today \in Days
      BY <1>1 DEF File!startLogger, FileTypes
  <2>7. lines = File!Missing => current' = <<>>
      BY <2>1
  <2> QED BY <2>2, <2>3, <2>4, <2>5, <2>6, <2>7 DEF Counted
<1>2. CASE ~opens
    BY <1>2 DEF File!startLogger, Counted, FileTypes
<1> QED BY <1>1, <1>2

LEMMA RotationKeeps ==
    ASSUME FileInv, NEW day \in Days, NEW waiting, File!RotateIfNeeded(day, waiting),
           UNCHANGED <<config, today, written, expired, orphans, crammed>>
    PROVE  /\ FileTypes' /\ Counted' /\ FilesKept' /\ Full'
           /\ \/ UNCHANGED <<current, faults>> /\ (~File!needRotate(day) \/ File!NoName(day))
              \/ faults' = 0 => current' \in {File!Missing, <<>>}
<1> USE DEF FileInv
<1>1. CASE UNCHANGED File!rotatedVars /\ (~File!needRotate(day) \/ File!NoName(day))
  <2>1. UNCHANGED <<current, currentMod, archives, fileWriter, maxLinesCurLines, dailyOpenDate,
                    faults>>
      BY <1>1 DEF File!rotatedVars
  <2>2. FileTypes' /\ Counted' /\ FilesKept' /\ Full'
      BY <2>1 DEF FileTypes, Counted, FilesKept, Full
  <2> QED BY <1>1, <2>1, <2>2
<1>2. ASSUME ~File!NoName(day), File!needRotate(day),
             NEW renames \in BOOLEAN, NEW opens \in BOOLEAN,
             faults' = faults + (IF renames /\ opens THEN 0 ELSE 1),
             IF current # File!Missing /\ renames
             THEN archives' = File!Archived(File!NextName(day))
                  /\ File!startLogger(File!Missing, waiting, opens)
             ELSE File!startLogger(current, waiting, opens) /\ UNCHANGED archives
      PROVE  /\ FileTypes' /\ Counted' /\ FilesKept' /\ Full'
             /\ faults' = 0 => current' \in {File!Missing, <<>>}
  <2>1. /\ faults' \in Nat
        /\ faults' = 0 => faults = 0 /\ renames /\ opens
      BY <1>2 DEF FileTypes
  <2>2. PICK lines \in {File!Missing, current} :
            /\ File!startLogger(lines, waiting, opens)
            /\ Kept(lines, archives', written, expired \cup orphans)
            /\ \A n \in DOMAIN archives' : archives'[n].mod \in Days
            /\ renames => lines = File!Missing
            /\ Full'
    <3>1. CASE current # File!Missing /\ renames
      <4> DEFINE name == File!NextName(day)
      <4>1. name \notin DOMAIN archives \cup {File!Current}
          BY <1>2, <3>1, NameIsFree DEF File!NoName
      <4>2. archives' = [n \in DOMAIN archives \cup {name} |->
                IF n = name THEN [lines |-> current, mod |-> currentMod] ELSE archives[n]]
          BY <1>2, <3>1 DEF File!Archived
      <4> HIDE DEF name
      <4>3. Kept(File!Missing, archives', written, expired \cup orphans)
        <5>1. /\ Kept(current, archives, written, expired \cup orphans)
              /\ written \in Nat /\ current # File!Missing
              /\ name \notin DOMAIN archives /\ name # File!Current
            BY <3>1, <4>1 DEF FilesKept, FileTypes
        <5>2. /\ archives' = [f \in DOMAIN archives' |-> archives'[f]]
              /\ DOMAIN archives' = DOMAIN archives \cup {name} /\ archives'[name].lines = current
              /\ \A f \in DOMAIN archives : archives'[f] = archives[f]
            BY <4>2, <5>1
        <5> QED BY <5>1, <5>2, Renamed
      <4>4. \A n \in DOMAIN archives' : archives'[n].mod \in Days
          BY <4>2 DEF FileTypes
      <4>5. ASSUME ~config.Daily
            PROVE  /\ Len(current) >= config.MaxLines
                   /\ faults' = 0 => Cardinality(Uncrammed(current, crammed))
                                       < config.MaxLines + Cardinality(Writers)
        <5>1. maxLinesCurLines >= config.MaxLines /\ Len(current) = maxLinesCurLines
            BY <1>2, <3>1, <4>5 DEF File!needRotate, Counted
        <5>2. faults' = 0 =>
                Cardinality(Uncrammed(current, crammed)) + Cardinality(AboutToWrite)
                    < config.MaxLines + Cardinality(Writers)
            BY <2>1, <3>1, <4>5 DEF Room
        <5>3. AboutToWrite \subseteq Writers
            BY DEF AboutToWrite
        <5>4. Cardinality(Uncrammed(current, crammed)) \in Nat
            BY <3>1, UncrammedSize DEF FilesKept, Kept, IsFile
        <5> QED BY <5>1, <5>2, <5>3, <5>4, SomeWriters DEF FileTypes
      <4>6. Full'
          BY <2>1, <4>2, <4>5 DEF Full
      <4> QED BY <1>2, <3>1, <4>3, <4>4, <4>6
    <3>2. CASE ~(current # File!Missing /\ renames)
      <4>1. UNCHANGED archives /\ File!startLogger(current, waiting, opens)
          BY <1>2, <3>2
      <4>2. Kept(current, archives', written, expired \cup orphans)
          BY <4>1 DEF FilesKept
      <4>3. Full'
          BY <2>1, <4>1 DEF Full
      <4> QED BY <3>2, <4>1, <4>2, <4>3 DEF FileTypes
    <3> QED BY <3>1, <3>2
  <2>3. /\ Kept(current', archives', written, expired \cup orphans)
        /\ Counted'
        /\ dailyOpenDate' \in Days /\ currentMod' \in Days /\ maxLinesCurLines' \in Nat
        /\ lines = File!Missing => current' \in {File!Missing, <<>>}
      BY <2>2, Started
  <2>4. FileTypes'
      BY <2>1, <2>2, <2>3 DEF FileTypes
  <2>5. faults' = 0 => current' \in {File!Missing, <<>>}
      BY <2>1, <2>2, <2>3
  <2> QED BY <2>2, <2>3, <2>4, <2>5 DEF FilesKept
<1>3. CASE ~File!needRotate(day)
    BY <1>1, <1>3 DEF File!RotateIfNeeded
<1>4. CASE File!needRotate(day) /\ File!NoName(day)
  <2>1. UNCHANGED File!rotatedVars
      BY <1>4 DEF File!RotateIfNeeded, File!doRotate
  <2> QED BY <1>1, <1>4, <2>1
<1>5. CASE File!needRotate(day) /\ ~File!NoName(day)
  <2>1. PICK renames, opens \in BOOLEAN :
            /\ faults' = faults + (IF renames /\ opens THEN 0 ELSE 1)
            /\ IF current # File!Missing /\ renames
               THEN archives' = File!Archived(File!NextName(day))
                    /\ File!startLogger(File!Missing, waiting, opens)
               ELSE File!startLogger(current, waiting, opens) /\ UNCHANGED archives
      BY <1>5 DEF File!RotateIfNeeded, File!doRotate
  <2> QED BY <1>2, <1>5, <2>1
<1> QED BY <1>3, <1>4, <1>5
-----------------------------------------------------------------------------
\* A writer goes on.
LEMMA WriterGoes ==
    ASSUME WriterTypes, NEW w \in Writers,
           NEW at \in {"idle", "check", "rotate", "write", "cram"},
           NEW day \in Nat, at # "idle" => day \in Days, File!Goto(w, at, day)
    PROVE  /\ WriterTypes'
           /\ AboutToWrite' = IF at = "write" THEN AboutToWrite \cup {w} ELSE AboutToWrite \ {w}
<1>1. /\ writing[w] \in [at : {"idle", "check", "rotate", "write", "cram"}, day : Nat]
      /\ writing' = [writing EXCEPT ![w] = [at |-> at, day |-> day]]
    BY DEF WriterTypes, File!Goto
<1>2. writing' \in [Writers -> [at : {"idle", "check", "rotate", "write", "cram"}, day : Nat]]
    BY <1>1 DEF WriterTypes
<1>3. /\ writing'[w].at = at /\ writing'[w].day = day
      /\ \A x \in Writers \ {w} : writing'[x] = writing[x]
    BY <1>1 DEF WriterTypes
<1>4. WriterTypes'
    BY <1>2, <1>3 DEF WriterTypes
<1>5. AboutToWrite' = IF at = "write" THEN AboutToWrite \cup {w} ELSE AboutToWrite \ {w}
    BY <1>3 DEF AboutToWrite
<1> QED BY <1>4, <1>5

\* Steps of a writer that leave the files alone.
LEMMA FilesUntouched ==
    ASSUME FileInv,
           UNCHANGED <<config, today, current, currentMod, archives, fileWriter, maxLinesCurLines,
                       dailyOpenDate, written, expired, orphans, crammed, faults>>
    PROVE  FileTypes' /\ Counted' /\ FilesKept' /\ Full'
BY DEF FileInv, FileTypes, Counted, FilesKept, Full

LEMMA WriteMsgKeeps ==
    ASSUME FileInv, NEW w \in Writers, File!WriteMsg(w) PROVE FileInv'
<1> USE DEF FileInv
<1>1. UNCHANGED <<config, today, current, currentMod, archives, fileWriter, maxLinesCurLines,
                  dailyOpenDate, written, expired, orphans, crammed, faults>>
    BY DEF File!WriteMsg, File!rotatedVars
<1>2. today \in Days /\ today \in Nat
    BY DEF FileTypes, Days
<1>3. WriterTypes' /\ AboutToWrite' = AboutToWrite \ {w}
    BY <1>1, <1>2, WriterGoes DEF File!WriteMsg
<1>4. w \notin AboutToWrite
    BY DEF File!WriteMsg, File!Idle, AboutToWrite
<1>5. Room'
    BY <1>1, <1>3, <1>4 DEF Room
<1> QED BY <1>1, <1>3, <1>5, FilesUntouched

LEMMA CheckKeeps ==
    ASSUME FileInv, NEW w \in Writers, File!Check(w) PROVE FileInv'
<1> USE DEF FileInv
<1>1. UNCHANGED <<config, today, current, currentMod, archives, fileWriter, maxLinesCurLines,
                  dailyOpenDate, written, expired, orphans, crammed, faults>>
    BY DEF File!Check, File!rotatedVars
<1>2. writing[w].day \in Days /\ writing[w].day \in Nat
    BY DEF File!Check, WriterTypes
<1>3. CASE File!needRotate(writing[w].day)
  <2>1. File!Goto(w, "rotate", writing[w].day)
      BY <1>3 DEF File!Check
  <2>2. WriterTypes' /\ AboutToWrite' = AboutToWrite \ {w}
      BY <1>1, <1>2, <2>1, WriterGoes
  <2>3. w \notin AboutToWrite
      BY DEF File!Check, AboutToWrite
  <2>4. Room'
      BY <1>1, <2>2, <2>3 DEF Room
  <2> QED BY <1>1, <2>2, <2>4, FilesUntouched
<1>4. CASE ~File!needRotate(writing[w].day)
  <2>1. File!Goto(w, "write", writing[w].day)
      BY <1>4 DEF File!Check
  <2>2. WriterTypes'
      BY <1>1, <1>2, <2>1, WriterGoes
  <2>3. Room'
    <3>1. AboutToWrite' \subseteq Writers
        BY DEF AboutToWrite
    <3>2. current # File!Missing => /\ Cardinality(Uncrammed(current, crammed)) \in Nat
                                    /\ Cardinality(Uncrammed(current, crammed)) <= maxLinesCurLines
        BY UncrammedSize DEF Counted, FilesKept, Kept, IsFile
    <3>3. ~config.Daily => maxLinesCurLines < config.MaxLines
        BY <1>4 DEF File!needRotate, FileTypes
    <3> QED BY <1>1, <3>1, <3>2, <3>3, SomeWriters DEF Room, FileTypes
  <2> QED BY <1>1, <2>2, <2>3, FilesUntouched
<1> QED BY <1>3, <1>4

LEMMA RotateKeeps ==
    ASSUME FileInv, NEW w \in Writers, File!Rotate(w) PROVE FileInv'
<1> USE DEF FileInv
<1> DEFINE day == writing[w].day
           at == IF File!needRotate(day) /\ File!NoName(day) THEN "cram" ELSE "write"
<1>1. /\ UNCHANGED <<config, today, written, expired, orphans, crammed>>
      /\ File!RotateIfNeeded(day, timers) /\ File!Goto(w, at, day) /\ w \notin AboutToWrite
    BY DEF File!Rotate, AboutToWrite
<1>2. day \in Days /\ day \in Nat
    BY DEF File!Rotate, WriterTypes
<1>3. /\ FileTypes' /\ Counted' /\ FilesKept' /\ Full'
      /\ \/ UNCHANGED <<current, faults>> /\ (~File!needRotate(day) \/ File!NoName(day))
         \/ faults' = 0 => current' \in {File!Missing, <<>>}
    BY <1>1, <1>2, RotationKeeps
<1> HIDE DEF day
<1>4. /\ WriterTypes'
      /\ AboutToWrite' = IF at = "write" THEN AboutToWrite \cup {w} ELSE AboutToWrite \ {w}
    BY <1>1, <1>2, WriterGoes
<1>5. /\ AboutToWrite' \subseteq Writers
      /\ config.MaxLines \in Nat /\ (~config.Daily => config.MaxLines > 0)
    BY DEF AboutToWrite, FileTypes
<1>6. Room'
  <2>1. CASE faults' = 0 => current' \in {File!Missing, <<>>}
      BY <1>1, <1>5, <2>1, EmptyFile, SomeWriters DEF Room
  <2>2. CASE UNCHANGED <<current, faults>> /\ File!needRotate(day) /\ File!NoName(day)
    <3>1. AboutToWrite' = AboutToWrite
        BY <1>1, <1>4, <2>2
    <3> QED BY <1>1, <2>2, <3>1 DEF Room
  <2>3. CASE UNCHANGED <<current, faults>> /\ ~File!needRotate(day)
    <3>1. current # File!Missing => /\ Cardinality(Uncrammed(current, crammed)) \in Nat
                                    /\ Cardinality(Uncrammed(current, crammed)) <= maxLinesCurLines
        BY UncrammedSize DEF Counted, FilesKept, Kept, IsFile
    <3>2. ~config.Daily => maxLinesCurLines < config.MaxLines
        BY <2>3 DEF File!needRotate, FileTypes
    <3> QED BY <1>1, <1>5, <2>3, <3>1, <3>2, SomeWriters DEF Room, FileTypes
  <2> QED BY <1>3, <2>1, <2>2, <2>3
<1> QED BY <1>3, <1>4, <1>6

LEMMA WriteKeeps ==
    ASSUME FileInv, NEW w \in Writers, File!Write(w) PROVE FileInv'
<1> USE DEF FileInv
<1>1. /\ UNCHANGED <<config, today, archives, fileWriter, dailyOpenDate, expired, faults>>
      /\ written < MaxWrites /\ File!Goto(w, "idle", 0)
      /\ w \in AboutToWrite \/ writing[w].at = "cram"
    BY DEF File!Write, AboutToWrite
<1>2. WriterTypes' /\ AboutToWrite' = AboutToWrite \ {w}
    BY <1>1, WriterGoes
<1>3. AboutToWrite' \subseteq Writers /\ IsFiniteSet(AboutToWrite) /\ IsFiniteSet(AboutToWrite')
      /\ Cardinality(AboutToWrite) \in Nat /\ Cardinality(Writers) \in Nat
  <2>1. AboutToWrite \subseteq Writers /\ AboutToWrite' \subseteq Writers
      BY DEF AboutToWrite
  <2> QED BY <2>1, SomeWriters
<1>4. IF w \in AboutToWrite
      THEN Cardinality(AboutToWrite') = Cardinality(AboutToWrite) - 1
      ELSE AboutToWrite' = AboutToWrite
    BY <1>2, <1>3, FS_RemoveElement
<1>5. \/ UNCHANGED <<current, crammed>>
      \/ /\ crammed' = crammed \cup (IF writing[w].at = "cram" THEN {written + 1} ELSE {})
         /\ current' \in {current, Append(current, written + 1)}
         /\ current' # current => fileWriter = "open"
    BY DEF File!Write
<1>6. written \in Nat /\ maxLinesCurLines \in Nat /\ MaxWrites \in Nat /\ config.MaxLines \in Nat
    BY LibraryAssumption DEF LibraryAssumption, FileTypes
<1>7. crammed \subseteq crammed'
    BY <1>5
<1>8. Room'
  <2> DEFINE count == Cardinality(Uncrammed(current, crammed))
             more == Cardinality(Uncrammed(current', crammed'))
  <2>1. CASE current = File!Missing
    <3>1. current' = current
        BY <1>5, <2>1 DEF Counted
    <3> QED BY <2>1, <3>1 DEF Room
  <2>2. CASE current # File!Missing
    <3>1. current \in Seq(Nat) /\ current' \in Seq(Nat)
      <4>1. current \in Seq(Nat)
          BY <2>2 DEF FilesKept, Kept, IsFile
      <4> QED BY <1>5, <1>6, <4>1
    <3>2. count \in Nat /\ more \in Nat
        BY <3>1, UncrammedSize
    <3>3. more <= count + 1 /\ (w \notin AboutToWrite => more <= count)
      <4>1. CASE current' = current
        <5>1. more <= count
            BY <1>7, <3>1, <4>1, UncrammedSize
        <5> QED BY <3>2, <5>1
      <4>2. CASE current' # current
        <5>1. /\ current' = Append(current, written + 1) /\ written + 1 \in Nat
              /\ w \notin AboutToWrite => written + 1 \in crammed'
            BY <1>1, <1>5, <1>6, <4>2
        <5> QED BY <1>7, <3>1, <5>1, UncrammedAppend
      <4> QED BY <4>1, <4>2
    <3>4. Cardinality(AboutToWrite') \in Nat
        BY <1>3, FS_CardinalityType
    <3>5. ~config.Daily /\ faults = 0 =>
            count + Cardinality(AboutToWrite) < config.MaxLines + Cardinality(Writers)
        BY <2>2 DEF Room
    <3> HIDE DEF count, more
    <3>6. ~config.Daily /\ faults = 0 =>
            more + Cardinality(AboutToWrite') < config.MaxLines + Cardinality(Writers)
        BY <1>3, <1>4, <1>6, <3>2, <3>3, <3>4, <3>5
    <3> QED BY <1>1, <3>6 DEF Room, more
  <2> QED BY <2>1, <2>2
<1>9. Full'
  <2> SUFFICES ASSUME ~config.Daily, NEW n \in DOMAIN archives
               PROVE  /\ Len(archives[n].lines) >= config.MaxLines
                      /\ faults = 0 => Cardinality(Uncrammed(archives[n].lines, crammed'))
                                          < config.MaxLines + Cardinality(Writers)
      BY <1>1 DEF Full
  <2>1. archives[n].lines \in Seq(Nat)
      BY DEF FilesKept, Kept, IsFile
  <2>2. /\ Cardinality(Uncrammed(archives[n].lines, crammed')) \in Nat
        /\ Cardinality(Uncrammed(archives[n].lines, crammed)) \in Nat
        /\ Cardinality(Uncrammed(archives[n].lines, crammed'))
                <= Cardinality(Uncrammed(archives[n].lines, crammed))
      BY <1>7, <2>1, UncrammedSize
  <2> QED BY <1>3, <1>6, <2>2 DEF Full
<1>10. FileTypes' /\ Counted' /\ FilesKept'
  <2>1. CASE fileWriter = "closed"
    <3>1. UNCHANGED <<written, current, currentMod, maxLinesCurLines, orphans>>
        BY <2>1 DEF File!Write
    <3> QED BY <1>1, <3>1 DEF FileTypes, Counted, FilesKept
  <2>2. CASE fileWriter = "open"
    <3>1. /\ written' = written + 1 /\ maxLinesCurLines' = maxLinesCurLines + 1
          /\ current' = Append(current, written + 1) /\ currentMod' = today
          /\ UNCHANGED orphans
        BY <2>2 DEF File!Write
    <3>2. current # File!Missing
        BY <2>2 DEF Counted
    <3>3. FilesKept'
        BY <1>1, <1>6, <3>1, <3>2, Appended DEF FilesKept
    <3>4. current \in Seq(Nat) /\ Len(current) = maxLinesCurLines
        BY <3>2 DEF Counted, FilesKept, Kept, IsFile
    <3>5. Len(current') = Len(current) + 1
        BY <1>6, <3>1, <3>4
    <3>6. Counted'
      <4>1. current' # File!Missing
        <5>1. current'[1] \in Nat
            BY <1>6, <3>1, <3>4
        <5> QED BY <5>1 DEF File!Missing
      <4> QED BY <1>1, <2>2, <3>1, <3>4, <3>5, <4>1 DEF Counted
    <3>7. FileTypes'
        BY <1>1, <1>6, <3>1 DEF FileTypes
    <3> QED BY <3>3, <3>6, <3>7
  <2>3. CASE fileWriter \notin {"closed", "open"}
    <3>1. /\ written' = written + 1 /\ maxLinesCurLines' = maxLinesCurLines + 1
          /\ orphans' = orphans \cup {written + 1} /\ UNCHANGED <<current, currentMod>>
        BY <2>3 DEF File!Write
    <3>2. FilesKept'
      <4>1. expired' \cup orphans' = (expired \cup orphans) \cup {written + 1}
          BY <1>1, <3>1
      <4> QED BY <1>1, <1>6, <3>1, <4>1, Orphaned DEF FilesKept
    <3>3. FileTypes'
        BY <1>1, <1>6, <3>1 DEF FileTypes
    <3>4. Counted'
        BY <1>1, <2>3, <3>1 DEF Counted
    <3> QED BY <3>2, <3>3, <3>4
  <2> QED BY <2>1, <2>2, <2>3
<1> QED BY <1>2, <1>8, <1>9, <1>10

LEMMA DailyRotateKeeps ==
    ASSUME FileInv, NEW d \in 1 .. LastDay, File!dailyRotate(d) PROVE FileInv'
<1> USE DEF FileInv
<1>1. UNCHANGED <<config, today, writing, written, expired, orphans, crammed>>
    BY DEF File!dailyRotate
<1>2. today \in Days
    BY DEF FileTypes
<1>3. PICK waiting : File!RotateIfNeeded(today, waiting)
    BY DEF File!dailyRotate
<1>4. /\ FileTypes' /\ Counted' /\ FilesKept' /\ Full'
      /\ UNCHANGED <<current, faults>> \/ (faults' = 0 => current' \in {File!Missing, <<>>})
    BY <1>1, <1>2, <1>3, RotationKeeps
<1>5. WriterTypes' /\ AboutToWrite' = AboutToWrite /\ AboutToWrite \subseteq Writers
    BY <1>1 DEF WriterTypes, AboutToWrite
<1>6. Room'
  <2>1. CASE UNCHANGED <<current, faults>>
      BY <1>1, <1>5, <2>1 DEF Room
  <2>2. CASE faults' = 0 => current' \in {File!Missing, <<>>}
    <3>1. config.MaxLines \in Nat /\ (~config.Daily => config.MaxLines > 0)
        BY DEF FileTypes
    <3> QED BY <1>1, <1>5, <2>2, <3>1, EmptyFile, SomeWriters DEF Room
  <2> QED BY <1>4, <2>1, <2>2
<1> QED BY <1>4, <1>5, <1>6

LEMMA DeleteKeeps == ASSUME FileInv, File!deleteOldLog PROVE FileInv'
<1> USE DEF FileInv
<1> DEFINE old == {n \in DOMAIN archives : File!Old(archives[n].mod)}
           stale == current # File!Missing /\ File!Old(currentMod)
<1>1. /\ UNCHANGED <<config, today, currentMod, maxLinesCurLines, dailyOpenDate, writing, written,
                     orphans, crammed, faults>>
      /\ archives' = [n \in DOMAIN archives \ old |-> archives[n]]
      /\ expired' = expired \cup (UNION {File!Range(archives[n].lines) : n \in old})
                            \cup (IF stale THEN File!Range(current) ELSE {})
      /\ current' = IF stale THEN File!Missing ELSE current
      /\ fileWriter' = IF stale /\ fileWriter = "open" THEN "unlinked" ELSE fileWriter
    BY DEF File!deleteOldLog
<1>3. FileTypes' /\ WriterTypes' /\ AboutToWrite' = AboutToWrite
    BY <1>1 DEF FileTypes, WriterTypes, AboutToWrite
<1>4. Counted'
    BY <1>1 DEF Counted
<1>5. Full'
    BY <1>1 DEF Full
<1>6. Room'
  <2>1. current' \in {current, File!Missing}
      BY <1>1
  <2> QED BY <1>1, <1>3, <2>1 DEF Room
<1>7. FilesKept'
  <2>1. current' \in {current, File!Missing}
      BY <1>1
  <2>2. /\ archives' = [f \in DOMAIN archives' |-> archives[f]]
        /\ DOMAIN archives' \subseteq DOMAIN archives
      BY <1>1
  <2>3. FilesOf(current, archives) \ FilesOf(current', archives')
            = old \cup (IF stale THEN {File!Current} ELSE {})
      BY <1>1 DEF FilesOf, FilesKept, Kept
  <2>4. /\ \A f \in old : LinesOf(current, archives, f) = archives[f].lines
        /\ LinesOf(current, archives, File!Current) = current
      BY DEF FilesKept, Kept, LinesOf
  <2>5. /\ \A f \in old : archives[f].lines \in Seq(Nat)
        /\ stale => current \in Seq(Nat)
      BY DEF FilesKept, Kept, IsFile
  <2>6. \A q \in Seq(Nat) : File!Range(q) = {q[i] : i \in 1 .. Len(q)}
      BY DEF File!Range
  <2> HIDE DEF old, stale
  <2>7. Going(current, archives, current', archives') =
            (UNION {File!Range(archives[f].lines) : f \in old})
            \cup (IF stale THEN File!Range(current) ELSE {})
    <3> DEFINE Elems(f) == {LinesOf(current, archives, f)[i] :
                                i \in 1 .. Len(LinesOf(current, archives, f))}
    <3>1. /\ \A f \in old : Elems(f) = File!Range(archives[f].lines)
          /\ stale => Elems(File!Current) = File!Range(current)
        BY <2>4, <2>5, <2>6
    <3> HIDE DEF Elems
    <3>2. \A x : x \in Going(current, archives, current', archives') <=>
            \E f \in FilesOf(current, archives) \ FilesOf(current', archives') : x \in Elems(f)
        BY DEF Going, Elems
    <3>3. \A x : x \in Going(current, archives, current', archives') <=>
            \/ \E f \in old : x \in Elems(f)
            \/ stale /\ x \in Elems(File!Current)
      <4>1. CASE stale
          BY <2>3, <3>2, <4>1
      <4>2. CASE ~stale
          BY <2>3, <3>2, <4>2
      <4> QED BY <4>1, <4>2
    <3> DEFINE gone2 == UNION {File!Range(archives[f].lines) : f \in old}
    <3>4. \A x : x \in gone2 <=> \E f \in old : x \in Elems(f)
        BY <3>1
    <3> HIDE DEF gone2
    <3>5. Going(current, archives, current', archives')
            = gone2 \cup (IF stale THEN File!Range(current) ELSE {})
      <4>1. CASE stale
          BY <3>1, <3>3, <3>4, <4>1
      <4>2. CASE ~stale
          BY <3>3, <3>4, <4>2
      <4> QED BY <4>1, <4>2
    <3> QED BY <3>5 DEF gone2
  <2>8. expired' \cup orphans'
            = (expired \cup orphans) \cup Going(current, archives, current', archives')
      BY <1>1, <2>7
  <2>9. written \in Nat /\ written' = written
      BY <1>1 DEF FileTypes
  <2>10. Kept(current', archives', written,
              (expired \cup orphans) \cup Going(current, archives, current', archives'))
      BY <2>1, <2>2, <2>9, Deleted DEF FilesKept
  <2> QED BY <2>8, <2>9, <2>10 DEF FilesKept
<1> QED BY <1>3, <1>4, <1>5, <1>6, <1>7

LEMMA RestartKeeps == ASSUME FileInv, File!Restart PROVE FileInv'
<1> USE DEF FileInv
<1>1. /\ UNCHANGED <<config, today, archives, written, expired, orphans, crammed>>
      /\ faults' = faults + 1 /\ writing' = [w \in Writers |-> File!Idle]
    BY DEF File!Restart
<1>2. PICK waiting : File!startLogger(current, waiting, TRUE)
    BY DEF File!Restart
<1>3. /\ Kept(current', archives, written, expired \cup orphans) /\ Counted'
      /\ dailyOpenDate' \in Days /\ currentMod' \in Days /\ maxLinesCurLines' \in Nat
    BY <1>2, Started DEF FilesKept
<1>4. faults' \in Nat /\ faults' # 0
    BY <1>1 DEF FileTypes
<1>5. FileTypes'
    BY <1>1, <1>3, <1>4 DEF FileTypes
<1>6. WriterTypes'
  <2>1. writing' = [w \in Writers |-> [at |-> "idle", day |-> 0]]
      BY <1>1 DEF File!Idle
  <2> QED BY <2>1 DEF WriterTypes
<1>7. Room' /\ Full' /\ FilesKept'
    BY <1>1, <1>3, <1>4 DEF Room, Full, FilesKept
<1> QED BY <1>3, <1>5, <1>6, <1>7

LEMMA NextDayKeeps == ASSUME FileInv, File!NextDay PROVE FileInv'
<1> USE DEF FileInv
<1>1. /\ UNCHANGED <<config, current, currentMod, archives, fileWriter, maxLinesCurLines,
                     dailyOpenDate, writing, written, expired, orphans, crammed, faults>>
      /\ today' = today + 1
    BY DEF File!NextDay, File!rotatedVars
<1>2. FileTypes'
  <2>1. today' \in Days
      BY <1>1 DEF FileTypes, Days
  <2> QED BY <1>1, <2>1 DEF FileTypes
<1>3. WriterTypes' /\ Counted' /\ FilesKept' /\ Room' /\ Full'
    BY <1>1 DEF WriterTypes, Counted, FilesKept, Room, AboutToWrite, Full
<1> QED BY <1>2, <1>3

LEMMA FileStepKeeps == FileInv /\ [File!Next]_(File!fileVars) => FileInv'
<1> SUFFICES ASSUME FileInv, [File!Next]_(File!fileVars) PROVE FileInv'
    OBVIOUS
<1>1. CASE UNCHANGED File!fileVars
  <2>1. UNCHANGED <<config, today, current, currentMod, archives, fileWriter, maxLinesCurLines,
                    dailyOpenDate, written, expired, orphans, crammed, faults, writing>>
      BY <1>1 DEF File!fileVars, File!rotatedVars
  <2>2. WriterTypes' /\ Room'
      BY <2>1, FilesUntouched DEF FileInv, WriterTypes, Room, AboutToWrite
  <2> QED BY <2>1, <2>2, FilesUntouched DEF FileInv
<1> QED BY <1>1, WriteMsgKeeps, CheckKeeps, RotateKeeps, WriteKeeps, DailyRotateKeeps,
           DeleteKeeps, RestartKeeps, NextDayKeeps
        DEF File!Next

LEMMA FileHolds == Spec => []FileInv
<1>1. Init => FileInv
    BY Initially DEF Init
<1>2. FileInv /\ [Next]_vars => FileInv'
  <2> SUFFICES ASSUME FileInv, [Next]_vars PROVE FileInv'
      OBVIOUS
  <2>1. [File!Next]_(File!fileVars)
      BY DEF Next, CodecStep, ValueStep, LogStep, FileStep, MapStep, vars, fileVars,
             File!fileVars, File!rotatedVars
  <2> QED BY <2>1, FileStepKeeps
<1> QED BY <1>1, <1>2, PTL DEF Spec

\* Every message that WriteMsg wrote is in one file of the log, once, until that file is deleted
\* for its age, however writers, timers, failed renames and opens and restarts interleave.
THEOREM LinesKeptOnce == Spec => []KeptOnce
<1>1. FileInv => KeptOnce
  <2> SUFFICES ASSUME FileInv, NEW m \in 1 .. written
               PROVE  IF m \in expired \cup orphans THEN File!Places(m) = {}
                      ELSE File!Cardinality(File!Places(m)) = 1
      BY DEF KeptOnce, File!KeptOnce
  <2> USE DEF FileInv
  <2>1. /\ File!Held = FilesOf(current, archives)
        /\ \A f : File!Lines(f) = LinesOf(current, archives, f)
      BY DEF File!Held, File!Lines, FilesOf, LinesOf
  <2>2. written \in Nat /\ written <= MaxWrites /\ MaxWrites \in Nat
      BY LibraryAssumption DEF LibraryAssumption, FileTypes
  <2>3. \A f \in FilesOf(current, archives) :
            /\ Len(LinesOf(current, archives, f)) \in Nat
            /\ Len(LinesOf(current, archives, f)) <= written
      BY DEF FilesKept, Kept, IsFile, FilesOf, LinesOf
  <2>4. \A p : p \in File!Places(m) <=>
            /\ p \in FilesOf(current, archives) \X (1 .. MaxWrites)
            /\ p[2] \in 1 .. Len(LinesOf(current, archives, p[1]))
            /\ LinesOf(current, archives, p[1])[p[2]] = m
      BY <2>1, <2>2, <2>3 DEF File!Places
  <2>5. CASE m \in expired \cup orphans
    <3>1. \A p : p \notin File!Places(m)
        BY <2>4, <2>5 DEF FilesKept, Kept
    <3> QED BY <2>5, <3>1
  <2>6. CASE m \notin expired \cup orphans
    <3>1. PICK f \in FilesOf(current, archives) : \E i \in 1 .. Len(LinesOf(current, archives, f)) :
                LinesOf(current, archives, f)[i] = m
        BY <2>6 DEF FilesKept, Kept
    <3>2. PICK i \in 1 .. Len(LinesOf(current, archives, f)) : LinesOf(current, archives, f)[i] = m
        BY <3>1
    <3>3. <<f, i>> \in File!Places(m)
        BY <2>2, <2>3, <2>4, <3>2
    <3>4. ASSUME NEW p \in File!Places(m) PROVE p = <<f, i>>
      <4>1. p[1] = f /\ p[2] = i
          BY <2>4, <3>2 DEF FilesKept, Kept
      <4>2. p = <<p[1], p[2]>>
          BY <2>4
      <4> QED BY <4>1, <4>2
    <3>5. File!Places(m) = {<<f, i>>}
        BY <3>3, <3>4
    <3>6. File!Cardinality(File!Places(m)) = 1
        BY <3>5, FS_Singleton, SizeInFile
    <3> QED BY <2>6, <3>6
  <2> QED BY <2>5, <2>6
<1> QED BY <1>1, FileHolds, PTL

\* A limit on the lines rotates once for every MaxLines lines, though several writers find it
\* reached: no file is put away too early, nor, without a fault, too late, but for the lines of
\* writers that found every name of their day taken.
THEOREM RotatedForEveryLimit == Spec => []RotatedOnce
<1>1. FileInv => RotatedOnce
  <2>1. \A lines : File!Uncrammed(lines) = Uncrammed(lines, crammed)
      BY DEF File!Uncrammed, Uncrammed
  <2> QED BY <2>1, SizeInFile DEF FileInv, Full, RotatedOnce, File!RotatedOnce
<1> QED BY <1>1, FileHolds, PTL

-----------------------------------------------------------------------------
\* The logger.

Msgs == [by : Loggers, nr : Nat, level : {Log!LevelError, Log!LevelWarn, Log!LevelDebug}]
Elems(q) == {q[i] : i \in 1 .. Len(q)}
Distinct(q) == \A i, j \in 1 .. Len(q) : q[i] = q[j] => i = j

DataTypes ==
    /\ asynchronous \in BOOLEAN /\ settings \in BOOLEAN
    /\ logger \in [Loggers -> [count : Nat, pending : Seq(Msgs)]]
    /\ msgChan \in Seq(Msgs) /\ files \in [Log!Adapters -> Seq(Msgs)] /\ accepted \subseteq Msgs

OwnerTypes ==
    /\ owner \in [Owners -> [call : {"none", "flush", "reset", "close"},
                             at : {"idle", "signal", "wait", "add", "flushed", "done"}]]
    /\ due \in [Owners -> SUBSET accepted]

\* A goroutine has at most one message it cannot queue, its last.
Numbered ==
    /\ \A l \in Loggers : logger[l].pending # <<>> =>
            /\ asynchronous /\ logger[l].pending = <<logger[l].pending[1]>>
            /\ logger[l].pending[1].by = l /\ logger[l].pending[1].nr = logger[l].count
    /\ \A m \in accepted :
            /\ m.nr <= logger[m.by].count
            /\ logger[m.by].pending # <<>> => m.nr < logger[m.by].count

\* Every message is queued or in a file, and in each once.
Once ==
    /\ Elems(msgChan) \subseteq accepted /\ Distinct(msgChan)
    /\ \A f \in Log!Adapters :
            /\ Elems(files[f]) \subseteq accepted \ Elems(msgChan) /\ Distinct(files[f])
            /\ \A m \in Elems(files[f]) : Log!Takes(f, m)

\* Nothing is lost while there are adapters.
InFiles == UNION {Elems(files[f]) : f \in Log!Adapters}
Delivered ==
    /\ asynchronous => outputs \in {Log!Files, {}}
    /\ asynchronous /\ outputs = Log!Files => accepted \subseteq Elems(msgChan) \cup InFiles
    /\ ~asynchronous => accepted \subseteq InFiles

Synchronous ==
    ~asynchronous =>
        /\ signalChan = <<>> /\ worker = "over"
        /\ \A o \in Owners : owner[o].at \notin {"signal", "wait", "add"}

ClosedLast ==
    closed # {} => \E o \in Owners : owner[o].call = "close" /\ owner[o].at = "done"

\* As long as calls do not overlap there is one at a time, and none after Close.
Quiet == wg = 1 /\ signalChan = <<>> /\ worker = "select"
Over == wg = 0 /\ signalChan = <<>> /\ worker = "over"
SignalOf(o) == IF owner[o].call = "close" THEN "close" ELSE "flush"
Waiting(o) ==
    \/ wg = 1 /\ signalChan = <<SignalOf(o)>> /\ worker = "select"
    \/ wg = 1 /\ signalChan = <<>> /\ worker = SignalOf(o)
    \/ /\ wg = 0 /\ signalChan = <<>>
       /\ worker = IF owner[o].call = "close" THEN "over" ELSE "select"
Stage(o) ==
    /\ owner[o].at = "signal" => Quiet
    /\ owner[o].at = "wait" => Waiting(o)
    /\ owner[o].at = "add" =>
            owner[o].call # "close" /\ wg = 0 /\ signalChan = <<>> /\ worker = "select"
    /\ owner[o].at = "flushed" => IF owner[o].call = "close" THEN Over ELSE Quiet
OneByOne ==
    /\ \A o \in Owners : owner[o].at = "idle" <=> owner[o].call = "none"
    /\ ~overlap =>
        /\ \A o, p \in Owners : Log!Busy(o) /\ Log!Busy(p) => o = p
        /\ \A o, p \in Owners : owner[o].call = "close" /\ owner[p].call = "close" => o = p
        /\ \A o, p \in Owners : owner[o].call = "close" /\ Log!Busy(p) => o = p
Protocol ==
    ~overlap /\ asynchronous =>
        /\ \A o \in Owners : Stage(o)
        /\ \A o \in Owners : owner[o].call = "close" /\ owner[o].at = "done" => Over
        /\ (\A o \in Owners : ~Log!Busy(o) /\ owner[o].call # "close") => Quiet

\* The adapters are destroyed at the end of Reset and Close only.
Emptied ==
    ~overlap /\ asynchronous /\ outputs = {} =>
        \E o \in Owners :
            \/ owner[o].call \in {"reset", "close"} /\ owner[o].at = "done"
            \/ owner[o].call = "close" /\ owner[o].at = "flushed"
            \/ owner[o].call = "close" /\ owner[o].at = "wait" /\ wg = 0

\* What an owner asked for is in the files when the worker has answered it.
Alone(o) == \A p \in Owners \ {o} : owner[p].call \in {"none", "flush"}
Answered(o) == owner[o].at \in {"add", "flushed", "done"} \/ (owner[o].at = "wait" /\ wg = 0)
Fulfilled ==
    ~overlap /\ asynchronous =>
        \A o \in Owners : Alone(o) /\ Answered(o) => due[o] \subseteq InFiles

Panics ==
    ~overlap /\ panic => "msgChan" \in closed /\ \E l \in Loggers : logger[l].pending # <<>>

LogInv ==
    /\ DataTypes /\ OwnerTypes /\ Numbered /\ Once /\ Delivered /\ Synchronous
    /\ ClosedLast /\ OneByOne /\ Protocol /\ Emptied /\ Fulfilled /\ Panics

\* Queues without a message twice.
LEMMA ElemsAppend ==
    ASSUME NEW S, NEW q \in Seq(S), NEW x \in S
    PROVE  /\ Append(q, x) \in Seq(S) /\ Elems(Append(q, x)) = Elems(q) \cup {x}
           /\ Distinct(q) /\ x \notin Elems(q) => Distinct(Append(q, x))
<1> DEFINE p == Append(q, x)
<1>1. /\ Len(q) \in Nat /\ p \in Seq(S) /\ Len(p) = Len(q) + 1
      /\ \A i \in 1 .. Len(q) : p[i] = q[i]
      /\ p[Len(q) + 1] = x
    BY AppendProperties, LenProperties
<1> HIDE DEF p
<1>2. \A i \in 1 .. Len(p) : i \in 1 .. Len(q) \/ i = Len(q) + 1
    BY <1>1
<1>3. 1 .. Len(q) \subseteq 1 .. Len(p) /\ Len(q) + 1 \in 1 .. Len(p)
    BY <1>1
<1>4. Elems(p) = Elems(q) \cup {x}
    BY <1>1, <1>2, <1>3 DEF Elems
<1>5. Distinct(q) /\ x \notin Elems(q) => Distinct(p)
    BY <1>1, <1>2 DEF Elems, Distinct
<1> QED BY <1>1, <1>4, <1>5 DEF p

LEMMA ElemsTail ==
    ASSUME NEW S, NEW q \in Seq(S), q # <<>>
    PROVE  /\ q[1] \in S /\ q[1] \in Elems(q) /\ Tail(q) \in Seq(S)
           /\ Elems(q) = Elems(Tail(q)) \cup {q[1]}
           /\ Distinct(q) => Distinct(Tail(q)) /\ q[1] \notin Elems(Tail(q))
<1> DEFINE p == Tail(q)
<1>1. /\ Len(q) \in Nat /\ p \in Seq(S) /\ Len(p) = Len(q) - 1 /\ Len(q) >= 1
      /\ \A i \in 1 .. Len(p) : p[i] = q[i + 1]
    BY HeadTailProperties, LenProperties, EmptySeq
<1> HIDE DEF p
<1>2. q[1] \in S /\ q[1] \in Elems(q)
    BY <1>1 DEF Elems
<1>3. \A i \in 1 .. Len(q) : i = 1 \/ (i - 1 \in 1 .. Len(p) /\ q[i] = p[i - 1])
    BY <1>1
<1>4. \A i \in 1 .. Len(p) : i + 1 \in 1 .. Len(q) /\ p[i] = q[i + 1] /\ i + 1 # 1
    BY <1>1
<1>5. Elems(q) = Elems(p) \cup {q[1]}
  <2>1. Elems(q) \subseteq Elems(p) \cup {q[1]}
      BY <1>3 DEF Elems
  <2>2. Elems(p) \subseteq Elems(q)
      BY <1>4 DEF Elems
  <2> QED BY <1>2, <2>1, <2>2
<1>6. Distinct(q) => Distinct(p) /\ q[1] \notin Elems(p)
    BY <1>1, <1>4 DEF Elems, Distinct
<1> QED BY <1>1, <1>2, <1>5, <1>6 DEF p

LEMMA DistinctSize ==
    ASSUME NEW S, NEW q \in Seq(S), Distinct(q)
    PROVE  Log!Cardinality(Log!Range(q)) = Len(q)
<1>1. Log!Range(q) = Elems(q)
    BY DEF Log!Range, Elems
<1>2. Len(q) \in Nat /\ q \in [1 .. Len(q) -> Elems(q)]
    BY LenProperties DEF Elems
<1>3. q \in Bijection(1 .. Len(q), Elems(q))
  <2>1. q \in Injection(1 .. Len(q), Elems(q))
    <3>1. \A i, j \in 1 .. Len(q) : q[i] = q[j] => i = j
        BY DEF Distinct
    <3> QED BY <1>2, <3>1 DEF Injection, IsInjective
  <2>2. \A m \in Elems(q) : \E i \in 1 .. Len(q) : q[i] = m
      BY DEF Elems
  <2>3. q \in Surjection(1 .. Len(q), Elems(q))
      BY <1>2, <2>2 DEF Surjection
  <2> QED BY <2>1, <2>3 DEF Bijection
<1>4. Cardinality(Elems(q)) = Len(q)
    BY <1>2, <1>3, FS_CountingElements DEF ExistsBijection
<1> QED BY <1>1, <1>4 DEF Log!Cardinality, Cardinality

\* A message is written to the adapters that take it.
LEMMA WriteTo ==
    ASSUME DataTypes, Once, NEW adapters, NEW msg \in Msgs, Log!writeToLoggers(adapters, msg),
           \A f \in Log!Adapters : msg \notin Elems(files[f])
    PROVE  /\ files' \in [Log!Adapters -> Seq(Msgs)]
           /\ \A f \in Log!Adapters :
                /\ Elems(files'[f]) =
                     Elems(files[f]) \cup IF f \in adapters /\ Log!Takes(f, msg) THEN {msg} ELSE {}
                /\ Distinct(files'[f])
<1> SUFFICES ASSUME NEW f \in Log!Adapters
             PROVE  /\ files'[f] \in Seq(Msgs)
                    /\ Elems(files'[f]) = Elems(files[f])
                         \cup IF f \in adapters /\ Log!Takes(f, msg) THEN {msg} ELSE {}
                    /\ Distinct(files'[f])
    BY DEF Log!writeToLoggers
<1>1. files[f] \in Seq(Msgs) /\ Distinct(files[f]) /\ msg \notin Elems(files[f])
    BY DEF DataTypes, Once
<1>2. files'[f] = IF f \in adapters /\ Log!Takes(f, msg) THEN Append(files[f], msg) ELSE files[f]
    BY DEF Log!writeToLoggers
<1> QED BY <1>1, <1>2, ElemsAppend

\* Some file takes every message.
LEMMA SomeFileTakes ==
    ASSUME NEW msg \in Msgs, settings \in BOOLEAN
    PROVE  /\ \E f \in Log!Files : Log!Takes(f, msg)
           /\ Log!Takes("console", msg)
           /\ ~settings => ~(Log!Takes("error_file", msg) /\ Log!Takes("access_file", msg))
<1>1. msg.level \in {3, 4, 7}
    BY DEF Msgs, Log!LevelError, Log!LevelWarn, Log!LevelDebug
<1> QED BY <1>1 DEF Log!Files, Log!Takes, Log!MinLevel, Log!MaxLevel, Log!LevelEmergency,
           Log!LevelError, Log!LevelWarn, Log!LevelNotice, Log!LevelDebug
-----------------------------------------------------------------------------
\* Steps of the messages leave the calls of the owners as they are, ...
LEMMA CallsKept ==
    ASSUME LogInv, UNCHANGED <<asynchronous, signalChan, closed, wg, worker, owner, due, overlap>>,
           asynchronous => outputs' = outputs, accepted \subseteq accepted',
           InFiles \subseteq InFiles'
    PROVE  /\ OwnerTypes' /\ Synchronous' /\ ClosedLast' /\ OneByOne' /\ Protocol'
           /\ Emptied' /\ Fulfilled'
<1> USE DEF LogInv
<1>1. OwnerTypes'
    BY DEF OwnerTypes
<1>2. Synchronous' /\ ClosedLast' /\ OneByOne'
    BY DEF Synchronous, ClosedLast, OneByOne, Log!Busy
<1>3. Protocol'
    BY DEF Protocol, Stage, Waiting, SignalOf, Quiet, Over, Log!Busy
<1>4. Emptied'
    BY DEF Emptied
<1>5. Fulfilled'
    BY DEF Fulfilled, Alone, Answered
<1> QED BY <1>1, <1>2, <1>3, <1>4, <1>5

\* ... and steps of the calls leave the messages.
LEMMA MessagesKept ==
    ASSUME LogInv, UNCHANGED <<asynchronous, settings, logger, msgChan, files, accepted>>
    PROVE  DataTypes' /\ Numbered' /\ Once' /\ InFiles' = InFiles
<1> USE DEF LogInv
<1>1. DataTypes' /\ Numbered' /\ InFiles' = InFiles
    BY DEF DataTypes, Numbered, InFiles
<1>2. Once'
    BY DEF Once, Log!Takes, Log!MinLevel, Log!MaxLevel
<1> QED BY <1>1, <1>2

LEMMA InSomeFile == ASSUME NEW f \in Log!Adapters PROVE Elems(files[f]) \subseteq InFiles
BY DEF InFiles

LEMMA WriteMsgInv ==
    ASSUME LogInv, NEW l \in Loggers,
           NEW level \in {Log!LevelError, Log!LevelWarn, Log!LevelDebug}, Log!writeMsg(l, level)
    PROVE  LogInv'
<1> USE DEF LogInv
<1> DEFINE msg == [by |-> l, nr |-> logger[l].count + 1, level |-> level]
<1>1. /\ UNCHANGED <<asynchronous, settings, msgChan, signalChan, closed, wg, worker, owner, due,
                     overlap, panic>>
      /\ logger[l].pending = <<>>
    BY DEF Log!writeMsg
<1>2. logger[l].count \in Nat /\ logger[l] \in [count : Nat, pending : Seq(Msgs)]
    BY DEF DataTypes
<1>3. msg \in Msgs /\ msg.by = l /\ msg.nr = logger[l].count + 1
    BY <1>2 DEF Msgs
<1> HIDE DEF msg
<1>4. msg \notin accepted
    BY <1>2, <1>3 DEF Numbered
<1>5. CASE asynchronous
  <2>1. /\ logger' = [logger EXCEPT ![l] = [count |-> @.count + 1, pending |-> <<msg>>]]
        /\ UNCHANGED <<files, accepted, outputs>>
      BY <1>5 DEF Log!writeMsg, msg
  <2>2. /\ logger'[l].count = logger[l].count + 1 /\ logger'[l].pending = <<msg>>
        /\ \A k \in Loggers \ {l} : logger'[k] = logger[k]
      BY <2>1 DEF DataTypes
  <2>3. logger' \in [Loggers -> [count : Nat, pending : Seq(Msgs)]]
      BY <1>2, <1>3, <2>1 DEF DataTypes
  <2>4. DataTypes'
      BY <1>1, <2>1, <2>3 DEF DataTypes
  <2>5. Numbered'
    <3>1. ASSUME NEW k \in Loggers, logger'[k].pending # <<>>
          PROVE  /\ asynchronous /\ logger'[k].pending = <<logger'[k].pending[1]>>
                 /\ logger'[k].pending[1].by = k
                 /\ logger'[k].pending[1].nr = logger'[k].count
        BY <1>3, <1>5, <2>2, <3>1 DEF Numbered
    <3>2. ASSUME NEW m \in accepted
          PROVE  /\ m.nr <= logger'[m.by].count
                 /\ logger'[m.by].pending # <<>> => m.nr < logger'[m.by].count
      <4>1. m.by \in Loggers /\ m.nr \in Nat
          BY DEF DataTypes, Msgs
      <4>2. CASE m.by = l
          BY <1>2, <2>2, <4>1, <4>2 DEF Numbered
      <4>3. CASE m.by # l
          BY <2>2, <4>1, <4>3 DEF Numbered
      <4> QED BY <4>2, <4>3
    <3> QED BY <1>1, <2>1, <3>1, <3>2 DEF Numbered
  <2>6. Once' /\ InFiles' = InFiles /\ Delivered'
      BY <1>1, <2>1 DEF Once, InFiles, Delivered, Log!Takes, Log!MinLevel, Log!MaxLevel
  <2>7. Panics'
      BY <1>1, <2>2 DEF Panics
  <2> QED BY <1>1, <2>1, <2>4, <2>5, <2>6, <2>7, CallsKept
<1>6. CASE ~asynchronous
  <2>1. /\ logger' = [logger EXCEPT ![l].count = @ + 1]
        /\ outputs' = outputs \cup {"console"} /\ Log!writeToLoggers(outputs', msg)
        /\ accepted' = accepted \cup {msg}
      BY <1>6 DEF Log!writeMsg, msg
  <2>2. /\ logger'[l].count = logger[l].count + 1 /\ logger'[l].pending = <<>>
        /\ \A k \in Loggers \ {l} : logger'[k] = logger[k]
      BY <1>1, <2>1 DEF DataTypes
  <2>3. logger' \in [Loggers -> [count : Nat, pending : Seq(Msgs)]]
    <3>1. [logger[l] EXCEPT !.count = @ + 1] \in [count : Nat, pending : Seq(Msgs)]
        BY <1>2
    <3>2. logger' = [logger EXCEPT ![l] = [logger[l] EXCEPT !.count = @ + 1]]
        BY <2>1
    <3> QED BY <3>1, <3>2 DEF DataTypes
  <2>4. Numbered'
    <3>1. ASSUME NEW k \in Loggers, logger'[k].pending # <<>>
          PROVE  /\ asynchronous /\ logger'[k].pending = <<logger'[k].pending[1]>>
                 /\ logger'[k].pending[1].by = k
                 /\ logger'[k].pending[1].nr = logger'[k].count
        BY <2>2, <3>1 DEF Numbered
    <3>2. ASSUME NEW m \in accepted \cup {msg}
          PROVE  /\ m.nr <= logger'[m.by].count
                 /\ logger'[m.by].pending # <<>> => m.nr < logger'[m.by].count
      <4>1. m.by \in Loggers /\ m.nr \in Nat
          BY <1>3 DEF DataTypes, Msgs
      <4>2. CASE m.by = l
          BY <1>2, <1>3, <2>2, <4>1, <4>2 DEF Numbered
      <4>3. CASE m.by # l
          BY <1>3, <2>2, <4>1, <4>3 DEF Numbered
      <4> QED BY <4>2, <4>3
    <3> QED BY <1>1, <2>1, <3>1, <3>2 DEF Numbered
  <2>5. \A f \in Log!Adapters : msg \notin Elems(files[f])
      BY <1>4 DEF Once
  <2>6. /\ files' \in [Log!Adapters -> Seq(Msgs)]
        /\ \A f \in Log!Adapters :
             /\ Elems(files'[f]) =
                  Elems(files[f]) \cup IF f \in outputs' /\ Log!Takes(f, msg) THEN {msg} ELSE {}
             /\ Distinct(files'[f])
      BY <1>3, <2>1, <2>5, WriteTo
  <2>7. DataTypes'
      BY <1>1, <1>3, <2>1, <2>3, <2>6 DEF DataTypes
  <2>8. \A f, m : Log!Takes(f, m)' = Log!Takes(f, m)
      BY <1>1 DEF Log!Takes, Log!MinLevel, Log!MaxLevel
  <2>9. Once'
      BY <1>1, <1>4, <2>1, <2>6, <2>8 DEF Once
  <2>10. InFiles \subseteq InFiles'
      BY <2>6 DEF InFiles
  <2>11. msg \in InFiles'
    <3>1. "console" \in outputs' /\ "console" \in Log!Adapters
        BY <2>1 DEF Log!Adapters
    <3>2. Log!Takes("console", msg)
        BY <1>3, SomeFileTakes DEF DataTypes
    <3> QED BY <2>6, <3>1, <3>2 DEF InFiles
  <2>12. Delivered'
      BY <1>1, <1>6, <2>1, <2>10, <2>11 DEF Delivered
  <2>13. Panics'
      BY <1>1, <2>2 DEF Panics
  <2> QED BY <1>1, <1>6, <2>1, <2>4, <2>7, <2>9, <2>10, <2>12, <2>13, CallsKept
<1> QED BY <1>5, <1>6 DEF DataTypes
LEMMA QueueInv ==
    ASSUME LogInv, NEW l \in Loggers, Log!Queue(l)
    PROVE  LogInv'
<1> USE DEF LogInv
<1>1. /\ UNCHANGED <<asynchronous, settings, signalChan, closed, wg, worker, outputs, files, owner,
                     due, overlap>>
      /\ logger[l].pending # <<>>
    BY DEF Log!Queue
<1>2. CASE "msgChan" \in closed
  <2>1. panic' = TRUE /\ UNCHANGED <<msgChan, accepted, logger>>
      BY <1>2 DEF Log!Queue
  <2>2. DataTypes' /\ Numbered' /\ Once' /\ InFiles' = InFiles
      BY <1>1, <2>1, MessagesKept
  <2>3. Delivered' /\ Panics'
      BY <1>1, <1>2, <2>1, <2>2 DEF Delivered, Panics
  <2> QED BY <1>1, <2>1, <2>2, <2>3, CallsKept
<1>3. CASE "msgChan" \notin closed
  <2> DEFINE msg == logger[l].pending[1]
  <2>1. /\ msgChan' = msgChan \o logger[l].pending
        /\ accepted' = accepted \cup Log!Range(logger[l].pending)
        /\ logger' = [logger EXCEPT ![l].pending = <<>>]
        /\ UNCHANGED panic
      BY <1>3 DEF Log!Queue
  <2>2. /\ logger[l].pending = <<msg>> /\ msg.by = l /\ msg.nr = logger[l].count
        /\ asynchronous
      BY <1>1 DEF Numbered
  <2>3. logger[l] \in [count : Nat, pending : Seq(Msgs)]
      BY DEF DataTypes
  <2>4. msg \in Msgs
    <3>1. logger[l].pending \in Seq(Msgs)
        BY <2>3
    <3> QED BY <1>1, <3>1, ElemsTail
  <2> HIDE DEF msg
  <2>5. msgChan' = Append(msgChan, msg) /\ accepted' = accepted \cup {msg}
    <3>1. msgChan \o <<msg>> = Append(msgChan, msg)
        BY <2>4, AppendIsConcat DEF DataTypes
    <3>2. Log!Range(<<msg>>) = {msg}
        BY DEF Log!Range
    <3> QED BY <2>1, <2>2, <3>1, <3>2
  <2>6. msg \notin accepted
      BY <1>1, <2>2, <2>3 DEF Numbered
  <2>7. /\ Elems(msgChan') = Elems(msgChan) \cup {msg} /\ Distinct(msgChan')
        /\ msgChan' \in Seq(Msgs)
      BY <2>4, <2>5, <2>6, ElemsAppend DEF DataTypes, Once
  <2>8. /\ logger'[l].count = logger[l].count /\ logger'[l].pending = <<>>
        /\ \A k \in Loggers \ {l} : logger'[k] = logger[k]
      BY <2>1 DEF DataTypes
  <2>9. logger' \in [Loggers -> [count : Nat, pending : Seq(Msgs)]]
    <3>1. [logger[l] EXCEPT !.pending = <<>>] \in [count : Nat, pending : Seq(Msgs)]
      <4>1. <<>> \in Seq(Msgs)
          OBVIOUS
      <4> QED BY <2>3, <4>1, Zenon
    <3>2. logger' = [logger EXCEPT ![l] = [logger[l] EXCEPT !.pending = <<>>]]
        BY <2>1
    <3> QED BY <3>1, <3>2 DEF DataTypes
  <2>10. DataTypes'
      BY <1>1, <2>4, <2>5, <2>7, <2>9 DEF DataTypes
  <2>11. Numbered'
    <3>1. ASSUME NEW k \in Loggers, logger'[k].pending # <<>>
          PROVE  /\ asynchronous /\ logger'[k].pending = <<logger'[k].pending[1]>>
                 /\ logger'[k].pending[1].by = k
                 /\ logger'[k].pending[1].nr = logger'[k].count
        BY <2>8, <3>1 DEF Numbered
    <3>2. ASSUME NEW m \in accepted \cup {msg}
          PROVE  /\ m.nr <= logger'[m.by].count
                 /\ logger'[m.by].pending # <<>> => m.nr < logger'[m.by].count
      <4>1. m.by \in Loggers /\ m.nr \in Nat
          BY <2>4 DEF DataTypes, Msgs
      <4>2. CASE m.by = l
          BY <2>2, <2>3, <2>8, <4>1, <4>2 DEF Numbered
      <4>3. CASE m.by # l
          BY <2>2, <2>8, <4>1, <4>3 DEF Numbered
      <4> QED BY <4>2, <4>3
    <3> QED BY <1>1, <2>5, <3>1, <3>2 DEF Numbered
  <2>12. \A f, m : Log!Takes(f, m)' = Log!Takes(f, m)
      BY <1>1 DEF Log!Takes, Log!MinLevel, Log!MaxLevel
  <2>13. Once'
      BY <1>1, <2>5, <2>6, <2>7, <2>12 DEF Once
  <2>14. Delivered' /\ InFiles' = InFiles
      BY <1>1, <2>2, <2>5, <2>7 DEF Delivered, InFiles
  <2>15. Panics'
      BY <1>1, <1>3, <2>1 DEF Panics
  <2> QED BY <1>1, <2>5, <2>10, <2>11, <2>13, <2>14, <2>15, CallsKept
<1> QED BY <1>2, <1>3

\* The worker writes the first message of the queue.
LEMMA TakeInv ==
    ASSUME LogInv, worker # "over", msgChan # <<>>, Log!writeToLoggers(outputs, msgChan[1]),
           msgChan' = Tail(msgChan),
           UNCHANGED <<asynchronous, settings, logger, signalChan, closed, wg, worker, outputs,
                       accepted, owner, due, overlap, panic>>
    PROVE  LogInv'
<1> USE DEF LogInv
<1> DEFINE msg == msgChan[1]
<1>1. /\ msg \in Msgs /\ msg \in Elems(msgChan) /\ msgChan' \in Seq(Msgs)
      /\ Elems(msgChan) = Elems(msgChan') \cup {msg}
      /\ Distinct(msgChan') /\ msg \notin Elems(msgChan')
    BY ElemsTail DEF DataTypes, Once
<1>2. Log!writeToLoggers(outputs, msg)
    OBVIOUS
<1> HIDE DEF msg
<1>3. asynchronous
    BY DEF Synchronous, DataTypes
<1>4. \A f \in Log!Adapters : msg \notin Elems(files[f])
    BY <1>1 DEF Once
<1>5. /\ files' \in [Log!Adapters -> Seq(Msgs)]
      /\ \A f \in Log!Adapters :
           /\ Elems(files'[f]) =
                Elems(files[f]) \cup IF f \in outputs /\ Log!Takes(f, msg) THEN {msg} ELSE {}
           /\ Distinct(files'[f])
    BY <1>1, <1>2, <1>4, WriteTo
<1>6. DataTypes' /\ Numbered'
    BY <1>1, <1>5 DEF DataTypes, Numbered
<1>7. \A f, m : Log!Takes(f, m)' = Log!Takes(f, m)
    BY DEF Log!Takes, Log!MinLevel, Log!MaxLevel
<1>8. Once'
    BY <1>1, <1>5, <1>7 DEF Once
<1>9. InFiles \subseteq InFiles'
    BY <1>5 DEF InFiles
<1>10. Delivered'
  <2>1. ASSUME outputs = Log!Files PROVE msg \in InFiles'
    <3>1. PICK f \in Log!Files : Log!Takes(f, msg)
        BY <1>1, SomeFileTakes DEF DataTypes
    <3>2. f \in Log!Adapters
        BY DEF Log!Adapters
    <3> QED BY <1>5, <2>1, <3>1, <3>2 DEF InFiles
  <2> QED BY <1>1, <1>3, <1>9, <2>1 DEF Delivered
<1>11. Panics'
    BY DEF Panics
<1> QED BY <1>6, <1>8, <1>9, <1>10, <1>11, CallsKept
-----------------------------------------------------------------------------
LEMMA LogInitially == Log!Init => LogInv
<1> SUFFICES ASSUME Log!Init PROVE LogInv
    OBVIOUS
<1>1. /\ \A o \in Owners : owner[o].call = "none" /\ owner[o].at = "idle"
      /\ owner \in [Owners -> [call : {"none", "flush", "reset", "close"},
                               at : {"idle", "signal", "wait", "add", "flushed", "done"}]]
      /\ due \in [Owners -> SUBSET accepted]
    BY DEF Log!Init, Log!NoCall
<1>2. OwnerTypes
    BY <1>1 DEF OwnerTypes
<1>3. \A S : <<>> \in Seq(S)
    OBVIOUS
<1>4. /\ \A l \in Loggers : logger[l].pending = <<>>
      /\ logger \in [Loggers -> [count : Nat, pending : Seq(Msgs)]]
  <2>1. [count |-> 0, pending |-> <<>>] \in [count : Nat, pending : Seq(Msgs)]
      BY <1>3
  <2>2. logger = [l \in Loggers |-> [count |-> 0, pending |-> <<>>]]
      BY DEF Log!Init
  <2> QED BY <2>1, <2>2
<1>5. /\ \A f \in Log!Adapters : files[f] = <<>>
      /\ files \in [Log!Adapters -> Seq(Msgs)]
    BY <1>3 DEF Log!Init
<1>6. accepted = {} /\ msgChan = <<>>
    BY DEF Log!Init
<1>7. asynchronous \in BOOLEAN /\ settings \in BOOLEAN
    BY DEF Log!Init
<1>8. DataTypes /\ Numbered
    BY <1>3, <1>4, <1>5, <1>6, <1>7 DEF DataTypes, Numbered
<1>9. Elems(<<>>) = {} /\ Distinct(<<>>)
    BY DEF Elems, Distinct
<1>10. Once
    BY <1>5, <1>6, <1>9 DEF Once
<1>11. Delivered
    BY <1>6 DEF Delivered, Log!Init
<1>12. Synchronous /\ ClosedLast /\ OneByOne /\ Panics
    BY <1>1 DEF Synchronous, ClosedLast, OneByOne, Panics, Log!Busy, Log!Init
<1>13. Protocol /\ Emptied /\ Fulfilled
  <2>1. asynchronous => Quiet /\ outputs # {}
      BY DEF Quiet, Log!Files, Log!Init
  <2> QED BY <1>1, <2>1 DEF Protocol, Stage, Emptied, Fulfilled, Answered
<1> QED BY <1>2, <1>8, <1>10, <1>11, <1>12, <1>13 DEF LogInv

\* A signal on its way or served is the one of the only owner that is not idle.
LEMMA Served ==
    ASSUME LogInv, ~overlap, asynchronous, signalChan # <<>> \/ worker \in {"flush", "close"}
    PROVE  \E o \in Owners :
             /\ owner[o].at = "wait" /\ wg = 1
             /\ \A p \in Owners : Log!Busy(p) \/ owner[p].call = "close" => p = o
             /\ \/ signalChan = <<SignalOf(o)>> /\ worker = "select"
                \/ signalChan = <<>> /\ worker = SignalOf(o)
<1> USE DEF LogInv
<1>1. ~Quiet /\ ~Over
    BY DEF Quiet, Over
<1>2. \A p \in Owners : owner[p].call = "close" => Log!Busy(p)
    BY <1>1 DEF Protocol, OneByOne, Log!Busy
<1>3. PICK o \in Owners : Log!Busy(o)
    BY <1>1, <1>2 DEF Protocol
<1>4. owner[o].at \in {"signal", "wait", "add", "flushed"} /\ Stage(o)
    BY <1>3 DEF Protocol, OwnerTypes, Log!Busy
<1>5. owner[o].at = "wait" /\ Waiting(o)
    BY <1>1, <1>4 DEF Stage
<1>6. \A p \in Owners : Log!Busy(p) \/ owner[p].call = "close" => p = o
    BY <1>2, <1>3 DEF OneByOne
<1> QED BY <1>5, <1>6 DEF Waiting

LEMMA TakeSignalInv == ASSUME LogInv, Log!TakeSignal PROVE LogInv'
<1> USE DEF LogInv
<1>1. /\ UNCHANGED <<asynchronous, settings, logger, msgChan, closed, wg, outputs, files, accepted,
                     owner, due, overlap, panic>>
      /\ worker = "select" /\ signalChan # <<>>
      /\ worker' = signalChan[1] /\ signalChan' = Tail(signalChan)
    BY DEF Log!TakeSignal
<1>2. DataTypes' /\ Numbered' /\ Once' /\ InFiles' = InFiles
    BY <1>1, MessagesKept
<1>3. /\ OwnerTypes' /\ Delivered' /\ ClosedLast' /\ OneByOne' /\ Emptied' /\ Panics' /\ Fulfilled'
      /\ Synchronous'
    BY <1>1, <1>2 DEF OwnerTypes, Delivered, ClosedLast, OneByOne, Emptied, Panics, Fulfilled, Alone,
                      Answered, Log!Busy, Synchronous, DataTypes
<1>4. Protocol'
  <2> SUFFICES ASSUME ~overlap, asynchronous PROVE Protocol'
      BY <1>1 DEF Protocol
  <2>1. PICK o \in Owners :
             /\ owner[o].at = "wait" /\ wg = 1
             /\ \A p \in Owners : Log!Busy(p) \/ owner[p].call = "close" => p = o
             /\ \/ signalChan = <<SignalOf(o)>> /\ worker = "select"
                \/ signalChan = <<>> /\ worker = SignalOf(o)
      BY <1>1, Served
  <2>2. worker' = SignalOf(o) /\ signalChan' = <<>> /\ wg' = 1
      BY <1>1, <2>1
  <2>3. Stage(o)'
      BY <1>1, <2>1, <2>2 DEF Stage, Waiting, SignalOf
  <2>4. \A p \in Owners \ {o} : Stage(p)'
      BY <1>1, <2>1 DEF Stage, Log!Busy
  <2> QED BY <1>1, <2>1, <2>3, <2>4 DEF Protocol, Log!Busy
<1> QED BY <1>2, <1>3, <1>4

LEMMA FlushedInv == ASSUME LogInv, Log!Flushed PROVE LogInv'
<1> USE DEF LogInv
<1>1. /\ UNCHANGED <<asynchronous, settings, logger, msgChan, signalChan, closed, files, accepted,
                     owner, due, overlap>>
      /\ worker \in {"flush", "close"} /\ msgChan = <<>>
      /\ worker' = IF worker = "close" THEN "over" ELSE "select"
      /\ outputs' = IF worker = "close" THEN {} ELSE outputs
      /\ IF wg = 0 THEN panic' = TRUE /\ UNCHANGED wg ELSE wg' = wg - 1 /\ UNCHANGED panic
    BY DEF Log!Flushed
<1>2. DataTypes' /\ Numbered' /\ Once' /\ InFiles' = InFiles
    BY <1>1, MessagesKept
<1>3. asynchronous
    BY <1>1 DEF Synchronous, DataTypes
<1>4. OwnerTypes' /\ Delivered' /\ ClosedLast' /\ OneByOne' /\ Synchronous'
    BY <1>1, <1>2, <1>3 DEF OwnerTypes, Delivered, ClosedLast, OneByOne, Synchronous, Log!Busy
<1>5. CASE overlap
    BY <1>1, <1>2, <1>4, <1>5 DEF Protocol, Emptied, Fulfilled, Panics
<1>6. CASE ~overlap
  <2>1. PICK o \in Owners :
             /\ owner[o].at = "wait" /\ wg = 1
             /\ \A p \in Owners : Log!Busy(p) \/ owner[p].call = "close" => p = o
             /\ \/ signalChan = <<SignalOf(o)>> /\ worker = "select"
                \/ signalChan = <<>> /\ worker = SignalOf(o)
      BY <1>1, <1>3, <1>6, Served
  <2>2. wg' = 0 /\ signalChan' = <<>> /\ worker = SignalOf(o) /\ UNCHANGED panic
      BY <1>1, <2>1
  <2>3. Stage(o)'
      BY <1>1, <2>1, <2>2 DEF Stage, Waiting, SignalOf
  <2>4. \A p \in Owners \ {o} : Stage(p)'
      BY <1>1, <2>1 DEF Stage, Log!Busy
  <2>5. Protocol'
      BY <1>1, <2>1, <2>3, <2>4 DEF Protocol, Log!Busy
  <2>6. outputs = {} => \E p \in Owners \ {o} :
                            owner[p].call \in {"reset", "close"} /\ owner[p].at = "done"
      BY <1>3, <1>6, <2>1 DEF Emptied, Log!Busy
  <2>7. Emptied'
    <3>1. CASE worker = "close"
        BY <1>1, <2>1, <2>2, <3>1 DEF Emptied, SignalOf
    <3>2. CASE worker # "close"
        BY <1>1, <2>6, <3>2 DEF Emptied
    <3> QED BY <3>1, <3>2
  <2>8. Fulfilled'
    <3> SUFFICES ASSUME NEW p \in Owners, Alone(p)', Answered(p)'
                 PROVE  due[p] \subseteq InFiles
        BY <1>1, <1>2 DEF Fulfilled
    <3>1. CASE p = o
      <4>1. outputs = Log!Files
          BY <1>1, <1>3, <2>6, <3>1 DEF Delivered, Alone
      <4>2. accepted \subseteq InFiles
          BY <1>1, <1>3, <4>1 DEF Delivered, Elems
      <4> QED BY <4>2 DEF OwnerTypes
    <3>2. CASE p # o
      <4>1. Alone(p) /\ owner[p].at \in {"idle", "done"}
          BY <1>1, <2>1, <3>2 DEF Alone, Log!Busy
      <4>2. Answered(p)
          BY <1>1, <4>1 DEF Answered
      <4> QED BY <1>3, <1>6, <4>1, <4>2 DEF Fulfilled
    <3> QED BY <3>1, <3>2
  <2>9. Panics'
      BY <1>1, <2>2 DEF Panics
  <2> QED BY <1>2, <1>4, <2>5, <2>7, <2>8, <2>9
<1> QED BY <1>5, <1>6
LEMMA OwnerGoes ==
    ASSUME OwnerTypes, NEW o \in Owners, NEW at \in {"wait", "add", "flushed", "done"},
           Log!Goto(o, at)
    PROVE  /\ owner'[o].at = at /\ owner'[o].call = owner[o].call
           /\ \A p \in Owners \ {o} : owner'[p] = owner[p]
           /\ owner' \in [Owners -> [call : {"none", "flush", "reset", "close"},
                                     at : {"idle", "signal", "wait", "add", "flushed", "done"}]]
BY DEF OwnerTypes, Log!Goto

\* Only one owner is busy, and none has closed the logger.
LEMMA TheBusyOne ==
    ASSUME LogInv, ~overlap, NEW o \in Owners, Log!Busy(o)
    PROVE  /\ \A p \in Owners \ {o} : owner[p].at \in {"idle", "done"} /\ owner[p].call # "close"
           /\ closed = {}
<1>1. \A p \in Owners \ {o} : owner[p].at \in {"idle", "done"} /\ owner[p].call # "close"
    BY DEF LogInv, OneByOne, Log!Busy
<1>2. closed = {}
    BY <1>1 DEF LogInv, ClosedLast, Log!Busy
<1> QED BY <1>1, <1>2

LEMMA AskInv ==
    ASSUME LogInv, NEW o \in Owners, NEW call0 \in {"flush", "reset", "close"}, Log!Ask(o, call0)
    PROVE  LogInv'
<1> USE DEF LogInv
<1>1. /\ UNCHANGED <<asynchronous, settings, logger, msgChan, signalChan, closed, wg, worker,
                     outputs, files, accepted, panic>>
      /\ owner[o].at = "idle" /\ due' = [due EXCEPT ![o] = accepted]
      /\ overlap' = (overlap \/ \E p \in Owners : Log!Busy(p) \/ owner[p].call = "close")
      /\ owner' = [owner EXCEPT ![o] =
                    [call |-> call0, at |-> IF asynchronous THEN "signal" ELSE "flushed"]]
    BY DEF Log!Ask
<1>2. DataTypes' /\ Numbered' /\ Once' /\ InFiles' = InFiles
    BY <1>1, MessagesKept
<1>3. /\ owner'[o].call = call0 /\ owner'[o].at = IF asynchronous THEN "signal" ELSE "flushed"
      /\ \A p \in Owners \ {o} : owner'[p] = owner[p] /\ due'[p] = due[p]
      /\ owner[o].call = "none"
    BY <1>1 DEF OwnerTypes, OneByOne
<1>4. OwnerTypes'
    BY <1>1 DEF OwnerTypes
<1>5. Delivered' /\ ClosedLast' /\ Synchronous'
    BY <1>1, <1>2, <1>3 DEF Delivered, ClosedLast, Synchronous
<1>6. CASE overlap'
  <2>1. OneByOne'
      BY <1>1, <1>3, <1>6 DEF OneByOne
  <2>2. Protocol' /\ Emptied' /\ Fulfilled' /\ Panics'
      BY <1>6 DEF Protocol, Emptied, Fulfilled, Panics
  <2> QED BY <1>2, <1>4, <1>5, <2>1, <2>2
<1>7. CASE ~overlap'
  <2>1. ~overlap /\ \A p \in Owners : ~Log!Busy(p) /\ owner[p].call # "close"
      BY <1>1, <1>7
  <2>2. OneByOne'
      BY <1>1, <1>3, <2>1 DEF OneByOne, Log!Busy
  <2>3. asynchronous => Quiet
      BY <2>1 DEF Protocol
  <2>4. Protocol'
      BY <1>1, <1>3, <2>1, <2>3 DEF Protocol, Stage, Quiet, Log!Busy
  <2>5. Emptied'
      BY <1>1, <1>3, <2>1 DEF Emptied, Log!Busy
  <2>6. Fulfilled'
    <3> SUFFICES ASSUME asynchronous, NEW p \in Owners, Alone(p)', Answered(p)'
                 PROVE  due'[p] \subseteq InFiles
        BY <1>1, <1>2 DEF Fulfilled
    <3>1. p # o
        BY <1>3 DEF Answered
    <3>2. Alone(p) /\ Answered(p)
        BY <1>1, <1>3, <3>1 DEF Alone, Answered
    <3> QED BY <1>3, <2>1, <3>1, <3>2 DEF Fulfilled
  <2>7. Panics'
      BY <1>1, <2>1 DEF Panics
  <2> QED BY <1>2, <1>4, <1>5, <2>2, <2>4, <2>5, <2>6, <2>7
<1> QED BY <1>6, <1>7

LEMMA SignalInv == ASSUME LogInv, NEW o \in Owners, Log!Signal(o) PROVE LogInv'
<1> USE DEF LogInv
<1>1. /\ UNCHANGED <<asynchronous, settings, logger, msgChan, closed, wg, worker, outputs, files,
                     accepted, due, overlap>>
      /\ owner[o].at = "signal" /\ Log!Busy(o) /\ asynchronous
    BY DEF Log!Signal, Log!Busy, Synchronous, DataTypes
<1>2. DataTypes' /\ Numbered' /\ Once' /\ InFiles' = InFiles /\ Delivered'
    BY <1>1, MessagesKept DEF Delivered
<1>3. CASE "signalChan" \in closed
  <2>1. overlap /\ UNCHANGED <<signalChan, owner>>
      BY <1>1, <1>3, TheBusyOne DEF Log!Signal
  <2> QED BY <1>1, <1>2, <2>1 DEF OwnerTypes, ClosedLast, OneByOne, Synchronous, Protocol, Emptied,
                                  Fulfilled, Panics
<1>4. CASE "signalChan" \notin closed
  <2>1. signalChan' = <<SignalOf(o)>> /\ Log!Goto(o, "wait") /\ UNCHANGED panic
      BY <1>4 DEF Log!Signal, SignalOf
  <2>2. /\ owner'[o].at = "wait" /\ owner'[o].call = owner[o].call
        /\ \A p \in Owners \ {o} : owner'[p] = owner[p]
        /\ OwnerTypes'
      BY <1>1, <2>1, OwnerGoes DEF OwnerTypes
  <2>3. ClosedLast' /\ OneByOne' /\ Synchronous' /\ Panics'
      BY <1>1, <2>1, <2>2 DEF ClosedLast, OneByOne, Synchronous, Panics, Log!Busy
  <2>4. CASE overlap
      BY <1>1, <1>2, <2>2, <2>3, <2>4 DEF Protocol, Emptied, Fulfilled
  <2>5. CASE ~overlap
    <3>1. \A p \in Owners \ {o} : owner[p].at \in {"idle", "done"} /\ owner[p].call # "close"
        BY <1>1, <2>5, TheBusyOne
    <3>2. Quiet
        BY <1>1, <2>5 DEF Protocol, Stage
    <3>3. Stage(o)'
        BY <1>1, <2>1, <2>2, <3>2 DEF Stage, Waiting, SignalOf, Quiet
    <3>4. Protocol'
        BY <2>2, <3>1, <3>3 DEF Protocol, Stage, Log!Busy
    <3>5. Emptied'
        BY <1>1, <2>2, <2>5, <3>1 DEF Emptied
    <3>6. Fulfilled'
      <4> SUFFICES ASSUME NEW p \in Owners, Alone(p)', Answered(p)'
                   PROVE  due[p] \subseteq InFiles
          BY <1>1, <1>2 DEF Fulfilled
      <4>1. p # o
          BY <1>1, <2>2, <3>2 DEF Answered, Quiet
      <4>2. Alone(p) /\ Answered(p)
          BY <1>1, <2>2, <4>1 DEF Alone, Answered
      <4> QED BY <1>1, <2>5, <4>2 DEF Fulfilled
    <3> QED BY <1>2, <2>2, <2>3, <3>4, <3>5, <3>6
  <2> QED BY <2>4, <2>5
<1> QED BY <1>3, <1>4

LEMMA WaitInv == ASSUME LogInv, NEW o \in Owners, Log!Wait(o) PROVE LogInv'
<1> USE DEF LogInv
<1>1. /\ UNCHANGED <<asynchronous, settings, logger, msgChan, signalChan, closed, wg, worker,
                     outputs, files, accepted, due, overlap, panic>>
      /\ owner[o].at = "wait" /\ wg = 0 /\ Log!Busy(o) /\ asynchronous
    BY DEF Log!Wait, Log!Busy, Synchronous, DataTypes
<1>2. DataTypes' /\ Numbered' /\ Once' /\ InFiles' = InFiles /\ Delivered'
    BY <1>1, MessagesKept DEF Delivered
<1>3. /\ owner'[o].at = (IF owner[o].call = "close" THEN "flushed" ELSE "add")
      /\ owner'[o].call = owner[o].call
      /\ \A p \in Owners \ {o} : owner'[p] = owner[p]
      /\ OwnerTypes'
  <2>1. CASE owner[o].call = "close"
      BY <1>1, <2>1, OwnerGoes DEF OwnerTypes, Log!Wait
  <2>2. CASE owner[o].call # "close"
      BY <1>1, <2>2, OwnerGoes DEF OwnerTypes, Log!Wait
  <2> QED BY <2>1, <2>2
<1>4. ClosedLast' /\ OneByOne' /\ Synchronous' /\ Panics'
    BY <1>1, <1>3 DEF ClosedLast, OneByOne, Synchronous, Panics, Log!Busy
<1>5. CASE overlap
    BY <1>1, <1>2, <1>3, <1>4, <1>5 DEF Protocol, Emptied, Fulfilled
<1>6. CASE ~overlap
  <2>1. \A p \in Owners \ {o} : owner[p].at \in {"idle", "done"} /\ owner[p].call # "close"
      BY <1>1, <1>6, TheBusyOne
  <2>2. Waiting(o)
      BY <1>1, <1>6 DEF Protocol, Stage
  <2>3. Stage(o)'
      BY <1>1, <1>3, <2>2 DEF Stage, Waiting, Over
  <2>4. Protocol'
      BY <1>3, <2>1, <2>3 DEF Protocol, Stage, Log!Busy
  <2>5. Emptied'
      BY <1>1, <1>3, <1>6, <2>1 DEF Emptied
  <2>6. Fulfilled'
    <3> SUFFICES ASSUME NEW p \in Owners, Alone(p)', Answered(p)'
                 PROVE  due[p] \subseteq InFiles
        BY <1>1, <1>2 DEF Fulfilled
    <3>1. Alone(p) /\ Answered(p)
        BY <1>1, <1>3 DEF Alone, Answered
    <3> QED BY <1>1, <1>6, <3>1 DEF Fulfilled
  <2> QED BY <1>2, <1>3, <1>4, <2>4, <2>5, <2>6
<1> QED BY <1>5, <1>6
LEMMA AddAgainInv == ASSUME LogInv, NEW o \in Owners, Log!AddAgain(o) PROVE LogInv'
<1> USE DEF LogInv
<1>1. /\ UNCHANGED <<asynchronous, settings, logger, msgChan, signalChan, closed, worker, outputs,
                     files, accepted, due, overlap, panic>>
      /\ owner[o].at = "add" /\ Log!Busy(o) /\ asynchronous
      /\ wg' = wg + 1 /\ Log!Goto(o, "flushed")
    BY DEF Log!AddAgain, Log!Busy, Synchronous, DataTypes
<1>2. DataTypes' /\ Numbered' /\ Once' /\ InFiles' = InFiles /\ Delivered'
    BY <1>1, MessagesKept DEF Delivered
<1>3. /\ owner'[o].at = "flushed" /\ owner'[o].call = owner[o].call
      /\ \A p \in Owners \ {o} : owner'[p] = owner[p]
      /\ OwnerTypes'
    BY <1>1, OwnerGoes DEF OwnerTypes
<1>4. ClosedLast' /\ OneByOne' /\ Synchronous' /\ Panics'
    BY <1>1, <1>3 DEF ClosedLast, OneByOne, Synchronous, Panics, Log!Busy
<1>5. CASE overlap
    BY <1>1, <1>2, <1>3, <1>4, <1>5 DEF Protocol, Emptied, Fulfilled
<1>6. CASE ~overlap
  <2>1. \A p \in Owners \ {o} : owner[p].at \in {"idle", "done"} /\ owner[p].call # "close"
      BY <1>1, <1>6, TheBusyOne
  <2>2. owner[o].call # "close" /\ wg' = 1 /\ signalChan = <<>> /\ worker = "select"
      BY <1>1, <1>6 DEF Protocol, Stage
  <2>3. Stage(o)'
      BY <1>1, <1>3, <2>2 DEF Stage, Quiet
  <2>4. Protocol'
      BY <1>3, <2>1, <2>2, <2>3 DEF Protocol, Stage, Log!Busy
  <2>5. Emptied'
      BY <1>1, <1>3, <1>6, <2>1 DEF Emptied
  <2>6. Fulfilled'
    <3> SUFFICES ASSUME NEW p \in Owners, Alone(p)', Answered(p)'
                 PROVE  due[p] \subseteq InFiles
        BY <1>1, <1>2 DEF Fulfilled
    <3>1. Alone(p) /\ Answered(p)
        BY <1>1, <1>3, <2>1 DEF Alone, Answered
    <3> QED BY <1>1, <1>6, <3>1 DEF Fulfilled
  <2> QED BY <1>2, <1>3, <1>4, <2>4, <2>5, <2>6
<1> QED BY <1>5, <1>6

LEMMA FinishInv == ASSUME LogInv, NEW o \in Owners, Log!Finish(o) PROVE LogInv'
<1> USE DEF LogInv
<1>1. /\ UNCHANGED <<asynchronous, settings, logger, msgChan, signalChan, wg, worker, files,
                     accepted, due, overlap>>
      /\ owner[o].at = "flushed" /\ Log!Busy(o)
    BY DEF Log!Finish, Log!Busy
<1>2. DataTypes' /\ Numbered' /\ Once' /\ InFiles' = InFiles
    BY <1>1, MessagesKept
<1>3. CASE owner[o].call = "close" /\ "signalChan" \in closed
  <2>1. overlap /\ UNCHANGED <<outputs, closed, owner>>
      BY <1>1, <1>3, TheBusyOne DEF Log!Finish
  <2> QED BY <1>1, <1>2, <2>1 DEF OwnerTypes, Delivered, ClosedLast, OneByOne, Synchronous, Protocol,
                                  Emptied, Fulfilled, Panics
<1>4. CASE ~(owner[o].call = "close" /\ "signalChan" \in closed)
  <2>1. /\ outputs' = IF owner[o].call = "flush" THEN outputs ELSE {}
        /\ closed' = IF owner[o].call = "close" THEN closed \cup Log!CloseChans ELSE closed
        /\ Log!Goto(o, "done") /\ UNCHANGED panic
      BY <1>4 DEF Log!Finish
  <2>2. /\ owner'[o].at = "done" /\ owner'[o].call = owner[o].call
        /\ \A p \in Owners \ {o} : owner'[p] = owner[p]
        /\ OwnerTypes'
      BY <1>1, <2>1, OwnerGoes DEF OwnerTypes
  <2>3. owner[o].call \in {"flush", "reset", "close"}
      BY <1>1 DEF OneByOne, OwnerTypes
  <2>4. Delivered' /\ Synchronous' /\ OneByOne'
      BY <1>1, <1>2, <2>1, <2>2 DEF Delivered, Synchronous, OneByOne, Log!Busy, Log!Files
  <2>5. ClosedLast'
      BY <1>1, <2>1, <2>2 DEF ClosedLast
  <2>6. CASE overlap
      BY <1>1, <1>2, <2>2, <2>4, <2>5, <2>6 DEF Protocol, Emptied, Fulfilled, Panics
  <2>7. CASE ~overlap
    <3>1. \A p \in Owners \ {o} : owner[p].at \in {"idle", "done"} /\ owner[p].call # "close"
        BY <1>1, <2>7, TheBusyOne
    <3>2. Panics'
        BY <1>1, <2>1, <2>7 DEF Panics
    <3>3. asynchronous => IF owner[o].call = "close" THEN Over ELSE Quiet
        BY <1>1, <2>7 DEF Protocol, Stage
    <3>4. Protocol'
        BY <1>1, <2>2, <3>1, <3>3 DEF Protocol, Stage, Over, Quiet, Log!Busy
    <3>5. Emptied'
        BY <1>1, <2>1, <2>2, <2>3, <2>7, <3>1 DEF Emptied
    <3>6. Fulfilled'
      <4> SUFFICES ASSUME asynchronous, NEW p \in Owners, Alone(p)', Answered(p)'
                   PROVE  due[p] \subseteq InFiles
          BY <1>1, <1>2 DEF Fulfilled
      <4>1. Alone(p) /\ Answered(p)
          BY <1>1, <2>2, <3>1 DEF Alone, Answered
      <4> QED BY <2>7, <4>1 DEF Fulfilled
    <3> QED BY <1>2, <2>2, <2>4, <2>5, <3>2, <3>4, <3>5, <3>6
  <2> QED BY <2>6, <2>7
<1> QED BY <1>3, <1>4

LEMMA LogStepKeeps == LogInv /\ [Log!Next]_(Log!logVars) => LogInv'
<1> SUFFICES ASSUME LogInv, [Log!Next]_(Log!logVars) PROVE LogInv'
    OBVIOUS
<1>1. CASE UNCHANGED Log!logVars
  <2>1. UNCHANGED <<asynchronous, settings, logger, msgChan, signalChan, closed, wg, worker, outputs,
                    files, accepted, owner, due, overlap, panic>>
      BY <1>1 DEF Log!logVars
  <2>2. DataTypes' /\ Numbered' /\ Once' /\ InFiles' = InFiles
      BY <2>1, MessagesKept
  <2>3. /\ OwnerTypes' /\ Synchronous' /\ ClosedLast' /\ OneByOne' /\ Protocol'
        /\ Emptied' /\ Fulfilled'
      BY <2>1, <2>2, CallsKept
  <2> QED BY <2>1, <2>2, <2>3 DEF LogInv, Delivered, Panics
<1>2. CASE Log!TakeMessage
    BY <1>2, TakeInv DEF Log!TakeMessage
<1>3. CASE Log!FlushNext
    BY <1>3, TakeInv DEF Log!FlushNext
<1> QED BY <1>1, <1>2, <1>3, WriteMsgInv, QueueInv, TakeSignalInv, FlushedInv, AskInv, SignalInv,
           WaitInv, AddAgainInv, FinishInv DEF Log!Next

LEMMA LogHolds == Spec => []LogInv
<1>1. Init => LogInv
    BY LogInitially DEF Init
<1>2. LogInv /\ [Next]_vars => LogInv'
  <2> SUFFICES ASSUME LogInv, [Next]_vars PROVE LogInv'
      OBVIOUS
  <2>1. [Log!Next]_(Log!logVars)
      BY DEF Next, CodecStep, ValueStep, LogStep, FileStep, MapStep, vars, logVars, Log!logVars
  <2> QED BY <2>1, LogStepKeeps
<1> QED BY <1>1, <1>2, PTL DEF Spec

\* Flush, Reset and Close return with all that was logged before in the files, unless calls
\* overlap; only a message logged while the logger is being closed brings it down; and every
\* message is written once, to one file if "file" is not configured.
THEOREM NothingLostByFlush == Spec => []FlushKeeps
<1>1. LogInv => FlushKeeps
  <2> SUFFICES ASSUME LogInv PROVE FlushKeeps
      OBVIOUS
  <2> USE DEF LogInv
  <2>1. \A f \in Log!Adapters : Log!Range(files[f]) = Elems(files[f])
      BY DEF DataTypes, Log!Range, Elems
  <2>2. Log!Written = InFiles
      BY <2>1 DEF Log!Written, InFiles
  <2>3. ASSUME ~overlap, NEW o \in Owners, owner[o].at = "done", Alone(o)
        PROVE  due[o] \subseteq Log!Written
    <3>1. CASE asynchronous
        BY <2>2, <2>3, <3>1 DEF Fulfilled, Answered
    <3>2. CASE ~asynchronous
        BY <2>2, <3>2 DEF Delivered, OwnerTypes
    <3> QED BY <3>1, <3>2 DEF DataTypes
  <2>4. ~settings => Log!Range(files["error_file"]) \cap Log!Range(files["access_file"]) = {}
    <3>1. {"error_file", "access_file"} \subseteq Log!Adapters
        BY DEF Log!Adapters, Log!Files
    <3>2. \A f \in Log!Adapters : \A m \in Elems(files[f]) : m \in Msgs /\ Log!Takes(f, m)
        BY DEF Once, DataTypes
    <3>3. \A m \in Msgs : ~settings =>
                ~(Log!Takes("error_file", m) /\ Log!Takes("access_file", m))
        BY SomeFileTakes DEF DataTypes
    <3> QED BY <2>1, <3>1, <3>2, <3>3
  <2>5. \A f \in Log!Adapters : Log!Cardinality(Log!Range(files[f])) = Len(files[f])
      BY DistinctSize DEF DataTypes, Once
  <2> QED BY <2>3, <2>4, <2>5 DEF FlushKeeps, Log!FlushKeeps, Alone, Panics
<1> QED BY <1>1, LogHolds, PTL

-----------------------------------------------------------------------------
\* The values of a call.

Names == SUBSET {"SESSION"}

\* A value that the callee holds goes back as it is, unless one of the processes has no
\* serializer for it.
Returns(y) ==
    \A ns, nt \in Names :
        LET w == Values!ArgsTypeAnd2Bytes(ns, y)
            z == Values!Bytes2Args(nt, w[1])
        IN  /\ w = <<>> => y.kind = "session" /\ ns = {}
            /\ w # <<>> /\ z = <<>> => y.kind = "session" /\ nt = {}
            /\ w # <<>> /\ z # <<>> => z[1] = y

\* What the callee holds for the caller's x.
Holds(x, y) ==
    /\ y.kind = x.kind
    /\ Values!Crosses(x) => y = x
    /\ Returns(y)

LEMMA Remainders ==
    ASSUME NEW n \in Nat \ {0}
    PROVE  /\ \A i \in 0 .. n - 1 : i % n = i
           /\ \A i \in Int : i % n \in 0 .. n - 1
<1>1. ASSUME NEW i \in 0 .. n - 1 PROVE i % n = i
    OBVIOUS
<1>2. ASSUME NEW i \in Int PROVE i % n \in 0 .. n - 1
    OBVIOUS
<1> QED BY <1>1, <1>2

\* A number of so many bits is the signed reading of its unsigned one.
LEMMA SignRestored ==
    ASSUME NEW n \in Nat \ {0}, n % 2 = 0, NEW i \in Values!WithSign(n)
    PROVE  Values!Signed(Values!Unsigned(i, n), n) = i
<1>1. n = 2 * (n \div 2) /\ n \div 2 \in Nat
    OBVIOUS
<1>2. CASE i >= 0
  <2>1. i \in 0 .. n - 1 /\ ~(i >= n \div 2)
      BY <1>1, <1>2 DEF Values!WithSign
  <2>2. i % n = i
      BY <2>1, Remainders
  <2> QED BY <2>1, <2>2 DEF Values!Signed, Values!Unsigned
<1>3. CASE i < 0
  <2>1. i % n = i + n
      BY <1>1, <1>3 DEF Values!WithSign
  <2> QED BY <1>1, <1>3, <2>1 DEF Values!WithSign, Values!Signed, Values!Unsigned
<1> QED BY <1>2, <1>3 DEF Values!WithSign

LEMMA TwoWords == Values!LongSize \in Nat \ {0} /\ Values!LongSize % 2 = 0
BY ValuesAssumption DEF Values!LongSize

\* JSON changes a number or bytes once.
LEMMA JsonTwice ==
    ASSUME NEW e \in [kind : Values!Kinds, v : Seq(Int)]
    PROVE  /\ Values!Json(Values!Json(e)) = Values!Json(e)
           /\ Values!Json(e).kind = "other" <=> e.kind = "other"
           /\ e.kind \in {"string", "bool", "double", "nil"} => Values!Json(e) = e
<1>1. e = [kind |-> e.kind, v |-> e.v]
    OBVIOUS
<1>2. CASE e.kind \in Values!Numbers
    BY <1>1, <1>2 DEF Values!Json, Values!Numbers, Values!Entry
<1>3. CASE e.kind = "bytes"
    BY <1>3 DEF Values!Json, Values!Numbers, Values!Entry
<1>4. CASE e.kind \notin Values!Numbers \cup {"bytes"}
    BY <1>4 DEF Values!Json, Values!Numbers
<1> QED BY <1>2, <1>3, <1>4

LEMMA JsonOfMap ==
    ASSUME NEW m \in Seq([kind : Values!Kinds, v : Seq(Int)]), NEW j,
           j = [k \in 1 .. Len(m) |-> Values!Json(m[k])], Values!HasJson(m)
    PROVE  /\ Len(j) = Len(m) /\ Values!HasJson(j)
           /\ j = [k \in 1 .. Len(j) |-> Values!Json(j[k])]
           /\ (\A k \in 1 .. Len(m) : m[k].kind \in {"string", "bool", "double", "nil"}) => j = m
<1>1. Len(m) \in Nat /\ m = [k \in 1 .. Len(m) |-> m[k]]
    OBVIOUS
<1>2. Len(j) = Len(m)
    BY <1>1
<1>3. \A k \in 1 .. Len(m) :
            /\ Values!Json(j[k]) = j[k] /\ j[k].kind # "other"
            /\ m[k].kind \in {"string", "bool", "double", "nil"} => j[k] = m[k]
  <2> SUFFICES ASSUME NEW k \in 1 .. Len(m)
               PROVE  /\ Values!Json(j[k]) = j[k] /\ j[k].kind # "other"
                      /\ m[k].kind \in {"string", "bool", "double", "nil"} => j[k] = m[k]
      OBVIOUS
  <2>1. j[k] = Values!Json(m[k])
      OBVIOUS
  <2>2. m[k] \in [kind : Values!Kinds, v : Seq(Int)]
      BY ElementOfSeq
  <2>3. m[k].kind # "other"
      BY DEF Values!HasJson
  <2> QED BY <2>1, <2>2, <2>3, JsonTwice
<1>4. Values!HasJson(j)
    BY <1>2, <1>3 DEF Values!HasJson
<1>5. j = [k \in 1 .. Len(j) |-> Values!Json(j[k])]
    BY <1>2, <1>3
<1>6. (\A k \in 1 .. Len(m) : m[k].kind \in {"string", "bool", "double", "nil"}) => j = m
    BY <1>1, <1>3
<1> QED BY <1>2, <1>4, <1>5, <1>6


\* Whoever converts and restores x, the result is y.
Becomes(x, y) ==
    \A ns, nt \in Names :
        LET w == Values!ArgsTypeAnd2Bytes(ns, x)
            z == Values!Bytes2Args(nt, w[1])
        IN  w # <<>> /\ z # <<>> /\ z[1] = y

\* What is converted as it is.
Plain == {"bytes", "string", "bool", "float", "double", "mapstr"}

LEMMA PlainCrosses ==
    ASSUME NEW x \in Values!Arguments, x.kind \in Plain
    PROVE  Becomes(x, x)
<1> SUFFICES ASSUME NEW ns \in Names, NEW nt \in Names
             PROVE  /\ Values!ArgsTypeAnd2Bytes(ns, x) = <<Values!OnWire(x.kind, x.v)>>
                    /\ Values!Bytes2Args(nt, Values!OnWire(x.kind, x.v)) = <<x>>
    BY DEF Becomes
<1>1. x = [kind |-> x.kind, v |-> x.v, entries |-> <<>>]
    BY DEF Values!Arguments, Plain
<1>2. Values!ArgsTypeAnd2Bytes(ns, x) = <<Values!OnWire(x.kind, x.v)>>
    BY DEF Values!ArgsTypeAnd2Bytes, Plain
<1>3. Values!Bytes2Args(nt, Values!OnWire(x.kind, x.v)) = <<Values!Value(x.kind, x.v)>>
    BY DEF Values!Bytes2Args, Values!OnWire, Plain
<1> QED BY <1>1, <1>2, <1>3 DEF Values!Value

LEMMA NilCrosses ==
    ASSUME NEW x \in Values!Arguments, x.kind = "nil"
    PROVE  Becomes(x, x)
<1>1. x = [kind |-> "nil", v |-> <<>>, entries |-> <<>>]
    BY DEF Values!Arguments
<1> QED BY <1>1 DEF Becomes, Values!ArgsTypeAnd2Bytes, Values!Bytes2Args, Values!OnWire,
                    Values!Value

LEMMA SignedCrosses ==
    ASSUME NEW x \in Values!Arguments, x.kind \in {"int32", "long"}
    PROVE  Becomes(x, x)
<1> DEFINE size == IF x.kind = "int32" THEN WordSize ELSE Values!LongSize
           w == Values!OnWire(x.kind, <<Values!Unsigned(x.v[1], size)>>)
<1> SUFFICES ASSUME NEW ns \in Names, NEW nt \in Names
             PROVE  Values!ArgsTypeAnd2Bytes(ns, x) = <<w>> /\ Values!Bytes2Args(nt, w) = <<x>>
    BY DEF Becomes
<1>1. /\ x = [kind |-> x.kind, v |-> <<x.v[1]>>, entries |-> <<>>]
      /\ x.v[1] \in Values!WithSign(size)
    BY DEF Values!Arguments
<1>2. size \in Nat \ {0} /\ size % 2 = 0
    BY TwoWords, ValuesAssumption
<1>3. Values!Signed(Values!Unsigned(x.v[1], size), size) = x.v[1]
    BY <1>1, <1>2, SignRestored
<1>4. Values!ArgsTypeAnd2Bytes(ns, x) = <<w>>
    BY DEF Values!ArgsTypeAnd2Bytes
<1>5. Values!Bytes2Args(nt, w) = <<Values!Value(x.kind, <<x.v[1]>>)>>
    BY <1>3 DEF Values!Bytes2Args, Values!OnWire
<1> QED BY <1>1, <1>4, <1>5 DEF Values!Value

\* An int becomes a word without a sign.
LEMMA IntCrosses ==
    ASSUME NEW i \in Int
    PROVE  /\ Becomes(Values!Value("int", <<i>>), Values!Value("int", <<i % WordSize>>))
           /\ i % WordSize \in 0 .. WordSize - 1
           /\ i \in 0 .. WordSize - 1 => i % WordSize = i
<1>1. i % WordSize \in 0 .. WordSize - 1 /\ (i \in 0 .. WordSize - 1 => i % WordSize = i)
    BY Remainders, ValuesAssumption
<1>2. Becomes(Values!Value("int", <<i>>), Values!Value("int", <<i % WordSize>>))
    BY DEF Becomes, Values!ArgsTypeAnd2Bytes, Values!Bytes2Args, Values!OnWire, Values!Value,
           Values!Unsigned
<1> QED BY <1>1, <1>2

LEMMA MapCrosses ==
    ASSUME NEW m, Values!HasJson(m)
    PROVE  Becomes(Values!Map(m), Values!Map([k \in 1 .. Len(m) |-> Values!Json(m[k])]))
<1> DEFINE j == [k \in 1 .. Len(m) |-> Values!Json(m[k])]
           w == [Values!OnWire("map", <<>>) EXCEPT !.entries = j]
<1>1. w = [type |-> "map", bytes |-> <<>>, entries |-> j]
    BY DEF Values!OnWire
<1>2. ASSUME NEW ns \in Names PROVE Values!ArgsTypeAnd2Bytes(ns, Values!Map(m)) = <<w>>
    BY DEF Values!ArgsTypeAnd2Bytes, Values!Map
<1> HIDE DEF j, w
<1>3. ASSUME NEW nt \in Names PROVE Values!Bytes2Args(nt, w) = <<Values!Map(j)>>
    BY <1>1 DEF Values!Bytes2Args
<1>4. ASSUME NEW ns \in Names, NEW nt \in Names
      PROVE  /\ Values!ArgsTypeAnd2Bytes(ns, Values!Map(m)) = <<w>>
             /\ Values!Bytes2Args(nt, w) = <<Values!Map(j)>>
    BY <1>2, <1>3
<1> QED BY <1>4 DEF Becomes, j

\* What is left to the serializers: the gate's takes sessions.
Left(x) ==
    \/ x.kind \in {"session", "other"}
    \/ x.kind = "map" /\ ~Values!HasJson(x.entries)

LEMMA SessionCrosses ==
    ASSUME NEW x \in Values!Arguments, NEW ns \in Names, NEW nt \in Names, Left(x)
    PROVE  LET w == Values!ArgsTypeAnd2Bytes(ns, x)
               z == Values!Bytes2Args(nt, w[1])
           IN  /\ w = <<>> => x.kind # "session" \/ ns = {}
               /\ w # <<>> => x.kind = "session"
               /\ w # <<>> /\ z = <<>> => nt = {}
               /\ w # <<>> /\ z # <<>> => z[1] = x
<1>1. Values!ArgsTypeAnd2Bytes(ns, x) = IF "SESSION" \in ns THEN Values!Serialize(x) ELSE <<>>
    BY DEF Values!ArgsTypeAnd2Bytes, Left
<1>2. Values!Bytes2Args(nt, Values!OnWire("SESSION", x.v)) =
        IF "SESSION" \in nt THEN <<Values!Value("session", x.v)>> ELSE <<>>
    BY DEF Values!Bytes2Args, Values!OnWire, Values!Deserialize
<1>3. x.kind = "session" => x = Values!Value("session", x.v)
    BY DEF Values!Arguments, Values!Value
<1> QED BY <1>1, <1>2, <1>3 DEF Values!Serialize, Names

\* Whatever is converted at all.
LEMMA AnyCrosses ==
    ASSUME NEW x \in Values!Arguments, ~Left(x)
    PROVE  \E y : Becomes(x, y) /\ Becomes(y, y) /\ y.kind = x.kind /\ (Values!Crosses(x) => y = x)
<1>1. CASE x.kind \in Plain
    BY <1>1, PlainCrosses
<1>2. CASE x.kind = "nil"
    BY <1>2, NilCrosses
<1>3. CASE x.kind \in {"int32", "long"}
    BY <1>3, SignedCrosses
<1>4. CASE x.kind = "int"
  <2>1. PICK i \in Int : x = Values!Value("int", <<i>>)
    <3>1. x = [kind |-> "int", v |-> <<x.v[1]>>, entries |-> <<>>] /\ x.v[1] \in Int
        BY <1>4 DEF Values!Arguments
    <3> QED BY <3>1 DEF Values!Value
  <2> DEFINE y == Values!Value("int", <<i % WordSize>>)
  <2>2. Becomes(x, y) /\ i % WordSize \in 0 .. WordSize - 1
      BY <2>1, IntCrosses
  <2>3. Becomes(y, y)
      BY <2>2, IntCrosses, ValuesAssumption
  <2>4. y.kind = "int" /\ x.v[1] = i
      BY <2>1 DEF Values!Value
  <2>5. Values!Crosses(x) => y = x
      BY <1>4, <2>1, <2>4, IntCrosses DEF Values!Crosses
  <2> QED BY <1>4, <2>2, <2>3, <2>4, <2>5
<1>5. CASE x.kind = "map" /\ Values!HasJson(x.entries)
  <2> DEFINE j == [k \in 1 .. Len(x.entries) |-> Values!Json(x.entries[k])]
  <2>1. /\ x = Values!Map(x.entries)
        /\ x.entries \in Seq([kind : Values!Kinds, v : Seq(Int)])
      BY <1>5 DEF Values!Arguments, Values!Map
  <2>2. /\ Len(j) = Len(x.entries) /\ Values!HasJson(j)
        /\ j = [k \in 1 .. Len(j) |-> Values!Json(j[k])]
        /\ (\A k \in 1 .. Len(x.entries) :
                x.entries[k].kind \in {"string", "bool", "double", "nil"}) => j = x.entries
      BY <1>5, <2>1, JsonOfMap
  <2>3. Becomes(x, Values!Map(j))
      BY <1>5, <2>1, MapCrosses
  <2> HIDE DEF j
  <2>4. Becomes(Values!Map(j), Values!Map(j))
      BY <2>2, MapCrosses
  <2>5. Values!Map(j).kind = "map"
      BY DEF Values!Map
  <2>6. Values!Crosses(x) => Values!Map(j) = x
      BY <1>5, <2>1, <2>2 DEF Values!Crosses
  <2> QED BY <1>5, <2>3, <2>4, <2>5, <2>6
<1>6. \/ x.kind \in Plain \cup {"nil", "int32", "long", "int"}
      \/ x.kind = "map" /\ Values!HasJson(x.entries)
  <2>1. x.kind \in Values!Kinds
      BY DEF Values!Arguments
  <2>2. Values!Kinds = Plain \cup {"nil", "int32", "long", "int", "map", "session", "other"}
      BY DEF Values!Kinds, Plain
  <2>3. x.kind \notin {"session", "other"} /\ (x.kind = "map" => Values!HasJson(x.entries))
      BY DEF Left
  <2> QED BY <2>1, <2>2, <2>3
<1> QED BY <1>1, <1>2, <1>3, <1>4, <1>5, <1>6

\* A value that could be converted and restored is held as the caller gave it if it crosses,
\* and in every case goes back as it is.
LEMMA HeldValue ==
    ASSUME NEW x \in Values!Arguments, NEW ns \in Names, NEW nt \in Names, NEW w, NEW y,
           Values!ArgsTypeAnd2Bytes(ns, x) # <<>>, w = Values!ArgsTypeAnd2Bytes(ns, x)[1],
           Values!Bytes2Args(nt, w) # <<>>, y = Values!Bytes2Args(nt, w)[1]
    PROVE  Holds(x, y)
<1>1. CASE Left(x)
  <2>1. x.kind = "session" /\ y = x
      BY <1>1, SessionCrosses
  <2>2. Returns(x)
      BY <1>1, <2>1, SessionCrosses DEF Returns
  <2> QED BY <2>1, <2>2 DEF Holds
<1>2. CASE ~Left(x)
  <2>1. Becomes(x, y) /\ Becomes(y, y) /\ y.kind = x.kind /\ (Values!Crosses(x) => y = x)
    <3>1. PICK z : Becomes(x, z) /\ Becomes(z, z) /\ z.kind = x.kind /\ (Values!Crosses(x) => z = x)
        BY <1>2, AnyCrosses
    <3>2. z = y
        BY <3>1 DEF Becomes
    <3> QED BY <3>1, <3>2
  <2> QED BY <2>1 DEF Holds, Returns, Becomes
<1> QED BY <1>1, <1>2

\* What cannot be converted or restored.
LEMMA Refused ==
    ASSUME NEW x \in Values!Arguments, NEW ns \in Names, NEW nt \in Names, NEW w,
           w = Values!ArgsTypeAnd2Bytes(ns, x)
    PROVE  /\ w = <<>> => \/ x.kind = "other"
                          \/ x.kind = "map" /\ ~Values!HasJson(x.entries)
                          \/ x.kind = "session" /\ ns = {}
           /\ w # <<>> /\ Values!Bytes2Args(nt, w[1]) = <<>> => x.kind = "session" /\ nt = {}
<1>1. CASE Left(x)
    BY <1>1, SessionCrosses DEF Left
<1>2. CASE ~Left(x)
    BY <1>2, AnyCrosses DEF Becomes
<1> QED BY <1>1, <1>2

-----------------------------------------------------------------------------
\* The two directions of a call, value by value.

ValueTypes ==
    /\ args \in Seq(Values!Arguments)
    /\ registered["caller"] \in Names /\ registered["callee"] \in Names

Written(p, xs, ws) ==
    /\ Len(ws) = Len(xs)
    /\ \A k \in 1 .. Len(xs) :
         /\ Values!ArgsTypeAnd2Bytes(registered[p], xs[k]) # <<>>
         /\ ws[k] = Values!ArgsTypeAnd2Bytes(registered[p], xs[k])[1]

CallHeld ==
    /\ Len(held) \in Nat
    /\ Len(held) = Len(args)
    /\ \A k \in 1 .. Len(args) : Holds(args[k], held[k])

ValueInv ==
    /\ ValueTypes
    /\ call \in {"none", "sent", "held", "served", "ended", "error"}
    /\ held # <<>> => CallHeld
    /\ call \in {"held", "served", "ended"} => CallHeld
    /\ call \in {"none", "sent"} => held = <<>>
    /\ call = "sent" => Written("caller", args, onWire)
    /\ call = "served" => Written("callee", held, onWire)
    /\ call = "ended" => /\ Len(results) = Len(held)
                         /\ \A k \in 1 .. Len(held) : results[k] = held[k]
    /\ call = "error" => \E k \in 1 .. Len(args) :
            \/ args[k].kind = "other"
            \/ args[k].kind = "map" /\ ~Values!HasJson(args[k].entries)
            \/ args[k].kind = "session"
               /\ (registered["caller"] = {} \/ registered["callee"] = {})

LEMMA OneByOneConverted ==
    ASSUME NEW n \in Nat, NEW converted, converted = [k \in 1 .. n |-> converted[k]]
    PROVE  /\ Values!Fails(converted) <=> \E k \in 1 .. n : converted[k] = <<>>
           /\ Len(Values!Each(converted)) = n
           /\ \A k \in 1 .. n : Values!Each(converted)[k] = converted[k][1]
<1>1. Len(converted) = n
    OBVIOUS
<1> QED BY <1>1 DEF Values!Fails, Values!Each

LEMMA EncodedEach ==
    ASSUME NEW p, NEW xs, Len(xs) \in Nat
    PROVE  /\ Values!Fails(Values!Encoded(p, xs)) =>
                \E k \in 1 .. Len(xs) : Values!ArgsTypeAnd2Bytes(registered[p], xs[k]) = <<>>
           /\ ~Values!Fails(Values!Encoded(p, xs)) =>
                Written(p, xs, Values!Each(Values!Encoded(p, xs)))
<1> DEFINE c == Values!Encoded(p, xs)
<1>1. /\ c = [k \in 1 .. Len(xs) |-> c[k]]
      /\ \A k \in 1 .. Len(xs) : c[k] = Values!ArgsTypeAnd2Bytes(registered[p], xs[k])
    BY DEF Values!Encoded
<1> HIDE DEF c
<1>2. /\ Values!Fails(c) <=> \E k \in 1 .. Len(xs) : c[k] = <<>>
      /\ Len(Values!Each(c)) = Len(xs)
      /\ \A k \in 1 .. Len(xs) : Values!Each(c)[k] = c[k][1]
    BY <1>1, OneByOneConverted
<1> QED BY <1>1, <1>2 DEF Written, c

LEMMA DecodedEach ==
    ASSUME NEW p, NEW ws, Len(ws) \in Nat
    PROVE  /\ Values!Fails(Values!Decoded(p, ws)) =>
                \E k \in 1 .. Len(ws) : Values!Bytes2Args(registered[p], ws[k]) = <<>>
           /\ ~Values!Fails(Values!Decoded(p, ws)) =>
                /\ Len(Values!Each(Values!Decoded(p, ws))) = Len(ws)
                /\ \A k \in 1 .. Len(ws) :
                     /\ Values!Bytes2Args(registered[p], ws[k]) # <<>>
                     /\ Values!Each(Values!Decoded(p, ws))[k]
                           = Values!Bytes2Args(registered[p], ws[k])[1]
<1> DEFINE c == Values!Decoded(p, ws)
<1>1. /\ c = [k \in 1 .. Len(ws) |-> c[k]]
      /\ \A k \in 1 .. Len(ws) : c[k] = Values!Bytes2Args(registered[p], ws[k])
    BY DEF Values!Decoded
<1> HIDE DEF c
<1>2. /\ Values!Fails(c) <=> \E k \in 1 .. Len(ws) : c[k] = <<>>
      /\ Len(Values!Each(c)) = Len(ws)
      /\ \A k \in 1 .. Len(ws) : Values!Each(c)[k] = c[k][1]
    BY <1>1, OneByOneConverted
<1> QED BY <1>1, <1>2 DEF c

LEMMA CallInv == ASSUME ValueInv, Values!Call PROVE ValueInv'
<1>1. UNCHANGED <<registered, args, held, results>> /\ held = <<>>
    BY DEF Values!Call, ValueInv
<1>2. Len(args) \in Nat /\ \A k \in 1 .. Len(args) : args[k] \in Values!Arguments
    BY DEF ValueInv, ValueTypes
<1>3. CASE Values!Fails(Values!Encoded("caller", args))
  <2>1. PICK k \in 1 .. Len(args) :
                Values!ArgsTypeAnd2Bytes(registered["caller"], args[k]) = <<>>
      BY <1>2, <1>3, EncodedEach
  <2>2. \/ args[k].kind = "other"
        \/ args[k].kind = "map" /\ ~Values!HasJson(args[k].entries)
        \/ args[k].kind = "session" /\ registered["caller"] = {}
      BY <1>2, <2>1, Refused DEF ValueInv, ValueTypes
  <2>3. call' = "error"
      BY <1>3 DEF Values!Call
  <2> QED BY <1>1, <2>2, <2>3 DEF ValueInv, ValueTypes
<1>4. CASE ~Values!Fails(Values!Encoded("caller", args))
  <2>1. Written("caller", args, onWire') /\ call' = "sent"
      BY <1>2, <1>4, EncodedEach DEF Values!Call
  <2> QED BY <1>1, <2>1 DEF ValueInv, ValueTypes, Written
<1> QED BY <1>3, <1>4

LEMMA RestoreInv == ASSUME ValueInv, Values!Restore PROVE ValueInv'
<1>1. /\ UNCHANGED <<registered, args, onWire, results>> /\ held = <<>>
      /\ Written("caller", args, onWire)
    BY DEF Values!Restore, ValueInv
<1>2. /\ Len(args) \in Nat /\ \A k \in 1 .. Len(args) : args[k] \in Values!Arguments
      /\ Len(onWire) = Len(args)
    BY <1>1 DEF ValueInv, ValueTypes, Written
<1>3. CASE Values!Fails(Values!Decoded("callee", onWire))
  <2>1. PICK k \in 1 .. Len(args) : Values!Bytes2Args(registered["callee"], onWire[k]) = <<>>
      BY <1>2, <1>3, DecodedEach
  <2>2. args[k].kind = "session" /\ registered["callee"] = {}
      BY <1>1, <1>2, <2>1, Refused DEF ValueInv, ValueTypes, Written
  <2>3. call' = "error" /\ UNCHANGED held
      BY <1>3 DEF Values!Restore
  <2> QED BY <1>1, <2>2, <2>3 DEF ValueInv, ValueTypes
<1>4. CASE ~Values!Fails(Values!Decoded("callee", onWire))
  <2>1. call' = "held" /\ Len(held') = Len(args)
      BY <1>2, <1>4, DecodedEach DEF Values!Restore
  <2>2. ASSUME NEW k \in 1 .. Len(args) PROVE Holds(args[k], held'[k])
    <3>1. /\ Values!Bytes2Args(registered["callee"], onWire[k]) # <<>>
          /\ held'[k] = Values!Bytes2Args(registered["callee"], onWire[k])[1]
        BY <1>2, <1>4, DecodedEach DEF Values!Restore
    <3> QED BY <1>1, <1>2, <3>1, HeldValue DEF ValueInv, ValueTypes, Written
  <2>3. CallHeld'
      BY <1>1, <1>2, <2>1, <2>2 DEF CallHeld, Holds, Returns
  <2> QED BY <1>1, <2>1, <2>3 DEF ValueInv, ValueTypes
<1> QED BY <1>3, <1>4

LEMMA ReturnInv == ASSUME ValueInv, Values!Return PROVE ValueInv'
<1>1. UNCHANGED <<registered, args, held, results>> /\ CallHeld
    BY DEF Values!Return, ValueInv
<1>2. CallHeld'
    BY <1>1 DEF CallHeld, Holds, Returns
<1>3. CASE Values!Fails(Values!Encoded("callee", held))
  <2>1. PICK k \in 1 .. Len(held) :
                Values!ArgsTypeAnd2Bytes(registered["callee"], held[k]) = <<>>
      BY <1>1, <1>3, EncodedEach DEF CallHeld
  <2>2. args[k].kind = "session" /\ registered["callee"] = {} /\ k \in 1 .. Len(args)
      BY <1>1, <2>1 DEF CallHeld, Holds, Returns, ValueInv, ValueTypes
  <2>3. call' = "error"
      BY <1>3 DEF Values!Return
  <2> QED BY <1>1, <1>2, <2>2, <2>3 DEF ValueInv, ValueTypes
<1>4. CASE ~Values!Fails(Values!Encoded("callee", held))
  <2>1. Written("callee", held, onWire') /\ call' = "served"
      BY <1>1, <1>4, EncodedEach DEF Values!Return, CallHeld
  <2> QED BY <1>1, <1>2, <2>1 DEF ValueInv, ValueTypes, Written
<1> QED BY <1>3, <1>4

LEMMA ResolveInv == ASSUME ValueInv, Values!ResolveCallbackChan PROVE ValueInv'
<1>1. /\ UNCHANGED <<registered, args, onWire, held>> /\ CallHeld
      /\ Written("callee", held, onWire)
    BY DEF Values!ResolveCallbackChan, ValueInv
<1>2. CallHeld'
    BY <1>1 DEF CallHeld, Holds, Returns
<1>3. Len(onWire) = Len(held) /\ Len(held) \in Nat /\ Len(held) = Len(args)
    BY <1>1 DEF CallHeld, Written
<1>4. \A k \in 1 .. Len(held) :
        /\ Values!Bytes2Args(registered["caller"], onWire[k]) = <<>> =>
                args[k].kind = "session" /\ registered["caller"] = {}
        /\ Values!Bytes2Args(registered["caller"], onWire[k]) # <<>> =>
                Values!Bytes2Args(registered["caller"], onWire[k])[1] = held[k]
    BY <1>1, <1>3 DEF CallHeld, Written, Holds, Returns, ValueInv, ValueTypes
<1>5. CASE Values!Fails(Values!Decoded("caller", onWire))
  <2>1. PICK k \in 1 .. Len(held) : Values!Bytes2Args(registered["caller"], onWire[k]) = <<>>
      BY <1>3, <1>5, DecodedEach
  <2>2. args[k].kind = "session" /\ registered["caller"] = {} /\ k \in 1 .. Len(args)
      BY <1>3, <1>4, <2>1
  <2>3. call' = "error" /\ UNCHANGED results
      BY <1>5 DEF Values!ResolveCallbackChan
  <2> QED BY <1>1, <1>2, <2>2, <2>3 DEF ValueInv, ValueTypes
<1>6. CASE ~Values!Fails(Values!Decoded("caller", onWire))
  <2>1. /\ call' = "ended" /\ Len(results') = Len(held)
        /\ \A k \in 1 .. Len(held) : results'[k] = held[k]
      BY <1>3, <1>4, <1>6, DecodedEach DEF Values!ResolveCallbackChan
  <2> QED BY <1>1, <1>2, <2>1 DEF ValueInv, ValueTypes
<1> QED BY <1>5, <1>6

LEMMA ValuesHold == Spec => []ValueInv
<1>1. Init => ValueInv
    BY ValuesAssumption DEF Init, Values!Init, ValueInv, ValueTypes, Names, Values!Processes
<1>2. ValueInv /\ [Next]_vars => ValueInv'
  <2> SUFFICES ASSUME ValueInv, [Next]_vars PROVE ValueInv'
      OBVIOUS
  <2>1. CASE Values!Next
      BY <2>1, CallInv, RestoreInv, ReturnInv, ResolveInv DEF Values!Next
  <2>2. CASE UNCHANGED valueVars
      BY <2>2 DEF valueVars, ValueInv, ValueTypes, Written, CallHeld, Holds, Returns
  <2>3. Values!Next \/ UNCHANGED valueVars
      BY DEF Next, CodecStep, ValueStep, LogStep, FileStep, MapStep, vars, valueVars
  <2> QED BY <2>1, <2>2, <2>3
<1> QED BY <1>1, <1>2, PTL DEF Spec

\* The function is called with what the caller gave it as far as that crosses, the caller
\* gets what the function returned, and only a value without a serializer fails a call: for
\* words of any size and any arguments that Go has.
THEOREM ValuesCrossOnce == Spec => []RoundTrip
<1>1. ValueInv => RoundTrip
    BY DEF ValueInv, RoundTrip, Values!RoundTrip, CallHeld, Holds, Values!Processes
<1> QED BY <1>1, ValuesHold, PTL

-----------------------------------------------------------------------------
\* The bytes of a pack.

\* Induction, for a set given by the property of its elements.
LEMMA Induction ==
    ASSUME NEW S, 0 \in S, \A n \in Nat : n \in S => n + 1 \in S
    PROVE  \A n \in Nat : n \in S
<1> SUFFICES ASSUME Nat \ S # {} PROVE FALSE
    OBVIOUS
<1>1. PICK k \in Nat \ S : \A j \in Nat \ S : ~(<<j, k>> \in OpToRel(<, Nat))
    BY NatLessThanWellFounded, WFMin
<1>2. \A j \in Nat : j < k => <<j, k>> \in OpToRel(<, Nat)
    BY DEF OpToRel
<1>3. k # 0 /\ k - 1 \in Nat /\ (k - 1) + 1 = k
    OBVIOUS
<1>4. \A j \in Nat \ S : ~(j < k)
    BY <1>1, <1>2
<1>5. k - 1 \in S
    BY <1>3, <1>4
<1> QED BY <1>3, <1>5

\* The bytes s stand at position i of b.
At(b, i, s) == \A j \in 1 .. Len(s) : Codec!Byte(b, i + j - 1) = s[j]

LEMMA AtConcat ==
    ASSUME NEW b, NEW i \in Nat, NEW s \in Seq(Int), NEW t \in Seq(Int)
    PROVE  /\ s \o t \in Seq(Int) /\ Len(s \o t) = Len(s) + Len(t)
           /\ At(b, i, s \o t) <=> At(b, i, s) /\ At(b, i + Len(s), t)
<1>1. /\ Len(s) \in Nat /\ Len(t) \in Nat /\ s \o t \in Seq(Int)
      /\ Len(s \o t) = Len(s) + Len(t)
      /\ \A j \in 1 .. Len(s) + Len(t) : (s \o t)[j] = IF j <= Len(s) THEN s[j] ELSE t[j - Len(s)]
    BY ConcatProperties
<1>2. ASSUME At(b, i, s \o t) PROVE At(b, i, s) /\ At(b, i + Len(s), t)
  <2>1. At(b, i, s)
      BY <1>1, <1>2 DEF At
  <2>2. ASSUME NEW j \in 1 .. Len(t) PROVE Codec!Byte(b, i + Len(s) + j - 1) = t[j]
    <3>1. /\ Len(s) + j \in 1 .. Len(s) + Len(t) /\ ~(Len(s) + j <= Len(s))
          /\ (Len(s) + j) - Len(s) = j /\ i + (Len(s) + j) - 1 = i + Len(s) + j - 1
        BY <1>1
    <3>2. Codec!Byte(b, i + (Len(s) + j) - 1) = (s \o t)[Len(s) + j]
        BY <1>1, <1>2, <3>1 DEF At
    <3> QED BY <1>1, <3>1, <3>2
  <2> QED BY <2>1, <2>2 DEF At
<1>3. ASSUME At(b, i, s), At(b, i + Len(s), t), NEW j \in 1 .. Len(s) + Len(t)
      PROVE  Codec!Byte(b, i + j - 1) = (s \o t)[j]
  <2>1. CASE j <= Len(s)
      BY <1>1, <1>3, <2>1 DEF At
  <2>2. CASE ~(j <= Len(s))
    <3>1. j - Len(s) \in 1 .. Len(t) /\ i + Len(s) + (j - Len(s)) - 1 = i + j - 1
        BY <1>1, <2>2
    <3> QED BY <1>1, <1>3, <2>2, <3>1 DEF At
  <2> QED BY <2>1, <2>2
<1> QED BY <1>1, <1>2, <1>3 DEF At

LEMMA AtOne == ASSUME NEW b, NEW i \in Nat, NEW x PROVE At(b, i, <<x>>) <=> Codec!Byte(b, i) = x
<1>1. Len(<<x>>) = 1 /\ <<x>>[1] = x /\ i + 1 - 1 = i
    OBVIOUS
<1> QED BY <1>1 DEF At

\* Two bytes for an integer.
LEMMA IntRead ==
    ASSUME NEW b, NEW i \in Nat, NEW v \in Codec!Word
    PROVE  /\ Codec!writeInt(v) \in Seq(Int) /\ Len(Codec!writeInt(v)) = 2
           /\ At(b, i, Codec!writeInt(v)) => Codec!readInt(b, i) = v
<1> DEFINE h == (v \div 256) % 256
           l == v % 256
<1>1. v = 256 * h + l /\ h \in Int /\ l \in Int
    BY DEF Codec!Word
<1>2. Codec!writeInt(v) = <<h, l>>
    BY DEF Codec!writeInt
<1> HIDE DEF h, l
<1>3. ASSUME At(b, i, <<h, l>>) PROVE Codec!Byte(b, i) = h /\ Codec!Byte(b, i + 1) = l
  <2>1. Len(<<h, l>>) = 2 /\ i + 1 - 1 = i /\ i + 2 - 1 = i + 1
      OBVIOUS
  <2> QED BY <1>3, <2>1 DEF At
<1>4. ASSUME At(b, i, <<h, l>>) PROVE Codec!readInt(b, i) = v
  <2>1. Codec!readInt(b, i) = 256 * h + l
      BY <1>3, <1>4 DEF Codec!readInt
  <2> QED BY <1>1, <2>1
<1>5. <<h, l>> \in Seq(Int) /\ Len(<<h, l>>) = 2
    BY <1>1
<1> QED BY <1>2, <1>4, <1>5

\* Two bytes for the length of a string, and the string.
LEMMA TextRead ==
    ASSUME NEW b, NEW i \in Nat, NEW s \in Codec!Text
    PROVE  /\ Codec!writeString(s) \in Seq(Int) /\ Len(Codec!writeString(s)) = 2 + Len(s)
           /\ Len(s) \in Codec!Word
           /\ At(b, i, Codec!writeString(s)) =>
                Codec!readInt(b, i) = Len(s) /\ Codec!readString(b, i) = s
<1>1. s \in Seq(Int) /\ Len(s) \in Codec!Word /\ Len(s) \in Nat /\ s = [k \in 1 .. Len(s) |-> s[k]]
  <2>1. s \in Seq(Codec!Bytes) /\ Len(s) \in Codec!Word
      BY DEF Codec!Text
  <2>2. s \in Seq(Int)
      BY <2>1, SeqMonotonic DEF Codec!Bytes
  <2> QED BY <2>1, <2>2
<1>2. Codec!writeInt(Len(s)) \in Seq(Int) /\ Len(Codec!writeInt(Len(s))) = 2
    BY <1>1, IntRead
<1>3. Codec!writeString(s) \in Seq(Int) /\ Len(Codec!writeString(s)) = 2 + Len(s)
    BY <1>1, <1>2, AtConcat DEF Codec!writeString
<1>4. ASSUME At(b, i, Codec!writeString(s))
      PROVE  Codec!readInt(b, i) = Len(s) /\ Codec!readString(b, i) = s
  <2>1. At(b, i, Codec!writeInt(Len(s))) /\ At(b, i + 2, s)
    <3>1. At(b, i, Codec!writeInt(Len(s)) \o s)
        BY <1>4 DEF Codec!writeString
    <3>2. At(b, i, Codec!writeInt(Len(s))) /\ At(b, i + Len(Codec!writeInt(Len(s))), s)
        BY <1>1, <1>2, <3>1, AtConcat
    <3> QED BY <1>2, <3>2
  <2>2. Codec!readInt(b, i) = Len(s)
      BY <1>1, <2>1, IntRead
  <2>3. Codec!readFull(b, i + 2, Len(s)) = s
      BY <1>1, <2>1 DEF Codec!readFull, At
  <2> QED BY <2>2, <2>3 DEF Codec!readString
<1> QED BY <1>1, <1>3, <1>4

LEMMA FullRead ==
    ASSUME NEW b, NEW i \in Nat, NEW s \in Seq(Int), At(b, i, s)
    PROVE  Codec!readFull(b, i, Len(s)) = s
<1>1. s = [k \in 1 .. Len(s) |-> s[k]]
    OBVIOUS
<1> QED BY <1>1 DEF Codec!readFull, At


LEMMA RemainderOf ==
    ASSUME NEW n \in Nat \ {0}, NEW q \in Int, NEW r \in 0 .. n - 1
    PROVE  (n * q + r) % n = r
OBVIOUS

\* A digit and what is left for the next ones.
LEMMA DigitsSplit ==
    ASSUME NEW l \in Nat
    PROVE  /\ l % Base \in 0 .. Base - 1 /\ l \div Base \in Nat
           /\ l = Base * (l \div Base) + (l % Base)
           /\ l \div Base = 0 <=> l < Base
           /\ \A m \in Nat : l < Base * m => l \div Base < m
           /\ (l + Base) % Base = l % Base
<1> DEFINE q == l \div Base
           r == l % Base
<1>1. /\ Base \in Nat /\ Base >= 4
      /\ r \in 0 .. Base - 1 /\ q \in Nat /\ l = Base * q + r
    BY CodecAssumption
<1> HIDE DEF q, r
<1>2. (l + Base) % Base = r
  <2>1. l + Base = Base * (q + 1) + r /\ q + 1 \in Int /\ Base \in Nat \ {0}
      BY <1>1
  <2>2. (Base * (q + 1) + r) % Base = r
      BY <1>1, <2>1, RemainderOf
  <2> QED BY <2>1, <2>2
<1>3. q = 0 <=> l < Base
  <2>1. q >= 1 => Base * q >= Base
      BY <1>1
  <2> QED BY <1>1, <2>1
<1>4. ASSUME NEW m \in Nat, l < Base * m PROVE q < m
  <2>1. Base * q < Base * m
      BY <1>1, <1>4
  <2> QED BY <1>1, <2>1
<1> QED BY <1>1, <1>2, <1>3, <1>4 DEF q, r

LEMMA DigitRead ==
    ASSUME NEW l \in Nat
    PROVE  /\ Codec!Digit(l) \in Int /\ Codec!Digit(l) % Base = l % Base
           /\ Codec!Digit(l) < Base <=> l < Base
<1>1. /\ Base \in Nat /\ Base >= 4
      /\ l % Base \in 0 .. Base - 1
    BY DigitsSplit, CodecAssumption
<1>2. CASE l < Base
  <2>1. Codec!Digit(l) = l % Base /\ l % Base = l
      BY <1>1, <1>2 DEF Codec!Digit
  <2> QED BY <1>1, <1>2, <2>1
<1>3. CASE ~(l < Base)
  <2>1. Codec!Digit(l) = (l % Base) + Base
      BY <1>1, <1>3 DEF Codec!Digit
  <2>2. (l % Base) % Base = l % Base
      BY <1>1
  <2>3. ((l % Base) + Base) % Base = l % Base
      BY <1>1, <2>2, DigitsSplit
  <2> QED BY <1>1, <1>3, <2>1, <2>3
<1> QED BY <1>2, <1>3

LEMMA FirstOf ==
    ASSUME NEW t \in Seq(Int), NEW n \in 1 .. Len(t), NEW d, d = SubSeq(t, 1, n)
    PROVE  d \in Seq(Int) /\ Len(d) = n /\ \A k \in 1 .. n : d[k] = t[k]
<1>1. d = [k \in 1 .. n |-> t[k]]
    OBVIOUS
<1>2. d \in Seq(Int) /\ Len(d) = n
    BY <1>1
<1> QED BY <1>1, <1>2

LEMMA FirstBytes ==
    ASSUME NEW b, NEW d \in Seq(Int), At(b, 2, d)
    PROVE  /\ Len(d) >= 1 => Codec!Byte(b, 2) = d[1]
           /\ Len(d) >= 2 => Codec!Byte(b, 3) = d[2]
           /\ Len(d) >= 3 => Codec!Byte(b, 4) = d[3]
<1>1. Len(d) \in Nat /\ \A j \in 1 .. Len(d) : Codec!Byte(b, 2 + j - 1) = d[j]
    BY DEF At
<1>2. 2 + 1 - 1 = 2 /\ 2 + 2 - 1 = 3 /\ 2 + 3 - 1 = 4
    OBVIOUS
<1> QED BY <1>1, <1>2

\* What getRemainingLength writes is read with as many bytes and as the same length.
LEMMA LengthRead ==
    ASSUME NEW b, NEW l \in Nat, l <= Codec!MaxLength, NEW d, d = Codec!getRemainingLength(l)
    PROVE  /\ d \in Seq(Int) /\ Len(d) \in 1 .. 3
           /\ l < Base => Len(d) = 1 /\ d[1] = l
           /\ At(b, 2, d) => Codec!LengthBytes(b) = Len(d) /\ Codec!Length(b) = l
<1> DEFINE second == l \div Base
           third == second \div Base
           fourth == third \div Base
<1>1. /\ Base \in Nat /\ Base >= 4
      /\ second \in Nat /\ l = Base * second + (l % Base) /\ (second = 0 <=> l < Base)
      /\ l % Base \in 0 .. Base - 1
    BY DigitsSplit, CodecAssumption
<1>2. second < Base * Base
  <2>1. l < Base * (Base * Base) /\ Base * Base \in Nat
      BY <1>1 DEF Codec!MaxLength
  <2> QED BY <2>1, DigitsSplit
<1> DEFINE count == CASE second = 0 -> 1
                      [] second > 0 /\ third = 0 -> 2
                      [] third > 0 /\ fourth = 0 -> 3
                      [] fourth > 0 -> 4
<1>3. d = SubSeq(<<Codec!Digit(l), Codec!Digit(second), Codec!Digit(third),
                   Codec!Digit(fourth)>>, 1, count)
    BY DEF Codec!getRemainingLength
<1>4. second \div Base = third /\ third \div Base = fourth
    OBVIOUS
<1> HIDE DEF second, third, fourth
<1>5. /\ third \in Nat /\ second = Base * third + (second % Base) /\ (third = 0 <=> second < Base)
      /\ second % Base \in 0 .. Base - 1 /\ third < Base
    BY <1>1, <1>2, <1>4, DigitsSplit
<1>6. fourth = 0
    BY <1>5, <1>4, DigitsSplit
<1>7. third % Base = third
  <2>1. third \in 0 .. Base - 1 /\ Base \in Nat \ {0}
      BY <1>1, <1>5
  <2> QED BY <2>1, Remainders
<1>8. /\ Codec!Digit(l) \in Int /\ Codec!Digit(l) % Base = l % Base
      /\ Codec!Digit(l) < Base <=> second = 0
      /\ Codec!Digit(second) \in Int /\ Codec!Digit(second) % Base = second % Base
      /\ Codec!Digit(second) < Base <=> third = 0
      /\ Codec!Digit(third) \in Int /\ Codec!Digit(third) % Base = third
      /\ Codec!Digit(fourth) \in Int
    BY <1>1, <1>5, <1>6, <1>7, DigitRead
<1>9. count = IF second = 0 THEN 1 ELSE IF third = 0 THEN 2 ELSE 3
  <2>1. CASE second = 0
    <3>1. third = 0
        BY <1>1, <1>5, <2>1
    <3> QED BY <1>6, <2>1, <3>1
  <2>2. CASE second # 0 /\ third = 0
      BY <1>1, <1>6, <2>2
  <2>3. CASE second # 0 /\ third # 0
      BY <1>1, <1>5, <1>6, <2>3
  <2> QED BY <2>1, <2>2, <2>3
<1> HIDE DEF count
<1>10. count \in 1 .. 4
    BY <1>9
<1>11. /\ d \in Seq(Int) /\ Len(d) = count /\ d[1] = Codec!Digit(l)
       /\ count >= 2 => d[2] = Codec!Digit(second)
       /\ count >= 3 => d[3] = Codec!Digit(third)
  <2>1. /\ Codec!Digit(l) \in Int /\ Codec!Digit(second) \in Int
        /\ Codec!Digit(third) \in Int /\ Codec!Digit(fourth) \in Int
      BY <1>8
  <2> DEFINE t == <<Codec!Digit(l), Codec!Digit(second), Codec!Digit(third),
                    Codec!Digit(fourth)>>
  <2>2. /\ t \in Seq(Int) /\ Len(t) = 4
        /\ t[1] = Codec!Digit(l) /\ t[2] = Codec!Digit(second) /\ t[3] = Codec!Digit(third)
      BY <2>1
  <2>3. d = SubSeq(t, 1, count)
      BY <1>3
  <2> HIDE DEF t
  <2>4. d \in Seq(Int) /\ Len(d) = count /\ \A k \in 1 .. count : d[k] = t[k]
      BY <1>10, <2>2, <2>3, FirstOf
  <2> QED BY <1>10, <2>2, <2>4
<1>12. l < Base => count = 1 /\ d[1] = l
  <2>1. l < Base => Codec!Digit(l) = l % Base /\ l % Base = l
      BY <1>1, Remainders DEF Codec!Digit
  <2> QED BY <1>1, <1>9, <1>11, <2>1
<1>13. ASSUME At(b, 2, d) PROVE Codec!LengthBytes(b) = count /\ Codec!Length(b) = l
  <2>1. /\ Codec!Byte(b, 2) = Codec!Digit(l)
        /\ count >= 2 => Codec!Byte(b, 3) = Codec!Digit(second)
        /\ count >= 3 => Codec!Byte(b, 4) = Codec!Digit(third)
      BY <1>10, <1>11, <1>13, FirstBytes
  <2>2. CASE count = 1
    <3>1. second = 0
        BY <1>9, <2>2
    <3>2. Codec!LengthBytes(b) = 1
      <4>1. Codec!Byte(b, 2) < Base /\ ~(Codec!Byte(b, 2) >= Base)
          BY <1>1, <1>8, <2>1, <3>1
      <4> QED BY <4>1 DEF Codec!LengthBytes
    <3>3. Codec!Length(b) = (l % Base) + Base * (0 + Base * 0)
        BY <1>8, <2>1, <3>2 DEF Codec!Length
    <3> QED BY <1>1, <2>2, <3>1, <3>2, <3>3
  <2>3. CASE count = 2
    <3>1. second # 0 /\ third = 0
        BY <1>9, <2>3
    <3>2. Codec!LengthBytes(b) = 2
        BY <1>1, <1>8, <2>1, <2>3, <3>1 DEF Codec!LengthBytes
    <3>3. Codec!Length(b) = (l % Base) + Base * ((second % Base) + Base * 0)
        BY <1>8, <2>1, <2>3, <3>2 DEF Codec!Length
    <3> QED BY <1>1, <1>5, <2>3, <3>1, <3>2, <3>3
  <2>4. CASE count = 3
    <3>1. second # 0 /\ third # 0
        BY <1>9, <2>4
    <3>2. Codec!LengthBytes(b) = 3
        BY <1>1, <1>8, <2>1, <2>4, <3>1 DEF Codec!LengthBytes
    <3>3. Codec!Length(b) = (l % Base) + Base * ((second % Base) + Base * third)
        BY <1>8, <2>1, <2>4, <3>2 DEF Codec!Length
    <3> QED BY <1>1, <1>5, <2>4, <3>2, <3>3
  <2> QED BY <1>9, <2>2, <2>3, <2>4
<1> QED BY <1>9, <1>11, <1>12, <1>13

\* The first n sequences, joined one after the other: what FlattenSeq adds up.
Joins(f, ss, n) ==
    /\ f[0] = <<>>
    /\ \A k \in 1 .. n : f[k] = f[k - 1] \o ss[k]

LEMMA OneMore ==
    ASSUME NEW S, NEW ss \in Seq(Seq(S)), NEW n \in Nat, n + 1 <= Len(ss),
           NEW f \in [0 .. n -> Seq(S)], Joins(f, ss, n)
    PROVE  \E g \in [0 .. n + 1 -> Seq(S)] : Joins(g, ss, n + 1)
<1> DEFINE g == [k \in 0 .. n + 1 |-> IF k <= n THEN f[k] ELSE f[n] \o ss[n + 1]]
<1>1. f[n] \in Seq(S) /\ ss[n + 1] \in Seq(S)
    OBVIOUS
<1>2. f[n] \o ss[n + 1] \in Seq(S)
    BY <1>1, ConcatProperties
<1>3. g \in [0 .. n + 1 -> Seq(S)]
    BY <1>2
<1>4. g[0] = <<>> /\ \A k \in 0 .. n : g[k] = f[k]
    BY DEF Joins
<1>5. g[n + 1] = f[n] \o ss[n + 1]
    OBVIOUS
<1> HIDE DEF g
<1>6. ASSUME NEW k \in 1 .. n + 1 PROVE g[k] = g[k - 1] \o ss[k]
  <2>1. CASE k = n + 1
    <3>1. k - 1 = n /\ n \in 0 .. n
        BY <2>1
    <3> QED BY <1>4, <1>5, <2>1, <3>1
  <2>2. CASE k # n + 1
    <3>1. k \in 0 .. n /\ k - 1 \in 0 .. n /\ k \in 1 .. n
        BY <2>2
    <3> QED BY <1>4, <3>1 DEF Joins
  <2> QED BY <2>1, <2>2
<1> QED BY <1>3, <1>4, <1>6 DEF Joins

LEMMA Joined ==
    ASSUME NEW S, NEW ss \in Seq(Seq(S))
    PROVE  \E f \in [0 .. Len(ss) -> Seq(S)] : Joins(f, ss, Len(ss))
<1> DEFINE T == {n \in Nat : n <= Len(ss) => \E f \in [0 .. n -> Seq(S)] : Joins(f, ss, n)}
<1>1. 0 \in T
  <2>1. [k \in 0 .. 0 |-> <<>>] \in [0 .. 0 -> Seq(S)] /\ [k \in 0 .. 0 |-> <<>>][0] = <<>>
      BY EmptySeq
  <2>2. Joins([k \in 0 .. 0 |-> <<>>], ss, 0)
      BY <2>1 DEF Joins
  <2> QED BY <2>1, <2>2
<1>2. ASSUME NEW n \in Nat, n \in T PROVE n + 1 \in T
  <2> SUFFICES ASSUME n + 1 <= Len(ss)
               PROVE  \E g \in [0 .. n + 1 -> Seq(S)] : Joins(g, ss, n + 1)
      OBVIOUS
  <2>1. PICK f \in [0 .. n -> Seq(S)] : Joins(f, ss, n)
      BY <1>2, LenProperties
  <2> HIDE DEF T
  <2> QED BY <2>1, OneMore
<1>3. Len(ss) \in T
  <2> HIDE DEF T
  <2> QED BY <1>1, <1>2, Induction, LenProperties
<1> QED BY <1>3, LenProperties

LEMMA Flattened ==
    ASSUME NEW S, NEW ss \in Seq(Seq(S)), NEW n, n = Len(ss), NEW f \in [0 .. n -> Seq(S)],
           Joins(f, ss, n)
    PROVE  Codec!FlattenSeq(ss) = f[n]
<1> DEFINE From(h) == [i \in 1 .. n |-> IF i = 1 THEN ss[i] ELSE h[i - 1] \o ss[i]]
           flatten == CHOOSE h : h = From(h)
<1>1. /\ n \in Nat /\ f[0] = <<>>
      /\ \A k \in 1 .. n : f[k] = f[k - 1] \o ss[k]
    BY DEF Joins
<1>2. CASE n = 0
  <2>1. ss = <<>>
      BY <1>2, EmptySeq
  <2> QED BY <1>1, <1>2, <2>1 DEF Codec!FlattenSeq
<1>3. CASE n > 0
  <2>1. Codec!FlattenSeq(ss) = flatten[n]
      BY <1>1, <1>3 DEF Codec!FlattenSeq
  <2> DEFINE g == [i \in 1 .. n |-> f[i]]
  <2>2. f[1] = ss[1]
    <3>1. 1 \in 1 .. Len(ss) /\ 1 - 1 = 0
        BY <1>1, <1>3
    <3>2. ss[1] \in Seq(S)
        BY <3>1, ElementOfSeq
    <3>3. f[1] = <<>> \o ss[1]
        BY <1>1, <3>1
    <3> QED BY <3>2, <3>3, ConcatEmptySeq
  <2>3. g = From(g)
    <3>1. ASSUME NEW i \in 1 .. n PROVE g[i] = IF i = 1 THEN ss[i] ELSE g[i - 1] \o ss[i]
      <4>1. CASE i = 1
          BY <2>2, <4>1
      <4>2. CASE i # 1
        <5>1. i - 1 \in 1 .. n
            BY <1>1, <4>2
        <5> QED BY <1>1, <4>2, <5>1
      <4> QED BY <4>1, <4>2
    <3> QED BY <3>1
  <2>4. flatten = From(flatten)
    <3> HIDE DEF g, From
    <3> QED BY <2>3
  <2> HIDE DEF flatten, g
  <2>5. \A i \in 1 .. n : flatten[i] = IF i = 1 THEN ss[i] ELSE flatten[i - 1] \o ss[i]
      BY <2>4
  <2> DEFINE T == {m \in Nat : m \in 1 .. n => flatten[m] = f[m]}
  <2>6. 0 \in T
      OBVIOUS
  <2>7. ASSUME NEW m \in Nat, m \in T PROVE m + 1 \in T
    <3> SUFFICES ASSUME m + 1 \in 1 .. n PROVE flatten[m + 1] = f[m + 1]
        OBVIOUS
    <3>1. f[m + 1] = f[m] \o ss[m + 1]
      <4>1. (m + 1) - 1 = m
          OBVIOUS
      <4> QED BY <1>1, <4>1
    <3>2. CASE m = 0
        BY <2>2, <2>5, <3>2
    <3>3. CASE m # 0
      <4>1. flatten[m] = f[m] /\ (m + 1) - 1 = m /\ m + 1 # 1
          BY <2>7, <3>3
      <4> QED BY <2>5, <3>1, <4>1
    <3> QED BY <3>2, <3>3
  <2>8. n \in T
    <3> HIDE DEF T
    <3> QED BY <1>1, <2>6, <2>7, Induction
  <2> QED BY <1>3, <2>1, <2>8
<1> QED BY <1>1, <1>2, <1>3

\* Where each of the sequences stands when all of them do.
LEMMA EachAt ==
    ASSUME NEW ss \in Seq(Seq(Int)), NEW n, n = Len(ss), NEW f \in [0 .. n -> Seq(Int)],
           Joins(f, ss, n), NEW b, NEW i \in Nat, At(b, i, f[n])
    PROVE  \A k \in 1 .. n : /\ Len(f[k]) = Len(f[k - 1]) + Len(ss[k])
                             /\ Len(f[k]) <= Len(f[n])
                             /\ At(b, i + Len(f[k - 1]), ss[k])
<1>1. /\ n \in Nat
      /\ \A k \in 1 .. n : ss[k] \in Seq(Int) /\ k - 1 \in 0 .. n
    BY ElementOfSeq
<1>2. \A k \in 0 .. n : f[k] \in Seq(Int) /\ Len(f[k]) \in Nat
    OBVIOUS
<1>3. ASSUME NEW k \in 1 .. n
      PROVE  /\ f[k - 1] \in Seq(Int) /\ ss[k] \in Seq(Int) /\ f[k] = f[k - 1] \o ss[k]
             /\ Len(f[k]) = Len(f[k - 1]) + Len(ss[k])
             /\ At(b, i, f[k]) => At(b, i, f[k - 1]) /\ At(b, i + Len(f[k - 1]), ss[k])
  <2>1. f[k - 1] \in Seq(Int) /\ ss[k] \in Seq(Int) /\ f[k] = f[k - 1] \o ss[k]
      BY <1>1, <1>2 DEF Joins
  <2> QED BY <2>1, AtConcat
<1> DEFINE T == {m \in Nat : m <= n => At(b, i, f[n - m]) /\ Len(f[n - m]) <= Len(f[n])}
<1>4. 0 \in T
    BY <1>1, <1>2
<1>5. ASSUME NEW m \in Nat, m \in T PROVE m + 1 \in T
  <2> SUFFICES ASSUME m + 1 <= n
               PROVE  At(b, i, f[n - (m + 1)]) /\ Len(f[n - (m + 1)]) <= Len(f[n])
      OBVIOUS
  <2>1. n - m \in 1 .. n /\ (n - m) - 1 = n - (m + 1)
      BY <1>1
  <2>2. At(b, i, f[n - m]) /\ Len(f[n - m]) <= Len(f[n])
      BY <1>1, <1>5
  <2>3. /\ At(b, i, f[n - (m + 1)]) /\ ss[n - m] \in Seq(Int)
        /\ Len(f[n - m]) = Len(f[n - (m + 1)]) + Len(ss[n - m])
    <3>1. /\ ss[n - m] \in Seq(Int)
          /\ Len(f[n - m]) = Len(f[(n - m) - 1]) + Len(ss[n - m])
          /\ At(b, i, f[n - m]) => At(b, i, f[(n - m) - 1])
        BY <1>3, <2>1
    <3> QED BY <2>1, <2>2, <3>1
  <2>4. /\ Len(ss[n - m]) \in Nat /\ Len(f[n - (m + 1)]) \in Nat /\ Len(f[n - m]) \in Nat
        /\ Len(f[n]) \in Nat
    <3>1. n - (m + 1) \in 0 .. n /\ n - m \in 0 .. n /\ n \in 0 .. n
        BY <1>1, <2>1
    <3>2. Len(ss[n - m]) \in Nat
        BY <2>3, LenProperties
    <3> QED BY <1>2, <3>1, <3>2
  <2> DEFINE x == Len(f[n - m])
             y == Len(f[n - (m + 1)])
             z == Len(ss[n - m])
  <2>5. x \in Nat /\ y \in Nat /\ z \in Nat /\ x = y + z /\ x <= Len(f[n]) /\ Len(f[n]) \in Nat
      BY <2>2, <2>3, <2>4
  <2> HIDE DEF x, y, z
  <2>6. y <= Len(f[n])
      BY <2>5
  <2> QED BY <2>3, <2>6 DEF y
<1>6. \A m \in Nat : m \in T
  <2> HIDE DEF T
  <2> QED BY <1>4, <1>5, Induction
<1>7. ASSUME NEW k \in 1 .. n PROVE At(b, i, f[k]) /\ Len(f[k]) <= Len(f[n])
  <2>1. n - k \in Nat /\ n - (n - k) = k /\ n - k <= n
      BY <1>1
  <2> QED BY <1>6, <2>1
<1> QED BY <1>3, <1>7

LEMMA AsManyBytes ==
    ASSUME NEW ss \in Seq(Seq(Int)), NEW n, n = Len(ss), NEW f \in [0 .. n -> Seq(Int)],
           Joins(f, ss, n), \A k \in 1 .. n : Len(ss[k]) >= 1
    PROVE  n <= Len(f[n])
<1>1. n \in Nat /\ \A k \in 1 .. n : ss[k] \in Seq(Int) /\ Len(ss[k]) \in Nat
    BY ElementOfSeq
<1>a. \A k \in 0 .. n : f[k] \in Seq(Int) /\ Len(f[k]) \in Nat
  <2>1. \A k \in 0 .. n : f[k] \in Seq(Int)
      OBVIOUS
  <2> QED BY <2>1, LenProperties
<1> DEFINE T == {m \in Nat : m <= n => m <= Len(f[m])}
<1>2. 0 \in T
    BY <1>1, <1>a
<1>3. ASSUME NEW m \in Nat, m \in T PROVE m + 1 \in T
  <2> SUFFICES ASSUME m + 1 <= n PROVE m + 1 <= Len(f[m + 1])
      OBVIOUS
  <2>1. m + 1 \in 1 .. n /\ (m + 1) - 1 = m /\ m \in 0 .. n
      BY <1>1
  <2>2. f[m + 1] = f[m] \o ss[m + 1]
      BY <2>1 DEF Joins
  <2>3. /\ f[m] \in Seq(Int) /\ Len(f[m]) \in Nat /\ ss[m + 1] \in Seq(Int)
        /\ Len(ss[m + 1]) \in Nat /\ Len(ss[m + 1]) >= 1
      BY <1>1, <1>a, <2>1
  <2>4. Len(f[m + 1]) = Len(f[m]) + Len(ss[m + 1])
      BY <2>2, <2>3, ConcatProperties
  <2>5. m <= Len(f[m])
      BY <1>3, <2>1
  <2> DEFINE x == Len(f[m + 1])
             y == Len(f[m])
             z == Len(ss[m + 1])
  <2>6. x = y + z /\ y \in Nat /\ z \in Nat /\ z >= 1 /\ m <= y
      BY <2>3, <2>4, <2>5
  <2> HIDE DEF x, y, z
  <2>7. m + 1 <= x
      BY <2>6
  <2> QED BY <2>7 DEF x
<1>4. n \in T
  <2> HIDE DEF T
  <2> QED BY <1>1, <1>2, <1>3, Induction
<1> QED BY <1>1, <1>4

-----------------------------------------------------------------------------
\* The packs.

Packs == Codec!WritablePacks \cup Codec!ClientPacks

\* The encodings of a pack, by the gate and by a client's library.
Encodings(p) ==
    {e \in {Codec!DelayWritePack(p)} : p \in GatePacks}
    \cup {e \in {Codec!PeerWrites(p)} : p \in PeerPacks}

\* What ReadPack takes from the first byte x of a pack.
FirstByte(x, t, d, q) == x \div 16 = t /\ (x % 16) \div 8 = d /\ (x % 8) \div 2 = q

LEMMA FixedRead ==
    ASSUME NEW t \in 1 .. 14, NEW d \in {0, 1}, NEW q \in 0 .. 3, NEW x \in Int,
           x = t * 16 + d * 8 + q * 2
    PROVE  FirstByte(x, t, d, q)
<1>1. x % 16 = d * 8 + q * 2
    OBVIOUS
<1>2. x % 8 = q * 2
    OBVIOUS
<1> QED BY <1>1, <1>2 DEF FirstByte

USE DEF Codec!CONNECT, Codec!CONNACK, Codec!PUBLISH, Codec!PUBACK, Codec!PUBREC, Codec!PUBREL,
        Codec!PUBCOMP, Codec!SUBSCRIBE, Codec!SUBACK, Codec!UNSUBSCRIBE, Codec!UNSUBACK,
        Codec!PINGREQ, Codec!PINGRESP, Codec!DISCONNECT, Codec!Acks

\* The type, the dup bit and the level of a pack.
LEMMA HeaderWritten ==
    ASSUME NEW p \in Packs, NEW rest \in Seq(Int)
    PROVE  /\ Codec!Fixed(p) \in Seq(Int) /\ Len(Codec!Fixed(p)) = 1
           /\ Codec!Fixed(p) \o rest \in Seq(Int)
           /\ Len(Codec!Fixed(p) \o rest) = 1 + Len(rest)
<1>1. PICK t \in 1 .. 14, d \in {0, 1}, q \in 0 .. 3 : p.type = t /\ p.dup = d /\ p.qos = q
    BY DEF Packs, Codec!WritablePacks, Codec!ClientPacks, Codec!TopicsPacks, Codec!Dups,
           Codec!Levels
<1>2. Codec!Fixed(p) \in Seq(Int) /\ Len(Codec!Fixed(p)) = 1
    BY <1>1 DEF Codec!Fixed
<1> QED BY <1>2, AtConcat

LEMMA HeaderRead ==
    ASSUME NEW b \in Seq(Int), Len(b) >= 1, NEW p \in Packs, NEW rest \in Seq(Int),
           At(b, 1, Codec!Fixed(p) \o rest)
    PROVE  /\ Codec!FixedOf(b) = [type |-> p.type, dup |-> p.dup, qos |-> p.qos]
           /\ At(b, 2, rest)
<1>1. PICK t \in 1 .. 14, d \in {0, 1}, q \in 0 .. 3 : p.type = t /\ p.dup = d /\ p.qos = q
    BY DEF Packs, Codec!WritablePacks, Codec!ClientPacks, Codec!TopicsPacks, Codec!Dups,
           Codec!Levels
<1>x. PICK x \in Int : x = t * 16 + d * 8 + q * 2
    OBVIOUS
<1>2. Codec!Fixed(p) = <<x>>
    BY <1>1, <1>x DEF Codec!Fixed
<1>3. FirstByte(x, t, d, q)
    BY <1>x, FixedRead
<1>4. Codec!Fixed(p) \in Seq(Int) /\ Len(Codec!Fixed(p)) = 1
    BY HeaderWritten
<1>5. At(b, 1, Codec!Fixed(p)) /\ At(b, 1 + Len(Codec!Fixed(p)), rest)
    BY <1>4, AtConcat
<1>6. At(b, 2, rest) /\ At(b, 1, <<x>>)
    BY <1>2, <1>4, <1>5
<1>7. b[1] = x
    BY <1>6, AtOne DEF Codec!Byte
<1> QED BY <1>1, <1>3, <1>6, <1>7 DEF Codec!FixedOf, FirstByte

\* A length of at most three.
LEMMA ShortLength ==
    ASSUME NEW b, NEW l \in 0 .. 3, Codec!Byte(b, 2) = l
    PROVE  Codec!LengthBytes(b) = 1 /\ Codec!Length(b) = l
<1>1. Base \in Nat \ {0} /\ Base >= 4 /\ l \in 0 .. Base - 1
    BY CodecAssumption
<1>2. l % Base = l
    BY <1>1, Remainders
<1>3. Codec!LengthBytes(b) = 1
    BY <1>1 DEF Codec!LengthBytes
<1>4. Codec!Length(b) = (l % Base) + Base * (0 + Base * 0)
    BY <1>3 DEF Codec!Length
<1> QED BY <1>1, <1>2, <1>3, <1>4

\* A pack with the bytes e, at the start of b, is read as p with nothing left of it.
Reads(b, p, e) ==
    LET r == Codec!ReadBody(b, Codec!LengthBytes(b) + 2)
    IN  /\ Codec!FixedOf(b) = [type |-> p.type, dup |-> p.dup, qos |-> p.qos]
        /\ Codec!LengthBytes(b) < Len(e)
        /\ r.ok /\ r.next = Len(e) + 1
        /\ DOMAIN r.pack = DOMAIN Codec!Seen(p)
        /\ \A k \in DOMAIN Codec!Seen(p) : r.pack[k] = p[k]

\* That is so whatever follows the pack.
Crossing(p, e) ==
    /\ e \in Seq(Int) /\ Len(e) >= 2
    /\ \A b \in Seq(Int) : At(b, 1, e) /\ Len(b) >= Len(e) => Reads(b, p, e)

\* The packs of which nothing is read but the header.
LEMMA EmptyRead ==
    ASSUME NEW b, NEW p, DOMAIN Codec!Seen(p) = {}, NEW e, Len(e) \in Nat, Len(e) > 1,
           Codec!FixedOf(b) = [type |-> p.type, dup |-> p.dup, qos |-> p.qos],
           Codec!LengthBytes(b) = 1, Codec!ReadBody(b, 3) = Codec!Read(<<>>, Len(e) + 1)
    PROVE  Reads(b, p, e)
<1>1. DOMAIN <<>> = {} /\ 1 + 2 = 3
    OBVIOUS
<1> QED BY <1>1 DEF Reads, Codec!Read

\* What is read of the header of a pack that tells its length l, of at most three, in one
\* byte.
Short(b, p, l) ==
    /\ Codec!FixedOf(b) = [type |-> p.type, dup |-> p.dup, qos |-> p.qos]
    /\ Codec!LengthBytes(b) = 1 /\ Codec!Length(b) = l

\* A sequence put before another one.
LEMMA Before ==
    ASSUME NEW s \in Seq(Int), NEW t \in Seq(Int), NEW u, u = s \o t
    PROVE  /\ u \in Seq(Int) /\ Len(u) = Len(s) + Len(t) /\ Len(s) \in Nat /\ Len(t) \in Nat
           /\ Len(s) >= 1 => u[1] = s[1]
           /\ \A b : \A i \in Nat : At(b, i, u) => At(b, i, s) /\ At(b, i + Len(s), t)
<1>1. /\ u \in Seq(Int) /\ Len(u) = Len(s) + Len(t) /\ Len(s) \in Nat /\ Len(t) \in Nat
      /\ Len(s) >= 1 => u[1] = s[1]
    BY ConcatProperties
<1>2. ASSUME NEW b, NEW i \in Nat, At(b, i, u) PROVE At(b, i, s) /\ At(b, i + Len(s), t)
    BY <1>2, AtConcat
<1> QED BY <1>1, <1>2

LEMMA ShortRead ==
    ASSUME NEW p \in Packs, NEW l \in 0 .. 3, NEW rest \in Seq(Int), Len(rest) >= 1, rest[1] = l,
           NEW e, e = Codec!Fixed(p) \o rest
    PROVE  /\ e \in Seq(Int) /\ Len(e) = 1 + Len(rest) /\ Len(e) >= 2
           /\ \A b \in Seq(Int) : At(b, 1, e) /\ Len(b) >= Len(e) =>
                Short(b, p, l) /\ At(b, 2, rest)
<1>1. e \in Seq(Int) /\ Len(e) = 1 + Len(rest)
    BY HeaderWritten
<1>2. Len(rest) \in Nat
    BY LenProperties
<1>3. ASSUME NEW b \in Seq(Int), At(b, 1, e), Len(b) >= Len(e)
      PROVE  Short(b, p, l) /\ At(b, 2, rest)
  <2>1. Len(b) >= 1 /\ At(b, 1, Codec!Fixed(p) \o rest)
      BY <1>1, <1>2, <1>3, LenProperties
  <2>2. Codec!FixedOf(b) = [type |-> p.type, dup |-> p.dup, qos |-> p.qos] /\ At(b, 2, rest)
      BY <2>1, HeaderRead
  <2>3. Codec!Byte(b, 2) = l
      BY <2>2, FirstBytes
  <2>4. Codec!LengthBytes(b) = 1 /\ Codec!Length(b) = l
      BY <2>3, ShortLength
  <2> QED BY <2>2, <2>4 DEF Short
<1> QED BY <1>1, <1>2, <1>3

LEMMA ConnAckRead ==
    ASSUME NEW p \in Packs, p.type = Codec!CONNACK PROVE Crossing(p, Codec!DelayWritePack(p))
<1>1. p \in [type : {Codec!CONNACK}, dup : Codec!Dups, qos : Codec!Levels, code : Codec!Bytes]
    BY DEF Packs, Codec!WritablePacks, Codec!ClientPacks, Codec!TopicsPacks
<1> DEFINE e == Codec!DelayWritePack(p)
           rest == <<2, 0, p.code>>
<1>2. e = Codec!Fixed(p) \o rest
    BY DEF Codec!DelayWritePack
<1>3. rest \in Seq(Int) /\ Len(rest) = 3 /\ rest[1] = 2
    BY <1>1 DEF Codec!Bytes
<1> HIDE DEF e, rest
<1>4. Len(rest) >= 1 /\ 2 \in 0 .. 3
    BY <1>3
<1>5. /\ e \in Seq(Int) /\ Len(e) = 1 + Len(rest) /\ Len(e) >= 2
      /\ \A b \in Seq(Int) : At(b, 1, e) /\ Len(b) >= Len(e) => Short(b, p, 2)
    BY <1>2, <1>3, <1>4, ShortRead
<1>6. Len(e) = 4
    BY <1>3, <1>5
<1>7. DOMAIN Codec!Seen(p) = {}
    BY <1>1 DEF Codec!Seen
<1>8. ASSUME NEW b \in Seq(Int), Short(b, p, 2) PROVE Reads(b, p, e)
  <2>1. Codec!ReadBody(b, 3) = Codec!Read(<<>>, Len(e) + 1)
      BY <1>6, <1>8 DEF Codec!ReadBody, Short
  <2>2. /\ Codec!FixedOf(b) = [type |-> p.type, dup |-> p.dup, qos |-> p.qos]
        /\ Codec!LengthBytes(b) = 1
      BY <1>8 DEF Short
  <2>3. Len(e) \in Nat /\ Len(e) > 1
      BY <1>6
  <2> QED BY <1>7, <2>1, <2>2, <2>3, EmptyRead
<1> QED BY <1>5, <1>8 DEF Crossing, e

LEMMA PingRespRead ==
    ASSUME NEW p \in Packs, p.type = Codec!PINGRESP PROVE Crossing(p, Codec!DelayWritePack(p))
<1>1. p \in [type : {Codec!PINGRESP}, dup : Codec!Dups, qos : Codec!Levels]
    BY DEF Packs, Codec!WritablePacks, Codec!ClientPacks, Codec!TopicsPacks
<1> DEFINE e == Codec!DelayWritePack(p)
           rest == <<0>>
<1>2. e = Codec!Fixed(p) \o rest
    BY DEF Codec!DelayWritePack
<1>3. rest \in Seq(Int) /\ Len(rest) = 1 /\ rest[1] = 0
    OBVIOUS
<1> HIDE DEF e, rest
<1>4. Len(rest) >= 1 /\ 0 \in 0 .. 3
    BY <1>3
<1>5. /\ e \in Seq(Int) /\ Len(e) = 1 + Len(rest) /\ Len(e) >= 2
      /\ \A b \in Seq(Int) : At(b, 1, e) /\ Len(b) >= Len(e) => Short(b, p, 0)
    BY <1>2, <1>3, <1>4, ShortRead
<1>6. Len(e) = 2
    BY <1>3, <1>5
<1>7. DOMAIN Codec!Seen(p) = {}
    BY <1>1 DEF Codec!Seen
<1>8. ASSUME NEW b \in Seq(Int), Short(b, p, 0) PROVE Reads(b, p, e)
  <2>1. Codec!ReadBody(b, 3) = Codec!Read(<<>>, Len(e) + 1)
      BY <1>6, <1>8 DEF Codec!ReadBody, Short
  <2>2. /\ Codec!FixedOf(b) = [type |-> p.type, dup |-> p.dup, qos |-> p.qos]
        /\ Codec!LengthBytes(b) = 1
      BY <1>8 DEF Short
  <2>3. Len(e) \in Nat /\ Len(e) > 1
      BY <1>6
  <2> QED BY <1>7, <2>1, <2>2, <2>3, EmptyRead
<1> QED BY <1>5, <1>8 DEF Crossing, e

LEMMA PingReqRead ==
    ASSUME NEW p \in Packs, p.type \in {Codec!PINGREQ, Codec!DISCONNECT}
    PROVE  Crossing(p, Codec!PeerWrites(p))
<1>1. p \in [type : {Codec!PINGREQ, Codec!DISCONNECT}, dup : Codec!Dups, qos : Codec!Levels]
    BY DEF Packs, Codec!WritablePacks, Codec!ClientPacks, Codec!TopicsPacks
<1> DEFINE e == Codec!PeerWrites(p)
           rest == Codec!getRemainingLength(0)
<1>2. rest \in Seq(Int) /\ Len(rest) = 1 /\ rest[1] = 0
  <2>1. 0 <= Codec!MaxLength /\ 0 < Base /\ 0 \in Nat
      BY CodecAssumption DEF Codec!MaxLength
  <2> QED BY <2>1, LengthRead
<1>3. e = Codec!Fixed(p) \o rest
  <2>1. Codec!PeerBody(p) = <<>> /\ Len(<<>>) = 0
      BY DEF Codec!PeerBody
  <2>2. e = Codec!Fixed(p) \o rest \o <<>>
      BY <2>1 DEF Codec!PeerWrites
  <2>3. Codec!Fixed(p) \o rest \in Seq(Int)
      BY <1>2, HeaderWritten
  <2> HIDE DEF e, rest
  <2> QED BY <2>2, <2>3, ConcatEmptySeq
<1> HIDE DEF e, rest
<1>4. Len(rest) >= 1 /\ 0 \in 0 .. 3
    BY <1>2
<1>5. /\ e \in Seq(Int) /\ Len(e) = 1 + Len(rest) /\ Len(e) >= 2
      /\ \A b \in Seq(Int) : At(b, 1, e) /\ Len(b) >= Len(e) => Short(b, p, 0)
    BY <1>2, <1>3, <1>4, ShortRead
<1>6. Len(e) = 2
    BY <1>2, <1>5
<1>7. DOMAIN Codec!Seen(p) = {}
    BY <1>1 DEF Codec!Seen
<1>8. ASSUME NEW b \in Seq(Int), Short(b, p, 0) PROVE Reads(b, p, e)
  <2>1. Codec!ReadBody(b, 3) = Codec!Read(<<>>, Len(e) + 1)
      BY <1>6, <1>8 DEF Codec!ReadBody, Short
  <2>2. /\ Codec!FixedOf(b) = [type |-> p.type, dup |-> p.dup, qos |-> p.qos]
        /\ Codec!LengthBytes(b) = 1
      BY <1>8 DEF Short
  <2>3. Len(e) \in Nat /\ Len(e) > 1
      BY <1>6
  <2> QED BY <1>7, <2>1, <2>2, <2>3, EmptyRead
<1> QED BY <1>5, <1>8 DEF Crossing, e

LEMMA AckRead ==
    ASSUME NEW p \in Packs, p.type \in Codec!Acks PROVE Crossing(p, Codec!DelayWritePack(p))
<1>1. p \in [type : Codec!Acks, dup : Codec!Dups, qos : Codec!Levels, mid : Codec!Word]
    BY DEF Packs, Codec!WritablePacks, Codec!ClientPacks, Codec!TopicsPacks
<1> DEFINE e == Codec!DelayWritePack(p)
           id == Codec!writeInt(p.mid)
           length == <<2>>
           rest == length \o id
<1>2. e = Codec!Fixed(p) \o rest
    BY <1>1 DEF Codec!DelayWritePack
<1>3. /\ id \in Seq(Int) /\ Len(id) = 2 /\ p.mid \in Codec!Word
      /\ \A b, i : i \in Nat /\ At(b, i, id) => Codec!readInt(b, i) = p.mid
    BY <1>1, IntRead
<1> HIDE DEF e, id
<1>4. length \in Seq(Int) /\ Len(length) = 1 /\ length[1] = 2
    OBVIOUS
<1> HIDE DEF length
<1>a. rest = length \o id
    OBVIOUS
<1> HIDE DEF rest
<1>5. rest \in Seq(Int) /\ Len(rest) = 3 /\ rest[1] = 2
  <2>1. /\ rest \in Seq(Int) /\ Len(rest) = Len(length) + Len(id)
        /\ Len(length) >= 1 => rest[1] = length[1]
      BY <1>3, <1>4, <1>a, Before
  <2> QED BY <1>3, <1>4, <2>1
<1>6. ASSUME NEW b, At(b, 2, rest) PROVE At(b, 3, id)
  <2>1. At(b, 2 + Len(length), id)
      BY <1>3, <1>4, <1>6, <1>a, Before
  <2> QED BY <1>4, <2>1
<1>7. Len(rest) >= 1 /\ 2 \in 0 .. 3
    BY <1>5
<1>8. /\ e \in Seq(Int) /\ Len(e) = 1 + Len(rest) /\ Len(e) >= 2
      /\ \A b \in Seq(Int) : At(b, 1, e) /\ Len(b) >= Len(e) => Short(b, p, 2) /\ At(b, 2, rest)
    BY <1>2, <1>5, <1>7, ShortRead
<1>9. Len(e) = 4
    BY <1>5, <1>8
<1>10. DOMAIN Codec!Seen(p) = {"mid"}
    BY <1>1 DEF Codec!Seen
<1>11. ASSUME NEW b \in Seq(Int), Short(b, p, 2), At(b, 3, id) PROVE Reads(b, p, e)
  <2>1. Codec!readInt(b, 3) = p.mid
      BY <1>3, <1>11
  <2>2. Codec!ReadBody(b, 3) = Codec!Read([mid |-> p.mid], 5)
      BY <1>11, <2>1 DEF Codec!ReadBody, Codec!ReadAck, Short
  <2>3. Codec!LengthBytes(b) + 2 = 3 /\ Codec!LengthBytes(b) < Len(e)
      BY <1>9, <1>11 DEF Short
  <2> QED BY <1>9, <1>10, <1>11, <2>2, <2>3 DEF Short, Reads, Codec!Read
<1> QED BY <1>6, <1>8, <1>11 DEF Crossing, e

LEMMA SubAckRead ==
    ASSUME NEW p \in Packs, p.type = Codec!SUBACK PROVE Crossing(p, Codec!DelayWritePack(p))
<1>1. p \in [type : {Codec!SUBACK}, dup : Codec!Dups, qos : Codec!Levels, mid : Codec!Word,
             granted : Codec!Bytes]
    BY DEF Packs, Codec!WritablePacks, Codec!ClientPacks, Codec!TopicsPacks
<1> DEFINE e == Codec!DelayWritePack(p)
           id == Codec!writeInt(p.mid)
           level == <<p.granted>>
           length == <<3>>
           start == length \o id
           rest == start \o level
<1>2. e = Codec!Fixed(p) \o rest
    BY <1>1 DEF Codec!DelayWritePack
<1>3. /\ id \in Seq(Int) /\ Len(id) = 2 /\ p.mid \in Codec!Word
      /\ \A b, i : i \in Nat /\ At(b, i, id) => Codec!readInt(b, i) = p.mid
    BY <1>1, IntRead
<1>4. level \in Seq(Int) /\ Len(level) = 1
    BY <1>1 DEF Codec!Bytes
<1>5. \A b, i : i \in Nat /\ At(b, i, level) => Codec!Byte(b, i) = p.granted
    BY AtOne
<1> HIDE DEF e, id, level
<1>6. length \in Seq(Int) /\ Len(length) = 1 /\ length[1] = 3
    OBVIOUS
<1> HIDE DEF length
<1>a. start = length \o id /\ rest = start \o level
    OBVIOUS
<1> HIDE DEF start, rest
<1>7. start \in Seq(Int) /\ Len(start) = 3 /\ start[1] = 3
  <2>1. /\ start \in Seq(Int) /\ Len(start) = Len(length) + Len(id)
        /\ Len(length) >= 1 => start[1] = length[1]
      BY <1>3, <1>6, <1>a, Before
  <2> QED BY <1>3, <1>6, <2>1
<1>8. ASSUME NEW b, At(b, 2, start) PROVE At(b, 3, id)
  <2>1. At(b, 2 + Len(length), id)
      BY <1>3, <1>6, <1>8, <1>a, Before
  <2> QED BY <1>6, <2>1
<1>9. rest \in Seq(Int) /\ Len(rest) = 4 /\ rest[1] = 3
  <2>1. /\ rest \in Seq(Int) /\ Len(rest) = Len(start) + Len(level)
        /\ Len(start) >= 1 => rest[1] = start[1]
      BY <1>4, <1>7, <1>a, Before
  <2> QED BY <1>4, <1>7, <2>1
<1>10. ASSUME NEW b, At(b, 2, rest) PROVE At(b, 2, start) /\ At(b, 5, level)
  <2>1. At(b, 2, start) /\ At(b, 2 + Len(start), level)
      BY <1>4, <1>7, <1>10, <1>a, Before
  <2> QED BY <1>7, <2>1
<1>11. Len(rest) >= 1 /\ 3 \in 0 .. 3
    BY <1>9
<1>12. /\ e \in Seq(Int) /\ Len(e) = 1 + Len(rest) /\ Len(e) >= 2
       /\ \A b \in Seq(Int) : At(b, 1, e) /\ Len(b) >= Len(e) => Short(b, p, 3) /\ At(b, 2, rest)
    BY <1>2, <1>9, <1>11, ShortRead
<1>13. Len(e) = 5
    BY <1>9, <1>12
<1>14. DOMAIN Codec!Seen(p) = {"mid", "granted"}
    BY <1>1 DEF Codec!Seen
<1>15. ASSUME NEW b \in Seq(Int), Short(b, p, 3), At(b, 3, id), At(b, 5, level)
       PROVE  Reads(b, p, e)
  <2>1. Codec!readInt(b, 3) = p.mid /\ Codec!Byte(b, 5) = p.granted
      BY <1>3, <1>5, <1>15
  <2>2. Codec!ReadBody(b, 3) = Codec!Read([mid |-> p.mid, granted |-> p.granted], 6)
      BY <1>15, <2>1 DEF Codec!ReadBody, Codec!ReadSubAck, Short
  <2>3. Codec!LengthBytes(b) + 2 = 3 /\ Codec!LengthBytes(b) < Len(e)
      BY <1>13, <1>15 DEF Short
  <2> QED BY <1>13, <1>14, <1>15, <2>2, <2>3 DEF Short, Reads, Codec!Read
<1> QED BY <1>8, <1>10, <1>12, <1>15 DEF Crossing, e

\* What is read of the header of a pack that tells its length l in n bytes.
Long(b, p, n, l) ==
    /\ Codec!FixedOf(b) = [type |-> p.type, dup |-> p.dup, qos |-> p.qos]
    /\ Codec!LengthBytes(b) = n /\ Codec!Length(b) = l

LEMMA Associated ==
    ASSUME NEW s \in Seq(Int), NEW t \in Seq(Int), NEW u \in Seq(Int)
    PROVE  (s \o t) \o u = s \o (t \o u)
BY ConcatAssociative

LEMMA LongWritten ==
    ASSUME NEW p \in Packs, NEW l \in Nat, l <= Codec!MaxLength, NEW body \in Seq(Int)
    PROVE  /\ Codec!Fixed(p) \o (Codec!getRemainingLength(l) \o body) \in Seq(Int)
           /\ Len(Codec!Fixed(p) \o (Codec!getRemainingLength(l) \o body))
                = 1 + Len(Codec!getRemainingLength(l)) + Len(body)
           /\ Codec!getRemainingLength(l) \in Seq(Int)
           /\ Len(Codec!getRemainingLength(l)) \in 1 .. 3 /\ Len(body) \in Nat
<1> DEFINE d == Codec!getRemainingLength(l)
           rest == d \o body
<1>1. d \in Seq(Int) /\ Len(d) \in 1 .. 3
    BY LengthRead
<1> HIDE DEF d
<1>2. rest \in Seq(Int) /\ Len(rest) = Len(d) + Len(body) /\ Len(body) \in Nat
    BY <1>1, Before
<1> HIDE DEF rest
<1>3. Codec!Fixed(p) \o rest \in Seq(Int) /\ Len(Codec!Fixed(p) \o rest) = 1 + Len(rest)
    BY <1>2, HeaderWritten
<1>4. Len(Codec!Fixed(p) \o rest) = 1 + Len(d) + Len(body)
    BY <1>1, <1>2, <1>3
<1> QED BY <1>1, <1>2, <1>3, <1>4 DEF d, rest

LEMMA LongRead ==
    ASSUME NEW p \in Packs, NEW l \in Nat, l <= Codec!MaxLength,
           NEW d, d = Codec!getRemainingLength(l), NEW body \in Seq(Int),
           NEW e, e = Codec!Fixed(p) \o (d \o body),
           NEW b \in Seq(Int), At(b, 1, e), Len(b) >= Len(e)
    PROVE  Long(b, p, Len(d), l) /\ At(b, Len(d) + 2, body)
<1> DEFINE rest == d \o body
<1>1. /\ d \in Seq(Int) /\ Len(d) \in 1 .. 3 /\ e \in Seq(Int) /\ Len(e) >= 2
  <2>1. /\ e \in Seq(Int) /\ Len(e) = 1 + Len(d) + Len(body)
        /\ d \in Seq(Int) /\ Len(d) \in 1 .. 3 /\ Len(body) \in Nat
      BY LongWritten
  <2> QED BY <2>1
<1>2. /\ rest \in Seq(Int)
      /\ At(b, 2, rest) => At(b, 2, d) /\ At(b, 2 + Len(d), body)
    BY <1>1, Before
<1>3. e = Codec!Fixed(p) \o rest
    OBVIOUS
<1> HIDE DEF rest
<1>4. Len(b) >= 1 /\ At(b, 1, Codec!Fixed(p) \o rest)
  <2>1. Len(e) \in Nat /\ Len(b) \in Nat
      BY <1>1, LenProperties
  <2> QED BY <1>1, <1>3, <2>1
<1>5. Codec!FixedOf(b) = [type |-> p.type, dup |-> p.dup, qos |-> p.qos] /\ At(b, 2, rest)
    BY <1>2, <1>4, HeaderRead
<1>6. At(b, 2, d) /\ At(b, 2 + Len(d), body)
    BY <1>2, <1>5
<1>7. Codec!LengthBytes(b) = Len(d) /\ Codec!Length(b) = l
    BY <1>6, LengthRead
<1>8. 2 + Len(d) = Len(d) + 2
    BY <1>1
<1> QED BY <1>5, <1>6, <1>7, <1>8 DEF Long

\* The topic, the id if there is one, and the message take the rest of the pack.
LEMMA PublishBody ==
    ASSUME NEW b, NEW first \in Nat, NEW p \in Packs, p.type = Codec!PUBLISH, Codec!Crosses(p),
           NEW d, d \in Seq(Int), Long(b, p, Len(d), Codec!PublishLength(p)),
           At(b, first, Codec!writeString(p.topic)),
           p.qos > 0 => At(b, first + 2 + Len(p.topic), Codec!writeInt(p.mid)),
           At(b, first + Codec!PublishLength(p) - Len(p.msg), p.msg)
    PROVE  Codec!ReadBody(b, first) =
             Codec!Read([mid |-> p.mid, topic |-> p.topic, msg |-> p.msg],
                        first + Codec!PublishLength(p))
<1>1. /\ p \in [type : {Codec!PUBLISH}, dup : Codec!Dups, qos : Codec!Levels, mid : Codec!Word,
                topic : Codec!Text, msg : Seq(Codec!Bytes)]
    BY DEF Packs, Codec!WritablePacks, Codec!ClientPacks, Codec!TopicsPacks
<1> DEFINE n == Len(p.topic)
           m == Len(p.msg)
           l == Codec!PublishLength(p)
           i == first + l - m
<1>2. n \in Nat /\ p.msg \in Seq(Int) /\ m \in Nat
  <2>1. p.topic \in Codec!Text /\ p.msg \in Seq(Codec!Bytes)
      BY <1>1
  <2>2. p.msg \in Seq(Int)
      BY <2>1, SeqMonotonic DEF Codec!Bytes
  <2> QED BY <2>1, <2>2, LenProperties DEF Codec!Text
<1>3. /\ p.qos \in 0 .. 3 /\ n > 0 /\ (p.qos = 0 => m >= 2 /\ p.mid = 0)
      /\ l = (IF p.qos > 0 THEN 4 ELSE 2) + n + m
    BY <1>1 DEF Codec!Crosses, Codec!PublishLength, Codec!Levels
<1>4. Codec!readInt(b, first) = n /\ Codec!readString(b, first) = p.topic
    BY <1>1, TextRead
<1>5. p.qos > 0 => Codec!readInt(b, first + 2 + n) = p.mid
  <2>1. p.mid \in Codec!Word /\ first + 2 + n \in Nat
      BY <1>1, <1>2
  <2> QED BY <2>1, IntRead
<1> HIDE DEF n, m
<1>a. l \in Nat
    BY <1>2, <1>3
<1>6. i \in Nat /\ i = first + 2 + n + (IF p.qos > 0 THEN 2 ELSE 0)
    BY <1>2, <1>3
<1>7. Codec!readFull(b, i, m) = p.msg
  <2>1. At(b, i, p.msg)
      BY DEF m
  <2> HIDE DEF i
  <2> QED BY <1>2, <1>6, <2>1, FullRead DEF m
<1> HIDE DEF l, i
<1>8. Codec!ReadBody(b, first) = Codec!ReadPublish(b, first)
    BY <1>1 DEF Long, Codec!ReadBody
<1>9. Codec!FixedOf(b).qos = p.qos /\ Codec!Length(b) = l
    BY DEF Long, l
<1>10. /\ ~(n < 1 \/ l - n - 2 < 2) /\ first + 2 + n + (l - n - 2) = first + l
       /\ first + l - i = m
    BY <1>2, <1>3, <1>6
<1>11. (IF p.qos > 0 THEN Codec!readInt(b, first + 2 + n) ELSE 0) = p.mid
    BY <1>3, <1>5
<1>12. Codec!ReadPublish(b, first) =
         Codec!Read([mid |-> IF p.qos > 0 THEN Codec!readInt(b, first + 2 + n) ELSE 0,
                     topic |-> p.topic, msg |-> Codec!readFull(b, i, first + l - i)],
                    first + l)
  <2> DEFINE vlen == l - n - 2
             end == first + 2 + n + vlen
             body == first + 2 + n + (IF p.qos > 0 THEN 2 ELSE 0)
  <2>1. Codec!ReadPublish(b, first) =
          IF n < 1 \/ vlen < 2 THEN Codec!Error(first + 2 + n)
          ELSE Codec!Read([mid |-> IF p.qos > 0 THEN Codec!readInt(b, first + 2 + n) ELSE 0,
                           topic |-> p.topic, msg |-> Codec!readFull(b, body, end - body)],
                          end)
      BY <1>4, <1>9 DEF Codec!ReadPublish
  <2>2. ~(n < 1 \/ vlen < 2) /\ end = first + l /\ body = i
      BY <1>6, <1>10
  <2> HIDE DEF vlen, end, body
  <2>3. Codec!ReadPublish(b, first) =
          Codec!Read([mid |-> IF p.qos > 0 THEN Codec!readInt(b, first + 2 + n) ELSE 0,
                      topic |-> p.topic, msg |-> Codec!readFull(b, body, end - body)], end)
      BY <2>1, <2>2
  <2>4. end = first + l
      BY <2>2
  <2>5. body = i
      BY <2>2
  <2>6. end - body = first + l - i
      BY <1>6, <1>a, <2>4, <2>5
  <2> QED BY <2>3, <2>4, <2>5, <2>6
<1>13. Codec!readFull(b, i, first + l - i) = p.msg
    BY <1>7, <1>10
<1>14. Codec!ReadPublish(b, first) =
         Codec!Read([mid |-> p.mid, topic |-> p.topic, msg |-> p.msg], first + l)
    BY <1>11, <1>12, <1>13
<1> QED BY <1>8, <1>14 DEF l

LEMMA PublishRead ==
    ASSUME NEW p \in Packs, p.type = Codec!PUBLISH, Codec!Crosses(p)
    PROVE  Crossing(p, Codec!DelayWritePack(p))
<1>1. p \in [type : {Codec!PUBLISH}, dup : Codec!Dups, qos : Codec!Levels, mid : Codec!Word,
             topic : Codec!Text, msg : Seq(Codec!Bytes)]
    BY DEF Packs, Codec!WritablePacks, Codec!ClientPacks, Codec!TopicsPacks
<1> DEFINE e == Codec!DelayWritePack(p)
           l == Codec!PublishLength(p)
           d == Codec!getRemainingLength(l)
           topic == Codec!writeString(p.topic)
           id == IF p.qos > 0 THEN Codec!writeInt(p.mid) ELSE <<>>
           msg == p.msg
           start == topic \o id
           body == start \o msg
<1>2. e = Codec!Fixed(p) \o (((d \o topic) \o id) \o msg)
  <2>1. e = Codec!Fixed(p) \o Codec!WritePublish(p)
      BY DEF Codec!DelayWritePack
  <2>2. Codec!WritePublish(p) = ((d \o topic) \o id) \o msg
      BY DEF Codec!WritePublish
  <2> QED BY <2>1, <2>2
<1>3. msg \in Seq(Int) /\ Len(msg) \in Nat /\ Len(p.topic) \in Nat
  <2>1. p.topic \in Codec!Text /\ p.msg \in Seq(Codec!Bytes)
      BY <1>1
  <2>2. p.msg \in Seq(Int)
      BY <2>1, SeqMonotonic DEF Codec!Bytes
  <2> QED BY <2>1, <2>2, LenProperties DEF Codec!Text
<1>4. topic \in Seq(Int) /\ Len(topic) = 2 + Len(p.topic)
    BY <1>1, TextRead
<1>5. id \in Seq(Int) /\ Len(id) = IF p.qos > 0 THEN 2 ELSE 0
  <2>1. Codec!writeInt(p.mid) \in Seq(Int) /\ Len(Codec!writeInt(p.mid)) = 2
      BY <1>1, IntRead
  <2>2. CASE p.qos > 0
    <3>1. id = Codec!writeInt(p.mid)
        BY <2>2
    <3> QED BY <2>1, <2>2, <3>1
  <2>3. CASE ~(p.qos > 0)
    <3>1. id = <<>>
        BY <2>3
    <3> QED BY <2>3, <3>1
  <2> QED BY <2>2, <2>3
<1>6. /\ l \in Nat /\ l <= Codec!MaxLength /\ l = Len(topic) + Len(id) + Len(msg)
  <2>1. l = (IF p.qos > 0 THEN 4 ELSE 2) + Len(p.topic) + Len(msg)
      BY DEF Codec!PublishLength
  <2>2. l <= Codec!MaxLength
      BY DEF Codec!Crosses
  <2> HIDE DEF l, msg, topic, id
  <2>3. CASE p.qos > 0
    <3>1. Len(id) = 2 /\ l = 4 + Len(p.topic) + Len(msg)
        BY <1>5, <2>1, <2>3
    <3> QED BY <1>3, <1>4, <2>2, <3>1
  <2>4. CASE ~(p.qos > 0)
    <3>1. Len(id) = 0 /\ l = 2 + Len(p.topic) + Len(msg)
        BY <1>5, <2>1, <2>4
    <3> QED BY <1>3, <1>4, <2>2, <3>1
  <2> QED BY <2>3, <2>4
<1>7. d \in Seq(Int)
    BY <1>6, LengthRead
<1>i. p.qos > 0 => id = Codec!writeInt(p.mid)
    OBVIOUS
<1> HIDE DEF e, l, d, topic, id, msg
<1>8. start \in Seq(Int) /\ Len(start) = Len(topic) + Len(id)
    BY <1>4, <1>5, Before
<1>9. body \in Seq(Int) /\ Len(body) = Len(start) + Len(msg)
  <2> HIDE DEF start
  <2> QED BY <1>3, <1>8, Before
<1>10. ((d \o topic) \o id) \o msg = d \o body
  <2>1. (d \o topic) \o id = d \o start
    <3>1. (d \o topic) \o id = d \o (topic \o id)
        BY <1>4, <1>5, <1>7, Associated
    <3> QED BY <3>1
  <2>2. (d \o start) \o msg = d \o (start \o msg)
    <3> HIDE DEF start
    <3> QED BY <1>3, <1>7, <1>8, ConcatAssociative
  <2> QED BY <2>1, <2>2
<1>11. \A b : \A i \in Nat : At(b, i, body) => At(b, i, start) /\ At(b, i + Len(start), msg)
  <2> HIDE DEF start
  <2> QED BY <1>3, <1>8, Before
<1>12. \A b : \A i \in Nat : At(b, i, start) => At(b, i, topic) /\ At(b, i + Len(topic), id)
    BY <1>4, <1>5, Before
<1>13. e = Codec!Fixed(p) \o (d \o body) /\ Len(body) = l
  <2> HIDE DEF body, start
  <2>1. e = Codec!Fixed(p) \o (d \o body)
      BY <1>2, <1>10
  <2> QED BY <2>1, <1>3, <1>4, <1>5, <1>6, <1>8, <1>9
<1> HIDE DEF body, start
<1>14. /\ e \in Seq(Int) /\ Len(e) = 1 + Len(d) + Len(body)
       /\ d \in Seq(Int) /\ Len(d) \in 1 .. 3 /\ Len(body) \in Nat /\ Len(e) >= 2
       /\ \A b \in Seq(Int) : At(b, 1, e) /\ Len(b) >= Len(e) =>
            Long(b, p, Len(d), l) /\ At(b, Len(d) + 2, body)
  <2>1. /\ l \in Nat /\ l <= Codec!MaxLength /\ d = Codec!getRemainingLength(l)
        /\ body \in Seq(Int) /\ e = Codec!Fixed(p) \o (d \o body)
      BY <1>6, <1>9, <1>13 DEF d
  <2>2. /\ e \in Seq(Int) /\ Len(e) = 1 + Len(d) + Len(body)
        /\ d \in Seq(Int) /\ Len(d) \in 1 .. 3 /\ Len(body) \in Nat
      BY <2>1, LongWritten
  <2>3. ASSUME NEW b \in Seq(Int), At(b, 1, e), Len(b) >= Len(e)
        PROVE  Long(b, p, Len(d), l) /\ At(b, Len(d) + 2, body)
      BY <2>1, <2>3, LongRead
  <2>4. Len(e) >= 2
      BY <2>2
  <2> QED BY <2>2, <2>3, <2>4
<1>15. DOMAIN Codec!Seen(p) = {"mid", "topic", "msg"}
    BY <1>1 DEF Codec!Seen
<1>16. ASSUME NEW b \in Seq(Int), Long(b, p, Len(d), l), At(b, Len(d) + 2, body)
       PROVE  Reads(b, p, e)
  <2> DEFINE first == Len(d) + 2
  <2>1. first \in Nat
      BY <1>14
  <2>2. At(b, first, start) /\ At(b, first + Len(start), msg)
      BY <1>11, <1>16, <2>1
  <2>3. At(b, first, topic) /\ At(b, first + Len(topic), id)
      BY <1>12, <2>1, <2>2
  <2> HIDE DEF first
  <2>4. first + Len(start) = first + l - Len(msg) /\ first + Len(topic) = first + 2 + Len(p.topic)
    <3>1. Len(id) \in Nat
        BY <1>5, LenProperties
    <3>2. first + Len(start) = first + l - Len(msg)
        BY <1>3, <1>4, <1>6, <1>8, <2>1, <3>1
    <3>3. first + Len(topic) = first + 2 + Len(p.topic)
      <4> DEFINE n == Len(p.topic)
                 m == Len(topic)
      <4>1. m = 2 + n /\ n \in Nat
          BY <1>3, <1>4
      <4> HIDE DEF m, n
      <4>2. first + m = first + 2 + n
          BY <2>1, <4>1
      <4> QED BY <4>2 DEF m, n
    <3> QED BY <3>2, <3>3
  <2>5. Codec!ReadBody(b, first) =
          Codec!Read([mid |-> p.mid, topic |-> p.topic, msg |-> p.msg], first + l)
    <3>1. p.qos > 0 => At(b, first + 2 + Len(p.topic), Codec!writeInt(p.mid))
        BY <1>i, <2>3, <2>4
    <3>2. At(b, first, Codec!writeString(p.topic)) /\ At(b, first + l - Len(p.msg), p.msg)
        BY <2>2, <2>3, <2>4 DEF topic, msg
    <3>3. Long(b, p, Len(d), Codec!PublishLength(p))
        BY <1>16 DEF l
    <3>4. Codec!ReadBody(b, first) =
            Codec!Read([mid |-> p.mid, topic |-> p.topic, msg |-> p.msg],
                       first + Codec!PublishLength(p))
        BY <1>14, <2>1, <3>1, <3>2, <3>3, PublishBody DEF l
    <3> QED BY <3>4 DEF l
  <2>6. first + l = Len(e) + 1 /\ Codec!LengthBytes(b) + 2 = first /\ Codec!LengthBytes(b) < Len(e)
      BY <1>13, <1>14, <1>16, <1>6 DEF Long, first
  <2> QED BY <1>15, <1>16, <2>5, <2>6 DEF Long, Reads, Codec!Read
<1> QED BY <1>14, <1>16 DEF Crossing, e

-----------------------------------------------------------------------------
\* The filters of a pack.
Filter(p, k) ==
    Codec!writeString(p.topics[k].name)
        \o (IF p.type = Codec!SUBSCRIBE THEN <<p.topics[k].qos>> ELSE <<>>)
Filters(p) == [k \in 1 .. Len(p.topics) |-> Filter(p, k)]

LEMMA TopicsTyped ==
    ASSUME NEW p \in Packs, p.type \in {Codec!SUBSCRIBE, Codec!UNSUBSCRIBE}
    PROVE  /\ p.mid \in Codec!Word /\ p.topics \in Seq([name : Codec!Text, qos : Codec!Bytes])
           /\ p.type = Codec!UNSUBSCRIBE => \A k \in 1 .. Len(p.topics) : p.topics[k].qos = 0
           /\ Len(p.topics) \in Nat /\ DOMAIN Codec!Seen(p) = {"mid", "topics"}
<1>1. p \in Codec!TopicsPacks
    BY DEF Packs, Codec!WritablePacks, Codec!ClientPacks
<1>2. CASE p.type = Codec!SUBSCRIBE
  <2>1. p \in [type : {Codec!SUBSCRIBE}, dup : Codec!Dups, qos : Codec!Levels, mid : Codec!Word,
               topics : Seq([name : Codec!Text, qos : Codec!Bytes])]
      BY <1>1, <1>2 DEF Codec!TopicsPacks
  <2>2. DOMAIN Codec!Seen(p) = {"mid", "topics"}
      BY <2>1 DEF Codec!Seen
  <2> QED BY <1>2, <2>1, <2>2, LenProperties
<1>3. CASE p.type = Codec!UNSUBSCRIBE
  <2>1. p \in [type : {Codec!UNSUBSCRIBE}, dup : Codec!Dups, qos : Codec!Levels, mid : Codec!Word,
               topics : Seq([name : Codec!Text, qos : {0}])]
      BY <1>1, <1>3 DEF Codec!TopicsPacks
  <2>2. DOMAIN Codec!Seen(p) = {"mid", "topics"}
      BY <2>1 DEF Codec!Seen
  <2>3. p.mid \in Codec!Word /\ p.topics \in Seq([name : Codec!Text, qos : {0}])
      BY <2>1
  <2>4. [name : Codec!Text, qos : {0}] \subseteq [name : Codec!Text, qos : Codec!Bytes]
      BY DEF Codec!Bytes
  <2>5. p.topics \in Seq([name : Codec!Text, qos : Codec!Bytes])
    <3> DEFINE S == [name : Codec!Text, qos : {0}]
               T == [name : Codec!Text, qos : Codec!Bytes]
    <3>1. S \subseteq T /\ p.topics \in Seq(S)
        BY <2>3, <2>4
    <3> HIDE DEF S, T
    <3>2. p.topics \in Seq(T)
        BY <3>1, SeqMonotonic
    <3> QED BY <3>2 DEF T
  <2>6. \A k \in 1 .. Len(p.topics) : p.topics[k] \in [name : Codec!Text, qos : {0}]
      BY <2>3, ElementOfSeq
  <2>7. Len(p.topics) \in Nat
      BY <2>3, LenProperties
  <2> QED BY <2>2, <2>3, <2>5, <2>6, <2>7
<1> QED BY <1>2, <1>3

LEMMA FilterRead ==
    ASSUME NEW p \in Packs, p.type \in {Codec!SUBSCRIBE, Codec!UNSUBSCRIBE},
           NEW k \in 1 .. Len(p.topics)
    PROVE  /\ Filter(p, k) \in Seq(Int) /\ Len(p.topics[k].name) \in Nat
           /\ p.topics[k] = [name |-> p.topics[k].name, qos |-> p.topics[k].qos]
           /\ Len(Filter(p, k))
                = 2 + Len(p.topics[k].name) + (IF p.type = Codec!SUBSCRIBE THEN 1 ELSE 0)
           /\ \A b : \A i \in Nat : At(b, i, Filter(p, k)) =>
                /\ Codec!readInt(b, i) = Len(p.topics[k].name)
                /\ Codec!readString(b, i) = p.topics[k].name
                /\ p.topics[k].qos = IF p.type = Codec!SUBSCRIBE
                                     THEN Codec!Byte(b, i + 2 + Len(p.topics[k].name)) ELSE 0
<1> DEFINE topic == p.topics[k]
           name == topic.name
           s == Codec!writeString(name)
           t == IF p.type = Codec!SUBSCRIBE THEN <<topic.qos>> ELSE <<>>
<1>1. /\ topic \in [name : Codec!Text, qos : Codec!Bytes]
      /\ p.type = Codec!UNSUBSCRIBE => topic.qos = 0
    BY TopicsTyped, ElementOfSeq
<1>2. Filter(p, k) = s \o t
    BY DEF Filter
<1>3. p.type = Codec!SUBSCRIBE => t = <<topic.qos>>
    OBVIOUS
<1>4. p.type # Codec!SUBSCRIBE => t = <<>>
    OBVIOUS
<1> HIDE DEF topic, t
<1>5. topic = [name |-> name, qos |-> topic.qos] /\ name \in Codec!Text /\ topic.qos \in Int
    BY <1>1 DEF Codec!Bytes
<1> HIDE DEF name
<1>6. /\ s \in Seq(Int) /\ Len(s) = 2 + Len(name)
      /\ \A b : \A i \in Nat : At(b, i, s) =>
           Codec!readInt(b, i) = Len(name) /\ Codec!readString(b, i) = name
    BY <1>5, TextRead
<1> HIDE DEF s
<1>7. Len(name) \in Nat
    BY <1>5 DEF Codec!Text, Codec!Word
<1>8. t \in Seq(Int) /\ Len(t) = IF p.type = Codec!SUBSCRIBE THEN 1 ELSE 0
  <2>1. CASE p.type = Codec!SUBSCRIBE
    <3>1. <<topic.qos>> \in Seq(Int) /\ Len(<<topic.qos>>) = 1
        BY <1>5
    <3> QED BY <1>3, <2>1, <3>1
  <2>2. CASE p.type # Codec!SUBSCRIBE
    <3>1. t = <<>>
        BY <1>4, <2>2
    <3>2. t \in Seq(Int) /\ Len(t) = 0
        BY <3>1
    <3> QED BY <2>2, <3>2
  <2> QED BY <2>1, <2>2
<1>9. /\ s \o t \in Seq(Int) /\ Len(s \o t) = Len(s) + Len(t)
      /\ \A b : \A i \in Nat : At(b, i, s \o t) => At(b, i, s) /\ At(b, i + Len(s), t)
    BY <1>6, <1>8, Before
<1>10. Len(s \o t) = 2 + Len(name) + (IF p.type = Codec!SUBSCRIBE THEN 1 ELSE 0)
    BY <1>6, <1>7, <1>8, <1>9
<1>11. ASSUME NEW b, NEW i \in Nat, At(b, i, s \o t)
       PROVE  /\ Codec!readInt(b, i) = Len(name) /\ Codec!readString(b, i) = name
              /\ topic.qos = IF p.type = Codec!SUBSCRIBE
                             THEN Codec!Byte(b, i + 2 + Len(name)) ELSE 0
  <2>1. At(b, i, s) /\ At(b, i + Len(s), t)
      BY <1>9, <1>11
  <2>2. Codec!readInt(b, i) = Len(name) /\ Codec!readString(b, i) = name
      BY <1>6, <2>1
  <2>3. CASE p.type = Codec!SUBSCRIBE
    <3>1. i + Len(s) = i + 2 + Len(name) /\ i + 2 + Len(name) \in Nat
        BY <1>6, <1>7
    <3>2. At(b, i + 2 + Len(name), <<topic.qos>>)
        BY <1>3, <2>1, <2>3, <3>1
    <3>3. Codec!Byte(b, i + 2 + Len(name)) = topic.qos
        BY <3>1, <3>2, AtOne
    <3> QED BY <2>2, <2>3, <3>3
  <2>4. CASE p.type # Codec!SUBSCRIBE
      BY <1>1, <2>2, <2>4
  <2> QED BY <2>3, <2>4
<1>12. /\ Filter(p, k) \in Seq(Int) /\ Len(name) \in Nat
       /\ topic = [name |-> name, qos |-> topic.qos]
       /\ Len(Filter(p, k)) = 2 + Len(name) + (IF p.type = Codec!SUBSCRIBE THEN 1 ELSE 0)
       /\ \A b : \A i \in Nat : At(b, i, Filter(p, k)) =>
            /\ Codec!readInt(b, i) = Len(name) /\ Codec!readString(b, i) = name
            /\ topic.qos = IF p.type = Codec!SUBSCRIBE
                           THEN Codec!Byte(b, i + 2 + Len(name)) ELSE 0
    BY <1>2, <1>5, <1>7, <1>9, <1>10, <1>11
<1> QED BY <1>12 DEF name, topic

\* The filters are what writeTopics puts one after the other.
LEMMA FiltersJoined ==
    ASSUME NEW p \in Packs, p.type \in {Codec!SUBSCRIBE, Codec!UNSUBSCRIBE}
    PROVE  /\ Filters(p) \in Seq(Seq(Int)) /\ Len(Filters(p)) = Len(p.topics)
           /\ \E f \in [0 .. Len(p.topics) -> Seq(Int)] :
                Joins(f, Filters(p), Len(p.topics)) /\ Codec!writeTopics(p) = f[Len(p.topics)]
<1> DEFINE n == Len(p.topics)
           ss == Filters(p)
<1>1. n \in Nat /\ \A k \in 1 .. n : Filter(p, k) \in Seq(Int)
    BY TopicsTyped, FilterRead
<1>2. Codec!writeTopics(p) = Codec!FlattenSeq(ss)
    BY DEF Codec!writeTopics, Filters, Filter
<1>3. ss = [k \in 1 .. n |-> Filter(p, k)]
    BY DEF Filters
<1> HIDE DEF n, ss
<1>4. ss \in Seq(Seq(Int)) /\ Len(ss) = n
    BY <1>1, <1>3
<1>5. PICK f \in [0 .. n -> Seq(Int)] : Joins(f, ss, n)
    BY <1>4, Joined
<1>6. Codec!FlattenSeq(ss) = f[n]
    BY <1>4, <1>5, Flattened
<1> QED BY <1>2, <1>4, <1>5, <1>6 DEF n, ss

LEMMA OneFurther ==
    ASSUME NEW S, NEW s \in Seq(S), NEW k \in 1 .. Len(s)
    PROVE  Append(SubSeq(s, 1, k - 1), s[k]) = SubSeq(s, 1, k)
<1>1. Len(s) \in Nat /\ \A j \in 1 .. Len(s) : s[j] \in S
    BY LenProperties, ElementOfSeq
<1>2. SubSeq(s, 1, k - 1) = [j \in 1 .. k - 1 |-> s[j]] /\ SubSeq(s, 1, k) = [j \in 1 .. k |-> s[j]]
  <2>1. 1 + (k - 1) - 1 = k - 1 /\ 1 + k - 1 = k
      OBVIOUS
  <2> QED OBVIOUS
<1> DEFINE t == [j \in 1 .. k - 1 |-> s[j]]
<1>3. t \in Seq(S) /\ Len(t) = k - 1
    BY <1>1
<1>4. Append(t, s[k]) = [j \in 1 .. k |-> s[j]]
  <2> DEFINE u == Append(t, s[k])
  <2>1. u \in Seq(S) /\ Len(u) = k /\ u[k] = s[k] /\ \A j \in 1 .. k - 1 : u[j] = t[j]
    <3> HIDE DEF t
    <3>1. s[k] \in S
        BY <1>1
    <3>2. /\ u \in Seq(S) /\ Len(u) = Len(t) + 1 /\ \A j \in 1 .. Len(t) : u[j] = t[j]
          /\ u[Len(t) + 1] = s[k]
        BY <1>3, <3>1, AppendProperties
    <3> QED BY <1>3, <3>2
  <2>2. u = [j \in 1 .. Len(u) |-> u[j]]
      BY <2>1
  <2> HIDE DEF u
  <2>3. \A j \in 1 .. k : u[j] = s[j]
      BY <2>1
  <2>4. u = [j \in 1 .. k |-> s[j]]
      BY <2>1, <2>2, <2>3
  <2> QED BY <2>4 DEF u
<1> QED BY <1>2, <1>4

\* What has been read after k filters, when their bytes are f[k].
After(p, first, f, k) == [topics |-> SubSeq(p.topics, 1, k), next |-> first + 2 + Len(f[k])]

\* Filter k stands where the ones before it end, and is not taken for the end of the pack,
\* whose length is l.
FilterAt(b, p, first, f, l, k) ==
    /\ k \in 1 .. Len(p.topics) /\ Len(f[k - 1]) \in Nat
    /\ Len(f[k]) = Len(f[k - 1]) + Len(Filter(p, k))
    /\ l - Len(f[k - 1]) > 3
    /\ At(b, first + 2 + Len(f[k - 1]), Filter(p, k))

TopicNext(b, p, first, f, k) ==
    Codec!ReadTopic(b, first, After(p, first, f, k - 1)) = After(p, first, f, k)

LEMMA TopicRead ==
    ASSUME NEW b, NEW first \in Nat, NEW p \in Packs,
           p.type \in {Codec!SUBSCRIBE, Codec!UNSUBSCRIBE}, Codec!FixedOf(b).type = p.type,
           NEW l \in Nat, Codec!Length(b) = l, NEW f, NEW k, FilterAt(b, p, first, f, l, k)
    PROVE  TopicNext(b, p, first, f, k)
<1>x. PICK x \in Nat :
         /\ k \in 1 .. Len(p.topics) /\ Len(f[k - 1]) = x /\ Len(f[k]) = x + Len(Filter(p, k))
         /\ l - x > 3 /\ At(b, first + 2 + x, Filter(p, k))
    BY DEF FilterAt
<1> USE <1>x
<1> DEFINE next == first + 2 + x
           n == Len(p.topics[k].name)
           end == next + 2 + n
           r == After(p, first, f, k - 1)
<1>1. next \in Nat /\ r.next = next /\ r.topics = SubSeq(p.topics, 1, k - 1)
    BY DEF After
<1>2. /\ n \in Nat /\ Codec!readInt(b, next) = n
      /\ p.topics[k] = [name |-> Codec!readString(b, next),
                        qos |-> IF p.type = Codec!SUBSCRIBE THEN Codec!Byte(b, end) ELSE 0]
      /\ Len(Filter(p, k)) = 2 + n + (IF p.type = Codec!SUBSCRIBE THEN 1 ELSE 0)
  <2>1. At(b, next, Filter(p, k))
      OBVIOUS
  <2> HIDE DEF next
  <2>2. /\ n \in Nat /\ Len(Filter(p, k)) = 2 + n + (IF p.type = Codec!SUBSCRIBE THEN 1 ELSE 0)
        /\ Codec!readInt(b, next) = n
        /\ Codec!readString(b, next) = p.topics[k].name
        /\ p.topics[k].qos = IF p.type = Codec!SUBSCRIBE THEN Codec!Byte(b, end) ELSE 0
        /\ p.topics[k] = [name |-> p.topics[k].name, qos |-> p.topics[k].qos]
    <3>1. /\ n \in Nat /\ Len(Filter(p, k)) = 2 + n + (IF p.type = Codec!SUBSCRIBE THEN 1 ELSE 0)
          /\ p.topics[k] = [name |-> p.topics[k].name, qos |-> p.topics[k].qos]
        BY FilterRead
    <3>2. /\ Codec!readInt(b, next) = n
          /\ Codec!readString(b, next) = p.topics[k].name
          /\ p.topics[k].qos = IF p.type = Codec!SUBSCRIBE THEN Codec!Byte(b, end) ELSE 0
      <4>1. \A i \in Nat : At(b, i, Filter(p, k)) =>
              /\ Codec!readInt(b, i) = n
              /\ Codec!readString(b, i) = p.topics[k].name
              /\ p.topics[k].qos = IF p.type = Codec!SUBSCRIBE
                                   THEN Codec!Byte(b, i + 2 + n) ELSE 0
          BY FilterRead
      <4> HIDE DEF n
      <4> QED BY <1>1, <2>1, <4>1
    <3> QED BY <3>1, <3>2
  <2> HIDE DEF n, end
  <2> QED BY <2>2
<1>3. Len(f[k]) = x + 2 + n + (IF p.type = Codec!SUBSCRIBE THEN 1 ELSE 0)
  <2> HIDE DEF n
  <2>1. CASE p.type = Codec!SUBSCRIBE
      BY <1>2, <2>1
  <2>2. CASE p.type # Codec!SUBSCRIBE
      BY <1>2, <2>2
  <2> QED BY <2>1, <2>2
<1>4. first + 2 + Len(f[k]) = IF p.type = Codec!SUBSCRIBE THEN end + 1 ELSE end
  <2>1. n \in Nat
      BY <1>2
  <2> HIDE DEF n
  <2>2. CASE p.type = Codec!SUBSCRIBE
    <3>1. Len(f[k]) = x + 2 + n + 1
        BY <1>3, <2>2
    <3> QED BY <2>1, <2>2, <3>1
  <2>3. CASE p.type # Codec!SUBSCRIBE
    <3>1. Len(f[k]) = x + 2 + n + 0
        BY <1>3, <2>3
    <3> QED BY <2>1, <2>3, <3>1
  <2> QED BY <2>2, <2>3
<1>5. ~(l - (next - first - 2) <= 3)
    OBVIOUS
<1>6. SubSeq(p.topics, 1, k) = Append(r.topics, p.topics[k])
  <2>1. p.topics \in Seq([name : Codec!Text, qos : Codec!Bytes])
      BY TopicsTyped
  <2> QED BY <1>1, <2>1, OneFurther
<1> HIDE DEF next, n, end, r
<1>7. Codec!ReadTopic(b, first, r) =
        IF l - (next - first - 2) <= 3 THEN r
        ELSE [topics |-> Append(r.topics,
                                [name |-> Codec!readString(b, next),
                                 qos |-> IF p.type = Codec!SUBSCRIBE
                                         THEN Codec!Byte(b, end) ELSE 0]),
              next |-> IF p.type = Codec!SUBSCRIBE THEN end + 1 ELSE end]
  <2>1. Codec!readInt(b, r.next) = n /\ r.next = next /\ next + 2 + n = end
      BY <1>1, <1>2 DEF end
  <2> QED BY <2>1 DEF Codec!ReadTopic
<1>8. Codec!ReadTopic(b, first, r) =
        [topics |-> SubSeq(p.topics, 1, k), next |-> first + 2 + Len(f[k])]
    BY <1>2, <1>4, <1>5, <1>6, <1>7
<1> QED BY <1>8 DEF After, r, TopicNext

\* The recursion of ReadSubscribe stops after the last filter, whether its length counts the
\* id or not, as long as no filter has so few bytes that it is taken for the end.
LEMMA TopicsBody ==
    ASSUME NEW b, NEW first \in Nat, NEW p \in Packs,
           p.type \in {Codec!SUBSCRIBE, Codec!UNSUBSCRIBE}, Codec!FixedOf(b).type = p.type,
           NEW l \in Nat, Codec!Length(b) = l, NEW t \in Nat, t = Len(Codec!writeTopics(p)),
           l \in {t, t + 2}, \A k \in 1 .. Len(p.topics) : Len(Filter(p, k)) + (l - t) > 3,
           At(b, first, Codec!writeInt(p.mid)), At(b, first + 2, Codec!writeTopics(p))
    PROVE  Codec!ReadBody(b, first) =
             Codec!Read([mid |-> p.mid, topics |-> p.topics], first + 2 + t)
<1> DEFINE n == Len(p.topics)
           ss == Filters(p)
<1>1. PICK f \in [0 .. n -> Seq(Int)] : Joins(f, ss, n) /\ Codec!writeTopics(p) = f[n]
    BY FiltersJoined
<1>2. /\ ss \in Seq(Seq(Int)) /\ Len(ss) = n /\ n \in Nat
      /\ \A k \in 1 .. n : /\ ss[k] = Filter(p, k) /\ Len(Filter(p, k)) \in Nat
                           /\ Len(Filter(p, k)) >= 1
  <2>1. ss \in Seq(Seq(Int)) /\ Len(ss) = n /\ n \in Nat
      BY FiltersJoined, TopicsTyped
  <2>2. ASSUME NEW k \in 1 .. n
        PROVE  ss[k] = Filter(p, k) /\ Len(Filter(p, k)) \in Nat /\ Len(Filter(p, k)) >= 1
    <3>1. /\ Len(p.topics[k].name) \in Nat
          /\ Len(Filter(p, k))
               = 2 + Len(p.topics[k].name) + (IF p.type = Codec!SUBSCRIBE THEN 1 ELSE 0)
        BY FilterRead
    <3>2. (IF p.type = Codec!SUBSCRIBE THEN 1 ELSE 0) \in {0, 1}
        OBVIOUS
    <3>3. ss[k] = Filter(p, k)
        BY DEF Filters
    <3>4. Len(Filter(p, k)) \in Nat /\ Len(Filter(p, k)) >= 1
      <4> DEFINE a == Len(p.topics[k].name)
                 c == IF p.type = Codec!SUBSCRIBE THEN 1 ELSE 0
                 z == Len(Filter(p, k))
      <4>1. a \in Nat /\ c \in {0, 1} /\ z = 2 + a + c
          BY <3>1, <3>2
      <4> HIDE DEF a, c, z
      <4>2. z \in Nat /\ z >= 1
          BY <4>1
      <4> QED BY <4>2 DEF z
    <3> QED BY <3>3, <3>4
  <2> QED BY <2>1, <2>2
<1> HIDE DEF ss
<1>3. /\ \A k \in 0 .. n : Len(f[k]) \in Nat
      /\ t = Len(f[n]) /\ Len(f[0]) = 0
  <2>1. \A k \in 0 .. n : f[k] \in Seq(Int)
      BY <1>1
  <2>2. f[0] = <<>>
      BY <1>1 DEF Joins
  <2> QED BY <1>1, <2>1, <2>2, LenProperties
<1>4. n <= t
  <2>1. \A k \in 1 .. n : Len(ss[k]) >= 1
      BY <1>2
  <2> HIDE DEF n
  <2> QED BY <1>1, <1>2, <1>3, <2>1, AsManyBytes
<1>5. \A k \in 1 .. n : /\ Len(f[k]) = Len(f[k - 1]) + Len(ss[k])
                        /\ Len(f[k]) <= Len(f[n])
                        /\ At(b, first + 2 + Len(f[k - 1]), ss[k])
  <2> DEFINE i == first + 2
  <2>1. /\ i \in Nat /\ At(b, i, f[n]) /\ Joins(f, ss, n) /\ f \in [0 .. n -> Seq(Int)]
        /\ ss \in Seq(Seq(Int)) /\ n = Len(ss)
      BY <1>1, <1>2
  <2> HIDE DEF n, i
  <2>2. \A k \in 1 .. n : /\ Len(f[k]) = Len(f[k - 1]) + Len(ss[k])
                          /\ Len(f[k]) <= Len(f[n])
                          /\ At(b, i + Len(f[k - 1]), ss[k])
      BY <2>1, EachAt
  <2> QED BY <2>2 DEF i
<1>6. ASSUME NEW k \in 1 .. n
      PROVE  Codec!ReadTopic(b, first, After(p, first, f, k - 1)) = After(p, first, f, k)
  <2> DEFINE x == Len(f[k - 1])
             y == Len(f[k])
             z == Len(Filter(p, k))
  <2>1. /\ x \in Nat /\ y \in Nat /\ z \in Nat /\ y = x + z /\ y <= t /\ z + (l - t) > 3
        /\ At(b, first + 2 + x, Filter(p, k))
    <3>1. k - 1 \in 0 .. n /\ k \in 0 .. n
        BY <1>2
    <3> QED BY <1>2, <1>3, <1>5, <3>1
  <2>2. l - x > 3
    <3> HIDE DEF x, y, z
    <3> QED BY <2>1
  <2>3. FilterAt(b, p, first, f, l, k)
      BY <2>1, <2>2 DEF FilterAt
  <2>4. TopicNext(b, p, first, f, k)
      BY <2>3, TopicRead
  <2> QED BY <2>4 DEF TopicNext
<1> DEFINE R(k) == After(p, first, f, k)
<1>7. Codec!ReadTopic(b, first, R(n)) = R(n)
  <2>1. R(n).next = first + 2 + t
      BY <1>3 DEF After
  <2>2. l - (first + 2 + t - first - 2) <= 3
      OBVIOUS
  <2> HIDE DEF R
  <2> QED BY <2>1, <2>2 DEF Codec!ReadTopic
<1>8. /\ R(0) = [topics |-> <<>>, next |-> first + 2]
      /\ R(n) = [topics |-> p.topics, next |-> first + 2 + t]
  <2>1. SubSeq(p.topics, 1, 0) = <<>>
    <3>1. p.topics \in Seq([name : Codec!Text, qos : Codec!Bytes])
        BY TopicsTyped
    <3> QED BY <3>1
  <2>2. SubSeq(p.topics, 1, n) = p.topics
    <3>1. p.topics \in Seq([name : Codec!Text, qos : Codec!Bytes])
        BY TopicsTyped
    <3> QED BY <3>1
  <2>3. first + 2 + Len(f[0]) = first + 2
      BY <1>3
  <2>4. R(0) = [topics |-> <<>>, next |-> first + 2]
      BY <2>1, <2>3 DEF After
  <2>5. R(n) = [topics |-> p.topics, next |-> first + 2 + t]
      BY <1>3, <2>2 DEF After
  <2> QED BY <2>4, <2>5
<1> DEFINE From(h) == [k \in 0 .. l |-> IF k = 0 THEN [topics |-> <<>>, next |-> first + 2]
                                        ELSE Codec!ReadTopic(b, first, h[k - 1])]
           read == CHOOSE h : h = From(h)
           g == [k \in 0 .. l |-> IF k <= n THEN R(k) ELSE R(n)]
<1> HIDE DEF R
<1>9. g = From(g)
  <2>1. ASSUME NEW k \in 0 .. l
        PROVE  g[k] = IF k = 0 THEN [topics |-> <<>>, next |-> first + 2]
                      ELSE Codec!ReadTopic(b, first, g[k - 1])
    <3>1. CASE k = 0
        BY <1>2, <1>8, <3>1
    <3>2. CASE k # 0 /\ k <= n
      <4>1. k - 1 \in 0 .. l /\ k - 1 <= n /\ k \in 1 .. n
          BY <1>2, <3>2
      <4>2. g[k - 1] = R(k - 1) /\ g[k] = R(k)
          BY <3>2, <4>1
      <4> QED BY <1>6, <3>2, <4>1, <4>2 DEF R
    <3>3. CASE ~(k <= n)
      <4>1. k - 1 \in 0 .. l /\ k # 0 /\ (k - 1 <= n => k - 1 = n)
          BY <1>2, <3>3
      <4>2. g[k - 1] = R(n) /\ g[k] = R(n)
          BY <3>3, <4>1
      <4> QED BY <1>7, <4>1, <4>2
    <3> QED BY <1>2, <3>1, <3>2, <3>3
  <2> QED BY <2>1
<1>10. read = From(read)
  <2> HIDE DEF From, g
  <2> QED BY <1>9
<1>11. \A k \in 0 .. l : g[k] = IF k <= n THEN R(k) ELSE R(n)
    OBVIOUS
<1> HIDE DEF read, g
<1>12. \A k \in 0 .. l : read[k] = IF k = 0 THEN [topics |-> <<>>, next |-> first + 2]
                                   ELSE Codec!ReadTopic(b, first, read[k - 1])
    BY <1>10
<1>13. \A k \in 0 .. l : g[k] = IF k = 0 THEN [topics |-> <<>>, next |-> first + 2]
                                ELSE Codec!ReadTopic(b, first, g[k - 1])
  <2> DEFINE G == From(g)
  <2>1. \A k \in 0 .. l : G[k] = IF k = 0 THEN [topics |-> <<>>, next |-> first + 2]
                                 ELSE Codec!ReadTopic(b, first, g[k - 1])
      OBVIOUS
  <2> HIDE DEF G
  <2>2. g = G
      BY <1>9 DEF G
  <2> QED BY <2>1, <2>2
<1>14. read[l] = g[l]
  <2> DEFINE T == {k \in Nat : k <= l => read[k] = g[k]}
  <2>1. 0 \in T
      BY <1>12, <1>13
  <2>2. ASSUME NEW k \in Nat, k \in T PROVE k + 1 \in T
    <3> SUFFICES ASSUME k + 1 <= l PROVE read[k + 1] = g[k + 1]
        OBVIOUS
    <3>1. read[k] = g[k] /\ k + 1 \in 0 .. l /\ k + 1 # 0 /\ (k + 1) - 1 = k
        BY <2>2
    <3> QED BY <1>12, <1>13, <3>1
  <2>3. l \in T
    <3> HIDE DEF T
    <3> QED BY <2>1, <2>2, Induction
  <2> QED BY <2>3
<1>15. read[l] = [topics |-> p.topics, next |-> first + 2 + t]
  <2>1. l <= n => l = n
      BY <1>2, <1>4
  <2> QED BY <1>8, <1>11, <1>14, <2>1
<1>16. Codec!readInt(b, first) = p.mid
    BY TopicsTyped, IntRead
<1>17. Codec!ReadSubscribe(b, first) =
         Codec!Read([mid |-> Codec!readInt(b, first), topics |-> read[l].topics], read[l].next)
    BY DEF Codec!ReadSubscribe, read
<1>18. Codec!ReadBody(b, first) = Codec!ReadSubscribe(b, first)
    BY DEF Codec!ReadBody
<1> QED BY <1>15, <1>16, <1>17, <1>18

LEMMA TopicsRead ==
    ASSUME NEW p \in Packs, p.type \in {Codec!SUBSCRIBE, Codec!UNSUBSCRIBE},
           NEW t \in Nat, t = Len(Codec!writeTopics(p)),
           NEW l \in Nat, l <= Codec!MaxLength, l \in {t, t + 2},
           \A k \in 1 .. Len(p.topics) : Len(Filter(p, k)) + (l - t) > 3,
           NEW e, e = Codec!Fixed(p) \o (Codec!getRemainingLength(l)
                                           \o (Codec!writeInt(p.mid) \o Codec!writeTopics(p)))
    PROVE  Crossing(p, e)
<1> DEFINE d == Codec!getRemainingLength(l)
           id == Codec!writeInt(p.mid)
           topics == Codec!writeTopics(p)
           body == id \o topics
<1>1. topics \in Seq(Int)
  <2>1. Len(p.topics) \in Nat
      BY TopicsTyped
  <2> QED BY <2>1, FiltersJoined
<1>2. id \in Seq(Int) /\ Len(id) = 2
    BY TopicsTyped, IntRead
<1>3. e = Codec!Fixed(p) \o (d \o body)
    OBVIOUS
<1>4. Len(topics) = t
    OBVIOUS
<1> HIDE DEF d, id, topics
<1>5. /\ body \in Seq(Int) /\ Len(body) = 2 + t
      /\ \A b : \A i \in Nat : At(b, i, body) => At(b, i, id) /\ At(b, i + 2, topics)
  <2>1. /\ body \in Seq(Int) /\ Len(body) = Len(id) + Len(topics)
        /\ \A b : \A i \in Nat : At(b, i, body) => At(b, i, id) /\ At(b, i + Len(id), topics)
      BY <1>1, <1>2, Before
  <2> QED BY <1>2, <1>4, <2>1
<1> HIDE DEF body
<1>6. /\ e \in Seq(Int) /\ Len(e) = 1 + Len(d) + Len(body)
      /\ d \in Seq(Int) /\ Len(d) \in 1 .. 3
  <2>1. /\ Codec!Fixed(p) \o (Codec!getRemainingLength(l) \o body) \in Seq(Int)
        /\ Len(Codec!Fixed(p) \o (Codec!getRemainingLength(l) \o body))
             = 1 + Len(Codec!getRemainingLength(l)) + Len(body)
        /\ Codec!getRemainingLength(l) \in Seq(Int)
        /\ Len(Codec!getRemainingLength(l)) \in 1 .. 3
      BY <1>5, LongWritten
  <2> QED BY <1>3, <2>1 DEF d
<1>7. Len(e) >= 2 /\ Len(e) = Len(d) + 2 + 2 + t - 1
    BY <1>5, <1>6
<1>8. ASSUME NEW b \in Seq(Int), At(b, 1, e), Len(b) >= Len(e) PROVE Reads(b, p, e)
  <2>1. Long(b, p, Len(d), l) /\ At(b, Len(d) + 2, body)
      BY <1>3, <1>5, <1>8, LongRead DEF d
  <2> DEFINE first == Len(d) + 2
  <2>2. first \in Nat
      BY <1>6
  <2>3. At(b, first, id) /\ At(b, first + 2, topics)
      BY <1>5, <2>1, <2>2
  <2>4. /\ Codec!LengthBytes(b) + 2 = first /\ Codec!LengthBytes(b) < Len(e)
        /\ first + 2 + t = Len(e) + 1
    <3>1. Codec!LengthBytes(b) = Len(d)
        BY <2>1 DEF Long
    <3> DEFINE n == Len(d)
               m == Len(e)
    <3>2. n \in 1 .. 3 /\ m = n + 2 + 2 + t - 1 /\ Codec!LengthBytes(b) = n /\ first = n + 2
        BY <1>6, <1>7, <3>1
    <3> HIDE DEF n, m, first
    <3>3. n + 2 = first /\ n < m /\ first + 2 + t = m + 1
        BY <3>2
    <3> QED BY <3>2, <3>3 DEF m
  <2> HIDE DEF first
  <2>5. Codec!ReadBody(b, first) =
          Codec!Read([mid |-> p.mid, topics |-> p.topics], first + 2 + t)
    <3>1. /\ Codec!FixedOf(b).type = p.type /\ Codec!Length(b) = l
          /\ At(b, first, Codec!writeInt(p.mid)) /\ At(b, first + 2, Codec!writeTopics(p))
        BY <2>1, <2>3 DEF Long, id, topics
    <3> QED BY <2>2, <3>1, TopicsBody
  <2>6. DOMAIN Codec!Seen(p) = {"mid", "topics"}
      BY TopicsTyped
  <2> QED BY <2>1, <2>4, <2>5, <2>6 DEF Long, Reads, Codec!Read
<1> QED BY <1>6, <1>7, <1>8 DEF Crossing

\* A SUBSCRIBE or UNSUBSCRIBE of the gate tells only the length of its filters.
LEMMA GateTopicsRead ==
    ASSUME NEW p \in Packs, p \in GatePacks, Codec!Crosses(p),
           p.type \in {Codec!SUBSCRIBE, Codec!UNSUBSCRIBE}
    PROVE  Crossing(p, Codec!DelayWritePack(p))
<1> DEFINE topics == Codec!writeTopics(p)
           t == Len(topics)
           id == Codec!writeInt(p.mid)
           d == Codec!getRemainingLength(t)
           e == Codec!DelayWritePack(p)
<1>1. /\ t < Base
      /\ \A k \in 1 .. Len(p.topics) :
           Len(p.topics[k].name) > IF p.type = Codec!SUBSCRIBE THEN 0 ELSE 1
    BY DEF Codec!Crosses
<1>2. topics \in Seq(Int) /\ t \in Nat
  <2>1. Len(p.topics) \in Nat
      BY TopicsTyped
  <2>2. topics \in Seq(Int)
      BY <2>1, FiltersJoined
  <2> QED BY <2>2, LenProperties
<1>3. id \in Seq(Int)
    BY TopicsTyped, IntRead
<1>4. e = Codec!Fixed(p) \o ((<<d[1]>> \o id) \o topics)
  <2>1. e = Codec!Fixed(p) \o Codec!WriteSubscribe(p)
      BY DEF Codec!DelayWritePack
  <2>2. Codec!WriteSubscribe(p) = (<<d[1]>> \o id) \o topics
      BY DEF Codec!WriteSubscribe
  <2> QED BY <2>1, <2>2
<1>5. t <= Codec!MaxLength
  <2>1. Base \in Nat /\ Base >= 4
      BY CodecAssumption
  <2>2. Base * Base >= 4 * Base /\ Base * Base \in Nat
      BY <2>1
  <2>3. Base * Base * Base >= Base * Base
      BY <2>1, <2>2
  <2> HIDE DEF t
  <2> QED BY <1>1, <1>2, <2>1, <2>2, <2>3 DEF Codec!MaxLength
<1>6. d \in Seq(Int) /\ Len(d) = 1
  <2> HIDE DEF t
  <2> QED BY <1>1, <1>2, <1>5, LengthRead
<1>7. d = <<d[1]>>
  <2> HIDE DEF d
  <2>1. d = [k \in 1 .. 1 |-> d[k]] /\ <<d[1]>> = [k \in 1 .. 1 |-> d[1]]
      BY <1>6
  <2> QED BY <2>1
<1>8. \A k \in 1 .. Len(p.topics) : Len(Filter(p, k)) + (t - t) > 3
  <2> SUFFICES ASSUME NEW k \in 1 .. Len(p.topics) PROVE Len(Filter(p, k)) + (t - t) > 3
      OBVIOUS
  <2> DEFINE a == Len(p.topics[k].name)
             z == Len(Filter(p, k))
  <2>1. a \in Nat /\ z = 2 + a + (IF p.type = Codec!SUBSCRIBE THEN 1 ELSE 0)
      BY FilterRead
  <2>2. a > IF p.type = Codec!SUBSCRIBE THEN 0 ELSE 1
      BY <1>1
  <2> HIDE DEF a, z, t
  <2>3. CASE p.type = Codec!SUBSCRIBE
    <3>1. z = 2 + a + 1 /\ a > 0
        BY <2>1, <2>2, <2>3
    <3> QED BY <1>2, <2>1, <3>1 DEF z
  <2>4. CASE p.type # Codec!SUBSCRIBE
    <3>1. z = 2 + a + 0 /\ a > 1
        BY <2>1, <2>2, <2>4
    <3> QED BY <1>2, <2>1, <3>1 DEF z
  <2> QED BY <2>3, <2>4
<1>9. e = Codec!Fixed(p) \o (d \o (id \o topics))
  <2>1. (d \o id) \o topics = d \o (id \o topics)
    <3> HIDE DEF d, id, topics
    <3> QED BY <1>2, <1>3, <1>6, Associated
  <2> HIDE DEF e, d, id, topics
  <2> QED BY <1>4, <1>7, <2>1
<1> HIDE DEF e
<1>10. Crossing(p, e)
    BY <1>2, <1>5, <1>8, <1>9, TopicsRead
<1> QED BY <1>10 DEF e

\* One of a client's library tells the length of what follows, and two bytes of the id make
\* up for the shortest filter.
LEMMA PeerTopicsRead ==
    ASSUME NEW p \in Packs, p \in PeerPacks, Codec!Crosses(p),
           p.type \in {Codec!SUBSCRIBE, Codec!UNSUBSCRIBE}
    PROVE  Crossing(p, Codec!PeerWrites(p))
<1> DEFINE topics == Codec!writeTopics(p)
           t == Len(topics)
           id == Codec!writeInt(p.mid)
           d == Codec!getRemainingLength(t + 2)
           e == Codec!PeerWrites(p)
<1>1. Codec!PeerBody(p) = id \o topics
    BY DEF Codec!PeerBody
<1>2. topics \in Seq(Int) /\ t \in Nat
  <2>1. Len(p.topics) \in Nat
      BY TopicsTyped
  <2>2. topics \in Seq(Int)
      BY <2>1, FiltersJoined
  <2> QED BY <2>2, LenProperties
<1>3. id \in Seq(Int) /\ Len(id) = 2
    BY TopicsTyped, IntRead
<1>4. Len(Codec!PeerBody(p)) = t + 2
  <2> HIDE DEF id, topics
  <2>1. Len(id \o topics) = Len(id) + Len(topics)
      BY <1>2, <1>3, ConcatProperties
  <2> QED BY <1>1, <1>2, <1>3, <2>1
<1>5. t + 2 <= Codec!MaxLength /\ t + 2 \in Nat
    BY <1>2, <1>4 DEF Codec!Crosses
<1>6. d \in Seq(Int)
  <2> HIDE DEF t
  <2> QED BY <1>5, LengthRead
<1>7. e = (Codec!Fixed(p) \o d) \o (id \o topics)
    BY <1>1, <1>4 DEF Codec!PeerWrites
<1>8. e = Codec!Fixed(p) \o (d \o (id \o topics))
  <2>1. id \o topics \in Seq(Int)
    <3> HIDE DEF id, topics
    <3> QED BY <1>2, <1>3, ConcatProperties
  <2>2. Codec!Fixed(p) \in Seq(Int)
      BY <1>6, HeaderWritten
  <2> HIDE DEF e, d, id, topics
  <2> QED BY <1>6, <1>7, <2>1, <2>2, Associated
<1>9. \A k \in 1 .. Len(p.topics) : Len(Filter(p, k)) + ((t + 2) - t) > 3
  <2> SUFFICES ASSUME NEW k \in 1 .. Len(p.topics) PROVE Len(Filter(p, k)) + ((t + 2) - t) > 3
      OBVIOUS
  <2> DEFINE a == Len(p.topics[k].name)
             c == IF p.type = Codec!SUBSCRIBE THEN 1 ELSE 0
             z == Len(Filter(p, k))
  <2>1. a \in Nat /\ c \in {0, 1} /\ z = 2 + a + c
      BY FilterRead
  <2> HIDE DEF a, c, z, t
  <2> QED BY <1>2, <2>1 DEF z
<1> HIDE DEF e
<1>10. Crossing(p, e)
  <2> DEFINE l == t + 2
  <2>1. /\ l \in Nat /\ l <= Codec!MaxLength /\ l \in {t, t + 2}
        /\ \A k \in 1 .. Len(p.topics) : Len(Filter(p, k)) + (l - t) > 3
        /\ e = Codec!Fixed(p) \o (Codec!getRemainingLength(l)
                                    \o (Codec!writeInt(p.mid) \o Codec!writeTopics(p)))
      BY <1>5, <1>8, <1>9
  <2>2. t = Len(Codec!writeTopics(p)) /\ t \in Nat
      BY <1>2
  <2> HIDE DEF l, t
  <2> QED BY <2>1, <2>2, TopicsRead
<1> QED BY <1>10 DEF e

-----------------------------------------------------------------------------
\* The payload of a CONNECT.
Flags == [user : {0, 1}, password : {0, 1}, will : {0, 1}, clean : {0, 1}]

\* The bits that parse_flags takes from a byte.
FlagBits(x, u, s, w, c) ==
    x \div 128 = u /\ (x \div 64) % 2 = s /\ (x \div 4) % 2 = w /\ (x \div 2) % 2 = c

LEMMA BitsRead ==
    ASSUME NEW u \in {0, 1}, NEW s \in {0, 1}, NEW w \in {0, 1}, NEW c \in {0, 1},
           NEW x \in Int, x = 128 * u + 64 * s + 4 * w + 2 * c
    PROVE  FlagBits(x, u, s, w, c) /\ x \in Codec!Bytes
<1>1. x \div 128 = u /\ x \div 64 = 2 * u + s
    OBVIOUS
<1>2. x \div 4 = 32 * u + 16 * s + w /\ x \div 2 = 64 * u + 32 * s + 2 * w + c
    OBVIOUS
<1>3. (2 * u + s) % 2 = s /\ (32 * u + 16 * s + w) % 2 = w
    OBVIOUS
<1>4. (64 * u + 32 * s + 2 * w + c) % 2 = c
    OBVIOUS
<1>5. x \in Codec!Bytes
    BY DEF Codec!Bytes
<1> QED BY <1>1, <1>2, <1>3, <1>4, <1>5 DEF FlagBits

LEMMA FlagsRead ==
    ASSUME NEW f \in Flags
    PROVE  Codec!FlagsByte(f) \in Int /\ Codec!parse_flags(Codec!FlagsByte(f)) = f
<1>1. PICK u \in {0, 1}, s \in {0, 1}, w \in {0, 1}, c \in {0, 1} :
         f = [user |-> u, password |-> s, will |-> w, clean |-> c]
    BY DEF Flags
<1>2. PICK x \in Int : x = 128 * u + 64 * s + 4 * w + 2 * c
    OBVIOUS
<1>3. FlagBits(x, u, s, w, c)
    BY <1>2, BitsRead
<1>4. Codec!FlagsByte(f) = x
    BY <1>1, <1>2 DEF Codec!FlagsByte
<1> QED BY <1>1, <1>3, <1>4 DEF FlagBits, Codec!parse_flags

Texts(p) == [k \in 1 .. Len(p.payload) |-> Codec!writeString(p.payload[k])]

LEMMA ConnectTyped ==
    ASSUME NEW p \in Packs, p.type = Codec!CONNECT
    PROVE  /\ p.protocol \in Codec!Text /\ p.version \in Int /\ p.flags \in Flags
           /\ p.keepAlive \in Codec!Word /\ p.payload \in Seq(Codec!Text)
           /\ Len(p.payload) = 1 + 2 * p.flags.will + p.flags.user + p.flags.password
           /\ DOMAIN Codec!Seen(p) = {"protocol", "version", "flags", "keepAlive", "payload"}
<1>1. /\ p \in [type : {Codec!CONNECT}, dup : Codec!Dups, qos : Codec!Levels,
                protocol : Codec!Text, version : Codec!Bytes, flags : Flags,
                keepAlive : Codec!Word, payload : Seq(Codec!Text)]
      /\ Len(p.payload) = 1 + 2 * p.flags.will + p.flags.user + p.flags.password
    BY DEF Packs, Codec!WritablePacks, Codec!ClientPacks, Codec!TopicsPacks, Flags
<1>2. DOMAIN Codec!Seen(p) = {"protocol", "version", "flags", "keepAlive", "payload"}
    BY <1>1 DEF Codec!Seen
<1>3. p.version \in Int
    BY <1>1 DEF Codec!Bytes
<1> QED BY <1>1, <1>2, <1>3

\* What has been read after j strings, when their bytes are f[j] and all of the strings' n
\* bytes start at position at: the bytes of the lengths are never taken from left.
Strings(p, at, f, n, j) ==
    [left |-> n - Len(f[j]) + 2 * j, next |-> at + Len(f[j]), strings |-> SubSeq(p.payload, 1, j)]

StringAt(b, at, p, f, j) ==
    /\ j \in Nat /\ j < Len(p.payload) /\ Len(f[j]) \in Nat
    /\ Len(f[j + 1]) = Len(f[j]) + 2 + Len(p.payload[j + 1])
    /\ At(b, at + Len(f[j]), Codec!writeString(p.payload[j + 1]))

ReadNext(b, at, p, f, n, j) ==
    Codec!ReadIf(TRUE, b, Strings(p, at, f, n, j)) = Strings(p, at, f, n, j + 1)

LEMMA StringRead ==
    ASSUME NEW b, NEW at \in Nat, NEW p \in Packs, p.type = Codec!CONNECT,
           NEW n \in Nat, NEW f, NEW j, StringAt(b, at, p, f, j)
    PROVE  ReadNext(b, at, p, f, n, j)
<1>x. PICK x \in Nat :
         /\ j \in Nat /\ j < Len(p.payload) /\ x = Len(f[j])
         /\ Len(f[j + 1]) = x + 2 + Len(p.payload[j + 1])
         /\ At(b, at + x, Codec!writeString(p.payload[j + 1]))
    BY DEF StringAt
<1> DEFINE next == at + x
           text == p.payload[j + 1]
           r == Strings(p, at, f, n, j)
<1>1. text \in Codec!Text /\ p.payload \in Seq(Codec!Text) /\ Len(p.payload) \in Nat
  <2>1. p.payload \in Seq(Codec!Text) /\ Len(p.payload) \in Nat
      BY ConnectTyped, LenProperties
  <2>2. j + 1 \in 1 .. Len(p.payload)
      BY <1>x, <2>1
  <2> QED BY <2>1, <2>2, ElementOfSeq
<1>2. next \in Nat /\ r.next = next /\ r.left = n - x + 2 * j /\ r.strings = SubSeq(p.payload, 1, j)
    BY <1>x DEF Strings
<1>3. Append(SubSeq(p.payload, 1, j), text) = SubSeq(p.payload, 1, j + 1)
  <2>1. j + 1 \in 1 .. Len(p.payload) /\ (j + 1) - 1 = j
      BY <1>1, <1>x
  <2>2. Append(SubSeq(p.payload, 1, (j + 1) - 1), p.payload[j + 1]) = SubSeq(p.payload, 1, j + 1)
      BY <1>1, <2>1, OneFurther
  <2> QED BY <2>1, <2>2
<1>4. At(b, next, Codec!writeString(text))
    BY <1>x
<1> DEFINE m == Len(text)
           y == Len(f[j + 1])
<1>5. y = x + 2 + m /\ j \in Nat
    BY <1>x
<1> HIDE DEF next, text, r
<1>6. Codec!readInt(b, next) = m /\ Codec!readString(b, next) = text /\ m \in Nat
    BY <1>1, <1>2, <1>4, TextRead DEF Codec!Word
<1>7. Codec!ReadIf(TRUE, b, r) =
        [left |-> (n - x + 2 * j) - m, next |-> next + 2 + m,
         strings |-> SubSeq(p.payload, 1, j + 1)]
  <2> HIDE DEF m
  <2> QED BY <1>2, <1>3, <1>6 DEF Codec!ReadIf
<1>8. (n - x + 2 * j) - m = n - y + 2 * (j + 1) /\ next + 2 + m = at + y
  <2> HIDE DEF m, y
  <2> QED BY <1>5, <1>6 DEF next
<1>9. Codec!ReadIf(TRUE, b, r) =
        [left |-> n - y + 2 * (j + 1), next |-> at + y, strings |-> SubSeq(p.payload, 1, j + 1)]
    BY <1>7, <1>8
<1> QED BY <1>9 DEF r, Strings, ReadNext

LEMMA TextsJoined ==
    ASSUME NEW p \in Packs, p.type = Codec!CONNECT
    PROVE  /\ Texts(p) \in Seq(Seq(Int)) /\ Len(Texts(p)) = Len(p.payload)
           /\ \E f \in [0 .. Len(p.payload) -> Seq(Int)] :
                /\ Joins(f, Texts(p), Len(p.payload))
                /\ Codec!FlattenSeq(Texts(p)) = f[Len(p.payload)]
<1> DEFINE n == Len(p.payload)
           ss == Texts(p)
<1>1. n \in Nat /\ p.payload \in Seq(Codec!Text)
    BY ConnectTyped, LenProperties
<1>2. \A k \in 1 .. n : Codec!writeString(p.payload[k]) \in Seq(Int)
    BY <1>1, ElementOfSeq, TextRead
<1>3. ss = [k \in 1 .. n |-> Codec!writeString(p.payload[k])]
    BY DEF Texts
<1> HIDE DEF n, ss
<1>4. ss \in Seq(Seq(Int)) /\ Len(ss) = n
  <2>1. ss \in [1 .. n -> Seq(Int)]
      BY <1>2, <1>3 DEF n
  <2> QED BY <1>1, <2>1
<1>5. PICK f \in [0 .. n -> Seq(Int)] : Joins(f, ss, n)
    BY <1>4, Joined
<1>6. Codec!FlattenSeq(ss) = f[n]
    BY <1>4, <1>5, Flattened
<1> QED BY <1>4, <1>5, <1>6 DEF n, ss

\* Where the strings are, and how many bytes they take.
TextsFrom(b, at, p, m, f) ==
    /\ m = Len(p.payload) /\ f \in [0 .. m -> Seq(Int)] /\ Joins(f, Texts(p), m)
    /\ At(b, at, f[m])

TextsEach(b, at, p, m, f) ==
    /\ Len(f[0]) = 0 /\ \A k \in 0 .. m : Len(f[k]) \in Nat
    /\ \A k \in 1 .. m : /\ Len(f[k]) = Len(f[k - 1]) + 2 + Len(p.payload[k])
                         /\ Len(f[k]) <= Len(f[m])
                         /\ Len(p.payload[k]) \in Nat
                         /\ At(b, at + Len(f[k - 1]), Codec!writeString(p.payload[k]))

LEMMA TextsAt ==
    ASSUME NEW b, NEW at \in Nat, NEW p \in Packs, p.type = Codec!CONNECT,
           NEW m, NEW f, TextsFrom(b, at, p, m, f)
    PROVE  TextsEach(b, at, p, m, f)
<1> DEFINE ss == Texts(p)
<1> USE DEF TextsFrom
<1>1. /\ ss \in Seq(Seq(Int)) /\ m = Len(ss) /\ m \in Nat
      /\ p.payload \in Seq(Codec!Text)
    BY TextsJoined, ConnectTyped, LenProperties
<1>2. /\ \A k \in 0 .. m : Len(f[k]) \in Nat
      /\ Len(f[0]) = 0
  <2>1. \A k \in 0 .. m : f[k] \in Seq(Int)
      OBVIOUS
  <2>2. f[0] = <<>>
      BY DEF Joins
  <2> QED BY <2>1, <2>2, LenProperties
<1>3. \A k \in 1 .. m : /\ ss[k] = Codec!writeString(p.payload[k])
                        /\ Len(ss[k]) = 2 + Len(p.payload[k]) /\ Len(p.payload[k]) \in Nat
  <2> SUFFICES ASSUME NEW k \in 1 .. m
               PROVE  /\ ss[k] = Codec!writeString(p.payload[k])
                      /\ Len(ss[k]) = 2 + Len(p.payload[k]) /\ Len(p.payload[k]) \in Nat
      OBVIOUS
  <2>1. p.payload[k] \in Codec!Text
      BY <1>1, ElementOfSeq
  <2>2. ss[k] = Codec!writeString(p.payload[k])
      BY DEF Texts
  <2>3. Len(Codec!writeString(p.payload[k])) = 2 + Len(p.payload[k]) /\ Len(p.payload[k]) \in Nat
      BY <2>1, TextRead DEF Codec!Word
  <2> QED BY <2>2, <2>3
<1> HIDE DEF ss
<1>4. \A k \in 1 .. m : /\ Len(f[k]) = Len(f[k - 1]) + Len(ss[k])
                        /\ Len(f[k]) <= Len(f[m])
                        /\ At(b, at + Len(f[k - 1]), ss[k])
    BY <1>1, EachAt DEF ss
<1>5. ASSUME NEW k \in 1 .. m
      PROVE  Len(f[k]) = Len(f[k - 1]) + 2 + Len(p.payload[k])
  <2> DEFINE x == Len(f[k])
             y == Len(f[k - 1])
             z == Len(p.payload[k])
  <2>1. k - 1 \in 0 .. m
      BY <1>1
  <2>2. x = y + (2 + z) /\ y \in Nat /\ z \in Nat
      BY <1>2, <1>3, <1>4, <2>1
  <2> HIDE DEF x, y, z
  <2>3. x = y + 2 + z
      BY <2>2
  <2> QED BY <2>3 DEF x, y, z
<1> QED BY <1>2, <1>3, <1>4, <1>5 DEF TextsEach

\* The strings are read as long as the flags announce them, when there is something left in
\* each state R[j] and the next one follows from it.
EachFollows(b, R, m) ==
    /\ \A j \in 1 .. m : R[j].left > 0
    /\ \A j \in 1 .. m - 1 : Codec!ReadIf(TRUE, b, R[j]) = R[j + 1]

FourRead(b, w, u, s, R, topic, will, user, all) ==
    /\ topic = Codec!ReadIf(w = 1, b, R[1])
    /\ will = Codec!ReadIf(w = 1, b, topic)
    /\ user = Codec!ReadIf(u = 1 /\ will.left > 0, b, will)
    /\ all = Codec!ReadIf(s = 1 /\ user.left > 0, b, user)

FlagsSay(w, u, s, m) ==
    w \in {0, 1} /\ u \in {0, 1} /\ s \in {0, 1} /\ m \in Nat /\ m = 1 + 2 * w + u + s

ThreeRead(w, u, R, m, topic, user, all) ==
    topic = R[1 + w] /\ user = R[1 + 2 * w + u] /\ all = R[m]

LEMMA AsFlagsSay ==
    ASSUME NEW b, NEW w, NEW u, NEW s, NEW m, FlagsSay(w, u, s, m), NEW R, EachFollows(b, R, m),
           NEW topic, NEW will, NEW user, NEW all,
           FourRead(b, w, u, s, R, topic, will, user, all)
    PROVE  ThreeRead(w, u, R, m, topic, user, all)
<1> USE DEF EachFollows, FourRead, FlagsSay, ThreeRead
<1>2. topic = R[1 + w]
  <2>1. CASE w = 1
    <3>1. topic = Codec!ReadIf(TRUE, b, R[1])
        BY <2>1
    <3>2. 1 \in 1 .. m - 1 /\ 1 + 1 = 1 + w
        BY <2>1
    <3> QED BY <3>1, <3>2
  <2>2. CASE w = 0
    <3>0. ~(w = 1)
        BY <2>2
    <3>1. topic = R[1]
        BY <3>0, Zenon DEF Codec!ReadIf
    <3>2. 1 + w = 1
        BY <2>2
    <3> QED BY <3>1, <3>2
  <2> QED BY <2>1, <2>2
<1> DEFINE i == 1 + 2 * w
<1>3. will = R[i]
  <2>1. CASE w = 1
    <3>1. 1 + w = 2 /\ 2 \in 1 .. m - 1 /\ 2 + 1 = i
        BY <2>1
    <3>2. will = Codec!ReadIf(TRUE, b, R[2])
        BY <1>2, <2>1, <3>1
    <3> QED BY <3>1, <3>2
  <2>2. CASE w = 0
    <3>1. 1 + w = 1 /\ 1 = i
        BY <2>2
    <3>2. will = R[1]
        BY <1>2, <2>2, <3>1 DEF Codec!ReadIf
    <3> QED BY <3>1, <3>2
  <2> QED BY <2>1, <2>2
<1>4. i \in 1 .. m /\ (u = 1 => i \in 1 .. m - 1) /\ i + u = 1 + 2 * w + u
    OBVIOUS
<1> HIDE DEF i
<1> DEFINE j == i + u
<1>5. user = R[j]
  <2>1. CASE u = 1
    <3>1. user = Codec!ReadIf(TRUE, b, R[i])
        BY <1>3, <1>4, <2>1
    <3> QED BY <1>4, <2>1, <3>1
  <2>2. CASE u = 0
    <3>1. i + u = i
        BY <1>4, <2>2
    <3>2. user = R[i]
      <4>1. ~(u = 1 /\ will.left > 0)
          BY <2>2
      <4> QED BY <1>3, <4>1, Zenon DEF Codec!ReadIf
    <3> QED BY <3>1, <3>2
  <2> QED BY <2>1, <2>2
<1>6. j \in 1 .. m /\ (s = 1 => j \in 1 .. m - 1) /\ j + s = m
    BY <1>4
<1> HIDE DEF j
<1>7. all = R[m]
  <2>1. CASE s = 1
    <3>1. all = Codec!ReadIf(TRUE, b, R[j])
        BY <1>5, <1>6, <2>1
    <3> QED BY <1>6, <2>1, <3>1
  <2>2. CASE s = 0
    <3>1. j = m
        BY <1>6, <2>2
    <3>2. all = R[j]
      <4>1. ~(s = 1 /\ user.left > 0)
          BY <2>2
      <4> QED BY <1>5, <4>1, Zenon DEF Codec!ReadIf
    <3> QED BY <3>1, <3>2
  <2> QED BY <2>1, <2>2
<1> QED BY <1>2, <1>4, <1>5, <1>7 DEF j

\* A CONNECT stands at first: its protocol takes n bytes, the strings of its payload t.
ConnectAt(b, p, first, n, f, t) ==
    /\ n = Len(p.protocol) /\ t = Len(f[Len(p.payload)])
    /\ f \in [0 .. Len(p.payload) -> Seq(Int)] /\ Joins(f, Texts(p), Len(p.payload))
    /\ At(b, first, Codec!writeString(p.protocol))
    /\ Codec!Byte(b, first + 2 + n) = p.version
    /\ Codec!Byte(b, (first + 2 + n) + 1) = Codec!FlagsByte(p.flags)
    /\ At(b, (first + 2 + n) + 2, Codec!writeInt(p.keepAlive))
    /\ At(b, (first + 2 + n) + 4, f[Len(p.payload)])

\* What its strings are read into, one after the other.
StringsRead(b, p, at, f, t, m) ==
    /\ \A j \in 1 .. m : /\ Strings(p, at, f, t, j).left \in Int
                         /\ Strings(p, at, f, t, j).left > 0
    /\ \A j \in 1 .. m - 1 : Codec!ReadIf(TRUE, b, Strings(p, at, f, t, j))
                               = Strings(p, at, f, t, j + 1)
    /\ Strings(p, at, f, t, 1) =
         [left |-> t - Len(p.payload[1]), next |-> at + 2 + Len(p.payload[1]),
          strings |-> <<p.payload[1]>>]
    /\ Codec!readInt(b, at) = Len(p.payload[1]) /\ Codec!readString(b, at) = p.payload[1]
    /\ Strings(p, at, f, t, m).next = at + t
    /\ Strings(p, at, f, t, m).strings = p.payload

LEMMA ConnectStrings ==
    ASSUME NEW b, NEW first \in Nat, NEW p \in Packs, p.type = Codec!CONNECT,
           NEW n \in Nat, NEW f, NEW t \in Nat, ConnectAt(b, p, first, n, f, t),
           NEW at \in Nat, at = (first + 2 + n) + 4, NEW m \in Nat, m = Len(p.payload), m >= 1
    PROVE  StringsRead(b, p, at, f, t, m)
<1>1. /\ f \in [0 .. m -> Seq(Int)] /\ Joins(f, Texts(p), m) /\ At(b, at, f[m]) /\ t = Len(f[m])
    BY DEF ConnectAt
<1>2. /\ Len(f[0]) = 0 /\ \A k \in 0 .. m : Len(f[k]) \in Nat
      /\ \A k \in 1 .. m : /\ Len(f[k]) = Len(f[k - 1]) + 2 + Len(p.payload[k])
                           /\ Len(f[k]) <= t
                           /\ Len(p.payload[k]) \in Nat
                           /\ At(b, at + Len(f[k - 1]), Codec!writeString(p.payload[k]))
  <2>1. /\ Len(f[0]) = 0 /\ \A k \in 0 .. m : Len(f[k]) \in Nat
        /\ \A k \in 1 .. m : /\ Len(f[k]) = Len(f[k - 1]) + 2 + Len(p.payload[k])
                             /\ Len(f[k]) <= Len(f[m])
                             /\ Len(p.payload[k]) \in Nat
                             /\ At(b, at + Len(f[k - 1]), Codec!writeString(p.payload[k]))
    <3>1. TextsFrom(b, at, p, m, f)
        BY <1>1 DEF TextsFrom
    <3>2. TextsEach(b, at, p, m, f)
        BY <3>1, TextsAt
    <3> QED BY <3>2 DEF TextsEach
  <2> QED BY <1>1, <2>1
<1>3. p.payload \in Seq(Codec!Text)
    BY ConnectTyped
<1>4. ASSUME NEW j \in 1 .. m - 1
      PROVE  Codec!ReadIf(TRUE, b, Strings(p, at, f, t, j)) = Strings(p, at, f, t, j + 1)
  <2>1. j + 1 \in 1 .. m /\ (j + 1) - 1 = j /\ j \in 0 .. m /\ j \in Nat /\ j < Len(p.payload)
      OBVIOUS
  <2>2. StringAt(b, at, p, f, j)
      BY <1>2, <2>1 DEF StringAt
  <2>3. ReadNext(b, at, p, f, t, j)
      BY <2>2, StringRead
  <2> QED BY <2>3 DEF ReadNext
<1>5. ASSUME NEW j \in 1 .. m
      PROVE  Strings(p, at, f, t, j).left \in Int /\ Strings(p, at, f, t, j).left > 0
  <2> DEFINE x == Len(f[j])
  <2>1. x \in Nat /\ x <= t
    <3>1. j \in 0 .. m
        OBVIOUS
    <3> QED BY <1>2, <3>1
  <2>2. Strings(p, at, f, t, j).left = t - x + 2 * j
      BY DEF Strings
  <2> HIDE DEF x
  <2>3. t - x + 2 * j > 0 /\ t - x + 2 * j \in Int
      BY <2>1
  <2> QED BY <2>2, <2>3
<1> DEFINE text == p.payload[1]
           id == Len(text)
           y == Len(f[1])
<1>6. id \in Nat /\ y = 2 + id /\ At(b, at, Codec!writeString(text)) /\ text \in Codec!Text
  <2>1. 1 \in 1 .. m /\ 1 - 1 = 0
      OBVIOUS
  <2>2. y = Len(f[0]) + 2 + id /\ id \in Nat /\ At(b, at + Len(f[0]), Codec!writeString(text))
      BY <1>2, <2>1
  <2>3. text \in Codec!Text
      BY <1>3, <2>1, ElementOfSeq
  <2>4. at + Len(f[0]) = at
      BY <1>2
  <2> HIDE DEF text, id, y
  <2> QED BY <1>2, <2>2, <2>3, <2>4
<1>7. SubSeq(p.payload, 1, 1) = <<text>>
  <2>1. 1 \in 1 .. Len(p.payload) /\ 1 - 1 = 0
      OBVIOUS
  <2>2. Append(SubSeq(p.payload, 1, 1 - 1), text) = SubSeq(p.payload, 1, 1)
      BY <1>3, <2>1, OneFurther
  <2>3. SubSeq(p.payload, 1, 0) = <<>>
      BY <1>3
  <2>4. Append(<<>>, text) = <<text>>
      OBVIOUS
  <2> HIDE DEF text
  <2> QED BY <2>1, <2>2, <2>3, <2>4
<1>8. Strings(p, at, f, t, 1) = [left |-> t - y + 2 * 1, next |-> at + y, strings |-> <<text>>]
    BY <1>7 DEF Strings
<1>9. SubSeq(p.payload, 1, m) = p.payload
    BY <1>3
<1>10. Strings(p, at, f, t, m).next = at + t /\ Strings(p, at, f, t, m).strings = p.payload
    BY <1>1, <1>9 DEF Strings
<1> HIDE DEF text, y
<1>11. Codec!readInt(b, at) = id /\ Codec!readString(b, at) = text
    BY <1>6, TextRead
<1> HIDE DEF id
<1>12. t - y + 2 * 1 = t - id /\ at + y = at + 2 + id
    BY <1>6
<1>13. Strings(p, at, f, t, 1) = [left |-> t - id, next |-> at + 2 + id, strings |-> <<text>>]
    BY <1>8, <1>12
<1> QED BY <1>4, <1>5, <1>10, <1>11, <1>13 DEF id, text, StringsRead

\* ReadConnect, once it knows the length of the protocol, the flags and the length of the id.
ConnectFrom(b, first, n, at, flags, id) ==
    LET start == [left |-> Codec!Length(b) - 6 - n - id, next |-> at + 6 + id,
                  strings |-> <<Codec!readString(b, at + 4)>>]
        topic == Codec!ReadIf(flags.will = 1, b, start)
        will == Codec!ReadIf(flags.will = 1, b, topic)
        user == Codec!ReadIf(flags.user = 1 /\ will.left > 0, b, will)
        all == Codec!ReadIf(flags.password = 1 /\ user.left > 0, b, user)
        tooLong == \/ topic # start /\ topic.left < 0
                   \/ user # will /\ user.left < 0
                   \/ all # user /\ all.left < 0
    IN  IF n > Codec!Length(b) - 4 \/ id > 23 \/ id < 1 THEN Codec!Error(at + 6)
        ELSE IF tooLong THEN Codec!Error(all.next)
        ELSE Codec!Read([protocol |-> Codec!readString(b, first), version |-> Codec!Byte(b, at),
                         flags |-> flags, keepAlive |-> Codec!readInt(b, at + 2),
                         payload |-> all.strings], all.next)

LEMMA ConnectInParts ==
    ASSUME NEW b, NEW first
    PROVE  Codec!ReadConnect(b, first) =
             ConnectFrom(b, first, Codec!readInt(b, first), first + 2 + Codec!readInt(b, first),
                         Codec!parse_flags(Codec!Byte(b, first + 2 + Codec!readInt(b, first) + 1)),
                         Codec!readInt(b, first + 2 + Codec!readInt(b, first) + 4))
BY DEF Codec!ReadConnect, ConnectFrom

\* A CONNECT is read string by string, as its flags say.
LEMMA ConnectBody ==
    ASSUME NEW b, NEW first \in Nat, NEW p \in Packs, p.type = Codec!CONNECT,
           Codec!Crosses(p), Codec!FixedOf(b).type = p.type, NEW n \in Nat, NEW f, NEW t \in Nat,
           Codec!Length(b) = n + 6 + t, ConnectAt(b, p, first, n, f, t)
    PROVE  Codec!ReadBody(b, first) =
             Codec!Read([protocol |-> p.protocol, version |-> p.version, flags |-> p.flags,
                         keepAlive |-> p.keepAlive, payload |-> p.payload],
                        first + n + 6 + t)
<1> DEFINE w == p.flags.will
           u == p.flags.user
           s == p.flags.password
           m == Len(p.payload)
           id == Len(p.payload[1])
           at == first + 2 + n
           R == [j \in 1 .. m |-> Strings(p, at + 4, f, t, j)]
<1>1. /\ w \in {0, 1} /\ u \in {0, 1} /\ s \in {0, 1} /\ m = 1 + 2 * w + u + s
      /\ p.protocol \in Codec!Text /\ p.keepAlive \in Codec!Word /\ p.flags \in Flags
    BY ConnectTyped DEF Flags
<1>2. m \in Nat /\ m >= 1
  <2> HIDE DEF w, u, s, m
  <2> QED BY <1>1
<1>3. at \in Nat /\ at + 4 \in Nat /\ at + 2 \in Nat
    OBVIOUS
<1>4. id \in 1 .. 23
    BY DEF Codec!Crosses
<1> HIDE DEF at
<1>5. Codec!readInt(b, first) = n /\ Codec!readString(b, first) = p.protocol
  <2>1. At(b, first, Codec!writeString(p.protocol)) /\ n = Len(p.protocol)
      BY DEF ConnectAt
  <2> QED BY <1>1, <2>1, TextRead
<1>6. Codec!readInt(b, at + 2) = p.keepAlive
  <2>1. At(b, at + 2, Codec!writeInt(p.keepAlive))
      BY DEF ConnectAt, at
  <2> QED BY <1>1, <1>3, <2>1, IntRead
<1>7. Codec!Byte(b, at) = p.version /\ Codec!parse_flags(Codec!Byte(b, at + 1)) = p.flags
  <2>1. Codec!Byte(b, at) = p.version /\ Codec!Byte(b, at + 1) = Codec!FlagsByte(p.flags)
      BY DEF ConnectAt, at
  <2>2. Codec!parse_flags(Codec!FlagsByte(p.flags)) = p.flags
      BY <1>1, FlagsRead
  <2> QED BY <2>1, <2>2
<1>8. /\ \A j \in 1 .. m : R[j].left \in Int /\ R[j].left > 0
      /\ \A j \in 1 .. m - 1 : Codec!ReadIf(TRUE, b, R[j]) = R[j + 1]
      /\ R[1] = [left |-> t - id, next |-> (at + 4) + 2 + id, strings |-> <<p.payload[1]>>]
      /\ Codec!readInt(b, at + 4) = id /\ Codec!readString(b, at + 4) = p.payload[1]
      /\ R[m].next = (at + 4) + t /\ R[m].strings = p.payload
  <2> DEFINE a == at + 4
  <2>1. a \in Nat /\ a = (first + 2 + n) + 4
      BY <1>3 DEF at
  <2> HIDE DEF a
  <2>2. /\ \A j \in 1 .. m : /\ Strings(p, a, f, t, j).left \in Int
                             /\ Strings(p, a, f, t, j).left > 0
        /\ \A j \in 1 .. m - 1 : Codec!ReadIf(TRUE, b, Strings(p, a, f, t, j))
                                   = Strings(p, a, f, t, j + 1)
        /\ Strings(p, a, f, t, 1) =
             [left |-> t - id, next |-> a + 2 + id, strings |-> <<p.payload[1]>>]
        /\ Codec!readInt(b, a) = id /\ Codec!readString(b, a) = p.payload[1]
        /\ Strings(p, a, f, t, m).next = a + t
        /\ Strings(p, a, f, t, m).strings = p.payload
    <3>1. StringsRead(b, p, a, f, t, m)
        BY <1>2, <2>1, ConnectStrings
    <3> QED BY <3>1 DEF StringsRead
  <2>3. /\ \A j \in 1 .. m : R[j] = Strings(p, a, f, t, j)
        /\ \A j \in 1 .. m - 1 : R[j] = Strings(p, a, f, t, j)
                                 /\ R[j + 1] = Strings(p, a, f, t, j + 1)
        /\ 1 \in 1 .. m /\ m \in 1 .. m
    <3>1. \A j \in 1 .. m - 1 : j \in 1 .. m /\ j + 1 \in 1 .. m
        BY <1>2
    <3> QED BY <1>2, <3>1 DEF a
  <2> HIDE DEF R, m, id
  <2>4. \A j \in 1 .. m - 1 : Codec!ReadIf(TRUE, b, R[j]) = R[j + 1]
    <3> SUFFICES ASSUME NEW j \in 1 .. m - 1 PROVE Codec!ReadIf(TRUE, b, R[j]) = R[j + 1]
        OBVIOUS
    <3>1. Codec!ReadIf(TRUE, b, Strings(p, a, f, t, j)) = Strings(p, a, f, t, j + 1)
        BY <2>2
    <3>2. R[j] = Strings(p, a, f, t, j) /\ R[j + 1] = Strings(p, a, f, t, j + 1)
        BY <2>3
    <3> QED BY <3>1, <3>2
  <2> QED BY <2>2, <2>3, <2>4 DEF a
<1> HIDE DEF R
<1> DEFINE start == [left |-> Codec!Length(b) - 6 - n - id, next |-> at + 6 + id,
                     strings |-> <<p.payload[1]>>]
<1>9. start = R[1]
  <2>1. Codec!Length(b) - 6 - n - id = t - id /\ at + 6 + id = (at + 4) + 2 + id
    <3> HIDE DEF id
    <3> QED BY <1>3, <1>4
  <2> QED BY <1>8, <2>1
<1> HIDE DEF start
<1> DEFINE topic == Codec!ReadIf(w = 1, b, start)
           will == Codec!ReadIf(w = 1, b, topic)
           user == Codec!ReadIf(u = 1 /\ will.left > 0, b, will)
           all == Codec!ReadIf(s = 1 /\ user.left > 0, b, user)
           tooLong == \/ topic # start /\ topic.left < 0
                      \/ user # will /\ user.left < 0
                      \/ all # user /\ all.left < 0
<1>10. topic = R[1 + w] /\ user = R[1 + 2 * w + u] /\ all = R[m]
  <2>1. FourRead(b, w, u, s, R, topic, will, user, all)
      BY <1>9 DEF FourRead
  <2>2. EachFollows(b, R, m)
    <3> HIDE DEF m
    <3> QED BY <1>8 DEF EachFollows
  <2> HIDE DEF topic, will, user, all, w, u, s, m
  <2>3. FlagsSay(w, u, s, m)
      BY <1>1, <1>2 DEF FlagsSay
  <2>4. ThreeRead(w, u, R, m, topic, user, all)
      BY ONLY <2>1, <2>2, <2>3, AsFlagsSay
  <2> QED BY <2>4 DEF ThreeRead
<1>11. ~tooLong
  <2> HIDE DEF topic, will, user, all, w, u, s, m
  <2>1. 1 + w \in 1 .. m /\ 1 + 2 * w + u \in 1 .. m /\ m \in 1 .. m
      BY <1>1
  <2>2. /\ topic.left \in Int /\ user.left \in Int /\ all.left \in Int
        /\ topic.left > 0 /\ user.left > 0 /\ all.left > 0
      BY <1>8, <1>10, <2>1
  <2>3. ~(topic.left < 0) /\ ~(user.left < 0) /\ ~(all.left < 0)
      BY <2>2
  <2> QED BY <2>3
<1>12. ~(n > Codec!Length(b) - 4 \/ id > 23 \/ id < 1)
  <2> HIDE DEF id
  <2> QED BY <1>4
<1>13. all.next = first + n + 6 + t /\ all.strings = p.payload
  <2> HIDE DEF all
  <2>1. (at + 4) + t = first + n + 6 + t
      BY DEF at
  <2> QED BY <1>8, <1>10, <2>1
<1>14. Codec!ReadConnect(b, first) =
         IF n > Codec!Length(b) - 4 \/ id > 23 \/ id < 1 THEN Codec!Error(at + 6)
         ELSE IF tooLong THEN Codec!Error(all.next)
         ELSE Codec!Read([protocol |-> p.protocol, version |-> p.version, flags |-> p.flags,
                          keepAlive |-> p.keepAlive, payload |-> all.strings], all.next)
  <2>1. Codec!ReadConnect(b, first) = ConnectFrom(b, first, n, at, p.flags, id)
    <3>1. Codec!ReadConnect(b, first) =
            ConnectFrom(b, first, n, first + 2 + n,
                        Codec!parse_flags(Codec!Byte(b, first + 2 + n + 1)),
                        Codec!readInt(b, first + 2 + n + 4))
        BY <1>5, ConnectInParts
    <3> HIDE DEF id
    <3> QED BY <1>7, <1>8, <3>1 DEF at
  <2>2. start = [left |-> Codec!Length(b) - 6 - n - id, next |-> at + 6 + id,
                 strings |-> <<Codec!readString(b, at + 4)>>]
      BY <1>8 DEF start
  <2>3. ConnectFrom(b, first, n, at, p.flags, id) =
         IF n > Codec!Length(b) - 4 \/ id > 23 \/ id < 1 THEN Codec!Error(at + 6)
         ELSE IF tooLong THEN Codec!Error(all.next)
         ELSE Codec!Read([protocol |-> Codec!readString(b, first),
                          version |-> Codec!Byte(b, at), flags |-> p.flags,
                          keepAlive |-> Codec!readInt(b, at + 2),
                          payload |-> all.strings], all.next)
    <3> HIDE DEF id
    <3> QED BY <2>2 DEF ConnectFrom
  <2> HIDE DEF tooLong, all, id
  <2> QED BY <1>5, <1>6, <1>7, <2>1, <2>3
<1>15. Codec!ReadBody(b, first) = Codec!ReadConnect(b, first)
    BY DEF Codec!ReadBody
<1> HIDE DEF all, tooLong, id
<1>16. Codec!ReadConnect(b, first) =
         Codec!Read([protocol |-> p.protocol, version |-> p.version, flags |-> p.flags,
                     keepAlive |-> p.keepAlive, payload |-> all.strings], all.next)
    BY <1>11, <1>12, <1>14
<1> QED BY <1>13, <1>15, <1>16

\* The protocol of a CONNECT takes n bytes, the strings of its payload t.
ConnectOf(p, f, n, t) ==
    /\ f \in [0 .. Len(p.payload) -> Seq(Int)] /\ Joins(f, Texts(p), Len(p.payload))
    /\ Codec!FlattenSeq(Texts(p)) = f[Len(p.payload)]
    /\ n = Len(p.protocol) /\ t = Len(f[Len(p.payload)])

ConnectStands(p, f, n, t) ==
    \A b : \A first \in Nat : At(b, first, Codec!PeerBody(p)) => ConnectAt(b, p, first, n, f, t)

\* The parts of a CONNECT's body, and where they stand.
LEMMA ConnectParts ==
    ASSUME NEW p \in Packs, p.type = Codec!CONNECT, NEW f, NEW n, NEW t, ConnectOf(p, f, n, t)
    PROVE  /\ Codec!PeerBody(p) \in Seq(Int) /\ n \in Nat /\ t \in Nat
           /\ Len(Codec!PeerBody(p)) = n + 6 + t
           /\ ConnectStands(p, f, n, t)
<1>0. /\ f \in [0 .. Len(p.payload) -> Seq(Int)] /\ Joins(f, Texts(p), Len(p.payload))
      /\ Codec!FlattenSeq(Texts(p)) = f[Len(p.payload)]
      /\ n = Len(p.protocol) /\ t = Len(f[Len(p.payload)])
    BY DEF ConnectOf
<1> DEFINE m == Len(p.payload)
           A == Codec!writeString(p.protocol)
           B == <<p.version, Codec!FlagsByte(p.flags)>>
           C == Codec!writeInt(p.keepAlive)
           D == f[m]
           body == Codec!PeerBody(p)
<1>1. A \in Seq(Int) /\ Len(A) = 2 + n /\ n \in Nat
  <2>1. p.protocol \in Codec!Text
      BY ConnectTyped
  <2> QED BY <1>0, <2>1, TextRead DEF Codec!Word
<1>2. B \in Seq(Int) /\ Len(B) = 2 /\ B[1] = p.version /\ B[2] = Codec!FlagsByte(p.flags)
  <2>1. p.version \in Int /\ Codec!FlagsByte(p.flags) \in Int
      BY ConnectTyped, FlagsRead
  <2> QED BY <2>1
<1>3. C \in Seq(Int) /\ Len(C) = 2
    BY ConnectTyped, IntRead
<1>4. D \in Seq(Int) /\ t = Len(D) /\ t \in Nat
  <2>1. m \in Nat
      BY ConnectTyped, LenProperties
  <2>2. D \in Seq(Int)
      BY <1>0, <2>1
  <2> QED BY <1>0, <2>2, LenProperties
<1>5. body = ((A \o B) \o C) \o D
  <2>1. body = ((A \o B) \o C) \o Codec!FlattenSeq(Texts(p))
      BY DEF Codec!PeerBody, Texts
  <2> QED BY <1>0, <2>1
<1> HIDE DEF A, B, C, D, body, m
<1> DEFINE AB == A \o B
           ABC == AB \o C
<1>6. /\ AB \in Seq(Int) /\ Len(AB) = n + 4
      /\ \A b : \A i \in Nat : At(b, i, AB) => At(b, i, A) /\ At(b, i + (2 + n), B)
  <2>1. /\ AB \in Seq(Int) /\ Len(AB) = Len(A) + Len(B)
        /\ \A b : \A i \in Nat : At(b, i, AB) => At(b, i, A) /\ At(b, i + Len(A), B)
    <3> DEFINE u == AB
    <3>1. u = A \o B
        OBVIOUS
    <3> HIDE DEF u, AB
    <3>2. u \in Seq(Int) /\ Len(u) = Len(A) + Len(B)
          /\ \A b : \A i \in Nat : At(b, i, u) => At(b, i, A) /\ At(b, i + Len(A), B)
        BY <1>1, <1>2, <3>1, Before
    <3> QED BY <3>2 DEF u
  <2> HIDE DEF AB
  <2>2. Len(AB) = n + 4
      BY <1>1, <1>2, <2>1
  <2> QED BY <1>1, <2>1, <2>2
<1> HIDE DEF AB
<1>7. /\ ABC \in Seq(Int) /\ Len(ABC) = n + 6
      /\ \A b : \A i \in Nat : At(b, i, ABC) => At(b, i, AB) /\ At(b, i + (n + 4), C)
  <2>1. ABC = AB \o C
      OBVIOUS
  <2> HIDE DEF ABC
  <2>2. /\ ABC \in Seq(Int) /\ Len(ABC) = Len(AB) + Len(C)
        /\ \A b : \A i \in Nat : At(b, i, ABC) => At(b, i, AB) /\ At(b, i + Len(AB), C)
      BY <1>3, <1>6, <2>1, Before
  <2> QED BY <1>1, <1>3, <1>6, <2>2
<1> HIDE DEF ABC
<1>8. /\ body \in Seq(Int) /\ Len(body) = n + 6 + t
      /\ \A b : \A i \in Nat : At(b, i, body) => At(b, i, ABC) /\ At(b, i + (n + 6), D)
  <2>1. body = ABC \o D
      BY <1>5 DEF ABC, AB
  <2>2. /\ body \in Seq(Int) /\ Len(body) = Len(ABC) + Len(D)
        /\ \A b : \A i \in Nat : At(b, i, body) => At(b, i, ABC) /\ At(b, i + Len(ABC), D)
      BY <1>4, <1>7, <2>1, Before
  <2> QED BY <1>1, <1>4, <1>7, <2>2
<1>9. ASSUME NEW b, NEW first \in Nat, At(b, first, body)
      PROVE  ConnectAt(b, p, first, n, f, t)
  <2>1. At(b, first, ABC) /\ At(b, first + (n + 6), D)
      BY <1>8, <1>9
  <2>2. At(b, first, AB) /\ At(b, first + (n + 4), C)
      BY <1>7, <2>1
  <2>3. At(b, first, A) /\ At(b, first + (2 + n), B)
      BY <1>6, <2>2
  <2>4. Codec!Byte(b, first + (2 + n)) = B[1] /\ Codec!Byte(b, first + (2 + n) + 1) = B[2]
    <3> DEFINE i == first + (2 + n)
    <3>0. i \in Nat
        BY <1>1, <1>9
    <3>2. \A j \in 1 .. Len(B) : Codec!Byte(b, i + j - 1) = B[j]
        BY <2>3 DEF At
    <3> HIDE DEF i
    <3>1. 1 \in 1 .. Len(B) /\ 2 \in 1 .. Len(B) /\ i + 1 - 1 = i /\ i + 2 - 1 = i + 1
        BY <1>2, <3>0
    <3>3. Codec!Byte(b, i + 1 - 1) = B[1] /\ Codec!Byte(b, i + 2 - 1) = B[2]
        BY <3>1, <3>2
    <3>4. Codec!Byte(b, i) = B[1] /\ Codec!Byte(b, i + 1) = B[2]
        BY <3>1, <3>3
    <3> QED BY <3>4 DEF i
  <2>5. /\ first + (2 + n) = first + 2 + n /\ first + (n + 4) = (first + 2 + n) + 2
        /\ first + (n + 6) = (first + 2 + n) + 4
      BY <1>1
  <2> QED BY <1>0, <1>2, <1>4, <2>1, <2>2, <2>3, <2>4, <2>5 DEF ConnectAt, A, C, D, m
<1>10. ConnectStands(p, f, n, t)
    BY <1>9 DEF ConnectStands, body
<1> QED BY <1>1, <1>4, <1>8, <1>10 DEF body

\* A CONNECT that a client's library wrote.
LEMMA ConnectRead ==
    ASSUME NEW p \in Packs, p \in PeerPacks, p.type = Codec!CONNECT, Codec!Crosses(p)
    PROVE  Crossing(p, Codec!PeerWrites(p))
<1> DEFINE m == Len(p.payload)
           n == Len(p.protocol)
           body == Codec!PeerBody(p)
           e == Codec!PeerWrites(p)
<1>f. PICK f \in [0 .. m -> Seq(Int)] :
        Joins(f, Texts(p), m) /\ Codec!FlattenSeq(Texts(p)) = f[m]
    BY TextsJoined
<1> DEFINE t == Len(f[m])
           l == Len(body)
           d == Codec!getRemainingLength(l)
<1>1. /\ body \in Seq(Int) /\ n \in Nat /\ t \in Nat /\ l = n + 6 + t
      /\ ConnectStands(p, f, n, t)
  <2>1. ConnectOf(p, f, n, t)
      BY <1>f DEF ConnectOf
  <2> HIDE DEF n, t, m
  <2> QED BY <2>1, ConnectParts
<1>2. l \in Nat /\ l <= Codec!MaxLength
    BY <1>1, LenProperties DEF Codec!Crosses
<1>3. d \in Seq(Int)
  <2> HIDE DEF l
  <2> QED BY <1>2, LengthRead
<1>4. e = Codec!Fixed(p) \o (d \o body)
  <2>1. e = (Codec!Fixed(p) \o d) \o body
      BY DEF Codec!PeerWrites
  <2>2. Codec!Fixed(p) \in Seq(Int)
      BY <1>3, HeaderWritten
  <2> HIDE DEF e, d, body
  <2> QED BY <1>1, <1>3, <2>1, <2>2, Associated
<1>5. Len(body) = l
    OBVIOUS
<1>d. d = Codec!getRemainingLength(l)
    OBVIOUS
<1> HIDE DEF e, n, t, m, body, l, d
<1>6. e \in Seq(Int) /\ Len(e) = 1 + Len(d) + l /\ Len(d) \in 1 .. 3
  <2>1. /\ Codec!Fixed(p) \o (Codec!getRemainingLength(l) \o body) \in Seq(Int)
        /\ Len(Codec!Fixed(p) \o (Codec!getRemainingLength(l) \o body))
             = 1 + Len(Codec!getRemainingLength(l)) + Len(body)
        /\ Len(Codec!getRemainingLength(l)) \in 1 .. 3
      BY <1>1, <1>2, LongWritten
  <2> QED BY <1>4, <1>5, <1>d, <2>1
<1>7. DOMAIN Codec!Seen(p) = {"protocol", "version", "flags", "keepAlive", "payload"}
    BY ConnectTyped
<1>8. ASSUME NEW b \in Seq(Int), At(b, 1, e), Len(b) >= Len(e)
      PROVE  Reads(b, p, e)
  <2>1. Long(b, p, Len(d), l) /\ At(b, Len(d) + 2, body)
      BY <1>1, <1>2, <1>4, <1>8, <1>d, LongRead
  <2> DEFINE first == Len(d) + 2
  <2>2. first \in Nat /\ first = Codec!LengthBytes(b) + 2
      BY <1>6, <2>1 DEF Long
  <2>3. ConnectAt(b, p, first, n, f, t)
      BY <1>1, <2>1, <2>2 DEF ConnectStands, body
  <2>4. Codec!FixedOf(b).type = p.type /\ Codec!Length(b) = n + 6 + t
      BY <1>1, <2>1 DEF Long
  <2> HIDE DEF first
  <2>5. Codec!ReadBody(b, first) =
          Codec!Read([protocol |-> p.protocol, version |-> p.version, flags |-> p.flags,
                      keepAlive |-> p.keepAlive, payload |-> p.payload],
                     first + n + 6 + t)
    <3>1. /\ first \in Nat /\ p \in Packs /\ p.type = Codec!CONNECT /\ Codec!Crosses(p)
          /\ n \in Nat /\ t \in Nat
        BY <1>1, <2>2
    <3> QED BY ONLY <2>3, <2>4, <3>1, ConnectBody
  <2>6. first + n + 6 + t = Len(e) + 1 /\ Codec!LengthBytes(b) < Len(e)
      BY <1>1, <1>2, <1>6, <2>1 DEF Long, first
  <2> QED BY <1>7, <2>1, <2>2, <2>5, <2>6 DEF Long, Reads, Codec!Read
<1>9. Len(e) >= 2
    BY <1>2, <1>6
<1> QED BY <1>6, <1>8, <1>9 DEF Crossing, e

-----------------------------------------------------------------------------
\* What the two ends are given to write is read as it was written, if it crosses.
LEMMA GateRead ==
    ASSUME NEW p \in GatePacks, Codec!Crosses(p)
    PROVE  Crossing(p, Codec!DelayWritePack(p))
<1>1. p \in Packs /\ p \in Codec!WritablePacks
    BY CodecAssumption DEF CodecAssumption, Packs
<1>2. p.type \in {Codec!CONNACK, Codec!PUBLISH, Codec!SUBACK, Codec!PINGRESP,
                  Codec!SUBSCRIBE, Codec!UNSUBSCRIBE} \cup Codec!Acks
    BY <1>1 DEF Codec!WritablePacks, Codec!TopicsPacks
<1>3. CASE p.type \in {Codec!CONNACK, Codec!PINGRESP}
    BY <1>1, <1>3, ConnAckRead, PingRespRead
<1>4. CASE p.type \in {Codec!PUBLISH, Codec!SUBACK}
    BY <1>1, <1>4, PublishRead, SubAckRead
<1>5. CASE p.type \in {Codec!SUBSCRIBE, Codec!UNSUBSCRIBE}
    BY <1>1, <1>5, GateTopicsRead
<1>6. CASE p.type \in Codec!Acks
    BY <1>1, <1>6, AckRead
<1> QED BY <1>2, <1>3, <1>4, <1>5, <1>6

LEMMA PeerRead ==
    ASSUME NEW p \in PeerPacks, Codec!Crosses(p)
    PROVE  Crossing(p, Codec!PeerWrites(p))
<1>1. p \in Packs /\ p \in Codec!ClientPacks
    BY CodecAssumption DEF CodecAssumption, Packs
<1>2. p.type \in {Codec!CONNECT, Codec!PINGREQ, Codec!DISCONNECT, Codec!SUBSCRIBE,
                  Codec!UNSUBSCRIBE}
    BY <1>1 DEF Codec!ClientPacks, Codec!TopicsPacks
<1>3. CASE p.type = Codec!CONNECT
    BY <1>1, <1>3, ConnectRead
<1>4. CASE p.type \in {Codec!PINGREQ, Codec!DISCONNECT}
    BY <1>1, <1>4, PingReqRead
<1>5. CASE p.type \in {Codec!SUBSCRIBE, Codec!UNSUBSCRIBE}
    BY <1>1, <1>5, PeerTopicsRead
<1> QED BY <1>2, <1>3, <1>4, <1>5

-----------------------------------------------------------------------------
\* The packs on their way, one after the other: pack i takes the bytes of s from c[i - 1] + 1
\* to c[i].
Stands(packs, c, i, s) ==
    \E e : Crossing(packs[i], e) /\ At(s, c[i - 1] + 1, e) /\ c[i] = c[i - 1] + Len(e)

Cut(packs, c, r, n, s) ==
    /\ c \in [r .. n -> Nat] /\ c[r] = 0 /\ c[n] = Len(s)
    /\ \A i, j \in r .. n : i <= j => c[i] <= c[j]
    /\ \A i \in r + 1 .. n : Stands(packs, c, i, s)

\* The first r packs are read, and w ends where one of the others does.
OnTheWay(packs, r, s, w) ==
    \E c : /\ Cut(packs, c, r, Len(packs), s)
           /\ \E i \in r .. Len(packs) : c[i] = Len(w)

\* What InSync says of a pack that was read.
Matches(i) ==
    /\ \A k \in {"type", "dup", "qos"} : received[i][1][k] = sent[i][k]
    /\ DOMAIN received[i][2] = DOMAIN Codec!Seen(sent[i])
    /\ \A k \in DOMAIN Codec!Seen(sent[i]) : received[i][2][k] = sent[i][k]

AllCross == \A i \in 1 .. Len(sent) : Codec!Crosses(sent[i])

InStep ==
    /\ ~failed /\ wire \in Seq(Int) /\ buf \in Seq(Int)
    /\ \E S : received \in Seq(S)
    /\ Len(received) <= Len(sent)
    /\ \A i \in 1 .. Len(received) : Matches(i)
    /\ OnTheWay(sent, Len(received), wire \o buf, wire)

CodecInv ==
    /\ sent \in Seq(GatePacks \cup PeerPacks)
    /\ AllCross => InStep

-----------------------------------------------------------------------------
\* Bytes stay where they are when more are written behind them, and move forward when those
\* before them are read.
LEMMA StaysAt ==
    ASSUME NEW s \in Seq(Int), NEW t \in Seq(Int), NEW i \in Nat, i >= 1, NEW e \in Seq(Int),
           i + Len(e) <= Len(s) + 1
    PROVE  At(s, i, e) <=> At(s \o t, i, e)
<1> DEFINE n == Len(s)
           u == s \o t
           m == Len(e)
<1>1. n \in Nat /\ m \in Nat /\ i + m <= n + 1
    BY LenProperties
<1>2. Len(u) >= n /\ Len(u) \in Nat /\ \A k \in 1 .. n : u[k] = s[k]
    BY LenProperties, ConcatProperties
<1> HIDE DEF u, n, m
<1>3. \A j \in 1 .. m : i + j - 1 \in 1 .. n
    BY <1>1
<1>4. \A k \in 1 .. n : Codec!Byte(s, k) = s[k] /\ Codec!Byte(u, k) = u[k]
    BY <1>1, <1>2 DEF Codec!Byte, n
<1>5. \A j \in 1 .. m : Codec!Byte(s, i + j - 1) = Codec!Byte(u, i + j - 1)
    BY <1>2, <1>3, <1>4
<1> QED BY <1>5 DEF At, u, m

LEMMA BehindAt ==
    ASSUME NEW s \in Seq(Int), NEW e \in Seq(Int)
    PROVE  At(s \o e, Len(s) + 1, e)
<1> DEFINE n == Len(s)
           u == s \o e
           m == Len(e)
<1>1. n \in Nat /\ m \in Nat
    BY LenProperties
<1>2. Len(u) = n + m /\ \A k \in n + 1 .. n + m : u[k] = e[k - n]
    BY ConcatProperties
<1> HIDE DEF u, n, m
<1>3. ASSUME NEW j \in 1 .. m
      PROVE  Codec!Byte(u, n + 1 + j - 1) = e[j]
  <2>1. n + 1 + j - 1 = n + j /\ n + j \in n + 1 .. n + m /\ (n + j) - n = j
      BY <1>1
  <2>2. Codec!Byte(u, n + j) = u[n + j]
      BY <1>2, <2>1 DEF Codec!Byte
  <2> QED BY <1>2, <2>1, <2>2
<1> QED BY <1>3 DEF At, u, m, n

LEMMA JoinedBytes ==
    ASSUME NEW s \in Seq(Int), NEW t \in Seq(Int)
    PROVE  /\ Len(s \o t) = Len(s) + Len(t)
           /\ \A k \in 1 .. Len(s) : (s \o t)[k] = s[k]
           /\ \A k \in Len(s) + 1 .. Len(s) + Len(t) : (s \o t)[k] = t[k - Len(s)]
BY ConcatProperties, LenProperties

\* The bytes e stand d positions behind i, as far as there are bytes.
Behind(w, t, d, i, e) ==
    d <= Len(w) /\ At(w \o t, i + d, e) /\ i + d + Len(e) <= Len(w \o t) + 1

LEMMA MovesAt ==
    ASSUME NEW w \in Seq(Int), NEW t \in Seq(Int), NEW d \in Nat,
           NEW i \in Nat, i >= 1, NEW e \in Seq(Int), Behind(w, t, d, i, e)
    PROVE  At(SubSeq(w, d + 1, Len(w)) \o t, i, e)
<1>0. d <= Len(w) /\ At(w \o t, i + d, e) /\ i + d + Len(e) <= Len(w \o t) + 1
    BY DEF Behind
<1> DEFINE rest == SubSeq(w, d + 1, Len(w))
           n == Len(w)
           l == Len(t)
           m == Len(e)
           u == w \o t
           v == rest \o t
<1>1. n \in Nat /\ l \in Nat /\ m \in Nat
    BY LenProperties
<1>2. /\ Len(u) = n + l /\ \A k \in 1 .. n : u[k] = w[k]
      /\ \A k \in n + 1 .. n + l : u[k] = t[k - n]
    BY ConcatProperties
<1>3. rest \in Seq(Int) /\ Len(rest) = n - d /\ \A k \in 1 .. n - d : rest[k] = w[k + d]
  <2>1. d + 1 \in 1 .. n + 1 /\ n \in d .. n
      BY <1>0, <1>1
  <2>2. /\ rest \in Seq(Int)
        /\ Len(rest) = IF d + 1 <= n THEN n - (d + 1) + 1 ELSE 0
        /\ \A k \in 1 .. n - (d + 1) + 1 : rest[k] = w[d + 1 + k - 1]
      BY <1>1, <2>1, SubSeqProperties
  <2> HIDE DEF n
  <2>3. Len(rest) = n - d /\ n - (d + 1) + 1 = n - d
      BY <1>0, <1>1, <2>2 DEF n
  <2>4. \A k \in 1 .. n - d : d + 1 + k - 1 = k + d
      BY <1>1
  <2> QED BY <2>2, <2>3, <2>4
<1>4. /\ Len(v) = (n - d) + l /\ \A k \in 1 .. n - d : v[k] = rest[k]
      /\ \A k \in (n - d) + 1 .. (n - d) + l : v[k] = t[k - (n - d)]
  <2>1. /\ Len(v) = Len(rest) + Len(t) /\ \A k \in 1 .. Len(rest) : v[k] = rest[k]
        /\ \A k \in Len(rest) + 1 .. Len(rest) + Len(t) : v[k] = t[k - Len(rest)]
      BY ONLY <1>3, t \in Seq(Int), JoinedBytes
  <2> HIDE DEF v
  <2> QED BY <1>3, <2>1
<1>5. i + d + m <= n + l + 1
    BY <1>0, <1>2
<1> HIDE DEF n, l, m, u, v, rest
<1>6. ASSUME NEW k \in 1 .. (n - d) + l
      PROVE  v[k] = u[k + d]
  <2>1. CASE k <= n - d
    <3>1. k \in 1 .. n - d /\ k + d \in 1 .. n
        BY <1>0, <1>1, <2>1 DEF n
    <3> QED BY <1>2, <1>3, <1>4, <3>1
  <2>2. CASE k > n - d
    <3>1. /\ k \in (n - d) + 1 .. (n - d) + l /\ k + d \in n + 1 .. n + l
          /\ k - (n - d) = (k + d) - n
        BY <1>0, <1>1, <2>2 DEF n
    <3> QED BY <1>2, <1>4, <3>1
  <2>3. k <= n - d \/ k > n - d
      BY <1>1
  <2> QED BY <2>1, <2>2, <2>3
<1>7. ASSUME NEW j \in 1 .. m
      PROVE  Codec!Byte(v, i + j - 1) = e[j]
  <2> DEFINE k == i + j - 1
  <2>1. k \in 1 .. (n - d) + l /\ k + d = i + d + j - 1 /\ k + d <= n + l
      BY <1>0, <1>1, <1>5, <1>7
  <2> HIDE DEF k
  <2>2. Codec!Byte(u, i + d + j - 1) = e[j]
      BY <1>0, <1>7 DEF At, u, m
  <2>3. Codec!Byte(u, k + d) = u[k + d] /\ Codec!Byte(v, k) = v[k]
      BY <1>2, <1>4, <2>1 DEF Codec!Byte
  <2> QED BY <1>6, <2>1, <2>2, <2>3 DEF k
<1> QED BY <1>7 DEF At, v, m, rest

-----------------------------------------------------------------------------
\* What is on the way when a pack is written, flushed and read.
LEMMA StandsTyped ==
    ASSUME NEW packs, NEW c, NEW i, NEW s, Stands(packs, c, i, s), c[i - 1] \in Nat
    PROVE  \E e \in Seq(Int) : /\ Crossing(packs[i], e) /\ At(s, c[i - 1] + 1, e)
                               /\ c[i] = c[i - 1] + Len(e) /\ Len(e) \in Nat /\ Len(e) >= 2
BY LenProperties DEF Stands, Crossing

LEMMA OneMoreCut ==
    ASSUME NEW P, NEW packs \in Seq(P), NEW p \in P, NEW n \in Nat, n = Len(packs),
           NEW r \in 0 .. n, NEW s \in Seq(Int), NEW c, Cut(packs, c, r, n, s),
           NEW e, Crossing(p, e), NEW d, d = [i \in r .. n + 1 |-> IF i <= n THEN c[i]
                                                                  ELSE Len(s) + Len(e)]
    PROVE  Cut(Append(packs, p), d, r, n + 1, s \o e)
<1> DEFINE more == Append(packs, p)
           u == s \o e
           l == Len(s)
           m == Len(e)
<1>1. /\ e \in Seq(Int) /\ m \in Nat /\ l \in Nat /\ u \in Seq(Int) /\ Len(u) = l + m
  <2>1. e \in Seq(Int)
      BY DEF Crossing
  <2> QED BY <2>1, LenProperties, ConcatProperties
<1>2. more[n + 1] = p /\ \A i \in 1 .. n : more[i] = packs[i]
    BY AppendProperties
<1>3. /\ c \in [r .. n -> Nat] /\ c[r] = 0 /\ c[n] = l
      /\ \A i, j \in r .. n : i <= j => c[i] <= c[j]
      /\ \A i \in r + 1 .. n : Stands(packs, c, i, s)
    BY DEF Cut
<1>4. /\ \A i \in r .. n : d[i] = c[i] /\ d[i] \in Nat
      /\ d[n + 1] = l + m /\ d[n] = l /\ d[r] = 0
  <2>1. n + 1 \in r .. n + 1 /\ ~(n + 1 <= n) /\ n \in r .. n /\ r \in r .. n
      OBVIOUS
  <2>2. \A i \in r .. n : d[i] = c[i] /\ d[i] \in Nat
    <3>1. \A i \in r .. n : i \in r .. n + 1 /\ i <= n
        OBVIOUS
    <3> QED BY <1>3, <3>1
  <2> QED BY <1>3, <2>1, <2>2
<1>5. d \in [r .. n + 1 -> Nat]
    BY <1>1, <1>3
<1> HIDE DEF more, u, l, m
<1>6. ASSUME NEW i \in r .. n + 1, NEW j \in r .. n + 1, i <= j PROVE d[i] <= d[j]
  <2>1. n \in r .. n
      OBVIOUS
  <2>2. CASE j <= n
    <3>1. i \in r .. n /\ j \in r .. n
        BY <1>6, <2>2
    <3> QED BY <1>3, <1>4, <1>6, <3>1
  <2>3. CASE j = n + 1 /\ i = n + 1
      BY <1>1, <1>4, <2>3
  <2>4. CASE j = n + 1 /\ i <= n
    <3>1. i \in r .. n /\ i <= n
        BY <2>4
    <3>2. c[i] <= c[n]
        BY <1>3, <2>1, <3>1
    <3>3. d[i] \in Nat /\ d[i] <= l /\ d[j] = l + m
        BY <1>3, <1>4, <2>4, <3>1, <3>2
    <3> QED BY <1>1, <3>3
  <2> QED BY <2>2, <2>3, <2>4
<1>7. ASSUME NEW i \in r + 1 .. n + 1 PROVE Stands(more, d, i, u)
  <2>1. CASE i <= n
    <3>1. i \in r + 1 .. n /\ i \in r .. n /\ i - 1 \in r .. n /\ n \in r .. n /\ i \in 1 .. n
        BY <2>1
    <3>2. d[i] = c[i] /\ d[i - 1] = c[i - 1] /\ c[i - 1] \in Nat /\ c[i] <= l
        BY <1>3, <1>4, <2>1, <3>1
    <3>3. PICK f \in Seq(Int) : /\ Crossing(packs[i], f) /\ At(s, c[i - 1] + 1, f)
                                /\ c[i] = c[i - 1] + Len(f) /\ Len(f) \in Nat
        BY <1>3, <3>1, <3>2, StandsTyped
    <3>4. At(u, c[i - 1] + 1, f)
      <4> DEFINE at == c[i - 1] + 1
      <4>1. at \in Nat /\ at >= 1 /\ at + Len(f) <= Len(s) + 1
        <5> DEFINE x == c[i - 1]
                   y == c[i]
                   z == Len(f)
        <5>1. x \in Nat /\ y = x + z /\ z \in Nat /\ y <= l
            BY <3>2, <3>3
        <5> HIDE DEF x, y, z
        <5>2. x + 1 \in Nat /\ x + 1 >= 1 /\ (x + 1) + z <= l + 1
            BY <1>1, <5>1
        <5> QED BY <5>2 DEF x, z, l
      <4>2. At(s, at, f)
          BY <3>3
      <4> HIDE DEF at
      <4>3. At(s \o e, at, f)
          BY <1>1, <4>1, <4>2, StaysAt
      <4> QED BY <4>3 DEF at, u
    <3> QED BY <1>2, <3>1, <3>2, <3>3, <3>4 DEF Stands
  <2>2. CASE i = n + 1
    <3>1. i - 1 = n
        BY <2>2
    <3>2. At(u, l + 1, e)
        BY <1>1, BehindAt DEF u, l
    <3>3. d[i] = d[i - 1] + Len(e) /\ At(u, d[i - 1] + 1, e) /\ Crossing(more[i], e)
        BY <1>2, <1>4, <2>2, <3>1, <3>2 DEF m
    <3> QED BY <3>3 DEF Stands
  <2> QED BY <2>1, <2>2
<1> QED BY <1>1, <1>4, <1>5, <1>6, <1>7 DEF Cut, more, u

LEMMA SentOnTheWay ==
    ASSUME NEW P, NEW packs \in Seq(P), NEW p \in P, NEW r \in Nat, r <= Len(packs),
           NEW s \in Seq(Int), NEW w, OnTheWay(packs, r, s, w), NEW e, Crossing(p, e)
    PROVE  /\ OnTheWay(Append(packs, p), r, s \o e, w)
           /\ OnTheWay(Append(packs, p), r, s \o e, s \o e)
<1> DEFINE n == Len(packs)
<1>1. n \in Nat /\ Len(Append(packs, p)) = n + 1
    BY LenProperties, AppendProperties
<1>2. PICK c : Cut(packs, c, r, n, s) /\ \E i \in r .. n : c[i] = Len(w)
    BY DEF OnTheWay
<1>3. n = Len(packs)
    OBVIOUS
<1> HIDE DEF n
<1> DEFINE d == [i \in r .. n + 1 |-> IF i <= n THEN c[i] ELSE Len(s) + Len(e)]
<1>4. \E i \in r .. n + 1 : d[i] = Len(w)
  <2>1. PICK i \in r .. n : c[i] = Len(w)
      BY <1>2
  <2>2. i \in r .. n + 1 /\ i <= n
      BY <1>1
  <2>3. d[i] = Len(w)
      BY <2>1, <2>2
  <2> QED BY <2>2, <2>3
<1>5. Cut(Append(packs, p), d, r, n + 1, s \o e)
  <2>1. d = [i \in r .. n + 1 |-> IF i <= n THEN c[i] ELSE Len(s) + Len(e)] /\ r \in 0 .. n
      BY <1>1, <1>3
  <2> HIDE DEF d
  <2> QED BY <1>1, <1>2, <1>3, <2>1, OneMoreCut
<1> HIDE DEF d
<1>6. n + 1 \in r .. n + 1 /\ d[n + 1] = Len(s \o e)
    BY <1>1, <1>3, <1>5 DEF Cut
<1> QED BY <1>1, <1>4, <1>5, <1>6 DEF OnTheWay

LEMMA FlushOnTheWay ==
    ASSUME NEW packs, Len(packs) \in Nat, NEW r \in Nat, r <= Len(packs), NEW s, NEW w,
           OnTheWay(packs, r, s, w)
    PROVE  OnTheWay(packs, r, s, s)
<1>1. Len(packs) \in r .. Len(packs)
    OBVIOUS
<1> QED BY <1>1 DEF OnTheWay, Cut

LEMMA NothingOnTheWay ==
    ASSUME NEW packs, Len(packs) \in Nat, NEW r \in Nat, r <= Len(packs), NEW s, NEW w,
           OnTheWay(packs, r, s, w), Len(s) = 0
    PROVE  r = Len(packs)
<1> DEFINE n == Len(packs)
<1> SUFFICES ASSUME r < n PROVE FALSE
    OBVIOUS
<1>1. PICK c : Cut(packs, c, r, n, s)
    BY DEF OnTheWay
<1> HIDE DEF n
<1>2. r + 1 \in r + 1 .. n /\ r + 1 \in r .. n /\ n \in r .. n /\ (r + 1) - 1 = r
    BY DEF n
<1>3. c[r] = 0 /\ Stands(packs, c, r + 1, s) /\ c[r + 1] <= c[n] /\ c[n] = 0
    BY <1>1, <1>2 DEF Cut
<1>4. PICK e \in Seq(Int) : c[r + 1] = c[r] + Len(e) /\ Len(e) \in Nat /\ Len(e) >= 2
    BY <1>2, <1>3, StandsTyped
<1> QED BY <1>3, <1>4

\* The first pack on the way is on the wire as a whole, and is taken from it alone.
FirstTaken(packs, r, w, t, e) ==
    /\ Crossing(packs[r + 1], e) /\ e \in Seq(Int) /\ At(w, 1, e) /\ Len(e) <= Len(w)
    /\ OnTheWay(packs, r + 1, SubSeq(w, Len(e) + 1, Len(w)) \o t, SubSeq(w, Len(e) + 1, Len(w)))

LEMMA ReadOnTheWay ==
    ASSUME NEW packs, NEW n \in Nat, n = Len(packs), NEW r \in Nat, r <= n,
           NEW w \in Seq(Int), NEW t \in Seq(Int), Len(w) >= 2, OnTheWay(packs, r, w \o t, w)
    PROVE  r < n /\ \E e : FirstTaken(packs, r, w, t, e)
<1> DEFINE s == w \o t
           a == Len(w)
           z == Len(s)
<1>1. a \in Nat /\ s \in Seq(Int) /\ z = a + Len(t) /\ Len(t) \in Nat /\ z \in Nat /\ a >= 2
    BY LenProperties, ConcatProperties
<1>c. PICK c : Cut(packs, c, r, n, s) /\ \E i \in r .. n : c[i] = a
    BY DEF OnTheWay
<1>i. PICK i \in r .. n : c[i] = a
    BY <1>c
<1>2. /\ c \in [r .. n -> Nat] /\ c[r] = 0 /\ c[n] = z
      /\ \A j, k \in r .. n : j <= k => c[j] <= c[k]
      /\ \A k \in r + 1 .. n : Stands(packs, c, k, s)
    BY <1>c DEF Cut
<1> HIDE DEF s, a, z
<1>3. i # r /\ i \in r + 1 .. n /\ r < n
    BY <1>1, <1>2, <1>i
<1>4. r + 1 \in r .. n /\ r + 1 \in r + 1 .. n /\ (r + 1) - 1 = r /\ r + 1 <= i /\ n \in r .. n
    BY <1>3
<1>e. PICK e \in Seq(Int) : /\ Crossing(packs[r + 1], e) /\ At(s, c[(r + 1) - 1] + 1, e)
                            /\ c[r + 1] = c[(r + 1) - 1] + Len(e) /\ Len(e) \in Nat /\ Len(e) >= 2
  <2>1. Stands(packs, c, r + 1, s) /\ c[(r + 1) - 1] \in Nat
      BY <1>2, <1>4
  <2> QED BY <2>1, StandsTyped
<1> DEFINE m == Len(e)
<1>5. c[r + 1] = m /\ At(s, 1, e) /\ m \in Nat /\ m <= a /\ m >= 2
  <2>1. c[r + 1] <= c[i]
      BY <1>2, <1>4
  <2> QED BY <1>2, <1>4, <1>e, <1>i, <2>1
<1> DEFINE rest == SubSeq(w, m + 1, Len(w))
           v == rest \o t
           d == [k \in r + 1 .. n |-> c[k] - m]
<1>6. rest \in Seq(Int) /\ Len(rest) = a - m
  <2>1. \A k \in m + 1 .. a : w[k] \in Int
      BY <1>1, <1>5 DEF a
  <2>2. rest \in Seq(Int) /\ Len(rest) = IF m + 1 <= a THEN a - (m + 1) + 1 ELSE 0
      BY <1>1, <1>5, <2>1, SubSeqProperties DEF a
  <2> HIDE DEF rest, m
  <2>3. (IF m + 1 <= a THEN a - (m + 1) + 1 ELSE 0) = a - m
      BY <1>1, <1>5
  <2> QED BY <2>2, <2>3
<1>7. v \in Seq(Int) /\ Len(v) = z - m
  <2>1. v \in Seq(Int) /\ Len(v) = Len(rest) + Len(t)
    <3> HIDE DEF rest
    <3> QED BY <1>6, ConcatProperties
  <2> HIDE DEF v, rest, m
  <2> QED BY <1>1, <1>5, <1>6, <2>1
<1>r. rest = SubSeq(w, m + 1, Len(w)) /\ v = rest \o t
    OBVIOUS
<1> HIDE DEF rest, v, m
<1>8. \A k \in r + 1 .. n : c[k] \in Nat /\ c[k] >= m /\ c[k] <= z /\ d[k] = c[k] - m
  <2> SUFFICES ASSUME NEW k \in r + 1 .. n
               PROVE  c[k] \in Nat /\ c[k] >= m /\ c[k] <= z /\ d[k] = c[k] - m
      OBVIOUS
  <2>1. k \in r .. n /\ r + 1 <= k /\ k <= n
      OBVIOUS
  <2>2. c[k] \in Nat /\ c[r + 1] <= c[k] /\ c[k] <= c[n]
      BY <1>2, <1>4, <2>1
  <2> QED BY <1>2, <1>5, <2>2
<1>9. d \in [r + 1 .. n -> Nat] /\ d[r + 1] = 0 /\ d[n] = Len(v) /\ d[i] = Len(rest)
  <2>1. \A k \in r + 1 .. n : c[k] - m \in Nat
      BY <1>5, <1>8
  <2>2. d[r + 1] = 0 /\ d[n] = z - m /\ d[i] = a - m
    <3>1. n \in r + 1 .. n
        BY <1>3
    <3> HIDE DEF d
    <3>2. d[r + 1] = c[r + 1] - m /\ d[n] = c[n] - m /\ d[i] = c[i] - m
        BY <1>3, <1>4, <1>8, <3>1
    <3>3. m - m = 0
        BY <1>5
    <3> QED BY <1>2, <1>5, <1>i, <3>2, <3>3
  <2> QED BY <1>6, <1>7, <2>1, <2>2
<1> HIDE DEF d
<1>10. ASSUME NEW j \in r + 1 .. n, NEW k \in r + 1 .. n, j <= k PROVE d[j] <= d[k]
  <2>1. j \in r .. n /\ k \in r .. n
      OBVIOUS
  <2>2. c[j] <= c[k]
      BY <1>2, <1>10, <2>1
  <2> QED BY <1>5, <1>8, <1>10, <2>2
<1>11. ASSUME NEW k \in (r + 1) + 1 .. n PROVE Stands(packs, d, k, v)
  <2>1. k \in r + 1 .. n /\ k - 1 \in r + 1 .. n
      BY <1>11
  <2>2. PICK f \in Seq(Int) : /\ Crossing(packs[k], f) /\ At(s, c[k - 1] + 1, f)
                              /\ c[k] = c[k - 1] + Len(f) /\ Len(f) \in Nat
    <3>1. Stands(packs, c, k, s) /\ c[k - 1] \in Nat
        BY <1>2, <1>8, <2>1
    <3> QED BY <3>1, StandsTyped
  <2> DEFINE x == c[k - 1]
             y == c[k]
             g == Len(f)
             at == d[k - 1] + 1
  <2>3. x \in Nat /\ x >= m /\ y \in Nat /\ y <= z /\ y = x + g /\ g \in Nat
      BY <1>8, <2>1, <2>2
  <2>4. d[k - 1] = x - m /\ d[k] = y - m
      BY <1>8, <2>1
  <2>5. At(s, x + 1, f)
      BY <2>2
  <2> HIDE DEF x, y, g
  <2>6. at \in Nat /\ at >= 1 /\ at + m = x + 1 /\ at + m + g <= z + 1 /\ d[k] = d[k - 1] + g
      BY <1>1, <1>5, <2>3, <2>4
  <2> HIDE DEF at
  <2>7. At(rest \o t, at, f)
    <3>1. Behind(w, t, m, at, f)
        BY <1>5, <2>5, <2>6 DEF s, z, a, g, Behind
    <3>2. At(SubSeq(w, m + 1, Len(w)) \o t, at, f)
        BY <1>5, <2>2, <2>6, <3>1, MovesAt
    <3> QED BY <1>r, <3>2
  <2>8. At(v, d[k - 1] + 1, f) /\ d[k] = d[k - 1] + Len(f)
      BY <1>r, <2>6, <2>7 DEF at, g
  <2> QED BY <2>2, <2>8 DEF Stands
<1>12. OnTheWay(packs, r + 1, v, rest)
    BY <1>3, <1>9, <1>10, <1>11 DEF OnTheWay, Cut
<1>13. At(w, 1, e)
  <2>1. 1 + Len(e) <= Len(w) + 1
      BY <1>1, <1>5 DEF m, a
  <2> QED BY <1>5, <1>e, <2>1, StaysAt DEF s
<1>14. FirstTaken(packs, r, w, t, e)
    BY <1>5, <1>12, <1>13, <1>e, <1>r DEF FirstTaken, m, a
<1> QED BY <1>3, <1>14

-----------------------------------------------------------------------------
\* The steps of the codec.
LEMMA SentBefore ==
    ASSUME sent \in Seq(GatePacks \cup PeerPacks), NEW p \in GatePacks \cup PeerPacks,
           sent' = Append(sent, p)
    PROVE  /\ sent' \in Seq(GatePacks \cup PeerPacks)
           /\ Len(sent') = Len(sent) + 1 /\ Len(sent) \in Nat
           /\ \A i \in 1 .. Len(sent) : sent'[i] = sent[i]
           /\ AllCross' => AllCross /\ Codec!Crosses(p)
<1> DEFINE n == Len(sent)
<1>1. /\ sent' \in Seq(GatePacks \cup PeerPacks) /\ Len(sent') = n + 1 /\ n \in Nat
      /\ \A i \in 1 .. n : sent'[i] = sent[i]
      /\ sent'[n + 1] = p
    BY AppendProperties, LenProperties
<1> HIDE DEF n
<1>2. ASSUME AllCross' PROVE AllCross /\ Codec!Crosses(p)
  <2>1. \A i \in 1 .. n + 1 : Codec!Crosses(sent'[i])
      BY <1>1, <1>2 DEF AllCross
  <2>2. n + 1 \in 1 .. n + 1 /\ \A i \in 1 .. n : i \in 1 .. n + 1
      BY <1>1
  <2> QED BY <1>1, <2>1, <2>2 DEF AllCross, n
<1> QED BY <1>1, <1>2 DEF n

\* A pack is written behind the others, and what has been written is flushed or not.
LEMMA SentInStep ==
    ASSUME sent \in Seq(GatePacks \cup PeerPacks), NEW p \in GatePacks \cup PeerPacks,
           sent' = Append(sent, p), InStep, NEW e, Crossing(p, e),
           wire' \in Seq(Int), buf' \in Seq(Int), wire' \o buf' = (wire \o buf) \o e,
           wire' \in {wire, (wire \o buf) \o e}, UNCHANGED <<received, failed>>
    PROVE  InStep'
<1> DEFINE s == wire \o buf
           n == Len(sent)
           r == Len(received)
<1>1. /\ ~failed /\ wire \in Seq(Int) /\ buf \in Seq(Int) /\ r <= n
      /\ \A i \in 1 .. r : Matches(i)
      /\ OnTheWay(sent, r, s, wire)
    BY DEF InStep
<1>2. PICK S : received \in Seq(S)
    BY DEF InStep
<1>3. r \in Nat /\ s \in Seq(Int)
    BY <1>1, <1>2, LenProperties, ConcatProperties
<1>4. Len(sent') = n + 1 /\ n \in Nat /\ \A i \in 1 .. n : sent'[i] = sent[i]
    BY SentBefore
<1>5. OnTheWay(sent', r, s \o e, wire) /\ OnTheWay(sent', r, s \o e, s \o e)
  <2> HIDE DEF s, r
  <2> QED BY <1>1, <1>3, SentOnTheWay
<1>6. OnTheWay(sent', r, wire' \o buf', wire')
    BY <1>5
<1> HIDE DEF s, n, r
<1>7. \A i \in 1 .. r : Matches(i)'
  <2> SUFFICES ASSUME NEW i \in 1 .. r PROVE Matches(i)'
      OBVIOUS
  <2>1. Matches(i) /\ sent'[i] = sent[i] /\ received' = received
      BY <1>1, <1>3, <1>4
  <2> QED BY <2>1 DEF Matches
<1>8. /\ ~failed' /\ \E T : received' \in Seq(T) /\ Len(received') = r /\ r <= n + 1
  <2>1. ~failed' /\ received' = received
      BY <1>1
  <2> QED BY <1>1, <1>2, <1>3, <1>4, <2>1 DEF r
<1> QED BY <1>4, <1>6, <1>7, <1>8 DEF InStep

LEMMA DelayInv == ASSUME CodecInv, NEW p \in GatePacks, Codec!Delay(p) PROVE CodecInv'
<1> DEFINE e == Codec!DelayWritePack(p)
<1>1. /\ sent' = Append(sent, p) /\ buf' = buf \o e /\ UNCHANGED <<wire, received, failed>>
      /\ sent \in Seq(GatePacks \cup PeerPacks)
    BY DEF Codec!Delay, CodecInv
<1>2. ASSUME AllCross' PROVE InStep'
  <2>1. AllCross /\ Codec!Crosses(p)
      BY <1>1, <1>2, SentBefore
  <2>2. InStep /\ wire \in Seq(Int) /\ buf \in Seq(Int)
      BY <2>1 DEF CodecInv, InStep
  <2>3. Crossing(p, e) /\ e \in Seq(Int)
      BY <2>1, GateRead DEF Crossing
  <2> HIDE DEF e
  <2>4. /\ wire' \in Seq(Int) /\ buf' \in Seq(Int) /\ wire' \o buf' = (wire \o buf) \o e
        /\ wire' \in {wire, (wire \o buf) \o e}
      BY <1>1, <2>2, <2>3, Associated, ConcatProperties
  <2> QED BY <1>1, <2>2, <2>3, <2>4, SentInStep
<1>3. sent' \in Seq(GatePacks \cup PeerPacks)
    BY <1>1, SentBefore
<1> QED BY <1>2, <1>3 DEF CodecInv

LEMMA WritePackInv == ASSUME CodecInv, NEW p \in GatePacks, Codec!WritePack(p) PROVE CodecInv'
<1> DEFINE e == Codec!DelayWritePack(p)
<1>1. /\ sent' = Append(sent, p) /\ wire' = wire \o buf \o e /\ buf' = <<>>
      /\ UNCHANGED <<received, failed>> /\ sent \in Seq(GatePacks \cup PeerPacks)
    BY DEF Codec!WritePack, CodecInv
<1>2. ASSUME AllCross' PROVE InStep'
  <2>1. AllCross /\ Codec!Crosses(p)
      BY <1>1, <1>2, SentBefore
  <2>2. InStep /\ wire \in Seq(Int) /\ buf \in Seq(Int)
      BY <2>1 DEF CodecInv, InStep
  <2>3. Crossing(p, e) /\ e \in Seq(Int)
      BY <2>1, GateRead DEF Crossing
  <2> HIDE DEF e
  <2>4. /\ wire' \in Seq(Int) /\ buf' \in Seq(Int) /\ wire' \o buf' = (wire \o buf) \o e
        /\ wire' \in {wire, (wire \o buf) \o e}
      BY <1>1, <2>2, <2>3, ConcatEmptySeq, ConcatProperties
  <2> QED BY <1>1, <2>2, <2>3, <2>4, SentInStep
<1>3. sent' \in Seq(GatePacks \cup PeerPacks)
    BY <1>1, SentBefore
<1> QED BY <1>2, <1>3 DEF CodecInv

LEMMA PeerSendsInv == ASSUME CodecInv, NEW p \in PeerPacks, Codec!PeerSends(p) PROVE CodecInv'
<1> DEFINE e == Codec!PeerWrites(p)
<1>1. /\ sent' = Append(sent, p) /\ wire' = wire \o e /\ buf = <<>> /\ buf' = <<>>
      /\ UNCHANGED <<received, failed>> /\ sent \in Seq(GatePacks \cup PeerPacks)
    BY DEF Codec!PeerSends, CodecInv
<1>2. ASSUME AllCross' PROVE InStep'
  <2>1. AllCross /\ Codec!Crosses(p)
      BY <1>1, <1>2, SentBefore
  <2>2. InStep /\ wire \in Seq(Int) /\ buf \in Seq(Int)
      BY <2>1 DEF CodecInv, InStep
  <2>3. Crossing(p, e) /\ e \in Seq(Int)
      BY <2>1, PeerRead DEF Crossing
  <2> HIDE DEF e
  <2>4. /\ wire' \in Seq(Int) /\ buf' \in Seq(Int) /\ wire' \o buf' = (wire \o buf) \o e
        /\ wire' \in {wire, (wire \o buf) \o e}
      BY <1>1, <2>2, <2>3, ConcatEmptySeq, ConcatProperties
  <2> QED BY <1>1, <2>2, <2>3, <2>4, SentInStep
<1>3. sent' \in Seq(GatePacks \cup PeerPacks)
    BY <1>1, SentBefore
<1> QED BY <1>2, <1>3 DEF CodecInv

LEMMA CodecFlushInv == ASSUME CodecInv, Codec!Flush PROVE CodecInv'
<1>1. /\ wire' = wire \o buf /\ buf' = <<>> /\ UNCHANGED <<sent, received, failed>>
      /\ sent \in Seq(GatePacks \cup PeerPacks) /\ Len(sent) \in Nat
    BY LenProperties DEF Codec!Flush, CodecInv
<1>2. ASSUME AllCross' PROVE InStep'
  <2>1. /\ ~failed /\ wire \in Seq(Int) /\ buf \in Seq(Int)
        /\ Len(received) <= Len(sent) /\ \A i \in 1 .. Len(received) : Matches(i)
        /\ OnTheWay(sent, Len(received), wire \o buf, wire)
        /\ \E S : received \in Seq(S)
      BY <1>1, <1>2 DEF AllCross, CodecInv, InStep
  <2>2. Len(received) \in Nat
      BY <2>1, LenProperties
  <2>3. wire \o buf \in Seq(Int) /\ (wire \o buf) \o <<>> = wire \o buf /\ buf' \in Seq(Int)
      BY <1>1, <2>1, ConcatEmptySeq, ConcatProperties
  <2>4. OnTheWay(sent, Len(received), wire \o buf, wire \o buf)
      BY <1>1, <2>1, <2>2, FlushOnTheWay
  <2>5. \A i \in 1 .. Len(received) : Matches(i)'
      BY <1>1, <2>1 DEF Matches
  <2> QED BY <1>1, <2>1, <2>3, <2>4, <2>5 DEF InStep
<1> QED BY <1>1, <1>2 DEF CodecInv

LEMMA ReadPackInv == ASSUME CodecInv, Codec!ReadPack PROVE CodecInv'
<1> DEFINE n == Len(sent)
           m == Len(received)
           r == Codec!ReadBody(wire, Codec!LengthBytes(wire) + 2)
           new == <<Codec!FixedOf(wire), r.pack>>
<1>1. /\ Len(wire) >= 2 /\ wire' = SubSeq(wire, r.next, Len(wire))
      /\ r.ok => received' = Append(received, new) /\ UNCHANGED failed
      /\ UNCHANGED <<sent, buf>> /\ sent \in Seq(GatePacks \cup PeerPacks)
    BY DEF Codec!ReadPack, CodecInv
<1>2. ASSUME AllCross' PROVE InStep'
  <2>1. /\ ~failed /\ wire \in Seq(Int) /\ buf \in Seq(Int)
        /\ m <= n /\ \A i \in 1 .. m : Matches(i)
        /\ OnTheWay(sent, m, wire \o buf, wire)
      BY <1>1, <1>2 DEF AllCross, CodecInv, InStep
  <2>s. PICK S : received \in Seq(S)
      BY <1>1, <1>2 DEF AllCross, CodecInv, InStep
  <2>2. m \in Nat /\ n \in Nat
      BY <1>1, <2>s, LenProperties
  <2>3. m < n /\ \E e : FirstTaken(sent, m, wire, buf, e)
    <3>1. n = Len(sent)
        OBVIOUS
    <3> HIDE DEF n, m
    <3> QED BY <1>1, <2>1, <2>2, <3>1, ReadOnTheWay
  <2>e. PICK e : FirstTaken(sent, m, wire, buf, e)
      BY <2>3
  <2> HIDE DEF n, m, r
  <2>4. Reads(wire, sent[m + 1], e)
      BY <2>1, <2>e DEF FirstTaken, Crossing
  <2>5. /\ r.ok /\ r.next = Len(e) + 1
        /\ \A k \in {"type", "dup", "qos"} : Codec!FixedOf(wire)[k] = sent[m + 1][k]
        /\ DOMAIN r.pack = DOMAIN Codec!Seen(sent[m + 1])
        /\ \A k \in DOMAIN Codec!Seen(sent[m + 1]) : r.pack[k] = sent[m + 1][k]
      BY <2>4 DEF Reads, r
  <2>6. received' = Append(received, new) /\ ~failed' /\ wire' = SubSeq(wire, Len(e) + 1, Len(wire))
      BY <1>1, <2>1, <2>5
  <2> HIDE DEF new
  <2>7. /\ received' \in Seq(S \cup {new}) /\ Len(received') = m + 1
        /\ \A i \in 1 .. m : received'[i] = received[i]
        /\ received'[m + 1] = new
    <3>1. received \in Seq(S \cup {new}) /\ new \in S \cup {new}
        BY <2>s
    <3> QED BY <2>6, <3>1, AppendProperties DEF m
  <2>8. \A i \in 1 .. m + 1 : Matches(i)'
    <3> SUFFICES ASSUME NEW i \in 1 .. m + 1 PROVE Matches(i)'
        OBVIOUS
    <3>1. CASE i \in 1 .. m
        BY <1>1, <2>1, <2>7, <3>1 DEF Matches
    <3>2. CASE i = m + 1
      <4>1. /\ received'[i][1] = Codec!FixedOf(wire) /\ received'[i][2] = r.pack
            /\ sent' = sent
          BY <1>1, <2>7, <3>2 DEF new
      <4> QED BY <2>5, <3>2, <4>1 DEF Matches
    <3> QED BY <2>2, <3>1, <3>2
  <2>9. /\ wire' \in Seq(Int) /\ OnTheWay(sent, m + 1, wire' \o buf, wire')
    <3>1. Len(e) \in Nat
        BY <2>e, LenProperties DEF FirstTaken
    <3>2. wire' \in Seq(Int)
        BY <2>1, <2>6, <3>1
    <3> QED BY <2>6, <2>e, <3>2 DEF FirstTaken
  <2> QED BY <1>1, <2>1, <2>2, <2>3, <2>6, <2>7, <2>8, <2>9 DEF InStep, n
<1> QED BY <1>1, <1>2 DEF CodecInv

LEMMA CodecHolds == Spec => []CodecInv
<1>1. Init => CodecInv
  <2> SUFFICES ASSUME Init PROVE CodecInv
      OBVIOUS
  <2>1. sent = <<>> /\ buf = <<>> /\ wire = <<>> /\ received = <<>> /\ failed = FALSE
      BY DEF Init, Codec!Init
  <2> DEFINE c == [i \in 0 .. 0 |-> 0]
  <2>2. Cut(sent, c, 0, 0, <<>>) /\ \E i \in 0 .. 0 : c[i] = 0
      BY DEF Cut
  <2> HIDE DEF c
  <2>3. OnTheWay(sent, Len(received), wire \o buf, wire)
    <3>1. Len(sent) = 0 /\ Len(received) = 0 /\ wire \o buf = <<>> /\ Len(wire) = 0
        BY <2>1
    <3> QED BY <2>2, <3>1 DEF OnTheWay
  <2>4. received \in Seq({}) /\ wire \in Seq(Int) /\ buf \in Seq(Int)
        /\ sent \in Seq(GatePacks \cup PeerPacks) /\ Len(received) <= Len(sent)
        /\ 1 .. Len(received) = {}
      BY <2>1
  <2> QED BY <2>1, <2>3, <2>4 DEF CodecInv, InStep
<1>2. CodecInv /\ [Next]_vars => CodecInv'
  <2> SUFFICES ASSUME CodecInv, [Next]_vars PROVE CodecInv'
      OBVIOUS
  <2>1. CASE Codec!Next
      BY <2>1, DelayInv, WritePackInv, PeerSendsInv, CodecFlushInv, ReadPackInv DEF Codec!Next
  <2>2. CASE UNCHANGED codecVars
      BY <2>2 DEF codecVars, CodecInv, AllCross, InStep, Matches
  <2>3. Codec!Next \/ UNCHANGED codecVars
      BY DEF Next, CodecStep, ValueStep, LogStep, FileStep, MapStep, vars
  <2> QED BY <2>1, <2>2, <2>3
<1> QED BY <1>1, <1>2, PTL DEF Spec

\* ReadPack returns the packs that cross as they were written, each once and in their order,
\* in whatever pieces they arrive: for any packs, as many as there are, and any base.
THEOREM PacksReadOnce == Spec => []InSync
<1>1. CodecInv => InSync
  <2> SUFFICES ASSUME CodecInv, AllCross PROVE InSync
      BY DEF InSync, Codec!InSync, AllCross
  <2>1. /\ ~failed /\ wire \in Seq(Int) /\ buf \in Seq(Int) /\ Len(received) <= Len(sent)
        /\ \A i \in 1 .. Len(received) : Matches(i)
        /\ OnTheWay(sent, Len(received), wire \o buf, wire)
        /\ \E S : received \in Seq(S)
      BY DEF CodecInv, InStep
  <2>2. Len(received) \in Nat /\ Len(sent) \in Nat
      BY <2>1, LenProperties DEF CodecInv
  <2>3. ASSUME wire = <<>>, buf = <<>> PROVE Len(received) = Len(sent)
    <3>1. Len(wire \o buf) = 0
        BY <2>3
    <3> QED BY <2>1, <2>2, <3>1, NothingOnTheWay
  <2> QED BY <2>1, <2>3 DEF InSync, Codec!InSync, Matches
<1> QED BY <1>1, CodecHolds, PTL
=============================================================================

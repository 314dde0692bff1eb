---------------------------- MODULE WorkloadsProofs ----------------------------
(***************************************************************************)
(* The programs of Workloads, each for any values of its constants, and     *)
(* with it Workloads, of which every behaviour is one of each program.      *)
(***************************************************************************)
EXTENDS Workloads, SearchAnswerProofs

(***************************************************************************)
(* UploadArchive                                                           *)
(***************************************************************************)
Paths == Seq(Names) \ {<<>>}

\* A path is its first name and the rest.
LEMMA PathParts ==
  ASSUME NEW p \in Paths, Nested(p)
  PROVE  /\ p[1] \in Names /\ Tail(p) \in Paths /\ Len(Tail(p)) = Len(p) - 1
         /\ \A i \in 1..Len(Tail(p)) : Tail(p)[i] = p[i + 1]
<1>1. p \in Seq(Names) /\ p # <<>> /\ Len(p) \in Nat /\ Len(p) > 1
  BY DEF Paths, Nested
<1>2. /\ p[1] \in Names /\ Tail(p) \in Seq(Names) /\ Len(Tail(p)) = Len(p) - 1
      /\ \A i \in 1..(Len(p) - 1) : Tail(p)[i] = p[i + 1]
  BY <1>1
<1>3. Tail(p) # <<>>
  BY <1>1, <1>2
<1>4. QED
  BY <1>1, <1>2, <1>3 DEF Paths

\* Paths that begin with the same name are as their rests.
LEMMA SameFirst ==
  ASSUME NEW p \in Paths, NEW q \in Paths, Nested(p), Nested(q), p[1] = q[1]
  PROVE  (Tail(p) = Tail(q) => p = q) /\ (Below(Tail(p), Tail(q)) => Below(p, q))
<1>1. /\ Len(p) \in Nat /\ Len(q) \in Nat /\ Len(p) > 1 /\ Len(q) > 1
      /\ p = [i \in 1..Len(p) |-> p[i]] /\ q = [i \in 1..Len(q) |-> q[i]]
  BY DEF Paths, Nested
<1>2. /\ Len(Tail(p)) = Len(p) - 1 /\ \A i \in 1..Len(Tail(p)) : Tail(p)[i] = p[i + 1]
      /\ Len(Tail(q)) = Len(q) - 1 /\ \A i \in 1..Len(Tail(q)) : Tail(q)[i] = q[i + 1]
  <2>1. Len(Tail(p)) = Len(p) - 1 /\ \A i \in 1..Len(Tail(p)) : Tail(p)[i] = p[i + 1]
    BY PathParts
  <2>2. Len(Tail(q)) = Len(q) - 1 /\ \A i \in 1..Len(Tail(q)) : Tail(q)[i] = q[i + 1]
    BY PathParts
  <2>3. QED
    BY <2>1, <2>2
<1>3. ASSUME Tail(p) = Tail(q) PROVE p = q
  <2>1. Len(p) = Len(q)
    <3>1. Len(Tail(p)) = Len(Tail(q))
      BY Zenon, <1>3
    <3>2. Len(Tail(p)) = Len(p) - 1 /\ Len(Tail(q)) = Len(q) - 1
      BY <1>2
    <3>3. \A l, m \in Nat : l - 1 = m - 1 => l = m
      OBVIOUS
    <3>4. QED
      BY <1>1, <3>1, <3>2, <3>3
  <2>2. ASSUME NEW i \in 1..Len(p) PROVE p[i] = q[i]
    <3>1. CASE i = 1
      BY <3>1
    <3>2. CASE i # 1
      <4>1. i - 1 \in 1..Len(Tail(p)) /\ (i - 1) + 1 = i
        BY <1>1, <1>2, <3>2
      <4>2. QED
        BY <1>2, <1>3, <4>1
    <3>3. QED
      BY <3>1, <3>2
  <2>3. QED
    BY <1>1, <2>1, <2>2
<1>4. ASSUME Below(Tail(p), Tail(q)) PROVE Below(p, q)
  <2>1. Len(p) > Len(q)
    BY <1>1, <1>2, <1>4 DEF Below
  <2>2. Len(SubSeq(p, 1, Len(q))) = Len(q) /\ \A i \in 1..Len(q) : SubSeq(p, 1, Len(q))[i] = p[i]
    BY <1>1, <2>1 DEF Paths
  <2>3. ASSUME NEW i \in 1..Len(q) PROVE p[i] = q[i]
    <3>1. CASE i = 1
      BY <3>1
    <3>2. CASE i # 1
      <4>1. i - 1 \in 1..Len(Tail(q)) /\ (i - 1) + 1 = i /\ i - 1 \in 1..Len(Tail(p))
        BY <1>1, <1>2, <2>1, <3>2
      <4>2. SubSeq(Tail(p), 1, Len(Tail(q)))[i - 1] = Tail(p)[i - 1]
        BY <1>1, <1>2, <2>1, <4>1, PathParts DEF Paths
      <4>3. Tail(q)[i - 1] = Tail(p)[i - 1]
        BY <1>4, <4>2 DEF Below
      <4>4. QED
        BY <1>2, <4>1, <4>3
    <3>3. QED
      BY <3>1, <3>2
  <2>4. SubSeq(p, 1, Len(q)) = q
    <3>1. SubSeq(p, 1, Len(q)) \in Seq(Names)
      BY <1>1, <2>1 DEF Paths
    <3>2. SubSeq(p, 1, Len(q)) = [i \in 1..Len(q) |-> SubSeq(p, 1, Len(q))[i]]
      BY <2>2, <3>1
    <3>3. QED
      BY <1>1, <2>2, <2>3, <3>2
  <2>5. QED
    BY <2>1, <2>4 DEF Below
<1>5. QED
  BY <1>3, <1>4

\* None of the paths is below another.
Apart(paths) == \A p, q \in paths : ~Below(p, q)

\* An archive that is valid has finitely many documents, none below another.
LEMMA DocumentsApart ==
  ASSUME NEW archive \in Seq(Entries), ValidEntries(archive)
  PROVE  Supported(archive) \subseteq Paths /\ Apart(Supported(archive)) /\ IsFiniteSet(Supported(archive))
<1>1. ASSUME NEW p \in Supported(archive)
      PROVE  \E i \in DOMAIN archive : ~archive[i].dir /\ archive[i].path = p
  BY DEF Supported, ToSet
<1>2. Len(archive) \in Nat /\ DOMAIN archive = 1..Len(archive) /\ \A i \in DOMAIN archive : archive[i] \in Entries
  OBVIOUS
<1>3. Supported(archive) \subseteq Paths
  BY <1>1, <1>2 DEF Paths, Entries
<1>4. Apart(Supported(archive))
  <2> SUFFICES ASSUME NEW p \in Supported(archive), NEW q \in Supported(archive), Below(p, q) PROVE FALSE
    BY DEF Apart
  <2>1. PICK i \in DOMAIN archive : ~archive[i].dir /\ archive[i].path = p
    BY <1>1
  <2>2. PICK k \in DOMAIN archive : ~archive[k].dir /\ archive[k].path = q
    BY <1>1
  <2>3. i # k
    <3>1. Len(p) \in Nat
      BY <1>3 DEF Paths
    <3>2. QED
      BY <2>1, <2>2, <3>1 DEF Below
  <2>4. i \in 1..(k - 1) \/ k \in 1..(i - 1)
    BY <1>2, <2>3
  <2>5. QED
    BY <2>1, <2>2, <2>4 DEF ValidEntries, Conflicts
<1>5. IsFiniteSet(Supported(archive))
  <2> DEFINE some == {i \in DOMAIN archive : archive[i].path \in Supported(archive)}
             path == [i \in some |-> archive[i].path]
  <2>1. IsFiniteSet(some)
    <3>1. IsFiniteSet(1..Len(archive))
      BY <1>2, FS_Interval
    <3>2. some \in SUBSET (1..Len(archive))
      BY <1>2
    <3>3. QED
      BY <3>1, <3>2, FS_Subset
  <2>2. path \in Surjection(some, Supported(archive))
    BY <1>1 DEF Surjection
  <2> HIDE DEF some, path
  <2>3. QED
    BY <2>1, <2>2, FS_Surjection
<1>6. QED
  BY <1>3, <1>4, <1>5

\* In a case item that is accepted either no path is nested or all begin with one name.
LEMMA OneDirectory ==
  ASSUME NEW paths \in SUBSET Paths, ~CaseNamesClash(paths),
         NEW p \in paths, NEW q \in paths, UnitKey(p) = UnitKey(q)
  PROVE  (Nested(p) <=> Nested(q)) /\ (Nested(p) => p[1] = q[1])
<1>1. \A r \in paths : Nested(r) => Stripped[r[1]] # Root
  BY DEF CaseNamesClash
<1>2. Nested(p) <=> Nested(q)
  BY <1>1 DEF UnitKey
<1>3. Nested(p) /\ Nested(q) => p[1] = q[1]
  BY DEF CaseNamesClash
<1>4. QED
  BY <1>2, <1>3

\* Documents of an item are unpacked to places of their own.
LEMMA ItemUnpacks ==
  ASSUME NEW paths \in SUBSET Paths, Apart(paths), NEW target \in {"case", "course"},
         target = "case" => ~CaseNamesClash(paths), NEW docs \in SUBSET paths,
         target = "case" => \A p, q \in docs : UnitKey(p) = UnitKey(q),
         NEW p \in docs, NEW q \in docs
  PROVE  /\ Destination(target, p) = Destination(target, q) => p = q
         /\ ~Below(Destination(target, p), Destination(target, q))
<1>1. ~Below(p, q)
  BY DEF Apart
<1>2. CASE target = "case" /\ Nested(p)
  <2>1. Nested(q) /\ p[1] = q[1]
    BY <1>2, OneDirectory
  <2>2. Destination(target, p) = Tail(p) /\ Destination(target, q) = Tail(q)
    BY <1>2, <2>1 DEF Destination
  <2>3. p \in Paths /\ q \in Paths
    OBVIOUS
  <2>4. (Tail(p) = Tail(q) => p = q) /\ (Below(Tail(p), Tail(q)) => Below(p, q))
    BY <1>2, <2>1, <2>3, SameFirst
  <2>5. QED
    BY <1>1, <2>2, <2>4
<1>3. CASE ~(target = "case" /\ Nested(p))
  <2>1. ~(target = "case" /\ Nested(q))
    BY <1>3, OneDirectory
  <2>2. Destination(target, p) = p /\ Destination(target, q) = q
    BY <1>3, <2>1 DEF Destination
  <2>3. QED
    BY <1>1, <2>2
<1>4. QED
  BY <1>2, <1>3

\* Every upload that is accepted unpacks, whatever its names and their order.
LEMMA ArchiveUnpacks ==
  ASSUME NEW target \in {"case", "course"}, NEW archive \in Seq(Entries)
  PROVE  Unpacks(target, archive)
<1> SUFFICES ASSUME Accepted(target, archive) PROVE Unpacks(target, archive)
  BY DEF Unpacks
<1> DEFINE paths == Supported(archive)
           units == Items(target, paths)
           name(k) == Safe[IF k = Root THEN Stem ELSE k]
<1>1. paths \in SUBSET Paths /\ Apart(paths) /\ IsFiniteSet(paths)
  BY DocumentsApart DEF Accepted
<1>2. target = "case" => ~CaseNamesClash(paths)
  BY DEF Accepted
<1> HIDE DEF paths
<1>3. ASSUME NEW p \in paths PROVE Cardinality({m \in units : p \in m.files}) = 1
  <2>1. CASE target = "course"
    <3>1. units = {[key |-> q, files |-> {q}] : q \in paths}
      BY <2>1 DEF Items
    <3>2. {m \in units : p \in m.files} = {[key |-> p, files |-> {p}]}
      BY <3>1
    <3>3. QED
      BY <3>2, FS_Singleton
  <2>2. CASE target = "case"
    <3> DEFINE item(k) == [key |-> k, files |-> {q \in paths : UnitKey(q) = k}]
    <3>1. units = {item(k) : k \in {UnitKey(q) : q \in paths}}
      BY <2>2 DEF Items
    <3>2. item(UnitKey(p)) \in units /\ p \in item(UnitKey(p)).files
      BY <3>1
    <3>3. \A m \in units : p \in m.files => m = item(UnitKey(p))
      BY <3>1
    <3> HIDE DEF item, units
    <3>4. {m \in units : p \in m.files} = {item(UnitKey(p))}
      BY <3>2, <3>3
    <3>5. QED
      BY <3>4, FS_Singleton
  <2>3. QED
    BY <2>1, <2>2
<1>4. ASSUME NEW m \in units
      PROVE  /\ m.files \subseteq paths
             /\ target = "case" =>
                  /\ \A p, q \in m.files : UnitKey(p) = UnitKey(q)
                  /\ \E p \in m.files : m.key = UnitKey(p)
                  /\ m = [key |-> m.key, files |-> {p \in paths : UnitKey(p) = m.key}]
  BY DEF Items
<1> HIDE DEF units
<1>5. ASSUME NEW m \in units
      PROVE  /\ Cardinality(Unpacked(target, m)) = Cardinality(m.files)
             /\ \A p, q \in Unpacked(target, m) : ~Below(p, q)
  <2> DEFINE f == [p \in m.files |-> Destination(target, p)]
  <2>1. \A p, q \in m.files : /\ Destination(target, p) = Destination(target, q) => p = q
                              /\ ~Below(Destination(target, p), Destination(target, q))
    BY <1>1, <1>2, <1>4, ItemUnpacks
  <2>2. f \in Surjection(m.files, Unpacked(target, m))
    BY DEF Surjection, Unpacked
  <2>3. f \in Injection(m.files, Unpacked(target, m))
    BY <2>1 DEF Injection, IsInjective, Unpacked
  <2> HIDE DEF f
  <2>4. IsFiniteSet(m.files)
    BY <1>1, <1>4, FS_Subset
  <2>5. Cardinality(Unpacked(target, m)) = Cardinality(m.files)
    BY <2>2, <2>3, <2>4, FS_Surjection
  <2>6. QED
    BY <2>1, <2>5 DEF Unpacked
<1>6. ASSUME target = "case", NEW m \in units, NEW n \in units, m # n PROVE name(m.key) # name(n.key)
  <2>1. PICK p \in paths : m.key = UnitKey(p)
    BY <1>4, <1>6
  <2>2. PICK q \in paths : n.key = UnitKey(q)
    BY <1>4, <1>6
  <2>3. UnitKey(p) # UnitKey(q)
    <3> SUFFICES ASSUME UnitKey(p) = UnitKey(q) PROVE FALSE
      OBVIOUS
    <3>1. m.key = n.key
      BY <2>1, <2>2
    <3> DEFINE unit(k) == [key |-> k, files |-> {r \in paths : UnitKey(r) = k}]
    <3>2. m = unit(m.key) /\ n = unit(n.key)
      BY <1>4, <1>6
    <3> HIDE DEF unit
    <3>3. QED
      BY <1>6, <3>1, <3>2
  <2>4. \A r \in paths : (UnitKey(r) = Root) <=> ~Nested(r)
    BY <1>2, <1>6 DEF UnitKey, CaseNamesClash
  <2>5. CASE Nested(p) /\ Nested(q)
    <3>1. p[1] # q[1]
      BY <2>3, <2>5 DEF UnitKey
    <3>2. Safe[UnitKey(p)] # Safe[UnitKey(q)]
      BY <1>2, <1>6, <2>5, <3>1 DEF CaseNamesClash
    <3>3. QED
      BY <2>1, <2>2, <2>4, <2>5, <3>2
  <2>6. CASE ~Nested(p) /\ Nested(q)
    BY <1>2, <1>6, <2>1, <2>2, <2>4, <2>6 DEF CaseNamesClash
  <2>7. CASE Nested(p) /\ ~Nested(q)
    BY <1>2, <1>6, <2>1, <2>2, <2>4, <2>7 DEF CaseNamesClash
  <2>8. QED
    BY <2>3, <2>4, <2>5, <2>6, <2>7
<1>7. QED
  BY <1>3, <1>5, <1>6 DEF Unpacks, paths, units

(***************************************************************************)
(* EventLog                                                                *)
(***************************************************************************)
\* The rows of a log have numbers.
HasNumbers(rows) == IsFiniteSet(rows) /\ \A e \in rows : e.seq \in Nat

\* Rows that are numbered have one that was written last and one that was written first.
LEMMA RowsOrdered ==
  ASSUME NEW rows, HasNumbers(rows), rows # {}
  PROVE  /\ Newest(rows) \in rows /\ \A e \in rows : e.seq <= Newest(rows).seq
         /\ Oldest(rows) \in rows /\ \A e \in rows : Oldest(rows).seq <= e.seq
<1> DEFINE S == {e.seq : e \in rows}
           f == [e \in rows |-> e.seq]
<1>1. S \in SUBSET Nat /\ S # {}
  BY DEF HasNumbers
<1>2. f \in Surjection(rows, S)
  BY DEF Surjection
<1>3. IsFiniteSet(S)
  BY <1>2, FS_Surjection DEF HasNumbers
<1> HIDE DEF S, f
<1>4. PICK max \in S : \A k \in S : k <= max
  BY <1>1, <1>3, LargestExists
<1>5. PICK min \in S : \A k \in S : min <= k
  BY <1>1, <1>3, LargestExists
<1>6. \E e \in rows : \A g \in rows : g.seq <= e.seq
  BY <1>4 DEF S
<1>7. \E e \in rows : \A g \in rows : e.seq <= g.seq
  BY <1>5 DEF S
<1>8. QED
  BY <1>6, <1>7 DEF Newest, Oldest

\* The rows of a log, which are as many as the cap at most; the milestones in it and the time of
\* the last event are those of the counters, until more milestones came than fit.
LogRow == [seq : Nat, type : Compactable \cup Milestones, at : Nat, merged : Nat]

LogInv ==
  /\ clock \in Nat /\ said \in Nat
  /\ log \subseteq LogRow /\ IsFiniteSet(log)
  /\ \A e, f \in log : e.seq = f.seq => e = f
  /\ \A e \in log : e.at <= clock
  /\ Cardinality(log) <= Cap
  /\ said < Cap =>
       /\ Cardinality(OfType(Milestones)) = said
       /\ clock > 0 => \E e \in log : e.at = clock

\* An empty log, and one that holds the start of an attempt.
LEMMA LogStarts ==
  /\ LogInit => LogInv
  /\ log' = {[seq |-> 1, type |-> "attempt_started", at |-> 1, merged |-> 1]} /\ clock' = 1 /\ said' = 1
       => LogInv'
<1>1. LogInit => LogInv
  <2> SUFFICES ASSUME LogInit PROVE LogInv
    OBVIOUS
  <2>1. OfType(Milestones) = {}
    BY DEF LogInit, OfType
  <2>2. QED
    BY <2>1, FS_EmptySet, CapAssumption DEF LogInit, LogInv
<1>2. ASSUME log' = {[seq |-> 1, type |-> "attempt_started", at |-> 1, merged |-> 1]}, clock' = 1, said' = 1
      PROVE  LogInv'
  <2> DEFINE start == [seq |-> 1, type |-> "attempt_started", at |-> 1, merged |-> 1]
  <2>1. start \in LogRow /\ start.type \in Milestones /\ start.at = 1
    BY DEF LogRow, Milestones
  <2>2. OfType(Milestones)' = log'
    BY <1>2, <2>1 DEF OfType
  <2>3. IsFiniteSet(log') /\ Cardinality(log') = 1
    BY <1>2, FS_Singleton
  <2>4. QED
    BY <1>2, <2>1, <2>2, <2>3, CapAssumption DEF LogInv
<1>3. QED
  BY <1>1, <1>2

\* A row is added behind rows that keep every milestone of the log.
LEMMA RowInserted ==
  ASSUME LogInv, NEW type \in Progress \cup Milestones, NEW kept \in SUBSET log,
         OfType(Milestones) \subseteq kept, Cardinality(kept) < Cap,
         log' = Inserted(kept, type), clock' = clock + 1,
         said' = IF type \in Milestones THEN said + 1 ELSE said
  PROVE  LogInv'
<1> DEFINE new == [seq |-> NextSeq(kept), type |-> type, at |-> clock + 1, merged |-> 1]
<1>1. IsFiniteSet(kept) /\ Cardinality(kept) \in Nat /\ HasNumbers(kept)
  BY FS_Subset, FS_CardinalityType DEF LogInv, HasNumbers, LogRow
<1>2. NextSeq(kept) \in Nat /\ \A e \in kept : e.seq < NextSeq(kept)
  <2>1. CASE kept = {}
    BY <2>1 DEF NextSeq
  <2>2. CASE kept # {}
    <3>1. /\ Newest(kept) \in kept /\ \A e \in kept : e.seq <= Newest(kept).seq
          /\ \A e \in kept : e.seq \in Nat
      BY <1>1, <2>2, RowsOrdered DEF HasNumbers
    <3>2. NextSeq(kept) = Newest(kept).seq + 1
      BY <2>2 DEF NextSeq
    <3>3. QED
      BY <3>1, <3>2
  <2>3. QED
    BY <2>1, <2>2
<1>3. /\ new \in LogRow /\ new.seq = NextSeq(kept) /\ new.type = type /\ new.at = clock'
      /\ log' = kept \cup {new}
  BY <1>2 DEF LogInv, LogRow, Compactable, Inserted
<1> HIDE DEF new
<1>4. new \notin kept /\ \A e \in kept : e.seq # new.seq
  BY <1>1, <1>2, <1>3 DEF HasNumbers
<1>5. IsFiniteSet(log') /\ Cardinality(log') = Cardinality(kept) + 1
  BY <1>1, <1>3, <1>4, FS_AddElement
<1>6. OfType(Milestones)' =
        IF type \in Milestones THEN OfType(Milestones) \cup {new} ELSE OfType(Milestones)
  BY <1>3 DEF OfType
<1>7. said' < Cap => said < Cap
  BY CapAssumption DEF LogInv
<1>8. said' < Cap => Cardinality(OfType(Milestones)') = said'
  <2>1. IsFiniteSet(OfType(Milestones)) /\ new \notin OfType(Milestones)
    BY <1>1, <1>4, FS_Subset
  <2>2. said < Cap => Cardinality(OfType(Milestones)) = said
    BY DEF LogInv
  <2>3. CASE type \in Milestones
    <3>1. Cardinality(OfType(Milestones)') = Cardinality(OfType(Milestones)) + 1
      BY <1>6, <2>1, <2>3, FS_AddElement
    <3>2. QED
      BY <1>7, <2>2, <2>3, <3>1
  <2>4. CASE type \notin Milestones
    BY <1>6, <1>7, <2>2, <2>4
  <2>5. QED
    BY <2>3, <2>4
<1>9. /\ clock' \in Nat /\ said' \in Nat /\ log' \subseteq LogRow
      /\ \A e, f \in log' : e.seq = f.seq => e = f
      /\ \E e \in log' : e.at = clock'
  BY <1>3, <1>4 DEF LogInv
<1>10. \A e \in log' : e.at <= clock'
  BY <1>3 DEF LogInv, LogRow
<1>11. QED
  BY <1>5, <1>8, <1>9, <1>10, <1>1, CapAssumption DEF LogInv

\* Progress goes into a row that says nothing else.
LEMMA RowMerged ==
  ASSUME LogInv, NEW row \in log, row.type \in Compactable, log' = Merged(row),
         clock' = clock + 1, said' = said
  PROVE  LogInv'
<1> DEFINE new == [row EXCEPT !.type = "progress_compacted", !.at = clock + 1, !.merged = @ + 1]
<1>1. /\ new \in LogRow /\ new.seq = row.seq /\ new.type \notin Milestones /\ new.at = clock'
      /\ log' = (log \ {row}) \cup {new}
  <2>1. row \in LogRow /\ clock + 1 \in Nat /\ row.merged + 1 \in Nat
    BY DEF LogInv, LogRow
  <2>2. new \in LogRow /\ new.seq = row.seq /\ new.type = "progress_compacted" /\ new.at = clock + 1
    BY <2>1 DEF LogRow, Compactable
  <2>3. log' = (log \ {row}) \cup {new}
    BY DEF Merged
  <2>4. QED
    BY <2>2, <2>3 DEF Milestones
<1> HIDE DEF new
<1>2. new \notin log \ {row} /\ \A e \in log \ {row} : e.seq # new.seq
  BY <1>1 DEF LogInv
<1>3. IsFiniteSet(log') /\ Cardinality(log') = Cardinality(log)
  <2>1. /\ IsFiniteSet(log \ {row}) /\ Cardinality(log \ {row}) = Cardinality(log) - 1
        /\ Cardinality(log) \in Nat
    BY FS_RemoveElement, FS_CardinalityType DEF LogInv
  <2>2. QED
    BY <1>1, <1>2, <2>1, FS_AddElement
<1>4. OfType(Milestones)' = OfType(Milestones)
  <2>1. row.type \notin Milestones
    BY DEF Compactable, Progress, Milestones
  <2>2. QED
    BY <1>1, <2>1 DEF OfType
<1>5. /\ clock' \in Nat /\ said' \in Nat /\ log' \subseteq LogRow
      /\ \A e, f \in log' : e.seq = f.seq => e = f
      /\ \E e \in log' : e.at = clock'
  BY <1>1, <1>2 DEF LogInv
<1>6. \A e \in log' : e.at <= clock'
  BY <1>1 DEF LogInv, LogRow
<1>7. QED
  BY <1>3, <1>4, <1>5, <1>6 DEF LogInv

\* Below the cap a row is added; at the cap one goes that is no milestone, or the
\* milestones fill the log.
LEMMA LogStep ==
  ASSUME LogInv, NEW type \in Progress \cup Milestones, AppendEvent(type)
  PROVE  LogInv'
<1>1. /\ log' = Appended(type) /\ clock' = clock + 1
      /\ said' = IF type \in Milestones THEN said + 1 ELSE said
  BY DEF AppendEvent
<1>2. \A types : HasNumbers(OfType(types)) /\ OfType(types) \subseteq log
  <2> TAKE types
  <2>1. OfType(types) \in SUBSET log
    BY DEF OfType
  <2>2. QED
    BY <2>1, FS_Subset DEF LogInv, LogRow, HasNumbers
<1>3. Cardinality(log) \in Nat
  BY FS_CardinalityType DEF LogInv
<1>4. CASE Cardinality(log) < Cap
  <2>1. log' = Inserted(log, type)
    BY <1>1, <1>4 DEF Appended
  <2>2. QED
    BY <1>1, <1>2, <1>4, <2>1, RowInserted
<1>5. CASE ~(Cardinality(log) < Cap) /\ type \in Progress /\ OfType(Compactable) # {}
  <2>1. \E types \in {{"progress_compacted"}, Progress} : OfType(types) # {} /\ log' = Merged(Newest(OfType(types)))
    BY <1>1, <1>5 DEF Appended, Compactable, OfType
  <2>2. PICK types \in {{"progress_compacted"}, Progress} :
          OfType(types) # {} /\ log' = Merged(Newest(OfType(types)))
    BY <2>1
  <2>3. Newest(OfType(types)) \in OfType(types)
    BY <1>2, <2>2, RowsOrdered
  <2>4. Newest(OfType(types)) \in log /\ Newest(OfType(types)).type \in Compactable
    BY <2>3 DEF OfType, Compactable
  <2>5. said' = said
    BY <1>1, <1>5 DEF Progress, Milestones
  <2>6. QED
    BY <1>1, <2>2, <2>4, <2>5, RowMerged
<1>6. CASE ~(Cardinality(log) < Cap) /\ type \notin Progress /\ OfType(Compactable) # {}
  <2> DEFINE old == Oldest(OfType(Compactable))
  <2>1. log' = Inserted(log \ {old}, type)
    BY <1>1, <1>6 DEF Appended
  <2>2. old \in log /\ old.type \in Compactable
    <3>1. Oldest(OfType(Compactable)) \in OfType(Compactable)
      BY <1>2, <1>6, RowsOrdered
    <3>2. QED
      BY <3>1 DEF OfType
  <2> HIDE DEF old
  <2>3. OfType(Milestones) \subseteq log \ {old}
    BY <2>2 DEF OfType, Compactable, Progress, Milestones
  <2>4. Cardinality(log \ {old}) < Cap
    <3>1. Cardinality(log \ {old}) = Cardinality(log) - 1 /\ Cardinality(log) <= Cap
      BY <2>2, FS_RemoveElement DEF LogInv
    <3>2. QED
      BY <1>3, <3>1, CapAssumption
  <2>5. QED
    BY <1>1, <2>1, <2>3, <2>4, RowInserted
<1>7. CASE ~(Cardinality(log) < Cap) /\ OfType(Compactable) = {}
  <2>1. log' = log
    BY <1>1, <1>7 DEF Appended, OfType, Compactable
  <2>2. OfType(Milestones) = log
    BY <1>7 DEF OfType, LogInv, LogRow
  <2>3. ~(said < Cap)
    BY <1>3, <1>7, <2>2, CapAssumption DEF LogInv
  <2>4. ~(said' < Cap) /\ said' \in Nat /\ clock' \in Nat
    BY <1>1, <2>3, CapAssumption DEF LogInv
  <2>5. \A e \in log' : e.at <= clock'
    BY <1>1, <2>1 DEF LogInv, LogRow
  <2>6. QED
    BY <2>1, <2>4, <2>5 DEF LogInv
<1>8. QED
  BY <1>4, <1>5, <1>6, <1>7

\* What a reader of the log relies on.
LEMMA LogTells == LogInv => LogTellsMilestones
<1> SUFFICES ASSUME LogInv PROVE LogTellsMilestones
  OBVIOUS
<1>1. Cardinality({e.seq : e \in log}) = Cardinality(log)
  <2> DEFINE S == {e.seq : e \in log}
             f == [e \in log |-> e.seq]
  <2>1. f \in Surjection(log, S)
    BY DEF Surjection
  <2>2. f \in Injection(log, S)
    BY DEF Injection, IsInjective, LogInv
  <2> HIDE DEF f, S
  <2>3. Cardinality(S) = Cardinality(log)
    BY <2>1, <2>2, FS_Surjection DEF LogInv
  <2>4. QED
    BY <2>3 DEF S
<1>2. ASSUME said < Cap, clock > 0 PROVE Shown.at = clock
  <2>1. PICK e \in log : e.at = clock
    BY <1>2 DEF LogInv
  <2>2. \A f \in log : f.at <= e.at
    BY <2>1 DEF LogInv
  <2>3. Shown \in log /\ \A f \in log : f.at <= Shown.at
    BY <2>2 DEF Shown
  <2>4. clock <= Shown.at /\ Shown.at <= clock /\ Shown.at \in Nat
    BY <2>1, <2>3 DEF LogInv, LogRow
  <2>5. QED
    BY <2>4 DEF LogInv
<1>3. QED
  BY <1>1, <1>2 DEF LogTellsMilestones, LogInv

(***************************************************************************)
(* IngestionPipeline                                                       *)
(***************************************************************************)
Units(target, archive) == Items(target, Supported(archive))

\* A finite set made a sequence has each of its elements somewhere.
LEMMA SetListed ==
  ASSUME NEW S, IsFiniteSet(S)
  PROVE  SetToSeq(S) \in Seq(S) /\ \A m \in S : \E i \in DOMAIN SetToSeq(S) : SetToSeq(S)[i] = m
<1> DEFINE n == Cardinality(S)
<1>1. n \in Nat /\ IsFiniteSet(1..n) /\ Cardinality(1..n) = n
  BY FS_CardinalityType, FS_Interval
<1>2. PICK g \in Bijection(1..n, S) : TRUE
  BY FS_CardinalityType DEF ExistsBijection
<1>3. \E f \in [1..n -> S] : IsInjective(f)
  BY <1>2 DEF Bijection, Injection
<1>4. SetToSeq(S) \in [1..n -> S] /\ IsInjective(SetToSeq(S))
  BY <1>3 DEF SetToSeq
<1>5. SetToSeq(S) \in Injection(1..n, S)
  BY <1>4 DEF Injection
<1> HIDE DEF n
<1>6. SetToSeq(S) \in Surjection(1..n, S)
  BY <1>1, <1>5, FS_Injection DEF n
<1>7. QED
  BY <1>1, <1>4, <1>6 DEF Surjection

\* The items an upload is read as are a finite set.
LEMMA UnitsFinite ==
  ASSUME NEW target \in {"case", "course"}, NEW archive \in Seq(Entries), ValidEntries(archive)
  PROVE  IsFiniteSet(Units(target, archive))
<1> DEFINE paths == Supported(archive)
<1>1. IsFiniteSet(paths)
  BY DocumentsApart
<1> HIDE DEF paths
<1>2. CASE target = "course"
  <2> DEFINE f == [p \in paths |-> [key |-> p, files |-> {p}]]
  <2>1. Units(target, archive) = {[key |-> p, files |-> {p}] : p \in paths}
    BY <1>2 DEF Units, Items, paths
  <2>2. f \in Surjection(paths, Units(target, archive))
    BY <2>1 DEF Surjection
  <2>3. QED
    BY <1>1, <2>2, FS_Surjection
<1>3. CASE target = "case"
  <2> DEFINE keys == {UnitKey(p) : p \in paths}
             unit(k) == [key |-> k, files |-> {p \in paths : UnitKey(p) = k}]
             f == [p \in paths |-> unit(UnitKey(p))]
  <2>1. Units(target, archive) = {unit(k) : k \in keys}
    BY <1>3 DEF Units, Items, paths
  <2> HIDE DEF unit
  <2>2. f \in Surjection(paths, Units(target, archive))
    BY <2>1 DEF Surjection
  <2>3. QED
    BY <1>1, <2>2, FS_Surjection
<1>4. QED
  BY <1>2, <1>3

\* The items of a job, in the order of their indices.
LEMMA UnitsListed ==
  ASSUME NEW target \in {"case", "course"}, NEW archive \in Seq(Entries)
  PROVE  /\ Preflight(target, archive) \in Seq(Units(target, archive))
         /\ ~Accepted(target, archive) => Preflight(target, archive) = <<>>
         /\ Accepted(target, archive) => \A m \in Units(target, archive) :
              \E i \in DOMAIN Preflight(target, archive) : Preflight(target, archive)[i] = m
<1>1. CASE Accepted(target, archive)
  <2>1. IsFiniteSet(Units(target, archive))
    BY <1>1, UnitsFinite DEF Accepted
  <2>2. Preflight(target, archive) = SetToSeq(Units(target, archive))
    BY <1>1 DEF Preflight, Units
  <2>3. QED
    BY <1>1, <2>1, <2>2, SetListed
<1>2. CASE ~Accepted(target, archive)
  BY <1>2 DEF Preflight
<1>3. QED
  BY <1>1, <1>2

ItemStates == {"pending", "running", "succeeded", "failed", "skipped"}

\* The item has chunks in the batch.
Chunked(i) == \E k \in DOMAIN chunks : chunks[k].item = i

PipeTyped ==
  /\ upload \in Uploads /\ step \in PipeSteps
  /\ items = IF step = "uploaded" THEN <<>> ELSE Preflight(upload.target, upload.archive)
  /\ index \in 0..Len(items)
  /\ shown \in [DOMAIN items -> ItemStates]
  /\ chunks \in Seq([id : ChunkIds, item : DOMAIN items])
  /\ staging \in {"none", "tmp", "final"} /\ attempts \in 0..MaxPrepares

\* Up to where the items are done at each step, and that what is shown as done is
\* in the batch, with ids of its own.
PipeHolds ==
  /\ \A h, k \in DOMAIN chunks : h # k => chunks[h].id # chunks[k].id
  /\ step \in {"items", "batch", "tmp", "returned"} => \A i \in 1..index : shown[i] = "succeeded"
  /\ step \in {"item", "parsed", "emit_failed"} => index # 0 /\ \A i \in 1..(index - 1) : shown[i] = "succeeded"
  /\ step = "begun" => index = 0
  /\ step = "parsed" => Chunked(index)
  /\ step \in {"batch", "tmp", "returned"} => index = Len(items) /\ chunks # <<>>
  /\ step = "returned" => staging = "final"
  /\ step # "failed" => \A i \in DOMAIN items : shown[i] = "succeeded" => Chunked(i)

PipeInv == PipeTyped /\ PipeHolds

\* The items are a sequence, and no entry of the archive is lost on the way to them.
LEMMA ItemsAre ==
  ASSUME upload \in Uploads,
         items = IF step = "uploaded" THEN <<>> ELSE Preflight(upload.target, upload.archive)
  PROVE  Len(items) \in Nat /\ DOMAIN items = 1..Len(items)
<1>1. Preflight(upload.target, upload.archive) \in Seq(Units(upload.target, upload.archive))
  <2>1. upload.target \in {"case", "course"} /\ upload.archive \in Seq(Entries)
    BY PipelineAssumption
  <2>2. \A target \in {"case", "course"}, archive \in Seq(Entries) :
          Preflight(target, archive) \in Seq(Units(target, archive))
    BY UnitsListed
  <2>3. QED
    BY <2>1, <2>2, Zenon
<1>2. items \in Seq(Units(upload.target, upload.archive))
  <2>1. CASE step = "uploaded"
    BY <2>1
  <2>2. CASE step # "uploaded"
    BY <1>1, <2>2
  <2>3. QED
    BY <2>1, <2>2
<1>3. QED
  BY <1>2

\* Before an upload is read there are no items.
LEMMA PipeStarts == PipeInit => PipeInv
<1> SUFFICES ASSUME PipeInit PROVE PipeInv
  OBVIOUS
<1>1. items = <<>> /\ Len(items) = 0 /\ DOMAIN items = {} /\ shown = <<>> /\ DOMAIN chunks = {}
  BY DEF PipeInit
<1>2. shown \in [DOMAIN items -> ItemStates]
  BY <1>1
<1>3. PipeTyped
  BY <1>1, <1>2, PipelineAssumption DEF PipeInit, PipeTyped, PipeSteps
<1>4. PipeHolds
  BY <1>1 DEF PipeInit, PipeHolds
<1>5. QED
  BY <1>3, <1>4 DEF PipeInv

\* Every step of an attempt, and of what comes before and after it, keeps that.
LEMMA PipeKeeps == ASSUME PipeInv, PipeNext PROVE PipeInv'
<1>1. Len(items) \in Nat /\ DOMAIN items = 1..Len(items)
  BY ItemsAre DEF PipeInv, PipeTyped
<1> USE DEF PipeInv, PipeTyped, PipeHolds, PipeGoes, KeepJob, PipeSteps, ItemStates
<1>2. ASSUME PreflightUpload PROVE PipeInv'
  <2>1. /\ items = <<>> /\ index = 0 /\ upload' = upload /\ items' = Preflight(upload.target, upload.archive)
        /\ index' = index /\ chunks' = chunks /\ staging' = staging /\ attempts' = attempts
        /\ shown' = [i \in DOMAIN items' |-> "pending"]
        /\ step' \in {"refused", "failed"}
    BY <1>2 DEF PreflightUpload
  <2>2. chunks = <<>>
    BY <2>1
  <2>3. Len(items') \in Nat
    BY <2>1, PipelineAssumption, UnitsListed
  <2>4. PipeTyped'
    BY <2>1, <2>2, <2>3
  <2>5. PipeHolds'
    BY <2>1, <2>2
  <2>6. QED
    BY <2>4, <2>5
<1>3. ASSUME BeginAttempt PROVE PipeInv'
  <2>1. /\ step = "failed" /\ step' = "begun" /\ index' = 0 /\ chunks' = <<>> /\ staging' = "none"
        /\ shown' = [i \in DOMAIN items |-> "pending"] /\ upload' = upload /\ items' = items
        /\ attempts' = attempts + 1 /\ attempts < MaxPrepares
    BY <1>3 DEF BeginAttempt
  <2>2. attempts' \in 0..MaxPrepares
    BY <2>1, PipelineAssumption
  <2>3. chunks' \in Seq([id : ChunkIds, item : DOMAIN items'])
    BY <2>1
  <2>4. shown' \in [DOMAIN items' -> ItemStates]
    BY <2>1
  <2>5. PipeTyped'
    BY <1>1, <2>1, <2>2, <2>3, <2>4
  <2>6. PipeHolds'
    BY <1>1, <2>1
  <2>7. QED
    BY <2>5, <2>6
<1>4. ASSUME Materialize \/ MaterializeFails PROVE PipeInv'
  <2>1. /\ step = "begun" /\ step' \in {"items", "raising"} /\ index = 0
        /\ UNCHANGED <<upload, items, index, chunks, staging, shown, attempts>>
    BY <1>4 DEF Materialize, MaterializeFails
  <2>2. PipeTyped'
    BY <2>1
  <2>3. 1..index' = {}
    BY <2>1
  <2>4. PipeHolds'
    BY <2>1, <2>3 DEF Chunked
  <2>5. QED
    BY <2>2, <2>4
<1>5. ASSUME StartItem \/ StartItemFails PROVE PipeInv'
  <2>1. /\ step = "items" /\ index < Len(items) /\ step' \in {"item", "raising"} /\ index' = index + 1
        /\ UNCHANGED <<upload, items, chunks, staging, attempts>>
        /\ \/ shown' = [shown EXCEPT ![index'] = "running"]
           \/ shown' = shown /\ step' = "raising"
    BY <1>5 DEF StartItem, StartItemFails, SetShown
  <2>2. index' \in 1..Len(items) /\ index' - 1 = index
    BY <1>1, <2>1
  <2>3. PipeTyped'
    <3>1. shown' \in [DOMAIN items -> ItemStates]
      BY <2>1
    <3>2. index' \in 0..Len(items)
      BY <1>1, <2>2
    <3>3. QED
      BY <2>1, <3>1, <3>2
  <2>4. \A i \in DOMAIN items : shown'[i] = "succeeded" => shown[i] = "succeeded"
    BY <2>1
  <2>5. step' = "item" => \A i \in 1..(index' - 1) : shown'[i] = "succeeded"
    BY <1>1, <2>1, <2>2
  <2>6. PipeHolds'
    BY <2>1, <2>2, <2>4, <2>5 DEF Chunked
  <2>7. QED
    BY <2>3, <2>6
<1>6. ASSUME ParseItem \/ ParseItemFails PROVE PipeInv'
  <2>1. /\ step = "item" /\ UNCHANGED <<upload, items, index, staging, shown, attempts>>
        /\ index \in DOMAIN items
    BY <1>1, <1>6 DEF ParseItem, ParseItemFails
  <2>2. CASE step' = "emit_failed" /\ chunks' = chunks
    BY <2>1, <2>2 DEF Chunked
  <2>3. CASE step' = "parsed" /\ \E ids \in Yields :
               ValidItemChunks(ids) /\ chunks' = chunks \o [k \in DOMAIN ids |-> [id |-> ids[k], item |-> index]]
    <3>1. PICK ids \in Yields : ValidItemChunks(ids)
                 /\ chunks' = chunks \o [k \in DOMAIN ids |-> [id |-> ids[k], item |-> index]]
      BY <2>3
    <3>2. PICK n \in 0..MaxChunks : ids \in [1..n -> ChunkIds]
      BY DEF Yields
    <3> DEFINE new == [k \in 1..n |-> [id |-> ids[k], item |-> index]]
               Rec == [id : ChunkIds, item : DOMAIN items]
               old == Len(chunks)
    <3>3. n \in Nat /\ new \in Seq(Rec) /\ Len(new) = n /\ chunks' = chunks \o new /\ old \in Nat
          /\ chunks \in Seq(Rec) /\ DOMAIN chunks = 1..old
      BY <2>1, <3>1, <3>2, PipelineAssumption
    <3>4. /\ chunks' \in Seq(Rec) /\ Len(chunks') = old + n /\ DOMAIN chunks' = 1..(old + n)
          /\ \A k \in 1..old : chunks'[k] = chunks[k]
          /\ \A k \in (old + 1)..(old + n) : chunks'[k] = new[k - old] /\ k - old \in 1..n
      BY <3>3
    <3>5. /\ \A k \in 1..n : new[k].id = ids[k] /\ new[k].item = index /\ ids[k] \in ToSet(ids)
          /\ \A h, k \in 1..n : h # k => ids[h] # ids[k]
          /\ n # 0
      <4>1. ids # <<>> /\ DOMAIN ids = 1..n
        BY <3>1, <3>2 DEF ValidItemChunks
      <4>2. n # 0
        BY <3>2, <4>1
      <4>3. \A k \in 1..n : ids[k] \in ToSet(ids)
        BY <4>1 DEF ToSet
      <4>4. \A h, k \in 1..n : h # k => ids[h] # ids[k]
        BY <3>1, <4>1 DEF ValidItemChunks, Distinct
      <4>5. QED
        BY <4>2, <4>3, <4>4
    <3>0. \A h, k \in 1..old : h # k => chunks[h].id # chunks[k].id
      BY <3>3
    <3>6. \A h \in 1..old, k \in 1..n : chunks[h].id # new[k].id
      <4>1. \A h \in 1..old : chunks[h].id \in Taken
        BY <3>3 DEF Taken
      <4>2. \A k \in 1..n : new[k].id \in ToSet(ids)
        BY <3>5
      <4>3. ToSet(ids) \cap Taken = {}
        BY <3>1 DEF ValidItemChunks
      <4> HIDE DEF new, old
      <4>4. QED
        BY <4>1, <4>2, <4>3
    <3> HIDE DEF new, Rec, old
    <3>7. ASSUME NEW h \in DOMAIN chunks', NEW k \in DOMAIN chunks', h # k PROVE chunks'[h].id # chunks'[k].id
      <4>1. h \in 1..old \/ h \in (old + 1)..(old + n)
        BY <3>3, <3>4
      <4>2. k \in 1..old \/ k \in (old + 1)..(old + n)
        BY <3>3, <3>4
      <4>3. CASE h \in 1..old /\ k \in 1..old
        BY <3>0, <3>4, <3>7, <4>3
      <4>4. CASE h \in 1..old /\ k \in (old + 1)..(old + n)
        BY <3>4, <3>6, <4>4
      <4>5. CASE h \in (old + 1)..(old + n) /\ k \in 1..old
        BY <3>4, <3>6, <4>5
      <4>6. CASE h \in (old + 1)..(old + n) /\ k \in (old + 1)..(old + n)
        <5>1. h - old # k - old
          BY <3>3, <3>7, <4>6
        <5>2. chunks'[h].id = ids[h - old] /\ chunks'[k].id = ids[k - old]
          BY <3>4, <3>5, <4>6
        <5>3. QED
          BY <3>4, <3>5, <4>6, <5>1, <5>2
      <4>7. QED
        BY <4>1, <4>2, <4>3, <4>4, <4>5, <4>6
    <3>8. chunks'[old + 1].item = index /\ old + 1 \in DOMAIN chunks'
      BY <3>3, <3>4, <3>5
    <3>9. \A i : Chunked(i) => Chunked(i)'
      <4>1. 1..old \subseteq DOMAIN chunks'
        BY <3>3, <3>4
      <4>2. QED
        BY <3>3, <3>4, <4>1 DEF Chunked
    <3>10. PipeTyped'
      BY <2>1, <2>3, <3>4 DEF Rec
    <3>11. Chunked(index)'
      BY <2>1, <3>8 DEF Chunked
    <3>12. PipeHolds'
      BY <2>1, <2>3, <3>7, <3>9, <3>11
    <3>13. QED
      BY <3>10, <3>12
  <2>4. QED
    BY <1>6, <2>2, <2>3 DEF ParseItem, ParseItemFails
<1>7. ASSUME CompleteItem \/ CompleteItemFails PROVE PipeInv'
  <2>1. /\ step = "parsed" /\ step' \in {"items", "raising"}
        /\ UNCHANGED <<upload, items, index, chunks, staging, attempts>>
        /\ \/ shown' = [shown EXCEPT ![index] = "succeeded"]
           \/ shown' = shown /\ step' = "raising"
    BY <1>7 DEF CompleteItem, CompleteItemFails, SetShown
  <2>2. index \in 1..Len(items) /\ index \in DOMAIN items /\ Chunked(index) /\ (\A i : Chunked(i)' <=> Chunked(i))
    BY <1>1, <2>1 DEF Chunked
  <2>3. PipeTyped'
    <3>1. shown' \in [DOMAIN items -> ItemStates]
      BY <2>1
    <3>2. QED
      BY <2>1, <3>1
  <2>4. \A i \in DOMAIN items : shown'[i] = "succeeded" => Chunked(i)
    BY <2>1, <2>2
  <2>5. step' = "items" => \A i \in 1..index : shown'[i] = "succeeded"
    <3>1. ASSUME step' = "items", NEW i \in 1..index PROVE shown'[i] = "succeeded"
      <4>1. i = index \/ i \in 1..(index - 1)
        BY <1>1, <2>2
      <4>2. i \in DOMAIN items
        BY <1>1, <2>2
      <4>3. QED
        BY <2>1, <2>2, <3>1, <4>1, <4>2
    <3>2. QED
      BY <3>1
  <2>6. PipeHolds'
    BY <2>1, <2>2, <2>4, <2>5
  <2>7. QED
    BY <2>3, <2>6
<1>8. ASSUME EmitFailure \/ EmitFailureFails PROVE PipeInv'
  BY <1>1, <1>8 DEF EmitFailure, EmitFailureFails, SetShown, Chunked
<1>9. ASSUME ItemsEnd PROVE PipeInv'
  BY <1>1, <1>9 DEF ItemsEnd, Chunked
<1>10. ASSUME WriteStaging \/ PublishStaging \/ PublishStagingFails PROVE PipeInv'
  BY <1>1, <1>10 DEF WriteStaging, PublishStaging, PublishStagingFails, Chunked
<1>11. ASSUME Raise \/ RaiseUncleared PROVE PipeInv'
  BY <1>1, <1>11 DEF Raise, RaiseUncleared, Chunked
<1>12. ASSUME FailJob PROVE PipeInv'
  BY <1>1, <1>12 DEF FailJob, ClosedItem, Chunked
<1>13. QED
  BY <1>2, <1>3, <1>4, <1>5, <1>6, <1>7, <1>8, <1>9, <1>10, <1>11, <1>12 DEF PipeNext

\* The log keeps what is said of it: every step appends one event, or none, or
\* begins the log of a new attempt.
LEMMA PipeLogs == ASSUME LogInv, [PipeNext]_pipeVars PROVE LogInv'
<1> USE DEF Quiet
<1>1. CASE UNCHANGED logVars
  BY <1>1 DEF logVars, LogInv, OfType
<1>2. CASE BeginAttempt
  BY <1>2, LogStarts DEF BeginAttempt
<1>3. ASSUME NEW type \in Progress \cup Milestones, AppendEvent(type) PROVE LogInv'
  BY <1>3, LogStep
<1>4. CASE PipeNext
  BY <1>1, <1>2, <1>3, <1>4
     DEF PipeNext, PreflightUpload, Materialize, MaterializeFails, StartItem, StartItemFails, ParseItem,
         ParseItemFails, CompleteItem, CompleteItemFails, EmitFailure, EmitFailureFails, ItemsEnd, WriteStaging,
         PublishStaging, PublishStagingFails, Raise, RaiseUncleared, FailJob, Progress, Milestones
<1>5. QED
  BY <1>1, <1>4 DEF pipeVars, logVars

\* The inductive invariant of the pipeline, its log included.
LEMMA PipeInvCorrect == PipeSpec => []PipeInv /\ []LogInv
<1>1. PipeInit => PipeInv /\ LogInv
  BY PipeStarts, LogStarts DEF PipeInit
<1>2. PipeInv /\ [PipeNext]_pipeVars => PipeInv'
  <2>1. ASSUME PipeInv, UNCHANGED pipeVars PROVE PipeInv'
    BY <2>1 DEF pipeVars, PipeInv, PipeTyped, PipeHolds, Chunked
  <2>2. QED
    BY <2>1, PipeKeeps
<1>3. LogInv /\ [PipeNext]_pipeVars => LogInv'
  BY PipeLogs
<1>4. QED
  BY <1>1, <1>2, <1>3, PTL DEF PipeSpec

\* The variables of the pipeline keep their types.
THEOREM PipeTypeCorrect == PipeSpec => []PipeTypeOK
<1>1. PipeInv => PipeTypeOK
  BY DEF PipeInv, PipeTyped, PipeTypeOK, ItemStates
<1>2. QED
  BY <1>1, PipeInvCorrect, PTL

\* The log of an attempt tells every milestone and the latest progress, at the cap
\* as below it, for any cap.
THEOREM LogTellsMilestonesCorrect == PipeSpec => []LogTellsMilestones
  BY LogTells, PipeInvCorrect, PTL

\* Every upload preflight accepts is unpacked without loss, whatever is in it.
THEOREM UploadUnpacksCorrect == PipeSpec => []UploadUnpacks
<1>1. PipeInv => UploadUnpacks
  BY PipelineAssumption, ArchiveUnpacks DEF PipeInv, PipeTyped, UploadUnpacks
<1>2. QED
  BY <1>1, PipeInvCorrect, PTL

\* What prepare returns holds chunks of every document, each id once, and the user
\* sees an item as done only if it has chunks in the attempt's batch.
THEOREM PreparedWholeCorrect == PipeSpec => []PreparedWhole
<1>1. PipeInv => PreparedWhole
  <2> SUFFICES ASSUME PipeInv PROVE PreparedWhole
    OBVIOUS
  <2>1. Len(items) \in Nat /\ DOMAIN items = 1..Len(items)
    BY ItemsAre DEF PipeInv, PipeTyped
  <2>2. ASSUME step = "returned"
        PROVE  /\ staging = "final" /\ \A i \in DOMAIN items : shown[i] = "succeeded" /\ Chunked(i)
               /\ Distinct([k \in DOMAIN chunks |-> chunks[k].id])
    BY <2>1, <2>2 DEF PipeInv, PipeTyped, PipeHolds, Distinct
  <2>3. ASSUME step = "returned", NEW p \in Supported(upload.archive)
        PROVE  \E k \in DOMAIN chunks : p \in items[chunks[k].item].files
    <3>1. upload.target \in {"case", "course"} /\ upload.archive \in Seq(Entries)
      BY PipelineAssumption DEF PipeInv, PipeTyped
    <3>2. items = Preflight(upload.target, upload.archive) /\ items # <<>>
      BY <2>3 DEF PipeInv, PipeTyped, PipeHolds
    <3>3. Accepted(upload.target, upload.archive)
      <4>1. ~Accepted(upload.target, upload.archive) => Preflight(upload.target, upload.archive) = <<>>
        BY <3>1, UnitsListed
      <4>2. QED
        BY <3>2, <4>1
    <3>4. \E m \in Units(upload.target, upload.archive) : p \in m.files
      <4>1. CASE upload.target = "course"
        <5>1. [key |-> p, files |-> {p}] \in Units(upload.target, upload.archive)
          BY <2>3, <4>1 DEF Units, Items
        <5>2. QED
          BY <5>1
      <4>2. CASE upload.target = "case"
        <5> DEFINE unit(k) == [key |-> k, files |-> {q \in Supported(upload.archive) : UnitKey(q) = k}]
        <5>1. unit(UnitKey(p)) \in Units(upload.target, upload.archive) /\ p \in unit(UnitKey(p)).files
          BY <2>3, <4>2 DEF Units, Items
        <5>2. QED
          BY <5>1
      <4>3. QED
        BY <3>1, <4>1, <4>2
    <3>5. PICK i \in DOMAIN items : p \in items[i].files
      BY <3>1, <3>2, <3>3, <3>4, UnitsListed
    <3>6. QED
      BY <2>2, <2>3, <3>5 DEF Chunked
  <2>4. step # "failed" => \A i \in DOMAIN items : shown[i] = "succeeded" => Chunked(i)
    BY DEF PipeInv, PipeHolds
  <2>5. QED
    BY <2>2, <2>3, <2>4 DEF PreparedWhole, Chunked
<1>2. QED
  BY <1>1, PipeInvCorrect, PTL

(***************************************************************************)
(* DirectoryIndexer                                                        *)
(***************************************************************************)
Untouched == {"load", "build", "lock", "rename_old", "drop_old"}
Swapping == {"rename_old", "rename_new", "drop_backup", "restore"}
UnderLock == Swapping \cup {"drop_old", "ensure", "upsert"}

\* The content of before, and nothing of the new one.
HoldsOld(name) ==
  /\ initial \subseteq coll[name].rows /\ coll[name].rows \cap NewRows = {}
  /\ initial # {} => coll[name].exists
BackupOld == HoldsOld("backup") /\ coll.backup.exists
HoldsNew == NewRows \subseteq coll.target.rows /\ coll.target.rows \cap OldRows = {}

CollNames == {"target", "staging", "backup"}
CollTyped ==
  /\ DOMAIN coll = CollNames
  /\ \A name \in CollNames :
       coll[name].exists \in BOOLEAN /\ coll[name].rows \subseteq OldRows \cup NewRows \cup {WebRow}

DirTyped ==
  /\ files \in Directories /\ task \in {"swap", "rebuild", "incremental"} /\ initial \in {{}, OldRows}
  /\ CollTyped
  /\ next \in 0..Len(files) /\ existed \in BOOLEAN /\ unclear \in BOOLEAN
  /\ holder \in {"free", "command", "web"} /\ web \in {"idle", "locked", "done"}

\* The lock is held for the steps between its taking and its release.
LockHeld ==
  /\ (doing \in UnderLock) <=> (holder = "command")
  /\ (web = "locked") <=> (holder = "web")
  /\ doing \in Swapping => task = "swap"
  /\ task = "swap" => doing \in Swapping \cup {"load", "build", "lock", "drop_staging", "done"}
  /\ doing \in {"build", "drop_staging"} => task = "swap"
  /\ doing = "drop_old" => task = "rebuild"
  /\ doing \in {"ensure", "upsert"} => task # "swap"

\* What the collections hold at each step of the command.
StepHolds ==
  /\ doing \in Untouched => HoldsOld("target")
  /\ task = "swap" /\ doing \in {"lock", "rename_old", "rename_new"} => coll.staging.rows = NewRows
  /\ doing \in Swapping /\ initial # {} => existed
  /\ doing = "rename_old" => existed = coll.target.exists
  /\ doing \in {"rename_new", "restore"} /\ existed => BackupOld
  /\ doing = "rename_new" => ~coll.target.exists
  /\ doing = "restore" /\ ~unclear => ~coll.target.exists
  /\ doing = "restore" /\ coll.target.exists => HoldsNew
  /\ doing = "drop_backup" => HoldsNew
  /\ doing \in {"ensure", "upsert"} /\ task = "rebuild" => coll.target.rows \cap OldRows = {}

\* What they hold by what the command has told.
ToldHolds ==
  /\ (doing \in {"drop_staging", "done"}) <=> (told # "none")
  /\ told = "refused" => HoldsOld("target")
  /\ told = "no_backup" => HoldsOld("target") \/ (unclear /\ HoldsOld("backup"))
  /\ told = "kept" /\ initial # {} => HoldsOld("target")
  /\ told = "rename_backup" => BackupOld \/ (unclear /\ HoldsOld("target"))
  /\ told \in {"ok", "delete_backup"} => NewRows \subseteq coll.target.rows
  /\ told \in {"ok", "delete_backup"} /\ task # "incremental" => HoldsNew
  /\ task = "swap" /\ told = "killed" /\ initial # {} => HoldsOld("target") \/ HoldsOld("backup") \/ HoldsNew
  /\ task = "swap" => told \in {"none", "refused", "no_backup", "kept", "rename_backup", "ok", "delete_backup", "killed"}

DirInv == DirTyped /\ LockHeld /\ StepHolds /\ ToldHolds

\* What a write and a rename do to the collections.
LEMMA RowsAdded ==
  ASSUME CollTyped, NEW name \in CollNames, NEW rows \in SUBSET (NewRows \cup {WebRow}), UNCHANGED files,
         Written(name, rows)
  PROVE  /\ CollTyped' /\ coll'[name].exists /\ coll'[name].rows = coll[name].rows \cup rows
         /\ \A other \in CollNames \ {name} : coll'[other] = coll[other]
<1>1. /\ DOMAIN coll' = CollNames /\ coll'[name].exists /\ coll'[name].exists \in BOOLEAN
      /\ coll'[name].rows = coll[name].rows \cup rows
      /\ \A other \in CollNames \ {name} : coll'[other] = coll[other]
  BY DEF CollTyped, Written
<1>2. NewRows' = NewRows
  BY DEF NewRows
<1>3. CollTyped'
  BY <1>1, <1>2 DEF CollTyped
<1>4. QED
  BY <1>1, <1>3

\* A rename carries a collection to its new name and leaves nothing under the old one.
LEMMA NameMoved ==
  ASSUME CollTyped, NEW from \in CollNames, NEW to \in CollNames, from # to, UNCHANGED files, Renamed(from, to)
  PROVE  /\ CollTyped' /\ coll'[to] = coll[from] /\ coll'[from] = Absent /\ ~coll'[from].exists
         /\ \A other \in CollNames \ {from, to} : coll'[other] = coll[other]
<1>1. /\ DOMAIN coll' = CollNames /\ coll'[to] = coll[from] /\ coll'[from] = Absent
      /\ \A other \in CollNames \ {from, to} : coll'[other] = coll[other]
  BY DEF CollTyped, Renamed
<1>2. NewRows' = NewRows
  BY DEF NewRows
<1>3. Absent.exists = FALSE /\ Absent.rows = {}
  BY DEF Absent
<1>4. CollTyped'
  BY <1>1, <1>2, <1>3 DEF CollTyped
<1>5. QED
  BY <1>1, <1>3, <1>4

\* A collection with the content of another holds what that held.
LEMMA SameContent ==
  ASSUME UNCHANGED <<files, initial>>, NEW was \in CollNames, NEW name \in CollNames, coll'[name] = coll[was]
  PROVE  NewRows' = NewRows /\ (HoldsOld(was) => HoldsOld(name)')
BY DEF NewRows, HoldsOld

\* The target holds what it held as long as nobody writes it.
LEMMA TargetKept ==
  ASSUME UNCHANGED <<files, initial>>, coll'["target"] = coll["target"]
  PROVE  /\ NewRows' = NewRows /\ (HoldsNew => HoldsNew') /\ (HoldsOld("target") => HoldsOld("target")')
BY SameContent DEF NewRows, HoldsNew, CollNames

\* The backup holds what it held as long as nobody writes it.
LEMMA BackupKept ==
  ASSUME UNCHANGED <<files, initial>>, coll'["backup"] = coll["backup"]
  PROVE  (BackupOld => BackupOld') /\ (HoldsOld("backup") => HoldsOld("backup")')
BY SameContent DEF BackupOld, CollNames

\* No row of the files is an old one or the web service's.
LEMMA RowsApart ==
  ASSUME DirTyped, DirectoryAssumption
  PROVE  /\ NewRows \cap OldRows = {} /\ WebRow \notin NewRows /\ WebRow \notin OldRows
         /\ Len(files) \in Nat /\ DOMAIN files = 1..Len(files)
<1>1. files \in Directories
  BY DEF DirTyped
<1>2. \A k \in DOMAIN files : files[k].id \notin OldRows \cup {WebRow}
  BY <1>1, DirectoryAssumption
<1>3. QED
  BY <1>1, <1>2, DirectoryAssumption DEF NewRows

\* The first step: the files are read.
LEMMA DirLoad ==
  ASSUME DirInv, Load PROVE DirInv'
<1> USE DEF DirInv, Load, Holding, Given, Ends
<1>1. coll' = coll /\ files' = files /\ initial' = initial /\ NewRows' = NewRows
  BY DEF NewRows
<1>2. DirTyped'
  BY <1>1 DEF DirTyped, CollTyped
<1>3. LockHeld'
  BY DEF LockHeld, UnderLock, Swapping
<1>4. HoldsOld("target")' /\ told = "none"
  BY <1>1 DEF StepHolds, ToldHolds, Untouched, HoldsOld
<1>5. task' = task /\ (doing' = "build" \/ (doing' = "lock" /\ task # "swap") \/ (doing' = "done" /\ told' = "refused"))
  BY DEF DirTyped
<1>6. StepHolds'
  BY <1>4, <1>5 DEF StepHolds, Untouched, Swapping
<1>7. ToldHolds'
  BY <1>4, <1>5 DEF ToldHolds
<1>8. QED
  BY <1>2, <1>3, <1>6, <1>7
\* A step that only moves on: what is held stays, what is told is added.
LEMMA DirMoves ==
  ASSUME DirInv, DirectoryAssumption, UNCHANGED <<coll, files, initial>>
  PROVE  CollTyped' /\ NewRows' = NewRows
         /\ HoldsOld("target")' = HoldsOld("target") /\ HoldsOld("backup")' = HoldsOld("backup")
         /\ BackupOld' = BackupOld /\ HoldsNew' = HoldsNew
<1>1. NewRows' = NewRows
  BY DEF NewRows
<1>2. CollTyped'
  BY <1>1 DEF DirInv, DirTyped, CollTyped
<1>3. HoldsOld("target")' = HoldsOld("target") /\ HoldsOld("backup")' = HoldsOld("backup")
  BY <1>1 DEF HoldsOld
<1>4. HoldsNew' = HoldsNew
  BY <1>1 DEF HoldsNew
<1>5. BackupOld' = BackupOld
  BY <1>3 DEF BackupOld
<1>6. QED
  BY <1>1, <1>2, <1>3, <1>4, <1>5

\* Counting the rows of staging, and a file that cannot be embedded, leave every
\* collection as it was.
LEMMA DirCheck ==
  ASSUME DirInv, DirectoryAssumption, CheckStaging \/ CheckStagingFails \/ EmbedAllFails PROVE DirInv'
<1> USE DEF DirInv, CheckStaging, CheckStagingFails, EmbedAllFails, Holding, Given, Ends, DirGoes
<1>1. UNCHANGED <<coll, files, initial, task, next, existed, unclear, holder, web>>
  OBVIOUS
<1>2. CollTyped' /\ NewRows' = NewRows
         /\ HoldsOld("target")' = HoldsOld("target") /\ HoldsOld("backup")' = HoldsOld("backup")
         /\ BackupOld' = BackupOld /\ HoldsNew' = HoldsNew
  BY <1>1, DirMoves
<1>3. DirTyped'
  BY <1>1, <1>2 DEF DirTyped
<1>4. HoldsOld("target") /\ told = "none" /\ ((doing = "build" /\ task = "swap") \/ (doing = "lock" /\ task # "swap"))
  <2>1. (doing = "build" /\ task = "swap") \/ (doing = "lock" /\ task # "swap")
    BY DEF LockHeld
  <2>2. HoldsOld("target")
    BY <2>1 DEF StepHolds, Untouched
  <2>3. told = "none"
    BY <2>1 DEF ToldHolds
  <2>4. QED
    BY <2>1, <2>2, <2>3
<1>5. \/ doing' = "lock" /\ told' = told /\ task = "swap" /\ coll.staging.rows = NewRows
      \/ doing' = "drop_staging" /\ told' = "refused" /\ task = "swap"
      \/ doing' = "done" /\ told' = "refused"
  BY <1>4
<1>6. LockHeld'
  BY <1>1, <1>4, <1>5 DEF LockHeld, UnderLock, Swapping
<1>7. StepHolds'
  BY <1>1, <1>2, <1>4, <1>5 DEF StepHolds, Untouched, Swapping
<1>8. ToldHolds'
  BY <1>1, <1>2, <1>4, <1>5 DEF ToldHolds
<1>9. QED
  BY <1>3, <1>6, <1>7, <1>8

\* A batch goes to staging, or to the target where there is no swap, and
\* a staging collection that is dropped takes nothing else with it.
LEMMA DirBuild ==
  ASSUME DirInv, DirectoryAssumption, WriteBatch \/ WriteBatchFails \/ DropStaging PROVE DirInv'
<1> USE DEF DirInv, WriteBatch, WriteBatchFails, DropStaging, Holding, Given, Ends, DirGoes
<1>1. /\ UNCHANGED <<files, initial, task, existed, unclear, holder, web>> /\ NewRows' = NewRows
      /\ (doing \in {"build", "drop_staging"}) /\ next' \in 0..Len(files)
  <2>1. Len(files) \in Nat
    BY RowsApart
  <2>2. QED
    BY <2>1 DEF DirTyped, NewRows
<1>2. /\ CollTyped' /\ coll'["target"] = coll["target"] /\ coll'["backup"] = coll["backup"]
  <2>1. CollTyped /\ "staging" \in CollNames /\ UNCHANGED files
    BY DEF DirTyped, CollNames
  <2>2. CASE UNCHANGED coll
    BY <1>1, <2>1, <2>2 DEF CollTyped
  <2>3. CASE \E rows \in SUBSET (NewRows \cup {WebRow}) : Written("staging", rows)
    BY <2>1, <2>3, RowsAdded DEF CollNames
  <2>4. CASE \E left \in {coll.staging, Absent} : coll' = [coll EXCEPT !.staging = left]
    <3>1. PICK left \in {coll.staging, Absent} : coll' = [coll EXCEPT !.staging = left]
      BY <2>4
    <3>2. left.exists \in BOOLEAN /\ left.rows \subseteq OldRows \cup NewRows \cup {WebRow}
      <4>1. CASE left = coll["staging"]
        BY <2>1, <4>1 DEF CollTyped
      <4>2. CASE left = Absent
        BY <4>2 DEF Absent
      <4>3. QED
        BY <4>1, <4>2
    <3>3. /\ DOMAIN coll' = CollNames /\ coll'["staging"] = left
          /\ coll'["target"] = coll["target"] /\ coll'["backup"] = coll["backup"]
      BY <2>1, <3>1 DEF CollTyped, CollNames
    <3>4. QED
      BY <1>1, <2>1, <3>2, <3>3 DEF CollTyped, CollNames
  <2>5. next < Len(files) => {files[next + 1].id} \in SUBSET (NewRows \cup {WebRow})
    BY RowsApart DEF DirTyped, NewRows
  <2>6. QED
    BY <2>2, <2>3, <2>4, <2>5
<1>3. /\ HoldsOld("target") => HoldsOld("target")'
      /\ HoldsOld("backup") => HoldsOld("backup")'
      /\ BackupOld => BackupOld'
      /\ HoldsNew => HoldsNew'
  BY <1>1, <1>2, TargetKept, BackupKept
<1>4. DirTyped'
  BY <1>1, <1>2 DEF DirTyped
<1>5. \/ doing = "build" /\ doing' = "build" /\ told' = told
      \/ doing = "build" /\ doing' = "drop_staging" /\ told' = "refused"
      \/ doing = "drop_staging" /\ doing' = "done" /\ told' = told
  OBVIOUS
<1>6. task = "swap" /\ (doing = "build" => HoldsOld("target") /\ told = "none") /\ (doing = "drop_staging" => told # "none")
  <2>1. task = "swap"
    BY <1>5 DEF LockHeld
  <2>2. doing = "build" => HoldsOld("target")
    BY DEF StepHolds, Untouched
  <2>3. (doing = "build" => told = "none") /\ (doing = "drop_staging" => told # "none")
    BY DEF ToldHolds
  <2>4. QED
    BY <2>1, <2>2, <2>3
<1>7. LockHeld'
  BY <1>1, <1>5 DEF LockHeld, UnderLock, Swapping
<1>8. StepHolds'
  BY <1>1, <1>3, <1>5, <1>6 DEF StepHolds, Untouched, Swapping
<1>9. ToldHolds'
  <2>1. CASE doing = "build"
    BY <1>1, <1>3, <1>5, <1>6, <2>1 DEF ToldHolds
  <2>2. CASE doing = "drop_staging"
    <3>1. told' = told /\ doing' = "done"
      BY <1>5, <2>2
    <3>2. NewRows \subseteq coll.target.rows => NewRows' \subseteq coll'.target.rows
      BY <1>1, <1>2
    <3>3. QED
      BY <1>1, <1>3, <1>6, <2>2, <3>1, <3>2 DEF ToldHolds
  <2>3. QED
    BY <1>5, <2>1, <2>2
<1>10. QED
  BY <1>4, <1>7, <1>8, <1>9

\* What the swap decides on is the target it sees under the lock.
LEMMA DirLocks ==
  ASSUME DirInv, DirectoryAssumption, TakeLock PROVE DirInv'
<1> USE DEF DirInv, TakeLock, Given
<1>1. UNCHANGED <<coll, files, initial, task, next, unclear, web, told>> /\ existed' = coll.target.exists
  OBVIOUS
<1>2. CollTyped' /\ NewRows' = NewRows
         /\ HoldsOld("target")' = HoldsOld("target") /\ HoldsOld("backup")' = HoldsOld("backup")
         /\ BackupOld' = BackupOld /\ HoldsNew' = HoldsNew
  BY <1>1, DirMoves
<1>3. holder = "free" /\ holder' = "command" /\ doing = "lock"
  OBVIOUS
<1>4. \/ task = "swap" /\ doing' = "rename_old"
      \/ task = "rebuild" /\ doing' = "drop_old"
      \/ task = "incremental" /\ doing' = "ensure"
  BY DEF DirTyped
<1>5. coll.target.exists \in BOOLEAN
  BY DEF DirTyped, CollTyped, CollNames
<1>6. DirTyped'
  BY <1>1, <1>2, <1>3, <1>5 DEF DirTyped
<1>7. LockHeld'
  BY <1>1, <1>3, <1>4 DEF LockHeld, UnderLock, Swapping
<1>8. HoldsOld("target") /\ told = "none"
  <2>1. HoldsOld("target")
    BY <1>3 DEF StepHolds, Untouched
  <2>2. told = "none"
    BY <1>3 DEF ToldHolds
  <2>3. QED
    BY <2>1, <2>2
<1>9. StepHolds'
  <2>1. initial # {} => coll.target.exists
    BY <1>8 DEF HoldsOld
  <2>2. task = "swap" => coll.staging.rows = NewRows
    BY <1>3 DEF StepHolds
  <2>3. QED
    BY <1>1, <1>2, <1>4, <1>8, <2>1, <2>2 DEF StepHolds, Untouched, Swapping
<1>10. ToldHolds'
  BY <1>1, <1>4, <1>8 DEF ToldHolds
<1>11. QED
  BY <1>6, <1>7, <1>9, <1>10

\* The renames, done and failing.
LEMMA DirRenamesOld ==
  ASSUME DirInv, DirectoryAssumption, RenameOld \/ RenameOldFails PROVE DirInv'
<1> USE DEF DirInv, RenameOld, RenameOldFails, Holding, Given, DirGoes
<1>1. UNCHANGED <<files, initial, task, next, existed, web>> /\ doing = "rename_old"
  OBVIOUS
<1>2. /\ task = "swap" /\ holder = "command" /\ told = "none" /\ HoldsOld("target") /\ existed = coll.target.exists
      /\ coll.staging.rows = NewRows /\ (initial # {} => existed) /\ CollTyped
  <2>1. task = "swap" /\ holder = "command"
    BY <1>1 DEF LockHeld, UnderLock, Swapping
  <2>2. told = "none"
    BY <1>1 DEF ToldHolds
  <2>3. HoldsOld("target") /\ existed = coll.target.exists /\ coll.staging.rows = NewRows /\ (initial # {} => existed)
    BY <1>1, <2>1 DEF StepHolds, Untouched, Swapping
  <2>4. QED
    BY <2>1, <2>2, <2>3 DEF DirTyped
<1>3. NewRows' = NewRows
  BY <1>1 DEF NewRows
<1>4. ASSUME Renamed("target", "backup"), existed
      PROVE  CollTyped' /\ BackupOld' /\ ~coll'.target.exists /\ coll'.staging = coll.staging
  <2>1. /\ CollTyped' /\ coll'["backup"] = coll["target"] /\ ~coll'["target"].exists /\ coll'["staging"] = coll["staging"]
    BY <1>1, <1>2, <1>4, NameMoved DEF CollNames
  <2>2. HoldsOld("backup")'
    BY <1>1, <1>2, <2>1, SameContent DEF CollNames
  <2>3. QED
    BY <1>2, <1>4, <2>1, <2>2 DEF BackupOld
<1>5. ASSUME UNCHANGED coll
      PROVE  CollTyped' /\ HoldsOld("target")' /\ coll'.target.exists = existed /\ coll'.staging = coll.staging
  BY <1>1, <1>2, <1>5, DirMoves
<1>6. unclear' \in BOOLEAN /\ holder' \in {"free", "command"} /\ CollTyped'
  <2>1. CollTyped'
    BY <1>4, <1>5
  <2>2. unclear' \in BOOLEAN /\ holder' \in {"free", "command"}
    BY <1>2 DEF DirTyped
  <2>3. QED
    BY <2>1, <2>2
<1>7. DirTyped'
  BY <1>1, <1>6 DEF DirTyped
<1>8. CASE RenameOld
  <2>1. LockHeld'
    BY <1>1, <1>2, <1>8 DEF LockHeld, UnderLock, Swapping
  <2>2. (existed => BackupOld') /\ ~coll'.target.exists /\ coll'.staging = coll.staging
    BY <1>2, <1>4, <1>5, <1>8
  <2>3. StepHolds'
    BY <1>1, <1>2, <1>3, <1>8, <2>2 DEF StepHolds, Untouched, Swapping
  <2>4. ToldHolds'
    BY <1>1, <1>2, <1>8 DEF ToldHolds
  <2>5. QED
    BY <1>7, <2>1, <2>3, <2>4
<1>9. CASE RenameOldFails
  <2>1. LockHeld'
    BY <1>1, <1>2, <1>9 DEF LockHeld, UnderLock, Swapping
  <2>2. HoldsOld("target")' \/ (unclear' /\ HoldsOld("backup")')
    BY <1>4, <1>5, <1>9 DEF BackupOld
  <2>3. StepHolds'
    BY <1>1, <1>9 DEF StepHolds, Untouched, Swapping
  <2>4. ToldHolds'
    BY <1>1, <1>2, <1>9, <2>2 DEF ToldHolds
  <2>5. QED
    BY <1>7, <2>1, <2>3, <2>4
<1>10. QED
  BY <1>8, <1>9

\* The second rename puts the new content in place, once, or leaves it where it was.
LEMMA DirRenamesNew ==
  ASSUME DirInv, DirectoryAssumption, RenameNew \/ RenameNewFails PROVE DirInv'
<1> USE DEF DirInv, RenameNew, RenameNewFails, Holding, Given, DirGoes
<1>1. UNCHANGED <<files, initial, task, next, existed, web, told, holder>> /\ doing = "rename_new"
  OBVIOUS
<1>2. /\ task = "swap" /\ holder = "command" /\ told = "none" /\ (existed => BackupOld) /\ ~coll.target.exists
      /\ coll.staging.rows = NewRows /\ (initial # {} => existed) /\ CollTyped
  <2>1. task = "swap" /\ holder = "command"
    BY <1>1 DEF LockHeld, UnderLock, Swapping
  <2>2. told = "none"
    BY <1>1 DEF ToldHolds
  <2>3. (existed => BackupOld) /\ ~coll.target.exists /\ coll.staging.rows = NewRows /\ (initial # {} => existed)
    BY <1>1, <2>1 DEF StepHolds, Swapping
  <2>4. QED
    BY <2>1, <2>2, <2>3 DEF DirTyped
<1>3. NewRows' = NewRows
  BY <1>1 DEF NewRows
<1>4. ASSUME Renamed("staging", "target")
      PROVE  CollTyped' /\ (BackupOld => BackupOld') /\ HoldsNew'
  <2>1. /\ CollTyped' /\ coll'["target"] = coll["staging"] /\ coll'["backup"] = coll["backup"]
    BY <1>1, <1>2, <1>4, NameMoved DEF CollNames
  <2>2. BackupOld => BackupOld'
    BY <1>1, <2>1, BackupKept
  <2>3. HoldsNew'
    BY <1>2, <1>3, <2>1, RowsApart DEF HoldsNew
  <2>4. QED
    BY <2>1, <2>2, <2>3
<1>5. ASSUME UNCHANGED coll
      PROVE  CollTyped' /\ BackupOld' = BackupOld /\ coll'.target.exists = coll.target.exists
  BY <1>1, <1>2, <1>5, DirMoves
<1>6. unclear' \in BOOLEAN /\ CollTyped'
  BY <1>4, <1>5 DEF DirTyped
<1>7. DirTyped'
  BY <1>1, <1>6 DEF DirTyped
<1>8. LockHeld'
  BY <1>1, <1>2 DEF LockHeld, UnderLock, Swapping
<1>9. existed => BackupOld'
  BY <1>2, <1>4, <1>5
<1>10. /\ doing' = "drop_backup" => HoldsNew'
       /\ doing' = "restore" => \/ HoldsNew' /\ unclear'
                                \/ ~coll'.target.exists
  BY <1>2, <1>4, <1>5
<1>11. StepHolds'
  BY <1>1, <1>2, <1>9, <1>10 DEF StepHolds, Untouched, Swapping
<1>12. ToldHolds'
  BY <1>1, <1>2 DEF ToldHolds
<1>13. QED
  BY <1>7, <1>8, <1>11, <1>12
\* The old content renamed back, or not.
LEMMA DirRestores ==
  ASSUME DirInv, DirectoryAssumption, RestoreOld \/ RestoreOldFails PROVE DirInv'
<1> USE DEF DirInv, RestoreOld, RestoreOldFails, Given, DirGoes
<1>1. UNCHANGED <<files, initial, task, next, existed, web>> /\ doing = "restore" /\ doing' = "drop_staging"
      /\ holder' = "free"
  OBVIOUS
<1>2. /\ task = "swap" /\ holder = "command" /\ (existed => BackupOld) /\ (initial # {} => existed) /\ CollTyped
  <2>1. task = "swap" /\ holder = "command"
    BY <1>1 DEF LockHeld, UnderLock, Swapping
  <2>2. (existed => BackupOld) /\ (initial # {} => existed)
    BY <1>1 DEF StepHolds, Swapping
  <2>3. QED
    BY <2>1, <2>2 DEF DirTyped
<1>3. ASSUME Renamed("backup", "target"), existed
      PROVE  CollTyped' /\ HoldsOld("target")'
  <2>1. /\ CollTyped' /\ coll'["target"] = coll["backup"]
    BY <1>1, <1>2, <1>3, NameMoved DEF CollNames
  <2>2. QED
    BY <1>1, <1>2, <1>3, <2>1, SameContent DEF CollNames, BackupOld
<1>4. ASSUME UNCHANGED coll
      PROVE  CollTyped' /\ BackupOld' = BackupOld
  BY <1>1, <1>4, DirMoves
<1>5. CollTyped' /\ unclear' \in BOOLEAN
  <2>1. CollTyped'
    BY <1>3, <1>4
  <2>2. unclear' \in BOOLEAN
    BY DEF DirTyped
  <2>3. QED
    BY <2>1, <2>2
<1>6. DirTyped'
  BY <1>1, <1>5 DEF DirTyped
<1>7. LockHeld'
  BY <1>1, <1>2 DEF LockHeld, UnderLock, Swapping
<1>8. StepHolds'
  BY <1>1 DEF StepHolds, Untouched, Swapping
<1>9. \/ told' = "kept" /\ (initial # {} => HoldsOld("target")')
      \/ told' = "rename_backup" /\ (BackupOld' \/ (unclear' /\ HoldsOld("target")'))
  BY <1>2, <1>3, <1>4
<1>10. ToldHolds'
  BY <1>1, <1>2, <1>9 DEF ToldHolds
<1>11. QED
  BY <1>6, <1>7, <1>8, <1>10

\* The backup dropped, or not.
LEMMA DirDropsBackup ==
  ASSUME DirInv, DirectoryAssumption, DropBackup \/ DropBackupFails PROVE DirInv'
<1> USE DEF DirInv, DropBackup, DropBackupFails, Given, Ends
<1>1. UNCHANGED <<files, initial, task, next, existed, web, unclear>> /\ doing = "drop_backup" /\ doing' = "done"
      /\ holder' = "free" /\ told' \in {"ok", "delete_backup"}
  OBVIOUS
<1>2. /\ task = "swap" /\ holder = "command" /\ HoldsNew /\ CollTyped
  <2>1. task = "swap" /\ holder = "command"
    BY <1>1 DEF LockHeld, UnderLock, Swapping
  <2>2. HoldsNew
    BY <1>1 DEF StepHolds
  <2>3. QED
    BY <2>1, <2>2 DEF DirTyped
<1>3. NewRows' = NewRows
  BY <1>1 DEF NewRows
<1>4. CollTyped' /\ coll'["target"] = coll["target"]
  <2>1. CASE UNCHANGED coll
    BY <1>1, <2>1, DirMoves
  <2>2. ASSUME NEW backup, backup = coll["backup"] \/ backup = Absent, coll' = [coll EXCEPT !.backup = backup]
        PROVE  CollTyped' /\ coll'["target"] = coll["target"]
    <3>1. backup.exists \in BOOLEAN /\ backup.rows \subseteq OldRows \cup NewRows \cup {WebRow}
      <4>1. CASE backup = coll["backup"]
        BY <1>2, <4>1 DEF CollTyped, CollNames
      <4>2. CASE backup = Absent
        BY <4>2 DEF Absent
      <4>3. QED
        BY <2>2, <4>1, <4>2
    <3>2. /\ DOMAIN coll' = CollNames /\ coll'["backup"] = backup
          /\ coll'["target"] = coll["target"] /\ coll'["staging"] = coll["staging"]
      BY <1>2, <2>2 DEF CollTyped, CollNames
    <3>3. QED
      BY <1>2, <1>3, <3>1, <3>2 DEF CollTyped, CollNames
  <2>3. QED
    BY <2>1, <2>2
<1>5. DirTyped'
  BY <1>1, <1>4 DEF DirTyped
<1>6. LockHeld'
  BY <1>1, <1>2 DEF LockHeld, UnderLock, Swapping
<1>7. StepHolds'
  BY <1>1 DEF StepHolds, Untouched, Swapping
<1>8. HoldsNew'
  BY <1>1, <1>2, <1>4, TargetKept
<1>9. ToldHolds'
  BY <1>1, <1>2, <1>8 DEF ToldHolds, HoldsNew
<1>10. QED
  BY <1>5, <1>6, <1>7, <1>9

\* index: the target dropped, made and filled, or left half-way by an exception.
LEMMA DirIndexes ==
  ASSUME DirInv, DirectoryAssumption, DropTarget \/ EnsureTarget \/ UpsertAll \/ IndexFails PROVE DirInv'
<1> USE DEF DirInv, DropTarget, EnsureTarget, UpsertAll, IndexFails, Given, Ends
<1>1. UNCHANGED <<files, initial, task, next, existed, web, unclear>> /\ doing \in {"drop_old", "ensure", "upsert"}
      /\ (doing' = "done" <=> told' # told) /\ (doing' = "done" => holder' = "free" /\ told' \in {"ok", "failed"})
      /\ (doing' # "done" => UNCHANGED <<told, holder>> /\ doing' \in {"ensure", "upsert"})
  <2>1. told = "none"
    BY DEF ToldHolds
  <2>2. QED
    BY <2>1
<1>2. /\ task # "swap" /\ holder = "command" /\ told = "none" /\ CollTyped
      /\ (doing = "drop_old" => task = "rebuild")
      /\ (doing # "drop_old" /\ task = "rebuild" => coll["target"].rows \cap OldRows = {})
  <2>1. task # "swap" /\ holder = "command" /\ (doing = "drop_old" => task = "rebuild")
    BY <1>1 DEF LockHeld, UnderLock
  <2>2. doing # "drop_old" /\ task = "rebuild" => coll["target"].rows \cap OldRows = {}
    BY <1>1 DEF StepHolds
  <2>3. told = "none"
    BY <1>1 DEF ToldHolds
  <2>4. QED
    BY <2>1, <2>2, <2>3 DEF DirTyped
<1>3. NewRows' = NewRows
  BY <1>1 DEF NewRows
<1>4. ASSUME coll' = [coll EXCEPT !.target = Absent]
      PROVE  CollTyped' /\ coll'["target"].rows = {}
  <2>1. /\ DOMAIN coll' = CollNames /\ coll'["target"] = Absent
        /\ coll'["backup"] = coll["backup"] /\ coll'["staging"] = coll["staging"]
    BY <1>2, <1>4 DEF CollTyped, CollNames
  <2>2. Absent.exists \in BOOLEAN /\ Absent.rows = {}
    BY DEF Absent
  <2>3. QED
    BY <1>2, <1>3, <2>1, <2>2 DEF CollTyped, CollNames
<1>5. ASSUME NEW rows \in SUBSET NewRows, Written("target", rows)
      PROVE  CollTyped' /\ coll'["target"].rows = coll["target"].rows \cup rows
  BY <1>1, <1>2, <1>5, RowsAdded DEF CollNames
<1>6. ASSUME UNCHANGED coll PROVE CollTyped'
  BY <1>1, <1>6, DirMoves
<1>7. CollTyped'
  BY <1>4, <1>5, <1>6
<1>8. DirTyped'
  <2>1. holder' \in {"free", "command"}
    BY <1>1, <1>2
  <2>2. QED
    BY <1>1, <1>7, <2>1 DEF DirTyped
<1>9. LockHeld'
  BY <1>1, <1>2 DEF LockHeld, UnderLock, Swapping
<1>10. NewRows \cap OldRows = {} /\ (files = <<>> => NewRows = {})
  BY RowsApart DEF NewRows
<1>11. doing' \in {"ensure", "upsert"} /\ task = "rebuild" => coll'["target"].rows \cap OldRows = {}
  BY <1>2, <1>4, <1>5
<1>12. told' = "ok" => NewRows' \subseteq coll'["target"].rows
                       /\ (task = "rebuild" => coll'["target"].rows \cap OldRows = {})
  BY <1>2, <1>3, <1>4, <1>5, <1>10
<1>13. StepHolds'
  BY <1>1, <1>2, <1>11 DEF StepHolds, Untouched, Swapping
<1>14. task \in {"rebuild", "incremental"}
  BY <1>2 DEF DirTyped
<1>15. ToldHolds'
  BY <1>1, <1>2, <1>12, <1>14 DEF ToldHolds, HoldsNew
<1>16. QED
  BY <1>8, <1>9, <1>13, <1>15
\* The web service's commit, and the death of the command.
LEMMA DirWeb ==
  ASSUME DirInv, DirectoryAssumption, WebTakesLock \/ WebCommits PROVE DirInv'
<1> USE DEF DirInv, WebTakesLock, WebCommits, Given
<1>1. UNCHANGED <<files, initial, task, doing, next, existed, told, unclear>> /\ NewRows' = NewRows
  BY DEF NewRows
<1>2. holder # "command" /\ holder' # "command" /\ doing \notin UnderLock
      /\ ((web' = "locked") <=> (holder' = "web"))
  BY DEF LockHeld
<1>3. /\ CollTyped' /\ coll'["backup"] = coll["backup"] /\ coll'["staging"] = coll["staging"]
      /\ HoldsOld("target") => HoldsOld("target")'
      /\ HoldsNew => HoldsNew'
      /\ NewRows \subseteq coll["target"].rows => NewRows \subseteq coll'["target"].rows
  <2>1. CASE UNCHANGED coll
    BY <1>1, <2>1, DirMoves
  <2>2. CASE Written("target", {WebRow})
    <3>1. /\ CollTyped' /\ coll'["target"].exists /\ coll'["target"].rows = coll["target"].rows \cup {WebRow}
          /\ coll'["backup"] = coll["backup"] /\ coll'["staging"] = coll["staging"]
      BY <1>1, <2>2, RowsAdded DEF DirTyped, CollNames
    <3>2. WebRow \notin NewRows /\ WebRow \notin OldRows
      BY RowsApart
    <3>3. HoldsOld("target") => HoldsOld("target")'
      BY <1>1, <3>1, <3>2 DEF HoldsOld
    <3>4. HoldsNew => HoldsNew'
      BY <1>1, <3>1, <3>2 DEF HoldsNew
    <3>5. QED
      BY <3>1, <3>3, <3>4
  <2>3. QED
    BY <2>1, <2>2
<1>4. (BackupOld => BackupOld') /\ (HoldsOld("backup") => HoldsOld("backup")')
  BY <1>1, <1>3, BackupKept
<1>5. holder' \in {"free", "command", "web"} /\ web' \in {"idle", "locked", "done"}
  OBVIOUS
<1>6. DirTyped'
  BY <1>1, <1>3, <1>5 DEF DirTyped
<1>7. LockHeld'
  BY <1>1, <1>2 DEF LockHeld
<1>8. StepHolds'
  BY <1>1, <1>2, <1>3 DEF StepHolds, UnderLock, Swapping
<1>9. ToldHolds'
  BY <1>1, <1>3, <1>4 DEF ToldHolds
<1>10. QED
  BY <1>6, <1>7, <1>8, <1>9

\* A killed command leaves the collections as they were and the lock free.
LEMMA DirKilled ==
  ASSUME DirInv, DirectoryAssumption, Killed PROVE DirInv'
<1> USE DEF DirInv, Killed, Given, Ends
<1>1. UNCHANGED <<coll, files, initial, task, next, existed, web, unclear>> /\ doing # "done" /\ doing' = "done"
      /\ told' = "killed" /\ holder' = IF holder = "command" THEN "free" ELSE holder
  OBVIOUS
<1>2. CollTyped' /\ NewRows' = NewRows
         /\ HoldsOld("target")' = HoldsOld("target") /\ HoldsOld("backup")' = HoldsOld("backup")
         /\ BackupOld' = BackupOld /\ HoldsNew' = HoldsNew
  BY <1>1, DirMoves
<1>3. DirTyped'
  BY <1>1, <1>2 DEF DirTyped
<1>4. LockHeld'
  BY <1>1 DEF LockHeld, UnderLock, Swapping, DirTyped
<1>5. StepHolds'
  BY <1>1 DEF StepHolds, Untouched, Swapping
<1>6. ASSUME task = "swap", initial # {} PROVE HoldsOld("target") \/ HoldsOld("backup") \/ HoldsNew
  <2>1. doing \in Swapping \cup {"load", "build", "lock", "drop_staging"}
    BY <1>1, <1>6 DEF LockHeld
  <2>2. CASE doing \in Untouched
    BY <2>2 DEF StepHolds
  <2>3. CASE doing \in {"rename_new", "drop_backup", "restore"}
    BY <1>6, <2>3 DEF StepHolds, Swapping, BackupOld
  <2>4. CASE doing = "drop_staging"
    BY <1>6, <2>4 DEF ToldHolds, BackupOld
  <2>5. QED
    BY <2>1, <2>2, <2>3, <2>4 DEF Swapping, Untouched
<1>7. ToldHolds'
  BY <1>1, <1>2, <1>6 DEF ToldHolds
<1>8. QED
  BY <1>3, <1>4, <1>5, <1>7

\* DirInv is inductive.
LEMMA DirInvCorrect == DirSpec => []DirInv
<1>1. DirInit => DirInv
  <2> SUFFICES ASSUME DirInit PROVE DirInv
    OBVIOUS
  <2> USE DEF DirInit
  <2>1. DOMAIN coll = CollNames
    BY DEF CollNames
  <2>2. coll["target"].exists = (initial # {}) /\ coll["target"].rows = initial
        /\ coll["staging"] = Absent /\ coll["backup"] = Absent
    OBVIOUS
  <2>3. Absent.exists = FALSE /\ Absent.rows = {}
    BY DEF Absent
  <2>4. CollTyped
    BY <2>1, <2>2, <2>3 DEF CollTyped, CollNames
  <2>5. Len(files) \in Nat
    BY DirectoryAssumption
  <2>6. DirTyped
    <3>1. /\ files \in Directories /\ task \in {"swap", "rebuild", "incremental"} /\ initial \in {{}, OldRows}
          /\ existed \in BOOLEAN /\ unclear \in BOOLEAN
      OBVIOUS
    <3>4. next \in 0..Len(files)
      BY <2>5
    <3>2. holder \in {"free", "command", "web"} /\ web \in {"idle", "locked", "done"}
      OBVIOUS
    <3>3. QED
      BY <2>4, <3>1, <3>2, <3>4 DEF DirTyped
  <2>7. NewRows \cap OldRows = {}
    BY <2>6, RowsApart, DirectoryAssumption
  <2>8. HoldsOld("target")
    BY <2>2, <2>7 DEF HoldsOld
  <2>9. LockHeld
    BY DEF LockHeld, UnderLock, Swapping
  <2>10. StepHolds
    BY <2>8 DEF StepHolds, Swapping
  <2>11. ToldHolds
    BY DEF ToldHolds
  <2>12. QED
    BY <2>6, <2>9, <2>10, <2>11 DEF DirInv
<1>2. DirInv /\ [DirNext]_dirVars => DirInv'
  <2> SUFFICES ASSUME DirInv, [DirNext]_dirVars PROVE DirInv'
    OBVIOUS
  <2>1. CASE Load
    BY <2>1, DirLoad
  <2>2. CASE SwapStep
    BY <2>2, DirectoryAssumption, DirBuild, DirCheck, DirLocks, DirRenamesOld, DirRenamesNew, DirRestores,
       DirDropsBackup DEF SwapStep
  <2>3. CASE SwapFault
    BY <2>3, DirectoryAssumption, DirBuild, DirCheck, DirRenamesOld, DirRenamesNew, DirRestores,
       DirDropsBackup DEF SwapFault
  <2>4. CASE EmbedAllFails \/ DropTarget \/ EnsureTarget \/ UpsertAll \/ IndexFails
    BY <2>4, DirectoryAssumption, DirCheck, DirIndexes
  <2>5. CASE WebTakesLock \/ WebCommits \/ Killed
    BY <2>5, DirectoryAssumption, DirWeb, DirKilled
  <2>6. CASE UNCHANGED dirVars
    <3>1. NewRows' = NewRows
      BY <2>6 DEF dirVars, NewRows
    <3>2. UNCHANGED <<coll, files, initial>>
      BY <2>6 DEF dirVars
    <3>3. CollTyped'
          /\ HoldsOld("target")' = HoldsOld("target") /\ HoldsOld("backup")' = HoldsOld("backup")
          /\ BackupOld' = BackupOld /\ HoldsNew' = HoldsNew
      BY <3>2, DirMoves, DirectoryAssumption
    <3>4. QED
      BY <2>6, <3>1, <3>3 DEF dirVars, DirInv, DirTyped, LockHeld, StepHolds, ToldHolds
  <2>7. QED
    BY <2>1, <2>2, <2>3, <2>4, <2>5, <2>6 DEF DirNext
<1>3. QED
  BY <1>1, <1>2, PTL DEF DirSpec

\* The collections keep their type.
THEOREM DirTypeCorrect == DirSpec => []DirTypeOK
<1>1. DirInv => DirTypeOK
  BY DEF DirInv, DirTyped, CollTyped, CollNames, DirTypeOK
<1>2. QED
  BY <1>1, DirInvCorrect, PTL

\* Wherever index-dir fails or dies, the old content exists until the new one is in its
\* place, and a search never finds a mixture.  (index_directory, _swap_collections)
THEOREM OldOrNewCorrect == DirSpec => []OldOrNew
<1>1. DirInv => OldOrNew
  <2> SUFFICES ASSUME DirInv, task = "swap", initial # {}
               PROVE  /\ ServesOld("target") \/ ServesOld("backup") \/ ServesNew
                      /\ coll.target.exists =>
                           \/ ServesOld("target") \/ ServesNew
                           \/ unclear \/ told \in {"rename_backup", "killed"}
    BY DEF OldOrNew
  <2>1. initial = OldRows /\ doing \in Swapping \cup {"load", "build", "lock", "drop_staging", "done"}
    BY DEF DirInv, DirTyped, LockHeld
  <2>2. /\ HoldsOld("target") => ServesOld("target")
        /\ HoldsOld("backup") => ServesOld("backup")
        /\ HoldsNew => ServesNew
    BY <2>1 DEF HoldsOld, ServesOld, HoldsNew, ServesNew
  <2>3. CASE doing \in Untouched
    BY <2>2, <2>3 DEF DirInv, StepHolds
  <2>4. CASE doing \in {"rename_new", "drop_backup", "restore"}
    BY <2>2, <2>4 DEF DirInv, StepHolds, Swapping, BackupOld
  <2>5. CASE doing \in {"drop_staging", "done"}
    BY <2>2, <2>5 DEF DirInv, ToldHolds, BackupOld
  <2>6. QED
    BY <2>1, <2>3, <2>4, <2>5 DEF Swapping, Untouched
<1>2. QED
  BY <1>1, DirInvCorrect, PTL

\* What the user is told is what the collections hold, unless a rename took effect and
\* raised.  (the messages of _swap_collections; index_chunks)
THEOREM ToldTruthCorrect == DirSpec => []ToldTruth
<1>1. DirInv => ToldTruth
  <2> SUFFICES ASSUME DirInv, doing = "done", ~unclear
               PROVE  CASE told \in {"refused", "no_backup", "kept"} -> initial # {} => ServesOld("target")
                        [] told = "rename_backup" -> coll.backup.exists /\ initial \subseteq coll.backup.rows
                        [] told \in {"ok", "delete_backup"} ->
                             /\ NewRows \subseteq coll.target.rows
                             /\ task # "incremental" => coll.target.rows \cap OldRows = {}
                        [] OTHER -> TRUE
    BY DEF ToldTruth
  <2>1. CASE told \in {"refused", "no_backup", "kept"}
    <3>1. initial # {} => HoldsOld("target") /\ initial = OldRows
      BY <2>1 DEF DirInv, DirTyped, ToldHolds
    <3>2. initial # {} => ServesOld("target")
      BY <3>1 DEF HoldsOld, ServesOld
    <3>3. QED
      BY <2>1, <3>2
  <2>2. CASE told = "rename_backup"
    <3>1. coll.backup.exists /\ initial \subseteq coll.backup.rows
      BY <2>2 DEF DirInv, ToldHolds, BackupOld, HoldsOld
    <3>2. QED
      BY <2>2, <3>1
  <2>3. CASE told \in {"ok", "delete_backup"}
    <3>1. /\ NewRows \subseteq coll.target.rows
          /\ task # "incremental" => coll.target.rows \cap OldRows = {}
      BY <2>3 DEF DirInv, ToldHolds, HoldsNew
    <3>2. QED
      BY <2>3, <3>1
  <2>4. CASE told \notin {"refused", "no_backup", "kept", "rename_backup", "ok", "delete_backup"}
    BY <2>4
  <2>5. QED
    BY <2>1, <2>2, <2>3, <2>4
<1>2. QED
  BY <1>1, DirInvCorrect, PTL

(***************************************************************************)
(* KnowledgeNormalizer                                                     *)
(***************************************************************************)
\* Where a command that has put its directory in place is, until it is done.
Published(n) == norm[n].step \in {"drop_aside", "unlink_report"} \/ norm[n].result = "ok"

NormSteps == {"read", "report_errors", "check_out", "move_aside", "move_in", "put_back", "drop_aside",
              "unlink_report", "done"}
NormResults == {"none", "errors", "raised", "ok", "not_put_back", "killed"}
Made == {<<>>} \cup {NormalizedLines(given.lines) : given \in {i \in Inputs : ~Faulty(i)}}
NormStates ==
  [step : NormSteps, made : Made, aside : {"none", "old"} \cup Normalizers, result : NormResults]

NormTyped ==
  /\ DOMAIN norm = Normalizers /\ \A n \in Normalizers : norm[n] \in NormStates
  /\ outDir \in {"none", "old"} \cup Normalizers /\ report \in {"none"} \cup Normalizers

\* What a command has moved aside, by its step.
AsideByStep(n) ==
  /\ norm[n].result # "none" => norm[n].step = "done"
  /\ norm[n].step \in {"read", "report_errors", "check_out", "move_aside"} => norm[n].aside = "none"

\* The place is free only while somebody holds what was there, or nobody came yet.
PlaceHeld ==
  outDir = "none" =>
    \/ \E n \in Normalizers : HoldsAside(n)
    \/ \A n \in Normalizers : norm[n].aside = "none" /\ ~Published(n)

\* Of two commands of which one has published, the place or the other has a new directory.
NewStays ==
  AtMostTwo =>
    \A n \in Normalizers : Published(n) =>
      \/ outDir \in Normalizers
      \/ /\ outDir = "none"
         /\ \E m \in Normalizers : ~Published(m) /\ norm[m].aside \in Normalizers

NormInv == NormTyped /\ (\A n \in Normalizers : AsideByStep(n)) /\ PlaceHeld /\ NewStays

\* No chunk stands twice in what is normalised from lines without a fault.
LEMMA NormalizedOnce ==
  ASSUME NormalizerAssumption, NEW given \in Inputs, ~Faulty(given)
  PROVE  \A h, k \in DOMAIN NormalizedLines(given.lines) :
           h # k => NormalizedLines(given.lines)[h].id # NormalizedLines(given.lines)[k].id
<1> DEFINE ls == given.lines
           kept == KeptLines(ls)
           made == NormalizedLines(ls)
           n == Cardinality(kept)
<1>1. Len(ls) \in Nat /\ DOMAIN ls = 1..Len(ls)
  BY DEF NormalizerAssumption
<1>2. kept \in SUBSET Nat /\ IsFiniteSet(kept) /\ n \in Nat
  <2>1. kept \in SUBSET (1..Len(ls)) /\ IsFiniteSet(1..Len(ls))
    BY <1>1, FS_Interval DEF KeptLines
  <2>2. QED
    BY <1>1, <2>1, FS_Subset, FS_CardinalityType
<1>3. \A k \in kept : k \in DOMAIN ls /\ ls[k].valid /\ Earlier(ls, k) = {}
  BY DEF KeptLines, Faulty, Flawed
<1>4. \A j \in 1..n : Nth(kept, j) \in kept /\ Cardinality({h \in kept : h <= Nth(kept, j)}) = j
  BY <1>2, RankExists
<1>5. ASSUME NEW h \in kept, NEW k \in kept, h < k PROVE ls[h].id # ls[k].id
  <2>1. h \in 1..k-1 /\ ls[h].valid
    BY <1>1, <1>3, <1>5
  <2>2. QED
    BY <1>3, <2>1 DEF Earlier
<1>6. \A h, k \in kept : h # k => ls[h].id # ls[k].id
  <2>1. \A h, k \in kept : h # k => h < k \/ k < h
    BY <1>2
  <2>2. QED
    BY <1>5, <2>1
<1>7. \A i, j \in 1..n : i # j => Nth(kept, i) # Nth(kept, j)
  BY <1>4
<1>8. \A i, j \in 1..n : i # j => ls[Nth(kept, i)].id # ls[Nth(kept, j)].id
  BY <1>4, <1>6, <1>7
<1>9. made = [j \in 1..n |-> [id |-> ls[Nth(kept, j)].id, valid |-> ~ls[Nth(kept, j)].split]]
  BY DEF NormalizedLines
<1> HIDE DEF made, n, kept, ls
<1>10. DOMAIN made = 1..n /\ \A j \in 1..n : made[j].id = ls[Nth(kept, j)].id
  BY <1>9
<1>11. QED
  BY <1>8, <1>10 DEF made, ls

(***************************************************************************)
(* One step of one command                                                 *)
(***************************************************************************)
\* What a step leaves in the state of its command.
NormBecomes(n, now, made, aside, outcome) ==
  /\ DOMAIN norm' = Normalizers /\ norm'[n] \in NormStates
  /\ norm'[n].step = now /\ norm'[n].made = made /\ norm'[n].aside = aside /\ norm'[n].result = outcome
  /\ \A m \in Normalizers : m # n => norm'[m] = norm[m]

\* Every step of a command moves it, or ends it.
LEMMA NormMoves ==
  ASSUME NormTyped, NEW n \in Normalizers
  PROVE  /\ \A from \in NormSteps, to \in NormSteps :
              NormGoes(n, from, to) => NormBecomes(n, to, norm[n].made, norm[n].aside, norm[n].result)
         /\ \A from \in NormSteps, outcome \in NormResults :
              NormEnds(n, from, outcome) => NormBecomes(n, "done", norm[n].made, norm[n].aside, outcome)
<1>1. DOMAIN norm = Normalizers /\ norm[n] \in NormStates
  BY DEF NormTyped
<1>2. ASSUME NEW from \in NormSteps, NEW to \in NormSteps, NormGoes(n, from, to)
      PROVE  NormBecomes(n, to, norm[n].made, norm[n].aside, norm[n].result)
  <2> DEFINE now == [norm[n] EXCEPT !.step = to]
  <2>1. norm' = [norm EXCEPT ![n] = now]
    BY <1>2 DEF NormGoes
  <2>2. /\ now \in NormStates /\ now.step = to /\ now.made = norm[n].made
        /\ now.aside = norm[n].aside /\ now.result = norm[n].result
    BY <1>1 DEF NormStates
  <2> HIDE DEF now
  <2>3. QED
    BY <1>1, <2>1, <2>2 DEF NormBecomes
<1>3. ASSUME NEW from \in NormSteps, NEW outcome \in NormResults, NormEnds(n, from, outcome)
      PROVE  NormBecomes(n, "done", norm[n].made, norm[n].aside, outcome)
  <2> DEFINE now == [norm[n] EXCEPT !.step = "done", !.result = outcome]
  <2>1. norm' = [norm EXCEPT ![n] = now]
    BY <1>1, <1>3 DEF NormEnds
  <2>2. /\ now \in NormStates /\ now.step = "done" /\ now.made = norm[n].made
        /\ now.aside = norm[n].aside /\ now.result = outcome
    BY <1>1 DEF NormStates, NormSteps
  <2> HIDE DEF now
  <2>3. QED
    BY <1>1, <2>1, <2>2 DEF NormBecomes
<1>4. QED
  BY <1>2, <1>3

\* A step that leaves the place alone, and what its command holds of it.
LEMMA NormQuiet ==
  ASSUME NormInv, NEW n \in Normalizers, NEW now, NEW made, NEW aside, NEW outcome,
         NormBecomes(n, now, made, aside, outcome), outDir' = outDir,
         aside = norm[n].aside \/ (aside = "none" /\ Published(n)),
         outDir = "none" /\ HoldsAside(n) => HoldsAside(n)',
         Published(n)' => Published(n)
  PROVE  PlaceHeld' /\ NewStays'
<1> USE DEF NormInv, NormBecomes
<1>1. \A m \in Normalizers : m # n => Published(m)' = Published(m) /\ HoldsAside(m)' = HoldsAside(m)
                                      /\ norm'[m].aside = norm[m].aside
  BY DEF Published, HoldsAside
<1>2. PlaceHeld'
  <2> SUFFICES ASSUME outDir = "none"
               PROVE  \/ \E m \in Normalizers : HoldsAside(m)'
                      \/ \A m \in Normalizers : norm'[m].aside = "none" /\ ~Published(m)'
    BY DEF PlaceHeld
  <2>1. CASE \E m \in Normalizers : HoldsAside(m)
    BY <1>1, <2>1
  <2>2. CASE \A m \in Normalizers : norm[m].aside = "none" /\ ~Published(m)
    BY <1>1, <2>2
  <2>3. QED
    BY <2>1, <2>2 DEF PlaceHeld
<1>3. NewStays'
  <2> SUFFICES ASSUME AtMostTwo, NEW m \in Normalizers, Published(m)'
               PROVE  \/ outDir \in Normalizers
                      \/ /\ outDir = "none"
                         /\ \E k \in Normalizers : ~Published(k)' /\ norm'[k].aside \in Normalizers
    BY DEF NewStays
  <2>1. Published(m)
    BY <1>1
  <2>2. CASE outDir = "none" /\ \E k \in Normalizers : ~Published(k) /\ norm[k].aside \in Normalizers
    <3>1. PICK k \in Normalizers : ~Published(k) /\ norm[k].aside \in Normalizers
      BY <2>2
    <3>2. ~Published(k)' /\ norm'[k].aside \in Normalizers
      BY <1>1, <3>1
    <3>3. QED
      BY <2>2, <3>2
  <2>3. QED
    BY <2>1, <2>2 DEF NewStays
<1>4. QED
  BY <1>2, <1>3

\* What each step does to its command, and which steps leave the place alone.
QuietStep(n) ==
  \/ ReadKnowledge(n) \/ ReportErrors(n) \/ NormalizeFails(n) \/ CheckOut(n) \/ MoveAsideFails(n)
  \/ MoveInFails(n) \/ PutBackFails(n) \/ DropAside(n) \/ DropAsideFails(n)
  \/ UnlinkReport(n) \/ UnlinkReportFails(n) \/ KillNormalizer(n)
  \/ MoveAside(n) /\ outDir = "none"
  \/ PutBack(n) /\ ~(norm[n].aside # "none" /\ outDir = "none")

PlaceStep(n) ==
  \/ MoveAside(n) /\ outDir # "none"
  \/ MoveIn(n)
  \/ PutBack(n) /\ norm[n].aside # "none" /\ outDir = "none"

\* What a quiet step does: it moves on, or ends with what it has, and publishes nothing.
LEMMA QuietEffect ==
  ASSUME NormInv, NormalizerAssumption, NEW n \in Normalizers, QuietStep(n)
  PROVE  /\ outDir' = outDir /\ report' \in {"none"} \cup Normalizers
         /\ \E now \in NormSteps, made \in Made, aside \in {norm[n].aside, "none"}, outcome \in NormResults :
              /\ NormBecomes(n, now, made, aside, outcome)
              /\ aside = norm[n].aside \/ Published(n)
              /\ outDir = "none" /\ HoldsAside(n) => HoldsAside(n)'
              /\ Published(n)' => Published(n)
              /\ AsideByStep(n)'
<1>1. norm[n] \in NormStates /\ DOMAIN norm = Normalizers /\ AsideByStep(n)
      /\ outDir \in {"none", "old"} \cup Normalizers /\ report \in {"none"} \cup Normalizers
  BY DEF NormInv, NormTyped
<1>2. /\ \A from \in NormSteps, to \in NormSteps :
              NormGoes(n, from, to) => NormBecomes(n, to, norm[n].made, norm[n].aside, norm[n].result)
      /\ \A from \in NormSteps, outcome \in NormResults :
              NormEnds(n, from, outcome) => NormBecomes(n, "done", norm[n].made, norm[n].aside, outcome)
  BY NormMoves DEF NormInv
<1>3. norm[n].made \in Made /\ norm[n].aside \in {"none", "old"} \cup Normalizers /\ norm[n].result \in NormResults
      /\ norm[n].step \in NormSteps
  BY <1>1 DEF NormStates
<1>4. CASE ReadKnowledge(n)
  <2>1. PICK given \in Inputs :
          /\ norm[n].step = "read"
          /\ norm' = [norm EXCEPT
               ![n].step = IF Faulty(given) THEN "report_errors" ELSE "check_out",
               ![n].made = IF Faulty(given) THEN <<>> ELSE NormalizedLines(given.lines)]
          /\ UNCHANGED <<outDir, report>>
    BY <1>4 DEF ReadKnowledge
  <2> DEFINE to == IF Faulty(given) THEN "report_errors" ELSE "check_out"
             made == IF Faulty(given) THEN <<>> ELSE NormalizedLines(given.lines)
             now == [norm[n] EXCEPT !.step = to, !.made = made]
  <2>2. norm' = [norm EXCEPT ![n] = now]
    BY <1>1, <2>1
  <2>3. to \in {"report_errors", "check_out"} /\ made \in Made
    BY DEF Made
  <2> HIDE DEF to, made
  <2>4. /\ now \in NormStates /\ now.step = to /\ now.made = made
        /\ now.aside = norm[n].aside /\ now.result = norm[n].result
    BY <1>1, <2>3 DEF NormStates, NormSteps
  <2> HIDE DEF now
  <2>5. NormBecomes(n, to, made, norm[n].aside, norm[n].result)
    BY <1>1, <2>2, <2>4 DEF NormBecomes, NormInv, NormTyped
  <2>6. norm[n].result = "none" /\ norm[n].aside = "none"
    BY <1>1, <2>1 DEF AsideByStep
  <2>7. AsideByStep(n)' /\ ~Published(n)' /\ ~HoldsAside(n)
    BY <2>3, <2>5, <2>6 DEF NormBecomes, AsideByStep, Published, HoldsAside
  <2>8. to \in NormSteps
    BY <2>3 DEF NormSteps
  <2>9. QED
    BY <1>1, <1>3, <2>1, <2>3, <2>5, <2>7, <2>8
<1>5. ASSUME NEW from \in NormSteps \ {"done"}, NEW to \in NormSteps \ {"done"}, NormGoes(n, from, to),
             UNCHANGED <<outDir, report>>,
             \/ from = "check_out" /\ to = "move_aside"
             \/ from = "check_out" /\ to = "move_in"
             \/ from = "move_in" /\ to = "put_back"
      PROVE  /\ NormBecomes(n, to, norm[n].made, norm[n].aside, norm[n].result)
             /\ outDir = "none" /\ HoldsAside(n) => HoldsAside(n)'
             /\ Published(n)' => Published(n)
             /\ AsideByStep(n)'
  <2>1. NormBecomes(n, to, norm[n].made, norm[n].aside, norm[n].result)
    BY <1>2, <1>5
  <2>2. norm[n].step = from /\ norm[n].result = "none"
    BY <1>1, <1>5 DEF NormGoes, AsideByStep
  <2>3. AsideByStep(n)' /\ ~Published(n)' /\ (HoldsAside(n) => HoldsAside(n)')
    BY <1>1, <1>5, <2>1, <2>2 DEF NormBecomes, AsideByStep, Published, HoldsAside
  <2>4. QED
    BY <2>1, <2>3
<1>6. ASSUME NEW from \in NormSteps \ {"done"}, NEW outcome \in NormResults \ {"none"}, NormEnds(n, from, outcome),
             outDir' = outDir,
             \/ from \in {"read", "report_errors", "check_out", "move_aside", "drop_aside", "unlink_report"}
             \/ outcome \in {"killed", "not_put_back"}
             \/ from = "put_back" /\ ~(norm[n].aside # "none" /\ outDir = "none"),
             outcome = "ok" => from = "unlink_report"
      PROVE  /\ NormBecomes(n, "done", norm[n].made, norm[n].aside, outcome)
             /\ outDir = "none" /\ HoldsAside(n) => HoldsAside(n)'
             /\ Published(n)' => Published(n)
             /\ AsideByStep(n)'
  <2>1. NormBecomes(n, "done", norm[n].made, norm[n].aside, outcome)
    BY <1>2, <1>6
  <2>2. norm[n].step = from /\ norm[n].result = "none"
    BY <1>1, <1>6 DEF NormEnds, AsideByStep
  <2>3. AsideByStep(n)'
    BY <1>6, <2>1 DEF NormBecomes, AsideByStep
  <2>4. Published(n)' => Published(n)
    BY <1>6, <2>1, <2>2 DEF NormBecomes, Published
  <2>5. outDir = "none" /\ HoldsAside(n) => HoldsAside(n)'
    BY <1>1, <1>6, <2>1, <2>2 DEF NormBecomes, AsideByStep, HoldsAside
  <2>6. QED
    BY <2>1, <2>3, <2>4, <2>5
<1>7. CASE CheckOut(n) \/ MoveInFails(n)
  <2>1. PICK from \in NormSteps \ {"done"}, to \in NormSteps \ {"done"} :
          /\ NormGoes(n, from, to)
          /\ \/ from = "check_out" /\ to = "move_aside"
             \/ from = "check_out" /\ to = "move_in"
             \/ from = "move_in" /\ to = "put_back"
    BY <1>7 DEF CheckOut, MoveInFails, NormSteps
  <2>2. UNCHANGED <<outDir, report>>
    BY <1>7 DEF CheckOut, MoveInFails
  <2>3. QED
    BY <1>1, <1>3, <1>5, <2>1, <2>2
<1>8. CASE DropAside(n)
  <2> DEFINE now == [norm[n] EXCEPT !.step = "unlink_report", !.aside = "none"]
  <2>1. norm' = [norm EXCEPT ![n] = now] /\ norm[n].step = "drop_aside" /\ UNCHANGED <<outDir, report>>
    BY <1>1, <1>8 DEF DropAside
  <2>2. /\ now \in NormStates /\ now.step = "unlink_report" /\ now.made = norm[n].made
        /\ now.aside = "none" /\ now.result = norm[n].result
    BY <1>1 DEF NormStates, NormSteps
  <2> HIDE DEF now
  <2>3. NormBecomes(n, "unlink_report", norm[n].made, "none", norm[n].result)
    BY <1>1, <2>1, <2>2 DEF NormBecomes
  <2>4. norm[n].result = "none" /\ Published(n) /\ ~HoldsAside(n)
    BY <1>1, <2>1 DEF AsideByStep, Published, HoldsAside
  <2>5. AsideByStep(n)'
    BY <2>3, <2>4 DEF NormBecomes, AsideByStep
  <2>6. QED
    BY <1>1, <1>3, <2>1, <2>3, <2>4, <2>5 DEF NormSteps
<1>9. CASE QuietStep(n) /\ ~(ReadKnowledge(n) \/ CheckOut(n) \/ MoveInFails(n) \/ DropAside(n))
  <2>1. PICK from \in NormSteps \ {"done"}, outcome \in NormResults \ {"none"} :
          /\ NormEnds(n, from, outcome)
          /\ \/ from \in {"read", "report_errors", "check_out", "move_aside", "drop_aside", "unlink_report"}
             \/ outcome \in {"killed", "not_put_back"}
             \/ from = "put_back" /\ ~(norm[n].aside # "none" /\ outDir = "none")
          /\ outcome = "ok" => from = "unlink_report"
    <3>1. CASE KillNormalizer(n)
      <4>1. norm[n].step \in NormSteps \ {"done"} /\ NormEnds(n, norm[n].step, "killed")
        BY <1>3, <3>1 DEF KillNormalizer, NormEnds
      <4>2. "killed" \in NormResults \ {"none"} /\ "killed" # "ok"
        BY DEF NormResults
      <4>3. QED
        BY <4>1, <4>2
    <3>2. CASE ReportErrors(n) \/ NormalizeFails(n) \/ MoveAsideFails(n)
      BY <3>2 DEF ReportErrors, NormalizeFails, MoveAsideFails, NormSteps, NormResults
    <3>3. CASE PutBackFails(n) \/ DropAsideFails(n) \/ UnlinkReport(n) \/ UnlinkReportFails(n)
      BY <3>3 DEF PutBackFails, DropAsideFails, UnlinkReport, UnlinkReportFails, NormSteps, NormResults
    <3>4. CASE MoveAside(n) /\ outDir = "none"
      BY <3>4 DEF MoveAside, NormSteps, NormResults
    <3>5. CASE PutBack(n) /\ ~(norm[n].aside # "none" /\ outDir = "none")
      BY <3>5 DEF PutBack, NormSteps, NormResults
    <3>6. QED
      BY <1>9, <3>1, <3>2, <3>3, <3>4, <3>5 DEF QuietStep
  <2>2. outDir' = outDir /\ report' \in {"none"} \cup Normalizers
    BY <1>1, <1>9 DEF QuietStep, ReportErrors, NormalizeFails, MoveAsideFails, PutBackFails, DropAsideFails,
       UnlinkReport, UnlinkReportFails, KillNormalizer, MoveAside, PutBack
  <2>3. QED
    BY <1>1, <1>3, <1>6, <2>1, <2>2 DEF NormSteps
<1>10. QED
  BY <1>4, <1>7, <1>8, <1>9

\* The three steps that change the place.
LEMMA PlaceEffect ==
  ASSUME NormInv, NEW n \in Normalizers, PlaceStep(n)
  PROVE  /\ report' = report /\ AsideByStep(n)'
         /\ \/ /\ outDir # "none" /\ outDir' = "none" /\ HoldsAside(n)' /\ ~Published(n)' /\ ~Published(n)
               /\ NormBecomes(n, "move_in", norm[n].made, outDir, norm[n].result)
            \/ /\ outDir = "none" /\ outDir' = n
               /\ \E now \in NormSteps : NormBecomes(n, now, norm[n].made, norm[n].aside, norm[n].result)
            \/ /\ norm[n].aside # "none" /\ outDir = "none" /\ outDir' = norm[n].aside
               /\ ~Published(n) /\ ~Published(n)'
               /\ NormBecomes(n, "done", norm[n].made, "none", "raised")
<1>1. norm[n] \in NormStates /\ DOMAIN norm = Normalizers /\ AsideByStep(n)
      /\ outDir \in {"none", "old"} \cup Normalizers
  BY DEF NormInv, NormTyped
<1>2. CASE MoveAside(n) /\ outDir # "none"
  <2> DEFINE now == [norm[n] EXCEPT !.step = "move_in", !.aside = outDir]
  <2>1. /\ norm' = [norm EXCEPT ![n] = now] /\ norm[n].step = "move_aside"
        /\ report' = report /\ outDir' = "none"
    BY <1>1, <1>2 DEF MoveAside
  <2>2. /\ now \in NormStates /\ now.step = "move_in" /\ now.made = norm[n].made
        /\ now.aside = outDir /\ now.result = norm[n].result
    BY <1>1 DEF NormStates, NormSteps
  <2> HIDE DEF now
  <2>3. NormBecomes(n, "move_in", norm[n].made, outDir, norm[n].result)
    BY <1>1, <2>1, <2>2 DEF NormBecomes
  <2>4. norm[n].result = "none" /\ ~Published(n)
    BY <1>1, <2>1 DEF AsideByStep, Published
  <2>5. AsideByStep(n)' /\ ~Published(n)' /\ HoldsAside(n)'
    BY <1>2, <2>3, <2>4 DEF NormBecomes, AsideByStep, Published, HoldsAside
  <2>6. QED
    BY <1>2, <2>1, <2>3, <2>4, <2>5
<1>3. CASE MoveIn(n)
  <2>1. PICK to \in {"unlink_report", "drop_aside"} : NormGoes(n, "move_in", to)
    BY <1>3 DEF MoveIn
  <2>2. to \in NormSteps /\ "move_in" \in NormSteps
    BY DEF NormSteps
  <2>3. NormBecomes(n, to, norm[n].made, norm[n].aside, norm[n].result)
    BY <2>1, <2>2, NormMoves DEF NormInv
  <2>4. norm[n].result = "none"
    BY <1>1, <2>1 DEF AsideByStep, NormGoes
  <2>5. AsideByStep(n)'
    BY <2>3, <2>4 DEF NormBecomes, AsideByStep
  <2>6. outDir = "none" /\ outDir' = n /\ report' = report
    BY <1>3 DEF MoveIn
  <2>7. QED
    BY <2>2, <2>3, <2>5, <2>6
<1>4. CASE PutBack(n) /\ norm[n].aside # "none" /\ outDir = "none"
  <2> DEFINE now == [norm[n] EXCEPT !.step = "done", !.result = "raised", !.aside = "none"]
  <2>1. /\ norm' = [norm EXCEPT ![n] = now] /\ norm[n].step = "put_back"
        /\ report' = report /\ outDir' = norm[n].aside
    BY <1>1, <1>4 DEF PutBack
  <2>2. /\ now \in NormStates /\ now.step = "done" /\ now.made = norm[n].made
        /\ now.aside = "none" /\ now.result = "raised"
    BY <1>1 DEF NormStates, NormSteps, NormResults
  <2> HIDE DEF now
  <2>3. NormBecomes(n, "done", norm[n].made, "none", "raised")
    BY <1>1, <2>1, <2>2 DEF NormBecomes
  <2>4. ~Published(n)
    BY <1>1, <2>1 DEF AsideByStep, Published
  <2>5. AsideByStep(n)' /\ ~Published(n)'
    BY <2>3 DEF NormBecomes, AsideByStep, Published
  <2>6. QED
    BY <1>4, <2>1, <2>3, <2>4, <2>5
<1>5. QED
  BY <1>2, <1>3, <1>4 DEF PlaceStep

\* Every step of a command keeps NormInv.
LEMMA NormStep ==
  ASSUME NormInv, NormalizerAssumption, NEW n \in Normalizers, QuietStep(n) \/ PlaceStep(n)
  PROVE  NormInv'
<1>1. \A m \in Normalizers : norm[m] \in NormStates /\ AsideByStep(m)
  BY DEF NormInv, NormTyped
<1>2. n # "none" /\ n # "old"
  BY DEF NormalizerAssumption
<1>3. ASSUME NEW now, NEW made, NEW aside, NEW outcome, NormBecomes(n, now, made, aside, outcome),
             outDir' \in {"none", "old"} \cup Normalizers, report' \in {"none"} \cup Normalizers,
             AsideByStep(n)'
      PROVE  NormTyped' /\ \A m \in Normalizers : AsideByStep(m)'
  <2>1. NormTyped'
    BY <1>1, <1>3 DEF NormBecomes, NormTyped
  <2>2. \A m \in Normalizers : m # n => AsideByStep(m)'
    BY <1>1, <1>3 DEF NormBecomes, AsideByStep
  <2>3. QED
    BY <1>3, <2>1, <2>2
<1>4. CASE QuietStep(n)
  <2>1. PICK now \in NormSteps, made \in Made, aside \in {norm[n].aside, "none"}, outcome \in NormResults :
              /\ NormBecomes(n, now, made, aside, outcome)
              /\ aside = norm[n].aside \/ Published(n)
              /\ outDir = "none" /\ HoldsAside(n) => HoldsAside(n)'
              /\ Published(n)' => Published(n)
              /\ AsideByStep(n)'
    BY <1>4, QuietEffect
  <2>2. outDir' = outDir /\ report' \in {"none"} \cup Normalizers
    BY <1>4, QuietEffect
  <2>3. NormTyped' /\ \A m \in Normalizers : AsideByStep(m)'
    BY <1>3, <2>1, <2>2 DEF NormInv, NormTyped
  <2>4. PlaceHeld' /\ NewStays'
    BY <2>1, <2>2, NormQuiet
  <2>5. QED
    BY <2>3, <2>4 DEF NormInv
<1>5. CASE PlaceStep(n)
  <2>1. report' \in {"none"} \cup Normalizers /\ AsideByStep(n)'
    BY <1>5, PlaceEffect DEF NormInv, NormTyped
  <2>2. outDir' \in {"none", "old"} \cup Normalizers
    BY <1>1, <1>5, PlaceEffect DEF NormInv, NormTyped, NormStates
  <2>3. \E now, made, aside, outcome : NormBecomes(n, now, made, aside, outcome)
    BY <1>5, PlaceEffect
  <2>4. NormTyped' /\ \A m \in Normalizers : AsideByStep(m)'
    BY <1>3, <2>1, <2>2, <2>3
  <2>5. \A m \in Normalizers : m # n => Published(m)' = Published(m) /\ norm'[m].aside = norm[m].aside
    BY <2>3 DEF NormBecomes, Published
  <2>6. PlaceHeld'
    BY <1>2, <1>5, PlaceEffect DEF PlaceHeld
  <2>7. NewStays'
    <3> SUFFICES ASSUME AtMostTwo, NEW m \in Normalizers, Published(m)'
                 PROVE  \/ outDir' \in Normalizers
                        \/ /\ outDir' = "none"
                           /\ \E k \in Normalizers : ~Published(k)' /\ norm'[k].aside \in Normalizers
      BY DEF NewStays
    <3>1. CASE outDir # "none" /\ outDir' = "none" /\ ~Published(n)' /\ norm'[n].aside = outDir
      <4>1. Published(m) /\ outDir \in Normalizers
        BY <2>5, <3>1 DEF NormInv, NewStays
      <4>2. QED
        BY <3>1, <4>1
    <3>2. CASE outDir' = n
      BY <3>2
    <3>3. CASE norm[n].aside # "none" /\ outDir = "none" /\ outDir' = norm[n].aside /\ ~Published(n) /\ ~Published(n)'
      <4>1. m # n /\ Published(m)
        BY <2>5, <3>3
      <4>2. PICK k \in Normalizers : ~Published(k) /\ norm[k].aside \in Normalizers
        BY <1>2, <3>3, <4>1, NormalizerAssumption DEF NormInv, NewStays
      <4>3. k = n
        BY <4>1, <4>2 DEF AtMostTwo
      <4>4. QED
        BY <3>3, <4>2, <4>3
    <3>4. QED
      BY <1>5, <3>1, <3>2, <3>3, PlaceEffect DEF NormBecomes
  <2>8. QED
    BY <2>4, <2>6, <2>7 DEF NormInv
<1>6. QED
  BY <1>4, <1>5

\* NormInv is inductive.
LEMMA NormInvCorrect == NormSpec => []NormInv
<1>1. NormInit => NormInv
  <2> SUFFICES ASSUME NormInit PROVE NormInv
    OBVIOUS
  <2>1. \A n \in Normalizers : norm[n] = [step |-> "read", made |-> <<>>, aside |-> "none", result |-> "none"]
    BY DEF NormInit
  <2>2. \A n \in Normalizers : norm[n] \in NormStates /\ AsideByStep(n) /\ ~Published(n) /\ norm[n].aside = "none"
    BY <2>1 DEF NormStates, NormSteps, NormResults, Made, AsideByStep, Published
  <2>3. NormTyped
    BY <2>2 DEF NormInit, NormTyped
  <2>4. QED
    BY <2>2, <2>3 DEF NormInv, PlaceHeld, NewStays
<1>2. NormInv /\ [NormNext]_normVars => NormInv'
  <2> SUFFICES ASSUME NormInv, [NormNext]_normVars PROVE NormInv'
    OBVIOUS
  <2>1. CASE NormNext
    <3>1. PICK n \in Normalizers : QuietStep(n) \/ PlaceStep(n)
      BY <2>1 DEF NormNext, QuietStep, PlaceStep
    <3>2. QED
      BY <3>1, NormStep, NormalizerAssumption
  <2>2. CASE UNCHANGED normVars
    BY <2>2 DEF normVars, NormInv, NormTyped, AsideByStep, PlaceHeld, NewStays, Published, HoldsAside
  <2>3. QED
    BY <2>1, <2>2
<1>3. QED
  BY <1>1, <1>2, PTL DEF NormSpec

\* What commands have moved aside and put in place are directories of before or of theirs.
THEOREM NormTypeCorrect == NormSpec => []NormTypeOK
<1>1. NormInv => NormTypeOK
  BY DEF NormInv, NormTyped, NormStates, NormTypeOK
<1>2. QED
  BY <1>1, NormInvCorrect, PTL

\* Whatever commands publish at once and wherever they fail or die: what is in place has no
\* chunk twice, and index-dir takes it unless it is empty or a text is split; what was there is missing only while a command holds it;
\* and of two commands none brings back the old directory after the other has said ok.
\* (normalize_knowledge, _publish_directory)
THEOREM NormalizedInPlaceCorrect == NormSpec => []NormalizedInPlace
<1>1. NormInv => NormalizedInPlace
  <2> SUFFICES ASSUME NormInv PROVE NormalizedInPlace
    OBVIOUS
  <2>1. ASSUME NEW n \in Normalizers
        PROVE  \A h, k \in DOMAIN norm[n].made : h # k => norm[n].made[h].id # norm[n].made[k].id
    <3>1. norm[n].made \in Made
      BY DEF NormInv, NormTyped, NormStates
    <3>2. CASE norm[n].made = <<>>
      BY <3>2
    <3>3. CASE norm[n].made # <<>>
      <4>1. PICK given \in Inputs : ~Faulty(given) /\ norm[n].made = NormalizedLines(given.lines)
        BY <3>1, <3>3 DEF Made
      <4>2. QED
        BY <4>1, NormalizedOnce, NormalizerAssumption
    <3>4. QED
      BY <3>2, <3>3
  <2>2. ASSUME outDir = "none"
        PROVE  \/ \E n \in Normalizers : HoldsAside(n)
               \/ \A n \in Normalizers : norm[n].aside = "none" /\ norm[n].result # "ok"
    BY <2>2 DEF NormInv, PlaceHeld, Published
  <2>3. ASSUME AtMostTwo, NEW n \in Normalizers, norm[n].result = "ok" PROVE outDir # "old"
    BY <2>3, NormalizerAssumption DEF NormInv, NewStays, Published
  <2>4. QED
    BY <2>1, <2>2, <2>3 DEF NormalizedInPlace, Loadable
<1>2. QED
  BY <1>1, NormInvCorrect, PTL

(***************************************************************************)
(* EvaluationRun, for any runs, cases, configurations and number of        *)
(* resumes.  What results.jsonl tells agrees with what the process of the   *)
(* run holds at every step (CaseHeld), so that a resume goes on where the   *)
(* lines end; and while a run holds the lock of the workbook, the workbook  *)
(* is its snapshot, or its snapshot and its own fill (BackfillHolds).       *)
(***************************************************************************)
Recording == {"answer", "judge"}
Backfilling == {"locked", "checked", "replaced"}
Reporting == Backfilling \cup {"report", "candidate", "finished"}

Writers == Evals \cup {"user"}
Statuses == Final \cup {"todo", "answered"}
CaseStates == [state : Statuses, asked : Nat]
LinesOf(e) == [case : CasesOf[e], status : Final, asked : Nat, config : ConfigsOf[e] \cup {NoConfig},
               form : {"line", "open", "torn"}]

RunTyped(e) ==
  /\ phase[e] \in Phases
  /\ picked[e] \subseteq CasesOf[e]
  /\ config[e] \in ConfigsOf[e] \cup {NoConfig} /\ meta[e] \in ConfigsOf[e] \cup {NoConfig}
  /\ starts[e] \in 0..MaxStarts[e]
  /\ result[e] \in [CasesOf[e] -> CaseStates]
  /\ lines[e] \in Seq(LinesOf(e))
  /\ input[e] \in Seq(Writers)

EvalTables ==
  /\ phase = [e \in Evals |-> phase[e]]
  /\ DOMAIN phase = Evals /\ DOMAIN picked = Evals /\ DOMAIN config = Evals /\ DOMAIN meta = Evals
  /\ DOMAIN starts = Evals /\ DOMAIN result = Evals /\ DOMAIN lines = Evals /\ DOMAIN input = Evals

(***************************************************************************)
(* The lines of one run                                                    *)
(***************************************************************************)
\* k is the latest of the lines of case c.
LatestLine(ls, c, k) ==
  /\ k \in DOMAIN ls /\ ls[k].case = c
  /\ \A h \in DOMAIN ls : ls[h].case = c => h <= k

OnRecord(ls, c) == \E k \in DOMAIN ls : ls[k].case = c
AllWhole(ls) == \A k \in DOMAIN ls : ls[k].form # "torn"

\* No line follows one of its case that is final for resuming, nor one of another answer.
OneAnswer(ls) ==
  \A h, k \in DOMAIN ls :
    h < k /\ ls[h].form # "torn" /\ ls[k].form # "torn" /\ ls[h].case = ls[k].case =>
      ls[h].status = "judge_failed" /\ ls[h].asked = ls[k].asked

\* What the process holds of a case and what the lines tell of it.
CaseHeld(ls, own, c) ==
  /\ own.state = "todo" => \A k \in DOMAIN ls : ls[k].form # "torn" => ls[k].case # c
  /\ own.state = "answered" =>
       \A k \in DOMAIN ls : ls[k].form # "torn" /\ ls[k].case = c =>
         ls[k].status = "judge_failed" /\ ls[k].asked = own.asked

CaseTold(ls, own, c) ==
  own.state \in Final /\ AllWhole(ls) =>
    \E k \in DOMAIN ls : LatestLine(ls, c, k) /\ ls[k].status = own.state

\* The fingerprint of a run is that of all its lines.
MetaTold(e) ==
  /\ phase[e] \in {"new", "snapped"} =>
       lines[e] = <<>> /\ meta[e] = NoConfig /\ \A c \in CasesOf[e] : result[e][c].state = "todo"
  /\ phase[e] = "snapped" => config[e] # NoConfig
  /\ phase[e] \in Recording => config[e] = meta[e]
  /\ \A k \in DOMAIN lines[e] : lines[e][k].form # "torn" => lines[e][k].config = meta[e]

CasesTold(e) ==
  /\ OneAnswer(lines[e])
  /\ \A c \in CasesOf[e] : OnRecord(lines[e], c) => \E k \in DOMAIN lines[e] : LatestLine(lines[e], c, k)
  /\ phase[e] \in Recording => \A c \in CasesOf[e] : CaseHeld(lines[e], result[e][c], c)
  /\ phase[e] \in Recording \cup Reporting => \A c \in CasesOf[e] : CaseTold(lines[e], result[e][c], c)

\* The phases go on only when no case is left behind.
PhasesEnd(e) ==
  /\ phase[e] = "judge" => \A c \in picked[e] : result[e][c].state # "todo"
  /\ phase[e] \in Reporting => \A c \in picked[e] : result[e][c].state \in Final

RunInv(e) == RunTyped(e) /\ MetaTold(e) /\ CasesTold(e) /\ PhasesEnd(e)

(***************************************************************************)
(* The workbook                                                            *)
(***************************************************************************)
\* Nothing but what a user saved stands behind base.
UserBehind(seq, base) ==
  /\ Len(base) <= Len(seq)
  /\ \A k \in DOMAIN base : seq[k] = base[k]
  /\ \A k \in DOMAIN seq : k > Len(base) => seq[k] = "user"

BackfillHolds ==
  \A e \in Evals :
    /\ phase[e] \in Backfilling <=> wlock = e
    /\ phase[e] \in {"checked", "replaced"} => compared = input[e]
    /\ phase[e] = "checked" => UserBehind(workbook, input[e])
    /\ phase[e] = "replaced" => UserBehind(workbook, Append(input[e], e))

WorkbookTyped == workbook \in Seq(Writers) /\ wlock \in Evals \cup {"free"}

EvalInv == EvalTables /\ (\A e \in Evals : RunInv(e)) /\ WorkbookTyped /\ BackfillHolds

(***************************************************************************)
(* What a write to results.jsonl leaves                                    *)
(***************************************************************************)
\* A line is added behind the others, or lost with the open line before it.
Added(ls, line, longer) ==
  /\ Len(longer) = Len(ls) + 1 /\ longer[Len(longer)] = line
  /\ \A k \in DOMAIN ls : longer[k] = ls[k]

LineTorn(ls, after) ==
  /\ Len(ls) # 0 /\ Len(after) = Len(ls)
  /\ after[Len(ls)].form = "torn" /\ after[Len(ls)].case = ls[Len(ls)].case
  /\ \A k \in DOMAIN ls : k # Len(ls) => after[k] = ls[k]

\* A write adds its line, or tears the line before it, and keeps the rest.
LEMMA LineWritten ==
  ASSUME NEW e, NEW ls \in Seq(LinesOf(e)), NEW line \in LinesOf(e)
  PROVE  /\ Extended(ls, line) \in Seq(LinesOf(e))
         /\ Added(ls, line, Extended(ls, line)) \/ LineTorn(ls, Extended(ls, line))
<1>1. CASE ls # <<>> /\ Last(ls).form = "open"
  <2>1. Len(ls) \in Nat /\ Len(ls) # 0 /\ DOMAIN ls = 1..Len(ls) /\ ls[Len(ls)] \in LinesOf(e)
    BY <1>1
  <2> DEFINE after == [ls EXCEPT ![Len(ls)].form = "torn"]
  <2>2. after = [ls EXCEPT ![Len(ls)] = [ls[Len(ls)] EXCEPT !.form = "torn"]]
    OBVIOUS
  <2> DEFINE torn == [ls[Len(ls)] EXCEPT !.form = "torn"]
  <2>3. torn \in LinesOf(e) /\ torn.form = "torn" /\ torn.case = ls[Len(ls)].case
    BY <2>1 DEF LinesOf
  <2>4. after \in Seq(LinesOf(e)) /\ Len(after) = Len(ls) /\ after[Len(ls)] = torn
        /\ \A k \in DOMAIN ls : k # Len(ls) => after[k] = ls[k]
    <3> HIDE DEF torn
    <3>1. after = [ls EXCEPT ![Len(ls)] = torn]
      BY <2>2 DEF torn
    <3> HIDE DEF after
    <3>2. QED
      BY <2>1, <2>3, <3>1
  <2>5. Extended(ls, line) = after
    BY <1>1 DEF Extended
  <2> HIDE DEF after, torn
  <2>6. QED
    BY <1>1, <2>3, <2>4, <2>5 DEF LineTorn
<1>2. CASE ~(ls # <<>> /\ Last(ls).form = "open")
  <2>1. Extended(ls, line) = Append(ls, line)
    BY <1>2 DEF Extended
  <2>2. QED
    BY <2>1 DEF Added
<1>3. QED
  BY <1>1, <1>2

\* The latest line of each case is still the last of its lines.
LEMMA LatestKept ==
  ASSUME NEW e, NEW ls \in Seq(LinesOf(e)), NEW line \in LinesOf(e), NEW c,
         \A d \in CasesOf[e] : OnRecord(ls, d) => \E k \in DOMAIN ls : LatestLine(ls, d, k), c \in CasesOf[e],
         OnRecord(Extended(ls, line), c)
  PROVE  \E k \in DOMAIN Extended(ls, line) : LatestLine(Extended(ls, line), c, k)
<1> DEFINE after == Extended(ls, line)
<1>1. after \in Seq(LinesOf(e)) /\ (Added(ls, line, after) \/ LineTorn(ls, after))
  BY LineWritten
<1> HIDE DEF after
<1>2. DOMAIN ls = 1..Len(ls) /\ DOMAIN after = 1..Len(after) /\ Len(ls) \in Nat /\ Len(after) \in Nat
  BY <1>1
<1>3. CASE Added(ls, line, after) /\ line.case = c
  <2>1. LatestLine(after, c, Len(after)) /\ Len(after) \in DOMAIN after
    BY <1>2, <1>3 DEF LatestLine, Added
  <2>2. QED
    BY <2>1 DEF after
<1>4. CASE Added(ls, line, after) /\ line.case # c
  <2>1. OnRecord(ls, c)
    BY <1>2, <1>4 DEF OnRecord, Added, after
  <2>2. PICK k \in DOMAIN ls : LatestLine(ls, c, k)
    BY <2>1
  <2>3. LatestLine(after, c, k) /\ k \in DOMAIN after
    BY <1>2, <1>4, <2>2 DEF LatestLine, Added
  <2>4. QED
    BY <2>3 DEF after
<1>5. CASE LineTorn(ls, after)
  <2>1. \A k \in DOMAIN ls : after[k].case = ls[k].case
    BY <1>2, <1>5 DEF LineTorn
  <2>2. DOMAIN after = DOMAIN ls
    BY <1>2, <1>5 DEF LineTorn
  <2>3. OnRecord(ls, c)
    BY <2>1, <2>2 DEF OnRecord, after
  <2>4. PICK k \in DOMAIN ls : LatestLine(ls, c, k)
    BY <2>3
  <2>5. LatestLine(after, c, k)
    BY <2>1, <2>2, <2>4 DEF LatestLine
  <2>6. QED
    BY <2>2, <2>5 DEF after
<1>6. QED
  BY <1>1, <1>3, <1>4, <1>5

\* What is readable after a write is readable in every line, and ends with the new one.
LEMMA WholeWritten ==
  ASSUME NEW e, NEW ls \in Seq(LinesOf(e)), NEW line \in LinesOf(e), AllWhole(Extended(ls, line))
  PROVE  AllWhole(ls) /\ Added(ls, line, Extended(ls, line))
<1> DEFINE after == Extended(ls, line)
<1>1. after \in Seq(LinesOf(e)) /\ (Added(ls, line, after) \/ LineTorn(ls, after))
  BY LineWritten
<1>2. AllWhole(after)
  OBVIOUS
<1> HIDE DEF after
<1>3. DOMAIN ls = 1..Len(ls) /\ DOMAIN after = 1..Len(after) /\ Len(ls) \in Nat /\ Len(after) \in Nat
  BY <1>1
<1>4. ~LineTorn(ls, after)
  <2> SUFFICES ASSUME LineTorn(ls, after) PROVE FALSE
    OBVIOUS
  <2>1. Len(ls) \in DOMAIN after /\ after[Len(ls)].form = "torn"
    BY <1>3 DEF LineTorn
  <2>2. QED
    BY <1>2, <2>1 DEF AllWhole
<1>5. AllWhole(ls)
  <2>1. Added(ls, line, after)
    BY <1>1, <1>4
  <2>2. \A k \in DOMAIN ls : k \in DOMAIN after /\ after[k] = ls[k]
    BY <1>3, <2>1 DEF Added
  <2>3. QED
    BY <1>2, <2>2 DEF AllWhole
<1>6. QED
  BY <1>1, <1>4, <1>5 DEF after

\* Every whole line after a write was there, or is the new one, behind the others.
LEMMA WholeLines ==
  ASSUME NEW e, NEW ls \in Seq(LinesOf(e)), NEW line \in LinesOf(e),
         NEW k \in DOMAIN Extended(ls, line), Extended(ls, line)[k].form # "torn"
  PROVE  \/ k \in DOMAIN ls /\ Extended(ls, line)[k] = ls[k]
         \/ /\ k = Len(ls) + 1 /\ Extended(ls, line)[k] = line
            /\ \A h \in DOMAIN Extended(ls, line) : h <= k
<1> DEFINE after == Extended(ls, line)
<1>1. after \in Seq(LinesOf(e)) /\ (Added(ls, line, after) \/ LineTorn(ls, after))
  BY LineWritten
<1>2. k \in DOMAIN after /\ after[k].form # "torn"
  OBVIOUS
<1> HIDE DEF after
<1>3. DOMAIN ls = 1..Len(ls) /\ DOMAIN after = 1..Len(after) /\ Len(ls) \in Nat /\ Len(after) \in Nat
  BY <1>1
<1>4. \/ k \in DOMAIN ls /\ after[k] = ls[k]
      \/ k = Len(ls) + 1 /\ after[k] = line /\ \A h \in DOMAIN after : h <= k
  <2>1. CASE Added(ls, line, after)
    <3>1. k \in DOMAIN ls \/ k = Len(after)
      BY <1>2, <1>3, <2>1 DEF Added
    <3>2. QED
      BY <1>3, <2>1, <3>1 DEF Added
  <2>2. CASE LineTorn(ls, after)
    <3>1. k \in DOMAIN ls /\ k # Len(ls)
      BY <1>2, <1>3, <2>2 DEF LineTorn
    <3>2. QED
      BY <2>2, <3>1 DEF LineTorn
  <2>3. QED
    BY <1>1, <2>1, <2>2
<1>5. QED
  BY <1>4 DEF after
\* A line of an answer that only failed judgements are told of keeps one answer.
LEMMA OneAnswerKept ==
  ASSUME NEW e, NEW ls \in Seq(LinesOf(e)), NEW line \in LinesOf(e), OneAnswer(ls),
         \A k \in DOMAIN ls : ls[k].form # "torn" /\ ls[k].case = line.case =>
           ls[k].status = "judge_failed" /\ ls[k].asked = line.asked
  PROVE  OneAnswer(Extended(ls, line))
<1> DEFINE after == Extended(ls, line)
<1> SUFFICES ASSUME NEW h \in DOMAIN after, NEW k \in DOMAIN after, h < k,
                    after[h].form # "torn", after[k].form # "torn", after[h].case = after[k].case
             PROVE  after[h].status = "judge_failed" /\ after[h].asked = after[k].asked
  BY DEF OneAnswer
<1>1. \/ k \in DOMAIN ls /\ after[k] = ls[k]
      \/ k = Len(ls) + 1 /\ after[k] = line /\ \A i \in DOMAIN after : i <= k
  BY WholeLines
<1>2. \/ h \in DOMAIN ls /\ after[h] = ls[h]
      \/ h = Len(ls) + 1 /\ after[h] = line /\ \A i \in DOMAIN after : i <= h
  BY WholeLines
<1>3. after \in Seq(LinesOf(e))
  BY LineWritten
<1> HIDE DEF after
<1>4. h \in Nat /\ k \in Nat
  BY <1>3
<1>5. h \in DOMAIN ls /\ after[h] = ls[h]
  BY <1>2, <1>4
<1>6. CASE k \in DOMAIN ls /\ after[k] = ls[k]
  BY <1>5, <1>6 DEF OneAnswer
<1>7. CASE k = Len(ls) + 1 /\ after[k] = line
  BY <1>5, <1>7
<1>8. QED
  BY <1>1, <1>6, <1>7

\* What the lines tell of another case is what they told.
LEMMA OtherCaseKept ==
  ASSUME NEW e, NEW ls \in Seq(LinesOf(e)), NEW line \in LinesOf(e), NEW c, c # line.case, NEW own
  PROVE  /\ CaseHeld(ls, own, c) => CaseHeld(Extended(ls, line), own, c)
         /\ CaseTold(ls, own, c) => CaseTold(Extended(ls, line), own, c)
<1> DEFINE after == Extended(ls, line)
<1>1. ASSUME NEW k \in DOMAIN after, after[k].form # "torn", after[k].case = c
      PROVE  k \in DOMAIN ls /\ after[k] = ls[k]
  BY <1>1, WholeLines
<1>2. CaseHeld(ls, own, c) => CaseHeld(after, own, c)
  <2> HIDE DEF after
  <2>1. QED
    BY <1>1 DEF CaseHeld
<1>3. ASSUME CaseTold(ls, own, c), own.state \in Final, AllWhole(after)
      PROVE  \E k \in DOMAIN after : LatestLine(after, c, k) /\ after[k].status = own.state
  <2>1. AllWhole(ls) /\ Added(ls, line, after)
    BY <1>3, WholeWritten
  <2>2. after \in Seq(LinesOf(e))
    BY LineWritten
  <2> HIDE DEF after
  <2>3. PICK k \in DOMAIN ls : LatestLine(ls, c, k) /\ ls[k].status = own.state
    BY <1>3, <2>1 DEF CaseTold
  <2>4. k \in DOMAIN after /\ after[k] = ls[k]
    BY <2>1, <2>2, <2>3 DEF Added
  <2>5. \A h \in DOMAIN after : (h \in DOMAIN ls /\ after[h] = ls[h]) \/ after[h] = line
    BY <2>1, <2>2 DEF Added
  <2>6. LatestLine(after, c, k)
    BY <2>3, <2>4, <2>5 DEF LatestLine
  <2>7. QED
    BY <2>3, <2>4, <2>6
<1>4. CaseTold(ls, own, c) => CaseTold(after, own, c)
  BY <1>3 DEF CaseTold
<1>5. QED
  BY <1>2, <1>4

\* The case that was recorded is told as it was recorded.
LEMMA RecordedTold ==
  ASSUME NEW e, NEW ls \in Seq(LinesOf(e)), NEW line \in LinesOf(e), NEW own, own.state = line.status
  PROVE  CaseTold(Extended(ls, line), own, line.case)
<1> DEFINE after == Extended(ls, line)
<1> SUFFICES ASSUME AllWhole(after)
             PROVE  \E k \in DOMAIN after : LatestLine(after, line.case, k) /\ after[k].status = own.state
  BY DEF CaseTold
<1>1. Added(ls, line, after) /\ after \in Seq(LinesOf(e))
  BY LineWritten, WholeWritten
<1> HIDE DEF after
<1>2. LatestLine(after, line.case, Len(after)) /\ after[Len(after)].status = own.state /\ Len(after) \in DOMAIN after
  BY <1>1 DEF Added, LatestLine
<1>3. QED
  BY <1>2

\* Every whole line after the write is of the configuration all are of.
LEMMA ConfigKept ==
  ASSUME NEW e, NEW ls \in Seq(LinesOf(e)), NEW line \in LinesOf(e),
         \A k \in DOMAIN ls : ls[k].form # "torn" => ls[k].config = line.config
  PROVE  \A k \in DOMAIN Extended(ls, line) :
           Extended(ls, line)[k].form # "torn" => Extended(ls, line)[k].config = line.config
BY WholeLines

(***************************************************************************)
(* One step of one run                                                     *)
(***************************************************************************)
KeptAt(d) ==
  /\ phase'[d] = phase[d] /\ picked'[d] = picked[d] /\ config'[d] = config[d] /\ meta'[d] = meta[d]
  /\ starts'[d] = starts[d] /\ result'[d] = result[d] /\ lines'[d] = lines[d] /\ input'[d] = input[d]

\* A step of one run leaves the others' state alone.
LEMMA EvalStepLocal ==
  ASSUME EvalTables, NEW e \in Evals, EvalStep(e)
  PROVE  EvalTables' /\ \A d \in Evals : d # e => KeptAt(d)
<1> USE DEF EvalTables, KeptAt, EvalGoes, OnlyPhase
<1>1. CASE Snapshot(e)
  BY <1>1 DEF Snapshot, Starts
<1>2. CASE WriteMetadata(e)
  BY <1>2 DEF WriteMetadata
<1>3. CASE Resume(e)
  BY <1>3 DEF Resume, Starts
<1>4. CASE \E c \in picked[e] : CaseStep(e, c)
  BY <1>4 DEF CaseStep, AnswerCase, AnswerCaseFails, JudgeCase, Record
<1>5. CASE EndAnswers(e) \/ EndJudging(e) \/ WriteReport(e) \/ TakeWorkbook(e) \/ ReplaceWorkbook(e) \/ EndBackfill(e)
  BY <1>5 DEF EndAnswers, EndJudging, WriteReport, TakeWorkbook, ReplaceWorkbook, EndBackfill
<1>6. CASE AppendBreaks(e) \/ VerifyFails(e) \/ BackfillFails(e) \/ Die(e)
  BY <1>6 DEF AppendBreaks, VerifyFails, BackfillFails, Die, Exit
<1>7. CASE CheckWorkbook(e)
  BY <1>7 DEF CheckWorkbook, Exit
<1>8. QED
  BY <1>1, <1>2, <1>3, <1>4, <1>5, <1>6, <1>7 DEF EvalStep

\* What holds of a run whose state is left alone still holds of it.
LEMMA RunElsewhere ==
  ASSUME NEW d \in Evals, RunInv(d), KeptAt(d)
  PROVE  RunInv(d)'
<1> USE DEF KeptAt
<1>1. RunTyped(d)'
  BY DEF RunInv, RunTyped
<1>2. MetaTold(d)'
  BY DEF RunInv, MetaTold
<1>3. CasesTold(d)'
  BY DEF RunInv, CasesTold
<1>4. PhasesEnd(d)'
  BY DEF RunInv, PhasesEnd
<1>5. QED
  BY <1>1, <1>2, <1>3, <1>4 DEF RunInv
\* A run that only moves on, when its cases allow it.
LEMMA RunMoves ==
  ASSUME NEW e \in Evals, RunInv(e),
         NEW from, NEW to, phase[e] = from, phase'[e] = to,
         picked'[e] = picked[e], config'[e] = config[e], meta'[e] = meta[e], starts'[e] = starts[e],
         result'[e] = result[e], lines'[e] = lines[e], input'[e] = input[e],
         \/ from = "answer" /\ to = "judge" /\ \A c \in picked[e] : result[e][c].state # "todo"
         \/ from = "judge" /\ to = "report" /\ \A c \in picked[e] : result[e][c].state # "answered"
         \/ from \in Reporting /\ to \in Reporting
  PROVE  RunInv(e)'
<1> USE DEF RunInv, Recording, Reporting, Backfilling
<1>1. to \in Recording \cup Reporting /\ (to \in Recording => from \in Recording)
      /\ from \in Recording \cup Reporting
  OBVIOUS
<1>2. RunTyped(e)'
  BY DEF RunTyped, Phases, Dead
<1>3. MetaTold(e)'
  BY <1>1 DEF MetaTold
<1>4. CasesTold(e)'
  BY <1>1 DEF CasesTold
<1>5. \A c \in picked[e] : result[e][c].state \in Statuses
  BY DEF RunTyped, CaseStates
<1>6. PhasesEnd(e)'
  BY <1>5 DEF PhasesEnd, Statuses
<1>7. QED
  BY <1>2, <1>3, <1>4, <1>6

\* A process that ends, with its lines as they were or with what it was writing.
LEMMA RunEnds ==
  ASSUME NEW e \in Evals, RunInv(e), EvalTables, Exit(e), phase'[e] \in {"failed", "crashed"},
         meta'[e] = meta[e], starts'[e] = starts[e], input'[e] = input[e],
         \/ lines'[e] = lines[e]
         \/ /\ lines'[e] \in Seq(LinesOf(e))
            /\ OneAnswer(lines'[e])
            /\ \A c \in CasesOf[e] : OnRecord(lines'[e], c) => \E k \in DOMAIN lines'[e] : LatestLine(lines'[e], c, k)
            /\ \A k \in DOMAIN lines'[e] : lines'[e][k].form # "torn" => lines'[e][k].config = meta[e]
  PROVE  RunInv(e)'
<1>1. config'[e] = NoConfig /\ picked'[e] = {} /\ result'[e] = [c \in CasesOf[e] |-> Todo]
  BY DEF Exit, EvalTables
<1>2. Todo \in CaseStates
  BY DEF Todo, CaseStates, Statuses
<1>3. RunTyped(e)'
  BY <1>1, <1>2 DEF RunInv, RunTyped, Phases, Dead
<1>4. MetaTold(e)'
  BY DEF RunInv, MetaTold, Recording
<1>5. CasesTold(e)'
  BY DEF RunInv, CasesTold, Recording, Reporting, Backfilling
<1>6. PhasesEnd(e)'
  BY DEF PhasesEnd, Reporting, Backfilling
<1>7. QED
  BY <1>3, <1>4, <1>5, <1>6 DEF RunInv

\* The snapshot of a new run.
LEMMA RunSnapped ==
  ASSUME NEW e \in Evals, EvaluationAssumption, RunInv(e), EvalTables, WorkbookTyped, Snapshot(e)
  PROVE  RunInv(e)'
<1>1. /\ phase[e] = "new" /\ phase'[e] = "snapped" /\ input'[e] = workbook
      /\ meta'[e] = meta[e] /\ lines'[e] = lines[e] /\ result'[e] = result[e]
      /\ picked'[e] \subseteq CasesOf[e] /\ config'[e] \in ConfigsOf[e]
      /\ starts'[e] = starts[e] + 1 /\ starts[e] < MaxStarts[e]
  BY DEF Snapshot, EvalGoes, Starts, EvalTables
<1>2. MaxStarts[e] \in Nat
  BY EvaluationAssumption
<1>3. RunTyped(e)'
  BY <1>1, <1>2 DEF RunInv, RunTyped, Phases, Dead, WorkbookTyped
<1>4. config'[e] # NoConfig
  BY <1>1, EvaluationAssumption
<1>5. MetaTold(e)'
  BY <1>1, <1>4 DEF RunInv, MetaTold, Recording
<1>6. CasesTold(e)'
  BY <1>1 DEF RunInv, CasesTold, Recording, Reporting, Backfilling
<1>7. PhasesEnd(e)'
  BY <1>1 DEF PhasesEnd, Reporting, Backfilling
<1>8. QED
  BY <1>3, <1>5, <1>6, <1>7 DEF RunInv
\* The fingerprint is written before anything is asked.
LEMMA RunFingerprinted ==
  ASSUME NEW e \in Evals, RunInv(e), EvalTables, WriteMetadata(e)
  PROVE  RunInv(e)'
<1>1. /\ phase[e] = "snapped" /\ phase'[e] = "answer" /\ input'[e] = input[e]
      /\ meta'[e] = config[e] /\ lines'[e] = lines[e] /\ result'[e] = result[e]
      /\ picked'[e] = picked[e] /\ config'[e] = config[e] /\ starts'[e] = starts[e]
  BY DEF WriteMetadata, EvalGoes, EvalTables
<1>2. lines[e] = <<>> /\ \A c \in CasesOf[e] : result[e][c].state = "todo"
  BY <1>1 DEF RunInv, MetaTold
<1>3. RunTyped(e)'
  BY <1>1 DEF RunInv, RunTyped, Phases, Dead
<1>4. MetaTold(e)'
  BY <1>1, <1>2 DEF RunInv, MetaTold, Recording
<1>5. \A c \in CasesOf[e] : CaseHeld(lines[e], result[e][c], c) /\ CaseTold(lines[e], result[e][c], c)
  BY <1>2 DEF CaseHeld, CaseTold, Final
<1>6. CasesTold(e)'
  BY <1>1, <1>5 DEF RunInv, CasesTold
<1>7. PhasesEnd(e)'
  BY <1>1 DEF PhasesEnd, Reporting, Backfilling
<1>8. QED
  BY <1>3, <1>4, <1>6, <1>7 DEF RunInv

\* The latest line of a case is the one Latest finds.
LEMMA LatestFound ==
  ASSUME NEW e, NEW c, NEW k, LatestLine(lines[e], c, k), lines[e] \in Seq(LinesOf(e))
  PROVE  Of(e, c) # {} /\ Latest(e, c) = lines[e][k]
<1>1. k \in Of(e, c) /\ \A h \in Of(e, c) : h <= k
  BY DEF LatestLine, Of
<1>2. \A h \in Of(e, c) : h \in Nat
  BY DEF Of
<1>3. \A i \in Of(e, c) : (\A h \in Of(e, c) : h <= i) => i = k
  BY <1>1, <1>2
<1>4. (CHOOSE i \in Of(e, c) : \A h \in Of(e, c) : h <= i) = k
  BY <1>1, <1>3
<1>5. QED
  BY <1>1, <1>4 DEF Latest

\* A resume holds of each case what its lines tell.
LEMMA CaseResumed ==
  ASSUME NEW e \in Evals, RunInv(e), Readable(e), NEW c \in CasesOf[e]
  PROVE  /\ Resumed(e, c) \in CaseStates
         /\ CaseHeld(lines[e], Resumed(e, c), c) /\ CaseTold(lines[e], Resumed(e, c), c)
<1>1. lines[e] \in Seq(LinesOf(e)) /\ OneAnswer(lines[e])
  BY DEF RunInv, RunTyped, CasesTold
<1>2. CASE Of(e, c) = {}
  <2>1. Resumed(e, c) = Todo /\ \A k \in DOMAIN lines[e] : lines[e][k].case # c
    BY <1>2 DEF Resumed, Of
  <2>2. QED
    BY <2>1 DEF Todo, CaseStates, Statuses, CaseHeld, CaseTold, Final
<1>3. CASE Of(e, c) # {}
  <2>1. OnRecord(lines[e], c)
    BY <1>3 DEF Of, OnRecord
  <2>2. PICK k \in DOMAIN lines[e] : LatestLine(lines[e], c, k)
    BY <2>1 DEF RunInv, CasesTold
  <2>3. Latest(e, c) = lines[e][k]
    BY <1>1, <2>2, LatestFound
  <2>4. lines[e][k] \in LinesOf(e) /\ lines[e][k].case = c /\ lines[e][k].form # "torn"
    BY <1>1, <2>2 DEF LatestLine, Readable
  <2>5. /\ Resumed(e, c).state = IF lines[e][k].status = "judge_failed" THEN "answered" ELSE lines[e][k].status
        /\ Resumed(e, c).asked = lines[e][k].asked
        /\ Resumed(e, c) \in CaseStates
    BY <1>3, <2>3, <2>4 DEF Resumed, LinesOf, CaseStates, Statuses, Final
  <2>6. \A h \in DOMAIN lines[e] : lines[e][h].form # "torn" /\ lines[e][h].case = c /\ h # k =>
          lines[e][h].status = "judge_failed" /\ lines[e][h].asked = lines[e][k].asked
    <3>1. ASSUME NEW h \in DOMAIN lines[e], lines[e][h].form # "torn", lines[e][h].case = c, h # k
          PROVE  h < k
      BY <1>1, <2>2, <3>1 DEF LatestLine
    <3>2. QED
      BY <1>1, <2>4, <3>1 DEF OneAnswer
  <2>7. CaseHeld(lines[e], Resumed(e, c), c)
    BY <2>4, <2>5, <2>6 DEF CaseHeld, LinesOf, Final
  <2>8. CaseTold(lines[e], Resumed(e, c), c)
    BY <2>2, <2>5 DEF CaseTold, Final
  <2>9. QED
    BY <2>5, <2>7, <2>8
<1>4. QED
  BY <1>2, <1>3

\* A resume of a run with the fingerprint it had, whose lines can be read.
LEMMA RunResumes ==
  ASSUME NEW e \in Evals, EvaluationAssumption, RunInv(e), EvalTables, Resume(e)
  PROVE  RunInv(e)'
<1>1. /\ phase[e] \in Dead \ {"new"} /\ phase'[e] = "answer" /\ input'[e] = input[e]
      /\ meta'[e] = meta[e] /\ lines'[e] = lines[e] /\ config'[e] = meta[e]
      /\ picked'[e] \subseteq CasesOf[e] /\ config'[e] \in ConfigsOf[e]
      /\ starts'[e] = starts[e] + 1 /\ starts[e] < MaxStarts[e] /\ Readable(e)
      /\ result'[e] = [c \in CasesOf[e] |-> Resumed(e, c)]
  BY DEF Resume, EvalGoes, Starts, EvalTables
<1>2. MaxStarts[e] \in Nat
  BY EvaluationAssumption
<1>3. \A c \in CasesOf[e] : Resumed(e, c) \in CaseStates
  BY <1>1, CaseResumed
<1>4. RunTyped(e)'
  BY <1>1, <1>2, <1>3 DEF RunInv, RunTyped, Phases, Dead
<1>5. MetaTold(e)'
  BY <1>1 DEF RunInv, MetaTold, Recording
<1>6. \A c \in CasesOf[e] : CaseHeld(lines[e], result'[e][c], c) /\ CaseTold(lines[e], result'[e][c], c)
  BY <1>1, CaseResumed
<1>7. CasesTold(e)'
  BY <1>1, <1>6 DEF RunInv, CasesTold
<1>8. PhasesEnd(e)'
  BY <1>1 DEF PhasesEnd, Reporting, Backfilling
<1>9. QED
  BY <1>4, <1>5, <1>7, <1>8 DEF RunInv

\* A case that is asked: nothing is told of it yet.
LEMMA CaseAsked ==
  ASSUME NEW e \in Evals, EvaluationAssumption, RunInv(e), EvalTables, NEW c \in CasesOf[e], AnswerCase(e, c)
  PROVE  RunInv(e)'
<1> DEFINE now == [state |-> "answered", asked |-> starts[e]]
<1>1. /\ phase[e] = "answer" /\ phase'[e] = "answer" /\ input'[e] = input[e]
      /\ meta'[e] = meta[e] /\ lines'[e] = lines[e] /\ config'[e] = config[e]
      /\ picked'[e] = picked[e] /\ starts'[e] = starts[e]
      /\ result'[e] = [result[e] EXCEPT ![c] = now] /\ result[e][c].state = "todo"
  BY DEF AnswerCase, EvalTables
<1>2. starts[e] \in Nat
  BY EvaluationAssumption DEF RunInv, RunTyped
<1>3. now \in CaseStates /\ now.state = "answered"
  BY <1>2 DEF CaseStates, Statuses
<1> HIDE DEF now
<1>4. RunTyped(e)'
  BY <1>1, <1>3 DEF RunInv, RunTyped
<1>5. MetaTold(e)'
  BY <1>1 DEF RunInv, MetaTold
<1>6. result'[e][c] = now /\ \A d \in CasesOf[e] : d # c => result'[e][d] = result[e][d]
  BY <1>1 DEF RunInv, RunTyped
<1>7. CaseHeld(lines[e], now, c) /\ CaseTold(lines[e], now, c)
  BY <1>1, <1>3 DEF RunInv, CasesTold, Recording, CaseHeld, CaseTold, Final
<1>8. CasesTold(e)'
  BY <1>1, <1>6, <1>7 DEF RunInv, CasesTold, Recording
<1>9. PhasesEnd(e)'
  BY <1>1 DEF PhasesEnd, Reporting, Backfilling
<1>10. QED
  BY <1>4, <1>5, <1>8, <1>9 DEF RunInv
\* A line the process may write: of a case nothing final is told of, as it holds it.
MayWrite(e, c, line) ==
  /\ line \in LinesOf(e) /\ line.case = c /\ line.config = meta[e]
  /\ \A k \in DOMAIN lines[e] : lines[e][k].form # "torn" /\ lines[e][k].case = c =>
       lines[e][k].status = "judge_failed" /\ lines[e][k].asked = line.asked

\* What is written in a phase is such a line.
LEMMA LineMayBeWritten ==
  ASSUME NEW e \in Evals, RunInv(e), NEW c \in CasesOf[e], NEW verdict \in Final,
         NEW form \in {"line", "open", "torn"}, phase[e] \in Recording,
         result[e][c].state \in {"todo", "answered"}
  PROVE  MayWrite(e, c, Line(e, c, verdict, form))
<1> DEFINE line == Line(e, c, verdict, form)
<1>1. result[e][c] \in CaseStates
  BY DEF RunInv, RunTyped
<1>2. /\ line \in LinesOf(e) /\ line.case = c /\ line.config = config[e] /\ line.asked = result[e][c].asked
  BY <1>1 DEF Line, LinesOf, CaseStates, RunInv, RunTyped
<1>3. config[e] = meta[e] /\ CaseHeld(lines[e], result[e][c], c)
  BY DEF RunInv, MetaTold, CasesTold
<1> HIDE DEF line
<1>4. MayWrite(e, c, line)
  BY <1>2, <1>3 DEF MayWrite, CaseHeld
<1>5. QED
  BY <1>4 DEF line

\* The lines after such a write.
LEMMA LinesAfter ==
  ASSUME NEW e \in Evals, RunInv(e), NEW c \in CasesOf[e], NEW line, MayWrite(e, c, line)
  PROVE  LET after == Extended(lines[e], line) IN
         /\ after \in Seq(LinesOf(e)) /\ OneAnswer(after)
         /\ \A d \in CasesOf[e] : OnRecord(after, d) => \E k \in DOMAIN after : LatestLine(after, d, k)
         /\ \A k \in DOMAIN after : after[k].form # "torn" => after[k].config = meta[e]
<1> DEFINE after == Extended(lines[e], line)
<1>1. line \in LinesOf(e) /\ lines[e] \in Seq(LinesOf(e)) /\ OneAnswer(lines[e]) /\ line.config = meta[e]
  BY DEF MayWrite, RunInv, RunTyped, CasesTold
<1>2. after \in Seq(LinesOf(e))
  BY <1>1, LineWritten
<1>3. OneAnswer(after)
  BY <1>1, OneAnswerKept DEF MayWrite
<1>4. \A d \in CasesOf[e] : OnRecord(lines[e], d) => \E k \in DOMAIN lines[e] : LatestLine(lines[e], d, k)
  BY DEF RunInv, CasesTold
<1>5. \A d \in CasesOf[e] : OnRecord(after, d) => \E k \in DOMAIN after : LatestLine(after, d, k)
  BY <1>1, <1>4, LatestKept
<1>6. \A k \in DOMAIN lines[e] : lines[e][k].form # "torn" => lines[e][k].config = line.config
  BY <1>1 DEF RunInv, MetaTold
<1>7. \A k \in DOMAIN after : after[k].form # "torn" => after[k].config = meta[e]
  BY <1>1, <1>6, ConfigKept
<1>8. QED
  BY <1>2, <1>3, <1>5, <1>7

\* A case that is recorded.
LEMMA CaseRecorded ==
  ASSUME NEW e \in Evals, RunInv(e), EvalTables, NEW c \in CasesOf[e], NEW verdict \in Final,
         Record(e, c, verdict), phase[e] \in Recording, result[e][c].state \in {"todo", "answered"},
         phase[e] = "answer" \/ phase[e] = "judge",
         UNCHANGED <<config, picked, phase, input, meta, starts>>
  PROVE  RunInv(e)'
<1> DEFINE line == Line(e, c, verdict, "line")
           after == Extended(lines[e], line)
           now == [result[e][c] EXCEPT !.state = verdict]
<1>1. MayWrite(e, c, line)
  BY LineMayBeWritten
<1>2. lines'[e] = after
  BY DEF Record, EvalTables
<1>3. result[e] \in [CasesOf[e] -> CaseStates] /\ lines[e] \in Seq(LinesOf(e))
  BY DEF RunInv, RunTyped
<1>4. result'[e] = [result[e] EXCEPT ![c] = now]
  BY DEF Record, EvalTables
<1>5. now \in CaseStates /\ now.state = verdict /\ line.status = verdict
  BY <1>3 DEF CaseStates, Statuses, Line
<1>6. /\ after \in Seq(LinesOf(e)) /\ OneAnswer(after)
      /\ \A d \in CasesOf[e] : OnRecord(after, d) => \E k \in DOMAIN after : LatestLine(after, d, k)
      /\ \A k \in DOMAIN after : after[k].form # "torn" => after[k].config = meta[e]
  BY <1>1, LinesAfter
<1>7. line \in LinesOf(e) /\ line.case = c
  BY <1>1 DEF MayWrite
<1>8. ASSUME NEW d \in CasesOf[e], d # c
      PROVE  CaseHeld(after, result[e][d], d) /\ CaseTold(after, result[e][d], d)
  <2>1. CaseHeld(lines[e], result[e][d], d) /\ CaseTold(lines[e], result[e][d], d)
    BY DEF RunInv, CasesTold
  <2>2. QED
    BY <1>3, <1>7, <1>8, <2>1, OtherCaseKept
<1>9. CaseTold(after, now, c)
  <2> HIDE DEF line, now
  <2>1. CaseTold(after, now, line.case)
    BY <1>3, <1>5, <1>7, RecordedTold
  <2>2. QED
    BY <1>7, <2>1
<1>10. CaseHeld(after, now, c)
  BY <1>5 DEF CaseHeld, Final
<1>11. result'[e][c] = now /\ \A d \in CasesOf[e] : d # c => result'[e][d] = result[e][d]
  BY <1>3, <1>4
<1> HIDE DEF line, after, now
<1>12. RunTyped(e)'
  BY <1>2, <1>3, <1>4, <1>5, <1>6 DEF RunInv, RunTyped
<1>13. MetaTold(e)'
  BY <1>2, <1>6 DEF RunInv, MetaTold, Recording
<1>14. CasesTold(e)'
  BY <1>2, <1>6, <1>8, <1>9, <1>10, <1>11 DEF RunInv, CasesTold
<1>15. \A d \in picked[e] : result[e][d].state # "todo" => result'[e][d].state # "todo"
  BY <1>5, <1>11 DEF RunInv, RunTyped, Final
<1>16. PhasesEnd(e)'
  BY <1>15 DEF RunInv, PhasesEnd, Recording, Reporting, Backfilling
<1>17. QED
  BY <1>12, <1>13, <1>14, <1>16 DEF RunInv

\* A write that breaks.
LEMMA WriteBreaks ==
  ASSUME NEW e \in Evals, RunInv(e), EvalTables, AppendBreaks(e)
  PROVE  RunInv(e)'
<1>1. PICK c \in picked[e], form \in {"torn", "open"}, verdict \in Final :
        /\ result[e][c].state \in {"todo", "answered"}
        /\ lines' = [lines EXCEPT ![e] = Extended(@, Line(e, c, verdict, form))]
  BY DEF AppendBreaks, Final
<1>2. /\ phase[e] \in Recording /\ phase'[e] = "crashed" /\ Exit(e)
      /\ meta'[e] = meta[e] /\ starts'[e] = starts[e] /\ input'[e] = input[e]
  BY DEF AppendBreaks, EvalTables, Recording
<1>3. c \in CasesOf[e]
  BY DEF RunInv, RunTyped
<1>4. MayWrite(e, c, Line(e, c, verdict, form))
  BY <1>1, <1>2, <1>3, LineMayBeWritten
<1>5. lines'[e] = Extended(lines[e], Line(e, c, verdict, form))
  BY <1>1 DEF EvalTables
<1>6. /\ lines'[e] \in Seq(LinesOf(e))
      /\ OneAnswer(lines'[e])
      /\ \A d \in CasesOf[e] : OnRecord(lines'[e], d) => \E k \in DOMAIN lines'[e] : LatestLine(lines'[e], d, k)
      /\ \A k \in DOMAIN lines'[e] : lines'[e][k].form # "torn" => lines'[e][k].config = meta[e]
  <2> DEFINE line == Line(e, c, verdict, form)
  <2>1. MayWrite(e, c, line) /\ lines'[e] = Extended(lines[e], line)
    BY <1>4, <1>5
  <2> HIDE DEF line
  <2> DEFINE after == Extended(lines[e], line)
  <2>2. /\ after \in Seq(LinesOf(e)) /\ OneAnswer(after)
        /\ \A d \in CasesOf[e] : OnRecord(after, d) => \E k \in DOMAIN after : LatestLine(after, d, k)
        /\ \A k \in DOMAIN after : after[k].form # "torn" => after[k].config = meta[e]
    BY <1>3, <2>1, LinesAfter
  <2>3. lines'[e] = after
    BY <2>1
  <2> HIDE DEF after
  <2>4. QED
    BY <2>2, <2>3
<1>7. QED
  BY <1>2, <1>6, RunEnds

\* Every step of a run keeps what its lines tell of it.
LEMMA RunStep ==
  ASSUME NEW e \in Evals, EvaluationAssumption, RunInv(e), EvalTables, WorkbookTyped, EvalStep(e)
  PROVE  RunInv(e)'
<1>1. CASE Snapshot(e)
  BY <1>1, RunSnapped
<1>2. CASE WriteMetadata(e)
  BY <1>2, RunFingerprinted
<1>3. CASE Resume(e)
  BY <1>3, RunResumes
<1>4. ASSUME NEW c \in picked[e], CaseStep(e, c) PROVE RunInv(e)'
  <2>1. c \in CasesOf[e]
    BY DEF RunInv, RunTyped
  <2>2. CASE AnswerCase(e, c)
    BY <2>1, <2>2, CaseAsked
  <2>3. CASE AnswerCaseFails(e, c)
    BY <2>1, <2>3, CaseRecorded DEF AnswerCaseFails, Recording, Final
  <2>4. CASE JudgeCase(e, c)
    BY <2>1, <2>4, CaseRecorded DEF JudgeCase, Recording, Final
  <2>5. QED
    BY <1>4, <2>2, <2>3, <2>4 DEF CaseStep
<1>5. CASE EndAnswers(e) \/ EndJudging(e)
  BY <1>5, RunMoves DEF EndAnswers, EndJudging, EvalGoes, OnlyPhase, EvalTables
<1>6. CASE WriteReport(e) \/ TakeWorkbook(e) \/ ReplaceWorkbook(e) \/ EndBackfill(e)
  <2>1. /\ picked'[e] = picked[e] /\ config'[e] = config[e] /\ meta'[e] = meta[e] /\ starts'[e] = starts[e]
        /\ result'[e] = result[e] /\ lines'[e] = lines[e] /\ input'[e] = input[e]
    BY <1>6 DEF WriteReport, TakeWorkbook, ReplaceWorkbook, EndBackfill, OnlyPhase
  <2>2. phase[e] \in Reporting /\ phase'[e] \in Reporting
    BY <1>6 DEF WriteReport, TakeWorkbook, ReplaceWorkbook, EndBackfill, EvalGoes, EvalTables, Reporting, Backfilling
  <2>3. QED
    BY <2>1, <2>2, RunMoves
<1>7. CASE AppendBreaks(e)
  BY <1>7, WriteBreaks
<1>8. CASE VerifyFails(e) \/ BackfillFails(e) \/ Die(e)
  <2>1. /\ Exit(e) /\ phase'[e] \in {"failed", "crashed"}
        /\ meta'[e] = meta[e] /\ starts'[e] = starts[e] /\ input'[e] = input[e] /\ lines'[e] = lines[e]
    BY <1>8 DEF VerifyFails, BackfillFails, Die, EvalGoes, EvalTables
  <2>2. QED
    BY <2>1, RunEnds
<1>9. CASE CheckWorkbook(e)
  <2>1. CASE workbook = input[e]
    <3>1. /\ picked'[e] = picked[e] /\ config'[e] = config[e] /\ meta'[e] = meta[e] /\ starts'[e] = starts[e]
          /\ result'[e] = result[e] /\ lines'[e] = lines[e] /\ input'[e] = input[e]
          /\ phase[e] = "locked" /\ phase'[e] = "checked"
      BY <1>9, <2>1 DEF CheckWorkbook, OnlyPhase, EvalGoes, EvalTables
    <3>2. QED
      BY <3>1, RunMoves DEF Reporting, Backfilling
  <2>2. CASE workbook # input[e]
    <3>1. /\ Exit(e) /\ phase'[e] = "failed"
          /\ meta'[e] = meta[e] /\ starts'[e] = starts[e] /\ input'[e] = input[e] /\ lines'[e] = lines[e]
      BY <1>9, <2>2 DEF CheckWorkbook, EvalGoes, EvalTables
    <3>2. QED
      BY <3>1, RunEnds
  <2>3. QED
    BY <2>1, <2>2
<1>10. QED
  BY <1>1, <1>2, <1>3, <1>4, <1>5, <1>6, <1>7, <1>8, <1>9 DEF EvalStep

(***************************************************************************)
(* The workbook and its lock                                               *)
(***************************************************************************)
\* What a step of a run does to the workbook, the lock and its own phase.
WorkbookMoves(e) ==
  \/ /\ UNCHANGED <<workbook, wlock, compared>>
     /\ phase[e] \notin Backfilling /\ phase'[e] \notin Backfilling
  \/ /\ UNCHANGED workbook
     /\ wlock = "free" /\ wlock' = e /\ phase'[e] = "locked"
  \/ /\ UNCHANGED <<workbook, wlock>> /\ compared' = workbook
     /\ phase[e] = "locked" /\ phase'[e] = "checked" /\ workbook = input[e] /\ input'[e] = input[e]
  \/ /\ UNCHANGED <<wlock, compared>>
     /\ phase[e] = "checked" /\ phase'[e] = "replaced" /\ workbook' = Append(input[e], e) /\ input'[e] = input[e]
  \/ /\ phase[e] \in Backfilling /\ phase'[e] \notin Backfilling /\ wlock' = "free"
     /\ workbook' = workbook \/ (phase[e] = "replaced" /\ workbook' = input[e])

\* Every step of a run does one of these.
LEMMA WorkbookSteps ==
  ASSUME EvalTables, BackfillHolds, EvaluationAssumption, NEW e \in Evals, EvalStep(e)
  PROVE  WorkbookMoves(e)
<1> USE DEF EvalTables, EvalGoes, OnlyPhase, WorkbookMoves, Backfilling
<1>1. CASE Snapshot(e) \/ WriteMetadata(e) \/ Resume(e) \/ EndAnswers(e) \/ EndJudging(e)
  BY <1>1 DEF Snapshot, WriteMetadata, Resume, Dead, EndAnswers, EndJudging
<1>2. CASE \E c \in picked[e] : CaseStep(e, c)
  BY <1>2 DEF CaseStep, AnswerCase, AnswerCaseFails, JudgeCase
<1>3. CASE AppendBreaks(e) \/ WriteReport(e) \/ VerifyFails(e)
  BY <1>3 DEF AppendBreaks, WriteReport, VerifyFails
<1>4. CASE TakeWorkbook(e)
  BY <1>4 DEF TakeWorkbook
<1>5. CASE CheckWorkbook(e)
  BY <1>5 DEF CheckWorkbook
<1>6. CASE ReplaceWorkbook(e)
  BY <1>6 DEF ReplaceWorkbook
<1>7. CASE EndBackfill(e) \/ BackfillFails(e)
  BY <1>7 DEF EndBackfill, BackfillFails
<1>8. CASE Die(e)
  <2>1. /\ phase'[e] = "crashed" /\ workbook' = workbook /\ compared' = compared
        /\ wlock' = (IF wlock = e THEN "free" ELSE wlock)
    BY <1>8 DEF Die
  <2>2. CASE wlock = e
    BY <2>1, <2>2 DEF BackfillHolds
  <2>3. CASE wlock # e
    BY <2>1, <2>3 DEF BackfillHolds
  <2>4. QED
    BY <2>2, <2>3
<1>9. QED
  BY <1>1, <1>2, <1>3, <1>4, <1>5, <1>6, <1>7, <1>8 DEF EvalStep

\* Nothing stands behind a sequence itself, and a user who saves adds to what stands there.
LEMMA UserStandsBehind ==
  ASSUME NEW seq \in Seq(Writers), NEW base \in Seq(Writers)
  PROVE  /\ UserBehind(base, base)
         /\ UserBehind(seq, base) => UserBehind(Append(seq, "user"), base)
<1>1. Len(seq) \in Nat /\ Len(base) \in Nat /\ Len(Append(seq, "user")) = Len(seq) + 1
  OBVIOUS
<1>2. DOMAIN seq = 1..Len(seq) /\ DOMAIN base = 1..Len(base) /\ DOMAIN Append(seq, "user") = 1..(Len(seq) + 1)
  OBVIOUS
<1>3. \A k \in 1..Len(seq) : Append(seq, "user")[k] = seq[k]
  OBVIOUS
<1>4. Append(seq, "user")[Len(seq) + 1] = "user"
  OBVIOUS
<1>5. UserBehind(base, base)
  BY <1>1, <1>2 DEF UserBehind
<1>6. ASSUME UserBehind(seq, base) PROVE UserBehind(Append(seq, "user"), base)
  <2>1. Len(base) <= Len(Append(seq, "user"))
    BY <1>1, <1>6 DEF UserBehind
  <2>2. ASSUME NEW k \in DOMAIN base PROVE Append(seq, "user")[k] = base[k]
    BY <1>1, <1>2, <1>3, <1>6, <2>2 DEF UserBehind
  <2>3. ASSUME NEW k \in DOMAIN Append(seq, "user"), k > Len(base) PROVE Append(seq, "user")[k] = "user"
    <3>1. CASE k = Len(seq) + 1
      BY <1>4, <3>1
    <3>2. CASE k # Len(seq) + 1
      BY <1>1, <1>2, <1>3, <1>6, <2>3, <3>2 DEF UserBehind
    <3>3. QED
      BY <3>1, <3>2
  <2>4. QED
    BY <2>1, <2>2, <2>3 DEF UserBehind
<1>7. QED
  BY <1>5, <1>6

\* A step of a run keeps the lock and the workbook together.
LEMMA BackfillStep ==
  ASSUME EvalInv, EvaluationAssumption, NEW e \in Evals, EvalStep(e)
  PROVE  WorkbookTyped' /\ BackfillHolds'
<1>1. WorkbookMoves(e)
  BY WorkbookSteps DEF EvalInv
<1>2. \A d \in Evals : d # e => phase'[d] = phase[d] /\ input'[d] = input[d]
  BY EvalStepLocal DEF EvalInv, KeptAt
<1>3. input[e] \in Seq(Writers) /\ Append(input[e], e) \in Seq(Writers) /\ workbook \in Seq(Writers)
  BY DEF EvalInv, RunInv, RunTyped, WorkbookTyped, Writers
<1>4. WorkbookTyped'
  BY <1>1, <1>3 DEF WorkbookMoves, WorkbookTyped, EvalInv
<1>5. ASSUME NEW d \in Evals
      PROVE  /\ phase'[d] \in Backfilling <=> wlock' = d
             /\ phase'[d] \in {"checked", "replaced"} => compared' = input'[d]
             /\ phase'[d] = "checked" => UserBehind(workbook', input'[d])
             /\ phase'[d] = "replaced" => UserBehind(workbook', Append(input'[d], d))
  <2>1. /\ phase[d] \in Backfilling <=> wlock = d
        /\ phase[e] \in Backfilling <=> wlock = e
        /\ phase[d] \in {"checked", "replaced"} => compared = input[d]
        /\ phase[d] = "checked" => UserBehind(workbook, input[d])
        /\ phase[d] = "replaced" => UserBehind(workbook, Append(input[d], d))
        /\ d # "free" /\ e # "free"
    BY EvaluationAssumption DEF EvalInv, BackfillHolds
  <2> UserBehind(input[e], input[e]) /\ UserBehind(Append(input[e], e), Append(input[e], e))
    BY <1>3, UserStandsBehind
  <2>2. CASE d = e
    BY <1>1, <2>1, <2>2 DEF WorkbookMoves, Backfilling
  <2>3. CASE d # e
    BY <1>1, <1>2, <2>1, <2>3 DEF WorkbookMoves, Backfilling
  <2>4. QED
    BY <2>2, <2>3
<1>6. QED
  BY <1>4, <1>5 DEF BackfillHolds

\* A user saves at any time, also while a run holds the lock.
LEMMA UserStep ==
  ASSUME EvalInv, EvaluationAssumption, UserEdits
  PROVE  EvalInv'
<1>1. UNCHANGED <<config, picked, phase, input, meta, lines, result, starts, wlock, compared>>
      /\ workbook' = Append(workbook, "user")
  BY DEF UserEdits
<1>2. EvalTables' /\ \A d \in Evals : RunInv(d)'
  <2>1. EvalTables' /\ \A d \in Evals : KeptAt(d)
    BY <1>1 DEF EvalInv, EvalTables, KeptAt
  <2>2. QED
    BY <2>1, RunElsewhere DEF EvalInv
<1>3. WorkbookTyped'
  BY <1>1 DEF EvalInv, WorkbookTyped, Writers
<1>4. BackfillHolds'
  <2>1. ASSUME NEW e \in Evals
        PROVE  /\ UserBehind(workbook, input[e]) => UserBehind(workbook', input[e])
               /\ UserBehind(workbook, Append(input[e], e)) => UserBehind(workbook', Append(input[e], e))
    <3>1. workbook \in Seq(Writers) /\ input[e] \in Seq(Writers) /\ Append(input[e], e) \in Seq(Writers)
      BY DEF EvalInv, RunInv, RunTyped, WorkbookTyped, Writers
    <3>2. QED
      BY <1>1, <3>1, UserStandsBehind
  <2>2. QED
    BY <1>1, <2>1 DEF EvalInv, BackfillHolds, Backfilling
<1>5. QED
  BY <1>2, <1>3, <1>4 DEF EvalInv

(***************************************************************************)
(* The theorems of EvaluationRun                                           *)
(***************************************************************************)
\* EvalInv is inductive.
LEMMA EvalInvCorrect == EvalSpec => []EvalInv
<1>1. EvalInit => EvalInv
  <2> SUFFICES ASSUME EvalInit PROVE EvalInv
    OBVIOUS
  <2> USE DEF EvalInit
  <2>1. EvalTables /\ WorkbookTyped
    BY DEF EvalTables, WorkbookTyped
  <2>2. BackfillHolds
    BY EvaluationAssumption DEF BackfillHolds, Backfilling
  <2>3. ASSUME NEW e \in Evals PROVE RunInv(e)
    <3>1. Todo \in CaseStates /\ Todo.state = "todo"
      BY DEF Todo, CaseStates, Statuses
    <3>2. MaxStarts[e] \in Nat
      BY EvaluationAssumption
    <3>3. RunTyped(e)
      BY <3>1, <3>2 DEF RunTyped, Phases, Dead
    <3>4. MetaTold(e)
      BY <3>1 DEF MetaTold, Recording
    <3>5. CasesTold(e)
      BY DEF CasesTold, OneAnswer, OnRecord, Recording, Reporting, Backfilling
    <3>6. PhasesEnd(e)
      BY DEF PhasesEnd, Reporting, Backfilling
    <3>7. QED
      BY <3>3, <3>4, <3>5, <3>6 DEF RunInv
  <2>4. QED
    BY <2>1, <2>2, <2>3 DEF EvalInv
<1>2. EvalInv /\ [EvalNext]_evalVars => EvalInv'
  <2> SUFFICES ASSUME EvalInv, [EvalNext]_evalVars PROVE EvalInv'
    OBVIOUS
  <2>1. ASSUME NEW e \in Evals, EvalStep(e) PROVE EvalInv'
    <3>1. EvalTables' /\ \A d \in Evals : d # e => KeptAt(d)
      BY <2>1, EvalStepLocal DEF EvalInv
    <3>2. \A d \in Evals : RunInv(d)'
      BY <2>1, <3>1, RunStep, RunElsewhere, EvaluationAssumption DEF EvalInv
    <3>3. WorkbookTyped' /\ BackfillHolds'
      BY <2>1, BackfillStep, EvaluationAssumption
    <3>4. QED
      BY <3>1, <3>2, <3>3 DEF EvalInv
  <2>2. CASE UserEdits
    BY <2>2, UserStep, EvaluationAssumption
  <2>3. CASE UNCHANGED evalVars
    <3>1. EvalTables' /\ WorkbookTyped' /\ BackfillHolds' /\ \A d \in Evals : KeptAt(d)
      BY <2>3 DEF evalVars, EvalInv, EvalTables, WorkbookTyped, BackfillHolds, KeptAt
    <3>2. QED
      BY <3>1, RunElsewhere DEF EvalInv
  <2>4. QED
    BY <2>1, <2>2, <2>3 DEF EvalNext
<1>3. QED
  BY <1>1, <1>2, PTL DEF EvalSpec

\* The state of every run keeps its type, and no run is started more often than it may be.
THEOREM EvalTypeCorrect == EvalSpec => []EvalTypeOK
<1>1. EvalInv => EvalTypeOK
  <2> SUFFICES ASSUME EvalInv PROVE EvalTypeOK
    OBVIOUS
  <2>1. \A e \in Evals : RunTyped(e)
    BY DEF EvalInv, RunInv
  <2>2. phase \in [Evals -> Phases]
    BY <2>1 DEF EvalInv, EvalTables, RunTyped
  <2>3. \A e \in Evals : \A c \in CasesOf[e] : result[e][c].state \in Final \cup {"todo", "answered"}
    BY <2>1 DEF RunTyped, CaseStates, Statuses
  <2>4. \A e \in Evals :
          picked[e] \subseteq CasesOf[e] /\ {config[e], meta[e]} \subseteq ConfigsOf[e] \cup {NoConfig}
    BY <2>1 DEF RunTyped
  <2>5. QED
    BY <2>1, <2>2, <2>3, <2>4 DEF EvalInv, WorkbookTyped, EvalTypeOK, RunTyped
<1>2. QED
  BY <1>1, EvalInvCorrect, PTL

\* Over any number of crashes and resumes, the lines of a run are of one configuration
\* and of one answer to each case, none follows a final one, and what is reported of a
\* case is its latest line.  (run_items, load_checkpoint_results, validate_resume)
THEOREM CheckpointTruthCorrect == EvalSpec => []CheckpointTruth
<1>1. EvalInv => CheckpointTruth
  <2> SUFFICES ASSUME EvalInv, NEW e \in Evals
               PROVE  LET whole == {k \in DOMAIN lines[e] : lines[e][k].form # "torn"} IN
                      /\ \A k \in whole : lines[e][k].config = meta[e]
                      /\ \A h, k \in whole :
                           h < k /\ lines[e][h].case = lines[e][k].case =>
                             lines[e][h].status = "judge_failed" /\ lines[e][h].asked = lines[e][k].asked
                      /\ phase[e] \in {"report", "candidate", "locked", "checked", "replaced", "finished"} =>
                           \A c \in picked[e] :
                             /\ result[e][c].state \in Final
                             /\ Readable(e) => Latest(e, c).status = result[e][c].state
    BY DEF CheckpointTruth
  <2>1. RunInv(e)
    BY DEF EvalInv
  <2>2. \A k \in DOMAIN lines[e] : lines[e][k].form # "torn" => lines[e][k].config = meta[e]
    BY <2>1 DEF RunInv, MetaTold
  <2>3. OneAnswer(lines[e])
    BY <2>1 DEF RunInv, CasesTold
  <2>4. ASSUME phase[e] \in {"report", "candidate", "locked", "checked", "replaced", "finished"}, NEW c \in picked[e]
        PROVE  result[e][c].state \in Final /\ (Readable(e) => Latest(e, c).status = result[e][c].state)
    <3>1. phase[e] \in Reporting
      BY <2>4 DEF Reporting, Backfilling
    <3>2. result[e][c].state \in Final /\ c \in CasesOf[e] /\ lines[e] \in Seq(LinesOf(e))
      BY <2>1, <3>1 DEF RunInv, PhasesEnd, RunTyped
    <3>3. CaseTold(lines[e], result[e][c], c)
      BY <2>1, <3>1, <3>2 DEF RunInv, CasesTold
    <3>4. ASSUME Readable(e) PROVE Latest(e, c).status = result[e][c].state
      <4>1. PICK k \in DOMAIN lines[e] : LatestLine(lines[e], c, k) /\ lines[e][k].status = result[e][c].state
        BY <3>2, <3>3, <3>4 DEF CaseTold, AllWhole, Readable
      <4>2. QED
        BY <3>2, <4>1, LatestFound
    <3>5. QED
      BY <3>2, <3>4
  <2>5. QED
    BY <2>2, <2>3, <2>4 DEF OneAnswer
<1>2. QED
  BY <1>1, EvalInvCorrect, PTL

\* A sequence is a prefix of itself and of what is appended to it.
LEMMA AppendKeeps ==
  ASSUME NEW S, NEW seq \in Seq(S), NEW w \in S
  PROVE  IsPrefix(seq, seq) /\ IsPrefix(seq, Append(seq, w))
<1>1. Len(seq) \in Nat /\ Len(Append(seq, w)) = Len(seq) + 1
  OBVIOUS
<1>2. SubSeq(seq, 1, Len(seq)) = seq
  OBVIOUS
<1>3. SubSeq(Append(seq, w), 1, Len(seq)) = seq
  OBVIOUS
<1>4. QED
  BY <1>1, <1>2, <1>3 DEF IsPrefix

\* Filling in results takes nothing out of the workbook that it held when the run compared
\* it with its snapshot, nor what another run has written: all that can be lost is what a
\* user saves between that comparison and the rename, or before the rename is taken back.
\* (safe_backfill: the comparison under the lock, os.replace, _rollback_source)
THEOREM EditsKeptCorrect == EvalSpec => EditsKept
<1> DEFINE Overwrites(e) ==
             /\ phase[e] \in {"checked", "replaced"}
             /\ workbook' \in {compared, Append(compared, e)}
             /\ \A k \in DOMAIN workbook : k > Len(compared) => workbook[k] \in {e, "user"}
<1> DEFINE Kept == IsPrefix(workbook, workbook') \/ \E e \in Evals : Overwrites(e)
<1>1. EvalInv /\ [EvalNext]_evalVars => [Kept]_evalVars
  <2> SUFFICES ASSUME EvalInv, EvalNext PROVE Kept
    OBVIOUS
  <2>1. workbook \in Seq(Writers)
    BY DEF EvalInv, WorkbookTyped
  <2>2. IsPrefix(workbook, workbook)
    BY <2>1, AppendKeeps DEF Writers
  <2>3. ASSUME NEW e \in Evals, EvalStep(e) PROVE Kept
    <3>1. WorkbookMoves(e)
      BY <2>3, WorkbookSteps, EvaluationAssumption DEF EvalInv
    <3>2. input[e] \in Seq(Writers)
      BY DEF EvalInv, RunInv, RunTyped
    <3>3. CASE phase[e] = "checked" /\ workbook' = Append(input[e], e)
      <4>1. compared = input[e] /\ UserBehind(workbook, compared)
        BY <3>3 DEF EvalInv, BackfillHolds
      <4>2. Overwrites(e)
        BY <3>3, <4>1 DEF UserBehind
      <4>3. QED
        BY <4>2
    <3>4. CASE phase[e] = "replaced" /\ workbook' = input[e]
      <4>1. compared = input[e] /\ UserBehind(workbook, Append(compared, e))
        BY <3>4 DEF EvalInv, BackfillHolds
      <4>2. ASSUME NEW k \in DOMAIN workbook, k > Len(compared) PROVE workbook[k] \in {e, "user"}
        <5>1. /\ Len(compared) \in Nat /\ k \in Nat
              /\ DOMAIN Append(compared, e) = 1..(Len(compared) + 1) /\ Len(Append(compared, e)) = Len(compared) + 1
              /\ Append(compared, e)[Len(compared) + 1] = e
          BY <2>1, <3>2, <4>1
        <5>2. CASE k = Len(compared) + 1
          BY <4>1, <5>1, <5>2 DEF UserBehind
        <5>3. CASE k # Len(compared) + 1
          BY <4>1, <4>2, <5>1, <5>3 DEF UserBehind
        <5>4. QED
          BY <5>2, <5>3
      <4>3. Overwrites(e)
        BY <3>4, <4>1, <4>2
      <4>4. QED
        BY <4>3
    <3>5. CASE workbook' = workbook
      BY <2>2, <3>5
    <3>6. QED
      BY <3>1, <3>3, <3>4, <3>5 DEF WorkbookMoves
  <2>4. CASE UserEdits
    BY <2>1, <2>4, AppendKeeps DEF UserEdits, Writers
  <2>5. QED
    BY <2>3, <2>4 DEF EvalNext
<1>2. QED
  BY <1>1, EvalInvCorrect, PTL DEF EvalSpec, EditsKept

(***************************************************************************)
(* SalesGeneration                                                         *)
(***************************************************************************)
Cases == {"own", "other"}
Writing == {"insights", "playbook", "parse", "chunks", "index"}

SalesTyped ==
  /\ SalesTypeOK
  /\ DOMAIN sec = Sections /\ DOMAIN part = Parts /\ DOMAIN partOn = Parts
  /\ book \in [Cases -> [insights : 0..gens, playbook : 0..gens]] /\ named \in Cases
  /\ parsedOn \in [structured : 0..gens, chunks : 0..gens]
  /\ genStep \in {"ended", "sections", "parts", "single"} \cup Writing

\* Nothing is held between runs, no part is asked for before the sections have
\* ended, and then at least one of them gave evidence.
RunPhases ==
  /\ genStep = "ended" => \A s \in Sections : sec[s].state = "todo"
  /\ genStep \in {"ended", "sections", "single"} => \A p \in Parts : part[p].state = "todo"
  /\ genStep \notin {"ended", "sections"} =>
       /\ \A s \in Sections : sec[s].state \in {"done", "failed"}
       /\ \E s \in Sections : sec[s].state = "done"
  /\ status # "none" => genStep = "ended"

OwnEvidence == \A s \in Sections : sec[s].state = "done" => sec[s].evidence.section = s

\* A part that is kept is kept under what it was asked with; the initial fingerprint
\* is that of no evidence, which no run asks with.
PartsKept == \A p \in Parts : partOn[p].fingerprint[1] # {} => partOn[p].asked = partOn[p].fingerprint

PartsAsked ==
  /\ part["scripts"].state # "todo" => part["strategies"].state # "todo"
  /\ part["objection_handling"].state # "todo" => part["scripts"].state # "todo"
  /\ \A p \in Parts : part[p].state = "done" => part[p].asked = <<Evidences, Notes(p)>>

\* What the run has written at each step, and what a run that ended well has.
FilesOfRun ==
  /\ genStep \in {"playbook", "parse", "chunks", "index"} => book[named].insights = gens
  /\ genStep \in {"parse", "chunks", "index"} => book[named].playbook = gens
  /\ genStep \in {"chunks", "index"} => parsedOn.structured = gens
  /\ genStep = "index" => parsedOn.chunks = gens
  /\ genStep \in {"sections", "parts", "single", "insights", "playbook"} => ~ingesting
  /\ status \in {"ok", "partial"} =>
       /\ book[named].insights = gens /\ book[named].playbook = gens
       /\ ingesting => parsedOn.structured = gens /\ parsedOn.chunks = gens /\ indexed = gens

SalesInv == SalesTyped /\ RunPhases /\ OwnEvidence /\ PartsKept /\ PartsAsked /\ FilesOfRun

NotesTable ==
  /\ Notes("scripts") = <<Value("strategies")>>
  /\ Notes("objection_handling") = <<Value("strategies"), Value("scripts")>>
  /\ Notes("customer_journey") = <<>> /\ Notes("strategies") = <<>>

\* The notes on parts before, by the part they go with, in a state and in the next.
LEMMA NotesAre == NotesTable
BY DEF NotesTable, Notes

\* The same of the next state.
LEMMA NotesAreNext == NotesTable'
BY NotesAre, PTL

\* While the sections and the parts stay as they are, what was asked is what would be.
LEMMA SameAsked ==
  ASSUME sec' = sec, part' = part
  PROVE  Evidences' = Evidences /\ \A p \in Parts : Notes(p)' = Notes(p)
<1>1. Evidences' = Evidences
  BY DEF Evidences
<1>2. \A q : Value(q)' = Value(q)
  BY DEF Value
<1>3. QED
  BY <1>1, <1>2, NotesAre, NotesAreNext DEF Parts, NotesTable

\* A run that fails or is killed leaves the files as they are and holds nothing.
LEMMA RunStops ==
  ASSUME SalesInv, NEW how \in {"failed", "killed"}, EndsAs(how), UNCHANGED <<Disk, named, gens>>
  PROVE  SalesInv'
<1>1. /\ \A s \in Sections : sec'[s] = Unasked
      /\ \A p \in Parts : part'[p] = Unasked
      /\ DOMAIN sec' = Sections /\ DOMAIN part' = Parts
  BY DEF EndsAs
<1>2. Unasked.state = "todo"
  BY DEF Unasked
<1>3. SalesTyped' /\ FilesOfRun' /\ PartsKept'
  BY <1>1, <1>2 DEF SalesInv, SalesTyped, SalesTypeOK, FilesOfRun, PartsKept, EndsAs, Disk
<1>4. RunPhases' /\ OwnEvidence' /\ PartsAsked'
  BY <1>1, <1>2 DEF RunPhases, OwnEvidence, PartsAsked, EndsAs, Parts
<1>5. QED
  BY <1>3, <1>4 DEF SalesInv

\* Between the end of the sections and the end of the run, a step that leaves what is
\* held and kept of them alone leaves what is known of it.
LEMMA HeldStays ==
  ASSUME SalesInv, UNCHANGED <<sec, part, partOn, status>>, genStep \notin {"ended", "sections"},
         genStep' \notin {"ended", "sections", "single"}
  PROVE  RunPhases' /\ OwnEvidence' /\ PartsKept' /\ PartsAsked'
<1>1. RunPhases' /\ OwnEvidence' /\ PartsKept'
  BY DEF SalesInv, RunPhases, OwnEvidence, PartsKept
<1>2. PartsAsked'
  BY SameAsked DEF SalesInv, PartsAsked
<1>3. QED
  BY <1>1, <1>2

\* The start of a run: of evidence that was kept, each section takes its own.
LEMMA SalesStarts == ASSUME SalesInv, StartGeneration PROVE SalesInv'
<1>1. PICK reuse \in BOOLEAN :
        sec' = [s \in Sections |-> IF reuse /\ Reusable(s) THEN Success(evidenceOn[naming[s]]) ELSE Unasked]
  BY DEF StartGeneration
<1>2. \A s \in Sections :
        \/ sec'[s] = Unasked
        \/ sec'[s] = Success(evidenceOn[naming[s]]) /\ evidenceOn[naming[s]].section = s
  BY <1>1 DEF Reusable
<1>3. \A s \in Sections : sec'[s].state \in {"todo", "done"} /\ (sec'[s].state = "done" => sec'[s].evidence.section = s)
  <2> SUFFICES ASSUME NEW s \in Sections
               PROVE  sec'[s].state \in {"todo", "done"} /\ (sec'[s].state = "done" => sec'[s].evidence.section = s)
    OBVIOUS
  <2>1. CASE sec'[s] = Unasked
    BY <2>1 DEF Unasked
  <2>2. CASE sec'[s] = Success(evidenceOn[naming[s]]) /\ evidenceOn[naming[s]].section = s
    <3>1. sec'[s].state = "done" /\ sec'[s].evidence = evidenceOn[naming[s]]
      BY <2>2 DEF Success
    <3>2. QED
      BY <2>2, <3>1
  <2>3. QED
    BY <1>2, <2>1, <2>2
<1>4. DOMAIN sec' = Sections /\ OwnEvidence'
  BY <1>1, <1>3 DEF OwnEvidence
<1>5. /\ genStep = "ended" /\ genStep' = "sections" /\ gens' = gens + 1 /\ status' = "none" /\ named' = "own"
      /\ ingesting' = FALSE /\ part' = part /\ book' = book /\ parsedOn' = parsedOn /\ indexed' = indexed
      /\ partOn' = partOn /\ gens' \in 0..MaxGenerations
  BY SalesAssumption DEF StartGeneration, Disk, SalesInv, SalesTyped, SalesTypeOK
<1>6. 0..gens \subseteq 0..gens' /\ gens \in 0..gens'
  BY <1>5 DEF SalesInv, SalesTyped, SalesTypeOK
<1>7. \A c \in Cases : book'[c] \in [insights : 0..gens', playbook : 0..gens']
  BY <1>5, <1>6 DEF SalesInv, SalesTyped
<1>8. book' \in [Cases -> [insights : 0..gens', playbook : 0..gens']] /\ parsedOn' \in [structured : 0..gens', chunks : 0..gens']
  BY <1>5, <1>6, <1>7 DEF SalesInv, SalesTyped
<1>9. SalesTyped'
  BY <1>3, <1>4, <1>5, <1>6, <1>8 DEF SalesInv, SalesTyped, SalesTypeOK, Cases
<1>10. RunPhases' /\ PartsAsked' /\ PartsKept'
  BY <1>5 DEF SalesInv, RunPhases, PartsAsked, PartsKept, Parts
<1>11. FilesOfRun'
  BY <1>5 DEF FilesOfRun
<1>12. QED
  BY <1>4, <1>9, <1>10, <1>11 DEF SalesInv

\* A section that is asked, answers or fails.
LEMMA SalesSection == ASSUME SalesInv, NEW s \in Sections, SectionStep(s) PROVE SalesInv'
<1>1. CASE SectionFailureUnwritten(s)
  BY <1>1, RunStops DEF SectionFailureUnwritten
<1>2. CASE AskSection(s) \/ SectionSucceeds(s) \/ SectionFails(s)
  <2>1. /\ genStep = "sections" /\ UNCHANGED <<named, ingesting, genStep, part, status, gens, book, parsedOn, indexed, partOn>>
        /\ DOMAIN sec' = Sections
        /\ \A q \in Sections : q # s => sec'[q] = sec[q]
        /\ sec'[s].state \in {"asking", "done", "failed"}
        /\ sec'[s].state = "done" => sec'[s].evidence.section = s
    <3>1. CASE AskSection(s)
      BY <3>1 DEF AskSection, SalesInv, SalesTyped, Disk
    <3>2. CASE SectionSucceeds(s)
      <4>1. PICK of : sec' = [sec EXCEPT ![s] = Success([section |-> s, of |-> of])]
        BY <3>2 DEF SectionSucceeds
      <4>2. QED
        BY <3>2, <4>1 DEF SectionSucceeds, SalesInv, SalesTyped, Success
    <3>3. CASE SectionFails(s)
      BY <3>3 DEF SectionFails, SalesInv, SalesTyped, Disk, Gone
    <3>4. QED
      BY <1>2, <3>1, <3>2, <3>3
  <2>2. SalesTyped'
    BY <2>1 DEF SalesInv, SalesTyped, SalesTypeOK
  <2>3. RunPhases' /\ OwnEvidence' /\ PartsKept'
    BY <2>1 DEF SalesInv, RunPhases, OwnEvidence, PartsKept
  <2>4. PartsAsked'
    BY <2>1 DEF SalesInv, RunPhases, PartsAsked, Parts
  <2>5. FilesOfRun'
    BY <2>1 DEF SalesInv, FilesOfRun
  <2>6. QED
    BY <2>2, <2>3, <2>4, <2>5 DEF SalesInv
<1>3. QED
  BY <1>1, <1>2 DEF SectionStep

\* The sections have ended: with evidence of one of them the run goes on.
LEMMA SalesSectionsEnd == ASSUME SalesInv, SectionsEnd PROVE SalesInv'
<1>1. CASE \A s \in Sections : sec[s].state = "failed"
  BY <1>1, RunStops DEF SectionsEnd
<1>2. CASE ~ \A s \in Sections : sec[s].state = "failed"
  <2>1. /\ genStep = "sections" /\ genStep' \in {"parts", "single"}
        /\ UNCHANGED <<sec, part, partOn, status, named, ingesting, gens, book, parsedOn, indexed>>
    BY <1>2 DEF SectionsEnd, Disk
  <2>2. SalesTyped' /\ OwnEvidence' /\ PartsKept'
    BY <2>1 DEF SalesInv, SalesTyped, SalesTypeOK, OwnEvidence, PartsKept
  <2>3. RunPhases' /\ FilesOfRun'
    BY <1>2, <2>1 DEF SalesInv, RunPhases, FilesOfRun, SectionsEnd
  <2>4. PartsAsked'
    BY <2>1 DEF SalesInv, RunPhases, PartsAsked, Parts
  <2>5. QED
    BY <2>2, <2>3, <2>4 DEF SalesInv
<1>3. QED
  BY <1>1, <1>2

\* There is evidence while parts are asked for, so a kept part with a fingerprint that
\* fits was asked for with it.
LEMMA PartHeld ==
  ASSUME SalesInv, NEW p \in Parts, ReusePart(p) \/ PartAnswers(p) \/ PartFails(p)
  PROVE  /\ PartReady(p) /\ KeepBook
         /\ DOMAIN part' = Parts /\ \A q \in Parts : q # p => part'[q] = part[q]
         /\ part'[p].state \in {"done", "failed"}
         /\ part'[p].state = "done" => part'[p].asked = <<Evidences, Notes(p)>>
         /\ DOMAIN partOn' = Parts /\ PartsKept'
<1>1. DOMAIN part = Parts /\ DOMAIN partOn = Parts
  BY DEF SalesInv, SalesTyped
<1>2. CASE ReusePart(p)
  <2>1. PICK s \in Sections : sec[s].state = "done"
    BY <1>2 DEF ReusePart, PartReady, SalesInv, RunPhases
  <2>2. sec[s].evidence \in Evidences
    BY <2>1 DEF Evidences
  <2>3. partOn[p].fingerprint = <<Evidences, Notes(p)>> /\ partOn[p].fingerprint[1] # {}
    BY <1>2, <2>2 DEF ReusePart, Fingerprint
  <2>4. partOn[p].asked = <<Evidences, Notes(p)>>
    BY <2>3 DEF SalesInv, PartsKept
  <2>5. PartsKept'
    BY <1>2 DEF ReusePart, SalesInv, PartsKept
  <2>6. QED
    BY <1>1, <1>2, <2>4, <2>5 DEF ReusePart
<1>3. CASE PartAnswers(p)
  <2>1. PICK v \in PartValues[p] :
          /\ part' = [part EXCEPT ![p] = [state |-> "done", value |-> v, asked |-> <<Evidences, Notes(p)>>]]
          /\ \/ UNCHANGED partOn
             \/ v # 0 /\ partOn' = [partOn EXCEPT ![p] =
                  [fingerprint |-> Fingerprint(p), value |-> v, asked |-> <<Evidences, Notes(p)>>]]
    BY <1>3 DEF PartAnswers
  <2>2. PartsKept' /\ DOMAIN partOn' = Parts
    BY <1>1, <2>1 DEF SalesInv, PartsKept, Fingerprint
  <2>3. QED
    BY <1>1, <1>3, <2>1, <2>2 DEF PartAnswers
<1>4. CASE PartFails(p)
  BY <1>1, <1>4 DEF PartFails, SalesInv, PartsKept, Gone
<1>5. QED
  BY <1>2, <1>3, <1>4

\* One part is answered, reused or fails: the notes of the others stay as they were.
LEMMA SalesPart ==
  ASSUME SalesInv, NEW p \in Parts, ReusePart(p) \/ PartAnswers(p) \/ PartFails(p)
  PROVE  SalesInv'
<1>1. /\ genStep = "parts" /\ part[p].state = "todo" /\ \A q \in Before(p) : part[q].state # "todo"
      /\ UNCHANGED <<naming, evidenceOn, book, parsedOn, indexed, named, ingesting, genStep, sec, status, gens>>
  BY PartHeld DEF PartReady, KeepBook
<1>2. SalesTyped'
  BY <1>1, PartHeld DEF SalesInv, SalesTyped, SalesTypeOK
<1>3. RunPhases' /\ OwnEvidence' /\ FilesOfRun'
  BY <1>1 DEF SalesInv, RunPhases, OwnEvidence, FilesOfRun
<1>4. Evidences' = Evidences
  BY <1>1 DEF Evidences
<1>5. \A q \in Parts : q # p => Value(q)' = Value(q)
  BY PartHeld DEF Value
<1>6. ASSUME NEW q \in Parts, q = p \/ part[q].state # "todo" PROVE Notes(q)' = Notes(q)
  <2>1. q = "scripts" => p # "strategies"
    BY <1>1, <1>6 DEF SalesInv, PartsAsked
  <2>2. q = "objection_handling" => p # "strategies" /\ p # "scripts"
    BY <1>1, <1>6 DEF SalesInv, PartsAsked, Before
  <2>3. "strategies" \in Parts /\ "scripts" \in Parts
    BY DEF Parts
  <2>4. q = "scripts" => Notes(q)' = Notes(q)
    BY <1>5, <2>1, <2>3, NotesAre, NotesAreNext DEF NotesTable
  <2>5. q = "objection_handling" => Notes(q)' = Notes(q)
    BY <1>5, <2>2, <2>3, NotesAre, NotesAreNext DEF NotesTable
  <2>6. QED
    BY <2>4, <2>5, NotesAre, NotesAreNext DEF Parts, NotesTable
<1>7. PartsAsked'
  <2>1. ASSUME NEW q \in Parts, part'[q].state = "done" PROVE part'[q].asked = <<Evidences, Notes(q)>>'
    <3>1. part[q].state = "done" \/ q = p
      BY <2>1, PartHeld
    <3>2. part'[q].asked = <<Evidences, Notes(q)>>
      BY <2>1, <3>1, PartHeld DEF SalesInv, PartsAsked
    <3>3. Notes(q)' = Notes(q)
      BY <1>6, <3>1
    <3>4. QED
      BY <1>4, <3>2, <3>3
  <2>2. /\ part'["scripts"].state # "todo" => part'["strategies"].state # "todo"
        /\ part'["objection_handling"].state # "todo" => part'["scripts"].state # "todo"
    BY <1>1, PartHeld DEF SalesInv, PartsAsked, Parts, Before
  <2>3. QED
    BY <2>1, <2>2 DEF PartsAsked
<1>8. QED
  BY <1>2, <1>3, <1>7, PartHeld DEF SalesInv

\* The end of the parts, or one call for all of them.
LEMMA SalesPartsEnd == ASSUME SalesInv, PartsEnd \/ SingleCall \/ SingleCallFails PROVE SalesInv'
<1>1. CASE PartsEnd /\ \A p \in Parts : part[p].state = "failed"
  BY <1>1, RunStops DEF PartsEnd
<1>2. CASE SingleCallFails
  BY <1>2, RunStops DEF SingleCallFails
<1>3. CASE SingleCall \/ (PartsEnd /\ ~ \A p \in Parts : part[p].state = "failed")
  <2>1. /\ genStep \in {"parts", "single"} /\ genStep' = "insights" /\ named' \in Cases
        /\ UNCHANGED <<sec, part, partOn, status, ingesting, gens, book, parsedOn, indexed>>
    BY <1>3 DEF SingleCall, PartsEnd, SalesGoes, Disk, Cases, SalesInv, SalesTyped
  <2>2. SalesTyped' /\ FilesOfRun'
    BY <2>1 DEF SalesInv, SalesTyped, SalesTypeOK, FilesOfRun, RunPhases, Writing
  <2>3. QED
    BY <2>1, <2>2, HeldStays DEF SalesInv
<1>4. QED
  BY <1>1, <1>2, <1>3

\* The five writes, when they succeed and the run goes on.
LEMMA SalesWrites ==
  ASSUME SalesInv, WriteInsights \/ WriteStructured \/ WriteChunks \/ (WritePlaybook /\ genStep' = "parse")
  PROVE  SalesInv'
<1>1. book \in [Cases -> [insights : 0..gens, playbook : 0..gens]] /\ named \in Cases /\ gens \in 0..gens
      /\ parsedOn \in [structured : 0..gens, chunks : 0..gens]
  BY DEF SalesInv, SalesTyped, SalesTypeOK
<1>2. genStep \in Writing /\ genStep' \in Writing /\ status = "none"
      /\ UNCHANGED <<sec, part, partOn, status, named, gens, indexed>>
  BY DEF WriteInsights, WriteStructured, WriteChunks, WritePlaybook, EndsAs, SalesGoes, Writing, SalesInv, RunPhases
<1>3. RunPhases' /\ OwnEvidence' /\ PartsKept' /\ PartsAsked'
  BY <1>2, HeldStays DEF Writing
<1>4. CASE WriteInsights
  <2>1. book' \in [Cases -> [insights : 0..gens, playbook : 0..gens]] /\ book'[named].insights = gens
    BY <1>1, <1>4 DEF WriteInsights
  <2>2. QED
    BY <1>2, <1>3, <1>4, <2>1 DEF WriteInsights, SalesGoes, SalesInv, SalesTyped, SalesTypeOK, FilesOfRun
<1>5. CASE WritePlaybook /\ genStep' = "parse"
  <2>1. /\ book' \in [Cases -> [insights : 0..gens, playbook : 0..gens]] /\ book'[named].playbook = gens
        /\ book'[named].insights = book[named].insights
    BY <1>1, <1>5 DEF WritePlaybook
  <2>2. QED
    BY <1>2, <1>3, <1>5, <2>1 DEF WritePlaybook, SalesInv, SalesTyped, SalesTypeOK, FilesOfRun
<1>6. CASE WriteStructured
  <2>1. /\ parsedOn' \in [structured : 0..gens, chunks : 0..gens] /\ parsedOn'.structured = book[named].insights
        /\ genStep = "parse"
    BY <1>1, <1>6 DEF WriteStructured, SalesGoes
  <2>2. QED
    BY <1>2, <1>3, <1>6, <2>1 DEF WriteStructured, SalesGoes, SalesInv, SalesTyped, SalesTypeOK, FilesOfRun
<1>7. CASE WriteChunks
  <2>1. /\ parsedOn' \in [structured : 0..gens, chunks : 0..gens] /\ parsedOn'.chunks = book[named].insights
        /\ parsedOn'.structured = parsedOn.structured /\ genStep = "chunks"
    BY <1>1, <1>7 DEF WriteChunks, SalesGoes
  <2>2. QED
    BY <1>2, <1>3, <1>7, <2>1 DEF WriteChunks, SalesGoes, SalesInv, SalesTyped, SalesTypeOK, FilesOfRun
<1>8. QED
  BY <1>4, <1>5, <1>6, <1>7

\* A run that ends well has written what its command promises.
LEMMA SalesEndsWell ==
  ASSUME SalesInv, IndexParsed \/ (WritePlaybook /\ genStep' = "ended") PROVE SalesInv'
<1>1. /\ EndsAs(Outcome) /\ UNCHANGED <<partOn, named, ingesting, gens>>
      /\ book' \in [Cases -> [insights : 0..gens, playbook : 0..gens]] /\ parsedOn' = parsedOn
      /\ indexed' \in 0..gens
      /\ book'[named].insights = gens /\ book'[named].playbook = gens
      /\ ingesting => parsedOn.structured = gens /\ parsedOn.chunks = gens /\ indexed' = gens
  <2>1. CASE IndexParsed
    BY <2>1 DEF IndexParsed, SalesInv, SalesTyped, FilesOfRun
  <2>2. CASE WritePlaybook /\ genStep' = "ended"
    <3>1. EndsAs(Outcome) /\ genStep = "playbook" /\ book' = [book EXCEPT ![named].playbook = gens]
          /\ UNCHANGED <<partOn, named, ingesting, gens, parsedOn, indexed>> /\ ~ingesting
      BY <2>2 DEF WritePlaybook, SalesInv, FilesOfRun
    <3>2. QED
      BY <3>1 DEF SalesInv, SalesTyped, SalesTypeOK, FilesOfRun
  <2>3. QED
    BY <2>1, <2>2
<1>2. Outcome \in {"ok", "partial"}
  BY DEF Outcome
<1>3. /\ \A s \in Sections : sec'[s].state = "todo"
      /\ \A p \in Parts : part'[p].state = "todo"
      /\ DOMAIN sec' = Sections /\ DOMAIN part' = Parts /\ genStep' = "ended" /\ status' = Outcome
  BY <1>1 DEF EndsAs, Unasked
<1>4. SalesTyped'
  BY <1>1, <1>2, <1>3 DEF SalesInv, SalesTyped, SalesTypeOK
<1>5. RunPhases' /\ OwnEvidence' /\ PartsAsked'
  BY <1>3 DEF RunPhases, OwnEvidence, PartsAsked, Parts
<1>6. PartsKept' /\ FilesOfRun'
  BY <1>1, <1>3 DEF SalesInv, PartsKept, FilesOfRun
<1>7. QED
  BY <1>4, <1>5, <1>6 DEF SalesInv

\* SalesInv is inductive.
LEMMA SalesInvCorrect == SalesSpec => []SalesInv
<1>1. SalesInit => SalesInv
  <2> SUFFICES ASSUME SalesInit PROVE SalesInv
    OBVIOUS
  <2>1. SalesTyped
    BY SalesAssumption DEF SalesInit, SalesTyped, SalesTypeOK, Unasked, Cases
  <2>2. PartsKept
    BY DEF SalesInit, PartsKept
  <2>3. RunPhases /\ OwnEvidence /\ PartsAsked /\ FilesOfRun
    BY DEF SalesInit, RunPhases, OwnEvidence, PartsAsked, FilesOfRun, Unasked, Parts
  <2>4. QED
    BY <2>1, <2>2, <2>3 DEF SalesInv
<1>2. SalesInv /\ [SalesNext]_salesVars => SalesInv'
  <2> SUFFICES ASSUME SalesInv, [SalesNext]_salesVars PROVE SalesInv'
    OBVIOUS
  <2>1. CASE UNCHANGED salesVars
    <3>1. PartsAsked'
      BY <2>1, SameAsked DEF salesVars, SalesInv, PartsAsked
    <3>2. SalesTyped' /\ RunPhases' /\ OwnEvidence' /\ PartsKept' /\ FilesOfRun'
      BY <2>1 DEF salesVars, SalesInv, SalesTyped, SalesTypeOK, RunPhases, OwnEvidence, PartsKept, FilesOfRun
    <3>3. QED
      BY <3>1, <3>2 DEF SalesInv
  <2>2. CASE WriteFails \/ KillGeneration
    BY <2>2, RunStops DEF WriteFails, KillGeneration
  <2>3. CASE WritePlaybook
    <3>1. genStep' = "parse" \/ genStep' = "ended"
      BY <2>3 DEF WritePlaybook, EndsAs
    <3>2. QED
      BY <2>3, <3>1, SalesWrites, SalesEndsWell
  <2>4. QED
    BY <2>1, <2>2, <2>3, SalesStarts, SalesSection, SalesSectionsEnd, SalesPart, SalesPartsEnd, SalesWrites,
       SalesEndsWell DEF SalesNext
<1>3. QED
  BY <1>1, <1>2, PTL DEF SalesSpec

\* Runs, sections and parts stay within their limits and kinds.
THEOREM SalesTypeCorrect == SalesSpec => []SalesTypeOK
<1>1. SalesInv => SalesTypeOK
  BY DEF SalesInv, SalesTyped
<1>2. QED
  BY <1>1, SalesInvCorrect, PTL

\* Whatever earlier runs left behind and whatever sections share a safe name: insights
\* rest on each section's own evidence, each part was asked for with that evidence and
\* with the notes used beside it, and a run that ends well leaves one generation on disk.
\* (_load_reusable_section_evidence, _case_part_fingerprint, _write_case_sales_insights)
THEOREM InsightsFoundedCorrect == SalesSpec => []InsightsFounded
<1>1. SalesInv => InsightsFounded
  <2> SUFFICES ASSUME SalesInv PROVE InsightsFounded
    OBVIOUS
  <2>1. ASSUME genStep \in Writing PROVE Cardinality(Asking) = 0
    <3>1. Asking = {}
      BY <2>1 DEF Writing, SalesInv, RunPhases, Asking
    <3>2. QED
      BY <3>1, FS_EmptySet
  <2>2. ASSUME status \in {"ok", "partial"}
        PROVE  /\ book[named] = [insights |-> gens, playbook |-> gens]
               /\ ingesting => parsedOn = [structured |-> gens, chunks |-> gens] /\ indexed = gens
    <3>1. book[named] \in [insights : 0..gens, playbook : 0..gens] /\ parsedOn \in [structured : 0..gens, chunks : 0..gens]
      BY DEF SalesInv, SalesTyped
    <3>2. QED
      BY <2>2, <3>1 DEF SalesInv, FilesOfRun
  <2>3. QED
    BY <2>1, <2>2 DEF InsightsFounded, Writing, SalesInv, OwnEvidence, PartsAsked
<1>2. QED
  BY <1>1, SalesInvCorrect, PTL

(***************************************************************************)
(* BatchPage                                                               *)
(***************************************************************************)
RunStates == [status : {"none", "pending", "running", "completed", "interrupted", "gone"},
              rows : [PageRows -> {"none", "pending", "running", "succeeded", "failed"}],
              bad : SUBSET PageRows]
Requests == [gen : Nat, kind : {"initial", "progress", "detail"}, last : BOOLEAN,
             step : {"sent", "half", "answered"}, seen : RunStates]
PageStates == [gen : 1..MaxRefreshes + 1, shown : RunStates, sig : {Signature(seen_) : seen_ \in RunStates},
               timer : BOOLEAN, failures : 0..MaxFailures, loadError : BOOLEAN,
               pollError : {"none", "retrying", "stopped"}]

AskedTyped ==
  /\ asked.kind \in {"none", "refresh", "patch"} /\ asked.row \in PageRows \cup {0}
  /\ asked.kind = "patch" => asked.row \in PageRows

PageTyped ==
  /\ server \in RunStates /\ page \in PageStates
  /\ flight \subseteq Requests /\ \A r \in flight : r.gen \in 1..page.gen
  /\ AskedTyped
  /\ elsewhere \in BOOLEAN /\ changes \in Nat

\* The page does one thing at a time: it waits, or it has one request under way.
OneThing ==
  /\ \A r \in flight : Current(r) => ~page.timer /\ page.failures < MaxFailures
  /\ \A q, r \in flight : Current(q) /\ Current(r) => q = r
  /\ page.timer => page.failures < MaxFailures

\* Nobody but the server moves the run, and a run that is over stays as it is.
Following == asked.kind # "refresh" /\ ~elsewhere
Truthful(seen_) == ~ActiveRun(seen_) => Signature(seen_) = Signature(server)

\* What a request of the present load has read of a run that is over still holds.
RequestTrue(r) ==
  /\ r.step # "sent" => Truthful(r.seen)
  /\ r.last => ~ActiveRun(server)
  /\ r.last /\ r.step # "sent" => ~ActiveRun(r.seen)

InitialUnderWay == \E r \in flight : Current(r) /\ r.kind = "initial"
Moving == page.timer \/ \E r \in flight : Current(r)

PageFollows ==
  Following =>
    /\ \A r \in flight : Current(r) => RequestTrue(r)
    /\ Truthful(page.shown) \/ InitialUnderWay \/ page.loadError
    /\ Moving \/ page.loadError \/ page.pollError = "stopped" \/ ~ActiveRun(page.shown)

PageInv == PageTyped /\ OneThing /\ PageFollows

\* What the page holds before it has loaded anything.
LEMMA UnloadedKind == Unloaded \in RunStates /\ ~ActiveRun(Unloaded)
BY DEF Unloaded, RunStates, ActiveRun

\* A request that is sent.
LEMMA SentIsRequest ==
  ASSUME NEW gen \in Nat, NEW kind \in {"initial", "progress", "detail"}, NEW last \in BOOLEAN
  PROVE  \E new \in Requests :
           /\ new = RequestOf(gen, kind, last)
           /\ new.gen = gen /\ new.kind = kind /\ new.last = last /\ new.step = "sent"
<1> DEFINE new == RequestOf(gen, kind, last)
<1>1. new \in Requests /\ new.gen = gen /\ new.kind = kind /\ new.last = last /\ new.step = "sent"
  BY UnloadedKind DEF RequestOf, Requests
<1>2. QED
  BY <1>1

\* One that asks for the beginning or the progress of a load is never the last.
LEMMA SentAgain ==
  ASSUME NEW gen \in Nat, NEW kind \in {"initial", "progress"}
  PROVE  \E new \in Requests :
           /\ new = RequestOf(gen, kind, FALSE)
           /\ new.gen = gen /\ new.kind = kind /\ ~new.last /\ new.step = "sent"
<1> DEFINE new == RequestOf(gen, kind, FALSE)
<1>1. new \in Requests /\ new.gen = gen /\ new.kind = kind /\ ~new.last /\ new.step = "sent"
  BY UnloadedKind DEF RequestOf, Requests
<1>2. QED
  BY <1>1

\* A signature tells the status and the rows.
LEMMA SignatureTells ==
  ASSUME NEW a \in RunStates, NEW b \in RunStates, Signature(a) = Signature(b)
  PROVE  a.status = b.status /\ a.rows = b.rows /\ (ActiveRun(a) <=> ActiveRun(b))
BY DEF Signature, ActiveRun

\* A step of the run: unless somebody else moved it, a run that is over stays as it is.
LEMMA ServerMoves ==
  ASSUME PageInv, flight' = flight, page' = page, server' \in RunStates, changes' \in Nat, elsewhere' \in BOOLEAN,
         AskedTyped', Following' => Following /\ (~ActiveRun(server) => Signature(server') = Signature(server))
  PROVE  PageInv'
<1>1. PageTyped' /\ OneThing'
  BY DEF PageInv, PageTyped, OneThing, Current
<1>2. ASSUME Following' PROVE PageFollows'
  <2>1. Following /\ (~ActiveRun(server) => Signature(server') = Signature(server) /\ ~ActiveRun(server'))
    BY <1>2, SignatureTells DEF PageInv, PageTyped
  <2>2. ASSUME NEW seen_ \in RunStates, Truthful(seen_) PROVE Truthful(seen_)'
    BY <2>1, <2>2, SignatureTells DEF Truthful, PageInv, PageTyped
  <2>3. \A r \in flight : r.seen \in RunStates
    BY DEF PageInv, PageTyped, Requests
  <2>4. page.shown \in RunStates
    BY DEF PageInv, PageTyped, PageStates
  <2>5. ASSUME NEW r \in flight, Current(r)' PROVE RequestTrue(r)'
    <3>1. RequestTrue(r)
      BY <2>1, <2>5 DEF PageInv, PageFollows, Current
    <3>2. QED
      BY <2>1, <2>2, <2>3, <3>1 DEF RequestTrue
  <2>6. (Truthful(page.shown) \/ InitialUnderWay \/ page.loadError)'
    BY <2>1, <2>2, <2>4 DEF PageInv, PageFollows, InitialUnderWay, Current
  <2>7. (Moving \/ page.loadError \/ page.pollError = "stopped" \/ ~ActiveRun(page.shown))'
    BY <2>1 DEF PageInv, PageFollows, Moving, Current
  <2>8. QED
    BY <2>5, <2>6, <2>7 DEF PageFollows
<1>3. QED
  BY <1>1, <1>2 DEF PageInv, PageFollows

\* A retry, a resume and a bad case leave a run of the kinds there are; only the bad case
\* leaves the status and the rows.
LEMMA RunKinds ==
  ASSUME PageTyped, PageAssumption
  PROVE  /\ \A q \in PageRows : RowRetried(q) => server' \in RunStates /\ changes' \in Nat
         /\ RunResumed => server' \in RunStates /\ changes' \in Nat
         /\ \A q \in PageRows : BadCaseSaved(q) =>
              server' \in RunStates /\ changes' \in Nat /\ Signature(server') = Signature(server)
<1>1. server \in RunStates /\ changes \in Nat
  BY DEF PageTyped
<1>2. ASSUME NEW q \in PageRows, RowRetried(q) PROVE server' \in RunStates /\ changes' \in Nat
  <2> DEFINE rows_ == [server.rows EXCEPT ![q] = "pending"]
             bad_ == server.bad \ {q}
  <2>1. server' = [server EXCEPT !.status = "pending", !.rows = rows_, !.bad = bad_] /\ changes' = changes + 1
    BY <1>2 DEF RowRetried, Becomes
  <2>2. server.rows \in [PageRows -> {"none", "pending", "running", "succeeded", "failed"}]
        /\ server.bad \in SUBSET PageRows
    BY <1>1 DEF RunStates
  <2>3. rows_ \in [PageRows -> {"none", "pending", "running", "succeeded", "failed"}]
    BY <2>2
  <2>4. bad_ \in SUBSET PageRows
    BY <2>2
  <2> HIDE DEF rows_, bad_
  <2>5. [server EXCEPT !.status = "pending", !.rows = rows_, !.bad = bad_] \in RunStates
    BY <1>1, <2>3, <2>4 DEF RunStates
  <2>6. QED
    BY <1>1, <2>1, <2>5
<1>3. ASSUME RunResumed PROVE server' \in RunStates /\ changes' \in Nat
  BY <1>1, <1>3 DEF RunResumed, Becomes, RunStates
<1>4. ASSUME NEW q \in PageRows, BadCaseSaved(q)
      PROVE  server' \in RunStates /\ changes' \in Nat /\ Signature(server') = Signature(server)
  BY <1>1, <1>4 DEF BadCaseSaved, Becomes, RunStates, Signature
<1>5. QED
  BY <1>2, <1>3, <1>4

\* The server works on the run.
LEMMA PageServerWorks == ASSUME PageInv, PageAssumption, ServerWorks PROVE PageInv'
<1>1. server \in RunStates /\ changes \in Nat
  BY DEF PageInv, PageTyped
<1>2. ActiveRun(server)
  BY DEF ServerWorks, ActiveRun
<1>3. PICK run_ : Becomes(run_) /\ run_ \in RunStates
  <2>1. CASE server.status = "pending" /\ Becomes([server EXCEPT !.status = "running"])
    BY <1>1, <2>1 DEF RunStates
  <2>2. CASE \E q \in PageRows : server.rows[q] = "pending" /\ Becomes([server EXCEPT !.rows[q] = "running"])
    BY <1>1, <2>2 DEF RunStates
  <2>3. CASE \E q \in PageRows : \E end \in Over : Becomes([server EXCEPT !.rows[q] = end])
    BY <1>1, <2>3 DEF RunStates, Over
  <2>4. CASE Becomes([server EXCEPT !.status = "completed"])
    BY <1>1, <2>4 DEF RunStates
  <2>5. CASE Becomes([server EXCEPT !.status = "interrupted",
               !.rows = [q \in PageRows |-> IF @[q] = "running" THEN "pending" ELSE @[q]]])
    <3> DEFINE rows_ == [q \in PageRows |-> IF server.rows[q] = "running" THEN "pending" ELSE server.rows[q]]
               left == [server EXCEPT !.status = "interrupted", !.rows = rows_]
    <3>1. rows_ \in [PageRows -> {"none", "pending", "running", "succeeded", "failed"}]
      BY <1>1 DEF RunStates
    <3>2. Becomes(left)
      BY <2>5
    <3> HIDE DEF rows_
    <3>3. left \in RunStates
      BY <1>1, <3>1 DEF RunStates
    <3>4. QED
      BY <3>2, <3>3
  <2>6. QED
    BY <2>1, <2>2, <2>3, <2>4, <2>5 DEF ServerWorks
<1>4. server' \in RunStates /\ changes' \in Nat
  BY <1>1, <1>3 DEF Becomes
<1>5. flight' = flight /\ page' = page /\ asked' = asked /\ elsewhere' = elsewhere
  BY DEF ServerWorks
<1>6. QED
  BY <1>2, <1>4, <1>5, ServerMoves DEF PageInv, PageTyped, AskedTyped, Following

\* Another page moves the run.
LEMMA PageOther == ASSUME PageInv, PageAssumption, OtherPage PROVE PageInv'
<1>1. flight' = flight /\ page' = page /\ asked' = asked /\ elsewhere' = TRUE
  BY DEF OtherPage
<1>2. server' \in RunStates /\ changes' \in Nat
  <2>1. CASE (\E q \in PageRows : RowRetried(q)) \/ RunResumed
    BY <2>1, RunKinds DEF PageInv
  <2>2. CASE Becomes([server EXCEPT !.status = "gone"])
    BY <2>2 DEF Becomes, PageInv, PageTyped, RunStates
  <2>3. QED
    BY <2>1, <2>2 DEF OtherPage
<1>3. QED
  BY <1>1, <1>2, ServerMoves DEF PageInv, PageTyped, AskedTyped, Following

\* The user asks for a retry, a resume or a bad case.
LEMMA PageUserAsks == ASSUME PageInv, PageAssumption, UserAsks PROVE PageInv'
<1>1. flight' = flight /\ page' = page /\ elsewhere' = elsewhere /\ asked.kind = "none"
  BY DEF UserAsks, Nothing
<1>2. /\ server' \in RunStates /\ changes' \in Nat
      /\ \/ asked'.kind = "refresh" /\ asked'.row \in PageRows \cup {0}
         \/ asked'.kind = "patch" /\ asked'.row \in PageRows /\ Signature(server') = Signature(server)
  BY RunKinds DEF UserAsks, PageInv
<1>3. QED
  BY <1>1, <1>2, ServerMoves DEF PageInv, PageTyped, AskedTyped, Following

\* The answer to what the user asked is lost.
LEMMA PageReplyLost == ASSUME PageInv, ReplyLost PROVE PageInv'
<1>1. flight' = flight /\ page' = page /\ server' = server /\ changes' = changes /\ asked' = Nothing
      /\ elsewhere' = (elsewhere \/ asked.kind = "refresh")
  BY DEF ReplyLost
<1>2. Following' => Following
  BY <1>1 DEF Following, PageInv, PageTyped, AskedTyped
<1>3. elsewhere' \in BOOLEAN /\ Nothing.kind = "none" /\ Nothing.row = 0
  BY <1>1 DEF Nothing, PageInv, PageTyped
<1>4. QED
  BY <1>1, <1>2, <1>3, ServerMoves DEF PageInv, PageTyped, AskedTyped

\* A step of the page that leaves it with one request.
LEMMA OneRequest ==
  ASSUME PageTyped, NEW gone, NEW new \in Requests, flight' = (flight \ gone) \cup {new},
         page' \in PageStates, page.gen <= page'.gen, new.gen = page'.gen,
         \A q \in flight : q.gen = page'.gen => q \in gone,
         ~page'.timer, page'.failures < MaxFailures,
         server' \in RunStates, changes' \in Nat, elsewhere' \in BOOLEAN, AskedTyped'
  PROVE  PageTyped' /\ OneThing' /\ new \in flight' /\ \A r \in flight' : Current(r)' <=> r = new
<1>1. page.gen \in Nat /\ page'.gen \in Nat /\ page'.gen >= 1
  BY PageAssumption DEF PageTyped, PageStates
<1>2. \A r \in flight' : r \in Requests /\ r.gen \in 1..page'.gen
  BY <1>1 DEF PageTyped, Requests
<1>3. PageTyped'
  BY <1>2 DEF PageTyped
<1>4. \A r \in flight' : Current(r)' <=> r = new
  BY DEF Current
<1>5. OneThing'
  BY <1>4 DEF OneThing
<1>6. QED
  BY <1>3, <1>4, <1>5

\* A step that leaves it with none.
LEMMA NoRequest ==
  ASSUME PageTyped, NEW gone \in flight, flight' = flight \ {gone}, page' \in PageStates, page'.gen = page.gen,
         \A q \in flight : q.gen = page.gen => q = gone, page'.timer => page'.failures < MaxFailures,
         UNCHANGED <<server, changes, asked, elsewhere>>
  PROVE  PageTyped' /\ OneThing' /\ \A r \in flight' : ~Current(r)'
<1>1. PageTyped'
  BY DEF PageTyped, AskedTyped
<1>2. \A r \in flight' : ~Current(r)'
  BY DEF Current
<1>3. OneThing'
  BY <1>2 DEF OneThing
<1>4. QED
  BY <1>1, <1>2, <1>3

\* While the page has a request of its present load, that is all it does.
LEMMA OnlyRequest ==
  ASSUME PageInv, NEW r \in flight, Current(r)
  PROVE  /\ ~page.timer /\ page.failures < MaxFailures /\ page.failures \in Nat /\ page.gen \in Nat
         /\ r \in Requests /\ r.gen = page.gen /\ r.seen \in RunStates /\ page.shown \in RunStates
         /\ \A q \in flight : q.gen = page.gen => q = r
         /\ Following => RequestTrue(r)
         /\ server \in RunStates
<1>1. \A q \in flight : q.gen = page.gen => q = r
  BY DEF PageInv, OneThing, Current
<1>2. QED
  <2>1. page \in PageStates /\ r \in Requests /\ server \in RunStates /\ ~page.timer /\ page.failures < MaxFailures
        /\ r.gen = page.gen /\ (Following => RequestTrue(r))
    BY DEF PageInv, PageTyped, OneThing, Current, PageFollows
  <2>2. page.failures \in Nat /\ page.gen \in Nat /\ page.shown \in RunStates /\ r.seen \in RunStates
    BY <2>1, PageAssumption DEF PageStates, Requests
  <2>3. QED
    BY <1>1, <2>1, <2>2

\* A new load: what was under way expires.
LEMMA PageRefresh ==
  ASSUME PageInv, PageAssumption, Refresh, UNCHANGED <<server, changes>>,
         AskedTyped'
  PROVE  PageInv'
<1>1. page \in PageStates /\ page.gen \in Nat /\ page.gen <= MaxRefreshes
  BY PageAssumption DEF PageInv, PageTyped, PageStates, Refresh
<1>2. page' \in PageStates /\ page'.gen = page.gen + 1 /\ ~page'.timer /\ page'.failures = 0
  <2>1. page.gen + 1 \in 1..MaxRefreshes + 1 /\ 0 \in 0..MaxFailures
    BY <1>1, PageAssumption DEF PageStates
  <2>2. page' = [page EXCEPT !.gen = page.gen + 1, !.timer = FALSE, !.failures = 0, !.pollError = "none"]
    BY DEF Refresh
  <2>3. QED
    BY <1>1, <2>1, <2>2 DEF PageStates
<1>3. PICK new \in Requests :
        /\ new = RequestOf(page.gen + 1, "initial", FALSE)
        /\ new.gen = page.gen + 1 /\ new.kind = "initial" /\ ~new.last /\ new.step = "sent"
  <2>1. page.gen + 1 \in Nat /\ "initial" \in {"initial", "progress"}
    BY <1>1
  <2>2. QED
    BY <2>1, SentAgain, Zenon
<1>4. flight' = (flight \ {}) \cup {new} /\ elsewhere' = FALSE
  BY <1>3 DEF Refresh
<1>5. \A q \in flight : q.gen # page.gen + 1
  BY <1>1 DEF PageInv, PageTyped
<1>6. PageTyped' /\ OneThing' /\ new \in flight' /\ \A r \in flight' : Current(r)' <=> r = new
  <2>1. PageTyped /\ server' \in RunStates /\ changes' \in Nat /\ elsewhere' \in BOOLEAN
    BY <1>4 DEF PageInv, PageTyped
  <2>2. page.gen <= page'.gen /\ page'.failures < MaxFailures /\ new.gen = page'.gen
    <3>1. page.gen <= page'.gen
      BY <1>1, <1>2
    <3>2. page'.failures < MaxFailures
      BY <1>2, PageAssumption
    <3>3. new.gen = page'.gen
      BY <1>2, <1>3
    <3>4. QED
      BY <3>1, <3>2, <3>3
  <2>3. \A q \in flight : q.gen = page'.gen => q \in {}
    BY <1>2, <1>5
  <2>4. QED
    BY <1>2, <1>4, <2>1, <2>2, <2>3, OneRequest
<1>7. Current(new)' /\ RequestTrue(new)'
  BY <1>3, <1>6 DEF RequestTrue
<1>8. PageFollows'
  BY <1>3, <1>6, <1>7 DEF PageFollows, InitialUnderWay, Moving
<1>9. QED
  BY <1>6, <1>8 DEF PageInv

\* The server reads the status for a request, or the rows.
LEMMA PageServerReads == ASSUME PageInv, NEW r \in flight, ServerReads(r) PROVE PageInv'
<1>1. r \in Requests /\ server \in RunStates /\ page \in PageStates
  BY DEF PageInv, PageTyped
<1>2. PICK new \in Requests :
        /\ flight' = (flight \ {r}) \cup {new}
        /\ new.gen = r.gen /\ new.kind = r.kind /\ new.last = r.last /\ new.step # "sent"
        /\ \/ new.seen = server
           \/ r.step # "sent" /\ new.seen = [server EXCEPT !.status = r.seen.status]
  <2>1. CASE r.step = "sent" /\ flight' = (flight \ {r}) \cup {[r EXCEPT !.step = "half", !.seen = server]}
    <3> DEFINE new == [r EXCEPT !.step = "half", !.seen = server]
    <3>1. new \in Requests /\ new.gen = r.gen /\ new.kind = r.kind /\ new.last = r.last /\ new.step = "half"
          /\ new.seen = server
      BY <1>1 DEF Requests
    <3>2. flight' = (flight \ {r}) \cup {new}
      BY <2>1
    <3> HIDE DEF new
    <3>3. QED
      BY <3>1, <3>2
  <2>2. CASE r.step = "half" /\ flight' = (flight \ {r}) \cup
               {[r EXCEPT !.step = "answered", !.seen = [server EXCEPT !.status = r.seen.status]]}
    <3> DEFINE read_ == [server EXCEPT !.status = r.seen.status]
               new == [r EXCEPT !.step = "answered", !.seen = read_]
    <3>1. read_ \in RunStates
      BY <1>1 DEF Requests, RunStates
    <3>2. new \in Requests /\ new.gen = r.gen /\ new.kind = r.kind /\ new.last = r.last /\ new.step = "answered"
          /\ new.seen = read_
      BY <1>1, <3>1 DEF Requests
    <3>3. flight' = (flight \ {r}) \cup {new} /\ r.step # "sent"
      BY <2>2
    <3> HIDE DEF new
    <3>4. QED
      BY <3>2, <3>3
  <2>3. QED
    BY <2>1, <2>2 DEF ServerReads
<1>3. UNCHANGED <<server, changes, page, asked, elsewhere>>
  BY DEF ServerReads
<1>4. \A q \in flight' : q = new \/ (q \in flight /\ q # r)
  BY <1>2
<1>5. Current(new)' = Current(r) /\ \A q : Current(q)' = Current(q)
  BY <1>2, <1>3 DEF Current
<1>6. PageTyped'
  BY <1>1, <1>2, <1>3, <1>4 DEF PageInv, PageTyped, AskedTyped
<1>7. OneThing'
  BY <1>3, <1>4, <1>5 DEF PageInv, OneThing
<1>8. ASSUME Following, Current(r) PROVE RequestTrue(new)
  <2>1. RequestTrue(r)
    BY <1>8 DEF PageInv, PageFollows
  <2>2. CASE new.seen = server
    BY <1>2, <2>1, <2>2 DEF RequestTrue, Truthful
  <2>3. CASE r.step # "sent" /\ new.seen = [server EXCEPT !.status = r.seen.status]
    <3>1. r.seen \in RunStates /\ new.seen.status = r.seen.status /\ new.seen.rows = server.rows
      BY <1>1, <2>3 DEF Requests, RunStates
    <3>2. ActiveRun(new.seen) <=> ActiveRun(r.seen)
      BY <3>1 DEF ActiveRun
    <3>3. Truthful(new.seen)
      BY <1>1, <2>1, <2>3, <3>1, <3>2, SignatureTells DEF RequestTrue, Truthful, Signature
    <3>4. QED
      BY <1>2, <2>1, <2>3, <3>2, <3>3 DEF RequestTrue
  <2>4. QED
    BY <1>2, <2>2, <2>3
<1>9. PageFollows'
  <2> SUFFICES ASSUME Following PROVE PageFollows'
    BY <1>3 DEF PageFollows, Following
  <2>1. \A q \in flight' : Current(q)' => RequestTrue(q)'
    BY <1>3, <1>4, <1>5, <1>8 DEF PageInv, PageFollows, RequestTrue, Truthful
  <2>2. InitialUnderWay => InitialUnderWay'
    BY <1>2, <1>5 DEF InitialUnderWay
  <2>3. Moving => Moving'
    BY <1>2, <1>3, <1>5 DEF Moving
  <2>4. QED
    BY <1>3, <2>1, <2>2, <2>3 DEF PageInv, PageFollows, Truthful
<1>10. QED
  BY <1>6, <1>7, <1>9 DEF PageInv

\* An answer that comes late, or an error, of an earlier load is dropped.
LEMMA PageExpires == ASSUME PageInv, NEW r \in flight, Expires(r) PROVE PageInv'
<1>1. UNCHANGED <<server, changes, page, asked, elsewhere>> /\ flight' = flight \ {r} /\ ~Current(r)
  BY DEF Expires
<1>2. \A q : Current(q)' = Current(q)
  BY <1>1 DEF Current
<1>3. PageTyped' /\ OneThing'
  BY <1>1, <1>2 DEF PageInv, PageTyped, AskedTyped, OneThing
<1>4. (InitialUnderWay => InitialUnderWay') /\ (Moving => Moving')
  BY <1>1, <1>2 DEF InitialUnderWay, Moving
<1>5. PageFollows'
  BY <1>1, <1>2, <1>4 DEF PageInv, PageFollows, Following, RequestTrue, Truthful
<1>6. QED
  BY <1>3, <1>5 DEF PageInv

\* The detail of a new load arrives, or fails to.
LEMMA PageInitial ==
  ASSUME PageInv, PageAssumption, NEW r \in flight, InitialArrives(r) \/ InitialFails(r) PROVE PageInv'
<1>1. UNCHANGED <<server, changes, asked, elsewhere>> /\ flight' = flight \ {r} /\ Current(r)
  BY DEF InitialArrives, InitialFails, Answered
<1>2. page \in PageStates /\ page.gen \in Nat /\ r.seen \in RunStates
  <2>1. page \in PageStates
    BY DEF PageInv, PageTyped
  <2>2. QED
    BY <1>1, <2>1, OnlyRequest
<1>3. CASE InitialArrives(r)
  <2> DEFINE active == ActiveRun(r.seen)
             sig_ == Signature(r.seen)
  <2>1. page' \in PageStates
    <3>1. active \in BOOLEAN
      BY DEF ActiveRun
    <3>2. sig_ \in {Signature(seen_) : seen_ \in RunStates}
      BY <1>2
    <3>3. page' = [page EXCEPT !.shown = r.seen, !.loadError = FALSE, !.sig = sig_, !.timer = active]
      BY <1>3 DEF InitialArrives
    <3> HIDE DEF active, sig_
    <3>4. QED
      BY <1>2, <3>1, <3>2, <3>3 DEF PageStates
  <2>2. page'.gen = page.gen /\ page'.shown = r.seen /\ page'.timer = ActiveRun(r.seen)
        /\ page'.failures = page.failures
    BY <1>2, <1>3 DEF InitialArrives, PageStates
  <2>3. PageTyped' /\ OneThing' /\ \A q \in flight' : ~Current(q)'
    <3>1. PageTyped
      BY DEF PageInv
    <3>2. QED
      BY <1>1, <2>1, <2>2, <3>1, OnlyRequest, NoRequest
  <2>4. PageFollows'
    <3> SUFFICES ASSUME Following PROVE PageFollows'
      BY <1>1 DEF PageFollows, Following
    <3>1. RequestTrue(r) /\ r.step = "answered"
      BY <1>1, <1>3, OnlyRequest DEF InitialArrives, Answered
    <3>2. Truthful(page.shown)' /\ (Moving \/ ~ActiveRun(page.shown))'
      BY <1>1, <2>2, <3>1 DEF RequestTrue, Truthful, Moving
    <3>3. QED
      BY <2>3, <3>2 DEF PageFollows
  <2>5. QED
    BY <2>3, <2>4 DEF PageInv
<1>4. CASE InitialFails(r)
  <2>1. page' \in PageStates /\ page'.gen = page.gen /\ page'.timer = page.timer /\ page'.loadError
        /\ page'.failures = page.failures
    BY <1>2, <1>4 DEF InitialFails, PageStates
  <2>2. PageTyped' /\ OneThing' /\ \A q \in flight' : ~Current(q)'
    <3>1. PageTyped
      BY DEF PageInv
    <3>2. QED
      BY <1>1, <2>1, <3>1, OnlyRequest, NoRequest
  <2>3. PageFollows'
    BY <2>1, <2>2 DEF PageFollows
  <2>4. QED
    BY <2>2, <2>3 DEF PageInv
<1>5. QED
  BY <1>3, <1>4

\* The timer fires: the progress is asked for.
LEMMA PageTimer == ASSUME PageInv, PageAssumption, TimerFires PROVE PageInv'
<1>1. UNCHANGED <<server, changes, asked, elsewhere>> /\ page.timer
  BY DEF TimerFires
<1>2. page \in PageStates /\ page.gen \in Nat
  BY PageAssumption DEF PageInv, PageTyped, PageStates
<1>3. PICK new \in Requests :
        /\ new = RequestOf(page.gen, "progress", FALSE)
        /\ new.gen = page.gen /\ new.kind = "progress" /\ ~new.last /\ new.step = "sent"
  BY <1>2, SentAgain
<1>4. page' \in PageStates /\ page'.gen = page.gen /\ ~page'.timer /\ page'.failures = page.failures
      /\ page'.shown = page.shown /\ page'.loadError = page.loadError
  BY <1>2 DEF TimerFires, PageStates
<1>5. flight' = (flight \ {}) \cup {new}
  BY <1>3 DEF TimerFires
<1>6. page.failures < MaxFailures /\ \A q \in flight : ~Current(q)
  BY <1>1 DEF PageInv, OneThing
<1>7. PageTyped' /\ OneThing' /\ new \in flight' /\ \A q \in flight' : Current(q)' <=> q = new
  <2>1. PageTyped /\ server' \in RunStates /\ changes' \in Nat /\ elsewhere' \in BOOLEAN /\ AskedTyped'
    BY <1>1 DEF PageInv, PageTyped, AskedTyped
  <2>2. page.gen <= page'.gen /\ page'.failures < MaxFailures /\ \A q \in flight : q.gen = page'.gen => q \in {}
    BY <1>2, <1>4, <1>6 DEF Current
  <2>3. QED
    BY <1>3, <1>4, <1>5, <2>1, <2>2, OneRequest
<1>8. RequestTrue(new)' /\ Moving' /\ ~InitialUnderWay
  BY <1>3, <1>6, <1>7 DEF RequestTrue, Moving, InitialUnderWay
<1>9. PageFollows'
  <2> SUFFICES ASSUME Following PROVE PageFollows'
    BY <1>1 DEF PageFollows, Following
  <2>1. Truthful(page.shown)' \/ page'.loadError
    BY <1>1, <1>4, <1>8 DEF PageInv, PageFollows, Truthful
  <2>2. QED
    BY <1>7, <1>8, <2>1 DEF PageFollows
<1>10. QED
  BY <1>7, <1>9 DEF PageInv

\* Of a run that is over, or changed, the detail is asked for; else the timer is set.
LEMMA PageProgress == ASSUME PageInv, PageAssumption, NEW r \in flight, ProgressArrives(r) PROVE PageInv'
<1> DEFINE load == Signature(r.seen) # page.sig \/ ~ActiveRun(r.seen)
           idle == ~load
           over == ~ActiveRun(r.seen)
<1>1. UNCHANGED <<server, changes, asked, elsewhere>> /\ Current(r) /\ r.kind = "progress" /\ r.step = "answered"
  BY DEF ProgressArrives, Answered
<1>2. page \in PageStates /\ page.gen \in Nat /\ r.seen \in RunStates /\ r.gen = page.gen
  <2>1. page \in PageStates
    BY DEF PageInv, PageTyped
  <2>2. QED
    BY <1>1, <2>1, OnlyRequest
<1>3. page' \in PageStates /\ page'.gen = page.gen /\ page'.timer = idle /\ page'.failures = 0
      /\ page'.shown = page.shown /\ page'.loadError = page.loadError
  <2>1. 0 \in 0..MaxFailures
    BY PageAssumption
  <2>2. idle \in BOOLEAN
    OBVIOUS
  <2>3. page' = [page EXCEPT !.failures = 0, !.pollError = "none", !.sig = Signature(r.seen), !.timer = idle]
    BY DEF ProgressArrives
  <2> HIDE DEF idle
  <2>4. QED
    BY <1>2, <2>1, <2>2, <2>3 DEF PageStates
<1>4. PageTyped /\ server' \in RunStates /\ changes' \in Nat /\ elsewhere' \in BOOLEAN /\ AskedTyped'
  BY <1>1 DEF PageInv, PageTyped, AskedTyped
<1>5. \A q \in flight : q.gen = page.gen => q = r
  BY <1>1, OnlyRequest
<1>6. ~InitialUnderWay
  BY <1>1, <1>5 DEF InitialUnderWay, Current
<1>7. ASSUME Following PROVE Truthful(page.shown)' \/ page'.loadError
  BY <1>1, <1>3, <1>6, <1>7 DEF PageInv, PageFollows, Truthful
<1>8. flight' = (flight \ {r}) \cup (IF load THEN {RequestOf(r.gen, "detail", over)} ELSE {})
  BY DEF ProgressArrives
<1>9. CASE load
  <2>1. over \in BOOLEAN /\ (over <=> ~ActiveRun(r.seen))
    BY DEF ActiveRun
  <2>2. ~page'.timer /\ page.gen <= page'.gen /\ page'.failures < MaxFailures /\ page'.gen = page.gen
    <3>1. page.gen <= page'.gen /\ page'.failures < MaxFailures /\ page'.gen = page.gen
      BY <1>2, <1>3, PageAssumption
    <3>2. ~page'.timer
      <4>1. page'.timer = idle /\ ~idle
        BY <1>3, <1>9
      <4> HIDE DEF idle
      <4>2. QED
        BY <4>1
    <3>3. QED
      BY <3>1, <3>2
  <2> HIDE DEF load, idle, over
  <2>3. PICK new \in Requests :
          /\ new = RequestOf(r.gen, "detail", over)
          /\ new.gen = r.gen /\ new.kind = "detail" /\ new.last = over /\ new.step = "sent"
    BY <1>2, <2>1, SentIsRequest
  <2>4. flight' = (flight \ {r}) \cup {new}
    BY <1>8, <1>9, <2>3
  <2>5. new.gen = page'.gen /\ \A q \in flight : q.gen = page'.gen => q \in {r}
    BY <1>2, <1>5, <2>2, <2>3
  <2>6. PageTyped' /\ OneThing' /\ new \in flight' /\ \A q \in flight' : Current(q)' <=> q = new
    <3>1. page' \in PageStates
      BY <1>3
    <3>2. QED
      BY <1>4, <2>2, <2>4, <2>5, <3>1, OneRequest
  <2>7. PageFollows'
    <3> SUFFICES ASSUME Following PROVE PageFollows'
      BY <1>1 DEF PageFollows, Following
    <3>1. RequestTrue(r) /\ server \in RunStates
      BY <1>1, OnlyRequest
    <3>2. ~ActiveRun(r.seen) => ~ActiveRun(server)
      BY <1>1, <1>2, <3>1, SignatureTells DEF RequestTrue, Truthful
    <3>3. RequestTrue(new)'
      BY <1>1, <2>1, <2>3, <3>2 DEF RequestTrue
    <3>4. Moving'
      BY <2>6 DEF Moving
    <3>5. QED
      BY <1>7, <2>6, <3>3, <3>4 DEF PageFollows
  <2>8. QED
    BY <2>6, <2>7 DEF PageInv
<1>10. CASE ~load
  <2>1. flight' = flight \ {r}
    BY <1>8, <1>10
  <2>2. page'.timer /\ page'.failures < MaxFailures
    <3>1. page'.failures < MaxFailures
      BY <1>3, PageAssumption
    <3>2. page'.timer
      <4>1. page'.timer = idle /\ idle
        BY <1>3, <1>10
      <4> HIDE DEF idle
      <4>2. QED
        BY <4>1
    <3>3. QED
      BY <3>1, <3>2
  <2> HIDE DEF load, idle
  <2>3. PageTyped' /\ OneThing' /\ \A q \in flight' : ~Current(q)'
    BY <1>1, <1>3, <1>4, <1>5, <2>1, <2>2, NoRequest
  <2>4. PageFollows'
    BY <1>1, <1>7, <2>2, <2>3 DEF PageFollows, Following, Moving
  <2>5. QED
    BY <2>3, <2>4 DEF PageInv
<1>11. QED
  BY <1>9, <1>10

\* The detail arrives, or a request of the polling fails.
LEMMA PageDetail ==
  ASSUME PageInv, PageAssumption, NEW r \in flight, DetailArrives(r) \/ PollFails(r) PROVE PageInv'
<1>1. UNCHANGED <<server, changes, asked, elsewhere>> /\ flight' = flight \ {r} /\ Current(r)
      /\ r.kind # "initial"
  BY DEF DetailArrives, PollFails, Answered
<1>2. page \in PageStates /\ page.gen \in Nat /\ r.seen \in RunStates /\ r.last \in BOOLEAN
  <2>1. page \in PageStates /\ r \in Requests
    BY DEF PageInv, PageTyped
  <2>2. QED
    BY <1>1, <2>1, OnlyRequest DEF Requests
<1>3. CASE DetailArrives(r)
  <2> DEFINE idle == ~r.last
  <2>1. page' \in PageStates /\ page'.gen = page.gen /\ page'.shown = r.seen /\ page'.timer = idle
        /\ page'.failures = page.failures
    <3>1. idle \in BOOLEAN /\ page' = [page EXCEPT !.shown = r.seen, !.timer = idle]
      BY <1>3 DEF DetailArrives
    <3> HIDE DEF idle
    <3>2. QED
      BY <1>2, <3>1 DEF PageStates
  <2>2. PageTyped' /\ OneThing' /\ \A q \in flight' : ~Current(q)'
    <3>1. PageTyped
      BY DEF PageInv
    <3>2. QED
      BY <1>1, <2>1, <3>1, OnlyRequest, NoRequest
  <2>3. PageFollows'
    <3> SUFFICES ASSUME Following PROVE PageFollows'
      BY <1>1 DEF PageFollows, Following
    <3>1. RequestTrue(r) /\ r.step = "answered"
      BY <1>1, <1>3, OnlyRequest DEF DetailArrives, Answered
    <3>2. Truthful(page.shown)' /\ (r.last => ~ActiveRun(page.shown)')
      BY <1>1, <2>1, <3>1 DEF RequestTrue, Truthful
    <3>3. ~r.last => Moving'
      BY <2>1 DEF Moving
    <3>4. QED
      BY <2>2, <3>2, <3>3 DEF PageFollows
  <2>4. QED
    BY <2>2, <2>3 DEF PageInv
<1>4. CASE PollFails(r)
  <2> DEFINE stop == page.failures + 1 >= MaxFailures
  <2>1. page.failures + 1 \in 0..MaxFailures /\ stop \in BOOLEAN
    BY <1>1, OnlyRequest, PageAssumption
  <2>2. page' = [page EXCEPT !.failures = page.failures + 1, !.timer = ~stop,
                             !.pollError = IF stop THEN "stopped" ELSE "retrying"]
    BY <1>4 DEF PollFails
  <2>3. page' \in PageStates /\ page'.gen = page.gen /\ page'.shown = page.shown /\ page'.loadError = page.loadError
        /\ page'.failures = page.failures + 1 /\ page'.timer = ~stop /\ (stop => page'.pollError = "stopped")
    <3> HIDE DEF stop
    <3>1. QED
      BY <1>2, <2>1, <2>2 DEF PageStates
  <2>4. ~stop => page'.failures < MaxFailures
    BY <2>1, <2>3, PageAssumption
  <2> HIDE DEF stop
  <2>5. PageTyped' /\ OneThing' /\ \A q \in flight' : ~Current(q)'
    <3>1. PageTyped
      BY DEF PageInv
    <3>2. QED
      BY <1>1, <2>3, <2>4, <3>1, OnlyRequest, NoRequest
  <2>6. ~InitialUnderWay
    BY <1>1, OnlyRequest DEF InitialUnderWay, Current
  <2>7. PageFollows'
    BY <1>1, <2>3, <2>5, <2>6 DEF PageInv, PageFollows, Following, Truthful, Moving
  <2>8. QED
    BY <2>5, <2>7 DEF PageInv
<1>5. QED
  BY <1>3, <1>4

\* The user's request is answered: the run is loaded again, or the bad case shown.
LEMMA PageReply == ASSUME PageInv, PageAssumption, ReplyArrives PROVE PageInv'
<1>1. UNCHANGED <<server, changes>> /\ asked'.kind = "none" /\ asked'.row = 0
  BY DEF ReplyArrives, Nothing
<1>2. CASE asked.kind = "refresh" /\ Refresh
  BY <1>1, <1>2, PageRefresh DEF AskedTyped
<1>3. CASE asked.kind = "patch" /\ page' = [page EXCEPT !.shown.bad = @ \cup {asked.row}] /\ UNCHANGED <<flight, elsewhere>>
  <2> DEFINE patched == [page.shown EXCEPT !.bad = page.shown.bad \cup {asked.row}]
  <2>1. page \in PageStates /\ asked.row \in PageRows
    BY <1>3 DEF PageInv, PageTyped, AskedTyped
  <2>2. page.shown \in RunStates
    BY <2>1 DEF PageStates
  <2>3. patched \in RunStates /\ patched.status = page.shown.status /\ patched.rows = page.shown.rows
    BY <2>1, <2>2 DEF RunStates
  <2>4. page' = [page EXCEPT !.shown = patched]
    BY <1>3
  <2> HIDE DEF patched
  <2>5. /\ page' \in PageStates /\ page'.shown = patched /\ page'.gen = page.gen /\ page'.timer = page.timer
        /\ page'.failures = page.failures /\ page'.loadError = page.loadError /\ page'.pollError = page.pollError
    BY <2>1, <2>3, <2>4 DEF PageStates
  <2>6. \A q : Current(q)' = Current(q)
    BY <2>5 DEF Current
  <2>7. PageTyped' /\ OneThing'
    BY <1>1, <1>3, <2>5, <2>6 DEF PageInv, PageTyped, AskedTyped, OneThing
  <2>8. (ActiveRun(page.shown)' <=> ActiveRun(page.shown)) /\ (Truthful(page.shown) => Truthful(page.shown)')
    BY <1>1, <2>3, <2>5 DEF ActiveRun, Truthful, Signature
  <2>9. PageFollows'
    BY <1>1, <1>3, <2>5, <2>6, <2>8
       DEF PageInv, PageFollows, Following, RequestTrue, Truthful, Moving, InitialUnderWay
  <2>10. QED
    BY <2>7, <2>9 DEF PageInv
<1>4. QED
  BY <1>2, <1>3 DEF ReplyArrives

\* PageInv is inductive.
LEMMA PageInvCorrect == PageSpec => []PageInv
<1>1. PageInit => PageInv
  <2> SUFFICES ASSUME PageInit PROVE PageInv
    OBVIOUS
  <2>1. PICK new \in Requests :
          /\ new = RequestOf(1, "initial", FALSE)
          /\ new.gen = 1 /\ new.kind = "initial" /\ ~new.last /\ new.step = "sent"
    <3>1. 1 \in Nat /\ "initial" \in {"initial", "progress"}
      OBVIOUS
    <3>2. QED
      BY <3>1, SentAgain, Zenon
  <2>2. page \in PageStates /\ page.gen = 1 /\ ~page.timer /\ page.failures = 0 /\ flight = {new}
    <3>1. 1 \in 1..MaxRefreshes + 1 /\ 0 \in 0..MaxFailures
      BY PageAssumption
    <3>2. Signature(Unloaded) \in {Signature(seen_) : seen_ \in RunStates}
      BY UnloadedKind
    <3>3. QED
      BY <2>1, <3>1, <3>2, UnloadedKind DEF PageInit, PageStates
  <2>3. server \in RunStates
    <3>1. PICK s \in {"pending", "completed"} :
            server = [status |-> s, bad |-> {}, rows |-> [q \in PageRows |-> IF s = "pending" THEN s ELSE "failed"]]
      BY DEF PageInit
    <3> DEFINE rows_ == [q \in PageRows |-> IF s = "pending" THEN s ELSE "failed"]
    <3>2. rows_ \in [PageRows -> {"none", "pending", "running", "succeeded", "failed"}]
      OBVIOUS
    <3>3. server = [status |-> s, bad |-> {}, rows |-> rows_]
      BY <3>1
    <3> HIDE DEF rows_
    <3>4. QED
      BY <3>2, <3>3 DEF RunStates
  <2>4. PageTyped
    <3>1. flight \subseteq Requests /\ \A r \in flight : r.gen \in 1..page.gen
      <4>1. new.gen = 1 /\ page.gen = 1 /\ flight = {new}
        BY <2>1, <2>2, Zenon
      <4>2. \A r \in flight : r.gen = page.gen
        BY <4>1
      <4>3. page.gen \in 1..page.gen
        BY <4>1
      <4>4. QED
        BY <4>1, <4>2, <4>3
    <3>2. AskedTyped /\ elsewhere \in BOOLEAN /\ changes \in Nat
      BY DEF PageInit, AskedTyped, Nothing
    <3>3. QED
      BY <2>2, <2>3, <3>1, <3>2 DEF PageTyped
  <2>5. OneThing
    <3>1. 0 < MaxFailures
      BY PageAssumption
    <3>2. QED
      BY <2>2, <3>1 DEF OneThing
  <2>6. Current(new) /\ RequestTrue(new)
    BY <2>1, <2>2 DEF Current, RequestTrue
  <2>7. PageFollows
    BY <2>1, <2>2, <2>6 DEF PageFollows, InitialUnderWay, Moving
  <2>8. QED
    BY <2>4, <2>5, <2>7 DEF PageInv
<1>2. PageInv /\ [PageNext]_pageVars => PageInv'
  <2> SUFFICES ASSUME PageInv, [PageNext]_pageVars PROVE PageInv'
    OBVIOUS
  <2>1. CASE UNCHANGED pageVars
    BY <2>1 DEF pageVars, PageInv, PageTyped, AskedTyped, OneThing, PageFollows, Following, Current, RequestTrue, Truthful,
       InitialUnderWay, Moving
  <2>2. CASE ManualRefresh
    BY <2>2, PageRefresh, PageAssumption DEF ManualRefresh, PageInv, PageTyped, AskedTyped
  <2>3. QED
    BY <2>1, <2>2, PageServerWorks, PageOther, PageTimer, PageUserAsks, PageReply, PageReplyLost, PageServerReads,
       PageInitial, PageProgress, PageDetail, PageExpires, PageAssumption DEF PageNext
<1>3. QED
  BY <1>1, <1>2, PTL DEF PageSpec

\* Loads and failures stay within their limits, and no request is ahead of its page.
THEOREM PageTypeCorrect == PageSpec => []PageTypeOK
<1>1. PageInv => PageTypeOK
  BY DEF PageInv, PageTyped, PageStates, Requests, PageTypeOK
<1>2. QED
  BY <1>1, PageInvCorrect, PTL

\* No late answer, no failed load and no change between two reads leaves behind a page
\* that has stopped asking: it shows how the run ended, or says that it could not load it.
\* (start, tick, loadInitialDetail, isCurrent)
THEOREM StopsInformedCorrect == PageSpec => []StopsInformed
<1>1. PageInv => StopsInformed
  BY DEF PageInv, PageFollows, Following, Truthful, InitialUnderWay, Moving, StopsInformed, Resting,
         FailureShown, RefreshFailed, Ended
<1>2. QED
  BY <1>1, PageInvCorrect, PTL

(***************************************************************************)
(* Workloads                                                               *)
(***************************************************************************)
\* A behaviour of Workloads is a behaviour of each program: what is proved of a
\* program's own specification holds of the one that is model-checked.
THEOREM WorkloadsAreTheirs ==
  WorkSpec => /\ PipeSpec /\ NormSpec /\ DirSpec /\ EvalSpec
              /\ SalesSpec /\ SearchSpec /\ AnswerSpec /\ PageSpec
<1>1. WorkInit => /\ PipeInit /\ NormInit /\ DirInit /\ EvalInit
                  /\ SalesInit /\ SearchInit /\ AnswerInit /\ PageInit
  BY DEF WorkInit
<1>2. [WorkNext]_workVars => [PipeNext]_pipeVars
  BY DEF WorkNext, workVars
<1>3. [WorkNext]_workVars => [NormNext]_normVars
  BY DEF WorkNext, workVars
<1>4. [WorkNext]_workVars => [DirNext]_dirVars
  BY DEF WorkNext, workVars
<1>5. [WorkNext]_workVars => [EvalNext]_evalVars
  BY DEF WorkNext, workVars
<1>6. [WorkNext]_workVars => [SalesNext]_salesVars
  BY DEF WorkNext, workVars
<1>7. [WorkNext]_workVars => [SearchNext]_searchVars
  BY DEF WorkNext, workVars
<1>8. [WorkNext]_workVars => [AnswerNext]_answerVars
  BY DEF WorkNext, workVars
<1>9. [WorkNext]_workVars => [PageNext]_pageVars
  BY DEF WorkNext, workVars
<1>10. QED
  BY <1>1, <1>2, <1>3, <1>4, <1>5, <1>6, <1>7, <1>8, <1>9, PTL DEF WorkSpec, PipeSpec, NormSpec, DirSpec, EvalSpec, SalesSpec, SearchSpec,
     AnswerSpec, PageSpec

\* The state of the program that moves keeps its type, and the program that moves is one of
\* those there are: tries, attempts, loads and hits within their limits, files and rows of
\* the kinds the code writes.  (all programs of Workloads)
THEOREM WorkTypeCorrect == WorkSpec => []WorkTypeOK
<1> DEFINE Programs == {"pipeline", "normalizer", "directory", "evaluation", "sales", "search", "answer", "page"}
<1>1. WorkSpec => [](moving \in Programs)
  <2>1. WorkInit => moving \in Programs
    BY DEF WorkInit
  <2>2. moving \in Programs /\ [WorkNext]_workVars => (moving \in Programs)'
    BY DEF WorkNext, workVars
  <2>3. QED
    BY <2>1, <2>2, PTL DEF WorkSpec
<1>2. /\ moving \in Programs
      /\ PipeTypeOK /\ NormTypeOK /\ DirTypeOK /\ EvalTypeOK
      /\ SalesTypeOK /\ SearchTypeOK /\ AnswerTypeOK /\ PageTypeOK
      => WorkTypeOK
  BY DEF WorkTypeOK
<1>3. QED
  BY <1>1, <1>2, WorkloadsAreTheirs, PipeTypeCorrect, NormTypeCorrect, DirTypeCorrect, EvalTypeCorrect,
     SalesTypeCorrect, SearchTypeCorrect, AnswerTypeCorrect, PageTypeCorrect, PTL
================================================================================

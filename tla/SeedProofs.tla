----------------------------- MODULE SeedProofs -----------------------------
(* Theorems about DiskMapping and Seed: what the controller takes for the file *)
(* of a disk, and what the VM that a recorded seed names holds, for every      *)
(* number of migrations, invocations, disks and VMIDs.                         *)
EXTENDS Seed, LeastElement

(* ------------------------- the mapping of the disks ------------------------ *)

\* The body of the recursion in Resolve: the mapping up to disk i from that before.
Found(disks, files, i, before) ==
  Candidates(disks[i], files, DOMAIN files \ ToSet(before), Len(disks) = 1)

Extended(disks, files, i, before) ==
  IF before = Refused \/ Cardinality(Found(disks, files, i, before)) # 1 THEN Refused
  ELSE Append(before, CHOOSE j \in Found(disks, files, i, before) : TRUE)

\* f resolves the disks up to n one after the other.
Resolves(disks, files, n, f) ==
  f = [i \in 0..n |-> IF i = 0 THEN <<>> ELSE Extended(disks, files, i, f[i - 1])]

LEMMA ResolvesExists ==
  ASSUME NEW disks, NEW files, NEW n \in Nat
  PROVE  \E f : Resolves(disks, files, n, f)
<1> DEFINE T == {k \in Nat : ~ \E f : Resolves(disks, files, k, f)}
<1>1. 0 \notin T
  <2>1. Resolves(disks, files, 0, [i \in 0..0 |-> <<>>])
    BY DEF Resolves
  <2> QED BY <2>1
<1>2. ASSUME NEW k \in Nat, k # 0, k \in T PROVE k - 1 \in T
  <2> SUFFICES ASSUME NEW f, Resolves(disks, files, k - 1, f) PROVE FALSE
    BY <1>2
  <2> DEFINE g == [i \in 0..k |-> IF i < k THEN f[i] ELSE Extended(disks, files, k, f[k - 1])]
  <2>1. \A i \in 0..(k - 1) : f[i] = IF i = 0 THEN <<>> ELSE Extended(disks, files, i, f[i - 1])
    BY DEF Resolves
  <2>2. \A i \in 0..k : g[i] = IF i = 0 THEN <<>> ELSE Extended(disks, files, i, g[i - 1])
    BY <1>2, <2>1
  <2>3. g = [i \in 0..k |-> IF i = 0 THEN <<>> ELSE Extended(disks, files, i, g[i - 1])]
    <3> DEFINE h == [i \in 0..k |-> IF i = 0 THEN <<>> ELSE Extended(disks, files, i, g[i - 1])]
    <3>1. \A i \in 0..k : h[i] = g[i]
      BY <2>2
    <3> QED BY <3>1
  <2> QED BY <1>2, <2>3 DEF Resolves
<1>3. T = {}
  <2> SUFFICES ASSUME T # {} PROVE FALSE
    OBVIOUS
  <2>1. PICK k \in T : \A y \in T : k <= y
    <3> HIDE DEF T
    <3>1. T \in SUBSET Nat
      BY DEF T
    <3> QED BY <3>1, LeastExists
  <2>2. k \in Nat /\ k # 0
    BY <1>1, <2>1
  <2>3. k - 1 \in T
    BY <1>2, <2>1, <2>2
  <2> QED BY <2>1, <2>2, <2>3
<1> QED BY <1>3

LEMMA ResolveUnfolds ==
  ASSUME NEW disks, NEW files, Len(disks) \in Nat
  PROVE  \E f : Resolves(disks, files, Len(disks), f) /\ Resolve(disks, files) = f[Len(disks)]
<1> DEFINE resolved[i \in 0..Len(disks)] ==
             IF i = 0 THEN <<>>
             ELSE LET before == resolved[i - 1]
                      found == Candidates(disks[i], files, DOMAIN files \ ToSet(before),
                                         Len(disks) = 1)
                  IN IF before = Refused \/ Cardinality(found) # 1 THEN Refused
                     ELSE Append(before, CHOOSE j \in found : TRUE)
<1>1. Resolve(disks, files) = resolved[Len(disks)]
  BY DEF Resolve
<1>2. resolved = CHOOSE f : Resolves(disks, files, Len(disks), f)
  BY DEF Resolves, Extended, Found
<1>3. Resolves(disks, files, Len(disks), resolved)
  <2> HIDE DEF resolved
  <2> QED BY <1>2, ResolvesExists
<1> QED BY <1>1, <1>3

\* The k files of an export.
FilesAre(files, k) == k \in Nat /\ DOMAIN files = 1..k

\* File j is the one candidate for disk i after the mapping before.
Taken(disks, files, i, before, j) ==
  /\ j \notin ToSet(before) /\ Found(disks, files, i, before) = {j}
  /\ Extended(disks, files, i, before) = Append(before, j)

\* A mapping that is not refused at disk i takes one candidate for it.
LEMMA ExtendedMapping ==
  ASSUME NEW disks, NEW files, NEW k, FilesAre(files, k), NEW i, NEW before,
         Extended(disks, files, i, before) # Refused
  PROVE  \E j \in 1..k : Taken(disks, files, i, before, j)
<1> DEFINE found == Found(disks, files, i, before)
<1>1. found \subseteq (1..k) \ ToSet(before)
  BY DEF Found, Candidates, FilesAre
<1>2. IsFiniteSet(found)
  BY <1>1, FS_Subset, FS_Interval DEF FilesAre
<1>3. Cardinality(found) = 1 /\ before # Refused
  BY DEF Extended
<1>4. PICK j : found = {j}
  <2> HIDE DEF found
  <2> QED BY <1>2, <1>3, FS_Singleton
<1>5. (CHOOSE x \in found : TRUE) = j
  <2> HIDE DEF found
  <2> QED BY <1>4
<1>6. Extended(disks, files, i, before) = Append(before, CHOOSE x \in found : TRUE)
  BY <1>3 DEF Extended
<1> QED BY <1>1, <1>4, <1>5, <1>6 DEF Taken

\* What a mapping is made of, by induction on the disks: files of the export.
LEMMA ResolveTyped ==
  ASSUME NEW disks, NEW files, Len(disks) \in Nat, NEW k, FilesAre(files, k),
         Resolve(disks, files) # Refused
  PROVE  Resolve(disks, files) \in [1..Len(disks) -> 1..k]
<1>1. PICK f : Resolves(disks, files, Len(disks), f) /\ Resolve(disks, files) = f[Len(disks)]
  BY ResolveUnfolds
<1>0. k \in Nat
  BY DEF FilesAre
<1> DEFINE T == {i \in 0..Len(disks) : ~(f[i] = Refused \/ f[i] \in [1..i -> 1..k])}
<1>2. \A i \in 0..Len(disks) : f[i] = IF i = 0 THEN <<>> ELSE Extended(disks, files, i, f[i - 1])
  BY <1>1 DEF Resolves
<1>3. \A i, before : Extended(disks, files, i, before) # Refused =>
        \E j \in 1..k : Taken(disks, files, i, before, j)
  BY ExtendedMapping
<1>4. ASSUME NEW i \in T, i - 1 \in 0..Len(disks), i - 1 \notin T
      PROVE  FALSE
  <2>1. /\ i \in 1..Len(disks) /\ f[i] # Refused /\ f[i] \notin [1..i -> 1..k]
        /\ f[i] = Extended(disks, files, i, f[i - 1])
        /\ f[i - 1] = Refused \/ f[i - 1] \in [1..(i - 1) -> 1..k]
    BY <1>2, <1>4
  <2>2. f[i - 1] # Refused
    BY <2>1 DEF Extended
  <2>3. PICK j \in 1..k : f[i] = Append(f[i - 1], j)
    <3>1. \E j \in 1..k : Taken(disks, files, i, f[i - 1], j)
      BY <1>3, <2>1
    <3> QED BY <2>1, <3>1 DEF Taken
  <2>4. f[i - 1] \in Seq(1..k) /\ Len(f[i - 1]) = i - 1
    BY <1>0, <2>1, <2>2
  <2>5. f[i] \in [1..i -> 1..k]
    <3> DEFINE before == f[i - 1]
    <3>1. Append(before, j) \in Seq(1..k) /\ Len(Append(before, j)) = i
      <4> HIDE DEF before
      <4>1. before \in Seq(1..k) => Append(before, j) \in Seq(1..k)
        OBVIOUS
      <4>2. before \in Seq(1..k) => Len(Append(before, j)) = Len(before) + 1
        OBVIOUS
      <4>3. before \in Seq(1..k) /\ Len(before) = i - 1
        BY <2>4 DEF before
      <4> QED BY <2>1, <4>1, <4>2, <4>3
    <3>2. \A s \in Seq(1..k) : Len(s) = i => s \in [1..i -> 1..k]
      BY <1>0
    <3> HIDE DEF before
    <3>3. f[i] = Append(before, j)
      BY <2>3 DEF before
    <3> QED BY <3>1, <3>2, <3>3
  <2> QED BY <2>1, <2>5
<1>5. 0 \notin T
  <2>1. f[0] = <<>>
    BY <1>2
  <2>2. <<>> \in [1..0 -> 1..k]
    OBVIOUS
  <2> QED BY <2>1, <2>2
<1>6. T = {}
  <2> SUFFICES ASSUME T # {} PROVE FALSE
    OBVIOUS
  <2>1. PICK i \in T : \A y \in T : i <= y
    <3>1. T \in SUBSET Nat
      OBVIOUS
    <3> HIDE DEF T
    <3> QED BY <3>1, LeastExists
  <2>2. i \in 0..Len(disks) /\ i # 0
    BY <1>5, <2>1
  <2>3. i - 1 \in 0..Len(disks)
    BY <2>2
  <2>4. i - 1 \notin T
    <3> HIDE DEF T
    <3> QED BY <2>1, <2>2
  <2> QED BY <1>4, <2>1, <2>3, <2>4
<1> QED BY <1>1, <1>6

\* An export as the controller may find it: DiskMapping!Exports, name by name.
NamedExport(disks, files, n, k) ==
  /\ n \in Nat /\ k \in Nat /\ n <= k /\ Len(disks) = n /\ DOMAIN disks = 1..n
  /\ DOMAIN files = 1..k
  /\ \A i \in 1..n : IsPrefix(disks[i].stem, files[i].stem)
  /\ \A j \in 1..k, i \in 1..n : files[j] = disks[i] => j \in 1..n /\ disks[j] = disks[i]

\* The only candidate for a disk, when those before have their files, is its own file.
LEMMA OwnCandidate ==
  ASSUME NEW disks, NEW files, NEW n, NEW k, NamedExport(disks, files, n, k),
         IsInjective(disks), NEW i \in 1..n, NEW before, ToSet(before) = 1..(i - 1),
         NEW j, Found(disks, files, i, before) = {j}
  PROVE  j = i
<1> DEFINE left == DOMAIN files \ ToSet(before)
           exact == {x \in left : files[x] = disks[i]}
<1>1. i \in left /\ left \subseteq 1..k
  BY DEF NamedExport
<1>2. Candidates(disks[i], files, left, Len(disks) = 1) = {j}
  BY DEF Found
<1>3. CASE exact # {}
  <2>1. exact = {j}
    BY <1>2, <1>3 DEF Candidates
  <2>2. j \in 1..k /\ files[j] = disks[i]
    BY <1>1, <2>1
  <2> QED BY <2>2 DEF NamedExport, IsInjective
<1>4. CASE exact = {} /\ Len(disks) = 1 /\ Cardinality(left) = 1
  <2>1. left = {j}
    BY <1>2, <1>4 DEF Candidates
  <2> QED BY <1>1, <2>1
<1>5. CASE exact = {} /\ ~(Len(disks) = 1 /\ Cardinality(left) = 1)
  <2>1. {x \in left : IsPrefix(disks[i].stem, files[x].stem)} = {j}
    BY <1>2, <1>5 DEF Candidates
  <2> QED BY <1>1, <2>1 DEF NamedExport
<1> QED BY <1>3, <1>4, <1>5

\* A mapping that is not refused gives every disk its own file.
LEMMA ResolveExact ==
  ASSUME NEW disks, NEW files, NEW n, NEW k, NamedExport(disks, files, n, k),
         IsInjective(disks), Resolve(disks, files) # Refused
  PROVE  Resolve(disks, files) = [i \in 1..n |-> i]
<1>0. n \in Nat /\ k \in Nat /\ Len(disks) = n /\ FilesAre(files, k)
  BY DEF NamedExport, FilesAre
<1>1. PICK f : Resolves(disks, files, n, f) /\ Resolve(disks, files) = f[n]
  BY <1>0, ResolveUnfolds
<1> DEFINE Own(i) == [x \in 1..i |-> x]
           T == {i \in 0..n : ~(f[i] = Refused \/ f[i] = Own(i))}
<1>2. \A i \in 0..n : f[i] = IF i = 0 THEN <<>> ELSE Extended(disks, files, i, f[i - 1])
  BY <1>1 DEF Resolves
<1>3. \A i, before : Extended(disks, files, i, before) # Refused =>
        \E j \in 1..k : Taken(disks, files, i, before, j)
  BY <1>0, ExtendedMapping
<1>4. ASSUME NEW i \in T, i - 1 \in 0..n, i - 1 \notin T
      PROVE  FALSE
  <2>1. /\ i \in 1..n /\ f[i] # Refused /\ f[i] # Own(i)
        /\ f[i] = Extended(disks, files, i, f[i - 1])
        /\ f[i - 1] = Refused \/ f[i - 1] = Own(i - 1)
    BY <1>2, <1>4
  <2>2. f[i - 1] = Own(i - 1)
    BY <2>1 DEF Extended
  <2>3. PICK j \in 1..k : Taken(disks, files, i, f[i - 1], j)
    BY <1>3, <2>1
  <2>4. ToSet(f[i - 1]) = 1..(i - 1)
    BY <1>0, <2>1, <2>2 DEF ToSet
  <2>5. j = i
    <3>1. i \in 1..n /\ Found(disks, files, i, f[i - 1]) = {j}
      BY <2>1, <2>3 DEF Taken
    <3>2. \A before : ToSet(before) = 1..(i - 1) /\ Found(disks, files, i, before) = {j} => j = i
      BY <3>1, OwnCandidate
    <3> QED BY <2>4, <3>1, <3>2
  <2>6. f[i] = Append(Own(i - 1), i)
    BY <2>1, <2>2, <2>3, <2>5 DEF Taken
  <2>7. Append(Own(i - 1), i) = Own(i)
    BY <1>0, <2>1
  <2> QED BY <2>1, <2>6, <2>7
<1>5. 0 \notin T
  <2>1. f[0] = <<>> /\ Own(0) = <<>>
    BY <1>0, <1>2
  <2> QED BY <2>1
<1>6. T = {}
  <2> SUFFICES ASSUME T # {} PROVE FALSE
    OBVIOUS
  <2>1. PICK i \in T : \A y \in T : i <= y
    <3>1. T \in SUBSET Nat
      BY <1>0
    <3> HIDE DEF T
    <3> QED BY <3>1, LeastExists
  <2>2. i \in 0..n /\ i # 0
    BY <1>5, <2>1
  <2>3. i - 1 \in 0..n
    BY <1>0, <2>2
  <2>4. i - 1 \notin T
    <3> HIDE DEF T
    <3> QED BY <2>1, <2>2
  <2> QED BY <1>4, <2>1, <2>3, <2>4
<1> QED BY <1>0, <1>1, <1>6

(* ---------------------------- exports and types ---------------------------- *)

\* The mappings are numberings of at most MaxDisks disks by files of the export.
LEMMA MappingsTyped ==
  ASSUME NEW e \in Mappings
  PROVE  \E n \in 1..MaxDisks : e \in [1..n -> 1..MaxFiles]
<1>1. PICK x \in Exports : e = Resolve(x[1], x[2]) /\ e # Refused
  BY DEF Mappings
<1>2. PICK n \in 1..MaxDisks, k \in 1..MaxFiles : x \in [1..n -> Names] \X [1..k -> Names]
  BY <1>1 DEF Exports
<1> DEFINE disks == x[1]
           files == x[2]
<1>3. disks \in [1..n -> Names] /\ files \in [1..k -> Names] /\ n \in Nat /\ k \in Nat
  BY <1>2, DiskMappingAssumption
<1>4. Len(disks) = n /\ FilesAre(files, k)
  BY <1>3 DEF FilesAre
<1>5. Resolve(disks, files) \in [1..n -> 1..k]
  <2> HIDE DEF disks, files
  <2> QED BY <1>1, <1>3, <1>4, ResolveTyped DEF disks, files
<1>6. 1..k \subseteq 1..MaxFiles
  BY <1>2, DiskMappingAssumption
<1>7. e \in [1..n -> 1..MaxFiles]
  BY <1>1, <1>5, <1>6
<1> QED BY <1>7

\* When the names tell the disks apart every disk is mapped to its own file, also
\* when the export has renamed files or has files of no disk.
THEOREM MappingsExact ==
  ASSUME DistinctNames
  PROVE  \A e \in Mappings : \A i \in DOMAIN e : e[i] = i
<1> SUFFICES ASSUME NEW e \in Mappings
             PROVE  \A i \in DOMAIN e : e[i] = i
  OBVIOUS
<1>1. PICK x \in Exports : e = Resolve(x[1], x[2]) /\ e # Refused
  BY DEF Mappings
<1>2. PICK n \in 1..MaxDisks, k \in 1..MaxFiles : x \in [1..n -> Names] \X [1..k -> Names]
  BY <1>1 DEF Exports
<1> DEFINE disks == x[1]
           files == x[2]
<1>3. disks \in [1..n -> Names] /\ files \in [1..k -> Names] /\ n \in Nat /\ k \in Nat
  BY <1>2, DiskMappingAssumption
<1>4. Len(disks) = n /\ Len(files) = k
  BY <1>3
<1>5. /\ n <= k
      /\ \A i \in 1..n : IsPrefix(disks[i].stem, files[i].stem)
      /\ \A j \in 1..k, i \in 1..n : files[j] = disks[i] => j \in 1..n /\ disks[j] = disks[i]
      /\ IsInjective(disks)
  <2>1. /\ Len(disks) <= Len(files)
        /\ \A i \in DOMAIN disks : files[i] \in Renamed(disks[i])
        /\ \A j \in DOMAIN files, i \in DOMAIN disks :
             files[j] = disks[i] => j \in DOMAIN disks /\ disks[j] = disks[i]
        /\ IsInjective(disks)
    BY <1>1 DEF Exports
  <2> HIDE DEF disks, files
  <2> QED BY <1>3, <1>4, <2>1 DEF Renamed
<1>6. NamedExport(disks, files, n, k)
  BY <1>3, <1>4, <1>5 DEF NamedExport
<1>7. Resolve(disks, files) = [i \in 1..n |-> i]
  BY <1>1, <1>5, <1>6, ResolveExact
<1> QED BY <1>1, <1>7

(* --------------------------- the inductive invariant ----------------------- *)

ProcType == [at : Steps, m : Migrations \cup {Nobody}, vmid : {0} \cup Vmids, disk_map : Volumes]
VmType == [name : Migrations \cup {Nobody, Foreign}, unused : SUBSET Data, slots : Volumes]
FileType == [vmid : {0} \cup Vmids, disk_map : Volumes]

\* What an invocation knows and has done at each step.  Nobody else seeds its
\* migration, and the VM it builds has the disks of its disk_map.
Seeding(p) ==
  LET r == proc[p]
      vm == vms[r.vmid]
  IN /\ r.at = "idle" => r.m = Nobody
     /\ r.at # "idle" =>
          /\ r.m \in Migrations /\ r.vmid \in Vmids /\ file[r.m] = Unseeded
          /\ \A q \in Procs : proc[q].m = r.m => q = p
     /\ r.at = "create" => \A v \in Vmids : vms[v].name # r.m
     /\ r.at \in {"check", "create"} => r.disk_map = <<>>
     /\ r.at \in Building \cup {"save"} =>
          /\ vm.name = r.m /\ vm.slots = r.disk_map
          /\ r.at \in {"efi", "copy", "import", "attach"} => Len(r.disk_map) < Len(export[r.m])
          /\ r.at = "remove" => Len(r.disk_map) \in 1..Len(export[r.m])
          /\ r.at \in {"boot", "save"} => Len(r.disk_map) = Len(export[r.m])

SeedingInv == \A p \in Procs : Seeding(p)

ForeignInv == vms[ForeignVmid] = ForeignVM

SeedInv == TypeOK /\ SeedingInv /\ OneDestination /\ ForeignInv

\* What the disks of a VM under construction hold.
Holding(p) ==
  LET r == proc[p]
      k == Len(r.disk_map)
  IN r.at \in Building \cup {"save"} =>
       /\ \A i \in 1..k : r.disk_map[i] = <<r.m, i>>
       /\ vms[r.vmid].unused = IF r.at = "attach" THEN {<<r.m, k + 1>>} ELSE {}
       /\ r.at = "import" => staged[r.m][k + 1] = k + 1

HoldingInv == \A p \in Procs : Holding(p)

\* Every disk is mapped to its own file.
ExportInv == \A m \in Migrations : \A i \in 1..Len(export[m]) : export[m][i] = i

\* A recorded seed names a VM.
RecordedInv == \A m \in Migrations : file[m] # Unseeded => file[m].vmid \in Vmids

ExactInv == ExportInv /\ HoldingInv /\ RecordedInv /\ SeededExact

(* ----------------------------------- types --------------------------------- *)

LEMMA NamesApart ==
  /\ Nobody \notin Migrations /\ Foreign \notin Migrations /\ Nobody # Foreign
<1>1. Nobody # Foreign
  BY DEF Nobody, Foreign
<1>2. Migrations \cap {Nobody, Foreign} = {}
  BY SeedAssumption DEF Nobody, Foreign
<1> QED BY <1>1, <1>2

LEMMA EmptyVolumes == <<>> \in Volumes
<1>1. <<>> \in [1..0 -> Data] /\ 0 \in 0..MaxDisks
  BY DiskMappingAssumption
<1> QED BY <1>1 DEF Volumes

LEMMA VolumesLength ==
  ASSUME NEW s \in Volumes
  PROVE  s \in Seq(Data) /\ Len(s) \in 0..MaxDisks
<1>1. PICK n \in 0..MaxDisks : s \in [1..n -> Data]
  BY DEF Volumes
<1>2. n \in Nat
  BY <1>1, DiskMappingAssumption
<1>3. s \in Seq(Data) /\ Len(s) = n
  BY <1>1, <1>2
<1> QED BY <1>1, <1>3

LEMMA VolumesAppend ==
  ASSUME NEW s \in Volumes, NEW x \in Data, Len(s) < MaxDisks
  PROVE  /\ Append(s, x) \in Volumes /\ Len(Append(s, x)) = Len(s) + 1
         /\ \A i \in 1..Len(s) : Append(s, x)[i] = s[i]
         /\ Append(s, x)[Len(s) + 1] = x
<1>1. s \in Seq(Data) /\ Len(s) \in 0..MaxDisks
  BY VolumesLength
<1>2. /\ Append(s, x) \in Seq(Data) /\ Len(Append(s, x)) = Len(s) + 1
      /\ \A i \in 1..Len(s) : Append(s, x)[i] = s[i]
      /\ Append(s, x)[Len(s) + 1] = x
  BY <1>1
<1>3. Append(s, x) \in [1..(Len(s) + 1) -> Data] /\ Len(s) + 1 \in 0..MaxDisks
  <2>1. \A t \in Seq(Data) : t \in [1..Len(t) -> Data]
    OBVIOUS
  <2>2. Append(s, x) \in [1..Len(Append(s, x)) -> Data]
    BY <1>2, <2>1
  <2>3. Append(s, x) \in [1..(Len(s) + 1) -> Data]
    BY <1>2, <2>2, Zenon
  <2>4. Len(s) + 1 \in 0..MaxDisks
    BY <1>1, DiskMappingAssumption
  <2> QED BY <2>3, <2>4
<1> QED BY <1>2, <1>3 DEF Volumes

LEMMA VmTypes == NoVM \in VmType /\ ForeignVM \in VmType
<1>1. NoVM \in VmType
  BY EmptyVolumes DEF NoVM, VmType
<1> QED BY <1>1 DEF ForeignVM, VmType

LEMMA IdleTypes == Idle \in ProcType /\ Unseeded \in FileType
  BY EmptyVolumes DEF Idle, Unseeded, ProcType, FileType, Steps, Building, Created

LEMMA SeedTyped ==
  ASSUME TypeOK
  PROVE  /\ proc \in [Procs -> ProcType] /\ vms \in [Vmids -> VmType]
         /\ file \in [Migrations -> FileType]
         /\ staged \in [Migrations -> [1..MaxDisks -> 0..MaxFiles]]
         /\ export \in [Migrations -> Mappings]
  BY DEF TypeOK, ProcType, VmType, FileType

LEMMA ExportTyped ==
  ASSUME TypeOK, NEW m \in Migrations
  PROVE  /\ Len(export[m]) \in 1..MaxDisks /\ DOMAIN export[m] = 1..Len(export[m])
         /\ \A i \in 1..Len(export[m]) : export[m][i] \in 1..MaxFiles
<1>1. export[m] \in Mappings
  BY DEF TypeOK
<1>2. PICK n \in 1..MaxDisks : export[m] \in [1..n -> 1..MaxFiles]
  BY <1>1, MappingsTyped
<1>3. n \in Nat
  BY DiskMappingAssumption
<1>4. Len(export[m]) = n
  <2> DEFINE e == export[m]
  <2>1. e \in [1..n -> 1..MaxFiles]
    BY <1>2
  <2> HIDE DEF e
  <2>2. Len(e) = n
    BY <1>3, <2>1
  <2> QED BY <2>2 DEF e
<1> QED BY <1>2, <1>4

(* ------------------------- what a step leaves alone ------------------------ *)

\* A step of an invocation is about its own migration and VM: one that it creates,
\* builds on, destroys or leaves as it is.
Moves(p) ==
  LET r == proc[p]
  IN /\ r.at # "idle"
     /\ \A q \in Procs : q # p => proc'[q] = proc[q]
     /\ proc'[p].m \in {r.m, Nobody}
     /\ export' = export
     /\ \A m \in Migrations : m # r.m => staged'[m] = staged[m] /\ file'[m] = file[m]
     /\ \A v \in Vmids : v # r.vmid => vms'[v] = vms[v]
     /\ \/ vms'[r.vmid] = vms[r.vmid]
        \/ r.at = "create" /\ vms[r.vmid] = NoVM /\ vms'[r.vmid].name = r.m
        \/ r.at \in Building /\ vms'[r.vmid].name \in {r.m, Nobody}

\* The VMs that somebody else builds on, or that are no migration's.
LEMMA OtherVm ==
  ASSUME SeedInv, NEW p \in Procs, Moves(p), NEW v \in Vmids,
         vms[v].name \notin {proc[p].m, Nobody}
  PROVE  vms'[v] = vms[v]
<1>1. Seeding(p) /\ NoVM.name = Nobody
  BY DEF SeedInv, SeedingInv, NoVM
<1>2. CASE v # proc[p].vmid
  BY <1>2 DEF Moves
<1>3. CASE v = proc[p].vmid
  <2>1. vms[v] # NoVM
    BY <1>1
  <2>2. proc[p].at \in Building => vms[v].name = proc[p].m
    BY <1>1, <1>3 DEF Seeding
  <2> QED BY <1>3, <2>1, <2>2 DEF Moves
<1> QED BY <1>2, <1>3

\* A VM gets the name of the migration that a step is about, or it loses its name.
LEMMA NewName ==
  ASSUME SeedInv, NEW p \in Procs, Moves(p), NEW v \in Vmids, vms'[v].name # vms[v].name
  PROVE  vms'[v].name = Nobody \/ (vms'[v].name = proc[p].m /\ proc[p].at = "create")
<1>1. Seeding(p)
  BY DEF SeedInv, SeedingInv
<1>2. v = proc[p].vmid /\ vms'[v] # vms[v]
  BY DEF Moves
<1>3. proc[p].at \in Building => vms[v].name = proc[p].m
  BY <1>1, <1>2 DEF Seeding
<1> QED BY <1>2, <1>3 DEF Moves

LEMMA OthersSeed ==
  ASSUME SeedInv, NEW p \in Procs, Moves(p), NEW q \in Procs, q # p
  PROVE  Seeding(q)' /\ (Holding(q) => Holding(q)')
<1>1. Seeding(p) /\ Seeding(q) /\ proc'[q] = proc[q] /\ export' = export
  BY DEF SeedInv, SeedingInv, Moves
<1>2. CASE proc[q].at = "idle"
  <2>1. proc[q].at \notin Building \cup {"save"}
    BY <1>2 DEF Building, Created
  <2>2. proc[q].at \notin {"create", "check"}
    BY <1>2
  <2> QED BY <1>1, <1>2, <2>1, <2>2 DEF Seeding, Holding
<1>3. CASE proc[q].at # "idle"
  <2>1. /\ proc[q].m \in Migrations /\ proc[q].m # proc[p].m /\ proc[q].m # Nobody
        /\ proc[q].vmid \in Vmids
    BY <1>1, <1>3, NamesApart DEF Seeding, Moves
  <2>2. staged'[proc[q].m] = staged[proc[q].m] /\ file'[proc[q].m] = file[proc[q].m]
    BY <2>1 DEF Moves
  <2>3. \A r \in Procs : proc'[r].m = proc[q].m => r = q
    BY <1>1, <1>3, <2>1 DEF Seeding, Moves
  <2>4. proc[q].at = "create" => \A v \in Vmids : vms'[v].name # proc[q].m
    BY <1>1, <2>1, NewName DEF Seeding
  <2>5. proc[q].at \in Building \cup {"save"} => vms'[proc[q].vmid] = vms[proc[q].vmid]
    BY <1>1, <2>1, OtherVm DEF Seeding
  <2>6. Seeding(q)'
    BY <1>1, <1>3, <2>1, <2>2, <2>3, <2>4, <2>5 DEF Seeding
  <2>7. Holding(q) => Holding(q)'
    BY <1>1, <2>2, <2>5 DEF Holding
  <2> QED BY <2>6, <2>7
<1> QED BY <1>2, <1>3

LEMMA MovesKeep ==
  ASSUME SeedInv, NEW p \in Procs, Moves(p)
  PROVE  OneDestination' /\ ForeignInv'
<1>1. Seeding(p)
  BY DEF SeedInv, SeedingInv
<1>2. proc[p].m \in Migrations
  BY <1>1 DEF Seeding, Moves
<1>3. ForeignInv'
  <2>1. vms[ForeignVmid].name = Foreign
    <3>1. ForeignVM.name = Foreign
      BY DEF ForeignVM, NoVM
    <3> QED BY <3>1 DEF SeedInv, ForeignInv
  <2>2. Foreign \notin {proc[p].m, Nobody}
    BY <1>2, NamesApart
  <2> QED BY <2>1, <2>2, OtherVm, SeedAssumption DEF SeedInv, ForeignInv
<1>4. OneDestination'
  <2> SUFFICES ASSUME NEW v \in Vmids, NEW w \in Vmids, vms'[v].name \in Migrations,
                      vms'[v].name = vms'[w].name, v # w
               PROVE  FALSE
    BY DEF OneDestination
  <2>1. vms'[v].name # Nobody /\ vms'[w].name # Nobody
    BY NamesApart
  <2>2. CASE vms'[v].name = vms[v].name /\ vms'[w].name = vms[w].name
    BY <2>2 DEF SeedInv, OneDestination
  <2>3. ASSUME NEW x \in Vmids, NEW y \in Vmids, x # y, vms'[x].name # vms[x].name,
               vms'[y].name = vms'[x].name, vms'[x].name # Nobody
        PROVE  FALSE
    <3>1. vms'[x].name = proc[p].m /\ proc[p].at = "create"
      BY <2>3, NewName
    <3>2. x = proc[p].vmid
      BY <2>3 DEF Moves
    <3>3. vms'[y] = vms[y]
      BY <2>3, <3>2 DEF Moves
    <3> QED BY <1>1, <2>3, <3>1, <3>3 DEF Seeding
  <2> QED BY <2>1, <2>2, <2>3
<1> QED BY <1>3, <1>4

(* -------------------------------- the steps -------------------------------- *)

LEMMA GotoFields ==
  ASSUME TypeOK, NEW p \in Procs, NEW step \in Steps, Goto(p, step)
  PROVE  /\ proc' \in [Procs -> ProcType]
         /\ \A q \in Procs : q # p => proc'[q] = proc[q]
         /\ proc'[p].at = step /\ proc'[p].m = proc[p].m /\ proc'[p].vmid = proc[p].vmid
         /\ proc'[p].disk_map = proc[p].disk_map
  BY SeedTyped DEF Goto, ProcType

LEMMA ExitFields ==
  ASSUME TypeOK, NEW p \in Procs, Exit(p)
  PROVE  /\ proc' \in [Procs -> ProcType]
         /\ \A q \in Procs : q # p => proc'[q] = proc[q]
         /\ proc'[p].at = "idle" /\ proc'[p].m = Nobody
<1>1. proc' \in [Procs -> ProcType] /\ proc'[p] = Idle /\ \A q \in Procs : q # p => proc'[q] = proc[q]
  BY SeedTyped, IdleTypes DEF Exit
<1> QED BY <1>1 DEF Idle

LEMMA TypesKept ==
  ASSUME proc' \in [Procs -> ProcType], vms' \in [Vmids -> VmType],
         file' \in [Migrations -> FileType], export' \in [Migrations -> Mappings],
         staged' \in [Migrations -> [1..MaxDisks -> 0..MaxFiles]]
  PROVE  TypeOK'
  BY DEF TypeOK, ProcType, VmType, FileType

\* What a step of an invocation must be shown to do.
Kept(p) ==
  /\ TypeOK' /\ Moves(p) /\ Seeding(p)'
  /\ Holding(p) /\ ExportInv => Holding(p)'

\* An invocation that ends.
LEMMA ExitKept ==
  ASSUME SeedInv, NEW p \in Procs, proc[p].at # "idle", Exit(p),
         vms' \in [Vmids -> VmType], file' \in [Migrations -> FileType],
         UNCHANGED <<export, staged>>,
         \A m \in Migrations : m # proc[p].m => file'[m] = file[m],
         \A v \in Vmids : v # proc[p].vmid => vms'[v] = vms[v],
         LET r == proc[p]
         IN \/ vms'[r.vmid] = vms[r.vmid]
            \/ r.at = "create" /\ vms[r.vmid] = NoVM /\ vms'[r.vmid].name = r.m
            \/ r.at \in Building /\ vms'[r.vmid].name \in {r.m, Nobody}
  PROVE  Kept(p)
<1>1. /\ proc' \in [Procs -> ProcType]
      /\ \A q \in Procs : q # p => proc'[q] = proc[q]
      /\ proc'[p].at = "idle" /\ proc'[p].m = Nobody
  BY ExitFields DEF SeedInv
<1>2. Moves(p)
  BY <1>1 DEF Moves
<1>3. TypeOK'
  BY <1>1, SeedTyped, TypesKept DEF SeedInv
<1>4. Seeding(p)' /\ Holding(p)'
  BY <1>1 DEF Seeding, Holding, Building, Created
<1> QED BY <1>2, <1>3, <1>4 DEF Kept

LEMMA EndingKept ==
  ASSUME SeedInv, NEW p \in Procs,
         (Check(p) /\ Exit(p)) \/ CreateRefused(p) \/ Fails(p) \/ CreateLost(p) \/ Kill(p)
  PROVE  Kept(p)
<1>0. /\ TypeOK /\ vms \in [Vmids -> VmType] /\ file \in [Migrations -> FileType]
      /\ \A v \in Vmids : vms[v].name \in Migrations \cup {Nobody, Foreign}
      /\ NoVM \in VmType /\ NoVM.name = Nobody
      /\ Seeding(p)
  BY SeedTyped, VmTypes DEF SeedInv, SeedingInv, NoVM, VmType
<1>1. CASE (Check(p) /\ Exit(p)) \/ CreateRefused(p) \/ Kill(p)
  <2>1. proc[p].at # "idle" /\ Exit(p) /\ UNCHANGED <<export, file, staged, vms>>
    BY <1>1 DEF Check, CreateRefused, Kill, At
  <2> QED BY <1>0, <2>1, ExitKept
<1>2. CASE Fails(p)
  <2>1. /\ proc[p].at # "idle" /\ proc[p].at \in Building /\ Exit(p)
        /\ UNCHANGED <<export, file, staged>>
        /\ vms' \in {vms, [vms EXCEPT ![proc[p].vmid] = NoVM]}
    BY <1>2 DEF Fails, At, Building, Created
  <2>2. /\ vms' \in [Vmids -> VmType]
        /\ \A v \in Vmids : v # proc[p].vmid => vms'[v] = vms[v]
        /\ vms'[proc[p].vmid] = vms[proc[p].vmid] \/ vms'[proc[p].vmid] = NoVM
    BY <1>0, <2>1 DEF Seeding
  <2> QED BY <1>0, <2>1, <2>2, ExitKept
<1>3. CASE CreateLost(p)
  <2>1. /\ proc[p].at = "create" /\ Exit(p) /\ UNCHANGED <<export, file, staged>>
        /\ vms[proc[p].vmid] = NoVM
        /\ vms' = [vms EXCEPT ![proc[p].vmid].name = proc[p].m]
    BY <1>3 DEF CreateLost, At
  <2>2. proc[p].vmid \in Vmids /\ proc[p].m \in Migrations
    BY <1>0, <2>1 DEF Seeding
  <2>3. /\ vms' \in [Vmids -> VmType]
        /\ \A v \in Vmids : v # proc[p].vmid => vms'[v] = vms[v]
        /\ vms'[proc[p].vmid].name = proc[p].m
    BY <1>0, <2>1, <2>2 DEF VmType
  <2> QED BY <1>0, <2>1, <2>3, ExitKept
<1> QED BY <1>1, <1>2, <1>3

\* A step that only goes on to another command.
LEMMA GotoKept ==
  ASSUME SeedInv, NEW p \in Procs, NEW step \in Steps, Goto(p, step),
         UNCHANGED <<export, file, staged, vms>>,
         \/ step = "create" /\ proc[p].at = "check" /\ \A v \in Vmids : vms[v].name # proc[p].m
         \/ step = "copy" /\ proc[p].at = "efi"
         \/ step = "save" /\ proc[p].at = "boot"
  PROVE  Kept(p)
<1>0. TypeOK /\ Seeding(p)
  BY DEF SeedInv, SeedingInv
<1>1. /\ proc' \in [Procs -> ProcType]
      /\ \A q \in Procs : q # p => proc'[q] = proc[q]
      /\ proc'[p].at = step /\ proc'[p].m = proc[p].m /\ proc'[p].vmid = proc[p].vmid
      /\ proc'[p].disk_map = proc[p].disk_map
  BY <1>0, GotoFields
<1>2. Moves(p)
  BY <1>1 DEF Moves
<1>3. TypeOK'
  BY <1>0, <1>1, SeedTyped, TypesKept
<1>4. \A q \in Procs : proc'[q].m = proc[q].m
  BY <1>1
<1>5. Seeding(p)'
  <2>1. CASE step = "create" /\ proc[p].at = "check" /\ \A v \in Vmids : vms[v].name # proc[p].m
    BY <1>0, <1>1, <1>4, <2>1 DEF Seeding, Building, Created
  <2>2. CASE step = "copy" /\ proc[p].at = "efi"
    BY <1>0, <1>1, <1>4, <2>2 DEF Seeding, Building, Created
  <2>3. CASE step = "save" /\ proc[p].at = "boot"
    BY <1>0, <1>1, <1>4, <2>3 DEF Seeding, Building, Created
  <2> QED BY <2>1, <2>2, <2>3
<1>6. Holding(p) => Holding(p)'
  BY <1>1 DEF Holding, Building, Created
<1> QED BY <1>2, <1>3, <1>5, <1>6 DEF Kept

\* A command that builds on the VM.
LEMMA BuildKept ==
  ASSUME SeedInv, NEW p \in Procs, proc[p].at \in Building,
         proc' \in [Procs -> ProcType], vms' \in [Vmids -> VmType],
         staged' \in [Migrations -> [1..MaxDisks -> 0..MaxFiles]],
         UNCHANGED <<export, file>>,
         \A q \in Procs : q # p => proc'[q] = proc[q],
         \A m \in Migrations : m # proc[p].m => staged'[m] = staged[m],
         \A v \in Vmids : v # proc[p].vmid => vms'[v] = vms[v],
         proc'[p].at \in Building, proc'[p].m = proc[p].m, proc'[p].vmid = proc[p].vmid,
         vms'[proc[p].vmid].name = proc[p].m,
         vms'[proc[p].vmid].slots = proc'[p].disk_map,
         LET r == proc'[p]
         IN /\ r.at \in {"efi", "copy", "import", "attach"} => Len(r.disk_map) < Len(export[r.m])
            /\ r.at = "remove" => Len(r.disk_map) \in 1..Len(export[r.m])
            /\ r.at = "boot" => Len(r.disk_map) = Len(export[r.m])
  PROVE  TypeOK' /\ Moves(p) /\ Seeding(p)'
<1>0. TypeOK /\ Seeding(p) /\ proc[p].at # "idle"
  BY DEF SeedInv, SeedingInv, Building, Created
<1>1. TypeOK'
  BY <1>0, SeedTyped, TypesKept
<1>2. Moves(p)
  BY <1>0 DEF Moves
<1>3. \A q \in Procs : proc'[q].m = proc[q].m
  OBVIOUS
<1>4. proc'[p].at \notin {"idle", "check", "create", "save"}
  BY DEF Building, Created
<1>5. Seeding(p)'
  BY <1>0, <1>3, <1>4 DEF Seeding
<1> QED BY <1>1, <1>2, <1>5

\* What an invocation that builds finds.
LEMMA BuilderFinds ==
  ASSUME SeedInv, NEW p \in Procs, proc[p].at \in Building
  PROVE  LET r == proc[p]
             vm == vms[r.vmid]
         IN /\ r.m \in Migrations /\ r.vmid \in Vmids
            /\ vm.name = r.m /\ vm.slots = r.disk_map /\ r.disk_map \in Volumes
            /\ Len(r.disk_map) \in 0..MaxDisks
            /\ Len(export[r.m]) \in 1..MaxDisks
            /\ \A i \in 1..Len(export[r.m]) : export[r.m][i] \in 1..MaxFiles
<1>1. Seeding(p) /\ TypeOK /\ proc[p].at # "idle"
  BY DEF SeedInv, SeedingInv, Building, Created
<1>2. proc[p].disk_map \in Volumes
  BY <1>1, SeedTyped DEF ProcType
<1>3. proc[p].m \in Migrations
  BY <1>1 DEF Seeding
<1> QED BY <1>1, <1>2, <1>3, VolumesLength, ExportTyped DEF Seeding

LEMMA CommandKept ==
  ASSUME SeedInv, NEW p \in Procs, Check(p) \/ SetEfi(p) \/ Boot(p)
  PROVE  Kept(p)
<1>1. CASE Check(p) /\ ~Exit(p)
  <2>1. /\ proc[p].at = "check" /\ Goto(p, "create") /\ "create" \in Steps
        /\ UNCHANGED <<export, file, staged, vms>>
        /\ \A v \in Vmids : vms[v].name # proc[p].m
    BY <1>1 DEF Check, At, Steps
  <2> QED BY <2>1, GotoKept
<1>2. CASE SetEfi(p)
  <2>1. /\ proc[p].at = "efi" /\ Goto(p, "copy") /\ "copy" \in Steps
        /\ UNCHANGED <<export, file, staged, vms>>
    BY <1>2 DEF SetEfi, At, Steps, Building, Created
  <2> QED BY <2>1, GotoKept
<1>3. CASE Boot(p)
  <2>1. /\ proc[p].at = "boot" /\ Goto(p, "save") /\ "save" \in Steps
        /\ UNCHANGED <<export, file, staged, vms>>
    BY <1>3 DEF Boot, At, Steps
  <2> QED BY <2>1, GotoKept
<1> QED BY <1>1, <1>2, <1>3, EndingKept

LEMMA CreateKept ==
  ASSUME SeedInv, NEW p \in Procs, Create(p)
  PROVE  Kept(p)
<1>0. /\ TypeOK /\ Seeding(p) /\ vms \in [Vmids -> VmType] /\ proc[p].at = "create"
      /\ NoVM.slots = <<>> /\ NoVM.unused = {}
  BY SeedTyped DEF SeedInv, SeedingInv, Create, At, NoVM
<1>1. PICK step \in {"efi", "copy"} : Goto(p, step)
  BY DEF Create
<1>2. step \in Steps /\ step \in Building
  BY DEF Steps, Building, Created
<1>3. /\ proc' \in [Procs -> ProcType]
      /\ \A q \in Procs : q # p => proc'[q] = proc[q]
      /\ proc'[p].at = step /\ proc'[p].m = proc[p].m /\ proc'[p].vmid = proc[p].vmid
      /\ proc'[p].disk_map = proc[p].disk_map
  BY <1>0, <1>1, <1>2, GotoFields
<1>4. /\ proc[p].m \in Migrations /\ proc[p].vmid \in Vmids /\ proc[p].disk_map = <<>>
      /\ vms[proc[p].vmid] = NoVM /\ UNCHANGED <<export, file, staged>>
      /\ vms' = [vms EXCEPT ![proc[p].vmid].name = proc[p].m]
  BY <1>0 DEF Seeding, Create
<1>5. /\ vms' \in [Vmids -> VmType] /\ \A v \in Vmids : v # proc[p].vmid => vms'[v] = vms[v]
      /\ vms'[proc[p].vmid].name = proc[p].m /\ vms'[proc[p].vmid].slots = <<>>
      /\ vms'[proc[p].vmid].unused = {}
  BY <1>0, <1>4 DEF VmType
<1>6. UNCHANGED <<export, file, staged>> /\ vms[proc[p].vmid] = NoVM
  BY <1>4
<1>7. TypeOK'
  BY <1>0, <1>3, <1>5, <1>6, SeedTyped, TypesKept
<1>8. Moves(p)
  BY <1>0, <1>3, <1>5, <1>6 DEF Moves
<1>9. Len(export[proc[p].m]) \in 1..MaxDisks /\ Len(<<>>) = 0
  BY <1>0, <1>4, ExportTyped
<1>10. \A q \in Procs : proc'[q].m = proc[q].m
  BY <1>3
<1>11. proc[p].m \in Migrations /\ proc[p].vmid \in Vmids /\ proc[p].disk_map = <<>>
  BY <1>4
<1>12. Seeding(p)'
  BY <1>0, <1>1, <1>2, <1>3, <1>5, <1>6, <1>9, <1>10, <1>11, DiskMappingAssumption DEF Seeding
<1>13. Holding(p)'
  BY <1>1, <1>3, <1>5, <1>9, <1>11 DEF Holding
<1> QED BY <1>7, <1>8, <1>12, <1>13 DEF Kept

LEMMA CopyKept ==
  ASSUME SeedInv, NEW p \in Procs, Copy(p)
  PROVE  Kept(p)
<1> DEFINE m == proc[p].m
           k == Len(proc[p].disk_map)
<1>0. /\ TypeOK /\ Seeding(p) /\ vms \in [Vmids -> VmType] /\ proc[p].at = "copy"
      /\ Goto(p, "import") /\ "import" \in Steps /\ UNCHANGED <<export, file, vms>>
      /\ staged' = [staged EXCEPT ![m][Disk(p)] = export[m][Disk(p)]]
      /\ staged \in [Migrations -> [1..MaxDisks -> 0..MaxFiles]]
  BY SeedTyped DEF SeedInv, SeedingInv, Copy, At, Steps, Building, Created
<1>1. proc[p].at \in Building /\ "import" \in Building
  BY <1>0 DEF Building, Created
<1>2. /\ m \in Migrations /\ proc[p].vmid \in Vmids
      /\ vms[proc[p].vmid].name = m /\ vms[proc[p].vmid].slots = proc[p].disk_map
      /\ k \in 0..MaxDisks /\ Len(export[m]) \in 1..MaxDisks
      /\ \A i \in 1..Len(export[m]) : export[m][i] \in 1..MaxFiles
  BY <1>1, BuilderFinds
<1>3. k < Len(export[m])
  BY <1>0, <1>1 DEF Seeding
<1>4. Disk(p) = k + 1 /\ k + 1 \in 1..MaxDisks /\ k + 1 \in 1..Len(export[m])
  BY <1>2, <1>3, DiskMappingAssumption DEF Disk
<1>5. export[m][k + 1] \in 0..MaxFiles
  BY <1>2, <1>4, DiskMappingAssumption
<1>6. /\ staged' \in [Migrations -> [1..MaxDisks -> 0..MaxFiles]]
      /\ \A x \in Migrations : x # m => staged'[x] = staged[x]
      /\ staged'[m][k + 1] = export[m][k + 1]
  <2> HIDE DEF m, k
  <2> QED BY <1>0, <1>2, <1>4, <1>5
<1>7. /\ proc' \in [Procs -> ProcType]
      /\ \A q \in Procs : q # p => proc'[q] = proc[q]
      /\ proc'[p].at = "import" /\ proc'[p].m = m /\ proc'[p].vmid = proc[p].vmid
      /\ proc'[p].disk_map = proc[p].disk_map
  BY <1>0, GotoFields
<1>8. TypeOK' /\ Moves(p) /\ Seeding(p)'
  BY <1>0, <1>1, <1>2, <1>3, <1>6, <1>7, BuildKept
<1>9. Holding(p) /\ ExportInv => Holding(p)'
  <2>1. ExportInv => staged'[m][k + 1] = k + 1
    BY <1>2, <1>4, <1>6 DEF ExportInv
  <2> QED BY <1>0, <1>1, <1>7, <2>1 DEF Holding
<1> QED BY <1>8, <1>9 DEF Kept

LEMMA ImportKept ==
  ASSUME SeedInv, NEW p \in Procs, Import(p)
  PROVE  Kept(p)
<1> DEFINE m == proc[p].m
           v == proc[p].vmid
           k == Len(proc[p].disk_map)
           volume == <<m, staged[m][k + 1]>>
<1>0. /\ TypeOK /\ Seeding(p) /\ vms \in [Vmids -> VmType] /\ proc[p].at = "import"
      /\ Goto(p, "attach") /\ "attach" \in Steps /\ UNCHANGED <<export, file, staged>>
      /\ staged \in [Migrations -> [1..MaxDisks -> 0..MaxFiles]]
      /\ Disk(p) = k + 1
  BY SeedTyped DEF SeedInv, SeedingInv, Import, At, Steps, Building, Created, Disk
<1>1. proc[p].at \in Building /\ "attach" \in Building
  BY <1>0 DEF Building, Created
<1>2. staged[m][k + 1] # 0 /\ vms' = [vms EXCEPT ![v].unused = @ \cup {volume}]
  BY <1>0 DEF Import
<1>3. /\ m \in Migrations /\ v \in Vmids
      /\ vms[v].name = m /\ vms[v].slots = proc[p].disk_map
      /\ k \in 0..MaxDisks /\ Len(export[m]) \in 1..MaxDisks
  BY <1>1, BuilderFinds
<1>4. k < Len(export[m])
  BY <1>0, <1>1 DEF Seeding
<1>5. k + 1 \in 1..MaxDisks
  BY <1>3, <1>4, DiskMappingAssumption
<1>6. volume \in Data
  <2>1. staged[m][k + 1] \in 0..MaxFiles
    BY <1>0, <1>3, <1>5
  <2>2. staged[m][k + 1] \in 1..MaxFiles
    BY <1>2, <2>1, DiskMappingAssumption
  <2> QED BY <1>3, <2>2 DEF Data
<1>7. /\ vms' \in [Vmids -> VmType] /\ \A w \in Vmids : w # v => vms'[w] = vms[w]
      /\ vms'[v].name = m /\ vms'[v].slots = proc[p].disk_map
      /\ vms'[v].unused = vms[v].unused \cup {volume}
  <2> HIDE DEF m, v, k, volume
  <2> QED BY <1>0, <1>2, <1>3, <1>6 DEF VmType
<1>8. /\ proc' \in [Procs -> ProcType]
      /\ \A q \in Procs : q # p => proc'[q] = proc[q]
      /\ proc'[p].at = "attach" /\ proc'[p].m = m /\ proc'[p].vmid = v
      /\ proc'[p].disk_map = proc[p].disk_map
  BY <1>0, GotoFields
<1>9. TypeOK' /\ Moves(p) /\ Seeding(p)'
  BY <1>0, <1>1, <1>3, <1>4, <1>7, <1>8, BuildKept
<1>10. Holding(p) => Holding(p)'
  <2> SUFFICES ASSUME Holding(p) PROVE Holding(p)'
    OBVIOUS
  <2>1. /\ \A i \in 1..k : proc[p].disk_map[i] = <<m, i>>
        /\ vms[v].unused = {} /\ staged[m][k + 1] = k + 1
    BY <1>0, <1>1 DEF Holding
  <2>2. vms'[v].unused = {<<m, k + 1>>}
    BY <1>7, <2>1
  <2> QED BY <1>8, <2>1, <2>2 DEF Holding
<1> QED BY <1>9, <1>10 DEF Kept

LEMMA AttachKept ==
  ASSUME SeedInv, NEW p \in Procs, Attach(p)
  PROVE  Kept(p)
<1> DEFINE m == proc[p].m
           v == proc[p].vmid
           s == proc[p].disk_map
           k == Len(s)
<1>0. /\ TypeOK /\ Seeding(p) /\ vms \in [Vmids -> VmType] /\ proc \in [Procs -> ProcType]
      /\ proc[p].at = "attach" /\ "remove" \in Steps /\ UNCHANGED <<export, file, staged>>
      /\ staged \in [Migrations -> [1..MaxDisks -> 0..MaxFiles]]
  BY SeedTyped DEF SeedInv, SeedingInv, Attach, At, Steps, Building, Created
<1>1. proc[p].at \in Building /\ "remove" \in Building
  BY <1>0 DEF Building, Created
<1>2. PICK volume \in vms[v].unused :
        /\ vms' = [vms EXCEPT ![v].unused = @ \ {volume}, ![v].slots = Append(@, volume)]
        /\ proc' = [proc EXCEPT ![p].disk_map = Append(@, volume), ![p].at = "remove"]
  BY DEF Attach
<1>3. /\ m \in Migrations /\ v \in Vmids
      /\ vms[v].name = m /\ vms[v].slots = s /\ s \in Volumes
      /\ k \in 0..MaxDisks /\ Len(export[m]) \in 1..MaxDisks
  BY <1>1, BuilderFinds
<1>4. k < Len(export[m])
  BY <1>0, <1>1 DEF Seeding
<1>5. k < MaxDisks /\ k + 1 \in 1..Len(export[m]) /\ k + 1 <= Len(export[m])
  <2> DEFINE l == Len(export[m])
  <2>1. k \in 0..MaxDisks /\ l \in 1..MaxDisks /\ k < l /\ MaxDisks \in Nat
    BY <1>3, <1>4, DiskMappingAssumption
  <2> HIDE DEF k, l
  <2> QED BY <2>1 DEF l
<1>6. volume \in Data
  BY <1>0, <1>2, <1>3 DEF VmType
<1>7. /\ Append(s, volume) \in Volumes /\ Len(Append(s, volume)) = k + 1
      /\ \A i \in 1..k : Append(s, volume)[i] = s[i]
      /\ Append(s, volume)[k + 1] = volume
  BY <1>3, <1>5, <1>6, VolumesAppend
<1>8. /\ vms' \in [Vmids -> VmType] /\ \A w \in Vmids : w # v => vms'[w] = vms[w]
      /\ vms'[v].name = m /\ vms'[v].slots = Append(s, volume)
      /\ vms'[v].unused = vms[v].unused \ {volume}
  <2> DEFINE t == Append(s, volume)
  <2>1. /\ t \in Volumes
        /\ vms' = [vms EXCEPT ![v].unused = @ \ {volume}, ![v].slots = t]
    BY <1>2, <1>3, <1>7
  <2> HIDE DEF m, v, s, k, t
  <2>2. /\ vms' \in [Vmids -> VmType] /\ \A w \in Vmids : w # v => vms'[w] = vms[w]
        /\ vms'[v].name = m /\ vms'[v].slots = t
        /\ vms'[v].unused = vms[v].unused \ {volume}
    BY <1>0, <1>3, <2>1 DEF VmType
  <2> QED BY <2>2 DEF t
<1>9. /\ proc' \in [Procs -> ProcType]
      /\ \A q \in Procs : q # p => proc'[q] = proc[q]
      /\ proc'[p].at = "remove" /\ proc'[p].m = m /\ proc'[p].vmid = v
      /\ proc'[p].disk_map = Append(s, volume)
  <2> DEFINE t == Append(s, volume)
  <2>1. t \in Volumes /\ proc' = [proc EXCEPT ![p].disk_map = t, ![p].at = "remove"]
    BY <1>2, <1>7
  <2>2. m = proc[p].m /\ v = proc[p].vmid
    OBVIOUS
  <2> HIDE DEF m, v, s, k, t
  <2>3. /\ proc' \in [Procs -> ProcType]
        /\ \A q \in Procs : q # p => proc'[q] = proc[q]
        /\ proc'[p].at = "remove" /\ proc'[p].m = m /\ proc'[p].vmid = v
        /\ proc'[p].disk_map = t
    BY <1>0, <2>1, <2>2 DEF ProcType
  <2> QED BY <2>3 DEF t
<1>10. TypeOK' /\ Moves(p) /\ Seeding(p)'
  <2>1. Len(proc'[p].disk_map) \in 1..Len(export[m])
    BY <1>5, <1>7, <1>9
  <2> QED BY <1>0, <1>1, <1>3, <1>8, <1>9, <2>1, BuildKept
<1>11. Holding(p) => Holding(p)'
  <2> SUFFICES ASSUME Holding(p) PROVE Holding(p)'
    OBVIOUS
  <2>1. /\ \A i \in 1..k : s[i] = <<m, i>>
        /\ vms[v].unused = {<<m, k + 1>>}
    BY <1>0, <1>1 DEF Holding
  <2>2. volume = <<m, k + 1>> /\ vms'[v].unused = {}
    BY <1>2, <1>8, <2>1
  <2>3. Len(proc'[p].disk_map) = k + 1 /\ \A i \in 1..(k + 1) : proc'[p].disk_map[i] = <<m, i>>
    <3> DEFINE t == Append(s, volume)
    <3>1. /\ proc'[p].disk_map = t /\ Len(t) = k + 1 /\ \A i \in 1..k : t[i] = <<m, i>>
          /\ t[k + 1] = <<m, k + 1>>
      BY <1>7, <1>9, <2>1, <2>2
    <3>2. k \in Nat
      BY <1>3, DiskMappingAssumption
    <3> HIDE DEF t, k
    <3>3. \A i \in 1..(k + 1) : i \in 1..k \/ i = k + 1
      BY <3>2
    <3> QED BY <3>1, <3>3
  <2> QED BY <1>9, <2>2, <2>3 DEF Holding
<1> QED BY <1>10, <1>11 DEF Kept

LEMMA RemoveCopyKept ==
  ASSUME SeedInv, NEW p \in Procs, RemoveCopy(p)
  PROVE  Kept(p)
<1> DEFINE m == proc[p].m
           k == Len(proc[p].disk_map)
           step == IF k < Len(export[m]) THEN "copy" ELSE "boot"
<1>0. /\ TypeOK /\ Seeding(p) /\ vms \in [Vmids -> VmType] /\ proc[p].at = "remove"
      /\ Goto(p, step) /\ step \in Steps /\ step \in Building
      /\ UNCHANGED <<export, file, vms>>
      /\ staged' = [staged EXCEPT ![m][k] = 0]
      /\ staged \in [Migrations -> [1..MaxDisks -> 0..MaxFiles]]
  BY SeedTyped DEF SeedInv, SeedingInv, RemoveCopy, At, Steps, Building, Created
<1>1. proc[p].at \in Building
  BY <1>0 DEF Building, Created
<1>2. /\ m \in Migrations /\ proc[p].vmid \in Vmids
      /\ vms[proc[p].vmid].name = m /\ vms[proc[p].vmid].slots = proc[p].disk_map
      /\ k \in 0..MaxDisks /\ Len(export[m]) \in 1..MaxDisks
  BY <1>1, BuilderFinds
<1>3. k \in 1..Len(export[m])
  BY <1>0, <1>1 DEF Seeding
<1>4. /\ staged' \in [Migrations -> [1..MaxDisks -> 0..MaxFiles]]
      /\ \A x \in Migrations : x # m => staged'[x] = staged[x]
  <2>1. 0 \in 0..MaxFiles
    BY DiskMappingAssumption
  <2> HIDE DEF m, k
  <2> QED BY <1>0, <1>2, <2>1
<1>5. /\ proc' \in [Procs -> ProcType]
      /\ \A q \in Procs : q # p => proc'[q] = proc[q]
      /\ proc'[p].at = step /\ proc'[p].m = m /\ proc'[p].vmid = proc[p].vmid
      /\ proc'[p].disk_map = proc[p].disk_map
  BY <1>0, GotoFields
<1>6. TypeOK' /\ Moves(p) /\ Seeding(p)'
  <2>1. /\ step \in {"copy", "boot"}
        /\ step = "copy" => k < Len(export[m])
        /\ step = "boot" => k = Len(export[m])
    BY <1>2, <1>3, DiskMappingAssumption
  <2>2. /\ proc'[p].at \in {"copy", "boot"} /\ proc'[p].at \in Building
        /\ proc'[p].at = "copy" => Len(proc'[p].disk_map) < Len(export[proc'[p].m])
        /\ proc'[p].at = "boot" => Len(proc'[p].disk_map) = Len(export[proc'[p].m])
    <3>1. step \in Building
      BY <1>0
    <3>2. proc'[p].at = step /\ proc'[p].m = m /\ proc'[p].disk_map = proc[p].disk_map
      BY <1>5
    <3> HIDE DEF step
    <3> QED BY <2>1, <3>1, <3>2, Zenon
  <2>3. /\ UNCHANGED <<export, file>> /\ vms' = vms
        /\ proc'[p].m = proc[p].m /\ proc'[p].vmid = proc[p].vmid
    BY <1>0, <1>5
  <2>4. /\ vms'[proc[p].vmid].name = proc[p].m /\ vms'[proc[p].vmid].slots = proc'[p].disk_map
        /\ vms' \in [Vmids -> VmType]
    BY <1>0, <1>2, <1>5
  <2> HIDE DEF step
  <2> QED BY <1>1, <1>4, <1>5, <2>2, <2>3, <2>4, BuildKept
<1>7. Holding(p) => Holding(p)'
  BY <1>0, <1>1, <1>5 DEF Holding
<1> QED BY <1>6, <1>7 DEF Kept

\* The record names the VM that was built.
LEMMA SaveKept ==
  ASSUME SeedInv, NEW p \in Procs, Save(p)
  PROVE  /\ Kept(p) /\ vms' = vms /\ export' = export /\ proc[p].at = "save"
         /\ file'[proc[p].m] = [vmid |-> proc[p].vmid, disk_map |-> proc[p].disk_map]
         /\ \A m \in Migrations : m # proc[p].m => file'[m] = file[m]
<1>0. /\ TypeOK /\ Seeding(p) /\ proc[p].at = "save" /\ Exit(p)
      /\ vms \in [Vmids -> VmType] /\ proc \in [Procs -> ProcType]
      /\ file \in [Migrations -> FileType]
      /\ file' = [file EXCEPT ![proc[p].m] = [vmid |-> proc[p].vmid, disk_map |-> proc[p].disk_map]]
      /\ UNCHANGED <<export, staged, vms>>
  BY SeedTyped DEF SeedInv, SeedingInv, Save, At
<1>1. proc[p].m \in Migrations /\ proc[p].vmid \in Vmids
  BY <1>0 DEF Seeding
<1>2. [vmid |-> proc[p].vmid, disk_map |-> proc[p].disk_map] \in FileType
  BY <1>0, <1>1 DEF ProcType, FileType
<1>3. /\ file' \in [Migrations -> FileType]
      /\ file'[proc[p].m] = [vmid |-> proc[p].vmid, disk_map |-> proc[p].disk_map]
      /\ \A m \in Migrations : m # proc[p].m => file'[m] = file[m]
  BY <1>0, <1>1, <1>2
<1>4. Kept(p)
  BY <1>0, <1>3, ExitKept
<1> QED BY <1>0, <1>3, <1>4

\* What an invocation that has begun does next; only Save writes the record.
LEMMA InvocationKept ==
  ASSUME SeedInv, NEW p \in Procs, Step(p) \/ Fails(p) \/ CreateLost(p) \/ Kill(p)
  PROVE  Kept(p) /\ (file' = file \/ Save(p))
<1>1. CASE CreateRefused(p) \/ Fails(p) \/ CreateLost(p) \/ Kill(p)
  <2>1. Kept(p)
    BY <1>1, EndingKept
  <2>2. file' = file
    BY <1>1 DEF CreateRefused, Fails, CreateLost, Kill
  <2> QED BY <2>1, <2>2
<1>2. CASE Check(p) \/ SetEfi(p) \/ Boot(p)
  <2>1. Kept(p)
    BY <1>2, CommandKept
  <2>2. file' = file
    BY <1>2 DEF Check, SetEfi, Boot
  <2> QED BY <2>1, <2>2
<1>3. CASE Create(p)
  BY <1>3, CreateKept DEF Create
<1>4. CASE Copy(p)
  BY <1>4, CopyKept DEF Copy
<1>5. CASE Import(p)
  BY <1>5, ImportKept DEF Import
<1>6. CASE Attach(p)
  BY <1>6, AttachKept DEF Attach
<1>7. CASE RemoveCopy(p)
  BY <1>7, RemoveCopyKept DEF RemoveCopy
<1>8. CASE Save(p)
  BY <1>8, SaveKept
<1> QED BY <1>1, <1>2, <1>3, <1>4, <1>5, <1>6, <1>7, <1>8 DEF Step

(* ------------------------- the beginning and the end ----------------------- *)

\* The one that begins works for a migration that nobody works for.
LEMMA BeginKept ==
  ASSUME SeedInv, NEW p \in Procs, NEW m \in Migrations, NEW v \in Vmids, Begin(p, m, v)
  PROVE  SeedInv' /\ (HoldingInv => HoldingInv')
<1> DEFINE new == [at |-> "check", m |-> m, vmid |-> v, disk_map |-> <<>>]
<1>0. /\ TypeOK /\ SeedingInv /\ proc \in [Procs -> ProcType] /\ file[m] = Unseeded
      /\ \A q \in Procs : proc[q].m # m
      /\ UNCHANGED <<export, file, staged, vms>>
      /\ proc' = [proc EXCEPT ![p] = new]
  BY SeedTyped DEF SeedInv, Begin
<1>1. new \in ProcType /\ new.at = "check" /\ new.m = m /\ new.vmid = v /\ new.disk_map = <<>>
  BY EmptyVolumes DEF ProcType, Steps
<1>2. /\ proc' \in [Procs -> ProcType] /\ \A q \in Procs : q # p => proc'[q] = proc[q]
      /\ proc'[p].at = "check" /\ proc'[p].m = m /\ proc'[p].vmid = v
      /\ proc'[p].disk_map = <<>>
  <2> HIDE DEF new
  <2>1. /\ proc' \in [Procs -> ProcType] /\ \A q \in Procs : q # p => proc'[q] = proc[q]
        /\ proc'[p] = new
    BY <1>0, <1>1
  <2> QED BY <1>1, <2>1
<1>3. TypeOK'
  BY <1>0, <1>2, SeedTyped, TypesKept
<1>4. ASSUME NEW q \in Procs PROVE Seeding(q)' /\ (Holding(q) => Holding(q)')
  <2>1. CASE q = p
    <3>1. proc'[p].at \notin {"idle", "create"} \cup Building \cup {"save"}
      BY <1>2 DEF Building, Created
    <3>2. proc'[p].at \notin {"efi", "copy", "import", "attach", "remove", "boot", "save"}
      BY <1>2
    <3>3. \A r \in Procs : proc'[r].m = m => r = p
      BY <1>0, <1>2
    <3>4. Seeding(p)'
      BY <1>0, <1>2, <3>1, <3>2, <3>3 DEF Seeding
    <3>5. Holding(p)'
      BY <3>1 DEF Holding
    <3> QED BY <2>1, <3>4, <3>5
  <2>2. CASE q # p
    <3>1. proc'[q] = proc[q] /\ Seeding(q) /\ proc[q].m # m
      BY <1>0, <1>2, <2>2 DEF SeedingInv
    <3>2. \A r \in Procs : proc'[r].m = proc[q].m => r # p /\ proc[r].m = proc[q].m
      BY <1>2, <3>1
    <3>3. Seeding(q)'
      BY <1>0, <3>1, <3>2 DEF Seeding
    <3>4. Holding(q) => Holding(q)'
      BY <1>0, <3>1 DEF Holding
    <3> QED BY <3>3, <3>4
  <2> QED BY <2>1, <2>2
<1>5. OneDestination' /\ ForeignInv'
  BY <1>0 DEF SeedInv, OneDestination, ForeignInv
<1>6. SeedingInv' /\ (HoldingInv => HoldingInv')
  BY <1>4 DEF SeedingInv, HoldingInv
<1> QED BY <1>3, <1>5, <1>6 DEF SeedInv

\* Nobody works on what the operator destroys.
LEMMA DestroyFields ==
  ASSUME SeedInv, NEW v \in Vmids, DestroyLeftover(v)
  PROVE  /\ vms[v].name \in Migrations /\ file[vms[v].name].vmid # v
         /\ \A p \in Procs : proc[p].m # vms[v].name
         /\ UNCHANGED <<export, file, proc, staged>>
         /\ vms' \in [Vmids -> VmType] /\ vms'[v].name = Nobody
         /\ \A w \in Vmids : w # v => vms'[w] = vms[w]
<1>1. vms \in [Vmids -> VmType] /\ vms' = [vms EXCEPT ![v] = NoVM]
  BY SeedTyped DEF SeedInv, DestroyLeftover
<1>2. NoVM \in VmType /\ NoVM.name = Nobody
  BY VmTypes DEF NoVM
<1>3. vms' \in [Vmids -> VmType] /\ vms'[v].name = Nobody
  BY <1>1, <1>2
<1> QED BY <1>1, <1>3 DEF DestroyLeftover

LEMMA DestroyKept ==
  ASSUME SeedInv, NEW v \in Vmids, DestroyLeftover(v)
  PROVE  SeedInv' /\ (HoldingInv => HoldingInv')
<1>0. /\ vms[v].name \in Migrations /\ \A p \in Procs : proc[p].m # vms[v].name
      /\ UNCHANGED <<export, file, proc, staged>>
      /\ vms' \in [Vmids -> VmType] /\ vms'[v].name = Nobody
      /\ \A w \in Vmids : w # v => vms'[w] = vms[w]
  BY DestroyFields
<1>1. TypeOK'
  BY <1>0, SeedTyped, TypesKept DEF SeedInv
<1>2. ASSUME NEW p \in Procs PROVE Seeding(p)' /\ (Holding(p) => Holding(p)')
  <2>1. Seeding(p)
    BY DEF SeedInv, SeedingInv
  <2>2. proc[p].at # "idle" => proc[p].m \in Migrations /\ proc[p].vmid \in Vmids
    BY <2>1 DEF Seeding
  <2>3. proc[p].at \in Building \cup {"save"} => vms'[proc[p].vmid] = vms[proc[p].vmid]
    <3>1. proc[p].at \in Building \cup {"save"} => proc[p].at # "idle"
      BY DEF Building, Created
    <3>2. proc[p].at \in Building \cup {"save"} => vms[proc[p].vmid].name = proc[p].m
      BY <2>1 DEF Seeding
    <3> QED BY <1>0, <2>2, <3>1, <3>2
  <2>4. proc[p].at = "create" => \A w \in Vmids : vms'[w].name # proc[p].m
    BY <1>0, <2>1, <2>2, NamesApart DEF Seeding
  <2>5. Seeding(p)'
    BY <1>0, <2>1, <2>3, <2>4 DEF Seeding
  <2>6. Holding(p) => Holding(p)'
    BY <1>0, <2>3 DEF Holding
  <2> QED BY <2>5, <2>6
<1>3. OneDestination'
  BY <1>0, NamesApart DEF SeedInv, OneDestination
<1>4. ForeignInv'
  <2>1. vms[ForeignVmid].name = Foreign
    <3>1. ForeignVM.name = Foreign
      BY DEF ForeignVM, NoVM
    <3> QED BY <3>1 DEF SeedInv, ForeignInv
  <2> QED BY <1>0, <2>1, NamesApart, SeedAssumption DEF SeedInv, ForeignInv
<1>5. SeedingInv' /\ (HoldingInv => HoldingInv')
  BY <1>2 DEF SeedingInv, HoldingInv
<1> QED BY <1>1, <1>3, <1>4, <1>5 DEF SeedInv

(* ------------------------------ the invariants ----------------------------- *)

LEMMA InitSeed ==
  ASSUME Init
  PROVE  SeedInv
<1>1. \A v \in Vmids : vms[v] = IF v = ForeignVmid THEN ForeignVM ELSE NoVM
  BY DEF Init
<1>2. NoVM.name = Nobody /\ ForeignVM.name = Foreign
  BY DEF NoVM, ForeignVM
<1>3. \A v \in Vmids : vms[v].name \notin Migrations
  BY <1>1, <1>2, NamesApart
<1>4. \A p \in Procs : proc[p] = Idle
  BY DEF Init
<1>5. TypeOK
  <2>1. proc \in [Procs -> ProcType] /\ file \in [Migrations -> FileType]
    BY IdleTypes DEF Init
  <2>2. vms \in [Vmids -> VmType]
    BY VmTypes DEF Init
  <2>3. 0 \in 0..MaxFiles
    BY DiskMappingAssumption
  <2>4. staged \in [Migrations -> [1..MaxDisks -> 0..MaxFiles]]
    BY <2>3 DEF Init
  <2>5. export \in [Migrations -> Mappings]
    BY DEF Init
  <2> QED BY <2>1, <2>2, <2>4, <2>5 DEF TypeOK, ProcType, VmType, FileType
<1>6. SeedingInv
  <2> SUFFICES ASSUME NEW p \in Procs PROVE Seeding(p)
    BY DEF SeedingInv
  <2>1. proc[p].at = "idle" /\ proc[p].m = Nobody
    BY <1>4 DEF Idle
  <2> QED BY <2>1 DEF Seeding, Building, Created
<1>7. OneDestination
  BY <1>3 DEF OneDestination
<1>8. ForeignInv
  BY <1>1, SeedAssumption DEF ForeignInv
<1> QED BY <1>5, <1>6, <1>7, <1>8 DEF SeedInv

LEMMA StepSeed ==
  ASSUME SeedInv, [Next]_vars
  PROVE  SeedInv'
<1>1. CASE UNCHANGED vars
  BY <1>1 DEF vars, SeedInv, TypeOK, SeedingInv, Seeding, OneDestination, ForeignInv
<1>2. ASSUME NEW p \in Procs, NEW m \in Migrations, NEW v \in Vmids, Begin(p, m, v)
      PROVE  SeedInv'
  BY <1>2, BeginKept
<1>3. ASSUME NEW p \in Procs, Step(p) \/ Fails(p) \/ CreateLost(p) \/ Kill(p)
      PROVE  SeedInv'
  <2>1. TypeOK' /\ Moves(p) /\ Seeding(p)'
    BY <1>3, InvocationKept DEF Kept
  <2>2. SeedingInv'
    BY <2>1, OthersSeed DEF SeedingInv
  <2> QED BY <2>1, <2>2, MovesKeep DEF SeedInv
<1>4. ASSUME NEW v \in Vmids, DestroyLeftover(v)
      PROVE  SeedInv'
  BY <1>4, DestroyKept
<1> QED BY <1>1, <1>2, <1>3, <1>4 DEF Next

\* What a recorded seed of m promises.
Recorded(m) ==
  file[m] # Unseeded =>
    LET vm == vms[file[m].vmid]
    IN /\ file[m].vmid \in Vmids /\ vm.name = m
       /\ Len(vm.slots) = Len(export[m])
       /\ \A i \in DOMAIN vm.slots : vm.slots[i] = <<m, i>>
       /\ vm.slots = file[m].disk_map

LEMMA RecordedMeans ==
  (RecordedInv /\ SeededExact) <=> \A m \in Migrations : Recorded(m)
BY DEF RecordedInv, SeededExact, Recorded

\* No step for another migration touches the VM of a recorded seed.
LEMMA RecordedKept ==
  ASSUME SeedInv, NEW p \in Procs, Moves(p), NEW m \in Migrations,
         file'[m] = file[m], Recorded(m)
  PROVE  Recorded(m)'
<1>1. Seeding(p) /\ proc[p].at # "idle" /\ export' = export
  BY DEF SeedInv, SeedingInv, Moves
<1>2. file[proc[p].m] = Unseeded
  BY <1>1 DEF Seeding
<1>3. CASE file[m] = Unseeded
  BY <1>3 DEF Recorded
<1>4. CASE file[m] # Unseeded
  <2>1. m # proc[p].m /\ m # Nobody
    BY <1>2, <1>4, NamesApart
  <2>2. file[m].vmid \in Vmids /\ vms[file[m].vmid].name = m
    BY <1>4 DEF Recorded
  <2>3. vms'[file[m].vmid] = vms[file[m].vmid]
    BY <2>1, <2>2, OtherVm
  <2> QED BY <1>1, <1>4, <2>3 DEF Recorded
<1> QED BY <1>3, <1>4

\* What a seed records is what it built.
LEMMA SaveRecords ==
  ASSUME SeedInv, NEW p \in Procs, Holding(p), Save(p), NEW m, m = proc[p].m
  PROVE  Recorded(m)'
<1> DEFINE s == proc[p].disk_map
           v == proc[p].vmid
<1>1. /\ vms' = vms /\ export' = export /\ proc[p].at = "save"
      /\ file'[m] = [vmid |-> v, disk_map |-> s]
  BY SaveKept
<1>2. Seeding(p) /\ TypeOK
  BY DEF SeedInv, SeedingInv
<1>3. /\ m \in Migrations /\ v \in Vmids /\ vms[v].name = m /\ vms[v].slots = s
      /\ Len(s) = Len(export[m])
  BY <1>1, <1>2 DEF Seeding
<1>4. \A i \in 1..Len(s) : s[i] = <<m, i>>
  BY <1>1 DEF Holding
<1>5. DOMAIN s = 1..Len(s)
  <2>1. s \in Seq(Data)
    BY <1>2, SeedTyped, VolumesLength DEF ProcType
  <2> HIDE DEF s
  <2> QED BY <2>1
<1>6. file'[m].vmid = v /\ file'[m].disk_map = s
  BY <1>1
<1> DEFINE vm == vms'[file'[m].vmid]
<1>7. vm.name = m /\ vm.slots = s /\ export'[m] = export[m]
  BY <1>1, <1>3, <1>6
<1>8. /\ Len(vm.slots) = Len(export'[m]) /\ vm.slots = file'[m].disk_map
      /\ \A i \in DOMAIN vm.slots : vm.slots[i] = <<m, i>>
  BY <1>3, <1>4, <1>5, <1>6, <1>7
<1> QED BY <1>3, <1>6, <1>7, <1>8 DEF Recorded

LEMMA InitExact ==
  ASSUME DistinctNames, Init
  PROVE  ExactInv
<1>1. SeedInv
  BY InitSeed
<1>2. ExportInv
  <2> SUFFICES ASSUME NEW m \in Migrations, NEW i \in 1..Len(export[m])
               PROVE  export[m][i] = i
    BY DEF ExportInv
  <2>1. export[m] \in Mappings
    BY DEF Init
  <2>2. DOMAIN export[m] = 1..Len(export[m])
    BY <1>1, ExportTyped DEF SeedInv
  <2> QED BY <2>1, <2>2, MappingsExact
<1>3. HoldingInv
  <2> SUFFICES ASSUME NEW p \in Procs PROVE Holding(p)
    BY DEF HoldingInv
  <2>1. proc[p].at = "idle"
    BY DEF Init, Idle
  <2> QED BY <2>1 DEF Holding, Building, Created
<1>4. RecordedInv /\ SeededExact
  BY DEF Init, RecordedInv, SeededExact
<1> QED BY <1>2, <1>3, <1>4 DEF ExactInv

LEMMA StepExact ==
  ASSUME SeedInv, ExactInv, [Next]_vars
  PROVE  ExactInv'
<1>0. ExportInv /\ HoldingInv /\ \A m \in Migrations : Recorded(m)
  BY RecordedMeans DEF ExactInv
<1> SUFFICES ExportInv' /\ HoldingInv' /\ \A m \in Migrations : Recorded(m)'
  <2>1. (\A m \in Migrations : Recorded(m))' => (RecordedInv /\ SeededExact)'
    BY DEF RecordedInv, SeededExact, Recorded
  <2> QED BY <2>1 DEF ExactInv
<1>1. CASE UNCHANGED vars
  BY <1>0, <1>1 DEF vars, ExportInv, HoldingInv, Holding, Recorded
<1>2. ASSUME NEW p \in Procs, NEW m \in Migrations, NEW v \in Vmids, Begin(p, m, v)
      PROVE  ExportInv' /\ HoldingInv' /\ \A x \in Migrations : Recorded(x)'
  <2>1. UNCHANGED <<export, file, vms>>
    BY <1>2 DEF Begin
  <2> QED BY <1>0, <1>2, <2>1, BeginKept DEF ExportInv, Recorded
<1>3. ASSUME NEW p \in Procs, Step(p) \/ Fails(p) \/ CreateLost(p) \/ Kill(p)
      PROVE  ExportInv' /\ HoldingInv' /\ \A x \in Migrations : Recorded(x)'
  <2>1. /\ Moves(p) /\ (Holding(p) => Holding(p)') /\ export' = export
        /\ file' = file \/ Save(p)
    BY <1>0, <1>3, InvocationKept DEF Kept, Moves
  <2>2. HoldingInv'
    BY <1>0, <2>1, OthersSeed DEF HoldingInv
  <2>3. ExportInv'
    BY <1>0, <2>1 DEF ExportInv
  <2>4. ASSUME NEW m \in Migrations PROVE Recorded(m)'
    <3>1. CASE Save(p) /\ m = proc[p].m
      BY <1>0, <3>1, SaveRecords DEF HoldingInv
    <3>2. CASE Save(p) /\ m # proc[p].m
      BY <1>0, <2>1, <3>2, SaveKept, RecordedKept
    <3>3. CASE file' = file
      BY <1>0, <2>1, <3>3, RecordedKept
    <3> QED BY <2>1, <3>1, <3>2, <3>3
  <2> QED BY <2>2, <2>3, <2>4
<1>4. ASSUME NEW v \in Vmids, DestroyLeftover(v)
      PROVE  ExportInv' /\ HoldingInv' /\ \A x \in Migrations : Recorded(x)'
  <2>1. /\ file[vms[v].name].vmid # v /\ UNCHANGED <<export, file, proc, staged>>
        /\ \A w \in Vmids : w # v => vms'[w] = vms[w]
    BY <1>4, DestroyFields
  <2>2. ASSUME NEW m \in Migrations PROVE Recorded(m)'
    <3>1. CASE file[m] = Unseeded
      BY <2>1, <3>1 DEF Recorded
    <3>2. CASE file[m] # Unseeded
      <4>1. file[m].vmid \in Vmids /\ vms[file[m].vmid].name = m
        BY <1>0, <3>2 DEF Recorded
      <4>2. vms'[file[m].vmid] = vms[file[m].vmid]
        BY <2>1, <4>1
      <4> QED BY <1>0, <2>1, <4>2 DEF Recorded
    <3> QED BY <3>1, <3>2
  <2> QED BY <1>0, <1>4, <2>1, <2>2, DestroyKept DEF ExportInv
<1> QED BY <1>1, <1>2, <1>3, <1>4 DEF Next

(* -------------------------------- theorems --------------------------------- *)

\* The types, for any number of migrations, invocations, disks and VMIDs.
THEOREM SeedTyping == Spec => []TypeOK
<1>1. Init => SeedInv
  BY InitSeed
<1>2. SeedInv /\ [Next]_vars => SeedInv'
  BY StepSeed
<1>3. SeedInv => TypeOK
  BY DEF SeedInv
<1> QED BY <1>1, <1>2, <1>3, PTL DEF Spec

\* No migration ever has two VMs on the cluster, whatever failed, was killed or
\* lost its session, and whichever VMIDs were read as free.
THEOREM SeedOneDestination == Spec => []OneDestination
<1>1. Init => SeedInv
  BY InitSeed
<1>2. SeedInv /\ [Next]_vars => SeedInv'
  BY StepSeed
<1>3. SeedInv => OneDestination
  BY DEF SeedInv
<1> QED BY <1>1, <1>2, <1>3, PTL DEF Spec

\* A seed builds on, destroys and records only the VM it created, and the VM that
\* is no migration's stays as it was.
THEOREM SeedOwnTarget == Spec => []OwnTarget
<1>1. Init => SeedInv
  BY InitSeed
<1>2. SeedInv /\ [Next]_vars => SeedInv'
  BY StepSeed
<1>3. SeedInv => OwnTarget
  BY DEF SeedInv, SeedingInv, Seeding, ForeignInv, OwnTarget
<1> QED BY <1>1, <1>2, <1>3, PTL DEF Spec

\* When the names tell the disks of an export apart, the VM that a record names
\* holds disk i of the source in slot i, for every disk.
THEOREM SeedSeededExact ==
  ASSUME DistinctNames
  PROVE  Spec => []SeededExact
<1>1. Init => SeedInv /\ ExactInv
  BY InitSeed, InitExact
<1>2. SeedInv /\ ExactInv /\ [Next]_vars => (SeedInv /\ ExactInv)'
  BY StepSeed, StepExact
<1>3. ExactInv => SeededExact
  BY DEF ExactInv
<1> QED BY <1>1, <1>2, <1>3, PTL DEF Spec
=============================================================================

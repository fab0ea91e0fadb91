---------------------------- MODULE DiskMapping -----------------------------
(* Which file of a Hyper-V export is which disk of the source VM:              *)
(* resolve_exported_disks in controller/seed.py.  The controller has only the  *)
(* names to go by.                                                             *)
(*                                                                             *)
(* Abstractions.  Only leaf names are kept (directories are never compared),   *)
(* in one case; a name is a stem and an extension, a stem a sequence of        *)
(* letters.  File i is the export of disk i: the code never looks at the       *)
(* order of the files, so any other numbering would give the same result.      *)
(*                                                                             *)
(* What an export may look like: the file of a disk has the disk's name, or a  *)
(* name with something appended to the stem ("reference-point exports can      *)
(* rename leaf files", seed.py:76); there may be files of no disk; a file that *)
(* has the name of some disk is the export of a disk of that name.             *)
(*                                                                             *)
(* MaxDisks, MaxFiles, MaxStem bound the disks, files and letters of a stem;   *)
(* DistinctNames: no two disks of the source have the same leaf name.          *)
EXTENDS Integers, FiniteSets, SequencesExt

CONSTANTS Letters, Exts, MaxDisks, MaxFiles, MaxStem, DistinctNames

ASSUME DiskMappingAssumption ==
  /\ MaxDisks \in Nat \ {0}
  /\ MaxFiles \in Nat
  /\ MaxStem \in Nat
  /\ DistinctNames \in BOOLEAN

Names == [stem : BoundedSeq(Letters, MaxStem) \ {<<>>}, ext : Exts]

\* The names the file of a disk may have after the export.
Renamed(disk) == {name \in Names : IsPrefix(disk.stem, name.stem)}

\* The names of disks and of files that a source VM and its export may have.
Exports ==
  {x \in UNION {[1..n -> Names] \X [1..k -> Names] : n \in 1..MaxDisks, k \in 1..MaxFiles} :
     LET disks == x[1]
         files == x[2]
     IN /\ Len(disks) <= Len(files)
        /\ \A i \in DOMAIN disks : files[i] \in Renamed(disks[i])
        /\ \A j \in DOMAIN files, i \in DOMAIN disks :
             files[j] = disks[i] => j \in DOMAIN disks /\ disks[j] = disks[i]
        /\ DistinctNames => IsInjective(disks)}

\* MUTANT of Candidates: the last of several files that fit the stem is taken.
CandidatesLast(disk, files, left, alone) ==
  LET exact == {j \in left : files[j] = disk}
      fuzzy == {j \in left : IsPrefix(disk.stem, files[j].stem)}
  IN IF exact # {} \/ fuzzy = {} THEN exact ELSE {Max(fuzzy)}

\* The files that come into question for a disk when only left are unused: those
\* of its name, else the only file for an only disk, else those whose stem
\* begins with the disk's.
Candidates(disk, files, left, alone) ==
  LET exact == {j \in left : files[j] = disk}
  IN CASE exact # {} -> exact
       [] alone /\ Cardinality(left) = 1 -> left
       [] OTHER -> {j \in left : IsPrefix(disk.stem, files[j].stem)}

Refused == <<0>>

\* The file of each disk, or a refusal as soon as a disk has not exactly one candidate.
Resolve(disks, files) ==
  LET resolved[i \in 0..Len(disks)] ==
        IF i = 0 THEN <<>>
        ELSE LET before == resolved[i - 1]
                 found == Candidates(disks[i], files, DOMAIN files \ ToSet(before),
                                    Len(disks) = 1)
             IN IF before = Refused \/ Cardinality(found) # 1 THEN Refused
                ELSE Append(before, CHOOSE j \in found : TRUE)
  IN resolved[Len(disks)]

\* Every outcome that is not a refusal.
Mappings == {Resolve(x[1], x[2]) : x \in Exports} \ {Refused}
=============================================================================

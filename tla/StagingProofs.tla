---------------------------- MODULE StagingProofs ---------------------------
(* Theorems about Staging: the files and mappings that an apply leaves on the  *)
(* node, and the scripts that outlive it, do not spoil a disk that was         *)
(* reported a success, for every number of disks, blocks, scripts and devices. *)
EXTENDS Staging, TLAPS

\* One invocation at a time; the operator turns to another disk only when no
\* script of the previous one is left.
OneByOne == SameDisk /\ \A p, q \in Procs : p = q

(* --------------------------- the inductive invariant ----------------------- *)

\* An invocation that a script reports to is at "run" (6), and has one such script.
BossInv ==
  \A w \in Writers : writer[w].boss # None =>
    /\ proc[writer[w].boss].at = 6
    /\ \A v \in Writers : writer[v].boss = writer[w].boss => v = w

\* The metadata and the payload are of a disk, half copied or gone.
FilesInv == {staged["meta"], staged["payload"]} \subseteq Disks \cup {None, Partial}

\* An invocation is about a disk.
DiskInv == \A p \in Procs : Busy(p) => proc[p].disk \in Disks

TypeInv == TypeOK /\ BossInv /\ FilesInv /\ DiskInv

\* A mapping that an invocation made is its own, and it is between "map" (5) and
\* "remove meta" (8).
MadeInv ==
  \A p \in Procs : proc[p].made =>
    /\ proc[p].at \in 6..7
    /\ device[proc[p].dev].owner = "hv2pve"
    /\ \A q \in Procs : proc[q].made /\ proc[q].dev = proc[p].dev => q = p

AllNew(d) == \A b \in Blocks : disk[d][b] = "new"

\* What an invocation has staged, mapped and found at each place of the plan.
Stage(p) ==
  LET at == proc[p].at
      d == proc[p].disk
  IN Busy(p) =>
       /\ d \in Disks /\ d \notin reported
       /\ proc[p].half => at \in 2..4
       /\ at = 2 /\ proc[p].half => staged["meta"] # None
       /\ at = 3 /\ proc[p].half => staged["payload"] # None
       /\ at \in 3..8 => staged["meta"] = d
       /\ at \in 4..9 => staged["payload"] = d
       /\ at > 8 => staged["meta"] = None
       /\ at > 9 => staged["payload"] = None
       /\ at > 10 => staged["script"] = None /\ proc[p].ok
       /\ at = 6 => device[proc[p].dev].volume = d
       /\ proc[p].ok => at > 6 /\ AllNew(d)

StageInv == \A p \in Procs : Stage(p)

\* What a script that is alive works on: one disk, also after its invocation.
ScriptInv ==
  \A w \in Writers : Alive(w) =>
    LET d == writer[w].disk
    IN /\ d \in Disks
       /\ \A p \in Procs : Busy(p) => proc[p].disk = d
       /\ \A v \in Writers : Alive(v) => writer[v].disk = d
       /\ staged["meta"] \in {d, Partial, None}
       /\ staged["payload"] \in {d, Partial, None}
       /\ d \in reported => staged["payload"] = None
       /\ writer[w].at # "write" =>
            device[writer[w].dev] = Free \/ device[writer[w].dev].volume = d
       /\ writer[w].at # "read" => writer[w].meta = d

\* A script that writes has the payload of its disk open, under its name or not.
PayloadInv ==
  \A w \in Writers :
    /\ writer[w].at # "write" => writer[w].source = None
    /\ writer[w].at = "write" =>
         LET d == writer[w].disk
         IN /\ writer[w].volume = d
            /\ writer[w].source \in {d, None}
            /\ writer[w].source = None => staged["payload"] # None
            /\ writer[w].boss # None => \A b \in Blocks \ writer[w].todo : disk[d][b] = "new"

SpoilInv == StageInv /\ ScriptInv /\ PayloadInv /\ SuccessExact

(* ------------------------------- the plan ---------------------------------- *)

\* The places of the copy and of the removal of a file in Plan.
CopyAt == [meta |-> 2, payload |-> 3, script |-> 4]
RemoveAt == [meta |-> 8, payload |-> 9, script |-> 10]

LEMMA PlanPlaces ==
  /\ Plan[1] = "check" /\ Plan[2] = "copy meta" /\ Plan[3] = "copy payload"
  /\ Plan[4] = "copy script" /\ Plan[5] = "map" /\ Plan[6] = "run" /\ Plan[7] = "unmap"
  /\ Plan[8] = "remove meta" /\ Plan[9] = "remove payload"
  /\ Plan[10] = "remove script" /\ Plan[11] = "save"
  BY DEF Plan

LEMMA PlanLength == Len(Plan) = 11
  BY DEF Plan

LEMMA PlanSteps ==
  ASSUME TypeOK, NEW p \in Procs
  PROVE  /\ At(p, "check") <=> proc[p].at = 1
         /\ At(p, "copy meta") <=> proc[p].at = 2
         /\ At(p, "copy payload") <=> proc[p].at = 3
         /\ At(p, "copy script") <=> proc[p].at = 4
         /\ At(p, "map") <=> proc[p].at = 5
         /\ At(p, "run") <=> proc[p].at = 6
         /\ At(p, "unmap") <=> proc[p].at = 7
         /\ At(p, "remove meta") <=> proc[p].at = 8
         /\ At(p, "remove payload") <=> proc[p].at = 9
         /\ At(p, "remove script") <=> proc[p].at = 10
         /\ At(p, "save") <=> proc[p].at = 11
<1>1. proc[p].at \in 0..11
  BY PlanLength DEF TypeOK
<1>2. \/ proc[p].at = 0 \/ proc[p].at = 1 \/ proc[p].at = 2 \/ proc[p].at = 3
      \/ proc[p].at = 4 \/ proc[p].at = 5 \/ proc[p].at = 6 \/ proc[p].at = 7
      \/ proc[p].at = 8 \/ proc[p].at = 9 \/ proc[p].at = 10 \/ proc[p].at = 11
  BY <1>1
<1>3. CASE proc[p].at = 0 BY <1>3 DEF At, Busy
<1>4. CASE proc[p].at = 1 BY <1>4, PlanPlaces DEF At, Busy
<1>5. CASE proc[p].at = 2 BY <1>5, PlanPlaces DEF At, Busy
<1>6. CASE proc[p].at = 3 BY <1>6, PlanPlaces DEF At, Busy
<1>7. CASE proc[p].at = 4 BY <1>7, PlanPlaces DEF At, Busy
<1>8. CASE proc[p].at = 5 BY <1>8, PlanPlaces DEF At, Busy
<1>9. CASE proc[p].at = 6 BY <1>9, PlanPlaces DEF At, Busy
<1>10. CASE proc[p].at = 7 BY <1>10, PlanPlaces DEF At, Busy
<1>11. CASE proc[p].at = 8 BY <1>11, PlanPlaces DEF At, Busy
<1>12. CASE proc[p].at = 9 BY <1>12, PlanPlaces DEF At, Busy
<1>13. CASE proc[p].at = 10 BY <1>13, PlanPlaces DEF At, Busy
<1>14. CASE proc[p].at = 11
  <2>1. Plan[proc[p].at] = "save"
    BY <1>14, PlanPlaces
  <2> QED BY <1>14, <2>1 DEF At, Busy
<1> QED BY <1>2, <1>3, <1>4, <1>5, <1>6, <1>7, <1>8, <1>9, <1>10, <1>11, <1>12, <1>13, <1>14

\* A copy and a removal by the file they are about.
LEMMA CopySteps ==
  ASSUME TypeOK, NEW p \in Procs
  PROVE  /\ \A step \in Copies : At(p, step) =>
              File(step) \in Files /\ proc[p].at = CopyAt[File(step)]
         /\ \A step \in Removals : At(p, step) =>
              /\ File(step) \in Files /\ proc[p].at = RemoveAt[File(step)]
              /\ step = "remove script" <=> File(step) = "script"
<1>1. /\ CopyAt["meta"] = 2 /\ CopyAt["payload"] = 3 /\ CopyAt["script"] = 4
      /\ RemoveAt["meta"] = 8 /\ RemoveAt["payload"] = 9 /\ RemoveAt["script"] = 10
      /\ File("copy meta") = "meta" /\ File("remove meta") = "meta"
      /\ File("copy payload") = "payload" /\ File("remove payload") = "payload"
      /\ File("copy script") = "script" /\ File("remove script") = "script"
  BY DEF CopyAt, RemoveAt, File
<1>2. ASSUME NEW step \in Copies, At(p, step)
      PROVE  File(step) \in Files /\ proc[p].at = CopyAt[File(step)]
  <2>1. CASE step = "copy meta" BY <1>1, <1>2, <2>1, PlanSteps DEF Files
  <2>2. CASE step = "copy payload" BY <1>1, <1>2, <2>2, PlanSteps DEF Files
  <2>3. CASE step = "copy script" BY <1>1, <1>2, <2>3, PlanSteps DEF Files
  <2> QED BY <1>2, <2>1, <2>2, <2>3 DEF Copies
<1>3. ASSUME NEW step \in Removals, At(p, step)
      PROVE  /\ File(step) \in Files /\ proc[p].at = RemoveAt[File(step)]
             /\ step = "remove script" <=> File(step) = "script"
  <2>1. CASE step = "remove meta" BY <1>1, <1>3, <2>1, PlanSteps DEF Files
  <2>2. CASE step = "remove payload" BY <1>1, <1>3, <2>2, PlanSteps DEF Files
  <2>3. CASE step = "remove script" BY <1>1, <1>3, <2>3, PlanSteps DEF Files
  <2> QED BY <1>3, <2>1, <2>2, <2>3 DEF Removals
<1> QED BY <1>2, <1>3

LEMMA BeginCopyStep ==
  ASSUME TypeOK, NEW p \in Procs, BeginCopy(p)
  PROVE  \E f \in Files :
           /\ proc[p].at = CopyAt[f] /\ ~proc[p].half
           /\ staged' = [staged EXCEPT ![f] = IF @ = Content(f, proc[p].disk) THEN @ ELSE Partial]
           /\ proc' = [proc EXCEPT ![p].half = TRUE]
           /\ UNCHANGED <<writer, device, disk, reported>>
  BY CopySteps DEF BeginCopy

LEMMA EndCopyStep ==
  ASSUME TypeOK, NEW p \in Procs, EndCopy(p)
  PROVE  \E f \in Files :
           /\ proc[p].at = CopyAt[f] /\ proc[p].half
           /\ staged' = [staged EXCEPT ![f] = IF @ = None THEN @ ELSE Content(f, proc[p].disk)]
           /\ proc' = [proc EXCEPT ![p].half = FALSE, ![p].at = @ + 1]
           /\ UNCHANGED <<writer, device, disk, reported>>
  BY CopySteps DEF EndCopy

LEMMA RemoveFileStep ==
  ASSUME TypeOK, NEW p \in Procs, RemoveFile(p)
  PROVE  \E f \in Files :
           /\ proc[p].at = RemoveAt[f]
           /\ staged' = [staged EXCEPT ![f] = None]
           /\ writer' = [w \in Writers |->
                IF f = "payload" /\ writer[w].at = "write" /\ writer[w].source = None
                  THEN [writer[w] EXCEPT !.source = staged["payload"]] ELSE writer[w]]
           /\ IF f = "script" /\ ~proc[p].ok THEN Exit(p) ELSE Advance(p)
           /\ UNCHANGED <<device, disk, reported>>
<1>1. PICK step \in Removals :
        /\ At(p, step)
        /\ staged' = [staged EXCEPT ![File(step)] = None]
        /\ writer' = [w \in Writers |->
             IF File(step) = "payload" /\ writer[w].at = "write" /\ writer[w].source = None
               THEN [writer[w] EXCEPT !.source = staged["payload"]] ELSE writer[w]]
        /\ IF step = "remove script" /\ ~proc[p].ok THEN Exit(p) ELSE Advance(p)
        /\ UNCHANGED <<device, disk, reported>>
  BY DEF RemoveFile
<1>2. /\ File(step) \in Files /\ proc[p].at = RemoveAt[File(step)]
      /\ step = "remove script" <=> File(step) = "script"
  BY <1>1, CopySteps
<1> DEFINE f == File(step)
<1>3. IF f = "script" /\ ~proc[p].ok THEN Exit(p) ELSE Advance(p)
  BY <1>1, <1>2
<1> QED BY <1>1, <1>2, <1>3

(* ----------------------------------- types --------------------------------- *)

ProcType == [at : 0..Len(Plan), disk : Disks \cup {None}, half : BOOLEAN,
             dev : 0..MaxDevice, made : BOOLEAN, ok : BOOLEAN]
WriterType == [at : {"none", "read", "hash", "open", "write"},
               boss : Procs \cup {None}, disk : Disks \cup {None},
               dev : 0..MaxDevice, meta : Disks \cup {None},
               volume : Disks \cup {None},
               source : Disks \cup {None, Partial}, todo : SUBSET Blocks]

LEMMA IdleTypes == Idle \in ProcType /\ NoWriter \in WriterType
  BY StagingAssumption, PlanLength DEF Idle, NoWriter, ProcType, WriterType

LEMMA Typed ==
  ASSUME TypeOK
  PROVE  proc \in [Procs -> ProcType] /\ writer \in [Writers -> WriterType]
  BY DEF TypeOK, ProcType, WriterType

\* Changing several fields of a record changes just these, one after the other.
LEMMA BeginFields ==
  ASSUME NEW d \in Disks
  PROVE  LET r == [Idle EXCEPT !.at = 1, !.disk = d]
         IN /\ r \in ProcType
            /\ r.at = 1 /\ r.disk = d /\ r.half = FALSE /\ r.dev = 0 /\ r.made = FALSE
            /\ r.ok = FALSE
<1> DEFINE r1 == [Idle EXCEPT !.at = 1]
<1>1. r1 \in ProcType
  BY IdleTypes, PlanLength DEF ProcType
<1>2. [r1 EXCEPT !.disk = d] \in ProcType
  <2> HIDE DEF r1
  <2> QED BY <1>1 DEF ProcType
<1>3. [Idle EXCEPT !.at = 1, !.disk = d] \in ProcType
  BY <1>2, Zenon
<1> QED BY <1>3 DEF Idle

Copied(p) == proc' = [proc EXCEPT ![p].half = FALSE, ![p].at = @ + 1]

LEMMA EndCopyFields ==
  ASSUME TypeOK, NEW p \in Procs, proc[p].at \in 0..10, Copied(p)
  PROVE  /\ proc' \in [Procs -> ProcType]
         /\ \A q \in Procs : q # p => proc'[q] = proc[q]
         /\ proc'[p].at = proc[p].at + 1 /\ proc'[p].half = FALSE
         /\ proc'[p].disk = proc[p].disk /\ proc'[p].dev = proc[p].dev
         /\ proc'[p].made = proc[p].made /\ proc'[p].ok = proc[p].ok
<1> DEFINE f1 == [proc EXCEPT ![p].half = FALSE]
           f2 == [f1 EXCEPT ![p].at = @ + 1]
<1>1. f1 \in [Procs -> ProcType] /\ f1[p].at = proc[p].at
  BY Typed DEF ProcType
<1>2. f2 \in [Procs -> ProcType]
  <2> HIDE DEF f1
  <2> QED BY <1>1, PlanLength DEF ProcType
<1>3. proc' = f2
  BY Zenon DEF Copied
<1>4. proc' \in [Procs -> ProcType]
  BY <1>2, <1>3
<1> QED BY <1>4, Typed DEF ProcType, Copied

Mapped(p, n, m) == proc' = [proc EXCEPT ![p].at = @ + 1, ![p].dev = n, ![p].made = m]

LEMMA MapFields ==
  ASSUME TypeOK, NEW p \in Procs, NEW n \in 0..MaxDevice, NEW m \in BOOLEAN,
         proc[p].at \in 0..10, Mapped(p, n, m)
  PROVE  /\ proc' \in [Procs -> ProcType]
         /\ \A q \in Procs : q # p => proc'[q] = proc[q]
         /\ proc'[p].at = proc[p].at + 1 /\ proc'[p].dev = n /\ proc'[p].made = m
         /\ proc'[p].disk = proc[p].disk /\ proc'[p].half = proc[p].half
         /\ proc'[p].ok = proc[p].ok
<1> DEFINE f1 == [proc EXCEPT ![p].at = @ + 1]
           f2 == [f1 EXCEPT ![p].dev = n]
           f3 == [f2 EXCEPT ![p].made = m]
<1>1. f1 \in [Procs -> ProcType]
  BY Typed, PlanLength DEF ProcType
<1>2. f2 \in [Procs -> ProcType]
  <2> HIDE DEF f1
  <2> QED BY <1>1 DEF ProcType
<1>3. f3 \in [Procs -> ProcType]
  <2> HIDE DEF f1, f2
  <2> QED BY <1>2 DEF ProcType
<1>4. proc' = f3
  BY Zenon DEF Mapped
<1>5. proc' \in [Procs -> ProcType]
  BY <1>3, <1>4
<1> QED BY <1>5, Typed DEF ProcType, Mapped

LEMMA AdvanceFields ==
  ASSUME TypeOK, NEW p \in Procs, proc[p].at \in 0..10, Advance(p)
  PROVE  /\ proc' \in [Procs -> ProcType]
         /\ \A q \in Procs : q # p => proc'[q] = proc[q]
         /\ proc'[p].at = proc[p].at + 1 /\ proc'[p].dev = proc[p].dev
         /\ proc'[p].made = proc[p].made
         /\ proc'[p].disk = proc[p].disk /\ proc'[p].half = proc[p].half
         /\ proc'[p].ok = proc[p].ok
  BY Typed, PlanLength DEF Advance, ProcType

LEMMA ExitFields ==
  ASSUME TypeOK, NEW p \in Procs, Exit(p)
  PROVE  /\ proc' \in [Procs -> ProcType]
         /\ \A q \in Procs : q # p => proc'[q] = proc[q]
         /\ proc'[p].at = 0 /\ proc'[p].made = FALSE
<1>1. proc'[p] = Idle /\ \A q \in Procs : q # p => proc'[q] = proc[q]
  BY Typed DEF Exit
<1>2. proc' \in [Procs -> ProcType]
  BY Typed, IdleTypes DEF Exit
<1> QED BY <1>1, <1>2 DEF Idle

\* The end of a script at its invocation, if that still listens.
LEMMA EndFields ==
  ASSUME TypeOK, NEW w \in Writers, NEW ok \in BOOLEAN, End(w, ok),
         \A p \in Procs : writer[w].boss = p => proc[p].at = 6
  PROVE  /\ writer' = [writer EXCEPT ![w] = NoWriter]
         /\ proc' \in [Procs -> ProcType]
         /\ \A p \in Procs :
              IF writer[w].boss = p
                THEN /\ proc'[p].at = 7 /\ proc'[p].ok = ok
                     /\ proc'[p].dev = proc[p].dev /\ proc'[p].made = proc[p].made
                     /\ proc'[p].disk = proc[p].disk /\ proc'[p].half = proc[p].half
                ELSE proc'[p] = proc[p]
<1> DEFINE e(r) == [r EXCEPT !.at = @ + 1, !.ok = ok]
<1>1. ASSUME NEW r \in ProcType, r.at = 6
      PROVE  /\ e(r) \in ProcType /\ e(r).at = 7 /\ e(r).ok = ok
             /\ e(r).dev = r.dev /\ e(r).made = r.made /\ e(r).disk = r.disk /\ e(r).half = r.half
  <2> DEFINE r1 == [r EXCEPT !.at = @ + 1]
  <2>1. r1 \in ProcType
    BY <1>1, PlanLength DEF ProcType
  <2>2. [r1 EXCEPT !.ok = ok] \in ProcType
    <3> HIDE DEF r1
    <3> QED BY <2>1 DEF ProcType
  <2>3. e(r) \in ProcType
    BY <2>2, Zenon
  <2> QED BY <1>1, <2>3 DEF ProcType
<1>2. /\ writer' = [writer EXCEPT ![w] = NoWriter]
      /\ proc' = [p \in Procs |-> IF writer[w].boss = p THEN e(proc[p]) ELSE proc[p]]
  BY Zenon DEF End
<1> HIDE DEF e
<1> QED BY <1>1, <1>2, Typed

Started(p) == [NoWriter EXCEPT !.at = "read", !.boss = p, !.disk = proc[p].disk, !.dev = proc[p].dev]

LEMMA RunFields ==
  ASSUME TypeOK, NEW p \in Procs
  PROVE  /\ Started(p) \in WriterType
         /\ Started(p).at = "read" /\ Started(p).boss = p /\ Started(p).disk = proc[p].disk
         /\ Started(p).dev = proc[p].dev /\ Started(p).meta = None /\ Started(p).source = None
<1>1. proc[p].disk \in Disks \cup {None} /\ proc[p].dev \in 0..MaxDevice
  BY Typed DEF ProcType
<1> QED BY <1>1 DEF Started, NoWriter, WriterType

LEMMA ReadFields ==
  ASSUME TypeOK, NEW w \in Writers, NEW m \in Disks,
         writer' = [writer EXCEPT ![w].at = "hash", ![w].meta = m]
  PROVE  /\ writer' \in [Writers -> WriterType]
         /\ \A v \in Writers : v # w => writer'[v] = writer[v]
         /\ writer'[w].at = "hash" /\ writer'[w].meta = m /\ writer'[w].boss = writer[w].boss
         /\ writer'[w].disk = writer[w].disk /\ writer'[w].dev = writer[w].dev
         /\ writer'[w].volume = writer[w].volume /\ writer'[w].source = writer[w].source
         /\ writer'[w].todo = writer[w].todo
<1> DEFINE f1 == [writer EXCEPT ![w].at = "hash"]
           f2 == [f1 EXCEPT ![w].meta = m]
<1>1. f1 \in [Writers -> WriterType]
  BY Typed DEF WriterType
<1>2. f2 \in [Writers -> WriterType]
  <2> HIDE DEF f1
  <2>1. [f1[w] EXCEPT !.meta = m] \in WriterType
    BY <1>1 DEF WriterType
  <2> QED BY <1>1, <2>1
<1>3. writer' = f2
  BY Zenon
<1>4. writer' \in [Writers -> WriterType]
  BY <1>2, <1>3
<1> QED BY <1>4, Typed DEF WriterType

LEMMA OpenFields ==
  ASSUME TypeOK, NEW w \in Writers, NEW d \in Disks \cup {None},
         writer' = [writer EXCEPT ![w].at = "write", ![w].todo = Blocks, ![w].volume = d]
  PROVE  /\ writer' \in [Writers -> WriterType]
         /\ \A v \in Writers : v # w => writer'[v] = writer[v]
         /\ writer'[w].at = "write" /\ writer'[w].todo = Blocks /\ writer'[w].volume = d
         /\ writer'[w].boss = writer[w].boss /\ writer'[w].disk = writer[w].disk
         /\ writer'[w].dev = writer[w].dev /\ writer'[w].meta = writer[w].meta
         /\ writer'[w].source = writer[w].source
<1> DEFINE f1 == [writer EXCEPT ![w].at = "write"]
           f2 == [f1 EXCEPT ![w].todo = Blocks]
           f3 == [f2 EXCEPT ![w].volume = d]
<1>1. f1 \in [Writers -> WriterType]
  BY Typed DEF WriterType
<1>2. f2 \in [Writers -> WriterType]
  <2> HIDE DEF f1
  <2>1. [f1[w] EXCEPT !.todo = Blocks] \in WriterType
    BY <1>1 DEF WriterType
  <2> QED BY <1>1, <2>1
<1>3. f3 \in [Writers -> WriterType]
  <2> HIDE DEF f1, f2
  <2>1. [f2[w] EXCEPT !.volume = d] \in WriterType
    BY <1>2 DEF WriterType
  <2> QED BY <1>2, <2>1
<1>4. writer' = f3
  BY Zenon
<1>5. writer' \in [Writers -> WriterType]
  BY <1>3, <1>4
<1> QED BY <1>5, Typed DEF WriterType

\* The scripts of an invocation that does not listen any more go on without it.
Left(p) == writer' = [w \in Writers |-> IF writer[w].boss = p THEN [writer[w] EXCEPT !.boss = None]
                                        ELSE writer[w]]

LEMMA LeftTypes ==
  ASSUME TypeOK, NEW p \in Procs, Left(p)
  PROVE  /\ writer' \in [Writers -> WriterType]
         /\ \A w \in Writers :
              /\ writer'[w].boss = IF writer[w].boss = p THEN None ELSE writer[w].boss
              /\ writer'[w].at = writer[w].at /\ writer'[w].disk = writer[w].disk
              /\ writer'[w].dev = writer[w].dev /\ writer'[w].meta = writer[w].meta
              /\ writer'[w].volume = writer[w].volume
              /\ writer'[w].source = writer[w].source /\ writer'[w].todo = writer[w].todo
<1>1. writer \in [Writers -> WriterType]
  BY DEF TypeOK, WriterType
<1>2. ASSUME NEW w \in Writers
      PROVE  /\ [writer[w] EXCEPT !.boss = None] \in WriterType
             /\ [writer[w] EXCEPT !.boss = None].boss = None
  BY <1>1 DEF WriterType
<1>3. \A w \in Writers : writer'[w] = IF writer[w].boss = p THEN [writer[w] EXCEPT !.boss = None]
                                      ELSE writer[w]
  BY DEF Left
<1>4. writer' \in [Writers -> WriterType]
  BY <1>1, <1>2 DEF Left
<1>5. ASSUME NEW w \in Writers, writer[w].boss = p
      PROVE  /\ writer'[w].boss = None
             /\ writer'[w].at = writer[w].at /\ writer'[w].disk = writer[w].disk
             /\ writer'[w].dev = writer[w].dev /\ writer'[w].meta = writer[w].meta
             /\ writer'[w].volume = writer[w].volume
             /\ writer'[w].source = writer[w].source /\ writer'[w].todo = writer[w].todo
  <2>1. writer'[w] = [writer[w] EXCEPT !.boss = None]
    BY <1>3, <1>5
  <2> QED BY <1>1, <2>1 DEF WriterType
<1>6. ASSUME NEW w \in Writers, writer[w].boss # p PROVE writer'[w] = writer[w]
  BY <1>3, <1>6
<1> QED BY <1>4, <1>5, <1>6

\* What keeps the types: an invocation that moves has no script that reports to it,
\* and a script reports to at most the invocation it did before.
LEMMA TypesKept ==
  ASSUME TypeInv,
         proc' \in [Procs -> ProcType], writer' \in [Writers -> WriterType],
         \A w \in Writers : writer'[w].boss \in {writer[w].boss, None},
         \A w \in Writers, p \in Procs : writer'[w].boss = p => proc'[p].at = proc[p].at,
         FilesInv', staged' \in [Files -> Disks \cup {None, Partial, "script"}],
         device' \in [0..MaxDevice -> [volume : Disks \cup {None}, owner : {None, "pve", "hv2pve"}]],
         disk' \in [Disks -> [Blocks -> {"old", "new", "bad"}]],
         reported' \subseteq Disks, DiskInv'
  PROVE  TypeInv'
<1>1. TypeOK'
  BY DEF TypeOK, ProcType, WriterType
<1>2. BossInv'
  <2>1. \A w \in Writers : writer[w].boss \in Procs \cup {None}
    BY DEF TypeInv, TypeOK
  <2> SUFFICES ASSUME NEW w \in Writers, writer'[w].boss # None
               PROVE  /\ proc'[writer'[w].boss].at = 6
                      /\ \A v \in Writers : writer'[v].boss = writer'[w].boss => v = w
    BY DEF BossInv
  <2> QED BY <2>1 DEF TypeInv, BossInv
<1> QED BY <1>1, <1>2 DEF TypeInv

\* What a step of an invocation needs for that.
LEMMA ProcTypes ==
  ASSUME TypeInv, NEW p \in Procs, proc' \in [Procs -> ProcType],
         \A q \in Procs : q # p => proc'[q] = proc[q],
         \/ writer' = writer /\ (proc'[p].at = proc[p].at \/ proc[p].at # 6)
         \/ Left(p),
         FilesInv', staged' \in [Files -> Disks \cup {None, Partial, "script"}],
         device' \in [0..MaxDevice -> [volume : Disks \cup {None}, owner : {None, "pve", "hv2pve"}]],
         disk' = disk, reported' \subseteq Disks,
         proc'[p].at # 0 => proc'[p].disk \in Disks
  PROVE  TypeInv'
<1>1. \A w \in Writers : writer[w].boss \in Procs => proc[writer[w].boss].at = 6
  BY StagingAssumption DEF TypeInv, BossInv
<1>0. DiskInv'
  BY DEF TypeInv, DiskInv, Busy
<1>2. CASE writer' = writer /\ (proc'[p].at = proc[p].at \/ proc[p].at # 6)
  <2>1. \A w \in Writers, q \in Procs : writer'[w].boss = q => proc'[q].at = proc[q].at
    BY <1>1, <1>2
  <2>2. writer' \in [Writers -> WriterType] /\ \A w \in Writers : writer'[w].boss = writer[w].boss
    BY <1>2, Typed DEF TypeInv
  <2> QED BY <1>0, <2>1, <2>2, TypesKept DEF TypeInv, TypeOK
<1>3. CASE Left(p)
  <2>1. /\ writer' \in [Writers -> WriterType]
        /\ \A w \in Writers : writer'[w].boss = IF writer[w].boss = p THEN None ELSE writer[w].boss
    BY <1>3, LeftTypes DEF TypeInv
  <2>2. \A w \in Writers, q \in Procs : writer'[w].boss = q => proc'[q].at = proc[q].at
    BY <2>1, StagingAssumption
  <2> QED BY <1>0, <2>1, <2>2, TypesKept DEF TypeInv, TypeOK
<1> QED BY <1>2, <1>3

LEMMA ProcStepTypes ==
  ASSUME TypeInv, NEW p \in Procs,
         \/ \E d \in Disks : Begin(p, d)
         \/ Check(p) \/ BeginCopy(p) \/ EndCopy(p) \/ MapExisting(p) \/ MapNew(p)
         \/ Run(p) \/ LoseSession(p) \/ Unmap(p) \/ UnmapFails(p) \/ RemoveFile(p)
         \/ Save(p) \/ Die(p)
  PROVE  TypeInv'
<1>0. /\ TypeOK /\ FilesInv /\ proc \in [Procs -> ProcType] /\ writer \in [Writers -> WriterType]
      /\ proc[p] \in ProcType /\ proc[p].at \in 0..11
      /\ staged \in [Files -> Disks \cup {None, Partial, "script"}]
      /\ device \in [0..MaxDevice -> [volume : Disks \cup {None}, owner : {None, "pve", "hv2pve"}]]
      /\ reported \subseteq Disks /\ (proc[p].at # 0 => proc[p].disk \in Disks)
      /\ Free \in [volume : Disks \cup {None}, owner : {None, "pve", "hv2pve"}]
  BY Typed, PlanLength DEF TypeInv, TypeOK, ProcType, Free, DiskInv, Busy
<1>1. UNCHANGED staged => FilesInv'
  BY <1>0 DEF FilesInv
<1>2. ASSUME NEW d \in Disks, Begin(p, d)
      PROVE  TypeInv'
  <2>1. /\ proc[p].at = 0 /\ UNCHANGED <<writer, staged, device, disk, reported>>
        /\ proc' = [proc EXCEPT ![p] = [Idle EXCEPT !.at = 1, !.disk = d]]
    BY <1>2 DEF Begin, Busy
  <2>2. /\ proc' \in [Procs -> ProcType] /\ \A q \in Procs : q # p => proc'[q] = proc[q]
        /\ proc'[p].disk = d
    BY <1>0, <2>1, BeginFields
  <2> QED BY <1>0, <1>1, <2>1, <2>2, ProcTypes
<1>3. CASE Check(p)
  <2>1. proc[p].at = 1 /\ Advance(p) /\ UNCHANGED <<writer, staged, device, disk, reported>>
    BY <1>0, <1>3, PlanSteps DEF Check
  <2> QED BY <1>0, <1>1, <2>1, AdvanceFields, ProcTypes
<1>4. CASE BeginCopy(p)
  <2>1. PICK f \in Files :
           /\ staged' = [staged EXCEPT ![f] = IF @ = Content(f, proc[p].disk) THEN @ ELSE Partial]
           /\ proc' = [proc EXCEPT ![p].half = TRUE]
           /\ UNCHANGED <<writer, device, disk, reported>>
    BY <1>0, <1>4, BeginCopyStep
  <2>2. /\ proc' \in [Procs -> ProcType] /\ proc'[p].at = proc[p].at
        /\ proc'[p].disk = proc[p].disk
        /\ \A q \in Procs : q # p => proc'[q] = proc[q]
    BY <1>0, <2>1 DEF ProcType
  <2>3. FilesInv' /\ staged' \in [Files -> Disks \cup {None, Partial, "script"}]
    BY <1>0, <2>1 DEF FilesInv, Files
  <2> QED BY <1>0, <2>1, <2>2, <2>3, ProcTypes
<1>5. CASE EndCopy(p)
  <2>1. PICK f \in Files :
           /\ proc[p].at = CopyAt[f]
           /\ staged' = [staged EXCEPT ![f] = IF @ = None THEN @ ELSE Content(f, proc[p].disk)]
           /\ Copied(p)
           /\ UNCHANGED <<writer, device, disk, reported>>
    BY <1>0, <1>5, EndCopyStep DEF Copied
  <2>2. proc[p].at \in 2..4
    BY <2>1 DEF CopyAt, Files
  <2>3. /\ proc' \in [Procs -> ProcType] /\ \A q \in Procs : q # p => proc'[q] = proc[q]
        /\ proc'[p].disk = proc[p].disk
    <3>1. proc[p].at \in 0..10 /\ Copied(p)
      BY <2>1, <2>2
    <3> QED BY <1>0, <3>1, EndCopyFields
  <2>4. FilesInv' /\ staged' \in [Files -> Disks \cup {None, Partial, "script"}]
    <3>1. proc[p].disk \in Disks \cup {None}
      BY <1>0 DEF ProcType
    <3> QED BY <1>0, <2>1, <3>1 DEF FilesInv, Files, Content
  <2> QED BY <1>0, <2>1, <2>2, <2>3, <2>4, ProcTypes
<1>6. CASE MapExisting(p) \/ MapNew(p)
  <2>1. PICK n \in 0..MaxDevice, m \in BOOLEAN :
           /\ proc[p].at = 5 /\ Mapped(p, n, m)
           /\ \/ device' = device
              \/ device' = [device EXCEPT ![n] = [volume |-> proc[p].disk, owner |-> "hv2pve"]]
           /\ UNCHANGED <<writer, staged, disk, reported>>
    BY <1>0, <1>6, PlanSteps DEF MapExisting, MapNew, Mapped
  <2>2. /\ proc' \in [Procs -> ProcType] /\ \A q \in Procs : q # p => proc'[q] = proc[q]
        /\ proc'[p].disk = proc[p].disk
    BY <1>0, <2>1, MapFields
  <2>3. device' \in [0..MaxDevice -> [volume : Disks \cup {None}, owner : {None, "pve", "hv2pve"}]]
    <3>1. proc[p].disk \in Disks \cup {None}
      BY <1>0 DEF ProcType
    <3> QED BY <1>0, <2>1, <3>1
  <2> QED BY <1>0, <1>1, <2>1, <2>2, <2>3, ProcTypes
<1>7. CASE Run(p)
  <2>1. /\ proc[p].at = 6 /\ \A w \in Writers : writer[w].boss # p
        /\ UNCHANGED <<staged, device, disk, reported>>
    BY <1>0, <1>7, PlanSteps DEF Run
  <2>2. CASE Advance(p) /\ writer' = writer
    <3>1. /\ proc' \in [Procs -> ProcType] /\ \A q \in Procs : q # p => proc'[q] = proc[q]
          /\ proc'[p].disk = proc[p].disk
      BY <1>0, <2>1, <2>2, AdvanceFields
    <3>2. Left(p)
      BY <1>0, <2>1, <2>2 DEF Left
    <3> QED BY <1>0, <1>1, <2>1, <3>1, <3>2, ProcTypes
  <2>3. ASSUME NEW w \in Writers, proc' = proc, ~Alive(w),
               writer' = [writer EXCEPT ![w] = Started(p)]
        PROVE  TypeInv'
    <3>2. /\ writer' \in [Writers -> WriterType] /\ writer'[w].boss = p
          /\ \A v \in Writers : v # w => writer'[v] = writer[v]
      BY <1>0, <2>3, RunFields
    <3>3. TypeOK'
      BY <1>0, <2>1, <2>3, <3>2 DEF TypeOK, ProcType, WriterType
    <3>4. BossInv'
      BY <2>1, <2>3, <3>2 DEF TypeInv, BossInv
    <3>5. DiskInv'
      BY <2>3 DEF TypeInv, DiskInv, Busy
    <3> QED BY <1>1, <2>1, <3>3, <3>4, <3>5 DEF TypeInv
  <2> QED BY <1>7, <2>2, <2>3 DEF Run, Started
<1>8. CASE LoseSession(p)
  <2>1. /\ proc[p].at = 6 /\ Advance(p) /\ Left(p) /\ UNCHANGED <<staged, device, disk, reported>>
    BY <1>0, <1>8, PlanSteps DEF LoseSession, Left
  <2> QED BY <1>0, <1>1, <2>1, AdvanceFields, ProcTypes
<1>9. CASE Unmap(p) \/ UnmapFails(p)
  <2>1. /\ proc[p].at = 7 /\ Mapped(p, 0, FALSE)
        /\ device' = device \/ device' = [device EXCEPT ![proc[p].dev] = Free]
        /\ UNCHANGED <<writer, staged, disk, reported>>
    BY <1>0, <1>9, PlanSteps DEF Unmap, UnmapFails, Unmapped, Mapped
  <2>2. /\ proc' \in [Procs -> ProcType] /\ \A q \in Procs : q # p => proc'[q] = proc[q]
        /\ proc'[p].disk = proc[p].disk
    <3>1. 0 \in 0..MaxDevice
      BY StagingAssumption
    <3>2. proc[p].at \in 0..10
      BY <2>1
    <3>3. Mapped(p, 0, FALSE)
      BY <2>1
    <3> QED BY <1>0, <3>1, <3>2, <3>3, MapFields
  <2>3. device' \in [0..MaxDevice -> [volume : Disks \cup {None}, owner : {None, "pve", "hv2pve"}]]
    BY <1>0, <2>1
  <2> QED BY <1>0, <1>1, <2>1, <2>2, <2>3, ProcTypes
<1>10. CASE RemoveFile(p)
  <2>1. PICK f \in Files :
           /\ proc[p].at = RemoveAt[f]
           /\ staged' = [staged EXCEPT ![f] = None]
           /\ writer' = [w \in Writers |->
                IF f = "payload" /\ writer[w].at = "write" /\ writer[w].source = None
                  THEN [writer[w] EXCEPT !.source = staged["payload"]] ELSE writer[w]]
           /\ IF f = "script" /\ ~proc[p].ok THEN Exit(p) ELSE Advance(p)
           /\ UNCHANGED <<device, disk, reported>>
    BY <1>0, <1>10, RemoveFileStep
  <2>2. proc[p].at \in 8..10
    BY <2>1 DEF RemoveAt, Files
  <2>3. /\ proc' \in [Procs -> ProcType] /\ \A q \in Procs : q # p => proc'[q] = proc[q]
        /\ proc'[p].at # 0 => proc'[p].disk \in Disks
    <3>1. CASE Exit(p)
      BY <1>0, <3>1, ExitFields
    <3>2. CASE Advance(p)
      BY <1>0, <2>2, <3>2, AdvanceFields
    <3> QED BY <2>1, <3>1, <3>2
  <2>4. FilesInv' /\ staged' \in [Files -> Disks \cup {None, Partial, "script"}]
    BY <1>0, <2>1 DEF FilesInv, Files
  <2>5. writer' \in [Writers -> WriterType] /\ \A w \in Writers : writer'[w].boss = writer[w].boss
    <3>1. ASSUME NEW w \in Writers
          PROVE  /\ [writer[w] EXCEPT !.source = staged["payload"]] \in WriterType
                 /\ [writer[w] EXCEPT !.source = staged["payload"]].boss = writer[w].boss
      <4>1. staged["payload"] \in Disks \cup {None, Partial} /\ writer[w] \in WriterType
        BY <1>0 DEF FilesInv
      <4> QED BY <4>1 DEF WriterType
    <3> QED BY <1>0, <2>1, <3>1
  <2>6. \A w \in Writers : writer[w].boss # p
    BY <2>2, StagingAssumption DEF TypeInv, BossInv
  <2>7. DiskInv'
    BY <2>3 DEF TypeInv, DiskInv, Busy
  <2> QED BY <1>0, <2>1, <2>3, <2>4, <2>5, <2>6, <2>7, TypesKept DEF TypeOK
<1>11. CASE Save(p)
  <2>1. /\ proc[p].at = 11 /\ Exit(p) /\ UNCHANGED <<writer, staged, device, disk>>
        /\ reported' = reported \cup {proc[p].disk} /\ proc[p].disk \in Disks
    <3>1. proc[p].at = 11
      BY <1>0, <1>11, PlanSteps DEF Save
    <3> QED BY <1>0, <1>11, <3>1 DEF Save
  <2>2. /\ proc' \in [Procs -> ProcType] /\ \A q \in Procs : q # p => proc'[q] = proc[q]
        /\ proc'[p].at = 0
    BY <1>0, <2>1, ExitFields
  <2>3. reported' \subseteq Disks
    BY <1>0, <2>1
  <2> QED BY <1>0, <1>1, <2>1, <2>2, <2>3, ProcTypes
<1>12. CASE Die(p)
  <2>1. /\ Exit(p) /\ Left(p) /\ UNCHANGED <<staged, device, disk, reported>>
    BY <1>12 DEF Die, Left
  <2>2. /\ proc' \in [Procs -> ProcType] /\ \A q \in Procs : q # p => proc'[q] = proc[q]
        /\ proc'[p].at = 0
    BY <1>0, <2>1, ExitFields
  <2> QED BY <1>0, <1>1, <2>1, <2>2, ProcTypes
<1> QED BY <1>2, <1>3, <1>4, <1>5, <1>6, <1>7, <1>8, <1>9, <1>10, <1>11, <1>12

\* A script works on with its fields, or ends and reports to its invocation.
LEMMA WriterStepTypes ==
  ASSUME TypeInv, NEW w \in Writers,
         ReadMeta(w) \/ HashPayload(w) \/ Open(w) \/ Write(w) \/ WriterDies(w)
  PROVE  TypeInv'
<1>0. /\ TypeOK /\ FilesInv /\ proc \in [Procs -> ProcType] /\ writer \in [Writers -> WriterType]
      /\ writer[w] \in WriterType
      /\ staged \in [Files -> Disks \cup {None, Partial, "script"}]
      /\ device \in [0..MaxDevice -> [volume : Disks \cup {None}, owner : {None, "pve", "hv2pve"}]]
      /\ disk \in [Disks -> [Blocks -> {"old", "new", "bad"}]]
      /\ reported \subseteq Disks
      /\ \A p \in Procs : writer[w].boss = p => proc[p].at = 6
  BY Typed, StagingAssumption DEF TypeInv, TypeOK, BossInv
<1>1. UNCHANGED staged => FilesInv' /\ staged' \in [Files -> Disks \cup {None, Partial, "script"}]
  BY <1>0 DEF FilesInv
<1>2. ASSUME NEW ok \in BOOLEAN, End(w, ok), UNCHANGED <<staged, device, reported>>,
             disk' \in [Disks -> [Blocks -> {"old", "new", "bad"}]]
      PROVE  TypeInv'
  <2>1. /\ writer' \in [Writers -> WriterType]
        /\ \A v \in Writers : writer'[v] = IF v = w THEN NoWriter ELSE writer[v]
    BY <1>0, <1>2, EndFields, IdleTypes
  <2>2. proc' \in [Procs -> ProcType]
    BY <1>0, <1>2, EndFields
  <2>3. \A v \in Writers : writer'[v].boss = IF v = w THEN None ELSE writer[v].boss
    BY <2>1 DEF NoWriter
  <2>4. ASSUME NEW v \in Writers, NEW p \in Procs, writer'[v].boss = p
        PROVE  proc'[p].at = proc[p].at
    <3>1. v # w /\ writer[v].boss = p
      BY <2>3, <2>4, StagingAssumption
    <3>2. writer[w].boss # p
      BY <3>1, StagingAssumption DEF TypeInv, BossInv
    <3> QED BY <1>0, <1>2, <3>2, EndFields
  <2>5. DiskInv'
    <3>1. \A p \in Procs : proc'[p].disk = proc[p].disk /\ (proc'[p].at # 0 => proc[p].at # 0)
      BY <1>0, <1>2, EndFields
    <3> QED BY <3>1 DEF TypeInv, DiskInv, Busy
  <2> QED BY <1>0, <1>1, <1>2, <2>1, <2>2, <2>3, <2>4, <2>5, TypesKept
<1>3. ASSUME proc' = proc, writer' \in [Writers -> WriterType],
             \A v \in Writers : writer'[v].boss = writer[v].boss,
             UNCHANGED <<staged, device, reported>>,
             disk' \in [Disks -> [Blocks -> {"old", "new", "bad"}]]
      PROVE  TypeInv'
  <2>1. DiskInv'
    BY <1>3 DEF TypeInv, DiskInv, Busy
  <2> QED BY <1>0, <1>1, <1>3, <2>1, TypesKept
<1>4. CASE ReadMeta(w)
  <2>1. CASE /\ proc' = proc /\ UNCHANGED <<staged, device, disk, reported>>
             /\ staged["meta"] \in Disks
             /\ writer' = [writer EXCEPT ![w].at = "hash", ![w].meta = staged["meta"]]
    BY <1>0, <1>3, <2>1, ReadFields
  <2> QED BY <1>0, <1>2, <1>4, <2>1 DEF ReadMeta
<1>5. CASE HashPayload(w)
  <2>1. CASE /\ proc' = proc /\ UNCHANGED <<staged, device, disk, reported>>
             /\ writer' = [writer EXCEPT ![w].at = "open"]
    <3>1. writer' \in [Writers -> WriterType] /\ \A v \in Writers : writer'[v].boss = writer[v].boss
      BY <1>0, <2>1 DEF WriterType
    <3> QED BY <1>0, <1>3, <2>1, <3>1
  <2> QED BY <1>0, <1>2, <1>5, <2>1 DEF HashPayload
<1>6. CASE Open(w)
  <2>1. CASE /\ proc' = proc /\ UNCHANGED <<staged, device, disk, reported>>
             /\ writer' = [writer EXCEPT ![w].at = "write", ![w].todo = Blocks,
                                         ![w].volume = device[writer[w].dev].volume]
    <3>1. device[writer[w].dev].volume \in Disks \cup {None}
      BY <1>0 DEF WriterType
    <3>2. writer' \in [Writers -> WriterType] /\ \A v \in Writers : writer'[v].boss = writer[v].boss
      BY <1>0, <2>1, <3>1, OpenFields
    <3> QED BY <1>0, <1>3, <2>1, <3>2
  <2> QED BY <1>0, <1>2, <1>6, <2>1 DEF Open
<1>7. CASE Write(w)
  <2> DEFINE b == CHOOSE x \in writer[w].todo : \A y \in writer[w].todo : x <= y
             d == writer[w].volume
  <2>1. PICK right \in BOOLEAN :
          /\ disk' = [disk EXCEPT ![d][b] = IF right /\ d = writer[w].meta THEN "new" ELSE "bad"]
          /\ IF right /\ writer[w].todo # {b}
               THEN writer' = [writer EXCEPT ![w].todo = @ \ {b}] /\ UNCHANGED proc
               ELSE End(w, right)
          /\ UNCHANGED <<staged, device, reported>>
    BY <1>7 DEF Write
  <2> HIDE DEF b
  <2>2. disk' \in [Disks -> [Blocks -> {"old", "new", "bad"}]]
    BY <1>0, <2>1
  <2>3. CASE End(w, right)
    BY <1>2, <2>1, <2>2, <2>3
  <2>4. CASE writer' = [writer EXCEPT ![w].todo = @ \ {b}] /\ UNCHANGED proc
    <3>1. writer' \in [Writers -> WriterType] /\ \A v \in Writers : writer'[v].boss = writer[v].boss
      BY <1>0, <2>4 DEF WriterType
    <3> QED BY <1>3, <2>1, <2>2, <2>4, <3>1
  <2> QED BY <2>1, <2>3, <2>4
<1>8. CASE WriterDies(w)
  BY <1>0, <1>2, <1>8 DEF WriterDies
<1> QED BY <1>4, <1>5, <1>6, <1>7, <1>8

LEMMA InitTypes ==
  ASSUME Init
  PROVE  TypeInv
<1>1. proc \in [Procs -> ProcType] /\ writer \in [Writers -> WriterType]
  BY IdleTypes DEF Init
<1>2. device \in [0..MaxDevice -> [volume : Disks \cup {None}, owner : {None, "pve", "hv2pve"}]]
  BY DEF Init, Free
<1>3. TypeOK
  BY <1>1, <1>2 DEF Init, TypeOK, ProcType, WriterType, Files
<1>4. \A w \in Writers : writer[w].boss = None
  BY DEF Init, NoWriter
<1>5. \A p \in Procs : proc[p].at = 0
  BY DEF Init, Idle
<1> QED BY <1>3, <1>4, <1>5 DEF Init, TypeInv, BossInv, FilesInv, DiskInv, Busy, Files

LEMMA StepTypes ==
  ASSUME TypeInv, [Next]_vars
  PROVE  TypeInv'
<1>1. CASE UNCHANGED vars
  BY <1>1 DEF vars, TypeInv, TypeOK, BossInv, FilesInv, DiskInv, Busy
<1> QED BY <1>1, ProcStepTypes, WriterStepTypes DEF Next

\* The types of the plan's places need that a script which ends finds its
\* invocation at "run".
THEOREM StagingTyping == Spec => []TypeOK
<1>1. Init => TypeInv
  BY InitTypes
<1>2. TypeInv /\ [Next]_vars => TypeInv'
  BY StepTypes
<1>3. TypeInv => TypeOK
  BY DEF TypeInv
<1> QED BY <1>1, <1>2, <1>3, PTL DEF Spec

(* --------------------------------- mappings -------------------------------- *)

\* An invocation that has made a mapping just did it or goes from "run" to "unmap".
LEMMA MadeStep ==
  ASSUME TypeInv, MadeInv, Next, NEW q \in Procs, proc'[q].made
  PROVE  \/ MapNew(q)
         \/ proc[q].made /\ proc'[q].dev = proc[q].dev /\ proc'[q].at \in 6..7
<1>0. /\ TypeOK /\ \A p \in Procs : proc[p].at \in 0..11
      /\ \A w \in Writers, p \in Procs : writer[w].boss = p => proc[p].at = 6
      /\ \A p \in Procs : proc[p].made => proc[p].at \in 6..7
      /\ proc \in [Procs -> ProcType]
  BY Typed, PlanLength, StagingAssumption DEF TypeInv, TypeOK, BossInv, MadeInv
<1>1. ASSUME proc'[q] = proc[q]
      PROVE  proc[q].made /\ proc'[q].dev = proc[q].dev /\ proc'[q].at \in 6..7
  BY <1>0, <1>1
<1>2. ASSUME NEW w \in Writers, NEW ok \in BOOLEAN, End(w, ok)
      PROVE  proc[q].made /\ proc'[q].dev = proc[q].dev /\ proc'[q].at \in 6..7
  BY <1>0, <1>1, <1>2, EndFields
<1>3. ASSUME NEW w \in Writers,
             ReadMeta(w) \/ HashPayload(w) \/ Open(w) \/ Write(w) \/ WriterDies(w)
      PROVE  proc[q].made /\ proc'[q].dev = proc[q].dev /\ proc'[q].at \in 6..7
  <2>1. UNCHANGED proc \/ \E ok \in BOOLEAN : End(w, ok)
    BY <1>3 DEF ReadMeta, HashPayload, Open, Write, WriterDies
  <2> QED BY <1>1, <1>2, <2>1
<1>4. ASSUME NEW p \in Procs, Advance(p), proc[p].at \in 0..10, proc[p].at \in {5, 6} \/ ~proc[p].made
      PROVE  proc[q].made /\ proc'[q].dev = proc[q].dev /\ proc'[q].at \in 6..7
  BY <1>0, <1>1, <1>4, AdvanceFields
<1>5. ASSUME NEW p \in Procs, Exit(p)
      PROVE  proc[q].made /\ proc'[q].dev = proc[q].dev /\ proc'[q].at \in 6..7
  BY <1>0, <1>1, <1>5, ExitFields
<1>6. ASSUME NEW p \in Procs, NEW n \in 0..MaxDevice, Mapped(p, n, FALSE), proc[p].at \in 0..10
      PROVE  proc[q].made /\ proc'[q].dev = proc[q].dev /\ proc'[q].at \in 6..7
  BY <1>0, <1>1, <1>6, MapFields
<1>7. ASSUME NEW p \in Procs, ~proc[p].made, proc'[p].made = proc[p].made,
             \A r \in Procs : r # p => proc'[r] = proc[r]
      PROVE  proc[q].made /\ proc'[q].dev = proc[q].dev /\ proc'[q].at \in 6..7
  BY <1>1, <1>7
<1>8. ASSUME NEW p \in Procs, NEW d \in Disks, Begin(p, d)
      PROVE  proc[q].made /\ proc'[q].dev = proc[q].dev /\ proc'[q].at \in 6..7
  <2>1. proc'[p].made = FALSE /\ \A r \in Procs : r # p => proc'[r] = proc[r]
    BY <1>0, <1>8, BeginFields DEF Begin
  <2> QED BY <1>1, <2>1
<1>9. ASSUME NEW p \in Procs, Check(p) \/ Save(p) \/ Die(p) \/ LoseSession(p)
      PROVE  proc[q].made /\ proc'[q].dev = proc[q].dev /\ proc'[q].at \in 6..7
  <2>1. CASE Check(p)
    <3>1. Advance(p)
      BY <2>1 DEF Check
    <3>2. proc[p].at = 1
      BY <1>0, <2>1, PlanSteps DEF Check
    <3>3. ~proc[p].made /\ proc[p].at \in 0..10
      BY <1>0, <3>2
    <3> QED BY <1>4, <3>1, <3>3
  <2>2. CASE Save(p) \/ Die(p)
    BY <1>5, <2>2 DEF Save, Die
  <2>3. CASE LoseSession(p)
    <3>1. Advance(p)
      BY <2>3 DEF LoseSession
    <3>2. proc[p].at = 6
      BY <1>0, <2>3, PlanSteps DEF LoseSession
    <3> QED BY <1>4, <3>1, <3>2
  <2> QED BY <1>9, <2>1, <2>2, <2>3
<1>10. ASSUME NEW p \in Procs, BeginCopy(p) \/ EndCopy(p)
      PROVE  proc[q].made /\ proc'[q].dev = proc[q].dev /\ proc'[q].at \in 6..7
  <2>1. \A f \in Files : CopyAt[f] \in 2..4
    BY DEF CopyAt, Files
  <2>2. CASE BeginCopy(p)
    <3>1. proc[p].at \in 2..4 /\ proc' = [proc EXCEPT ![p].half = TRUE]
      BY <1>0, <2>1, <2>2, BeginCopyStep
    <3>2. proc'[p].made = proc[p].made /\ ~proc[p].made /\ \A r \in Procs : r # p => proc'[r] = proc[r]
      BY <1>0, <3>1 DEF ProcType
    <3> QED BY <1>7, <3>2
  <2>3. CASE EndCopy(p)
    <3>1. proc[p].at \in 2..4 /\ Copied(p)
      BY <1>0, <2>1, <2>3, EndCopyStep DEF Copied
    <3>2. proc[p].at \in 0..10 /\ ~proc[p].made
      BY <1>0, <3>1
    <3>3. proc'[p].made = proc[p].made /\ \A r \in Procs : r # p => proc'[r] = proc[r]
      BY <1>0, <3>1, <3>2, EndCopyFields
    <3> QED BY <1>7, <3>2, <3>3
  <2> QED BY <1>10, <2>2, <2>3
<1>11. ASSUME NEW p \in Procs, MapExisting(p) \/ Unmap(p) \/ UnmapFails(p)
      PROVE  proc[q].made /\ proc'[q].dev = proc[q].dev /\ proc'[q].at \in 6..7
  <2>1. CASE MapExisting(p)
    <3>1. PICK n \in 0..MaxDevice : Mapped(p, n, FALSE)
      BY <2>1 DEF MapExisting, Mapped
    <3>2. proc[p].at = 5
      BY <1>0, <2>1, PlanSteps DEF MapExisting
    <3>3. proc[p].at \in 0..10
      BY <3>2
    <3> QED BY <1>6, <3>1, <3>3
  <2>2. CASE Unmap(p) \/ UnmapFails(p)
    <3>1. proc[p].at = 7
      BY <1>0, <2>2, PlanSteps DEF Unmap, UnmapFails
    <3>2. Mapped(p, 0, FALSE)
      BY <2>2 DEF Unmap, UnmapFails, Unmapped, Mapped
    <3>3. 0 \in 0..MaxDevice
      BY StagingAssumption
    <3>4. proc[p].at \in 0..10
      BY <3>1
    <3> QED BY <1>6, <3>2, <3>3, <3>4
  <2> QED BY <1>11, <2>1, <2>2
<1>12. ASSUME NEW p \in Procs, Run(p)
      PROVE  proc[q].made /\ proc'[q].dev = proc[q].dev /\ proc'[q].at \in 6..7
  <2>1. CASE UNCHANGED proc
    BY <1>1, <2>1
  <2>2. CASE Advance(p)
    <3>1. proc[p].at = 6
      BY <1>0, <1>12, PlanSteps DEF Run
    <3> QED BY <1>4, <2>2, <3>1
  <2> QED BY <1>12, <2>1, <2>2 DEF Run
<1>13. ASSUME NEW p \in Procs, RemoveFile(p)
      PROVE  proc[q].made /\ proc'[q].dev = proc[q].dev /\ proc'[q].at \in 6..7
  <2>1. \A f \in Files : RemoveAt[f] \in 8..10
    BY DEF RemoveAt, Files
  <2>2. proc[p].at \in 8..10 /\ (Exit(p) \/ Advance(p))
    BY <1>0, <1>13, <2>1, RemoveFileStep
  <2>3. ~proc[p].made
    BY <1>0, <2>2
  <2> QED BY <1>4, <1>5, <2>2, <2>3
<1>14. ASSUME NEW p \in Procs, MapNew(p), p # q
      PROVE  proc[q].made /\ proc'[q].dev = proc[q].dev /\ proc'[q].at \in 6..7
  <2>1. proc'[q] = proc[q]
    BY <1>0, <1>14 DEF MapNew
  <2> QED BY <1>1, <2>1
<1> QED
  BY <1>3, <1>8, <1>9, <1>10, <1>11, <1>12, <1>13, <1>14 DEF Next

LEMMA MapNewFields ==
  ASSUME TypeInv, NEW p \in Procs, MapNew(p)
  PROVE  \E n \in 0..MaxDevice :
           /\ device[n] = Free /\ proc[p].at = 5
           /\ device' = [device EXCEPT ![n] = [volume |-> proc[p].disk, owner |-> "hv2pve"]]
           /\ Mapped(p, n, TRUE) /\ UNCHANGED <<writer, staged, disk, reported>>
<1>1. proc[p].at = 5
  BY PlanSteps DEF MapNew, TypeInv
<1> QED BY <1>1 DEF MapNew, Mapped

\* A device number changes by a new mapping where there was none, or by the end of
\* a mapping that an invocation made.
LEMMA DeviceStep ==
  ASSUME TypeInv, Next, NEW n \in 0..MaxDevice
  PROVE  \/ device'[n] = device[n]
         \/ \E p \in Procs : /\ MapNew(p) /\ proc'[p].dev = n /\ device[n] = Free
                             /\ device'[n] = [volume |-> proc[p].disk, owner |-> "hv2pve"]
         \/ \E p \in Procs : /\ proc[p].made /\ proc[p].dev = n /\ ~proc'[p].made
                             /\ device'[n] = Free
<1>0. /\ TypeOK /\ proc \in [Procs -> ProcType]
      /\ device \in [0..MaxDevice -> [volume : Disks \cup {None}, owner : {None, "pve", "hv2pve"}]]
  BY Typed DEF TypeInv, TypeOK
<1>1. CASE UNCHANGED device
  BY <1>1
<1>2. ASSUME NEW p \in Procs, MapNew(p)
      PROVE  device'[n] = device[n]
             \/ /\ proc'[p].dev = n /\ device[n] = Free
                /\ device'[n] = [volume |-> proc[p].disk, owner |-> "hv2pve"]
  <2>1. PICK k \in 0..MaxDevice :
           /\ device[k] = Free /\ proc[p].at = 5
           /\ device' = [device EXCEPT ![k] = [volume |-> proc[p].disk, owner |-> "hv2pve"]]
           /\ Mapped(p, k, TRUE)
    BY <1>2, MapNewFields
  <2>2. proc[p].at \in 0..10
    BY <2>1
  <2>3. proc'[p].dev = k
    BY <1>0, <2>1, <2>2, MapFields
  <2> QED BY <1>0, <2>1, <2>3
<1>3. ASSUME NEW p \in Procs, Unmap(p), device'[n] # device[n]
      PROVE  proc[p].made /\ proc[p].dev = n /\ ~proc'[p].made /\ device'[n] = Free
  <2>1. /\ Mapped(p, 0, FALSE) /\ proc[p].made
        /\ device' = [device EXCEPT ![proc[p].dev] = Free]
    BY <1>3 DEF Unmap, Unmapped, Mapped
  <2>2. proc[p].at = 7
    BY <1>0, <1>3, PlanSteps DEF Unmap
  <2>3. proc[p].at \in 0..10 /\ 0 \in 0..MaxDevice
    BY <2>2, StagingAssumption
  <2>4. proc'[p].made = FALSE
    BY <1>0, <2>1, <2>3, MapFields
  <2>5. proc[p].dev = n /\ device'[n] = Free
    BY <1>0, <1>3, <2>1
  <2> QED BY <2>1, <2>4, <2>5
<1>4. \/ UNCHANGED device
      \/ \E p \in Procs : MapNew(p)
      \/ \E p \in Procs : Unmap(p)
  BY DEF Next, Begin, Check, BeginCopy, EndCopy, MapExisting, Run, LoseSession, UnmapFails,
         RemoveFile, Save, Die, ReadMeta, HashPayload, Open, Write, WriterDies
<1> QED BY <1>1, <1>2, <1>3, <1>4

LEMMA StepMade ==
  ASSUME TypeInv, MadeInv, [Next]_vars
  PROVE  MadeInv'
<1>1. CASE UNCHANGED vars
  BY <1>1 DEF vars, MadeInv
<1>2. SUFFICES ASSUME Next, NEW p \in Procs, proc'[p].made
               PROVE  /\ proc'[p].at \in 6..7
                      /\ device'[proc'[p].dev].owner = "hv2pve"
                      /\ \A q \in Procs : proc'[q].made /\ proc'[q].dev = proc'[p].dev => q = p
  BY <1>1 DEF MadeInv
<1>0. /\ TypeOK /\ proc \in [Procs -> ProcType]
      /\ \A r \in Procs : proc[r].dev \in 0..MaxDevice
      /\ device \in [0..MaxDevice -> [volume : Disks \cup {None}, owner : {None, "pve", "hv2pve"}]]
      /\ Free.owner # "hv2pve"
  BY Typed, StagingAssumption DEF TypeInv, TypeOK, Free
<1>3. ASSUME NEW r \in Procs, MapNew(r)
      PROVE  /\ proc'[r].at = 6 /\ proc'[r].dev \in 0..MaxDevice
             /\ device[proc'[r].dev] = Free /\ device'[proc'[r].dev].owner = "hv2pve"
             /\ \A q \in Procs : q # r => proc'[q] = proc[q]
  <2>1. PICK k \in 0..MaxDevice :
           /\ device[k] = Free /\ proc[r].at = 5
           /\ device' = [device EXCEPT ![k] = [volume |-> proc[r].disk, owner |-> "hv2pve"]]
           /\ Mapped(r, k, TRUE)
    BY <1>3, MapNewFields
  <2>2. proc[r].at \in 0..10
    BY <2>1
  <2>3. proc'[r].dev = k /\ proc'[r].at = 6 /\ \A q \in Procs : q # r => proc'[q] = proc[q]
    <3>1. /\ proc'[r].dev = k /\ proc'[r].at = proc[r].at + 1
          /\ \A q \in Procs : q # r => proc'[q] = proc[q]
      BY <1>0, <2>1, <2>2, MapFields, Zenon
    <3> QED BY <2>1, <3>1
  <2>4. device'[k].owner = "hv2pve"
    BY <1>0, <2>1
  <2> QED BY <2>1, <2>3, <2>4
<1>4. ASSUME NEW r \in Procs, proc[r].made, proc'[r].dev = proc[r].dev
      PROVE  device[proc'[r].dev].owner = "hv2pve" /\ device[proc'[r].dev] # Free
  BY <1>0, <1>4 DEF MadeInv
<1>5. CASE MapNew(p)
  <2>1. ASSUME NEW q \in Procs, proc'[q].made, proc'[q].dev = proc'[p].dev, q # p
        PROVE  FALSE
    <3>1. proc'[q] = proc[q]
      BY <1>3, <1>5, <2>1
    <3> QED BY <1>3, <1>4, <1>5, <2>1, <3>1
  <2>2. proc'[p].at \in 6..7
    BY <1>3, <1>5
  <2> QED BY <1>3, <1>5, <2>1, <2>2
<1>6. CASE proc[p].made /\ proc'[p].dev = proc[p].dev /\ proc'[p].at \in 6..7
  <2>1. device[proc[p].dev].owner = "hv2pve" /\ device[proc[p].dev] # Free
    BY <1>4, <1>6
  <2>2. device'[proc[p].dev].owner = "hv2pve"
    <3>1. ASSUME NEW r \in Procs, proc[r].made, proc[r].dev = proc[p].dev, ~proc'[r].made
          PROVE  FALSE
      BY <1>2, <1>6, <3>1 DEF MadeInv
    <3>2. proc[p].dev \in 0..MaxDevice
      BY <1>0
    <3>3. ASSUME NEW r \in Procs, MapNew(r), proc'[r].dev = proc[p].dev
          PROVE  device'[proc[p].dev].owner = "hv2pve"
      BY <1>3, <3>3
    <3>4. \A n \in 0..MaxDevice :
            \/ device'[n] = device[n]
            \/ \E r \in Procs : MapNew(r) /\ proc'[r].dev = n
            \/ \E r \in Procs : proc[r].made /\ proc[r].dev = n /\ ~proc'[r].made
      BY <1>2, DeviceStep
    <3> QED BY <2>1, <3>1, <3>2, <3>3, <3>4
  <2>3. ASSUME NEW q \in Procs, proc'[q].made, proc'[q].dev = proc'[p].dev
        PROVE  q = p
    <3>1. CASE MapNew(q)
      BY <1>3, <1>6, <2>1, <2>3, <3>1
    <3>2. CASE proc[q].made /\ proc'[q].dev = proc[q].dev
      BY <1>6, <2>3, <3>2 DEF MadeInv
    <3> QED BY <1>2, <2>3, <3>1, <3>2, MadeStep
  <2> QED BY <1>6, <2>2, <2>3
<1> QED BY <1>2, <1>5, <1>6, MadeStep

\* A mapping that Proxmox made is never unmapped: an invocation unmaps the number
\* of a mapping it made itself, and that number is still its own.
THEOREM StagingForeignKept == Spec => ForeignMappingKept
<1>1. Init => TypeInv /\ MadeInv
  <2>1. Init => MadeInv
    BY DEF Init, Idle, MadeInv
  <2> QED BY <2>1, InitTypes
<1>2. TypeInv /\ MadeInv /\ [Next]_vars => TypeInv' /\ MadeInv'
  BY StepTypes, StepMade
<1>3. TypeInv /\ MadeInv /\ [Next]_vars =>
        [\A n \in 0..MaxDevice : device[n].owner = "pve" => device'[n] = device[n]]_vars
  <2> SUFFICES ASSUME TypeInv, MadeInv, Next, NEW n \in 0..MaxDevice, device[n].owner = "pve"
               PROVE  device'[n] = device[n]
    BY DEF vars
  <2>1. device[n] # Free
    BY StagingAssumption DEF Free
  <2>2. \A p \in Procs : proc[p].made => proc[p].dev # n
    BY DEF MadeInv
  <2> QED BY <2>1, <2>2, DeviceStep
<1> QED BY <1>1, <1>2, <1>3, PTL DEF Spec, ForeignMappingKept

(* ------------------------- disks reported a success ------------------------ *)

\* What a step of an invocation leaves of the scripts: they keep their fields, but
\* for the invocation and for the content of a payload whose name is gone, and
\* find no other disk under the names than the one they work on.
LEMMA ScriptsKept ==
  ASSUME TypeInv, SpoilInv, OneByOne, NEW p \in Procs, Busy(p),
         \A w \in Writers :
           /\ writer'[w].at = writer[w].at /\ writer'[w].disk = writer[w].disk
           /\ writer'[w].dev = writer[w].dev /\ writer'[w].meta = writer[w].meta
           /\ writer'[w].volume = writer[w].volume /\ writer'[w].todo = writer[w].todo
           /\ writer'[w].boss \in {writer[w].boss, None}
           /\ \/ writer'[w].source = writer[w].source
              \/ writer'[w].source = proc[p].disk /\ writer[w].at = "write",
         proc'[p].at # 0 => proc'[p].disk = proc[p].disk,
         staged'["meta"] \in {staged["meta"], proc[p].disk, Partial, None},
         staged'["payload"] \in {staged["payload"], proc[p].disk, Partial, None},
         \A w \in Writers :
           writer[w].at = "write" /\ writer'[w].source = None => staged'["payload"] # None,
         \A n \in 0..MaxDevice :
           device'[n] \in {device[n], Free} \/ device'[n].volume = proc[p].disk,
         disk' = disk,
         \/ reported' = reported
         \/ /\ reported' = reported \cup {proc[p].disk} /\ AllNew(proc[p].disk)
            /\ staged'["payload"] = None
  PROVE  ScriptInv' /\ PayloadInv' /\ SuccessExact'
<1>0. /\ \A q \in Procs : q = p
      /\ proc[p].disk \in Disks /\ proc[p].disk \notin reported
      /\ \A w \in Writers : writer[w].dev \in 0..MaxDevice
  BY DEF OneByOne, TypeInv, TypeOK, SpoilInv, StageInv, Stage
<1>1. ASSUME NEW w \in Writers, Alive(w)
      PROVE  /\ writer[w].disk = proc[p].disk
             /\ writer[w].disk \notin reported
             /\ staged["meta"] \in {proc[p].disk, Partial, None}
             /\ staged["payload"] \in {proc[p].disk, Partial, None}
             /\ writer[w].at # "write" =>
                  device[writer[w].dev] = Free \/ device[writer[w].dev].volume = proc[p].disk
             /\ writer[w].at # "read" => writer[w].meta = proc[p].disk
  <2>1. writer[w].disk = proc[p].disk
    BY <1>1 DEF SpoilInv, ScriptInv
  <2> QED BY <1>0, <1>1, <2>1 DEF SpoilInv, ScriptInv
<1>2. ScriptInv'
  <2> SUFFICES ASSUME NEW w \in Writers, writer[w].at # "none"
               PROVE  LET d == writer'[w].disk
                      IN /\ d \in Disks
                         /\ \A q \in Procs : proc'[q].at # 0 => proc'[q].disk = d
                         /\ \A v \in Writers : writer'[v].at # "none" => writer'[v].disk = d
                         /\ staged'["meta"] \in {d, Partial, None}
                         /\ staged'["payload"] \in {d, Partial, None}
                         /\ d \in reported' => staged'["payload"] = None
                         /\ writer'[w].at # "write" =>
                              device'[writer'[w].dev] = Free \/ device'[writer'[w].dev].volume = d
                         /\ writer'[w].at # "read" => writer'[w].meta = d
    BY DEF ScriptInv, Alive, Busy
  <2>1. /\ writer'[w].disk = proc[p].disk
        /\ \A v \in Writers : writer'[v].at # "none" => writer'[v].disk = proc[p].disk
    BY <1>1 DEF Alive
  <2>2. \A q \in Procs : proc'[q].at # 0 => proc'[q].disk = proc[p].disk
    BY <1>0
  <2>3. /\ staged'["meta"] \in {proc[p].disk, Partial, None}
        /\ staged'["payload"] \in {proc[p].disk, Partial, None}
    BY <1>1 DEF Alive
  <2>4. writer'[w].disk \in reported' => staged'["payload"] = None
    BY <1>0, <1>1, <2>1 DEF Alive
  <2>5. writer'[w].at # "write" =>
          device'[writer'[w].dev] = Free \/ device'[writer'[w].dev].volume = proc[p].disk
    BY <1>0, <1>1 DEF Alive
  <2>6. writer'[w].at # "read" => writer'[w].meta = proc[p].disk
    BY <1>1 DEF Alive
  <2> QED BY <1>0, <2>1, <2>2, <2>3, <2>4, <2>5, <2>6
<1>3. PayloadInv'
  <2> SUFFICES ASSUME NEW w \in Writers
               PROVE  /\ writer'[w].at # "write" => writer'[w].source = None
                      /\ writer'[w].at = "write" =>
                           LET d == writer'[w].disk
                           IN /\ writer'[w].volume = d
                              /\ writer'[w].source \in {d, None}
                              /\ writer'[w].source = None => staged'["payload"] # None
                              /\ writer'[w].boss # None =>
                                   \A b \in Blocks \ writer'[w].todo : disk'[d][b] = "new"
    BY DEF PayloadInv
  <2>1. CASE writer[w].at # "write"
    BY <2>1 DEF SpoilInv, PayloadInv
  <2>2. CASE writer[w].at = "write"
    <3>1. writer[w].disk = proc[p].disk
      BY <1>1, <2>2 DEF Alive
    <3>2. /\ writer[w].volume = writer[w].disk /\ writer[w].source \in {writer[w].disk, None}
          /\ writer[w].boss # None =>
               \A b \in Blocks \ writer[w].todo : disk[writer[w].disk][b] = "new"
      BY <2>2 DEF SpoilInv, PayloadInv
    <3> QED BY <2>2, <3>1, <3>2
  <2> QED BY <2>1, <2>2
<1>4. SuccessExact'
  BY DEF SpoilInv, SuccessExact, AllNew
<1> QED BY <1>2, <1>3, <1>4

\* The same for a step that leaves the files and the blocks alone.
LEMMA QuietStep ==
  ASSUME TypeInv, SpoilInv, OneByOne, NEW p \in Procs, Busy(p),
         writer' = writer \/ Left(p),
         proc'[p].at # 0 => proc'[p].disk = proc[p].disk,
         UNCHANGED <<staged, disk, reported>>,
         \A n \in 0..MaxDevice :
           device'[n] \in {device[n], Free} \/ device'[n].volume = proc[p].disk
  PROVE  ScriptInv' /\ PayloadInv' /\ SuccessExact'
<1>1. \A w \in Writers :
        /\ writer'[w].at = writer[w].at /\ writer'[w].disk = writer[w].disk
        /\ writer'[w].dev = writer[w].dev /\ writer'[w].meta = writer[w].meta
        /\ writer'[w].volume = writer[w].volume /\ writer'[w].todo = writer[w].todo
        /\ writer'[w].boss \in {writer[w].boss, None}
        /\ writer'[w].source = writer[w].source
  BY LeftTypes DEF TypeInv
<1>2. \A w \in Writers :
        writer[w].at = "write" /\ writer'[w].source = None => staged'["payload"] # None
  BY <1>1 DEF SpoilInv, PayloadInv
<1> QED BY <1>1, <1>2, ScriptsKept

\* The steps of an invocation that change neither the files nor a block.
LEMMA CommandSpoils ==
  ASSUME TypeInv, SpoilInv, OneByOne, NEW p \in Procs,
         Check(p) \/ MapExisting(p) \/ MapNew(p) \/ LoseSession(p) \/ Unmap(p)
           \/ UnmapFails(p) \/ Die(p)
  PROVE  SpoilInv'
<1>0. /\ TypeOK /\ proc \in [Procs -> ProcType]
      /\ \A q \in Procs : q = p
      /\ 0 \in 0..MaxDevice /\ Free.volume = None
      /\ device \in [0..MaxDevice -> [volume : Disks \cup {None}, owner : {None, "pve", "hv2pve"}]]
      /\ proc[p].at \in 0..11 /\ proc[p].half \in BOOLEAN
      /\ proc[p].disk \in Disks \cup {None}
  BY Typed, StagingAssumption, PlanLength DEF TypeInv, TypeOK, OneByOne, Free
<1>1. Busy(p)
  BY <1>0 DEF Check, MapExisting, MapNew, LoseSession, Unmap, UnmapFails, Die, At
<1>2. Stage(p)
  BY DEF SpoilInv, StageInv
<1>3. ASSUME Stage(p)', ScriptInv' /\ PayloadInv' /\ SuccessExact'
      PROVE  SpoilInv'
  BY <1>0, <1>3 DEF SpoilInv, StageInv
<1>4. CASE Check(p)
  <2>1. proc[p].at = 1
    BY <1>0, <1>4, PlanSteps DEF Check
  <2>2. Advance(p) /\ UNCHANGED <<writer, staged, device, disk, reported>>
    BY <1>4 DEF Check
  <2>3. proc[p].at \in 0..10
    BY <2>1
  <2>4. proc'[p].at = 2 /\ proc'[p].disk = proc[p].disk /\ proc'[p].half = proc[p].half
        /\ proc'[p].ok = proc[p].ok
    BY <1>0, <2>1, <2>2, <2>3, AdvanceFields
  <2>5. Stage(p)'
    BY <1>1, <1>2, <2>1, <2>2, <2>4 DEF Stage, Busy
  <2> QED BY <1>1, <1>3, <2>2, <2>4, <2>5, QuietStep
<1>5. CASE MapExisting(p)
  <2>1. proc[p].at = 5
    BY <1>0, <1>5, PlanSteps DEF MapExisting
  <2>2. PICK n \in 0..MaxDevice : /\ device[n].volume = proc[p].disk /\ Mapped(p, n, FALSE)
                                  /\ UNCHANGED <<writer, staged, device, disk, reported>>
    BY <1>5 DEF MapExisting, Mapped
  <2>3. proc[p].at \in 0..10
    BY <2>1
  <2>4. proc'[p].at = 6 /\ proc'[p].disk = proc[p].disk /\ proc'[p].half = proc[p].half
        /\ proc'[p].ok = proc[p].ok /\ proc'[p].dev = n
    <3>1. /\ proc'[p].at = proc[p].at + 1 /\ proc'[p].disk = proc[p].disk
          /\ proc'[p].half = proc[p].half /\ proc'[p].ok = proc[p].ok /\ proc'[p].dev = n
      BY <1>0, <2>2, <2>3, MapFields, Zenon
    <3> QED BY <2>1, <3>1
  <2>5. Stage(p)'
    BY <1>1, <1>2, <2>1, <2>2, <2>4 DEF Stage, Busy
  <2> QED BY <1>1, <1>3, <2>2, <2>4, <2>5, QuietStep
<1>6. CASE MapNew(p)
  <2>1. PICK n \in 0..MaxDevice :
           /\ device[n] = Free /\ proc[p].at = 5
           /\ device' = [device EXCEPT ![n] = [volume |-> proc[p].disk, owner |-> "hv2pve"]]
           /\ Mapped(p, n, TRUE) /\ UNCHANGED <<writer, staged, disk, reported>>
    BY <1>6, MapNewFields
  <2>2. proc[p].at \in 0..10
    BY <2>1
  <2>3. proc'[p].at = 6 /\ proc'[p].disk = proc[p].disk /\ proc'[p].half = proc[p].half
        /\ proc'[p].ok = proc[p].ok /\ proc'[p].dev = n
    <3>1. /\ proc'[p].at = proc[p].at + 1 /\ proc'[p].disk = proc[p].disk
          /\ proc'[p].half = proc[p].half /\ proc'[p].ok = proc[p].ok /\ proc'[p].dev = n
      BY <1>0, <2>1, <2>2, MapFields, Zenon
    <3> QED BY <2>1, <3>1
  <2>4. device'[n].volume = proc[p].disk /\ \A k \in 0..MaxDevice : k # n => device'[k] = device[k]
    BY <1>0, <2>1
  <2>5. Stage(p)'
    BY <1>1, <1>2, <2>1, <2>3, <2>4 DEF Stage, Busy, AllNew
  <2> QED BY <1>1, <1>3, <2>1, <2>3, <2>4, <2>5, QuietStep
<1>7. CASE LoseSession(p)
  <2>1. proc[p].at = 6
    BY <1>0, <1>7, PlanSteps DEF LoseSession
  <2>2. Advance(p) /\ Left(p) /\ UNCHANGED <<staged, device, disk, reported>>
    BY <1>7 DEF LoseSession, Left
  <2>3. proc[p].at \in 0..10
    BY <2>1
  <2>4. proc'[p].at = 7 /\ proc'[p].disk = proc[p].disk /\ proc'[p].half = proc[p].half
        /\ proc'[p].ok = proc[p].ok
    BY <1>0, <2>1, <2>2, <2>3, AdvanceFields
  <2>5. Stage(p)'
    BY <1>1, <1>2, <2>1, <2>2, <2>4 DEF Stage, Busy
  <2> QED BY <1>1, <1>3, <2>2, <2>4, <2>5, QuietStep
<1>8. CASE Unmap(p) \/ UnmapFails(p)
  <2>1. proc[p].at = 7
    BY <1>0, <1>8, PlanSteps DEF Unmap, UnmapFails
  <2>2. /\ Mapped(p, 0, FALSE)
        /\ device' = device \/ device' = [device EXCEPT ![proc[p].dev] = Free]
        /\ UNCHANGED <<writer, staged, disk, reported>>
    BY <1>8 DEF Unmap, UnmapFails, Unmapped, Mapped
  <2>3. proc[p].at \in 0..10
    BY <2>1
  <2>4. proc'[p].at = 8 /\ proc'[p].disk = proc[p].disk /\ proc'[p].half = proc[p].half
        /\ proc'[p].ok = proc[p].ok
    <3>1. Mapped(p, 0, FALSE) /\ 0 \in 0..MaxDevice
      BY <1>0, <2>2
    <3>2. /\ proc'[p].at = proc[p].at + 1 /\ proc'[p].disk = proc[p].disk
          /\ proc'[p].half = proc[p].half /\ proc'[p].ok = proc[p].ok
      BY <1>0, <2>3, <3>1, MapFields, Zenon
    <3> QED BY <2>1, <3>2
  <2>5. \A n \in 0..MaxDevice : device'[n] \in {device[n], Free}
    BY <1>0, <2>2
  <2>6. UNCHANGED <<writer, staged, disk, reported>>
    BY <2>2
  <2>7. Stage(p)'
    BY <1>1, <1>2, <2>1, <2>4, <2>6 DEF Stage, Busy, AllNew
  <2> QED BY <1>1, <1>3, <2>4, <2>5, <2>6, <2>7, QuietStep
<1>9. CASE Die(p)
  <2>1. Exit(p) /\ Left(p) /\ UNCHANGED <<staged, device, disk, reported>>
    BY <1>9 DEF Die, Left
  <2>2. proc'[p].at = 0
    BY <1>0, <2>1, ExitFields
  <2>3. Stage(p)'
    BY <2>2 DEF Stage, Busy
  <2> QED BY <1>1, <1>3, <2>1, <2>2, <2>3, QuietStep
<1> QED BY <1>4, <1>5, <1>6, <1>7, <1>8, <1>9

LEMMA BeginSpoils ==
  ASSUME TypeInv, SpoilInv, OneByOne, NEW p \in Procs, NEW d \in Disks, Begin(p, d)
  PROVE  SpoilInv'
<1>0. TypeOK /\ proc \in [Procs -> ProcType] /\ \A q \in Procs : q = p
  BY Typed DEF TypeInv, OneByOne
<1>1. /\ d \notin reported /\ \A w \in Writers : Alive(w) => writer[w].disk = d
      /\ UNCHANGED <<writer, staged, device, disk, reported>>
  BY DEF Begin, OneByOne
<1>2. /\ proc'[p].at = 1 /\ proc'[p].disk = d /\ proc'[p].half = FALSE /\ proc'[p].ok = FALSE
  BY <1>0, BeginFields DEF Begin
<1>3. Stage(p)'
  BY <1>1, <1>2 DEF Stage
<1>4. StageInv'
  BY <1>0, <1>3 DEF StageInv
<1>5. ScriptInv'
  BY <1>0, <1>1, <1>2 DEF SpoilInv, ScriptInv, Alive
<1>6. PayloadInv' /\ SuccessExact'
  BY <1>1 DEF SpoilInv, PayloadInv, SuccessExact
<1> QED BY <1>4, <1>5, <1>6 DEF SpoilInv

\* A copy puts only the bundle of the own disk under a name, which is there until it
\* is removed.
LEMMA CopySpoils ==
  ASSUME TypeInv, SpoilInv, OneByOne, NEW p \in Procs, BeginCopy(p) \/ EndCopy(p)
  PROVE  SpoilInv'
<1>0. /\ TypeOK /\ proc \in [Procs -> ProcType] /\ \A q \in Procs : q = p
      /\ staged \in [Files -> Disks \cup {None, Partial, "script"}]
      /\ CopyAt["meta"] = 2 /\ CopyAt["payload"] = 3 /\ CopyAt["script"] = 4
  BY Typed DEF TypeInv, TypeOK, OneByOne, CopyAt
<1>1. \A d : Content("meta", d) = d /\ Content("payload", d) = d
  BY DEF Content
<1>2. Stage(p) /\ \A w \in Writers :
        writer[w].at = "write" /\ writer[w].source = None => staged["payload"] # None
  BY DEF SpoilInv, StageInv, PayloadInv
<1>3. ASSUME Busy(p), UNCHANGED <<writer, device, disk, reported>>,
             proc'[p].disk = proc[p].disk,
             staged'["meta"] \in {staged["meta"], proc[p].disk, Partial},
             staged'["payload"] \in {staged["payload"], proc[p].disk, Partial},
             Stage(p)'
      PROVE  SpoilInv'
  <2>1. proc[p].disk # None /\ Partial # None
    BY <1>2, <1>3, StagingAssumption DEF Stage
  <2>2. \A w \in Writers :
          writer[w].at = "write" /\ writer'[w].source = None => staged'["payload"] # None
    BY <1>2, <1>3, <2>1
  <2>3. ScriptInv' /\ PayloadInv' /\ SuccessExact'
    BY <1>3, <2>2, ScriptsKept
  <2> QED BY <1>0, <1>3, <2>3 DEF SpoilInv, StageInv
<1>4. CASE BeginCopy(p)
  <2>1. PICK f \in Files :
           /\ proc[p].at = CopyAt[f] /\ ~proc[p].half
           /\ staged' = [staged EXCEPT ![f] = IF @ = Content(f, proc[p].disk) THEN @ ELSE Partial]
           /\ proc' = [proc EXCEPT ![p].half = TRUE]
           /\ UNCHANGED <<writer, device, disk, reported>>
    BY <1>0, <1>4, BeginCopyStep
  <2>2. /\ proc'[p].at = proc[p].at /\ proc'[p].disk = proc[p].disk
        /\ proc'[p].ok = proc[p].ok /\ proc'[p].dev = proc[p].dev
    BY <1>0, <2>1 DEF ProcType
  <2>3. /\ staged'["meta"] = IF f # "meta" \/ staged["meta"] = proc[p].disk
                              THEN staged["meta"] ELSE Partial
        /\ staged'["payload"] = IF f # "payload" \/ staged["payload"] = proc[p].disk
                                 THEN staged["payload"] ELSE Partial
    BY <1>0, <1>1, <2>1 DEF Files
  <2>4. /\ proc[p].at \in 2..4 /\ UNCHANGED <<writer, device, disk, reported>>
        /\ f = "meta" <=> proc[p].at = 2
        /\ f = "payload" <=> proc[p].at = 3
    BY <1>0, <2>1 DEF Files
  <2>5. Stage(p)'
    BY <1>2, <2>2, <2>3, <2>4, StagingAssumption DEF Stage, Busy
  <2> QED BY <1>3, <2>2, <2>3, <2>4, <2>5 DEF Busy
<1>5. CASE EndCopy(p)
  <2>1. PICK f \in Files :
           /\ proc[p].at = CopyAt[f] /\ proc[p].half
           /\ staged' = [staged EXCEPT ![f] = IF @ = None THEN @ ELSE Content(f, proc[p].disk)]
           /\ Copied(p)
           /\ UNCHANGED <<writer, device, disk, reported>>
    BY <1>0, <1>5, EndCopyStep DEF Copied
  <2>2. /\ proc[p].at \in 2..4 /\ UNCHANGED <<writer, device, disk, reported>> /\ proc[p].half
        /\ f = "meta" <=> proc[p].at = 2
        /\ f = "payload" <=> proc[p].at = 3
    BY <1>0, <2>1 DEF Files
  <2>3. /\ proc'[p].at = proc[p].at + 1 /\ proc'[p].half = FALSE
        /\ proc'[p].disk = proc[p].disk /\ proc'[p].ok = proc[p].ok
    <3>1. proc[p].at \in 0..10 /\ Copied(p)
      BY <2>1, <2>2
    <3> QED BY <1>0, <3>1, EndCopyFields
  <2>4. /\ staged'["meta"] = IF f # "meta" \/ staged["meta"] = None THEN staged["meta"] ELSE proc[p].disk
        /\ staged'["payload"] =
             IF f # "payload" \/ staged["payload"] = None THEN staged["payload"] ELSE proc[p].disk
    BY <1>0, <1>1, <2>1 DEF Files
  <2>5. Stage(p)'
    <3>1. CASE proc[p].at = 2
      BY <1>2, <2>2, <2>3, <2>4, <3>1 DEF Stage, Busy
    <3>2. CASE proc[p].at = 3
      BY <1>2, <2>2, <2>3, <2>4, <3>2 DEF Stage, Busy
    <3>3. CASE proc[p].at = 4
      BY <1>2, <2>2, <2>3, <2>4, <3>3 DEF Stage, Busy
    <3> QED BY <2>2, <3>1, <3>2, <3>3
  <2> QED BY <1>3, <2>2, <2>3, <2>4, <2>5 DEF Busy
<1> QED BY <1>4, <1>5

LEMMA RunSpoils ==
  ASSUME TypeInv, SpoilInv, OneByOne, NEW p \in Procs, Run(p)
  PROVE  SpoilInv'
<1>0. /\ TypeOK /\ \A q \in Procs : q = p
      /\ writer \in [Writers -> WriterType]
  BY Typed DEF TypeInv, OneByOne
<1>1. proc[p].at = 6 /\ Stage(p) /\ UNCHANGED <<staged, device, disk, reported>>
  BY <1>0, PlanSteps DEF Run, SpoilInv, StageInv
<1>2. CASE Advance(p) /\ UNCHANGED writer
  <2>1. proc[p].at \in 0..10
    BY <1>1
  <2>2. proc'[p].at = 7 /\ proc'[p].disk = proc[p].disk /\ proc'[p].half = proc[p].half
        /\ proc'[p].ok = proc[p].ok
    BY <1>0, <1>1, <1>2, <2>1, AdvanceFields
  <2>3. Stage(p)'
    BY <1>1, <2>2 DEF Stage, Busy
  <2>4. ScriptInv' /\ PayloadInv' /\ SuccessExact'
    BY <1>1, <1>2, <2>2, QuietStep DEF Busy
  <2> QED BY <1>0, <2>3, <2>4 DEF SpoilInv, StageInv
<1>3. ASSUME NEW w \in Writers, ~Alive(w), writer' = [writer EXCEPT ![w] = Started(p)], UNCHANGED proc
      PROVE  SpoilInv'
  <2>1. /\ writer'[w].at = "read" /\ writer'[w].disk = proc[p].disk
        /\ writer'[w].dev = proc[p].dev /\ writer'[w].source = None
        /\ \A v \in Writers : v # w => writer'[v] = writer[v]
    BY <1>0, <1>3, RunFields
  <2>2. /\ proc[p].disk \in Disks /\ proc[p].disk \notin reported
        /\ staged["meta"] = proc[p].disk /\ staged["payload"] = proc[p].disk
        /\ device[proc[p].dev].volume = proc[p].disk
    BY <1>1 DEF Stage, Busy
  <2>3. \A v \in Writers : Alive(v) => writer[v].disk = proc[p].disk
    BY <1>1 DEF SpoilInv, ScriptInv, Busy
  <2>4. \A v \in Writers : writer'[v].at # "none" => writer'[v].disk = proc[p].disk
    BY <2>1, <2>3 DEF Alive
  <2>5. ScriptInv'
    <3> SUFFICES ASSUME NEW v \in Writers, writer'[v].at # "none"
                 PROVE  LET d == writer'[v].disk
                        IN /\ d \in Disks
                           /\ \A q \in Procs : proc'[q].at # 0 => proc'[q].disk = d
                           /\ \A u \in Writers : writer'[u].at # "none" => writer'[u].disk = d
                           /\ staged'["meta"] \in {d, Partial, None}
                           /\ staged'["payload"] \in {d, Partial, None}
                           /\ d \in reported' => staged'["payload"] = None
                           /\ writer'[v].at # "write" =>
                                device'[writer'[v].dev] = Free \/ device'[writer'[v].dev].volume = d
                           /\ writer'[v].at # "read" => writer'[v].meta = d
      BY DEF ScriptInv, Alive, Busy
    <3>1. /\ writer'[v].at # "write" => device'[writer'[v].dev] = Free
                                        \/ device'[writer'[v].dev].volume = proc[p].disk
          /\ writer'[v].at # "read" => writer'[v].meta = proc[p].disk
      <4>1. CASE v = w BY <1>1, <2>1, <2>2, <4>1
      <4>2. CASE v # w BY <1>1, <2>1, <2>3, <4>2 DEF SpoilInv, ScriptInv, Alive
      <4> QED BY <4>1, <4>2
    <3>2. \A q \in Procs : proc'[q].disk = proc[p].disk
      BY <1>0, <1>3
    <3> QED BY <1>1, <2>2, <2>4, <3>1, <3>2
  <2>6. PayloadInv'
    BY <1>1, <2>1 DEF SpoilInv, PayloadInv
  <2>7. StageInv' /\ SuccessExact'
    BY <1>1, <1>3 DEF SpoilInv, StageInv, Stage, SuccessExact, AllNew, Busy
  <2> QED BY <2>5, <2>6, <2>7 DEF SpoilInv
<1> QED BY <1>2, <1>3 DEF Run, Started

\* A removal leaves a script that writes the payload it has open, the own disk's.
LEMMA RemovalSpoils ==
  ASSUME TypeInv, SpoilInv, OneByOne, NEW p \in Procs, RemoveFile(p)
  PROVE  SpoilInv'
<1>0. /\ TypeOK /\ writer \in [Writers -> WriterType] /\ \A q \in Procs : q = p
      /\ staged \in [Files -> Disks \cup {None, Partial, "script"}]
      /\ RemoveAt["meta"] = 8 /\ RemoveAt["payload"] = 9 /\ RemoveAt["script"] = 10
  BY Typed DEF TypeInv, TypeOK, OneByOne, RemoveAt
<1>1. PICK f \in Files :
         /\ proc[p].at = RemoveAt[f]
         /\ staged' = [staged EXCEPT ![f] = None]
         /\ writer' = [w \in Writers |->
              IF f = "payload" /\ writer[w].at = "write" /\ writer[w].source = None
                THEN [writer[w] EXCEPT !.source = staged["payload"]] ELSE writer[w]]
         /\ IF f = "script" /\ ~proc[p].ok THEN Exit(p) ELSE Advance(p)
         /\ UNCHANGED <<device, disk, reported>>
  BY <1>0, RemoveFileStep
<1>2. /\ proc[p].at \in 8..10 /\ UNCHANGED <<device, disk, reported>>
      /\ f = "meta" <=> proc[p].at = 8
      /\ f = "payload" <=> proc[p].at = 9
      /\ f = "script" <=> proc[p].at = 10
  BY <1>0, <1>1 DEF Files
<1>3. \A g \in Files : staged'[g] = IF g = f THEN None ELSE staged[g]
  BY <1>0, <1>1
<1>4. Stage(p) /\ \A w \in Writers :
        writer[w].at = "write" /\ writer[w].source = None => staged["payload"] # None
  BY DEF SpoilInv, StageInv, PayloadInv
<1>5. ASSUME NEW w \in Writers
      PROVE  /\ writer'[w].at = writer[w].at /\ writer'[w].disk = writer[w].disk
             /\ writer'[w].dev = writer[w].dev /\ writer'[w].meta = writer[w].meta
             /\ writer'[w].volume = writer[w].volume /\ writer'[w].todo = writer[w].todo
             /\ writer'[w].boss = writer[w].boss
             /\ writer'[w].source = IF f = "payload" /\ writer[w].at = "write" /\ writer[w].source = None
                                    THEN staged["payload"] ELSE writer[w].source
  <2> DEFINE r == [writer[w] EXCEPT !.source = staged["payload"]]
  <2>1. writer'[w] = IF f = "payload" /\ writer[w].at = "write" /\ writer[w].source = None
                       THEN r ELSE writer[w]
    BY <1>1
  <2>2. writer[w] \in WriterType
    BY <1>0
  <2>3. /\ r.at = writer[w].at /\ r.disk = writer[w].disk
        /\ r.dev = writer[w].dev /\ r.meta = writer[w].meta
        /\ r.volume = writer[w].volume /\ r.todo = writer[w].todo
        /\ r.boss = writer[w].boss /\ r.source = staged["payload"]
    BY <2>2 DEF WriterType
  <2> HIDE DEF r
  <2> QED BY <2>1, <2>3
<1>6. staged["payload"] = proc[p].disk \/ f # "payload"
  BY <1>2, <1>4 DEF Stage, Busy
<1>7. proc[p].disk # None
  BY <1>2, <1>4, StagingAssumption DEF Stage, Busy
<1>8. proc'[p].at # 0 =>
        /\ proc'[p].at = proc[p].at + 1 /\ proc'[p].disk = proc[p].disk
        /\ proc'[p].half = proc[p].half /\ proc'[p].ok = proc[p].ok
        /\ f = "script" => proc[p].ok
  <2>1. CASE Exit(p)
    BY <1>0, <2>1, ExitFields
  <2>2. CASE Advance(p) /\ (f = "script" => proc[p].ok)
    <3>1. proc[p].at \in 0..10
      BY <1>2
    <3> QED BY <1>0, <2>2, <3>1, AdvanceFields
  <2> QED BY <1>1, <2>1, <2>2
<1>9. Stage(p)'
  <2> SUFFICES ASSUME proc'[p].at # 0 PROVE Stage(p)'
    BY DEF Stage, Busy
  <2>1. CASE proc[p].at = 8
    BY <1>2, <1>3, <1>4, <1>8, <2>1 DEF Stage, Busy, Files, AllNew
  <2>2. CASE proc[p].at = 9
    BY <1>2, <1>3, <1>4, <1>8, <2>2 DEF Stage, Busy, Files, AllNew
  <2>3. CASE proc[p].at = 10
    BY <1>2, <1>3, <1>4, <1>8, <2>3 DEF Stage, Busy, Files, AllNew
  <2> QED BY <1>2, <2>1, <2>2, <2>3
<1>10. \A w \in Writers :
         writer[w].at = "write" /\ writer'[w].source = None => staged'["payload"] # None
  BY <1>3, <1>4, <1>5, <1>6, <1>7 DEF Files
<1>11. ScriptInv' /\ PayloadInv' /\ SuccessExact'
  <2>1. /\ staged'["meta"] \in {staged["meta"], proc[p].disk, Partial, None}
        /\ staged'["payload"] \in {staged["payload"], proc[p].disk, Partial, None}
    BY <1>3 DEF Files
  <2>2. Busy(p)
    BY <1>2 DEF Busy
  <2>3. \A w \in Writers :
          /\ writer'[w].at = writer[w].at /\ writer'[w].disk = writer[w].disk
          /\ writer'[w].dev = writer[w].dev /\ writer'[w].meta = writer[w].meta
          /\ writer'[w].volume = writer[w].volume /\ writer'[w].todo = writer[w].todo
          /\ writer'[w].boss \in {writer[w].boss, None}
          /\ \/ writer'[w].source = writer[w].source
             \/ writer'[w].source = proc[p].disk /\ writer[w].at = "write"
    BY <1>5, <1>6
  <2>4. (proc'[p].at # 0 => proc'[p].disk = proc[p].disk) /\ UNCHANGED <<device, disk, reported>>
    BY <1>2, <1>8
  <2> HIDE DEF Busy
  <2> QED BY <1>10, <2>1, <2>2, <2>3, <2>4, ScriptsKept
<1> QED BY <1>0, <1>9, <1>11 DEF SpoilInv, StageInv

\* A success is reported when every block is new and the payload is removed.
LEMMA SaveSpoils ==
  ASSUME TypeInv, SpoilInv, OneByOne, NEW p \in Procs, Save(p)
  PROVE  SpoilInv'
<1>0. TypeOK /\ \A q \in Procs : q = p
  BY DEF TypeInv, OneByOne
<1>1. /\ proc[p].at = 11 /\ Exit(p) /\ reported' = reported \cup {proc[p].disk}
      /\ UNCHANGED <<writer, staged, device, disk>>
  BY <1>0, PlanSteps DEF Save
<1>2. staged["payload"] = None /\ AllNew(proc[p].disk) /\ Busy(p)
  BY <1>1 DEF SpoilInv, StageInv, Stage, Busy
<1>3. proc'[p].at = 0
  BY <1>0, <1>1, ExitFields
<1>4. Stage(p)'
  BY <1>3 DEF Stage, Busy
<1>5. \A w \in Writers :
        writer[w].at = "write" /\ writer'[w].source = None => staged'["payload"] # None
  BY <1>1 DEF SpoilInv, PayloadInv
<1>6. ScriptInv' /\ PayloadInv' /\ SuccessExact'
  BY <1>1, <1>2, <1>3, <1>5, ScriptsKept
<1> QED BY <1>0, <1>4, <1>6 DEF SpoilInv, StageInv

\* The disks whose new blocks must stay: those reported, that of an invocation whose
\* script succeeded, and that of a script whose status somebody waits for.
Protected(d) ==
  \/ d \in reported
  \/ \E p \in Procs : Busy(p) /\ proc[p].ok /\ proc[p].disk = d
  \/ \E w \in Writers : writer[w].boss # None /\ writer[w].disk = d

BlocksKept == \A d \in Disks : Protected(d) =>
                \A b \in Blocks : disk[d][b] = "new" => disk'[d][b] = "new"

\* A script that ends.
LEMMA EndSpoils ==
  ASSUME TypeInv, SpoilInv, OneByOne, NEW w \in Writers, NEW ok \in BOOLEAN, End(w, ok),
         UNCHANGED <<staged, device, reported>>, BlocksKept,
         ok => \A p \in Procs : writer[w].boss = p =>
                 \A b \in Blocks : disk'[proc[p].disk][b] = "new"
  PROVE  SpoilInv'
<1>0. /\ TypeOK /\ \A p \in Procs : writer[w].boss = p => proc[p].at = 6
      /\ writer \in [Writers -> WriterType]
      /\ \A p, q \in Procs : p = q
      /\ reported \subseteq Disks
  BY Typed, StagingAssumption DEF TypeInv, TypeOK, BossInv, OneByOne
<1>1. /\ \A v \in Writers : writer'[v] = IF v = w THEN NoWriter ELSE writer[v]
      /\ \A p \in Procs :
           IF writer[w].boss = p
             THEN /\ proc'[p].at = 7 /\ proc'[p].ok = ok
                  /\ proc'[p].dev = proc[p].dev /\ proc'[p].made = proc[p].made
                  /\ proc'[p].disk = proc[p].disk /\ proc'[p].half = proc[p].half
             ELSE proc'[p] = proc[p]
  <2>1. writer' = [writer EXCEPT ![w] = NoWriter]
    BY <1>0, EndFields
  <2> QED BY <1>0, <2>1, EndFields
<1>2. ASSUME NEW p \in Procs
      PROVE  Stage(p)'
  <2>1. Stage(p)
    BY DEF SpoilInv, StageInv
  <2>2. CASE writer[w].boss = p
    <3>1. /\ proc[p].at = 6 /\ proc'[p].at = 7 /\ proc'[p].ok = ok
          /\ proc'[p].disk = proc[p].disk /\ proc'[p].half = proc[p].half
      BY <1>0, <1>1, <2>2
    <3>2. ok => \A b \in Blocks : disk'[proc[p].disk][b] = "new"
      BY <2>2
    <3> QED BY <2>1, <3>1, <3>2 DEF Stage, Busy, AllNew
  <2>3. CASE writer[w].boss # p
    <3>1. proc'[p] = proc[p]
      BY <1>1, <2>3
    <3>2. Busy(p) /\ proc[p].ok => \A b \in Blocks : disk'[proc[p].disk][b] = "new"
      BY <2>1 DEF BlocksKept, Protected, Stage, AllNew
    <3> QED BY <2>1, <3>1, <3>2 DEF Stage, Busy, AllNew
  <2> QED BY <2>2, <2>3
<1>3. SuccessExact'
  BY <1>0 DEF SpoilInv, SuccessExact, BlocksKept, Protected
<1>4. \A v \in Writers : writer'[v].at # "none" => v # w /\ writer'[v] = writer[v]
  BY <1>1 DEF NoWriter
<1>5. ScriptInv'
  <2>1. \A p \in Procs : proc'[p].disk = proc[p].disk /\ (proc'[p].at # 0 => proc[p].at # 0)
    BY <1>0, <1>1
  <2> QED BY <1>4, <2>1 DEF SpoilInv, ScriptInv, Alive, Busy
<1>6. PayloadInv'
  <2> SUFFICES ASSUME NEW v \in Writers
               PROVE  /\ writer'[v].at # "write" => writer'[v].source = None
                      /\ writer'[v].at = "write" =>
                           LET d == writer'[v].disk
                           IN /\ writer'[v].volume = d
                              /\ writer'[v].source \in {d, None}
                              /\ writer'[v].source = None => staged'["payload"] # None
                              /\ writer'[v].boss # None =>
                                   \A b \in Blocks \ writer'[v].todo : disk'[d][b] = "new"
    BY DEF PayloadInv
  <2>1. CASE v = w
    BY <1>1, <2>1 DEF NoWriter
  <2>2. CASE v # w
    <3>1. writer'[v] = writer[v]
      BY <1>1, <2>2
    <3>2. writer[v].at = "write" /\ writer[v].boss # None =>
            \A b \in Blocks \ writer[v].todo : disk'[writer[v].disk][b] = "new"
      BY DEF SpoilInv, PayloadInv, ScriptInv, Alive, BlocksKept, Protected
    <3> QED BY <3>1, <3>2 DEF SpoilInv, PayloadInv
  <2> QED BY <2>1, <2>2
<1> QED BY <1>2, <1>3, <1>5, <1>6 DEF SpoilInv, StageInv

\* A script that goes on.
LEMMA GoOnSpoils ==
  ASSUME TypeInv, SpoilInv, OneByOne, NEW w \in Writers, Alive(w),
         proc' = proc, UNCHANGED <<staged, device, reported>>, BlocksKept,
         \A v \in Writers : v # w => writer'[v] = writer[v],
         writer'[w].disk = writer[w].disk, writer'[w].dev = writer[w].dev,
         writer'[w].meta = writer[w].disk, writer'[w].at \notin {"none", "read"},
         writer[w].at = "write" => writer'[w].at = "write",
         writer'[w].at # "write" => writer'[w].source = None,
         writer'[w].at = "write" =>
           /\ writer'[w].volume = writer[w].disk
           /\ writer'[w].source \in {writer[w].disk, None}
           /\ writer'[w].source = None => staged["payload"] # None
           /\ writer'[w].boss # None =>
                \A b \in Blocks \ writer'[w].todo : disk'[writer[w].disk][b] = "new"
  PROVE  SpoilInv'
<1>1. StageInv' /\ SuccessExact'
  <2>1. ASSUME NEW p \in Procs
        PROVE  Stage(p)'
    <3>1. Stage(p)
      BY DEF SpoilInv, StageInv
    <3>2. Busy(p) /\ proc[p].ok => \A b \in Blocks : disk'[proc[p].disk][b] = "new"
      BY <3>1 DEF BlocksKept, Protected, Stage, AllNew
    <3> QED BY <3>1, <3>2 DEF Stage, Busy, AllNew
  <2>2. reported \subseteq Disks
    BY DEF TypeInv, TypeOK
  <2>3. SuccessExact'
    BY <2>2 DEF SpoilInv, SuccessExact, BlocksKept, Protected
  <2> QED BY <2>1, <2>3 DEF StageInv
<1>2. \A v \in Writers : writer'[v].at # "none" =>
        Alive(v) /\ writer'[v].disk = writer[v].disk /\ writer'[v].dev = writer[v].dev
  BY DEF Alive
<1>3. ScriptInv'
  <2> SUFFICES ASSUME NEW v \in Writers, writer'[v].at # "none"
               PROVE  LET d == writer'[v].disk
                      IN /\ d \in Disks
                         /\ \A q \in Procs : proc'[q].at # 0 => proc'[q].disk = d
                         /\ \A u \in Writers : writer'[u].at # "none" => writer'[u].disk = d
                         /\ staged'["meta"] \in {d, Partial, None}
                         /\ staged'["payload"] \in {d, Partial, None}
                         /\ d \in reported' => staged'["payload"] = None
                         /\ writer'[v].at # "write" =>
                              device'[writer'[v].dev] = Free \/ device'[writer'[v].dev].volume = d
                         /\ writer'[v].at # "read" => writer'[v].meta = d
    BY DEF ScriptInv, Alive, Busy
  <2>1. writer'[v].at # "read" => writer'[v].meta = writer[v].disk
    BY <1>2 DEF SpoilInv, ScriptInv, Alive
  <2>2. writer'[v].at # "write" => writer[v].at # "write"
    OBVIOUS
  <2> QED BY <1>2, <2>1, <2>2 DEF SpoilInv, ScriptInv, Busy
<1>4. PayloadInv'
  <2> SUFFICES ASSUME NEW v \in Writers
               PROVE  /\ writer'[v].at # "write" => writer'[v].source = None
                      /\ writer'[v].at = "write" =>
                           LET d == writer'[v].disk
                           IN /\ writer'[v].volume = d
                              /\ writer'[v].source \in {d, None}
                              /\ writer'[v].source = None => staged'["payload"] # None
                              /\ writer'[v].boss # None =>
                                   \A b \in Blocks \ writer'[v].todo : disk'[d][b] = "new"
    BY DEF PayloadInv
  <2>1. CASE v = w
    BY <2>1
  <2>2. CASE v # w
    <3>1. writer'[v] = writer[v]
      BY <2>2
    <3>2. writer[v].at = "write" /\ writer[v].boss # None =>
            \A b \in Blocks \ writer[v].todo : disk'[writer[v].disk][b] = "new"
      BY DEF SpoilInv, PayloadInv, ScriptInv, Alive, BlocksKept, Protected
    <3> QED BY <3>1, <3>2 DEF SpoilInv, PayloadInv
  <2> QED BY <2>1, <2>2
<1> QED BY <1>1, <1>3, <1>4 DEF SpoilInv

\* A script whose disk is protected has the whole payload of that disk open.
LEMMA WriteSource ==
  ASSUME TypeInv, SpoilInv, OneByOne, NEW w \in Writers, writer[w].at = "write"
  PROVE  /\ writer[w].volume = writer[w].disk /\ writer[w].meta = writer[w].disk
         /\ writer[w].disk \in Disks
         /\ Source(w) \in {writer[w].disk, Partial}
         /\ Protected(writer[w].disk) => Source(w) = writer[w].disk
<1>1. /\ writer[w].volume = writer[w].disk /\ writer[w].meta = writer[w].disk
      /\ writer[w].disk \in Disks /\ writer[w].source \in {writer[w].disk, None}
      /\ writer[w].source = None => staged["payload"] # None
      /\ staged["payload"] \in {writer[w].disk, Partial, None}
      /\ writer[w].disk \in reported => staged["payload"] = None
      /\ \A p \in Procs : Busy(p) => proc[p].disk = writer[w].disk
  BY DEF SpoilInv, ScriptInv, PayloadInv, Alive
<1>2. \A p \in Procs : Stage(p) /\ proc[p].at \in 0..11
  BY PlanLength DEF SpoilInv, StageInv, TypeInv, TypeOK
<1>3. ASSUME NEW p \in Procs, proc[p].at \in 6..11
      PROVE  staged["payload"] \in {writer[w].disk, None}
  <2>1. proc[p].disk = writer[w].disk
    BY <1>1, <1>3 DEF Busy
  <2> QED BY <1>2, <1>3, <2>1 DEF Stage, Busy
<1>4. Protected(writer[w].disk) => staged["payload"] \in {writer[w].disk, None}
  <2>1. ASSUME NEW p \in Procs, Busy(p), proc[p].ok
        PROVE  proc[p].at \in 6..11
    BY <1>2, <2>1 DEF Stage
  <2>2. ASSUME NEW v \in Writers, writer[v].boss # None
        PROVE  \E p \in Procs : proc[p].at \in 6..11
    <3>1. writer[v].boss \in Procs /\ proc[writer[v].boss].at = 6
      BY <2>2 DEF TypeInv, TypeOK, BossInv
    <3> QED BY <3>1
  <2> QED BY <1>1, <1>3, <2>1, <2>2 DEF Protected
<1> QED BY <1>1, <1>4 DEF Source

LEMMA WriterSpoils ==
  ASSUME TypeInv, SpoilInv, OneByOne, NEW w \in Writers,
         ReadMeta(w) \/ HashPayload(w) \/ Open(w) \/ Write(w) \/ WriterDies(w)
  PROVE  SpoilInv'
<1>0. /\ TypeOK /\ writer \in [Writers -> WriterType]
      /\ disk \in [Disks -> [Blocks -> {"old", "new", "bad"}]]
      /\ device \in [0..MaxDevice -> [volume : Disks \cup {None}, owner : {None, "pve", "hv2pve"}]]
      /\ \A p \in Procs : writer[w].boss = p => proc[p].at = 6
  BY Typed, StagingAssumption DEF TypeInv, TypeOK, BossInv
<1>1. UNCHANGED disk => BlocksKept
  BY DEF BlocksKept
<1>2. ASSUME Alive(w)
      PROVE  /\ writer[w].disk \in Disks
             /\ staged["meta"] \in {writer[w].disk, Partial, None}
             /\ staged["payload"] \in {writer[w].disk, Partial, None}
             /\ writer[w].at # "write" =>
                  /\ device[writer[w].dev] = Free \/ device[writer[w].dev].volume = writer[w].disk
                  /\ writer[w].source = None
             /\ writer[w].at # "read" => writer[w].meta = writer[w].disk
  BY <1>2 DEF SpoilInv, ScriptInv, PayloadInv
<1>3. CASE End(w, FALSE) /\ UNCHANGED <<staged, device, disk, reported>>
  BY <1>1, <1>3, EndSpoils
<1>4. CASE ReadMeta(w)
  <2>1. CASE /\ proc' = proc /\ UNCHANGED <<staged, device, disk, reported>>
             /\ staged["meta"] \in Disks
             /\ writer' = [writer EXCEPT ![w].at = "hash", ![w].meta = staged["meta"]]
    <3>1. writer[w].at = "read" /\ Alive(w)
      BY <1>4 DEF ReadMeta, Alive
    <3>2. staged["meta"] = writer[w].disk
      BY <1>2, <2>1, <3>1, StagingAssumption
    <3>3. /\ \A v \in Writers : v # w => writer'[v] = writer[v]
          /\ writer'[w].at = "hash" /\ writer'[w].meta = staged["meta"]
          /\ writer'[w].disk = writer[w].disk /\ writer'[w].dev = writer[w].dev
          /\ writer'[w].source = writer[w].source
      BY <1>0, <2>1, ReadFields
    <3>4. BlocksKept /\ proc' = proc /\ UNCHANGED <<staged, device, reported>>
      BY <1>1, <2>1
    <3> QED BY <1>2, <3>1, <3>2, <3>3, <3>4, GoOnSpoils
  <2> QED BY <1>3, <1>4, <2>1 DEF ReadMeta
<1>5. CASE HashPayload(w)
  <2>1. CASE /\ proc' = proc /\ UNCHANGED <<staged, device, disk, reported>>
             /\ writer' = [writer EXCEPT ![w].at = "open"]
    <3>1. writer[w].at = "hash" /\ Alive(w)
      BY <1>5 DEF HashPayload, Alive
    <3>2. /\ \A v \in Writers : v # w => writer'[v] = writer[v]
          /\ writer'[w].at = "open" /\ writer'[w].meta = writer[w].meta
          /\ writer'[w].disk = writer[w].disk /\ writer'[w].dev = writer[w].dev
          /\ writer'[w].source = writer[w].source
      BY <1>0, <2>1 DEF WriterType
    <3>3. BlocksKept /\ proc' = proc /\ UNCHANGED <<staged, device, reported>>
      BY <1>1, <2>1
    <3> QED BY <1>2, <3>1, <3>2, <3>3, GoOnSpoils
  <2> QED BY <1>3, <1>5, <2>1 DEF HashPayload
<1>6. CASE Open(w)
  <2>1. CASE /\ proc' = proc /\ UNCHANGED <<staged, device, disk, reported>>
             /\ device[writer[w].dev] # Free /\ staged["payload"] # None
             /\ writer' = [writer EXCEPT ![w].at = "write", ![w].todo = Blocks,
                                         ![w].volume = device[writer[w].dev].volume]
    <3>1. writer[w].at = "open" /\ Alive(w)
      BY <1>6 DEF Open, Alive
    <3>2. device[writer[w].dev].volume = writer[w].disk
      BY <1>2, <2>1, <3>1
    <3>3. /\ \A v \in Writers : v # w => writer'[v] = writer[v]
          /\ writer'[w].at = "write" /\ writer'[w].todo = Blocks
          /\ writer'[w].volume = writer[w].disk /\ writer'[w].meta = writer[w].meta
          /\ writer'[w].disk = writer[w].disk /\ writer'[w].dev = writer[w].dev
          /\ writer'[w].source = writer[w].source
      <4>1. writer' = [writer EXCEPT ![w].at = "write", ![w].todo = Blocks,
                                     ![w].volume = writer[w].disk]
        BY <2>1, <3>2
      <4>2. writer[w].disk \in Disks \cup {None}
        BY <1>2, <3>1
      <4> QED BY <1>0, <4>1, <4>2, OpenFields
    <3>4. BlocksKept /\ proc' = proc /\ UNCHANGED <<staged, device, reported>>
      BY <1>1, <2>1
    <3>5. staged["payload"] # None
      BY <2>1
    <3> QED BY <1>2, <3>1, <3>3, <3>4, <3>5, GoOnSpoils
  <2> QED BY <1>3, <1>6, <2>1 DEF Open
<1>7. CASE Write(w)
  <2> DEFINE b == CHOOSE x \in writer[w].todo : \A y \in writer[w].todo : x <= y
             d == writer[w].disk
  <2>0. /\ writer[w].at = "write" /\ Alive(w) /\ writer[w].volume = d /\ writer[w].meta = d
        /\ d \in Disks /\ Source(w) \in {d, Partial} /\ (Protected(d) => Source(w) = d)
        /\ Partial # d
    BY <1>7, WriteSource, StagingAssumption DEF Write, Alive
  <2>1. PICK right \in BOOLEAN :
          /\ Source(w) = d => right
          /\ disk' = [disk EXCEPT ![d][b] = IF right THEN "new" ELSE "bad"]
          /\ IF right /\ writer[w].todo # {b}
               THEN writer' = [writer EXCEPT ![w].todo = @ \ {b}] /\ UNCHANGED proc
               ELSE End(w, right)
          /\ UNCHANGED <<staged, device, reported>>
    BY <1>7, <2>0 DEF Write
  <2> HIDE DEF b
  <2>2. \A e \in Disks : \A c \in Blocks :
          disk'[e][c] = IF e = d /\ c = b THEN (IF right THEN "new" ELSE "bad") ELSE disk[e][c]
    BY <1>0, <2>0, <2>1
  <2>3. BlocksKept /\ UNCHANGED <<staged, device, reported>>
    BY <2>0, <2>1, <2>2 DEF BlocksKept
  <2>4. /\ writer[w].source \in {d, None}
        /\ writer[w].source = None => staged["payload"] # None
        /\ writer[w].boss # None => \A c \in Blocks \ writer[w].todo : disk[d][c] = "new"
    BY <2>0 DEF SpoilInv, PayloadInv
  <2>5. CASE End(w, right) /\ (right => writer[w].todo = {b})
    <3>1. ASSUME right, NEW p \in Procs, writer[w].boss = p, NEW c \in Blocks
          PROVE  disk'[proc[p].disk][c] = "new"
      <4>1. proc[p].disk = d
        <5>1. Busy(p)
          BY <1>0, <3>1 DEF Busy
        <5> QED BY <2>0, <5>1 DEF SpoilInv, ScriptInv
      <4>2. writer[w].boss # None
        BY <3>1, StagingAssumption
      <4> QED BY <2>0, <2>2, <2>4, <2>5, <3>1, <4>1, <4>2
    <3> QED BY <2>3, <2>5, <3>1, EndSpoils
  <2>6. CASE right /\ writer' = [writer EXCEPT ![w].todo = @ \ {b}] /\ UNCHANGED proc
    <3>1. /\ \A v \in Writers : v # w => writer'[v] = writer[v]
          /\ writer'[w].at = "write" /\ writer'[w].todo = writer[w].todo \ {b}
          /\ writer'[w].volume = d /\ writer'[w].meta = d /\ writer'[w].disk = d
          /\ writer'[w].dev = writer[w].dev /\ writer'[w].source = writer[w].source
          /\ writer'[w].boss = writer[w].boss
      BY <1>0, <2>0, <2>6 DEF WriterType
    <3>2. writer[w].boss # None => \A c \in Blocks \ writer'[w].todo : disk'[d][c] = "new"
      BY <2>0, <2>2, <2>4, <2>6, <3>1
    <3>3. proc' = proc
      BY <2>6
    <3> QED BY <2>0, <2>3, <2>4, <3>1, <3>2, <3>3, GoOnSpoils
  <2> QED BY <2>1, <2>5, <2>6
<1>8. CASE WriterDies(w)
  BY <1>3, <1>8 DEF WriterDies
<1> QED BY <1>4, <1>5, <1>6, <1>7, <1>8

LEMMA InitSpoils ==
  ASSUME Init
  PROVE  SpoilInv
<1>1. \A w \in Writers : writer[w].at = "none" /\ writer[w].source = None
  BY DEF Init, NoWriter
<1>2. \A p \in Procs : proc[p].at = 0
  BY DEF Init, Idle
<1>3. reported = {}
  BY DEF Init
<1> QED BY <1>1, <1>2, <1>3
        DEF SpoilInv, StageInv, Stage, ScriptInv, PayloadInv, SuccessExact, Busy, Alive

LEMMA StepSpoils ==
  ASSUME TypeInv, SpoilInv, OneByOne, [Next]_vars
  PROVE  SpoilInv'
<1>1. CASE UNCHANGED vars
  BY <1>1 DEF vars, SpoilInv, StageInv, Stage, ScriptInv, PayloadInv, SuccessExact, AllNew,
              Busy, Alive
<1>2. ASSUME NEW p \in Procs, \E d \in Disks : Begin(p, d)
      PROVE  SpoilInv'
  BY <1>2, BeginSpoils
<1>3. ASSUME NEW p \in Procs,
             Check(p) \/ MapExisting(p) \/ MapNew(p) \/ LoseSession(p) \/ Unmap(p)
               \/ UnmapFails(p) \/ Die(p)
      PROVE  SpoilInv'
  BY <1>3, CommandSpoils
<1>4. ASSUME NEW p \in Procs, BeginCopy(p) \/ EndCopy(p) \/ Run(p) \/ RemoveFile(p) \/ Save(p)
      PROVE  SpoilInv'
  BY <1>4, CopySpoils, RunSpoils, RemovalSpoils, SaveSpoils
<1> QED BY <1>1, <1>2, <1>3, <1>4, WriterSpoils DEF Next

\* A disk that was reported a success holds its bundle and keeps it, whatever script
\* of a lost session is still alive, when one invocation runs at a time and the
\* operator does not turn to another disk before.
THEOREM StagingSuccessExact ==
  ASSUME OneByOne
  PROVE  Spec => []SuccessExact
<1>1. Init => TypeInv /\ SpoilInv
  BY InitTypes, InitSpoils
<1>2. TypeInv /\ SpoilInv /\ [Next]_vars => TypeInv' /\ SpoilInv'
  BY StepTypes, StepSpoils
<1>3. SpoilInv => SuccessExact
  BY DEF SpoilInv
<1> QED BY <1>1, <1>2, <1>3, PTL DEF Spec

(* ------------------------------- the clean-up ------------------------------ *)

\* One invocation at a time, whatever it turns to next.
OneAtATime == \A p, q \in Procs : p = q

\* Which files are gone at each place of the clean-up.
CleanInv ==
  \A p \in Procs :
    /\ proc[p].at > 8 => staged["meta"] = None
    /\ proc[p].at > 9 => staged["payload"] = None
    /\ proc[p].at > 10 => staged["script"] = None

\* The clean-up goes on only by the removal of the next file.
LEMMA CleanUpStep ==
  ASSUME TypeInv, Next, OneAtATime, NEW p \in Procs, proc'[p].at > 8
  PROVE  RemoveFile(p) \/ (proc'[p].at = proc[p].at /\ UNCHANGED staged)
<1>0. /\ TypeOK /\ proc \in [Procs -> ProcType] /\ proc[p].at \in 0..11
      /\ \A w \in Writers, q \in Procs : writer[w].boss = q => proc[q].at = 6
  BY Typed, PlanLength, StagingAssumption DEF TypeInv, TypeOK, BossInv
<1>1. ASSUME NEW d \in Disks, Begin(p, d) PROVE FALSE
  <2>1. proc'[p].at = 1
    BY <1>0, <1>1, BeginFields DEF Begin
  <2> QED BY <2>1
<1>2. ASSUME proc[p].at \in 0..7, proc'[p].at = proc[p].at + 1 PROVE FALSE
  BY <1>2
<1>3. ASSUME Exit(p) PROVE FALSE
  <2>1. proc'[p].at = 0
    BY <1>0, <1>3, ExitFields
  <2> QED BY <2>1
<1>4. ASSUME Advance(p), proc[p].at \in 0..7 PROVE FALSE
  BY <1>0, <1>2, <1>4, AdvanceFields
<1>5. ASSUME NEW n \in 0..MaxDevice, NEW m \in BOOLEAN, Mapped(p, n, m), proc[p].at \in 0..7
      PROVE  FALSE
  <2>1. proc[p].at \in 0..10
    BY <1>5
  <2>2. proc'[p].at = proc[p].at + 1
    BY <1>0, <1>5, <2>1, MapFields, Zenon
  <2> QED BY <1>2, <1>5, <2>2
<1>6. ASSUME NEW w \in Writers,
             ReadMeta(w) \/ HashPayload(w) \/ Open(w) \/ Write(w) \/ WriterDies(w)
      PROVE  proc'[p].at = proc[p].at /\ UNCHANGED staged
  <2>1. UNCHANGED staged /\ (UNCHANGED proc \/ \E ok \in BOOLEAN : End(w, ok))
    BY <1>6 DEF ReadMeta, HashPayload, Open, Write, WriterDies
  <2>2. ASSUME NEW ok \in BOOLEAN, End(w, ok)
        PROVE  proc'[p] = proc[p]
    BY <1>0, <2>2, EndFields
  <2> QED BY <2>1, <2>2
<1>7. \A f \in Files : CopyAt[f] \in 2..4
  BY DEF CopyAt, Files
<1>8. ASSUME Check(p) \/ LoseSession(p) PROVE FALSE
  <2>1. Advance(p)
    BY <1>8 DEF Check, LoseSession
  <2>2. proc[p].at = 1 \/ proc[p].at = 6
    BY <1>0, <1>8, PlanSteps DEF Check, LoseSession
  <2>3. proc[p].at \in 0..7
    BY <2>2
  <2> QED BY <1>4, <2>1, <2>3
<1>9. ASSUME BeginCopy(p) PROVE FALSE
  <2>1. proc[p].at \in 2..4 /\ proc' = [proc EXCEPT ![p].half = TRUE]
    BY <1>0, <1>7, <1>9, BeginCopyStep
  <2>2. proc'[p].at = proc[p].at
    BY <1>0, <2>1 DEF ProcType
  <2> QED BY <2>1, <2>2
<1>10. ASSUME EndCopy(p) PROVE FALSE
  <2>1. proc[p].at \in 2..4 /\ Copied(p)
    BY <1>0, <1>7, <1>10, EndCopyStep DEF Copied
  <2>2. proc[p].at \in 0..10 /\ proc[p].at \in 0..7
    BY <2>1
  <2>3. proc'[p].at = proc[p].at + 1
    BY <1>0, <2>1, <2>2, EndCopyFields, Zenon
  <2> QED BY <1>2, <2>2, <2>3
<1>11. ASSUME MapExisting(p) \/ MapNew(p) PROVE FALSE
  <2>1. \E n \in 0..MaxDevice, m \in BOOLEAN : Mapped(p, n, m)
    BY <1>11, Zenon DEF MapExisting, MapNew, Mapped
  <2>2. proc[p].at = 5
    BY <1>0, <1>11, PlanSteps DEF MapExisting, MapNew
  <2>3. proc[p].at \in 0..7
    BY <2>2
  <2> QED BY <1>5, <2>1, <2>3
<1>12. ASSUME Unmap(p) \/ UnmapFails(p) PROVE FALSE
  <2>1. Mapped(p, 0, FALSE) /\ FALSE \in BOOLEAN
    BY <1>12 DEF Unmap, UnmapFails, Unmapped, Mapped
  <2>2. proc[p].at = 7
    BY <1>0, <1>12, PlanSteps DEF Unmap, UnmapFails
  <2>3. proc[p].at \in 0..7 /\ 0 \in 0..MaxDevice
    BY <2>2, StagingAssumption
  <2> QED BY <1>5, <2>1, <2>3, Zenon
<1>13. ASSUME Run(p) PROVE proc'[p].at = proc[p].at /\ UNCHANGED staged
  <2>1. proc[p].at = 6 /\ UNCHANGED staged /\ (UNCHANGED proc \/ Advance(p))
    BY <1>0, <1>13, PlanSteps DEF Run
  <2>2. proc[p].at \in 0..7
    BY <2>1
  <2> QED BY <1>4, <2>1, <2>2
<1>14. ASSUME Save(p) \/ Die(p) PROVE FALSE
  BY <1>3, <1>14 DEF Save, Die
<1>15. \A q \in Procs : q = p
  BY DEF OneAtATime
<1> QED
  BY <1>1, <1>6, <1>8, <1>9, <1>10, <1>11, <1>12, <1>13, <1>14, <1>15 DEF Next

\* None of the three files is left when a success is recorded.
THEOREM StagingLeavesNothing ==
  ASSUME OneAtATime
  PROVE  Spec => []StagingCleaned
<1>1. Init => TypeInv /\ CleanInv
  <2>1. Init => \A p \in Procs : proc[p].at = 0
    BY DEF Init, Idle
  <2> QED BY <2>1, InitTypes DEF CleanInv
<1>2. TypeInv /\ CleanInv /\ [Next]_vars => TypeInv' /\ CleanInv'
  <2>1. ASSUME TypeInv, CleanInv, Next PROVE CleanInv'
    <3> SUFFICES ASSUME NEW p \in Procs, proc'[p].at > 8
                 PROVE  /\ staged'["meta"] = None
                        /\ proc'[p].at > 9 => staged'["payload"] = None
                        /\ proc'[p].at > 10 => staged'["script"] = None
      <4>1. \A q \in Procs : proc'[q].at \in 0..11
        BY <2>1, StepTypes, PlanLength DEF TypeInv, TypeOK
      <4> QED BY <4>1 DEF CleanInv
    <3>0. /\ TypeOK /\ staged \in [Files -> Disks \cup {None, Partial, "script"}]
          /\ RemoveAt["meta"] = 8 /\ RemoveAt["payload"] = 9 /\ RemoveAt["script"] = 10
      BY <2>1 DEF TypeInv, TypeOK, RemoveAt
    <3>1. CASE proc'[p].at = proc[p].at /\ UNCHANGED staged
      BY <2>1, <3>1 DEF CleanInv
    <3>2. CASE RemoveFile(p)
      <4>1. PICK f \in Files :
               /\ proc[p].at = RemoveAt[f]
               /\ staged' = [staged EXCEPT ![f] = None]
               /\ Exit(p) \/ Advance(p)
        BY <3>0, <3>2, RemoveFileStep
      <4>2. /\ \A g \in Files : staged'[g] = IF g = f THEN None ELSE staged[g]
            /\ proc[p].at \in 8..10
            /\ proc[p].at = 8 => f = "meta"
            /\ proc[p].at = 9 => f = "payload"
            /\ proc[p].at = 10 => f = "script"
        BY <3>0, <4>1 DEF Files
      <4>3. proc'[p].at = proc[p].at + 1
        <5>1. ~Exit(p)
          <6>1. Exit(p) => proc'[p].at = 0
            BY <3>0, ExitFields
          <6> QED BY <6>1
        <5>2. proc[p].at \in 0..10
          BY <4>2
        <5> QED BY <3>0, <4>1, <5>1, <5>2, AdvanceFields
      <4> QED BY <2>1, <4>2, <4>3 DEF CleanInv, Files
    <3> QED BY <2>1, <3>1, <3>2, CleanUpStep
  <2>2. CleanInv /\ UNCHANGED vars => CleanInv'
    BY DEF CleanInv, vars
  <2> QED BY <2>1, <2>2, StepTypes
<1>3. TypeInv /\ CleanInv => StagingCleaned
  <2> SUFFICES ASSUME TypeInv, CleanInv, NEW p \in Procs, At(p, "save"), NEW f \in Files
               PROVE  staged[f] = None
    BY DEF StagingCleaned
  <2>1. proc[p].at = 11
    BY PlanSteps DEF TypeInv
  <2> QED BY <2>1 DEF CleanInv, Files
<1> QED BY <1>1, <1>2, <1>3, PTL DEF Spec
=============================================================================

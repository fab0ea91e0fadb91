----------------------------- MODULE DeltaSync ------------------------------
(* The data path of a migration: reference points on the Hyper-V source,       *)
(* delta bundles between them, the writer on the Proxmox node, and what all    *)
(* of it leaves on the destination disk, together with the migration record.   *)
(*                                                                             *)
(* One CLI invocation at a time (module Migration has the races).  A command   *)
(* that only replaces the record is one step; apply-proxmox-delta takes a step *)
(* per changed block and may fail between any two.                             *)
(*                                                                             *)
(* Abstractions.  A disk is a function from blocks to versions: a write to the *)
(* source gives its block the next version, so the blocks that changed between *)
(* two points are those whose versions differ.  A block that the guest of the  *)
(* destination wrote during a test boot holds None.  The WMI export of         *)
(* rct-sync.ps1 and the native bundle of native-delta.ps1 carry the same data; *)
(* only the bundle has a writer in the controller.  There is one disk.         *)
(*                                                                             *)
(* Runbook   the operator follows docs/runbook.md and the migration workflow   *)
(*           where the code does not see whether they do;                      *)
(* Orphans   the remote writer may outlive an ssh session that was cut or      *)
(*           timed out (controller/process.py, proxmox.py:237).                *)
EXTENDS Controller

CONSTANTS NBlocks, MaxVersion, SourceVNet, Runbook, Orphans

ASSUME DeltaSyncAssumption ==
  /\ RPs \subseteq Nat          \* numbered in the order they are created
  /\ NBlocks \in Nat
  /\ MaxVersion \in Nat
  /\ SourceVNet \in VNets
  /\ Runbook \in BOOLEAN
  /\ Orphans \in BOOLEAN
  /\ None \notin [1..NBlocks -> 0..MaxVersion]  \* "no such point" is no disk content

Blocks == 1..NBlocks
Versions == 0..MaxVersion
Contents == [Blocks -> Versions]

VARIABLES file,          \* the record in the state file
          src,           \* the disk of the source VM
          sourceRunning,
          snap,          \* what each reference point froze, kept as history
          points,        \* the reference points that exist on the source
          bundles,       \* exports and delta bundles: <<from, to>>
          dst,           \* the destination volume
          running,       \* the destination VM runs
          writer,        \* the remote writer of the invocation in progress
          orphan,        \* a remote writer whose invocation is gone
          applied        \* the bundle apply-proxmox-delta last succeeded with, if
                         \* the destination was neither written nor booted since

source == <<src, sourceRunning, snap, points, bundles>>
target == <<dst, running, writer, orphan, applied>>
vars == <<file, source, target>>

NoWriter == [bundle |-> <<None, None>>, left |-> {}]
Writers == [bundle : (RPs \cup {None}) \X (RPs \cup {None}), left : SUBSET Blocks]

Taken(rp) == rp \in RPs /\ snap[rp] # None

TypeOK ==
  /\ file \in StateRecord
  /\ src \in Contents
  /\ sourceRunning \in BOOLEAN
  /\ snap \in [RPs -> Contents \cup {None}]
  /\ points \subseteq {rp \in RPs : Taken(rp)}
  /\ bundles \subseteq (RPs \cup {None}) \X RPs
  /\ dst \in [Blocks -> Versions \cup {None}]
  /\ running \in BOOLEAN
  /\ writer \in Writers
  /\ orphan \in Writers
  /\ applied \in (RPs \cup {None}) \X (RPs \cup {None})

Init ==
  /\ file = NewState
  /\ src = [b \in Blocks |-> 0]
  /\ sourceRunning = TRUE
  /\ snap = [rp \in RPs |-> None]
  /\ points = {}
  /\ bundles = {}
  /\ dst = [b \in Blocks |-> None]
  /\ running = FALSE
  /\ writer = NoWriter
  /\ orphan = NoWriter
  /\ applied = <<None, None>>

\* MUTANT of Changed: the last page of the query is missing.
ChangedFirstPage(from, to) == {b \in Blocks : b < NBlocks /\ snap[from][b] # snap[to][b]}

\* MUTANT of Changed: offsets are off by one block.
ChangedShifted(from, to) == {b + 1 : b \in {c \in Blocks : snap[from][c] # snap[to][c]}}

Changed(from, to) == {b \in Blocks : snap[from][b] # snap[to][b]}

(* ------------------------------- the source -------------------------------- *)

SourceWrites(b) ==
  /\ sourceRunning
  /\ src[b] < MaxVersion
  /\ src' = [src EXCEPT ![b] = @ + 1]
  /\ UNCHANGED <<file, sourceRunning, snap, points, bundles, target>>

\* New-HV2PVERctReferencePoint.
NewPoint(rp) ==
  /\ \A q \in RPs : Taken(q) <=> q < rp
  /\ snap' = [snap EXCEPT ![rp] = src]
  /\ points' = points \cup {rp}

\* rct-baseline.ps1: a point and its full export.  If the export fails, the
\* point stays.
RctBaseline(rp) ==
  /\ Runbook => file.phase = "NEW"
  /\ NewPoint(rp)
  /\ bundles' \in {bundles, bundles \cup {<<None, rp>>}}
  /\ UNCHANGED <<file, src, sourceRunning, target>>

\* rct-sync.ps1: the base must exist.  If the export fails, the point stays.
RctSync(base, rp) ==
  /\ base \in points
  /\ NewPoint(rp)
  /\ UNCHANGED <<file, src, sourceRunning, bundles, target>>

\* native-delta.ps1: query the changes since one point, pack them from the
\* frozen disk of another; the metadata is written last, or not at all.
NativeDelta(from, to) ==
  /\ {from, to} \subseteq points
  /\ from < to
  /\ Runbook => from = file.authoritative_reference_point
  /\ bundles' = bundles \cup {<<from, to>>}
  /\ UNCHANGED <<file, src, sourceRunning, snap, points, target>>

\* MUTANT of CommitSync: removes the point that was confirmed.
CommitSyncRemovesNew(old, new) ==
  /\ {old, new} \subseteq points
  /\ Runbook => new = file.authoritative_reference_point /\ <<old, new>> \in bundles
  /\ points' = points \ {new}
  /\ UNCHANGED <<file, src, sourceRunning, snap, bundles, target>>

\* commit-sync.ps1: both points must exist and belong to the VM.  Which one is
\* authoritative it cannot know.
CommitSync(old, new) ==
  /\ {old, new} \subseteq points
  /\ Runbook => new = file.authoritative_reference_point /\ <<old, new>> \in bundles
  /\ points' = points \ {old}
  /\ UNCHANGED <<file, src, sourceRunning, snap, bundles, target>>

\* cutover-source.ps1
StopSource ==
  /\ sourceRunning
  /\ Runbook => file.phase = "CUTOVER_IN_PROGRESS"
  /\ sourceRunning' = FALSE
  /\ UNCHANGED <<file, src, snap, points, bundles, target>>

(* -------------------- commands that replace the record --------------------- *)

\* No other invocation is in progress; result is saved.
Command(accepted, result) ==
  /\ writer = NoWriter
  /\ accepted
  /\ file' = result
  /\ UNCHANGED <<source, dst, running, writer, orphan, applied>>

IngestBaseline(rp) ==
  /\ <<None, rp>> \in bundles
  /\ Runbook => file.phase = "NEW"
  /\ Command(TRUE, AfterIngestBaseline(rp))

\* seed imports the files of the baseline that was ingested.
Seed(test, prod) ==
  /\ writer = NoWriter
  /\ Runbook => prod = SourceVNet
  /\ CanSeed(file, test, prod)
  /\ <<None, file.authoritative_reference_point>> \in bundles
  /\ file' = AfterSeed(file, test, prod)
  /\ dst' = snap[file.authoritative_reference_point]
  /\ UNCHANGED <<source, running, writer, orphan, applied>>

\* The sequence number and the point are those of the metadata of rct-sync.ps1.
IngestSync(rp, n) ==
  /\ Taken(rp)
  /\ Runbook =>
       /\ <<file.authoritative_reference_point, rp>> \in bundles
       /\ n = file.sequence + 1
       /\ file.pending_reference_point # None => file.pending_reference_point <= rp
  /\ Command(CanIngestSync(file, rp, n), AfterIngestSync(file, rp, n))

MarkTested == Command(CanMarkTested(file), AfterMarkTested(file))

\* The operator says --verified of the pending bundle when apply-proxmox-delta
\* succeeded with it and nothing touched the destination since.
Verified(rp) ==
  /\ rp = file.pending_reference_point
  /\ applied = <<file.authoritative_reference_point, rp>>

RegisterSync(rp, n, cutoverReady) ==
  /\ Taken(rp)
  /\ Runbook => Verified(rp) /\ n = file.pending_sequence
  /\ Command(CanRegisterSync(file, rp, n), AfterRegisterSync(file, rp, n, cutoverReady))

AuthorizeCutover == Command(CanAuthorizeCutover(file), AfterAuthorizeCutover(file))

MarkSourceStopped ==
  /\ Runbook => ~sourceRunning
  /\ Command(CanMarkSourceStopped(file), AfterMarkSourceStopped(file))

\* The final bundle ends in a point that was taken after the source stopped.
MarkFinalSync ==
  /\ Runbook =>
       /\ Verified(file.pending_reference_point)
       /\ file.pending_reference_point # None
       /\ snap[file.pending_reference_point] = src
  /\ Command(CanMarkFinalSync(file), AfterMarkFinalSync(file))

(* ----------------------- commands that reach Proxmox ----------------------- *)

TestStart ==
  /\ writer = NoWriter
  /\ CanTestStart(file)
  /\ running' = TRUE
  /\ file' = AfterTestStart(file)
  /\ applied' = <<None, None>>
  /\ UNCHANGED <<source, dst, writer, orphan>>

TestStop ==
  /\ writer = NoWriter
  /\ CanTestStop(file)
  /\ running' = FALSE
  /\ file' = AfterTestStop(file)
  /\ UNCHANGED <<source, dst, writer, orphan, applied>>

\* The guest of the destination boots, mounts, logs.
GuestWrites(b) ==
  /\ running
  /\ dst' = [dst EXCEPT ![b] = None]
  /\ UNCHANGED <<file, source, running, writer, orphan, applied>>

\* The guest shuts itself down.
GuestPowersOff ==
  /\ running
  /\ running' = FALSE
  /\ UNCHANGED <<file, source, dst, writer, orphan, applied>>

\* apply-proxmox-delta up to the start of the remote writer.  Whether the bundle
\* continues what the record says is not tested, nor whether a writer of an
\* earlier invocation is left; the operator retries a bundle beside its own
\* orphan, but makes sure that no writer of another bundle is left.
ApplyDelta(bundle) ==
  /\ writer = NoWriter
  /\ bundle \in bundles /\ bundle[1] # None
  /\ Runbook =>
       /\ bundle = <<file.authoritative_reference_point, file.pending_reference_point>>
       /\ (orphan = NoWriter \/ orphan.bundle = bundle)
  /\ CanApplyDelta(file)
  /\ ~running
  /\ writer' = [bundle |-> bundle, left |-> Changed(bundle[1], bundle[2])]
  /\ applied' = <<None, None>>
  /\ UNCHANGED <<file, source, dst, running, orphan>>

NextBlock(w) == CHOOSE b \in w.left : \A c \in w.left : b <= c

Wrote(w) == [w EXCEPT !.left = @ \ {NextBlock(w)}]

\* The destination after writer w wrote its next block.
Written(w) == [dst EXCEPT ![NextBlock(w)] = snap[w.bundle[2]][NextBlock(w)]]

\* remote_apply_delta.py writes the ranges in the order of their offsets.
WriteBlock ==
  /\ writer.left # {}
  /\ dst' = Written(writer)
  /\ writer' = Wrote(writer)
  /\ UNCHANGED <<file, source, running, orphan, applied>>

\* The writer is done; the record changes only in its history.
ApplySucceeds ==
  /\ writer # NoWriter /\ writer.left = {}
  /\ writer' = NoWriter
  /\ applied' = writer.bundle
  /\ UNCHANGED <<file, source, dst, running, orphan>>

\* MUTANT of ApplyFails: the exit status of the writer is not looked at.
ApplyFailsSilently ==
  /\ writer # NoWriter
  /\ orphan' = IF Orphans /\ orphan = NoWriter THEN writer ELSE orphan
  /\ writer' = NoWriter
  /\ applied' = writer.bundle
  /\ UNCHANGED <<file, source, dst, running>>

\* The command ends with an error, at any block; blocks already written stay.
\* The remote writer may go on by itself.
ApplyFails ==
  /\ writer # NoWriter
  /\ orphan' \in {orphan} \cup {w \in {writer} : Orphans /\ orphan = NoWriter}
  /\ writer' = NoWriter
  /\ UNCHANGED <<file, source, dst, running, applied>>

OrphanWrites ==
  /\ orphan # NoWriter
  /\ IF orphan.left = {}
       THEN orphan' = NoWriter /\ UNCHANGED dst
       ELSE orphan' = Wrote(orphan) /\ dst' = Written(orphan)
  /\ UNCHANGED <<file, source, running, writer, applied>>

Source ==
  \/ \E b \in Blocks : SourceWrites(b)
  \/ \E rp \in RPs : RctBaseline(rp)
  \/ \E from, to \in RPs : RctSync(from, to) \/ NativeDelta(from, to) \/ CommitSync(from, to)
  \/ StopSource

Controller ==
  \/ \E rp \in RPs : IngestBaseline(rp)
  \/ \E test, prod \in VNets : Seed(test, prod)
  \/ TestStart \/ TestStop \/ MarkTested
  \/ \E rp \in RPs, n \in 1..MaxSeq : IngestSync(rp, n)
  \/ \E bundle \in bundles : ApplyDelta(bundle)
  \/ WriteBlock \/ ApplySucceeds \/ ApplyFails
  \/ \E rp \in RPs, n \in 1..MaxSeq, ready \in BOOLEAN : RegisterSync(rp, n, ready)
  \/ AuthorizeCutover \/ MarkSourceStopped \/ MarkFinalSync

Node == (\E b \in Blocks : GuestWrites(b)) \/ GuestPowersOff \/ OrphanWrites

Next == Source \/ Controller \/ Node

Spec == Init /\ [][Next]_vars

(* -------------------------------- properties ------------------------------- *)

\* Every block that no test boot wrote holds what point rp froze.
Holds(rp) == \A b \in Blocks : dst[b] \in {snap[rp][b], None}

\* last_sync_verified is about data: when no sync is pending, the destination
\* holds the authoritative reference point (docs/migration-workflow.md:52), however
\* many applies failed half way or were abandoned for a newer point before.
VerifiedMeansHeld ==
  file.last_sync_verified /\ file.pending_reference_point = None
    => Holds(file.authoritative_reference_point)

\* Once the final sync is recorded, no write of the source is missing on the
\* destination.
NothingLost ==
  file.final_sync => \A b \in Blocks : dst[b] \in {src[b], None}

\* From the seed on the destination is never behind the authoritative point, so
\* that the next delta from that point completes it: "a failed sync never
\* advances the authoritative point" (docs/migration-workflow.md:55).
NeverBehind ==
  file.proxmox_vmid =>
    \A b \in Blocks :
      dst[b] # None => /\ snap[file.authoritative_reference_point][b] <= dst[b]
                       /\ dst[b] <= src[b]

\* The authoritative reference point still exists on the source: a further delta
\* can be taken (README.md:59).
AuthoritativeKept ==
  file.authoritative_reference_point # None => file.authoritative_reference_point \in points

\* "A baseline + one or more deltas reproduces exact guest-disk hashes"
\* (docs/rct-design.md:52).
ExactCopy ==
  [][file'.sequence > file.sequence => dst' = snap[file'.authoritative_reference_point]]_vars
=============================================================================

--------------------------- MODULE DeltaSyncProofs --------------------------
(* Theorems about DeltaSync, for every number of blocks, versions, points and  *)
(* sequence numbers: what the record says about the destination disk is true   *)
(* of it, through failed, abandoned and orphaned applies.                      *)
EXTENDS DeltaSync, LeastElement

Authoritative == file.authoritative_reference_point
Pending == file.pending_reference_point

(* --------------------------- the inductive invariant ----------------------- *)

\* A bundle ends in a point that was taken, and a delta begins in an earlier one.
BundleInv ==
  \A x \in bundles :
    /\ Taken(x[2])
    /\ x[1] # None => Taken(x[1]) /\ x[1] < x[2]

\* What is written is a delta bundle; an invocation that writes has not succeeded.
WriterInv ==
  \A w \in {writer, orphan} : w # NoWriter =>
    w.bundle \in bundles /\ w.bundle[1] # None

TypeInv == TypeOK /\ BundleInv /\ WriterInv

\* Later points and the source itself hold later versions.
SnapInv ==
  \A rp \in RPs : Taken(rp) => \A b \in Blocks :
    /\ snap[rp][b] <= src[b]
    /\ \A later \in RPs : Taken(later) /\ rp < later => snap[rp][b] <= snap[later][b]

Fresh == {"NEW", "BASELINE_READY"}

\* What the record says about itself.
RecordInv ==
  /\ file.phase \notin {"DISCOVERED", "FAILED"}
  /\ file.phase = "NEW" <=> Authoritative = None
  /\ file.phase \in Fresh =>
       ~file.proxmox_vmid /\ ~file.disk_map /\ ~file.last_sync_verified /\ ~file.final_sync
  /\ file.phase \notin Fresh => file.proxmox_vmid
  /\ file.final_sync => file.source_stopped
  /\ file.source_stopped => file.phase = "CUTOVER_IN_PROGRESS" /\ ~sourceRunning

\* The points the record names exist: every one from the authoritative one on does.
PointInv ==
  /\ Authoritative # None => Taken(Authoritative)
  /\ \A rp \in RPs :
       Taken(rp) /\ (Authoritative = None \/ Authoritative <= rp) => rp \in points
  /\ Pending # None => <<Authoritative, Pending>> \in bundles

\* The newest point that the destination may have data of.
Newest == IF Pending = None THEN Authoritative ELSE Pending

\* The destination is somewhere between the authoritative and the newest point.
BetweenInv ==
  file.proxmox_vmid =>
    \A b \in Blocks :
      dst[b] # None => snap[Authoritative][b] <= dst[b] /\ dst[b] <= snap[Newest][b]

HoldsExcept(rp, left) == \A b \in Blocks \ left : dst[b] \in {snap[rp][b], None}

\* The writer of an invocation writes the pending bundle; what it is done with is
\* what the pending point froze.
WritingInv ==
  writer # NoWriter =>
    /\ file.proxmox_vmid
    /\ writer.bundle = <<Authoritative, Pending>>
    /\ applied = <<None, None>>
    /\ HoldsExcept(Pending, writer.left)

\* A writer left behind writes a point between the authoritative and the newest
\* one, and none but the bundle that is being applied or was applied last.
OrphanInv ==
  orphan # NoWriter =>
    /\ file.proxmox_vmid
    /\ Authoritative <= orphan.bundle[2] /\ orphan.bundle[2] <= Newest
    /\ writer # NoWriter => orphan.bundle = writer.bundle
    /\ applied # <<None, None>> => orphan.bundle = applied

\* After a success the destination holds the end of the bundle.
AppliedInv ==
  applied # <<None, None>> =>
    /\ file.proxmox_vmid
    /\ applied \in bundles
    /\ HoldsExcept(applied[2], {})

\* After the final sync every writer writes what the stopped source holds.
FinalInv ==
  file.final_sync =>
    /\ Pending # None /\ snap[Pending] = src
    /\ orphan # NoWriter => snap[orphan.bundle[2]] = src
    /\ \A b \in Blocks : dst[b] \in {src[b], None}

DataInv ==
  /\ SnapInv /\ RecordInv /\ PointInv /\ BetweenInv
  /\ WritingInv /\ OrphanInv /\ AppliedInv /\ FinalInv

(* ----------------------------------- types --------------------------------- *)

LEMMA NextBlockOK ==
  ASSUME NEW w \in Writers, w.left # {}
  PROVE  NextBlock(w) \in w.left
<1>1. w.left \in SUBSET Nat
  BY DEF Writers, Blocks
<1> QED BY <1>1, LeastExists DEF NextBlock

LEMMA NoWriterOK == NoWriter \in Writers
  BY DEF NoWriter, Writers

\* A writer's next block is in its bundle, and the bundle says what to write.
LEMMA WriteOK ==
  ASSUME TypeInv, NEW w \in {writer, orphan}, w.left # {}
  PROVE  /\ Wrote(w) \in Writers /\ Wrote(w) # NoWriter /\ Wrote(w).bundle = w.bundle
         /\ NextBlock(w) \in w.left /\ NextBlock(w) \in Blocks
         /\ Wrote(w).left = w.left \ {NextBlock(w)}
         /\ Written(w) = [dst EXCEPT ![NextBlock(w)] = snap[w.bundle[2]][NextBlock(w)]]
         /\ Written(w) \in [Blocks -> Versions \cup {None}]
         /\ w.bundle[2] \in RPs /\ Taken(w.bundle[2])
<1>1. w \in Writers /\ w # NoWriter
  BY DEF TypeInv, TypeOK, NoWriter
<1>2. NextBlock(w) \in w.left /\ NextBlock(w) \in Blocks
  BY <1>1, NextBlockOK DEF Writers
<1>3. w.bundle \in bundles /\ w.bundle[2] \in RPs /\ Taken(w.bundle[2])
  BY <1>1 DEF TypeInv, TypeOK, WriterInv, BundleInv
<1>4. snap[w.bundle[2]] \in Contents
  BY <1>3 DEF TypeInv, TypeOK, Taken
<1>5. Wrote(w) \in Writers /\ Wrote(w).bundle = w.bundle /\ Wrote(w).left = w.left \ {NextBlock(w)}
  BY <1>1 DEF Wrote, Writers
<1>6. Wrote(w) # NoWriter
  BY <1>3, <1>5, StateAssumption DEF NoWriter
<1>7. Written(w) \in [Blocks -> Versions \cup {None}]
  BY <1>2, <1>4 DEF Written, TypeInv, TypeOK, Contents
<1> QED BY <1>2, <1>3, <1>5, <1>6, <1>7 DEF Written

\* Every record a command of DeltaSync saves is a record.
LEMMA RecordTypes ==
  ASSUME NEW s \in StateRecord
  PROVE  /\ AfterTestStart(s) \in StateRecord /\ AfterTestStop(s) \in StateRecord
         /\ AfterMarkTested(s) \in StateRecord
         /\ AfterAuthorizeCutover(s) \in StateRecord
         /\ AfterMarkSourceStopped(s) \in StateRecord
         /\ AfterMarkFinalSync(s) \in StateRecord
         /\ \A test, prod \in VNets : AfterSeed(s, test, prod) \in StateRecord
         /\ \A rp \in RPs : AfterIngestBaseline(rp) \in StateRecord
         /\ \A rp \in RPs, n \in 1..MaxSeq :
              /\ AfterIngestSync(s, rp, n) \in StateRecord
              /\ \A ready \in BOOLEAN : AfterRegisterSync(s, rp, n, ready) \in StateRecord
<1>1. NewState \in StateRecord
  BY StateAssumption DEF NewState, StateRecord, Phases, Seqs
<1>2. /\ AfterTestStart(s) \in StateRecord /\ AfterTestStop(s) \in StateRecord
      /\ AfterMarkSourceStopped(s) \in StateRecord /\ AfterMarkFinalSync(s) \in StateRecord
  <2>1. AfterTestStart(s) \in StateRecord
    BY DEF AfterTestStart, StateRecord
  <2>2. AfterTestStop(s) \in StateRecord
    BY DEF AfterTestStop, StateRecord
  <2>3. AfterMarkSourceStopped(s) \in StateRecord
    BY DEF AfterMarkSourceStopped, StateRecord
  <2>4. AfterMarkFinalSync(s) \in StateRecord
    BY DEF AfterMarkFinalSync, StateRecord
  <2> QED BY <2>1, <2>2, <2>3, <2>4
<1>3. AfterMarkTested(s) \in StateRecord
  BY DEF AfterMarkTested, SetPhase, Tested, StateRecord, Phases
<1>4. AfterAuthorizeCutover(s) \in StateRecord
  BY DEF AfterAuthorizeCutover, SetPhase, Authorized, StateRecord, Phases
<1>5. ASSUME NEW test \in VNets, NEW prod \in VNets
      PROVE  AfterSeed(s, test, prod) \in StateRecord
  BY DEF AfterSeed, SetPhase, Destination, StateRecord, Phases
<1>6. ASSUME NEW rp \in RPs
      PROVE  AfterIngestBaseline(rp) \in StateRecord
  BY <1>1 DEF AfterIngestBaseline, StateRecord, Phases
<1>7. ASSUME NEW rp \in RPs, NEW n \in 1..MaxSeq
      PROVE  /\ AfterIngestSync(s, rp, n) \in StateRecord
             /\ \A ready \in BOOLEAN : AfterRegisterSync(s, rp, n, ready) \in StateRecord
  <2>1. n \in Seqs /\ 0 \in Seqs
    BY StateAssumption DEF Seqs
  <2>2. AfterIngestSync(s, rp, n) \in StateRecord
    BY <2>1 DEF AfterIngestSync, StateRecord
  <2>3. Registered(s, rp, n) \in StateRecord
    BY <2>1 DEF Registered, StateRecord
  <2> QED BY <2>2, <2>3 DEF AfterRegisterSync, SetPhase, StateRecord, Phases
<1> QED BY <1>2, <1>3, <1>4, <1>5, <1>6, <1>7

\* What a command that only replaces the record does.
LEMMA CommandTypes ==
  ASSUME TypeInv, NEW accepted, NEW r \in StateRecord, Command(accepted, r)
  PROVE  TypeInv'
  BY DEF Command, source, TypeInv, TypeOK, BundleInv, WriterInv, Taken

\* A new point is the newest one and freezes what the source holds.
LEMMA NewPointOK ==
  ASSUME TypeOK, NEW rp \in RPs, NewPoint(rp)
  PROVE  /\ ~Taken(rp)
         /\ snap' \in [RPs -> Contents \cup {None}]
         /\ snap'[rp] = src
         /\ \A q \in RPs : Taken(q) => q < rp /\ snap'[q] = snap[q]
         /\ \A q \in RPs : Taken(q)' <=> Taken(q) \/ q = rp
<1>1. src # None /\ src \in Contents
  BY DeltaSyncAssumption DEF TypeOK, Contents, Blocks, Versions
<1>2. ~Taken(rp) /\ \A q \in RPs : Taken(q) => q < rp
  BY DeltaSyncAssumption DEF NewPoint
<1>3. snap' = [snap EXCEPT ![rp] = src]
  BY DEF NewPoint
<1>4. snap' \in [RPs -> Contents \cup {None}] /\ snap'[rp] = src
      /\ \A q \in RPs : q # rp => snap'[q] = snap[q]
  BY <1>1, <1>3 DEF TypeOK
<1> QED BY <1>1, <1>2, <1>4 DEF Taken

LEMMA SourceTypes ==
  ASSUME TypeInv, Source
  PROVE  TypeInv'
<1>1. ASSUME NEW b \in Blocks, SourceWrites(b)
      PROVE  TypeInv'
  <2>1. src' \in Contents
    BY <1>1, DeltaSyncAssumption DEF SourceWrites, TypeInv, TypeOK, Contents, Versions
  <2> QED BY <1>1, <2>1
          DEF SourceWrites, target, TypeInv, TypeOK, BundleInv, WriterInv, Taken
<1>2. ASSUME NEW rp \in RPs, NewPoint(rp), points' = points \cup {rp},
             bundles' \in {bundles, bundles \cup {<<None, rp>>}},
             UNCHANGED <<file, src, sourceRunning, target>>
      PROVE  TypeInv'
  <2>1. TypeOK'
    BY <1>2, NewPointOK DEF target, TypeInv, TypeOK
  <2>2. BundleInv'
    BY <1>2, NewPointOK DEF TypeInv, TypeOK, BundleInv
  <2>3. WriterInv'
    BY <1>2 DEF TypeInv, WriterInv, target
  <2> QED BY <2>1, <2>2, <2>3 DEF TypeInv
<1>3. ASSUME NEW rp \in RPs, RctBaseline(rp)
      PROVE  TypeInv'
  BY <1>2, <1>3 DEF RctBaseline, NewPoint
<1>4. ASSUME NEW base \in RPs, NEW rp \in RPs, RctSync(base, rp)
      PROVE  TypeInv'
  BY <1>2, <1>4 DEF RctSync, NewPoint
<1>5. ASSUME NEW from \in RPs, NEW to \in RPs, NativeDelta(from, to)
      PROVE  TypeInv'
  <2>1. TypeOK'
    BY <1>5 DEF NativeDelta, target, TypeInv, TypeOK, Taken
  <2>2. BundleInv'
    BY <1>5 DEF NativeDelta, TypeInv, TypeOK, BundleInv, Taken
  <2>3. WriterInv'
    BY <1>5 DEF NativeDelta, TypeInv, WriterInv, target
  <2> QED BY <2>1, <2>2, <2>3 DEF TypeInv
<1>6. ASSUME NEW old \in RPs, NEW new \in RPs, CommitSync(old, new)
      PROVE  TypeInv'
  BY <1>6 DEF CommitSync, target, TypeInv, TypeOK, BundleInv, WriterInv, Taken
<1>7. CASE StopSource
  BY <1>7 DEF StopSource, target, TypeInv, TypeOK, BundleInv, WriterInv, Taken
<1> QED BY <1>1, <1>3, <1>4, <1>5, <1>6, <1>7 DEF Source

LEMMA ControllerTypes ==
  ASSUME TypeInv, Controller
  PROVE  TypeInv'
<1> USE RecordTypes
<1>0. file \in StateRecord
  BY DEF TypeInv, TypeOK
<1>1. ASSUME NEW rp \in RPs, IngestBaseline(rp)
      PROVE  TypeInv'
  BY <1>0, <1>1, CommandTypes DEF IngestBaseline
<1>2. ASSUME NEW rp \in RPs, NEW n \in 1..MaxSeq, IngestSync(rp, n)
      PROVE  TypeInv'
  BY <1>0, <1>2, CommandTypes DEF IngestSync
<1>3. ASSUME NEW rp \in RPs, NEW n \in 1..MaxSeq, NEW ready \in BOOLEAN, RegisterSync(rp, n, ready)
      PROVE  TypeInv'
  BY <1>0, <1>3, CommandTypes DEF RegisterSync
<1>4. CASE MarkTested \/ AuthorizeCutover \/ MarkSourceStopped \/ MarkFinalSync
  <2>1. CASE MarkTested
    BY <1>0, <2>1, CommandTypes DEF MarkTested
  <2>2. CASE AuthorizeCutover
    BY <1>0, <2>2, CommandTypes DEF AuthorizeCutover
  <2>3. CASE MarkSourceStopped
    BY <1>0, <2>3, CommandTypes DEF MarkSourceStopped
  <2>4. CASE MarkFinalSync
    BY <1>0, <2>4, CommandTypes DEF MarkFinalSync
  <2> QED BY <1>4, <2>1, <2>2, <2>3, <2>4
<1>5. ASSUME NEW test \in VNets, NEW prod \in VNets, Seed(test, prod)
      PROVE  TypeInv'
  <2>1. dst' \in [Blocks -> Versions \cup {None}]
    <3>1. Taken(file.authoritative_reference_point)
      BY <1>5 DEF Seed, TypeInv, BundleInv
    <3>2. dst' \in Contents
      BY <1>5, <3>1 DEF Seed, TypeInv, TypeOK, Taken
    <3> QED BY <3>2 DEF Contents
  <2>2. TypeOK'
    BY <1>0, <1>5, <2>1 DEF Seed, source, TypeInv, TypeOK, Taken
  <2> QED BY <1>5, <2>2 DEF Seed, source, TypeInv, BundleInv, WriterInv, Taken
<1>6. CASE TestStart \/ TestStop
  <2>1. TypeOK'
    <3>1. file' \in StateRecord /\ running' \in BOOLEAN
      BY <1>0, <1>6 DEF TestStart, TestStop
    <3>2. applied' \in {applied, <<None, None>>} /\ UNCHANGED <<source, dst, writer, orphan>>
      BY <1>6 DEF TestStart, TestStop
    <3> QED BY <3>1, <3>2 DEF source, TypeInv, TypeOK, Taken
  <2> QED BY <1>6, <2>1 DEF TestStart, TestStop, source, TypeInv, BundleInv, WriterInv, Taken
<1>7. ASSUME NEW bundle \in bundles, ApplyDelta(bundle)
      PROVE  TypeInv'
  <2>1. writer' \in Writers /\ writer'.bundle = bundle
    BY <1>7 DEF ApplyDelta, Writers, TypeInv, TypeOK, Changed
  <2>2. TypeOK'
    BY <1>7, <2>1 DEF ApplyDelta, source, TypeInv, TypeOK, Taken
  <2> QED BY <1>7, <2>1, <2>2 DEF ApplyDelta, source, TypeInv, BundleInv, WriterInv, Taken
<1>8. CASE WriteBlock
  <2>1. writer' = Wrote(writer) /\ dst' = Written(writer) /\ writer.left # {}
    BY <1>8 DEF WriteBlock
  <2>2. writer # NoWriter
    BY <2>1 DEF NoWriter
  <2>3. writer' \in Writers /\ writer'.bundle = writer.bundle
        /\ dst' \in [Blocks -> Versions \cup {None}]
    BY <2>1, WriteOK
  <2>4. TypeOK'
    BY <1>8, <2>3 DEF WriteBlock, source, TypeInv, TypeOK, Taken
  <2> QED BY <1>8, <2>2, <2>3, <2>4
          DEF WriteBlock, source, TypeInv, BundleInv, WriterInv, Taken
<1>9. CASE ApplySucceeds \/ ApplyFails
  <2>1. writer' = NoWriter /\ orphan' \in {orphan, writer} /\ UNCHANGED <<file, source, dst, running>>
    BY <1>9 DEF ApplySucceeds, ApplyFails
  <2>2. applied' \in {applied, writer.bundle}
    BY <1>9 DEF ApplySucceeds, ApplyFails
  <2>3. TypeOK'
    BY <2>1, <2>2, NoWriterOK DEF source, TypeInv, TypeOK, Taken, Writers
  <2> QED BY <2>1, <2>3 DEF source, TypeInv, BundleInv, WriterInv, Taken
<1> QED
  BY <1>1, <1>2, <1>3, <1>4, <1>5, <1>6, <1>7, <1>8, <1>9 DEF Controller

LEMMA NodeTypes ==
  ASSUME TypeInv, Node
  PROVE  TypeInv'
<1>1. ASSUME NEW b \in Blocks, GuestWrites(b)
      PROVE  TypeInv'
  <2>1. TypeOK'
    BY <1>1 DEF GuestWrites, source, TypeInv, TypeOK, Taken
  <2> QED BY <1>1, <2>1 DEF GuestWrites, source, TypeInv, BundleInv, WriterInv, Taken
<1>2. CASE GuestPowersOff
  <2>1. TypeOK'
    BY <1>2 DEF GuestPowersOff, source, TypeInv, TypeOK, Taken
  <2> QED BY <1>2, <2>1 DEF GuestPowersOff, source, TypeInv, BundleInv, WriterInv, Taken
<1>3. CASE OrphanWrites
  <2>1. /\ orphan' \in Writers
        /\ orphan' = NoWriter \/ orphan'.bundle = orphan.bundle
        /\ dst' \in [Blocks -> Versions \cup {None}]
    BY <1>3, NoWriterOK, WriteOK DEF OrphanWrites, TypeInv, TypeOK
  <2>2. orphan # NoWriter /\ UNCHANGED <<file, source, running, writer, applied>>
    BY <1>3 DEF OrphanWrites
  <2>3. TypeOK'
    BY <2>1, <2>2 DEF source, TypeInv, TypeOK, Taken
  <2> QED BY <2>1, <2>2, <2>3 DEF source, TypeInv, BundleInv, WriterInv, Taken
<1> QED BY <1>1, <1>2, <1>3 DEF Node

LEMMA SyncTypingInit ==
  ASSUME Init
  PROVE  TypeInv
<1>1. NewState \in StateRecord
  BY StateAssumption DEF NewState, StateRecord, Phases, Seqs
<1>2. src \in Contents
  BY DeltaSyncAssumption DEF Init, Contents, Versions
<1>3. TypeOK
  BY <1>1, <1>2, NoWriterOK DEF Init, TypeOK
<1> QED BY <1>3 DEF Init, TypeInv, BundleInv, WriterInv

LEMMA SyncTypingStep ==
  ASSUME TypeInv, [Next]_vars
  PROVE  TypeInv'
<1>1. CASE UNCHANGED vars
  <2>1. TypeOK'
    BY <1>1 DEF vars, source, target, TypeInv, TypeOK, Taken
  <2> QED BY <1>1, <2>1 DEF vars, source, target, TypeInv, BundleInv, WriterInv, Taken
<1> QED BY <1>1, SourceTypes, ControllerTypes, NodeTypes DEF Next

\* TypeOK needs more than the types: a writer must have a bundle of taken points.
THEOREM SyncTyping == Spec => []TypeOK
<1>1. Init => TypeInv
  BY SyncTypingInit
<1>2. TypeInv /\ [Next]_vars => TypeInv'
  BY SyncTypingStep
<1>3. TypeInv => TypeOK
  BY DEF TypeInv
<1> QED BY <1>1, <1>2, <1>3, PTL DEF Spec

(* ----------------------------- what is recorded ---------------------------- *)

\* The authoritative and the newest point of a seeded migration were taken, in
\* that order, and so was the end of every bundle that is written or applied.
LEMMA Named ==
  ASSUME TypeInv, DataInv
  PROVE  /\ Pending # None => Pending \in RPs /\ Taken(Pending)
         /\ Authoritative # None /\ Pending # None => Authoritative < Pending
         /\ file.proxmox_vmid => /\ {Authoritative, Newest} \subseteq RPs
                                 /\ Taken(Authoritative) /\ Taken(Newest)
                                 /\ Authoritative <= Newest
         /\ orphan # NoWriter => orphan.bundle[2] \in RPs /\ Taken(orphan.bundle[2])
         /\ applied # <<None, None>> => applied[2] \in RPs /\ Taken(applied[2])
<1>1. Pending # None => Pending \in RPs /\ Taken(Pending)
  BY DEF DataInv, PointInv, TypeInv, TypeOK, BundleInv
<1>2. Authoritative # None /\ Pending # None => Authoritative < Pending
  BY DEF DataInv, PointInv, TypeInv, BundleInv
<1>3. file.proxmox_vmid => Authoritative \in RPs /\ Taken(Authoritative) /\ Authoritative # None
  <2>1. file.proxmox_vmid => Authoritative # None
    BY DEF DataInv, RecordInv, Fresh
  <2>2. Authoritative # None => Taken(Authoritative)
    BY DEF DataInv, PointInv
  <2> QED BY <2>1, <2>2 DEF Taken
<1>4. file.proxmox_vmid => Newest \in RPs /\ Taken(Newest) /\ Authoritative <= Newest
  BY <1>1, <1>2, <1>3, DeltaSyncAssumption DEF Newest
<1>5. /\ orphan # NoWriter => orphan.bundle[2] \in RPs /\ Taken(orphan.bundle[2])
      /\ applied # <<None, None>> => applied[2] \in RPs /\ Taken(applied[2])
  BY DEF DataInv, AppliedInv, TypeInv, TypeOK, WriterInv, BundleInv
<1> QED BY <1>1, <1>2, <1>3, <1>4, <1>5

\* An earlier point holds earlier versions, and an equal one the same.
LEMMA Ordered ==
  ASSUME TypeInv, SnapInv, NEW p \in RPs, NEW q \in RPs, Taken(p), Taken(q), p <= q, NEW b \in Blocks
  PROVE  /\ snap[p][b] \in Versions /\ snap[q][b] \in Versions /\ src[b] \in Versions
         /\ snap[p][b] <= snap[q][b] /\ snap[q][b] <= src[b]
<1>1. snap[p] \in Contents /\ snap[q] \in Contents /\ src \in Contents
  BY DEF TypeInv, TypeOK, Taken
<1>2. snap[p][b] \in Versions /\ snap[q][b] \in Versions /\ src[b] \in Versions
  BY <1>1 DEF Contents
<1>3. p = q \/ p < q
  BY DeltaSyncAssumption
<1> QED BY <1>2, <1>3 DEF SnapInv, Versions

(* -------------------------------- the source ------------------------------- *)

\* What happens on the source alone leaves the destination as recorded.
LEMMA SameTarget ==
  ASSUME TypeInv, DataInv, UNCHANGED <<file, target>>, src' = src \/ ~file.final_sync,
         \A rp \in RPs : Taken(rp) => snap'[rp] = snap[rp], bundles \subseteq bundles'
  PROVE  /\ BetweenInv' /\ WritingInv' /\ OrphanInv' /\ AppliedInv' /\ FinalInv'
         /\ Authoritative' = Authoritative /\ Pending' = Pending
<1>0. Authoritative' = Authoritative /\ Pending' = Pending /\ Newest' = Newest
  BY DEF Authoritative, Pending, Newest
<1>1. BetweenInv'
  <2>1. file.proxmox_vmid => snap'[Authoritative] = snap[Authoritative]
                             /\ snap'[Newest] = snap[Newest]
    BY Named
  <2> QED BY <1>0, <2>1 DEF BetweenInv, DataInv, target
<1>2. WritingInv'
  <2>1. writer # NoWriter => snap'[Pending] = snap[Pending]
    <3>1. writer # NoWriter => Pending \in RPs /\ Pending # None
      BY StateAssumption DEF DataInv, WritingInv, TypeInv, TypeOK, WriterInv
    <3> QED BY <3>1, Named
  <2> QED BY <1>0, <2>1 DEF WritingInv, HoldsExcept, DataInv, target
<1>3. OrphanInv'
  BY <1>0 DEF OrphanInv, DataInv, target
<1>4. AppliedInv'
  <2>1. applied # <<None, None>> => snap'[applied[2]] = snap[applied[2]]
    BY Named
  <2> QED BY <2>1 DEF AppliedInv, HoldsExcept, DataInv, target
<1>5. FinalInv'
  <2>1. /\ Pending # None => snap'[Pending] = snap[Pending]
        /\ orphan # NoWriter => snap'[orphan.bundle[2]] = snap[orphan.bundle[2]]
    BY Named
  <2> QED BY <1>0, <2>1 DEF FinalInv, DataInv, target
<1> QED BY <1>0, <1>1, <1>2, <1>3, <1>4, <1>5

LEMMA SourceData ==
  ASSUME Runbook, TypeInv, DataInv, Source
  PROVE  DataInv'
<1>1. ASSUME NEW b \in Blocks, SourceWrites(b)
      PROVE  DataInv'
  <2>1. UNCHANGED <<file, target, sourceRunning, snap, points, bundles>> /\ ~file.final_sync
    BY <1>1 DEF SourceWrites, DataInv, RecordInv
  <2>2. SnapInv'
    <3>1. \A c \in Blocks : src[c] \in Int /\ src'[c] \in Int /\ src[c] <= src'[c]
      BY <1>1 DEF SourceWrites, TypeInv, TypeOK, Contents, Versions
    <3>2. ASSUME NEW rp \in RPs, Taken(rp), NEW c \in Blocks
          PROVE  snap[rp][c] <= src'[c]
      <4>1. snap[rp][c] \in Versions /\ snap[rp][c] <= src[c]
        BY <3>2, Ordered, DeltaSyncAssumption DEF DataInv
      <4> QED BY <3>1, <4>1 DEF Versions
    <3> QED BY <2>1, <3>2 DEF SnapInv, DataInv, Taken
  <2>3. RecordInv' /\ PointInv'
    BY <2>1 DEF RecordInv, PointInv, DataInv, Authoritative, Pending, Taken
  <2> QED BY <2>1, <2>2, <2>3, SameTarget DEF DataInv
<1>2. ASSUME NEW rp \in RPs, NewPoint(rp), bundles' \in {bundles, bundles \cup {<<None, rp>>}},
             UNCHANGED <<file, src, sourceRunning, target>>
      PROVE  DataInv'
  <2>1. /\ \A q \in RPs : Taken(q) => snap'[q] = snap[q] /\ q < rp
        /\ \A q \in RPs : Taken(q)' <=> Taken(q) \/ q = rp
        /\ snap'[rp] = src /\ ~Taken(rp)
    BY <1>2, NewPointOK DEF TypeInv
  <2>2. SnapInv'
    <3> SUFFICES ASSUME NEW q \in RPs, Taken(q)', NEW b \in Blocks
                 PROVE  /\ snap'[q][b] <= src[b]
                        /\ \A later \in RPs :
                             Taken(later)' /\ q < later => snap'[q][b] <= snap'[later][b]
      BY <1>2 DEF SnapInv
    <3>1. src[b] \in Nat
      BY DEF TypeInv, TypeOK, Contents, Versions
    <3>2. CASE Taken(q)
      <4>1. snap'[q][b] <= src[b]
        BY <2>1, <3>2 DEF DataInv, SnapInv
      <4> QED BY <2>1, <3>2, <4>1 DEF DataInv, SnapInv
    <3>3. CASE q = rp
      <4>1. \A later \in RPs : Taken(later)' => ~(rp < later)
        BY <2>1, DeltaSyncAssumption
      <4> QED BY <2>1, <3>1, <3>3, <4>1
    <3> QED BY <2>1, <3>2, <3>3
  <2>3. RecordInv'
    <3>1. file' = file /\ sourceRunning' = sourceRunning
      BY <1>2
    <3> QED BY <3>1 DEF RecordInv, DataInv, Authoritative
  <2>4. PointInv'
    <3>1. /\ Authoritative' = Authoritative /\ Pending' = Pending
          /\ bundles \subseteq bundles' /\ points' = points \cup {rp}
      BY <1>2 DEF Authoritative, Pending, NewPoint
    <3>2. (Authoritative # None => Taken(Authoritative))'
      <4>1. Authoritative # None => Authoritative \in RPs /\ Taken(Authoritative)
        BY DEF DataInv, PointInv, Taken
      <4> QED BY <2>1, <3>1, <4>1 DEF Taken
    <3>3. ASSUME NEW q \in RPs, Taken(q)', Authoritative = None \/ Authoritative <= q
          PROVE  q \in points'
      BY <2>1, <3>1, <3>3 DEF DataInv, PointInv
    <3>4. (Pending # None => <<Authoritative, Pending>> \in bundles)'
      BY <3>1 DEF DataInv, PointInv
    <3> QED BY <3>1, <3>2, <3>3, <3>4 DEF PointInv
  <2>5. bundles \subseteq bundles'
    BY <1>2
  <2> QED BY <1>2, <2>1, <2>2, <2>3, <2>4, <2>5, SameTarget DEF DataInv
<1>3. ASSUME NEW rp \in RPs, RctBaseline(rp)
      PROVE  DataInv'
  BY <1>2, <1>3 DEF RctBaseline
<1>4. ASSUME NEW base \in RPs, NEW rp \in RPs, RctSync(base, rp)
      PROVE  DataInv'
  BY <1>2, <1>4 DEF RctSync
<1>5. ASSUME NEW from \in RPs, NEW to \in RPs, NativeDelta(from, to)
      PROVE  DataInv'
  <2>1. UNCHANGED <<file, target, src, sourceRunning, snap, points>> /\ bundles \subseteq bundles'
    BY <1>5 DEF NativeDelta
  <2>2. SnapInv' /\ RecordInv' /\ PointInv'
    BY <2>1 DEF SnapInv, RecordInv, PointInv, DataInv, Authoritative, Pending, Taken
  <2> QED BY <2>1, <2>2, SameTarget DEF DataInv
<1>6. ASSUME NEW old \in RPs, NEW new \in RPs, CommitSync(old, new)
      PROVE  DataInv'
  <2>1. /\ UNCHANGED <<file, target, src, sourceRunning, snap, bundles>>
        /\ points' = points \ {old} /\ new = Authoritative /\ <<old, new>> \in bundles
    BY <1>6 DEF CommitSync, Authoritative
  <2>2. old < Authoritative /\ Authoritative # None
    BY <2>1, StateAssumption DEF TypeInv, BundleInv
  <2>3. SnapInv' /\ RecordInv'
    BY <2>1 DEF SnapInv, RecordInv, DataInv, Authoritative, Taken
  <2>4. PointInv'
    BY <2>1, <2>2, DeltaSyncAssumption DEF PointInv, DataInv, Authoritative, Pending, Taken
  <2> QED BY <2>1, <2>3, <2>4, SameTarget DEF DataInv
<1>7. CASE StopSource
  <2>1. UNCHANGED <<file, target, src, snap, points, bundles>> /\ ~sourceRunning'
    BY <1>7 DEF StopSource
  <2>2. SnapInv' /\ RecordInv' /\ PointInv'
    BY <2>1 DEF SnapInv, RecordInv, PointInv, DataInv, Authoritative, Pending, Taken
  <2> QED BY <2>1, <2>2, SameTarget DEF DataInv
<1> QED BY <1>1, <1>3, <1>4, <1>5, <1>6, <1>7 DEF Source

(* -------------------------------- the record ------------------------------- *)

\* A command that keeps the points of the record and its final sync.
LEMMA SamePoints ==
  ASSUME TypeInv, DataInv, UNCHANGED <<source, dst, writer, orphan>>,
         file'.authoritative_reference_point = Authoritative,
         file'.pending_reference_point = Pending,
         file'.proxmox_vmid = file.proxmox_vmid,
         file'.final_sync = file.final_sync,
         applied' \in {applied, <<None, None>>}, 
         RecordInv'
  PROVE  DataInv'
<1>0. Authoritative' = Authoritative /\ Pending' = Pending /\ Newest' = Newest
  BY DEF Authoritative, Pending, Newest
<1>1. SnapInv' /\ PointInv' /\ BetweenInv'
  BY <1>0 DEF source, DataInv, SnapInv, PointInv, BetweenInv, Taken
<1>2. WritingInv' /\ OrphanInv' /\ AppliedInv' /\ FinalInv'
  BY <1>0 DEF source, DataInv, WritingInv, OrphanInv, AppliedInv, FinalInv, HoldsExcept
<1> QED BY <1>1, <1>2 DEF DataInv

\* The phases that a command of DeltaSync can come from.
LEMMA EntersFrom ==
  ASSUME NEW s \in StateRecord, s.phase \notin {"DISCOVERED", "FAILED"}, NEW ph, MayEnter(s, ph)
  PROVE  /\ ph = "TESTED" => s.phase \in {"SEEDED", "TESTED"}
         /\ ph = "SYNCING" => s.phase \in {"TESTED", "SYNCING", "CUTOVER_READY"}
         /\ ph = "CUTOVER_IN_PROGRESS" => s.phase \in {"CUTOVER_READY", "CUTOVER_IN_PROGRESS"}
  BY DEF MayEnter, AllowedTransitions, StateRecord, Phases

LEMMA StaysData ==
  ASSUME Runbook, TypeInv, DataInv,
         MarkTested \/ AuthorizeCutover \/ MarkSourceStopped \/ TestStart \/ TestStop
  PROVE  DataInv'
<1>0. file \in StateRecord /\ RecordInv /\ file.phase \notin {"DISCOVERED", "FAILED"}
  BY DEF TypeInv, TypeOK, DataInv, RecordInv
<1>1. ASSUME NEW r, file' = r, UNCHANGED <<source, dst, writer, orphan>>,
             applied' \in {applied, <<None, None>>},
             r.authoritative_reference_point = Authoritative,
             r.pending_reference_point = Pending,
             r.proxmox_vmid = file.proxmox_vmid, r.disk_map = file.disk_map,
             r.last_sync_verified = file.last_sync_verified, r.final_sync = file.final_sync,
             r.phase = file.phase \/ (/\ r.phase \in {"TESTED", "CUTOVER_IN_PROGRESS"}
                                      /\ file.phase \notin Fresh
                                      /\ ~file.source_stopped),
             file.source_stopped => r.source_stopped,
             r.source_stopped =>
               file.source_stopped \/ (r.phase = "CUTOVER_IN_PROGRESS" /\ ~sourceRunning)
      PROVE  DataInv'
  <2>1. RecordInv'
    <3>1. file' = r /\ sourceRunning' = sourceRunning /\ Authoritative' = Authoritative
      BY <1>1 DEF source, Authoritative
    <3>2. CASE r.phase = file.phase
      BY <1>0, <1>1, <3>1, <3>2 DEF RecordInv, Fresh
    <3>3. CASE /\ r.phase \in {"TESTED", "CUTOVER_IN_PROGRESS"}
               /\ file.phase \notin Fresh /\ ~file.source_stopped
      BY <1>0, <1>1, <3>1, <3>3 DEF RecordInv, Fresh
    <3> QED BY <1>1, <3>2, <3>3
  <2> QED BY <1>1, <2>1, SamePoints
<1>2. CASE MarkTested
  <2>1. Tested(file).phase = file.phase /\ CanMarkTested(file) /\ file' = AfterMarkTested(file)
    BY <1>0, <1>2 DEF MarkTested, Command, Tested, StateRecord
  <2>2. file.phase \in {"SEEDED", "TESTED"}
    BY <1>0, <2>1, EntersFrom DEF CanMarkTested, CanSetPhase, MayEnter
  <2> DEFINE r == AfterMarkTested(file)
  <2>3. /\ r.authoritative_reference_point = Authoritative
        /\ r.pending_reference_point = Pending
        /\ r.proxmox_vmid = file.proxmox_vmid /\ r.disk_map = file.disk_map
        /\ r.last_sync_verified = file.last_sync_verified /\ r.final_sync = file.final_sync
        /\ r.source_stopped = file.source_stopped /\ r.phase = "TESTED"
    BY <1>0 DEF AfterMarkTested, SetPhase, Tested, StateRecord, Authoritative, Pending
  <2>4. ~file.source_stopped /\ file.phase \notin Fresh
    BY <1>0, <2>2 DEF RecordInv, Fresh
  <2>5. UNCHANGED <<source, dst, writer, orphan, applied>>
    BY <1>2 DEF MarkTested, Command
  <2> QED BY <1>1, <2>1, <2>3, <2>4, <2>5
<1>3. CASE AuthorizeCutover
  <2>1. /\ Authorized(file).phase = file.phase
        /\ CanAuthorizeCutover(file) /\ file' = AfterAuthorizeCutover(file)
    BY <1>0, <1>3 DEF AuthorizeCutover, Command, Authorized, StateRecord
  <2>2. file.phase \in {"CUTOVER_READY", "CUTOVER_IN_PROGRESS"}
    BY <1>0, <2>1, EntersFrom DEF CanAuthorizeCutover, CanSetPhase, MayEnter
  <2> DEFINE r == AfterAuthorizeCutover(file)
  <2>3. /\ r.authoritative_reference_point = Authoritative
        /\ r.pending_reference_point = Pending
        /\ r.proxmox_vmid = file.proxmox_vmid /\ r.disk_map = file.disk_map
        /\ r.last_sync_verified = file.last_sync_verified /\ r.final_sync = file.final_sync
        /\ r.source_stopped = file.source_stopped /\ r.phase = "CUTOVER_IN_PROGRESS"
    BY <1>0 DEF AfterAuthorizeCutover, SetPhase, Authorized, StateRecord, Authoritative, Pending
  <2>4. file.phase = "CUTOVER_IN_PROGRESS" \/ (file.phase \notin Fresh /\ ~file.source_stopped)
    BY <1>0, <2>2 DEF RecordInv, Fresh
  <2>5. UNCHANGED <<source, dst, writer, orphan, applied>>
    BY <1>3 DEF AuthorizeCutover, Command
  <2> QED BY <1>1, <2>1, <2>3, <2>4, <2>5
<1>4. CASE MarkSourceStopped
  <2>1. /\ file' = AfterMarkSourceStopped(file) /\ file.phase = "CUTOVER_IN_PROGRESS"
        /\ ~sourceRunning /\ UNCHANGED <<source, dst, writer, orphan, applied>>
    BY <1>4 DEF MarkSourceStopped, Command, CanMarkSourceStopped
  <2> DEFINE r == AfterMarkSourceStopped(file)
  <2>2. /\ r.authoritative_reference_point = Authoritative
        /\ r.pending_reference_point = Pending
        /\ r.proxmox_vmid = file.proxmox_vmid /\ r.disk_map = file.disk_map
        /\ r.last_sync_verified = file.last_sync_verified /\ r.final_sync = file.final_sync
        /\ r.phase = file.phase /\ r.source_stopped
    BY <1>0 DEF AfterMarkSourceStopped, StateRecord, Authoritative, Pending
  <2> QED BY <1>1, <2>1, <2>2
<1>5. CASE TestStart \/ TestStop
  <2>1. PICK r \in {AfterTestStart(file), AfterTestStop(file)} : file' = r
    BY <1>5 DEF TestStart, TestStop
  <2>2. /\ r.authoritative_reference_point = Authoritative
        /\ r.pending_reference_point = Pending
        /\ r.proxmox_vmid = file.proxmox_vmid /\ r.disk_map = file.disk_map
        /\ r.last_sync_verified = file.last_sync_verified /\ r.final_sync = file.final_sync
        /\ r.source_stopped = file.source_stopped /\ r.phase = file.phase
    BY <1>0, <2>1 DEF AfterTestStart, AfterTestStop, StateRecord, Authoritative, Pending
  <2>3. UNCHANGED <<source, dst, writer, orphan>> /\ applied' \in {applied, <<None, None>>}
    BY <1>5 DEF TestStart, TestStop
  <2> QED BY <1>1, <2>1, <2>2, <2>3
<1> QED BY <1>2, <1>3, <1>4, <1>5

\* Before the seed nothing is written, applied or left behind.
LEMMA NothingYet ==
  ASSUME DataInv, ~file.proxmox_vmid
  PROVE  writer = NoWriter /\ orphan = NoWriter /\ applied = <<None, None>>
  BY DEF DataInv, WritingInv, OrphanInv, AppliedInv

LEMMA IngestBaselineData ==
  ASSUME Runbook, TypeInv, DataInv, NEW rp \in RPs, IngestBaseline(rp)
  PROVE  DataInv'
<1>1. /\ file.phase = "NEW" /\ file' = AfterIngestBaseline(rp) /\ <<None, rp>> \in bundles
      /\ UNCHANGED <<source, dst, running, writer, orphan, applied>>
  BY DEF IngestBaseline, Command
<1>2. /\ file'.phase = "BASELINE_READY" /\ Authoritative' = rp /\ Pending' = None
      /\ ~file'.proxmox_vmid /\ ~file'.disk_map /\ ~file'.last_sync_verified
      /\ ~file'.final_sync /\ ~file'.source_stopped
  BY <1>1 DEF AfterIngestBaseline, NewState, Authoritative, Pending
<1>3. ~file.proxmox_vmid /\ Authoritative = None
  BY <1>1 DEF DataInv, RecordInv, Fresh
<1>4. writer' = NoWriter /\ orphan' = NoWriter /\ applied' = <<None, None>>
  BY <1>1, <1>3, NothingYet
<1>5. RecordInv'
  BY <1>2, StateAssumption DEF RecordInv, Fresh
<1>6. PointInv'
  <2>1. Taken(rp)
    BY <1>1 DEF TypeInv, BundleInv
  <2> QED BY <1>1, <1>2, <1>3, <2>1 DEF source, DataInv, PointInv, Taken
<1>7. SnapInv'
  BY <1>1 DEF source, DataInv, SnapInv, Taken
<1> QED BY <1>2, <1>4, <1>5, <1>6, <1>7
        DEF DataInv, BetweenInv, WritingInv, OrphanInv, AppliedInv, FinalInv

LEMMA IngestSyncData ==
  ASSUME Runbook, TypeInv, DataInv, NEW rp \in RPs, NEW n \in 1..MaxSeq, IngestSync(rp, n)
  PROVE  DataInv'
<1>1. /\ file' = AfterIngestSync(file, rp, n) /\ Taken(rp) /\ writer = NoWriter
      /\ <<Authoritative, rp>> \in bundles
      /\ Pending # None => Pending <= rp
      /\ UNCHANGED <<source, dst, running, writer, orphan, applied>>
  BY DEF IngestSync, Command, Authoritative, Pending
<1>2. /\ Authoritative' = Authoritative /\ Pending' = rp /\ Newest' = rp
      /\ file'.phase = file.phase /\ file'.proxmox_vmid = file.proxmox_vmid
      /\ file'.disk_map = file.disk_map /\ ~file'.last_sync_verified
      /\ file'.final_sync = file.final_sync /\ file'.source_stopped = file.source_stopped
  BY <1>1, StateAssumption
  DEF AfterIngestSync, TypeInv, TypeOK, StateRecord, Authoritative, Pending, Newest
<1>3. SnapInv' /\ RecordInv' /\ PointInv'
  BY <1>1, <1>2 DEF source, DataInv, SnapInv, RecordInv, PointInv, Taken
<1>4. file.proxmox_vmid => Newest <= rp /\ Authoritative <= rp
  <2>1. Authoritative # None => Authoritative < rp
    BY <1>1 DEF TypeInv, BundleInv
  <2>2. file.proxmox_vmid => Authoritative # None /\ Authoritative \in RPs
    BY Named, StateAssumption DEF DataInv, PointInv, RecordInv, Fresh
  <2>3. file.proxmox_vmid => Authoritative <= rp
    BY <2>1, <2>2, DeltaSyncAssumption
  <2> QED BY <1>1, <2>3 DEF Newest
<1>5. BetweenInv'
  <2> SUFFICES ASSUME file.proxmox_vmid, NEW b \in Blocks, dst[b] # None
               PROVE  snap[Authoritative][b] <= dst[b] /\ dst[b] <= snap[rp][b]
    BY <1>1, <1>2 DEF BetweenInv, source
  <2>1. snap[Authoritative][b] <= dst[b] /\ dst[b] <= snap[Newest][b]
    BY DEF DataInv, BetweenInv
  <2>2. /\ snap[Newest][b] <= snap[rp][b]
        /\ snap[Newest][b] \in Versions /\ snap[rp][b] \in Versions
    BY <1>1, <1>4, Named, Ordered DEF DataInv
  <2>3. dst[b] \in Versions
    BY DEF TypeInv, TypeOK
  <2> QED BY <2>1, <2>2, <2>3 DEF Versions
<1>6. OrphanInv'
  <2>1. orphan # NoWriter => orphan.bundle[2] <= rp
    BY <1>4, Named, DeltaSyncAssumption DEF DataInv, OrphanInv
  <2> QED BY <1>1, <1>2, <2>1 DEF DataInv, OrphanInv
<1>7. AppliedInv' /\ WritingInv'
  BY <1>1, <1>2 DEF source, DataInv, AppliedInv, WritingInv, HoldsExcept
<1>8. FinalInv'
  <2>1. ASSUME file.final_sync
        PROVE  snap[rp] = src
    <3>1. Pending \in RPs /\ Taken(Pending) /\ snap[Pending] = src /\ Pending <= rp
      BY <1>1, <2>1, Named DEF DataInv, FinalInv
    <3>2. \A b \in Blocks : snap[rp][b] = src[b]
      BY <1>1, <3>1, Ordered DEF DataInv, Versions
    <3> QED BY <1>1, <3>2 DEF TypeInv, TypeOK, Taken, Contents
  <2>2. UNCHANGED <<src, snap, dst, orphan>> /\ rp # None
    BY <1>1, StateAssumption DEF source
  <2> QED BY <1>2, <2>1, <2>2 DEF DataInv, FinalInv
<1> QED BY <1>3, <1>5, <1>6, <1>7, <1>8 DEF DataInv

LEMMA RegisterSyncData ==
  ASSUME Runbook, TypeInv, DataInv, NEW rp \in RPs, NEW n \in 1..MaxSeq, NEW ready \in BOOLEAN,
         RegisterSync(rp, n, ready)
  PROVE  DataInv'
<1>1. /\ file' = AfterRegisterSync(file, rp, n, ready) /\ CanRegisterSync(file, rp, n)
      /\ rp = Pending /\ applied = <<Authoritative, rp>> /\ Taken(rp) /\ writer = NoWriter
      /\ UNCHANGED <<source, dst, running, writer, orphan, applied>>
  BY DEF RegisterSync, Command, Verified, Authoritative, Pending
<1>2. rp # None /\ applied # <<None, None>>
  BY <1>1, StateAssumption
<1>3. file.phase \in {"TESTED", "SYNCING", "CUTOVER_READY"}
  <2>1. file \in StateRecord /\ file.phase \notin {"DISCOVERED", "FAILED"}
    BY DEF TypeInv, TypeOK, DataInv, RecordInv
  <2>2. Registered(file, rp, n).phase = file.phase
    BY <2>1 DEF Registered, StateRecord
  <2> QED BY <1>1, <2>1, <2>2, EntersFrom DEF CanRegisterSync, CanSetPhase, MayEnter
<1>4. /\ file'.phase \in {"SYNCING", "CUTOVER_READY"}
      /\ Authoritative' = rp /\ Pending' = None /\ Newest' = rp
      /\ file'.proxmox_vmid = file.proxmox_vmid /\ file'.disk_map = file.disk_map
      /\ file'.final_sync = file.final_sync /\ file'.source_stopped = file.source_stopped
  BY <1>1
  DEF AfterRegisterSync, SetPhase, Registered, TypeInv, TypeOK, StateRecord, Authoritative,
      Pending, Newest
<1>5. ~file.source_stopped /\ ~file.final_sync
  BY <1>3 DEF DataInv, RecordInv
<1>6. SnapInv' /\ RecordInv'
  BY <1>1, <1>2, <1>3, <1>4, <1>5 DEF source, DataInv, SnapInv, RecordInv, Taken, Fresh
<1>7. PointInv'
  <2>1. Authoritative = None \/ Authoritative < rp
    BY <1>1, <1>2, Named
  <2>2. ASSUME NEW q \in RPs, Taken(q), rp <= q
        PROVE  q \in points
    <3>1. Authoritative = None \/ Authoritative <= q
      BY <2>1, <2>2, DeltaSyncAssumption DEF DataInv, PointInv, Taken
    <3> QED BY <2>2, <3>1 DEF DataInv, PointInv
  <2> QED BY <1>1, <1>2, <1>4, <2>2 DEF source, PointInv, Taken
<1>8. \A b \in Blocks : dst[b] \in {snap[rp][b], None}
  BY <1>1, <1>2 DEF DataInv, AppliedInv, HoldsExcept
<1>9. BetweenInv'
  <2>1. \A b \in Blocks : snap[rp][b] \in Versions
    BY <1>1, Ordered, DeltaSyncAssumption DEF DataInv
  <2> QED BY <1>1, <1>4, <1>8, <2>1 DEF source, BetweenInv, Versions
<1>10. OrphanInv'
  <2>1. orphan # NoWriter => orphan.bundle[2] = rp
    BY <1>1, <1>2 DEF DataInv, OrphanInv
  <2> QED BY <1>1, <1>4, <2>1, DeltaSyncAssumption DEF DataInv, OrphanInv
<1>11. AppliedInv' /\ WritingInv' /\ FinalInv'
  BY <1>1, <1>4, <1>5 DEF source, DataInv, AppliedInv, WritingInv, FinalInv, HoldsExcept
<1> QED BY <1>6, <1>7, <1>9, <1>10, <1>11 DEF DataInv

LEMMA MarkFinalSyncData ==
  ASSUME Runbook, TypeInv, DataInv, MarkFinalSync
  PROVE  DataInv'
<1>1. /\ file' = AfterMarkFinalSync(file) /\ file.source_stopped
      /\ Pending # None /\ snap[Pending] = src /\ applied = <<Authoritative, Pending>>
      /\ UNCHANGED <<source, dst, running, writer, orphan, applied>>
  BY DEF MarkFinalSync, Command, CanMarkFinalSync, Verified, Authoritative, Pending
<1>2. /\ Authoritative' = Authoritative /\ Pending' = Pending /\ Newest' = Newest
      /\ file'.phase = file.phase /\ file'.proxmox_vmid = file.proxmox_vmid
      /\ file'.disk_map = file.disk_map /\ file'.final_sync
      /\ file'.source_stopped = file.source_stopped
  BY <1>1 DEF AfterMarkFinalSync, TypeInv, TypeOK, StateRecord, Authoritative, Pending, Newest
<1>3. SnapInv' /\ RecordInv' /\ PointInv' /\ BetweenInv'
  <2>1. UNCHANGED <<src, sourceRunning, snap, points, bundles, dst>>
    BY <1>1 DEF source
  <2>2. file.phase = "CUTOVER_IN_PROGRESS"
    BY <1>1 DEF DataInv, RecordInv
  <2>3. RecordInv'
    BY <1>1, <1>2, <2>1, <2>2 DEF DataInv, RecordInv, Fresh
  <2>4. SnapInv' /\ PointInv'
    BY <1>2, <2>1 DEF DataInv, SnapInv, PointInv, Taken
  <2>5. BetweenInv'
    BY <1>2, <2>1 DEF DataInv, BetweenInv
  <2> QED BY <2>3, <2>4, <2>5
<1>4. OrphanInv' /\ AppliedInv' /\ WritingInv'
  BY <1>1, <1>2 DEF source, DataInv, OrphanInv, AppliedInv, WritingInv, HoldsExcept
<1>5. FinalInv'
  <2>1. applied # <<None, None>>
    BY <1>1
  <2>2. \A b \in Blocks : dst[b] \in {src[b], None}
    BY <1>1, <2>1 DEF DataInv, AppliedInv, HoldsExcept
  <2>3. orphan # NoWriter => snap[orphan.bundle[2]] = src
    BY <1>1, <2>1 DEF DataInv, OrphanInv
  <2> QED BY <1>1, <1>2, <2>2, <2>3 DEF source, FinalInv
<1> QED BY <1>3, <1>4, <1>5 DEF DataInv

LEMMA SeedData ==
  ASSUME Runbook, TypeInv, DataInv, NEW test \in VNets, NEW prod \in VNets, Seed(test, prod)
  PROVE  DataInv'
<1>1. /\ file.phase = "BASELINE_READY" /\ file' = AfterSeed(file, test, prod)
      /\ dst' = snap[Authoritative]
      /\ UNCHANGED <<source, running, writer, orphan, applied>>
  BY DEF Seed, CanSeed, Authoritative
<1>2. /\ Authoritative' = Authoritative /\ Pending' = Pending /\ Newest' = Newest
      /\ file'.phase = "SEEDED" /\ file'.proxmox_vmid /\ file'.disk_map
      /\ file'.last_sync_verified = file.last_sync_verified
      /\ file'.final_sync = file.final_sync /\ file'.source_stopped = file.source_stopped
  BY <1>1 DEF AfterSeed, SetPhase, Destination, TypeInv, TypeOK, StateRecord, Authoritative,
              Pending, Newest
<1>3. /\ ~file.proxmox_vmid /\ ~file.final_sync /\ ~file.source_stopped
      /\ Authoritative # None
  BY <1>1 DEF DataInv, RecordInv, Fresh
<1>4. writer' = NoWriter /\ orphan' = NoWriter /\ applied' = <<None, None>>
  BY <1>1, <1>3, NothingYet
<1>5. SnapInv' /\ RecordInv' /\ PointInv'
  BY <1>1, <1>2, <1>3 DEF source, DataInv, SnapInv, RecordInv, PointInv, Taken, Fresh
<1>6. BetweenInv'
  <2>1. /\ Authoritative \in RPs /\ Taken(Authoritative)
        /\ Newest \in RPs /\ Taken(Newest) /\ Authoritative <= Newest
    <3>1. Authoritative \in RPs /\ Taken(Authoritative)
      BY <1>3 DEF DataInv, PointInv, Taken
    <3>2. Pending # None => Pending \in RPs /\ Taken(Pending) /\ Authoritative < Pending
      BY <1>3, Named
    <3>3. Newest = Authoritative \/ (Newest = Pending /\ Pending # None)
      BY DEF Newest
    <3>4. CASE Newest = Authoritative
      BY <3>1, <3>4, DeltaSyncAssumption
    <3>5. CASE Newest = Pending /\ Pending # None
      <4>1. Pending \in Nat /\ Authoritative \in Nat
        BY <3>1, <3>2, <3>5, DeltaSyncAssumption
      <4> QED BY <3>1, <3>2, <3>5, <4>1
    <3> QED BY <3>3, <3>4, <3>5
  <2>2. \A b \in Blocks : /\ snap[Authoritative][b] \in Versions
                          /\ snap[Authoritative][b] <= snap[Newest][b]
    BY <2>1, Ordered DEF DataInv
  <2> QED BY <1>1, <1>2, <2>2 DEF source, BetweenInv, Versions
<1> QED BY <1>2, <1>3, <1>4, <1>5, <1>6
        DEF DataInv, WritingInv, OrphanInv, AppliedInv, FinalInv

(* -------------------------------- the writers ------------------------------ *)

\* What a step that leaves the record and the source alone keeps.
LEMMA SameRecord ==
  ASSUME DataInv, UNCHANGED <<file, source>>
  PROVE  /\ SnapInv' /\ RecordInv' /\ PointInv'
         /\ Authoritative' = Authoritative /\ Pending' = Pending /\ Newest' = Newest
         /\ UNCHANGED <<src, sourceRunning, snap, points, bundles>>
<1>1. Authoritative' = Authoritative /\ Pending' = Pending /\ Newest' = Newest
      /\ UNCHANGED <<src, sourceRunning, snap, points, bundles>>
  BY DEF Authoritative, Pending, Newest, source
<1>2. SnapInv' /\ PointInv'
  BY <1>1 DEF DataInv, SnapInv, PointInv, Taken
<1>3. RecordInv'
  BY <1>1 DEF DataInv, RecordInv
<1> QED BY <1>1, <1>2, <1>3

\* A block written from a point between the authoritative and the newest one
\* leaves the destination between the two.
LEMMA WriteKeeps ==
  ASSUME TypeInv, DataInv, UNCHANGED <<file, source>>, file.proxmox_vmid,
         NEW to \in RPs, Taken(to), Authoritative <= to, to <= Newest,
         file.final_sync => snap[to] = src,
         NEW b \in Blocks, dst' = [dst EXCEPT ![b] = snap[to][b]]
  PROVE  /\ BetweenInv'
         /\ file.final_sync => \A c \in Blocks : dst'[c] \in {src[c], None}
         /\ \A c \in Blocks : dst'[c] = IF c = b THEN snap[to][b] ELSE dst[c]
<1>1. \A c \in Blocks : dst'[c] = IF c = b THEN snap[to][b] ELSE dst[c]
  BY DEF TypeInv, TypeOK
<1>2. /\ Authoritative \in RPs /\ Taken(Authoritative)
      /\ Newest \in RPs /\ Taken(Newest)
  BY Named
<1>3. snap[Authoritative][b] <= snap[to][b] /\ snap[to][b] <= snap[Newest][b]
  BY <1>2, Ordered DEF DataInv
<1>4. BetweenInv'
  BY <1>1, <1>3, SameRecord DEF DataInv, BetweenInv
<1>5. file.final_sync => \A c \in Blocks : dst'[c] \in {src[c], None}
  BY <1>1 DEF DataInv, FinalInv
<1> QED BY <1>1, <1>4, <1>5

\* The guest of the destination only takes blocks out of account.
LEMMA GuestData ==
  ASSUME TypeInv, DataInv, (\E b \in Blocks : GuestWrites(b)) \/ GuestPowersOff
  PROVE  DataInv'
<1>1. UNCHANGED <<file, source, writer, orphan, applied>>
  BY DEF GuestWrites, GuestPowersOff
<1>2. \A c \in Blocks : dst'[c] \in {dst[c], None}
  BY DEF GuestWrites, GuestPowersOff, TypeInv, TypeOK
<1>3. BetweenInv'
  BY <1>1, <1>2, SameRecord DEF DataInv, BetweenInv
<1>4. WritingInv'
  BY <1>1, <1>2, SameRecord DEF DataInv, WritingInv, HoldsExcept
<1>5. OrphanInv'
  BY <1>1, SameRecord DEF DataInv, OrphanInv
<1>6. AppliedInv'
  BY <1>1, <1>2, SameRecord DEF DataInv, AppliedInv, HoldsExcept
<1>7. FinalInv'
  BY <1>1, <1>2, SameRecord DEF DataInv, FinalInv
<1> QED BY <1>1, <1>3, <1>4, <1>5, <1>6, <1>7, SameRecord DEF DataInv

\* Outside the changed blocks the destination already holds the pending point.
LEMMA ApplyDeltaData ==
  ASSUME Runbook, TypeInv, DataInv, NEW bundle \in bundles, ApplyDelta(bundle)
  PROVE  DataInv'
<1>1. /\ writer = NoWriter /\ bundle[1] # None /\ bundle = <<Authoritative, Pending>>
      /\ orphan = NoWriter \/ orphan.bundle = bundle
      /\ file.disk_map /\ applied' = <<None, None>>
      /\ UNCHANGED <<file, source, dst, orphan>>
  BY DEF ApplyDelta, CanApplyDelta, Authoritative, Pending
<1>2. writer'.bundle = bundle /\ writer'.left = Changed(Authoritative, Pending)
  BY <1>1 DEF ApplyDelta
<1>3. writer' # NoWriter
  BY <1>1, <1>2 DEF NoWriter
<1>4. file.proxmox_vmid
  BY <1>1 DEF DataInv, RecordInv, Fresh
<1>5. Pending # None /\ Newest = Pending
  <2>1. Pending \in RPs
    BY <1>1 DEF TypeInv, TypeOK
  <2> QED BY <2>1, StateAssumption DEF Newest
<1>6. HoldsExcept(Pending, Changed(Authoritative, Pending))
  <2> SUFFICES ASSUME NEW b \in Blocks, snap[Authoritative][b] = snap[Pending][b], dst[b] # None
               PROVE  dst[b] = snap[Pending][b]
    BY DEF HoldsExcept, Changed
  <2>1. snap[Authoritative][b] <= dst[b] /\ dst[b] <= snap[Pending][b]
    BY <1>4, <1>5 DEF DataInv, BetweenInv
  <2>2. dst[b] \in Versions
    BY DEF TypeInv, TypeOK
  <2>3. snap[Pending][b] \in Versions
    BY <1>5, Named, Ordered, DeltaSyncAssumption DEF DataInv
  <2> QED BY <2>1, <2>2, <2>3 DEF Versions
<1>7. BetweenInv'
  BY <1>1, SameRecord DEF DataInv, BetweenInv
<1>8. WritingInv'
  BY <1>1, <1>2, <1>4, <1>6, SameRecord DEF WritingInv, HoldsExcept
<1>9. OrphanInv'
  BY <1>1, <1>2, SameRecord DEF DataInv, OrphanInv
<1>10. AppliedInv' /\ FinalInv'
  BY <1>1, SameRecord DEF DataInv, AppliedInv, FinalInv
<1> QED BY <1>1, <1>7, <1>8, <1>9, <1>10, SameRecord DEF DataInv

\* The writer of the invocation and what it writes.
LEMMA WriterBundle ==
  ASSUME TypeInv, DataInv, writer # NoWriter
  PROVE  /\ file.proxmox_vmid /\ writer.bundle = <<Authoritative, Pending>>
         /\ writer.bundle \in bundles /\ writer.bundle # <<None, None>>
         /\ Pending \in RPs /\ Taken(Pending) /\ Newest = Pending
         /\ Authoritative <= Pending /\ Pending <= Newest
         /\ file.final_sync => snap[Pending] = src
<1>1. /\ file.proxmox_vmid /\ writer.bundle = <<Authoritative, Pending>>
      /\ writer.bundle \in bundles
  BY DEF DataInv, WritingInv, TypeInv, WriterInv
<1>2. Pending \in RPs /\ Pending # None
  BY <1>1, StateAssumption DEF TypeInv, TypeOK
<1>3. Newest = Pending
  BY <1>2 DEF Newest
<1>4. Pending <= Newest
  BY <1>2, <1>3, DeltaSyncAssumption
<1> QED BY <1>1, <1>2, <1>3, <1>4, Named DEF DataInv, FinalInv

LEMMA WriteBlockData ==
  ASSUME TypeInv, DataInv, WriteBlock
  PROVE  DataInv'
<1>1. /\ writer.left # {} /\ dst' = Written(writer) /\ writer' = Wrote(writer)
      /\ UNCHANGED <<file, source, orphan, applied>>
  BY DEF WriteBlock
<1> DEFINE b == NextBlock(writer)
<1>2. writer # NoWriter
  BY <1>1 DEF NoWriter
<1>3. /\ writer' # NoWriter /\ writer'.bundle = writer.bundle /\ b \in Blocks
      /\ writer'.left = writer.left \ {b} /\ dst' = [dst EXCEPT ![b] = snap[Pending][b]]
  BY <1>1, <1>2, WriteOK, WriterBundle
<1>4. /\ BetweenInv'
      /\ file.final_sync => \A c \in Blocks : dst'[c] \in {src[c], None}
      /\ \A c \in Blocks : dst'[c] = IF c = b THEN snap[Pending][b] ELSE dst[c]
  BY <1>1, <1>2, <1>3, WriterBundle, WriteKeeps
<1>5. applied = <<None, None>> /\ HoldsExcept(Pending, writer.left)
  BY <1>2 DEF DataInv, WritingInv
<1>6. \A c \in Blocks \ writer'.left : dst'[c] \in {snap[Pending][c], None}
  BY <1>3, <1>4, <1>5 DEF HoldsExcept
<1>7. WritingInv'
  <2>1. /\ file'.proxmox_vmid /\ writer'.bundle = <<Authoritative', Pending'>>
        /\ applied' = <<None, None>>
    BY <1>1, <1>2, <1>3, <1>5, SameRecord, WriterBundle
  <2> QED BY <1>1, <1>6, <2>1, SameRecord DEF WritingInv, HoldsExcept
<1>8. OrphanInv'
  BY <1>1, <1>2, <1>3, SameRecord DEF DataInv, OrphanInv
<1>9. AppliedInv'
  BY <1>1, <1>5 DEF AppliedInv
<1>10. FinalInv'
  BY <1>1, <1>4, SameRecord DEF DataInv, FinalInv
<1> QED BY <1>1, <1>4, <1>7, <1>8, <1>9, <1>10, SameRecord DEF DataInv

LEMMA ApplySucceedsData ==
  ASSUME TypeInv, DataInv, ApplySucceeds
  PROVE  DataInv'
<1>1. /\ writer # NoWriter /\ writer.left = {} /\ writer' = NoWriter /\ applied' = writer.bundle
      /\ UNCHANGED <<file, source, dst, orphan>>
  BY DEF ApplySucceeds
<1>2. HoldsExcept(Pending, {})
  BY <1>1 DEF DataInv, WritingInv
<1>3. AppliedInv'
  BY <1>1, <1>2, WriterBundle, SameRecord DEF AppliedInv, HoldsExcept
<1>4. OrphanInv'
  BY <1>1, SameRecord DEF DataInv, OrphanInv
<1>5. BetweenInv' /\ WritingInv' /\ FinalInv'
  BY <1>1, SameRecord DEF DataInv, BetweenInv, WritingInv, FinalInv
<1> QED BY <1>1, <1>3, <1>4, <1>5, SameRecord DEF DataInv

LEMMA ApplyFailsData ==
  ASSUME TypeInv, DataInv, ApplyFails
  PROVE  DataInv'
<1>1. /\ writer # NoWriter /\ writer' = NoWriter /\ orphan' \in {orphan, writer}
      /\ UNCHANGED <<file, source, dst, applied>>
  BY DEF ApplyFails
<1>2. applied = <<None, None>>
  BY <1>1 DEF DataInv, WritingInv
<1>3. OrphanInv'
  <2>1. CASE orphan' = orphan
    BY <1>1, <2>1, SameRecord DEF DataInv, OrphanInv
  <2>2. CASE orphan' = writer
    <3>1. orphan'.bundle[2] = Pending
      BY <1>1, <2>2, WriterBundle
    <3> QED BY <1>1, <1>2, <3>1, WriterBundle, SameRecord DEF OrphanInv
  <2> QED BY <1>1, <2>1, <2>2
<1>4. FinalInv'
  <2>1. orphan' # NoWriter /\ file.final_sync => snap[orphan'.bundle[2]] = src
    BY <1>1, WriterBundle DEF DataInv, FinalInv
  <2> QED BY <1>1, <2>1, SameRecord DEF DataInv, FinalInv
<1>5. BetweenInv' /\ WritingInv'
  BY <1>1, SameRecord DEF DataInv, BetweenInv, WritingInv
<1>6. AppliedInv'
  BY <1>1, <1>2 DEF AppliedInv
<1> QED BY <1>1, <1>3, <1>4, <1>5, <1>6, SameRecord DEF DataInv

\* A writer left behind writes nothing that the writer of the invocation, or the
\* last success, would not have written.
LEMMA OrphanWritesData ==
  ASSUME TypeInv, DataInv, OrphanWrites
  PROVE  DataInv'
<1>1. orphan # NoWriter /\ UNCHANGED <<file, source, writer, applied>>
  BY DEF OrphanWrites
<1>2. /\ file.proxmox_vmid /\ Authoritative <= orphan.bundle[2] /\ orphan.bundle[2] <= Newest
      /\ orphan.bundle[2] \in RPs /\ Taken(orphan.bundle[2])
  BY <1>1, Named DEF DataInv, OrphanInv
<1>3. CASE orphan.left = {}
  <2>1. orphan' = NoWriter /\ dst' = dst
    BY <1>3 DEF OrphanWrites
  <2>2. BetweenInv' /\ FinalInv'
    BY <1>1, <2>1, SameRecord DEF DataInv, BetweenInv, FinalInv
  <2>3. WritingInv' /\ AppliedInv'
    BY <1>1, <2>1, SameRecord DEF DataInv, WritingInv, AppliedInv, HoldsExcept
  <2> QED BY <1>1, <2>1, <2>2, <2>3, SameRecord DEF DataInv, OrphanInv
<1>4. CASE orphan.left # {}
  <2> DEFINE b == NextBlock(orphan)
             to == orphan.bundle[2]
  <2>1. orphan' = Wrote(orphan) /\ dst' = Written(orphan)
    BY <1>4 DEF OrphanWrites
  <2>2. /\ orphan' # NoWriter /\ orphan'.bundle = orphan.bundle /\ b \in Blocks
        /\ dst' = [dst EXCEPT ![b] = snap[to][b]]
    BY <1>4, <2>1, WriteOK
  <2>3. file.final_sync => snap[to] = src
    BY <1>1 DEF DataInv, FinalInv
  <2>4. /\ BetweenInv'
        /\ file.final_sync => \A c \in Blocks : dst'[c] \in {src[c], None}
        /\ \A c \in Blocks : dst'[c] = IF c = b THEN snap[to][b] ELSE dst[c]
    BY <1>1, <1>2, <2>2, <2>3, WriteKeeps
  <2>5. WritingInv'
    <3>1. writer # NoWriter => to = Pending /\ HoldsExcept(Pending, writer.left)
      BY <1>1 DEF DataInv, OrphanInv, WritingInv
    <3>2. writer # NoWriter => HoldsExcept(Pending, writer.left)'
      BY <1>1, <2>4, <3>1, SameRecord DEF HoldsExcept
    <3> QED BY <1>1, <3>2, SameRecord DEF DataInv, WritingInv
  <2>6. AppliedInv'
    <3>1. applied # <<None, None>> => to = applied[2] /\ HoldsExcept(applied[2], {})
      BY <1>1 DEF DataInv, OrphanInv, AppliedInv
    <3>2. applied # <<None, None>> => HoldsExcept(applied[2], {})'
      BY <1>1, <2>4, <3>1, SameRecord DEF HoldsExcept
    <3> QED BY <1>1, <3>2, SameRecord DEF DataInv, AppliedInv
  <2>7. OrphanInv'
    BY <1>1, <2>2, SameRecord DEF DataInv, OrphanInv
  <2>8. FinalInv'
    BY <1>1, <2>2, <2>3, <2>4, SameRecord DEF DataInv, FinalInv
  <2> QED BY <1>1, <2>4, <2>5, <2>6, <2>7, <2>8, SameRecord DEF DataInv
<1> QED BY <1>3, <1>4

(* --------------------------------- theorems -------------------------------- *)

\* Nothing was taken, recorded or written yet.
LEMMA InitData ==
  ASSUME Init
  PROVE  TypeInv /\ DataInv
<1>1. TypeInv
  BY SyncTypingInit
<1>2. /\ file.phase = "NEW" /\ Authoritative = None /\ Pending = None
      /\ ~file.proxmox_vmid /\ ~file.disk_map /\ ~file.last_sync_verified
      /\ ~file.final_sync /\ ~file.source_stopped
      /\ writer = NoWriter /\ orphan = NoWriter /\ applied = <<None, None>>
  BY DEF Init, NewState, Authoritative, Pending
<1>3. \A rp \in RPs : ~Taken(rp)
  BY DEF Init, Taken
<1>4. SnapInv /\ RecordInv /\ PointInv
  BY <1>2, <1>3 DEF SnapInv, RecordInv, PointInv, Fresh
<1>5. BetweenInv /\ WritingInv /\ OrphanInv /\ AppliedInv /\ FinalInv
  BY <1>2 DEF BetweenInv, WritingInv, OrphanInv, AppliedInv, FinalInv
<1> QED BY <1>1, <1>4, <1>5 DEF DataInv

LEMMA StepData ==
  ASSUME Runbook, TypeInv, DataInv, [Next]_vars
  PROVE  DataInv'
<1>2. CASE UNCHANGED vars
  <2>1. UNCHANGED <<source, dst, writer, orphan, applied, file>>
    BY <1>2 DEF vars, target
  <2>2. RecordInv' /\ Authoritative' = Authoritative /\ Pending' = Pending
    BY <2>1, SameRecord
  <2>3. /\ file'.authoritative_reference_point = Authoritative
        /\ file'.pending_reference_point = Pending
    BY <2>1 DEF Authoritative, Pending
  <2> QED BY <2>1, <2>2, <2>3, SamePoints
<1>3. CASE Source
  BY <1>3, SourceData
<1>4. CASE Controller
  <2>1. CASE \E bundle \in bundles : ApplyDelta(bundle)
    BY <2>1, ApplyDeltaData
  <2>2. CASE WriteBlock \/ ApplySucceeds \/ ApplyFails
    BY <2>2, WriteBlockData, ApplySucceedsData, ApplyFailsData
  <2>3. CASE MarkTested \/ AuthorizeCutover \/ MarkSourceStopped \/ TestStart \/ TestStop
    BY <2>3, StaysData
  <2>4. CASE \/ \E rp \in RPs : IngestBaseline(rp)
             \/ \E test, prod \in VNets : Seed(test, prod)
             \/ \E rp \in RPs, n \in 1..MaxSeq : IngestSync(rp, n)
             \/ \E rp \in RPs, n \in 1..MaxSeq, ready \in BOOLEAN : RegisterSync(rp, n, ready)
             \/ MarkFinalSync
    BY <2>4, IngestBaselineData, SeedData, IngestSyncData, RegisterSyncData, MarkFinalSyncData
  <2> QED BY <1>4, <2>1, <2>2, <2>3, <2>4 DEF Controller
<1>5. CASE Node
  BY <1>5, GuestData, OrphanWritesData DEF Node
<1> QED BY <1>2, <1>3, <1>4, <1>5 DEF Next

LEMMA SyncData ==
  ASSUME Runbook
  PROVE  Spec => [](TypeInv /\ DataInv)
<1>1. Init => TypeInv /\ DataInv
  BY InitData
<1>2. TypeInv /\ DataInv /\ [Next]_vars => (TypeInv /\ DataInv)'
  BY SyncTypingStep, StepData
<1> QED BY <1>1, <1>2, PTL DEF Spec

\* A runbook that is followed makes last_sync_verified true of the data: with no
\* sync pending, the newest point is the authoritative one, and the destination
\* is between the two.
THEOREM SyncVerifiedMeansHeld ==
  ASSUME Runbook
  PROVE  Spec => []VerifiedMeansHeld
<1>1. TypeInv /\ DataInv => VerifiedMeansHeld
  <2> SUFFICES ASSUME TypeInv, DataInv, file.last_sync_verified, Pending = None,
                      NEW b \in Blocks, dst[b] # None
               PROVE  dst[b] = snap[Authoritative][b]
    BY DEF VerifiedMeansHeld, Holds, Authoritative, Pending
  <2>1. file.proxmox_vmid
    BY DEF DataInv, RecordInv, Fresh
  <2>2. Newest = Authoritative
    BY DEF Newest
  <2>3. snap[Authoritative][b] <= dst[b] /\ dst[b] <= snap[Authoritative][b]
    BY <2>1, <2>2 DEF DataInv, BetweenInv
  <2>4. dst[b] \in Versions /\ snap[Authoritative][b] \in Versions
    <3>1. Authoritative \in RPs /\ Taken(Authoritative)
      BY <2>1, Named
    <3> QED BY <3>1, Ordered, DeltaSyncAssumption DEF TypeInv, TypeOK, DataInv
  <2> QED BY <2>3, <2>4 DEF Versions
<1> QED BY <1>1, SyncData, PTL

\* After mark-final-sync the destination holds every write of the source, and a
\* writer left behind or a repeated apply does not take it back.
THEOREM SyncNothingLost ==
  ASSUME Runbook
  PROVE  Spec => []NothingLost
<1>1. DataInv => NothingLost
  BY DEF DataInv, FinalInv, NothingLost
<1> QED BY <1>1, SyncData, PTL

\* The destination never falls behind the authoritative point and never runs
\* ahead of the source, through failed, repeated and orphaned applies.
THEOREM SyncNeverBehind ==
  ASSUME Runbook
  PROVE  Spec => []NeverBehind
<1>1. TypeInv /\ DataInv => NeverBehind
  <2> SUFFICES ASSUME TypeInv, DataInv, file.proxmox_vmid, NEW b \in Blocks, dst[b] # None
               PROVE  snap[Authoritative][b] <= dst[b] /\ dst[b] <= src[b]
    BY DEF NeverBehind, Authoritative
  <2>1. snap[Authoritative][b] <= dst[b] /\ dst[b] <= snap[Newest][b]
    BY DEF DataInv, BetweenInv
  <2>2. /\ snap[Newest][b] \in Versions /\ src[b] \in Versions
        /\ snap[Newest][b] <= src[b]
    <3>1. Newest \in RPs /\ Taken(Newest)
      BY Named
    <3> QED BY <3>1, Ordered, DeltaSyncAssumption DEF DataInv
  <2>3. dst[b] \in Versions
    BY DEF TypeInv, TypeOK
  <2> QED BY <2>1, <2>2, <2>3 DEF Versions
<1> QED BY <1>1, SyncData, PTL

\* commit-sync never removes the point that the next delta starts from.
THEOREM SyncAuthoritativeKept ==
  ASSUME Runbook
  PROVE  Spec => []AuthoritativeKept
<1>1. TypeInv /\ DataInv => AuthoritativeKept
  <2> SUFFICES ASSUME DataInv, Authoritative # None
               PROVE  Authoritative \in points
    BY DEF AuthoritativeKept, Authoritative
  <2>1. Authoritative \in RPs /\ Taken(Authoritative)
    BY DEF DataInv, PointInv, Taken
  <2> QED BY <2>1, DeltaSyncAssumption DEF DataInv, PointInv
<1> QED BY <1>1, SyncData, PTL
=============================================================================

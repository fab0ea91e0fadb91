--------------------------- MODULE MigrationProofs --------------------------
(* Theorems about Migration, for every set of invocations, bridges and         *)
(* reference points and every bound on the sequence numbers.                   *)
EXTENDS Migration, TLAPS

(* ------------------------- commands on the record -------------------------- *)

\* The phases set_phase can come from, for the commands that do not test it.
LEMMA Predecessors ==
  ASSUME NEW s \in StateRecord, NEW ph, MayEnter(s, ph)
  PROVE  /\ ph = "SEEDED" => s.phase \in {"BASELINE_READY", "SEEDED", "FAILED"}
         /\ ph = "TESTED" => s.phase \in {"SEEDED", "TESTED", "FAILED"}
         /\ ph = "SYNCING" => s.phase \in {"TESTED", "SYNCING", "CUTOVER_READY", "FAILED"}
         /\ ph = "CUTOVER_IN_PROGRESS" => s.phase \in {"CUTOVER_READY", "CUTOVER_IN_PROGRESS"}
         /\ ph = "CUTOVER_COMPLETE" => s.phase \in InCutover
  BY DEF MayEnter, AllowedTransitions, StateRecord, Phases, InCutover

\* In the rest of this section: each command turns a well-formed record that
\* satisfies RecordInv into another one.
LEMMA NewStateOK == NewState \in StateRecord /\ RecordInv(NewState)
  BY StateAssumption
  DEF NewState, StateRecord, Phases, Seqs, RecordInv, CutoverGated, CutoverBegan, InCutover,
      CompleteMeansDone, VerifiedMeansRegistered

LEMMA IngestBaselineOK ==
  ASSUME NEW rp \in RPs \cup {None}
  PROVE  AfterIngestBaseline(rp) \in StateRecord /\ RecordInv(AfterIngestBaseline(rp))
<1> DEFINE s == AfterIngestBaseline(rp)
<1>1. s \in StateRecord
  BY NewStateOK DEF AfterIngestBaseline, StateRecord, Phases
<1>2. /\ s.phase = "BASELINE_READY" /\ ~s.authorized /\ ~s.last_sync_verified
      /\ ~s.source_stopped /\ ~s.final_sync /\ ~s.writes_possible
  BY DEF AfterIngestBaseline, NewState
<1>3. RecordInv(s)
  BY <1>2 DEF RecordInv, CutoverGated, CutoverBegan, InCutover, CompleteMeansDone,
              VerifiedMeansRegistered
<1> QED BY <1>1, <1>3

LEMMA IngestSyncOK ==
  ASSUME NEW s \in StateRecord, RecordInv(s), NEW rp \in RPs, NEW n \in 1..MaxSeq
  PROVE  AfterIngestSync(s, rp, n) \in StateRecord /\ RecordInv(AfterIngestSync(s, rp, n))
<1>1. n \in Seqs
  BY StateAssumption DEF Seqs
<1>2. AfterIngestSync(s, rp, n) \in StateRecord
  BY <1>1 DEF AfterIngestSync, StateRecord
<1>3. RecordInv(AfterIngestSync(s, rp, n))
  BY DEF AfterIngestSync, StateRecord, RecordInv, CutoverGated, CutoverBegan, InCutover,
         CompleteMeansDone, VerifiedMeansRegistered
<1> QED BY <1>2, <1>3

LEMMA DestinationOK ==
  ASSUME NEW s \in StateRecord, NEW test \in VNets, NEW prod \in VNets
  PROVE  /\ Destination(s, test, prod) \in StateRecord
         /\ Destination(s, test, prod).phase = s.phase
  BY DEF Destination, StateRecord

LEMMA SeedOK ==
  ASSUME NEW s \in StateRecord, RecordInv(s), NEW test \in VNets, NEW prod \in VNets,
         CanSeed(s, test, prod)
  PROVE  AfterSeed(s, test, prod) \in StateRecord /\ RecordInv(AfterSeed(s, test, prod))
<1> DEFINE t == AfterSeed(s, test, prod)
<1>1. t \in StateRecord
  BY DEF AfterSeed, Destination, SetPhase, StateRecord, Phases
<1>2. /\ t.phase = "SEEDED" /\ (t.authorized <=> s.authorized) /\ (t.final_sync <=> s.final_sync)
      /\ (t.source_stopped <=> s.source_stopped) /\ (t.writes_possible <=> s.writes_possible)
      /\ t.sequence = s.sequence /\ t.pending_reference_point = s.pending_reference_point
      /\ (t.last_sync_verified <=> s.last_sync_verified)
  BY DEF AfterSeed, Destination, SetPhase, StateRecord
<1> HIDE DEF t
<1>3. RecordInv(t)
  <2>1. CutoverGated(t)
    BY <1>2 DEF CanSeed, RecordInv, CutoverGated, CutoverBegan
  <2>2. VerifiedMeansRegistered(t)
    BY <1>2 DEF RecordInv, VerifiedMeansRegistered
  <2> QED BY <1>2, <2>1, <2>2 DEF RecordInv, InCutover, CompleteMeansDone
<1> QED BY <1>1, <1>3 DEF t

LEMMA MarkSeededOK ==
  ASSUME NEW s \in StateRecord, RecordInv(s), NEW test \in VNets, NEW prod \in VNets,
         CanMarkSeeded(s, test, prod)
  PROVE  /\ AfterMarkSeeded(s, test, prod) \in StateRecord
         /\ RecordInv(AfterMarkSeeded(s, test, prod))
<1>1. s.phase \in {"BASELINE_READY", "SEEDED"}
  BY DestinationOK, Predecessors DEF CanMarkSeeded, CanSetPhase, RecordInv
<1> DEFINE t == AfterMarkSeeded(s, test, prod)
<1>2. t \in StateRecord
  BY DEF AfterMarkSeeded, Destination, SetPhase, StateRecord, Phases
<1>3. /\ t.phase = "SEEDED" /\ (t.authorized <=> s.authorized) /\ (t.final_sync <=> s.final_sync)
      /\ (t.source_stopped <=> s.source_stopped) /\ (t.writes_possible <=> s.writes_possible)
      /\ t.sequence = s.sequence /\ t.pending_reference_point = s.pending_reference_point
      /\ (t.last_sync_verified <=> s.last_sync_verified)
  BY DEF AfterMarkSeeded, Destination, SetPhase, StateRecord
<1> HIDE DEF t
<1>4. RecordInv(t)
  <2>1. CutoverGated(t)
    BY <1>1, <1>3 DEF RecordInv, CutoverGated, CutoverBegan
  <2>2. VerifiedMeansRegistered(t)
    BY <1>3 DEF RecordInv, VerifiedMeansRegistered
  <2> QED BY <1>3, <2>1, <2>2 DEF RecordInv, InCutover, CompleteMeansDone
<1> QED BY <1>2, <1>4 DEF t

LEMMA TestStartOK ==
  ASSUME NEW s \in StateRecord, RecordInv(s), CanTestStart(s)
  PROVE  AfterTestStart(s) \in StateRecord /\ RecordInv(AfterTestStart(s))
  BY DEF CanTestStart, AfterTestStart, StateRecord, RecordInv, CutoverGated, CutoverBegan,
         InCutover, CompleteMeansDone, VerifiedMeansRegistered

LEMMA TestStopOK ==
  ASSUME NEW s \in StateRecord, RecordInv(s)
  PROVE  AfterTestStop(s) \in StateRecord /\ RecordInv(AfterTestStop(s))
<1> DEFINE t == AfterTestStop(s)
<1>1. t \in StateRecord
  BY DEF AfterTestStop, StateRecord
<1>2. /\ t.phase = s.phase /\ ~t.powered_on
      /\ t.tested = s.tested /\ t.sequence = s.sequence
      /\ t.authoritative_reference_point = s.authoritative_reference_point
      /\ t.pending_reference_point = s.pending_reference_point
      /\ t.last_sync_verified = s.last_sync_verified
      /\ t.authorized = s.authorized /\ t.source_stopped = s.source_stopped
      /\ t.final_sync = s.final_sync /\ t.writes_possible = s.writes_possible
  BY DEF AfterTestStop, StateRecord
<1> HIDE DEF t
<1>3. RecordInv(t)
  BY <1>2 DEF RecordInv, CutoverGated, CutoverBegan, InCutover, CompleteMeansDone,
              VerifiedMeansRegistered
<1> QED BY <1>1, <1>3 DEF t

LEMMA MarkTestedOK ==
  ASSUME NEW s \in StateRecord, RecordInv(s), CanMarkTested(s)
  PROVE  AfterMarkTested(s) \in StateRecord /\ RecordInv(AfterMarkTested(s))
<1>1. Tested(s) \in StateRecord /\ Tested(s).phase = s.phase
  BY DEF Tested, StateRecord
<1>2. s.phase \in {"SEEDED", "TESTED"}
  BY <1>1, Predecessors DEF CanMarkTested, CanSetPhase, RecordInv
<1> DEFINE t == AfterMarkTested(s)
<1>3. t \in StateRecord
  BY <1>1 DEF AfterMarkTested, SetPhase, StateRecord, Phases
<1>4. /\ t.phase = "TESTED" /\ (t.authorized <=> s.authorized) /\ (t.final_sync <=> s.final_sync)
      /\ (t.source_stopped <=> s.source_stopped) /\ (t.writes_possible <=> s.writes_possible)
      /\ t.sequence = s.sequence /\ t.pending_reference_point = s.pending_reference_point
      /\ (t.last_sync_verified <=> s.last_sync_verified)
  BY DEF AfterMarkTested, Tested, SetPhase, StateRecord
<1> HIDE DEF t
<1>5. RecordInv(t)
  <2>1. CutoverGated(t)
    BY <1>2, <1>4 DEF RecordInv, CutoverGated, CutoverBegan
  <2>2. VerifiedMeansRegistered(t)
    BY <1>4 DEF RecordInv, VerifiedMeansRegistered
  <2> QED BY <1>4, <2>1, <2>2 DEF RecordInv, InCutover, CompleteMeansDone
<1> QED BY <1>3, <1>5 DEF t

LEMMA RegisterSyncOK ==
  ASSUME NEW s \in StateRecord, RecordInv(s), NEW rp \in RPs, NEW n \in 1..MaxSeq,
         NEW ready \in BOOLEAN, CanRegisterSync(s, rp, n)
  PROVE  /\ AfterRegisterSync(s, rp, n, ready) \in StateRecord
         /\ RecordInv(AfterRegisterSync(s, rp, n, ready))
<1> DEFINE t == AfterRegisterSync(s, rp, n, ready)
<1>1. n \in Seqs /\ n > 0 /\ rp # None
  BY StateAssumption DEF Seqs
<1>2. Registered(s, rp, n) \in StateRecord /\ Registered(s, rp, n).phase = s.phase
  <2>1. 0 \in Seqs
    BY StateAssumption DEF Seqs
  <2> QED BY <1>1, <2>1 DEF Registered, StateRecord
<1>3. s.phase \in {"TESTED", "SYNCING", "CUTOVER_READY"}
  BY <1>2, Predecessors DEF CanRegisterSync, CanSetPhase, RecordInv
<1>4. t \in StateRecord
  BY <1>2 DEF AfterRegisterSync, SetPhase, StateRecord, Phases
<1>5. /\ t.phase \in {"SYNCING", "CUTOVER_READY"}
      /\ t.sequence = n /\ t.authoritative_reference_point = rp
      /\ t.pending_reference_point = None
      /\ t.authorized = s.authorized /\ t.source_stopped = s.source_stopped
      /\ t.final_sync = s.final_sync /\ t.writes_possible = s.writes_possible
  BY DEF AfterRegisterSync, Registered, SetPhase, StateRecord
<1>6. RecordInv(t)
  BY <1>1, <1>3, <1>5 DEF RecordInv, CutoverGated, CutoverBegan, InCutover, CompleteMeansDone,
                          VerifiedMeansRegistered
<1> QED BY <1>4, <1>6

LEMMA AuthorizeCutoverOK ==
  ASSUME NEW s \in StateRecord, RecordInv(s), CanAuthorizeCutover(s)
  PROVE  AfterAuthorizeCutover(s) \in StateRecord /\ RecordInv(AfterAuthorizeCutover(s))
<1>1. Authorized(s) \in StateRecord /\ Authorized(s).phase = s.phase
  BY DEF Authorized, StateRecord
<1>2. s.phase \in {"CUTOVER_READY", "CUTOVER_IN_PROGRESS"}
  BY <1>1, Predecessors DEF CanAuthorizeCutover, CanSetPhase
<1> DEFINE t == AfterAuthorizeCutover(s)
<1>3. t \in StateRecord
  BY <1>1 DEF AfterAuthorizeCutover, SetPhase, StateRecord, Phases
<1>4. /\ t.phase = "CUTOVER_IN_PROGRESS" /\ t.authorized
      /\ t.powered_on = s.powered_on /\ t.writes_possible = s.writes_possible
      /\ t.tested = s.tested /\ t.sequence = s.sequence
      /\ t.authoritative_reference_point = s.authoritative_reference_point
      /\ t.pending_reference_point = s.pending_reference_point
      /\ t.last_sync_verified = s.last_sync_verified
      /\ t.source_stopped = s.source_stopped /\ t.final_sync = s.final_sync
  BY DEF AfterAuthorizeCutover, Authorized, SetPhase, StateRecord
<1> HIDE DEF t
<1>5. RecordInv(t)
  BY <1>2, <1>4 DEF CanAuthorizeCutover, CutoverReady, Authorized, RecordInv, CutoverGated,
                    CutoverBegan, InCutover, CompleteMeansDone, VerifiedMeansRegistered
<1> QED BY <1>3, <1>5 DEF t

LEMMA MarkSourceStoppedOK ==
  ASSUME NEW s \in StateRecord, RecordInv(s), CanMarkSourceStopped(s)
  PROVE  AfterMarkSourceStopped(s) \in StateRecord /\ RecordInv(AfterMarkSourceStopped(s))
  BY DEF CanMarkSourceStopped, AfterMarkSourceStopped, StateRecord, RecordInv, CutoverGated,
         CutoverBegan, InCutover, CompleteMeansDone, VerifiedMeansRegistered

LEMMA MarkFinalSyncOK ==
  ASSUME NEW s \in StateRecord, RecordInv(s), CanMarkFinalSync(s)
  PROVE  AfterMarkFinalSync(s) \in StateRecord /\ RecordInv(AfterMarkFinalSync(s))
<1> DEFINE t == AfterMarkFinalSync(s)
<1>1. t \in StateRecord
  BY DEF AfterMarkFinalSync, StateRecord
<1>2. /\ t.phase = s.phase /\ t.final_sync
      /\ t.powered_on = s.powered_on /\ t.tested = s.tested /\ t.sequence = s.sequence
      /\ t.authoritative_reference_point = s.authoritative_reference_point
      /\ t.authorized = s.authorized /\ t.source_stopped = s.source_stopped
      /\ t.writes_possible = s.writes_possible
  BY DEF AfterMarkFinalSync, StateRecord
<1> HIDE DEF t
<1>3. RecordInv(t)
  BY <1>2 DEF CanMarkFinalSync, RecordInv, CutoverGated, CutoverBegan, InCutover,
              CompleteMeansDone, VerifiedMeansRegistered
<1> QED BY <1>1, <1>3 DEF t

LEMMA ActivateProductionOK ==
  ASSUME NEW s \in StateRecord, RecordInv(s), CanActivateProduction(s)
  PROVE  AfterActivateProduction(s) \in StateRecord /\ RecordInv(AfterActivateProduction(s))
  BY DEF CanActivateProduction, AfterActivateProduction, StateRecord, RecordInv, CutoverGated,
         CutoverBegan, InCutover, CompleteMeansDone, VerifiedMeansRegistered

LEMMA MarkCutoverCompleteOK ==
  ASSUME NEW s \in StateRecord, RecordInv(s), CanMarkCutoverComplete(s)
  PROVE  AfterMarkCutoverComplete(s) \in StateRecord /\ RecordInv(AfterMarkCutoverComplete(s))
<1>1. s.phase \in InCutover
  BY Predecessors DEF CanMarkCutoverComplete, CanSetPhase
<1> QED
  BY <1>1 DEF CanMarkCutoverComplete, AfterMarkCutoverComplete, SetPhase, StateRecord, Phases,
              RecordInv, CutoverGated, CutoverBegan, InCutover, CompleteMeansDone,
              VerifiedMeansRegistered

LEMMA BeginRollbackOK ==
  ASSUME NEW s \in StateRecord, RecordInv(s), CanBeginRollback(s)
  PROVE  AfterBeginRollback(s) \in StateRecord /\ RecordInv(AfterBeginRollback(s))
<1> DEFINE t == AfterBeginRollback(s)
<1>1. t \in StateRecord
  BY DEF AfterBeginRollback, SetPhase, StateRecord, Phases
<1>2. /\ t.phase = "ROLLBACK_IN_PROGRESS" /\ ~t.powered_on
      /\ (t.tested <=> s.tested) /\ t.sequence = s.sequence
      /\ t.authoritative_reference_point = s.authoritative_reference_point
      /\ t.pending_reference_point = s.pending_reference_point
      /\ (t.last_sync_verified <=> s.last_sync_verified)
      /\ (t.authorized <=> s.authorized) /\ (t.final_sync <=> s.final_sync)
      /\ (t.source_stopped <=> s.source_stopped) /\ (t.writes_possible <=> s.writes_possible)
  BY DEF AfterBeginRollback, SetPhase, StateRecord
<1> HIDE DEF t
<1>3. RecordInv(t)
  <2>1. CutoverGated(t)
    BY <1>2 DEF CanBeginRollback, RecordInv, CutoverGated, CutoverBegan, InCutover
  <2>2. VerifiedMeansRegistered(t)
    BY <1>2 DEF RecordInv, VerifiedMeansRegistered
  <2> QED BY <1>2, <2>1, <2>2 DEF RecordInv, InCutover, CompleteMeansDone
<1> QED BY <1>1, <1>3 DEF t

LEMMA MarkRolledBackOK ==
  ASSUME NEW s \in StateRecord, RecordInv(s), CanMarkRolledBack(s)
  PROVE  AfterMarkRolledBack(s) \in StateRecord /\ RecordInv(AfterMarkRolledBack(s))
  BY DEF CanMarkRolledBack, AfterMarkRolledBack, SetPhase, StateRecord, Phases, RecordInv,
         CutoverGated, CutoverBegan, InCutover, CompleteMeansDone, VerifiedMeansRegistered

LEMMA CloseOK ==
  ASSUME NEW s \in StateRecord, RecordInv(s), CanClose(s)
  PROVE  AfterClose(s) \in StateRecord /\ RecordInv(AfterClose(s))
  BY DEF CanClose, AfterClose, SetPhase, StateRecord, Phases, RecordInv, CutoverGated,
         CutoverBegan, InCutover, CompleteMeansDone, VerifiedMeansRegistered

(* ------------------------ how an invocation moves on ----------------------- *)

ProcType == [Procs -> [cmd : Commands, at : Steps, mem : StateRecord]]

LEMMA FirstStepType == \A c : FirstStep(c) \in Steps
  BY DEF FirstStep, Steps

LEMMA NextStepType == \A c, at : NextStep(c, at) \in Steps
  BY DEF NextStep, Steps

LEMMA IdleType == Idle \in [cmd : Commands, at : Steps, mem : StateRecord] /\ Idle.mem = NewState
  BY NewStateOK DEF Idle, Commands, Steps

\* A step to the next Proxmox call keeps every record in memory.
LEMMA AdvanceOK ==
  ASSUME proc \in ProcType, NEW p \in Procs, Advance(p)
  PROVE  proc' \in ProcType /\ \A q \in Procs : proc'[q].mem = proc[q].mem
  BY NextStepType DEF Advance, Goto, ProcType

LEMMA ExitOK ==
  ASSUME proc \in ProcType, NEW p \in Procs, Exit(p)
  PROVE  /\ proc' \in ProcType
         /\ proc'[p].mem = NewState
         /\ \A q \in Procs \ {p} : proc'[q] = proc[q]
  BY IdleType DEF Exit, ProcType

\* A command that begins with a good record in memory keeps the invariant.
LEMMA BeginOK ==
  ASSUME TypeOK, RecordsInv, NEW p \in Procs, NEW c \in Commands, NEW accepted \in BOOLEAN,
         NEW result \in StateRecord, RecordInv(result), Begin(p, c, accepted, result)
  PROVE  TypeOK' /\ RecordsInv'
<1>1. proc' \in ProcType
  BY FirstStepType DEF Begin, TypeOK, ProcType
<1>2. \A q \in Procs : proc'[q].mem \in {proc[q].mem, result}
  BY DEF Begin, TypeOK
<1>3. RecordsInv'
  BY <1>2 DEF RecordsInv, Begin, RecordInv, CutoverGated, CompleteMeansDone,
              VerifiedMeansRegistered
<1> QED BY <1>1, <1>3 DEF Begin, leftovers, TypeOK, ProcType

\* A step that keeps the file and the records in memory keeps the invariant.
LEMMA RecordsKept ==
  ASSUME TypeOK, RecordsInv, proc' \in ProcType, file' = file,
         \A q \in Procs : proc'[q].mem \in {proc[q].mem, NewState}
  PROVE  RecordsInv'
  BY NewStateOK DEF RecordsInv, RecordInv, CutoverGated, CompleteMeansDone,
                    VerifiedMeansRegistered

LEMMA CommandKeepsRecords ==
  ASSUME TypeOK, RecordsInv, NEW p \in Procs, Command(p)
  PROVE  TypeOK' /\ RecordsInv'
<1> USE DEF Commands
<1>0. file \in StateRecord /\ RecordInv(file)
  BY DEF TypeOK, RecordsInv
<1>1. CASE InitCmd(p)
  BY <1>1, NewStateOK, BeginOK DEF InitCmd
<1>2. CASE IngestBaseline(p)
  BY <1>2, IngestBaselineOK, BeginOK DEF IngestBaseline
<1>3. CASE IngestSync(p)
  <2>1. PICK rp \in RPs, n \in 1..MaxSeq :
          Begin(p, "ingest_sync", CanIngestSync(file, rp, n), AfterIngestSync(file, rp, n))
    BY <1>3 DEF IngestSync
  <2>2. CanIngestSync(file, rp, n) \in BOOLEAN
    BY DEF CanIngestSync
  <2> QED BY <1>0, <2>1, <2>2, IngestSyncOK, BeginOK
<1>4. CASE Seed(p)
  <2>1. PICK test \in VNets, prod \in VNets :
          Begin(p, "seed", CanSeed(file, test, prod), AfterSeed(file, test, prod))
    BY <1>4 DEF Seed
  <2>2. CanSeed(file, test, prod) /\ CanSeed(file, test, prod) \in BOOLEAN
    BY <2>1 DEF Begin, CanSeed
  <2> QED BY <1>0, <2>1, <2>2, SeedOK, BeginOK
<1>5. CASE MarkSeeded(p)
  <2>1. PICK test \in VNets, prod \in VNets :
          Begin(p, "mark_seeded", CanMarkSeeded(file, test, prod),
                AfterMarkSeeded(file, test, prod))
    BY <1>5 DEF MarkSeeded
  <2>2. CanMarkSeeded(file, test, prod) /\ CanMarkSeeded(file, test, prod) \in BOOLEAN
    BY <2>1 DEF Begin, CanMarkSeeded, CanSetPhase
  <2> QED BY <1>0, <2>1, <2>2, MarkSeededOK, BeginOK
<1>6. CASE TestStart(p)
  <2>1. CanTestStart(file) /\ CanTestStart(file) \in BOOLEAN
    BY <1>6 DEF TestStart, Begin, CanTestStart
  <2> QED BY <1>0, <1>6, <2>1, TestStartOK, BeginOK DEF TestStart
<1>7. CASE TestStop(p)
  <2>1. CanTestStop(file) \in BOOLEAN
    BY <1>0 DEF CanTestStop, StateRecord
  <2> QED BY <1>0, <1>7, <2>1, TestStopOK, BeginOK DEF TestStop
<1>8. CASE MarkTested(p)
  <2>1. CanMarkTested(file) /\ CanMarkTested(file) \in BOOLEAN
    BY <1>8 DEF MarkTested, Begin, CanMarkTested
  <2> QED BY <1>0, <1>8, <2>1, MarkTestedOK, BeginOK DEF MarkTested
<1>9. CASE ApplyDelta(p)
  <2>1. CanApplyDelta(file) \in BOOLEAN
    BY DEF CanApplyDelta
  <2> QED BY <1>0, <1>9, <2>1, BeginOK DEF ApplyDelta
<1>10. CASE RegisterSync(p)
  <2>1. PICK rp \in RPs, n \in 1..MaxSeq, ready \in BOOLEAN :
          Begin(p, "register_sync", CanRegisterSync(file, rp, n),
                AfterRegisterSync(file, rp, n, ready))
    BY <1>10 DEF RegisterSync
  <2>2. CanRegisterSync(file, rp, n) /\ CanRegisterSync(file, rp, n) \in BOOLEAN
    BY <2>1 DEF Begin, CanRegisterSync
  <2> QED BY <1>0, <2>1, <2>2, RegisterSyncOK, BeginOK
<1>11. CASE AuthorizeCutover(p)
  <2>1. CanAuthorizeCutover(file) /\ CanAuthorizeCutover(file) \in BOOLEAN
    BY <1>11 DEF AuthorizeCutover, Begin, CanAuthorizeCutover
  <2> QED BY <1>0, <1>11, <2>1, AuthorizeCutoverOK, BeginOK DEF AuthorizeCutover
<1>12. CASE MarkSourceStopped(p)
  <2>1. CanMarkSourceStopped(file) /\ CanMarkSourceStopped(file) \in BOOLEAN
    BY <1>12 DEF MarkSourceStopped, Begin, CanMarkSourceStopped
  <2> QED BY <1>0, <1>12, <2>1, MarkSourceStoppedOK, BeginOK DEF MarkSourceStopped
<1>13. CASE MarkFinalSync(p)
  <2>1. CanMarkFinalSync(file) /\ CanMarkFinalSync(file) \in BOOLEAN
    BY <1>0, <1>13 DEF MarkFinalSync, Begin, CanMarkFinalSync, StateRecord
  <2> QED BY <1>0, <1>13, <2>1, MarkFinalSyncOK, BeginOK DEF MarkFinalSync
<1>14. CASE ActivateProduction(p)
  <2>1. CanActivateProduction(file) /\ CanActivateProduction(file) \in BOOLEAN
    BY <1>14 DEF ActivateProduction, Begin, CanActivateProduction
  <2> QED BY <1>0, <1>14, <2>1, ActivateProductionOK, BeginOK DEF ActivateProduction
<1>15. CASE MarkCutoverComplete(p)
  <2>1. CanMarkCutoverComplete(file) /\ CanMarkCutoverComplete(file) \in BOOLEAN
    BY <1>15 DEF MarkCutoverComplete, Begin, CanMarkCutoverComplete
  <2> QED BY <1>0, <1>15, <2>1, MarkCutoverCompleteOK, BeginOK DEF MarkCutoverComplete
<1>16. CASE BeginRollback(p)
  <2>1. CanBeginRollback(file) /\ CanBeginRollback(file) \in BOOLEAN
    BY <1>16 DEF BeginRollback, Begin, CanBeginRollback
  <2> QED BY <1>0, <1>16, <2>1, BeginRollbackOK, BeginOK DEF BeginRollback
<1>17. CASE MarkRolledBack(p)
  <2>1. CanMarkRolledBack(file) /\ CanMarkRolledBack(file) \in BOOLEAN
    BY <1>17 DEF MarkRolledBack, Begin, CanMarkRolledBack
  <2> QED BY <1>0, <1>17, <2>1, MarkRolledBackOK, BeginOK DEF MarkRolledBack
<1>18. CASE Close(p)
  <2>1. CanClose(file) /\ CanClose(file) \in BOOLEAN
    BY <1>18 DEF Close, Begin, CanClose
  <2> QED BY <1>0, <1>18, <2>1, CloseOK, BeginOK DEF Close
<1> QED
  BY <1>1, <1>2, <1>3, <1>4, <1>5, <1>6, <1>7, <1>8, <1>9, <1>10, <1>11, <1>12, <1>13, <1>14,
     <1>15, <1>16, <1>17, <1>18 DEF Command

LEMMA StepKeepsRecords ==
  ASSUME TypeOK, RecordsInv, NEW p \in Procs, Step(p)
  PROVE  TypeOK' /\ RecordsInv'
<1> DEFINE VMs == [exists : BOOLEAN, running : BOOLEAN, bridge : VNets \cup {None}]
<1>0. proc \in ProcType /\ vm \in VMs /\ NoVM \in VMs /\ proc[p].mem \in StateRecord
  BY DEF TypeOK, ProcType, NoVM
<1>l. writerLeft' \in BOOLEAN /\ unsaved' \subseteq Starters
  BY DEF TypeOK, Step, CreateVM, ImportDisks, SeedFails, CheckStopped, WriteDelta, StopVM,
         SetNetwork, StartVM, Save, NoSuchVM, Die, leftovers
<1>1. ASSUME Advance(p), file' = file, vm' \in VMs, UNCHANGED <<sourceRunning, served>>
      PROVE  TypeOK' /\ RecordsInv'
  BY <1>0, <1>l, <1>1, AdvanceOK, RecordsKept DEF TypeOK, ProcType
<1>2. ASSUME Exit(p), file' = file, vm' \in VMs, UNCHANGED <<sourceRunning, served>>
      PROVE  TypeOK' /\ RecordsInv'
  <2>1. \A q \in Procs : proc'[q].mem \in {proc[q].mem, NewState}
    BY <1>0, <1>2, ExitOK
  <2> QED BY <1>0, <1>l, <1>2, <2>1, ExitOK, RecordsKept DEF TypeOK, ProcType
<1>3. CASE CreateVM(p)
  <2>1. [exists |-> TRUE, running |-> FALSE, bridge |-> proc[p].mem.test_vnet] \in VMs
    BY <1>0 DEF StateRecord
  <2> QED BY <1>0, <1>1, <1>2, <1>3, <2>1 DEF CreateVM
<1>4. CASE ImportDisks(p)
  BY <1>0, <1>1, <1>4 DEF ImportDisks
<1>5. CASE SeedFails(p)
  BY <1>0, <1>2, <1>5 DEF SeedFails
<1>6. CASE CheckStopped(p)
  BY <1>0, <1>1, <1>2, <1>6 DEF CheckStopped
<1>7. CASE WriteDelta(p)
  BY <1>0, <1>1, <1>7 DEF WriteDelta
<1>8. CASE StopVM(p)
  BY <1>0, <1>1, <1>8 DEF StopVM
<1>9. CASE SetNetwork(p)
  <2>1. TargetBridge(proc[p].cmd, proc[p].mem) \in VNets \cup {None}
    BY <1>0 DEF TargetBridge, StateRecord
  <2> QED BY <1>0, <1>1, <1>9, <2>1 DEF SetNetwork
<1>10. CASE StartVM(p)
  BY <1>0, <1>1, <1>10 DEF StartVM
<1>11. CASE Save(p)
  <2>1. file' \in StateRecord /\ RecordInv(file')
    BY <1>0, <1>11 DEF Save, RecordsInv
  <2>2. proc' \in ProcType /\ \A q \in Procs : proc'[q].mem \in {proc[q].mem, NewState}
    BY <1>0, <1>11, ExitOK DEF Save
  <2>3. \A q \in Procs : RecordInv(proc'[q].mem)
    BY <2>2, NewStateOK DEF RecordsInv
  <2> QED BY <1>l, <1>11, <2>1, <2>2, <2>3
    DEF Save, TypeOK, ProcType, RecordsInv, RecordInv, CutoverGated, CompleteMeansDone,
        VerifiedMeansRegistered
<1>12. CASE NoSuchVM(p)
  BY <1>0, <1>2, <1>12 DEF NoSuchVM
<1>13. CASE Die(p)
  BY <1>0, <1>2, <1>13 DEF Die
<1> QED
  BY <1>3, <1>4, <1>5, <1>6, <1>7, <1>8, <1>9, <1>10, <1>11, <1>12, <1>13 DEF Step

LEMMA EnvironmentKeepsRecords ==
  ASSUME TypeOK, RecordsInv, Environment
  PROVE  TypeOK' /\ RecordsInv'
<1>1. file' = file /\ proc' = proc
  BY DEF Environment, StopSource, StartSource, BuildVM, GuestPowersOff, WriterEnds, Serve
<1>2. RecordsInv'
  BY <1>1 DEF RecordsInv, RecordInv, CutoverGated, CompleteMeansDone, VerifiedMeansRegistered
<1>3. TypeOK'
  <2>1. CASE StopSource \/ StartSource \/ Serve
    BY <2>1 DEF TypeOK, StopSource, StartSource, Serve, leftovers
  <2>2. CASE BuildVM
    BY <2>2 DEF TypeOK, BuildVM, leftovers
  <2>3. CASE GuestPowersOff
    BY <2>3 DEF TypeOK, GuestPowersOff, leftovers
  <2>4. CASE WriterEnds
    BY <2>4 DEF TypeOK, WriterEnds
  <2> QED BY <2>1, <2>2, <2>3, <2>4 DEF Environment
<1> QED BY <1>2, <1>3

(* -------------------- theorems for any number of commands ------------------ *)

\* Whatever commands run, interleave and die, with or without the runbook: every
\* record in the file or in an invocation's memory is well formed and satisfies
\* RecordInv.
THEOREM RecordSafety == Spec => [](TypeOK /\ RecordsInv)
<1>1. Init => TypeOK /\ RecordsInv
  <2> SUFFICES ASSUME Init PROVE TypeOK /\ RecordsInv
    OBVIOUS
  <2>1. TypeOK
    BY NewStateOK, IdleType DEF Init, TypeOK, NoVM
  <2>2. RecordsInv
    BY NewStateOK, IdleType DEF Init, RecordsInv
  <2> QED BY <2>1, <2>2
<1>2. TypeOK /\ RecordsInv /\ [Next]_vars => (TypeOK /\ RecordsInv)'
  <2> SUFFICES ASSUME TypeOK, RecordsInv, [Next]_vars
               PROVE  TypeOK' /\ RecordsInv'
    OBVIOUS
  <2>1. CASE UNCHANGED vars
    BY <2>1 DEF vars, leftovers, TypeOK, RecordsInv, RecordInv, CutoverGated, CompleteMeansDone,
                VerifiedMeansRegistered
  <2>2. CASE Next
    BY <2>2, CommandKeepsRecords, StepKeepsRecords, EnvironmentKeepsRecords DEF Next
  <2> QED BY <2>1, <2>2
<1> QED BY <1>1, <1>2, PTL DEF Spec

\* Every record in the file or in memory has the types of TypeOK.
THEOREM Typing == Spec => []TypeOK
  BY RecordSafety, PTL

\* No chain of commands completes a cutover whose source was not recorded
\* stopped, whose final sync was not attested or whose destination was not started
\* by activate-production, though mark-cutover-complete tests none of the three.
THEOREM CompletedCutover == Spec => []CompleteMeansDoneInv
<1>1. RecordsInv => CompleteMeansDoneInv
  BY DEF RecordsInv, RecordInv, CompleteMeansDoneInv, Records
<1> QED BY <1>1, RecordSafety, PTL

\* No chain of commands reaches cutover without test, synchronization and
\* authorization, nor leaves it again for an earlier phase.
THEOREM GatedCutover == Spec => []CutoverGatedInv
<1>1. RecordsInv => CutoverGatedInv
  BY DEF RecordsInv, RecordInv, CutoverGatedInv, Records
<1> QED BY <1>1, RecordSafety, PTL

\* A record that calls its last sync verified has no newer bundle pending, but
\* for the final sync.
THEOREM VerifiedSync == Spec => []VerifiedMeansRegisteredInv
<1>1. RecordsInv => VerifiedMeansRegisteredInv
  BY DEF RecordsInv, RecordInv, VerifiedMeansRegisteredInv, Records
<1> QED BY <1>1, RecordSafety, PTL

(* ------------------- theorems for one command at a time -------------------- *)

Solo == \A p, q \in Procs : p = q

\* While commands run one at a time, the VM is stopped as long as the invocation
\* that writes to it is there: nothing starts it between require_stopped and the
\* end of the write, or the loss of the session.
THEOREM AttendedTarget ==
  ASSUME Solo
  PROVE  Spec => []AttendedTargetStopped
<1>1. Init => AttendedTargetStopped
  BY DEF Init, AttendedTargetStopped, At, Idle
<1>2. TypeOK /\ AttendedTargetStopped /\ [Next]_vars => AttendedTargetStopped'
  <2> SUFFICES ASSUME TypeOK, AttendedTargetStopped, [Next]_vars
               PROVE  AttendedTargetStopped'
    OBVIOUS
  <2>0. \A c, at : NextStep(c, at) = "write" => at = "check"
    BY DEF NextStep
  <2>1. CASE UNCHANGED vars
    BY <2>1 DEF vars, AttendedTargetStopped, At
  <2>2. CASE Environment
    BY <2>2 DEF Environment, StopSource, StartSource, BuildVM, GuestPowersOff, WriterEnds, Serve,
                AttendedTargetStopped, At, TypeOK
  <2>3. ASSUME NEW p \in Procs, Command(p)
        PROVE  AttendedTargetStopped'
    <3>1. PICK c, result : /\ proc' = [proc EXCEPT ![p] = [cmd |-> c, at |-> FirstStep(c),
                                                           mem |-> result]]
                           /\ vm' = vm
      BY <2>3 DEF Command, Begin, InitCmd, IngestBaseline, IngestSync, Seed, MarkSeeded, TestStart,
                  TestStop, MarkTested, ApplyDelta, RegisterSync, AuthorizeCutover,
                  MarkSourceStopped, MarkFinalSync, ActivateProduction, MarkCutoverComplete,
                  BeginRollback, MarkRolledBack, Close
    <3>2. FirstStep(c) # "write"
      BY DEF FirstStep
    <3> QED BY <3>1, <3>2 DEF AttendedTargetStopped, At, TypeOK
  <2>4. ASSUME NEW p \in Procs, Step(p)
        PROVE  AttendedTargetStopped'
    <3>1. \A q \in Procs : q = p
      BY DEF Solo
    <3>2. ASSUME Exit(p)
          PROVE  AttendedTargetStopped'
      BY <3>1, <3>2, IdleType DEF Exit, Idle, AttendedTargetStopped, At, TypeOK
    <3>3. ASSUME Advance(p), ~At(p, "check") \/ ~vm'.running
          PROVE  AttendedTargetStopped'
      BY <2>0, <3>1, <3>3 DEF Advance, Goto, AttendedTargetStopped, At, TypeOK
    <3>4. CASE CreateVM(p)
      BY <3>2, <3>3, <3>4 DEF CreateVM, At
    <3>5. CASE ImportDisks(p) \/ WriteDelta(p) \/ StopVM(p) \/ SetNetwork(p) \/ StartVM(p)
      BY <3>3, <3>5 DEF ImportDisks, WriteDelta, StopVM, SetNetwork, StartVM, At
    <3>6. CASE CheckStopped(p)
      BY <3>2, <3>3, <3>6 DEF CheckStopped
    <3>7. CASE SeedFails(p) \/ Save(p) \/ NoSuchVM(p) \/ Die(p)
      BY <3>2, <3>7 DEF SeedFails, Save, NoSuchVM, Die
    <3> QED BY <2>4, <3>4, <3>5, <3>6, <3>7 DEF Step
  <2> QED BY <2>1, <2>2, <2>3, <2>4 DEF Next
<1> QED BY <1>1, <1>2, Typing, PTL DEF Spec

\* If, in addition, no invocation dies, no writer is ever left on the node, so a live
\* destination is never modified by the delta writer.
THEOREM DeltaTarget ==
  ASSUME Solo, ~Crashes
  PROVE  Spec => []DeltaTargetStopped
<1> DEFINE NoneLeft == ~writerLeft
<1>1. Init => NoneLeft
  BY DEF Init
<1>2. NoneLeft /\ [Next]_vars => NoneLeft'
  <2> SUFFICES ASSUME ~writerLeft, [Next]_vars
               PROVE  writerLeft' = writerLeft
    OBVIOUS
  <2>1. CASE UNCHANGED vars
    BY <2>1 DEF vars, leftovers
  <2>2. CASE Environment
    BY <2>2 DEF Environment, StopSource, StartSource, BuildVM, GuestPowersOff, WriterEnds, Serve,
                leftovers
  <2>3. ASSUME NEW p \in Procs, Command(p)
        PROVE  writerLeft' = writerLeft
    BY <2>3 DEF Command, Begin, InitCmd, IngestBaseline, IngestSync, Seed, MarkSeeded, TestStart,
                TestStop, MarkTested, ApplyDelta, RegisterSync, AuthorizeCutover,
                MarkSourceStopped, MarkFinalSync, ActivateProduction, MarkCutoverComplete,
                BeginRollback, MarkRolledBack, Close, leftovers
  <2>4. ASSUME NEW p \in Procs, Step(p)
        PROVE  writerLeft' = writerLeft
    BY <2>4 DEF Step, CreateVM, ImportDisks, SeedFails, CheckStopped, WriteDelta, StopVM,
                SetNetwork, StartVM, Save, NoSuchVM, Die, leftovers
  <2> QED BY <2>1, <2>2, <2>3, <2>4 DEF Next
<1>3. NoneLeft /\ AttendedTargetStopped => DeltaTargetStopped
  BY DEF AttendedTargetStopped, DeltaTargetStopped
<1> QED BY <1>1, <1>2, <1>3, AttendedTarget, PTL DEF Spec

\* The parts of SingleInv about records rather than about the virtual machines.
RoutesOK(s) == NetInv(s) /\ SourceInv(s)

\* A command that keeps the phase, the networks and "source stopped".
LEMMA SameRoute ==
  ASSUME NEW r, NEW c, RoutesOK(file),
         r.phase = file.phase, r.proxmox_vmid = file.proxmox_vmid,
         r.production_vnet = file.production_vnet, r.test_vnet = file.test_vnet,
         r.source_stopped = file.source_stopped,
         c \notin {"seed", "test_start", "activate_production", "begin_rollback"}
  PROVE  RoutesOK(r) /\ Began(c, r)
  BY DEF RoutesOK, NetInv, SourceInv, Began

\* A command that leaves its record outside cutover and rollback.
LEMMA OutsideRoute ==
  ASSUME NEW r, NEW c, NetInv(r), r.phase \notin InCutover \cup {"ROLLBACK_IN_PROGRESS"},
         c \notin {"seed", "test_start", "activate_production", "begin_rollback"}
  PROVE  RoutesOK(r) /\ Began(c, r)
  BY DEF RoutesOK, SourceInv, Began

\* A command begins when every invocation is idle.
LEMMA BeginSolo ==
  ASSUME Solo, TypeOK, SingleInv, NEW p \in Procs, NEW c \in Commands,
         NEW accepted \in BOOLEAN, NEW r, RoutesOK(r), Began(c, r), Begin(p, c, accepted, r)
  PROVE  SingleInv'
<1>1. \A q \in Procs : proc'[q] = [cmd |-> c, at |-> FirstStep(c), mem |-> r]
  BY DEF Solo, Begin, TypeOK
<1>2. UNCHANGED <<file, vm, sourceRunning>>
  BY DEF Begin
<1>3. Reached(c, FirstStep(c), r) /\ FirstStep(c) # "idle"
  BY DEF Reached, FirstStep
<1>4. ASSUME NEW q \in Procs
      PROVE  (NetInv(proc[q].mem) /\ SourceInv(proc[q].mem))'
  BY <1>1, <1>2 DEF RoutesOK, NetInv, SourceInv
<1>5. ASSUME NEW q \in Procs
      PROVE  InFlight(q)'
  BY <1>1, <1>2, <1>3 DEF InFlight, At, Began, Reached
<1>6. (Valid(file) /\ NetInv(file) /\ SourceInv(file))'
  BY <1>2 DEF SingleInv, Valid, NetInv, SourceInv
<1>7. ((file.phase = "ROLLBACK_IN_PROGRESS" => vm.exists) /\ RollbackIsolated /\ NoSplitBrain)'
  BY <1>2 DEF SingleInv, RollbackIsolated, NoSplitBrain
<1> QED BY <1>4, <1>5, <1>6, <1>7 DEF SingleInv

LEMMA CommandSolo ==
  ASSUME Solo, Runbook, TypeOK, RecordsInv, SingleInv, NEW p \in Procs, Command(p)
  PROVE  SingleInv'
<1> USE DEF Commands
<1>0. file \in StateRecord /\ RecordInv(file) /\ RoutesOK(file) /\ NetInv(file)
  BY DEF TypeOK, RecordsInv, SingleInv, RoutesOK
<1>1. CASE InitCmd(p)
  <2>1. NetInv(NewState) /\ NewState.phase = "NEW"
    BY DEF NetInv, NewState
  <2> QED BY <1>1, <2>1, OutsideRoute, BeginSolo DEF InitCmd, InCutover
<1>2. CASE IngestBaseline(p)
  <2>1. PICK rp \in RPs \cup {None} : Begin(p, "ingest_baseline", TRUE, AfterIngestBaseline(rp))
    BY <1>2 DEF IngestBaseline
  <2>2. /\ NetInv(AfterIngestBaseline(rp))
        /\ AfterIngestBaseline(rp).phase = "BASELINE_READY"
    BY DEF NetInv, AfterIngestBaseline, NewState
  <2> QED BY <2>1, <2>2, OutsideRoute, BeginSolo DEF InCutover
<1>3. CASE IngestSync(p)
  <2>1. PICK rp \in RPs, n \in 1..MaxSeq :
          Begin(p, "ingest_sync", CanIngestSync(file, rp, n), AfterIngestSync(file, rp, n))
    BY <1>3 DEF IngestSync
  <2> DEFINE r == AfterIngestSync(file, rp, n)
  <2>2. RoutesOK(r) /\ Began("ingest_sync", r)
    <3>1. /\ r.phase = file.phase /\ r.proxmox_vmid = file.proxmox_vmid
          /\ r.production_vnet = file.production_vnet /\ r.test_vnet = file.test_vnet
          /\ r.source_stopped = file.source_stopped
      BY <1>0 DEF AfterIngestSync, StateRecord
    <3> QED BY <1>0, <3>1, SameRoute
  <2>3. CanIngestSync(file, rp, n) \in BOOLEAN
    BY DEF CanIngestSync
  <2> QED BY <2>1, <2>2, <2>3, BeginSolo
<1>4. CASE Seed(p)
  <2>1. PICK test \in VNets, prod \in VNets :
          /\ prod = SourceVNet
          /\ Begin(p, "seed", CanSeed(file, test, prod), AfterSeed(file, test, prod))
    BY <1>4 DEF Seed
  <2> DEFINE r == AfterSeed(file, test, prod)
  <2>2. file.phase = "BASELINE_READY" /\ test # prod /\ CanSeed(file, test, prod) \in BOOLEAN
    BY <2>1 DEF Begin, CanSeed
  <2>3. r.phase = "SEEDED" /\ r.production_vnet = prod /\ r.test_vnet = test
    BY <1>0 DEF AfterSeed, SetPhase, Destination, StateRecord
  <2>4. RoutesOK(r) /\ Began("seed", r)
    BY <2>1, <2>2, <2>3 DEF RoutesOK, NetInv, SourceInv, Began, InCutover
  <2> QED BY <2>1, <2>2, <2>4, BeginSolo
<1>5. CASE MarkSeeded(p)
  <2>1. PICK test \in VNets, prod \in VNets :
          /\ prod = SourceVNet
          /\ Begin(p, "mark_seeded", CanMarkSeeded(file, test, prod),
                   AfterMarkSeeded(file, test, prod))
    BY <1>5 DEF MarkSeeded
  <2> DEFINE r == AfterMarkSeeded(file, test, prod)
  <2>2. /\ Valid([Destination(file, test, prod) EXCEPT !.phase = "SEEDED"])
        /\ CanMarkSeeded(file, test, prod) \in BOOLEAN
    BY <2>1 DEF Begin, CanMarkSeeded, CanSetPhase
  <2>3. r.phase = "SEEDED" /\ r.production_vnet = prod /\ r.test_vnet = test
    BY <1>0 DEF AfterMarkSeeded, SetPhase, Destination, StateRecord
  <2>4. test # prod
    BY <2>2, <2>3, StateAssumption DEF Valid, AfterMarkSeeded, SetPhase
  <2>5. NetInv(r)
    BY <2>1, <2>3, <2>4 DEF NetInv
  <2> QED BY <2>1, <2>2, <2>3, <2>5, OutsideRoute, BeginSolo DEF InCutover
<1>6. CASE TestStart(p)
  <2> DEFINE r == AfterTestStart(file)
  <2>1. /\ file.phase \in {"SEEDED", "TESTED", "SYNCING", "CUTOVER_READY"}
        /\ Valid(file) /\ CanTestStart(file) \in BOOLEAN
    BY <1>6 DEF TestStart, Begin, CanTestStart
  <2>2. /\ r.phase = file.phase /\ r.proxmox_vmid = file.proxmox_vmid
        /\ r.production_vnet = file.production_vnet /\ r.test_vnet = file.test_vnet
    BY <1>0 DEF AfterTestStart, StateRecord
  <2>3. RoutesOK(r) /\ Began("test_start", r)
    BY <1>0, <2>1, <2>2 DEF RoutesOK, NetInv, SourceInv, Began, InCutover, Valid, NeedsVmid
  <2> QED BY <1>6, <2>1, <2>3, BeginSolo DEF TestStart
<1>7. CASE TestStop(p)
  <2> DEFINE r == AfterTestStop(file)
  <2>1. /\ r.phase = file.phase /\ r.proxmox_vmid = file.proxmox_vmid
        /\ r.production_vnet = file.production_vnet /\ r.test_vnet = file.test_vnet
        /\ r.source_stopped = file.source_stopped
    BY <1>0 DEF AfterTestStop, StateRecord
  <2>2. RoutesOK(r) /\ Began("test_stop", r)
    BY <1>0, <2>1, SameRoute
  <2>3. CanTestStop(file) \in BOOLEAN
    BY <1>0 DEF CanTestStop, StateRecord
  <2> QED BY <1>7, <2>2, <2>3, BeginSolo DEF TestStop
<1>8. CASE MarkTested(p)
  <2> DEFINE r == AfterMarkTested(file)
  <2>1. /\ r.phase = "TESTED" /\ r.proxmox_vmid = file.proxmox_vmid
        /\ r.production_vnet = file.production_vnet /\ r.test_vnet = file.test_vnet
    BY <1>0 DEF AfterMarkTested, SetPhase, Tested, StateRecord
  <2>2. NetInv(r)
    BY <1>0, <2>1 DEF NetInv
  <2>3. CanMarkTested(file) \in BOOLEAN
    BY DEF CanMarkTested
  <2> QED BY <1>8, <2>1, <2>2, <2>3, OutsideRoute, BeginSolo DEF MarkTested, InCutover
<1>9. CASE ApplyDelta(p)
  <2>1. RoutesOK(file) /\ Began("apply_delta", file)
    BY <1>0, SameRoute
  <2>2. CanApplyDelta(file) \in BOOLEAN
    BY DEF CanApplyDelta
  <2> QED BY <1>9, <2>1, <2>2, BeginSolo DEF ApplyDelta
<1>10. CASE RegisterSync(p)
  <2>1. PICK rp \in RPs, n \in 1..MaxSeq, ready \in BOOLEAN :
          Begin(p, "register_sync", CanRegisterSync(file, rp, n),
                AfterRegisterSync(file, rp, n, ready))
    BY <1>10 DEF RegisterSync
  <2> DEFINE r == AfterRegisterSync(file, rp, n, ready)
  <2>2. /\ r.phase \in {"SYNCING", "CUTOVER_READY"} /\ r.proxmox_vmid = file.proxmox_vmid
        /\ r.production_vnet = file.production_vnet /\ r.test_vnet = file.test_vnet
    BY <1>0 DEF AfterRegisterSync, SetPhase, Registered, StateRecord
  <2>3. NetInv(r)
    BY <1>0, <2>2 DEF NetInv
  <2>4. CanRegisterSync(file, rp, n) \in BOOLEAN
    BY DEF CanRegisterSync
  <2> QED BY <2>1, <2>2, <2>3, <2>4, OutsideRoute, BeginSolo DEF InCutover
<1>11. CASE AuthorizeCutover(p)
  <2> DEFINE r == AfterAuthorizeCutover(file)
  <2>1. file.phase \in {"CUTOVER_READY", "CUTOVER_IN_PROGRESS"}
    <3>1. Authorized(file) \in StateRecord /\ Authorized(file).phase = file.phase
      BY <1>0 DEF Authorized, StateRecord
    <3> QED BY <1>11, <3>1, Predecessors DEF AuthorizeCutover, Begin, CanAuthorizeCutover, CanSetPhase
  <2>2. /\ r.phase = "CUTOVER_IN_PROGRESS" /\ r.proxmox_vmid = file.proxmox_vmid
        /\ r.production_vnet = file.production_vnet /\ r.test_vnet = file.test_vnet
        /\ r.source_stopped = file.source_stopped
    BY <1>0 DEF AfterAuthorizeCutover, SetPhase, Authorized, StateRecord
  <2>3. file.phase = "CUTOVER_READY" => ~file.source_stopped
    BY <1>0 DEF RecordInv, CutoverGated, CutoverBegan
  <2>4. RoutesOK(r) /\ Began("authorize_cutover", r)
    BY <1>0, <2>1, <2>2, <2>3 DEF RoutesOK, NetInv, SourceInv, Began, InCutover
  <2>5. CanAuthorizeCutover(file) \in BOOLEAN
    BY DEF CanAuthorizeCutover
  <2> QED BY <1>11, <2>4, <2>5, BeginSolo DEF AuthorizeCutover
<1>12. CASE MarkSourceStopped(p)
  <2> DEFINE r == AfterMarkSourceStopped(file)
  <2>1. ~sourceRunning /\ file.phase = "CUTOVER_IN_PROGRESS" /\ CanMarkSourceStopped(file) \in BOOLEAN
    BY <1>12 DEF MarkSourceStopped, Begin, CanMarkSourceStopped
  <2>2. /\ r.phase = file.phase /\ r.proxmox_vmid = file.proxmox_vmid
        /\ r.production_vnet = file.production_vnet /\ r.test_vnet = file.test_vnet
    BY <1>0 DEF AfterMarkSourceStopped, StateRecord
  <2>3. RoutesOK(r) /\ Began("mark_source_stopped", r)
    BY <1>0, <2>1, <2>2 DEF RoutesOK, NetInv, SourceInv, Began, InCutover
  <2> QED BY <1>12, <2>1, <2>3, BeginSolo DEF MarkSourceStopped
<1>13. CASE MarkFinalSync(p)
  <2> DEFINE r == AfterMarkFinalSync(file)
  <2>1. /\ r.phase = file.phase /\ r.proxmox_vmid = file.proxmox_vmid
        /\ r.production_vnet = file.production_vnet /\ r.test_vnet = file.test_vnet
        /\ r.source_stopped = file.source_stopped
    BY <1>0 DEF AfterMarkFinalSync, StateRecord
  <2>2. RoutesOK(r) /\ Began("mark_final_sync", r)
    BY <1>0, <2>1, SameRoute
  <2>3. CanMarkFinalSync(file) \in BOOLEAN
    BY <1>0 DEF CanMarkFinalSync, StateRecord
  <2> QED BY <1>13, <2>2, <2>3, BeginSolo DEF MarkFinalSync
<1>14. CASE ActivateProduction(p)
  <2> DEFINE r == AfterActivateProduction(file)
  <2>1. /\ file.phase = "CUTOVER_IN_PROGRESS" /\ file.source_stopped /\ file.final_sync
        /\ Valid(file) /\ CanActivateProduction(file) \in BOOLEAN
    BY <1>14 DEF ActivateProduction, Begin, CanActivateProduction
  <2>2. /\ r.phase = file.phase /\ r.proxmox_vmid = file.proxmox_vmid
        /\ r.production_vnet = file.production_vnet /\ r.test_vnet = file.test_vnet
        /\ r.source_stopped = file.source_stopped
    BY <1>0 DEF AfterActivateProduction, StateRecord
  <2>3. RoutesOK(r) /\ Began("activate_production", r)
    BY <1>0, <2>1, <2>2 DEF RoutesOK, NetInv, SourceInv, Began, InCutover, Valid, NeedsVmid
  <2> QED BY <1>14, <2>1, <2>3, BeginSolo DEF ActivateProduction
<1>15. CASE MarkCutoverComplete(p)
  <2> DEFINE r == AfterMarkCutoverComplete(file)
  <2>1. file.phase \in InCutover /\ CanMarkCutoverComplete(file) \in BOOLEAN
    BY <1>0, <1>15, Predecessors
    DEF MarkCutoverComplete, Begin, CanMarkCutoverComplete, CanSetPhase
  <2>2. /\ r.phase = "CUTOVER_COMPLETE" /\ r.proxmox_vmid = file.proxmox_vmid
        /\ r.production_vnet = file.production_vnet /\ r.test_vnet = file.test_vnet
        /\ r.source_stopped = file.source_stopped
    BY <1>0 DEF AfterMarkCutoverComplete, SetPhase, StateRecord
  <2>3. RoutesOK(r) /\ Began("mark_cutover_complete", r)
    BY <1>0, <2>1, <2>2 DEF RoutesOK, NetInv, SourceInv, Began, InCutover
  <2> QED BY <1>15, <2>1, <2>3, BeginSolo DEF MarkCutoverComplete
<1>16. CASE BeginRollback(p)
  <2> DEFINE r == AfterBeginRollback(file)
  <2>1. /\ file.phase \in InCutover /\ file.proxmox_vmid /\ CanBeginRollback(file) \in BOOLEAN
    BY <1>0, <1>16 DEF BeginRollback, Begin, CanBeginRollback, StateRecord
  <2>2. /\ r.phase = "ROLLBACK_IN_PROGRESS" /\ r.proxmox_vmid = file.proxmox_vmid
        /\ r.production_vnet = file.production_vnet /\ r.test_vnet = file.test_vnet
    BY <1>0 DEF AfterBeginRollback, SetPhase, StateRecord
  <2>3. RoutesOK(r) /\ Began("begin_rollback", r)
    BY <1>0, <2>1, <2>2 DEF RoutesOK, NetInv, SourceInv, Began, InCutover
  <2> QED BY <1>16, <2>1, <2>3, BeginSolo DEF BeginRollback
<1>17. CASE MarkRolledBack(p)
  <2> DEFINE r == AfterMarkRolledBack(file)
  <2>1. /\ r.phase = "ROLLED_BACK" /\ r.proxmox_vmid = file.proxmox_vmid
        /\ r.production_vnet = file.production_vnet /\ r.test_vnet = file.test_vnet
    BY <1>0 DEF AfterMarkRolledBack, SetPhase, StateRecord
  <2>2. NetInv(r) /\ CanMarkRolledBack(file) \in BOOLEAN
    BY <1>0, <2>1 DEF NetInv, CanMarkRolledBack
  <2> QED BY <1>17, <2>1, <2>2, OutsideRoute, BeginSolo DEF MarkRolledBack, InCutover
<1>18. CASE Close(p)
  <2> DEFINE r == AfterClose(file)
  <2>1. /\ r.phase = "CLOSED" /\ r.proxmox_vmid = file.proxmox_vmid
        /\ r.production_vnet = file.production_vnet /\ r.test_vnet = file.test_vnet
    BY <1>0 DEF AfterClose, SetPhase, StateRecord
  <2>2. NetInv(r) /\ CanClose(file) \in BOOLEAN
    BY <1>0, <2>1 DEF NetInv, CanClose
  <2> QED BY <1>18, <2>1, <2>2, OutsideRoute, BeginSolo DEF Close, InCutover
<1> QED
  BY <1>1, <1>2, <1>3, <1>4, <1>5, <1>6, <1>7, <1>8, <1>9, <1>10, <1>11, <1>12, <1>13, <1>14,
     <1>15, <1>16, <1>17, <1>18 DEF Command

\* What the parts of SingleInv need of the new state, put together.
LEMMA SingleInvNext ==
  ASSUME SingleInv, file' = file, NoSplitBrain',
         file.phase = "ROLLBACK_IN_PROGRESS" => (vm.exists /\ RollbackIsolated)',
         \A q \in Procs : (NetInv(proc[q].mem) /\ SourceInv(proc[q].mem) /\ InFlight(q))',
         SourceInv(file)'
  PROVE  SingleInv'
<1>1. (Valid(file) /\ NetInv(file))'
  BY DEF SingleInv, Valid, NetInv
<1>2. ((file.phase = "ROLLBACK_IN_PROGRESS" => vm.exists) /\ RollbackIsolated)'
  BY DEF SingleInv, RollbackIsolated
<1> QED BY <1>1, <1>2 DEF SingleInv

LEMMA StepSolo ==
  ASSUME Solo, TypeOK, SingleInv, NEW p \in Procs, Step(p)
  PROVE  SingleInv'
\* Rigid names, so that a primed formula speaks of the command as it was.
<1>p. PICK c, at, m : c = proc[p].cmd /\ at = proc[p].at /\ m = proc[p].mem
  OBVIOUS
<1> USE <1>p
<1>0. /\ \A q \in Procs : q = p
      /\ NetInv(m) /\ SourceInv(m) /\ InFlight(p)
      /\ NetInv(file) /\ SourceInv(file)
  BY DEF Solo, SingleInv
\* After Exit every invocation is idle, and after Advance only `at` has changed.
<1>1. ASSUME Exit(p)
      PROVE  \A q \in Procs : (NetInv(proc[q].mem) /\ SourceInv(proc[q].mem) /\ InFlight(q))'
  <2>1. \A q \in Procs : proc'[q] = Idle
    BY <1>0, <1>1 DEF Exit, TypeOK
  <2>2. NetInv(NewState) /\ NewState.phase = "NEW" /\ Idle.mem = NewState /\ Idle.at = "idle"
    BY DEF NetInv, NewState, Idle
  <2>3. \A q \in Procs : NetInv(proc[q].mem)'
    BY <2>1, <2>2 DEF NetInv
  <2>4. \A q \in Procs : SourceInv(proc[q].mem)'
    BY <2>1, <2>2 DEF SourceInv, InCutover
  <2> QED BY <2>1, <2>2, <2>3, <2>4 DEF InFlight, At
<1>2. ASSUME Advance(p), ~At(p, "idle"), UNCHANGED <<file, sourceRunning>>,
             Reached(c, NextStep(c, at), m)'
      PROVE  \A q \in Procs : (NetInv(proc[q].mem) /\ SourceInv(proc[q].mem) /\ InFlight(q))'
  <2>1. proc'[p] = [proc[p] EXCEPT !.at = NextStep(c, at)]
    BY <1>2 DEF Advance, Goto, TypeOK
  <2>2. proc'[p].cmd = c /\ proc'[p].mem = m /\ proc'[p].at = NextStep(c, at)
    BY <2>1 DEF TypeOK
  <2>3. NextStep(c, at) # "idle"
    BY DEF NextStep
  <2>4. (NetInv(proc[p].mem) /\ SourceInv(proc[p].mem))'
    BY <1>0, <1>2, <2>2 DEF NetInv, SourceInv
  <2>5. InFlight(p)'
    BY <1>0, <1>2, <2>2, <2>3 DEF InFlight, At, Began, Reached
  <2> QED BY <1>0, <2>4, <2>5
<1>3. Began(c, m) /\ Reached(c, at, m) /\ ~At(p, "idle")
  <2>1. ~At(p, "idle")
    BY DEF Step, CreateVM, ImportDisks, SeedFails, CheckStopped, WriteDelta, StopVM, SetNetwork,
           StartVM, Save, NoSuchVM, Die, At
  <2> QED BY <1>0, <2>1 DEF InFlight
<1>4. CASE CreateVM(p)
  <2>1. c = "seed" /\ file.phase = "BASELINE_READY" /\ NextStep(c, at) = "import"
    BY <1>3, <1>4 DEF CreateVM, At, Reached, Began, NextStep
  <2>2. UNCHANGED <<file, sourceRunning>> /\ (vm' = vm \/ ~vm'.running)
    BY <1>4 DEF CreateVM
  <2>3. NoSplitBrain' /\ SourceInv(file)'
    BY <1>0, <2>2 DEF NoSplitBrain, SourceInv, SingleInv
  <2>4. Reached("seed", "import", m)'
    BY DEF Reached
  <2>5. \A q \in Procs : (NetInv(proc[q].mem) /\ SourceInv(proc[q].mem) /\ InFlight(q))'
    <3>1. CASE vm.exists
      BY <1>1, <1>4, <3>1 DEF CreateVM
    <3>2. CASE ~vm.exists
      <4>1. Advance(p)
        BY <1>4, <3>2 DEF CreateVM
      <4> QED BY <1>2, <1>3, <2>1, <2>2, <2>4, <4>1
    <3> QED BY <3>1, <3>2
  <2> QED BY <2>1, <2>2, <2>3, <2>5, SingleInvNext
<1>5. CASE ImportDisks(p)
  <2>1. c = "seed" /\ NextStep(c, at) = "save"
    BY <1>3, <1>5 DEF ImportDisks, At, Reached, NextStep
  <2>2. UNCHANGED <<file, vm, sourceRunning>>
    BY <1>5 DEF ImportDisks
  <2>3. Reached("seed", "save", m)'
    BY DEF Reached
  <2>4. /\ NoSplitBrain' /\ SourceInv(file)'
        /\ file.phase = "ROLLBACK_IN_PROGRESS" => (vm.exists /\ RollbackIsolated)'
    BY <1>0, <2>2 DEF NoSplitBrain, SourceInv, SingleInv, RollbackIsolated
  <2>5. Advance(p)
    BY <1>5 DEF ImportDisks
  <2> QED BY <1>2, <1>3, <2>1, <2>2, <2>3, <2>4, <2>5, SingleInvNext
<1>6. CASE SeedFails(p)
  <2>1. file.phase = "BASELINE_READY"
    BY <1>3, <1>6 DEF SeedFails, At, Reached, Began
  <2>2. UNCHANGED <<file, sourceRunning>> /\ (vm' = vm \/ ~vm'.running) /\ Exit(p)
    BY <1>6 DEF SeedFails, NoVM
  <2>3. NoSplitBrain' /\ SourceInv(file)'
    BY <1>0, <2>2 DEF NoSplitBrain, SourceInv, SingleInv
  <2> QED BY <1>1, <2>1, <2>2, <2>3, SingleInvNext
<1>7. CASE CheckStopped(p)
  <2>1. UNCHANGED <<file, vm, sourceRunning>>
    BY <1>7 DEF CheckStopped
  <2>2. /\ NoSplitBrain' /\ SourceInv(file)'
        /\ file.phase = "ROLLBACK_IN_PROGRESS" => (vm.exists /\ RollbackIsolated)'
    BY <1>0, <2>1 DEF NoSplitBrain, SourceInv, SingleInv, RollbackIsolated
  <2>3. c \in {"apply_delta", "activate_production"}
    BY <1>3, <1>7 DEF CheckStopped, At, Reached
  <2>4. Reached(c, NextStep(c, at), m)'
    <3>1. (c = "apply_delta" /\ NextStep(c, at) = "write")
            \/ (c = "activate_production" /\ NextStep(c, at) = "net")
      BY <1>7, <2>3 DEF CheckStopped, At, NextStep
    <3> QED BY <3>1 DEF Reached
  <2>5. Advance(p) \/ Exit(p)
    BY <1>7 DEF CheckStopped
  <2> QED BY <1>1, <1>2, <1>3, <2>1, <2>2, <2>4, <2>5, SingleInvNext
<1>8. CASE WriteDelta(p)
  <2>1. c = "apply_delta" /\ NextStep(c, at) = "save"
    BY <1>3, <1>8 DEF WriteDelta, At, Reached, NextStep
  <2>2. UNCHANGED <<file, vm, sourceRunning>>
    BY <1>8 DEF WriteDelta
  <2>3. Reached("apply_delta", "save", m)'
    BY DEF Reached
  <2>4. /\ NoSplitBrain' /\ SourceInv(file)'
        /\ file.phase = "ROLLBACK_IN_PROGRESS" => (vm.exists /\ RollbackIsolated)'
    BY <1>0, <2>2 DEF NoSplitBrain, SourceInv, SingleInv, RollbackIsolated
  <2>5. Advance(p)
    BY <1>8 DEF WriteDelta
  <2> QED BY <1>2, <1>3, <2>1, <2>2, <2>3, <2>4, <2>5, SingleInvNext
<1>9. CASE StopVM(p)
  <2>1. c \in {"test_stop", "begin_rollback"} /\ vm.exists
    BY <1>3, <1>9 DEF StopVM, At, Reached
  <2>2. /\ UNCHANGED <<file, sourceRunning>> /\ Advance(p)
        /\ vm' = [vm EXCEPT !.running = FALSE]
    BY <1>9 DEF StopVM
  <2>3. ~vm'.running /\ vm'.exists = vm.exists /\ vm'.bridge = vm.bridge
    BY <2>2 DEF TypeOK
  <2>4. /\ NoSplitBrain' /\ SourceInv(file)'
        /\ file.phase = "ROLLBACK_IN_PROGRESS" => (vm.exists /\ RollbackIsolated)'
    BY <1>0, <2>1, <2>2, <2>3 DEF NoSplitBrain, SourceInv, SingleInv, RollbackIsolated
  <2>5. Reached(c, NextStep(c, at), m)'
    <3>1. (c = "test_stop" /\ NextStep(c, at) = "save")
            \/ (c = "begin_rollback" /\ NextStep(c, at) = "net")
      BY <1>9, <2>1 DEF StopVM, At, NextStep
    <3> QED BY <2>1, <2>3, <3>1 DEF Reached
  <2> QED BY <1>2, <1>3, <2>2, <2>4, <2>5, SingleInvNext
<1>10. CASE SetNetwork(p)
  <2>1. c \in {"test_start", "activate_production", "begin_rollback"} /\ vm.exists
    BY <1>3, <1>10 DEF SetNetwork, At, Reached
  <2>2. /\ UNCHANGED <<file, sourceRunning>> /\ Advance(p)
        /\ vm' = [vm EXCEPT !.bridge = TargetBridge(c, m)]
    BY <1>10 DEF SetNetwork
  <2>3. vm'.running = vm.running /\ vm'.exists = vm.exists /\ vm'.bridge = TargetBridge(c, m)
    BY <2>2 DEF TypeOK
  <2>4. file.phase # "ROLLBACK_IN_PROGRESS"
    BY <1>3, <2>1 DEF Began, InCutover
  <2>5. c # "activate_production" => TargetBridge(c, m) = m.test_vnet /\ m.test_vnet # SourceVNet
    BY <1>0, <1>3, <2>1 DEF TargetBridge, Began, NetInv
  <2>6. c = "activate_production" => ~sourceRunning
    BY <1>0, <1>3 DEF Began, SourceInv, InCutover
  <2>7. NoSplitBrain' /\ SourceInv(file)'
    BY <1>0, <2>2, <2>3, <2>5, <2>6 DEF NoSplitBrain, SourceInv
  <2>8. Reached(c, NextStep(c, at), m)'
    <3>1. /\ c \in {"test_start", "activate_production"} => NextStep(c, at) = "start"
          /\ c = "begin_rollback" => NextStep(c, at) = "save" /\ ~vm.running
      BY <1>3, <1>10 DEF SetNetwork, At, NextStep, Starters, Reached
    <3> QED BY <2>1, <2>3, <2>5, <3>1 DEF Reached
  <2> QED BY <1>2, <1>3, <2>2, <2>4, <2>7, <2>8, SingleInvNext
<1>11. CASE StartVM(p)
  <2>1. c \in {"test_start", "activate_production"}
    BY <1>3, <1>11 DEF StartVM, At, Reached
  <2>2. /\ UNCHANGED <<file, sourceRunning>> /\ Advance(p)
        /\ vm' = [vm EXCEPT !.running = TRUE]
    BY <1>11 DEF StartVM
  <2>3. vm'.bridge = vm.bridge
    BY <2>2 DEF TypeOK
  <2>4. file.phase # "ROLLBACK_IN_PROGRESS"
    BY <1>3, <2>1 DEF Began, InCutover
  <2>5. c = "test_start" => vm.bridge # SourceVNet
    BY <1>0, <1>3, <1>11 DEF StartVM, At, Began, Reached, NetInv
  <2>6. c = "activate_production" => ~sourceRunning
    BY <1>0, <1>3 DEF Began, SourceInv, InCutover
  <2>7. NoSplitBrain' /\ SourceInv(file)'
    BY <1>0, <2>1, <2>2, <2>3, <2>5, <2>6 DEF NoSplitBrain, SourceInv
  <2>8. Reached(c, NextStep(c, at), m)'
    <3>1. NextStep(c, at) = "save"
      BY <1>11, <2>1 DEF StartVM, At, NextStep
    <3> QED BY <2>1, <3>1 DEF Reached
  <2> QED BY <1>2, <1>3, <2>2, <2>4, <2>7, <2>8, SingleInvNext
<1>12. CASE Save(p)
  <2>1. file' = m /\ Valid(m) /\ UNCHANGED <<vm, sourceRunning>> /\ Exit(p) /\ At(p, "save")
    BY <1>12 DEF Save
  <2>2. (Valid(file) /\ NetInv(file) /\ SourceInv(file))'
    BY <1>0, <2>1 DEF Valid, NetInv, SourceInv
  <2>3. m.phase = "ROLLBACK_IN_PROGRESS" => vm.exists /\ ~vm.running /\ vm.bridge # SourceVNet
    BY <1>3, <2>1 DEF Began, Reached, At, SingleInv, RollbackIsolated
  <2>4. ((file.phase = "ROLLBACK_IN_PROGRESS" => vm.exists) /\ RollbackIsolated /\ NoSplitBrain)'
    BY <2>1, <2>3 DEF RollbackIsolated, NoSplitBrain, SingleInv
  <2> QED BY <1>1, <2>1, <2>2, <2>4 DEF SingleInv
<1>13. CASE NoSuchVM(p) \/ Die(p)
  <2>1. UNCHANGED <<file, vm, sourceRunning>> /\ Exit(p)
    BY <1>13 DEF NoSuchVM, Die
  <2>2. /\ NoSplitBrain' /\ SourceInv(file)'
        /\ file.phase = "ROLLBACK_IN_PROGRESS" => (vm.exists /\ RollbackIsolated)'
    BY <1>0, <2>1 DEF NoSplitBrain, SourceInv, SingleInv, RollbackIsolated
  <2> QED BY <1>1, <2>1, <2>2, SingleInvNext
<1> QED
  BY <1>4, <1>5, <1>6, <1>7, <1>8, <1>9, <1>10, <1>11, <1>12, <1>13 DEF Step

LEMMA EnvironmentSolo ==
  ASSUME Runbook, TypeOK, SingleInv, Environment
  PROVE  SingleInv'
<1>0. file' = file /\ proc' = proc /\ NetInv(file) /\ SourceInv(file)
  BY DEF Environment, StopSource, StartSource, BuildVM, GuestPowersOff, WriterEnds, Serve, SingleInv
<1>1. CASE StopSource
  <2>1. vm' = vm /\ ~sourceRunning'
    BY <1>1 DEF StopSource
  <2>2. /\ NoSplitBrain' /\ SourceInv(file)'
        /\ file.phase = "ROLLBACK_IN_PROGRESS" => (vm.exists /\ RollbackIsolated)'
    BY <1>0, <2>1 DEF NoSplitBrain, SourceInv, SingleInv, RollbackIsolated
  <2>3. ASSUME NEW q \in Procs
        PROVE  (NetInv(proc[q].mem) /\ SourceInv(proc[q].mem) /\ InFlight(q))'
    BY <1>0, <2>1 DEF SingleInv, NetInv, SourceInv, InFlight, At, Began, Reached
  <2> QED BY <1>0, <2>2, <2>3, SingleInvNext
<1>2. CASE StartSource
  <2>1. vm' = vm /\ file.phase = "ROLLBACK_IN_PROGRESS"
    BY <1>2 DEF StartSource
  <2>2. NoSplitBrain' /\ SourceInv(file)' /\ (vm.exists /\ RollbackIsolated)'
    BY <1>0, <2>1 DEF NoSplitBrain, SourceInv, SingleInv, RollbackIsolated, InCutover
  <2>3. ASSUME NEW q \in Procs
        PROVE  (NetInv(proc[q].mem) /\ SourceInv(proc[q].mem) /\ InFlight(q))'
    <3>1. proc[q].mem.phase \notin InCutover
      BY <2>1 DEF SingleInv, InFlight, Began, InCutover, Idle, NewState
    <3> QED BY <1>0, <2>1, <3>1 DEF SingleInv, NetInv, SourceInv, InFlight, At, Began, Reached
  <2> QED BY <1>0, <2>2, <2>3, SingleInvNext
<1>3. CASE BuildVM
  <2>1. ~vm.exists /\ ~vm'.running /\ sourceRunning' = sourceRunning
    BY <1>3 DEF BuildVM
  <2>2. file.phase # "ROLLBACK_IN_PROGRESS"
    BY <2>1 DEF SingleInv
  <2>3. NoSplitBrain' /\ SourceInv(file)'
    BY <1>0, <2>1 DEF NoSplitBrain, SourceInv
  <2>4. ASSUME NEW q \in Procs
        PROVE  (NetInv(proc[q].mem) /\ SourceInv(proc[q].mem) /\ InFlight(q))'
    BY <1>0, <2>1 DEF SingleInv, NetInv, SourceInv, InFlight, At, Began, Reached
  <2> QED BY <1>0, <2>2, <2>3, <2>4, SingleInvNext
<1>4. CASE GuestPowersOff
  <2>1. vm' = [vm EXCEPT !.running = FALSE] /\ sourceRunning' = sourceRunning
    BY <1>4 DEF GuestPowersOff
  <2>2. vm'.exists = vm.exists /\ ~vm'.running /\ vm'.bridge = vm.bridge
    BY <2>1 DEF TypeOK
  <2>3. /\ NoSplitBrain' /\ SourceInv(file)'
        /\ file.phase = "ROLLBACK_IN_PROGRESS" => (vm.exists /\ RollbackIsolated)'
    BY <1>0, <2>1, <2>2 DEF NoSplitBrain, SourceInv, SingleInv, RollbackIsolated
  <2>4. ASSUME NEW q \in Procs
        PROVE  (NetInv(proc[q].mem) /\ SourceInv(proc[q].mem) /\ InFlight(q))'
    BY <1>0, <2>1, <2>2 DEF SingleInv, NetInv, SourceInv, InFlight, At, Began, Reached
  <2> QED BY <1>0, <2>3, <2>4, SingleInvNext
<1>5. CASE Serve \/ WriterEnds
  <2>1. vm' = vm /\ sourceRunning' = sourceRunning
    BY <1>5 DEF Serve, WriterEnds
  <2>2. /\ NoSplitBrain' /\ SourceInv(file)'
        /\ file.phase = "ROLLBACK_IN_PROGRESS" => (vm.exists /\ RollbackIsolated)'
    BY <1>0, <2>1 DEF NoSplitBrain, SourceInv, SingleInv, RollbackIsolated
  <2>3. ASSUME NEW q \in Procs
        PROVE  (NetInv(proc[q].mem) /\ SourceInv(proc[q].mem) /\ InFlight(q))'
    BY <1>0, <2>1 DEF SingleInv, NetInv, SourceInv, InFlight, At, Began, Reached
  <2> QED BY <1>0, <2>2, <2>3, SingleInvNext
<1> QED BY <1>1, <1>2, <1>3, <1>4, <1>5 DEF Environment

\* With one command at a time and the runbook followed, crashes included: the
\* inductive invariant of the two virtual machines.
THEOREM SoloSafety ==
  ASSUME Solo, Runbook
  PROVE  Spec => []SingleInv
<1>1. Init => SingleInv
  <2> SUFFICES ASSUME Init PROVE SingleInv
    OBVIOUS
  <2>1. /\ NetInv(NewState) /\ Valid(NewState) /\ NewState.phase = "NEW"
        /\ Idle.mem = NewState /\ Idle.at = "idle"
    BY DEF NetInv, Valid, NewState, Idle, NeedsVmid, NeedsTest, InCutover
  <2>2. SourceInv(NewState)
    BY <2>1 DEF SourceInv, InCutover
  <2>3. \A p \in Procs : proc[p] = Idle
    BY DEF Init
  <2> QED BY <2>1, <2>2, <2>3 DEF Init, SingleInv, InFlight, At, RollbackIsolated, NoSplitBrain, NoVM
<1>2. TypeOK /\ RecordsInv /\ SingleInv /\ [Next]_vars => SingleInv'
  <2> SUFFICES ASSUME TypeOK, RecordsInv, SingleInv, [Next]_vars
               PROVE  SingleInv'
    OBVIOUS
  <2>1. CASE UNCHANGED vars
    <3>1. ASSUME NEW q \in Procs
          PROVE  (NetInv(proc[q].mem) /\ SourceInv(proc[q].mem) /\ InFlight(q))'
      BY <2>1 DEF vars, SingleInv, NetInv, SourceInv, InFlight, At, Began, Reached
    <3>2. /\ NoSplitBrain' /\ SourceInv(file)'
          /\ file.phase = "ROLLBACK_IN_PROGRESS" => (vm.exists /\ RollbackIsolated)'
      BY <2>1 DEF vars, NoSplitBrain, SourceInv, SingleInv, RollbackIsolated
    <3> QED BY <2>1, <3>1, <3>2, SingleInvNext DEF vars
  <2>2. CASE Next
    BY <2>2, CommandSolo, StepSolo, EnvironmentSolo DEF Next
  <2> QED BY <2>1, <2>2
<1> QED BY <1>1, <1>2, RecordSafety, PTL DEF Spec

\* Source and destination are never both live on the production network.
THEOREM SoloNoSplitBrain ==
  ASSUME Solo, Runbook
  PROVE  Spec => []NoSplitBrain
<1>1. SingleInv => NoSplitBrain
  BY DEF SingleInv
<1> QED BY <1>1, SoloSafety, PTL

\* When the file says ROLLBACK_IN_PROGRESS, which is what lets the operator
\* restart the source, the destination is stopped and off production.
THEOREM SoloRollbackIsolated ==
  ASSUME Solo, Runbook
  PROVE  Spec => []RollbackIsolated
<1>1. SingleInv => RollbackIsolated
  BY DEF SingleInv
<1> QED BY <1>1, SoloSafety, PTL

\* The destination starts on the production network only while the file is in an
\* authorized cutover, with the source off and its final sync attested.
THEOREM SoloProductionStart ==
  ASSUME Solo, Runbook
  PROVE  Spec => ProductionStartGated
<1> DEFINE Gated == ~vm.running /\ vm'.running /\ vm'.bridge = SourceVNet
                      => /\ file.phase = "CUTOVER_IN_PROGRESS" /\ file.source_stopped
                         /\ file.final_sync /\ ~sourceRunning
<1>1. TypeOK /\ SingleInv /\ [Next]_vars => [Gated]_vars
  <2> SUFFICES ASSUME TypeOK, SingleInv, Next, ~vm.running, vm'.running, vm'.bridge = SourceVNet
               PROVE  /\ file.phase = "CUTOVER_IN_PROGRESS" /\ file.source_stopped
                      /\ file.final_sync /\ ~sourceRunning
    OBVIOUS
  <2>1. ~Environment
    BY DEF Environment, StopSource, StartSource, BuildVM, GuestPowersOff, WriterEnds, Serve, TypeOK
  <2>2. ASSUME NEW p \in Procs, Command(p)
        PROVE  FALSE
    BY <2>2 DEF Command, Begin, InitCmd, IngestBaseline, IngestSync, Seed, MarkSeeded, TestStart,
                TestStop, MarkTested, ApplyDelta, RegisterSync, AuthorizeCutover,
                MarkSourceStopped, MarkFinalSync, ActivateProduction, MarkCutoverComplete,
                BeginRollback, MarkRolledBack, Close
  <2>3. PICK p \in Procs : Step(p)
    BY <2>1, <2>2 DEF Next
  <2>0. vm \in [exists : BOOLEAN, running : BOOLEAN, bridge : VNets \cup {None}]
    BY DEF TypeOK
  <2>4. StartVM(p)
    <3>1. CASE CreateVM(p) \/ SeedFails(p) \/ StopVM(p) \/ SetNetwork(p)
      BY <2>0, <3>1 DEF CreateVM, SeedFails, StopVM, SetNetwork, NoVM
    <3>2. CASE ImportDisks(p) \/ CheckStopped(p) \/ WriteDelta(p) \/ Save(p) \/ NoSuchVM(p) \/ Die(p)
      BY <3>2 DEF ImportDisks, CheckStopped, WriteDelta, Save, NoSuchVM, Die
    <3> QED BY <2>3, <3>1, <3>2 DEF Step
  <2>5. InFlight(p) /\ NetInv(proc[p].mem) /\ SourceInv(file) /\ At(p, "start")
    BY <2>4 DEF SingleInv, StartVM
  <2>6. vm.bridge = SourceVNet
    BY <2>4 DEF StartVM, TypeOK
  <2>7. proc[p].cmd = "activate_production"
    BY <2>5, <2>6 DEF InFlight, At, Began, Reached, NetInv
  <2> QED BY <2>5, <2>7 DEF InFlight, At, Began, SourceInv, InCutover
<1> QED BY <1>1, SoloSafety, Typing, PTL DEF Spec, ProductionStartGated
=============================================================================

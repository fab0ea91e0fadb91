--------------------------- MODULE LifecycleProofs --------------------------
(* Theorems about Migration while commands run one at a time: what a command   *)
(* in flight may still change, and that Migration implements Ownership.  They  *)
(* build on MigrationProofs, in particular on SoloSafety.                      *)
EXTENDS MigrationGoals, MigrationProofs

(* --------------------- what a command does to the record ------------------- *)

\* The phases before a destination exists.
Unseeded == {"NEW", "BASELINE_READY"}

\* The record r that command c will save, compared with the file it has read.
Changes(c, r) ==
  /\ r.phase = "ROLLBACK_IN_PROGRESS" => c = "begin_rollback" \/ file.phase = "ROLLBACK_IN_PROGRESS"
  /\ c = "test_start" => file.phase \in {"SEEDED", "TESTED", "SYNCING", "CUTOVER_READY"}
  /\ c = "activate_production" => file.phase = "CUTOVER_IN_PROGRESS"
  /\ c \in {"test_start", "activate_production"} => r.powered_on
  /\ c = "activate_production" => r.writes_possible
  /\ Runbook =>
       /\ MayEnter(file, r.phase)
       /\ r.authoritative_reference_point # file.authoritative_reference_point =>
            r.sequence > file.sequence \/ file.phase = "NEW"
       /\ r.phase = "ROLLED_BACK" /\ file.phase = "ROLLBACK_IN_PROGRESS" => sourceRunning
       /\ file.writes_possible => r.writes_possible
       /\ c \in {"test_stop", "begin_rollback"} \/ file.phase \in Unseeded \/ (file.powered_on => r.powered_on)

\* An invocation of c begins; it will save r.
Begins(p, c, r) ==
  /\ c \in Commands
  /\ At(p, "idle")
  /\ proc' = [proc EXCEPT ![p] = [cmd |-> c, at |-> FirstStep(c), mem |-> r]]
  /\ UNCHANGED <<file, vm, sourceRunning, served, leftovers>>

\* What each of the 18 commands makes of the file it has read.
LEMMA CommandChanges ==
  ASSUME TypeOK, RecordsInv, NEW p \in Procs, Command(p)
  PROVE  \E c, r : Begins(p, c, r) /\ Changes(c, r)
<1> USE DEF Commands
<1>0. file \in StateRecord /\ RecordInv(file)
  BY DEF TypeOK, RecordsInv
<1>1. ASSUME NEW c \in Commands, NEW accepted \in BOOLEAN, NEW r, Begin(p, c, accepted, r), Changes(c, r)
      PROVE  \E c1, r1 : Begins(p, c1, r1) /\ Changes(c1, r1)
  BY <1>1 DEF Begin, Begins
\* A command that changes nothing Changes speaks of.
<1>2. ASSUME NEW c \in Commands, NEW r, c \notin {"test_start", "activate_production"},
             r.phase = file.phase, 
             r.authoritative_reference_point = file.authoritative_reference_point,
             r.powered_on = file.powered_on \/ c = "test_stop",
             r.writes_possible = file.writes_possible
      PROVE  Changes(c, r)
  BY <1>0, <1>2 DEF Changes, MayEnter
\* A command that enters a phase outside of the rollback.
<1>3. ASSUME NEW c \in Commands, NEW r, c \notin {"test_start", "activate_production"},
             MayEnter(file, r.phase), r.phase \notin {"ROLLBACK_IN_PROGRESS", "ROLLED_BACK"},
             r.authoritative_reference_point = file.authoritative_reference_point,
             r.powered_on = file.powered_on,
             r.writes_possible = file.writes_possible
      PROVE  Changes(c, r)
  BY <1>0, <1>3 DEF Changes
\* Before the cutover nothing was written on the production network.
<1>4. file.writes_possible => file.phase \in CutoverBegan
  BY <1>0 DEF RecordInv, CutoverGated
<1>5. CASE InitCmd(p)
  <2>1. Begin(p, "init", TRUE, NewState) /\ (Runbook => file.phase = "NEW")
    BY <1>5 DEF InitCmd
  <2>2. Changes("init", NewState)
    BY <1>4, <2>1 DEF Changes, MayEnter, NewState, CutoverBegan, Unseeded
  <2> QED BY <1>1, <2>1, <2>2
<1>6. CASE IngestBaseline(p)
  <2>1. PICK rp \in RPs \cup {None} :
          Begin(p, "ingest_baseline", TRUE, AfterIngestBaseline(rp)) /\ (Runbook => file.phase = "NEW")
    BY <1>6 DEF IngestBaseline
  <2>2. AfterIngestBaseline(rp).phase = "BASELINE_READY"
    BY DEF AfterIngestBaseline, NewState
  <2>3. Runbook => MayEnter(file, "BASELINE_READY")
    BY <2>1 DEF MayEnter, AllowedTransitions, Phases
  <2>4. Changes("ingest_baseline", AfterIngestBaseline(rp))
    BY <1>4, <2>1, <2>2, <2>3 DEF Changes, CutoverBegan, Unseeded
  <2> QED BY <1>1, <2>1, <2>4
<1>7. CASE IngestSync(p)
  <2>1. PICK rp \in RPs, n \in 1..MaxSeq :
          Begin(p, "ingest_sync", CanIngestSync(file, rp, n), AfterIngestSync(file, rp, n))
    BY <1>7 DEF IngestSync
  <2> DEFINE r == AfterIngestSync(file, rp, n)
  <2>2. Changes("ingest_sync", r)
    <3>1. /\ r.phase = file.phase /\ r.powered_on = file.powered_on
          /\ r.writes_possible = file.writes_possible
          /\ r.authoritative_reference_point = file.authoritative_reference_point
      BY <1>0 DEF AfterIngestSync, StateRecord
    <3> QED BY <1>2, <3>1
  <2>3. CanIngestSync(file, rp, n) \in BOOLEAN
    BY DEF CanIngestSync
  <2> QED BY <1>1, <2>1, <2>2, <2>3
<1>8. CASE Seed(p)
  <2>1. PICK test \in VNets, prod \in VNets :
          Begin(p, "seed", CanSeed(file, test, prod), AfterSeed(file, test, prod))
    BY <1>8 DEF Seed
  <2> DEFINE r == AfterSeed(file, test, prod)
  <2>2. file.phase = "BASELINE_READY" /\ CanSeed(file, test, prod) \in BOOLEAN
    BY <2>1 DEF Begin, CanSeed
  <2>3. /\ r.phase = "SEEDED" /\ r.writes_possible = file.writes_possible
        /\ r.authoritative_reference_point = file.authoritative_reference_point
    BY <1>0 DEF AfterSeed, SetPhase, Destination, StateRecord
  <2>4. MayEnter(file, "SEEDED")
    BY <2>2 DEF MayEnter, AllowedTransitions, Phases
  <2>5. Changes("seed", r)
    BY <2>2, <2>3, <2>4 DEF Changes, Unseeded
  <2> QED BY <1>1, <2>1, <2>2, <2>5
<1>9. CASE MarkSeeded(p)
  <2>1. PICK test \in VNets, prod \in VNets :
          /\ Runbook => file.phase = "BASELINE_READY"
          /\ Begin(p, "mark_seeded", CanMarkSeeded(file, test, prod),
                   AfterMarkSeeded(file, test, prod))
    BY <1>9 DEF MarkSeeded
  <2> DEFINE r == AfterMarkSeeded(file, test, prod)
  <2>2. /\ r.phase = "SEEDED" /\ r.writes_possible = file.writes_possible
        /\ r.authoritative_reference_point = file.authoritative_reference_point
    BY <1>0 DEF AfterMarkSeeded, SetPhase, Destination, StateRecord
  <2>3. Runbook => MayEnter(file, "SEEDED")
    BY <2>1 DEF MayEnter, AllowedTransitions, Phases
  <2>4. Changes("mark_seeded", r)
    BY <2>1, <2>2, <2>3 DEF Changes, Unseeded
  <2>5. CanMarkSeeded(file, test, prod) \in BOOLEAN
    BY DEF CanMarkSeeded, CanSetPhase, Valid, MayEnter
  <2> QED BY <1>1, <2>1, <2>4, <2>5
<1>10. CASE TestStart(p)
  <2> DEFINE r == AfterTestStart(file)
  <2>1. /\ file.phase \in {"SEEDED", "TESTED", "SYNCING", "CUTOVER_READY"}
        /\ CanTestStart(file) \in BOOLEAN
    BY <1>10 DEF TestStart, Begin, CanTestStart
  <2>2. /\ r.phase = file.phase /\ r.powered_on /\ r.writes_possible = file.writes_possible
        /\ r.authoritative_reference_point = file.authoritative_reference_point
    BY <1>0 DEF AfterTestStart, StateRecord
  <2>3. Changes("test_start", r)
    BY <2>1, <2>2 DEF Changes, MayEnter
  <2> QED BY <1>1, <1>10, <2>1, <2>3 DEF TestStart
<1>11. CASE TestStop(p)
  <2>1. Changes("test_stop", AfterTestStop(file)) /\ CanTestStop(file) \in BOOLEAN
    BY <1>0, <1>2 DEF AfterTestStop, CanTestStop, StateRecord
  <2> QED BY <1>1, <1>11, <2>1 DEF TestStop
<1>12. CASE MarkTested(p)
  <2> DEFINE r == AfterMarkTested(file)
  <2>1. CanMarkTested(file) /\ CanMarkTested(file) \in BOOLEAN
    BY <1>12 DEF MarkTested, Begin, CanMarkTested
  <2>2. /\ r.phase = "TESTED" /\ r.powered_on = file.powered_on
        /\ r.writes_possible = file.writes_possible
        /\ r.authoritative_reference_point = file.authoritative_reference_point
        /\ Tested(file).phase = file.phase
    BY <1>0 DEF AfterMarkTested, SetPhase, Tested, StateRecord
  <2>3. MayEnter(file, "TESTED")
    BY <2>1, <2>2 DEF CanMarkTested, CanSetPhase, MayEnter
  <2>4. Changes("mark_tested", r)
    BY <1>3, <2>2, <2>3
  <2> QED BY <1>1, <1>12, <2>1, <2>4 DEF MarkTested
<1>13. CASE ApplyDelta(p)
  <2>1. Changes("apply_delta", file) /\ CanApplyDelta(file) \in BOOLEAN
    BY <1>2 DEF CanApplyDelta
  <2> QED BY <1>1, <1>13, <2>1 DEF ApplyDelta
<1>14. CASE RegisterSync(p)
  <2>1. PICK rp \in RPs, n \in 1..MaxSeq, ready \in BOOLEAN :
          Begin(p, "register_sync", CanRegisterSync(file, rp, n),
                AfterRegisterSync(file, rp, n, ready))
    BY <1>14 DEF RegisterSync
  <2> DEFINE r == AfterRegisterSync(file, rp, n, ready)
  <2>2. CanRegisterSync(file, rp, n) /\ CanRegisterSync(file, rp, n) \in BOOLEAN
    BY <2>1 DEF Begin, CanRegisterSync
  <2>3. /\ r.phase = (IF ready THEN "CUTOVER_READY" ELSE "SYNCING")
        /\ r.sequence = n /\ r.powered_on = file.powered_on
        /\ r.writes_possible = file.writes_possible
        /\ Registered(file, rp, n).phase = file.phase
    BY <1>0 DEF AfterRegisterSync, SetPhase, Registered, StateRecord
  <2>4. n > file.sequence /\ MayEnter(file, "SYNCING")
    BY <2>2, <2>3 DEF CanRegisterSync, CanSetPhase, MayEnter
  <2>5. MayEnter(file, "CUTOVER_READY")
    BY <1>0, <2>4, Predecessors DEF MayEnter, AllowedTransitions, Phases
  <2>6. Changes("register_sync", r)
    BY <2>3, <2>4, <2>5 DEF Changes
  <2> QED BY <1>1, <2>1, <2>2, <2>6
<1>15. CASE AuthorizeCutover(p)
  <2> DEFINE r == AfterAuthorizeCutover(file)
  <2>1. CanAuthorizeCutover(file) /\ CanAuthorizeCutover(file) \in BOOLEAN
    BY <1>15 DEF AuthorizeCutover, Begin, CanAuthorizeCutover
  <2>2. /\ r.phase = "CUTOVER_IN_PROGRESS" /\ r.powered_on = file.powered_on
        /\ r.writes_possible = file.writes_possible
        /\ r.authoritative_reference_point = file.authoritative_reference_point
        /\ Authorized(file).phase = file.phase
    BY <1>0 DEF AfterAuthorizeCutover, SetPhase, Authorized, StateRecord
  <2>3. MayEnter(file, "CUTOVER_IN_PROGRESS")
    BY <2>1, <2>2 DEF CanAuthorizeCutover, CanSetPhase, MayEnter
  <2>4. Changes("authorize_cutover", r)
    BY <1>3, <2>2, <2>3
  <2> QED BY <1>1, <1>15, <2>1, <2>4 DEF AuthorizeCutover
<1>16. CASE MarkSourceStopped(p)
  <2>1. Changes("mark_source_stopped", AfterMarkSourceStopped(file))
    BY <1>0, <1>2 DEF AfterMarkSourceStopped, StateRecord
  <2>2. CanMarkSourceStopped(file) \in BOOLEAN
    BY <1>16 DEF MarkSourceStopped, Begin, CanMarkSourceStopped
  <2> QED BY <1>1, <1>16, <2>1, <2>2 DEF MarkSourceStopped
<1>17. CASE MarkFinalSync(p)
  <2> DEFINE r == AfterMarkFinalSync(file)
  <2>1. Changes("mark_final_sync", r) /\ CanMarkFinalSync(file) \in BOOLEAN
    <3>1. /\ r.phase = file.phase /\ r.powered_on = file.powered_on
          /\ r.writes_possible = file.writes_possible
          /\ r.authoritative_reference_point = file.authoritative_reference_point
          /\ CanMarkFinalSync(file) \in BOOLEAN
      BY <1>0 DEF AfterMarkFinalSync, CanMarkFinalSync, StateRecord
    <3> QED BY <1>2, <3>1
  <2> QED BY <1>1, <1>17, <2>1 DEF MarkFinalSync
<1>18. CASE ActivateProduction(p)
  <2> DEFINE r == AfterActivateProduction(file)
  <2>1. file.phase = "CUTOVER_IN_PROGRESS" /\ CanActivateProduction(file) \in BOOLEAN
    BY <1>18 DEF ActivateProduction, Begin, CanActivateProduction
  <2>2. /\ r.phase = file.phase /\ r.powered_on /\ r.writes_possible
        /\ r.authoritative_reference_point = file.authoritative_reference_point
    BY <1>0 DEF AfterActivateProduction, StateRecord
  <2>3. Changes("activate_production", r)
    BY <2>1, <2>2 DEF Changes, MayEnter
  <2> QED BY <1>1, <1>18, <2>1, <2>3 DEF ActivateProduction
<1>19. CASE MarkCutoverComplete(p)
  <2> DEFINE r == AfterMarkCutoverComplete(file)
  <2>1. MayEnter(file, "CUTOVER_COMPLETE") /\ CanMarkCutoverComplete(file) \in BOOLEAN
    BY <1>0, <1>19 DEF MarkCutoverComplete, Begin, CanMarkCutoverComplete, CanSetPhase, StateRecord
  <2>2. /\ r.phase = "CUTOVER_COMPLETE" /\ r.powered_on = file.powered_on
        /\ r.writes_possible = file.writes_possible
        /\ r.authoritative_reference_point = file.authoritative_reference_point
    BY <1>0 DEF AfterMarkCutoverComplete, SetPhase, StateRecord
  <2>3. Changes("mark_cutover_complete", r)
    BY <1>3, <2>1, <2>2
  <2> QED BY <1>1, <1>19, <2>1, <2>3 DEF MarkCutoverComplete
<1>20. CASE BeginRollback(p)
  <2> DEFINE r == AfterBeginRollback(file)
  <2>1. file.phase \in InCutover /\ CanBeginRollback(file) \in BOOLEAN
    BY <1>20 DEF BeginRollback, Begin, CanBeginRollback
  <2>2. /\ r.phase = "ROLLBACK_IN_PROGRESS" /\ r.writes_possible = file.writes_possible
        /\ r.authoritative_reference_point = file.authoritative_reference_point
    BY <1>0 DEF AfterBeginRollback, SetPhase, StateRecord
  <2>3. MayEnter(file, "ROLLBACK_IN_PROGRESS")
    BY <2>1 DEF MayEnter, AllowedTransitions, Phases, InCutover
  <2>4. Changes("begin_rollback", r)
    BY <2>2, <2>3 DEF Changes
  <2> QED BY <1>1, <1>20, <2>1, <2>4 DEF BeginRollback
<1>21. CASE MarkRolledBack(p)
  <2> DEFINE r == AfterMarkRolledBack(file)
  <2>1. /\ file.phase = "ROLLBACK_IN_PROGRESS" /\ (Runbook => sourceRunning)
        /\ CanMarkRolledBack(file) \in BOOLEAN
    BY <1>21 DEF MarkRolledBack, Begin, CanMarkRolledBack
  <2>2. /\ r.phase = "ROLLED_BACK" /\ r.powered_on = file.powered_on
        /\ r.writes_possible = file.writes_possible
        /\ r.authoritative_reference_point = file.authoritative_reference_point
    BY <1>0 DEF AfterMarkRolledBack, SetPhase, StateRecord
  <2>3. MayEnter(file, "ROLLED_BACK")
    BY <2>1 DEF MayEnter, AllowedTransitions, Phases
  <2>4. Changes("mark_rolled_back", r)
    BY <2>1, <2>2, <2>3 DEF Changes
  <2> QED BY <1>1, <1>21, <2>1, <2>4 DEF MarkRolledBack
<1>22. CASE Close(p)
  <2> DEFINE r == AfterClose(file)
  <2>1. MayEnter(file, "CLOSED") /\ CanClose(file) \in BOOLEAN
    BY <1>22 DEF Close, Begin, CanClose, MayEnter, AllowedTransitions, Phases
  <2>2. /\ r.phase = "CLOSED" /\ r.powered_on = file.powered_on
        /\ r.writes_possible = file.writes_possible
        /\ r.authoritative_reference_point = file.authoritative_reference_point
    BY <1>0 DEF AfterClose, SetPhase, StateRecord
  <2>3. Changes("close", r)
    BY <1>3, <2>1, <2>2
  <2> QED BY <1>1, <1>22, <2>1, <2>3 DEF Close
<1> QED
  BY <1>5, <1>6, <1>7, <1>8, <1>9, <1>10, <1>11, <1>12, <1>13, <1>14, <1>15, <1>16, <1>17, <1>18,
     <1>19, <1>20, <1>21, <1>22 DEF Command

(* --------------------- steps while commands run one by one ----------------- *)

\* The invocation of p is over: without having saved, and remembered if it was to
\* save that it started the destination, or with its save.
Ends(p) ==
  /\ \A q \in Procs : proc'[q] = Idle
  /\ \/ file' = file /\ (At(p, "save") /\ proc[p].cmd \in Starters => proc[p].cmd \in unsaved')
     \/ file' = proc[p].mem /\ vm' = vm /\ At(p, "save")

\* The invocation of p goes on to its next call.
GoesOn(p) ==
  /\ proc'[p] = [proc[p] EXCEPT !.at = NextStep(proc[p].cmd, proc[p].at)]
  /\ file' = file

LEMMA SoloStep ==
  ASSUME Solo, TypeOK, NEW p \in Procs, Step(p)
  PROVE  /\ ~At(p, "idle")
         /\ UNCHANGED <<sourceRunning, served>>
         /\ unsaved \subseteq unsaved'
         /\ Ends(p) \/ GoesOn(p)
<1>1. /\ Exit(p) => \A q \in Procs : proc'[q] = Idle
      /\ Advance(p) => proc'[p] = [proc[p] EXCEPT !.at = NextStep(proc[p].cmd, proc[p].at)]
  BY DEF Solo, Exit, Advance, Goto, TypeOK
<1>2. ~At(p, "idle") /\ UNCHANGED <<sourceRunning, served>> /\ unsaved \subseteq unsaved'
  BY DEF Step, CreateVM, ImportDisks, SeedFails, CheckStopped, WriteDelta, StopVM, SetNetwork,
         StartVM, Save, NoSuchVM, Die, At, leftovers
<1>3. CASE Save(p)
  BY <1>1, <1>2, <1>3 DEF Save, Ends
<1>4. CASE ~Save(p)
  <2>1. /\ file' = file /\ (Exit(p) \/ Advance(p))
        /\ At(p, "save") /\ proc[p].cmd \in Starters => proc[p].cmd \in unsaved'
    BY <1>4 DEF Step, CreateVM, ImportDisks, SeedFails, CheckStopped, WriteDelta, StopVM,
                SetNetwork, StartVM, NoSuchVM, Die, At
  <2> QED BY <1>1, <1>2, <2>1 DEF Ends, GoesOn
<1> QED BY <1>3, <1>4

LEMMA SoloBegins ==
  ASSUME Solo, TypeOK, NEW p \in Procs, NEW c, NEW r, Begins(p, c, r)
  PROVE  \A q \in Procs : proc'[q] = [cmd |-> c, at |-> FirstStep(c), mem |-> r]
  BY DEF Solo, Begins, TypeOK

\* What happens outside the CLI leaves the record and the invocations alone.
LEMMA EnvironmentFrame == Environment => file' = file /\ proc' = proc
  BY DEF Environment, StopSource, StartSource, BuildVM, GuestPowersOff, WriterEnds, Serve

(* ------------------------------ lawful records ----------------------------- *)

\* What an invocation will save still fits the record in the file: the phase is
\* a legal successor, the reference point does not move without a new sequence,
\* and a rollback is over only when the source runs.
Lawful(p) ==
  LET m == proc[p].mem
  IN ~At(p, "idle") =>
       /\ MayEnter(file, m.phase)
       /\ m.authoritative_reference_point # file.authoritative_reference_point =>
            m.sequence > file.sequence \/ file.phase = "NEW"
       /\ m.phase = "ROLLED_BACK" /\ file.phase = "ROLLBACK_IN_PROGRESS" => sourceRunning

LawfulInv == \A p \in Procs : Lawful(p)

\* What is in flight stays lawful: the guards read the file the save will replace.
THEOREM SoloLawful ==
  ASSUME Solo, Runbook
  PROVE  Spec => []LawfulInv
<1>1. Init => LawfulInv
  BY DEF Init, LawfulInv, Lawful, At, Idle
<1>2. TypeOK /\ RecordsInv /\ LawfulInv /\ [Next]_vars => LawfulInv'
  <2> SUFFICES ASSUME TypeOK, RecordsInv, LawfulInv, [Next]_vars
               PROVE  LawfulInv'
    OBVIOUS
  <2>1. CASE UNCHANGED vars
    BY <2>1 DEF vars, LawfulInv, Lawful, At, MayEnter
  <2>2. CASE Environment
    <3>1. file.phase = "ROLLBACK_IN_PROGRESS" /\ sourceRunning => sourceRunning'
      BY <2>2 DEF Environment, StopSource, StartSource, BuildVM, GuestPowersOff, WriterEnds, Serve, TypeOK
    <3> QED BY <2>2, <3>1, EnvironmentFrame DEF LawfulInv, Lawful, At, MayEnter
  <2>3. ASSUME NEW p \in Procs, Command(p)
        PROVE  LawfulInv'
    <3>1. PICK c, r : Begins(p, c, r) /\ Changes(c, r)
      BY <2>3, CommandChanges
    <3>2. \A q \in Procs : proc'[q].mem = r
      <4>1. \A q \in Procs : proc'[q] = [cmd |-> c, at |-> FirstStep(c), mem |-> r]
        BY <2>3, <3>1, SoloBegins
      <4> QED BY <4>1
    <3> QED BY <3>1, <3>2 DEF Begins, Changes, LawfulInv, Lawful, MayEnter
  <2>4. ASSUME NEW p \in Procs, Step(p)
        PROVE  LawfulInv'
    <3>1. CASE Ends(p)
      BY <3>1 DEF Ends, LawfulInv, Lawful, At, Idle
    <3>2. CASE GoesOn(p)
      <4>1. proc'[p].mem = proc[p].mem /\ \A q \in Procs : q = p
        BY <3>2 DEF GoesOn, TypeOK, Solo
      <4>2. ~At(p, "idle") /\ file' = file /\ sourceRunning' = sourceRunning
        BY <2>4, <3>2, SoloStep DEF GoesOn
      <4> QED BY <4>1, <4>2 DEF LawfulInv, Lawful, MayEnter
    <3> QED BY <2>4, <3>1, <3>2, SoloStep
  <2> QED BY <2>1, <2>2, <2>3, <2>4 DEF Next
<1> QED BY <1>1, <1>2, RecordSafety, PTL DEF Spec

\* A step that changes the file saves the record of an invocation.
LEMMA FileChanges ==
  ASSUME Solo, TypeOK, [Next]_vars, file' # file
  PROVE  \E p \in Procs : Save(p)
<1>1. ~Environment /\ ~UNCHANGED vars
  BY EnvironmentFrame DEF vars
<1>2. ASSUME NEW p \in Procs, Command(p)
      PROVE  FALSE
  BY <1>2 DEF Command, Begin, InitCmd, IngestBaseline, IngestSync, Seed, MarkSeeded, TestStart,
              TestStop, MarkTested, ApplyDelta, RegisterSync, AuthorizeCutover, MarkSourceStopped,
              MarkFinalSync, ActivateProduction, MarkCutoverComplete, BeginRollback,
              MarkRolledBack, Close
<1>3. PICK p \in Procs : Step(p)
  BY <1>1, <1>2 DEF Next
<1>4. Save(p)
  BY <1>3 DEF Step, CreateVM, ImportDisks, SeedFails, CheckStopped, WriteDelta, StopVM,
              SetNetwork, StartVM, NoSuchVM, Die
<1> QED BY <1>4

\* The phase in the file only follows ALLOWED_TRANSITIONS.
THEOREM SoloPhaseLegal ==
  ASSUME Solo, Runbook
  PROVE  Spec => PhaseLegal
<1> DEFINE Legal == file'.phase # file.phase => file'.phase \in AllowedTransitions[file.phase]
<1>1. TypeOK /\ LawfulInv /\ [Next]_vars => [Legal]_vars
  <2> SUFFICES ASSUME TypeOK, LawfulInv, [Next]_vars, file'.phase # file.phase
               PROVE  file'.phase \in AllowedTransitions[file.phase]
    OBVIOUS
  <2>1. PICK p \in Procs : Save(p)
    BY FileChanges
  <2> QED BY <2>1 DEF Save, At, LawfulInv, Lawful, MayEnter
<1> QED BY <1>1, SoloLawful, Typing, PTL DEF Spec, PhaseLegal

\* After the baseline the authoritative reference point moves only with a new
\* sequence number.
THEOREM SoloPointAdvances ==
  ASSUME Solo, Runbook
  PROVE  Spec => PointAdvances
<1> DEFINE Advances ==
      file'.authoritative_reference_point # file.authoritative_reference_point
        => file'.sequence > file.sequence \/ file.phase = "NEW"
<1>1. TypeOK /\ LawfulInv /\ [Next]_vars => [Advances]_vars
  <2> SUFFICES ASSUME TypeOK, LawfulInv, [Next]_vars,
                      file'.authoritative_reference_point # file.authoritative_reference_point
               PROVE  file'.sequence > file.sequence \/ file.phase = "NEW"
    OBVIOUS
  <2>1. PICK p \in Procs : Save(p)
    BY FileChanges
  <2> QED BY <2>1 DEF Save, At, LawfulInv, Lawful
<1> QED BY <1>1, SoloLawful, Typing, PTL DEF Spec, PointAdvances

(* ------------------------------- refinement -------------------------------- *)

\* The destination holds the production identity.
Produces == vm.running /\ vm.bridge = SourceVNet

\* A step that leaves the record and the source alone: the destination may lose
\* the production identity, and gain it in a cutover whose source is off.
LEMMA VMRefines ==
  ASSUME file' = file, sourceRunning' = sourceRunning,
         Produces' => Produces \/ (file.phase \in InCutover /\ ~sourceRunning)
  PROVE  [Own!Next]_(Own!vars)
<1>1. Stage' = Stage
  BY DEF Stage
<1>2. CASE Produces' = Produces
  BY <1>1, <1>2 DEF Holders, Produces, Own!vars
<1>3. CASE Produces /\ ~Produces'
  <2>1. Holders' = Holders \ {"destination"}
    BY <1>3 DEF Holders, Produces
  <2> QED BY <1>1, <2>1 DEF Own!Next, Own!Drop
<1>4. CASE Produces' /\ ~Produces
  <2>1. Stage = "cutover"
    BY <1>4 DEF Stage, InCutover
  <2>2. Holders = {}
    BY <1>4 DEF Holders, Produces
  <2>3. Holders' = {"destination"}
    <3>1. ~sourceRunning'
      BY <1>4
    <3> QED BY <3>1, <1>4 DEF Holders, Produces
  <2> QED BY <1>1, <2>1, <2>2, <2>3 DEF Own!Next, Own!TakeOver
<1> QED BY <1>2, <1>3, <1>4 DEF Produces

LEMMA EnvironmentRefines ==
  ASSUME Runbook, TypeOK, SingleInv, Environment
  PROVE  [Own!Next]_(Own!vars)
<1>1. file' = file
  BY EnvironmentFrame
<1>2. CASE StopSource
  <2>1. Stage = "cutover" /\ Stage' = Stage /\ Holders' = Holders \ {"source"}
    BY <1>2 DEF StopSource, Stage, InCutover, Holders
  <2> QED BY <2>1 DEF Own!Next, Own!Release
<1>3. CASE StartSource
  <2>1. Stage = "rollback" /\ Stage' = Stage
    BY <1>3 DEF StartSource, Stage, InCutover
  <2>2. Holders = {} /\ Holders' = {"source"}
    BY <1>3 DEF StartSource, Holders, SingleInv, RollbackIsolated
  <2> QED BY <2>1, <2>2 DEF Own!Next, Own!Return
<1>4. CASE BuildVM \/ GuestPowersOff \/ WriterEnds \/ Serve
  <2>1. sourceRunning' = sourceRunning /\ (Produces' => Produces)
    BY <1>4 DEF BuildVM, GuestPowersOff, WriterEnds, Serve, Produces, TypeOK
  <2> QED BY <1>1, <2>1, VMRefines
<1> QED BY <1>2, <1>3, <1>4 DEF Environment

\* Only activate-production attaches a running VM to the production network, or
\* starts one that is attached to it.
LEMMA CallProduces ==
  ASSUME TypeOK, SingleInv, NEW p \in Procs, Step(p)
  PROVE  Produces' => \/ Produces
                      \/ /\ proc[p].cmd = "activate_production"
                         /\ At(p, "net") \/ At(p, "start")
<1> DEFINE c == proc[p].cmd
           m == proc[p].mem
<1>1. c \in {"test_start", "begin_rollback"} /\ ~At(p, "idle") => m.test_vnet # SourceVNet
  BY DEF SingleInv, InFlight, Began, NetInv
<1>2. CASE SetNetwork(p)
  <2>1. At(p, "net") /\ c \in {"test_start", "activate_production", "begin_rollback"}
    BY <1>2 DEF SetNetwork, At, SingleInv, InFlight, Reached
  <2>2. vm'.bridge = TargetBridge(c, m)
    BY <1>2 DEF SetNetwork, TypeOK
  <2> QED BY <1>1, <2>1, <2>2 DEF TargetBridge, Produces, At
<1>3. CASE StartVM(p)
  <2>1. /\ At(p, "start") /\ c \in {"test_start", "activate_production"}
        /\ c = "test_start" => vm.bridge = m.test_vnet
    BY <1>3 DEF StartVM, At, SingleInv, InFlight, Reached
  <2>2. vm'.bridge = vm.bridge
    BY <1>3 DEF StartVM, TypeOK
  <2> QED BY <1>1, <2>1, <2>2 DEF Produces, At
<1>4. CASE ~SetNetwork(p) /\ ~StartVM(p)
  <2>1. vm' = vm \/ ~vm'.running
    <3>1. vm \in [exists : BOOLEAN, running : BOOLEAN, bridge : VNets \cup {None}]
      BY DEF TypeOK
    <3>2. CASE CreateVM(p) \/ SeedFails(p) \/ StopVM(p)
      BY <3>1, <3>2 DEF CreateVM, SeedFails, StopVM, NoVM
    <3>3. CASE ImportDisks(p) \/ CheckStopped(p) \/ WriteDelta(p) \/ Save(p) \/ NoSuchVM(p) \/ Die(p)
      BY <3>3 DEF ImportDisks, CheckStopped, WriteDelta, Save, NoSuchVM, Die
    <3> QED BY <1>4, <3>2, <3>3 DEF Step
  <2> QED BY <2>1 DEF Produces
<1> QED BY <1>2, <1>3, <1>4

\* While activate-production is in flight the source is off, so its calls are a
\* take-over; the other calls can only drop the identity.
LEMMA CallRefines ==
  ASSUME TypeOK, SingleInv, NEW p \in Procs, Step(p), ~Save(p)
  PROVE  [Own!Next]_(Own!vars)
<1>1. file' = file /\ sourceRunning' = sourceRunning
  BY DEF Step, CreateVM, ImportDisks, SeedFails, CheckStopped, WriteDelta, StopVM, SetNetwork,
         StartVM, NoSuchVM, Die
<1>2. proc[p].cmd = "activate_production" /\ ~At(p, "idle") =>
        file.phase \in InCutover /\ ~sourceRunning
  BY DEF SingleInv, InFlight, Began, SourceInv, InCutover
<1>3. Produces' => Produces \/ (file.phase \in InCutover /\ ~sourceRunning)
  BY <1>2, CallProduces DEF At
<1> QED BY <1>1, <1>3, VMRefines

\* A save moves the stage by at most one of Ownership's moves.
LEMMA SaveRefines ==
  ASSUME TypeOK, RecordsInv, SingleInv, LawfulInv, NEW p \in Procs, Save(p)
  PROVE  [Own!Next]_(Own!vars)
<1> DEFINE m == proc[p].mem
<1>1. file' = m /\ At(p, "save") /\ Holders' = Holders
  BY DEF Save, Holders
<1>2. /\ MayEnter(file, m.phase)
      /\ m.phase = "ROLLED_BACK" /\ file.phase = "ROLLBACK_IN_PROGRESS" => sourceRunning
  BY <1>1 DEF LawfulInv, Lawful, At
<1>3. file.phase \in Phases /\ {file.phase, m.phase} \cap {"DISCOVERED", "FAILED"} = {}
  BY DEF TypeOK, StateRecord, RecordsInv, RecordInv
<1> DEFINE Before == {"NEW", "BASELINE_READY", "SEEDED", "TESTED", "SYNCING", "CUTOVER_READY"}
<1>4. \/ m.phase = file.phase
      \/ file.phase \in Before /\ m.phase \in Before
      \/ file.phase \in InCutover /\ m.phase \in InCutover
      \/ file.phase = "CUTOVER_READY" /\ m.phase = "CUTOVER_IN_PROGRESS"
      \/ file.phase \in InCutover /\ m.phase = "ROLLBACK_IN_PROGRESS"
      \/ file.phase = "CUTOVER_COMPLETE" /\ m.phase = "CLOSED"
      \/ file.phase = "ROLLBACK_IN_PROGRESS" /\ m.phase = "ROLLED_BACK"
      \/ file.phase = "ROLLED_BACK" /\ m.phase = "CLOSED"
  BY <1>2, <1>3 DEF MayEnter, AllowedTransitions, InCutover, Phases
<1>5. CASE Stage' = Stage
  BY <1>1, <1>5 DEF Own!vars
<1>6. CASE file.phase = "CUTOVER_READY" /\ m.phase = "CUTOVER_IN_PROGRESS"
  <2>1. Stage = "before" /\ Stage' = "cutover"
    BY <1>1, <1>6 DEF Stage, InCutover
  <2> QED BY <1>1, <2>1 DEF Own!Next, Own!Authorize, Own!Move
<1>7. CASE file.phase \in InCutover /\ m.phase = "ROLLBACK_IN_PROGRESS"
  <2>1. Stage = "cutover" /\ Stage' = "rollback"
    BY <1>1, <1>7 DEF Stage, InCutover
  <2>2. vm.bridge # SourceVNet
    BY <1>1, <1>7 DEF SingleInv, InFlight, Began, Reached, At, InCutover
  <2>3. "destination" \notin Holders
    BY <2>2 DEF Holders
  <2> QED BY <1>1, <2>1, <2>3 DEF Own!Next, Own!Abandon, Own!Move
<1>8. CASE file.phase = "CUTOVER_COMPLETE" /\ m.phase = "CLOSED"
  <2>1. Stage = "cutover" /\ Stage' = "over"
    BY <1>1, <1>8 DEF Stage, InCutover
  <2> QED BY <1>1, <2>1 DEF Own!Next, Own!Finish, Own!Move
<1>9. CASE file.phase = "ROLLBACK_IN_PROGRESS" /\ m.phase = "ROLLED_BACK"
  <2>1. Stage = "rollback" /\ Stage' = "over"
    BY <1>1, <1>9 DEF Stage, InCutover
  <2>2. Holders = {"source"}
    BY <1>2, <1>9 DEF Holders, SingleInv, RollbackIsolated
  <2> QED BY <1>1, <2>1, <2>2 DEF Own!Next, Own!Finish, Own!Move
<1>10. \/ m.phase = file.phase
       \/ file.phase \in Before /\ m.phase \in Before
       \/ file.phase \in InCutover /\ m.phase \in InCutover
       \/ file.phase = "ROLLED_BACK" /\ m.phase = "CLOSED"
       => Stage' = Stage
  BY <1>1 DEF Stage, InCutover
<1> QED BY <1>4, <1>5, <1>6, <1>7, <1>8, <1>9, <1>10

\* A migration run by the book, one command at a time, moves the production
\* identity as Ownership allows, whatever dies on the way.
THEOREM SoloImplementsOwnership ==
  ASSUME Solo, Runbook
  PROVE  Spec => ImplementsOwnership
<1>1. Init => Own!Init
  BY DEF Init, Own!Init, Holders, Stage, NewState, NoVM, InCutover
<1>2. TypeOK /\ RecordsInv /\ SingleInv /\ LawfulInv /\ [Next]_vars => [Own!Next]_(Own!vars)
  <2> SUFFICES ASSUME TypeOK, RecordsInv, SingleInv, LawfulInv, [Next]_vars
               PROVE  [Own!Next]_(Own!vars)
    OBVIOUS
  <2>1. CASE UNCHANGED vars
    BY <2>1 DEF vars, Own!vars, Holders, Stage
  <2>2. ASSUME NEW p \in Procs, Command(p)
        PROVE  [Own!Next]_(Own!vars)
    <3>1. PICK c, r : Begins(p, c, r) /\ Changes(c, r)
      BY <2>2, CommandChanges
    <3> QED BY <3>1 DEF Begins, Own!vars, Holders, Stage
  <2> QED BY <2>1, <2>2, EnvironmentRefines, CallRefines, SaveRefines DEF Next
<1> QED BY <1>1, <1>2, RecordSafety, SoloSafety, SoloLawful, PTL
        DEF Spec, ImplementsOwnership, Own!Spec

(* ----------------- what is recorded of a running destination --------------- *)

\* The commands that stop the destination.
Stoppers == {"test_stop", "begin_rollback"}

\* The destination does not run in a rollback, nor once begin-rollback has
\* stopped it; nothing that starts it is in flight then.
RestInv ==
  /\ RollbackStopped
  /\ \A p \in Procs : ~At(p, "idle") =>
       LET c == proc[p].cmd IN
         /\ At(p, "start") => c \in Starters
         /\ c \in Starters => file.phase # "ROLLBACK_IN_PROGRESS"
         /\ proc[p].mem.phase = "ROLLBACK_IN_PROGRESS" =>
              c = "begin_rollback" \/ file.phase = "ROLLBACK_IN_PROGRESS"
         /\ c = "begin_rollback" /\ ~At(p, "stop") => ~vm.running

\* A starter has started the destination and is about to record it.
Recording(p, starters) == At(p, "save") /\ proc[p].cmd \in starters

\* A destination that runs is recorded as powered on, or about to be, and what is
\* in flight will keep it so, unless it has stopped the destination.
PowerInv ==
  /\ vm.running =>
       /\ file.phase \notin Unseeded
       /\ file.powered_on \/ \E p \in Procs : Recording(p, Starters)
  /\ \A p \in Procs : ~At(p, "idle") =>
       LET c == proc[p].cmd IN
         /\ c \in Starters => proc[p].mem.powered_on
         /\ c \in Stoppers /\ ~At(p, "stop") => ~vm.running
         /\ c \notin Starters \cup Stoppers /\ vm.running => proc[p].mem.powered_on

\* A destination on the production network, now or before, is recorded as a
\* possible divergence, or about to be.
DivergenceInv ==
  /\ served \/ Produces =>
       file.writes_possible \/ \E p \in Procs : Recording(p, {"activate_production"})
  /\ \A p \in Procs : ~At(p, "idle") =>
       LET c == proc[p].cmd IN
         /\ file.writes_possible \/ c = "activate_production" => proc[p].mem.writes_possible
         /\ c = "activate_production" /\ (At(p, "net") \/ At(p, "start")) => ~vm.running

LEMMA FirstStepFacts ==
  \A c : /\ FirstStep(c) \notin {"idle", "start"}
         /\ FirstStep(c) = "stop" <=> c \in Stoppers
         /\ FirstStep(c) = "save" => c \notin Starters
         /\ FirstStep(c) = "net" => c # "activate_production"
  BY DEF FirstStep, Starters, Stoppers

LEMMA NextStepFacts ==
  \A c, at : /\ NextStep(c, at) \notin {"idle", "stop"}
             /\ NextStep(c, at) = "start" => c \in Starters /\ at = "net"
             /\ NextStep(c, at) = "net" => at = "stop" \/ at = "check"
             /\ at = "start" => NextStep(c, at) = "save"
  BY DEF NextStep, Starters

\* What a step of an invocation does to the power of the destination.
LEMMA StepPower ==
  ASSUME Solo, TypeOK, NEW p \in Procs, Step(p)
  PROVE  \/ Ends(p) /\ (vm'.running => vm.running)
         \/ /\ GoesOn(p)
            /\ ~At(p, "save")
            /\ At(p, "stop") \/ At(p, "check") => ~vm'.running
            /\ vm'.running => vm.running \/ At(p, "start")
<1>1. /\ Exit(p) => \A q \in Procs : proc'[q] = Idle
      /\ Advance(p) => proc'[p] = [proc[p] EXCEPT !.at = NextStep(proc[p].cmd, proc[p].at)]
  BY DEF Solo, Exit, Advance, Goto, TypeOK
<1>2. CASE StartVM(p)
  <2>1. Advance(p) /\ file' = file /\ At(p, "start")
    BY <1>2 DEF StartVM
  <2> QED BY <1>1, <2>1 DEF GoesOn, At
<1>3. CASE ~StartVM(p)
  <2>0. vm \in [exists : BOOLEAN, running : BOOLEAN, bridge : VNets \cup {None}]
    BY DEF TypeOK
  <2>1. vm'.running => vm.running
    <3>1. CASE CreateVM(p) \/ SeedFails(p) \/ StopVM(p) \/ SetNetwork(p)
      BY <2>0, <3>1 DEF CreateVM, SeedFails, StopVM, SetNetwork, NoVM
    <3>2. CASE ImportDisks(p) \/ CheckStopped(p) \/ WriteDelta(p) \/ Save(p) \/ NoSuchVM(p) \/ Die(p)
      BY <3>2 DEF ImportDisks, CheckStopped, WriteDelta, Save, NoSuchVM, Die
    <3> QED BY <1>3, <3>1, <3>2 DEF Step
  <2>2. \/ /\ Exit(p) /\ file' = file
           /\ At(p, "save") /\ proc[p].cmd \in Starters => proc[p].cmd \in unsaved'
        \/ Exit(p) /\ file' = proc[p].mem /\ vm' = vm /\ At(p, "save")
        \/ /\ Advance(p) /\ file' = file /\ ~At(p, "save")
           /\ At(p, "stop") \/ At(p, "check") => ~vm'.running
    <3>1. CASE CreateVM(p) \/ SeedFails(p) \/ StopVM(p) \/ SetNetwork(p)
      BY <2>0, <3>1 DEF CreateVM, SeedFails, StopVM, SetNetwork, At
    <3>2. CASE ImportDisks(p) \/ CheckStopped(p) \/ WriteDelta(p) \/ Save(p) \/ NoSuchVM(p) \/ Die(p)
      BY <3>2 DEF ImportDisks, CheckStopped, WriteDelta, Save, NoSuchVM, Die, At
    <3> QED BY <1>3, <3>1, <3>2 DEF Step
  <2> QED BY <1>1, <2>1, <2>2 DEF GoesOn, Ends
<1> QED BY <1>2, <1>3

\* A command in flight, field by field.
LEMMA BegunFields ==
  ASSUME Solo, TypeOK, NEW p \in Procs, NEW c, NEW r, Begins(p, c, r)
  PROVE  \A q \in Procs : proc'[q].cmd = c /\ proc'[q].at = FirstStep(c) /\ proc'[q].mem = r
<1>1. \A q \in Procs : proc'[q] = [cmd |-> c, at |-> FirstStep(c), mem |-> r]
  BY SoloBegins
<1> QED BY <1>1

LEMMA WentOnFields ==
  ASSUME Solo, TypeOK, NEW p \in Procs, GoesOn(p)
  PROVE  \A q \in Procs :
           /\ q = p
           /\ proc'[q].cmd = proc[p].cmd /\ proc'[q].mem = proc[p].mem
           /\ proc'[q].at = NextStep(proc[p].cmd, proc[p].at)
  BY DEF GoesOn, Solo, TypeOK

\* Outside the CLI, nobody starts the destination.
LEMMA EnvironmentPower ==
  ASSUME TypeOK, Environment
  PROVE  /\ vm'.running => vm.running
         /\ Produces' => Produces
         /\ served' => served \/ Produces
  BY DEF TypeOK, Environment, StopSource, StartSource, BuildVM, GuestPowersOff, WriterEnds, Serve, Produces

\* The destination does not run in a rollback, whatever networks were recorded
\* and whichever commands died: begin-rollback stops it before it saves.
THEOREM SoloRollbackStopped ==
  ASSUME Solo
  PROVE  Spec => []RollbackStopped
<1>1. Init => RestInv
  BY DEF Init, RestInv, RollbackStopped, At, Idle, NoVM, NewState
<1>2. TypeOK /\ RecordsInv /\ RestInv /\ [Next]_vars => RestInv'
  <2> SUFFICES ASSUME TypeOK, RecordsInv, RestInv, [Next]_vars
               PROVE  RestInv'
    OBVIOUS
  <2>1. CASE UNCHANGED vars
    BY <2>1 DEF vars, RestInv, RollbackStopped, At
  <2>2. CASE Environment
    BY <2>2, EnvironmentFrame, EnvironmentPower DEF RestInv, RollbackStopped, At
  <2>3. ASSUME NEW p \in Procs, Command(p)
        PROVE  RestInv'
    <3>1. PICK c, r : Begins(p, c, r) /\ Changes(c, r)
      BY <2>3, CommandChanges
    <3>2. \A q \in Procs : proc'[q].cmd = c /\ proc'[q].at = FirstStep(c) /\ proc'[q].mem = r
      BY <3>1, BegunFields
    <3>3. file' = file /\ vm' = vm
      BY <3>1 DEF Begins
    <3>4. c = "begin_rollback" => FirstStep(c) = "stop"
      BY FirstStepFacts DEF Stoppers
    <3> QED BY <3>1, <3>2, <3>3, <3>4, FirstStepFacts
            DEF Changes, RestInv, RollbackStopped, At, Starters
  <2>4. ASSUME NEW p \in Procs, Step(p)
        PROVE  RestInv'
    <3>1. CASE Ends(p) /\ (vm'.running => vm.running)
      <4>1. \A q \in Procs : At(q, "idle")'
        BY <3>1 DEF Ends, At, Idle
      <4>2. RollbackStopped'
        BY <2>4, <3>1, SoloStep DEF Ends, RestInv, RollbackStopped, At
      <4> QED BY <4>1, <4>2 DEF RestInv
    <3>2. CASE /\ GoesOn(p)
               /\ At(p, "stop") => ~vm'.running
               /\ vm'.running => vm.running \/ At(p, "start")
      <4>1. file' = file /\ ~At(p, "idle")
        BY <2>4, <3>2, SoloStep DEF GoesOn
      <4>2. /\ vm'.running /\ ~vm.running =>
                 proc[p].cmd \in Starters /\ file.phase # "ROLLBACK_IN_PROGRESS"
            /\ proc[p].cmd = "begin_rollback" => ~vm'.running
        BY <3>2, <4>1 DEF RestInv, Starters
      <4> QED BY <3>2, <4>1, <4>2, WentOnFields, NextStepFacts DEF RestInv, RollbackStopped, At
    <3> QED BY <2>4, <3>1, <3>2, StepPower
  <2> QED BY <2>1, <2>2, <2>3, <2>4 DEF Next
<1>3. RestInv => RollbackStopped
  BY DEF RestInv
<1> QED BY <1>1, <1>2, <1>3, RecordSafety, PTL DEF Spec

\* A command that died between qm start and its save is never forgotten.
LEMMA UnsavedGrows ==
  ASSUME Solo, TypeOK, RecordsInv, [Next]_vars
  PROVE  unsaved \subseteq unsaved'
<1>1. CASE UNCHANGED vars
  BY <1>1 DEF vars
<1>2. CASE Environment
  BY <1>2 DEF Environment, StopSource, StartSource, BuildVM, GuestPowersOff, WriterEnds, Serve,
              leftovers
<1>3. ASSUME NEW p \in Procs, Command(p)
      PROVE  unsaved \subseteq unsaved'
  <2>1. PICK c, r : Begins(p, c, r)
    BY <1>3, CommandChanges
  <2> QED BY <2>1 DEF Begins, leftovers
<1> QED BY <1>1, <1>2, <1>3, SoloStep DEF Next

\* A step after which no unsaved start is remembered keeps PowerInv: what a starter
\* started is recorded by its save, and no other save forgets it.
LEMMA StepKeepsPower ==
  ASSUME Solo, unsaved' = {}, TypeOK, RecordsInv, SingleInv, LawfulInv, PowerInv,
         NEW p \in Procs, Step(p)
  PROVE  PowerInv'
<1> DEFINE c == proc[p].cmd
           m == proc[p].mem
<1>0. ~At(p, "idle")
  BY SoloStep
<1>1. c \in Starters => file.phase \notin Unseeded
  BY <1>0 DEF SingleInv, InFlight, Began, Starters, Unseeded
<1>2. m.phase \in Unseeded => file.phase \in Unseeded
  BY <1>0 DEF LawfulInv, Lawful, MayEnter, AllowedTransitions, Phases, Unseeded, RecordsInv,
              RecordInv, TypeOK, StateRecord
<1>3. CASE Ends(p) /\ (vm'.running => vm.running)
  <2>1. \A q \in Procs : At(q, "idle")'
    BY <1>3 DEF Ends, At, Idle
  <2>2. CASE file' = file /\ ~Recording(p, Starters)
    <3>1. \A q \in Procs : ~Recording(q, Starters)
      BY <2>2 DEF Solo
    <3> QED BY <1>3, <2>1, <2>2, <3>1 DEF PowerInv
  <2>3. CASE file' = m /\ vm' = vm /\ At(p, "save")
    <3>1. vm.running => m.powered_on
      BY <1>0, <2>3 DEF PowerInv, At
    <3> QED BY <1>2, <2>1, <2>3, <3>1 DEF PowerInv
  <2> QED BY <1>3, <2>2, <2>3 DEF Ends, Recording
<1>4. CASE /\ GoesOn(p)
           /\ ~At(p, "save")
           /\ At(p, "stop") => ~vm'.running
           /\ vm'.running => vm.running \/ At(p, "start")
  <2>1. file' = file /\ \A q \in Procs : ~Recording(q, Starters)
    BY <1>4 DEF GoesOn, Recording, Solo
  <2>2. /\ At(p, "start") => c \in Starters
        /\ Starters \cap Stoppers = {}
    BY DEF SingleInv, InFlight, Reached, At, Starters, Stoppers
  <2>3. c \in Stoppers => ~vm'.running
    BY <1>0, <1>4, <2>2 DEF PowerInv
  <2>4. \A q \in Procs : proc'[q].cmd = c /\ proc'[q].mem = m
    BY <1>4, WentOnFields
  <2>5. At(p, "start") => Recording(p, Starters)'
    BY <1>4, <2>2, WentOnFields, NextStepFacts DEF At, Recording
  <2>6. vm'.running => /\ file.phase \notin Unseeded
                       /\ file.powered_on \/ \E q \in Procs : Recording(q, Starters)'
    BY <1>1, <1>4, <2>1, <2>2, <2>5 DEF PowerInv
  <2>7. /\ c \in Starters => m.powered_on
        /\ c \in Stoppers => ~vm'.running
        /\ c \notin Starters \cup Stoppers /\ vm'.running => m.powered_on
    BY <1>0, <1>4, <2>2, <2>3 DEF PowerInv
  <2> QED BY <2>1, <2>4, <2>6, <2>7 DEF PowerInv
<1> QED BY <1>3, <1>4, StepPower

\* Whatever else dies, a running destination is recorded as powered on whenever a
\* command begins, unless a command died between qm start and its save: but for
\* that, the guards that trust the record are right.
THEOREM SoloPowerRecorded ==
  ASSUME Solo, Runbook
  PROVE  Spec => []PowerRecorded
<1> DEFINE Recorded == unsaved = {} => PowerInv
<1>1. Init => Recorded
  BY DEF Init, PowerInv, At, Idle, NoVM
<1>2. TypeOK /\ RecordsInv /\ SingleInv /\ LawfulInv /\ Recorded /\ [Next]_vars => Recorded'
  <2> SUFFICES ASSUME TypeOK, RecordsInv, SingleInv, LawfulInv, Recorded, [Next]_vars, unsaved' = {}
               PROVE  PowerInv'
    OBVIOUS
  <2>0. PowerInv
    BY UnsavedGrows
  <2> HIDE DEF Recorded
  <2>1. CASE UNCHANGED vars
    BY <2>0, <2>1 DEF vars, PowerInv, Recording, At
  <2>2. CASE Environment
    BY <2>0, <2>2, EnvironmentFrame, EnvironmentPower DEF PowerInv, Recording, At
  <2>3. ASSUME NEW p \in Procs, Command(p)
        PROVE  PowerInv'
    <3>1. PICK c, r : Begins(p, c, r) /\ Changes(c, r)
      BY <2>3, CommandChanges
    <3>2. \A q \in Procs : proc'[q].cmd = c /\ proc'[q].at = FirstStep(c) /\ proc'[q].mem = r
      BY <3>1, BegunFields
    <3>3. file' = file /\ vm' = vm /\ At(p, "idle")
      BY <3>1 DEF Begins
    <3>4. vm.running => file.phase \notin Unseeded /\ file.powered_on
      BY <2>0, <3>3 DEF PowerInv, Recording, At, Solo
    <3>5. /\ c \in Starters => r.powered_on
          /\ c \notin Starters \cup Stoppers /\ vm.running => r.powered_on
      BY <3>1, <3>4 DEF Changes, Starters, Stoppers
    <3> QED BY <2>0, <3>2, <3>3, <3>4, <3>5, FirstStepFacts DEF PowerInv, At
  <2> QED BY <2>0, <2>1, <2>2, <2>3, StepKeepsPower DEF Next
<1>3. Recorded => PowerRecorded
  <2> SUFFICES ASSUME PowerInv, vm.running, \A p \in Procs : At(p, "idle")
               PROVE  file.powered_on
    BY DEF PowerRecorded
  <2> QED BY DEF PowerInv, Recording, At
<1> QED BY <1>1, <1>2, <1>3, RecordSafety, SoloSafety, SoloLawful, PTL DEF Spec

\* A step after which no unsaved activation is remembered keeps DivergenceInv.
LEMMA StepKeepsDivergence ==
  ASSUME Solo, "activate_production" \notin unsaved', TypeOK, SingleInv, DivergenceInv, NEW p \in Procs, Step(p)
  PROVE  DivergenceInv'
<1> DEFINE c == proc[p].cmd
           m == proc[p].mem
           Activating(q) == Recording(q, {"activate_production"})
<1>0. ~At(p, "idle") /\ served' = served
  BY SoloStep
<1>1. /\ file.writes_possible \/ c = "activate_production" => m.writes_possible
      /\ c = "activate_production" /\ (At(p, "net") \/ At(p, "start")) => ~vm.running
  BY <1>0 DEF DivergenceInv
<1>2. CASE Ends(p) /\ (vm'.running => vm.running)
  <2>1. \A q \in Procs : At(q, "idle")'
    BY <1>2 DEF Ends, At, Idle
  <2>2. Produces' => Produces
    BY <1>1, <1>2, CallProduces DEF Produces
  <2>3. CASE file' = file /\ ~Activating(p)
    <3>1. \A q \in Procs : ~Activating(q)
      BY <2>3 DEF Solo
    <3> QED BY <1>0, <2>1, <2>2, <2>3, <3>1 DEF DivergenceInv
  <2>4. CASE file' = m /\ At(p, "save")
    <3>1. served \/ Produces => m.writes_possible
      BY <1>1, <2>4 DEF DivergenceInv, Recording, Solo
    <3> QED BY <1>0, <2>1, <2>2, <2>4, <3>1 DEF DivergenceInv
  <2> QED BY <1>2, <2>3, <2>4 DEF Ends, Recording, Starters
<1>3. CASE /\ GoesOn(p)
           /\ ~At(p, "save")
           /\ At(p, "stop") \/ At(p, "check") => ~vm'.running
           /\ vm'.running => vm.running \/ At(p, "start")
  <2>1. file' = file /\ \A q \in Procs : ~Activating(q)
    BY <1>3 DEF GoesOn, Recording, Solo
  <2>2. \A q \in Procs :
          /\ q = p
          /\ proc'[q].cmd = c /\ proc'[q].mem = m
          /\ proc'[q].at = NextStep(c, proc[p].at)
    BY <1>3, WentOnFields
  <2>3. Produces' => Produces \/ Activating(p)'
    <3>1. c = "activate_production" /\ At(p, "net") => ~vm'.running
      BY <1>1, <1>3 DEF At
    <3>2. c = "activate_production" /\ At(p, "start") => Activating(p)'
      BY <2>2, NextStepFacts DEF Recording, At
    <3> QED BY <3>1, <3>2, CallProduces DEF Produces
  <2>4. c = "activate_production" /\ NextStep(c, proc[p].at) \in {"net", "start"} => ~vm'.running
    BY <1>1, <1>3, NextStepFacts DEF At
  <2>5. (served \/ Produces)' => file.writes_possible \/ \E q \in Procs : Activating(q)'
    BY <1>0, <2>1, <2>3 DEF DivergenceInv
  <2> QED BY <1>1, <2>1, <2>2, <2>4, <2>5 DEF DivergenceInv, At
<1> QED BY <1>2, <1>3, StepPower

\* Whatever else dies, a rollback carries the warning that the destination may hold
\* newer data whenever it has served on the production network, unless an
\* activation died between qm start and its save.
THEOREM SoloWarningKept ==
  ASSUME Solo, Runbook
  PROVE  Spec => []WarningKept
<1> DEFINE Kept == "activate_production" \notin unsaved => DivergenceInv
<1>1. Init => Kept
  BY DEF Init, DivergenceInv, Produces, At, Idle, NoVM
<1>2. TypeOK /\ RecordsInv /\ SingleInv /\ Kept /\ [Next]_vars => Kept'
  <2> SUFFICES ASSUME TypeOK, RecordsInv, SingleInv, Kept, [Next]_vars,
                      "activate_production" \notin unsaved'
               PROVE  DivergenceInv'
    OBVIOUS
  <2>0. DivergenceInv
    BY UnsavedGrows
  <2> HIDE DEF Kept
  <2>1. CASE UNCHANGED vars
    BY <2>0, <2>1 DEF vars, DivergenceInv, Produces, Recording, At
  <2>2. CASE Environment
    BY <2>0, <2>2, EnvironmentFrame, EnvironmentPower DEF DivergenceInv, Recording, At
  <2>3. ASSUME NEW p \in Procs, Command(p)
        PROVE  DivergenceInv'
    <3>1. PICK c, r : Begins(p, c, r) /\ Changes(c, r)
      BY <2>3, CommandChanges
    <3>2. \A q \in Procs : proc'[q].cmd = c /\ proc'[q].at = FirstStep(c) /\ proc'[q].mem = r
      BY <3>1, BegunFields
    <3>3. file' = file /\ vm' = vm /\ served' = served /\ At(p, "idle")
      BY <3>1 DEF Begins
    <3>4. (served \/ Produces) => file.writes_possible
      BY <2>0, <3>3 DEF DivergenceInv, Recording, At, Solo
    <3>5. file.writes_possible \/ c = "activate_production" => r.writes_possible
      BY <3>1 DEF Changes
    <3> QED BY <2>0, <3>2, <3>3, <3>4, <3>5, FirstStepFacts DEF DivergenceInv, Produces, At
  <2> QED BY <2>0, <2>1, <2>2, <2>3, StepKeepsDivergence DEF Next
<1>3. SingleInv /\ Kept => WarningKept
  <2> SUFFICES ASSUME SingleInv, DivergenceInv, served, ~file.writes_possible,
                      file.phase \in {"ROLLBACK_IN_PROGRESS", "ROLLED_BACK"}
               PROVE  FALSE
    BY DEF WarningKept, DivergenceRecorded
  <2>1. PICK p \in Procs : Recording(p, {"activate_production"})
    BY DEF DivergenceInv
  <2>2. file.phase = "CUTOVER_IN_PROGRESS"
    BY <2>1 DEF Recording, SingleInv, InFlight, Began, At
  <2> QED BY <2>2
<1> QED BY <1>1, <1>2, <1>3, RecordSafety, SoloSafety, PTL DEF Spec
=============================================================================

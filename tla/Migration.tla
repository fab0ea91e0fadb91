----------------------------- MODULE Migration ------------------------------
(* One migration: the state file on the appliance, the invocations of the      *)
(* hv2pve CLI that read and replace it, the destination VM on Proxmox and the  *)
(* source VM on Hyper-V.                                                       *)
(*                                                                             *)
(* Every command of controller/hv2pve.py loads the whole record, tests its     *)
(* guards, talks to Proxmox over ssh and finally replaces the whole file with  *)
(* the record it computed.  Nothing locks the file, so each of these steps is  *)
(* an action of its own here and another invocation can run in between.  A     *)
(* command the guards refuse exits without a trace and is not a step.          *)
(*                                                                             *)
(* Procs     the CLI invocations that can be alive at a time;                  *)
(* Runbook   the operator follows docs/cutover.md and docs/runbook.md where    *)
(*           the code cannot see whether they do (the conditions are the       *)
(*           conjuncts "Runbook => ..." below);                                *)
(* Crashes   an invocation may die between two steps: killed, ssh failure,     *)
(*           timeout, error of a qm command.                                   *)
EXTENDS Controller

CONSTANTS Procs, SourceVNet, Runbook, Crashes

ASSUME MigrationAssumption ==
  /\ SourceVNet \in VNets     \* the bridge of the source's production network
  /\ Runbook \in BOOLEAN
  /\ Crashes \in BOOLEAN

VARIABLES file,          \* the record in the state file
          proc,          \* the command each invocation runs, and its step
          vm,            \* the destination VM on Proxmox
          sourceRunning, \* the source VM on Hyper-V runs
          served,        \* the destination has run on the production network
          writerLeft,    \* a delta writer whose invocation is gone still runs on the node
          unsaved        \* history: commands that died between qm start and their save

vars == <<file, proc, vm, sourceRunning, served, writerLeft, unsaved>>

\* What only the death of an invocation, or the end of what it left, changes.
leftovers == <<writerLeft, unsaved>>

(* --------------------------- commands in progress -------------------------- *)

Commands == {"none", "init", "ingest_baseline", "ingest_sync", "seed", "mark_seeded",
             "test_start", "test_stop", "mark_tested", "apply_delta", "register_sync",
             "authorize_cutover", "mark_source_stopped", "mark_final_sync",
             "activate_production", "mark_cutover_complete", "begin_rollback",
             "mark_rolled_back", "close"}

\* The commands that start the VM; a death before their save leaves it unrecorded.
Starters == {"test_start", "activate_production"}

Steps == {"idle", "create", "import", "check", "write", "stop", "net", "start", "save"}

\* MUTANT of FirstStep: begin-rollback records the phase before it stops the VM.
FirstStepSaveFirst(c) ==
  CASE c = "seed" -> "create"
    [] c = "test_start" -> "net"
    [] c = "test_stop" -> "stop"
    [] c \in {"apply_delta", "activate_production"} -> "check"
    [] OTHER -> "save"

\* The order of the Proxmox calls of each command.
FirstStep(c) ==
  CASE c = "seed" -> "create"
    [] c = "test_start" -> "net"
    [] c \in {"test_stop", "begin_rollback"} -> "stop"
    [] c \in {"apply_delta", "activate_production"} -> "check"
    [] OTHER -> "save"

\* MUTANT of NextStep: begin-rollback leaves the NIC on the production network.
NextStepNoIsolation(c, at) ==
  CASE c = "seed" /\ at = "create" -> "import"
    [] c = "apply_delta" /\ at = "check" -> "write"
    [] c = "activate_production" /\ at = "check" -> "net"
    [] c \in Starters /\ at = "net" -> "start"
    [] OTHER -> "save"

NextStep(c, at) ==
  CASE c = "seed" /\ at = "create" -> "import"
    [] c = "apply_delta" /\ at = "check" -> "write"
    [] c = "activate_production" /\ at = "check" -> "net"
    [] c \in Starters /\ at = "net" -> "start"
    [] c = "begin_rollback" /\ at = "stop" -> "net"
    [] OTHER -> "save"

Idle == [cmd |-> "none", at |-> "idle", mem |-> NewState]

At(p, step) == proc[p].at = step

Goto(p, step) == proc' = [proc EXCEPT ![p].at = step]

Advance(p) == Goto(p, NextStep(proc[p].cmd, proc[p].at))

Exit(p) == proc' = [proc EXCEPT ![p] = Idle]

NoVM == [exists |-> FALSE, running |-> FALSE, bridge |-> None]

TypeOK ==
  /\ file \in StateRecord
  /\ proc \in [Procs -> [cmd : Commands, at : Steps, mem : StateRecord]]
  /\ vm \in [exists : BOOLEAN, running : BOOLEAN, bridge : VNets \cup {None}]
  /\ sourceRunning \in BOOLEAN
  /\ served \in BOOLEAN
  /\ writerLeft \in BOOLEAN
  /\ unsaved \subseteq Starters

Init ==
  /\ file = NewState
  /\ proc = [p \in Procs |-> Idle]
  /\ vm = NoVM
  /\ sourceRunning = TRUE
  /\ served = FALSE
  /\ writerLeft = FALSE
  /\ unsaved = {}

(* ------------------------- starting an invocation -------------------------- *)

\* MigrationState.load and the guards of command c; result is what it will save.
Begin(p, c, accepted, result) ==
  /\ At(p, "idle")
  /\ Valid(file)
  /\ accepted
  /\ proc' = [proc EXCEPT ![p] = [cmd |-> c, at |-> FirstStep(c), mem |-> result]]
  /\ UNCHANGED <<file, vm, sourceRunning, served, leftovers>>

\* init and ingest-baseline do not read the file they replace.
InitCmd(p) ==
  /\ Runbook => file.phase = "NEW"
  /\ Begin(p, "init", TRUE, NewState)

IngestBaseline(p) ==
  \E rp \in RPs \cup {None} :
    /\ Runbook => file.phase = "NEW"
    /\ Begin(p, "ingest_baseline", TRUE, AfterIngestBaseline(rp))

IngestSync(p) ==
  \E rp \in RPs, n \in 1..MaxSeq :
    Begin(p, "ingest_sync", CanIngestSync(file, rp, n), AfterIngestSync(file, rp, n))

Seed(p) ==
  \E test, prod \in VNets :
    /\ Runbook => prod = SourceVNet
    /\ Begin(p, "seed", CanSeed(file, test, prod), AfterSeed(file, test, prod))

MarkSeeded(p) ==
  \E test, prod \in VNets :
    /\ Runbook => prod = SourceVNet /\ vm.exists /\ file.phase = "BASELINE_READY"
    /\ Begin(p, "mark_seeded", CanMarkSeeded(file, test, prod), AfterMarkSeeded(file, test, prod))

TestStart(p) == Begin(p, "test_start", CanTestStart(file), AfterTestStart(file))

TestStop(p) == Begin(p, "test_stop", CanTestStop(file), AfterTestStop(file))

MarkTested(p) == Begin(p, "mark_tested", CanMarkTested(file), AfterMarkTested(file))

ApplyDelta(p) == Begin(p, "apply_delta", CanApplyDelta(file), file)

RegisterSync(p) ==
  \E rp \in RPs, n \in 1..MaxSeq, cutoverReady \in BOOLEAN :
    Begin(p, "register_sync", CanRegisterSync(file, rp, n),
          AfterRegisterSync(file, rp, n, cutoverReady))

AuthorizeCutover(p) ==
  Begin(p, "authorize_cutover", CanAuthorizeCutover(file), AfterAuthorizeCutover(file))

MarkSourceStopped(p) ==
  /\ Runbook => ~sourceRunning
  /\ Begin(p, "mark_source_stopped", CanMarkSourceStopped(file), AfterMarkSourceStopped(file))

MarkFinalSync(p) ==
  Begin(p, "mark_final_sync", CanMarkFinalSync(file), AfterMarkFinalSync(file))

ActivateProduction(p) ==
  Begin(p, "activate_production", CanActivateProduction(file), AfterActivateProduction(file))

MarkCutoverComplete(p) ==
  Begin(p, "mark_cutover_complete", CanMarkCutoverComplete(file), AfterMarkCutoverComplete(file))

BeginRollback(p) ==
  Begin(p, "begin_rollback", CanBeginRollback(file), AfterBeginRollback(file))

MarkRolledBack(p) ==
  /\ Runbook => sourceRunning
  /\ Begin(p, "mark_rolled_back", CanMarkRolledBack(file), AfterMarkRolledBack(file))

Close(p) == Begin(p, "close", CanClose(file), AfterClose(file))

(* -------------------------- the calls to Proxmox --------------------------- *)

\* qm create: refused when the VMID is taken.
CreateVM(p) ==
  /\ At(p, "create")
  /\ IF vm.exists
       THEN Exit(p) /\ UNCHANGED vm
       ELSE /\ vm' = [exists |-> TRUE, running |-> FALSE, bridge |-> proc[p].mem.test_vnet]
            /\ Advance(p)
  /\ UNCHANGED <<file, sourceRunning, served, leftovers>>

ImportDisks(p) ==
  /\ At(p, "import")
  /\ vm.exists
  /\ Advance(p)
  /\ UNCHANGED <<file, vm, sourceRunning, served, leftovers>>

\* An import fails: the new VM is destroyed, unless --keep-failed-vm was given
\* or the clean-up fails too.
SeedFails(p) ==
  /\ At(p, "import")
  /\ vm' \in {vm, NoVM}
  /\ Exit(p)
  /\ UNCHANGED <<file, sourceRunning, served, leftovers>>

\* MUTANT of CheckStopped: the recorded power state is trusted.
CheckNothing(p) ==
  /\ At(p, "check")
  /\ vm.exists
  /\ Advance(p)
  /\ UNCHANGED <<file, vm, sourceRunning, served, leftovers>>

\* require_stopped: qm status must say stopped at this instant.
CheckStopped(p) ==
  /\ At(p, "check")
  /\ IF vm.exists /\ ~vm.running THEN Advance(p) ELSE Exit(p)
  /\ UNCHANGED <<file, vm, sourceRunning, served, leftovers>>

\* The copies, the mapping and remote_apply_delta.py are over.
WriteDelta(p) ==
  /\ At(p, "write")
  /\ vm.exists
  /\ Advance(p)
  /\ UNCHANGED <<file, vm, sourceRunning, served, leftovers>>

\* MUTANT of StopVM: a VM recorded as powered off is not looked at.
StopVMIfRecordedOn(p) ==
  /\ At(p, "stop")
  /\ vm.exists
  /\ vm' = [vm EXCEPT !.running = @ /\ ~file.powered_on]
  /\ Advance(p)
  /\ UNCHANGED <<file, sourceRunning, served, leftovers>>

\* qm shutdown, and require_stopped once it returns.
StopVM(p) ==
  /\ At(p, "stop")
  /\ vm.exists
  /\ vm' = [vm EXCEPT !.running = FALSE]
  /\ Advance(p)
  /\ UNCHANGED <<file, sourceRunning, served, leftovers>>

\* The bridge each command gives net0.
TargetBridge(c, s) == IF c = "activate_production" THEN s.production_vnet ELSE s.test_vnet

SetNetwork(p) ==
  /\ At(p, "net")
  /\ vm.exists
  /\ vm' = [vm EXCEPT !.bridge = TargetBridge(proc[p].cmd, proc[p].mem)]
  /\ Advance(p)
  /\ UNCHANGED <<file, sourceRunning, served, leftovers>>

\* qm start; a VM that already runs is left alone.
StartVM(p) ==
  /\ At(p, "start")
  /\ vm.exists
  /\ vm' = [vm EXCEPT !.running = TRUE]
  /\ Advance(p)
  /\ UNCHANGED <<file, sourceRunning, served, leftovers>>

\* MigrationState.save: validate, write a temporary file, os.replace.
Save(p) ==
  /\ At(p, "save")
  /\ Valid(proc[p].mem)
  /\ file' = proc[p].mem
  /\ Exit(p)
  /\ UNCHANGED <<vm, sourceRunning, served, leftovers>>

\* A qm command finds no VM.
NoSuchVM(p) ==
  /\ ~vm.exists
  /\ proc[p].at \in {"import", "write", "stop", "net", "start"}
  /\ Exit(p)
  /\ UNCHANGED <<file, vm, sourceRunning, served, leftovers>>

\* The invocation dies; what it did on Proxmox stays done.  A lost session or a
\* timeout ends only the local ssh: a remote_apply_delta.py that was started goes on
\* (at "write" the death may also come before it, during the copies).
Die(p) ==
  /\ Crashes
  /\ ~At(p, "idle")
  /\ Exit(p)
  /\ IF At(p, "write") THEN writerLeft' \in {writerLeft, TRUE} ELSE UNCHANGED writerLeft
  /\ unsaved' = unsaved \cup (IF At(p, "save") THEN {proc[p].cmd} \cap Starters ELSE {})
  /\ UNCHANGED <<file, vm, sourceRunning, served>>

(* --------------------------- outside the CLI ------------------------------- *)

\* hyperv/scripts/cutover-source.ps1, which asks the controller nothing.
StopSource ==
  /\ sourceRunning
  /\ Runbook => file.phase = "CUTOVER_IN_PROGRESS"
  /\ sourceRunning' = FALSE
  /\ UNCHANGED <<file, proc, vm, served, leftovers>>

\* hyperv/scripts/start-source-rollback.ps1, which asks the controller nothing.
StartSource ==
  /\ ~sourceRunning
  /\ Runbook => file.phase = "ROLLBACK_IN_PROGRESS"
  /\ sourceRunning' = TRUE
  /\ UNCHANGED <<file, proc, vm, served, leftovers>>

\* The operator imports the VM by hand, to be recorded by mark-seeded.
BuildVM ==
  /\ ~vm.exists
  /\ \E b \in VNets :
       /\ Runbook => b # SourceVNet /\ file.phase = "BASELINE_READY"
       /\ vm' = [exists |-> TRUE, running |-> FALSE, bridge |-> b]
  /\ UNCHANGED <<file, proc, sourceRunning, served, leftovers>>

\* The guest shuts itself down.
GuestPowersOff ==
  /\ vm.running
  /\ vm' = [vm EXCEPT !.running = FALSE]
  /\ UNCHANGED <<file, proc, sourceRunning, served, leftovers>>

\* The last writer that was left on the node ends: done, refused or killed.
WriterEnds ==
  /\ writerLeft
  /\ writerLeft' = FALSE
  /\ UNCHANGED <<file, proc, vm, sourceRunning, served, unsaved>>

\* Clients reach the destination on the production network and write to it.
Serve ==
  /\ vm.running /\ vm.bridge = SourceVNet
  /\ served' = TRUE
  /\ UNCHANGED <<file, proc, vm, sourceRunning, leftovers>>

Command(p) ==
  \/ InitCmd(p) \/ IngestBaseline(p) \/ IngestSync(p)
  \/ Seed(p) \/ MarkSeeded(p)
  \/ TestStart(p) \/ TestStop(p) \/ MarkTested(p)
  \/ ApplyDelta(p) \/ RegisterSync(p)
  \/ AuthorizeCutover(p) \/ MarkSourceStopped(p) \/ MarkFinalSync(p)
  \/ ActivateProduction(p) \/ MarkCutoverComplete(p)
  \/ BeginRollback(p) \/ MarkRolledBack(p) \/ Close(p)

Step(p) ==
  \/ CreateVM(p) \/ ImportDisks(p) \/ SeedFails(p)
  \/ CheckStopped(p) \/ WriteDelta(p)
  \/ StopVM(p) \/ SetNetwork(p) \/ StartVM(p)
  \/ Save(p) \/ NoSuchVM(p) \/ Die(p)

Environment == StopSource \/ StartSource \/ BuildVM \/ GuestPowersOff \/ WriterEnds \/ Serve

Next == (\E p \in Procs : Command(p) \/ Step(p)) \/ Environment

Spec == Init /\ [][Next]_vars

(* ------------------- what a record says, whoever wrote it ------------------ *)

CutoverBegan == {"CUTOVER_IN_PROGRESS", "CUTOVER_COMPLETE", "ROLLBACK_IN_PROGRESS",
                 "ROLLED_BACK", "CLOSED"}

\* A record has begun its cutover exactly when it was authorized, and then it was
\* tested and synchronized at least once: no chain of commands takes a mere
\* baseline into production, or a cut over migration back to testing.
CutoverGated(s) ==
  /\ s.phase \in CutoverBegan <=> s.authorized
  /\ s.phase \in CutoverBegan =>
       s.tested /\ s.sequence > 0 /\ s.authoritative_reference_point # None

\* mark-cutover-complete asks only for "powered on"; still, a completed cutover
\* had its source stopped, its final sync verified and its destination started.
CompleteMeansDone(s) ==
  s.phase = "CUTOVER_COMPLETE" => s.source_stopped /\ s.final_sync /\ s.writes_possible

\* last_sync_verified is about the newest bundle: none is pending, unless the
\* final sync was attested on top of it.
VerifiedMeansRegistered(s) ==
  s.last_sync_verified =>
    \/ s.pending_reference_point = None /\ s.sequence > 0
    \/ s.final_sync

Records == {file} \cup {proc[p].mem : p \in Procs}

CutoverGatedInv == \A s \in Records : CutoverGated(s)
CompleteMeansDoneInv == \A s \in Records : CompleteMeansDone(s)
VerifiedMeansRegisteredInv == \A s \in Records : VerifiedMeansRegistered(s)

(* ----------------- the record and the two virtual machines ----------------- *)

\* The source and the destination never both run with the production identity
\* (README.md:51-58, require_production_network_safe).
NoSplitBrain == ~(sourceRunning /\ vm.running /\ vm.bridge = SourceVNet)

\* Once the file says that a rollback is in progress, which is when the runbook
\* lets the source restart, the destination is stopped and off production.
RollbackIsolated ==
  file.phase = "ROLLBACK_IN_PROGRESS" => ~vm.running /\ vm.bridge # SourceVNet

\* The destination does not run when a rollback is in progress, whatever
\* networks the operator recorded.
RollbackStopped == file.phase = "ROLLBACK_IN_PROGRESS" => ~vm.running

\* A live destination is never modified by the delta writer
\* (docs/proxmox-seed.md:37), be its invocation there or gone.
DeltaTargetStopped == (writerLeft \/ \E p \in Procs : At(p, "write")) => ~vm.running

\* As long as apply-proxmox-delta itself is there, the VM it writes to is stopped:
\* its check was true and no test boot or activation came after it.
AttendedTargetStopped == \A p \in Procs : At(p, "write") => ~vm.running

\* The destination starts on the production network only in an authorized
\* cutover whose source is off and whose final sync is recorded.
ProductionStartGated ==
  [][~vm.running /\ vm'.running /\ vm'.bridge = SourceVNet
       => /\ file.phase = "CUTOVER_IN_PROGRESS" /\ file.source_stopped /\ file.final_sync
          /\ ~sourceRunning]_vars

\* The phase in the file only follows ALLOWED_TRANSITIONS: "illegal phase jumps
\* are rejected by controller/state.py" (docs/architecture.md:70).
PhaseLegal ==
  [][file'.phase # file.phase => file'.phase \in AllowedTransitions[file.phase]]_vars

\* After the baseline, the authoritative reference point moves only with a new
\* sequence number.
PointAdvances ==
  [][file'.authoritative_reference_point # file.authoritative_reference_point
       => file'.sequence > file.sequence \/ file.phase = "NEW"]_vars

\* A rollback carries the data-divergence warning when the destination served
\* production (docs/live-validation.md:130).
DivergenceRecorded ==
  file.phase \in {"ROLLBACK_IN_PROGRESS", "ROLLED_BACK"} /\ served => file.writes_possible

\* The warning is lost in no other way than by the death of an activation between
\* qm start and the save: no other crash, refusal, test boot or stop costs it.
WarningKept == "activate_production" \notin unsaved => DivergenceRecorded

\* Between commands, a running destination is recorded as powered on, unless a
\* command died between qm start and its save: the guards of mark-tested,
\* authorize-cutover and apply-proxmox-delta trust the record.
PowerRecorded ==
  unsaved = {} /\ vm.running /\ (\A p \in Procs : At(p, "idle")) => file.powered_on

(* --------------------------- inductive invariants -------------------------- *)

\* What every record satisfies, in the file or in the memory of an invocation.
RecordInv(s) ==
  /\ s.phase \notin {"DISCOVERED", "FAILED"}
  /\ CutoverGated(s)
  /\ s.phase \in {"SYNCING", "CUTOVER_READY"} =>
       s.sequence > 0 /\ s.authoritative_reference_point # None
  /\ s.phase \in InCutover /\ s.powered_on => s.writes_possible
  /\ CompleteMeansDone(s)
  /\ VerifiedMeansRegistered(s)
  /\ s.source_stopped => s.authorized
  /\ s.final_sync => s.source_stopped
  /\ s.writes_possible => s.final_sync

RecordsInv ==
  /\ RecordInv(file)
  /\ \A p \in Procs : RecordInv(proc[p].mem)

\* Under the runbook a recorded VM has its production bridge right.
NetInv(s) ==
  s.proxmox_vmid => s.production_vnet = SourceVNet /\ s.test_vnet \in VNets \ {SourceVNet}

\* A record in cutover that says "source stopped" is right about it.
SourceInv(s) == s.phase \in InCutover /\ s.source_stopped => ~sourceRunning

\* What the guards of command c still say of the file while no other command
\* runs; m is the record c will save.
Began(c, m) ==
  /\ c = "seed" => file.phase = "BASELINE_READY"
  /\ c = "test_start" => file.phase \in {"SEEDED", "TESTED", "SYNCING", "CUTOVER_READY"}
  /\ c = "activate_production" =>
       file.phase = "CUTOVER_IN_PROGRESS" /\ file.source_stopped /\ file.final_sync
  /\ c = "begin_rollback" => file.phase \in InCutover
  /\ c \in {"test_start", "activate_production", "begin_rollback"} => m.proxmox_vmid
  /\ m.phase \in InCutover => file.phase \in InCutover \cup {"CUTOVER_READY"}
  /\ m.phase = "ROLLBACK_IN_PROGRESS" =>
       c = "begin_rollback" \/ file.phase = "ROLLBACK_IN_PROGRESS"

\* Where command c can be, and what its steps so far did to the VM.
Reached(c, at, m) ==
  /\ at \in {"create", "import"} => c = "seed"
  /\ at = "check" => c \in {"apply_delta", "activate_production"}
  /\ at = "write" => c = "apply_delta"
  /\ at = "stop" => c \in {"test_stop", "begin_rollback"}
  /\ at = "net" => c \in {"test_start", "activate_production", "begin_rollback"}
  /\ at = "start" => c \in {"test_start", "activate_production"}
  /\ c = "test_start" /\ at = "start" => vm.exists /\ vm.bridge = m.test_vnet
  /\ c = "begin_rollback" /\ at = "net" => vm.exists /\ ~vm.running
  /\ c = "begin_rollback" /\ at = "save" => vm.exists /\ ~vm.running /\ vm.bridge # SourceVNet

InFlight(p) ==
  IF At(p, "idle") THEN proc[p] = Idle
  ELSE /\ Began(proc[p].cmd, proc[p].mem)
       /\ Reached(proc[p].cmd, proc[p].at, proc[p].mem)

SingleInv ==
  /\ Valid(file)
  /\ NetInv(file) /\ SourceInv(file)
  /\ \A p \in Procs : NetInv(proc[p].mem) /\ SourceInv(proc[p].mem) /\ InFlight(p)
  /\ file.phase = "ROLLBACK_IN_PROGRESS" => vm.exists
  /\ RollbackIsolated
  /\ NoSplitBrain
=============================================================================

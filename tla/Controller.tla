----------------------------- MODULE Controller -----------------------------
(* The commands of controller/hv2pve.py as functions of the migration record.  *)
(* A command that changes the record is two operators: Can<Command> says that  *)
(* its guards, set_phase and validate accept the record (otherwise it exits    *)
(* with status 2 and writes nothing), and After<Command> is the record it      *)
(* saves.  What the command does on the Proxmox host in between is in module   *)
(* Migration.                                                                  *)
(*                                                                             *)
(* The attestations that are flags on the command line (--verified, --confirm, *)
(* --guest-boot-verified, ...) are refused when missing; a command that is     *)
(* modelled as accepted was given them.                                        *)
EXTENDS MigrationState

\* state.set_phase(ph) accepts record s, whose other fields are those to save.
CanSetPhase(s, ph) == MayEnter(s, ph) /\ Valid([s EXCEPT !.phase = ph])

SetPhase(s, ph) == [s EXCEPT !.phase = ph]

(* -------------------------------- ingestion -------------------------------- *)

\* The payload of rct-baseline.ps1 (rp a reference point) or of the version 1
\* baseline.ps1 (rp = None).  from_hyperv_baseline puts it in BASELINE_READY.
AfterIngestBaseline(rp) ==
  [NewState EXCEPT !.phase = "BASELINE_READY", !.authoritative_reference_point = rp]

CanIngestSync(s, rp, n) == n > s.sequence

\* MUTANT of AfterIngestSync: stores the number expected next.
AfterIngestSyncNext(s, rp, n) ==
  [s EXCEPT !.pending_reference_point = rp,
            !.pending_sequence = n + 1,
            !.last_sync_verified = FALSE]

\* MUTANT of AfterIngestSync: the verification of the previous bundle survives.
AfterIngestSyncStillVerified(s, rp, n) ==
  [s EXCEPT !.pending_reference_point = rp, !.pending_sequence = n]

\* MUTANT of AfterIngestSync: the pending point is taken over at once.
AfterIngestSyncCommits(s, rp, n) ==
  [s EXCEPT !.authoritative_reference_point = rp,
            !.pending_reference_point = rp,
            !.pending_sequence = n,
            !.last_sync_verified = FALSE]

AfterIngestSync(s, rp, n) ==
  [s EXCEPT !.pending_reference_point = rp,
            !.pending_sequence = n,
            !.last_sync_verified = FALSE]

(* --------------------------------- seeding --------------------------------- *)

Destination(s, test, prod) ==
  [s EXCEPT !.proxmox_vmid = TRUE,
            !.test_vnet = test,
            !.production_vnet = prod,
            !.powered_on = FALSE]

CanSeed(s, test, prod) ==
  /\ s.phase = "BASELINE_READY"
  /\ test # prod

AfterSeed(s, test, prod) ==
  SetPhase([Destination(s, test, prod) EXCEPT !.disk_map = TRUE], "SEEDED")

CanMarkSeeded(s, test, prod) == CanSetPhase(Destination(s, test, prod), "SEEDED")

AfterMarkSeeded(s, test, prod) == SetPhase(Destination(s, test, prod), "SEEDED")

(* ------------------------------ isolated test ------------------------------ *)

\* MUTANT of CanTestStart: a test boot is allowed during cutover.
CanTestStartInCutover(s) ==
  /\ s.phase \in {"SEEDED", "TESTED", "SYNCING", "CUTOVER_READY", "CUTOVER_IN_PROGRESS"}
  /\ s.test_vnet # None
  /\ s.test_vnet # s.production_vnet

CanTestStart(s) ==
  /\ s.phase \in {"SEEDED", "TESTED", "SYNCING", "CUTOVER_READY"}
  /\ s.test_vnet # None
  /\ s.test_vnet # s.production_vnet

\* MUTANT of AfterTestStart: the boot is not recorded.
AfterTestStartUnrecorded(s) == s

AfterTestStart(s) == [s EXCEPT !.powered_on = TRUE]

\* int(None) raises when no VMID is recorded; the phase is not looked at.
CanTestStop(s) == s.proxmox_vmid

AfterTestStop(s) == [s EXCEPT !.powered_on = FALSE]

Tested(s) == [s EXCEPT !.tested = TRUE, !.isolated_boot_verified = TRUE]

CanMarkTested(s) == ~s.powered_on /\ CanSetPhase(Tested(s), "TESTED")

AfterMarkTested(s) == SetPhase(Tested(s), "TESTED")

(* ----------------------------- synchronization ----------------------------- *)

\* The record changes only in its history.
CanApplyDelta(s) == ~s.powered_on /\ s.disk_map

Registered(s, rp, n) ==
  [s EXCEPT !.sequence = n,
            !.authoritative_reference_point = rp,
            !.pending_reference_point = None,
            !.pending_sequence = 0,
            !.last_sync_verified = TRUE]

\* MUTANT of CanRegisterSync: < for <=.
CanRegisterSyncAgain(s, rp, n) ==
  /\ n >= s.sequence
  /\ s.pending_reference_point \in {None, rp}
  /\ CanSetPhase(Registered(s, rp, n), "SYNCING")

\* --cutover-ready chains a second set_phase; SYNCING itself is entered first.
CanRegisterSync(s, rp, n) ==
  /\ n > s.sequence
  /\ s.pending_reference_point \in {None, rp}
  /\ CanSetPhase(Registered(s, rp, n), "SYNCING")

AfterRegisterSync(s, rp, n, cutoverReady) ==
  SetPhase(Registered(s, rp, n), IF cutoverReady THEN "CUTOVER_READY" ELSE "SYNCING")

(* --------------------------------- cutover --------------------------------- *)

\* safety.require_cutover_ready, with require_isolated_test.
CutoverReady(s) ==
  /\ s.tested /\ s.isolated_boot_verified
  /\ s.last_sync_verified
  /\ s.authoritative_reference_point # None
  /\ ~s.powered_on

Authorized(s) == [s EXCEPT !.authorized = TRUE]

CanAuthorizeCutover(s) ==
  CutoverReady(s) /\ CanSetPhase(Authorized(s), "CUTOVER_IN_PROGRESS")

AfterAuthorizeCutover(s) == SetPhase(Authorized(s), "CUTOVER_IN_PROGRESS")

CanMarkSourceStopped(s) == s.phase = "CUTOVER_IN_PROGRESS" /\ s.authorized

AfterMarkSourceStopped(s) == [s EXCEPT !.source_stopped = TRUE]

CanMarkFinalSync(s) == s.source_stopped

AfterMarkFinalSync(s) == [s EXCEPT !.final_sync = TRUE, !.last_sync_verified = TRUE]

\* MUTANT of CanActivateProduction: the final sync is not required.
CanActivateWithoutFinalSync(s) ==
  /\ s.phase = "CUTOVER_IN_PROGRESS"
  /\ s.source_stopped
  /\ s.production_vnet # None
  /\ s.production_vnet # s.test_vnet

CanActivateProduction(s) ==
  /\ s.phase = "CUTOVER_IN_PROGRESS"
  /\ s.source_stopped
  /\ s.final_sync
  /\ s.production_vnet # None
  /\ s.production_vnet # s.test_vnet

\* MUTANT of AfterActivateProduction: destination_writes_possible is not set.
AfterActivateWithoutWrites(s) == [s EXCEPT !.powered_on = TRUE]

\* MUTANT of AfterActivateProduction: powered_on is not set.
AfterActivateWithoutPower(s) == [s EXCEPT !.writes_possible = TRUE]

AfterActivateProduction(s) == [s EXCEPT !.powered_on = TRUE, !.writes_possible = TRUE]

\* MUTANT of CanMarkCutoverComplete: the destination need not be recorded running.
CanMarkCompleteAnytime(s) == s.authorized /\ CanSetPhase(s, "CUTOVER_COMPLETE")

CanMarkCutoverComplete(s) ==
  /\ s.authorized
  /\ s.powered_on
  /\ CanSetPhase(s, "CUTOVER_COMPLETE")

AfterMarkCutoverComplete(s) == SetPhase(s, "CUTOVER_COMPLETE")

(* ----------------------------- rollback and end ---------------------------- *)

\* MUTANT of CanBeginRollback: the destination must be recorded running.
CanBeginRollbackIfOn(s) == s.phase \in InCutover /\ s.proxmox_vmid /\ s.powered_on

CanBeginRollback(s) == s.phase \in InCutover /\ s.proxmox_vmid

AfterBeginRollback(s) == SetPhase([s EXCEPT !.powered_on = FALSE], "ROLLBACK_IN_PROGRESS")

CanMarkRolledBack(s) == s.phase = "ROLLBACK_IN_PROGRESS"

AfterMarkRolledBack(s) == SetPhase(s, "ROLLED_BACK")

CanClose(s) == s.phase \in {"CUTOVER_COMPLETE", "ROLLED_BACK", "FAILED"}

AfterClose(s) == SetPhase(s, "CLOSED")
=============================================================================

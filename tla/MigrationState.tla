--------------------------- MODULE MigrationState ---------------------------
(* The migration record that controller/state.py keeps in one JSON file: its   *)
(* phases, the legal phase changes and the consistency rules that load, save   *)
(* and set_phase enforce.                                                      *)
(*                                                                             *)
(* Abstractions.  A timestamp or an identifier that the controller only tests  *)
(* for presence is a BOOLEAN (proxmox_vmid, disk_map, source_stopped,          *)
(* final_sync).  History, operator names, storage names and the flags that no  *)
(* guard reads (network_identity_verified, ...) are left out.                  *)
EXTENDS Integers

CONSTANTS VNets,    \* Proxmox bridges a NIC can be attached to
          RPs,      \* Hyper-V reference points (their InstanceIDs)
          None,     \* a JSON null
          MaxSeq    \* bound on the sync sequence number

ASSUME StateAssumption ==
  /\ None \notin VNets
  /\ None \notin RPs
  /\ MaxSeq \in Nat

Phases == {"NEW", "DISCOVERED", "BASELINE_READY", "SEEDED", "TESTED", "SYNCING",
           "CUTOVER_READY", "CUTOVER_IN_PROGRESS", "CUTOVER_COMPLETE",
           "ROLLBACK_IN_PROGRESS", "ROLLED_BACK", "CLOSED", "FAILED"}

\* MUTANT of AllowedTransitions: a cutover in progress can go back to testing.
AllowedTransitionsRetest ==
  [ph \in Phases |->
     CASE ph = "TESTED"         -> {"SYNCING", "CUTOVER_READY"}
       [] ph = "SYNCING"        -> {"SYNCING", "CUTOVER_READY"}
       [] ph = "CUTOVER_READY"  -> {"SYNCING", "CUTOVER_IN_PROGRESS"}
       [] ph = "CUTOVER_IN_PROGRESS" -> {"TESTED", "CUTOVER_COMPLETE", "ROLLBACK_IN_PROGRESS"}
       [] ph = "BASELINE_READY" -> {"SEEDED"}
       [] ph = "SEEDED"         -> {"TESTED"}
       [] OTHER                 -> {"CLOSED"}]

AllowedTransitions ==
  [ph \in Phases |->
     CASE ph = "NEW"            -> {"DISCOVERED", "BASELINE_READY", "FAILED"}
       [] ph = "DISCOVERED"     -> {"BASELINE_READY", "FAILED"}
       [] ph = "BASELINE_READY" -> {"SEEDED", "FAILED"}
       [] ph = "SEEDED"         -> {"TESTED", "FAILED"}
       [] ph = "TESTED"         -> {"SYNCING", "CUTOVER_READY", "FAILED"}
       [] ph = "SYNCING"        -> {"SYNCING", "CUTOVER_READY", "FAILED"}
       [] ph = "CUTOVER_READY"  -> {"SYNCING", "CUTOVER_IN_PROGRESS", "FAILED"}
       [] ph = "CUTOVER_IN_PROGRESS"  -> {"CUTOVER_COMPLETE", "ROLLBACK_IN_PROGRESS", "FAILED"}
       [] ph = "CUTOVER_COMPLETE"     -> {"ROLLBACK_IN_PROGRESS", "CLOSED", "FAILED"}
       [] ph = "ROLLBACK_IN_PROGRESS" -> {"ROLLED_BACK", "FAILED"}
       [] ph = "ROLLED_BACK"    -> {"CLOSED"}
       [] ph = "FAILED"         -> {"DISCOVERED", "BASELINE_READY", "SEEDED", "TESTED", "SYNCING",
                                    "CUTOVER_READY", "ROLLBACK_IN_PROGRESS", "CLOSED"}
       [] ph = "CLOSED"         -> {}]

Seqs == 0..MaxSeq

StateRecord ==
  [phase : Phases,
   proxmox_vmid : BOOLEAN,                        \* destination.*
   disk_map : BOOLEAN,
   production_vnet : VNets \cup {None},
   test_vnet : VNets \cup {None},
   tested : BOOLEAN,
   powered_on : BOOLEAN,
   authoritative_reference_point : RPs \cup {None}, \* sync.*
   pending_reference_point : RPs \cup {None},
   sequence : Seqs,
   pending_sequence : Seqs,                       \* 0 when the key is absent
   isolated_boot_verified : BOOLEAN,              \* validation.*
   last_sync_verified : BOOLEAN,
   authorized : BOOLEAN,                          \* cutover.*
   source_stopped : BOOLEAN,
   final_sync : BOOLEAN,
   writes_possible : BOOLEAN]

\* What `init` writes: every default, phase NEW.
NewState ==
  [phase |-> "NEW",
   proxmox_vmid |-> FALSE, disk_map |-> FALSE,
   production_vnet |-> None, test_vnet |-> None,
   tested |-> FALSE, powered_on |-> FALSE,
   authoritative_reference_point |-> None, pending_reference_point |-> None,
   sequence |-> 0, pending_sequence |-> 0,
   isolated_boot_verified |-> FALSE, last_sync_verified |-> FALSE,
   authorized |-> FALSE, source_stopped |-> FALSE,
   final_sync |-> FALSE, writes_possible |-> FALSE]

NeedsVmid   == {"SEEDED", "TESTED", "SYNCING", "CUTOVER_READY", "CUTOVER_IN_PROGRESS",
                "CUTOVER_COMPLETE", "ROLLBACK_IN_PROGRESS"}
NeedsTest   == {"TESTED", "SYNCING", "CUTOVER_READY", "CUTOVER_IN_PROGRESS", "CUTOVER_COMPLETE"}
InCutover   == {"CUTOVER_IN_PROGRESS", "CUTOVER_COMPLETE"}

\* MUTANT of Valid: the networks are not compared.
ValidAnyNetwork(s) ==
  /\ s.phase \in NeedsVmid => s.proxmox_vmid
  /\ s.phase \in NeedsTest => s.tested
  /\ s.phase \in InCutover => s.authorized
  /\ s.tested => s.isolated_boot_verified

\* MigrationState.validate: run when a record is loaded, saved or changes phase.
Valid(s) ==
  /\ s.phase \in NeedsVmid => s.proxmox_vmid
  /\ s.phase \in NeedsTest => s.tested
  /\ s.phase \in InCutover => s.authorized
  /\ s.tested => s.isolated_boot_verified
  /\ s.production_vnet = None \/ s.production_vnet # s.test_vnet

\* MUTANT of MayEnter: set_phase called with force=True.
MayEnterForced(s, ph) == ph \in Phases

\* The transition test of set_phase: staying in a phase is always allowed.
MayEnter(s, ph) == ph = s.phase \/ ph \in AllowedTransitions[s.phase]
=============================================================================

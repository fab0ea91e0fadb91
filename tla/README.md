# hv2pve: a verification project

hv2pve moves a virtual machine from Hyper-V to Proxmox VE: it exports a
baseline of the running source, seeds a destination VM from it, boots that VM
on an isolated network, brings it up to date with deltas between Hyper-V
reference points, and cuts production over, with a way back. These modules say
in TLA+ what its code does; TLC checks small instances of them, and TLAPS
proves all but the liveness for every instance, under hypotheses it names.

All paths below are relative to the root of the repository.

## 1. Inventory

| component | source | state it keeps | operations |
|---|---|---|---|
| migration record | `controller/state.py`, `safety.py` | one JSON file: phase, destination, sync, validation, cutover | `load`, `validate`, `set_phase`, `save` |
| controller CLI | `controller/hv2pve.py` | none between invocations | 18 commands that change the record, most of them through ssh too |
| Proxmox VM lifecycle | `controller/proxmox.py` | the destination VM: exists, runs, bridge of net0; files and device mappings on the node | `create_destination`, `import_disk`, `attach_disk`, `start`, `stop`, `require_stopped`, `set_network`, `apply_delta_to_volume` |
| baseline seeder | `controller/seed.py` | a VM under construction, the copies in its staging directory | `resolve_exported_disks`, `seed_destination` with clean-up |
| delta engine | `controller/delta.py`, `remote_apply_delta.py` | the bytes of the destination volume | validate ranges, apply a bundle, build a bundle |
| reference points and sync | `hyperv/HyperV2PVE.psm1`, `hyperv/scripts/rct-*.ps1`, `commit-sync.ps1`, `native-delta.ps1` | Hyper-V reference points, exports, bundles | create, export, destroy, commit |
| source VM scripts | `cutover-source.ps1`, `start-source-rollback.ps1` | power state of the source | stop, start |
| native RCT helper | `native/Hv2Pve.Rct/Program.cs` | none | paged query, attach, detach, pack |
| plans, process runner, installers, preflights, schema | the rest | none that matters here | print, run, check |

How they interact. The operator is the scheduler. Each CLI command is one
process: it loads the whole record, tests its guards, calls `qm` on the Proxmox
host over ssh, and replaces the whole file with the record it computed. Nothing
locks the file or the VM. The Hyper-V scripts run on another machine and share
nothing with the controller but the JSON they print; the controller knows the
power state of the source only by the operator's word.

What is hard, and the properties that make each part correct:

* *record and CLI*: lost updates between two invocations, an invocation that
  dies between a `qm` call and its save, long legal sequences of commands that
  together break a rule no single command breaks. Correct when no record
  reaches cutover without test, sync and authorization, phases only follow the
  table, and the reference point only moves with a newer sequence.
* *record and the two VMs*: the record is the operator's only view. Correct
  when source and destination never both run with the production identity, a
  recorded rollback means an isolated and stopped destination, a delta is only
  written under a stopped VM, and the divergence warning is not lost.
* *seeder*: only file names tell which exported file is which disk; a partial
  failure leaves a VM or copies behind; the VMID is looked up long before it is
  taken. Correct when a recorded destination holds the content of disk i in
  slot i, whatever failed before and whoever seeds beside, and when a retry can
  always succeed.
* *apply on the node*: all disks of a VM share one directory and three file
  names, a device is known by its number, and the remote script can outlive its
  ssh session. Correct when a reported success stays true.
* *delta engine and reference points*: bundles applied twice, out of order, or
  half; a destination that was booted between two deltas; a base destroyed too
  early. Correct when a record that says "verified" means that the disk holds
  the content of the authoritative reference point.

PROJECT.json lists each hazard at its line with the properties that watch it.

## 2. Modules

| module | what it is |
|---|---|
| `MigrationState` | the record, its phases, `ALLOWED_TRANSITIONS`, `validate`, the test of `set_phase` |
| `Controller` | the commands as functions of the record: `Can<Command>` are the guards, `After<Command>` the saved record |
| `Migration` | the state machine: the file, the invocations in flight, the two VMs, the operator; all properties of the core |
| `Ownership` | abstract specification: who holds the production identity, and how it may move |
| `MigrationGoals` | `Migration` implements `Ownership`; liveness of cutover and rollback |
| `MCMigration` | symmetry for TLC |
| `MigrationProofs` | theorems about `Migration`, checked by TLAPS: types, the record, the invariants of one invocation at a time |
| `LifecycleProofs` | theorems about `Migration` that build on them: phases and points, the refinement of `Ownership`, what the record says of power and divergence |
| `DiskMapping` | which exported file is which disk, as operators |
| `Seed` | `hv2pve seed` command by command, of several migrations at once; TLC runs it as it is |
| `SeedProofs` | theorems about `DiskMapping` and `Seed` |
| `Staging`, `MCStaging` | `apply-proxmox-delta` on the node: files, device mappings, remote scripts |
| `StagingProofs` | theorems about `Staging` |
| `DeltaSync` | the state machine of the data: source disk, reference points, bundles, the writer, the destination disk, beside the record |
| `MCDeltaSync` | the module TLC runs for it |
| `DeltaSyncProofs` | theorems about `DeltaSync` |
| `DeltaBundle` | one delta in detail: paged query, pack, transfer, the two writers; merging of ranges |
| `MCDeltaBundle` | the module TLC runs for it |
| `DeltaBundleProofs` | theorems about `DeltaBundle` |
| `LeastElement` | one lemma, that a non-empty set of naturals has a least element; three of the proof modules use it |

`Migration` and `DeltaSync` both extend `Controller`, so the guards and the saved
records are the same definitions in both: the first has the races and the power
and network of the VMs, the second the content of the disks. `seed` and
`apply-proxmox-delta` are a few steps there; `Seed` and `Staging` take them apart
into the commands they send, for what goes wrong between those. `DeltaBundle`
does the same for the ranges of one bundle.

### How `Migration` corresponds to the code

* `file` is the JSON file. `proc[p]` is one running `hv2pve` process: the
  command, the Proxmox call it is about to make (`at`), and `mem`, the record it
  will save. `vm` is the destination as Proxmox sees it, `sourceRunning` the
  source as Hyper-V sees it. `served` is history: clients have reached the
  destination on the production network.
* A command begins with `Begin`: load, guards, and the record to be saved. That
  is one step because a command reads nothing else that can change until it
  calls Proxmox. `FirstStep` and `NextStep` give the order of its calls; each
  call is an action (`CreateVM`, `ImportDisks`, `CheckStopped`, `WriteDelta`,
  `StopVM`, `SetNetwork`, `StartVM`), and `Save` comes last. `Valid` is tested on
  load and on save, as in the code.
* `Die` ends an invocation between any two steps: a kill, an ssh error, a
  timeout. What it did on Proxmox stays done, and the remote writer it started may
  go on (`writerLeft`), since `run` waits for the local ssh only
  (`controller/process.py:28-40`); `WriterEnds` is the end of such a writer. `unsaved`
  is history: the commands that died between `qm start` and their save. The other
  remote commands are short or stop the VM: a `qm` call that outlives its invocation is
  taken to finish before the next command begins, a shutdown that does is
  `GuestPowersOff`. `NoSuchVM` is the `qm` error for a VM that is gone, `SeedFails` the
  failed import with its best-effort clean-up.
* The environment stops and starts the source (the two scripts ask the
  controller nothing), imports a VM by hand for `mark-seeded`, lets the guest
  power itself off, and lets clients write.

Data that the controller only tests for presence is a BOOLEAN (VMID, disk map,
the timestamps `source_stopped_at_utc` and `final_sync_completed_at_utc`);
networks and reference points are model values; history, names and the
attestation flags no guard reads are left out. A missing attestation flag is a
refusal, and a refused command changes nothing, so neither is a step.

### `Ownership` and how `Migration` implements it

`Ownership` knows no record, command or network, only `holders`, the machines
that run with the production identity, and `stage`: before, cutover, rollback,
over. The source gives the identity up during the cutover, the destination takes
it only when nobody holds it, a rollback begins when the destination has let go
and ends when the source has it back. `MigrationGoals` maps `Migration` to it:
the source holds it while it runs, the destination while it runs on the
source's network (a test boot on another network holds nothing), and the stage
is read off the phase in the file. The record, the invocations, their crashes
and retries all map to stuttering steps or to one of its seven actions.

### How `DiskMapping` and `Seed` correspond to the code

* `Candidates` is the body of the loop of `resolve_exported_disks`: exact leaf
  name, else the only file of an only disk, else a stem that begins with the
  disk's; `Resolve` is the loop with its used files and its refusals. `Exports` is
  what an export may look like: the file of a disk has its name, or one with
  something appended to the stem (`controller/seed.py:76`); extra files may be there.
  File i is the export of disk i, so a right result maps i to i.
* In `Seed`, `proc[p].at` is the next command of `seed_destination`: the
  look-up of VMID and name, `qm create`, the second `qm set` for the EFI disk,
  then per disk the copy, the import, the attachment and the removal of the
  copy, then the boot order and the save. `Import` finds the new volume as the
  code does, as the one unused disk that was not there before, so a leftover one
  matters. `Fails` is a failing command with the clean-up (which may itself
  fail, or be switched off with `--keep-failed-vm`), `CreateLost` a `qm create`
  that succeeded behind a lost session (`created` is not set, nothing is
  cleaned), `Kill` a killed invocation.
* `file` is only what a state file says of its destination. One VM of the cluster
  is nobody's (`ForeignVmid`). `DestroyLeftover` is the operator clearing up.

### How `Staging` corresponds to the code

* `Plan` is the sequence of commands in `apply_delta_to_volume`; `proc[p].at` is
  the place in it. A copy has a beginning and an end, since rsync works in place.
  The `finally` blocks are the removals and the unmapping, which come after a
  failed run as well; `Die` skips them.
* `writer[w]` is a `remote_apply_delta.py` process, with what it has read and what
  it has open: the metadata, the payload's hash, the opened device, the payload
  it writes from. `boss` is the invocation that still listens; `LoseSession` takes
  it away and lets the script go on.
* `device` says which volume a block device number stands for. Proxmox may have
  mapped one itself; `MapNew` takes the lowest free number, as the kernel does, so
  a number can stand for another volume later.

### How `DeltaSync` corresponds to the code

* `src`, `sourceRunning`, `snap`, `points` and `bundles` are on the Hyper-V side:
  the source disk, its power, what each reference point froze, which of them
  still exist, and which exports (`<<None, rp>>`) and deltas (`<<from, to>>`)
  were made. `RctBaseline`, `RctSync`, `NativeDelta`, `CommitSync` and
  `StopSource` are the PowerShell scripts of these names.
* A disk maps blocks to versions. A write gives its block the next version, so
  the blocks that changed between two points (`Changed`) are those whose versions
  differ. A destination block that the guest of a test boot wrote holds `None`.
  Points are numbered in the order they are created.
* A command that only replaces the record is one step (`Command`). It is taken
  while no other invocation is in progress, since races are `Migration`'s
  subject. `apply-proxmox-delta` is `ApplyDelta`, then `WriteBlock` per changed
  block, then `ApplySucceeds`, or `ApplyFails` at any of them. With `Orphans` the
  remote writer may go on after `ApplyFails` (`OrphanWrites`): the controller
  only kills its own ssh process.
* `applied` is what the operator saw: the bundle the last successful apply wrote,
  forgotten when another apply begins or the destination is booted.

### How `DeltaBundle` corresponds to the code

* `stage` goes from `QueryPage` (`QueryChangedRanges` in `Program.cs`, and its
  PowerShell twin), over `Pack` (`PackRanges`, `build_bundle_from_raw`) and
  `Send`, to `Start` and `WriteBlock` (`apply_delta_bundle` and
  `remote_apply_delta.py`; `LocalPlan` and `RemotePlan` are where they differ).
* The data of a block is the number of the block it was read from, so data in a
  wrong place can be seen; a hash is the data hashed. `Send` may damage or cut
  the payload, `Retry` sends the bundle again after a refusal or a killed writer.
* `Pages` is external: what `QueryChangesVirtualDisk` may answer, in any cut, as
  long as it processes at least one block.
* Sorting (`OrderBy`, `sorted`) is `InOrder`: each member stands at its rank, one
  more than the number of members with a smaller offset. What is sorted here has
  different offsets: a query's ranges do not overlap. (In the code two ranges with
  one offset overlap, and `validate_ranges` refuses them.)
* `Merge` is `Merge-Ranges` of `rct-compare.ps1` as a fold over sorted ranges. The
  two answers it compares come from WMI and from the native helper, and need not be
  as tidy as a query's: `RawRanges` has empty ranges, and `MergeCanonical` puts any
  two redundant ranges (empty, repeated, nested, lying across others) where sorting
  by offset and length puts them (`Place`, `Insert`) before it merges.

### What the operator is assumed to do

The code cannot see whether the operator tells the truth. With `Runbook = TRUE`
the operator follows `docs/cutover.md` and `docs/runbook.md`: `init` and
`ingest-baseline` start a migration and do not overwrite one, the production
network recorded is the source's, a VM is imported by hand only on a test
network and only before it is seeded, `mark-source-stopped` is said of a stopped
source, `cutover-source.ps1` runs once the cutover is in progress,
`start-source-rollback.ps1` once the rollback is on record, and
`mark-rolled-back` is said of a running source. In `DeltaSync`: the baseline is
taken and ingested in phase NEW; a delta starts from the authoritative point;
`ingest-sync` gets the metadata of such a delta, with the next sequence number
and points in the order of their creation; `apply-proxmox-delta` gets the bundle
from the authoritative to the pending point, while no writer of another bundle
is left on the node; `--verified` is said of that bundle
when it was applied and nothing touched the disk since; the final sync's point
was taken after the source stopped; `commit-sync.ps1` removes the old point once
the new one is authoritative. Each is a conjunct `Runbook => ...` where it
applies. `Runbook = FALSE` drops all of them.

In `Seed` the operator runs one seed of a migration at a time (two at once can
both pass the look-up of the name), source VMs have different names, the disks
of a VM have different leaf names (`DistinctNames`; with equal names, in two
directories, TLC finds `SeededExact` violated by swapped disks), and a leftover
VM is destroyed only when no invocation of that migration is alive. In `Staging`
a success is not applied again, one apply runs at a time, and with `SameDisk` the
operator turns to another disk only when no script of the previous one is left
on the node.

Two assumptions of `DeltaSync` are not in the documents; TLC found them to be
needed for `VerifiedMeansHeld`. One is that no orphaned writer of an older bundle is left,
since it would write old blocks under the new delta; a retry of the same bundle
beside its orphan is harmless, and `sync` checks it. The other is the order of
ingested points:
when a point is ingested, its bundle is half applied, and an older pending point
(with a higher sequence number) replaces it, the older bundle applies without
error and leaves newer blocks behind. The code compares only sequence numbers.

Two more conjuncts of `DeltaSync` carry a property almost alone. `commit-sync.ps1`
checks that both points exist and belong to the VM, not which one is authoritative:
when the operator may commit before the bundle is registered, TLC finds
`AuthoritativeKept` violated. `mark-final-sync` compares nothing with the source:
when the operator may attest a point taken before the source stopped, TLC finds
`NothingLost` violated. What these properties say is that nothing else goes
wrong: no failed export, retry, abandoned sync or leftover writer.

## 3. Runs

| run | instance | what it shows |
|---|---|---|
| `single` | one invocation at a time, crashes, runbook, 2 networks, 2 reference points, sequence to 2 | the full life of a migration: `NoSplitBrain`, `RollbackIsolated`, `ProductionStartGated`, `PhaseLegal`, `PointAdvances`, the inductive invariants of the proofs; the record is right about the VM, and a rollback warns, unless a command died between `qm start` and its save (`PowerRecorded`, `WarningKept`); it implements `Ownership` (`ImplementsOwnership`); `RollbackSucceeds`, `CutoverCompletes` |
| `careless` | the same, no runbook | `AttendedTargetStopped`, `RollbackStopped`, `VerifiedMeansRegisteredInv`, `CutoverGatedInv`, `CompleteMeansDoneInv` need no discipline of the operator |
| `late_activation` | two invocations | finding: a lost update revives the cutover, both VMs live |
| `lost_warning` | one invocation, crashes | finding: the divergence warning is lost |
| `left_writer` | one invocation, crashes, runbook | finding: a delta writer whose session is gone writes under a VM that `test-start` booted |
| `seed` | 2 migrations with up to 2 disks and 3 files each, 2 invocations, 3 VMIDs | `SeededExact`, `OneDestination`, `OwnTarget` under every failure, kill, lost `qm create` and failed clean-up; `EventuallySeeded` |
| `staging` | 2 disks of 2 ranges, 1 invocation, 2 remote scripts, 2 device numbers, `SameDisk` | `SuccessExact`, `StagingCleaned`, `ForeignMappingKept` under every lost session, failed copy, leftover file and mapping |
| `lost_session` | the same without `SameDisk` | finding: a script left over from a lost session writes the bundle of one disk over another |
| `sync` | 2 blocks of 3 versions, 3 reference points, sequence to 2, failed applies, orphaned writers, test boots | what is verified is on the disk (`VerifiedMeansHeld`), the final sync loses nothing (`NothingLost`), a half-applied delta never sets the disk back (`NeverBehind`), a next delta is always possible (`AuthoritativeKept`) |
| `test_boot` | 1 block, 2 points | finding: after a test boot a verified sync is no exact copy |
| `bundle` | 5 blocks, pages of 2 | every set of changed blocks, every cut into pages, every damage and kill: `QueryExact`, `AppliedExact`, `NothingMisplaced`; every two redundant ranges besides: `MergeCanonical` |
| `unsorted_bundle` | 4 blocks, ranges in any order | finding: from a document that lists block 2 before block 0, `apply_delta_bundle` writes block 2's data to block 0, and every checksum agrees |

Bounds. Two networks are enough because the code only compares them with each
other and with the source's. Two reference points and two sequence numbers
allow a pending point that differs from the authoritative one, a second sync after
the first, and the same bundle registered twice; guards only compare a sequence
number with the last one, and none has a value of its own. One invocation reaches every phase, every crash point and every repeated
command; two are enough for every race, since the file holds one record and a
race needs one reader and one writer. The invariants of the record
(`CutoverGatedInv` and the two that follow from it) are checked with one
invocation and proved for any number (section 4); what two invocations do to the
VMs is `late_activation`, and a delta written under a VM that a second invocation
starts (the status check at `controller/proxmox.py:231` is not repeated). One
invocation at a time does not help against a writer whose session is lost: the
status check is before the write, the next command may start the VM, and nothing
asks whether a writer is still there. `DeltaTargetStopped`, the documented promise,
counts such a writer and fails (`left_writer`); `AttendedTargetStopped` is what the
check does give, a stopped VM as long as `apply-proxmox-delta` itself is there.

In `seed`, two migrations and two invocations meet on one VMID, the third VMID
belongs to nobody's migration, so that all VMIDs can be taken; two disks are
needed for a swap, a third file for an export with one too many, stems of two
letters for one name that begins another. In `staging`, two disks make one
bundle stand in for the other, two ranges let one be written and one not, two
scripts let a leftover meet its successor, two device numbers let one be reused.
Disks and scripts are exchanged by symmetry. When all is done these machines
stop, so neither checks deadlock.

In `sync`, two blocks let one be written and the other not when an apply fails;
three points are a baseline, a pending point and one that supersedes it; two
sequence numbers let a second sync build on a first one. The constraints stop
at three writes of the source (one block changes twice, the other once) and at
three exports: a baseline and two deltas, one after the other or one instead of
the other. In `bundle`, five blocks
and pages of two ranges give answers of one, two and three pages, full and not.
Points, versions and sequence numbers run out, and a bundle is done, so these
runs do not check deadlock.

`sync` looks through `None` blocks: `VerifiedMeansHeld` and
`NothingLost` are stated for the blocks no test boot wrote, and `test_boot` shows
what happens to the others.

Fairness. Liveness is checked as "if commands stop dying at some time and the
operator goes on, then". Neither the code nor its documents promise that ssh
works, so `Recovered` and `Persistent` say only that failures end
(`<>[][~Dies]`, `<>[][~Failure]`) and that a command that does not fail returns
(fairness of an invocation's own steps): the long calls (copy, import, apply,
shutdown) have timeouts, the short ones are assumed to return.
The operator retries, which is strong fairness of the next command, because it is
enabled only from time to time while other commands run. `Dies` and `Failure`
leave out the deaths that cannot be told from a refusal or from a save that
changes nothing; otherwise a harmless refusal would count as a failure and the
hypothesis would ask for too much. `RollbackSucceeds` needs nothing but the
rollback commands, from every state of the cutover. `CutoverCompletes` needs one
thing more that the documents do not mention: when `activate-production` died
between `qm start` and its save (`Stuck`), the command is refused until the
operator stops the VM. `EventuallySeeded` needs the operator to clear leftovers and to
offer a free VMID.

Every property has a mutant in the module it breaks: a plausible slip in one
definition, next to the definition it replaces, under which TLC finds the
property violated.

## 4. Proofs

The theorems hold for every value of the constants that the assumption of the
module allows: any number of networks, invocations, disks, blocks, points,
scripts and devices, and any bound. What a theorem needs beyond that is a
hypothesis in its statement. The six proof modules together state every
invariant the passing runs check, and every action property and refinement; only
liveness is left to TLC.

**The record (`MigrationProofs`).** `RecordSafety` is the core: `TypeOK /\
RecordsInv` is inductive. `RecordsInv` says of every record, in the file and in
each invocation's memory, what the code never tests as a whole, for instance
that in cutover "powered on" implies "writes possible" implies "final sync"
implies "source stopped" implies "authorized". `CutoverGatedInv`,
`CompleteMeansDoneInv` and `VerifiedMeansRegisteredInv` follow. It is inductive
because a save copies a record that already had the property: lost updates do
not matter. There is one lemma per command (`<Cmd>OK`), and three for the steps
that only copy. `AttendedTarget` needs one invocation at a time (`Solo`): between
its status check and its end no step of `Next` starts the VM. It does not cover
a writer that outlives its invocation, which is `left_writer`; only if no
invocation ever dies (`~Crashes`) does `DeltaTargetStopped` follow (`DeltaTarget`).
`SoloSafety` proves `SingleInv` under `Solo` and `Runbook`. `NoSplitBrain` alone is
not inductive: one has to know that a record in cutover that says "source
stopped" is right (`SourceInv`), that recorded networks are right (`NetInv`),
what the guards of the command in flight still say about the file (`Began`), and
how far its calls have got (`Reached`). `SoloNoSplitBrain`,
`SoloRollbackIsolated` and `SoloProductionStart` follow.

**The life cycle (`LifecycleProofs`).** One lemma, `CommandChanges`, goes through
the 18 commands and says how the record a command will save differs from the
file it read; everything after it argues about that difference and not about
commands. `LawfulInv` says that the record in flight is still a lawful successor
of the file, so the save of it is: `SoloPhaseLegal` and `SoloPointAdvances`. For
`SoloImplementsOwnership` it says in addition that `mark-rolled-back` in flight
means a running source; with `SingleInv` each step of `Migration` is then shown
to be one of the seven actions of `Ownership` or a stutter. `SoloRollbackStopped`
needs no runbook: `RestInv` adds that no command which starts the VM is in flight
during a rollback. `SoloPowerRecorded` and `SoloWarningKept` hold with crashes and
name the only one that matters, between `qm start` and the save (`unsaved`);
`PowerInv` and `DivergenceInv` say that until then what runs is recorded or about to
be, and what is in flight will not forget it. The run `lost_warning` shows what
that one death costs.

**The data (`DeltaSyncProofs`).** The inductive invariant is `DataInv`. Its centre
is `BetweenInv`: every block of the destination is between the authoritative
point and the newest one (the pending point if there is one, else the
authoritative). What a writer has done is what the pending point froze
(`WritingInv`), a writer left behind writes a point in that interval and no
bundle but the current one (`OrphanInv`), what was applied is held
(`AppliedInv`), and after the final sync every point still written is the stopped
source (`FinalInv`). `PointInv` says that the points the record names still
exist. All but the types assume `Runbook`.

**The node (`StagingProofs`).** `StagingForeignKept` is unconditional: `MadeInv` says
that a mapping an invocation made is still its own until it is removed.
`StagingSuccessExact` assumes one invocation and `SameDisk` (the run
`lost_session` fails without): `StageInv` says what is staged, mapped and found at
each place of the plan, `ScriptInv` that all scripts alive work on one disk, and
`PayloadInv` that a script which writes has that disk's payload open, under its
name or not. `StagingLeavesNothing` (`CleanInv`) does not need `SameDisk`.

**The seeder (`SeedProofs`).** `MappingsExact` is about the recursive function
`Resolve` alone: if names tell the disks apart (`DistinctNames`), whatever the
controller takes for the file of disk i is its export. It is proved by a least
counterexample (`LeastElement`), since induction principles that take an
operator are out of reach. `SeedInv` (whose VM is where at each place of
`seed_destination`) gives `SeedOneDestination` and `SeedOwnTarget` for any number
of migrations; `ExactInv` adds what the disks of a VM under construction hold, and
gives `SeedSeededExact`.

**One delta (`DeltaBundleProofs`).** Lemmas about the operators come first: ranks
order a finite set whose offsets differ (`InOrderOrders`, `OrdersUnique`), the
payload of a list of ranges is a prefix of the payload of a longer one
(`PayloadPrefix`), and so entry i finds its own data at its `payload_offset`.
`QueryInv` says that the ranges found so far are the changed blocks before the
cursor, once each. `BundleInv` and `WriterInv` say that the bundle was packed from
a list of exactly those ranges, and that a writer is past the first check only
with an intact payload; with ranges in order both plans are the same
(`PlanExact`), which `VolumeInv` needs for `BundleAppliedExact` and
`BundleNothingMisplaced`. Those two assume `~AnyOrder`; `unsorted_bundle` fails
without. For merging, the fold is unfolded into a function on 1..n (`MergeUnfolds`),
and each turn of the loop shown to keep gaps between the merged ranges and to cover
what it should, whether the next range is empty, new, longer or nested
(`MergeStep`); hence `MergeOfAnyRanges`, for any sorted ranges. `InsertSorted` says
that one more range keeps them sorted, which gives `BundleMergeCanonical`.

`Solo`, `Runbook`, `~Crashes`, `OneByOne`, `OneAtATime`, `DistinctNames` and
`~AnyOrder` are hypotheses, not assumptions of the modules. The assumptions of the
modules say no more than that numbers are natural numbers and that the values
that stand for "none" are not among the others; where a module's own strings
mark an owner (`"hv2pve"`, `"nobody"`), that they are no disk and no migration.

What the proofs found. `TypeOK` of `DeltaBundle` was false for a disk of no blocks,
which no run had. `SingleInv` was enough for three properties and not for the
refinement.

Only model-checked: `RollbackSucceeds`, `CutoverCompletes` and
`EventuallySeeded`. Liveness and ENABLED are out of the prover's reach. The six
violations are TLC's as well.

## 5. Plan

1. *Done*: record, commands, life cycle, crashes, races; proofs of the core.
2. *Done*: `DeltaSync`, the data path and what "verified" means.
3. *Done*: `DeltaBundle`, query, pack, transfer, both writers, merging.
4. *Done*: `DiskMapping` and `Seed`, two seeds at once on one cluster, clean-up and
   retry.
5. *Done*: `Ownership`, implemented by `Migration`; liveness of cutover, rollback
   and seeding.
6. *Done*: `Staging`, mapping and unmapping a volume, the shared directory.
7. Open: two applies of two disks at the same time (`Staging` with two
   invocations; its state space is too large as it stands).
8. *Done*: proofs of all invariants, action properties and the refinement.
9. Open proofs: that `DeltaSync` and `DeltaBundle` fit together (an apply of the
   first is a delta of the second), and that `Staging` may stand for the apply of
   `DeltaSync`.

Not modelled, and why: plans, discovery, preflight checks and installers only
print, query or copy; the schema and the example configuration are not loaded by
the controller; attaching disks and polling WMI jobs is Windows I/O, of which
only the outcome (success or a failed export) matters here. Guest inspection and
CPU, memory and device settings decide no guard and no data. A change query that
reports success and processed length 0 would end `QueryChangedRanges` early;
whether the Windows API can answer so is not in the repository, and the model's
API always makes progress.

-------------------------------- MODULE Seed --------------------------------
(* hv2pve seed: seed_destination in controller/seed.py and the calls it makes  *)
(* in controller/proxmox.py, for several migrations that seed on one Proxmox   *)
(* cluster beside a VM that is none of them.  Each command sent to Proxmox is  *)
(* a step; any of them can fail, and the invocation can be killed at any.      *)
(*                                                                             *)
(* Abstractions.  The content of a volume is the disk it was exported from,    *)
(* <<m, j>> for disk j of migration m; a volume is named by its content.       *)
(* Networks, CPU, memory and the guest inspection are left out: they decide    *)
(* neither a guard nor where data goes.  VM names are those of the source VMs, *)
(* here the migrations; the source VMs have different names.                   *)
(*                                                                             *)
(* Migrations, Procs  the migrations and the invocations alive at a time;      *)
(* Vmids              the VMIDs in use or offered by the cluster;              *)
(* ForeignVmid        the VM that is no migration's.                           *)
EXTENDS DiskMapping

CONSTANTS Migrations, Procs, Vmids, ForeignVmid

ASSUME SeedAssumption ==
  /\ Vmids \subseteq Nat \ {0} /\ ForeignVmid \in Vmids
  /\ Migrations \cap {"nobody", "foreign"} = {}

VARIABLES export,  \* the file resolved for each disk of each migration
          file,    \* what the state file of each migration says of its destination
          proc,    \* the invocations
          staged,  \* the copies in the staging directory of each migration
          vms      \* the VMs of the cluster

vars == <<export, file, proc, staged, vms>>

Nobody == "nobody"
Foreign == "foreign"
NoVM == [name |-> Nobody, unused |-> {}, slots |-> <<>>]
ForeignVM == [NoVM EXCEPT !.name = Foreign]
Unseeded == [vmid |-> 0, disk_map |-> <<>>]
Idle == [at |-> "idle", m |-> Nobody, vmid |-> 0, disk_map |-> <<>>]

\* Between qm create and the end; from `created = True` on when Created.
Created == {"copy", "import", "attach", "remove", "boot"}
Building == Created \cup {"efi"}
Steps == Building \cup {"idle", "check", "create", "save"}

Data == Migrations \X (1..MaxFiles)
Volumes == UNION {[1..n -> Data] : n \in 0..MaxDisks}

TypeOK ==
  /\ export \in [Migrations -> Mappings]
  /\ file \in [Migrations -> [vmid : {0} \cup Vmids, disk_map : Volumes]]
  /\ proc \in [Procs -> [at : Steps, m : Migrations \cup {Nobody},
                         vmid : {0} \cup Vmids, disk_map : Volumes]]
  /\ staged \in [Migrations -> [1..MaxDisks -> 0..MaxFiles]]
  /\ vms \in [Vmids -> [name : Migrations \cup {Nobody, Foreign},
                        unused : SUBSET Data, slots : Volumes]]

Init ==
  /\ export \in [Migrations -> Mappings]
  /\ file = [m \in Migrations |-> Unseeded]
  /\ proc = [p \in Procs |-> Idle]
  /\ staged = [m \in Migrations |-> [i \in 1..MaxDisks |-> 0]]
  /\ vms = [v \in Vmids |-> IF v = ForeignVmid THEN ForeignVM ELSE NoVM]

At(p, step) == proc[p].at = step
Goto(p, step) == proc' = [proc EXCEPT ![p].at = step]
Exit(p) == proc' = [proc EXCEPT ![p] = Idle]

\* The disk an invocation is at.
Disk(p) == Len(proc[p].disk_map) + 1

\* cmd_seed, up to the VMID: the one of the command line or the next free one.
\* The operator runs one seed of a migration at a time.
Begin(p, m, v) ==
  /\ At(p, "idle")
  /\ file[m] = Unseeded
  /\ \A q \in Procs : proc[q].m # m
  /\ proc' = [proc EXCEPT ![p] = [at |-> "check", m |-> m, vmid |-> v, disk_map |-> <<>>]]
  /\ UNCHANGED <<export, file, staged, vms>>

\* MUTANT of Check: only the VMID is looked up.
CheckVmid(p) ==
  /\ At(p, "check")
  /\ IF vms[proc[p].vmid] # NoVM THEN Exit(p) ELSE Goto(p, "create")
  /\ UNCHANGED <<export, file, staged, vms>>

\* MUTANT of Check: the staging directory must not exist (mkdir without -p).
CheckStaging(p) ==
  /\ At(p, "check")
  /\ IF \/ vms[proc[p].vmid] # NoVM
        \/ \E v \in Vmids : vms[v].name = proc[p].m
        \/ \E i \in 1..MaxDisks : staged[proc[p].m][i] # 0
       THEN Exit(p) ELSE Goto(p, "create")
  /\ UNCHANGED <<export, file, staged, vms>>

\* cluster_vms has neither the VMID nor the name; mkdir -p of the staging directory.
Check(p) ==
  /\ At(p, "check")
  /\ IF vms[proc[p].vmid] # NoVM \/ \E v \in Vmids : vms[v].name = proc[p].m
       THEN Exit(p) ELSE Goto(p, "create")
  /\ UNCHANGED <<export, file, staged, vms>>

\* MUTANT of CreateRefused: `created` is set before qm create.
CreateRefusedCleansUp(p) ==
  /\ At(p, "create")
  /\ vms[proc[p].vmid] # NoVM
  /\ vms' = [vms EXCEPT ![proc[p].vmid] = NoVM]
  /\ Exit(p)
  /\ UNCHANGED <<export, file, staged>>

\* qm create of a VMID in use is refused: `created` is not set, nothing to undo.
CreateRefused(p) ==
  /\ At(p, "create")
  /\ vms[proc[p].vmid] # NoVM
  /\ Exit(p)
  /\ UNCHANGED <<export, file, staged, vms>>

\* qm create; a generation 2 VM needs a second command, for its EFI disk.
Create(p) ==
  /\ At(p, "create")
  /\ vms[proc[p].vmid] = NoVM
  /\ vms' = [vms EXCEPT ![proc[p].vmid].name = proc[p].m]
  /\ \E step \in {"efi", "copy"} : Goto(p, step)
  /\ UNCHANGED <<export, file, staged>>

SetEfi(p) ==
  /\ At(p, "efi")
  /\ Goto(p, "copy")
  /\ UNCHANGED <<export, file, staged, vms>>

Copy(p) ==
  LET m == proc[p].m
  IN /\ At(p, "copy")
     /\ staged' = [staged EXCEPT ![m][Disk(p)] = export[m][Disk(p)]]
     /\ Goto(p, "import")
     /\ UNCHANGED <<export, file, vms>>

\* MUTANT of Import: the disks of the copies are counted from 0.
ImportZeroBased(p) ==
  LET m == proc[p].m
      v == proc[p].vmid
      volume == <<m, staged[m][Disk(p)] - 1>>
  IN /\ At(p, "import")
     /\ vms' = [vms EXCEPT ![v].unused = @ \cup {volume}]
     /\ Goto(p, "attach")
     /\ UNCHANGED <<export, file, staged>>

\* qm disk import: the new volume is the one unused disk that was not there before.
Import(p) ==
  LET m == proc[p].m
      v == proc[p].vmid
      volume == <<m, staged[m][Disk(p)]>>
  IN /\ At(p, "import")
     /\ volume[2] # 0 /\ volume \notin vms[v].unused
     /\ vms' = [vms EXCEPT ![v].unused = @ \cup {volume}]
     /\ Goto(p, "attach")
     /\ UNCHANGED <<export, file, staged>>

\* attach_disk and the entry in disk_map.
Attach(p) ==
  LET v == proc[p].vmid
  IN /\ At(p, "attach")
     /\ \E volume \in vms[v].unused :
          /\ vms' = [vms EXCEPT ![v].unused = @ \ {volume}, ![v].slots = Append(@, volume)]
          /\ proc' = [proc EXCEPT ![p].disk_map = Append(@, volume), ![p].at = "remove"]
     /\ UNCHANGED <<export, file, staged>>

\* rm of the copy of the disk just attached.
RemoveCopy(p) ==
  LET m == proc[p].m
      i == Len(proc[p].disk_map)
  IN /\ At(p, "remove")
     /\ staged' = [staged EXCEPT ![m][i] = 0]
     /\ Goto(p, IF i < Len(export[m]) THEN "copy" ELSE "boot")
     /\ UNCHANGED <<export, file, vms>>

\* set_boot_order.
Boot(p) ==
  /\ At(p, "boot")
  /\ Goto(p, "save")
  /\ UNCHANGED <<export, file, staged, vms>>

Save(p) ==
  /\ At(p, "save")
  /\ file' = [file EXCEPT ![proc[p].m] = [vmid |-> proc[p].vmid, disk_map |-> proc[p].disk_map]]
  /\ Exit(p)
  /\ UNCHANGED <<export, staged, vms>>

\* A command fails.  Once `created` is set the new VM is destroyed, unless
\* --keep-failed-vm was given or the clean-up fails as well.
Fails(p) ==
  /\ proc[p].at \in Building
  /\ \/ At(p, "efi") /\ UNCHANGED vms
     \/ ~At(p, "efi") /\ vms' \in {vms, [vms EXCEPT ![proc[p].vmid] = NoVM]}
  /\ Exit(p)
  /\ UNCHANGED <<export, file, staged>>

\* The session of qm create is lost after the VM was made.
CreateLost(p) ==
  /\ At(p, "create")
  /\ vms[proc[p].vmid] = NoVM
  /\ vms' = [vms EXCEPT ![proc[p].vmid].name = proc[p].m]
  /\ Exit(p)
  /\ UNCHANGED <<export, file, staged>>

\* The invocation is killed; before the check it would leave no trace.
Kill(p) ==
  /\ proc[p].at \notin {"idle", "check"}
  /\ Exit(p)
  /\ UNCHANGED <<export, file, staged, vms>>

\* The operator destroys what a failed seed left behind.
DestroyLeftover(v) ==
  /\ vms[v].name \in Migrations
  /\ file[vms[v].name].vmid # v
  /\ \A p \in Procs : proc[p].m # vms[v].name
  /\ vms' = [vms EXCEPT ![v] = NoVM]
  /\ UNCHANGED <<export, file, proc, staged>>

Step(p) ==
  \/ Check(p) \/ CreateRefused(p) \/ Create(p) \/ SetEfi(p)
  \/ Copy(p) \/ Import(p) \/ Attach(p) \/ RemoveCopy(p) \/ Boot(p) \/ Save(p)

Next ==
  \/ \E p \in Procs :
       \/ \E m \in Migrations, v \in Vmids : Begin(p, m, v)
       \/ Step(p) \/ Fails(p) \/ CreateLost(p) \/ Kill(p)
  \/ \E v \in Vmids : DestroyLeftover(v)

Spec == Init /\ [][Next]_vars

\* A seed that was recorded is what it says: its VM exists, is this migration's,
\* and has the content of disk i of the source in slot i, for every disk, whatever
\* other seeds, failures and clean-ups did meanwhile.
SeededExact ==
  \A m \in Migrations : file[m] # Unseeded =>
    LET vm == vms[file[m].vmid]
    IN /\ vm.name = m
       /\ Len(vm.slots) = Len(export[m])
       /\ \A i \in DOMAIN vm.slots : vm.slots[i] = <<m, i>>
       /\ vm.slots = file[m].disk_map

\* A migration never has two destinations, left over or recorded: a retry finds
\* the VM of the attempt before by its name.
OneDestination ==
  \A v, w \in Vmids : vms[v].name \in Migrations /\ vms[v].name = vms[w].name => v = w

\* A seed works only on the VM it created, and never on a VM that was there
\* before, whichever VMIDs were read as free (docs/proxmox-seed.md:21).
OwnTarget ==
  /\ vms[ForeignVmid] = ForeignVM
  /\ \A p \in Procs : proc[p].at \in Building \cup {"save"} =>
       vms[proc[p].vmid].name = proc[p].m

\* A step that a seed would not have taken by itself.
Failure(p) ==
  \/ Fails(p) \/ CreateLost(p)
  \/ Kill(p) /\ (At(p, "create") => vms[proc[p].vmid] = NoVM)

\* Failures end at some time.  The operator goes on trying, also with a VMID that
\* is free, and clears away what is left over; no command takes forever.
Persistent ==
  /\ <>[][~ \E p \in Procs : Failure(p)]_vars
  /\ \A m \in Migrations :
       /\ SF_vars(\E p \in Procs, v \in Vmids : vms[v] = NoVM /\ Begin(p, m, v))
       /\ SF_vars(\E p \in Procs : proc[p].m = m /\ Step(p))
       /\ SF_vars(\E v \in Vmids : vms[v].name = m /\ DestroyLeftover(v))

FairSpec == Spec /\ Persistent

\* Nothing a failed or killed seed leaves behind (staged copies, an unfinished
\* VM) keeps a later one from succeeding.
EventuallySeeded == \A m \in Migrations : <>(file[m] # Unseeded)
=============================================================================

------------------------------ MODULE Staging -------------------------------
(* What apply-proxmox-delta does on the Proxmox node: apply_delta_to_volume in *)
(* controller/proxmox.py copies a bundle and remote_apply_delta.py to a        *)
(* directory of the VM, maps the volume, runs the script over ssh, unmaps the  *)
(* volume and removes the copies.  All disks of a VM use the same directory    *)
(* and the same three names, and the script finds the disk by the name of a    *)
(* block device: a script that outlives its ssh session works on whatever      *)
(* those names stand for by then.                                              *)
(*                                                                             *)
(* Abstractions.  The VM is stopped (module Migration).  There is one bundle   *)
(* per disk; Blocks are its ranges, the same for every disk.  A file holds the *)
(* data of a bundle (the disk's name), or is Partial while it is copied.  The  *)
(* checks on the ranges themselves are in module DeltaBundle.                  *)
(*                                                                             *)
(* Procs, Writers  the invocations and the remote scripts alive at a time;     *)
(* MaxDevice       bound on the device numbers;                                *)
(* SameDisk        the operator turns to another disk only when no script of   *)
(*                 the previous one is left on the node.                       *)
EXTENDS Integers, Sequences

CONSTANTS Disks, Blocks, Procs, Writers, MaxDevice, SameDisk, None, Partial

ASSUME StagingAssumption ==
  /\ Blocks \subseteq Nat
  /\ MaxDevice \in Nat
  /\ SameDisk \in BOOLEAN
  /\ None \notin Disks \cup Procs \cup {"pve", "hv2pve"}
  /\ Partial \notin Disks \cup {None}

VARIABLES proc,     \* the invocations of apply-proxmox-delta
          writer,   \* the remote_apply_delta.py processes
          staged,   \* the files in the directory of the VM
          device,   \* the volume each block device number is mapped to, and by whom
          disk,     \* the blocks of each volume
          reported  \* the disks whose apply ended with success

vars == <<proc, writer, staged, device, disk, reported>>

Files == {"meta", "payload", "script"}

\* The commands of apply_delta_to_volume in their order.
Plan == <<"check", "copy meta", "copy payload", "copy script", "map", "run", "unmap",
          "remove meta", "remove payload", "remove script", "save">>

\* MUTANT of File: the payload is not removed.
FileNoPayloadRemoval(step) ==
  CASE step \in {"copy meta", "remove meta", "remove payload"} -> "meta"
    [] step = "copy payload" -> "payload"
    [] OTHER -> "script"

\* The file a copy or a removal is about.
File(step) ==
  CASE step \in {"copy meta", "remove meta"} -> "meta"
    [] step \in {"copy payload", "remove payload"} -> "payload"
    [] OTHER -> "script"

Copies == {"copy meta", "copy payload", "copy script"}
Removals == {"remove meta", "remove payload", "remove script"}

\* at is the place in Plan, 0 for no invocation; half: a copy has begun; made: the
\* mapping is this invocation's; ok: the script ended with status 0.
Idle == [at |-> 0, disk |-> None, half |-> FALSE, dev |-> 0, made |-> FALSE, ok |-> FALSE]

\* boss is the invocation that still listens, dev the device name on the command
\* line, meta the bundle of the metadata read, volume the opened volume, source
\* the content of the opened payload once its name is gone.
NoWriter == [at |-> "none", boss |-> None, disk |-> None, dev |-> 0, meta |-> None,
             volume |-> None, source |-> None, todo |-> {}]

Free == [volume |-> None, owner |-> None]

TypeOK ==
  /\ proc \in [Procs -> [at : 0..Len(Plan), disk : Disks \cup {None}, half : BOOLEAN,
                         dev : 0..MaxDevice, made : BOOLEAN, ok : BOOLEAN]]
  /\ writer \in [Writers -> [at : {"none", "read", "hash", "open", "write"},
                             boss : Procs \cup {None}, disk : Disks \cup {None},
                             dev : 0..MaxDevice, meta : Disks \cup {None},
                             volume : Disks \cup {None},
                             source : Disks \cup {None, Partial}, todo : SUBSET Blocks]]
  /\ staged \in [Files -> Disks \cup {None, Partial, "script"}]
  /\ device \in [0..MaxDevice -> [volume : Disks \cup {None}, owner : {None, "pve", "hv2pve"}]]
  /\ disk \in [Disks -> [Blocks -> {"old", "new", "bad"}]]
  /\ reported \subseteq Disks

\* Proxmox may have mapped one of the volumes for itself.
Init ==
  /\ proc = [p \in Procs |-> Idle]
  /\ writer = [w \in Writers |-> NoWriter]
  /\ staged = [f \in Files |-> None]
  /\ \E d \in Disks \cup {None} :
       device = [n \in 0..MaxDevice |->
                   IF n = 0 /\ d # None THEN [volume |-> d, owner |-> "pve"] ELSE Free]
  /\ disk = [d \in Disks |-> [b \in Blocks |-> "old"]]
  /\ reported = {}

Busy(p) == proc[p].at # 0
At(p, step) == Busy(p) /\ Plan[proc[p].at] = step
Exit(p) == proc' = [proc EXCEPT ![p] = Idle]
Advance(p) == proc' = [proc EXCEPT ![p].at = @ + 1]

Alive(w) == writer[w].at # "none"

(* ------------------------------ the invocation ----------------------------- *)

Begin(p, d) ==
  /\ ~Busy(p)
  /\ d \notin reported
  /\ SameDisk => \A w \in Writers : Alive(w) => writer[w].disk = d
  /\ proc' = [proc EXCEPT ![p] = [Idle EXCEPT !.at = 1, !.disk = d]]
  /\ UNCHANGED <<writer, staged, device, disk, reported>>

\* require_stopped and mkdir -p.
Check(p) ==
  /\ At(p, "check")
  /\ Advance(p)
  /\ UNCHANGED <<writer, staged, device, disk, reported>>

Content(f, d) == IF f = "script" THEN "script" ELSE d

\* MUTANT of BeginCopy: a file that is there is not sent again.
BeginCopyIfAbsent(p) ==
  \E step \in Copies :
    /\ At(p, step) /\ ~proc[p].half
    /\ IF staged[File(step)] = None
         THEN /\ staged' = [staged EXCEPT ![File(step)] = Partial]
              /\ proc' = [proc EXCEPT ![p].half = TRUE]
         ELSE Advance(p) /\ UNCHANGED staged
    /\ UNCHANGED <<writer, device, disk, reported>>

\* rsync --inplace (or scp) changes the file that is there, under whoever has it
\* open; what is equal is not changed.
BeginCopy(p) ==
  \E step \in Copies :
    /\ At(p, step) /\ ~proc[p].half
    /\ LET f == File(step)
       IN staged' = [staged EXCEPT ![f] = IF @ = Content(f, proc[p].disk) THEN @ ELSE Partial]
    /\ proc' = [proc EXCEPT ![p].half = TRUE]
    /\ UNCHANGED <<writer, device, disk, reported>>

\* A file removed in the meantime stays removed.
EndCopy(p) ==
  \E step \in Copies :
    /\ At(p, step) /\ proc[p].half
    /\ LET f == File(step)
       IN staged' = [staged EXCEPT ![f] = IF @ = None THEN @ ELSE Content(f, proc[p].disk)]
    /\ proc' = [proc EXCEPT ![p].half = FALSE, ![p].at = @ + 1]
    /\ UNCHANGED <<writer, device, disk, reported>>

\* pvesm path names a block device: the volume is used where it is mapped.
MapExisting(p) ==
  /\ At(p, "map")
  /\ \E n \in 0..MaxDevice :
       /\ device[n].volume = proc[p].disk
       /\ proc' = [proc EXCEPT ![p].at = @ + 1, ![p].dev = n, ![p].made = FALSE]
  /\ UNCHANGED <<writer, staged, device, disk, reported>>

\* rbd map: the lowest free device number.
MapNew(p) ==
  /\ At(p, "map")
  /\ \E n \in 0..MaxDevice :
       /\ device[n] = Free
       /\ \A k \in 0..(n - 1) : device[k] # Free
       /\ device' = [device EXCEPT ![n] = [volume |-> proc[p].disk, owner |-> "hv2pve"]]
       /\ proc' = [proc EXCEPT ![p].at = @ + 1, ![p].dev = n, ![p].made = TRUE]
  /\ UNCHANGED <<writer, staged, disk, reported>>

\* ssh python3 remote_apply_delta.py: without the script python ends at once.
Run(p) ==
  /\ At(p, "run")
  /\ \A w \in Writers : writer[w].boss # p
  /\ IF staged["script"] = "script"
       THEN /\ \E w \in Writers :
                 /\ ~Alive(w)
                 /\ writer' = [writer EXCEPT ![w] =
                      [NoWriter EXCEPT !.at = "read", !.boss = p, !.disk = proc[p].disk,
                                       !.dev = proc[p].dev]]
            /\ UNCHANGED proc
       ELSE Advance(p) /\ UNCHANGED writer
  /\ UNCHANGED <<staged, device, disk, reported>>

\* The session breaks or times out; the script, if it had begun, goes on alone.
LoseSession(p) ==
  /\ At(p, "run")
  /\ Advance(p)
  /\ writer' = [w \in Writers |-> IF writer[w].boss = p THEN [writer[w] EXCEPT !.boss = None]
                                  ELSE writer[w]]
  /\ UNCHANGED <<staged, device, disk, reported>>

InUse(n) == \E w \in Writers : writer[w].at = "write" /\ writer[w].dev = n

\* The invocation forgets its mapping.
Unmapped(p) ==
  proc' = [proc EXCEPT ![p].at = @ + 1, ![p].dev = 0, ![p].made = FALSE]

\* MUTANT of Unmap: also a mapping found is unmapped.
UnmapAlways(p) ==
  /\ At(p, "unmap")
  /\ IF ~InUse(proc[p].dev)
       THEN device' = [device EXCEPT ![proc[p].dev] = Free] ELSE UNCHANGED device
  /\ Unmapped(p)
  /\ UNCHANGED <<writer, staged, disk, reported>>

\* rbd unmap of the mapping made; a busy device is refused, and that is swallowed.
Unmap(p) ==
  /\ At(p, "unmap")
  /\ IF proc[p].made /\ ~InUse(proc[p].dev)
       THEN device' = [device EXCEPT ![proc[p].dev] = Free] ELSE UNCHANGED device
  /\ Unmapped(p)
  /\ UNCHANGED <<writer, staged, disk, reported>>

\* rbd unmap cannot be sent: swallowed as well (while a device number is left).
UnmapFails(p) ==
  /\ At(p, "unmap")
  /\ \E n \in 0..MaxDevice : device[n] = Free
  /\ Unmapped(p)
  /\ UNCHANGED <<writer, staged, device, disk, reported>>

\* rm -f: the script that has the payload open keeps its content.
RemoveFile(p) ==
  \E step \in Removals :
    /\ At(p, step)
    /\ staged' = [staged EXCEPT ![File(step)] = None]
    /\ writer' = [w \in Writers |->
         IF File(step) = "payload" /\ writer[w].at = "write" /\ writer[w].source = None
           THEN [writer[w] EXCEPT !.source = staged["payload"]]
           ELSE writer[w]]
    /\ IF step = "remove script" /\ ~proc[p].ok THEN Exit(p) ELSE Advance(p)
    /\ UNCHANGED <<device, disk, reported>>

\* MUTANT of Save: the plan goes on past its end.
SaveGoesOn(p) ==
  /\ At(p, "save")
  /\ reported' = reported \cup {proc[p].disk}
  /\ Advance(p)
  /\ UNCHANGED <<writer, staged, device, disk>>

\* The apply is recorded in the history of the migration.
Save(p) ==
  /\ At(p, "save")
  /\ reported' = reported \cup {proc[p].disk}
  /\ Exit(p)
  /\ UNCHANGED <<writer, staged, device, disk>>

\* A command fails or the invocation is killed: what it did so far stays.
Die(p) ==
  /\ Busy(p)
  /\ Exit(p)
  /\ writer' = [w \in Writers |-> IF writer[w].boss = p THEN [writer[w] EXCEPT !.boss = None]
                                  ELSE writer[w]]
  /\ UNCHANGED <<staged, device, disk, reported>>

(* ------------------------- remote_apply_delta.py --------------------------- *)

\* The script ends; the invocation that still listens takes its status.
End(w, status) ==
  /\ writer' = [writer EXCEPT ![w] = NoWriter]
  /\ proc' = [p \in Procs |-> IF writer[w].boss = p
                                THEN [proc[p] EXCEPT !.at = @ + 1, !.ok = status] ELSE proc[p]]

ReadMeta(w) ==
  /\ writer[w].at = "read"
  /\ IF staged["meta"] \in Disks
       THEN writer' = [writer EXCEPT ![w].at = "hash", ![w].meta = staged["meta"]] /\ UNCHANGED proc
       ELSE End(w, FALSE)
  /\ UNCHANGED <<staged, device, disk, reported>>

\* The payload file must have the hash of the metadata.
HashPayload(w) ==
  /\ writer[w].at = "hash"
  /\ IF staged["payload"] = writer[w].meta
       THEN writer' = [writer EXCEPT ![w].at = "open"] /\ UNCHANGED proc
       ELSE End(w, FALSE)
  /\ UNCHANGED <<staged, device, disk, reported>>

\* The target and then the payload, by their names.
Open(w) ==
  /\ writer[w].at = "open"
  /\ IF device[writer[w].dev] # Free /\ staged["payload"] # None
       THEN /\ writer' = [writer EXCEPT ![w].at = "write", ![w].todo = Blocks,
                                        ![w].volume = device[writer[w].dev].volume]
            /\ UNCHANGED proc
       ELSE End(w, FALSE)
  /\ UNCHANGED <<staged, device, disk, reported>>

\* What the open payload holds now.
Source(w) == IF writer[w].source = None THEN staged["payload"] ELSE writer[w].source

\* One range is written and then its hash compared.
Write(w) ==
  /\ writer[w].at = "write"
  /\ LET b == CHOOSE x \in writer[w].todo : \A y \in writer[w].todo : x <= y
         d == writer[w].volume
     IN \E right \in IF Source(w) = Partial THEN BOOLEAN ELSE {Source(w) = writer[w].meta} :
          /\ disk' = [disk EXCEPT ![d][b] = IF right /\ d = writer[w].meta THEN "new" ELSE "bad"]
          /\ IF right /\ writer[w].todo # {b}
               THEN writer' = [writer EXCEPT ![w].todo = @ \ {b}] /\ UNCHANGED proc
               ELSE End(w, right)
  /\ UNCHANGED <<staged, device, reported>>

\* The script dies: killed, I/O error.
WriterDies(w) ==
  /\ Alive(w)
  /\ End(w, FALSE)
  /\ UNCHANGED <<staged, device, disk, reported>>

Next ==
  \/ \E p \in Procs :
       \/ \E d \in Disks : Begin(p, d)
       \/ Check(p) \/ BeginCopy(p) \/ EndCopy(p) \/ MapExisting(p) \/ MapNew(p)
       \/ Run(p) \/ LoseSession(p) \/ Unmap(p) \/ UnmapFails(p) \/ RemoveFile(p)
       \/ Save(p) \/ Die(p)
  \/ \E w \in Writers :
       ReadMeta(w) \/ HashPayload(w) \/ Open(w) \/ Write(w) \/ WriterDies(w)

Spec == Init /\ [][Next]_vars

\* A disk whose apply was reported a success holds exactly its bundle, then and
\* later on: no script left over from a lost session, no file and no mapping left
\* over from a failed apply of another disk spoils it (docs/rct-design.md:52).
SuccessExact == \A d \in reported : \A b \in Blocks : disk[d][b] = "new"

\* A success leaves none of the three files behind (docs/proxmox-seed.md:36).
StagingCleaned == \A p \in Procs : At(p, "save") => \A f \in Files : staged[f] = None

\* "unmaps only a mapping created by hv2pve" (docs/proxmox-seed.md:35).
ForeignMappingKept ==
  [][\A n \in 0..MaxDevice : device[n].owner = "pve" => device'[n] = device[n]]_vars
=============================================================================

--------------------------- MODULE MigrationGoals ---------------------------
(* What module Migration is for: it implements the abstract Ownership, and an  *)
(* operator who does not give up brings a cutover or a rollback to its end,    *)
(* whatever died on the way.                                                   *)
EXTENDS Migration

(* ------------------------------- refinement -------------------------------- *)

Holders ==
  {machine \in {"source", "destination"} :
     IF machine = "source" THEN sourceRunning ELSE vm.running /\ vm.bridge = SourceVNet}

Stage ==
  CASE file.phase \in InCutover -> "cutover"
    [] file.phase = "ROLLBACK_IN_PROGRESS" -> "rollback"
    [] file.phase \in {"ROLLED_BACK", "CLOSED"} -> "over"
    [] OTHER -> "before"

Own == INSTANCE Ownership WITH holders <- Holders, stage <- Stage

\* Seen from outside, a migration run by the book moves the production identity
\* as Ownership allows, through every crash: it is released once, taken over only
\* when free, and back at the source when the rollback is over.
ImplementsOwnership == Own!Spec

(* -------------------------------- liveness --------------------------------- *)

\* A death that makes a difference: not the refusal of a running VM or of a VMID in
\* use, nor a save that changes nothing.
Dies(p) ==
  /\ Die(p)
  /\ At(p, "check") => ~vm.running
  /\ At(p, "create") => ~vm.exists
  /\ At(p, "save") => proc[p].mem # file

\* Commands stop dying at some time, and none hangs.
Recovered ==
  /\ <>[][~ \E p \in Procs : Dies(p)]_vars
  /\ \A p \in Procs : WF_vars(Step(p))

\* The operator insists on the rollback.
Backward == StartSource \/ \E p \in Procs : BeginRollback(p) \/ MarkRolledBack(p)

\* A cutover can always be rolled back: from every state in it, wherever commands
\* died before, an operator who insists gets the source running again and the
\* rollback on record (unless they close the completed migration).
RollbackSucceeds ==
  Recovered /\ SF_vars(Backward) =>
    (file.phase \in InCutover ~>
       \/ file.phase = "CLOSED"
       \/ file.phase = "ROLLED_BACK" /\ sourceRunning)

\* activate-production died after qm start: the destination runs, the record says
\* it does not, and the command is refused until the VM is stopped.
Stuck == file.phase = "CUTOVER_IN_PROGRESS" /\ vm.running /\ ~file.powered_on

\* The next command of docs/cutover.md, on whatever record there is.
Forward ==
  \/ StopSource
  \/ \E p \in Procs :
       \/ ~file.source_stopped /\ MarkSourceStopped(p)
       \/ ~file.final_sync /\ MarkFinalSync(p)
       \/ ~vm.running /\ ActivateProduction(p)
       \/ Stuck /\ TestStop(p)

\* An authorized cutover completes or is rolled back, wherever commands died before,
\* when the operator goes on and stops the destination where it is stuck.
CutoverCompletes ==
  Recovered /\ SF_vars(Forward) /\ SF_vars(\E p \in Procs : MarkCutoverComplete(p)) =>
    (file.phase = "CUTOVER_IN_PROGRESS" ~> file.phase # "CUTOVER_IN_PROGRESS")
=============================================================================

----------------------------- MODULE Ownership ------------------------------
(* What a migration promises about the production identity of the VM (its      *)
(* name, address and clients), without any record, command or network: who     *)
(* holds it, and how it may move (README.md:51-58, docs/cutover.md).           *)
(*                                                                             *)
(* The source gives the identity up during the cutover only; the destination   *)
(* takes it only when nobody has it; a rollback begins when the destination    *)
(* has let it go and ends when the source has it back.                         *)

VARIABLES holders, \* the machines that run with the production identity
          stage    \* how far the migration is

vars == <<holders, stage>>

Machines == {"source", "destination"}

Init == holders = {"source"} /\ stage = "before"

Move(from, to) == stage = from /\ stage' = to /\ UNCHANGED holders

Authorize == Move("before", "cutover")

Release ==
  /\ stage = "cutover"
  /\ holders' = holders \ {"source"}
  /\ UNCHANGED stage

TakeOver ==
  /\ stage = "cutover"
  /\ holders = {}
  /\ holders' = {"destination"}
  /\ UNCHANGED stage

\* The destination stops, or leaves the production network, at any time.
Drop ==
  /\ holders' = holders \ {"destination"}
  /\ UNCHANGED stage

Abandon ==
  /\ "destination" \notin holders
  /\ Move("cutover", "rollback")

Return ==
  /\ stage = "rollback"
  /\ holders = {}
  /\ holders' = {"source"}
  /\ UNCHANGED stage

Finish ==
  \/ Move("cutover", "over")
  \/ holders = {"source"} /\ Move("rollback", "over")

Next == Authorize \/ Release \/ TakeOver \/ Drop \/ Abandon \/ Return \/ Finish

Spec == Init /\ [][Next]_vars
=============================================================================

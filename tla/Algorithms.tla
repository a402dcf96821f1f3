------------------------------ MODULE Algorithms ------------------------------
(***************************************************************************)
(* The sequential algorithms of the program on every request of small      *)
(* sets: the kernels of both backends, the repacking of a checkpoint into  *)
(* an install that is verified and loaded, and the residency plan.         *)
(*                                                                         *)
(* A behaviour takes a request, decides it and is idle again; what is to   *)
(* hold of a request is stated as invariants.                              *)
(***************************************************************************)
EXTENDS KernelTasks, HostTasks

Init == task = Idle

Next ==
    \/ TakeKernelRequest
    \/ TakeCheckpoint
    \/ BuildPlan
    \/ ExecutePlan
    \/ TakeBudget
    \/ Finish

Spec == Init /\ [][Next]_task
=============================================================================

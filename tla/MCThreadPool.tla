---------------------------- MODULE MCThreadPool -----------------------------
(***************************************************************************)
(* Instances of ThreadPool for TLC.                                        *)
(***************************************************************************)
EXTENDS ThreadPool

CONSTANT
    Stuck       \* the workers whose current task may never return

ASSUME StuckAssumption == Stuck \subseteq Workers

FairSpec == Spec /\ Fairness(Stuck)

==============================================================================

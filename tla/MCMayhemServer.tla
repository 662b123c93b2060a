--------------------------- MODULE MCMayhemServer ----------------------------
(***************************************************************************)
(* Instances of MayhemServer for TLC.                                      *)
(***************************************************************************)
EXTENDS MayhemServer

CONSTANT
    Polite      \* the clients that close their side in the end

ASSUME PoliteAssumption == Polite \subseteq Clients

FairSpec == Spec /\ Fairness(Polite)

==============================================================================

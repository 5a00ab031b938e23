-------------------------- MODULE MCDSPAConditions --------------------------
(* DSPAConditions for TLC. *)
EXTENDS DSPAConditions

ThreeComponents == <<"APIServerReady", "WorkflowControllerReady", "MLMDProxyReady">>

Fine == [found |-> "yes", scaledDown |-> FALSE, available |-> TRUE,
         progressFailed |-> FALSE, replicaFailure |-> FALSE, pods |-> "ok"]
Down == [Fine EXCEPT !.available = FALSE]
Missing == [Fine EXCEPT !.found = "no"]
Unreadable == [Fine EXCEPT !.found = "error"]
ScaledDown == [Fine EXCEPT !.scaledDown = TRUE]
CrashLoop == [Down EXCEPT !.pods = "crashLoop"]

\* All is well around the components: the API server looks like a, MLMD's own
\* Deployment like m and the others, the scheduled workflow's too, like b.
Around(a, b, m) ==
    [params |-> "ok", up |-> PrereqTypes, webhook |-> "notApplicable",
     manifest |-> "valid", disabled |-> {},
     view |-> [t \in AllComponents |-> IF t = "APIServerReady" THEN a
                                       ELSE IF t = "MLMDProxyReady" THEN m ELSE b]]

AllFine == Around(Fine, Fine, Fine)

\* Everything Reconcile branches on happens in one of these worlds, and MLMD's own
\* Deployment is missing in some where all that is looked at is fine.
AllWorlds ==
    {AllFine, Around(Unreadable, CrashLoop, Fine),
     [Around(Down, Missing, Fine) EXCEPT !.manifest = "transient"],
     [AllFine EXCEPT !.manifest = "permanent"],
     [AllFine EXCEPT !.params = "unsupported"], [AllFine EXCEPT !.params = "unresolved"],
     [AllFine EXCEPT !.up = {"DatabaseAvailable"}],
     [Around(Fine, Fine, Missing) EXCEPT !.webhook = "ready"],
     [AllFine EXCEPT !.webhook = "notReady"],
     [Around(ScaledDown, Missing, Missing) EXCEPT
         !.manifest = "notApplicable", !.disabled = {"WorkflowControllerReady"}]}
=============================================================================

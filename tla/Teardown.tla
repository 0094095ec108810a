------------------------------ MODULE Teardown ------------------------------
(***************************************************************************)
(* What a finalizer-guarded owner promises about the objects it deploys:  *)
(* an abstract specification, with no controller, no Flux and no Cluster  *)
(* API in it.                                                              *)
(*                                                                         *)
(* The owner is live, being deleted, or gone.  While it is not gone, the  *)
(* objects it deployed (Dependents) may come into existence.  Once it is  *)
(* being deleted they are removed, each only after every dependent that   *)
(* Before says goes first, and the owner goes only once none is left.    *)
(* An owner with nothing deployed may go at once (no finalizer yet).      *)
(***************************************************************************)
CONSTANTS
    Dependents,  \* kinds of object the owner deploys
    Before       \* <<a, b>> \in Before: every a is gone before b is removed

VARIABLES
    phase,  \* "live", "deleting" or "gone"
    owned   \* the dependents that currently exist

avars == <<phase, owned>>

Phases == {"live", "deleting", "gone"}

TypeOK == phase \in Phases /\ owned \subseteq Dependents

Init == phase = "live" /\ owned = {}

\* Dependents are deployed; nothing is deployed for an owner that is gone.
Acquire ==
    /\ phase # "gone"
    /\ \E new \in (SUBSET Dependents) \ {{}} : owned' = owned \cup new
    /\ UNCHANGED phase

\* The owner's deletion is requested.
RequestDelete ==
    /\ phase = "live"
    /\ \/ phase' = "deleting"
       \/ owned = {} /\ phase' = "gone"
    /\ UNCHANGED owned

\* A dependent is removed once everything that must go before it is gone.
Remove(d) ==
    /\ phase = "deleting" /\ d \in owned
    /\ \A a \in Dependents : <<a, d>> \in Before => a \notin owned
    /\ owned' = owned \ {d}
    /\ UNCHANGED phase

\* The finalizer is removed once nothing deployed is left.
Finish ==
    /\ phase = "deleting" /\ owned = {}
    /\ phase' = "gone"
    /\ UNCHANGED owned

Next ==
    \/ Acquire \/ RequestDelete \/ Finish
    \/ \E d \in Dependents : Remove(d)

\* Deletion, once requested, is carried through.
Spec ==
    /\ Init /\ [][Next]_avars
    /\ \A d \in Dependents : WF_avars(Remove(d))
    /\ WF_avars(Finish)

====

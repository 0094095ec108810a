--------------------------- MODULE TemplateStatus ---------------------------
(***************************************************************************)
(* What a template's status promises its readers (the ManagedCluster and  *)
(* Management controllers): an abstract specification with no HelmChart,  *)
(* no artifact and no reconcile pass in it.                                *)
(*                                                                         *)
(* The template has a generation, and the chart its current spec names is *)
(* usable or not; both change under the user and the chart's publisher.   *)
(* The status is a judgement: every write records, at one instant, the    *)
(* generation and whether the chart is usable.  A stale judgement is      *)
(* eventually replaced.                                                    *)
(***************************************************************************)
EXTENDS Naturals

VARIABLES
    generation,  \* metadata.generation of the template
    usable,      \* the chart the current spec names downloads, parses, validates
    observed,    \* status.observedGeneration
    valid        \* status.valid

avars == <<generation, usable, observed, valid>>

Init ==
    /\ generation = 1 /\ usable \in BOOLEAN
    /\ observed = 0 /\ valid = FALSE

\* The spec is edited (a new generation) or the chart behind it changes.
Change ==
    /\ generation' \in {generation, generation + 1}
    /\ usable' \in BOOLEAN
    /\ UNCHANGED <<observed, valid>>

\* A status write: a snapshot of the present generation and usability.
Record ==
    /\ observed' = generation /\ valid' = usable
    /\ UNCHANGED <<generation, usable>>

Stale == observed # generation \/ valid # usable

Next == Change \/ Record

\* A stale status is eventually rewritten.
Spec == Init /\ [][Next]_avars /\ WF_avars(Record /\ Stale)

====

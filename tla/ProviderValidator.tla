-------------------------- MODULE ProviderValidator --------------------------
(***************************************************************************)
(* The e2e provider validator (test/e2e/clusterdeployment/                 *)
(* providervalidator.go).  NewProviderValidator builds, per template and   *)
(* action, the set of resource kinds to validate and the order to walk;    *)
(* Validate walks that order, skips kinds not in the set, stops at the     *)
(* first failing check and deletes each kind that passed, so it is never   *)
(* checked again.  Validate is polled by a Ginkgo Eventually block until   *)
(* it returns nil, while the cluster under test progresses.                *)
(***************************************************************************)
EXTENDS Sequences

CONSTANTS
    Templates   \* the templates under test (names of the Template constants)

Actions == {"deploy", "delete"}

\* The resource kinds of the deploy and delete validators.
DeployOrder == <<"clusters", "machines", "control-planes", "csi-driver">>
DeleteOrder == <<"clusters", "machinedeployments">>
SeqSet(s) == {s[i] : i \in DOMAIN s}
Kinds == SeqSet(DeployOrder) \cup SeqSet(DeleteOrder)
         \cup {"ccm", "aws-managed-control-planes", "sveltoscluster"}

VARIABLES
    toValidate,  \* p.resourcesToValidate: the kinds still to validate
    order,       \* p.resourceOrder
    passing,     \* the kinds whose check currently succeeds on the cluster
    result       \* the last Validate result: "none", "error" or "nil"

vars == <<toValidate, order, passing, result>>

TypeOK ==
    /\ toValidate \subseteq Kinds
    /\ order \in Seq(Kinds)
    /\ passing \subseteq Kinds
    /\ result \in {"none", "error", "nil"}

\* NewProviderValidator(template, clusterName, action).
NewProviderValidator(t, a) ==
    IF a = "deploy"
    THEN CASE t \in {"TemplateAWSStandaloneCP", "TemplateAWSHostedCP"} ->
                [map |-> SeqSet(DeployOrder) \cup {"ccm"}, order |-> Append(DeployOrder, "ccm")]
           [] t = "TemplateAWSEKS" ->
                [map |-> {"clusters", "machines", "aws-managed-control-planes", "csi-driver", "ccm"},
                 order |-> <<"clusters", "machines", "aws-managed-control-planes", "csi-driver", "ccm">>]
           [] t \in {"TemplateAzureStandaloneCP", "TemplateAzureHostedCP", "TemplateVSphereStandaloneCP"} ->
                [map |-> SeqSet(DeployOrder) \ {"csi-driver"}, order |-> DeployOrder]
           [] t = "TemplateAdoptedCluster" ->
                [map |-> {"sveltoscluster"}, order |-> DeployOrder]
           [] OTHER -> [map |-> SeqSet(DeployOrder), order |-> DeployOrder]
    ELSE LET extra == IF t = "TemplateAWSEKS" THEN "aws-managed-control-planes"
                      ELSE "control-planes"
         IN  [map |-> SeqSet(DeleteOrder) \cup {extra}, order |-> Append(DeleteOrder, extra)]

Init ==
    /\ \E t \in Templates, a \in Actions :
          /\ toValidate = NewProviderValidator(t, a).map
          /\ order = NewProviderValidator(t, a).order
    /\ passing = {}
    /\ result = "none"

\* The loop of Validate: a kind not in the map is skipped (continue), a
\* failing check returns its error, a passing one is deleted from the map.
RECURSIVE validateLoop(_, _)
validateLoop(ord, tv) ==
    IF ord = <<>> THEN [toValidate |-> tv, err |-> FALSE]
    ELSE LET n == Head(ord) IN
         IF n \notin tv THEN validateLoop(Tail(ord), tv)
         ELSE IF n \notin passing THEN [toValidate |-> tv, err |-> TRUE]
         ELSE validateLoop(Tail(ord), tv \ {n})

\* One poll of the Eventually block; it stops polling once Validate
\* returns nil.
Validate ==
    /\ result # "nil"
    /\ LET r == validateLoop(order, toValidate)
       IN  /\ toValidate' = r.toValidate
           /\ result' = IF r.err THEN "error" ELSE "nil"
    /\ UNCHANGED <<order, passing>>

\* The cluster under test progresses: one more kind's check passes.
Progress ==
    /\ \E n \in Kinds \ passing : passing' = passing \cup {n}
    /\ UNCHANGED <<toValidate, order, result>>

Next == Validate \/ Progress

Spec == Init /\ [][Next]_vars /\ WF_vars(Validate) /\ WF_vars(Progress)

-----------------------------------------------------------------------------
\* When Validate returns nil, the Eventually block passes: every kind the
\* validator was built to check for this template and action has passed
\* its check (none is left in resourcesToValidate).
ValidatedAll == result = "nil" => toValidate = {}

====

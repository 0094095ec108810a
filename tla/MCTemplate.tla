----------------------------- MODULE MCTemplate -----------------------------
(* Model-checking instance of Template.                                    *)
EXTENDS Template

\* Spec edits keep a well-formed chart locator.
MCLocatorsWellFormed == {"name", "ref"}
\* Spec edits may also write a chartRef of another kind or no locator.
MCLocatorsAll == LocatorForms

====

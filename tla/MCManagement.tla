---------------------------- MODULE MCManagement ----------------------------
(* Model-checking instance of Management: two provider templates.          *)
EXTENDS Management

CONSTANTS p1, p2

MCProviderNames == {p1, p2}

====

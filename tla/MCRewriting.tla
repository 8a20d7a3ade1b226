---------------------------- MODULE MCRewriting -----------------------------
(***************************************************************************)
(* Rewriting for TLC: every matcher there is on the namespace label over   *)
(* three namespaces, and two on another label.                             *)
(***************************************************************************)
EXTENDS Rewriting, TLC

CONSTANT other  \* a label that is not "namespace"

MCPool == {m \in LabelMatcher : m.name = namespaceMatchName}
            \cup [name : {other}, type : {"=", "!="}, value : {Blank}]

MCDropSets == {{}, {other}, {namespaceMatchName}}

\* The namespaces are interchangeable; "______" and "" are not.
Symmetry == Permutations(Namespace)

=============================================================================

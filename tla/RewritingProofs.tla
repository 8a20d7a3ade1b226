-------------------------- MODULE RewritingProofs ---------------------------
(***************************************************************************)
(* The properties of Rewriting hold for every set of labels, values and    *)
(* matchers and for lists of every length: the only inductive fact needed  *)
(* is what the lists are made of, the rest are the theorems of             *)
(* MatchersProofs.                                                         *)
(***************************************************************************)
EXTENDS Rewriting, MatchersProofs

\* What the rewriting is given: namespaces of the cluster and wire matchers.
InputOK == /\ namespaceSet \in SUBSET Namespace
           /\ matchers \in Seq(LabelMatcher)

LEMMA InputInvariant == Spec => []InputOK
<1>1. Init => InputOK
  BY DEF Init, InputOK
<1>2. InputOK /\ [Next]_vars => InputOK'
  BY PoolAssumption DEF InputOK, Next, AddMatcher, vars
<1> QED  BY <1>1, <1>2, PTL DEF Spec

\* FilterMatchers neither leaks a series from outside the tenant's namespaces
\* nor loses one from inside them, on every list of matchers.
THEOREM SelectorExactHolds == Spec => []SelectorExact
<1>1. InputOK => SelectorExact
  BY ParsedMatchers, FilterExact DEF InputOK, SelectorExact, Parsed, filtered
<1> QED  BY <1>1, InputInvariant, PTL

\* The second visit of a matrix selector's matchers changes nothing.
THEOREM VisitedTwiceHolds == Spec => []VisitedTwice
<1>1. InputOK => VisitedTwice
  BY ParsedMatchers, FilterIdempotent DEF InputOK, VisitedTwice, Parsed, filtered
<1> QED  BY <1>1, InputInvariant, PTL

\* modifyQuery confines every remote read that Prometheus can decode.
THEOREM ReadConfinedHolds == Spec => []ReadConfined
<1>1. InputOK => ReadConfined
  BY ModifyQueryConfined DEF InputOK, ReadConfined
<1> QED  BY <1>1, InputInvariant, PTL

\* The promlb and the prompb copy of the rewriting agree on every list.
THEOREM CopiesAgreeHolds == Spec => []CopiesAgree
<1>1. InputOK => CopiesAgree
  BY ParsedMatchers, FilterCopiesAgree DEF InputOK, CopiesAgree, Parsed, filtered
<1> QED  BY <1>1, InputInvariant, PTL

=============================================================================

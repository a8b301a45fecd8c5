----------------------------- MODULE MCBuilders ------------------------------
EXTENDS Builders

Symmetry == Permutations(Handles)

\* One character of each kind, and a text that does not fit into the handle.
e == <<"e1", "e2">>
BuildArgs == {<<"a">>, <<"A">> \o e, Sigma}
=============================================================================

------------------------------ MODULE MCScopes ------------------------------
(***************************************************************************)
(* Programs of fewer than MaxTokens reductions over two names of variables *)
(* and two of functions with up to one parameter.  Names as model values   *)
(* differ from those of the compiler's own symbols.                        *)
(***************************************************************************)
EXTENDS Scopes, TLC

CONSTANTS x, y, f1, f2

MCParameterLists == {<<>>, <<x>>, <<y>>}
MCTempName(k) == "temp" \o ToString(k)
Symmetric == Permutations({x, y}) \cup Permutations({f1, f2})
=============================================================================

----------------------------- MODULE MCScopeLinks -----------------------------
EXTENDS ScopeTraversal

CONSTANTS a, b, c, mounted, rolled

\* Scopes and kinds are interchangeable: no operation compares them but for
\* equality.
Interchangeable == Permutations(Scopes) \cup Permutations(Kinds)
=============================================================================

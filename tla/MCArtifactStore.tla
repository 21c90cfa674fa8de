--------------------------- MODULE MCArtifactStore ---------------------------
EXTENDS ArtifactStore

\* An upload and the removal of the same artifact: whoever writes on top of a
\* manifest that has changed since it was read undoes the other.
MCOperations == {<<"put", "a">>, <<"remove", "a">>}
=============================================================================

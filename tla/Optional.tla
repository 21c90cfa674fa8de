------------------------------ MODULE Optional -------------------------------
\* A value that may be absent: undefined, null, or a key that no map has.
CONSTANT NONE

Or(S) == S \cup {NONE}
=============================================================================

--------------------------- MODULE MCProjectRegistry ---------------------------
EXTENDS ProjectRegistry, TLC

CONSTANTS a, b, slug, suffixed, theB, other

\* One name becomes the id of a project, the other a slug of its own.
MCBase == theB :> b @@ other :> slug
MCSuffixed == theB :> {suffixed} @@ other :> {suffixed}
=============================================================================

------------------------- MODULE MCWorkItemsDocument -------------------------
EXTENDS WorkItemsDocument

CONSTANTS u1, u2, p1, S0

\* A story and a review that waits for it, as sample.ts has them, and a
\* feature request with two pieces of evidence and a sponsor.
Seeded(id, evidence) ==
  [id |-> id, request |-> evidence # <<>>, home |-> p1, title |-> "title0",
   status |-> "idea", decision |-> NONE,
   sponsor |-> IF evidence # <<>> THEN u1 ELSE NONE,
   evidence |-> evidence, revision |-> 1]

MCSeed == <<Seeded(S0, <<>>), Seeded(1, <<1, 2>>)>>

MCReviews == <<[story |-> S0, decision |-> NONE, completed |-> FALSE]>>

\* Dropped, or sent twice under one id.
MCEvidence == {<<>>, <<1, 1>>}
=============================================================================

---------------------------- MODULE ScopeTraversal ----------------------------
(***************************************************************************)
(* traverseScopeLinks() (agent/lib/scope-graph.ts), the breadth-first walk *)
(* along the links of one kind that the registry's search for a cycle, the *)
(* boards and the agent's reach use, and resolveCandidateScopeIds()        *)
(* (agent/lib/agent-reach-policy.ts), which repeats it over several kinds. *)
(* They are compared, on every graph the registry can come to hold, with   *)
(* what they promise in terms of chains of links.                          *)
(***************************************************************************)
EXTENDS ScopeLinks, SequencesExt

ASSUME TraversalAssumption ==
  IsFiniteSet(Scopes) /\ IsFiniteSet(Ids) /\ IsFiniteSet(Kinds)

Directions == {"subjects", "targets"}

Near(l, direction) == IF direction = "subjects" THEN l.target ELSE l.subject
Far(l, direction)  == IF direction = "subjects" THEN l.subject ELSE l.target

Before(l, m) == l.order < m.order \/ (l.order = m.order /\ l.id < m.id)

\* Mutant: links are sorted by id alone.
SortById(L) ==
  [k \in 1..Cardinality(L) |->
     CHOOSE l \in L : Cardinality({m \in L : m.id < l.id}) = k - 1]

\* sortScopeLinks(): each link after those that are before it.
SortScopeLinks(L) ==
  [k \in 1..Cardinality(L) |->
     CHOOSE l \in L : Cardinality({m \in L : Before(m, l)}) = k - 1]

\* The links by which the walk gets from a scope to those it has not seen: of
\* several to one scope the first counts, and the others find it seen.
Discovering(seen, scope, direction, L) ==
  LET out == {l \in L : Near(l, direction) = scope /\ Far(l, direction) \notin seen}
  IN {l \in out : \A m \in out : Before(m, l) => Far(m, direction) # Far(l, direction)}

\* The scopes of what was found.
ScopesOf(found) == {found[i].scope : i \in DOMAIN found}

\* Mutant: the depth is compared with > instead of >=.
ExpandTooFar(found, n, L, direction, maxDepth) ==
  IF n > Len(found) \/ found[n].depth > maxDepth THEN found
  ELSE LET next == SortScopeLinks(Discovering(ScopesOf(found), found[n].scope, direction, L))
       IN found \o [k \in DOMAIN next |->
                      [scope |-> Far(next[k], direction), depth |-> found[n].depth + 1]]

\* One turn of the loop.  The queue is what was found and not taken from it in
\* an earlier turn; its head is expanded unless it is maxDepth away.
Expand(found, n, L, direction, maxDepth) ==
  IF n > Len(found) \/ found[n].depth >= maxDepth THEN found
  ELSE LET next == SortScopeLinks(Discovering(ScopesOf(found), found[n].scope, direction, L))
       IN found \o [k \in DOMAIN next |->
                      [scope |-> Far(next[k], direction), depth |-> found[n].depth + 1]]

TraverseScopeLinks(root, kind, direction, maxDepth, L) ==
  LET matching == {l \in L : l.kind = kind}
      walk[n \in 0..Cardinality(Scopes)] ==
        IF n = 0 THEN <<[scope |-> root, depth |-> 0]>>
        ELSE Expand(walk[n - 1], n, matching, direction, maxDepth)
      found == walk[Cardinality(Scopes)]
  IN [i \in DOMAIN found |-> found[i].scope]

\* Infinity: no chain without a repetition is longer.
NoDepth == Cardinality(Scopes)

\* The scopes of a sequence that are not in the list are added to it.
Added(ids, s) ==
  LET added[k \in 0..Len(s)] ==
        IF k = 0 THEN ids
        ELSE LET list == added[k - 1]
             IN IF s[k] \in ToSet(list) THEN list ELSE Append(list, s[k])
  IN added[Len(s)]

\* A scope is expanded along each of the kinds.
Along(ids, root, kinds, L) ==
  LET along[k \in 0..Len(kinds)] ==
        IF k = 0 THEN ids
        ELSE Added(along[k - 1],
                   TraverseScopeLinks(root, kinds[k], "subjects", NoDepth, L))
  IN along[Len(kinds)]

\* Mutant: the scopes a link has added are not expanded in their turn.
CandidatesOfSeed(seed, kinds, L) == Along(seed, seed[1], kinds, L)

\* resolveCandidateScopeIds() of a policy of kind "scope": the home and its
\* eligible descendants, then every scope in turn is expanded along every
\* kind, the added ones included.
Candidates(seed, kinds, L) ==
  LET round[n \in 0..Cardinality(Scopes)] ==
        IF n = 0 THEN seed
        ELSE LET ids == round[n - 1]
             IN IF n <= Len(ids) THEN Along(ids, ids[n], kinds, L) ELSE ids
  IN round[Cardinality(Scopes)]

-----------------------------------------------------------------------------
\* Reference definitions.

\* The scopes at most so many links away.
Within(root, kind, direction, L) ==
  LET ball[n \in 0..NoDepth] ==
        IF n = 0 THEN {root}
        ELSE ball[n - 1] \cup {Far(l, direction) :
               l \in {m \in L : m.kind = kind /\ Near(m, direction) \in ball[n - 1]}}
  IN ball

Position(s, e) == CHOOSE i \in DOMAIN s : s[i] = e

\* The store is looked at between two operations.
Quiet == \A p \in Processes : doing[p] = NONE

\* The walk yields each scope that a chain of at most maxDepth links of the
\* kind leads to exactly once, the root first and the nearer before the
\* farther, and the search for a cycle that is built on it finds a chain of
\* any length.
TraversalIsReach ==
  Quiet => LET L == Listed(links) IN
    /\ \A root \in Scopes, kind \in Kinds, direction \in Directions :
         LET ball == Within(root, kind, direction, L)
         IN \A depth \in 0..NoDepth :
              LET found == TraverseScopeLinks(root, kind, direction, depth, L)
              IN /\ \A n \in 0..depth :
                      {found[i] : i \in 1..Cardinality(ball[n])} = ball[n]
                 /\ Len(found) = Cardinality(ball[depth])
    /\ \A s, t \in Scopes, kind \in Kinds :
         Reaches(t, s, kind, L)
           <=> Contains(TraverseScopeLinks(t, kind, "targets", NoDepth, L), s)

\* In a diamond the first occurrence wins: a scope stands where the earliest
\* scope that leads to it, and among that one's links the first in order,
\* puts it.
FirstOccurrenceWins ==
  Quiet => LET L == Listed(links) IN
    \A root \in Scopes, kind \in Kinds, direction \in Directions :
      LET found == TraverseScopeLinks(root, kind, direction, NoDepth, L)
          from(l) == Position(found, Near(l, direction))
          into(i) == {l \in L : l.kind = kind /\ Far(l, direction) = found[i]
                                /\ Near(l, direction) \in ToSet(found)}
          First(l, m) == from(l) < from(m) \/ (from(l) = from(m) /\ Before(l, m))
          entry(i) == CHOOSE l \in into(i) :
                        \A m \in into(i) \ {l} : First(l, m)
      IN \A i, j \in 2..Len(found) : i < j => First(entry(i), entry(j))

\* An agent's reach is closed: a scope that takes part, along any of the kinds
\* the policy names, in a scope of the reach belongs to it, and nothing else
\* does but the home and the descendants it was seeded with.
ReachIsClosed ==
  Quiet => LET L == Listed(links) IN
    \A home, child \in Scopes, kinds \in SUBSET Kinds :
      LET seed  == IF child = home THEN <<home>> ELSE <<home, child>>
          reach == ToSet(Candidates(seed, SetToSeq(kinds), L))
          Stable(C) == /\ {home, child} \subseteq C
                       /\ \A l \in L : l.kind \in kinds /\ l.target \in C
                                         => l.subject \in C
      IN Stable(reach) /\ \A C \in SUBSET Scopes : Stable(C) => reach \subseteq C
=============================================================================

--------------------------- MODULE ScopeLinksProofs ---------------------------
(***************************************************************************)
(* The registry keeps its graphs acyclic and its audit trail whole when    *)
(* one process writes links, for any number of scopes, kinds and links and *)
(* any number of deaths.  The walk over its graphs and the reach built on  *)
(* it are what they promise in terms of chains, whoever wrote the links.   *)
(***************************************************************************)
EXTENDS ScopeTraversal, FiniteSetTheorems, SequenceTheorems, TLAPS

\* One process writes.
Alone == \A p, q \in Processes : p = q

-----------------------------------------------------------------------------
\* The graph.

\* Every non-empty set of scopes has one from which no link of the kind stays
\* within the set.
NoCycle(kind, L) ==
  \A S \in SUBSET Scopes :
    S # {} => \E s \in S : \A l \in L :
      l.kind = kind /\ l.subject = s => l.target \notin S

\* A graph without some of its links has no cycle the graph has not.
LEMMA FewerLinks ==
  ASSUME NEW kind, NEW L, NEW M, M \subseteq L, NoCycle(kind, L)
  PROVE  NoCycle(kind, M)
BY DEF NoCycle

\* A link that passes the search for a cycle closes none.
LEMMA LinkThatClosesNone ==
  ASSUME NEW L, NEW new, new.subject \in Scopes, new.target \in Scopes,
         ~WouldCreateCycle(new, L),
         NEW kind, NoCycle(kind, L)
  PROVE  NoCycle(kind, L \cup {new})
<1>1. PICK C \in SUBSET Scopes :
        new.target \in C /\ Closed(C, new.kind, L) /\ new.subject \notin C
  BY DEF WouldCreateCycle, Reaches
<1>  SUFFICES ASSUME NEW S \in SUBSET Scopes, S # {}
               PROVE  \E s \in S : \A l \in L \cup {new} :
                        l.kind = kind /\ l.subject = s => l.target \notin S
  BY DEF NoCycle
<1>3. CASE new.kind # kind
  BY <1>3 DEF NoCycle
<1>4. CASE new.kind = kind /\ S \cap C # {}
  <2>1. PICK s \in S \cap C : \A l \in L :
          l.kind = kind /\ l.subject = s => l.target \notin S \cap C
    BY <1>4 DEF NoCycle
  <2>2. \A l \in L : l.kind = kind /\ l.subject = s => l.target \in C
    BY <1>1, <1>4 DEF Closed
  <2> QED BY <1>1, <2>1, <2>2
<1>5. CASE new.kind = kind /\ S \cap C = {}
  <2>1. new.target \notin S
    BY <1>1, <1>5
  <2>2. PICK s \in S : \A l \in L :
          l.kind = kind /\ l.subject = s => l.target \notin S
    BY DEF NoCycle
  <2> QED BY <2>1, <2>2
<1> QED BY <1>3, <1>4, <1>5

-----------------------------------------------------------------------------
\* The invariant.

\* A link is stored under its own id.
Keyed ==
  /\ \A i \in Ids : links[i] # NONE => links[i].id = i
  /\ \A p \in Processes : doing[p] # NONE =>
       LET c == doing[p].change
       IN /\ c.before # NONE => c.before.id = c.id
          /\ c.after # NONE => c.after.id = c.id

\* What was decided still holds when it is written.
Decided ==
  \A p \in Processes : doing[p] # NONE /\ doing[p].stage = "decided" =>
    LET c == doing[p].change
    IN /\ links[c.id] = c.before
       /\ c.after # NONE => ~WouldCreateCycle(c.after, Listed(links) \ {c.before})

Trail(i) == {r \in audit : r.id = i}

\* The trail is one chain that ends in the version v.
Chain(trail, v) ==
  /\ {r.before : r \in trail} \cup {v} = {NONE} \cup {r.after : r \in trail}
  /\ \A r, s \in trail : r # s => r.before # s.before /\ r.after # s.after

\* The versions the trail knows are no newer than v.
Newest(trail, v) ==
  v # NONE => \A r \in trail :
    /\ r.after # NONE /\ r.after.revision <= v.revision
    /\ r.before # NONE => r.before.revision < v.revision

\* A change that is decided or written follows the version it replaces.
Follows ==
  \A p \in Processes : doing[p] # NONE =>
    LET c == doing[p].change
    IN /\ c.id \in minted
       /\ c.before = NONE => c.after # NONE /\ Trail(c.id) = {}
       /\ c.before # NONE /\ c.after # NONE
            => c.after.revision = c.before.revision + 1
       /\ doing[p].stage = "written" => links[c.id] = c.after
       /\ c.id \notin lost => Chain(Trail(c.id), c.before) /\ Newest(Trail(c.id), c.before)

Trails ==
  /\ \A i \in Ids \ minted : links[i] = NONE /\ Trail(i) = {} /\ i \notin lost
  /\ \A i \in Ids \ (lost \cup InFlight) : Chain(Trail(i), links[i]) /\ Newest(Trail(i), links[i])

IInv == TypeOK /\ Acyclic /\ Keyed /\ Decided /\ Follows /\ Trails

LEMMA AcyclicIsNoCycle ==
  Acyclic <=> \A kind \in Kinds : NoCycle(kind, Listed(links))
BY DEF Acyclic, NoCycle

\* A store holds every link under its own id.
OwnIds(store) == \A j \in Ids : store[j] # NONE => store[j].id = j

Replaced(new, store, i, v) == new = [store EXCEPT ![i] = v]

\* The links of the store when one entry is replaced.
LEMMA ListedAfter ==
  ASSUME NEW store \in [Ids -> Version], NEW i \in Ids, NEW v \in Version,
         NEW new, Replaced(new, store, i, v),
         OwnIds(store), v = NONE \/ v.id = i
  PROVE  Listed(new) = (Listed(store) \ {store[i]}) \cup ({v} \ {NONE})
<1>1. \A j \in Ids : new[j] = IF j = i THEN v ELSE store[j]
  BY DEF Replaced
<1>2. \A j \in Ids : j # i /\ store[j] # NONE => store[j] # store[i]
  BY DEF OwnIds
<1>3. /\ Listed(new) = {new[j] : j \in Ids} \ {NONE}
      /\ Listed(store) = {store[j] : j \in Ids} \ {NONE}
  BY DEF Listed
<1>4. ASSUME NEW x \in Listed(new)
      PROVE  x \in (Listed(store) \ {store[i]}) \cup ({v} \ {NONE})
  BY <1>1, <1>2, <1>3, <1>4
<1>5. ASSUME NEW x \in (Listed(store) \ {store[i]}) \cup ({v} \ {NONE})
      PROVE  x \in Listed(new)
  BY <1>1, <1>2, <1>3, <1>5
<1> QED BY <1>4, <1>5

\* Only a write to a link changes the graph.
LEMMA SameGraph ==
  ASSUME links' = links
  PROVE  Acyclic => Acyclic'
<1>1. Listed(links') = Listed(links)
  OBVIOUS
<1> QED BY <1>1 DEF Acyclic

LEMMA TrailKept ==
  ASSUME audit' = audit
  PROVE  \A i : Trail(i)' = Trail(i)
BY DEF Trail

LEMMA Initially == Init => IInv
<1> SUFFICES ASSUME Init PROVE IInv
  OBVIOUS
<1>1. TypeOK
  BY LinkAssumption DEF Init, TypeOK, Version
<1>2. Listed(links) = {}
  BY DEF Init, Listed
<1>3. Acyclic
  BY <1>2 DEF Acyclic
<1>4. Keyed /\ Decided /\ Follows
  BY DEF Init, Keyed, Decided, Follows
<1>5. Trails
  BY DEF Init, Trails, Trail, Chain, Newest
<1> QED BY <1>1, <1>3, <1>4, <1>5 DEF IInv

-----------------------------------------------------------------------------
\* The steps.

\* A process decides: nothing is stored, and what it decided suits the store.
LEMMA Deciding ==
  ASSUME IInv, Alone, NEW p \in Processes, NEW c \in Change,
         doing[p] = NONE, Decide(p, c),
         UNCHANGED <<links, audit, lost, crashes>>,
         minted' = minted \cup {c.id},
         links[c.id] = c.before,
         c.before # NONE => c.before.id = c.id,
         c.after # NONE =>
           /\ c.after.id = c.id
           /\ ~WouldCreateCycle(c.after, Listed(links) \ {c.before}),
         c.before = NONE => c.after # NONE /\ c.id \notin minted,
         c.before # NONE /\ c.after # NONE
           => c.after.revision = c.before.revision + 1
  PROVE  IInv'
<1> DEFINE d == [stage |-> "decided", change |-> c]
<1>1. /\ \A q \in Processes : q = p
      /\ doing' = [doing EXCEPT ![p] = d]
      /\ doing \in [Processes -> Pending \cup {NONE}]
      /\ TypeOK /\ Acyclic /\ Keyed /\ Follows /\ Trails
  BY DEF Alone, Decide, TypeOK, IInv
<1>2. d \in Pending /\ d # NONE /\ d.stage = "decided" /\ d.change = c
  BY LinkAssumption DEF Pending
<1>3. \A q \in Processes : doing'[q] = d
  BY <1>1
<1> HIDE DEF d
<1>4. TypeOK'
  BY <1>1, <1>2 DEF TypeOK, Change
<1>0. links' = links /\ audit' = audit /\ lost' = lost
  OBVIOUS
<1>5. Acyclic'
  BY <1>0, <1>1, SameGraph
<1>6. Keyed'
  BY <1>1, <1>2, <1>3 DEF Keyed
<1>7. Decided'
  BY <1>2, <1>3 DEF Decided, Listed, WouldCreateCycle, Reaches, Closed
<1>8. InFlight = {} /\ InFlight' = {}
  BY <1>1, <1>2, <1>3 DEF InFlight
<1>9. Trails'
  BY <1>0, <1>1, <1>8, TrailKept DEF Trails
<1>10. Follows'
  <2>1. c.before = NONE => Trail(c.id) = {}
    BY <1>1 DEF Trails, Change
  <2>2. c.id \notin lost => Chain(Trail(c.id), c.before) /\ Newest(Trail(c.id), c.before)
    BY <1>1, <1>8 DEF Trails, Change
  <2> QED
    BY <1>0, <1>2, <1>3, <2>1, <2>2, TrailKept DEF Follows
<1> QED BY <1>4, <1>5, <1>6, <1>7, <1>9, <1>10 DEF IInv

LEMMA CreateLinkKeeps ==
  ASSUME IInv, Alone, NEW p \in Processes, CreateLink(p)
  PROVE  IInv'
<1>1. PICK l \in Link :
        /\ l.id \notin minted /\ ~WouldCreateCycle(l, Listed(links))
        /\ minted' = minted \cup {l.id}
        /\ Decide(p, [id |-> l.id, before |-> NONE, after |-> l])
        /\ doing[p] = NONE /\ UNCHANGED <<links, audit, lost, crashes>>
  BY DEF CreateLink
<1> DEFINE c == [id |-> l.id, before |-> NONE, after |-> l]
<1>2. c \in Change /\ l # NONE /\ l.id \in Ids
  BY LinkAssumption DEF Change, Version, Link
<1>3. links[l.id] = NONE
  BY <1>1, <1>2 DEF IInv, Trails
<1>4. Listed(links) \ {NONE} = Listed(links)
  BY DEF Listed
<1>5. c.id = l.id /\ c.before = NONE /\ c.after = l
  OBVIOUS
<1> HIDE DEF c
<1> QED BY <1>1, <1>2, <1>3, <1>4, <1>5, Deciding DEF c

LEMMA UpdateLinkKeeps ==
  ASSUME IInv, Alone, NEW p \in Processes, UpdateLink(p)
  PROVE  IInv'
<1>1. PICK i \in Ids, l \in Link :
        /\ links[i] # NONE /\ l.id = i /\ l.revision = links[i].revision + 1
        /\ ~WouldCreateCycle(l, Listed(links) \ {links[i]})
        /\ Decide(p, [id |-> i, before |-> links[i], after |-> l])
        /\ doing[p] = NONE /\ UNCHANGED <<links, audit, minted, lost, crashes>>
  BY DEF UpdateLink
<1> DEFINE c == [id |-> i, before |-> links[i], after |-> l]
<1>2. c \in Change
  BY DEF Change, Version, IInv, TypeOK
<1>3. i \in minted /\ links[i].id = i
  BY <1>1 DEF IInv, Trails, Keyed
<1>4. c.id = i /\ c.before = links[i] /\ c.after = l
  OBVIOUS
<1>5. minted' = minted \cup {i}
  BY <1>1, <1>3
<1> HIDE DEF c
<1> QED BY <1>1, <1>2, <1>3, <1>4, <1>5, Deciding DEF c

LEMMA RemoveLinkKeeps ==
  ASSUME IInv, Alone, NEW p \in Processes, RemoveLink(p)
  PROVE  IInv'
<1>1. PICK i \in Ids :
        /\ links[i] # NONE
        /\ Decide(p, [id |-> i, before |-> links[i], after |-> NONE])
        /\ doing[p] = NONE /\ UNCHANGED <<links, audit, minted, lost, crashes>>
  BY DEF RemoveLink
<1> DEFINE c == [id |-> i, before |-> links[i], after |-> NONE]
<1>2. c \in Change
  BY DEF Change, Version, IInv, TypeOK
<1>3. i \in minted /\ links[i].id = i
  BY <1>1 DEF IInv, Trails, Keyed
<1>4. c.id = i /\ c.before = links[i] /\ c.after = NONE
  OBVIOUS
<1>5. minted' = minted \cup {i}
  BY <1>1, <1>3
<1> HIDE DEF c
<1> QED BY <1>1, <1>2, <1>3, <1>4, <1>5, Deciding DEF c

\* The write: the graph gets the one link that was searched for cycles.
LEMMA WriteLinkKeeps ==
  ASSUME IInv, Alone, NEW p \in Processes, WriteLink(p)
  PROVE  IInv'
<1> DEFINE c == doing[p].change
           d == [doing[p] EXCEPT !.stage = "written"]
<1>1. /\ \A q \in Processes : q = p
      /\ doing[p] # NONE /\ doing[p].stage = "decided"
      /\ links' = [links EXCEPT ![c.id] = c.after]
      /\ doing' = [doing EXCEPT ![p] = d]
      /\ audit' = audit /\ minted' = minted /\ lost' = lost /\ crashes' = crashes
      /\ TypeOK /\ Acyclic /\ Keyed /\ Decided /\ Follows /\ Trails
  BY DEF Alone, WriteLink, IInv
<1>2. /\ doing[p] \in Pending /\ c \in Change /\ c.id \in Ids
      /\ c.before \in Version /\ c.after \in Version
  BY <1>1 DEF TypeOK, Pending, Change
<1>3. d \in Pending /\ d # NONE /\ d.stage = "written" /\ d.change = c
  BY <1>2, LinkAssumption DEF Pending
<1>4. \A q \in Processes : doing'[q] = d
  BY <1>1 DEF TypeOK
<1>5. /\ links[c.id] = c.before
      /\ c.after # NONE => ~WouldCreateCycle(c.after, Listed(links) \ {c.before})
      /\ c.before # NONE => c.before.id = c.id
      /\ c.after # NONE => c.after.id = c.id
  BY <1>1 DEF Decided, Keyed
<1>6. /\ c.id \in minted
      /\ c.before = NONE => c.after # NONE /\ Trail(c.id) = {}
      /\ c.before # NONE /\ c.after # NONE
           => c.after.revision = c.before.revision + 1
      /\ c.id \notin lost
           => Chain(Trail(c.id), c.before) /\ Newest(Trail(c.id), c.before)
  BY <1>1 DEF Follows
<1> HIDE DEF c, d
<1>7. /\ links'[c.id] = c.after
      /\ \A i \in Ids \ {c.id} : links'[i] = links[i]
      /\ links' \in [Ids -> Version]
  BY <1>1, <1>2 DEF TypeOK
<1>8. TypeOK'
  BY <1>1, <1>3, <1>7 DEF TypeOK
<1>9. Keyed'
  BY <1>1, <1>3, <1>4, <1>5, <1>7 DEF Keyed
<1>10. Acyclic'
  <2>1. Listed(links)' = (Listed(links) \ {c.before}) \cup ({c.after} \ {NONE})
    <3>1. links \in [Ids -> Version] /\ OwnIds(links)
      BY <1>1 DEF TypeOK, Keyed, OwnIds
    <3>2. c.id \in Ids /\ c.after \in Version /\ (c.after = NONE \/ c.after.id = c.id)
      BY <1>2, <1>5
    <3>3. Listed(links')
            = (Listed(links) \ {links[c.id]}) \cup ({c.after} \ {NONE})
      <4>1. Replaced(links', links, c.id, c.after)
        BY <1>1 DEF Replaced
      <4> QED BY <3>1, <3>2, <4>1, ListedAfter
    <3> QED BY <1>5, <3>3
  <2>2. \A kind \in Kinds : NoCycle(kind, Listed(links) \ {c.before})
    BY <1>1, AcyclicIsNoCycle, FewerLinks
  <2>3. SUFFICES ASSUME NEW kind \in Kinds PROVE NoCycle(kind, Listed(links)')
    BY DEF Acyclic, NoCycle
  <2>4. CASE c.after = NONE
    BY <2>1, <2>2, <2>4
  <2>5. CASE c.after # NONE
    <3>1. c.after.subject \in Scopes /\ c.after.target \in Scopes
      BY <1>2, <2>5 DEF Version, Link
    <3>2. NoCycle(kind, (Listed(links) \ {c.before}) \cup {c.after})
      BY <1>5, <2>2, <2>5, <3>1, LinkThatClosesNone
    <3> QED BY <2>1, <2>5, <3>2
  <2> QED BY <2>4, <2>5
<1>11. Decided'
  BY <1>3, <1>4 DEF Decided
<1>12. Follows'
  BY <1>1, <1>3, <1>4, <1>6, <1>7, TrailKept DEF Follows
<1>13. Trails'
  <2>1. InFlight = {} /\ InFlight' = {c.id}
    <3>1. \A q \in Processes : doing[q].stage # "written"
      BY <1>1
    <3>2. InFlight = {}
      BY <3>1 DEF InFlight
    <3>3. InFlight' = {doing'[q].change.id : q \in Processes}
      BY <1>3, <1>4 DEF InFlight
    <3> QED BY <1>3, <1>4, <3>2, <3>3
  <2> QED BY <1>1, <1>6, <1>7, <2>1, TrailKept DEF Trails
<1> QED BY <1>8, <1>9, <1>10, <1>11, <1>12, <1>13 DEF IInv

\* A trail that ended in the version a change replaced ends, with the record
\* of the change, in the version it made.
LEMMA LongerTrail ==
  ASSUME NEW trail \in SUBSET Change, NEW c \in Change,
         Chain(trail, c.before), Newest(trail, c.before),
         c.before = NONE => c.after # NONE /\ trail = {},
         c.before # NONE /\ c.after # NONE
           => c.after.revision = c.before.revision + 1
  PROVE  Chain(trail \cup {c}, c.after) /\ Newest(trail \cup {c}, c.after)
<1>1. /\ \A r \in trail \cup {c} : r.before \in Version /\ r.after \in Version
      /\ \A v \in Version : v # NONE => v.revision \in Nat
  BY LinkAssumption DEF Change, Version, Link
<1>2. /\ {r.before : r \in trail \cup {c}} = {r.before : r \in trail} \cup {c.before}
      /\ {r.after : r \in trail \cup {c}} = {r.after : r \in trail} \cup {c.after}
  OBVIOUS
<1>3. \A r \in trail : r.before # c.before /\ r.after # c.after
  <2>1. CASE c.before = NONE
    BY <2>1
  <2>2. CASE c.before # NONE
    <3> SUFFICES ASSUME NEW r \in trail
                 PROVE  r.before # c.before /\ r.after # c.after
      OBVIOUS
    <3>1. /\ r.after # NONE /\ r.after.revision <= c.before.revision
          /\ r.before # NONE => r.before.revision < c.before.revision
      BY <2>2 DEF Newest
    <3>2. r.before # c.before
      BY <1>1, <2>2, <3>1
    <3>3. r.after # c.after
      BY <1>1, <2>2, <3>1
    <3> QED BY <3>2, <3>3
  <2> QED BY <2>1, <2>2
<1>4. Chain(trail \cup {c}, c.after)
  BY <1>2, <1>3 DEF Chain
<1>5. Newest(trail \cup {c}, c.after)
  <2> SUFFICES ASSUME c.after # NONE, NEW r \in trail \cup {c}
               PROVE  /\ r.after # NONE /\ r.after.revision <= c.after.revision
                      /\ r.before # NONE => r.before.revision < c.after.revision
    BY DEF Newest
  <2>1. CASE r = c
    BY <1>1, <2>1
  <2>2. CASE r # c
    <3>1. /\ c.before # NONE
          /\ r.after # NONE /\ r.after.revision <= c.before.revision
          /\ r.before # NONE => r.before.revision < c.before.revision
      BY <2>2 DEF Newest
    <3> QED BY <1>1, <3>1
  <2> QED BY <2>1, <2>2
<1> QED BY <1>4, <1>5

LEMMA WriteAuditKeeps ==
  ASSUME IInv, Alone, NEW p \in Processes, WriteAudit(p)
  PROVE  IInv'
<1>0. doing[p] \in Pending
  BY DEF WriteAudit, IInv, TypeOK
<1>2. PICK c \in Change : c = doing[p].change /\ c.id \in Ids
  BY <1>0 DEF Pending, Change
<1>1. /\ \A q \in Processes : q = p
      /\ doing[p] # NONE /\ doing[p].stage = "written"
      /\ audit' = audit \cup {c}
      /\ doing' = [doing EXCEPT ![p] = NONE]
      /\ links' = links /\ minted' = minted /\ lost' = lost /\ crashes' = crashes
      /\ TypeOK /\ Acyclic /\ Keyed /\ Follows /\ Trails
  BY <1>2 DEF Alone, WriteAudit, IInv
<1>3. \A q \in Processes : doing'[q] = NONE
  BY <1>1 DEF TypeOK
<1>4. /\ c.id \in minted /\ links[c.id] = c.after
      /\ c.before = NONE => c.after # NONE /\ Trail(c.id) = {}
      /\ c.before # NONE /\ c.after # NONE
           => c.after.revision = c.before.revision + 1
      /\ c.id \notin lost
           => Chain(Trail(c.id), c.before) /\ Newest(Trail(c.id), c.before)
  BY <1>1, <1>2 DEF Follows
<1>5. InFlight = {c.id} /\ InFlight' = {}
  BY <1>1, <1>2, <1>3 DEF InFlight
<1>6. TypeOK'
  BY <1>1, <1>2 DEF TypeOK
<1>7. Acyclic'
  BY <1>1, SameGraph
<1>8. Keyed' /\ Decided' /\ Follows'
  BY <1>1, <1>3 DEF Keyed, Decided, Follows
<1>9. /\ Trail(c.id)' = Trail(c.id) \cup {c}
      /\ \A i : i # c.id => Trail(i)' = Trail(i)
  BY <1>1 DEF Trail
<1>10. Trails'
  <2>1. \A i \in Ids \ minted' : links'[i] = NONE /\ Trail(i)' = {} /\ i \notin lost'
    BY <1>1, <1>4, <1>9 DEF Trails
  <2>2. ASSUME NEW i \in Ids, i \notin lost
        PROVE  Chain(Trail(i)', links'[i]) /\ Newest(Trail(i)', links'[i])
    <3>1. CASE i = c.id
      <4>1. Trail(c.id) \in SUBSET Change
        BY <1>1 DEF Trail, TypeOK
      <4>2. /\ Chain(Trail(c.id) \cup {c}, c.after)
            /\ Newest(Trail(c.id) \cup {c}, c.after)
        BY <1>2, <1>4, <2>2, <3>1, <4>1, LongerTrail
      <4> QED BY <1>1, <1>4, <1>9, <3>1, <4>2
    <3>2. CASE i # c.id
      BY <1>1, <1>5, <1>9, <2>2, <3>2 DEF Trails
    <3> QED BY <3>1, <3>2
  <2> QED BY <1>1, <2>1, <2>2 DEF Trails
<1> QED BY <1>6, <1>7, <1>8, <1>10 DEF IInv

LEMMA CrashKeeps ==
  ASSUME IInv, Alone, NEW p \in Processes, Crash(p)
  PROVE  IInv'
<1>1. /\ \A q \in Processes : q = p
      /\ doing[p] # NONE /\ crashes < MaxCrashes /\ crashes' = crashes + 1
      /\ lost' = IF doing[p].stage = "written" THEN lost \cup {doing[p].change.id}
                                               ELSE lost
      /\ doing' = [doing EXCEPT ![p] = NONE]
      /\ links' = links /\ minted' = minted /\ audit' = audit
      /\ TypeOK /\ Acyclic /\ Keyed /\ Follows /\ Trails
  BY DEF Alone, Crash, IInv
<1>2. doing[p].change.id \in Ids /\ doing[p].change.id \in minted
  BY <1>1 DEF TypeOK, Pending, Change, Follows
<1>3. \A q \in Processes : doing'[q] = NONE
  BY <1>1 DEF TypeOK
<1>4. TypeOK'
  <2>1. crashes' \in 0..MaxCrashes
    BY <1>1, LinkAssumption DEF TypeOK
  <2>2. doing' \in [Processes -> Pending \cup {NONE}]
    BY <1>1 DEF TypeOK
  <2>3. lost' \subseteq Ids
    BY <1>1, <1>2 DEF TypeOK
  <2> QED BY <1>1, <2>1, <2>2, <2>3 DEF TypeOK
<1>5. Acyclic'
  BY <1>1, SameGraph
<1>6. Keyed' /\ Decided' /\ Follows'
  BY <1>1, <1>3 DEF Keyed, Decided, Follows
<1>7. Trails'
  <2>1. InFlight' = {}
    BY <1>3 DEF InFlight
  <2>2. InFlight = IF doing[p].stage = "written" THEN {doing[p].change.id} ELSE {}
    BY <1>1 DEF InFlight
  <2>3. Ids \ (lost \cup InFlight) = Ids \ (lost \cup InFlight)'
    BY <1>1, <2>1, <2>2
  <2> QED BY <1>1, <1>2, <2>3, TrailKept DEF Trails
<1> QED BY <1>4, <1>5, <1>6, <1>7 DEF IInv

LEMMA StutterKeeps ==
  ASSUME IInv, UNCHANGED vars
  PROVE  IInv'
<1>1. /\ links' = links /\ audit' = audit /\ doing' = doing
      /\ minted' = minted /\ lost' = lost /\ crashes' = crashes
      /\ TypeOK /\ Acyclic /\ Keyed /\ Decided /\ Follows /\ Trails
  BY DEF vars, IInv
<1>2. TypeOK' /\ Acyclic' /\ Keyed'
  BY <1>1, SameGraph DEF TypeOK, Keyed
<1>3. Decided'
  BY <1>1 DEF Decided
<1>4. Follows'
  BY <1>1, TrailKept DEF Follows
<1>5. InFlight' = InFlight
  BY <1>1 DEF InFlight
<1>6. Trails'
  BY <1>1, <1>5, TrailKept DEF Trails
<1> QED BY <1>2, <1>3, <1>4, <1>6 DEF IInv

-----------------------------------------------------------------------------
LEMMA Invariant ==
  ASSUME Alone
  PROVE  Spec => []IInv
<1>1. IInv /\ [Next]_vars => IInv'
  BY CreateLinkKeeps, UpdateLinkKeeps, RemoveLinkKeeps, WriteLinkKeeps,
     WriteAuditKeeps, CrashKeeps, StutterKeeps DEF Next, Step
<1> QED BY Initially, <1>1, PTL DEF Spec

\* Whatever links one process creates, changes, reorders and removes, over any
\* scopes and kinds, and wherever it dies, no links of one kind form a cycle.
THEOREM LinksStayAcyclic ==
  ASSUME Alone
  PROVE  Spec => []Acyclic
BY Invariant, PTL DEF IInv

\* The audit trail of every link replays to what the store holds, but for a
\* link whose record died with the process.
THEOREM AuditTrailReplays ==
  ASSUME Alone
  PROVE  Spec => []AuditReplays
<1>1. IInv => AuditReplays
  BY DEF IInv, Trails, Trail, Chain, AuditReplays
<1> QED BY <1>1, Invariant, PTL

-----------------------------------------------------------------------------
(***************************************************************************)
(* Induction and recursion over the natural numbers.                       *)
(***************************************************************************)
\* Going down one by one from a number outside the set would never end.
LEMMA NaturalsBelow ==
  ASSUME NEW S, 0 \in S, \A n \in Nat : n \in S => n + 1 \in S
  PROVE  Nat \subseteq S
<1> SUFFICES ASSUME NEW n \in Nat, n \notin S
             PROVE  FALSE
  OBVIOUS
<1> DEFINE T == {k \in 0..n : k \notin S}
           down == [k \in T |-> k - 1]
<1>1. IsFiniteSet(T) /\ n \in T
  <2>1. IsFiniteSet(0..n)
    BY FS_Interval
  <2> QED BY <2>1, FS_Subset
<1>2. down \in [T -> T \ {n}]
  <2>1. ASSUME NEW k \in T PROVE k - 1 \in T \ {n}
    OBVIOUS
  <2> QED BY <2>1
<1> HIDE DEF T
<1>3. /\ IsFiniteSet(T \ {n}) /\ Cardinality(T) \in Nat
      /\ Cardinality(T \ {n}) = Cardinality(T) - 1
  BY <1>1, FS_RemoveElement, FS_CardinalityType
<1>4. PICK i, j \in T : i # j /\ down[i] = down[j]
  <2> DEFINE U == T \ {n}
  <2>1. /\ IsFiniteSet(T) /\ IsFiniteSet(U) /\ Cardinality(U) < Cardinality(T)
        /\ down \in [T -> U]
    BY <1>1, <1>2, <1>3
  <2> HIDE DEF U, down
  <2> QED BY <2>1, FS_PigeonHole
<1>5. i \in Nat /\ j \in Nat
  BY DEF T
<1>6. down[i] = i - 1 /\ down[j] = j - 1
  OBVIOUS
<1> QED BY <1>4, <1>5, <1>6

\* A step that stays within a set can be repeated any number of times.
StaysIn(S, step, N) == \A n \in 1..N : \A s \in S : step[n][s] \in S

Repeats(r, start, step, N) ==
  r[0] = start /\ \A n \in 1..N : r[n] = step[n][r[n - 1]]

LEMMA RepeatedStep ==
  ASSUME NEW N \in Nat, NEW S, NEW start \in S, NEW step, StaysIn(S, step, N)
  PROVE  \E r \in [0..N -> S] : Repeats(r, start, step, N)
<1> DEFINE Run(m, r) == /\ r[0] = start
                        /\ \A n \in 1..m : r[n] = step[n][r[n - 1]]
           I == {m \in Nat : m <= N => \E r \in [0..m -> S] : Run(m, r)}
<1>1. 0 \in I
  <2> DEFINE r == [k \in 0..0 |-> start]
  <2>1. r \in [0..0 -> S] /\ Run(0, r)
    OBVIOUS
  <2> QED BY <2>1
<1>2. ASSUME NEW m \in Nat, m \in I
      PROVE  m + 1 \in I
  <2> SUFFICES ASSUME m + 1 <= N
               PROVE  \E q \in [0..(m + 1) -> S] : Run(m + 1, q)
    OBVIOUS
  <2>1. PICK r \in [0..m -> S] : Run(m, r)
    BY <1>2
  <2> DEFINE q == [k \in 0..(m + 1) |-> IF k <= m THEN r[k] ELSE step[m + 1][r[m]]]
  <2>2. step[m + 1][r[m]] \in S
    <3>1. m + 1 \in 1..N /\ r[m] \in S
      OBVIOUS
    <3> QED BY <3>1 DEF StaysIn
  <2>3. q \in [0..(m + 1) -> S]
    <3>1. ASSUME NEW k \in 0..(m + 1) PROVE q[k] \in S
      BY <2>2
    <3> QED BY <3>1
  <2>4. q[0] = start
    BY <2>1
  <2>5. ASSUME NEW n \in 1..(m + 1) PROVE q[n] = step[n][q[n - 1]]
    <3>1. q[n - 1] = r[n - 1]
      OBVIOUS
    <3>2. CASE n <= m
      <4>1. q[n] = r[n] /\ n \in 1..m
        BY <3>2
      <4> QED BY <2>1, <3>1, <4>1
    <3>3. CASE n = m + 1
      <4>1. q[n] = step[m + 1][r[m]] /\ n - 1 = m
        BY <3>3
      <4> QED BY <3>1, <3>3, <4>1
    <3> QED BY <3>2, <3>3
  <2> HIDE DEF q
  <2> QED BY <2>3, <2>4, <2>5
<1> HIDE DEF I
<1>3. N \in I
  BY <1>1, <1>2, NaturalsBelow
<1> QED BY <1>3 DEF I, Repeats

-----------------------------------------------------------------------------
(***************************************************************************)
(* The order of links.                                                     *)
(***************************************************************************)
\* Finitely many links, each with an id of its own.
Ordered(L) ==
  /\ IsFiniteSet(L)
  /\ \A l \in L : l.order \in Nat /\ l.id \in Nat
  /\ \A l, m \in L : l.id = m.id => l = m

LEMMA FewerOrdered ==
  ASSUME NEW L, NEW K \in SUBSET L, Ordered(L)
  PROVE  Ordered(K)
BY FS_Subset DEF Ordered

LEMMA BeforeIsAnOrder ==
  ASSUME NEW L, Ordered(L), NEW l \in L, NEW m \in L
  PROVE  /\ ~Before(l, l)
         /\ l = m \/ Before(l, m) \/ Before(m, l)
         /\ ~(Before(l, m) /\ Before(m, l))
         /\ \A k \in L : Before(l, m) /\ Before(m, k) => Before(l, k)
BY DEF Ordered, Before

\* Sorted links are the links, each once, each before those that follow.
LEMMA SortedLinks ==
  ASSUME NEW L, Ordered(L)
  PROVE  /\ Cardinality(L) \in Nat
         /\ SortScopeLinks(L) \in [1..Cardinality(L) -> L]
         /\ \A l \in L : \E k \in 1..Cardinality(L) : SortScopeLinks(L)[k] = l
         /\ \A i, j \in 1..Cardinality(L) :
              i < j => Before(SortScopeLinks(L)[i], SortScopeLinks(L)[j])
<1> DEFINE n == Cardinality(L)
           Less(l) == {m \in L : Before(m, l)}
           rank == [l \in L |-> Cardinality(Less(l))]
           sorted == SortScopeLinks(L)
<1>1. n \in Nat /\ IsFiniteSet(L)
  BY FS_CardinalityType DEF Ordered
<1>2. ASSUME NEW l \in L
      PROVE  rank[l] \in 0..(n - 1) /\ IsFiniteSet(Less(l)) /\ rank[l] = Cardinality(Less(l))
  <2>1. IsFiniteSet(L \ {l}) /\ Cardinality(L \ {l}) = n - 1
    BY <1>1, FS_RemoveElement
  <2>2. Less(l) \in SUBSET (L \ {l})
    BY BeforeIsAnOrder
  <2> HIDE DEF Less
  <2>3. IsFiniteSet(Less(l)) /\ Cardinality(Less(l)) <= n - 1
    BY <2>1, <2>2, FS_Subset
  <2>4. Cardinality(Less(l)) \in Nat
    BY <2>3, FS_CardinalityType
  <2> QED BY <1>1, <2>3, <2>4
<1>3. ASSUME NEW l \in L, NEW m \in L, Before(l, m)
      PROVE  rank[l] < rank[m]
  <2>1. l \in Less(m)
    BY <1>3
  <2>2. Less(l) \in SUBSET (Less(m) \ {l})
    BY <1>3, BeforeIsAnOrder
  <2>3. IsFiniteSet(Less(m)) /\ IsFiniteSet(Less(l))
    BY <1>2
  <2> HIDE DEF Less
  <2>4. IsFiniteSet(Less(m) \ {l}) /\ Cardinality(Less(m) \ {l}) = Cardinality(Less(m)) - 1
    BY <2>1, <2>3, FS_RemoveElement
  <2>5. Cardinality(Less(l)) <= Cardinality(Less(m) \ {l})
    BY <2>2, <2>4, FS_Subset
  <2>6. Cardinality(Less(m)) \in Nat /\ Cardinality(Less(l)) \in Nat
    BY <2>3, FS_CardinalityType
  <2> QED BY <2>4, <2>5, <2>6
<1>4. ASSUME NEW l \in L, NEW m \in L, rank[l] = rank[m]
      PROVE  l = m
  <2>1. l = m \/ Before(l, m) \/ Before(m, l)
    BY BeforeIsAnOrder
  <2>2. rank[l] \in Int /\ rank[m] \in Int
    BY <1>1, <1>2
  <2> HIDE DEF rank
  <2> QED BY <1>3, <1>4, <2>1, <2>2
<1>5. ASSUME NEW k \in 1..n PROVE \E l \in L : rank[l] = k - 1
  <2> DEFINE T == 0..(n - 1)
  <2>1. IsFiniteSet(T) /\ Cardinality(T) = n
    <3>1. 0 \in Int /\ n - 1 \in Int /\ (0 > n - 1 => n = 0)
      BY <1>1
    <3> HIDE DEF n
    <3> QED BY <1>1, <3>1, FS_Interval
  <2>2. rank \in Injection(L, T)
    <3>1. rank \in [L -> T]
      BY <1>2
    <3> QED BY <1>4, <3>1 DEF Injection, IsInjective
  <2> HIDE DEF rank, T
  <2>3. rank \in Surjection(L, T)
    BY <2>1, <2>2, FS_Injection
  <2>4. k - 1 \in T
    BY <1>1 DEF T
  <2> QED BY <2>3, <2>4 DEF Surjection
<1>6. ASSUME NEW k \in 1..n PROVE sorted[k] \in L /\ rank[sorted[k]] = k - 1
  <2>1. sorted[k] = CHOOSE l \in L : Cardinality(Less(l)) = k - 1
    BY DEF SortScopeLinks
  <2> HIDE DEF Less, rank, sorted
  <2>2. PICK l \in L : rank[l] = k - 1
    BY <1>5
  <2>3. Cardinality(Less(l)) = k - 1
    BY <1>2, <2>2
  <2>4. sorted[k] \in L /\ Cardinality(Less(sorted[k])) = k - 1
    BY <2>1, <2>3
  <2> QED BY <1>2, <2>4
<1>7. sorted \in [1..n -> L]
  <2> DEFINE G(k) == CHOOSE l \in L : Cardinality(Less(l)) = k - 1
  <2>1. sorted = [k \in 1..n |-> G(k)]
    BY DEF SortScopeLinks
  <2> HIDE DEF G, n
  <2> HIDE DEF sorted
  <2> QED BY <1>6, <2>1
<1>8. ASSUME NEW l \in L PROVE \E k \in 1..n : sorted[k] = l
  <2>1. rank[l] + 1 \in 1..n /\ (rank[l] + 1) - 1 = rank[l]
    BY <1>1, <1>2
  <2> HIDE DEF rank, sorted, n
  <2> QED BY <1>4, <1>6, <2>1
<1>9. ASSUME NEW i \in 1..n, NEW j \in 1..n, i < j
      PROVE  Before(sorted[i], sorted[j])
  <2> HIDE DEF rank, sorted
  <2>1. /\ sorted[i] \in L /\ rank[sorted[i]] = i - 1
        /\ sorted[j] \in L /\ rank[sorted[j]] = j - 1
    BY <1>6
  <2>2. sorted[i] # sorted[j] /\ ~Before(sorted[j], sorted[i])
    BY <1>1, <1>3, <1>9, <2>1
  <2> QED BY <2>1, <2>2, BeforeIsAnOrder
<1> QED BY <1>1, <1>7, <1>8, <1>9

\* Of some links one comes first.
LEMMA FirstLink ==
  ASSUME NEW L, Ordered(L), L # {}
  PROVE  \E l \in L : \A m \in L : m = l \/ Before(l, m)
<1> DEFINE s == SortScopeLinks(L)
<1>1. /\ Cardinality(L) \in Nat /\ s \in [1..Cardinality(L) -> L]
      /\ \A l \in L : \E k \in 1..Cardinality(L) : s[k] = l
      /\ \A i, j \in 1..Cardinality(L) : i < j => Before(s[i], s[j])
  BY SortedLinks
<1> HIDE DEF s
<1>2. 1 \in 1..Cardinality(L) /\ s[1] \in L
  BY <1>1
<1>3. ASSUME NEW m \in L PROVE m = s[1] \/ Before(s[1], m)
  <2>1. PICK k \in 1..Cardinality(L) : s[k] = m
    BY <1>1
  <2>2. k = 1 \/ 1 < k
    BY <1>1
  <2> QED BY <1>1, <1>2, <2>1, <2>2
<1> QED BY <1>2, <1>3

-----------------------------------------------------------------------------
(***************************************************************************)
(* One turn of the walk.                                                   *)
(***************************************************************************)
Found(S) == [scope : S, depth : Nat]

\* Where the links from a scope lead.
Nexts(scope, direction, M) ==
  {Far(l, direction) : l \in {m \in M : Near(m, direction) = scope}}

LEMMA DiscoveringFirsts ==
  ASSUME NEW M, Ordered(M), NEW direction, NEW seen, NEW scope
  PROVE  /\ Discovering(seen, scope, direction, M) \subseteq M
         /\ \A l \in Discovering(seen, scope, direction, M) :
              /\ Near(l, direction) = scope /\ Far(l, direction) \notin seen
              /\ \A m \in M : Near(m, direction) = scope
                                /\ Far(m, direction) = Far(l, direction)
                                => m = l \/ Before(l, m)
         /\ \A m \in M : Near(m, direction) = scope /\ Far(m, direction) \notin seen
              => \E l \in Discovering(seen, scope, direction, M) :
                   Far(l, direction) = Far(m, direction)
<1> DEFINE out == {l \in M : Near(l, direction) = scope /\ Far(l, direction) \notin seen}
           first == {l \in out : \A m \in out :
                       Before(m, l) => Far(m, direction) # Far(l, direction)}
<1>1. Discovering(seen, scope, direction, M) = first
  BY DEF Discovering
<1>2. ASSUME NEW l \in first, NEW m \in M, Near(m, direction) = scope,
             Far(m, direction) = Far(l, direction)
      PROVE  m = l \/ Before(l, m)
  BY <1>2, BeforeIsAnOrder
<1>3. ASSUME NEW m \in out
      PROVE  \E l \in first : Far(l, direction) = Far(m, direction)
  <2> DEFINE A == {l \in out : Far(l, direction) = Far(m, direction)}
  <2>1. A \in SUBSET M /\ A # {} /\ Ordered(A)
    <3>1. A \in SUBSET M /\ A # {}
      OBVIOUS
    <3> HIDE DEF A
    <3> QED BY <3>1, FewerOrdered
  <2>2. PICK l \in A : \A k \in A : k = l \/ Before(l, k)
    <3> HIDE DEF A
    <3> QED BY <2>1, FirstLink
  <2>3. ASSUME NEW k \in out, Before(k, l)
        PROVE  Far(k, direction) # Far(l, direction)
    BY <2>2, <2>3, BeforeIsAnOrder
  <2> QED BY <2>2, <2>3
<1> QED BY <1>1, <1>2, <1>3

\* The links that lead to what a turn adds, by position: one to each scope
\* that a link of the current scope leads to and that was not found, the first
\* of those that do, and in order.
Leads(e, w, found, n, direction, M) ==
  /\ \A j \in (Len(found) + 1)..Len(w) :
       /\ e[j] \in M
       /\ Near(e[j], direction) = found[n].scope
       /\ Far(e[j], direction) \notin ScopesOf(found)
       /\ w[j] = [scope |-> Far(e[j], direction), depth |-> found[n].depth + 1]
       /\ \A m \in M : Near(m, direction) = found[n].scope
                         /\ Far(m, direction) = w[j].scope
                         => m = e[j] \/ Before(e[j], m)
  /\ \A i, j \in (Len(found) + 1)..Len(w) : i < j => Before(e[i], e[j])
  /\ \A m \in M : Near(m, direction) = found[n].scope
                    /\ Far(m, direction) \notin ScopesOf(found)
       => \E j \in (Len(found) + 1)..Len(w) : w[j].scope = Far(m, direction)

LEMMA ExpandAdds ==
  ASSUME NEW M, Ordered(M), NEW direction, NEW S,
         \A l \in M : Far(l, direction) \in S,
         NEW found \in Seq(Found(S)), NEW n \in 1..Len(found), NEW maxDepth \in Nat,
         found[n].depth < maxDepth
  PROVE  LET w == Expand(found, n, M, direction, maxDepth)
         IN /\ w \in Seq(Found(S)) /\ Len(w) >= Len(found)
            /\ \A i \in 1..Len(found) : w[i] = found[i]
            /\ \E e : Leads(e, w, found, n, direction, M)
<1> DEFINE D == Discovering(ScopesOf(found), found[n].scope, direction, M)
           next == SortScopeLinks(D)
           c == Cardinality(D)
           block == [k \in DOMAIN next |->
                       [scope |-> Far(next[k], direction), depth |-> found[n].depth + 1]]
           w == found \o block
           e == [j \in (Len(found) + 1)..(Len(found) + c) |-> next[j - Len(found)]]
<1>0. Len(found) \in Nat /\ found[n] \in Found(S) /\ found[n].depth \in Nat
  <2>1. Len(found) \in Nat /\ found[n] \in Found(S)
    OBVIOUS
  <2> QED BY <2>1 DEF Found
<1>1. Expand(found, n, M, direction, maxDepth) = w
  <2>2. ~(n > Len(found)) /\ ~(found[n].depth >= maxDepth)
    BY <1>0
  <2> HIDE DEF D
  <2> QED BY <2>2 DEF Expand, D
<1>2. /\ D \subseteq M
      /\ \A l \in D :
              /\ Near(l, direction) = found[n].scope /\ Far(l, direction) \notin ScopesOf(found)
              /\ \A m \in M : Near(m, direction) = found[n].scope
                                /\ Far(m, direction) = Far(l, direction)
                                => m = l \/ Before(l, m)
      /\ \A m \in M : Near(m, direction) = found[n].scope /\ Far(m, direction) \notin ScopesOf(found)
              => \E l \in D : Far(l, direction) = Far(m, direction)
  BY DiscoveringFirsts
<1> HIDE DEF D
<1>3. /\ c \in Nat /\ next \in [1..c -> D]
      /\ \A l \in D : \E k \in 1..c : next[k] = l
      /\ \A i, j \in 1..c : i < j => Before(next[i], next[j])
  <2>1. Ordered(D)
    BY <1>2, FewerOrdered
  <2> QED BY <2>1, SortedLinks
<1> HIDE DEF next, c
<1>4. /\ block \in Seq(Found(S)) /\ Len(block) = c
      /\ \A k \in 1..c : block[k] = [scope |-> Far(next[k], direction),
                                     depth |-> found[n].depth + 1]
  <2>1. DOMAIN next = 1..c
    BY <1>3
  <2>2. found[n].depth + 1 \in Nat
    BY <1>0
  <2>3. \A k \in 1..c : next[k] \in M
    BY <1>2, <1>3
  <2>4. block \in [1..c -> Found(S)]
    BY <2>1, <2>2, <2>3 DEF Found
  <2>5. \A k \in 1..c : block[k] = [scope |-> Far(next[k], direction),
                                     depth |-> found[n].depth + 1]
    BY <2>1
  <2> HIDE DEF block
  <2> QED BY <1>3, <2>4, <2>5
<1> HIDE DEF block
<1>5. /\ w \in Seq(Found(S)) /\ Len(w) = Len(found) + c
      /\ \A i \in 1..Len(found) : w[i] = found[i]
      /\ \A j \in (Len(found) + 1)..(Len(found) + c) : w[j] = block[j - Len(found)]
  <2>1. /\ w \in Seq(Found(S)) /\ Len(w) = Len(found) + c
        /\ \A i \in 1..(Len(found) + c) :
             w[i] = IF i <= Len(found) THEN found[i] ELSE block[i - Len(found)]
    BY <1>4, ConcatProperties
  <2> HIDE DEF w
  <2> DEFINE m == Len(found)
  <2>2. m \in Nat /\ c \in Nat
    BY <1>0, <1>3
  <2> HIDE DEF m
  <2>3. \A i \in 1..m : i \in 1..(m + c) /\ i <= m
    BY <2>2
  <2>4. \A j \in (m + 1)..(m + c) : j \in 1..(m + c) /\ ~(j <= m)
    BY <2>2
  <2>5. \A i \in 1..m : w[i] = found[i]
    BY <2>1, <2>3 DEF m
  <2>6. \A j \in (m + 1)..(m + c) : w[j] = block[j - m]
    BY <2>1, <2>4 DEF m
  <2> QED BY <2>1, <2>5, <2>6 DEF m
<1>6. \A j \in (Len(found) + 1)..Len(w) :
        /\ j - Len(found) \in 1..c /\ e[j] = next[j - Len(found)] /\ e[j] \in D
        /\ w[j] = [scope |-> Far(e[j], direction), depth |-> found[n].depth + 1]
  BY <1>3, <1>4, <1>5
<1>7. \A i, j \in (Len(found) + 1)..Len(w) : i < j => Before(e[i], e[j])
  BY <1>3, <1>5, <1>6
<1>8. ASSUME NEW m \in M, Near(m, direction) = found[n].scope,
             Far(m, direction) \notin ScopesOf(found)
      PROVE  \E j \in (Len(found) + 1)..Len(w) : w[j].scope = Far(m, direction)
  <2>1. PICK l \in D : Far(l, direction) = Far(m, direction)
    BY <1>2, <1>8
  <2>2. PICK k \in 1..c : next[k] = l
    BY <1>3
  <2>3. Len(found) + k \in (Len(found) + 1)..Len(w)
        /\ w[Len(found) + k] = block[k]
    BY <1>3, <1>5
  <2> QED BY <1>4, <2>1, <2>2, <2>3
<1> HIDE DEF w, e
<1>9. Leads(e, w, found, n, direction, M)
  <2>1. ASSUME NEW j \in (Len(found) + 1)..Len(w)
        PROVE  /\ e[j] \in M
               /\ Near(e[j], direction) = found[n].scope
               /\ Far(e[j], direction) \notin ScopesOf(found)
               /\ w[j] = [scope |-> Far(e[j], direction), depth |-> found[n].depth + 1]
               /\ \A m \in M : Near(m, direction) = found[n].scope
                                 /\ Far(m, direction) = w[j].scope
                                 => m = e[j] \/ Before(e[j], m)
    <3>1. e[j] \in D /\ w[j] = [scope |-> Far(e[j], direction), depth |-> found[n].depth + 1]
      BY <1>6
    <3>2. w[j].scope = Far(e[j], direction)
      BY <3>1
    <3> QED BY <1>2, <3>1, <3>2
  <2> QED BY <1>7, <1>8, <2>1 DEF Leads
<1> QED BY <1>1, <1>3, <1>5, <1>9

-----------------------------------------------------------------------------
(***************************************************************************)
(* The walk after n turns.                                                 *)
(***************************************************************************)
\* What was found is without repetition, by increasing depth, and spans at most
\* two depths from the head of the queue on; what was expanded leads to nothing
\* that was not found.
Layered(w, n, root, direction, maxDepth, M) ==
  /\ Len(w) >= 1 /\ w[1] = [scope |-> root, depth |-> 0]
  /\ \A i, j \in 1..Len(w) :
       /\ i < j => w[i].scope # w[j].scope /\ w[i].depth <= w[j].depth
       /\ n < i => w[j].depth <= w[i].depth + 1
  /\ \A i \in 1..Len(w) : w[i].depth < i /\ w[i].depth <= maxDepth
  /\ \A i \in 1..Len(w) : i <= n /\ w[i].depth < maxDepth =>
       \A s \in Nexts(w[i].scope, direction, M) :
         \E j \in 1..Len(w) : w[j].scope = s /\ w[j].depth <= w[i].depth + 1

\* Each scope but the root was found from the place p[j] along the link e[j];
\* this is the earliest place and the first link that lead to it.
Placed(w, p, e, n, direction, M) ==
  \A j \in 2..Len(w) :
    /\ p[j] \in 1..n /\ p[j] < j /\ e[j] \in M
    /\ Near(e[j], direction) = w[p[j]].scope /\ Far(e[j], direction) = w[j].scope
    /\ w[j].depth = w[p[j]].depth + 1
    /\ \A q \in 1..Len(w) : \A m \in M :
         Near(m, direction) = w[q].scope /\ Far(m, direction) = w[j].scope
           => p[j] < q \/ (p[j] = q /\ (m = e[j] \/ Before(e[j], m)))
    /\ \A i \in 2..Len(w) : i < j =>
         p[i] < p[j] \/ (p[i] = p[j] /\ Before(e[i], e[j]))

WalkOK(w, n, root, direction, maxDepth, M) ==
  /\ Layered(w, n, root, direction, maxDepth, M)
  /\ \E p, e : Placed(w, p, e, n, direction, M)

LEMMA WalkStarts ==
  ASSUME NEW root, NEW direction, NEW maxDepth \in Nat, NEW M
  PROVE  WalkOK(<<[scope |-> root, depth |-> 0]>>, 0, root, direction, maxDepth, M)
<1> DEFINE w == <<[scope |-> root, depth |-> 0]>>
<1>1. Len(w) = 1 /\ w[1] = [scope |-> root, depth |-> 0]
      /\ w[1].depth = 0
  OBVIOUS
<1> HIDE DEF w
<1>2. \A i \in 1..Len(w) : i = 1
  BY <1>1
<1>3. Layered(w, 0, root, direction, maxDepth, M)
  BY <1>1, <1>2 DEF Layered
<1>4. Placed(w, 0, 0, 0, direction, M)
  BY <1>1 DEF Placed
<1>5. WalkOK(w, 0, root, direction, maxDepth, M)
  BY <1>3, <1>4 DEF WalkOK
<1> QED BY <1>5 DEF w

\* Places and depths of what was found.
LEMMA FoundTypes ==
  ASSUME NEW S, NEW w \in Seq(Found(S))
  PROVE  /\ Len(w) \in Nat /\ DOMAIN w = 1..Len(w)
         /\ \A i \in 1..Len(w) : w[i].scope \in S /\ w[i].depth \in Nat
<1>1. Len(w) \in Nat /\ DOMAIN w = 1..Len(w) /\ \A i \in 1..Len(w) : w[i] \in Found(S)
  OBVIOUS
<1> QED BY <1>1 DEF Found

LEMMA TurnAddsLayer ==
  ASSUME NEW S, NEW M, NEW root, NEW direction, NEW maxDepth \in Nat, NEW n \in Nat,
         NEW found \in Seq(Found(S)), NEW w \in Seq(Found(S)), NEW e,
         n + 1 <= Len(found), found[n + 1].depth < maxDepth,
         Layered(found, n, root, direction, maxDepth, M),
         Len(w) >= Len(found), \A i \in 1..Len(found) : w[i] = found[i],
         Ordered(M), Leads(e, w, found, n + 1, direction, M)
  PROVE  Layered(w, n + 1, root, direction, maxDepth, M)
<1> DEFINE d == found[n + 1].depth
           Old == 1..Len(found)
           New == (Len(found) + 1)..Len(w)
<1>1. /\ Len(found) \in Nat /\ Len(w) \in Nat /\ DOMAIN found = Old
      /\ \A i \in 1..Len(w) : w[i].scope \in S /\ w[i].depth \in Nat
      /\ \A i \in Old : found[i].depth \in Nat
  BY FoundTypes
<1>2. /\ n + 1 \in Old /\ d \in Nat
      /\ \A i \in 1..Len(w) : i \in Old \/ i \in New
      /\ \A i \in Old : i \in 1..Len(w) /\ w[i] = found[i]
  BY <1>1
<1>3. \A j \in New : /\ j \in 1..Len(w) /\ Len(found) < j
                     /\ w[j].scope = Far(e[j], direction) /\ w[j].depth = d + 1
                     /\ w[j].scope \notin ScopesOf(found)
  <2> TAKE j \in New
  <2>1. /\ w[j] = [scope |-> Far(e[j], direction), depth |-> d + 1]
        /\ Far(e[j], direction) \notin ScopesOf(found)
    BY DEF Leads
  <2>2. w[j].scope = Far(e[j], direction) /\ w[j].depth = d + 1
    BY <2>1
  <2> QED BY <1>1, <2>1, <2>2
<1>4. \A i \in Old : w[i].scope \in ScopesOf(found)
  BY <1>1, <1>2 DEF ScopesOf
<1>5. \A i \in Old : /\ w[i].depth <= d + 1
                     /\ n + 1 <= i => d <= w[i].depth
  BY <1>1, <1>2 DEF Layered
<1>6. Len(w) >= 1 /\ w[1] = [scope |-> root, depth |-> 0]
  BY <1>1, <1>2 DEF Layered
<1>7. ASSUME NEW i \in 1..Len(w), NEW j \in 1..Len(w), i < j
      PROVE  w[i].scope # w[j].scope /\ w[i].depth <= w[j].depth
  <2>1. CASE i \in Old /\ j \in Old
    BY <1>2, <1>7, <2>1 DEF Layered
  <2>2. CASE i \in Old /\ j \in New
    BY <1>1, <1>2, <1>3, <1>4, <1>5, <2>2
  <2>3. CASE i \in New /\ j \in Old
    BY <1>1, <1>7, <2>3
  <2>4. CASE i \in New /\ j \in New
    <3>1. Before(e[i], e[j]) /\ e[i] \in M /\ e[j] \in M
      BY <1>7, <2>4 DEF Leads
    <3>2. /\ Near(e[i], direction) = found[n + 1].scope
          /\ \A m \in M : Near(m, direction) = found[n + 1].scope
                            /\ Far(m, direction) = w[j].scope
                            => m = e[j] \/ Before(e[j], m)
      BY <2>4 DEF Leads
    <3>3. w[i].scope = Far(e[i], direction) /\ w[i].depth = d + 1 /\ w[j].depth = d + 1
      BY <1>3, <2>4
    <3>4. ~(e[i] = e[j]) /\ ~Before(e[j], e[i])
      BY <3>1, BeforeIsAnOrder
    <3> QED BY <1>2, <3>1, <3>2, <3>3, <3>4
  <2> QED BY <1>2, <2>1, <2>2, <2>3, <2>4
<1>8. ASSUME NEW i \in 1..Len(w), NEW j \in 1..Len(w), n + 1 < i
      PROVE  w[j].depth <= w[i].depth + 1
  <2>1. w[j].depth <= d + 1
    BY <1>2, <1>3, <1>5
  <2>2. d <= w[i].depth
    BY <1>2, <1>3, <1>5, <1>8
  <2> QED BY <1>1, <1>2, <2>1, <2>2
<1>9. ASSUME NEW i \in 1..Len(w)
      PROVE  w[i].depth < i /\ w[i].depth <= maxDepth
  <2>1. CASE i \in Old
    BY <1>2, <2>1 DEF Layered
  <2>2. CASE i \in New
    <3>1. d < n + 1
      BY <1>2 DEF Layered
    <3> QED BY <1>1, <1>2, <1>3, <2>2, <3>1
  <2> QED BY <1>2, <2>1, <2>2
<1>10. ASSUME NEW i \in 1..Len(w), i <= n + 1, w[i].depth < maxDepth,
              NEW s \in Nexts(w[i].scope, direction, M)
       PROVE  \E j \in 1..Len(w) : w[j].scope = s /\ w[j].depth <= w[i].depth + 1
  <2>1. i \in Old /\ w[i] = found[i]
    BY <1>1, <1>2, <1>10
  <2>2. CASE i <= n
    <3>1. PICK j \in Old : found[j].scope = s /\ found[j].depth <= found[i].depth + 1
      BY <1>10, <2>1, <2>2 DEF Layered
    <3> QED BY <1>2, <2>1, <3>1
  <2>3. CASE i = n + 1
    <3>1. PICK m \in M : Near(m, direction) = found[n + 1].scope /\ s = Far(m, direction)
      BY <1>10, <2>1, <2>3 DEF Nexts
    <3>2. CASE s \in ScopesOf(found)
      <4>1. PICK j \in Old : found[j].scope = s
        BY <1>1, <3>2 DEF ScopesOf
      <4> QED BY <1>2, <1>5, <2>1, <2>3, <4>1
    <3>3. CASE s \notin ScopesOf(found)
      <4>1. PICK j \in New : w[j].scope = s
        BY <3>1, <3>3 DEF Leads
      <4>2. w[j].depth = d + 1 /\ j \in 1..Len(w) /\ w[i].depth = d
        BY <1>3, <2>1, <2>3
      <4> QED BY <1>2, <4>1, <4>2
    <3> QED BY <3>2, <3>3
  <2> QED BY <1>1, <1>2, <1>10, <2>2, <2>3
<1> QED BY <1>6, <1>7, <1>8, <1>9, <1>10 DEF Layered

LEMMA TurnPlaces ==
  ASSUME NEW S, NEW M, NEW root, NEW direction, NEW maxDepth \in Nat, NEW n \in Nat,
         NEW found \in Seq(Found(S)), NEW w \in Seq(Found(S)), NEW e,
         n + 1 <= Len(found), found[n + 1].depth < maxDepth,
         Layered(found, n, root, direction, maxDepth, M),
         Len(w) >= Len(found), \A i \in 1..Len(found) : w[i] = found[i],
         Leads(e, w, found, n + 1, direction, M),
         NEW p, NEW f, Placed(found, p, f, n, direction, M)
  PROVE  \E q, g : Placed(w, q, g, n + 1, direction, M)
<1> DEFINE Old == 1..Len(found)
           New == (Len(found) + 1)..Len(w)
           q == [j \in 2..Len(w) |-> IF j <= Len(found) THEN p[j] ELSE n + 1]
           g == [j \in 2..Len(w) |-> IF j <= Len(found) THEN f[j] ELSE e[j]]
<1>1. /\ Len(found) \in Nat /\ Len(w) \in Nat /\ DOMAIN found = Old
      /\ \A i \in Old : found[i].depth \in Nat
  BY FoundTypes
<1>2. /\ n + 1 \in Old
      /\ \A j \in 2..Len(w) : j \in 2..Len(found) \/ (j \in New /\ j > n + 1)
      /\ \A j \in 1..Len(w) : j \in Old \/ j \in New
      /\ \A j \in Old : j \in 1..Len(w) /\ w[j] = found[j]
  BY <1>1
<1>3. ASSUME NEW j \in 2..Len(found)
      PROVE  q[j] = p[j] /\ g[j] = f[j] /\ p[j] \in 1..n /\ p[j] \in Old
             /\ j \in Old /\ j \in 2..Len(w)
  BY <1>1, <1>2 DEF Placed
<1>4. ASSUME NEW j \in New
      PROVE  q[j] = n + 1 /\ g[j] = e[j] /\ j \in 1..Len(w)
  BY <1>1, <1>2
<1> HIDE DEF q, g
<1>5. ASSUME NEW j \in New
      PROVE  /\ e[j] \in M /\ Near(e[j], direction) = found[n + 1].scope
             /\ Far(e[j], direction) \notin ScopesOf(found)
             /\ w[j].scope = Far(e[j], direction)
             /\ w[j].depth = found[n + 1].depth + 1
             /\ \A m \in M : Near(m, direction) = found[n + 1].scope
                               /\ Far(m, direction) = w[j].scope
                               => m = e[j] \/ Before(e[j], m)
  <2>1. w[j] = [scope |-> Far(e[j], direction), depth |-> found[n + 1].depth + 1]
    BY DEF Leads
  <2>2. w[j].scope = Far(e[j], direction) /\ w[j].depth = found[n + 1].depth + 1
    BY <2>1
  <2>3. /\ e[j] \in M /\ Near(e[j], direction) = found[n + 1].scope
        /\ Far(e[j], direction) \notin ScopesOf(found)
    BY DEF Leads
  <2>4. \A m \in M : Near(m, direction) = found[n + 1].scope
                       /\ Far(m, direction) = w[j].scope
                     => m = e[j] \/ Before(e[j], m)
    BY Zenon DEF Leads
  <2> QED BY <2>2, <2>3, <2>4
<1>6. ASSUME NEW j \in 2..Len(w)
      PROVE  /\ q[j] \in 1..(n + 1) /\ q[j] < j /\ g[j] \in M
             /\ Near(g[j], direction) = w[q[j]].scope /\ Far(g[j], direction) = w[j].scope
             /\ w[j].depth = w[q[j]].depth + 1
  <2>1. CASE j \in 2..Len(found)
    <3>1. /\ q[j] = p[j] /\ g[j] = f[j] /\ p[j] \in 1..n
          /\ w[j] = found[j] /\ w[p[j]] = found[p[j]]
      BY <1>2, <1>3, <2>1
    <3>2. /\ p[j] < j /\ f[j] \in M
          /\ Near(f[j], direction) = found[p[j]].scope
          /\ Far(f[j], direction) = found[j].scope
          /\ found[j].depth = found[p[j]].depth + 1
      BY <2>1, Zenon DEF Placed
    <3>3. q[j] \in 1..(n + 1) /\ q[j] < j
      BY <3>1, <3>2
    <3> QED BY <3>1, <3>2, <3>3
  <2>2. CASE j \in New
    <3>1. q[j] = n + 1 /\ g[j] = e[j] /\ j > n + 1
      BY <1>1, <1>4, <2>2
    <3>2. w[n + 1] = found[n + 1]
      BY <1>2
    <3>3. n + 1 \in 1..(n + 1)
      OBVIOUS
    <3> QED BY <1>5, <2>2, <3>1, <3>2, <3>3
  <2> QED BY <1>2, <2>1, <2>2
<1>7. ASSUME NEW j \in 2..Len(w), NEW k \in 1..Len(w), NEW m \in M,
             Near(m, direction) = w[k].scope, Far(m, direction) = w[j].scope
      PROVE  q[j] < k \/ (q[j] = k /\ (m = g[j] \/ Before(g[j], m)))
  <2>1. CASE j \in 2..Len(found) /\ k \in Old
    <3>1. Near(m, direction) = found[k].scope /\ Far(m, direction) = found[j].scope
      BY <1>2, <1>3, <1>7, <2>1
    <3>2. p[j] < k \/ (p[j] = k /\ (m = f[j] \/ Before(f[j], m)))
      BY <2>1, <3>1 DEF Placed
    <3> QED BY <1>3, <2>1, <3>2
  <2>2. CASE j \in 2..Len(found) /\ k \in New
    BY <1>1, <1>2, <1>3, <2>2
  <2>3. CASE j \in New /\ k \in Old /\ k <= n
    <3>1. found[k].depth < maxDepth
      <4>1. found[k].depth <= found[n + 1].depth
        BY <1>2, <2>3 DEF Layered
      <4> QED BY <1>1, <1>2, <2>3, <4>1
    <3>2. Far(m, direction) \in Nexts(found[k].scope, direction, M)
      BY <1>2, <1>7, <2>3 DEF Nexts
    <3>3. \E i \in Old : found[i].scope = Far(m, direction)
      BY <2>3, <3>1, <3>2 DEF Layered
    <3>4. Far(m, direction) \in ScopesOf(found)
      BY <1>1, <3>3 DEF ScopesOf
    <3> QED BY <1>5, <1>7, <2>3, <3>4
  <2>4. CASE j \in New /\ k = n + 1
    BY <1>2, <1>4, <1>5, <1>7, <2>4
  <2>5. CASE j \in New /\ k > n + 1
    BY <1>4, <2>5
  <2> QED BY <1>1, <1>2, <2>1, <2>2, <2>3, <2>4, <2>5
<1>8. ASSUME NEW j \in 2..Len(w), NEW i \in 2..Len(w), i < j
      PROVE  q[i] < q[j] \/ (q[i] = q[j] /\ Before(g[i], g[j]))
  <2>1. CASE j \in 2..Len(found)
    <3>1. i \in 2..Len(found)
      BY <1>1, <1>8, <2>1
    <3> QED BY <1>3, <1>8, <2>1, <3>1 DEF Placed
  <2>2. CASE i \in 2..Len(found) /\ j \in New
    BY <1>3, <1>4, <2>2
  <2>3. CASE i \in New /\ j \in New
    <3>1. Before(e[i], e[j])
      BY <1>8, <2>3 DEF Leads
    <3> QED BY <1>4, <2>3, <3>1
  <2> QED BY <1>2, <2>1, <2>2, <2>3
<1>9. Placed(w, q, g, n + 1, direction, M)
  BY <1>6, <1>7, <1>8 DEF Placed
<1> QED BY <1>9

\* One turn.
LEMMA TurnKeeps ==
  ASSUME NEW S, NEW M, Ordered(M), NEW root, NEW direction, NEW maxDepth \in Nat,
         NEW n \in Nat, \A l \in M : Far(l, direction) \in S,
         NEW found \in Seq(Found(S)), WalkOK(found, n, root, direction, maxDepth, M)
  PROVE  LET w == Expand(found, n + 1, M, direction, maxDepth)
         IN w \in Seq(Found(S)) /\ WalkOK(w, n + 1, root, direction, maxDepth, M)
<1> DEFINE w == Expand(found, n + 1, M, direction, maxDepth)
<1>1. /\ Len(found) \in Nat
      /\ \A i \in 1..Len(found) : found[i].depth \in Nat
  BY FoundTypes
<1>2. CASE n + 1 > Len(found) \/ found[n + 1].depth >= maxDepth
  <2>1. w = found
    BY <1>2 DEF Expand
  <2>2. Layered(found, n + 1, root, direction, maxDepth, M)
    <3>1. \A i \in 1..Len(found) : i <= n + 1 /\ found[i].depth < maxDepth => i <= n
      BY <1>1, <1>2
    <3>2. \A i \in 1..Len(found) : n + 1 < i => n < i
      OBVIOUS
    <3> QED BY <3>1, <3>2 DEF WalkOK, Layered
  <2>3. ASSUME NEW p, NEW e, Placed(found, p, e, n, direction, M)
        PROVE  Placed(found, p, e, n + 1, direction, M)
    <3>1. \A k \in 1..n : k \in 1..(n + 1)
      OBVIOUS
    <3> QED BY <2>3, <3>1 DEF Placed
  <2> QED BY <2>1, <2>2, <2>3 DEF WalkOK
<1>3. CASE n + 1 <= Len(found) /\ found[n + 1].depth < maxDepth
  <2>1. n + 1 \in 1..Len(found)
    BY <1>1, <1>3
  <2>2. /\ w \in Seq(Found(S)) /\ Len(w) >= Len(found)
        /\ \A i \in 1..Len(found) : w[i] = found[i]
        /\ \E e : Leads(e, w, found, n + 1, direction, M)
    BY <1>3, <2>1, ExpandAdds
  <2> HIDE DEF w
  <2>3. PICK e : Leads(e, w, found, n + 1, direction, M)
    BY <2>2
  <2>4. PICK p, f : Placed(found, p, f, n, direction, M)
    BY DEF WalkOK
  <2>5. Layered(found, n, root, direction, maxDepth, M)
    BY DEF WalkOK
  <2>6. Layered(w, n + 1, root, direction, maxDepth, M)
    BY <1>3, <2>2, <2>3, <2>5, TurnAddsLayer
  <2>7. \E q, g : Placed(w, q, g, n + 1, direction, M)
    BY <1>3, <2>2, <2>3, <2>4, <2>5, TurnPlaces
  <2> QED BY <2>2, <2>6, <2>7 DEF WalkOK, w
<1>4. n + 1 \in 1..Len(found) \/ n + 1 > Len(found)
  BY <1>1
<1> QED BY <1>1, <1>2, <1>3, <1>4

-----------------------------------------------------------------------------
(***************************************************************************)
(* The whole walk.                                                         *)
(***************************************************************************)
IsGraph(L) == Ordered(L) /\ \A l \in L : l.subject \in Scopes /\ l.target \in Scopes

Matching(L, kind) == {l \in L : l.kind = kind}

LEMMA MatchingGraph ==
  ASSUME NEW L, IsGraph(L), NEW kind, NEW direction
  PROVE  /\ Ordered(Matching(L, kind))
         /\ \A l \in Matching(L, kind) : /\ Far(l, direction) \in Scopes
                                         /\ Near(l, direction) \in Scopes
<1>1. Matching(L, kind) \in SUBSET L
  BY DEF Matching
<1>2. Ordered(Matching(L, kind))
  BY <1>1, FewerOrdered DEF IsGraph
<1> QED BY <1>1, <1>2 DEF IsGraph, Far, Near

LEMMA NoDepthType == NoDepth \in Nat /\ IsFiniteSet(Scopes)
BY TraversalAssumption, FS_CardinalityType DEF NoDepth

\* The state of the walk after each turn.
IsWalk(r, N, root, direction, maxDepth, M) ==
  r = [n \in 0..N |-> IF n = 0 THEN <<[scope |-> root, depth |-> 0]>>
                      ELSE Expand(r[n - 1], n, M, direction, maxDepth)]

LEMMA WalkExists ==
  ASSUME NEW S, NEW M, Ordered(M), NEW root \in S, NEW direction,
         NEW maxDepth \in Nat, NEW N \in Nat, \A l \in M : Far(l, direction) \in S
  PROVE  \E r : IsWalk(r, N, root, direction, maxDepth, M)
<1> DEFINE Q == Seq(Found(S))
           start == <<[scope |-> root, depth |-> 0]>>
           step == [n \in 1..N |-> [s \in Q |-> Expand(s, n, M, direction, maxDepth)]]
<1>1. start \in Q
  <2>1. [scope |-> root, depth |-> 0] \in Found(S)
    BY DEF Found
  <2> HIDE DEF start
  <2> QED BY <2>1 DEF start
<1>2. ASSUME NEW n \in 1..N, NEW s \in Q
      PROVE  Expand(s, n, M, direction, maxDepth) \in Q
  <2>1. CASE n > Len(s) \/ s[n].depth >= maxDepth
    BY <2>1 DEF Expand
  <2>2. CASE ~(n > Len(s) \/ s[n].depth >= maxDepth)
    <3>1. Len(s) \in Nat /\ n \in 1..Len(s)
      BY <2>2
    <3>2. s[n].depth < maxDepth
      BY <2>2, <3>1, FoundTypes
    <3> QED BY <3>1, <3>2, ExpandAdds
  <2> QED BY <2>1, <2>2
<1> HIDE DEF Q, start
<1>3. StaysIn(Q, step, N)
  BY <1>2 DEF StaysIn
<1>4. PICK r \in [0..N -> Q] : r[0] = start /\ \A n \in 1..N : r[n] = step[n][r[n - 1]]
  <2> HIDE DEF step
  <2>1. PICK r \in [0..N -> Q] : Repeats(r, start, step, N)
    BY <1>1, <1>3, RepeatedStep
  <2> QED BY <2>1 DEF Repeats
<1> DEFINE F(n) == IF n = 0 THEN start ELSE Expand(r[n - 1], n, M, direction, maxDepth)
<1>5. ASSUME NEW n \in 0..N PROVE r[n] = F(n)
  <2>1. CASE n = 0
    BY <1>4, <2>1
  <2>2. CASE n # 0
    <3>1. n \in 1..N /\ r[n - 1] \in Q
      BY <1>4, <2>2
    <3> QED BY <1>4, <2>2, <3>1
  <2> QED BY <2>1, <2>2
<1> HIDE DEF F
<1>6. r = [n \in 0..N |-> F(n)]
  BY <1>4, <1>5
<1> QED BY <1>6 DEF IsWalk, F, start

WalkSteps(r, N, root, direction, maxDepth, M) ==
  /\ r[0] = <<[scope |-> root, depth |-> 0]>>
  /\ \A n \in Nat : n + 1 \in 0..N =>
       r[n + 1] = Expand(r[n], n + 1, M, direction, maxDepth)

LEMMA WalkStep ==
  ASSUME NEW r, NEW N \in Nat, NEW root, NEW direction, NEW maxDepth, NEW M,
         IsWalk(r, N, root, direction, maxDepth, M)
  PROVE  WalkSteps(r, N, root, direction, maxDepth, M)
<1> DEFINE F(n) == IF n = 0 THEN <<[scope |-> root, depth |-> 0]>>
                   ELSE Expand(r[n - 1], n, M, direction, maxDepth)
<1>1. r = [n \in 0..N |-> F(n)]
  BY DEF IsWalk
<1>2. \A n \in 0..N : r[n] = F(n)
  <2> HIDE DEF F
  <2> QED BY <1>1
<1>3. r[0] = F(0)
  BY <1>2
<1>4. ASSUME NEW n \in Nat, n + 1 \in 0..N
      PROVE  r[n + 1] = Expand(r[n], n + 1, M, direction, maxDepth)
  <2>1. r[n + 1] = F(n + 1)
    BY <1>2, <1>4
  <2>2. (n + 1) - 1 = n /\ n + 1 # 0
    OBVIOUS
  <2> QED BY <2>1, <2>2
<1> QED BY <1>3, <1>4 DEF WalkSteps

\* After as many turns as there are scopes nothing is left in the queue.
LEMMA WalkEnds ==
  ASSUME NEW L, IsGraph(L), NEW root \in Scopes, NEW kind, NEW direction,
         NEW maxDepth \in Nat
  PROVE  \E w \in Seq(Found(Scopes)) :
           /\ WalkOK(w, NoDepth, root, direction, maxDepth, Matching(L, kind))
           /\ TraverseScopeLinks(root, kind, direction, maxDepth, L)
                = [i \in 1..Len(w) |-> w[i].scope]
<1> DEFINE M == Matching(L, kind)
           N == NoDepth
           R == CHOOSE r : IsWalk(r, N, root, direction, maxDepth, M)
           Q == Seq(Found(Scopes))
<1>1. Ordered(M) /\ (\A l \in M : Far(l, direction) \in Scopes) /\ N \in Nat
  BY MatchingGraph, NoDepthType
<1>2. TraverseScopeLinks(root, kind, direction, maxDepth, L)
        = [i \in DOMAIN R[N] |-> R[N][i].scope]
  BY DEF TraverseScopeLinks, IsWalk, Matching, NoDepth
<1> HIDE DEF M, N
<1>3. IsWalk(R, N, root, direction, maxDepth, M)
  BY <1>1, WalkExists
<1> HIDE DEF R
<1>4. /\ R[0] = <<[scope |-> root, depth |-> 0]>>
      /\ \A n \in Nat : n + 1 \in 0..N =>
              R[n + 1] = Expand(R[n], n + 1, M, direction, maxDepth)
  <2>1. WalkSteps(R, N, root, direction, maxDepth, M)
    BY <1>1, <1>3, WalkStep
  <2> QED BY <2>1 DEF WalkSteps
<1> DEFINE I == {n \in Nat : n \in 0..N =>
                   R[n] \in Q /\ WalkOK(R[n], n, root, direction, maxDepth, M)}
<1>5. 0 \in I
  <2>1. [scope |-> root, depth |-> 0] \in Found(Scopes)
    BY DEF Found
  <2>2. R[0] \in Q
    BY <1>4, <2>1
  <2> QED BY <1>4, <2>2, WalkStarts
<1>6. ASSUME NEW n \in Nat, n \in I
      PROVE  n + 1 \in I
  <2> SUFFICES ASSUME n + 1 \in 0..N
               PROVE  /\ R[n + 1] \in Q
                      /\ WalkOK(R[n + 1], n + 1, root, direction, maxDepth, M)
    OBVIOUS
  <2>1. R[n] \in Q /\ WalkOK(R[n], n, root, direction, maxDepth, M)
    <3>1. n \in 0..N
      BY <1>1
    <3> QED BY <1>6, <3>1
  <2> HIDE DEF I
  <2>2. /\ Expand(R[n], n + 1, M, direction, maxDepth) \in Q
        /\ WalkOK(Expand(R[n], n + 1, M, direction, maxDepth), n + 1,
                  root, direction, maxDepth, M)
    BY <1>1, <2>1, TurnKeeps
  <2> QED BY <1>4, <2>2
<1> HIDE DEF I
<1>7. N \in I
  BY <1>1, <1>5, <1>6, NaturalsBelow
<1>8. R[N] \in Q /\ WalkOK(R[N], N, root, direction, maxDepth, M)
  BY <1>1, <1>7 DEF I
<1>9. DOMAIN R[N] = 1..Len(R[N])
  BY <1>8
<1> QED BY <1>2, <1>8, <1>9 DEF M, N

-----------------------------------------------------------------------------
(***************************************************************************)
(* The walk and the scopes within a distance.                              *)
(***************************************************************************)
LEMMA CountedTo ==
  ASSUME NEW n \in Nat
  PROVE  IsFiniteSet(1..n) /\ Cardinality(1..n) = n
BY FS_Interval

LEMMA DistinctAreFew ==
  ASSUME NEW T, IsFiniteSet(T), NEW n \in Nat, NEW s \in [1..n -> T],
         \A i, j \in 1..n : i < j => s[i] # s[j]
  PROVE  n <= Cardinality(T)
<1>1. IsFiniteSet(1..n) /\ Cardinality(1..n) = n
  BY FS_Interval
<1>2. s \in Injection(1..n, T)
  BY DEF Injection, IsInjective
<1> QED BY <1>1, <1>2, FS_Injection

\* A set of places with every place before one of its own is a prefix.
LEMMA Prefix ==
  ASSUME NEW n \in Nat, NEW A \in SUBSET (1..n),
         \A i \in A : \A j \in 1..n : j < i => j \in A
  PROVE  Cardinality(A) \in 0..n /\ A = 1..Cardinality(A)
<1> DEFINE I == {k \in Nat : k <= n => (1..k) \subseteq A \/ \E j \in 0..k : A = 1..j}
<1>1. 0 \in I
  OBVIOUS
<1>2. ASSUME NEW k \in Nat, k \in I
      PROVE  k + 1 \in I
  <2> SUFFICES ASSUME k + 1 <= n
               PROVE  (1..(k + 1)) \subseteq A \/ \E j \in 0..(k + 1) : A = 1..j
    OBVIOUS
  <2>1. CASE \E j \in 0..k : A = 1..j
    BY <2>1
  <2>2. CASE (1..k) \subseteq A /\ k + 1 \in A
    BY <2>2
  <2>3. CASE (1..k) \subseteq A /\ k + 1 \notin A
    <3>1. \A i \in A : i <= k
      <4> TAKE i \in A
      <4>1. i \in 1..n /\ k + 1 \in 1..n
        OBVIOUS
      <4> QED BY <2>3, <4>1
    <3>2. \A i \in A : i \in 1..k
      BY <3>1
    <3>3. A = 1..k
      BY <2>3, <3>2
    <3> QED BY <3>3
  <2> QED BY <1>2, <2>1, <2>2, <2>3
<1> HIDE DEF I
<1>3. n \in I
  BY <1>1, <1>2, NaturalsBelow
<1>4. PICK j \in 0..n : A = 1..j
  <2>1. (1..n) \subseteq A \/ \E j \in 0..n : A = 1..j
    BY <1>3 DEF I
  <2>2. (1..n) \subseteq A => A = 1..n
    OBVIOUS
  <2>3. n \in 0..n
    OBVIOUS
  <2> QED BY <2>1, <2>2, <2>3
<1>5. Cardinality(1..j) = j
  BY FS_Interval
<1> QED BY <1>4, <1>5

LEMMA BallSteps ==
  ASSUME NEW L, IsGraph(L), NEW root \in Scopes, NEW kind, NEW direction
  PROVE  LET ball == Within(root, kind, direction, L)
         IN /\ ball[0] = {root}
            /\ \A n \in Nat : n + 1 \in 0..NoDepth =>
                 ball[n + 1] = ball[n] \cup
                   {Far(l, direction) : l \in {m \in Matching(L, kind) :
                                                 Near(m, direction) \in ball[n]}}
<1> DEFINE N == NoDepth
           M == Matching(L, kind)
           From(C) == {Far(l, direction) : l \in {m \in M : Near(m, direction) \in C}}
           Ball(r, n) == IF n = 0 THEN {root} ELSE r[n - 1] \cup From(r[n - 1])
           IsBall(r) == r = [n \in 0..N |-> Ball(r, n)]
           R == CHOOSE r : IsBall(r)
<1>1. N \in Nat /\ \A l \in M : Far(l, direction) \in Scopes
  BY MatchingGraph, NoDepthType
<1>2. Within(root, kind, direction, L) = R
  <2>1. \A C : From(C) = {Far(l, direction) :
               l \in {m \in L : m.kind = kind /\ Near(m, direction) \in C}}
    BY DEF Matching
  <2>2. ASSUME NEW r
        PROVE  IsBall(r) <=>
          r = [n \in 0..NoDepth |->
                 IF n = 0 THEN {root}
                 ELSE r[n - 1] \cup {Far(l, direction) :
                        l \in {m \in L : m.kind = kind /\ Near(m, direction) \in r[n - 1]}}]
    <3> HIDE DEF From
    <3> QED BY <2>1
  <2> QED BY <2>2 DEF Within
<1>3. \E r : IsBall(r)
  <2> DEFINE step == [n \in 1..N |-> [C \in SUBSET Scopes |-> C \cup From(C)]]
  <2>1. StaysIn(SUBSET Scopes, step, N)
    BY <1>1 DEF StaysIn
  <2>2. PICK r \in [0..N -> SUBSET Scopes] :
          r[0] = {root} /\ \A n \in 1..N : r[n] = step[n][r[n - 1]]
    <3>1. {root} \in SUBSET Scopes
      OBVIOUS
    <3> HIDE DEF step, N
    <3>2. PICK r \in [0..N -> SUBSET Scopes] : Repeats(r, {root}, step, N)
      BY <1>1, <2>1, <3>1, RepeatedStep
    <3> QED BY <3>2 DEF Repeats
  <2>3. ASSUME NEW n \in 0..N PROVE r[n] = Ball(r, n)
    <3> HIDE DEF From
    <3>1. n # 0 => n \in 1..N /\ r[n - 1] \in SUBSET Scopes
      BY <1>1
    <3> QED BY <2>2, <3>1
  <2> HIDE DEF Ball
  <2> QED BY <2>2, <2>3
<1>4. IsBall(R)
  <2> HIDE DEF IsBall
  <2> QED BY <1>3
<1> HIDE DEF R
<1>5. \A n \in 0..N : R[n] = Ball(R, n)
  <2> HIDE DEF Ball, N
  <2> QED BY <1>4
<1>6. R[0] = {root}
  <2>1. R[0] = Ball(R, 0)
    <3> HIDE DEF Ball, N
    <3> QED BY <1>1, <1>5
  <2> QED BY <2>1
<1>7. ASSUME NEW n \in Nat, n + 1 \in 0..N PROVE R[n + 1] = R[n] \cup From(R[n])
  <2>1. R[n + 1] = Ball(R, n + 1) /\ (n + 1) - 1 = n /\ n + 1 # 0
    <3> HIDE DEF Ball
    <3> QED BY <1>5, <1>7
  <2> HIDE DEF From
  <2> QED BY <2>1
<1> QED BY <1>2, <1>6, <1>7

\* What was found at most so deep is what is within that distance.
LEMMA Layers ==
  ASSUME NEW L, IsGraph(L), NEW root \in Scopes, NEW kind, NEW direction,
         NEW maxDepth \in 0..NoDepth, NEW w \in Seq(Found(Scopes)),
         WalkOK(w, NoDepth, root, direction, maxDepth, Matching(L, kind))
  PROVE  /\ Len(w) <= NoDepth
         /\ \A d \in 0..maxDepth : Within(root, kind, direction, L)[d]
              = {w[i].scope : i \in {k \in 1..Len(w) : w[k].depth <= d}}
<1> DEFINE M == Matching(L, kind)
           N == NoDepth
           ball == Within(root, kind, direction, L)
           Layer(d) == {w[i].scope : i \in {k \in 1..Len(w) : w[k].depth <= d}}
<1>1. /\ Len(w) \in Nat /\ N \in Nat /\ IsFiniteSet(Scopes) /\ maxDepth \in Nat
      /\ \A i \in 1..Len(w) : w[i].scope \in Scopes /\ w[i].depth \in Nat
  BY FoundTypes, NoDepthType
<1>2. Layered(w, N, root, direction, maxDepth, M)
  BY DEF WalkOK
<1>3. PICK p, e : Placed(w, p, e, N, direction, M)
  BY DEF WalkOK
<1>4. Len(w) <= N
  <2> DEFINE s == [i \in 1..Len(w) |-> w[i].scope]
  <2>1. s \in [1..Len(w) -> Scopes]
    BY <1>1
  <2>2. \A i, j \in 1..Len(w) : i < j => s[i] # s[j]
    BY <1>2 DEF Layered
  <2> HIDE DEF s
  <2> QED BY <1>1, <2>1, <2>2, DistinctAreFew DEF NoDepth
<1>5. /\ ball[0] = {root}
      /\ \A n \in Nat : n + 1 \in 0..N =>
           ball[n + 1] = ball[n] \cup
             {Far(l, direction) : l \in {m \in M : Near(m, direction) \in ball[n]}}
  BY BallSteps
<1> HIDE DEF M, N, ball
<1> DEFINE I == {d \in Nat : d <= maxDepth => ball[d] = Layer(d)}
<1>6. 0 \in I
  <2>1. 1 \in 1..Len(w) /\ w[1].scope = root /\ w[1].depth = 0
    BY <1>1, <1>2 DEF Layered
  <2>2. ASSUME NEW i \in 1..Len(w), w[i].depth <= 0
        PROVE  i = 1
    <3>1. CASE i \in 2..Len(w)
      <4>1. p[i] \in 1..Len(w) /\ w[i].depth = w[p[i]].depth + 1
        BY <1>1, <1>3, <3>1 DEF Placed
      <4> QED BY <1>1, <2>2, <4>1
    <3> QED BY <1>1, <3>1
  <2>3. Layer(0) = {root}
    BY <2>1, <2>2
  <2> QED BY <1>5, <2>3
<1>7. ASSUME NEW d \in Nat, d \in I
      PROVE  d + 1 \in I
  <2> SUFFICES ASSUME d + 1 <= maxDepth PROVE ball[d + 1] = Layer(d + 1)
    OBVIOUS
  <2>1. ball[d] = Layer(d)
    BY <1>1, <1>7
  <2>2. ball[d + 1] = Layer(d) \cup
          {Far(l, direction) : l \in {m \in M : Near(m, direction) \in Layer(d)}}
    <3>1. d + 1 \in 0..N
      BY <1>1 DEF N
    <3> HIDE DEF Layer
    <3> QED BY <1>5, <2>1, <3>1
  <2>3. ASSUME NEW l \in M, Near(l, direction) \in Layer(d)
        PROVE  Far(l, direction) \in Layer(d + 1)
    <3>1. PICK i \in 1..Len(w) : w[i].depth <= d /\ Near(l, direction) = w[i].scope
      BY <2>3
    <3>2. Far(l, direction) \in Nexts(w[i].scope, direction, M)
      BY <3>1 DEF Nexts
    <3>3. i <= N /\ w[i].depth < maxDepth
      BY <1>1, <1>4, <3>1
    <3>4. PICK j \in 1..Len(w) : w[j].scope = Far(l, direction)
                                 /\ w[j].depth <= w[i].depth + 1
      BY <1>2, <3>2, <3>3 DEF Layered
    <3>5. w[j].depth <= d + 1
      BY <1>1, <3>1, <3>4
    <3> QED BY <3>4, <3>5
  <2>4. ASSUME NEW i \in 1..Len(w), w[i].depth <= d + 1
        PROVE  \/ w[i].scope \in Layer(d)
               \/ \E l \in M : Near(l, direction) \in Layer(d)
                               /\ Far(l, direction) = w[i].scope
    <3>1. CASE w[i].depth <= d
      BY <3>1
    <3>2. CASE w[i].depth = d + 1
      <4>1. i \in 2..Len(w)
        BY <1>1, <1>2, <3>2 DEF Layered
      <4>2. /\ p[i] \in 1..Len(w) /\ w[i].depth = w[p[i]].depth + 1 /\ e[i] \in M
            /\ Near(e[i], direction) = w[p[i]].scope
            /\ Far(e[i], direction) = w[i].scope
        BY <1>1, <1>3, <4>1 DEF Placed
      <4>3. w[p[i]].depth <= d
        BY <1>1, <3>2, <4>2
      <4> QED BY <4>2, <4>3
    <3> QED BY <1>1, <2>4, <3>1, <3>2
  <2>5. ASSUME NEW x \in Layer(d) PROVE x \in Layer(d + 1)
    <3>1. PICK i \in 1..Len(w) : w[i].depth <= d /\ x = w[i].scope
      BY <2>5
    <3>2. w[i].depth <= d + 1
      BY <1>1, <3>1
    <3> QED BY <3>1, <3>2
  <2>6. ASSUME NEW x \in Layer(d + 1) PROVE x \in ball[d + 1]
    <3>1. PICK i \in 1..Len(w) : w[i].depth <= d + 1 /\ x = w[i].scope
      BY <2>6
    <3> HIDE DEF Layer
    <3> QED BY <2>2, <2>4, <3>1
  <2> HIDE DEF Layer
  <2> QED BY <2>2, <2>3, <2>5, <2>6
<1> HIDE DEF I
<1>8. Nat \subseteq I
  BY <1>6, <1>7, NaturalsBelow
<1>9. \A d \in 0..maxDepth : ball[d] = Layer(d)
  BY <1>1, <1>8 DEF I
<1> QED BY <1>4, <1>9 DEF ball, N

LEMMA NearerFirst ==
  ASSUME NEW L, IsGraph(L), NEW root \in Scopes, NEW kind, NEW direction,
         NEW depth \in 0..NoDepth
  PROVE  LET ball == Within(root, kind, direction, L)
             found == TraverseScopeLinks(root, kind, direction, depth, L)
         IN /\ \A n \in 0..depth : {found[i] : i \in 1..Cardinality(ball[n])} = ball[n]
            /\ Len(found) = Cardinality(ball[depth])
<1> DEFINE M == Matching(L, kind)
           ball == Within(root, kind, direction, L)
           found == TraverseScopeLinks(root, kind, direction, depth, L)
<1>0. depth \in Nat
  BY NoDepthType
<1>1. PICK w \in Seq(Found(Scopes)) :
        /\ WalkOK(w, NoDepth, root, direction, depth, M)
        /\ found = [i \in 1..Len(w) |-> w[i].scope]
  BY <1>0, WalkEnds
<1>2. /\ Len(w) \in Nat
      /\ \A i \in 1..Len(w) : w[i].scope \in Scopes /\ w[i].depth \in Nat
  BY FoundTypes
<1>3. \A d \in 0..depth : ball[d] = {w[i].scope : i \in {k \in 1..Len(w) : w[k].depth <= d}}
  BY <1>1, Layers
<1>4. /\ \A i, j \in 1..Len(w) : i < j => w[i].scope # w[j].scope /\ w[i].depth <= w[j].depth
      /\ \A i \in 1..Len(w) : w[i].depth <= depth
  BY <1>1 DEF WalkOK, Layered
<1>5. Len(found) = Len(w) /\ \A i \in 1..Len(w) : found[i] = w[i].scope
  BY <1>1, <1>2
<1> HIDE DEF ball, found
<1>6. ASSUME NEW n \in 0..depth
      PROVE  /\ Cardinality(ball[n]) = Cardinality({k \in 1..Len(w) : w[k].depth <= n})
             /\ {found[i] : i \in 1..Cardinality(ball[n])} = ball[n]
  <2> DEFINE A == {k \in 1..Len(w) : w[k].depth <= n}
             m == Cardinality(A)
  <2>1. A \in SUBSET (1..Len(w)) /\ \A i \in A : \A j \in 1..Len(w) : j < i => j \in A
    <3>1. ASSUME NEW i \in A, NEW j \in 1..Len(w), j < i PROVE w[j].depth <= n
      BY <1>2, <1>4, <3>1
    <3> QED BY <3>1
  <2>2. ball[n] = {w[i].scope : i \in A}
    BY <1>3
  <2> HIDE DEF A
  <2>3. m \in 0..Len(w) /\ A = 1..m
    BY <1>2, <2>1, Prefix
  <2> HIDE DEF m
  <2>4. ball[n] = {found[i] : i \in 1..m}
    BY <1>5, <2>2, <2>3
  <2> DEFINE s == [i \in 1..m |-> found[i]]
  <2>5. s \in Bijection(1..m, ball[n])
    <3>1. s \in [1..m -> ball[n]] /\ \A x \in ball[n] : \E i \in 1..m : s[i] = x
      BY <2>4
    <3>2. \A i, j \in 1..m : i # j => s[i] # s[j]
      <4> SUFFICES ASSUME NEW i \in 1..m, NEW j \in 1..m, i # j PROVE s[i] # s[j]
        OBVIOUS
      <4>1. i \in 1..Len(w) /\ j \in 1..Len(w) /\ (i < j \/ j < i)
        BY <1>2, <2>3
      <4>2. s[i] = w[i].scope /\ s[j] = w[j].scope
        BY <1>5, <4>1
      <4> QED BY <1>4, <4>1, <4>2
    <3> HIDE DEF s
    <3> QED BY <3>1, <3>2 DEF Bijection, Injection, Surjection, IsInjective
  <2>6. Cardinality(ball[n]) = m
    <3>1. IsFiniteSet(1..m) /\ Cardinality(1..m) = m
      BY <2>3, FS_Interval
    <3>2. ExistsBijection(1..m, ball[n])
      BY <2>5 DEF ExistsBijection
    <3> QED BY <3>1, <3>2, FS_Bijection
  <2> QED BY <2>4, <2>6 DEF m, A
<1>7. Len(found) = Cardinality(ball[depth])
  <2>1. {k \in 1..Len(w) : w[k].depth <= depth} = 1..Len(w)
    BY <1>4
  <2>2. Cardinality(1..Len(w)) = Len(w)
    BY <1>2, CountedTo
  <2>3. depth \in 0..depth
    BY <1>0
  <2> QED BY <1>5, <1>6, <2>1, <2>2, <2>3
<1> QED BY <1>6, <1>7 DEF ball, found

\* Without a limit the walk finds the least set of scopes that the root is in
\* and no link of the kind leads out of.
LEMMA TraverseReaches ==
  ASSUME NEW L, IsGraph(L), NEW root \in Scopes, NEW kind, NEW direction
  PROVE  LET found == TraverseScopeLinks(root, kind, direction, NoDepth, L)
         IN /\ found \in Seq(Scopes) /\ root \in ToSet(found)
            /\ \A l \in Matching(L, kind) :
                 Near(l, direction) \in ToSet(found) => Far(l, direction) \in ToSet(found)
            /\ \A C : /\ root \in C
                      /\ \A l \in Matching(L, kind) :
                           Near(l, direction) \in C => Far(l, direction) \in C
                      => ToSet(found) \subseteq C
<1> DEFINE M == Matching(L, kind)
           N == NoDepth
           found == TraverseScopeLinks(root, kind, direction, NoDepth, L)
<1>0. N \in Nat /\ N \in 0..N
  BY NoDepthType
<1>1. PICK w \in Seq(Found(Scopes)) :
        /\ WalkOK(w, N, root, direction, N, M)
        /\ found = [i \in 1..Len(w) |-> w[i].scope]
  BY <1>0, WalkEnds
<1>2. /\ Len(w) \in Nat
      /\ \A i \in 1..Len(w) : w[i].scope \in Scopes /\ w[i].depth \in Nat
  BY FoundTypes
<1>3. Len(w) <= N
  BY <1>0, <1>1, Layers
<1>4. Layered(w, N, root, direction, N, M)
  BY <1>1 DEF WalkOK
<1>5. PICK p, e : Placed(w, p, e, N, direction, M)
  BY <1>1 DEF WalkOK
<1>6. found \in Seq(Scopes) /\ \A x : x \in ToSet(found) <=> \E i \in 1..Len(w) : x = w[i].scope
  <2>1. found \in [1..Len(w) -> Scopes]
    BY <1>1, <1>2
  <2>2. DOMAIN found = 1..Len(w) /\ \A i \in 1..Len(w) : found[i] = w[i].scope
    BY <1>1
  <2> HIDE DEF found
  <2> QED BY <1>2, <2>1, <2>2 DEF ToSet
<1> HIDE DEF found, M, N
<1>7. root \in ToSet(found)
  <2>1. 1 \in 1..Len(w) /\ w[1].scope = root
    BY <1>2, <1>4 DEF Layered
  <2> QED BY <1>6, <2>1
<1>8. ASSUME NEW l \in M, Near(l, direction) \in ToSet(found)
      PROVE  Far(l, direction) \in ToSet(found)
  <2>1. PICK i \in 1..Len(w) : Near(l, direction) = w[i].scope
    BY <1>6, <1>8
  <2>2. Far(l, direction) \in Nexts(w[i].scope, direction, M)
    BY <2>1 DEF Nexts
  <2>3. i <= N /\ w[i].depth < N
    <3>1. w[i].depth < i
      BY <1>4 DEF Layered
    <3> QED BY <1>0, <1>2, <1>3, <3>1
  <2>4. \E j \in 1..Len(w) : w[j].scope = Far(l, direction)
    BY <1>4, <2>2, <2>3 DEF Layered
  <2> QED BY <1>6, <2>4
<1>9. ASSUME NEW C, root \in C,
             \A l \in M : Near(l, direction) \in C => Far(l, direction) \in C
      PROVE  ToSet(found) \subseteq C
  <2> DEFINE I == {d \in Nat : \A i \in 1..Len(w) : w[i].depth <= d => w[i].scope \in C}
  <2>1. ASSUME NEW i \in 1..Len(w)
        PROVE  \/ i = 1 /\ w[i].scope = root /\ w[i].depth = 0
               \/ \E k \in 1..Len(w) : /\ w[i].depth = w[k].depth + 1
                                       /\ w[k].scope \in C => w[i].scope \in C
    <3>1. CASE i = 1
      BY <1>4, <3>1 DEF Layered
    <3>2. CASE i \in 2..Len(w)
      <4>1. /\ p[i] \in 1..Len(w) /\ w[i].depth = w[p[i]].depth + 1 /\ e[i] \in M
            /\ Near(e[i], direction) = w[p[i]].scope
            /\ Far(e[i], direction) = w[i].scope
        BY <1>2, <1>5, <3>2 DEF Placed
      <4> QED BY <1>9, <4>1
    <3> QED BY <1>2, <3>1, <3>2
  <2>2. 0 \in I
    <3>1. ASSUME NEW i \in 1..Len(w), w[i].depth <= 0 PROVE w[i].scope \in C
      <4>1. CASE w[i].scope = root
        BY <1>9, <4>1
      <4>2. ASSUME NEW k \in 1..Len(w), w[i].depth = w[k].depth + 1 PROVE FALSE
        BY <1>2, <3>1, <4>2
      <4> QED BY <2>1, <4>1, <4>2
    <3> QED BY <3>1
  <2>3. ASSUME NEW d \in Nat, d \in I PROVE d + 1 \in I
    <3>1. \A k \in 1..Len(w) : w[k].depth <= d => w[k].scope \in C
      BY <2>3
    <3>2. ASSUME NEW i \in 1..Len(w), w[i].depth <= d + 1 PROVE w[i].scope \in C
      <4>1. CASE w[i].scope = root
        BY <1>9, <4>1
      <4>2. ASSUME NEW k \in 1..Len(w), w[i].depth = w[k].depth + 1,
                   w[k].scope \in C => w[i].scope \in C
            PROVE  w[i].scope \in C
        <5>1. w[k].depth <= d
          BY <1>2, <3>2, <4>2
        <5> QED BY <3>1, <4>2, <5>1
      <4> QED BY <2>1, <4>1, <4>2
    <3> QED BY <3>2
  <2> HIDE DEF I
  <2>4. Nat \subseteq I
    BY <2>2, <2>3, NaturalsBelow
  <2>5. \A i \in 1..Len(w) : w[i].scope \in C
    BY <1>2, <2>4 DEF I
  <2> QED BY <1>6, <2>5
<1> QED BY <1>6, <1>7, <1>8, <1>9 DEF found, M, N

LEMMA SearchFindsChains ==
  ASSUME NEW L, IsGraph(L), NEW s \in Scopes, NEW t \in Scopes, NEW kind
  PROVE  Reaches(t, s, kind, L)
           <=> Contains(TraverseScopeLinks(t, kind, "targets", NoDepth, L), s)
<1> DEFINE found == TraverseScopeLinks(t, kind, "targets", NoDepth, L)
<1>1. /\ found \in Seq(Scopes) /\ t \in ToSet(found)
      /\ \A l \in Matching(L, kind) : l.subject \in ToSet(found) => l.target \in ToSet(found)
      /\ \A C : /\ t \in C
                /\ \A l \in Matching(L, kind) : l.subject \in C => l.target \in C
                => ToSet(found) \subseteq C
  <2>1. \A l : Near(l, "targets") = l.subject /\ Far(l, "targets") = l.target
    BY DEF Near, Far
  <2> HIDE DEF found
  <2> QED BY <2>1, TraverseReaches DEF found
<1> HIDE DEF found
<1>2. Contains(found, s) <=> s \in ToSet(found)
  BY <1>1 DEF Contains, ToSet
<1>3. ToSet(found) \in SUBSET Scopes
  BY <1>1 DEF ToSet
<1>4. \A C : Closed(C, kind, L)
        <=> \A l \in Matching(L, kind) : l.subject \in C => l.target \in C
  BY DEF Closed, Matching
<1>5. ASSUME Reaches(t, s, kind, L) PROVE s \in ToSet(found)
  BY <1>1, <1>3, <1>4, <1>5 DEF Reaches
<1>6. ASSUME s \in ToSet(found) PROVE Reaches(t, s, kind, L)
  BY <1>1, <1>4, <1>6 DEF Reaches
<1> QED BY <1>2, <1>5, <1>6 DEF found

-----------------------------------------------------------------------------
\* The place of a scope is decided by the first link of the earliest scope.
LEMMA FirstWins ==
  ASSUME NEW L, IsGraph(L), NEW root \in Scopes, NEW kind, NEW direction
  PROVE  LET found == TraverseScopeLinks(root, kind, direction, NoDepth, L)
             from(l) == Position(found, Near(l, direction))
             into(i) == {l \in L : l.kind = kind /\ Far(l, direction) = found[i]
                                   /\ Near(l, direction) \in ToSet(found)}
             First(l, m) == from(l) < from(m) \/ (from(l) = from(m) /\ Before(l, m))
             entry(i) == CHOOSE l \in into(i) :
                           \A m \in into(i) \ {l} : First(l, m)
         IN \A i, j \in 2..Len(found) : i < j => First(entry(i), entry(j))
<1> DEFINE M == Matching(L, kind)
           N == NoDepth
           found == TraverseScopeLinks(root, kind, direction, NoDepth, L)
           from(l) == Position(found, Near(l, direction))
           into(i) == {l \in L : l.kind = kind /\ Far(l, direction) = found[i]
                                   /\ Near(l, direction) \in ToSet(found)}
           First(l, m) == from(l) < from(m) \/ (from(l) = from(m) /\ Before(l, m))
           entry(i) == CHOOSE l \in into(i) : \A m \in into(i) \ {l} : First(l, m)
<1>0. N \in Nat
  BY NoDepthType
<1>1. PICK w \in Seq(Found(Scopes)) :
        /\ WalkOK(w, N, root, direction, N, M)
        /\ found = [i \in 1..Len(w) |-> w[i].scope]
  BY <1>0, WalkEnds
<1>2. Len(w) \in Nat /\ \A i \in 1..Len(w) : w[i].scope \in Scopes /\ w[i].depth \in Nat
  BY FoundTypes
<1>3. PICK p, e : Placed(w, p, e, N, direction, M)
  BY <1>1 DEF WalkOK
<1>4. /\ Len(found) = Len(w) /\ DOMAIN found = 1..Len(w)
      /\ \A i \in 1..Len(w) : found[i] = w[i].scope
  BY <1>1, <1>2
<1>5. \A i, j \in 1..Len(w) : found[i] = found[j] => i = j
  <2>1. \A i, j \in 1..Len(w) : i < j => w[i].scope # w[j].scope
    BY <1>1 DEF WalkOK, Layered
  <2> QED BY <1>2, <1>4, <2>1
<1> HIDE DEF found, N
<1>6. ASSUME NEW k \in 1..Len(w), NEW l, Near(l, direction) = w[k].scope
      PROVE  from(l) = k
  BY <1>4, <1>5, <1>6 DEF Position
<1>7. \A i : into(i) = {l \in M : Far(l, direction) = found[i]
                                   /\ Near(l, direction) \in ToSet(found)}
  BY DEF Matching
<1>8. ASSUME NEW i \in 2..Len(w)
      PROVE  /\ p[i] \in 1..Len(w) /\ e[i] \in into(i) /\ from(e[i]) = p[i]
             /\ \A m \in into(i) \ {e[i]} : First(e[i], m)
             /\ \A m \in into(i) : from(m) \in Nat
  <2>1. /\ p[i] \in 1..Len(w) /\ e[i] \in M
        /\ Near(e[i], direction) = w[p[i]].scope
        /\ Far(e[i], direction) = w[i].scope
    BY <1>2, <1>3 DEF Placed
  <2>2. i \in 1..Len(w)
    BY <1>2
  <2>3. e[i] \in into(i)
    <3>1. w[p[i]].scope \in ToSet(found)
      BY <1>4, <2>1 DEF ToSet
    <3> HIDE DEF into
    <3> QED BY <1>4, <1>7, <2>1, <2>2, <3>1
  <2>4. from(e[i]) = p[i]
    <3> HIDE DEF from
    <3> QED BY <1>6, <2>1
  <2>5. ASSUME NEW m \in into(i) PROVE /\ from(m) \in Nat
                                       /\ m # e[i] => First(e[i], m)
    <3>1. m \in M /\ Far(m, direction) = w[i].scope /\ Near(m, direction) \in ToSet(found)
      BY <1>4, <1>7, <2>2, <2>5
    <3>2. PICK q \in 1..Len(w) : Near(m, direction) = w[q].scope
      BY <1>4, <3>1 DEF ToSet
    <3>3. from(m) = q
      <4> HIDE DEF from
      <4> QED BY <1>6, <3>2
    <3>4. p[i] < q \/ (p[i] = q /\ (m = e[i] \/ Before(e[i], m)))
      BY <1>3, <3>1, <3>2 DEF Placed
    <3> HIDE DEF from
    <3> QED BY <1>2, <2>4, <3>3, <3>4
  <2> HIDE DEF into, from, First
  <2> QED BY <2>1, <2>3, <2>4, <2>5
<1>9. \A i : into(i) \subseteq M
  BY <1>7
<1>10. Ordered(M)
  BY MatchingGraph
<1>11. ASSUME NEW i \in 2..Len(w) PROVE entry(i) = e[i]
  <2>1. ASSUME NEW l \in into(i), \A m \in into(i) \ {l} : First(l, m)
        PROVE  l = e[i]
    <3> SUFFICES ASSUME l # e[i] PROVE FALSE
      OBVIOUS
    <3> HIDE DEF into, from
    <3>1. First(l, e[i]) /\ First(e[i], l)
      <4> HIDE DEF First
      <4> QED BY <1>8, <2>1
    <3>2. ~(Before(l, e[i]) /\ Before(e[i], l))
      BY <1>8, <1>9, <1>10, <2>1, BeforeIsAnOrder
    <3>3. from(l) \in Nat /\ from(e[i]) \in Nat
      BY <1>8, <2>1
    <3> QED BY <3>1, <3>2, <3>3
  <2>2. e[i] \in into(i) /\ \A m \in into(i) \ {e[i]} : First(e[i], m)
    BY <1>8
  <2> HIDE DEF into, First
  <2> QED BY <2>1, <2>2
<1>12. ASSUME NEW i \in 2..Len(w), NEW j \in 2..Len(w), i < j
       PROVE  First(entry(i), entry(j))
  <2> HIDE DEF entry, from, into
  <2>1. p[i] < p[j] \/ (p[i] = p[j] /\ Before(e[i], e[j]))
    BY <1>3, <1>12 DEF Placed
  <2>2. from(e[i]) = p[i] /\ from(e[j]) = p[j]
    BY <1>8
  <2>3. First(e[i], e[j])
    BY <2>1, <2>2
  <2> QED BY <1>11, <2>3
<1> QED BY <1>4, <1>12 DEF found

-----------------------------------------------------------------------------
(***************************************************************************)
(* The reach of an agent.                                                  *)
(***************************************************************************)
Distinct(s) == \A i, j \in 1..Len(s) : i < j => s[i] # s[j]

\* A list of scopes without repetition, and one it was made longer to, in
\* which what was not in it comes after.
Grown(ids, new) ==
  /\ new \in Seq(Scopes) /\ Distinct(new) /\ Len(ids) <= Len(new)
  /\ \A i \in 1..Len(ids) : new[i] = ids[i]

LEMMA GrownTwice ==
  ASSUME NEW ids \in Seq(Scopes), NEW mid, NEW new, Grown(ids, mid), Grown(mid, new)
  PROVE  Grown(ids, new)
<1>1. Len(ids) \in Nat /\ Len(mid) \in Nat /\ Len(new) \in Nat
  BY DEF Grown
<1> QED BY <1>1 DEF Grown

IsAddition(r, ids, s) ==
  r = [k \in 0..Len(s) |->
         IF k = 0 THEN ids
         ELSE LET list == r[k - 1]
              IN IF s[k] \in ToSet(list) THEN list ELSE Append(list, s[k])]

LEMMA OneMore ==
  ASSUME NEW list \in Seq(Scopes), Distinct(list), NEW x \in Scopes
  PROVE  LET new == IF x \in ToSet(list) THEN list ELSE Append(list, x)
         IN Grown(list, new) /\ ToSet(new) = ToSet(list) \cup {x}
<1>1. Len(list) \in Nat /\ DOMAIN list = 1..Len(list)
  OBVIOUS
<1>2. CASE x \in ToSet(list)
  BY <1>1, <1>2 DEF Grown
<1>3. CASE x \notin ToSet(list)
  <2> DEFINE new == Append(list, x)
  <2>1. /\ new \in Seq(Scopes) /\ Len(new) = Len(list) + 1 /\ DOMAIN new = 1..(Len(list) + 1)
        /\ \A i \in 1..Len(list) : new[i] = list[i]
        /\ new[Len(list) + 1] = x
    OBVIOUS
  <2> HIDE DEF new
  <2>2. \A i \in 1..Len(new) : i \in 1..Len(list) \/ i = Len(list) + 1
    BY <1>1, <2>1
  <2>3. \A i \in 1..Len(list) : list[i] # x
    BY <1>1, <1>3 DEF ToSet
  <2>4. Distinct(new)
    BY <1>1, <2>1, <2>2, <2>3 DEF Distinct
  <2>5. ToSet(new) = ToSet(list) \cup {x}
    <3>1. ASSUME NEW y \in ToSet(new) PROVE y \in ToSet(list) \cup {x}
      <4>1. PICK i \in 1..Len(new) : y = new[i]
        BY <2>1, <3>1 DEF ToSet
      <4> QED BY <1>1, <2>1, <2>2, <4>1 DEF ToSet
    <3>2. ASSUME NEW y \in ToSet(list) PROVE y \in ToSet(new)
      <4>1. PICK i \in 1..Len(list) : y = list[i]
        BY <1>1, <3>2 DEF ToSet
      <4>2. i \in DOMAIN new /\ y = new[i]
        BY <1>1, <2>1, <4>1
      <4> QED BY <4>2 DEF ToSet
    <3>3. x \in ToSet(new)
      <4>1. Len(list) + 1 \in DOMAIN new
        BY <1>1, <2>1
      <4> QED BY <2>1, <4>1 DEF ToSet
    <3> QED BY <3>1, <3>2, <3>3
  <2>6. Grown(list, new)
    BY <1>1, <2>1, <2>4 DEF Grown
  <2> QED BY <1>3, <2>5, <2>6 DEF new
<1> QED BY <1>2, <1>3

LEMMA AdditionExists ==
  ASSUME NEW ids \in Seq(Scopes), NEW s \in Seq(Scopes)
  PROVE  \E r : IsAddition(r, ids, s)
<1> DEFINE Q == Seq(Scopes)
           N == Len(s)
           New(list, x) == IF x \in ToSet(list) THEN list ELSE Append(list, x)
           step == [k \in 1..N |-> [list \in Q |-> New(list, s[k])]]
<1>1. N \in Nat /\ \A k \in 1..N : s[k] \in Scopes
  OBVIOUS
<1>2. \A list \in Q : \A x \in Scopes : New(list, x) \in Q
  OBVIOUS
<1>3. PICK r \in [0..N -> Q] : r[0] = ids /\ \A k \in 1..N : r[k] = step[k][r[k - 1]]
  <2>1. StaysIn(Q, step, N)
    <3> HIDE DEF New
    <3> QED BY <1>1, <1>2 DEF StaysIn
  <2> HIDE DEF step, N, Q
  <2>2. ids \in Q
    BY DEF Q
  <2>3. PICK r \in [0..N -> Q] : Repeats(r, ids, step, N)
    BY <1>1, <2>1, <2>2, RepeatedStep
  <2> QED BY <2>3 DEF Repeats
<1> DEFINE F(k) == IF k = 0 THEN ids ELSE New(r[k - 1], s[k])
<1>4. ASSUME NEW k \in 0..N PROVE r[k] = F(k)
  <2>1. k # 0 => k \in 1..N /\ r[k - 1] \in Q
    BY <1>1, <1>3
  <2> HIDE DEF New
  <2> QED BY <1>3, <2>1
<1>5. r = [k \in 0..N |-> F(k)]
  <2> HIDE DEF F
  <2> QED BY <1>3, <1>4
<1> QED BY <1>5 DEF IsAddition

\* The list gets what was missing of the sequence.
LEMMA AddedGrows ==
  ASSUME NEW ids \in Seq(Scopes), Distinct(ids), NEW s \in Seq(Scopes)
  PROVE  Grown(ids, Added(ids, s)) /\ ToSet(Added(ids, s)) = ToSet(ids) \cup ToSet(s)
<1> DEFINE N == Len(s)
           New(list, x) == IF x \in ToSet(list) THEN list ELSE Append(list, x)
           R == CHOOSE r : IsAddition(r, ids, s)
           F(k) == IF k = 0 THEN ids ELSE New(R[k - 1], s[k])
<1>1. N \in Nat /\ DOMAIN s = 1..N /\ \A k \in 1..N : s[k] \in Scopes
  OBVIOUS
<1>2. Added(ids, s) = R[N]
  BY DEF Added, IsAddition
<1>3. IsAddition(R, ids, s)
  BY AdditionExists
<1>4. R = [k \in 0..N |-> F(k)]
  <2> HIDE DEF R
  <2> QED BY <1>3 DEF IsAddition
<1> HIDE DEF R, N
<1>5. \A k \in 0..N : R[k] = F(k)
  <2> HIDE DEF F
  <2> QED BY <1>4
<1> DEFINE I == {k \in Nat : k <= N =>
                   /\ Grown(ids, R[k])
                   /\ \A x : x \in ToSet(R[k]) <=> x \in ToSet(ids) \/ \E i \in 1..k : x = s[i]}
<1>6. 0 \in I
  <2>1. R[0] = ids
    BY <1>1, <1>5
  <2>2. Grown(ids, ids)
    BY DEF Grown
  <2> QED BY <2>1, <2>2
<1>7. ASSUME NEW k \in Nat, k \in I
      PROVE  k + 1 \in I
  <2> SUFFICES ASSUME k + 1 <= N
               PROVE  /\ Grown(ids, R[k + 1])
                      /\ \A x : x \in ToSet(R[k + 1])
                           <=> x \in ToSet(ids) \/ \E i \in 1..(k + 1) : x = s[i]
    OBVIOUS
  <2>1. /\ Grown(ids, R[k])
        /\ \A x : x \in ToSet(R[k]) <=> x \in ToSet(ids) \/ \E i \in 1..k : x = s[i]
    BY <1>1, <1>7
  <2>2. R[k + 1] = New(R[k], s[k + 1]) /\ s[k + 1] \in Scopes
    <3>1. k + 1 \in 0..N /\ k + 1 \in 1..N /\ (k + 1) - 1 = k /\ k + 1 # 0
      BY <1>1
    <3> HIDE DEF New
    <3> QED BY <1>1, <1>5, <3>1
  <2>3. R[k] \in Seq(Scopes) /\ Distinct(R[k])
    BY <2>1 DEF Grown
  <2>4. Grown(R[k], R[k + 1]) /\ ToSet(R[k + 1]) = ToSet(R[k]) \cup {s[k + 1]}
    BY <2>2, <2>3, OneMore
  <2>5. Grown(ids, R[k + 1])
    BY <2>1, <2>4, GrownTwice
  <2>6. \A i \in 1..(k + 1) : i \in 1..k \/ i = k + 1
    OBVIOUS
  <2>7. \A i \in 1..k : i \in 1..(k + 1)
    OBVIOUS
  <2>8. k + 1 \in 1..(k + 1)
    OBVIOUS
  <2> QED BY <2>1, <2>4, <2>5, <2>6, <2>7, <2>8
<1> HIDE DEF I
<1>8. N \in I
  BY <1>1, <1>6, <1>7, NaturalsBelow
<1>9. /\ Grown(ids, R[N])
      /\ \A x : x \in ToSet(R[N]) <=> x \in ToSet(ids) \/ \E i \in 1..N : x = s[i]
  BY <1>1, <1>8 DEF I
<1>10. \A x : x \in ToSet(s) <=> \E i \in 1..N : x = s[i]
  BY <1>1 DEF ToSet
<1> QED BY <1>2, <1>9, <1>10

\* What a scope leads to along one of the kinds.
Led(root, kinds, L) ==
  [k \in 1..Len(kinds) |-> TraverseScopeLinks(root, kinds[k], "subjects", NoDepth, L)]

IsAlong(r, ids, root, kinds, L) ==
  r = [k \in 0..Len(kinds) |->
         IF k = 0 THEN ids
         ELSE Added(r[k - 1], TraverseScopeLinks(root, kinds[k], "subjects", NoDepth, L))]

Lists == {ids \in Seq(Scopes) : Distinct(ids)}

LEMMA LedTypes ==
  ASSUME NEW L, IsGraph(L), NEW root \in Scopes, NEW kinds, Len(kinds) \in Nat
  PROVE  \A k \in 1..Len(kinds) :
           /\ Led(root, kinds, L)[k] = TraverseScopeLinks(root, kinds[k], "subjects", NoDepth, L)
           /\ Led(root, kinds, L)[k] \in Seq(Scopes)
<1> TAKE k \in 1..Len(kinds)
<1>1. Led(root, kinds, L)[k] = TraverseScopeLinks(root, kinds[k], "subjects", NoDepth, L)
  BY DEF Led
<1>2. TraverseScopeLinks(root, kinds[k], "subjects", NoDepth, L) \in Seq(Scopes)
  BY TraverseReaches
<1> QED BY <1>1, <1>2

LEMMA AlongExists ==
  ASSUME NEW L, IsGraph(L), NEW root \in Scopes, NEW kinds, Len(kinds) \in Nat,
         NEW ids \in Lists
  PROVE  \E r : IsAlong(r, ids, root, kinds, L)
<1> DEFINE N == Len(kinds)
           led == Led(root, kinds, L)
           step == [k \in 1..N |-> [list \in Lists |-> Added(list, led[k])]]
<1>1. \A k \in 1..N :
        /\ led[k] = TraverseScopeLinks(root, kinds[k], "subjects", NoDepth, L)
        /\ led[k] \in Seq(Scopes)
  BY LedTypes
<1> HIDE DEF led
<1>2. ASSUME NEW list \in Lists, NEW s \in Seq(Scopes) PROVE Added(list, s) \in Lists
  BY AddedGrows DEF Grown, Lists
<1>3. PICK r \in [0..N -> Lists] : r[0] = ids /\ \A k \in 1..N : r[k] = step[k][r[k - 1]]
  <2>1. StaysIn(Lists, step, N)
    BY <1>1, <1>2 DEF StaysIn
  <2> HIDE DEF step, N
  <2>2. N \in Nat
    BY DEF N
  <2>3. PICK r \in [0..N -> Lists] : Repeats(r, ids, step, N)
    BY <2>1, <2>2, RepeatedStep
  <2> QED BY <2>3 DEF Repeats
<1> DEFINE F(k) == IF k = 0 THEN ids
                   ELSE Added(r[k - 1], TraverseScopeLinks(root, kinds[k], "subjects", NoDepth, L))
<1>4. ASSUME NEW k \in 0..N PROVE r[k] = F(k)
  <2>1. CASE k = 0
    BY <1>3, <2>1
  <2>2. CASE k # 0
    <3>1. k \in 1..N /\ r[k - 1] \in Lists
      BY <1>3, <2>2
    <3>2. step[k][r[k - 1]] = Added(r[k - 1], led[k])
      BY <3>1
    <3> HIDE DEF step
    <3> QED BY <1>1, <1>3, <2>2, <3>1, <3>2
  <2> QED BY <2>1, <2>2
<1>5. r = [k \in 0..N |-> F(k)]
  <2> HIDE DEF F
  <2> QED BY <1>3, <1>4
<1> QED BY <1>5 DEF IsAlong

\* The list gets what the scope leads to along each of the kinds.
LEMMA AlongGrows ==
  ASSUME NEW L, IsGraph(L), NEW root \in Scopes, NEW kinds, Len(kinds) \in Nat,
         NEW ids \in Lists
  PROVE  /\ Grown(ids, Along(ids, root, kinds, L))
         /\ \A x : x \in ToSet(Along(ids, root, kinds, L))
              <=> \/ x \in ToSet(ids)
                  \/ \E k \in 1..Len(kinds) : x \in ToSet(Led(root, kinds, L)[k])
<1> DEFINE N == Len(kinds)
           led == Led(root, kinds, L)
           R == CHOOSE r : IsAlong(r, ids, root, kinds, L)
           F(k) == IF k = 0 THEN ids
                   ELSE Added(R[k - 1], TraverseScopeLinks(root, kinds[k], "subjects", NoDepth, L))
<1>1. \A k \in 1..N :
        /\ led[k] = TraverseScopeLinks(root, kinds[k], "subjects", NoDepth, L)
        /\ led[k] \in Seq(Scopes)
  BY LedTypes
<1>2. Along(ids, root, kinds, L) = R[N]
  BY DEF Along, IsAlong
<1>3. IsAlong(R, ids, root, kinds, L)
  BY AlongExists
<1>4. R = [k \in 0..N |-> F(k)]
  <2> HIDE DEF R
  <2> QED BY <1>3 DEF IsAlong
<1>5. N \in Nat
  OBVIOUS
<1> HIDE DEF R, N, led
<1>6. \A k \in 0..N : R[k] = F(k)
  <2> HIDE DEF F
  <2> QED BY <1>4
<1> DEFINE I == {k \in Nat : k <= N =>
                   /\ Grown(ids, R[k])
                   /\ \A x : x \in ToSet(R[k])
                        <=> x \in ToSet(ids) \/ \E i \in 1..k : x \in ToSet(led[i])}
<1>7. 0 \in I
  <2>1. R[0] = ids
    BY <1>5, <1>6
  <2>2. Grown(ids, ids)
    BY DEF Grown, Lists
  <2> QED BY <2>1, <2>2
<1>8. ASSUME NEW k \in Nat, k \in I
      PROVE  k + 1 \in I
  <2> SUFFICES ASSUME k + 1 <= N
               PROVE  /\ Grown(ids, R[k + 1])
                      /\ \A x : x \in ToSet(R[k + 1])
                           <=> x \in ToSet(ids) \/ \E i \in 1..(k + 1) : x \in ToSet(led[i])
    OBVIOUS
  <2>1. /\ Grown(ids, R[k])
        /\ \A x : x \in ToSet(R[k])
             <=> x \in ToSet(ids) \/ \E i \in 1..k : x \in ToSet(led[i])
    BY <1>5, <1>8
  <2>2. R[k + 1] = Added(R[k], led[k + 1]) /\ led[k + 1] \in Seq(Scopes)
    <3>1. k + 1 \in 0..N /\ k + 1 \in 1..N /\ (k + 1) - 1 = k /\ k + 1 # 0
      BY <1>5
    <3> QED BY <1>1, <1>6, <3>1
  <2>3. R[k] \in Seq(Scopes) /\ Distinct(R[k])
    BY <2>1 DEF Grown
  <2>4. Grown(R[k], R[k + 1]) /\ ToSet(R[k + 1]) = ToSet(R[k]) \cup ToSet(led[k + 1])
    BY <2>2, <2>3, AddedGrows
  <2>5. Grown(ids, R[k + 1])
    <3>1. ids \in Seq(Scopes)
      BY DEF Lists
    <3> QED BY <2>1, <2>4, <3>1, GrownTwice
  <2>6. \A i \in 1..(k + 1) : i \in 1..k \/ i = k + 1
    OBVIOUS
  <2>7. \A i \in 1..k : i \in 1..(k + 1)
    OBVIOUS
  <2>8. k + 1 \in 1..(k + 1)
    OBVIOUS
  <2> QED BY <2>1, <2>4, <2>5, <2>6, <2>7, <2>8
<1> HIDE DEF I
<1>9. N \in I
  BY <1>5, <1>7, <1>8, NaturalsBelow
<1>10. /\ Grown(ids, R[N])
       /\ \A x : x \in ToSet(R[N])
            <=> x \in ToSet(ids) \/ \E i \in 1..N : x \in ToSet(led[i])
  BY <1>5, <1>9 DEF I
<1> QED BY <1>2, <1>10 DEF N, led

IsRound(r, seed, kinds, L) ==
  r = [n \in 0..NoDepth |->
         IF n = 0 THEN seed
         ELSE LET ids == r[n - 1]
              IN IF n <= Len(ids) THEN Along(ids, ids[n], kinds, L) ELSE ids]

LEMMA RoundExists ==
  ASSUME NEW L, IsGraph(L), NEW kinds, Len(kinds) \in Nat, NEW seed \in Lists
  PROVE  \E r : IsRound(r, seed, kinds, L)
<1> DEFINE N == NoDepth
           Turn(n, ids) == IF n <= Len(ids) THEN Along(ids, ids[n], kinds, L) ELSE ids
           step == [n \in 1..N |-> [ids \in Lists |-> Turn(n, ids)]]
<1>1. N \in Nat
  BY NoDepthType
<1>2. ASSUME NEW n \in 1..N, NEW ids \in Lists PROVE Turn(n, ids) \in Lists
  <2>1. CASE n <= Len(ids)
    <3>1. ids \in Seq(Scopes) /\ n \in Nat /\ n >= 1
      BY <1>1 DEF Lists
    <3>2. ids[n] \in Scopes
      BY <2>1, <3>1
    <3>3. Grown(ids, Along(ids, ids[n], kinds, L))
      BY <3>2, AlongGrows
    <3> QED BY <2>1, <3>3 DEF Grown, Lists
  <2>2. CASE ~(n <= Len(ids))
    BY <2>2
  <2> QED BY <2>1, <2>2
<1>3. PICK r \in [0..N -> Lists] : r[0] = seed /\ \A n \in 1..N : r[n] = step[n][r[n - 1]]
  <2>1. StaysIn(Lists, step, N)
    <3> HIDE DEF Turn
    <3> QED BY <1>2 DEF StaysIn
  <2> HIDE DEF step, N
  <2>2. PICK r \in [0..N -> Lists] : Repeats(r, seed, step, N)
    BY <1>1, <2>1, RepeatedStep
  <2> QED BY <2>2 DEF Repeats
<1> DEFINE F(n) == IF n = 0 THEN seed ELSE Turn(n, r[n - 1])
<1>4. ASSUME NEW n \in 0..N PROVE r[n] = F(n)
  <2>1. n # 0 => n \in 1..N /\ r[n - 1] \in Lists
    BY <1>1, <1>3
  <2> HIDE DEF Turn
  <2> QED BY <1>3, <2>1
<1>5. r = [n \in 0..N |-> F(n)]
  <2> HIDE DEF F
  <2> QED BY <1>3, <1>4
<1> QED BY <1>5 DEF IsRound

\* No link of the kinds leads out of the scopes in C.
Stays(C, kinds, L) ==
  \A k \in 1..Len(kinds) : \A l \in Matching(L, kinds[k]) :
    l.target \in C => l.subject \in C

\* What a list of scopes is after n of them were expanded.
Expanded(ids, n, seed, kinds, L) ==
  /\ Grown(seed, ids)
  /\ \A i \in 1..Len(ids) : i <= n =>
       \A k \in 1..Len(kinds) : ToSet(Led(ids[i], kinds, L)[k]) \subseteq ToSet(ids)
  /\ \A C : Stays(C, kinds, L) /\ ToSet(seed) \subseteq C => ToSet(ids) \subseteq C

LEMMA LedReaches ==
  ASSUME NEW L, IsGraph(L), NEW root \in Scopes, NEW kinds, Len(kinds) \in Nat,
         NEW k \in 1..Len(kinds)
  PROVE  LET led == ToSet(Led(root, kinds, L)[k])
         IN /\ root \in led
            /\ \A l \in Matching(L, kinds[k]) : l.target \in led => l.subject \in led
            /\ \A C : Stays(C, kinds, L) /\ root \in C => led \subseteq C
<1> DEFINE found == TraverseScopeLinks(root, kinds[k], "subjects", NoDepth, L)
<1>1. Led(root, kinds, L)[k] = found
  BY LedTypes
<1>2. /\ root \in ToSet(found)
      /\ \A l \in Matching(L, kinds[k]) : l.target \in ToSet(found) => l.subject \in ToSet(found)
      /\ \A C : /\ root \in C
                /\ \A l \in Matching(L, kinds[k]) : l.target \in C => l.subject \in C
                => ToSet(found) \subseteq C
  <2>1. \A l : Near(l, "subjects") = l.target /\ Far(l, "subjects") = l.subject
    BY DEF Near, Far
  <2> HIDE DEF found
  <2> QED BY <2>1, TraverseReaches DEF found
<1> HIDE DEF found
<1> QED BY <1>1, <1>2 DEF Stays

LEMMA ExpandedTurn ==
  ASSUME NEW L, IsGraph(L), NEW kinds, Len(kinds) \in Nat, NEW seed \in Lists,
         NEW n \in Nat, NEW ids, Expanded(ids, n, seed, kinds, L), n + 1 <= Len(ids)
  PROVE  Expanded(Along(ids, ids[n + 1], kinds, L), n + 1, seed, kinds, L)
<1> DEFINE new == Along(ids, ids[n + 1], kinds, L)
           led(k) == ToSet(Led(ids[n + 1], kinds, L)[k])
<1>1. /\ ids \in Lists /\ Len(ids) \in Nat /\ n + 1 \in 1..Len(ids)
      /\ ids[n + 1] \in Scopes /\ DOMAIN ids = 1..Len(ids)
  <2>1. ids \in Seq(Scopes) /\ Distinct(ids)
    BY DEF Expanded, Grown
  <2> QED BY <2>1 DEF Lists
<1>2. /\ Grown(ids, new)
      /\ \A x : x \in ToSet(new) <=> x \in ToSet(ids) \/ \E k \in 1..Len(kinds) : x \in led(k)
  BY <1>1, AlongGrows
<1>3. \A k \in 1..Len(kinds) : \A C : Stays(C, kinds, L) /\ ids[n + 1] \in C => led(k) \subseteq C
  BY <1>1, LedReaches
<1> HIDE DEF new, led
<1>4. Grown(seed, new)
  <2>1. seed \in Seq(Scopes)
    BY DEF Lists
  <2> QED BY <1>2, <2>1, GrownTwice DEF Expanded
<1>5. ASSUME NEW i \in 1..Len(new), i <= n + 1, NEW k \in 1..Len(kinds)
      PROVE  ToSet(Led(new[i], kinds, L)[k]) \subseteq ToSet(new)
  <2>1. i \in 1..Len(ids) /\ new[i] = ids[i]
    <3>1. i \in 1..Len(ids)
      BY <1>1, <1>5
    <3> QED BY <1>2, <3>1 DEF Grown
  <2>2. CASE i <= n
    BY <1>2, <2>1, <2>2 DEF Expanded
  <2>3. CASE i = n + 1
    BY <1>2, <2>1, <2>3 DEF led
  <2> QED BY <1>1, <1>5, <2>1, <2>2, <2>3
<1>6. ASSUME NEW C, Stays(C, kinds, L), ToSet(seed) \subseteq C
      PROVE  ToSet(new) \subseteq C
  <2>1. ToSet(ids) \subseteq C
    BY <1>6 DEF Expanded
  <2>2. ids[n + 1] \in C
    BY <1>1, <2>1 DEF ToSet
  <2> QED BY <1>2, <1>3, <1>6, <2>1, <2>2
<1> QED BY <1>4, <1>5, <1>6 DEF Expanded, new

LEMMA RoundsExpand ==
  ASSUME NEW L, IsGraph(L), NEW kinds, Len(kinds) \in Nat, NEW seed \in Lists
  PROVE  Expanded(Candidates(seed, kinds, L), NoDepth, seed, kinds, L)
<1> DEFINE N == NoDepth
           R == CHOOSE r : IsRound(r, seed, kinds, L)
           Turn(n, ids) == IF n <= Len(ids) THEN Along(ids, ids[n], kinds, L) ELSE ids
           F(n) == IF n = 0 THEN seed ELSE Turn(n, R[n - 1])
<1>1. N \in Nat
  BY NoDepthType
<1>2. Candidates(seed, kinds, L) = R[N]
  BY DEF Candidates, IsRound, NoDepth
<1>3. IsRound(R, seed, kinds, L)
  BY RoundExists
<1>4. R = [n \in 0..N |-> F(n)]
  <2> HIDE DEF R
  <2> QED BY <1>3 DEF IsRound
<1> HIDE DEF R, N
<1>5. \A n \in 0..N : R[n] = F(n)
  <2> HIDE DEF F
  <2> QED BY <1>4
<1> DEFINE I == {n \in Nat : n <= N => Expanded(R[n], n, seed, kinds, L)}
<1>6. 0 \in I
  <2>1. R[0] = seed
    BY <1>1, <1>5
  <2>2. Expanded(seed, 0, seed, kinds, L)
    BY DEF Expanded, Grown, Lists
  <2> QED BY <2>1, <2>2
<1>7. ASSUME NEW n \in Nat, n \in I
      PROVE  n + 1 \in I
  <2> SUFFICES ASSUME n + 1 <= N PROVE Expanded(R[n + 1], n + 1, seed, kinds, L)
    OBVIOUS
  <2>1. Expanded(R[n], n, seed, kinds, L)
    BY <1>1, <1>7
  <2>2. R[n + 1] = Turn(n + 1, R[n])
    <3>1. n + 1 \in 0..N /\ (n + 1) - 1 = n /\ n + 1 # 0
      BY <1>1
    <3> HIDE DEF Turn
    <3> QED BY <1>5, <3>1
  <2>3. CASE n + 1 <= Len(R[n])
    <3>1. Expanded(Along(R[n], R[n][n + 1], kinds, L), n + 1, seed, kinds, L)
      BY <2>1, <2>3, ExpandedTurn
    <3> QED BY <2>2, <2>3, <3>1
  <2>4. CASE ~(n + 1 <= Len(R[n]))
    <3>1. Len(R[n]) \in Nat
      BY <2>1 DEF Expanded, Grown
    <3>2. \A i \in 1..Len(R[n]) : i <= n
      BY <2>4, <3>1
    <3> QED BY <2>1, <2>2, <2>4, <3>2 DEF Expanded
  <2> QED BY <2>3, <2>4
<1> HIDE DEF I
<1>8. N \in I
  BY <1>1, <1>6, <1>7, NaturalsBelow
<1> QED BY <1>1, <1>2, <1>8 DEF I, N

LEMMA KindsListed ==
  ASSUME NEW T, IsFiniteSet(T)
  PROVE  /\ Len(SetToSeq(T)) \in Nat
         /\ {SetToSeq(T)[k] : k \in 1..Len(SetToSeq(T))} = T
<1> DEFINE n == Cardinality(T)
           s == SetToSeq(T)
<1>1. n \in Nat /\ \E f \in [1..n -> T] : IsInjective(f)
  BY FS_CardinalityType DEF ExistsBijection, Bijection, Injection
<1>2. s \in [1..n -> T] /\ IsInjective(s)
  BY <1>1 DEF SetToSeq
<1> HIDE DEF s, n
<1>3. s \in Surjection(1..n, T)
  <2>1. s \in Injection(1..n, T)
    BY <1>2 DEF Injection
  <2>2. Cardinality(1..n) = n /\ Cardinality(T) = n
    BY <1>1, CountedTo DEF n
  <2> QED BY <2>1, <2>2, FS_Injection
<1>4. Len(s) = n
  BY <1>1, <1>2
<1>5. {s[k] : k \in 1..n} = T
  BY <1>2, <1>3 DEF Surjection
<1> QED BY <1>1, <1>4, <1>5 DEF s

\* What is reached is the least set with the home and the child in which a
\* scope that takes part in one of the set is, too.
LEMMA ReachIsLeast ==
  ASSUME NEW L, IsGraph(L), NEW home \in Scopes, NEW child \in Scopes,
         NEW kinds \in SUBSET Kinds
  PROVE  LET seed  == IF child = home THEN <<home>> ELSE <<home, child>>
             reach == ToSet(Candidates(seed, SetToSeq(kinds), L))
             Stable(C) == /\ {home, child} \subseteq C
                          /\ \A l \in L : l.kind \in kinds /\ l.target \in C
                                            => l.subject \in C
         IN Stable(reach) /\ \A C \in SUBSET Scopes : Stable(C) => reach \subseteq C
<1> DEFINE seed  == IF child = home THEN <<home>> ELSE <<home, child>>
           ks == SetToSeq(kinds)
           ids == Candidates(seed, ks, L)
           Stable(C) == /\ {home, child} \subseteq C
                        /\ \A l \in L : l.kind \in kinds /\ l.target \in C
                                          => l.subject \in C
<1>1. Len(ks) \in Nat /\ {ks[k] : k \in 1..Len(ks)} = kinds
  <2>1. IsFiniteSet(kinds)
    BY TraversalAssumption, FS_Subset
  <2> QED BY <2>1, KindsListed
<1>2. seed \in Lists /\ ToSet(seed) = {home, child}
  <2>1. CASE child = home
    <3>1. seed = <<home>>
      BY <2>1
    <3>2. <<home>> \in Seq(Scopes) /\ Len(<<home>>) = 1 /\ <<home>>[1] = home
          /\ DOMAIN <<home>> = {1}
      OBVIOUS
    <3> HIDE DEF seed
    <3> QED BY <2>1, <3>1, <3>2 DEF Lists, Distinct, ToSet
  <2>2. CASE child # home
    <3>1. seed = <<home, child>>
      BY <2>2
    <3>2. <<home, child>> \in Seq(Scopes) /\ Len(<<home, child>>) = 2
          /\ <<home, child>>[1] = home /\ <<home, child>>[2] = child
          /\ DOMAIN <<home, child>> = {1, 2}
      OBVIOUS
    <3> HIDE DEF seed
    <3> QED BY <2>2, <3>1, <3>2 DEF Lists, Distinct, ToSet
  <2> QED BY <2>1, <2>2
<1> HIDE DEF seed, ks
<1>3. Expanded(ids, NoDepth, seed, ks, L)
  BY <1>1, <1>2, RoundsExpand
<1> HIDE DEF ids
<1>4. /\ ids \in Seq(Scopes) /\ Len(ids) \in Nat /\ DOMAIN ids = 1..Len(ids)
      /\ Len(ids) <= NoDepth
  <2>1. ids \in Seq(Scopes) /\ Distinct(ids)
    BY <1>3 DEF Expanded, Grown
  <2>2. ids \in [1..Len(ids) -> Scopes] /\ Len(ids) \in Nat
    BY <2>1
  <2>3. Len(ids) <= Cardinality(Scopes)
    BY <2>1, <2>2, NoDepthType, DistinctAreFew DEF Distinct
  <2> QED BY <2>1, <2>2, <2>3 DEF NoDepth
<1>5. \A C : Stays(C, ks, L) <=> \A l \in L : l.kind \in kinds /\ l.target \in C
                                               => l.subject \in C
  BY <1>1 DEF Stays, Matching
<1>6. {home, child} \subseteq ToSet(ids)
  <2>1. Len(seed) \in Nat /\ DOMAIN seed = 1..Len(seed)
    BY <1>2 DEF Lists
  <2>2. Grown(seed, ids)
    BY <1>3 DEF Expanded
  <2>3. \A i \in 1..Len(seed) : seed[i] \in ToSet(ids)
    BY <1>4, <2>1, <2>2 DEF Grown, ToSet
  <2>4. ToSet(seed) \subseteq ToSet(ids)
    BY <2>1, <2>3 DEF ToSet
  <2> QED BY <1>2, <2>4
<1>7. Stays(ToSet(ids), ks, L)
  <2> SUFFICES ASSUME NEW k \in 1..Len(ks), NEW l \in Matching(L, ks[k]),
                      l.target \in ToSet(ids)
               PROVE  l.subject \in ToSet(ids)
    BY DEF Stays
  <2>1. PICK i \in 1..Len(ids) : l.target = ids[i]
    BY <1>4 DEF ToSet
  <2>2. ids[i] \in Scopes /\ i <= NoDepth
    BY <1>4, NoDepthType
  <2> DEFINE led == ToSet(Led(ids[i], ks, L)[k])
  <2>3. /\ ids[i] \in led
        /\ \A m \in Matching(L, ks[k]) : m.target \in led => m.subject \in led
    BY <1>1, <2>2, LedReaches
  <2>4. led \subseteq ToSet(ids)
    BY <1>3, <2>2 DEF Expanded
  <2> HIDE DEF led
  <2> QED BY <2>1, <2>3, <2>4
<1>8. Stable(ToSet(ids))
  BY <1>5, <1>6, <1>7
<1>9. ASSUME NEW C, Stable(C) PROVE ToSet(ids) \subseteq C
  <2>1. Stays(C, ks, L) /\ ToSet(seed) \subseteq C
    BY <1>2, <1>5, <1>9
  <2> QED BY <1>3, <2>1 DEF Expanded
<1> HIDE DEF Stable
<1>10. Stable(ToSet(ids)) /\ \A C \in SUBSET Scopes : Stable(C) => ToSet(ids) \subseteq C
  BY <1>8, <1>9
<1> QED BY <1>10 DEF Stable, ids, ks, seed

-----------------------------------------------------------------------------
(***************************************************************************)
(* The graphs the registry can hold, whoever writes.                       *)
(***************************************************************************)
LEMMA KeyedInitially == Init => TypeOK /\ Keyed
BY LinkAssumption DEF Init, TypeOK, Version, Keyed

\* A process decides on a change of a link to itself.
LEMMA DecidingKeepsKeys ==
  ASSUME TypeOK, Keyed, NEW p \in Processes, NEW c \in Change, Decide(p, c),
         links' = links,
         c.before # NONE => c.before.id = c.id,
         c.after # NONE => c.after.id = c.id
  PROVE  /\ doing' \in [Processes -> Pending \cup {NONE}]
         /\ Keyed'
<1> DEFINE d == [stage |-> "decided", change |-> c]
<1>1. d \in Pending /\ d # NONE /\ d.change = c
  BY LinkAssumption DEF Pending
<1>2. doing' = [doing EXCEPT ![p] = d]
  BY DEF Decide
<1> HIDE DEF d
<1>3. doing' \in [Processes -> Pending \cup {NONE}] /\ doing'[p] = d
  BY <1>1, <1>2 DEF TypeOK
<1>4. \A q \in Processes : q # p => doing'[q] = doing[q]
  BY <1>2 DEF TypeOK
<1>5. Keyed'
  BY <1>1, <1>3, <1>4 DEF Keyed
<1> QED BY <1>3, <1>5

LEMMA CreateLinkKeepsKeys ==
  ASSUME TypeOK, Keyed, NEW p \in Processes, CreateLink(p)
  PROVE  TypeOK' /\ Keyed'
<1>1. PICK l \in Link :
        /\ minted' = minted \cup {l.id}
        /\ Decide(p, [id |-> l.id, before |-> NONE, after |-> l])
        /\ UNCHANGED <<links, audit, lost, crashes>>
  BY DEF CreateLink
<1> DEFINE c == [id |-> l.id, before |-> NONE, after |-> l]
<1>2. c \in Change /\ c.id = l.id /\ c.before = NONE /\ c.after = l /\ l.id \in Ids
  BY DEF Change, Version, Link
<1> HIDE DEF c
<1>3. Decide(p, c) /\ links' = links
  BY <1>1 DEF c
<1>4. doing' \in [Processes -> Pending \cup {NONE}] /\ Keyed'
  BY <1>2, <1>3, DecidingKeepsKeys
<1> QED BY <1>1, <1>2, <1>4 DEF TypeOK

LEMMA UpdateLinkKeepsKeys ==
  ASSUME TypeOK, Keyed, NEW p \in Processes, UpdateLink(p)
  PROVE  TypeOK' /\ Keyed'
<1>1. PICK i \in Ids, l \in Link :
        /\ links[i] # NONE /\ l.id = i
        /\ Decide(p, [id |-> i, before |-> links[i], after |-> l])
        /\ UNCHANGED <<links, audit, minted, lost, crashes>>
  BY DEF UpdateLink
<1> DEFINE c == [id |-> i, before |-> links[i], after |-> l]
<1>2. /\ c \in Change /\ c.id = i /\ c.before = links[i] /\ c.after = l
      /\ links[i].id = i
  BY <1>1 DEF Change, Version, TypeOK, Keyed
<1> HIDE DEF c
<1>3. Decide(p, c) /\ links' = links
  BY <1>1 DEF c
<1>4. doing' \in [Processes -> Pending \cup {NONE}] /\ Keyed'
  BY <1>1, <1>2, <1>3, DecidingKeepsKeys
<1> QED BY <1>1, <1>4 DEF TypeOK

LEMMA RemoveLinkKeepsKeys ==
  ASSUME TypeOK, Keyed, NEW p \in Processes, RemoveLink(p)
  PROVE  TypeOK' /\ Keyed'
<1>1. PICK i \in Ids :
        /\ links[i] # NONE
        /\ Decide(p, [id |-> i, before |-> links[i], after |-> NONE])
        /\ UNCHANGED <<links, audit, minted, lost, crashes>>
  BY DEF RemoveLink
<1> DEFINE c == [id |-> i, before |-> links[i], after |-> NONE]
<1>2. /\ c \in Change /\ c.id = i /\ c.before = links[i] /\ c.after = NONE
      /\ links[i].id = i
  BY <1>1 DEF Change, Version, TypeOK, Keyed
<1> HIDE DEF c
<1>3. Decide(p, c) /\ links' = links
  BY <1>1 DEF c
<1>4. doing' \in [Processes -> Pending \cup {NONE}] /\ Keyed'
  BY <1>2, <1>3, DecidingKeepsKeys
<1> QED BY <1>1, <1>4 DEF TypeOK

LEMMA WriteLinkKeepsKeys ==
  ASSUME TypeOK, Keyed, NEW p \in Processes, WriteLink(p)
  PROVE  TypeOK' /\ Keyed'
<1> DEFINE c == doing[p].change
           d == [doing[p] EXCEPT !.stage = "written"]
<1>1. /\ doing[p] # NONE
      /\ links' = [links EXCEPT ![c.id] = c.after]
      /\ doing' = [doing EXCEPT ![p] = d]
      /\ UNCHANGED <<audit, minted, lost, crashes>>
  BY DEF WriteLink
<1>2. doing[p] \in Pending /\ c \in Change
  BY <1>1 DEF TypeOK, Pending
<1>3. d \in Pending /\ d # NONE /\ d.change = c
  BY <1>2, LinkAssumption DEF Pending
<1>4. c.after # NONE => c.after.id = c.id
  BY <1>1 DEF Keyed
<1>5. c.before # NONE => c.before.id = c.id
  BY <1>1 DEF Keyed
<1> HIDE DEF c, d
<1>6. /\ links' \in [Ids -> Version] /\ doing' \in [Processes -> Pending \cup {NONE}]
      /\ c.id \in Ids /\ links'[c.id] = c.after /\ doing'[p] = d
  BY <1>1, <1>2, <1>3 DEF TypeOK, Change
<1>7. /\ \A i \in Ids : i # c.id => links'[i] = links[i]
      /\ \A q \in Processes : q # p => doing'[q] = doing[q]
  BY <1>1 DEF TypeOK
<1>8. Keyed'
  BY <1>3, <1>4, <1>5, <1>6, <1>7 DEF Keyed
<1> QED BY <1>1, <1>6, <1>8 DEF TypeOK

\* A process that has done, or has died.
LEMMA DoneKeepsKeys ==
  ASSUME TypeOK, Keyed, NEW p \in Processes,
         links' = links, doing' = [doing EXCEPT ![p] = NONE]
  PROVE  doing' \in [Processes -> Pending \cup {NONE}] /\ Keyed'
BY DEF TypeOK, Keyed

LEMMA KeyedSteps ==
  ASSUME TypeOK, Keyed, [Next]_vars
  PROVE  TypeOK' /\ Keyed'
<1>1. CASE UNCHANGED vars
  BY <1>1 DEF vars, TypeOK, Keyed
<1>2. ASSUME NEW p \in Processes, WriteAudit(p)
      PROVE  TypeOK' /\ Keyed'
  <2>1. doing[p].change \in Change
    BY <1>2 DEF WriteAudit, TypeOK, Pending
  <2>2. doing' \in [Processes -> Pending \cup {NONE}] /\ Keyed'
    BY <1>2, DoneKeepsKeys DEF WriteAudit
  <2> QED BY <1>2, <2>1, <2>2 DEF WriteAudit, TypeOK
<1>3. ASSUME NEW p \in Processes, Crash(p)
      PROVE  TypeOK' /\ Keyed'
  <2>1. doing[p].change.id \in Ids
    BY <1>3 DEF Crash, TypeOK, Pending, Change
  <2>2. doing' \in [Processes -> Pending \cup {NONE}] /\ Keyed'
    BY <1>3, DoneKeepsKeys DEF Crash
  <2>3. lost' \subseteq Ids
    BY <1>3, <2>1 DEF Crash, TypeOK
  <2>4. crashes' \in 0..MaxCrashes
    BY <1>3, LinkAssumption DEF Crash, TypeOK
  <2> QED BY <1>3, <2>2, <2>3, <2>4 DEF Crash, TypeOK
<1> QED
  BY <1>1, <1>2, <1>3, CreateLinkKeepsKeys, UpdateLinkKeepsKeys, RemoveLinkKeepsKeys,
     WriteLinkKeepsKeys DEF Next, Step

LEMMA KeyedAlways == Spec => [](TypeOK /\ Keyed)
<1>1. (TypeOK /\ Keyed) /\ [Next]_vars => (TypeOK /\ Keyed)'
  BY KeyedSteps
<1> QED BY KeyedInitially, <1>1, PTL DEF Spec

\* What list() returns is a graph.
LEMMA ListedGraph ==
  ASSUME TypeOK, Keyed
  PROVE  IsGraph(Listed(links))
<1> DEFINE L == Listed(links)
           entries == {links[i] : i \in Ids}
<1>1. links \in Surjection(Ids, entries)
  BY DEF TypeOK, Surjection
<1>2. IsFiniteSet(entries)
  BY <1>1, FS_Surjection, TraversalAssumption
<1>3. L \subseteq entries
  BY DEF Listed
<1>4. IsFiniteSet(L)
  BY <1>2, <1>3, FS_Subset
<1>5. \A l \in L : \E i \in Ids : l = links[i] /\ l.id = i /\ l \in Link
  BY DEF Listed, TypeOK, Version, Keyed
<1>6. \A l \in L : /\ l.id \in Nat /\ l.order \in Nat
                   /\ l.subject \in Scopes /\ l.target \in Scopes
  BY <1>5, LinkAssumption DEF Link
<1> QED BY <1>4, <1>5, <1>6 DEF IsGraph, Ordered

-----------------------------------------------------------------------------
\* The state of the registry is well-typed, whoever writes.
THEOREM TypeCorrect == Spec => []TypeOK
BY KeyedAlways, PTL

\* The walk (traverseScopeLinks) yields every scope within maxDepth links once
\* and the nearer before the farther, on every graph that any processes can
\* leave in the store, for any number of scopes, kinds and links; and the
\* search for a cycle that is built on it finds a chain of any length.
THEOREM WalkIsReach == Spec => []TraversalIsReach
<1>1. ASSUME TypeOK, Keyed PROVE TraversalIsReach
  <2>1. IsGraph(Listed(links))
    BY <1>1, ListedGraph
  <2> QED BY <2>1, NearerFirst, SearchFindsChains DEF TraversalIsReach
<1> QED BY <1>1, KeyedAlways, PTL

\* A scope that several links lead to stands where the first of them, by the
\* place of the scope it starts from and then by its order, puts it.
THEOREM FirstLinkPlaces == Spec => []FirstOccurrenceWins
<1>1. ASSUME TypeOK, Keyed PROVE FirstOccurrenceWins
  <2>1. IsGraph(Listed(links))
    BY <1>1, ListedGraph
  <2> QED BY <2>1, FirstWins DEF FirstOccurrenceWins
<1> QED BY <1>1, KeyedAlways, PTL

\* The reach of an agent (resolveCandidateScopeIds) is the least set of scopes
\* that holds its seed and is closed along the kinds its policy names.
THEOREM ReachIsLeastClosed == Spec => []ReachIsClosed
<1>1. ASSUME TypeOK, Keyed PROVE ReachIsClosed
  <2>1. IsGraph(Listed(links))
    BY <1>1, ListedGraph
  <2> DEFINE reach(home, child, kinds) ==
               ToSet(Candidates(IF child = home THEN <<home>> ELSE <<home, child>>,
                                SetToSeq(kinds), Listed(links)))
             Stable(home, child, kinds, C) ==
               /\ {home, child} \subseteq C
               /\ \A l \in Listed(links) : l.kind \in kinds /\ l.target \in C
                                             => l.subject \in C
  <2>2. ASSUME NEW home \in Scopes, NEW child \in Scopes, NEW kinds \in SUBSET Kinds
        PROVE  /\ Stable(home, child, kinds, reach(home, child, kinds))
               /\ \A C \in SUBSET Scopes : Stable(home, child, kinds, C)
                                            => reach(home, child, kinds) \subseteq C
    BY <2>1, ReachIsLeast
  <2>3. (\A home, child \in Scopes, kinds \in SUBSET Kinds :
           /\ Stable(home, child, kinds, reach(home, child, kinds))
           /\ \A C \in SUBSET Scopes : Stable(home, child, kinds, C)
                                        => reach(home, child, kinds) \subseteq C)
        => ReachIsClosed
    BY DEF ReachIsClosed
  <2> HIDE DEF reach, Stable
  <2> QED BY <2>2, <2>3
<1> QED BY <1>1, KeyedAlways, PTL
=============================================================================

------------------------------ MODULE ScopeLinks ------------------------------
(***************************************************************************)
(* ScopeLinkRegistry (agent/lib/scope-link-registry.ts): the links between *)
(* scopes, which compose them into one graph per kind of link, and the     *)
(* audit trail of their changes.                                           *)
(*                                                                         *)
(* create(), update() and remove() read the links, decide, write one link  *)
(* and write one audit record: three accesses to a store that the web and  *)
(* the agent process share.  Within a process nothing comes between them   *)
(* but its death; another process may come between any two.                *)
(***************************************************************************)
EXTENDS Naturals, FiniteSets

CONSTANTS
  Processes,
  Scopes,      \* ids a request may name
  Known,       \* those with a record
  Kinds,       \* mounted-in, contributes-defaults, rolls-up-to, ...
  Orders,
  Ids,         \* ids that createId() may return, each once
  MaxRevision, \* bound: revisions of a link
  MaxChanges,  \* bound: changes of all links together
  MaxCrashes,  \* bound: deaths between the two writes
  NONE

Link == [id : Ids, kind : Kinds, subject : Scopes, target : Scopes,
         order : Orders, revision : 1..MaxRevision]

Version == Link \cup {NONE}

\* A change of one link: NONE before its creation and after its removal.
Change == [id : Ids, before : Version, after : Version]

\* A change that a process has decided upon, or has written to the link.
Pending == [stage : {"decided", "written"}, change : Change]

ASSUME LinkAssumption ==
  /\ Known \subseteq Scopes
  /\ Ids \subseteq Nat /\ Orders \subseteq Nat
  /\ MaxRevision \in Nat \ {0} /\ MaxChanges \in Nat /\ MaxCrashes \in Nat
  /\ NONE \notin Link /\ NONE \notin Pending

VARIABLES
  links,    \* the store of links, by id
  audit,    \* the audit records
  doing,    \* what each process has decided and not finished
  minted,   \* ids that createId() has returned
  lost,     \* links with a change whose audit record died with its process
  crashes

vars == <<links, audit, doing, minted, lost, crashes>>

TypeOK ==
  /\ links \in [Ids -> Version]
  /\ audit \subseteq Change
  /\ doing \in [Processes -> Pending \cup {NONE}]
  /\ minted \subseteq Ids
  /\ lost \subseteq Ids
  /\ crashes \in 0..MaxCrashes

\* list()
Listed(store) == {store[i] : i \in Ids} \ {NONE}

\* The scopes in C have no link of the kind that leads out of C.
Closed(C, kind, L) ==
  \A l \in L : l.kind = kind /\ l.subject \in C => l.target \in C

\* A chain of links of the kind leads from one scope to the other.
Reaches(from, to, kind, L) ==
  \A C \in SUBSET Scopes : from \in C /\ Closed(C, kind, L) => to \in C

\* wouldCreateScopeLinkCycle()
WouldCreateCycle(l, L) ==
  \/ l.subject = l.target
  \/ Reaches(l.target, l.subject, l.kind, L)

Init ==
  /\ links = [i \in Ids |-> NONE]
  /\ audit = {} /\ minted = {} /\ lost = {} /\ crashes = 0
  /\ doing = [p \in Processes |-> NONE]

Decide(p, change) ==
  /\ Cardinality(audit) + crashes < MaxChanges
  /\ doing' = [doing EXCEPT ![p] = [stage |-> "decided", change |-> change]]

-----------------------------------------------------------------------------
\* create(): both scopes have a record, and no link closes a cycle.
CreateLink(p) ==
  /\ doing[p] = NONE
  /\ \E l \in Link :
       /\ l.id \notin minted /\ l.revision = 1
       /\ l.subject \in Known /\ l.target \in Known
       /\ ~WouldCreateCycle(l, Listed(links))
       /\ minted' = minted \cup {l.id}
       /\ Decide(p, [id |-> l.id, before |-> NONE, after |-> l])
  /\ UNCHANGED <<links, audit, lost, crashes>>

\* Mutant: the search for a cycle looks at the kind the link had.
UpdateLinkOldKind(p) ==
  /\ doing[p] = NONE
  /\ \E i \in Ids : \E l \in Link :
       /\ links[i] # NONE
       /\ l.id = i /\ l.revision = links[i].revision + 1
       /\ l.subject \in Known /\ l.target \in Known
       /\ ~WouldCreateCycle([l EXCEPT !.kind = links[i].kind],
                            Listed(links) \ {links[i]})
       /\ Decide(p, [id |-> i, before |-> links[i], after |-> l])
  /\ UNCHANGED <<links, audit, minted, lost, crashes>>

\* Mutant: the revision is not counted.
UpdateLinkUncounted(p) ==
  /\ doing[p] = NONE
  /\ \E i \in Ids : \E l \in Link :
       /\ links[i] # NONE
       /\ l.id = i /\ l.revision = links[i].revision
       /\ l.subject \in Known /\ l.target \in Known
       /\ ~WouldCreateCycle(l, Listed(links) \ {links[i]})
       /\ Decide(p, [id |-> i, before |-> links[i], after |-> l])
  /\ UNCHANGED <<links, audit, minted, lost, crashes>>

\* update() and reorder(): whoever sends the stored revision may change any
\* field but the id; the link itself is left out of the search for a cycle.
UpdateLink(p) ==
  /\ doing[p] = NONE
  /\ \E i \in Ids : \E l \in Link :
       /\ links[i] # NONE
       /\ l.id = i /\ l.revision = links[i].revision + 1
       /\ l.subject \in Known /\ l.target \in Known
       /\ ~WouldCreateCycle(l, Listed(links) \ {links[i]})
       /\ Decide(p, [id |-> i, before |-> links[i], after |-> l])
  /\ UNCHANGED <<links, audit, minted, lost, crashes>>

\* remove()
RemoveLink(p) ==
  /\ doing[p] = NONE
  /\ \E i \in Ids :
       /\ links[i] # NONE
       /\ Decide(p, [id |-> i, before |-> links[i], after |-> NONE])
  /\ UNCHANGED <<links, audit, minted, lost, crashes>>

\* links.set() or links.delete()
WriteLink(p) ==
  /\ doing[p] # NONE /\ doing[p].stage = "decided"
  /\ links' = [links EXCEPT ![doing[p].change.id] = doing[p].change.after]
  /\ doing' = [doing EXCEPT ![p].stage = "written"]
  /\ UNCHANGED <<audit, minted, lost, crashes>>

WriteAudit(p) ==
  /\ doing[p] # NONE /\ doing[p].stage = "written"
  /\ audit' = audit \cup {doing[p].change}
  /\ doing' = [doing EXCEPT ![p] = NONE]
  /\ UNCHANGED <<links, minted, lost, crashes>>

\* The process dies; the store keeps what was written.
Crash(p) ==
  /\ doing[p] # NONE /\ crashes < MaxCrashes
  /\ doing' = [doing EXCEPT ![p] = NONE] /\ crashes' = crashes + 1
  /\ lost' = IF doing[p].stage = "written" THEN lost \cup {doing[p].change.id}
                                           ELSE lost
  /\ UNCHANGED <<links, audit, minted>>

Step(p) == \/ CreateLink(p) \/ UpdateLink(p) \/ RemoveLink(p)
           \/ WriteLink(p) \/ WriteAudit(p) \/ Crash(p)

Next == \E p \in Processes : Step(p)

Spec == Init /\ [][Next]_vars

-----------------------------------------------------------------------------
\* Links that a process has changed without an audit record so far.
InFlight == {doing[p].change.id :
               p \in {q \in Processes : doing[q] # NONE /\ doing[q].stage = "written"}}

\* No cycle of links of one kind, whatever sequence of creations, changes of
\* kind or end and removals led here: every set of scopes has one from which
\* no link of the kind stays within the set.
Acyclic ==
  \A kind \in Kinds : \A S \in SUBSET Scopes :
    S # {} => \E s \in S : \A l \in Listed(links) :
      l.kind = kind /\ l.subject = s => l.target \notin S

\* The audit trail of a link is one chain of versions from its creation to
\* what the store holds now: every version but the present one was left by
\* exactly one recorded change, and every one but the first was entered by
\* one.  The exceptions are links a process was changing when it died.
AuditReplays ==
  \A i \in Ids \ (lost \cup InFlight) :
    LET trail == {r \in audit : r.id = i}
    IN /\ {r.before : r \in trail} \cup {links[i]}
            = {NONE} \cup {r.after : r \in trail}
       /\ \A r, s \in trail : r # s => r.before # s.before /\ r.after # s.after
=============================================================================

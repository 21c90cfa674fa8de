------------------------- MODULE AgentThreadsProofs -------------------------
(***************************************************************************)
(* Proofs about AgentThreads, for every value of its constants.            *)
(*                                                                         *)
(* Inv strengthens the checked invariants: an id is minted before a record *)
(* uses it, so that a new record is nobody's source; and the preference    *)
(* stored before membership names an unclaimed live thread, so that        *)
(* claiming both at once keeps the preference usable.                      *)
(***************************************************************************)
EXTENDS AgentThreads, TLAPS

MintedFirst ==
  /\ \A t \in Threads : threads[t] # NONE => t \in minted
  /\ \A t \in Threads : threads[t] # NONE /\ threads[t].forkedFrom # NONE
                          => threads[t].forkedFrom \in minted

LegacyPrefUsable ==
  legacyPref # NONE /\ legacyPref.active # NONE
    => legacyPref.active \in LiveOf(NONE)

Inv ==
  /\ TypeOK /\ MintedFirst /\ LegacyPrefUsable
  /\ ActiveThreadUsable /\ WorkspaceIsHome /\ ForkSharesHome

-----------------------------------------------------------------------------
\* Records.

\* What no operation but a claim, a delete or an archive takes from a thread.
SameThread(r, s) ==
  /\ s \in Thread
  /\ s.owner = r.owner /\ s.status = r.status /\ s.forkedFrom = r.forkedFrom

\* The binding is the same, up to the model.
SameHome(r, s) ==
  r.binding # NONE =>
    /\ s.binding # NONE
    /\ s.binding.home = r.binding.home
    /\ s.binding.context = r.binding.context
    /\ s.workspace = r.workspace

HomeOk(r) ==
  r.workspace # NONE /\ r.binding # NONE => r.binding.home = r.workspace

LEMMA BumpFacts ==
  ASSUME NEW r \in Thread, r.revision <= MaxRevision + 1
  PROVE  /\ Bump(r) \in Thread
         /\ Bump(r).revision = r.revision + 1
         /\ Bump(r).binding = r.binding /\ Bump(r).workspace = r.workspace
         /\ Bump(r).owner = r.owner /\ Bump(r).status = r.status
         /\ Bump(r).forkedFrom = r.forkedFrom
BY ConstantsAssumption DEF Bump, Thread, Revision

LEMMA NewThreadFacts ==
  ASSUME NEW o \in Or(Users), NEW w \in Or(Workspaces),
         NEW b \in Binding \cup {NONE}, NEW t \in Titles,
         NEW f \in Or(Threads), NEW d \in Revision \cup {NONE},
         NEW r, r = NewThread(o, w, b, t, f, d)
  PROVE  /\ r \in Thread
         /\ r.owner = o /\ r.status = "active" /\ r.forkedFrom = f
         /\ r.workspace = w /\ r.binding = b /\ r.revision = 1
<1>1. (CHOOSE x \in Options : TRUE) \in Options
  BY ConstantsAssumption
<1>2. (CHOOSE x \in Snapshots : TRUE) \in Snapshots
  BY ConstantsAssumption
<1>3. 1 \in Revision
  BY ConstantsAssumption DEF Revision
<1> QED BY <1>1, <1>2, <1>3 DEF NewThread, Thread, Or

LEMMA OwnedFacts ==
  ASSUME TypeOK, NEW u, NEW id \in Threads, Owned(u, id)
  PROVE  threads[id] \in Thread /\ threads[id].owner = u
BY DEF TypeOK, Owned

LEMMA HomesFacts ==
  ASSUME TypeOK, NEW u \in Users, NEW w \in Or(Workspaces), NEW kind,
         NEW h \in Homes(u, w, kind)
  PROVE  /\ h \in Users \cup Workspaces
         /\ h # u => h \in Workspaces /\ CanRead(u, h)
         /\ w # NONE => h = w
BY DEF Homes

LEMMA MigratedFacts ==
  ASSUME TypeOK, NEW u \in Users, NEW id \in Threads, Owned(u, id), Room(id),
         NEW s \in Migrated(u, id), HomeOk(threads[id])
  PROVE  /\ SameThread(threads[id], s) /\ SameHome(threads[id], s)
         /\ HomeOk(s) /\ s.binding \in Binding
         /\ s.workspace = threads[id].workspace
         /\ s.revision <= MaxRevision + 1
         /\ s.binding.home = u \/ CanRead(u, s.binding.home)
<1> DEFINE r == threads[id]
<1>1. r \in Thread /\ r.owner = u
  BY OwnedFacts
<1>2. r.revision <= MaxRevision
  BY DEF Room
<1>3. CASE r.binding # NONE
  <2>1. s = r /\ Authorized(u, r.binding)
    BY <1>3 DEF Migrated
  <2>2. r.binding \in Binding
    BY <1>1, <1>3 DEF Thread
  <2> QED
    BY <1>1, <1>2, <2>1, <2>2, ConstantsAssumption
    DEF SameThread, SameHome, HomeOk, Authorized, Thread, Revision
<1>4. CASE r.binding = NONE
  <2>1. PICK h \in Homes(u, r.workspace, "any") :
          s = [Bump(r) EXCEPT !.binding =
                 [home |-> h, context |-> {}, model |-> NONE]]
    BY <1>4 DEF Migrated
  <2>2. r.workspace \in Or(Workspaces)
    BY <1>1 DEF Thread
  <2>3. /\ h \in Users \cup Workspaces
        /\ h # u => h \in Workspaces /\ CanRead(u, h)
        /\ r.workspace # NONE => h = r.workspace
    BY <2>2, HomesFacts
  <2>4. [home |-> h, context |-> {}, model |-> NONE] \in Binding
    BY <2>3 DEF Binding, Or
  <2>5. r.revision <= MaxRevision + 1
    BY <1>1, <1>2, ConstantsAssumption DEF Thread, Revision
  <2>6. /\ Bump(r) \in Thread /\ Bump(r).revision = r.revision + 1
        /\ Bump(r).workspace = r.workspace
        /\ Bump(r).owner = r.owner /\ Bump(r).status = r.status
        /\ Bump(r).forkedFrom = r.forkedFrom
    BY <1>1, <2>5, BumpFacts
  <2>7. /\ s \in Thread /\ s.revision = r.revision + 1
        /\ s.workspace = r.workspace /\ s.owner = r.owner
        /\ s.status = r.status /\ s.forkedFrom = r.forkedFrom
        /\ s.binding = [home |-> h, context |-> {}, model |-> NONE]
    BY <2>1, <2>4, <2>6 DEF Thread
  <2>8. s.revision <= MaxRevision + 1
    BY <1>1, <1>2, <2>7, ConstantsAssumption DEF Thread, Revision
  <2> QED
    BY <1>4, <2>3, <2>4, <2>7, <2>8 DEF SameThread, SameHome, HomeOk
<1> QED BY <1>3, <1>4

-----------------------------------------------------------------------------
\* Steps.  Every operation is shown to preserve Inv and to leave the binding
\* identity of every bound thread alone.

StableStep ==
  \A t \in Threads : Kept(t) /\ threads[t].binding # NONE =>
    /\ threads'[t].binding # NONE
    /\ threads'[t].binding.home = threads[t].binding.home
    /\ threads'[t].binding.context = threads[t].binding.context

\* One thread evolves; nothing else moves.
Evolves(id, r) ==
  /\ threads' = [threads EXCEPT ![id] = r]
  /\ SameThread(threads[id], r) /\ SameHome(threads[id], r) /\ HomeOk(r)

LEMMA UpdateStepInv ==
  ASSUME Inv, NEW id \in Threads, NEW r, threads[id] # NONE, Evolves(id, r),
         UNCHANGED <<minted, prefs, legacyPref, grants>>
  PROVE  Inv' /\ StableStep
<1> USE DEF Inv
<1>1. threads[id] \in Thread /\ r \in Thread /\ r # NONE
  BY NoneIsNoRecord DEF TypeOK, Evolves, SameThread
<1>2. /\ threads' \in [Threads -> Thread \cup {NONE}]
      /\ threads'[id] = r
      /\ \A t \in Threads \ {id} : threads'[t] = threads[t]
  BY <1>1 DEF TypeOK, Evolves
<1>3. TypeOK'
  BY <1>2 DEF TypeOK
<1>4. MintedFirst'
  BY <1>1, <1>2 DEF MintedFirst, Evolves, SameThread
<1>5. \A u : LiveOf(u) \subseteq LiveOf(u)'
  BY <1>1, <1>2 DEF LiveOf, Owned, Evolves, SameThread
<1>6. LegacyPrefUsable' /\ ActiveThreadUsable'
  BY <1>5 DEF LegacyPrefUsable, ActiveThreadUsable, ActiveId
<1>7. WorkspaceIsHome'
  BY <1>1, <1>2 DEF WorkspaceIsHome, Evolves, HomeOk
<1>8. ForkSharesHome'
  BY <1>1, <1>2 DEF ForkSharesHome, Evolves, SameThread, SameHome
<1>9. StableStep
  BY <1>1, <1>2 DEF StableStep, Kept, Evolves, SameHome
<1> QED BY <1>3, <1>4, <1>6, <1>7, <1>8, <1>9

\* A new record under an id never used before, bound like its source.
Born(u, id, r) ==
  /\ id \notin minted /\ minted' = minted \cup {id}
  /\ r \in Thread /\ r.owner = u /\ r.status = "active" /\ HomeOk(r)
  /\ r.binding # NONE
  /\ SetActive(u, id)
  /\ UNCHANGED <<legacyPref, grants>>

LEMMA PrefSet ==
  ASSUME TypeOK, NEW u \in Users, NEW id \in Or(Threads), SetActive(u, id)
  PROVE  /\ prefs' \in [Users -> Preference \cup {NONE}]
         /\ ActiveId(u)' = id
         /\ \A v \in Users \ {u} : ActiveId(v)' = ActiveId(v)
<1>1. [active |-> id, focus |-> Focus(u)] \in Preference
  BY DEF TypeOK, Focus, Preference, Or
<1>2. /\ prefs'[u] = [active |-> id, focus |-> Focus(u)]
      /\ \A v \in Users \ {u} : prefs'[v] = prefs[v]
      /\ prefs' \in [Users -> Preference \cup {NONE}]
  BY <1>1 DEF TypeOK, SetActive
<1>3. prefs'[u] # NONE
  BY <1>1, <1>2, NoneIsNoRecord
<1> QED BY <1>1, <1>2, <1>3 DEF ActiveId

LEMMA BirthInv ==
  ASSUME Inv, NEW u \in Users, NEW id \in Threads, NEW r, Born(u, id, r),
         NEW source \in Threads, NEW s,
         \/ /\ threads' = [threads EXCEPT ![id] = r]
            /\ r.forkedFrom = NONE
         \/ /\ threads' = [threads EXCEPT ![source] = s, ![id] = r]
            /\ threads[source] # NONE
            /\ SameThread(threads[source], s) /\ SameHome(threads[source], s)
            /\ HomeOk(s) /\ s.binding = r.binding
            /\ r.forkedFrom = source
  PROVE  Inv' /\ StableStep
<1> USE DEF Inv
<1>1. threads[id] = NONE /\ r # NONE
  BY NoneIsNoRecord DEF MintedFirst, Born
<1>2. \A t \in Threads : threads[t] # NONE => threads[t] \in Thread
  BY DEF TypeOK
<1>3. /\ threads' \in [Threads -> Thread \cup {NONE}]
      /\ threads'[id] = r
      /\ \A t \in Threads \ {id} :
           \/ threads'[t] = threads[t]
           \/ /\ threads[t] # NONE /\ threads'[t] # NONE
              /\ SameThread(threads[t], threads'[t])
              /\ SameHome(threads[t], threads'[t])
              /\ HomeOk(threads'[t])
  BY <1>1, NoneIsNoRecord DEF TypeOK, Born, SameThread
<1>4. /\ prefs' \in [Users -> Preference \cup {NONE}]
      /\ ActiveId(u)' = id
      /\ \A v \in Users \ {u} : ActiveId(v)' = ActiveId(v)
  BY PrefSet DEF Born, Or
<1>5. TypeOK'
  BY <1>3, <1>4 DEF TypeOK, Born
<1>6. MintedFirst'
  <2>1. r.forkedFrom # NONE => r.forkedFrom \in minted'
    BY <1>1 DEF MintedFirst, Born
  <2> QED BY <1>1, <1>2, <1>3, <2>1 DEF MintedFirst, Born, SameThread
<1>7. (\A v : LiveOf(v) \subseteq LiveOf(v)') /\ id \in LiveOf(u)'
  BY <1>1, <1>3 DEF LiveOf, Owned, SameThread, Born
<1>8. LegacyPrefUsable' /\ ActiveThreadUsable'
  BY <1>4, <1>7 DEF LegacyPrefUsable, ActiveThreadUsable, Born
<1>9. WorkspaceIsHome'
  BY <1>1, <1>3 DEF WorkspaceIsHome, Born, HomeOk
<1>10. ForkSharesHome'
  <2> SUFFICES ASSUME NEW t \in Threads, threads'[t] # NONE,
                      threads'[t].forkedFrom # NONE,
                      threads'[threads'[t].forkedFrom] # NONE
               PROVE  LET f == threads'[t].forkedFrom IN
                      /\ threads'[f].binding # NONE
                      /\ threads'[t].binding # NONE
                      /\ threads'[t].binding.home = threads'[f].binding.home
    BY DEF ForkSharesHome
  <2>1. CASE t = id
    BY <1>1, <1>3, <2>1 DEF Born
  <2>2. CASE t # id
    <3>1. /\ threads[t] # NONE
          /\ threads[t].forkedFrom = threads'[t].forkedFrom
          /\ SameHome(threads[t], threads'[t])
      BY <1>3, <2>2 DEF SameThread, SameHome
    <3>2. threads[t].forkedFrom \in minted
      BY <3>1 DEF MintedFirst
    <3>3. threads[t].forkedFrom \in Threads \ {id}
      BY <3>2 DEF Born, TypeOK
    <3>4. /\ threads[threads[t].forkedFrom] # NONE
          /\ SameHome(threads[threads[t].forkedFrom],
                      threads'[threads[t].forkedFrom])
      BY <1>3, <3>1, <3>3 DEF SameHome
    <3> QED BY <3>1, <3>3, <3>4 DEF ForkSharesHome, SameHome
  <2> QED BY <2>1, <2>2
<1>11. StableStep
  BY <1>1, <1>3 DEF StableStep, Kept, SameHome
<1> QED BY <1>5, <1>6, <1>8, <1>9, <1>10, <1>11

\* archive() and delete(): the thread leaves the live ones, and the active
\* slot with it.
LEMMA HandoverInv ==
  ASSUME Inv, NEW u \in Users, NEW id \in Threads, Owned(u, id),
         NEW r \in Thread \cup {NONE},
         r # NONE => /\ r.owner = u /\ r.forkedFrom = threads[id].forkedFrom
                     /\ SameHome(threads[id], r) /\ HomeOk(r),
         threads' = [threads EXCEPT ![id] = r],
         Handover(u, id), UNCHANGED <<minted, legacyPref, grants>>
  PROVE  Inv' /\ StableStep
<1> USE DEF Inv
<1>1. threads[id] \in Thread /\ threads[id].owner = u
  BY OwnedFacts
<1>2. /\ threads' \in [Threads -> Thread \cup {NONE}]
      /\ threads'[id] = r
      /\ \A t \in Threads \ {id} : threads'[t] = threads[t]
  BY DEF TypeOK
<1>3. \A v : LiveOf(v) \ {id} \subseteq LiveOf(v)'
  BY <1>2 DEF LiveOf, Owned
<1>4. \A v : v # u => id \notin LiveOf(v)
  BY <1>1 DEF LiveOf, Owned
<1>5. /\ prefs' \in [Users -> Preference \cup {NONE}]
      /\ \A v \in Users : ActiveId(v)' # NONE => ActiveId(v)' \in LiveOf(v)'
  <2>1. CASE ActiveId(u) # id
    <3>1. prefs' = prefs
      BY <2>1 DEF Handover
    <3>2. \A v \in Users : ActiveId(v)' = ActiveId(v) /\ ActiveId(v) # id
      BY <2>1, <3>1, <1>4, ConstantsAssumption
      DEF ActiveId, ActiveThreadUsable
    <3> QED BY <3>1, <3>2, <1>3 DEF ActiveThreadUsable, TypeOK
  <2>2. CASE ActiveId(u) = id
    <3>1. PICK next \in Or(LiveOf(u) \ {id}) : SetActive(u, next)
      BY <2>2 DEF Handover, Or
    <3>2. next \in Or(Threads)
      BY DEF Or, LiveOf
    <3>3. /\ prefs' \in [Users -> Preference \cup {NONE}]
          /\ ActiveId(u)' = next
          /\ \A v \in Users \ {u} : ActiveId(v)' = ActiveId(v)
      BY <3>1, <3>2, PrefSet
    <3>4. next # NONE => next \in LiveOf(u)'
      BY <1>3 DEF Or
    <3>5. \A v \in Users \ {u} : ActiveId(v)' # NONE => ActiveId(v)' \in LiveOf(v)'
      BY <3>3, <1>3, <1>4 DEF ActiveThreadUsable
    <3> QED BY <3>3, <3>4, <3>5
  <2> QED BY <2>1, <2>2
<1>6. TypeOK'
  BY <1>2, <1>5 DEF TypeOK
<1>7. MintedFirst'
  BY <1>1, <1>2, NoneIsNoRecord DEF MintedFirst
<1>8. LegacyPrefUsable'
  <2>1. u # NONE
    BY ConstantsAssumption
  <2> QED BY <1>3, <1>4, <2>1 DEF LegacyPrefUsable
<1>9. WorkspaceIsHome'
  BY <1>2 DEF WorkspaceIsHome, HomeOk
<1>10. ForkSharesHome'
  BY <1>1, <1>2, NoneIsNoRecord DEF ForkSharesHome, SameHome
<1>11. StableStep
  BY <1>2 DEF StableStep, Kept, SameHome
<1> QED BY <1>5, <1>6, <1>7, <1>8, <1>9, <1>10, <1>11 DEF ActiveThreadUsable

\* The active slot or the grants change and no thread does.
LEMMA PreferenceInv ==
  ASSUME Inv, UNCHANGED <<threads, minted, legacyPref>>,
         grants' \in SUBSET (Users \X Workspaces),
         prefs' \in [Users -> Preference \cup {NONE}],
         \A v \in Users : ActiveId(v)' \in {ActiveId(v), NONE} \cup LiveOf(v)
  PROVE  Inv' /\ StableStep
<1> USE DEF Inv
<1>1. TypeOK' /\ MintedFirst' /\ WorkspaceIsHome' /\ ForkSharesHome'
  BY DEF TypeOK, MintedFirst, WorkspaceIsHome, ForkSharesHome
<1>2. \A v : LiveOf(v)' = LiveOf(v)
  BY DEF LiveOf, Owned
<1>3. LegacyPrefUsable' /\ ActiveThreadUsable'
  BY <1>2 DEF LegacyPrefUsable, ActiveThreadUsable
<1>4. StableStep
  BY DEF StableStep, Kept
<1> QED BY <1>1, <1>3, <1>4

LEMMA ClaimInv ==
  ASSUME Inv, NEW u \in Users, ClaimLegacyRecords(u)
  PROVE  Inv' /\ StableStep
<1> USE DEF Inv, ClaimLegacyRecords
<1>1. \A t \in Threads :
        \/ threads'[t] = threads[t]
        \/ /\ threads[t] \in Thread /\ threads[t].owner = NONE
           /\ threads'[t] = [threads[t] EXCEPT !.owner = u]
           /\ threads'[t] \in Thread /\ threads'[t] # NONE
           /\ threads'[t].owner = u
           /\ threads'[t].status = threads[t].status
           /\ threads'[t].binding = threads[t].binding
           /\ threads'[t].workspace = threads[t].workspace
           /\ threads'[t].forkedFrom = threads[t].forkedFrom
  BY NoneIsNoRecord DEF TypeOK, Thread, Or
<1>2. TypeOK'
  <2>1. threads' \in [Threads -> Thread \cup {NONE}]
    BY <1>1 DEF TypeOK
  <2>2. prefs' \in [Users -> Preference \cup {NONE}]
    BY DEF TypeOK
  <2> QED BY <2>1, <2>2 DEF TypeOK
<1>3. MintedFirst' /\ WorkspaceIsHome'
  BY <1>1 DEF MintedFirst, WorkspaceIsHome
<1>4. ForkSharesHome'
  BY <1>1 DEF ForkSharesHome, MintedFirst, TypeOK
<1>5. LiveOf(u) \subseteq LiveOf(u)' /\ LiveOf(NONE) \subseteq LiveOf(u)'
  BY <1>1 DEF LiveOf, Owned
<1>6. ActiveThreadUsable'
  BY <1>5 DEF ActiveThreadUsable, ActiveId, LegacyPrefUsable, TypeOK
<1>7. LegacyPrefUsable'
  BY DEF LegacyPrefUsable
<1>8. StableStep
  BY <1>1 DEF StableStep, Kept
<1> QED BY <1>2, <1>3, <1>4, <1>6, <1>7, <1>8

LEMMA EnsureBoundInv ==
  ASSUME Inv, NEW u \in Users, EnsureBound(u)
  PROVE  Inv' /\ StableStep
<1> USE DEF Inv
<1>1. PICK done \in SUBSET LiveOf(u) :
        /\ \A t \in done : Migrated(u, t) # {} /\ Room(t)
        /\ threads' = [t \in Threads |->
              IF t \in done THEN CHOOSE r \in Migrated(u, t) : TRUE
                            ELSE threads[t]]
        /\ UNCHANGED <<minted, prefs, legacyPref, grants>>
  BY DEF EnsureBound
<1>2. \A t \in done : threads'[t] \in Migrated(u, t)
  BY <1>1 DEF LiveOf
<1>3. \A t \in done : /\ threads[t] # NONE /\ threads'[t] # NONE
                      /\ SameThread(threads[t], threads'[t])
                      /\ SameHome(threads[t], threads'[t])
                      /\ HomeOk(threads'[t])
  <2> SUFFICES ASSUME NEW t \in done
               PROVE  /\ threads[t] # NONE /\ threads'[t] # NONE
                      /\ SameThread(threads[t], threads'[t])
                      /\ SameHome(threads[t], threads'[t])
                      /\ HomeOk(threads'[t])
    OBVIOUS
  <2>1. t \in Threads /\ Owned(u, t) /\ Room(t) /\ threads[t] # NONE
    BY <1>1 DEF LiveOf, Owned
  <2>2. HomeOk(threads[t])
    BY <2>1 DEF WorkspaceIsHome, HomeOk
  <2>3. /\ SameThread(threads[t], threads'[t])
        /\ SameHome(threads[t], threads'[t]) /\ HomeOk(threads'[t])
    BY <1>2, <2>1, <2>2, MigratedFacts
  <2> QED BY <2>1, <2>3, NoneIsNoRecord DEF SameThread
<1>4. \A t \in Threads \ done : threads'[t] = threads[t]
  BY <1>1
<1>5. TypeOK'
  <2>1. \A t \in Threads : threads'[t] \in Thread \cup {NONE}
    BY <1>3, <1>4 DEF TypeOK, SameThread
  <2> QED BY <1>1, <2>1 DEF TypeOK
<1>6. MintedFirst'
  <2>1. \A t \in Threads : threads'[t] # NONE =>
          /\ threads[t] # NONE
          /\ threads'[t].forkedFrom = threads[t].forkedFrom
    BY <1>3, <1>4 DEF SameThread
  <2> QED BY <1>1, <2>1 DEF MintedFirst
<1>7. \A v : LiveOf(v) \subseteq LiveOf(v)'
  BY <1>3, <1>4 DEF LiveOf, Owned, SameThread
<1>8. LegacyPrefUsable' /\ ActiveThreadUsable'
  BY <1>1, <1>7 DEF LegacyPrefUsable, ActiveThreadUsable, ActiveId
<1>9. WorkspaceIsHome'
  BY <1>3, <1>4 DEF WorkspaceIsHome, HomeOk
<1>10. ForkSharesHome'
  <2> SUFFICES ASSUME NEW t \in Threads, threads'[t] # NONE,
                      threads'[t].forkedFrom # NONE,
                      threads'[threads'[t].forkedFrom] # NONE
               PROVE  LET f == threads'[t].forkedFrom IN
                      /\ threads'[f].binding # NONE
                      /\ threads'[t].binding # NONE
                      /\ threads'[t].binding.home = threads'[f].binding.home
    BY DEF ForkSharesHome
  <2>1. /\ threads[t] # NONE
        /\ threads[t].forkedFrom = threads'[t].forkedFrom
        /\ SameHome(threads[t], threads'[t])
    BY <1>3, <1>4 DEF SameThread, SameHome
  <2>2. threads[t].forkedFrom \in Threads
    BY <2>1 DEF MintedFirst, TypeOK
  <2>3. /\ threads[threads[t].forkedFrom] # NONE
        /\ SameHome(threads[threads[t].forkedFrom],
                    threads'[threads[t].forkedFrom])
    BY <1>3, <1>4, <2>1, <2>2 DEF SameHome
  <2> QED BY <2>1, <2>3 DEF ForkSharesHome, SameHome
<1>11. StableStep
  BY <1>3, <1>4 DEF StableStep, Kept, SameHome
<1> QED BY <1>5, <1>6, <1>8, <1>9, <1>10, <1>11

-----------------------------------------------------------------------------
\* The operations, one by one.

LEMMA BindingStepInv ==
  ASSUME Inv, NEW u \in Users, BindingStep(u)
  PROVE  Inv' /\ StableStep
<1> USE DEF Inv
<1>0. \A id \in Threads : Owned(u, id) =>
        /\ threads[id] \in Thread /\ threads[id] # NONE /\ HomeOk(threads[id])
  BY OwnedFacts DEF Owned, WorkspaceIsHome, HomeOk
<1>1. ASSUME NEW id \in Threads, NEW w \in Or(Workspaces), NEW kind,
             NEW context \in SUBSET Workspaces, NEW model \in Or(Models),
             NEW title \in Titles, Create(u, id, w, kind, context, model, title)
      PROVE  Inv' /\ StableStep
  <2>1. PICK h \in Homes(u, w, kind) :
          Put(id, NewThread(u, IF h = u THEN NONE ELSE h,
                  [home |-> h, context |-> context, model |-> model],
                  title, NONE, NONE))
    BY <1>1 DEF Create
  <2> DEFINE b == [home |-> h, context |-> context, model |-> model]
             v == IF h = u THEN NONE ELSE h
             r == NewThread(u, v, b, title, NONE, NONE)
  <2>2. h \in Users \cup Workspaces /\ (h # u => h \in Workspaces)
    BY HomesFacts
  <2>3. b \in Binding /\ b # NONE /\ b.home = h /\ v \in Or(Workspaces)
    BY <2>2, NoneIsNoRecord DEF Binding, Or
  <2>4. /\ r \in Thread /\ r.owner = u /\ r.status = "active"
        /\ r.forkedFrom = NONE /\ r.workspace = v /\ r.binding = b
    <3>1. /\ u \in Or(Users) /\ v \in Or(Workspaces) /\ NONE \in Or(Threads)
          /\ b \in Binding \cup {NONE} /\ NONE \in Revision \cup {NONE}
      BY <2>3 DEF Or
    <3> HIDE DEF b, v
    <3>2. r = NewThread(u, v, b, title, NONE, NONE)
      OBVIOUS
    <3> HIDE DEF r
    <3> QED BY <3>1, <3>2, NewThreadFacts
  <2>5. Born(u, id, r)
    <3> HIDE DEF r, b
    <3> QED BY <1>1, <2>2, <2>3, <2>4 DEF Born, Create, HomeOk
  <2>6. threads' = [threads EXCEPT ![id] = r]
    BY <2>1 DEF Put
  <2> HIDE DEF r
  <2> QED BY <2>4, <2>5, <2>6, BirthInv
<1>2. ASSUME NEW id \in Threads, NEW r, NEW e,
             Owned(u, id), r \in Migrated(u, id), Update(u, id, e, r)
      PROVE  Inv' /\ StableStep
  <2>1. Evolves(id, r)
    BY <1>0, <1>2, MigratedFacts DEF Evolves, Update, MayUpdate, Put
  <2> QED BY <1>0, <1>2, <2>1, UpdateStepInv DEF Update
<1>3. ASSUME NEW id \in Threads, NEW model \in Or(Models), NEW e,
             RebindModel(u, id, model, e)
      PROVE  Inv' /\ StableStep
  <2> DEFINE held == IF threads[id].binding # NONE THEN e ELSE NONE
  <2>1. PICK r \in Migrated(u, id) :
          Owned(u, id) /\ Update(u, id, held, WithModel(r, model))
    BY <1>3 DEF RebindModel
  <2> HIDE DEF held
  <2>2. /\ SameThread(threads[id], r) /\ SameHome(threads[id], r)
        /\ HomeOk(r) /\ r.binding \in Binding /\ r.revision <= MaxRevision + 1
    BY <1>0, <2>1, MigratedFacts DEF Update, MayUpdate
  <2> DEFINE s == WithModel(r, model)
  <2>3. SameThread(r, s) /\ SameHome(r, s) /\ HomeOk(s)
    <3>1. CASE r.binding.model = model
      BY <2>2, <3>1 DEF WithModel, SameThread, SameHome
    <3>2. CASE r.binding.model # model
      <4> DEFINE q == Bump(r)
      <4>1. /\ q \in Thread /\ q.binding = r.binding
            /\ q.workspace = r.workspace /\ q.owner = r.owner
            /\ q.status = r.status /\ q.forkedFrom = r.forkedFrom
        BY <2>2, BumpFacts DEF SameThread
      <4> DEFINE c == [q.binding EXCEPT !.model = model]
      <4>2. c \in Binding /\ c.home = r.binding.home
            /\ c.context = r.binding.context /\ c # NONE
        BY <2>2, <4>1, NoneIsNoRecord DEF Binding
      <4>3. s = [q EXCEPT !.binding = c]
        BY <3>2 DEF WithModel
      <4> HIDE DEF q, c
      <4>4. /\ s \in Thread /\ s.binding = c /\ s.workspace = q.workspace
            /\ s.owner = q.owner /\ s.status = q.status
            /\ s.forkedFrom = q.forkedFrom
        BY <4>1, <4>2, <4>3 DEF Thread
      <4>5. SameThread(r, s) /\ SameHome(r, s)
        BY <4>1, <4>2, <4>4 DEF SameThread, SameHome
      <4>6. HomeOk(s)
        <5>1. r.workspace # NONE => r.binding.home = r.workspace
          BY <2>2, NoneIsNoRecord DEF HomeOk
        <5> HIDE DEF s
        <5> QED BY <5>1, <4>1, <4>2, <4>4 DEF HomeOk
      <4> QED BY <4>5, <4>6
    <3> QED BY <3>1, <3>2
  <2>4. Evolves(id, s)
    <3> HIDE DEF s
    <3> QED BY <2>1, <2>2, <2>3 DEF Evolves, SameThread, SameHome, Update, Put, s
  <2> HIDE DEF s
  <2> QED BY <1>0, <2>1, <2>4, UpdateStepInv DEF Update
<1>4. ASSUME NEW source \in Threads, NEW id \in Threads, NEW e,
             Fork(u, source, id, e)
      PROVE  Inv' /\ StableStep
  <2>1. Owned(u, source) /\ Room(source)
    BY <1>4 DEF Fork, MayUpdate
  <2>2. PICK s \in Migrated(u, source) :
          threads' = [threads EXCEPT ![source] = s,
            ![id] = NewThread(u, NONE, s.binding, s.title, source, s.revision)]
    BY <1>4 DEF Fork
  <2>3. /\ SameThread(threads[source], s) /\ SameHome(threads[source], s)
        /\ HomeOk(s) /\ s.binding \in Binding
    BY <1>0, <2>1, MigratedFacts
  <2> DEFINE r == NewThread(u, NONE, s.binding, s.title, source, s.revision)
  <2>4. /\ r \in Thread /\ r.owner = u /\ r.status = "active"
        /\ r.forkedFrom = source /\ r.workspace = NONE /\ r.binding = s.binding
    <3>1. /\ s.title \in Titles /\ s.revision \in Revision \cup {NONE}
          /\ s.binding \in Binding \cup {NONE}
      BY <2>3 DEF SameThread, Thread
    <3>2. u \in Or(Users) /\ NONE \in Or(Workspaces) /\ source \in Or(Threads)
      BY DEF Or
    <3>3. r = NewThread(u, NONE, s.binding, s.title, source, s.revision)
      OBVIOUS
    <3> HIDE DEF r
    <3> QED BY <3>1, <3>2, <3>3, NewThreadFacts
  <2>5. threads' = [threads EXCEPT ![source] = s, ![id] = r]
    BY <2>2
  <2> HIDE DEF r
  <2>6. Born(u, id, r)
    BY <1>4, <2>3, <2>4, NoneIsNoRecord DEF Born, Fork, HomeOk
  <2> QED BY <1>0, <2>1, <2>3, <2>4, <2>5, <2>6, BirthInv
<1>5. ASSUME NEW id \in Threads, EnsureFirst(u, id)
      PROVE  Inv' /\ StableStep
  <2>1. (CHOOSE t \in Titles : TRUE) \in Titles
    BY ConstantsAssumption
  <2> QED BY <1>1, <1>5, <2>1 DEF EnsureFirst, Or
<1>6. ASSUME NEW id \in Threads, ResolveExecution(u, id)
      PROVE  Inv' /\ StableStep
  BY <1>2, <1>6 DEF ResolveExecution
<1> QED
  BY <1>1, <1>3, <1>4, <1>5, <1>6, EnsureBoundInv, ConstantsAssumption
  DEF BindingStep

LEMMA UpdateStepsInv ==
  ASSUME Inv, NEW u \in Users, UpdateStep(u)
  PROVE  Inv' /\ StableStep
<1> USE DEF Inv
<1>0. ASSUME NEW id \in Threads, Owned(u, id)
      PROVE  /\ threads[id] \in Thread /\ threads[id].owner = u
             /\ threads[id] # NONE /\ HomeOk(threads[id])
  BY <1>0, OwnedFacts DEF Owned, WorkspaceIsHome, HomeOk
<1>1. ASSUME NEW id \in Threads, Owned(u, id), Room(id)
      PROVE  LET q == Bump(threads[id]) IN
             /\ q \in Thread /\ SameThread(threads[id], q)
             /\ SameHome(threads[id], q) /\ HomeOk(q)
             /\ q.binding = threads[id].binding
             /\ q.workspace = threads[id].workspace
  <2>1. threads[id].revision <= MaxRevision + 1
    BY <1>0, <1>1, ConstantsAssumption DEF Room, Thread, Revision
  <2> QED BY <1>0, <1>1, <2>1, BumpFacts DEF SameThread, SameHome, HomeOk
<1>2. ASSUME NEW id \in Threads, NEW e, NEW r, Update(u, id, e, r),
             SameThread(threads[id], r), SameHome(threads[id], r), HomeOk(r)
      PROVE  Inv' /\ StableStep
  BY <1>0, <1>2, UpdateStepInv DEF Evolves, Update, MayUpdate, Put
<1>3. ASSUME NEW id \in Threads, NEW e, NEW w \in Or(Workspaces),
             RebindWorkspace(u, id, w, e)
      PROVE  Inv' /\ StableStep
  <2> DEFINE r == [Bump(threads[id]) EXCEPT !.workspace = w]
  <2>1. Update(u, id, e, r) /\ threads[id].binding = NONE
    BY <1>3 DEF RebindWorkspace
  <2>2. SameThread(threads[id], r) /\ SameHome(threads[id], r) /\ HomeOk(r)
    BY <1>1, <2>1 DEF Update, MayUpdate, SameThread, SameHome, HomeOk, Thread
  <2> HIDE DEF r
  <2> QED BY <1>2, <2>1, <2>2
<1>4. ASSUME NEW id \in Threads, NEW e, NEW t \in Titles, Rename(u, id, t, e)
      PROVE  Inv' /\ StableStep
  <2> DEFINE r == [Bump(threads[id]) EXCEPT !.title = t]
  <2>1. Update(u, id, e, r)
    BY <1>4 DEF Rename
  <2>2. SameThread(threads[id], r) /\ SameHome(threads[id], r) /\ HomeOk(r)
    BY <1>1, <2>1 DEF Update, MayUpdate, SameThread, SameHome, HomeOk, Thread
  <2> HIDE DEF r
  <2> QED BY <1>2, <2>1, <2>2
<1>5. ASSUME NEW id \in Threads, NEW e, NEW o \in Options,
             SetRequestOptions(u, id, o, e)
      PROVE  Inv' /\ StableStep
  <2> DEFINE r == [Bump(threads[id]) EXCEPT !.options = o]
  <2>1. Update(u, id, e, r)
    BY <1>5 DEF SetRequestOptions
  <2>2. SameThread(threads[id], r) /\ SameHome(threads[id], r) /\ HomeOk(r)
    BY <1>1, <2>1 DEF Update, MayUpdate, SameThread, SameHome, HomeOk, Thread
  <2> HIDE DEF r
  <2> QED BY <1>2, <2>1, <2>2
<1>6. ASSUME NEW id \in Threads, NEW e, NEW x \in Snapshots,
             SaveSnapshot(u, id, x, e)
      PROVE  Inv' /\ StableStep
  <2> DEFINE r == [Bump(threads[id]) EXCEPT !.runtime = x]
  <2>1. Update(u, id, e, r)
    BY <1>6 DEF SaveSnapshot
  <2>2. SameThread(threads[id], r) /\ SameHome(threads[id], r) /\ HomeOk(r)
    BY <1>1, <2>1 DEF Update, MayUpdate, SameThread, SameHome, HomeOk, Thread
  <2> HIDE DEF r
  <2> QED BY <1>2, <2>1, <2>2
<1>7. ASSUME NEW id \in Threads, NEW e, ConsumeForkSeed(u, id, e)
      PROVE  Inv' /\ StableStep
  <2> DEFINE r == [Bump(threads[id]) EXCEPT !.seed = NONE]
  <2>1. Update(u, id, e, r)
    BY <1>7 DEF ConsumeForkSeed
  <2>2. SameThread(threads[id], r) /\ SameHome(threads[id], r) /\ HomeOk(r)
    BY <1>1, <2>1 DEF Update, MayUpdate, SameThread, SameHome, HomeOk, Thread
  <2> HIDE DEF r
  <2> QED BY <1>2, <2>1, <2>2
<1>8. ASSUME NEW id \in Threads, NEW e, Archive(u, id, e)
      PROVE  Inv' /\ StableStep
  <2> DEFINE q == Bump(threads[id])
             r == [q EXCEPT !.status = "archived"]
  <2>1. /\ Owned(u, id) /\ Room(id) /\ Handover(u, id)
        /\ threads' = [threads EXCEPT ![id] = r]
        /\ UNCHANGED <<minted, legacyPref, grants>>
    BY <1>8 DEF Archive, MayUpdate, Put
  <2>2. /\ q \in Thread /\ SameThread(threads[id], q)
        /\ SameHome(threads[id], q) /\ HomeOk(q)
    BY <1>1, <2>1
  <2>3. /\ r \in Thread /\ r.owner = u
        /\ r.forkedFrom = threads[id].forkedFrom
        /\ SameHome(threads[id], r) /\ HomeOk(r)
    <3> HIDE DEF q
    <3> QED BY <1>0, <2>1, <2>2 DEF SameThread, SameHome, HomeOk, Thread
  <2> HIDE DEF r
  <2> QED BY <2>1, <2>3, HandoverInv
<1>9. ASSUME NEW id \in Threads, NEW e, Delete(u, id, e)
      PROVE  Inv' /\ StableStep
  BY <1>9, HandoverInv DEF Delete, Put
<1> QED
  BY <1>3, <1>4, <1>5, <1>6, <1>7, <1>8, <1>9 DEF UpdateStep

LEMMA PreferenceStepInv ==
  ASSUME Inv, NEW u \in Users, PreferenceStep(u)
  PROVE  Inv' /\ StableStep
<1> USE DEF Inv
<1>1. ASSUME NEW id \in Or(Threads), SetActiveThread(u, id)
      PROVE  Inv' /\ StableStep
  <2>1. /\ prefs' \in [Users -> Preference \cup {NONE}]
        /\ ActiveId(u)' = id
        /\ \A v \in Users \ {u} : ActiveId(v)' = ActiveId(v)
    BY <1>1, PrefSet DEF SetActiveThread
  <2> QED BY <1>1, <2>1, PreferenceInv DEF SetActiveThread, TypeOK
<1>2. ASSUME NEW f \in Or(Workspaces), SetActiveContainer(u, f)
      PROVE  Inv' /\ StableStep
  <2> DEFINE p == [active |-> ActiveId(u), focus |-> f]
  <2>1. p \in Preference /\ p # NONE
    BY NoneIsNoRecord DEF TypeOK, ActiveId, Preference, Or
  <2>2. prefs' = [prefs EXCEPT ![u] = p]
    BY <1>2 DEF SetActiveContainer
  <2>3. prefs' \in [Users -> Preference \cup {NONE}]
    BY <2>1, <2>2 DEF TypeOK
  <2>4. \A v \in Users : ActiveId(v)' = ActiveId(v)
    BY <2>1, <2>2 DEF TypeOK, ActiveId
  <2> QED BY <1>2, <2>3, <2>4, PreferenceInv DEF SetActiveContainer, TypeOK
<1>3. ASSUME NEW w \in Workspaces, GrantChange(u, w)
      PROVE  Inv' /\ StableStep
  <2>1. grants' \in SUBSET (Users \X Workspaces)
    BY <1>3 DEF GrantChange, TypeOK
  <2>2. \A v \in Users : ActiveId(v)' = ActiveId(v)
    BY <1>3 DEF GrantChange, ActiveId
  <2> QED BY <1>3, <2>1, <2>2, PreferenceInv DEF GrantChange, TypeOK
<1> QED BY <1>1, <1>2, <1>3, ClaimInv DEF PreferenceStep

-----------------------------------------------------------------------------
LEMMA InitInv == Init => Inv
<1> SUFFICES ASSUME Init PROVE Inv
  OBVIOUS
<1>1. LegacyThread \subseteq Thread
  <2>1. ASSUME NEW o \in Or(Users), NEW w \in Or(Workspaces),
               NEW t \in Titles
        PROVE  /\ NewThread(o, w, NONE, t, NONE, NONE) \in Thread
               /\ NewThread(o, w, NONE, t, NONE, NONE).binding = NONE
               /\ NewThread(o, w, NONE, t, NONE, NONE).forkedFrom = NONE
    <3>1. /\ NONE \in Binding \cup {NONE} /\ NONE \in Or(Threads)
          /\ NONE \in Revision \cup {NONE}
      BY DEF Or
    <3> DEFINE r == NewThread(o, w, NONE, t, NONE, NONE)
    <3>2. r = NewThread(o, w, NONE, t, NONE, NONE)
      OBVIOUS
    <3> HIDE DEF r
    <3>3. r \in Thread /\ r.binding = NONE /\ r.forkedFrom = NONE
      BY <3>1, <3>2, NewThreadFacts
    <3> QED BY <3>2, <3>3
  <2>2. (CHOOSE t \in Titles : TRUE) \in Titles
    BY ConstantsAssumption
  <2> QED BY <2>1, <2>2, ConstantsAssumption DEF LegacyThread, Thread, Revision
<1>2. ASSUME NEW r \in LegacyThread
      PROVE  r.binding = NONE /\ r.forkedFrom = NONE
  <2>1. PICK o \in Or(Users), w \in Or(Workspaces) :
          r = [NewThread(o, w, NONE, CHOOSE t \in Titles : TRUE, NONE, NONE)
                 EXCEPT !.revision = 1]
    BY DEF LegacyThread
  <2> QED BY <2>1 DEF NewThread
<1>3. \A t \in Threads : threads[t] # NONE => threads[t] \in LegacyThread
  BY DEF Init
<1>4. LiveOf(NONE) \subseteq Threads
  BY DEF LiveOf
<1>5. TypeOK
  BY <1>1, <1>4, ConstantsAssumption DEF Init, TypeOK, Preference, Or
<1>6. MintedFirst /\ WorkspaceIsHome /\ ForkSharesHome
  BY <1>2, <1>3 DEF Init, MintedFirst, WorkspaceIsHome, ForkSharesHome
<1>7. LegacyPrefUsable /\ ActiveThreadUsable
  BY NoneIsNoRecord DEF Init, LegacyPrefUsable, ActiveThreadUsable, ActiveId, Or
<1> QED BY <1>5, <1>6, <1>7 DEF Inv

LEMMA NextInv == Inv /\ [Next]_vars => Inv' /\ StableStep
<1> SUFFICES ASSUME Inv, [Next]_vars PROVE Inv' /\ StableStep
  OBVIOUS
<1>1. CASE Next
  BY <1>1, BindingStepInv, UpdateStepsInv, PreferenceStepInv DEF Next
<1>2. CASE UNCHANGED vars
  <2> USE DEF Inv, vars
  <2>1. \A u \in Users : ActiveId(u)' = ActiveId(u)
    BY <1>2 DEF ActiveId
  <2> QED BY <1>2, <2>1, PreferenceInv DEF TypeOK
<1> QED BY <1>1, <1>2

LEMMA InvHolds == Spec => []Inv
BY InitInv, NextInv, PTL DEF Spec

\* The state always has its type.
THEOREM TypeCorrect == Spec => []TypeOK
<1>1. Inv => TypeOK
  BY DEF Inv
<1> QED BY <1>1, InvHolds, PTL

\* A principal's active conversation is one of its own live threads, however
\* archive, delete, fork, setActive and legacy claims interleave.
THEOREM ActiveThreadAlwaysUsable == Spec => []ActiveThreadUsable
<1>1. Inv => ActiveThreadUsable
  BY DEF Inv
<1> QED BY <1>1, InvHolds, PTL

\* Bound workspace content is homed in the workspace it records, for any
\* order of rebinding, migration, forking and grant changes.
THEOREM WorkspaceContentStaysHome == Spec => []WorkspaceIsHome
<1>1. Inv => WorkspaceIsHome
  BY DEF Inv
<1> QED BY <1>1, InvHolds, PTL

\* A fork is bound to its source's home for as long as both exist.
THEOREM ForkAlwaysSharesHome == Spec => []ForkSharesHome
<1>1. Inv => ForkSharesHome
  BY DEF Inv
<1> QED BY <1>1, InvHolds, PTL

\* The scopes a thread was bound to never change, whoever writes to it.
THEOREM BindingNeverMoves == Spec => BindingIdentityStable
<1>1. Inv /\ [Next]_vars => StableStep
  BY NextInv
<1> QED BY <1>1, InvHolds, PTL DEF Spec, BindingIdentityStable, StableStep

-----------------------------------------------------------------------------
\* Principals.  An operation writes the records its caller owns and ids no
\* record has had.

Apart(u) ==
  \A t \in Threads :
    threads[t] # NONE /\ threads[t].owner # u => threads'[t] = threads[t]

LEMMA PutApart ==
  ASSUME Inv, NEW u, NEW id \in Threads, NEW r, Put(id, r),
         Owned(u, id) \/ id \notin minted
  PROVE  Apart(u)
<1>1. \A t \in Threads \ {id} : threads'[t] = threads[t]
  BY DEF Put, Inv, TypeOK
<1> QED BY <1>1 DEF Apart, Owned, Inv, MintedFirst

LEMMA BindingApart ==
  ASSUME Inv, NEW u \in Users, BindingStep(u)
  PROVE  Apart(u)
<1>1. ASSUME NEW id \in Threads, NEW w, NEW kind, NEW context, NEW model,
             NEW title, Create(u, id, w, kind, context, model, title)
      PROVE  Apart(u)
  BY <1>1, PutApart DEF Create
<1>2. ASSUME NEW id \in Threads, EnsureFirst(u, id)
      PROVE  Apart(u)
  BY <1>1, <1>2 DEF EnsureFirst
<1>3. ASSUME EnsureBound(u)
      PROVE  Apart(u)
  <2>1. PICK done \in SUBSET LiveOf(u) :
          \A t \in Threads \ done : threads'[t] = threads[t]
    BY <1>3 DEF EnsureBound
  <2>2. \A t \in done : Owned(u, t)
    BY DEF LiveOf
  <2> QED BY <2>1, <2>2 DEF Apart, Owned
<1>4. ASSUME NEW id \in Threads, NEW e, NEW r, Update(u, id, e, r)
      PROVE  Apart(u)
  BY <1>4, PutApart DEF Update, MayUpdate
<1>5. ASSUME NEW source \in Threads, NEW id \in Threads, NEW e,
             Fork(u, source, id, e)
      PROVE  Apart(u)
  <2>1. \A t \in Threads \ {source, id} : threads'[t] = threads[t]
    BY <1>5 DEF Fork, Inv, TypeOK
  <2>2. \A t \in {source, id} : Owned(u, t) \/ threads[t] = NONE
    BY <1>5 DEF Fork, MayUpdate, Inv, MintedFirst
  <2> QED BY <2>1, <2>2 DEF Apart, Owned
<1>6. ASSUME NEW id \in Threads, ResolveExecution(u, id)
      PROVE  Apart(u)
  BY <1>4, <1>6 DEF ResolveExecution
<1>7. ASSUME NEW id \in Threads, NEW model, NEW e, RebindModel(u, id, model, e)
      PROVE  Apart(u)
  BY <1>4, <1>7 DEF RebindModel
<1> QED
  BY <1>1, <1>2, <1>3, <1>5, <1>6, <1>7 DEF BindingStep

LEMMA UpdateApart ==
  ASSUME Inv, NEW u \in Users, UpdateStep(u)
  PROVE  Apart(u)
<1>1. PICK id, r : id \in Threads /\ Put(id, r) /\ Owned(u, id)
  BY DEF UpdateStep, RebindWorkspace, Rename, SetRequestOptions, SaveSnapshot,
         ConsumeForkSeed, Archive, Delete, Update, MayUpdate
<1> QED BY <1>1, PutApart

\* Whatever a principal asks, and whatever anybody else is doing, the
\* conversations of the other principals stay as they were.
THEOREM PrincipalsStayApart == Spec => PrincipalsApart
<1>1. Inv => \A u \in Users : BindingStep(u) \/ UpdateStep(u) => Apart(u)
  BY BindingApart, UpdateApart
<1> QED BY <1>1, InvHolds, PTL DEF Spec, PrincipalsApart, Apart

-----------------------------------------------------------------------------
\* Authority.  A record an operation binds is bound to a home its owner may
\* read; the other operations leave the binding as it is.

MayRead(r) ==
  r.binding # NONE =>
    r.binding.home = r.owner \/ CanRead(r.owner, r.binding.home)

\* What becomes of the record r.
Bindable(r, s) ==
  \/ s = NONE \/ s = r
  \/ r # NONE /\ s.binding = r.binding
  \/ MayRead(s)

AuthorizedStep == \A t \in Threads : Bindable(threads[t], threads'[t])

LEMMA MigratedMayRead ==
  ASSUME Inv, NEW u \in Users, NEW id \in Threads, Owned(u, id), Room(id),
         NEW s \in Migrated(u, id)
  PROVE  /\ s.owner = u /\ s.binding \in Binding
         /\ s.binding.home = u \/ CanRead(u, s.binding.home)
<1>1. threads[id].owner = u /\ HomeOk(threads[id])
  BY OwnedFacts DEF Inv, Owned, WorkspaceIsHome, HomeOk
<1> QED BY <1>1, MigratedFacts DEF SameThread, Inv

LEMMA PutAuthorized ==
  ASSUME Inv, NEW id \in Threads, NEW r, Put(id, r), Bindable(threads[id], r)
  PROVE  AuthorizedStep
BY DEF AuthorizedStep, Put, Bindable, Inv, TypeOK

LEMMA BindingAuthorized ==
  ASSUME Inv, NEW u \in Users, BindingStep(u)
  PROVE  AuthorizedStep
<1>1. ASSUME NEW id \in Threads, NEW w \in Or(Workspaces), NEW kind,
             NEW context, NEW model, NEW title,
             Create(u, id, w, kind, context, model, title)
      PROVE  AuthorizedStep
  <2>1. PICK h \in Homes(u, w, kind) :
          Put(id, NewThread(u, IF h = u THEN NONE ELSE h,
                  [home |-> h, context |-> context, model |-> model],
                  title, NONE, NONE))
    BY <1>1 DEF Create
  <2>2. h = u \/ CanRead(u, h)
    BY HomesFacts DEF Inv
  <2>3. MayRead(NewThread(u, IF h = u THEN NONE ELSE h,
                  [home |-> h, context |-> context, model |-> model],
                  title, NONE, NONE))
    BY <2>2 DEF MayRead, NewThread
  <2> QED BY <2>1, <2>3, PutAuthorized DEF Bindable
<1>2. ASSUME NEW id \in Threads, EnsureFirst(u, id)
      PROVE  AuthorizedStep
  BY <1>1, <1>2 DEF EnsureFirst, Or
<1>3. ASSUME EnsureBound(u)
      PROVE  AuthorizedStep
  <2>1. PICK done \in SUBSET LiveOf(u) :
          /\ \A t \in done : Migrated(u, t) # {} /\ Room(t)
          /\ threads' = [t \in Threads |->
                IF t \in done THEN CHOOSE r \in Migrated(u, t) : TRUE
                              ELSE threads[t]]
    BY <1>3 DEF EnsureBound
  <2>2. \A t \in done : t \in Threads /\ Owned(u, t)
    BY DEF LiveOf
  <2>3. \A t \in done : threads'[t] \in Migrated(u, t)
    BY <2>1, <2>2
  <2>4. \A t \in done : MayRead(threads'[t])
    BY <2>1, <2>2, <2>3, MigratedMayRead DEF MayRead
  <2> QED BY <2>1, <2>4 DEF AuthorizedStep, Bindable
<1>4. ASSUME NEW id \in Threads, NEW e, NEW r \in Migrated(u, id),
             Update(u, id, e, r)
      PROVE  AuthorizedStep
  <2>1. MayRead(r)
    BY <1>4, MigratedMayRead DEF MayRead, Update, MayUpdate
  <2> QED BY <1>4, <2>1, PutAuthorized DEF Bindable, Update
<1>5. ASSUME NEW id \in Threads, NEW model, NEW e, RebindModel(u, id, model, e)
      PROVE  AuthorizedStep
  <2>1. PICK r \in Migrated(u, id) :
          \E held : Update(u, id, held, WithModel(r, model))
    BY <1>5 DEF RebindModel
  <2>2. /\ r.owner = u /\ r.binding \in Binding
        /\ r.binding.home = u \/ CanRead(u, r.binding.home)
        /\ r \in Thread
    <3>1. threads[id].owner = u /\ HomeOk(threads[id])
      BY <2>1, OwnedFacts
      DEF Inv, Owned, WorkspaceIsHome, HomeOk, Update, MayUpdate
    <3>2. r \in Thread
      BY <2>1, <3>1, MigratedFacts DEF SameThread, Inv, Update, MayUpdate
    <3> QED BY <2>1, <3>2, MigratedMayRead DEF Update, MayUpdate
  <2> DEFINE s == WithModel(r, model)
  <2>3. s.owner = r.owner /\ s.binding.home = r.binding.home
    BY <2>2 DEF WithModel, Bump, Thread, Binding
  <2>4. MayRead(s)
    BY <2>2, <2>3 DEF MayRead
  <2> QED BY <2>1, <2>4, PutAuthorized DEF Bindable, Update
<1>6. ASSUME NEW source \in Threads, NEW id \in Threads, NEW e,
             Fork(u, source, id, e)
      PROVE  AuthorizedStep
  <2>1. PICK r \in Migrated(u, source) :
          threads' = [threads EXCEPT ![source] = r,
            ![id] = NewThread(u, NONE, r.binding, r.title, source, r.revision)]
    BY <1>6 DEF Fork
  <2>2. /\ r.owner = u /\ r.binding \in Binding
        /\ r.binding.home = u \/ CanRead(u, r.binding.home)
    BY <1>6, MigratedMayRead DEF Fork, MayUpdate
  <2>3. /\ MayRead(r)
        /\ MayRead(NewThread(u, NONE, r.binding, r.title, source, r.revision))
    BY <2>2 DEF MayRead, NewThread
  <2> QED BY <2>1, <2>3 DEF AuthorizedStep, Bindable, Inv, TypeOK
<1>7. ASSUME NEW id \in Threads, ResolveExecution(u, id)
      PROVE  AuthorizedStep
  BY <1>4, <1>7 DEF ResolveExecution
<1> QED
  BY <1>1, <1>2, <1>3, <1>5, <1>6, <1>7 DEF BindingStep

LEMMA OtherStepsAuthorized ==
  ASSUME Inv, NEW u \in Users, UpdateStep(u) \/ PreferenceStep(u)
  PROVE  AuthorizedStep
<1>1. CASE UpdateStep(u)
  <2>1. PICK id \in Threads, e \in Expectation :
          \/ \E w \in Or(Workspaces) : RebindWorkspace(u, id, w, e)
          \/ \E t \in Titles : Rename(u, id, t, e)
          \/ \E o \in Options : SetRequestOptions(u, id, o, e)
          \/ \E s \in Snapshots : SaveSnapshot(u, id, s, e)
          \/ ConsumeForkSeed(u, id, e)
          \/ Archive(u, id, e)
          \/ Delete(u, id, e)
    BY <1>1 DEF UpdateStep
  <2>2. ASSUME NEW r, Put(id, r), Owned(u, id),
               r = NONE \/ r.binding = threads[id].binding
        PROVE  AuthorizedStep
    BY <2>2, PutAuthorized DEF Bindable, Owned
  <2>3. Owned(u, id) => threads[id] \in Thread
    BY OwnedFacts DEF Inv
  <2>4. ASSUME NEW w, RebindWorkspace(u, id, w, e)
        PROVE  AuthorizedStep
    BY <2>2, <2>3, <2>4 DEF RebindWorkspace, Update, MayUpdate, Bump, Thread
  <2>5. ASSUME NEW t, Rename(u, id, t, e)
        PROVE  AuthorizedStep
    BY <2>2, <2>3, <2>5 DEF Rename, Update, MayUpdate, Bump, Thread
  <2>6. ASSUME NEW o, SetRequestOptions(u, id, o, e)
        PROVE  AuthorizedStep
    BY <2>2, <2>3, <2>6 DEF SetRequestOptions, Update, MayUpdate, Bump, Thread
  <2>7. ASSUME NEW s, SaveSnapshot(u, id, s, e)
        PROVE  AuthorizedStep
    BY <2>2, <2>3, <2>7 DEF SaveSnapshot, Update, MayUpdate, Bump, Thread
  <2>8. ASSUME ConsumeForkSeed(u, id, e)
        PROVE  AuthorizedStep
    BY <2>2, <2>3, <2>8 DEF ConsumeForkSeed, Update, MayUpdate, Bump, Thread
  <2>9. ASSUME Archive(u, id, e)
        PROVE  AuthorizedStep
    BY <2>2, <2>3, <2>9 DEF Archive, Update, MayUpdate, Bump, Thread
  <2>10. ASSUME Delete(u, id, e)
        PROVE  AuthorizedStep
    BY <2>2, <2>10 DEF Delete
  <2> QED
    BY <2>1, <2>4, <2>5, <2>6, <2>7, <2>8, <2>9, <2>10
<1>2. ASSUME ClaimLegacyRecords(u)
      PROVE  AuthorizedStep
  <2>1. \A t \in Threads :
          \/ threads'[t] = threads[t]
          \/ /\ threads[t] \in Thread
             /\ threads'[t] = [threads[t] EXCEPT !.owner = u]
    BY <1>2 DEF ClaimLegacyRecords, Inv, TypeOK
  <2> QED BY <2>1, NoneIsNoRecord DEF AuthorizedStep, Bindable, Thread
<1>3. CASE UNCHANGED threads
  BY <1>3 DEF AuthorizedStep, Bindable
<1> QED
  BY <1>1, <1>2, <1>3
  DEF PreferenceStep, SetActiveThread, SetActiveContainer, GrantChange

\* No thread is bound to a workspace its owner may not read at that moment:
\* not when it is created or migrated, and not when a fork inherits the
\* binding of a thread whose grant has been revoked since.
THEOREM HomesAreAuthorized == Spec => HomeAuthorizedWhenBound
<1>1. Inv /\ [Next]_vars => AuthorizedStep
  <2>1. UNCHANGED vars => AuthorizedStep
    BY DEF vars, AuthorizedStep, Bindable
  <2> QED BY <2>1, BindingAuthorized, OtherStepsAuthorized DEF Next
<1>2. AuthorizedStep =>
        \A t \in Threads :
          /\ threads'[t] # NONE /\ threads'[t].binding # NONE
          /\ threads[t] = NONE \/ threads[t].binding = NONE
          => LET b == threads'[t].binding IN
             b.home = threads'[t].owner \/ CanRead(threads'[t].owner, b.home)
  BY DEF AuthorizedStep, Bindable, MayRead
<1> QED BY <1>1, <1>2, InvHolds, PTL DEF Spec, HomeAuthorizedWhenBound

-----------------------------------------------------------------------------
\* Revisions.  A record an operation changes gets a later revision; only the
\* claim of an ownerless record writes one without counting it.

Moved(r, s) ==
  \/ r = NONE \/ s = NONE \/ s = r
  \/ r.owner = NONE
  \/ s.revision > r.revision

RevisionStep == \A t \in Threads : Moved(threads[t], threads'[t])

LEMMA PutMoves ==
  ASSUME Inv, NEW id \in Threads, NEW r, Put(id, r), Moved(threads[id], r)
  PROVE  RevisionStep
BY DEF RevisionStep, Put, Moved, Inv, TypeOK

LEMMA BumpMoves ==
  ASSUME Inv, NEW u \in Users, NEW id \in Threads, Owned(u, id)
  PROVE  /\ threads[id] \in Thread
         /\ threads[id].revision \in Nat
         /\ Bump(threads[id]).revision = threads[id].revision + 1
         /\ Bump(threads[id]).revision > threads[id].revision
<1>1. threads[id] \in Thread
  BY OwnedFacts DEF Inv
<1>2. threads[id].revision \in Nat
  BY <1>1, ConstantsAssumption DEF Thread, Revision
<1>3. Bump(threads[id]).revision = threads[id].revision + 1
  BY <1>1 DEF Bump, Thread
<1> QED BY <1>1, <1>2, <1>3

\* Migrating a thread returns the record itself or a later one.
LEMMA MigratedMoves ==
  ASSUME Inv, NEW u \in Users, NEW id \in Threads, Owned(u, id), Room(id),
         NEW s \in Migrated(u, id)
  PROVE  /\ s = threads[id] \/ s.revision > threads[id].revision
         /\ s.revision \in Nat /\ threads[id].revision \in Nat
         /\ s \in Thread
<1> DEFINE r == threads[id]
<1>1. r \in Thread /\ r.revision \in Nat /\ HomeOk(r)
  BY BumpMoves DEF Inv, Owned, WorkspaceIsHome, HomeOk
<1>2. s \in Thread
  BY <1>1, MigratedFacts DEF SameThread, Inv
<1>3. s.revision \in Nat
  BY <1>2, ConstantsAssumption DEF Thread, Revision
<1>4. CASE r.binding # NONE
  BY <1>1, <1>2, <1>3, <1>4 DEF Migrated
<1>5. CASE r.binding = NONE
  <2>1. PICK h : s = [Bump(r) EXCEPT !.binding =
                        [home |-> h, context |-> {}, model |-> NONE]]
    BY <1>5 DEF Migrated
  <2>2. s.revision = Bump(r).revision
    BY <2>1, <1>1 DEF Bump, Thread
  <2> QED BY <1>1, <1>2, <1>3, <2>2, BumpMoves
<1> QED BY <1>4, <1>5

LEMMA BindingMoves ==
  ASSUME Inv, NEW u \in Users, BindingStep(u)
  PROVE  RevisionStep
<1>1. ASSUME NEW id \in Threads, NEW w, NEW kind, NEW context, NEW model,
             NEW title, Create(u, id, w, kind, context, model, title)
      PROVE  RevisionStep
  <2>1. threads[id] = NONE
    BY <1>1 DEF Create, Inv, MintedFirst
  <2> QED BY <1>1, <2>1, PutMoves DEF Create, Moved
<1>2. ASSUME NEW id \in Threads, EnsureFirst(u, id)
      PROVE  RevisionStep
  BY <1>1, <1>2 DEF EnsureFirst
<1>3. ASSUME EnsureBound(u)
      PROVE  RevisionStep
  <2>1. PICK done \in SUBSET LiveOf(u) :
          /\ \A t \in done : Migrated(u, t) # {} /\ Room(t)
          /\ threads' = [t \in Threads |->
                IF t \in done THEN CHOOSE r \in Migrated(u, t) : TRUE
                              ELSE threads[t]]
    BY <1>3 DEF EnsureBound
  <2>2. \A t \in done : t \in Threads /\ Owned(u, t)
    BY DEF LiveOf
  <2>3. \A t \in done : threads'[t] \in Migrated(u, t)
    BY <2>1, <2>2
  <2>4. \A t \in done : Moved(threads[t], threads'[t])
    BY <2>1, <2>2, <2>3, MigratedMoves DEF Moved
  <2> QED BY <2>1, <2>4 DEF RevisionStep, Moved
<1>4. ASSUME NEW id \in Threads, NEW e, NEW r \in Migrated(u, id),
             Update(u, id, e, r)
      PROVE  RevisionStep
  <2>1. Moved(threads[id], r)
    BY <1>4, MigratedMoves DEF Moved, Update, MayUpdate
  <2> QED BY <1>4, <2>1, PutMoves DEF Update
<1>5. ASSUME NEW id \in Threads, NEW model, NEW e, RebindModel(u, id, model, e)
      PROVE  RevisionStep
  <2>1. PICK r \in Migrated(u, id) :
          \E held : Update(u, id, held, WithModel(r, model))
    BY <1>5 DEF RebindModel
  <2>2. /\ r = threads[id] \/ r.revision > threads[id].revision
        /\ r.revision \in Nat /\ threads[id].revision \in Nat /\ r \in Thread
    BY <2>1, MigratedMoves DEF Update, MayUpdate
  <2> DEFINE s == WithModel(r, model)
  <2>3. s = r \/ s.revision = r.revision + 1
    BY <2>2 DEF WithModel, Bump, Thread
  <2>4. Moved(threads[id], s)
    <3> HIDE DEF s
    <3> QED BY <2>2, <2>3 DEF Moved
  <2> QED BY <2>1, <2>4, PutMoves DEF Update
<1>6. ASSUME NEW source \in Threads, NEW id \in Threads, NEW e,
             Fork(u, source, id, e)
      PROVE  RevisionStep
  <2>1. PICK r \in Migrated(u, source) :
          threads' = [threads EXCEPT ![source] = r,
            ![id] = NewThread(u, NONE, r.binding, r.title, source, r.revision)]
    BY <1>6 DEF Fork
  <2>2. Moved(threads[source], r) /\ threads[id] = NONE
    BY <1>6, MigratedMoves DEF Fork, MayUpdate, Moved, Inv, MintedFirst
  <2> QED BY <2>1, <2>2 DEF RevisionStep, Moved, Inv, TypeOK
<1>7. ASSUME NEW id \in Threads, ResolveExecution(u, id)
      PROVE  RevisionStep
  BY <1>4, <1>7 DEF ResolveExecution
<1> QED
  BY <1>1, <1>2, <1>3, <1>5, <1>6, <1>7 DEF BindingStep

LEMMA UpdateMoves ==
  ASSUME Inv, NEW u \in Users, UpdateStep(u)
  PROVE  RevisionStep
<1>1. PICK id \in Threads, e \in Expectation :
        \/ \E w \in Or(Workspaces) : RebindWorkspace(u, id, w, e)
        \/ \E t \in Titles : Rename(u, id, t, e)
        \/ \E o \in Options : SetRequestOptions(u, id, o, e)
        \/ \E s \in Snapshots : SaveSnapshot(u, id, s, e)
        \/ ConsumeForkSeed(u, id, e)
        \/ Archive(u, id, e)
        \/ Delete(u, id, e)
  BY DEF UpdateStep
<1>2. ASSUME NEW r, Put(id, r), Owned(u, id),
             r = NONE \/ r.revision = Bump(threads[id]).revision
      PROVE  RevisionStep
  BY <1>2, BumpMoves, PutMoves DEF Moved
<1>3. Owned(u, id) => threads[id] \in Thread
  BY OwnedFacts DEF Inv
<1>4. ASSUME NEW w, RebindWorkspace(u, id, w, e)
      PROVE  RevisionStep
  BY <1>2, <1>3, <1>4 DEF RebindWorkspace, Update, MayUpdate, Bump, Thread
<1>5. ASSUME NEW t, Rename(u, id, t, e)
      PROVE  RevisionStep
  BY <1>2, <1>3, <1>5 DEF Rename, Update, MayUpdate, Bump, Thread
<1>6. ASSUME NEW o, SetRequestOptions(u, id, o, e)
      PROVE  RevisionStep
  BY <1>2, <1>3, <1>6 DEF SetRequestOptions, Update, MayUpdate, Bump, Thread
<1>7. ASSUME NEW s, SaveSnapshot(u, id, s, e)
      PROVE  RevisionStep
  BY <1>2, <1>3, <1>7 DEF SaveSnapshot, Update, MayUpdate, Bump, Thread
<1>8. ASSUME ConsumeForkSeed(u, id, e)
      PROVE  RevisionStep
  BY <1>2, <1>3, <1>8 DEF ConsumeForkSeed, Update, MayUpdate, Bump, Thread
<1>9. ASSUME Archive(u, id, e)
      PROVE  RevisionStep
  BY <1>2, <1>3, <1>9 DEF Archive, Update, MayUpdate, Bump, Thread
<1>10. ASSUME Delete(u, id, e)
      PROVE  RevisionStep
  BY <1>2, <1>10 DEF Delete
<1> QED
  BY <1>1, <1>4, <1>5, <1>6, <1>7, <1>8, <1>9, <1>10

LEMMA PreferenceMoves ==
  ASSUME Inv, NEW u \in Users, PreferenceStep(u)
  PROVE  RevisionStep
<1>1. CASE ClaimLegacyRecords(u)
  BY <1>1 DEF ClaimLegacyRecords, RevisionStep, Moved, Inv, TypeOK
<1>2. CASE UNCHANGED threads
  BY <1>2 DEF RevisionStep, Moved
<1> QED
  BY <1>1, <1>2
  DEF PreferenceStep, SetActiveThread, SetActiveContainer, GrantChange

\* Two tabs that hold the same revision of an owned thread hold the same
\* thread: no operation of any principal writes a record and leaves its
\* revision where it was, also when it migrates the thread on the way.
THEOREM RevisionsNameContents == Spec => ChangeMovesRevision
<1>1. Inv /\ [Next]_vars => RevisionStep
  <2>1. UNCHANGED vars => RevisionStep
    BY DEF vars, RevisionStep, Moved
  <2> QED
    BY <2>1, BindingMoves, UpdateMoves, PreferenceMoves DEF Next
<1>2. RevisionStep =>
        \A t \in Threads :
          Kept(t) /\ threads'[t] # threads[t] /\ threads[t].owner # NONE
            => threads'[t].revision > threads[t].revision
  BY DEF RevisionStep, Moved, Kept
<1> QED BY <1>1, <1>2, InvHolds, PTL DEF Spec, ChangeMovesRevision
=============================================================================

---------------------- MODULE DynamicReferencesProofs ----------------------
(***************************************************************************)
(* Proofs about DynamicReferences, for every construct tree.               *)
(*                                                                         *)
(* What holds of every program is proved first (Always).  That every       *)
(* import is backed is true only of programs that are Disciplined: all     *)
(* their code runs before the synthesis and each token is a property of    *)
(* its own.  The run of ReferencesNested shows that the second half of     *)
(* that assumption cannot be dropped.                                      *)
(***************************************************************************)
EXTENDS DynamicReferences, TLAPS

Disciplined == LateCode = FALSE /\ Positions = {"property"}

(***************************************************************************)
(* Every program: what a template needs has at least been exported in the  *)
(* construct tree, though possibly too late.                               *)
(***************************************************************************)
ParamsExported == \A q \in params : q[2] \in exports
NeededExported == \A r \in Needed : r \in exports

Always == TypeOK /\ ParamsExported /\ NeededExported

(***************************************************************************)
(* Disciplined programs.                                                   *)
(***************************************************************************)
UsesCreated   == \A u \in uses : u[2] \in created
CreatedLocked == \A r \in created : lock[Stage(r)] # "none"
OpenIsMet     == \A s \in Stages : ~failed /\ lock[s] = "open" => s \in visiting
MetBeforeDone == \A s \in visiting : phase[s] # "done"
LockedStarted == \A s \in Stages : lock[s] = "locked" => phase[s] # "building"
AllShipped    == \A r \in exports : Stage(r) \in Written => r \in shipped.exports

Locking == /\ UsesCreated
           /\ CreatedLocked
           /\ OpenIsMet
           /\ MetBeforeDone
           /\ LockedStarted

IInv == Always /\ Locking /\ LockFindsEveryUse /\ AllShipped

-----------------------------------------------------------------------------
(***************************************************************************)
(* Resolving uses.                                                         *)
(***************************************************************************)

\* Resolving never takes an export or a parameter away, and exports whatever
\* it turns into an import or a parameter.
LEMMA ResolveGrows ==
    ASSUME TypeOK, NEW U \in SUBSET uses, Resolve(U)
    PROVE  /\ exports \subseteq exports' /\ exports' \subseteq Refs
           /\ params \subseteq params' /\ params' \subseteq Stacks \X Refs
           /\ failed' \in BOOLEAN
           /\ ~failed' => \A q \in Imported(U) : q[2] \in exports'
           /\ ~failed' => \A u \in Remote(U) : u[2] \in exports'
           /\ \A r \in exports' \ exports : \E u \in Remote(U) : r = u[2]
           /\ ParamsExported => \A q \in params' : q[2] \in exports'
<1>1. U \subseteq Stacks \X Refs \X Positions
  BY DEF TypeOK, Uses
<1>2. \A u \in Remote(U) : u[2] \in Refs
  BY <1>1 DEF Remote
<1>3. Parameterized(U) \subseteq Stacks \X Refs
  BY <1>1 DEF Parameterized
<1>4. \A q \in Parameterized(U) \cup Imported(U) : \E u \in Remote(U) : q[2] = u[2]
  <2>1. \A v \in U : RelationOf(v) \in {"CROSS_STAGE"} => v \in Remote(U)
    BY DEF Remote
  <2>2. \A v \in U : RelationOf(v) \notin {"LOCAL", "CROSS_STAGE"} => v \in Remote(U)
    BY DEF Remote
  <2>3. QED
    BY <2>1, <2>2 DEF Parameterized, Imported
<1>5. CASE Rejected(U)
  BY <1>5 DEF Resolve, TypeOK, ParamsExported
<1>6. CASE ~Rejected(U)
  <2>1. /\ exports' = exports \cup {u[2] : u \in Remote(U)}
        /\ params' = params \cup Parameterized(U)
        /\ failed' = failed
    BY <1>6 DEF Resolve
  <2>2. \A u \in Remote(U) : u[2] \in exports'
    BY <2>1
  <2>3. \A q \in Parameterized(U) \cup Imported(U) : q[2] \in exports'
    BY <2>2, <1>4
  <2>4. exports' \subseteq Refs /\ params' \subseteq Stacks \X Refs /\ failed' \in BOOLEAN
    BY <2>1, <1>2, <1>3 DEF TypeOK
  <2>5. \A r \in exports' \ exports : \E u \in Remote(U) : r = u[2]
    BY <2>1
  <2>6. ParamsExported => \A q \in params' : q[2] \in exports'
    BY <2>1, <2>3 DEF ParamsExported
  <2>7. QED
    BY <2>1, <2>2, <2>3, <2>4, <2>5, <2>6
<1>7. QED
  BY <1>5, <1>6

\* What the two resolving steps of the synthesis resolve is in uses.
LEMMA ResolvedAreUses ==
    ASSUME NEW s \in Stages
    PROVE  /\ Walked(s) \in SUBSET uses
           /\ {u \in uses : StageOf[u[1]] = s} \in SUBSET uses
BY DEF Walked

-----------------------------------------------------------------------------
(***************************************************************************)
(* Every program.                                                          *)
(***************************************************************************)

LEMMA AlwaysInit == Init => Always
<1> SUFFICES ASSUME Init
             PROVE  Always
  OBVIOUS
<1>1. shipped \in Templates
  BY DEF Init, Templates
<1>2. TypeOK
  BY <1>1 DEF Init, TypeOK, Uses
<1>3. shipped.imports = {} /\ shipped.params = {} /\ params = {}
  BY DEF Init
<1>4. ParamsExported /\ NeededExported
  BY <1>3 DEF ParamsExported, NeededExported, Needed
<1>5. QED
  BY <1>2, <1>4 DEF Always

LEMMA AlwaysNext == Always /\ [Next]_vars => Always'
<1> SUFFICES ASSUME Always, [Next]_vars
             PROVE  Always'
  OBVIOUS
<1> USE TreeAssumption
<1>t. TypeOK /\ ParamsExported /\ NeededExported
  BY DEF Always
<1>1. ASSUME NEW r \in Refs, CreateReference(r)
      PROVE  Always'
  <2>1. Stage(r) \in Stages
    BY DEF Stage
  <2>2. TypeOK'
    BY <1>t, <1>1, <2>1 DEF CreateReference, WillBeVisited, TypeOK, Uses, Templates
  <2>3. ParamsExported' /\ NeededExported'
    BY <1>t, <1>1 DEF CreateReference, ParamsExported, NeededExported, Needed
  <2>4. QED
    BY <2>2, <2>3 DEF Always
<1>2. ASSUME NEW c \in Stacks, NEW r \in Refs, NEW p \in Positions,
             UseReference(c, r, p)
      PROVE  Always'
  BY <1>t, <1>2 DEF UseReference, Always, TypeOK, ParamsExported, NeededExported,
                    Needed, Uses, Templates
<1>3. ASSUME NEW s \in Stages, BeginSynth(s)
      PROVE  Always'
  BY <1>t, <1>3 DEF BeginSynth, Always, TypeOK, ParamsExported, NeededExported,
                    Needed, Uses, Templates
<1>4. ASSUME NEW s \in Stages, VisitLock(s)
      PROVE  Always'
  <2>1. Walked(s) \in SUBSET uses /\ Resolve(Walked(s))
    BY <1>4, ResolvedAreUses DEF VisitLock
  <2>2. /\ exports \subseteq exports' /\ exports' \subseteq Refs
        /\ params' \subseteq Stacks \X Refs
        /\ failed' \in BOOLEAN
        /\ \A q \in params' : q[2] \in exports'
    BY <2>1, <1>t, ResolveGrows
  <2>3. TypeOK'
    BY <1>t, <1>4, <2>2 DEF VisitLock, TypeOK, Uses, Templates
  <2>4. ParamsExported' /\ NeededExported'
    BY <1>t, <1>4, <2>2 DEF VisitLock, ParamsExported, NeededExported, Needed
  <2>5. QED
    BY <2>3, <2>4 DEF Always
<1>5. ASSUME NEW s \in Stages, WriteTemplates(s)
      PROVE  Always'
  <2> DEFINE own == {u \in uses : StageOf[u[1]] = s}
  <2>1. own \in SUBSET uses /\ Resolve(own)
    BY <1>5 DEF WriteTemplates
  <2> HIDE DEF own
  <2>2. /\ exports \subseteq exports' /\ exports' \subseteq Refs
        /\ params' \subseteq Stacks \X Refs
        /\ failed' \in BOOLEAN
        /\ ~failed' => \A q \in Imported(own) : q[2] \in exports'
        /\ \A q \in params' : q[2] \in exports'
    BY <2>1, <1>t, ResolveGrows
  <2>3. /\ UNCHANGED <<lock, visiting, created, uses>>
        /\ IF failed'
           THEN UNCHANGED <<phase, shipped>>
           ELSE /\ phase' = [phase EXCEPT ![s] = "done"]
                /\ shipped'.imports = shipped.imports \cup Imported(own)
                /\ shipped'.params = shipped.params \cup {q \in params' : StageOf[q[1]] = s}
                /\ shipped' = [imports |-> shipped'.imports,
                               params |-> shipped'.params,
                               exports |-> shipped'.exports]
                /\ shipped'.exports = shipped.exports \cup {r \in exports' : Stage(r) = s}
    BY <1>5 DEF WriteTemplates, own
  <2>4. Imported(own) \subseteq Stacks \X Refs
    BY <2>1, <1>t DEF Imported, TypeOK, Uses
  <2>5. shipped' \in Templates
    BY <2>2, <2>3, <2>4, <1>t DEF TypeOK, Templates
  <2>6. TypeOK'
    BY <1>t, <2>2, <2>3, <2>5 DEF TypeOK, Uses
  <2>7. ParamsExported' /\ NeededExported'
    BY <1>t, <2>2, <2>3 DEF ParamsExported, NeededExported, Needed
  <2>8. QED
    BY <2>6, <2>7 DEF Always
<1>6. CASE UNCHANGED vars
  BY <1>t, <1>6 DEF vars, Always, TypeOK, ParamsExported, NeededExported,
                    Needed, Uses, Templates
<1>7. QED
  BY <1>1, <1>2, <1>3, <1>4, <1>5, <1>6 DEF Next, SynthStep, Ended

LEMMA AlwaysHolds == Spec => []Always
BY AlwaysInit, AlwaysNext, PTL DEF Spec

\* Every state of every program is well formed.
THEOREM TypeCorrect == Spec => []TypeOK
<1>1. Always => TypeOK
  BY DEF Always
<1>2. QED
  BY <1>1, AlwaysHolds, PTL

\* Whatever the program does, an export that a written template relies on is
\* in the tree of its stage before that stage is written.
THEOREM PendingImports == Spec => []PendingImportsExported
<1>1. Always => PendingImportsExported
  BY DEF Always, NeededExported, PendingImportsExported
<1>2. QED
  BY <1>1, AlwaysHolds, PTL

-----------------------------------------------------------------------------
(***************************************************************************)
(* Every program: what is resolved while a stage is being written is in    *)
(* the templates that are written with it.                                 *)
(***************************************************************************)

\* A parameter stands for a reference from another environment.
ParamsAreRemote ==
    \A q \in params \cup shipped.params : ~SameEnvironment(q[1], Producer[q[2]])

Serving == ParamsAreRemote /\ SiblingsAreServed

LEMMA RemoteParameters ==
    ASSUME NEW U
    PROVE  Parameterized(U) =
             {<<u[1], u[2]>> : u \in {v \in U : ~SameEnvironment(v[1], Producer[v[2]])}}
BY DEF Parameterized, RelationOf, Relation

LEMMA ResolvedParams ==
    ASSUME NEW U, Resolve(U)
    PROVE  /\ params' = params \/ params' = params \cup Parameterized(U)
           /\ ~failed' => Parameterized(U) \subseteq params'
<1>1. CASE Rejected(U)  BY <1>1 DEF Resolve
<1>2. CASE ~Rejected(U)  BY <1>2 DEF Resolve
<1> QED  BY <1>1, <1>2

LEMMA ServingInit == Init => Serving
<1> SUFFICES ASSUME Init PROVE Serving
  OBVIOUS
<1>1. shipped.params = {} /\ params = {} /\ uses = {}
  BY DEF Init
<1> QED
  BY <1>1 DEF Serving, ParamsAreRemote, SiblingsAreServed, SiblingImportsBacked, ParametersDeclared

LEMMA ServingNext == Always /\ Always' /\ Serving /\ [Next]_vars => Serving'
<1> SUFFICES ASSUME Always, Always', Serving, [Next]_vars PROVE Serving'
  OBVIOUS
<1> USE TreeAssumption DEF Serving, ParamsAreRemote, SiblingsAreServed, SiblingImportsBacked,
                           ParametersDeclared
<1>t. TypeOK /\ ParamsExported'
  BY DEF Always
<1>1. ASSUME UNCHANGED <<uses, params, shipped>>, Written' \subseteq Written PROVE Serving'
  BY <1>1
<1>2. ASSUME NEW r \in Refs, CreateReference(r) PROVE Serving'
  BY <1>1, <1>2 DEF CreateReference, Written
<1>3. ASSUME NEW c \in Stacks, NEW r \in Refs, NEW p \in Positions, UseReference(c, r, p)
      PROVE  Serving'
  <2>1. UNCHANGED <<phase, params, shipped>> /\ uses' = uses \cup {<<c, r, p>>}
        /\ phase[StageOf[c]] # "done"
    BY <1>3 DEF UseReference
  <2> QED  BY <2>1 DEF Written
<1>4. ASSUME NEW s \in Stages, BeginSynth(s) PROVE Serving'
  BY <1>1, <1>4, <1>t DEF BeginSynth, Written, TypeOK
<1>5. ASSUME NEW s \in Stages, VisitLock(s) PROVE Serving'
  <2>1. UNCHANGED <<phase, uses, shipped>> /\ Resolve(Walked(s))
    BY <1>5 DEF VisitLock
  <2>2. \A q \in params' : ~SameEnvironment(q[1], Producer[q[2]])
    BY <2>1, ResolvedParams, RemoteParameters
  <2> QED  BY <2>1, <2>2 DEF Written
<1>6. ASSUME NEW s \in Stages, WriteTemplates(s) PROVE Serving'
  <2> DEFINE own == {u \in uses : StageOf[u[1]] = s}
  <2>1. Resolve(own) /\ uses' = uses
    BY <1>6 DEF WriteTemplates
  <2> HIDE DEF own
  <2>2. \A q \in params' : ~SameEnvironment(q[1], Producer[q[2]])
    BY <2>1, ResolvedParams, RemoteParameters
  <2>3. CASE failed'
    BY <1>6, <2>1, <2>2, <2>3 DEF WriteTemplates, Written
  <2>4. CASE ~failed'
    <3>1. /\ shipped'.params = shipped.params \cup {q \in params' : StageOf[q[1]] = s}
          /\ shipped'.exports = shipped.exports \cup {r \in exports' : Stage(r) = s}
          /\ phase' = [phase EXCEPT ![s] = "done"]
      BY <1>6, <2>4 DEF WriteTemplates
    <3>2. ParamsAreRemote'
      BY <2>2, <3>1
    <3>3. SiblingImportsBacked'
      BY <1>t, <3>1 DEF ParamsExported, Stage
    <3>4. ASSUME NEW u \in uses', StageOf[u[1]] \in Written', ~SameEnvironment(u[1], Producer[u[2]])
          PROVE  <<u[1], u[2]>> \in shipped'.params
      <4>1. CASE StageOf[u[1]] = s
        <5>1. u \in own
          BY <2>1, <4>1 DEF own
        <5>2. <<u[1], u[2]>> \in Parameterized(own)
          BY <3>4, <5>1, RemoteParameters
        <5>3. <<u[1], u[2]>> \in params'
          BY <2>1, <2>4, <5>2, ResolvedParams
        <5> QED  BY <3>1, <4>1, <5>3
      <4>2. CASE StageOf[u[1]] # s
        BY <1>t, <2>1, <3>1, <3>4, <4>2 DEF Written, TypeOK
      <4> QED  BY <4>1, <4>2
    <3>5. \A q \in shipped'.params : ~SameEnvironment(q[1], Producer[q[2]])
      BY <3>2
    <3> QED  BY <3>2, <3>3, <3>4, <3>5
  <2> QED  BY <1>t, <2>3, <2>4 DEF Always, TypeOK
<1>7. CASE UNCHANGED vars
  BY <1>1, <1>7 DEF vars, Written
<1> QED
  BY <1>2, <1>3, <1>4, <1>5, <1>6, <1>7 DEF Next, SynthStep, Ended

\* Whatever comes late and wherever tokens are, in every tree of stages: a template that
\* takes a reference from another environment declares its parameter, no other template
\* does, and a sibling in the same stage finds the export that it takes.
THEOREM SiblingsAlwaysServed == Spec => []SiblingsAreServed
<1>1. Serving => SiblingsAreServed
  BY DEF Serving
<1> QED  BY AlwaysHolds, ServingInit, ServingNext, <1>1, PTL DEF Spec

-----------------------------------------------------------------------------
(***************************************************************************)
(* Disciplined programs: every lock is created before its stage's aspects  *)
(* run, so it is met there, and what it then finds is all there will be.   *)
(***************************************************************************)

\* Nothing is created or used any more when a stage has been started.
LEMMA DisciplinedCode ==
    ASSUME Disciplined, CodeRuns
    PROVE  ~failed /\ \A s \in Stages : phase[s] = "building"
BY DEF Disciplined, CodeRuns, Started

LEMMA LockingNext ==
    ASSUME Disciplined, Always, Locking, [Next]_vars
    PROVE  Locking'
<1> USE TreeAssumption DEF Locking, UsesCreated, CreatedLocked, OpenIsMet,
                           MetBeforeDone, LockedStarted
<1>t. TypeOK
  BY DEF Always
<1>1. ASSUME NEW r \in Refs, CreateReference(r)
      PROVE  Locking'
  <2> DEFINE s == Stage(r)
  <2>1. s \in Stages /\ phase[s] = "building" /\ ~failed
    BY <1>1, DisciplinedCode DEF Stage, CreateReference
  <2>2. lock[s] # "locked"
    BY <2>1
  <2>3. WillBeVisited(s) = {TRUE}
    BY <2>1 DEF WillBeVisited
  <2>4. CASE lock[s] = "open"
    BY <2>1, <2>4, <1>1, <1>t DEF CreateReference, TypeOK, Stage
  <2>5. CASE lock[s] = "none"
    <3>1. /\ lock' = [lock EXCEPT ![s] = "open"]
          /\ visiting' = visiting \cup {s}
          /\ created' = created \cup {r}
          /\ UNCHANGED <<phase, uses, failed>>
      BY <2>1, <2>3, <2>5, <1>1 DEF CreateReference
    <3>2. UsesCreated' /\ CreatedLocked'
      BY <3>1, <2>1, <1>t DEF TypeOK, Stage
    <3>3. OpenIsMet' /\ MetBeforeDone' /\ LockedStarted'
      BY <3>1, <2>1, <1>t DEF TypeOK
    <3>4. QED
      BY <3>2, <3>3
  <2>6. QED
    BY <2>1, <2>2, <2>4, <2>5, <1>t DEF TypeOK
<1>2. ASSUME NEW c \in Stacks, NEW r \in Refs, NEW p \in Positions,
             UseReference(c, r, p)
      PROVE  Locking'
  BY <1>t, <1>2 DEF UseReference, TypeOK, Stage
<1>3. ASSUME NEW s \in Stages, BeginSynth(s)
      PROVE  Locking'
  BY <1>t, <1>3 DEF BeginSynth, TypeOK, Stage
<1>4. ASSUME NEW s \in Stages, VisitLock(s)
      PROVE  Locking'
  <2>1. /\ ~failed /\ phase[s] = "aspects"
        /\ lock' = [lock EXCEPT ![s] = IF failed' THEN @ ELSE "locked"]
        /\ visiting' = visiting \ {s}
        /\ UNCHANGED <<phase, created, uses>>
    BY <1>4 DEF VisitLock
  <2>2. failed' \in BOOLEAN
    BY <1>t, <1>4, ResolvedAreUses, ResolveGrows DEF VisitLock
  <2>3. CASE failed'
    BY <2>1, <2>3, <1>t DEF TypeOK, Stage
  <2>4. CASE ~failed'
    BY <2>1, <2>4, <1>t DEF TypeOK, Stage
  <2>5. QED
    BY <2>2, <2>3, <2>4
<1>5. ASSUME NEW s \in Stages, WriteTemplates(s)
      PROVE  Locking'
  <2>1. /\ ~failed /\ phase[s] = "aspects" /\ s \notin visiting
        /\ UNCHANGED <<lock, visiting, created, uses>>
        /\ phase' = phase \/ phase' = [phase EXCEPT ![s] = "done"]
    BY <1>5 DEF WriteTemplates
  <2>2. UsesCreated' /\ CreatedLocked' /\ OpenIsMet'
    BY <2>1 DEF Stage
  <2>3. MetBeforeDone' /\ LockedStarted'
    BY <2>1, <1>t DEF TypeOK
  <2>4. QED
    BY <2>2, <2>3
<1>6. CASE UNCHANGED vars
  BY <1>6 DEF vars, Stage
<1>7. QED
  BY <1>1, <1>2, <1>3, <1>4, <1>5, <1>6 DEF Next, SynthStep, Ended

\* The code of a disciplined program runs while no stage is locked; the walk of
\* a lock reaches every other stage and no token hides from it.
LEMMA FindsEveryUseNext ==
    ASSUME Disciplined, Always, Locking, LockFindsEveryUse, [Next]_vars
    PROVE  LockFindsEveryUse'
<1> USE TreeAssumption DEF LockFindsEveryUse
<1>t. TypeOK
  BY DEF Always
<1>s. \A u \in uses : u[1] \in Stacks /\ u[2] \in Refs /\ u[3] = "property"
                      /\ Stage(u[2]) \in Stages /\ StageOf[u[1]] \in Stages
  BY <1>t DEF Disciplined, TypeOK, Uses, Stage
<1>1. ASSUME NEW r \in Refs, CreateReference(r)
      PROVE  LockFindsEveryUse'
  <2>1. \A s \in Stages : lock'[s] = "locked" => lock[s] = "locked"
    BY <1>1, <1>t DEF CreateReference, TypeOK
  <2>2. UNCHANGED <<uses, exports>>
    BY <1>1 DEF CreateReference
  <2>3. QED
    BY <2>1, <2>2, <1>s DEF Stage
<1>2. ASSUME NEW c \in Stacks, NEW r \in Refs, NEW p \in Positions,
             UseReference(c, r, p)
      PROVE  LockFindsEveryUse'
  <2>1. \A s \in Stages : lock'[s] # "locked"
    BY <1>2, DisciplinedCode DEF UseReference, Locking, LockedStarted
  <2>2. uses' \subseteq Uses
    BY <1>2, <1>t DEF UseReference, TypeOK, Uses
  <2>3. QED
    BY <2>1, <2>2 DEF Uses, Stage
<1>3. ASSUME NEW s \in Stages, BeginSynth(s)
      PROVE  LockFindsEveryUse'
  BY <1>3 DEF BeginSynth, Stage
<1>4. ASSUME NEW s \in Stages, VisitLock(s)
      PROVE  LockFindsEveryUse'
  <2>1. Resolve(Walked(s)) /\ Walked(s) \in SUBSET uses
    BY <1>4, ResolvedAreUses DEF VisitLock
  <2>2. /\ exports \subseteq exports'
        /\ failed' \in BOOLEAN
        /\ ~failed' => \A u \in Remote(Walked(s)) : u[2] \in exports'
    BY <2>1, <1>t, ResolveGrows
  <2>3. lock' = [lock EXCEPT ![s] = IF failed' THEN @ ELSE "locked"] /\ uses' = uses
    BY <1>4 DEF VisitLock
  <2>4. ASSUME NEW u \in uses, lock'[Stage(u[2])] = "locked", StageOf[u[1]] # Stage(u[2])
        PROVE  u[2] \in exports'
    <3>1. CASE lock[Stage(u[2])] = "locked"
      BY <3>1, <2>2, <2>4
    <3>2. CASE lock[Stage(u[2])] # "locked"
      <4>1. Stage(u[2]) = s /\ ~failed'
        BY <3>2, <2>2, <2>3, <2>4, <1>s, <1>t DEF TypeOK
      <4>2. StageOf[u[1]] \in Reached(s)
        BY <4>1, <2>4, <1>s DEF Reached, Relatives
      <4>3. u \in Walked(s)
        BY <4>1, <4>2, <1>s DEF Walked
      <4>4. u \in Remote(Walked(s))
        BY <4>3, <2>4 DEF Remote, RelationOf, Relation, Stage
      <4>5. QED
        BY <4>1, <4>4, <2>2
    <3>3. QED
      BY <3>1, <3>2
  <2>5. QED
    BY <2>3, <2>4 DEF Stage
<1>5. ASSUME NEW s \in Stages, WriteTemplates(s)
      PROVE  LockFindsEveryUse'
  <2>1. exports \subseteq exports'
    BY <1>5, <1>t, ResolvedAreUses, ResolveGrows DEF WriteTemplates
  <2>2. QED
    BY <2>1, <1>5 DEF WriteTemplates, Stage
<1>6. CASE UNCHANGED vars
  BY <1>6 DEF vars, Stage
<1>7. QED
  BY <1>1, <1>2, <1>3, <1>4, <1>5, <1>6 DEF Next, SynthStep, Ended

\* A stage that is done, and of which something is exported, was locked.
LEMMA DoneLocked ==
    ASSUME Always, Locking, ~failed,
           NEW r \in created, Stage(r) \in Written
    PROVE  lock[Stage(r)] = "locked"
<1>1. Stage(r) \in Stages
  BY DEF Written
<1>2. lock[Stage(r)] \in {"none", "open", "locked"}
  BY <1>1 DEF Always, TypeOK
<1>3. lock[Stage(r)] # "none" /\ lock[Stage(r)] # "open"
  BY <1>1 DEF Locking, CreatedLocked, OpenIsMet, MetBeforeDone, Written
<1>4. QED
  BY <1>2, <1>3

\* Nothing is added to the exports of a stage that has been written.
LEMMA AllShippedNext ==
    ASSUME Disciplined, IInv, [Next]_vars
    PROVE  AllShipped'
<1> USE TreeAssumption
<1>t. TypeOK /\ Always /\ Locking /\ LockFindsEveryUse /\ AllShipped
  BY DEF IInv, Always
<1>1. ASSUME UNCHANGED <<exports, shipped>>, Written' = Written
      PROVE  AllShipped'
  BY <1>1, <1>t DEF AllShipped, Stage
<1>2. ASSUME NEW r \in Refs, CreateReference(r)
      PROVE  AllShipped'
  BY <1>1, <1>2 DEF CreateReference, Written
<1>3. ASSUME NEW c \in Stacks, NEW r \in Refs, NEW p \in Positions,
             UseReference(c, r, p)
      PROVE  AllShipped'
  BY <1>1, <1>3 DEF UseReference, Written
<1>4. ASSUME NEW s \in Stages, BeginSynth(s)
      PROVE  AllShipped'
  <2>1. Written' = Written
    BY <1>4, <1>t DEF BeginSynth, Written, TypeOK
  <2>2. QED
    BY <1>1, <1>4, <2>1 DEF BeginSynth
<1>5. ASSUME NEW s \in Stages, VisitLock(s)
      PROVE  AllShipped'
  <2>1. Resolve(Walked(s)) /\ Walked(s) \in SUBSET uses
    BY <1>5, ResolvedAreUses DEF VisitLock
  <2>2. \A r \in exports' \ exports : \E u \in Remote(Walked(s)) : r = u[2]
    BY <2>1, <1>t, ResolveGrows
  <2>3. \A r \in exports' \ exports : Stage(r) = s
    BY <2>2 DEF Remote, Walked
  <2>4. s \notin Written /\ Written' = Written /\ shipped' = shipped
    BY <1>5 DEF VisitLock, Written
  <2>5. QED
    BY <2>3, <2>4, <1>t DEF AllShipped, Stage
<1>6. ASSUME NEW s \in Stages, WriteTemplates(s)
      PROVE  AllShipped'
  <2> DEFINE own == {u \in uses : StageOf[u[1]] = s}
  <2>1. own \in SUBSET uses /\ Resolve(own) /\ ~failed
    BY <1>6 DEF WriteTemplates
  <2>2. \A u \in own : u \in uses /\ StageOf[u[1]] = s
    OBVIOUS
  <2>3. IF failed'
        THEN UNCHANGED <<phase, shipped>>
        ELSE /\ phase' = [phase EXCEPT ![s] = "done"]
             /\ shipped'.exports = shipped.exports \cup {r \in exports' : Stage(r) = s}
    BY <1>6 DEF WriteTemplates
  <2> HIDE DEF own
  <2>4. /\ exports \subseteq exports' /\ failed' \in BOOLEAN
        /\ \A r \in exports' \ exports : \E u \in Remote(own) : r = u[2]
    BY <2>1, <1>t, ResolveGrows
  <2>5. ASSUME NEW r \in exports', Stage(r) \in Written, Stage(r) # s
        PROVE  r \in exports
    <3>1. SUFFICES ASSUME r \notin exports
                   PROVE  FALSE
      OBVIOUS
    <3>2. PICK u \in own : r = u[2]
      BY <2>4, <3>1 DEF Remote
    <3>3. u \in uses /\ r \in created /\ StageOf[u[1]] # Stage(r)
      BY <2>2, <2>5, <3>2, <1>t DEF Locking, UsesCreated
    <3>4. lock[Stage(r)] = "locked"
      BY <3>3, <2>1, <2>5, <1>t, DoneLocked
    <3>5. QED
      BY <3>1, <3>2, <3>3, <3>4, <1>t DEF LockFindsEveryUse
  <2>6. CASE failed'
    <3>1. exports' = exports
      BY <2>1, <2>6, <1>t DEF Resolve, TypeOK
    <3>2. QED
      BY <3>1, <2>3, <2>6, <1>1 DEF Written
  <2>7. CASE ~failed'
    <3>1. \A t \in Written' : t \in Written \/ t = s
      BY <2>3, <2>7, <1>t DEF Written, TypeOK
    <3>2. ASSUME NEW r \in exports', Stage(r) \in Written'
          PROVE  r \in shipped'.exports
      BY <3>1, <3>2, <2>3, <2>5, <2>7, <1>t DEF AllShipped
    <3>3. QED
      BY <3>2 DEF AllShipped, Stage
  <2>8. QED
    BY <2>4, <2>6, <2>7
<1>7. CASE UNCHANGED vars
  BY <1>1, <1>7 DEF vars, Written
<1>8. QED
  BY <1>2, <1>3, <1>4, <1>5, <1>6, <1>7 DEF Next, SynthStep, Ended

LEMMA DisciplinedInit == Init => IInv
<1> SUFFICES ASSUME Init
             PROVE  IInv
  OBVIOUS
<1>1. Locking
  BY DEF Init, Locking, UsesCreated, CreatedLocked, OpenIsMet, MetBeforeDone,
         LockedStarted
<1>2. LockFindsEveryUse /\ AllShipped
  BY DEF Init, LockFindsEveryUse, AllShipped
<1>3. QED
  BY <1>1, <1>2, AlwaysInit DEF IInv

LEMMA DisciplinedHolds ==
    ASSUME Disciplined
    PROVE  Spec => []IInv
<1>1. IInv /\ [Next]_vars => IInv'
  BY AlwaysNext, LockingNext, FindsEveryUseNext, AllShippedNext DEF IInv
<1>2. QED
  BY <1>1, DisciplinedInit, PTL DEF Spec

\* In a disciplined program no template is left with an import that its
\* producer's template does not export.
THEOREM ImportsAreBacked ==
    ASSUME Disciplined
    PROVE  Spec => []ImportsBacked
<1>1. IInv => ImportsBacked
  BY DEF IInv, Always, NeededExported, AllShipped, ImportsBacked
<1>2. QED
  BY <1>1, DisciplinedHolds, PTL

\* In a disciplined program the lock finds all uses of its stage's references.
THEOREM LockFindsUses ==
    ASSUME Disciplined
    PROVE  Spec => []LockFindsEveryUse
<1>1. IInv => LockFindsEveryUse
  BY DEF IInv
<1>2. QED
  BY <1>1, DisciplinedHolds, PTL

-----------------------------------------------------------------------------
(***************************************************************************)
(* A disciplined program implements ReferenceDelivery.                     *)
(***************************************************************************)

\* Only writing a stage is visible from outside, and it is one Write.
LEMMA DeliveryStep ==
    ASSUME IInv, IInv', [Next]_vars
    PROVE  [Delivery!Next]_(Delivery!vars)
<1> USE TreeAssumption
<1>1. ASSUME UNCHANGED shipped, Written' = Written
      PROVE  UNCHANGED (Delivery!vars)
  BY <1>1 DEF Delivery!vars, Needed
<1>2. ASSUME NEW r \in Refs, CreateReference(r)
      PROVE  UNCHANGED (Delivery!vars)
  BY <1>1, <1>2 DEF CreateReference, Written
<1>3. ASSUME NEW c \in Stacks, NEW r \in Refs, NEW p \in Positions,
             UseReference(c, r, p)
      PROVE  UNCHANGED (Delivery!vars)
  BY <1>1, <1>3 DEF UseReference, Written
<1>4. ASSUME NEW s \in Stages, BeginSynth(s)
      PROVE  UNCHANGED (Delivery!vars)
  BY <1>1, <1>4 DEF BeginSynth, Written, IInv, Always, TypeOK
<1>5. ASSUME NEW s \in Stages, VisitLock(s)
      PROVE  UNCHANGED (Delivery!vars)
  BY <1>1, <1>5 DEF VisitLock, Written
<1>6. ASSUME NEW s \in Stages, WriteTemplates(s)
      PROVE  [Delivery!Next]_(Delivery!vars)
  <2> DEFINE own == {u \in uses : StageOf[u[1]] = s}
  <2>1. CASE failed'
    BY <1>1, <1>6, <2>1 DEF WriteTemplates, Written
  <2>2. CASE ~failed'
    <3>1. /\ phase' = [phase EXCEPT ![s] = "done"]
          /\ shipped'.imports = shipped.imports \cup Imported(own)
          /\ shipped'.params = shipped.params \cup {q \in params' : StageOf[q[1]] = s}
          /\ shipped'.exports = shipped.exports \cup {r \in exports' : Stage(r) = s}
      BY <1>6, <2>2 DEF WriteTemplates
    <3> HIDE DEF own
    <3>2. /\ s \in Stages \ Written
          /\ Stages \ Written' = (Stages \ Written) \ {s}
      BY <1>6, <3>1 DEF WriteTemplates, Written, IInv, Always, TypeOK
    <3>3. Needed \subseteq Needed'
      BY <3>1 DEF Needed
    <3>4. Needed' \subseteq Refs
      BY DEF IInv, Always, TypeOK, Templates, Needed
    <3>5. /\ shipped.exports \subseteq shipped'.exports
          /\ shipped'.exports \ shipped.exports \subseteq {r \in Refs : Stage(r) = s}
      BY <3>1 DEF IInv, Always, TypeOK
    <3>6. \A r \in Needed' : Stage(r) \in Stages \ Written' \/ r \in shipped'.exports
      <4>1. ASSUME NEW r \in Needed'
            PROVE  Stage(r) \in Stages /\ (Stage(r) \in Written' => r \in shipped'.exports)
        BY <3>4 DEF IInv, Always, NeededExported, AllShipped, Stage
      <4>2. QED
        BY <4>1
    <3>7. Delivery!Write(s)
      BY <3>2, <3>3, <3>4, <3>5, <3>6 DEF Delivery!Write
    <3>8. QED
      BY <3>7 DEF Delivery!Next
  <2>3. QED
    BY <2>1, <2>2
<1>7. CASE UNCHANGED vars
  BY <1>1, <1>7 DEF vars, Written
<1>8. QED
  BY <1>2, <1>3, <1>4, <1>5, <1>6, <1>7 DEF Next, SynthStep, Ended

\* Disciplined programs deliver their references as ReferenceDelivery says.
THEOREM DeliversReferences ==
    ASSUME Disciplined
    PROVE  Spec => Delivers
<1>1. Init => Delivery!Init
  BY DEF Init, Delivery!Init, Written, Needed
<1>2. IInv /\ IInv' /\ [Next]_vars => [Delivery!Next]_(Delivery!vars)
  BY DeliveryStep
<1>3. QED
  BY <1>1, <1>2, DisciplinedHolds, PTL DEF Spec, Delivers, Delivery!Spec

=============================================================================

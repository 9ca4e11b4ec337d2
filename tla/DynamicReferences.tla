------------------------- MODULE DynamicReferences -------------------------
(***************************************************************************)
(* Dynamic references: tokens that stand for an attribute of a construct   *)
(* and may be used in a stack of ANOTHER stage (src/core).                 *)
(*                                                                         *)
(* A CDK program builds a tree of stages, stacks and resources and then    *)
(* synthesizes the stages one by one, nested stages before the stage that  *)
(* contains them.  A reference used in a foreign stack is turned into an   *)
(* export of the producer's stack and an import (same environment) or a    *)
(* parameter (another account or region) of the consumer's stack, at the   *)
(* moment the token is RESOLVED.  An export that is added to a stack whose *)
(* template has already been written is lost without an error, so every    *)
(* stage that has references owns a DynamicReferenceLock: when the stage's *)
(* aspects run, the lock looks for the stage's tokens in all other stages, *)
(* resolves the ones it finds, and then refuses further references.        *)
(***************************************************************************)
EXTENDS FiniteSets

CONSTANTS
    Stages,      \* the stages of the construct tree, the app included
    App,         \* the root of the tree, itself a stage
    Parent,      \* the stage that directly contains a stage (App for App)
    Stacks,      \* the stacks of all stages
    StageOf,     \* the stage a stack belongs to
    Account,     \* the account a stack is deployed to
    Region,      \* the region a stack is deployed to
    Refs,        \* the references the program may create
    Producer,    \* the stack of the construct a reference belongs to
    Exportable,  \* the references that denote one resource attribute
    Positions,   \* where in a resource the program puts tokens
    LateCode     \* may code run after the first stage was synthesized?

ASSUME TreeAssumption ==
    /\ App \in Stages
    /\ Parent \in [Stages -> Stages]
    /\ StageOf \in [Stacks -> Stages]
    /\ Producer \in [Refs -> Stacks]
    /\ Exportable \subseteq Refs
    /\ Positions \subseteq {"property", "nested"}
    /\ LateCode \in BOOLEAN

VARIABLES
    phase,     \* how far the synthesis of each stage has come
    lock,      \* each stage's DynamicReferenceLock, if it has one
    visiting,  \* the stages whose aspect traversal still has to meet the lock
    created,   \* the references that exist, all registered in a lock
    uses,      \* the tokens sitting in resources: <<stack, reference, position>>
    exports,   \* the references exported by the tree of their producer stack
    params,    \* the parameters of a stack that stand for a reference
    shipped,   \* what the templates written so far contain
    failed     \* an exception has aborted the program

vars == <<phase, lock, visiting, created, uses, exports, params, shipped, failed>>

Stage(r) == StageOf[Producer[r]]

Uses == Stacks \X Refs \X Positions

Templates == [imports : SUBSET (Stacks \X Refs),
              params  : SUBSET (Stacks \X Refs),
              exports : SUBSET Refs]

TypeOK ==
    /\ phase \in [Stages -> {"building", "aspects", "done"}]
    /\ lock \in [Stages -> {"none", "open", "locked"}]
    /\ visiting \subseteq Stages
    /\ created \subseteq Refs
    /\ uses \subseteq Uses
    /\ exports \subseteq Refs
    /\ params \subseteq Stacks \X Refs
    /\ shipped \in Templates
    /\ failed \in BOOLEAN

-----------------------------------------------------------------------------
(***************************************************************************)
(* Resolving a token in the scope of a stack.                              *)
(***************************************************************************)

SameEnvironment(c, p) == Account[c] = Account[p] /\ Region[c] = Region[p]

\* Faulty variant: constructs of one stage are taken to be local to each other.
RelationByStage(c, p) ==
    IF StageOf[c] = StageOf[p] THEN "LOCAL"
    ELSE IF SameEnvironment(c, p) THEN "CROSS_STAGE" ELSE "CROSS_ACCOUNT"

\* The kinds of relation the code tells apart.  CROSS_REGION and
\* CROSS_ACCOUNT are handled alike by its only caller.
Relation(c, p) ==
    IF SameEnvironment(c, p)
    THEN IF StageOf[c] = StageOf[p] THEN "LOCAL" ELSE "CROSS_STAGE"
    ELSE IF Account[c] = Account[p] THEN "CROSS_REGION" ELSE "CROSS_ACCOUNT"

RelationOf(u) == Relation(u[1], Producer[u[2]])

\* Faulty variant: nothing is exported for a parameter.
RemoteImportsOnly(U) == {u \in U : RelationOf(u) = "CROSS_STAGE"}

\* The uses that are replaced by something other than the raw value.
Remote(U) == {u \in U : RelationOf(u) # "LOCAL"}

Imported(U) == {<<u[1], u[2]>> : u \in {v \in U : RelationOf(v) = "CROSS_STAGE"}}

Parameterized(U) ==
    {<<u[1], u[2]>> : u \in {v \in U : RelationOf(v) \notin {"LOCAL", "CROSS_STAGE"}}}

\* exportValue of the CDK rejects a value that is not a resource attribute.
Rejected(U) == \E u \in Remote(U) : u[2] \notin Exportable

\* Resolving the uses U exports each remote reference from its producer and
\* finds or creates the parameters that stand for those of another environment.
Resolve(U) ==
    IF Rejected(U)
    THEN failed' = TRUE /\ UNCHANGED <<exports, params>>
    ELSE /\ exports' = exports \cup {u[2] : u \in Remote(U)}
         /\ params' = params \cup Parameterized(U)
         /\ UNCHANGED failed

-----------------------------------------------------------------------------
(***************************************************************************)
(* The program: it creates references and uses them, before the synthesis  *)
(* or, where LateCode allows it, between and during the synthesis of       *)
(* stages (aspects, stages a pipeline synthesizes when they are added).    *)
(***************************************************************************)

Started == \E s \in Stages : phase[s] # "building"

CodeRuns == /\ ~failed
            /\ phase[App] # "done"
            /\ Started => LateCode

\* Whether a traversal of the stage's aspects will meet a lock created now:
\* always if it has not begun, never if it is over, and depending on the
\* construct the aspect is visiting while it is under way.
WillBeVisited(s) ==
    {met \in BOOLEAN : /\ phase[s] = "building" => met
                       /\ phase[s] = "done" => ~met}

\* DynamicReference.string and its siblings: find or create the lock of the
\* construct's stage and register the token there.
CreateReference(r) ==
    LET s == Stage(r) IN
    /\ CodeRuns
    /\ r \notin created
    /\ \/ /\ lock[s] = "locked"
          /\ failed' = TRUE
          /\ UNCHANGED <<lock, visiting, created>>
       \/ /\ lock[s] = "open"
          /\ created' = created \cup {r}
          /\ UNCHANGED <<lock, visiting, failed>>
       \/ /\ lock[s] = "none"
          /\ lock' = [lock EXCEPT ![s] = "open"]
          /\ \E met \in WillBeVisited(s) :
                visiting' = IF met THEN visiting \cup {s} ELSE visiting
          /\ created' = created \cup {r}
          /\ UNCHANGED failed
    /\ UNCHANGED <<phase, uses, exports, params, shipped>>

\* The program puts a token into a resource of a stack not yet written.
UseReference(c, r, p) ==
    /\ CodeRuns
    /\ r \in created
    /\ phase[StageOf[c]] # "done"
    /\ <<c, r, p>> \notin uses
    /\ uses' = uses \cup {<<c, r, p>>}
    /\ UNCHANGED <<phase, lock, visiting, created, exports, params, shipped, failed>>

-----------------------------------------------------------------------------
(***************************************************************************)
(* Synthesis.                                                              *)
(***************************************************************************)

Nested(s) == {t \in Stages \ {App} : Parent[t] = s}

\* The CDK synthesizes nested stages first and one stage at a time.
BeginSynth(s) ==
    /\ ~failed
    /\ phase[s] = "building"
    /\ \A t \in Stages : phase[t] # "aspects"
    /\ \A t \in Nested(s) : phase[t] = "done"
    /\ phase' = [phase EXCEPT ![s] = "aspects"]
    /\ UNCHANGED <<lock, visiting, created, uses, exports, params, shipped, failed>>

\* Faulty variant: the app is not searched.
RelativesButApp(s) == Stages \ {s, App}

\* The stages a lock searches: all but its own.  Searching the app reaches
\* every resource of the tree, those of the lock's own stage included.
Relatives(s) == Stages \ {s}

Reached(s) == IF App \in Relatives(s) THEN Stages ELSE Relatives(s)

\* Faulty variant: the walk searches the lock's own stage instead.
WalkedAtHome(s) == {u \in uses : Stage(u[2]) = s /\ StageOf[u[1]] = s}

\* What the walk finds: values of a resource's own properties that are exactly
\* a token registered with the lock.  It does not descend into a value.
Walked(s) == {u \in uses : /\ Stage(u[2]) = s
                           /\ StageOf[u[1]] \in Reached(s)
                           /\ u[3] = "property"}

\* DynamicReferenceLock.visit: resolve what the walk finds, then lock.
VisitLock(s) ==
    /\ ~failed
    /\ phase[s] = "aspects"
    /\ s \in visiting
    /\ Resolve(Walked(s))
    /\ lock' = [lock EXCEPT ![s] = IF failed' THEN @ ELSE "locked"]
    /\ visiting' = visiting \ {s}
    /\ UNCHANGED <<phase, created, uses, shipped>>

\* The rest of the CDK's synthesis of a stage: every token of its resources is
\* resolved wherever it is, then the templates of its stacks are written.
WriteTemplates(s) ==
    LET own == {u \in uses : StageOf[u[1]] = s} IN
    /\ ~failed
    /\ phase[s] = "aspects"
    /\ s \notin visiting
    /\ Resolve(own)
    /\ IF failed'
       THEN UNCHANGED <<phase, shipped>>
       ELSE /\ phase' = [phase EXCEPT ![s] = "done"]
            /\ shipped' = [imports |-> shipped.imports \cup Imported(own),
                           params  |-> shipped.params \cup
                                       {q \in params' : StageOf[q[1]] = s},
                           exports |-> shipped.exports \cup
                                       {r \in exports' : Stage(r) = s}]
    /\ UNCHANGED <<lock, visiting, created, uses>>

\* The program has ended.
Ended ==
    /\ failed \/ phase[App] = "done"
    /\ UNCHANGED vars

-----------------------------------------------------------------------------
Init ==
    /\ phase = [s \in Stages |-> "building"]
    /\ lock = [s \in Stages |-> "none"]
    /\ visiting = {}
    /\ created = {}
    /\ uses = {}
    /\ exports = {}
    /\ params = {}
    /\ shipped = [imports |-> {}, params |-> {}, exports |-> {}]
    /\ failed = FALSE

SynthStep(s) == BeginSynth(s) \/ VisitLock(s) \/ WriteTemplates(s)

Next ==
    \/ \E r \in Refs : CreateReference(r)
    \/ \E c \in Stacks, r \in Refs, p \in Positions : UseReference(c, r, p)
    \/ \E s \in Stages : SynthStep(s)
    \/ Ended

Spec == Init /\ [][Next]_vars

-----------------------------------------------------------------------------
(***************************************************************************)
(* Properties.                                                             *)
(***************************************************************************)

Written == {s \in Stages : phase[s] = "done"}

\* Values taken by written templates, through an import or a parameter.
Needed == {q[2] : q \in shipped.imports \cup shipped.params}

\* A stage that is completely written exports everything that the written
\* templates take from it: no stack is deployed with an import that nothing
\* exports, or with a parameter nobody can fill in.  Holds where every token is
\* a property of its own and all code runs before the synthesis.
ImportsBacked == \A r \in Needed : Stage(r) \in Written => r \in shipped.exports

\* Once a lock has closed its stage, the tree exports every reference of the
\* stage that a stack of another stage uses: the lock has found "any instances
\* of our registered tokens" (walkStage).
LockFindsEveryUse ==
    \A u \in uses : lock[Stage(u[2])] = "locked" /\ StageOf[u[1]] # Stage(u[2])
                        => u[2] \in exports

\* The export for an import that has been written is never lost while the
\* producer's templates are still to come, whatever the position of the token
\* and however late it was put there (the stages' order is arbitrary).
PendingImportsExported ==
    \A r \in Needed : Stage(r) \notin Written => r \in exports

\* A stack taking a reference from a stack of its own stage in another
\* environment finds the export in the templates written with it, even
\* though both are resolved only while the stage is being written.
SiblingImportsBacked ==
    \A q \in shipped.params :
        StageOf[q[1]] = Stage(q[2]) => q[2] \in shipped.exports

\* A template that takes a reference from another account or region declares
\* the parameter it is passed through, and only such a template does.
ParametersDeclared ==
    \A u \in uses : StageOf[u[1]] \in Written =>
        (<<u[1], u[2]>> \in shipped.params <=> ~SameEnvironment(u[1], Producer[u[2]]))

\* Whatever comes late, what is resolved while a stage is being written is complete in
\* its templates: parameters on one side, and exports on the other if it is the same stage.
SiblingsAreServed == SiblingImportsBacked /\ ParametersDeclared

\* The delivery of templates, seen from outside.
Delivery == INSTANCE ReferenceDelivery WITH
    open <- Stages \ Written,
    needed <- Needed,
    supplied <- shipped.exports,
    Home <- Stage

\* The code keeps the promise of ReferenceDelivery.
Delivers == Delivery!Spec

=============================================================================

---------------------------- MODULE GlueWorkflow ----------------------------
(***************************************************************************)
(* A Glue workflow: its triggers, as a program writes them, what they are  *)
(* rendered to (glue/trigger.ts, workflow.ts, lib/workflow-actions and     *)
(* lib/workflow-predicates), and one run of the workflow.                  *)
(*                                                                         *)
(* External: Glue does not know the operator OR, wants a conditional       *)
(* trigger to have conditions and no other, and refuses to start one on    *)
(* demand on creation; whether it does so for one of the type EVENT, which *)
(* trigger.ts:282 asks to be started, is left open.  A trigger fires once  *)
(* in a run.                                                               *)
(***************************************************************************)
EXTENDS Naturals, Sequences, FiniteSets

CONSTANTS
    Tasks,         \* jobs and crawlers
    Outcomes,      \* states in which a task ends
    Options,       \* type, operator and start of a trigger, as programs give them
    MaxTriggers,   \* bound: triggers of the workflow
    MaxConditions  \* bound: conditions of all triggers together

ASSUME OutcomesAssumption == {"idle", "running"} \cap Outcomes = {}

Types == {"CONDITIONAL", "EVENT", "ON_DEMAND", "SCHEDULED"}
Operators == {"default", "AND", "OR"}
Starts == {"default", "yes", "no"}

\* "default" stands for an option that a program leaves open.
ASSUME OptionsAssumption == Options \subseteq [type : Types, operator : Operators, start : Starts]

VARIABLES
    triggers,    \* the triggers in the order in which they are written
    glue,        \* "writing", "refused" or "deployed"
    taskState,   \* of each task in the run
    fired        \* triggers that have fired in the run

workflow == <<triggers, glue, taskState, fired>>

Conditions == Tasks \X Outcomes

WorkflowInit ==
    /\ triggers = <<>>
    /\ glue = "writing"
    /\ taskState = [t \in Tasks |-> "idle"]
    /\ fired = {}

AddTrigger(options) ==
    /\ glue = "writing"
    /\ Len(triggers) < MaxTriggers
    /\ triggers' = Append(triggers, [type |-> options.type, operator |-> options.operator,
                                     start |-> options.start,
                                     actions |-> {}, conditions |-> <<>>])
    /\ UNCHANGED <<glue, taskState, fired>>

AddAction(id, task) ==
    /\ glue = "writing"
    /\ triggers' = [triggers EXCEPT ![id].actions = @ \cup {task}]
    /\ UNCHANGED <<glue, taskState, fired>>

AddPredicate(id, condition) ==
    /\ glue = "writing"
    /\ Cardinality(UNION {{i} \X DOMAIN triggers[i].conditions : i \in DOMAIN triggers}) < MaxConditions
    /\ triggers' = [triggers EXCEPT ![id].conditions = Append(@, condition)]
    /\ UNCHANGED <<glue, taskState, fired>>

-----------------------------------------------------------------------------
(***************************************************************************)
(* What is rendered.                                                       *)
(***************************************************************************)

\* Faulty variant: of those left open only the scheduled are started.
OnlyScheduledStart(trigger) ==
    IF trigger.start = "default" THEN trigger.type = "SCHEDULED" ELSE trigger.start = "yes"

\* All are started on creation, unless the program says otherwise, but those on demand.
StartOnCreation(trigger) ==
    IF trigger.start = "default" THEN trigger.type # "ON_DEMAND" ELSE trigger.start = "yes"

Operator(trigger) == IF trigger.operator = "default" THEN "AND" ELSE trigger.operator

\* A single condition has no operator; the same condition given twice has one.
Logical(trigger) == IF Len(trigger.conditions) > 1 THEN Operator(trigger) ELSE "none"

-----------------------------------------------------------------------------
(***************************************************************************)
(* Glue.                                                                   *)
(***************************************************************************)

WaitsFor(trigger) == {trigger.conditions[k] : k \in DOMAIN trigger.conditions}

Known(trigger) ==
    /\ trigger.actions # {}
    /\ (trigger.type = "CONDITIONAL") <=> (WaitsFor(trigger) # {})
    /\ Logical(trigger) # "OR"
    /\ ~(trigger.type = "ON_DEMAND" /\ StartOnCreation(trigger))

StartsEvents == \E id \in DOMAIN triggers : triggers[id].type = "EVENT" /\ StartOnCreation(triggers[id])

DeployWorkflow ==
    /\ glue = "writing"
    /\ \/ (\A id \in DOMAIN triggers : Known(triggers[id])) /\ glue' = "deployed"
       \/ (\E id \in DOMAIN triggers : ~Known(triggers[id])) /\ glue' = "refused"
       \/ StartsEvents /\ glue' = "refused"
    /\ UNCHANGED <<triggers, taskState, fired>>

Holds(condition) == taskState[condition[1]] = condition[2]

Met(trigger) ==
    IF Logical(trigger) \in {"AND", "none"}
    THEN \A c \in WaitsFor(trigger) : Holds(c)
    ELSE \E c \in WaitsFor(trigger) : Holds(c)

\* One that has been started watches its conditions or the clock; one on demand or of the
\* type EVENT is fired by whoever starts the run.
MayFire(trigger) ==
    CASE trigger.type = "CONDITIONAL" -> StartOnCreation(trigger) /\ Met(trigger)
      [] trigger.type = "SCHEDULED" -> StartOnCreation(trigger)
      [] OTHER -> TRUE

\* A task that runs already, or has run, is not run again in the same run.
Fire(id) ==
    /\ glue = "deployed"
    /\ id \in DOMAIN triggers \ fired
    /\ MayFire(triggers[id])
    /\ fired' = fired \cup {id}
    /\ taskState' = [t \in Tasks |->
                        IF t \in triggers[id].actions /\ taskState[t] = "idle" THEN "running" ELSE taskState[t]]
    /\ UNCHANGED <<triggers, glue>>

End(task) ==
    /\ taskState[task] = "running"
    /\ \E outcome \in Outcomes : taskState' = [taskState EXCEPT ![task] = outcome]
    /\ UNCHANGED <<triggers, glue, fired>>

RunWorkflow ==
    \/ \E id \in DOMAIN triggers : Fire(id)
    \/ \E task \in Tasks : End(task)

WorkflowNext ==
    \/ \E options \in Options : AddTrigger(options)
    \/ \E id \in DOMAIN triggers, task \in Tasks : AddAction(id, task)
    \/ \E id \in DOMAIN triggers, condition \in Conditions : AddPredicate(id, condition)
    \/ DeployWorkflow
    \/ RunWorkflow

\* Glue fires what may fire, and every task ends or is stopped.
WorkflowSpec == WorkflowInit /\ [][WorkflowNext]_workflow /\ WF_workflow(RunWorkflow)

-----------------------------------------------------------------------------
Done(task) == taskState[task] \in Outcomes

\* A step is not taken before all that it waits for is done: a trigger with several
\* conditions does not fire on the first.
StepsWait ==
    \A id \in fired : \A c \in WaitsFor(triggers[id]) : Holds(c)

\* A step is taken once all that it waits for is done, unless the program said not to
\* start its trigger: conditional triggers are started although nobody asks for it.
StepsFollow ==
    \A id \in 1..MaxTriggers :
        (/\ glue = "deployed" /\ id \in DOMAIN triggers
         /\ triggers[id].type = "CONDITIONAL" /\ triggers[id].start # "no"
         /\ \A c \in WaitsFor(triggers[id]) : Holds(c)) ~> (id \in fired)

\* A workflow takes each of its steps when all that it waits for is done, and no sooner.
WorkflowsRun == []StepsWait /\ StepsFollow
=============================================================================

------------------------ MODULE IssueManagerProofs ------------------------
(***************************************************************************)
(* Safety of the issue manager, for any set of issues, triggers and        *)
(* handlers, any number of executions and any failures.                    *)
(***************************************************************************)
EXTENDS IssueManager, WellFoundedInduction, TLAPS

\* An execution that has begun knows its event and its trigger.
Started == \A e \in Executions :
    step[e] # "unused" => issue[e] \in Issues /\ trigger[e] \in Triggers

\* Nothing has happened in an execution that has not begun to parse.
Fresh == \A e \in Executions : step[e] \in {"unused", "received"} =>
    /\ parser[e] = "idle"
    /\ e \notin described
    /\ \A h \in Handlers : branch[e][h] = "idle"

\* How far a parser is, and what it has done by then.
Parsing == \A e \in Executions :
    /\ parser[e] = "notifying" => /\ e \in described
                                  /\ Kind[issue[e]] = "SecurityHubFinding"
    /\ parser[e] # "done" => output[e] = Nothing
    /\ parser[e] = "done" => output[e] = OutputOf(issue[e])

\* How an execution goes on after its parser is done.
Ending == \A e \in Executions :
    /\ step[e] \in {"handling", "succeeded", "silent"} => parser[e] = "done"
    /\ step[e] = "silent" => ~AsksForAlert(output[e])
    /\ step[e] = "succeeded" => \A h \in Handlers : branch[e][h] = "done"

\* Handlers run only for alerts, and are done when their event is on the bus.
Branches == \A e \in Executions, h \in Handlers :
    /\ branch[e][h] # "idle" => parser[e] = "done" /\ AsksForAlert(output[e])
    /\ branch[e][h] = "done" => \E m \in posted : m.execution = e /\ m.handler = h

Posted == \A m \in posted :
    parser[m.execution] = "done" /\ AsksForAlert(output[m.execution])

\* A finding is marked by an execution that has described it.
Marked == \A i \in Issues : workflow[i] = "NOTIFIED" =>
    \E e \in described :
        /\ issue[e] = i
        /\ Kind[i] = "SecurityHubFinding"
        /\ parser[e] \in {"formatting", "done", "failed", "stopped"}

IInv == /\ TypeOK /\ Started /\ Fresh /\ Parsing
        /\ Ending /\ Branches /\ Posted /\ Marked

LEMMA InitIInv == Init => IInv
BY DEF Init, IInv, TypeOK, Started, Fresh, Parsing, Ending, Branches, Posted,
   Marked, None, Nothing

\* Every action, by the conjuncts it disturbs and those it leaves alone.
LEMMA IInvInductive == IInv /\ [Next]_vars => IInv'
<1> SUFFICES ASSUME IInv, [Next]_vars PROVE IInv'
  OBVIOUS
<1> USE ManagerAssumption DEF source, child, alerts
<1>1. ASSUME NEW i \in Issues, Publish(i) PROVE IInv'
  <2>1. TypeOK'
    BY <1>1 DEF IInv, TypeOK, Publish, Announce
  <2>2. Started' /\ Fresh' /\ Parsing' /\ Ending' /\ Branches' /\ Posted' /\ Marked'
    BY <1>1 DEF IInv, TypeOK, Started, Fresh, Parsing, Ending, Branches, Posted,
       Marked, Publish, Announce
  <2> QED  BY <2>1, <2>2 DEF IInv
<1>2. ASSUME NEW e \in Executions, NEW i \in Issues, NEW t \in Triggers, Invoke(e, i, t) PROVE IInv'
  <2>1. TypeOK'
    <3>1. transit[<<i, t>>] - 1 \in Nat
      BY <1>2 DEF IInv, TypeOK, Invoke
    <3>2. transit' \in [Issues \X Triggers -> Nat]
      BY <1>2, <3>1 DEF IInv, TypeOK, Invoke
    <3> QED  BY <1>2, <3>2 DEF IInv, TypeOK, Invoke
  <2>2. Started'
    BY <1>2 DEF IInv, TypeOK, Started, Invoke
  <2>3. Marked'
    BY <1>2 DEF IInv, TypeOK, Started, Fresh, Parsing, Marked, Invoke
  <2>4. Fresh' /\ Parsing' /\ Ending' /\ Branches' /\ Posted'
    BY <1>2 DEF IInv, TypeOK, Started, Fresh, Parsing, Ending, Branches, Posted, Invoke
  <2> QED  BY <2>1, <2>2, <2>3, <2>4 DEF IInv
<1>3. ASSUME NEW i \in Issues, NEW t \in Triggers, Drop(i, t) PROVE IInv'
  <2>1. TypeOK'
    BY <1>3 DEF IInv, TypeOK, Drop
  <2>2. Started' /\ Fresh' /\ Parsing' /\ Ending' /\ Branches' /\ Posted' /\ Marked'
    BY <1>3 DEF IInv, TypeOK, Started, Fresh, Parsing, Ending, Branches, Posted,
       Marked, Drop
  <2> QED  BY <2>1, <2>2 DEF IInv
<1>4. ASSUME NEW e \in Executions, DetermineIssueType(e) PROVE IInv'
  <2>1. TypeOK'
    BY <1>4 DEF IInv, TypeOK, DetermineIssueType
  <2>2. Fresh'
    BY <1>4 DEF IInv, TypeOK, Started, Fresh, DetermineIssueType
  <2>3. Parsing'
    BY <1>4 DEF IInv, TypeOK, Started, Fresh, Parsing, DetermineIssueType
  <2>4. Ending'
    BY <1>4 DEF IInv, TypeOK, Fresh, Parsing, Ending, Branches, DetermineIssueType
  <2>5. Branches'
    BY <1>4 DEF IInv, TypeOK, Fresh, Parsing, Ending, Branches, DetermineIssueType
  <2>6. Posted'
    BY <1>4 DEF IInv, TypeOK, Fresh, Parsing, Branches, Posted, DetermineIssueType
  <2>7. Marked'
    BY <1>4 DEF IInv, TypeOK, Started, Fresh, Parsing, Marked, DetermineIssueType
  <2>8. Started'
    BY <1>4 DEF IInv, TypeOK, Started, DetermineIssueType
  <2> QED  BY <2>1, <2>2, <2>3, <2>4, <2>5, <2>6, <2>7, <2>8 DEF IInv
<1>5. ASSUME NEW e \in Executions, Describe(e) PROVE IInv'
  <2>1. TypeOK'
    BY <1>5 DEF IInv, TypeOK, Describe
  <2>2. Parsing'
    BY <1>5 DEF IInv, TypeOK, Started, Fresh, Parsing, Describe
  <2>3. Marked'
    BY <1>5 DEF IInv, TypeOK, Started, Fresh, Parsing, Marked, Describe
  <2>4. Started' /\ Fresh' /\ Ending' /\ Branches' /\ Posted'
    BY <1>5 DEF IInv, TypeOK, Started, Fresh, Ending, Branches, Posted, Describe
  <2> QED  BY <2>1, <2>2, <2>3, <2>4 DEF IInv
<1>6. ASSUME NEW e \in Executions, Notify(e) PROVE IInv'
  <2>1. TypeOK'
    <3>1. issue[e] \in Issues
      BY <1>6 DEF IInv, TypeOK, Started, Fresh, Notify
    <3>2. transit' \in [Issues \X Triggers -> Nat]
      BY <1>6, <3>1 DEF IInv, TypeOK, Notify, Announce
    <3> QED  BY <1>6, <3>1, <3>2 DEF IInv, TypeOK, Notify
  <2>2. Parsing'
    BY <1>6 DEF IInv, TypeOK, Started, Fresh, Parsing, Notify, Announce
  <2>3. Marked'
    BY <1>6 DEF IInv, TypeOK, Started, Fresh, Parsing, Marked, Notify, Announce
  <2>4. Started' /\ Fresh' /\ Ending' /\ Branches' /\ Posted'
    BY <1>6 DEF IInv, TypeOK, Started, Fresh, Ending, Branches, Posted, Notify, Announce
  <2> QED  BY <2>1, <2>2, <2>3, <2>4 DEF IInv
<1>7. ASSUME NEW e \in Executions, FormatOutput(e) PROVE IInv'
  <2>1. TypeOK'
    BY <1>7 DEF IInv, TypeOK, FormatOutput
  <2>2. Parsing'
    BY <1>7 DEF IInv, TypeOK, Started, Fresh, Parsing, FormatOutput
  <2>3. Ending'
    <3>1. /\ step[e] \notin {"handling", "succeeded", "silent"}
          /\ step' = step /\ branch' = branch
          /\ \A d \in Executions \ {e} : parser'[d] = parser[d] /\ output'[d] = output[d]
      BY <1>7 DEF IInv, TypeOK, Ending, FormatOutput
    <3> QED  BY <3>1 DEF IInv, Ending
  <2>4. Posted'
    <3>1. /\ parser[e] # "done" /\ posted' = posted
          /\ \A d \in Executions \ {e} : parser'[d] = parser[d] /\ output'[d] = output[d]
      BY <1>7 DEF IInv, TypeOK, FormatOutput
    <3> QED  BY <3>1 DEF IInv, TypeOK, Posted
  <2>5. Marked'
    BY <1>7 DEF IInv, TypeOK, Started, Fresh, Parsing, Marked, FormatOutput
  <2>6. Started' /\ Fresh' /\ Branches'
    BY <1>7 DEF IInv, TypeOK, Started, Fresh, Branches, FormatOutput
  <2> QED  BY <2>1, <2>2, <2>3, <2>4, <2>5, <2>6 DEF IInv
<1>8. ASSUME NEW e \in Executions, CheckAlert(e) PROVE IInv'
  <2>1. TypeOK'
    <3>1. [h \in Handlers |-> "ready"] \in
            [Handlers -> {"idle", "ready", "running", "done", "failed", "stopped"}]
      OBVIOUS
    <3>2. branch' \in [Executions ->
                      [Handlers -> {"idle", "ready", "running", "done", "failed", "stopped"}]]
      <4>1. CASE AsksForAlert(output[e])
        BY <1>8, <3>1, <4>1 DEF IInv, TypeOK, CheckAlert
      <4>2. CASE ~AsksForAlert(output[e])
        BY <1>8, <4>2 DEF IInv, TypeOK, CheckAlert
      <4> QED  BY <4>1, <4>2
    <3> QED  BY <1>8, <3>2 DEF IInv, TypeOK, CheckAlert
  <2>2. Ending'
    BY <1>8 DEF IInv, TypeOK, Fresh, Parsing, Ending, Branches, CheckAlert
  <2>3. Branches'
    <3>1. /\ UNCHANGED <<parser, output, posted>>
          /\ \A d \in Executions \ {e} : branch'[d] = branch[d]
      BY <1>8 DEF IInv, TypeOK, CheckAlert
    <3>2. ASSUME NEW h \in Handlers PROVE
            \/ branch'[e][h] = branch[e][h]
            \/ parser[e] = "done" /\ AsksForAlert(output[e]) /\ branch'[e][h] = "ready"
      BY <1>8 DEF IInv, TypeOK, CheckAlert
    <3> QED  BY <3>1, <3>2 DEF IInv, Branches
  <2>4. Started' /\ Fresh' /\ Parsing' /\ Posted' /\ Marked'
    BY <1>8 DEF IInv, TypeOK, Started, Fresh, Parsing, Posted, Marked, CheckAlert
  <2> QED  BY <2>1, <2>2, <2>3, <2>4 DEF IInv
<1>9. ASSUME NEW e \in Executions, Join(e) PROVE IInv'
  <2>1. TypeOK'
    BY <1>9 DEF IInv, TypeOK, Join
  <2>2. Ending'
    BY <1>9 DEF IInv, TypeOK, Fresh, Parsing, Ending, Branches, Join
  <2>3. Started' /\ Fresh' /\ Parsing' /\ Branches' /\ Posted' /\ Marked'
    BY <1>9 DEF IInv, TypeOK, Started, Fresh, Parsing, Branches, Posted, Marked, Join
  <2> QED  BY <2>1, <2>2, <2>3 DEF IInv
<1>10. ASSUME NEW e \in Executions, Fail(e) PROVE IInv'
  <2>1. TypeOK'
    BY <1>10 DEF IInv, TypeOK, Fail
  <2>2. Fresh'
    BY <1>10 DEF IInv, TypeOK, Started, Fresh, Fail
  <2>3. Ending'
    BY <1>10 DEF IInv, TypeOK, Fresh, Parsing, Ending, Branches, Fail
  <2>4. Branches'
    BY <1>10 DEF IInv, TypeOK, Fresh, Parsing, Ending, Branches, Fail
  <2>5. Started' /\ Parsing' /\ Posted' /\ Marked'
    BY <1>10 DEF IInv, TypeOK, Started, Parsing, Posted, Marked, Fail
  <2> QED  BY <2>1, <2>2, <2>3, <2>4, <2>5 DEF IInv
<1>11. ASSUME NEW e \in Executions, NEW h \in Handlers, ExecuteHandler(e, h) PROVE IInv'
  <2>1. TypeOK'
    BY <1>11 DEF IInv, TypeOK, ExecuteHandler
  <2>2. Fresh'
    BY <1>11 DEF IInv, TypeOK, Started, Fresh, ExecuteHandler
  <2>3. Ending'
    BY <1>11 DEF IInv, TypeOK, Fresh, Parsing, Ending, Branches, ExecuteHandler
  <2>4. Branches'
    BY <1>11 DEF IInv, TypeOK, Fresh, Parsing, Ending, Branches, ExecuteHandler
  <2>5. Started' /\ Parsing' /\ Posted' /\ Marked'
    BY <1>11 DEF IInv, TypeOK, Started, Parsing, Posted, Marked, ExecuteHandler
  <2> QED  BY <2>1, <2>2, <2>3, <2>4, <2>5 DEF IInv
<1>12. ASSUME NEW e \in Executions, NEW h \in Handlers, PutEvent(e, h) PROVE IInv'
  <2>1. TypeOK'
    <3>1. \A m \in posted' : m.execution \in Executions /\ m.handler \in Handlers
      BY <1>12 DEF IInv, TypeOK, PutEvent
    <3>2. \E s \in {"done", "failed"} : branch' = [branch EXCEPT ![e][h] = s]
      BY <1>12 DEF PutEvent
    <3>3. branch' \in [Executions ->
                      [Handlers -> {"idle", "ready", "running", "done", "failed", "stopped"}]]
      BY <3>2 DEF IInv, TypeOK
    <3>4. posted \subseteq posted'
      BY <1>12 DEF PutEvent
    <3> QED  BY <1>12, <3>1, <3>3, <3>4 DEF IInv, TypeOK, PutEvent
  <2>2. Fresh'
    BY <1>12 DEF IInv, TypeOK, Started, Fresh, PutEvent
  <2>3. Ending'
    <3>1. /\ UNCHANGED <<step, parser, output>>
          /\ branch[e][h] # "done"
          /\ \A d \in Executions \ {e} : branch'[d] = branch[d]
      BY <1>12 DEF IInv, TypeOK, PutEvent
    <3> QED  BY <3>1 DEF IInv, Ending
  <2>4. Branches'
    <3>1. /\ UNCHANGED <<parser, output>>
          /\ posted \subseteq posted'
          /\ \A d \in Executions, g \in Handlers :
                d # e \/ g # h => branch'[d][g] = branch[d][g]
      BY <1>12 DEF IInv, TypeOK, PutEvent
    <3>2. branch[e][h] # "idle"
      BY <1>12 DEF PutEvent
    <3>3. branch'[e][h] = "done" => \E m \in posted' : m.execution = e /\ m.handler = h
      <4>1. CASE "Summary" \in DOMAIN HandlerInput(e, h)
        <5>1. PICK x : posted' = posted \cup {[execution |-> e, handler |-> h, message |-> x]}
          BY <1>12, <4>1 DEF PutEvent
        <5>2. [execution |-> e, handler |-> h, message |-> x] \in posted'
          BY <5>1
        <5> QED  BY <5>2
      <4>2. CASE "Summary" \notin DOMAIN HandlerInput(e, h)
        BY <1>12, <4>2 DEF IInv, TypeOK, PutEvent
      <4> QED  BY <4>1, <4>2
    <3> QED  BY <3>1, <3>2, <3>3 DEF IInv, Branches
  <2>5. Posted'
    BY <1>12 DEF IInv, TypeOK, Fresh, Parsing, Branches, Posted, PutEvent
  <2>6. Started' /\ Parsing' /\ Marked'
    BY <1>12 DEF IInv, TypeOK, Started, Parsing, Marked, PutEvent
  <2> QED  BY <2>1, <2>2, <2>3, <2>4, <2>5, <2>6 DEF IInv
<1>13. ASSUME NEW e \in Executions, ParserFails(e) PROVE IInv'
  <2>1. TypeOK'
    BY <1>13 DEF IInv, TypeOK, ParserFails
  <2>2. Fresh'
    BY <1>13 DEF IInv, TypeOK, Started, Fresh, ParserFails
  <2>3. Parsing'
    BY <1>13 DEF IInv, TypeOK, Started, Fresh, Parsing, ParserFails
  <2>4. Ending'
    BY <1>13 DEF IInv, TypeOK, Fresh, Parsing, Ending, Branches, ParserFails
  <2>5. Marked'
    BY <1>13 DEF IInv, TypeOK, Started, Fresh, Parsing, Marked, ParserFails
  <2>6. Started' /\ Branches' /\ Posted'
    BY <1>13 DEF IInv, TypeOK, Started, Branches, Posted, ParserFails
  <2> QED  BY <2>1, <2>2, <2>3, <2>4, <2>5, <2>6 DEF IInv
<1>14. ASSUME NEW e \in Executions, StopChild(e) PROVE IInv'
  <2>1. TypeOK'
    <3>1. branch' \in [Executions ->
                      [Handlers -> {"idle", "ready", "running", "done", "failed", "stopped"}]]
      <4>1. \/ branch' = branch
            \/ \E h \in Handlers : branch' = [branch EXCEPT ![e][h] = "stopped"]
        BY <1>14 DEF StopChild
      <4>2. CASE branch' = branch
        BY <4>2 DEF IInv, TypeOK
      <4>3. ASSUME NEW h \in Handlers, branch' = [branch EXCEPT ![e][h] = "stopped"]
            PROVE branch' \in [Executions ->
                      [Handlers -> {"idle", "ready", "running", "done", "failed", "stopped"}]]
        BY <4>3 DEF IInv, TypeOK
      <4> QED  BY <4>1, <4>2, <4>3
    <3>2. parser' \in [Executions -> {"idle", "describing", "notifying", "formatting", "done", "failed", "stopped"}]
      BY <1>14 DEF IInv, TypeOK, StopChild
    <3> QED  BY <1>14, <3>1, <3>2 DEF IInv, TypeOK, StopChild
  <2>2. Fresh'
    BY <1>14 DEF IInv, TypeOK, Started, Fresh, StopChild
  <2>3. Parsing'
    BY <1>14 DEF IInv, TypeOK, Started, Fresh, Parsing, StopChild
  <2>4. Ending'
    BY <1>14 DEF IInv, TypeOK, Fresh, Parsing, Ending, Branches, StopChild
  <2>5. Branches'
    <3>1. /\ UNCHANGED <<output, posted>>
          /\ \A d \in Executions : parser[d] = "done" => parser'[d] = "done"
      BY <1>14 DEF IInv, TypeOK, StopChild
    <3>2. ASSUME NEW d \in Executions, NEW h \in Handlers PROVE
            \/ branch'[d][h] = branch[d][h]
            \/ branch[d][h] = "running" /\ branch'[d][h] = "stopped"
      BY <1>14 DEF IInv, TypeOK, StopChild
    <3> QED  BY <3>1, <3>2 DEF IInv, Branches
  <2>6. Posted'
    BY <1>14 DEF IInv, TypeOK, Fresh, Parsing, Branches, Posted, StopChild
  <2>7. Marked'
    BY <1>14 DEF IInv, TypeOK, Started, Fresh, Parsing, Marked, StopChild
  <2>8. Started'
    BY <1>14 DEF IInv, TypeOK, Started, StopChild
  <2> QED  BY <2>1, <2>2, <2>3, <2>4, <2>5, <2>6, <2>7, <2>8 DEF IInv
<1>15. ASSUME NEW e \in Executions, NEW h \in Handlers, HandlerFails(e, h) PROVE IInv'
  <2>1. TypeOK'
    BY <1>15 DEF IInv, TypeOK, HandlerFails
  <2>2. Fresh'
    BY <1>15 DEF IInv, TypeOK, Started, Fresh, HandlerFails
  <2>3. Ending'
    BY <1>15 DEF IInv, TypeOK, Fresh, Parsing, Ending, Branches, HandlerFails
  <2>4. Branches'
    BY <1>15 DEF IInv, TypeOK, Fresh, Parsing, Ending, Branches, HandlerFails
  <2>5. Started' /\ Parsing' /\ Posted' /\ Marked'
    BY <1>15 DEF IInv, TypeOK, Started, Parsing, Posted, Marked, HandlerFails
  <2> QED  BY <2>1, <2>2, <2>3, <2>4, <2>5 DEF IInv
<1>16. ASSUME NEW m \in posted, Arrive(m) PROVE IInv'
  <2>1. TypeOK'
    BY <1>16 DEF IInv, TypeOK, Arrive
  <2>2. Started' /\ Fresh' /\ Parsing' /\ Ending' /\ Branches' /\ Posted' /\ Marked'
    BY <1>16 DEF IInv, TypeOK, Started, Fresh, Parsing, Ending, Branches, Posted,
       Marked, Arrive
  <2> QED  BY <2>1, <2>2 DEF IInv
<1>17. ASSUME NEW m \in posted, DeadLetter(m) PROVE IInv'
  <2>1. TypeOK'
    BY <1>17 DEF IInv, TypeOK, DeadLetter
  <2>2. Started' /\ Fresh' /\ Parsing' /\ Ending' /\ Branches' /\ Posted' /\ Marked'
    BY <1>17 DEF IInv, TypeOK, Started, Fresh, Parsing, Ending, Branches, Posted,
       Marked, DeadLetter
  <2> QED  BY <2>1, <2>2 DEF IInv
<1>18. CASE UNCHANGED vars
  BY <1>18 DEF IInv, TypeOK, Started, Fresh, Parsing, Ending, Branches, Posted,
     Marked, vars
<1> QED
  BY <1>1, <1>2, <1>3, <1>4, <1>5, <1>6, <1>7, <1>8, <1>9, <1>10, <1>11, <1>12, <1>13, <1>14, <1>15, <1>16, <1>17, <1>18
     DEF Next, Start, Advance

LEMMA AlwaysIInv == Spec => []IInv
BY InitIInv, IInvInductive, PTL DEF Spec

\* The variables keep their types: no delivery is owed a negative number of
\* times, and only posted events arrive or are dead.
THEOREM TypeCorrect == Spec => []TypeOK
<1>1. IInv => TypeOK
  BY DEF IInv
<1> QED  BY <1>1, AlwaysIInv, PTL

\* SecurityHubFinding marks a finding only after its description has been
\* built, in an execution for that same finding.
THEOREM NewUntilDescribed == Spec => []UndescribedStaysNew
<1>1. IInv => UndescribedStaysNew
  BY DEF IInv, Marked, UndescribedStaysNew
<1> QED  BY <1>1, AlwaysIInv, PTL

\* However calls fail, executions time out and deliveries repeat, the alert of
\* a finding that is marked as notified is only lost with a failed execution or
\* in a dead letter queue.
THEOREM LossIsExplained == Spec => []LossHasACause
<1>1. IInv => LossHasACause
  <2> SUFFICES ASSUME IInv, Quiet, NEW i \in Issues, NEW h \in Handlers,
                      workflow[i] = "NOTIFIED", ~Alerted(i, h),
                      ~\E m \in dead : issue[m.execution] = i /\ m.handler = h
               PROVE  \E e \in Executions : issue[e] = i /\ step[e] = "failed"
    BY DEF LossHasACause
  <2>1. PICK e \in described : /\ issue[e] = i
                               /\ Kind[i] = "SecurityHubFinding"
                               /\ parser[e] \in {"formatting", "done", "failed", "stopped"}
    BY DEF IInv, Marked
  <2>2. e \in Executions /\ step[e] \in {"succeeded", "silent", "failed"}
    BY <2>1 DEF IInv, TypeOK, Fresh, Quiet
  <2>3. step[e] # "silent"
    <3> SUFFICES ASSUME step[e] = "silent" PROVE FALSE
      OBVIOUS
    <3>1. output[e] = OutputOf(i) /\ ~AsksForAlert(output[e])
      BY <2>1, <2>2 DEF IInv, Ending, Parsing
    <3>2. OutputOf(i) = [Alert |-> TRUE, Summary |-> i, Severity |-> Severity(i)]
      BY <2>1 DEF OutputOf, HubOutput
    <3> QED  BY <3>1, <3>2 DEF AsksForAlert
  <2>4. step[e] # "succeeded"
    <3> SUFFICES ASSUME step[e] = "succeeded" PROVE FALSE
      OBVIOUS
    <3>1. PICK m \in posted : m.execution = e /\ m.handler = h
      BY <2>2 DEF IInv, Ending, Branches
    <3>2. m \in arrived \/ m \in dead
      BY DEF Quiet
    <3> QED  BY <2>1, <3>1, <3>2 DEF Alerted
  <2> QED  BY <2>1, <2>2, <2>3, <2>4
<1> QED  BY <1>1, AlwaysIInv, PTL

\* What an event on the bus says is what its handler was given.
Told == \A m \in posted :
    m.message = MessageFor(m.handler, HandlerInput(m.execution, m.handler))

\* What a handler is given does not change once its parser is done.
LEMMA ToldInductive == IInv /\ Told /\ [Next]_vars => Told'
<1> SUFFICES ASSUME IInv, Told, [Next]_vars PROVE Told'
  OBVIOUS
<1> USE DEF source, child, alerts
<1>1. ASSUME posted' = posted,
             \A m \in posted : /\ trigger'[m.execution] = trigger[m.execution]
                               /\ output'[m.execution] = output[m.execution]
      PROVE  Told'
  <2>1. \A m \in posted :
            HandlerInput(m.execution, m.handler)' = HandlerInput(m.execution, m.handler)
    BY <1>1 DEF HandlerInput
  <2> QED  BY <1>1, <2>1 DEF Told
<1>2. ASSUME NEW e \in Executions, NEW i \in Issues, NEW t \in Triggers, Invoke(e, i, t)
      PROVE  Told'
  <2>1. \A m \in posted : m.execution # e
    BY <1>2 DEF IInv, Fresh, Posted, Invoke
  <2> QED  BY <1>1, <1>2, <2>1 DEF IInv, TypeOK, Invoke
<1>3. ASSUME NEW e \in Executions, FormatOutput(e) PROVE Told'
  <2>1. \A m \in posted : m.execution # e
    BY <1>3 DEF IInv, Posted, FormatOutput
  <2>2. \A d \in Executions \ {e} : output'[d] = output[d]
    BY <1>3 DEF IInv, TypeOK, FormatOutput
  <2> QED  BY <1>1, <1>3, <2>1, <2>2 DEF IInv, TypeOK, FormatOutput
<1>4. ASSUME NEW e \in Executions, NEW h \in Handlers, PutEvent(e, h) PROVE Told'
  <2>1. UNCHANGED <<trigger, output>>
    BY <1>4 DEF PutEvent
  <2>2. \A d, g : HandlerInput(d, g)' = HandlerInput(d, g)
    BY <2>1 DEF HandlerInput
  <2>3. \A m \in posted' : \/ m \in posted
                           \/ m = [execution |-> e, handler |-> h,
                                   message |-> MessageFor(h, HandlerInput(e, h))]
    BY <1>4 DEF PutEvent
  <2> QED  BY <2>2, <2>3 DEF Told
<1>5. CASE UNCHANGED <<trigger, output, posted>>
  BY <1>1, <1>5
<1>6. \/ UNCHANGED <<trigger, output, posted>>
      \/ Start
      \/ \E e \in Executions : FormatOutput(e) \/ \E h \in Handlers : PutEvent(e, h)
  BY DEF Next, Advance, vars, Publish, Drop, DetermineIssueType, ParserFails, Describe,
         Notify, CheckAlert, ExecuteHandler, HandlerFails, Join, Fail, StopChild,
         Arrive, DeadLetter
<1> QED  BY <1>2, <1>3, <1>4, <1>5, <1>6 DEF Start

\* A set of numbers that is not empty and has a bound has a greatest one.
LEMMA HasGreatest ==
    ASSUME NEW n \in Nat, NEW S \in SUBSET (1 .. n), S # {}
    PROVE  \E k \in S : \A j \in S : j <= k
<1> DEFINE Below == {n - k : k \in S}
<1>1. Below \subseteq Nat /\ Below # {}
  <2>1. \A k \in S : n - k \in Nat
    OBVIOUS
  <2>2. PICK k \in S : TRUE
    OBVIOUS
  <2>3. n - k \in Below
    BY <2>2
  <2> QED  BY <2>1, <2>3
<1>2. \E x \in Below : \A y \in Below : ~(y < x)
  <2>1. PICK x \in Below : \A y \in Below : <<y, x>> \notin OpToRel(<, Nat)
    BY <1>1, NatLessThanWellFounded, WFMin
  <2>2. \A y \in Below : ~(y < x)
    BY <1>1, <2>1 DEF OpToRel
  <2> QED  BY <2>2
<1>3. PICK k \in S : \A y \in Below : ~(y < n - k)
  BY <1>2
<1>4. \A j \in S : n - j \in Below /\ ~(n - j < n - k)
  BY <1>3
<1> QED  BY <1>4

\* What RenderOverrides keeps of a handler's overrides is the last of them.
LEMMA LastOverrideKept ==
    ASSUME NEW t \in Triggers, NEW h \in Handlers
    PROVE  LET given == Overrides[t]
               mine == {k \in DOMAIN given : given[k][1] = h}
               last == CHOOSE k \in mine : \A j \in mine : j <= k
           IN  /\ h \in DOMAIN RenderOverrides(t) <=> mine # {}
               /\ mine # {} => RenderOverrides(t)[h] = given[last][2]
<1> DEFINE given == Overrides[t]
<1> DEFINE mine == {k \in DOMAIN given : given[k][1] = h}
<1> DEFINE last == CHOOSE k \in mine : \A j \in mine : j <= k
<1> DEFINE kept == CHOOSE k \in DOMAIN given :
                     given[k][1] = h /\ \A j \in k + 1 .. Len(given) : given[j][1] # h
<1>1. Len(given) \in Nat /\ DOMAIN given = 1 .. Len(given)
  BY HandlerAssumption
<1>2. h \in DOMAIN RenderOverrides(t) <=> mine # {}
  BY DEF RenderOverrides
<1>3. ASSUME mine # {} PROVE RenderOverrides(t)[h] = given[last][2]
  <2>1. \E k \in mine : \A j \in mine : j <= k
    <3>1. mine \in SUBSET (1 .. Len(given))
      BY <1>1
    <3> HIDE DEF mine
    <3> QED  BY <1>1, <1>3, <3>1, HasGreatest
  <2>2. last \in mine /\ \A j \in mine : j <= last
    BY <2>1
  <2>3. \A j \in last + 1 .. Len(given) : given[j][1] # h
    <3>1. \A j \in last + 1 .. Len(given) : j \in DOMAIN given /\ ~(j <= last)
      <4>1. last \in 1 .. Len(given)
        BY <1>1, <2>2
      <4> HIDE DEF last, mine, given
      <4> QED  BY <1>1, <4>1
    <3>2. \A j \in last + 1 .. Len(given) : j \notin mine
      BY <2>2, <3>1
    <3> QED  BY <3>1, <3>2
  <2>4. /\ kept \in DOMAIN given /\ given[kept][1] = h
        /\ \A j \in kept + 1 .. Len(given) : given[j][1] # h
    BY <2>2, <2>3
  <2>5. kept = last
    <3>1. kept \in mine /\ kept <= last
      BY <2>2, <2>4
    <3>2. kept \in 1 .. Len(given) /\ last \in 1 .. Len(given)
      BY <1>1, <2>2, <2>4
    <3>3. last \notin kept + 1 .. Len(given)
      BY <2>2, <2>4
    <3> HIDE DEF kept, last, given
    <3> QED  BY <1>1, <3>1, <3>2, <3>3
  <2>6. RenderOverrides(t)[h] = given[kept][2]
    BY <1>2, <1>3 DEF RenderOverrides
  <2> QED  BY <2>5, <2>6
<1> QED  BY <1>2, <1>3

\* Whatever overrides a trigger has and however executions interleave, a ticket
\* has the summary of its own issue, and the project and the priority of the last
\* override for its handler.
THEOREM OverridesReachTickets == Spec => []TicketsFollowTriggers
<1>1. IInv /\ Told => TicketsFollowTriggers
  <2> SUFFICES ASSUME IInv, Told, NEW m \in posted, Class[m.handler] = "Jira"
               PROVE  LET given == Overrides[trigger[m.execution]]
                          mine == {k \in DOMAIN given : given[k][1] = m.handler}
                          last == CHOOSE k \in mine : \A j \in mine : j <= k
                          Has(field) == mine # {} /\ field \in DOMAIN given[last][2]
                      IN  /\ m.message.summary = issue[m.execution]
                          /\ m.message.project = IF Has("Project") THEN given[last][2].Project
                                                 ELSE Configured[m.handler].Project
                          /\ Has("Priority") => m.message.priority = given[last][2].Priority
    BY DEF TicketsFollowTriggers
  <2> DEFINE e == m.execution
  <2> DEFINE h == m.handler
  <2> DEFINE given == Overrides[trigger[e]]
  <2> DEFINE mine == {k \in DOMAIN given : given[k][1] = h}
  <2> DEFINE last == CHOOSE k \in mine : \A j \in mine : j <= k
  <2> DEFINE override == IF mine # {} THEN given[last][2] ELSE Nothing
  <2> DEFINE input == JsonMerge(override, output[e])
  <2> DEFINE merged == JsonMerge(Configured[h], input)
  <2>1. e \in Executions /\ h \in Handlers /\ trigger[e] \in Triggers
    BY DEF IInv, TypeOK, Started, Fresh, Posted
  <2>2. HandlerInput(e, h) = input
    BY <2>1, LastOverrideKept DEF HandlerInput
  <2>3. m.message = JiraFields(merged)
    BY <2>2 DEF Told, MessageFor, Defaults
  <2>4. /\ "Summary" \in DOMAIN output[e] /\ output[e].Summary = issue[e]
        /\ "Project" \notin DOMAIN output[e] /\ "Priority" \notin DOMAIN output[e]
    <3>1. output[e] = OutputOf(issue[e]) /\ AsksForAlert(output[e])
      BY <2>1 DEF IInv, Parsing, Posted
    <3> QED  BY <3>1 DEF OutputOf, HubOutput, GuardOutput, EcrOutput, ConfigOutput, AsksForAlert
  <2>5. "Project" \in DOMAIN Configured[h]
    BY <2>1, HandlerAssumption
  <2>6. DOMAIN Nothing = {}
    BY DEF Nothing
  <2> HIDE DEF e, h, given, mine, last
  <2>7. merged.Summary = issue[e]
    BY <2>4 DEF JsonMerge
  <2>8. merged.Project = IF mine # {} /\ "Project" \in DOMAIN given[last][2]
                         THEN given[last][2].Project ELSE Configured[h].Project
    BY <2>4, <2>5, <2>6 DEF JsonMerge
  <2>9. mine # {} /\ "Priority" \in DOMAIN given[last][2] =>
            Priority(merged) = given[last][2].Priority
    BY <2>4 DEF JsonMerge, Priority
  <2>10. /\ m.message.summary = merged.Summary
         /\ m.message.project = merged.Project
         /\ m.message.priority = Priority(merged)
    BY <2>3 DEF JiraFields
  <2> QED  BY <2>7, <2>8, <2>9, <2>10 DEF e, h, given, mine, last
<1>2. Init => Told
  BY DEF Init, Told
<1> QED  BY <1>1, <1>2, AlwaysIInv, ToldInductive, PTL DEF Spec

\* The issue manager implements AlertDelivery: a parser that formats its output
\* asks every handler for an alert, and an event that arrives is one of those.
THEOREM DeliversOnlyWhatIsAsked == Spec => DeliversSafely
<1> USE DEF Alerting!vars, Alerting!Next
<1>1. Init => Alerting!Init
  BY DEF Init, Alerting!Init, Wanted, Nothing
<1>2. IInv /\ [Next]_vars => [Alerting!Next]_(Alerting!vars)
  <2> SUFFICES ASSUME IInv, [Next]_vars PROVE [Alerting!Next]_(Alerting!vars)
    OBVIOUS
  <2>1. ASSUME UNCHANGED <<output, arrived>> PROVE UNCHANGED Alerting!vars
    BY <2>1 DEF Wanted
  <2>2. ASSUME NEW e \in Executions, FormatOutput(e)
        PROVE  [Alerting!Next]_(Alerting!vars)
    <3>1. CASE MissingReference(issue[e])
      BY <2>1, <2>2, <3>1 DEF FormatOutput, alerts
    <3>2. CASE ~MissingReference(issue[e])
      <4>1. /\ arrived' = arrived
            /\ output' = [output EXCEPT ![e] = OutputOf(issue[e])]
            /\ output[e] = Nothing
        BY <2>2, <3>2 DEF FormatOutput, alerts, IInv, Parsing
      <4>2. ~Wanted(e) /\ \A d \in Executions \ {e} : Wanted(d)' <=> Wanted(d)
        BY <4>1 DEF Wanted, Nothing, IInv, TypeOK
      <4>3. CASE Wanted(e)'
        <5>1. Alerting!Report(e)
          BY <4>1, <4>2, <4>3 DEF Alerting!Report
        <5> QED  BY <5>1
      <4>4. CASE ~Wanted(e)'
        BY <4>1, <4>2, <4>4
      <4> QED  BY <4>3, <4>4
    <3> QED  BY <3>1, <3>2
  <2>3. ASSUME NEW m \in posted, Arrive(m)
        PROVE  [Alerting!Next]_(Alerting!vars)
    <3> DEFINE a == <<m.execution, m.handler>>
    <3>1. a \in Executions \X Handlers /\ Wanted(a[1])
      BY DEF IInv, TypeOK, Posted, AsksForAlert, Wanted
    <3>2. /\ output' = output
          /\ arrived' = arrived \cup {m}
      BY <2>3 DEF Arrive, child
    <3>3. CASE a \in {<<n.execution, n.handler>> : n \in arrived}
      BY <3>2, <3>3 DEF Wanted
    <3>4. CASE a \notin {<<n.execution, n.handler>> : n \in arrived}
      <4>1. Alerting!Make(a)
        BY <3>1, <3>2, <3>4 DEF Alerting!Make, Wanted
      <4> QED  BY <3>1, <4>1
    <3> QED  BY <3>3, <3>4
  <2>4. CASE UNCHANGED <<output, arrived>>
    BY <2>1, <2>4
  <2>5. \/ UNCHANGED <<output, arrived>>
        \/ \E e \in Executions : FormatOutput(e)
        \/ \E m \in posted : Arrive(m)
    BY DEF Next, Start, Advance, vars, source, child, alerts, Publish, Invoke, Drop,
           DetermineIssueType, ParserFails, Describe, Notify, CheckAlert, ExecuteHandler,
           PutEvent, HandlerFails, Join, Fail, StopChild, DeadLetter
  <2> QED  BY <2>2, <2>3, <2>4, <2>5
<1> QED  BY <1>1, <1>2, AlwaysIInv, PTL DEF Spec, DeliversSafely, Alerting!Spec
=============================================================================

------------------------- MODULE AlertManagerConfig -------------------------
(***************************************************************************)
(* The configuration of a workspace's alert manager (aps/workspace.ts,     *)
(* lib/alert-manager): a program adds receivers, time intervals, routes,   *)
(* inhibit rules and templates while the document may already be read.     *)
(*                                                                         *)
(* The document is a lazy string that is kept, made of lists that are kept *)
(* each on their own.  What an entry tells apart from the names of others, *)
(* its labels, matchers and hours, is left out.                            *)
(***************************************************************************)
EXTENDS Naturals, FiniteSets

CONSTANTS
    ReceiverNames,  \* beyond "default"
    IntervalNames,
    RouteIds,       \* beyond "root"
    RuleIds,
    MaxTemplates    \* bound: templates of the configuration

VARIABLES
    receivers,   \* names of the receivers
    intervals,   \* names of the time intervals
    templates,   \* how many templates
    routes,      \* [ids -> [parent, receiver, times]]
    rules,       \* [ids -> sides that have matchers]
    kept,        \* what the document was made of when it was first read
    document,    \* the document as it was last read
    configured   \* "open", "refused" or "written"

alertManager == <<receivers, intervals, templates, routes, rules, kept, document, configured>>

Unread == [unread |-> TRUE]

Route(parent, receiver) == [parent |-> parent, receiver |-> receiver, times |-> {}]

AlertManagerInit ==
    /\ receivers = {"default"}
    /\ intervals = {} /\ templates = 0
    /\ routes = [id \in {"root"} |-> Route("", "default")]
    /\ rules = <<>>
    /\ kept = Unread /\ document = Unread
    /\ configured = "open"

Extended(f, k, v) == [x \in DOMAIN f \cup {k} |-> IF x = k THEN v ELSE f[x]]

-----------------------------------------------------------------------------
(***************************************************************************)
(* The program's calls.                                                    *)
(***************************************************************************)

AddReceiver(name) ==
    /\ receivers' = receivers \cup {name}
    /\ UNCHANGED <<intervals, templates, routes, rules, kept, document, configured>>

AddTimeInterval(name) ==
    /\ intervals' = intervals \cup {name}
    /\ UNCHANGED <<receivers, templates, routes, rules, kept, document, configured>>

AddTemplate ==
    /\ templates < MaxTemplates
    /\ templates' = templates + 1
    /\ UNCHANGED <<receivers, intervals, routes, rules, kept, document, configured>>

AddChild(id, parent, receiver) ==
    /\ id \notin DOMAIN routes
    /\ routes' = Extended(routes, id, Route(parent, receiver))
    /\ UNCHANGED <<receivers, intervals, templates, rules, kept, document, configured>>

\* Active and muted times are alike.  The default route is refused any.
AddRouteTime(id, name) ==
    /\ IF routes[id].parent = ""
       THEN configured' = "refused" /\ UNCHANGED routes
       ELSE /\ routes' = [routes EXCEPT ![id].times = @ \cup {name}]
            /\ UNCHANGED configured
    /\ UNCHANGED <<receivers, intervals, templates, rules, kept, document>>

AddInhibitRule(id, sides) ==
    /\ id \notin DOMAIN rules
    /\ rules' = Extended(rules, id, sides)
    /\ UNCHANGED <<receivers, intervals, templates, routes, kept, document, configured>>

AddRuleMatcher(id, side) ==
    /\ rules' = [rules EXCEPT ![id] = @ \cup {side}]
    /\ UNCHANGED <<receivers, intervals, templates, routes, kept, document, configured>>

-----------------------------------------------------------------------------
(***************************************************************************)
(* Reading the document.                                                   *)
(***************************************************************************)

Contents == [receivers |-> receivers, intervals |-> intervals, templates |-> templates,
             routes |-> routes, rules |-> rules]

ChildrenEachTime(contents) == routes
Children(contents) == contents.routes

\* Its templates are named for their places, and so are the files that hold them.
Document(contents) ==
    [receivers |-> contents.receivers, intervals |-> contents.intervals,
     names |-> 1 .. contents.templates, files |-> 1 .. contents.templates,
     routes |-> Children(contents), rules |-> DOMAIN contents.rules]

\* A rule without matchers on both sides stops the program when its lists are made.
RenderAlertManagerConfig(then) ==
    LET contents == IF kept = Unread THEN Contents ELSE kept
    IN  /\ kept' = contents
        /\ IF \A id \in DOMAIN contents.rules : contents.rules[id] = {"source", "target"}
           THEN document' = Document(contents) /\ configured' = then
           ELSE configured' = "refused" /\ UNCHANGED document
        /\ UNCHANGED <<receivers, intervals, templates, routes, rules>>

Configure ==
    \/ \E name \in ReceiverNames : AddReceiver(name)
    \/ \E name \in IntervalNames : AddTimeInterval(name)
    \/ AddTemplate
    \/ \E id \in RouteIds, parent \in DOMAIN routes, receiver \in receivers :
          AddChild(id, parent, receiver)
    \/ \E id \in DOMAIN routes, name \in intervals : AddRouteTime(id, name)
    \/ \E id \in RuleIds, sides \in SUBSET {"source", "target"} : AddInhibitRule(id, sides)
    \/ \E id \in DOMAIN rules, side \in {"source", "target"} : AddRuleMatcher(id, side)

AlertManagerNext ==
    /\ configured = "open"
    /\ \/ Configure
       \/ RenderAlertManagerConfig("open")
       \/ RenderAlertManagerConfig("written")

AlertManagerSpec == AlertManagerInit /\ [][AlertManagerNext]_alertManager

-----------------------------------------------------------------------------
NamesDefined ==
    \A id \in DOMAIN document.routes :
        LET route == document.routes[id]
        IN  /\ route.receiver \in document.receivers
            /\ route.times \subseteq document.intervals
            /\ id # "root" => route.parent \in DOMAIN document.routes

\* Whatever is added between one reading of the document and the next, a document that has
\* been read is complete in itself (configuration.ts 506-519): the receivers and time
\* intervals that its routes name, and the files of the templates that it names, are all
\* in it, although each part of it is kept on its own.
DocumentIsClosed ==
    document # Unread => NamesDefined /\ document.names = document.files
=============================================================================

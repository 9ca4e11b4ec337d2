------------------------- MODULE ReferenceDelivery -------------------------
(***************************************************************************)
(* What dynamic references promise to whoever deploys the templates:       *)
(* templates are written one stage at a time, and a stage whose templates  *)
(* are written exports every value that a written template, its own or     *)
(* another stage's, takes from it.                                         *)
(***************************************************************************)
CONSTANTS
    Stages,      \* the stages of an application
    Refs,        \* the values that stages may take from one another
    Home(_)      \* the stage that provides a value

VARIABLES
    open,        \* stages whose templates are still to be written
    needed,      \* values that written templates import or ask for
    supplied     \* values that written templates export

vars == <<open, needed, supplied>>

Init == open = Stages /\ needed = {} /\ supplied = {}

\* Writing the templates of s: they may need anything and must supply all
\* that is needed from a stage that cannot be written any more.
Write(s) ==
    /\ s \in open
    /\ open' = open \ {s}
    /\ needed \subseteq needed' /\ needed' \subseteq Refs
    /\ supplied \subseteq supplied'
    /\ supplied' \ supplied \subseteq {r \in Refs : Home(r) = s}
    /\ \A r \in needed' : Home(r) \in open' \/ r \in supplied'

Next == \E s \in Stages : Write(s)

Spec == Init /\ [][Next]_vars

=============================================================================

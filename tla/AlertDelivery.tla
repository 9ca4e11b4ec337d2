--------------------------- MODULE AlertDelivery ---------------------------
(***************************************************************************)
(* What an issue manager promises: when a parser reports an issue that     *)
(* asks for an alert, every handler is asked for one, and no alert reaches *)
(* an outside service that was not asked for.  With fairness, every alert  *)
(* asked for gets there.                                                   *)
(***************************************************************************)
CONSTANTS Reports,   \* the reports parsers may make
          Handlers   \* the services that are to hear of each

VARIABLES asked,     \* alerts asked for: <<report, handler>>
          made       \* alerts that have reached their service

vars == <<asked, made>>

Report(r) == /\ \A h \in Handlers : <<r, h>> \notin asked
             /\ asked' = asked \cup ({r} \X Handlers)
             /\ UNCHANGED made

Make(a) == /\ a \in asked \ made
           /\ made' = made \cup {a}
           /\ UNCHANGED asked

Init == asked = {} /\ made = {}

Next == \/ \E r \in Reports : Report(r)
        \/ \E a \in Reports \X Handlers : Make(a)

Spec == Init /\ [][Next]_vars

FairSpec == Spec /\ \A a \in Reports \X Handlers : WF_vars(Make(a))
=============================================================================

--------------------------- MODULE LazyRendering ---------------------------
(***************************************************************************)
(* What a construct promises that renders its properties lazily: however   *)
(* often and in whatever order its parts are rendered, a template that is  *)
(* written defines every name that it mentions, and stays as it is.        *)
(***************************************************************************)
CONSTANT Names

VARIABLES mentions, defines, written

rendering == <<mentions, defines, written>>

RenderingInit == mentions = {} /\ defines = {} /\ written = FALSE

RenderPart ==
    /\ ~written
    /\ mentions' \in SUBSET Names
    /\ defines' \in SUBSET Names
    /\ UNCHANGED written

WriteTemplate ==
    /\ ~written
    /\ mentions \subseteq defines
    /\ written' = TRUE
    /\ UNCHANGED <<mentions, defines>>

RenderingSpec == RenderingInit /\ [][RenderPart \/ WriteTemplate]_rendering
=============================================================================

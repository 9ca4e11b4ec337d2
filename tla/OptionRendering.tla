-------------------------- MODULE OptionRendering --------------------------
(***************************************************************************)
(* How a construct or a plugin comes from the options that a program gives *)
(* it to the template or the configuration that is deployed: it keeps the  *)
(* options, and renders each property or line from one or more of them.    *)
(* What a class offers, and what it renders from what, is in tables, one   *)
(* of each class.  A program is deployed, an option of one of its objects  *)
(* is edited, and it is deployed again.                                    *)
(*                                                                         *)
(* A table has the options that a class offers, alternatives of which each *)
(* object has one, and its lines: for each key the set of options that its *)
(* value is made of.  A value is a map from the names of entries: an entry *)
(* has the name of its option, or the one that the program has chosen for  *)
(* it, and the last option to write an entry decides it.  The conversions  *)
(* on the way (On and Off for booleans, seconds for durations, names and   *)
(* ARNs for resources) tell different values apart, so a value stands for  *)
(* what it has been converted to (subnets for the first that they select). *)
(***************************************************************************)
EXTENDS Naturals

CONSTANTS
    Tables,  \* [classes -> tables]
    Values   \* values of an option, none of them its default

VARIABLES
    class,      \* the class of the object, or "none"
    chosen,     \* [options that it was given -> [at |-> an entry, is |-> a value]]
    edited,     \* the options that the last edit gave other values
    before,     \* what was deployed before the edit
    deployed    \* what has been deployed

rendering == <<class, chosen, edited, before, deployed>>

\* Options that write an entry of a map, each under the name it is given with.
KeyedOptions(c) == Tables[c].given \cup Tables[c].calls

\* Options that write entries into one map do so one after the other.
ASSUME TablesAssumption ==
    \A c \in DOMAIN Tables :
        /\ \A alternatives \in Tables[c].requires :
             alternatives # {} /\ alternatives \subseteq Tables[c].offers
        /\ \A key \in DOMAIN Tables[c].lines :
             /\ Tables[c].lines[key] \subseteq Tables[c].offers
             /\ \A o \in Tables[c].lines[key] \cap KeyedOptions(c) :
                  \A p \in Tables[c].lines[key] \ {o} :
                     /\ {o, p} \subseteq DOMAIN Tables[c].turn
                     /\ Tables[c].turn[o] # Tables[c].turn[p]
        /\ \A o \in DOMAIN Tables[c].turn : Tables[c].turn[o] \in Nat

\* The names that an option's entry may have: a program may choose one that another
\* option writes into the same map.
Entries(c, o) ==
    IF o \in KeyedOptions(c)
    THEN UNION {Tables[c].lines[key] : key \in {k \in DOMAIN Tables[c].lines : o \in Tables[c].lines[k]}}
    ELSE {o}

\* The option that decides an entry, of those that write it.
LastToWrite(c, options, writers, entry) ==
    CHOOSE o \in writers :
        /\ options[o].at = entry
        /\ \A p \in writers \ {o} : options[p].at = entry => Tables[c].turn[p] < Tables[c].turn[o]

\* An option or entry that is undefined leaves no line.
Render(c, options) ==
    LET lines == Tables[c].lines
        read(key) == lines[key] \cap DOMAIN options
    IN  [key \in {k \in DOMAIN lines : read(k) # {}} |->
            [entry \in {options[o].at : o \in read(key)} |->
                options[LastToWrite(c, options, read(key), entry)].is]]

RenderingInit ==
    /\ class = "none" /\ chosen = <<>>
    /\ edited = {}
    /\ before = <<>> /\ deployed = <<>>

\* One of each of the alternatives that a class requires.
Minimal(c) ==
    {{choice[alternatives] : alternatives \in Tables[c].requires} :
        choice \in {f \in [Tables[c].requires -> UNION Tables[c].requires] :
                       \A alternatives \in Tables[c].requires : f[alternatives] \in alternatives}}

\* What a program may give an object in these options.
GivenOptions(c, options) ==
    LET named == options \cap KeyedOptions(c)
        names == {at \in [named -> UNION {Entries(c, o) : o \in named}] :
                     \A o \in named : at[o] \in Entries(c, o)}
    IN  {[o \in options |-> [at |-> IF o \in named THEN at[o] ELSE o, is |-> is[o]]] :
            at \in names, is \in [options -> Values]}

\* A program is written, with up to two options more than an object requires, and
\* deployed for the first time.
DeployObject ==
    /\ class = "none"
    /\ \E c \in DOMAIN Tables :
         \E o, p \in Tables[c].offers, minimal \in Minimal(c) :
            /\ class' = c
            /\ chosen' \in GivenOptions(c, minimal \cup {o, p})
            /\ deployed' = Render(c, chosen')
    /\ UNCHANGED <<edited, before>>

\* An option is given another value, and the program is deployed again.
Edit(o) ==
    /\ class # "none" /\ edited = {}
    /\ o \in DOMAIN chosen
    /\ \E v \in Values \ {chosen[o].is} : chosen' = [chosen EXCEPT ![o].is = v]
    /\ edited' = {o}
    /\ before' = deployed
    /\ deployed' = Render(class, chosen')
    /\ UNCHANGED class

RenderingNext == DeployObject \/ \E o \in DOMAIN chosen : Edit(o)

RenderingSpec == RenderingInit /\ [][RenderingNext]_rendering

-----------------------------------------------------------------------------
\* The program itself gives an option's entry in another way too; the entry of a
\* method that is called on the finished object is not given up for anything.
GivenAgain(o) ==
    /\ o \notin Tables[class].calls
    /\ \E p \in DOMAIN chosen \ {o} : chosen[p].at = chosen[o].at

\* Whoever edits an option of a program and deploys it again finds the edit in
\* what is deployed, whatever else the object was given, unless the program gives the
\* same entry in another way too and not in a call: no option is offered and then kept
\* by nobody or rendered from another one's field, no call is undone by what a
\* constructor was given, and no option but one of the same entry hides another.
EditsArrive == \A o \in edited : deployed # before \/ GivenAgain(o)
=============================================================================

-------------------------- MODULE DescriptionProofs --------------------------
(***************************************************************************)
(* Two theorems about what a parser's chain makes of an event, for all     *)
(* events and all orders in which the iterations of a Map are taken.       *)
(*                                                                         *)
(* No description fails for want of a field that is optional: a chain is   *)
(* put together from parts in which such a field is read behind the Choice *)
(* that asks for it, and no jump of any part leads past that Choice.       *)
(*                                                                         *)
(* And every description is faithful.  The text that an execution has      *)
(* written so far depends on the way it has come; so each place of a chain *)
(* is annotated with what may have been written there, and annotations     *)
(* that the moves of the states respect are an invariant of the execution. *)
(* They are found part by part: two chains that are put together have the  *)
(* annotations of both.                                                    *)
(***************************************************************************)
EXTENDS Descriptions, WellFoundedInduction, SequenceTheorems, TLAPS

-----------------------------------------------------------------------------
(***************************************************************************)
(* Chains, and what is safe to put together.                               *)
(***************************************************************************)

\* A set of naturals that is not empty has a least element.
LEMMA HasLeast ==
  ASSUME NEW T, T \subseteq Nat, T # {}
  PROVE  \E x \in T : \A y \in T : x <= y
<1>1. PICK x \in T : \A y \in T : <<y, x>> \notin OpToRel(<, Nat)
  BY NatLessThanWellFounded, WFMin
<1>2. \A y \in T : ~(y < x)
  BY <1>1 DEF OpToRel
<1> QED BY <1>2

\* Induction, over a set instead of a predicate.
LEMMA NatSetInduction ==
  ASSUME NEW S, 0 \in S, \A n \in Nat : n \in S => n + 1 \in S
  PROVE  Nat \subseteq S
<1> DEFINE T == Nat \ S
<1>1. SUFFICES ASSUME T # {} PROVE FALSE
  OBVIOUS
<1>2. PICK x \in T : \A y \in T : x <= y
  <2> T \subseteq Nat
    OBVIOUS
  <2> HIDE DEF T
  <2> QED BY <1>1, HasLeast
<1>3. x - 1 \in Nat /\ x - 1 \notin T /\ (x - 1) + 1 = x
  BY <1>2
<1> QED BY <1>3


\* A sequence, of whatever states.
IsChain(c) == \E S : c \in Seq(S)

\* The states of two chains that are put together.
LEMMA Joined ==
  ASSUME NEW c, NEW d, IsChain(c), IsChain(d)
  PROVE  /\ IsChain(c \o d)
         /\ Len(c) \in Nat /\ Len(d) \in Nat /\ Len(c \o d) = Len(c) + Len(d)
         /\ DOMAIN c = 1 .. Len(c)
         /\ \A k \in 1 .. Len(c) : (c \o d)[k] = c[k]
         /\ \A k \in 1 .. Len(d) : (c \o d)[Len(c) + k] = d[k]
         /\ \A k \in 1 .. Len(c \o d) :
                \/ k \in 1 .. Len(c)
                \/ k - Len(c) \in 1 .. Len(d) /\ k = Len(c) + (k - Len(c))
<1>1. PICK S, T : c \in Seq(S) /\ d \in Seq(T)
  BY DEF IsChain
<1>2. c \in Seq(S \cup T) /\ d \in Seq(S \cup T)
  BY <1>1
<1>3. c \o d \in Seq(S \cup T)
  BY <1>2
<1> QED BY <1>2, <1>3 DEF IsChain

\* A component whose fields may be missing, or one that needs only what is given.
Askable(component, given) ==
    /\ component.required \in BOOLEAN
    /\ component.required => component.reads \subseteq given
    /\ ~component.required => \E f : component.reads = {f}

\* All components of a section's body are such.
Asks(body, given) ==
    IsChain(body) /\ \A k \in 1 .. Len(body) : Askable(body[k], given)

\* The chain of a Map iteration: it may rely on nothing.
MadeOf(states) == \E body : Asks(body, {}) /\ states = WriteAll(body, Kept, Line)

\* A state that fails if its fields are not there, and they may not be.
Bare(state, given) == state.do = "add" /\ ~(state.reads \subseteq given)

\* A jump to k leads behind the chain or to a state that needs nothing in front of it.
Lands(states, k, given) ==
    k = Len(states) + 1 \/ (k \in 1 .. Len(states) /\ ~Bare(states[k], given))

\* The Choice in front of a state asks for the one field that the state reads.
Guards(check, add) ==
    check.do = "check" /\ \E f : check.reads = {f} /\ add.reads = {f}

\* A state that may fail comes right behind its Choice, and no jump leads there.
Guarded(states, given) ==
    /\ IsChain(states)
    /\ \A k \in 1 .. Len(states) :
        /\ Bare(states[k], given) => k # 1 /\ Guards(states[k - 1], states[k])
        /\ states[k].do \in {"check", "while"} =>
            states[k].skip \in Nat /\ Lands(states, k + 1 + states[k].skip, given)
        /\ states[k].do = "step" =>
            states[k].back \in Nat /\ Lands(states, k + 1 - states[k].back, given)
        /\ states[k].do = "map" => states[k].over \in given /\ MadeOf(states[k].body)
        /\ states[k].do = "output" => states[k].reads \subseteq given

\* Guarded chains may be put together: a jump behind the first is one to the
\* start of the second.
LEMMA GuardedJoin ==
  ASSUME NEW c, NEW d, NEW given, Guarded(c, given), Guarded(d, given)
  PROVE  Guarded(c \o d, given)
<1> DEFINE e == c \o d
<1>1. IsChain(c) /\ IsChain(d)
  BY DEF Guarded
<1>2. /\ IsChain(e)
      /\ Len(c) \in Nat /\ Len(d) \in Nat /\ Len(e) = Len(c) + Len(d)
      /\ \A k \in 1 .. Len(c) : e[k] = c[k]
      /\ \A k \in 1 .. Len(d) : e[Len(c) + k] = d[k]
      /\ \A k \in 1 .. Len(e) :
                \/ k \in 1 .. Len(c)
                \/ k - Len(c) \in 1 .. Len(d) /\ k = Len(c) + (k - Len(c))
  BY <1>1, Joined
<1> HIDE DEF e
<1>3. ASSUME NEW j, Lands(c, j, given) PROVE Lands(e, j, given)
  <2>1. CASE j \in 1 .. Len(c) /\ ~Bare(c[j], given)
    BY <1>2, <2>1 DEF Lands
  <2>2. CASE j = Len(c) + 1 /\ Len(d) = 0
    BY <1>2, <2>2 DEF Lands
  <2>3. CASE j = Len(c) + 1 /\ Len(d) # 0
    <3>1. 1 \in 1 .. Len(d) /\ j \in 1 .. Len(e) /\ e[j] = d[1]
      BY <1>2, <2>3
    <3>2. ~Bare(d[1], given)
      BY <3>1 DEF Guarded
    <3> QED BY <3>1, <3>2 DEF Lands
  <2> QED BY <1>3, <2>1, <2>2, <2>3 DEF Lands
<1>4. ASSUME NEW j, Lands(d, j, given) PROVE Lands(e, Len(c) + j, given)
  BY <1>2, <1>4 DEF Lands
<1> DEFINE Fine(states, k) ==
            /\ Bare(states[k], given) => k # 1 /\ Guards(states[k - 1], states[k])
            /\ states[k].do \in {"check", "while"} =>
                states[k].skip \in Nat /\ Lands(states, k + 1 + states[k].skip, given)
            /\ states[k].do = "step" =>
                states[k].back \in Nat /\ Lands(states, k + 1 - states[k].back, given)
            /\ states[k].do = "map" => states[k].over \in given /\ MadeOf(states[k].body)
            /\ states[k].do = "output" => states[k].reads \subseteq given
<1>5. /\ \A k \in 1 .. Len(c) : Fine(c, k)
      /\ \A k \in 1 .. Len(d) : Fine(d, k)
  BY DEF Guarded
<1>6. ASSUME NEW k \in 1 .. Len(c) PROVE Fine(e, k)
  <2>1. e[k] = c[k] /\ (k # 1 => e[k - 1] = c[k - 1])
    BY <1>2
  <2>2. Fine(c, k)
    BY <1>5
  <2> QED BY <1>3, <2>1, <2>2
<1>7. ASSUME NEW i \in 1 .. Len(d) PROVE Fine(e, Len(c) + i)
  <2>1. /\ e[Len(c) + i] = d[i]
        /\ i # 1 => e[(Len(c) + i) - 1] = d[i - 1] /\ Len(c) + i # 1
    <3>0. Len(c) \in Nat /\ Len(d) \in Nat
      BY <1>2
    <3>1. i # 1 => i - 1 \in 1 .. Len(d) /\ (Len(c) + i) - 1 = Len(c) + (i - 1)
      BY <3>0
    <3>2. Len(c) + i = 1 => i = 1
      BY <3>0
    <3>3. e[Len(c) + i] = d[i]
      BY <1>2
    <3>4. i # 1 => e[(Len(c) + i) - 1] = d[i - 1]
      <4> SUFFICES ASSUME i # 1 PROVE e[(Len(c) + i) - 1] = d[i - 1]
        OBVIOUS
      <4>1. e[Len(c) + (i - 1)] = d[i - 1]
        BY <1>2, <3>1
      <4> QED BY <3>1, <4>1
    <3> QED BY <3>2, <3>3, <3>4
  <2>2. Fine(d, i)
    BY <1>5
  <2>3. d[i].do \in {"check", "while"} => Lands(e, (Len(c) + i) + 1 + d[i].skip, given)
    <3> SUFFICES ASSUME d[i].do \in {"check", "while"}
                 PROVE  Lands(e, (Len(c) + i) + 1 + d[i].skip, given)
      OBVIOUS
    <3>1. d[i].skip \in Nat /\ Lands(d, i + 1 + d[i].skip, given)
      BY <2>2
    <3>2. Lands(e, Len(c) + (i + 1 + d[i].skip), given)
      BY <1>4, <3>1
    <3>3. (Len(c) + i) + 1 + d[i].skip = Len(c) + (i + 1 + d[i].skip)
      <4>1. Len(c) \in Nat /\ i \in Nat
        BY <1>2
      <4> QED BY <3>1, <4>1
    <3> QED BY <3>2, <3>3
  <2>4. d[i].do = "step" => Lands(e, (Len(c) + i) + 1 - d[i].back, given)
    <3> SUFFICES ASSUME d[i].do = "step"
                 PROVE  Lands(e, (Len(c) + i) + 1 - d[i].back, given)
      OBVIOUS
    <3>1. d[i].back \in Nat /\ Lands(d, i + 1 - d[i].back, given)
      BY <2>2
    <3>2. Lands(e, Len(c) + (i + 1 - d[i].back), given)
      BY <1>4, <3>1
    <3>3. (Len(c) + i) + 1 - d[i].back = Len(c) + (i + 1 - d[i].back)
      <4>1. Len(c) \in Nat /\ i \in Nat
        BY <1>2
      <4> QED BY <3>1, <4>1
    <3> QED BY <3>2, <3>3
  <2> QED BY <2>1, <2>2, <2>3, <2>4
<1>8. \A k \in 1 .. Len(e) : Fine(e, k)
  <2> HIDE DEF Fine
  <2> QED BY <1>2, <1>6, <1>7
<1> QED BY <1>2, <1>8 DEF Guarded, e

\* A sequence is a function on its places.
LEMMA ChainFun ==
  ASSUME NEW c, IsChain(c)
  PROVE  Len(c) \in Nat /\ DOMAIN c = 1 .. Len(c) /\ c = [k \in 1 .. Len(c) |-> c[k]]
BY DEF IsChain

\* A function on a sequence's places is a sequence of its values.
LEMMA FunChain ==
  ASSUME NEW n \in Nat, NEW c, c = [k \in 1 .. n |-> c[k]]
  PROVE  IsChain(c) /\ Len(c) = n
<1> DEFINE S == {c[k] : k \in 1 .. n}
<1>1. c \in [1 .. n -> S]
  OBVIOUS
<1>2. c \in Seq(S)
  BY <1>1
<1>3. DOMAIN c = 1 .. n
  OBVIOUS
<1>4. Len(c) = n
  BY <1>2, <1>3
<1> QED BY <1>2, <1>4 DEF IsChain

\* Sequences that are written out.
LEMMA OneState ==
  ASSUME NEW a PROVE IsChain(<<a>>) /\ Len(<<a>>) = 1 /\ <<a>>[1] = a
<1>1. <<a>> \in Seq({a})
  OBVIOUS
<1> QED BY <1>1 DEF IsChain

\* A sequence of two states has those at its places; likewise for more below.
LEMMA TwoStates ==
  ASSUME NEW a, NEW b
  PROVE  IsChain(<<a, b>>) /\ Len(<<a, b>>) = 2 /\ <<a, b>>[1] = a /\ <<a, b>>[2] = b
<1>1. <<a, b>> \in Seq({a, b})
  OBVIOUS
<1> QED BY <1>1 DEF IsChain

\* The same of three.
LEMMA ThreeStates ==
  ASSUME NEW a, NEW b, NEW c
  PROVE  /\ IsChain(<<a, b, c>>) /\ Len(<<a, b, c>>) = 3
         /\ <<a, b, c>>[1] = a /\ <<a, b, c>>[2] = b /\ <<a, b, c>>[3] = c
<1>1. <<a, b, c>> \in Seq({a, b, c})
  OBVIOUS
<1> QED BY <1>1 DEF IsChain

\* The chain without states.
LEMMA GuardedNone ==
  ASSUME NEW given PROVE Guarded(<<>>, given)
<1>1. <<>> \in Seq({}) /\ Len(<<>>) = 0
  OBVIOUS
<1> QED BY <1>1 DEF Guarded, IsChain

\* Sequences are put together in any grouping, and the empty one adds nothing.
LEMMA Regrouped ==
  ASSUME NEW a, NEW b, NEW c, IsChain(a), IsChain(b), IsChain(c)
  PROVE  (a \o b) \o c = a \o (b \o c) /\ IsChain((a \o b) \o c)
<1>1. PICK S, T, U : a \in Seq(S) /\ b \in Seq(T) /\ c \in Seq(U)
  BY DEF IsChain
<1> DEFINE V == S \cup T \cup U
<1>2. a \in Seq(V) /\ b \in Seq(V) /\ c \in Seq(V)
  BY <1>1
<1> HIDE DEF V
<1>3. (a \o b) \o c = a \o (b \o c) /\ (a \o b) \o c \in Seq(V)
  BY <1>2
<1> QED BY <1>3 DEF IsChain

\* Joining a chain with no states changes nothing.
LEMMA EmptyAdds ==
  ASSUME NEW a, IsChain(a)
  PROVE  a \o <<>> = a /\ <<>> \o a = a
BY DEF IsChain

\* No states are a chain, too.
LEMMA EmptyIsChain == IsChain(<<>>) /\ Len(<<>>) = 0
<1>1. <<>> \in Seq({}) /\ Len(<<>>) = 0
  OBVIOUS
<1> QED BY <1>1 DEF IsChain

\* What FlattenSeq makes of the first of several sequences, of the first two, and so on.
LEMMA FlattenSteps ==
  ASSUME NEW seqs, IsChain(seqs), \A k \in 1 .. Len(seqs) : IsChain(seqs[k])
  PROVE  \E f : /\ f[0] = <<>>
                /\ \A k \in 1 .. Len(seqs) : f[k] = f[k - 1] \o seqs[k]
                /\ \A k \in 0 .. Len(seqs) : IsChain(f[k])
                /\ f[Len(seqs)] = FlattenSeq(seqs)
<1> DEFINE n == Len(seqs)
           Up(f) == f = [i \in 1 .. n |-> IF i = 1 THEN seqs[i] ELSE f[i - 1] \o seqs[i]]
           Upto(k, g) == \A i \in 1 .. k : g[i] = IF i = 1 THEN seqs[i] ELSE g[i - 1] \o seqs[i]
<1>1. n \in Nat
  BY ChainFun
<1>2. \E f : Up(f)
  <2> DEFINE S == {k \in Nat : \E g : Upto(k, g)}
  <2>1. 0 \in S
    OBVIOUS
  <2>2. ASSUME NEW k \in Nat, k \in S PROVE k + 1 \in S
    <3>1. PICK g : Upto(k, g)
      BY <2>2
    <3> DEFINE h == [i \in 1 .. k + 1 |->
                      IF i = k + 1 THEN IF i = 1 THEN seqs[i] ELSE g[i - 1] \o seqs[i] ELSE g[i]]
    <3>2. Upto(k + 1, h)
      BY <3>1
    <3> HIDE DEF Upto, h
    <3> QED BY <3>2
  <2>3. n \in S
    <3> HIDE DEF S
    <3> QED BY <1>1, <2>1, <2>2, NatSetInduction
  <2>4. PICK g : Upto(n, g)
    BY <2>3
  <2> DEFINE f == [i \in 1 .. n |-> g[i]]
  <2>5. Up(f)
    BY <1>1, <2>4
  <2> HIDE DEF Up, f
  <2> QED BY <2>5
<1> DEFINE u == CHOOSE f : Up(f)
           f == [k \in 0 .. n |-> IF k = 0 THEN <<>> ELSE u[k]]
<1>3. Up(u)
  BY <1>2
<1>4. FlattenSeq(seqs) = IF n = 0 THEN seqs ELSE u[n]
  BY DEF FlattenSeq
<1> HIDE DEF u
<1>5. f[0] = <<>>
  BY <1>1
<1>6. ASSUME NEW k \in 1 .. n PROVE f[k] = f[k - 1] \o seqs[k]
  <2>1. f[k] = IF k = 1 THEN seqs[k] ELSE u[k - 1] \o seqs[k]
    <3>1. f[k] = u[k]
      BY <1>1
    <3>2. u[k] = IF k = 1 THEN seqs[k] ELSE u[k - 1] \o seqs[k]
      BY <1>1, <1>3
    <3> HIDE DEF f, Up
    <3> QED BY <3>1, <3>2
  <2>2. CASE k = 1
    <3>1. f[k - 1] = <<>>
      BY <1>5, <2>2
    <3>2. <<>> \o seqs[k] = seqs[k]
      BY EmptyAdds
    <3> HIDE DEF f
    <3> QED BY <2>1, <2>2, <3>1, <3>2
  <2>3. CASE k # 1
    <3>1. k - 1 \in 0 .. n /\ k - 1 # 0
      BY <1>1, <2>3
    <3>2. f[k - 1] = u[k - 1]
      BY <3>1
    <3> HIDE DEF f
    <3> QED BY <2>1, <2>3, <3>2
  <2> QED BY <2>2, <2>3
<1>7. f[n] = FlattenSeq(seqs)
  <2>1. n = 0 => seqs = <<>>
    BY DEF IsChain
  <2> QED BY <1>1, <1>4, <2>1
<1> HIDE DEF f
<1>8. \A k \in 0 .. n : IsChain(f[k])
  <2> DEFINE S == {k \in Nat : k \in 0 .. n => IsChain(f[k])}
  <2>1. 0 \in S
    BY <1>5, EmptyIsChain
  <2>2. ASSUME NEW k \in Nat, k \in S PROVE k + 1 \in S
    <3> SUFFICES ASSUME k + 1 \in 0 .. n PROVE IsChain(f[k + 1])
      OBVIOUS
    <3>1. k + 1 \in 1 .. n /\ (k + 1) - 1 = k /\ k \in 0 .. n
      BY <1>1
    <3>2. f[k + 1] = f[k] \o seqs[k + 1]
      BY <1>6, <3>1
    <3>3. IsChain(f[k])
      BY <2>2, <3>1
    <3> QED BY <3>1, <3>2, <3>3, Joined
  <2>3. Nat \subseteq S
    <3> HIDE DEF S
    <3> QED BY <2>1, <2>2, NatSetInduction
  <2> QED BY <1>1, <2>3
<1> QED BY <1>5, <1>6, <1>7, <1>8

\* So may any number of them: by induction over the parts.
LEMMA FlattenGuarded ==
  ASSUME NEW given, NEW seqs, IsChain(seqs), \A k \in 1 .. Len(seqs) : Guarded(seqs[k], given)
  PROVE  Guarded(FlattenSeq(seqs), given)
<1> DEFINE n == Len(seqs)
<1>1. n \in Nat /\ \A k \in 1 .. n : IsChain(seqs[k])
  BY ChainFun DEF Guarded
<1>2. PICK f : /\ f[0] = <<>>
               /\ \A k \in 1 .. n : f[k] = f[k - 1] \o seqs[k]
               /\ f[n] = FlattenSeq(seqs)
  BY <1>1, FlattenSteps
<1>3. \A k \in 1 .. n : Guarded(seqs[k], given)
  OBVIOUS
<1> HIDE DEF n
<1> DEFINE S == {k \in Nat : k \in 0 .. n => Guarded(f[k], given)}
<1>4. 0 \in S
  BY <1>2, GuardedNone
<1>5. ASSUME NEW k \in Nat, k \in S PROVE k + 1 \in S
  <2> SUFFICES ASSUME k + 1 \in 0 .. n PROVE Guarded(f[k + 1], given)
    OBVIOUS
  <2>1. k + 1 \in 1 .. n /\ (k + 1) - 1 = k /\ k \in 0 .. n
    BY <1>1
  <2>2. f[k + 1] = f[k] \o seqs[k + 1]
    BY <1>2, <2>1
  <2> QED BY <1>3, <1>5, <2>1, <2>2, GuardedJoin
<1>6. n \in S
  <2> HIDE DEF S
  <2> QED BY <1>1, <1>4, <1>5, NatSetInduction
<1> QED BY <1>1, <1>2, <1>6

-----------------------------------------------------------------------------
\* A single state is a chain that is guarded if it cannot fail and does not jump.
LEMMA GuardedOne ==
  ASSUME NEW given, NEW state, ~Bare(state, given),
         state.do \notin {"check", "while", "step"},
         state.do = "map" => state.over \in given /\ MadeOf(state.body),
         state.do = "output" => state.reads \subseteq given
  PROVE  Guarded(<<state>>, given)
<1>1. IsChain(<<state>>)
  <2>1. <<state>> \in Seq({state})
    OBVIOUS
  <2> QED BY <2>1 DEF IsChain
<1>2. Len(<<state>>) = 1 /\ <<state>>[1] = state
  OBVIOUS
<1> QED BY <1>1, <1>2 DEF Guarded

\* A component is written with its Choice unless it is required.
LEMMA WriteGuarded ==
  ASSUME NEW given, NEW c, NEW before, NEW after, Askable(c, given)
  PROVE  Guarded(Write(c, before, after), given)
<1> DEFINE add == AddState(c, before, after)
           check == CheckState(c.reads, 1)
<1>1. add.do = "add" /\ add.reads = c.reads
  BY DEF AddState
<1>2. check.do = "check" /\ check.reads = c.reads /\ check.skip = 1
  BY DEF CheckState
<1>3. CASE c.required
  <2>1. ~Bare(add, given)
    BY <1>1, <1>3 DEF Askable, Bare
  <2> HIDE DEF add
  <2>2. Guarded(<<add>>, given)
    BY <1>1, <2>1, GuardedOne
  <2> QED BY <1>3, <2>2 DEF Write, add
<1>4. CASE ~c.required
  <2>1. Write(c, before, after) = <<check, add>>
    BY <1>4 DEF Write, Askable
  <2> HIDE DEF check, add
  <2> DEFINE states == <<check, add>>
  <2>2. Len(states) = 2 /\ states[1] = check /\ states[2] = add
    OBVIOUS
  <2>3. IsChain(states)
    <3>1. states \in Seq({check, add})
      OBVIOUS
    <3> QED BY <3>1 DEF IsChain
  <2>4. Guards(check, add)
    BY <1>1, <1>2, <1>4 DEF Guards, Askable
  <2>5. ~Bare(check, given)
    BY <1>2 DEF Bare
  <2>6. Lands(states, 3, given)
    BY <2>2 DEF Lands
  <2> HIDE DEF states
  <2>7. Guarded(states, given)
    BY <1>1, <1>2, <2>2, <2>3, <2>4, <2>5, <2>6 DEF Guarded
  <2> QED BY <2>1, <2>7 DEF states
<1> QED BY <1>3, <1>4 DEF Askable

\* The fields of a section or of an iterator.
LEMMA WriteAllGuarded ==
  ASSUME NEW given, NEW body, NEW before, NEW after, Asks(body, given)
  PROVE  Guarded(WriteAll(body, before, after), given)
<1> DEFINE seqs == [k \in DOMAIN body |-> Write(body[k], before, after)]
<1>1. Len(body) \in Nat /\ DOMAIN body = 1 .. Len(body)
  BY ChainFun DEF Asks
<1>2. seqs = [k \in 1 .. Len(body) |-> seqs[k]]
  BY <1>1
<1>3. \A k \in 1 .. Len(body) : Guarded(seqs[k], given)
  BY <1>1, WriteGuarded DEF Asks
<1> HIDE DEF seqs
<1>4. IsChain(seqs) /\ Len(seqs) = Len(body)
  BY <1>1, <1>2, FunChain
<1>5. Guarded(FlattenSeq(seqs), given)
  BY <1>3, <1>4, FlattenGuarded
<1> QED BY <1>5 DEF WriteAll, seqs

\* A Choice in front of a chain leads into it or behind it.
LEMMA CheckGuarded ==
  ASSUME NEW given, NEW fields, NEW states, Guarded(states, given)
  PROVE  Guarded(<<CheckState(fields, Len(states))>> \o states, given)
<1> DEFINE check == CheckState(fields, Len(states))
<1>1. check.do = "check" /\ check.skip = Len(states)
  BY DEF CheckState
<1>2. IsChain(<<check>>)
  <2>1. <<check>> \in Seq({check})
    OBVIOUS
  <2> QED BY <2>1 DEF IsChain
<1>3. Len(<<check>>) = 1 /\ <<check>>[1] = check
  OBVIOUS
<1> HIDE DEF check
<1> DEFINE e == <<check>> \o states
<1>4. /\ IsChain(e) /\ Len(states) \in Nat /\ Len(e) = Len(states) + 1
      /\ e[1] = check
      /\ \A k \in 1 .. Len(states) : e[k + 1] = states[k]
      /\ \A k \in 1 .. Len(e) : k = 1 \/ (k - 1 \in 1 .. Len(states) /\ e[k] = states[k - 1])
  BY <1>2, <1>3, Joined DEF Guarded
<1> HIDE DEF e
<1>5. ASSUME NEW j, Lands(states, j, given) PROVE Lands(e, 1 + j, given)
  BY <1>4, <1>5 DEF Lands
<1> DEFINE Fine(c, k) ==
            /\ Bare(c[k], given) => k # 1 /\ Guards(c[k - 1], c[k])
            /\ c[k].do \in {"check", "while"} =>
                c[k].skip \in Nat /\ Lands(c, k + 1 + c[k].skip, given)
            /\ c[k].do = "step" =>
                c[k].back \in Nat /\ Lands(c, k + 1 - c[k].back, given)
            /\ c[k].do = "map" => c[k].over \in given /\ MadeOf(c[k].body)
            /\ c[k].do = "output" => c[k].reads \subseteq given
<1>6. \A k \in 1 .. Len(states) : Fine(states, k)
  BY DEF Guarded
<1>7. Fine(e, 1)
  <2>1. Lands(e, Len(states) + 2, given)
    BY <1>4 DEF Lands
  <2>2. 1 + 1 + Len(states) = Len(states) + 2
    BY <1>4
  <2> QED BY <1>1, <1>4, <2>1, <2>2 DEF Bare
<1>8. ASSUME NEW i \in 1 .. Len(states) PROVE Fine(e, i + 1)
  <2>1. e[i + 1] = states[i]
    BY <1>4
  <2>2. Fine(states, i)
    BY <1>6
  <2>3. Bare(states[i], given) => Guards(e[(i + 1) - 1], states[i])
    <3> SUFFICES ASSUME Bare(states[i], given) PROVE Guards(e[i], states[i])
      OBVIOUS
    <3>1. i # 1 /\ Guards(states[i - 1], states[i])
      BY <2>2
    <3>2. i - 1 \in 1 .. Len(states) /\ (i - 1) + 1 = i
      BY <1>4, <3>1
    <3>3. e[i] = states[i - 1]
      BY <1>4, <3>2
    <3> QED BY <3>1, <3>3
  <2>4. states[i].do \in {"check", "while"} => Lands(e, (i + 1) + 1 + states[i].skip, given)
    <3> SUFFICES ASSUME states[i].do \in {"check", "while"}
                 PROVE  Lands(e, (i + 1) + 1 + states[i].skip, given)
      OBVIOUS
    <3>1. states[i].skip \in Nat /\ Lands(e, 1 + (i + 1 + states[i].skip), given)
      BY <1>5, <2>2
    <3>2. (i + 1) + 1 + states[i].skip = 1 + (i + 1 + states[i].skip)
      BY <3>1
    <3> QED BY <3>1, <3>2
  <2>5. states[i].do = "step" => Lands(e, (i + 1) + 1 - states[i].back, given)
    <3> SUFFICES ASSUME states[i].do = "step"
                 PROVE  Lands(e, (i + 1) + 1 - states[i].back, given)
      OBVIOUS
    <3>1. states[i].back \in Nat /\ Lands(e, 1 + (i + 1 - states[i].back), given)
      BY <1>5, <2>2
    <3>2. (i + 1) + 1 - states[i].back = 1 + (i + 1 - states[i].back)
      BY <3>1
    <3> QED BY <3>1, <3>2
  <2>6. i + 1 # 1
    OBVIOUS
  <2> QED BY <2>1, <2>2, <2>3, <2>4, <2>5, <2>6
<1>9. \A k \in 1 .. Len(e) : Fine(e, k)
  <2> SUFFICES ASSUME NEW k \in 1 .. Len(e) PROVE Fine(e, k)
    OBVIOUS
  <2>1. CASE k = 1
    <3> HIDE DEF Fine
    <3> QED BY <1>7, <2>1
  <2>2. CASE k # 1
    <3>1. k - 1 \in 1 .. Len(states) /\ (k - 1) + 1 = k
      BY <1>4, <2>2
    <3> HIDE DEF Fine
    <3> QED BY <1>8, <3>1
  <2> QED BY <2>1, <2>2
<1>10. Guarded(e, given)
  BY <1>4, <1>9 DEF Guarded
<1> QED BY <1>10 DEF e, check

\* Longer sequences that are written out.
LEMMA FourStates ==
  ASSUME NEW a, NEW b, NEW c, NEW d
  PROVE  IsChain(<<a, b, c, d>>) /\ Len(<<a, b, c, d>>) = 4
<1>1. <<a, b, c, d>> \in Seq({a, b, c, d})
  OBVIOUS
<1> QED BY <1>1 DEF IsChain

\* The same of five.
LEMMA FiveStates ==
  ASSUME NEW a, NEW b, NEW c, NEW d, NEW e
  PROVE  IsChain(<<a, b, c, d, e>>) /\ Len(<<a, b, c, d, e>>) = 5
<1>1. <<a, b, c, d, e>> \in Seq({a, b, c, d, e})
  OBVIOUS
<1> QED BY <1>1 DEF IsChain

\* The same of six.
LEMMA SixStates ==
  ASSUME NEW a, NEW b, NEW c, NEW d, NEW e, NEW f
  PROVE  IsChain(<<a, b, c, d, e, f>>) /\ Len(<<a, b, c, d, e, f>>) = 6
<1>1. <<a, b, c, d, e, f>> \in Seq({a, b, c, d, e, f})
  OBVIOUS
<1> QED BY <1>1 DEF IsChain

\* The same of seven.
LEMMA SevenStates ==
  ASSUME NEW a, NEW b, NEW c, NEW d, NEW e, NEW f, NEW g
  PROVE  IsChain(<<a, b, c, d, e, f, g>>) /\ Len(<<a, b, c, d, e, f, g>>) = 7
<1>1. <<a, b, c, d, e, f, g>> \in Seq({a, b, c, d, e, f, g})
  OBVIOUS
<1> QED BY <1>1 DEF IsChain

\* The same of nine.
LEMMA NineStates ==
  ASSUME NEW a, NEW b, NEW c, NEW d, NEW e, NEW f, NEW g, NEW h, NEW i
  PROVE  /\ IsChain(<<a, b, c, d, e, f, g, h, i>>) /\ Len(<<a, b, c, d, e, f, g, h, i>>) = 9
         /\ \A k \in 1 .. 9 : <<a, b, c, d, e, f, g, h, i>>[k] \in {a, b, c, d, e, f, g, h, i}
<1>1. <<a, b, c, d, e, f, g, h, i>> \in Seq({a, b, c, d, e, f, g, h, i})
  OBVIOUS
<1>2. Len(<<a, b, c, d, e, f, g, h, i>>) = 9
  OBVIOUS
<1>3. \A k \in 1 .. 9 : <<a, b, c, d, e, f, g, h, i>>[k] \in {a, b, c, d, e, f, g, h, i}
  BY <1>1, <1>2
<1>4. IsChain(<<a, b, c, d, e, f, g, h, i>>)
  BY <1>1 DEF IsChain
<1> QED BY <1>2, <1>3, <1>4

\* A title is required and reads nothing.
LEMMA TitleIsAdded ==
  ASSUME NEW s, NEW before, NEW after
  PROVE  /\ Write(TitleOf(s), before, after) = <<AddState(TitleOf(s), before, after)>>
         /\ \A given : Askable(TitleOf(s), given)
BY DEF Write, TitleOf, Askable

\* What is asked for in a section.
Sectional(s, given) == s.over = Empty /\ Asks(s.body, given)

\* A section of a DescriptionBuilder.
LEMMA SectionGuarded ==
  ASSUME NEW given, NEW s, Sectional(s, given)
  PROVE  Guarded(RenderSection(s), given)
<1> DEFINE body == Write(TitleOf(s), Paragraph, Line) \o WriteAll(s.body, Kept, Kept)
<1>1. Guarded(body, given)
  BY TitleIsAdded, WriteGuarded, WriteAllGuarded, GuardedJoin DEF Sectional
<1>2. Guarded(<<CheckState(s.checks, Len(body))>> \o body, given)
  BY <1>1, CheckGuarded
<1> QED BY <1>1, <1>2 DEF RenderSection

\* A section that is written by hand.
LEMMA PlainGuarded ==
  ASSUME NEW given, NEW s, Sectional(s, given)
  PROVE  Guarded(PlainSection(s), given)
<1> DEFINE body == Write(TitleOf(s), Paragraph, Kept) \o WriteAll(s.body, Line, Kept)
<1>1. Guarded(body, given)
  BY TitleIsAdded, WriteGuarded, WriteAllGuarded, GuardedJoin DEF Sectional
<1>2. Guarded(<<CheckState(s.checks, Len(body))>> \o body, given)
  BY <1>1, CheckGuarded
<1> QED BY <1>2 DEF PlainSection

\* The states of a loop that is written by hand, behind its Choice.
LoopStates(body, title, collection, field) ==
    /\ Loop(title, collection, field) = <<CheckState({collection}, Len(body))>> \o body
    /\ IsChain(body) /\ Len(body) = 5
    /\ body[1] = AddState([says |-> title, reads |-> {}], Paragraph, Kept)
    /\ body[2] = [do |-> "initialize", over |-> collection, field |-> field]
    /\ body[3] = WhileState(2)
    /\ body[4] = [do |-> "record", before |-> Line, after |-> Kept]
    /\ body[5] = [do |-> "step", back |-> 3]

\* The loop over the records is a chain of these states.
LEMMA LoopIs ==
  ASSUME NEW title, NEW collection, NEW field
  PROVE  \E body : LoopStates(body, title, collection, field)
<1> DEFINE add == AddState([says |-> title, reads |-> {}], Paragraph, Kept)
           init == [do |-> "initialize", over |-> collection, field |-> field]
           record == [do |-> "record", before |-> Line, after |-> Kept]
           step == [do |-> "step", back |-> 3]
           while == WhileState(2)
           one == <<add, init, while>>
           two == <<record, step>>
           body == one \o two
<1>1. Len(two) = 2
  BY TwoStates
<1>2. Loop(title, collection, field) = <<CheckState({collection}, Len(body))>> \o body
  BY <1>1 DEF Loop
<1> HIDE DEF add, init, while, record, step
<1>3. /\ IsChain(one) /\ Len(one) = 3 /\ one[1] = add /\ one[2] = init /\ one[3] = while
      /\ IsChain(two) /\ Len(two) = 2 /\ two[1] = record /\ two[2] = step
  BY TwoStates, ThreeStates
<1> HIDE DEF one, two
<1>4. IsChain(one) /\ IsChain(two)
  BY <1>3
<1>5. /\ IsChain(one \o two) /\ Len(one \o two) = Len(one) + Len(two)
      /\ \A k \in 1 .. Len(one) : (one \o two)[k] = one[k]
      /\ \A k \in 1 .. Len(two) : (one \o two)[Len(one) + k] = two[k]
  BY <1>4, Joined
<1>6. /\ IsChain(body) /\ Len(body) = 5
      /\ \A k \in 1 .. 3 : body[k] = one[k]
      /\ \A k \in 1 .. 2 : body[3 + k] = two[k]
  BY <1>3, <1>5
<1> HIDE DEF body
<1>7. 1 \in 1 .. 2 /\ 2 \in 1 .. 2 /\ 3 + 1 = 4 /\ 3 + 2 = 5
  OBVIOUS
<1>8. body[3 + 1] = two[1] /\ body[3 + 2] = two[2]
  BY <1>6, <1>7
<1>9. /\ Len(body) = 5 /\ body[1] = add /\ body[2] = init /\ body[3] = while
      /\ body[4] = record /\ body[5] = step
  BY <1>3, <1>6, <1>7, <1>8
<1>10. LoopStates(body, title, collection, field)
  BY <1>2, <1>6, <1>9 DEF LoopStates, add, init, while, record, step
<1> HIDE DEF LoopStates
<1> QED BY <1>10

\* A loop that is written by hand stays within itself.
LEMMA LoopGuarded ==
  ASSUME NEW given, NEW title, NEW collection, NEW field
  PROVE  Guarded(Loop(title, collection, field), given)
<1>1. PICK body : LoopStates(body, title, collection, field)
  BY LoopIs
<1>2. /\ IsChain(body) /\ Len(body) = 5
      /\ body[1].do = "add" /\ body[1].reads = {} /\ body[2].do = "initialize"
      /\ body[3].do = "while" /\ body[3].skip = 2 /\ body[4].do = "record"
      /\ body[5].do = "step" /\ body[5].back = 3
  BY <1>1 DEF LoopStates, AddState, WhileState
<1>3. Loop(title, collection, field) = <<CheckState({collection}, Len(body))>> \o body
  BY <1>1 DEF LoopStates
<1>4. \A k \in 1 .. 5 : ~Bare(body[k], given)
  BY <1>2 DEF Bare
<1>5. Lands(body, 6, given) /\ Lands(body, 3, given)
  BY <1>2, <1>4 DEF Lands
<1>6. Guarded(body, given)
  BY <1>2, <1>4, <1>5 DEF Guarded
<1> QED BY <1>3, <1>6, CheckGuarded

\* The states of an iterator.
IteratorStates(states, s) ==
    /\ IsChain(states) /\ Len(states) = 8
    /\ states[1] = [do |-> "map", over |-> s.over, body |-> WriteAll(s.body, Kept, Line)]
    /\ states[2] = [do |-> "initialize", over |-> Empty, field |-> Empty]
    /\ states[3] = WhileState(5)
    /\ states[4] = [do |-> "delimiter", after |-> Paragraph]
    /\ states[5] = AddState(TitleOf(s), Kept, Line)
    /\ states[6] = WhileState(2)
    /\ states[7] = [do |-> "record", before |-> Kept, after |-> Paragraph]
    /\ states[8] = [do |-> "step", back |-> 0]

\* What renderIterator makes of an iterator is a chain of these states.
LEMMA IteratorIs ==
  ASSUME NEW s
  PROVE  IteratorStates(RenderIterator(s), s)
<1> DEFINE map == [do |-> "map", over |-> s.over, body |-> WriteAll(s.body, Kept, Line)]
           init == [do |-> "initialize", over |-> Empty, field |-> Empty]
           delim == [do |-> "delimiter", after |-> Paragraph]
           add == AddState(TitleOf(s), Kept, Line)
           record == [do |-> "record", before |-> Kept, after |-> Paragraph]
           step == [do |-> "step", back |-> 0]
           outer == WhileState(5)
           inner == WhileState(2)
           head == <<map, init, outer>>
           join == <<record, step>>
           titled == <<delim>> \o <<add>>
           choice == titled \o <<inner>>
           results == choice \o join
           states == head \o results
<1>3. Len(join) = 2 /\ Write(TitleOf(s), Kept, Line) = <<add>>
  BY TwoStates, TitleIsAdded
<1>4. RenderIterator(s) = <<map, init, WhileState(Len(results))>> \o results
  BY <1>3 DEF RenderIterator
<1> HIDE DEF map, init, delim, add, record, step, outer, inner
<1>5. /\ IsChain(titled) /\ Len(titled) = 2 /\ titled[1] = delim /\ titled[2] = add
  <2> DEFINE x == <<delim>>
             y == <<add>>
  <2>1. IsChain(x) /\ Len(x) = 1 /\ x[1] = delim /\ IsChain(y) /\ Len(y) = 1 /\ y[1] = add
    BY OneState
  <2> HIDE DEF x, y
  <2>2. /\ IsChain(x \o y) /\ Len(x \o y) = 1 + 1 /\ (x \o y)[1] = x[1]
        /\ (x \o y)[1 + 1] = y[1]
    <3>1. 1 \in 1 .. 1
      OBVIOUS
    <3>2. IsChain(x) /\ IsChain(y)
      BY <2>1
    <3>3. /\ IsChain(x \o y) /\ Len(x \o y) = Len(x) + Len(y)
          /\ \A k \in 1 .. Len(x) : (x \o y)[k] = x[k]
          /\ \A k \in 1 .. Len(y) : (x \o y)[Len(x) + k] = y[k]
      BY <3>2, Joined
    <3> QED BY <2>1, <3>1, <3>3
  <2>3. 1 + 1 = 2
    OBVIOUS
  <2> QED BY <2>1, <2>2, <2>3 DEF x, y
<1> HIDE DEF titled
<1>6. /\ IsChain(choice) /\ Len(choice) = 3
      /\ choice[1] = delim /\ choice[2] = add /\ choice[3] = inner
  <2> DEFINE y == <<inner>>
  <2>1. IsChain(y) /\ Len(y) = 1 /\ y[1] = inner
    BY OneState
  <2> HIDE DEF y
  <2>2. /\ IsChain(titled \o y) /\ Len(titled \o y) = 2 + 1 /\ (titled \o y)[1] = titled[1]
        /\ (titled \o y)[2] = titled[2] /\ (titled \o y)[2 + 1] = y[1]
    <3>1. 1 \in 1 .. 1 /\ 1 \in 1 .. 2 /\ 2 \in 1 .. 2
      OBVIOUS
    <3>2. IsChain(titled) /\ IsChain(y) /\ Len(titled) = 2 /\ Len(y) = 1
      BY <1>5, <2>1
    <3>3. IsChain(titled) /\ IsChain(y)
      BY <3>2
    <3>4. /\ IsChain(titled \o y) /\ Len(titled \o y) = Len(titled) + Len(y)
          /\ \A k \in 1 .. Len(titled) : (titled \o y)[k] = titled[k]
          /\ \A k \in 1 .. Len(y) : (titled \o y)[Len(titled) + k] = y[k]
      BY <3>3, Joined
    <3> QED BY <3>1, <3>2, <3>4
  <2>3. 2 + 1 = 3
    OBVIOUS
  <2> QED BY <1>5, <2>1, <2>2, <2>3 DEF y
<1> HIDE DEF choice
<1>7. /\ IsChain(results) /\ Len(results) = 5
      /\ results[1] = delim /\ results[2] = add /\ results[3] = inner
      /\ results[4] = record /\ results[5] = step
  <2>1. IsChain(join) /\ Len(join) = 2 /\ join[1] = record /\ join[2] = step
    BY TwoStates
  <2> HIDE DEF join
  <2>2. /\ IsChain(results) /\ Len(results) = 3 + 2
        /\ \A k \in 1 .. 3 : results[k] = choice[k]
        /\ \A k \in 1 .. 2 : results[3 + k] = join[k]
    <3>1. IsChain(choice) /\ IsChain(join) /\ Len(choice) = 3 /\ Len(join) = 2
      BY <1>6, <2>1
    <3>3. IsChain(choice) /\ IsChain(join)
      BY <3>1
    <3>4. /\ IsChain(choice \o join) /\ Len(choice \o join) = Len(choice) + Len(join)
          /\ \A k \in 1 .. Len(choice) : (choice \o join)[k] = choice[k]
          /\ \A k \in 1 .. Len(join) : (choice \o join)[Len(choice) + k] = join[k]
      BY <3>3, Joined
    <3> QED BY <3>1, <3>4
  <2> HIDE DEF results
  <2>3. 3 + 2 = 5 /\ 3 + 1 = 4 /\ 1 \in 1 .. 2 /\ 2 \in 1 .. 2
    OBVIOUS
  <2>4. results[3 + 1] = join[1] /\ results[3 + 2] = join[2]
    BY <2>2, <2>3
  <2> QED BY <1>6, <2>1, <2>2, <2>3, <2>4
<1>8. RenderIterator(s) = states
  BY <1>4, <1>7 DEF outer
<1> HIDE DEF results
<1>9. /\ IsChain(states) /\ Len(states) = 8
      /\ states[1] = map /\ states[2] = init /\ states[3] = outer
      /\ states[4] = delim /\ states[5] = add /\ states[6] = inner /\ states[7] = record
      /\ states[8] = step
  <2>1. IsChain(head) /\ Len(head) = 3 /\ head[1] = map /\ head[2] = init /\ head[3] = outer
    BY ThreeStates
  <2> HIDE DEF head
  <2>2. /\ IsChain(states) /\ Len(states) = 3 + 5
        /\ \A k \in 1 .. 3 : states[k] = head[k]
        /\ \A k \in 1 .. 5 : states[3 + k] = results[k]
    <3>1. IsChain(head) /\ IsChain(results) /\ Len(head) = 3 /\ Len(results) = 5
      BY <1>7, <2>1
    <3>3. IsChain(head) /\ IsChain(results)
      BY <3>1
    <3>4. /\ IsChain(head \o results) /\ Len(head \o results) = Len(head) + Len(results)
          /\ \A k \in 1 .. Len(head) : (head \o results)[k] = head[k]
          /\ \A k \in 1 .. Len(results) : (head \o results)[Len(head) + k] = results[k]
      BY <3>3, Joined
    <3> QED BY <3>1, <3>4
  <2> HIDE DEF states
  <2>3. /\ 3 + 5 = 8 /\ 3 + 4 = 7 /\ 3 + 3 = 6 /\ 3 + 2 = 5 /\ 3 + 1 = 4
        /\ 1 .. 5 = {1, 2, 3, 4, 5} /\ 1 .. 3 = {1, 2, 3}
    OBVIOUS
  <2>4. /\ states[3 + 1] = results[1] /\ states[3 + 2] = results[2] /\ states[3 + 3] = results[3]
        /\ states[3 + 4] = results[4] /\ states[3 + 5] = results[5]
    BY <2>2, <2>3
  <2>5. states[1] = head[1] /\ states[2] = head[2] /\ states[3] = head[3]
    BY <2>2, <2>3
  <2> QED BY <1>7, <2>1, <2>2, <2>3, <2>4, <2>5
<1> HIDE DEF states
<1>10. IteratorStates(states, s)
  BY <1>9 DEF IteratorStates, map, init, delim, add, record, step, outer, inner
<1> QED BY <1>8, <1>10

\* An iterator of a DescriptionBuilder: its Map's collection has to be given.
LEMMA IteratorGuarded ==
  ASSUME NEW given, NEW s, s.over \in given, Asks(s.body, {})
  PROVE  Guarded(RenderIterator(s), given)
<1> DEFINE states == RenderIterator(s)
<1>1. IteratorStates(states, s)
  BY IteratorIs
<1> HIDE DEF states
<1>2. /\ IsChain(states) /\ Len(states) = 8
      /\ states[1].do = "map" /\ states[1].over \in given
      /\ states[1].body = WriteAll(s.body, Kept, Line)
      /\ states[2].do = "initialize" /\ states[3].do = "while" /\ states[3].skip = 5
      /\ states[4].do = "delimiter" /\ states[5].do = "add" /\ states[5].reads = {}
      /\ states[6].do = "while" /\ states[6].skip = 2 /\ states[7].do = "record"
      /\ states[8].do = "step" /\ states[8].back = 0
  BY <1>1 DEF IteratorStates, AddState, WhileState, TitleOf
<1>3. MadeOf(states[1].body)
  BY <1>2 DEF MadeOf
<1>4. \A k \in 1 .. 8 : ~Bare(states[k], given)
  BY <1>2 DEF Bare
<1>5. Lands(states, 9, given)
  BY <1>2 DEF Lands
<1>6. Guarded(states, given)
  BY <1>2, <1>3, <1>4, <1>5 DEF Guarded
<1> QED BY <1>6 DEF states

-----------------------------------------------------------------------------
\* A parser's whole chain: it ends with its output, and nothing leads out of it.
Whole(states, given) ==
    /\ Guarded(states, given)
    /\ Len(states) # 0 /\ states[Len(states)].do = "output"
    /\ \A k \in 1 .. Len(states) :
        /\ states[k].do \in {"check", "while"} => k + 1 + states[k].skip \in 1 .. Len(states)
        /\ states[k].do = "step" => k + 1 - states[k].back \in 1 .. Len(states)

\* A guarded chain with the output behind it is whole.
LEMMA WithOutput ==
  ASSUME NEW given, NEW fields, NEW states, Guarded(states, given), fields \subseteq given
  PROVE  Whole(states \o <<OutputState(fields)>>, given)
<1> DEFINE last == OutputState(fields)
           end == <<last>>
           e == states \o end
<1>1. last.do = "output" /\ last.reads = fields
  BY DEF OutputState
<1>2. ~Bare(last, given)
  BY <1>1 DEF Bare
<1> HIDE DEF last
<1>3. IsChain(end) /\ Len(end) = 1 /\ end[1] = last
  BY OneState
<1>4. Guarded(end, given)
  BY <1>1, <1>2, GuardedOne
<1> HIDE DEF end
<1>5. IsChain(states)
  BY DEF Guarded
<1>6. /\ Len(states) \in Nat /\ Len(e) = Len(states) + Len(end)
      /\ \A k \in 1 .. Len(states) : e[k] = states[k]
      /\ \A k \in 1 .. Len(end) : e[Len(states) + k] = end[k]
  <2>1. IsChain(states) /\ IsChain(end)
    BY <1>3, <1>5
  <2> QED BY <2>1, Joined
<1>7. Guarded(e, given)
  BY <1>4, GuardedJoin
<1> HIDE DEF e
<1>8. Len(e) = Len(states) + 1 /\ e[Len(e)] = last
  BY <1>3, <1>6
<1>9. ASSUME NEW k \in 1 .. Len(e)
      PROVE  /\ e[k].do \in {"check", "while"} => k + 1 + e[k].skip \in 1 .. Len(e)
             /\ e[k].do = "step" => k + 1 - e[k].back \in 1 .. Len(e)
  <2>1. CASE k \in 1 .. Len(states)
    <3>1. e[k] = states[k]
      BY <1>6, <2>1
    <3>2. \A j : Lands(states, j, given) => j \in 1 .. Len(e)
      BY <1>6, <1>8 DEF Lands
    <3> QED BY <2>1, <3>1, <3>2 DEF Guarded
  <2>2. CASE k = Len(e)
    BY <1>1, <1>8, <2>2
  <2> QED BY <1>6, <1>8, <2>1, <2>2
<1>10. Whole(e, given)
  BY <1>1, <1>6, <1>7, <1>8, <1>9 DEF Whole
<1> QED BY <1>10 DEF e, end, last

\* All sections of a DescriptionBuilder.
LEMMA AllGuarded ==
  ASSUME NEW given, NEW sections, IsChain(sections),
         \A k \in 1 .. Len(sections) : Guarded(Render(sections[k]), given)
  PROVE  Guarded(RenderAll(sections), given)
<1> DEFINE seqs == [k \in DOMAIN sections |-> Render(sections[k])]
<1>1. Len(sections) \in Nat /\ DOMAIN sections = 1 .. Len(sections)
  BY ChainFun
<1>2. /\ seqs = [k \in 1 .. Len(sections) |-> seqs[k]]
      /\ \A k \in 1 .. Len(sections) : Guarded(seqs[k], given)
  BY <1>1
<1> HIDE DEF seqs
<1>3. IsChain(seqs) /\ Len(seqs) = Len(sections)
  BY <1>1, <1>2, FunChain
<1>4. Guarded(FlattenSeq(seqs), given)
  BY <1>2, <1>3, FlattenGuarded
<1> QED BY <1>4 DEF RenderAll, seqs

\* References may be missing, and are not required.
LEMMA ReferencesAsk ==
  ASSUME NEW given, NEW fields, IsChain(fields)
  PROVE  Asks(References(fields), given)
<1> DEFINE body == References(fields)
<1>1. Len(fields) \in Nat /\ DOMAIN fields = 1 .. Len(fields)
  BY ChainFun
<1>2. body = [k \in 1 .. Len(fields) |-> Reference(fields[k])]
  BY <1>1 DEF References
<1> HIDE DEF body
<1>3. IsChain(body) /\ Len(body) = Len(fields)
  BY <1>1, <1>2, FunChain
<1>4. \A field : Askable(Reference(field), given)
  BY DEF Askable, Reference
<1> QED BY <1>2, <1>3, <1>4 DEF Asks, body

\* The sections of a parser and what its chain is put together from.
LEMMA InspectorParts ==
  /\ IsChain(InspectorSections) /\ Len(InspectorSections) = 3
  /\ \A given : Sectional(InspectorSections[1], given) /\ Sectional(InspectorSections[2], given)
  /\ InspectorSections[3].over = "$.Detail.resources"
  /\ InspectorSections[3].body = References(<<"$.Item.type", "$.Item.id", "$.Item.region">>)
<1> DEFINE sections == InspectorSections
           s1 == sections[1]
           s2 == sections[2]
           s3 == sections[3]
<1>1. IsChain(sections) /\ Len(sections) = 3
  BY ThreeStates DEF InspectorSections
<1>2. /\ s1.over = Empty /\ s1.body = References(<<"$.Detail.remediation.recommendation.text",
                                                  "$.Detail.remediation.recommendation.Url">>)
      /\ s2.over = Empty /\ s2.body = References(<<"vulnerabilityId", "source", "sourceUrl">>)
      /\ s3.over = "$.Detail.resources"
      /\ s3.body = References(<<"$.Item.type", "$.Item.id", "$.Item.region">>)
  BY ThreeStates DEF InspectorSections, Section, Iterator
<1> HIDE DEF sections, s1, s2, s3
<1>3. \A given : Sectional(s1, given) /\ Sectional(s2, given)
  BY <1>2, ReferencesAsk, TwoStates, ThreeStates DEF Sectional
<1> QED BY <1>1, <1>2, <1>3 DEF sections, s1, s2, s3

\* Those of AWS Config: the link to the rule needs its name.
LEMMA ConfigParts ==
  /\ IsChain(ConfigSections) /\ Len(ConfigSections) = 2
  /\ \A given : "$.Detail.configRuleName" \in given =>
        Sectional(ConfigSections[1], given) /\ Sectional(ConfigSections[2], given)
<1> DEFINE sections == ConfigSections
           s1 == sections[1]
           s2 == sections[2]
<1>1. IsChain(sections) /\ Len(sections) = 2
  BY TwoStates DEF ConfigSections
<1>2. /\ s1.over = Empty
      /\ s1.body = <<Reference("$.Detail.configRuleName"), Reference("$.Rule.Info.Description"),
                     Link("Console", {"$.Detail.configRuleName"})>>
      /\ s2.over = Empty
      /\ s2.body = References(<<"$.Resource.Info.ResourceName", "$.Detail.resourceId",
                                "$.Detail.resourceType",
                                "$.Detail.newEvaluationResult.annotation",
                                "$.ResourceUrl.Formatted">>)
  BY TwoStates DEF ConfigSections, Section
<1> HIDE DEF sections, s1, s2
<1>3. ASSUME NEW given, "$.Detail.configRuleName" \in given
      PROVE  Sectional(s1, given) /\ Sectional(s2, given)
  <2>1. /\ Askable(Reference("$.Detail.configRuleName"), given)
        /\ Askable(Reference("$.Rule.Info.Description"), given)
        /\ Askable(Link("Console", {"$.Detail.configRuleName"}), given)
    BY <1>3 DEF Askable, Reference, Link
  <2>2. Asks(s1.body, given)
    BY <1>2, <2>1, ThreeStates DEF Asks
  <2>3. IsChain(<<"$.Resource.Info.ResourceName", "$.Detail.resourceId",
                  "$.Detail.resourceType", "$.Detail.newEvaluationResult.annotation",
                  "$.ResourceUrl.Formatted">>)
    BY FiveStates
  <2> QED BY <1>2, <2>2, <2>3, ReferencesAsk DEF Sectional
<1> QED BY <1>1, <1>3 DEF sections, s1, s2

\* That about a domain: its link needs the region and the name.
LEMMA DomainParts ==
  /\ IsChain(DomainSections) /\ Len(DomainSections) = 1
  /\ \A given : {"$.Domain.Region", "$.Domain.Name"} \subseteq given =>
        Sectional(DomainSections[1], given)
<1> DEFINE sections == DomainSections
           s == sections[1]
<1>1. IsChain(sections) /\ Len(sections) = 1
  BY OneState DEF DomainSections
<1>2. /\ s.over = Empty
      /\ s.body = <<Reference("$.Domain.Name"), Reference("$.Domain.Arn"),
                    Link("Console", {"$.Domain.Region", "$.Domain.Name"})>>
  BY OneState DEF DomainSections, Section
<1> HIDE DEF sections, s
<1>3. ASSUME NEW given, {"$.Domain.Region", "$.Domain.Name"} \subseteq given
      PROVE  Sectional(s, given)
  <2>1. /\ Askable(Reference("$.Domain.Name"), given)
        /\ Askable(Reference("$.Domain.Arn"), given)
        /\ Askable(Link("Console", {"$.Domain.Region", "$.Domain.Name"}), given)
    BY <1>3 DEF Askable, Reference, Link
  <2> QED BY <1>2, <2>1, ThreeStates DEF Asks, Sectional
<1> QED BY <1>1, <1>3 DEF sections, s

\* That of Security Hub is only written if it has something to tell.
LEMMA RemediationPart ==
  /\ \A given : Sectional(RemediationSection, given)
  /\ RemediationSection.checks # {}
<1>1. /\ RemediationSection.over = Empty
      /\ RemediationSection.body = References(<<"$.Finding.Remediation.Recommendation.Text",
                                               "$.Finding.Remediation.Recommendation.Url">>)
      /\ RemediationSection.checks # {}
  BY DEF RemediationSection, Section
<1> QED BY <1>1, ReferencesAsk, TwoStates DEF Sectional

\* Those of GuardDuty list references, each section behind its Choice.
LEMMA GuardDutyParts ==
  /\ IsChain(GuardDutySections) /\ Len(GuardDutySections) = 9
  /\ \A k \in 1 .. 9 : /\ \A given : Sectional(GuardDutySections[k], given)
                       /\ GuardDutySections[k].checks # {}
<1> DEFINE details == GuardDutyDetails
           sections == GuardDutySections
<1>1. /\ IsChain(details) /\ Len(details) = 9
      /\ \A k \in 1 .. 9 : IsChain(details[k][2])
  <2> DEFINE a == <<"instanceId">>
             b == <<"functionName", "functionArn", "functionVersion", "role">>
             c == <<"dbInstanceIdentifier", "dbClusterIdentifier", "dbInstanceArn",
                    "engine", "engineVersion">>
             d == <<"name", "arn", "taskDetails.arn", "taskDetails.definitionArn",
                    "taskDetails.version", "taskDetails.startedBy", "taskDetails.group">>
             e == <<"name", "arn">>
             g == <<"kubernetesUserDetails.username", "kubernetesUserDetails.uid",
                    "kubernetesWorkloadDetails.namespace", "kubernetesWorkloadDetails.name",
                    "kubernetesWorkloadDetails.type", "kubernetesWorkloadDetails.uid">>
             h == <<"name", "id", "image", "containerRuntime", "privileged">>
             i == <<"accessKeyId", "principalId", "userName", "userType">>
  <2>1. /\ IsChain(a) /\ IsChain(b) /\ IsChain(c) /\ IsChain(d) /\ IsChain(e)
        /\ IsChain(g) /\ IsChain(h) /\ IsChain(i)
    BY OneState, TwoStates, FourStates, FiveStates, SixStates, SevenStates
  <2>2. details = << <<"instanceDetails", a>>, <<"lambdaDetails", b>>, <<"rdsDbInstanceDetails", c>>,
                     <<"ecsClusterDetails", d>>, <<"eksClusterDetails", e>>,
                     <<"kubernetesDetails", g>>, <<"containerDetails", h>>,
                     <<"s3BucketDetails", e>>, <<"accessKeyDetails", i>> >>
    BY DEF GuardDutyDetails
  <2> HIDE DEF a, b, c, d, e, g, h, i, details
  <2>3. /\ IsChain(details) /\ Len(details) = 9
        /\ \A k \in 1 .. 9 : details[k] \in
             {<<"instanceDetails", a>>, <<"lambdaDetails", b>>, <<"rdsDbInstanceDetails", c>>,
              <<"ecsClusterDetails", d>>, <<"eksClusterDetails", e>>, <<"kubernetesDetails", g>>,
              <<"containerDetails", h>>, <<"s3BucketDetails", e>>, <<"accessKeyDetails", i>>}
    BY <2>2, NineStates
  <2> QED BY <2>1, <2>3
<1> HIDE DEF details
<1> DEFINE body(k) == [j \in DOMAIN details[k][2] |->
                          Reference(details[k][1] \o "." \o details[k][2][j])]
<1>2. /\ sections = [k \in 1 .. 9 |-> sections[k]]
      /\ \A k \in 1 .. 9 : sections[k] = Section(details[k][1], {details[k][1]}, body(k))
  <2>1. DOMAIN details = 1 .. 9
    BY <1>1, ChainFun
  <2> QED BY <2>1 DEF GuardDutySections, details
<1>3. ASSUME NEW k \in 1 .. 9, NEW given PROVE Asks(body(k), given)
  <2>1. Len(details[k][2]) \in Nat /\ DOMAIN details[k][2] = 1 .. Len(details[k][2])
    BY <1>1, ChainFun
  <2>2. body(k) = [j \in 1 .. Len(details[k][2]) |->
                     Reference(details[k][1] \o "." \o details[k][2][j])]
    BY <2>1
  <2> HIDE DEF body
  <2>3. IsChain(body(k)) /\ Len(body(k)) = Len(details[k][2])
    BY <2>1, <2>2, FunChain
  <2>4. \A field : Askable(Reference(field), given)
    BY DEF Askable, Reference
  <2> QED BY <2>2, <2>3, <2>4 DEF Asks
<1> HIDE DEF body, sections
<1>4. IsChain(sections) /\ Len(sections) = 9
  BY <1>2, FunChain
<1>5. ASSUME NEW k \in 1 .. 9, NEW given PROVE Sectional(sections[k], given)
  BY <1>2, <1>3 DEF Sectional, Section
<1>6. ASSUME NEW k \in 1 .. 9 PROVE sections[k].checks # {}
  <2> DEFINE name == details[k][1]
             fields == body(k)
  <2>1. sections[k] = Section(name, {name}, fields)
    BY <1>2
  <2> HIDE DEF name, fields
  <2>2. sections[k].checks = {name}
    BY <2>1 DEF Section
  <2> QED BY <2>2
<1> QED BY <1>4, <1>5, <1>6 DEF sections

\* The chains of the parsers, each of the parts it is made of.
LEMMA InspectorWhole == Whole(InspectorStates, Guaranteed("InspectorFinding"))
<1> DEFINE given == Guaranteed("InspectorFinding")
           sections == InspectorSections
           s3 == sections[3]
<1>1. given = {"$.Detail.type", "$.Detail.title", "$.Detail.resources"}
  BY DEF Guaranteed
<1> HIDE DEF given
<1>2. /\ IsChain(sections) /\ Len(sections) = 3
      /\ Sectional(sections[1], given) /\ Sectional(sections[2], given)
      /\ s3.over = "$.Detail.resources"
      /\ s3.body = References(<<"$.Item.type", "$.Item.id", "$.Item.region">>)
  BY InspectorParts
<1> HIDE DEF sections
<1>3. Guarded(Render(sections[1]), given) /\ Guarded(Render(sections[2]), given)
  BY <1>2, SectionGuarded DEF Render, Sectional
<1>4. Guarded(Render(s3), given)
  <2>1. s3.over \in given /\ Render(s3) = RenderIterator(s3)
    BY <1>1, <1>2 DEF Render, Empty
  <2>2. Asks(s3.body, {})
    BY <1>2, ReferencesAsk, ThreeStates
  <2> QED BY <2>1, <2>2, IteratorGuarded
<1>5. Guarded(RenderAll(sections), given)
  BY <1>2, <1>3, <1>4, AllGuarded
<1>6. Guarded(Write(Reference("$.Detail.description"), Paragraph, Kept), given)
  <2>1. Askable(Reference("$.Detail.description"), given)
    BY DEF Askable, Reference
  <2> QED BY <2>1, WriteGuarded
<1> QED BY <1>1, <1>5, <1>6, GuardedJoin, WithOutput DEF InspectorStates, given, sections

\* The chain of ConfigComplianceChange is guarded as a whole.
LEMMA ConfigWhole == Whole(ConfigStates, Guaranteed("ConfigComplianceChange"))
<1> DEFINE given == Guaranteed("ConfigComplianceChange")
           sections == ConfigSections
<1>1. given = {"$.Detail.resourceType", "$.Detail.resourceId", "$.Detail.configRuleName"}
  BY DEF Guaranteed
<1>2. /\ IsChain(sections) /\ Len(sections) = 2
      /\ Sectional(sections[1], given) /\ Sectional(sections[2], given)
  BY <1>1, ConfigParts
<1> HIDE DEF given, sections
<1>3. Guarded(Render(sections[1]), given) /\ Guarded(Render(sections[2]), given)
  BY <1>2, SectionGuarded DEF Render, Sectional
<1>4. Guarded(RenderAll(sections), given)
  BY <1>2, <1>3, AllGuarded
<1> QED BY <1>1, <1>4, WithOutput DEF ConfigStates, given, sections

\* The same of SecurityHubFinding.
LEMMA SecurityHubWhole == Whole(SecurityHubStates, Guaranteed("SecurityHubFinding"))
<1> DEFINE given == Guaranteed("SecurityHubFinding")
<1>1. given = {"$.Finding.AwsAccountId", "$.Finding.Id", "$.Resolved.Severity", "$.Finding.Title"}
  BY DEF Guaranteed
<1> HIDE DEF given
<1>2. /\ Askable(Link("AWS account", {"$.Finding.AwsAccountId"}), given)
      /\ Askable(Link("Finding details", {"$.Finding.Id"}), given)
  BY <1>1 DEF Askable, Link
<1>3. Sectional(RemediationSection, given)
  BY RemediationPart
<1> DEFINE a == Write(Link("AWS account", {"$.Finding.AwsAccountId"}), Paragraph, Kept)
           b == Write(Link("Finding details", {"$.Finding.Id"}), Paragraph, Kept)
           c == PlainSection(RemediationSection)
           d == Loop("Resources", "$.Finding.Resources", "$.Resource.Details.Id")
           f == {"$.Resolved.Severity", "$.Finding.Title"}
<1>4. Guarded(a, given) /\ Guarded(b, given) /\ Guarded(c, given) /\ Guarded(d, given)
  BY <1>2, <1>3, WriteGuarded, PlainGuarded, LoopGuarded
<1>5. f \subseteq given
  BY <1>1
<1>6. SecurityHubStates = a \o b \o c \o d \o <<OutputState(f)>>
  BY DEF SecurityHubStates
<1> HIDE DEF a, b, c, d, f
<1>7. Guarded(a \o b \o c \o d, given)
  <2>1. Guarded(a \o b, given)
    BY <1>4, GuardedJoin
  <2>2. Guarded((a \o b) \o c, given)
    BY <1>4, <2>1, GuardedJoin
  <2> QED BY <1>4, <2>2, GuardedJoin
<1> QED BY <1>5, <1>6, <1>7, WithOutput DEF given

\* The same of EcrScanFinding.
LEMMA EcrWhole == Whole(EcrStates, Guaranteed("EcrScanFinding"))
<1> DEFINE given == Guaranteed("EcrScanFinding")
           a == Loop("Image tags", "$.Image.Details.ImageTags", "tag")
           b == Write(Link("ECR console", {"$.Image.Details.RepositoryName"}), Paragraph, Kept)
           f == {"$.Findings.MaxSeverityStandardized"}
<1>1. given = {"$.Image.Details.RepositoryName", "$.Findings.MaxSeverityStandardized"}
  BY DEF Guaranteed
<1>2. Askable(Link("ECR console", {"$.Image.Details.RepositoryName"}), given)
  BY <1>1 DEF Askable, Link
<1>3. Guarded(a, given) /\ Guarded(b, given) /\ f \subseteq given
  BY <1>1, <1>2, WriteGuarded, LoopGuarded
<1>4. EcrStates = a \o b \o <<OutputState(f)>>
  BY DEF EcrStates
<1> HIDE DEF given, a, b, f
<1>5. Guarded(a \o b, given)
  BY <1>3, GuardedJoin
<1> QED BY <1>3, <1>4, <1>5, WithOutput DEF given

\* The same of GuardDutyFinding.
LEMMA GuardDutyWhole == Whole(GuardDutyStates, Guaranteed("GuardDutyFinding"))
<1> DEFINE given == Guaranteed("GuardDutyFinding")
           sections == GuardDutySections
           seqs == [k \in DOMAIN sections |-> PlainSection(sections[k])]
           f == {"$.Severity.Standardized", "$.Detail.title"}
<1>1. given = {"$.Severity.Standardized", "$.Detail.title"}
  BY DEF Guaranteed
<1> HIDE DEF given
<1>2. /\ IsChain(sections) /\ Len(sections) = 9
      /\ \A k \in 1 .. 9 : Sectional(sections[k], given)
  BY GuardDutyParts
<1>3. GuardDutyStates = FlattenSeq(seqs) \o <<OutputState(f)>>
  BY DEF GuardDutyStates
<1> HIDE DEF sections
<1>4. seqs = [k \in 1 .. 9 |-> seqs[k]] /\ \A k \in 1 .. 9 : seqs[k] = PlainSection(sections[k])
  BY <1>2, ChainFun
<1> HIDE DEF seqs
<1>5. \A k \in 1 .. 9 : Guarded(seqs[k], given)
  BY <1>2, <1>4, PlainGuarded
<1>6. Guarded(FlattenSeq(seqs), given)
  BY <1>4, <1>5, FunChain, FlattenGuarded
<1> QED BY <1>1, <1>3, <1>6, WithOutput DEF given

-----------------------------------------------------------------------------
\* The parsers whose events have the fields of their outputs; that of the other two
\* reads $.Domain.name, which is not there.
Relying == {"InspectorFinding", "ConfigComplianceChange", "GuardDutyFinding",
            "SecurityHubFinding", "EcrScanFinding"}

\* Every chain of the parsers that can be relied on is whole.
LEMMA AllWhole ==
  ASSUME NEW p \in Relying
  PROVE  Whole(States(p), Guaranteed(p))
BY InspectorWhole, ConfigWhole, GuardDutyWhole, SecurityHubWhole, EcrWhole DEF Relying, States

\* An event with the fields that its parser takes for granted.
Relied(e) == e.parser \in Relying /\ Guaranteed(e.parser) \subseteq e.present

\* An execution is in its chain; a Map's iterations are in theirs while the
\* execution is at the Map; and a state that is reached does not fail.
DescriptionIInv ==
    /\ event \in Events \cup {NoEvent}
    /\ status \in {"idle", "running", "done", "failed"}
    /\ status = "idle" => pc = [t \in Threads |-> IF t = Main THEN 1 ELSE 0]
    /\ status # "idle" => event \in Events
    /\ status = "failed" => ~Relied(event)
    /\ status = "running" /\ Relied(event) =>
        /\ pc \in [Threads -> Nat]
        /\ pc[Main] \in 1 .. Len(States(event.parser))
        /\ \A t \in Threads \ {Main} :
            /\ pc[t] # 0 => Current.do = "map" /\ pc[t] \in 1 .. Len(Current.body) + 1
            /\ pc[t] # 0 /\ pc[t] \in 1 .. Len(Current.body) /\ Bare(Current.body[pc[t]], {}) =>
                Current.body[pc[t]].reads \subseteq event.items[t]
        /\ Bare(Current, Guaranteed(event.parser)) => Current.reads \subseteq Data(event)

-----------------------------------------------------------------------------
\* An iteration may rely on nothing.
LEMMA MadeGuarded ==
  ASSUME NEW states, MadeOf(states)
  PROVE  Guarded(states, {})
BY WriteAllGuarded DEF MadeOf

\* No parser has been executed.
LEMMA DescriptionFirst == DescriptionInit => DescriptionIInv
BY DEF DescriptionInit, DescriptionIInv

\* What comes next in a whole chain.
LEMMA Following ==
  ASSUME NEW given, NEW states, Whole(states, given), NEW k \in 1 .. Len(states)
  PROVE  /\ Len(states) \in Nat
         /\ states[k].do # "output" =>
              /\ k + 1 \in 1 .. Len(states)
              /\ Bare(states[k + 1], given) => Guards(states[k], states[k + 1])
         /\ states[k].do \in {"check", "while"} =>
              /\ states[k].skip \in Nat /\ k + 1 + states[k].skip \in 1 .. Len(states)
              /\ ~Bare(states[k + 1 + states[k].skip], given)
         /\ states[k].do = "step" =>
              /\ states[k].back \in Nat /\ k + 1 - states[k].back \in 1 .. Len(states)
              /\ ~Bare(states[k + 1 - states[k].back], given)
<1>1. IsChain(states) /\ Len(states) \in Nat
  BY ChainFun DEF Whole, Guarded
<1>2. ASSUME states[k].do # "output"
      PROVE  k + 1 \in 1 .. Len(states) /\ (Bare(states[k + 1], given) => Guards(states[k], states[k + 1]))
  <2>1. k # Len(states)
    BY <1>2 DEF Whole
  <2>2. k + 1 \in 1 .. Len(states) /\ (k + 1) - 1 = k
    BY <1>1, <2>1
  <2>3. Bare(states[k + 1], given) => Guards(states[(k + 1) - 1], states[k + 1])
    BY <2>2 DEF Whole, Guarded
  <2> QED BY <2>2, <2>3
<1>3. ASSUME states[k].do \in {"check", "while"}
      PROVE  /\ states[k].skip \in Nat /\ k + 1 + states[k].skip \in 1 .. Len(states)
             /\ ~Bare(states[k + 1 + states[k].skip], given)
  <2>1. k + 1 + states[k].skip \in 1 .. Len(states)
    BY <1>3 DEF Whole
  <2>2. states[k].skip \in Nat /\ Lands(states, k + 1 + states[k].skip, given)
    BY <1>3 DEF Whole, Guarded
  <2> QED BY <1>1, <2>1, <2>2 DEF Lands
<1>4. ASSUME states[k].do = "step"
      PROVE  /\ states[k].back \in Nat /\ k + 1 - states[k].back \in 1 .. Len(states)
             /\ ~Bare(states[k + 1 - states[k].back], given)
  <2>1. k + 1 - states[k].back \in 1 .. Len(states)
    BY <1>4 DEF Whole
  <2>2. states[k].back \in Nat /\ Lands(states, k + 1 - states[k].back, given)
    BY <1>4 DEF Whole, Guarded
  <2> QED BY <1>1, <2>1, <2>2 DEF Lands
<1> QED BY <1>1, <1>2, <1>3, <1>4

\* What comes next in an iteration's chain, which may end.
LEMMA FollowingIn ==
  ASSUME NEW states, Guarded(states, {}), NEW k \in 1 .. Len(states)
  PROVE  /\ Len(states) \in Nat
         /\ k + 1 \in 1 .. Len(states) + 1
         /\ k + 1 \in 1 .. Len(states) /\ Bare(states[k + 1], {}) => Guards(states[k], states[k + 1])
         /\ states[k].do = "check" =>
              /\ states[k].skip \in Nat /\ k + 1 + states[k].skip \in 1 .. Len(states) + 1
              /\ k + 1 + states[k].skip \in 1 .. Len(states) => ~Bare(states[k + 1 + states[k].skip], {})
<1>1. IsChain(states) /\ Len(states) \in Nat
  BY ChainFun DEF Guarded
<1>2. ASSUME k + 1 \in 1 .. Len(states), Bare(states[k + 1], {})
      PROVE  Guards(states[k], states[k + 1])
  <2>1. (k + 1) - 1 = k
    OBVIOUS
  <2>2. Guards(states[(k + 1) - 1], states[k + 1])
    BY <1>2 DEF Guarded
  <2> QED BY <2>1, <2>2
<1>3. ASSUME states[k].do = "check"
      PROVE  /\ states[k].skip \in Nat /\ k + 1 + states[k].skip \in 1 .. Len(states) + 1
             /\ k + 1 + states[k].skip \in 1 .. Len(states) => ~Bare(states[k + 1 + states[k].skip], {})
  <2>1. states[k].skip \in Nat /\ Lands(states, k + 1 + states[k].skip, {})
    BY <1>3 DEF Guarded
  <2> DEFINE j == k + 1 + states[k].skip
  <2>2. j = Len(states) + 1 \/ (j \in 1 .. Len(states) /\ ~Bare(states[j], {}))
    BY <2>1 DEF Lands
  <2> HIDE DEF j
  <2>3. j \in 1 .. Len(states) + 1 /\ (j \in 1 .. Len(states) => ~Bare(states[j], {}))
    BY <1>1, <2>2
  <2> QED BY <2>1, <2>3 DEF j
<1> QED BY <1>1, <1>2, <1>3

\* An event that is relied on has what is taken for granted.
LEMMA GivenIsThere ==
  ASSUME Relied(event) PROVE Guaranteed(event.parser) \subseteq Data(event)
BY DEF Relied, Data

\* The execution is one of the threads.
LEMMA MainIsThread == Main \in Threads
BY DescriptionsAssumption DEF Threads, Main

\* A step of the execution itself, which is not at a Map.
LEMMA MainMoves ==
  ASSUME DescriptionIInv, status = "running", Relied(event), Current.do # "map",
         event' = event, status' = "running",
         NEW j \in 1 .. Len(States(event.parser)), pc' = [pc EXCEPT ![Main] = j],
         Bare(States(event.parser)[j], Guaranteed(event.parser)) =>
            States(event.parser)[j].reads \subseteq Data(event)
  PROVE  DescriptionIInv'
<1> DEFINE states == States(event.parser)
<1>1. Len(states) \in Nat
  <2>1. IsChain(states)
    BY AllWhole DEF Relied, Whole, Guarded
  <2> QED BY <2>1, ChainFun
<1>2. /\ pc \in [Threads -> Nat] /\ Main \in Threads
      /\ \A t \in Threads \ {Main} : pc[t] = 0
  BY MainIsThread DEF DescriptionIInv
<1>3. pc' \in [Threads -> Nat] /\ pc'[Main] = j /\ \A t \in Threads \ {Main} : pc'[t] = 0
  BY <1>1, <1>2
<1>4. Current' = states[j]
  BY <1>3 DEF Current
<1>5. Relied(event)' <=> Relied(event)
  BY DEF Relied
<1>6. Data(event)' = Data(event) /\ Guaranteed(event.parser)' = Guaranteed(event.parser)
  BY DEF Data, Guaranteed
<1>7. States(event.parser)' = states
  OBVIOUS
<1> HIDE DEF states
<1> QED BY <1>3, <1>4, <1>6, <1>7 DEF DescriptionIInv, states

\* A step of an iteration, which may lead to its end.
LEMMA IterationMoves ==
  ASSUME DescriptionIInv, status = "running", Relied(event), Current.do = "map",
         event' = event, status' = "running", NEW t \in Threads \ {Main},
         NEW j \in 1 .. Len(Current.body) + 1, Len(Current.body) \in Nat,
         pc' = [pc EXCEPT ![t] = j],
         j \in 1 .. Len(Current.body) /\ Bare(Current.body[j], {}) =>
            Current.body[j].reads \subseteq event.items[t]
  PROVE  DescriptionIInv'
<1> DEFINE body == Current.body
<1>1. pc \in [Threads -> Nat] /\ Main \in Threads
  BY MainIsThread DEF DescriptionIInv
<1>2. /\ pc' \in [Threads -> Nat] /\ pc'[Main] = pc[Main] /\ pc'[t] = j
      /\ \A u \in Threads : u # t => pc'[u] = pc[u]
  BY <1>1
<1>3. Current' = Current
  BY <1>2 DEF Current
<1>4. \A u \in Threads \ {Main} :
        /\ pc'[u] # 0 => pc'[u] \in 1 .. Len(body) + 1
        /\ pc'[u] # 0 /\ pc'[u] \in 1 .. Len(body) /\ Bare(body[pc'[u]], {}) =>
            body[pc'[u]].reads \subseteq event.items[u]
  <2> SUFFICES ASSUME NEW u \in Threads \ {Main}
               PROVE  /\ pc'[u] # 0 => pc'[u] \in 1 .. Len(body) + 1
                      /\ pc'[u] # 0 /\ pc'[u] \in 1 .. Len(body) /\ Bare(body[pc'[u]], {}) =>
                          body[pc'[u]].reads \subseteq event.items[u]
    OBVIOUS
  <2>1. CASE u = t
    BY <1>2, <2>1
  <2>2. CASE u # t
    <3>1. pc'[u] = pc[u]
      BY <1>2, <2>2
    <3> QED BY <3>1 DEF DescriptionIInv
  <2> QED BY <2>1, <2>2
<1>5. Relied(event)' <=> Relied(event)
  BY DEF Relied
<1>6. Data(event)' = Data(event) /\ Guaranteed(event.parser)' = Guaranteed(event.parser)
  BY DEF Data, Guaranteed
<1>7. States(event.parser)' = States(event.parser)
  OBVIOUS
<1> QED BY <1>2, <1>3, <1>4, <1>5, <1>6, <1>7 DEF DescriptionIInv

\* Where an execution that can be relied on is, and what comes next.
LEMMA MainIsThere ==
  ASSUME DescriptionIInv, status = "running", Relied(event)
  PROVE  /\ pc \in [Threads -> Nat] /\ pc[Main] \in 1 .. Len(States(event.parser))
         /\ Current = States(event.parser)[pc[Main]]
         /\ Whole(States(event.parser), Guaranteed(event.parser))
         /\ StateOf(Main) = Current /\ Has(Main) = Data(event)
BY AllWhole DEF DescriptionIInv, Relied, Current, StateOf, Has

\* A Pass state finds its fields: in the execution and in an iteration.
LEMMA AddGoesOn ==
  ASSUME DescriptionIInv, status = "running", Relied(event), NEW t \in Threads, Add(t)
  PROVE  DescriptionIInv'
<1> DEFINE states == States(event.parser)
           given == Guaranteed(event.parser)
<1>1. /\ pc \in [Threads -> Nat] /\ pc[Main] \in 1 .. Len(states) /\ Current = states[pc[Main]]
      /\ Whole(states, given) /\ given \subseteq Data(event)
      /\ StateOf(Main) = Current /\ Has(Main) = Data(event)
  BY MainIsThere, GivenIsThere
<1>2. CASE t = Main
  <2>1. Current.do = "add" /\ Current.reads \subseteq Data(event)
    BY <1>1, <1>2 DEF Add, DescriptionIInv, Bare
  <2>2. event' = event /\ status' = "running" /\ pc' = [pc EXCEPT ![Main] = pc[Main] + 1]
    BY <1>1, <1>2, <2>1 DEF Add, Goto
  <2>3. /\ pc[Main] + 1 \in 1 .. Len(states)
        /\ ~Bare(states[pc[Main] + 1], given)
    BY <1>1, <2>1, Following DEF Guards
  <2> QED BY <2>1, <2>2, <2>3, MainMoves
<1>3. CASE t # Main
  <2> DEFINE body == Current.body
             k == pc[t]
  <2>1. /\ Current.do = "map" /\ k \in 1 .. Len(body) /\ Guarded(body, {})
        /\ Bare(body[k], {}) => body[k].reads \subseteq event.items[t]
        /\ body[k].do = "add"
    <3>1. k # 0 /\ k <= Len(body) /\ body[k].do = "add"
      BY <1>1, <1>3 DEF Add, Running, StateOf
    <3>2. Current.do = "map" /\ k \in 1 .. Len(body) + 1
      BY <1>3, <3>1 DEF DescriptionIInv
    <3>3. MadeOf(body)
      BY <1>1, <3>2 DEF Whole, Guarded
    <3>4. Guarded(body, {})
      BY <3>3, MadeGuarded
    <3>5. Len(body) \in Nat
      BY <3>4, ChainFun DEF Guarded
    <3>6. k \in 1 .. Len(body)
      BY <1>1, <3>1, <3>2, <3>5
    <3> QED BY <1>3, <3>1, <3>2, <3>4, <3>6 DEF DescriptionIInv
  <2>2. StateOf(t).reads \subseteq Has(t)
    BY <1>3, <2>1 DEF StateOf, Has, Bare
  <2>3. event' = event /\ status' = "running" /\ pc' = [pc EXCEPT ![t] = k + 1]
    BY <2>2 DEF Add, Goto
  <2>4. /\ Len(body) \in Nat /\ k + 1 \in 1 .. Len(body) + 1
        /\ k + 1 \in 1 .. Len(body) => ~Bare(body[k + 1], {})
    BY <2>1, FollowingIn DEF Guards
  <2> QED BY <1>1, <1>3, <2>1, <2>3, <2>4, IterationMoves
<1> QED BY <1>2, <1>3

\* A Choice leads to a state whose field is there, or past it.
LEMMA CheckGoesOn ==
  ASSUME DescriptionIInv, status = "running", Relied(event), NEW t \in Threads, Check(t)
  PROVE  DescriptionIInv'
<1> DEFINE states == States(event.parser)
           given == Guaranteed(event.parser)
<1>1. /\ pc \in [Threads -> Nat] /\ pc[Main] \in 1 .. Len(states) /\ Current = states[pc[Main]]
      /\ Whole(states, given) /\ given \subseteq Data(event)
      /\ StateOf(Main) = Current /\ Has(Main) = Data(event)
  BY MainIsThere, GivenIsThere
<1>2. CASE t = Main
  <2>1. Current.do = "check" /\ event' = event /\ status' = "running"
    BY <1>1, <1>2 DEF Check
  <2>2. /\ Current.skip \in Nat
        /\ pc[Main] + 1 + Current.skip \in 1 .. Len(states)
        /\ ~Bare(states[pc[Main] + 1 + Current.skip], given)
        /\ pc[Main] + 1 \in 1 .. Len(states)
        /\ Bare(states[pc[Main] + 1], given) => Guards(Current, states[pc[Main] + 1])
    BY <1>1, <2>1, Following
  <2>3. CASE Current.reads \cap Data(event) # {}
    <3>1. pc' = [pc EXCEPT ![Main] = pc[Main] + 1]
      BY <1>1, <1>2, <2>3 DEF Check, Goto
    <3>2. Bare(states[pc[Main] + 1], given) => states[pc[Main] + 1].reads \subseteq Data(event)
      BY <2>2, <2>3 DEF Guards
    <3> QED BY <2>1, <2>2, <3>1, <3>2, MainMoves
  <2>4. CASE Current.reads \cap Data(event) = {}
    <3>1. pc' = [pc EXCEPT ![Main] = pc[Main] + (1 + Current.skip)]
      BY <1>1, <1>2, <2>4 DEF Check, Goto
    <3>2. pc[Main] + (1 + Current.skip) = pc[Main] + 1 + Current.skip
      BY <1>1, <2>2, MainIsThread
    <3> QED BY <2>1, <2>2, <3>1, <3>2, MainMoves
  <2> QED BY <2>3, <2>4
<1>3. CASE t # Main
  <2> DEFINE body == Current.body
             k == pc[t]
             has == event.items[t]
  <2>1. /\ Current.do = "map" /\ k \in 1 .. Len(body) /\ Guarded(body, {})
        /\ body[k].do = "check" /\ k \in Nat
    <3>1. k # 0 /\ k <= Len(body) /\ body[k].do = "check"
      BY <1>1, <1>3 DEF Check, Running, StateOf
    <3>2. Current.do = "map" /\ k \in 1 .. Len(body) + 1
      BY <1>3, <3>1 DEF DescriptionIInv
    <3>3. MadeOf(body)
      BY <1>1, <3>2 DEF Whole, Guarded
    <3>4. Guarded(body, {})
      BY <3>3, MadeGuarded
    <3>5. Len(body) \in Nat
      BY <3>4, ChainFun DEF Guarded
    <3>6. k \in 1 .. Len(body)
      BY <1>1, <3>1, <3>2, <3>5
    <3> QED BY <1>1, <3>1, <3>2, <3>4, <3>6
  <2>2. event' = event /\ status' = "running" /\ StateOf(t) = body[k] /\ Has(t) = has
    BY <1>3 DEF Check, StateOf, Has
  <2>3. /\ Len(body) \in Nat /\ k + 1 \in 1 .. Len(body) + 1
        /\ k + 1 \in 1 .. Len(body) /\ Bare(body[k + 1], {}) => Guards(body[k], body[k + 1])
        /\ body[k].skip \in Nat /\ k + 1 + body[k].skip \in 1 .. Len(body) + 1
        /\ k + 1 + body[k].skip \in 1 .. Len(body) => ~Bare(body[k + 1 + body[k].skip], {})
    BY <2>1, FollowingIn
  <2>4. CASE body[k].reads \cap has # {}
    <3>1. pc' = [pc EXCEPT ![t] = k + 1]
      BY <2>2, <2>4 DEF Check, Goto
    <3>2. k + 1 \in 1 .. Len(body) /\ Bare(body[k + 1], {}) => body[k + 1].reads \subseteq has
      BY <2>3, <2>4 DEF Guards
    <3> QED BY <1>3, <2>1, <2>2, <2>3, <3>1, <3>2, IterationMoves
  <2>5. CASE body[k].reads \cap has = {}
    <3>1. pc' = [pc EXCEPT ![t] = k + (1 + body[k].skip)]
      BY <2>2, <2>5 DEF Check, Goto
    <3>2. k + (1 + body[k].skip) = k + 1 + body[k].skip
      BY <2>1, <2>3
    <3> QED BY <1>3, <2>1, <2>2, <2>3, <3>1, <3>2, IterationMoves
  <2> QED BY <2>4, <2>5
<1> QED BY <1>2, <1>3

\* The states that only pass on.
LEMMA MainGoesOn ==
  ASSUME DescriptionIInv, status = "running", Relied(event),
         SetDelimiter \/ Initialize \/ While \/ AddRecord \/ Step
  PROVE  DescriptionIInv'
<1> DEFINE states == States(event.parser)
           given == Guaranteed(event.parser)
<1>1. /\ pc \in [Threads -> Nat] /\ pc[Main] \in 1 .. Len(states) /\ Current = states[pc[Main]]
      /\ Whole(states, given)
  BY MainIsThere
<1>2. event' = event /\ status' = "running"
  BY DEF SetDelimiter, Initialize, While, AddRecord, Step, Extend
<1>3. CASE pc' = [pc EXCEPT ![Main] = pc[Main] + 1] /\
           Current.do \in {"delimiter", "initialize", "while", "record"}
  <2>1. pc[Main] + 1 \in 1 .. Len(states) /\ ~Bare(states[pc[Main] + 1], given)
    BY <1>1, <1>3, Following DEF Guards
  <2> QED BY <1>2, <1>3, <2>1, MainMoves
<1>4. CASE Current.do = "while" /\ pc' = [pc EXCEPT ![Main] = pc[Main] + (1 + Current.skip)]
  <2>1. /\ Current.skip \in Nat
        /\ pc[Main] + 1 + Current.skip \in 1 .. Len(states)
        /\ ~Bare(states[pc[Main] + 1 + Current.skip], given)
    BY <1>1, <1>4, Following
  <2>2. pc[Main] + (1 + Current.skip) = pc[Main] + 1 + Current.skip
    BY <1>1, <2>1, MainIsThread
  <2> QED BY <1>2, <1>4, <2>1, <2>2, MainMoves
<1>5. CASE Current.do = "step" /\ pc' = [pc EXCEPT ![Main] = pc[Main] + (1 - Current.back)]
  <2>1. /\ Current.back \in Nat
        /\ pc[Main] + 1 - Current.back \in 1 .. Len(states)
        /\ ~Bare(states[pc[Main] + 1 - Current.back], given)
    BY <1>1, <1>5, Following
  <2>2. pc[Main] + (1 - Current.back) = pc[Main] + 1 - Current.back
    BY <1>1, <2>1, MainIsThread
  <2> QED BY <1>2, <1>5, <2>1, <2>2, MainMoves
<1> QED BY <1>3, <1>4, <1>5 DEF SetDelimiter, Initialize, While, AddRecord, Step, Goto

\* The iterations start at the beginnings of their chains.
LEMMA MapStarts ==
  ASSUME DescriptionIInv, status = "running", Relied(event), StartMap
  PROVE  DescriptionIInv'
<1> DEFINE states == States(event.parser)
           given == Guaranteed(event.parser)
           body == Current.body
<1>1. /\ pc \in [Threads -> Nat] /\ pc[Main] \in 1 .. Len(states) /\ Current = states[pc[Main]]
      /\ Whole(states, given) /\ given \subseteq Data(event)
  BY MainIsThere, GivenIsThere
<1>2. Current.do = "map"
  BY DEF StartMap
<1>3. Current.over \in Data(event) /\ MadeOf(body)
  BY <1>1, <1>2 DEF Whole, Guarded
<1>4. Guarded(body, {})
  BY <1>3, MadeGuarded
<1>5. Len(body) \in Nat
  BY <1>4, ChainFun DEF Guarded
<1>6. /\ event' = event /\ status' = "running"
      /\ pc' = [t \in Threads |-> IF t \in Items THEN 1 ELSE pc[t]]
  BY <1>3 DEF StartMap
<1>7. Main \in Threads /\ Main \notin Items
  <2>1. event \in Events
    BY DEF DescriptionIInv
  <2>2. event.items \in Seq(SUBSET STRING)
    BY <2>1, DescriptionsAssumption
  <2> QED BY <2>2, MainIsThread DEF Items, Main
<1>8. /\ pc' \in [Threads -> Nat] /\ pc'[Main] = pc[Main]
      /\ \A t \in Threads : pc'[t] = 1 \/ pc'[t] = pc[t]
  BY <1>1, <1>6, <1>7
<1>9. Current' = Current
  BY <1>6, <1>8 DEF Current
<1>10. 1 \in 1 .. Len(body) => ~Bare(body[1], {})
  BY <1>4 DEF Guarded
<1>11. \A t \in Threads \ {Main} :
        /\ pc'[t] # 0 => pc'[t] \in 1 .. Len(body) + 1
        /\ pc'[t] # 0 /\ pc'[t] \in 1 .. Len(body) /\ Bare(body[pc'[t]], {}) =>
            body[pc'[t]].reads \subseteq event.items[t]
  <2> SUFFICES ASSUME NEW t \in Threads \ {Main}
               PROVE  /\ pc'[t] # 0 => pc'[t] \in 1 .. Len(body) + 1
                      /\ pc'[t] # 0 /\ pc'[t] \in 1 .. Len(body) /\ Bare(body[pc'[t]], {}) =>
                          body[pc'[t]].reads \subseteq event.items[t]
    OBVIOUS
  <2>1. CASE pc'[t] = 1
    BY <1>5, <1>10, <2>1
  <2>2. CASE pc'[t] = pc[t]
    BY <2>2 DEF DescriptionIInv
  <2> QED BY <1>8, <2>1, <2>2
<1>12. Data(event)' = Data(event) /\ Guaranteed(event.parser)' = Guaranteed(event.parser)
  BY <1>6 DEF Data, Guaranteed
<1>13. States(event.parser)' = States(event.parser) /\ (Relied(event)' <=> Relied(event))
  BY <1>6 DEF Relied
<1> QED BY <1>2, <1>6, <1>8, <1>9, <1>11, <1>12, <1>13 DEF DescriptionIInv

\* The iterations are over when the execution goes on.
LEMMA MapJoins ==
  ASSUME DescriptionIInv, status = "running", Relied(event), JoinMap
  PROVE  DescriptionIInv'
<1> DEFINE states == States(event.parser)
           given == Guaranteed(event.parser)
           j == pc[Main] + 1
<1>1. /\ pc \in [Threads -> Nat] /\ pc[Main] \in 1 .. Len(states) /\ Current = states[pc[Main]]
      /\ Whole(states, given)
  BY MainIsThere
<1>2. Current.do = "map" /\ event' = event /\ status' = "running"
  BY DEF JoinMap
<1>3. j \in 1 .. Len(states) /\ Len(states) \in Nat /\ ~Bare(states[j], given)
  BY <1>1, <1>2, Following DEF Guards
<1>4. pc' = [t \in Threads |-> IF t = Main THEN j ELSE 0]
  BY DEF JoinMap
<1> HIDE DEF j
<1>5. pc' \in [Threads -> Nat] /\ pc'[Main] = j /\ \A t \in Threads \ {Main} : pc'[t] = 0
  <2>1. j \in Nat
    BY <1>3
  <2> QED BY <1>4, <2>1, MainIsThread
<1>6. Current' = states[j]
  BY <1>2, <1>5 DEF Current
<1>7. Data(event)' = Data(event) /\ Guaranteed(event.parser)' = given
  BY <1>2 DEF Data, Guaranteed
<1>8. States(event.parser)' = states /\ (Relied(event)' <=> Relied(event))
  BY <1>2 DEF Relied
<1> HIDE DEF states
<1> QED BY <1>2, <1>3, <1>5, <1>6, <1>7, <1>8 DEF DescriptionIInv

\* The output's fields are there.
LEMMA OutputIsThere ==
  ASSUME DescriptionIInv, status = "running", Relied(event), FormatDescription
  PROVE  DescriptionIInv'
<1>1. /\ pc[Main] \in 1 .. Len(States(event.parser)) /\ Current = States(event.parser)[pc[Main]]
      /\ Whole(States(event.parser), Guaranteed(event.parser))
      /\ Guaranteed(event.parser) \subseteq Data(event)
  BY MainIsThere, GivenIsThere
<1>2. Current.do = "output"
  BY DEF FormatDescription
<1>3. Current.reads \subseteq Data(event)
  BY <1>1, <1>2 DEF Whole, Guarded
<1>4. status' = "done" /\ event' = event
  BY <1>3 DEF FormatDescription
<1> QED BY <1>4 DEF DescriptionIInv

\* A parser starts at the beginning of its chain.
LEMMA ParserStarts ==
  ASSUME DescriptionIInv, NEW e \in Events, StartParser(e)
  PROVE  DescriptionIInv'
<1>1. /\ status' = "running" /\ event' = e /\ pc' = pc
      /\ pc = [t \in Threads |-> IF t = Main THEN 1 ELSE 0]
  BY DEF StartParser, DescriptionIInv
<1>2. pc \in [Threads -> Nat] /\ pc[Main] = 1 /\ \A t \in Threads \ {Main} : pc[t] = 0
  BY <1>1, MainIsThread
<1>3. ASSUME Relied(e)
      PROVE  1 \in 1 .. Len(States(e.parser)) /\ ~Bare(States(e.parser)[1], Guaranteed(e.parser))
  <2>1. Whole(States(e.parser), Guaranteed(e.parser))
    BY <1>3, AllWhole DEF Relied
  <2>2. Len(States(e.parser)) \in Nat
    BY <2>1, ChainFun DEF Whole, Guarded
  <2>3. 1 \in 1 .. Len(States(e.parser))
    BY <2>1, <2>2 DEF Whole
  <2> QED BY <2>1, <2>3 DEF Whole, Guarded
<1>4. Current' = States(e.parser)[1]
  BY <1>1, <1>2 DEF Current
<1>5. States(event.parser)' = States(e.parser) /\ Guaranteed(event.parser)' = Guaranteed(e.parser)
  BY <1>1
<1>6. Relied(event)' <=> Relied(e)
  BY <1>1 DEF Relied
<1> QED BY <1>1, <1>2, <1>3, <1>4, <1>5, <1>6 DEF DescriptionIInv

\* Of an event that lacks what its parser takes for granted nothing is claimed.
LEMMA NothingIsClaimed ==
  ASSUME DescriptionIInv, ~Relied(event), Execute
  PROVE  DescriptionIInv'
<1>1. status = "running" /\ event' = event /\ status' \in {"running", "done", "failed"}
  BY DEF Execute, Add, Check, SetDelimiter, StartMap, JoinMap, Initialize, While, AddRecord,
         Step, FormatDescription, Extend, Fail, Running
<1>2. ~Relied(event)'
  BY <1>1 DEF Relied
<1> QED BY <1>1, <1>2 DEF DescriptionIInv

\* Every step keeps the invariant.
LEMMA DescriptionStep ==
  ASSUME DescriptionIInv, [DescriptionNext]_describing
  PROVE  DescriptionIInv'
<1>1. ASSUME Execute PROVE DescriptionIInv'
  <2>1. status = "running"
    BY <1>1 DEF Execute, Add, Check, SetDelimiter, StartMap, JoinMap, Initialize, While,
                AddRecord, Step, FormatDescription, Running
  <2> QED BY <1>1, <2>1, NothingIsClaimed, AddGoesOn, CheckGoesOn, MainGoesOn, MapStarts, MapJoins,
             OutputIsThere DEF Execute
<1>2. ASSUME UNCHANGED describing PROVE DescriptionIInv'
  <2>1. event' = event /\ status' = status /\ pc' = pc
    BY <1>2 DEF describing
  <2>2. Current' = Current /\ (Relied(event)' <=> Relied(event))
    BY <2>1 DEF Current, Relied
  <2>3. Data(event)' = Data(event) /\ Guaranteed(event.parser)' = Guaranteed(event.parser)
    BY <2>1 DEF Data, Guaranteed
  <2>4. States(event.parser)' = States(event.parser)
    BY <2>1
  <2> QED BY <2>1, <2>2, <2>3, <2>4 DEF DescriptionIInv
<1> QED BY <1>1, <1>2, ParserStarts DEF DescriptionNext

\* No execution of a parser, with whatever fields its event has or lacks and in
\* whatever order the iterations of its Map are taken, fails for want of a field
\* that the event's source may leave out (description-builder.ts:156).
THEOREM NeverForOptional == DescriptionSpec => []NeverFailsForOptional
<1>1. DescriptionInit => DescriptionIInv
  BY DescriptionFirst
<1>2. DescriptionIInv /\ [DescriptionNext]_describing => DescriptionIInv'
  BY DescriptionStep
<1>3. DescriptionIInv => NeverFailsForOptional
  <2> SUFFICES ASSUME DescriptionIInv, status = "failed",
                      event.parser # "OpenSearchEvent",
                      Guaranteed(event.parser) \subseteq event.present
               PROVE  FALSE
    BY DEF NeverFailsForOptional
  <2>1. event \in Events /\ ~Relied(event)
    BY DEF DescriptionIInv
  <2>2. event.parser \in Relying
    BY <2>1, DescriptionsAssumption DEF Relying
  <2> QED BY <2>1, <2>2 DEF Relied
<1> QED BY <1>1, <1>2, <1>3, PTL DEF DescriptionSpec

-----------------------------------------------------------------------------
(***************************************************************************)
(* What a description tells.  A place of a chain is annotated with the     *)
(* memos, what has been written and where the loop is, that are possible   *)
(* there; the annotations are closed under the moves of the states.  Two   *)
(* chains that are put together have the annotations of both, and so what  *)
(* a chain leads to is proved part by part.                                *)
(***************************************************************************)

\* What an execution or an iteration has written, and where its loop is.
Memo(words, delim, recs, place) ==
    [text |-> words, delimiter |-> delim, records |-> recs, index |-> place]

\* The memo at the start of a chain.
Fresh(delim) == Memo(<<>>, delim, <<>>, 0)

\* What a frame reads: the data of the event, or an item of a collection.
FieldsOf(e, t) == IF t = Main THEN Data(e) ELSE e.items[t]

\* The delimiter that is written before a text.
Used(m, before) == IF before = Kept THEN m.delimiter ELSE before

\* The memo after an Extend.
Extended(m, before, tokens, after) ==
    Memo(m.text \o (IF Used(m, before) = Empty THEN <<>> ELSE <<Used(m, before)>>) \o tokens,
         IF after = Kept THEN m.delimiter ELSE after, m.records, m.index)

\* What a state adds: its token, of the frame if it reads anything.
Token(state, t) == <<<<state.says, IF state.reads = {} THEN Main ELSE t>>>>

\* A Pass or a Choice state leads from memo m over the given number of states to memo n.
Passes(state, t, e, m, jump, n) ==
    \/ /\ state.do = "add" /\ state.reads \subseteq FieldsOf(e, t)
       /\ jump = 1 /\ n = Extended(m, state.before, Token(state, t), state.after)
    \/ /\ state.do = "check" /\ n = m
       /\ jump = IF state.reads \cap FieldsOf(e, t) # {} THEN 1 ELSE 1 + state.skip

\* What is true of all places that an iteration can get to; A[k] are memos at place k.
Iterates(A, c, t, e) ==
    /\ Fresh(Empty) \in A[1]
    /\ \A k \in 1 .. Len(c) : \A m \in A[k] : \A jump, n :
          Passes(c[k], t, e, m, jump, n) => n \in A[k + jump]

\* Iteration t can end with this text.
Tells(c, t, e, words) ==
    \E delim : \A A : Iterates(A, c, t, e) => Memo(words, delim, <<>>, 0) \in A[Len(c) + 1]

\* Any state leads from memo m to memo n.
Moves(state, t, e, m, jump, n) ==
    \/ Passes(state, t, e, m, jump, n)
    \/ /\ state.do = "delimiter" /\ jump = 1
       /\ n = Memo(m.text, state.after, m.records, m.index)
    \/ /\ state.do = "map" /\ jump = 1
       /\ \E f : /\ \A i \in DOMAIN e.items : Tells(state.body, i, e, f[i])
                 /\ n = Memo(m.text, m.delimiter, Telling([i \in DOMAIN e.items |-> f[i]]), m.index)
    \/ /\ state.do = "initialize" /\ jump = 1
       /\ n = Memo(m.text, m.delimiter,
                   IF state.over = Empty THEN m.records
                   ELSE [i \in DOMAIN e.items |-> <<<<state.field, i>>>>], 0)
    \/ /\ state.do = "while" /\ n = m
       /\ jump = IF m.index < Len(m.records) THEN 1 ELSE 1 + state.skip
    \/ /\ state.do = "record" /\ jump = 1
       /\ n = Extended(m, state.before, m.records[m.index + 1], state.after)
    \/ /\ state.do = "step" /\ jump = 1 - state.back
       /\ n = Memo(m.text, m.delimiter, m.records, m.index + 1)

\* The memos A[k] at each place k of a chain are closed under its states' moves.
Walks(A, c, t, e) ==
    \A k \in 1 .. Len(c) : \A m \in A[k] : \A jump, n :
        Moves(c[k], t, e, m, jump, n) =>
            jump \in Int /\ k + jump \in 1 .. Len(c) + 1 /\ n \in A[k + jump]

\* Whoever enters the chain with memo p and gets to its end does so with memo q.
Leads(c, t, e, p, q) ==
    /\ IsChain(c)
    /\ \A k \in 1 .. Len(c) : c[k].do # "output"
    /\ \E A : Walks(A, c, t, e) /\ p \in A[1] /\ A[Len(c) + 1] \subseteq {q}

\* An empty chain leads nowhere.
LEMMA LeadsNone ==
  ASSUME NEW t, NEW e, NEW p
  PROVE  Leads(<<>>, t, e, p, p)
<1> DEFINE A == [k \in {1} |-> {p}]
<1>1. Walks(A, <<>>, t, e)
  BY EmptyIsChain DEF Walks
<1>2. p \in A[1] /\ A[Len(<<>>) + 1] \subseteq {p}
  BY EmptyIsChain
<1> HIDE DEF A
<1> QED BY <1>1, <1>2, EmptyIsChain DEF Leads

\* Two chains lead where the second leads from where the first does.
LEMMA LeadsJoin ==
  ASSUME NEW c, NEW d, NEW t, NEW e, NEW p, NEW q, NEW r,
         Leads(c, t, e, p, q), Leads(d, t, e, q, r)
  PROVE  Leads(c \o d, t, e, p, r)
<1> DEFINE ch == c \o d
           l == Len(c)
           n == Len(d)
<1>1. IsChain(c) /\ IsChain(d)
  BY DEF Leads
<1>2. /\ IsChain(ch) /\ l \in Nat /\ n \in Nat /\ Len(ch) = l + n
      /\ \A k \in 1 .. l : ch[k] = c[k]
      /\ \A k \in 1 .. n : ch[l + k] = d[k]
  BY <1>1, Joined
<1>3. PICK A : Walks(A, c, t, e) /\ p \in A[1] /\ A[l + 1] \subseteq {q}
  BY DEF Leads
<1>4. PICK B : Walks(B, d, t, e) /\ q \in B[1] /\ B[n + 1] \subseteq {r}
  BY DEF Leads
<1> HIDE DEF ch, l, n
<1> DEFINE U == [k \in 1 .. l + n + 1 |-> IF k <= l THEN A[k] ELSE B[k - l]]
<1>5. /\ \A k \in 1 .. l : U[k] = A[k]
      /\ \A k \in 1 .. n + 1 : U[l + k] = B[k]
      /\ \A k \in 1 .. l + 1 : A[k] \subseteq U[k]
  <2>1. \A k \in 1 .. l : U[k] = A[k]
    BY <1>2
  <2>2. \A k \in 1 .. n + 1 : U[l + k] = B[k]
    BY <1>2
  <2>3. A[l + 1] \subseteq U[l + 1]
    <3>1. 1 \in 1 .. n + 1
      BY <1>2
    <3>2. U[l + 1] = B[1]
      BY <2>2, <3>1
    <3> HIDE DEF U
    <3> QED BY <1>3, <1>4, <3>2
  <2> HIDE DEF U
  <2> QED BY <1>2, <2>1, <2>2, <2>3
<1> HIDE DEF U
<1>6. ASSUME NEW k \in 1 .. l, NEW m \in U[k], NEW jump, NEW o,
             Moves(ch[k], t, e, m, jump, o)
      PROVE  jump \in Int /\ k + jump \in 1 .. Len(ch) + 1 /\ o \in U[k + jump]
  <2>1. m \in A[k] /\ Moves(c[k], t, e, m, jump, o)
    BY <1>2, <1>5, <1>6
  <2>2. jump \in Int /\ k + jump \in 1 .. l + 1 /\ o \in A[k + jump]
    BY <1>3, <2>1 DEF Walks, l
  <2> QED BY <1>2, <1>5, <2>2
<1>7. ASSUME NEW k \in 1 .. n, NEW m \in U[l + k], NEW jump, NEW o,
             Moves(ch[l + k], t, e, m, jump, o)
      PROVE  jump \in Int /\ (l + k) + jump \in 1 .. Len(ch) + 1 /\ o \in U[(l + k) + jump]
  <2>1. m \in B[k] /\ Moves(d[k], t, e, m, jump, o)
    BY <1>2, <1>5, <1>7
  <2>2. jump \in Int /\ k + jump \in 1 .. n + 1 /\ o \in B[k + jump]
    BY <1>4, <2>1 DEF Walks, n
  <2>3. (l + k) + jump = l + (k + jump)
    BY <1>2, <2>2
  <2> QED BY <1>2, <1>5, <2>2, <2>3
<1>8. Walks(U, ch, t, e)
  <2> SUFFICES ASSUME NEW k \in 1 .. Len(ch), NEW m \in U[k], NEW jump, NEW o,
                      Moves(ch[k], t, e, m, jump, o)
               PROVE  jump \in Int /\ k + jump \in 1 .. Len(ch) + 1 /\ o \in U[k + jump]
    BY DEF Walks
  <2>1. CASE k \in 1 .. l
    BY <1>6, <2>1
  <2>2. CASE k \notin 1 .. l
    <3>1. k - l \in 1 .. n /\ k = l + (k - l)
      BY <1>2, <2>2
    <3> QED BY <1>7, <3>1
  <2> QED BY <2>1, <2>2
<1>9. p \in U[1]
  <2>1. 1 \in 1 .. l + 1
    BY <1>2
  <2> QED BY <1>3, <1>5, <2>1
<1>10. U[Len(ch) + 1] \subseteq {r}
  <2>1. n + 1 \in 1 .. n + 1 /\ Len(ch) + 1 = l + (n + 1)
    BY <1>2
  <2> QED BY <1>4, <1>5, <2>1
<1>11. \A k \in 1 .. Len(ch) : ch[k].do # "output"
  <2> SUFFICES ASSUME NEW k \in 1 .. Len(ch) PROVE ch[k].do # "output"
    OBVIOUS
  <2>1. CASE k \in 1 .. l
    BY <1>2, <2>1 DEF Leads, l
  <2>2. CASE k \notin 1 .. l
    <3>1. k - l \in 1 .. n /\ k = l + (k - l)
      BY <1>2, <2>2
    <3> QED BY <1>2, <3>1 DEF Leads, n
  <2> QED BY <2>1, <2>2
<1> QED BY <1>2, <1>8, <1>9, <1>10, <1>11 DEF Leads, ch

\* Any number of chains, one after the other.
LEMMA LeadsAll ==
  ASSUME NEW seqs, NEW t, NEW e, NEW g, IsChain(seqs),
         \A k \in 1 .. Len(seqs) : Leads(seqs[k], t, e, g[k - 1], g[k])
  PROVE  Leads(FlattenSeq(seqs), t, e, g[0], g[Len(seqs)])
<1> DEFINE n == Len(seqs)
<1>1. n \in Nat
  BY ChainFun
<1>2. \A k \in 1 .. n : IsChain(seqs[k])
  BY DEF Leads
<1>3. PICK f : /\ f[0] = <<>>
               /\ \A k \in 1 .. n : f[k] = f[k - 1] \o seqs[k]
               /\ f[n] = FlattenSeq(seqs)
  BY <1>2, FlattenSteps
<1> HIDE DEF n
<1> DEFINE S == {k \in Nat : k \in 0 .. n => Leads(f[k], t, e, g[0], g[k])}
<1>4. 0 \in S
  BY <1>3, LeadsNone
<1>5. ASSUME NEW k \in Nat, k \in S PROVE k + 1 \in S
  <2> SUFFICES ASSUME k + 1 \in 0 .. n PROVE Leads(f[k + 1], t, e, g[0], g[k + 1])
    OBVIOUS
  <2>1. k + 1 \in 1 .. n /\ (k + 1) - 1 = k /\ k \in 0 .. n
    BY <1>1
  <2>2. f[k + 1] = f[k] \o seqs[k + 1] /\ Leads(f[k], t, e, g[0], g[k])
    BY <1>3, <1>5, <2>1
  <2>3. Leads(seqs[k + 1], t, e, g[k], g[k + 1])
    BY <2>1 DEF n
  <2> QED BY <2>2, <2>3, LeadsJoin
<1>6. n \in S
  <2> HIDE DEF S
  <2> QED BY <1>1, <1>4, <1>5, NatSetInduction
<1> QED BY <1>1, <1>3, <1>6 DEF n

\* The delimiters are told apart.
LEMMA Delimiters ==
  /\ Line # Kept /\ Line # Empty /\ Paragraph # Kept /\ Paragraph # Empty /\ Empty # Kept
BY DEF Line, Kept, Empty, Paragraph

\* The parts of a memo.
LEMMA MemoParts ==
  ASSUME NEW x, NEW d, NEW r, NEW i
  PROVE  /\ Memo(x, d, r, i).text = x /\ Memo(x, d, r, i).delimiter = d
         /\ Memo(x, d, r, i).records = r /\ Memo(x, d, r, i).index = i
BY DEF Memo

\* Something is told of a component.
Asked(component, t, e) == component.required \/ component.reads \cap FieldsOf(e, t) # {}

\* A component is told if it is asked for and there.
LEMMA LeadsWrite ==
  ASSUME NEW component, NEW before, NEW after, NEW t, NEW e, NEW m,
         component.required \in BOOLEAN
  PROVE  Leads(Write(component, before, after), t, e, m,
               IF Asked(component, t, e) THEN Extended(m, before, Token(component, t), after) ELSE m)
<1> DEFINE add == AddState(component, before, after)
           check == CheckState(component.reads, 1)
           q == IF Asked(component, t, e) THEN Extended(m, before, Token(component, t), after) ELSE m
<1>1. ASSUME NEW jump, NEW n, Moves(add, t, e, m, jump, n), Asked(component, t, e)
      PROVE  jump = 1 /\ n = q
  BY <1>1 DEF Moves, Passes, AddState, Token
<1>2. ASSUME NEW jump, NEW n, Moves(check, t, e, m, jump, n)
      PROVE  n = m /\ jump = IF component.reads \cap FieldsOf(e, t) # {} THEN 1 ELSE 1 + 1
  BY <1>2 DEF Moves, Passes, CheckState
<1>3. add.do = "add" /\ check.do = "check"
  BY DEF AddState, CheckState
<1>4. CASE component.required
  <2> DEFINE A == [k \in 1 .. 2 |-> IF k = 1 THEN {m} ELSE {q}]
             c == <<add>>
  <2> HIDE DEF add, check, q
  <2>1. Asked(component, t, e)
    BY <1>4 DEF Asked
  <2>2. IsChain(c) /\ Len(c) = 1 /\ c[1] = add
    BY OneState
  <2>3. A[1] = {m} /\ A[2] = {q}
    OBVIOUS
  <2> HIDE DEF A, c
  <2>4. Walks(A, c, t, e)
    BY <1>1, <2>1, <2>2, <2>3 DEF Walks
  <2>5. Leads(c, t, e, m, q)
    BY <1>3, <2>2, <2>3, <2>4 DEF Leads
  <2> QED BY <1>4, <2>5 DEF Write, c, add, q
<1>5. CASE ~component.required
  <2> DEFINE A == [k \in 1 .. 3 |-> IF k = 1 THEN {m}
                                     ELSE IF k = 2 THEN {o \in {m} : Asked(component, t, e)} ELSE {q}]
             c == <<check, add>>
  <2>1. ~Asked(component, t, e) => q = m
    OBVIOUS
  <2>2. Asked(component, t, e) <=> component.reads \cap FieldsOf(e, t) # {}
    BY <1>5 DEF Asked
  <2> HIDE DEF add, check, q
  <2>3. IsChain(c) /\ Len(c) = 2 /\ c[1] = check /\ c[2] = add
    BY TwoStates
  <2>4. A[1] = {m} /\ A[2] = {o \in {m} : Asked(component, t, e)} /\ A[3] = {q}
    OBVIOUS
  <2> HIDE DEF A, c
  <2>5. Walks(A, c, t, e)
    BY <1>1, <1>2, <2>1, <2>2, <2>3, <2>4 DEF Walks
  <2>6. Leads(c, t, e, m, q)
    BY <1>3, <2>3, <2>4, <2>5 DEF Leads
  <2> QED BY <1>5, <2>6 DEF Write, c, add, check, q
<1> QED BY <1>4, <1>5

\* One that reads something, or is written by the execution itself.
Speaks(component, t) == component.required \in BOOLEAN /\ (t = Main \/ component.reads # {})

\* The text of a field is its delimiter and its token.
LEMMA FieldIs ==
  ASSUME NEW component, NEW t, NEW e, Speaks(component, t)
  PROVE  /\ FieldText(component, t, FieldsOf(e, t)) =
                IF Asked(component, t, e) THEN <<Line>> \o Token(component, t) ELSE <<>>
         /\ IsChain(Token(component, t)) /\ Len(Token(component, t)) = 1
         /\ IsChain(<<Line>>)
         /\ IsChain(FieldText(component, t, FieldsOf(e, t)))
<1>1. Token(component, t) = <<<<component.says, t>>>>
  BY DEF Speaks, Token
<1>2. FieldText(component, t, FieldsOf(e, t)) =
        IF Asked(component, t, e) THEN <<Line>> \o Token(component, t) ELSE <<>>
  BY <1>1 DEF FieldText, Asked, PartOf
<1>3. IsChain(Token(component, t)) /\ Len(Token(component, t)) = 1 /\ IsChain(<<Line>>)
  BY <1>1, OneState
<1>4. IsChain(<<Line>> \o Token(component, t))
  BY <1>3, Joined
<1> QED BY <1>2, <1>3, <1>4, EmptyIsChain

\* A field of a section is told on a new line.
LEMMA LeadsField ==
  ASSUME NEW component, NEW before, NEW t, NEW e, Speaks(component, t),
         NEW x, NEW d, NEW r, NEW i, IsChain(x), Used(Memo(x, d, r, i), before) = Line
  PROVE  Leads(Write(component, before, Kept), t, e, Memo(x, d, r, i),
               Memo(x \o FieldText(component, t, FieldsOf(e, t)), d, r, i))
<1> DEFINE m == Memo(x, d, r, i)
           tok == Token(component, t)
           said == FieldText(component, t, FieldsOf(e, t))
<1>1. Leads(Write(component, before, Kept), t, e, m,
            IF Asked(component, t, e) THEN Extended(m, before, tok, Kept) ELSE m)
  BY LeadsWrite DEF Speaks
<1>2. /\ said = IF Asked(component, t, e) THEN <<Line>> \o tok ELSE <<>>
      /\ IsChain(tok) /\ IsChain(<<Line>>)
  BY FieldIs
<1> HIDE DEF tok, said
<1>3. Extended(m, before, tok, Kept) = Memo((x \o <<Line>>) \o tok, d, r, i)
  BY Delimiters, MemoParts DEF Extended
<1>4. (x \o <<Line>>) \o tok = x \o (<<Line>> \o tok) /\ x \o <<>> = x
  BY <1>2, Regrouped, EmptyAdds
<1> QED BY <1>1, <1>2, <1>3, <1>4 DEF said

\* All fields of a section, as the reference has them.
LEMMA LeadsFields ==
  ASSUME NEW body, NEW before, NEW t, NEW e, IsChain(body),
         \A k \in 1 .. Len(body) : Speaks(body[k], t),
         NEW x, NEW d, NEW r, NEW i, IsChain(x), Used(Memo(x, d, r, i), before) = Line
  PROVE  /\ Leads(WriteAll(body, before, Kept), t, e, Memo(x, d, r, i),
                  Memo(x \o FieldTexts(body, t, FieldsOf(e, t)), d, r, i))
         /\ IsChain(FieldTexts(body, t, FieldsOf(e, t)))
<1> DEFINE n == Len(body)
           has == FieldsOf(e, t)
           chains == [k \in DOMAIN body |-> Write(body[k], before, Kept)]
           told == [k \in DOMAIN body |-> FieldText(body[k], t, has)]
<1>1. n \in Nat /\ DOMAIN body = 1 .. n
  BY ChainFun
<1>2. /\ chains = [k \in 1 .. n |-> chains[k]]
      /\ told = [k \in 1 .. n |-> told[k]]
      /\ \A k \in 1 .. n : /\ chains[k] = Write(body[k], before, Kept)
                           /\ told[k] = FieldText(body[k], t, has)
  BY <1>1
<1>3. WriteAll(body, before, Kept) = FlattenSeq(chains) /\ FieldTexts(body, t, has) = FlattenSeq(told)
  BY DEF WriteAll, FieldTexts
<1>4. \A k \in 1 .. n : IsChain(FieldText(body[k], t, has))
  BY FieldIs
<1> HIDE DEF chains, told
<1>5. IsChain(chains) /\ Len(chains) = n /\ IsChain(told) /\ Len(told) = n
  BY <1>1, <1>2, FunChain
<1>6. PICK f : /\ f[0] = <<>>
               /\ \A k \in 1 .. n : f[k] = f[k - 1] \o told[k]
               /\ \A k \in 0 .. n : IsChain(f[k])
               /\ f[n] = FlattenSeq(told)
  BY <1>2, <1>4, <1>5, FlattenSteps
<1> DEFINE g == [k \in 0 .. n |-> Memo(x \o f[k], d, r, i)]
<1>7. ASSUME NEW k \in 1 .. n PROVE Leads(chains[k], t, e, g[k - 1], g[k])
  <2>1. k - 1 \in 0 .. n /\ k \in 0 .. n
    BY <1>1
  <2>2. IsChain(x \o f[k - 1]) /\ IsChain(f[k - 1]) /\ IsChain(told[k])
    BY <1>2, <1>4, <1>6, <2>1, Joined
  <2>3. x \o f[k] = (x \o f[k - 1]) \o told[k]
    <3>1. f[k] = f[k - 1] \o told[k]
      BY <1>6
    <3> DEFINE a == f[k - 1]
               b == told[k]
    <3>2. IsChain(a) /\ IsChain(b)
      BY <2>2
    <3> HIDE DEF a, b
    <3>3. (x \o a) \o b = x \o (a \o b)
      BY <3>2, Regrouped
    <3> QED BY <3>1, <3>3 DEF a, b
  <2>4. g[k - 1] = Memo(x \o f[k - 1], d, r, i) /\ g[k] = Memo((x \o f[k - 1]) \o told[k], d, r, i)
    BY <2>1, <2>3
  <2>5. Used(Memo(x \o f[k - 1], d, r, i), before) = Line
    BY MemoParts DEF Used
  <2> HIDE DEF g
  <2>6. Leads(Write(body[k], before, Kept), t, e, Memo(x \o f[k - 1], d, r, i),
              Memo((x \o f[k - 1]) \o FieldText(body[k], t, has), d, r, i))
    BY <2>2, <2>5, LeadsField
  <2> QED BY <1>2, <2>4, <2>6
<1>8. g[0] = Memo(x, d, r, i) /\ g[n] = Memo(x \o FlattenSeq(told), d, r, i)
  <2>1. g[0] = Memo(x \o f[0], d, r, i) /\ g[n] = Memo(x \o f[n], d, r, i)
    BY <1>1
  <2>2. x \o f[0] = x
    BY <1>6, EmptyAdds
  <2> HIDE DEF g
  <2> QED BY <1>6, <2>1, <2>2
<1> HIDE DEF g
<1>9. Leads(FlattenSeq(chains), t, e, g[0], g[n])
  BY <1>5, <1>7, LeadsAll
<1>10. IsChain(FlattenSeq(told))
  <2>1. n \in 0 .. n
    BY <1>1
  <2> QED BY <1>6, <2>1
<1> QED BY <1>3, <1>8, <1>9, <1>10

-----------------------------------------------------------------------------
(***************************************************************************)
(* Fields, titles and sections.                                            *)
(***************************************************************************)

\* A chain behind a Choice is gone through, or passed by.
LEMMA LeadsCheck ==
  ASSUME NEW fields, NEW c, NEW t, NEW e, NEW p, NEW q, Leads(c, t, e, p, q)
  PROVE  Leads(<<CheckState(fields, Len(c))>> \o c, t, e, p,
               IF fields \cap FieldsOf(e, t) # {} THEN q ELSE p)
<1> DEFINE check == CheckState(fields, Len(c))
           one == <<check>>
           ch == one \o c
           l == Len(c)
           hit == fields \cap FieldsOf(e, t) # {}
           end == IF hit THEN q ELSE p
<1>1. check.do = "check" /\ check.skip = l /\ check.reads = fields
  BY DEF CheckState
<1>2. ASSUME NEW m, NEW jump, NEW n, Moves(check, t, e, m, jump, n)
      PROVE  n = m /\ jump = IF hit THEN 1 ELSE 1 + l
  BY <1>1, <1>2 DEF Moves, Passes
<1> HIDE DEF check
<1>3. IsChain(one) /\ Len(one) = 1 /\ one[1] = check /\ IsChain(c)
  BY OneState DEF Leads
<1> HIDE DEF one
<1>4. /\ IsChain(ch) /\ l \in Nat /\ Len(ch) = 1 + l /\ ch[1] = check
      /\ \A k \in 1 .. l : ch[1 + k] = c[k]
  <2>1. /\ IsChain(one \o c) /\ Len(c) \in Nat /\ Len(one \o c) = Len(one) + Len(c)
        /\ \A k \in 1 .. Len(one) : (one \o c)[k] = one[k]
        /\ \A k \in 1 .. Len(c) : (one \o c)[Len(one) + k] = c[k]
    <3>1. IsChain(one) /\ IsChain(c)
      BY <1>3
    <3> QED BY <3>1, Joined
  <2> QED BY <1>3, <2>1
<1>5. PICK A : Walks(A, c, t, e) /\ p \in A[1] /\ A[l + 1] \subseteq {q}
  BY DEF Leads
<1> HIDE DEF ch, l, hit
<1> DEFINE U == [k \in 1 .. l + 2 |-> IF k = 1 THEN {p}
                                       ELSE IF hit THEN A[k - 1]
                                       ELSE IF k = l + 2 THEN {p} ELSE {}]
<1>6. /\ U[1] = {p}
      /\ \A k \in 1 .. l + 1 : U[1 + k] = IF hit THEN A[k] ELSE IF k = l + 1 THEN {p} ELSE {}
  BY <1>4
<1> HIDE DEF U
<1>7. ASSUME NEW m \in U[1], NEW jump, NEW n, Moves(ch[1], t, e, m, jump, n)
      PROVE  jump \in Int /\ 1 + jump \in 1 .. Len(ch) + 1 /\ n \in U[1 + jump]
  <2>1. n = p /\ jump = IF hit THEN 1 ELSE 1 + l
    BY <1>2, <1>4, <1>6, <1>7
  <2>2. CASE hit
    <3>1. 1 \in 1 .. l + 1 /\ jump = 1
      BY <1>4, <2>1, <2>2
    <3> QED BY <1>4, <1>5, <1>6, <2>1, <2>2, <3>1
  <2>3. CASE ~hit
    <3>1. l + 1 \in 1 .. l + 1 /\ jump = l + 1
      BY <1>4, <2>1, <2>3
    <3>2. U[1 + (l + 1)] = {p}
      BY <1>6, <2>3, <3>1
    <3> QED BY <1>4, <2>1, <3>1, <3>2
  <2> QED BY <2>2, <2>3
<1>8. ASSUME NEW k \in 1 .. l, NEW m \in U[1 + k], NEW jump, NEW n, Moves(ch[1 + k], t, e, m, jump, n)
      PROVE  jump \in Int /\ (1 + k) + jump \in 1 .. Len(ch) + 1 /\ n \in U[(1 + k) + jump]
  <2>1. hit /\ m \in A[k] /\ Moves(c[k], t, e, m, jump, n)
    BY <1>4, <1>6, <1>8
  <2>2. jump \in Int /\ k + jump \in 1 .. l + 1 /\ n \in A[k + jump]
    BY <1>5, <2>1 DEF Walks, l
  <2>3. (1 + k) + jump = 1 + (k + jump)
    BY <2>2
  <2> QED BY <1>4, <1>6, <2>1, <2>2, <2>3
<1>9. Walks(U, ch, t, e)
  <2> SUFFICES ASSUME NEW k \in 1 .. Len(ch), NEW m \in U[k], NEW jump, NEW o,
                      Moves(ch[k], t, e, m, jump, o)
               PROVE  jump \in Int /\ k + jump \in 1 .. Len(ch) + 1 /\ o \in U[k + jump]
    BY DEF Walks
  <2>1. CASE k = 1
    BY <1>7, <2>1
  <2>2. CASE k # 1
    <3>1. k - 1 \in 1 .. l /\ k = 1 + (k - 1)
      BY <1>4, <2>2
    <3> QED BY <1>8, <3>1
  <2> QED BY <2>1, <2>2
<1>10. p \in U[1] /\ U[Len(ch) + 1] \subseteq {end}
  <2>1. l + 1 \in 1 .. l + 1 /\ Len(ch) + 1 = 1 + (l + 1)
    BY <1>4
  <2> QED BY <1>5, <1>6, <2>1
<1>11. \A k \in 1 .. Len(ch) : ch[k].do # "output"
  <2> SUFFICES ASSUME NEW k \in 1 .. Len(ch) PROVE ch[k].do # "output"
    OBVIOUS
  <2>1. CASE k = 1
    BY <1>1, <1>4, <2>1
  <2>2. CASE k # 1
    <3>1. k - 1 \in 1 .. l /\ k = 1 + (k - 1)
      BY <1>4, <2>2
    <3> QED BY <1>4, <3>1 DEF Leads, l
  <2> QED BY <2>1, <2>2
<1> HIDE DEF end
<1>12. Leads(ch, t, e, p, end)
  BY <1>4, <1>9, <1>10, <1>11 DEF Leads
<1> QED BY <1>12 DEF ch, one, check, l, end, hit

\* What is written behind an empty line: a title, a link or a reference.
LEMMA LeadsLone ==
  ASSUME NEW component, NEW after \in {Kept, Line}, NEW e, component.required \in BOOLEAN,
         NEW x, NEW r, NEW i, IsChain(x)
  PROVE  /\ Leads(Write(component, Paragraph, after), Main, e, Memo(x, Line, r, i),
                  Memo(x \o (IF Asked(component, Main, e) THEN Lone(component.says) ELSE <<>>), Line, r, i))
         /\ IsChain(Lone(component.says))
<1> DEFINE m == Memo(x, Line, r, i)
           tok == <<<<component.says, Main>>>>
           hit == Asked(component, Main, e)
<1>1. Leads(Write(component, Paragraph, after), Main, e, m,
            IF hit THEN Extended(m, Paragraph, tok, after) ELSE m)
  <2>1. Token(component, Main) = tok
    BY DEF Token
  <2> QED BY <2>1, LeadsWrite
<1>2. IsChain(tok) /\ IsChain(<<Paragraph>>)
  BY OneState
<1>3. Lone(component.says) = <<Paragraph>> \o tok
  BY DEF Lone, PartOf
<1> HIDE DEF tok, hit
<1>4. Extended(m, Paragraph, tok, after) = Memo((x \o <<Paragraph>>) \o tok, Line, r, i)
  BY Delimiters, MemoParts DEF Extended, Used
<1>5. (x \o <<Paragraph>>) \o tok = x \o (<<Paragraph>> \o tok) /\ x \o <<>> = x
  BY <1>2, Regrouped, EmptyAdds
<1>6. IsChain(Lone(component.says))
  BY <1>2, <1>3, Joined
<1> QED BY <1>1, <1>3, <1>4, <1>5, <1>6 DEF hit

\* A section's title and its fields.
LEMMA LeadsBody ==
  ASSUME NEW s, NEW before, NEW after \in {Kept, Line}, NEW e, IsChain(s.body),
         before \in {Kept, Line},
         \A k \in 1 .. Len(s.body) : s.body[k].required \in BOOLEAN,
         NEW x, NEW r, NEW i, IsChain(x)
  PROVE  /\ Leads(Write(TitleOf(s), Paragraph, after) \o WriteAll(s.body, before, Kept), Main, e,
                  Memo(x, Line, r, i),
                  Memo(x \o (HeadOf(s) \o FieldTexts(s.body, Main, Data(e))), Line, r, i))
         /\ IsChain(HeadOf(s) \o FieldTexts(s.body, Main, Data(e)))
<1> DEFINE head == HeadOf(s)
           told == FieldTexts(s.body, Main, Data(e))
<1>1. TitleOf(s).required = TRUE /\ TitleOf(s).says = s.title /\ Asked(TitleOf(s), Main, e)
  BY DEF TitleOf, Asked
<1>2. Lone(s.title) = head
  BY DEF Lone, HeadOf
<1>3. Leads(Write(TitleOf(s), Paragraph, after), Main, e, Memo(x, Line, r, i), Memo(x \o head, Line, r, i))
      /\ IsChain(head)
  <2> DEFINE title == TitleOf(s)
  <2>1. title.required \in BOOLEAN /\ title.says = s.title /\ Asked(title, Main, e)
    BY <1>1
  <2> HIDE DEF title, head
  <2>2. /\ Leads(Write(title, Paragraph, after), Main, e, Memo(x, Line, r, i),
                 Memo(x \o (IF Asked(title, Main, e) THEN Lone(title.says) ELSE <<>>), Line, r, i))
        /\ IsChain(Lone(title.says))
    BY <2>1, LeadsLone
  <2> QED BY <1>2, <2>1, <2>2 DEF title
<1>4. FieldsOf(e, Main) = Data(e)
  BY DEF FieldsOf
<1> HIDE DEF head
<1>5. IsChain(x \o head)
  BY <1>3, Joined
<1>6. Used(Memo(x \o head, Line, r, i), before) = Line
  BY MemoParts DEF Used
<1>7. \A k \in 1 .. Len(s.body) : Speaks(s.body[k], Main)
  BY DEF Speaks
<1>8. /\ Leads(WriteAll(s.body, before, Kept), Main, e, Memo(x \o head, Line, r, i),
                Memo((x \o head) \o told, Line, r, i))
      /\ IsChain(told)
  BY <1>4, <1>5, <1>6, <1>7, LeadsFields
<1> HIDE DEF told
<1>9. (x \o head) \o told = x \o (head \o told) /\ IsChain(head \o told)
  BY <1>3, <1>8, Regrouped, Joined
<1> QED BY <1>3, <1>8, <1>9, LeadsJoin DEF head, told

\* A section that knows what is asked for.
Sectioned(s) ==
    s.over = Empty /\ IsChain(s.body) /\ \A k \in 1 .. Len(s.body) : s.body[k].required \in BOOLEAN

\* The text of a section is a sequence.
LEMMA SectionTextIs ==
  ASSUME NEW s, NEW e, NEW parting, Sectioned(s)
  PROVE  /\ SectionText(s, e, parting) = IF s.checks = {} \/ s.checks \cap Data(e) # {}
                                          THEN HeadOf(s) \o FieldTexts(s.body, Main, Data(e)) ELSE <<>>
         /\ IsChain(SectionText(s, e, parting))
<1>1. SectionText(s, e, parting) = IF s.checks = {} \/ s.checks \cap Data(e) # {}
                                    THEN HeadOf(s) \o FieldTexts(s.body, Main, Data(e)) ELSE <<>>
  BY DEF SectionText, Sectioned
<1>2. IsChain(HeadOf(s) \o FieldTexts(s.body, Main, Data(e)))
  BY EmptyIsChain, LeadsBody DEF Sectioned
<1> QED BY <1>1, <1>2, EmptyIsChain

\* A section is told whole or, by its Choice, not at all.
LEMMA LeadsSection ==
  ASSUME NEW s, NEW e, Sectioned(s), NEW x, NEW r, NEW i, IsChain(x)
  PROVE  Leads(RenderSection(s), Main, e, Memo(x, Line, r, i),
               Memo(x \o SectionText(s, e, Paragraph), Line, r, i))
<1> DEFINE body == Write(TitleOf(s), Paragraph, Line) \o WriteAll(s.body, Kept, Kept)
           whole == HeadOf(s) \o FieldTexts(s.body, Main, Data(e))
           p == Memo(x, Line, r, i)
           q == Memo(x \o whole, Line, r, i)
<1>1. Leads(body, Main, e, p, q)
  BY LeadsBody DEF Sectioned
<1>2. RenderSection(s) = IF s.checks = {} THEN body ELSE <<CheckState(s.checks, Len(body))>> \o body
  BY DEF RenderSection
<1>3. SectionText(s, e, Paragraph) =
        IF s.checks = {} \/ s.checks \cap Data(e) # {} THEN whole ELSE <<>>
  BY SectionTextIs
<1> HIDE DEF body, whole
<1>4. Leads(<<CheckState(s.checks, Len(body))>> \o body, Main, e, p,
            IF s.checks \cap Data(e) # {} THEN q ELSE p)
  BY <1>1, LeadsCheck DEF FieldsOf
<1>5. p = Memo(x \o <<>>, Line, r, i)
  BY EmptyAdds
<1> QED BY <1>1, <1>2, <1>3, <1>4, <1>5

\* So is a section that is written by hand.
LEMMA LeadsPlain ==
  ASSUME NEW s, NEW e, Sectioned(s), s.checks # {}, NEW x, NEW r, NEW i, IsChain(x)
  PROVE  Leads(PlainSection(s), Main, e, Memo(x, Line, r, i),
               Memo(x \o SectionText(s, e, Paragraph), Line, r, i))
<1> DEFINE body == Write(TitleOf(s), Paragraph, Kept) \o WriteAll(s.body, Line, Kept)
           whole == HeadOf(s) \o FieldTexts(s.body, Main, Data(e))
           p == Memo(x, Line, r, i)
           q == Memo(x \o whole, Line, r, i)
<1>1. Leads(body, Main, e, p, q)
  BY LeadsBody DEF Sectioned
<1>2. PlainSection(s) = <<CheckState(s.checks, Len(body))>> \o body
  BY DEF PlainSection
<1>3. SectionText(s, e, Paragraph) = IF s.checks \cap Data(e) # {} THEN whole ELSE <<>>
  BY SectionTextIs
<1> HIDE DEF body, whole
<1>4. Leads(<<CheckState(s.checks, Len(body))>> \o body, Main, e, p,
            IF s.checks \cap Data(e) # {} THEN q ELSE p)
  BY <1>1, LeadsCheck DEF FieldsOf
<1>5. p = Memo(x \o <<>>, Line, r, i)
  BY EmptyAdds
<1> QED BY <1>2, <1>3, <1>4, <1>5

-----------------------------------------------------------------------------
(***************************************************************************)
(* Loops that are written by hand.                                         *)
(***************************************************************************)

\* A loop that is written by hand tells each element of its collection.
LEMMA LeadsLoop ==
  ASSUME NEW title, NEW collection, NEW field, NEW e, collection # Empty, IsChain(e.items),
         collection \in Data(e) <=> collection \in e.present,
         NEW x, NEW r, NEW i, IsChain(x)
  PROVE  /\ \E recs, place : Leads(Loop(title, collection, field), Main, e, Memo(x, Line, r, i),
                                   Memo(x \o LoopText(title, collection, field, e), Line, recs, place))
         /\ IsChain(LoopText(title, collection, field, e))
<1>0. PICK body : LoopStates(body, title, collection, field)
  BY LoopIs
<1>10. /\ Loop(title, collection, field) = <<CheckState({collection}, Len(body))>> \o body
       /\ IsChain(body) /\ Len(body) = 5
       /\ body[1] = AddState([says |-> title, reads |-> {}], Paragraph, Kept)
       /\ body[2] = [do |-> "initialize", over |-> collection, field |-> field]
       /\ body[3] = WhileState(2)
       /\ body[4] = [do |-> "record", before |-> Line, after |-> Kept]
       /\ body[5] = [do |-> "step", back |-> 3]
  BY <1>0 DEF LoopStates
<1> DEFINE n == Len(e.items)
           recs == [k \in DOMAIN e.items |-> <<<<field, k>>>>]
           told == [k \in DOMAIN e.items |-> PartOf(Line, <<<<field, k>>>>)]
           tok == <<<<title, Main>>>>
           head == <<Paragraph>> \o tok
           p == Memo(x, Line, r, i)
<1>1. n \in Nat /\ DOMAIN e.items = 1 .. n
  BY ChainFun
<1>2. LoopText(title, collection, field, e) =
        IF collection \notin e.present THEN <<>> ELSE head \o FlattenSeq(told)
  BY DEF LoopText, HeadOf, Section, PartOf
<1>3. /\ \A k \in 1 .. n : recs[k] = <<<<field, k>>>> /\ told[k] = <<Line>> \o recs[k]
      /\ recs = [k \in 1 .. n |-> recs[k]] /\ told = [k \in 1 .. n |-> told[k]]
  BY <1>1 DEF PartOf
<1>4. IsChain(<<Line>>) /\ \A k \in 1 .. n : IsChain(recs[k])
  BY <1>3, OneState
<1> HIDE DEF recs, told
<1>5. IsChain(recs) /\ Len(recs) = n /\ IsChain(told) /\ Len(told) = n
  BY <1>1, <1>3, FunChain
<1>6. ASSUME NEW k \in 1 .. n PROVE IsChain(told[k])
  <2> DEFINE b == recs[k]
  <2>1. told[k] = <<Line>> \o b /\ IsChain(b)
    BY <1>3, <1>4
  <2> HIDE DEF b
  <2>2. IsChain(<<Line>> \o b)
    BY <1>4, <2>1, Joined
  <2> QED BY <2>1, <2>2
<1>7. PICK f : /\ f[0] = <<>>
               /\ \A k \in 1 .. n : f[k] = f[k - 1] \o told[k]
               /\ \A k \in 0 .. n : IsChain(f[k])
               /\ f[n] = FlattenSeq(told)
  BY <1>5, <1>6, FlattenSteps
<1>8. IsChain(<<Paragraph>>) /\ IsChain(tok) /\ IsChain(head)
  BY OneState, Joined
<1>9. (x \o <<Paragraph>>) \o tok = x \o head
  BY <1>8, Regrouped
<1> DEFINE X == x \o head
           L(j) == Memo(X \o f[j], Line, recs, j)
           end == Memo(X \o f[n], Line, recs, n)
<1> DEFINE A == [k \in 1 .. 6 |->
                    CASE k = 1 -> {p}
                      [] k = 2 -> {Memo(X, Line, r, i)}
                      [] k = 3 -> {L(j) : j \in 0 .. n}
                      [] k = 4 -> {L(j) : j \in {h \in 0 .. n : h < n}}
                      [] k = 5 -> {Memo(X \o f[j + 1], Line, recs, j) : j \in {h \in 0 .. n : h < n}}
                      [] k = 6 -> {end}]
<1>11. IsChain(X)
  BY <1>8, Joined
<1> HIDE DEF head
<1>12. ASSUME NEW m \in A[1], NEW jump, NEW o, Moves(body[1], Main, e, m, jump, o)
       PROVE  jump = 1 /\ o \in A[2]
  <2>1. m = p
    OBVIOUS
  <2>2. jump = 1 /\ o = Extended(p, Paragraph, tok, Kept)
    BY <1>10, <1>12, <2>1 DEF Moves, Passes, AddState, Token
  <2>3. o = Memo((x \o <<Paragraph>>) \o tok, Line, r, i)
    BY <2>2, Delimiters, MemoParts DEF Extended, Used
  <2>4. A[2] = {Memo(X, Line, r, i)}
    OBVIOUS
  <2> HIDE DEF A
  <2> QED BY <1>9, <2>2, <2>3, <2>4
<1>13. ASSUME NEW m \in A[2], NEW jump, NEW o, Moves(body[2], Main, e, m, jump, o)
       PROVE  jump = 1 /\ o \in A[3]
  <2>1. m = Memo(X, Line, r, i)
    OBVIOUS
  <2>2. jump = 1 /\ o = Memo(m.text, m.delimiter, recs, 0)
    BY <1>10, <1>13 DEF Moves, Passes, recs
  <2>3. o = Memo(X, Line, recs, 0)
    BY <2>1, <2>2, MemoParts
  <2>4. X \o f[0] = X
    BY <1>7, <1>11, EmptyAdds
  <2>5. 0 \in 0 .. n
    BY <1>1
  <2> HIDE DEF X
  <2>6. o = L(0)
    BY <2>3, <2>4
  <2>7. A[3] = {L(j) : j \in 0 .. n}
    OBVIOUS
  <2> QED BY <2>2, <2>5, <2>6, <2>7
<1> HIDE DEF X
<1>14. ASSUME NEW m \in A[3], NEW jump, NEW o, Moves(body[3], Main, e, m, jump, o)
       PROVE  jump \in {1, 3} /\ o \in A[3 + jump]
  <2>1. PICK j \in 0 .. n : m = L(j)
    OBVIOUS
  <2>2. o = m /\ jump = IF m.index < Len(m.records) THEN 1 ELSE 1 + 2
    BY <1>10, <1>14 DEF Moves, Passes, WhileState
  <2>3. m.index = j /\ Len(m.records) = n
    BY <1>5, <2>1, MemoParts
  <2>4. A[4] = {L(h) : h \in {h \in 0 .. n : h < n}} /\ A[6] = {L(n)}
    OBVIOUS
  <2>5. CASE j < n
    <3>1. m \in {L(h) : h \in {h \in 0 .. n : h < n}}
      BY <2>1, <2>5
    <3> HIDE DEF A
    <3> QED BY <2>2, <2>3, <2>4, <2>5, <3>1
  <2>6. CASE ~(j < n)
    <3>1. j = n
      BY <1>1, <2>6
    <3> HIDE DEF A
    <3> QED BY <2>1, <2>2, <2>3, <2>4, <2>6, <3>1
  <2> QED BY <2>5, <2>6
<1>15. ASSUME NEW m \in A[4], NEW jump, NEW o, Moves(body[4], Main, e, m, jump, o)
       PROVE  jump = 1 /\ o \in A[5]
  <2>1. PICK j \in {h \in 0 .. n : h < n} : m = L(j)
    OBVIOUS
  <2>2. jump = 1 /\ o = Extended(m, Line, m.records[m.index + 1], Kept)
    BY <1>10, <1>15 DEF Moves, Passes
  <2>3. j + 1 \in 1 .. n /\ j \in 0 .. n /\ (j + 1) - 1 = j
    BY <1>1
  <2>4. f[j + 1] = f[j] \o told[j + 1] /\ told[j + 1] = <<Line>> \o recs[j + 1]
    BY <1>3, <1>7, <2>3
  <2>5. o = Memo(((X \o f[j]) \o <<Line>>) \o recs[j + 1], Line, recs, j)
    BY <2>1, <2>2, Delimiters, MemoParts DEF Extended, Used
  <2> DEFINE a == f[j]
             b == recs[j + 1]
  <2>6. IsChain(a) /\ IsChain(b) /\ IsChain(<<Line>>)
    BY <1>4, <1>7, <2>3
  <2> HIDE DEF a, b
  <2>7. IsChain(X \o a) /\ IsChain(<<Line>> \o b)
    BY <1>11, <2>6, Joined
  <2>8. ((X \o a) \o <<Line>>) \o b = (X \o a) \o (<<Line>> \o b)
    BY <2>6, <2>7, Regrouped
  <2>9. (X \o a) \o (<<Line>> \o b) = X \o (a \o (<<Line>> \o b))
    BY <1>11, <2>6, <2>7, Regrouped
  <2>10. o = Memo(X \o f[j + 1], Line, recs, j)
    BY <2>4, <2>5, <2>8, <2>9 DEF a, b
  <2>11. A[5] = {Memo(X \o f[h + 1], Line, recs, h) : h \in {h \in 0 .. n : h < n}}
    OBVIOUS
  <2> HIDE DEF A
  <2> QED BY <2>2, <2>10, <2>11
<1>16. ASSUME NEW m \in A[5], NEW jump, NEW o, Moves(body[5], Main, e, m, jump, o)
       PROVE  jump = 1 - 3 /\ o \in A[3]
  <2>1. PICK j \in {h \in 0 .. n : h < n} : m = Memo(X \o f[j + 1], Line, recs, j)
    OBVIOUS
  <2>2. jump = 1 - 3 /\ o = Memo(m.text, m.delimiter, m.records, m.index + 1)
    BY <1>10, <1>16 DEF Moves, Passes
  <2>3. o = L(j + 1)
    BY <2>1, <2>2, MemoParts
  <2>4. j + 1 \in 0 .. n
    BY <1>1
  <2>5. A[3] = {L(h) : h \in 0 .. n}
    OBVIOUS
  <2> HIDE DEF A
  <2> QED BY <2>2, <2>3, <2>4, <2>5
<1>17. p \in A[1] /\ A[6] = {end}
  OBVIOUS
<1> HIDE DEF A
<1>18. Walks(A, body, Main, e)
  <2> SUFFICES ASSUME NEW k \in 1 .. Len(body), NEW m \in A[k], NEW jump, NEW o,
                      Moves(body[k], Main, e, m, jump, o)
               PROVE  jump \in Int /\ k + jump \in 1 .. Len(body) + 1 /\ o \in A[k + jump]
    BY DEF Walks
  <2>1. k \in {1, 2, 3, 4, 5} /\ Len(body) = 5
    BY <1>10
  <2>2. CASE k = 1
    BY <1>12, <2>1, <2>2
  <2>3. CASE k = 2
    BY <1>13, <2>1, <2>3
  <2>4. CASE k = 3
    <3>1. jump \in {1, 3} /\ o \in A[3 + jump]
      BY <1>14, <2>4
    <3> QED BY <2>1, <2>4, <3>1
  <2>5. CASE k = 4
    BY <1>15, <2>1, <2>5
  <2>6. CASE k = 5
    <3>1. jump = 1 - 3 /\ o \in A[3]
      BY <1>16, <2>6
    <3>2. jump \in Int /\ 5 + jump = 3
      BY <3>1
    <3> QED BY <2>1, <2>6, <3>1, <3>2
  <2> QED BY <2>1, <2>2, <2>3, <2>4, <2>5, <2>6
<1>19. \A k \in 1 .. Len(body) : body[k].do # "output"
  <2> SUFFICES ASSUME NEW k \in 1 .. Len(body) PROVE body[k].do # "output"
    OBVIOUS
  <2>1. k \in {1, 2, 3, 4, 5}
    BY <1>10
  <2>2. body[1].do = "add" /\ body[3].do = "while"
    BY <1>10 DEF AddState, WhileState
  <2>3. body[2].do = "initialize" /\ body[4].do = "record" /\ body[5].do = "step"
    BY <1>10
  <2> QED BY <2>1, <2>2, <2>3
<1>20. Leads(body, Main, e, p, end)
  <2>1. A[Len(body) + 1] = {end}
    BY <1>10, <1>17
  <2> QED BY <1>10, <1>17, <1>18, <1>19, <2>1 DEF Leads
<1> HIDE DEF end
<1>21. Leads(Loop(title, collection, field), Main, e, p,
             IF {collection} \cap FieldsOf(e, Main) # {} THEN end ELSE p)
  <2> HIDE DEF p
  <2> DEFINE fields == {collection}
  <2> HIDE DEF fields
  <2>1. Leads(<<CheckState(fields, Len(body))>> \o body, Main, e, p,
              IF fields \cap FieldsOf(e, Main) # {} THEN end ELSE p)
    BY <1>20, LeadsCheck
  <2> QED BY <1>10, <2>1 DEF fields
<1>22. {collection} \cap FieldsOf(e, Main) # {} <=> collection \in e.present
  BY DEF FieldsOf
<1>23. CASE collection \in e.present
  <2>1. n \in 0 .. n
    BY <1>1
  <2>2. IsChain(f[n])
    BY <1>7, <2>1
  <2>3. LoopText(title, collection, field, e) = head \o f[n]
    BY <1>2, <1>7, <1>23
  <2>4. IsChain(head \o f[n])
    BY <1>8, <2>2, Joined
  <2>5. (x \o head) \o f[n] = x \o (head \o f[n])
    <3> DEFINE a == f[n]
    <3>1. IsChain(a)
      BY <2>2
    <3> HIDE DEF a
    <3>2. (x \o head) \o a = x \o (head \o a)
      BY <1>8, <3>1, Regrouped
    <3> QED BY <3>2 DEF a
  <2>6. end = Memo(x \o LoopText(title, collection, field, e), Line, recs, n)
    BY <2>3, <2>5 DEF end, X
  <2> QED BY <1>21, <1>22, <1>23, <2>3, <2>4, <2>6
<1>24. CASE collection \notin e.present
  <2>1. LoopText(title, collection, field, e) = <<>>
    BY <1>2, <1>24
  <2>2. p = Memo(x \o <<>>, Line, r, i)
    BY EmptyAdds
  <2> QED BY <1>21, <1>22, <1>24, <2>1, <2>2, EmptyIsChain
<1> QED BY <1>23, <1>24

-----------------------------------------------------------------------------
(***************************************************************************)
(* Iterators: the chain of an iteration, and what a Map makes of them.     *)
(***************************************************************************)

\* All but the first element of a sequence that is put together.
LEMMA TailOfJoined ==
  ASSUME NEW a, NEW b, IsChain(a), IsChain(b), a # <<>>
  PROVE  /\ Tail(a \o b) = Tail(a) \o b /\ a \o b # <<>> /\ IsChain(Tail(a))
<1>1. PICK S, T : a \in Seq(S) /\ b \in Seq(T)
  BY DEF IsChain
<1> DEFINE V == S \cup T
<1>2. a \in Seq(V) /\ b \in Seq(V)
  BY <1>1
<1> HIDE DEF V
<1>3. Len(a) # 0
  BY <1>2
<1>4. Tail(a) \in Seq(V) /\ Len(Tail(a)) = Len(a) - 1
  BY <1>2
<1>5. a \o b \in Seq(V) /\ Len(a \o b) = Len(a) + Len(b)
  BY <1>2
<1>6. a \o b # <<>>
  BY <1>2, <1>3, <1>5
<1>7. Tail(a \o b) \in Seq(V) /\ Len(Tail(a \o b)) = Len(a) + Len(b) - 1
  BY <1>5, <1>6, <1>3, <1>2
<1>8. Tail(a) \o b \in Seq(V) /\ Len(Tail(a) \o b) = Len(a) - 1 + Len(b)
  BY <1>2, <1>4
<1>9. ASSUME NEW k \in 1 .. Len(a) + Len(b) - 1
      PROVE  Tail(a \o b)[k] = (Tail(a) \o b)[k]
  <2>1. Tail(a \o b)[k] = (a \o b)[k + 1]
    BY <1>2, <1>3, <1>5, <1>6
  <2>2. (a \o b)[k + 1] = IF k + 1 <= Len(a) THEN a[k + 1] ELSE b[(k + 1) - Len(a)]
    BY <1>2, <1>3
  <2>3. (Tail(a) \o b)[k] = IF k <= Len(Tail(a)) THEN Tail(a)[k] ELSE b[k - Len(Tail(a))]
    BY <1>2, <1>3, <1>4
  <2>4. k <= Len(Tail(a)) => Tail(a)[k] = a[k + 1]
    BY <1>2, <1>3, <1>4
  <2> QED BY <1>2, <1>3, <1>4, <2>1, <2>2, <2>3, <2>4
<1>10. Tail(a \o b) = Tail(a) \o b
  BY <1>2, <1>7, <1>8, <1>9, SeqEqual
<1> QED BY <1>4, <1>6, <1>10 DEF IsChain

\* What is behind the first token.
LEMMA TailOfTwo ==
  ASSUME NEW a, NEW b, IsChain(b)
  PROVE  Tail(<<a>> \o b) = b /\ <<a>> \o b # <<>>
<1> DEFINE z == <<a>>
<1>1. IsChain(z) /\ z # <<>> /\ Tail(z) = <<>>
  <2>1. <<a>> \in Seq({a})
    OBVIOUS
  <2>2. Len(Tail(<<a>>)) = 0 /\ Tail(<<a>>) \in Seq({a})
    BY <2>1
  <2> QED BY <2>1, <2>2, OneState
<1> HIDE DEF z
<1>2. Tail(z \o b) = Tail(z) \o b /\ z \o b # <<>>
  BY <1>1, TailOfJoined
<1> QED BY <1>1, <1>2, EmptyAdds DEF z

\* What an iteration has written when it has told this of its element: the first
\* field comes without a delimiter.
IterationMemo(told) ==
    IF told = <<>> THEN Fresh(Empty) ELSE Memo(Tail(told), Line, <<>>, 0)

\* A field of an element is told behind what the iteration has told.
LEMMA LeadsItemField ==
  ASSUME NEW component, NEW t, NEW e, t # Main, Speaks(component, t), NEW y, IsChain(y)
  PROVE  Leads(Write(component, Kept, Line), t, e, IterationMemo(y),
               IterationMemo(y \o FieldText(component, t, FieldsOf(e, t))))
<1> DEFINE m == IterationMemo(y)
           tok == Token(component, t)
           said == FieldText(component, t, FieldsOf(e, t))
           hit == Asked(component, t, e)
           line == <<Line>>
<1>1. Leads(Write(component, Kept, Line), t, e, m, IF hit THEN Extended(m, Kept, tok, Line) ELSE m)
  BY LeadsWrite DEF Speaks
<1>2. /\ said = IF hit THEN line \o tok ELSE <<>>
      /\ IsChain(tok) /\ IsChain(line) /\ IsChain(said)
  BY FieldIs
<1>3. Tail(line \o tok) = tok /\ line \o tok # <<>>
  BY <1>2, TailOfTwo
<1> HIDE DEF tok, said, hit
<1>4. CASE ~hit
  <2>1. y \o said = y
    BY <1>2, <1>4, EmptyAdds
  <2> QED BY <1>1, <1>4, <2>1 DEF said
<1>5. CASE hit /\ y = <<>>
  <2>1. m = Memo(<<>>, Empty, <<>>, 0)
    BY <1>5 DEF IterationMemo, Fresh
  <2>2. Extended(m, Kept, tok, Line) = Memo((<<>> \o <<>>) \o tok, Line, <<>>, 0)
    <3>1. m.text = <<>> /\ m.delimiter = Empty /\ m.records = <<>> /\ m.index = 0
      BY <2>1, MemoParts
    <3> HIDE DEF m
    <3>2. Used(m, Kept) = Empty
      BY <3>1 DEF Used
    <3> QED BY <3>1, <3>2, Delimiters DEF Extended
  <2>3. (<<>> \o <<>>) \o tok = tok /\ y \o said = said
    BY <1>2, <1>5, EmptyAdds, EmptyIsChain
  <2> HIDE DEF line
  <2>4. IterationMemo(y \o said) = Memo(tok, Line, <<>>, 0)
    BY <1>2, <1>3, <1>5, <2>3 DEF IterationMemo
  <2> QED BY <1>1, <1>5, <2>2, <2>3, <2>4 DEF said
<1>6. CASE hit /\ y # <<>>
  <2>1. m = Memo(Tail(y), Line, <<>>, 0)
    BY <1>6 DEF IterationMemo
  <2>2. Extended(m, Kept, tok, Line) = Memo((Tail(y) \o line) \o tok, Line, <<>>, 0)
    BY <2>1, Delimiters, MemoParts DEF Extended, Used
  <2> HIDE DEF line
  <2>3. Tail(y \o said) = Tail(y) \o said /\ y \o said # <<>> /\ IsChain(Tail(y))
    BY <1>2, <1>6, TailOfJoined
  <2>4. (Tail(y) \o line) \o tok = Tail(y) \o (line \o tok)
    <3> DEFINE a == Tail(y)
    <3>1. IsChain(a)
      BY <2>3
    <3> HIDE DEF a
    <3>2. (a \o line) \o tok = a \o (line \o tok)
      BY <1>2, <3>1, Regrouped
    <3> QED BY <3>2 DEF a
  <2>5. IterationMemo(y \o said) = Memo((Tail(y) \o line) \o tok, Line, <<>>, 0)
    BY <1>2, <1>6, <2>3, <2>4 DEF IterationMemo
  <2> QED BY <1>1, <1>6, <2>2, <2>5 DEF said
<1> QED BY <1>4, <1>5, <1>6

\* An iteration tells all fields that its element has.
LEMMA LeadsItem ==
  ASSUME NEW body, NEW t, NEW e, t # Main, IsChain(body),
         \A k \in 1 .. Len(body) : Speaks(body[k], t)
  PROVE  /\ Leads(WriteAll(body, Kept, Line), t, e, Fresh(Empty),
                  IterationMemo(FieldTexts(body, t, FieldsOf(e, t))))
         /\ IsChain(FieldTexts(body, t, FieldsOf(e, t)))
<1> DEFINE n == Len(body)
           has == FieldsOf(e, t)
           chains == [k \in DOMAIN body |-> Write(body[k], Kept, Line)]
           told == [k \in DOMAIN body |-> FieldText(body[k], t, has)]
<1>1. n \in Nat /\ DOMAIN body = 1 .. n
  BY ChainFun
<1>2. /\ chains = [k \in 1 .. n |-> chains[k]]
      /\ told = [k \in 1 .. n |-> told[k]]
      /\ \A k \in 1 .. n : /\ chains[k] = Write(body[k], Kept, Line)
                           /\ told[k] = FieldText(body[k], t, has)
  BY <1>1
<1>3. WriteAll(body, Kept, Line) = FlattenSeq(chains) /\ FieldTexts(body, t, has) = FlattenSeq(told)
  BY DEF WriteAll, FieldTexts
<1>4. \A k \in 1 .. n : IsChain(FieldText(body[k], t, has))
  BY FieldIs
<1> HIDE DEF chains, told
<1>5. IsChain(chains) /\ Len(chains) = n /\ IsChain(told) /\ Len(told) = n
  BY <1>1, <1>2, FunChain
<1>6. PICK f : /\ f[0] = <<>>
               /\ \A k \in 1 .. n : f[k] = f[k - 1] \o told[k]
               /\ \A k \in 0 .. n : IsChain(f[k])
               /\ f[n] = FlattenSeq(told)
  BY <1>2, <1>4, <1>5, FlattenSteps
<1> DEFINE g == [k \in 0 .. n |-> IterationMemo(f[k])]
<1>7. ASSUME NEW k \in 1 .. n PROVE Leads(chains[k], t, e, g[k - 1], g[k])
  <2>1. k - 1 \in 0 .. n /\ k \in 0 .. n
    BY <1>1
  <2>2. IsChain(f[k - 1]) /\ f[k] = f[k - 1] \o told[k]
    BY <1>6, <2>1
  <2>3. g[k - 1] = IterationMemo(f[k - 1]) /\ g[k] = IterationMemo(f[k - 1] \o told[k])
    BY <2>1, <2>2
  <2> HIDE DEF g
  <2>4. Leads(Write(body[k], Kept, Line), t, e, IterationMemo(f[k - 1]),
              IterationMemo(f[k - 1] \o FieldText(body[k], t, has)))
    BY <2>2, LeadsItemField
  <2> QED BY <1>2, <2>3, <2>4
<1>8. g[0] = Fresh(Empty) /\ g[n] = IterationMemo(FlattenSeq(told))
  <2>1. g[0] = IterationMemo(f[0]) /\ g[n] = IterationMemo(f[n])
    BY <1>1
  <2> HIDE DEF g
  <2> QED BY <1>6, <2>1 DEF IterationMemo
<1> HIDE DEF g
<1>9. Leads(FlattenSeq(chains), t, e, g[0], g[n])
  BY <1>5, <1>7, LeadsAll
<1>10. IsChain(FlattenSeq(told))
  <2>1. n \in 0 .. n
    BY <1>1
  <2> QED BY <1>6, <2>1
<1> QED BY <1>3, <1>8, <1>9, <1>10

\* What an iteration tells of its element.
ItemText(body, t, e) ==
    LET told == FieldTexts(body, t, FieldsOf(e, t)) IN IF told = <<>> THEN <<>> ELSE Tail(told)

\* Whatever an iteration can end with is that.
LEMMA TellsItem ==
  ASSUME NEW body, NEW t, NEW e, t # Main, IsChain(body),
         \A k \in 1 .. Len(body) : Speaks(body[k], t),
         NEW words, Tells(WriteAll(body, Kept, Line), t, e, words)
  PROVE  words = ItemText(body, t, e)
<1> DEFINE c == WriteAll(body, Kept, Line)
           told == FieldTexts(body, t, FieldsOf(e, t))
           q == IterationMemo(told)
<1>1. Leads(c, t, e, Fresh(Empty), q)
  BY LeadsItem
<1>2. PICK A : Walks(A, c, t, e) /\ Fresh(Empty) \in A[1] /\ A[Len(c) + 1] \subseteq {q}
  BY <1>1 DEF Leads
<1>3. Iterates(A, c, t, e)
  <2>1. \A k \in 1 .. Len(c) : \A m \in A[k] : \A jump, n :
            Passes(c[k], t, e, m, jump, n) => n \in A[k + jump]
    BY <1>2 DEF Walks, Moves
  <2> QED BY <1>2, <2>1 DEF Iterates
<1>4. PICK delim : Memo(words, delim, <<>>, 0) \in A[Len(c) + 1]
  BY <1>3 DEF Tells
<1>5. Memo(words, delim, <<>>, 0) = q
  BY <1>2, <1>4
<1>6. words = q.text
  BY <1>5, MemoParts
<1>7. q.text = ItemText(body, t, e)
  BY MemoParts DEF IterationMemo, Fresh, ItemText
<1> QED BY <1>6, <1>7

\* The texts that tell something are some of the texts.
LEMMA TellingIs ==
  ASSUME NEW texts, IsChain(texts), \A k \in 1 .. Len(texts) : IsChain(texts[k])
  PROVE  /\ IsChain(Telling(texts))
         /\ \A k \in 1 .. Len(Telling(texts)) : IsChain(Telling(texts)[k])
<1> DEFINE n == Len(texts)
           ones == [t \in DOMAIN texts |-> IF texts[t] = <<>> THEN <<>> ELSE <<texts[t]>>]
<1>1. n \in Nat /\ DOMAIN texts = 1 .. n
  BY ChainFun
<1>2. /\ ones = [k \in 1 .. n |-> ones[k]]
      /\ \A k \in 1 .. n : ones[k] = IF texts[k] = <<>> THEN <<>> ELSE <<texts[k]>>
  BY <1>1
<1>3. Telling(texts) = FlattenSeq(ones)
  BY DEF Telling
<1> HIDE DEF ones
<1>4. IsChain(ones) /\ Len(ones) = n
  BY <1>1, <1>2, FunChain
<1>5. ASSUME NEW k \in 1 .. n
      PROVE  IsChain(ones[k]) /\ \A j \in 1 .. Len(ones[k]) : IsChain(ones[k][j])
  <2>1. CASE texts[k] = <<>>
    <3>1. ones[k] = <<>>
      BY <1>2, <2>1
    <3> QED BY <3>1, EmptyIsChain
  <2>2. CASE texts[k] # <<>>
    <3> DEFINE a == texts[k]
    <3>1. ones[k] = <<a>> /\ IsChain(a)
      BY <1>2, <2>2
    <3> HIDE DEF a
    <3>2. IsChain(<<a>>) /\ Len(<<a>>) = 1 /\ <<a>>[1] = a
      BY OneState
    <3>3. \A j \in 1 .. 1 : <<a>>[j] = a
      BY <3>2
    <3> QED BY <3>1, <3>2, <3>3
  <2> QED BY <2>1, <2>2
<1>6. PICK f : /\ f[0] = <<>>
               /\ \A k \in 1 .. n : f[k] = f[k - 1] \o ones[k]
               /\ \A k \in 0 .. n : IsChain(f[k])
               /\ f[n] = FlattenSeq(ones)
  BY <1>4, <1>5, FlattenSteps
<1> DEFINE S == {k \in Nat : k \in 0 .. n => \A j \in 1 .. Len(f[k]) : IsChain(f[k][j])}
<1>7. 0 \in S
  BY <1>6, EmptyIsChain
<1>8. ASSUME NEW k \in Nat, k \in S PROVE k + 1 \in S
  <2> SUFFICES ASSUME k + 1 \in 0 .. n, NEW j \in 1 .. Len(f[k + 1]) PROVE IsChain(f[k + 1][j])
    OBVIOUS
  <2> DEFINE a == f[k]
             b == ones[k + 1]
  <2>1. k + 1 \in 1 .. n /\ (k + 1) - 1 = k /\ k \in 0 .. n
    BY <1>1
  <2>2. f[k + 1] = a \o b /\ IsChain(a) /\ IsChain(b)
    BY <1>5, <1>6, <2>1
  <2>3. /\ \A h \in 1 .. Len(a) : IsChain(a[h])
        /\ \A h \in 1 .. Len(b) : IsChain(b[h])
    BY <1>5, <1>8, <2>1
  <2> HIDE DEF a, b
  <2>4. /\ \A h \in 1 .. Len(a) : (a \o b)[h] = a[h]
        /\ \A h \in 1 .. Len(b) : (a \o b)[Len(a) + h] = b[h]
        /\ \A h \in 1 .. Len(a \o b) :
              \/ h \in 1 .. Len(a)
              \/ h - Len(a) \in 1 .. Len(b) /\ h = Len(a) + (h - Len(a))
    BY <2>2, Joined
  <2>5. CASE j \in 1 .. Len(a)
    BY <2>2, <2>3, <2>4, <2>5
  <2>6. CASE j - Len(a) \in 1 .. Len(b) /\ j = Len(a) + (j - Len(a))
    <3>1. (a \o b)[Len(a) + (j - Len(a))] = b[j - Len(a)]
      BY <2>4, <2>6
    <3> QED BY <2>2, <2>3, <2>6, <3>1
  <2> QED BY <2>2, <2>4, <2>5, <2>6
<1>9. n \in S
  <2> HIDE DEF S
  <2> QED BY <1>1, <1>7, <1>8, NatSetInduction
<1>10. n \in 0 .. n
  BY <1>1
<1> QED BY <1>3, <1>6, <1>9, <1>10

\* The text of an iterator: its title and the first of its records.
FirstText(s, e) ==
    LET told == RecordTexts(s, e) IN
    IF told = <<>> THEN <<>> ELSE (HeadOf(s) \o <<Line>>) \o told[1]

\* The fields of an element are optional.
Itemized(s) ==
    /\ s.over # Empty /\ IsChain(s.body)
    /\ \A k \in 1 .. Len(s.body) : s.body[k].required \in BOOLEAN /\ s.body[k].reads # {}

\* The records are the texts of the elements that tell something.
LEMMA RecordsAre ==
  ASSUME NEW s, NEW e, Itemized(s), IsChain(e.items)
  PROVE  /\ RecordTexts(s, e) = Telling([t \in DOMAIN e.items |-> ItemText(s.body, t, e)])
         /\ IsChain(RecordTexts(s, e))
         /\ \A k \in 1 .. Len(RecordTexts(s, e)) : IsChain(RecordTexts(s, e)[k])
<1> DEFINE texts == [t \in DOMAIN e.items |-> ItemText(s.body, t, e)]
           n == Len(e.items)
<1>1. n \in Nat /\ DOMAIN e.items = 1 .. n
  BY ChainFun
<1>2. \A t \in 1 .. n : t # Main /\ FieldsOf(e, t) = e.items[t]
  BY <1>1 DEF Main, FieldsOf
<1>3. RecordTexts(s, e) = Telling(texts)
  <2>1. \A t \in DOMAIN e.items :
            ItemText(s.body, t, e) = LET told == FieldTexts(s.body, t, e.items[t])
                                     IN  IF told = <<>> THEN <<>> ELSE Tail(told)
    BY <1>1, <1>2 DEF ItemText
  <2>2. texts = [t \in DOMAIN e.items |-> LET told == FieldTexts(s.body, t, e.items[t])
                                          IN  IF told = <<>> THEN <<>> ELSE Tail(told)]
    BY <2>1
  <2> QED BY <2>2 DEF RecordTexts
<1>4. ASSUME NEW t \in 1 .. n PROVE IsChain(ItemText(s.body, t, e))
  <2> DEFINE told == FieldTexts(s.body, t, FieldsOf(e, t))
  <2>1. t # Main /\ \A k \in 1 .. Len(s.body) : Speaks(s.body[k], t)
    BY <1>2 DEF Itemized, Speaks
  <2>2. IsChain(told)
    BY <2>1, LeadsItem DEF Itemized
  <2> HIDE DEF told
  <2>3. told # <<>> => IsChain(Tail(told))
    BY <2>2, EmptyIsChain, TailOfJoined
  <2>4. ItemText(s.body, t, e) = IF told = <<>> THEN <<>> ELSE Tail(told)
    BY DEF ItemText, told
  <2> QED BY <2>3, <2>4, EmptyIsChain
<1>5. /\ texts = [k \in 1 .. n |-> texts[k]]
      /\ \A k \in 1 .. n : texts[k] = ItemText(s.body, k, e)
  BY <1>1
<1> HIDE DEF texts
<1>6. IsChain(texts) /\ Len(texts) = n
  BY <1>1, <1>5, FunChain
<1> QED BY <1>3, <1>4, <1>5, <1>6, TellingIs DEF texts

\* An iterator leaves its loop after the first record.
LEMMA LeadsIterator ==
  ASSUME NEW s, NEW e, Itemized(s), IsChain(e.items), NEW x, NEW r, NEW i, IsChain(x)
  PROVE  /\ \E q : /\ Leads(RenderIterator(s), Main, e, Memo(x, Line, r, i), q)
                   /\ q.text = x \o FirstText(s, e)
         /\ IsChain(FirstText(s, e))
<1> DEFINE c == RenderIterator(s)
           told == RecordTexts(s, e)
           n == Len(told)
           tok == <<<<s.title, Main>>>>
           head == <<Paragraph>> \o tok
           X == x \o head
           words == (X \o <<Line>>) \o told[1]
           p == Memo(x, Line, r, i)
           q == IF n = 0 THEN Memo(x, Line, told, 0) ELSE Memo(words, Paragraph, told, 1)
           some == {o \in {1} : n # 0}
<1>1. /\ IsChain(c) /\ Len(c) = 8
      /\ c[1] = [do |-> "map", over |-> s.over, body |-> WriteAll(s.body, Kept, Line)]
      /\ c[2] = [do |-> "initialize", over |-> Empty, field |-> Empty]
      /\ c[3] = WhileState(5)
      /\ c[4] = [do |-> "delimiter", after |-> Paragraph]
      /\ c[5] = AddState(TitleOf(s), Kept, Line)
      /\ c[6] = WhileState(2)
      /\ c[7] = [do |-> "record", before |-> Kept, after |-> Paragraph]
      /\ c[8] = [do |-> "step", back |-> 0]
  BY IteratorIs DEF IteratorStates
<1>2. /\ told = Telling([t \in DOMAIN e.items |-> ItemText(s.body, t, e)])
      /\ IsChain(told) /\ n \in Nat /\ \A k \in 1 .. n : IsChain(told[k])
  BY RecordsAre, ChainFun
<1>3. n = 0 <=> told = <<>>
  BY <1>2 DEF IsChain
<1>4. ASSUME NEW m, NEW jump, NEW o, Moves(c[1], Main, e, m, jump, o)
      PROVE  jump = 1 /\ o = Memo(m.text, m.delimiter, told, m.index)
  <2>1. c[1].do = "map" /\ c[1].body = WriteAll(s.body, Kept, Line)
    BY <1>1
  <2>2. PICK f : /\ \A t \in DOMAIN e.items : Tells(WriteAll(s.body, Kept, Line), t, e, f[t])
                 /\ o = Memo(m.text, m.delimiter, Telling([t \in DOMAIN e.items |-> f[t]]), m.index)
    BY <1>4, <2>1 DEF Moves, Passes
  <2>3. ASSUME NEW t \in DOMAIN e.items PROVE f[t] = ItemText(s.body, t, e)
    <3>1. t # Main
      BY ChainFun DEF Main
    <3>2. \A k \in 1 .. Len(s.body) : Speaks(s.body[k], t)
      BY DEF Itemized, Speaks
    <3>3. Tells(WriteAll(s.body, Kept, Line), t, e, f[t])
      BY <2>2
    <3> QED BY <3>1, <3>2, <3>3, TellsItem DEF Itemized
  <2>4. [t \in DOMAIN e.items |-> f[t]] = [t \in DOMAIN e.items |-> ItemText(s.body, t, e)]
    BY <2>3
  <2>5. jump = 1
    BY <1>4, <2>1 DEF Moves, Passes
  <2> HIDE DEF told
  <2> QED BY <1>2, <2>2, <2>4, <2>5
<1> HIDE DEF c, told
<1>5. IsChain(<<Paragraph>>) /\ IsChain(tok) /\ IsChain(head) /\ IsChain(<<Line>>)
  BY OneState, Joined
<1>6. IsChain(X)
  BY <1>5, Joined
<1>7. (x \o <<Paragraph>>) \o tok = X
  BY <1>5, Regrouped
<1> DEFINE A == [k \in 1 .. 9 |->
                    CASE k = 1 -> {p}
                      [] k = 2 -> {Memo(x, Line, told, i)}
                      [] k = 3 -> {Memo(x, Line, told, 0)}
                      [] k = 4 -> {o \in {Memo(x, Line, told, 0)} : n # 0}
                      [] k = 5 -> {o \in {Memo(x, Paragraph, told, 0)} : n # 0}
                      [] k \in {6, 7} -> {o \in {Memo(X, Line, told, 0)} : n # 0}
                      [] k = 8 -> {o \in {Memo(words, Paragraph, told, 0)} : n # 0}
                      [] k = 9 -> {q}]
<1>8. /\ A[1] = {p} /\ A[2] = {Memo(x, Line, told, i)} /\ A[3] = {Memo(x, Line, told, 0)}
      /\ A[4] = {o \in {Memo(x, Line, told, 0)} : n # 0}
      /\ A[5] = {o \in {Memo(x, Paragraph, told, 0)} : n # 0}
      /\ A[6] = {o \in {Memo(X, Line, told, 0)} : n # 0}
      /\ A[7] = {o \in {Memo(X, Line, told, 0)} : n # 0}
      /\ A[8] = {o \in {Memo(words, Paragraph, told, 0)} : n # 0} /\ A[9] = {q}
  OBVIOUS
<1>9. /\ n = 0 => q = Memo(x, Line, told, 0)
      /\ n # 0 => q = Memo(words, Paragraph, told, 1)
  OBVIOUS
<1> HIDE DEF A, q
<1>10. ASSUME NEW m \in A[1], NEW jump, NEW o, Moves(c[1], Main, e, m, jump, o)
       PROVE  jump = 1 /\ o \in A[2]
  BY <1>4, <1>8, <1>10, MemoParts
<1>11. ASSUME NEW m \in A[2], NEW jump, NEW o, Moves(c[2], Main, e, m, jump, o)
       PROVE  jump = 1 /\ o \in A[3]
  <2>1. jump = 1 /\ o = Memo(m.text, m.delimiter, m.records, 0)
    BY <1>1, <1>11 DEF Moves, Passes
  <2> QED BY <1>8, <2>1, MemoParts
<1>12. ASSUME NEW m \in A[3], NEW jump, NEW o, Moves(c[3], Main, e, m, jump, o)
       PROVE  jump \in {1, 6} /\ o \in A[3 + jump]
  <2>1. o = m /\ jump = IF m.index < Len(m.records) THEN 1 ELSE 1 + 5
    BY <1>1, <1>12 DEF Moves, Passes, WhileState
  <2>2. m = Memo(x, Line, told, 0) /\ m.index = 0 /\ m.records = told
    BY <1>8, MemoParts
  <2>3. CASE n # 0
    <3>1. jump = 1
      BY <1>2, <2>1, <2>2, <2>3
    <3> QED BY <1>8, <2>1, <2>2, <2>3, <3>1
  <2>4. CASE n = 0
    <3>1. jump = 6
      BY <2>1, <2>2, <2>4
    <3> QED BY <1>8, <1>9, <2>1, <2>2, <2>4, <3>1
  <2> QED BY <2>3, <2>4
<1>13. ASSUME NEW m \in A[4], NEW jump, NEW o, Moves(c[4], Main, e, m, jump, o)
       PROVE  jump = 1 /\ o \in A[5]
  <2>1. jump = 1 /\ o = Memo(m.text, Paragraph, m.records, m.index)
    BY <1>1, <1>13 DEF Moves, Passes
  <2> QED BY <1>8, <2>1, MemoParts
<1>14. ASSUME NEW m \in A[5], NEW jump, NEW o, Moves(c[5], Main, e, m, jump, o)
       PROVE  jump = 1 /\ o \in A[6]
  <2>1. m = Memo(x, Paragraph, told, 0) /\ n # 0
    BY <1>8
  <2>2. jump = 1 /\ o = Extended(m, Kept, tok, Line)
    BY <1>1, <1>14 DEF Moves, Passes, AddState, TitleOf, Token
  <2>3. o = Memo((x \o <<Paragraph>>) \o tok, Line, told, 0)
    BY <2>1, <2>2, Delimiters, MemoParts DEF Extended, Used
  <2> QED BY <1>7, <1>8, <2>1, <2>2, <2>3
<1> HIDE DEF X
<1>15. ASSUME NEW m \in A[6], NEW jump, NEW o, Moves(c[6], Main, e, m, jump, o)
       PROVE  jump = 1 /\ o \in A[7]
  <2>1. o = m /\ jump = IF m.index < Len(m.records) THEN 1 ELSE 1 + 2
    BY <1>1, <1>15 DEF Moves, Passes, WhileState
  <2>2. m = Memo(X, Line, told, 0) /\ m.index = 0 /\ m.records = told /\ n # 0
    BY <1>8, MemoParts
  <2> QED BY <1>2, <1>8, <2>1, <2>2
<1>16. ASSUME NEW m \in A[7], NEW jump, NEW o, Moves(c[7], Main, e, m, jump, o)
       PROVE  jump = 1 /\ o \in A[8]
  <2>1. m = Memo(X, Line, told, 0) /\ n # 0
    BY <1>8
  <2>2. jump = 1 /\ o = Extended(m, Kept, m.records[m.index + 1], Paragraph)
    BY <1>1, <1>16 DEF Moves, Passes
  <2>3. o = Memo((X \o <<Line>>) \o told[0 + 1], Paragraph, told, 0)
    BY <2>1, <2>2, Delimiters, MemoParts DEF Extended, Used
  <2> QED BY <1>8, <2>1, <2>2, <2>3
<1> HIDE DEF words
<1>17. ASSUME NEW m \in A[8], NEW jump, NEW o, Moves(c[8], Main, e, m, jump, o)
       PROVE  jump = 1 /\ o \in A[9]
  <2>1. m = Memo(words, Paragraph, told, 0) /\ n # 0
    BY <1>8
  <2>2. jump = 1 - 0 /\ o = Memo(m.text, m.delimiter, m.records, m.index + 1)
    BY <1>1, <1>17 DEF Moves, Passes
  <2>3. o = Memo(words, Paragraph, told, 0 + 1)
    BY <2>1, <2>2, MemoParts
  <2> QED BY <1>8, <1>9, <2>1, <2>2, <2>3
<1>18. Walks(A, c, Main, e)
  <2> SUFFICES ASSUME NEW k \in 1 .. Len(c), NEW m \in A[k], NEW jump, NEW o,
                      Moves(c[k], Main, e, m, jump, o)
               PROVE  jump \in Int /\ k + jump \in 1 .. Len(c) + 1 /\ o \in A[k + jump]
    BY DEF Walks
  <2>1. k \in {1, 2, 3, 4, 5, 6, 7, 8} /\ Len(c) = 8
    BY <1>1
  <2>2. CASE k = 3
    <3>1. jump \in {1, 6} /\ o \in A[3 + jump]
      BY <1>12, <2>2
    <3> QED BY <2>1, <2>2, <3>1
  <2>3. CASE k # 3
    <3>1. jump = 1 /\ o \in A[k + 1]
      BY <1>10, <1>11, <1>13, <1>14, <1>15, <1>16, <1>17, <2>1, <2>3
    <3> QED BY <2>1, <3>1
  <2> QED BY <2>2, <2>3
<1>19. \A k \in 1 .. Len(c) : c[k].do # "output"
  <2> SUFFICES ASSUME NEW k \in 1 .. Len(c) PROVE c[k].do # "output"
    OBVIOUS
  <2>1. k \in {1, 2, 3, 4, 5, 6, 7, 8}
    BY <1>1
  <2>2. c[3].do = "while" /\ c[5].do = "add" /\ c[6].do = "while"
    BY <1>1 DEF AddState, WhileState
  <2>3. c[1].do = "map" /\ c[2].do = "initialize" /\ c[4].do = "delimiter" /\ c[7].do = "record"
        /\ c[8].do = "step"
    BY <1>1
  <2> QED BY <2>1, <2>2, <2>3
<1>20. Leads(c, Main, e, p, q)
  <2>1. p \in A[1] /\ A[Len(c) + 1] = {q}
    BY <1>1, <1>8
  <2> QED BY <1>1, <1>18, <1>19, <2>1 DEF Leads
<1>21. HeadOf(s) = head
  BY DEF HeadOf, PartOf
<1> HIDE DEF head
<1>22. CASE n = 0
  <2>1. FirstText(s, e) = <<>>
    BY <1>3, <1>22 DEF FirstText, told
  <2>2. q.text = x \o FirstText(s, e)
    BY <1>9, <1>22, <2>1, EmptyAdds, MemoParts
  <2> QED BY <1>20, <2>1, <2>2, EmptyIsChain DEF c
<1>23. CASE n # 0
  <2> DEFINE a == told[1]
             line == <<Line>>
  <2>1. FirstText(s, e) = (head \o line) \o a
    BY <1>3, <1>21, <1>23 DEF FirstText, told
  <2>2. IsChain(a) /\ IsChain(line)
    <3>1. 1 \in 1 .. n
      BY <1>2, <1>23
    <3> QED BY <1>2, <1>5, <3>1
  <2>3. words = (X \o line) \o a
    BY DEF words
  <2> HIDE DEF a, line
  <2>4. IsChain(head \o line) /\ IsChain((head \o line) \o a)
    BY <1>5, <2>2, Joined
  <2>5. X \o line = x \o (head \o line)
    BY <1>5, <2>2, Regrouped DEF X
  <2>6. (x \o (head \o line)) \o a = x \o ((head \o line) \o a)
    BY <2>2, <2>4, Regrouped
  <2>7. q.text = x \o FirstText(s, e)
    <3>1. q.text = words
      BY <1>9, <1>23, MemoParts
    <3>2. words = (x \o (head \o line)) \o a
      BY <2>3, <2>5
    <3> QED BY <2>1, <2>6, <3>1, <3>2
  <2> QED BY <1>20, <2>1, <2>4, <2>7 DEF c
<1> QED BY <1>22, <1>23

\* One text begins with another.
Begins(a, b) == \E z : IsChain(z) /\ b = a \o z

\* That is: the one is a prefix of the other.
LEMMA BeginsIsPrefix ==
  ASSUME NEW a, NEW b, IsChain(a), Begins(a, b)
  PROVE  IsPrefix(a, b)
<1>1. PICK z : IsChain(z) /\ b = a \o z
  BY DEF Begins
<1>2. PICK S, T : a \in Seq(S) /\ z \in Seq(T)
  BY <1>1 DEF IsChain
<1> DEFINE V == S \cup T
<1>3. a \in Seq(V) /\ z \in Seq(V)
  BY <1>2
<1> HIDE DEF V
<1>4. b \in Seq(V) /\ Len(b) = Len(a) + Len(z) /\ \A k \in 1 .. Len(a) : b[k] = a[k]
  BY <1>1, <1>3
<1>5. Len(a) <= Len(b)
  BY <1>3, <1>4
<1>6. SubSeq(a, 1, Len(a)) = SubSeq(b, 1, Len(a))
  <2>1. SubSeq(a, 1, Len(a)) = a
    BY <1>3
  <2>2. SubSeq(b, 1, Len(a)) \in Seq(V) /\ Len(SubSeq(b, 1, Len(a))) = Len(a)
    BY <1>3, <1>4
  <2>3. \A k \in 1 .. Len(a) : SubSeq(b, 1, Len(a))[k] = a[k]
    BY <1>3, <1>4
  <2>4. SubSeq(b, 1, Len(a)) = a
    BY <1>3, <2>2, <2>3, SeqEqual
  <2> QED BY <2>1, <2>4
<1> QED BY <1>5, <1>6 DEF IsPrefix

\* Every text begins with itself.
LEMMA BeginsItself ==
  ASSUME NEW a, IsChain(a) PROVE Begins(a, a)
BY EmptyAdds, EmptyIsChain DEF Begins

\* What is appended does not matter.
LEMMA BeginsLonger ==
  ASSUME NEW a, NEW b, NEW c, IsChain(a), IsChain(c), Begins(a, b)
  PROVE  Begins(a, b \o c)
<1>1. PICK z : IsChain(z) /\ b = a \o z
  BY DEF Begins
<1>2. (a \o z) \o c = a \o (z \o c) /\ IsChain(z \o c)
  BY <1>1, Regrouped, Joined
<1> QED BY <1>1, <1>2 DEF Begins

\* Nor does what both have in front.
LEMMA BeginsBehind ==
  ASSUME NEW a, NEW b, NEW c, IsChain(a), IsChain(c), Begins(a, b)
  PROVE  Begins(c \o a, c \o b)
<1>1. PICK z : IsChain(z) /\ b = a \o z
  BY DEF Begins
<1>2. (c \o a) \o z = c \o (a \o z)
  BY <1>1, Regrouped
<1> QED BY <1>1, <1>2 DEF Begins

\* The text of an iterator begins as it should, and is whole if it has one record.
LEMMA FirstTextBegins ==
  ASSUME NEW s, NEW e, Itemized(s), IsChain(e.items)
  PROVE  /\ Begins(FirstText(s, e), SectionText(s, e, Paragraph))
         /\ Len(RecordTexts(s, e)) <= 1 => FirstText(s, e) = SectionText(s, e, Paragraph)
         /\ IsChain(FirstText(s, e)) /\ IsChain(SectionText(s, e, Paragraph))
<1> DEFINE told == RecordTexts(s, e)
           n == Len(told)
           head == HeadOf(s)
           line == <<Line>>
           parts == [k \in DOMAIN told |-> PartOf(IF k = 1 THEN Line ELSE Paragraph, told[k])]
           first == FirstText(s, e)
           whole == SectionText(s, e, Paragraph)
<1>1. IsChain(told) /\ n \in Nat /\ DOMAIN told = 1 .. n /\ \A k \in 1 .. n : IsChain(told[k])
  BY RecordsAre, ChainFun
<1>2. /\ whole = IF told = <<>> THEN <<>> ELSE head \o FlattenSeq(parts)
      /\ first = IF told = <<>> THEN <<>> ELSE (head \o line) \o told[1]
  BY DEF SectionText, FirstText, Itemized
<1>3. n = 0 <=> told = <<>>
  BY <1>1 DEF IsChain
<1>4. IsChain(head) /\ IsChain(line) /\ IsChain(<<Paragraph>>)
  <2>1. IsChain(<<Paragraph>>) /\ IsChain(<<<<s.title, Main>>>>)
    BY OneState
  <2> QED BY <2>1, OneState, Joined DEF HeadOf, PartOf
<1>5. /\ parts = [k \in 1 .. n |-> parts[k]]
      /\ \A k \in 1 .. n : parts[k] = (IF k = 1 THEN line ELSE <<Paragraph>>) \o told[k]
  BY <1>1 DEF PartOf
<1> HIDE DEF told, head, line, parts, first, whole
<1>6. CASE n = 0
  BY <1>2, <1>3, <1>6, BeginsItself, EmptyIsChain DEF first, whole, told
<1>7. CASE n # 0
  <2>1. IsChain(parts) /\ Len(parts) = n
    BY <1>1, <1>5, FunChain
  <2>2. ASSUME NEW k \in 1 .. n PROVE IsChain(parts[k])
    <3> DEFINE a == IF k = 1 THEN line ELSE <<Paragraph>>
               b == told[k]
    <3>1. IsChain(a) /\ IsChain(b) /\ parts[k] = a \o b
      BY <1>1, <1>4, <1>5
    <3> HIDE DEF a, b
    <3> QED BY <3>1, Joined
  <2>3. PICK f : /\ f[0] = <<>>
                 /\ \A k \in 1 .. n : f[k] = f[k - 1] \o parts[k]
                 /\ \A k \in 0 .. n : IsChain(f[k])
                 /\ f[n] = FlattenSeq(parts)
    BY <2>1, <2>2, FlattenSteps
  <2>4. 1 \in 1 .. n /\ n \in 0 .. n
    BY <1>1, <1>7
  <2> DEFINE a == told[1]
  <2>5. IsChain(a) /\ parts[1] = line \o a /\ f[1] = f[1 - 1] \o parts[1]
    BY <1>1, <1>5, <2>3, <2>4
  <2>6. IsChain(line \o a) /\ IsChain(f[n])
    BY <1>4, <2>3, <2>4, <2>5, Joined
  <2>7. f[1] = line \o a
    <3> DEFINE u == line \o a
    <3>1. <<>> \o u = u
      <4>1. IsChain(u)
        BY <2>6
      <4> HIDE DEF u
      <4> QED BY <4>1, EmptyAdds
    <3>2. 1 - 1 = 0
      OBVIOUS
    <3>3. f[1] = f[0] \o parts[1]
      BY <2>5, <3>2
    <3> HIDE DEF a
    <3> QED BY <2>3, <2>5, <3>1, <3>3
  <2> HIDE DEF a
  <2>8. first = head \o (line \o a) /\ IsChain(head \o (line \o a))
    <3>1. first = (head \o line) \o a
      BY <1>2, <1>3, <1>7 DEF a
    <3> QED BY <1>4, <2>5, <2>6, <3>1, Regrouped, Joined
  <2> DEFINE S == {k \in Nat : k \in 1 .. n => Begins(f[1], f[k])}
  <2>9. 0 \in S
    OBVIOUS
  <2>10. ASSUME NEW k \in Nat, k \in S PROVE k + 1 \in S
    <3> SUFFICES ASSUME k + 1 \in 1 .. n PROVE Begins(f[1], f[k + 1])
      OBVIOUS
    <3>1. CASE k = 0
      <4> DEFINE u == f[1]
      <4>1. IsChain(u)
        BY <2>6, <2>7
      <4> HIDE DEF u
      <4>2. Begins(u, u)
        BY <4>1, BeginsItself
      <4>3. k + 1 = 1
        BY <3>1
      <4> QED BY <4>2, <4>3 DEF u
    <3>2. CASE k # 0
      <4>1. k \in 1 .. n /\ (k + 1) - 1 = k
        BY <1>1, <3>2
      <4>2. f[k + 1] = f[k] \o parts[k + 1] /\ Begins(f[1], f[k])
        BY <2>3, <2>10, <4>1
      <4> DEFINE b == parts[k + 1]
                 u == f[1]
      <4>3. IsChain(b) /\ IsChain(u)
        BY <2>2, <2>6, <2>7
      <4> HIDE DEF b, u
      <4>4. Begins(u, f[k] \o b)
        BY <4>2, <4>3, BeginsLonger DEF u
      <4> QED BY <4>2, <4>4 DEF b, u
    <3> QED BY <3>1, <3>2
  <2>11. Begins(line \o a, FlattenSeq(parts))
    <3>1. n \in S
      <4> HIDE DEF S
      <4> QED BY <1>1, <2>9, <2>10, NatSetInduction
    <3> QED BY <2>3, <2>4, <2>7, <3>1
  <2>12. whole = head \o FlattenSeq(parts) /\ IsChain(FlattenSeq(parts))
    BY <1>2, <1>3, <1>7, <2>3, <2>6
  <2>13. Begins(first, whole)
    BY <1>4, <2>6, <2>8, <2>11, <2>12, BeginsBehind
  <2>14. n <= 1 => first = whole
    <3>1. n <= 1 => n = 1
      BY <1>1, <1>7
    <3> QED BY <2>3, <2>7, <2>8, <2>12, <3>1
  <2>15. IsChain(whole)
    BY <1>4, <2>12, Joined
  <2> QED BY <2>8, <2>13, <2>14, <2>15 DEF first, whole, told
<1> QED BY <1>6, <1>7

-----------------------------------------------------------------------------
(***************************************************************************)
(* The parsers.                                                            *)
(***************************************************************************)

\* What a description has to be.
Fitting(words, e) ==
    IsPrefix(words, Everything(e)) /\ (Len(Records(e)) <= 1 => words = Everything(e))

\* Whoever starts a chain afresh comes to its output, and nowhere behind it, with a
\* text that fits.
Finishes(c, e) ==
    \E A : /\ Walks(A, c, Main, e) /\ Fresh(Line) \in A[1] /\ A[Len(c) + 1] = {}
           /\ \A k \in 1 .. Len(c) : c[k].do = "output" => \A m \in A[k] : Fitting(m.text, e)

\* A section whose components are references and links is one of those above.
LEMMA SectionalIs ==
  ASSUME NEW s, NEW given, Sectional(s, given) PROVE Sectioned(s)
BY DEF Sectional, Sectioned, Asks, Askable

\* Chains that each write a text, one behind the other.
LEMMA LeadsTexts ==
  ASSUME NEW n \in Nat, NEW chains, NEW texts, NEW e, NEW x, IsChain(x),
         chains = [k \in 1 .. n |-> chains[k]], texts = [k \in 1 .. n |-> texts[k]],
         \A k \in 1 .. n : IsChain(texts[k]),
         \A k \in 1 .. n : \A y : IsChain(y) =>
            Leads(chains[k], Main, e, Memo(y, Line, <<>>, 0), Memo(y \o texts[k], Line, <<>>, 0))
  PROVE  /\ Leads(FlattenSeq(chains), Main, e, Memo(x, Line, <<>>, 0),
                  Memo(x \o FlattenSeq(texts), Line, <<>>, 0))
         /\ IsChain(FlattenSeq(texts))
<1>1. IsChain(chains) /\ Len(chains) = n /\ IsChain(texts) /\ Len(texts) = n
  BY FunChain
<1>2. PICK f : /\ f[0] = <<>>
               /\ \A k \in 1 .. n : f[k] = f[k - 1] \o texts[k]
               /\ \A k \in 0 .. n : IsChain(f[k])
               /\ f[n] = FlattenSeq(texts)
  BY <1>1, FlattenSteps
<1> DEFINE g == [k \in 0 .. n |-> Memo(x \o f[k], Line, <<>>, 0)]
<1>3. \A k \in 0 .. n : g[k] = Memo(x \o f[k], Line, <<>>, 0)
  OBVIOUS
<1> HIDE DEF g
<1>4. ASSUME NEW k \in 1 .. n PROVE Leads(chains[k], Main, e, g[k - 1], g[k])
  <2> DEFINE a == f[k - 1]
             b == texts[k]
  <2>1. k - 1 \in 0 .. n /\ k \in 0 .. n
    OBVIOUS
  <2>2. IsChain(a) /\ IsChain(b) /\ f[k] = a \o b
    BY <1>2, <2>1
  <2>3. g[k - 1] = Memo(x \o a, Line, <<>>, 0) /\ g[k] = Memo(x \o (a \o b), Line, <<>>, 0)
    BY <1>3, <2>1, <2>2
  <2>4. \A y : IsChain(y) =>
           Leads(chains[k], Main, e, Memo(y, Line, <<>>, 0), Memo(y \o b, Line, <<>>, 0))
    OBVIOUS
  <2> HIDE DEF a, b
  <2>5. IsChain(x \o a) /\ (x \o a) \o b = x \o (a \o b)
    <3>1. IsChain(x \o a)
      BY <2>2, Joined
    <3> QED BY <2>2, <3>1, Regrouped
  <2>6. Leads(chains[k], Main, e, Memo(x \o a, Line, <<>>, 0), Memo((x \o a) \o b, Line, <<>>, 0))
    BY <2>4, <2>5
  <2> QED BY <2>3, <2>5, <2>6
<1>5. Leads(FlattenSeq(chains), Main, e, g[0], g[n])
  BY <1>1, <1>4, LeadsAll
<1>6. g[0] = Memo(x, Line, <<>>, 0) /\ g[n] = Memo(x \o FlattenSeq(texts), Line, <<>>, 0)
  <2>1. g[0] = Memo(x \o <<>>, Line, <<>>, 0)
    <3>1. 0 \in 0 .. n
      OBVIOUS
    <3> QED BY <1>2, <1>3, <3>1
  <2> QED BY <1>2, <1>3, <2>1, EmptyAdds
<1>7. IsChain(FlattenSeq(texts))
  BY <1>2
<1> QED BY <1>5, <1>6, <1>7

\* All sections of a DescriptionBuilder that have no iterator among them.
LEMMA LeadsSections ==
  ASSUME NEW sections, NEW e, NEW x, IsChain(x), IsChain(sections),
         \A k \in 1 .. Len(sections) : Sectioned(sections[k])
  PROVE  /\ Leads(RenderAll(sections), Main, e, Memo(x, Line, <<>>, 0),
                  Memo(x \o SectionTexts(sections, e), Line, <<>>, 0))
         /\ IsChain(SectionTexts(sections, e))
<1> DEFINE n == Len(sections)
           chains == [k \in DOMAIN sections |-> Render(sections[k])]
           texts == [k \in DOMAIN sections |-> SectionText(sections[k], e, Paragraph)]
<1>1. n \in Nat /\ DOMAIN sections = 1 .. n
  BY ChainFun
<1>2. chains = [k \in 1 .. n |-> chains[k]] /\ texts = [k \in 1 .. n |-> texts[k]]
  BY <1>1
<1>3. \A k \in 1 .. n : /\ chains[k] = RenderSection(sections[k])
                        /\ texts[k] = SectionText(sections[k], e, Paragraph)
  BY <1>1 DEF Render, Sectioned
<1> HIDE DEF chains, texts, n
<1>4. \A k \in 1 .. n : Sectioned(sections[k])
  BY DEF n
<1>5. \A k \in 1 .. n : IsChain(texts[k])
  BY <1>3, <1>4, SectionTextIs
<1>6. ASSUME NEW k \in 1 .. n, NEW y, IsChain(y)
      PROVE  Leads(chains[k], Main, e, Memo(y, Line, <<>>, 0), Memo(y \o texts[k], Line, <<>>, 0))
  BY <1>3, <1>4, <1>6, LeadsSection
<1>7. /\ Leads(FlattenSeq(chains), Main, e, Memo(x, Line, <<>>, 0),
               Memo(x \o FlattenSeq(texts), Line, <<>>, 0))
      /\ IsChain(FlattenSeq(texts))
  BY <1>1, <1>2, <1>5, <1>6, LeadsTexts
<1> QED BY <1>7 DEF RenderAll, SectionTexts, chains, texts

\* The same for sections that are built by hand.
LEMMA LeadsPlains ==
  ASSUME NEW sections, NEW e, NEW x, IsChain(x), IsChain(sections),
         \A k \in 1 .. Len(sections) : Sectioned(sections[k]) /\ sections[k].checks # {}
  PROVE  /\ Leads(FlattenSeq([k \in DOMAIN sections |-> PlainSection(sections[k])]), Main, e,
                  Memo(x, Line, <<>>, 0), Memo(x \o SectionTexts(sections, e), Line, <<>>, 0))
         /\ IsChain(SectionTexts(sections, e))
<1> DEFINE n == Len(sections)
           chains == [k \in DOMAIN sections |-> PlainSection(sections[k])]
           texts == [k \in DOMAIN sections |-> SectionText(sections[k], e, Paragraph)]
<1>1. n \in Nat /\ DOMAIN sections = 1 .. n
  BY ChainFun
<1>2. chains = [k \in 1 .. n |-> chains[k]] /\ texts = [k \in 1 .. n |-> texts[k]]
  BY <1>1
<1>3. \A k \in 1 .. n : /\ chains[k] = PlainSection(sections[k])
                        /\ texts[k] = SectionText(sections[k], e, Paragraph)
  BY <1>1
<1> HIDE DEF chains, texts, n
<1>4. \A k \in 1 .. n : Sectioned(sections[k]) /\ sections[k].checks # {}
  BY DEF n
<1>5. \A k \in 1 .. n : IsChain(texts[k])
  BY <1>3, <1>4, SectionTextIs
<1>6. ASSUME NEW k \in 1 .. n, NEW y, IsChain(y)
      PROVE  Leads(chains[k], Main, e, Memo(y, Line, <<>>, 0), Memo(y \o texts[k], Line, <<>>, 0))
  BY <1>3, <1>4, <1>6, LeadsPlain
<1>7. /\ Leads(FlattenSeq(chains), Main, e, Memo(x, Line, <<>>, 0),
               Memo(x \o FlattenSeq(texts), Line, <<>>, 0))
      /\ IsChain(FlattenSeq(texts))
  BY <1>1, <1>2, <1>5, <1>6, LeadsTexts
<1> QED BY <1>7 DEF SectionTexts, chains, texts

\* A chain with its output behind it.
LEMMA FinishesWell ==
  ASSUME NEW c, NEW fields, NEW e, NEW q, Leads(c, Main, e, Fresh(Line), q), Fitting(q.text, e)
  PROVE  Finishes(c \o <<OutputState(fields)>>, e)
<1> DEFINE last == OutputState(fields)
           end == <<last>>
           ch == c \o end
           n == Len(c)
<1>1. PICK A : Walks(A, c, Main, e) /\ Fresh(Line) \in A[1] /\ A[n + 1] \subseteq {q}
  BY DEF Leads
<1>2. last.do = "output"
  BY DEF OutputState
<1>3. \A t, f, m, jump, o : ~Moves(last, t, f, m, jump, o)
  <2> HIDE DEF last
  <2> QED BY <1>2 DEF Moves, Passes
<1> HIDE DEF last
<1>4. IsChain(c) /\ IsChain(end) /\ Len(end) = 1 /\ end[1] = last
  BY OneState DEF Leads
<1> HIDE DEF end
<1>5. /\ n \in Nat /\ Len(ch) = n + 1
      /\ \A k \in 1 .. n : ch[k] = c[k]
      /\ ch[n + 1] = last
  <2>1. /\ Len(ch) = n + Len(end)
        /\ \A k \in 1 .. n : ch[k] = c[k]
        /\ \A k \in 1 .. Len(end) : ch[n + k] = end[k]
    <3>1. IsChain(c) /\ IsChain(end)
      BY <1>4
    <3> QED BY <3>1, Joined
  <2>2. n \in Nat
    BY <1>4, ChainFun
  <2> HIDE DEF ch, n
  <2> QED BY <1>4, <2>1, <2>2
<1>6. \A k \in 1 .. n : c[k].do # "output"
  BY DEF Leads
<1> HIDE DEF ch
<1> DEFINE B == [k \in 1 .. n + 2 |-> IF k <= n + 1 THEN A[k] ELSE {}]
<1>7. (\A k \in 1 .. n + 1 : B[k] = A[k]) /\ B[n + 2] = {}
  BY <1>5
<1> HIDE DEF B
<1>8. Walks(B, ch, Main, e)
  <2> SUFFICES ASSUME NEW k \in 1 .. n + 1, NEW m \in B[k], NEW jump, NEW o,
                      Moves(ch[k], Main, e, m, jump, o)
               PROVE  jump \in Int /\ k + jump \in 1 .. (n + 1) + 1 /\ o \in B[k + jump]
    BY <1>5 DEF Walks
  <2>1. k \in 1 .. n
    BY <1>3, <1>5
  <2>2. m \in A[k] /\ Moves(c[k], Main, e, m, jump, o)
    BY <1>5, <1>7, <2>1
  <2>3. jump \in Int /\ k + jump \in 1 .. n + 1 /\ o \in A[k + jump]
    BY <1>1, <2>1, <2>2 DEF Walks, n
  <2> QED BY <1>5, <1>7, <2>3
<1>9. Fresh(Line) \in B[1]
  <2>1. 1 \in 1 .. n + 1
    BY <1>5
  <2> QED BY <1>1, <1>7, <2>1
<1>10. B[Len(ch) + 1] = {}
  <2>1. Len(ch) + 1 = n + 2
    BY <1>5
  <2> QED BY <1>7, <2>1
<1>11. ASSUME NEW k \in 1 .. Len(ch), ch[k].do = "output", NEW m \in B[k]
       PROVE  Fitting(m.text, e)
  <2>1. k = n + 1
    BY <1>5, <1>6, <1>11
  <2>2. n + 1 \in 1 .. n + 1
    BY <1>5
  <2>3. m = q
    BY <1>1, <1>7, <2>1, <2>2
  <2> QED BY <2>3
<1>12. Finishes(ch, e)
  BY <1>8, <1>9, <1>10, <1>11 DEF Finishes
<1> QED BY <1>12 DEF ch, end, last

\* A description that tells everything fits.
LEMMA WholeFits ==
  ASSUME NEW words, NEW e, IsChain(words), words = Everything(e)
  PROVE  Fitting(words, e)
<1>1. IsPrefix(words, words)
  BY BeginsItself, BeginsIsPrefix
<1> QED BY <1>1 DEF Fitting

\* The parsers whose chain is all written by a DescriptionBuilder without iterators.
LEMMA SectionsFinish ==
  ASSUME NEW sections, NEW fields, NEW e, IsChain(sections),
         \A k \in 1 .. Len(sections) : Sectioned(sections[k]),
         Everything(e) = SectionTexts(sections, e)
  PROVE  Finishes(RenderAll(sections) \o <<OutputState(fields)>>, e)
<1> DEFINE words == SectionTexts(sections, e)
<1>1. IsChain(<<>>)
  BY EmptyIsChain
<1>2. /\ Leads(RenderAll(sections), Main, e, Memo(<<>>, Line, <<>>, 0),
               Memo(<<>> \o words, Line, <<>>, 0))
      /\ IsChain(words)
  BY <1>1, LeadsSections
<1>3. Fitting(words, e)
  BY <1>2, WholeFits
<1> HIDE DEF words
<1> DEFINE q == Memo(words, Line, <<>>, 0)
<1>4. Leads(RenderAll(sections), Main, e, Fresh(Line), q)
  BY <1>2, EmptyAdds DEF Fresh
<1>5. q.text = words
  BY MemoParts
<1> HIDE DEF q
<1> QED BY <1>3, <1>4, <1>5, FinishesWell

\* AWS Config: a rule and a resource.
LEMMA ConfigFinishes ==
  ASSUME NEW e, e.parser = "ConfigComplianceChange" PROVE Finishes(ConfigStates, e)
<1> DEFINE sections == ConfigSections
<1>1. IsChain(sections) /\ Len(sections) = 2
  BY ConfigParts
<1>2. Sectioned(sections[1]) /\ Sectioned(sections[2])
  <2>1. "$.Detail.configRuleName" \in {"$.Detail.configRuleName"}
    OBVIOUS
  <2>2. /\ Sectional(sections[1], {"$.Detail.configRuleName"})
        /\ Sectional(sections[2], {"$.Detail.configRuleName"})
    BY <2>1, ConfigParts
  <2> QED BY <2>2, SectionalIs
<1>3. Everything(e) = SectionTexts(sections, e)
  BY DEF Everything
<1> HIDE DEF sections
<1>4. \A k \in 1 .. Len(sections) : Sectioned(sections[k])
  BY <1>1, <1>2
<1> QED BY <1>1, <1>3, <1>4, SectionsFinish DEF ConfigStates, sections

\* OpenSearch: the section about a domain.
LEMMA DomainFinishes ==
  ASSUME NEW e, e.parser = "OpenSearchEvent" PROVE Finishes(OpenSearchStates, e)
<1> DEFINE sections == DomainSections
           given == {"$.Domain.Region", "$.Domain.Name"}
<1>1. IsChain(sections) /\ Len(sections) = 1
  BY DomainParts
<1>2. Sectioned(sections[1])
  <2>1. Sectional(sections[1], given)
    BY DomainParts
  <2> QED BY <2>1, SectionalIs
<1>3. Everything(e) = SectionTexts(sections, e)
  BY DEF Everything
<1> HIDE DEF sections
<1>4. \A k \in 1 .. Len(sections) : Sectioned(sections[k])
  BY <1>1, <1>2
<1> QED BY <1>1, <1>3, <1>4, SectionsFinish DEF OpenSearchStates, sections

\* GuardDuty: the sections about the parts of a resource.
LEMMA GuardDutyFinishes ==
  ASSUME NEW e, e.parser = "GuardDutyFinding" PROVE Finishes(GuardDutyStates, e)
<1> DEFINE sections == GuardDutySections
           chain1 == FlattenSeq([k \in DOMAIN sections |-> PlainSection(sections[k])])
           words == SectionTexts(sections, e)
           fields == {"$.Severity.Standardized", "$.Detail.title"}
<1>1. IsChain(sections) /\ IsChain(<<>>)
  BY GuardDutyParts, EmptyIsChain
<1>2. \A k \in 1 .. Len(sections) : Sectioned(sections[k]) /\ sections[k].checks # {}
  BY GuardDutyParts, SectionalIs
<1>3. Everything(e) = words /\ GuardDutyStates = chain1 \o <<OutputState(fields)>>
  BY DEF Everything, GuardDutyStates
<1> HIDE DEF sections, fields
<1>4. /\ Leads(chain1, Main, e, Memo(<<>>, Line, <<>>, 0), Memo(<<>> \o words, Line, <<>>, 0))
      /\ IsChain(words)
  BY <1>1, <1>2, LeadsPlains
<1> HIDE DEF chain1, words
<1>5. Fitting(words, e)
  BY <1>3, <1>4, WholeFits
<1> DEFINE q == Memo(words, Line, <<>>, 0)
<1>6. Leads(chain1, Main, e, Fresh(Line), q)
  BY <1>4, EmptyAdds DEF Fresh
<1>7. q.text = words
  BY MemoParts
<1> HIDE DEF q
<1> QED BY <1>3, <1>5, <1>6, <1>7, FinishesWell

\* A link is always told.
LEMMA LeadsLink ==
  ASSUME NEW name, NEW fields, NEW e, NEW x, NEW r, NEW i, IsChain(x)
  PROVE  /\ Leads(Write(Link(name, fields), Paragraph, Kept), Main, e,
                  Memo(x, Line, r, i), Memo(x \o Lone(name), Line, r, i))
         /\ IsChain(Lone(name))
<1> DEFINE c == Link(name, fields)
<1>1. c.required = TRUE /\ c.says = name /\ c.required \in BOOLEAN
  BY DEF Link
<1>2. Asked(c, Main, e)
  BY <1>1 DEF Asked
<1> HIDE DEF c
<1>3. /\ Leads(Write(c, Paragraph, Kept), Main, e, Memo(x, Line, r, i),
               Memo(x \o (IF Asked(c, Main, e) THEN Lone(c.says) ELSE <<>>), Line, r, i))
      /\ IsChain(Lone(c.says))
  BY <1>1, LeadsLone
<1>4. (IF Asked(c, Main, e) THEN Lone(c.says) ELSE <<>>) = Lone(name)
  BY <1>1, <1>2
<1>5. Leads(Write(c, Paragraph, Kept), Main, e, Memo(x, Line, r, i), Memo(x \o Lone(name), Line, r, i))
  BY <1>3, <1>4
<1> QED BY <1>1, <1>3, <1>5 DEF c

\* ECR: a loop over the tags and a link.
LEMMA EcrFinishes ==
  ASSUME NEW e, e.parser = "EcrScanFinding", IsChain(e.items) PROVE Finishes(EcrStates, e)
<1> DEFINE tags == "$.Image.Details.ImageTags"
           a == Loop("Image tags", tags, "tag")
           b == Write(Link("ECR console", {"$.Image.Details.RepositoryName"}), Paragraph, Kept)
           fields == {"$.Findings.MaxSeverityStandardized"}
           u == LoopText("Image tags", tags, "tag", e)
           v == Lone("ECR console")
<1>1. EcrStates = (a \o b) \o <<OutputState(fields)>> /\ Everything(e) = u \o v
  BY DEF EcrStates, Everything
<1>2. tags # Empty /\ (tags \in Data(e) <=> tags \in e.present)
  BY DEF Data, Empty
<1> HIDE DEF tags
<1>5. PICK recs, place : Leads(a, Main, e, Memo(<<>>, Line, <<>>, 0), Memo(<<>> \o u, Line, recs, place))
  BY <1>2, EmptyIsChain, LeadsLoop
<1>6. IsChain(u)
  BY <1>2, EmptyIsChain, LeadsLoop
<1> HIDE DEF u
<1>7. /\ Leads(b, Main, e, Memo(u, Line, recs, place), Memo(u \o v, Line, recs, place))
      /\ IsChain(v)
  BY <1>6, LeadsLink
<1> HIDE DEF a, b, v, fields
<1> DEFINE q == Memo(u \o v, Line, recs, place)
<1>8. Leads(a \o b, Main, e, Fresh(Line), q)
  BY <1>5, <1>6, <1>7, EmptyAdds, LeadsJoin DEF Fresh
<1>9. q.text = u \o v
  BY DEF Memo
<1>10. Fitting(u \o v, e)
  BY <1>1, <1>6, <1>7, Joined, WholeFits
<1> HIDE DEF q
<1> QED BY <1>1, <1>8, <1>9, <1>10, FinishesWell

\* Security Hub: two links, a section and a loop over the resources.
LEMMA SecurityHubFinishes ==
  ASSUME NEW e, e.parser = "SecurityHubFinding", IsChain(e.items) PROVE Finishes(SecurityHubStates, e)
<1> DEFINE resources == "$.Finding.Resources"
           s == RemediationSection
           a == Write(Link("AWS account", {"$.Finding.AwsAccountId"}), Paragraph, Kept)
           b == Write(Link("Finding details", {"$.Finding.Id"}), Paragraph, Kept)
           c == PlainSection(s)
           d == Loop("Resources", resources, "$.Resource.Details.Id")
           fields == {"$.Resolved.Severity", "$.Finding.Title"}
           u == Lone("AWS account")
           v == Lone("Finding details")
           w == SectionText(s, e, Paragraph)
           z == LoopText("Resources", resources, "$.Resource.Details.Id", e)
<1>1. /\ SecurityHubStates = (((a \o b) \o c) \o d) \o <<OutputState(fields)>>
      /\ Everything(e) = ((u \o v) \o SectionTexts(<<s>>, e)) \o z
  BY DEF SecurityHubStates, Everything
<1>2. resources # Empty /\ (resources \in Data(e) <=> resources \in e.present)
  BY DEF Data, Empty
<1>5. Sectioned(s) /\ s.checks # {}
  BY RemediationPart, SectionalIs
<1> HIDE DEF resources, s
<1>6. IsChain(w)
  BY <1>5, SectionTextIs
<1>7. SectionTexts(<<s>>, e) = w
  <2> DEFINE texts == [k \in DOMAIN <<s>> |-> SectionText(<<s>>[k], e, Paragraph)]
  <2>1. texts = [k \in 1 .. 1 |-> texts[k]] /\ texts[1] = w
    BY OneState, ChainFun
  <2> HIDE DEF texts, w
  <2>2. IsChain(texts) /\ Len(texts) = 1
    BY <2>1, FunChain
  <2>3. \A k \in 1 .. Len(texts) : IsChain(texts[k])
    BY <1>6, <2>1, <2>2
  <2>4. PICK f : /\ f[0] = <<>>
                 /\ \A k \in 1 .. 1 : f[k] = f[k - 1] \o texts[k]
                 /\ f[1] = FlattenSeq(texts)
    BY <2>2, <2>3, FlattenSteps
  <2>5. f[1] = f[0] \o texts[1]
    <3>1. 1 \in 1 .. 1 /\ 1 - 1 = 0
      OBVIOUS
    <3> QED BY <2>4, <3>1
  <2>6. FlattenSeq(texts) = w
    BY <1>6, <2>1, <2>4, <2>5, EmptyAdds
  <2> QED BY <2>6 DEF SectionTexts, texts
<1>8. /\ Leads(a, Main, e, Memo(<<>>, Line, <<>>, 0), Memo(<<>> \o u, Line, <<>>, 0))
      /\ IsChain(u) /\ IsChain(v)
  BY EmptyIsChain, LeadsLink
<1>9. Leads(b, Main, e, Memo(u, Line, <<>>, 0), Memo(u \o v, Line, <<>>, 0))
  BY <1>8, LeadsLink
<1> HIDE DEF a, b, u, v
<1>10. IsChain(u \o v)
  BY <1>8, Joined
<1>11. Leads(c, Main, e, Memo(u \o v, Line, <<>>, 0), Memo((u \o v) \o w, Line, <<>>, 0))
  BY <1>5, <1>10, LeadsPlain
<1>12. IsChain((u \o v) \o w)
  <2> HIDE DEF w
  <2> QED BY <1>6, <1>10, Joined
<1> DEFINE x == (u \o v) \o w
<1>13. \E recs, place : Leads(d, Main, e, Memo(x, Line, <<>>, 0), Memo(x \o z, Line, recs, place))
  <2>1. IsChain(x)
    BY <1>12
  <2> HIDE DEF x
  <2> QED BY <1>2, <2>1, LeadsLoop
<1>14. IsChain(z)
  BY <1>2, EmptyIsChain, LeadsLoop
<1> HIDE DEF c, d, w, z, fields
<1>15. PICK recs, place : Leads(d, Main, e, Memo(x, Line, <<>>, 0), Memo(x \o z, Line, recs, place))
  BY <1>13
<1>16. Leads(((a \o b) \o c) \o d, Main, e, Fresh(Line), Memo(x \o z, Line, recs, place))
  <2>1. Leads(a, Main, e, Fresh(Line), Memo(u, Line, <<>>, 0))
    BY <1>8, EmptyAdds DEF Fresh
  <2>2. Leads(a \o b, Main, e, Fresh(Line), Memo(u \o v, Line, <<>>, 0))
    BY <1>9, <2>1, LeadsJoin
  <2>3. Leads((a \o b) \o c, Main, e, Fresh(Line), Memo(x, Line, <<>>, 0))
    BY <1>11, <2>2, LeadsJoin
  <2> HIDE DEF x
  <2> QED BY <1>15, <2>3, LeadsJoin
<1>17. Everything(e) = x \o z /\ IsChain(x)
  BY <1>1, <1>7, <1>12
<1> HIDE DEF x
<1> DEFINE q == Memo(x \o z, Line, recs, place)
<1>18. q.text = x \o z
  BY DEF Memo
<1>19. Fitting(x \o z, e)
  BY <1>14, <1>17, Joined, WholeFits
<1>20. Leads(((a \o b) \o c) \o d, Main, e, Fresh(Line), q)
  BY <1>16
<1> HIDE DEF q
<1> QED BY <1>1, <1>18, <1>19, <1>20, FinishesWell

\* The iterator of Inspector's description.
LEMMA InspectorItemized == Itemized(InspectorSections[3])
<1> DEFINE s == InspectorSections[3]
           names == <<"$.Item.type", "$.Item.id", "$.Item.region">>
           body == References(names)
<1>1. s.over = "$.Detail.resources" /\ s.body = body
  BY InspectorParts
<1>2. IsChain(names) /\ Len(names) = 3
  BY ThreeStates
<1> HIDE DEF s, names
<1>3. body = [k \in 1 .. 3 |-> Reference(names[k])]
  BY <1>2, ChainFun DEF References
<1> HIDE DEF body
<1>4. IsChain(body) /\ Len(body) = 3 /\ \A k \in 1 .. 3 : body[k] = Reference(names[k])
  BY <1>3, FunChain
<1>5. \A field : Reference(field).required = FALSE /\ Reference(field).reads # {}
  BY DEF Reference
<1>6. \A k \in 1 .. Len(s.body) : s.body[k].required \in BOOLEAN /\ s.body[k].reads # {}
  <2> SUFFICES ASSUME NEW k \in 1 .. 3
               PROVE  s.body[k].required \in BOOLEAN /\ s.body[k].reads # {}
    BY <1>1, <1>4
  <2> DEFINE r == Reference(names[k])
  <2>1. s.body[k] = r /\ r.required = FALSE /\ r.reads # {}
    BY <1>1, <1>4, <1>5
  <2> HIDE DEF r
  <2> QED BY <2>1
<1>7. s.over # Empty
  BY <1>1 DEF Empty
<1> QED BY <1>1, <1>4, <1>6, <1>7 DEF Itemized, s

\* The iterator comes last, after the description and two sections.
LEMMA InspectorFinishes ==
  ASSUME NEW e, e.parser = "InspectorFinding", IsChain(e.items) PROVE Finishes(InspectorStates, e)
<1> DEFINE description == "$.Detail.description"
           ref == Reference(description)
           sections == InspectorSections
           s1 == sections[1]
           s2 == sections[2]
           s3 == sections[3]
           head == Write(ref, Paragraph, Kept)
           fields == {"$.Detail.type", "$.Detail.title"}
           x == IF description \in e.present THEN Lone(description) ELSE <<>>
           u == SectionText(s1, e, Paragraph)
           v == SectionText(s2, e, Paragraph)
           w == SectionText(s3, e, Paragraph)
           f == FirstText(s3, e)
<1>1. /\ InspectorStates = (head \o RenderAll(sections)) \o <<OutputState(fields)>>
      /\ Everything(e) = x \o SectionTexts(sections, e)
      /\ Records(e) = RecordTexts(s3, e)
  BY DEF InspectorStates, Everything, Records
<1>2. IsChain(sections) /\ Len(sections) = 3 /\ Sectioned(s1) /\ Sectioned(s2) /\ Itemized(s3)
  BY InspectorParts, InspectorItemized, SectionalIs
<1>3. /\ ref.required = FALSE /\ ref.says = description /\ ref.reads = {description}
      /\ FieldsOf(e, Main) = e.present
  BY DEF Reference, FieldsOf, Data
<1> HIDE DEF description, ref, sections
<1>4. /\ Leads(head, Main, e, Memo(<<>>, Line, <<>>, 0), Memo(x, Line, <<>>, 0))
      /\ IsChain(x)
  <2> DEFINE y == IF Asked(ref, Main, e) THEN Lone(ref.says) ELSE <<>>
  <2>1. /\ Leads(head, Main, e, Memo(<<>>, Line, <<>>, 0), Memo(<<>> \o y, Line, <<>>, 0))
        /\ IsChain(Lone(ref.says))
    <3>1. ref.required \in BOOLEAN /\ Kept \in {Kept, Line}
      BY <1>3
    <3> DEFINE z == <<>>
    <3>2. IsChain(z)
      BY EmptyIsChain
    <3> HIDE DEF z
    <3>3. /\ Leads(head, Main, e, Memo(z, Line, <<>>, 0), Memo(z \o y, Line, <<>>, 0))
          /\ IsChain(Lone(ref.says))
      BY <3>1, <3>2, LeadsLone
    <3> QED BY <3>3 DEF z
  <2>2. y = x
    BY <1>3 DEF Asked
  <2>3. IsChain(y)
    BY <2>1, EmptyIsChain
  <2> HIDE DEF y, x
  <2> QED BY <2>1, <2>2, <2>3, EmptyAdds
<1> HIDE DEF head, x
<1>5. IsChain(u) /\ IsChain(v)
  BY <1>2, SectionTextIs
<1>6. /\ Begins(f, w) /\ IsChain(f) /\ IsChain(w)
      /\ Len(Records(e)) <= 1 => f = w
  BY <1>1, <1>2, FirstTextBegins
<1>7. Leads(RenderSection(s1), Main, e, Memo(x, Line, <<>>, 0), Memo(x \o u, Line, <<>>, 0))
  BY <1>2, <1>4, LeadsSection
<1>8. IsChain(x \o u) /\ IsChain((x \o u) \o v)
  <2> HIDE DEF u, v
  <2> QED BY <1>4, <1>5, Joined
<1>9. Leads(RenderSection(s2), Main, e, Memo(x \o u, Line, <<>>, 0), Memo((x \o u) \o v, Line, <<>>, 0))
  <2> DEFINE y == x \o u
  <2>1. IsChain(y)
    BY <1>8
  <2> HIDE DEF y
  <2>2. Leads(RenderSection(s2), Main, e, Memo(y, Line, <<>>, 0), Memo(y \o v, Line, <<>>, 0))
    BY <1>2, <2>1, LeadsSection
  <2> QED BY <2>2 DEF y
<1>10. \E q : /\ Leads(RenderIterator(s3), Main, e, Memo((x \o u) \o v, Line, <<>>, 0), q)
              /\ q.text = ((x \o u) \o v) \o f
  <2> DEFINE y == (x \o u) \o v
  <2>1. IsChain(y)
    BY <1>8
  <2> HIDE DEF y, s3
  <2>2. \E q : /\ Leads(RenderIterator(s3), Main, e, Memo(y, Line, <<>>, 0), q)
               /\ q.text = y \o f
    BY <1>2, <2>1, LeadsIterator
  <2> QED BY <2>2 DEF y
<1>11. PICK q : /\ Leads(RenderIterator(s3), Main, e, Memo((x \o u) \o v, Line, <<>>, 0), q)
                /\ q.text = ((x \o u) \o v) \o f
  BY <1>10
<1>12. SectionTexts(sections, e) = (u \o v) \o w
  <2> DEFINE texts == [k \in DOMAIN sections |-> SectionText(sections[k], e, Paragraph)]
  <2>1. DOMAIN sections = 1 .. 3
    BY <1>2, ChainFun
  <2>2. texts = [k \in 1 .. 3 |-> texts[k]] /\ texts[1] = u /\ texts[2] = v /\ texts[3] = w
    BY <2>1
  <2> HIDE DEF texts, u, v, w
  <2>3. IsChain(texts) /\ Len(texts) = 3
    BY <2>2, FunChain
  <2>4. \A k \in 1 .. Len(texts) : IsChain(texts[k])
    BY <1>5, <1>6, <2>2, <2>3
  <2>5. PICK g : /\ g[0] = <<>>
                 /\ \A k \in 1 .. 3 : g[k] = g[k - 1] \o texts[k]
                 /\ g[3] = FlattenSeq(texts)
    BY <2>3, <2>4, FlattenSteps
  <2>6. g[1] = g[0] \o texts[1] /\ g[2] = g[1] \o texts[2] /\ g[3] = g[2] \o texts[3]
    <3>1. 1 \in 1 .. 3 /\ 2 \in 1 .. 3 /\ 3 \in 1 .. 3 /\ 1 - 1 = 0 /\ 2 - 1 = 1 /\ 3 - 1 = 2
      OBVIOUS
    <3> QED BY <2>5, <3>1
  <2>7. g[1] = u
    BY <1>5, <2>2, <2>5, <2>6, EmptyAdds
  <2> QED BY <2>2, <2>5, <2>6, <2>7 DEF SectionTexts, texts
<1>13. Leads(RenderAll(sections), Main, e, Memo(x, Line, <<>>, 0), q)
  <2> DEFINE chains == [k \in DOMAIN sections |-> Render(sections[k])]
             p1 == Memo(x, Line, <<>>, 0)
             p2 == Memo(x \o u, Line, <<>>, 0)
             p3 == Memo((x \o u) \o v, Line, <<>>, 0)
             g == [k \in 0 .. 3 |-> IF k = 0 THEN p1 ELSE IF k = 1 THEN p2 ELSE IF k = 2 THEN p3 ELSE q]
  <2>1. DOMAIN sections = 1 .. 3
    BY <1>2, ChainFun
  <2>2. /\ chains = [k \in 1 .. 3 |-> chains[k]]
        /\ chains[1] = RenderSection(s1) /\ chains[2] = RenderSection(s2)
        /\ chains[3] = RenderIterator(s3)
    BY <1>2, <2>1 DEF Render, Sectioned, Itemized
  <2>3. Leads(chains[1], Main, e, p1, p2) /\ Leads(chains[2], Main, e, p2, p3) /\ Leads(chains[3], Main, e, p3, q)
    BY <1>7, <1>9, <1>11, <2>2
  <2> HIDE DEF chains, p1, p2, p3
  <2>4. g[0] = p1 /\ g[1] = p2 /\ g[2] = p3 /\ g[3] = q
    OBVIOUS
  <2> HIDE DEF g
  <2>5. IsChain(chains) /\ Len(chains) = 3
    BY <2>2, FunChain
  <2>6. ASSUME NEW k \in 1 .. 3 PROVE Leads(chains[k], Main, e, g[k - 1], g[k])
    <3>1. CASE k = 1
      <4>1. k - 1 = 0
        BY <3>1
      <4> QED BY <2>3, <2>4, <3>1, <4>1
    <3>2. CASE k = 2
      <4>1. k - 1 = 1
        BY <3>2
      <4> QED BY <2>3, <2>4, <3>2, <4>1
    <3>3. CASE k = 3
      <4>1. k - 1 = 2
        BY <3>3
      <4> QED BY <2>3, <2>4, <3>3, <4>1
    <3> QED BY <3>1, <3>2, <3>3
  <2>7. Leads(FlattenSeq(chains), Main, e, g[0], g[3])
    BY <2>5, <2>6, LeadsAll
  <2>8. Leads(FlattenSeq(chains), Main, e, p1, q)
    BY <2>4, <2>7
  <2> QED BY <2>8 DEF RenderAll, chains, p1
<1>14. Leads(head \o RenderAll(sections), Main, e, Fresh(Line), q)
  BY <1>4, <1>13, LeadsJoin DEF Fresh
<1> HIDE DEF u, v, w, f, fields
<1>15. Everything(e) = ((x \o u) \o v) \o w /\ IsChain(((x \o u) \o v) \o f)
  <2>1. ((x \o u) \o v) \o w = x \o ((u \o v) \o w)
    <3>1. IsChain(x) /\ IsChain(u) /\ IsChain(v) /\ IsChain(w)
      BY <1>4, <1>5, <1>6
    <3> DEFINE z == v \o w
    <3>2. IsChain(x \o u) /\ IsChain(z) /\ (u \o v) \o w = u \o z
      BY <3>1, Joined, Regrouped
    <3>3. ((x \o u) \o v) \o w = (x \o u) \o z
      BY <3>1, <3>2, Regrouped
    <3> HIDE DEF z
    <3>4. (x \o u) \o z = x \o (u \o z)
      BY <3>1, <3>2, Regrouped
    <3> QED BY <3>2, <3>3, <3>4
  <2> DEFINE y == (x \o u) \o v
  <2>2. IsChain(y)
    BY <1>8
  <2> HIDE DEF y
  <2>3. IsChain(y \o f)
    BY <1>6, <2>2, Joined
  <2> QED BY <1>1, <1>12, <2>1, <2>3 DEF y
<1>16. Fitting(q.text, e)
  <2> DEFINE y == (x \o u) \o v
  <2>1. IsChain(y)
    BY <1>8
  <2>2. q.text = y \o f /\ Everything(e) = y \o w /\ IsChain(y \o f)
    BY <1>11, <1>15
  <2> HIDE DEF y
  <2>3. Begins(y \o f, y \o w)
    BY <1>6, <2>1, BeginsBehind
  <2>4. IsPrefix(y \o f, y \o w)
    BY <2>2, <2>3, BeginsIsPrefix
  <2>5. Len(Records(e)) <= 1 => q.text = Everything(e)
    BY <1>6, <2>2
  <2> QED BY <2>2, <2>4, <2>5 DEF Fitting
<1> QED BY <1>1, <1>14, <1>16, FinishesWell

-----------------------------------------------------------------------------
(***************************************************************************)
(* An execution is where the annotations of its parser's chain expect it.  *)
(***************************************************************************)

\* The chain of the parser whose output reads a field that is never there.
LEMMA DomainWhole ==
  \E given : Whole(OpenSearchStates, given)
<1> DEFINE fields == {"$.Detail.event", "$.Detail.status", "$.Domain.name"}
           given == fields \cup {"$.Domain.Region", "$.Domain.Name"}
           sections == DomainSections
<1>1. IsChain(sections) /\ Len(sections) = 1 /\ Sectional(sections[1], given)
  BY DomainParts
<1>2. fields \subseteq given
  OBVIOUS
<1> HIDE DEF sections, given
<1>3. Guarded(Render(sections[1]), given)
  BY <1>1, SectionGuarded DEF Render, Sectional
<1>4. Guarded(RenderAll(sections), given)
  BY <1>1, <1>3, AllGuarded
<1>5. Whole(OpenSearchStates, given)
  BY <1>2, <1>4, WithOutput DEF OpenSearchStates, sections
<1> QED BY <1>5

\* The chain of any parser leads to a fitting text, whatever its event.
LEMMA AllFinish ==
  ASSUME NEW e \in Events
  PROVE  /\ Finishes(States(e.parser), e) /\ IsChain(e.items) /\ DOMAIN e.items \subseteq Threads \ {Main}
         /\ \E given : Whole(States(e.parser), given)
<1>1. /\ e.parser \in {"InspectorFinding", "ConfigComplianceChange", "OpenSearchEvent",
                       "GuardDutyFinding", "SecurityHubFinding", "EcrScanFinding"}
      /\ e.items \in Seq(SUBSET STRING) /\ Len(e.items) <= MaxItems /\ MaxItems \in Nat
  BY DescriptionsAssumption
<1>2. IsChain(e.items)
  BY <1>1 DEF IsChain
<1>3. DOMAIN e.items \subseteq Threads \ {Main}
  BY <1>1 DEF Threads, Main
<1>4. CASE e.parser = "InspectorFinding"
  <2>1. States(e.parser) = InspectorStates
    BY <1>4 DEF States
  <2> QED BY <1>2, <1>3, <1>4, <2>1, InspectorFinishes, InspectorWhole
<1>5. CASE e.parser = "ConfigComplianceChange"
  <2>1. States(e.parser) = ConfigStates
    BY <1>5 DEF States
  <2> QED BY <1>2, <1>3, <1>5, <2>1, ConfigFinishes, ConfigWhole
<1>6. CASE e.parser = "OpenSearchEvent"
  <2>1. States(e.parser) = OpenSearchStates
    BY <1>6 DEF States
  <2> QED BY <1>2, <1>3, <1>6, <2>1, DomainFinishes, DomainWhole
<1>7. CASE e.parser = "GuardDutyFinding"
  <2>1. States(e.parser) = GuardDutyStates
    BY <1>7 DEF States
  <2> QED BY <1>2, <1>3, <1>7, <2>1, GuardDutyFinishes, GuardDutyWhole
<1>8. CASE e.parser = "SecurityHubFinding"
  <2>1. States(e.parser) = SecurityHubStates
    BY <1>8 DEF States
  <2> QED BY <1>2, <1>3, <1>8, <2>1, SecurityHubFinishes, SecurityHubWhole
<1>9. CASE e.parser = "EcrScanFinding"
  <2>1. States(e.parser) = EcrStates
    BY <1>9 DEF States
  <2> QED BY <1>2, <1>3, <1>9, <2>1, EcrFinishes, EcrWhole
<1> QED BY <1>1, <1>4, <1>5, <1>6, <1>7, <1>8, <1>9

-----------------------------------------------------------------------------
\* What is true of the places of a parser's chain, and of its end: nothing gets there.
Charts(A, e) ==
    /\ Walks(A, States(e.parser), Main, e)
    /\ Fresh(Line) \in A[1] /\ A[Len(States(e.parser)) + 1] = {}

\* The memos of the execution and of an iteration, as they are.
MainMemo == Memo(text[Main], delimiter[Main], records, index)
ItemMemo(t) == Memo(text[t], delimiter[t], <<>>, 0)

\* The execution is at a place that every chart expects it at, as it is.
Placed ==
    /\ pc[Main] \in 1 .. Len(States(event.parser))
    /\ \A A : Charts(A, event) => MainMemo \in A[pc[Main]]

\* So is an iteration in the chain of the Map; one that has not started is fresh.
Iterating(t) ==
    /\ pc[t] = 0 => text[t] = <<>> /\ delimiter[t] = Empty
    /\ pc[t] # 0 => /\ Current.do = "map" /\ t \in Items
                    /\ \A B : Iterates(B, Current.body, t, event) => ItemMemo(t) \in B[pc[t]]

\* Program counters, texts and delimiters are those of the execution and its iterations.
ThreadsAreThere ==
    /\ pc \in [Threads -> Nat]
    /\ text = [t \in Threads |-> text[t]]
    /\ delimiter = [t \in Threads |-> delimiter[t]]

\* The inductive invariant: every frame is where all charts expect it.
FaithfulIInv ==
    /\ event \in Events \cup {NoEvent}
    /\ status = "idle" =>
        /\ pc = [t \in Threads |-> IF t = Main THEN 1 ELSE 0]
        /\ text = [t \in Threads |-> <<>>]
        /\ delimiter = [t \in Threads |-> IF t = Main THEN Line ELSE Empty]
        /\ records = <<>> /\ index = 0
    /\ status # "idle" => event \in Events
    /\ status \in {"running", "done"} => ThreadsAreThere /\ Placed
    /\ status = "running" =>
        /\ \A t \in Threads \ {Main} : Iterating(t)
        /\ \A t, u \in Items : pc[t] = 0 <=> pc[u] = 0
    /\ status = "done" => Current.do = "output"

-----------------------------------------------------------------------------
\* A step of the execution: every chart knows the place it comes to.
LEMMA PlacedStep ==
  ASSUME event \in Events, Placed, event' = event, NEW jump,
         Moves(Current, Main, event, MainMemo, jump, MainMemo'), pc'[Main] = pc[Main] + jump
  PROVE  Placed'
<1> DEFINE states == States(event.parser)
           n == Len(states)
<1>1. Current = states[pc[Main]] /\ pc[Main] \in 1 .. n
  BY DEF Current, Placed
<1>2. ASSUME NEW A, Charts(A, event)
      PROVE  jump \in Int /\ pc[Main] + jump \in 1 .. n + 1 /\ MainMemo' \in A[pc[Main] + jump]
  <2>1. MainMemo \in A[pc[Main]] /\ Walks(A, states, Main, event)
    BY <1>2 DEF Placed, Charts
  <2> HIDE DEF states
  <2> QED BY <1>1, <2>1 DEF Walks
<1>3. \E A : Charts(A, event)
  BY AllFinish DEF Charts, Finishes
<1>4. pc'[Main] \in 1 .. n
  <2>1. PICK A : Charts(A, event)
    BY <1>3
  <2>2. pc[Main] + jump \in 1 .. n + 1 /\ pc[Main] + jump # n + 1
    BY <1>2, <2>1 DEF Charts
  <2>3. n \in Nat
    BY AllFinish, ChainFun DEF Whole, Guarded
  <2> QED BY <2>2, <2>3
<1>5. States(event.parser)' = states
  OBVIOUS
<1>6. \A A : Charts(A, event)' => Charts(A, event)
  OBVIOUS
<1> HIDE DEF states
<1>7. ASSUME NEW A, Charts(A, event)' PROVE MainMemo' \in A[pc'[Main]]
  BY <1>2, <1>6, <1>7
<1> QED BY <1>4, <1>5, <1>7 DEF Placed

\* Where a running execution is.
LEMMA RunningIsThere ==
  ASSUME FaithfulIInv, status = "running"
  PROVE  /\ event \in Events /\ ThreadsAreThere /\ Placed /\ Main \in Threads
         /\ \A t \in Threads \ {Main} : Iterating(t)
         /\ Items \subseteq Threads \ {Main}
         /\ StateOf(Main) = Current /\ Has(Main) = FieldsOf(event, Main)
<1>1. event \in Events
  BY DEF FaithfulIInv
<1>2. DOMAIN event.items \subseteq Threads \ {Main}
  BY <1>1, AllFinish
<1> QED BY <1>1, <1>2, MainIsThread DEF FaithfulIInv, Items, StateOf, Has, FieldsOf

\* A step of the execution itself, which is not at a Map.
LEMMA MainKeeps ==
  ASSUME FaithfulIInv, status = "running", Current.do # "map", event' = event, status' = "running",
         NEW jump, Moves(Current, Main, event, MainMemo, jump, MainMemo'),
         pc' = [pc EXCEPT ![Main] = pc[Main] + jump],
         text' = [t \in Threads |-> text'[t]], delimiter' = [t \in Threads |-> delimiter'[t]],
         \A t \in Threads \ {Main} : text'[t] = text[t] /\ delimiter'[t] = delimiter[t]
  PROVE  FaithfulIInv'
<1>1. /\ event \in Events /\ ThreadsAreThere /\ Placed /\ Main \in Threads
      /\ \A t \in Threads \ {Main} : Iterating(t)
      /\ Items \subseteq Threads \ {Main}
  BY RunningIsThere
<1>2. pc'[Main] = pc[Main] + jump /\ \A t \in Threads \ {Main} : pc'[t] = pc[t]
  BY <1>1 DEF ThreadsAreThere
<1>3. Placed'
  BY <1>1, <1>2, PlacedStep
<1>4. \A t \in Threads \ {Main} : pc[t] = 0 /\ text[t] = <<>> /\ delimiter[t] = Empty
  BY <1>1 DEF Iterating
<1>5. \A t \in Threads \ {Main} : pc'[t] = 0 /\ text'[t] = <<>> /\ delimiter'[t] = Empty
  BY <1>2, <1>4
<1>6. ASSUME NEW t \in Threads \ {Main} PROVE Iterating(t)'
  BY <1>5 DEF Iterating
<1>7. Items' = Items /\ \A t, u \in Items : pc'[t] = 0 <=> pc'[u] = 0
  BY <1>1, <1>5 DEF Items
<1>8. pc' \in [Threads -> Nat]
  <2>1. pc'[Main] \in 1 .. Len(States(event.parser))
    BY <1>3 DEF Placed
  <2>2. pc'[Main] \in Nat
    <3>1. Len(States(event.parser)) \in Nat
      BY <1>1, AllFinish, ChainFun DEF Whole, Guarded
    <3> QED BY <2>1, <3>1
  <2>3. pc' = [t \in Threads |-> pc'[t]]
    BY <1>1 DEF ThreadsAreThere
  <2>4. \A t \in Threads : pc'[t] \in Nat
    <3>1. \A t \in Threads \ {Main} : pc'[t] = 0
      BY <1>5
    <3> QED BY <2>2, <3>1
  <2> QED BY ONLY <2>3, <2>4
<1>9. ThreadsAreThere'
  BY <1>8 DEF ThreadsAreThere
<1> QED BY <1>1, <1>3, <1>6, <1>7, <1>9 DEF FaithfulIInv

\* A step of an iteration in the chain of its Map.
LEMMA ItemKeeps ==
  ASSUME FaithfulIInv, status = "running", NEW t \in Threads \ {Main},
         event' = event, status' = "running", records' = records, index' = index,
         NEW k \in 1 .. Len(Current.body), k = pc[t], NEW jump \in Nat, jump # 0,
         pc' = [pc EXCEPT ![t] = k + jump],
         Passes(Current.body[k], t, event, ItemMemo(t), jump, ItemMemo(t)'),
         text' = [u \in Threads |-> text'[u]], delimiter' = [u \in Threads |-> delimiter'[u]],
         \A u \in Threads : u # t => text'[u] = text[u] /\ delimiter'[u] = delimiter[u]
  PROVE  FaithfulIInv'
<1>1. /\ event \in Events /\ ThreadsAreThere /\ Placed /\ Main \in Threads
      /\ \A u \in Threads \ {Main} : Iterating(u)
      /\ Items \subseteq Threads \ {Main}
  BY RunningIsThere
<1>2. k \in Nat /\ k # 0
  <2>1. k \in Int /\ k >= 1
    OBVIOUS
  <2> QED BY <2>1
<1>3. /\ pc' \in [Threads -> Nat] /\ pc'[t] = k + jump /\ pc'[t] # 0
      /\ \A u \in Threads : u # t => pc'[u] = pc[u]
  BY <1>1, <1>2 DEF ThreadsAreThere
<1>4. Current' = Current /\ Items' = Items /\ pc'[Main] = pc[Main] /\ MainMemo' = MainMemo
  BY <1>1, <1>3 DEF Current, Items, MainMemo
<1>5. Placed'
  BY <1>1, <1>4 DEF Placed
<1>6. ASSUME NEW u \in Threads \ {Main} PROVE Iterating(u)'
  <2>1. CASE u # t
    <3>1. pc'[u] = pc[u] /\ text'[u] = text[u] /\ delimiter'[u] = delimiter[u] /\ ItemMemo(u)' = ItemMemo(u)
      BY <1>3, <2>1 DEF ItemMemo
    <3> QED BY <1>1, <1>4, <3>1 DEF Iterating
  <2>2. CASE u = t
    <3>1. Current.do = "map" /\ t \in Items
      BY <1>1, <1>2 DEF Iterating
    <3>2. ASSUME NEW B, Iterates(B, Current.body, t, event) PROVE ItemMemo(t)' \in B[k + jump]
      <4>1. ItemMemo(t) \in B[k]
        BY <1>1, <1>2, <3>2 DEF Iterating
      <4> QED BY <3>2, <4>1 DEF Iterates
    <3> QED BY <1>3, <1>4, <2>2, <3>1, <3>2 DEF Iterating
  <2> QED BY <2>1, <2>2
<1>7. \A u, v \in Items : pc'[u] = 0 <=> pc'[v] = 0
  <2>1. \A u, v \in Items : pc[u] = 0 <=> pc[v] = 0
    BY DEF FaithfulIInv
  <2>2. t \in Items /\ pc[t] # 0
    BY <1>1, <1>2 DEF Iterating
  <2>3. \A u \in Items : pc[u] # 0
    BY <2>1, <2>2
  <2>4. \A u \in Items : pc'[u] # 0
    BY <1>1, <1>3, <2>3
  <2> QED BY <2>4
<1>8. ThreadsAreThere'
  BY <1>3 DEF ThreadsAreThere
<1> QED BY <1>1, <1>4, <1>5, <1>6, <1>7, <1>8 DEF FaithfulIInv

\* The chain of an iteration: its places are numbers, and its Choices lead on.
LEMMA BodyIsThere ==
  ASSUME event \in Events, Placed, Current.do = "map"
  PROVE  Guarded(Current.body, {}) /\ Len(Current.body) \in Nat
<1>1. PICK given : Whole(States(event.parser), given)
  BY AllFinish
<1>2. MadeOf(Current.body)
  BY <1>1 DEF Whole, Guarded, Current, Placed
<1>3. Guarded(Current.body, {})
  BY <1>2, MadeGuarded
<1> QED BY <1>3, ChainFun DEF Guarded

\* An iteration that runs is somewhere in that chain.
LEMMA ItemIsThere ==
  ASSUME FaithfulIInv, NEW t \in Threads \ {Main}, Running(t)
  PROVE  /\ Current.do = "map" /\ pc[t] \in 1 .. Len(Current.body) /\ pc[t] \in Nat
         /\ Guarded(Current.body, {}) /\ StateOf(t) = Current.body[pc[t]]
         /\ Has(t) = FieldsOf(event, t)
<1>1. /\ status = "running" /\ pc[t] > 0 /\ pc[t] <= Len(Current.body)
  BY DEF Running
<1>2. event \in Events /\ Placed /\ Iterating(t) /\ pc[t] \in Nat
  BY <1>1, RunningIsThere DEF ThreadsAreThere
<1>3. Current.do = "map"
  BY <1>1, <1>2 DEF Iterating
<1>4. Guarded(Current.body, {}) /\ Len(Current.body) \in Nat
  BY <1>2, <1>3, BodyIsThere
<1>5. pc[t] \in 1 .. Len(Current.body)
  BY <1>1, <1>2, <1>4
<1> QED BY <1>2, <1>3, <1>4, <1>5 DEF StateOf, Has, FieldsOf

\* What an Extend writes is what the memo says.
LEMMA ExtendIs ==
  ASSUME NEW t \in Threads, NEW before, NEW tokens, NEW after, ThreadsAreThere,
         Extend(t, before, tokens, after)
  PROVE  /\ text' = [u \in Threads |-> text'[u]] /\ delimiter' = [u \in Threads |-> delimiter'[u]]
         /\ \A u \in Threads : u # t => text'[u] = text[u] /\ delimiter'[u] = delimiter[u]
         /\ \A recs, place : Memo(text'[t], delimiter'[t], recs, place) =
                Extended(Memo(text[t], delimiter[t], recs, place), before, tokens, after)
<1> DEFINE used == IF before = Kept THEN delimiter[t] ELSE before
           parted == IF used = Empty THEN <<>> ELSE <<used>>
           x == text[t] \o parted \o tokens
           d == IF after = Kept THEN delimiter[t] ELSE after
<1>1. text' = [text EXCEPT ![t] = x] /\ delimiter' = [delimiter EXCEPT ![t] = d]
  BY DEF Extend
<1>2. \A recs, place : Memo(x, d, recs, place) =
          Extended(Memo(text[t], delimiter[t], recs, place), before, tokens, after)
  BY DEF Extended, Memo, Used
<1> HIDE DEF x, d
<1>3. text'[t] = x /\ delimiter'[t] = d
  BY <1>1 DEF ThreadsAreThere
<1>4. \A u \in Threads : u # t => text'[u] = text[u] /\ delimiter'[u] = delimiter[u]
  BY <1>1 DEF ThreadsAreThere
<1>5. text' = [u \in Threads |-> text'[u]] /\ delimiter' = [u \in Threads |-> delimiter'[u]]
  BY <1>1 DEF ThreadsAreThere
<1> QED BY <1>2, <1>3, <1>4, <1>5

\* Nothing is claimed of an execution that has failed.
LEMMA FailKeeps ==
  ASSUME FaithfulIInv, status = "running", Fail PROVE FaithfulIInv'
BY DEF FaithfulIInv, Fail

\* A Pass state, of the execution and of an iteration.
LEMMA AddKeeps ==
  ASSUME FaithfulIInv, NEW t \in Threads, Add(t) PROVE FaithfulIInv'
<1> DEFINE here == StateOf(t)
           tokens == Token(here, t)
<1>1. status = "running" /\ here.do = "add" /\ Running(t)
  BY DEF Add, Running
<1>2. CASE ~(here.reads \subseteq Has(t))
  BY <1>1, <1>2, FailKeeps DEF Add
<1>3. CASE here.reads \subseteq Has(t)
  <2>1. /\ Extend(t, here.before, tokens, here.after)
        /\ pc' = [pc EXCEPT ![t] = pc[t] + 1]
        /\ event' = event /\ status' = "running" /\ records' = records /\ index' = index
    BY <1>1, <1>3 DEF Add, Goto, Token
  <2>2. ThreadsAreThere /\ Main \in Threads /\ StateOf(Main) = Current /\ Has(Main) = FieldsOf(event, Main)
    BY <1>1, RunningIsThere
  <2>3. /\ text' = [u \in Threads |-> text'[u]] /\ delimiter' = [u \in Threads |-> delimiter'[u]]
        /\ \A u \in Threads : u # t => text'[u] = text[u] /\ delimiter'[u] = delimiter[u]
        /\ \A recs, place : Memo(text'[t], delimiter'[t], recs, place) =
                Extended(Memo(text[t], delimiter[t], recs, place), here.before, tokens, here.after)
    BY <2>1, <2>2, ExtendIs
  <2>4. CASE t = Main
    <3>1. MainMemo' = Extended(MainMemo, Current.before, Token(Current, Main), Current.after)
      BY <2>1, <2>2, <2>3, <2>4 DEF MainMemo
    <3>2. Current.do = "add" /\ Current.reads \subseteq FieldsOf(event, Main)
      BY <1>1, <1>3, <2>2, <2>4
    <3>3. Moves(Current, Main, event, MainMemo, 1, MainMemo')
      BY <3>1, <3>2 DEF Moves, Passes
    <3> QED BY <1>1, <2>1, <2>3, <2>4, <3>2, <3>3, MainKeeps
  <2>5. CASE t # Main
    <3>1. /\ pc[t] \in 1 .. Len(Current.body) /\ here = Current.body[pc[t]]
          /\ Has(t) = FieldsOf(event, t)
      BY <1>1, <2>5, ItemIsThere
    <3>2. ItemMemo(t)' = Extended(ItemMemo(t), here.before, tokens, here.after)
      BY <2>3 DEF ItemMemo
    <3>3. Passes(Current.body[pc[t]], t, event, ItemMemo(t), 1, ItemMemo(t)')
      BY <1>1, <1>3, <3>1, <3>2 DEF Passes
    <3>4. t \in Threads \ {Main} /\ 1 \in Nat /\ 1 # 0
      BY <2>5
    <3> DEFINE k == pc[t]
    <3>5. k \in 1 .. Len(Current.body) /\ k = pc[t] /\ pc' = [pc EXCEPT ![t] = k + 1]
      BY <2>1, <3>1
    <3>6. Passes(Current.body[k], t, event, ItemMemo(t), 1, ItemMemo(t)')
      BY <3>3
    <3> HIDE DEF k, here, tokens
    <3> QED BY <1>1, <2>1, <2>3, <3>4, <3>5, <3>6, ItemKeeps
  <2> QED BY <2>4, <2>5
<1> QED BY <1>2, <1>3

\* A Choice state, of the execution and of an iteration.
LEMMA CheckKeeps ==
  ASSUME FaithfulIInv, NEW t \in Threads, Check(t) PROVE FaithfulIInv'
<1> DEFINE here == StateOf(t)
           jump == IF here.reads \cap Has(t) # {} THEN 1 ELSE 1 + here.skip
<1>1. /\ status = "running" /\ here.do = "check" /\ Running(t)
      /\ pc' = [pc EXCEPT ![t] = pc[t] + jump]
      /\ UNCHANGED <<event, status, text, delimiter, records, index>>
  BY DEF Check, Running, Goto
<1>2. ThreadsAreThere /\ Main \in Threads /\ StateOf(Main) = Current /\ Has(Main) = FieldsOf(event, Main)
  BY <1>1, RunningIsThere
<1>3. /\ text' = [u \in Threads |-> text'[u]] /\ delimiter' = [u \in Threads |-> delimiter'[u]]
      /\ \A u \in Threads : text'[u] = text[u] /\ delimiter'[u] = delimiter[u]
  BY <1>1, <1>2 DEF ThreadsAreThere
<1>4. CASE t = Main
  <2>1. MainMemo' = MainMemo
    BY <1>1 DEF MainMemo
  <2>2. Current.do = "check"
    BY <1>1, <1>2, <1>4
  <2>3. jump = IF Current.reads \cap FieldsOf(event, Main) # {} THEN 1 ELSE 1 + Current.skip
    BY <1>2, <1>4
  <2> HIDE DEF jump
  <2>4. Moves(Current, Main, event, MainMemo, jump, MainMemo')
    BY <2>1, <2>2, <2>3 DEF Moves, Passes
  <2> QED BY <1>1, <1>3, <1>4, <2>2, <2>4, MainKeeps
<1>5. CASE t # Main
  <2>1. /\ pc[t] \in 1 .. Len(Current.body) /\ here = Current.body[pc[t]]
        /\ Has(t) = FieldsOf(event, t) /\ Guarded(Current.body, {})
    BY <1>1, <1>5, ItemIsThere
  <2>2. ItemMemo(t)' = ItemMemo(t)
    BY <1>1 DEF ItemMemo
  <2>3. here.skip \in Nat
    BY <1>1, <2>1 DEF Guarded
  <2>4. jump \in Nat /\ jump # 0
    BY <2>3
  <2>5. jump = IF here.reads \cap FieldsOf(event, t) # {} THEN 1 ELSE 1 + here.skip
    BY <2>1
  <2> HIDE DEF jump
  <2>6. Passes(Current.body[pc[t]], t, event, ItemMemo(t), jump, ItemMemo(t)')
    BY <1>1, <2>1, <2>2, <2>5 DEF Passes
  <2> QED BY <1>1, <1>3, <1>5, <2>1, <2>4, <2>6, ItemKeeps
<1> QED BY <1>4, <1>5

\* The states of the execution's chain that neither read the event nor start a Map.
LEMMA OthersKeep ==
  ASSUME FaithfulIInv, SetDelimiter \/ Initialize \/ While \/ AddRecord \/ Step
  PROVE  FaithfulIInv'
<1>1. status = "running"
  BY DEF SetDelimiter, Initialize, While, AddRecord, Step, Running
<1>2. ThreadsAreThere /\ Main \in Threads
  BY <1>1, RunningIsThere
<1>3. ASSUME UNCHANGED <<text, delimiter>>
      PROVE  /\ text' = [u \in Threads |-> text'[u]] /\ delimiter' = [u \in Threads |-> delimiter'[u]]
             /\ \A u \in Threads : text'[u] = text[u] /\ delimiter'[u] = delimiter[u]
  BY <1>2, <1>3 DEF ThreadsAreThere
<1>4. CASE SetDelimiter
  <2>1. /\ Current.do = "delimiter" /\ delimiter' = [delimiter EXCEPT ![Main] = Current.after]
        /\ pc' = [pc EXCEPT ![Main] = pc[Main] + 1]
        /\ UNCHANGED <<event, status, text, records, index>>
    BY <1>4 DEF SetDelimiter, Goto
  <2>2. /\ text' = [u \in Threads |-> text'[u]] /\ delimiter' = [u \in Threads |-> delimiter'[u]]
        /\ \A u \in Threads \ {Main} : text'[u] = text[u] /\ delimiter'[u] = delimiter[u]
        /\ delimiter'[Main] = Current.after
    BY <1>2, <2>1 DEF ThreadsAreThere
  <2>3. MainMemo' = Memo(MainMemo.text, Current.after, MainMemo.records, MainMemo.index)
    BY <2>1, <2>2 DEF MainMemo, Memo
  <2>4. Moves(Current, Main, event, MainMemo, 1, MainMemo')
    BY <2>1, <2>3 DEF Moves
  <2> QED BY <1>1, <2>1, <2>2, <2>4, MainKeeps
<1>5. CASE Initialize
  <2>1. /\ Current.do = "initialize" /\ index' = 0
        /\ records' = IF Current.over = Empty THEN records
                      ELSE [i \in DOMAIN event.items |-> <<<<Current.field, i>>>>]
        /\ pc' = [pc EXCEPT ![Main] = pc[Main] + 1]
        /\ UNCHANGED <<event, status, text, delimiter>>
    BY <1>5 DEF Initialize, Goto, Items
  <2>2. MainMemo' = Memo(MainMemo.text, MainMemo.delimiter,
                         IF Current.over = Empty THEN MainMemo.records
                         ELSE [i \in DOMAIN event.items |-> <<<<Current.field, i>>>>], 0)
    BY <2>1 DEF MainMemo, Memo
  <2>3. Moves(Current, Main, event, MainMemo, 1, MainMemo')
    BY <2>1, <2>2 DEF Moves
  <2> QED BY <1>1, <1>3, <2>1, <2>3, MainKeeps
<1>6. CASE While
  <2> DEFINE jump == IF index < Len(records) THEN 1 ELSE 1 + Current.skip
  <2>1. /\ Current.do = "while" /\ pc' = [pc EXCEPT ![Main] = pc[Main] + jump]
        /\ UNCHANGED <<event, status, text, delimiter, records, index>>
    BY <1>6 DEF While, Goto
  <2>2. MainMemo' = MainMemo /\ MainMemo.index = index /\ MainMemo.records = records
    BY <2>1 DEF MainMemo, Memo
  <2>3. Moves(Current, Main, event, MainMemo, jump, MainMemo')
    BY <2>1, <2>2 DEF Moves
  <2> HIDE DEF jump
  <2> QED BY <1>1, <1>3, <2>1, <2>3, MainKeeps
<1>7. CASE AddRecord
  <2>1. /\ Current.do = "record"
        /\ Extend(Main, Current.before, records[index + 1], Current.after)
        /\ pc' = [pc EXCEPT ![Main] = pc[Main] + 1]
        /\ UNCHANGED <<event, status, records, index>>
    BY <1>7 DEF AddRecord, Goto
  <2> DEFINE tokens == records[index + 1]
  <2>2. /\ text' = [u \in Threads |-> text'[u]] /\ delimiter' = [u \in Threads |-> delimiter'[u]]
        /\ \A u \in Threads : u # Main => text'[u] = text[u] /\ delimiter'[u] = delimiter[u]
        /\ \A recs, place : Memo(text'[Main], delimiter'[Main], recs, place) =
              Extended(Memo(text[Main], delimiter[Main], recs, place), Current.before, tokens, Current.after)
    <3> HIDE DEF tokens
    <3>1. Extend(Main, Current.before, tokens, Current.after)
      BY <2>1 DEF tokens
    <3> QED BY <1>2, <3>1, ExtendIs
  <2>3. MainMemo' = Extended(MainMemo, Current.before, tokens, Current.after)
    BY <2>1, <2>2 DEF MainMemo
  <2>4. tokens = MainMemo.records[MainMemo.index + 1]
    BY DEF MainMemo, Memo
  <2> HIDE DEF tokens
  <2>5. Moves(Current, Main, event, MainMemo, 1, MainMemo')
    BY <2>1, <2>3, <2>4 DEF Moves
  <2> QED BY <1>1, <2>1, <2>2, <2>5, MainKeeps
<1>8. CASE Step
  <2> DEFINE jump == 1 - Current.back
  <2>1. /\ Current.do = "step" /\ index' = index + 1 /\ pc' = [pc EXCEPT ![Main] = pc[Main] + jump]
        /\ UNCHANGED <<event, status, text, delimiter, records>>
    BY <1>8 DEF Step, Goto
  <2>2. MainMemo' = Memo(MainMemo.text, MainMemo.delimiter, MainMemo.records, MainMemo.index + 1)
    BY <2>1 DEF MainMemo, Memo
  <2>3. Moves(Current, Main, event, MainMemo, jump, MainMemo')
    BY <2>1, <2>2 DEF Moves
  <2> HIDE DEF jump
  <2> QED BY <1>1, <1>3, <2>1, <2>3, MainKeeps
<1> QED BY <1>4, <1>5, <1>6, <1>7, <1>8

\* The iterations of a Map start together, each of them afresh.
LEMMA StartKeeps ==
  ASSUME FaithfulIInv, StartMap PROVE FaithfulIInv'
<1>1. status = "running" /\ Current.do = "map" /\ (Items # {} => pc[1] = 0)
  BY DEF StartMap, Running
<1>2. CASE Current.over \notin Data(event)
  BY <1>1, <1>2, FailKeeps DEF StartMap
<1>3. CASE Current.over \in Data(event)
  <2>1. /\ Items # {} /\ pc' = [t \in Threads |-> IF t \in Items THEN 1 ELSE pc[t]]
        /\ UNCHANGED <<event, status, text, delimiter, records, index>>
    BY <1>3 DEF StartMap
  <2>2. /\ event \in Events /\ ThreadsAreThere /\ Placed /\ Main \in Threads
        /\ \A t \in Threads \ {Main} : Iterating(t)
        /\ Items \subseteq Threads \ {Main}
    BY <1>1, RunningIsThere
  <2>3. 1 \in Items
    <3>1. IsChain(event.items)
      BY <2>2, AllFinish
    <3>2. Len(event.items) \in Nat /\ Items = 1 .. Len(event.items)
      BY <3>1, ChainFun DEF Items
    <3> QED BY <2>1, <3>2
  <2>4. \A t \in Items : pc[t] = 0
    <3>1. pc[1] = 0
      BY <1>1, <2>1
    <3> QED BY <1>1, <2>3, <3>1 DEF FaithfulIInv
  <2>5. /\ pc' \in [Threads -> Nat] /\ pc'[Main] = pc[Main]
        /\ \A t \in Items : pc'[t] = 1
        /\ \A t \in Threads : t \notin Items => pc'[t] = pc[t]
    BY <2>1, <2>2 DEF ThreadsAreThere
  <2>6. Current' = Current /\ Items' = Items /\ MainMemo' = MainMemo
    BY <2>1, <2>5 DEF Current, Items, MainMemo
  <2>7. Placed'
    BY <2>1, <2>2, <2>5, <2>6 DEF Placed
  <2>8. ASSUME NEW t \in Threads \ {Main} PROVE Iterating(t)'
    <3>1. ItemMemo(t)' = ItemMemo(t)
      BY <2>1 DEF ItemMemo
    <3>2. CASE t \in Items
      <4>1. text[t] = <<>> /\ delimiter[t] = Empty
        BY <2>2, <2>4, <3>2 DEF Iterating
      <4>2. ItemMemo(t) = Fresh(Empty)
        BY <4>1 DEF ItemMemo, Fresh
      <4>3. \A B : Iterates(B, Current.body, t, event) => ItemMemo(t) \in B[1]
        BY <4>2 DEF Iterates
      <4>4. pc'[t] = 1 /\ pc'[t] # 0
        BY <2>5, <3>2
      <4> QED BY <1>1, <2>1, <2>6, <3>1, <3>2, <4>3, <4>4 DEF Iterating
    <3>3. CASE t \notin Items
      <4>1. pc'[t] = pc[t]
        BY <2>5, <3>3
      <4> QED BY <2>1, <2>2, <2>6, <3>1, <4>1 DEF Iterating
    <3> QED BY <3>2, <3>3
  <2>9. \A t, u \in Items : pc'[t] = 0 <=> pc'[u] = 0
    BY <2>5
  <2>10. ThreadsAreThere'
    BY <2>1, <2>2, <2>5 DEF ThreadsAreThere
  <2> QED BY <1>1, <2>1, <2>2, <2>6, <2>7, <2>8, <2>9, <2>10 DEF FaithfulIInv
<1> QED BY <1>2, <1>3

\* The iterations have ended, each with a text that it can end with.
LEMMA JoinKeeps ==
  ASSUME FaithfulIInv, JoinMap PROVE FaithfulIInv'
<1>1. /\ status = "running" /\ Current.do = "map"
      /\ \A t \in Items : pc[t] = Len(Current.body) + 1
      /\ records' = Telling([t \in Items |-> text[t]])
      /\ pc' = [t \in Threads |-> IF t = Main THEN pc[Main] + 1 ELSE 0]
      /\ text' = [t \in Threads |-> IF t = Main THEN text[Main] ELSE <<>>]
      /\ delimiter' = [t \in Threads |-> IF t = Main THEN delimiter[Main] ELSE Empty]
      /\ UNCHANGED <<event, status, index>>
  BY DEF JoinMap, Running
<1>2. /\ event \in Events /\ ThreadsAreThere /\ Placed /\ Main \in Threads
      /\ \A t \in Threads \ {Main} : Iterating(t)
      /\ Items \subseteq Threads \ {Main}
  BY <1>1, RunningIsThere
<1>3. Len(Current.body) \in Nat
  BY <1>1, <1>2, BodyIsThere
<1>4. ASSUME NEW i \in DOMAIN event.items PROVE Tells(Current.body, i, event, text[i])
  <2>1. i \in Items /\ i \in Threads \ {Main} /\ pc[i] = Len(Current.body) + 1 /\ pc[i] # 0
    BY <1>1, <1>2, <1>3 DEF Items
  <2>2. \A B : Iterates(B, Current.body, i, event) => ItemMemo(i) \in B[Len(Current.body) + 1]
    BY <1>2, <2>1 DEF Iterating
  <2> QED BY <2>2 DEF Tells, ItemMemo
<1>5. MainMemo' = Memo(MainMemo.text, MainMemo.delimiter,
                       Telling([i \in DOMAIN event.items |-> text[i]]), MainMemo.index)
  <2>1. text'[Main] = text[Main] /\ delimiter'[Main] = delimiter[Main]
    BY <1>1, <1>2
  <2> QED BY <1>1, <2>1 DEF MainMemo, Memo, Items
<1>6. Moves(Current, Main, event, MainMemo, 1, MainMemo')
  BY <1>1, <1>4, <1>5 DEF Moves
<1>7. pc'[Main] = pc[Main] + 1 /\ \A t \in Threads \ {Main} : pc'[t] = 0
  BY <1>1, <1>2
<1>8. Placed'
  BY <1>1, <1>2, <1>6, <1>7, PlacedStep
<1>9. pc' \in [Threads -> Nat]
  <2>1. pc[Main] + 1 \in Nat
    BY <1>2 DEF ThreadsAreThere
  <2> QED BY <1>1, <2>1
<1>10. ThreadsAreThere'
  <2>1. /\ text' = [t \in Threads |-> text'[t]]
        /\ delimiter' = [t \in Threads |-> delimiter'[t]]
    BY <1>1
  <2> QED BY <1>9, <2>1 DEF ThreadsAreThere
<1>11. ASSUME NEW t \in Threads \ {Main} PROVE Iterating(t)'
  <2>1. text'[t] = <<>> /\ delimiter'[t] = Empty
    BY <1>1
  <2> QED BY <1>7, <2>1 DEF Iterating
<1>12. Items' = Items /\ \A t, u \in Items : pc'[t] = 0 <=> pc'[u] = 0
  BY <1>1, <1>2, <1>7 DEF Items
<1> QED BY <1>1, <1>2, <1>8, <1>10, <1>11, <1>12 DEF FaithfulIInv

\* An execution that is done is at its output.
LEMMA OutputKeeps ==
  ASSUME FaithfulIInv, FormatDescription PROVE FaithfulIInv'
<1>1. status = "running" /\ Current.do = "output"
  BY DEF FormatDescription, Running
<1>2. CASE ~(Current.reads \subseteq Data(event))
  BY <1>1, <1>2, FailKeeps DEF FormatDescription
<1>3. CASE Current.reads \subseteq Data(event)
  <2>1. status' = "done" /\ UNCHANGED <<event, pc, text, delimiter, records, index>>
    BY <1>3 DEF FormatDescription
  <2>2. event \in Events /\ ThreadsAreThere /\ Placed
    BY <1>1, RunningIsThere
  <2>3. MainMemo' = MainMemo /\ Current' = Current
    BY <2>1 DEF MainMemo, Current
  <2>4. Placed' /\ ThreadsAreThere'
    BY <2>1, <2>2, <2>3 DEF Placed, ThreadsAreThere
  <2> QED BY <1>1, <2>1, <2>2, <2>3, <2>4 DEF FaithfulIInv
<1> QED BY <1>2, <1>3

\* A parser starts at the beginning of its chain, afresh.
LEMMA ParserKeeps ==
  ASSUME FaithfulIInv, NEW e \in Events, StartParser(e) PROVE FaithfulIInv'
<1>1. /\ status' = "running" /\ event' = e /\ UNCHANGED <<pc, text, delimiter, records, index>>
      /\ pc = [t \in Threads |-> IF t = Main THEN 1 ELSE 0]
      /\ text = [t \in Threads |-> <<>>]
      /\ delimiter = [t \in Threads |-> IF t = Main THEN Line ELSE Empty]
      /\ records = <<>> /\ index = 0
  BY DEF StartParser, FaithfulIInv
<1>2. Main \in Threads /\ DOMAIN e.items \subseteq Threads \ {Main}
  BY MainIsThread, AllFinish
<1>3. /\ pc \in [Threads -> Nat] /\ pc[Main] = 1 /\ \A t \in Threads \ {Main} : pc[t] = 0
      /\ \A t \in Threads : text[t] = <<>>
      /\ delimiter[Main] = Line /\ \A t \in Threads \ {Main} : delimiter[t] = Empty
  BY <1>1, <1>2
<1>4. ThreadsAreThere'
  BY <1>1, <1>3 DEF ThreadsAreThere
<1>5. MainMemo' = Fresh(Line)
  BY <1>1, <1>2, <1>3 DEF MainMemo, Fresh
<1>6. 1 \in 1 .. Len(States(e.parser))
  <2>1. Len(States(e.parser)) \in Nat /\ Len(States(e.parser)) # 0
    BY AllFinish, ChainFun DEF Whole, Guarded
  <2> QED BY <2>1
<1>7. States(event.parser)' = States(e.parser)
  BY <1>1
<1>8. Placed'
  <2>1. \A A : Charts(A, event)' => MainMemo' \in A[1]
    BY <1>1, <1>5 DEF Charts
  <2> QED BY <1>1, <1>3, <1>6, <1>7, <2>1 DEF Placed
<1>9. ASSUME NEW t \in Threads \ {Main} PROVE Iterating(t)'
  <2>1. pc'[t] = 0 /\ text'[t] = <<>> /\ delimiter'[t] = Empty
    BY <1>1, <1>3
  <2> QED BY <2>1 DEF Iterating
<1>10. \A t, u \in Items' : pc'[t] = 0 <=> pc'[u] = 0
  BY <1>1, <1>2, <1>3 DEF Items
<1> QED BY <1>1, <1>4, <1>8, <1>9, <1>10 DEF FaithfulIInv

\* Every step keeps the invariant.
LEMMA FaithfulStep ==
  ASSUME FaithfulIInv, [DescriptionNext]_describing
  PROVE  FaithfulIInv'
<1>1. ASSUME Execute PROVE FaithfulIInv'
  BY <1>1, AddKeeps, CheckKeeps, OthersKeep, StartKeeps, JoinKeeps, OutputKeeps DEF Execute
<1>2. ASSUME UNCHANGED describing PROVE FaithfulIInv'
  <2>1. UNCHANGED <<event, status, pc, text, delimiter, records, index>>
    BY <1>2 DEF describing
  <2>2. Current' = Current /\ Items' = Items /\ MainMemo' = MainMemo
    BY <2>1 DEF Current, Items, MainMemo
  <2>3. \A t : ItemMemo(t)' = ItemMemo(t)
    BY <2>1 DEF ItemMemo
  <2>4. ThreadsAreThere' = ThreadsAreThere /\ Placed' = Placed
    BY <2>1, <2>2 DEF ThreadsAreThere, Placed
  <2>5. \A t : Iterating(t)' = Iterating(t)
    BY <2>1, <2>2, <2>3 DEF Iterating
  <2> QED BY <2>1, <2>2, <2>4, <2>5 DEF FaithfulIInv
<1> QED BY <1>1, <1>2, ParserKeeps DEF DescriptionNext

\* No parser has been executed.
LEMMA FaithfulFirst == DescriptionInit => FaithfulIInv
BY DEF DescriptionInit, FaithfulIInv

\* What an execution has written when it is done fits.
LEMMA DoneFits ==
  ASSUME FaithfulIInv PROVE DescriptionIsFaithful
<1> SUFFICES ASSUME status = "done" PROVE Fitting(text[Main], event)
  BY DEF DescriptionIsFaithful, DescriptionIsComplete, DescriptionIsInPlace, Fitting
<1>1. event \in Events /\ Placed /\ Current.do = "output"
  BY DEF FaithfulIInv
<1>2. PICK A : /\ Charts(A, event)
               /\ \A k \in 1 .. Len(States(event.parser)) :
                     States(event.parser)[k].do = "output" => \A m \in A[k] : Fitting(m.text, event)
  BY <1>1, AllFinish DEF Finishes, Charts
<1>3. MainMemo \in A[pc[Main]] /\ pc[Main] \in 1 .. Len(States(event.parser))
  BY <1>1, <1>2 DEF Placed
<1>4. States(event.parser)[pc[Main]].do = "output"
  BY <1>1 DEF Current
<1>5. Fitting(MainMemo.text, event)
  BY <1>2, <1>3, <1>4
<1> QED BY <1>5 DEF MainMemo, Memo

\* Whatever fields an event has or lacks, and in whatever order the iterations of
\* its Map are taken: a description that is done tells every field that is there,
\* once and in its place, but for what follows the first of several records
\* (description-builder.ts:156, 248, 309, 367).
THEOREM AlwaysFaithful == DescriptionSpec => []DescriptionIsFaithful
<1>1. DescriptionInit => FaithfulIInv
  BY FaithfulFirst
<1>2. FaithfulIInv /\ [DescriptionNext]_describing => FaithfulIInv'
  BY FaithfulStep
<1>3. FaithfulIInv => DescriptionIsFaithful
  BY DoneFits
<1> QED BY <1>1, <1>2, <1>3, PTL DEF DescriptionSpec
=============================================================================

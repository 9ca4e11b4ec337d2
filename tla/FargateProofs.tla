---------------------------- MODULE FargateProofs ---------------------------
(***************************************************************************)
(* The logs and the metrics of pods on Fargate.                            *)
(*                                                                         *)
(* FargateLogger, for any profiles, plugins and bounds.  What a written    *)
(* configuration says depends on the order of the sections: the invariant  *)
(* says, section by section, what has been collected and granted before    *)
(* the next one is rendered.                                               *)
(*                                                                         *)
(* AdotPipeline, for whatever kubelets report.  A processor is a function  *)
(* of what is on its way, so the invariant says which functions have been  *)
(* applied to the scrape; that the last result is right follows from what  *)
(* the tables have in common, rule by rule, and from the chain of rules    *)
(* that each selected metric goes through.                                 *)
(***************************************************************************)
EXTENDS FargateLogger, AdotPipeline, WellFoundedInduction, SequenceTheorems, TLAPS


\* What the configuration of an output needs.
MayDeliver(line) ==
    /\ line.class \in DOMAIN Puts =>
         \A p \in profiles \ late : <<Puts[line.class], line.target>> \in policy[p]
    /\ line.target.type \in {"given", "stub"} \/ line.target \in created

\* The inductive invariant.
LinesFollowFilters ==
    /\ section \in {"unrendered", "filters"} => filterConf = <<>>
    /\ section \in {"outputs", "parsers", "rendered"} =>
         /\ DOMAIN filterConf \subseteq DOMAIN filters
         /\ \A k \in DOMAIN filterConf : /\ filterConf[k].name = NameAt(k)
                                         /\ filterConf[k].parsers \subseteq ParserNames

SectionsAreRendered ==
    /\ section = "rendered" => Mentioned \subseteq parserConf
    /\ section \in {"parsers", "rendered"} => \A line \in outputConf : MayDeliver(line)

RefusalsCome ==
    /\ status \in {"refused", "valid", "written"} => section = "rendered"
    /\ status \in {"valid", "written"} => ~RewritesLate

IInv == TypeOK /\ LinesFollowFilters /\ SectionsAreRendered /\ RefusalsCome

-----------------------------------------------------------------------------
\* Each output as it is bound may be written to by who is granted its statements,
\* and its resource is given or created (lib/fluent-bit/outputs).
LEMMA OutputFacts ==
    ASSUME NEW o \in AllOutputs
    PROVE  LET b == OutputOf(o) IN
           /\ b.class \in DOMAIN Puts => <<Puts[b.class], b.target>> \in b.grants
           /\ b.target.type \in {"given", "stub"} \/ b.target \in b.creates
<1>1. CASE o = DefaultOutput
  BY <1>1, FargateLoggerAssumption DEF OutputOf, CloudWatchLogs, Output, Puts
<1>2. CASE o # DefaultOutput
  <2>1. o \in Outputs BY <1>2 DEF AllOutputs
  <2>. DEFINE kind == OutputKind[o]
  <2>2. kind.class \in DOMAIN TargetTypes /\ kind.target.type \in TargetTypes[kind.class]
    BY <2>1, FargateLoggerAssumption
  <2>3. CASE kind.class = "cloudwatch_logs"
    BY <1>2, <2>2, <2>3 DEF OutputOf, CloudWatchLogs, Output, Puts, TargetTypes
  <2>4. CASE kind.class = "kinesis"
    BY <1>2, <2>2, <2>4 DEF OutputOf, Kinesis, Output, Puts, TargetTypes
  <2>5. CASE kind.class = "kinesis_firehose"
    BY <1>2, <2>2, <2>5 DEF OutputOf, KinesisFirehose, Output, Puts, TargetTypes
  <2>6. CASE kind.class \in {"opensearch", "es", "custom"}
    BY <1>2, <2>2, <2>6
       DEF OutputOf, OpenSearch, Elasticsearch, CustomOutput, Output, Puts, TargetTypes
  <2>. QED BY <2>2, <2>3, <2>4, <2>5, <2>6 DEF TargetTypes
<1>. QED BY <1>1, <1>2

LEMMA InitIInv == Init => IInv
BY FargateLoggerAssumption DEF Init, IInv, TypeOK, LinesFollowFilters, SectionsAreRendered,
   RefusalsCome, KindOf, AllFilters, KubernetesFilter

-----------------------------------------------------------------------------
(***************************************************************************)
(* Types.                                                                  *)
(***************************************************************************)

LEMMA TypeStep ==
    ASSUME TypeOK, [Next]_vars
    PROVE  TypeOK'
<1>. USE DEF TypeOK
<1>1. ASSUME NEW p \in Profiles, AddFargateProfile(p) PROVE TypeOK'
  BY <1>1 DEF AddFargateProfile, Free, conf
<1>2. ASSUME NEW f \in Filters, AddFilter(f) PROVE TypeOK'
  BY <1>2 DEF AddFilter, conf, AllFilters
<1>3. ASSUME NEW f \in Filters, AddEntry(f) PROVE TypeOK'
  <2>1. PICK x \in Addable(f) : entries' = [entries EXCEPT ![f] = @ \cup {x}]
    BY <1>3 DEF AddEntry
  <2>2. x \in Parsers \cup {Rule} /\ (FilterKind[f].brings => x \in Parsers)
    BY FargateLoggerAssumption DEF Addable
  <2>3. f \in AllFilters /\ KindOf(f) = FilterKind[f]
    BY FargateLoggerAssumption DEF AllFilters, KindOf
  <2>4. entries' \in [AllFilters -> SUBSET (Parsers \cup {Rule})]
    BY <2>1, <2>2, <2>3
  <2>5. ASSUME NEW g \in AllFilters, KindOf(g).brings PROVE entries'[g] \subseteq Parsers
    BY <2>1, <2>2, <2>3, <2>5
  <2>. QED BY <1>3, <2>4, <2>5 DEF AddEntry, conf, KindOf
<1>4. ASSUME NEW o \in Outputs, AddOutput(o) PROVE TypeOK'
  BY <1>4 DEF AddOutput, conf, AllOutputs
<1>5. ASSUME NEW q \in Parsers, AddParser(q) PROVE TypeOK'
  BY <1>5 DEF AddParser, conf
<1>6. CASE Resolve BY <1>6 DEF Resolve, given, conf
<1>7. CASE RenderFilters
  <2>0. <<DefaultFilter>> \in Seq(AllFilters) BY DEF AllFilters
  <2>1. filters' \in Seq(AllFilters)
    <3>1. filters' = <<DefaultFilter>> \/ filters' = filters BY <1>7 DEF RenderFilters
    <3>. QED BY <2>0, <3>1
  <2>2. parsers' \subseteq Parsers
    <3>1. CASE parsers' = parsers BY <3>1
    <3>2. CASE parsers' = Collect({filters'[k] : k \in DOMAIN filters'})
      BY <2>1, <3>2 DEF Collect, Bound
    <3>. QED BY <1>7, <3>1, <3>2 DEF RenderFilters
  <2>. QED BY <1>7, <2>1, <2>2 DEF RenderFilters, KindOf
<1>8. CASE RenderOutputs BY <1>8 DEF RenderOutputs, AllOutputs, KindOf
<1>9. CASE RenderParsers
  <2>1. parserConf' \subseteq STRING
    BY <1>9, FargateLoggerAssumption DEF RenderParsers, ParserNames
  <2>. QED BY <1>9, <2>1 DEF RenderParsers, given
<1>10. CASE Validate
  <2>1. parserConf' \subseteq STRING
    BY <1>10, FargateLoggerAssumption DEF Validate, ParserNames
  <2>. QED BY <1>10, <2>1 DEF Validate, given
<1>11. CASE Write BY <1>11 DEF Write, given, conf
<1>12. CASE UNCHANGED vars BY <1>12 DEF vars, given, conf
<1>. QED
  BY <1>1, <1>2, <1>3, <1>4, <1>5, <1>6, <1>7, <1>8, <1>9, <1>10, <1>11, <1>12 DEF Next

-----------------------------------------------------------------------------
(***************************************************************************)
(* What has been rendered stays in step with what the logger is given.     *)
(***************************************************************************)

LEMMA LinesStep ==
    ASSUME IInv, [Next]_vars
    PROVE  LinesFollowFilters'
<1>. USE DEF IInv
\* The lines stay, whatever is appended to the filters or added to the parsers.
<1>1. ASSUME filterConf' = filterConf, parsers \subseteq parsers', filters' \in Seq(AllFilters),
             DOMAIN filters \subseteq DOMAIN filters',
             \A k \in DOMAIN filters : filters'[k] = filters[k],
             \/ section' = section
             \/ section = "unrendered" /\ section' = "filters"
             \/ section = "outputs" /\ section' = "parsers"
             \/ section = "parsers" /\ section' = "rendered"
      PROVE  LinesFollowFilters'
  <2>1. ParserNames \subseteq ParserNames' BY <1>1 DEF ParserNames
  <2>2. CASE section' \in {"unrendered", "filters"}
    BY <1>1, <2>2 DEF LinesFollowFilters
  <2>3. CASE section \in {"outputs", "parsers", "rendered"}
    <3>1. DOMAIN filterConf \subseteq DOMAIN filters BY <2>3 DEF LinesFollowFilters
    <3>2. ASSUME NEW k \in DOMAIN filterConf
          PROVE  filterConf[k].name = KindOf(filters'[k]).name /\ filterConf[k].parsers \subseteq ParserNames'
      BY <1>1, <2>1, <2>3, <3>1, <3>2 DEF LinesFollowFilters, NameAt
    <3>. QED BY <1>1, <2>3, <3>1, <3>2 DEF LinesFollowFilters, NameAt, KindOf
  <2>. QED BY <1>1, <2>2, <2>3 DEF TypeOK
<1>2. ASSUME NEW p \in Profiles, AddFargateProfile(p) PROVE LinesFollowFilters'
  BY <1>1, <1>2 DEF AddFargateProfile, conf, TypeOK
<1>3. ASSUME NEW f \in Filters, AddFilter(f) PROVE LinesFollowFilters'
  <2>1. f \in AllFilters /\ filters' = Append(filters, f) BY <1>3 DEF AddFilter, AllFilters
  <2>2. filters' \in Seq(AllFilters) /\ DOMAIN filters \subseteq DOMAIN filters'
        /\ \A k \in DOMAIN filters : filters'[k] = filters[k]
    BY <2>1 DEF TypeOK
  <2>. QED BY <1>1, <1>3, <2>2 DEF AddFilter, conf
<1>4. ASSUME NEW f \in Filters, AddEntry(f) PROVE LinesFollowFilters'
  BY <1>1, <1>4 DEF AddEntry, conf, TypeOK
<1>5. ASSUME NEW o \in Outputs, AddOutput(o) PROVE LinesFollowFilters'
  BY <1>1, <1>5 DEF AddOutput, conf, TypeOK
<1>6. ASSUME NEW q \in Parsers, AddParser(q) PROVE LinesFollowFilters'
  BY <1>1, <1>6 DEF AddParser, conf, TypeOK
<1>7. CASE Resolve BY <1>1, <1>7 DEF Resolve, given, conf, TypeOK
<1>8. CASE RenderFilters
  <2>1. CASE status' = "failed" /\ UNCHANGED <<parsers, section, filterConf>>
    BY <1>8, <2>1 DEF RenderFilters, LinesFollowFilters
  <2>2. CASE /\ parsers' = Collect({filters'[k] : k \in DOMAIN filters'})
             /\ filterConf' = [k \in DOMAIN filters' |-> FilterLine(filters'[k])]
             /\ section' = "outputs"
    <3>1. ASSUME NEW k \in DOMAIN filters', NEW q \in Bound(filters'[k]) PROVE q \in parsers'
      BY <2>2, <3>1 DEF Collect
    <3>2. ASSUME NEW k \in DOMAIN filters'
          PROVE  filterConf'[k].parsers \subseteq ParserNames'
      <4>1. filterConf'[k].parsers = {ParserName[q] : q \in Bound(filters'[k])}
        BY <2>2 DEF FilterLine
      <4>. QED BY <3>1, <4>1 DEF ParserNames
    <3>3. ASSUME NEW k \in DOMAIN filters' PROVE filterConf'[k].name = KindOf(filters'[k]).name
      BY <2>2 DEF FilterLine
    <3>. QED BY <2>2, <3>2, <3>3 DEF LinesFollowFilters, NameAt, KindOf
  <2>. QED BY <1>8, <2>1, <2>2 DEF RenderFilters
<1>9. CASE RenderOutputs BY <1>1, <1>9 DEF RenderOutputs, TypeOK
<1>10. CASE RenderParsers BY <1>1, <1>10 DEF RenderParsers, given, TypeOK
<1>11. CASE Validate \/ Write \/ UNCHANGED vars
  BY <1>1, <1>11 DEF Validate, Write, vars, given, conf, TypeOK
<1>. QED
  BY <1>2, <1>3, <1>4, <1>5, <1>6, <1>7, <1>8, <1>9, <1>10, <1>11 DEF Next

LEMMA RefusalsStep ==
    ASSUME IInv, [Next]_vars
    PROVE  RefusalsCome'
<1>. USE DEF IInv, RefusalsCome
<1>1. ASSUME NEW p \in Profiles, AddFargateProfile(p) PROVE RefusalsCome'
  BY <1>1 DEF AddFargateProfile, Free
<1>2. ASSUME NEW f \in Filters, AddFilter(f) \/ AddEntry(f) PROVE RefusalsCome'
  BY <1>2 DEF AddFilter, AddEntry, Free
<1>3. ASSUME NEW o \in Outputs, AddOutput(o) PROVE RefusalsCome'
  BY <1>3 DEF AddOutput, Free
<1>4. ASSUME NEW q \in Parsers, AddParser(q) PROVE RefusalsCome'
  BY <1>4 DEF AddParser, Free
<1>5. CASE Resolve BY <1>5 DEF Resolve, Free
<1>6. CASE RenderFilters \/ RenderOutputs \/ RenderParsers
  BY <1>6 DEF RenderFilters, RenderOutputs, RenderParsers
<1>7. CASE Validate \/ Write \/ UNCHANGED vars
  <2>1. RewritesLate' <=> RewritesLate
    BY <1>7 DEF Validate, Write, vars, given, RewritesLate, NameAt, KindOf
  <2>. QED BY <1>7, <2>1 DEF Validate, Write, vars
<1>. QED BY <1>1, <1>2, <1>3, <1>4, <1>5, <1>6, <1>7 DEF Next

LEMMA SectionsStep ==
    ASSUME IInv, TypeOK', [Next]_vars
    PROVE  SectionsAreRendered'
<1>. USE DEF IInv
\* What is rendered stays right, whatever else the logger is given.
<1>1. ASSUME UNCHANGED <<conf, policy, created, section>>,
             profiles' \ late' \subseteq profiles \ late \/ section = "unrendered"
      PROVE  SectionsAreRendered'
  <2>1. Mentioned' = Mentioned BY <1>1 DEF Mentioned, conf
  <2>2. CASE section = "unrendered" BY <1>1, <2>2 DEF SectionsAreRendered
  <2>3. CASE section # "unrendered"
    <3>1. ASSUME NEW line \in outputConf, MayDeliver(line)
          PROVE  MayDeliver(line)'
      BY <1>1, <2>3, <3>1 DEF MayDeliver, Puts
    <3>. QED BY <1>1, <2>1, <3>1 DEF SectionsAreRendered, conf
  <2>. QED BY <2>2, <2>3
<1>2. ASSUME NEW p \in Profiles, AddFargateProfile(p) PROVE SectionsAreRendered'
  BY <1>1, <1>2 DEF AddFargateProfile, Free, TypeOK
<1>3. ASSUME NEW f \in Filters, AddFilter(f) \/ AddEntry(f) PROVE SectionsAreRendered'
  BY <1>1, <1>3 DEF AddFilter, AddEntry
<1>4. ASSUME NEW o \in Outputs, AddOutput(o) PROVE SectionsAreRendered'
  BY <1>1, <1>4 DEF AddOutput
<1>5. ASSUME NEW q \in Parsers, AddParser(q) PROVE SectionsAreRendered'
  BY <1>1, <1>5 DEF AddParser
<1>6. CASE Resolve \/ RenderFilters
  BY <1>6 DEF Resolve, RenderFilters, SectionsAreRendered
<1>7. CASE RenderOutputs
  <2>1. section' = "parsers" BY <1>7 DEF RenderOutputs
  <2>. DEFINE bound == {OutputOf(o) : o \in outputs'}
  <2>2. ASSUME NEW line \in outputConf' PROVE MayDeliver(line)'
    <3>1. PICK o \in outputs' : line = [class |-> OutputOf(o).class, target |-> OutputOf(o).target]
      BY <1>7 DEF RenderOutputs
    <3>2. o \in AllOutputs BY DEF TypeOK
    <3>3. OutputOf(o).class \in DOMAIN Puts =>
            <<Puts[OutputOf(o).class], OutputOf(o).target>> \in OutputOf(o).grants
      BY <3>2, OutputFacts
    <3>4. OutputOf(o).target.type \in {"given", "stub"} \/ OutputOf(o).target \in OutputOf(o).creates
      BY <3>2, OutputFacts
    <3>5. ASSUME NEW p \in profiles PROVE OutputOf(o).grants \subseteq policy'[p]
      <4>1. p \in Profiles BY DEF TypeOK
      <4>2. policy'[p] = Grant(p, bound) BY <1>7, <4>1 DEF RenderOutputs
      <4>. QED BY <4>2 DEF Grant
    <3>6. OutputOf(o).creates \subseteq created' BY <1>7 DEF RenderOutputs
    <3>7. line.class \in DOMAIN Puts =>
            \A p \in profiles' \ late' : <<Puts[line.class], line.target>> \in policy'[p]
      BY <1>7, <3>1, <3>3, <3>5 DEF RenderOutputs
    <3>8. line.target.type \in {"given", "stub"} \/ line.target \in created'
      BY <3>1, <3>4, <3>6
    <3>. QED BY <3>7, <3>8 DEF MayDeliver, Puts
  <2>. QED BY <2>1, <2>2 DEF SectionsAreRendered
<1>8. CASE RenderParsers
  <2>1. parserConf' = ParserNames /\ Mentioned' = Mentioned
    BY <1>8 DEF RenderParsers, ParserNames, Mentioned
  <2>2. Mentioned \subseteq ParserNames BY <1>8 DEF RenderParsers, LinesFollowFilters, Mentioned
  <2>3. ASSUME NEW line \in outputConf, MayDeliver(line) PROVE MayDeliver(line)'
    BY <1>8, <2>3 DEF RenderParsers, given, MayDeliver, Puts
  <2>. QED BY <1>8, <2>1, <2>2, <2>3 DEF RenderParsers, SectionsAreRendered
<1>9. CASE Validate
  <2>1. Mentioned' = Mentioned /\ parserConf \subseteq parserConf'
    BY <1>9 DEF Validate, Mentioned
  <2>2. ASSUME NEW line \in outputConf, MayDeliver(line) PROVE MayDeliver(line)'
    BY <1>9, <2>2 DEF Validate, given, MayDeliver, Puts
  <2>. QED BY <1>9, <2>1, <2>2 DEF Validate, SectionsAreRendered
<1>10. CASE Write \/ UNCHANGED vars
  BY <1>1, <1>10 DEF Write, vars, given
<1>. QED BY <1>2, <1>3, <1>4, <1>5, <1>6, <1>7, <1>8, <1>9, <1>10 DEF Next

-----------------------------------------------------------------------------
(***************************************************************************)
(* The theorems.                                                           *)
(***************************************************************************)

\* The inductive invariant holds in every state.
THEOREM Invariance == Spec => []IInv
<1>1. IInv /\ [Next]_vars => IInv'
  <2>. SUFFICES ASSUME IInv, [Next]_vars PROVE IInv'
    OBVIOUS
  <2>1. TypeOK' BY TypeStep DEF IInv
  <2>2. LinesFollowFilters' BY LinesStep
  <2>3. SectionsAreRendered' BY <2>1, SectionsStep
  <2>4. RefusalsCome' BY RefusalsStep
  <2>. QED BY <2>1, <2>2, <2>3, <2>4 DEF IInv
<1>. QED BY <1>1, InitIInv, PTL DEF Spec

\* A written configuration never rewrites tags after it has added Kubernetes
\* data (fargate-logger.ts 244-263).
THEOREM NeverRewritesLate == Spec => []NoRewriteAfterKubernetes
<1>1. IInv => NoRewriteAfterKubernetes
  <2>. SUFFICES ASSUME IInv, status = "written",
                       NEW j \in DOMAIN filterConf, NEW k \in DOMAIN filterConf, j < k,
                       filterConf[j].name = "kubernetes", filterConf[k].name = "rewrite_tag"
                PROVE  FALSE
    BY DEF NoRewriteAfterKubernetes
  <2>1. section = "rendered" /\ ~RewritesLate BY DEF IInv, RefusalsCome
  <2>2. j \in DOMAIN filters /\ k \in DOMAIN filters
        /\ NameAt(j) = "kubernetes" /\ NameAt(k) = "rewrite_tag"
    BY <2>1 DEF IInv, LinesFollowFilters
  <2>. QED BY <2>1, <2>2 DEF RewritesLate, KubernetesFilter, RewriteTagFilter
<1>. QED BY <1>1, Invariance, PTL

\* Every profile that was there in time may write to every log group, stream and delivery
\* stream of a written configuration, and every output of it exists (fargate-logger.ts
\* 194-213); search outputs and custom ones are granted nothing.
THEOREM ProfilesDeliver == Spec => []ProfilesMayDeliver
<1>1. IInv => ProfilesMayDeliver
  BY DEF IInv, RefusalsCome, SectionsAreRendered, MayDeliver, ProfilesMayDeliver
<1>. QED BY <1>1, Invariance, PTL

\* The logger implements lazy rendering: what is written defines every parser
\* that the filters brought along (fargate-logger.ts 172-238).
THEOREM RendersAsPromised == Spec => RendersSafely
<1>. DEFINE written == status = "written"
<1>1. ASSUME Init PROVE Rendering!RenderingInit
  BY <1>1 DEF Init, Rendering!RenderingInit, Mentioned
<1>2. ASSUME IInv, IInv', [Next]_vars
      PROVE  [Rendering!RenderPart \/ Rendering!WriteTemplate]_<<Mentioned, parserConf, written>>
  <2>1. ParserNames' \subseteq STRING
    BY <1>2, FargateLoggerAssumption DEF ParserNames, IInv, TypeOK
  <2>2. Mentioned' \subseteq STRING
    <3>1. ASSUME NEW k \in DOMAIN filterConf' PROVE filterConf'[k].parsers \subseteq ParserNames'
      BY <1>2, <3>1 DEF IInv, TypeOK, LinesFollowFilters
    <3>. QED BY <2>1, <3>1 DEF Mentioned
  <2>3. CASE Write
    <3>1. Mentioned \subseteq parserConf
      BY <1>2, <2>3 DEF Write, IInv, RefusalsCome, SectionsAreRendered
    <3>2. Mentioned' = Mentioned /\ parserConf' = parserConf
      BY <2>3 DEF Write, conf, Mentioned
    <3>. QED BY <2>3, <3>1, <3>2 DEF Write, Rendering!WriteTemplate
  <2>4. CASE UNCHANGED vars
    BY <2>4 DEF vars, conf, Mentioned
  <2>5. CASE Next /\ ~Write
    <3>1. status # "written" /\ status' # "written"
      BY <2>5 DEF Next, AddFargateProfile, AddFilter, AddOutput, AddParser, AddEntry, Resolve,
         RenderFilters, RenderOutputs, RenderParsers, Validate, Free
    <3>2. parserConf' \subseteq STRING BY <1>2 DEF IInv, TypeOK
    <3>. QED BY <2>2, <3>1, <3>2 DEF Rendering!RenderPart
  <2>. QED BY <1>2, <2>3, <2>4, <2>5
<1>. QED
  BY <1>1, <1>2, Invariance, PTL
     DEF Spec, RendersSafely, Rendering!RenderingSpec, Rendering!rendering

-----------------------------------------------------------------------------
\* A set of naturals has a least element, so what holds of 0 and of the next
\* number holds of all.
LEMMA HasLeast ==
  ASSUME NEW T, T \subseteq Nat, T # {}
  PROVE  \E x \in T : \A y \in T : x <= y
<1>1. PICK x \in T : \A y \in T : <<y, x>> \notin OpToRel(<, Nat)
  BY NatLessThanWellFounded, WFMin
<1>2. \A y \in T : ~(y < x)
  BY <1>1 DEF OpToRel
<1> QED BY <1>2

LEMMA NatSetInduction ==
  ASSUME NEW S, 0 \in S, \A n \in Nat : n \in S => n + 1 \in S
  PROVE  Nat \subseteq S
<1> DEFINE T == Nat \ S
<1>1. SUFFICES ASSUME T # {} PROVE FALSE
  OBVIOUS
<1>2. PICK x \in T : \A y \in T : x <= y
  <2> T \subseteq Nat
    OBVIOUS
  <2> HIDE DEF T
  <2> QED BY <1>1, HasLeast
<1>3. x - 1 \in Nat /\ x - 1 \notin T /\ (x - 1) + 1 = x
  BY <1>2
<1> QED BY <1>3

\* The largest element, by which FoldLeft takes a sequence apart.
LEMMA MaxIs ==
  ASSUME NEW s \in SUBSET Nat, NEW m \in s, \A x \in s : m >= x
  PROVE  Max(s) = m
<1>1. \E x \in s : \A y \in s : x >= y
  OBVIOUS
<1>2. Max(s) \in s /\ \A y \in s : Max(s) >= y
  BY <1>1, Zenon DEF Max
<1>3. Max(s) >= m /\ m >= Max(s) /\ Max(s) \in Nat /\ m \in Nat
  BY <1>2
<1> QED BY <1>3

(***************************************************************************)
(* FoldLeft goes through the elements of a sequence one after the other.   *)
(* The community module defines it by a function on sets of indices that   *)
(* it chooses; the lemmas say that the choice has something to choose, and *)
(* give the intermediate results.  A lemma cannot have an operator as a    *)
(* parameter, so there is one for each of the two that are folded.         *)
(***************************************************************************)
CopySteps(ms, n, seq) ==
    \E u : /\ u[0] = ms
           /\ \A k \in 1 .. n : u[k] = InsertCopies(u[k - 1], seq[k])
           /\ FoldLeft(InsertCopies, ms, seq) = u[n]

LEMMA CopiesStepwise ==
  ASSUME NEW ms, NEW n \in Nat, NEW seq, DOMAIN seq = 1 .. n
  PROVE  CopySteps(ms, n, seq)
<1> DEFINE Sub == SUBSET (1 .. n)
           Up(f) == f = [s \in Sub |-> IF s = {} THEN ms
                                       ELSE InsertCopies(f[s \ {Max(s)}], seq[Max(s)])]
           Fits(f, s) == f[s] = IF s = {} THEN ms ELSE InsertCopies(f[s \ {Max(s)}], seq[Max(s)])
           Begins(k, f) == \A s \in SUBSET (1 .. k) : Fits(f, s)
           fold == CHOOSE f : Up(f)
<1>1. FoldLeft(InsertCopies, ms, seq) = fold[1 .. n]
  BY DEF FoldLeft, MapThenFoldSet
<1>2. \E f : Begins(n, f)
  <2> DEFINE S == {k \in Nat : \E f : Begins(k, f)}
  <2>1. 0 \in S
    <3>1. \A s \in SUBSET (1 .. 0) : s = {}
      OBVIOUS
    <3>2. Begins(0, [s \in SUBSET (1 .. 0) |-> ms])
      BY <3>1
    <3> HIDE DEF Begins
    <3> QED BY <3>2
  <2>2. ASSUME NEW k \in Nat, k \in S PROVE k + 1 \in S
    <3>1. PICK f : Begins(k, f)
      BY <2>2
    <3> DEFINE g == [s \in SUBSET (1 .. k + 1) |->
                      IF s \in SUBSET (1 .. k) THEN f[s]
                      ELSE InsertCopies(f[s \ {Max(s)}], seq[Max(s)])]
    <3>2. ASSUME NEW s \in SUBSET (1 .. k + 1) PROVE Fits(g, s)
      <4>1. CASE s \in SUBSET (1 .. k)
        <5>1. s \ {Max(s)} \in SUBSET (1 .. k) /\ s \ {Max(s)} \in SUBSET (1 .. k + 1)
          BY <4>1
        <5>2. g[s] = f[s] /\ g[s \ {Max(s)}] = f[s \ {Max(s)}]
          BY <4>1, <5>1
        <5>3. Fits(f, s)
          BY <3>1, <4>1
        <5> HIDE DEF g
        <5> QED BY <5>2, <5>3
      <4>2. CASE s \notin SUBSET (1 .. k)
        <5>1. k + 1 \in s /\ \A x \in s : k + 1 >= x
          BY <4>2
        <5>2. Max(s) = k + 1
          BY <5>1, MaxIs
        <5>3. s \ {Max(s)} \in SUBSET (1 .. k) /\ s \ {Max(s)} \in SUBSET (1 .. k + 1)
          <6>1. \A x \in s : x # k + 1 => x \in 1 .. k
            OBVIOUS
          <6>2. s \ {k + 1} \subseteq 1 .. k /\ 1 .. k \subseteq 1 .. k + 1
            BY <6>1
          <6>3. s \ {Max(s)} \subseteq 1 .. k
            BY <5>2, <6>2
          <6>4. s \ {Max(s)} \subseteq 1 .. k + 1
            BY <6>2, <6>3
          <6> QED BY <6>3, <6>4
        <5>4. g[s \ {Max(s)}] = f[s \ {Max(s)}]
          BY <5>3
        <5>5. g[s] = InsertCopies(f[s \ {Max(s)}], seq[Max(s)]) /\ s # {}
          BY <4>2
        <5> HIDE DEF g
        <5> QED BY <5>4, <5>5
      <4> QED BY <4>1, <4>2
    <3>3. Begins(k + 1, g)
      BY <3>2
    <3> HIDE DEF Begins, g
    <3> QED BY <3>3
  <2>3. n \in S
    <3> HIDE DEF S
    <3> QED BY <2>1, <2>2, NatSetInduction
  <2> QED BY <2>3
<1>3. Up(fold)
  <2>1. PICK f : Begins(n, f)
    BY <1>2
  <2> DEFINE g == [s \in Sub |-> f[s]]
  <2>2. ASSUME NEW s \in Sub PROVE Fits(g, s)
    <3>1. s \ {Max(s)} \in Sub /\ Fits(f, s)
      BY <2>1
    <3>2. g[s] = f[s] /\ g[s \ {Max(s)}] = f[s \ {Max(s)}]
      BY <3>1
    <3> HIDE DEF g, Sub
    <3> QED BY <3>1, <3>2
  <2>3. DOMAIN g = Sub /\ g = [s \in Sub |-> g[s]]
    OBVIOUS
  <2> HIDE DEF g, Sub
  <2>4. Up(g)
    BY <2>2, <2>3
  <2> HIDE DEF Up
  <2> QED BY <2>4
<1> HIDE DEF fold
<1> DEFINE u == [k \in 0 .. n |-> fold[1 .. k]]
<1>4. u[0] = ms
  <2>1. 1 .. 0 = {} /\ 0 \in 0 .. n
    OBVIOUS
  <2> QED BY <1>3, <2>1
<1>5. ASSUME NEW k \in 1 .. n PROVE u[k] = InsertCopies(u[k - 1], seq[k])
  <2>1. Max(1 .. k) = k
    BY MaxIs
  <2>2. (1 .. k) \ {k} = 1 .. (k - 1) /\ 1 .. k \in Sub /\ 1 .. k # {}
    OBVIOUS
  <2>3. fold[1 .. k] = InsertCopies(fold[1 .. (k - 1)], seq[k])
    BY <1>3, <2>1, <2>2
  <2> QED BY <2>3
<1>6. u[n] = fold[1 .. n]
  OBVIOUS
<1> HIDE DEF u
<1> QED BY <1>1, <1>4, <1>5, <1>6 DEF CopySteps

\* The rules of metricsgeneration, in the same way.
GenerationSteps(ms, n, seq) ==
    \E u : /\ u[0] = ms
           /\ \A k \in 1 .. n : u[k] = Generate(u[k - 1], seq[k])
           /\ FoldLeft(Generate, ms, seq) = u[n]

LEMMA GenerationStepwise ==
  ASSUME NEW ms, NEW n \in Nat, NEW seq, DOMAIN seq = 1 .. n
  PROVE  GenerationSteps(ms, n, seq)
<1> DEFINE Sub == SUBSET (1 .. n)
           Up(f) == f = [s \in Sub |-> IF s = {} THEN ms
                                       ELSE Generate(f[s \ {Max(s)}], seq[Max(s)])]
           Fits(f, s) == f[s] = IF s = {} THEN ms ELSE Generate(f[s \ {Max(s)}], seq[Max(s)])
           Begins(k, f) == \A s \in SUBSET (1 .. k) : Fits(f, s)
           fold == CHOOSE f : Up(f)
<1>1. FoldLeft(Generate, ms, seq) = fold[1 .. n]
  BY DEF FoldLeft, MapThenFoldSet
<1>2. \E f : Begins(n, f)
  <2> DEFINE S == {k \in Nat : \E f : Begins(k, f)}
  <2>1. 0 \in S
    <3>1. \A s \in SUBSET (1 .. 0) : s = {}
      OBVIOUS
    <3>2. Begins(0, [s \in SUBSET (1 .. 0) |-> ms])
      BY <3>1
    <3> HIDE DEF Begins
    <3> QED BY <3>2
  <2>2. ASSUME NEW k \in Nat, k \in S PROVE k + 1 \in S
    <3>1. PICK f : Begins(k, f)
      BY <2>2
    <3> DEFINE g == [s \in SUBSET (1 .. k + 1) |->
                      IF s \in SUBSET (1 .. k) THEN f[s]
                      ELSE Generate(f[s \ {Max(s)}], seq[Max(s)])]
    <3>2. ASSUME NEW s \in SUBSET (1 .. k + 1) PROVE Fits(g, s)
      <4>1. CASE s \in SUBSET (1 .. k)
        <5>1. s \ {Max(s)} \in SUBSET (1 .. k) /\ s \ {Max(s)} \in SUBSET (1 .. k + 1)
          BY <4>1
        <5>2. g[s] = f[s] /\ g[s \ {Max(s)}] = f[s \ {Max(s)}]
          BY <4>1, <5>1
        <5>3. Fits(f, s)
          BY <3>1, <4>1
        <5> HIDE DEF g
        <5> QED BY <5>2, <5>3
      <4>2. CASE s \notin SUBSET (1 .. k)
        <5>1. k + 1 \in s /\ \A x \in s : k + 1 >= x
          BY <4>2
        <5>2. Max(s) = k + 1
          BY <5>1, MaxIs
        <5>3. s \ {Max(s)} \in SUBSET (1 .. k) /\ s \ {Max(s)} \in SUBSET (1 .. k + 1)
          <6>1. \A x \in s : x # k + 1 => x \in 1 .. k
            OBVIOUS
          <6>2. s \ {k + 1} \subseteq 1 .. k /\ 1 .. k \subseteq 1 .. k + 1
            BY <6>1
          <6>3. s \ {Max(s)} \subseteq 1 .. k
            BY <5>2, <6>2
          <6>4. s \ {Max(s)} \subseteq 1 .. k + 1
            BY <6>2, <6>3
          <6> QED BY <6>3, <6>4
        <5>4. g[s \ {Max(s)}] = f[s \ {Max(s)}]
          BY <5>3
        <5>5. g[s] = Generate(f[s \ {Max(s)}], seq[Max(s)]) /\ s # {}
          BY <4>2
        <5> HIDE DEF g
        <5> QED BY <5>4, <5>5
      <4> QED BY <4>1, <4>2
    <3>3. Begins(k + 1, g)
      BY <3>2
    <3> HIDE DEF Begins, g
    <3> QED BY <3>3
  <2>3. n \in S
    <3> HIDE DEF S
    <3> QED BY <2>1, <2>2, NatSetInduction
  <2> QED BY <2>3
<1>3. Up(fold)
  <2>1. PICK f : Begins(n, f)
    BY <1>2
  <2> DEFINE g == [s \in Sub |-> f[s]]
  <2>2. ASSUME NEW s \in Sub PROVE Fits(g, s)
    <3>1. s \ {Max(s)} \in Sub /\ Fits(f, s)
      BY <2>1
    <3>2. g[s] = f[s] /\ g[s \ {Max(s)}] = f[s \ {Max(s)}]
      BY <3>1
    <3> HIDE DEF g, Sub
    <3> QED BY <3>1, <3>2
  <2>3. DOMAIN g = Sub /\ g = [s \in Sub |-> g[s]]
    OBVIOUS
  <2> HIDE DEF g, Sub
  <2>4. Up(g)
    BY <2>2, <2>3
  <2> HIDE DEF Up
  <2> QED BY <2>4
<1> HIDE DEF fold
<1> DEFINE u == [k \in 0 .. n |-> fold[1 .. k]]
<1>4. u[0] = ms
  <2>1. 1 .. 0 = {} /\ 0 \in 0 .. n
    OBVIOUS
  <2> QED BY <1>3, <2>1
<1>5. ASSUME NEW k \in 1 .. n PROVE u[k] = Generate(u[k - 1], seq[k])
  <2>1. Max(1 .. k) = k
    BY MaxIs
  <2>2. (1 .. k) \ {k} = 1 .. (k - 1) /\ 1 .. k \in Sub /\ 1 .. k # {}
    OBVIOUS
  <2>3. fold[1 .. k] = Generate(fold[1 .. (k - 1)], seq[k])
    BY <1>3, <2>1, <2>2
  <2> QED BY <2>3
<1>6. u[n] = fold[1 .. n]
  OBVIOUS
<1> HIDE DEF u
<1> QED BY <1>1, <1>4, <1>5, <1>6 DEF GenerationSteps

\* One sequence after another, element by element.
Chains(T, n, k, a, b, c) ==
    /\ c \in Seq(T) /\ Len(c) = n + k
    /\ \A i \in 1 .. n : c[i] = a[i]
    /\ \A i \in 1 .. k : c[n + i] = b[i]

LEMMA Chained ==
  ASSUME NEW T, NEW n \in Nat, NEW k \in Nat, NEW a \in Seq(T), NEW b \in Seq(T), NEW c,
         Len(a) = n, Len(b) = k, c = a \o b
  PROVE  Chains(T, n, k, a, b, c)
<1>1. /\ c \in Seq(T) /\ Len(c) = n + k
      /\ \A i \in 1 .. n + k : c[i] = IF i <= n THEN a[i] ELSE b[i - n]
  BY ConcatProperties
<1>2. ASSUME NEW i \in 1 .. k PROVE c[n + i] = b[i]
  <2>1. n + i \in 1 .. n + k /\ ~(n + i <= n) /\ (n + i) - n = i
    OBVIOUS
  <2> QED BY <1>1, <2>1
<1> QED BY <1>1, <1>2 DEF Chains

-----------------------------------------------------------------------------
(***************************************************************************)
(* What the rules of the tables have in common: they copy what is counted  *)
(* for containers, for pods, or as traffic, and they tell by the labels    *)
(* which of these a series is.                                             *)
(***************************************************************************)
ForContainers(t) ==
    /\ t.new = Metric("new_container", t.new.of) /\ t.new.of \notin NetworkCounts /\ t.include \notin NetworkCounts
    /\ {"container", "LaunchType"} \subseteq DOMAIN t.wanted
    /\ t.wanted["container"] = "\\S" /\ t.wanted["LaunchType"] = "fargate"

ForPods(t) ==
    /\ t.new = Metric("pod", t.new.of) /\ t.include \notin NetworkCounts
    /\ {"container", "pod", "LaunchType"} \subseteq DOMAIN t.wanted
    /\ t.wanted["container"] = "^$" /\ t.wanted["pod"] = "\\S" /\ t.wanted["LaunchType"] = "fargate"

ForNetworks(t) ==
    /\ t.new = Metric("pod", t.new.of) /\ t.include \in NetworkCounts
    /\ {"pod", "LaunchType"} \subseteq DOMAIN t.wanted
    /\ t.wanted["pod"] = "\\S" /\ t.wanted["LaunchType"] = "fargate"

\* The six tables, and the one that they make together.
LEMMA ContainerRules ==
  /\ Len(ContainerTransforms) = 11 /\ DOMAIN ContainerTransforms = 1 .. 11
  /\ \A i \in 1 .. 11 : ForContainers(ContainerTransforms[i])
BY DEF ContainerTransforms, Rename, Metric, OfContainer, ForContainers, NetworkCounts

LEMMA FileRules ==
  /\ Len(FileTransforms) = 2 /\ DOMAIN FileTransforms = 1 .. 2
  /\ \A i \in 1 .. 2 : ForContainers(FileTransforms[i])
BY DEF FileTransforms, Rename, Metric, OfContainer, ForContainers, NetworkCounts

LEMMA ContainerFaultRules ==
  /\ Len(ContainerFaults) = 4 /\ DOMAIN ContainerFaults = 1 .. 4
  /\ \A i \in 1 .. 4 : ForContainers(ContainerFaults[i])
BY DEF ContainerFaults, Faults, Rename, Metric, OfContainer, ForContainers, NetworkCounts

LEMMA PodRules ==
  /\ Len(PodTransforms) = 11 /\ DOMAIN PodTransforms = 1 .. 11
  /\ \A i \in 1 .. 11 : ForPods(PodTransforms[i])
BY DEF PodTransforms, Rename, Metric, OfPod, ForPods, NetworkCounts

LEMMA PodFaultRules ==
  /\ Len(PodFaults) = 4 /\ DOMAIN PodFaults = 1 .. 4
  /\ \A i \in 1 .. 4 : ForPods(PodFaults[i])
BY DEF PodFaults, Faults, Rename, Metric, OfPod, ForPods, NetworkCounts

LEMMA NetworkRules ==
  /\ Len(NetworkTransforms) = 8 /\ DOMAIN NetworkTransforms = 1 .. 8
  /\ \A i \in 1 .. 8 : ForNetworks(NetworkTransforms[i])
BY DEF NetworkTransforms, Rename, Metric, OfNetwork, ForNetworks, NetworkCounts

LEMMA TransformsAre ==
  /\ DOMAIN Transforms = 1 .. 40
  /\ \A i \in 1 .. 40 : \/ ForContainers(Transforms[i])
                        \/ ForPods(Transforms[i])
                        \/ ForNetworks(Transforms[i])
  /\ \A i \in 1 .. 11 : Transforms[17 + i] = PodTransforms[i]
  /\ \A i \in 1 .. 8 : Transforms[32 + i] = NetworkTransforms[i]
<1> DEFINE Elements(a) == {a[i] : i \in DOMAIN a}
           T == UNION {Elements(ContainerTransforms), Elements(ContainerFaults), Elements(FileTransforms),
                       Elements(PodTransforms), Elements(PodFaults), Elements(NetworkTransforms)}
<1>1. ContainerTransforms \in Seq(T)
  <2> DEFINE E == Elements(ContainerTransforms)
  <2>1. ContainerTransforms \in Seq(E)
    <3>1. \A i \in 1 .. 11 : ContainerTransforms[i] \in E
      BY ContainerRules
    <3> HIDE DEF E
    <3> QED BY <3>1 DEF ContainerTransforms
  <2>2. E \subseteq T
    OBVIOUS
  <2> HIDE DEF E, T
  <2> QED BY <2>1, <2>2
<1>2. ContainerFaults \in Seq(T)
  <2> DEFINE E == Elements(ContainerFaults)
  <2>1. ContainerFaults \in Seq(E)
    <3>1. \A i \in 1 .. 4 : ContainerFaults[i] \in E
      BY ContainerFaultRules
    <3> HIDE DEF E
    <3> QED BY <3>1 DEF ContainerFaults, Faults
  <2>2. E \subseteq T
    OBVIOUS
  <2> HIDE DEF E, T
  <2> QED BY <2>1, <2>2
<1>3. FileTransforms \in Seq(T)
  <2> DEFINE E == Elements(FileTransforms)
  <2>1. FileTransforms \in Seq(E)
    <3>1. \A i \in 1 .. 2 : FileTransforms[i] \in E
      BY FileRules
    <3> HIDE DEF E
    <3> QED BY <3>1 DEF FileTransforms
  <2>2. E \subseteq T
    OBVIOUS
  <2> HIDE DEF E, T
  <2> QED BY <2>1, <2>2
<1>4. PodTransforms \in Seq(T)
  <2> DEFINE E == Elements(PodTransforms)
  <2>1. PodTransforms \in Seq(E)
    <3>1. \A i \in 1 .. 11 : PodTransforms[i] \in E
      BY PodRules
    <3> HIDE DEF E
    <3> QED BY <3>1 DEF PodTransforms
  <2>2. E \subseteq T
    OBVIOUS
  <2> HIDE DEF E, T
  <2> QED BY <2>1, <2>2
<1>5. PodFaults \in Seq(T)
  <2> DEFINE E == Elements(PodFaults)
  <2>1. PodFaults \in Seq(E)
    <3>1. \A i \in 1 .. 4 : PodFaults[i] \in E
      BY PodFaultRules
    <3> HIDE DEF E
    <3> QED BY <3>1 DEF PodFaults, Faults
  <2>2. E \subseteq T
    OBVIOUS
  <2> HIDE DEF E, T
  <2> QED BY <2>1, <2>2
<1>6. NetworkTransforms \in Seq(T)
  <2> DEFINE E == Elements(NetworkTransforms)
  <2>1. NetworkTransforms \in Seq(E)
    <3>1. \A i \in 1 .. 8 : NetworkTransforms[i] \in E
      BY NetworkRules
    <3> HIDE DEF E
    <3> QED BY <3>1 DEF NetworkTransforms
  <2>2. E \subseteq T
    OBVIOUS
  <2> HIDE DEF E, T
  <2> QED BY <2>1, <2>2
<1> HIDE DEF T
<1>7. PICK c1 : c1 = ContainerTransforms \o ContainerFaults
  OBVIOUS
<1>8. /\ c1 \in Seq(T) /\ Len(c1) = 15
      /\ \A i \in 1 .. 11 : c1[i] = ContainerTransforms[i]
      /\ \A i \in 1 .. 4 : c1[11 + i] = ContainerFaults[i]
  <2>1. Len(ContainerTransforms) = 11 /\ Len(ContainerFaults) = 4
    BY ContainerRules, ContainerFaultRules
  <2>2. 11 \in Nat /\ 4 \in Nat /\ 11 + 4 = 15
    OBVIOUS
  <2>3. Chains(T, 11, 4, ContainerTransforms, ContainerFaults, c1)
    BY <1>1, <1>2, <1>7, <2>1, <2>2, Chained, Zenon
  <2> QED BY <2>2, <2>3 DEF Chains
<1>9. PICK c2 : c2 = c1 \o FileTransforms
  OBVIOUS
<1>10. /\ c2 \in Seq(T) /\ Len(c2) = 17
       /\ \A i \in 1 .. 15 : c2[i] = c1[i]
       /\ \A i \in 1 .. 2 : c2[15 + i] = FileTransforms[i]
  <2>1. Len(c1) = 15 /\ Len(FileTransforms) = 2
    BY <1>8, FileRules
  <2>2. 15 \in Nat /\ 2 \in Nat /\ 15 + 2 = 17
    OBVIOUS
  <2>3. Chains(T, 15, 2, c1, FileTransforms, c2)
    BY <1>8, <1>3, <1>9, <2>1, <2>2, Chained, Zenon
  <2> QED BY <2>2, <2>3 DEF Chains
<1>11. PICK c3 : c3 = c2 \o PodTransforms
  OBVIOUS
<1>12. /\ c3 \in Seq(T) /\ Len(c3) = 28
       /\ \A i \in 1 .. 17 : c3[i] = c2[i]
       /\ \A i \in 1 .. 11 : c3[17 + i] = PodTransforms[i]
  <2>1. Len(c2) = 17 /\ Len(PodTransforms) = 11
    BY <1>10, PodRules
  <2>2. 17 \in Nat /\ 11 \in Nat /\ 17 + 11 = 28
    OBVIOUS
  <2>3. Chains(T, 17, 11, c2, PodTransforms, c3)
    BY <1>10, <1>4, <1>11, <2>1, <2>2, Chained, Zenon
  <2> QED BY <2>2, <2>3 DEF Chains
<1>13. PICK c4 : c4 = c3 \o PodFaults
  OBVIOUS
<1>14. /\ c4 \in Seq(T) /\ Len(c4) = 32
       /\ \A i \in 1 .. 28 : c4[i] = c3[i]
       /\ \A i \in 1 .. 4 : c4[28 + i] = PodFaults[i]
  <2>1. Len(c3) = 28 /\ Len(PodFaults) = 4
    BY <1>12, PodFaultRules
  <2>2. 28 \in Nat /\ 4 \in Nat /\ 28 + 4 = 32
    OBVIOUS
  <2>3. Chains(T, 28, 4, c3, PodFaults, c4)
    BY <1>12, <1>5, <1>13, <2>1, <2>2, Chained, Zenon
  <2> QED BY <2>2, <2>3 DEF Chains
<1>15. PICK c5 : c5 = c4 \o NetworkTransforms
  OBVIOUS
<1>16. /\ c5 \in Seq(T) /\ Len(c5) = 40
       /\ \A i \in 1 .. 32 : c5[i] = c4[i]
       /\ \A i \in 1 .. 8 : c5[32 + i] = NetworkTransforms[i]
  <2>1. Len(c4) = 32 /\ Len(NetworkTransforms) = 8
    BY <1>14, NetworkRules
  <2>2. 32 \in Nat /\ 8 \in Nat /\ 32 + 8 = 40
    OBVIOUS
  <2>3. Chains(T, 32, 8, c4, NetworkTransforms, c5)
    BY <1>14, <1>6, <1>15, <2>1, <2>2, Chained, Zenon
  <2> QED BY <2>2, <2>3 DEF Chains
<1>17. Transforms = c5
  BY <1>7, <1>9, <1>11, <1>13, <1>15 DEF Transforms
<1>18. /\ DOMAIN Transforms = 1 .. 40
       /\ \A i \in 1 .. 32 : Transforms[i] = c4[i]
       /\ \A i \in 1 .. 8 : Transforms[32 + i] = NetworkTransforms[i]
  BY <1>16, <1>17
<1>19. \A i \in 1 .. 11 : Transforms[17 + i] = PodTransforms[i]
  <2>1. SUFFICES ASSUME NEW i \in 1 .. 11 PROVE Transforms[17 + i] = PodTransforms[i]
    OBVIOUS
  <2>2. 17 + i \in 1 .. 28 /\ 17 + i \in 1 .. 32
    OBVIOUS
  <2>3. Transforms[17 + i] = c4[17 + i]
    BY <2>2, <1>18
  <2>4. c4[17 + i] = c3[17 + i]
    BY <2>2, <1>14
  <2> QED BY <2>3, <2>4, <1>12
<1>20. ASSUME NEW i \in 1 .. 40
       PROVE  \/ ForContainers(Transforms[i]) \/ ForPods(Transforms[i]) \/ ForNetworks(Transforms[i])
  <2>1. CASE i \in 1 .. 11
    <3>1. i \in 1 .. 15 /\ i \in 1 .. 17 /\ i \in 1 .. 28 /\ i \in 1 .. 32
      BY <2>1
    <3>2. Transforms[i] = c1[i]
      <4>1. Transforms[i] = c4[i]
        BY <3>1, <1>18
      <4>2. c4[i] = c3[i] /\ c3[i] = c2[i]
        BY <3>1, <1>12, <1>14
      <4> QED BY <3>1, <4>1, <4>2, <1>10
    <3>3. c1[i] = ContainerTransforms[i]
      BY <2>1, <1>8
    <3> QED BY <2>1, <3>2, <3>3, ContainerRules
  <2>2. CASE i \in 12 .. 15
    <3>1. i \in 1 .. 15 /\ i \in 1 .. 17 /\ i \in 1 .. 28 /\ i \in 1 .. 32
      BY <2>2
    <3>2. Transforms[i] = c1[i]
      <4>1. Transforms[i] = c4[i]
        BY <3>1, <1>18
      <4>2. c4[i] = c3[i] /\ c3[i] = c2[i]
        BY <3>1, <1>12, <1>14
      <4> QED BY <3>1, <4>1, <4>2, <1>10
    <3>3. i - 11 \in 1 .. 4 /\ 11 + (i - 11) = i
      BY <2>2
    <3>4. c1[i] = ContainerFaults[i - 11]
      BY <3>3, <1>8
    <3> QED BY <3>2, <3>3, <3>4, ContainerFaultRules
  <2>3. CASE i \in 16 .. 17
    <3>1. i \in 1 .. 17 /\ i \in 1 .. 28 /\ i \in 1 .. 32
      BY <2>3
    <3>2. Transforms[i] = c2[i]
      BY <3>1, <1>12, <1>14, <1>18
    <3>3. i - 15 \in 1 .. 2 /\ 15 + (i - 15) = i
      BY <2>3
    <3>4. c2[i] = FileTransforms[i - 15]
      BY <3>3, <1>10
    <3> QED BY <3>2, <3>3, <3>4, FileRules
  <2>4. CASE i \in 18 .. 28
    <3>1. i - 17 \in 1 .. 11 /\ 17 + (i - 17) = i
      BY <2>4
    <3>2. Transforms[i] = PodTransforms[i - 17]
      BY <3>1, <1>19
    <3> QED BY <3>1, <3>2, PodRules
  <2>5. CASE i \in 29 .. 32
    <3>1. i - 28 \in 1 .. 4 /\ 28 + (i - 28) = i
      BY <2>5
    <3>2. i \in 1 .. 32 /\ Transforms[i] = c4[i]
      BY <2>5, <1>18
    <3>3. Transforms[i] = PodFaults[i - 28]
      BY <3>1, <3>2, <1>14
    <3> QED BY <3>1, <3>3, PodFaultRules
  <2>6. CASE i \in 33 .. 40
    <3>1. i - 32 \in 1 .. 8 /\ 32 + (i - 32) = i
      BY <2>6
    <3>2. Transforms[i] = NetworkTransforms[i - 32]
      BY <3>1, <1>18
    <3> QED BY <3>1, <3>2, NetworkRules
  <2> QED BY <2>1, <2>2, <2>3, <2>4, <2>5, <2>6
<1> QED BY <1>18, <1>19, <1>20

-----------------------------------------------------------------------------
Parts == {"metric", "labels", "data", "about"}
Known == {"pod", "container", "image", "namespace", "LaunchType", "ClusterName"}

(***************************************************************************)
(* A series on its way: as reported, under the labels that are wanted, or  *)
(* a copy that was made for a container or a pod on Fargate.               *)
(***************************************************************************)
Fits(s) ==
    /\ DOMAIN s = Parts /\ Known \subseteq DOMAIN s.labels
    /\ s.metric = Metric(s.metric.group, s.metric.of)
    /\ \/ /\ s.metric.group = "raw"
          /\ \/ s.about = "container" /\ s.labels["container"] # ""
             \/ /\ s.about = "pod" /\ s.labels["pod"] # ""
                /\ s.labels["container"] = "" /\ s.labels["image"] = ""
             \/ s.about = "sandbox" /\ s.labels["pod"] # ""
             \/ s.about = "node" /\ s.labels["pod"] = "" /\ s.labels["container"] = ""
          /\ s.about = "sandbox" => s.metric.of \in NetworkCounts
          /\ s.metric.of \in NetworkCounts => s.about \in {"sandbox", "node"}
       \/ /\ s.metric.group = "new_container" /\ s.metric.of \notin NetworkCounts
          /\ s.about = "container" /\ s.labels["container"] # "" /\ s.labels["LaunchType"] = "fargate"
       \/ /\ s.metric.group = "pod"
          /\ s.about \in {"pod", "sandbox"} /\ s.labels["LaunchType"] = "fargate"

\* What update_label and add_label leave alone, and what they set.
LEMMA UpdateIs ==
  ASSUME NEW s, DOMAIN s = Parts, NEW old, NEW new
  PROVE  LET r == UpdateLabel(s, old, new)
         IN  /\ DOMAIN r = Parts
             /\ r.metric = s.metric /\ r.data = s.data /\ r.about = s.about
             /\ \A l \in DOMAIN s.labels \ {old, new} : l \in DOMAIN r.labels /\ r.labels[l] = s.labels[l]
             /\ old \in DOMAIN s.labels => new \in DOMAIN r.labels /\ r.labels[new] = s.labels[old]
<1>1. CASE old \notin DOMAIN s.labels
  BY <1>1 DEF UpdateLabel
<1>2. CASE old \in DOMAIN s.labels
  <2> DEFINE ls == [l \in (DOMAIN s.labels \ {old}) \cup {new} |-> IF l = new THEN s.labels[old] ELSE s.labels[l]]
  <2>1. UpdateLabel(s, old, new) = [s EXCEPT !.labels = ls]
    BY <1>2 DEF UpdateLabel
  <2>2. /\ \A l \in DOMAIN s.labels \ {old, new} : l \in DOMAIN ls /\ ls[l] = s.labels[l]
        /\ new \in DOMAIN ls /\ ls[new] = s.labels[old]
    OBVIOUS
  <2> HIDE DEF ls
  <2> QED BY <2>1, <2>2 DEF Parts
<1> QED BY <1>1, <1>2

LEMMA AddIs ==
  ASSUME NEW s, DOMAIN s = Parts, NEW label, NEW value
  PROVE  LET r == AddLabel(s, label, value)
         IN  /\ DOMAIN r = Parts
             /\ r.metric = s.metric /\ r.data = s.data /\ r.about = s.about
             /\ \A l \in DOMAIN s.labels \ {label} : l \in DOMAIN r.labels /\ r.labels[l] = s.labels[l]
             /\ label \in DOMAIN r.labels /\ r.labels[label] = value
<1> DEFINE ls == [l \in DOMAIN s.labels \cup {label} |-> IF l = label THEN value ELSE s.labels[l]]
<1>1. AddLabel(s, label, value) = [s EXCEPT !.labels = ls]
  BY DEF AddLabel
<1>2. /\ \A l \in DOMAIN s.labels \ {label} : l \in DOMAIN ls /\ ls[l] = s.labels[l]
      /\ label \in DOMAIN ls /\ ls[label] = value
  OBVIOUS
<1> HIDE DEF ls
<1> QED BY <1>1, <1>2 DEF Parts

\* What a series is when it comes to the table of names.
Relabelled(s) ==
    UpdateLabel(UpdateLabel(UpdateLabel(s, "name", "container_id"), "kubernetes_io_hostname", "NodeName"),
                "eks_amazonaws_com_compute_type", "LaunchType")

Labelled(s) == AddLabel(Relabelled(s), "ClusterName", "cluster")

LEMMA LabelledIs ==
  ASSUME NEW s, Reported(s)
  PROVE  /\ Fits(Labelled(s))
         /\ Labelled(s).metric = s.metric /\ Labelled(s).data = s.data /\ Labelled(s).about = s.about
         /\ \A l \in {"pod", "container", "image", "namespace"} : Labelled(s).labels[l] = s.labels[l]
         /\ Labelled(s).labels["LaunchType"] = s.labels["eks_amazonaws_com_compute_type"]
<1> DEFINE a == UpdateLabel(s, "name", "container_id")
           b == UpdateLabel(a, "kubernetes_io_hostname", "NodeName")
           c == UpdateLabel(b, "eks_amazonaws_com_compute_type", "LaunchType")
           d == AddLabel(c, "ClusterName", "cluster")
           Kept == {"pod", "container", "image", "namespace"}
           Launch == "eks_amazonaws_com_compute_type"
<1>1. DOMAIN s = Parts /\ Kept \cup {Launch} \subseteq DOMAIN s.labels
  BY DEF Reported, Parts
<1>2. /\ DOMAIN a = Parts /\ a.metric = s.metric /\ a.data = s.data /\ a.about = s.about
      /\ \A l \in Kept \cup {Launch} : l \in DOMAIN a.labels /\ a.labels[l] = s.labels[l]
  <2> HIDE DEF a
  <2> QED BY <1>1, UpdateIs DEF a
<1> HIDE DEF a
<1>3. /\ DOMAIN b = Parts /\ b.metric = s.metric /\ b.data = s.data /\ b.about = s.about
      /\ \A l \in Kept \cup {Launch} : l \in DOMAIN b.labels /\ b.labels[l] = s.labels[l]
  <2> HIDE DEF b
  <2> QED BY <1>2, UpdateIs DEF b
<1> HIDE DEF b
<1>4. /\ DOMAIN c = Parts /\ c.metric = s.metric /\ c.data = s.data /\ c.about = s.about
      /\ \A l \in Kept : l \in DOMAIN c.labels /\ c.labels[l] = s.labels[l]
      /\ "LaunchType" \in DOMAIN c.labels /\ c.labels["LaunchType"] = s.labels[Launch]
  <2> HIDE DEF c
  <2> QED BY <1>3, UpdateIs DEF c
<1> HIDE DEF c
<1>5. /\ DOMAIN d = Parts /\ d.metric = s.metric /\ d.data = s.data /\ d.about = s.about
      /\ \A l \in Kept : l \in DOMAIN d.labels /\ d.labels[l] = s.labels[l]
      /\ "LaunchType" \in DOMAIN d.labels /\ d.labels["LaunchType"] = s.labels[Launch]
      /\ "ClusterName" \in DOMAIN d.labels
  <2> HIDE DEF d
  <2> QED BY <1>4, AddIs DEF d
<1>6. Labelled(s) = d
  BY DEF Labelled, Relabelled, a, b, c
<1> HIDE DEF d
<1>7. Fits(d)
  <2>1. Known \subseteq DOMAIN d.labels
    BY <1>5 DEF Known
  <2>2. s.metric = Metric("raw", s.metric.of) /\ s.metric.group = "raw"
    <3>1. s.metric = Metric("raw", s.metric.of)
      BY DEF Reported
    <3>2. \A n : Metric("raw", n).group = "raw"
      BY DEF Metric
    <3> QED BY <3>1, <3>2
  <2>3. \A l \in Kept : d.labels[l] = s.labels[l]
    BY <1>5
  <2> QED BY <1>5, <2>1, <2>2, <2>3 DEF Reported, Fits
<1> QED BY <1>5, <1>6, <1>7

\* A rule makes copies for what it is for: its labels tell a pod from a
\* container, also when the name was inserted by an earlier rule.
LEMMA CopyFits ==
  ASSUME NEW s, Fits(s), NEW t, Concerns(t, s),
         ForContainers(t) \/ ForPods(t) \/ ForNetworks(t)
  PROVE  Fits([s EXCEPT !.metric = t.new])
<1> DEFINE r == [s EXCEPT !.metric = t.new]
<1> SUFFICES Fits(r)
  OBVIOUS
<1>1. DOMAIN r = Parts /\ r.metric = t.new /\ r.labels = s.labels /\ r.about = s.about /\ Known \subseteq DOMAIN r.labels
  BY DEF Fits, Parts
<1>2. /\ s.metric.of = t.include /\ s.metric.group \in {"raw", "new_container"}
      /\ t.new = Metric(t.new.group, t.new.of)
  BY DEF Concerns, Metric, ForContainers, ForPods, ForNetworks
<1>3. \A l \in DOMAIN t.wanted \cap Known :
          /\ t.wanted[l] = "\\S" => s.labels[l] # ""
          /\ t.wanted[l] = "^$" => s.labels[l] = ""
          /\ t.wanted[l] = "fargate" => s.labels[l] = "fargate"
  BY <1>1 DEF Concerns, HasLabels
<1> HIDE DEF r
<1>4. CASE ForContainers(t)
  <2>1. s.labels["container"] # "" /\ s.labels["LaunchType"] = "fargate"
    BY <1>3, <1>4 DEF ForContainers, Known
  <2>2. s.about = "container"
    BY <1>2, <1>4, <2>1 DEF Fits, ForContainers
  <2>3. t.new.group = "new_container"
    BY <1>4 DEF ForContainers, Metric
  <2> QED BY <1>1, <1>2, <1>4, <2>1, <2>2, <2>3 DEF Fits, ForContainers
<1>5. CASE ForPods(t)
  <2>1. s.labels["container"] = "" /\ s.labels["pod"] # "" /\ s.labels["LaunchType"] = "fargate"
    BY <1>3, <1>5 DEF ForPods, Known
  <2>2. s.about \in {"pod", "sandbox"}
    BY <1>2, <1>5, <2>1 DEF Fits, ForPods
  <2>3. t.new.group = "pod"
    BY <1>5 DEF ForPods, Metric
  <2> QED BY <1>1, <1>2, <2>1, <2>2, <2>3 DEF Fits
<1>6. CASE ForNetworks(t)
  <2>1. s.labels["pod"] # "" /\ s.labels["LaunchType"] = "fargate"
    BY <1>3, <1>6 DEF ForNetworks, Known
  <2>2. s.about \in {"pod", "sandbox"}
    BY <1>2, <1>6, <2>1 DEF Fits, ForNetworks
  <2>3. t.new.group = "pod"
    BY <1>6 DEF ForNetworks, Metric
  <2> QED BY <1>1, <1>2, <2>1, <2>2, <2>3 DEF Fits
<1> QED BY <1>4, <1>5, <1>6

\* All rules together: nothing but such copies, and each that a rule makes of
\* what was there before the first.
LEMMA RenameAllIs ==
  ASSUME NEW ms, \A s \in ms : Fits(s)
  PROVE  /\ \A s \in RenameAll(ms) : Fits(s)
         /\ \A k \in 1 .. 40, s \in ms :
                Concerns(Transforms[k], s) => [s EXCEPT !.metric = Transforms[k].new] \in RenameAll(ms)
<1>1. PICK u : /\ u[0] = ms
               /\ \A k \in 1 .. 40 : u[k] = InsertCopies(u[k - 1], Transforms[k])
               /\ FoldLeft(InsertCopies, ms, Transforms) = u[40]
  <2>1. DOMAIN Transforms = 1 .. 40 /\ 40 \in Nat
    BY TransformsAre
  <2>2. CopySteps(ms, 40, Transforms)
    BY <2>1, CopiesStepwise, Zenon
  <2> QED BY <2>2 DEF CopySteps
<1>2. RenameAll(ms) = u[40]
  BY <1>1 DEF RenameAll
<1> DEFINE Held(k) == k <= 40 => /\ ms \subseteq u[k]
                                 /\ \A s \in u[k] : Fits(s)
                                 /\ \A j \in 1 .. k, s \in ms :
                                       Concerns(Transforms[j], s)
                                         => [s EXCEPT !.metric = Transforms[j].new] \in u[k]
           S == {k \in Nat : Held(k)}
<1>3. 0 \in S
  BY <1>1
<1>4. ASSUME NEW k \in Nat, k \in S PROVE k + 1 \in S
  <2>1. SUFFICES ASSUME k + 1 <= 40 PROVE Held(k + 1)
    OBVIOUS
  <2> DEFINE t == Transforms[k + 1]
  <2>2. k + 1 \in 1 .. 40 /\ (k + 1) - 1 = k /\ k <= 40
    BY <2>1
  <2>3. u[k + 1] = InsertCopies(u[k], t)
    BY <1>1, <2>2
  <2>4. ForContainers(t) \/ ForPods(t) \/ ForNetworks(t)
    BY <2>2, TransformsAre
  <2>5. Held(k) /\ k <= 40
    BY <1>4, <2>2
  <2> HIDE DEF t
  <2>6. u[k + 1] = u[k] \cup {[s EXCEPT !.metric = t.new] : s \in {x \in u[k] : Concerns(t, x)}}
    BY <2>3 DEF InsertCopies
  <2>7. ms \subseteq u[k + 1]
    BY <2>5, <2>6
  <2>8. \A s \in u[k + 1] : Fits(s)
    <3>1. \A s \in u[k] : Concerns(t, s) => Fits([s EXCEPT !.metric = t.new])
      BY <2>4, <2>5, CopyFits
    <3> QED BY <2>5, <2>6, <3>1
  <2>9. ASSUME NEW j \in 1 .. k + 1, NEW s \in ms, Concerns(Transforms[j], s)
        PROVE  [s EXCEPT !.metric = Transforms[j].new] \in u[k + 1]
    <3>1. CASE j \in 1 .. k
      BY <2>5, <2>6, <2>9, <3>1
    <3>2. CASE j = k + 1
      <4>1. Transforms[j] = t
        BY <3>2 DEF t
      <4>2. s \in u[k]
        BY <2>5
      <4> QED BY <2>6, <2>9, <4>1, <4>2
    <3> QED BY <3>1, <3>2
  <2> QED BY <2>7, <2>8, <2>9
<1>5. 40 \in S
  <2> HIDE DEF S
  <2> QED BY <1>3, <1>4, NatSetInduction
<1>6. Held(40)
  BY <1>5
<1> QED BY <1>2, <1>6

\* What the filter lets through, and all that is made of it later.
Passed(s) == Fits(s) /\ s.metric.group \in {"new_container", "pod"}

\* A rule of metricsgeneration makes metrics of pods of metrics of pods.
LEMMA GenerateIs ==
  ASSUME NEW ms, \A s \in ms : Passed(s), NEW rule,
         rule.new = Metric("pod", rule.new.of), rule.first = Metric("pod", rule.first.of)
  PROVE  /\ ms \subseteq Generate(ms, rule)
         /\ \A s \in Generate(ms, rule) : Passed(s)
<1>1. \A s \in Named(ms, rule.first) : Passed([s EXCEPT !.metric = rule.new])
  <2> SUFFICES ASSUME NEW s \in Named(ms, rule.first) PROVE Passed([s EXCEPT !.metric = rule.new])
    OBVIOUS
  <2> DEFINE r == [s EXCEPT !.metric = rule.new]
  <2>1. Passed(s) /\ Fits(s) /\ s.metric.group = "pod"
    BY DEF Named, Metric, Passed
  <2>2. DOMAIN r = Parts /\ r.metric = rule.new /\ r.labels = s.labels /\ r.about = s.about
    BY <2>1 DEF Fits, Parts
  <2>3. rule.new.group = "pod" /\ rule.new = Metric(rule.new.group, rule.new.of)
    <3>1. \A n : Metric("pod", n).group = "pod"
      BY DEF Metric
    <3> QED BY <3>1
  <2> HIDE DEF r
  <2>4. Passed(r)
    BY <2>1, <2>2, <2>3 DEF Fits, Passed
  <2> QED BY <2>4 DEF r
<1> QED BY <1>1 DEF Generate, Named

LEMMA RulesAre ==
  /\ DOMAIN Generation1 = 1 .. 4 /\ DOMAIN Generation2 = 1 .. 1
  /\ \A k \in 1 .. 4 : /\ Generation1[k].new = Metric("pod", Generation1[k].new.of)
                       /\ Generation1[k].first = Metric("pod", Generation1[k].first.of)
  /\ Generation2[1].new = Metric("pod", "cpu_utilization_over_pod_limit")
  /\ Generation2[1].first = Metric("pod", "cpu_usage_total")
  /\ Generation2[1].second = Metric("pod", "cpu_limit")
  /\ Generation1[2].new = Metric("pod", "memory_utilization_over_pod_limit")
  /\ Generation1[2].first = Metric("pod", "memory_working_set")
  /\ Generation1[2].second = Metric("pod", "memory_limit")
  /\ Generation1[3].new = Metric("pod", "cpu_usage_total")
  /\ Generation1[3].first = Metric("pod", "cpu_usage_seconds_total")
  /\ Generation1[3].second = Metric("pod", "cpu_usage_seconds_total")
  /\ Generation1[4].new = Metric("pod", "cpu_limit")
  /\ Generation1[4].first = Metric("pod", "cpu_limit_raw")
  /\ Generation1[4].second = Metric("pod", "cpu_limit_raw")
BY DEF Generation1, Generation2, Generated, Scale, Metric

\* Both groups of rules: the first works on what the conversions have left,
\* the second on what the first has made.
LEMMA GeneratedIs ==
  ASSUME NEW ms, \A s \in ms : Passed(s)
  PROVE  LET one == FoldLeft(Generate, ms, Generation1)
             two == FoldLeft(Generate, one, Generation2)
         IN  /\ ms \subseteq one /\ \A s \in one : Passed(s)
             /\ \A k \in 1 .. 4, s \in ms :
                    /\ s.metric = Generation1[k].first
                    /\ Named(ms, Generation1[k].second) # {}
                    => [s EXCEPT !.metric = Generation1[k].new] \in one
             /\ two = Generate(one, Generation2[1])
<1> DEFINE one == FoldLeft(Generate, ms, Generation1)
           two == FoldLeft(Generate, one, Generation2)
<1>1. PICK u : /\ u[0] = ms
               /\ \A k \in 1 .. 4 : u[k] = Generate(u[k - 1], Generation1[k])
               /\ one = u[4]
  <2>1. DOMAIN Generation1 = 1 .. 4 /\ 4 \in Nat
    BY RulesAre
  <2>2. GenerationSteps(ms, 4, Generation1)
    BY <2>1, GenerationStepwise, Zenon
  <2> QED BY <2>2 DEF GenerationSteps
<1>2. PICK v : v[0] = one /\ (\A k \in 1 .. 1 : v[k] = Generate(v[k - 1], Generation2[k])) /\ two = v[1]
  <2>1. DOMAIN Generation2 = 1 .. 1 /\ 1 \in Nat
    BY RulesAre
  <2>2. GenerationSteps(one, 1, Generation2)
    BY <2>1, GenerationStepwise, Zenon
  <2> HIDE DEF one
  <2> QED BY <2>2 DEF GenerationSteps
<1>3. two = Generate(one, Generation2[1])
  <2>1. 1 \in 1 .. 1 /\ 1 - 1 = 0
    OBVIOUS
  <2> HIDE DEF one, two
  <2> QED BY <1>2, <2>1
<1> HIDE DEF one, two
<1>4. /\ u[1] = Generate(u[0], Generation1[1]) /\ u[2] = Generate(u[1], Generation1[2])
      /\ u[3] = Generate(u[2], Generation1[3]) /\ u[4] = Generate(u[3], Generation1[4])
  BY <1>1
<1>5. u[0] \subseteq u[1] /\ \A s \in u[1] : Passed(s)
  BY <1>1, <1>4, RulesAre, GenerateIs
<1>6. u[1] \subseteq u[2] /\ \A s \in u[2] : Passed(s)
  BY <1>4, <1>5, RulesAre, GenerateIs
<1>7. u[2] \subseteq u[3] /\ \A s \in u[3] : Passed(s)
  BY <1>4, <1>6, RulesAre, GenerateIs
<1>8. u[3] \subseteq u[4] /\ \A s \in u[4] : Passed(s)
  BY <1>4, <1>7, RulesAre, GenerateIs
<1>9. ASSUME NEW k \in 1 .. 4, NEW s \in ms, s.metric = Generation1[k].first,
             Named(ms, Generation1[k].second) # {}
      PROVE  [s EXCEPT !.metric = Generation1[k].new] \in one
  <2>1. ms \subseteq u[k - 1] /\ u[k] \subseteq one
    BY <1>1, <1>5, <1>6, <1>7, <1>8
  <2>2. u[k] = Generate(u[k - 1], Generation1[k])
    BY <1>1
  <2>3. [s EXCEPT !.metric = Generation1[k].new] \in u[k]
    BY <1>9, <2>1, <2>2 DEF Generate, Named
  <2> QED BY <2>1, <2>3
<1>10. ms \subseteq one /\ \A s \in one : Passed(s)
  BY <1>1, <1>5, <1>6, <1>7, <1>8
<1> QED BY <1>3, <1>9, <1>10 DEF one, two

-----------------------------------------------------------------------------
\* What has become of a scrape, processor by processor.
LabelledAll(ms) == DetectResource(Label1(ms))
Renamed(ms) == KeepRenamed(RenameAll(LabelledAll(ms)))
Deltas(ms) == Convert(Renamed(ms), ToDelta, "cumulative", "delta")
Rates(ms) == Convert(Deltas(ms), ToRate, "delta", "rate")
Made1(ms) == FoldLeft(Generate, Rates(ms), Generation1)
Made2(ms) == FoldLeft(Generate, Made1(ms), Generation2)

LEMMA LabelledAllIs ==
  ASSUME NEW ms
  PROVE  LabelledAll(ms) = {Labelled(s) : s \in ms}
BY DEF LabelledAll, Label1, DetectResource, Labelled, Relabelled

LEMMA RenamedFits ==
  ASSUME NEW ms, \A s \in ms : Reported(s)
  PROVE  /\ \A s \in LabelledAll(ms) : Fits(s)
         /\ \A s \in Renamed(ms) : Passed(s)
<1>1. \A s \in LabelledAll(ms) : Fits(s)
  BY LabelledAllIs, LabelledIs
<1> QED BY <1>1, RenameAllIs DEF Renamed, KeepRenamed, Passed

\* A conversion changes only what kind of number it is.
LEMMA ConvertIs ==
  ASSUME NEW ms, NEW which, NEW from, NEW to,
         \A s \in ms : Passed(s)
  PROVE  \A s \in Convert(ms, which, from, to) : Passed(s)
<1>1. SUFFICES ASSUME NEW s \in ms PROVE LET r == [s EXCEPT !.data = to]
                                        IN  Passed(r)
  BY DEF Convert
<1> DEFINE r == [s EXCEPT !.data = to]
<1>2. DOMAIN r = Parts /\ r.metric = s.metric /\ r.labels = s.labels /\ r.about = s.about
  BY DEF Passed, Fits, Parts
<1> HIDE DEF r
<1> QED BY <1>2 DEF Passed, Fits, r

LEMMA MadeFits ==
  ASSUME NEW ms, \A s \in ms : Reported(s)
  PROVE  /\ \A s \in Rates(ms) : Passed(s)
         /\ \A s \in Made2(ms) : Passed(s)
<1>1. \A s \in Rates(ms) : Passed(s)
  BY RenamedFits, ConvertIs DEF Deltas, Rates
<1>2. /\ \A s \in Made1(ms) : Passed(s)
      /\ Made2(ms) = Generate(Made1(ms), Generation2[1])
  BY <1>1, GeneratedIs DEF Made1, Made2
<1>3. \A s \in Made2(ms) : Passed(s)
  <2>1. Generation2[1].new = Metric("pod", Generation2[1].new.of)
    BY RulesAre DEF Metric
  <2>2. Generation2[1].first = Metric("pod", Generation2[1].first.of)
    BY RulesAre DEF Metric
  <2> QED BY <1>2, <2>1, <2>2, GenerateIs
<1> QED BY <1>1, <1>3

\* The labels under which series are exported.
Typed(s) == AddLabel(s, "Type", IF s.metric.group = "pod" THEN "Pod" ELSE "Container")
ForCloudWatch(s) == UpdateLabel(UpdateLabel(Typed(s), "namespace", "Namespace"), "pod", "PodName")

LEMMA ForCloudWatchIs ==
  ASSUME NEW s, Passed(s)
  PROVE  LET r == ForCloudWatch(s)
         IN  /\ DOMAIN r = Parts /\ r.metric = s.metric /\ r.data = s.data /\ r.about = s.about
             /\ {"ClusterName", "LaunchType", "Namespace", "PodName", "Type"} \subseteq DOMAIN r.labels
             /\ r.labels["LaunchType"] = s.labels["LaunchType"]
             /\ r.labels["PodName"] = s.labels["pod"]
             /\ r.labels["Type"] = IF s.metric.group = "pod" THEN "Pod" ELSE "Container"
<1> DEFINE a == Typed(s)
           b == UpdateLabel(a, "namespace", "Namespace")
           c == UpdateLabel(b, "pod", "PodName")
           Type == IF s.metric.group = "pod" THEN "Pod" ELSE "Container"
<1>1. DOMAIN s = Parts /\ {"pod", "namespace", "LaunchType", "ClusterName"} \subseteq DOMAIN s.labels
  BY DEF Passed, Fits, Known
<1> HIDE DEF Type
<1>2. /\ DOMAIN a = Parts /\ a.metric = s.metric /\ a.data = s.data /\ a.about = s.about
      /\ \A l \in {"pod", "namespace", "LaunchType", "ClusterName"} : l \in DOMAIN a.labels /\ a.labels[l] = s.labels[l]
      /\ "Type" \in DOMAIN a.labels /\ a.labels["Type"] = Type
  <2> HIDE DEF a
  <2> QED BY <1>1, AddIs DEF a, Typed, Type
<1> HIDE DEF a
<1>3. /\ DOMAIN b = Parts /\ b.metric = s.metric /\ b.data = s.data /\ b.about = s.about
      /\ \A l \in {"pod", "LaunchType", "ClusterName"} : l \in DOMAIN b.labels /\ b.labels[l] = s.labels[l]
      /\ "Type" \in DOMAIN b.labels /\ b.labels["Type"] = Type
      /\ "Namespace" \in DOMAIN b.labels
  <2> HIDE DEF b
  <2> QED BY <1>2, UpdateIs DEF b
<1> HIDE DEF b
<1>4. /\ DOMAIN c = Parts /\ c.metric = s.metric /\ c.data = s.data /\ c.about = s.about
      /\ \A l \in {"LaunchType", "ClusterName"} : l \in DOMAIN c.labels /\ c.labels[l] = s.labels[l]
      /\ "Type" \in DOMAIN c.labels /\ c.labels["Type"] = Type
      /\ "Namespace" \in DOMAIN c.labels
      /\ "PodName" \in DOMAIN c.labels /\ c.labels["PodName"] = s.labels["pod"]
  <2> HIDE DEF c
  <2> QED BY <1>3, UpdateIs DEF c
<1>5. ForCloudWatch(s) = c
  BY DEF ForCloudWatch, a, b
<1> HIDE DEF c
<1> QED BY <1>4, <1>5 DEF Type

LEMMA Label2Is ==
  ASSUME NEW ms
  PROVE  Label2(ms) = {IF s.metric.group # "new_container" THEN s
                       ELSE [s EXCEPT !.metric.group = "container"] : s \in {ForCloudWatch(x) : x \in ms}}
BY DEF Label2, ForCloudWatch, Typed

\* What is exported for a pod or a container was reported for one on Fargate.
LEMMA ApartAtTheEnd ==
  ASSUME NEW ms, \A s \in ms : Passed(s)
  PROVE  \A s \in Label2(ms) :
            /\ s.labels["LaunchType"] = "fargate"
            /\ s.metric.group = "pod" => s.about \in {"pod", "sandbox"} /\ s.labels["Type"] = "Pod"
            /\ s.metric.group = "container" => s.about = "container" /\ s.labels["Type"] = "Container"
<1>1. SUFFICES ASSUME NEW x \in ms, NEW s,
                      s = IF ForCloudWatch(x).metric.group # "new_container" THEN ForCloudWatch(x)
                          ELSE [ForCloudWatch(x) EXCEPT !.metric.group = "container"]
               PROVE  /\ s.labels["LaunchType"] = "fargate"
                      /\ s.metric.group = "pod" => s.about \in {"pod", "sandbox"} /\ s.labels["Type"] = "Pod"
                      /\ s.metric.group = "container" => s.about = "container" /\ s.labels["Type"] = "Container"
  BY Label2Is
<1> DEFINE r == ForCloudWatch(x)
<1>2. Passed(x)
  OBVIOUS
<1>3. /\ DOMAIN r = Parts /\ r.metric = x.metric /\ r.about = x.about
      /\ r.labels["LaunchType"] = x.labels["LaunchType"]
      /\ r.labels["Type"] = IF x.metric.group = "pod" THEN "Pod" ELSE "Container"
  BY <1>2, ForCloudWatchIs
<1>4. x.labels["LaunchType"] = "fargate"
  BY <1>2 DEF Passed, Fits
<1> HIDE DEF r
<1>5. CASE x.metric.group = "pod"
  <2>1. s = r
    BY <1>1, <1>3, <1>5 DEF r
  <2>2. x.about \in {"pod", "sandbox"}
    BY <1>2, <1>5 DEF Passed, Fits
  <2> QED BY <1>3, <1>4, <1>5, <2>1, <2>2
<1>6. CASE x.metric.group = "new_container"
  <2>1. s = [r EXCEPT !.metric.group = "container"]
    BY <1>1, <1>3, <1>6 DEF r
  <2>2. x.about = "container"
    BY <1>2, <1>6 DEF Passed, Fits
  <2>3. x.metric = Metric(x.metric.group, x.metric.of)
    BY <1>2 DEF Passed, Fits
  <2>4. "group" \in DOMAIN r.metric
    BY <1>3, <2>3 DEF Metric
  <2>5. s.labels = r.labels /\ s.about = r.about /\ s.metric.group = "container"
    BY <1>3, <2>1, <2>4 DEF Parts
  <2> QED BY <1>3, <1>4, <1>6, <2>2, <2>5
<1> QED BY <1>2, <1>5, <1>6 DEF Passed

-----------------------------------------------------------------------------
\* Among ms is the metric m of the pod, and it is of one of the kinds.
Has(ms, m, pod, kinds) ==
    \E s \in ms : s.metric = m /\ s.labels["pod"] = pod /\ s.data \in kinds

PodSeries(x, pod) ==
    /\ x.about \in {"pod", "sandbox"} /\ x.labels["pod"] = pod
    /\ x.labels["eks_amazonaws_com_compute_type"] = "fargate"

\* What was counted for a Fargate pod gets its name for pods, if a rule of the
\* table has the name of the counter and asks for the labels that it has.
LEMMA RuleArrives ==
  ASSUME NEW ms, \A s \in ms : Reported(s), NEW pod, NEW x \in ms, PodSeries(x, pod),
         NEW k \in 1 .. 40, NEW n, Transforms[k].include = x.metric.of,
         Transforms[k].new = Metric("pod", n),
         \/ Transforms[k].wanted = OfPod /\ x.metric.of \notin NetworkCounts
         \/ Transforms[k].wanted = OfNetwork
  PROVE  Has(Renamed(ms), Metric("pod", n), pod, {x.data})
<1> DEFINE s == Labelled(x)
           t == Transforms[k]
<1>1. Reported(x)
  OBVIOUS
<1>2. /\ Fits(s) /\ s.metric = x.metric /\ s.data = x.data
      /\ \A l \in {"pod", "container", "image", "namespace"} : s.labels[l] = x.labels[l]
      /\ s.labels["LaunchType"] = "fargate"
  BY <1>1, LabelledIs DEF PodSeries
<1>3. s \in LabelledAll(ms)
  BY LabelledAllIs
<1> HIDE DEF s
<1>4. x.metric = Metric("raw", x.metric.of) /\ x.labels["pod"] # ""
  BY <1>1 DEF Reported, PodSeries
<1>5. s.metric = Metric("raw", t.include)
  BY <1>2, <1>4
<1>6. HasLabels(s, t.wanted)
  <2>1. Known \subseteq DOMAIN s.labels
    BY <1>2 DEF Fits
  <2>2. CASE t.wanted = OfPod /\ x.metric.of \notin NetworkCounts
    <3>1. x.labels["container"] = "" /\ x.labels["image"] = ""
      BY <1>1, <2>2 DEF Reported, PodSeries
    <3>2. /\ s.labels["container"] = "" /\ s.labels["image"] = ""
          /\ s.labels["pod"] # "" /\ s.labels["LaunchType"] = "fargate"
      BY <1>2, <1>4, <3>1
    <3>3. /\ DOMAIN OfPod = {"image", "container", "pod", "LaunchType"}
          /\ OfPod["image"] = "^$" /\ OfPod["container"] = "^$"
          /\ OfPod["pod"] = "\\S" /\ OfPod["LaunchType"] = "fargate"
      BY DEF OfPod
    <3>4. HasLabels(s, OfPod)
      <4> SUFFICES ASSUME NEW l \in {"image", "container", "pod", "LaunchType"}
                   PROVE  /\ l \in DOMAIN s.labels
                          /\ OfPod[l] = "\\S" => s.labels[l] # ""
                          /\ OfPod[l] = "^$" => s.labels[l] = ""
                          /\ OfPod[l] \notin {"\\S", "^$"} => s.labels[l] = OfPod[l]
        BY <3>3 DEF HasLabels
      <4> QED BY <2>1, <3>2, <3>3 DEF Known
    <3> QED BY <2>2, <3>4
  <2>3. CASE t.wanted = OfNetwork
    <3>1. s.labels["pod"] # "" /\ s.labels["LaunchType"] = "fargate"
      <4>1. s.labels["pod"] = x.labels["pod"]
        BY <1>2
      <4> QED BY <1>2, <1>4, <4>1
    <3>2. /\ DOMAIN OfNetwork = {"pod", "LaunchType"}
          /\ OfNetwork["pod"] = "\\S" /\ OfNetwork["LaunchType"] = "fargate"
      BY DEF OfNetwork
    <3>3. HasLabels(s, OfNetwork)
      <4> SUFFICES ASSUME NEW l \in {"pod", "LaunchType"}
                   PROVE  /\ l \in DOMAIN s.labels
                          /\ OfNetwork[l] = "\\S" => s.labels[l] # ""
                          /\ OfNetwork[l] = "^$" => s.labels[l] = ""
                          /\ OfNetwork[l] \notin {"\\S", "^$"} => s.labels[l] = OfNetwork[l]
        BY <3>2 DEF HasLabels
      <4> QED BY <2>1, <3>1, <3>2 DEF Known
    <3> QED BY <2>3, <3>3
  <2> QED BY <2>2, <2>3
<1>7. Concerns(t, s)
  BY <1>5, <1>6 DEF Concerns
<1> DEFINE r == [s EXCEPT !.metric = t.new]
<1>8. r \in RenameAll(LabelledAll(ms))
  BY <1>3, <1>7, RenamedFits, RenameAllIs
<1>9. DOMAIN s = Parts
  BY <1>2 DEF Fits
<1>10. r.metric = Metric("pod", n) /\ r.labels = s.labels /\ r.data = s.data
  BY <1>9 DEF Parts
<1> HIDE DEF r, t
<1>11. r.metric.group = "pod"
  BY <1>10 DEF Metric
<1>12. r \in Renamed(ms)
  BY <1>8, <1>11 DEF Renamed, KeepRenamed
<1>13. r.labels["pod"] = pod /\ r.data = x.data
  BY <1>2, <1>10 DEF PodSeries
<1> QED BY <1>10, <1>12, <1>13 DEF Has

SettledKinds == {"gauge", "rate"}

\* Counters become rates in two steps, gauges stay.
LEMMA ConvertOne ==
  ASSUME NEW ms, NEW which, NEW from, NEW to, NEW s \in ms, DOMAIN s = Parts
  PROVE  /\ s.data # from => s \in Convert(ms, which, from, to)
         /\ s.data = from /\ s.metric \in which =>
                \E r \in Convert(ms, which, from, to) :
                    /\ DOMAIN r = Parts /\ r.metric = s.metric /\ r.labels = s.labels /\ r.data = to
<1>1. s.data # from => s \in Convert(ms, which, from, to)
  BY DEF Convert
<1> DEFINE r == [s EXCEPT !.data = to]
<1>2. s.data = from /\ s.metric \in which => r \in Convert(ms, which, from, to)
  BY DEF Convert
<1>3. DOMAIN r = Parts /\ r.metric = s.metric /\ r.labels = s.labels /\ r.data = to
  BY DEF Parts
<1> HIDE DEF r
<1> QED BY <1>1, <1>2, <1>3

LEMMA RatesArrive ==
  ASSUME NEW ms, \A s \in ms : Reported(s), NEW m, NEW pod, NEW kind,
         Has(Renamed(ms), m, pod, {kind}),
         kind = "gauge" \/ (kind = "cumulative" /\ m \in ToDelta)
  PROVE  Has(Rates(ms), m, pod, SettledKinds)
<1>1. PICK s \in Renamed(ms) : s.metric = m /\ s.labels["pod"] = pod /\ s.data = kind
  BY DEF Has
<1>2. DOMAIN s = Parts
  BY RenamedFits DEF Passed, Fits
<1>3. CASE kind = "gauge"
  <2>1. s \in Deltas(ms)
    BY <1>1, <1>2, <1>3, ConvertOne DEF Deltas
  <2>2. s \in Rates(ms)
    BY <1>1, <1>2, <1>3, <2>1, ConvertOne DEF Rates
  <2> QED BY <1>1, <1>3, <2>2 DEF Has, SettledKinds
<1>4. CASE kind = "cumulative" /\ m \in ToDelta
  <2>1. PICK d \in Deltas(ms) : DOMAIN d = Parts /\ d.metric = m /\ d.labels = s.labels /\ d.data = "delta"
    <3>1. s.data = "cumulative" /\ s.metric \in ToDelta
      BY <1>1, <1>4
    <3> DEFINE d == [s EXCEPT !.data = "delta"]
    <3>2. d \in Deltas(ms)
      BY <3>1 DEF Deltas, Convert
    <3>3. DOMAIN d = Parts /\ d.metric = s.metric /\ d.labels = s.labels /\ d.data = "delta"
      BY <1>2 DEF Parts
    <3> HIDE DEF d
    <3> QED BY <1>1, <3>2, <3>3
  <2>2. PICK r \in Rates(ms) : DOMAIN r = Parts /\ r.metric = m /\ r.labels = d.labels /\ r.data = "rate"
    BY <1>4, <2>1, ConvertOne DEF Rates, ToRate
  <2> QED BY <1>1, <2>1, <2>2 DEF Has, SettledKinds
<1> QED BY <1>3, <1>4

\* What a rule needs is there when the rule is applied, and stays.
LEMMA MadeArrive ==
  ASSUME NEW ms, \A s \in ms : Reported(s), NEW pod
  PROVE  /\ \A m : Has(Rates(ms), m, pod, SettledKinds) => Has(Made1(ms), m, pod, SettledKinds)
         /\ \A m : Has(Made1(ms), m, pod, SettledKinds) => Has(Made2(ms), m, pod, SettledKinds)
         /\ \A k \in 1 .. 4 :
                /\ Has(Rates(ms), Generation1[k].first, pod, SettledKinds)
                /\ Has(Rates(ms), Generation1[k].second, pod, SettledKinds)
                => Has(Made1(ms), Generation1[k].new, pod, SettledKinds)
         /\ /\ Has(Made1(ms), Generation2[1].first, pod, SettledKinds)
            /\ Has(Made1(ms), Generation2[1].second, pod, SettledKinds)
            => Has(Made2(ms), Generation2[1].new, pod, SettledKinds)
<1>1. \A s \in Rates(ms) : Passed(s)
  BY MadeFits
<1>2. /\ Rates(ms) \subseteq Made1(ms) /\ \A s \in Made1(ms) : Passed(s)
      /\ \A k \in 1 .. 4, s \in Rates(ms) :
             /\ s.metric = Generation1[k].first
             /\ Named(Rates(ms), Generation1[k].second) # {}
             => [s EXCEPT !.metric = Generation1[k].new] \in Made1(ms)
      /\ Made2(ms) = Generate(Made1(ms), Generation2[1])
  BY <1>1, GeneratedIs DEF Made1, Made2
<1>3. Made1(ms) \subseteq Made2(ms)
  BY <1>2 DEF Generate
<1>4. ASSUME NEW k \in 1 .. 4,
             Has(Rates(ms), Generation1[k].first, pod, SettledKinds),
             Has(Rates(ms), Generation1[k].second, pod, SettledKinds)
      PROVE  Has(Made1(ms), Generation1[k].new, pod, SettledKinds)
  <2>1. PICK s \in Rates(ms) : s.metric = Generation1[k].first /\ s.labels["pod"] = pod /\ s.data \in SettledKinds
    BY <1>4 DEF Has
  <2>2. Named(Rates(ms), Generation1[k].second) # {}
    BY <1>4 DEF Has, Named
  <2> DEFINE r == [s EXCEPT !.metric = Generation1[k].new]
  <2>3. r \in Made1(ms)
    BY <1>2, <2>1, <2>2
  <2>4. DOMAIN s = Parts
    BY <1>1 DEF Passed, Fits
  <2>5. r.metric = Generation1[k].new /\ r.labels = s.labels /\ r.data = s.data
    BY <2>4 DEF Parts
  <2> HIDE DEF r
  <2> QED BY <2>1, <2>3, <2>5 DEF Has
<1>5. ASSUME Has(Made1(ms), Generation2[1].first, pod, SettledKinds),
             Has(Made1(ms), Generation2[1].second, pod, SettledKinds)
      PROVE  Has(Made2(ms), Generation2[1].new, pod, SettledKinds)
  <2>1. PICK s \in Made1(ms) : s.metric = Generation2[1].first /\ s.labels["pod"] = pod /\ s.data \in SettledKinds
    BY <1>5 DEF Has
  <2>2. Named(Made1(ms), Generation2[1].second) # {}
    BY <1>5 DEF Has, Named
  <2> DEFINE r == [s EXCEPT !.metric = Generation2[1].new]
  <2>3. r \in Made2(ms)
    BY <1>2, <2>1, <2>2 DEF Generate, Named
  <2>4. DOMAIN s = Parts
    BY <1>2 DEF Passed, Fits
  <2>5. r.metric = Generation2[1].new /\ r.labels = s.labels /\ r.data = s.data
    BY <2>4 DEF Parts
  <2> HIDE DEF r
  <2> QED BY <2>1, <2>3, <2>5 DEF Has
<1>6. \A m : Has(Rates(ms), m, pod, SettledKinds) => Has(Made1(ms), m, pod, SettledKinds)
  BY <1>2 DEF Has
<1>7. \A m : Has(Made1(ms), m, pod, SettledKinds) => Has(Made2(ms), m, pod, SettledKinds)
  BY <1>3 DEF Has
<1> QED BY <1>4, <1>5, <1>6, <1>7

\* The rules that the selected metrics come from.
LEMMA TablesAgree ==
  /\ PodTransforms[1] = Rename("spec_cpu_quota", "pod", "cpu_limit_raw", OfPod)
  /\ PodTransforms[3] = Rename("cpu_usage_seconds_total", "pod", "cpu_usage_seconds_total", OfPod)
  /\ PodTransforms[4] = Rename("spec_memory_limit_bytes", "pod", "memory_limit", OfPod)
  /\ PodTransforms[8] = Rename("memory_working_set_bytes", "pod", "memory_working_set", OfPod)
  /\ NetworkTransforms[1] = Rename("network_receive_bytes_total", "pod", "network_rx_bytes", OfNetwork)
  /\ NetworkTransforms[5] = Rename("network_transmit_bytes_total", "pod", "network_tx_bytes", OfNetwork)
BY DEF PodTransforms, NetworkTransforms

NamesFor(ms, pod) == {x.metric.of : x \in {s \in ms : PodSeries(s, pod)}}

\* From the scrape to the end of the conversions.
LEMMA RawArrives ==
  ASSUME NEW ms, \A s \in ms : Reported(s), NEW pod, NEW raw \in NamesFor(ms, pod), NEW k \in 1 .. 40, NEW n, NEW w,
         Transforms[k] = Rename(raw, "pod", n, w),
         (w = OfPod /\ raw \notin NetworkCounts) \/ w = OfNetwork,
         raw \in Levels \/ Metric("pod", n) \in ToDelta
  PROVE  Has(Rates(ms), Metric("pod", n), pod, SettledKinds)
<1>1. PICK x \in ms : PodSeries(x, pod) /\ x.metric.of = raw
  BY DEF NamesFor
<1>2. Transforms[k].include = raw /\ Transforms[k].new = Metric("pod", n) /\ Transforms[k].wanted = w
  BY DEF Rename
<1>3. Has(Renamed(ms), Metric("pod", n), pod, {x.data})
  BY <1>1, <1>2, RuleArrives
<1>4. x.data = "gauge" \/ (x.data = "cumulative" /\ Metric("pod", n) \in ToDelta)
  BY <1>1 DEF Reported
<1> QED BY <1>3, <1>4, RatesArrive

\* Each selected metric, by the rules that lead to it.
LEMMA SelectedAreMade ==
  ASSUME NEW ms, \A s \in ms : Reported(s), NEW pod, NEW m \in Selected,
         Needs(m.of) \subseteq NamesFor(ms, pod)
  PROVE  Has(Made2(ms), m, pod, SettledKinds)
<1> DEFINE Arrives(raw, n) == raw \in NamesFor(ms, pod) => Has(Rates(ms), Metric("pod", n), pod, SettledKinds)
<1>1. /\ Transforms[18] = Rename("spec_cpu_quota", "pod", "cpu_limit_raw", OfPod)
      /\ Transforms[20] = Rename("cpu_usage_seconds_total", "pod", "cpu_usage_seconds_total", OfPod)
      /\ Transforms[21] = Rename("spec_memory_limit_bytes", "pod", "memory_limit", OfPod)
      /\ Transforms[25] = Rename("memory_working_set_bytes", "pod", "memory_working_set", OfPod)
      /\ Transforms[33] = Rename("network_receive_bytes_total", "pod", "network_rx_bytes", OfNetwork)
      /\ Transforms[37] = Rename("network_transmit_bytes_total", "pod", "network_tx_bytes", OfNetwork)
  <2>1. /\ Transforms[17 + 1] = PodTransforms[1] /\ Transforms[17 + 3] = PodTransforms[3]
        /\ Transforms[17 + 4] = PodTransforms[4] /\ Transforms[17 + 8] = PodTransforms[8]
        /\ Transforms[32 + 1] = NetworkTransforms[1] /\ Transforms[32 + 5] = NetworkTransforms[5]
    BY TransformsAre
  <2>2. 17 + 1 = 18 /\ 17 + 3 = 20 /\ 17 + 4 = 21 /\ 17 + 8 = 25 /\ 32 + 1 = 33 /\ 32 + 5 = 37
    OBVIOUS
  <2> QED BY <2>1, <2>2, TablesAgree
<1>2. /\ Metric("pod", "cpu_usage_seconds_total") \in ToDelta
      /\ Metric("pod", "network_rx_bytes") \in ToDelta
      /\ Metric("pod", "network_tx_bytes") \in ToDelta
  BY DEF ToDelta, NetworkNames
<1>3. /\ "spec_cpu_quota" \in Levels \ NetworkCounts
      /\ "spec_memory_limit_bytes" \in Levels \ NetworkCounts
      /\ "memory_working_set_bytes" \in Levels \ NetworkCounts
      /\ "cpu_usage_seconds_total" \notin NetworkCounts
  BY DEF Levels, NetworkCounts
<1>4. Arrives("spec_cpu_quota", "cpu_limit_raw")
  <2>1. 18 \in 1 .. 40
    OBVIOUS
  <2> QED BY <1>1, <1>3, <2>1, RawArrives
<1>5. Arrives("cpu_usage_seconds_total", "cpu_usage_seconds_total")
  <2>1. 20 \in 1 .. 40
    OBVIOUS
  <2> QED BY <1>1, <1>2, <1>3, <2>1, RawArrives
<1>6. Arrives("spec_memory_limit_bytes", "memory_limit")
  <2>1. 21 \in 1 .. 40
    OBVIOUS
  <2> QED BY <1>1, <1>3, <2>1, RawArrives
<1>7. Arrives("memory_working_set_bytes", "memory_working_set")
  <2>1. 25 \in 1 .. 40
    OBVIOUS
  <2> QED BY <1>1, <1>3, <2>1, RawArrives
<1>8. Arrives("network_receive_bytes_total", "network_rx_bytes")
  <2>1. 33 \in 1 .. 40
    OBVIOUS
  <2> QED BY <1>1, <1>2, <2>1, RawArrives
<1>9. Arrives("network_transmit_bytes_total", "network_tx_bytes")
  <2>1. 37 \in 1 .. 40
    OBVIOUS
  <2> QED BY <1>1, <1>2, <2>1, RawArrives
<1> DEFINE One(n) == Has(Made1(ms), Metric("pod", n), pod, SettledKinds)
           Two(n) == Has(Made2(ms), Metric("pod", n), pod, SettledKinds)
           Rated(n) == Has(Rates(ms), Metric("pod", n), pod, SettledKinds)
<1>10. \A n : (Rated(n) => One(n)) /\ (One(n) => Two(n))
  BY MadeArrive
<1>11. Rated("cpu_usage_seconds_total") => One("cpu_usage_total")
  <2>1. 3 \in 1 .. 4
    OBVIOUS
  <2> QED BY <2>1, RulesAre, MadeArrive
<1>12. Rated("cpu_limit_raw") => One("cpu_limit")
  <2>1. 4 \in 1 .. 4
    OBVIOUS
  <2> QED BY <2>1, RulesAre, MadeArrive
<1>13. Rated("memory_working_set") /\ Rated("memory_limit") => One("memory_utilization_over_pod_limit")
  <2>1. 2 \in 1 .. 4
    OBVIOUS
  <2> QED BY <2>1, RulesAre, MadeArrive
<1>14. One("cpu_usage_total") /\ One("cpu_limit") => Two("cpu_utilization_over_pod_limit")
  BY RulesAre, MadeArrive
<1>15. PICK n \in {"cpu_utilization_over_pod_limit", "cpu_usage_total", "cpu_limit",
                   "memory_utilization_over_pod_limit", "memory_working_set",
                   "memory_limit", "network_rx_bytes", "network_tx_bytes"} : m = Metric("pod", n)
  BY DEF Selected
<1>16. m.of = n
  BY <1>15 DEF Metric
<1>17. Needs(n) \subseteq NamesFor(ms, pod)
  BY <1>16
<1> HIDE DEF One, Two, Rated
<1>18. CASE n = "cpu_utilization_over_pod_limit"
  <2>1. Needs(n) = {"cpu_usage_seconds_total", "spec_cpu_quota"}
    BY <1>18 DEF Needs
  <2> QED BY <1>18, <2>1, <1>17, <1>4, <1>5, <1>11, <1>12, <1>14, <1>15 DEF Rated, Two
<1>19. CASE n = "cpu_usage_total"
  <2>1. Needs(n) = {"cpu_usage_seconds_total"}
    BY <1>19 DEF Needs
  <2> QED BY <1>19, <2>1, <1>17, <1>5, <1>11, <1>10, <1>15 DEF Rated, Two
<1>20. CASE n = "cpu_limit"
  <2>1. Needs(n) = {"spec_cpu_quota"}
    BY <1>20 DEF Needs
  <2> QED BY <1>20, <2>1, <1>17, <1>4, <1>12, <1>10, <1>15 DEF Rated, Two
<1>21. CASE n = "memory_utilization_over_pod_limit"
  <2>1. Needs(n) = {"memory_working_set_bytes", "spec_memory_limit_bytes"}
    BY <1>21 DEF Needs
  <2> QED BY <1>21, <2>1, <1>17, <1>6, <1>7, <1>13, <1>10, <1>15 DEF Rated, Two
<1>22. CASE n = "memory_working_set"
  <2>1. Needs(n) = {"memory_working_set_bytes"}
    BY <1>22 DEF Needs
  <2> QED BY <1>22, <2>1, <1>17, <1>7, <1>10, <1>15 DEF Rated, Two
<1>23. CASE n = "memory_limit"
  <2>1. Needs(n) = {"spec_memory_limit_bytes"}
    BY <1>23 DEF Needs
  <2> QED BY <1>23, <2>1, <1>17, <1>6, <1>10, <1>15 DEF Rated, Two
<1>24. CASE n = "network_rx_bytes"
  <2>1. Needs(n) = {"network_receive_bytes_total"}
    BY <1>24 DEF Needs
  <2> QED BY <1>24, <2>1, <1>17, <1>8, <1>10, <1>15 DEF Rated, Two
<1>25. CASE n = "network_tx_bytes"
  <2>1. Needs(n) = {"network_transmit_bytes_total"}
    BY <1>25 DEF Needs
  <2> QED BY <1>25, <2>1, <1>17, <1>9, <1>10, <1>15 DEF Rated, Two
<1> QED BY <1>15, <1>18, <1>19, <1>20, <1>21, <1>22, <1>23, <1>24, <1>25

\* A metric of a pod that is there before the last labels is published under
\* every set of dimensions.
LEMMA SelectedAreExported ==
  ASSUME NEW ms, \A s \in ms : Passed(s), NEW pod, NEW m \in Selected, Has(ms, m, pod, SettledKinds)
  PROVE  \E s \in Named(Label2(ms), m) :
             /\ \A labels \in Dimensions : <<s, labels>> \in Published(Label2(ms))
             /\ s.labels["PodName"] = pod
             /\ s.data \in SettledKinds
<1>1. PICK x \in ms : x.metric = m /\ x.labels["pod"] = pod /\ x.data \in SettledKinds
  BY DEF Has
<1> DEFINE s == ForCloudWatch(x)
<1>2. /\ s.metric = m /\ s.data = x.data
      /\ {"ClusterName", "LaunchType", "Namespace", "PodName", "Type"} \subseteq DOMAIN s.labels
      /\ s.labels["PodName"] = pod
  BY <1>1, ForCloudWatchIs
<1>3. s.metric.group # "new_container"
  BY <1>2 DEF Selected, Metric
<1>4. s \in Label2(ms)
  BY <1>3, Label2Is
<1> HIDE DEF s
<1>5. s \in Named(Label2(ms), m)
  BY <1>2, <1>4 DEF Named
<1>6. ASSUME NEW labels \in Dimensions PROVE <<s, labels>> \in Published(Label2(ms))
  <2>1. labels \subseteq DOMAIN s.labels
    BY <1>2 DEF Dimensions
  <2> QED BY <1>2, <1>4, <2>1 DEF Published
<1> QED BY <1>1, <1>2, <1>5, <1>6

-----------------------------------------------------------------------------
(***************************************************************************)
(* The inductive invariant: at each place of the pipeline the metrics are  *)
(* what the processors before it make of the scrape.                       *)
(***************************************************************************)
After(k, ms) ==
    CASE k = 1 -> ms
      [] k = 2 -> Label1(ms)
      [] k = 3 -> LabelledAll(ms)
      [] k = 4 -> RenameAll(LabelledAll(ms))
      [] k = 5 -> Renamed(ms)
      [] k = 6 -> Deltas(ms)
      [] k = 7 -> Rates(ms)
      [] k = 8 -> Made1(ms)
      [] k = 9 -> Made2(ms)
      [] k = 10 -> Label2(Made2(ms))
      [] k = 11 -> Label2(Made2(ms))

CollectIInv ==
    /\ stage \in 0 .. 11
    /\ stage # 0 => scraped \in Scrapes /\ metrics = After(stage, scraped)

LEMMA PipelineIs ==
  /\ DOMAIN Pipeline = 1 .. 10 /\ Len(Pipeline) = 10
  /\ Pipeline[1] = "metricstransform/label_1" /\ Pipeline[2] = "resourcedetection"
  /\ Pipeline[3] = "metricstransform/rename" /\ Pipeline[4] = "filter"
  /\ Pipeline[5] = "cumulativetodelta" /\ Pipeline[6] = "deltatorate"
  /\ Pipeline[7] = "experimental_metricsgeneration/1" /\ Pipeline[8] = "experimental_metricsgeneration/2"
  /\ Pipeline[9] = "metricstransform/label_2" /\ Pipeline[10] = "batch"
BY DEF Pipeline

LEMMA CollectIInvHolds == CollectSpec => []CollectIInv
<1>1. CollectInit => CollectIInv
  BY DEF CollectInit, CollectIInv
<1>2. CollectIInv /\ [CollectNext]_collecting => CollectIInv'
  <2> SUFFICES ASSUME CollectIInv, [CollectNext]_collecting PROVE CollectIInv'
    OBVIOUS
  <2> USE DEF CollectIInv
  <2>1. CASE Scrape
    BY <2>1 DEF Scrape, After
  <2>2. ASSUME NEW p, NEW ms, Through(p, ms),
               \A k \in 1 .. 10 : Pipeline[k] = p => (metrics = After(k, scraped) => ms = After(k + 1, scraped))
        PROVE  CollectIInv'
    <3>1. stage \in 1 .. 10 /\ Pipeline[stage] = p /\ metrics' = ms /\ stage' = stage + 1 /\ scraped' = scraped
      BY <2>2, PipelineIs DEF Through
    <3>2. ms = After(stage + 1, scraped)
      BY <2>2, <3>1
    <3>3. metrics' = After(stage', scraped') /\ stage' \in 1 .. 11
      BY <3>1, <3>2
    <3> QED BY <3>1, <3>3
  <2> HIDE DEF CollectIInv
  <2>3. CASE Through("metricstransform/label_1", Label1(metrics))
    <3>1. \A k \in 1 .. 10 : Pipeline[k] = "metricstransform/label_1" => k = 1
      BY PipelineIs
    <3>2. metrics = After(1, scraped) => Label1(metrics) = After(1 + 1, scraped)
      BY DEF After
    <3> QED BY <2>2, <2>3, <3>1, <3>2
  <2>4. CASE Through("resourcedetection", DetectResource(metrics))
    <3>1. \A k \in 1 .. 10 : Pipeline[k] = "resourcedetection" => k = 2
      BY PipelineIs
    <3>2. metrics = After(2, scraped) => DetectResource(metrics) = After(2 + 1, scraped)
      BY DEF After, LabelledAll
    <3> QED BY <2>2, <2>4, <3>1, <3>2
  <2>5. CASE Through("metricstransform/rename", RenameAll(metrics))
    <3>1. \A k \in 1 .. 10 : Pipeline[k] = "metricstransform/rename" => k = 3
      BY PipelineIs
    <3>2. metrics = After(3, scraped) => RenameAll(metrics) = After(3 + 1, scraped)
      BY DEF After
    <3> QED BY <2>2, <2>5, <3>1, <3>2
  <2>6. CASE Through("filter", KeepRenamed(metrics))
    <3>1. \A k \in 1 .. 10 : Pipeline[k] = "filter" => k = 4
      BY PipelineIs
    <3>2. metrics = After(4, scraped) => KeepRenamed(metrics) = After(4 + 1, scraped)
      BY DEF After, Renamed
    <3> QED BY <2>2, <2>6, <3>1, <3>2
  <2>7. CASE Through("cumulativetodelta", Convert(metrics, ToDelta, "cumulative", "delta"))
    <3>1. \A k \in 1 .. 10 : Pipeline[k] = "cumulativetodelta" => k = 5
      BY PipelineIs
    <3>2. metrics = After(5, scraped) => Convert(metrics, ToDelta, "cumulative", "delta") = After(5 + 1, scraped)
      BY DEF After, Deltas
    <3> QED BY <2>2, <2>7, <3>1, <3>2
  <2>8. CASE Through("deltatorate", Convert(metrics, ToRate, "delta", "rate"))
    <3>1. \A k \in 1 .. 10 : Pipeline[k] = "deltatorate" => k = 6
      BY PipelineIs
    <3>2. metrics = After(6, scraped) => Convert(metrics, ToRate, "delta", "rate") = After(6 + 1, scraped)
      BY DEF After, Rates
    <3> QED BY <2>2, <2>8, <3>1, <3>2
  <2>9. CASE Through("experimental_metricsgeneration/1", FoldLeft(Generate, metrics, Generation1))
    <3>1. \A k \in 1 .. 10 : Pipeline[k] = "experimental_metricsgeneration/1" => k = 7
      BY PipelineIs
    <3>2. metrics = After(7, scraped) => FoldLeft(Generate, metrics, Generation1) = After(7 + 1, scraped)
      BY DEF After, Made1
    <3> QED BY <2>2, <2>9, <3>1, <3>2
  <2>10. CASE Through("experimental_metricsgeneration/2", FoldLeft(Generate, metrics, Generation2))
    <3>1. \A k \in 1 .. 10 : Pipeline[k] = "experimental_metricsgeneration/2" => k = 8
      BY PipelineIs
    <3>2. metrics = After(8, scraped) => FoldLeft(Generate, metrics, Generation2) = After(8 + 1, scraped)
      BY DEF After, Made2
    <3> QED BY <2>2, <2>10, <3>1, <3>2
  <2>11. CASE Through("metricstransform/label_2", Label2(metrics))
    <3>1. \A k \in 1 .. 10 : Pipeline[k] = "metricstransform/label_2" => k = 9
      BY PipelineIs
    <3>2. metrics = After(9, scraped) => Label2(metrics) = After(9 + 1, scraped)
      BY DEF After
    <3> QED BY <2>2, <2>11, <3>1, <3>2
  <2>12. CASE Through("batch", metrics)
    <3>1. \A k \in 1 .. 10 : Pipeline[k] = "batch" => k = 10
      BY PipelineIs
    <3>2. metrics = After(10, scraped) => metrics = After(10 + 1, scraped)
      BY DEF After
    <3> QED BY <2>2, <2>12, <3>1, <3>2
  <2>13. CASE Export
    BY <2>13 DEF Export, CollectIInv
  <2>14. CASE UNCHANGED collecting
    BY <2>14 DEF collecting, CollectIInv
  <2> QED BY <2>1, <2>3, <2>4, <2>5, <2>6, <2>7, <2>8, <2>9, <2>10, <2>11, <2>12, <2>13, <2>14 DEF CollectNext
<1> QED BY <1>1, <1>2, PTL DEF CollectSpec

(***************************************************************************)
(* Whatever the kubelets report: the selected metrics of every Fargate pod *)
(* for which the numbers were scraped are published under all dimensions,  *)
(* as rates or gauges, and nothing of a container, of the node or of a pod *)
(* elsewhere is exported as a metric of a pod (the tables and the order of *)
(* processors in adot-collector.ts).                                       *)
(***************************************************************************)
THEOREM PodMetricsAlwaysArrive == CollectSpec => []PodMetricsArrive
<1>1. CollectIInv => PodMetricsArrive
  <2> SUFFICES ASSUME CollectIInv, stage > Len(Pipeline) PROVE PodMetricsArrive
    BY DEF PodMetricsArrive, SelectedMetricsArrive, PodsAndContainersApart
  <2>1. stage = 11 /\ scraped \in Scrapes
    BY PipelineIs DEF CollectIInv
  <2>2. metrics = Label2(Made2(scraped))
    BY <2>1 DEF CollectIInv, After
  <2>3. \A s \in scraped : Reported(s)
    BY <2>1, ScrapesAssumption
  <2>4. \A s \in Made2(scraped) : Passed(s)
    BY <2>3, MadeFits
  <2>5. SelectedMetricsArrive
    <3> DEFINE Exported(m, pod, labels) ==
                  \E s \in Named(metrics, m) :
                      /\ <<s, labels>> \in Published(metrics)
                      /\ s.labels.PodName = pod
                      /\ s.data \in {"gauge", "rate"}
    <3>1. ASSUME NEW m \in Selected, NEW pod, Needs(m.of) \subseteq ScrapedFor(pod), NEW labels \in Dimensions
          PROVE  Exported(m, pod, labels)
      <4>1. ScrapedFor(pod) = NamesFor(scraped, pod)
        BY DEF ScrapedFor, NamesFor, PodSeries
      <4>2. Has(Made2(scraped), m, pod, SettledKinds)
        BY <2>3, <3>1, <4>1, SelectedAreMade
      <4> QED BY <2>2, <2>4, <4>2, SelectedAreExported DEF SettledKinds
    <3>2. SelectedMetricsArrive <=>
              (stage > Len(Pipeline) =>
                  \A m \in Selected, pod \in PodsScraped :
                      Needs(m.of) \subseteq ScrapedFor(pod) => \A labels \in Dimensions : Exported(m, pod, labels))
      BY Zenon DEF SelectedMetricsArrive
    <3> HIDE DEF Exported
    <3> QED BY <3>1, <3>2, Zenon
  <2>6. PodsAndContainersApart
    BY <2>2, <2>4, ApartAtTheEnd DEF PodsAndContainersApart
  <2> QED BY <2>5, <2>6 DEF PodMetricsArrive
<1> QED BY <1>1, CollectIInvHolds, PTL

=============================================================================

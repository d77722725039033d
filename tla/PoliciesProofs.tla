--------------------------- MODULE PoliciesProofs ---------------------------
(***************************************************************************)
(* That the transform of a policy ends in documents the target takes, for  *)
(* all policies of 2.x, that transforming them again changes nothing, and  *)
(* that a legacy policy configures the traffic it did.                     *)
(* First what the conversion of a reference makes of it, then each stage   *)
(* of the pipeline, then the invariant that holds between the stages; then *)
(* whom the references of a converted selector select.                     *)
(***************************************************************************)
EXTENDS PolicyScope, NaturalsInduction, FiniteSetTheorems, TLAPS

-----------------------------------------------------------------------------
(***************************************************************************)
(* Sequences.                                                              *)
(***************************************************************************)

\* A set of numbers that is not empty has a least member.
LEMMA LeastNumber ==
  ASSUME NEW S, S \subseteq Nat, S # {}
  PROVE  \E n \in S : \A m \in S : n <= m
<1> DEFINE less == OpToRel(<, Nat)
<1>1. IsWellFoundedOn(less, Nat)
  BY NatLessThanWellFounded, Zenon
<1>2. \A x, y \in Nat : <<x, y>> \in less <=> x < y
  BY DEF OpToRel
<1> HIDE DEF less
<1>3. \E x \in S : \A y \in S : <<y, x>> \notin less
  BY <1>1, WFMin, Zenon
<1>4. \A x, y \in S : <<y, x>> \in less \/ x <= y
  <2>1. \A x, y \in Nat : x < y \/ y <= x
    OBVIOUS
  <2> QED
    BY <1>2, <2>1, Zenon
<1> QED
  BY <1>3, <1>4, Zenon

\* A set that holds 0 and every successor of its members holds them all.
LEMMA Induction ==
  ASSUME NEW S, 0 \in S, \A n \in Nat : n \in S => n + 1 \in S
  PROVE  Nat \subseteq S
<1> SUFFICES ASSUME ~(Nat \subseteq S) PROVE FALSE
  OBVIOUS
<1> DEFINE T == Nat \ S
<1>1. T \subseteq Nat /\ T # {}
  OBVIOUS
<1> HIDE DEF T
<1>2. PICK n \in T : \A m \in T : n <= m
  BY <1>1, LeastNumber
<1> QED
  BY <1>2 DEF T

\* The members of I up to i.
UpTo(I, i) == {j \in I : j <= i}

LEMMA SmallSets ==
  ASSUME NEW n \in Nat, NEW I, I \subseteq 1..n
  PROVE  IsFiniteSet(I) /\ Cardinality(I) \in Nat
<1>1. IsFiniteSet(1..n)
  BY FS_Interval
<1> QED
  BY <1>1, FS_Subset, FS_CardinalityType

\* Every rank up to the size of I is that of a member of I.
LEMMA Ranked ==
  ASSUME NEW n \in Nat, NEW I, I \subseteq 1..n, NEW k \in 1..Cardinality(I)
  PROVE  \E i \in I : Cardinality(UpTo(I, i)) = k
<1> DEFINE Full(J) == \A m \in 1..Cardinality(J) :
                        \E i \in J : Cardinality(UpTo(J, i)) = m
           S == {x \in Nat : \A J \in SUBSET (1..x) : Full(J)}
<1>1. 0 \in S
  <2>1. SUBSET (1..0) = {{}} /\ Cardinality({}) = 0
    BY FS_EmptySet
  <2>2. Full({})
    BY <2>1
  <2> QED
    BY <2>1, <2>2
<1>2. ASSUME NEW x \in Nat, x \in S PROVE x + 1 \in S
  <2> SUFFICES ASSUME NEW J \in SUBSET (1..(x + 1)), NEW m \in 1..Cardinality(J)
               PROVE  \E i \in J : Cardinality(UpTo(J, i)) = m
    OBVIOUS
  <2> DEFINE y == x + 1
  <2>0. y \in Nat /\ J \subseteq 1..y /\ \A j \in J : j \in Nat /\ j <= x + 1
    OBVIOUS
  <2> HIDE DEF y
  <2>1. IsFiniteSet(J) /\ Cardinality(J) \in Nat
    BY <2>0, SmallSets, Zenon
  <2>2. CASE x + 1 \notin J
    <3>1. J \in SUBSET (1..x)
      BY <2>2
    <3> QED
      BY <1>2, <3>1
  <2>3. CASE x + 1 \in J
    <3> DEFINE L == J \ {x + 1}
    <3>1. L \in SUBSET (1..x) /\ Cardinality(J) = Cardinality(L) + 1
          /\ Cardinality(L) \in Nat
      BY <2>1, <2>3, FS_RemoveElement, SmallSets
    <3>2. CASE m = Cardinality(J)
      <4>1. UpTo(J, x + 1) = J
        BY <2>0 DEF UpTo
      <4> QED
        BY <2>3, <3>2, <4>1
    <3>3. CASE m # Cardinality(J)
      <4>1. m \in 1..Cardinality(L)
        BY <3>1, <3>3
      <4>2. PICK i \in L : Cardinality(UpTo(L, i)) = m
        BY <1>2, <3>1, <4>1
      <4>3. UpTo(J, i) = UpTo(L, i)
        BY <3>1 DEF UpTo
      <4> QED
        BY <4>2, <4>3
    <3> QED
      BY <3>2, <3>3
  <2> QED
    BY <2>2, <2>3
<1> HIDE DEF S
<1>3. n \in S
  BY <1>1, <1>2, Induction
<1> QED
  BY <1>3 DEF S

LEMMA NthMember ==
  ASSUME NEW n \in Nat, NEW I, I \subseteq 1..n, NEW k \in 1..Cardinality(I)
  PROVE  Nth(I, k) \in I /\ Cardinality(UpTo(I, Nth(I, k))) = k
<1> DEFINE R(i) == Cardinality(UpTo(I, i))
<1>1. \E i \in I : R(i) = k
  BY Ranked, Zenon
<1>2. Nth(I, k) = CHOOSE i \in I : R(i) = k
  BY Zenon DEF Nth, UpTo
<1> HIDE DEF R
<1>3. Nth(I, k) \in I /\ R(Nth(I, k)) = k
  BY <1>1, <1>2, Zenon
<1> QED
  BY <1>3 DEF R

IsSeq(s) == s \in Seq(Range(s))

LEMMA NoDomain == DOMAIN <<>> = {}
  OBVIOUS

\* A sequence is its elements.
LEMMA SeqMeans ==
  ASSUME NEW s, IsSeq(s)
  PROVE  /\ Len(s) \in Nat /\ DOMAIN s = 1..Len(s)
         /\ s = [i \in DOMAIN s |-> s[i]]
  BY DEF IsSeq

LEMMA SeqOfNumbered ==
  ASSUME NEW n \in Nat, NEW s, DOMAIN s = 1..n, s = [i \in DOMAIN s |-> s[i]]
  PROVE  IsSeq(s) /\ Len(s) = n
<1>1. s \in [1..n -> Range(s)]
  BY DEF Range
<1>2. s \in Seq(Range(s))
  BY <1>1
<1> QED
  BY <1>2 DEF IsSeq

\* What is made of a sequence element by element is a sequence of its length.
LEMMA SeqOfDomain ==
  ASSUME NEW s, IsSeq(s), NEW r, DOMAIN r = DOMAIN s, r = [i \in DOMAIN r |-> r[i]]
  PROVE  IsSeq(r) /\ Len(r) = Len(s)
  BY SeqMeans, SeqOfNumbered, Zenon

LEMMA SeqOfOne ==
  ASSUME NEW a
  PROVE  /\ IsSeq(<<a>>) /\ Len(<<a>>) = 1 /\ DOMAIN <<a>> = {1} /\ <<a>>[1] = a
<1>1. <<a>> \in Seq({a}) /\ DOMAIN <<a>> = {1} /\ <<a>>[1] = a /\ Len(<<a>>) = 1
  OBVIOUS
<1>2. Range(<<a>>) = {a}
  BY <1>1 DEF Range
<1> QED
  BY <1>1, <1>2 DEF IsSeq

LEMMA SeqOfNone == IsSeq(<<>>) /\ Len(<<>>) = 0
<1>1. Range(<<>>) = {}
  BY NoDomain DEF Range
<1>2. <<>> \in Seq({})
  OBVIOUS
<1> QED
  BY <1>1, <1>2 DEF IsSeq

LEMMA EmptySeq ==
  ASSUME NEW s, IsSeq(s)
  PROVE  s = <<>> <=> DOMAIN s = {}
<1>1. s \in Seq(Range(s))
  BY DEF IsSeq
<1> QED
  BY <1>1

-----------------------------------------------------------------------------
(***************************************************************************)
(* References: what their conversion makes of them.                        *)
(***************************************************************************)
RefFields == {"kind", "tags", "labels", "name", "namespace", "proxyTypes"}

LEMMA BlankRef ==
  ASSUME NEW kind
  PROVE  /\ DOMAIN Ref(kind) = RefFields
         /\ Ref(kind).kind = kind /\ Ref(kind).tags = <<>> /\ Ref(kind).labels = <<>>
         /\ Ref(kind).name = None /\ Ref(kind).namespace = None /\ Ref(kind).proxyTypes = {}
         /\ Ref(kind) = [f \in RefFields |-> Ref(kind)[f]]
  BY DEF Ref, RefFields

LEMMA ProperRefMeans ==
  ASSUME NEW ref
  PROVE  ProperRef(ref) <=>
           /\ DOMAIN ref = RefFields /\ ref = [f \in RefFields |-> ref[f]]
           /\ ref.tags = <<>> \/ IsSubset(ref)
           /\ ByName(ref) => ref.kind \in labelSelectedKinds \union {"Dataplane"}
           /\ ProperTags(ref.tags)
  BY BlankRef DEF ProperRef, MeshRef

LEMMA NoTagsProper == ProperTags(<<>>)
  BY NoDomain DEF ProperTags

LEMMA ProperMeshRef ==
  /\ ProperRef(MeshRef) /\ ~IsSubset(MeshRef) /\ MeshRef.kind = "Mesh" /\ MeshRef.tags = <<>>
  /\ MeshRef.proxyTypes = {} /\ ~ByName(MeshRef)
  BY BlankRef, ProperRefMeans, NoTagsProper DEF MeshRef, IsSubset, ByName

LEMMA SubsetRefMeans ==
  ASSUME NEW tags
  PROVE  /\ DOMAIN SubsetRef(tags) = RefFields
         /\ SubsetRef(tags).kind = "MeshSubset" /\ SubsetRef(tags).tags = tags
         /\ SubsetRef(tags).name = None /\ SubsetRef(tags).namespace = None
         /\ SubsetRef(tags).proxyTypes = {}
         /\ ProperTags(tags) => ProperRef(SubsetRef(tags))
<1>1. /\ DOMAIN SubsetRef(tags) = RefFields
      /\ SubsetRef(tags) = [f \in RefFields |-> SubsetRef(tags)[f]]
      /\ SubsetRef(tags).kind = "MeshSubset" /\ SubsetRef(tags).tags = tags
      /\ SubsetRef(tags).name = None /\ SubsetRef(tags).namespace = None
      /\ SubsetRef(tags).proxyTypes = {}
  BY DEF SubsetRef, Ref, RefFields
<1> QED
  BY <1>1, ProperRefMeans DEF IsSubset, ByName

LEMMA LabelRefMeans ==
  ASSUME NEW kind, NEW labels
  PROVE  LET r == LabelRef(kind, labels) IN
         /\ DOMAIN r = RefFields /\ r.kind = kind /\ r.tags = <<>> /\ r.labels = labels
         /\ ~ByName(r) /\ r.name = None /\ r.proxyTypes = {}
         /\ ProperRef(r)
<1> DEFINE r == LabelRef(kind, labels)
<1>1. /\ DOMAIN r = RefFields /\ r.kind = kind /\ r.tags = <<>> /\ r.labels = labels
      /\ r.name = None /\ r.namespace = None /\ r.proxyTypes = {}
      /\ r = [f \in RefFields |-> r[f]]
  BY DEF LabelRef, Ref, RefFields
<1> HIDE DEF r
<1> QED
  BY <1>1, ProperRefMeans, NoTagsProper DEF ByName, r

LEMMA ConvertedMeans ==
  ASSUME NEW ref, NEW ws
  PROVE  /\ Converted(ref, ws).ref = ref
         /\ Converted(ref, ws).warns = ws
         /\ Converted(ref, ws).err = FALSE
  BY DEF Converted

LEMMA RefOfConverted ==
  ASSUME NEW c, NEW ref, NEW ws, c = Converted(ref, ws)
  PROVE  c.ref = ref
  BY ConvertedMeans

\* A name of one part is no encoded one.
LEMMA PlainName ==
  /\ ParsedNamespace(None) = None
  /\ \A a : ParsedNamespace(<<a>>) = None
  /\ \A v : Len(v) = 1 => ParsedNamespace(v) = None
  BY DEF ParsedNamespace, None

LEMMA ParsedNamePlain ==
  ASSUME NEW v
  PROVE  ParsedNamespace(ParsedName(v)) = None
  BY PlainName DEF ParsedName, None

\* The labels the tags of a subset without a service become.
SubsetLabels(tags) ==
  WithIfAny(WithIfAny(selectorLabelsFromTags(OtherTags(tags)), Namespace,
                      TagOrNone(tags, Namespace)),
            Zone, TagOrNone(tags, Zone))

\* No conversion changes the reference again, at the top level or below.
StaysRef(r, topLevel) ==
  /\ ~HasOldName(r)
  /\ IsSubset(r) =>
       /\ DOMAIN r.tags \intersect IdentityTags = {}
       /\ topLevel => DOMAIN SubsetLabels(r.tags) = {}

\* What the conversion of a reference may yield.
ConvertsTo(ref, topLevel, r) ==
  /\ ProperRef(r) /\ StaysRef(r, topLevel)
  /\ r = ref \/ r.proxyTypes = {}
  /\ r.kind = "Mesh" => r = ref \/ IsSubset(ref)
  /\ IsSubset(r) => r = ref

LEMMA LabelledMeans ==
  ASSUME NEW ref, NEW b, NEW topLevel \in BOOLEAN
  PROVE  ConvertsTo(ref, topLevel, Labelled(b, topLevel).ref)
<1> DEFINE r == LabelRef(KindFor(topLevel), b.labels)
<1>1. Labelled(b, topLevel).ref = r
  BY ConvertedMeans DEF Labelled
<1>2. r.kind \in {"Dataplane", "MeshService"}
  BY LabelRefMeans DEF KindFor
<1>3. ProperRef(r) /\ r.name = None /\ r.proxyTypes = {}
  BY LabelRefMeans
<1> HIDE DEF r
<1>4. ~HasOldName(r) /\ ~IsSubset(r)
  BY <1>2, <1>3, PlainName DEF HasOldName, IsSubset
<1> QED
  BY <1>1, <1>2, <1>3, <1>4 DEF ConvertsTo, StaysRef

ServiceNamed(name, ns) == [Ref("MeshService") EXCEPT !.name = name, !.namespace = ns]

LEMMA NamedMeans ==
  ASSUME NEW ref, NEW name, NEW ns, NEW policyNs, NEW topLevel \in BOOLEAN,
         NEW labelsOnly \in BOOLEAN, ParsedNamespace(name) = None
  PROVE  ConvertsTo(ref, topLevel, Named(name, ns, policyNs, topLevel, labelsOnly).ref)
<1>1. CASE labelsOnly \/ topLevel \/ (policyNs # None /\ policyNs # ns)
  <2>1. Named(name, ns, policyNs, topLevel, labelsOnly)
          = Labelled(buildLabels(name, ns, None, <<>>, topLevel), topLevel)
    BY <1>1 DEF Named
  <2> QED
    BY <2>1, LabelledMeans
<1>2. CASE ~(labelsOnly \/ topLevel \/ (policyNs # None /\ policyNs # ns))
  <2> DEFINE r == ServiceNamed(name, ns)
  <2>1. Named(name, ns, policyNs, topLevel, labelsOnly) = Converted(r, {})
    BY <1>2, Zenon DEF Named, ServiceNamed
  <2>2. /\ DOMAIN r = RefFields /\ r.kind = "MeshService" /\ r.tags = <<>>
        /\ r.name = name /\ r.proxyTypes = {} /\ r = [f \in RefFields |-> r[f]]
    BY DEF ServiceNamed, Ref, RefFields
  <2> HIDE DEF r
  <2>3. ProperRef(r)
    BY <2>2, ProperRefMeans, NoTagsProper DEF labelSelectedKinds, RealDestinations
  <2>4. ~HasOldName(r) /\ ~IsSubset(r)
    BY <2>2 DEF HasOldName, IsSubset
  <2>5. ConvertsTo(ref, topLevel, r)
    BY <2>2, <2>3, <2>4 DEF ConvertsTo, StaysRef
  <2>6. Converted(r, {}).ref = r
    BY ConvertedMeans, Zenon
  <2> QED
    BY <2>1, <2>5, <2>6, Zenon
<1> QED
  BY <1>1, <1>2

\* A subset without a service: some tags are left only if none can be a label.
LEMMA WithoutServiceMeans ==
  ASSUME NEW ref, NEW topLevel \in BOOLEAN, ProperRef(ref), IsSubset(ref),
         DOMAIN ref.tags \intersect IdentityTags = {}
  PROVE  ConvertsTo(ref, topLevel, ConvertedWithoutService(ref, topLevel).ref)
<1> DEFINE others == OtherTags(ref.tags)
           labels == SubsetLabels(ref.tags)
<1>0. ConvertedWithoutService(ref, topLevel)
        = IF ~topLevel THEN Converted(ref, {})
          ELSE IF DOMAIN labels = {} THEN Converted(ref, DropWarning(others))
          ELSE Converted(LabelRef("Dataplane", labels), DropWarning(others))
  BY Zenon DEF ConvertedWithoutService, SubsetLabels
<1>1. ~HasOldName(ref)
  BY DEF HasOldName, IsSubset
<1>2. CASE topLevel /\ DOMAIN labels # {}
  <2> DEFINE r == LabelRef("Dataplane", labels)
  <2>1. ConvertedWithoutService(ref, topLevel).ref = r
    <3>1. ConvertedWithoutService(ref, topLevel) = Converted(r, DropWarning(others))
      BY <1>0, <1>2, Zenon
    <3> QED
      BY <3>1, RefOfConverted, Zenon
  <2>2. r.kind = "Dataplane" /\ ProperRef(r) /\ r.proxyTypes = {}
    BY LabelRefMeans, Zenon
  <2> HIDE DEF r
  <2>3. ~HasOldName(r) /\ ~IsSubset(r)
    BY <2>2 DEF HasOldName, IsSubset
  <2> QED
    BY <2>1, <2>2, <2>3 DEF ConvertsTo, StaysRef
<1>3. CASE ~(topLevel /\ DOMAIN labels # {})
  <2>1. ConvertedWithoutService(ref, topLevel).ref = ref
    <3>1. \/ ConvertedWithoutService(ref, topLevel) = Converted(ref, {})
          \/ ConvertedWithoutService(ref, topLevel) = Converted(ref, DropWarning(others))
      BY <1>0, <1>3, Zenon
    <3> QED
      BY <3>1, RefOfConverted, Zenon
  <2> QED
    BY <1>1, <1>3, <2>1 DEF ConvertsTo, StaysRef
<1> QED
  BY <1>2, <1>3

LEMMA ServiceTagMeans ==
  ASSUME NEW tags, NEW l \in IdentityTags, DOMAIN tags \intersect IdentityTags # {}
  PROVE  /\ ServiceTag(tags, l) \in IdentityTags /\ ServiceTag(tags, l) \in DOMAIN tags
         /\ ServiceTag(tags, l) = Service \/ ServiceTag(tags, l) = ServiceName
  BY DEF ServiceTag, IdentityTags

LEMMA ConversionMeans ==
  ASSUME NEW ref, NEW policyNs, NEW topLevel \in BOOLEAN, NEW labelsOnly \in BOOLEAN,
         NEW l \in IdentityTags, ProperRef(ref)
  PROVE  ConvertsTo(ref, topLevel, convertTargetRef(ref, policyNs, topLevel, labelsOnly, l).ref)
<1> DEFINE c == convertTargetRef(ref, policyNs, topLevel, labelsOnly, l)
<1>1. CASE HasOldName(ref)
  <2>1. c = Named(ParsedName(ref.name), ParsedNamespace(ref.name), policyNs, topLevel, labelsOnly)
    BY <1>1, Zenon DEF convertTargetRef
  <2> QED
    BY <2>1, ParsedNamePlain, NamedMeans
<1>2. CASE ~HasOldName(ref) /\ ~IsSubset(ref)
  <2>1. c = Converted(ref, {})
    BY <1>2, Zenon DEF convertTargetRef
  <2>2. c.ref = ref
    BY <2>1, RefOfConverted, Zenon
  <2> QED
    BY <1>2, <2>2 DEF ConvertsTo, StaysRef
<1>3. CASE IsSubset(ref) /\ DOMAIN ref.tags \intersect IdentityTags = {}
  <2>1. c = ConvertedWithoutService(ref, topLevel)
    <3>1. ~HasOldName(ref)
      BY <1>3 DEF HasOldName, IsSubset
    <3> QED
      BY <1>3, <3>1, Zenon DEF convertTargetRef
  <2> QED
    BY <1>3, <2>1, WithoutServiceMeans
<1>4. CASE IsSubset(ref) /\ DOMAIN ref.tags \intersect IdentityTags # {}
  <2> DEFINE tag  == ServiceTag(ref.tags, l)
             name == IF tag = Service THEN ParsedName(ref.tags[tag]) ELSE ref.tags[tag]
             ns   == ResolvedNamespace(ref.tags, tag, policyNs)
             zone == TagOrNone(ref.tags, Zone)
  <2>0. ~HasOldName(ref)
    BY <1>4 DEF HasOldName, IsSubset
  <2>1. c = IF ref.tags[tag] = Wildcard THEN Converted(MeshRef, {})
            ELSE IF DOMAIN OtherTags(ref.tags) # {} \/ zone # None
            THEN Labelled(buildLabels(name, ns, zone, OtherTags(ref.tags), topLevel), topLevel)
            ELSE Named(name, ns, policyNs, topLevel, labelsOnly)
    BY <1>4, <2>0, Zenon DEF convertTargetRef
  <2>2. ParsedNamespace(name) = None
    <3>1. tag = Service \/ (tag = ServiceName /\ tag \in DOMAIN ref.tags)
      BY <1>4, ServiceTagMeans
    <3>2. CASE tag = Service
      BY <3>2, ParsedNamePlain
    <3>3. CASE tag # Service
      <4>1. Len(ref.tags[tag]) = 1
        BY <3>1, <3>3, ProperRefMeans DEF ProperTags
      <4> QED
        BY <3>3, <4>1, PlainName
    <3> QED
      BY <3>2, <3>3
  <2> HIDE DEF tag, name, ns, zone, c
  <2>3. CASE ref.tags[tag] = Wildcard
    <3>1. c = Converted(MeshRef, {})
      BY <2>1, <2>3, Zenon
    <3>2. c.ref = MeshRef
      BY <3>1, ConvertedMeans, Zenon
    <3>3. ~HasOldName(MeshRef)
      BY ProperMeshRef DEF HasOldName
    <3> QED
      BY <1>4, <3>2, <3>3, ProperMeshRef DEF ConvertsTo, StaysRef, c
  <2>4. CASE ref.tags[tag] # Wildcard /\ (DOMAIN OtherTags(ref.tags) # {} \/ zone # None)
    <3>1. c = Labelled(buildLabels(name, ns, zone, OtherTags(ref.tags), topLevel), topLevel)
      BY <2>1, <2>4, Zenon
    <3> QED
      BY <3>1, LabelledMeans DEF c
  <2>5. CASE ref.tags[tag] # Wildcard /\ ~(DOMAIN OtherTags(ref.tags) # {} \/ zone # None)
    <3>1. c = Named(name, ns, policyNs, topLevel, labelsOnly)
      BY <2>1, <2>5, Zenon
    <3> QED
      BY <2>2, <3>1, NamedMeans DEF c
  <2> QED
    BY <2>3, <2>4, <2>5
<1> QED
  BY <1>1, <1>2, <1>3, <1>4

\* A conversion of what stays is without effect.
LEMMA StaysAsItIs ==
  ASSUME NEW r, NEW policyNs, NEW topLevel \in BOOLEAN, NEW labelsOnly \in BOOLEAN, NEW l,
         StaysRef(r, topLevel)
  PROVE  convertTargetRef(r, policyNs, topLevel, labelsOnly, l).ref = r
<1>1. CASE ~IsSubset(r)
  <2>1. convertTargetRef(r, policyNs, topLevel, labelsOnly, l) = Converted(r, {})
    BY <1>1, Zenon DEF convertTargetRef, StaysRef
  <2> QED
    BY <2>1, RefOfConverted, Zenon
<1>2. CASE IsSubset(r)
  <2>1. convertTargetRef(r, policyNs, topLevel, labelsOnly, l) = ConvertedWithoutService(r, topLevel)
    BY <1>2, Zenon DEF convertTargetRef, StaysRef
  <2>2. CASE topLevel
    <3>1. DOMAIN SubsetLabels(r.tags) = {}
      BY <1>2, <2>2 DEF StaysRef
    <3>2. ConvertedWithoutService(r, topLevel) = Converted(r, DropWarning(OtherTags(r.tags)))
      BY <2>2, <3>1, Zenon DEF ConvertedWithoutService, SubsetLabels
    <3> QED
      BY <2>1, <3>2, RefOfConverted, Zenon
  <2>3. CASE ~topLevel
    <3>1. ConvertedWithoutService(r, topLevel) = Converted(r, {})
      BY <2>3, Zenon DEF ConvertedWithoutService
    <3> QED
      BY <2>1, <3>1, RefOfConverted, Zenon
  <2> QED
    BY <2>2, <2>3
<1> QED
  BY <1>1, <1>2

Outcome == {"ref", "warns", "err"}

LEMMA IsConverted ==
  ASSUME NEW c, NEW ref, NEW ws, c = Converted(ref, ws)
  PROVE  DOMAIN c = Outcome /\ c.err = FALSE
  BY DEF Converted, Outcome

\* The conversion itself never fails.
LEMMA ConversionSucceeds ==
  ASSUME NEW ref, NEW policyNs, NEW topLevel \in BOOLEAN, NEW labelsOnly \in BOOLEAN, NEW l
  PROVE  LET c == convertTargetRef(ref, policyNs, topLevel, labelsOnly, l) IN
         DOMAIN c = Outcome /\ c.err = FALSE
<1> DEFINE c == convertTargetRef(ref, policyNs, topLevel, labelsOnly, l)
           One(x) == \E r, ws : x = Converted(r, ws)
<1>1. ASSUME NEW b PROVE One(Labelled(b, topLevel))
  BY DEF Labelled
<1>2. ASSUME NEW name, NEW ns PROVE One(Named(name, ns, policyNs, topLevel, labelsOnly))
  <2>1. \/ Named(name, ns, policyNs, topLevel, labelsOnly)
             = Labelled(buildLabels(name, ns, None, <<>>, topLevel), topLevel)
        \/ Named(name, ns, policyNs, topLevel, labelsOnly) = Converted(ServiceNamed(name, ns), {})
    BY Zenon DEF Named, ServiceNamed
  <2> QED
    BY <1>1, <2>1, Zenon
<1>3. One(ConvertedWithoutService(ref, topLevel))
  <2>1. \/ ConvertedWithoutService(ref, topLevel) = Converted(ref, {})
        \/ ConvertedWithoutService(ref, topLevel) = Converted(ref, DropWarning(OtherTags(ref.tags)))
        \/ ConvertedWithoutService(ref, topLevel)
             = Converted(LabelRef("Dataplane", SubsetLabels(ref.tags)), DropWarning(OtherTags(ref.tags)))
    BY Zenon DEF ConvertedWithoutService, SubsetLabels
  <2> QED
    BY <2>1, Zenon
<1>4. One(Converted(MeshRef, {})) /\ One(Converted(ref, {}))
  OBVIOUS
<1>5. One(c)
  <2>1. \/ \E name, ns : c = Named(name, ns, policyNs, topLevel, labelsOnly)
        \/ c = Converted(ref, {}) \/ c = ConvertedWithoutService(ref, topLevel)
        \/ c = Converted(MeshRef, {})
        \/ \E b : c = Labelled(b, topLevel)
    BY Zenon DEF convertTargetRef
  <2> HIDE DEF One
  <2> QED
    BY <1>1, <1>2, <1>3, <1>4, <2>1, Zenon
<1> QED
  BY <1>5, IsConverted, Zenon

\* On 3.0 the conversion of a subset that stays one fails, but for the empty one.
LEMMA ForTargetMeans ==
  ASSUME NEW ref, NEW policyNs, NEW topLevel \in BOOLEAN, NEW t, NEW l \in IdentityTags,
         ProperRef(ref)
  PROVE  LET c == ConvertTargetRefForTarget(ref, policyNs, topLevel, t, l) IN
         /\ DOMAIN c = Outcome
         /\ ConvertsTo(ref, topLevel, c.ref)
         /\ t # "v3" => c.err = FALSE
<1> DEFINE labelsOnly == t = "v3"
           d == convertTargetRef(ref, policyNs, topLevel, labelsOnly, l)
           c == WithoutSubset(d, topLevel, t)
<1>1. labelsOnly \in BOOLEAN
  OBVIOUS
<1> HIDE DEF labelsOnly
<1>2. DOMAIN d = Outcome /\ d.err = FALSE
  BY <1>1, ConversionSucceeds, Zenon
<1>3. ConvertsTo(ref, topLevel, d.ref)
  BY <1>1, ConversionMeans, Zenon
<1> HIDE DEF d
<1>4. CASE t # "v3" \/ ~IsSubset(d.ref)
  <2>1. c = d
    BY <1>4, Zenon DEF WithoutSubset
  <2>2. DOMAIN c = Outcome /\ c.err = FALSE
    BY <1>2, <2>1, Zenon
  <2>3. ConvertsTo(ref, topLevel, c.ref)
    BY <1>3, <2>1, Zenon
  <2> QED
    BY <2>2, <2>3, Zenon DEF ConvertTargetRefForTarget, c, d, labelsOnly
<1>5. CASE ~(t # "v3" \/ ~IsSubset(d.ref)) /\ (topLevel /\ DOMAIN d.ref.tags = {})
  <2>1. c = Converted(MeshRef, d.warns)
    BY <1>5, Zenon DEF WithoutSubset
  <2>2. DOMAIN c = Outcome /\ c.ref = MeshRef
    BY <2>1, IsConverted, RefOfConverted, Zenon
  <2>3. IsSubset(ref)
    BY <1>3, <1>5 DEF ConvertsTo, IsSubset
  <2>4. ~HasOldName(MeshRef)
    BY ProperMeshRef DEF HasOldName
  <2>5. ConvertsTo(ref, topLevel, c.ref)
    BY <2>2, <2>3, <2>4, ProperMeshRef DEF ConvertsTo, StaysRef
  <2> QED
    BY <1>5, <2>2, <2>5, Zenon DEF ConvertTargetRefForTarget, c, d, labelsOnly
<1>6. CASE ~(t # "v3" \/ ~IsSubset(d.ref)) /\ ~(topLevel /\ DOMAIN d.ref.tags = {})
  <2>1. c = [d EXCEPT !.err = TRUE]
    BY <1>6, Zenon DEF WithoutSubset
  <2>2. DOMAIN c = Outcome /\ c.ref = d.ref
    BY <1>2, <2>1 DEF Outcome
  <2>3. ConvertsTo(ref, topLevel, c.ref)
    BY <1>3, <2>2, Zenon
  <2> QED
    BY <1>6, <2>2, <2>3, Zenon DEF ConvertTargetRefForTarget, c, d, labelsOnly
<1> QED
  BY <1>4, <1>5, <1>6

\* A conversion keeps the filter of a reference that is there.
LEMMA KeepingMeans ==
  ASSUME NEW c, NEW ref, DOMAIN c = Outcome, ConvertsTo(ref, TRUE, c.ref)
  PROVE  LET k == KeepingProxyTypes(c, ref) IN
         /\ DOMAIN k = Outcome /\ k.err = c.err /\ k.ref.kind = c.ref.kind
         /\ k.ref.proxyTypes = ref.proxyTypes
         /\ ProperRef(k.ref) /\ StaysRef(k.ref, TRUE)
         /\ c.ref = ref => k.ref = ref
<1> DEFINE k == KeepingProxyTypes(c, ref)
           r == k.ref
<1>1. DOMAIN c.ref = RefFields /\ ProperRef(c.ref) /\ StaysRef(c.ref, TRUE)
  BY ProperRefMeans DEF ConvertsTo
<1>2. r = [c.ref EXCEPT !.proxyTypes = ref.proxyTypes] /\ DOMAIN k = Outcome
  BY DEF KeepingProxyTypes, Outcome
<1>3. k.err = c.err
  BY DEF KeepingProxyTypes, Outcome
<1> HIDE DEF k, r
<1>4. /\ DOMAIN r = RefFields /\ r = [f \in RefFields |-> r[f]] /\ r.kind = c.ref.kind /\ r.tags = c.ref.tags
      /\ r.name = c.ref.name /\ r.namespace = c.ref.namespace
      /\ r.proxyTypes = ref.proxyTypes
  BY <1>1, <1>2 DEF RefFields
<1>5. ProperRef(r)
  BY <1>1, <1>4, ProperRefMeans DEF IsSubset, ByName
<1>6. StaysRef(r, TRUE)
  BY <1>1, <1>4 DEF StaysRef, HasOldName, IsSubset
<1>7. c.ref = ref => r = ref
  <2>1. ASSUME c.ref = ref PROVE r = ref
    <3>1. ref = [f \in RefFields |-> ref[f]]
      BY <1>1, <2>1, ProperRefMeans
    <3>2. \A f \in RefFields : r[f] = ref[f]
      BY <1>1, <1>2, <2>1
    <3> QED
      BY <1>4, <3>1, <3>2, Zenon
  <2> QED
    BY <2>1
<1> QED
  BY <1>2, <1>3, <1>4, <1>5, <1>6, <1>7 DEF k, r

\* The reference a legacy selector becomes.
SelectorRef(ref) == ProperRef(ref) /\ ref.proxyTypes = {} /\ ref.kind # "MeshServiceSubset"

LEMMA SelectorRefMeans ==
  ASSUME NEW tags, NEW topLevel \in BOOLEAN, NEW t, NEW l \in IdentityTags, ProperTags(tags)
  PROVE  SelectorRef(ConvertSelectorToTargetRefForTarget(tags, None, topLevel, t, l).ref)
<1> DEFINE c == ConvertSelectorToTargetRefForTarget(tags, None, topLevel, t, l)
           s == SubsetRef(tags)
<1>1. ProperRef(s) /\ s.proxyTypes = {} /\ s.kind = "MeshSubset"
  BY SubsetRefMeans
<1> HIDE DEF s
<1>2. \/ c = Converted(MeshRef, {}) \/ c = Converted(s, {})
      \/ c = ConvertTargetRefForTarget(s, None, topLevel, t, l)
  BY Zenon DEF ConvertSelectorToTargetRefForTarget, s
<1>3. CASE \E r \in {MeshRef, s} : c = Converted(r, {})
  <2>1. PICK r \in {MeshRef, s} : c = Converted(r, {})
    BY <1>3
  <2>2. c.ref = r
    BY <2>1, RefOfConverted, Zenon
  <2> QED
    BY <1>1, <2>2, ProperMeshRef DEF SelectorRef
<1>4. CASE c = ConvertTargetRefForTarget(s, None, topLevel, t, l)
  <2> HIDE DEF c
  <2>0. ProperRef(s)
    BY <1>1
  <2>1. ConvertsTo(s, topLevel, c.ref)
    BY <1>4, <2>0, ForTargetMeans
  <2>2. SelectorRef(c.ref)
    BY <1>1, <2>1 DEF ConvertsTo, IsSubset, SelectorRef
  <2> QED
    BY <2>2 DEF c
<1> QED
  BY <1>2, <1>3, <1>4

LEMMA FromSubsetMeans ==
  ASSUME NEW tags, ProperTags(tags)
  PROVE  LET r == fromSubsetRefV2(tags) IN
         ProperRef(r) /\ r.proxyTypes = {} /\ (r = MeshRef \/ r.kind = "MeshSubset")
<1> DEFINE kept == Only(tags, {k \in DOMAIN tags : ~(k = Service /\ tags[k] = Wildcard)})
<1>1. ProperTags(kept)
  BY DEF ProperTags, Only
<1> HIDE DEF kept
<1>2. fromSubsetRefV2(tags) = MeshRef \/ fromSubsetRefV2(tags) = SubsetRef(kept)
  BY Zenon DEF fromSubsetRefV2, kept
<1> QED
  BY <1>1, <1>2, ProperMeshRef, SubsetRefMeans

\* On 2.x no conversion changes the client again that an entry of from[] names.
FromStays(r) ==
  /\ ~HasOldName(r)
  /\ IsSubset(r) => r.kind = "MeshSubset" \/ DOMAIN r.tags \intersect IdentityTags = {}

FromRef(ref) == ProperRef(ref) /\ ref.proxyTypes = {} /\ FromStays(ref)

LEMMA FromRefMeans ==
  ASSUME NEW ref, NEW kind, NEW policyNs, NEW t, NEW l \in IdentityTags,
         ProperRef(ref), ref.proxyTypes = {}
  PROVE  /\ FromRef(fromRefForTarget(ref, kind, policyNs, t, l).ref)
         /\ t # "v3" => fromRefForTarget(ref, kind, policyNs, t, l).err = FALSE
<1> DEFINE c    == fromRefForTarget(ref, kind, policyNs, t, l)
           tags == [k \in {Service} |-> ref.name]
           s    == fromSubsetRefV2(tags)
<1>1. ProperTags(tags)
  BY DEF ProperTags, Service, ServiceName
<1>2. ProperRef(s) /\ s.proxyTypes = {} /\ (s = MeshRef \/ s.kind = "MeshSubset")
  BY <1>1, FromSubsetMeans, Zenon
<1>3. FromStays(s)
  BY <1>2, ProperMeshRef DEF FromStays, HasOldName, IsSubset
<1>4. \/ c = Converted(ref, {}) /\ ref.kind = "MeshSubset"
      \/ c = Converted(s, {})
      \/ c = ConvertTargetRefForTarget(ref, policyNs, FALSE, t, l)
  BY Zenon DEF fromRefForTarget
<1> HIDE DEF s
<1> HIDE DEF c
<1>5. CASE c = Converted(ref, {}) /\ ref.kind = "MeshSubset"
  <2>1. c.err = FALSE /\ c.ref = ref
    BY <1>5, IsConverted, RefOfConverted, Zenon
  <2>2. FromRef(ref)
    BY <1>5 DEF FromStays, HasOldName, FromRef
  <2> QED
    BY <2>1, <2>2, Zenon DEF c
<1>6. CASE c = Converted(s, {})
  <2>1. c.err = FALSE /\ c.ref = s
    BY <1>6, IsConverted, RefOfConverted, Zenon
  <2>2. FromRef(s)
    BY <1>2, <1>3, Zenon DEF FromRef
  <2> QED
    BY <2>1, <2>2, Zenon DEF c
<1>7. CASE c = ConvertTargetRefForTarget(ref, policyNs, FALSE, t, l)
  <2>1. ConvertsTo(ref, FALSE, c.ref)
    BY <1>7, ForTargetMeans
  <2>2. t # "v3" => c.err = FALSE
    BY <1>7, ForTargetMeans
  <2>3. FromRef(c.ref)
    BY <2>1 DEF ConvertsTo, StaysRef, FromStays, FromRef
  <2> QED
    BY <2>2, <2>3, Zenon DEF c
<1> QED
  BY <1>4, <1>5, <1>6, <1>7

LEMMA FromStaysAsItIs ==
  ASSUME NEW r, NEW kind \in meshSubsetFromKinds, NEW policyNs, NEW l, FromStays(r)
  PROVE  fromRefForTarget(r, kind, policyNs, "v2", l).ref = r
<1>1. CASE r.kind = "MeshSubset"
  <2>1. fromRefForTarget(r, kind, policyNs, "v2", l) = Converted(r, {})
    BY <1>1, Zenon DEF fromRefForTarget
  <2> QED
    BY <2>1, RefOfConverted, Zenon
<1>2. CASE r.kind # "MeshSubset"
  <2>1. fromRefForTarget(r, kind, policyNs, "v2", l)
          = ConvertTargetRefForTarget(r, policyNs, FALSE, "v2", l)
    BY <1>2, Zenon DEF fromRefForTarget, FromStays
  <2>2. ConvertTargetRefForTarget(r, policyNs, FALSE, "v2", l)
          = convertTargetRef(r, policyNs, FALSE, "v2" = "v3", l)
    BY Zenon DEF ConvertTargetRefForTarget, WithoutSubset
  <2>3. StaysRef(r, FALSE) /\ ("v2" = "v3") \in BOOLEAN
    BY <1>2 DEF FromStays, StaysRef
  <2>4. convertTargetRef(r, policyNs, FALSE, "v2" = "v3", l).ref = r
    BY <2>3, StaysAsItIs, Zenon
  <2> QED
    BY <2>1, <2>2, <2>4, Zenon
<1> QED
  BY <1>1, <1>2

-----------------------------------------------------------------------------
(***************************************************************************)
(* Documents.                                                              *)
(***************************************************************************)
LEMMA ConcatSeq ==
  ASSUME NEW s, NEW r, IsSeq(s), IsSeq(r)
  PROVE  /\ IsSeq(s \o r) /\ Len(s \o r) = Len(s) + Len(r)
         /\ \A i \in DOMAIN (s \o r) :
              \/ i \in DOMAIN s /\ (s \o r)[i] = s[i]
              \/ \E j \in DOMAIN r : (s \o r)[i] = r[j]
         /\ s # <<>> => s \o r # <<>> /\ Head(s \o r) = Head(s)
         /\ r = <<>> => s \o r = s
<1> DEFINE R == Range(s) \union Range(r)
<1>1. s \in Seq(R) /\ r \in Seq(R)
  <2>1. s \in Seq(Range(s)) /\ r \in Seq(Range(r))
    BY DEF IsSeq
  <2> HIDE DEF R
  <2>2. Range(s) \subseteq R /\ Range(r) \subseteq R
    BY DEF R
  <2> QED
    BY <2>1, <2>2
<1> HIDE DEF R
<1>2. s \o r \in Seq(R) /\ Len(s \o r) = Len(s) + Len(r)
  BY <1>1
<1>3. DOMAIN (s \o r) = 1..(Len(s) + Len(r)) /\ Len(s) + Len(r) \in Nat
  BY <1>1, <1>2
<1>4. s \o r = [i \in DOMAIN (s \o r) |-> (s \o r)[i]]
  <2> DEFINE x == s \o r
  <2>1. x \in Seq(R)
    BY <1>2
  <2> HIDE DEF x
  <2>2. x = [i \in DOMAIN x |-> x[i]]
    BY <2>1
  <2> QED
    BY <2>2 DEF x
<1>5. IsSeq(s \o r)
  BY <1>3, <1>4, SeqOfNumbered, Zenon
<1>6. ASSUME NEW i \in DOMAIN (s \o r)
      PROVE  \/ i \in DOMAIN s /\ (s \o r)[i] = s[i]
             \/ \E j \in DOMAIN r : (s \o r)[i] = r[j]
  <2>1. CASE i <= Len(s)
    BY <1>1, <1>3, <2>1
  <2>2. CASE ~(i <= Len(s))
    <3>1. i - Len(s) \in DOMAIN r /\ (s \o r)[i] = r[i - Len(s)]
      BY <1>1, <1>3, <2>2
    <3> QED
      BY <3>1
  <2> QED
    BY <2>1, <2>2
<1>7. s # <<>> => s \o r # <<>> /\ Head(s \o r) = Head(s)
  BY <1>1
<1>8. r = <<>> => s \o r = s
  BY <1>1
<1> QED
  BY <1>2, <1>5, <1>6, <1>7, <1>8

PolicyFields == {"kind", "layout", "name", "ns", "mesh", "labels", "sources", "destinations",
                 "selectors", "targetRef", "to", "from", "rules", "default"}

LEMMA BlankMeans ==
  ASSUME NEW kind, NEW layout, NEW name
  PROVE  LET b == BlankPolicy(kind, layout, name) IN
         /\ DOMAIN b = PolicyFields /\ b = [f \in PolicyFields |-> b[f]]
         /\ b.kind = kind /\ b.layout = layout /\ b.name = name
         /\ b.sources = <<>> /\ b.destinations = <<>> /\ b.selectors = <<>>
         /\ b.targetRef = <<>> /\ b.to = <<>> /\ b.from = <<>> /\ b.rules = <<>>
  BY DEF BlankPolicy, PolicyFields

IsDoc(d) == DOMAIN d = PolicyFields /\ d = [f \in PolicyFields |-> d[f]]

ProperName(name) == IsSeq(name) /\ name # <<>>

\* At most one reference at the top, and a proper one.
ProperTop(refs) == refs = <<>> \/ (refs = <<refs[1]>> /\ ProperRef(refs[1]))

LEMMA ProperTopMeans ==
  ASSUME NEW doc
  PROVE  /\ ProperTop(doc.targetRef)
              <=> (doc.targetRef = <<>> \/ doc.targetRef = <<TopRef(doc)>>) /\ ProperRef(TopRef(doc))
         /\ doc.targetRef # <<>> => TopRef(doc) = doc.targetRef[1]
         /\ doc.targetRef = <<>> => TopRef(doc) = MeshRef
  BY ProperMeshRef DEF ProperTop, TopRef

LEMMA ProperPolicyMeans ==
  ASSUME NEW doc
  PROVE  ProperPolicy(doc) <=>
           /\ IsDoc(doc) /\ ProperName(doc.name) /\ ProperTop(doc.targetRef)
           /\ ProperEntries(doc.to) /\ ProperEntries(doc.from) /\ IsSeq(doc.rules)
           /\ doc.from # <<>> => doc.kind \in rulesAPIMigrationKinds \union meshSubsetFromKinds
           /\ doc.kind \in {"MeshOPA", "OPAPolicy"} => doc.to = <<>>
           /\ NamedDefault(doc) => TopRef(doc).kind # "MeshServiceSubset"
           /\ doc.kind \notin DOMAIN OldTypeToNew \union ManualKinds =>
                doc.sources = <<>> /\ doc.destinations = <<>>
<1>1. doc = [f \in DOMAIN BlankPolicy(doc.kind, doc.layout, doc.name) |-> doc[f]] <=> IsDoc(doc)
  <2>1. DOMAIN BlankPolicy(doc.kind, doc.layout, doc.name) = PolicyFields
    BY BlankMeans
  <2> QED
    BY <2>1 DEF IsDoc
<1>2. doc.name \in Seq(Range(doc.name)) \ {<<>>} <=> ProperName(doc.name)
  BY DEF ProperName, IsSeq
<1>3. doc.rules \in Seq(Range(doc.rules)) <=> IsSeq(doc.rules)
  BY DEF IsSeq
<1> QED
  BY <1>1, <1>2, <1>3, ProperTopMeans, Zenon DEF ProperPolicy

ProperEntry(e) == e = Entry(e.ref, e.conf) /\ ProperRef(e.ref) /\ e.ref.proxyTypes = {}

LEMMA EntryMeans ==
  ASSUME NEW ref, NEW conf
  PROVE  /\ Entry(ref, conf).ref = ref /\ Entry(ref, conf).conf = conf
         /\ ProperRef(ref) /\ ref.proxyTypes = {} => ProperEntry(Entry(ref, conf))
  BY DEF Entry, ProperEntry

LEMMA EntriesMeans ==
  ASSUME NEW es
  PROVE  ProperEntries(es) <=> IsSeq(es) /\ \A i \in DOMAIN es : ProperEntry(es[i])
  BY DEF ProperEntries, ProperEntry, IsSeq

LEMMA NoEntries == ProperEntries(<<>>)
  BY EntriesMeans, SeqOfNone, NoDomain

\* What is made of entries one by one.
LEMMA EntriesMade ==
  ASSUME NEW s, IsSeq(s), NEW es, DOMAIN es = DOMAIN s, es = [i \in DOMAIN es |-> es[i]],
         \A i \in DOMAIN s : ProperEntry(es[i])
  PROVE  ProperEntries(es) /\ (es = <<>> <=> s = <<>>)
<1>1. IsSeq(es)
  BY SeqOfDomain, Zenon
<1>2. es = <<>> <=> s = <<>>
  BY <1>1, EmptySeq
<1> QED
  BY <1>1, <1>2, EntriesMeans

\* What every result of a conversion is: a policy of 2.x, with from[] only where
\* no rules[] replace it.
IsNew(d) ==
  /\ ProperPolicy(d) /\ d.kind \in Policy2Kinds
  /\ d.from # <<>> => d.kind \in meshSubsetFromKinds

\* The kind that no pass splits on 3.0.
RulesBesideTo(d, t) == t = "v3" /\ d.kind = "MeshFaultInjection"

Apart(d, t) == d.rules = <<>> \/ d.to = <<>> \/ RulesBesideTo(d, t)

\* It is the timeout of gateways, or has faults for both directions, only if its
\* input was or had.
NewDoc(d, in, t) ==
  /\ IsNew(d) /\ Apart(d, t)
  /\ isDefaultGatewayMeshTimeout(d) => isDefaultGatewayMeshTimeout(in)
  /\ FaultsBothWays(d) => FaultsBothWays(in)

LEMMA KindsMean ==
  /\ DOMAIN v3ToTargetRefKinds =
       {"MeshAccessLog", "MeshRetry", "MeshTimeout", "MeshLoadBalancingStrategy",
        "MeshCircuitBreaker", "MeshHealthCheck", "MeshFaultInjection", "MeshRateLimit",
        "MeshHTTPRoute", "MeshTCPRoute", "MeshMetric", "MeshPassthrough", "MeshProxyPatch",
        "MeshTLS", "MeshTrace", "MeshTrafficPermission"}
  /\ \A d : IsMeshPolicy(d) <=> d.kind \in Policy2Kinds
<1>1. DOMAIN v3ToTargetRefKinds =
       {"MeshAccessLog", "MeshRetry", "MeshTimeout", "MeshLoadBalancingStrategy",
        "MeshCircuitBreaker", "MeshHealthCheck", "MeshFaultInjection", "MeshRateLimit",
        "MeshHTTPRoute", "MeshTCPRoute", "MeshMetric", "MeshPassthrough", "MeshProxyPatch",
        "MeshTLS", "MeshTrace", "MeshTrafficPermission"}
  BY DEF v3ToTargetRefKinds
<1> QED
  BY <1>1 DEF IsMeshPolicy, Policy2Kinds

LEMMA RulesKinds ==
  /\ rulesAPIMigrationKinds \subseteq Policy2Kinds /\ meshSubsetFromKinds \subseteq Policy2Kinds
  /\ rulesAPIMigrationKinds \intersect meshSubsetFromKinds = {}
  BY KindsMean DEF rulesAPIMigrationKinds, meshSubsetFromKinds, Policy2Kinds

\* The timeout of gateways is told by kind, name and targetRef.
LEMMA SameDefault ==
  ASSUME NEW d, NEW e, d.kind = e.kind, Head(d.name) = Head(e.name),
         d.targetRef = e.targetRef, isDefaultGatewayMeshTimeout(d)
  PROVE  isDefaultGatewayMeshTimeout(e)
  BY DEF isDefaultGatewayMeshTimeout, NamedDefault, gatewayOnly, effective, proxyTypes, TopRef

LEMMA SameNamedDefault ==
  ASSUME NEW d, NEW e, d.kind = e.kind, Head(d.name) = Head(e.name),
         d.targetRef = e.targetRef, NamedDefault(d)
  PROVE  NamedDefault(e) /\ TopRef(d) = TopRef(e)
  BY DEF NamedDefault, TopRef

\* No kind of policy of 2.x is a legacy one.
LEMMA NotLegacyKind == Policy2Kinds \intersect (DOMAIN OldTypeToNew \union ManualKinds) = {}
  BY KindsMean DEF Policy2Kinds, OldTypeToNew, ManualKinds

-----------------------------------------------------------------------------
(***************************************************************************)
(* The panic threshold.                                                    *)
(***************************************************************************)
LEMMA WithoutPanicMeans ==
  ASSUME NEW d, NEW in, NEW t, NewDoc(d, in, t)
  PROVE  NewDoc(WithoutPanic(d), in, t) /\ ~HasPanic(WithoutPanic(d))
<1>1. CASE ~HasPanic(d)
  BY <1>1 DEF WithoutPanic
<1>2. CASE HasPanic(d)
  <2> DEFINE e  == WithoutPanic(d)
             es == [i \in DOMAIN d.to |-> Entry(d.to[i].ref, d.to[i].conf \ {Panic})]
  <2>0. IsDoc(d) /\ ProperEntries(d.to)
    BY ProperPolicyMeans DEF NewDoc, IsNew
  <2>1. e = [d EXCEPT !.to = es]
    BY <1>2, Zenon DEF WithoutPanic
  <2>2. IsSeq(d.to) /\ \A i \in DOMAIN d.to : ProperEntry(d.to[i])
    BY <2>0, EntriesMeans
  <2>3. \A i \in DOMAIN d.to : ProperEntry(es[i]) /\ Panic \notin es[i].conf
    BY <2>2, EntryMeans DEF ProperEntry
  <2>4. DOMAIN es = DOMAIN d.to /\ es = [i \in DOMAIN es |-> es[i]]
    OBVIOUS
  <2> HIDE DEF e, es
  <2>5. ProperEntries(es) /\ (es = <<>> <=> d.to = <<>>)
    BY <2>2, <2>3, <2>4, EntriesMade
  <2>6. /\ IsDoc(e) /\ e.to = es
        /\ \A f \in PolicyFields \ {"to"} : e[f] = d[f]
    BY <2>0, <2>1 DEF IsDoc, PolicyFields
  <2>7. /\ e.kind = d.kind /\ e.name = d.name /\ e.targetRef = d.targetRef /\ e.from = d.from
        /\ e.rules = d.rules /\ e.sources = d.sources /\ e.destinations = d.destinations
    BY <2>6 DEF PolicyFields
  <2>8. ProperPolicy(e)
    BY <2>5, <2>6, <2>7, ProperPolicyMeans, SameNamedDefault DEF NewDoc, IsNew
  <2>9. IsNew(e) /\ Apart(e, t) /\ (FaultsBothWays(e) => FaultsBothWays(in))
    BY <2>5, <2>6, <2>7, <2>8 DEF NewDoc, IsNew, Apart, RulesBesideTo, FaultsBothWays
  <2>10. isDefaultGatewayMeshTimeout(e) => isDefaultGatewayMeshTimeout(in)
    BY <2>7, SameDefault DEF NewDoc
  <2>11. ~HasPanic(e)
    BY <2>3, <2>4, <2>6 DEF HasPanic
  <2> QED
    BY <2>9, <2>10, <2>11 DEF NewDoc, e
<1> QED
  BY <1>1, <1>2

LEMMA CompanionMeans ==
  ASSUME NEW d, NEW in, NEW t, NewDoc(d, in, t)
  PROVE  NewDoc(PanicCompanion(d), in, t) /\ ~HasPanic(PanicCompanion(d))
<1> DEFINE I  == {i \in DOMAIN d.to : Panic \in d.to[i].conf}
           carrying == Chosen(d.to, I)
           es == [i \in DOMAIN carrying |-> Entry(carrying[i].ref, {Panic, "detectors"})]
           e  == PanicCompanion(d)
<1>1. /\ IsDoc(d) /\ ProperName(d.name) /\ ProperTop(d.targetRef) /\ ProperEntries(d.to)
      /\ d.sources = <<>> /\ d.destinations = <<>>
  BY ProperPolicyMeans, NotLegacyKind DEF NewDoc, IsNew
<1>2. e = [d EXCEPT !.kind = "MeshCircuitBreaker",
                    !.name = d.name \o <<"-panic-threshold">>,
                    !.ns = IF d.layout = "kube" /\ d.ns = None THEN SystemNs ELSE d.ns,
                    !.to = es, !.from = <<>>, !.rules = <<>>, !.default = <<>>]
  BY Zenon DEF PanicCompanion
<1>3. Len(d.to) \in Nat /\ DOMAIN d.to = 1..Len(d.to) /\ \A i \in DOMAIN d.to : ProperEntry(d.to[i])
  BY <1>1, EntriesMeans, SeqMeans
<1>4. IsSeq(carrying) /\ \A k \in DOMAIN carrying : ProperEntry(carrying[k])
  <2>1. I \subseteq 1..Len(d.to) /\ \A i \in I : ProperEntry(d.to[i])
    BY <1>3
  <2> HIDE DEF I
  <2>2. DOMAIN Chosen(d.to, I) = 1..Cardinality(I) /\ Cardinality(I) \in Nat
        /\ \A k \in 1..Cardinality(I) : Chosen(d.to, I)[k] = d.to[Nth(I, k)]
    BY <1>3, <2>1, SmallSets DEF Chosen
  <2>3. \A k \in 1..Cardinality(I) : Nth(I, k) \in I
    BY <1>3, <2>1, NthMember
  <2>4. Chosen(d.to, I) = [k \in DOMAIN Chosen(d.to, I) |-> Chosen(d.to, I)[k]]
    BY DEF Chosen
  <2>5. IsSeq(Chosen(d.to, I))
    BY <2>2, <2>4, SeqOfNumbered, Zenon
  <2> QED
    BY <2>1, <2>2, <2>3, <2>5
<1> HIDE DEF carrying
<1>5. DOMAIN es = DOMAIN carrying /\ es = [i \in DOMAIN es |-> es[i]]
      /\ \A i \in DOMAIN carrying : ProperEntry(es[i])
  BY <1>4, EntryMeans DEF ProperEntry
<1> HIDE DEF e, es
<1>6. ProperEntries(es)
  BY <1>4, <1>5, EntriesMade
<1>7. /\ IsDoc(e) /\ e.kind = "MeshCircuitBreaker" /\ e.name = d.name \o <<"-panic-threshold">>
      /\ e.to = es /\ e.from = <<>> /\ e.rules = <<>>
      /\ e.targetRef = d.targetRef /\ e.sources = d.sources /\ e.destinations = d.destinations
  BY <1>1, <1>2 DEF IsDoc, PolicyFields
<1>8. ProperName(e.name)
  BY <1>1, <1>7, ConcatSeq, SeqOfOne DEF ProperName
<1>9. ProperPolicy(e)
  BY <1>1, <1>6, <1>7, <1>8, ProperPolicyMeans, NoEntries, SeqOfNone DEF NamedDefault
<1>10. /\ IsNew(e) /\ Apart(e, t) /\ ~HasPanic(e) /\ ~isDefaultGatewayMeshTimeout(e)
       /\ ~FaultsBothWays(e)
  BY <1>7, <1>9, RulesKinds
    DEF NewDoc, IsNew, Apart, HasPanic, FaultsBothWays, isDefaultGatewayMeshTimeout, NamedDefault,
        rulesAPIMigrationKinds
<1> QED
  BY <1>10 DEF NewDoc, e

\* The documents of a result, all new.
AllNew(ds, in, t) == IsSeq(ds) /\ \A i \in DOMAIN ds : NewDoc(ds[i], in, t)

LEMMA SplitPanicMeans ==
  ASSUME NEW ds, NEW in, NEW t, AllNew(ds, in, t)
  PROVE  LET r == SplitPanic(ds) IN
         AllNew(r.docs, in, t) /\ \A i \in DOMAIN r.docs : ~HasPanic(r.docs[i])
<1> DEFINE I == {i \in DOMAIN ds : HasPanic(ds[i])}
           carrying == Chosen(ds, I)
           a == [i \in DOMAIN ds |-> WithoutPanic(ds[i])]
           b == [i \in DOMAIN carrying |-> PanicCompanion(carrying[i])]
<1>1. SplitPanic(ds).docs = a \o b
  BY DEF SplitPanic, Result
<1>2. IsSeq(ds) /\ Len(ds) \in Nat /\ DOMAIN ds = 1..Len(ds)
  BY SeqMeans DEF AllNew
<1>3. IsSeq(carrying) /\ \A k \in DOMAIN carrying : NewDoc(carrying[k], in, t)
  <2>1. I \subseteq 1..Len(ds) /\ \A i \in I : NewDoc(ds[i], in, t)
    BY <1>2 DEF AllNew
  <2> HIDE DEF I
  <2>2. DOMAIN Chosen(ds, I) = 1..Cardinality(I) /\ Cardinality(I) \in Nat
        /\ \A k \in 1..Cardinality(I) : Chosen(ds, I)[k] = ds[Nth(I, k)]
    BY <1>2, <2>1, SmallSets DEF Chosen
  <2>3. \A k \in 1..Cardinality(I) : Nth(I, k) \in I
    BY <1>2, <2>1, NthMember
  <2>4. Chosen(ds, I) = [k \in DOMAIN Chosen(ds, I) |-> Chosen(ds, I)[k]]
    BY DEF Chosen
  <2>5. IsSeq(Chosen(ds, I))
    BY <2>2, <2>4, SeqOfNumbered, Zenon
  <2> QED
    BY <2>1, <2>2, <2>3, <2>5
<1> HIDE DEF carrying
<1>4. /\ DOMAIN a = DOMAIN ds /\ a = [i \in DOMAIN a |-> a[i]]
      /\ DOMAIN b = DOMAIN carrying /\ b = [i \in DOMAIN b |-> b[i]]
  OBVIOUS
<1>5. /\ \A i \in DOMAIN a : NewDoc(a[i], in, t) /\ ~HasPanic(a[i])
      /\ \A i \in DOMAIN b : NewDoc(b[i], in, t) /\ ~HasPanic(b[i])
  BY <1>3, WithoutPanicMeans, CompanionMeans DEF AllNew
<1> HIDE DEF a, b
<1>6. IsSeq(a) /\ IsSeq(b)
  BY <1>2, <1>3, <1>4, SeqOfDomain, Zenon
<1>7. IsSeq(a \o b) /\ \A i \in DOMAIN (a \o b) :
        (\E x \in DOMAIN a : (a \o b)[i] = a[x]) \/ (\E y \in DOMAIN b : (a \o b)[i] = b[y])
  BY <1>6, ConcatSeq
<1>8. ASSUME NEW i \in DOMAIN (a \o b)
      PROVE  NewDoc((a \o b)[i], in, t) /\ ~HasPanic((a \o b)[i])
  BY <1>5, <1>7
<1> DEFINE r == SplitPanic(ds)
<1> HIDE DEF r
<1>9. r.docs = a \o b
  BY <1>1 DEF r, a, b
<1>10. AllNew(r.docs, in, t) /\ \A i \in DOMAIN r.docs : ~HasPanic(r.docs[i])
  BY <1>7, <1>8, <1>9 DEF AllNew
<1> QED
  BY <1>10 DEF r

\* What makes a document new does not depend on its mesh, its namespace, its
\* labels or its settings.
LEMMA NewDocSame ==
  ASSUME NEW d, NEW in, NEW t, NewDoc(d, in, t), NEW e, IsDoc(e),
         e.kind = d.kind, e.name = d.name, e.targetRef = d.targetRef, e.to = d.to,
         e.from = d.from, e.rules = d.rules, e.sources = d.sources,
         e.destinations = d.destinations
  PROVE  NewDoc(e, in, t)
<1>1. ProperPolicy(e)
  BY ProperPolicyMeans, SameNamedDefault DEF NewDoc, IsNew
<1>2. isDefaultGatewayMeshTimeout(e) => isDefaultGatewayMeshTimeout(in)
  BY SameDefault DEF NewDoc
<1> QED
  BY <1>1, <1>2 DEF NewDoc, IsNew, Apart, RulesBesideTo, FaultsBothWays

LEMMA ResultMeans ==
  ASSUME NEW ds, NEW ws
  PROVE  /\ Result(ds, ws).docs = ds /\ Result(ds, ws).warns = ws /\ Result(ds, ws).err = FALSE
         /\ Failed.docs = <<>> /\ Failed.err = TRUE
  BY DEF Result, Failed

LEMMA DocsOfResult ==
  ASSUME NEW r, NEW ds, NEW ws, r = Result(ds, ws)
  PROVE  r.docs = ds
  BY DEF Result

LEMMA WarnsOfResult ==
  ASSUME NEW r, NEW ds, NEW ws, r = Result(ds, ws)
  PROVE  r.warns = ws
  BY DEF Result

LEMMA OneOfResult ==
  ASSUME NEW d, NEW ws, NEW r, r = Result(<<d>>, ws)
  PROVE  r.docs[1] = d
  BY DEF Result

\* A conversion that fails yields nothing.
LEMMA NothingNew ==
  ASSUME NEW in, NEW t
  PROVE  AllNew(<<>>, in, t) /\ AllNew(Failed.docs, in, t)
  BY SeqOfNone, NoDomain, ResultMeans DEF AllNew

LEMMA OneNew ==
  ASSUME NEW in, NEW t, NEW d, NewDoc(d, in, t)
  PROVE  AllNew(<<d>>, in, t)
  BY SeqOfOne DEF AllNew

-----------------------------------------------------------------------------
(***************************************************************************)
(* The legacy policies.                                                    *)
(***************************************************************************)

LEMMA SelectorsMean ==
  ASSUME NEW list, ProperSelectors(list), NEW topLevel \in BOOLEAN, NEW t,
         NEW l \in IdentityTags
  PROVE  LET cs == ConvertSelectors(list, topLevel, t, l) IN
         IsSeq(cs) /\ Len(cs) = Len(list) /\ \A i \in DOMAIN cs : SelectorRef(cs[i].ref)
<1> DEFINE cs == ConvertSelectors(list, topLevel, t, l)
<1>1. IsSeq(list) /\ \A i \in DOMAIN list : ProperTags(list[i])
  BY DEF ProperSelectors, IsSeq
<1>2. DOMAIN cs = DOMAIN list /\ cs = [i \in DOMAIN cs |-> cs[i]]
  BY DEF ConvertSelectors
<1>3. \A i \in DOMAIN list :
        cs[i] = ConvertSelectorToTargetRefForTarget(list[i], None, topLevel, t, l)
  BY DEF ConvertSelectors
<1> HIDE DEF cs
<1>4. ASSUME NEW i \in DOMAIN list PROVE SelectorRef(cs[i].ref)
  <2>1. ProperTags(list[i])
    BY <1>1
  <2>2. cs[i] = ConvertSelectorToTargetRefForTarget(list[i], None, topLevel, t, l)
    BY <1>3
  <2> QED
    BY <2>1, <2>2, SelectorRefMeans, Zenon
<1>5. IsSeq(cs) /\ Len(cs) = Len(list)
  BY <1>1, <1>2, SeqOfDomain, Zenon
<1> QED
  BY <1>2, <1>4, <1>5 DEF cs

LEMMA RefsMean ==
  ASSUME NEW cs, IsSeq(cs), \A i \in DOMAIN cs : SelectorRef(cs[i].ref)
  PROVE  LET refs == OneIfMesh(RefsOf(cs)) IN
         IsSeq(refs) /\ \A i \in DOMAIN refs : SelectorRef(refs[i])
<1> DEFINE each == RefsOf(cs)
<1>1. DOMAIN each = DOMAIN cs /\ each = [i \in DOMAIN each |-> each[i]]
      /\ \A i \in DOMAIN cs : each[i] = cs[i].ref
  BY DEF RefsOf
<1> HIDE DEF each
<1>2. IsSeq(each) /\ \A i \in DOMAIN each : SelectorRef(each[i])
  BY <1>1, SeqOfDomain
<1>3. IsSeq(<<MeshRef>>) /\ \A i \in DOMAIN <<MeshRef>> : SelectorRef(<<MeshRef>>[i])
  BY SeqOfOne, ProperMeshRef DEF SelectorRef
<1>4. OneIfMesh(each) = each \/ OneIfMesh(each) = <<MeshRef>>
  BY Zenon DEF OneIfMesh
<1> QED
  BY <1>2, <1>3, <1>4 DEF each

LEMMA OneSelector ==
  ASSUME NEW list, ProperSelectors(list)
  PROVE  ProperSelectors(Selectors(list, << <<>> >>))
<1>1. ProperSelectors(<< <<>> >>)
  BY SeqOfOne, NoTagsProper DEF ProperSelectors, IsSeq
<1> QED
  BY <1>1, Zenon DEF Selectors

LEMMA NumberedMeans ==
  ASSUME NEW name, ProperName(name), NEW i, NEW n
  PROVE  ProperName(Numbered(name, i, n)) /\ Head(Numbered(name, i, n)) = Head(name)
<1> DEFINE more == <<"-", i - 1>>
<1>1. IsSeq(more)
  <2>1. more \in Seq({"-", i - 1}) /\ Len(more) = 2 /\ DOMAIN more = 1..2
        /\ more = [j \in DOMAIN more |-> more[j]]
    BY Zenon, SMT
  <2> HIDE DEF more
  <2> QED
    BY <2>1, SeqOfNumbered, Zenon
<1> HIDE DEF more
<1>2. Numbered(name, i, n) = name \/ Numbered(name, i, n) = name \o more
  BY Zenon DEF Numbered, more
<1> QED
  BY <1>1, <1>2, ConcatSeq DEF ProperName

\* The new policy for one selector of a legacy one.
OfLegacy(p, doc) ==
  /\ IsDoc(p) /\ ProperName(p.name) /\ p.kind = OldTypeToNew[doc.kind]
  /\ p.sources = <<>> /\ p.destinations = <<>>
  /\ p.targetRef = <<p.targetRef[1]>> /\ SelectorRef(p.targetRef[1])

LEMMA NewPolicyMeans ==
  ASSUME NEW doc, ProperName(doc.name), NEW i, NEW n, NEW ref, SelectorRef(ref)
  PROVE  LET p == NewPolicy(doc, i, n, ref) IN
         OfLegacy(p, doc) /\ p.to = <<>> /\ p.from = <<>> /\ p.rules = <<>>
<1> DEFINE p == NewPolicy(doc, i, n, ref)
           b == BlankPolicy(OldTypeToNew[doc.kind], doc.layout, Numbered(doc.name, i, n))
<1>1. p = [b EXCEPT !.targetRef = <<ref>>,
                    !.labels = IF doc.layout = "universal" THEN doc.labels ELSE <<>>]
  BY Zenon DEF NewPolicy
<1>2. /\ DOMAIN b = PolicyFields /\ b = [f \in PolicyFields |-> b[f]]
      /\ b.kind = OldTypeToNew[doc.kind] /\ b.name = Numbered(doc.name, i, n)
      /\ b.sources = <<>> /\ b.destinations = <<>>
      /\ b.to = <<>> /\ b.from = <<>> /\ b.rules = <<>>
  BY BlankMeans
<1> HIDE DEF p, b
<1>3. /\ IsDoc(p) /\ p.kind = OldTypeToNew[doc.kind] /\ p.name = Numbered(doc.name, i, n)
      /\ p.sources = <<>> /\ p.destinations = <<>> /\ p.targetRef = <<ref>>
      /\ p.to = <<>> /\ p.from = <<>> /\ p.rules = <<>>
  BY <1>1, <1>2 DEF IsDoc, PolicyFields
<1>4. p.targetRef = <<p.targetRef[1]>> /\ SelectorRef(p.targetRef[1])
  BY <1>3
<1> QED
  BY <1>3, <1>4, NumberedMeans DEF OfLegacy, p

LEMMA NewKinds ==
  ASSUME NEW k \in DOMAIN OldTypeToNew
  PROVE  OldTypeToNew[k] \in Policy2Kinds \ {"MeshOPA"}
<1>1. DOMAIN OldTypeToNew = {"Timeout", "CircuitBreaker", "Retry", "HealthCheck", "TrafficLog",
        "TrafficPermission", "FaultInjection", "RateLimit", "TrafficTrace", "ProxyTemplate"}
  BY DEF OldTypeToNew
<1>2. OldTypeToNew[k] \in {"MeshTimeout", "MeshCircuitBreaker", "MeshRetry", "MeshHealthCheck",
        "MeshAccessLog", "MeshTrafficPermission", "MeshFaultInjection", "MeshRateLimit",
        "MeshTrace", "MeshProxyPatch"}
  BY <1>1 DEF OldTypeToNew
<1> QED
  BY <1>2, KindsMean DEF Policy2Kinds

\* It is new, whatever its converter puts into it.
LEMMA LegacyIsNew ==
  ASSUME NEW doc, doc.kind \in DOMAIN OldTypeToNew, NEW p, OfLegacy(p, doc),
         ProperEntries(p.to), ProperEntries(p.from), IsSeq(p.rules),
         p.to = <<>> \/ (p.rules = <<>> /\ p.from = <<>>),
         p.from # <<>> => p.kind \in meshSubsetFromKinds, NEW in, NEW t
  PROVE  NewDoc(p, in, t)
<1>1. p.kind \in Policy2Kinds \ {"MeshOPA"} /\ p.kind # "OPAPolicy"
  BY NewKinds, KindsMean DEF OfLegacy, Policy2Kinds
<1>2. p.targetRef # <<>>
  BY SeqOfOne DEF OfLegacy
<1>3. TopRef(p) = p.targetRef[1] /\ proxyTypes(p) = {}
  BY <1>2 DEF TopRef, proxyTypes, OfLegacy, SelectorRef
<1>4. ProperTop(p.targetRef)
  BY DEF OfLegacy, SelectorRef, ProperTop
<1>5. ProperPolicy(p)
  BY <1>1, <1>3, <1>4, ProperPolicyMeans, RulesKinds DEF OfLegacy, SelectorRef
<1>6. ~isDefaultGatewayMeshTimeout(p)
  BY <1>3 DEF isDefaultGatewayMeshTimeout, gatewayOnly
<1> QED
  BY <1>1, <1>5, <1>6 DEF NewDoc, IsNew, Apart, FaultsBothWays

\* What is made for each of several selectors is a sequence.
LEMMA EachNew ==
  ASSUME NEW s, IsSeq(s), NEW in, NEW t, NEW ds, DOMAIN ds = DOMAIN s,
         ds = [i \in DOMAIN ds |-> ds[i]], \A i \in DOMAIN s : NewDoc(ds[i], in, t)
  PROVE  AllNew(ds, in, t)
<1>1. IsSeq(ds)
  BY SeqOfDomain, Zenon
<1> QED
  BY <1>1 DEF AllNew

\* A legacy policy as it is read.
LegacyInput(doc) ==
  /\ doc.kind \in DOMAIN OldTypeToNew /\ ProperName(doc.name)
  /\ ProperSelectors(doc.sources) /\ ProperSelectors(doc.destinations)
  /\ ProperSelectors(doc.selectors)

LEMMA OutboundEachNew ==
  ASSUME NEW doc, LegacyInput(doc), NEW refs, IsSeq(refs),
         \A i \in DOMAIN refs : SelectorRef(refs[i]),
         NEW to, ProperEntries(to), NEW in, NEW t
  PROVE  AllNew(OutboundEach(doc, refs, to), in, t)
<1> DEFINE ds == OutboundEach(doc, refs, to)
<1>1. DOMAIN ds = DOMAIN refs /\ ds = [i \in DOMAIN ds |-> ds[i]]
  BY DEF OutboundEach
<1>2. ASSUME NEW i \in DOMAIN refs PROVE NewDoc(ds[i], in, t)
  <2> DEFINE p == NewPolicy(doc, i, Len(refs), refs[i])
  <2>1. OfLegacy(p, doc) /\ p.to = <<>> /\ p.from = <<>> /\ p.rules = <<>>
    BY NewPolicyMeans DEF LegacyInput
  <2>2. ds[i] = [p EXCEPT !.to = to]
    BY DEF OutboundEach
  <2> HIDE DEF p, ds
  <2>3. /\ IsDoc(ds[i]) /\ ds[i].to = to
        /\ \A f \in PolicyFields \ {"to"} : ds[i][f] = p[f]
    BY <2>1, <2>2 DEF OfLegacy, IsDoc, PolicyFields
  <2>4. OfLegacy(ds[i], doc) /\ ds[i].from = <<>> /\ ds[i].rules = <<>>
    BY <2>1, <2>3 DEF OfLegacy, PolicyFields
  <2> QED
    BY <2>3, <2>4, LegacyIsNew, NoEntries, SeqOfNone DEF LegacyInput
<1> HIDE DEF ds
<1>3. AllNew(ds, in, t)
  BY <1>1, <1>2, EachNew
<1> QED
  BY <1>3 DEF ds

LEMMA OutboundNew ==
  ASSUME NEW doc, LegacyInput(doc), NEW t, NEW l \in IdentityTags, NEW in
  PROVE  AllNew(transformGenericLegacy(doc, t, l).docs, in, t)
<1> DEFINE list  == Selectors(doc.destinations, << <<>> >>)
           srcs  == ConvertSelectors(doc.sources, TRUE, t, l)
           dests == ConvertSelectors(list, FALSE, t, l)
           refs  == OneIfMesh(RefsOf(srcs))
           to    == [i \in DOMAIN dests |-> Entry(dests[i].ref, LegacyConf(doc))]
           r     == transformGenericLegacy(doc, t, l)
<1>1. ProperSelectors(list) /\ ProperSelectors(doc.sources)
  BY OneSelector DEF LegacyInput
<1>2. r = Failed \/ r = Result(OutboundEach(doc, refs, to), Warns(dests) \union Warns(srcs))
  BY Zenon DEF transformGenericLegacy, OutboundPolicies
<1> HIDE DEF list
<1>3. IsSeq(srcs) /\ \A i \in DOMAIN srcs : SelectorRef(srcs[i].ref)
  BY <1>1, SelectorsMean
<1>4. IsSeq(dests) /\ \A i \in DOMAIN dests : SelectorRef(dests[i].ref)
  BY <1>1, SelectorsMean
<1> HIDE DEF srcs, dests
<1>5. IsSeq(refs) /\ \A i \in DOMAIN refs : SelectorRef(refs[i])
  BY <1>3, RefsMean
<1>6. /\ DOMAIN to = DOMAIN dests /\ to = [i \in DOMAIN to |-> to[i]]
      /\ \A i \in DOMAIN dests : ProperEntry(to[i])
  BY <1>4, EntryMeans DEF SelectorRef
<1> HIDE DEF refs, to, r
<1>7. ProperEntries(to)
  BY <1>4, <1>6, EntriesMade
<1>8. AllNew(OutboundEach(doc, refs, to), in, t)
  BY <1>5, <1>7, OutboundEachNew
<1>9. AllNew(r.docs, in, t)
  BY <1>2, <1>8, NothingNew, DocsOfResult, Zenon
<1> QED
  BY <1>9 DEF r

LEMMA SelectorsNew ==
  ASSUME NEW doc, LegacyInput(doc), NEW t, NEW l \in IdentityTags, NEW in
  PROVE  AllNew(transformSelectorLegacy(doc, t, l).docs, in, t)
<1> DEFINE list == Selectors(doc.selectors, << <<>> >>)
           sels == ConvertSelectors(list, TRUE, t, l)
           refs == OneIfMesh(RefsOf(sels))
           ds   == DefaultOfRefs(doc, refs)
           r    == transformSelectorLegacy(doc, t, l)
<1>1. ProperSelectors(list)
  BY OneSelector DEF LegacyInput
<1>2. r = Failed \/ r = Result(ds, Warns(sels))
  BY Zenon DEF transformSelectorLegacy, SelectorPolicies
<1> HIDE DEF list
<1>3. IsSeq(sels) /\ \A i \in DOMAIN sels : SelectorRef(sels[i].ref)
  BY <1>1, SelectorsMean
<1> HIDE DEF sels
<1>4. IsSeq(refs) /\ \A i \in DOMAIN refs : SelectorRef(refs[i])
  BY <1>3, RefsMean
<1> HIDE DEF refs
<1>5. DOMAIN ds = DOMAIN refs /\ ds = [i \in DOMAIN ds |-> ds[i]]
  BY DEF DefaultOfRefs
<1>6. ASSUME NEW i \in DOMAIN refs PROVE NewDoc(ds[i], in, t)
  <2> DEFINE p == NewPolicy(doc, i, Len(refs), refs[i])
  <2>1. OfLegacy(p, doc) /\ p.to = <<>> /\ p.from = <<>> /\ p.rules = <<>>
    BY <1>4, NewPolicyMeans DEF LegacyInput
  <2>2. ds[i] = [p EXCEPT !.default = <<LegacyConf(doc)>>]
    BY DEF DefaultOfRefs
  <2> HIDE DEF p, ds
  <2>3. IsDoc(ds[i]) /\ \A f \in PolicyFields \ {"default"} : ds[i][f] = p[f]
    BY <2>1, <2>2 DEF OfLegacy, IsDoc, PolicyFields
  <2>4. OfLegacy(ds[i], doc) /\ ds[i].to = <<>> /\ ds[i].from = <<>> /\ ds[i].rules = <<>>
    BY <2>1, <2>3 DEF OfLegacy, PolicyFields
  <2> QED
    BY <2>3, <2>4, LegacyIsNew, NoEntries, SeqOfNone DEF LegacyInput
<1> HIDE DEF ds, r
<1>7. AllNew(ds, in, t)
  BY <1>4, <1>5, <1>6, EachNew
<1>8. AllNew(r.docs, in, t)
  BY <1>2, <1>7, NothingNew, DocsOfResult, Zenon
<1> QED
  BY <1>8 DEF r

LEMMA ForClientsNew ==
  ASSUME NEW doc, LegacyInput(doc), doc.kind \in legacyShapes.inbound,
         NEW p, OfLegacy(p, doc), p.to = <<>>, p.from = <<>>, p.rules = <<>>,
         NEW srcs, ProperSelectors(srcs), NEW conf, NEW in, NEW t
  PROVE  NewDoc(ForClients(p, srcs, conf, UsesRules(doc.kind, t)), in, t)
<1> DEFINE from == [j \in DOMAIN srcs |-> Entry(fromSubsetRefV2(srcs[j]), conf)]
           e    == ForClients(p, srcs, conf, UsesRules(doc.kind, t))
<1>1. CASE UsesRules(doc.kind, t)
  <2>1. e = [p EXCEPT !.rules = <<conf>>]
    BY <1>1, Zenon DEF ForClients
  <2> HIDE DEF e
  <2>2. IsDoc(e) /\ e.rules = <<conf>> /\ \A f \in PolicyFields \ {"rules"} : e[f] = p[f]
    BY <2>1 DEF OfLegacy, IsDoc, PolicyFields
  <2>3. OfLegacy(e, doc) /\ e.to = <<>> /\ e.from = <<>>
    BY <2>2 DEF OfLegacy, PolicyFields
  <2>4. IsSeq(e.rules)
    BY <2>2, SeqOfOne
  <2>5. NewDoc(e, in, t)
    BY <2>3, <2>4, LegacyIsNew, NoEntries DEF LegacyInput
  <2> QED
    BY <2>5 DEF e
<1>2. CASE ~UsesRules(doc.kind, t)
  <2>1. e = [p EXCEPT !.from = from]
    BY <1>2, Zenon DEF ForClients
  <2>2. IsSeq(srcs) /\ \A i \in DOMAIN srcs : ProperTags(srcs[i])
    BY DEF ProperSelectors, IsSeq
  <2>3. /\ DOMAIN from = DOMAIN srcs /\ from = [i \in DOMAIN from |-> from[i]]
        /\ \A i \in DOMAIN srcs : ProperEntry(from[i])
    BY <2>2, FromSubsetMeans, EntryMeans
  <2> HIDE DEF e, from
  <2>4. ProperEntries(from)
    BY <2>2, <2>3, EntriesMade
  <2>5. IsDoc(e) /\ e.from = from /\ \A f \in PolicyFields \ {"from"} : e[f] = p[f]
    BY <2>1 DEF OfLegacy, IsDoc, PolicyFields
  <2>6. OfLegacy(e, doc) /\ e.to = <<>> /\ e.rules = <<>> /\ e.kind = p.kind
    BY <2>5 DEF OfLegacy, PolicyFields
  <2>7. doc.kind \in {"TrafficPermission", "FaultInjection"}
    BY <1>2 DEF UsesRules, legacyShapes
  <2>8. e.kind \in meshSubsetFromKinds
    BY <2>6, <2>7 DEF OfLegacy, OldTypeToNew, meshSubsetFromKinds
  <2>9. NewDoc(e, in, t)
    BY <2>4, <2>5, <2>6, <2>8, LegacyIsNew, NoEntries, SeqOfNone DEF LegacyInput
  <2> QED
    BY <2>9 DEF e
<1> QED
  BY <1>1, <1>2

LEMMA InboundNew ==
  ASSUME NEW doc, LegacyInput(doc), doc.kind \in legacyShapes.inbound,
         NEW t, NEW l \in IdentityTags, NEW in
  PROVE  AllNew(transformInboundLegacy(doc, t, l).docs, in, t)
<1> DEFINE dests == ConvertSelectors(doc.destinations, TRUE, t, l)
           srcs  == Selectors(doc.sources, << <<>> >>)
           ds    == [i \in DOMAIN dests |->
                       ForClients(NewPolicy(doc, i, Len(dests), dests[i].ref), srcs,
                                  LegacyConf(doc), UsesRules(doc.kind, t))]
           r     == transformInboundLegacy(doc, t, l)
<1>1. r = Failed \/ \E ws : r = Result(ds, ws)
  BY Zenon DEF transformInboundLegacy, InboundPolicies
<1>2. ProperSelectors(doc.destinations)
  BY DEF LegacyInput
<1>3. IsSeq(dests) /\ \A i \in DOMAIN dests : SelectorRef(dests[i].ref)
  BY <1>2, SelectorsMean
<1>4. ProperSelectors(srcs)
  BY OneSelector DEF LegacyInput
<1> HIDE DEF dests, srcs
<1>5. DOMAIN ds = DOMAIN dests /\ ds = [i \in DOMAIN ds |-> ds[i]]
  OBVIOUS
<1>6. ASSUME NEW i \in DOMAIN dests PROVE NewDoc(ds[i], in, t)
  <2> DEFINE p == NewPolicy(doc, i, Len(dests), dests[i].ref)
  <2>1. OfLegacy(p, doc) /\ p.to = <<>> /\ p.from = <<>> /\ p.rules = <<>>
    BY <1>3, NewPolicyMeans DEF LegacyInput
  <2>2. ds[i] = ForClients(p, srcs, LegacyConf(doc), UsesRules(doc.kind, t))
    OBVIOUS
  <2> HIDE DEF p, ds
  <2> QED
    BY <1>4, <2>1, <2>2, ForClientsNew
<1> HIDE DEF ds, r
<1>7. AllNew(ds, in, t)
  BY <1>3, <1>5, <1>6, EachNew
<1>8. AllNew(r.docs, in, t)
  BY <1>1, <1>7, NothingNew, DocsOfResult, Zenon
<1> QED
  BY <1>8 DEF r

LEMMA InMeshNew ==
  ASSUME NEW ds, NEW in, NEW t, AllNew(ds, in, t), NEW mesh
  PROVE  AllNew(InMesh(ds, mesh), in, t)
<1> DEFINE es == InMesh(ds, mesh)
<1>1. DOMAIN es = DOMAIN ds /\ es = [i \in DOMAIN es |-> es[i]]
  BY DEF InMesh
<1>2. ASSUME NEW i \in DOMAIN ds PROVE NewDoc(es[i], in, t)
  <2> DEFINE e == es[i]
             d == ds[i]
  <2>1. e = [d EXCEPT !.mesh = mesh]
    BY DEF InMesh
  <2>2. NewDoc(d, in, t) /\ IsDoc(d)
    BY ProperPolicyMeans DEF AllNew, NewDoc, IsNew
  <2> HIDE DEF e, d
  <2>3. IsDoc(e) /\ \A f \in PolicyFields \ {"mesh"} : e[f] = d[f]
    BY <2>1, <2>2 DEF IsDoc, PolicyFields
  <2>4. NewDoc(e, in, t)
    BY <2>2, <2>3, NewDocSame DEF PolicyFields
  <2> QED
    BY <2>4 DEF e
<1> HIDE DEF es
<1>3. AllNew(es, in, t)
  BY <1>1, <1>2, EachNew DEF AllNew
<1> QED
  BY <1>3 DEF es

\* A legacy policy becomes policies of 2.x, with their companions.
LEMMA LegacyNew ==
  ASSUME NEW doc, NEW t, NEW l \in IdentityTags, NEW in,
         doc.kind \in DOMAIN OldTypeToNew => LegacyInput(doc)
  PROVE  AllNew(transformScenarioLegacy(doc, t, l).docs, in, t)
<1> DEFINE shaped == CASE doc.kind \in legacyShapes.selector -> transformSelectorLegacy(doc, t, l)
                       [] doc.kind \in legacyShapes.inbound -> transformInboundLegacy(doc, t, l)
                       [] OTHER -> transformGenericLegacy(doc, t, l)
           r      == transformScenarioLegacy(doc, t, l)
<1>1. r = Failed \/ (doc.kind \in DOMAIN OldTypeToNew /\ r = OfScenario(shaped, doc.mesh, t))
  BY Zenon DEF transformScenarioLegacy
<1>2. CASE r = Failed
  BY <1>2, NothingNew, Zenon
<1>3. CASE doc.kind \in DOMAIN OldTypeToNew /\ r = OfScenario(shaped, doc.mesh, t)
  <2>1. \/ shaped = transformSelectorLegacy(doc, t, l)
        \/ doc.kind \in legacyShapes.inbound /\ shaped = transformInboundLegacy(doc, t, l)
        \/ shaped = transformGenericLegacy(doc, t, l)
    OBVIOUS
  <2> HIDE DEF shaped
  <2>2. AllNew(shaped.docs, in, t)
    BY <1>3, <2>1, SelectorsNew, InboundNew, OutboundNew, Zenon
  <2> DEFINE split == SplitForTarget(shaped.docs, t)
  <2>3. AllNew(split.docs, in, t)
    <3>1. CASE t = "v3"
      <4>1. split = SplitPanic(shaped.docs)
        BY <3>1 DEF SplitForTarget
      <4> HIDE DEF split
      <4> QED
        BY <2>2, <4>1, SplitPanicMeans
    <3>2. CASE t # "v3"
      <4>1. split = Result(shaped.docs, {})
        BY <3>2 DEF SplitForTarget
      <4> HIDE DEF split
      <4> QED
        BY <2>2, <4>1, DocsOfResult, Zenon
    <3> QED
      BY <3>1, <3>2
  <2>4. r = Failed \/ r = Result(InMesh(split.docs, doc.mesh), split.warns \union shaped.warns)
    BY <1>3, Zenon DEF OfScenario, OfMesh
  <2> HIDE DEF split, r
  <2>5. AllNew(InMesh(split.docs, doc.mesh), in, t)
    BY <2>3, InMeshNew
  <2>6. AllNew(r.docs, in, t)
    BY <2>4, <2>5, NothingNew, DocsOfResult, Zenon
  <2> QED
    BY <2>6 DEF r
<1> QED
  BY <1>1, <1>2, <1>3

-----------------------------------------------------------------------------
(***************************************************************************)
(* The policies of 2.x: from[] becomes rules[], and rules[] part from to[]. *)
(***************************************************************************)
LEMMA SeqOfTwo ==
  ASSUME NEW a, NEW b
  PROVE  IsSeq(<<a, b>>) /\ DOMAIN <<a, b>> = {1, 2} /\ <<a, b>>[1] = a /\ <<a, b>>[2] = b
<1> DEFINE s == <<a, b>>
<1>1. DOMAIN s = 1..2 /\ s = [i \in DOMAIN s |-> s[i]] /\ s[1] = a /\ s[2] = b
  OBVIOUS
<1>2. 1..2 = {1, 2}
  OBVIOUS
<1> HIDE DEF s
<1>3. IsSeq(s)
  BY <1>1, SeqOfNumbered
<1> QED
  BY <1>1, <1>2, <1>3 DEF s

\* It is new, but rules[] and to[] may still be together.
Whole(d, in) ==
  /\ IsNew(d)
  /\ isDefaultGatewayMeshTimeout(d) => isDefaultGatewayMeshTimeout(in)
  /\ FaultsBothWays(d) => FaultsBothWays(in)

LEMMA OutboundHalf ==
  ASSUME NEW d, NEW in, NEW t, Whole(d, in)
  PROVE  NewDoc([d EXCEPT !.rules = <<>>, !.from = <<>>, !.name = d.name \o <<"-outbound">>,
                          !.labels = Only(d.labels, DOMAIN d.labels \ {DisplayName})], in, t)
<1> DEFINE e == [d EXCEPT !.rules = <<>>, !.from = <<>>, !.name = d.name \o <<"-outbound">>,
                          !.labels = Only(d.labels, DOMAIN d.labels \ {DisplayName})]
<1>1. /\ IsDoc(d) /\ ProperName(d.name) /\ ProperTop(d.targetRef) /\ ProperEntries(d.to)
      /\ d.sources = <<>> /\ d.destinations = <<>>
      /\ d.kind \in {"MeshOPA", "OPAPolicy"} => d.to = <<>>
      /\ NamedDefault(d) => TopRef(d).kind # "MeshServiceSubset"
  BY ProperPolicyMeans, NotLegacyKind DEF Whole, IsNew
<1>2. e = [d EXCEPT !.rules = <<>>, !.from = <<>>, !.name = d.name \o <<"-outbound">>,
                    !.labels = Only(d.labels, DOMAIN d.labels \ {DisplayName})]
  OBVIOUS
<1> HIDE DEF e
<1>3. /\ IsDoc(e) /\ e.name = d.name \o <<"-outbound">> /\ e.rules = <<>> /\ e.from = <<>>
      /\ \A f \in PolicyFields \ {"name", "rules", "from", "labels"} : e[f] = d[f]
  BY <1>1, <1>2 DEF IsDoc, PolicyFields
<1>4. /\ e.kind = d.kind /\ e.targetRef = d.targetRef /\ e.to = d.to
      /\ e.sources = d.sources /\ e.destinations = d.destinations
  BY <1>3 DEF PolicyFields
<1>5. ProperName(e.name) /\ Head(e.name) = Head(d.name)
  BY <1>1, <1>3, ConcatSeq, SeqOfOne DEF ProperName
<1>6. ProperPolicy(e)
  BY <1>1, <1>3, <1>4, <1>5, ProperPolicyMeans, NoEntries, SeqOfNone, SameNamedDefault
<1>7. isDefaultGatewayMeshTimeout(e) => isDefaultGatewayMeshTimeout(in)
  BY <1>4, <1>5, SameDefault DEF Whole
<1>8. NewDoc(e, in, t)
  BY <1>3, <1>4, <1>6, <1>7 DEF NewDoc, IsNew, Apart, Whole, FaultsBothWays
<1> QED
  BY <1>8 DEF e

LEMMA InboundHalf ==
  ASSUME NEW d, NEW in, NEW t, Whole(d, in)
  PROVE  NewDoc([d EXCEPT !.to = <<>>], in, t)
<1> DEFINE e == [d EXCEPT !.to = <<>>]
<1>1. IsDoc(d) /\ ProperPolicy(d)
  BY ProperPolicyMeans DEF Whole, IsNew
<1>2. e = [d EXCEPT !.to = <<>>]
  OBVIOUS
<1> HIDE DEF e
<1>3. IsDoc(e) /\ e.to = <<>> /\ \A f \in PolicyFields \ {"to"} : e[f] = d[f]
  BY <1>1, <1>2 DEF IsDoc, PolicyFields
<1>4. /\ e.kind = d.kind /\ e.name = d.name /\ e.targetRef = d.targetRef /\ e.from = d.from
      /\ e.rules = d.rules /\ e.sources = d.sources /\ e.destinations = d.destinations
  BY <1>3 DEF PolicyFields
<1>5. ProperPolicy(e)
  BY <1>1, <1>3, <1>4, ProperPolicyMeans, NoEntries, SameNamedDefault
<1>6. isDefaultGatewayMeshTimeout(e) => isDefaultGatewayMeshTimeout(in)
  BY <1>4, SameDefault DEF Whole
<1>7. NewDoc(e, in, t)
  BY <1>3, <1>4, <1>5, <1>6 DEF NewDoc, IsNew, Apart, Whole, FaultsBothWays
<1> QED
  BY <1>7 DEF e

LEMMA SplitNew ==
  ASSUME NEW d, NEW in, NEW t, Whole(d, in)
  PROVE  AllNew(splitRulesAndTo(d), in, t)
<1> DEFINE a == [d EXCEPT !.to = <<>>]
           b == [d EXCEPT !.rules = <<>>, !.from = <<>>, !.name = d.name \o <<"-outbound">>,
                          !.labels = Only(d.labels, DOMAIN d.labels \ {DisplayName})]
<1>1. CASE d.rules = <<>> \/ d.to = <<>>
  <2>1. splitRulesAndTo(d) = <<d>>
    BY <1>1, Zenon DEF splitRulesAndTo
  <2>2. NewDoc(d, in, t)
    BY <1>1 DEF NewDoc, Whole, Apart
  <2> QED
    BY <2>1, <2>2, OneNew
<1>2. CASE ~(d.rules = <<>> \/ d.to = <<>>)
  <2>1. splitRulesAndTo(d) = <<a, b>>
    BY <1>2, Zenon DEF splitRulesAndTo
  <2>2. NewDoc(a, in, t) /\ NewDoc(b, in, t)
    BY InboundHalf, OutboundHalf
  <2> HIDE DEF a, b
  <2> QED
    BY <2>1, <2>2, SeqOfTwo DEF AllNew
<1> QED
  BY <1>1, <1>2

\* A policy of 2.x as it is read.
PolicyInput(doc) == ProperPolicy(doc) /\ doc.kind \in Policy2Kinds

LEMMA RulesWhole ==
  ASSUME NEW doc, PolicyInput(doc), doc.kind \in rulesAPIMigrationKinds \/ doc.from = <<>>,
         NEW in, isDefaultGatewayMeshTimeout(doc) => isDefaultGatewayMeshTimeout(in),
         FaultsBothWays(doc) => FaultsBothWays(in)
  PROVE  Whole(applyFromToRules(doc), in)
<1> DEFINE rules == [i \in DOMAIN doc.from |-> doc.from[i].conf]
           e     == applyFromToRules(doc)
<1>1. CASE doc.from = <<>>
  <2>1. e = doc
    BY <1>1, Zenon DEF applyFromToRules
  <2> QED
    BY <1>1, <2>1 DEF Whole, IsNew, PolicyInput
<1>2. CASE doc.from # <<>>
  <2>1. e = [doc EXCEPT !.from = <<>>, !.rules = rules]
    BY <1>2, Zenon DEF applyFromToRules
  <2>2. IsDoc(doc) /\ ProperPolicy(doc) /\ IsSeq(doc.from)
    BY ProperPolicyMeans, EntriesMeans DEF PolicyInput
  <2>3. IsSeq(rules)
    <3>1. DOMAIN rules = DOMAIN doc.from /\ rules = [i \in DOMAIN rules |-> rules[i]]
      OBVIOUS
    <3> HIDE DEF rules
    <3> QED
      BY <2>2, <3>1, SeqOfDomain, Zenon
  <2> HIDE DEF e, rules
  <2>4. /\ IsDoc(e) /\ e.from = <<>> /\ e.rules = rules
        /\ \A f \in PolicyFields \ {"from", "rules"} : e[f] = doc[f]
    BY <2>1, <2>2 DEF IsDoc, PolicyFields
  <2>5. /\ e.kind = doc.kind /\ e.name = doc.name /\ e.targetRef = doc.targetRef
        /\ e.to = doc.to /\ e.sources = doc.sources /\ e.destinations = doc.destinations
    BY <2>4 DEF PolicyFields
  <2>6. ProperPolicy(e)
    BY <2>2, <2>3, <2>4, <2>5, ProperPolicyMeans, NoEntries, SameNamedDefault
  <2>7. isDefaultGatewayMeshTimeout(e) => isDefaultGatewayMeshTimeout(in)
    BY <2>5, SameDefault
  <2>8. ~FaultsBothWays(e)
    BY <1>2, <2>5 DEF FaultsBothWays, rulesAPIMigrationKinds
  <2>9. Whole(e, in)
    BY <2>4, <2>5, <2>6, <2>7, <2>8 DEF Whole, IsNew, PolicyInput
  <2> QED
    BY <2>9 DEF e
<1> QED
  BY <1>1, <1>2

LEMMA RulesNew ==
  ASSUME NEW doc, PolicyInput(doc), doc.kind \in rulesAPIMigrationKinds \/ doc.from = <<>>,
         NEW in, isDefaultGatewayMeshTimeout(doc) => isDefaultGatewayMeshTimeout(in),
         FaultsBothWays(doc) => FaultsBothWays(in), NEW t
  PROVE  AllNew(TransformFromToRules(doc, t).docs, in, t)
         /\ AllNew(splitRulesAndTo(applyFromToRules(doc)), in, t)
<1>1. AllNew(splitRulesAndTo(applyFromToRules(doc)), in, t)
  BY RulesWhole, SplitNew
<1>2. TransformFromToRules(doc, t).docs = splitRulesAndTo(applyFromToRules(doc))
  BY DEF TransformFromToRules, Result
<1> QED
  BY <1>1, <1>2

-----------------------------------------------------------------------------
(***************************************************************************)
(* The subset scenario: references converted in place.                     *)
(***************************************************************************)

\* No conversion of a policy of 2.x changes a reference of it again.
RefsStay(d) ==
  /\ d.targetRef # <<>> => StaysRef(TopRef(d), TRUE)
  /\ \A i \in DOMAIN d.to : StaysRef(d.to[i].ref, FALSE)
  /\ \A i \in DOMAIN d.from : FromStays(d.from[i].ref)

\* The reference at the top, when it is there, keeps its filter.
TopMade(doc, t, l) ==
  [i \in DOMAIN doc.targetRef |->
     KeepingProxyTypes(ConvertTargetRefForTarget(doc.targetRef[i], doc.ns, TRUE, t, l),
                       doc.targetRef[i])]
ToMade(doc, t, l) ==
  [i \in DOMAIN doc.to |->
     ConvertTargetRefForTarget(doc.to[i].ref, doc.ns, FALSE, t, l)]
FromMade(doc, t, l) ==
  [i \in DOMAIN doc.from |->
     fromRefForTarget(doc.from[i].ref, doc.kind, doc.ns, t, l)]

LEMMA SubsetIs ==
  ASSUME NEW doc, NEW t, NEW l
  PROVE  transformScenarioSubset(doc, t, l)
           = Rewritten(doc, TopMade(doc, t, l), ToMade(doc, t, l), FromMade(doc, t, l), t)
  BY Zenon DEF transformScenarioSubset, TopMade, ToMade, FromMade

LEMMA OneOfOne ==
  ASSUME NEW s, DOMAIN s = {1}, s = [i \in DOMAIN s |-> s[i]]
  PROVE  s = <<s[1]>>
<1>1. 1..1 = {1}
  OBVIOUS
<1>2. IsSeq(s) /\ Len(s) = 1
  BY <1>1, SeqOfNumbered, Zenon
<1>3. s \in Seq(Range(s))
  BY <1>2 DEF IsSeq
<1> QED
  BY <1>2, <1>3

LEMMA NoneOfNone ==
  ASSUME NEW s, DOMAIN s = {}, s = [i \in DOMAIN s |-> s[i]]
  PROVE  s = <<>>
<1>1. 1..0 = {}
  OBVIOUS
<1>2. IsSeq(s)
  BY <1>1, SeqOfNumbered, Zenon
<1> QED
  BY <1>2, EmptySeq

\* The reference at the top stays a proper one, of its filter and never the whole
\* mesh where it was a MeshService.
LEMMA TopMeans ==
  ASSUME NEW doc, ProperTop(doc.targetRef), NEW t, NEW l \in IdentityTags
  PROVE  LET refs == RefsOf(TopMade(doc, t, l)) IN
         \/ doc.targetRef = <<>> /\ refs = <<>>
         \/ /\ refs = <<refs[1]>> /\ ProperRef(refs[1]) /\ StaysRef(refs[1], TRUE)
            /\ doc.targetRef = <<doc.targetRef[1]>>
            /\ refs[1].proxyTypes = doc.targetRef[1].proxyTypes
            /\ refs[1].kind = "Mesh" => refs[1] = doc.targetRef[1] \/ IsSubset(doc.targetRef[1])
            /\ IsSubset(refs[1]) => refs[1] = doc.targetRef[1]
<1> DEFINE refs == RefsOf(TopMade(doc, t, l))
<1>1. /\ DOMAIN refs = DOMAIN doc.targetRef /\ refs = [i \in DOMAIN refs |-> refs[i]]
      /\ \A i \in DOMAIN doc.targetRef :
           refs[i] = KeepingProxyTypes(
                       ConvertTargetRefForTarget(doc.targetRef[i], doc.ns, TRUE, t, l),
                       doc.targetRef[i]).ref
  BY DEF RefsOf, TopMade
<1> HIDE DEF refs
<1>2. CASE doc.targetRef = <<>>
  <2>1. refs = <<>>
    BY <1>1, <1>2, NoDomain, NoneOfNone, Zenon
  <2> QED
    BY <1>2, <2>1 DEF refs
<1>3. CASE doc.targetRef = <<doc.targetRef[1]>> /\ ProperRef(doc.targetRef[1])
  <2> DEFINE ref == doc.targetRef[1]
             c   == ConvertTargetRefForTarget(ref, doc.ns, TRUE, t, l)
             k   == KeepingProxyTypes(c, ref)
  <2>1. DOMAIN doc.targetRef = {1}
    BY <1>3, SeqOfOne
  <2>2. refs = <<refs[1]>> /\ refs[1] = k.ref
    BY <1>1, <2>1, OneOfOne
  <2>3. ProperRef(ref)
    BY <1>3
  <2> HIDE DEF ref
  <2>4. DOMAIN c = Outcome /\ ConvertsTo(ref, TRUE, c.ref)
    BY <2>3, ForTargetMeans
  <2> HIDE DEF c
  <2>5. /\ k.ref.kind = c.ref.kind /\ k.ref.proxyTypes = ref.proxyTypes
        /\ ProperRef(k.ref) /\ StaysRef(k.ref, TRUE) /\ (c.ref = ref => k.ref = ref)
    BY <2>4, KeepingMeans
  <2> HIDE DEF k
  <2>6. /\ k.ref.kind = "Mesh" => k.ref = ref \/ IsSubset(ref)
        /\ IsSubset(k.ref) => k.ref = ref
    BY <2>4, <2>5 DEF ConvertsTo, IsSubset
  <2> QED
    BY <1>3, <2>2, <2>5, <2>6 DEF ref, refs
<1> QED
  BY <1>2, <1>3 DEF ProperTop

\* Destinations and clients stay proper ones; on 2.x none fails.
LEMMA ToMeans ==
  ASSUME NEW doc, ProperEntries(doc.to), NEW t, NEW l \in IdentityTags
  PROVE  LET es == [i \in DOMAIN ToMade(doc, t, l) |->
                      Entry(ToMade(doc, t, l)[i].ref, doc.to[i].conf)] IN
         /\ ProperEntries(es) /\ (es = <<>> <=> doc.to = <<>>)
         /\ \A i \in DOMAIN es : StaysRef(es[i].ref, FALSE)
<1> DEFINE es == [i \in DOMAIN ToMade(doc, t, l) |->
                    Entry(ToMade(doc, t, l)[i].ref, doc.to[i].conf)]
<1>1. /\ DOMAIN es = DOMAIN doc.to /\ es = [i \in DOMAIN es |-> es[i]]
      /\ \A i \in DOMAIN doc.to :
           es[i] = Entry(ConvertTargetRefForTarget(doc.to[i].ref, doc.ns, FALSE, t, l).ref,
                         doc.to[i].conf)
  BY DEF ToMade
<1> HIDE DEF es
<1>2. IsSeq(doc.to) /\ \A i \in DOMAIN doc.to : ProperEntry(doc.to[i])
  BY EntriesMeans
<1>3. ASSUME NEW i \in DOMAIN doc.to
      PROVE  ProperEntry(es[i]) /\ StaysRef(es[i].ref, FALSE)
  <2> DEFINE ref == doc.to[i].ref
             c   == ConvertTargetRefForTarget(ref, doc.ns, FALSE, t, l)
  <2>1. ProperRef(ref) /\ ref.proxyTypes = {}
    BY <1>2 DEF ProperEntry
  <2>2. es[i] = Entry(c.ref, doc.to[i].conf)
    BY <1>1
  <2> HIDE DEF ref
  <2>3. ConvertsTo(ref, FALSE, c.ref)
    BY <2>1, ForTargetMeans
  <2> HIDE DEF c
  <2>4. ProperRef(c.ref) /\ c.ref.proxyTypes = {} /\ StaysRef(c.ref, FALSE)
    BY <2>1, <2>3 DEF ConvertsTo
  <2>5. ProperEntry(Entry(c.ref, doc.to[i].conf)) /\ Entry(c.ref, doc.to[i].conf).ref = c.ref
    BY <2>4, EntryMeans, Zenon
  <2> QED
    BY <2>2, <2>4, <2>5, Zenon
<1>4. ProperEntries(es) /\ (es = <<>> <=> doc.to = <<>>)
  BY <1>1, <1>2, <1>3, EntriesMade
<1> QED
  BY <1>1, <1>3, <1>4 DEF es

LEMMA FromMeans ==
  ASSUME NEW doc, ProperEntries(doc.from), NEW t, NEW l \in IdentityTags
  PROVE  LET from == FromMade(doc, t, l)
             es == [i \in DOMAIN from |->
                      Entry(IF from[i].err THEN doc.from[i].ref ELSE from[i].ref,
                            doc.from[i].conf)] IN
         /\ ProperEntries(es) /\ (es = <<>> <=> doc.from = <<>>)
         /\ t # "v3" => \A i \in DOMAIN es : FromStays(es[i].ref)
<1> DEFINE from == FromMade(doc, t, l)
           es == [i \in DOMAIN from |->
                    Entry(IF from[i].err THEN doc.from[i].ref ELSE from[i].ref,
                          doc.from[i].conf)]
<1>1. DOMAIN es = DOMAIN doc.from /\ es = [i \in DOMAIN es |-> es[i]]
  BY DEF FromMade
<1>2. IsSeq(doc.from) /\ \A i \in DOMAIN doc.from : ProperEntry(doc.from[i])
  BY EntriesMeans
<1>3. ASSUME NEW i \in DOMAIN doc.from
      PROVE  ProperEntry(es[i]) /\ (t # "v3" => FromStays(es[i].ref))
  <2> DEFINE ref == doc.from[i].ref
             c   == fromRefForTarget(ref, doc.kind, doc.ns, t, l)
  <2>1. ProperRef(ref) /\ ref.proxyTypes = {}
    BY <1>2 DEF ProperEntry
  <2>2. from[i] = c
    BY DEF FromMade
  <2>3. \/ es[i] = Entry(ref, doc.from[i].conf) /\ c.err # FALSE
        \/ es[i] = Entry(c.ref, doc.from[i].conf)
    <3>1. i \in DOMAIN from
      BY DEF FromMade
    <3>2. es[i] = Entry(IF from[i].err THEN doc.from[i].ref ELSE from[i].ref, doc.from[i].conf)
      BY <3>1
    <3> HIDE DEF from, es, c
    <3>3. CASE c.err = FALSE
      <4>1. ~c.err
        BY <3>3, Zenon
      <4> QED
        BY <2>2, <3>2, <4>1, Zenon DEF ref
    <3>4. CASE c.err # FALSE
      BY <2>2, <3>2, <3>4, Zenon DEF ref
    <3> QED
      BY <3>3, <3>4
  <2> HIDE DEF ref, es
  <2>4. FromRef(c.ref)
    BY <2>1, FromRefMeans, Zenon
  <2>5. t # "v3" => c.err = FALSE
    BY <2>1, FromRefMeans, Zenon
  <2> HIDE DEF c
  <2>6. ProperEntry(Entry(ref, doc.from[i].conf)) /\ ProperEntry(Entry(c.ref, doc.from[i].conf))
        /\ Entry(c.ref, doc.from[i].conf).ref = c.ref
    BY <2>1, <2>4, EntryMeans, Zenon DEF FromRef
  <2> QED
    BY <2>3, <2>4, <2>5, <2>6, Zenon DEF FromRef
<1> HIDE DEF es
<1>4. ProperEntries(es) /\ (es = <<>> <=> doc.from = <<>>)
  BY <1>1, <1>2, <1>3, EntriesMade
<1> QED
  BY <1>1, <1>3, <1>4 DEF es, from

\* The policy with its references converted.
Rewrite(doc, t, l) == WithRefs(doc, TopMade(doc, t, l), ToMade(doc, t, l), FromMade(doc, t, l))

LEMMA RewriteMeans ==
  ASSUME NEW doc, PolicyInput(doc), NEW t, NEW l \in IdentityTags
  PROVE  LET w == Rewrite(doc, t, l) IN
         /\ PolicyInput(w) /\ w.kind = doc.kind /\ w.rules = doc.rules
         /\ w.from = <<>> <=> doc.from = <<>>
         /\ w.to = <<>> <=> doc.to = <<>>
         /\ isDefaultGatewayMeshTimeout(w) => isDefaultGatewayMeshTimeout(doc)
         /\ t # "v3" => RefsStay(w)
<1> DEFINE top  == RefsOf(TopMade(doc, t, l))
           to   == [i \in DOMAIN ToMade(doc, t, l) |->
                      Entry(ToMade(doc, t, l)[i].ref, doc.to[i].conf)]
           from == [i \in DOMAIN FromMade(doc, t, l) |->
                      Entry(IF FromMade(doc, t, l)[i].err THEN doc.from[i].ref
                            ELSE FromMade(doc, t, l)[i].ref, doc.from[i].conf)]
           w    == Rewrite(doc, t, l)
<1>1. /\ IsDoc(doc) /\ ProperName(doc.name) /\ ProperTop(doc.targetRef)
      /\ ProperEntries(doc.to) /\ ProperEntries(doc.from) /\ IsSeq(doc.rules)
      /\ doc.from # <<>> => doc.kind \in rulesAPIMigrationKinds \union meshSubsetFromKinds
      /\ doc.kind \in {"MeshOPA", "OPAPolicy"} => doc.to = <<>>
      /\ NamedDefault(doc) => TopRef(doc).kind # "MeshServiceSubset"
      /\ doc.sources = <<>> /\ doc.destinations = <<>>
  BY ProperPolicyMeans, NotLegacyKind DEF PolicyInput
<1>2. \/ doc.targetRef = <<>> /\ top = <<>>
      \/ /\ top = <<top[1]>> /\ ProperRef(top[1]) /\ StaysRef(top[1], TRUE)
         /\ doc.targetRef = <<doc.targetRef[1]>>
         /\ top[1].proxyTypes = doc.targetRef[1].proxyTypes
         /\ top[1].kind = "Mesh" => top[1] = doc.targetRef[1] \/ IsSubset(doc.targetRef[1])
         /\ IsSubset(top[1]) => top[1] = doc.targetRef[1]
  BY <1>1, TopMeans
<1>3. /\ ProperEntries(to) /\ (to = <<>> <=> doc.to = <<>>)
      /\ \A i \in DOMAIN to : StaysRef(to[i].ref, FALSE)
  BY <1>1, ToMeans
<1>4. /\ ProperEntries(from) /\ (from = <<>> <=> doc.from = <<>>)
      /\ t # "v3" => \A i \in DOMAIN from : FromStays(from[i].ref)
  BY <1>1, FromMeans
<1>5. w = [doc EXCEPT !.targetRef = top, !.to = to, !.from = from]
  <2> DEFINE a == TopMade(doc, t, l)
             b == ToMade(doc, t, l)
             c == FromMade(doc, t, l)
  <2>1. WithRefs(doc, a, b, c)
          = [doc EXCEPT !.targetRef = RefsOf(a),
                        !.to = [i \in DOMAIN b |-> Entry(b[i].ref, doc.to[i].conf)],
                        !.from = [i \in DOMAIN c |->
                                    Entry(IF c[i].err THEN doc.from[i].ref ELSE c[i].ref,
                                          doc.from[i].conf)]]
    <3> HIDE DEF a, b, c
    <3> QED
      BY <1>1 DEF WithRefs, IsDoc, PolicyFields
  <2> QED
    BY <2>1, Zenon DEF Rewrite
<1> HIDE DEF top, to, from, w
<1>6. /\ IsDoc(w) /\ w.targetRef = top /\ w.to = to /\ w.from = from
      /\ \A f \in PolicyFields \ {"targetRef", "to", "from"} : w[f] = doc[f]
  BY <1>1, <1>5 DEF IsDoc, PolicyFields
<1>7. /\ w.kind = doc.kind /\ w.name = doc.name /\ w.rules = doc.rules
      /\ w.sources = doc.sources /\ w.destinations = doc.destinations
  BY <1>6 DEF PolicyFields
<1>8. top # <<>> => TopRef(w) = top[1] /\ proxyTypes(w) = top[1].proxyTypes
                    /\ TopRef(doc) = doc.targetRef[1] /\ proxyTypes(doc) = top[1].proxyTypes
  <2>1. ASSUME top # <<>> PROVE doc.targetRef # <<>> /\ w.targetRef # <<>>
    <3>1. doc.targetRef = <<doc.targetRef[1]>>
      BY <1>2, <2>1, Zenon
    <3> HIDE DEF top
    <3>2. \A a : <<a>> # <<>>
      OBVIOUS
    <3> QED
      BY <1>6, <2>1, <3>1, <3>2, Zenon
  <2> QED
    BY <1>2, <1>6, <2>1 DEF TopRef, proxyTypes
<1>9. top = <<>> => TopRef(w) = MeshRef /\ proxyTypes(w) = {}
  BY <1>6 DEF TopRef, proxyTypes
<1>10. NamedDefault(w) => NamedDefault(doc)
  BY <1>7 DEF NamedDefault
<1>11. NamedDefault(w) => TopRef(w).kind # "MeshServiceSubset"
  <2>1. CASE top = <<>>
    BY <1>9, <2>1, ProperMeshRef
  <2>2. CASE top # <<>>
    BY <1>1, <1>2, <1>8, <1>10, <2>2 DEF IsSubset
  <2> QED
    BY <2>1, <2>2
<1>12. isDefaultGatewayMeshTimeout(w) => isDefaultGatewayMeshTimeout(doc)
  <2> SUFFICES ASSUME isDefaultGatewayMeshTimeout(w) PROVE isDefaultGatewayMeshTimeout(doc)
    OBVIOUS
  <2>1. /\ NamedDefault(w) /\ NamedDefault(doc) /\ proxyTypes(w) = {"Gateway"}
        /\ TopRef(w).kind \in {"Mesh", "MeshSubset"}
    BY <1>10 DEF isDefaultGatewayMeshTimeout, gatewayOnly, effective
  <2>2. top # <<>>
    BY <1>9, <2>1
  <2>3. proxyTypes(doc) = {"Gateway"} /\ TopRef(doc).kind \in {"Mesh", "MeshSubset"}
    BY <1>1, <1>2, <1>8, <2>1, <2>2 DEF IsSubset
  <2> QED
    BY <2>1, <2>3 DEF isDefaultGatewayMeshTimeout, gatewayOnly, effective
<1>13. PolicyInput(w)
  <2>1. ProperTop(w.targetRef)
    BY <1>2, <1>6 DEF ProperTop
  <2> QED
    BY <1>1, <1>3, <1>4, <1>6, <1>7, <1>11, <2>1, ProperPolicyMeans DEF PolicyInput
<1>14. t # "v3" => RefsStay(w)
  <2>1. w.targetRef # <<>> => StaysRef(TopRef(w), TRUE)
    BY <1>2, <1>6, <1>8
  <2> QED
    BY <1>3, <1>4, <1>6, <2>1 DEF RefsStay
<1> QED
  BY <1>3, <1>4, <1>6, <1>7, <1>12, <1>13, <1>14 DEF w

LEMMA SubsetDocs ==
  ASSUME NEW doc, NEW t, NEW l
  PROVE  LET r == transformScenarioSubset(doc, t, l)
             w == Rewrite(doc, t, l) IN
         \/ r = Failed /\ (Errs(TopMade(doc, t, l)) \/ Errs(ToMade(doc, t, l)))
         \/ doc.kind \notin rulesAPIMigrationKinds /\ \E ws : r = Result(<<w>>, ws)
         \/ /\ doc.kind \in rulesAPIMigrationKinds
            /\ \E ws : r = Result(splitRulesAndTo(applyFromToRules(w)), ws)
<1> DEFINE w  == Rewrite(doc, t, l)
           ws == Warns(TopMade(doc, t, l)) \union Warns(ToMade(doc, t, l))
                   \union Warns(FromMade(doc, t, l))
           r  == transformScenarioSubset(doc, t, l)
<1>1. \/ r = Failed /\ (Errs(TopMade(doc, t, l)) \/ Errs(ToMade(doc, t, l)))
      \/ r = InRules(w, ws, t)
  BY SubsetIs, Zenon DEF Rewritten, Rewrite
<1>2. w.kind = doc.kind
  BY DEF Rewrite, WithRefs
<1> HIDE DEF w
<1>3. \/ w.kind \notin rulesAPIMigrationKinds /\ \E more : InRules(w, ws, t) = Result(<<w>>, more)
      \/ /\ w.kind \in rulesAPIMigrationKinds
         /\ \E more : InRules(w, ws, t) = Result(splitRulesAndTo(applyFromToRules(w)), more)
  BY Zenon DEF InRules
<1> QED
  BY <1>1, <1>2, <1>3, Zenon DEF w

LEMMA SubsetNew ==
  ASSUME NEW doc, PolicyInput(doc), NEW t, Apart(doc, t), NEW l \in IdentityTags
  PROVE  AllNew(transformScenarioSubset(doc, t, l).docs, doc, t)
<1> DEFINE w == Rewrite(doc, t, l)
           r == transformScenarioSubset(doc, t, l)
<1>1. \/ r = Failed
      \/ doc.kind \notin rulesAPIMigrationKinds /\ \E ws : r = Result(<<w>>, ws)
      \/ /\ doc.kind \in rulesAPIMigrationKinds
         /\ \E ws : r = Result(splitRulesAndTo(applyFromToRules(w)), ws)
  BY SubsetDocs, Zenon
<1>2. /\ PolicyInput(w) /\ w.kind = doc.kind /\ w.rules = doc.rules
      /\ w.from = <<>> <=> doc.from = <<>>
      /\ w.to = <<>> <=> doc.to = <<>>
      /\ isDefaultGatewayMeshTimeout(w) => isDefaultGatewayMeshTimeout(doc)
      /\ FaultsBothWays(w) => FaultsBothWays(doc)
  BY RewriteMeans DEF FaultsBothWays
<1> HIDE DEF w, r
<1>3. CASE r = Failed
  BY <1>3, NothingNew, Zenon DEF r
<1>4. CASE doc.kind \notin rulesAPIMigrationKinds /\ \E ws : r = Result(<<w>>, ws)
  <2>1. ProperPolicy(w) /\ (w.from # <<>> => w.kind \in rulesAPIMigrationKinds \union meshSubsetFromKinds)
    BY <1>2, ProperPolicyMeans DEF PolicyInput
  <2>2. NewDoc(w, doc, t)
    BY <1>2, <1>4, <2>1 DEF NewDoc, IsNew, PolicyInput, Apart, RulesBesideTo
  <2>3. AllNew(<<w>>, doc, t)
    BY <2>2, OneNew, Zenon
  <2> QED
    BY <1>4, <2>3, DocsOfResult, Zenon DEF r
<1>5. CASE /\ doc.kind \in rulesAPIMigrationKinds
           /\ \E ws : r = Result(splitRulesAndTo(applyFromToRules(w)), ws)
  <2>1. AllNew(splitRulesAndTo(applyFromToRules(w)), doc, t)
    BY <1>2, <1>5, RulesNew
  <2> QED
    BY <1>5, <2>1, DocsOfResult, Zenon DEF r
<1> QED
  BY <1>1, <1>3, <1>4, <1>5

-----------------------------------------------------------------------------
(***************************************************************************)
(* MeshOPA.                                                                *)
(***************************************************************************)

\* A reference a pass changes in its labels, its name and its kind at most.
Kept(r, ref) ==
  /\ ProperRef(r) /\ r.proxyTypes = ref.proxyTypes

LEMMA OPASubsetMeans ==
  ASSUME NEW ref, ProperRef(ref)
  PROVE  /\ Kept(convertMeshOPAMeshSubset(ref).ref, ref)
         /\ convertMeshOPAMeshSubset(ref).ref.name = ref.name
<1> DEFINE c == convertMeshOPAMeshSubset(ref)
           a == [ref EXCEPT !.kind = "Mesh"]
           b == [ref EXCEPT !.kind = "Dataplane", !.tags = <<>>, !.labels = Over(ref.tags, ref.labels)]
<1>0. /\ DOMAIN ref = RefFields /\ ref = [f \in RefFields |-> ref[f]]
      /\ ref.tags = <<>> \/ IsSubset(ref)
      /\ ByName(ref) => ref.kind \in labelSelectedKinds \union {"Dataplane"}
      /\ ProperTags(ref.tags)
  BY ProperRefMeans
<1>1. \/ c = Converted(ref, {})
      \/ ref.kind = "MeshSubset" /\ DOMAIN ref.tags = {} /\ c = Converted(a, {})
      \/ ref.kind = "MeshSubset" /\ c = Converted(b, {"tags as labels"})
  BY Zenon DEF convertMeshOPAMeshSubset
<1> HIDE DEF c
<1>2. CASE c = Converted(ref, {})
  <2>1. c.ref = ref
    BY <1>2, RefOfConverted, Zenon
  <2> QED
    BY <2>1 DEF Kept, c
<1>3. ref.kind = "MeshSubset" => ref.name = None /\ ref.namespace = None
  BY <1>0 DEF ByName, labelSelectedKinds, RealDestinations
<1>4. CASE ref.kind = "MeshSubset" /\ DOMAIN ref.tags = {} /\ c = Converted(a, {})
  <2>1. c.ref = a
    BY <1>4, RefOfConverted, Zenon
  <2>2. ref.tags = <<>>
    <3>1. ref.tags = [k \in DOMAIN ref.tags |-> ref.tags[k]]
      BY <1>0, Zenon DEF ProperTags
    <3> QED
      BY <1>4, <3>1, NoneOfNone, Zenon
  <2>3. /\ DOMAIN a = RefFields /\ a = [f \in RefFields |-> a[f]] /\ a.tags = ref.tags
        /\ a.name = ref.name /\ a.namespace = ref.namespace /\ a.proxyTypes = ref.proxyTypes
    BY <1>0 DEF RefFields
  <2> HIDE DEF a
  <2>4. ProperRef(a)
    BY <1>3, <1>4, <2>2, <2>3, ProperRefMeans, NoTagsProper DEF ByName
  <2> QED
    BY <2>1, <2>3, <2>4 DEF Kept, c
<1>5. CASE ref.kind = "MeshSubset" /\ c = Converted(b, {"tags as labels"})
  <2>1. c.ref = b
    BY <1>5, RefOfConverted, Zenon
  <2>2. /\ DOMAIN b = RefFields /\ b = [f \in RefFields |-> b[f]] /\ b.tags = <<>>
        /\ b.name = ref.name /\ b.namespace = ref.namespace /\ b.proxyTypes = ref.proxyTypes
    BY <1>0 DEF RefFields
  <2> HIDE DEF b
  <2>3. ProperRef(b)
    BY <1>3, <1>5, <2>2, ProperRefMeans, NoTagsProper DEF ByName
  <2> QED
    BY <2>1, <2>2, <2>3 DEF Kept, c
<1> QED
  BY <1>1, <1>2, <1>4, <1>5

LEMMA DataplaneMeans ==
  ASSUME NEW ref, ProperRef(ref)
  PROVE  Kept(MeshOPADataplane(ref), ref) /\ MeshOPADataplane(ref).name = ref.name
<1> DEFINE r == MeshOPADataplane(ref)
<1>0. /\ DOMAIN ref = RefFields /\ ref = [f \in RefFields |-> ref[f]]
      /\ ref.tags = <<>> \/ IsSubset(ref)
  BY ProperRefMeans
<1>1. CASE ref.kind # "MeshService"
  <2>1. r = ref
    BY <1>1, Zenon DEF MeshOPADataplane
  <2> QED
    BY <2>1 DEF Kept
<1>2. CASE ref.kind = "MeshService"
  <2>1. /\ DOMAIN r = RefFields /\ r = [f \in RefFields |-> r[f]] /\ r.kind = "Dataplane"
        /\ r.tags = ref.tags /\ r.name = ref.name /\ r.proxyTypes = ref.proxyTypes
    BY <1>0, <1>2 DEF MeshOPADataplane, RefFields
  <2> HIDE DEF r
  <2>2. ref.tags = <<>>
    BY <1>0, <1>2 DEF IsSubset
  <2>3. ProperRef(r)
    BY <2>1, <2>2, ProperRefMeans, NoTagsProper
  <2> QED
    BY <2>1, <2>3 DEF Kept, r
<1> QED
  BY <1>1, <1>2

\* A pass that moves the name of a reference to its labels, or only its namespace.
LEMMA NameMoves ==
  ASSUME NEW ref, ProperRef(ref), NEW labels, NEW name, name \in {None, ref.name},
         NEW namespace, namespace \in {None, ref.namespace}
  PROVE  LET r == [ref EXCEPT !.labels = labels, !.name = name, !.namespace = namespace] IN
         Kept(r, ref) /\ r.kind = ref.kind /\ r.name = name /\ r.namespace = namespace
         /\ r.labels = labels
<1> DEFINE r == [ref EXCEPT !.labels = labels, !.name = name, !.namespace = namespace]
<1>0. /\ DOMAIN ref = RefFields /\ ref = [f \in RefFields |-> ref[f]]
      /\ ref.tags = <<>> \/ IsSubset(ref)
      /\ ByName(ref) => ref.kind \in labelSelectedKinds \union {"Dataplane"}
      /\ ProperTags(ref.tags)
  BY ProperRefMeans
<1>1. /\ DOMAIN r = RefFields /\ r = [f \in RefFields |-> r[f]] /\ r.kind = ref.kind
      /\ r.tags = ref.tags /\ r.name = name /\ r.namespace = namespace
      /\ r.proxyTypes = ref.proxyTypes /\ r.labels = labels
  BY <1>0 DEF RefFields
<1> HIDE DEF r
<1>2. ByName(r) => ByName(ref)
  BY <1>1 DEF ByName
<1>3. ProperRef(r)
  BY <1>0, <1>1, <1>2, ProperRefMeans DEF IsSubset
<1> QED
  BY <1>1, <1>3 DEF Kept, r

LEMMA OPARefMeans ==
  ASSUME NEW ref, ProperRef(ref)
  PROVE  Kept(fixMeshOPATargetRef(ref).ref, ref)
<1> DEFINE subset   == convertMeshOPAMeshSubset(ref)
           key      == MeshOPALabel(subset.ref)
           selector == MeshOPADataplane(subset.ref)
           moves    == Agree(WithIfAny(<<>>, key, ref.name), selector.labels)
           labels   == IF moves THEN WithIfAny(selector.labels, key, ref.name) ELSE selector.labels
           name     == IF moves THEN None ELSE selector.name
           r        == [selector EXCEPT !.labels = labels, !.name = name, !.namespace = None]
<1>1. Kept(subset.ref, ref) /\ ProperRef(subset.ref)
  BY OPASubsetMeans DEF Kept
<1>2. Kept(selector, subset.ref) /\ ProperRef(selector)
  <2> HIDE DEF subset
  <2> QED
    BY <1>1, DataplaneMeans DEF Kept
<1>3. \E ws : fixMeshOPATargetRef(ref) = Converted(r, ws)
  <2>1. r = [selector EXCEPT !.labels = IF moves THEN WithIfAny(@, key, ref.name) ELSE @,
                             !.name = IF moves THEN None ELSE @, !.namespace = None]
    <3>1. DOMAIN selector = RefFields
      BY <1>2, ProperRefMeans, Zenon
    <3> HIDE DEF selector, moves, key
    <3> QED
      BY <3>1 DEF RefFields
  <2> HIDE DEF r
  <2> QED
    BY <2>1, Zenon DEF fixMeshOPATargetRef
<1> HIDE DEF selector, moves, key, subset
<1>4. name \in {None, selector.name}
  OBVIOUS
<1> HIDE DEF labels, name
<1>5. Kept(r, selector)
  BY <1>2, <1>4, NameMoves
<1> HIDE DEF r
<1>6. Kept(r, ref)
  BY <1>1, <1>2, <1>5 DEF Kept
<1>7. fixMeshOPATargetRef(ref).ref = r
  BY <1>3, RefOfConverted, Zenon
<1> QED
  BY <1>6, <1>7, Zenon

\* A new document may have another reference at the top, of the same filter.
LEMMA TopReplaced ==
  ASSUME NEW d, NEW in, NEW t, NewDoc(d, in, t), NEW refs,
         \/ d.targetRef = <<>> /\ refs = <<>>
         \/ /\ refs = <<refs[1]>> /\ Kept(refs[1], d.targetRef[1])
            /\ d.kind # "MeshOPA" => refs[1].kind = d.targetRef[1].kind
            /\ d.targetRef = <<d.targetRef[1]>>
  PROVE  LET e == [d EXCEPT !.targetRef = refs] IN
         NewDoc(e, in, t) /\ e.kind = d.kind /\ e.targetRef = refs /\ e.to = d.to
         /\ e.from = d.from /\ e.labels = d.labels /\ proxyTypes(e) = proxyTypes(d)
         /\ (d.kind # "MeshOPA" => TopRef(e).kind = TopRef(d).kind)
         /\ e.ns = d.ns
<1> DEFINE e == [d EXCEPT !.targetRef = refs]
<1>0. IsDoc(d) /\ ProperPolicy(d) /\ (NamedDefault(d) => TopRef(d).kind # "MeshServiceSubset")
  BY ProperPolicyMeans DEF NewDoc, IsNew
<1>1. IsDoc(e) /\ e.targetRef = refs /\ \A f \in PolicyFields \ {"targetRef"} : e[f] = d[f]
  BY <1>0 DEF IsDoc, PolicyFields
<1> HIDE DEF e
<1>2. /\ e.kind = d.kind /\ e.name = d.name /\ e.to = d.to /\ e.from = d.from
      /\ e.rules = d.rules /\ e.sources = d.sources /\ e.destinations = d.destinations
      /\ e.labels = d.labels /\ e.ns = d.ns
  BY <1>1 DEF PolicyFields
<1>3. \A a : <<a>> # <<>>
  OBVIOUS
<1>4. proxyTypes(e) = proxyTypes(d) /\ (d.kind # "MeshOPA" => TopRef(e).kind = TopRef(d).kind)
  <2>1. CASE d.targetRef = <<>> /\ refs = <<>>
    BY <1>1, <2>1 DEF proxyTypes, TopRef
  <2>2. CASE ~(d.targetRef = <<>> /\ refs = <<>>)
    <3>1. d.targetRef # <<>> /\ refs # <<>>
      BY <1>3, <2>2, Zenon
    <3> QED
      BY <1>1, <2>2, <3>1 DEF proxyTypes, TopRef, Kept
  <2> QED
    BY <2>1, <2>2
<1>5. ProperTop(e.targetRef)
  BY <1>1 DEF ProperTop, Kept
<1>6. NamedDefault(e) => NamedDefault(d) /\ d.kind # "MeshOPA"
  BY <1>2 DEF NamedDefault
<1>7. ProperPolicy(e)
  BY <1>0, <1>1, <1>2, <1>4, <1>5, <1>6, ProperPolicyMeans
<1>8. isDefaultGatewayMeshTimeout(e) => isDefaultGatewayMeshTimeout(d)
  BY <1>4, <1>6 DEF isDefaultGatewayMeshTimeout, gatewayOnly, effective
<1>9. NewDoc(e, in, t)
  BY <1>2, <1>7, <1>8 DEF NewDoc, IsNew, Apart, RulesBesideTo, FaultsBothWays
<1> QED
  BY <1>1, <1>2, <1>4, <1>9 DEF e

\* The same for what is made of the reference by one operator.
LEMMA TopEach ==
  ASSUME NEW old, ProperTop(old), NEW refs, DOMAIN refs = DOMAIN old,
         refs = [i \in DOMAIN refs |-> refs[i]]
  PROVE  \/ old = <<>> /\ refs = <<>>
         \/ refs = <<refs[1]>> /\ old = <<old[1]>> /\ ProperRef(old[1]) /\ DOMAIN old = {1}
<1>1. CASE old = <<>>
  BY <1>1, NoDomain, NoneOfNone, Zenon
<1>2. CASE old = <<old[1]>> /\ ProperRef(old[1])
  <2>1. DOMAIN old = {1}
    BY <1>2, SeqOfOne
  <2>2. refs = <<refs[1]>>
    BY <2>1, OneOfOne, Zenon
  <2> QED
    BY <1>2, <2>1, <2>2
<1> QED
  BY <1>1, <1>2 DEF ProperTop

LEMMA FixMeshOPANew ==
  ASSUME NEW d, NEW in, NEW t, NewDoc(d, in, t), d.kind = "MeshOPA"
  PROVE  LET e == fixMeshOPA(d).docs[1] IN
         /\ NewDoc(e, in, t) /\ e.kind = "MeshOPA" /\ proxyTypes(e) = proxyTypes(d)
         /\ e.labels = d.labels
<1> DEFINE fixed == [i \in DOMAIN d.targetRef |-> fixMeshOPATargetRef(d.targetRef[i])]
           refs  == RefsOf(fixed)
           e     == [d EXCEPT !.targetRef = refs]
<1>1. fixMeshOPA(d) = Result(<<e>>, Warns(fixed))
  BY Zenon DEF fixMeshOPA
<1>2. /\ DOMAIN refs = DOMAIN d.targetRef /\ refs = [i \in DOMAIN refs |-> refs[i]]
      /\ \A i \in DOMAIN d.targetRef : refs[i] = fixMeshOPATargetRef(d.targetRef[i]).ref
  BY DEF RefsOf
<1>3. ProperTop(d.targetRef)
  BY ProperPolicyMeans DEF NewDoc, IsNew
<1> HIDE DEF refs, fixed
<1>4. \/ d.targetRef = <<>> /\ refs = <<>>
      \/ /\ refs = <<refs[1]>> /\ d.targetRef = <<d.targetRef[1]>>
         /\ ProperRef(d.targetRef[1]) /\ DOMAIN d.targetRef = {1}
  BY <1>2, <1>3, TopEach, Zenon
<1>5. \/ d.targetRef = <<>> /\ refs = <<>>
      \/ /\ refs = <<refs[1]>> /\ Kept(refs[1], d.targetRef[1])
         /\ d.targetRef = <<d.targetRef[1]>>
  BY <1>2, <1>4, OPARefMeans
<1>6. NewDoc(e, in, t) /\ e.kind = d.kind /\ proxyTypes(e) = proxyTypes(d) /\ e.labels = d.labels
  BY <1>5, TopReplaced
<1>7. fixMeshOPA(d).docs[1] = e
  BY <1>1, OneOfResult, Zenon
<1> QED
  BY <1>6, <1>7

LEMMA OPAPartNew ==
  ASSUME NEW d, NEW in, NEW t, NewDoc(d, in, t), d.kind = "MeshOPA",
         NEW e, IsDoc(e), ProperName(e.name),
         e.targetRef = <<e.targetRef[1]>>, SelectorRef(e.targetRef[1]),
         \A f \in PolicyFields \ {"targetRef", "name"} : e[f] = d[f]
  PROVE  NewDoc(e, in, t) /\ e.kind = "MeshOPA"
<1>0. ProperPolicy(d)
  BY DEF NewDoc, IsNew
<1>2. /\ e.kind = d.kind /\ e.to = d.to /\ e.from = d.from
      /\ e.rules = d.rules /\ e.sources = d.sources /\ e.destinations = d.destinations
  BY DEF PolicyFields
<1>3. ProperTop(e.targetRef)
  BY DEF ProperTop, SelectorRef
<1>4. ~NamedDefault(e)
  BY <1>2 DEF NamedDefault
<1>5. ProperPolicy(e)
  BY <1>0, <1>2, <1>3, <1>4, ProperPolicyMeans
<1>6. NewDoc(e, in, t)
  BY <1>2, <1>4, <1>5 DEF NewDoc, IsNew, Apart, isDefaultGatewayMeshTimeout, RulesBesideTo, FaultsBothWays
<1> QED
  BY <1>2, <1>6

\* An OPAPolicy as it is read.
OPAInput(doc) ==
  doc.kind = "OPAPolicy" /\ ProperPolicy(doc) /\ ProperSelectors(doc.selectors)

LEMMA OPAConverted ==
  ASSUME NEW doc, OPAInput(doc), NEW in, NEW t, NEW conf
  PROVE  LET c == [doc EXCEPT !.kind = "MeshOPA", !.selectors = <<>>, !.default = conf] IN
         NewDoc(c, in, t) /\ c.kind = "MeshOPA"
<1> DEFINE c == [doc EXCEPT !.kind = "MeshOPA", !.selectors = <<>>, !.default = conf]
<1>0. /\ IsDoc(doc) /\ ProperName(doc.name) /\ ProperTop(doc.targetRef)
      /\ doc.from # <<>> => doc.kind \in rulesAPIMigrationKinds \union meshSubsetFromKinds
      /\ doc.to = <<>> /\ IsSeq(doc.rules)
      /\ doc.sources = <<>> /\ doc.destinations = <<>>
  <2>1. "OPAPolicy" \notin DOMAIN OldTypeToNew \union ManualKinds
    BY DEF OldTypeToNew, ManualKinds
  <2> QED
    BY <2>1, ProperPolicyMeans DEF OPAInput
<1>1. doc.from = <<>>
  BY <1>0 DEF OPAInput, rulesAPIMigrationKinds, meshSubsetFromKinds
<1>2. /\ IsDoc(c) /\ c.kind = "MeshOPA"
      /\ \A f \in PolicyFields \ {"kind", "selectors", "default"} : c[f] = doc[f]
  BY <1>0 DEF IsDoc, PolicyFields
<1> HIDE DEF c
<1>3. /\ c.name = doc.name /\ c.targetRef = doc.targetRef /\ c.to = <<>> /\ c.from = <<>>
      /\ c.rules = doc.rules /\ c.sources = <<>> /\ c.destinations = <<>>
  BY <1>0, <1>1, <1>2 DEF PolicyFields
<1>4. ~NamedDefault(c) /\ c.kind \in Policy2Kinds
  BY <1>2 DEF NamedDefault, Policy2Kinds
<1>5. ProperPolicy(c)
  BY <1>0, <1>2, <1>3, <1>4, ProperPolicyMeans, NoEntries
<1>6. NewDoc(c, in, t)
  BY <1>3, <1>4, <1>5 DEF NewDoc, IsNew, Apart, isDefaultGatewayMeshTimeout, FaultsBothWays
<1> QED
  BY <1>2, <1>6 DEF c

LEMMA OPANew ==
  ASSUME NEW doc, OPAInput(doc), NEW t, NEW l \in IdentityTags, NEW in
  PROVE  AllNew(TransformOPAPolicy(doc, t, l).docs, in, t)
<1> DEFINE conf  == [i \in DOMAIN doc.default |-> doc.default[i] \ {NoSource}]
           c     == [doc EXCEPT !.kind = "MeshOPA", !.selectors = <<>>, !.default = conf]
           refs  == ConvertSelectors(doc.selectors, TRUE, "v2", l)
           parts == OPADocs(c, refs)
           fixed == [i \in DOMAIN parts |-> fixMeshOPAForTarget(parts[i], t)]
           ds    == [i \in DOMAIN fixed |-> fixed[i].docs[1]]
           r     == TransformOPAPolicy(doc, t, l)
<1>0. IsDoc(doc)
  BY ProperPolicyMeans DEF OPAInput
<1>1. \E ws : r = Result(ds, ws)
  <2>1. c = [doc EXCEPT !.kind = "MeshOPA", !.selectors = <<>>,
                        !.default = [i \in DOMAIN @ |-> @[i] \ {NoSource}]]
    BY <1>0 DEF IsDoc, PolicyFields
  <2> HIDE DEF c
  <2> QED
    BY <2>1, Zenon DEF TransformOPAPolicy
<1>2. NewDoc(c, in, t) /\ c.kind = "MeshOPA"
  <2> HIDE DEF conf
  <2> QED
    BY OPAConverted
<1>3. IsSeq(refs) /\ \A i \in DOMAIN refs : SelectorRef(refs[i].ref)
  <2>1. ProperSelectors(doc.selectors)
    BY DEF OPAInput
  <2> QED
    BY <2>1, SelectorsMean
<1> HIDE DEF c, refs
<1>4. IsSeq(parts) /\ \A i \in DOMAIN parts : NewDoc(parts[i], in, t) /\ parts[i].kind = "MeshOPA"
  <2>1. CASE refs = <<>>
    <3>1. parts = <<c>>
      BY <2>1, Zenon DEF OPADocs
    <3> HIDE DEF parts
    <3> QED
      BY <1>2, <3>1, SeqOfOne
  <2>2. CASE refs # <<>>
    <3>1. parts = [i \in DOMAIN refs |->
                     [c EXCEPT !.targetRef = <<refs[i].ref>>,
                               !.name = NumberedInMetadata(c, i, Len(refs))]]
      BY <2>2, Zenon DEF OPADocs
    <3> HIDE DEF parts
    <3>2. DOMAIN parts = DOMAIN refs /\ parts = [i \in DOMAIN parts |-> parts[i]]
      BY <3>1
    <3>3. ASSUME NEW i \in DOMAIN refs
          PROVE  NewDoc(parts[i], in, t) /\ parts[i].kind = "MeshOPA"
      <4> DEFINE name == NumberedInMetadata(c, i, Len(refs))
                 ref  == refs[i].ref
      <4>1. ProperName(c.name)
        BY <1>2, ProperPolicyMeans DEF NewDoc, IsNew
      <4>2. ProperName(name)
        BY <4>1, NumberedMeans DEF NumberedInMetadata
      <4>3. parts[i] = [c EXCEPT !.targetRef = <<ref>>, !.name = name]
        BY <3>1
      <4>4. SelectorRef(ref)
        BY <1>3
      <4> HIDE DEF name, ref
      <4> QED
        <5> DEFINE e == parts[i]
        <5>1. e = [c EXCEPT !.targetRef = <<ref>>, !.name = name]
          BY <4>3
        <5> HIDE DEF e
        <5>2. NewDoc(e, in, t) /\ e.kind = "MeshOPA"
          <6>1. IsDoc(c)
            BY <1>2, ProperPolicyMeans DEF NewDoc, IsNew
          <6>2. /\ IsDoc(e) /\ e.targetRef = <<ref>> /\ e.name = name
                /\ \A f \in PolicyFields \ {"targetRef", "name"} : e[f] = c[f]
            BY <5>1, <6>1 DEF IsDoc, PolicyFields
          <6>3. e.targetRef = <<e.targetRef[1]>> /\ SelectorRef(e.targetRef[1])
            BY <4>4, <6>2
          <6> QED
            BY <1>2, <4>2, <6>2, <6>3, OPAPartNew
        <5> QED
          BY <5>2 DEF e
    <3>4. IsSeq(parts)
      BY <1>3, <3>2, SeqOfDomain, Zenon
    <3> QED
      BY <3>2, <3>3, <3>4
  <2> QED
    BY <2>1, <2>2
<1> HIDE DEF parts
<1>5. DOMAIN ds = DOMAIN parts /\ ds = [i \in DOMAIN ds |-> ds[i]]
      /\ \A i \in DOMAIN parts : ds[i] = fixMeshOPAForTarget(parts[i], t).docs[1]
  OBVIOUS
<1> HIDE DEF ds, r
<1>6. ASSUME NEW i \in DOMAIN parts PROVE NewDoc(ds[i], in, t)
  <2> DEFINE p == parts[i]
  <2>1. NewDoc(p, in, t) /\ p.kind = "MeshOPA"
    BY <1>4
  <2>2. fixMeshOPAForTarget(p, t) = fixMeshOPA(p) \/ fixMeshOPAForTarget(p, t) = Result(<<p>>, {})
    BY Zenon DEF fixMeshOPAForTarget
  <2>3. ds[i] = fixMeshOPAForTarget(p, t).docs[1]
    BY <1>5
  <2> HIDE DEF p
  <2>4. NewDoc(fixMeshOPA(p).docs[1], in, t)
    BY <2>1, FixMeshOPANew
  <2>5. Result(<<p>>, {}).docs[1] = p
    BY OneOfResult, Zenon
  <2> QED
    BY <2>1, <2>2, <2>3, <2>4, <2>5, Zenon
<1>7. AllNew(ds, in, t)
  BY <1>4, <1>5, <1>6, EachNew
<1>8. AllNew(r.docs, in, t)
  BY <1>1, <1>7, DocsOfResult, Zenon
<1> QED
  BY <1>8 DEF r

-----------------------------------------------------------------------------
(***************************************************************************)
(* The stage of the scenario, and the namespace of its results.            *)
(***************************************************************************)

\* What the transform is given: a policy as it is read, or one of its results.
ProperInput(in, t) ==
  /\ ProperPolicy(in) /\ Apart(in, t)
  /\ \/ in.kind \in Policy2Kinds
     \/ /\ in.kind \in DOMAIN OldTypeToNew \union ManualKinds \union {"OPAPolicy"}
        /\ ProperSelectors(in.sources) /\ ProperSelectors(in.destinations)
        /\ ProperSelectors(in.selectors)

LEMMA ScenarioMeans ==
  ASSUME NEW doc
  PROVE  /\ DetectScenario(doc) \in {"opa", "legacy", "rules", "subset", "passthrough"}
         /\ DetectScenario(doc) = "opa" <=> doc.kind = "OPAPolicy"
         /\ DetectScenario(doc) = "legacy" => IsLegacy(doc)
         /\ DetectScenario(doc) \in {"rules", "subset", "passthrough"} => ~IsLegacy(doc)
         /\ DetectScenario(doc) = "rules" => doc.kind \in rulesAPIMigrationKinds /\ doc.from # <<>>
         /\ DetectScenario(doc) = "passthrough" /\ doc.kind \in rulesAPIMigrationKinds
              => doc.from = <<>>
<1> DEFINE own == {TopRef(doc)} \union EntryRefs(doc.from)
           needs(ref) == HasServiceTag(ref) \/ HasOldName(ref)
           rules == /\ doc.kind \in rulesAPIMigrationKinds /\ doc.from # <<>>
                    /\ \A ref \in own : ~HasServiceTag(ref)
           subset == \/ TopRef(doc).kind = "MeshSubset"
                     \/ \E ref \in own \union EntryRefs(doc.to) : needs(ref)
<1>1. DetectScenario(doc) =
        IF doc.kind = "OPAPolicy" THEN "opa" ELSE IF IsLegacy(doc) THEN "legacy"
        ELSE IF rules THEN "rules" ELSE IF subset THEN "subset" ELSE "passthrough"
  BY Zenon DEF DetectScenario
<1>2. ~subset => \A ref \in own : ~HasServiceTag(ref)
  OBVIOUS
<1>3. rules => doc.kind \in rulesAPIMigrationKinds /\ doc.from # <<>>
  OBVIOUS
<1>4. ~rules /\ ~subset /\ doc.kind \in rulesAPIMigrationKinds => doc.from = <<>>
  BY <1>2
<1> HIDE DEF rules, subset
<1> QED
  BY <1>1, <1>3, <1>4

LEMMA ReadKinds ==
  ASSUME NEW in, NEW t, ProperInput(in, t)
  PROVE  /\ in.kind \in DOMAIN OldTypeToNew => LegacyInput(in)
         /\ in.kind = "OPAPolicy" => OPAInput(in)
         /\ ~IsLegacy(in) /\ in.kind # "OPAPolicy" => PolicyInput(in)
<1>1. ProperName(in.name) /\ ProperPolicy(in)
  BY ProperPolicyMeans DEF ProperInput
<1>2. "OPAPolicy" \notin Policy2Kinds
  BY KindsMean DEF Policy2Kinds
<1> QED
  BY <1>1, <1>2, NotLegacyKind DEF ProperInput, LegacyInput, OPAInput, PolicyInput, IsLegacy

LEMMA ConversionNew ==
  ASSUME NEW in, ProperInput(in, target), last \in IdentityTags
  PROVE  AllNew(Conversion(in).docs, in, target)
<1> DEFINE s == DetectScenario(in)
           r == Conversion(in)
<1>0. /\ ProperPolicy(in) /\ Apart(in, target)
      /\ in.kind \in DOMAIN OldTypeToNew => LegacyInput(in)
      /\ in.kind = "OPAPolicy" => OPAInput(in)
      /\ ~IsLegacy(in) /\ in.kind # "OPAPolicy" => PolicyInput(in)
  BY ReadKinds DEF ProperInput
<1>1. /\ s \in {"opa", "legacy", "rules", "subset", "passthrough"}
      /\ s = "opa" <=> in.kind = "OPAPolicy"
      /\ s \in {"rules", "subset", "passthrough"} => ~IsLegacy(in)
      /\ s = "rules" => in.kind \in rulesAPIMigrationKinds /\ in.from # <<>>
      /\ s = "passthrough" /\ in.kind \in rulesAPIMigrationKinds => in.from = <<>>
  BY ScenarioMeans
<1>2. r = CASE s = "legacy" -> transformScenarioLegacy(in, target, last)
            [] s = "subset" -> transformScenarioSubset(in, target, last)
            [] s = "rules"  -> TransformFromToRules(in, target)
            [] s = "opa"    -> TransformOPAPolicy(in, target, last)
            [] OTHER -> Result(<<in>>, {})
  BY Zenon DEF Conversion
<1> HIDE DEF s, r
<1>3. CASE s = "legacy"
  <2>1. r = transformScenarioLegacy(in, target, last)
    BY <1>2, <1>3
  <2>2. AllNew(transformScenarioLegacy(in, target, last).docs, in, target)
    BY <1>0, LegacyNew, Zenon
  <2> QED
    BY <2>1, <2>2 DEF r
<1>4. CASE s = "subset"
  <2>1. r = transformScenarioSubset(in, target, last)
    BY <1>2, <1>4
  <2>2. PolicyInput(in)
    BY <1>0, <1>1, <1>4
  <2>3. AllNew(transformScenarioSubset(in, target, last).docs, in, target)
    BY <1>0, <2>2, SubsetNew, Zenon
  <2> QED
    BY <2>1, <2>3 DEF r
<1>5. CASE s = "rules"
  <2>1. r = TransformFromToRules(in, target)
    BY <1>2, <1>5
  <2>2. PolicyInput(in) /\ in.kind \in rulesAPIMigrationKinds
    BY <1>0, <1>1, <1>5
  <2>3. AllNew(TransformFromToRules(in, target).docs, in, target)
    BY <2>2, RulesNew, Zenon
  <2> QED
    BY <2>1, <2>3 DEF r
<1>6. CASE s = "opa"
  <2>1. r = TransformOPAPolicy(in, target, last)
    BY <1>2, <1>6
  <2>2. OPAInput(in)
    BY <1>0, <1>1, <1>6
  <2>3. AllNew(TransformOPAPolicy(in, target, last).docs, in, target)
    BY <2>2, OPANew, Zenon
  <2> QED
    BY <2>1, <2>3 DEF r
<1>7. CASE s = "passthrough"
  <2>1. r = Result(<<in>>, {})
    BY <1>2, <1>7
  <2>2. PolicyInput(in)
    BY <1>0, <1>1, <1>7
  <2>3. in.from # <<>> => in.kind \in rulesAPIMigrationKinds \union meshSubsetFromKinds
    BY <2>2, ProperPolicyMeans DEF PolicyInput
  <2>4. NewDoc(in, in, target)
    BY <1>0, <1>1, <1>7, <2>2, <2>3 DEF NewDoc, IsNew, PolicyInput
  <2>5. AllNew(<<in>>, in, target)
    BY <2>4, OneNew, Zenon
  <2> QED
    BY <2>1, <2>5, DocsOfResult, Zenon DEF r
<1> QED
  BY <1>1, <1>3, <1>4, <1>5, <1>6, <1>7

LEMMA PlacedNew ==
  ASSUME NEW d, NEW in, NEW t, NewDoc(d, in, t)
  PROVE  NewDoc(Placed(d), in, t)
<1> DEFINE e == Placed(d)
<1>1. IsDoc(d)
  BY ProperPolicyMeans DEF NewDoc, IsNew
<1>2. e = d \/ e = [d EXCEPT !.ns = SystemNs]
  BY Zenon DEF Placed
<1> HIDE DEF e
<1>3. IsDoc(e) /\ \A f \in PolicyFields \ {"ns"} : e[f] = d[f]
  BY <1>1, <1>2 DEF IsDoc, PolicyFields
<1>4. NewDoc(e, in, t)
  BY <1>3, NewDocSame DEF PolicyFields
<1> QED
  BY <1>4 DEF e

LEMMA EachPlacedNew ==
  ASSUME NEW ds, NEW in, NEW t, AllNew(ds, in, t)
  PROVE  AllNew([i \in DOMAIN ds |-> Placed(ds[i])], in, t)
<1> DEFINE es == [i \in DOMAIN ds |-> Placed(ds[i])]
<1>1. DOMAIN es = DOMAIN ds /\ es = [i \in DOMAIN es |-> es[i]]
      /\ \A i \in DOMAIN ds : es[i] = Placed(ds[i])
  OBVIOUS
<1> HIDE DEF es
<1>2. \A i \in DOMAIN ds : NewDoc(es[i], in, t)
  BY <1>1, PlacedNew DEF AllNew
<1>3. AllNew(es, in, t)
  BY <1>1, <1>2, EachNew DEF AllNew
<1> QED
  BY <1>3 DEF es

-----------------------------------------------------------------------------
(***************************************************************************)
(* The scan.                                                               *)
(***************************************************************************)

\* Destinations that are rewritten one by one, with their confs.
ToKept(es, to) ==
  /\ DOMAIN es = DOMAIN to /\ es = [i \in DOMAIN es |-> es[i]]
  /\ \A i \in DOMAIN to :
       es[i] = Entry(es[i].ref, to[i].conf) /\ Kept(es[i].ref, to[i].ref)

LEMMA ToReplaced ==
  ASSUME NEW d, NEW in, NEW t, NewDoc(d, in, t), NEW es, ToKept(es, d.to)
  PROVE  LET e == [d EXCEPT !.to = es] IN
         /\ NewDoc(e, in, t) /\ e.kind = d.kind /\ e.targetRef = d.targetRef
         /\ e.from = d.from /\ e.labels = d.labels /\ e.ns = d.ns /\ e.to = es
         /\ HasPanic(e) => HasPanic(d)
<1> DEFINE e == [d EXCEPT !.to = es]
<1>0. IsDoc(d) /\ ProperPolicy(d) /\ ProperEntries(d.to)
  BY ProperPolicyMeans DEF NewDoc, IsNew
<1>1. IsDoc(e) /\ e.to = es /\ \A f \in PolicyFields \ {"to"} : e[f] = d[f]
  BY <1>0 DEF IsDoc, PolicyFields
<1> HIDE DEF e
<1>2. /\ e.kind = d.kind /\ e.name = d.name /\ e.targetRef = d.targetRef /\ e.from = d.from
      /\ e.rules = d.rules /\ e.sources = d.sources /\ e.destinations = d.destinations
      /\ e.labels = d.labels /\ e.ns = d.ns
  BY <1>1 DEF PolicyFields
<1>3. IsSeq(d.to) /\ \A i \in DOMAIN d.to : ProperEntry(d.to[i])
  BY <1>0, EntriesMeans
<1>4. \A i \in DOMAIN d.to : ProperEntry(es[i]) /\ es[i].conf = d.to[i].conf
  BY <1>3, EntryMeans DEF ToKept, Kept, ProperEntry
<1>5. DOMAIN es = DOMAIN d.to /\ es = [i \in DOMAIN es |-> es[i]]
  BY DEF ToKept
<1>6. ProperEntries(es) /\ (es = <<>> <=> d.to = <<>>)
  BY <1>3, <1>4, <1>5, EntriesMade
<1>7. ProperPolicy(e)
  BY <1>0, <1>1, <1>2, <1>6, ProperPolicyMeans, SameNamedDefault
<1>8. isDefaultGatewayMeshTimeout(e) => isDefaultGatewayMeshTimeout(in)
  BY <1>2, SameDefault DEF NewDoc
<1>9. NewDoc(e, in, t)
  BY <1>1, <1>2, <1>6, <1>7, <1>8 DEF NewDoc, IsNew, Apart, RulesBesideTo, FaultsBothWays
<1>10. HasPanic(e) => HasPanic(d)
  BY <1>1, <1>2, <1>4, <1>5 DEF HasPanic
<1> QED
  BY <1>1, <1>2, <1>9, <1>10 DEF e

LEMMA LabelsFixed ==
  ASSUME NEW ref, ProperRef(ref), NEW ns, NEW zone
  PROVE  LET r == fixRefToLabels(ref, ns, zone).ref IN
         Kept(r, ref) /\ r.kind = ref.kind
<1> DEFINE want == DerivedLabels(ref, ns, zone)
           s    == [ref EXCEPT !.labels = Over(want, ref.labels), !.name = None, !.namespace = None]
           c    == fixRefToLabels(ref, ns, zone)
<1>1. (\E ws : c = Converted(ref, ws)) \/ (\E ws : c = Converted(s, ws))
  BY Zenon DEF fixRefToLabels
<1>2. Kept(s, ref) /\ s.kind = ref.kind
  <2> DEFINE labels == Over(want, ref.labels)
  <2> HIDE DEF labels
  <2>1. LET r == [ref EXCEPT !.labels = labels, !.name = None, !.namespace = None] IN
        Kept(r, ref) /\ r.kind = ref.kind
    BY NameMoves
  <2> QED
    BY <2>1 DEF labels
<1>3. Kept(ref, ref)
  BY DEF Kept
<1> HIDE DEF s, c
<1>4. c.ref = ref \/ c.ref = s
  BY <1>1, RefOfConverted, Zenon
<1> QED
  BY <1>2, <1>3, <1>4 DEF c

LEMMA PinnedMeans ==
  ASSUME NEW ref, ProperRef(ref), NEW d
  PROVE  Kept(Pinned(ref, d), ref) /\ Pinned(ref, d).kind = ref.kind
<1> DEFINE labels == WithIfAny(ref.labels, Zone, TagOrNone(d.labels, Zone))
           s      == [ref EXCEPT !.labels = labels]
<1>1. Pinned(ref, d) = ref \/ Pinned(ref, d) = s
  BY Zenon DEF Pinned
<1> HIDE DEF labels
<1>2. s = [ref EXCEPT !.labels = labels, !.name = ref.name, !.namespace = ref.namespace]
  BY ProperRefMeans DEF RefFields
<1>3. LET r == [ref EXCEPT !.labels = labels, !.name = ref.name, !.namespace = ref.namespace] IN
      Kept(r, ref) /\ r.kind = ref.kind
  BY NameMoves
<1> HIDE DEF s
<1>4. Kept(s, ref) /\ s.kind = ref.kind
  BY <1>2, <1>3
<1>5. Kept(ref, ref)
  BY DEF Kept
<1> QED
  BY <1>1, <1>4, <1>5

LEMMA PinnedNew ==
  ASSUME NEW d, NEW in, NEW t, NewDoc(d, in, t)
  PROVE  LET e == pinProducerZone(d).docs[1] IN
         /\ NewDoc(e, in, t) /\ e.kind = d.kind /\ e.targetRef = d.targetRef
         /\ e.from = d.from /\ e.labels = d.labels
         /\ HasPanic(e) => HasPanic(d)
<1> DEFINE to == [i \in DOMAIN d.to |-> Entry(Pinned(d.to[i].ref, d), d.to[i].conf)]
           e  == [d EXCEPT !.to = to]
           r  == pinProducerZone(d)
<1>1. (\E ws : r = Result(<<d>>, ws)) \/ (\E ws : r = Result(<<e>>, ws))
  BY Zenon DEF pinProducerZone
<1>2. \A i \in DOMAIN d.to : ProperRef(d.to[i].ref)
  BY ProperPolicyMeans, EntriesMeans DEF NewDoc, IsNew, ProperEntry
<1>3. ToKept(to, d.to)
  <2>1. DOMAIN to = DOMAIN d.to /\ to = [i \in DOMAIN to |-> to[i]]
        /\ \A i \in DOMAIN d.to : to[i] = Entry(Pinned(d.to[i].ref, d), d.to[i].conf)
    OBVIOUS
  <2> HIDE DEF to
  <2> QED
    BY <1>2, <2>1, PinnedMeans, EntryMeans DEF ToKept
<1> HIDE DEF to
<1>4. /\ NewDoc(e, in, t) /\ e.kind = d.kind /\ e.targetRef = d.targetRef
      /\ e.from = d.from /\ e.labels = d.labels
      /\ HasPanic(e) => HasPanic(d)
  BY <1>3, ToReplaced
<1> HIDE DEF e, r
<1>5. r.docs[1] = d \/ r.docs[1] = e
  BY <1>1, OneOfResult, Zenon
<1> QED
  BY <1>4, <1>5 DEF r

LEMMA RealNew ==
  ASSUME NEW d, NEW in, NEW t, NewDoc(d, in, t)
  PROVE  LET e == fixRealResourceTargetRefs(d).docs[1] IN
         /\ NewDoc(e, in, t) /\ e.kind = d.kind /\ proxyTypes(e) = proxyTypes(d)
         /\ HasPanic(e) => HasPanic(d)
         /\ gatewayOnly(d) => gatewayOnly(e)
<1> DEFINE fixed(ref) == fixRefToLabels(ref, d.ns, PolicyZone(d))
           refs == [i \in DOMAIN d.targetRef |-> fixed(d.targetRef[i]).ref]
           es   == [i \in DOMAIN d.to |-> Entry(fixed(d.to[i].ref).ref, d.to[i].conf)]
           a    == [d EXCEPT !.targetRef = refs]
           b    == [a EXCEPT !.to = es]
           r    == fixRealResourceTargetRefs(d)
<1>0. IsDoc(d) /\ ProperTop(d.targetRef) /\ \A i \in DOMAIN d.to : ProperRef(d.to[i].ref)
  BY ProperPolicyMeans, EntriesMeans DEF NewDoc, IsNew, ProperEntry
<1>1. r.docs = pinProducerZone(b).docs
  <2>1. b = [d EXCEPT !.targetRef = [i \in DOMAIN @ |-> fixed(@[i]).ref],
                      !.to = [i \in DOMAIN @ |-> Entry(fixed(@[i].ref).ref, @[i].conf)]]
    <3> DEFINE x == [i \in DOMAIN d.targetRef |-> fixed(d.targetRef[i]).ref]
               y == [i \in DOMAIN d.to |-> Entry(fixed(d.to[i].ref).ref, d.to[i].conf)]
    <3>1. [d EXCEPT !.targetRef = [i \in DOMAIN @ |-> fixed(@[i]).ref],
                      !.to = [i \in DOMAIN @ |-> Entry(fixed(@[i].ref).ref, @[i].conf)]]
          = [d EXCEPT !.targetRef = x, !.to = y]
      BY Zenon
    <3> HIDE DEF x, y
    <3>2. [d EXCEPT !.targetRef = x, !.to = y] = [[d EXCEPT !.targetRef = x] EXCEPT !.to = y]
      BY <1>0 DEF IsDoc, PolicyFields
    <3> QED
      BY <3>1, <3>2, Zenon DEF x, y
  <2> HIDE DEF b
  <2>2. \E ws : r = Result(pinProducerZone(b).docs, ws)
    BY <2>1, Zenon DEF fixRealResourceTargetRefs
  <2> QED
    BY <2>2, DocsOfResult, Zenon
<1>2. /\ DOMAIN refs = DOMAIN d.targetRef /\ refs = [i \in DOMAIN refs |-> refs[i]]
      /\ \A i \in DOMAIN d.targetRef : refs[i] = fixed(d.targetRef[i]).ref
  OBVIOUS
<1>3. /\ DOMAIN es = DOMAIN d.to /\ es = [i \in DOMAIN es |-> es[i]]
      /\ \A i \in DOMAIN d.to : es[i] = Entry(fixed(d.to[i].ref).ref, d.to[i].conf)
  OBVIOUS
<1> HIDE DEF refs, es
<1>4. \/ d.targetRef = <<>> /\ refs = <<>>
      \/ /\ refs = <<refs[1]>> /\ d.targetRef = <<d.targetRef[1]>>
         /\ ProperRef(d.targetRef[1]) /\ DOMAIN d.targetRef = {1}
  BY <1>0, <1>2, TopEach, Zenon
<1>5. \/ d.targetRef = <<>> /\ refs = <<>>
      \/ /\ refs = <<refs[1]>> /\ Kept(refs[1], d.targetRef[1])
         /\ refs[1].kind = d.targetRef[1].kind /\ d.targetRef = <<d.targetRef[1]>>
  BY <1>2, <1>4, LabelsFixed
<1>6. /\ NewDoc(a, in, t) /\ a.kind = d.kind /\ a.to = d.to /\ proxyTypes(a) = proxyTypes(d)
      /\ a.targetRef = refs
  BY <1>5, TopReplaced
<1>7. TopRef(a).kind = TopRef(d).kind
  <2>1. CASE d.targetRef = <<>> /\ refs = <<>>
    BY <1>6, <2>1 DEF TopRef
  <2>2. CASE ~(d.targetRef = <<>> /\ refs = <<>>)
    <3>1. \A x : <<x>> # <<>>
      OBVIOUS
    <3>2. d.targetRef # <<>> /\ refs # <<>>
      BY <1>5, <2>2, <3>1, Zenon
    <3> QED
      BY <1>5, <1>6, <3>2 DEF TopRef
  <2> QED
    BY <2>1, <2>2
<1>8. ToKept(es, a.to)
  <2>1. ASSUME NEW i \in DOMAIN d.to
        PROVE  es[i] = Entry(es[i].ref, d.to[i].conf) /\ Kept(es[i].ref, d.to[i].ref)
    <3>1. Kept(fixed(d.to[i].ref).ref, d.to[i].ref)
      BY <1>0, LabelsFixed
    <3> HIDE DEF fixed
    <3> QED
      BY <1>3, <3>1, EntryMeans
  <2> QED
    BY <1>3, <1>6, <2>1, Zenon DEF ToKept
<1> HIDE DEF a
<1>9. /\ NewDoc(b, in, t) /\ b.kind = a.kind /\ b.targetRef = a.targetRef
      /\ HasPanic(b) => HasPanic(a)
  BY <1>6, <1>8, ToReplaced
<1> HIDE DEF b
<1> DEFINE e == pinProducerZone(b).docs[1]
<1>10. /\ NewDoc(e, in, t) /\ e.kind = b.kind /\ e.targetRef = b.targetRef
       /\ HasPanic(e) => HasPanic(b)
  BY <1>9, PinnedNew
<1> HIDE DEF e
<1>11. e.targetRef = a.targetRef /\ proxyTypes(e) = proxyTypes(d) /\ TopRef(e).kind = TopRef(d).kind
  BY <1>6, <1>7, <1>9, <1>10 DEF proxyTypes, TopRef
<1>12. HasPanic(e) => HasPanic(d)
  BY <1>6, <1>9, <1>10 DEF HasPanic
<1>13. gatewayOnly(d) => gatewayOnly(e)
  BY <1>11 DEF gatewayOnly, effective
<1>14. fixRealResourceTargetRefs(d).docs[1] = e
  BY <1>1 DEF e
<1> QED
  BY <1>6, <1>9, <1>10, <1>11, <1>12, <1>13, <1>14

\* No label the control plane owns, and no filter but the one for gateways alone.
Clean(d) ==
  /\ d.labels = [k \in DOMAIN d.labels |-> d.labels[k]]
  /\ DOMAIN d.labels \intersect controlPlaneOwnedLabels = {}
  /\ proxyTypes(d) = {} \/ gatewayOnly(d)

LEMMA ProxyTypesNew ==
  ASSUME NEW d, NEW in, NEW t, NewDoc(d, in, t)
  PROVE  LET e == fixProxyTypes(d).docs[1] IN
         /\ NewDoc(e, in, t) /\ e.kind = d.kind
         /\ proxyTypes(e) = {} \/ gatewayOnly(e)
         /\ HasPanic(e) => HasPanic(d)
<1> DEFINE s == [d EXCEPT !.targetRef[1].proxyTypes = {}]
           r == fixProxyTypes(d)
<1>0. IsDoc(d) /\ ProperPolicy(d) /\ ProperTop(d.targetRef)
      /\ (NamedDefault(d) => TopRef(d).kind # "MeshServiceSubset")
  BY ProperPolicyMeans DEF NewDoc, IsNew
<1>1. \/ (proxyTypes(d) = {} \/ gatewayOnly(d)) /\ \E ws : r = Result(<<d>>, ws)
      \/ proxyTypes(d) # {} /\ \E ws : r = Result(<<s>>, ws)
  BY Zenon DEF fixProxyTypes
<1>2. ASSUME proxyTypes(d) # {}
      PROVE  /\ NewDoc(s, in, t) /\ s.kind = d.kind /\ proxyTypes(s) = {}
             /\ HasPanic(s) => HasPanic(d)
  <2> DEFINE ref == d.targetRef[1]
             new == [ref EXCEPT !.proxyTypes = {}]
  <2>1. d.targetRef = <<ref>> /\ ProperRef(ref) /\ d.targetRef # <<>>
    BY <1>0, <1>2 DEF ProperTop, proxyTypes
  <2>2. s = [d EXCEPT !.targetRef = <<new>>]
    <3>1. [d.targetRef EXCEPT ![1] = new] = <<new>>
      <4> DEFINE x == [d.targetRef EXCEPT ![1] = new]
      <4>1. DOMAIN x = {1} /\ x = [i \in DOMAIN x |-> x[i]] /\ x[1] = new
        BY <2>1, SeqOfOne
      <4> HIDE DEF x
      <4>2. x = <<x[1]>>
        BY <4>1, OneOfOne, Zenon
      <4> QED
        BY <4>1, <4>2 DEF x
    <3>2. s = [d EXCEPT !.targetRef = [d.targetRef EXCEPT ![1] = new]]
      BY <1>0 DEF IsDoc, PolicyFields
    <3> QED
      BY <3>1, <3>2, Zenon
  <2> HIDE DEF s, ref
  <2>3. /\ DOMAIN new = RefFields /\ new = [f \in RefFields |-> new[f]] /\ new.proxyTypes = {}
        /\ new.kind = ref.kind /\ new.tags = ref.tags /\ new.name = ref.name
        /\ new.namespace = ref.namespace
    BY <2>1, ProperRefMeans DEF RefFields
  <2> HIDE DEF new
  <2>4. ProperRef(new)
    BY <2>1, <2>3, ProperRefMeans DEF ByName, IsSubset
  <2>5. IsDoc(s) /\ s.targetRef = <<new>> /\ \A f \in PolicyFields \ {"targetRef"} : s[f] = d[f]
    BY <1>0, <2>2 DEF IsDoc, PolicyFields
  <2>6. /\ s.kind = d.kind /\ s.name = d.name /\ s.to = d.to /\ s.from = d.from
        /\ s.rules = d.rules /\ s.sources = d.sources /\ s.destinations = d.destinations
    BY <2>5 DEF PolicyFields
  <2>7. ProperTop(s.targetRef) /\ s.targetRef # <<>> /\ s.targetRef[1] = new
    BY <2>4, <2>5, SeqOfOne DEF ProperTop
  <2>8. TopRef(s).kind = TopRef(d).kind /\ proxyTypes(s) = {}
    BY <2>1, <2>3, <2>7 DEF TopRef, proxyTypes, ref
  <2>9. NamedDefault(s) => NamedDefault(d)
    BY <2>6 DEF NamedDefault
  <2>10. ProperPolicy(s)
    BY <1>0, <2>5, <2>6, <2>7, <2>8, <2>9, ProperPolicyMeans
  <2>11. ~isDefaultGatewayMeshTimeout(s)
    BY <2>8 DEF isDefaultGatewayMeshTimeout, gatewayOnly
  <2>12. NewDoc(s, in, t) /\ (HasPanic(s) => HasPanic(d))
    BY <2>6, <2>10, <2>11 DEF NewDoc, IsNew, Apart, RulesBesideTo, HasPanic, FaultsBothWays
  <2> QED
    BY <2>6, <2>8, <2>12
<1> HIDE DEF s, r
<1>3. CASE proxyTypes(d) # {} /\ \E ws : r = Result(<<s>>, ws)
  <2>1. r.docs[1] = s
    BY <1>3, OneOfResult, Zenon
  <2> QED
    BY <1>2, <1>3, <2>1 DEF r
<1>4. CASE (proxyTypes(d) = {} \/ gatewayOnly(d)) /\ \E ws : r = Result(<<d>>, ws)
  <2>1. r.docs[1] = d
    BY <1>4, OneOfResult, Zenon
  <2> QED
    BY <1>4, <2>1 DEF r
<1> QED
  BY <1>1, <1>3, <1>4

LEMMA FromFaultsNew ==
  ASSUME NEW d, NEW in, NewDoc(d, in, "v3")
  PROVE  LET e == fixMeshFaultInjectionFrom(d) IN
         /\ NewDoc(e, in, "v3") /\ e.kind = d.kind
         /\ HasPanic(e) => HasPanic(d)
<1> DEFINE rules == d.rules \o [i \in DOMAIN d.from |-> d.from[i].conf]
           s     == [d EXCEPT !.from = <<>>, !.rules = rules]
           e     == fixMeshFaultInjectionFrom(d)
<1>0. IsDoc(d) /\ ProperPolicy(d) /\ IsSeq(d.rules) /\ IsSeq(d.from)
  BY ProperPolicyMeans, EntriesMeans DEF NewDoc, IsNew
<1>1. e = d \/ (d.kind = "MeshFaultInjection" /\ e = s)
  <2>1. s = [d EXCEPT !.from = <<>>,
                      !.rules = @ \o [i \in DOMAIN d.from |-> d.from[i].conf]]
    BY <1>0 DEF IsDoc, PolicyFields
  <2> HIDE DEF s
  <2> QED
    BY <2>1, Zenon DEF fixMeshFaultInjectionFrom
<1>2. IsSeq(rules) /\ (rules # <<>> => d.rules # <<>> \/ d.from # <<>>)
  <2> DEFINE more == [i \in DOMAIN d.from |-> d.from[i].conf]
  <2>1. DOMAIN more = DOMAIN d.from /\ more = [i \in DOMAIN more |-> more[i]]
    OBVIOUS
  <2> HIDE DEF more
  <2>2. IsSeq(more)
    BY <1>0, <2>1, SeqOfDomain, Zenon
  <2>3. IsSeq(d.rules \o more) /\ (more = <<>> => d.rules \o more = d.rules)
    BY <1>0, <2>2, ConcatSeq
  <2>4. d.from = <<>> => more = <<>>
    BY <2>1, NoDomain, NoneOfNone, Zenon
  <2> QED
    BY <2>3, <2>4 DEF more
<1> HIDE DEF rules
<1>3. ASSUME d.kind = "MeshFaultInjection"
      PROVE  NewDoc(s, in, "v3") /\ s.kind = d.kind /\ (HasPanic(s) => HasPanic(d))
  <2>1. s = [d EXCEPT !.from = <<>>, !.rules = rules]
    OBVIOUS
  <2> HIDE DEF s
  <2>2. /\ IsDoc(s) /\ s.from = <<>> /\ s.rules = rules
        /\ \A f \in PolicyFields \ {"from", "rules"} : s[f] = d[f]
    BY <1>0, <2>1 DEF IsDoc, PolicyFields
  <2>3. /\ s.kind = d.kind /\ s.name = d.name /\ s.targetRef = d.targetRef /\ s.to = d.to
        /\ s.sources = d.sources /\ s.destinations = d.destinations
    BY <2>2 DEF PolicyFields
  <2>4. ProperPolicy(s)
    BY <1>0, <1>2, <2>2, <2>3, ProperPolicyMeans, NoEntries, SameNamedDefault
  <2>5. isDefaultGatewayMeshTimeout(s) => isDefaultGatewayMeshTimeout(in)
    BY <2>3, SameDefault DEF NewDoc
  <2> QED
    BY <1>2, <1>3, <2>2, <2>3, <2>4, <2>5
      DEF NewDoc, IsNew, Apart, RulesBesideTo, HasPanic, FaultsBothWays
<1> HIDE DEF s, e
<1> QED
  BY <1>1, <1>3 DEF e

LEMMA StripNew ==
  ASSUME NEW d, NEW in, NEW t, NewDoc(d, in, t), proxyTypes(d) = {} \/ gatewayOnly(d)
  PROVE  LET e == stripControlPlaneLabels(d) IN
         /\ NewDoc(e, in, t) /\ Clean(e)
         /\ HasPanic(e) => HasPanic(d)
<1> DEFINE e == stripControlPlaneLabels(d)
           labels == Only(d.labels, DOMAIN d.labels \ controlPlaneOwnedLabels)
<1>0. IsDoc(d)
  BY ProperPolicyMeans DEF NewDoc, IsNew
<1>1. /\ labels = [k \in DOMAIN labels |-> labels[k]]
      /\ DOMAIN labels \intersect controlPlaneOwnedLabels = {}
  BY DEF Only
<1>2. e = [d EXCEPT !.labels = labels]
  BY <1>0 DEF stripControlPlaneLabels, IsDoc, PolicyFields
<1> HIDE DEF e, labels
<1>3. IsDoc(e) /\ e.labels = labels /\ \A f \in PolicyFields \ {"labels"} : e[f] = d[f]
  BY <1>0, <1>2 DEF IsDoc, PolicyFields
<1>4. /\ e.kind = d.kind /\ e.name = d.name /\ e.targetRef = d.targetRef /\ e.to = d.to
      /\ e.from = d.from /\ e.rules = d.rules /\ e.sources = d.sources
      /\ e.destinations = d.destinations
  BY <1>3 DEF PolicyFields
<1>5. NewDoc(e, in, t)
  BY <1>3, <1>4, NewDocSame
<1>6. Clean(e)
  BY <1>1, <1>3, <1>4 DEF Clean, proxyTypes, gatewayOnly, effective, TopRef
<1>7. HasPanic(e) => HasPanic(d)
  BY <1>4 DEF HasPanic
<1> QED
  BY <1>5, <1>6, <1>7 DEF e

\* What the scan leaves of a document on 3.0.
LEMMA ScanNew ==
  ASSUME NEW d, NEW in, NewDoc(d, in, "v3")
  PROVE  LET e == Scan(d, "v3").docs[1] IN
         NewDoc(e, in, "v3") /\ Clean(e) /\ (HasPanic(e) => HasPanic(d))
<1> DEFINE k == fixOfKind(d).docs[1]
           a == fixProxyTypes(k).docs[1]
           b == fixTargetRefs(a).docs[1]
           e == stripControlPlaneLabels(b)
<1>1. IsMeshPolicy(d)
  BY KindsMean DEF NewDoc, IsNew
<1>2. \E ws : Scan(d, "v3") = Result(<<e>>, ws)
  BY <1>1, Zenon DEF Scan
<1>3. NewDoc(k, in, "v3") /\ k.kind = d.kind /\ (HasPanic(k) => HasPanic(d))
  <2>1. CASE d.kind = "MeshOPA"
    <3>1. fixOfKind(d) = fixMeshOPA(d)
      BY <2>1, Zenon DEF fixOfKind
    <3>2. /\ NewDoc(fixMeshOPA(d).docs[1], in, "v3")
          /\ fixMeshOPA(d).docs[1].kind = "MeshOPA"
      BY <2>1, FixMeshOPANew
    <3>3. \A x : x.kind = "MeshOPA" => ~HasPanic(x)
      BY DEF HasPanic
    <3> QED
      BY <2>1, <3>1, <3>2, <3>3
  <2>2. CASE d.kind # "MeshOPA"
    <3>1. fixOfKind(d) = Result(<<fixMeshFaultInjectionFrom(d)>>, {})
      BY <2>2, Zenon DEF fixOfKind
    <3>2. k = fixMeshFaultInjectionFrom(d)
      BY <3>1, OneOfResult, Zenon
    <3> HIDE DEF k
    <3> QED
      BY <3>2, FromFaultsNew
  <2> QED
    BY <2>1, <2>2
<1> HIDE DEF k
<1>4. /\ NewDoc(a, in, "v3") /\ a.kind = k.kind
      /\ proxyTypes(a) = {} \/ gatewayOnly(a)
      /\ HasPanic(a) => HasPanic(k)
  BY <1>3, ProxyTypesNew
<1> HIDE DEF a
<1>5. /\ NewDoc(b, in, "v3")
      /\ proxyTypes(b) = {} \/ gatewayOnly(b)
      /\ HasPanic(b) => HasPanic(a)
  <2>1. CASE a.kind = "MeshOPA"
    <3>1. fixTargetRefs(a) = Result(<<a>>, {})
      BY <2>1, Zenon DEF fixTargetRefs
    <3>2. b = a
      BY <3>1, OneOfResult, Zenon
    <3> HIDE DEF b
    <3> QED
      BY <1>4, <3>2
  <2>2. CASE a.kind # "MeshOPA"
    <3>1. b = fixRealResourceTargetRefs(a).docs[1]
      BY <2>2 DEF fixTargetRefs
    <3> HIDE DEF b
    <3> QED
      BY <1>4, <3>1, RealNew
  <2> QED
    BY <2>1, <2>2
<1> HIDE DEF b
<1>6. NewDoc(e, in, "v3") /\ Clean(e) /\ (HasPanic(e) => HasPanic(b))
  BY <1>5, StripNew
<1> HIDE DEF e
<1>7. Scan(d, "v3").docs[1] = e
  BY <1>2, OneOfResult, Zenon
<1> QED
  BY <1>3, <1>4, <1>5, <1>6, <1>7

-----------------------------------------------------------------------------
(***************************************************************************)
(* The pipeline: what holds between its stages.                            *)
(***************************************************************************)

\* Nothing is there before the conversion, and nothing is scanned before the split.
Progress ==
  /\ pc = "convert" => docs = <<>>
  /\ pc \in {"convert", "place", "panic"} => at = 1

\* The input is one the transform is meant for, and the results are new ones of it.
FromInput == ProperInput(input, target) /\ AllNew(docs, input, target)

\* On 3.0 the split leaves no threshold, and the scan no field of 2.x behind it.
Scanned ==
  target = "v3" =>
    /\ pc \in {"scan", "done"} => \A i \in DOMAIN docs : ~HasPanic(docs[i])
    /\ \A i \in DOMAIN docs : i < at => Clean(docs[i])

\* What is not refused on 3.0 was scanned and is accepted.
Judged ==
  outcome = "ok" /\ target = "v3" =>
    /\ at = Len(docs) + 1 /\ ~isDefaultGatewayMeshTimeout(input)
    /\ \A i \in DOMAIN docs : Accepted(docs[i])

Staged == TypeOK /\ Progress /\ FromInput /\ Scanned /\ Judged

LEMMA FieldsOfDocs ==
  ASSUME NEW in, NEW ds, NEW t, ProperInput(in, t), AllNew(ds, in, t)
  PROVE  \A d \in Range(ds) : DOMAIN d = DOMAIN in
<1>1. DOMAIN in = PolicyFields
  BY ProperPolicyMeans DEF ProperInput, IsDoc
<1>2. \A i \in DOMAIN ds : DOMAIN ds[i] = PolicyFields
  <2> SUFFICES ASSUME NEW i \in DOMAIN ds
               PROVE  DOMAIN ds[i] = PolicyFields
    OBVIOUS
  <2>1. ProperPolicy(ds[i])
    BY DEF AllNew, NewDoc, IsNew
  <2> QED
    BY <2>1, ProperPolicyMeans DEF IsDoc
<1> QED
  BY <1>1, <1>2 DEF Range

LEMMA LengthOfDocs ==
  ASSUME NEW ds, NEW in, NEW t, AllNew(ds, in, t)
  PROVE  Len(ds) \in Nat /\ DOMAIN ds = 1..Len(ds)
BY SeqMeans DEF AllNew

LEMMA ReadInput ==
  ASSUME NEW in \in Inputs, NEW t
  PROVE  ProperInput(in, t)
BY InputAssumption DEF ProperInput, Apart

LEMMA InitStaged == Init => Staged
<1> SUFFICES ASSUME Init
             PROVE  Staged
  OBVIOUS
<1>1. ProperInput(input, target)
  BY ReadInput DEF Init
<1>2. AllNew(docs, input, target)
  BY NothingNew DEF Init
<1>3. FromInput
  BY <1>1, <1>2 DEF FromInput
<1>4. TypeOK
  <2>1. \A d \in Range(docs) : DOMAIN d = DOMAIN input
    BY <1>1, <1>2, FieldsOfDocs
  <2>2. Len(docs) = 0
    BY SeqOfNone DEF Init
  <2> QED
    BY <2>1, <2>2, PoliciesAssumption DEF Init, TypeOK
<1>5. Progress /\ Judged
  BY DEF Init, Progress, Judged
<1>6. Scanned
  BY NoDomain DEF Init, Scanned
<1> QED
  BY <1>3, <1>4, <1>5, <1>6 DEF Staged

LEMMA ConvertStaged ==
  ASSUME Staged, Convert
  PROVE  Staged'
<1>1. /\ pc = "convert" /\ pc' \in {"done", "place"} /\ docs = <<>> /\ at = 1
      /\ UNCHANGED <<input, target, last, at, round>>
  BY DEF Staged, Progress, Convert
<1>2. AllNew(docs', input, target)
  <2>1. PICK r \in {Conversion(input)} :
          IF r.err THEN UNCHANGED docs ELSE docs' = r.docs
    BY DEF Convert
  <2>2. AllNew(Conversion(input).docs, input, target)
    BY ConversionNew DEF Staged, TypeOK, FromInput
  <2> QED
    BY <1>1, <2>1, <2>2, NothingNew
<1>3. FromInput'
  BY <1>1, <1>2 DEF Staged, FromInput
<1>4. outcome' = IF pc' = "done" THEN "error" ELSE "none"
  BY DEF Staged, TypeOK, Convert
<1>5. TypeOK'
  <2>1. \A d \in Range(docs') : DOMAIN d = DOMAIN input
    BY <1>2, FieldsOfDocs DEF Staged, FromInput
  <2>2. Len(docs') \in Nat
    BY <1>2, LengthOfDocs
  <2> QED
    BY <1>1, <1>4, <2>1, <2>2 DEF Staged, TypeOK
<1>6. Progress' /\ Judged'
  BY <1>1, <1>4 DEF Progress, Judged
<1>7. Scanned'
  <2>1. \A i \in DOMAIN docs' : ~(i < at')
    BY <1>1, <1>2, LengthOfDocs
  <2>2. pc' = "done" => docs' = <<>>
    BY <1>1 DEF Convert
  <2> QED
    BY <1>1, <2>1, <2>2, NoDomain DEF Scanned
<1> QED
  BY <1>3, <1>5, <1>6, <1>7 DEF Staged

LEMMA PlaceStaged ==
  ASSUME Staged, Place
  PROVE  Staged'
<1>1. /\ pc = "place" /\ pc' = "panic" /\ at = 1 /\ outcome = "none"
      /\ UNCHANGED <<input, target, last, at, outcome, round>>
  BY DEF Staged, TypeOK, Progress, Place
<1>2. AllNew(docs', input, target)
  <2>1. docs' = docs \/ docs' = [i \in DOMAIN docs |-> Placed(docs[i])]
    BY DEF Place
  <2>2. AllNew(docs, input, target)
    BY DEF Staged, FromInput
  <2> QED
    BY <2>1, <2>2, EachPlacedNew
<1>3. FromInput'
  BY <1>1, <1>2 DEF Staged, FromInput
<1>5. TypeOK'
  <2>1. \A d \in Range(docs') : DOMAIN d = DOMAIN input
    BY <1>2, FieldsOfDocs DEF Staged, FromInput
  <2>2. Len(docs') \in Nat
    BY <1>2, LengthOfDocs
  <2> QED
    BY <1>1, <2>1, <2>2 DEF Staged, TypeOK
<1>6. Progress' /\ Judged'
  BY <1>1 DEF Progress, Judged
<1>7. Scanned'
  <2>1. \A i \in DOMAIN docs' : ~(i < at')
    BY <1>1, <1>2, LengthOfDocs
  <2> QED
    BY <1>1, <2>1 DEF Scanned
<1> QED
  BY <1>3, <1>5, <1>6, <1>7 DEF Staged

LEMMA SplitStaged ==
  ASSUME Staged, SplitPanicThreshold
  PROVE  Staged'
<1>1. /\ pc = "panic" /\ pc' = "scan" /\ at = 1 /\ outcome = "none"
      /\ UNCHANGED <<input, target, last, at, outcome, round>>
  BY DEF Staged, TypeOK, Progress, SplitPanicThreshold
<1>2. /\ AllNew(docs', input, target)
      /\ target = "v3" => \A i \in DOMAIN docs' : ~HasPanic(docs'[i])
  <2> DEFINE r == SplitPanic(docs)
  <2>1. AllNew(docs, input, target)
    BY DEF Staged, FromInput
  <2>2. AllNew(r.docs, input, target) /\ \A i \in DOMAIN r.docs : ~HasPanic(r.docs[i])
    BY <2>1, SplitPanicMeans
  <2>3. docs' = IF target = "v3" THEN r.docs ELSE Result(docs, {}).docs
    BY DEF SplitPanicThreshold
  <2>4. Result(docs, {}).docs = docs
    BY ResultMeans
  <2> HIDE DEF r
  <2> QED
    BY <2>1, <2>2, <2>3, <2>4
<1>3. FromInput'
  BY <1>1, <1>2 DEF Staged, FromInput
<1>5. TypeOK'
  <2>1. \A d \in Range(docs') : DOMAIN d = DOMAIN input
    BY <1>2, FieldsOfDocs DEF Staged, FromInput
  <2>2. Len(docs') \in Nat
    BY <1>2, LengthOfDocs
  <2> QED
    BY <1>1, <2>1, <2>2 DEF Staged, TypeOK
<1>6. Progress' /\ Judged'
  BY <1>1 DEF Progress, Judged
<1>7. Scanned'
  <2>1. \A i \in DOMAIN docs' : ~(i < at')
    BY <1>1, <1>2, LengthOfDocs
  <2> QED
    BY <1>1, <1>2, <2>1 DEF Scanned
<1> QED
  BY <1>3, <1>5, <1>6, <1>7 DEF Staged

LEMMA ScanStays ==
  ASSUME NEW d
  PROVE  Scan(d, "v2").docs[1] = d
<1>1. Scan(d, "v2") = Result(<<d>>, {})
  BY DEF Scan
<1> QED
  BY <1>1, OneOfResult, Zenon

\* The scan of a document, of either target.
LEMMA ScanOfTarget ==
  ASSUME NEW d, NEW in, NEW t \in {"v2", "v3"}, NewDoc(d, in, t)
  PROVE  LET e == Scan(d, t).docs[1] IN
         NewDoc(e, in, t) /\ (HasPanic(e) => HasPanic(d)) /\ (t = "v3" => Clean(e))
<1>1. CASE t = "v3"
  BY <1>1, ScanNew
<1>2. CASE t = "v2"
  BY <1>2, ScanStays
<1> QED
  BY <1>1, <1>2

LEMMA ScanStaged ==
  ASSUME Staged, ScanNext
  PROVE  Staged'
<1> DEFINE e == Scan(docs[at], target).docs[1]
<1>1. /\ pc = "scan" /\ pc' = pc /\ outcome = "none" /\ at <= Len(docs) /\ at' = at + 1
      /\ docs' = [docs EXCEPT ![at] = e]
      /\ UNCHANGED <<input, target, last, outcome, round>>
  BY DEF Staged, TypeOK, ScanNext
<1>2. AllNew(docs, input, target) /\ Len(docs) \in Nat /\ DOMAIN docs = 1..Len(docs)
  BY LengthOfDocs DEF Staged, FromInput
<1>3. at \in DOMAIN docs /\ at \in Nat
  BY <1>1, <1>2 DEF Staged, TypeOK
<1>4. NewDoc(e, input, target) /\ (HasPanic(e) => HasPanic(docs[at]))
      /\ (target = "v3" => Clean(e))
  BY <1>2, <1>3, ScanOfTarget, PoliciesAssumption DEF Staged, TypeOK, AllNew
<1> HIDE DEF e
<1>5. /\ DOMAIN docs' = DOMAIN docs /\ docs' = [i \in DOMAIN docs' |-> docs'[i]]
      /\ docs'[at] = e /\ \A i \in DOMAIN docs : i # at => docs'[i] = docs[i]
  BY <1>1, <1>2, <1>3
<1>6. IsSeq(docs') /\ Len(docs') = Len(docs)
  BY <1>2, <1>5, SeqOfDomain DEF AllNew
<1>7. AllNew(docs', input, target)
  BY <1>2, <1>4, <1>5, <1>6 DEF AllNew
<1>8. FromInput'
  BY <1>1, <1>7 DEF Staged, FromInput
<1>9. TypeOK'
  <2>1. \A d \in Range(docs') : DOMAIN d = DOMAIN input
    BY <1>7, FieldsOfDocs DEF Staged, FromInput
  <2>2. at' \in 1..(Len(docs') + 1)
    BY <1>1, <1>2, <1>3, <1>6
  <2> QED
    BY <1>1, <2>1, <2>2 DEF Staged, TypeOK
<1>10. Progress' /\ Judged'
  BY <1>1 DEF Progress, Judged
<1>11. Scanned'
  <2> SUFFICES ASSUME target = "v3", NEW i \in DOMAIN docs
               PROVE  ~HasPanic(docs'[i]) /\ (i < at + 1 => Clean(docs'[i]))
    BY <1>1, <1>5 DEF Scanned
  <2>1. ~HasPanic(docs[i]) /\ ~HasPanic(docs[at]) /\ (i < at => Clean(docs[i]))
    BY <1>1, <1>3 DEF Staged, Scanned
  <2>2. CASE i = at
    BY <1>4, <1>5, <2>1, <2>2
  <2>3. CASE i # at
    <3>1. i < at + 1 => i < at
      BY <1>2, <1>3, <2>3
    <3> QED
      BY <1>5, <2>1, <2>3, <3>1
  <2> QED
    BY <2>2, <2>3
<1> QED
  BY <1>8, <1>9, <1>10, <1>11 DEF Staged

LEMMA JudgeStaged ==
  ASSUME Staged, Judge
  PROVE  Staged'
<1>1. /\ pc = "scan" /\ pc' = "done" /\ at > Len(docs)
      /\ UNCHANGED <<input, target, last, docs, at, round>>
      /\ outcome' \in {"delete", "rejected", "ok"}
  BY DEF Judge
<1>2. Len(docs) \in Nat /\ at = Len(docs) + 1
  BY <1>1, LengthOfDocs DEF Staged, TypeOK, FromInput
<1>3. outcome' = "ok" /\ target = "v3" =>
        ~isDefaultGatewayMeshTimeout(input) /\ \A i \in DOMAIN docs : Accepted(docs[i])
  BY DEF Judge
<1>4. FromInput' /\ Progress'
  BY <1>1 DEF Staged, FromInput, Progress
<1>5. TypeOK'
  BY <1>1 DEF Staged, TypeOK
<1>6. Scanned'
  BY <1>1 DEF Staged, Scanned
<1>7. Judged'
  BY <1>1, <1>2, <1>3 DEF Judged
<1> QED
  BY <1>4, <1>5, <1>6, <1>7 DEF Staged

\* A result is an input the transform is meant for.
LEMMA ResultIsInput ==
  ASSUME NEW d, NEW in, NEW t, NewDoc(d, in, t)
  PROVE  ProperInput(d, t)
BY DEF NewDoc, IsNew, ProperInput

LEMMA AgainStaged ==
  ASSUME Staged, Again
  PROVE  Staged'
<1>1. /\ pc = "done" /\ round < MaxRounds /\ docs' = <<>> /\ at' = 1 /\ pc' = "convert"
      /\ outcome' = "none" /\ round' = round + 1 /\ UNCHANGED <<target, last>>
  BY DEF Again
<1>2. PICK i \in DOMAIN docs : input' = docs[i]
  BY DEF Again
<1>3. ProperInput(input', target)
  BY <1>2, ResultIsInput DEF Staged, FromInput, AllNew
<1>4. AllNew(docs', input', target)
  BY <1>1, NothingNew
<1>5. FromInput'
  BY <1>1, <1>3, <1>4 DEF FromInput
<1>6. TypeOK'
  <2>1. \A d \in Range(docs') : DOMAIN d = DOMAIN input'
    BY <1>3, <1>4, FieldsOfDocs
  <2>2. Len(docs') = 0
    BY <1>1, SeqOfNone
  <2>3. round' \in 0..MaxRounds
    BY <1>1, PoliciesAssumption DEF Staged, TypeOK
  <2> QED
    BY <1>1, <2>1, <2>2, <2>3 DEF Staged, TypeOK
<1>7. Progress' /\ Judged'
  BY <1>1 DEF Progress, Judged
<1>8. Scanned'
  BY <1>1, NoDomain DEF Scanned
<1> QED
  BY <1>5, <1>6, <1>7, <1>8 DEF Staged

LEMMA StutterStaged ==
  ASSUME Staged, UNCHANGED vars
  PROVE  Staged'
BY DEF Staged, vars, TypeOK, Progress, FromInput, Scanned, Judged

LEMMA NextStaged ==
  ASSUME Staged, [Next]_vars
  PROVE  Staged'
BY ConvertStaged, PlaceStaged, SplitStaged, ScanStaged, JudgeStaged, AgainStaged,
   StutterStaged
   DEF Next, Finished

\* What holds between the stages, for all policies and any number of runs.
THEOREM AlwaysStaged == Spec => []Staged
<1>1. Init => Staged
  BY InitStaged
<1>2. Staged /\ [Next]_vars => Staged'
  BY NextStaged
<1> QED
  BY <1>1, <1>2, PTL DEF Spec

\* Where a run is, and what it has: the pipeline of transform.go.
THEOREM TypeCorrect == Spec => []TypeOK
<1>1. Staged => TypeOK
  BY DEF Staged
<1> QED
  BY <1>1, AlwaysStaged, PTL

\* No destination 3.0 takes is one by tags.
LEMMA NoSubsetKinds ==
  \A k \in DOMAIN v3ToTargetRefKinds, kind \in {"MeshSubset", "MeshServiceSubset"} :
    kind \notin v3ToTargetRefKinds[k]
BY DEF v3ToTargetRefKinds, RealDestinations

\* A reference that is selected as 3.0 does.
Selects3(ref) == DOMAIN ref.tags = {} /\ ref.proxyTypes = {} /\ ~ByName(ref)

LEMMA SelectsByLabels ==
  ASSUME NEW ref, ProperRef(ref), ref.proxyTypes = {}, ~IsSubset(ref),
         ref.kind \in labelSelectedKinds \union {"Dataplane"} => ~ByName(ref)
  PROVE  Selects3(ref)
<1>1. ref.tags = <<>>
  BY DEF ProperRef
<1>2. ~ByName(ref)
  BY DEF ProperRef
<1> QED
  BY <1>1, <1>2, NoDomain DEF Selects3

\* What 3.0 accepts of the results selects as 3.0 does.
LEMMA AcceptedSelects ==
  ASSUME NEW d, IsNew(d), Accepted(d), proxyTypes(d) = {}
  PROVE  \A ref \in EntryRefs(d.to) \union {TopRef(d)} : Selects3(ref)
<1>1. IsMeshPolicy(d) /\ d.kind \in Policy2Kinds
  BY KindsMean DEF IsNew
<1>2. /\ TopRef(d).kind \in {"Mesh", "Dataplane"} /\ AcceptsTo(d)
      /\ \A ref \in EntryRefs(d.to) \union {TopRef(d)} :
           ref.kind \in labelSelectedKinds \union {"Dataplane"} => ~ByName(ref)
  BY <1>1 DEF Accepted
<1>3. ProperTop(d.targetRef) /\ ProperEntries(d.to) /\ (d.kind = "MeshOPA" => d.to = <<>>)
  BY ProperPolicyMeans DEF IsNew
<1>4. Selects3(TopRef(d))
  <2>1. ProperRef(TopRef(d))
    BY <1>3, ProperTopMeans
  <2>2. TopRef(d).proxyTypes = {}
    BY ProperTopMeans, ProperMeshRef DEF proxyTypes
  <2>3. ~IsSubset(TopRef(d))
    BY <1>2 DEF IsSubset
  <2> QED
    BY <1>2, <2>1, <2>2, <2>3, SelectsByLabels
<1>5. ASSUME NEW i \in DOMAIN d.to
      PROVE  Selects3(d.to[i].ref)
  <2>1. ProperRef(d.to[i].ref) /\ d.to[i].ref.proxyTypes = {}
    BY <1>3, EntriesMeans DEF ProperEntry
  <2>2. d.to # <<>>
    BY NoDomain
  <2>3. d.kind \in DOMAIN v3ToTargetRefKinds
    BY <1>1, <1>3, <2>2 DEF Policy2Kinds
  <2>4. d.to[i].ref \in EntryRefs(d.to)
    BY DEF EntryRefs
  <2>5. d.to[i].ref.kind \in v3ToTargetRefKinds[d.kind]
    BY <1>2, <2>2, <2>4 DEF AcceptsTo
  <2>6. ~IsSubset(d.to[i].ref)
    BY <2>3, <2>5, NoSubsetKinds DEF IsSubset
  <2> QED
    BY <1>2, <2>1, <2>4, <2>6, SelectsByLabels
<1> QED
  BY <1>4, <1>5 DEF EntryRefs

LEMMA AcceptedValid ==
  ASSUME NEW d, NEW in, NewDoc(d, in, "v3"), Clean(d), Accepted(d), ~HasPanic(d),
         ~isDefaultGatewayMeshTimeout(in)
  PROVE  Valid(d, "v3")
<1>1. IsNew(d) /\ IsMeshPolicy(d)
  BY KindsMean DEF NewDoc, IsNew
<1>2. ~gatewayOnly(d)
  BY <1>1 DEF Accepted, NewDoc
<1>3. proxyTypes(d) = {}
  BY <1>2 DEF Clean
<1>4. d.from = <<>>
  BY <1>1 DEF Accepted, IsNew
<1>5. \A ref \in EntryRefs(d.to) \union {TopRef(d)} : Selects3(ref)
  BY <1>1, <1>3, AcceptedSelects
<1> QED
  BY <1>4, <1>5 DEF Valid, Selects3, Clean

LEMMA StagedValid == Staged => ResultsAreValid
<1> SUFFICES ASSUME Staged, Converged, NEW i \in DOMAIN docs
             PROVE  /\ Valid(docs[i], target)
                    /\ docs[i].rules # <<>> /\ docs[i].to # <<>>
                         => target = "v3" /\ FaultsBothWays(input)
  BY DEF ResultsAreValid, Range
<1>1. NewDoc(docs[i], input, target) /\ target \in {"v2", "v3"}
  BY PoliciesAssumption DEF Staged, FromInput, AllNew, TypeOK
<1>2. docs[i].rules # <<>> /\ docs[i].to # <<>> => target = "v3" /\ FaultsBothWays(input)
  BY <1>1 DEF NewDoc, Apart, RulesBesideTo, FaultsBothWays
<1>3. CASE target = "v3"
  <2>1. Accepted(docs[i]) /\ ~isDefaultGatewayMeshTimeout(input) /\ at = Len(docs) + 1
    BY <1>3 DEF Staged, Judged, Converged
  <2>2. i < at
    BY <2>1, LengthOfDocs DEF Staged, FromInput
  <2>3. Clean(docs[i]) /\ ~HasPanic(docs[i])
    BY <1>3, <2>2 DEF Staged, Scanned, Converged
  <2> QED
    BY <1>1, <1>2, <1>3, <2>1, <2>3, AcceptedValid
<1>4. CASE target = "v2"
  BY <1>2, <1>4 DEF Valid
<1> QED
  BY <1>1, <1>3, <1>4

\* What reaches the apply tree is valid for the target: on 3.0 no selector by tags
\* or by a name, no filter of proxies, no from[], no threshold in a MeshHealthCheck
\* and no label of the control plane (rejected.go and the rewrites before it).  It
\* has rules[] beside to[], which Kuma refuses, only where a MeshFaultInjection with
\* faults for both directions was migrated to 3.0.
THEOREM AlwaysValid == Spec => []ResultsAreValid
BY StagedValid, AlwaysStaged, PTL

-----------------------------------------------------------------------------
(***************************************************************************)
(* On 3.0, a result that is accepted is copied by the next run.            *)
(***************************************************************************)

\* A result 3.0 accepts, which no pass for 3.0 changes.
Ready(d) ==
  /\ IsNew(d) /\ Clean(d) /\ ~HasPanic(d) /\ Accepted(d)
  /\ ~isDefaultGatewayMeshTimeout(d)

LEMMA SameFunction ==
  ASSUME NEW s, NEW r, s = [i \in DOMAIN s |-> s[i]], r = [i \in DOMAIN r |-> r[i]],
         DOMAIN r = DOMAIN s, \A i \in DOMAIN s : r[i] = s[i]
  PROVE  r = s
OBVIOUS

\* What a document is, where it is told by its references.
LEMMA ReadyMeans ==
  ASSUME NEW d, Ready(d)
  PROVE  /\ IsDoc(d) /\ d.kind \in Policy2Kinds /\ d.from = <<>> /\ proxyTypes(d) = {}
         /\ ProperTop(d.targetRef) /\ ProperEntries(d.to)
         /\ TopRef(d).kind \in {"Mesh", "Dataplane"}
         /\ d.sources = <<>> /\ d.destinations = <<>>
         /\ \A ref \in EntryRefs(d.to) \union {TopRef(d)} : Selects3(ref)
<1>1. IsMeshPolicy(d) /\ d.kind \in Policy2Kinds
  BY KindsMean DEF Ready, IsNew
<1>2. ~gatewayOnly(d)
  BY <1>1 DEF Accepted, Ready
<1>3. proxyTypes(d) = {}
  BY <1>2 DEF Clean, Ready
<1>4. d.from = <<>>
  BY <1>1 DEF Accepted, Ready, IsNew
<1>5. \A ref \in EntryRefs(d.to) \union {TopRef(d)} : Selects3(ref)
  BY <1>3, AcceptedSelects DEF Ready
<1>6. /\ IsDoc(d) /\ ProperTop(d.targetRef) /\ ProperEntries(d.to)
      /\ d.sources = <<>> /\ d.destinations = <<>>
  BY <1>1, ProperPolicyMeans, NotLegacyKind DEF Ready, IsNew
<1>7. TopRef(d).kind \in {"Mesh", "Dataplane"}
  BY <1>1 DEF Accepted, Ready
<1> QED
  BY <1>1, <1>3, <1>4, <1>5, <1>6, <1>7

\* A reference 3.0 selects by needs no conversion.
LEMMA NoNeed ==
  ASSUME NEW ref, Selects3(ref)
  PROVE  ~HasServiceTag(ref) /\ ~HasOldName(ref)
<1>1. ref.name = None
  BY DEF Selects3, ByName
<1> QED
  BY <1>1, PlainName DEF Selects3, HasServiceTag, HasOldName

LEMMA PassesThrough ==
  ASSUME NEW d, d.kind \in Policy2Kinds, d.sources = <<>>, d.destinations = <<>>,
         d.from = <<>>, TopRef(d).kind # "MeshSubset",
         \A ref \in EntryRefs(d.to) \union {TopRef(d)} : ~HasServiceTag(ref) /\ ~HasOldName(ref)
  PROVE  DetectScenario(d) = "passthrough"
<1> DEFINE own == {TopRef(d)} \union EntryRefs(d.from)
           needs(ref) == HasServiceTag(ref) \/ HasOldName(ref)
<1>1. d.kind # "OPAPolicy"
  BY KindsMean DEF Policy2Kinds
<1>2. ~IsLegacy(d)
  BY NotLegacyKind DEF IsLegacy
<1>3. EntryRefs(d.from) = {}
  BY NoDomain DEF EntryRefs
<1>4. \A ref \in own \union EntryRefs(d.to) : ~needs(ref)
  BY <1>3
<1> QED
  BY <1>1, <1>2, <1>4 DEF DetectScenario

LEMMA ReadyPasses ==
  ASSUME NEW d, Ready(d)
  PROVE  DetectScenario(d) = "passthrough"
BY ReadyMeans, NoNeed, PassesThrough

LEMMA NothingChosen ==
  ASSUME NEW s, NEW I, I = {}
  PROVE  Chosen(s, I) = <<>>
<1>1. Cardinality(I) = 0
  BY FS_EmptySet
<1> QED
  BY <1>1 DEF Chosen

LEMMA OneSplit ==
  ASSUME NEW d, ~HasPanic(d)
  PROVE  SplitPanic(<<d>>).docs = <<d>>
<1> DEFINE ds == <<d>>
           I == {i \in DOMAIN ds : HasPanic(ds[i])}
           carrying == Chosen(ds, I)
           a == [i \in DOMAIN ds |-> WithoutPanic(ds[i])]
           b == [i \in DOMAIN carrying |-> PanicCompanion(carrying[i])]
<1>1. SplitPanic(ds).docs = a \o b
  BY DEF SplitPanic, Result
<1>2. IsSeq(ds) /\ DOMAIN ds = {1} /\ ds[1] = d
  BY SeqOfOne
<1> HIDE DEF ds
<1>3. I = {}
  BY <1>2
<1> HIDE DEF I
<1>4. carrying = <<>>
  BY <1>3, NothingChosen
<1> HIDE DEF carrying
<1>5. b = <<>>
  BY <1>4, NoneOfNone, NoDomain
<1>6. a = ds
  <2>1. ds = [i \in DOMAIN ds |-> ds[i]]
    BY <1>2, SeqMeans
  <2>2. WithoutPanic(d) = d
    BY DEF WithoutPanic
  <2> QED
    BY <1>2, <2>1, <2>2
<1> HIDE DEF a, b
<1>7. a \o b = a
  BY <1>2, <1>5, <1>6, ConcatSeq, SeqOfNone
<1> QED
  BY <1>1, <1>6, <1>7 DEF ds

\* A record with a field set to what it has.
LEMMA RefSame ==
  ASSUME NEW ref, ProperRef(ref), ref.name = None, ref.namespace = None
  PROVE  /\ [ref EXCEPT !.labels = ref.labels] = ref
         /\ [ref EXCEPT !.labels = ref.labels, !.name = None, !.namespace = None] = ref
BY ProperRefMeans DEF RefFields

LEMMA DocSame ==
  ASSUME NEW d, IsDoc(d)
  PROVE  /\ [d EXCEPT !.targetRef = d.targetRef] = d
         /\ [d EXCEPT !.to = d.to] = d
         /\ [d EXCEPT !.targetRef = d.targetRef, !.to = d.to] = d
         /\ [d EXCEPT !.labels = d.labels] = d
BY DEF IsDoc, PolicyFields

\* Nothing disagrees with no labels.
LEMMA NothingDisagrees ==
  ASSUME NEW f, NEW k
  PROVE  /\ WithIfAny(f, k, None) = f
         /\ Agree(<<>>, f)
BY NoDomain DEF WithIfAny, Agree

LEMMA OPARefStays ==
  ASSUME NEW ref, ProperRef(ref), Selects3(ref), ref.kind \in {"Mesh", "Dataplane"}
  PROVE  fixMeshOPATargetRef(ref).ref = ref
<1> DEFINE subset   == convertMeshOPAMeshSubset(ref)
           key      == MeshOPALabel(subset.ref)
           selector == MeshOPADataplane(subset.ref)
           moves    == Agree(WithIfAny(<<>>, key, ref.name), selector.labels)
           s        == [selector EXCEPT !.labels = IF moves THEN WithIfAny(@, key, ref.name) ELSE @,
                                        !.name = IF moves THEN None ELSE @,
                                        !.namespace = None]
           c        == fixMeshOPATargetRef(ref)
<1>1. \E ws : c = Converted(s, ws)
  BY Zenon DEF fixMeshOPATargetRef
<1>2. subset.ref = ref
  <2>1. subset = Converted(ref, {})
    BY DEF convertMeshOPAMeshSubset
  <2> QED
    BY <2>1, RefOfConverted, Zenon
<1>3. ref.name = None /\ ref.namespace = None
  BY DEF Selects3, ByName
<1>4. selector = ref
  BY <1>2 DEF MeshOPADataplane
<1>5. moves
  BY <1>3, NothingDisagrees
<1>6. s = [ref EXCEPT !.labels = ref.labels, !.name = None, !.namespace = None]
  <2>1. WithIfAny(ref.labels, key, ref.name) = ref.labels
    BY <1>3, NothingDisagrees
  <2> HIDE DEF moves, key
  <2>2. s = [ref EXCEPT !.labels = WithIfAny(ref.labels, key, ref.name), !.name = None,
                        !.namespace = None]
    BY <1>4, <1>5
  <2> QED
    BY <2>1, <2>2
<1> HIDE DEF s
<1>7. c.ref = s
  BY <1>1, RefOfConverted, Zenon
<1> QED
  BY <1>3, <1>6, <1>7, RefSame

\* References at the top that are made of ones that stay.
LEMMA TopSame ==
  ASSUME NEW old, ProperTop(old), NEW refs, DOMAIN refs = DOMAIN old,
         refs = [i \in DOMAIN refs |-> refs[i]], \A i \in DOMAIN old : refs[i] = old[i]
  PROVE  refs = old
<1>1. CASE old = <<>>
  BY <1>1, NoDomain, NoneOfNone
<1>2. CASE old # <<>>
  <2>1. old = <<old[1]>>
    BY <1>2 DEF ProperTop
  <2>2. old = [i \in DOMAIN old |-> old[i]]
    BY <2>1, SeqOfOne, SeqMeans, Zenon
  <2> QED
    BY <2>2, SameFunction
<1> QED
  BY <1>1, <1>2

LEMMA TopMember ==
  ASSUME NEW d, ProperTop(d.targetRef), NEW i \in DOMAIN d.targetRef
  PROVE  d.targetRef[i] = TopRef(d) /\ ProperRef(TopRef(d))
<1>1. d.targetRef # <<>>
  BY NoDomain
<1>2. d.targetRef = <<d.targetRef[1]>> /\ ProperRef(d.targetRef[1])
  BY <1>1 DEF ProperTop
<1>3. DOMAIN <<d.targetRef[1]>> = {1}
  BY SeqOfOne
<1>4. i = 1
  BY <1>2, <1>3
<1> QED
  BY <1>1, <1>2, <1>4 DEF TopRef

LEMMA OPAStays ==
  ASSUME NEW d, Ready(d), d.kind = "MeshOPA"
  PROVE  fixMeshOPA(d).docs[1] = d
<1> DEFINE fixed == [i \in DOMAIN d.targetRef |-> fixMeshOPATargetRef(d.targetRef[i])]
           refs  == RefsOf(fixed)
           e     == [d EXCEPT !.targetRef = refs]
<1>1. fixMeshOPA(d) = Result(<<e>>, Warns(fixed))
  BY Zenon DEF fixMeshOPA
<1>2. /\ DOMAIN refs = DOMAIN d.targetRef /\ refs = [i \in DOMAIN refs |-> refs[i]]
      /\ \A i \in DOMAIN d.targetRef : refs[i] = fixMeshOPATargetRef(d.targetRef[i]).ref
  BY DEF RefsOf
<1>3. ProperTop(d.targetRef) /\ IsDoc(d)
  BY ReadyMeans
<1> HIDE DEF refs, fixed
<1>4. \A i \in DOMAIN d.targetRef : refs[i] = d.targetRef[i]
  BY <1>2, <1>3, TopMember, ReadyMeans, OPARefStays
<1>5. refs = d.targetRef
  BY <1>2, <1>3, <1>4, TopSame
<1>6. e = d
  BY <1>3, <1>5, DocSame
<1> HIDE DEF e
<1>7. fixMeshOPA(d).docs[1] = e
  BY <1>1, OneOfResult, Zenon
<1> QED
  BY <1>6, <1>7

LEMMA PinnedStays ==
  ASSUME NEW d, Clean(d), NEW ref, ProperRef(ref), Selects3(ref)
  PROVE  Pinned(ref, d) = ref
<1>1. TagOrNone(d.labels, Zone) = None
  BY DEF Clean, controlPlaneOwnedLabels, TagOrNone
<1>2. WithIfAny(ref.labels, Zone, TagOrNone(d.labels, Zone)) = ref.labels
  BY <1>1, NothingDisagrees
<1>3. [ref EXCEPT !.labels = ref.labels] = ref
  BY RefSame DEF Selects3, ByName
<1> QED
  BY <1>2, <1>3 DEF Pinned

\* Destinations that are made of ones that stay.
LEMMA ToSame ==
  ASSUME NEW to, ProperEntries(to), NEW es, DOMAIN es = DOMAIN to,
         es = [i \in DOMAIN es |-> es[i]],
         \A i \in DOMAIN to : es[i] = Entry(to[i].ref, to[i].conf)
  PROVE  es = to
<1>1. to = [i \in DOMAIN to |-> to[i]]
  BY EntriesMeans, SeqMeans
<1>2. \A i \in DOMAIN to : es[i] = to[i]
  BY EntriesMeans DEF ProperEntry
<1> QED
  BY <1>1, <1>2, SameFunction

LEMMA ToSelects ==
  ASSUME NEW d, Ready(d), NEW i \in DOMAIN d.to
  PROVE  ProperRef(d.to[i].ref) /\ Selects3(d.to[i].ref)
<1>1. ProperRef(d.to[i].ref)
  BY ReadyMeans, EntriesMeans DEF ProperEntry
<1>2. d.to[i].ref \in EntryRefs(d.to)
  BY DEF EntryRefs
<1> QED
  BY <1>1, <1>2, ReadyMeans

LEMMA ProducerStaysAsItIs ==
  ASSUME NEW d, Ready(d)
  PROVE  pinProducerZone(d).docs[1] = d
<1> DEFINE to == [i \in DOMAIN d.to |-> Entry(Pinned(d.to[i].ref, d), d.to[i].conf)]
           e  == [d EXCEPT !.to = to]
<1>1. (\E ws : pinProducerZone(d) = Result(<<d>>, ws)) \/ \E ws : pinProducerZone(d) = Result(<<e>>, ws)
  BY Zenon DEF pinProducerZone
<1>2. Clean(d) /\ IsDoc(d) /\ ProperEntries(d.to)
  BY ReadyMeans DEF Ready
<1>3. to = d.to
  <2>1. \A i \in DOMAIN d.to : Pinned(d.to[i].ref, d) = d.to[i].ref
    BY <1>2, ToSelects, PinnedStays
  <2>2. /\ DOMAIN to = DOMAIN d.to /\ to = [i \in DOMAIN to |-> to[i]]
        /\ \A i \in DOMAIN d.to : to[i] = Entry(d.to[i].ref, d.to[i].conf)
    BY <2>1
  <2> HIDE DEF to
  <2> QED
    BY <1>2, <2>2, ToSame
<1> HIDE DEF to
<1>4. e = d
  BY <1>2, <1>3, DocSame
<1> HIDE DEF e
<1>5. pinProducerZone(d).docs[1] \in {d, e}
  BY <1>1, OneOfResult, Zenon
<1> QED
  BY <1>4, <1>5

LEMMA RealStays ==
  ASSUME NEW d, Ready(d)
  PROVE  fixRealResourceTargetRefs(d).docs[1] = d
<1> DEFINE fixed(ref) == fixRefToLabels(ref, d.ns, PolicyZone(d))
           refs == [i \in DOMAIN d.targetRef |-> fixed(d.targetRef[i]).ref]
           es   == [i \in DOMAIN d.to |-> Entry(fixed(d.to[i].ref).ref, d.to[i].conf)]
           b    == [d EXCEPT !.targetRef = refs, !.to = es]
           r    == fixRealResourceTargetRefs(d)
<1>0. IsDoc(d) /\ ProperTop(d.targetRef) /\ ProperEntries(d.to)
  BY ReadyMeans
<1>1. r.docs = pinProducerZone(b).docs
  <2>1. b = [d EXCEPT !.targetRef = [i \in DOMAIN @ |-> fixed(@[i]).ref],
                      !.to = [i \in DOMAIN @ |-> Entry(fixed(@[i].ref).ref, @[i].conf)]]
    BY Zenon
  <2> HIDE DEF b
  <2>2. \E ws : r = Result(pinProducerZone(b).docs, ws)
    BY <2>1, Zenon DEF fixRealResourceTargetRefs
  <2> QED
    BY <2>2, DocsOfResult, Zenon
<1>2. ASSUME NEW ref, Selects3(ref)
      PROVE  fixed(ref).ref = ref
  <2>1. fixed(ref) = Converted(ref, {})
    BY <1>2, Zenon DEF fixRefToLabels, Selects3
  <2> QED
    BY <2>1, RefOfConverted, Zenon
<1> HIDE DEF fixed
<1>3. refs = d.targetRef
  <2>1. \A i \in DOMAIN d.targetRef : fixed(d.targetRef[i]).ref = d.targetRef[i]
    BY <1>0, <1>2, TopMember, ReadyMeans
  <2>2. /\ DOMAIN refs = DOMAIN d.targetRef /\ refs = [i \in DOMAIN refs |-> refs[i]]
        /\ \A i \in DOMAIN d.targetRef : refs[i] = d.targetRef[i]
    BY <2>1
  <2> HIDE DEF refs
  <2> QED
    BY <1>0, <2>2, TopSame
<1>4. es = d.to
  <2>1. \A i \in DOMAIN d.to : fixed(d.to[i].ref).ref = d.to[i].ref
    BY <1>2, ToSelects
  <2>2. /\ DOMAIN es = DOMAIN d.to /\ es = [i \in DOMAIN es |-> es[i]]
        /\ \A i \in DOMAIN d.to : es[i] = Entry(d.to[i].ref, d.to[i].conf)
    BY <2>1
  <2> HIDE DEF es
  <2> QED
    BY <1>0, <2>2, ToSame
<1> HIDE DEF refs, es
<1>5. b = d
  BY <1>0, <1>3, <1>4, DocSame
<1> HIDE DEF b
<1> QED
  BY <1>1, <1>5, ProducerStaysAsItIs

LEMMA StripStays ==
  ASSUME NEW d, Ready(d)
  PROVE  stripControlPlaneLabels(d) = d
<1> DEFINE labels == Only(d.labels, DOMAIN d.labels \ controlPlaneOwnedLabels)
<1>1. IsDoc(d) /\ Clean(d)
  BY ReadyMeans DEF Ready
<1>2. labels = d.labels
  BY <1>1 DEF Clean, Only
<1>3. stripControlPlaneLabels(d) = [d EXCEPT !.labels = labels]
  BY <1>1 DEF stripControlPlaneLabels, IsDoc, PolicyFields
<1> HIDE DEF labels
<1> QED
  BY <1>1, <1>2, <1>3, DocSame

LEMMA ScanOfReady ==
  ASSUME NEW d, Ready(d)
  PROVE  Scan(d, "v3").docs[1] = d
<1> DEFINE k == fixOfKind(d).docs[1]
           a == fixProxyTypes(k).docs[1]
           b == fixTargetRefs(a).docs[1]
           e == stripControlPlaneLabels(b)
<1>1. IsMeshPolicy(d) /\ d.from = <<>> /\ proxyTypes(d) = {}
  BY ReadyMeans, KindsMean
<1>2. \E ws : Scan(d, "v3") = Result(<<e>>, ws)
  BY <1>1, Zenon DEF Scan
<1>3. k = d
  <2>1. CASE d.kind = "MeshOPA"
    BY <2>1, OPAStays DEF fixOfKind
  <2>2. CASE d.kind # "MeshOPA"
    <3>1. fixMeshFaultInjectionFrom(d) = d
      BY <1>1 DEF fixMeshFaultInjectionFrom
    <3>2. fixOfKind(d) = Result(<<d>>, {})
      BY <2>2, <3>1 DEF fixOfKind
    <3> QED
      BY <3>2, OneOfResult, Zenon
  <2> QED
    BY <2>1, <2>2
<1> HIDE DEF k
<1>4. a = d
  <2>1. fixProxyTypes(d) = Result(<<d>>, {})
    BY <1>1 DEF fixProxyTypes
  <2> QED
    BY <1>3, <2>1, OneOfResult, Zenon
<1> HIDE DEF a
<1>5. b = d
  <2>1. CASE d.kind = "MeshOPA"
    <3>1. fixTargetRefs(d) = Result(<<d>>, {})
      BY <2>1 DEF fixTargetRefs
    <3> QED
      BY <1>4, <3>1, OneOfResult, Zenon
  <2>2. CASE d.kind # "MeshOPA"
    BY <1>4, <2>2, RealStays DEF fixTargetRefs
  <2> QED
    BY <2>1, <2>2
<1> HIDE DEF b
<1>6. e = d
  BY <1>5, StripStays
<1> HIDE DEF e
<1> QED
  BY <1>2, <1>6, OneOfResult, Zenon

\* What is left of a run on 3.0 is ready for the next.
LEMMA JudgedReady ==
  ASSUME Staged, pc = "done", outcome = "ok", target = "v3", NEW i \in DOMAIN docs
  PROVE  Ready(docs[i])
<1>1. /\ Accepted(docs[i]) /\ ~isDefaultGatewayMeshTimeout(input) /\ at = Len(docs) + 1
  BY DEF Staged, Judged
<1>2. i < at
  BY <1>1, LengthOfDocs DEF Staged, FromInput
<1>3. Clean(docs[i]) /\ ~HasPanic(docs[i])
  BY <1>2 DEF Staged, Scanned
<1>4. NewDoc(docs[i], input, target)
  BY DEF Staged, FromInput, AllNew
<1> QED
  BY <1>1, <1>3, <1>4 DEF Ready, NewDoc
-----------------------------------------------------------------------------
(***************************************************************************)
(* On 2.x, a result may still hold a subset at the top, which the next run *)
(* converts; after that every run is a copy.                               *)
(***************************************************************************)

\* A result for 2.x that no pass for 2.x changes.
Steady(d) ==
  \/ DetectScenario(d) = "passthrough"
  \/ DetectScenario(d) = "subset" /\ RefsStay(d) /\ Placed(d) = d

\* A result is converted again at most for a subset.
LEMMA AgainScenario ==
  ASSUME NEW d, IsNew(d)
  PROVE  DetectScenario(d) \in {"passthrough", "subset"}
<1>1. d.kind \in Policy2Kinds /\ d.sources = <<>> /\ d.destinations = <<>>
  BY NotLegacyKind, ProperPolicyMeans DEF IsNew
<1>2. d.kind # "OPAPolicy"
  BY <1>1, KindsMean DEF Policy2Kinds
<1>3. ~IsLegacy(d)
  BY <1>1, NotLegacyKind DEF IsLegacy
<1>4. d.kind \in rulesAPIMigrationKinds => d.from = <<>>
  BY RulesKinds DEF IsNew
<1> QED
  BY <1>2, <1>3, <1>4, ScenarioMeans

LEMMA PlacedMeans ==
  ASSUME NEW d, IsNew(d)
  PROVE  /\ Placed(Placed(d)) = Placed(d)
         /\ RefsStay(d) => RefsStay(Placed(d))
         /\ DetectScenario(Placed(d)) = DetectScenario(d)
<1> DEFINE e == Placed(d)
<1>1. IsDoc(d)
  BY ProperPolicyMeans DEF IsNew
<1>2. e = d \/ (e = [d EXCEPT !.ns = SystemNs] /\ SystemNs # None)
  <2>1. SystemNs # None
    BY PoliciesAssumption, SeqOfNone DEF None
  <2> QED
    BY <2>1 DEF Placed
<1>3. /\ e.kind = d.kind /\ e.targetRef = d.targetRef /\ e.to = d.to /\ e.from = d.from
      /\ e.sources = d.sources /\ e.destinations = d.destinations
      /\ e = d \/ e.ns # None
  BY <1>1, <1>2 DEF IsDoc, PolicyFields
<1>4. Placed(e) = e
  BY <1>3 DEF Placed
<1> HIDE DEF e
<1>5. RefsStay(d) => RefsStay(e)
  BY <1>3 DEF RefsStay, TopRef
<1>6. TopRef(e) = TopRef(d) /\ IsLegacy(e) = IsLegacy(d)
  BY <1>3 DEF TopRef, IsLegacy
<1>7. DetectScenario(e) = DetectScenario(d)
  BY <1>3, <1>6 DEF DetectScenario
<1> QED
  BY <1>4, <1>5, <1>7 DEF e

LEMMA KeptWhole ==
  ASSUME NEW d, IsNew(d), Apart(d, "v2"), d.kind \in rulesAPIMigrationKinds
  PROVE  splitRulesAndTo(applyFromToRules(d)) = <<d>>
<1>1. d.from = <<>>
  BY RulesKinds DEF IsNew
<1>2. applyFromToRules(d) = d
  BY <1>1 DEF applyFromToRules
<1>3. d.rules = <<>> \/ d.to = <<>>
  BY DEF Apart, RulesBesideTo
<1> QED
  BY <1>2, <1>3 DEF splitRulesAndTo

\* On 2.x no reference is refused.
LEMMA NoneRefused ==
  ASSUME NEW d, IsNew(d), NEW l \in IdentityTags
  PROVE  ~Errs(TopMade(d, "v2", l)) /\ ~Errs(ToMade(d, "v2", l))
<1>1. ProperTop(d.targetRef) /\ ProperEntries(d.to)
  BY ProperPolicyMeans DEF IsNew
<1>2. ASSUME NEW ref, ProperRef(ref), NEW topLevel \in BOOLEAN
      PROVE  ConvertTargetRefForTarget(ref, d.ns, topLevel, "v2", l).err = FALSE
  <2> DEFINE c == ConvertTargetRefForTarget(ref, d.ns, topLevel, "v2", l)
  <2>1. LET x == ConvertTargetRefForTarget(ref, d.ns, topLevel, "v2", l) IN
        /\ DOMAIN x = Outcome
        /\ ConvertsTo(ref, topLevel, x.ref)
        /\ "v2" # "v3" => x.err = FALSE
    BY <1>2, ForTargetMeans
  <2> QED
    BY <2>1
<1>3. ASSUME NEW i \in DOMAIN d.targetRef
      PROVE  TopMade(d, "v2", l)[i].err = FALSE
  <2> DEFINE ref == d.targetRef[i]
             c == ConvertTargetRefForTarget(ref, d.ns, TRUE, "v2", l)
             k == KeepingProxyTypes(c, ref)
  <2>1. ProperRef(ref)
    BY <1>1, TopMember
  <2>2. TopMade(d, "v2", l)[i] = k
    BY DEF TopMade
  <2>3. DOMAIN c = Outcome /\ ConvertsTo(ref, TRUE, c.ref) /\ c.err = FALSE
    BY <1>2, <2>1, ForTargetMeans
  <2> HIDE DEF c, ref
  <2>4. k.err = c.err
    BY <2>3, KeepingMeans
  <2> QED
    BY <2>2, <2>3, <2>4
<1>4. ASSUME NEW i \in DOMAIN d.to
      PROVE  ToMade(d, "v2", l)[i].err = FALSE
  <2>1. ProperRef(d.to[i].ref)
    BY <1>1, EntriesMeans DEF ProperEntry
  <2> QED
    BY <1>2, <2>1 DEF ToMade
<1>5. DOMAIN TopMade(d, "v2", l) = DOMAIN d.targetRef /\ DOMAIN ToMade(d, "v2", l) = DOMAIN d.to
  BY DEF TopMade, ToMade
<1> QED
  BY <1>3, <1>4, <1>5 DEF Errs

LEMMA ForV2 ==
  ASSUME NEW ref, NEW policyNs, NEW topLevel \in BOOLEAN, NEW l, StaysRef(ref, topLevel)
  PROVE  ConvertTargetRefForTarget(ref, policyNs, topLevel, "v2", l).ref = ref
<1>1. ConvertTargetRefForTarget(ref, policyNs, topLevel, "v2", l)
        = convertTargetRef(ref, policyNs, topLevel, FALSE, l)
  BY DEF ConvertTargetRefForTarget, WithoutSubset
<1>2. convertTargetRef(ref, policyNs, topLevel, FALSE, l).ref = ref
  BY StaysAsItIs
<1> QED
  BY <1>1, <1>2, Zenon

LEMMA TopStays ==
  ASSUME NEW d, IsNew(d), RefsStay(d), NEW l \in IdentityTags
  PROVE  RefsOf(TopMade(d, "v2", l)) = d.targetRef
<1> DEFINE refs == RefsOf(TopMade(d, "v2", l))
<1>1. ProperTop(d.targetRef)
  BY ProperPolicyMeans DEF IsNew
<1>2. /\ DOMAIN refs = DOMAIN d.targetRef /\ refs = [i \in DOMAIN refs |-> refs[i]]
      /\ \A i \in DOMAIN d.targetRef :
           refs[i] = KeepingProxyTypes(
                       ConvertTargetRefForTarget(d.targetRef[i], d.ns, TRUE, "v2", l),
                       d.targetRef[i]).ref
  BY DEF RefsOf, TopMade
<1>3. ASSUME NEW i \in DOMAIN d.targetRef
      PROVE  refs[i] = d.targetRef[i]
  <2> DEFINE ref == d.targetRef[i]
             c == ConvertTargetRefForTarget(ref, d.ns, TRUE, "v2", l)
             k == KeepingProxyTypes(c, ref)
  <2>1. ProperRef(ref) /\ ref = TopRef(d) /\ d.targetRef # <<>>
    BY <1>1, TopMember, NoDomain
  <2>2. c.ref = ref
    BY <2>1, ForV2 DEF RefsStay
  <2>3. DOMAIN c = Outcome /\ ConvertsTo(ref, TRUE, c.ref)
    BY <2>1, ForTargetMeans
  <2> HIDE DEF c, ref
  <2>4. k.ref = ref
    BY <2>2, <2>3, KeepingMeans
  <2> QED
    BY <1>2, <2>4 DEF c, ref
<1> HIDE DEF refs
<1>4. refs = d.targetRef
  BY <1>1, <1>2, <1>3, TopSame
<1> QED
  BY <1>4 DEF refs

LEMMA ToStays ==
  ASSUME NEW d, IsNew(d), RefsStay(d), NEW l \in IdentityTags
  PROVE  [i \in DOMAIN ToMade(d, "v2", l) |->
            Entry(ToMade(d, "v2", l)[i].ref, d.to[i].conf)] = d.to
<1> DEFINE es == [i \in DOMAIN ToMade(d, "v2", l) |->
                    Entry(ToMade(d, "v2", l)[i].ref, d.to[i].conf)]
<1>1. ProperEntries(d.to)
  BY ProperPolicyMeans DEF IsNew
<1>2. ASSUME NEW i \in DOMAIN d.to
      PROVE  ConvertTargetRefForTarget(d.to[i].ref, d.ns, FALSE, "v2", l).ref = d.to[i].ref
  <2>1. StaysRef(d.to[i].ref, FALSE)
    BY DEF RefsStay
  <2> QED
    BY <2>1, ForV2, Zenon
<1>3. /\ DOMAIN es = DOMAIN d.to /\ es = [i \in DOMAIN es |-> es[i]]
      /\ \A i \in DOMAIN d.to : es[i] = Entry(d.to[i].ref, d.to[i].conf)
  BY <1>2 DEF ToMade
<1> HIDE DEF es
<1>4. es = d.to
  BY <1>1, <1>3, ToSame
<1> QED
  BY <1>4 DEF es

LEMMA FromStayAll ==
  ASSUME NEW d, IsNew(d), RefsStay(d), NEW l \in IdentityTags
  PROVE  [i \in DOMAIN FromMade(d, "v2", l) |->
            Entry(IF FromMade(d, "v2", l)[i].err THEN d.from[i].ref
                  ELSE FromMade(d, "v2", l)[i].ref, d.from[i].conf)] = d.from
<1> DEFINE es == [i \in DOMAIN FromMade(d, "v2", l) |->
                    Entry(IF FromMade(d, "v2", l)[i].err THEN d.from[i].ref
                          ELSE FromMade(d, "v2", l)[i].ref, d.from[i].conf)]
<1>1. ProperEntries(d.from)
  BY ProperPolicyMeans DEF IsNew
<1>2. ASSUME NEW i \in DOMAIN d.from
      PROVE  FromMade(d, "v2", l)[i].ref = d.from[i].ref
  <2>1. d.kind \in meshSubsetFromKinds
    BY NoDomain DEF IsNew
  <2> QED
    BY <2>1, FromStaysAsItIs DEF FromMade, RefsStay
<1>3. DOMAIN FromMade(d, "v2", l) = DOMAIN d.from
  BY DEF FromMade
<1>4. /\ DOMAIN es = DOMAIN d.from /\ es = [i \in DOMAIN es |-> es[i]]
      /\ \A i \in DOMAIN d.from : es[i] = Entry(d.from[i].ref, d.from[i].conf)
  BY <1>2, <1>3
<1> HIDE DEF es
<1>5. es = d.from
  BY <1>1, <1>4, ToSame
<1> QED
  BY <1>5 DEF es

\* A conversion of references that stay is without effect.
LEMMA RewriteStays ==
  ASSUME NEW d, IsNew(d), RefsStay(d), NEW l \in IdentityTags
  PROVE  Rewrite(d, "v2", l) = d
<1> DEFINE a == TopMade(d, "v2", l)
           b == ToMade(d, "v2", l)
           c == FromMade(d, "v2", l)
<1>1. IsDoc(d)
  BY ProperPolicyMeans DEF IsNew
<1>2. WithRefs(d, a, b, c)
        = [d EXCEPT !.targetRef = RefsOf(a),
                    !.to = [i \in DOMAIN b |-> Entry(b[i].ref, d.to[i].conf)],
                    !.from = [i \in DOMAIN c |->
                                Entry(IF c[i].err THEN d.from[i].ref ELSE c[i].ref,
                                      d.from[i].conf)]]
  <2> HIDE DEF a, b, c
  <2> QED
    BY <1>1 DEF WithRefs, IsDoc, PolicyFields
<1>3. WithRefs(d, a, b, c)
        = [d EXCEPT !.targetRef = d.targetRef, !.to = d.to, !.from = d.from]
  BY <1>2, TopStays, ToStays, FromStayAll, Zenon
<1>4. [d EXCEPT !.targetRef = d.targetRef, !.to = d.to, !.from = d.from] = d
  BY <1>1 DEF IsDoc, PolicyFields
<1> QED
  BY <1>3, <1>4, Zenon DEF Rewrite

\* The subset scenario on 2.x: one document, whose references stay.
LEMMA SubsetOnV2 ==
  ASSUME NEW d, IsNew(d), Apart(d, "v2"), NEW l \in IdentityTags
  PROVE  LET r == transformScenarioSubset(d, "v2", l) IN
         /\ r.docs = <<Rewrite(d, "v2", l)>> /\ r.err = FALSE
         /\ RefsStay(Rewrite(d, "v2", l))
<1> DEFINE w == Rewrite(d, "v2", l)
           r == transformScenarioSubset(d, "v2", l)
<1>1. \/ d.kind \notin rulesAPIMigrationKinds /\ \E ws : r = Result(<<w>>, ws)
      \/ /\ d.kind \in rulesAPIMigrationKinds
         /\ \E ws : r = Result(splitRulesAndTo(applyFromToRules(w)), ws)
  BY SubsetDocs, NoneRefused, Zenon
<1>2. /\ PolicyInput(w) /\ w.kind = d.kind /\ w.rules = d.rules
      /\ w.from = <<>> <=> d.from = <<>>
      /\ w.to = <<>> <=> d.to = <<>>
      /\ "v2" # "v3" => RefsStay(w)
  <2>1. PolicyInput(d)
    BY DEF IsNew, PolicyInput
  <2> QED
    BY <2>1, RewriteMeans
<1> HIDE DEF w, r
<1>3. IsNew(w) /\ Apart(w, "v2")
  BY <1>2 DEF IsNew, PolicyInput, Apart, RulesBesideTo
<1>4. w.kind \in rulesAPIMigrationKinds => splitRulesAndTo(applyFromToRules(w)) = <<w>>
  BY <1>3, KeptWhole
<1>5. \E ws : r = Result(<<w>>, ws)
  BY <1>1, <1>2, <1>4
<1>6. r.docs = <<w>> /\ r.err = FALSE
  BY <1>5 DEF Result
<1> QED
  BY <1>2, <1>6 DEF r, w

-----------------------------------------------------------------------------
(***************************************************************************)
(* Runs over the results of runs.                                          *)
(***************************************************************************)

\* A document that a run for the target copies.
Fixed(d, t) == IF t = "v3" THEN Ready(d) ELSE IsNew(d) /\ Steady(d)

\* The second run for 2.x: what it makes of its input the next one copies.
SecondOnV2 ==
  target = "v2" /\ round = 1 =>
    /\ outcome \in {"none", "ok"}
    /\ pc # "convert" => docs = <<docs[1]>>
    /\ pc = "place" =>
         \/ DetectScenario(input) = "passthrough" /\ docs[1] = input
         \/ DetectScenario(input) = "subset" /\ RefsStay(docs[1])
    /\ pc \in {"panic", "scan", "done"} => Steady(docs[1])

\* Every run after it is a copy.
Settling ==
  round >= RunsToSettle =>
    /\ Fixed(input, target) /\ outcome \in {"none", "ok"}
    /\ pc # "convert" => docs = <<input>>

Copied == Staged /\ (round >= 1 => IsNew(input)) /\ SecondOnV2 /\ Settling

LEMMA TheTargets ==
  ASSUME Staged
  PROVE  target \in {"v2", "v3"} /\ round \in Nat /\ RunsToSettle \in Nat \ {0}
BY PoliciesAssumption DEF Staged, TypeOK, RunsToSettle

LEMMA FixedScenario ==
  ASSUME NEW d, NEW t \in {"v2", "v3"}, Fixed(d, t)
  PROVE  /\ IsNew(d)
         /\ \/ DetectScenario(d) = "passthrough"
            \/ t = "v2" /\ DetectScenario(d) = "subset" /\ RefsStay(d) /\ Placed(d) = d
BY ReadyPasses DEF Fixed, Steady, Ready

\* The stage of the scenario, for a document that is converted again.
LEMMA ConversionAgain ==
  ASSUME NEW d
  PROVE  /\ DetectScenario(d) = "passthrough" => Conversion(d) = Result(<<d>>, {})
         /\ DetectScenario(d) = "subset"
              => Conversion(d) = transformScenarioSubset(d, target, last)
<1> DEFINE s == DetectScenario(d)
<1>1. Conversion(d)
        = CASE s = "legacy" -> transformScenarioLegacy(d, target, last)
            [] s = "subset" -> transformScenarioSubset(d, target, last)
            [] s = "rules"  -> TransformFromToRules(d, target)
            [] s = "opa"    -> TransformOPAPolicy(d, target, last)
            [] OTHER -> Result(<<d>>, {})
  BY Zenon DEF Conversion
<1> HIDE DEF s
<1>2. s = "passthrough" => Conversion(d) = Result(<<d>>, {})
  BY <1>1
<1>3. s = "subset" => Conversion(d) = transformScenarioSubset(d, target, last)
  BY <1>1
<1> QED
  BY <1>2, <1>3 DEF s

LEMMA PassedOn ==
  ASSUME NEW d, DetectScenario(d) = "passthrough"
  PROVE  Conversion(d).docs = <<d>> /\ Conversion(d).err = FALSE
<1>1. Conversion(d) = Result(<<d>>, {})
  BY ConversionAgain
<1> QED
  BY <1>1 DEF Result

LEMMA ConvertedAgain ==
  ASSUME NEW d, DetectScenario(d) = "subset", IsNew(d), Apart(d, "v2"), target = "v2",
         last \in IdentityTags
  PROVE  /\ Conversion(d).docs = <<Rewrite(d, "v2", last)>> /\ Conversion(d).err = FALSE
         /\ RefsStay(Rewrite(d, "v2", last))
BY ConversionAgain, SubsetOnV2

LEMMA FixedConverts ==
  ASSUME Staged, Fixed(input, target)
  PROVE  Conversion(input).docs = <<input>> /\ Conversion(input).err = FALSE
<1>1. /\ IsNew(input)
      /\ \/ DetectScenario(input) = "passthrough"
         \/ target = "v2" /\ DetectScenario(input) = "subset" /\ RefsStay(input)
  BY TheTargets, FixedScenario
<1>2. CASE DetectScenario(input) = "passthrough"
  BY <1>2, PassedOn
<1>3. CASE target = "v2" /\ DetectScenario(input) = "subset" /\ RefsStay(input)
  <2>1. Apart(input, "v2") /\ last \in IdentityTags
    BY <1>3 DEF Staged, FromInput, ProperInput, TypeOK
  <2>2. /\ Conversion(input).docs = <<Rewrite(input, "v2", last)>>
        /\ Conversion(input).err = FALSE
    BY <1>1, <1>3, <2>1, ConvertedAgain
  <2>3. Rewrite(input, "v2", last) = input
    BY <1>1, <1>3, <2>1, RewriteStays
  <2> QED
    BY <2>2, <2>3
<1> QED
  BY <1>1, <1>2, <1>3

LEMMA FixedSplit ==
  ASSUME NEW d, NEW t \in {"v2", "v3"}, Fixed(d, t)
  PROVE  (IF t = "v3" THEN SplitPanic(<<d>>) ELSE Result(<<d>>, {})).docs = <<d>>
BY OneSplit, ResultMeans DEF Fixed, Ready

LEMMA FixedScan ==
  ASSUME NEW d, NEW t \in {"v2", "v3"}, Fixed(d, t)
  PROVE  Scan(d, t).docs[1] = d
BY ScanOfReady, ScanStays DEF Fixed

LEMMA ConvertCopied ==
  ASSUME Copied, Convert
  PROVE  Copied'
<1>1. Staged' /\ Staged
  BY ConvertStaged DEF Copied
<1>2. /\ pc = "convert" /\ outcome = "none" /\ UNCHANGED <<input, target, last, at, round>>
      /\ IF Conversion(input).err
         THEN pc' = "done" /\ outcome' = "error" /\ UNCHANGED docs
         ELSE pc' = "place" /\ docs' = Conversion(input).docs /\ outcome' = "none"
  BY <1>1 DEF Convert, Staged, TypeOK
<1>3. Settling'
  <2> SUFFICES ASSUME round >= RunsToSettle
               PROVE  /\ Fixed(input, target) /\ outcome' \in {"none", "ok"}
                      /\ docs' = <<input>>
    BY <1>2 DEF Settling, RunsToSettle
  <2>1. Fixed(input, target)
    BY DEF Copied, Settling
  <2> QED
    BY <1>1, <1>2, <2>1, FixedConverts
<1>4. SecondOnV2'
  <2> SUFFICES ASSUME target = "v2", round = 1
               PROVE  /\ pc' = "place" /\ outcome' = "none" /\ docs' = <<docs'[1]>>
                      /\ \/ DetectScenario(input) = "passthrough" /\ docs'[1] = input
                         \/ DetectScenario(input) = "subset" /\ RefsStay(docs'[1])
    BY <1>2 DEF SecondOnV2
  <2>1. IsNew(input) /\ Apart(input, "v2") /\ last \in IdentityTags
    BY <1>1 DEF Copied, Staged, FromInput, ProperInput, TypeOK
  <2>2. CASE DetectScenario(input) = "passthrough"
    <3>1. Conversion(input).docs = <<input>> /\ Conversion(input).err = FALSE
      BY <2>2, PassedOn
    <3> QED
      BY <1>2, <2>2, <3>1
  <2>3. CASE DetectScenario(input) = "subset"
    <3> DEFINE w == Rewrite(input, "v2", last)
    <3>1. Conversion(input).docs = <<w>> /\ Conversion(input).err = FALSE /\ RefsStay(w)
      BY <2>1, <2>3, ConvertedAgain
    <3> HIDE DEF w
    <3> QED
      BY <1>2, <2>3, <3>1
  <2> QED
    BY <2>1, <2>2, <2>3, AgainScenario
<1> QED
  BY <1>1, <1>2, <1>3, <1>4 DEF Copied

LEMMA EachOfOne ==
  ASSUME NEW d
  PROVE  [i \in DOMAIN <<d>> |-> Placed(<<d>>[i])] = <<Placed(d)>>
OBVIOUS

LEMMA PlaceCopied ==
  ASSUME Copied, Place
  PROVE  Copied'
<1>1. Staged' /\ Staged
  BY PlaceStaged DEF Copied
<1>2. /\ pc = "place" /\ pc' = "panic" /\ outcome = "none"
      /\ UNCHANGED <<input, target, last, at, outcome, round>>
      /\ docs' = IF DetectScenario(input) \in {"legacy", "subset", "opa"}
                 THEN [i \in DOMAIN docs |-> Placed(docs[i])] ELSE docs
  BY <1>1 DEF Place, Staged, TypeOK, namespacedConversionScenarios
<1>3. Settling'
  <2> SUFFICES ASSUME round >= RunsToSettle
               PROVE  Fixed(input, target) /\ docs' = <<input>>
    BY <1>2 DEF Settling, RunsToSettle
  <2>1. Fixed(input, target) /\ docs = <<input>>
    BY <1>2 DEF Copied, Settling
  <2>2. DetectScenario(input) = "passthrough" \/ Placed(input) = input
    BY <1>1, <2>1, TheTargets, FixedScenario
  <2>3. CASE DetectScenario(input) = "passthrough"
    BY <1>2, <2>1, <2>3
  <2>4. CASE Placed(input) = input
    BY <1>2, <2>1, <2>4, EachOfOne
  <2> QED
    BY <2>2, <2>3, <2>4
<1>4. SecondOnV2'
  <2> SUFFICES ASSUME target = "v2", round = 1
               PROVE  docs' = <<docs'[1]>> /\ Steady(docs'[1])
    BY <1>2 DEF SecondOnV2
  <2>1. /\ docs = <<docs[1]>>
        /\ \/ DetectScenario(input) = "passthrough" /\ docs[1] = input
           \/ DetectScenario(input) = "subset" /\ RefsStay(docs[1])
    BY <1>2 DEF Copied, SecondOnV2
  <2>2. CASE DetectScenario(input) = "passthrough" /\ docs[1] = input
    BY <1>2, <2>1, <2>2 DEF Steady
  <2>3. CASE DetectScenario(input) = "subset" /\ RefsStay(docs[1])
    <3> DEFINE e == docs[1]
    <3>1. docs' = <<Placed(e)>>
      BY <1>2, <2>1, <2>3, EachOfOne
    <3>2. NewDoc(e, input, target)
      BY <1>1, <2>1, SeqOfOne DEF Staged, FromInput, AllNew
    <3>3. IsNew(e)
      BY <3>2 DEF NewDoc
    <3> HIDE DEF e
    <3>4. RefsStay(e)
      BY <2>3 DEF e
    <3>5. Placed(Placed(e)) = Placed(e) /\ RefsStay(Placed(e))
          /\ DetectScenario(Placed(e)) \in {"passthrough", "subset"}
      BY <3>3, <3>4, PlacedMeans, AgainScenario
    <3>6. Steady(Placed(e))
      BY <3>5 DEF Steady
    <3> QED
      BY <3>1, <3>6
  <2> QED
    BY <2>1, <2>2, <2>3
<1> QED
  BY <1>1, <1>2, <1>3, <1>4 DEF Copied

LEMMA SplitCopied ==
  ASSUME Copied, SplitPanicThreshold
  PROVE  Copied'
<1>1. Staged' /\ Staged /\ target \in {"v2", "v3"}
  BY SplitStaged, TheTargets DEF Copied
<1>2. /\ pc = "panic" /\ pc' = "scan" /\ outcome = "none"
      /\ UNCHANGED <<input, target, last, at, outcome, round>>
      /\ docs' = (IF target = "v3" THEN SplitPanic(docs) ELSE Result(docs, {})).docs
  BY <1>1 DEF SplitPanicThreshold, Staged, TypeOK
<1>3. Settling'
  <2> SUFFICES ASSUME round >= RunsToSettle
               PROVE  Fixed(input, target) /\ docs' = <<input>>
    BY <1>2 DEF Settling, RunsToSettle
  <2>1. Fixed(input, target) /\ docs = <<input>>
    BY <1>2 DEF Copied, Settling
  <2> QED
    BY <1>1, <1>2, <2>1, FixedSplit
<1>4. SecondOnV2'
  <2> SUFFICES ASSUME target = "v2", round = 1
               PROVE  docs' = <<docs'[1]>> /\ Steady(docs'[1])
    BY <1>2 DEF SecondOnV2
  <2>1. docs = <<docs[1]>> /\ Steady(docs[1])
    BY <1>2 DEF Copied, SecondOnV2
  <2>2. docs' = docs
    BY <1>2, ResultMeans
  <2> QED
    BY <2>1, <2>2
<1> QED
  BY <1>1, <1>2, <1>3, <1>4 DEF Copied

LEMMA ScanCopied ==
  ASSUME Copied, ScanNext
  PROVE  Copied'
<1>1. Staged' /\ Staged /\ target \in {"v2", "v3"}
  BY ScanStaged, TheTargets DEF Copied
<1>2. /\ pc = "scan" /\ pc' = pc /\ outcome = "none" /\ at <= Len(docs)
      /\ UNCHANGED <<input, target, last, outcome, round>>
      /\ docs' = [docs EXCEPT ![at] = Scan(docs[at], target).docs[1]]
  BY <1>1 DEF ScanNext, Staged, TypeOK
<1>3. ASSUME NEW d, docs = <<d>>
      PROVE  at = 1 /\ docs[at] = d /\ [docs EXCEPT ![at] = d] = docs
  <2>1. at \in Nat /\ at >= 1
    BY <1>1 DEF Staged, TypeOK
  <2> QED
    BY <1>2, <1>3, <2>1
<1>4. Settling'
  <2> SUFFICES ASSUME round >= RunsToSettle
               PROVE  Fixed(input, target) /\ docs' = <<input>>
    BY <1>2 DEF Settling, RunsToSettle
  <2>1. Fixed(input, target) /\ docs = <<input>>
    BY <1>2 DEF Copied, Settling
  <2>2. Scan(input, target).docs[1] = input
    BY <1>1, <2>1, FixedScan
  <2> QED
    BY <1>2, <1>3, <2>1, <2>2
<1>5. SecondOnV2'
  <2> SUFFICES ASSUME target = "v2", round = 1
               PROVE  docs' = <<docs'[1]>> /\ Steady(docs'[1])
    BY <1>2 DEF SecondOnV2
  <2>1. docs = <<docs[1]>> /\ Steady(docs[1])
    BY <1>2 DEF Copied, SecondOnV2
  <2>2. docs' = docs
    BY <1>2, <1>3, <2>1, ScanStays
  <2> QED
    BY <2>1, <2>2
<1> QED
  BY <1>1, <1>2, <1>4, <1>5 DEF Copied

LEMMA JudgeCopied ==
  ASSUME Copied, Judge
  PROVE  Copied'
<1>1. Staged' /\ Staged /\ target \in {"v2", "v3"}
  BY JudgeStaged, TheTargets DEF Copied
<1>2. /\ pc = "scan" /\ pc' = "done" /\ UNCHANGED <<input, target, last, docs, at, round>>
      /\ outcome' =
           IF target = "v3" /\ isDefaultGatewayMeshTimeout(input) THEN "delete"
           ELSE IF target = "v3" /\ \E i \in DOMAIN docs : ~Accepted(docs[i])
           THEN "rejected" ELSE "ok"
  BY DEF Judge
<1>3. Settling'
  <2> SUFFICES ASSUME round >= RunsToSettle
               PROVE  Fixed(input, target) /\ outcome' = "ok" /\ docs' = <<input>>
    BY <1>2 DEF Settling, RunsToSettle
  <2>1. Fixed(input, target) /\ docs = <<input>>
    BY <1>2 DEF Copied, Settling
  <2>2. target = "v3" => ~isDefaultGatewayMeshTimeout(input) /\ Accepted(input)
    BY <2>1 DEF Fixed, Ready
  <2>3. \A i \in DOMAIN docs : docs[i] = input
    BY <2>1, SeqOfOne
  <2> QED
    BY <1>2, <2>1, <2>2, <2>3
<1>4. SecondOnV2'
  <2> SUFFICES ASSUME target = "v2", round = 1
               PROVE  outcome' = "ok" /\ docs = <<docs[1]>> /\ Steady(docs[1])
    BY <1>2 DEF SecondOnV2
  <2> QED
    BY <1>2 DEF Copied, SecondOnV2
<1> QED
  BY <1>1, <1>2, <1>3, <1>4 DEF Copied

LEMMA AgainCopied ==
  ASSUME Copied, Again
  PROVE  Copied'
<1>1. Staged' /\ Staged /\ target \in {"v2", "v3"} /\ round \in Nat
  BY AgainStaged, TheTargets DEF Copied
<1>2. /\ pc = "done" /\ outcome = "ok" /\ pc' = "convert" /\ outcome' = "none"
      /\ round' = round + 1 /\ UNCHANGED <<target, last>>
  BY DEF Again
<1>3. PICK i \in DOMAIN docs : input' = docs[i]
  BY DEF Again
<1>4. IsNew(input')
  BY <1>1, <1>3 DEF Staged, FromInput, AllNew, NewDoc
<1>5. Settling'
  <2> SUFFICES ASSUME round + 1 >= RunsToSettle
               PROVE  Fixed(input', target)
    BY <1>2 DEF Settling, RunsToSettle
  <2>1. CASE target = "v3"
    BY <1>1, <1>2, <1>3, <2>1, JudgedReady DEF Fixed
  <2>2. CASE target = "v2" /\ round = 1
    <3>1. docs = <<docs[1]>> /\ Steady(docs[1])
      BY <1>2, <2>2 DEF Copied, SecondOnV2
    <3>2. i = 1
      BY <1>3, <3>1, SeqOfOne
    <3> QED
      BY <1>3, <1>4, <2>2, <3>1, <3>2 DEF Fixed
  <2>3. CASE target = "v2" /\ round # 1
    <3>1. round >= RunsToSettle
      BY <1>1, <2>3 DEF RunsToSettle
    <3>2. docs = <<input>> /\ Fixed(input, target)
      BY <1>2, <3>1 DEF Copied, Settling
    <3>3. input' = input
      BY <1>3, <3>2, SeqOfOne
    <3> QED
      BY <3>2, <3>3
  <2> QED
    BY <1>1, <2>1, <2>2, <2>3
<1>6. SecondOnV2'
  BY <1>2 DEF SecondOnV2
<1> QED
  BY <1>1, <1>4, <1>5, <1>6 DEF Copied

LEMMA StutterCopied ==
  ASSUME Copied, UNCHANGED vars
  PROVE  Copied'
<1>1. Staged'
  BY StutterStaged DEF Copied
<1> QED
  BY <1>1 DEF Copied, vars, SecondOnV2, Settling, RunsToSettle

LEMMA NextCopied ==
  ASSUME Copied, [Next]_vars
  PROVE  Copied'
BY ConvertCopied, PlaceCopied, SplitCopied, ScanCopied, JudgeCopied, AgainCopied,
   StutterCopied
   DEF Next, Finished

LEMMA InitCopied == Init => Copied
<1> SUFFICES ASSUME Init
             PROVE  Copied
  OBVIOUS
<1>1. Staged
  BY InitStaged
<1> QED
  BY <1>1 DEF Init, Copied, SecondOnV2, Settling, RunsToSettle

\* Transforming a result again changes nothing: for 3.0 the second run is a copy of
\* its input, for 2.x the third (detect.go, and the passes that find nothing to do).
THEOREM AlwaysSettled == Spec => []Settled
<1>1. Init => Copied
  BY InitCopied
<1>2. Copied /\ [Next]_vars => Copied'
  BY NextCopied
<1>3. Copied => Settled
  BY DEF Copied, Settling, Settled, Staged, TypeOK
<1> QED
  BY <1>1, <1>2, <1>3, PTL DEF Spec

-----------------------------------------------------------------------------
(***************************************************************************)
(* The role of a policy of 2.x, through the conversion.                    *)
(***************************************************************************)

\* What a policy says of its role and its zone.
SaysTheSame(d, in) ==
  \A k \in {PolicyRole, Zone} :
    /\ k \in DOMAIN d.labels <=> k \in DOMAIN in.labels
    /\ k \in DOMAIN d.labels => d.labels[k] = in.labels[k]

\* Its destinations are some of the input's, and it is where the input was.
Bears(d, in) ==
  /\ d.kind # "MeshOPA" /\ d.ns = in.ns
  /\ EntryRefs(d.to) \subseteq EntryRefs(in.to) /\ SaysTheSame(d, in)

LEMMA BearsItself ==
  ASSUME NEW in, in.kind # "MeshOPA"
  PROVE  Bears(in, in)
BY DEF Bears, SaysTheSame

LEMMA BearsOn ==
  ASSUME NEW d, NEW in, Bears(d, in), NEW e, e.kind # "MeshOPA", e.ns = d.ns,
         e.labels = d.labels, EntryRefs(e.to) \subseteq EntryRefs(d.to)
  PROVE  Bears(e, in)
BY DEF Bears, SaysTheSame

LEMMA RefsOfEntries ==
  ASSUME NEW es, NEW fs,
         \A i \in DOMAIN es : \E j \in DOMAIN fs : es[i].ref = fs[j].ref
  PROVE  EntryRefs(es) \subseteq EntryRefs(fs)
BY DEF EntryRefs

LEMMA NoRefs == EntryRefs(<<>>) = {}
BY NoDomain DEF EntryRefs

LEMMA LabelsOfRole ==
  /\ DisplayName \notin {PolicyRole, Zone}
  /\ {PolicyRole, Zone} \subseteq controlPlaneOwnedLabels
BY DEF DisplayName, PolicyRole, Zone, controlPlaneOwnedLabels

LEMMA WithoutPanicBears ==
  ASSUME NEW d, IsDoc(d), NEW in, Bears(d, in)
  PROVE  Bears(WithoutPanic(d), in)
<1> DEFINE es == [i \in DOMAIN d.to |-> Entry(d.to[i].ref, d.to[i].conf \ {Panic})]
           e  == [d EXCEPT !.to = es]
<1>1. WithoutPanic(d) = d \/ WithoutPanic(d) = e
  BY Zenon DEF WithoutPanic
<1>2. EntryRefs(es) \subseteq EntryRefs(d.to)
  <2>1. DOMAIN es = DOMAIN d.to /\ \A i \in DOMAIN es : es[i].ref = d.to[i].ref
    BY EntryMeans
  <2> HIDE DEF es
  <2>2. \A i \in DOMAIN es : \E j \in DOMAIN d.to : es[i].ref = d.to[j].ref
    BY <2>1
  <2> QED
    BY <2>2, RefsOfEntries, Zenon
<1> HIDE DEF es
<1>3. e.kind = d.kind /\ e.ns = d.ns /\ e.labels = d.labels /\ e.to = es
  BY DEF IsDoc, PolicyFields
<1> HIDE DEF e
<1>4. Bears(e, in)
  BY <1>2, <1>3, BearsOn DEF Bears
<1> QED
  BY <1>1, <1>4

LEMMA CompanionBears ==
  ASSUME NEW d, IsDoc(d), IsSeq(d.to), NEW in, Bears(d, in), in.ns # None
  PROVE  Bears(PanicCompanion(d), in)
<1> DEFINE I  == {i \in DOMAIN d.to : Panic \in d.to[i].conf}
           carrying == Chosen(d.to, I)
           es == [i \in DOMAIN carrying |-> Entry(carrying[i].ref, {Panic, "detectors"})]
           e  == PanicCompanion(d)
<1>1. EntryRefs(es) \subseteq EntryRefs(d.to)
  <2>1. Len(d.to) \in Nat /\ I \subseteq 1..Len(d.to) /\ I \subseteq DOMAIN d.to
    BY SeqMeans
  <2> HIDE DEF I
  <2>2. /\ DOMAIN carrying = 1..Cardinality(I)
        /\ \A k \in DOMAIN carrying : carrying[k] = d.to[Nth(I, k)]
    BY DEF Chosen
  <2>3. \A k \in DOMAIN carrying : Nth(I, k) \in DOMAIN d.to
    BY <2>1, <2>2, NthMember
  <2> HIDE DEF carrying
  <2>4. DOMAIN es = DOMAIN carrying /\ \A k \in DOMAIN es : es[k].ref = carrying[k].ref
    BY EntryMeans
  <2> HIDE DEF es
  <2>5. \A i \in DOMAIN es : \E j \in DOMAIN d.to : es[i].ref = d.to[j].ref
    BY <2>2, <2>3, <2>4
  <2> QED
    BY <2>5, RefsOfEntries, Zenon
<1>2. e = [d EXCEPT !.kind = "MeshCircuitBreaker",
                    !.name = d.name \o <<"-panic-threshold">>,
                    !.ns = IF d.layout = "kube" /\ d.ns = None THEN SystemNs ELSE d.ns,
                    !.to = es, !.from = <<>>, !.rules = <<>>, !.default = <<>>]
  BY Zenon DEF PanicCompanion
<1> HIDE DEF es
<1> HIDE DEF e
<1>3. e.kind = "MeshCircuitBreaker" /\ e.ns = d.ns /\ e.labels = d.labels /\ e.to = es
  BY <1>2 DEF IsDoc, PolicyFields, Bears
<1> QED
  BY <1>1, <1>3, BearsOn DEF e

AllBear(ds, in) == \A i \in DOMAIN ds : Bears(ds[i], in)

LEMMA NewFields ==
  ASSUME NEW d, NEW in, NEW t, NewDoc(d, in, t)
  PROVE  IsDoc(d) /\ IsSeq(d.to) /\ IsNew(d)
BY ProperPolicyMeans, EntriesMeans DEF NewDoc, IsNew

LEMMA SplitBears ==
  ASSUME NEW ds, NEW in, NEW t, AllNew(ds, in, t), AllBear(ds, in), in.ns # None
  PROVE  AllBear(SplitPanic(ds).docs, in)
<1> DEFINE I == {i \in DOMAIN ds : HasPanic(ds[i])}
           carrying == Chosen(ds, I)
           a == [i \in DOMAIN ds |-> WithoutPanic(ds[i])]
           b == [i \in DOMAIN carrying |-> PanicCompanion(carrying[i])]
           r == SplitPanic(ds)
<1>1. r.docs = a \o b
  BY DEF SplitPanic, Result
<1>2. IsSeq(ds) /\ Len(ds) \in Nat /\ DOMAIN ds = 1..Len(ds)
  BY SeqMeans DEF AllNew
<1>3. ASSUME NEW i \in DOMAIN ds
      PROVE  Bears(WithoutPanic(ds[i]), in) /\ Bears(PanicCompanion(ds[i]), in)
  BY NewFields, WithoutPanicBears, CompanionBears DEF AllNew, AllBear
<1>4. IsSeq(carrying) /\ \A k \in DOMAIN carrying : \E i \in DOMAIN ds : carrying[k] = ds[i]
  <2>1. I \subseteq 1..Len(ds)
    BY <1>2
  <2> HIDE DEF I
  <2>2. DOMAIN carrying = 1..Cardinality(I) /\ Cardinality(I) \in Nat
        /\ \A k \in DOMAIN carrying : carrying[k] = ds[Nth(I, k)]
    BY <1>2, <2>1, SmallSets DEF Chosen
  <2>3. \A k \in 1..Cardinality(I) : Nth(I, k) \in I
    BY <1>2, <2>1, NthMember
  <2>4. carrying = [k \in DOMAIN carrying |-> carrying[k]]
    BY DEF Chosen
  <2> HIDE DEF carrying
  <2>5. IsSeq(carrying)
    BY <2>2, <2>4, SeqOfNumbered, Zenon
  <2> QED
    BY <1>2, <2>1, <2>2, <2>3, <2>5
<1> HIDE DEF carrying
<1>5. /\ DOMAIN a = DOMAIN ds /\ a = [i \in DOMAIN a |-> a[i]]
      /\ DOMAIN b = DOMAIN carrying /\ b = [i \in DOMAIN b |-> b[i]]
  OBVIOUS
<1>6. (\A i \in DOMAIN a : Bears(a[i], in)) /\ \A i \in DOMAIN b : Bears(b[i], in)
  BY <1>3, <1>4
<1> HIDE DEF a, b, r
<1>7. IsSeq(a) /\ IsSeq(b)
  BY <1>2, <1>4, <1>5, SeqOfDomain, Zenon
<1>8. \A i \in DOMAIN (a \o b) :
        (\E x \in DOMAIN a : (a \o b)[i] = a[x]) \/ (\E y \in DOMAIN b : (a \o b)[i] = b[y])
  BY <1>7, ConcatSeq
<1>9. \A i \in DOMAIN (a \o b) : Bears((a \o b)[i], in)
  BY <1>6, <1>8
<1> QED
  BY <1>1, <1>9 DEF AllBear, r

LEMMA PlacedBears ==
  ASSUME NEW ds, NEW in, AllBear(ds, in), in.ns # None
  PROVE  AllBear([i \in DOMAIN ds |-> Placed(ds[i])], in)
<1>1. \A i \in DOMAIN ds : Placed(ds[i]) = ds[i]
  BY DEF Placed, AllBear, Bears
<1> QED
  BY <1>1 DEF AllBear

LEMMA HalvesBear ==
  ASSUME NEW d, IsDoc(d), NEW in, Bears(d, in)
  PROVE  AllBear(splitRulesAndTo(d), in)
<1> DEFINE kept == Only(d.labels, DOMAIN d.labels \ {DisplayName})
           a == [d EXCEPT !.to = <<>>]
           b == [d EXCEPT !.rules = <<>>, !.from = <<>>, !.name = d.name \o <<"-outbound">>,
                          !.labels = kept]
<1>1. splitRulesAndTo(d) = <<d>> \/ splitRulesAndTo(d) = <<a, b>>
  BY Zenon DEF splitRulesAndTo
<1>2. a.kind = d.kind /\ a.ns = d.ns /\ a.labels = d.labels /\ a.to = <<>>
  BY DEF IsDoc, PolicyFields
<1>3. SaysTheSame([labels |-> kept], d)
  BY LabelsOfRole DEF SaysTheSame, Only
<1> HIDE DEF kept
<1>4. b.kind = d.kind /\ b.ns = d.ns /\ b.labels = kept /\ b.to = d.to
  BY DEF IsDoc, PolicyFields
<1> HIDE DEF a, b
<1>5. Bears(a, in)
  BY <1>2, BearsOn, NoRefs DEF Bears
<1>6. Bears(b, in)
  BY <1>3, <1>4 DEF Bears, SaysTheSame
<1> QED
  BY <1>1, <1>5, <1>6, SeqOfOne, SeqOfTwo DEF AllBear

LEMMA FromToRulesBears ==
  ASSUME NEW d, IsDoc(d), NEW in, Bears(d, in)
  PROVE  IsDoc(applyFromToRules(d)) /\ Bears(applyFromToRules(d), in)
<1> DEFINE rules == [i \in DOMAIN d.from |-> d.from[i].conf]
           s     == [d EXCEPT !.from = <<>>, !.rules = rules]
           e     == applyFromToRules(d)
<1>1. e = d \/ e = s
  BY Zenon DEF applyFromToRules
<1> HIDE DEF rules
<1>2. IsDoc(s) /\ s.kind = d.kind /\ s.ns = d.ns /\ s.labels = d.labels /\ s.to = d.to
  BY DEF IsDoc, PolicyFields
<1> HIDE DEF s, e
<1>3. Bears(s, in)
  BY <1>2, BearsOn DEF Bears
<1> QED
  BY <1>1, <1>2, <1>3 DEF e

\* A destination of a producer is left as it is by the conversion.
LEMMA PlainRefStays ==
  ASSUME NEW ref, ref.kind \in producerRefKinds, ByNameAlone(ref), NEW ns, NEW l
  PROVE  ConvertTargetRefForTarget(ref, ns, FALSE, "v3", l).ref = ref
<1>1. ~IsSubset(ref) /\ StaysRef(ref, FALSE)
  BY PlainName DEF producerRefKinds, ByNameAlone, IsSubset, StaysRef, HasOldName
<1> DEFINE c == convertTargetRef(ref, ns, FALSE, TRUE, l)
<1>2. c.ref = ref
  BY <1>1, StaysAsItIs
<1>3. ConvertTargetRefForTarget(ref, ns, FALSE, "v3", l) = WithoutSubset(c, FALSE, "v3")
  BY DEF ConvertTargetRefForTarget
<1> HIDE DEF c
<1>4. WithoutSubset(c, FALSE, "v3") = c
  BY <1>1, <1>2 DEF WithoutSubset
<1> QED
  BY <1>2, <1>3, <1>4

\* The destinations of a producer of 2.x.
PlainTo(to) == \A ref \in EntryRefs(to) : ref.kind \in producerRefKinds /\ ByNameAlone(ref)

LEMMA RewriteBears ==
  ASSUME NEW doc, IsDoc(doc), doc.kind # "MeshOPA", PlainTo(doc.to), NEW l
  PROVE  IsDoc(Rewrite(doc, "v3", l)) /\ Bears(Rewrite(doc, "v3", l), doc)
<1> DEFINE top  == TopMade(doc, "v3", l)
           to   == ToMade(doc, "v3", l)
           from == FromMade(doc, "v3", l)
           es   == [i \in DOMAIN to |-> Entry(to[i].ref, doc.to[i].conf)]
           w    == Rewrite(doc, "v3", l)
<1>1. EntryRefs(es) \subseteq EntryRefs(doc.to)
  <2>1. \A i \in DOMAIN doc.to : doc.to[i].ref \in EntryRefs(doc.to)
    BY DEF EntryRefs
  <2>2. DOMAIN to = DOMAIN doc.to
        /\ \A i \in DOMAIN to :
             to[i] = ConvertTargetRefForTarget(doc.to[i].ref, doc.ns, FALSE, "v3", l)
    BY DEF ToMade
  <2> HIDE DEF to
  <2>3. ASSUME NEW i \in DOMAIN to PROVE to[i].ref = doc.to[i].ref
    <3>1. doc.to[i].ref.kind \in producerRefKinds /\ ByNameAlone(doc.to[i].ref)
      BY <2>1, <2>2 DEF PlainTo
    <3>2. ConvertTargetRefForTarget(doc.to[i].ref, doc.ns, FALSE, "v3", l).ref = doc.to[i].ref
      BY <3>1, PlainRefStays
    <3> QED
      BY <2>2, <3>2
  <2>4. DOMAIN es = DOMAIN to /\ \A i \in DOMAIN es : es[i].ref = to[i].ref
    BY EntryMeans
  <2> HIDE DEF es
  <2>5. \A i \in DOMAIN es : \E j \in DOMAIN doc.to : es[i].ref = doc.to[j].ref
    BY <2>2, <2>3, <2>4
  <2> QED
    BY <2>5, RefsOfEntries, Zenon
<1>2. w = WithRefs(doc, top, to, from)
  BY DEF Rewrite
<1> HIDE DEF top, to, from, w
<1>3. IsDoc(w) /\ w.kind = doc.kind /\ w.ns = doc.ns /\ w.labels = doc.labels /\ w.to = es
  BY <1>2 DEF WithRefs, IsDoc, PolicyFields
<1> HIDE DEF es
<1>4. Bears(w, doc)
  BY <1>1, <1>3, BearsItself, BearsOn
<1> QED
  BY <1>3, <1>4 DEF w

LEMMA ConversionBears ==
  ASSUME NEW in, PolicyInput(in), ~IsLegacy(in), in.kind # "MeshOPA", PlainTo(in.to),
         target = "v3"
  PROVE  AllBear(Conversion(in).docs, in)
<1> DEFINE s == DetectScenario(in)
           r == Conversion(in)
           w == Rewrite(in, "v3", last)
<1>0. IsDoc(in) /\ in.kind # "OPAPolicy"
  BY ProperPolicyMeans, KindsMean DEF PolicyInput, Policy2Kinds
<1>1. s \in {"rules", "subset", "passthrough"}
  BY <1>0, ScenarioMeans
<1>2. r = CASE s = "legacy" -> transformScenarioLegacy(in, target, last)
            [] s = "subset" -> transformScenarioSubset(in, target, last)
            [] s = "rules"  -> TransformFromToRules(in, target)
            [] s = "opa"    -> TransformOPAPolicy(in, target, last)
            [] OTHER -> Result(<<in>>, {})
  BY Zenon DEF Conversion
<1>3. Bears(in, in)
  BY BearsItself
<1> HIDE DEF s, r
<1>4. CASE s = "subset"
  <2>1. r = transformScenarioSubset(in, "v3", last)
    BY <1>2, <1>4
  <2>2. \/ r = Failed \/ \E ws : r = Result(<<w>>, ws)
        \/ \E ws : r = Result(splitRulesAndTo(applyFromToRules(w)), ws)
    BY <2>1, SubsetDocs, Zenon
  <2>3. IsDoc(w) /\ Bears(w, in)
    BY <1>0, RewriteBears
  <2> HIDE DEF w
  <2>4. AllBear(<<w>>, in)
    BY <2>3, SeqOfOne DEF AllBear
  <2>5. AllBear(splitRulesAndTo(applyFromToRules(w)), in)
    BY <2>3, FromToRulesBears, HalvesBear
  <2>6. AllBear(Failed.docs, in)
    BY ResultMeans, NoDomain DEF AllBear
  <2>7. AllBear(r.docs, in)
    BY <2>2, <2>4, <2>5, <2>6, DocsOfResult, Zenon
  <2> QED
    BY <2>7 DEF r
<1>5. CASE s = "rules"
  <2>1. r = TransformFromToRules(in, "v3")
    BY <1>2, <1>5
  <2>2. r.docs = splitRulesAndTo(applyFromToRules(in))
    BY <2>1, ResultMeans DEF TransformFromToRules
  <2>3. AllBear(r.docs, in)
    BY <1>0, <1>3, <2>2, FromToRulesBears, HalvesBear
  <2> QED
    BY <2>3 DEF r
<1>6. CASE s = "passthrough"
  <2>1. r = Result(<<in>>, {})
    BY <1>2, <1>6
  <2>2. AllBear(<<in>>, in)
    BY <1>3, SeqOfOne DEF AllBear
  <2>3. r.docs = <<in>>
    BY <2>1, DocsOfResult, Zenon
  <2> QED
    BY <2>2, <2>3 DEF r
<1> QED
  BY <1>1, <1>4, <1>5, <1>6

-----------------------------------------------------------------------------
(***************************************************************************)
(* The role of a policy of 2.x, through the scan.                          *)
(***************************************************************************)

\* A destination of a producer of the namespace ns, as it is on 2.x.
ProducedRef(ref, ns) ==
  /\ ref.kind \in producerRefKinds /\ ByNameAlone(ref) /\ ref.namespace \in {None, ns}

LEMMA NamedAlone ==
  ASSUME NEW ref, ByNameAlone(ref)
  PROVE  ref.name # None
BY SeqOfNone DEF ByNameAlone, None

LEMMA ProducingMeans ==
  ASSUME NEW in, Producing(in)
  PROVE  /\ in.ns \notin {None, SystemNs} /\ in.to # <<>> /\ ~IsLegacy(in)
         /\ PlainTo(in.to)
         /\ \A ref \in EntryRefs(in.to) : ProducedRef(ref, in.ns)
         /\ PolicyRole \in DOMAIN in.labels => in.labels[PolicyRole] = <<"producer">>
<1>1. \A ref \in EntryRefs(in.to) : ByNameAlone(ref) => ref.name # None
  BY NamedAlone
<1> QED
  BY <1>1 DEF Producing, IsProducer, PlainTo, ProducedRef

LEMMA RoleKeys ==
  /\ DisplayName # Namespace /\ DisplayName # Zone /\ Namespace # Zone
  /\ producerRefKinds \subseteq namespacedRefKinds
  /\ producerRefKinds \subseteq labelSelectedKinds
BY DEF DisplayName, Namespace, Zone, producerRefKinds, namespacedRefKinds,
       labelSelectedKinds, RealDestinations

LEMMA DerivedMeans ==
  ASSUME NEW ref, NEW ns, ns # None, ProducedRef(ref, ns), NEW zone
  PROVE  LET want == DerivedLabels(ref, ns, zone) IN
         /\ DOMAIN want = {DisplayName, Namespace} \union (IF zone = None THEN {} ELSE {Zone})
         /\ want[Namespace] = ns
<1> DEFINE one   == With(<<>>, DisplayName, ref.name)
           two   == With(one, Namespace, ns)
           want  == DerivedLabels(ref, ns, zone)
<1>1. ref.name # None /\ ref.kind \in namespacedRefKinds
  BY RoleKeys, NamedAlone DEF ProducedRef
<1>2. (IF ref.namespace = None /\ ref.name # None /\ ref.kind \in namespacedRefKinds
       THEN ns ELSE ref.namespace) = ns
  BY <1>1 DEF ProducedRef
<1>3. DOMAIN one = {DisplayName} /\ DOMAIN two = {DisplayName, Namespace} /\ two[Namespace] = ns
  BY NoDomain DEF With
<1>4. want = WithIfAny(two, Zone, zone)
  BY <1>1, <1>2 DEF DerivedLabels, WithIfAny
<1> HIDE DEF one, two, want
<1>5. DOMAIN want = {DisplayName, Namespace} \union (IF zone = None THEN {} ELSE {Zone})
      /\ want[Namespace] = ns
  BY <1>3, <1>4, RoleKeys DEF WithIfAny, With
<1> QED
  BY <1>5 DEF want

\* A destination by name becomes one by exactly the labels of its name, its
\* namespace and, if the policy has one, its zone.
LEMMA FixedRole ==
  ASSUME NEW ref, ProperRef(ref), NEW ns, ns # None, ProducedRef(ref, ns), NEW zone
  PROVE  LET r == fixRefToLabels(ref, ns, zone).ref IN
         /\ r.kind = ref.kind
         /\ DOMAIN r.labels = {DisplayName, Namespace}
                                \union (IF zone = None THEN {} ELSE {Zone})
         /\ r.labels[Namespace] = ns
<1> DEFINE want == DerivedLabels(ref, ns, zone)
           all  == Over(want, ref.labels)
           s    == [ref EXCEPT !.labels = all, !.name = None, !.namespace = None]
           c    == fixRefToLabels(ref, ns, zone)
<1>1. /\ DOMAIN want = {DisplayName, Namespace} \union (IF zone = None THEN {} ELSE {Zone})
      /\ want[Namespace] = ns
  BY DerivedMeans
<1>2. ByName(ref) /\ ref.kind \in labelSelectedKinds /\ ref.labels = <<>>
  BY RoleKeys, NamedAlone DEF ProducedRef, ByNameAlone, ByName
<1> HIDE DEF want
<1>3. Agree(want, ref.labels)
  BY <1>2, NoDomain DEF Agree
<1>4. \E ws : c = Converted(s, ws)
  BY <1>2, <1>3, Zenon DEF fixRefToLabels, want
<1>5. DOMAIN all = DOMAIN want /\ all[Namespace] = ns
  BY <1>1, <1>2, NoDomain DEF Over
<1> HIDE DEF all
<1>6. s.kind = ref.kind /\ s.labels = all
  BY ProperRefMeans DEF RefFields
<1> HIDE DEF s, c
<1>7. c.ref = s
  BY <1>4, RefOfConverted, Zenon
<1> QED
  BY <1>1, <1>5, <1>6, <1>7 DEF c

\* Its zone is the policy's, and without one it is not told.
LEMMA PinnedRole ==
  ASSUME NEW ref, ProperRef(ref), NEW ns, ref.kind \in producerRefKinds,
         DOMAIN ref.labels \in {{DisplayName, Namespace}, {DisplayName, Namespace, Zone}},
         ref.labels[Namespace] = ns, NEW d
  PROVE  LET r == Pinned(ref, d) IN
         /\ r.kind = ref.kind
         /\ TagOrNone(d.labels, Zone) # None => ProducerLabels(r.labels, ns)
         /\ TagOrNone(d.labels, Zone) = None /\ Zone \notin DOMAIN ref.labels
              => ~ProducerLabels(r.labels, ns)
<1> DEFINE zone   == TagOrNone(d.labels, Zone)
           labels == WithIfAny(ref.labels, Zone, zone)
           s      == [ref EXCEPT !.labels = labels]
<1>1. ref.labels # <<>>
  BY NoDomain
<1>2. Pinned(ref, d) = IF Zone \in DOMAIN ref.labels THEN ref ELSE s
  BY <1>1 DEF Pinned
<1>3. zone # None /\ Zone \notin DOMAIN ref.labels =>
        DOMAIN labels = {DisplayName, Namespace, Zone} /\ labels[Namespace] = ns
  BY RoleKeys DEF WithIfAny, With
<1>4. zone = None => labels = ref.labels
  BY DEF WithIfAny
<1> HIDE DEF labels
<1>5. s.kind = ref.kind /\ s.labels = labels
  BY ProperRefMeans DEF RefFields
<1> HIDE DEF s
<1>6. zone # None => ProducerLabels(Pinned(ref, d).labels, ns)
  BY <1>2, <1>3, <1>5 DEF ProducerLabels
<1>7. zone = None /\ Zone \notin DOMAIN ref.labels => ~ProducerLabels(Pinned(ref, d).labels, ns)
  BY <1>2, <1>4, <1>5 DEF ProducerLabels
<1> QED
  BY <1>2, <1>5, <1>6, <1>7

\* What is left of a producer: one that 3.0 counts as such, or a warning.
RoleKept(d, ws, in) ==
  d.to # <<>> => IF TagOrNone(in.labels, Zone) # None THEN IsProducer(d, "v3")
                 ELSE "no longer a producer" \in ws

LEMMA PinKeepsRole ==
  ASSUME NEW in, Producing(in), NEW d, IsDoc(d), IsSeq(d.to), d.to # <<>>, d.ns = in.ns,
         SaysTheSame(d, in),
         \A i \in DOMAIN d.to :
           /\ ProperRef(d.to[i].ref) /\ d.to[i].ref.kind \in producerRefKinds
           /\ DOMAIN d.to[i].ref.labels
                = {DisplayName, Namespace}
                    \union (IF PolicyZone(d) = None THEN {} ELSE {Zone})
           /\ d.to[i].ref.labels[Namespace] = d.ns
  PROVE  RoleKept(pinProducerZone(d).docs[1], pinProducerZone(d).warns, in)
<1> DEFINE zone == TagOrNone(d.labels, Zone)
           to   == [i \in DOMAIN d.to |-> Entry(Pinned(d.to[i].ref, d), d.to[i].conf)]
           short == {ref \in EntryRefs(to) : /\ ref.kind \in producerRefKinds
                                            /\ ~ProducerLabels(ref.labels, d.ns)}
           e    == [d EXCEPT !.to = to]
           r    == pinProducerZone(d)
<1>1. d.ns \notin {None, SystemNs} /\ zone = TagOrNone(in.labels, Zone)
  BY ProducingMeans DEF SaysTheSame, TagOrNone
<1>2. isProducerPolicy(d)
  <2>1. \A ref \in EntryRefs(d.to) : ref.kind \in producerRefKinds
                                      /\ TagOrNone(ref.labels, Namespace) = d.ns
    BY DEF EntryRefs, TagOrNone
  <2>2. PolicyRole \in DOMAIN d.labels => d.labels[PolicyRole] = <<"producer">>
    BY ProducingMeans DEF SaysTheSame
  <2> QED
    BY <1>1, <2>1, <2>2 DEF isProducerPolicy
<1>3. r = Result(<<e>>, IF short = {} THEN {} ELSE {"no longer a producer"})
  BY <1>2, Zenon DEF pinProducerZone
<1>4. zone = None => PolicyZone(d) = None
  BY DEF PolicyZone
<1>5. DOMAIN to = DOMAIN d.to /\ \A i \in DOMAIN to : to[i].ref = Pinned(d.to[i].ref, d)
  BY EntryMeans
<1>6. ASSUME NEW i \in DOMAIN d.to
      PROVE  /\ to[i].ref.kind \in producerRefKinds
             /\ zone # None => ProducerLabels(to[i].ref.labels, d.ns)
             /\ zone = None => ~ProducerLabels(to[i].ref.labels, d.ns)
  <2> DEFINE ref == d.to[i].ref
  <2>1. /\ ProperRef(ref) /\ ref.kind \in producerRefKinds /\ ref.labels[Namespace] = d.ns
        /\ DOMAIN ref.labels \in {{DisplayName, Namespace}, {DisplayName, Namespace, Zone}}
        /\ zone = None => Zone \notin DOMAIN ref.labels
    <3>1. /\ ProperRef(ref) /\ ref.kind \in producerRefKinds /\ ref.labels[Namespace] = d.ns
          /\ DOMAIN ref.labels = {DisplayName, Namespace}
                                   \union (IF PolicyZone(d) = None THEN {} ELSE {Zone})
      OBVIOUS
    <3> HIDE DEF ref, zone
    <3>2. CASE PolicyZone(d) = None
      <4>1. DOMAIN ref.labels = {DisplayName, Namespace}
        BY <3>1, <3>2
      <4> QED
        BY <3>1, <4>1, RoleKeys
    <3>3. CASE PolicyZone(d) # None
      <4>1. DOMAIN ref.labels = {DisplayName, Namespace, Zone}
        BY <3>1, <3>3
      <4> QED
        BY <1>4, <3>1, <3>3, <4>1
    <3> QED
      BY <3>2, <3>3
  <2>2. to[i].ref = Pinned(ref, d)
    BY <1>5
  <2> HIDE DEF ref, to
  <2>3. /\ Pinned(ref, d).kind = ref.kind
        /\ zone # None => ProducerLabels(Pinned(ref, d).labels, d.ns)
        /\ zone = None /\ Zone \notin DOMAIN ref.labels
             => ~ProducerLabels(Pinned(ref, d).labels, d.ns)
    BY <2>1, PinnedRole
  <2> QED
    BY <2>1, <2>2, <2>3
<1> HIDE DEF to
<1>7. e.ns = d.ns /\ e.to = to
  BY DEF IsDoc, PolicyFields
<1>8. zone # None => IsProducer(e, "v3")
  <2>1. \E i : i \in DOMAIN to
    BY <1>5, EmptySeq
  <2>2. to # <<>>
    BY <2>1, NoDomain
  <2>3. zone # None => \A ref \in EntryRefs(to) : ref.kind \in producerRefKinds
                                                  /\ ProducerLabels(ref.labels, d.ns)
    BY <1>5, <1>6 DEF EntryRefs
  <2> HIDE DEF e, zone
  <2> QED
    BY <1>1, <1>7, <2>2, <2>3 DEF IsProducer
<1>9. zone = None => short # {}
  <2>1. PICK i \in DOMAIN d.to : TRUE
    BY EmptySeq
  <2>2. to[i].ref \in EntryRefs(to)
    BY <1>5 DEF EntryRefs
  <2> QED
    BY <1>6, <2>2
<1> HIDE DEF e, short, zone, r
<1>10. r.docs[1] = e
  BY <1>3, OneOfResult, Zenon
<1>11. r.warns = IF short = {} THEN {} ELSE {"no longer a producer"}
  BY <1>3, WarnsOfResult, Zenon
<1>12. RoleKept(r.docs[1], r.warns, in)
  BY <1>1, <1>8, <1>9, <1>10, <1>11 DEF RoleKept
<1> QED
  BY <1>12 DEF r

\* The destinations are rewritten, and then told the zone the policy still has.
LEMMA RealKeepsRole ==
  ASSUME NEW in, Producing(in), NEW d, NEW x, NEW t, NewDoc(d, x, t), Bears(d, in)
  PROVE  LET r == fixRealResourceTargetRefs(d) IN RoleKept(r.docs[1], r.warns, in)
<1> DEFINE fixed(ref) == fixRefToLabels(ref, d.ns, PolicyZone(d))
           refs == [i \in DOMAIN d.targetRef |-> fixed(d.targetRef[i]).ref]
           es   == [i \in DOMAIN d.to |-> Entry(fixed(d.to[i].ref).ref, d.to[i].conf)]
           b    == [d EXCEPT !.targetRef = refs, !.to = es]
           p    == pinProducerZone(b)
           r    == fixRealResourceTargetRefs(d)
<1>0. /\ IsDoc(d) /\ IsSeq(d.to) /\ \A i \in DOMAIN d.to : ProperRef(d.to[i].ref)
  BY ProperPolicyMeans, EntriesMeans DEF NewDoc, IsNew, ProperEntry
<1>1. \E more : r = Result(p.docs, p.warns \union more)
  <2>1. b = [d EXCEPT !.targetRef = [i \in DOMAIN @ |-> fixed(@[i]).ref],
                      !.to = [i \in DOMAIN @ |-> Entry(fixed(@[i].ref).ref, @[i].conf)]]
    BY Zenon
  <2> HIDE DEF b
  <2> QED
    BY <2>1, Zenon DEF fixRealResourceTargetRefs
<1>2. ASSUME NEW i \in DOMAIN d.to
      PROVE  /\ ProperRef(fixed(d.to[i].ref).ref)
             /\ fixed(d.to[i].ref).ref.kind \in producerRefKinds
             /\ DOMAIN fixed(d.to[i].ref).ref.labels
                  = {DisplayName, Namespace}
                      \union (IF PolicyZone(d) = None THEN {} ELSE {Zone})
             /\ fixed(d.to[i].ref).ref.labels[Namespace] = d.ns
  <2> DEFINE ref == d.to[i].ref
             zone == PolicyZone(d)
  <2>1. ref \in EntryRefs(d.to)
    BY DEF EntryRefs
  <2>2. ProducedRef(ref, d.ns) /\ d.ns # None /\ ProperRef(ref)
    BY <1>0, <2>1, ProducingMeans DEF Bears
  <2>3. ref.kind \in producerRefKinds
    BY <2>2 DEF ProducedRef
  <2> HIDE DEF ref, zone
  <2>4. Kept(fixRefToLabels(ref, d.ns, zone).ref, ref)
    BY <2>2, LabelsFixed
  <2>5. /\ fixRefToLabels(ref, d.ns, zone).ref.kind = ref.kind
        /\ DOMAIN fixRefToLabels(ref, d.ns, zone).ref.labels
             = {DisplayName, Namespace} \union (IF zone = None THEN {} ELSE {Zone})
        /\ fixRefToLabels(ref, d.ns, zone).ref.labels[Namespace] = d.ns
    BY <2>2, FixedRole
  <2>6. ProperRef(fixRefToLabels(ref, d.ns, zone).ref)
    BY <2>4 DEF Kept
  <2> QED
    BY <2>3, <2>5, <2>6 DEF ref, zone
<1>3. /\ DOMAIN es = DOMAIN d.to /\ es = [i \in DOMAIN es |-> es[i]]
      /\ \A i \in DOMAIN es : es[i].ref = fixed(d.to[i].ref).ref
  BY EntryMeans
<1> HIDE DEF refs, es
<1>4. /\ IsDoc(b) /\ b.to = es /\ b.ns = d.ns /\ b.labels = d.labels
  BY <1>0 DEF IsDoc, PolicyFields
<1> HIDE DEF b
<1>5. IsSeq(es)
  BY <1>0, <1>3, SeqOfDomain, Zenon
<1>6. PolicyZone(b) = PolicyZone(d)
  BY <1>4 DEF PolicyZone
<1>7. ASSUME NEW i \in DOMAIN es
      PROVE  /\ ProperRef(es[i].ref) /\ es[i].ref.kind \in producerRefKinds
             /\ DOMAIN es[i].ref.labels
                  = {DisplayName, Namespace}
                      \union (IF PolicyZone(d) = None THEN {} ELSE {Zone})
             /\ es[i].ref.labels[Namespace] = d.ns
  <2> HIDE DEF fixed
  <2>1. i \in DOMAIN d.to /\ es[i].ref = fixed(d.to[i].ref).ref
    BY <1>3, Zenon
  <2>2. /\ ProperRef(fixed(d.to[i].ref).ref)
        /\ fixed(d.to[i].ref).ref.kind \in producerRefKinds
        /\ DOMAIN fixed(d.to[i].ref).ref.labels
             = {DisplayName, Namespace}
                 \union (IF PolicyZone(d) = None THEN {} ELSE {Zone})
        /\ fixed(d.to[i].ref).ref.labels[Namespace] = d.ns
    BY <1>2, <2>1, Zenon
  <2> QED
    BY <2>1, <2>2, Zenon
<1>8. SaysTheSame(b, in) /\ b.ns = in.ns
  BY <1>4 DEF Bears, SaysTheSame
<1> HIDE DEF p, r
<1>9. ASSUME es = <<>> PROVE RoleKept(p.docs[1], p.warns, in)
  <2>1. p = Result(<<b>>, {})
    BY <1>4, <1>9 DEF isProducerPolicy, pinProducerZone, p
  <2>2. p.docs[1] = b
    BY <2>1, OneOfResult, Zenon
  <2> QED
    BY <1>4, <1>9, <2>2 DEF RoleKept
<1>10. ASSUME es # <<>> PROVE RoleKept(p.docs[1], p.warns, in)
  <2>1. RoleKept(pinProducerZone(b).docs[1], pinProducerZone(b).warns, in)
    BY <1>4, <1>5, <1>6, <1>7, <1>8, <1>10, PinKeepsRole
  <2> QED
    BY <2>1, Zenon DEF p
<1>11. RoleKept(p.docs[1], p.warns, in)
  BY <1>9, <1>10
<1>12. r.docs = p.docs /\ p.warns \subseteq r.warns
  <2>1. PICK more : r = Result(p.docs, p.warns \union more)
    BY <1>1
  <2>2. r.docs = p.docs
    BY <2>1, DocsOfResult, Zenon
  <2>3. r.warns = p.warns \union more
    BY <2>1, WarnsOfResult, Zenon
  <2> QED
    BY <2>2, <2>3
<1>13. RoleKept(r.docs[1], r.warns, in)
  BY <1>11, <1>12 DEF RoleKept
<1> QED
  BY <1>13 DEF r

LEMMA ProxyTypesBears ==
  ASSUME NEW d, IsDoc(d), NEW in, Bears(d, in)
  PROVE  Bears(fixProxyTypes(d).docs[1], in) /\ fixProxyTypes(d).docs[1].kind = d.kind
<1> DEFINE s == [d EXCEPT !.targetRef[1].proxyTypes = {}]
           r == fixProxyTypes(d)
<1>1. (\E ws : r = Result(<<d>>, ws)) \/ \E ws : r = Result(<<s>>, ws)
  BY Zenon DEF fixProxyTypes
<1>2. s.kind = d.kind /\ s.ns = d.ns /\ s.labels = d.labels /\ s.to = d.to
  BY DEF IsDoc, PolicyFields
<1> HIDE DEF s, r
<1>3. Bears(s, in)
  BY <1>2, BearsOn DEF Bears
<1>4. r.docs[1] = d \/ r.docs[1] = s
  BY <1>1, OneOfResult, Zenon
<1> QED
  BY <1>2, <1>3, <1>4 DEF r

LEMMA FromFaultsBears ==
  ASSUME NEW d, IsDoc(d), NEW in, Bears(d, in)
  PROVE  Bears(fixMeshFaultInjectionFrom(d), in)
<1> DEFINE rules == d.rules \o [i \in DOMAIN d.from |-> d.from[i].conf]
           s     == [d EXCEPT !.from = <<>>, !.rules = rules]
           e     == fixMeshFaultInjectionFrom(d)
<1>1. e = d \/ e = s
  <2>1. s = [d EXCEPT !.from = <<>>,
                      !.rules = @ \o [i \in DOMAIN d.from |-> d.from[i].conf]]
    BY DEF IsDoc, PolicyFields
  <2> HIDE DEF s
  <2> QED
    BY <2>1, Zenon DEF fixMeshFaultInjectionFrom
<1> HIDE DEF rules
<1>2. s.kind = d.kind /\ s.ns = d.ns /\ s.labels = d.labels /\ s.to = d.to
  BY DEF IsDoc, PolicyFields
<1> HIDE DEF s, e
<1>3. Bears(s, in)
  BY <1>2, BearsOn DEF Bears
<1> QED
  BY <1>1, <1>3 DEF e

\* What the scan of 3.0 leaves of a producer, or says of it.
LEMMA ScanKeepsRole ==
  ASSUME NEW in, Producing(in), NEW d, NEW x, NewDoc(d, x, "v3"), Bears(d, in)
  PROVE  RoleKept(Scan(d, "v3").docs[1], Scan(d, "v3").warns, in)
<1> DEFINE k == fixMeshFaultInjectionFrom(d)
           a == fixProxyTypes(k).docs[1]
           f == fixTargetRefs(a)
           b == f.docs[1]
           e == stripControlPlaneLabels(b)
           r == Scan(d, "v3")
<1>1. IsMeshPolicy(d) /\ IsDoc(d) /\ d.kind # "MeshOPA"
  BY KindsMean, NewFields DEF NewDoc, IsNew, Bears
<1>2. fixOfKind(d) = Result(<<k>>, {})
  BY <1>1, Zenon DEF fixOfKind
<1>3. fixOfKind(d).docs[1] = k
  BY <1>2, OneOfResult, Zenon
<1>4. \E ws : r = Result(<<e>>, ws \union f.warns)
  BY <1>1, <1>3, Zenon DEF Scan
<1>5. NewDoc(k, x, "v3") /\ IsDoc(k) /\ Bears(k, in)
  BY <1>1, FromFaultsNew, FromFaultsBears, NewFields
<1> HIDE DEF k
<1>6. NewDoc(a, x, "v3") /\ Bears(a, in)
  BY <1>5, ProxyTypesNew, ProxyTypesBears
<1> HIDE DEF a
<1>7. f = fixRealResourceTargetRefs(a)
  BY <1>6 DEF fixTargetRefs, Bears
<1>8. RoleKept(b, f.warns, in)
  BY <1>6, <1>7, RealKeepsRole
<1>9. IsDoc(b)
  BY <1>6, <1>7, RealNew, NewFields
<1> HIDE DEF b, f
<1>10. e.ns = b.ns /\ e.to = b.to
  BY <1>9 DEF stripControlPlaneLabels, IsDoc, PolicyFields
<1> HIDE DEF e, r
<1>11. r.docs[1] = e /\ f.warns \subseteq r.warns
  <2>1. PICK ws : r = Result(<<e>>, ws \union f.warns)
    BY <1>4
  <2>2. r.docs[1] = e
    BY <2>1, OneOfResult, Zenon
  <2>3. r.warns = ws \union f.warns
    BY <2>1, WarnsOfResult, Zenon
  <2> QED
    BY <2>2, <2>3
<1>12. RoleKept(r.docs[1], r.warns, in)
  BY <1>8, <1>10, <1>11 DEF RoleKept, IsProducer
<1> QED
  BY <1>12 DEF r

-----------------------------------------------------------------------------
(***************************************************************************)
(* The role of a policy of 2.x, through the pipeline.                      *)
(***************************************************************************)

\* Before the scan a producer's results are where it was, with its destinations
\* and its labels; after it they are producers, or the warnings say otherwise.
Borne ==
  target = "v3" /\ Producing(input) =>
    \A i \in DOMAIN docs :
      IF i < at THEN RoleKept(docs[i], warns, input) ELSE Bears(docs[i], input)

RoleStays == Staged /\ Borne

\* Where no result is scanned, all of them are as before the scan.
LEMMA NoneScanned ==
  ASSUME Staged, at = 1
  PROVE  /\ Borne <=> (target = "v3" /\ Producing(input) => AllBear(docs, input))
         /\ AllNew(docs, input, target)
<1>1. AllNew(docs, input, target) /\ \A i \in DOMAIN docs : ~(i < at)
  BY LengthOfDocs DEF Staged, FromInput
<1> QED
  BY <1>1 DEF Borne, AllBear

LEMMA ConvertRole ==
  ASSUME RoleStays, Convert
  PROVE  RoleStays'
<1>1. Staged'
  BY ConvertStaged DEF RoleStays
<1>2. docs = <<>> /\ at = 1 /\ UNCHANGED <<input, target, last, at>>
  BY DEF RoleStays, Staged, Progress, Convert
<1>3. ASSUME target = "v3", Producing(input) PROVE AllBear(docs', input)
  <2>1. PolicyInput(input) /\ input.kind # "MeshOPA"
    <3>1. ProperPolicy(input) /\ input.to # <<>> /\ ~IsLegacy(input)
      BY <1>3, ProducingMeans DEF RoleStays, Staged, FromInput, ProperInput
    <3>2. input.kind \notin {"MeshOPA", "OPAPolicy"}
      BY <3>1, ProperPolicyMeans
    <3> QED
      BY <3>1, <3>2, ReadKinds DEF RoleStays, Staged, FromInput
  <2>2. AllBear(Conversion(input).docs, input)
    BY <1>3, <2>1, ProducingMeans, ConversionBears
  <2>3. PICK r \in {Conversion(input)} : IF r.err THEN UNCHANGED docs ELSE docs' = r.docs
    BY DEF Convert
  <2>4. AllBear(<<>>, input)
    BY NoDomain DEF AllBear
  <2> QED
    BY <1>2, <2>2, <2>3, <2>4
<1>4. ASSUME NEW i \in DOMAIN docs' PROVE ~(i < at')
  <2>1. AllNew(docs', input', target')
    BY <1>1 DEF Staged, FromInput
  <2> QED
    BY <1>2, <2>1, LengthOfDocs
<1>5. Borne'
  BY <1>2, <1>3, <1>4 DEF Borne, AllBear
<1> QED
  BY <1>1, <1>5 DEF RoleStays

LEMMA PlaceRole ==
  ASSUME RoleStays, Place
  PROVE  RoleStays'
<1>1. Staged'
  BY PlaceStaged DEF RoleStays
<1>2. at = 1 /\ UNCHANGED <<input, target, at>>
  BY DEF RoleStays, Staged, Progress, Place
<1>3. ASSUME target = "v3", Producing(input) PROVE AllBear(docs', input)
  <2>1. AllBear(docs, input)
    BY <1>2, <1>3, NoneScanned DEF RoleStays
  <2>2. docs' = docs \/ docs' = [i \in DOMAIN docs |-> Placed(docs[i])]
    BY DEF Place
  <2> QED
    BY <1>3, <2>1, <2>2, PlacedBears, ProducingMeans
<1>4. ASSUME NEW i \in DOMAIN docs' PROVE ~(i < at')
  <2>1. AllNew(docs', input', target')
    BY <1>1 DEF Staged, FromInput
  <2> QED
    BY <1>2, <2>1, LengthOfDocs
<1>5. Borne'
  BY <1>2, <1>3, <1>4 DEF Borne, AllBear
<1> QED
  BY <1>1, <1>5 DEF RoleStays

LEMMA SplitRole ==
  ASSUME RoleStays, SplitPanicThreshold
  PROVE  RoleStays'
<1>1. Staged'
  BY SplitStaged DEF RoleStays
<1>2. at = 1 /\ UNCHANGED <<input, target, at>>
  BY DEF RoleStays, Staged, Progress, SplitPanicThreshold
<1>3. ASSUME target = "v3", Producing(input) PROVE AllBear(docs', input)
  <2>1. AllBear(docs, input) /\ AllNew(docs, input, target)
    BY <1>2, <1>3, NoneScanned DEF RoleStays
  <2>2. docs' = SplitPanic(docs).docs
    BY <1>3 DEF SplitPanicThreshold
  <2> QED
    BY <1>3, <2>1, <2>2, SplitBears, ProducingMeans
<1>4. ASSUME NEW i \in DOMAIN docs' PROVE ~(i < at')
  <2>1. AllNew(docs', input', target')
    BY <1>1 DEF Staged, FromInput
  <2> QED
    BY <1>2, <2>1, LengthOfDocs
<1>5. Borne'
  BY <1>2, <1>3, <1>4 DEF Borne, AllBear
<1> QED
  BY <1>1, <1>5 DEF RoleStays

LEMMA ScanRole ==
  ASSUME RoleStays, ScanNext
  PROVE  RoleStays'
<1> DEFINE r == Scan(docs[at], target)
<1>1. Staged'
  BY ScanStaged DEF RoleStays
<1>2. /\ docs' = [docs EXCEPT ![at] = r.docs[1]] /\ warns' = warns \union r.warns
      /\ at' = at + 1 /\ at <= Len(docs) /\ UNCHANGED <<input, target>>
  BY DEF ScanNext
<1>3. AllNew(docs, input, target) /\ Len(docs) \in Nat /\ DOMAIN docs = 1..Len(docs)
  BY LengthOfDocs DEF RoleStays, Staged, FromInput
<1>4. at \in DOMAIN docs /\ at \in Nat
  BY <1>2, <1>3 DEF RoleStays, Staged, TypeOK
<1>5. ASSUME target = "v3", Producing(input), NEW i \in DOMAIN docs'
      PROVE  IF i < at' THEN RoleKept(docs'[i], warns', input) ELSE Bears(docs'[i], input)
  <2>1. RoleKept(r.docs[1], r.warns, input)
    <3>1. Bears(docs[at], input) /\ NewDoc(docs[at], input, "v3")
      BY <1>3, <1>4, <1>5 DEF RoleStays, Borne, AllNew
    <3> QED
      BY <1>5, <3>1, ScanKeepsRole
  <2> HIDE DEF r
  <2>2. CASE i = at
    <3>1. docs'[i] = r.docs[1] /\ i < at' /\ r.warns \subseteq warns'
      BY <1>2, <1>3, <1>4, <2>2
    <3> QED
      BY <2>1, <3>1 DEF RoleKept
  <2>3. CASE i # at
    <3>1. docs'[i] = docs[i] /\ i \in DOMAIN docs /\ (i < at' <=> i < at)
      BY <1>2, <1>3, <1>4, <2>3
    <3>2. IF i < at THEN RoleKept(docs[i], warns, input) ELSE Bears(docs[i], input)
      BY <1>5, <3>1 DEF RoleStays, Borne
    <3> QED
      BY <1>2, <3>1, <3>2 DEF RoleKept
  <2> QED
    BY <2>2, <2>3
<1>6. Borne'
  BY <1>2, <1>5 DEF Borne
<1> QED
  BY <1>1, <1>6 DEF RoleStays

LEMMA JudgeRole ==
  ASSUME RoleStays, Judge
  PROVE  RoleStays'
<1>1. Staged'
  BY JudgeStaged DEF RoleStays
<1> QED
  BY <1>1 DEF RoleStays, Borne, Judge

LEMMA AgainRole ==
  ASSUME RoleStays, Again
  PROVE  RoleStays'
<1>1. Staged'
  BY AgainStaged DEF RoleStays
<1>2. docs' = <<>>
  BY DEF Again
<1> QED
  BY <1>1, <1>2, NoDomain DEF RoleStays, Borne

LEMMA StutterRole ==
  ASSUME RoleStays, UNCHANGED vars
  PROVE  RoleStays'
<1>1. Staged'
  BY StutterStaged DEF RoleStays
<1> QED
  BY <1>1 DEF RoleStays, Borne, vars

LEMMA NextRole ==
  ASSUME RoleStays, [Next]_vars
  PROVE  RoleStays'
BY ConvertRole, PlaceRole, SplitRole, ScanRole, JudgeRole, AgainRole, StutterRole
   DEF Next, Finished

LEMMA InitRole == Init => RoleStays
<1>1. Init => docs = <<>>
  BY DEF Init
<1> QED
  BY <1>1, InitStaged, NoDomain DEF RoleStays, Borne

\* What has converged was scanned to the end.
LEMMA RoleAtEnd == RoleStays => ProducerStays
<1> SUFFICES ASSUME RoleStays, Converged, target = "v3", Producing(input),
                    NEW i \in DOMAIN docs, docs[i].to # <<>>
             PROVE  IF TagOrNone(input.labels, Zone) # None THEN IsProducer(docs[i], "v3")
                    ELSE "no longer a producer" \in warns
  BY DEF ProducerStays, Range
<1>1. at = Len(docs) + 1
  BY DEF RoleStays, Staged, Judged, Converged
<1>2. i < at
  BY <1>1, LengthOfDocs DEF RoleStays, Staged, FromInput
<1> QED
  BY <1>2 DEF RoleStays, Borne, RoleKept

\* A producer policy whose zone is known stays one on 3.0, and of one whose zone is
\* not a warning says that it is none any more (pinProducerZoneForV3).
THEOREM AlwaysProducer == Spec => []ProducerStays
<1>1. Init => RoleStays
  BY InitRole
<1>2. RoleStays /\ [Next]_vars => RoleStays'
  BY NextRole
<1>3. RoleStays => ProducerStays
  BY RoleAtEnd
<1> QED
  BY <1>1, <1>2, <1>3, PTL DEF Spec

-----------------------------------------------------------------------------
(***************************************************************************)
(* What a legacy policy configures: tags and the labels they become.       *)
(***************************************************************************)
LEMMA OnlyTag ==
  ASSUME NEW f, NEW S, NEW k
  PROVE  TagOrNone(Only(f, S), k) = IF k \in S THEN TagOrNone(f, k) ELSE None
  BY DEF TagOrNone, Only

LEMMA WithIfAnyTag ==
  ASSUME NEW f, NEW k, NEW v, NEW j
  PROVE  TagOrNone(WithIfAny(f, k, v), j)
           = IF j = k /\ v # None THEN v ELSE TagOrNone(f, j)
  BY DEF TagOrNone, WithIfAny, With

\* A value that is not absent is what a key has.
Present(f) == \A k \in DOMAIN f : f[k] # None

LEMMA PresentMeans ==
  ASSUME NEW f, Present(f), NEW k
  PROVE  k \in DOMAIN f <=> TagOrNone(f, k) # None
  BY DEF Present, TagOrNone

LEMMA PresentKept ==
  ASSUME NEW f, Present(f)
  PROVE  /\ \A S : Present(Only(f, S))
         /\ \A k, v : Present(WithIfAny(f, k, v))
<1>1. \A S : Present(Only(f, S))
  BY DEF Present, Only
<1>2. ASSUME NEW k, NEW v PROVE Present(WithIfAny(f, k, v))
  BY DEF Present, WithIfAny, With
<1> QED
  BY <1>1, <1>2

LEMMA MatchesMeans ==
  ASSUME NEW f, Present(f), NEW g, Present(g)
  PROVE  Matches(f, g) <=> \A k : TagOrNone(f, k) # None => TagOrNone(g, k) = TagOrNone(f, k)
  BY DEF Matches, Present, TagOrNone

LEMMA SelectorMatchesMeans ==
  ASSUME NEW tags, Present(tags), \A k \in DOMAIN tags : tags[k] # Wildcard,
         NEW x, Present(x.tags)
  PROVE  SelectorMatches(tags, x)
           <=> \A k : TagOrNone(tags, k) # None => TagOrNone(x.tags, k) = TagOrNone(tags, k)
  BY DEF SelectorMatches, Present, TagOrNone

\* The labels L say what the tags say, but for the tags that are no labels, and
\* the label key holds the name.
SaysAsLabels(L, tags, key, name) ==
  /\ Present(L)
  /\ TagOrNone(L, key) = name
  /\ \A k : k \notin TagsAlone \union {key, Namespace} => TagOrNone(L, k) = TagOrNone(tags, k)
  /\ \A k \in TagsAlone : k # key => TagOrNone(L, k) = None

NameOf(tags) == IF Service \in DOMAIN tags THEN ParsedName(tags[Service]) ELSE TagOrNone(tags, ServiceName)
NsOf(tags)   == IF Service \in DOMAIN tags THEN ParsedNamespace(tags[Service])
                ELSE TagOrNone(tags, Namespace)

LEMMA SameServiceTag ==
  ASSUME NEW v, NEW w, IsServiceTag(v), IsServiceTag(w), v # None, w # None,
         ParsedName(v) = ParsedName(w), ParsedNamespace(v) = ParsedNamespace(w)
  PROVE  v = w
<1>1. \A a, b : /\ <<a, b>>[1] = a /\ <<a, b>>[2] = b /\ Len(<<a, b>>) = 2
                /\ <<a>>[1] = a /\ Len(<<a>>) = 1
  OBVIOUS
<1>2. \A a, b : <<a>> = <<b>> => a = b
  BY <1>1
<1>3. v[1] = w[1]
  BY <1>2 DEF ParsedName
<1>4. CASE v = <<v[1]>>
  <2>1. Len(v) = 1 /\ ParsedNamespace(v) = None
    BY <1>1, <1>4, PlainName
  <2>2. w = <<w[1]>>
    <3>1. CASE w = <<w[1], w[2]>>
      <4>1. Len(w) = 2
        BY <1>1, <3>1
      <4> QED
        BY <2>1, <4>1 DEF ParsedNamespace, None
    <3> QED
      BY <3>1 DEF IsServiceTag
  <2> QED
    BY <1>3, <1>4, <2>2
<1>5. CASE v = <<v[1], v[2]>>
  <2>1. Len(v) = 2 /\ ParsedNamespace(v) = <<v[2]>>
    BY <1>1, <1>5 DEF ParsedNamespace
  <2>2. ParsedNamespace(w) = <<v[2]>> /\ <<v[2]>> # None
    BY <2>1 DEF None
  <2>3. Len(w) = 2 /\ w[2] = v[2]
    BY <1>2, <2>2 DEF ParsedNamespace
  <2>4. w = <<w[1], w[2]>>
    BY <1>1, <2>3 DEF IsServiceTag
  <2> QED
    BY <1>3, <1>5, <2>3, <2>4
<1> QED
  BY <1>4, <1>5 DEF IsServiceTag

\* The keys the lemmas tell apart.
LEMMA KeysDiffer ==
  /\ Service # ServiceName /\ Service # Namespace /\ Service # Zone /\ Service # Protocol
  /\ Service # DisplayName /\ Service # Origin /\ Service # "app"
  /\ ServiceName # Namespace /\ ServiceName # Zone /\ ServiceName # Protocol
  /\ ServiceName # DisplayName /\ ServiceName # Origin /\ ServiceName # "app"
  /\ Namespace # Zone /\ Namespace # Protocol /\ Namespace # DisplayName /\ Namespace # Origin
  /\ Namespace # "app"
  /\ Zone # Protocol /\ Zone # DisplayName /\ Zone # Origin /\ Zone # "app"
  /\ Protocol # DisplayName /\ Protocol # Origin /\ Protocol # "app"
  /\ DisplayName # Origin /\ DisplayName # "app" /\ Origin # "app"
  BY DEF Service, ServiceName, Namespace, Zone, Protocol, DisplayName, Origin

\* A selector that says more than "everything", or nothing at all.
Narrow(tags) == \A k \in DOMAIN tags : tags[k] # Wildcard

LEMMA DescribedMeans ==
  ASSUME NEW x, NEW key, Described(x, key)
  PROVE  LET value == TagOrNone(x.tags, Service) IN
         /\ value # None /\ IsServiceTag(value)
         /\ Present(x.tags) /\ Present(x.labels)
         /\ TagOrNone(x.labels, key) = ParsedName(value)
         /\ TagOrNone(x.tags, Namespace) = ParsedNamespace(value)
         /\ TagOrNone(x.tags, ServiceName)
              = IF ParsedNamespace(value) = None THEN None ELSE ParsedName(value)
         /\ \A k : k \notin TagsAlone \union {key} => TagOrNone(x.tags, k) = TagOrNone(x.labels, k)
         /\ ParsedName(value) # None
<1> DEFINE value == TagOrNone(x.tags, Service)
<1>1. Present(x.tags) /\ Present(x.labels)
  BY Zenon DEF Described, Present
<1>2. ParsedName(value) # None
  BY DEF Described, ParsedName, None
<1>3. ASSUME NEW k, k \notin TagsAlone \union {key}
      PROVE  TagOrNone(x.tags, k) = TagOrNone(x.labels, k)
  <2>1. CASE k \in DOMAIN x.tags \union DOMAIN x.labels
    BY <1>3, <2>1, Zenon DEF Described
  <2>2. CASE k \notin DOMAIN x.tags \union DOMAIN x.labels
    BY <2>2 DEF TagOrNone
  <2> QED
    BY <2>1, <2>2
<1> QED
  BY <1>1, <1>2, <1>3, Zenon DEF Described

\* The tags of a service, as the matchers see them.
LEMMA ServiceMatches ==
  ASSUME NEW key, NEW x \in Proxies \union Services, Described(x, key),
         NEW tags, ClearSelector(tags), Narrow(tags),
         DOMAIN tags \intersect IdentityTags # {}
  PROVE  LET value == TagOrNone(x.tags, Service)
             named == ParsedName(value) = NameOf(tags)
                      /\ (NsOf(tags) # None => ParsedNamespace(value) = NsOf(tags))
         IN /\ named => \A k \in IdentityTags \union {Namespace} :
                          TagOrNone(tags, k) # None => TagOrNone(x.tags, k) = TagOrNone(tags, k)
            /\ (\A k \in IdentityTags \union {Namespace} :
                  TagOrNone(tags, k) # None => TagOrNone(x.tags, k) = TagOrNone(tags, k))
               => named
            /\ NameOf(tags) # None
<1> DEFINE value == TagOrNone(x.tags, Service)
           s     == TagOrNone(tags, Service)
<1>1. /\ value # None /\ IsServiceTag(value)
      /\ TagOrNone(x.tags, Namespace) = ParsedNamespace(value)
      /\ TagOrNone(x.tags, ServiceName)
           = IF ParsedNamespace(value) = None THEN None ELSE ParsedName(value)
  BY DescribedMeans
<1>2. Present(tags) /\ s # Wildcard /\ ClearService(tags)
      /\ (ServiceName \in DOMAIN tags => Namespace \in DOMAIN tags)
  <2>1. Wildcard # None
    BY DEF Wildcard, None
  <2> QED
    BY <2>1 DEF ClearSelector, Present, Narrow, TagOrNone
<1>3. CASE Service \in DOMAIN tags
  <2>1. s # None /\ tags[Service] = s
    BY <1>2, <1>3 DEF Present, TagOrNone
  <2>2. /\ IsServiceTag(s)
        /\ TagOrNone(tags, Namespace) \in {None, ParsedNamespace(s)}
        /\ TagOrNone(tags, ServiceName) \in {None, ParsedName(s)}
        /\ ParsedNamespace(s) = None => MeansOneService(s)
    BY <1>2, <2>1, Zenon DEF ClearService
  <2>3. NameOf(tags) = ParsedName(s) /\ NsOf(tags) = ParsedNamespace(s)
    BY <1>3, <2>1 DEF NameOf, NsOf
  <2>4. ServiceName \in DOMAIN tags => ParsedNamespace(s) # None
    BY <1>2, <2>2, PresentMeans
  <2>5. ParsedName(s) # None
    BY <2>1 DEF ParsedName, None
  <2>6. x.tags[Service] = value
    BY <1>1 DEF TagOrNone
  <2>7. ASSUME ParsedName(value) = ParsedName(s),
               ParsedNamespace(s) # None => ParsedNamespace(value) = ParsedNamespace(s)
        PROVE  value = s
    <3>1. CASE ParsedNamespace(s) # None
      BY <1>1, <2>1, <2>2, <2>7, <3>1, SameServiceTag
    <3>2. CASE ParsedNamespace(s) = None
      <4>1. s = ParsedName(s)
        <5>1. \A a, b : Len(<<a, b>>) = 2 /\ <<a, b>>[2] = b
          OBVIOUS
        <5>2. s = <<s[1]>>
          BY <2>2, <3>2, <5>1 DEF IsServiceTag, ParsedNamespace, None
        <5> QED
          BY <2>1, <5>2 DEF ParsedName
      <4> QED
        BY <2>2, <2>6, <2>7, <3>2, <4>1 DEF MeansOneService
    <3> QED
      BY <3>1, <3>2
  <2> HIDE DEF s, value
  <2>8. Service \in DOMAIN tags /\ TagOrNone(tags, Service) = s /\ TagOrNone(x.tags, Service) = value
    BY <1>3 DEF s, value
  <2>9. TagOrNone(tags, ServiceName) # None => ParsedNamespace(s) # None
    BY <2>4 DEF TagOrNone
  <2> QED
    BY <1>1, <2>1, <2>2, <2>3, <2>5, <2>7, <2>8, <2>9 DEF IdentityTags, value
<1>4. CASE Service \notin DOMAIN tags
  <2>1. ServiceName \in DOMAIN tags /\ Namespace \in DOMAIN tags
    BY <1>2, <1>4 DEF IdentityTags
  <2>2. /\ s = None /\ TagOrNone(tags, ServiceName) # None /\ TagOrNone(tags, Namespace) # None
        /\ NameOf(tags) = TagOrNone(tags, ServiceName) /\ NsOf(tags) = TagOrNone(tags, Namespace)
    BY <1>2, <1>4, <2>1 DEF Present, TagOrNone, NameOf, NsOf
  <2> HIDE DEF value
  <2> QED
    BY <1>1, <2>2 DEF IdentityTags, value
<1> QED
  BY <1>3, <1>4

LabelKey(topLevel) == IF topLevel THEN "app" ELSE DisplayName

\* None of the tags is dropped.
AllKept(tags) == DOMAIN tags \intersect {Protocol, DisplayName} = {}

\* The labels of a service's tags select what the tags did, and more only if
\* some of the tags are dropped.
LEMMA ServiceLabelsSelect ==
  ASSUME NEW key \in {"app", DisplayName}, NEW x \in Proxies \union Services, Described(x, key),
         NEW tags, ClearSelector(tags), Narrow(tags),
         DOMAIN tags \intersect IdentityTags # {},
         NEW L, SaysAsLabels(L, tags, key, NameOf(tags)), TagOrNone(L, Namespace) = NsOf(tags)
  PROVE  /\ SelectorMatches(tags, x) => Matches(L, x.labels)
         /\ Matches(L, x.labels) /\ AllKept(tags) => SelectorMatches(tags, x)
<1> DEFINE value == TagOrNone(x.tags, Service)
           T(k)  == TagOrNone(tags, k)
           XT(k) == TagOrNone(x.tags, k)
           XL(k) == TagOrNone(x.labels, k)
           M(k)  == TagOrNone(L, k)
           named == ParsedName(value) = NameOf(tags)
                      /\ (NsOf(tags) # None => ParsedNamespace(value) = NsOf(tags))
<1>1. Present(tags) /\ Present(L) /\ Present(x.tags) /\ Present(x.labels)
  BY DescribedMeans DEF ClearSelector, Present, SaysAsLabels
<1>2. SelectorMatches(tags, x) <=> \A k : T(k) # None => XT(k) = T(k)
  BY <1>1, SelectorMatchesMeans DEF Narrow
<1>3. Matches(L, x.labels) <=> \A k : M(k) # None => XL(k) = M(k)
  BY <1>1, MatchesMeans
<1>4. /\ named <=> \A k \in IdentityTags \union {Namespace} : T(k) # None => XT(k) = T(k)
      /\ NameOf(tags) # None
  BY ServiceMatches
<1>5. /\ XL(key) = ParsedName(value) /\ XL(Namespace) = ParsedNamespace(value)
      /\ \A k : k \notin TagsAlone \union {key} => XT(k) = XL(k)
  <2>1. Namespace \notin TagsAlone \union {key}
    BY KeysDiffer DEF TagsAlone
  <2> QED
    BY <2>1, DescribedMeans
<1>6. /\ M(key) = NameOf(tags) /\ M(Namespace) = NsOf(tags)
      /\ \A k : k \notin TagsAlone \union {key, Namespace} => M(k) = T(k)
      /\ \A k \in TagsAlone : k # key => M(k) = None
  BY DEF SaysAsLabels
<1>7. T("app") = None
  BY DEF ClearSelector, TagOrNone
<1>8. AllKept(tags) => T(Protocol) = None /\ T(DisplayName) = None
  BY DEF AllKept, TagOrNone
<1> HIDE DEF T, XT, XL, M, value
<1>9. key # Namespace
  BY KeysDiffer
<1>10. (\A k : M(k) # None => XL(k) = M(k))
         <=> /\ named
             /\ \A k : k \notin TagsAlone \union {key, Namespace} => (T(k) # None => XT(k) = T(k))
  BY <1>4, <1>5, <1>6, <1>9 DEF named
<1>11. (\A k : T(k) # None => XT(k) = T(k))
         => /\ named
            /\ \A k : k \notin TagsAlone \union {key, Namespace} => (T(k) # None => XT(k) = T(k))
  BY <1>4
<1>12. ASSUME AllKept(tags), named,
              \A k : k \notin TagsAlone \union {key, Namespace} => (T(k) # None => XT(k) = T(k)),
              NEW k, T(k) # None
       PROVE  XT(k) = T(k)
  BY <1>4, <1>7, <1>8, <1>12 DEF TagsAlone, IdentityTags
<1> QED
  BY <1>2, <1>3, <1>10, <1>11, <1>12

\* And so do the labels of tags that name no service.
LEMMA OtherLabelsSelect ==
  ASSUME NEW x, Described(x, "app"), NEW tags, ClearSelector(tags), Narrow(tags),
         DOMAIN tags \intersect IdentityTags = {},
         NEW L, SaysAsLabels(L, tags, "app", None),
         TagOrNone(L, Namespace) = TagOrNone(tags, Namespace)
  PROVE  /\ SelectorMatches(tags, x) => Matches(L, x.labels)
         /\ Matches(L, x.labels) /\ AllKept(tags) => SelectorMatches(tags, x)
<1> DEFINE T(k)  == TagOrNone(tags, k)
           XT(k) == TagOrNone(x.tags, k)
           XL(k) == TagOrNone(x.labels, k)
           M(k)  == TagOrNone(L, k)
<1>1. Present(tags) /\ Present(L) /\ Present(x.tags) /\ Present(x.labels)
  BY DescribedMeans DEF ClearSelector, Present, SaysAsLabels
<1>2. SelectorMatches(tags, x) <=> \A k : T(k) # None => XT(k) = T(k)
  BY <1>1, SelectorMatchesMeans DEF Narrow
<1>3. Matches(L, x.labels) <=> \A k : M(k) # None => XL(k) = M(k)
  BY <1>1, MatchesMeans
<1>4. /\ \A k : k \notin TagsAlone \union {"app"} => XT(k) = XL(k)
      /\ Namespace \notin TagsAlone \union {"app"}
  <2>1. Namespace \notin TagsAlone \union {"app"}
    BY KeysDiffer DEF TagsAlone
  <2> QED
    BY <2>1, DescribedMeans
<1>5. /\ M("app") = None /\ M(Namespace) = T(Namespace)
      /\ \A k : k \notin TagsAlone \union {"app", Namespace} => M(k) = T(k)
      /\ \A k \in TagsAlone : k # "app" => M(k) = None
  BY DEF SaysAsLabels
<1>6. T("app") = None /\ T(Service) = None /\ T(ServiceName) = None
  BY DEF ClearSelector, TagOrNone, IdentityTags
<1>7. AllKept(tags) => T(Protocol) = None /\ T(DisplayName) = None
  BY DEF AllKept, TagOrNone
<1> HIDE DEF T, XT, XL, M
<1>8. (\A k : T(k) # None => XT(k) = T(k)) => \A k : M(k) # None => XL(k) = M(k)
  BY <1>4, <1>5
<1>9. ASSUME AllKept(tags), \A k : M(k) # None => XL(k) = M(k), NEW k, T(k) # None
      PROVE  XT(k) = T(k)
  BY <1>4, <1>5, <1>6, <1>7, <1>9 DEF TagsAlone
<1> QED
  BY <1>2, <1>3, <1>8, <1>9

-----------------------------------------------------------------------------
(***************************************************************************)
(* The labels each conversion makes.                                       *)
(***************************************************************************)
NeverALabel == {Service, ServiceName, Namespace, Zone, Protocol, DisplayName}

LEMMA LabelsOfOthers ==
  ASSUME NEW tags, Present(tags)
  PROVE  LET base == selectorLabelsFromTags(OtherTags(tags)) IN
         /\ Present(base)
         /\ \A k : TagOrNone(base, k) = IF k \in NeverALabel THEN None ELSE TagOrNone(tags, k)
         /\ DropWarning(OtherTags(tags)) = IF AllKept(tags) THEN {} ELSE {"dropped tags"}
<1> DEFINE others == OtherTags(tags)
           never  == NeverLabels(others)
           base   == selectorLabelsFromTags(others)
<1>1. Present(others) /\ \A k : TagOrNone(others, k) =
        IF k \in {Service, ServiceName, Namespace, Zone} THEN None ELSE TagOrNone(tags, k)
  <2>1. others = Only(tags, DOMAIN tags \ {Service, ServiceName, Namespace, Zone})
    BY DEF OtherTags
  <2> HIDE DEF others
  <2>2. Present(others)
    BY <2>1, PresentKept
  <2>3. ASSUME NEW k
        PROVE  TagOrNone(others, k) =
                 IF k \in {Service, ServiceName, Namespace, Zone} THEN None ELSE TagOrNone(tags, k)
    <3>1. TagOrNone(others, k) = IF k \in DOMAIN tags \ {Service, ServiceName, Namespace, Zone}
                                 THEN TagOrNone(tags, k) ELSE None
      BY <2>1, OnlyTag
    <3> QED
      BY <3>1 DEF TagOrNone
  <2> QED
    BY <2>2, <2>3
<1>2. never = {Protocol, DisplayName} \intersect DOMAIN tags
  <2>1. DOMAIN others = DOMAIN tags \ {Service, ServiceName, Namespace, Zone}
    BY DEF OtherTags, Only
  <2>2. ReservedTags \ selectorLabelTags = {Service, ServiceName, Protocol, DisplayName}
    BY KeysDiffer DEF ReservedTags, selectorLabelTags
  <2> HIDE DEF others
  <2>3. never = DOMAIN others \intersect {Service, ServiceName, Protocol, DisplayName}
    BY <2>2 DEF NeverLabels
  <2> QED
    BY <2>1, <2>3, KeysDiffer
<1>3. base = Only(others, DOMAIN others \ never)
  BY DEF selectorLabelsFromTags
<1>4. DropWarning(others) = IF never = {} THEN {} ELSE {"dropped tags"}
  BY DEF DropWarning
<1> HIDE DEF base, others, never
<1>5. Present(base)
  BY <1>1, <1>3, PresentKept
<1>6. ASSUME NEW k
      PROVE  TagOrNone(base, k) = IF k \in NeverALabel THEN None ELSE TagOrNone(tags, k)
  <2>1. TagOrNone(base, k) = IF k \in DOMAIN others \ never THEN TagOrNone(others, k) ELSE None
    BY <1>3, OnlyTag
  <2>2. k \in DOMAIN others <=> TagOrNone(others, k) # None
    BY <1>1, PresentMeans
  <2>3. k \in DOMAIN tags <=> TagOrNone(tags, k) # None
    BY PresentMeans
  <2> QED
    BY <1>1, <1>2, <2>1, <2>2, <2>3 DEF NeverALabel
<1>7. never = {} <=> AllKept(tags)
  BY <1>2 DEF AllKept
<1> QED
  BY <1>4, <1>5, <1>6, <1>7 DEF base, others

\* What built labels say.
SaidBy(b, tags, name, ns, topLevel) ==
  /\ SaysAsLabels(b.labels, tags, LabelKey(topLevel), name)
  /\ TagOrNone(b.labels, Namespace) = ns
  /\ ~AllKept(tags) => "dropped tags" \in b.warns

LEMMA BuiltLabels ==
  ASSUME NEW tags, ClearSelector(tags), NEW name, name # None, NEW ns,
         NEW topLevel \in BOOLEAN
  PROVE  SaidBy(buildLabels(name, ns, TagOrNone(tags, Zone), OtherTags(tags), topLevel), tags,
                name, ns, topLevel)
<1> DEFINE zone == TagOrNone(tags, Zone)
           b    == buildLabels(name, ns, zone, OtherTags(tags), topLevel)
           base == selectorLabelsFromTags(OtherTags(tags))
           key  == LabelKey(topLevel)
           L1   == WithIfAny(base, key, name)
           L2   == WithIfAny(L1, Namespace, ns)
           L    == WithIfAny(L2, Zone, zone)
<1>1. Present(tags)
  BY DEF ClearSelector, Present
<1>2. /\ Present(base)
      /\ \A k : TagOrNone(base, k) = IF k \in NeverALabel THEN None ELSE TagOrNone(tags, k)
      /\ DropWarning(OtherTags(tags)) = IF AllKept(tags) THEN {} ELSE {"dropped tags"}
  BY <1>1, LabelsOfOthers
<1>3. b.labels = L /\ DropWarning(OtherTags(tags)) \subseteq b.warns
  BY DEF buildLabels, LabelKey
<1>4. key \in {"app", DisplayName} /\ key # Namespace /\ key # Zone
  BY KeysDiffer DEF LabelKey
<1> HIDE DEF base, b, key, zone
<1>5. Present(L1) /\ \A k : TagOrNone(L1, k) = IF k = key THEN name ELSE TagOrNone(base, k)
  <2>1. Present(L1)
    BY <1>2, PresentKept, Zenon
  <2>2. \A k : TagOrNone(L1, k) = IF k = key /\ name # None THEN name ELSE TagOrNone(base, k)
    BY WithIfAnyTag
  <2> QED
    BY <2>1, <2>2
<1> HIDE DEF L1
<1>6. Present(L2) /\ \A k : TagOrNone(L2, k) =
        IF k = Namespace /\ ns # None THEN ns ELSE TagOrNone(L1, k)
  BY <1>5, PresentKept, WithIfAnyTag
<1> HIDE DEF L2
<1>7. Present(L) /\ \A k : TagOrNone(L, k) =
        IF k = Zone /\ zone # None THEN zone ELSE TagOrNone(L2, k)
  BY <1>6, PresentKept, WithIfAnyTag
<1> HIDE DEF L
<1>8. \A k : TagOrNone(L, k) = IF k = Zone THEN zone ELSE IF k = Namespace THEN ns
                               ELSE IF k = key THEN name
                               ELSE IF k \in NeverALabel THEN None ELSE TagOrNone(tags, k)
  BY <1>2, <1>4, <1>5, <1>6, <1>7, KeysDiffer DEF NeverALabel
<1>9. TagOrNone(L, key) = name /\ TagOrNone(L, Namespace) = ns
  BY <1>4, <1>8, KeysDiffer
<1>10. ASSUME NEW k, k \notin TagsAlone \union {key, Namespace}
       PROVE  TagOrNone(L, k) = TagOrNone(tags, k)
  <2>1. k \notin NeverALabel \/ k = Zone
    BY <1>10 DEF NeverALabel, TagsAlone
  <2> QED
    BY <1>8, <1>10, <2>1 DEF zone
<1>11. \A k \in TagsAlone : k # key => TagOrNone(L, k) = None
  BY <1>8, KeysDiffer DEF NeverALabel, TagsAlone
<1>12. SaysAsLabels(L, tags, key, name)
  BY <1>7, <1>9, <1>10, <1>11 DEF SaysAsLabels
<1> QED
  BY <1>2, <1>3, <1>9, <1>12 DEF b, key, zone, SaidBy

LEMMA SubsetLabelsSay ==
  ASSUME NEW tags, ClearSelector(tags)
  PROVE  /\ SaysAsLabels(SubsetLabels(tags), tags, "app", None)
         /\ TagOrNone(SubsetLabels(tags), Namespace) = TagOrNone(tags, Namespace)
<1> DEFINE zone == TagOrNone(tags, Zone)
           ns   == TagOrNone(tags, Namespace)
           base == selectorLabelsFromTags(OtherTags(tags))
           L2   == WithIfAny(base, Namespace, ns)
           L    == WithIfAny(L2, Zone, zone)
<1>1. Present(tags) /\ TagOrNone(tags, "app") = None
  BY DEF ClearSelector, Present, TagOrNone
<1>2. /\ Present(base)
      /\ \A k : TagOrNone(base, k) = IF k \in NeverALabel THEN None ELSE TagOrNone(tags, k)
  BY <1>1, LabelsOfOthers
<1>3. SubsetLabels(tags) = L
  BY DEF SubsetLabels
<1> HIDE DEF base, zone, ns
<1>4. Present(L2) /\ \A k : TagOrNone(L2, k) =
        IF k = Namespace /\ ns # None THEN ns ELSE TagOrNone(base, k)
  BY <1>2, PresentKept, WithIfAnyTag
<1> HIDE DEF L2
<1>5. Present(L) /\ \A k : TagOrNone(L, k) =
        IF k = Zone /\ zone # None THEN zone ELSE TagOrNone(L2, k)
  BY <1>4, PresentKept, WithIfAnyTag
<1> HIDE DEF L
<1>6. \A k : TagOrNone(L, k) = IF k = Zone THEN zone ELSE IF k = Namespace THEN ns
                               ELSE IF k \in NeverALabel THEN None ELSE TagOrNone(tags, k)
  BY <1>2, <1>4, <1>5, KeysDiffer DEF NeverALabel
<1>7. TagOrNone(L, "app") = None /\ TagOrNone(L, Namespace) = ns
  BY <1>1, <1>6, KeysDiffer DEF NeverALabel
<1>8. ASSUME NEW k, k \notin TagsAlone \union {"app", Namespace}
      PROVE  TagOrNone(L, k) = TagOrNone(tags, k)
  <2>1. k \notin NeverALabel \/ k = Zone
    BY <1>8 DEF NeverALabel, TagsAlone
  <2> QED
    BY <1>6, <1>8, <2>1 DEF zone
<1>9. \A k \in TagsAlone : k # "app" => TagOrNone(L, k) = None
  BY <1>6, KeysDiffer DEF NeverALabel, TagsAlone
<1>10. SaysAsLabels(L, tags, "app", None)
  BY <1>5, <1>7, <1>8, <1>9 DEF SaysAsLabels
<1> QED
  BY <1>3, <1>7, <1>10 DEF ns

-----------------------------------------------------------------------------
(***************************************************************************)
(* What each selector of a legacy policy becomes.                          *)
(***************************************************************************)
IsAll(tags) == DOMAIN tags = {} \/ TagOrNone(tags, Service) = Wildcard

LEMMA AllOrNarrow ==
  ASSUME NEW tags, ClearSelector(tags)
  PROVE  /\ IsAll(tags) \/ (Narrow(tags) /\ DOMAIN tags # {} /\ TagOrNone(tags, Service) # Wildcard)
         /\ IsAll(tags) => DOMAIN tags = {} \/ (DOMAIN tags = {Service} /\ tags[Service] = Wildcard)
<1>1. Wildcard # None
  BY DEF Wildcard, None
<1>2. CASE \E k \in DOMAIN tags : tags[k] = Wildcard
  <2>1. DOMAIN tags = {Service}
    BY <1>2 DEF ClearSelector
  <2> QED
    BY <1>2, <2>1 DEF IsAll, TagOrNone
<1>3. CASE \A k \in DOMAIN tags : tags[k] # Wildcard
  <2>1. TagOrNone(tags, Service) # Wildcard
    BY <1>1, <1>3 DEF TagOrNone
  <2> QED
    BY <1>3, <2>1 DEF IsAll, Narrow
<1> QED
  BY <1>2, <1>3

\* Whichever of both service tags the map yields last, the name and the
\* namespace are the same.
LEMMA ResolvedName ==
  ASSUME NEW tags, ClearSelector(tags), Narrow(tags), DOMAIN tags \intersect IdentityTags # {},
         NEW l \in IdentityTags
  PROVE  LET tag == ServiceTag(tags, l) IN
         /\ tags[tag] # Wildcard
         /\ (IF tag = Service THEN ParsedName(tags[tag]) ELSE tags[tag]) = NameOf(tags)
         /\ ResolvedNamespace(tags, tag, None) = NsOf(tags)
         /\ NameOf(tags) # None
<1> DEFINE tag == ServiceTag(tags, l)
           s   == TagOrNone(tags, Service)
           n   == TagOrNone(tags, ServiceName)
           ns  == TagOrNone(tags, Namespace)
<1>1. tag \in DOMAIN tags /\ (tag = Service \/ tag = ServiceName)
      /\ (tag = ServiceName /\ Service \in DOMAIN tags => ServiceName \in DOMAIN tags)
  BY ServiceTagMeans
<1>2. Present(tags) /\ tags[tag] # Wildcard /\ tags[tag] # None
  BY <1>1 DEF ClearSelector, Present, Narrow
<1>3. ClearService(tags) /\ (ServiceName \in DOMAIN tags => Namespace \in DOMAIN tags)
  BY DEF ClearSelector
<1>4. Service \in DOMAIN tags => s = tags[Service] /\ s # None /\ s # Wildcard
  BY <1>2 DEF Present, TagOrNone, Narrow
<1>5. ServiceName \in DOMAIN tags => n = tags[ServiceName] /\ n # None /\ ns # None
  BY <1>2, <1>3 DEF Present, TagOrNone
<1>6. Service \in DOMAIN tags =>
        ns \in {None, ParsedNamespace(s)} /\ n \in {None, ParsedName(s)}
  BY <1>3, <1>4, Zenon DEF ClearService
<1>7. ResolvedNamespace(tags, tag, None)
        = LET p == IF tag = Service THEN ParsedNamespace(tags[tag]) ELSE None
          IN IF p # None THEN p ELSE IF ns # None THEN ns ELSE None
  BY Zenon DEF ResolvedNamespace, FirstKnown
<1>8. Service # ServiceName
  BY KeysDiffer
<1>9. \A v : v # None => ParsedName(v) # None
  BY DEF ParsedName, None
<1> HIDE DEF tag, s, n, ns
<1>10. CASE Service \in DOMAIN tags
  <2>1. NameOf(tags) = ParsedName(s) /\ NsOf(tags) = ParsedNamespace(s) /\ ParsedName(s) # None
    BY <1>4, <1>9, <1>10 DEF NameOf, NsOf
  <2>2. CASE tag = Service
    BY <1>2, <1>4, <1>6, <1>7, <1>10, <2>1, <2>2 DEF tag
  <2>3. CASE tag = ServiceName
    <3>1. n = tags[ServiceName] /\ n # None /\ ns # None
      BY <1>1, <1>5, <2>3
    <3> QED
      BY <1>2, <1>6, <1>7, <1>8, <1>10, <2>1, <2>3, <3>1 DEF tag
  <2> QED
    BY <1>1, <2>2, <2>3
<1>11. CASE Service \notin DOMAIN tags
  <2>1. tag = ServiceName /\ NameOf(tags) = n /\ NsOf(tags) = ns
    BY <1>1, <1>11 DEF NameOf, NsOf, n, ns
  <2> QED
    BY <1>1, <1>2, <1>5, <1>7, <1>8, <2>1 DEF tag
<1> QED
  BY <1>10, <1>11

\* Labels that stand for the tags of a selector.
LabelsFor(L, tags, topLevel) ==
  \/ /\ DOMAIN tags \intersect IdentityTags # {}
     /\ SaysAsLabels(L, tags, LabelKey(topLevel), NameOf(tags))
     /\ TagOrNone(L, Namespace) = NsOf(tags)
  \/ /\ topLevel /\ DOMAIN tags \intersect IdentityTags = {}
     /\ SaysAsLabels(L, tags, "app", None)
     /\ TagOrNone(L, Namespace) = TagOrNone(tags, Namespace)

ByLabels(c, tags, topLevel) ==
  \E L, W : /\ c = Converted(LabelRef(KindFor(topLevel), L), W)
            /\ LabelsFor(L, tags, topLevel)
            /\ AllKept(tags) \/ "dropped tags" \in W

OnlyService(c, tags, topLevel) ==
  /\ ~topLevel
  /\ c = Converted(ServiceNamed(NameOf(tags), NsOf(tags)), {})
  /\ DOMAIN OtherTags(tags) = {} /\ TagOrNone(tags, Zone) = None

LEMMA ServiceConverted ==
  ASSUME NEW tags, ClearSelector(tags), Narrow(tags), DOMAIN tags \intersect IdentityTags # {},
         NEW topLevel \in BOOLEAN, NEW labelsOnly \in BOOLEAN, NEW l \in IdentityTags
  PROVE  LET c == convertTargetRef(SubsetRef(tags), None, topLevel, labelsOnly, l) IN
         ByLabels(c, tags, topLevel) \/ (~labelsOnly /\ OnlyService(c, tags, topLevel))
<1> DEFINE s    == SubsetRef(tags)
           c    == convertTargetRef(s, None, topLevel, labelsOnly, l)
           tag  == ServiceTag(tags, l)
           name == NameOf(tags)
           ns   == NsOf(tags)
           zone == TagOrNone(tags, Zone)
           b    == buildLabels(name, ns, zone, OtherTags(tags), topLevel)
<1>1. s.kind = "MeshSubset" /\ s.tags = tags
  BY SubsetRefMeans
<1>2. ~HasOldName(s) /\ IsSubset(s)
  BY <1>1 DEF HasOldName, IsSubset
<1>3. /\ tags[tag] # Wildcard
      /\ (IF tag = Service THEN ParsedName(tags[tag]) ELSE tags[tag]) = name
      /\ ResolvedNamespace(tags, tag, None) = ns
      /\ name # None
  BY ResolvedName
<1>4. c = IF DOMAIN OtherTags(tags) # {} \/ zone # None
          THEN Labelled(b, topLevel)
          ELSE Named(name, ns, None, topLevel, labelsOnly)
  BY <1>1, <1>2, <1>3, Zenon DEF convertTargetRef
<1>5. Named(name, ns, None, topLevel, labelsOnly)
        = IF labelsOnly \/ topLevel
          THEN Labelled(buildLabels(name, ns, None, <<>>, topLevel), topLevel)
          ELSE Converted(ServiceNamed(name, ns), {})
  BY Zenon DEF Named, ServiceNamed
<1>6. DOMAIN OtherTags(tags) = {} => OtherTags(tags) = <<>>
  <2>1. OtherTags(tags) = [k \in DOMAIN OtherTags(tags) |-> OtherTags(tags)[k]]
    BY DEF OtherTags, Only
  <2> QED
    BY <2>1
<1>7. /\ SaysAsLabels(b.labels, tags, LabelKey(topLevel), name)
      /\ TagOrNone(b.labels, Namespace) = ns
      /\ ~AllKept(tags) => "dropped tags" \in b.warns
  <2> HIDE DEF name, ns
  <2>1. name # None
    BY <1>3
  <2>2. SaidBy(buildLabels(name, ns, TagOrNone(tags, Zone), OtherTags(tags), topLevel), tags,
               name, ns, topLevel)
    BY <2>1, BuiltLabels, Zenon
  <2> QED
    BY <2>2 DEF SaidBy
<1>8. ByLabels(Labelled(b, topLevel), tags, topLevel)
  <2> HIDE DEF b, name, ns
  <2>1. Labelled(b, topLevel) = Converted(LabelRef(KindFor(topLevel), b.labels), b.warns)
    BY DEF Labelled
  <2>2. LabelsFor(b.labels, tags, topLevel)
    BY <1>7 DEF LabelsFor, name, ns
  <2> QED
    BY <1>7, <2>1, <2>2, Zenon DEF ByLabels
<1>9. CASE DOMAIN OtherTags(tags) # {} \/ zone # None
  BY <1>4, <1>8, <1>9, Zenon
<1>10. CASE DOMAIN OtherTags(tags) = {} /\ zone = None /\ (labelsOnly \/ topLevel)
  <2>1. c = Labelled(buildLabels(name, ns, None, <<>>, topLevel), topLevel)
    BY <1>4, <1>5, <1>10, Zenon
  <2>2. c = Labelled(b, topLevel)
    BY <1>6, <1>10, <2>1, Zenon
  <2> QED
    BY <1>8, <2>2, Zenon
<1>11. CASE DOMAIN OtherTags(tags) = {} /\ zone = None /\ ~(labelsOnly \/ topLevel)
  <2>1. c = Converted(ServiceNamed(name, ns), {})
    BY <1>4, <1>5, <1>11, Zenon
  <2> QED
    BY <1>11, <2>1, Zenon DEF OnlyService
<1> QED
  BY <1>9, <1>10, <1>11

\* What the conversion of a selector yields.
SelectorBecomes(c, tags, topLevel, t) ==
  \/ c = Converted(MeshRef, {}) /\ IsAll(tags)
  \/ c = Converted(SubsetRef(tags), {}) /\ t # "v3"
  \/ Narrow(tags) /\ ByLabels(c, tags, topLevel)
  \/ Narrow(tags) /\ t # "v3" /\ TagOrNone(tags, Service) \notin {None, Wildcard}
       /\ OnlyService(c, tags, topLevel)

LEMMA NotASubset ==
  ASSUME NEW tags, NEW topLevel \in BOOLEAN, NEW c,
         ByLabels(c, tags, topLevel) \/ OnlyService(c, tags, topLevel)
  PROVE  ~IsSubset(c.ref)
<1>1. CASE ByLabels(c, tags, topLevel)
  <2>1. PICK L, W : c = Converted(LabelRef(KindFor(topLevel), L), W)
    BY <1>1 DEF ByLabels
  <2>2. c.ref = LabelRef(KindFor(topLevel), L)
    BY <2>1, RefOfConverted, Zenon
  <2> QED
    BY <2>2, LabelRefMeans DEF IsSubset, KindFor
<1>2. CASE OnlyService(c, tags, topLevel)
  <2>1. c.ref = ServiceNamed(NameOf(tags), NsOf(tags))
    BY <1>2, RefOfConverted, Zenon DEF OnlyService
  <2>2. c.ref.kind = "MeshService"
    BY <2>1, BlankRef DEF ServiceNamed, RefFields
  <2> QED
    BY <2>2 DEF IsSubset
<1> QED
  BY <1>1, <1>2

LEMMA SelectorConverted ==
  ASSUME NEW tags, ClearSelector(tags), NEW topLevel \in BOOLEAN, NEW t, NEW l \in IdentityTags,
         ~ConvertSelectorToTargetRefForTarget(tags, None, topLevel, t, l).err
  PROVE  SelectorBecomes(ConvertSelectorToTargetRefForTarget(tags, None, topLevel, t, l),
                         tags, topLevel, t)
<1> DEFINE c == ConvertSelectorToTargetRefForTarget(tags, None, topLevel, t, l)
           s == SubsetRef(tags)
           labelsOnly == t = "v3"
           d == convertTargetRef(s, None, topLevel, labelsOnly, l)
<1>0. labelsOnly \in BOOLEAN
  OBVIOUS
<1>1. s.kind = "MeshSubset" /\ s.tags = tags /\ ~HasOldName(s) /\ IsSubset(s)
  BY SubsetRefMeans DEF HasOldName, IsSubset
<1>2. CASE IsAll(tags)
  <2>1. c = Converted(MeshRef, {})
    BY <1>2, Zenon DEF ConvertSelectorToTargetRefForTarget, IsAll
  <2> QED
    BY <1>2, <2>1 DEF SelectorBecomes
<1>3. CASE ~IsAll(tags) /\ Service \notin DOMAIN tags /\ t # "v3"
  <2>1. c = Converted(s, {})
    BY <1>3, Zenon DEF ConvertSelectorToTargetRefForTarget, IsAll
  <2> QED
    BY <1>3, <2>1 DEF SelectorBecomes
<1>4. CASE ~IsAll(tags) /\ ~(Service \notin DOMAIN tags /\ t # "v3")
  <2>1. c = WithoutSubset(d, topLevel, t)
    BY <1>4, Zenon DEF ConvertSelectorToTargetRefForTarget, IsAll, ConvertTargetRefForTarget
  <2>2. Narrow(tags) /\ DOMAIN tags # {}
    BY <1>4, AllOrNarrow
  <2> HIDE DEF s, labelsOnly
  <2>3. CASE DOMAIN tags \intersect IdentityTags # {}
    <3>1. ByLabels(d, tags, topLevel) \/ (~labelsOnly /\ OnlyService(d, tags, topLevel))
      BY <1>0, <2>2, <2>3, ServiceConverted DEF s
    <3>2. ~IsSubset(d.ref)
      BY <3>1, NotASubset
    <3> HIDE DEF d
    <3>3. c = d
      BY <2>1, <3>2, Zenon DEF WithoutSubset
    <3>4. t # "v3" => TagOrNone(tags, Service) \notin {None, Wildcard}
      BY <1>4, <2>2 DEF ClearSelector, IsAll, TagOrNone
    <3> HIDE DEF c
    <3> QED
      BY <2>2, <3>1, <3>3, <3>4 DEF SelectorBecomes, labelsOnly, c
  <2>4. CASE DOMAIN tags \intersect IdentityTags = {}
    <3>1. d = ConvertedWithoutService(s, topLevel)
      BY <1>1, <2>4, Zenon DEF convertTargetRef
    <3>2. t = "v3"
      BY <1>4, <2>4 DEF IdentityTags
    <3> DEFINE others == OtherTags(tags)
               L      == SubsetLabels(tags)
    <3>3. d = IF ~topLevel THEN Converted(s, {})
              ELSE IF DOMAIN L = {} THEN Converted(s, DropWarning(others))
              ELSE Converted(LabelRef("Dataplane", L), DropWarning(others))
      BY <1>1, <3>1, Zenon DEF ConvertedWithoutService, SubsetLabels
    <3> HIDE DEF d
    <3>4. topLevel /\ DOMAIN L # {}
      <4>1. CASE ~(topLevel /\ DOMAIN L # {})
        <5>1. d.ref = s
          BY <3>3, <4>1, ConvertedMeans, Zenon
        <5>2. c = [d EXCEPT !.err = TRUE]
          BY <1>1, <2>1, <2>2, <3>2, <5>1, Zenon DEF WithoutSubset
        <5>3. DOMAIN d = {"ref", "warns", "err"}
          BY <3>3, <4>1 DEF Converted
        <5>4. c.err = TRUE
          <6> HIDE DEF c
          <6> QED
            BY <5>2, <5>3
        <5> QED
          BY <5>4, Zenon
      <4> QED
        BY <4>1
    <3>5. d = Converted(LabelRef("Dataplane", L), DropWarning(others))
      BY <3>3, <3>4, Zenon
    <3>6. ~IsSubset(d.ref)
      <4>1. d.ref = LabelRef("Dataplane", L)
        BY <3>5, RefOfConverted, Zenon
      <4> HIDE DEF L
      <4> QED
        BY <4>1, LabelRefMeans DEF IsSubset
    <3>7. c = d
      BY <2>1, <3>6, Zenon DEF WithoutSubset
    <3>8. AllKept(tags) \/ "dropped tags" \in DropWarning(others)
      <4>1. Present(tags)
        BY DEF ClearSelector, Present
      <4> QED
        BY <4>1, LabelsOfOthers
    <3>9. LabelsFor(L, tags, topLevel)
      BY <2>4, <3>4, SubsetLabelsSay DEF LabelsFor
    <3> HIDE DEF L, others, c
    <3>10. KindFor(topLevel) = "Dataplane"
      BY <3>4 DEF KindFor
    <3>11. ByLabels(c, tags, topLevel)
      BY <3>5, <3>7, <3>8, <3>9, <3>10, Zenon DEF ByLabels
    <3> QED
      BY <2>2, <3>11 DEF SelectorBecomes, c
  <2> QED
    BY <2>3, <2>4
<1> QED
  BY <1>2, <1>3, <1>4

Matched(tags, X) == {x \in X : SelectorMatches(tags, x)}

\* What a selector selects after its conversion: no less than before, and no
\* more unless a warning says so.
SelectsAs(new, old, ws) == old \subseteq new /\ (new \subseteq old \/ "dropped tags" \in ws)

LEMMA AllMatch ==
  ASSUME NEW tags, ClearSelector(tags), IsAll(tags), NEW x, NEW key, Described(x, key)
  PROVE  SelectorMatches(tags, x)
<1>1. Service \in DOMAIN x.tags
  BY DescribedMeans DEF TagOrNone
<1>2. DOMAIN tags = {} \/ (DOMAIN tags = {Service} /\ tags[Service] = Wildcard)
  BY AllOrNarrow
<1> QED
  BY <1>1, <1>2 DEF SelectorMatches

LEMMA Universe ==
  /\ TheProxies = Proxies /\ TheServices = Services
  /\ \A p \in Proxies : Described(p, "app")
  /\ \A s \in Services : Described(s, DisplayName)
  BY MeshAssumption DEF TheProxies, TheServices

LEMMA LabelsSelect ==
  ASSUME NEW topLevel \in BOOLEAN, NEW x \in Proxies \union Services,
         Described(x, LabelKey(topLevel)),
         NEW tags, ClearSelector(tags), Narrow(tags), NEW L, LabelsFor(L, tags, topLevel)
  PROVE  /\ SelectorMatches(tags, x) => Matches(L, x.labels)
         /\ Matches(L, x.labels) /\ AllKept(tags) => SelectorMatches(tags, x)
<1>1. CASE DOMAIN tags \intersect IdentityTags # {}
  <2> DEFINE key == LabelKey(topLevel)
  <2>1. key \in {"app", DisplayName} /\ Described(x, key)
    BY DEF LabelKey
  <2>2. SaysAsLabels(L, tags, key, NameOf(tags)) /\ TagOrNone(L, Namespace) = NsOf(tags)
    BY <1>1 DEF LabelsFor
  <2> HIDE DEF key
  <2> QED
    BY <1>1, <2>1, <2>2, ServiceLabelsSelect
<1>2. CASE DOMAIN tags \intersect IdentityTags = {}
  <2>1. topLevel /\ Described(x, "app")
    BY <1>2 DEF LabelsFor, LabelKey
  <2>2. SaysAsLabels(L, tags, "app", None)
        /\ TagOrNone(L, Namespace) = TagOrNone(tags, Namespace)
    BY <1>2 DEF LabelsFor
  <2> QED
    BY <1>2, <2>1, <2>2, OtherLabelsSelect
<1> QED
  BY <1>1, <1>2

LEMMA TopSelects ==
  ASSUME NEW tags, ClearSelector(tags), NEW t, NEW c, SelectorBecomes(c, tags, TRUE, t)
  PROVE  SelectsAs(ProxiesOf(c.ref), Matched(tags, Proxies), c.warns)
<1>1. CASE c = Converted(MeshRef, {}) /\ IsAll(tags)
  <2>1. c.ref = MeshRef /\ c.ref.kind = "Mesh" /\ c.ref.proxyTypes = {}
    BY <1>1, ConvertedMeans, ProperMeshRef
  <2>2. ProxiesOf(c.ref) = Proxies
    BY <2>1, Universe DEF ProxiesOf, FilterAllows
  <2>3. Matched(tags, Proxies) = Proxies
    BY <1>1, AllMatch, Universe DEF Matched
  <2> QED
    BY <2>2, <2>3 DEF SelectsAs
<1>2. CASE c = Converted(SubsetRef(tags), {})
  <2>0. c.ref = SubsetRef(tags)
    BY <1>2, RefOfConverted, Zenon
  <2>1. c.ref.kind = "MeshSubset" /\ c.ref.proxyTypes = {} /\ c.ref.tags = tags
    BY <2>0, SubsetRefMeans
  <2>2. ProxiesOf(c.ref) = Matched(tags, Proxies)
    BY <2>1, Universe DEF ProxiesOf, FilterAllows, Matched
  <2> QED
    BY <2>2 DEF SelectsAs
<1>3. CASE Narrow(tags) /\ ByLabels(c, tags, TRUE)
  <2>1. PICK L, W : /\ c = Converted(LabelRef(KindFor(TRUE), L), W)
                    /\ LabelsFor(L, tags, TRUE)
                    /\ AllKept(tags) \/ "dropped tags" \in W
    BY <1>3 DEF ByLabels
  <2>2. c.ref = LabelRef("Dataplane", L) /\ c.warns = W
    BY <2>1, ConvertedMeans DEF KindFor
  <2>3. c.ref.kind = "Dataplane" /\ c.ref.labels = L /\ ~ByName(c.ref) /\ c.ref.proxyTypes = {}
    BY <2>2, LabelRefMeans
  <2>4. ProxiesOf(c.ref) = {p \in Proxies : Matches(L, p.labels)}
    BY <2>3, Universe DEF ProxiesOf, FilterAllows
  <2>5. ASSUME NEW p \in Proxies
        PROVE  /\ SelectorMatches(tags, p) => Matches(L, p.labels)
               /\ Matches(L, p.labels) /\ AllKept(tags) => SelectorMatches(tags, p)
    <3>1. Described(p, LabelKey(TRUE))
      BY Universe DEF LabelKey
    <3> QED
      BY <1>3, <2>1, <3>1, LabelsSelect
  <2> QED
    BY <2>1, <2>2, <2>4, <2>5 DEF SelectsAs, Matched
<1> QED
  BY <1>1, <1>2, <1>3 DEF SelectorBecomes, OnlyService

\* What a destination needs to know of the policy it is in.
ForDestination(tags, doc) ==
  /\ TagOrNone(doc.labels, Zone) = None
  /\ doc.ns # None /\ TagOrNone(tags, Service) \notin {None, Wildcard} => NsOf(tags) # None

LEMMA ServiceSelects ==
  ASSUME NEW tags, ClearSelector(tags), Narrow(tags), NEW c, OnlyService(c, tags, FALSE),
         TagOrNone(tags, Service) \notin {None, Wildcard},
         NEW doc, ForDestination(tags, doc)
  PROVE  ServicesOf(c.ref, doc) = Matched(tags, Services)
<1> DEFINE name == NameOf(tags)
           ns   == NsOf(tags)
           ref  == ServiceNamed(name, ns)
<1>1. c.ref = ref
  BY RefOfConverted, Zenon DEF OnlyService
<1>2. Service \in DOMAIN tags
  BY DEF TagOrNone
<1>3. name = ParsedName(tags[Service])
  BY <1>2 DEF NameOf
<1>4. ParsedNamespace(name) = None
  BY <1>3, ParsedNamePlain
<1>5. DOMAIN tags \intersect IdentityTags # {}
  BY <1>2 DEF IdentityTags
<1>6. \A s \in Services : Described(s, DisplayName)
  BY Universe
<1>7. \A k : k \notin IdentityTags \union {Namespace} => TagOrNone(tags, k) = None
  <2>1. DOMAIN OtherTags(tags) = DOMAIN tags \ {Service, ServiceName, Namespace, Zone}
    BY DEF OtherTags, Only
  <2>2. DOMAIN tags \subseteq {Service, ServiceName, Namespace, Zone}
    BY <2>1 DEF OnlyService
  <2> QED
    BY <2>2 DEF IdentityTags, OnlyService, TagOrNone
<1> HIDE DEF name, ns, ref
<1>8. /\ ref.kind = "MeshService" /\ ref.name = name /\ ref.namespace = ns
  BY BlankRef DEF ServiceNamed, RefFields, ref
<1>9. ~HasOldName(ref) /\ ~IsSubset(ref)
  BY <1>4, <1>8 DEF HasOldName, IsSubset
<1>10. ASSUME NEW s \in Services
       PROVE  (name # None /\ NamedBy(ref, doc, s)) <=> SelectorMatches(tags, s)
  <2> DEFINE value == TagOrNone(s.tags, Service)
  <2>1. Present(tags) /\ Present(s.tags)
    BY <1>6, DescribedMeans DEF ClearSelector, Present
  <2>2. SelectorMatches(tags, s)
          <=> \A k : TagOrNone(tags, k) # None => TagOrNone(s.tags, k) = TagOrNone(tags, k)
    BY <2>1, SelectorMatchesMeans DEF Narrow
  <2>3. SelectorMatches(tags, s)
          <=> \A k \in IdentityTags \union {Namespace} :
                TagOrNone(tags, k) # None => TagOrNone(s.tags, k) = TagOrNone(tags, k)
    BY <1>7, <2>2
  <2>4. /\ SelectorMatches(tags, s)
             <=> ParsedName(value) = name /\ (ns # None => ParsedNamespace(value) = ns)
        /\ name # None
    BY <1>5, <1>6, <2>3, ServiceMatches DEF name, ns
  <2>5. /\ TagOrNone(s.labels, DisplayName) = ParsedName(value)
        /\ TagOrNone(s.labels, Namespace) = ParsedNamespace(value)
    <3>1. Namespace \notin TagsAlone \union {DisplayName}
      BY KeysDiffer DEF TagsAlone
    <3> QED
      BY <1>6, <3>1, DescribedMeans
  <2>6. TagOrNone(doc.labels, Zone) = None /\ (doc.ns # None => ns # None)
    BY DEF ForDestination, ns
  <2> HIDE DEF value
  <2>7. NamedBy(ref, doc, s)
          <=> /\ ParsedName(value) = name
              /\ ParsedNamespace(value) = FirstKnown(ns, doc.ns, ParsedNamespace(value))
    BY <1>8, <2>5, <2>6 DEF NamedBy
  <2>8. FirstKnown(ns, doc.ns, ParsedNamespace(value))
          = IF ns # None THEN ns ELSE ParsedNamespace(value)
    BY <2>6 DEF FirstKnown
  <2> QED
    BY <2>4, <2>7, <2>8
<1>11. ServicesOf(ref, doc) = {s \in Services : name # None /\ NamedBy(ref, doc, s)}
  <2>1. name # None
    BY <1>5, ResolvedName DEF name, IdentityTags
  <2> QED
    BY <1>8, <1>9, <2>1, Universe DEF ServicesOf
<1> QED
  BY <1>1, <1>10, <1>11 DEF Matched

LEMMA DestSelects ==
  ASSUME NEW tags, ClearSelector(tags), NEW t, NEW c, SelectorBecomes(c, tags, FALSE, t),
         NEW doc, ForDestination(tags, doc)
  PROVE  SelectsAs(ServicesOf(c.ref, doc), Matched(tags, Services), c.warns)
<1>1. CASE c = Converted(MeshRef, {}) /\ IsAll(tags)
  <2>1. c.ref = MeshRef /\ c.ref.kind = "Mesh"
    BY <1>1, ConvertedMeans, ProperMeshRef
  <2>2. ServicesOf(c.ref, doc) = Services
    BY <2>1, Universe DEF ServicesOf
  <2>3. Matched(tags, Services) = Services
    BY <1>1, AllMatch, Universe DEF Matched
  <2> QED
    BY <2>2, <2>3 DEF SelectsAs
<1>2. CASE c = Converted(SubsetRef(tags), {})
  <2>0. c.ref = SubsetRef(tags)
    BY <1>2, RefOfConverted, Zenon
  <2>1. c.ref.kind = "MeshSubset" /\ c.ref.tags = tags /\ c.ref.name = None
    BY <2>0, SubsetRefMeans
  <2>2. ServicesOf(c.ref, doc) = Matched(tags, Services)
    BY <2>1, Universe DEF ServicesOf, IsSubset, HasOldName, Matched
  <2> QED
    BY <2>2 DEF SelectsAs
<1>3. CASE Narrow(tags) /\ ByLabels(c, tags, FALSE)
  <2>1. PICK L, W : /\ c = Converted(LabelRef(KindFor(FALSE), L), W)
                    /\ LabelsFor(L, tags, FALSE)
                    /\ AllKept(tags) \/ "dropped tags" \in W
    BY <1>3 DEF ByLabels
  <2>2. c.ref = LabelRef("MeshService", L) /\ c.warns = W
    BY <2>1, ConvertedMeans DEF KindFor
  <2>3. c.ref.kind = "MeshService" /\ c.ref.labels = L /\ c.ref.name = None
    BY <2>2, LabelRefMeans
  <2>4. ~IsSubset(c.ref) /\ ~HasOldName(c.ref)
    BY <2>3, PlainName DEF IsSubset, HasOldName
  <2>5. ServicesOf(c.ref, doc) = {s \in Services : Matches(L, s.labels)}
    BY <2>3, <2>4, Universe DEF ServicesOf
  <2>6. ASSUME NEW s \in Services
        PROVE  /\ SelectorMatches(tags, s) => Matches(L, s.labels)
               /\ Matches(L, s.labels) /\ AllKept(tags) => SelectorMatches(tags, s)
    <3>1. Described(s, LabelKey(FALSE))
      BY Universe DEF LabelKey
    <3> QED
      BY <1>3, <2>1, <3>1, LabelsSelect
  <2> QED
    BY <2>1, <2>2, <2>5, <2>6 DEF SelectsAs, Matched
<1>4. CASE Narrow(tags) /\ TagOrNone(tags, Service) \notin {None, Wildcard} /\ OnlyService(c, tags, FALSE)
  BY <1>4, ServiceSelects DEF SelectsAs
<1> QED
  BY <1>1, <1>2, <1>3, <1>4 DEF SelectorBecomes

LEMMA ClientsSelect ==
  ASSUME NEW tags, ClearSelector(tags)
  PROVE  ClientsOf(fromSubsetRefV2(tags)) = Matched(tags, Proxies)
<1> DEFINE kept == Only(tags, {k \in DOMAIN tags : ~(k = Service /\ tags[k] = Wildcard)})
<1>1. CASE IsAll(tags)
  <2>1. DOMAIN kept = {}
    BY <1>1, AllOrNarrow DEF Only
  <2>2. fromSubsetRefV2(tags) = MeshRef
    BY <2>1, Zenon DEF fromSubsetRefV2
  <2>3. MeshRef.kind = "Mesh" /\ MeshRef.proxyTypes = {} /\ ~HasOldName(MeshRef)
    BY ProperMeshRef DEF HasOldName
  <2>4. ClientsOf(MeshRef) = Proxies
    BY <2>3, Universe DEF ClientsOf, ProxiesOf, FilterAllows
  <2>5. Matched(tags, Proxies) = Proxies
    BY <1>1, AllMatch, Universe DEF Matched
  <2> QED
    BY <2>2, <2>4, <2>5
<1>2. CASE ~IsAll(tags)
  <2>1. Narrow(tags) /\ DOMAIN tags # {}
    BY <1>2, AllOrNarrow
  <2>2. DOMAIN kept = DOMAIN tags /\ \A k \in DOMAIN tags : kept[k] = tags[k]
    BY <2>1 DEF Only, Narrow
  <2>3. fromSubsetRefV2(tags) = SubsetRef(kept)
    BY <2>1, <2>2, Zenon DEF fromSubsetRefV2
  <2> HIDE DEF kept
  <2> DEFINE r == SubsetRef(kept)
  <2>4. r.kind = "MeshSubset" /\ r.proxyTypes = {} /\ r.tags = kept /\ ~HasOldName(r)
    BY SubsetRefMeans DEF HasOldName
  <2> HIDE DEF r
  <2>5. ClientsOf(r) = {p \in Proxies : SelectorMatches(kept, p)}
    BY <2>4, Universe DEF ClientsOf, ProxiesOf, FilterAllows
  <2>6. \A p : SelectorMatches(kept, p) <=> SelectorMatches(tags, p)
    BY <2>2 DEF SelectorMatches
  <2> QED
    BY <2>3, <2>5, <2>6 DEF Matched, r
<1> QED
  BY <1>1, <1>2

-----------------------------------------------------------------------------
(***************************************************************************)
(* Lists of selectors.                                                     *)
(***************************************************************************)
AllClear(list) == \A i \in DOMAIN list : ClearSelector(list[i])

LEMMA NoTagsClear ==
  /\ ClearSelector(<<>>) /\ TagOrNone(<<>>, Service) = None
  /\ \A x : SelectorMatches(<<>>, x)
<1>1. DOMAIN <<>> = {}
  BY NoDomain
<1>2. \A k : TagOrNone(<<>>, k) = None
  BY <1>1 DEF TagOrNone
<1>3. ClearService(<<>>)
  BY <1>2 DEF ClearService
<1> QED
  BY <1>1, <1>2, <1>3 DEF ClearSelector, SelectorMatches

\* No list is the list of the selector without tags.
LEMMA OneForAll ==
  ASSUME NEW list, AllClear(list)
  PROVE  LET one == Selectors(list, << <<>> >>) IN
         /\ AllClear(one)
         /\ \A X : Selected(list, X) = {x \in X : \E i \in DOMAIN one : SelectorMatches(one[i], x)}
         /\ DOMAIN one # {} \/ ~IsSeq(list)
<1> DEFINE one == Selectors(list, << <<>> >>)
<1>1. CASE list = <<>>
  <2>1. one = << <<>> >>
    BY <1>1 DEF Selectors
  <2>2. DOMAIN one = {1} /\ one[1] = <<>>
    BY <2>1, SeqOfOne
  <2> HIDE DEF one
  <2>3. AllClear(one)
    BY <2>2, NoTagsClear DEF AllClear
  <2>4. \A X : Selected(list, X) = X
    BY <1>1 DEF Selected
  <2>5. \A x : \E i \in DOMAIN one : SelectorMatches(one[i], x)
    BY <2>2, NoTagsClear
  <2>6. \A X : X = {x \in X : \E i \in DOMAIN one : SelectorMatches(one[i], x)}
    BY <2>5
  <2> QED
    BY <2>2, <2>3, <2>4, <2>6 DEF one
<1>2. CASE list # <<>>
  <2>1. one = list
    BY <1>2 DEF Selectors
  <2>2. \A X : Selected(list, X) = {x \in X : \E i \in DOMAIN list : SelectorMatches(list[i], x)}
    BY <1>2 DEF Selected, Range
  <2>3. IsSeq(list) => DOMAIN list # {}
    BY <1>2, EmptySeq
  <2> QED
    BY <2>1, <2>2, <2>3, Zenon
<1> QED
  BY <1>1, <1>2

\* Each selector of a list became what its conversion yields.
Became(cs, list, topLevel, t) ==
  /\ DOMAIN cs = DOMAIN list
  /\ \A i \in DOMAIN list : SelectorBecomes(cs[i], list[i], topLevel, t)

LEMMA ListBecomes ==
  ASSUME NEW list, AllClear(list), NEW topLevel \in BOOLEAN, NEW t, NEW l \in IdentityTags,
         ~Errs(ConvertSelectors(list, topLevel, t, l))
  PROVE  Became(ConvertSelectors(list, topLevel, t, l), list, topLevel, t)
<1> DEFINE cs == ConvertSelectors(list, topLevel, t, l)
<1>1. DOMAIN cs = DOMAIN list
      /\ \A i \in DOMAIN list :
           cs[i] = ConvertSelectorToTargetRefForTarget(list[i], None, topLevel, t, l)
  BY DEF ConvertSelectors
<1>2. ~Errs(cs)
  OBVIOUS
<1> HIDE DEF cs
<1>3. ASSUME NEW i \in DOMAIN list PROVE SelectorBecomes(cs[i], list[i], topLevel, t)
  <2>1. cs[i] = ConvertSelectorToTargetRefForTarget(list[i], None, topLevel, t, l) /\ ~cs[i].err
    BY <1>1, <1>2 DEF Errs
  <2>2. ClearSelector(list[i])
    BY DEF AllClear
  <2> QED
    BY <2>1, <2>2, SelectorConverted, Zenon
<1> QED
  BY <1>1, <1>3 DEF Became, cs

\* The proxies some reference of a list selects.
TopsSelect(refs) == UNION {ProxiesOf(refs[i]) : i \in DOMAIN refs}

LEMMA WarnsOfOne ==
  ASSUME NEW cs, NEW i \in DOMAIN cs
  PROVE  cs[i].warns \subseteq Warns(cs)
  BY DEF Warns

LEMMA TopListSelects ==
  ASSUME NEW list, AllClear(list), NEW t, NEW cs, Became(cs, list, TRUE, t)
  PROVE  SelectsAs(TopsSelect(RefsOf(cs)),
                   {p \in Proxies : \E i \in DOMAIN list : SelectorMatches(list[i], p)}, Warns(cs))
<1>1. ASSUME NEW i \in DOMAIN list
      PROVE  SelectsAs(ProxiesOf(cs[i].ref), Matched(list[i], Proxies), cs[i].warns)
  <2>1. ClearSelector(list[i]) /\ SelectorBecomes(cs[i], list[i], TRUE, t)
    BY DEF AllClear, Became
  <2> QED
    BY <2>1, TopSelects, Zenon
<1>2. DOMAIN cs = DOMAIN list
  BY DEF Became
<1>3. TopsSelect(RefsOf(cs)) = UNION {ProxiesOf(cs[i].ref) : i \in DOMAIN cs}
  BY DEF TopsSelect, RefsOf
<1>4. \A i \in DOMAIN cs : cs[i].warns \subseteq Warns(cs)
  BY WarnsOfOne
<1> QED
  BY <1>1, <1>2, <1>3, <1>4 DEF SelectsAs, Matched

LEMMA MeshSelects ==
  ASSUME NEW ref, ref.kind = "Mesh", ref.proxyTypes = {}
  PROVE  ProxiesOf(ref) = Proxies
  BY Universe DEF ProxiesOf, FilterAllows

\* What is selected does not depend on whether references to the mesh are merged.
LEMMA MergedSelects ==
  ASSUME NEW cs, IsSeq(cs), \A i \in DOMAIN cs : cs[i].ref.proxyTypes = {}
  PROVE  /\ cs # <<>> => TopsSelect(OneIfMesh(RefsOf(cs))) = TopsSelect(RefsOf(cs))
         /\ cs = <<>> => TopsSelect(OneIfMesh(RefsOf(cs))) = Proxies
<1> DEFINE refs == RefsOf(cs)
<1>1. DOMAIN refs = DOMAIN cs /\ \A i \in DOMAIN cs : refs[i] = cs[i].ref
  BY DEF RefsOf
<1> HIDE DEF refs
<1>2. TopsSelect(<<MeshRef>>) = Proxies
  <2>1. DOMAIN <<MeshRef>> = {1} /\ <<MeshRef>>[1] = MeshRef
    BY SeqOfOne
  <2>2. ProxiesOf(MeshRef) = Proxies
    BY MeshSelects, ProperMeshRef
  <2> QED
    BY <2>1, <2>2 DEF TopsSelect
<1>3. cs = <<>> <=> DOMAIN cs = {}
  BY EmptySeq
<1>4. CASE AllKind(refs, "Mesh")
  <2>1. OneIfMesh(refs) = <<MeshRef>>
    BY <1>4, Zenon DEF OneIfMesh
  <2>2. \A i \in DOMAIN refs : ProxiesOf(refs[i]) = Proxies
    BY <1>1, <1>4, MeshSelects DEF AllKind
  <2>3. DOMAIN refs # {} => TopsSelect(refs) = Proxies
    BY <2>2 DEF TopsSelect
  <2> QED
    BY <1>1, <1>2, <1>3, <2>1, <2>3 DEF refs
<1>5. CASE ~AllKind(refs, "Mesh")
  <2>1. OneIfMesh(refs) = refs /\ DOMAIN refs # {}
    BY <1>5, Zenon DEF OneIfMesh, AllKind
  <2> QED
    BY <1>1, <1>3, <2>1 DEF refs
<1> QED
  BY <1>4, <1>5

LEMMA SourcesSelect ==
  ASSUME NEW list, ProperSelectors(list), AllClear(list), NEW t, NEW l \in IdentityTags,
         ~Errs(ConvertSelectors(list, TRUE, t, l))
  PROVE  LET cs == ConvertSelectors(list, TRUE, t, l) IN
         SelectsAs(TopsSelect(OneIfMesh(RefsOf(cs))), Selected(list, Proxies), Warns(cs))
<1> DEFINE cs == ConvertSelectors(list, TRUE, t, l)
<1>1. IsSeq(cs) /\ Len(cs) = Len(list) /\ \A i \in DOMAIN cs : SelectorRef(cs[i].ref)
  BY SelectorsMean
<1>2. Became(cs, list, TRUE, t)
  BY ListBecomes
<1>3. IsSeq(list)
  BY DEF ProperSelectors, IsSeq
<1> HIDE DEF cs
<1>4. SelectsAs(TopsSelect(RefsOf(cs)),
                {p \in Proxies : \E i \in DOMAIN list : SelectorMatches(list[i], p)}, Warns(cs))
  BY <1>2, TopListSelects
<1>5. /\ cs # <<>> => TopsSelect(OneIfMesh(RefsOf(cs))) = TopsSelect(RefsOf(cs))
      /\ cs = <<>> => TopsSelect(OneIfMesh(RefsOf(cs))) = Proxies
  BY <1>1, MergedSelects DEF SelectorRef
<1>6. cs = <<>> <=> list = <<>>
  BY <1>1, <1>2, <1>3, EmptySeq DEF Became
<1>7. CASE list = <<>>
  <2>1. Selected(list, Proxies) = Proxies
    BY <1>7 DEF Selected
  <2> QED
    BY <1>5, <1>6, <1>7, <2>1 DEF SelectsAs, cs
<1>8. CASE list # <<>>
  <2>1. Selected(list, Proxies)
          = {p \in Proxies : \E i \in DOMAIN list : SelectorMatches(list[i], p)}
    BY <1>8 DEF Selected, Range
  <2> QED
    BY <1>4, <1>5, <1>6, <1>8, <2>1 DEF cs
<1> QED
  BY <1>7, <1>8

LEMMA SelectorsSelect ==
  ASSUME NEW list, ProperSelectors(list), AllClear(list), NEW t, NEW l \in IdentityTags,
         ~Errs(ConvertSelectors(Selectors(list, << <<>> >>), TRUE, t, l))
  PROVE  LET cs == ConvertSelectors(Selectors(list, << <<>> >>), TRUE, t, l) IN
         SelectsAs(TopsSelect(OneIfMesh(RefsOf(cs))), Selected(list, Proxies), Warns(cs))
<1> DEFINE one == Selectors(list, << <<>> >>)
<1>1. /\ AllClear(one)
      /\ Selected(list, Proxies) = {p \in Proxies : \E i \in DOMAIN one : SelectorMatches(one[i], p)}
      /\ DOMAIN one # {} \/ ~IsSeq(list)
  BY OneForAll
<1>2. IsSeq(list)
  BY DEF ProperSelectors, IsSeq
<1>3. ProperSelectors(one)
  BY OneSelector
<1> HIDE DEF one
<1> DEFINE cs == ConvertSelectors(one, TRUE, t, l)
<1>4. ~Errs(cs)
  BY DEF one
<1>5. SelectsAs(TopsSelect(OneIfMesh(RefsOf(cs))), Selected(one, Proxies), Warns(cs))
  BY <1>1, <1>3, <1>4, SourcesSelect
<1>6. Selected(one, Proxies) = {p \in Proxies : \E i \in DOMAIN one : SelectorMatches(one[i], p)}
  <2>1. one # <<>>
    BY <1>1, <1>2, NoDomain
  <2> QED
    BY <2>1 DEF Selected, Range
<1> QED
  BY <1>1, <1>5, <1>6 DEF one

LEMMA InboundSelect ==
  ASSUME NEW list, ProperSelectors(list), AllClear(list), NEW t, NEW l \in IdentityTags,
         ~Errs(ConvertSelectors(list, TRUE, t, l)), ConvertSelectors(list, TRUE, t, l) # <<>>
  PROVE  LET cs == ConvertSelectors(list, TRUE, t, l) IN
         SelectsAs(TopsSelect(RefsOf(cs)), Selected(list, Proxies), Warns(cs))
<1> DEFINE cs == ConvertSelectors(list, TRUE, t, l)
<1>1. IsSeq(cs) /\ \A i \in DOMAIN cs : SelectorRef(cs[i].ref)
  BY SelectorsMean
<1>2. SelectsAs(TopsSelect(OneIfMesh(RefsOf(cs))), Selected(list, Proxies), Warns(cs))
  BY SourcesSelect
<1>3. cs # <<>>
  OBVIOUS
<1> HIDE DEF cs
<1>4. TopsSelect(OneIfMesh(RefsOf(cs))) = TopsSelect(RefsOf(cs))
  BY <1>1, <1>3, MergedSelects DEF SelectorRef
<1> QED
  BY <1>2, <1>4 DEF cs

\* The services some destination of a list selects.
DestsSelect(cs, doc) == UNION {ServicesOf(cs[i].ref, doc) : i \in DOMAIN cs}

LEMMA DestinationsSelect ==
  ASSUME NEW list, AllClear(list), NEW t, NEW l \in IdentityTags,
         ~Errs(ConvertSelectors(Selectors(list, << <<>> >>), FALSE, t, l)),
         NEW doc, TagOrNone(doc.labels, Zone) = None,
         \A i \in DOMAIN list : ForDestination(list[i], doc)
  PROVE  LET cs == ConvertSelectors(Selectors(list, << <<>> >>), FALSE, t, l) IN
         SelectsAs(DestsSelect(cs, doc), Selected(list, Services), Warns(cs))
<1> DEFINE one == Selectors(list, << <<>> >>)
           cs  == ConvertSelectors(one, FALSE, t, l)
<1>1. /\ AllClear(one)
      /\ Selected(list, Services) = {s \in Services : \E i \in DOMAIN one : SelectorMatches(one[i], s)}
  BY OneForAll
<1>2. \A i \in DOMAIN one : ForDestination(one[i], doc)
  <2>1. CASE list = <<>>
    <3>1. one = << <<>> >>
      BY <2>1 DEF Selectors
    <3>2. DOMAIN one = {1} /\ one[1] = <<>>
      BY <3>1, SeqOfOne
    <3> QED
      BY <3>2, NoTagsClear DEF ForDestination
  <2>2. CASE list # <<>>
    BY <2>2 DEF Selectors
  <2> QED
    BY <2>1, <2>2
<1> HIDE DEF one
<1>3. ~Errs(cs)
  BY DEF one
<1>4. Became(cs, one, FALSE, t)
  BY <1>1, <1>3, ListBecomes
<1> HIDE DEF cs
<1>5. ASSUME NEW i \in DOMAIN one
      PROVE  SelectsAs(ServicesOf(cs[i].ref, doc), Matched(one[i], Services), cs[i].warns)
  <2>1. /\ ClearSelector(one[i]) /\ SelectorBecomes(cs[i], one[i], FALSE, t)
        /\ ForDestination(one[i], doc)
    BY <1>1, <1>2, <1>4 DEF AllClear, Became
  <2> QED
    BY <2>1, DestSelects, Zenon
<1>6. DOMAIN cs = DOMAIN one /\ \A i \in DOMAIN cs : cs[i].warns \subseteq Warns(cs)
  BY <1>4, WarnsOfOne DEF Became
<1>7. SelectsAs(DestsSelect(cs, doc), Selected(list, Services), Warns(cs))
  <2>1. Selected(list, Services) \subseteq DestsSelect(cs, doc)
    BY <1>1, <1>5, <1>6 DEF SelectsAs, Matched, DestsSelect
  <2>2. CASE "dropped tags" \in Warns(cs)
    BY <2>1, <2>2 DEF SelectsAs
  <2>3. CASE "dropped tags" \notin Warns(cs)
    <3>1. \A i \in DOMAIN one : ServicesOf(cs[i].ref, doc) \subseteq Matched(one[i], Services)
      BY <1>5, <1>6, <2>3 DEF SelectsAs
    <3>2. \A i \in DOMAIN one : ServicesOf(cs[i].ref, doc) \subseteq Selected(list, Services)
      BY <1>1, <3>1 DEF Matched
    <3>3. DestsSelect(cs, doc) \subseteq Selected(list, Services)
      BY <1>6, <3>2 DEF DestsSelect
    <3> QED
      BY <2>1, <3>3 DEF SelectsAs
  <2> QED
    BY <2>2, <2>3
<1> QED
  BY <1>7 DEF cs, one

-----------------------------------------------------------------------------
(***************************************************************************)
(* What documents give: to the proxy p, in a direction, for a peer q, the  *)
(* setting s.                                                              *)
(***************************************************************************)
Gives(d, dir, p, q, s) ==
  /\ p \in ProxiesOf(TopRef(d))
  /\ \/ /\ dir = "to"
        /\ \E j \in DOMAIN d.to : /\ q \in ServicesOf(d.to[j].ref, Placed(d))
                                  /\ s \in Settings(d.to[j].conf)
     \/ /\ dir = "in"
        /\ \E j \in DOMAIN d.from : /\ q \in ClientsOf(d.from[j].ref)
                                    /\ s \in Settings(d.from[j].conf)
     \/ /\ dir = "in" /\ q \in Proxies
        /\ \E j \in DOMAIN d.rules : s \in Settings(d.rules[j])
     \/ /\ dir = "own" /\ q = NoPeer
        /\ \E j \in DOMAIN d.default : s \in Settings(d.default[j])

Given(ds, dir, p, q, s) == \E i \in DOMAIN ds : Gives(ds[i], dir, p, q, s)

LegacyGives(doc, dir, p, q, s) ==
  /\ s \in Settings(LegacyConf(doc))
  /\ \/ /\ doc.kind \in legacyShapes.selector
        /\ dir = "own" /\ p \in Selected(doc.selectors, Proxies) /\ q = NoPeer
     \/ /\ doc.kind \in legacyShapes.inbound
        /\ dir = "in" /\ p \in Selected(doc.destinations, Proxies)
        /\ q \in Selected(doc.sources, Proxies)
     \/ /\ doc.kind \notin legacyShapes.selector \union legacyShapes.inbound
        /\ dir = "to" /\ p \in Selected(doc.sources, Proxies)
        /\ q \in Selected(doc.destinations, Services)

\* The documents give what the legacy policy gave, and more only if a warning
\* says so.
KeepTraffic(ds, ws, doc) ==
  /\ \A dir, p, q, s : LegacyGives(doc, dir, p, q, s) => Given(ds, dir, p, q, s)
  /\ \/ \A dir, p, q, s : Given(ds, dir, p, q, s) => LegacyGives(doc, dir, p, q, s)
     \/ ws \intersect WideningNamed # {}

-----------------------------------------------------------------------------
(***************************************************************************)
(* The results of each converter of legacy policies.                       *)
(***************************************************************************)

\* The i-th of n policies made of a legacy one, whatever its sections are.
Made(d, doc, i, n, ref) ==
  /\ IsDoc(d) /\ d.kind = OldTypeToNew[doc.kind] /\ d.layout = doc.layout
  /\ d.name = Numbered(doc.name, i, n) /\ d.ns = None
  /\ d.labels = IF doc.layout = "universal" THEN doc.labels ELSE <<>>
  /\ d.targetRef = <<ref>> /\ TopRef(d) = ref

LEMMA NewPolicyMade ==
  ASSUME NEW doc, NEW i, NEW n, NEW ref
  PROVE  LET p == NewPolicy(doc, i, n, ref) IN
         /\ Made(p, doc, i, n, ref)
         /\ p.to = <<>> /\ p.from = <<>> /\ p.rules = <<>> /\ p.default = <<>>
<1> DEFINE b == BlankPolicy(OldTypeToNew[doc.kind], doc.layout, Numbered(doc.name, i, n))
           p == NewPolicy(doc, i, n, ref)
<1>1. p = [b EXCEPT !.targetRef = <<ref>>,
                    !.labels = IF doc.layout = "universal" THEN doc.labels ELSE <<>>]
  BY Zenon DEF NewPolicy
<1>2. /\ DOMAIN b = PolicyFields /\ b = [f \in PolicyFields |-> b[f]]
      /\ b.kind = OldTypeToNew[doc.kind] /\ b.layout = doc.layout
      /\ b.name = Numbered(doc.name, i, n)
      /\ b.to = <<>> /\ b.from = <<>> /\ b.rules = <<>>
  BY BlankMeans
<1>3. b.ns = None /\ b.default = <<>>
  BY DEF BlankPolicy
<1> HIDE DEF p, b
<1>4. /\ IsDoc(p) /\ p.kind = OldTypeToNew[doc.kind] /\ p.layout = doc.layout
      /\ p.name = Numbered(doc.name, i, n) /\ p.ns = None
      /\ p.labels = IF doc.layout = "universal" THEN doc.labels ELSE <<>>
      /\ p.targetRef = <<ref>>
      /\ p.to = <<>> /\ p.from = <<>> /\ p.rules = <<>> /\ p.default = <<>>
  BY <1>1, <1>2, <1>3 DEF IsDoc, PolicyFields
<1>5. TopRef(p) = ref
  <2>1. <<ref>> # <<>> /\ <<ref>>[1] = ref
    OBVIOUS
  <2> QED
    BY <1>4, <2>1 DEF TopRef
<1> QED
  BY <1>4, <1>5 DEF Made, p

LEMMA MadeWith ==
  ASSUME NEW doc, NEW i, NEW n, NEW ref, NEW p, Made(p, doc, i, n, ref),
         NEW f \in {"to", "from", "rules", "default"}, NEW v, NEW d, d = [p EXCEPT ![f] = v]
  PROVE  /\ Made(d, doc, i, n, ref) /\ d[f] = v
         /\ \A g \in {"to", "from", "rules", "default"} \ {f} : d[g] = p[g]
<1>1. IsDoc(d) /\ d[f] = v /\ \A g \in PolicyFields \ {f} : d[g] = p[g]
  BY DEF Made, IsDoc, PolicyFields
<1>2. /\ d.kind = p.kind /\ d.layout = p.layout /\ d.name = p.name /\ d.ns = p.ns
      /\ d.labels = p.labels /\ d.targetRef = p.targetRef
  BY <1>1 DEF PolicyFields
<1>3. TopRef(d) = TopRef(p)
  BY <1>2 DEF TopRef
<1>4. \A g \in {"to", "from", "rules", "default"} \ {f} : g \in PolicyFields \ {f}
  BY DEF PolicyFields
<1> QED
  BY <1>1, <1>2, <1>3, <1>4 DEF Made

\* What the rest of the pipeline relies on: everyone's policy, without a filter
\* and, for 3.0, without from[] and without a name.
Plain(d, t) ==
  /\ IsDoc(d) /\ d.ns \in {None, SystemNs} /\ Zone \notin DOMAIN d.labels
  /\ d.kind # "MeshOPA" /\ proxyTypes(d) = {}
  /\ t = "v3" =>
       /\ d.from = <<>>
       /\ ~ByName(TopRef(d)) /\ \A j \in DOMAIN d.to : ~ByName(d.to[j].ref)

LEMMA NoNameOnV3 ==
  ASSUME NEW tags, NEW topLevel \in BOOLEAN, NEW c, SelectorBecomes(c, tags, topLevel, "v3")
  PROVE  ~ByName(c.ref)
<1>1. CASE c = Converted(MeshRef, {})
  BY <1>1, RefOfConverted, ProperMeshRef
<1>2. CASE ByLabels(c, tags, topLevel)
  <2>1. PICK L, W : c = Converted(LabelRef(KindFor(topLevel), L), W)
    BY <1>2 DEF ByLabels
  <2>2. c.ref = LabelRef(KindFor(topLevel), L)
    BY <2>1, RefOfConverted, Zenon
  <2> QED
    BY <2>2, LabelRefMeans
<1> QED
  BY <1>1, <1>2 DEF SelectorBecomes

LEMMA MadePlain ==
  ASSUME NEW doc, ClearPolicy(doc), doc.kind \in DOMAIN OldTypeToNew,
         NEW i, NEW n, NEW ref, ref.proxyTypes = {}, NEW d, Made(d, doc, i, n, ref),
         NEW t, t = "v3" => /\ ~ByName(ref) /\ d.from = <<>>
                            /\ \A j \in DOMAIN d.to : ~ByName(d.to[j].ref)
  PROVE  Plain(d, t)
<1>1. d.kind # "MeshOPA"
  BY NewKinds DEF Made
<1>2. Zone \notin DOMAIN d.labels
  BY NoDomain DEF Made, ClearPolicy
<1>3. proxyTypes(d) = {}
  <2>1. <<ref>> # <<>> /\ <<ref>>[1] = ref
    OBVIOUS
  <2> QED
    BY <2>1 DEF proxyTypes, Made
<1> QED
  BY <1>1, <1>2, <1>3 DEF Plain, Made

\* The destinations of a policy made of a legacy one.
LEMMA MadePlaced ==
  ASSUME NEW doc, ClearPolicy(doc), NEW i, NEW n, NEW ref, NEW d, Made(d, doc, i, n, ref)
  PROVE  /\ TagOrNone(Placed(d).labels, Zone) = None
         /\ \A j \in DOMAIN doc.destinations : ForDestination(doc.destinations[j], Placed(d))
<1>1. Placed(d) = d \/ (d.layout = "kube" /\ Placed(d) = [d EXCEPT !.ns = SystemNs])
  BY Zenon DEF Placed
<1>2. Placed(d).labels = d.labels /\ (Placed(d).ns # None => doc.layout = "kube")
  BY <1>1 DEF Made, IsDoc, PolicyFields
<1>3. TagOrNone(d.labels, Zone) = None
  BY NoDomain DEF Made, ClearPolicy, TagOrNone
<1>4. ASSUME NEW j \in DOMAIN doc.destinations
      PROVE  ForDestination(doc.destinations[j], Placed(d))
  <2> DEFINE tags == doc.destinations[j]
  <2>1. tags \in Range(doc.destinations)
    BY DEF Range
  <2> HIDE DEF tags
  <2>2. ASSUME Placed(d).ns # None, TagOrNone(tags, Service) \notin {None, Wildcard}
        PROVE  NsOf(tags) # None
    <3>1. ParsedNamespace(tags[Service]) # None
      BY <1>2, <2>1, <2>2 DEF ClearPolicy
    <3>2. Service \in DOMAIN tags
      BY <2>2 DEF TagOrNone
    <3> QED
      BY <3>1, <3>2 DEF NsOf
  <2>3. ForDestination(tags, Placed(d))
    BY <1>2, <1>3, <2>2 DEF ForDestination
  <2> QED
    BY <2>3 DEF tags
<1> QED
  BY <1>2, <1>3, <1>4

\* The policies a converter makes of a legacy one.
Shaped(ds, ws, doc, t) ==
  /\ IsSeq(ds)
  /\ \A i \in DOMAIN ds : /\ Plain(ds[i], t) /\ ds[i].kind = OldTypeToNew[doc.kind]
                          /\ ds[i].layout = doc.layout
                          /\ ds[i].name = Numbered(doc.name, i, Len(ds))
  /\ KeepTraffic(ds, ws, doc)

ClearInput(doc) == LegacyInput(doc) /\ ClearPolicy(doc)

LEMMA ClearLists ==
  ASSUME NEW doc, ClearInput(doc)
  PROVE  AllClear(doc.sources) /\ AllClear(doc.destinations) /\ AllClear(doc.selectors)
  BY DEF ClearInput, ClearPolicy, AllClear, Range

LEMMA Widened ==
  ASSUME NEW ws, "dropped tags" \in ws \/ "clients not preserved" \in ws
  PROVE  ws \intersect WideningNamed # {}
  BY DEF WideningNamed

LEMMA OutboundShaped ==
  ASSUME NEW doc, ClearInput(doc),
         doc.kind \notin legacyShapes.selector \union legacyShapes.inbound,
         NEW t, NEW l \in IdentityTags, ~transformGenericLegacy(doc, t, l).err
  PROVE  LET r == transformGenericLegacy(doc, t, l) IN Shaped(r.docs, r.warns, doc, t)
<1> DEFINE one   == Selectors(doc.destinations, << <<>> >>)
           srcs  == ConvertSelectors(doc.sources, TRUE, t, l)
           dests == ConvertSelectors(one, FALSE, t, l)
           refs  == OneIfMesh(RefsOf(srcs))
           conf  == LegacyConf(doc)
           to    == [i \in DOMAIN dests |-> Entry(dests[i].ref, conf)]
           ds    == OutboundEach(doc, refs, to)
           ws    == Warns(dests) \union Warns(srcs)
           r     == transformGenericLegacy(doc, t, l)
<1>1. r = IF Errs(dests) \/ Errs(srcs) THEN Failed ELSE Result(ds, ws)
  BY Zenon DEF transformGenericLegacy, OutboundPolicies
<1>2. ~Errs(dests) /\ ~Errs(srcs)
  <2> HIDE DEF dests, srcs, ds, ws
  <2> QED
    BY <1>1, ResultMeans
<1>3. r = Result(ds, ws) /\ r.docs = ds /\ r.warns = ws
  <2>1. r = Result(ds, ws)
    BY <1>1, <1>2, Zenon
  <2> QED
    BY <2>1, DocsOfResult, WarnsOfResult, Zenon
<1>4. AllNew(r.docs, doc, t)
  BY OutboundNew DEF ClearInput
<1>5. /\ ProperSelectors(doc.sources) /\ ProperSelectors(one) /\ doc.kind \in DOMAIN OldTypeToNew
      /\ AllClear(doc.sources) /\ AllClear(doc.destinations) /\ ClearPolicy(doc)
  BY ClearLists, OneSelector DEF ClearInput, LegacyInput
<1>6. SelectsAs(TopsSelect(refs), Selected(doc.sources, Proxies), Warns(srcs))
  BY <1>2, <1>5, SourcesSelect
<1>7. ASSUME NEW d, TagOrNone(d.labels, Zone) = None,
             \A j \in DOMAIN doc.destinations : ForDestination(doc.destinations[j], d)
      PROVE  SelectsAs(DestsSelect(dests, d), Selected(doc.destinations, Services), Warns(dests))
  BY <1>2, <1>5, <1>7, DestinationsSelect
<1>8. IsSeq(srcs) /\ \A i \in DOMAIN srcs : SelectorRef(srcs[i].ref)
  BY <1>5, SelectorsMean
<1>9. t = "v3" => /\ \A i \in DOMAIN srcs : ~ByName(srcs[i].ref)
                  /\ \A i \in DOMAIN dests : ~ByName(dests[i].ref)
  <2>1. Became(srcs, doc.sources, TRUE, t)
    BY <1>2, <1>5, ListBecomes
  <2>2. AllClear(one)
    BY <1>5, OneForAll
  <2> HIDE DEF one
  <2>3. Became(dests, one, FALSE, t)
    BY <1>2, <2>2, ListBecomes
  <2> HIDE DEF srcs, dests
  <2> QED
    BY <2>1, <2>3, NoNameOnV3, Zenon DEF Became
<1> HIDE DEF srcs
<1>10. IsSeq(refs) /\ \A i \in DOMAIN refs : SelectorRef(refs[i])
  BY <1>8, RefsMean
<1>11. t = "v3" => \A i \in DOMAIN refs : ~ByName(refs[i])
  <2>1. refs = RefsOf(srcs) \/ refs = <<MeshRef>>
    BY Zenon DEF OneIfMesh
  <2>2. DOMAIN RefsOf(srcs) = DOMAIN srcs /\ \A i \in DOMAIN srcs : RefsOf(srcs)[i] = srcs[i].ref
    BY DEF RefsOf
  <2>3. DOMAIN <<MeshRef>> = {1} /\ <<MeshRef>>[1] = MeshRef /\ ~ByName(MeshRef)
    BY SeqOfOne, ProperMeshRef
  <2> QED
    BY <1>9, <2>1, <2>2, <2>3
<1> HIDE DEF refs
<1> HIDE DEF dests, conf
<1>12. /\ DOMAIN to = DOMAIN dests
       /\ \A j \in DOMAIN dests : to[j].ref = dests[j].ref /\ to[j].conf = conf
  <2>1. DOMAIN to = DOMAIN dests /\ \A j \in DOMAIN dests : to[j] = Entry(dests[j].ref, conf)
    OBVIOUS
  <2> HIDE DEF to
  <2> QED
    BY <2>1, EntryMeans
<1>13. DOMAIN ds = DOMAIN refs
       /\ \A i \in DOMAIN refs : ds[i] = [NewPolicy(doc, i, Len(refs), refs[i]) EXCEPT !.to = to]
  BY DEF OutboundEach
<1> HIDE DEF ds, to
<1>14. ASSUME NEW i \in DOMAIN refs
       PROVE  /\ Made(ds[i], doc, i, Len(refs), refs[i])
              /\ ds[i].to = to /\ ds[i].from = <<>> /\ ds[i].rules = <<>> /\ ds[i].default = <<>>
  <2> DEFINE p == NewPolicy(doc, i, Len(refs), refs[i])
  <2>1. /\ Made(p, doc, i, Len(refs), refs[i])
        /\ p.to = <<>> /\ p.from = <<>> /\ p.rules = <<>> /\ p.default = <<>>
    BY NewPolicyMade
  <2>2. ds[i] = [p EXCEPT !["to"] = to]
    BY <1>13
  <2> HIDE DEF p
  <2> QED
    BY <2>1, <2>2, MadeWith
<1>15. ASSUME NEW i \in DOMAIN refs
       PROVE  SelectsAs(DestsSelect(dests, Placed(ds[i])), Selected(doc.destinations, Services),
                        Warns(dests))
  BY <1>5, <1>7, <1>14, MadePlaced
<1>16. DOMAIN <<>> = {}
  BY NoDomain
<1>17. \A i \in DOMAIN refs : \A dir, p, q, s :
         Gives(ds[i], dir, p, q, s)
           <=> /\ dir = "to" /\ p \in ProxiesOf(refs[i])
               /\ q \in DestsSelect(dests, Placed(ds[i])) /\ s \in Settings(conf)
  BY <1>12, <1>14, <1>16 DEF Gives, Made, DestsSelect
<1>18. \A dir, p, q, s : LegacyGives(doc, dir, p, q, s)
         <=> /\ dir = "to" /\ s \in Settings(conf) /\ p \in Selected(doc.sources, Proxies)
             /\ q \in Selected(doc.destinations, Services)
  BY DEF LegacyGives, conf
<1>19. \A dir, p, q, s : LegacyGives(doc, dir, p, q, s) => Given(ds, dir, p, q, s)
  <2>1. Selected(doc.sources, Proxies) \subseteq TopsSelect(refs)
    BY <1>6 DEF SelectsAs
  <2>2. \A i \in DOMAIN refs :
          Selected(doc.destinations, Services) \subseteq DestsSelect(dests, Placed(ds[i]))
    BY <1>15 DEF SelectsAs
  <2> QED
    BY <1>13, <1>17, <1>18, <2>1, <2>2 DEF Given, TopsSelect
<1>20. KeepTraffic(ds, ws, doc)
  <2>1. CASE "dropped tags" \in ws
    BY <1>19, <2>1, Widened DEF KeepTraffic
  <2>2. CASE "dropped tags" \notin ws
    <3>1. TopsSelect(refs) \subseteq Selected(doc.sources, Proxies)
      BY <1>6, <2>2 DEF SelectsAs
    <3>2. \A i \in DOMAIN refs :
            DestsSelect(dests, Placed(ds[i])) \subseteq Selected(doc.destinations, Services)
      BY <1>15, <2>2 DEF SelectsAs
    <3>3. \A dir, p, q, s : Given(ds, dir, p, q, s) => LegacyGives(doc, dir, p, q, s)
      BY <1>13, <1>17, <1>18, <3>1, <3>2 DEF Given, TopsSelect
    <3> QED
      BY <1>19, <3>3 DEF KeepTraffic
  <2> QED
    BY <2>1, <2>2
<1>21. ASSUME NEW i \in DOMAIN ds
       PROVE  /\ Plain(ds[i], t) /\ ds[i].kind = OldTypeToNew[doc.kind]
              /\ ds[i].layout = doc.layout /\ ds[i].name = Numbered(doc.name, i, Len(ds))
  <2>1. i \in DOMAIN refs /\ SelectorRef(refs[i]) /\ Made(ds[i], doc, i, Len(refs), refs[i])
    BY <1>10, <1>13, <1>14
  <2>2. t = "v3" => /\ ~ByName(refs[i]) /\ ds[i].from = <<>>
                    /\ \A j \in DOMAIN ds[i].to : ~ByName(ds[i].to[j].ref)
    BY <1>9, <1>11, <1>12, <1>14, <2>1
  <2>3. Plain(ds[i], t)
    BY <1>5, <2>1, <2>2, MadePlain DEF SelectorRef
  <2>4. Len(ds) = Len(refs)
    <3>1. IsSeq(ds)
      BY <1>3, <1>4 DEF AllNew
    <3> QED
      BY <1>10, <1>13, <3>1, SeqMeans
  <2> QED
    BY <2>1, <2>3, <2>4 DEF Made
<1>22. IsSeq(ds)
  BY <1>3, <1>4 DEF AllNew
<1>23. Shaped(ds, ws, doc, t)
  BY <1>20, <1>21, <1>22 DEF Shaped
<1> QED
  BY <1>3, <1>23

LEMMA SelectorShaped ==
  ASSUME NEW doc, ClearInput(doc), doc.kind \in legacyShapes.selector,
         NEW t, NEW l \in IdentityTags, ~transformSelectorLegacy(doc, t, l).err
  PROVE  LET r == transformSelectorLegacy(doc, t, l) IN Shaped(r.docs, r.warns, doc, t)
<1> DEFINE one  == Selectors(doc.selectors, << <<>> >>)
           sels == ConvertSelectors(one, TRUE, t, l)
           refs == OneIfMesh(RefsOf(sels))
           conf == LegacyConf(doc)
           ds   == DefaultOfRefs(doc, refs)
           r    == transformSelectorLegacy(doc, t, l)
<1>1. r = IF Errs(sels) THEN Failed ELSE Result(ds, Warns(sels))
  BY Zenon DEF transformSelectorLegacy, SelectorPolicies
<1>2. ~Errs(sels)
  <2> HIDE DEF sels, ds
  <2> QED
    BY <1>1, ResultMeans
<1>3. r.docs = ds /\ r.warns = Warns(sels)
  <2>1. r = Result(ds, Warns(sels))
    BY <1>1, <1>2, Zenon
  <2> QED
    BY <2>1, DocsOfResult, WarnsOfResult, Zenon
<1>4. AllNew(r.docs, doc, t)
  BY SelectorsNew DEF ClearInput
<1>5. /\ ProperSelectors(doc.selectors) /\ ProperSelectors(one) /\ doc.kind \in DOMAIN OldTypeToNew
      /\ AllClear(doc.selectors) /\ ClearPolicy(doc)
  BY ClearLists, OneSelector DEF ClearInput, LegacyInput
<1>6. SelectsAs(TopsSelect(refs), Selected(doc.selectors, Proxies), Warns(sels))
  BY <1>2, <1>5, SelectorsSelect
<1>7. IsSeq(sels) /\ \A i \in DOMAIN sels : SelectorRef(sels[i].ref)
  BY <1>5, SelectorsMean
<1>8. t = "v3" => \A i \in DOMAIN sels : ~ByName(sels[i].ref)
  <2>1. AllClear(one)
    BY <1>5, OneForAll
  <2> HIDE DEF one
  <2>2. Became(sels, one, TRUE, t)
    BY <1>2, <2>1, ListBecomes
  <2> HIDE DEF sels
  <2> QED
    BY <2>2, NoNameOnV3, Zenon DEF Became
<1> HIDE DEF sels
<1>9. IsSeq(refs) /\ \A i \in DOMAIN refs : SelectorRef(refs[i])
  BY <1>7, RefsMean
<1>10. t = "v3" => \A i \in DOMAIN refs : ~ByName(refs[i])
  <2>1. refs = RefsOf(sels) \/ refs = <<MeshRef>>
    BY Zenon DEF OneIfMesh
  <2>2. DOMAIN RefsOf(sels) = DOMAIN sels /\ \A i \in DOMAIN sels : RefsOf(sels)[i] = sels[i].ref
    BY DEF RefsOf
  <2>3. DOMAIN <<MeshRef>> = {1} /\ <<MeshRef>>[1] = MeshRef /\ ~ByName(MeshRef)
    BY SeqOfOne, ProperMeshRef
  <2> QED
    BY <1>8, <2>1, <2>2, <2>3
<1> HIDE DEF refs, conf
<1>11. DOMAIN ds = DOMAIN refs
       /\ \A i \in DOMAIN refs :
            ds[i] = [NewPolicy(doc, i, Len(refs), refs[i]) EXCEPT !.default = <<conf>>]
  BY DEF DefaultOfRefs, conf
<1> HIDE DEF ds
<1>12. ASSUME NEW i \in DOMAIN refs
       PROVE  /\ Made(ds[i], doc, i, Len(refs), refs[i])
              /\ ds[i].default = <<conf>> /\ ds[i].to = <<>> /\ ds[i].from = <<>>
              /\ ds[i].rules = <<>>
  <2> DEFINE p == NewPolicy(doc, i, Len(refs), refs[i])
             n == Len(refs)
             sole == <<conf>>
  <2>1. /\ Made(p, doc, i, n, refs[i])
        /\ p.to = <<>> /\ p.from = <<>> /\ p.rules = <<>> /\ p.default = <<>>
    BY NewPolicyMade
  <2>2. ds[i] = [p EXCEPT !["default"] = sole]
    BY <1>11
  <2> HIDE DEF p, n, sole
  <2>3. /\ Made(ds[i], doc, i, n, refs[i]) /\ ds[i]["default"] = sole
        /\ \A g \in {"to", "from", "rules", "default"} \ {"default"} : ds[i][g] = p[g]
    BY <2>1, <2>2, MadeWith
  <2> QED
    BY <2>1, <2>3 DEF n, sole
<1>13. DOMAIN <<>> = {} /\ DOMAIN <<conf>> = {1} /\ <<conf>>[1] = conf
  BY NoDomain, SeqOfOne
<1>14. \A i \in DOMAIN refs : \A dir, p, q, s :
         Gives(ds[i], dir, p, q, s)
           <=> /\ dir = "own" /\ p \in ProxiesOf(refs[i]) /\ q = NoPeer /\ s \in Settings(conf)
  BY <1>12, <1>13 DEF Gives, Made
<1>15. \A dir, p, q, s : LegacyGives(doc, dir, p, q, s)
         <=> /\ dir = "own" /\ s \in Settings(conf) /\ p \in Selected(doc.selectors, Proxies)
             /\ q = NoPeer
  <2>1. doc.kind \notin legacyShapes.inbound
    BY DEF legacyShapes
  <2> QED
    BY <2>1 DEF LegacyGives, conf
<1>16. \A dir, p, q, s : Given(ds, dir, p, q, s)
         <=> dir = "own" /\ p \in TopsSelect(refs) /\ q = NoPeer /\ s \in Settings(conf)
  BY <1>11, <1>14 DEF Given, TopsSelect
<1>17. KeepTraffic(ds, Warns(sels), doc)
  <2>1. \A dir, p, q, s : LegacyGives(doc, dir, p, q, s) => Given(ds, dir, p, q, s)
    <3>1. Selected(doc.selectors, Proxies) \subseteq TopsSelect(refs)
      BY <1>6 DEF SelectsAs
    <3> QED
      BY <1>15, <1>16, <3>1
  <2>2. CASE "dropped tags" \in Warns(sels)
    BY <2>1, <2>2, Widened DEF KeepTraffic
  <2>3. CASE "dropped tags" \notin Warns(sels)
    <3>1. \A dir, p, q, s : Given(ds, dir, p, q, s) => LegacyGives(doc, dir, p, q, s)
      <4>1. TopsSelect(refs) \subseteq Selected(doc.selectors, Proxies)
        BY <1>6, <2>3 DEF SelectsAs
      <4> QED
        BY <1>15, <1>16, <4>1
    <3> QED
      BY <2>1, <3>1 DEF KeepTraffic
  <2> QED
    BY <2>2, <2>3
<1>18. ASSUME NEW i \in DOMAIN ds
       PROVE  /\ Plain(ds[i], t) /\ ds[i].kind = OldTypeToNew[doc.kind]
              /\ ds[i].layout = doc.layout /\ ds[i].name = Numbered(doc.name, i, Len(ds))
  <2>1. i \in DOMAIN refs /\ SelectorRef(refs[i]) /\ Made(ds[i], doc, i, Len(refs), refs[i])
    BY <1>9, <1>11, <1>12
  <2>2. t = "v3" => /\ ~ByName(refs[i]) /\ ds[i].from = <<>>
                    /\ \A j \in DOMAIN ds[i].to : ~ByName(ds[i].to[j].ref)
    BY <1>10, <1>12, <1>13, <2>1
  <2>3. Plain(ds[i], t)
    BY <1>5, <2>1, <2>2, MadePlain DEF SelectorRef
  <2>4. Len(ds) = Len(refs)
    <3>1. IsSeq(ds)
      BY <1>3, <1>4 DEF AllNew
    <3> QED
      BY <1>9, <1>11, <3>1, SeqMeans
  <2> QED
    BY <2>1, <2>3, <2>4 DEF Made
<1>19. IsSeq(ds)
  BY <1>3, <1>4 DEF AllNew
<1>20. Shaped(ds, Warns(sels), doc, t)
  BY <1>17, <1>18, <1>19 DEF Shaped
<1> QED
  BY <1>3, <1>20

\* The clients of from[] are those of the sources.
LEMMA SourcesAsClients ==
  ASSUME NEW list, AllClear(list)
  PROVE  LET one == Selectors(list, << <<>> >>) IN
         Selected(list, Proxies)
           = {q \in Proxies : \E j \in DOMAIN one : q \in ClientsOf(fromSubsetRefV2(one[j]))}
<1> DEFINE one == Selectors(list, << <<>> >>)
<1>1. /\ AllClear(one)
      /\ Selected(list, Proxies) = {x \in Proxies : \E i \in DOMAIN one : SelectorMatches(one[i], x)}
  BY OneForAll
<1> HIDE DEF one
<1>2. \A j \in DOMAIN one : ClientsOf(fromSubsetRefV2(one[j])) = Matched(one[j], Proxies)
  BY <1>1, ClientsSelect DEF AllClear
<1> QED
  BY <1>1, <1>2 DEF Matched, one

\* Sources that are all the wildcard are every client.
LEMMA WildcardSources ==
  ASSUME NEW list, AllClear(list), IsSeq(list), allWildcardSources(list)
  PROVE  Selected(list, Proxies) = Proxies
<1>1. CASE list = <<>>
  BY <1>1 DEF Selected
<1>2. CASE list # <<>>
  <2>1. Selected(list, Proxies)
          = {x \in Proxies : \E i \in DOMAIN list : SelectorMatches(list[i], x)}
    BY <1>2 DEF Selected, Range
  <2>2. PICK i \in DOMAIN list : TRUE
    BY <1>2, EmptySeq
  <2>3. ClearSelector(list[i]) /\ IsAll(list[i])
    BY DEF AllClear, allWildcardSources, IsAll, TagOrNone
  <2>4. \A x \in Proxies : SelectorMatches(list[i], x)
    BY <2>3, AllMatch, Universe
  <2> QED
    BY <2>1, <2>4
<1> QED
  BY <1>1, <1>2

\* The clients a policy for clients gives its settings to.
ClientsKept(doc, t) ==
  IF UsesRules(doc.kind, t) THEN Proxies ELSE Selected(doc.sources, Proxies)

\* Such a policy, made for one destination.
ForTheClients(d, doc, i, n, ref, conf, t) ==
  /\ Made(d, doc, i, n, ref) /\ d.to = <<>>
  /\ UsesRules(doc.kind, t) => d.from = <<>>
  /\ \A dir, x, q, s : Gives(d, dir, x, q, s)
       <=> /\ dir = "in" /\ x \in ProxiesOf(ref) /\ q \in ClientsKept(doc, t)
           /\ s \in Settings(conf)

\* A policy before its sections are filled in.
Empty(p) == p.to = <<>> /\ p.from = <<>> /\ p.rules = <<>> /\ p.default = <<>>

RulesFilled(p, v) == [p EXCEPT !.rules = v]
FromFilled(p, v)  == [p EXCEPT !.from = v]

LEMMA MadeWithRules ==
  ASSUME NEW doc, NEW i, NEW n, NEW ref, NEW p, Made(p, doc, i, n, ref), Empty(p),
         NEW v, NEW d, d = RulesFilled(p, v)
  PROVE  /\ Made(d, doc, i, n, ref) /\ d.rules = v
         /\ d.to = <<>> /\ d.from = <<>> /\ d.default = <<>>
<1>1. IsDoc(d) /\ d.rules = v /\ \A g \in PolicyFields \ {"rules"} : d[g] = p[g]
  BY DEF Made, IsDoc, PolicyFields, RulesFilled
<1>2. /\ d.kind = p.kind /\ d.layout = p.layout /\ d.name = p.name /\ d.ns = p.ns
      /\ d.labels = p.labels /\ d.targetRef = p.targetRef
      /\ d.to = p.to /\ d.from = p.from /\ d.default = p.default
  BY <1>1 DEF PolicyFields
<1>3. TopRef(d) = TopRef(p)
  BY <1>2 DEF TopRef
<1> QED
  BY <1>1, <1>2, <1>3 DEF Made, Empty

LEMMA MadeWithFrom ==
  ASSUME NEW doc, NEW i, NEW n, NEW ref, NEW p, Made(p, doc, i, n, ref), Empty(p),
         NEW v, NEW d, d = FromFilled(p, v)
  PROVE  /\ Made(d, doc, i, n, ref) /\ d.from = v
         /\ d.to = <<>> /\ d.rules = <<>> /\ d.default = <<>>
<1>1. IsDoc(d) /\ d.from = v /\ \A g \in PolicyFields \ {"from"} : d[g] = p[g]
  BY DEF Made, IsDoc, PolicyFields, FromFilled
<1>2. /\ d.kind = p.kind /\ d.layout = p.layout /\ d.name = p.name /\ d.ns = p.ns
      /\ d.labels = p.labels /\ d.targetRef = p.targetRef
      /\ d.to = p.to /\ d.rules = p.rules /\ d.default = p.default
  BY <1>1 DEF PolicyFields
<1>3. TopRef(d) = TopRef(p)
  BY <1>2 DEF TopRef
<1> QED
  BY <1>1, <1>2, <1>3 DEF Made, Empty

LEMMA ForClientsGives ==
  ASSUME NEW doc, AllClear(doc.sources), NEW t, NEW conf, NEW i, NEW n, NEW ref, NEW p,
         Made(p, doc, i, n, ref), Empty(p),
         NEW d, d = ForClients(p, Selectors(doc.sources, << <<>> >>), conf, UsesRules(doc.kind, t))
  PROVE  ForTheClients(d, doc, i, n, ref, conf, t)
<1> DEFINE one  == Selectors(doc.sources, << <<>> >>)
           from == [j \in DOMAIN one |-> Entry(fromSubsetRefV2(one[j]), conf)]
           sole == <<conf>>
<1>1. DOMAIN <<>> = {} /\ DOMAIN sole = {1} /\ sole[1] = conf
  BY NoDomain, SeqOfOne
<1>2. CASE UsesRules(doc.kind, t)
  <2>1. d = RulesFilled(p, sole)
    BY <1>2, Zenon DEF ForClients, RulesFilled
  <2> HIDE DEF sole
  <2>2. /\ Made(d, doc, i, n, ref) /\ d.rules = sole
        /\ d.to = <<>> /\ d.from = <<>> /\ d.default = <<>>
    BY <2>1, MadeWithRules
  <2>3. d.rules = sole /\ d.to = <<>> /\ d.from = <<>> /\ d.default = <<>> /\ TopRef(d) = ref
    BY <2>2 DEF Made
  <2>4. ClientsKept(doc, t) = Proxies
    BY <1>2 DEF ClientsKept
  <2> QED
    BY <1>1, <2>2, <2>3, <2>4 DEF Gives, ForTheClients
<1>3. CASE ~UsesRules(doc.kind, t)
  <2>1. d = FromFilled(p, from)
    BY <1>3, Zenon DEF ForClients, FromFilled
  <2>2. DOMAIN from = DOMAIN one /\ \A j \in DOMAIN one : from[j] = Entry(fromSubsetRefV2(one[j]), conf)
    OBVIOUS
  <2>3. Selected(doc.sources, Proxies)
          = {q \in Proxies : \E j \in DOMAIN one : q \in ClientsOf(fromSubsetRefV2(one[j]))}
    BY SourcesAsClients
  <2> HIDE DEF from, sole, one
  <2>4. /\ Made(d, doc, i, n, ref) /\ d.from = from
        /\ d.to = <<>> /\ d.rules = <<>> /\ d.default = <<>>
    BY <2>1, MadeWithFrom
  <2>5. d.from = from /\ d.to = <<>> /\ d.rules = <<>> /\ d.default = <<>> /\ TopRef(d) = ref
    BY <2>4 DEF Made
  <2>6. \A j \in DOMAIN one : from[j].ref = fromSubsetRefV2(one[j]) /\ from[j].conf = conf
    BY <2>2, EntryMeans
  <2>7. \A r : ClientsOf(r) \subseteq Proxies
    BY Universe DEF ClientsOf, ProxiesOf
  <2>8. \A q : q \in ClientsKept(doc, t)
          <=> \E j \in DOMAIN from : q \in ClientsOf(from[j].ref)
    BY <1>3, <2>2, <2>3, <2>6, <2>7 DEF ClientsKept
  <2>9. \A j \in DOMAIN from : from[j].conf = conf
    BY <2>2, <2>6
  <2> QED
    BY <1>1, <1>3, <2>4, <2>5, <2>8, <2>9 DEF Gives, ForTheClients
<1> QED
  BY <1>2, <1>3

LEMMA InboundShaped ==
  ASSUME NEW doc, ClearInput(doc), doc.kind \in legacyShapes.inbound,
         NEW t \in {"v2", "v3"}, NEW l \in IdentityTags, ~transformInboundLegacy(doc, t, l).err
  PROVE  LET r == transformInboundLegacy(doc, t, l) IN Shaped(r.docs, r.warns, doc, t)
<1> DEFINE one   == Selectors(doc.sources, << <<>> >>)
           dests == ConvertSelectors(doc.destinations, TRUE, t, l)
           conf  == LegacyConf(doc)
           rules == UsesRules(doc.kind, t)
           ds    == [i \in DOMAIN dests |->
                       ForClients(NewPolicy(doc, i, Len(dests), dests[i].ref), one, conf, rules)]
           ws    == Warns(dests) \union
                      IF doc.kind = "RateLimit" /\ doc.sources # <<>>
                      THEN {"clients not preserved"} ELSE {}
           r     == transformInboundLegacy(doc, t, l)
<1>1. r = IF dests = <<>> \/ NoSuccessorOnV3(doc, t) \/ Errs(dests) THEN Failed ELSE Result(ds, ws)
  BY Zenon DEF transformInboundLegacy, InboundPolicies
<1>2. dests # <<>> /\ ~NoSuccessorOnV3(doc, t) /\ ~Errs(dests)
  <2> HIDE DEF dests, ds, ws
  <2> QED
    BY <1>1, ResultMeans
<1>3. r.docs = ds /\ r.warns = ws
  <2>1. r = Result(ds, ws)
    BY <1>1, <1>2, Zenon
  <2> HIDE DEF r, ds, ws
  <2> QED
    BY <2>1, DocsOfResult, WarnsOfResult, Zenon
<1>4. AllNew(r.docs, doc, t)
  BY InboundNew DEF ClearInput
<1>5. /\ ProperSelectors(doc.destinations) /\ doc.kind \in DOMAIN OldTypeToNew
      /\ AllClear(doc.sources) /\ AllClear(doc.destinations) /\ ClearPolicy(doc)
      /\ IsSeq(doc.sources)
  BY ClearLists DEF ClearInput, LegacyInput, ProperSelectors, IsSeq
<1>6. SelectsAs(TopsSelect(RefsOf(dests)), Selected(doc.destinations, Proxies), Warns(dests))
  BY <1>2, <1>5, InboundSelect
<1>7. IsSeq(dests) /\ \A i \in DOMAIN dests : SelectorRef(dests[i].ref)
  BY <1>5, SelectorsMean
<1>8. t = "v3" => \A i \in DOMAIN dests : ~ByName(dests[i].ref)
  <2>1. Became(dests, doc.destinations, TRUE, t)
    BY <1>2, <1>5, ListBecomes
  <2> HIDE DEF dests
  <2> QED
    BY <2>1, NoNameOnV3, Zenon DEF Became
<1>9. t = "v3" => rules
  BY <1>2 DEF NoSuccessorOnV3, UsesRules, legacyShapes
<1>10. ClientsKept(doc, t) = Selected(doc.sources, Proxies) \/ "clients not preserved" \in ws
  <2>1. CASE doc.kind = "RateLimit" /\ doc.sources # <<>>
    BY <2>1
  <2>2. CASE doc.sources = <<>>
    BY <2>2 DEF ClientsKept, Selected
  <2>3. CASE doc.kind = "FaultInjection" /\ t = "v3"
    <3>1. allWildcardSources(doc.sources)
      BY <1>2, <2>3 DEF NoSuccessorOnV3
    <3>2. Selected(doc.sources, Proxies) = Proxies
      BY <1>5, <3>1, WildcardSources
    <3> QED
      BY <3>2 DEF ClientsKept
  <2>4. CASE ~UsesRules(doc.kind, t)
    BY <2>4 DEF ClientsKept
  <2> QED
    BY <2>1, <2>2, <2>3, <2>4 DEF UsesRules
<1>11. Selected(doc.sources, Proxies) \subseteq ClientsKept(doc, t)
  BY DEF ClientsKept, Selected
<1>12. Warns(dests) \subseteq ws
  OBVIOUS
<1> HIDE DEF dests, conf, rules, one, ws
<1>13. DOMAIN ds = DOMAIN dests
       /\ \A i \in DOMAIN dests :
            ds[i] = ForClients(NewPolicy(doc, i, Len(dests), dests[i].ref), one, conf, rules)
  OBVIOUS
<1> HIDE DEF ds
<1>14. ASSUME NEW i \in DOMAIN dests
       PROVE  /\ Made(ds[i], doc, i, Len(dests), dests[i].ref) /\ ds[i].to = <<>>
              /\ rules => ds[i].from = <<>>
              /\ \A dir, p, q, s : Gives(ds[i], dir, p, q, s)
                   <=> /\ dir = "in" /\ p \in ProxiesOf(dests[i].ref)
                       /\ q \in ClientsKept(doc, t) /\ s \in Settings(conf)
  <2> DEFINE p == NewPolicy(doc, i, Len(dests), dests[i].ref)
             n == Len(dests)
             e == dests[i].ref
  <2>1. Made(p, doc, i, n, e) /\ Empty(p)
    BY NewPolicyMade DEF Empty
  <2>2. ds[i] = ForClients(p, Selectors(doc.sources, << <<>> >>), conf, UsesRules(doc.kind, t))
    BY <1>13 DEF one, rules
  <2> HIDE DEF p, n, e
  <2>3. ForTheClients(ds[i], doc, i, n, e, conf, t)
    BY <1>5, <2>1, <2>2, ForClientsGives
  <2> QED
    BY <2>3 DEF n, e, rules, ForTheClients
<1>15. TopsSelect(RefsOf(dests)) = UNION {ProxiesOf(dests[i].ref) : i \in DOMAIN dests}
  BY DEF TopsSelect, RefsOf
<1>16. \A dir, p, q, s : Given(ds, dir, p, q, s)
         <=> /\ dir = "in" /\ p \in TopsSelect(RefsOf(dests)) /\ q \in ClientsKept(doc, t)
             /\ s \in Settings(conf)
  BY <1>13, <1>14, <1>15 DEF Given
<1>17. \A dir, p, q, s : LegacyGives(doc, dir, p, q, s)
         <=> /\ dir = "in" /\ s \in Settings(conf) /\ p \in Selected(doc.destinations, Proxies)
             /\ q \in Selected(doc.sources, Proxies)
  <2>1. doc.kind \notin legacyShapes.selector
    BY DEF legacyShapes
  <2> QED
    BY <2>1 DEF LegacyGives, conf
<1>18. KeepTraffic(ds, ws, doc)
  <2>1. \A dir, p, q, s : LegacyGives(doc, dir, p, q, s) => Given(ds, dir, p, q, s)
    <3>1. Selected(doc.destinations, Proxies) \subseteq TopsSelect(RefsOf(dests))
      BY <1>6 DEF SelectsAs
    <3> QED
      BY <1>11, <1>16, <1>17, <3>1
  <2>2. CASE "dropped tags" \in ws \/ "clients not preserved" \in ws
    BY <2>1, <2>2, Widened DEF KeepTraffic
  <2>3. CASE "dropped tags" \notin ws /\ "clients not preserved" \notin ws
    <3>1. TopsSelect(RefsOf(dests)) \subseteq Selected(doc.destinations, Proxies)
      BY <1>6, <1>12, <2>3 DEF SelectsAs
    <3>2. ClientsKept(doc, t) = Selected(doc.sources, Proxies)
      BY <1>10, <2>3
    <3>3. \A dir, p, q, s : Given(ds, dir, p, q, s) => LegacyGives(doc, dir, p, q, s)
      BY <1>16, <1>17, <3>1, <3>2
    <3> QED
      BY <2>1, <3>3 DEF KeepTraffic
  <2> QED
    BY <2>2, <2>3
<1>19. ASSUME NEW i \in DOMAIN ds
       PROVE  /\ Plain(ds[i], t) /\ ds[i].kind = OldTypeToNew[doc.kind]
              /\ ds[i].layout = doc.layout /\ ds[i].name = Numbered(doc.name, i, Len(ds))
  <2>1. /\ i \in DOMAIN dests /\ SelectorRef(dests[i].ref)
        /\ Made(ds[i], doc, i, Len(dests), dests[i].ref) /\ ds[i].to = <<>>
    BY <1>7, <1>13, <1>14
  <2>2. t = "v3" => /\ ~ByName(dests[i].ref) /\ ds[i].from = <<>>
                    /\ \A j \in DOMAIN ds[i].to : ~ByName(ds[i].to[j].ref)
    BY <1>8, <1>9, <1>14, <2>1, NoDomain
  <2> DEFINE e == dests[i].ref
             n == Len(dests)
  <2> HIDE DEF e, n
  <2>3. Plain(ds[i], t)
    <3>1. e.proxyTypes = {} /\ Made(ds[i], doc, i, n, e)
      BY <2>1 DEF SelectorRef, e, n
    <3>2. t = "v3" => /\ ~ByName(e) /\ ds[i].from = <<>>
                      /\ \A j \in DOMAIN ds[i].to : ~ByName(ds[i].to[j].ref)
      BY <2>2 DEF e
    <3> QED
      BY <1>5, <3>1, <3>2, MadePlain
  <2>4. Len(ds) = Len(dests)
    <3>1. IsSeq(ds)
      BY <1>3, <1>4 DEF AllNew
    <3> QED
      BY <1>7, <1>13, <3>1, SeqMeans
  <2> QED
    BY <2>1, <2>3, <2>4 DEF Made
<1>20. IsSeq(ds)
  BY <1>3, <1>4 DEF AllNew
<1>21. Shaped(ds, ws, doc, t)
  BY <1>18, <1>19, <1>20 DEF Shaped
<1> QED
  BY <1>3, <1>21

-----------------------------------------------------------------------------
(***************************************************************************)
(* The split of the panic threshold, and the files of its results.         *)
(***************************************************************************)

LEMMA LessUpTo ==
  ASSUME NEW I, I \subseteq Nat, NEW x \in I, NEW y \in I, x < y
  PROVE  y \in UpTo(I, y) /\ UpTo(I, x) \subseteq UpTo(I, y) \ {y}
<1>1. \A j \in I : j \in Nat
  OBVIOUS
<1>2. y <= y /\ \A j \in I : j <= x => j <= y /\ j # y
  BY <1>1
<1> QED
  BY <1>2 DEF UpTo

\* Every member of I has a rank of its own.
LEMMA NthOf ==
  ASSUME NEW n \in Nat, NEW I, I \subseteq 1..n, NEW i \in I
  PROVE  \E k \in 1..Cardinality(I) : Nth(I, k) = i
<1> DEFINE U(x) == UpTo(I, x)
           k    == Cardinality(U(i))
<1>1. \A x : U(x) \subseteq 1..n /\ U(x) \in SUBSET I
  BY DEF UpTo
<1>2. \A x : IsFiniteSet(U(x)) /\ Cardinality(U(x)) \in Nat
  BY <1>1, SmallSets
<1>3. IsFiniteSet(I) /\ Cardinality(I) \in Nat
  BY SmallSets
<1>4. k <= Cardinality(I)
  BY <1>1, <1>3, FS_Subset
<1>5. i \in U(i) /\ i \in Nat
  BY DEF UpTo
<1>6. \A x, y \in I : x < y => Cardinality(U(x)) < Cardinality(U(y))
  <2> SUFFICES ASSUME NEW x \in I, NEW y \in I, x < y
               PROVE  Cardinality(U(x)) < Cardinality(U(y))
    OBVIOUS
  <2>0. I \subseteq Nat
    OBVIOUS
  <2>1. y \in U(y) /\ U(x) \in SUBSET (U(y) \ {y})
    BY <2>0, LessUpTo
  <2> HIDE DEF U
  <2>2. Cardinality(U(y) \ {y}) = Cardinality(U(y)) - 1 /\ IsFiniteSet(U(y) \ {y})
    BY <1>2, <2>1, FS_RemoveElement
  <2>3. Cardinality(U(x)) <= Cardinality(U(y) \ {y})
    BY <2>1, <2>2, FS_Subset
  <2> QED
    BY <1>2, <2>2, <2>3
<1>7. k # 0
  <2>1. U(i) # {}
    BY <1>5
  <2> HIDE DEF U
  <2> QED
    BY <1>2, <2>1, FS_EmptySet
<1>8. k \in 1..Cardinality(I)
  BY <1>2, <1>3, <1>4, <1>7
<1>9. Nth(I, k) \in I /\ Cardinality(U(Nth(I, k))) = k
  BY <1>8, NthMember
<1> DEFINE x == Nth(I, k)
<1> HIDE DEF U
<1>10. x \in I /\ Cardinality(U(x)) = Cardinality(U(i))
  BY <1>9
<1> HIDE DEF x
<1>11. x = i
  <2>1. x < i \/ i < x \/ x = i
    BY <1>10
  <2> QED
    BY <1>2, <1>6, <1>10, <2>1
<1> QED
  BY <1>8, <1>11 DEF x

\* What s has at the numbers of I, each once.
Picks(c, s, I) ==
  /\ IsSeq(c) /\ DOMAIN c = 1..Cardinality(I)
  /\ \A k \in DOMAIN c : Nth(I, k) \in I /\ c[k] = s[Nth(I, k)]
  /\ \A k, l \in DOMAIN c : Nth(I, k) = Nth(I, l) => k = l
  /\ \A i \in I : \E k \in DOMAIN c : Nth(I, k) = i

LEMMA ChosenMeans ==
  ASSUME NEW s, IsSeq(s), NEW I, I \subseteq DOMAIN s
  PROVE  Picks(Chosen(s, I), s, I)
<1> DEFINE c == Chosen(s, I)
<1>1. Len(s) \in Nat /\ I \subseteq 1..Len(s)
  BY SeqMeans
<1>2. Cardinality(I) \in Nat
  BY <1>1, SmallSets
<1>3. DOMAIN c = 1..Cardinality(I) /\ c = [k \in DOMAIN c |-> c[k]]
      /\ \A k \in DOMAIN c : c[k] = s[Nth(I, k)]
  BY DEF Chosen
<1> HIDE DEF c
<1>4. IsSeq(c)
  BY <1>2, <1>3, SeqOfNumbered
<1>5. \A k \in DOMAIN c : Nth(I, k) \in I /\ Cardinality(UpTo(I, Nth(I, k))) = k
  BY <1>1, <1>3, NthMember
<1>6. \A i \in I : \E k \in DOMAIN c : Nth(I, k) = i
  BY <1>1, <1>3, NthOf
<1>7. \A k, l \in DOMAIN c : Nth(I, k) = Nth(I, l) => k = l
  BY <1>5
<1> QED
  BY <1>3, <1>4, <1>5, <1>6, <1>7 DEF Picks, c

JoinedAs(es, a, b) ==
  /\ DOMAIN es = 1..(Len(a) + Len(b))
  /\ \A i \in DOMAIN es : i <= Len(a) => i \in DOMAIN a /\ es[i] = a[i]
  /\ \A i \in DOMAIN es : ~(i <= Len(a)) => i - Len(a) \in DOMAIN b /\ es[i] = b[i - Len(a)]
  /\ \A i \in DOMAIN a : i \in DOMAIN es /\ es[i] = a[i]
  /\ \A k \in DOMAIN b : Len(a) + k \in DOMAIN es /\ es[Len(a) + k] = b[k]

LEMMA ConcatMeans ==
  ASSUME NEW s, IsSeq(s), NEW r, IsSeq(r)
  PROVE  JoinedAs(s \o r, s, r) /\ IsSeq(s \o r)
<1>1. PICK R : s \in Seq(R) /\ r \in Seq(R)
  <2>1. s \in Seq(Range(s) \union Range(r)) /\ r \in Seq(Range(s) \union Range(r))
    <3> DEFINE R == Range(s) \union Range(r)
    <3>1. Range(s) \subseteq R /\ Range(r) \subseteq R
      OBVIOUS
    <3> HIDE DEF R
    <3>2. s \in Seq(R) /\ r \in Seq(R)
      BY <3>1 DEF IsSeq
    <3> QED
      BY <3>2 DEF R
  <2> QED
    BY <2>1
<1>2. s \o r \in Seq(R) /\ Len(s \o r) = Len(s) + Len(r) /\ Len(s) \in Nat /\ Len(r) \in Nat
      /\ DOMAIN s = 1..Len(s) /\ DOMAIN r = 1..Len(r)
  BY <1>1
<1>3. DOMAIN (s \o r) = 1..(Len(s) + Len(r))
  BY <1>2
<1>4. IsSeq(s \o r)
  BY ConcatSeq
<1>5. \A i \in DOMAIN (s \o r) : i <= Len(s) => i \in DOMAIN s /\ (s \o r)[i] = s[i]
  BY <1>1, <1>2, <1>3
<1>6. \A i \in DOMAIN (s \o r) :
        ~(i <= Len(s)) => i - Len(s) \in DOMAIN r /\ (s \o r)[i] = r[i - Len(s)]
  BY <1>1, <1>2, <1>3
<1>7. \A i \in DOMAIN s : i \in DOMAIN (s \o r) /\ (s \o r)[i] = s[i]
  BY <1>1, <1>2, <1>3
<1>8. \A j \in DOMAIN r : Len(s) + j \in DOMAIN (s \o r) /\ (s \o r)[Len(s) + j] = r[j]
  BY <1>1, <1>2, <1>3
<1> QED
  BY <1>3, <1>4, <1>5, <1>6, <1>7, <1>8 DEF JoinedAs

\* What comes before a common end is the same.
LEMMA SameStart ==
  ASSUME NEW s, IsSeq(s), NEW u, IsSeq(u), NEW r, IsSeq(r), s \o r = u \o r
  PROVE  s = u
<1>1. /\ DOMAIN (s \o r) = 1..(Len(s) + Len(r))
      /\ \A i \in DOMAIN s : (s \o r)[i] = s[i]
  BY ConcatMeans DEF JoinedAs
<1>2. /\ DOMAIN (u \o r) = 1..(Len(u) + Len(r))
      /\ \A i \in DOMAIN u : (u \o r)[i] = u[i]
  BY ConcatMeans DEF JoinedAs
<1>3. /\ Len(s) \in Nat /\ DOMAIN s = 1..Len(s) /\ s = [i \in DOMAIN s |-> s[i]]
      /\ Len(u) \in Nat /\ DOMAIN u = 1..Len(u) /\ u = [i \in DOMAIN u |-> u[i]]
      /\ Len(r) \in Nat
  BY SeqMeans
<1>4. Len(s) = Len(u)
  <2> DEFINE m == Len(s)
             n == Len(u)
             k == Len(r)
  <2>1. 1..(m + k) = 1..(n + k)
    BY <1>1, <1>2
  <2>2. m \in Nat /\ n \in Nat /\ k \in Nat
    BY <1>3
  <2> HIDE DEF m, n, k
  <2>3. m = n
    BY <2>1, <2>2
  <2> QED
    BY <2>3 DEF m, n
<1>5. DOMAIN s = DOMAIN u /\ \A i \in DOMAIN s : s[i] = u[i]
  BY <1>1, <1>2, <1>3, <1>4
<1> QED
  BY <1>3, <1>5

\* No two documents of a kind have a name in common.
Distinct(ds) ==
  \A i, j \in DOMAIN ds : ds[i].kind = ds[j].kind /\ ds[i].name = ds[j].name => i = j

LEMMA NumbersDiffer ==
  ASSUME NEW name, IsSeq(name), NEW n \in Nat, NEW i \in 1..n, NEW j \in 1..n,
         Numbered(name, i, n) = Numbered(name, j, n)
  PROVE  i = j
<1>1. CASE n <= 1
  BY <1>1
<1>2. CASE n > 1
  <2> DEFINE a == <<"-", i - 1>>
             b == <<"-", j - 1>>
  <2>1. name \o a = name \o b
    BY <1>2, Zenon DEF Numbered
  <2>2. Len(a) = 2 /\ DOMAIN a = 1..2 /\ Len(b) = 2 /\ DOMAIN b = 1..2
        /\ a = [k \in DOMAIN a |-> a[k]] /\ b = [k \in DOMAIN b |-> b[k]]
    BY Zenon, SMT
  <2>3. a[2] = i - 1 /\ b[2] = j - 1
    OBVIOUS
  <2> HIDE DEF a, b
  <2>4. IsSeq(a) /\ IsSeq(b)
    BY <2>2, SeqOfNumbered
  <2>5. 2 \in DOMAIN a /\ 2 \in DOMAIN b
    BY <2>2
  <2>6. \A r : IsSeq(r) => \A k \in DOMAIN r : (name \o r)[Len(name) + k] = r[k]
    BY ConcatMeans DEF JoinedAs
  <2>7. (name \o a)[Len(name) + 2] = i - 1 /\ (name \o b)[Len(name) + 2] = j - 1
    BY <2>3, <2>4, <2>5, <2>6
  <2> QED
    <3>1. i - 1 = j - 1
      BY <2>1, <2>7, Zenon
    <3> QED
      BY <3>1
<1> QED
  BY <1>1, <1>2

LEMMA ShapedDistinct ==
  ASSUME NEW doc, IsSeq(doc.name), NEW ds, NEW ws, NEW t, Shaped(ds, ws, doc, t)
  PROVE  Distinct(ds)
<1>1. Len(ds) \in Nat /\ DOMAIN ds = 1..Len(ds)
      /\ \A i \in DOMAIN ds : ds[i].name = Numbered(doc.name, i, Len(ds))
  BY SeqMeans DEF Shaped
<1> QED
  BY <1>1, NumbersDiffer DEF Distinct

\* What setMissingSystemNamespace does to the fields.
LEMMA PlacedFields ==
  ASSUME NEW d, IsDoc(d)
  PROVE  /\ IsDoc(Placed(d))
         /\ Placed(d).ns = IF d.layout = "kube" /\ d.ns = None THEN SystemNs ELSE d.ns
         /\ \A f \in PolicyFields \ {"ns"} : Placed(d)[f] = d[f]
         /\ ~(d.layout = "kube" /\ d.ns = None) => Placed(d) = d
         /\ ~(Placed(d).layout = "kube" /\ Placed(d).ns = None)
<1>1. SystemNs # None
  BY PoliciesAssumption DEF None
<1>2. CASE d.layout = "kube" /\ d.ns = None
  <2>1. Placed(d) = [d EXCEPT !.ns = SystemNs]
    BY <1>2, Zenon DEF Placed
  <2>2. /\ IsDoc(Placed(d)) /\ Placed(d).ns = SystemNs
        /\ \A f \in PolicyFields \ {"ns"} : Placed(d)[f] = d[f]
    BY <2>1 DEF IsDoc, PolicyFields
  <2> QED
    BY <1>1, <1>2, <2>2
<1>3. CASE ~(d.layout = "kube" /\ d.ns = None)
  <2>1. Placed(d) = d
    BY <1>3, Zenon DEF Placed
  <2> QED
    BY <1>3, <2>1
<1> QED
  BY <1>2, <1>3

\* What is placed in the same namespace names the same services.
LEMMA SameServices ==
  ASSUME NEW d, IsDoc(d), NEW e, IsDoc(e), d.layout = e.layout, d.labels = e.labels,
         e.ns \in {d.ns, Placed(d).ns}
  PROVE  \A ref : ServicesOf(ref, Placed(e)) = ServicesOf(ref, Placed(d))
<1>1. Placed(e).ns = Placed(d).ns
  BY PlacedFields
<1>2. Placed(e).labels = d.labels /\ Placed(d).labels = d.labels
  BY PlacedFields DEF PolicyFields
<1> DEFINE x == Placed(d)
           y == Placed(e)
<1> HIDE DEF x, y
<1>3. x.ns = y.ns /\ x.labels = y.labels
  BY <1>1, <1>2 DEF x, y
<1>4. \A ref : ServicesOf(ref, x) = ServicesOf(ref, y)
  BY <1>3 DEF ServicesOf, NamedBy
<1> QED
  BY <1>4 DEF x, y

\* The documents that differ in their mesh, their namespace and their owned
\* labels give the same.
LEMMA SameGives ==
  ASSUME NEW d, IsDoc(d), NEW e, IsDoc(e), d.layout = e.layout,
         TagOrNone(d.labels, Zone) = TagOrNone(e.labels, Zone), e.ns \in {d.ns, Placed(d).ns},
         d.targetRef = e.targetRef, d.to = e.to, d.from = e.from, d.rules = e.rules,
         d.default = e.default
  PROVE  \A dir, p, q, s : Gives(e, dir, p, q, s) <=> Gives(d, dir, p, q, s)
<1>1. Placed(e).ns = Placed(d).ns
  BY PlacedFields
<1>2. Placed(e).labels = e.labels /\ Placed(d).labels = d.labels
  BY PlacedFields DEF PolicyFields
<1> DEFINE x == Placed(d)
           y == Placed(e)
<1> HIDE DEF x, y
<1>3. x.ns = y.ns /\ TagOrNone(x.labels, Zone) = TagOrNone(y.labels, Zone)
  BY <1>1, <1>2 DEF x, y
<1>4. \A ref : ServicesOf(ref, x) = ServicesOf(ref, y)
  BY <1>3 DEF ServicesOf, NamedBy
<1>5. \A ref : ServicesOf(ref, Placed(d)) = ServicesOf(ref, Placed(e))
  BY <1>4 DEF x, y
<1>6. TopRef(d) = TopRef(e)
  BY DEF TopRef
<1> QED
  BY <1>5, <1>6 DEF Gives

\* The threshold and the rest of the settings, in two documents.
LEMMA SplitGives ==
  ASSUME NEW d, IsDoc(d), ProperEntries(d.to), HasPanic(d)
  PROVE  \A dir, p, q, s :
           Gives(d, dir, p, q, s)
             <=> Gives(WithoutPanic(d), dir, p, q, s) \/ Gives(PanicCompanion(d), dir, p, q, s)
<1> DEFINE I  == {i \in DOMAIN d.to : Panic \in d.to[i].conf}
           carrying == Chosen(d.to, I)
           less == [i \in DOMAIN d.to |-> Entry(d.to[i].ref, d.to[i].conf \ {Panic})]
           more == [i \in DOMAIN carrying |-> Entry(carrying[i].ref, {Panic, "detectors"})]
           e  == WithoutPanic(d)
           c  == PanicCompanion(d)
<1>1. e = [d EXCEPT !.to = less]
  BY Zenon DEF WithoutPanic
<1>2. c = [d EXCEPT !.kind = "MeshCircuitBreaker",
                    !.name = d.name \o <<"-panic-threshold">>,
                    !.ns = IF d.layout = "kube" /\ d.ns = None THEN SystemNs ELSE d.ns,
                    !.to = more, !.from = <<>>, !.rules = <<>>, !.default = <<>>]
  BY Zenon DEF PanicCompanion
<1>3. Picks(carrying, d.to, I)
  BY EntriesMeans, ChosenMeans
<1> HIDE DEF carrying
<1>4. /\ DOMAIN less = DOMAIN d.to
      /\ \A i \in DOMAIN d.to : less[i] = Entry(d.to[i].ref, d.to[i].conf \ {Panic})
      /\ DOMAIN more = DOMAIN carrying
      /\ \A k \in DOMAIN carrying : more[k] = Entry(carrying[k].ref, {Panic, "detectors"})
  OBVIOUS
<1> HIDE DEF less, more, e, c
<1>5. /\ IsDoc(e) /\ e.layout = d.layout /\ e.labels = d.labels /\ e.ns = d.ns
      /\ e.targetRef = d.targetRef
      /\ e.to = less /\ e.from = d.from /\ e.rules = d.rules /\ e.default = d.default
  BY <1>1 DEF IsDoc, PolicyFields
<1>6. /\ IsDoc(c) /\ c.layout = d.layout /\ c.labels = d.labels
      /\ c.ns = (IF d.layout = "kube" /\ d.ns = None THEN SystemNs ELSE d.ns)
      /\ c.targetRef = d.targetRef
      /\ c.to = more /\ c.from = <<>> /\ c.rules = <<>> /\ c.default = <<>>
  BY <1>2 DEF IsDoc, PolicyFields
<1>7. TopRef(e) = TopRef(d) /\ TopRef(c) = TopRef(d)
  BY <1>5, <1>6 DEF TopRef
<1>8. \A ref : ServicesOf(ref, Placed(e)) = ServicesOf(ref, Placed(d))
  BY <1>5, SameServices
<1>9. c.ns = Placed(d).ns
  BY <1>6, PlacedFields
<1>10. \A ref : ServicesOf(ref, Placed(c)) = ServicesOf(ref, Placed(d))
  BY <1>6, <1>9, SameServices
<1> DEFINE To(es, q, s) == \E j \in DOMAIN es : /\ q \in ServicesOf(es[j].ref, Placed(d))
                                                /\ s \in Settings(es[j].conf)
<1>11. \A i \in DOMAIN less : less[i].ref = d.to[i].ref /\ less[i].conf = d.to[i].conf \ {Panic}
  <2>1. ASSUME NEW i \in DOMAIN d.to
        PROVE  less[i].ref = d.to[i].ref /\ less[i].conf = d.to[i].conf \ {Panic}
    <3> DEFINE rest == d.to[i].conf \ {Panic}
    <3>1. less[i] = Entry(d.to[i].ref, rest)
      BY <1>4
    <3> HIDE DEF rest
    <3>2. less[i].ref = d.to[i].ref /\ less[i].conf = rest
      BY <3>1, EntryMeans
    <3> QED
      BY <3>2 DEF rest
  <2> QED
    BY <1>4, <2>1
<1>12. \A k \in DOMAIN more : more[k].ref = carrying[k].ref /\ more[k].conf = {Panic, "detectors"}
  BY <1>4, EntryMeans
<1>13. ASSUME NEW q, NEW s PROVE To(d.to, q, s) <=> To(less, q, s) \/ To(more, q, s)
  <2>1. Settings({Panic, "detectors"}) = {Panic} /\ Panic # "detectors"
    BY DEF Settings, Panic
  <2>2. To(less, q, s) => To(d.to, q, s)
    BY <1>4, <1>11 DEF Settings
  <2>3. ASSUME To(more, q, s) PROVE To(d.to, q, s)
    <3>1. PICK k \in DOMAIN more : q \in ServicesOf(more[k].ref, Placed(d)) /\ s \in Settings(more[k].conf)
      BY <2>3
    <3>2. s = Panic /\ k \in DOMAIN carrying /\ q \in ServicesOf(carrying[k].ref, Placed(d))
      BY <1>4, <1>12, <2>1, <3>1
    <3>3. Nth(I, k) \in I /\ carrying[k] = d.to[Nth(I, k)]
      BY <1>3, <3>2 DEF Picks
    <3> QED
      BY <2>1, <3>2, <3>3 DEF Settings
  <2>4. ASSUME To(d.to, q, s) PROVE To(less, q, s) \/ To(more, q, s)
    <3>1. PICK j \in DOMAIN d.to : q \in ServicesOf(d.to[j].ref, Placed(d)) /\ s \in Settings(d.to[j].conf)
      BY <2>4
    <3>2. CASE s # Panic
      BY <1>4, <1>11, <3>1, <3>2 DEF Settings
    <3>3. CASE s = Panic
      <4>1. j \in I
        BY <3>1, <3>3 DEF Settings
      <4>2. PICK k \in DOMAIN carrying : Nth(I, k) = j
        BY <1>3, <4>1 DEF Picks
      <4>3. carrying[k] = d.to[j]
        BY <1>3, <4>2 DEF Picks
      <4> QED
        BY <1>4, <1>12, <2>1, <3>1, <3>3, <4>2, <4>3
    <3> QED
      BY <3>2, <3>3
  <2> QED
    BY <2>2, <2>3, <2>4
<1> DEFINE Rest(p, dir, q, s) ==
             \/ /\ dir = "in"
                /\ \E j \in DOMAIN d.from : /\ q \in ClientsOf(d.from[j].ref)
                                            /\ s \in Settings(d.from[j].conf)
             \/ /\ dir = "in" /\ q \in Proxies
                /\ \E j \in DOMAIN d.rules : s \in Settings(d.rules[j])
             \/ /\ dir = "own" /\ q = NoPeer
                /\ \E j \in DOMAIN d.default : s \in Settings(d.default[j])
           P == ProxiesOf(TopRef(d))
<1>14. \A dir, p, q, s : Gives(d, dir, p, q, s)
         <=> p \in P /\ ((dir = "to" /\ To(d.to, q, s)) \/ Rest(p, dir, q, s))
  BY Zenon DEF Gives
<1>15. \A dir, p, q, s : Gives(e, dir, p, q, s)
         <=> p \in P /\ ((dir = "to" /\ To(less, q, s)) \/ Rest(p, dir, q, s))
  BY <1>5, <1>7, <1>8 DEF Gives
<1>16. \A dir, p, q, s : Gives(c, dir, p, q, s) <=> p \in P /\ dir = "to" /\ To(more, q, s)
  <2>1. DOMAIN c.from = {} /\ DOMAIN c.rules = {} /\ DOMAIN c.default = {}
    BY <1>6, NoDomain
  <2> QED
    BY <1>6, <1>7, <1>10, <2>1 DEF Gives
<1> HIDE DEF To, Rest, P
<1>17. \A dir, p, q, s : Gives(d, dir, p, q, s) <=> Gives(e, dir, p, q, s) \/ Gives(c, dir, p, q, s)
  BY <1>13, <1>14, <1>15, <1>16
<1> QED
  BY <1>17 DEF e, c

LEMMA SamePlain ==
  ASSUME NEW d, NEW t, Plain(d, t), NEW e, IsDoc(e), e.ns \in {None, SystemNs},
         DOMAIN e.labels \subseteq DOMAIN d.labels, e.targetRef = d.targetRef,
         e.kind # "MeshOPA", t = "v3" => e.from = <<>> /\ \A j \in DOMAIN e.to : ~ByName(e.to[j].ref)
  PROVE  Plain(e, t)
<1>1. TopRef(e) = TopRef(d) /\ proxyTypes(e) = proxyTypes(d)
  BY DEF TopRef, proxyTypes
<1> QED
  BY <1>1 DEF Plain

\* The two documents are as plain as the one, and have its kind and name or
\* those of the companion.
LEMMA PlainSplit ==
  ASSUME NEW d, NEW t, Plain(d, t), ProperEntries(d.to), IsSeq(d.name)
  PROVE  /\ Plain(WithoutPanic(d), t)
         /\ WithoutPanic(d).kind = d.kind /\ WithoutPanic(d).name = d.name
         /\ HasPanic(d) =>
              /\ Plain(PanicCompanion(d), t)
              /\ PanicCompanion(d).kind = "MeshCircuitBreaker"
              /\ PanicCompanion(d).name = d.name \o <<"-panic-threshold">>
<1> DEFINE I  == {i \in DOMAIN d.to : Panic \in d.to[i].conf}
           carrying == Chosen(d.to, I)
           less == [i \in DOMAIN d.to |-> Entry(d.to[i].ref, d.to[i].conf \ {Panic})]
           more == [i \in DOMAIN carrying |-> Entry(carrying[i].ref, {Panic, "detectors"})]
           e  == WithoutPanic(d)
           c  == PanicCompanion(d)
<1>0. IsDoc(d)
  BY DEF Plain
<1>1. e = d \/ e = [d EXCEPT !.to = less]
  BY Zenon DEF WithoutPanic
<1>2. c = [d EXCEPT !.kind = "MeshCircuitBreaker",
                    !.name = d.name \o <<"-panic-threshold">>,
                    !.ns = IF d.layout = "kube" /\ d.ns = None THEN SystemNs ELSE d.ns,
                    !.to = more, !.from = <<>>, !.rules = <<>>, !.default = <<>>]
  BY Zenon DEF PanicCompanion
<1>3. Picks(carrying, d.to, I)
  BY EntriesMeans, ChosenMeans
<1> HIDE DEF carrying
<1>4. DOMAIN less = DOMAIN d.to /\ \A i \in DOMAIN d.to : less[i].ref = d.to[i].ref
  BY DEF Entry
<1>5. DOMAIN more = DOMAIN carrying /\ \A k \in DOMAIN carrying : more[k].ref = carrying[k].ref
  BY DEF Entry
<1> HIDE DEF less, more, e, c
<1>6. ASSUME e = [d EXCEPT !.to = less]
      PROVE  Plain(e, t) /\ e.kind = d.kind /\ e.name = d.name
  <2>1. /\ IsDoc(e) /\ e.labels = d.labels /\ e.ns = d.ns /\ e.targetRef = d.targetRef
        /\ e.kind = d.kind /\ e.name = d.name /\ e.to = less /\ e.from = d.from
    BY <1>0, <1>6 DEF IsDoc, PolicyFields
  <2>2. t = "v3" => e.from = <<>> /\ \A j \in DOMAIN e.to : ~ByName(e.to[j].ref)
    BY <1>4, <2>1 DEF Plain
  <2>3. e.ns \in {None, SystemNs} /\ e.kind # "MeshOPA" /\ DOMAIN e.labels \subseteq DOMAIN d.labels
    BY <2>1 DEF Plain
  <2>4. Plain(e, t)
    BY <2>1, <2>2, <2>3, SamePlain
  <2> QED
    BY <2>1, <2>4
<1>7. Plain(e, t) /\ e.kind = d.kind /\ e.name = d.name
  <2>1. ASSUME e = d PROVE Plain(e, t) /\ e.kind = d.kind /\ e.name = d.name
    BY <2>1
  <2> QED
    BY <1>1, <1>6, <2>1, Zenon
<1>8. /\ IsDoc(c) /\ c.labels = d.labels
      /\ c.ns = (IF d.layout = "kube" /\ d.ns = None THEN SystemNs ELSE d.ns)
      /\ c.targetRef = d.targetRef /\ c.kind = "MeshCircuitBreaker" /\ c.to = more /\ c.from = <<>>
      /\ c.name = d.name \o <<"-panic-threshold">>
  BY <1>0, <1>2 DEF IsDoc, PolicyFields
<1>9. TopRef(c) = TopRef(d) /\ proxyTypes(c) = proxyTypes(d)
  BY <1>8 DEF TopRef, proxyTypes
<1>10. ASSUME t = "v3", NEW k \in DOMAIN c.to PROVE ~ByName(c.to[k].ref)
  <2>1. Nth(I, k) \in I /\ carrying[k] = d.to[Nth(I, k)]
    BY <1>3, <1>5, <1>8, <1>10 DEF Picks
  <2> QED
    BY <1>5, <1>8, <1>10, <2>1 DEF Plain
<1>11. Plain(c, t)
  BY <1>8, <1>9, <1>10 DEF Plain
<1> QED
  BY <1>7, <1>8, <1>11 DEF e, c

\* Documents of one kind, each with a name of its own.
OneKind(ds, t) ==
  /\ IsSeq(ds) /\ Distinct(ds)
  /\ \A i, j \in DOMAIN ds : ds[i].kind = ds[j].kind
  /\ \A i \in DOMAIN ds : Plain(ds[i], t) /\ ProperEntries(ds[i].to) /\ IsSeq(ds[i].name)

LEMMA SplitKeeps ==
  ASSUME NEW ds, NEW t, OneKind(ds, t)
  PROVE  LET es == SplitPanic(ds).docs IN
         /\ Distinct(es) /\ \A i \in DOMAIN es : Plain(es[i], t)
         /\ \A dir, p, q, s : Given(es, dir, p, q, s) <=> Given(ds, dir, p, q, s)
<1> DEFINE I == {i \in DOMAIN ds : HasPanic(ds[i])}
           carrying == Chosen(ds, I)
           a == [i \in DOMAIN ds |-> WithoutPanic(ds[i])]
           b == [i \in DOMAIN carrying |-> PanicCompanion(carrying[i])]
           es == a \o b
<1>1. SplitPanic(ds).docs = es
  BY DEF SplitPanic, Result
<1>2. Picks(carrying, ds, I)
  BY ChosenMeans DEF OneKind
<1> HIDE DEF carrying
<1>3. /\ DOMAIN a = DOMAIN ds /\ a = [i \in DOMAIN a |-> a[i]]
      /\ \A i \in DOMAIN ds : a[i] = WithoutPanic(ds[i])
      /\ DOMAIN b = DOMAIN carrying /\ b = [i \in DOMAIN b |-> b[i]]
      /\ \A k \in DOMAIN carrying : b[k] = PanicCompanion(carrying[k])
  OBVIOUS
<1> HIDE DEF a, b
<1>4. IsSeq(a) /\ IsSeq(b)
  <2>1. IsSeq(ds) /\ IsSeq(carrying)
    BY <1>2 DEF OneKind, Picks
  <2> QED
    BY <1>3, <2>1, SeqOfDomain, Zenon
<1>5. /\ \A i \in DOMAIN es : i <= Len(a) => i \in DOMAIN a /\ es[i] = a[i]
      /\ \A i \in DOMAIN es : ~(i <= Len(a)) => i - Len(a) \in DOMAIN b /\ es[i] = b[i - Len(a)]
      /\ \A i \in DOMAIN a : i \in DOMAIN es /\ es[i] = a[i]
      /\ \A k \in DOMAIN b : Len(a) + k \in DOMAIN es /\ es[Len(a) + k] = b[k]
      /\ DOMAIN es = 1..(Len(a) + Len(b))
  <2>2. JoinedAs(es, a, b)
    BY <1>4, ConcatMeans
  <2> HIDE DEF es
  <2> QED
    BY <2>2 DEF JoinedAs
<1>6. Len(a) \in Nat /\ Len(b) \in Nat
  BY <1>4, SeqMeans
<1> HIDE DEF es
<1>7. ASSUME NEW i \in DOMAIN ds
      PROVE  Plain(a[i], t) /\ a[i].kind = ds[i].kind /\ a[i].name = ds[i].name
  BY <1>3, PlainSplit DEF OneKind
<1>8. ASSUME NEW k \in DOMAIN b
      PROVE  /\ Nth(I, k) \in I /\ b[k] = PanicCompanion(ds[Nth(I, k)])
             /\ Plain(b[k], t) /\ b[k].kind = "MeshCircuitBreaker"
             /\ b[k].name = ds[Nth(I, k)].name \o <<"-panic-threshold">>
             /\ ds[Nth(I, k)].kind = "MeshHealthCheck"
  <2>1. Nth(I, k) \in I /\ b[k] = PanicCompanion(ds[Nth(I, k)])
    BY <1>2, <1>3 DEF Picks
  <2> QED
    BY <2>1, PlainSplit DEF OneKind, HasPanic
<1>9. ASSUME NEW i \in DOMAIN es PROVE Plain(es[i], t)
  <2>1. CASE i <= Len(a)
    BY <1>3, <1>5, <1>7, <2>1
  <2>2. CASE ~(i <= Len(a))
    BY <1>5, <1>8, <2>2
  <2> QED
    BY <2>1, <2>2
<1>10. ASSUME NEW i \in DOMAIN ds
       PROVE  \A dir, p, q, s : Gives(ds[i], dir, p, q, s)
                <=> Gives(a[i], dir, p, q, s)
                    \/ (i \in I /\ Gives(PanicCompanion(ds[i]), dir, p, q, s))
  <2>1. CASE HasPanic(ds[i])
    <3>1. IsDoc(ds[i]) /\ ProperEntries(ds[i].to)
      BY DEF OneKind, Plain
    <3> QED
      BY <1>3, <2>1, <3>1, SplitGives
  <2>2. CASE ~HasPanic(ds[i])
    <3>1. a[i] = ds[i]
      BY <1>3, <2>2 DEF WithoutPanic
    <3> QED
      BY <2>2, <3>1
  <2> QED
    BY <2>1, <2>2
<1>11. ASSUME NEW dir, NEW p, NEW q, NEW s
       PROVE  Given(es, dir, p, q, s) <=> Given(ds, dir, p, q, s)
  <2>1. ASSUME Given(ds, dir, p, q, s) PROVE Given(es, dir, p, q, s)
    <3>1. PICK i \in DOMAIN ds : Gives(ds[i], dir, p, q, s)
      BY <2>1 DEF Given
    <3>2. CASE Gives(a[i], dir, p, q, s)
      BY <1>3, <1>5, <3>2 DEF Given
    <3>3. CASE i \in I /\ Gives(PanicCompanion(ds[i]), dir, p, q, s)
      <4>1. PICK k \in DOMAIN carrying : Nth(I, k) = i
        BY <1>2, <3>3 DEF Picks
      <4>2. b[k] = PanicCompanion(ds[i]) /\ k \in DOMAIN b
        BY <1>3, <1>8, <4>1
      <4> QED
        BY <1>5, <3>3, <4>2 DEF Given
    <3> QED
      BY <1>10, <3>1, <3>2, <3>3
  <2>2. ASSUME Given(es, dir, p, q, s) PROVE Given(ds, dir, p, q, s)
    <3>1. PICK i \in DOMAIN es : Gives(es[i], dir, p, q, s)
      BY <2>2 DEF Given
    <3>2. CASE i <= Len(a)
      BY <1>3, <1>5, <1>10, <3>1, <3>2 DEF Given
    <3>3. CASE ~(i <= Len(a))
      <4> DEFINE k == i - Len(a)
      <4>1. k \in DOMAIN b /\ es[i] = b[k]
        BY <1>5, <3>3
      <4> HIDE DEF k
      <4>2. Nth(I, k) \in I /\ b[k] = PanicCompanion(ds[Nth(I, k)])
        BY <1>8, <4>1
      <4> QED
        BY <1>10, <3>1, <4>1, <4>2 DEF Given
    <3> QED
      BY <3>2, <3>3
  <2> QED
    BY <2>1, <2>2
<1>12. Distinct(es)
  <2> SUFFICES ASSUME NEW i \in DOMAIN es, NEW j \in DOMAIN es,
                      es[i].kind = es[j].kind, es[i].name = es[j].name
               PROVE  i = j
    BY DEF Distinct
  <2>0. i \in Nat /\ j \in Nat
    BY <1>5, <1>6
  <2>1. CASE i <= Len(a) /\ j <= Len(a)
    BY <1>3, <1>5, <1>7, <2>1 DEF OneKind, Distinct
  <2>2. CASE ~(i <= Len(a)) /\ ~(j <= Len(a))
    <3> DEFINE k == i - Len(a)
               l == j - Len(a)
               r == <<"-panic-threshold">>
    <3>1. k \in DOMAIN b /\ l \in DOMAIN b /\ es[i] = b[k] /\ es[j] = b[l]
      BY <1>5, <2>2
    <3>2. k = l => i = j
      BY <1>6, <2>0
    <3>3. IsSeq(r)
      BY SeqOfOne
    <3> HIDE DEF k, l
    <3> DEFINE x == Nth(I, k)
               y == Nth(I, l)
    <3>4. x \in I /\ y \in I /\ ds[x].name \o r = ds[y].name \o r
      BY <1>8, <3>1
    <3>5. (x = y => k = l)
      BY <1>2, <1>3, <3>1 DEF Picks
    <3> HIDE DEF r, x, y
    <3>6. ds[x].name = ds[y].name /\ ds[x].kind = ds[y].kind
      BY <3>3, <3>4, SameStart DEF OneKind
    <3>7. x = y
      BY <3>4, <3>6 DEF OneKind, Distinct
    <3> QED
      BY <3>2, <3>5, <3>7
  <2>3. ASSUME NEW x \in DOMAIN es, NEW y \in DOMAIN es, x <= Len(a), ~(y <= Len(a)),
               es[x].kind = es[y].kind
        PROVE  FALSE
    <3> DEFINE l == y - Len(a)
    <3>1. x \in DOMAIN ds /\ es[x].kind = ds[x].kind /\ l \in DOMAIN b /\ es[y] = b[l]
      BY <1>3, <1>5, <1>7, <2>3
    <3> HIDE DEF l
    <3>2. es[y].kind = "MeshCircuitBreaker" /\ Nth(I, l) \in DOMAIN ds
          /\ ds[Nth(I, l)].kind = "MeshHealthCheck"
      BY <1>8, <3>1
    <3> QED
      BY <2>3, <3>1, <3>2 DEF OneKind
  <2> QED
    BY <2>1, <2>2, <2>3
<1> QED
  BY <1>1, <1>9, <1>11, <1>12 DEF es

\* What the results of a legacy policy are after its conversion.
Keeping(ds, ws, doc, t) ==
  /\ Distinct(ds) /\ KeepTraffic(ds, ws, doc)
  /\ \A i \in DOMAIN ds : Plain(ds[i], t) /\ ds[i].mesh = doc.mesh
  /\ t = "v3" => \A i \in DOMAIN ds : ~HasPanic(ds[i])

LEMMA KeepMore ==
  ASSUME NEW ds, NEW ws, NEW doc, KeepTraffic(ds, ws, doc), NEW es, NEW vs, ws \subseteq vs,
         \A dir, p, q, s : Given(es, dir, p, q, s) <=> Given(ds, dir, p, q, s)
  PROVE  KeepTraffic(es, vs, doc)
  BY DEF KeepTraffic

\* The mesh of the documents is no matter to what they give.
LEMMA MeshSet ==
  ASSUME NEW ds, NEW t, \A i \in DOMAIN ds : Plain(ds[i], t), NEW mesh
  PROVE  LET es == InMesh(ds, mesh) IN
         /\ DOMAIN es = DOMAIN ds
         /\ Distinct(ds) => Distinct(es)
         /\ \A i \in DOMAIN es : /\ Plain(es[i], t) /\ es[i].mesh = mesh
                                 /\ ~HasPanic(ds[i]) => ~HasPanic(es[i])
         /\ \A dir, p, q, s : Given(es, dir, p, q, s) <=> Given(ds, dir, p, q, s)
<1> DEFINE es == InMesh(ds, mesh)
<1>1. DOMAIN es = DOMAIN ds /\ \A i \in DOMAIN ds : es[i] = [ds[i] EXCEPT !.mesh = mesh]
  BY DEF InMesh
<1> HIDE DEF es
<1>2. ASSUME NEW i \in DOMAIN ds
      PROVE  /\ Plain(es[i], t) /\ es[i].mesh = mesh /\ es[i].kind = ds[i].kind
             /\ es[i].name = ds[i].name
             /\ ~HasPanic(ds[i]) => ~HasPanic(es[i])
             /\ \A dir, p, q, s : Gives(es[i], dir, p, q, s) <=> Gives(ds[i], dir, p, q, s)
  <2> DEFINE d == ds[i]
             e == es[i]
  <2>1. e = [d EXCEPT !.mesh = mesh] /\ Plain(d, t)
    BY <1>1
  <2> HIDE DEF d, e
  <2>2. IsDoc(d)
    BY <2>1 DEF Plain
  <2>3. IsDoc(e) /\ e.mesh = mesh /\ \A f \in PolicyFields \ {"mesh"} : e[f] = d[f]
    BY <2>1, <2>2 DEF IsDoc, PolicyFields
  <2>4. /\ e.kind = d.kind /\ e.name = d.name /\ e.layout = d.layout /\ e.ns = d.ns
        /\ e.labels = d.labels /\ e.targetRef = d.targetRef /\ e.to = d.to /\ e.from = d.from
        /\ e.rules = d.rules /\ e.default = d.default
    BY <2>3 DEF PolicyFields
  <2>5. t = "v3" => e.from = <<>> /\ \A j \in DOMAIN e.to : ~ByName(e.to[j].ref)
    BY <2>1, <2>4 DEF Plain
  <2>6. e.ns \in {None, SystemNs} /\ e.kind # "MeshOPA"
    BY <2>1, <2>4 DEF Plain
  <2>7. Plain(e, t)
    BY <2>1, <2>3, <2>4, <2>5, <2>6, SamePlain
  <2>8. HasPanic(e) <=> HasPanic(d)
    BY <2>4 DEF HasPanic
  <2>9. \A dir, p, q, s : Gives(e, dir, p, q, s) <=> Gives(d, dir, p, q, s)
    BY <2>2, <2>3, <2>4, SameGives
  <2> QED
    BY <2>3, <2>4, <2>7, <2>8, <2>9 DEF d, e
<1>3. \A dir, p, q, s : Given(es, dir, p, q, s) <=> Given(ds, dir, p, q, s)
  BY <1>1, <1>2 DEF Given
<1>4. Distinct(ds) => Distinct(es)
  BY <1>1, <1>2 DEF Distinct
<1> QED
  BY <1>1, <1>2, <1>3, <1>4 DEF es

LEMMA ShapedKeeps ==
  ASSUME NEW doc, ClearInput(doc), NEW ds, NEW ws, NEW t, Shaped(ds, ws, doc, t),
         AllNew(ds, doc, t), NEW r, r = OfMesh(SplitForTarget(ds, t), doc.mesh, ws)
  PROVE  Keeping(r.docs, r.warns, doc, t)
<1> DEFINE split == SplitForTarget(ds, t)
           es    == split.docs
<1>1. OneKind(ds, t)
  <2>1. Distinct(ds)
    BY ShapedDistinct DEF ClearInput, LegacyInput, ProperName
  <2>2. \A i \in DOMAIN ds : ProperEntries(ds[i].to) /\ IsSeq(ds[i].name)
    BY ProperPolicyMeans DEF AllNew, NewDoc, IsNew, ProperName
  <2> QED
    BY <2>1, <2>2 DEF OneKind, Shaped
<1>2. /\ Distinct(es) /\ \A i \in DOMAIN es : Plain(es[i], t)
      /\ \A dir, p, q, s : Given(es, dir, p, q, s) <=> Given(ds, dir, p, q, s)
      /\ t = "v3" => \A i \in DOMAIN es : ~HasPanic(es[i])
  <2>1. CASE t = "v3"
    <3>1. es = SplitPanic(ds).docs
      BY <2>1, Zenon DEF SplitForTarget
    <3> HIDE DEF es
    <3>2. \A i \in DOMAIN SplitPanic(ds).docs : ~HasPanic(SplitPanic(ds).docs[i])
      BY SplitPanicMeans
    <3> QED
      BY <1>1, <3>1, <3>2, SplitKeeps
  <2>2. CASE t # "v3"
    <3>1. split = Result(ds, {})
      BY <2>2, Zenon DEF SplitForTarget
    <3> HIDE DEF split
    <3>2. split.docs = ds
      BY <3>1, DocsOfResult, Zenon
    <3> QED
      BY <1>1, <2>2, <3>2 DEF OneKind
  <2> QED
    BY <2>1, <2>2
<1>3. r = Result(InMesh(es, doc.mesh), split.warns \union ws)
  BY Zenon DEF OfMesh
<1> HIDE DEF split, es
<1> DEFINE ms == InMesh(es, doc.mesh)
<1>4. /\ DOMAIN ms = DOMAIN es /\ Distinct(ms)
      /\ \A i \in DOMAIN ms : /\ Plain(ms[i], t) /\ ms[i].mesh = doc.mesh
                              /\ ~HasPanic(es[i]) => ~HasPanic(ms[i])
      /\ \A dir, p, q, s : Given(ms, dir, p, q, s) <=> Given(es, dir, p, q, s)
  BY <1>2, MeshSet
<1>5. r.docs = ms /\ r.warns = split.warns \union ws
  BY <1>3, DocsOfResult, WarnsOfResult, Zenon
<1> HIDE DEF ms
<1>6. KeepTraffic(ds, ws, doc)
  BY DEF Shaped
<1>7. KeepTraffic(ms, split.warns \union ws, doc)
  <2>1. ws \subseteq split.warns \union ws
    OBVIOUS
  <2>2. \A dir, p, q, s : Given(ms, dir, p, q, s) <=> Given(ds, dir, p, q, s)
    BY <1>2, <1>4, Zenon
  <2> QED
    BY <1>6, <2>1, <2>2, KeepMore
<1> QED
  BY <1>2, <1>4, <1>5, <1>7 DEF Keeping

LEMMA LegacyKeeps ==
  ASSUME NEW doc, ClearInput(doc), NEW t \in {"v2", "v3"}, NEW l \in IdentityTags,
         ~transformScenarioLegacy(doc, t, l).err
  PROVE  LET r == transformScenarioLegacy(doc, t, l) IN Keeping(r.docs, r.warns, doc, t)
<1> DEFINE shaped == CASE doc.kind \in legacyShapes.selector -> transformSelectorLegacy(doc, t, l)
                       [] doc.kind \in legacyShapes.inbound -> transformInboundLegacy(doc, t, l)
                       [] OTHER -> transformGenericLegacy(doc, t, l)
           r      == transformScenarioLegacy(doc, t, l)
<1>0. doc.kind \in DOMAIN OldTypeToNew /\ LegacyInput(doc)
  BY DEF ClearInput, LegacyInput
<1>1. r = OfScenario(shaped, doc.mesh, t)
  BY <1>0, Zenon DEF transformScenarioLegacy
<1>2. legacyShapes.selector \intersect legacyShapes.inbound = {}
  BY DEF legacyShapes
<1>3. \/ doc.kind \in legacyShapes.selector /\ shaped = transformSelectorLegacy(doc, t, l)
      \/ doc.kind \in legacyShapes.inbound /\ shaped = transformInboundLegacy(doc, t, l)
      \/ /\ doc.kind \notin legacyShapes.selector \union legacyShapes.inbound
         /\ shaped = transformGenericLegacy(doc, t, l)
  BY <1>2
<1> HIDE DEF shaped
<1>4. ~shaped.err /\ r = OfMesh(SplitForTarget(shaped.docs, t), doc.mesh, shaped.warns)
  <2>1. ~r.err
    OBVIOUS
  <2> HIDE DEF r
  <2>2. ~shaped.err
    BY <1>1, <2>1, ResultMeans DEF OfScenario
  <2> QED
    BY <1>1, <2>2, Zenon DEF OfScenario
<1> HIDE DEF r
<1>5. Shaped(shaped.docs, shaped.warns, doc, t)
  BY <1>3, <1>4, SelectorShaped, InboundShaped, OutboundShaped, Zenon
<1>6. AllNew(shaped.docs, doc, t)
  BY <1>0, <1>3, SelectorsNew, InboundNew, OutboundNew, Zenon
<1>7. Keeping(r.docs, r.warns, doc, t)
  BY <1>4, <1>5, <1>6, ShapedKeeps
<1> QED
  BY <1>7 DEF r

-----------------------------------------------------------------------------
(***************************************************************************)
(* The results of a legacy policy, through the rest of the pipeline.       *)
(***************************************************************************)

\* A document but for its namespace, which it may be given, and for labels, which
\* it may lose.
Alike(e, d) ==
  /\ IsDoc(e) /\ e.ns \in {d.ns, Placed(d).ns} /\ DOMAIN e.labels \subseteq DOMAIN d.labels
  /\ \A f \in PolicyFields \ {"ns", "labels"} : e[f] = d[f]

LEMMA AlikeMeans ==
  ASSUME NEW d, NEW t, Plain(d, t), NEW e, Alike(e, d)
  PROVE  /\ Plain(e, t) /\ e.kind = d.kind /\ e.name = d.name /\ e.mesh = d.mesh
         /\ e.layout = d.layout
         /\ HasPanic(e) => HasPanic(d)
         /\ \A dir, p, q, s : Gives(e, dir, p, q, s) <=> Gives(d, dir, p, q, s)
<1>1. /\ e.kind = d.kind /\ e.layout = d.layout /\ e.name = d.name /\ e.mesh = d.mesh
      /\ e.targetRef = d.targetRef /\ e.to = d.to /\ e.from = d.from
      /\ e.rules = d.rules /\ e.default = d.default
      /\ IsDoc(e) /\ e.ns \in {d.ns, Placed(d).ns} /\ DOMAIN e.labels \subseteq DOMAIN d.labels
  BY DEF Alike, PolicyFields
<1>2. IsDoc(d) /\ d.ns \in {None, SystemNs} /\ Zone \notin DOMAIN d.labels /\ d.kind # "MeshOPA"
      /\ (t = "v3" => d.from = <<>> /\ \A j \in DOMAIN d.to : ~ByName(d.to[j].ref))
  BY DEF Plain
<1>3. e.ns \in {None, SystemNs}
  BY <1>1, <1>2, PlacedFields
<1>4. TagOrNone(d.labels, Zone) = TagOrNone(e.labels, Zone)
  BY <1>1, <1>2 DEF TagOrNone
<1>5. t = "v3" => e.from = <<>> /\ \A j \in DOMAIN e.to : ~ByName(e.to[j].ref)
  BY <1>1, <1>2
<1>6. Plain(e, t)
  BY <1>1, <1>2, <1>3, <1>5, SamePlain
<1>7. \A dir, p, q, s : Gives(e, dir, p, q, s) <=> Gives(d, dir, p, q, s)
  BY <1>1, <1>2, <1>4, SameGives
<1>8. HasPanic(e) => HasPanic(d)
  BY <1>1 DEF HasPanic
<1> QED
  BY <1>1, <1>6, <1>7, <1>8

LEMMA AlikeItself ==
  ASSUME NEW d, IsDoc(d)
  PROVE  Alike(d, d)
  BY DEF Alike

LEMMA AlikeKeeps ==
  ASSUME NEW ds, NEW ws, NEW doc, NEW t, Keeping(ds, ws, doc, t),
         NEW es, DOMAIN es = DOMAIN ds, \A i \in DOMAIN ds : Alike(es[i], ds[i]),
         NEW vs, ws \subseteq vs
  PROVE  Keeping(es, vs, doc, t)
<1>1. ASSUME NEW i \in DOMAIN ds
      PROVE  /\ Plain(es[i], t) /\ es[i].kind = ds[i].kind /\ es[i].name = ds[i].name
             /\ es[i].mesh = doc.mesh /\ (HasPanic(es[i]) => HasPanic(ds[i]))
             /\ \A dir, p, q, s : Gives(es[i], dir, p, q, s) <=> Gives(ds[i], dir, p, q, s)
  <2>1. Plain(ds[i], t) /\ Alike(es[i], ds[i]) /\ ds[i].mesh = doc.mesh
    BY DEF Keeping
  <2> QED
    BY <2>1, AlikeMeans
<1>2. \A dir, p, q, s : Given(es, dir, p, q, s) <=> Given(ds, dir, p, q, s)
  BY <1>1 DEF Given
<1>3. KeepTraffic(es, vs, doc)
  BY <1>2, KeepMore DEF Keeping
<1>4. Distinct(es)
  BY <1>1 DEF Keeping, Distinct
<1>5. t = "v3" => \A i \in DOMAIN es : ~HasPanic(es[i])
  BY <1>1 DEF Keeping
<1>6. \A i \in DOMAIN es : Plain(es[i], t) /\ es[i].mesh = doc.mesh
  BY <1>1
<1> QED
  BY <1>3, <1>4, <1>5, <1>6 DEF Keeping

\* A document of Kubernetes has a namespace.
Homed(d) == ~(d.layout = "kube" /\ d.ns = None)

LEMMA PlacedAlike ==
  ASSUME NEW d, IsDoc(d)
  PROVE  Alike(Placed(d), d) /\ Homed(Placed(d))
<1>1. /\ IsDoc(Placed(d)) /\ Homed(Placed(d))
      /\ \A f \in PolicyFields \ {"ns"} : Placed(d)[f] = d[f]
  BY PlacedFields DEF Homed
<1>2. Placed(d).labels = d.labels
  BY <1>1 DEF PolicyFields
<1> QED
  BY <1>1, <1>2 DEF Alike

LEMMA SplitNothing ==
  ASSUME NEW ds, IsSeq(ds), \A i \in DOMAIN ds : ~HasPanic(ds[i])
  PROVE  SplitPanic(ds).docs = ds
<1> DEFINE I == {i \in DOMAIN ds : HasPanic(ds[i])}
           carrying == Chosen(ds, I)
           a == [i \in DOMAIN ds |-> WithoutPanic(ds[i])]
           b == [i \in DOMAIN carrying |-> PanicCompanion(carrying[i])]
<1>1. SplitPanic(ds).docs = a \o b
  BY DEF SplitPanic, Result
<1>2. I = {}
  OBVIOUS
<1> HIDE DEF I
<1>3. carrying = <<>>
  BY <1>2, NothingChosen
<1> HIDE DEF carrying
<1>4. b = <<>>
  BY <1>3, NoneOfNone, NoDomain
<1>5. a = ds
  <2>1. ds = [i \in DOMAIN ds |-> ds[i]]
    BY SeqMeans
  <2>2. \A i \in DOMAIN ds : WithoutPanic(ds[i]) = ds[i]
    BY DEF WithoutPanic
  <2>3. DOMAIN a = DOMAIN ds /\ a = [i \in DOMAIN a |-> a[i]]
        /\ \A i \in DOMAIN ds : a[i] = ds[i]
    BY <2>2
  <2> HIDE DEF a
  <2> QED
    BY <2>1, <2>3, SameFunction
<1> HIDE DEF a, b
<1>6. a \o b = a
  BY <1>4, <1>5, ConcatSeq, SeqOfNone
<1> QED
  BY <1>1, <1>5, <1>6 DEF a, b

\* On 3.0, a reference without a name stays.
LEMMA RealOfPlain ==
  ASSUME NEW d, Plain(d, "v3"), ProperTop(d.targetRef), ProperEntries(d.to)
  PROVE  fixRealResourceTargetRefs(d).docs[1] = d
<1> DEFINE fixed(ref) == fixRefToLabels(ref, d.ns, PolicyZone(d))
           refs == [i \in DOMAIN d.targetRef |-> fixed(d.targetRef[i]).ref]
           es   == [i \in DOMAIN d.to |-> Entry(fixed(d.to[i].ref).ref, d.to[i].conf)]
           b    == [d EXCEPT !.targetRef = refs, !.to = es]
           r    == fixRealResourceTargetRefs(d)
<1>0. IsDoc(d) /\ d.ns \in {None, SystemNs} /\ ~ByName(TopRef(d))
      /\ \A j \in DOMAIN d.to : ~ByName(d.to[j].ref)
  BY DEF Plain
<1>1. r.docs = pinProducerZone(b).docs
  <2>1. b = [d EXCEPT !.targetRef = [i \in DOMAIN @ |-> fixed(@[i]).ref],
                      !.to = [i \in DOMAIN @ |-> Entry(fixed(@[i].ref).ref, @[i].conf)]]
    BY Zenon
  <2> HIDE DEF b
  <2>2. \E ws : r = Result(pinProducerZone(b).docs, ws)
    BY <2>1, Zenon DEF fixRealResourceTargetRefs
  <2> QED
    BY <2>2, DocsOfResult, Zenon
<1>2. ASSUME NEW ref, ~ByName(ref)
      PROVE  fixed(ref).ref = ref
  <2>1. fixed(ref) = Converted(ref, {})
    BY <1>2, Zenon DEF fixRefToLabels
  <2> QED
    BY <2>1, RefOfConverted, Zenon
<1> HIDE DEF fixed
<1>3. refs = d.targetRef
  <2>1. \A i \in DOMAIN d.targetRef : fixed(d.targetRef[i]).ref = d.targetRef[i]
    BY <1>0, <1>2, TopMember
  <2>2. /\ DOMAIN refs = DOMAIN d.targetRef /\ refs = [i \in DOMAIN refs |-> refs[i]]
        /\ \A i \in DOMAIN d.targetRef : refs[i] = d.targetRef[i]
    BY <2>1
  <2> HIDE DEF refs
  <2> QED
    BY <2>2, TopSame
<1>4. es = d.to
  <2>1. \A i \in DOMAIN d.to : fixed(d.to[i].ref).ref = d.to[i].ref
    BY <1>0, <1>2
  <2>2. /\ DOMAIN es = DOMAIN d.to /\ es = [i \in DOMAIN es |-> es[i]]
        /\ \A i \in DOMAIN d.to : es[i] = Entry(d.to[i].ref, d.to[i].conf)
    BY <2>1
  <2> HIDE DEF es
  <2> QED
    BY <2>2, ToSame
<1> HIDE DEF refs, es
<1>5. b = d
  BY <1>0, <1>3, <1>4, DocSame
<1> HIDE DEF b, r
<1>6. pinProducerZone(d) = Result(<<d>>, {})
  BY <1>0, Zenon DEF pinProducerZone, isProducerPolicy
<1>7. r.docs[1] = d
  <2>1. pinProducerZone(d).docs[1] = d
    BY <1>6, OneOfResult, Zenon
  <2> QED
    BY <1>1, <1>5, <2>1, Zenon
<1> QED
  BY <1>7 DEF r

LEMMA StripAlike ==
  ASSUME NEW d, IsDoc(d)
  PROVE  Alike(stripControlPlaneLabels(d), d) /\ stripControlPlaneLabels(d).ns = d.ns
<1> DEFINE labels == Only(d.labels, DOMAIN d.labels \ controlPlaneOwnedLabels)
           e == stripControlPlaneLabels(d)
<1>1. e = [d EXCEPT !.labels = labels]
  BY DEF stripControlPlaneLabels, IsDoc, PolicyFields
<1>2. DOMAIN labels \subseteq DOMAIN d.labels
  BY DEF Only
<1> HIDE DEF labels, e
<1>3. IsDoc(e) /\ e.labels = labels /\ \A f \in PolicyFields \ {"labels"} : e[f] = d[f]
  BY <1>1 DEF IsDoc, PolicyFields
<1>4. e.ns = d.ns /\ \A f \in PolicyFields \ {"ns", "labels"} : e[f] = d[f]
  BY <1>3 DEF PolicyFields
<1> QED
  BY <1>2, <1>3, <1>4 DEF Alike, e

\* The scan takes nothing but labels from a plain document.
LEMMA ScanAlike ==
  ASSUME NEW t \in {"v2", "v3"}, NEW d, Plain(d, t), NEW in, NewDoc(d, in, t)
  PROVE  LET e == Scan(d, t).docs[1] IN Alike(e, d) /\ e.ns = d.ns
<1>0. IsDoc(d) /\ d.kind # "MeshOPA" /\ proxyTypes(d) = {}
  BY DEF Plain
<1>1. CASE t = "v2"
  <2>1. Scan(d, t).docs[1] = d
    BY <1>1, ScanStays
  <2> QED
    BY <1>0, <2>1, AlikeItself
<1>2. CASE t = "v3"
  <2> DEFINE k == fixOfKind(d).docs[1]
             a == fixProxyTypes(k).docs[1]
             b == fixTargetRefs(a).docs[1]
             e == stripControlPlaneLabels(b)
  <2>0. Plain(d, "v3") /\ d.from = <<>> /\ NewDoc(d, in, "v3")
    BY <1>2 DEF Plain
  <2>1. IsMeshPolicy(d) /\ ProperTop(d.targetRef) /\ ProperEntries(d.to)
    BY KindsMean, ProperPolicyMeans DEF NewDoc, IsNew
  <2>2. \E ws : Scan(d, "v3") = Result(<<e>>, ws)
    BY <2>1, Zenon DEF Scan
  <2>3. k = d
    <3>1. fixMeshFaultInjectionFrom(d) = d
      BY <2>0 DEF fixMeshFaultInjectionFrom
    <3>2. fixOfKind(d) = Result(<<d>>, {})
      BY <1>0, <3>1 DEF fixOfKind
    <3> QED
      BY <3>2, OneOfResult, Zenon
  <2> HIDE DEF k
  <2>4. a = d
    <3>1. fixProxyTypes(d) = Result(<<d>>, {})
      BY <1>0 DEF fixProxyTypes
    <3> QED
      BY <2>3, <3>1, OneOfResult, Zenon
  <2> HIDE DEF a
  <2>5. b = d
    <3>1. fixRealResourceTargetRefs(d).docs[1] = d
      BY <2>0, <2>1, RealOfPlain
    <3> QED
      BY <1>0, <2>4, <3>1 DEF fixTargetRefs
  <2> HIDE DEF b
  <2>6. Alike(e, d) /\ e.ns = d.ns
    BY <1>0, <2>5, StripAlike
  <2> HIDE DEF e
  <2>7. Scan(d, "v3").docs[1] = e
    BY <2>2, OneOfResult, Zenon
  <2> QED
    BY <1>2, <2>6, <2>7
<1> QED
  BY <1>1, <1>2

\* A legacy policy that is read is of a legacy kind, and its selectors are clear.
LEMMA LegacyRead ==
  ASSUME NEW doc \in Inputs, ClearLegacy(doc)
  PROVE  /\ doc.kind \in DOMAIN OldTypeToNew \union ManualKinds
         /\ DetectScenario(doc) = "legacy"
         /\ doc.kind \in DOMAIN OldTypeToNew => ClearInput(doc)
<1>1. ProperInput(doc, "v2") /\ ClearPolicy(doc) /\ IsLegacy(doc)
  BY ReadInput DEF ClearLegacy
<1>2. doc.kind \in DOMAIN OldTypeToNew \union ManualKinds
  BY <1>1, ProperPolicyMeans DEF ProperInput, IsLegacy
<1>3. doc.kind # "OPAPolicy"
  BY <1>2 DEF OldTypeToNew, ManualKinds
<1>4. DetectScenario(doc) = "legacy"
  BY <1>1, <1>3, ScenarioMeans
<1>5. doc.kind \in DOMAIN OldTypeToNew => ClearInput(doc)
  BY <1>1, ReadKinds DEF ClearInput
<1> QED
  BY <1>2, <1>4, <1>5

\* The results of a legacy policy, from its conversion on, and from the placing on.
LegacyKept ==
  ClearLegacy(input) =>
    /\ input \in Inputs
    /\ pc # "convert" /\ outcome # "error" =>
         /\ input.kind \in DOMAIN OldTypeToNew /\ Keeping(docs, warns, input, target)
         /\ pc # "place" => \A i \in DOMAIN docs : Homed(docs[i])

TrafficKept == Staged /\ LegacyKept

LEMMA InitTraffic == Init => TrafficKept
  BY InitStaged DEF Init, TrafficKept, LegacyKept

LEMMA ConvertTraffic ==
  ASSUME TrafficKept, Convert
  PROVE  TrafficKept'
<1>1. Staged'
  BY ConvertStaged DEF TrafficKept
<1>2. UNCHANGED <<input, target, last>>
  BY DEF Convert
<1>3. target \in {"v2", "v3"} /\ last \in IdentityTags
  BY PoliciesAssumption DEF TrafficKept, Staged, TypeOK
<1>4. ASSUME ClearLegacy(input), outcome' # "error"
      PROVE  /\ pc' = "place" /\ input.kind \in DOMAIN OldTypeToNew
             /\ Keeping(docs', warns', input, target)
  <2> DEFINE r == transformScenarioLegacy(input, target, last)
  <2>1. input \in Inputs
    BY <1>4 DEF TrafficKept, LegacyKept
  <2>2. DetectScenario(input) = "legacy"
    BY <1>4, <2>1, LegacyRead
  <2>3. Conversion(input) = r
    BY <2>2, Zenon DEF Conversion
  <2>4. /\ ~r.err /\ docs' = r.docs /\ warns' = r.warns /\ pc' = "place"
    BY <1>4, <2>3 DEF Convert
  <2>5. input.kind \in DOMAIN OldTypeToNew
    <3>1. input.kind \notin DOMAIN OldTypeToNew => r = Failed
      BY Zenon DEF transformScenarioLegacy
    <3> QED
      BY <2>4, <3>1, ResultMeans
  <2>6. ClearInput(input)
    BY <1>4, <2>1, <2>5, LegacyRead
  <2>7. Keeping(r.docs, r.warns, input, target)
    BY <1>3, <2>4, <2>6, LegacyKeeps
  <2> QED
    BY <2>4, <2>5, <2>7, Zenon
<1>5. LegacyKept'
  BY <1>2, <1>4 DEF TrafficKept, LegacyKept
<1> QED
  BY <1>1, <1>5 DEF TrafficKept

LEMMA PlaceTraffic ==
  ASSUME TrafficKept, Place
  PROVE  TrafficKept'
<1>1. Staged'
  BY PlaceStaged DEF TrafficKept
<1>2. pc = "place" /\ UNCHANGED <<input, target, warns, outcome>>
  BY DEF Place
<1>3. outcome # "error"
  BY <1>2 DEF TrafficKept, Staged, TypeOK
<1>4. ASSUME ClearLegacy(input)
      PROVE  /\ Keeping(docs', warns', input, target)
             /\ \A i \in DOMAIN docs' : Homed(docs'[i])
  <2>1. input \in Inputs /\ Keeping(docs, warns, input, target)
    BY <1>2, <1>3, <1>4 DEF TrafficKept, LegacyKept
  <2>2. docs' = [i \in DOMAIN docs |-> Placed(docs[i])]
    BY <1>4, <2>1, LegacyRead DEF Place, namespacedConversionScenarios
  <2>3. DOMAIN docs' = DOMAIN docs /\ \A i \in DOMAIN docs : docs'[i] = Placed(docs[i])
    BY <2>2
  <2>4. \A i \in DOMAIN docs : Alike(docs'[i], docs[i]) /\ Homed(docs'[i])
    BY <2>1, <2>3, PlacedAlike DEF Keeping, Plain
  <2>5. Keeping(docs', warns', input, target)
    BY <1>2, <2>1, <2>3, <2>4, AlikeKeeps
  <2> QED
    BY <2>3, <2>4, <2>5
<1>5. LegacyKept'
  BY <1>2, <1>4 DEF TrafficKept, LegacyKept
<1> QED
  BY <1>1, <1>5 DEF TrafficKept

LEMMA SplitTraffic ==
  ASSUME TrafficKept, SplitPanicThreshold
  PROVE  TrafficKept'
<1>1. Staged'
  BY SplitStaged DEF TrafficKept
<1>2. /\ pc = "panic" /\ UNCHANGED <<input, target, outcome>> /\ warns \subseteq warns'
      /\ docs' = IF target = "v3" THEN SplitPanic(docs).docs ELSE Result(docs, {}).docs
  BY DEF SplitPanicThreshold
<1>3. outcome # "error" /\ IsSeq(docs)
  BY <1>2 DEF TrafficKept, Staged, TypeOK, FromInput, AllNew
<1>4. ASSUME ClearLegacy(input)
      PROVE  /\ Keeping(docs', warns', input, target)
             /\ \A i \in DOMAIN docs' : Homed(docs'[i])
  <2>1. Keeping(docs, warns, input, target) /\ \A i \in DOMAIN docs : Homed(docs[i])
    BY <1>2, <1>3, <1>4 DEF TrafficKept, LegacyKept
  <2>2. docs' = docs
    <3>1. target = "v3" => SplitPanic(docs).docs = docs
      BY <1>3, <2>1, SplitNothing DEF Keeping
    <3> QED
      BY <1>2, <3>1, ResultMeans
  <2>3. \A i \in DOMAIN docs : Alike(docs'[i], docs[i])
    BY <2>1, <2>2, AlikeItself DEF Keeping, Plain
  <2> QED
    BY <1>2, <2>1, <2>2, <2>3, AlikeKeeps
<1>5. LegacyKept'
  BY <1>2, <1>4 DEF TrafficKept, LegacyKept
<1> QED
  BY <1>1, <1>5 DEF TrafficKept

LEMMA ScanTraffic ==
  ASSUME TrafficKept, ScanNext
  PROVE  TrafficKept'
<1> DEFINE e == Scan(docs[at], target).docs[1]
<1>1. Staged'
  BY ScanStaged DEF TrafficKept
<1>2. /\ pc = "scan" /\ UNCHANGED <<input, target, outcome, pc>> /\ warns \subseteq warns'
      /\ docs' = [docs EXCEPT ![at] = e] /\ at <= Len(docs)
  BY DEF ScanNext
<1>3. AllNew(docs, input, target) /\ Len(docs) \in Nat /\ DOMAIN docs = 1..Len(docs)
  BY LengthOfDocs DEF TrafficKept, Staged, FromInput
<1>4. at \in DOMAIN docs /\ outcome # "error" /\ target \in {"v2", "v3"}
  BY <1>2, <1>3, PoliciesAssumption DEF TrafficKept, Staged, TypeOK
<1>5. ASSUME ClearLegacy(input)
      PROVE  /\ Keeping(docs', warns', input, target)
             /\ \A i \in DOMAIN docs' : Homed(docs'[i])
  <2>1. Keeping(docs, warns, input, target) /\ \A i \in DOMAIN docs : Homed(docs[i])
    BY <1>2, <1>4, <1>5 DEF TrafficKept, LegacyKept
  <2>2. Plain(docs[at], target) /\ NewDoc(docs[at], input, target)
    BY <1>3, <1>4, <2>1 DEF Keeping, AllNew
  <2>3. Alike(e, docs[at]) /\ e.ns = docs[at].ns
    BY <1>4, <2>2, ScanAlike
  <2> HIDE DEF e
  <2>4. e.layout = docs[at].layout
    BY <2>2, <2>3, AlikeMeans
  <2>5. Homed(e)
    BY <1>4, <2>1, <2>3, <2>4 DEF Homed
  <2>6. /\ DOMAIN docs' = DOMAIN docs
        /\ \A i \in DOMAIN docs : docs'[i] = IF i = at THEN e ELSE docs[i]
    BY <1>2, <1>4
  <2>7. \A i \in DOMAIN docs : Alike(docs'[i], docs[i]) /\ Homed(docs'[i])
    <3> SUFFICES ASSUME NEW i \in DOMAIN docs
                 PROVE  Alike(docs'[i], docs[i]) /\ Homed(docs'[i])
      OBVIOUS
    <3>1. CASE i = at
      BY <2>3, <2>5, <2>6, <3>1
    <3>2. CASE i # at
      BY <2>1, <2>6, <3>2, AlikeItself DEF Keeping, Plain
    <3> QED
      BY <3>1, <3>2
  <2>8. Keeping(docs', warns', input, target)
    BY <1>2, <2>1, <2>6, <2>7, AlikeKeeps
  <2> QED
    BY <2>6, <2>7, <2>8
<1> HIDE DEF e
<1>6. LegacyKept'
  BY <1>2, <1>5 DEF TrafficKept, LegacyKept
<1> QED
  BY <1>1, <1>6 DEF TrafficKept

LEMMA JudgeTraffic ==
  ASSUME TrafficKept, Judge
  PROVE  TrafficKept'
<1>1. Staged'
  BY JudgeStaged DEF TrafficKept
<1>2. /\ pc = "scan" /\ UNCHANGED <<input, target, docs, warns>>
      /\ outcome = "none"
  BY DEF Judge, TrafficKept, Staged, TypeOK
<1>3. LegacyKept'
  BY <1>2 DEF TrafficKept, LegacyKept
<1> QED
  BY <1>1, <1>3 DEF TrafficKept

\* A result is no legacy policy.
LEMMA AgainTraffic ==
  ASSUME TrafficKept, Again
  PROVE  TrafficKept'
<1>1. Staged'
  BY AgainStaged DEF TrafficKept
<1>2. PICK i \in DOMAIN docs : input' = docs[i]
  BY DEF Again
<1>3. IsNew(docs[i])
  BY DEF TrafficKept, Staged, FromInput, AllNew, NewDoc
<1>4. ~IsLegacy(docs[i])
  BY <1>3, ProperPolicyMeans, NotLegacyKind DEF IsNew, IsLegacy
<1>5. LegacyKept'
  BY <1>2, <1>4 DEF LegacyKept, ClearLegacy
<1> QED
  BY <1>1, <1>5 DEF TrafficKept

LEMMA StutterTraffic ==
  ASSUME TrafficKept, UNCHANGED vars
  PROVE  TrafficKept'
<1>1. Staged'
  BY StutterStaged DEF TrafficKept
<1> QED
  BY <1>1 DEF TrafficKept, LegacyKept, vars

LEMMA NextTraffic ==
  ASSUME TrafficKept, [Next]_vars
  PROVE  TrafficKept'
BY ConvertTraffic, PlaceTraffic, SplitTraffic, ScanTraffic, JudgeTraffic, AgainTraffic,
   StutterTraffic
   DEF Next, Finished

-----------------------------------------------------------------------------
(***************************************************************************)
(* What the results configure at the end, row by row.                      *)
(***************************************************************************)

LEMMA RowsMean ==
  ASSUME NEW mesh, NEW dir, NEW P, NEW Q, NEW conf, NEW r
  PROVE  r \in Rows(mesh, dir, P, Q, conf) <=>
           \E p \in P, q \in Q, s \in Settings(conf) : r = <<mesh, dir, p, q, s>>
  BY DEF Rows

LEMMA PlainCoverage ==
  ASSUME NEW d, NEW t, Plain(d, t), Homed(d), NEW r
  PROVE  r \in PolicyCoverage(d, t) <=>
           \E dir, p, q, s : r = <<d.mesh, dir, p, q, s>> /\ Gives(d, dir, p, q, s)
<1> DEFINE P == ProxiesOf(TopRef(d)) \intersect InScope(d, t)
<1>1. Placed(d) = d
  BY PlacedFields DEF Plain, Homed
<1>2. P = ProxiesOf(TopRef(d))
  <2>1. InScope(d, t) = Proxies
    BY Universe DEF InScope, Plain, Homed
  <2>2. ProxiesOf(TopRef(d)) \subseteq Proxies
    BY Universe DEF ProxiesOf
  <2> QED
    BY <2>1, <2>2
<1> DEFINE InTo   == \E e \in Range(d.to) : r \in Rows(d.mesh, "to", P, ServicesOf(e.ref, d), e.conf)
           InFrom == \E e \in Range(d.from) : r \in Rows(d.mesh, "in", P, ClientsOf(e.ref), e.conf)
           InRule == \E conf \in Range(d.rules) : r \in Rows(d.mesh, "in", P, TheProxies, conf)
           InOwn  == \E conf \in Range(d.default) : r \in Rows(d.mesh, "own", P, {NoPeer}, conf)
<1>10. r \in PolicyCoverage(d, t) <=> InTo \/ InFrom \/ InRule \/ InOwn
  BY DEF PolicyCoverage
<1> DEFINE S == ProxiesOf(TopRef(d))
<1> HIDE DEF P, S
<1>4. P = S
  BY <1>2 DEF S
<1> DEFINE Row(dir, p, q, s) == r = <<d.mesh, dir, p, q, s>>
           To    == \E p \in S : \E q, s : Row("to", p, q, s) /\ \E j \in DOMAIN d.to :
                      q \in ServicesOf(d.to[j].ref, d) /\ s \in Settings(d.to[j].conf)
           From  == \E p \in S : \E q, s : Row("in", p, q, s) /\ \E j \in DOMAIN d.from :
                      q \in ClientsOf(d.from[j].ref) /\ s \in Settings(d.from[j].conf)
           Rules == \E p \in S : \E q, s : Row("in", p, q, s) /\ q \in Proxies /\ \E j \in DOMAIN d.rules :
                      s \in Settings(d.rules[j])
           Own   == \E p \in S : \E q, s : Row("own", p, q, s) /\ q = NoPeer /\ \E j \in DOMAIN d.default :
                      s \in Settings(d.default[j])
<1>5. InTo <=> To
  BY <1>4, RowsMean DEF Range
<1>6. InFrom <=> From
  BY <1>4, RowsMean DEF Range
<1>7. InRule <=> Rules
  <2>1. TheProxies = Proxies
    BY Universe
  <2>2. InRule <=> \E conf \in Range(d.rules) : r \in Rows(d.mesh, "in", S, Proxies, conf)
    BY <1>4, <2>1
  <2> HIDE DEF InRule
  <2> QED
    BY <2>2, RowsMean DEF Range
<1>8. InOwn <=> Own
  <2>1. InOwn <=> \E conf \in Range(d.default) : r \in Rows(d.mesh, "own", S, {NoPeer}, conf)
    BY <1>4
  <2> HIDE DEF InOwn
  <2>2. ASSUME NEW conf
        PROVE  r \in Rows(d.mesh, "own", S, {NoPeer}, conf) <=>
                 \E p \in S : \E q, s : Row("own", p, q, s) /\ q = NoPeer /\ s \in Settings(conf)
    BY RowsMean
  <2> QED
    BY <2>1, <2>2 DEF Range
<1>9. (\E dir, p, q, s : Row(dir, p, q, s) /\ Gives(d, dir, p, q, s))
        <=> To \/ From \/ Rules \/ Own
  <2> HIDE DEF Row
  <2>1. \A dir, p, q, s : Gives(d, dir, p, q, s) <=>
          /\ p \in S
          /\ \/ /\ dir = "to"
                /\ \E j \in DOMAIN d.to : q \in ServicesOf(d.to[j].ref, d) /\ s \in Settings(d.to[j].conf)
             \/ /\ dir = "in"
                /\ \E j \in DOMAIN d.from : q \in ClientsOf(d.from[j].ref) /\ s \in Settings(d.from[j].conf)
             \/ /\ dir = "in" /\ q \in Proxies
                /\ \E j \in DOMAIN d.rules : s \in Settings(d.rules[j])
             \/ /\ dir = "own" /\ q = NoPeer
                /\ \E j \in DOMAIN d.default : s \in Settings(d.default[j])
    BY <1>1 DEF Gives, S
  <2>2. ASSUME NEW dir, NEW p, NEW q, NEW s, Row(dir, p, q, s), Gives(d, dir, p, q, s)
        PROVE  To \/ From \/ Rules \/ Own
    BY <2>1, <2>2
  <2>3. To => \E dir, p, q, s : Row(dir, p, q, s) /\ Gives(d, dir, p, q, s)
    BY <2>1
  <2>4. From => \E dir, p, q, s : Row(dir, p, q, s) /\ Gives(d, dir, p, q, s)
    BY <2>1
  <2>5. Rules => \E dir, p, q, s : Row(dir, p, q, s) /\ Gives(d, dir, p, q, s)
    BY <2>1
  <2>6. Own => \E dir, p, q, s : Row(dir, p, q, s) /\ Gives(d, dir, p, q, s)
    BY <2>1
  <2> HIDE DEF To, From, Rules, Own
  <2> QED
    BY <2>2, <2>3, <2>4, <2>5, <2>6
<1> HIDE DEF To, From, Rules, Own, InTo, InFrom, InRule, InOwn
<1> QED
  BY <1>5, <1>6, <1>7, <1>8, <1>9, <1>10

LEMMA CoverageOfLegacy ==
  ASSUME NEW doc, doc.kind \in DOMAIN OldTypeToNew, NEW r
  PROVE  r \in LegacyCoverage(doc) <=>
           \E dir, p, q, s : r = <<doc.mesh, dir, p, q, s>> /\ LegacyGives(doc, dir, p, q, s)
<1> DEFINE conf == LegacyConf(doc)
           sel  == Selected(doc.selectors, TheProxies)
           src  == Selected(doc.sources, TheProxies)
           inb  == Selected(doc.destinations, TheProxies)
           dst  == Selected(doc.destinations, TheServices)
<1>1. doc.kind # "OPAPolicy"
  BY DEF OldTypeToNew
<1>2. LegacyCoverage(doc) =
        IF doc.kind \in legacyShapes.selector \union {"OPAPolicy"}
        THEN Rows(doc.mesh, "own", sel, {NoPeer}, conf)
        ELSE IF doc.kind \in legacyShapes.inbound
        THEN Rows(doc.mesh, "in", inb, src, conf)
        ELSE Rows(doc.mesh, "to", src, dst, conf)
  BY <1>1, Zenon DEF LegacyCoverage
<1>3. legacyShapes.selector \intersect legacyShapes.inbound = {}
  BY DEF legacyShapes
<1>4. \A dir, p, q, s : LegacyGives(doc, dir, p, q, s) <=>
        /\ s \in Settings(conf)
        /\ \/ doc.kind \in legacyShapes.selector /\ dir = "own" /\ p \in sel /\ q = NoPeer
           \/ doc.kind \in legacyShapes.inbound /\ dir = "in" /\ p \in inb /\ q \in src
           \/ /\ doc.kind \notin legacyShapes.selector \union legacyShapes.inbound
              /\ dir = "to" /\ p \in src /\ q \in dst
  BY Universe DEF LegacyGives
<1> HIDE DEF conf, sel, src, inb, dst
<1>5. CASE doc.kind \in legacyShapes.selector
  BY <1>2, <1>3, <1>4, <1>5, RowsMean
<1>6. CASE doc.kind \in legacyShapes.inbound
  BY <1>1, <1>2, <1>3, <1>4, <1>6, RowsMean
<1>7. CASE doc.kind \notin legacyShapes.selector \union legacyShapes.inbound
  BY <1>1, <1>2, <1>4, <1>7, RowsMean
<1> QED
  BY <1>5, <1>6, <1>7

\* Documents of different names are all stored.
LEMMA AllStored ==
  ASSUME Distinct(docs), Len(docs) \in Nat, DOMAIN docs = 1..Len(docs)
  PROVE  Stored = {docs[i] : i \in DOMAIN docs}
<1>1. ASSUME NEW j \in DOMAIN docs, NEW k \in (j + 1)..Len(docs)
      PROVE  ~SameFile(docs[j], docs[k])
  <2>1. k \in DOMAIN docs /\ k # j
    OBVIOUS
  <2> QED
    BY <2>1 DEF Distinct, SameFile
<1> QED
  BY <1>1 DEF Stored

LEMMA CoverageAtEnd ==
  ASSUME TrafficKept, Converged, ClearLegacy(input), NEW r
  PROVE  r \in CoverageOfResults <=>
           \E dir, p, q, s : r = <<input.mesh, dir, p, q, s>> /\ Given(docs, dir, p, q, s)
<1>1. Keeping(docs, warns, input, target) /\ \A i \in DOMAIN docs : Homed(docs[i])
  BY DEF TrafficKept, LegacyKept, Converged
<1>2. Stored = {docs[i] : i \in DOMAIN docs}
  BY <1>1, LengthOfDocs, AllStored DEF TrafficKept, Staged, FromInput, Keeping
<1>3. r \in CoverageOfResults <=> \E i \in DOMAIN docs : r \in PolicyCoverage(docs[i], target)
  BY <1>2 DEF CoverageOfResults
<1>4. ASSUME NEW i \in DOMAIN docs
      PROVE  r \in PolicyCoverage(docs[i], target) <=>
               \E dir, p, q, s : r = <<input.mesh, dir, p, q, s>> /\ Gives(docs[i], dir, p, q, s)
  <2>1. Plain(docs[i], target) /\ Homed(docs[i]) /\ docs[i].mesh = input.mesh
    BY <1>1 DEF Keeping
  <2> QED
    BY <2>1, PlainCoverage
<1> QED
  BY <1>3, <1>4 DEF Given

LEMMA TrafficAtEnd == TrafficKept => (ClearLegacy(input) => SameTraffic)
<1> SUFFICES ASSUME TrafficKept, ClearLegacy(input), Converged
             PROVE  /\ CoverageOfInput \subseteq CoverageOfResults
                    /\ CoverageOfResults \subseteq CoverageOfInput
                       \/ warns \intersect WideningNamed # {}
  BY DEF SameTraffic
<1>1. input.kind \in DOMAIN OldTypeToNew /\ KeepTraffic(docs, warns, input)
  BY DEF TrafficKept, LegacyKept, Keeping, Converged
<1>2. CoverageOfInput = LegacyCoverage(input)
  BY DEF CoverageOfInput, ClearLegacy
<1>3. \A r : r \in CoverageOfInput <=>
        \E dir, p, q, s : r = <<input.mesh, dir, p, q, s>> /\ LegacyGives(input, dir, p, q, s)
  BY <1>1, <1>2, CoverageOfLegacy
<1>4. \A r : r \in CoverageOfResults <=>
        \E dir, p, q, s : r = <<input.mesh, dir, p, q, s>> /\ Given(docs, dir, p, q, s)
  BY CoverageAtEnd
<1>5. CoverageOfInput \subseteq CoverageOfResults
  BY <1>1, <1>3, <1>4, Zenon DEF KeepTraffic
<1>6. (\A dir, p, q, s : Given(docs, dir, p, q, s) => LegacyGives(input, dir, p, q, s))
        => CoverageOfResults \subseteq CoverageOfInput
  BY <1>3, <1>4, Zenon
<1> QED
  BY <1>1, <1>5, <1>6, Zenon DEF KeepTraffic

\* A legacy policy that is converted configures the traffic it did: none is lost,
\* and none is added unless a warning says which selector could not be kept
\* (convert.go, transform.go, rulesapi.go, namespace.go, v3_policy.go).
THEOREM LegacyTrafficIsKept == Spec => [](ClearLegacy(input) => SameTraffic)
<1>1. Init => TrafficKept
  BY InitTraffic
<1>2. TrafficKept /\ [Next]_vars => TrafficKept'
  BY NextTraffic
<1>3. TrafficKept => (ClearLegacy(input) => SameTraffic)
  BY TrafficAtEnd
<1> QED
  BY <1>1, <1>2, <1>3, PTL DEF Spec

=============================================================================

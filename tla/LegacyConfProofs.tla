-------------------------- MODULE LegacyConfProofs --------------------------
(***************************************************************************)
(* Proofs about the conversion of a legacy conf, for any conf: no field    *)
(* goes without a word, no field of the result is overwritten, and what    *)
(* the result holds is what the new schema takes, or a warning names it.   *)
(***************************************************************************)
EXTENDS LegacyConf, NaturalsInduction, FiniteSetTheorems, TLAPS

-----------------------------------------------------------------------------
(***************************************************************************)
(* Chosen: the elements of a sequence at some positions, in their order.   *)
(***************************************************************************)

\* A set of numbers that is not empty has a least member.
LEMMA LeastNumber ==
  ASSUME NEW S, S \subseteq Nat, S # {}
  PROVE  \E n \in S : \A m \in S : n <= m
<1> DEFINE less == OpToRel(<, Nat)
<1>1. IsWellFoundedOn(less, Nat)
  BY NatLessThanWellFounded, Zenon
<1>2. \A x, y \in Nat : <<x, y>> \in less <=> x < y
  BY DEF OpToRel
<1> HIDE DEF less
<1>3. \E x \in S : \A y \in S : <<y, x>> \notin less
  BY <1>1, WFMin, Zenon
<1>4. \A x, y \in S : <<y, x>> \in less \/ x <= y
  <2>1. \A x, y \in Nat : x < y \/ y <= x
    OBVIOUS
  <2> QED
    BY <1>2, <2>1, Zenon
<1> QED
  BY <1>3, <1>4, Zenon

\* A set that holds 0 and every successor of its members holds them all.
LEMMA Induction ==
  ASSUME NEW S, 0 \in S, \A n \in Nat : n \in S => n + 1 \in S
  PROVE  Nat \subseteq S
<1> SUFFICES ASSUME ~(Nat \subseteq S) PROVE FALSE
  OBVIOUS
<1> DEFINE T == Nat \ S
<1>1. T \subseteq Nat /\ T # {}
  OBVIOUS
<1> HIDE DEF T
<1>2. PICK n \in T : \A m \in T : n <= m
  BY <1>1, LeastNumber
<1> QED
  BY <1>2 DEF T

\* The members of I up to i.
UpTo(I, i) == {j \in I : j <= i}

LEMMA SmallSets ==
  ASSUME NEW n \in Nat, NEW I, I \subseteq 1..n
  PROVE  IsFiniteSet(I) /\ Cardinality(I) \in Nat
<1>1. IsFiniteSet(1..n)
  BY FS_Interval
<1> QED
  BY <1>1, FS_Subset, FS_CardinalityType

\* Every rank up to the size of I is that of a member of I.
LEMMA Ranked ==
  ASSUME NEW n \in Nat, NEW I, I \subseteq 1..n, NEW k \in 1..Cardinality(I)
  PROVE  \E i \in I : Cardinality(UpTo(I, i)) = k
<1> DEFINE Full(J) == \A m \in 1..Cardinality(J) :
                        \E i \in J : Cardinality(UpTo(J, i)) = m
           S == {x \in Nat : \A J \in SUBSET (1..x) : Full(J)}
<1>1. 0 \in S
  <2>1. SUBSET (1..0) = {{}} /\ Cardinality({}) = 0
    BY FS_EmptySet
  <2>2. Full({})
    BY <2>1
  <2> QED
    BY <2>1, <2>2
<1>2. ASSUME NEW x \in Nat, x \in S PROVE x + 1 \in S
  <2> SUFFICES ASSUME NEW J \in SUBSET (1..(x + 1)), NEW m \in 1..Cardinality(J)
               PROVE  \E i \in J : Cardinality(UpTo(J, i)) = m
    OBVIOUS
  <2> DEFINE y == x + 1
  <2>0. y \in Nat /\ J \subseteq 1..y /\ \A j \in J : j \in Nat /\ j <= x + 1
    OBVIOUS
  <2> HIDE DEF y
  <2>1. IsFiniteSet(J) /\ Cardinality(J) \in Nat
    BY <2>0, SmallSets, Zenon
  <2>2. CASE x + 1 \notin J
    <3>1. J \in SUBSET (1..x)
      BY <2>2
    <3> QED
      BY <1>2, <3>1
  <2>3. CASE x + 1 \in J
    <3> DEFINE L == J \ {x + 1}
    <3>1. L \in SUBSET (1..x) /\ Cardinality(J) = Cardinality(L) + 1
          /\ Cardinality(L) \in Nat
      BY <2>1, <2>3, FS_RemoveElement, SmallSets
    <3>2. CASE m = Cardinality(J)
      <4>1. UpTo(J, x + 1) = J
        BY <2>0 DEF UpTo
      <4> QED
        BY <2>3, <3>2, <4>1
    <3>3. CASE m # Cardinality(J)
      <4>1. m \in 1..Cardinality(L)
        BY <3>1, <3>3
      <4>2. PICK i \in L : Cardinality(UpTo(L, i)) = m
        BY <1>2, <3>1, <4>1
      <4>3. UpTo(J, i) = UpTo(L, i)
        BY <3>1 DEF UpTo
      <4> QED
        BY <4>2, <4>3
    <3> QED
      BY <3>2, <3>3
  <2> QED
    BY <2>2, <2>3
<1> HIDE DEF S
<1>3. n \in S
  BY <1>1, <1>2, Induction
<1> QED
  BY <1>3 DEF S

LEMMA NthMember ==
  ASSUME NEW n \in Nat, NEW I, I \subseteq 1..n, NEW k \in 1..Cardinality(I)
  PROVE  Nth(I, k) \in I /\ Cardinality(UpTo(I, Nth(I, k))) = k
<1> DEFINE R(i) == Cardinality(UpTo(I, i))
<1>1. \E i \in I : R(i) = k
  BY Ranked, Zenon
<1>2. Nth(I, k) = CHOOSE i \in I : R(i) = k
  BY Zenon DEF Nth, UpTo
<1> HIDE DEF R
<1>3. Nth(I, k) \in I /\ R(Nth(I, k)) = k
  BY <1>1, <1>2, Zenon
<1> QED
  BY <1>3 DEF R

\* Two members of one rank are the same.
LEMMA RankTells ==
  ASSUME NEW n \in Nat, NEW I, I \subseteq 1..n, NEW i \in I, NEW j \in I,
         Cardinality(UpTo(I, i)) = Cardinality(UpTo(I, j))
  PROVE  i = j
<1>0. \A a \in I : a \in Nat
  OBVIOUS
<1>1. ASSUME NEW a \in I, NEW b \in I, a < b
      PROVE  Cardinality(UpTo(I, a)) < Cardinality(UpTo(I, b))
  <2>4. a \in Nat /\ b \in Nat /\ a < b
    BY <1>0, <1>1, Zenon
  <2>5. b <= b /\ ~(b <= a) /\ \A m \in Nat : m <= a => m <= b
    BY <2>4
  <2>1. UpTo(I, a) \subseteq UpTo(I, b) /\ b \in UpTo(I, b) /\ b \notin UpTo(I, a)
    BY <1>0, <2>5, Zenon DEF UpTo
  <2>3. UpTo(I, b) \subseteq 1..n
    BY DEF UpTo
  <2>2. IsFiniteSet(UpTo(I, b))
    BY <2>3, SmallSets, Zenon
  <2> QED
    BY <2>1, <2>2, FS_Subset, FS_CardinalityType
<1>4. UpTo(I, i) \subseteq 1..n /\ UpTo(I, j) \subseteq 1..n
  BY DEF UpTo
<1>2. IsFiniteSet(UpTo(I, i)) /\ IsFiniteSet(UpTo(I, j))
  BY <1>4, SmallSets, Zenon
<1>3. Cardinality(UpTo(I, i)) \in Nat /\ Cardinality(UpTo(I, j)) \in Nat
  BY <1>2, FS_CardinalityType
<1> QED
  BY <1>0, <1>1, <1>3

\* Every member has its rank.
LEMMA NthOfAll ==
  ASSUME NEW n \in Nat, NEW I, I \subseteq 1..n, NEW i \in I
  PROVE  \E k \in 1..Cardinality(I) : Nth(I, k) = i
<1> DEFINE k == Cardinality(UpTo(I, i))
<1>1. IsFiniteSet(I) /\ UpTo(I, i) \subseteq I /\ i \in UpTo(I, i)
  <2>1. IsFiniteSet(I)
    BY SmallSets, Zenon
  <2>2. i \in Nat
    OBVIOUS
  <2> QED
    BY <2>1, <2>2 DEF UpTo
<1>2. IsFiniteSet(UpTo(I, i)) /\ k \in Nat /\ k <= Cardinality(I)
      /\ Cardinality(I) \in Nat
  BY <1>1, FS_Subset, FS_CardinalityType
<1>3. k # 0
  BY <1>1, <1>2, FS_EmptySet
<1>4. k \in 1..Cardinality(I)
  BY <1>2, <1>3
<1>5. Nth(I, k) \in I /\ Cardinality(UpTo(I, Nth(I, k))) = k
  BY <1>4, NthMember
<1>6. Nth(I, k) = i
  BY <1>5, RankTells
<1> QED
  BY <1>4, <1>6

\* What s has at the positions I.
ValuesAt(s, I) == {s[i] : i \in I}

\* What is chosen is what stands at the positions, and each position counts.
LEMMA ChosenRange ==
  ASSUME NEW n \in Nat, NEW I, I \subseteq 1..n, NEW s
  PROVE  Range(Chosen(s, I)) = ValuesAt(s, I)
<1>1. DOMAIN Chosen(s, I) = 1..Cardinality(I)
      /\ \A k \in 1..Cardinality(I) : Chosen(s, I)[k] = s[Nth(I, k)]
  BY DEF Chosen
<1>2. \A k \in 1..Cardinality(I) : Nth(I, k) \in I
  BY NthMember
<1>3. \A i \in I : \E k \in 1..Cardinality(I) : Nth(I, k) = i
  BY NthOfAll
<1>4. ASSUME NEW x PROVE x \in Range(Chosen(s, I)) <=> \E i \in I : x = s[i]
  <2>1. x \in Range(Chosen(s, I))
          <=> \E k \in 1..Cardinality(I) : x = s[Nth(I, k)]
    BY <1>1 DEF Range
  <2> QED
    BY <1>2, <1>3, <2>1
<1> QED
  BY <1>4 DEF ValuesAt

LEMMA ChosenSeq ==
  ASSUME NEW n \in Nat, NEW I, I \subseteq 1..n, NEW s, NEW T,
         \A i \in I : s[i] \in T
  PROVE  Chosen(s, I) \in Seq(T)
<1>1. Cardinality(I) \in Nat
  BY SmallSets, Zenon
<1>2. \A k \in 1..Cardinality(I) : s[Nth(I, k)] \in T
  BY NthMember
<1> DEFINE c == Cardinality(I)
<1> HIDE DEF c
<1>3. [k \in 1..c |-> s[Nth(I, k)]] \in [1..c -> T] /\ c \in Nat
  BY <1>1, <1>2 DEF c
<1>4. [k \in 1..c |-> s[Nth(I, k)]] \in Seq(T)
  BY <1>3
<1> QED
  BY <1>4 DEF Chosen, c

LEMMA ChosenInjective ==
  ASSUME NEW n \in Nat, NEW I, I \subseteq 1..n, NEW s,
         \A i, j \in I : s[i] = s[j] => i = j
  PROVE  IsInjective(Chosen(s, I))
<1>1. DOMAIN Chosen(s, I) = 1..Cardinality(I)
      /\ \A k \in 1..Cardinality(I) : Chosen(s, I)[k] = s[Nth(I, k)]
  BY DEF Chosen
<1>2. \A k \in 1..Cardinality(I) :
        Nth(I, k) \in I /\ Cardinality(UpTo(I, Nth(I, k))) = k
  BY NthMember
<1>3. ASSUME NEW k \in 1..Cardinality(I), NEW m \in 1..Cardinality(I),
             Chosen(s, I)[k] = Chosen(s, I)[m]
      PROVE  k = m
  <2>1. s[Nth(I, k)] = s[Nth(I, m)] /\ Nth(I, k) \in I /\ Nth(I, m) \in I
    BY <1>1, <1>2, <1>3
  <2>2. Nth(I, k) = Nth(I, m)
    BY <2>1, Zenon
  <2> QED
    BY <1>2, <2>2
<1> QED
  BY <1>1, <1>3 DEF IsInjective

\* A sequence without its repetitions.
LEMMA NoDuplicatesMeans ==
  ASSUME NEW T, NEW s \in Seq(T)
  PROVE  /\ NoDuplicates(s) \in Seq(T)
         /\ Range(NoDuplicates(s)) = Range(s)
         /\ IsInjective(NoDuplicates(s))
<1> DEFINE I == {i \in DOMAIN s : \A j \in 1..(i - 1) : s[j] # s[i]}
<1>1. DOMAIN s = 1..Len(s) /\ Len(s) \in Nat /\ \A i \in DOMAIN s : s[i] \in T
  OBVIOUS
<1>2. I \subseteq 1..Len(s)
  BY <1>1
<1>3. \A i, j \in I : s[i] = s[j] => i = j
  BY <1>1
<1>4. \A i \in DOMAIN s : \E j \in I : s[j] = s[i]
  <2> SUFFICES ASSUME NEW i \in DOMAIN s PROVE \E j \in I : s[j] = s[i]
    OBVIOUS
  <2> DEFINE E == {j \in DOMAIN s : s[j] = s[i]}
  <2>1. E \subseteq Nat /\ E # {}
    BY <1>1
  <2>2. PICK j \in E : \A m \in E : j <= m
    BY <2>1, LeastNumber
  <2>3. j \in I
    BY <1>1, <2>2
  <2> QED
    BY <2>2, <2>3
<1>5. NoDuplicates(s) = Chosen(s, I)
  BY DEF NoDuplicates
<1> HIDE DEF I
<1>6. \A x : x \in Range(s) <=> \E i \in I : x = s[i]
  BY <1>1, <1>2, <1>4 DEF Range
<1> DEFINE n == Len(s)
<1>7. n \in Nat /\ I \subseteq 1..n
  BY <1>1, <1>2
<1> HIDE DEF n
<1>8. Range(Chosen(s, I)) = ValuesAt(s, I)
  BY <1>7, ChosenRange
<1>9. IsInjective(Chosen(s, I))
  BY <1>3, <1>7, ChosenInjective
<1>10. \A i \in I : s[i] \in T
  BY <1>1, <1>2
<1>11. Chosen(s, I) \in Seq(T)
  BY <1>7, <1>10, ChosenSeq
<1>12. Range(Chosen(s, I)) = Range(s)
  BY <1>6, <1>8 DEF ValuesAt
<1> QED
  BY <1>5, <1>9, <1>11, <1>12

-----------------------------------------------------------------------------
(***************************************************************************)
(* The tables of moves.                                                    *)
(***************************************************************************)

Collectors == {"conditions", "methods", "codes"}

Ops == {"move", "percent", "collapse", "fold", "setRetryOn", "grpcRetryOn",
        "headers", "bandwidth", "refuse", "modifications"} \union Collectors

\* The paths of the result a step may write.
Writes(step) ==
  IF step.op \in Collectors \union {"refuse"} THEN {}
  ELSE IF step.op = "headers" THEN {step.add, step.set} ELSE {step.to}

\* Two steps write one path only if the later one looks whether the earlier
\* one, a plain move, has written it.
Apart(conv) ==
  \A i, j \in DOMAIN conv : i < j =>
    \A p \in Writes(conv[i]) : p \in Writes(conv[j]) =>
      /\ conv[i].op = "move" /\ conv[i].to = p /\ conv[j].to = p
      /\ \/ conv[j].op = "collapse" /\ conv[j].other = conv[i].from
         \/ conv[j].op = "fold" /\ conv[j].to = conv[i].from

\* The fields whose values the schema of a kind restricts.
Named(k, conv) ==
  \A i \in DOMAIN conv :
    /\ conv[i].op \in Ops
    /\ conv[i].op = "headers" => conv[i].add # conv[i].set
    /\ k = "Retry" /\ "http.retryOn" \in Writes(conv[i]) => conv[i].op = "setRetryOn"
    /\ k = "Retry" /\ "grpc.retryOn" \in Writes(conv[i]) => conv[i].op = "grpcRetryOn"
    /\ k = "FaultInjection" /\ "responseBandwidth.limit" \in Writes(conv[i]) =>
         conv[i].op = "bandwidth" /\ conv[i].from = "responseBandwidth.limit"
    /\ "appendModifications" \in Writes(conv[i]) =>
         conv[i].op = "modifications" /\ conv[i].from = "modifications"
    /\ conv[i].op = "modifications" => conv[i].to = "appendModifications"

\* What is collected is set later.
SetLater(conv) ==
  \A i \in DOMAIN conv : conv[i].op \in Collectors =>
    \E j \in DOMAIN conv : i < j /\ conv[j].op = "setRetryOn"

Tabled(k, conv) ==
  /\ DOMAIN conv = 1..Len(conv) /\ Len(conv) \in Nat
  /\ Apart(conv) /\ Named(k, conv) /\ SetLater(conv)

LEMMA TimeoutTable == Tabled("Timeout", convertTimeoutConf)
<1>1. DOMAIN convertTimeoutConf = 1..8 /\ Len(convertTimeoutConf) = 8
  BY DEF convertTimeoutConf
<1>2. Apart(convertTimeoutConf)
  BY DEF Apart, convertTimeoutConf, move, same, percent, Writes, Collectors
<1>3. Named("Timeout", convertTimeoutConf)
  BY DEF Named, convertTimeoutConf, move, same, percent, Writes, Collectors, Ops
<1>4. SetLater(convertTimeoutConf)
  BY DEF SetLater, convertTimeoutConf, move, same, percent, Collectors
<1> QED
  BY <1>1, <1>2, <1>3, <1>4 DEF Tabled

LEMMA CircuitBreakerTable == Tabled("CircuitBreaker", convertCircuitBreakerConf)
<1>1. DOMAIN convertCircuitBreakerConf = 1..17 /\ Len(convertCircuitBreakerConf) = 17
  BY DEF convertCircuitBreakerConf
<1>2. Apart(convertCircuitBreakerConf)
  BY DEF Apart, convertCircuitBreakerConf, move, same, percent, Writes, Collectors
<1>3. Named("CircuitBreaker", convertCircuitBreakerConf)
  BY DEF Named, convertCircuitBreakerConf, move, same, percent, Writes, Collectors, Ops
<1>4. SetLater(convertCircuitBreakerConf)
  BY DEF SetLater, convertCircuitBreakerConf, move, same, percent, Collectors
<1> QED
  BY <1>1, <1>2, <1>3, <1>4 DEF Tabled

LEMMA RetryTable == Tabled("Retry", convertRetryConf)
<1>1. DOMAIN convertRetryConf = 1..14 /\ Len(convertRetryConf) = 14
  BY DEF convertRetryConf
<1>2. Apart(convertRetryConf)
  BY DEF Apart, convertRetryConf, move, same, percent, Writes, Collectors
<1>3. Named("Retry", convertRetryConf)
  BY DEF Named, convertRetryConf, move, same, percent, Writes, Collectors, Ops
<1>4. SetLater(convertRetryConf)
  <2>1. 9 \in DOMAIN convertRetryConf /\ convertRetryConf[9].op = "setRetryOn"
    BY <1>1 DEF convertRetryConf
  <2>2. \A i \in DOMAIN convertRetryConf :
          convertRetryConf[i].op \in Collectors => i < 9
    BY DEF convertRetryConf, move, same, percent, Collectors
  <2> QED
    BY <2>1, <2>2 DEF SetLater
<1> QED
  BY <1>1, <1>2, <1>3, <1>4 DEF Tabled

LEMMA HealthCheckTable == Tabled("HealthCheck", convertHealthCheckConf)
<1>1. DOMAIN convertHealthCheckConf = 1..18 /\ Len(convertHealthCheckConf) = 18
  BY DEF convertHealthCheckConf
<1>2. Apart(convertHealthCheckConf)
  BY DEF Apart, convertHealthCheckConf, move, same, percent, Writes, Collectors
<1>3. Named("HealthCheck", convertHealthCheckConf)
  BY DEF Named, convertHealthCheckConf, move, same, percent, Writes, Collectors, Ops
<1>4. SetLater(convertHealthCheckConf)
  BY DEF SetLater, convertHealthCheckConf, move, same, percent, Collectors
<1> QED
  BY <1>1, <1>2, <1>3, <1>4 DEF Tabled

LEMMA FaultInjectionTable == Tabled("FaultInjection", convertFaultInjectionConf)
<1>1. DOMAIN convertFaultInjectionConf = 1..6 /\ Len(convertFaultInjectionConf) = 6
  BY DEF convertFaultInjectionConf
<1>2. Apart(convertFaultInjectionConf)
  BY DEF Apart, convertFaultInjectionConf, move, same, percent, Writes, Collectors
<1>3. Named("FaultInjection", convertFaultInjectionConf)
  BY DEF Named, convertFaultInjectionConf, move, same, percent, Writes, Collectors, Ops
<1>4. SetLater(convertFaultInjectionConf)
  BY DEF SetLater, convertFaultInjectionConf, move, same, percent, Collectors
<1> QED
  BY <1>1, <1>2, <1>3, <1>4 DEF Tabled

LEMMA RateLimitTable == Tabled("RateLimit", convertRateLimitConf)
<1>1. DOMAIN convertRateLimitConf = 1..4 /\ Len(convertRateLimitConf) = 4
  BY DEF convertRateLimitConf
<1>2. Apart(convertRateLimitConf)
  BY DEF Apart, convertRateLimitConf, move, Writes, Collectors
<1>3. Named("RateLimit", convertRateLimitConf)
  BY DEF Named, convertRateLimitConf, move, Writes, Collectors, Ops
<1>4. SetLater(convertRateLimitConf)
  BY DEF SetLater, convertRateLimitConf, move, Collectors
<1> QED
  BY <1>1, <1>2, <1>3, <1>4 DEF Tabled

LEMMA ProxyTemplateTable == Tabled("ProxyTemplate", convertProxyTemplateConf)
<1>1. DOMAIN convertProxyTemplateConf = 1..3 /\ Len(convertProxyTemplateConf) = 3
  BY DEF convertProxyTemplateConf
<1>2. Apart(convertProxyTemplateConf)
  BY DEF Apart, convertProxyTemplateConf, Writes, Collectors
<1>3. Named("ProxyTemplate", convertProxyTemplateConf)
  BY DEF Named, convertProxyTemplateConf, Writes, Collectors, Ops
<1>4. SetLater(convertProxyTemplateConf)
  BY DEF SetLater, convertProxyTemplateConf, Collectors
<1> QED
  BY <1>1, <1>2, <1>3, <1>4 DEF Tabled

LEMMA Tables ==
  \A k \in DOMAIN legacyConfConverters : Tabled(k, legacyConfConverters[k])
<1>1. DOMAIN legacyConfConverters =
        {"Timeout", "CircuitBreaker", "Retry", "HealthCheck", "FaultInjection",
         "RateLimit", "ProxyTemplate"}
  BY DEF legacyConfConverters
<1>2. /\ legacyConfConverters["Timeout"] = convertTimeoutConf
      /\ legacyConfConverters["CircuitBreaker"] = convertCircuitBreakerConf
      /\ legacyConfConverters["Retry"] = convertRetryConf
      /\ legacyConfConverters["HealthCheck"] = convertHealthCheckConf
      /\ legacyConfConverters["FaultInjection"] = convertFaultInjectionConf
      /\ legacyConfConverters["RateLimit"] = convertRateLimitConf
      /\ legacyConfConverters["ProxyTemplate"] = convertProxyTemplateConf
  BY DEF legacyConfConverters
<1> QED
  BY <1>1, <1>2, TimeoutTable, CircuitBreakerTable, RetryTable, HealthCheckTable,
     FaultInjectionTable, RateLimitTable, ProxyTemplateTable, Zenon

-----------------------------------------------------------------------------
(***************************************************************************)
(* The invariant.                                                          *)
(***************************************************************************)

\* An item stands in a result D.
Stands(D, item) ==
  \E p \in DOMAIN D :
    \/ /\ p = "appendModifications"
       /\ \E i \in DOMAIN D[p] : D[p][i][1] = Modification[item].on
    \/ /\ p # "appendModifications"
       /\ Range(D[p]) \intersect Spellings(item) # {}

LEMMA StandsMeans == \A item : Stands(dst, item) => InResult(item)
BY DEF Stands, InResult

\* An item of path that the warnings W name, that the result D has, or that
\* the status codes carry.
KeptIn(D, W, path, item) ==
  \/ <<path, "*">> \in W \/ <<path, item>> \in W
  \/ Stands(D, item)
  \/ CarriedByCodes(item)

\* Collected in R, and set by a step from the n-th on.
Waits(R, n, item) ==
  /\ Spellings(item) \intersect Range(R) # {}
  /\ \E j \in DOMAIN Steps : j >= n /\ Steps[j].op = "setRetryOn"

AccountedIn(D, W, R, n, path) ==
  \/ SupersededGrpc(path)
  \/ \A item \in Range(conf[path]) : KeptIn(D, W, path, item) \/ Waits(R, n, item)

\* What a step writes is what the schema of the new policy takes, or the
\* warnings W name it.
Takes(step, value, W) ==
  /\ step.op = "move" => Has(step.from) /\ value = conf[step.from]
  /\ step.op = "percent" => value[1] \notin Fractions
  /\ step.op = "setRetryOn" =>
       Range(value) \subseteq newHTTPRetryOn /\ IsInjective(value)
  /\ step.op = "grpcRetryOn" => Range(value) \subseteq Range(legacyGrpcRetryOn)
  /\ step.op = "headers" =>
       \A i \in DOMAIN value : \E h \in DOMAIN Header :
         Header[h].lower = value[i] /\ (Header[h].valid \/ \E w \in W : w[2] = h)
  /\ step.op = "bandwidth" =>
       value[2] \in {"Gbps", "Mbps", "kbps"} \/ <<step.from, "*">> \in W
  /\ step.op = "modifications" =>
       \A i \in DOMAIN value :
         \/ OperationAccepted(value[i][1], value[i][2])
         \/ \E w \in W : w[2] = conf[step.from][i]

\* The result D holds what the steps before the n-th wrote.
MadeBefore(D, W, n) ==
  \A p \in DOMAIN D : \E i \in DOMAIN Steps :
    i < n /\ p \in Writes(Steps[i]) /\ Takes(Steps[i], D[p], W)

KnownConf == \E c \in Confs : kind = c.kind /\ conf = c.conf

ConfInv ==
  /\ KnownConf
  /\ pc \in 1..(Len(Steps) + 2)
  /\ retryOn \in Seq(newHTTPRetryOn)
  /\ MadeBefore(dst, warned, pc)
  /\ used \subseteq DOMAIN conf
  /\ \A path \in used : AccountedIn(dst, warned, retryOn, pc, path)
  /\ pc = Len(Steps) + 2 =>
       \A path \in DOMAIN conf : path \in used \/ <<path, "*">> \in warned

LEMMA StepsTabled == KnownConf => Tabled(kind, Steps)
BY Tables, ConfAssumption DEF KnownConf, Steps

\* The values of a known conf have the shape its steps take.
LEMMA ConfShaped ==
  ASSUME KnownConf
  PROVE  /\ \A path \in DOMAIN conf : conf[path] \in Seq(STRING)
         /\ \A i \in DOMAIN Steps :
              Steps[i].op # "setRetryOn" /\ Has(Steps[i].from) =>
                Shaped(Steps[i], conf[Steps[i].from])
BY ConfAssumption DEF KnownConf, Steps, Has

\* D2 has what D has.
Extends(D, D2) == \A p \in DOMAIN D : p \in DOMAIN D2 /\ D2[p] = D[p]

LEMMA StandsOn ==
  ASSUME NEW D, NEW D2, Extends(D, D2), NEW item, Stands(D, item)
  PROVE  Stands(D2, item)
BY DEF Extends, Stands

LEMMA TakesOn ==
  ASSUME NEW step, NEW value, NEW W, NEW W2, W \subseteq W2, Takes(step, value, W)
  PROVE  Takes(step, value, W2)
<1>1. step.op = "headers" =>
        \A i \in DOMAIN value : \E h \in DOMAIN Header :
          Header[h].lower = value[i] /\ (Header[h].valid \/ \E w \in W2 : w[2] = h)
  BY DEF Takes
<1>2. step.op = "modifications" =>
        \A i \in DOMAIN value :
          \/ OperationAccepted(value[i][1], value[i][2])
          \/ \E w \in W2 : w[2] = conf[step.from][i]
  BY DEF Takes
<1>3. step.op = "bandwidth" =>
        value[2] \in {"Gbps", "Mbps", "kbps"} \/ <<step.from, "*">> \in W2
  BY DEF Takes
<1> QED
  BY <1>1, <1>2, <1>3, Zenon DEF Takes

\* What is new in a result D is what this step takes.
OnlyWrites(D, W) ==
  \A p \in DOMAIN D :
    \/ p \in DOMAIN dst
    \/ p \in Writes(Step) /\ Takes(Step, D[p], W)

(***************************************************************************)
(* A step that keeps the result and the warnings, writes at most what its  *)
(* schema takes where nothing was written, and accounts for its field.     *)
(***************************************************************************)
LEMMA StepKeepsInv ==
  ASSUME ConfInv, Keep, pc \in DOMAIN Steps,
         Extends(dst, dst'), warned \subseteq warned',
         OnlyWrites(dst', warned'),
         retryOn' \in Seq(newHTTPRetryOn), Range(retryOn) \subseteq Range(retryOn'),
         \A item : Step.op = "setRetryOn" /\ Spellings(item) \intersect Range(retryOn) # {} =>
           Stands(dst', item),
         \/ used' = used
         \/ /\ Has(Step.from) /\ used' = used \union {Step.from}
            /\ AccountedIn(dst', warned', retryOn', pc + 1, Step.from)
  PROVE  ConfInv'
<1>1. kind' = kind /\ conf' = conf /\ pc' = pc + 1
  BY DEF Keep
<1>2. Tabled(kind, Steps)
  BY StepsTabled DEF ConfInv
<1>3. Steps' = Steps /\ KnownConf'
  BY <1>1 DEF Steps, KnownConf, ConfInv
<1>4. pc \in 1..Len(Steps) /\ Len(Steps) \in Nat
  BY <1>2 DEF Tabled
<1>5. pc' \in 1..(Len(Steps') + 2) /\ pc' # Len(Steps') + 2
  BY <1>1, <1>3, <1>4
<1>6. \A step, value, W : Takes(step, value, W)' = Takes(step, value, W)
  BY <1>1 DEF Takes, Has
<1>7. MadeBefore(dst', warned', pc + 1)
  <2> SUFFICES ASSUME NEW p \in DOMAIN dst'
               PROVE  \E i \in DOMAIN Steps :
                        /\ i < pc + 1 /\ p \in Writes(Steps[i])
                        /\ Takes(Steps[i], dst'[p], warned')
    BY Zenon DEF MadeBefore
  <2>1. CASE p \in DOMAIN dst
    <3>1. PICK i \in DOMAIN Steps :
            i < pc /\ p \in Writes(Steps[i]) /\ Takes(Steps[i], dst[p], warned)
      BY <2>1, Zenon DEF ConfInv, MadeBefore
    <3>2. Takes(Steps[i], dst'[p], warned')
      BY <2>1, <3>1, TakesOn DEF Extends
    <3>3. i < pc + 1
      BY <1>2, <1>4, <3>1 DEF Tabled
    <3> QED
      BY <3>1, <3>2, <3>3
  <2>2. CASE p \in Writes(Step) /\ Takes(Step, dst'[p], warned')
    <3>1. pc < pc + 1
      BY <1>4
    <3> QED
      BY <2>2, <3>1 DEF Step
  <2> QED
    BY <2>1, <2>2, Zenon DEF OnlyWrites
<1>8. ASSUME NEW path \in used'
      PROVE  AccountedIn(dst', warned', retryOn', pc + 1, path)
  <2>1. CASE path \in used
    <3>1. AccountedIn(dst, warned, retryOn, pc, path)
      BY <2>1 DEF ConfInv
    <3>2. CASE SupersededGrpc(path)
      BY <3>2 DEF AccountedIn
    <3>3. ASSUME NEW item \in Range(conf[path]),
                 KeptIn(dst, warned, path, item) \/ Waits(retryOn, pc, item)
          PROVE  KeptIn(dst', warned', path, item) \/ Waits(retryOn', pc + 1, item)
      <4>1. CASE KeptIn(dst, warned, path, item)
        BY <4>1, StandsOn, Zenon DEF KeptIn
      <4>2. CASE Waits(retryOn, pc, item)
        <5>1. PICK j \in DOMAIN Steps : j >= pc /\ Steps[j].op = "setRetryOn"
          BY <4>2 DEF Waits
        <5>2. CASE j = pc
          <6>1. Stands(dst', item)
            BY <4>2, <5>1, <5>2 DEF Waits, Step
          <6> QED
            BY <6>1 DEF KeptIn
        <5>3. CASE j # pc
          <6>1. j >= pc + 1
            BY <1>2, <1>4, <5>1, <5>3 DEF Tabled
          <6>2. Spellings(item) \intersect Range(retryOn') # {}
            BY <4>2 DEF Waits
          <6> QED
            BY <5>1, <6>1, <6>2 DEF Waits
        <5> QED
          BY <5>2, <5>3
      <4> QED
        BY <3>3, <4>1, <4>2
    <3> QED
      BY <3>1, <3>2, <3>3, Zenon DEF AccountedIn
  <2>2. CASE path \notin used
    BY <2>2
  <2> QED
    BY <2>1, <2>2
<1>9. \A path, D, W, R, n : AccountedIn(D, W, R, n, path)' = AccountedIn(D, W, R, n, path)
  BY <1>1, <1>3 DEF AccountedIn, SupersededGrpc, KeptIn, Waits, CarriedByCodes, Has
<1>10. used' \subseteq DOMAIN conf
  BY DEF ConfInv, Has
<1> QED
  BY <1>1, <1>3, <1>5, <1>6, <1>7, <1>8, <1>9, <1>10 DEF ConfInv, MadeBefore

-----------------------------------------------------------------------------
(***************************************************************************)
(* The steps.                                                              *)
(***************************************************************************)

LEMMA AtMeans ==
  ASSUME ConfInv, NEW op, At(op)
  PROVE  /\ pc \in DOMAIN Steps /\ pc \in Nat /\ Step.op = op
         /\ Tabled(kind, Steps) /\ KnownConf
<1>1. Tabled(kind, Steps)
  BY StepsTabled DEF ConfInv
<1> QED
  BY <1>1 DEF Tabled, ConfInv, At

\* A path that is written already was written by the plain move that a
\* collapse or a fold looks at.
LEMMA WrittenAlready ==
  ASSUME ConfInv, pc \in DOMAIN Steps, NEW p \in Writes(Step), p \in DOMAIN dst
  PROVE  \E i \in DOMAIN Steps :
           /\ Has(Steps[i].from) /\ dst[p] = conf[Steps[i].from]
           /\ Step.to = p
           /\ \/ Step.op = "collapse" /\ Step.other = Steps[i].from
              \/ Step.op = "fold" /\ Step.to = Steps[i].from
<1>1. PICK i \in DOMAIN Steps :
        i < pc /\ p \in Writes(Steps[i]) /\ Takes(Steps[i], dst[p], warned)
  BY Zenon DEF ConfInv, MadeBefore
<1>2. Apart(Steps)
  BY StepsTabled DEF ConfInv, Tabled
<1>3. /\ Steps[i].op = "move" /\ Step.to = p
      /\ \/ Step.op = "collapse" /\ Step.other = Steps[i].from
         \/ Step.op = "fold" /\ Step.to = Steps[i].from
  BY <1>1, <1>2, Zenon DEF Apart, Step
<1>4. Has(Steps[i].from) /\ dst[p] = conf[Steps[i].from]
  BY <1>1, <1>3 DEF Takes
<1> QED
  BY <1>3, <1>4

LEMMA SetMeans ==
  ASSUME NEW p, NEW v
  PROVE  /\ DOMAIN Set(p, v) = DOMAIN dst \union {p} /\ Set(p, v)[p] = v
         /\ \A q \in DOMAIN dst : q # p => Set(p, v)[q] = dst[q]
         /\ p \notin DOMAIN dst \/ dst[p] = v => Extends(dst, Set(p, v))
BY DEF Set, Extends

LEMMA SetGives ==
  ASSUME NEW p, NEW v, dst' = Set(p, v)
  PROVE  p \in DOMAIN dst' /\ dst'[p] = v
BY DEF Set

LEMMA SpellingsHave ==
  \A item :
    /\ item \in Spellings(item)
    /\ item \in DOMAIN legacyRetryOn => legacyRetryOn[item] \in Spellings(item)
    /\ item \in DOMAIN legacyGrpcRetryOn => legacyGrpcRetryOn[item] \in Spellings(item)
    /\ item \in DOMAIN legacyRetryMethod => legacyRetryMethod[item] \in Spellings(item)
    /\ item \in DOMAIN LowerUnit => bandwidthUnits[LowerUnit[item]] \in Spellings(item)
    /\ item \in DOMAIN Header => Header[item].lower \in Spellings(item)
<1> TAKE item
<1>1. item \in Spellings(item)
  BY DEF Spellings
<1>2. item \in DOMAIN legacyRetryOn => legacyRetryOn[item] \in Spellings(item)
  BY Zenon DEF Spellings
<1>3. item \in DOMAIN legacyGrpcRetryOn => legacyGrpcRetryOn[item] \in Spellings(item)
  BY Zenon DEF Spellings
<1>4. item \in DOMAIN legacyRetryMethod => legacyRetryMethod[item] \in Spellings(item)
  BY Zenon DEF Spellings
<1>5. item \in DOMAIN LowerUnit => bandwidthUnits[LowerUnit[item]] \in Spellings(item)
  BY Zenon DEF Spellings
<1>6. item \in DOMAIN Header => Header[item].lower \in Spellings(item)
  BY Zenon DEF Spellings
<1> QED
  BY <1>1, <1>2, <1>3, <1>4, <1>5, <1>6

LEMMA StandsAt ==
  ASSUME NEW D, NEW p \in DOMAIN D, p # "appendModifications", NEW item,
         NEW x \in Range(D[p]), x \in Spellings(item)
  PROVE  Stands(D, item)
BY DEF Stands

\* A step that has nothing to do.
LEMMA IdleStep ==
  ASSUME ConfInv, Keep, pc \in DOMAIN Steps, UNCHANGED <<dst, used, warned, retryOn>>,
         Step.op # "setRetryOn" \/ retryOn = <<>>
  PROVE  ConfInv' /\ Extends(dst, dst')
<1>1. Extends(dst, dst')
  BY DEF Extends
<1>2. retryOn = <<>> => Range(retryOn) = {}
  BY DEF Range
<1>3. retryOn' \in Seq(newHTTPRetryOn)
  BY DEF ConfInv
<1>4. OnlyWrites(dst', warned')
  BY DEF OnlyWrites
<1>5. \A item : Step.op = "setRetryOn" /\ Spellings(item) \intersect Range(retryOn) # {} =>
        Stands(dst', item)
  BY <1>2
<1> QED
  BY <1>1, <1>3, <1>4, <1>5, StepKeepsInv

\* A step that writes one value where nothing was written.
LEMMA WritingStep ==
  ASSUME ConfInv, Keep, pc \in DOMAIN Steps, Step.op # "setRetryOn", UNCHANGED retryOn,
         NEW v, dst' = Set(Step.to, v), Step.to \in Writes(Step),
         Step.to \notin DOMAIN dst \/ dst[Step.to] = v,
         Takes(Step, v, warned'), warned \subseteq warned',
         Has(Step.from), used' = used \union {Step.from},
         \/ SupersededGrpc(Step.from)
         \/ \A item \in Range(conf[Step.from]) :
              KeptIn(dst', warned', Step.from, item)
  PROVE  ConfInv' /\ Extends(dst, dst')
<1>1. Extends(dst, dst')
  BY SetMeans
<1>5. DOMAIN dst' = DOMAIN dst \union {Step.to} /\ dst'[Step.to] = v
  BY SetMeans
<1>2. OnlyWrites(dst', warned')
  BY <1>5 DEF OnlyWrites
<1>3. retryOn' \in Seq(newHTTPRetryOn) /\ Range(retryOn) \subseteq Range(retryOn')
  BY DEF ConfInv
<1>4. AccountedIn(dst', warned', retryOn', pc + 1, Step.from)
  BY DEF AccountedIn
<1> QED
  BY <1>1, <1>2, <1>3, <1>4, StepKeepsInv

\* A step that takes its field and writes nothing.
LEMMA TakingStep ==
  ASSUME ConfInv, Keep, pc \in DOMAIN Steps, Step.op # "setRetryOn", UNCHANGED <<dst, retryOn>>,
         warned \subseteq warned',
         Has(Step.from), used' = used \union {Step.from},
         \/ SupersededGrpc(Step.from)
         \/ \A item \in Range(conf[Step.from]) :
              KeptIn(dst', warned', Step.from, item)
  PROVE  ConfInv' /\ Extends(dst, dst')
<1>1. Extends(dst, dst')
  BY DEF Extends
<1>2. OnlyWrites(dst', warned')
  BY DEF OnlyWrites
<1>3. retryOn' \in Seq(newHTTPRetryOn) /\ Range(retryOn) \subseteq Range(retryOn')
  BY DEF ConfInv
<1>4. AccountedIn(dst', warned', retryOn', pc + 1, Step.from)
  BY DEF AccountedIn
<1> QED
  BY <1>1, <1>2, <1>3, <1>4, StepKeepsInv

\* Only a collapse or a fold writes where something was written.
LEMMA FreshPath ==
  ASSUME ConfInv, pc \in DOMAIN Steps, Step.op \notin {"collapse", "fold"},
         NEW p \in Writes(Step)
  PROVE  p \notin DOMAIN dst
BY WrittenAlready

\* Only the proxy patches stand at appendModifications.
LEMMA PlainPath ==
  ASSUME ConfInv, pc \in DOMAIN Steps, Step.op # "modifications",
         NEW p \in Writes(Step)
  PROVE  p # "appendModifications"
BY StepsTabled, Zenon DEF ConfInv, Tabled, Named, Step

LEMMA MoveKeepsInv ==
  ASSUME ConfInv, Move
  PROVE  ConfInv' /\ Extends(dst, dst')
<1>1. /\ pc \in DOMAIN Steps /\ Step.op \in {"move", "percent"}
      /\ Tabled(kind, Steps) /\ KnownConf /\ Keep
  BY AtMeans DEF Move
<1>2. CASE ~Has(Step.from)
  <2>1. UNCHANGED <<dst, used, warned, retryOn>>
    BY <1>2 DEF Move
  <2> QED
    BY <1>1, <2>1, IdleStep
<1>3. CASE Has(Step.from)
  <2> DEFINE c == conf[Step.from]
             v == IF Step.op = "percent" THEN normalizePercentage(c) ELSE c
  <2>1. /\ used' = used \union {Step.from} /\ dst' = Set(Step.to, v)
        /\ UNCHANGED <<retryOn, warned>>
    BY <1>3 DEF Move
  <2>2. Writes(Step) = {Step.to}
    BY <1>1 DEF Writes, Collectors
  <2>3. Step.to \notin DOMAIN dst /\ Step.to # "appendModifications"
    BY <1>1, <2>2, FreshPath, PlainPath
  <2>4. c \in Seq(STRING) /\ (Step.op = "percent" => Len(c) = 1)
    BY <1>1, <1>3, ConfShaped DEF Shaped, Step, Has
  <2>5. Takes(Step, v, warned')
    <3>1. Step.op = "percent" => v[1] \notin Fractions
      BY TableAssumption DEF normalizePercentage, Quoted
    <3>2. Step.op = "move" => v = c
      OBVIOUS
    <3> HIDE DEF v
    <3> QED
      BY <1>1, <1>3, <3>1, <3>2 DEF Takes
  <2>6. \A item \in Range(c) : item \in Range(v)
    <3>1. CASE v = c
      BY <3>1
    <3>2. CASE v = Quoted(c[1]) /\ Len(c) = 1
      <4>1. Range(c) = {c[1]}
        BY <2>4, <3>2 DEF Range
      <4>2. v[2] = c[1] /\ 2 \in DOMAIN v
        BY <3>2 DEF Quoted
      <4> HIDE DEF v
      <4> QED
        BY <4>1, <4>2 DEF Range
    <3> QED
      BY <2>4, <3>1, <3>2 DEF normalizePercentage
  <2> HIDE DEF v
  <2>7. Step.to \in DOMAIN dst' /\ dst'[Step.to] = v
    BY <2>1, SetMeans
  <2>8. \A item \in Range(c) : KeptIn(dst', warned', Step.from, item)
    BY <2>3, <2>6, <2>7, StandsAt, SpellingsHave DEF KeptIn
  <2> HIDE DEF c
  <2>9. \A item \in Range(conf[Step.from]) : KeptIn(dst', warned', Step.from, item)
    BY <2>8 DEF c
  <2>10. Step.op # "setRetryOn" /\ Step.to \in Writes(Step) /\ warned \subseteq warned'
    BY <1>1, <2>1, <2>2
  <2> QED
    BY <1>1, <1>3, <2>1, <2>3, <2>5, <2>9, <2>10, WritingStep
<1> QED
  BY <1>2, <1>3

LEMMA CollapseKeepsInv ==
  ASSUME ConfInv, Collapse
  PROVE  ConfInv' /\ Extends(dst, dst')
<1>1. /\ pc \in DOMAIN Steps /\ Step.op = "collapse"
      /\ Tabled(kind, Steps) /\ KnownConf /\ Keep
  BY AtMeans DEF Collapse
<1>2. CASE ~Has(Step.from)
  <2>1. UNCHANGED <<dst, used, warned, retryOn>>
    BY <1>2 DEF Collapse
  <2> QED
    BY <1>1, <2>1, IdleStep
<1>3. CASE Has(Step.from) /\ Has(Step.other) /\ conf[Step.other] # conf[Step.from]
  <2>1. /\ used' = used \union {Step.from} /\ UNCHANGED <<dst, retryOn>>
        /\ warned' = warned \union {<<Step.from, "*">>}
    BY <1>3 DEF Collapse
  <2>2. \A item \in Range(conf[Step.from]) : KeptIn(dst', warned', Step.from, item)
    BY <2>1 DEF KeptIn
  <2> QED
    BY <1>1, <1>3, <2>1, <2>2, TakingStep
<1>4. CASE Has(Step.from) /\ ~(Has(Step.other) /\ conf[Step.other] # conf[Step.from])
  <2> DEFINE v == conf[Step.from]
  <2>1. /\ used' = used \union {Step.from} /\ dst' = Set(Step.to, v)
        /\ UNCHANGED <<retryOn, warned>>
    BY <1>4 DEF Collapse
  <2>2. Writes(Step) = {Step.to}
    BY <1>1 DEF Writes, Collectors
  <2>3. Step.to \notin DOMAIN dst \/ dst[Step.to] = v
    BY <1>1, <1>4, <2>2, WrittenAlready
  <2>4. Takes(Step, v, warned')
    BY <1>1 DEF Takes
  <2>7. Step.to \in DOMAIN dst' /\ dst'[Step.to] = v
    BY <2>1, SetGives, Zenon
  <2>5. Step.to # "appendModifications"
    BY <1>1, <2>2, PlainPath
  <2>6. \A item \in Range(v) : KeptIn(dst', warned', Step.from, item)
    BY <2>5, <2>7, StandsAt, SpellingsHave DEF KeptIn
  <2> QED
    BY <1>1, <1>4, <2>1, <2>2, <2>3, <2>4, <2>6, WritingStep
<1> QED
  BY <1>2, <1>3, <1>4

LEMMA FoldKeepsInv ==
  ASSUME ConfInv, Fold
  PROVE  ConfInv' /\ Extends(dst, dst')
<1>1. /\ pc \in DOMAIN Steps /\ Step.op = "fold"
      /\ Tabled(kind, Steps) /\ KnownConf /\ Keep
  BY AtMeans DEF Fold
<1>2. CASE ~Has(Step.from)
  <2>1. UNCHANGED <<dst, used, warned, retryOn>>
    BY <1>2 DEF Fold
  <2> QED
    BY <1>1, <2>1, IdleStep
<1>3. CASE Has(Step.from) /\ Has(Step.to)
  <2>1. used' = used \union {Step.from} /\ UNCHANGED <<dst, retryOn, warned>>
    BY <1>3 DEF Fold
  <2>2. SupersededGrpc(Step.from)
    BY <1>1, <1>3 DEF SupersededGrpc, Step, Has
  <2> QED
    BY <1>1, <1>3, <2>1, <2>2, TakingStep
<1>4. CASE Has(Step.from) /\ ~Has(Step.to)
  <2> DEFINE v == conf[Step.from]
  <2>1. /\ used' = used \union {Step.from} /\ dst' = Set(Step.to, v)
        /\ UNCHANGED <<retryOn, warned>>
    BY <1>4 DEF Fold
  <2>2. Writes(Step) = {Step.to}
    BY <1>1 DEF Writes, Collectors
  <2>3. Step.to \notin DOMAIN dst
    BY <1>1, <1>4, <2>2, WrittenAlready
  <2>4. Takes(Step, v, warned')
    BY <1>1 DEF Takes
  <2>7. Step.to \in DOMAIN dst' /\ dst'[Step.to] = v
    BY <2>1, SetGives, Zenon
  <2>5. Step.to # "appendModifications"
    BY <1>1, <2>2, PlainPath
  <2>6. \A item \in Range(v) : KeptIn(dst', warned', Step.from, item)
    BY <2>5, <2>7, StandsAt, SpellingsHave DEF KeptIn
  <2> QED
    BY <1>1, <1>4, <2>1, <2>2, <2>3, <2>4, <2>6, WritingStep
<1> QED
  BY <1>2, <1>3, <1>4

\* An item becomes a condition of the new list, under one of its spellings.
LEMMA RetryItemMeans ==
  ASSUME NEW op \in Collectors, NEW item, NEW x \in RetryItem(op, item)
  PROVE  x \in newHTTPRetryOn /\ x \in Spellings(item)
<1>1. CASE op = "conditions"
  <2>1. CASE item \in DOMAIN legacyRetryOn
    <3>1. x = legacyRetryOn[item]
      BY <1>1, <2>1 DEF RetryItem
    <3> QED
      BY <2>1, <3>1, SpellingsHave DEF newHTTPRetryOn, Range
  <2>2. CASE item \notin DOMAIN legacyRetryOn
    <3>1. x = item /\ x \in newHTTPRetryOn
      BY <1>1, <2>2 DEF RetryItem
    <3> QED
      BY <3>1, SpellingsHave
  <2> QED
    BY <2>1, <2>2
<1>2. CASE op = "methods"
  <2>1. item \in DOMAIN legacyRetryMethod /\ x = legacyRetryMethod[item]
    BY <1>2 DEF RetryItem
  <2> QED
    BY <2>1, TableAssumption, SpellingsHave DEF newHTTPRetryOn, Range
<1>3. CASE op = "codes"
  <2>1. x = item /\ x \in StatusCodes
    BY <1>3 DEF RetryItem
  <2> QED
    BY <2>1, SpellingsHave DEF newHTTPRetryOn
<1> QED
  BY <1>1, <1>2, <1>3 DEF Collectors

LEMMA RetryItemsMeans ==
  ASSUME NEW op \in Collectors, NEW T, NEW items \in Seq(T)
  PROVE  /\ RetryItems(op, items) \in Seq(newHTTPRetryOn)
         /\ \A item \in Range(items) : RetryItem(op, item) # {} =>
              Spellings(item) \intersect Range(RetryItems(op, items)) # {}
<1> DEFINE n == Len(items)
           I == {i \in DOMAIN items : RetryItem(op, items[i]) # {}}
           s == [i \in DOMAIN items |-> CHOOSE x \in RetryItem(op, items[i]) : TRUE]
<1>1. n \in Nat /\ DOMAIN items = 1..n /\ I \subseteq 1..n
  OBVIOUS
<1>2. \A i \in I : i \in DOMAIN items /\ s[i] \in RetryItem(op, items[i])
  OBVIOUS
<1>3. \A i \in I : s[i] \in newHTTPRetryOn /\ s[i] \in Spellings(items[i])
  BY <1>2, RetryItemMeans
<1>4. RetryItems(op, items) = Chosen(s, I)
  BY DEF RetryItems
<1>5. \A item \in Range(items) : RetryItem(op, item) # {} =>
        \E i \in I : items[i] = item
  BY DEF Range
<1> HIDE DEF n, I, s
<1>6. Chosen(s, I) \in Seq(newHTTPRetryOn)
  BY <1>1, <1>3, ChosenSeq
<1>7. Range(Chosen(s, I)) = ValuesAt(s, I)
  BY <1>1, ChosenRange
<1>8. \A i \in I : s[i] \in Range(Chosen(s, I))
  BY <1>7 DEF ValuesAt
<1> QED
  BY <1>3, <1>4, <1>5, <1>6, <1>8

LEMMA ConcatMeans ==
  ASSUME NEW T, NEW s \in Seq(T), NEW t \in Seq(T)
  PROVE  /\ s \o t \in Seq(T)
         /\ Range(s) \subseteq Range(s \o t) /\ Range(t) \subseteq Range(s \o t)
<1>1. /\ s \o t \in Seq(T) /\ DOMAIN (s \o t) = 1..(Len(s) + Len(t))
      /\ DOMAIN s = 1..Len(s) /\ DOMAIN t = 1..Len(t)
      /\ Len(s) \in Nat /\ Len(t) \in Nat
  OBVIOUS
<1>2. \A i \in 1..Len(s) : i \in 1..(Len(s) + Len(t)) /\ (s \o t)[i] = s[i]
  OBVIOUS
<1>3. \A i \in 1..Len(t) : Len(s) + i \in 1..(Len(s) + Len(t))
                           /\ (s \o t)[Len(s) + i] = t[i]
  OBVIOUS
<1> QED
  BY <1>1, <1>2, <1>3 DEF Range

LEMMA CollectKeepsInv ==
  ASSUME ConfInv, Collect
  PROVE  ConfInv' /\ Extends(dst, dst')
<1>1. /\ pc \in DOMAIN Steps /\ pc \in Nat /\ Step.op \in Collectors
      /\ Tabled(kind, Steps) /\ KnownConf /\ Keep
  BY AtMeans DEF Collect, Collectors
<1>2. CASE ~Has(Step.from)
  <2>1. UNCHANGED <<dst, used, warned, retryOn>>
    BY <1>2 DEF Collect
  <2> QED
    BY <1>1, <2>1, IdleStep DEF Collectors
<1>3. CASE Has(Step.from)
  <2> DEFINE items == conf[Step.from]
             more  == RetryItems(Step.op, items)
  <2>1. /\ used' = used \union {Step.from} /\ retryOn' = retryOn \o more
        /\ dst' = dst /\ warned \subseteq warned'
        /\ \A item \in Range(items) :
             \/ <<Step.from, item>> \in warned'
             \/ RetryItem(Step.op, item) # {} \/ CarriedByCodes(item)
    BY <1>3 DEF Collect
  <2>2. items \in Seq(STRING)
    BY <1>1, <1>3, ConfShaped DEF Has
  <2> HIDE DEF items
  <2>3. /\ more \in Seq(newHTTPRetryOn)
        /\ \A item \in Range(items) : RetryItem(Step.op, item) # {} =>
             Spellings(item) \intersect Range(more) # {}
    BY <1>1, <2>2, RetryItemsMeans
  <2> HIDE DEF more
  <2>4. /\ retryOn' \in Seq(newHTTPRetryOn)
        /\ Range(retryOn) \subseteq Range(retryOn')
        /\ Range(more) \subseteq Range(retryOn')
    BY <2>1, <2>3, ConcatMeans DEF ConfInv
  <2>5. \E j \in DOMAIN Steps : j >= pc + 1 /\ Steps[j].op = "setRetryOn"
    <3>1. PICK j \in DOMAIN Steps : pc < j /\ Steps[j].op = "setRetryOn"
      BY <1>1 DEF Tabled, SetLater, Step
    <3> QED
      BY <1>1, <3>1 DEF Tabled
  <2>6. \A item \in Range(items) :
          \/ KeptIn(dst', warned', Step.from, item)
          \/ Waits(retryOn', pc + 1, item)
    BY <2>1, <2>3, <2>4, <2>5 DEF KeptIn, Waits
  <2>7. AccountedIn(dst', warned', retryOn', pc + 1, Step.from)
    BY <2>6 DEF AccountedIn, items
  <2>8. Extends(dst, dst') /\ OnlyWrites(dst', warned')
    BY <2>1 DEF Extends, OnlyWrites
  <2>9. Step.op # "setRetryOn"
    BY <1>1 DEF Collectors
  <2> QED
    BY <1>1, <1>3, <2>1, <2>4, <2>7, <2>8, <2>9, StepKeepsInv
<1> QED
  BY <1>2, <1>3

LEMMA SetRetryOnKeepsInv ==
  ASSUME ConfInv, SetRetryOn
  PROVE  ConfInv' /\ Extends(dst, dst')
<1>1. /\ pc \in DOMAIN Steps /\ Step.op = "setRetryOn"
      /\ Tabled(kind, Steps) /\ KnownConf /\ Keep
      /\ UNCHANGED <<used, retryOn, warned>>
  BY AtMeans DEF SetRetryOn
<1>2. CASE retryOn = <<>>
  <2>1. dst' = dst
    BY <1>2 DEF SetRetryOn
  <2> QED
    BY <1>1, <1>2, <2>1, IdleStep
<1>3. CASE retryOn # <<>>
  <2> DEFINE v == NoDuplicates(retryOn)
  <2>1. dst' = Set(Step.to, v)
    BY <1>3 DEF SetRetryOn
  <2>2. Writes(Step) = {Step.to}
    BY <1>1 DEF Writes, Collectors
  <2>3. Step.to \notin DOMAIN dst /\ Step.to # "appendModifications"
    BY <1>1, <2>2, FreshPath, PlainPath
  <2>4. retryOn \in Seq(newHTTPRetryOn)
    BY DEF ConfInv
  <2>5. /\ v \in Seq(newHTTPRetryOn) /\ Range(v) = Range(retryOn) /\ IsInjective(v)
    BY <2>4, NoDuplicatesMeans
  <2> HIDE DEF v
  <2>6. Range(v) \subseteq newHTTPRetryOn
    BY <2>5 DEF Range
  <2>7. Takes(Step, v, warned')
    BY <1>1, <2>5, <2>6 DEF Takes
  <2>8. /\ DOMAIN dst' = DOMAIN dst \union {Step.to} /\ dst'[Step.to] = v
        /\ Extends(dst, dst')
    BY <2>1, <2>3, SetMeans
  <2>9. OnlyWrites(dst', warned')
    BY <2>2, <2>7, <2>8 DEF OnlyWrites
  <2>10. \A item : Spellings(item) \intersect Range(retryOn) # {} => Stands(dst', item)
    BY <2>3, <2>5, <2>8, StandsAt
  <2>11. warned \subseteq warned' /\ used' = used
         /\ retryOn' \in Seq(newHTTPRetryOn) /\ Range(retryOn) \subseteq Range(retryOn')
    BY <1>1, <2>4
  <2> QED
    BY <1>1, <2>8, <2>9, <2>10, <2>11, StepKeepsInv
<1> QED
  BY <1>2, <1>3

LEMMA GrpcRetryOnKeepsInv ==
  ASSUME ConfInv, GrpcRetryOn
  PROVE  ConfInv' /\ Extends(dst, dst')
<1>1. /\ pc \in DOMAIN Steps /\ Step.op = "grpcRetryOn"
      /\ Tabled(kind, Steps) /\ KnownConf /\ Keep
      /\ UNCHANGED <<retryOn, warned>>
  BY AtMeans DEF GrpcRetryOn
<1>2. CASE ~Has(Step.from)
  <2>1. UNCHANGED <<dst, used>>
    BY <1>2 DEF GrpcRetryOn
  <2> QED
    BY <1>1, <2>1, IdleStep
<1> DEFINE items == conf[Step.from]
           spelled(x) == IF x \in DOMAIN legacyGrpcRetryOn
                         THEN legacyGrpcRetryOn[x] ELSE x
           v == [i \in DOMAIN items |-> spelled(items[i])]
<1>3. CASE Has(Step.from) /\ items = <<>>
  <2>1. used' = used \union {Step.from} /\ dst' = dst
    BY <1>3 DEF GrpcRetryOn
  <2>2. Range(items) = {}
    BY <1>3 DEF Range
  <2>3. \A item \in Range(conf[Step.from]) : KeptIn(dst', warned', Step.from, item)
    BY <2>2
  <2> QED
    BY <1>1, <1>3, <2>1, <2>3, TakingStep
<1>4. CASE Has(Step.from) /\ items # <<>>
  <2>1. used' = used \union {Step.from} /\ dst' = Set(Step.to, v)
    BY <1>4 DEF GrpcRetryOn
  <2>2. Writes(Step) = {Step.to}
    BY <1>1 DEF Writes, Collectors
  <2>3. Step.to \notin DOMAIN dst /\ Step.to # "appendModifications"
    BY <1>1, <2>2, FreshPath, PlainPath
  <2>4. Range(items) \subseteq DOMAIN legacyGrpcRetryOn \union Range(legacyGrpcRetryOn)
    BY <1>1, <1>4, ConfShaped DEF Shaped, Step
  <2>5. \A x : spelled(x) \in Spellings(x)
    BY SpellingsHave
  <2>6. \A x \in Range(items) : spelled(x) \in Range(legacyGrpcRetryOn)
    BY <2>4 DEF Range
  <2> HIDE DEF items, spelled
  <2>7. Range(v) \subseteq Range(legacyGrpcRetryOn)
    BY <2>6 DEF Range
  <2>8. \A x \in Range(items) : spelled(x) \in Range(v)
    BY DEF Range
  <2> HIDE DEF v
  <2>9. Takes(Step, v, warned')
    BY <1>1, <2>7 DEF Takes
  <2>10. Step.to \in DOMAIN dst' /\ dst'[Step.to] = v
    BY <2>1, SetMeans
  <2>11. \A x \in Range(items) : KeptIn(dst', warned', Step.from, x)
    BY <2>3, <2>5, <2>8, <2>10, StandsAt DEF KeptIn
  <2>12. \A x \in Range(conf[Step.from]) : KeptIn(dst', warned', Step.from, x)
    BY <2>11 DEF items
  <2>13. Step.op # "setRetryOn" /\ Step.to \in Writes(Step) /\ warned \subseteq warned'
    BY <1>1, <2>2
  <2> QED
    BY <1>1, <1>4, <2>1, <2>3, <2>9, <2>12, <2>13, WritingStep
<1> QED
  BY <1>2, <1>3, <1>4

LEMMA RefuseKeepsInv ==
  ASSUME ConfInv, Refuse
  PROVE  ConfInv' /\ Extends(dst, dst')
<1>1. /\ pc \in DOMAIN Steps /\ Step.op = "refuse"
      /\ Tabled(kind, Steps) /\ KnownConf /\ Keep
      /\ UNCHANGED <<dst, retryOn>>
  BY AtMeans DEF Refuse
<1>2. CASE ~Has(Step.from)
  <2>1. UNCHANGED <<used, warned>>
    BY <1>2 DEF Refuse
  <2> QED
    BY <1>1, <2>1, IdleStep
<1>3. CASE Has(Step.from)
  <2>1. used' = used \union {Step.from} /\ warned' = warned \union {<<Step.from, "*">>}
    BY <1>3 DEF Refuse
  <2>2. \A item \in Range(conf[Step.from]) : KeptIn(dst', warned', Step.from, item)
    BY <2>1 DEF KeptIn
  <2> QED
    BY <1>1, <1>3, <2>1, <2>2, TakingStep
<1> QED
  BY <1>2, <1>3

LEMMA BandwidthKeepsInv ==
  ASSUME ConfInv, Bandwidth
  PROVE  ConfInv' /\ Extends(dst, dst')
<1>1. /\ pc \in DOMAIN Steps /\ Step.op = "bandwidth"
      /\ Tabled(kind, Steps) /\ KnownConf /\ Keep /\ UNCHANGED retryOn
  BY AtMeans DEF Bandwidth
<1>2. CASE ~Has(Step.from)
  <2>1. UNCHANGED <<dst, used, warned>>
    BY <1>2 DEF Bandwidth
  <2> QED
    BY <1>1, <2>1, IdleStep
<1>3. CASE Has(Step.from)
  <2> DEFINE limit == conf[Step.from]
             v == normalizeBandwidthLimit(limit)
  <2>1. /\ used' = used \union {Step.from} /\ dst' = Set(Step.to, v)
        /\ warned \subseteq warned'
        /\ limit[2] \in DOMAIN LowerUnit \/ <<Step.from, "*">> \in warned'
    BY <1>3 DEF Bandwidth
  <2>2. Writes(Step) = {Step.to}
    BY <1>1 DEF Writes, Collectors
  <2>3. Step.to \notin DOMAIN dst /\ Step.to # "appendModifications"
    BY <1>1, <2>2, FreshPath, PlainPath
  <2>4. limit \in Seq(STRING) /\ Len(limit) = 2
    BY <1>1, <1>3, ConfShaped DEF Shaped, Step, Has
  <2> HIDE DEF limit
  <2>5. limit[2] \in DOMAIN LowerUnit =>
          bandwidthUnits[LowerUnit[limit[2]]] \in {"Gbps", "Mbps", "kbps"}
    BY DEF LowerUnit, bandwidthUnits
  <2>6. limit[2] \in DOMAIN LowerUnit =>
          v[2] = bandwidthUnits[LowerUnit[limit[2]]] /\ v[1] = limit[1]
          /\ DOMAIN v = 1..2
    BY DEF normalizeBandwidthLimit
  <2> HIDE DEF v
  <2>7. Takes(Step, v, warned')
    BY <1>1, <2>1, <2>5, <2>6 DEF Takes
  <2>8. Step.to \in DOMAIN dst' /\ dst'[Step.to] = v
    BY <2>1, SetGives, Zenon
  <2>9. \A x \in Range(limit) : KeptIn(dst', warned', Step.from, x)
    <3>1. CASE <<Step.from, "*">> \in warned'
      BY <3>1 DEF KeptIn
    <3>2. CASE limit[2] \in DOMAIN LowerUnit
      <4>1. Range(limit) = {limit[1], limit[2]}
        BY <2>4 DEF Range
      <4>2. v[1] \in Range(v) /\ v[2] \in Range(v)
        BY <2>6, <3>2 DEF Range
      <4>3. v[1] \in Spellings(limit[1]) /\ v[2] \in Spellings(limit[2])
        BY <2>6, <3>2, SpellingsHave, Zenon
      <4>4. Stands(dst', limit[1]) /\ Stands(dst', limit[2])
        BY <2>3, <2>8, <4>2, <4>3, StandsAt
      <4> QED
        BY <4>1, <4>4 DEF KeptIn
    <3> QED
      BY <2>1, <3>1, <3>2
  <2>10. \A x \in Range(conf[Step.from]) : KeptIn(dst', warned', Step.from, x)
    BY <2>9 DEF limit
  <2>11. Step.op # "setRetryOn" /\ Step.to \in Writes(Step)
    BY <1>1, <2>2
  <2> QED
    BY <1>1, <1>3, <2>1, <2>3, <2>7, <2>10, <2>11, WritingStep
<1> QED
  BY <1>2, <1>3

LEMMA HeadersKeepInv ==
  ASSUME ConfInv, Headers
  PROVE  ConfInv' /\ Extends(dst, dst')
<1>1. /\ pc \in DOMAIN Steps /\ Step.op = "headers"
      /\ Tabled(kind, Steps) /\ KnownConf /\ Keep /\ UNCHANGED retryOn
  BY AtMeans DEF Headers
<1>2. CASE ~Has(Step.from)
  <2>1. UNCHANGED <<dst, used, warned>>
    BY <1>2 DEF Headers
  <2> QED
    BY <1>1, <2>1, IdleStep
<1>3. CASE Has(Step.from)
  <2> DEFINE items == conf[Step.from]
             part(p) == Lowered(items, p = Step.add)
             paths == {p \in {Step.add, Step.set} : part(p) # <<>>}
             renamed(x) == Header[x].lower # Header[x].name \/ ~Header[x].valid
  <2>1. Step.add # Step.set
    BY <1>1 DEF Tabled, Named, Step
  <2>2. /\ used' = used \union {Step.from}
        /\ dst' = [p \in DOMAIN dst \union paths |->
                     IF p \in paths THEN part(p) ELSE dst[p]]
        /\ warned' = warned \union
             {<<Step.from, h>> : h \in {x \in Range(items) : renamed(x)}}
    <3> DEFINE parts == {<<Step.add, TRUE>>, <<Step.set, FALSE>>}
               written == {q \in parts : Lowered(items, q[2]) # <<>>}
    <3>1. {q[1] : q \in written} = paths
      <4>1. (Step.add = Step.add) = TRUE /\ (Step.set = Step.add) = FALSE
        BY <2>1
      <4>2. part(Step.add) = Lowered(items, TRUE) /\ part(Step.set) = Lowered(items, FALSE)
        BY <4>1, Zenon
      <4>3. \A p : p \in {q[1] : q \in written}
                     <=> \/ p = Step.add /\ Lowered(items, TRUE) # <<>>
                         \/ p = Step.set /\ Lowered(items, FALSE) # <<>>
        <5> DEFINE add == <<Step.add, TRUE>>
                   set == <<Step.set, FALSE>>
        <5>1. add[1] = Step.add /\ add[2] = TRUE /\ set[1] = Step.set /\ set[2] = FALSE
          OBVIOUS
        <5>2. parts = {add, set}
          OBVIOUS
        <5> HIDE DEF add, set, parts
        <5> QED
          BY <5>1, <5>2, Zenon
      <4> HIDE DEF part, written
      <4> QED
        BY <2>1, <4>2, <4>3
    <3> QED
      BY <1>3, <3>1, Zenon DEF Headers
  <2>3. items \in Seq(STRING) /\ Range(items) \subseteq DOMAIN Header
    BY <1>1, <1>3, ConfShaped DEF Shaped, Step, Has
  <2>4. \A x \in Range(items) : renamed(x) => <<Step.from, x>> \in warned'
    BY <2>2
  <2> DEFINE I(b) == {i \in DOMAIN items : Header[items[i]].append = b}
             s == [i \in DOMAIN items |-> Header[items[i]].lower]
             n == Len(items)
  <2>5. n \in Nat /\ DOMAIN items = 1..n /\ \A b : I(b) \subseteq 1..n
    BY <2>3
  <2>6. \A b : Range(Lowered(items, b)) = ValuesAt(s, I(b))
    <3> SUFFICES ASSUME NEW b PROVE Range(Chosen(s, I(b))) = ValuesAt(s, I(b))
      BY Zenon DEF Lowered
    <3> HIDE DEF n, s, I
    <3> QED
      BY <2>5, ChosenRange
  <2>7. \A b : \A y : y \in ValuesAt(s, I(b)) =>
          \E x \in Range(items) : y = Header[x].lower
    BY DEF ValuesAt, Range
  <2>8. \A x \in Range(items) : Header[x].lower \in ValuesAt(s, I(Header[x].append))
    BY DEF ValuesAt, Range
  <2> HIDE DEF s, I, n
  <2>9. \A p : \A i \in DOMAIN part(p) : part(p)[i] \in Range(part(p))
    BY DEF Range
  <2>10. \A p : \A y \in Range(part(p)) : \E x \in Range(items) : y = Header[x].lower
    <3> SUFFICES ASSUME NEW p, NEW y \in Range(part(p))
                 PROVE  \E x \in Range(items) : y = Header[x].lower
      OBVIOUS
    <3> DEFINE b == p = Step.add
    <3>1. y \in Range(Lowered(items, b))
      OBVIOUS
    <3> HIDE DEF b
    <3>2. y \in ValuesAt(s, I(b))
      BY <2>6, <3>1
    <3> QED
      BY <2>7, <3>2
  <2>11. \A p : Takes(Step, part(p), warned')
    <3> SUFFICES ASSUME NEW p PROVE Takes(Step, part(p), warned')
      OBVIOUS
    <3> DEFINE v == part(p)
    <3>1. ASSUME NEW i \in DOMAIN v
          PROVE  \E h \in DOMAIN Header :
                   /\ Header[h].lower = v[i]
                   /\ Header[h].valid \/ \E w \in warned' : w[2] = h
      <4>1. PICK x \in Range(items) : v[i] = Header[x].lower
        BY <2>9, <2>10, <3>1
      <4>2. x \in DOMAIN Header
        BY <2>3
      <4>3. Header[x].valid \/ <<Step.from, x>> \in warned'
        BY <2>4
      <4>4. <<Step.from, x>>[2] = x
        OBVIOUS
      <4> QED
        BY <4>1, <4>2, <4>3, <4>4, Zenon
    <3> HIDE DEF v
    <3>2. Takes(Step, v, warned')
      BY <1>1, <3>1 DEF Takes
    <3> QED
      BY <3>2 DEF v
  <2>12. \A x \in Range(items) : Header[x].append \in BOOLEAN
    BY <2>3, TableAssumption
  <2>13. \A x \in Range(items) :
           \E p \in {Step.add, Step.set} : Header[x].lower \in Range(part(p))
    <3> SUFFICES ASSUME NEW x \in Range(items)
                 PROVE  \E p \in {Step.add, Step.set} : Header[x].lower \in Range(part(p))
      OBVIOUS
    <3>1. Header[x].lower \in Range(Lowered(items, Header[x].append))
      BY <2>6, <2>8, Zenon
    <3>2. CASE Header[x].append = TRUE
      <4>1. (Step.add = Step.add) = TRUE
        OBVIOUS
      <4>2. Header[x].lower \in Range(part(Step.add))
        BY <3>1, <3>2, <4>1, Zenon
      <4> QED
        BY <4>2
    <3>3. CASE Header[x].append = FALSE
      <4>1. (Step.set = Step.add) = FALSE
        BY <2>1
      <4>2. Header[x].lower \in Range(part(Step.set))
        BY <3>1, <3>3, <4>1, Zenon
      <4> QED
        BY <4>2
    <3> QED
      BY <2>12, <3>2, <3>3
  <2>14. Writes(Step) = {Step.add, Step.set}
    BY <1>1 DEF Writes, Collectors
  <2> HIDE DEF part
  <2>15. \A p \in {Step.add, Step.set} :
           p \notin DOMAIN dst /\ p # "appendModifications"
    BY <1>1, <2>14, FreshPath, PlainPath
  <2>16. \A p \in paths : p \in {Step.add, Step.set} /\ p \in Writes(Step)
    BY <2>14
  <2>17. \A x \in Range(items) : \E p \in paths : Header[x].lower \in Range(part(p))
    <3>1. Range(<<>>) = {}
      BY DEF Range
    <3> QED
      BY <2>13, <3>1
  <2> HIDE DEF paths
  <2>18. /\ DOMAIN dst' = DOMAIN dst \union paths
         /\ \A p \in paths : dst'[p] = part(p)
         /\ \A p \in DOMAIN dst : p \notin paths => dst'[p] = dst[p]
    BY <2>2
  <2>19. Extends(dst, dst')
    BY <2>15, <2>16, <2>18 DEF Extends
  <2>20. OnlyWrites(dst', warned')
    BY <2>11, <2>16, <2>18 DEF OnlyWrites
  <2>21. ASSUME NEW x \in Range(items)
         PROVE  KeptIn(dst', warned', Step.from, x)
    <3>1. PICK p \in paths : Header[x].lower \in Range(part(p))
      BY <2>17
    <3>2. p \in DOMAIN dst' /\ dst'[p] = part(p) /\ p # "appendModifications"
      BY <2>15, <2>16, <2>18
    <3>3. Header[x].lower \in Spellings(x)
      BY <2>3, SpellingsHave
    <3>4. Stands(dst', x)
      BY <3>1, <3>2, <3>3, StandsAt
    <3> QED
      BY <3>4 DEF KeptIn
  <2>22. AccountedIn(dst', warned', retryOn', pc + 1, Step.from)
    BY <2>21 DEF AccountedIn
  <2>23. /\ retryOn' \in Seq(newHTTPRetryOn) /\ Range(retryOn) \subseteq Range(retryOn')
         /\ Step.op # "setRetryOn" /\ warned \subseteq warned'
    BY <1>1, <2>2 DEF ConfInv
  <2> HIDE DEF items
  <2> QED
    BY <1>1, <1>3, <2>2, <2>19, <2>20, <2>22, <2>23, StepKeepsInv
<1> QED
  BY <1>2, <1>3

LEMMA ModificationsKeepInv ==
  ASSUME ConfInv, Modifications
  PROVE  ConfInv' /\ Extends(dst, dst')
<1>1. /\ pc \in DOMAIN Steps /\ Step.op = "modifications"
      /\ Tabled(kind, Steps) /\ KnownConf /\ Keep /\ UNCHANGED retryOn
  BY AtMeans DEF Modifications
<1>2. CASE ~Has(Step.from)
  <2>1. UNCHANGED <<dst, used, warned>>
    BY <1>2 DEF Modifications
  <2> QED
    BY <1>1, <2>1, IdleStep
<1> DEFINE items == conf[Step.from]
           written(x) == <<Modification[x].on,
                           convertProxyPatchOperation(Modification[x])>>
           v == [i \in DOMAIN items |-> written(items[i])]
<1>3. CASE Has(Step.from) /\ items = <<>>
  <2>1. used' = used \union {Step.from} /\ dst' = dst /\ warned \subseteq warned'
    BY <1>3 DEF Modifications
  <2>2. Range(items) = {}
    BY <1>3 DEF Range
  <2>3. \A item \in Range(conf[Step.from]) : KeptIn(dst', warned', Step.from, item)
    BY <2>2
  <2> QED
    BY <1>1, <1>3, <2>1, <2>3, TakingStep
<1>4. CASE Has(Step.from) /\ items # <<>>
  <2>1. /\ used' = used \union {Step.from} /\ dst' = Set(Step.to, v)
        /\ warned \subseteq warned'
        /\ \A x \in Range(items) :
             ProxyPatchWarns(Modification[x]) => <<Step.from, x>> \in warned'
    BY <1>4 DEF Modifications
  <2>2. Writes(Step) = {Step.to} /\ Step.to = "appendModifications"
    BY <1>1 DEF Writes, Collectors, Tabled, Named, Step
  <2>3. Step.to \notin DOMAIN dst
    BY <1>1, <2>2, FreshPath
  <2>4. \A m : ~ProxyPatchWarns(m) =>
          OperationAccepted(m.on, convertProxyPatchOperation(m))
    BY DEF ProxyPatchWarns, OperationAccepted, convertProxyPatchOperation
  <2>5. \A x : written(x)[1] = Modification[x].on
               /\ written(x)[2] = convertProxyPatchOperation(Modification[x])
    OBVIOUS
  <2> HIDE DEF items, written
  <2>6. DOMAIN v = DOMAIN items /\ \A i \in DOMAIN items : v[i] = written(items[i])
    OBVIOUS
  <2>7. \A i \in DOMAIN items : items[i] \in Range(items)
    BY DEF Range
  <2> HIDE DEF v
  <2>8. ASSUME NEW i \in DOMAIN v
        PROVE  \/ OperationAccepted(v[i][1], v[i][2])
               \/ \E w \in warned' : w[2] = items[i]
    <3>1. CASE ProxyPatchWarns(Modification[items[i]])
      <4>1. <<Step.from, items[i]>> \in warned' /\ <<Step.from, items[i]>>[2] = items[i]
        BY <2>1, <2>6, <2>7, <3>1
      <4> QED
        BY <4>1, Zenon
    <3>2. CASE ~ProxyPatchWarns(Modification[items[i]])
      BY <2>4, <2>5, <2>6, <3>2
    <3> QED
      BY <3>1, <3>2
  <2>9. Takes(Step, v, warned')
    BY <1>1, <2>8 DEF Takes, items
  <2>10. Step.to \in DOMAIN dst' /\ dst'[Step.to] = v
    BY <2>1, SetGives, Zenon
  <2>11. ASSUME NEW x \in Range(items)
         PROVE  KeptIn(dst', warned', Step.from, x)
    <3>1. PICK i \in DOMAIN v : v[i][1] = Modification[x].on
      BY <2>5, <2>6 DEF Range
    <3>2. Stands(dst', x)
      BY <2>2, <2>10, <3>1 DEF Stands
    <3> QED
      BY <3>2 DEF KeptIn
  <2>12. \A x \in Range(conf[Step.from]) : KeptIn(dst', warned', Step.from, x)
    BY <2>11 DEF items
  <2>13. Step.op # "setRetryOn" /\ Step.to \in Writes(Step)
    BY <1>1, <2>2
  <2> QED
    BY <1>1, <1>4, <2>1, <2>3, <2>9, <2>12, <2>13, WritingStep
<1> QED
  BY <1>2, <1>3, <1>4

LEMMA UnmappedKeepsInv ==
  ASSUME ConfInv, Unmapped
  PROVE  ConfInv' /\ Extends(dst, dst')
<1>1. /\ kind' = kind /\ conf' = conf /\ pc' = pc + 1 /\ pc = Len(Steps) + 1
      /\ UNCHANGED <<used, dst, retryOn>> /\ warned \subseteq warned'
      /\ \A p \in DOMAIN conf : p \in used \/ <<p, "*">> \in warned'
  BY DEF Unmapped, Keep
<1>2. Tabled(kind, Steps) /\ Len(Steps) \in Nat
  BY StepsTabled DEF ConfInv, Tabled
<1>3. Steps' = Steps /\ KnownConf' /\ pc' \in 1..(Len(Steps) + 2)
  BY <1>1, <1>2 DEF Steps, KnownConf, ConfInv
<1>4. \A step, value, W : Takes(step, value, W)' = Takes(step, value, W)
  BY <1>1 DEF Takes, Has
<1>5. \A path, D, W, R, n : AccountedIn(D, W, R, n, path)' = AccountedIn(D, W, R, n, path)
  BY <1>1, <1>3 DEF AccountedIn, SupersededGrpc, KeptIn, Waits, CarriedByCodes, Has
<1>6. MadeBefore(dst, warned', pc + 1)
  <2> SUFFICES ASSUME NEW p \in DOMAIN dst
               PROVE  \E i \in DOMAIN Steps :
                        /\ i < pc + 1 /\ p \in Writes(Steps[i])
                        /\ Takes(Steps[i], dst[p], warned')
    BY Zenon DEF MadeBefore
  <2>1. PICK i \in DOMAIN Steps :
          i < pc /\ p \in Writes(Steps[i]) /\ Takes(Steps[i], dst[p], warned)
    BY Zenon DEF ConfInv, MadeBefore
  <2>2. Takes(Steps[i], dst[p], warned') /\ i < pc + 1
    BY <1>1, <1>2, <2>1, TakesOn DEF Tabled
  <2> QED
    BY <2>1, <2>2
<1>7. ASSUME NEW path \in used
      PROVE  AccountedIn(dst, warned', retryOn, pc + 1, path)
  <2>1. AccountedIn(dst, warned, retryOn, pc, path)
    BY DEF ConfInv
  <2>2. \A item : ~Waits(retryOn, pc, item)
    BY <1>1, <1>2 DEF Waits, Tabled
  <2>3. \A item : KeptIn(dst, warned, path, item) => KeptIn(dst, warned', path, item)
    BY <1>1 DEF KeptIn
  <2> QED
    BY <2>1, <2>2, <2>3 DEF AccountedIn
<1>8. Extends(dst, dst')
  BY <1>1 DEF Extends
<1> QED
  BY <1>1, <1>3, <1>4, <1>5, <1>6, <1>7, <1>8 DEF ConfInv, MadeBefore

-----------------------------------------------------------------------------
(***************************************************************************)
(* The theorems.                                                           *)
(***************************************************************************)

LEMMA ConfInit == Init => ConfInv
<1> SUFFICES ASSUME Init PROVE ConfInv
  OBVIOUS
<1>1. KnownConf /\ dst = <<>> /\ used = {} /\ retryOn = <<>> /\ warned = {} /\ pc = 1
  BY Zenon DEF Init, KnownConf
<1>2. Len(Steps) \in Nat
  BY <1>1, StepsTabled DEF Tabled
<1>3. pc \in 1..(Len(Steps) + 2) /\ pc # Len(Steps) + 2
  BY <1>1, <1>2
<1>4. MadeBefore(dst, warned, pc)
  BY <1>1 DEF MadeBefore
<1> QED
  BY <1>1, <1>3, <1>4 DEF ConfInv

LEMMA ConfStep == ConfInv /\ [Next]_vars => ConfInv' /\ Extends(dst, dst')
<1> SUFFICES ASSUME ConfInv, [Next]_vars PROVE ConfInv' /\ Extends(dst, dst')
  OBVIOUS
<1>1. CASE Move
  BY <1>1, MoveKeepsInv
<1>2. CASE Collapse
  BY <1>2, CollapseKeepsInv
<1>3. CASE Fold
  BY <1>3, FoldKeepsInv
<1>4. CASE Collect
  BY <1>4, CollectKeepsInv
<1>5. CASE SetRetryOn
  BY <1>5, SetRetryOnKeepsInv
<1>6. CASE GrpcRetryOn
  BY <1>6, GrpcRetryOnKeepsInv
<1>7. CASE Headers
  BY <1>7, HeadersKeepInv
<1>8. CASE Bandwidth
  BY <1>8, BandwidthKeepsInv
<1>9. CASE Refuse
  BY <1>9, RefuseKeepsInv
<1>10. CASE Modifications
  BY <1>10, ModificationsKeepInv
<1>11. CASE Unmapped
  BY <1>11, UnmappedKeepsInv
<1>12. CASE UNCHANGED vars
  <2>1. \A step, value, W : Takes(step, value, W)' = Takes(step, value, W)
    BY <1>12 DEF Takes, Has, vars
  <2>2. \A path, D, W, R, n :
          AccountedIn(D, W, R, n, path)' = AccountedIn(D, W, R, n, path)
    BY <1>12 DEF AccountedIn, SupersededGrpc, KeptIn, Waits, CarriedByCodes,
                 Has, Steps, vars
  <2>3. /\ kind' = kind /\ conf' = conf /\ dst' = dst /\ used' = used
        /\ retryOn' = retryOn /\ warned' = warned /\ pc' = pc /\ Steps' = Steps
    BY <1>12 DEF vars, Steps
  <2>4. MadeBefore(dst, warned, pc)' /\ KnownConf'
    BY <2>1, <2>3 DEF ConfInv, MadeBefore, KnownConf
  <2>5. \A path \in used' : AccountedIn(dst, warned, retryOn, pc, path)'
    BY <2>2, <2>3 DEF ConfInv
  <2>6. Extends(dst, dst')
    BY <2>3 DEF Extends
  <2> QED
    BY <2>3, <2>4, <2>5, <2>6 DEF ConfInv
<1> QED
  BY <1>1, <1>2, <1>3, <1>4, <1>5, <1>6, <1>7, <1>8, <1>9, <1>10, <1>11, <1>12
     DEF Next

(***************************************************************************)
(* The invariant: the result holds what the steps taken so far wrote, each *)
(* value being one the new schema takes or one a warning names, and every  *)
(* field that was marked used is accounted for (confMapper, legacyconf.go).*)
(***************************************************************************)
THEOREM ConfInvariant == Spec => []ConfInv
<1>1. Init => ConfInv
  BY ConfInit
<1>2. ConfInv /\ [Next]_vars => ConfInv'
  BY ConfStep
<1> QED
  BY <1>1, <1>2, PTL DEF Spec

(***************************************************************************)
(* No move replaces what an earlier one wrote, whatever the conf: two      *)
(* legacy fields that share a new one (convertTimeoutConf) never lose the  *)
(* first in silence.                                                       *)
(***************************************************************************)
THEOREM ResultsAreNeverOverwritten == Spec => NeverOverwritten
<1>1. ConfInv /\ [Next]_vars =>
        [\A p \in DOMAIN dst : p \in DOMAIN dst' /\ dst'[p] = dst[p]]_dst
  BY ConfStep DEF Extends
<1> QED
  BY <1>1, ConfInvariant, PTL DEF Spec, NeverOverwritten

(***************************************************************************)
(* Every item of every field of the legacy conf stands in the new section  *)
(* or is named in a warning when the converter is done, except a gRPC      *)
(* timeout beside an http one (warnUnmapped and each converter).           *)
(***************************************************************************)
THEOREM ConfDropsAreNamed == Spec => []DropsAreNamed
<1>1. ConfInv => DropsAreNamed
  <2> SUFFICES ASSUME ConfInv, Done, NEW p \in DOMAIN conf, NEW item \in Range(conf[p])
               PROVE  SupersededGrpc(p) \/ NamedOrKept(p, item)
    BY DEF DropsAreNamed
  <2>1. p \in used \/ <<p, "*">> \in warned
    BY DEF ConfInv, Done
  <2>2. CASE <<p, "*">> \in warned
    BY <2>2 DEF NamedOrKept
  <2>3. CASE p \in used
    <3>1. AccountedIn(dst, warned, retryOn, pc, p)
      BY <2>3 DEF ConfInv
    <3>2. ~Waits(retryOn, pc, item)
      BY StepsTabled DEF Waits, Done, ConfInv, Tabled
    <3>3. KeptIn(dst, warned, p, item) => NamedOrKept(p, item)
      BY StandsMeans DEF KeptIn, NamedOrKept
    <3> QED
      BY <3>1, <3>2, <3>3 DEF AccountedIn
  <2> QED
    BY <2>1, <2>2, <2>3
<1> QED
  BY <1>1, ConfInvariant, PTL

\* A path written by a step of another kind than move has one writer.
LEMMA OneWriter ==
  ASSUME NEW conv, Apart(conv), DOMAIN conv \subseteq Nat,
         NEW i \in DOMAIN conv, NEW j \in DOMAIN conv, NEW p,
         p \in Writes(conv[i]), p \in Writes(conv[j]),
         conv[i].op \in {"percent", "headers"}
  PROVE  conv[j] = conv[i]
<1>1. i = j \/ i < j \/ j < i
  OBVIOUS
<1>2. ~(i < j) /\ ~(j < i)
  BY DEF Apart
<1> QED
  BY <1>1, <1>2

(***************************************************************************)
(* What the result holds is what the schema of the new policy takes, and   *)
(* an exception is named in a warning, whatever the conf (the converters   *)
(* of legacyconf.go).                                                      *)
(***************************************************************************)
THEOREM ConfIsAcceptedOrNamed == Spec => []AcceptedOrNamed
<1>1. ConfInv => AcceptedOrNamed
  <2> SUFFICES ASSUME ConfInv, Done, NEW p \in DOMAIN dst
               PROVE
    /\ kind = "Retry" /\ p = "http.retryOn" =>
         /\ Range(dst[p]) \subseteq newHTTPRetryOn
         /\ IsInjective(dst[p])
    /\ kind = "Retry" /\ p = "grpc.retryOn" =>
         Range(dst[p]) \subseteq Range(legacyGrpcRetryOn)
    /\ p \in PercentFields => dst[p][1] \notin Fractions
    /\ p \in HeaderFields => \A i \in DOMAIN dst[p] :
         \E h \in DOMAIN Header :
            /\ Header[h].lower = dst[p][i]
            /\ Header[h].valid \/ WarnedAbout({h})
    /\ kind = "FaultInjection" /\ p = "responseBandwidth.limit" =>
         \/ dst[p][2] \in {"Gbps", "Mbps", "kbps"}
         \/ <<p, "*">> \in warned
    /\ p = "appendModifications" => \A i \in DOMAIN dst[p] :
         \/ OperationAccepted(dst[p][i][1], dst[p][i][2])
         \/ WarnedAbout({conf["modifications"][i]})
    BY Zenon DEF AcceptedOrNamed
  <2>1. PICK i \in DOMAIN Steps :
          i < pc /\ p \in Writes(Steps[i]) /\ Takes(Steps[i], dst[p], warned)
    BY Zenon DEF ConfInv, MadeBefore
  <2>2. Apart(Steps) /\ Named(kind, Steps) /\ DOMAIN Steps \subseteq Nat
    BY StepsTabled DEF ConfInv, Tabled
  <2> DEFINE step == Steps[i]
  <2>3. \A j \in DOMAIN Steps :
          p \in Writes(Steps[j]) /\ Steps[j].op \in {"percent", "headers"} =>
            step = Steps[j]
    BY <2>1, <2>2, OneWriter
  <2>4. ASSUME kind = "Retry", p = "http.retryOn"
        PROVE  Range(dst[p]) \subseteq newHTTPRetryOn /\ IsInjective(dst[p])
    <3>1. step.op = "setRetryOn"
      BY <2>1, <2>2, <2>4, Zenon DEF Named
    <3> QED
      BY <2>1, <3>1 DEF Takes
  <2>5. ASSUME kind = "Retry", p = "grpc.retryOn"
        PROVE  Range(dst[p]) \subseteq Range(legacyGrpcRetryOn)
    <3>1. step.op = "grpcRetryOn"
      BY <2>1, <2>2, <2>5, Zenon DEF Named
    <3> QED
      BY <2>1, <3>1 DEF Takes
  <2>6. ASSUME p \in PercentFields
        PROVE  dst[p][1] \notin Fractions
    <3>1. PICK j \in DOMAIN Steps : Steps[j].op = "percent" /\ Steps[j].to = p
      BY <2>6 DEF PercentFields
    <3>2. p \in Writes(Steps[j])
      BY <3>1 DEF Writes, Collectors
    <3>3. step.op = "percent"
      BY <2>3, <3>1, <3>2
    <3> QED
      BY <2>1, <3>3 DEF Takes
  <2>7. ASSUME p \in HeaderFields, NEW k \in DOMAIN dst[p]
        PROVE  \E h \in DOMAIN Header :
                 /\ Header[h].lower = dst[p][k]
                 /\ Header[h].valid \/ WarnedAbout({h})
    <3>1. PICK j \in DOMAIN Steps :
            Steps[j].op = "headers" /\ p \in {Steps[j].add, Steps[j].set}
      BY <2>7 DEF HeaderFields
    <3>2. p \in Writes(Steps[j])
      BY <3>1 DEF Writes, Collectors
    <3>3. step.op = "headers"
      BY <2>3, <3>1, <3>2
    <3>4. PICK h \in DOMAIN Header :
            /\ Header[h].lower = dst[p][k]
            /\ Header[h].valid \/ \E w \in warned : w[2] = h
      BY <2>1, <2>7, <3>3, Zenon DEF Takes
    <3> QED
      BY <3>4 DEF WarnedAbout
  <2>8. ASSUME kind = "FaultInjection", p = "responseBandwidth.limit"
        PROVE  dst[p][2] \in {"Gbps", "Mbps", "kbps"} \/ <<p, "*">> \in warned
    <3>1. step.op = "bandwidth" /\ step.from = p
      BY <2>1, <2>2, <2>8, Zenon DEF Named
    <3> QED
      BY <2>1, <3>1 DEF Takes
  <2>9. ASSUME p = "appendModifications", NEW k \in DOMAIN dst[p]
        PROVE  \/ OperationAccepted(dst[p][k][1], dst[p][k][2])
               \/ WarnedAbout({conf["modifications"][k]})
    <3>1. step.op = "modifications" /\ step.from = "modifications"
      BY <2>1, <2>2, <2>9, Zenon DEF Named
    <3>2. \/ OperationAccepted(dst[p][k][1], dst[p][k][2])
          \/ \E w \in warned : w[2] = conf["modifications"][k]
      <4>1. \/ OperationAccepted(dst[p][k][1], dst[p][k][2])
            \/ \E w \in warned : w[2] = conf[step.from][k]
        <5> HIDE DEF step
        <5> QED
          BY <2>1, <2>9, <3>1, Zenon DEF Takes, step
      <4> QED
        BY <3>1, <4>1
    <3> QED
      BY <3>2 DEF WarnedAbout
  <2> HIDE DEF step
  <2> QED
    BY <2>4, <2>5, <2>6, <2>7, <2>8, <2>9, Zenon
<1> QED
  BY <1>1, ConfInvariant, PTL

=============================================================================

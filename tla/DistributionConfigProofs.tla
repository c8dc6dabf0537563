----------------------- MODULE DistributionConfigProofs -----------------------
(***************************************************************************)
(* What generateDistributionConfig makes of a class that can be served     *)
(* agrees with itself.  Check() takes it for what CloudFront has only if   *)
(* every field asked for is in effect there, and, as it sorts first,       *)
(* always if that means the same.                                          *)
(***************************************************************************)
EXTENDS DistributionConfig, FiniteSetTheorems, SequenceTheorems, WellFoundedInduction, TLAPS

-----------------------------------------------------------------------------
(* What sorting does, on lists of any length.                               *)

Ascending(o) == \A j, k \in DOMAIN o : j < k => o[j] <= o[k]

\* Every set of numbers has a least one.
LEMMA Least ==
    ASSUME NEW T \in SUBSET Nat, T # {}
    PROVE  \E m \in T : \A k \in T : m <= k
<1>1. PICK m \in T : \A k \in T : <<k, m>> \notin OpToRel(<, Nat)
  BY NatLessThanWellFounded, WFMin
<1>2. \A k \in T : ~(k < m)
  BY <1>1 DEF OpToRel
<1> QED
  BY <1>2

\* A list in another order has the same length and the same members.
LEMMA OrderFacts ==
    ASSUME NEW l \in Seq(Nat), NEW o \in Orders(l)
    PROVE  /\ o \in Seq(Nat) /\ DOMAIN o = DOMAIN l
           /\ ToSet(o) = ToSet(l)
           /\ IsInjective(l) => IsInjective(o)
<1>1. PICK p \in Bijection(DOMAIN l, DOMAIN l) : o = [k \in DOMAIN l |-> l[p[k]]]
  BY DEF Orders
<1>2. /\ p \in [DOMAIN l -> DOMAIN l]
      /\ \A j, k \in DOMAIN l : p[j] = p[k] => j = k
      /\ \A k \in DOMAIN l : \E j \in DOMAIN l : p[j] = k
  BY <1>1 DEF Bijection, Injection, Surjection, IsInjective
<1>3. DOMAIN l = 1..Len(l) /\ Len(l) \in Nat /\ \A k \in DOMAIN l : l[k] \in Nat
  BY LenProperties, ElementOfSeq
<1>4. o \in [1..Len(l) -> Nat]
  BY <1>1, <1>2, <1>3
<1>5. o \in Seq(Nat)
  BY <1>3, <1>4, SeqDef
<1>6. DOMAIN o = DOMAIN l /\ \A k \in DOMAIN l : o[k] = l[p[k]]
  BY <1>1
<1>7. ToSet(o) = ToSet(l)
  BY <1>2, <1>6 DEF ToSet
<1>8. IsInjective(l) => IsInjective(o)
  BY <1>2, <1>6 DEF IsInjective
<1> QED
  BY <1>5, <1>6, <1>7, <1>8

\* A place is found for every member by counting those that come before it.
LEMMA SortExists ==
    ASSUME NEW l \in Seq(Nat)
    PROVE  \E o \in Orders(l) : \A j, k \in DOMAIN l : j < k => o[j] <= o[k]
<1> DEFINE D == DOMAIN l
           Before(j, i) == l[j] < l[i] \/ (l[j] = l[i] /\ j <= i)
           Down(i) == {j \in D : Before(j, i)}
           rank == [i \in D |-> Cardinality(Down(i))]
           p == [k \in D |-> CHOOSE i \in D : rank[i] = k]
<1>1. D = 1..Len(l) /\ Len(l) \in Nat /\ \A k \in D : l[k] \in Nat
  BY LenProperties, ElementOfSeq
<1>2. IsFiniteSet(D) /\ Cardinality(D) = Len(l)
  <2>1. /\ IsFiniteSet(1..Len(l))
        /\ Cardinality(1..Len(l)) = IF 1 > Len(l) THEN 0 ELSE Len(l) - 1 + 1
    BY <1>1, FS_Interval
  <2>2. (IF 1 > Len(l) THEN 0 ELSE Len(l) - 1 + 1) = Len(l)
    BY <1>1
  <2> QED
    BY <1>1, <2>1, <2>2
<1>3. \A i \in D : IsFiniteSet(Down(i)) /\ rank[i] \in D
  <2> SUFFICES ASSUME NEW i \in D PROVE IsFiniteSet(Down(i)) /\ rank[i] \in D
    OBVIOUS
  <2>1. Down(i) \in SUBSET D /\ i \in Down(i)
    BY <1>1
  <2>2. IsFiniteSet(Down(i)) /\ Cardinality(Down(i)) <= Len(l) /\ Cardinality(Down(i)) \in Nat
    BY <1>2, <2>1, FS_Subset, FS_CardinalityType
  <2>3. Cardinality(Down(i)) # 0
    BY <2>1, <2>2, FS_EmptySet
  <2> QED
    BY <1>1, <2>2, <2>3
<1>4. ASSUME NEW i \in D, NEW k \in D, i # k, Before(i, k)
      PROVE  rank[i] < rank[k]
  <2>1. Down(i) \in SUBSET Down(k) /\ k \in Down(k) /\ k \notin Down(i)
    BY <1>1, <1>4
  <2>2. /\ Cardinality(Down(i)) <= Cardinality(Down(k))
        /\ Cardinality(Down(i)) # Cardinality(Down(k))
    BY <1>3, <2>1, FS_Subset
  <2>3. Cardinality(Down(i)) \in Nat /\ Cardinality(Down(k)) \in Nat
    BY <1>3, FS_CardinalityType
  <2> QED
    BY <2>2, <2>3
<1>5. \A i, k \in D : i # k => Before(i, k) \/ Before(k, i)
  BY <1>1
<1>6. rank \in [D -> D] /\ \A i, k \in D : rank[i] = rank[k] => i = k
  <2>1. rank \in [D -> D]
    BY <1>3
  <2> HIDE DEF rank
  <2>2. \A i \in D : rank[i] \in Nat
    BY <1>1, <2>1
  <2> HIDE DEF D, Before
  <2> QED
    BY <1>4, <1>5, <2>1, <2>2
<1> HIDE DEF rank
<1>7. \A k \in D : \E i \in D : rank[i] = k
  <2>1. rank \in Injection(D, D)
    BY <1>6 DEF Injection, IsInjective
  <2>2. rank \in Surjection(D, D)
    BY <1>2, <2>1, FS_Injection
  <2> QED
    BY <2>2 DEF Surjection
<1>8. \A k \in D : p[k] \in D /\ rank[p[k]] = k
  BY <1>7
<1>9. p \in Bijection(D, D)
  <2>1. p \in [D -> D] /\ \A j, k \in D : p[j] = p[k] => j = k
    BY <1>8
  <2>2. \A i \in D : p[rank[i]] = i
    BY <1>6, <1>8
  <2> HIDE DEF p
  <2> QED
    BY <1>6, <2>1, <2>2 DEF Bijection, Injection, Surjection, IsInjective
<1> HIDE DEF p
<1>10. ASSUME NEW j \in D, NEW k \in D, j < k PROVE l[p[j]] <= l[p[k]]
  <2>1. /\ j \in Nat /\ k \in Nat /\ p[j] \in D /\ p[k] \in D
        /\ rank[p[j]] = j /\ rank[p[k]] = k
    BY <1>1, <1>8
  <2>2. p[j] # p[k] /\ ~(rank[p[k]] < rank[p[j]])
    BY <1>10, <2>1
  <2>3. Before(p[j], p[k])
    <3> HIDE DEF D, Before
    <3> QED
      BY <1>4, <1>5, <2>1, <2>2
  <2>4. l[p[j]] \in Nat /\ l[p[k]] \in Nat
    BY <1>1, <2>1
  <2> QED
    BY <2>3, <2>4
<1> DEFINE o == [k \in D |-> l[p[k]]]
<1>11. o \in Orders(l)
  BY <1>9 DEF Orders
<1>12. \A j, k \in D : j < k => o[j] <= o[k]
  BY <1>10
<1> QED
  BY <1>11, <1>12

\* Sorting a list puts its members in order, and changes nothing else.
LEMMA SortedFacts ==
    ASSUME NEW l \in Seq(Nat)
    PROVE  /\ Sorted(l) \in Seq(Nat)
           /\ ToSet(Sorted(l)) = ToSet(l)
           /\ Ascending(Sorted(l))
           /\ IsInjective(l) => IsInjective(Sorted(l))
<1>1. Sorted(l) \in Orders(l) /\ \A j, k \in DOMAIN l : j < k => Sorted(l)[j] <= Sorted(l)[k]
  BY SortExists DEF Sorted
<1> QED
  BY <1>1, OrderFacts DEF Ascending

\* Two sorted lists without repetition that have the same members are the same.
LEMMA SameSorted ==
    ASSUME NEW x \in Seq(Nat), NEW y \in Seq(Nat), Ascending(x), Ascending(y),
           IsInjective(x), IsInjective(y), ToSet(x) = ToSet(y)
    PROVE  x = y
<1>1. /\ DOMAIN x = 1..Len(x) /\ Len(x) \in Nat /\ \A k \in DOMAIN x : x[k] \in Nat
      /\ DOMAIN y = 1..Len(y) /\ Len(y) \in Nat /\ \A k \in DOMAIN y : y[k] \in Nat
  BY LenProperties, ElementOfSeq
<1>2. /\ \A j, k \in DOMAIN x : j < k => x[j] < x[k]
      /\ \A j, k \in DOMAIN y : j < k => y[j] < y[k]
  <2>1. ASSUME NEW j \in DOMAIN x, NEW k \in DOMAIN x, j < k PROVE x[j] < x[k]
    <3>1. x[j] <= x[k] /\ x[j] # x[k]
      BY <1>1, <2>1 DEF Ascending, IsInjective
    <3> QED
      BY <1>1, <3>1
  <2>2. ASSUME NEW j \in DOMAIN y, NEW k \in DOMAIN y, j < k PROVE y[j] < y[k]
    <3>1. y[j] <= y[k] /\ y[j] # y[k]
      BY <1>1, <2>2 DEF Ascending, IsInjective
    <3> QED
      BY <1>1, <3>1
  <2> QED
    BY <2>1, <2>2
<1>3. /\ \A k \in DOMAIN x : \E j \in DOMAIN y : y[j] = x[k]
      /\ \A k \in DOMAIN y : \E j \in DOMAIN x : x[j] = y[k]
  BY DEF ToSet
<1>4. \A k \in DOMAIN x \cap DOMAIN y : x[k] = y[k]
  <2> DEFINE Differ == {k \in DOMAIN x \cap DOMAIN y : x[k] # y[k]}
  <2> SUFFICES ASSUME Differ # {} PROVE FALSE
    OBVIOUS
  <2>1. Differ \in SUBSET Nat
    BY <1>1
  <2>2. PICK k \in Differ : \A j \in Differ : k <= j
    BY <2>1, Least
  <2>3. /\ k \in DOMAIN x /\ k \in DOMAIN y /\ x[k] # y[k] /\ k \in Nat
        /\ \A j \in DOMAIN x \cap DOMAIN y : j < k => x[j] = y[j]
    BY <1>1, <2>2
  <2> HIDE DEF Differ
  <2>4. PICK i \in DOMAIN y : y[i] = x[k]
    BY <1>3, <2>3
  <2>5. PICK j \in DOMAIN x : x[j] = y[k]
    BY <1>3, <2>3
  <2>6. x[k] \in Nat /\ y[k] \in Nat /\ i \in Nat /\ j \in Nat
    BY <1>1, <2>3
  <2>7. ~(i < k)
    <3> SUFFICES ASSUME i < k PROVE FALSE
      OBVIOUS
    <3>1. i \in DOMAIN x
      BY <1>1, <2>3
    <3>2. x[i] = x[k] /\ x[i] < x[k]
      BY <1>2, <2>3, <2>4, <3>1
    <3> QED
      BY <2>6, <3>2
  <2>8. ~(j < k)
    <3> SUFFICES ASSUME j < k PROVE FALSE
      OBVIOUS
    <3>1. j \in DOMAIN y
      BY <1>1, <2>3
    <3>2. y[j] = y[k] /\ y[j] < y[k]
      BY <1>2, <2>3, <2>5, <3>1
    <3> QED
      BY <2>6, <3>2
  <2>9. i # k /\ j # k
    BY <2>3, <2>4, <2>5
  <2>10. k < i /\ k < j
    BY <2>3, <2>6, <2>7, <2>8, <2>9
  <2>11. y[k] < x[k] /\ x[k] < y[k]
    BY <1>2, <2>3, <2>4, <2>5, <2>10
  <2> QED
    BY <2>6, <2>11
<1>5. DOMAIN x = DOMAIN y
  <2>1. ASSUME Len(x) < Len(y) PROVE FALSE
    <3>1. Len(y) \in DOMAIN y /\ Len(y) \notin DOMAIN x
      BY <1>1, <2>1
    <3>2. PICK j \in DOMAIN x : x[j] = y[Len(y)]
      BY <1>3, <3>1
    <3>3. j \in DOMAIN y /\ y[j] = y[Len(y)] /\ j # Len(y)
      BY <1>1, <1>4, <2>1, <3>1, <3>2
    <3> QED
      BY <3>1, <3>3 DEF IsInjective
  <2>2. ASSUME Len(y) < Len(x) PROVE FALSE
    <3>1. Len(x) \in DOMAIN x /\ Len(x) \notin DOMAIN y
      BY <1>1, <2>2
    <3>2. PICK j \in DOMAIN y : y[j] = x[Len(x)]
      BY <1>3, <3>1
    <3>3. j \in DOMAIN x /\ x[j] = x[Len(x)] /\ j # Len(x)
      BY <1>1, <1>4, <2>2, <3>1, <3>2
    <3> QED
      BY <3>1, <3>3 DEF IsInjective
  <2>3. ~(Len(x) < Len(y)) /\ ~(Len(y) < Len(x))
    BY <2>1, <2>2
  <2>4. Len(x) \in Nat /\ Len(y) \in Nat
    BY <1>1
  <2>5. Len(x) = Len(y)
    BY <2>3, <2>4
  <2> QED
    BY <1>1, <2>5
<1>6. x \in [DOMAIN x -> Nat] /\ y \in [DOMAIN x -> Nat]
  <2>1. x \in [1..Len(x) -> Nat] /\ y \in [1..Len(y) -> Nat]
    BY LenProperties
  <2> QED
    BY <1>1, <1>5, <2>1
<1> QED
  BY <1>4, <1>5, <1>6

-----------------------------------------------------------------------------
(* What is made of a class.                                                 *)

\* HEAD and GET with n times OPTIONS appended.
LEMMA Appended ==
    ASSUME NEW n \in Nat
    PROVE  ToSet(<<"HEAD", "GET">> \o [k \in 1..n |-> "OPTIONS"])
             = IF n = 0 THEN {"HEAD", "GET"} ELSE {"HEAD", "GET", "OPTIONS"}
<1> DEFINE Word == {"HEAD", "GET", "OPTIONS"}
           two  == <<"HEAD", "GET">>
           rest == [k \in 1..n |-> "OPTIONS"]
           all  == two \o rest
<1>1. two \in Seq(Word) /\ Len(two) = 2
  OBVIOUS
<1>2. rest \in [1..n -> Word]
  OBVIOUS
<1>3. rest \in Seq(Word) /\ Len(rest) = n
  <2>1. rest \in Seq(Word)
    BY <1>2, SeqDef
  <2> QED
    BY <1>2, <2>1, LenProperties
<1>4. /\ all \in Seq(Word) /\ Len(all) = n + 2
      /\ \A k \in 1..n + 2 : all[k] = IF k <= 2 THEN two[k] ELSE rest[k - 2]
  <2> HIDE DEF two, rest, Word
  <2>1. /\ all \in Seq(Word) /\ Len(all) = Len(two) + Len(rest)
        /\ \A k \in 1..Len(two) + Len(rest) :
             all[k] = IF k <= Len(two) THEN two[k] ELSE rest[k - Len(two)]
    BY <1>1, <1>3, ConcatProperties
  <2>2. Len(two) + Len(rest) = n + 2
    BY <1>1, <1>3
  <2> HIDE DEF all
  <2> QED
    BY <1>1, <2>1, <2>2
<1>5. DOMAIN all = 1..n + 2
  <2> HIDE DEF all
  <2> QED
    BY <1>4, LenProperties
<1>6. all[1] = "HEAD" /\ all[2] = "GET" /\ \A k \in 3..n + 2 : all[k] = "OPTIONS"
  <2>1. two[1] = "HEAD" /\ two[2] = "GET" /\ \A k \in 1..n : rest[k] = "OPTIONS"
    OBVIOUS
  <2> HIDE DEF two, rest, all
  <2> QED
    BY <1>4, <2>1
<1> HIDE DEF all
<1>7. CASE n = 0
  <2>1. ToSet(all) = {all[1], all[2]}
    BY <1>5, <1>7 DEF ToSet
  <2> QED
    BY <1>6, <1>7, <2>1 DEF all
<1>8. CASE n # 0
  <2>1. 3 \in DOMAIN all /\ \A k \in DOMAIN all : k = 1 \/ k = 2 \/ k \in 3..n + 2
    BY <1>5, <1>8
  <2>2. ToSet(all) = {"HEAD", "GET", "OPTIONS"}
    BY <1>5, <1>6, <2>1 DEF ToSet
  <2> QED
    BY <1>8, <2>2 DEF all
<1> QED
  BY <1>7, <1>8

Listed(c) == {k \in DOMAIN c.methods : c.methods[k] = "OPTIONS"}

\* How often OPTIONS is appended is how often it is listed: at most once, if nothing is
\* listed twice.
LEMMA OptionsListed ==
    ASSUME NEW c \in CloudFrontSpec
    PROVE  /\ Cardinality(Listed(c)) \in Nat
           /\ Cardinality(Listed(c)) = 0 <=> "OPTIONS" \notin ToSet(c.methods)
           /\ IsInjective(c.methods) => Cardinality(Listed(c)) <= 1
<1>1. DOMAIN c.methods = 1..Len(c.methods) /\ Len(c.methods) \in Int
  <2>1. c.methods \in Seq(STRING)
    BY ListAssumption DEF CloudFrontSpec
  <2> QED
    BY <2>1
<1>2. IsFiniteSet(DOMAIN c.methods)
  BY <1>1, FS_Interval
<1>3. IsFiniteSet(Listed(c)) /\ Cardinality(Listed(c)) \in Nat
  <2>1. Listed(c) \in SUBSET DOMAIN c.methods
    BY DEF Listed
  <2> QED
    BY <1>2, <2>1, FS_Subset, FS_CardinalityType
<1>4. Cardinality(Listed(c)) = 0 <=> Listed(c) = {}
  BY <1>3, FS_EmptySet
<1>5. Listed(c) = {} <=> "OPTIONS" \notin ToSet(c.methods)
  BY DEF Listed, ToSet
<1>6. ASSUME IsInjective(c.methods), Listed(c) # {} PROVE Cardinality(Listed(c)) = 1
  <2>1. PICK k \in Listed(c) : Listed(c) = {k}
    BY <1>6 DEF Listed, IsInjective
  <2> QED
    BY <2>1, FS_Singleton
<1> QED
  BY <1>3, <1>4, <1>5, <1>6

\* calculateMethods ends in one of CloudFront's three sets, the smallest that will do.
LEMMA MethodFacts ==
    ASSUME NEW c \in CloudFrontSpec
    PROVE  LET m == Methods(c) IN
           IF ToSet(c.methods) \cap Unsafe # {}
           THEN /\ ToSet(m.allowed) = {"HEAD", "GET", "OPTIONS", "POST", "PUT", "DELETE"}
                /\ ToSet(m.cached) = {"HEAD", "GET", "OPTIONS"}
           ELSE /\ ToSet(m.allowed) = IF "OPTIONS" \in ToSet(c.methods)
                                      THEN {"HEAD", "GET", "OPTIONS"} ELSE {"HEAD", "GET"}
                /\ ToSet(m.cached) = ToSet(m.allowed)
<1>1. CASE ToSet(c.methods) \cap Unsafe # {}
  <2>1. /\ Methods(c).allowed = <<"HEAD", "GET", "OPTIONS", "POST", "PUT", "DELETE">>
        /\ Methods(c).cached = <<"HEAD", "GET", "OPTIONS">>
    BY <1>1 DEF Methods
  <2>2. ToSet(Methods(c).allowed) = {"HEAD", "GET", "OPTIONS", "POST", "PUT", "DELETE"}
    BY <2>1 DEF ToSet
  <2>3. ToSet(Methods(c).cached) = {"HEAD", "GET", "OPTIONS"}
    BY <2>1 DEF ToSet
  <2> QED
    BY <1>1, <2>2, <2>3
<1>2. CASE ToSet(c.methods) \cap Unsafe = {}
  <2> DEFINE n    == Cardinality(Listed(c))
             some == <<"HEAD", "GET">> \o [k \in 1..n |-> "OPTIONS"]
  <2>1. Methods(c).allowed = some /\ Methods(c).cached = some
    BY <1>2 DEF Methods, Listed
  <2>2. ToSet(some) = IF n = 0 THEN {"HEAD", "GET"} ELSE {"HEAD", "GET", "OPTIONS"}
    <3> HIDE DEF n
    <3>1. n \in Nat
      BY OptionsListed DEF n
    <3> QED
      BY <3>1, Appended
  <2> HIDE DEF some
  <2> QED
    BY <1>2, <2>1, <2>2, OptionsListed
<1> QED
  BY <1>1, <1>2

\* From lists that name nothing twice come lists of methods that differ only if their
\* sets do.
LEMMA SameMethods ==
    ASSUME NEW c \in CloudFrontSpec, NEW e \in CloudFrontSpec,
           IsInjective(c.methods), IsInjective(e.methods),
           ToSet(Methods(c).allowed) = ToSet(Methods(e).allowed)
    PROVE  Methods(c) = Methods(e)
<1>1. /\ ToSet(c.methods) \cap Unsafe # {} <=> ToSet(e.methods) \cap Unsafe # {}
      /\ ToSet(c.methods) \cap Unsafe = {} =>
           ("OPTIONS" \in ToSet(c.methods) <=> "OPTIONS" \in ToSet(e.methods))
  BY MethodFacts
<1>2. ToSet(c.methods) \cap Unsafe = {} => Cardinality(Listed(c)) = Cardinality(Listed(e))
  BY <1>1, OptionsListed
<1> QED
  BY <1>1, <1>2 DEF Methods, Listed

\* A configuration made from a class that can be served is taken.
LEMMA Generated ==
    ASSUME NEW s, NEW c \in CloudFrontSpec, NEW a, Servable(c)
    PROVE  Acceptable(Generate(s, c, a))
<1>1. (c.cachePolicyId # None) # (ForwardedValues(c) # None)
  BY NoneAssumption DEF ForwardedValues
<1>2. (c.cachePolicyId # None) # (TTLs(c) # None)
  BY NoneAssumption DEF TTLs
<1>3. ViewerCertificate(c, a).support \in SupportMethods
  BY DEF ViewerCertificate, Servable
<1> QED
  BY <1>1, <1>2, <1>3 DEF Acceptable, Servable, Generate

-----------------------------------------------------------------------------
(* At rest, what is asked for is in effect.                                 *)

\* What is sent is a configuration, and so is what comes back.
ConfigTypes ==
    /\ spec \in DistributionSpec /\ class \in CloudFrontSpec /\ arn \in Arns
    /\ hosted \in Configuration \cup {None}
    /\ pass \in Pass \cup {None}

\* A pass has what AWS holds; unless it is to be repeated, it wants what is asked now, or
\* has found it in place.
ComparesNewest ==
    /\ pass # None => pass.seen = IF hosted = None THEN None ELSE InOrder(hosted)
    /\ ~awake => IF pass # None THEN pass.want = Generate(spec, class, arn)
                                ELSE /\ hosted # None
                                     /\ InOrder(hosted) = Generate(spec, class, arn)

ConfigInv == ConfigTypes /\ ComparesNewest

\* What is generated is a configuration.
LEMMA GeneratedType ==
    ASSUME NEW s \in DistributionSpec, NEW c \in CloudFrontSpec, NEW a \in Arns
    PROVE  Generate(s, c, a) \in Configuration
<1>1. Aliases(s) \in Seq(Nat)
  <2>1. s.hosts \in Seq(Nat)
    BY ListAssumption DEF DistributionSpec
  <2> QED
    BY <2>1, SortedFacts DEF Aliases
<1>2. s.origin \in Origins /\ ViewerPolicy(s) \in {ViewerPolicy(t) : t \in DistributionSpec}
  BY DEF DistributionSpec
<1>3. /\ ViewerCertificate(c, a) \in {ViewerCertificate(e, b) : e \in CloudFrontSpec, b \in Arns}
      /\ Methods(c) \in {Methods(e) : e \in CloudFrontSpec}
  OBVIOUS
<1>4. /\ c.cachePolicyId \in CacheIds \cup {None}
      /\ c.originRequestPolicyId \in RequestIds \cup {None}
  BY DEF CloudFrontSpec
<1>5. ForwardedValues(c) \in {ForwardHost, None} /\ TTLs(c) \in {DefaultTTLs, None}
  BY DEF ForwardedValues, TTLs
<1> QED
  BY <1>1, <1>2, <1>3, <1>4, <1>5 DEF Generate, Configuration

\* A configuration has a list of hosts.
LEMMA HostsType ==
    ASSUME NEW config \in Configuration
    PROVE  config.aliases \in Seq(Nat)
BY DEF Configuration

\* With another list it still is one.
LEMMA Reordered ==
    ASSUME NEW config \in Configuration, NEW o \in Seq(Nat)
    PROVE  /\ [config EXCEPT !.aliases = o] \in Configuration
           /\ [config EXCEPT !.aliases = o].aliases = o
<1> DEFINE Certificates == {ViewerCertificate(c, a) : c \in CloudFrontSpec, a \in Arns}
           Policies == {ViewerPolicy(s) : s \in DistributionSpec}
           Lists == {Methods(c) : c \in CloudFrontSpec}
           all == [origin : Origins, aliases : Seq(Nat), viewerCertificate : Certificates,
                   viewerProtocolPolicy : Policies, cachePolicyId : CacheIds \cup {None},
                   originRequestPolicyId : RequestIds \cup {None},
                   forwardedValues : {ForwardHost, None}, ttls : {DefaultTTLs, None},
                   methods : Lists]
<1>1. Configuration = all
  BY DEF Configuration
<1> HIDE DEF Certificates, Policies, Lists
<1>2. ASSUME NEW r \in all
      PROVE  /\ [r EXCEPT !.aliases = o] \in all
             /\ [r EXCEPT !.aliases = o].aliases = o
  OBVIOUS
<1> HIDE DEF all
<1> QED
  BY <1>1, <1>2

\* Sorting what AWS lists keeps it a configuration.
LEMMA InOrderFacts ==
    ASSUME NEW config \in Configuration
    PROVE  /\ InOrder(config) \in Configuration
           /\ InOrder(config).aliases = Sorted(config.aliases)
           /\ ToSet(InOrder(config).aliases) = ToSet(config.aliases)
<1>1. config.aliases \in Seq(Nat) /\ Sorted(config.aliases) \in Seq(Nat)
  BY SortedFacts DEF Configuration
<1> QED
  BY <1>1, SortedFacts, Reordered DEF InOrder

\* Every step keeps what a comparison rests on.
LEMMA ConfigStep ==
    ASSUME ConfigInv, Next
    PROVE  ConfigInv'
<1> USE DEF ConfigInv, ConfigTypes, ComparesNewest
<1>1. CASE EditSpec \/ EditClass \/ Reimport
  BY <1>1 DEF EditSpec, EditClass, Reimport, Edit, InOrder
<1>2. CASE Load
  <2>1. Generate(spec, class, arn) \in Configuration
    BY GeneratedType
  <2>2. hosted # None => InOrder(hosted) \in Configuration
    BY InOrderFacts
  <2>3. /\ pass' = [seen |-> IF hosted = None THEN None ELSE InOrder(hosted),
                    want |-> Generate(spec, class, arn)]
        /\ ~awake' /\ UNCHANGED <<spec, class, arn, hosted>>
    BY <1>2 DEF Load
  <2>4. pass' \in Pass
    BY <2>1, <2>2, <2>3 DEF Pass
  <2>5. pass' # None
    BY <2>4, NoneAssumption
  <2>6. Generate(spec, class, arn)' = Generate(spec, class, arn)
    BY <2>3
  <2> QED
    BY <2>3, <2>4, <2>5, <2>6
<1>3. CASE Rest
  <2>1. /\ pass # None /\ pass.seen = pass.want /\ pass' = None
        /\ UNCHANGED <<spec, class, arn, hosted, awake>>
    BY <1>3 DEF Rest, DeepEqual
  <2>2. pass.want # None
    BY <2>1, NoneAssumption DEF Pass
  <2> QED
    BY <2>1, <2>2
<1>4. CASE Put
  <2>1. /\ pass # None /\ pass' = None /\ awake'
        /\ UNCHANGED <<spec, class, arn>>
        /\ hosted' \in Stored(pass.want) \cup {hosted}
    BY <1>4 DEF Put
  <2>2. pass.want \in Configuration
    BY <2>1 DEF Pass
  <2>3. Stored(pass.want) \subseteq Configuration
    <3>1. pass.want.aliases \in Seq(Nat)
      BY <2>2 DEF Configuration
    <3>2. \A o \in Orders(pass.want.aliases) : o \in Seq(Nat)
      BY <3>1, OrderFacts
    <3> QED
      BY <2>2, <3>2, Reordered DEF Stored
  <2> QED
    BY <2>1, <2>3
<1> QED
  BY <1>1, <1>2, <1>3, <1>4 DEF Next

\* What was compared with the newest spec, class and certificate, and found equal, does
\* what they ask.
LEMMA EqualInEffect ==
    ASSUME NEW s \in DistributionSpec, NEW c \in CloudFrontSpec, NEW a \in Arns,
           NEW config \in Configuration, InOrder(config) = Generate(s, c, a)
    PROVE  InEffect(config, s, c, a)
<1>1. ToSet(config.aliases) = ToSet(s.hosts)
  <2>1. s.hosts \in Seq(Nat)
    BY ListAssumption DEF DistributionSpec
  <2>2. ToSet(config.aliases) = ToSet(Generate(s, c, a).aliases)
    BY InOrderFacts
  <2> QED
    BY <2>1, <2>2, SortedFacts DEF Generate, Aliases
<1>2. /\ config.origin = s.origin
      /\ config.viewerCertificate = ViewerCertificate(c, a)
      /\ config.viewerProtocolPolicy = ViewerPolicy(s)
      /\ config.cachePolicyId = c.cachePolicyId
      /\ config.originRequestPolicyId = c.originRequestPolicyId
      /\ config.forwardedValues = ForwardedValues(c)
      /\ config.methods = Methods(c)
  BY DEF InOrder, Configuration, Generate
<1>3. /\ {"HEAD", "GET"} \cup (ToSet(c.methods) \cap (Unsafe \cup {"OPTIONS"}))
           \subseteq ToSet(Methods(c).allowed)
      /\ "OPTIONS" \in ToSet(Methods(c).allowed) => "OPTIONS" \in ToSet(Methods(c).cached)
      /\ ToSet(Methods(c).cached) \cap Unsafe = {}
  BY MethodFacts DEF Unsafe
<1>4. /\ ViewerPolicy(s) = "allow-all" <=> s.mode = "both"
      /\ ViewerPolicy(s) = "redirect-to-https" <=> s.mode = "redirect"
  BY DEF ViewerPolicy, DistributionSpec, Modes
<1>5. ViewerCertificate(c, a).arn = a /\ ViewerCertificate(c, a).support = c.sslMode
  BY DEF ViewerCertificate
<1>6. c.cachePolicyId = None => /\ "Host" \in ForwardedValues(c).headers
                               /\ ForwardedValues(c).queryString
  BY DEF ForwardedValues, ForwardHost
<1> QED
  BY <1>1, <1>2, <1>3, <1>4, <1>5, <1>6 DEF InEffect

\* What the comparison rests on is invariant.
THEOREM Compared == Spec => []ConfigInv
<1>1. Init => ConfigInv
  BY DEF Init, ConfigInv, ConfigTypes, ComparesNewest
<1>2. ConfigInv /\ [Next]_vars => ConfigInv'
  <2>1. ASSUME UNCHANGED vars, ConfigInv PROVE ConfigInv'
    BY <2>1 DEF vars, ConfigInv, ConfigTypes, ComparesNewest
  <2> QED
    BY <2>1, ConfigStep
<1> QED
  BY <1>1, <1>2, PTL DEF Spec

\* No edit escapes the comparison: the controller comes to rest over nothing that leaves
\* out a field of the newest spec, class or certificate.
THEOREM FieldsInEffect == Spec => []InEffectAtRest
<1>1. ConfigInv => InEffectAtRest
  BY EqualInEffect DEF ConfigInv, ConfigTypes, ComparesNewest, InEffectAtRest
<1> QED
  BY <1>1, Compared, PTL

\* A pass that no edit has overtaken is refused only if its class itself is at fault: the
\* policies, TTLs, forwarded values and TLS made for a class that can be served agree.
THEOREM NoFaultButTheClass == Spec => []RefusedForItsClass
<1>1. ConfigInv => RefusedForItsClass
  BY Generated DEF ConfigInv, ConfigTypes, ComparesNewest, RefusedForItsClass
<1> QED
  BY <1>1, Compared, PTL

-----------------------------------------------------------------------------
(* Nothing is sent that means what CloudFront already has.                  *)

\* Users name no host and no method twice.
NoRepeats == \A l \in HostLists \cup MethodLists : IsInjective(l)

\* Nor then does any configuration, and what is sent is sorted.
DistinctHosts == /\ hosted # None => IsInjective(hosted.aliases)
                 /\ pass # None => /\ IsInjective(pass.want.aliases)
                                   /\ Ascending(pass.want.aliases)

\* Configurations of the same meaning differ in the order of their lists only.
LEMMA MeaningFacts ==
    ASSUME NEW x \in Configuration, NEW y \in Configuration, Meaning(x) = Meaning(y)
    PROVE  /\ x.methods = y.methods => x = [y EXCEPT !.aliases = x.aliases]
           /\ ToSet(x.aliases) = ToSet(y.aliases)
           /\ ToSet(x.methods.allowed) = ToSet(y.methods.allowed)
<1> DEFINE Certificates == {ViewerCertificate(c, a) : c \in CloudFrontSpec, a \in Arns}
           Policies == {ViewerPolicy(s) : s \in DistributionSpec}
           Lists == {Methods(c) : c \in CloudFrontSpec}
           all == [origin : Origins, aliases : Seq(Nat), viewerCertificate : Certificates,
                   viewerProtocolPolicy : Policies, cachePolicyId : CacheIds \cup {None},
                   originRequestPolicyId : RequestIds \cup {None},
                   forwardedValues : {ForwardHost, None}, ttls : {DefaultTTLs, None},
                   methods : Lists]
           sets(r) == [allowed |-> ToSet(r.methods.allowed), cached |-> ToSet(r.methods.cached)]
           core(r) == [r EXCEPT !.aliases = ToSet(r.aliases), !.methods = sets(r)]
<1>1. Configuration = all
  BY DEF Configuration
<1>2. Meaning(x) = core(x) /\ Meaning(y) = core(y)
  BY DEF Meaning
<1> HIDE DEF Certificates, Policies, Lists
<1>3. \A r \in all : /\ core(r).aliases = ToSet(r.aliases) /\ core(r).methods = sets(r)
                     /\ core(r).origin = r.origin /\ core(r).ttls = r.ttls
                     /\ core(r).viewerCertificate = r.viewerCertificate
                     /\ core(r).viewerProtocolPolicy = r.viewerProtocolPolicy
                     /\ core(r).cachePolicyId = r.cachePolicyId
                     /\ core(r).originRequestPolicyId = r.originRequestPolicyId
                     /\ core(r).forwardedValues = r.forwardedValues
  <2> HIDE DEF sets
  <2> QED
    OBVIOUS
<1>4. core(x) = core(y) /\ x \in all /\ y \in all
  BY <1>1, <1>2
<1> HIDE DEF core
<1>5. ToSet(x.aliases) = ToSet(y.aliases) /\ sets(x) = sets(y)
  <2> HIDE DEF all, sets
  <2> QED
    BY <1>3, <1>4
<1>6. ToSet(x.methods.allowed) = ToSet(y.methods.allowed)
  BY <1>5
<1>7. /\ x.origin = y.origin /\ x.viewerCertificate = y.viewerCertificate
      /\ x.viewerProtocolPolicy = y.viewerProtocolPolicy /\ x.ttls = y.ttls
      /\ x.cachePolicyId = y.cachePolicyId /\ x.originRequestPolicyId = y.originRequestPolicyId
      /\ x.forwardedValues = y.forwardedValues
  <2> HIDE DEF all, sets
  <2> QED
    BY <1>3, <1>4
<1>8. x.methods = y.methods => x = [y EXCEPT !.aliases = x.aliases]
  BY <1>4, <1>7
<1> QED
  BY <1>5, <1>6, <1>8

\* A list of hosts that means what CloudFront has is what Check() makes of that.
LEMMA SameMeaning ==
    ASSUME NoRepeats, NEW x \in Configuration, NEW y \in Configuration,
           Meaning(x) = Meaning(y), IsInjective(x.aliases), Ascending(x.aliases),
           IsInjective(y.aliases)
    PROVE  InOrder(y) = x
<1>1. x.aliases \in Seq(Nat) /\ y.aliases \in Seq(Nat)
  BY HostsType
<1>2. Sorted(y.aliases) = x.aliases
  BY <1>1, MeaningFacts, SortedFacts, SameSorted
<1>3. x.methods = y.methods
  <2>1. PICK c \in CloudFrontSpec : x.methods = Methods(c)
    BY DEF Configuration
  <2>2. PICK e \in CloudFrontSpec : y.methods = Methods(e)
    BY DEF Configuration
  <2>3. IsInjective(c.methods) /\ IsInjective(e.methods)
    BY DEF NoRepeats, CloudFrontSpec
  <2> QED
    BY <2>1, <2>2, <2>3, MeaningFacts, SameMethods
<1>4. InOrder(y) = [y EXCEPT !.aliases = x.aliases]
  BY <1>2 DEF InOrder
<1> QED
  BY <1>3, <1>4, MeaningFacts

\* Every step keeps hosts apart.
LEMMA DistinctStep ==
    ASSUME NoRepeats, ConfigInv, DistinctHosts, Next
    PROVE  DistinctHosts'
<1> USE DEF DistinctHosts
<1>1. CASE EditSpec \/ EditClass \/ Reimport \/ Rest
  BY <1>1 DEF EditSpec, EditClass, Reimport, Edit, Rest
<1>2. CASE Load
  <2>1. pass'.want.aliases = Sorted(spec.hosts) /\ hosted' = hosted
    BY <1>2 DEF Load, Generate, Aliases
  <2>2. spec.hosts \in Seq(Nat) /\ IsInjective(spec.hosts)
    BY ListAssumption DEF ConfigInv, ConfigTypes, DistributionSpec, NoRepeats
  <2> QED
    BY <2>1, <2>2, SortedFacts
<1>3. CASE Put
  <2>1. /\ pass # None /\ pass' = None
        /\ hosted' \in Stored(pass.want) \cup {hosted}
    BY <1>3 DEF Put
  <2>2. pass.want \in Configuration
    BY <2>1 DEF Pass, ConfigInv, ConfigTypes
  <2>3. ASSUME NEW o \in Orders(pass.want.aliases)
        PROVE  [pass.want EXCEPT !.aliases = o].aliases = o /\ IsInjective(o)
    <3>1. pass.want.aliases \in Seq(Nat)
      BY <2>2, HostsType
    <3>2. o \in Seq(Nat) /\ IsInjective(o)
      BY <2>1, <3>1, OrderFacts
    <3> QED
      BY <2>2, <3>2, Reordered
  <2> QED
    BY <2>1, <2>3 DEF Stored
<1> QED
  BY <1>1, <1>2, <1>3 DEF Next

\* As long as users name nothing twice, no update is sent that means what CloudFront has,
\* in whatever order CloudFront lists the hosts.
THEOREM NoIdleUpdate ==
    ASSUME NoRepeats
    PROVE  Spec => UpdatesMean
<1>1. Init => DistinctHosts
  BY DEF Init, DistinctHosts
<1>2. ConfigInv /\ DistinctHosts /\ [Next]_vars => DistinctHosts'
  <2>1. ASSUME UNCHANGED vars, DistinctHosts PROVE DistinctHosts'
    BY <2>1 DEF vars, DistinctHosts
  <2> QED
    BY <2>1, DistinctStep
<1>3. ConfigInv /\ DistinctHosts /\ [Next]_vars => [~IdlePut]_vars
  <2> SUFFICES ASSUME ConfigInv, DistinctHosts, IdlePut PROVE FALSE
    OBVIOUS
  <2>1. /\ pass # None /\ hosted # None /\ ~DeepEqual(pass.seen, pass.want)
        /\ pass.want.aliases # <<>> /\ Meaning(pass.want) = Meaning(hosted)
    BY DEF IdlePut, Put
  <2>2. pass.want \in Configuration /\ hosted \in Configuration /\ pass.seen = InOrder(hosted)
    BY <2>1 DEF ConfigInv, ConfigTypes, ComparesNewest, Pass
  <2>3. InOrder(hosted) = pass.want
    BY <2>1, <2>2, SameMeaning DEF DistinctHosts
  <2> QED
    BY <2>1, <2>2, <2>3 DEF DeepEqual
<1> QED
  BY <1>1, <1>2, <1>3, Compared, PTL DEF Spec, UpdatesMean
=============================================================================

---------------------------- MODULE GatewayProofs ----------------------------
(***************************************************************************)
(* What is proved of three services of the gateway: the ACL for filters and *)
(* topics of any length over any alphabet, the topic statistics for any     *)
(* limit, and retained queries for any number of them.                      *)
(***************************************************************************)
EXTENDS TopicAcl, TopicStatistics, RetainedQuery,
        FiniteSetTheorems, SequenceTheorems, WellFoundedInduction, TLAPS

------------------------------------------------------------------------------
(* TopicAcl.                                                                *)

(* Lengths and domains of a topic, the arithmetic every proof below needs. *)
LEMMA TopicFacts ==
    ASSUME NEW t \in Topic
    PROVE  /\ Len(t) \in Nat /\ Len(t) >= 1
           /\ DOMAIN t = 1..Len(t)
           /\ 1 \in DOMAIN t /\ Len(t) \in DOMAIN t
           /\ \A i \in DOMAIN t : t[i] \in Level
BY DEF Topic

LEMMA Arithmetic ==
    \A m, n \in Nat : (m = n \/ m > n \/ n > m) /\ (m <= n + 1 => m <= n \/ m = n + 1)
OBVIOUS

(* In a valid name no level is a wildcard. *)
LEMMA NameFacts ==
    ASSUME NEW t \in Topic, ValidName(t)
    PROVE  \A i \in DOMAIN t : t[i] # Plus /\ t[i] # Hash
BY DEF ValidName, Wildcards

LEMMA KindFacts ==
    /\ Plus # Hash
    /\ \A w \in SystemWords : w \notin Wildcards
BY AclAssumption DEF Plus, Hash, Wildcards, Literals

(* An allow rule that contains a filter matches all the filter matches. *)
THEOREM ContainmentSound ==
    ASSUME NEW a \in Topic, NEW r \in Topic, NEW t \in Topic,
           WellPlaced(a), WellPlaced(r), ValidName(t),
           filter_contains(a, r), topic_matches_sub(r, t)
    PROVE  topic_matches_sub(a, t)
<1>1. ~(t[1] \in SystemWords /\ a[1] \in Wildcards)
  <2> SUFFICES ASSUME t[1] \in SystemWords, a[1] \in Wildcards PROVE FALSE
    OBVIOUS
  <2>1. r[1] \notin Wildcards
    BY DEF topic_matches_sub
  <2>2. r[1] \notin SystemWords
    BY DEF filter_contains, _system_mismatch
  <2>3. r[1] # Plus /\ r[1] # Hash
    BY <2>1 DEF Wildcards
  <2>4. r[1] = t[1]
    <3>1. CASE Len(r) = Len(t) /\ \A i \in DOMAIN r : r[i] = Plus \/ r[i] = t[i]
      BY <2>3, <3>1, TopicFacts
    <3>2. CASE /\ r[Len(r)] = Hash
               /\ \A i \in 1..(Len(r) - 1) : r[i] = Plus \/ r[i] = t[i]
      <4>1. Len(r) \in Nat /\ Len(r) >= 1 /\ Len(r) # 1
        BY <2>3, <3>2, TopicFacts
      <4>2. 1 \in 1..(Len(r) - 1)
        BY <4>1
      <4> QED BY <2>3, <3>2, <4>2
    <3> QED BY <3>1, <3>2 DEF topic_matches_sub
  <2> QED BY <2>2, <2>4
<1>2. ASSUME NEW n \in 0..Len(a), \A j \in 1..n : Passes(a, r, j)
      PROVE  \A j \in 1..n : a[j] = Plus \/ a[j] = t[j]
  <2> TAKE j \in 1..n
  <2>1. a[j] # Plus => a[j] = r[j] /\ r[j] # Hash /\ r[j] # Plus
    BY <1>2 DEF Passes
  <2>2. j \in 1..Len(r) /\ r[j] # Hash
    BY <1>2, TopicFacts DEF Passes
  <2>3. r[j] = Plus \/ r[j] = t[j]
    <3>1. CASE Len(r) = Len(t) /\ \A i \in DOMAIN r : r[i] = Plus \/ r[i] = t[i]
      BY <2>2, <3>1, TopicFacts
    <3>2. CASE /\ r[Len(r)] = Hash
               /\ \A i \in 1..(Len(r) - 1) : r[i] = Plus \/ r[i] = t[i]
      <4>1. j # Len(r)
        BY <2>2, <3>2
      <4>2. j \in 1..(Len(r) - 1)
        BY <2>2, <4>1, TopicFacts
      <4> QED BY <3>2, <4>2
    <3> QED BY <3>1, <3>2 DEF topic_matches_sub
  <2> QED BY <2>1, <2>3
<1>3. CASE \E i \in DOMAIN a : a[i] = Hash /\ \A j \in 1..(i - 1) : Passes(a, r, j)
  <2>1. PICK i \in DOMAIN a : a[i] = Hash /\ \A j \in 1..(i - 1) : Passes(a, r, j)
    BY <1>3
  <2>2. i = Len(a)
    BY <2>1 DEF WellPlaced
  <2>3. Len(a) - 1 \in 0..Len(a) /\ Len(a) \in Nat /\ Len(a) >= 1
    BY TopicFacts
  <2>4. \A j \in 1..(Len(a) - 1) : a[j] = Plus \/ a[j] = t[j]
    BY <1>2, <2>1, <2>2, <2>3
  <2>5. Len(a) <= Len(t) + 1
    <3>1. CASE Len(a) = 1
      BY <3>1, TopicFacts
    <3>2. CASE Len(a) # 1
      <4>1. Len(a) - 1 \in 1..(Len(a) - 1)
        BY <2>3, <3>2
      <4>2. Len(a) - 1 <= Len(r) /\ r[Len(a) - 1] # Hash
        BY <2>1, <2>2, <4>1 DEF Passes
      <4>3. Len(r) \in Nat /\ Len(t) \in Nat
        BY TopicFacts
      <4>4. CASE Len(r) = Len(t)
        BY <2>3, <4>2, <4>3, <4>4
      <4>5. CASE r[Len(r)] = Hash /\ Len(r) <= Len(t) + 1
        <5>1. Len(a) - 1 # Len(r)
          BY <4>2, <4>5
        <5> QED BY <2>3, <4>2, <4>3, <4>5, <5>1
      <4> QED BY <4>4, <4>5 DEF topic_matches_sub
    <3> QED BY <3>1, <3>2
  <2> QED BY <1>1, <2>1, <2>2, <2>4, <2>5 DEF topic_matches_sub
<1>4. CASE Len(a) = Len(r) /\ \A i \in DOMAIN a : Passes(a, r, i)
  <2>1. Len(a) \in 0..Len(a) /\ DOMAIN a = 1..Len(a) /\ Len(r) \in DOMAIN a
    BY <1>4, TopicFacts
  <2>2. r[Len(r)] # Hash
    BY <1>4, <2>1 DEF Passes
  <2>3. Len(a) = Len(t)
    BY <1>4, <2>2 DEF topic_matches_sub
  <2>4. \A j \in 1..Len(a) : a[j] = Plus \/ a[j] = t[j]
    BY <1>2, <1>4, <2>1
  <2> QED BY <1>1, <2>1, <2>3, <2>4 DEF topic_matches_sub
<1> QED BY <1>3, <1>4 DEF filter_contains

(* The matcher level by level: a level of a matching filter is "#", "+" or  *)
(* the topic's own, and only a final "#" may reach past the topic.          *)
LEMMA MatchFacts ==
    ASSUME NEW f \in Topic, NEW t \in Topic, topic_matches_sub(f, t)
    PROVE  /\ \A i \in DOMAIN f :
                 \/ f[i] = Hash
                 \/ i <= Len(t) /\ (f[i] = Plus \/ f[i] = t[i])
           /\ Len(f) <= Len(t) \/ (Len(f) = Len(t) + 1 /\ f[Len(f)] = Hash)
           /\ f[Len(f)] = Hash \/ Len(f) = Len(t)
<1>1. Len(f) \in Nat /\ Len(f) >= 1 /\ Len(t) \in Nat /\ Len(t) >= 1 /\ DOMAIN f = 1..Len(f)
  BY TopicFacts
<1>2. CASE /\ f[Len(f)] = Hash /\ Len(f) <= Len(t) + 1
           /\ \A i \in 1..(Len(f) - 1) : f[i] = Plus \/ f[i] = t[i]
  <2>1. ASSUME NEW i \in DOMAIN f
        PROVE  f[i] = Hash \/ (i <= Len(t) /\ (f[i] = Plus \/ f[i] = t[i]))
    <3>1. CASE i = Len(f)
      BY <1>2, <3>1
    <3>2. CASE i # Len(f)
      <4>1. i \in 1..(Len(f) - 1) /\ i <= Len(t)
        BY <1>1, <1>2, <3>2
      <4> QED BY <1>2, <4>1
    <3> QED BY <3>1, <3>2
  <2>2. Len(f) <= Len(t) \/ Len(f) = Len(t) + 1
    BY <1>1, <1>2, Arithmetic, Zenon
  <2> QED BY <1>2, <2>1, <2>2
<1>3. CASE Len(f) = Len(t) /\ \A i \in DOMAIN f : f[i] = Plus \/ f[i] = t[i]
  BY <1>1, <1>3
<1> QED BY <1>2, <1>3 DEF topic_matches_sub

(* Two filters that match a common topic are found to overlap. *)
THEOREM OverlapComplete ==
    ASSUME NEW f \in Topic, NEW g \in Topic, NEW t \in Topic,
           WellPlaced(f), WellPlaced(g), ValidName(t),
           topic_matches_sub(f, t), topic_matches_sub(g, t)
    PROVE  filters_overlap(f, g)
<1>1. /\ Len(f) \in Nat /\ Len(f) >= 1 /\ DOMAIN f = 1..Len(f)
      /\ Len(g) \in Nat /\ Len(g) >= 1 /\ DOMAIN g = 1..Len(g)
      /\ Len(t) \in Nat /\ Len(t) >= 1 /\ 1 \in DOMAIN f /\ 1 \in DOMAIN g
  BY TopicFacts
<1>2. ~_system_mismatch(f, g)
  <2>1. ASSUME NEW x \in Topic, NEW y \in Topic, 1 \in DOMAIN x,
               topic_matches_sub(x, t), topic_matches_sub(y, t),
               x[1] \in SystemWords, y[1] \in Wildcards
        PROVE  FALSE
    <3>1. x[1] # Hash /\ x[1] # Plus
      BY <2>1, KindFacts DEF Wildcards
    <3>2. x[1] = t[1]
      BY <2>1, <3>1, MatchFacts
    <3> QED BY <2>1, <3>2 DEF topic_matches_sub
  <2> QED BY <1>1, <2>1 DEF _system_mismatch
<1> DEFINE both == DOMAIN f \cap DOMAIN g
<1>3. \A i \in both : Hash \in {f[i], g[i]} \/ Compatible(f[i], g[i])
  BY MatchFacts DEF Compatible
<1>4. CASE \E i \in both : Hash \in {f[i], g[i]}
  <2>1. PICK i \in both : Hash \in {f[i], g[i]}
    BY <1>4
  <2>2. i = Len(f) \/ i = Len(g)
    BY <2>1 DEF WellPlaced
  <2>3. \A j \in 1..(i - 1) : j \in both /\ j # Len(f) /\ j # Len(g)
    <3>1. i \in 1..Len(f) /\ i \in 1..Len(g)
      BY <1>1, <2>1
    <3>2. \A m, n \in Nat : \A k \in 1..m : k \in 1..n =>
             \A j \in 1..(k - 1) : j \in 1..m /\ j \in 1..n /\ j # m /\ j # n
      OBVIOUS
    <3>3. \A j \in 1..(i - 1) : /\ j \in 1..Len(f) /\ j \in 1..Len(g)
                                /\ j # Len(f) /\ j # Len(g)
      BY <1>1, <3>1, <3>2
    <3> QED BY <1>1, <3>3
  <2>4. \A j \in 1..(i - 1) : Hash \notin {f[j], g[j]}
    BY <2>3 DEF WellPlaced
  <2>5. \A j \in 1..(i - 1) : Compatible(f[j], g[j])
    BY <1>3, <2>3, <2>4
  <2> QED BY <1>2, <2>1, <2>5 DEF filters_overlap
<1>5. CASE \A i \in both : Hash \notin {f[i], g[i]}
  <2>1. \A i \in both : Compatible(f[i], g[i])
    BY <1>3, <1>5
  <2>2. ASSUME NEW x \in Topic, NEW y \in Topic,
               Len(x) \in Nat, Len(x) >= 1, Len(y) \in Nat /\ Len(y) >= 1, Len(t) \in Nat,
               topic_matches_sub(x, t), topic_matches_sub(y, t),
               Len(x) > Len(y), y[Len(y)] # Hash
        PROVE  ExtendsByHash(x, y)
    <3>1. Len(y) = Len(t)
      BY <2>2, MatchFacts
    <3>2. Len(x) = Len(t) + 1 /\ x[Len(x)] = Hash
      <4>1. Len(x) <= Len(t) \/ (Len(x) = Len(t) + 1 /\ x[Len(x)] = Hash)
        BY <2>2, MatchFacts
      <4> QED BY <2>2, <3>1, <4>1
    <3> QED BY <3>1, <3>2 DEF ExtendsByHash
  <2>3. CASE Len(f) = Len(g)
    BY <1>2, <1>5, <2>1, <2>3 DEF filters_overlap
  <2>4. CASE Len(f) > Len(g)
    <3>1. Len(g) \in both
      BY <1>1, <2>4
    <3>2. ExtendsByHash(f, g)
      BY <1>1, <1>5, <2>2, <2>4, <3>1
    <3> QED BY <1>2, <1>5, <2>1, <3>2 DEF filters_overlap
  <2>5. CASE Len(g) > Len(f)
    <3>1. Len(f) \in both
      BY <1>1, <2>5
    <3>2. ExtendsByHash(g, f)
      BY <1>1, <1>5, <2>2, <2>5, <3>1
    <3> QED BY <1>2, <1>5, <2>1, <3>2 DEF filters_overlap
  <2>6. Len(f) = Len(g) \/ Len(f) > Len(g) \/ Len(g) > Len(f)
    BY <1>1, Arithmetic, Zenon
  <2> QED BY <2>3, <2>4, <2>5, <2>6
<1> QED BY <1>4, <1>5

(* What a filter is granted, the ACL grants every name the filter matches.  *)
LEMMA GrantCoversNames ==
    ASSUME NEW f \in Topic, NEW t \in Topic,
           allowed \in SUBSET Topic, blocked \in SUBSET Topic,
           \A r \in allowed \cup blocked : ValidRule(r),
           FilterAllowed(f), ValidName(t), topic_matches_sub(f, t)
    PROVE  NameAllowed(t)
<1>1. WellPlaced(f)
  BY DEF FilterAllowed, ValidFilter
<1>2. PICK a \in allowed : filter_contains(a, f)
  BY DEF FilterAllowed
<1>3. topic_matches_sub(a, t)
  BY <1>1, <1>2, ContainmentSound DEF ValidRule
<1>4. ASSUME NEW b \in blocked, topic_matches_sub(b, t) PROVE FALSE
  <2>1. filters_overlap(b, f)
    BY <1>1, <1>4, OverlapComplete DEF ValidRule
  <2> QED BY <2>1 DEF FilterAllowed
<1> QED BY <1>2, <1>3, <1>4 DEF NameAllowed

(* ForwardsOnlyAllowed is not inductive: it needs that every filter of the  *)
(* stream was granted under this ACL, and that the ACL's rules are valid.   *)
IInv ==
    /\ TypeOK
    /\ \A r \in allowed \cup blocked : ValidRule(r)
    /\ \A f \in requested : FilterAllowed(f)
    /\ ForwardsOnlyAllowed

LEMMA Inductive == Spec => []IInv
<1>1. Init => IInv
  BY AclAssumption DEF Init, IInv, TypeOK, ForwardsOnlyAllowed
<1>2. IInv /\ [Next]_vars => IInv'
  <2> SUFFICES ASSUME IInv, [Next]_vars PROVE IInv'
    OBVIOUS
  <2> USE DEF IInv
  <2>1. UNCHANGED <<allowed, blocked>>
    BY DEF Next, AuthorizeName, OpenStream, Forward, vars
  <2>2. /\ \A f : FilterAllowed(f)' <=> FilterAllowed(f)
        /\ \A t : NameAllowed(t)' <=> NameAllowed(t)
    BY <2>1 DEF FilterAllowed, NameAllowed
  <2>3. ASSUME NEW t \in Requests, AuthorizeName(t) PROVE IInv'
    BY <2>2, <2>3, AclAssumption DEF AuthorizeName, TypeOK, ForwardsOnlyAllowed
  <2>4. ASSUME NEW t \in Requests, OpenStream(t) PROVE IInv'
    BY <2>2, <2>4, AclAssumption DEF OpenStream, TypeOK, ForwardsOnlyAllowed
  <2>5. ASSUME NEW t \in Requests, Forward(t) PROVE IInv'
    <3>1. PICK f \in requested : topic_matches_sub(f, t)
      BY <2>5 DEF Forward
    <3>2. NameAllowed(t)
      BY <2>5, <3>1, GrantCoversNames, AclAssumption DEF Forward, TypeOK
    <3> QED BY <2>1, <2>2, <2>5, <3>2, AclAssumption
            DEF Forward, TypeOK, ForwardsOnlyAllowed
  <2>6. CASE UNCHANGED vars
    BY <2>2, <2>6 DEF vars, TypeOK, ForwardsOnlyAllowed
  <2> QED BY <2>3, <2>4, <2>5, <2>6 DEF Next
<1> QED BY <1>1, <1>2, PTL DEF Spec

(* A stream forwards only topics the ACL allows, although ws_callback never *)
(* consults it.                                                             *)
THEOREM StreamsRespectAcl == Spec => []ForwardsOnlyAllowed
BY Inductive, PTL DEF IInv

(* A topic common to two filters takes the literal where one of them has it *)
(* and any word where both have a wildcard.                                 *)
Common(x, y, w) == IF x \notin Wildcards THEN x ELSE IF y \notin Wildcards THEN y ELSE w

LEMMA LevelFacts ==
    ASSUME NEW f \in Topic, ValidRule(f), NEW i \in DOMAIN f
    PROVE  f[i] \in Literals \cup Wildcards /\ (f[i] = Hash => i = Len(f))
BY TopicFacts DEF ValidRule, Encodable, WellPlaced, Level

LEMMA LiteralName ==
    ASSUME NEW n \in Nat, n >= 1, NEW t \in [1..n -> Literals], t # <<Empty>>
    PROVE  t \in Topic /\ Len(t) = n /\ DOMAIN t = 1..n /\ ValidName(t)
<1>1. t \in Topic /\ Len(t) = n /\ DOMAIN t = 1..n
  BY DEF Topic, Level
<1>2. \A i \in 1..n : t[i] \in Literals
  OBVIOUS
<1>3. \A x \in Literals : x \notin Wildcards \cup Partial /\ x \notin Unencodable
  BY AclAssumption
<1> QED BY <1>1, <1>2, <1>3 DEF ValidName, Encodable

LEMMA CommonFacts ==
    ASSUME NEW x \in Literals \cup Wildcards, NEW y \in Literals \cup Wildcards, NEW w \in Words
    PROVE  /\ Common(x, y, w) \in Literals
           /\ x \in Literals => Common(x, y, w) = x
           /\ x \in Wildcards /\ y \in Literals => Common(x, y, w) = y
           /\ x \in Wildcards /\ y \in Wildcards => Common(x, y, w) = w
           /\ w \notin SystemWords
BY AclAssumption DEF Common, Literals

(* One of the filters ends in "#" within the length of the other.           *)
LEMMA HashWitness ==
    ASSUME NEW f \in Topic, NEW g \in Topic, ValidRule(f), ValidRule(g),
           ~_system_mismatch(f, g), NEW w \in Words, w # Empty,
           NEW i \in Nat, i >= 1, i = Len(f), DOMAIN f = 1..i, f[i] = Hash,
           NEW n \in Nat, n >= i, n = Len(g), DOMAIN g = 1..n,
           \A j \in 1..(i - 1) : Compatible(f[j], g[j])
    PROVE  \E t \in Topic : ValidName(t) /\ topic_matches_sub(f, t) /\ topic_matches_sub(g, t)
<1> DEFINE x(j) == IF j < i THEN f[j] ELSE Hash
           t == [j \in 1..n |-> Common(x(j), g[j], w)]
<1>1. 1 \in 1..n /\ 1 \in 1..i /\ n >= 1
  OBVIOUS
<1>3. Hash \in Wildcards /\ Plus \in Wildcards /\ \A z \in Literals : z \notin Wildcards
  BY AclAssumption DEF Wildcards
<1>4. ASSUME NEW j \in 1..n
      PROVE  /\ g[j] \in Literals \cup Wildcards /\ (g[j] = Hash => j = n)
             /\ x(j) \in Literals \cup Wildcards
             /\ j < i => j \in DOMAIN f /\ f[j] # Hash /\ g[j] # Hash
  <2>1. g[j] \in Literals \cup Wildcards /\ (g[j] = Hash => j = n)
    BY <1>1, LevelFacts
  <2>2. ASSUME j < i PROVE j \in DOMAIN f /\ f[j] \in Literals \cup Wildcards /\ f[j] # Hash
    <3>1. j \in DOMAIN f
      BY <1>1, <2>2
    <3> QED BY <2>2, <3>1, LevelFacts
  <2>3. j < i => g[j] # Hash
    BY <1>1, <2>1
  <2> QED BY <1>3, <2>1, <2>2, <2>3
<1>5. t \in [1..n -> Literals] /\ \A j \in 1..n : t[j] = Common(x(j), g[j], w)
  BY <1>4, CommonFacts
<1>6. t # <<Empty>>
  <2> SUFFICES ASSUME n = 1, t[1] = Empty PROVE FALSE
    BY <1>1, <1>5
  <2>1. i = 1 /\ x(1) = Hash
    OBVIOUS
  <2>2. t[1] = Common(Hash, g[1], w) /\ g[1] \in Literals \cup Wildcards
    BY <1>1, <1>4, <1>5, <2>1
  <2>3. g[1] = Empty
    BY <1>3, <2>2, CommonFacts
  <2>4. g = <<Empty>>
    BY <1>1, <2>3 DEF Topic
  <2> QED BY <2>4 DEF ValidRule, Encodable
<1> HIDE DEF t
<1>7. t \in Topic /\ Len(t) = n /\ ValidName(t)
  BY <1>1, <1>5, <1>6, LiteralName
<1>8. topic_matches_sub(f, t)
  <2>1. ~(t[1] \in SystemWords /\ f[1] \in Wildcards)
    <3> SUFFICES ASSUME t[1] \in SystemWords, f[1] \in Wildcards PROVE FALSE
      OBVIOUS
    <3>1. x(1) \in Wildcards
      BY <1>3
    <3>2. t[1] = Common(x(1), g[1], w) /\ g[1] \in Literals \cup Wildcards
      BY <1>1, <1>4, <1>5
    <3>3. g[1] \in SystemWords
      BY <3>1, <3>2, CommonFacts DEF Literals
    <3> QED BY <3>3 DEF _system_mismatch
  <2>2. Len(f) <= Len(t) + 1
    BY <1>1, <1>7
  <2>3. ASSUME NEW j \in 1..(Len(f) - 1) PROVE f[j] = Plus \/ f[j] = t[j]
    <3>1. j \in 1..n /\ j < i
      BY <1>1
    <3>2. x(j) = f[j] /\ f[j] # Hash /\ f[j] \in Literals \cup Wildcards /\ g[j] \in Literals \cup Wildcards
      BY <1>4, <3>1
    <3> QED BY <1>5, <3>1, <3>2, CommonFacts DEF Wildcards
  <2> QED BY <2>1, <2>2, <2>3 DEF topic_matches_sub
<1>9. topic_matches_sub(g, t)
  <2>1. ~(t[1] \in SystemWords /\ g[1] \in Wildcards)
    <3> SUFFICES ASSUME t[1] \in SystemWords, g[1] \in Wildcards PROVE FALSE
      OBVIOUS
    <3>1. t[1] = Common(x(1), g[1], w) /\ x(1) \in Literals \cup Wildcards
      BY <1>1, <1>4, <1>5
    <3>2. x(1) \in Literals /\ x(1) \in SystemWords
      BY <3>1, CommonFacts
    <3>3. f[1] \in SystemWords
      BY <1>3, <3>2
    <3> QED BY <3>3 DEF _system_mismatch
  <2>2. ASSUME NEW j \in 1..n, g[j] # Hash PROVE g[j] = Plus \/ g[j] = t[j]
    <3>1. CASE x(j) \in Wildcards
      <4>1. CASE g[j] \in Literals
        BY <1>4, <1>5, <3>1, <4>1, CommonFacts
      <4>2. CASE g[j] \in Wildcards
        BY <2>2, <4>2 DEF Wildcards
      <4> QED BY <1>4, <4>1, <4>2
    <3>2. CASE x(j) \in Literals
      <4>1. j < i /\ x(j) = f[j]
        BY <1>3, <3>2
      <4>2. j \in 1..(i - 1)
        BY <4>1
      <4>3. f[j] # Plus /\ t[j] = f[j]
        BY <1>3, <1>4, <1>5, <3>2, <4>1, CommonFacts
      <4> QED BY <4>2, <4>3 DEF Compatible
    <3> QED BY <1>4, <3>1, <3>2
  <2>3. CASE g[n] = Hash
    <3>1. \A j \in 1..(n - 1) : j \in 1..n /\ g[j] # Hash
      BY <1>1, <1>4
    <3> QED BY <1>1, <1>7, <2>1, <2>2, <2>3, <3>1 DEF topic_matches_sub
  <2>4. CASE g[n] # Hash
    <3>1. \A j \in 1..n : g[j] # Hash
      BY <1>4, <2>4
    <3> QED BY <1>1, <1>7, <2>1, <2>2, <3>1 DEF topic_matches_sub
  <2> QED BY <2>3, <2>4
<1> QED BY <1>7, <1>8, <1>9

(* The filters are equally long, or the first goes on with "#" only.        *)
LEMMA LevelWitness ==
    ASSUME NEW f \in Topic, NEW g \in Topic, ValidRule(f), ValidRule(g),
           ~_system_mismatch(f, g), NEW w \in Words, w # Empty,
           NEW m \in Nat, m = Len(f), DOMAIN f = 1..m,
           NEW n \in Nat, n >= 1, n = Len(g), DOMAIN g = 1..n,
           \A j \in 1..n : Compatible(f[j], g[j]) /\ Hash \notin {f[j], g[j]},
           m = n \/ (m = n + 1 /\ f[m] = Hash),
           ~(f = <<Empty, Hash>> /\ g = <<Plus>>)
    PROVE  \E t \in Topic : ValidName(t) /\ topic_matches_sub(f, t) /\ topic_matches_sub(g, t)
<1> DEFINE t == [j \in 1..n |-> Common(f[j], g[j], w)]
<1>1. 1 \in 1..n
  OBVIOUS
<1>2. Hash \in Wildcards /\ Plus \in Wildcards /\ \A z \in Literals : z \notin Wildcards
  BY AclAssumption DEF Wildcards
<1>3. ASSUME NEW j \in 1..n
      PROVE  /\ g[j] \in Literals \cup Wildcards /\ f[j] \in Literals \cup Wildcards
             /\ f[j] # Hash /\ g[j] # Hash /\ Compatible(f[j], g[j])
  <2>1. j \in DOMAIN f /\ j \in DOMAIN g
    BY <1>1
  <2> QED BY <2>1, LevelFacts
<1>4. t \in [1..n -> Literals] /\ \A j \in 1..n : t[j] = Common(f[j], g[j], w)
  BY <1>3, CommonFacts
<1>6. t # <<Empty>>
  <2> SUFFICES ASSUME n = 1, t[1] = Empty PROVE FALSE
    BY <1>1, <1>4
  <2>1. g[1] # Empty
    <3>1. g[1] = Empty => g = <<Empty>>
      BY <1>1 DEF Topic
    <3> QED BY <3>1 DEF ValidRule, Encodable
  <2>2. f[1] = Empty
    BY <1>3, <1>4, <1>1, <2>1, CommonFacts
  <2>3. g = <<Plus>>
    <3>1. g[1] = Plus \/ f[1] = Plus
      BY <1>3, <1>1, <2>1, <2>2 DEF Compatible
    <3>2. g[1] = Plus
      BY <3>1, <2>2 DEF Plus, Empty
    <3> QED BY <1>1, <3>2 DEF Topic
  <2>4. CASE m = 1
    <3>1. f = <<Empty>>
      BY <2>2, <2>4 DEF Topic
    <3> QED BY <3>1 DEF ValidRule, Encodable
  <2>5. CASE m = 2 /\ f[2] = Hash
    <3>1. f = <<Empty, Hash>>
      BY <2>2, <2>5 DEF Topic
    <3> QED BY <2>3, <3>1
  <2> QED BY <2>4, <2>5
<1> HIDE DEF t
<1>7. t \in Topic /\ Len(t) = n /\ ValidName(t)
  BY <1>1, <1>4, <1>6, LiteralName
<1>8. \A j \in 1..n : (f[j] = Plus \/ f[j] = t[j]) /\ (g[j] = Plus \/ g[j] = t[j])
  <2> SUFFICES ASSUME NEW j \in 1..n
               PROVE  (f[j] = Plus \/ f[j] = t[j]) /\ (g[j] = Plus \/ g[j] = t[j])
    OBVIOUS
  <2>1. CASE f[j] = Plus
    BY <1>2, <1>3, <1>4, <2>1, CommonFacts DEF Wildcards
  <2>2. CASE f[j] # Plus
    <3>1. f[j] \in Literals
      BY <1>3, <2>2 DEF Wildcards
    <3> QED BY <1>3, <1>4, <2>2, <3>1, CommonFacts DEF Compatible
  <2> QED BY <2>1, <2>2
<1>9. ~(t[1] \in SystemWords /\ (f[1] \in Wildcards \/ g[1] \in Wildcards))
  <2>1. t[1] = Common(f[1], g[1], w) /\ f[1] \in Literals \cup Wildcards /\ g[1] \in Literals \cup Wildcards
    BY <1>3, <1>4, <1>1
  <2> QED BY <1>2, <2>1, CommonFacts DEF _system_mismatch
<1>10. topic_matches_sub(g, t)
  BY <1>1, <1>7, <1>8, <1>9 DEF topic_matches_sub
<1>11. topic_matches_sub(f, t)
  <2>1. CASE m = n
    BY <1>1, <1>7, <1>8, <1>9, <2>1 DEF topic_matches_sub
  <2>2. CASE m = n + 1 /\ f[m] = Hash
    <3>1. f[Len(f)] = Hash /\ Len(f) <= Len(t) + 1 /\ \A j \in 1..(Len(f) - 1) : j \in 1..n
      BY <1>7, <2>2
    <3> QED BY <1>8, <1>9, <3>1 DEF topic_matches_sub
  <2> QED BY <2>1, <2>2
<1> QED BY <1>7, <1>10, <1>11

(* Two filters found to overlap match a common topic, with one exception.   *)
THEOREM OverlapSound ==
    ASSUME NEW f \in Topic, NEW g \in Topic, ValidRule(f), ValidRule(g),
           Words \ {Empty} # {}, filters_overlap(f, g), ~MeetInEmptyName(f, g)
    PROVE  \E t \in Topic : ValidName(t) /\ topic_matches_sub(f, t) /\ topic_matches_sub(g, t)
<1> DEFINE Meet == \E t \in Topic :
                      ValidName(t) /\ topic_matches_sub(f, t) /\ topic_matches_sub(g, t)
<1>1. PICK w \in Words : w # Empty
  OBVIOUS
<1>2. ~_system_mismatch(f, g) /\ ~_system_mismatch(g, f)
  BY DEF filters_overlap, _system_mismatch
<1>3. \A x, y : Compatible(x, y) => Compatible(y, x)
  BY DEF Compatible
<1>4. PICK m \in Nat, n \in Nat :
        /\ m >= 1 /\ m = Len(f) /\ DOMAIN f = 1..m
        /\ n >= 1 /\ n = Len(g) /\ DOMAIN g = 1..n
  BY TopicFacts
<1>5. ASSUME NEW i \in 1..m, i \in 1..n, Hash \in {f[i], g[i]},
             \A j \in 1..(i - 1) : Compatible(f[j], g[j])
      PROVE  Meet
  <2>1. CASE f[i] = Hash
    <3>1. i = m /\ n >= i
      BY <1>4, <1>5, <2>1, LevelFacts
    <3> QED BY <1>1, <1>2, <1>4, <1>5, <2>1, <3>1, HashWitness
  <2>2. CASE g[i] = Hash
    <3>1. i = n /\ m >= i
      BY <1>4, <1>5, <2>2, LevelFacts
    <3>2. \A j \in 1..(i - 1) : Compatible(g[j], f[j])
      BY <1>3, <1>5
    <3> QED BY <1>1, <1>2, <1>4, <1>5, <2>2, <3>1, <3>2, HashWitness
  <2> QED BY <1>5, <2>1, <2>2
<1>6. ASSUME \A i \in DOMAIN f \cap DOMAIN g : Compatible(f[i], g[i]) /\ Hash \notin {f[i], g[i]},
             Len(f) = Len(g) \/ ExtendsByHash(f, g) \/ ExtendsByHash(g, f)
      PROVE  Meet
  <2>1. CASE m = n \/ (m = n + 1 /\ f[m] = Hash)
    <3>1. \A j \in 1..n : Compatible(f[j], g[j]) /\ Hash \notin {f[j], g[j]}
      <4>1. \A j \in 1..n : j \in 1..m
        BY <2>1
      <4> QED BY <1>4, <1>6, <4>1
    <3>2. ~(f = <<Empty, Hash>> /\ g = <<Plus>>)
      BY DEF MeetInEmptyName
    <3> QED BY <1>1, <1>2, <1>4, <2>1, <3>1, <3>2, LevelWitness
  <2>2. CASE n = m + 1 /\ g[n] = Hash
    <3>1. \A j \in 1..m : Compatible(g[j], f[j]) /\ Hash \notin {g[j], f[j]}
      <4>1. \A j \in 1..m : j \in 1..n
        BY <2>2
      <4> QED BY <1>3, <1>4, <1>6, <4>1
    <3>2. ~(g = <<Empty, Hash>> /\ f = <<Plus>>)
      BY DEF MeetInEmptyName
    <3> QED BY <1>1, <1>2, <1>4, <2>2, <3>1, <3>2, LevelWitness
  <2> QED BY <1>4, <1>6, <2>1, <2>2 DEF ExtendsByHash
<1>7. CASE \E i \in DOMAIN f \cap DOMAIN g :
             Hash \in {f[i], g[i]} /\ \A j \in 1..(i - 1) : Compatible(f[j], g[j])
  BY <1>4, <1>5, <1>7
<1> QED BY <1>6, <1>7 DEF filters_overlap

LEMMA EmptyNameOverlap ==
    ASSUME NEW f, NEW g, MeetInEmptyName(f, g)
    PROVE  filters_overlap(f, g)
<1>1. (f = <<Empty, Hash>> /\ g = <<Plus>>) \/ (g = <<Empty, Hash>> /\ f = <<Plus>>)
  BY DEF MeetInEmptyName
<1>2. Empty \notin SystemWords /\ Plus \notin SystemWords /\ Empty # Hash /\ Plus # Hash
  BY AclAssumption DEF Empty, Hash, Plus, Wildcards, Literals
<1>3. /\ DOMAIN <<Empty, Hash>> = 1..2 /\ DOMAIN <<Plus>> = 1..1
      /\ Len(<<Empty, Hash>>) = 2 /\ Len(<<Plus>>) = 1
      /\ <<Empty, Hash>>[1] = Empty /\ <<Empty, Hash>>[2] = Hash /\ <<Plus>>[1] = Plus
  OBVIOUS
<1>4. DOMAIN f \cap DOMAIN g = {1}
  BY <1>1, <1>3
<1>5. {f[1], g[1]} = {Empty, Plus} /\ Compatible(f[1], g[1])
  BY <1>1, <1>3 DEF Compatible
<1>6. ExtendsByHash(f, g) \/ ExtendsByHash(g, f)
  <2>1. ExtendsByHash(<<Empty, Hash>>, <<Plus>>)
    BY <1>3 DEF ExtendsByHash
  <2> QED BY <1>1, <2>1
<1>7. ~_system_mismatch(f, g)
  BY <1>2, <1>5 DEF _system_mismatch
<1> QED BY <1>2, <1>4, <1>5, <1>6, <1>7 DEF filters_overlap

(* Where clients may ask for any topic, filters_overlap is exact in every    *)
(* state: a block rule refuses a filter if and only if the two match a       *)
(* common topic, except for "/#" and "+".                                    *)
THEOREM BlockingIsExact ==
    ASSUME Topic \subseteq Requests, Words \ {Empty} # {}
    PROVE  Spec => []OverlapExact
<1>1. IInv => OverlapExact
  <2> SUFFICES ASSUME IInv, attempt # None, ValidFilter(attempt), NEW b \in blocked
               PROVE  filters_overlap(b, attempt) <=>
                        \/ MeetInEmptyName(b, attempt)
                        \/ \E t \in Requests :
                              /\ ValidName(t)
                              /\ topic_matches_sub(b, t) /\ topic_matches_sub(attempt, t)
    BY DEF OverlapExact
  <2>1. b \in Topic /\ attempt \in Topic /\ ValidRule(b) /\ ValidRule(attempt)
    BY DEF IInv, TypeOK, ValidFilter, ValidRule
  <2>2. Requests = Topic
    BY AclAssumption
  <2>3. \A t \in Topic : ValidName(t) /\ topic_matches_sub(b, t) /\ topic_matches_sub(attempt, t)
           => filters_overlap(b, attempt)
    BY <2>1, OverlapComplete DEF ValidRule
  <2> QED BY <2>1, <2>2, <2>3, OverlapSound, EmptyNameOverlap
<1> QED BY <1>1, Inductive, PTL

------------------------------------------------------------------------------
(* TopicStatistics.  KeepsMostRecent is not inductive: that popitem drops   *)
(* the topic unheard of for longest needs the dictionary's order to be the  *)
(* order of last use (OrderIsRecency).                                      *)

StatisticsIInv == StatisticsTypeOK /\ OrderIsRecency /\ KeepsMostRecent

LEMMA LeastOf ==
  ASSUME NEW S \in SUBSET Nat, S # {}
  PROVE  \E n \in S : \A m \in S : n <= m
<1> DEFINE R == OpToRel(<,Nat)
<1>1. IsWellFoundedOn(R, Nat)
  BY NatLessThanWellFounded
<1>2. PICK x \in S : \A y \in S : ~(<<y, x>> \in R)
  <2> HIDE DEF R
  <2> QED BY <1>1, WFMin
<1>3. \A y \in S : y < x => <<y, x>> \in R
  BY DEF OpToRel
<1>4. \A y \in S : x <= y
  <2> SUFFICES ASSUME NEW y \in S PROVE x <= y
    OBVIOUS
  <2>1. ~(y < x)
    BY <1>2, <1>3
  <2> QED BY <2>1
<1> QED BY <1>4

(* popitem(last=False) finds the first key.                                 *)
LEMMA OldestOf ==
  ASSUME NEW S \in SUBSET HeardTopics, S # {}, position \in [HeardTopics -> Nat]
  PROVE  Oldest(S) \in S /\ \A u \in S : position[Oldest(S)] <= position[u]
<1> DEFINE P == {position[u] : u \in S}
<1>1. P \in SUBSET Nat /\ P # {}
  OBVIOUS
<1>2. PICK n \in P : \A m \in P : n <= m
  BY <1>1, LeastOf
<1>3. PICK t \in S : n = position[t]
  OBVIOUS
<1>4. \A u \in S : position[t] <= position[u]
  BY <1>2, <1>3
<1> QED BY <1>4 DEF Oldest

LEMMA StatisticsInitInv == StatisticsInit => StatisticsIInv
<1> SUFFICES ASSUME StatisticsInit PROVE StatisticsIInv
  OBVIOUS
<1>1. IsFiniteSet(tracked) /\ Cardinality(tracked) = 0
  BY FS_EmptySet DEF StatisticsInit
<1> QED
  BY <1>1, StatisticsAssumption
  DEF StatisticsInit, StatisticsIInv, StatisticsTypeOK, OrderIsRecency, KeepsMostRecent

(* The keys left are older than the message, no older than a key left out,   *)
(* and make room for one more.                                              *)
LEMMA RestFacts ==
  ASSUME StatisticsIInv, NEW t \in HeardTopics
  PROVE  /\ Remaining(t) \subseteq tracked /\ t \notin Remaining(t)
         /\ IsFiniteSet(Remaining(t)) /\ Cardinality(Remaining(t)) \in Nat
         /\ Cardinality(Remaining(t)) + 1 <= MaxStatistics
         /\ \A u \in Remaining(t), w \in tracked \ Remaining(t) : w # t => last[w] < last[u]
         /\ (\E w \in HeardTopics \ Remaining(t) : w # t /\ last[w] > 0)
               => Cardinality(Remaining(t)) + 1 = MaxStatistics
<1> DEFINE others == tracked \ {t}
<1>1. /\ IsFiniteSet(tracked) /\ tracked \subseteq HeardTopics /\ Cardinality(tracked) \in Nat
      /\ Cardinality(tracked) <= MaxStatistics /\ MaxStatistics \in Nat /\ MaxStatistics >= 1
  BY FS_CardinalityType, StatisticsAssumption
  DEF StatisticsIInv, StatisticsTypeOK, OrderIsRecency, KeepsMostRecent
<1>2. /\ position \in [HeardTopics -> Nat] /\ last \in [HeardTopics -> Nat]
      /\ \A u \in tracked : position[u] = last[u] /\ last[u] > 0
      /\ \A u, w \in HeardTopics : u # w /\ last[u] > 0 => last[u] # last[w]
  BY DEF StatisticsIInv, StatisticsTypeOK, OrderIsRecency
<1>3. CASE t \in tracked
  <2>1. Remaining(t) = others
    BY <1>3 DEF Remaining
  <2>2. IsFiniteSet(others) /\ Cardinality(others) = Cardinality(tracked) - 1
    BY <1>1, <1>3, FS_RemoveElement
  <2>3. Cardinality(others) \in Nat
    BY <2>2, FS_CardinalityType
  <2>4. ASSUME NEW w \in HeardTopics \ others, w # t, last[w] > 0
        PROVE  Cardinality(tracked) = MaxStatistics
    BY <2>4 DEF StatisticsIInv, KeepsMostRecent
  <2> QED BY <1>1, <2>1, <2>2, <2>3, <2>4
<1>4. CASE t \notin tracked /\ Cardinality(tracked) < MaxStatistics
  <2>1. others = tracked
    BY <1>4
  <2>2. Remaining(t) = tracked
    BY <1>1, <1>4, <2>1 DEF Remaining
  <2>3. \A w \in HeardTopics \ tracked : ~(last[w] > 0)
    BY <1>1, <1>4 DEF StatisticsIInv, KeepsMostRecent
  <2> QED BY <1>1, <1>4, <2>2, <2>3
<1>5. CASE t \notin tracked /\ Cardinality(tracked) = MaxStatistics
  <2>1. others = tracked
    BY <1>5
  <2>2. Remaining(t) = tracked \ {Oldest(tracked)}
    BY <1>1, <1>5, <2>1 DEF Remaining
  <2>3. tracked # {}
    BY <1>1, <1>5, FS_EmptySet
  <2>4. Oldest(tracked) \in tracked /\ \A u \in tracked : position[Oldest(tracked)] <= position[u]
    BY <1>1, <1>2, <2>3, OldestOf
  <2>5. IsFiniteSet(Remaining(t)) /\ Cardinality(Remaining(t)) = MaxStatistics - 1
    BY <1>1, <1>5, <2>2, <2>4, FS_RemoveElement
  <2>6. \A u \in Remaining(t) : last[Oldest(tracked)] < last[u]
    <3> SUFFICES ASSUME NEW u \in Remaining(t) PROVE last[Oldest(tracked)] < last[u]
      OBVIOUS
    <3>1. u \in tracked /\ u # Oldest(tracked) /\ u \in HeardTopics /\ Oldest(tracked) \in HeardTopics
      BY <1>1, <2>2, <2>4
    <3>2. last[Oldest(tracked)] <= last[u] /\ last[Oldest(tracked)] # last[u]
      BY <1>2, <2>4, <3>1
    <3>3. last[Oldest(tracked)] \in Nat /\ last[u] \in Nat
      BY <1>2, <3>1
    <3> QED BY <3>2, <3>3
  <2>7. \A w \in tracked \ Remaining(t) : w = Oldest(tracked)
    BY <2>2
  <2> QED BY <1>1, <1>5, <2>2, <2>5, <2>6, <2>7
<1> QED BY <1>1, <1>3, <1>4, <1>5

LEMMA HandleMessageInv ==
  ASSUME StatisticsIInv, NEW t \in HeardTopics, HandleMessage(t)
  PROVE  StatisticsIInv'
<1>1. /\ position \in [HeardTopics -> Nat] /\ last \in [HeardTopics -> Nat] /\ handled \in Nat
      /\ message_count \in [HeardTopics -> Nat] /\ tracked \subseteq HeardTopics
  BY DEF StatisticsIInv, StatisticsTypeOK
<1>2. /\ tracked' = Remaining(t) \cup {t} /\ handled' = handled + 1
      /\ position' = [position EXCEPT ![t] = handled + 1]
      /\ last' = [last EXCEPT ![t] = handled + 1]
  BY DEF HandleMessage, Reinsert
<1>3. /\ last'[t] = handled + 1 /\ position'[t] = handled + 1
      /\ \A u \in HeardTopics : u # t => last'[u] = last[u] /\ position'[u] = position[u]
  BY <1>1, <1>2
<1>4. \A u \in HeardTopics : last[u] \in Nat /\ last[u] <= handled
  BY <1>1 DEF StatisticsIInv, OrderIsRecency
<1>5. StatisticsTypeOK'
  <2>1. message_count' \in [HeardTopics -> Nat]
    BY <1>1 DEF HandleMessage, Count
  <2>2. tracked' \subseteq HeardTopics
    BY <1>1, <1>2, RestFacts
  <2>3. handled' \in Nat
    BY <1>1, <1>2
  <2>4. position' \in [HeardTopics -> Nat]
    BY <1>1, <1>2
  <2>5. last' \in [HeardTopics -> Nat]
    BY <1>1, <1>2
  <2> QED BY <2>1, <2>2, <2>3, <2>4, <2>5 DEF StatisticsTypeOK
<1>6. IsFiniteSet(tracked') /\ Cardinality(tracked') = Cardinality(Remaining(t)) + 1
  BY <1>2, RestFacts, FS_AddElement
<1>7. OrderIsRecency'
  <2>1. \A u \in tracked' : position'[u] = last'[u] /\ last'[u] > 0
    <3> SUFFICES ASSUME NEW u \in tracked' PROVE position'[u] = last'[u] /\ last'[u] > 0
      OBVIOUS
    <3>1. CASE u = t
      BY <1>1, <1>3, <3>1
    <3>2. CASE u # t
      <4>1. u \in tracked /\ u \in HeardTopics
        BY <1>1, <1>2, <3>2, RestFacts
      <4> QED BY <1>3, <3>2, <4>1 DEF StatisticsIInv, OrderIsRecency
    <3> QED BY <3>1, <3>2
  <2>2. ASSUME NEW u \in HeardTopics, NEW w \in HeardTopics, u # w, last'[u] > 0
        PROVE  last'[u] # last'[w]
    <3>1. CASE u = t
      BY <1>1, <1>3, <1>4, <2>2, <3>1
    <3>2. CASE w = t
      BY <1>1, <1>3, <1>4, <2>2, <3>2
    <3>3. CASE u # t /\ w # t
      BY <1>3, <2>2, <3>3 DEF StatisticsIInv, OrderIsRecency
    <3> QED BY <3>1, <3>2, <3>3
  <2>3. ASSUME NEW u \in HeardTopics PROVE last'[u] <= handled'
    <3>1. CASE u = t
      BY <1>1, <1>2, <1>3, <3>1
    <3>2. CASE u # t
      BY <1>1, <1>2, <1>3, <1>4, <3>2
    <3> QED BY <3>1, <3>2
  <2> QED BY <1>6, <2>1, <2>2, <2>3 DEF OrderIsRecency
<1>8. KeepsMostRecent'
  <2>1. Cardinality(tracked') <= MaxStatistics
    BY <1>6, RestFacts
  <2>2. ASSUME NEW v \in tracked', NEW u \in HeardTopics \ tracked'
        PROVE  last'[u] < last'[v]
    <3>1. u # t /\ u \notin Remaining(t) /\ last'[u] = last[u]
      BY <1>2, <1>3, <2>2
    <3>2. CASE v = t
      BY <1>1, <1>3, <1>4, <3>1, <3>2
    <3>3. CASE v # t
      <4>1. v \in Remaining(t) /\ v \in tracked /\ last'[v] = last[v]
        BY <1>1, <1>2, <1>3, <3>3, RestFacts
      <4>2. CASE u \in tracked
        BY <3>1, <4>1, <4>2, RestFacts
      <4>3. CASE u \notin tracked
        BY <3>1, <4>1, <4>3 DEF StatisticsIInv, KeepsMostRecent
      <4> QED BY <4>2, <4>3
    <3> QED BY <3>2, <3>3
  <2>3. ASSUME NEW u \in HeardTopics \ tracked', last'[u] > 0
        PROVE  Cardinality(tracked') = MaxStatistics
    <3>1. u # t /\ u \notin Remaining(t) /\ last'[u] = last[u]
      BY <1>2, <1>3, <2>3
    <3> QED BY <1>6, <2>3, <3>1, RestFacts
  <2> QED BY <2>1, <2>2, <2>3 DEF KeepsMostRecent
<1> QED BY <1>5, <1>7, <1>8 DEF StatisticsIInv

LEMMA IgnoreMessageInv ==
  ASSUME StatisticsIInv, UNCHANGED <<tracked, position, message_count, last>>,
         handled' = handled + 1 \/ handled' = handled
  PROVE  StatisticsIInv'
<1>1. handled \in Nat /\ last \in [HeardTopics -> Nat]
  BY DEF StatisticsIInv, StatisticsTypeOK
<1>2. StatisticsTypeOK'
  BY <1>1 DEF StatisticsIInv, StatisticsTypeOK
<1>3. OrderIsRecency'
  BY <1>1 DEF StatisticsIInv, OrderIsRecency
<1>4. KeepsMostRecent'
  BY DEF StatisticsIInv, KeepsMostRecent
<1> QED BY <1>2, <1>3, <1>4 DEF StatisticsIInv

LEMMA StatisticsNextInv ==
    StatisticsIInv /\ [StatisticsNext]_statisticsVars => StatisticsIInv'
<1> SUFFICES ASSUME StatisticsIInv, [StatisticsNext]_statisticsVars PROVE StatisticsIInv'
  OBVIOUS
<1>1. CASE UNCHANGED statisticsVars
  BY <1>1, IgnoreMessageInv DEF statisticsVars
<1>2. ASSUME NEW t \in HeardTopics, NEW big \in BOOLEAN, IgnoreMessage(t, big) PROVE StatisticsIInv'
  BY <1>2, IgnoreMessageInv DEF IgnoreMessage
<1> QED BY <1>1, <1>2, HandleMessageInv DEF StatisticsNext

(* handle_message keeps the statistics of exactly the most recently heard    *)
(* topics, as many as mqtt_queue_size allows, for any number of topics and   *)
(* any limit.                                                               *)
THEOREM StatisticsAreRecent == StatisticsSpec => []KeepsMostRecent
<1>1. StatisticsIInv => KeepsMostRecent
  BY DEF StatisticsIInv
<1> QED BY <1>1, StatisticsInitInv, StatisticsNextInv, PTL DEF StatisticsSpec

------------------------------------------------------------------------------
(* RetainedQuery.                                                           *)

(* The packets between the broker and the futures.                          *)
UnderWay == ToSet(wire) \cup ToSet(pending)

QueryTypes ==
    /\ pc \in [Queries -> {"idle", "waiting", "done"}] /\ topic \in [Queries -> Topics]
    /\ future \in [Queries -> SUBSET Packet] /\ answer \in [Queries -> Answers]
    /\ held \in SUBSET Topics
    /\ value \in 0..MaxValues /\ retained \in [Topics -> 0..MaxValues]
    /\ wire \in Seq(Packet) /\ pending \in Seq(Packet)
    /\ asked \in [Queries -> 0..MaxValues]
    /\ quiet \in [Queries -> BOOLEAN] /\ promised \in [Queries -> BOOLEAN]

(* Values are numbered as they are published, so that the retained one is   *)
(* never older than what a query found.                                     *)
Ages ==
    /\ \A t \in Topics : retained[t] <= value
    /\ \A q \in Queries :
          /\ asked[q] <= value
          /\ retained[topic[q]] = 0 \/ asked[q] <= retained[topic[q]]

Untouched == \A q \in Queries : pc[q] = "idle" => future[q] = {}

(* What was promised to a waiting query is under way or has arrived.        *)
Promises ==
    \A q \in Queries : promised[q] =>
        /\ pc[q] = "waiting"
        /\ future[q] # {} \/ \E m \in UnderWay : Completes(q, m)

(* Nothing that could answer a query asked in a quiet moment is older.      *)
NothingOlder ==
    \A q \in Queries : quiet[q] =>
        /\ \A m \in UnderWay : Completes(q, m) => asked[q] <= m.value
        /\ \A m \in future[q] : asked[q] <= m.value

QueryIInv == QueryTypes /\ Ages /\ Untouched /\ Promises /\ NothingOlder

LEMMA IntervalSize ==
    ASSUME NEW n \in Nat
    PROVE  IsFiniteSet(1..n) /\ Cardinality(1..n) = n
BY FS_Interval

LEMMA ConcatSet ==
    ASSUME NEW S, NEW s \in Seq(S), NEW t \in Seq(S)
    PROVE  s \o t \in Seq(S) /\ ToSet(s \o t) = ToSet(s) \cup ToSet(t)
<1>1. /\ s \o t \in Seq(S) /\ Len(s \o t) = Len(s) + Len(t)
      /\ \A i \in 1..(Len(s) + Len(t)) :
            (s \o t)[i] = IF i <= Len(s) THEN s[i] ELSE t[i - Len(s)]
  BY ConcatProperties
<1>2. Len(s) \in Nat /\ Len(t) \in Nat /\ DOMAIN s = 1..Len(s) /\ DOMAIN t = 1..Len(t)
  OBVIOUS
<1>3. DOMAIN (s \o t) = 1..(Len(s) + Len(t))
  BY <1>1
<1>4. ToSet(s \o t) \subseteq ToSet(s) \cup ToSet(t)
  <2> SUFFICES ASSUME NEW i \in 1..(Len(s) + Len(t)) PROVE (s \o t)[i] \in ToSet(s) \cup ToSet(t)
    BY <1>3 DEF ToSet
  <2>1. CASE i <= Len(s)
    <3>1. i \in DOMAIN s /\ (s \o t)[i] = s[i]
      BY <1>1, <1>2, <2>1
    <3> QED BY <3>1 DEF ToSet
  <2>2. CASE ~(i <= Len(s))
    <3>1. i - Len(s) \in DOMAIN t /\ (s \o t)[i] = t[i - Len(s)]
      BY <1>1, <1>2, <2>2
    <3> QED BY <3>1 DEF ToSet
  <2> QED BY <2>1, <2>2
<1>5. ToSet(s) \subseteq ToSet(s \o t)
  <2> SUFFICES ASSUME NEW i \in 1..Len(s) PROVE s[i] \in ToSet(s \o t)
    BY <1>2 DEF ToSet
  <2>1. i \in 1..(Len(s) + Len(t)) /\ (s \o t)[i] = s[i]
    BY <1>1, <1>2
  <2> QED BY <1>3, <2>1 DEF ToSet
<1>6. ToSet(t) \subseteq ToSet(s \o t)
  <2> SUFFICES ASSUME NEW i \in 1..Len(t) PROVE t[i] \in ToSet(s \o t)
    BY <1>2 DEF ToSet
  <2>1. i + Len(s) \in 1..(Len(s) + Len(t)) /\ (s \o t)[i + Len(s)] = t[i]
    BY <1>1, <1>2
  <2> QED BY <1>3, <2>1 DEF ToSet
<1> QED BY <1>1, <1>4, <1>5, <1>6

LEMMA AppendSet ==
    ASSUME NEW S, NEW s \in Seq(S), NEW e \in S
    PROVE  Append(s, e) \in Seq(S) /\ ToSet(Append(s, e)) = ToSet(s) \cup {e}
<1> DEFINE n == Len(s)
           a == Append(s, e)
<1>1. /\ a \in Seq(S) /\ Len(a) = n + 1 /\ n \in Nat
      /\ \A i \in 1..n : a[i] = s[i]
      /\ a[n + 1] = e
  OBVIOUS
<1>2. DOMAIN a = 1..(n + 1) /\ DOMAIN s = 1..n
  BY <1>1
<1> HIDE DEF n, a
<1>3. \A i \in 1..(n + 1) : i \in 1..n \/ i = n + 1
  BY <1>1
<1>4. n + 1 \in 1..(n + 1) /\ \A i \in 1..n : i \in 1..(n + 1)
  BY <1>1
<1>5. ToSet(a) = ToSet(s) \cup {e}
  BY <1>1, <1>2, <1>3, <1>4 DEF ToSet
<1> QED BY <1>1, <1>5 DEF a

LEMMA TailSet ==
    ASSUME NEW S, NEW s \in Seq(S), s # <<>>
    PROVE  /\ Tail(s) \in Seq(S) /\ Head(s) \in S
           /\ ToSet(s) = {Head(s)} \cup ToSet(Tail(s))
<1> DEFINE t == Tail(s)
           n == Len(s)
<1>1. /\ t \in Seq(S) /\ n \in Nat /\ n >= 1 /\ Len(t) = n - 1 /\ Head(s) = s[1]
      /\ \A i \in 1..(n - 1) : t[i] = s[i + 1]
  OBVIOUS
<1>2. DOMAIN t = 1..(n - 1) /\ DOMAIN s = 1..n /\ s[1] \in S
  BY <1>1
<1> HIDE DEF n, t
<1>3. ToSet(s) \subseteq {Head(s)} \cup ToSet(t)
  <2> SUFFICES ASSUME NEW i \in 1..n PROVE s[i] \in {Head(s)} \cup ToSet(t)
    BY <1>2 DEF ToSet
  <2>1. CASE i = 1
    BY <1>1, <2>1
  <2>2. CASE i # 1
    <3>1. i - 1 \in 1..(n - 1) /\ t[i - 1] = s[i]
      BY <1>1, <2>2
    <3> QED BY <1>2, <3>1 DEF ToSet
  <2> QED BY <2>1, <2>2
<1>4. ASSUME NEW i \in 1..(n - 1) PROVE t[i] \in ToSet(s)
  <2>1. i + 1 \in 1..n /\ t[i] = s[i + 1]
    BY <1>1
  <2> QED BY <1>2, <2>1 DEF ToSet
<1>5. ToSet(t) \subseteq ToSet(s)
  BY <1>2, <1>4 DEF ToSet
<1>6. Head(s) \in ToSet(s) /\ 1 \in 1..n
  BY <1>1, <1>2 DEF ToSet
<1> QED BY <1>1, <1>2, <1>3, <1>5, <1>6 DEF t

(* What the broker answers a SUBSCRIBE with: each retained value, once.      *)
Reply(t) == [topic |-> t, value |-> retained[t], retain |-> TRUE]

LEMMA RepliesSet ==
    ASSUME QueryTypes, NEW ts \in SUBSET Topics
    PROVE  /\ Replies(ts) \in Seq(Packet)
           /\ ToSet(Replies(ts)) = {Reply(t) : t \in {t \in ts : retained[t] # 0}}
<1> DEFINE present == {t \in ts : retained[t] # 0}
           n == Cardinality(present)
           order == SetToSeq(present)
<1>1. IsFiniteSet(present)
  <2>1. present \in SUBSET Topics
    OBVIOUS
  <2> HIDE DEF present
  <2> QED BY <2>1, FS_Subset, RetainedAssumption
<1> HIDE DEF present
<1>2. n \in Nat /\ ExistsBijection(1..n, present)
  BY <1>1, FS_CardinalityType
<1>3. \E f \in [1..n -> present] : IsInjective(f)
  BY <1>2 DEF ExistsBijection, Bijection, Injection
<1>4. order \in [1..n -> present] /\ IsInjective(order)
  BY <1>3 DEF SetToSeq
<1>5. IsFiniteSet(1..n) /\ Cardinality(1..n) = n
  BY <1>2, IntervalSize
<1> HIDE DEF order, n
<1>6. order \in Surjection(1..n, present)
  <2>1. order \in Injection(1..n, present)
    BY <1>4 DEF Injection
  <2> QED BY <1>1, <1>5, <2>1, FS_Injection DEF n
<1>7. \A t \in present : \E i \in 1..n : order[i] = t
  BY <1>6 DEF Surjection
<1>8. Replies(ts) = [i \in 1..n |-> Reply(order[i])]
  BY DEF Replies, Reply, present, n, order
<1>9. \A t \in present : Reply(t) \in Packet
  BY DEF present, Reply, Packet, QueryTypes
<1>10. Replies(ts) \in Seq(Packet)
  BY <1>2, <1>4, <1>8, <1>9
<1>11. ToSet(Replies(ts)) = {Reply(t) : t \in present}
  BY <1>4, <1>7, <1>8 DEF ToSet
<1> QED BY <1>10, <1>11 DEF present

LEMMA QueryIInvInit == QueryInit => QueryIInv
<1> SUFFICES ASSUME QueryInit PROVE QueryIInv
  OBVIOUS
<1> USE DEF QueryInit
<1>1. QueryTypes
  <2>1. 0 \in 0..MaxValues
    BY RetainedAssumption
  <2>2. <<>> \in Seq(Packet)
    OBVIOUS
  <2>3. future \in [Queries -> SUBSET Packet]
    OBVIOUS
  <2> QED BY <2>1, <2>2, <2>3 DEF QueryTypes, Answers
<1>2. UnderWay = {}
  BY DEF UnderWay, ToSet
<1> QED BY <1>1, <1>2 DEF QueryIInv, QueryTypes, Ages, Untouched, Promises, NothingOlder

LEMMA PublishKeeps ==
    ASSUME QueryIInv, NEW t \in Topics, Publish(t) PROVE QueryIInv'
<1> USE DEF QueryIInv
<1> DEFINE live == [topic |-> t, value |-> value + 1, retain |-> FALSE]
<1>1. value + 1 \in 1..MaxValues /\ value' = value + 1 /\ value \in 0..MaxValues
  BY RetainedAssumption DEF Publish, QueryTypes
<1>2. live \in Packet
  BY <1>1 DEF Packet
<1>3. wire' \in Seq(Packet) /\ ToSet(wire) \subseteq ToSet(wire')
      /\ ToSet(wire') \subseteq ToSet(wire) \cup {live}
  <2>1. wire' = wire \/ wire' = Append(wire, live)
    BY <1>1 DEF Publish
  <2>2. CASE wire' = wire
    BY <2>2 DEF QueryTypes
  <2>3. CASE wire' = Append(wire, live)
    <3> HIDE DEF live
    <3> QED BY <1>2, <2>3, AppendSet DEF QueryTypes
  <2> QED BY <2>1, <2>2, <2>3
<1>4. QueryTypes'
  BY <1>1, <1>3 DEF QueryTypes, Publish
<1>5. \A q \in Queries : ~Completes(q, live)
  BY DEF Completes
<1>6. UnderWay \subseteq UnderWay' /\ UnderWay' \subseteq UnderWay \cup {live}
  BY <1>3 DEF UnderWay, Publish
<1> HIDE DEF live
<1>7. \A m : \A q \in Queries : Completes(q, m)' = Completes(q, m)
  BY DEF Completes, Publish
<1>8. Promises' /\ NothingOlder'
  BY <1>5, <1>6, <1>7 DEF Promises, NothingOlder, Publish
<1>9. Ages'
  BY <1>1, RetainedAssumption DEF Ages, Publish, QueryTypes
<1> QED BY <1>4, <1>8, <1>9 DEF Untouched, Publish

LEMMA ClearKeeps ==
    ASSUME QueryIInv, NEW t \in Topics, Clear(t) PROVE QueryIInv'
<1> USE DEF QueryIInv, Clear
<1>1. QueryTypes'
  BY RetainedAssumption DEF QueryTypes
<1>2. Ages'
  BY RetainedAssumption DEF Ages, QueryTypes
<1> QED BY <1>1, <1>2 DEF Untouched, Promises, NothingOlder, UnderWay, Completes

LEMMA DropKeeps ==
    ASSUME QueryIInv, Drop PROVE QueryIInv'
<1> USE DEF QueryIInv, Drop
<1>1. QueryTypes'
  BY DEF QueryTypes
<1>2. UnderWay' \subseteq UnderWay
  BY DEF UnderWay, ToSet
<1> QED BY <1>1, <1>2 DEF Ages, Untouched, Promises, NothingOlder, Completes

LEMMA ReconnectKeeps ==
    ASSUME QueryIInv, Reconnect PROVE QueryIInv'
<1> USE DEF QueryIInv
<1> DEFINE sent == {Reply(t) : t \in {t \in Subscribed : retained[t] # 0}}
<1>1. Subscribed \in SUBSET Topics
  BY DEF Subscribed, QueryTypes
<1>2. wire' \in Seq(Packet) /\ ToSet(wire') = sent
  BY <1>1, RepliesSet DEF Reconnect
<1>3. QueryTypes'
  <2>1. promised' \in [Queries -> BOOLEAN]
    BY Zenon DEF Reconnect
  <2> QED BY <1>2, <2>1 DEF QueryTypes, Reconnect
<1>4. UnderWay' = sent \cup ToSet(pending)
  BY <1>2 DEF UnderWay, Reconnect
<1>5. Promises'
  <2> SUFFICES ASSUME NEW q \in Queries, pc[q] = "waiting", retained[topic[q]] # 0
               PROVE  \E m \in sent : m.topic = topic[q] /\ m.retain
    BY <1>4 DEF Promises, Reconnect, Completes
  <2>1. topic[q] \in Subscribed
    BY DEF Subscribed
  <2>2. Reply(topic[q]) \in sent
    BY <2>1
  <2> QED BY <2>2 DEF Reply
<1>6. NothingOlder'
  <2> SUFFICES ASSUME NEW q \in Queries, quiet[q], NEW m \in sent, Completes(q, m)
               PROVE  asked[q] <= m.value
    BY <1>4 DEF NothingOlder, Reconnect, Completes, UnderWay
  <2>1. m = Reply(topic[q]) /\ retained[topic[q]] # 0
    BY DEF Completes, Reply
  <2> QED BY <2>1 DEF Ages, Reply
<1> QED BY <1>3, <1>5, <1>6 DEF Ages, Untouched, Reconnect

LEMMA OnMessageKeeps ==
    ASSUME QueryIInv, OnMessage PROVE QueryIInv'
<1> USE DEF QueryIInv
<1> DEFINE e == Head(wire)
           all == Append(pending, e)
<1>1. /\ wire' \in Seq(Packet) /\ e \in Packet
      /\ ToSet(wire) = {e} \cup ToSet(wire')
  BY TailSet DEF OnMessage, QueryTypes
<1>2. all \in Seq(Packet) /\ ToSet(all) = ToSet(pending) \cup {e} /\ all # <<>>
  <2> HIDE DEF e
  <2>1. pending \in Seq(Packet)
    BY DEF QueryTypes
  <2>2. all # <<>>
    BY <1>1, <2>1
  <2> QED BY <1>1, <2>1, <2>2, AppendSet
<1> HIDE DEF e, all
<1>3. /\ Tail(all) \in Seq(Packet)
      /\ ToSet(all) = {Head(all)} \cup ToSet(Tail(all))
  BY <1>2, TailSet
<1>4. pending' = IF Len(all) > QueueSize THEN Tail(all) ELSE all
  BY DEF OnMessage, all, e
<1>5. promised' = [q \in Queries |->
         promised[q] /\ ~(Len(all) > QueueSize /\ Head(all).topic = topic[q])]
  BY DEF OnMessage, all, e
<1>6. QueryTypes'
  <2>1. promised' \in [Queries -> BOOLEAN]
    BY <1>5, Zenon
  <2>2. pending' \in Seq(Packet)
    BY <1>2, <1>3, <1>4
  <2> QED BY <1>1, <2>1, <2>2 DEF QueryTypes, OnMessage
<1>7. UnderWay = ToSet(wire') \cup ToSet(all)
  BY <1>1, <1>2 DEF UnderWay
<1>8. UnderWay' \subseteq UnderWay
  BY <1>3, <1>4, <1>7 DEF UnderWay
<1>9. ASSUME NEW q \in Queries, promised'[q], NEW m \in UnderWay, Completes(q, m)
      PROVE  m \in UnderWay'
  <2>1. CASE Len(all) > QueueSize
    <3>1. m # Head(all)
      BY <1>5, <1>9, <2>1 DEF Completes
    <3> QED BY <1>3, <1>4, <1>7, <2>1, <3>1 DEF UnderWay
  <2>2. CASE ~(Len(all) > QueueSize)
    BY <1>4, <1>7, <2>2 DEF UnderWay
  <2> QED BY <2>1, <2>2
<1>10. \A m : \A q \in Queries : Completes(q, m)' = Completes(q, m)
  BY DEF Completes, OnMessage
<1>11. Promises'
  <2> SUFFICES ASSUME NEW q \in Queries, promised'[q]
               PROVE  /\ pc[q] = "waiting"
                      /\ future[q] # {} \/ \E m \in UnderWay' : Completes(q, m)
    BY <1>10 DEF Promises, OnMessage
  <2>1. promised[q]
    BY <1>5
  <2> QED BY <1>9, <2>1 DEF Promises
<1>12. NothingOlder'
  BY <1>8, <1>10 DEF NothingOlder, OnMessage
<1> QED BY <1>6, <1>11, <1>12 DEF Ages, Untouched, OnMessage

(* A packet that completes the query is found when there is one.             *)
LEMMA HitIsFound ==
    ASSUME QueryTypes, NEW q \in Queries, NEW m \in ToSet(pending), Completes(q, m)
    PROVE  FirstHit(q) # {}
<1> DEFINE hits == {i \in DOMAIN pending : Completes(q, pending[i])}
<1>1. DOMAIN pending \in SUBSET Nat /\ DOMAIN pending = 1..Len(pending) /\ Len(pending) \in Nat
  BY DEF QueryTypes
<1>2. hits # {} /\ hits \in SUBSET Nat
  BY <1>1 DEF ToSet
<1>3. PICK i \in hits : \A j \in hits : i <= j
  <2> HIDE DEF hits
  <2> QED BY <1>2, LeastOf
<1>4. i \in 1..Len(pending)
  BY <1>1, <1>3
<1>5. \A j \in 1..(i - 1) : ~Completes(q, pending[j])
  <2> SUFFICES ASSUME NEW j \in 1..(i - 1), Completes(q, pending[j]) PROVE FALSE
    OBVIOUS
  <2>1. j \in DOMAIN pending /\ ~(i <= j)
    BY <1>1, <1>4
  <2> QED BY <1>3, <2>1
<1>6. pending[i] \in FirstHit(q)
  BY <1>3, <1>5 DEF FirstHit
<1> QED BY <1>6

LEMMA DrainKeeps ==
    ASSUME QueryIInv, Drain PROVE QueryIInv'
<1> USE DEF QueryIInv
<1>1. \A q \in Queries : FirstHit(q) \subseteq {m \in ToSet(pending) : Completes(q, m)}
  BY DEF FirstHit, ToSet
<1>2. ToSet(pending) \subseteq Packet
  BY DEF ToSet, QueryTypes
<1>3. QueryTypes'
  <2>1. future' \in [Queries -> SUBSET Packet]
    BY <1>1, <1>2 DEF Drain, QueryTypes
  <2>2. pending' \in Seq(Packet)
    BY DEF Drain
  <2> QED BY <2>1, <2>2 DEF QueryTypes, Drain
<1>4. UnderWay' = ToSet(wire)
  BY DEF UnderWay, Drain, ToSet
<1>5. \A m : \A q \in Queries : Completes(q, m)' = Completes(q, m)
  BY DEF Completes, Drain
<1>6. Untouched'
  BY DEF Untouched, Drain
<1>7. Promises'
  <2> SUFFICES ASSUME NEW q \in Queries, promised[q]
               PROVE  /\ pc[q] = "waiting"
                      /\ future'[q] # {} \/ \E m \in ToSet(wire) : Completes(q, m)
    BY <1>4, <1>5 DEF Promises, Drain
  <2>1. pc[q] = "waiting" /\ (future[q] # {} \/ \E m \in UnderWay : Completes(q, m))
    BY DEF Promises
  <2>2. future'[q] = IF future[q] = {} THEN FirstHit(q) ELSE future[q]
    BY <2>1 DEF Drain
  <2> QED BY <2>1, <2>2, HitIsFound DEF UnderWay
<1>8. NothingOlder'
  <2> SUFFICES ASSUME NEW q \in Queries, quiet[q], NEW m \in future'[q]
               PROVE  asked[q] <= m.value
    BY <1>4, <1>5 DEF NothingOlder, UnderWay, Drain
  <2>1. m \in future[q] \/ m \in FirstHit(q)
    BY DEF Drain
  <2> QED BY <1>1, <2>1 DEF NothingOlder, UnderWay
<1> QED BY <1>3, <1>6, <1>7, <1>8 DEF Ages, Drain

LEMMA AskKeeps ==
    ASSUME QueryIInv, NEW q \in Queries, Ask(q) PROVE QueryIInv'
<1> USE DEF QueryIInv
<1> DEFINE sent == {Reply(t) : t \in {t \in {topic[q]} : retained[t] # 0}}
<1>1. topic[q] \in Topics /\ {topic[q]} \in SUBSET Topics
  BY DEF QueryTypes
<1>2. Replies({topic[q]}) \in Seq(Packet) /\ ToSet(Replies({topic[q]})) = sent
  BY <1>1, RepliesSet
<1>3. wire' \in Seq(Packet) /\ ToSet(wire') = ToSet(wire) \cup sent
  <2>1. wire' = wire \o Replies({topic[q]}) /\ wire \in Seq(Packet)
    BY DEF Ask, Refresh, QueryTypes
  <2> HIDE DEF sent
  <2> QED BY <1>2, <2>1, ConcatSet
<1>4. UnderWay' = UnderWay \cup sent
  BY <1>3 DEF UnderWay, Ask
<1>5. QueryTypes'
  <2>1. quiet' \in [Queries -> BOOLEAN]
    BY Zenon DEF Ask, QueryTypes
  <2>2. promised' \in [Queries -> BOOLEAN]
    BY Zenon DEF Ask, QueryTypes
  <2>3. asked' \in [Queries -> 0..MaxValues] /\ pc' \in [Queries -> {"idle", "waiting", "done"}]
    BY <1>1 DEF Ask, QueryTypes
  <2> QED BY <1>3, <2>1, <2>2, <2>3 DEF QueryTypes, Ask
<1>6. \A m : \A r \in Queries : Completes(r, m)' = Completes(r, m)
  BY DEF Completes, Ask
<1>7. ASSUME NEW r \in Queries, NEW m \in sent, Completes(r, m)
      PROVE  topic[r] = topic[q] /\ m.value = retained[topic[r]] /\ m.value # 0
  BY <1>7 DEF Completes, Reply
<1>8. Promises'
  <2> SUFFICES ASSUME NEW r \in Queries, promised'[r]
               PROVE  /\ pc'[r] = "waiting"
                      /\ future[r] # {} \/ \E m \in UnderWay' : Completes(r, m)
    BY <1>6 DEF Promises, Ask
  <2>1. CASE r = q
    <3>1. retained[topic[q]] # 0 /\ pc'[q] = "waiting"
      BY <2>1 DEF Ask, QueryTypes
    <3>2. Reply(topic[q]) \in sent
      BY <3>1
    <3>3. Completes(q, Reply(topic[q]))
      BY DEF Completes, Reply
    <3> QED BY <1>4, <2>1, <3>1, <3>2, <3>3
  <2>2. CASE r # q
    BY <1>4, <2>2 DEF Promises, Ask, QueryTypes
  <2> QED BY <2>1, <2>2
<1>9. NothingOlder'
  <2> SUFFICES ASSUME NEW r \in Queries, quiet'[r]
               PROVE  /\ \A m \in UnderWay' : Completes(r, m) => asked'[r] <= m.value
                      /\ \A m \in future[r] : asked'[r] <= m.value
    BY <1>6 DEF NothingOlder, Ask
  <2>1. CASE r = q
    <3>1. ToSet(wire \o pending) = UnderWay
      BY ConcatSet DEF UnderWay, QueryTypes
    <3>2. \A m \in UnderWay : ~Completes(q, m)
      BY <2>1, <3>1 DEF Ask, QueryTypes, Completes
    <3>3. asked'[q] = retained[topic[q]] /\ future[q] = {} /\ retained[topic[q]] \in Nat
      BY <1>1, RetainedAssumption DEF Ask, QueryTypes, Untouched
    <3> QED BY <1>4, <1>7, <2>1, <3>2, <3>3
  <2>2. CASE r # q
    <3>1. quiet[r] /\ asked'[r] = asked[r]
      BY <2>2 DEF Ask, QueryTypes
    <3>2. \A m \in sent : Completes(r, m) => asked[r] <= m.value
      BY <1>7 DEF Ages
    <3> QED BY <1>4, <3>1, <3>2 DEF NothingOlder
  <2> QED BY <2>1, <2>2
<1>10. Ages'
  BY <1>1, RetainedAssumption DEF Ages, Ask, QueryTypes
<1> QED BY <1>5, <1>8, <1>9, <1>10 DEF Untouched, Ask, QueryTypes

LEMMA AskFailsKeeps ==
    ASSUME QueryIInv, NEW q \in Queries, AskFails(q) PROVE QueryIInv'
<1> USE DEF QueryIInv, AskFails
<1>1. QueryTypes'
  BY DEF QueryTypes, Answers
<1>2. Untouched'
  BY DEF Untouched, QueryTypes
<1>3. Promises'
  BY DEF Promises, QueryTypes, UnderWay, Completes
<1> QED BY <1>1, <1>2, <1>3 DEF Ages, NothingOlder, UnderWay, Completes

LEMMA EndKeeps ==
    ASSUME QueryIInv, NEW q \in Queries, NEW result \in Answers, End(q, result)
    PROVE  QueryIInv'
<1> USE DEF QueryIInv, End
<1>1. QueryTypes'
  <2>1. promised' \in [Queries -> BOOLEAN]
    BY Zenon DEF QueryTypes
  <2> QED BY <2>1 DEF QueryTypes
<1>2. Untouched'
  BY DEF Untouched, QueryTypes
<1>3. Promises'
  BY DEF Promises, QueryTypes, UnderWay, Completes
<1> QED BY <1>1, <1>2, <1>3 DEF Ages, NothingOlder, UnderWay, Completes

(* The invariant behind QueriesAreServed is inductive.                       *)
LEMMA QueryStepKeeps == QueryIInv /\ [QueryNext]_queryVars => QueryIInv'
<1> SUFFICES ASSUME QueryIInv, [QueryNext]_queryVars PROVE QueryIInv'
  OBVIOUS
<1>1. ASSUME NEW t \in Topics, Publish(t) \/ Clear(t) PROVE QueryIInv'
  BY <1>1, PublishKeeps, ClearKeeps
<1>2. ASSUME Drop \/ Reconnect \/ OnMessage \/ Drain PROVE QueryIInv'
  BY <1>2, DropKeeps, ReconnectKeeps, OnMessageKeeps, DrainKeeps
<1>3. ASSUME NEW q \in Queries, Ask(q) \/ AskFails(q) PROVE QueryIInv'
  BY <1>3, AskKeeps, AskFailsKeeps
<1>4. ASSUME NEW q \in Queries, Return(q) \/ TimeOut(q) \/ Abandon(q) PROVE QueryIInv'
  <2>1. \E result \in Answers : End(q, result)
    BY <1>4 DEF Return, TimeOut, Abandon, Answers
  <2> QED BY <2>1, EndKeeps
<1>5. CASE UNCHANGED queryVars
  BY <1>5 DEF queryVars, QueryIInv, QueryTypes, Ages, Untouched, Promises, NothingOlder,
     UnderWay, Completes
<1> QED BY <1>1, <1>2, <1>3, <1>4, <1>5 DEF QueryNext

(* For any number of queries, topics and owners (mqtt_service.py:104-147): a *)
(* value the broker sent for a waiting query is in its future or still under *)
(* way until the connection drops or the deque overflows with it, and a      *)
(* query asked when no such packet was under way never answers with a value  *)
(* older than the one retained then.                                         *)
THEOREM QueriesAlwaysServed == QuerySpec => []QueriesAreServed
<1>1. QueryIInv => QueriesAreServed
  <2> SUFFICES ASSUME QueryIInv, NEW q \in Queries
               PROVE  /\ promised[q] => \/ future[q] # {}
                                        \/ \E m \in ToSet(wire \o pending) :
                                              m.topic = topic[q] /\ m.retain
                      /\ quiet[q] => NotOlder(q)
    BY DEF QueriesAreServed
  <2> USE DEF QueryIInv
  <2>1. ToSet(wire \o pending) = UnderWay
    BY ConcatSet DEF UnderWay, QueryTypes
  <2>2. quiet[q] => NotOlder(q)
    <3> SUFFICES ASSUME quiet[q], NEW m \in future[q] PROVE m.value >= asked[q]
      BY DEF NotOlder
    <3>1. asked[q] <= m.value
      BY DEF NothingOlder
    <3>2. m.value \in Nat /\ asked[q] \in Nat
      BY RetainedAssumption DEF QueryTypes, Packet
    <3> QED BY <3>1, <3>2
  <2> QED BY <2>1, <2>2 DEF Promises, Completes
<1> QED BY <1>1, QueryIInvInit, QueryStepKeeps, PTL DEF QuerySpec

==============================================================================

---------------------------- MODULE PlanningProofs ----------------------------
(****************************************************************************)
(* What the requests of Planning keep, for any plans, exports and folders:  *)
(* folders stay a forest, a frontier offers only work that may start, and,  *)
(* with one author or importer at a time, a plan has one issue per node and *)
(* an import that answers has landed.                                       *)
(****************************************************************************)
EXTENDS Planning, IssueRowsProofs, FiniteSetTheorems, WellFoundedInduction

----------------------------------------------------------------------------
(* Numbers and sequences *)

\* A set of numbers has a least element.
LEMMA LeastNat ==
    ASSUME NEW T \in SUBSET Nat, T # {}
    PROVE  \E n \in T : \A m \in T : n <= m
<1> DEFINE R == {e \in Nat \X Nat : e[1] < e[2]}
<1>1. IsWellFoundedOn(R, Nat)
  BY NatLessThanWellFounded DEF OpToRel
<1>2. PICK n \in T : \A m \in T : <<m, n>> \notin R
  <2> HIDE DEF R
  <2> QED BY <1>1, WFMin
<1>3. \A m \in T : ~(m < n)
  BY <1>2
<1> QED BY <1>3

\* SetToSeq lists a finite set.
LEMMA SetToSeqLists ==
    ASSUME NEW S, IsFiniteSet(S)
    PROVE  /\ SetToSeq(S) \in Seq(S)
           /\ \A x \in S : \E n \in DOMAIN SetToSeq(S) : SetToSeq(S)[n] = x
           /\ \A a, b \in DOMAIN SetToSeq(S) : SetToSeq(S)[a] = SetToSeq(S)[b] => a = b
<1> DEFINE k == Cardinality(S)
<1>1. PICK f : f \in Bijection(1 .. k, S)
  BY FS_NatBijection, FS_CardinalityType DEF ExistsBijection
<1>2. k \in Nat
  BY FS_CardinalityType
<1>3. f \in [1 .. k -> S] /\ IsInjective(f)
  BY <1>1 DEF Bijection, Injection
<1>4. SetToSeq(S) \in [1 .. k -> S] /\ IsInjective(SetToSeq(S))
  BY <1>3 DEF SetToSeq
<1> HIDE DEF k
<1>5. SetToSeq(S) \in Seq(S) /\ DOMAIN SetToSeq(S) = 1 .. k
  BY <1>2, <1>4
<1>6. ASSUME NEW x \in S PROVE \E n \in 1 .. k : SetToSeq(S)[n] = x
  <2>1. SetToSeq(S) \in Injection(1 .. k, S)
    BY <1>4 DEF Injection
  <2>2. IsFiniteSet(1 .. k) /\ Cardinality(1 .. k) = k
    BY <1>2, FS_Interval
  <2>3. SetToSeq(S) \in Surjection(1 .. k, S)
    BY <2>1, <2>2, FS_Injection DEF k
  <2> QED BY <2>3 DEF Surjection
<1>7. \A a, b \in 1 .. k : SetToSeq(S)[a] = SetToSeq(S)[b] => a = b
  BY <1>4 DEF IsInjective
<1> QED BY <1>5, <1>6, <1>7

\* The prefixes FlattenSeq builds on: flat[i] joins the first i sequences.
LEMMA FlattenIs ==
    ASSUME NEW T, NEW ss \in Seq(Seq(T)), Len(ss) # 0
    PROVE  \E flat :
              /\ FlattenSeq(ss) = flat[Len(ss)]
              /\ flat = [i \in 1 .. Len(ss) |-> IF i = 1 THEN ss[i] ELSE flat[i - 1] \o ss[i]]
<1> DEFINE n == Len(ss)
           Builds(f, k) == f = [i \in 1 .. k |-> IF i = 1 THEN ss[i] ELSE f[i - 1] \o ss[i]]
           Bad == {k \in 1 .. n : ~\E f : Builds(f, k)}
<1>1. n \in Nat \ {0}
  OBVIOUS
<1> HIDE DEF Builds, n
<1>2. Bad = {}
  <2> SUFFICES ASSUME Bad # {} PROVE FALSE
    OBVIOUS
  <2>1. PICK k \in Bad : \A m \in Bad : k <= m
    <3>1. Bad \subseteq Nat
      BY <1>1
    <3> HIDE DEF Bad
    <3> QED BY <3>1, LeastNat
  <2>2. k \in 1 .. n /\ ~\E f : Builds(f, k)
    BY <2>1
  <2>3. CASE k = 1
    <3> DEFINE f == [i \in 1 .. 1 |-> ss[i]]
    <3>1. f = [i \in 1 .. 1 |-> IF i = 1 THEN ss[i] ELSE f[i - 1] \o ss[i]]
      OBVIOUS
    <3>2. Builds(f, 1)
      BY <3>1 DEF Builds
    <3> QED BY <2>2, <2>3, <3>2
  <2>4. CASE k # 1
    <3>0. k - 1 \in 1 .. n
      BY <1>1, <2>2, <2>4
    <3>1. k - 1 \notin Bad
      <4> HIDE DEF Bad
      <4> QED BY <2>1, <2>2, <3>0
    <3>2. PICK f : Builds(f, k - 1)
      BY <3>0, <3>1
    <3> DEFINE g == [i \in 1 .. k |-> IF i = k THEN f[k - 1] \o ss[k] ELSE f[i]]
    <3>3. \A i \in 1 .. k - 1 : f[i] = IF i = 1 THEN ss[i] ELSE f[i - 1] \o ss[i]
      BY <3>2 DEF Builds
    <3>4. \A i \in 1 .. k : g[i] = IF i = 1 THEN ss[i] ELSE g[i - 1] \o ss[i]
      <4> SUFFICES ASSUME NEW i \in 1 .. k
                   PROVE  g[i] = IF i = 1 THEN ss[i] ELSE g[i - 1] \o ss[i]
        OBVIOUS
      <4>1. CASE i = k
        <5>1. g[i - 1] = f[k - 1]
          BY <4>1, <2>2, <2>4, <3>0
        <5> QED BY <4>1, <5>1, <2>4
      <4>2. CASE i # k
        <5>1. i \in 1 .. k - 1 /\ g[i] = f[i] /\ (i # 1 => g[i - 1] = f[i - 1])
          BY <4>2, <2>2
        <5> QED BY <5>1, <3>3
      <4> QED BY <4>1, <4>2
    <3>5. g = [i \in 1 .. k |-> IF i = 1 THEN ss[i] ELSE g[i - 1] \o ss[i]]
      <4>1. g = [i \in 1 .. k |-> g[i]]
        OBVIOUS
      <4> HIDE DEF g
      <4> QED BY <3>4, <4>1
    <3> HIDE DEF g
    <3>6. Builds(g, k)
      BY <3>5 DEF Builds
    <3> QED BY <2>2, <3>6
  <2> QED BY <2>3, <2>4
<1>3. \E f : Builds(f, n)
  <2>1. n \in 1 .. n
    BY <1>1
  <2>2. n \notin Bad
    BY <1>2
  <2> QED BY <2>1, <2>2
<1> DEFINE flat == CHOOSE f : Builds(f, n)
<1>4. Builds(flat, n)
  BY <1>3
<1>5. FlattenSeq(ss) = flat[n]
  BY DEF FlattenSeq, Builds, n
<1> QED BY <1>4, <1>5 DEF Builds, n

\* Where the elements of two joined sequences are.
LEMMA Joined ==
    ASSUME NEW T, NEW s \in Seq(T), NEW t \in Seq(T), NEW u, u = s \o t
    PROVE  /\ u \in Seq(T)
           /\ \A k \in DOMAIN s : k \in DOMAIN u /\ u[k] = s[k]
           /\ \A k \in DOMAIN t :
                 Len(s) + k \in DOMAIN u /\ u[Len(s) + k] = t[k]
           /\ \A k \in DOMAIN u :
                 \/ k \in DOMAIN s
                 \/ k - Len(s) \in DOMAIN t /\ u[k] = t[k - Len(s)]
<1>1. /\ u \in Seq(T) /\ Len(u) = Len(s) + Len(t)
      /\ \A k \in 1 .. Len(s) + Len(t) :
            u[k] = IF k <= Len(s) THEN s[k] ELSE t[k - Len(s)]
  OBVIOUS
<1>2. /\ DOMAIN s = 1 .. Len(s) /\ DOMAIN t = 1 .. Len(t) /\ Len(s) \in Nat /\ Len(t) \in Nat
      /\ DOMAIN u = 1 .. Len(s) + Len(t)
  BY <1>1
<1> QED BY <1>1, <1>2

\* FlattenSeq holds what its sequences hold.
LEMMA FlattenHolds ==
    ASSUME NEW T, NEW ss \in Seq(Seq(T)), NEW all, all = FlattenSeq(ss)
    PROVE  /\ all \in Seq(T)
           /\ \A k \in DOMAIN all : \E n \in DOMAIN ss : \E m \in DOMAIN ss[n] : all[k] = ss[n][m]
           /\ \A n \in DOMAIN ss : \A m \in DOMAIN ss[n] : \E k \in DOMAIN all : all[k] = ss[n][m]
<1>1. CASE Len(ss) = 0
  <2>1. ss = << >> /\ FlattenSeq(ss) = ss
    BY <1>1 DEF FlattenSeq
  <2>2. DOMAIN ss = {} /\ << >> \in Seq(T)
    BY <2>1
  <2> QED BY <2>1, <2>2
<1>2. CASE Len(ss) # 0
  <2>1. PICK flat :
           /\ FlattenSeq(ss) = flat[Len(ss)]
           /\ flat = [i \in 1 .. Len(ss) |-> IF i = 1 THEN ss[i] ELSE flat[i - 1] \o ss[i]]
    BY <1>2, FlattenIs
  <2> DEFINE Holds(i) ==
        /\ flat[i] \in Seq(T)
        /\ \A k \in DOMAIN flat[i] : \E n \in 1 .. i : \E m \in DOMAIN ss[n] :
              flat[i][k] = ss[n][m]
        /\ \A n \in 1 .. i : \A m \in DOMAIN ss[n] : \E k \in DOMAIN flat[i] :
              flat[i][k] = ss[n][m]
      Bad == {i \in 1 .. Len(ss) : ~Holds(i)}
  <2>2. Len(ss) \in Nat \ {0} /\ DOMAIN ss = 1 .. Len(ss)
        /\ \A i \in 1 .. Len(ss) : ss[i] \in Seq(T)
    BY <1>2
  <2>3. Bad = {}
    <3> SUFFICES ASSUME Bad # {} PROVE FALSE
      OBVIOUS
    <3>1. PICK i \in Bad : \A m \in Bad : i <= m
      <4>1. Bad \subseteq Nat
        BY <2>2
      <4> HIDE DEF Bad
      <4> QED BY <4>1, LeastNat
    <3>2. i \in 1 .. Len(ss) /\ ~Holds(i)
      BY <3>1
    <3>3. CASE i = 1
      <4>1. flat[1] = ss[1]
        BY <2>1, <2>2
      <4>2. flat[1] \in Seq(T)
        BY <4>1, <2>2
      <4>3. 1 .. 1 = {1}
        OBVIOUS
      <4>4. Holds(1)
        BY <4>1, <4>2, <4>3
      <4> HIDE DEF Holds
      <4> QED BY <3>2, <3>3, <4>4
    <3>4. CASE i # 1
      <4>0. i - 1 \in 1 .. Len(ss)
        BY <2>2, <3>2, <3>4
      <4>1. i - 1 \notin Bad
        <5> HIDE DEF Bad
        <5> QED BY <2>2, <3>1, <3>2, <4>0
      <4>2. Holds(i - 1)
        <5> HIDE DEF Holds
        <5> QED BY <4>0, <4>1
      <4>3. flat[i] = flat[i - 1] \o ss[i]
        BY <2>1, <3>2, <3>4
      <4> DEFINE s == flat[i - 1]
                 t == ss[i]
      <4>4. s \in Seq(T) /\ t \in Seq(T) /\ flat[i] = s \o t
        BY <4>2, <4>3, <2>2, <3>2
      <4>5. /\ \A k \in DOMAIN s : \E n \in 1 .. i - 1 : \E m \in DOMAIN ss[n] : s[k] = ss[n][m]
            /\ \A n \in 1 .. i - 1 : \A m \in DOMAIN ss[n] : \E k \in DOMAIN s : s[k] = ss[n][m]
        BY <4>2
      <4> HIDE DEF s, t
      <4>6. /\ flat[i] \in Seq(T)
            /\ \A k \in DOMAIN s : k \in DOMAIN flat[i] /\ flat[i][k] = s[k]
            /\ \A k \in DOMAIN t : Len(s) + k \in DOMAIN flat[i] /\ flat[i][Len(s) + k] = t[k]
            /\ \A k \in DOMAIN flat[i] :
                  k \in DOMAIN s \/ (k - Len(s) \in DOMAIN t /\ flat[i][k] = t[k - Len(s)])
        <5>1. s \in Seq(T) /\ t \in Seq(T) /\ flat[i] = s \o t
          BY <4>4
        <5> QED BY ONLY <5>1, Joined
      <4>7. ASSUME NEW k \in DOMAIN flat[i]
            PROVE  \E n \in 1 .. i : \E m \in DOMAIN ss[n] : flat[i][k] = ss[n][m]
        <5>1. CASE k \in DOMAIN s
          <6>1. PICK n \in 1 .. i - 1 : \E m \in DOMAIN ss[n] : s[k] = ss[n][m]
            BY <5>1, <4>5
          <6>2. n \in 1 .. i /\ flat[i][k] = s[k]
            BY <3>2, <5>1, <4>6
          <6> QED BY <6>1, <6>2
        <5>2. CASE k - Len(s) \in DOMAIN t /\ flat[i][k] = t[k - Len(s)]
          <6>1. i \in 1 .. i
            BY <3>2
          <6> QED BY <5>2, <6>1 DEF t
        <5> QED BY <4>6, <5>1, <5>2
      <4>8. ASSUME NEW n \in 1 .. i, NEW m \in DOMAIN ss[n]
            PROVE  \E k \in DOMAIN flat[i] : flat[i][k] = ss[n][m]
        <5>1. CASE n = i
          BY <5>1, <4>6 DEF t
        <5>2. CASE n # i
          <6>1. n \in 1 .. i - 1
            BY <5>2, <3>2
          <6>2. PICK k \in DOMAIN s : s[k] = ss[n][m]
            BY <6>1, <4>5
          <6> QED BY <6>2, <4>6
        <5> QED BY <5>1, <5>2
      <4>9. Holds(i)
        BY <4>6, <4>7, <4>8
      <4> HIDE DEF Holds
      <4> QED BY <3>2, <4>9
    <3> QED BY <3>3, <3>4
  <2>4. Holds(Len(ss))
    <3>1. Len(ss) \in 1 .. Len(ss)
      BY <2>2
    <3>2. Len(ss) \notin Bad
      BY <2>3
    <3> HIDE DEF Holds
    <3> QED BY <3>1, <3>2
  <2>6. DOMAIN ss = 1 .. Len(ss) /\ all = flat[Len(ss)]
    BY <2>1, <2>2
  <2>7. /\ all \in Seq(T)
        /\ \A k \in DOMAIN all : \E n \in 1 .. Len(ss) : \E m \in DOMAIN ss[n] : all[k] = ss[n][m]
        /\ \A n \in 1 .. Len(ss) : \A m \in DOMAIN ss[n] : \E k \in DOMAIN all : all[k] = ss[n][m]
    BY ONLY <2>4, <2>6
  <2>8. ASSUME NEW k \in DOMAIN all
        PROVE  \E n \in DOMAIN ss : \E m \in DOMAIN ss[n] : all[k] = ss[n][m]
    <3>1. PICK n \in 1 .. Len(ss) : \E m \in DOMAIN ss[n] : all[k] = ss[n][m]
      BY <2>7
    <3>2. n \in DOMAIN ss
      BY <2>6
    <3> QED BY <3>1, <3>2
  <2>9. ASSUME NEW n \in DOMAIN ss, NEW m \in DOMAIN ss[n]
        PROVE  \E k \in DOMAIN all : all[k] = ss[n][m]
    <3>1. n \in 1 .. Len(ss)
      BY <2>6
    <3> QED BY <2>7, <3>1
  <2> QED BY <2>7, <2>8, <2>9
<1> QED BY <1>1, <1>2

----------------------------------------------------------------------------
(* Folders *)

\* The ancestors of a folder are a set closed under parents that holds it.
LEMMA AncestorsClosed ==
    ASSUME NEW f \in Folders
    PROVE  /\ f \in Ancestors(f) /\ Ancestors(f) \subseteq Folders
           /\ \A h \in Ancestors(f) : ParentOf(h) \subseteq Ancestors(f)
<1>1. \A h \in Folders : ParentOf(h) \subseteq Folders
  BY DEF ParentOf
<1>2. ASSUME NEW h \in Ancestors(f), NEW g \in ParentOf(h) PROVE g \in Ancestors(f)
  <2>1. h \in Folders /\ g \in Folders
    BY <1>1, <1>2 DEF Ancestors
  <2>2. ASSUME NEW S \in SUBSET Folders, f \in S, \A x \in S : ParentOf(x) \subseteq S
        PROVE  g \in S
    <3>1. h \in S
      BY <2>2, <1>2 DEF Ancestors
    <3> QED BY <3>1, <2>2
  <2> QED BY <2>1, <2>2 DEF Ancestors
<1>3. f \in Ancestors(f) /\ Ancestors(f) \subseteq Folders
  BY DEF Ancestors
<1> QED BY <1>2, <1>3

\* And the least one.
LEMMA AncestorsLeast ==
    ASSUME NEW f \in Folders, NEW S \in SUBSET Folders, f \in S,
           \A h \in S : ParentOf(h) \subseteq S
    PROVE  Ancestors(f) \subseteq S
BY DEF Ancestors

LEMMA AncestorsLeastNext ==
    ASSUME NEW f \in Folders, NEW S \in SUBSET Folders, f \in S,
           \A h \in S : ParentOf(h)' \subseteq S
    PROVE  Ancestors(f)' \subseteq S
BY DEF Ancestors

\* A folder put under p, which it is no ancestor of, closes no cycle: where the walk up from
\* any parent passes it, the rest of the walk is that of p.
LEMMA ReparentedForest ==
    ASSUME folder \in [Folders -> Folders \cup {Root, NoFolder}],
           \A g \in Folders : \A q \in ParentOf(g) : g \notin Ancestors(q),
           NEW f \in Folders, NEW p \in Folders \cup {Root},
           p # Root => CanParent(f, p), folder' = [folder EXCEPT ![f] = p]
    PROVE  \A g \in Folders : \A q \in ParentOf(g)' : g \notin Ancestors(q)'
<1> SUFFICES ASSUME NEW g \in Folders, NEW q \in ParentOf(g)', g \in Ancestors(q)'
             PROVE  FALSE
  OBVIOUS
<1>1. /\ \A h \in Folders \ {f} : ParentOf(h)' = ParentOf(h)
      /\ ParentOf(f)' = IF p = Root THEN {} ELSE {p}
  BY FoldersAssumption DEF ParentOf
<1>2. q \in Folders
  BY DEF ParentOf
<1>3. p # Root => p \in Folders /\ f \notin Ancestors(p)
  BY DEF CanParent
<1>4. ASSUME NEW x \in Folders, f \notin Ancestors(x) PROVE Ancestors(x)' \subseteq Ancestors(x)
  <2>1. \A h \in Ancestors(x) : ParentOf(h)' \subseteq Ancestors(x)
    BY <1>1, <1>4, AncestorsClosed
  <2> QED BY <2>1, AncestorsClosed, AncestorsLeastNext
<1>5. CASE g = f
  <2>1. p # Root /\ q = p
    BY <1>1, <1>5
  <2> QED BY <1>3, <1>4, <1>5, <2>1
<1>6. CASE g # f
  <2>1. q \in ParentOf(g) /\ g \notin Ancestors(q)
    BY <1>1, <1>6
  <2>2. CASE f \notin Ancestors(q)
    BY <1>2, <1>4, <2>1, <2>2
  <2>3. CASE f \in Ancestors(q)
    <3> DEFINE S == Ancestors(q) \cup (IF p = Root THEN {} ELSE Ancestors(p))
    <3>1. S \in SUBSET Folders /\ q \in S
      BY <1>2, <1>3, AncestorsClosed
    <3>2. ASSUME NEW h \in S PROVE ParentOf(h)' \subseteq S
      <4>1. CASE h = f
        <5>1. p # Root => p \in Ancestors(p)
          BY <1>3, AncestorsClosed
        <5> QED BY <4>1, <5>1, <1>1
      <4>2. CASE h # f
        <5>1. h \in Folders /\ ParentOf(h)' = ParentOf(h)
          BY <4>2, <3>1, <1>1
        <5>2. CASE h \in Ancestors(q)
          BY <5>1, <5>2, <1>2, AncestorsClosed
        <5>3. CASE p # Root /\ h \in Ancestors(p)
          BY <5>1, <5>3, <1>3, AncestorsClosed
        <5> QED BY <5>2, <5>3
      <4> QED BY <4>1, <4>2
    <3>3. Ancestors(q)' \subseteq S
      <4> HIDE DEF S
      <4> QED BY <1>2, <3>1, <3>2, AncestorsLeastNext
    <3>4. p # Root /\ g \in Ancestors(p)
      BY <2>1, <3>3
    <3>5. q \in Ancestors(p)
      BY <1>3, <2>1, <3>4, AncestorsClosed
    <3>6. Ancestors(q) \subseteq Ancestors(p)
      BY <1>2, <1>3, <3>4, <3>5, AncestorsClosed, AncestorsLeast
    <3> QED BY <1>3, <2>3, <3>4, <3>6
  <2> QED BY <2>2, <2>3
<1> QED BY <1>5, <1>6

----------------------------------------------------------------------------
(* Scripts *)

LEMMA NewSteps ==
    /\ \A n \in SpecNode : [op |-> "node", node |-> n] \in Steps
    /\ \A k, d \in Keys : [op |-> "wire", child |-> k, parent |-> d] \in Steps
    /\ \A r \in ExportRow : \A op \in {"row", "insert", "patch", "settle", "except"} :
          [op |-> op, row |-> r] \in Steps
    /\ \A i, d \in Issues : [op |-> "edge", child |-> i, parent |-> d] \in Steps
    /\ [op |-> "round"] \in Steps
BY DEF Steps

LEMMA StepFields ==
    ASSUME NEW x \in Steps
    PROVE  /\ x.op \in {"node", "wire", "row", "insert", "patch", "settle", "except", "edge", "round"}
           /\ x.op = "node" => x.node \in SpecNode
           /\ x.op = "wire" => x.child \in Keys /\ x.parent \in Keys
           /\ x.op \in {"row", "insert", "patch", "settle", "except"} => x.row \in ExportRow
           /\ x.op = "edge" => x.child \in Issues /\ x.parent \in Issues
<1>1. CASE x \in [op : {"node"}, node : SpecNode]
  BY <1>1
<1>2. CASE x \in [op : {"wire"}, child : Keys, parent : Keys]
  BY <1>2
<1>3. CASE x \in [op : {"row", "insert", "patch", "settle", "except"}, row : ExportRow]
  BY <1>3
<1>4. CASE x \in [op : {"edge"}, child : Issues, parent : Issues]
  BY <1>4
<1>5. CASE x \in [op : {"round"}]
  BY <1>5
<1> QED BY <1>1, <1>2, <1>3, <1>4, <1>5 DEF Steps

\* The image of a finite set is listed by SetToSeq.
LEMMA ImageListed ==
    ASSUME NEW D, IsFiniteSet(D), NEW f, f \in [D -> Steps], NEW T,
           \A d \in D : f[d] \in T, \A x \in T : \E d \in D : x = f[d],
           NEW s, s = SetToSeq(T)
    PROVE  /\ s \in Seq(Steps)
           /\ \A n \in DOMAIN s : \E d \in D : s[n] = f[d]
           /\ \A d \in D : \E n \in DOMAIN s : s[n] = f[d]
<1>1. f \in Surjection(D, T)
  <2>1. f \in [D -> T]
    OBVIOUS
  <2> QED BY <2>1 DEF Surjection
<1>2. IsFiniteSet(T)
  BY <1>1, FS_Surjection
<1>3. T \subseteq Steps
  OBVIOUS
<1>4. s \in Seq(T) /\ \A x \in T : \E n \in DOMAIN s : s[n] = x
  BY <1>2, SetToSeqLists
<1>5. s \in Seq(Steps)
  <2>1. Len(s) \in Nat /\ DOMAIN s = 1 .. Len(s) /\ s = [n \in 1 .. Len(s) |-> s[n]]
    BY <1>4
  <2>2. \A n \in 1 .. Len(s) : s[n] \in Steps
    BY <1>3, <1>4
  <2>3. s \in [1 .. Len(s) -> Steps]
    BY ONLY <2>1, <2>2
  <2> QED BY <2>1, <2>3
<1>6. \A n \in DOMAIN s : s[n] \in T
  BY <1>4
<1> QED BY <1>4, <1>5, <1>6

\* The edges from one issue to a set of others.
LEMMA EdgeSteps ==
    ASSUME NEW i \in Issues, NEW D \in SUBSET Issues, IsFiniteSet(D), NEW T,
           \A d \in D : [op |-> "edge", child |-> i, parent |-> d] \in T,
           \A x \in T : \E d \in D : x = [op |-> "edge", child |-> i, parent |-> d],
           NEW s, s = SetToSeq(T)
    PROVE  /\ s \in Seq(Steps)
           /\ \A n \in DOMAIN s : \E d \in D : s[n] = [op |-> "edge", child |-> i, parent |-> d]
           /\ \A d \in D : \E n \in DOMAIN s : s[n] = [op |-> "edge", child |-> i, parent |-> d]
<1> DEFINE f == [d \in D |-> [op |-> "edge", child |-> i, parent |-> d]]
<1>1. f \in [D -> Steps]
  BY NewSteps
<1>2. \A d \in D : f[d] = [op |-> "edge", child |-> i, parent |-> d]
  OBVIOUS
<1>3. (\A d \in D : f[d] \in T) /\ \A x \in T : \E d \in D : x = f[d]
  OBVIOUS
<1>4. s = SetToSeq(T)
  OBVIOUS
<1>5. IsFiniteSet(D)
  OBVIOUS
<1>6. /\ s \in Seq(Steps)
      /\ \A n \in DOMAIN s : \E d \in D : s[n] = f[d]
      /\ \A d \in D : \E n \in DOMAIN s : s[n] = f[d]
  <2> HIDE DEF f
  <2> QED BY ONLY <1>1, <1>3, <1>4, <1>5, ImageListed
<1> QED BY <1>2, <1>6

LEMMA InternalsAre ==
    ASSUME NEW r \in ExportRow, IsFiniteSet(r.deps)
    PROVE  /\ Internals(r) \in Seq(Steps)
           /\ \A n \in DOMAIN Internals(r) : \E d \in r.deps \ {r.id} :
                 Internals(r)[n] = [op |-> "edge", child |-> r.id, parent |-> d]
           /\ \A d \in r.deps \ {r.id} : \E n \in DOMAIN Internals(r) :
                 Internals(r)[n] = [op |-> "edge", child |-> r.id, parent |-> d]
<1> DEFINE D == r.deps \ {r.id}
           T == {[op |-> "edge", child |-> r.id, parent |-> d] : d \in D}
           s == Internals(r)
<1>1. r.id \in Issues /\ D \in SUBSET Issues
  BY DEF ExportRow
<1>2. IsFiniteSet(D)
  BY FS_Subset
<1>3. /\ \A d \in D : [op |-> "edge", child |-> r.id, parent |-> d] \in T
      /\ \A x \in T : \E d \in D : x = [op |-> "edge", child |-> r.id, parent |-> d]
      /\ s = SetToSeq(T)
  BY DEF Internals
<1> HIDE DEF D, s, T
<1>4. /\ s \in Seq(Steps)
      /\ \A n \in DOMAIN s : \E d \in D : s[n] = [op |-> "edge", child |-> r.id, parent |-> d]
      /\ \A d \in D : \E n \in DOMAIN s : s[n] = [op |-> "edge", child |-> r.id, parent |-> d]
  BY ONLY <1>1, <1>2, <1>3, EdgeSteps
<1> QED BY <1>4 DEF D, s

\* The edges of one node of a plan.
LEMMA NodeWires ==
    ASSUME NEW n \in SpecNode, IsFiniteSet(n.deps), NEW s,
           s = SetToSeq({[op |-> "wire", child |-> n.key, parent |-> d] : d \in n.deps})
    PROVE  /\ s \in Seq(Steps)
           /\ \A k \in DOMAIN s : \E d \in n.deps :
                 s[k] = [op |-> "wire", child |-> n.key, parent |-> d]
<1> DEFINE D == n.deps
           f == [d \in D |-> [op |-> "wire", child |-> n.key, parent |-> d]]
<1>1. n.key \in Keys /\ n.deps \subseteq Keys
  BY DEF SpecNode
<1>2. f \in [D -> Steps]
  BY <1>1, NewSteps
<1>3. \A d \in D : f[d] = [op |-> "wire", child |-> n.key, parent |-> d]
  OBVIOUS
<1> DEFINE T == {[op |-> "wire", child |-> n.key, parent |-> d] : d \in n.deps}
<1>4. (\A d \in D : f[d] \in T) /\ \A x \in T : \E d \in D : x = f[d]
  OBVIOUS
<1>5. s = SetToSeq(T)
  OBVIOUS
<1>6. IsFiniteSet(D)
  OBVIOUS
<1>7. s \in Seq(Steps) /\ \A k \in DOMAIN s : \E d \in D : s[k] = f[d]
  <2> HIDE DEF D, f, T
  <2> QED BY ONLY <1>2, <1>4, <1>5, <1>6, ImageListed
<1> QED BY <1>3, <1>7

\* A plan's script: a node per entry of its spec, then edges between those nodes.
LEMMA PlanScriptIs ==
    ASSUME NEW sp \in Seq(SpecNode), \A n \in DOMAIN sp : IsFiniteSet(sp[n].deps),
           NEW s, s = PlanScript(sp)
    PROVE  /\ s \in Seq(Steps) /\ Len(sp) <= Len(s)
           /\ \A a \in DOMAIN sp : s[a] = [op |-> "node", node |-> sp[a]]
           /\ \A a \in DOMAIN s \ DOMAIN sp :
                 /\ s[a].op = "wire"
                 /\ \E n \in DOMAIN sp : s[a].child = sp[n].key /\ s[a].parent \in sp[n].deps
<1> DEFINE nodes == [n \in DOMAIN sp |-> [op |-> "node", node |-> sp[n]]]
           part == [n \in DOMAIN sp |->
                      SetToSeq({[op |-> "wire", child |-> sp[n].key, parent |-> d] : d \in sp[n].deps})]
           wires == Wires(sp)
<1>1. DOMAIN sp = 1 .. Len(sp) /\ Len(sp) \in Nat /\ \A n \in DOMAIN sp : sp[n] \in SpecNode
  OBVIOUS
<1>2. nodes \in Seq(Steps) /\ DOMAIN nodes = DOMAIN sp /\ Len(nodes) = Len(sp)
  <2>1. \A n \in DOMAIN sp : [op |-> "node", node |-> sp[n]] \in Steps
    BY <1>1, NewSteps
  <2>2. nodes \in [1 .. Len(sp) -> Steps]
    BY <1>1, <2>1
  <2> HIDE DEF nodes
  <2> QED BY <1>1, <2>2
<1>3. ASSUME NEW n \in DOMAIN sp
      PROVE  /\ part[n] \in Seq(Steps)
             /\ \A k \in DOMAIN part[n] : \E d \in sp[n].deps :
                   part[n][k] = [op |-> "wire", child |-> sp[n].key, parent |-> d]
  <2> DEFINE p == part[n]
             m == sp[n]
  <2>1. p = SetToSeq({[op |-> "wire", child |-> m.key, parent |-> d] : d \in m.deps})
    OBVIOUS
  <2>2. m \in SpecNode /\ IsFiniteSet(m.deps)
    BY <1>1
  <2> HIDE DEF p, m
  <2>3. /\ p \in Seq(Steps)
        /\ \A k \in DOMAIN p : \E d \in m.deps :
              p[k] = [op |-> "wire", child |-> m.key, parent |-> d]
    BY ONLY <2>1, <2>2, NodeWires
  <2> QED BY <2>3 DEF p, m
<1>4. part \in Seq(Seq(Steps)) /\ DOMAIN part = DOMAIN sp
  <2>1. part \in [1 .. Len(sp) -> Seq(Steps)]
    BY <1>1, <1>3
  <2> HIDE DEF part
  <2> QED BY <1>1, <2>1
<1>5. wires = FlattenSeq(part)
  BY DEF Wires
<1>6. s = nodes \o wires
  BY DEF PlanScript
<1> HIDE DEF part, wires, nodes
<1>7. /\ wires \in Seq(Steps)
      /\ \A k \in DOMAIN wires : \E n \in DOMAIN part : \E m \in DOMAIN part[n] :
            wires[k] = part[n][m]
  BY ONLY <1>4, <1>5, FlattenHolds
<1>8. ASSUME NEW k \in DOMAIN wires
      PROVE  /\ wires[k].op = "wire"
             /\ \E n \in DOMAIN sp : wires[k].child = sp[n].key /\ wires[k].parent \in sp[n].deps
  <2>1. PICK n \in DOMAIN sp : \E m \in DOMAIN part[n] : wires[k] = part[n][m]
    BY <1>4, <1>7
  <2>2. PICK m \in DOMAIN part[n] : wires[k] = part[n][m]
    BY <2>1
  <2>3. PICK d \in sp[n].deps : part[n][m] = [op |-> "wire", child |-> sp[n].key, parent |-> d]
    BY <1>3
  <2>4. wires[k] = [op |-> "wire", child |-> sp[n].key, parent |-> d]
    BY <2>2, <2>3
  <2> QED BY <2>4
<1>9. /\ s \in Seq(Steps) /\ Len(s) = Len(nodes) + Len(wires)
      /\ \A k \in DOMAIN nodes : k \in DOMAIN s /\ s[k] = nodes[k]
      /\ \A k \in DOMAIN s :
            k \in DOMAIN nodes \/ (k - Len(nodes) \in DOMAIN wires /\ s[k] = wires[k - Len(nodes)])
  <2>1. nodes \in Seq(Steps) /\ wires \in Seq(Steps)
    BY <1>2, <1>7
  <2>2. Len(s) = Len(nodes) + Len(wires)
    BY <1>6, <2>1
  <2> QED BY ONLY <2>1, <2>2, <1>6, Joined
<1>10. \A a \in DOMAIN sp : s[a] = [op |-> "node", node |-> sp[a]]
  BY <1>2, <1>9 DEF nodes
<1>11. \A a \in DOMAIN s \ DOMAIN sp :
          /\ s[a].op = "wire"
          /\ \E n \in DOMAIN sp : s[a].child = sp[n].key /\ s[a].parent \in sp[n].deps
  <2> TAKE a \in DOMAIN s \ DOMAIN sp
  <2>1. a - Len(nodes) \in DOMAIN wires /\ s[a] = wires[a - Len(nodes)]
    BY <1>2, <1>9
  <2> QED BY <1>8, <2>1
<1>12. Len(sp) <= Len(s)
  BY <1>2, <1>7, <1>9
<1> QED BY <1>9, <1>10, <1>11, <1>12

\* The steps of one kind, one per row.
LEMMA RowSteps ==
    ASSUME NEW f \in Seq(ExportRow), NEW op \in {"row", "insert", "patch", "settle", "except"},
           NEW s, s = [n \in DOMAIN f |-> [op |-> op, row |-> f[n]]]
    PROVE  /\ s \in Seq(Steps) /\ DOMAIN s = DOMAIN f /\ Len(s) = Len(f)
           /\ \A n \in DOMAIN f : s[n] = [op |-> op, row |-> f[n]]
<1>1. DOMAIN f = 1 .. Len(f) /\ Len(f) \in Nat /\ \A n \in DOMAIN f : f[n] \in ExportRow
  OBVIOUS
<1>2. \A n \in DOMAIN f : [op |-> op, row |-> f[n]] \in Steps
  BY <1>1, NewSteps
<1>3. s \in [1 .. Len(f) -> Steps]
  BY <1>1, <1>2
<1>4. \A n \in DOMAIN f : s[n] = [op |-> op, row |-> f[n]]
  OBVIOUS
<1> QED BY ONLY <1>1, <1>3, <1>4

\* An import's script: every row, every edge, a round of statuses.
LEMMA ImportScriptIs ==
    ASSUME NEW f \in Seq(ExportRow), \A n \in DOMAIN f : IsFiniteSet(f[n].deps),
           NEW s, s = ImportScript(f)
    PROVE  /\ s \in Seq(Steps) /\ Len(f) <= Len(s)
           /\ \A a \in DOMAIN f : s[a] = [op |-> "row", row |-> f[a]]
           /\ \A a \in DOMAIN s : s[a].op \in {"row", "edge", "settle", "round"}
           /\ \A a \in DOMAIN s : s[a].op = "row" => a \in DOMAIN f
           /\ \A a \in DOMAIN s : s[a].op = "round" => a = Len(s)
           /\ Len(s) \in DOMAIN s /\ s[Len(s)].op = "round"
           /\ \A n \in DOMAIN f : \E a \in DOMAIN s : s[a] = [op |-> "settle", row |-> f[n]]
           /\ \A n \in DOMAIN f : \A d \in f[n].deps \ {f[n].id} : \E a \in DOMAIN s :
                 s[a] = [op |-> "edge", child |-> f[n].id, parent |-> d]
<1> DEFINE rows == [n \in DOMAIN f |-> [op |-> "row", row |-> f[n]]]
           part == [n \in DOMAIN f |-> Internals(f[n])]
           edges == FlattenSeq(part)
           settles == [n \in DOMAIN f |-> [op |-> "settle", row |-> f[n]]]
           last == <<[op |-> "round"]>>
           s1 == rows \o edges
           s2 == s1 \o settles
<1>1. DOMAIN f = 1 .. Len(f) /\ Len(f) \in Nat /\ \A n \in DOMAIN f : f[n] \in ExportRow
  OBVIOUS
<1>2. /\ rows \in Seq(Steps) /\ DOMAIN rows = DOMAIN f /\ Len(rows) = Len(f)
      /\ \A n \in DOMAIN f : rows[n] = [op |-> "row", row |-> f[n]]
  BY RowSteps
<1>3. /\ settles \in Seq(Steps) /\ DOMAIN settles = DOMAIN f
      /\ \A n \in DOMAIN f : settles[n] = [op |-> "settle", row |-> f[n]]
  BY RowSteps
<1>4. /\ last \in Seq(Steps) /\ \A k \in DOMAIN last : last[k].op = "round"
      /\ Len(last) = 1 /\ DOMAIN last = {1}
  BY NewSteps
<1>5. \A n \in DOMAIN f : part[n] \in Seq(Steps) /\ part[n] = Internals(f[n])
  BY <1>1, InternalsAre
<1>6. part \in Seq(Seq(Steps)) /\ DOMAIN part = DOMAIN f
  <2>1. part \in [1 .. Len(f) -> Seq(Steps)]
    BY <1>1, <1>5
  <2> HIDE DEF part
  <2> QED BY <1>1, <2>1
<1>7. s = s2 \o last
  BY DEF ImportScript
<1> HIDE DEF rows, part, settles, last
<1>8. /\ edges \in Seq(Steps)
      /\ \A k \in DOMAIN edges : \E n \in DOMAIN part : \E m \in DOMAIN part[n] : edges[k] = part[n][m]
      /\ \A n \in DOMAIN part : \A m \in DOMAIN part[n] : \E k \in DOMAIN edges : edges[k] = part[n][m]
  BY ONLY <1>6, FlattenHolds
<1> HIDE DEF edges
<1>9. \A k \in DOMAIN edges : edges[k].op = "edge"
  <2> SUFFICES ASSUME NEW k \in DOMAIN edges PROVE edges[k].op = "edge"
    OBVIOUS
  <2>1. PICK n \in DOMAIN f : \E m \in DOMAIN part[n] : edges[k] = part[n][m]
    BY <1>6, <1>8
  <2>2. PICK m \in DOMAIN Internals(f[n]) : edges[k] = Internals(f[n])[m]
    BY <1>5, <2>1
  <2>3. f[n] \in ExportRow /\ IsFiniteSet(f[n].deps)
    BY <1>1
  <2>4. PICK d : Internals(f[n])[m] = [op |-> "edge", child |-> f[n].id, parent |-> d]
    BY <2>2, <2>3, InternalsAre
  <2> QED BY <2>2, <2>4
<1>10. ASSUME NEW n \in DOMAIN f, NEW d \in f[n].deps \ {f[n].id}
       PROVE  \E k \in DOMAIN edges : edges[k] = [op |-> "edge", child |-> f[n].id, parent |-> d]
  <2>1. f[n] \in ExportRow /\ IsFiniteSet(f[n].deps)
    BY <1>1
  <2>2. PICK m \in DOMAIN Internals(f[n]) :
           Internals(f[n])[m] = [op |-> "edge", child |-> f[n].id, parent |-> d]
    BY <2>1, InternalsAre
  <2>3. m \in DOMAIN part[n] /\ part[n][m] = [op |-> "edge", child |-> f[n].id, parent |-> d]
    BY <1>5, <2>2
  <2>4. PICK k \in DOMAIN edges : edges[k] = part[n][m]
    BY <1>6, <1>8, <2>3
  <2> QED BY <2>3, <2>4
<1>11. /\ s1 \in Seq(Steps) /\ Len(s1) = Len(f) + Len(edges)
       /\ \A k \in DOMAIN rows : k \in DOMAIN s1 /\ s1[k] = rows[k]
       /\ \A k \in DOMAIN edges : \E a \in DOMAIN s1 : s1[a] = edges[k]
       /\ \A k \in DOMAIN s1 : k \in DOMAIN rows \/ \E a \in DOMAIN edges : s1[k] = edges[a]
  <2>1. rows \in Seq(Steps) /\ edges \in Seq(Steps)
    BY <1>2, <1>8
  <2>2. Len(s1) = Len(f) + Len(edges)
    BY <1>2, <2>1
  <2> HIDE DEF s1
  <2>3. s1 = rows \o edges
    BY DEF s1
  <2>4. /\ s1 \in Seq(Steps)
        /\ \A k \in DOMAIN rows : k \in DOMAIN s1 /\ s1[k] = rows[k]
        /\ \A k \in DOMAIN edges : Len(rows) + k \in DOMAIN s1 /\ s1[Len(rows) + k] = edges[k]
        /\ \A k \in DOMAIN s1 :
              k \in DOMAIN rows \/ (k - Len(rows) \in DOMAIN edges /\ s1[k] = edges[k - Len(rows)])
    BY ONLY <2>1, <2>3, Joined
  <2> QED BY ONLY <2>2, <2>4
<1> HIDE DEF s1
<1>12. /\ s2 \in Seq(Steps) /\ Len(s2) = Len(s1) + Len(settles)
       /\ \A k \in DOMAIN s1 : k \in DOMAIN s2 /\ s2[k] = s1[k]
       /\ \A k \in DOMAIN settles : \E a \in DOMAIN s2 : s2[a] = settles[k]
       /\ \A k \in DOMAIN s2 : k \in DOMAIN s1 \/ \E a \in DOMAIN settles : s2[k] = settles[a]
  <2>1. s1 \in Seq(Steps) /\ settles \in Seq(Steps)
    BY <1>3, <1>11
  <2>2. Len(s2) = Len(s1) + Len(settles)
    BY <2>1
  <2> HIDE DEF s2
  <2>3. s2 = s1 \o settles
    BY DEF s2
  <2>4. /\ s2 \in Seq(Steps)
        /\ \A k \in DOMAIN s1 : k \in DOMAIN s2 /\ s2[k] = s1[k]
        /\ \A k \in DOMAIN settles : Len(s1) + k \in DOMAIN s2 /\ s2[Len(s1) + k] = settles[k]
        /\ \A k \in DOMAIN s2 :
              k \in DOMAIN s1 \/ (k - Len(s1) \in DOMAIN settles /\ s2[k] = settles[k - Len(s1)])
    BY ONLY <2>1, <2>3, Joined
  <2> QED BY ONLY <2>2, <2>4
<1> HIDE DEF s2
<1>13. /\ s \in Seq(Steps) /\ Len(s) = Len(s2) + Len(last)
       /\ \A k \in DOMAIN s2 : k \in DOMAIN s /\ s[k] = s2[k]
       /\ \A k \in DOMAIN s : k \in DOMAIN s2 \/ (k = Len(s) /\ s[k].op = "round")
       /\ Len(s) \in DOMAIN s /\ s[Len(s)].op = "round"
  <2>1. s2 \in Seq(Steps) /\ last \in Seq(Steps)
    BY <1>4, <1>12
  <2>2. Len(s) = Len(s2) + Len(last)
    BY <1>7, <2>1
  <2>4. /\ s \in Seq(Steps)
        /\ \A k \in DOMAIN s2 : k \in DOMAIN s /\ s[k] = s2[k]
        /\ \A k \in DOMAIN last : Len(s2) + k \in DOMAIN s /\ s[Len(s2) + k] = last[k]
        /\ \A k \in DOMAIN s :
              k \in DOMAIN s2 \/ (k - Len(s2) \in DOMAIN last /\ s[k] = last[k - Len(s2)])
    BY ONLY <2>1, <1>7, Joined
  <2>5. Len(s2) \in Nat /\ Len(s) = Len(s2) + 1
    BY <1>4, <1>12, <2>2
  <2>6. Len(s) \in DOMAIN s /\ s[Len(s)].op = "round"
    BY ONLY <1>4, <2>4, <2>5
  <2>7. ASSUME NEW k \in DOMAIN s, k \notin DOMAIN s2 PROVE k = Len(s)
    <3>1. k \in Int /\ k - Len(s2) = 1
      BY ONLY <1>4, <2>4, <2>7
    <3> QED BY ONLY <2>5, <3>1
  <2> QED BY ONLY <2>2, <2>4, <2>6, <2>7
<1>14. \A a \in DOMAIN f : s[a] = [op |-> "row", row |-> f[a]]
  BY <1>2, <1>11, <1>12, <1>13
<1>15. ASSUME NEW a \in DOMAIN s
       PROVE  /\ s[a].op \in {"row", "edge", "settle", "round"} /\ (s[a].op = "row" => a \in DOMAIN f)
              /\ s[a].op = "round" => a = Len(s)
  <2>1. CASE a = Len(s) /\ s[a].op = "round"
    BY <2>1
  <2>2. CASE a \in DOMAIN s2 /\ \E k \in DOMAIN settles : s2[a] = settles[k]
    <3>1. PICK k \in DOMAIN settles : s2[a] = settles[k]
      BY <2>2
    <3>2. settles[k].op = "settle" /\ s[a] = s2[a]
      BY <1>3, <1>13, <2>2
    <3> QED BY <3>1, <3>2
  <2>3. CASE a \in DOMAIN s1 /\ \E k \in DOMAIN edges : s1[a] = edges[k]
    <3>1. PICK k \in DOMAIN edges : s1[a] = edges[k]
      BY <2>3
    <3>2. s[a] = s1[a]
      BY <1>12, <1>13, <2>3
    <3> QED BY <1>9, <3>1, <3>2
  <2>4. CASE a \in DOMAIN rows
    <3>1. s[a] = rows[a] /\ a \in DOMAIN f
      BY <1>2, <1>11, <1>12, <1>13, <2>4
    <3>2. s[a].op = "row"
      BY <1>2, <3>1
    <3> QED BY <3>1, <3>2
  <2> QED BY <2>1, <2>2, <2>3, <2>4, <1>11, <1>12, <1>13
<1>16. ASSUME NEW n \in DOMAIN f PROVE \E a \in DOMAIN s : s[a] = [op |-> "settle", row |-> f[n]]
  <2>1. PICK a \in DOMAIN s2 : s2[a] = settles[n]
    BY <1>3, <1>12
  <2> QED BY <1>3, <1>13, <2>1
<1>17. ASSUME NEW n \in DOMAIN f, NEW d \in f[n].deps \ {f[n].id}
       PROVE  \E a \in DOMAIN s : s[a] = [op |-> "edge", child |-> f[n].id, parent |-> d]
  <2>1. PICK k \in DOMAIN edges : edges[k] = [op |-> "edge", child |-> f[n].id, parent |-> d]
    BY <1>10
  <2>2. PICK a \in DOMAIN s1 : s1[a] = edges[k]
    BY <1>11
  <2> QED BY <1>12, <1>13, <2>1, <2>2
<1>18. Len(f) <= Len(s)
  <2>1. Len(s1) \in Nat /\ Len(s2) \in Nat /\ Len(settles) \in Nat /\ Len(last) \in Nat
        /\ Len(edges) \in Nat
    BY <1>3, <1>4, <1>8, <1>11, <1>12
  <2> QED BY <1>1, <1>11, <1>12, <1>13, <2>1
<1> QED BY <1>13, <1>14, <1>15, <1>16, <1>17, <1>18

\* The array importer's script: its steps have the shape of steps, and none is a plan's.
Unplanned == {x \in Steps : x.op \notin {"node", "wire"}}

LEMMA ArrayScriptType ==
    ASSUME NEW f \in Seq(ExportRow), \A n \in DOMAIN f : IsFiniteSet(f[n].deps)
    PROVE  ArrayScript(f) \in Seq(Unplanned)
<1> DEFINE edges(r) == SetToSeq({[op |-> "edge", child |-> r.id, parent |-> d] : d \in r.deps})
           first(r) == <<[op |-> "insert", row |-> r]>>
           patch(r) == IF r.status = "open" THEN <<>> ELSE <<[op |-> "patch", row |-> r]>>
           part == [n \in DOMAIN f |-> first(f[n]) \o edges(f[n]) \o patch(f[n])]
<1>1. DOMAIN f = 1 .. Len(f) /\ Len(f) \in Nat /\ \A n \in DOMAIN f : f[n] \in ExportRow
  OBVIOUS
<1>2. ASSUME NEW n \in DOMAIN f
      PROVE  first(f[n]) \o edges(f[n]) \o patch(f[n]) \in Seq(Unplanned)
  <2> DEFINE r == f[n]
  <2>1. r \in ExportRow /\ r.id \in Issues /\ r.deps \in SUBSET Issues
    BY <1>1 DEF ExportRow
  <2>2. [op |-> "insert", row |-> r] \in Unplanned /\ [op |-> "patch", row |-> r] \in Unplanned
    BY <2>1, NewSteps DEF Unplanned
  <2>3. IsFiniteSet(r.deps)
    OBVIOUS
  <2> DEFINE e == edges(r)
             a == first(r)
             b == patch(r)
  <2>4. a \in Seq(Unplanned)
    BY <2>2
  <2>5. b \in Seq(Unplanned)
    BY <2>2
  <2> DEFINE T == {[op |-> "edge", child |-> r.id, parent |-> d] : d \in r.deps}
  <2>6. /\ \A d \in r.deps : [op |-> "edge", child |-> r.id, parent |-> d] \in T
        /\ \A x \in T : \E d \in r.deps : x = [op |-> "edge", child |-> r.id, parent |-> d]
        /\ e = SetToSeq(T)
    OBVIOUS
  <2>7. e \in Seq(Unplanned)
    <3> HIDE DEF e, r, T
    <3>1. /\ e \in Seq(Steps)
          /\ \A k \in DOMAIN e : \E d \in r.deps :
                e[k] = [op |-> "edge", child |-> r.id, parent |-> d]
      BY ONLY <2>1, <2>3, <2>6, EdgeSteps
    <3>2. \A k \in DOMAIN e : e[k] \in Unplanned
      BY <3>1 DEF Unplanned
    <3>3. Len(e) \in Nat /\ DOMAIN e = 1 .. Len(e) /\ e = [k \in 1 .. Len(e) |-> e[k]]
      BY <3>1
    <3>4. e \in [1 .. Len(e) -> Unplanned]
      BY ONLY <3>2, <3>3
    <3> QED BY <3>3, <3>4
  <2> HIDE DEF e, a, b
  <2>8. a \o e \o b \in Seq(Unplanned)
    BY ONLY <2>4, <2>5, <2>7
  <2> QED BY <2>8 DEF e, a, b
<1>3. part \in Seq(Seq(Unplanned))
  <2>1. part \in [1 .. Len(f) -> Seq(Unplanned)]
    BY <1>1, <1>2
  <2> HIDE DEF part
  <2> QED BY <1>1, <2>1
<1>4. ArrayScript(f) = FlattenSeq(part)
  BY DEF ArrayScript
<1> DEFINE all == FlattenSeq(part)
<1>5. all = FlattenSeq(part)
  OBVIOUS
<1> HIDE DEF part, all
<1>6. all \in Seq(Unplanned)
  BY ONLY <1>3, <1>5, FlattenHolds
<1> QED BY <1>4, <1>6 DEF all

----------------------------------------------------------------------------
(* The types of the rows, the facts and the jobs *)

\* A job's fields, one at a time.
LEMMA JobTodo ==
    ASSUME NEW j \in JobType, NEW t \in Seq(Steps), NEW k, k = [j EXCEPT !.todo = t]
    PROVE  /\ k \in JobType /\ k.todo = t
           /\ k.busy = j.busy /\ k.resumable = j.resumable /\ k.ids = j.ids /\ k.at = j.at
           /\ k.failed = j.failed /\ k.progressed = j.progressed
BY DEF JobType

LEMMA JobIds ==
    ASSUME NEW j \in JobType, NEW t \in [Keys -> Issues \cup {0}], NEW k, k = [j EXCEPT !.ids = t]
    PROVE  /\ k \in JobType /\ k.ids = t
           /\ k.busy = j.busy /\ k.resumable = j.resumable /\ k.todo = j.todo /\ k.at = j.at
           /\ k.failed = j.failed /\ k.progressed = j.progressed
BY DEF JobType

LEMMA JobFailed ==
    ASSUME NEW j \in JobType, NEW t \in Seq(ExportRow), NEW k, k = [j EXCEPT !.failed = t]
    PROVE  /\ k \in JobType /\ k.failed = t
           /\ k.busy = j.busy /\ k.resumable = j.resumable /\ k.todo = j.todo /\ k.at = j.at
           /\ k.ids = j.ids /\ k.progressed = j.progressed
BY DEF JobType

LEMMA JobProgressed ==
    ASSUME NEW j \in JobType, NEW t \in BOOLEAN, NEW k, k = [j EXCEPT !.progressed = t]
    PROVE  /\ k \in JobType /\ k.progressed = t
           /\ k.busy = j.busy /\ k.resumable = j.resumable /\ k.todo = j.todo /\ k.at = j.at
           /\ k.ids = j.ids /\ k.failed = j.failed
BY DEF JobType

LEMMA JobFields ==
    ASSUME NEW j \in JobType
    PROVE  /\ j.todo \in Seq(Steps) /\ j.ids \in [Keys -> Issues \cup {0}] /\ j.at \in Nat
           /\ j.failed \in Seq(ExportRow) /\ j.progressed \in BOOLEAN
           /\ j.busy \in BOOLEAN /\ j.resumable \in BOOLEAN
BY DEF JobType

LEMMA NoJobType ==
    /\ NoJob \in JobType
    /\ NoJob.busy = FALSE /\ NoJob.resumable = FALSE /\ NoJob.todo = << >>
<1>1. << >> \in Seq(Steps) /\ << >> \in Seq(ExportRow)
  OBVIOUS
<1>2. [k \in Keys |-> 0] \in [Keys -> Issues \cup {0}] /\ 0 \in Nat
  OBVIOUS
<1> QED BY <1>1, <1>2 DEF NoJob, JobType

\* The rest of a sequence after its first element.
LEMMA Popped ==
    ASSUME NEW T, NEW s \in Seq(T), s # << >>, NEW t, t = Tail(s)
    PROVE  /\ t \in Seq(T) /\ s[1] \in T /\ 1 \in DOMAIN s
           /\ \A a \in DOMAIN t : a + 1 \in DOMAIN s /\ t[a] = s[a + 1]
           /\ \A a \in DOMAIN s : a = 1 \/ (a - 1 \in DOMAIN t /\ t[a - 1] = s[a])
<1>1. Len(s) \in Nat \ {0} /\ DOMAIN s = 1 .. Len(s)
  OBVIOUS
<1>2. t \in Seq(T) /\ Len(t) = Len(s) - 1 /\ \A a \in 1 .. Len(s) - 1 : t[a] = s[a + 1]
  OBVIOUS
<1>3. DOMAIN t = 1 .. Len(s) - 1
  BY <1>2
<1> QED BY <1>1, <1>2, <1>3

\* Whose turn it is, and for what.
LEMMA TurnFields ==
    ASSUME TypeOK, NEW c \in Clients, NEW op, Turn(c, op)
    PROVE  /\ job[c] \in JobType /\ job[c].busy /\ job[c].todo # << >>
           /\ Step(c) = job[c].todo[1] /\ Step(c) \in Steps /\ Step(c).op = op
           /\ Tail(job[c].todo) \in Seq(Steps)
<1>1. job[c] \in JobType /\ job[c].todo \in Seq(Steps)
  BY JobFields DEF TypeOK
<1>2. job[c].todo # << >>
  BY DEF Turn
<1> QED BY <1>1, <1>2, Popped DEF Turn, Step

\* The job of one client moves on.
LEMMA OnwardJob ==
    ASSUME TypeOK, NEW c \in Clients, Onward(c), NEW op, Turn(c, op)
    PROVE  /\ job' \in [Clients -> JobType] /\ job'[c] = [job[c] EXCEPT !.todo = Tail(@)]
           /\ \A d \in Clients \ {c} : job'[d] = job[d]
<1> DEFINE new == [job[c] EXCEPT !.todo = Tail(job[c].todo)]
<1>1. new \in JobType
  BY TurnFields, JobTodo
<1>2. job' = [job EXCEPT ![c] = new] /\ job \in [Clients -> JobType]
  BY DEF Onward, TypeOK
<1> HIDE DEF new
<1>3. job' \in [Clients -> JobType] /\ job'[c] = new /\ \A d \in Clients \ {c} : job'[d] = job[d]
  BY <1>1, <1>2
<1> QED BY <1>3 DEF new

\* A fact with one column set.
LEMMA FactColumn ==
    ASSUME NEW f \in Fact
    PROVE  /\ \A k \in Keys : [f EXCEPT !.key = k] \in Fact /\ [f EXCEPT !.key = k].key = k
           /\ \A g \in Groups \cup {NoGroup} :
                 [f EXCEPT !.group = g] \in Fact /\ [f EXCEPT !.group = g].key = f.key
           /\ \A e \in Estimates \cup {0} :
                 [f EXCEPT !.estimate = e] \in Fact /\ [f EXCEPT !.estimate = e].key = f.key
           /\ \A t \in Types :
                 [f EXCEPT !.type = t] \in Fact /\ [f EXCEPT !.type = t].key = f.key
           /\ \A p \in Issues \cup {0} :
                 [f EXCEPT !.parent = p] \in Fact /\ [f EXCEPT !.parent = p].key = f.key
           /\ \A t \in Times :
                 [f EXCEPT !.born = t] \in Fact /\ [f EXCEPT !.born = t].key = f.key
           /\ [f EXCEPT !.imported = TRUE] \in Fact /\ [f EXCEPT !.imported = TRUE].key = f.key
<1>1. \A k \in Keys : [f EXCEPT !.key = k] \in Fact /\ [f EXCEPT !.key = k].key = k
  BY DEF Fact
<1>2. \A g \in Groups \cup {NoGroup} :
         [f EXCEPT !.group = g] \in Fact /\ [f EXCEPT !.group = g].key = f.key
  BY DEF Fact
<1>3. \A e \in Estimates \cup {0} :
         [f EXCEPT !.estimate = e] \in Fact /\ [f EXCEPT !.estimate = e].key = f.key
  BY DEF Fact
<1>4. \A t \in Types : [f EXCEPT !.type = t] \in Fact /\ [f EXCEPT !.type = t].key = f.key
  BY DEF Fact
<1>5. \A p \in Issues \cup {0} :
         [f EXCEPT !.parent = p] \in Fact /\ [f EXCEPT !.parent = p].key = f.key
  BY DEF Fact
<1>6. \A t \in Times : [f EXCEPT !.born = t] \in Fact /\ [f EXCEPT !.born = t].key = f.key
  BY DEF Fact
<1>7. [f EXCEPT !.imported = TRUE] \in Fact /\ [f EXCEPT !.imported = TRUE].key = f.key
  BY DEF Fact
<1> QED BY <1>1, <1>2, <1>3, <1>4, <1>5, <1>6, <1>7

LEMMA NoFactType == NoFact \in Fact /\ NoFact.key = NoKey
<1>1. Never \in Times
  BY DEF Times
<1>2. 0 \in Estimates \cup {0} /\ 0 \in Issues \cup {0}
      /\ NoGroup \in Groups \cup {NoGroup} /\ NoKey \in Keys \cup {NoKey}
  OBVIOUS
<1>3. "task" \in Types
  BY DEF Types
<1>4. FALSE \in BOOLEAN
  OBVIOUS
<1> QED BY <1>1, <1>2, <1>3, <1>4 DEF NoFact, Fact

\* The facts of a new row, by who makes it: a plan, an import, an array import, a client.
LEMMA NodeFact ==
    ASSUME NEW n \in SpecNode, NEW t \in Nat, NEW new,
           new = [NoFact EXCEPT !.key = n.key, !.group = n.group, !.estimate = n.estimate,
                                !.born = t]
    PROVE  new \in Fact /\ new.key = n.key
<1> DEFINE f1 == [NoFact EXCEPT !.key = n.key]
           f2 == [f1 EXCEPT !.group = n.group]
           f3 == [f2 EXCEPT !.estimate = n.estimate]
           f4 == [f3 EXCEPT !.born = t]
<1>0. /\ n.key \in Keys /\ n.group \in Groups \cup {NoGroup} /\ n.estimate \in Estimates \cup {0}
      /\ t \in Times
  BY DEF SpecNode, Times
<1>1. f1 \in Fact /\ f1.key = n.key
  BY <1>0, NoFactType, FactColumn
<1>4. new = f4
  OBVIOUS
<1> HIDE DEF f1
<1>2. f2 \in Fact /\ f2.key = n.key
  BY <1>0, <1>1, FactColumn
<1> HIDE DEF f2
<1>3. f3 \in Fact /\ f3.key = n.key
  BY <1>0, <1>2, FactColumn
<1> HIDE DEF f3
<1>5. f4 \in Fact /\ f4.key = f3.key
  BY <1>0, <1>3, FactColumn
<1> QED BY <1>3, <1>4, <1>5

LEMMA RowFact ==
    ASSUME NEW p \in Issues \cup {0}, NEW t \in Nat, NEW new,
           new = [NoFact EXCEPT !.parent = p, !.born = t]
    PROVE  new \in Fact /\ new.key = NoKey
<1> DEFINE f1 == [NoFact EXCEPT !.parent = p]
           f2 == [f1 EXCEPT !.born = t]
<1>1. f1 \in Fact /\ f1.key = NoKey /\ t \in Times
  BY NoFactType, FactColumn DEF Times
<1>2. new = f2
  OBVIOUS
<1> HIDE DEF f1
<1>3. f2 \in Fact /\ f2.key = f1.key
  BY <1>1, FactColumn
<1> QED BY <1>1, <1>2, <1>3

LEMMA ImportedFact ==
    ASSUME NEW p \in Issues \cup {0}, NEW t \in Nat, NEW new,
           new = [NoFact EXCEPT !.parent = p, !.born = t, !.imported = TRUE]
    PROVE  new \in Fact /\ new.key = NoKey
<1> DEFINE f1 == [NoFact EXCEPT !.parent = p, !.born = t]
           f2 == [f1 EXCEPT !.imported = TRUE]
<1>1. f1 \in Fact /\ f1.key = NoKey
  BY RowFact
<1>2. new = f2
  OBVIOUS
<1> HIDE DEF f1
<1> QED BY <1>1, <1>2, FactColumn

LEMMA MadeFact ==
    ASSUME NEW ty \in Types, NEW p \in Issues \cup {0}, NEW t \in Nat, NEW new,
           new = [NoFact EXCEPT !.type = ty, !.parent = p, !.born = t]
    PROVE  new \in Fact /\ new.key = NoKey
<1> DEFINE f1 == [NoFact EXCEPT !.type = ty]
           f2 == [f1 EXCEPT !.parent = p]
           f3 == [f2 EXCEPT !.born = t]
<1>1. f1 \in Fact /\ f1.key = NoKey /\ t \in Times
  BY NoFactType, FactColumn DEF Times
<1>3. new = f3
  OBVIOUS
<1> HIDE DEF f1
<1>2. f2 \in Fact /\ f2.key = NoKey
  BY <1>1, FactColumn
<1> HIDE DEF f2
<1>4. f3 \in Fact /\ f3.key = f2.key
  BY <1>1, <1>2, FactColumn
<1> QED BY <1>2, <1>3, <1>4

\* A timestamp is set.
LEMMA StampedFact ==
    ASSUME NEW f \in Fact, NEW t \in Times
    PROVE  /\ [f EXCEPT !.ended = t] \in Fact /\ [f EXCEPT !.ended = t].key = f.key
           /\ [f EXCEPT !.ended = t].imported = f.imported
           /\ [f EXCEPT !.reviewed = t] \in Fact /\ [f EXCEPT !.reviewed = t].key = f.key
           /\ [f EXCEPT !.reviewed = t].imported = f.imported
           /\ [f EXCEPT !.claimed = t] \in Fact /\ [f EXCEPT !.claimed = t].key = f.key
           /\ [f EXCEPT !.claimed = t].imported = f.imported
BY DEF Fact

\* One issue's facts are replaced.
LEMMA SetFact ==
    ASSUME fact \in [Issues -> Fact], NEW i \in Issues, NEW f \in Fact,
           fact' = [fact EXCEPT ![i] = f]
    PROVE  /\ fact' \in [Issues -> Fact] /\ fact'[i] = f
           /\ \A j \in Issues \ {i} : fact'[j] = fact[j]
OBVIOUS

\* What a step may do to the facts of a row that was there: its key and origin stay.
FactsKept ==
    /\ fact' \in [Issues -> Fact]
    /\ \A i \in Issues : fact'[i].key = fact[i].key /\ fact'[i].imported = fact[i].imported

LEMMA SameFacts ==
    ASSUME fact \in [Issues -> Fact], fact' = fact
    PROVE  FactsKept
BY DEF FactsKept

LEMMA FactsEnded ==
    ASSUME fact \in [Issues -> Fact], NEW i \in Issues, NEW t \in Times,
           fact' = [fact EXCEPT ![i].ended = t]
    PROVE  FactsKept
<1> DEFINE f == [fact[i] EXCEPT !.ended = t]
<1>1. f \in Fact /\ f.key = fact[i].key /\ f.imported = fact[i].imported
  BY StampedFact
<1>2. fact' = [fact EXCEPT ![i] = f]
  OBVIOUS
<1> HIDE DEF f
<1> QED BY <1>1, <1>2, SetFact DEF FactsKept

LEMMA FactsReviewed ==
    ASSUME fact \in [Issues -> Fact], NEW i \in Issues, NEW t \in Times,
           fact' = [fact EXCEPT ![i].reviewed = t]
    PROVE  FactsKept
<1> DEFINE f == [fact[i] EXCEPT !.reviewed = t]
<1>1. f \in Fact /\ f.key = fact[i].key /\ f.imported = fact[i].imported
  BY StampedFact
<1>2. fact' = [fact EXCEPT ![i] = f]
  OBVIOUS
<1> HIDE DEF f
<1> QED BY <1>1, <1>2, SetFact DEF FactsKept

LEMMA FactsClaimed ==
    ASSUME fact \in [Issues -> Fact], NEW i \in Issues, NEW t \in Times,
           fact' = [fact EXCEPT ![i].claimed = t]
    PROVE  FactsKept
<1> DEFINE f == [fact[i] EXCEPT !.claimed = t]
<1>1. f \in Fact /\ f.key = fact[i].key /\ f.imported = fact[i].imported
  BY StampedFact
<1>2. fact' = [fact EXCEPT ![i] = f]
  OBVIOUS
<1> HIDE DEF f
<1> QED BY <1>1, <1>2, SetFact DEF FactsKept

LEMMA FactsPatched ==
    ASSUME fact \in [Issues -> Fact], NEW i \in Issues, NEW t \in Times, NEW u \in Times,
           fact' = [fact EXCEPT ![i].ended = t, ![i].reviewed = u]
    PROVE  FactsKept
<1> DEFINE f == [fact[i] EXCEPT !.ended = t]
           g == [f EXCEPT !.reviewed = u]
<1>1. f \in Fact /\ f.key = fact[i].key /\ f.imported = fact[i].imported
  BY StampedFact
<1>2. fact' = [fact EXCEPT ![i] = g]
  OBVIOUS
<1>3. g \in Fact /\ g.key = f.key /\ g.imported = f.imported
  <2> HIDE DEF f
  <2> QED BY <1>1, StampedFact
<1> HIDE DEF f, g
<1> QED BY <1>1, <1>2, <1>3, SetFact DEF FactsKept

----------------------------------------------------------------------------
(* What a step may do *)

\* The case of a behaviour has specs and exports of the right shape.
LEMMA CaseFields ==
    ASSUME TypeOK
    PROVE  /\ spec \in Seq(SpecNode) /\ \A n \in DOMAIN spec : IsFiniteSet(spec[n].deps)
           /\ file \in Seq(ExportRow) /\ \A n \in DOMAIN file : IsFiniteSet(file[n].deps)
           /\ scene.patches \subseteq Statuses /\ scene.types \subseteq Types
           /\ scene.made \subseteq Issues
<1>1. scene \in Cases /\ spec \in scene.specs /\ file \in scene.files
  BY DEF TypeOK
<1>2. /\ scene.specs \subseteq Seq(SpecNode) /\ scene.files \subseteq Seq(ExportRow)
      /\ \A s \in scene.specs \cup scene.files : \A n \in DOMAIN s : IsFiniteSet(s[n].deps)
      /\ scene.patches \subseteq Statuses /\ scene.types \subseteq Types
      /\ scene.made \subseteq Issues
  BY <1>1, CasesAssumption
<1> QED BY <1>1, <1>2

\* A job that starts.
LEMMA StartedJob ==
    ASSUME NEW t \in Seq(Steps), NEW r \in BOOLEAN, NEW at \in Nat
    PROVE  /\ Started(t, at, r) \in JobType /\ Started(t, at, r).busy
           /\ Started(t, at, r).resumable = r /\ Started(t, at, r).todo = t
           /\ Started(t, at, r).failed = << >>
<1>1. << >> \in Seq(ExportRow) /\ [x \in Keys |-> 0] \in [Keys -> Issues \cup {0}]
  OBVIOUS
<1>2. TRUE \in BOOLEAN /\ FALSE \in BOOLEAN
  OBVIOUS
<1>3. Started(t, at, r) \in JobType
  BY <1>1, <1>2 DEF JobType, Started
<1>4. Started(t, at, r).busy
  BY DEF Started
<1>5. Started(t, at, r).resumable = r
  BY DEF Started
<1>6. Started(t, at, r).todo = t /\ Started(t, at, r).failed = << >>
  BY DEF Started
<1> QED BY <1>3, <1>4, <1>5, <1>6

\* The job of one client is replaced.
LEMMA SetJob ==
    ASSUME job \in [Clients -> JobType], NEW c \in Clients, NEW k \in JobType,
           job' = [job EXCEPT ![c] = k]
    PROVE  /\ job' \in [Clients -> JobType] /\ job'[c] = k
           /\ \A d \in Clients \ {c} : job'[d] = job[d]
OBVIOUS

\* Every step is a transaction of the rows or leaves them alone, and keeps the shape of
\* everything else.
StepOK ==
    /\ [RowsNext]_rowVars
    /\ fact' \in [Issues -> Fact]
    /\ folder' \in [Folders -> Folders \cup {Root, NoFolder}]
    /\ placed' \in [Projects -> Folders \cup {NoFolder}]
    /\ UNCHANGED caseVars

LEMMA FirstReviewType ==
    ASSUME TypeOK, NEW i \in Issues, NEW st
    PROVE  FirstReview(i, st) \in Times
<1>1. now \in Times /\ fact[i].reviewed \in Times
  BY DEF TypeOK, RowsTypeOK, Times, Fact
<1> QED BY <1>1 DEF FirstReview

LEMMA PatchTypes ==
    ASSUME TypeOK, NEW i \in Issues
    PROVE  issue[i].evidence \in SUBSET Evidence /\ DeferredTo(i, now) \in Int /\ now \in Nat
           /\ now + Grace \in Int /\ now \in 0..now /\ AgentTTL \in Int /\ now \in Times
<1>1. now \in Nat /\ issue[i] \in Row
  BY DEF TypeOK, RowsTypeOK
<1>2. issue[i].evidence \in SUBSET Evidence /\ issue[i].available \in Int
  BY <1>1 DEF Row
<1>3. EditDeferral \in Nat /\ Grace \in Nat /\ AgentTTL \in Nat
  BY PolicyAssumption
<1> QED BY <1>1, <1>2, <1>3 DEF DeferredTo, Greater, Times

\* Receipts are evidence, and no labels are labels.
LEMMA Given ==
    /\ \A ev \in Receipts : {ev} \in SUBSET Evidence
    /\ {} \in SUBSET Labels /\ 0 \in Int /\ 0 \in Nat
    /\ \A w \in Names : (IF w \in Humans THEN "human" ELSE "agent") \in Kinds
BY DEF Evidence, Kinds

\* When an edge of a plan is drawn, its nodes have ids.
LEMMA WireEnds ==
    ASSUME TypeOK, JobsOK, NEW c \in Clients, Turn(c, "wire")
    PROVE  job[c].ids[Step(c).child] \in Issues /\ job[c].ids[Step(c).parent] \in Issues
<1>1. WiresReady(job[c]) /\ Step(c) = job[c].todo[1] /\ job[c].todo[1].op = "wire"
      /\ job[c].todo \in Seq(Steps) /\ job[c].todo # << >>
  BY TurnFields, JobFields DEF JobsOK
<1>2. 1 \in DOMAIN job[c].todo /\ \A b \in DOMAIN job[c].todo : ~(b < 1)
  BY <1>1
<1>3. 1 \in Left(job[c], "wire") /\ \A b \in Left(job[c], "node") : ~(b < 1)
  BY <1>1, <1>2 DEF Left
<1> QED BY <1>1, <1>3 DEF WiresReady

\* The steps of a job.
LEMMA JobStepOK ==
    ASSUME TypeOK, JobsOK, NEW c \in Clients, Job(c)
    PROVE  StepOK
<1>0. /\ fact \in [Issues -> Fact] /\ folder \in [Folders -> Folders \cup {Root, NoFolder}]
      /\ placed \in [Projects -> Folders \cup {NoFolder}] /\ job \in [Clients -> JobType]
      /\ now \in Nat /\ issue \in [Issues -> Row]
  BY DEF TypeOK, RowsTypeOK
<1>1. ASSUME UNCHANGED <<rowVars, readVars, caseVars>> PROVE StepOK
  BY <1>0, <1>1 DEF StepOK, readVars
<1>2. ASSUME UNCHANGED <<folder, placed, caseVars>>, RowsNext \/ UNCHANGED rowVars,
             fact' \in [Issues -> Fact]
      PROVE  StepOK
  BY <1>0, <1>2 DEF StepOK
<1>3. ASSUME StartPlan(c) \/ StartImport(c) \/ StartArrayImport(c) \/ Answer(c) \/ Abort(c)
             \/ EndRound(c)
      PROVE  StepOK
  BY <1>1, <1>3 DEF StartPlan, StartImport, StartArrayImport, Answer, Abort, EndRound
<1>4. ASSUME CreateNode(c) PROVE StepOK
  <2> DEFINE n == Step(c).node
  <2>1. n \in SpecNode /\ job[c].at \in Nat
    <3>1. Step(c) \in Steps /\ Step(c).op = "node" /\ job[c] \in JobType
      BY <1>4, TurnFields DEF CreateNode
    <3> QED BY <3>1, StepFields, JobFields
  <2>2. PICK i \in Issues :
           /\ CreateTx(i, {}, job[c].at)
           /\ fact' = [fact EXCEPT ![i] = [NoFact EXCEPT !.key = n.key, !.group = n.group,
                                           !.estimate = n.estimate, !.born = job[c].at]]
    BY <1>4 DEF CreateNode
  <2>3. RowsNext
    <3>1. job[c].at \in Int
      BY <2>1
    <3> QED BY <2>2, <3>1, Given DEF RowsNext
  <2>4. fact' \in [Issues -> Fact]
    <3> DEFINE new == [NoFact EXCEPT !.key = n.key, !.group = n.group,
                                     !.estimate = n.estimate, !.born = job[c].at]
    <3>1. new \in Fact
      BY <2>1, NodeFact
    <3>2. fact' = [fact EXCEPT ![i] = new]
      BY <2>2
    <3> HIDE DEF new
    <3> QED BY <1>0, <3>1, <3>2, SetFact
  <2> QED BY <1>2, <1>4, <2>3, <2>4 DEF CreateNode
<1>5. ASSUME WireEdge(c) PROVE StepOK
  <2> DEFINE a == job[c].ids[Step(c).child]
             b == job[c].ids[Step(c).parent]
  <2>1. AddDepTx(a, b) /\ UNCHANGED <<readVars, caseVars>>
    BY <1>5 DEF WireEdge
  <2>2. a \in Issues /\ b \in Issues
    BY <1>5, WireEnds DEF WireEdge
  <2> HIDE DEF a, b
  <2>3. RowsNext
    BY <2>1, <2>2 DEF RowsNext
  <2>4. UNCHANGED <<folder, placed, caseVars>> /\ fact' = fact
    BY <2>1 DEF readVars
  <2> QED BY <1>0, <1>2, <2>3, <2>4
<1>6. ASSUME ImportRow(c) \/ InsertRow(c) PROVE StepOK
  <2> DEFINE r == Step(c).row
  <2>1. UNCHANGED <<folder, placed, caseVars>>
    BY <1>6 DEF ImportRow, InsertRow
  <2>2. r.id \in Issues /\ r.parent \in Issues \cup {0}
    <3>1. Step(c) \in Steps /\ Step(c).op \in {"row", "insert"}
      BY <1>6, TurnFields DEF ImportRow, InsertRow
    <3>2. r \in ExportRow
      BY <3>1, StepFields
    <3> QED BY <3>2 DEF ExportRow
  <2>3. CASE UNCHANGED <<rowVars, fact>>
    BY <1>0, <1>2, <2>1, <2>3
  <2>4. CASE CreateTx(r.id, {}, 0)
             /\ fact' = [fact EXCEPT ![r.id] = [NoFact EXCEPT !.parent = r.parent, !.born = 0,
                                                              !.imported = TRUE]]
    <3> DEFINE new == [NoFact EXCEPT !.parent = r.parent, !.born = 0, !.imported = TRUE]
    <3>1. new \in Fact
      BY <2>2, Given, ImportedFact
    <3>2. fact' = [fact EXCEPT ![r.id] = new]
      BY <2>4
    <3>3. RowsNext
      BY <2>2, <2>4, Given DEF RowsNext
    <3> HIDE DEF new
    <3>4. fact' \in [Issues -> Fact]
      BY <1>0, <2>2, <3>1, <3>2, SetFact
    <3> QED BY <1>2, <2>1, <3>3, <3>4
  <2>5. CASE CreateTx(r.id, {}, 0)
             /\ fact' = [fact EXCEPT ![r.id] = [NoFact EXCEPT !.parent = r.parent, !.born = 0]]
    <3> DEFINE new == [NoFact EXCEPT !.parent = r.parent, !.born = 0]
    <3>1. new \in Fact
      BY <2>2, Given, RowFact
    <3>2. fact' = [fact EXCEPT ![r.id] = new]
      BY <2>5
    <3>3. RowsNext
      BY <2>2, <2>5, Given DEF RowsNext
    <3> HIDE DEF new
    <3>4. fact' \in [Issues -> Fact]
      BY <1>0, <2>2, <3>1, <3>2, SetFact
    <3> QED BY <1>2, <2>1, <3>3, <3>4
  <2> QED BY <1>6, <2>3, <2>4, <2>5 DEF ImportRow, InsertRow
<1>7. ASSUME ImportEdge(c) PROVE StepOK
  <2>1. Step(c).child \in Issues /\ Step(c).parent \in Issues
    BY <1>7, TurnFields, StepFields DEF ImportEdge
  <2>2. UNCHANGED <<folder, placed, caseVars>> /\ fact' = fact
    BY <1>7 DEF ImportEdge, readVars
  <2>3. RowsNext \/ UNCHANGED rowVars
    BY <1>7, <2>1 DEF ImportEdge, RowsNext
  <2> QED BY <1>0, <1>2, <2>2, <2>3
<1>8. ASSUME PatchRow(c) PROVE StepOK
  <2> DEFINE r == Step(c).row
  <2>1. r.id \in Issues /\ r.status \in Statuses
    BY <1>8, TurnFields, StepFields DEF PatchRow, ExportRow
  <2>2. RowsNext
    BY <1>8, <2>1, PatchTypes DEF PatchRow, RowsNext
  <2>3. fact' \in [Issues -> Fact]
    <3> DEFINE t == IF r.status = "closed" THEN now ELSE Never
               u == FirstReview(r.id, r.status)
    <3>1. t \in Times /\ u \in Times
      BY <2>1, PatchTypes, FirstReviewType DEF Times
    <3>2. fact' = [fact EXCEPT ![r.id].ended = t, ![r.id].reviewed = u]
      BY <1>8 DEF PatchRow
    <3> HIDE DEF t, u, r
    <3> QED BY <1>0, <2>1, <3>1, <3>2, FactsPatched DEF FactsKept
  <2> QED BY <1>2, <1>8, <2>2, <2>3 DEF PatchRow
<1>9. ASSUME Settle(c) PROVE StepOK
  <2> DEFINE r == Step(c).row
  <2>1. r.id \in Issues /\ r.status \in Statuses
    BY <1>9, TurnFields, StepFields DEF Settle, ExportRow
  <2>2. UNCHANGED <<folder, placed, caseVars>>
    BY <1>9 DEF Settle
  <2>3. CASE UNCHANGED <<rowVars, fact>>
    BY <1>0, <1>2, <2>2, <2>3
  <2>4. CASE (\E ev \in Receipts : CloseTx(r.id, {ev})) /\ Ending(r.id, "closed", 0)
    <3>1. RowsNext
      BY <2>1, <2>4, Given DEF RowsNext
    <3>2. fact' \in [Issues -> Fact]
      <4>1. fact' = [fact EXCEPT ![r.id].ended = 0] /\ 0 \in Times
        BY <2>4 DEF Ending, Times
      <4> HIDE DEF r
      <4> QED BY <1>0, <2>1, <4>1, FactsEnded DEF FactsKept
    <3> QED BY <1>2, <2>2, <3>1, <3>2
  <2>5. CASE /\ UpdateTx(r.id, r.status, issue[r.id].evidence, 0)
             /\ fact' = [fact EXCEPT ![r.id].reviewed = FirstReview(r.id, r.status)]
    <3>1. RowsNext
      BY <2>1, <2>5, PatchTypes, Given DEF RowsNext
    <3>2. fact' \in [Issues -> Fact]
      <4>1. FirstReview(r.id, r.status) \in Times
        BY <2>1, FirstReviewType
      <4> HIDE DEF r
      <4> QED BY <1>0, <2>1, <2>5, <4>1, FactsReviewed DEF FactsKept
    <3> QED BY <1>2, <2>2, <3>1, <3>2
  <2> QED BY <1>9, <2>3, <2>4, <2>5 DEF Settle, SettleWaits
<1>10. ASSUME CloseException(c) PROVE StepOK
  <2> DEFINE i == Step(c).row.id
  <2>1. i \in Issues
    BY <1>10, TurnFields, StepFields DEF CloseException, ExportRow
  <2>2. RowsNext
    BY <1>10, <2>1, Given DEF CloseException, RowsNext
  <2>3. fact' \in [Issues -> Fact]
    <3>1. fact' = [fact EXCEPT ![i].ended = 0] /\ 0 \in Times
      BY <1>10 DEF CloseException, Ending, Times
    <3> HIDE DEF i
    <3> QED BY <1>0, <2>1, <3>1, FactsEnded DEF FactsKept
  <2> QED BY <1>2, <1>10, <2>2, <2>3 DEF CloseException
<1> QED BY <1>3, <1>4, <1>5, <1>6, <1>7, <1>8, <1>9, <1>10 DEF Job

\* The steps of everybody else.
LEMMA OthersStepOK ==
    ASSUME TypeOK, Others
    PROVE  StepOK /\ UNCHANGED job
<1>0. /\ fact \in [Issues -> Fact] /\ folder \in [Folders -> Folders \cup {Root, NoFolder}]
      /\ placed \in [Projects -> Folders \cup {NoFolder}]
      /\ now \in Nat /\ issue \in [Issues -> Row]
  BY DEF TypeOK, RowsTypeOK
<1>1. ASSUME UNCHANGED <<folder, placed, caseVars, job>>, RowsNext \/ UNCHANGED rowVars,
             fact' \in [Issues -> Fact]
      PROVE  StepOK /\ UNCHANGED job
  BY <1>0, <1>1 DEF StepOK
<1>2. ASSUME Tick PROVE StepOK /\ UNCHANGED job
  BY <1>0, <1>1, <1>2 DEF Tick, RowsNext, readVars
<1>3. ASSUME NEW i \in Issues, NEW ty \in Types, NEW p \in Issues \cup {0}, Create(i, ty, p)
      PROVE  StepOK /\ UNCHANGED job
  <2>1. RowsNext
    BY <1>3, PatchTypes, Given DEF Create, RowsNext
  <2>2. fact' \in [Issues -> Fact]
    <3> DEFINE new == [NoFact EXCEPT !.type = ty, !.parent = p, !.born = now]
    <3>1. new \in Fact
      BY <1>0, MadeFact
    <3>2. fact' = [fact EXCEPT ![i] = new]
      BY <1>3 DEF Create
    <3> HIDE DEF new
    <3> QED BY <1>0, <3>1, <3>2, SetFact
  <2> QED BY <1>1, <1>3, <2>1, <2>2 DEF Create
<1>4. ASSUME NEW i \in Issues, NEW who \in Names, Claim(i, who) PROVE StepOK /\ UNCHANGED job
  <2> DEFINE k == IF who \in Humans THEN "human" ELSE "agent"
             t == IF fact[i].claimed = Never THEN now ELSE fact[i].claimed
  <2>1. k \in Kinds
    BY Given
  <2>2. ClaimTx(i, who, k, AgentTTL, now) /\ fact' = [fact EXCEPT ![i].claimed = t]
        /\ UNCHANGED <<folder, placed, caseVars, job>>
    BY <1>4 DEF Claim
  <2>3. t \in Times
    BY <1>0, PatchTypes DEF Fact
  <2> HIDE DEF k, t
  <2>4. RowsNext
    BY <2>1, <2>2, PatchTypes DEF RowsNext
  <2>5. fact' \in [Issues -> Fact]
    BY <1>0, <2>2, <2>3, FactsClaimed DEF FactsKept
  <2> QED BY <1>1, <2>2, <2>4, <2>5
<1>5. ASSUME NEW i \in Issues, NEW st \in Statuses, SetStatus(i, st)
      PROVE  StepOK /\ UNCHANGED job
  <2>1. RowsNext
    BY <1>5, PatchTypes DEF SetStatus, RowsNext
  <2>2. fact' \in [Issues -> Fact]
    <3> DEFINE t == Ended(i, st)
               u == FirstReview(i, st)
    <3>1. t \in Times /\ u \in Times
      BY PatchTypes, FirstReviewType DEF Times, Ended
    <3>2. fact' = [fact EXCEPT ![i].ended = t, ![i].reviewed = u]
      BY <1>5 DEF SetStatus
    <3> HIDE DEF t, u
    <3> QED BY <1>0, <3>1, <3>2, FactsPatched DEF FactsKept
  <2> QED BY <1>1, <1>5, <2>1, <2>2 DEF SetStatus
<1>6. ASSUME NEW i \in Issues, Close(i) PROVE StepOK /\ UNCHANGED job
  <2>1. RowsNext
    BY <1>6, Given DEF Close, RowsNext
  <2>2. fact' \in [Issues -> Fact]
    <3>1. fact' = [fact EXCEPT ![i].ended = now] /\ now \in Times
      BY <1>6, PatchTypes DEF Close, Ending
    <3> QED BY <1>0, <3>1, FactsEnded DEF FactsKept
  <2> QED BY <1>1, <1>6, <2>1, <2>2 DEF Close
<1>7. ASSUME NEW i \in Issues, NEW j \in Issues, AddDep(i, j) \/ RemoveDep(i, j)
      PROVE  StepOK /\ UNCHANGED job
  <2>1. RowsNext
    BY <1>7 DEF AddDep, RemoveDep, RowsNext
  <2> QED BY <1>0, <1>1, <1>7, <2>1 DEF AddDep, RemoveDep, readVars
<1>8. ASSUME NEW s \in Projects, DropProject(s) PROVE StepOK /\ UNCHANGED job
  <2>1. RowsNext
    BY <1>8 DEF DropProject, RowsNext
  <2>2. fact' \in [Issues -> Fact]
    BY <1>0, <1>8, NoFactType DEF DropProject
  <2>3. placed' \in [Projects -> Folders \cup {NoFolder}]
    BY <1>0, <1>8 DEF DropProject
  <2> QED BY <1>0, <1>8, <2>1, <2>2, <2>3 DEF DropProject, StepOK
<1>9. ASSUME NEW s \in Projects, NEW f \in Folders \cup {NoFolder}, MoveProject(s, f)
      PROVE  StepOK /\ UNCHANGED job
  BY <1>0, <1>9 DEF MoveProject, StepOK
<1>10. ASSUME NEW f \in Folders, NEW p \in Folders \cup {Root}, EnsureFolder(f, p)
       PROVE  StepOK /\ UNCHANGED job
  BY <1>0, <1>10 DEF EnsureFolder, StepOK
<1>11. scene.made \subseteq Issues /\ scene.types \subseteq Types /\ scene.patches \subseteq Statuses
  BY CaseFields
<1> QED BY <1>2, <1>3, <1>4, <1>5, <1>6, <1>7, <1>8, <1>9, <1>10, <1>11 DEF Others

----------------------------------------------------------------------------
(* Jobs *)

\* A popped or extended job keeps its wires ready.
LEMMA WiresPopped ==
    ASSUME NEW j \in JobType, WiresReady(j), j.todo # << >>, NEW k \in JobType,
           k.todo = Tail(j.todo),
           \A x \in Keys : j.ids[x] \in Issues => k.ids[x] \in Issues,
           j.todo[1].op = "node" => k.ids[j.todo[1].node.key] \in Issues
    PROVE  WiresReady(k)
<1> DEFINE s == j.todo
           t == k.todo
<1>1. s \in Seq(Steps) /\ s # << >> /\ t = Tail(s)
  BY JobFields
<1>2. /\ t \in Seq(Steps) /\ s[1] \in Steps /\ 1 \in DOMAIN s
      /\ \A a \in DOMAIN t : a + 1 \in DOMAIN s /\ t[a] = s[a + 1]
      /\ \A a \in DOMAIN s : a = 1 \/ (a - 1 \in DOMAIN t /\ t[a - 1] = s[a])
  <2> HIDE DEF s, t
  <2> QED BY <1>1, Popped
<1>3. DOMAIN s \subseteq Nat /\ DOMAIN t \subseteq Nat
  BY <1>1, <1>2
<1>4. \A a \in Left(j, "wire") : \A x \in {s[a].child, s[a].parent} :
         j.ids[x] \in Issues \/ \E b \in Left(j, "node") : b < a /\ s[b].node.key = x
  BY DEF WiresReady
<1> SUFFICES ASSUME NEW a \in Left(k, "wire"), NEW x \in {t[a].child, t[a].parent}
             PROVE  k.ids[x] \in Issues \/ \E b \in Left(k, "node") : b < a /\ t[b].node.key = x
  BY DEF WiresReady
<1>5. a \in DOMAIN t /\ t[a].op = "wire" /\ a + 1 \in DOMAIN s /\ s[a + 1] = t[a]
  BY <1>2 DEF Left
<1>6. a + 1 \in Left(j, "wire") /\ x \in {s[a + 1].child, s[a + 1].parent}
  BY <1>5 DEF Left
<1>7. x \in Keys
  <2>1. t[a] \in Steps
    BY <1>2, <1>5
  <2> QED BY <1>5, <2>1, StepFields
<1>8. CASE j.ids[x] \in Issues
  BY <1>7, <1>8
<1>9. ASSUME NEW b \in Left(j, "node"), b < a + 1, s[b].node.key = x
      PROVE  k.ids[x] \in Issues \/ \E e \in Left(k, "node") : e < a /\ t[e].node.key = x
  <2>1. b \in DOMAIN s /\ s[b].op = "node"
    BY <1>9 DEF Left
  <2>2. CASE b = 1
    BY <1>9, <2>1, <2>2
  <2>3. CASE b # 1
    <3>1. b - 1 \in DOMAIN t /\ t[b - 1] = s[b]
      BY <1>2, <2>1, <2>3
    <3>2. b - 1 \in Left(k, "node") /\ b - 1 < a
      BY <1>3, <1>5, <1>9, <2>1, <3>1 DEF Left
    <3> QED BY <1>9, <3>1, <3>2
  <2> QED BY <2>2, <2>3
<1> QED BY <1>4, <1>6, <1>8, <1>9

\* A job without wires has them ready.
LEMMA NoWires ==
    ASSUME NEW j, \A a \in DOMAIN j.todo : j.todo[a].op # "wire"
    PROVE  WiresReady(j)
BY DEF WiresReady, Left

\* The wires of a plan just started wait for its nodes.
LEMMA PlanWires ==
    ASSUME TypeOK, Valid(spec), NEW j, j.todo = PlanScript(spec)
    PROVE  WiresReady(j)
<1> DEFINE s == PlanScript(spec)
<1>1. /\ s \in Seq(Steps) /\ Len(spec) <= Len(s)
      /\ \A a \in DOMAIN spec : s[a] = [op |-> "node", node |-> spec[a]]
      /\ \A a \in DOMAIN s \ DOMAIN spec :
            /\ s[a].op = "wire"
            /\ \E n \in DOMAIN spec : s[a].child = spec[n].key /\ s[a].parent \in spec[n].deps
  BY CaseFields, PlanScriptIs
<1> HIDE DEF s
<1>2. /\ DOMAIN spec = 1 .. Len(spec) /\ DOMAIN s = 1 .. Len(s)
      /\ Len(spec) \in Nat /\ Len(s) \in Nat
  BY <1>1, CaseFields
<1>3. ASSUME NEW n \in DOMAIN spec, NEW d \in spec[n].deps PROVE \E m \in DOMAIN spec : spec[m].key = d
  <2>1. <<spec[n].key, d>> \in SpecEdges(spec)
    BY DEF SpecEdges
  <2>2. d \in SpecKeys(spec)
    BY <2>1 DEF Valid
  <2> QED BY <2>2 DEF SpecKeys
<1>4. ASSUME NEW a \in DOMAIN s, s[a].op = "wire", NEW x \in {s[a].child, s[a].parent}
      PROVE  \E b \in Left(j, "node") : b < a /\ s[b].node.key = x
  <2>1. a \notin DOMAIN spec
    <3> SUFFICES ASSUME a \in DOMAIN spec PROVE FALSE
      OBVIOUS
    <3>1. s[a] = [op |-> "node", node |-> spec[a]]
      BY <1>1
    <3>2. s[a].op = "node"
      BY <3>1
    <3> QED BY <1>4, <3>2
  <2>2. PICK n \in DOMAIN spec : s[a].child = spec[n].key /\ s[a].parent \in spec[n].deps
    BY <1>1, <2>1
  <2>3. PICK m \in DOMAIN spec : spec[m].key = x
    BY <1>3, <2>2
  <2>4. m \in DOMAIN s /\ s[m] = [op |-> "node", node |-> spec[m]] /\ m < a
    BY <1>1, <1>2, <2>1
  <2>5. m \in Left(j, "node") /\ s[m].node.key = x
    BY <2>3, <2>4 DEF Left, s
  <2> QED BY <2>4, <2>5
<1>5. j.todo = s
  BY DEF s
<1> QED BY <1>4, <1>5 DEF WiresReady, Left

\* The job a client has after its own step, field by field.
LEMMA StartPlanJob ==
    ASSUME TypeOK, NEW c \in Clients, StartPlan(c)
    PROVE  /\ job' \in [Clients -> JobType] /\ \A d \in Clients \ {c} : job'[d] = job[d]
           /\ job'[c].busy /\ ~job'[c].resumable /\ job'[c].todo = PlanScript(spec)
<1> DEFINE t == PlanScript(spec)
           k == Started(t, now, FALSE)
<1>1. t \in Seq(Steps) /\ job \in [Clients -> JobType] /\ now \in Nat
  BY CaseFields, PlanScriptIs DEF TypeOK, RowsTypeOK
<1>2. job' = [job EXCEPT ![c] = k]
  BY DEF StartPlan
<1> HIDE DEF t
<1>3. t \in Seq(Steps)
  BY <1>1
<1>4. now \in Nat /\ FALSE \in BOOLEAN
  BY <1>1
<1>5. k \in JobType
  BY <1>3, <1>4, StartedJob
<1>6. k.busy
  BY <1>3, <1>4, StartedJob
<1>7. ~k.resumable
  BY <1>3, <1>4, StartedJob
<1>8. k.todo = t /\ k.failed = << >>
  BY <1>3, <1>4, StartedJob
<1> HIDE DEF k
<1>9. job' \in [Clients -> JobType] /\ job'[c] = k /\ \A d \in Clients \ {c} : job'[d] = job[d]
  BY <1>1, <1>2, <1>5, SetJob
<1> QED BY <1>6, <1>7, <1>8, <1>9 DEF t

LEMMA StartImportJob ==
    ASSUME TypeOK, NEW c \in Clients, StartImport(c)
    PROVE  /\ job' \in [Clients -> JobType] /\ \A d \in Clients \ {c} : job'[d] = job[d]
           /\ job'[c].busy /\ job'[c].resumable /\ job'[c].todo = ImportScript(file)
           /\ job'[c].failed = << >>
<1> DEFINE t == ImportScript(file)
           k == Started(t, 0, TRUE)
<1>1. t \in Seq(Steps) /\ job \in [Clients -> JobType] /\ now \in Nat
  BY CaseFields, ImportScriptIs DEF TypeOK, RowsTypeOK
<1>2. job' = [job EXCEPT ![c] = k]
  BY DEF StartImport
<1> HIDE DEF t
<1>3. t \in Seq(Steps)
  BY <1>1
<1>4. 0 \in Nat /\ TRUE \in BOOLEAN
  BY <1>1
<1>5. k \in JobType
  BY <1>3, <1>4, StartedJob
<1>6. k.busy
  BY <1>3, <1>4, StartedJob
<1>7. k.resumable
  BY <1>3, <1>4, StartedJob
<1>8. k.todo = t /\ k.failed = << >>
  BY <1>3, <1>4, StartedJob
<1> HIDE DEF k
<1>9. job' \in [Clients -> JobType] /\ job'[c] = k /\ \A d \in Clients \ {c} : job'[d] = job[d]
  BY <1>1, <1>2, <1>5, SetJob
<1> QED BY <1>6, <1>7, <1>8, <1>9 DEF t

LEMMA StartArrayJob ==
    ASSUME TypeOK, NEW c \in Clients, StartArrayImport(c)
    PROVE  /\ job' \in [Clients -> JobType] /\ \A d \in Clients \ {c} : job'[d] = job[d]
           /\ job'[c].busy /\ ~job'[c].resumable /\ job'[c].todo \in Seq(Unplanned)
<1> DEFINE t == ArrayScript(file)
           k == Started(t, 0, FALSE)
<1>1. t \in Seq(Unplanned) /\ job \in [Clients -> JobType] /\ now \in Nat
  BY CaseFields, ArrayScriptType DEF TypeOK, RowsTypeOK
<1>2. job' = [job EXCEPT ![c] = k]
  BY DEF StartArrayImport
<1> HIDE DEF t
<1>3. t \in Seq(Steps)
  BY <1>1 DEF Unplanned
<1>4. 0 \in Nat /\ FALSE \in BOOLEAN
  BY <1>1
<1>5. k \in JobType
  BY <1>3, <1>4, StartedJob
<1>6. k.busy
  BY <1>3, <1>4, StartedJob
<1>7. ~k.resumable
  BY <1>3, <1>4, StartedJob
<1>8. k.todo = t /\ k.failed = << >>
  BY <1>3, <1>4, StartedJob
<1> HIDE DEF k
<1>9. job' \in [Clients -> JobType] /\ job'[c] = k /\ \A d \in Clients \ {c} : job'[d] = job[d]
  BY <1>1, <1>2, <1>5, SetJob
<1> QED BY <1>1, <1>6, <1>7, <1>8, <1>9

LEMMA NodeJob ==
    ASSUME TypeOK, NEW c \in Clients, Turn(c, "node"), NEW i \in Issues,
           job' = [job EXCEPT ![c].todo = Tail(@), ![c].ids[Step(c).node.key] = i]
    PROVE  /\ job' \in [Clients -> JobType] /\ \A d \in Clients \ {c} : job'[d] = job[d]
           /\ job'[c].busy /\ job'[c].todo = Tail(job[c].todo)
           /\ job'[c].resumable = job[c].resumable
           /\ job'[c].ids = [job[c].ids EXCEPT ![Step(c).node.key] = i]
<1> DEFINE key == Step(c).node.key
           j1 == [job[c] EXCEPT !.todo = Tail(job[c].todo)]
           ids == [job[c].ids EXCEPT ![key] = i]
           k == [j1 EXCEPT !.ids = ids]
<1>1. job[c] \in JobType /\ Tail(job[c].todo) \in Seq(Steps) /\ job[c].busy
      /\ job \in [Clients -> JobType] /\ key \in Keys
  BY TurnFields, StepFields DEF TypeOK, SpecNode
<1>4. job' = [job EXCEPT ![c] = k]
  OBVIOUS
<1>3. ids \in [Keys -> Issues \cup {0}]
  BY <1>1, JobFields
<1>a. j1 = [job[c] EXCEPT !.todo = Tail(job[c].todo)] /\ k = [j1 EXCEPT !.ids = ids]
  OBVIOUS
<1>b. ids = [job[c].ids EXCEPT ![key] = i]
  OBVIOUS
<1> HIDE DEF j1, ids, k
<1>2t. j1 \in JobType
  BY ONLY <1>1, <1>a, JobTodo
<1>2f. j1.todo = Tail(job[c].todo) /\ j1.busy
      /\ j1.ids = job[c].ids /\ j1.resumable = job[c].resumable
  BY ONLY <1>1, <1>a, JobTodo
<1>2. j1 \in JobType /\ (j1.todo = Tail(job[c].todo) /\ j1.busy
      /\ j1.ids = job[c].ids /\ j1.resumable = job[c].resumable)
  BY ONLY <1>2t, <1>2f
<1>5t. k \in JobType
  BY ONLY <1>2, <1>3, <1>a, JobIds
<1>5f. k.todo = Tail(job[c].todo) /\ k.busy /\ k.ids = ids
      /\ k.resumable = job[c].resumable
  BY ONLY <1>2, <1>3, <1>a, JobIds
<1>5. k \in JobType /\ (k.todo = Tail(job[c].todo) /\ k.busy /\ k.ids = ids
      /\ k.resumable = job[c].resumable)
  BY ONLY <1>5t, <1>5f
<1>6. job' \in [Clients -> JobType] /\ job'[c] = k /\ \A d \in Clients \ {c} : job'[d] = job[d]
  BY <1>1, <1>4, <1>5, SetJob
<1> QED BY <1>1, <1>5, <1>6, <1>b

LEMMA OnwardFields ==
    ASSUME TypeOK, NEW c \in Clients, Onward(c), NEW op, Turn(c, op)
    PROVE  /\ job' \in [Clients -> JobType] /\ \A d \in Clients \ {c} : job'[d] = job[d]
           /\ job'[c].busy /\ job'[c].todo = Tail(job[c].todo)
           /\ job'[c].ids = job[c].ids /\ job'[c].resumable = job[c].resumable
           /\ job'[c].failed = job[c].failed
<1> DEFINE k == [job[c] EXCEPT !.todo = Tail(job[c].todo)]
<1>1. job[c] \in JobType /\ Tail(job[c].todo) \in Seq(Steps) /\ job[c].busy
  BY TurnFields
<1>2. /\ k.busy /\ k.todo = Tail(job[c].todo) /\ k.ids = job[c].ids
      /\ k.resumable = job[c].resumable /\ k.failed = job[c].failed
  BY <1>1, JobTodo
<1>3. job'[c] = k /\ job' \in [Clients -> JobType] /\ \A d \in Clients \ {c} : job'[d] = job[d]
  BY OnwardJob
<1> QED BY <1>2, <1>3

LEMMA SettleJob ==
    ASSUME TypeOK, NEW c \in Clients, Turn(c, "settle"),
           Progressed(c) \/ job' = [job EXCEPT ![c].todo = Tail(@),
                                               ![c].failed = Append(@, Step(c).row)]
    PROVE  /\ job' \in [Clients -> JobType] /\ \A d \in Clients \ {c} : job'[d] = job[d]
           /\ job'[c].busy /\ job'[c].todo = Tail(job[c].todo)
           /\ job'[c].ids = job[c].ids /\ job'[c].resumable = job[c].resumable
           /\ Progressed(c) => job'[c].failed = job[c].failed
           /\ ~Progressed(c) => job'[c].failed = Append(job[c].failed, Step(c).row)
<1> DEFINE j1 == [job[c] EXCEPT !.todo = Tail(job[c].todo)]
           f == Append(job[c].failed, Step(c).row)
           k1 == [j1 EXCEPT !.progressed = TRUE]
           k2 == [j1 EXCEPT !.failed = f]
<1>1. job[c] \in JobType /\ Tail(job[c].todo) \in Seq(Steps) /\ job[c].busy
      /\ job \in [Clients -> JobType] /\ Step(c).row \in ExportRow
  BY TurnFields, StepFields DEF TypeOK
<1>3. f \in Seq(ExportRow)
  BY <1>1, JobFields
<1>4. Progressed(c) => job' = [job EXCEPT ![c] = k1]
  BY DEF Progressed
<1>5. ~Progressed(c) => job' = [job EXCEPT ![c] = k2]
  OBVIOUS
<1>a. j1 = [job[c] EXCEPT !.todo = Tail(job[c].todo)] /\ k1 = [j1 EXCEPT !.progressed = TRUE]
      /\ k2 = [j1 EXCEPT !.failed = f] /\ f = Append(job[c].failed, Step(c).row)
  OBVIOUS
<1> HIDE DEF j1, k1, k2, f
<1>2t. j1 \in JobType
  BY ONLY <1>1, <1>a, JobTodo
<1>2f. j1.busy /\ j1.todo = Tail(job[c].todo)
      /\ j1.ids = job[c].ids /\ j1.resumable = job[c].resumable /\ j1.failed = job[c].failed
  BY ONLY <1>1, <1>a, JobTodo
<1>2. j1 \in JobType /\ (j1.busy /\ j1.todo = Tail(job[c].todo)
      /\ j1.ids = job[c].ids /\ j1.resumable = job[c].resumable /\ j1.failed = job[c].failed)
  BY ONLY <1>2t, <1>2f
<1>6t. k1 \in JobType
  <2>1. TRUE \in BOOLEAN
    OBVIOUS
  <2> QED BY ONLY <1>2, <1>a, <2>1, JobProgressed
<1>6f. k1.busy /\ k1.todo = Tail(job[c].todo)
      /\ k1.ids = job[c].ids /\ k1.resumable = job[c].resumable /\ k1.failed = job[c].failed
  <2>1. TRUE \in BOOLEAN
    OBVIOUS
  <2> QED BY ONLY <1>2, <1>a, <2>1, JobProgressed
<1>6. k1 \in JobType /\ (k1.busy /\ k1.todo = Tail(job[c].todo)
      /\ k1.ids = job[c].ids /\ k1.resumable = job[c].resumable /\ k1.failed = job[c].failed)
  BY ONLY <1>6t, <1>6f
<1>7t. k2 \in JobType
  BY ONLY <1>2, <1>3, <1>a, JobFailed
<1>7f. k2.busy /\ k2.todo = Tail(job[c].todo)
      /\ k2.ids = job[c].ids /\ k2.resumable = job[c].resumable /\ k2.failed = f
  BY ONLY <1>2, <1>3, <1>a, JobFailed
<1>7. k2 \in JobType /\ (k2.busy /\ k2.todo = Tail(job[c].todo)
      /\ k2.ids = job[c].ids /\ k2.resumable = job[c].resumable /\ k2.failed = f)
  BY ONLY <1>7t, <1>7f
<1>8. CASE Progressed(c)
  <2>1. job' \in [Clients -> JobType] /\ job'[c] = k1 /\ \A d \in Clients \ {c} : job'[d] = job[d]
    BY <1>1, <1>4, <1>6, <1>8, SetJob
  <2> QED BY <1>1, <1>6, <1>8, <2>1
<1>9. CASE ~Progressed(c)
  <2>1. job' \in [Clients -> JobType] /\ job'[c] = k2 /\ \A d \in Clients \ {c} : job'[d] = job[d]
    BY <1>1, <1>5, <1>7, <1>9, SetJob
  <2> QED BY <1>1, <1>7, <1>9, <1>a, <2>1
<1> QED BY <1>8, <1>9

\* The rounds of an import, after one that moved something and after one that did not.
LEMMA RoundJob ==
    ASSUME TypeOK, NEW c \in Clients, EndRound(c)
    PROVE  /\ job' \in [Clients -> JobType] /\ \A d \in Clients \ {c} : job'[d] = job[d]
           /\ job'[c].busy /\ job'[c].resumable = job[c].resumable /\ job'[c].failed = << >>
           /\ job'[c].todo \in Seq(Steps)
           /\ \A a \in DOMAIN job'[c].todo : job'[c].todo[a].op \in {"settle", "round", "except"}
           /\ \A a \in Left(job'[c], "round") : a = Len(job'[c].todo)
           /\ Left(job'[c], "settle") # {} => Left(job'[c], "round") # {}
           /\ \A n \in DOMAIN job[c].failed : \E a \in DOMAIN job'[c].todo :
                 /\ job'[c].todo[a].op \in {"settle", "except"}
                 /\ job'[c].todo[a].row = job[c].failed[n]
<1> DEFINE f == job[c].failed
           s == [n \in DOMAIN f |-> [op |-> "settle", row |-> f[n]]]
           e == [n \in DOMAIN f |-> [op |-> "except", row |-> f[n]]]
           last == <<[op |-> "round"]>>
           t == IF job[c].progressed THEN s \o last ELSE e
           j1 == [job[c] EXCEPT !.failed = << >>]
           j2 == [j1 EXCEPT !.progressed = FALSE]
           k == [j2 EXCEPT !.todo = t]
<1>1. job[c] \in JobType /\ job[c].busy /\ job \in [Clients -> JobType] /\ f \in Seq(ExportRow)
  <2>1. Turn(c, "round")
    BY DEF EndRound
  <2>2. job[c] \in JobType /\ job[c].busy
    BY <2>1, TurnFields
  <2> QED BY <2>2, JobFields DEF TypeOK
<1>2. job' = [job EXCEPT ![c] = k]
  BY DEF EndRound
<1> HIDE DEF f
<1>3. /\ s \in Seq(Steps) /\ DOMAIN s = DOMAIN f
      /\ \A n \in DOMAIN f : s[n] = [op |-> "settle", row |-> f[n]]
  BY <1>1, RowSteps
<1>4. /\ e \in Seq(Steps) /\ DOMAIN e = DOMAIN f
      /\ \A n \in DOMAIN f : e[n] = [op |-> "except", row |-> f[n]]
  BY <1>1, RowSteps
<1>5. last \in Seq(Steps) /\ \A n \in DOMAIN last : last[n].op = "round"
  BY NewSteps
<1>l. Len(last) = 1 /\ DOMAIN last = {1}
  OBVIOUS
<1>6. /\ t \in Seq(Steps)
      /\ \A a \in DOMAIN t : t[a].op \in {"settle", "round", "except"}
      /\ \A n \in DOMAIN f : \E a \in DOMAIN t : t[a].op \in {"settle", "except"} /\ t[a].row = f[n]
      /\ \A a \in DOMAIN t : t[a].op = "round" => a = Len(t)
      /\ \A a \in DOMAIN t : t[a].op = "settle" => \E b \in DOMAIN t : t[b].op = "round"
  <2>1. CASE job[c].progressed
    <3> DEFINE u == s \o last
    <3> HIDE DEF s, last, u
    <3>1. u = s \o last
      BY DEF u
    <3>2. /\ u \in Seq(Steps)
          /\ \A n \in DOMAIN s : n \in DOMAIN u /\ u[n] = s[n]
          /\ \A n \in DOMAIN last : Len(s) + n \in DOMAIN u /\ u[Len(s) + n] = last[n]
          /\ \A n \in DOMAIN u :
                n \in DOMAIN s \/ (n - Len(s) \in DOMAIN last /\ u[n] = last[n - Len(s)])
      BY ONLY <1>3, <1>5, <3>1, Joined
    <3>3. \A a \in DOMAIN u : u[a].op \in {"settle", "round", "except"}
      BY <1>3, <1>5, <3>2
    <3>4. \A n \in DOMAIN f : n \in DOMAIN u /\ u[n].op = "settle" /\ u[n].row = f[n]
      BY <1>3, <3>2
    <3>5. t = u
      BY <2>1 DEF u
    <3>6. Len(u) = Len(s) + 1 /\ Len(s) \in Nat
      <4>1. s \in Seq(Steps) /\ last \in Seq(Steps)
        BY <1>3, <1>5
      <4>2. Len(s \o last) = Len(s) + Len(last)
        BY ONLY <4>1
      <4>3. Len(s) \in Nat
        BY ONLY <4>1
      <4> QED BY ONLY <4>2, <4>3, <1>l, <3>1
    <3>7. ASSUME NEW a \in DOMAIN u, u[a].op = "round" PROVE a = Len(u)
      <4>1. a \notin DOMAIN s
        BY <1>3, <3>2, <3>7
      <4>2. a \in Int /\ a - Len(s) = 1
        BY ONLY <1>l, <3>2, <3>7, <4>1
      <4> QED BY ONLY <3>6, <4>2
    <3>8. Len(s) + 1 \in DOMAIN u /\ u[Len(s) + 1].op = "round"
      BY ONLY <1>5, <1>l, <3>2
    <3> HIDE DEF t
    <3> QED BY ONLY <3>2, <3>3, <3>4, <3>5, <3>7, <3>8
  <2>2. CASE ~job[c].progressed
    <3>1. t = e
      BY <2>2
    <3> HIDE DEF t, e
    <3> QED BY <1>4, <3>1
  <2> QED BY <2>1, <2>2
<1>a. j1 = [job[c] EXCEPT !.failed = << >>] /\ j2 = [j1 EXCEPT !.progressed = FALSE]
      /\ k = [j2 EXCEPT !.todo = t]
  OBVIOUS
<1> HIDE DEF t, j1, j2, k
<1>7t. j1 \in JobType
  <2>1. << >> \in Seq(ExportRow)
    OBVIOUS
  <2> QED BY ONLY <1>1, <1>a, <2>1, JobFailed
<1>7f. j1.busy /\ j1.resumable = job[c].resumable
      /\ j1.failed = << >>
  <2>1. << >> \in Seq(ExportRow)
    OBVIOUS
  <2> QED BY ONLY <1>1, <1>a, <2>1, JobFailed
<1>7. j1 \in JobType /\ (j1.busy /\ j1.resumable = job[c].resumable
      /\ j1.failed = << >>)
  BY ONLY <1>7t, <1>7f
<1>8t. j2 \in JobType
  <2>1. FALSE \in BOOLEAN
    OBVIOUS
  <2> QED BY ONLY <1>7, <1>a, <2>1, JobProgressed
<1>8f. j2.busy /\ j2.resumable = job[c].resumable
      /\ j2.failed = << >>
  <2>1. FALSE \in BOOLEAN
    OBVIOUS
  <2> QED BY ONLY <1>7, <1>a, <2>1, JobProgressed
<1>8. j2 \in JobType /\ (j2.busy /\ j2.resumable = job[c].resumable
      /\ j2.failed = << >>)
  BY ONLY <1>8t, <1>8f
<1>9t. k \in JobType
  BY ONLY <1>6, <1>8, <1>a, JobTodo
<1>9f. k.busy /\ k.resumable = job[c].resumable
      /\ k.failed = << >> /\ k.todo = t
  BY ONLY <1>6, <1>8, <1>a, JobTodo
<1>9. k \in JobType /\ (k.busy /\ k.resumable = job[c].resumable
      /\ k.failed = << >> /\ k.todo = t)
  BY ONLY <1>9t, <1>9f
<1>10. job' \in [Clients -> JobType] /\ job'[c] = k /\ \A d \in Clients \ {c} : job'[d] = job[d]
  BY <1>1, <1>2, <1>9, SetJob
<1>11. /\ k.todo \in Seq(Steps)
       /\ \A a \in DOMAIN k.todo : k.todo[a].op \in {"settle", "round", "except"}
       /\ \A n \in DOMAIN f : \E a \in DOMAIN k.todo :
             k.todo[a].op \in {"settle", "except"} /\ k.todo[a].row = f[n]
  BY ONLY <1>6, <1>9
<1>12. \A a \in Left(k, "round") : a = Len(k.todo)
  BY ONLY <1>6, <1>9 DEF Left
<1>13. Left(k, "settle") # {} => Left(k, "round") # {}
  <2> SUFFICES ASSUME NEW a \in Left(k, "settle") PROVE Left(k, "round") # {}
    OBVIOUS
  <2>1. PICK b \in DOMAIN t : t[b].op = "round"
    BY ONLY <1>6, <1>9 DEF Left
  <2>2. b \in Left(k, "round")
    BY ONLY <1>9, <2>1 DEF Left
  <2> QED BY ONLY <2>2
<1> QED BY ONLY <1>9, <1>10, <1>11, <1>12, <1>13 DEF f

\* The shape of every job after a step of one, and its wires.
LEMMA JobStepJobs ==
    ASSUME TypeOK, JobsOK, NEW c \in Clients, Job(c)
    PROVE  /\ job' \in [Clients -> JobType] /\ \A d \in Clients \ {c} : job'[d] = job[d]
           /\ ~job'[c].busy => job'[c] = NoJob
           /\ WiresReady(job'[c])
<1> DEFINE Good == /\ job' \in [Clients -> JobType] /\ \A d \in Clients \ {c} : job'[d] = job[d]
                   /\ ~job'[c].busy => job'[c] = NoJob
                   /\ WiresReady(job'[c])
<1>0. job \in [Clients -> JobType] /\ job[c] \in JobType /\ WiresReady(job[c])
  BY DEF TypeOK, JobsOK
<1>1. ASSUME job' \in [Clients -> JobType], \A d \in Clients \ {c} : job'[d] = job[d],
             job'[c].busy, WiresReady(job'[c])
      PROVE  Good
  BY <1>1
<1> HIDE DEF Good
<1>2. ASSUME NEW op, Turn(c, op), op # "node",
             job' \in [Clients -> JobType], \A d \in Clients \ {c} : job'[d] = job[d],
             job'[c].busy, job'[c].todo = Tail(job[c].todo), job'[c].ids = job[c].ids
      PROVE  Good
  <2>1. job[c].todo # << >> /\ job[c].todo[1].op # "node" /\ job'[c] \in JobType
    BY <1>2, TurnFields
  <2>2. WiresReady(job'[c])
    BY <1>0, <1>2, <2>1, WiresPopped
  <2> QED BY <1>1, <1>2, <2>2
<1>3. ASSUME NEW op, Turn(c, op), op # "node", Onward(c) PROVE Good
  BY <1>2, <1>3, OnwardFields
<1>4. ASSUME StartPlan(c) PROVE Good
  <2>1. Valid(spec)
    BY <1>4 DEF StartPlan
  <2>2. /\ job' \in [Clients -> JobType] /\ \A d \in Clients \ {c} : job'[d] = job[d]
        /\ job'[c].busy /\ job'[c].todo = PlanScript(spec)
    BY <1>4, StartPlanJob
  <2>3. WiresReady(job'[c])
    BY <2>1, <2>2, PlanWires
  <2> QED BY <1>1, <2>2, <2>3
<1>5. ASSUME StartImport(c) PROVE Good
  <2> DEFINE s == ImportScript(file)
  <2>1. /\ job' \in [Clients -> JobType] /\ \A d \in Clients \ {c} : job'[d] = job[d]
        /\ job'[c].busy /\ job'[c].todo = s
    BY <1>5, StartImportJob
  <2>2. \A a \in DOMAIN s : s[a].op \in {"row", "edge", "settle", "round"}
    BY CaseFields, ImportScriptIs
  <2> HIDE DEF s
  <2>3. \A a \in DOMAIN job'[c].todo : job'[c].todo[a].op # "wire"
    BY <2>1, <2>2
  <2>4. WiresReady(job'[c])
    BY <2>3, NoWires
  <2> QED BY <1>1, <2>1, <2>4
<1>6. ASSUME StartArrayImport(c) PROVE Good
  <2>1. /\ job' \in [Clients -> JobType] /\ \A d \in Clients \ {c} : job'[d] = job[d]
        /\ job'[c].busy /\ job'[c].todo \in Seq(Unplanned)
    BY <1>6, StartArrayJob
  <2>2. \A a \in DOMAIN job'[c].todo : job'[c].todo[a] \in Unplanned
    BY <2>1
  <2>3. \A a \in DOMAIN job'[c].todo : job'[c].todo[a].op # "wire"
    BY <2>2 DEF Unplanned
  <2>4. WiresReady(job'[c])
    BY <2>3, NoWires
  <2> QED BY <1>1, <2>1, <2>4
<1>7. ASSUME Answer(c) \/ Abort(c) PROVE Good
  <2>1. job' = [job EXCEPT ![c] = NoJob]
    BY <1>7 DEF Answer, Abort
  <2>2. job' \in [Clients -> JobType] /\ job'[c] = NoJob /\ \A d \in Clients \ {c} : job'[d] = job[d]
    BY <1>0, <2>1, NoJobType, SetJob
  <2>3. \A a \in DOMAIN NoJob.todo : NoJob.todo[a].op # "wire"
    BY NoJobType
  <2>4. WiresReady(NoJob)
    BY <2>3, NoWires
  <2> QED BY <2>2, <2>4 DEF Good
<1>8. ASSUME CreateNode(c) PROVE Good
  <2> DEFINE key == Step(c).node.key
  <2>1. Turn(c, "node")
    BY <1>8 DEF CreateNode
  <2>2. PICK i \in Issues : job' = [job EXCEPT ![c].todo = Tail(@), ![c].ids[key] = i]
    BY <1>8 DEF CreateNode
  <2>3. /\ job' \in [Clients -> JobType] /\ \A d \in Clients \ {c} : job'[d] = job[d]
        /\ job'[c].busy /\ job'[c].todo = Tail(job[c].todo)
        /\ job'[c].ids = [job[c].ids EXCEPT ![key] = i]
    BY <2>1, <2>2, NodeJob
  <2>4. job[c].todo # << >> /\ key \in Keys /\ job'[c] \in JobType /\ Step(c) = job[c].todo[1]
        /\ job[c].ids \in [Keys -> Issues \cup {0}]
    BY <1>0, <2>1, <2>3, TurnFields, StepFields, JobFields DEF SpecNode
  <2>5. \A x \in Keys : job[c].ids[x] \in Issues => job'[c].ids[x] \in Issues
    BY <2>3, <2>4
  <2>6. job'[c].ids[job[c].todo[1].node.key] \in Issues
    BY <2>3, <2>4
  <2>7. WiresReady(job'[c])
    BY <1>0, <2>3, <2>4, <2>5, <2>6, WiresPopped
  <2> QED BY <1>1, <2>3, <2>7
<1>9. ASSUME WireEdge(c) \/ ImportRow(c) \/ InsertRow(c) \/ ImportEdge(c) \/ PatchRow(c)
             \/ CloseException(c)
      PROVE  Good
  BY <1>3, <1>9 DEF WireEdge, ImportRow, InsertRow, ImportEdge, PatchRow, CloseException
<1>10. ASSUME Settle(c) PROVE Good
  <2>1. Turn(c, "settle")
    BY <1>10 DEF Settle
  <2>2. CASE Onward(c)
    BY <1>3, <2>1, <2>2
  <2>3. CASE Progressed(c) \/ job' = [job EXCEPT ![c].todo = Tail(@),
                                                 ![c].failed = Append(@, Step(c).row)]
    <3>1. /\ job' \in [Clients -> JobType] /\ \A d \in Clients \ {c} : job'[d] = job[d]
          /\ job'[c].busy /\ job'[c].todo = Tail(job[c].todo) /\ job'[c].ids = job[c].ids
      BY <2>1, <2>3, SettleJob
    <3> QED BY <1>2, <2>1, <3>1
  <2> QED BY <1>10, <2>2, <2>3 DEF Settle, SettleWaits
<1>11. ASSUME EndRound(c) PROVE Good
  <2>1. /\ job' \in [Clients -> JobType] /\ \A d \in Clients \ {c} : job'[d] = job[d]
        /\ job'[c].busy
        /\ \A a \in DOMAIN job'[c].todo : job'[c].todo[a].op \in {"settle", "round", "except"}
    BY <1>11, RoundJob
  <2>2. \A a \in DOMAIN job'[c].todo : job'[c].todo[a].op # "wire"
    BY <2>1
  <2>3. WiresReady(job'[c])
    BY <2>2, NoWires
  <2> QED BY <1>1, <2>1, <2>3
<1> QED BY <1>4, <1>5, <1>6, <1>7, <1>8, <1>9, <1>10, <1>11 DEF Job, Good

\* WiresReady looks at nothing but the job.
LEMMA JobsNext ==
    ASSUME JobsOK, NEW c \in Clients, \A d \in Clients \ {c} : job'[d] = job[d],
           ~job'[c].busy => job'[c] = NoJob, WiresReady(job'[c])
    PROVE  JobsOK'
<1>1. \A d \in Clients : (~job'[d].busy => job'[d] = NoJob) /\ WiresReady(job'[d])
  BY DEF JobsOK
<1> QED BY <1>1 DEF JobsOK, WiresReady, Left, NoJob

\* Type correctness, and no edge or wire without its ends.
PlanningOK == TypeOK /\ JobsOK /\ EdgesResolve

LEMMA StepKinds ==
    ASSUME PlanningOK, [Next]_vars
    PROVE  StepOK /\ job' \in [Clients -> JobType] /\ JobsOK'
<1>0. TypeOK /\ JobsOK /\ job \in [Clients -> JobType]
  BY DEF PlanningOK, TypeOK
<1>1. ASSUME UNCHANGED job PROVE JobsOK'
  BY <1>0, <1>1 DEF JobsOK, WiresReady, Left, NoJob
<1>2. ASSUME NEW c \in Clients, Job(c) PROVE StepOK /\ job' \in [Clients -> JobType] /\ JobsOK'
  <2>1. StepOK
    BY <1>0, <1>2, JobStepOK
  <2>2. /\ job' \in [Clients -> JobType] /\ \A d \in Clients \ {c} : job'[d] = job[d]
        /\ (~job'[c].busy => job'[c] = NoJob) /\ WiresReady(job'[c])
    BY <1>0, <1>2, JobStepJobs
  <2>3. JobsOK'
    BY <1>0, <2>2, JobsNext
  <2> QED BY <2>1, <2>2, <2>3
<1>3. CASE Others
  BY <1>0, <1>1, <1>3, OthersStepOK
<1>4. CASE UNCHANGED vars
  BY <1>0, <1>1, <1>4 DEF vars, StepOK, readVars, TypeOK
<1> QED BY <1>2, <1>3, <1>4 DEF Next

LEMMA PlanningOKStep == PlanningOK /\ [Next]_vars => PlanningOK'
<1> SUFFICES ASSUME PlanningOK, [Next]_vars PROVE PlanningOK'
  OBVIOUS
<1>1. StepOK /\ job' \in [Clients -> JobType] /\ JobsOK'
  BY StepKinds
<1>2. RowsTypeOK' /\ EdgesResolve'
  BY <1>1, RowsType, RowsEdgesResolve DEF PlanningOK, TypeOK, StepOK
<1>3. scene' \in Cases /\ spec' \in scene'.specs /\ file' \in scene'.files
  BY <1>1 DEF PlanningOK, TypeOK, StepOK, caseVars
<1>4. TypeOK'
  BY <1>1, <1>2, <1>3 DEF TypeOK, StepOK
<1> QED BY <1>1, <1>2, <1>4 DEF PlanningOK

LEMMA PlanningOKInit == Init => PlanningOK
<1> SUFFICES ASSUME Init PROVE PlanningOK
  OBVIOUS
<1>1. RowsTypeOK /\ EdgesResolve
  BY AbsentIsRow DEF Init, RowsInit, RowsTypeOK, EdgesResolve
<1>2. fact \in [Issues -> Fact]
  BY NoFactType DEF Init
<1>3. job \in [Clients -> JobType] /\ \A c \in Clients : job[c] = NoJob
  BY NoJobType DEF Init
<1>4. \A a \in DOMAIN NoJob.todo : NoJob.todo[a].op # "wire"
  BY NoJobType
<1>5. WiresReady(NoJob)
  BY <1>4, NoWires
<1>6. JobsOK
  BY <1>3, <1>5 DEF JobsOK
<1>7. TypeOK
  BY <1>1, <1>2, <1>3 DEF TypeOK, Init
<1> QED BY <1>1, <1>6, <1>7 DEF PlanningOK

\* The rows, the facts, the folders and the jobs keep the types of the tables, specs and
\* exports, whatever the jobs of however many clients do between each other's transactions.
THEOREM PlanningTypes == Spec => []TypeOK
<1>1. PlanningOK => TypeOK
  BY DEF PlanningOK
<1> QED BY <1>1, PlanningOKInit, PlanningOKStep, PTL DEF Spec

----------------------------------------------------------------------------
(* FolderForest *)

\* Who writes folders, placements and projects.
LEMMA FolderWriters ==
    ASSUME [Next]_vars
    PROVE  \/ UNCHANGED <<folder, placed, projects>>
           \/ \E f \in Folders, p \in Folders \cup {Root} : EnsureFolder(f, p)
           \/ \E s \in Projects : \/ DropProject(s)
                                  \/ \E f \in Folders \cup {NoFolder} : MoveProject(s, f)
<1>1. ASSUME NEW c \in Clients, Job(c) PROVE UNCHANGED <<folder, placed, projects>>
  <2>1. CASE StartPlan(c) \/ StartImport(c) \/ StartArrayImport(c) \/ Answer(c) \/ Abort(c)
             \/ EndRound(c)
    BY <2>1 DEF StartPlan, StartImport, StartArrayImport, Answer, Abort, EndRound, readVars, rowVars
  <2>2. CASE CreateNode(c) \/ ImportRow(c) \/ InsertRow(c)
    BY <2>2 DEF CreateNode, ImportRow, InsertRow, CreateTx, rowVars
  <2>3. CASE WireEdge(c) \/ ImportEdge(c)
    BY <2>3 DEF WireEdge, ImportEdge, AddDepTx, readVars, rowVars
  <2>4. CASE PatchRow(c) \/ Settle(c) \/ CloseException(c)
    BY <2>4 DEF PatchRow, Settle, SettleWaits, CloseException, UpdateTx, CloseTx, rowVars
  <2> QED BY <1>1, <2>1, <2>2, <2>3, <2>4 DEF Job
<1>2. ASSUME NEW i \in Issues
      PROVE  /\ \A ty, p : Create(i, ty, p) => UNCHANGED <<folder, placed, projects>>
             /\ \A who : Claim(i, who) => UNCHANGED <<folder, placed, projects>>
             /\ \A st : SetStatus(i, st) => UNCHANGED <<folder, placed, projects>>
             /\ Close(i) => UNCHANGED <<folder, placed, projects>>
             /\ \A j : AddDep(i, j) \/ RemoveDep(i, j) => UNCHANGED <<folder, placed, projects>>
  BY DEF Create, Claim, SetStatus, Close, AddDep, RemoveDep, CreateTx, ClaimTx, UpdateTx, CloseTx,
         AddDepTx, RemoveDepTx, readVars
<1>3. Tick => UNCHANGED <<folder, placed, projects>>
  BY DEF Tick, readVars
<1>4. CASE Others
  <2>1. \A i \in scene.made, ty \in scene.types, p \in Issues \cup {0} :
           Create(i, ty, p) => UNCHANGED <<folder, placed, projects>>
    BY DEF Create, CreateTx
  <2> QED BY <1>2, <1>3, <1>4, <2>1 DEF Others
<1>5. CASE UNCHANGED vars
  BY <1>5 DEF vars, readVars, rowVars
<1> QED BY <1>1, <1>4, <1>5 DEF Next

LEMMA ForestStep == TypeOK /\ FolderForest /\ [Next]_vars => FolderForest'
<1> SUFFICES ASSUME TypeOK, FolderForest, [Next]_vars PROVE FolderForest'
  OBVIOUS
<1>0. /\ folder \in [Folders -> Folders \cup {Root, NoFolder}]
      /\ placed \in [Projects -> Folders \cup {NoFolder}]
      /\ \A f \in Folders : folder[f] # NoFolder =>
            folder[f] = Root \/ (folder[f] \in Folders /\ folder[folder[f]] # NoFolder)
      /\ \A g \in Folders : \A q \in ParentOf(g) : g \notin Ancestors(q)
      /\ \A s \in Projects : placed[s] # NoFolder =>
            s \in projects /\ placed[s] \in Folders /\ folder[placed[s]] # NoFolder
  BY DEF TypeOK, FolderForest, IsFolder
<1>a. Root # NoFolder /\ Root \notin Folders /\ NoFolder \notin Folders
  BY FoldersAssumption
<1>b. ASSUME folder' = folder PROVE \A g \in Folders : \A q \in ParentOf(g)' : g \notin Ancestors(q)'
  BY <1>0, <1>b DEF ParentOf, Ancestors
<1>1. CASE UNCHANGED <<folder, placed, projects>>
  BY <1>0, <1>1, <1>b DEF FolderForest, IsFolder
<1>2. ASSUME NEW f \in Folders, NEW p \in Folders \cup {Root}, EnsureFolder(f, p)
      PROVE  FolderForest'
  <2>1. /\ folder' = [folder EXCEPT ![f] = p] /\ placed' = placed /\ projects' = projects
        /\ p # Root => CanParent(f, p)
    BY <1>2 DEF EnsureFolder, rowVars
  <2>2. \A g \in Folders : \A q \in ParentOf(g)' : g \notin Ancestors(q)'
    BY <1>0, <2>1, ReparentedForest
  <2>3. \A g \in Folders : folder'[g] = (IF g = f THEN p ELSE folder[g])
    BY <1>0, <2>1
  <2>4. p # Root => folder[p] # NoFolder
    BY <2>1 DEF CanParent, IsFolder
  <2>5. \A g \in Folders : folder'[g] # NoFolder => folder'[g] = Root \/ folder'[folder'[g]] # NoFolder
    <3> SUFFICES ASSUME NEW g \in Folders, folder'[g] # NoFolder, folder'[g] # Root
                 PROVE  folder'[folder'[g]] # NoFolder
      OBVIOUS
    <3>1. folder'[g] \in Folders /\ folder[folder'[g]] # NoFolder
      BY <1>0, <2>3, <2>4
    <3> QED BY <1>a, <2>3, <3>1
  <2>6. \A s \in Projects : placed'[s] # NoFolder => s \in projects' /\ folder'[placed'[s]] # NoFolder
    BY <1>0, <1>a, <2>1, <2>3
  <2> QED BY <2>2, <2>5, <2>6 DEF FolderForest, IsFolder
<1>3. ASSUME NEW s \in Projects, DropProject(s) PROVE FolderForest'
  <2>1. folder' = folder /\ placed' = [placed EXCEPT ![s] = NoFolder] /\ projects' = projects \ {s}
    BY <1>3 DEF DropProject, DropProjectTx
  <2> QED BY <1>0, <1>b, <2>1 DEF FolderForest, IsFolder
<1>4. ASSUME NEW s \in Projects, NEW f \in Folders \cup {NoFolder}, MoveProject(s, f)
      PROVE  FolderForest'
  <2>1. /\ folder' = folder /\ placed' = [placed EXCEPT ![s] = f] /\ projects' = projects
        /\ s \in projects /\ (f # NoFolder => folder[f] # NoFolder)
    BY <1>4 DEF MoveProject, rowVars, IsFolder
  <2> QED BY <1>0, <1>b, <2>1 DEF FolderForest, IsFolder
<1> QED BY <1>1, <1>2, <1>3, <1>4, FolderWriters

\* The walk before the write is enough (FolderForest, db.rs:535): whatever folders are made
\* and moved, for any number of folders, no folder is its own ancestor, every parent is there,
\* and no project is left in a folder that is not.
THEOREM Forest == Spec => []FolderForest
<1>1. Init => FolderForest
  <2> SUFFICES ASSUME Init PROVE FolderForest
    OBVIOUS
  <2>1. \A f \in Folders : folder[f] = NoFolder
    BY DEF Init
  <2>2. \A f \in Folders : ParentOf(f) = {}
    BY <2>1, FoldersAssumption DEF ParentOf
  <2>3. \A s \in Projects : placed[s] = NoFolder
    BY DEF Init
  <2> QED BY <2>1, <2>2, <2>3 DEF FolderForest, IsFolder
<1> QED BY <1>1, ForestStep, PlanningTypes, PTL DEF Spec

----------------------------------------------------------------------------
(* FrontierSound *)

FactsOK == fact \in [Issues -> Fact]

\* What Before compares.
LEMMA BeforeTypes ==
    ASSUME FactsOK, NEW i \in Issues
    PROVE  /\ fact[i].born \in Int /\ fact[i].born + 1 \in Nat
           /\ SortKey(i) \in Nat /\ i \in Nat /\ fact[i].key \in Keys \cup {NoKey}
<1>1. fact[i] \in Fact
  BY DEF FactsOK
<1>2. fact[i].born \in Times /\ fact[i].key \in Keys \cup {NoKey}
  BY <1>1 DEF Fact
<1>3. Issues \subseteq Nat /\ Keys \subseteq Nat
  BY NumbersAssumption
<1>4. fact[i].born \in Int /\ fact[i].born + 1 \in Nat
  <2> DEFINE b == fact[i].born
  <2>1. b \in Nat \/ b = -1
    BY <1>2 DEF Times, Never
  <2> HIDE DEF b
  <2>2. b \in Int /\ b + 1 \in Nat
    BY <2>1
  <2> QED BY <2>2 DEF b
<1>5. i \in Nat
  BY <1>3
<1>6. SortKey(i) \in Nat
  <2>1. CASE fact[i].key = NoKey
    BY <2>1, <1>5 DEF SortKey
  <2>2. CASE fact[i].key # NoKey
    BY ONLY <2>2, <1>2, <1>3 DEF SortKey
  <2> QED BY <2>1, <2>2
<1> QED BY <1>2, <1>4, <1>5, <1>6

\* Before puts one of some issues first.
LEMMA FirstBefore ==
    ASSUME FactsOK, NEW T \in SUBSET Issues, T # {}
    PROVE  \E i \in T : \A j \in T : i = j \/ Before(i, j)
<1> DEFINE Borns == {fact[i].born + 1 : i \in T}
<1>1. PICK b \in Borns : \A m \in Borns : b <= m
  <2>1. Borns \in SUBSET Nat /\ Borns # {}
    BY BeforeTypes
  <2> HIDE DEF Borns
  <2> QED BY <2>1, LeastNat
<1> DEFINE T1 == {i \in T : fact[i].born + 1 = b}
           Sorts == {SortKey(i) : i \in T1}
<1>2. PICK k \in Sorts : \A m \in Sorts : k <= m
  <2>1. Sorts \in SUBSET Nat /\ Sorts # {}
    BY BeforeTypes
  <2> HIDE DEF Sorts
  <2> QED BY <2>1, LeastNat
<1> DEFINE T2 == {i \in T1 : SortKey(i) = k}
<1>3. PICK i \in T2 : \A m \in T2 : i <= m
  <2>1. T2 \in SUBSET Nat /\ T2 # {}
    BY BeforeTypes
  <2> HIDE DEF T2
  <2> QED BY <2>1, LeastNat
<1>4. i \in T /\ fact[i].born + 1 = b /\ SortKey(i) = k
  BY <1>3
<1>5. ASSUME NEW j \in T PROVE i = j \/ Before(i, j)
  <2>1. /\ fact[i].born \in Int /\ fact[j].born \in Int /\ SortKey(i) \in Int /\ SortKey(j) \in Int
        /\ i \in Int /\ j \in Int
    BY <1>4, BeforeTypes
  <2>2. fact[i].born <= fact[j].born
    <3>1. fact[j].born + 1 \in Borns
      OBVIOUS
    <3>2. b <= fact[j].born + 1
      BY <1>1, <3>1
    <3> QED BY <1>4, <2>1, <3>2
  <2>3. CASE fact[i].born = fact[j].born
    <3>1. j \in T1
      BY <1>4, <2>3
    <3>2. k <= SortKey(j)
      BY <1>2, <3>1
    <3>3. SortKey(j) = k => i <= j
      BY <1>3, <3>1
    <3> HIDE DEF T1, T2, Sorts, Borns
    <3> QED BY <1>4, <2>1, <2>3, <3>2, <3>3 DEF Before
  <2>4. CASE fact[i].born # fact[j].born
    BY <2>1, <2>2, <2>4 DEF Before
  <2> QED BY <2>3, <2>4
<1> QED BY <1>4, <1>5

\* Of two issues at most one is before the other.
LEMMA BeforeOneWay ==
    ASSUME FactsOK, NEW i \in Issues, NEW j \in Issues
    PROVE  ~(Before(i, j) /\ Before(j, i))
<1>1. /\ fact[i].born \in Int /\ fact[j].born \in Int /\ SortKey(i) \in Int /\ SortKey(j) \in Int
      /\ i \in Int /\ j \in Int
  BY BeforeTypes
<1> QED BY <1>1 DEF Before

\* What the store offers and nothing in the plan holds back may start.
LEMMA ReadyIsEligible ==
    ASSUME TypeOK, EdgesResolve, NEW i \in PlanNodes
    PROVE  StoreReady(i) <=> i \in Eligible(PlanNodes)
<1>1. i \in Issues /\ dep \subseteq Issues \X Issues
  BY DEF PlanNodes, TypeOK, RowsTypeOK
<1>2. \A b \in Blockers(i) : issue[b].status # "none"
  BY <1>1 DEF Blockers, EdgesResolve, Exists
<1>3. OpenBlockers(i) = {} <=> DependenciesClosed(i)
  BY <1>2 DEF OpenBlockers, DependenciesClosed
<1> QED BY <1>3 DEF StoreReady, Eligible

LEMMA FrontierIsSound ==
    ASSUME TypeOK, EdgesResolve
    PROVE  FrontierSound
<1> DEFINE S == PlanNodes
           F == Frontier(S)
           E == Eligible(S)
<1>0. S \subseteq Issues /\ E \subseteq S /\ F \subseteq E
  BY DEF PlanNodes, Eligible, Frontier
<1>a. FactsOK
  BY DEF TypeOK, FactsOK
<1>f. \A i \in E : i \in F <=>
         (fact[i].group # NoGroup =>
            /\ fact[i].group \notin BusyGroups(S)
            /\ \A j \in E : fact[j].group = fact[i].group => i = j \/ Before(i, j))
  BY DEF Frontier
<1>e. \A i \in S : StoreReady(i) <=> i \in E
  BY ReadyIsEligible
<1>b. \A g : g \in BusyGroups(S) <=>
         g # NoGroup /\ \E j \in S : issue[j].status = "in_progress" /\ fact[j].group = g
  BY DEF BusyGroups
<1> HIDE DEF S, F, E
<1>1. \A i \in F : StoreReady(i)
  BY <1>0, <1>e
<1>2. ASSUME NEW i \in F, NEW j \in F, i # j
      PROVE  fact[i].group = NoGroup \/ fact[i].group # fact[j].group
  <2> SUFFICES ASSUME fact[i].group # NoGroup, fact[i].group = fact[j].group PROVE FALSE
    OBVIOUS
  <2>1. i \in E /\ j \in E /\ i \in Issues /\ j \in Issues
    BY <1>0
  <2>2. Before(i, j) /\ Before(j, i)
    BY <1>2, <1>f, <2>1
  <2> QED BY <1>a, <2>1, <2>2, BeforeOneWay
<1>3. ASSUME NEW i \in S \ F, StoreReady(i)
      PROVE  \E j \in S : /\ fact[j].group = fact[i].group /\ fact[i].group # NoGroup
                          /\ (issue[j].status = "in_progress" \/ j \in F)
  <2> DEFINE g == fact[i].group
             T == {j \in E : fact[j].group = g}
  <2>1. i \in E /\ g # NoGroup
    BY <1>3, <1>e, <1>f
  <2>2. CASE g \in BusyGroups(S)
    BY <1>b, <2>1, <2>2
  <2>3. CASE g \notin BusyGroups(S)
    <3>1. T \in SUBSET Issues /\ T # {}
      BY <1>0, <2>1
    <3>2. PICK j \in T : \A m \in T : j = m \/ Before(j, m)
      <4> HIDE DEF T
      <4> QED BY <1>a, <3>1, FirstBefore
    <3>3. j \in E /\ fact[j].group = g /\ \A m \in E : fact[m].group = g => j = m \/ Before(j, m)
      BY <3>2
    <3>4. j \in F
      BY <1>f, <2>3, <3>3
    <3> QED BY <1>0, <2>1, <3>3, <3>4
  <2> QED BY <2>2, <2>3
<1> QED BY <1>1, <1>2, <1>3 DEF FrontierSound, S, F

\* Nobody reads a frontier that races the store (FrontierSound, plan.rs:556): whatever state
\* the clients left, a plan offers only what the store's ready offers, one node of a conflict
\* group at most, and it holds a ready node back only for another of its group.
THEOREM Frontiers == Spec => []FrontierSound
<1>1. PlanningOK => FrontierSound
  BY FrontierIsSound DEF PlanningOK
<1> QED BY <1>1, PlanningOKInit, PlanningOKStep, PTL DEF Spec

----------------------------------------------------------------------------
(* PlanUnique *)

\* No issue is made.
NoneMade == \A i \in Issues : Exists(i)' => Exists(i)

\* No issue becomes a node of the plan, or another node.
NodesKept == \A i \in PlanNodes' : i \in PlanNodes /\ fact'[i].key = fact[i].key

LEMMA NoneMadeBy ==
    ASSUME RowsTypeOK, NEW i \in Issues
    PROVE  /\ \A w, k, ttl, at : ClaimTx(i, w, k, ttl, at) => NoneMade
           /\ \A st, ev, at : UpdateTx(i, st, ev, at) => NoneMade
           /\ \A ev : CloseTx(i, ev) => NoneMade
<1>0. issue \in [Issues -> Row]
  BY DEF RowsTypeOK
<1>1. ASSUME Exists(i), \A j \in Issues \ {i} : issue'[j] = issue[j] PROVE NoneMade
  BY <1>1 DEF NoneMade, Exists
<1>2. ASSUME NEW w, NEW k, NEW ttl, NEW at, ClaimTx(i, w, k, ttl, at) PROVE NoneMade
  BY <1>0, <1>1, <1>2 DEF ClaimTx
<1>3. ASSUME NEW st, NEW ev, NEW at, UpdateTx(i, st, ev, at) PROVE NoneMade
  BY <1>0, <1>1, <1>3 DEF UpdateTx
<1>4. ASSUME NEW ev, CloseTx(i, ev) PROVE NoneMade
  BY <1>0, <1>1, <1>4 DEF CloseTx
<1> QED BY <1>2, <1>3, <1>4

LEMMA KeptNodes ==
    ASSUME FactsKept, NoneMade
    PROVE  NodesKept
BY DEF FactsKept, NoneMade, NodesKept, PlanNodes

\* The one issue a creation makes.
LEMMA MadeNode ==
    ASSUME TypeOK, NEW i \in Issues, NEW ls, NEW at, CreateTx(i, ls, at),
           NEW f \in Fact, fact' = [fact EXCEPT ![i] = f]
    PROVE  /\ i \notin PlanNodes /\ fact'[i] = f
           /\ \A j \in PlanNodes' : j = i \/ (j \in PlanNodes /\ fact'[j].key = fact[j].key)
           /\ f.key = NoKey => NodesKept
<1>1. /\ issue \in [Issues -> Row] /\ fact' \in [Issues -> Fact] /\ fact'[i] = f
      /\ \A j \in Issues \ {i} : fact'[j] = fact[j]
  BY SetFact DEF TypeOK, RowsTypeOK
<1>2. ~Exists(i) /\ \A j \in Issues \ {i} : issue'[j] = issue[j]
  BY <1>1 DEF CreateTx
<1>3. \A j \in PlanNodes' : j = i \/ (j \in PlanNodes /\ fact'[j].key = fact[j].key)
  BY <1>1, <1>2 DEF PlanNodes, Exists
<1>4. f.key = NoKey => i \notin PlanNodes'
  BY <1>1 DEF PlanNodes
<1> QED BY <1>1, <1>2, <1>3, <1>4 DEF PlanNodes, NodesKept

\* The steps of a job that make no node.
LEMMA JobNodes ==
    ASSUME TypeOK, JobsOK, NEW c \in Clients, Job(c)
    PROVE  CreateNode(c) \/ NodesKept
<1>0. fact \in [Issues -> Fact] /\ RowsTypeOK
  BY DEF TypeOK
<1>1. ASSUME UNCHANGED <<issue, fact>> PROVE NodesKept
  BY <1>1 DEF NodesKept, PlanNodes, Exists
<1>2. ASSUME StartPlan(c) \/ StartImport(c) \/ StartArrayImport(c) \/ Answer(c) \/ Abort(c)
             \/ EndRound(c)
      PROVE  NodesKept
  BY <1>1, <1>2 DEF StartPlan, StartImport, StartArrayImport, Answer, Abort, EndRound, rowVars,
                    readVars
<1>3. ASSUME WireEdge(c) PROVE NodesKept
  BY <1>1, <1>3 DEF WireEdge, AddDepTx, readVars
<1>4. ASSUME ImportEdge(c) PROVE NodesKept
  BY <1>1, <1>4 DEF ImportEdge, AddDepTx, readVars, rowVars
<1>5. ASSUME ImportRow(c) \/ InsertRow(c) PROVE NodesKept
  <2> DEFINE r == Step(c).row
  <2>1. r.id \in Issues /\ r.parent \in Issues \cup {0}
    <3>1. Step(c) \in Steps /\ Step(c).op \in {"row", "insert"}
      BY <1>5, TurnFields DEF ImportRow, InsertRow
    <3>2. r \in ExportRow
      BY <3>1, StepFields
    <3> QED BY <3>2 DEF ExportRow
  <2>2. CASE UNCHANGED <<rowVars, fact>>
    BY <1>1, <2>2 DEF rowVars
  <2>3. CASE CreateTx(r.id, {}, 0)
             /\ fact' = [fact EXCEPT ![r.id] = [NoFact EXCEPT !.parent = r.parent, !.born = 0,
                                                              !.imported = TRUE]]
    <3> DEFINE new == [NoFact EXCEPT !.parent = r.parent, !.born = 0, !.imported = TRUE]
    <3>1. new \in Fact /\ new.key = NoKey
      BY <2>1, Given, ImportedFact
    <3>2. fact' = [fact EXCEPT ![r.id] = new]
      BY <2>3
    <3> HIDE DEF new
    <3> QED BY <2>1, <2>3, <3>1, <3>2, MadeNode
  <2>4. CASE CreateTx(r.id, {}, 0)
             /\ fact' = [fact EXCEPT ![r.id] = [NoFact EXCEPT !.parent = r.parent, !.born = 0]]
    <3> DEFINE new == [NoFact EXCEPT !.parent = r.parent, !.born = 0]
    <3>1. new \in Fact /\ new.key = NoKey
      BY <2>1, Given, RowFact
    <3>2. fact' = [fact EXCEPT ![r.id] = new]
      BY <2>4
    <3> HIDE DEF new
    <3> QED BY <2>1, <2>4, <3>1, <3>2, MadeNode
  <2> QED BY <1>5, <2>2, <2>3, <2>4 DEF ImportRow, InsertRow
<1>6. ASSUME PatchRow(c) PROVE NodesKept
  <2> DEFINE r == Step(c).row
             t == IF r.status = "closed" THEN now ELSE Never
             u == FirstReview(r.id, r.status)
  <2>1. r.id \in Issues /\ r.status \in Statuses
    BY <1>6, TurnFields, StepFields DEF PatchRow, ExportRow
  <2>2. t \in Times /\ u \in Times
    BY <2>1, PatchTypes, FirstReviewType DEF Times
  <2>3. fact' = [fact EXCEPT ![r.id].ended = t, ![r.id].reviewed = u]
    BY <1>6 DEF PatchRow
  <2>4. NoneMade
    BY <1>0, <1>6, <2>1, NoneMadeBy DEF PatchRow
  <2> HIDE DEF r, t, u
  <2> QED BY <1>0, <2>1, <2>2, <2>3, <2>4, FactsPatched, KeptNodes
<1>7. ASSUME Settle(c) PROVE NodesKept
  <2> DEFINE r == Step(c).row
  <2>1. r.id \in Issues /\ r.status \in Statuses
    BY <1>7, TurnFields, StepFields DEF Settle, ExportRow
  <2>2. CASE UNCHANGED <<rowVars, fact>>
    BY <1>1, <2>2 DEF rowVars
  <2>3. CASE (\E ev \in Receipts : CloseTx(r.id, {ev})) /\ Ending(r.id, "closed", 0)
    <3>1. fact' = [fact EXCEPT ![r.id].ended = 0] /\ 0 \in Times
      BY <2>3 DEF Ending, Times
    <3>2. NoneMade
      BY <1>0, <2>1, <2>3, NoneMadeBy
    <3> HIDE DEF r
    <3> QED BY <1>0, <2>1, <3>1, <3>2, FactsEnded, KeptNodes
  <2>4. CASE /\ UpdateTx(r.id, r.status, issue[r.id].evidence, 0)
             /\ fact' = [fact EXCEPT ![r.id].reviewed = FirstReview(r.id, r.status)]
    <3>1. FirstReview(r.id, r.status) \in Times
      BY <2>1, FirstReviewType
    <3>2. NoneMade
      BY <1>0, <2>1, <2>4, NoneMadeBy
    <3> HIDE DEF r
    <3> QED BY <1>0, <2>1, <2>4, <3>1, <3>2, FactsReviewed, KeptNodes
  <2> QED BY <1>7, <2>2, <2>3, <2>4 DEF Settle, SettleWaits
<1>8. ASSUME CloseException(c) PROVE NodesKept
  <2> DEFINE i == Step(c).row.id
  <2>1. i \in Issues
    BY <1>8, TurnFields, StepFields DEF CloseException, ExportRow
  <2>2. fact' = [fact EXCEPT ![i].ended = 0] /\ 0 \in Times
    BY <1>8 DEF CloseException, Ending, Times
  <2>3. NoneMade
    BY <1>0, <1>8, <2>1, NoneMadeBy DEF CloseException
  <2> HIDE DEF i
  <2> QED BY <1>0, <2>1, <2>2, <2>3, FactsEnded, KeptNodes
<1> QED BY <1>2, <1>3, <1>4, <1>5, <1>6, <1>7, <1>8 DEF Job

\* Nobody else makes a node, and no patch, claim or close makes an issue one.
LEMMA OthersNodes ==
    ASSUME TypeOK, Others
    PROVE  NodesKept
<1>0. fact \in [Issues -> Fact] /\ RowsTypeOK /\ issue \in [Issues -> Row]
  BY DEF TypeOK, RowsTypeOK
<1>1. ASSUME UNCHANGED <<issue, fact>> PROVE NodesKept
  BY <1>1 DEF NodesKept, PlanNodes, Exists
<1>2. ASSUME Tick PROVE NodesKept
  BY <1>1, <1>2 DEF Tick, readVars
<1>3. ASSUME NEW i \in Issues, NEW ty \in Types, NEW p \in Issues \cup {0}, Create(i, ty, p)
      PROVE  NodesKept
  <2> DEFINE new == [NoFact EXCEPT !.type = ty, !.parent = p, !.born = now]
  <2>1. new \in Fact /\ new.key = NoKey
    BY PatchTypes, MadeFact
  <2>2. fact' = [fact EXCEPT ![i] = new] /\ CreateTx(i, {}, now + Grace)
    BY <1>3 DEF Create
  <2> HIDE DEF new
  <2> QED BY <2>1, <2>2, MadeNode
<1>4. ASSUME NEW i \in Issues, NEW who \in Names, Claim(i, who) PROVE NodesKept
  <2> DEFINE k == IF who \in Humans THEN "human" ELSE "agent"
             t == IF fact[i].claimed = Never THEN now ELSE fact[i].claimed
  <2>1. ClaimTx(i, who, k, AgentTTL, now) /\ fact' = [fact EXCEPT ![i].claimed = t]
    BY <1>4 DEF Claim
  <2>2. t \in Times
    BY <1>0, PatchTypes DEF Fact
  <2> HIDE DEF k, t
  <2>3. FactsKept /\ NoneMade
    BY <1>0, <2>1, <2>2, FactsClaimed, NoneMadeBy
  <2> QED BY <2>3, KeptNodes
<1>5. ASSUME NEW i \in Issues, NEW st \in Statuses, SetStatus(i, st) PROVE NodesKept
  <2> DEFINE t == Ended(i, st)
             u == FirstReview(i, st)
  <2>1. t \in Times /\ u \in Times
    BY PatchTypes, FirstReviewType DEF Times, Ended
  <2>2. fact' = [fact EXCEPT ![i].ended = t, ![i].reviewed = u]
    BY <1>5 DEF SetStatus
  <2>3. NoneMade
    BY <1>0, <1>5, NoneMadeBy DEF SetStatus
  <2> HIDE DEF t, u
  <2> QED BY <1>0, <2>1, <2>2, <2>3, FactsPatched, KeptNodes
<1>6. ASSUME NEW i \in Issues, Close(i) PROVE NodesKept
  <2>1. fact' = [fact EXCEPT ![i].ended = now] /\ now \in Times
    BY <1>6, PatchTypes DEF Close, Ending
  <2>2. NoneMade
    BY <1>0, <1>6, NoneMadeBy DEF Close
  <2> QED BY <1>0, <2>1, <2>2, FactsEnded, KeptNodes
<1>7. ASSUME NEW i \in Issues, NEW j \in Issues, AddDep(i, j) \/ RemoveDep(i, j) PROVE NodesKept
  BY <1>1, <1>7 DEF AddDep, RemoveDep, AddDepTx, RemoveDepTx, readVars
<1>8. ASSUME NEW s \in Projects, DropProject(s) PROVE NodesKept
  <2>1. \A i \in Issues : (issue'[i] = issue[i] /\ fact'[i] = fact[i]) \/ issue'[i] = Absent
    BY <1>8 DEF DropProject, DropProjectTx
  <2> QED BY <2>1 DEF NodesKept, PlanNodes, Exists, Absent
<1>9. ASSUME NEW s \in Projects, NEW f \in Folders \cup {NoFolder}, MoveProject(s, f)
      PROVE  NodesKept
  BY <1>1, <1>9 DEF MoveProject, rowVars
<1>10. ASSUME NEW f \in Folders, NEW p \in Folders \cup {Root}, EnsureFolder(f, p) PROVE NodesKept
  BY <1>1, <1>10 DEF EnsureFolder, rowVars
<1>11. scene.made \subseteq Issues /\ scene.types \subseteq Types /\ scene.patches \subseteq Statuses
  BY CaseFields
<1> QED BY <1>2, <1>3, <1>4, <1>5, <1>6, <1>7, <1>8, <1>9, <1>10, <1>11 DEF Others

\* A valid spec names no node twice.
LEMMA KeysDistinct ==
    ASSUME NEW sp \in Seq(SpecNode), Valid(sp)
    PROVE  \A a, b \in DOMAIN sp : sp[a].key = sp[b].key => a = b
<1> DEFINE f == [n \in 1 .. Len(sp) |-> sp[n].key]
<1>1. DOMAIN sp = 1 .. Len(sp) /\ Len(sp) \in Nat
  OBVIOUS
<1>2. \A k \in SpecKeys(sp) : \E n \in 1 .. Len(sp) : f[n] = k
  BY <1>1 DEF SpecKeys
<1>3. f \in [1 .. Len(sp) -> SpecKeys(sp)]
  BY <1>1 DEF SpecKeys
<1>4. f \in Surjection(1 .. Len(sp), SpecKeys(sp))
  BY <1>2, <1>3 DEF Surjection
<1>5. IsFiniteSet(1 .. Len(sp)) /\ Cardinality(1 .. Len(sp)) = Len(sp)
  BY <1>1, FS_Interval
<1>6. Cardinality(SpecKeys(sp)) = Cardinality(1 .. Len(sp))
  BY <1>5 DEF Valid
<1> HIDE DEF f
<1>7. f \in Injection(1 .. Len(sp), SpecKeys(sp))
  BY <1>4, <1>5, <1>6, FS_Surjection
<1>8. \A a, b \in 1 .. Len(sp) : f[a] = f[b] => a = b
  BY <1>3, <1>7 DEF Injection, IsInjective
<1> QED BY <1>1, <1>8 DEF f

\* What is left of a job after a step of it.
LEMMA JobLeft ==
    ASSUME TypeOK, JobsOK, NEW c \in Clients, Job(c)
    PROVE  \/ StartPlan(c)
           \/ \A a \in DOMAIN job'[c].todo : job'[c].todo[a].op # "node"
           \/ job[c].todo # << >> /\ job'[c].todo = Tail(job[c].todo)
<1> DEFINE Popping == job[c].todo # << >> /\ job'[c].todo = Tail(job[c].todo)
<1>0. job \in [Clients -> JobType]
  BY DEF TypeOK
<1>1. ASSUME NEW op, Turn(c, op), Onward(c) PROVE Popping
  BY <1>1, OnwardFields, TurnFields
<1>2. ASSUME WireEdge(c) \/ ImportRow(c) \/ InsertRow(c) \/ ImportEdge(c) \/ PatchRow(c)
             \/ CloseException(c)
      PROVE  Popping
  BY <1>1, <1>2 DEF WireEdge, ImportRow, InsertRow, ImportEdge, PatchRow, CloseException
<1>3. ASSUME Settle(c) PROVE Popping
  <2>1. Turn(c, "settle")
    BY <1>3 DEF Settle
  <2>2. CASE Onward(c)
    BY <1>1, <2>1, <2>2
  <2>3. CASE Progressed(c) \/ job' = [job EXCEPT ![c].todo = Tail(@),
                                                 ![c].failed = Append(@, Step(c).row)]
    BY <2>1, <2>3, SettleJob, TurnFields
  <2> QED BY <1>3, <2>2, <2>3 DEF Settle, SettleWaits
<1>4. ASSUME CreateNode(c) PROVE Popping
  <2>1. Turn(c, "node")
    BY <1>4 DEF CreateNode
  <2>2. PICK i \in Issues :
           job' = [job EXCEPT ![c].todo = Tail(@), ![c].ids[Step(c).node.key] = i]
    BY <1>4 DEF CreateNode
  <2> QED BY <2>1, <2>2, NodeJob, TurnFields
<1>5. ASSUME StartImport(c) PROVE \A a \in DOMAIN job'[c].todo : job'[c].todo[a].op # "node"
  <2> DEFINE s == ImportScript(file)
  <2>1. job'[c].todo = s
    BY <1>5, StartImportJob
  <2>2. \A a \in DOMAIN s : s[a].op \in {"row", "edge", "settle", "round"}
    BY CaseFields, ImportScriptIs
  <2> HIDE DEF s
  <2> QED BY <2>1, <2>2
<1>6. ASSUME StartArrayImport(c) PROVE \A a \in DOMAIN job'[c].todo : job'[c].todo[a].op # "node"
  <2>1. job'[c].todo \in Seq(Unplanned)
    BY <1>6, StartArrayJob
  <2>2. \A a \in DOMAIN job'[c].todo : job'[c].todo[a] \in Unplanned
    BY <2>1
  <2> QED BY <2>2 DEF Unplanned
<1>7. ASSUME EndRound(c) PROVE \A a \in DOMAIN job'[c].todo : job'[c].todo[a].op # "node"
  BY <1>7, RoundJob
<1>8. ASSUME Answer(c) \/ Abort(c)
      PROVE  \A a \in DOMAIN job'[c].todo : job'[c].todo[a].op # "node"
  <2>1. job'[c] = NoJob
    BY <1>0, <1>8 DEF Answer, Abort
  <2> QED BY <2>1, NoJobType
<1> QED BY <1>2, <1>3, <1>4, <1>5, <1>6, <1>7, <1>8 DEF Job

\* KeysFree of the state a step leads to.
FreeNext(j) ==
    \A a \in Left(j, "node") :
        /\ \A b \in Left(j, "node") : j.todo[a].node.key = j.todo[b].node.key => a = b
        /\ \A i \in PlanNodes' : fact'[i].key # j.todo[a].node.key

\* The node a step makes is no longer to be made, and no other is made.
LEMMA KeysPopped ==
    ASSUME NEW j \in JobType, KeysFree(j), j.todo # << >>, NEW k \in JobType, k.todo = Tail(j.todo),
           \A i \in PlanNodes' :
              \/ i \in PlanNodes /\ fact'[i].key = fact[i].key
              \/ j.todo[1].op = "node" /\ fact'[i].key = j.todo[1].node.key
    PROVE  FreeNext(k)
<1>1. /\ 1 \in DOMAIN j.todo
      /\ \A a \in DOMAIN k.todo : a + 1 \in DOMAIN j.todo /\ k.todo[a] = j.todo[a + 1] /\ a \in Int
                                  /\ a >= 1
  <2>1. j.todo \in Seq(Steps) /\ k.todo \in Seq(Steps)
    BY JobFields
  <2>2. 1 \in DOMAIN j.todo /\ \A a \in DOMAIN k.todo : a + 1 \in DOMAIN j.todo
                                                     /\ k.todo[a] = j.todo[a + 1]
    BY <2>1, Popped
  <2>3. \A a \in DOMAIN k.todo : a \in Int /\ a >= 1
    BY <2>1
  <2> QED BY <2>2, <2>3
<1>2. \A a \in Left(k, "node") : a + 1 \in Left(j, "node") /\ k.todo[a] = j.todo[a + 1]
                                 /\ a \in Int /\ a + 1 # 1
  BY <1>1 DEF Left
<1>f. \A a \in Left(j, "node") :
        /\ \A b \in Left(j, "node") : j.todo[a].node.key = j.todo[b].node.key => a = b
        /\ \A i \in PlanNodes : fact[i].key # j.todo[a].node.key
  BY DEF KeysFree
<1>3. ASSUME NEW a \in Left(k, "node"), NEW b \in Left(k, "node"),
             k.todo[a].node.key = k.todo[b].node.key
      PROVE  a = b
  <2>1. /\ a + 1 \in Left(j, "node") /\ b + 1 \in Left(j, "node") /\ a \in Int /\ b \in Int
        /\ k.todo[a] = j.todo[a + 1] /\ k.todo[b] = j.todo[b + 1]
    BY ONLY <1>2, <1>3
  <2>2. j.todo[a + 1].node.key = j.todo[b + 1].node.key
    BY ONLY <1>3, <2>1
  <2>3. a + 1 = b + 1
    BY ONLY <1>f, <2>1, <2>2
  <2> QED BY ONLY <2>1, <2>3
<1>4. ASSUME NEW a \in Left(k, "node"), NEW i \in PlanNodes'
      PROVE  fact'[i].key # k.todo[a].node.key
  <2>1. CASE i \in PlanNodes /\ fact'[i].key = fact[i].key
    <3>1. a + 1 \in Left(j, "node") /\ k.todo[a] = j.todo[a + 1]
      BY ONLY <1>2, <1>4
    <3>2. fact[i].key # j.todo[a + 1].node.key
      BY ONLY <1>f, <2>1, <3>1
    <3> QED BY ONLY <2>1, <3>1, <3>2
  <2>2. CASE j.todo[1].op = "node" /\ fact'[i].key = j.todo[1].node.key
    <3>1. 1 \in Left(j, "node")
      BY <1>1, <2>2 DEF Left
    <3>2. a + 1 \in Left(j, "node") /\ k.todo[a] = j.todo[a + 1] /\ a + 1 # 1
      BY ONLY <1>2, <1>4
    <3>3. j.todo[1].node.key # j.todo[a + 1].node.key
      BY ONLY <1>f, <3>1, <3>2
    <3> QED BY ONLY <2>2, <3>2, <3>3
  <2> QED BY <2>1, <2>2
<1> QED BY <1>3, <1>4 DEF FreeNext

\* The script of a valid plan, on a store that has none of its nodes.
LEMMA KeysStarted ==
    ASSUME TypeOK, Valid(spec), NEW j, j.todo = PlanScript(spec), PlanNodes' = {}
    PROVE  FreeNext(j)
<1> DEFINE s == PlanScript(spec)
<1>1. /\ \A a \in DOMAIN spec : s[a] = [op |-> "node", node |-> spec[a]]
      /\ \A a \in DOMAIN s \ DOMAIN spec : s[a].op = "wire"
  BY CaseFields, PlanScriptIs
<1>2. \A a, b \in DOMAIN spec : spec[a].key = spec[b].key => a = b
  BY CaseFields, KeysDistinct
<1> HIDE DEF s
<1>3. \A a \in DOMAIN s : s[a].op = "node" => a \in DOMAIN spec /\ s[a].node = spec[a]
  <2> SUFFICES ASSUME NEW a \in DOMAIN s, s[a].op = "node"
               PROVE  a \in DOMAIN spec /\ s[a].node = spec[a]
    OBVIOUS
  <2>1. a \in DOMAIN spec
    BY <1>1
  <2>2. s[a] = [op |-> "node", node |-> spec[a]]
    BY <1>1, <2>1
  <2> QED BY <2>1, <2>2
<1> QED BY <1>2, <1>3 DEF FreeNext, Left, s

\* With one author, the nodes of the plan and the nodes still to be made have different keys.
LEMMA PlanStep ==
    ASSUME OneAuthor, PlanningOK, PlanInv, [Next]_vars
    PROVE  PlanInv'
<1>0. TypeOK /\ JobsOK /\ PlanUnique
  BY DEF PlanningOK, PlanInv
<1>1. ASSUME NodesKept PROVE PlanUnique'
  BY <1>0, <1>1 DEF PlanUnique, NodesKept
<1>2. ASSUME NodesKept, UNCHANGED job PROVE PlanInv'
  <2>1. \A c \in Clients : KeysFree(job[c])'
    BY <1>2 DEF PlanInv, KeysFree, NodesKept, Left
  <2> QED BY <1>1, <1>2, <2>1 DEF PlanInv
<1>3. ASSUME PlanUnique', NEW c \in Clients, FreeNext(job'[c]), NodesKept \/ CreateNode(c),
             \A d \in Clients \ {c} : job'[d] = job[d]
      PROVE  PlanInv'
  <2>1. ASSUME NEW d \in Clients \ {c} PROVE FreeNext(job'[d])
    <3>1. CASE NodesKept
      BY <1>3, <2>1, <3>1 DEF PlanInv, KeysFree, FreeNext, NodesKept
    <3>2. CASE CreateNode(c)
      <4>1. job[c].todo # << >> /\ job[c].todo \in Seq(Steps) /\ job[c].todo[1].op = "node"
        BY <1>0, <3>2, TurnFields, JobFields DEF CreateNode
      <4>2. 1 \in Left(job[c], "node")
        BY <4>1, Popped DEF Left
      <4>3. Left(job'[d], "node") = {}
        BY <1>3, <2>1, <4>2 DEF OneAuthor
      <4> QED BY <4>3 DEF FreeNext
    <3> QED BY <1>3, <3>1, <3>2
  <2>2. \A d \in Clients : FreeNext(job'[d])
    BY <1>3, <2>1
  <2> QED BY <1>3, <2>2 DEF PlanInv, KeysFree, FreeNext, Left
<1>4. ASSUME NEW c \in Clients, Job(c), ~CreateNode(c) PROVE PlanInv'
  <2>1. NodesKept
    BY <1>0, <1>4, JobNodes
  <2>2. job[c] \in JobType /\ job'[c] \in JobType /\ \A d \in Clients \ {c} : job'[d] = job[d]
    BY <1>0, <1>4, JobStepJobs DEF TypeOK
  <2>3. CASE StartPlan(c)
    <3>1. Valid(spec) /\ PlanNodes = {}
      BY <2>3 DEF StartPlan, Existing
    <3>2. PlanNodes' = {}
      BY <2>1, <3>1 DEF NodesKept
    <3>3. FreeNext(job'[c])
      BY <1>0, <2>3, <3>1, <3>2, StartPlanJob, KeysStarted
    <3> QED BY <1>1, <1>3, <2>1, <2>2, <3>3
  <2>4. CASE \A a \in DOMAIN job'[c].todo : job'[c].todo[a].op # "node"
    <3>1. FreeNext(job'[c])
      BY <2>4 DEF FreeNext, Left
    <3> QED BY <1>1, <1>3, <2>1, <2>2, <3>1
  <2>5. CASE job[c].todo # << >> /\ job'[c].todo = Tail(job[c].todo)
    <3>1. KeysFree(job[c])
      BY DEF PlanInv
    <3>2. FreeNext(job'[c])
      BY <2>1, <2>2, <2>5, <3>1, KeysPopped DEF NodesKept
    <3> QED BY <1>1, <1>3, <2>1, <2>2, <3>2
  <2> QED BY <1>0, <1>4, <2>3, <2>4, <2>5, JobLeft
<1>5. ASSUME NEW c \in Clients, CreateNode(c) PROVE PlanInv'
  <2> DEFINE n == Step(c).node
             new == [NoFact EXCEPT !.key = n.key, !.group = n.group, !.estimate = n.estimate,
                                   !.born = job[c].at]
  <2>1. /\ Turn(c, "node") /\ job[c] \in JobType /\ job[c].todo # << >>
        /\ Step(c) = job[c].todo[1] /\ Step(c) \in Steps /\ Step(c).op = "node"
    BY <1>0, <1>5, TurnFields DEF CreateNode
  <2>2. n \in SpecNode /\ job[c].at \in Nat
    BY <2>1, StepFields, JobFields
  <2>3. new \in Fact /\ new.key = n.key
    <3>1. new = [NoFact EXCEPT !.key = n.key, !.group = n.group, !.estimate = n.estimate,
                               !.born = job[c].at]
      OBVIOUS
    <3> HIDE DEF new, n
    <3> QED BY ONLY <2>2, <3>1, NodeFact
  <2>4. PICK i \in Issues : /\ CreateTx(i, {}, job[c].at)
                            /\ fact' = [fact EXCEPT ![i] = new]
                            /\ job' = [job EXCEPT ![c].todo = Tail(@), ![c].ids[n.key] = i]
    BY <1>5 DEF CreateNode
  <2>5. /\ job'[c].todo = Tail(job[c].todo) /\ job'[c] \in JobType
        /\ \A d \in Clients \ {c} : job'[d] = job[d]
    BY <1>0, <2>1, <2>4, NodeJob
  <2> HIDE DEF new
  <2>6. /\ i \notin PlanNodes /\ fact'[i] = new
        /\ \A j \in PlanNodes' : j = i \/ (j \in PlanNodes /\ fact'[j].key = fact[j].key)
    BY <1>0, <2>3, <2>4, MadeNode
  <2>7. KeysFree(job[c])
    BY DEF PlanInv
  <2>8. FreeNext(job'[c])
    <3>1. \A j \in PlanNodes' : \/ j \in PlanNodes /\ fact'[j].key = fact[j].key
                                \/ fact'[j].key = job[c].todo[1].node.key
      BY <2>1, <2>3, <2>6
    <3> QED BY <2>1, <2>5, <2>7, <3>1, KeysPopped
  <2>9. \A j \in PlanNodes : fact[j].key # n.key
    <3>1. 1 \in Left(job[c], "node")
      BY <2>1, JobFields, Popped DEF Left
    <3> QED BY <2>1, <2>7, <3>1 DEF KeysFree
  <2>10. PlanUnique'
    BY <1>0, <2>3, <2>6, <2>9 DEF PlanUnique
  <2> QED BY <1>3, <1>5, <2>5, <2>8, <2>10
<1>6. ASSUME Others PROVE PlanInv'
  BY <1>0, <1>2, <1>6, OthersNodes, OthersStepOK
<1>7. ASSUME UNCHANGED vars PROVE PlanInv'
  BY <1>2, <1>7 DEF vars, rowVars, readVars, NodesKept, PlanNodes, Exists
<1> QED BY <1>4, <1>5, <1>6, <1>7 DEF Next

\* However often a creation stops half way and is tried again, and whatever is imported,
\* claimed, closed, reopened or dropped meanwhile, no two issues stand for one node of the
\* plan (PlanUnique, plan.rs:612), as long as one author at a time draws it up: two of them
\* would both find no node and both create.
THEOREM OneNodeEach == Spec /\ []OneAuthor => []PlanUnique
<1>1. Init => PlanInv
  <2> SUFFICES ASSUME Init PROVE PlanInv
    OBVIOUS
  <2>1. PlanNodes = {}
    BY AbsentIsRow DEF Init, RowsInit, PlanNodes, Exists, Absent
  <2>2. \A c \in Clients : job[c] = NoJob
    BY DEF Init
  <2>3. KeysFree(NoJob)
    BY NoJobType DEF KeysFree, Left
  <2> QED BY <2>1, <2>2, <2>3 DEF PlanInv, PlanUnique
<1>2. OneAuthor /\ PlanningOK /\ PlanInv /\ [Next]_vars => PlanInv'
  BY PlanStep
<1>3. PlanInv => PlanUnique
  BY DEF PlanInv
<1> QED BY <1>1, <1>2, <1>3, PlanningOKInit, PlanningOKStep, PTL DEF Spec

----------------------------------------------------------------------------
(* ImportLands *)

\* Where imports run nobody creates, reopens, drops or unties issues by hand.
ImportsKept ==
    \A k \in Cases : "import" \in k.ops => k.ops \cap {"create", "status", "drop", "undep"} = {}

\* The issue is there after the step.
ThereNext(i) == issue'[i].status # "none"

\* What every step does to the rows while an import runs: nothing it landed is undone, and
\* no issue appears but those of the export.
Grows ==
    /\ \A i \in Issues : Exists(i) => ThereNext(i)
    /\ \A i \in Issues : ThereNext(i) => Exists(i) \/ \E n \in DOMAIN file : file[n].id = i
    /\ \A i \in Issues : Exists(i) /\ issue[i].status # "open" => issue'[i].status # "open"
    /\ \A i \in Issues : issue[i].status = "closed" => issue'[i].status = "closed"
    /\ dep \subseteq dep'

SettledNext(r) ==
    /\ ThereNext(r.id)
    /\ r.status # "open" => issue'[r.id].status # "open"
    /\ r.status = "closed" => issue'[r.id].status = "closed"

RowLandsNext(j, r) == ThereNext(r.id) \/ LeftFor(j, "row", r)

EdgeLandsNext(j, r, d) ==
    \/ <<r.id, d>> \in dep'
    \/ \E a \in Left(j, "edge") : j.todo[a].child = r.id /\ j.todo[a].parent = d
    \/ ~ThereNext(d) /\ Left(j, "row") = {}

StatusLandsNext(j, r) ==
    \/ SettledNext(r) \/ LeftFor(j, "settle", r) \/ LeftFor(j, "except", r)
    \/ Left(j, "round") # {} /\ \E m \in DOMAIN j.failed : j.failed[m] = r

\* Landing of the state a step leads to.
LandingNext(j) ==
    /\ Offered("import") /\ Shape(j)
    /\ \A n \in DOMAIN file :
          /\ RowLandsNext(j, file[n]) /\ StatusLandsNext(j, file[n])
          /\ \A d \in file[n].deps \ {file[n].id} : EdgeLandsNext(j, file[n], d)

LEMMA FileRows ==
    ASSUME TypeOK, NEW n \in DOMAIN file
    PROVE  /\ file[n].id \in Issues /\ file[n].status \in Statuses
           /\ \A d \in file[n].deps : d \in Issues
<1>1. file[n] \in ExportRow
  BY CaseFields
<1> QED BY <1>1 DEF ExportRow

LEMMA SettledStays ==
    ASSUME Grows, NEW r, r.id \in Issues, Settled(r)
    PROVE  SettledNext(r)
BY DEF Grows, Settled, SettledNext

\* An import that is not the one that steps.
LEMMA LandingKept ==
    ASSUME TypeOK, Grows, NEW j, Landing(j)
    PROVE  LandingNext(j)
<1>1. ASSUME NEW n \in DOMAIN file
      PROVE  RowLandsNext(j, file[n]) /\ StatusLandsNext(j, file[n])
  <2> DEFINE r == file[n]
  <2>1. r.id \in Issues /\ RowLands(j, r) /\ StatusLands(j, r)
    BY FileRows DEF Landing
  <2> HIDE DEF r
  <2>2. RowLandsNext(j, r)
    BY <2>1 DEF RowLands, RowLandsNext, Grows
  <2>3. StatusLandsNext(j, r)
    BY <2>1, SettledStays DEF StatusLands, StatusLandsNext
  <2> QED BY <2>2, <2>3 DEF r
<1>2. ASSUME NEW n \in DOMAIN file, NEW d \in file[n].deps \ {file[n].id}
      PROVE  EdgeLandsNext(j, file[n], d)
  <2>1. EdgeLands(j, file[n], d) /\ d \in Issues
    BY FileRows DEF Landing
  <2>2. CASE <<file[n].id, d>> \in dep
    BY <2>2 DEF Grows, EdgeLandsNext
  <2>3. CASE \E a \in Left(j, "edge") : j.todo[a].child = file[n].id /\ j.todo[a].parent = d
    BY <2>3 DEF EdgeLandsNext
  <2>4. CASE ~Exists(d) /\ Left(j, "row") = {}
    <3>1. \A m \in DOMAIN file : Exists(file[m].id)
      BY <2>4 DEF Landing, RowLands, LeftFor
    <3>2. \A m \in DOMAIN file : file[m].id # d
      BY <2>4, <3>1
    <3>3. ~ThereNext(d)
      BY <2>1, <2>4, <3>2 DEF Grows
    <3> QED BY <2>4, <3>3 DEF EdgeLandsNext
  <2> QED BY <2>1, <2>2, <2>3, <2>4 DEF EdgeLands
<1> QED BY <1>1, <1>2 DEF Landing, LandingNext

\* What is left after a step of a job.
LEMMA LeftPopped ==
    ASSUME NEW j \in JobType, j.todo # << >>, NEW k \in JobType, k.todo = Tail(j.todo)
    PROVE  /\ Len(k.todo) = Len(j.todo) - 1 /\ Len(j.todo) \in Nat /\ 1 \in DOMAIN j.todo
           /\ \A op : \A a \in Left(j, op) :
                 a = 1 \/ (a - 1 \in Left(k, op) /\ k.todo[a - 1] = j.todo[a])
           /\ \A op : \A a \in Left(k, op) : a + 1 \in Left(j, op) /\ k.todo[a] = j.todo[a + 1]
           /\ \A op : Left(j, op) \subseteq 1 .. Len(j.todo) /\ Left(k, op) \subseteq 1 .. Len(k.todo)
           /\ \A op : 1 \in Left(j, op) => j.todo[1].op = op
<1>1. j.todo \in Seq(Steps) /\ k.todo \in Seq(Steps)
  BY JobFields
<1>2. /\ 1 \in DOMAIN j.todo
      /\ \A a \in DOMAIN k.todo : a + 1 \in DOMAIN j.todo /\ k.todo[a] = j.todo[a + 1]
      /\ \A a \in DOMAIN j.todo : a = 1 \/ (a - 1 \in DOMAIN k.todo /\ k.todo[a - 1] = j.todo[a])
  BY <1>1, Popped
<1>3. Len(k.todo) = Len(j.todo) - 1 /\ Len(j.todo) \in Nat
  BY <1>1
<1>4. DOMAIN j.todo = 1 .. Len(j.todo) /\ DOMAIN k.todo = 1 .. Len(k.todo)
  BY <1>1
<1> QED BY ONLY <1>2, <1>3, <1>4 DEF Left

\* The import that steps: what its step lands need not be done any more.
LEMMA LandingPopped ==
    ASSUME TypeOK, Grows, NEW j \in JobType, Landing(j), j.todo # << >>,
           NEW k \in JobType, k.todo = Tail(j.todo), NEW x, x = j.todo[1], x.op # "round",
           \A m \in DOMAIN j.failed : \E y \in DOMAIN k.failed : k.failed[y] = j.failed[m],
           x.op = "row" => ThereNext(x.row.id),
           x.op = "edge" => \/ <<x.child, x.parent>> \in dep'
                            \/ ~ThereNext(x.child) \/ ~ThereNext(x.parent),
           x.op \in {"settle", "except"} =>
              \/ SettledNext(x.row)
              \/ x.op = "settle" /\ \E y \in DOMAIN k.failed : k.failed[y] = x.row
    PROVE  LandingNext(k)
<1> DEFINE L == Len(j.todo)
<1>1. /\ Len(k.todo) = L - 1 /\ L \in Nat /\ 1 \in DOMAIN j.todo
      /\ \A op : \A a \in Left(j, op) :
            a = 1 \/ (a - 1 \in Left(k, op) /\ k.todo[a - 1] = j.todo[a])
      /\ \A op : \A a \in Left(k, op) : a + 1 \in Left(j, op) /\ k.todo[a] = j.todo[a + 1]
      /\ \A op : Left(j, op) \subseteq 1 .. L /\ Left(k, op) \subseteq 1 .. Len(k.todo)
      /\ \A op : 1 \in Left(j, op) => x.op = op
  BY LeftPopped
<1>2. Shape(j) /\ Offered("import")
  BY DEF Landing
<1>g. Grows
  OBVIOUS
<1>x. x.op \in {"settle", "except"} =>
         \/ SettledNext(x.row)
         \/ x.op = "settle" /\ \E y \in DOMAIN k.failed : k.failed[y] = x.row
  OBVIOUS
<1>f. \A m \in DOMAIN j.failed : \E y \in DOMAIN k.failed : k.failed[y] = j.failed[m]
  OBVIOUS
<1>e. x.op = "edge" => \/ <<x.child, x.parent>> \in dep'
                       \/ ~ThereNext(x.child) \/ ~ThereNext(x.parent)
  OBVIOUS
<1> HIDE DEF L
<1>3. Left(j, "round") # {} => Left(k, "round") # {}
  <2> SUFFICES ASSUME NEW a \in Left(j, "round") PROVE Left(k, "round") # {}
    OBVIOUS
  <2>1. a # 1
    BY <1>1
  <2> QED BY <1>1, <2>1
<1>4. Shape(k)
  <2>1. ASSUME NEW a \in DOMAIN k.todo
        PROVE  k.todo[a].op \in {"row", "edge", "settle", "round", "except"}
    <3>1. a \in Left(k, k.todo[a].op)
      BY DEF Left
    <3>2. a + 1 \in DOMAIN j.todo /\ k.todo[a] = j.todo[a + 1]
      BY <1>1, <3>1 DEF Left
    <3> QED BY <1>2, <3>2 DEF Shape
  <2>2. ASSUME NEW a \in Left(k, "row")
        PROVE  /\ 1..a \subseteq Left(k, "row")
               /\ \E n \in DOMAIN file : k.todo[a].row = file[n]
    <3>1. a + 1 \in Left(j, "row") /\ k.todo[a] = j.todo[a + 1] /\ a \in Int
      BY <1>1
    <3>2. 1 .. (a + 1) \subseteq Left(j, "row") /\ \E n \in DOMAIN file : j.todo[a + 1].row = file[n]
      BY <1>2, <3>1 DEF Shape
    <3>3. ASSUME NEW b \in 1..a PROVE b \in Left(k, "row")
      <4>1. b \in Int /\ b + 1 \in 1 .. (a + 1) /\ b + 1 # 1 /\ (b + 1) - 1 = b
        BY <3>1
      <4>2. b + 1 \in Left(j, "row")
        BY <3>2, <4>1
      <4>3. (b + 1) - 1 \in Left(k, "row")
        BY ONLY <1>1, <4>1, <4>2
      <4> QED BY <4>1, <4>3
    <3> QED BY <3>1, <3>2, <3>3
  <2>3. ASSUME NEW a \in Left(k, "round") PROVE a = Len(k.todo)
    <3>1. a + 1 \in Left(j, "round") /\ a \in Int
      BY <1>1
    <3>2. a + 1 = L
      BY <1>2, <3>1 DEF Shape, L
    <3> QED BY ONLY <1>1, <3>1, <3>2
  <2>4. Left(k, "settle") # {} => Left(k, "round") # {}
    BY <1>1, <1>2, <1>3 DEF Shape
  <2> QED BY <2>1, <2>2, <2>3, <2>4 DEF Shape
<1>5. ASSUME NEW op, NEW r, LeftFor(j, op, r) PROVE LeftFor(k, op, r) \/ (x.op = op /\ x.row = r)
  <2>1. PICK a \in Left(j, op) : j.todo[a].row = r
    BY <1>5 DEF LeftFor
  <2> QED BY <1>1, <2>1 DEF LeftFor
<1>6. ASSUME NEW n \in DOMAIN file PROVE RowLandsNext(k, file[n])
  <2> DEFINE r == file[n]
  <2>1. r.id \in Issues /\ RowLands(j, r)
    BY FileRows DEF Landing
  <2> HIDE DEF r
  <2>2. RowLandsNext(k, r)
    BY <1>5, <2>1 DEF RowLands, RowLandsNext, Grows
  <2> QED BY <2>2 DEF r
<1>7. ASSUME NEW n \in DOMAIN file PROVE StatusLandsNext(k, file[n])
  <2> DEFINE r == file[n]
  <2>1. r.id \in Issues /\ StatusLands(j, r)
    BY FileRows DEF Landing
  <2> HIDE DEF r
  <2>2. ASSUME Settled(r) PROVE StatusLandsNext(k, r)
    BY ONLY <1>g, <2>1, <2>2, SettledStays DEF StatusLandsNext
  <2>3. ASSUME NEW op \in {"settle", "except"}, LeftFor(j, op, r) PROVE StatusLandsNext(k, r)
    <3>1. CASE LeftFor(k, op, r)
      BY <3>1 DEF StatusLandsNext
    <3>2. CASE x.op = op /\ x.row = r
      <4>1. CASE SettledNext(r)
        BY <4>1 DEF StatusLandsNext
      <4>2. CASE x.op = "settle" /\ \E y \in DOMAIN k.failed : k.failed[y] = r
        <5>1. 1 \in Left(j, "settle")
          BY <1>1, <4>2 DEF Left
        <5>2. Left(k, "round") # {}
          BY <1>2, <1>3, <5>1 DEF Shape
        <5> QED BY <4>2, <5>2 DEF StatusLandsNext
      <4> QED BY <3>2, <4>1, <4>2
    <3> QED BY <1>5, <2>3, <3>1, <3>2
  <2>4. ASSUME Left(j, "round") # {}, \E m \in DOMAIN j.failed : j.failed[m] = r
        PROVE  StatusLandsNext(k, r)
    BY ONLY <1>3, <1>f, <2>4 DEF StatusLandsNext
  <2>5. StatusLandsNext(k, r)
    BY ONLY <2>1, <2>2, <2>3, <2>4 DEF StatusLands
  <2> QED BY <2>5 DEF r
<1>8. ASSUME NEW n \in DOMAIN file, NEW d \in file[n].deps \ {file[n].id}
      PROVE  EdgeLandsNext(k, file[n], d)
  <2> DEFINE r == file[n]
  <2>0. LandingNext(j)
    BY LandingKept
  <2>1. r.id \in Issues /\ EdgeLandsNext(j, r, d) /\ RowLands(j, r) /\ d \in Issues
    BY <2>0, FileRows DEF LandingNext, Landing
  <2> HIDE DEF r
  <2>2. Left(j, "row") = {} => Left(k, "row") = {}
    BY <1>1
  <2>3. ASSUME <<r.id, d>> \in dep' PROVE EdgeLandsNext(k, r, d)
    BY ONLY <2>3 DEF EdgeLandsNext
  <2>4. ASSUME ~ThereNext(d), Left(j, "row") = {} PROVE EdgeLandsNext(k, r, d)
    BY <2>2, <2>4 DEF EdgeLandsNext
  <2>5. ASSUME \E a \in Left(j, "edge") : j.todo[a].child = r.id /\ j.todo[a].parent = d
        PROVE  EdgeLandsNext(k, r, d)
    <3>1. PICK a \in Left(j, "edge") : j.todo[a].child = r.id /\ j.todo[a].parent = d
      BY <2>5
    <3>2. CASE a # 1
      BY ONLY <1>1, <3>1, <3>2 DEF EdgeLandsNext
    <3>3. CASE a = 1
      <4>1. x.op = "edge" /\ x.child = r.id /\ x.parent = d
        BY <1>1, <3>1, <3>3
      <4>2. Left(j, "row") = {}
        <5> SUFFICES ASSUME NEW b \in Left(j, "row") PROVE FALSE
          OBVIOUS
        <5>1. b \in 1 .. L /\ 1..b \subseteq Left(j, "row")
          BY <1>1, <1>2 DEF Shape
        <5>2. 1 \in Left(j, "row")
          BY <1>1, <5>1
        <5> QED BY <1>1, <4>1, <5>2
      <4>3. ThereNext(r.id)
        BY <2>1, <4>2 DEF RowLands, LeftFor, Grows
      <4>4. Left(k, "row") = {}
        BY <2>2, <4>2
      <4> QED BY ONLY <1>e, <4>1, <4>3, <4>4 DEF EdgeLandsNext
    <3> QED BY <3>2, <3>3
  <2>6. EdgeLandsNext(k, r, d)
    BY ONLY <2>1, <2>3, <2>4, <2>5 DEF EdgeLandsNext
  <2> QED BY <2>6 DEF r
<1> QED BY <1>2, <1>4, <1>6, <1>7, <1>8 DEF LandingNext

LEMMA TxGrows ==
    ASSUME TypeOK, NEW i \in Issues
    PROVE  /\ UNCHANGED <<issue, dep>> => Grows
           /\ \A w, k, ttl, at : ClaimTx(i, w, k, ttl, at) => Grows
           /\ \A ev : CloseTx(i, ev) => Grows
           /\ \A p : AddDepTx(i, p) => Grows
           /\ \A ls, at : CreateTx(i, ls, at) /\ (\E n \in DOMAIN file : file[n].id = i) => Grows
           /\ \A st \in Statuses : \A ev, at :
                 UpdateTx(i, st, ev, at) /\ issue[i].status = "open" /\ st # "open" => Grows
<1>0. issue \in [Issues -> Row]
  BY DEF TypeOK, RowsTypeOK
<1>1. ASSUME \A j \in Issues \ {i} : issue'[j] = issue[j], dep' = dep,
             Exists(i) => ThereNext(i),
             ThereNext(i) => Exists(i) \/ \E n \in DOMAIN file : file[n].id = i,
             Exists(i) /\ issue[i].status # "open" => issue'[i].status # "open",
             issue[i].status = "closed" => issue'[i].status = "closed"
      PROVE  Grows
  BY <1>1 DEF Grows, ThereNext, Exists
<1>2. ASSUME UNCHANGED <<issue, dep>> PROVE Grows
  BY <1>2 DEF Grows, ThereNext, Exists
<1>3. ASSUME NEW w, NEW k, NEW ttl, NEW at, ClaimTx(i, w, k, ttl, at) PROVE Grows
  <2>1. /\ Exists(i) /\ dep' = dep /\ \A j \in Issues \ {i} : issue'[j] = issue[j]
        /\ issue'[i].status = issue[i].status
    BY <1>0, <1>3 DEF ClaimTx, Row
  <2> QED BY <1>1, <2>1 DEF Exists, ThereNext
<1>4. ASSUME NEW ev, CloseTx(i, ev) PROVE Grows
  <2>1. /\ Exists(i) /\ dep' = dep /\ \A j \in Issues \ {i} : issue'[j] = issue[j]
        /\ issue'[i] = Closed(issue[i], ev)
    BY <1>0, <1>4 DEF CloseTx
  <2>2. issue'[i].status = "closed"
    BY <1>0, <2>1 DEF Closed, Freed, Row
  <2> QED BY <1>1, <2>1, <2>2 DEF ThereNext
<1>5. ASSUME NEW p, AddDepTx(i, p) PROVE Grows
  <2>1. issue' = issue /\ dep \subseteq dep'
    BY <1>5 DEF AddDepTx
  <2> QED BY <2>1 DEF Grows, ThereNext, Exists
<1>6. ASSUME NEW ls, NEW at, CreateTx(i, ls, at), \E n \in DOMAIN file : file[n].id = i
      PROVE  Grows
  <2>1. ~Exists(i) /\ dep' = dep /\ \A j \in Issues \ {i} : issue'[j] = issue[j]
    BY <1>0, <1>6 DEF CreateTx
  <2> QED BY <1>1, <1>6, <2>1 DEF Exists
<1>7. ASSUME NEW st \in Statuses, NEW ev, NEW at, UpdateTx(i, st, ev, at),
             issue[i].status = "open", st # "open"
      PROVE  Grows
  <2>1. /\ Exists(i) /\ dep' = dep /\ \A j \in Issues \ {i} : issue'[j] = issue[j]
        /\ issue'[i].status = st
    BY <1>0, <1>7 DEF UpdateTx, Row
  <2>2. st # "none"
    BY DEF Statuses
  <2> QED BY <1>1, <1>7, <2>1, <2>2 DEF ThereNext
<1> QED BY <1>2, <1>3, <1>4, <1>5, <1>6, <1>7

\* The steps of the jobs that run while an import does.
LEMMA JobGrows ==
    ASSUME TypeOK, NEW c \in Clients, Job(c), job[c].busy => Shape(job[c])
    PROVE  Grows
<1>1. ASSUME UNCHANGED <<issue, dep>> PROVE Grows
  BY <1>1 DEF Grows, ThereNext, Exists
<1>2. ASSUME NEW op, Turn(c, op)
      PROVE  op \in {"row", "edge", "settle", "round", "except"}
  <2>1. job[c].busy /\ job[c].todo # << >> /\ job[c].todo \in Seq(Steps) /\ job[c].todo[1].op = op
    BY <1>2, TurnFields, JobFields DEF Turn
  <2>2. 1 \in DOMAIN job[c].todo
    BY <2>1, Popped
  <2> QED BY <2>1, <2>2 DEF Shape
<1>3. ASSUME StartPlan(c) \/ StartImport(c) \/ StartArrayImport(c) \/ Answer(c) \/ Abort(c)
             \/ EndRound(c)
      PROVE  Grows
  BY <1>1, <1>3 DEF StartPlan, StartImport, StartArrayImport, Answer, Abort, EndRound, rowVars
<1>4. ASSUME CreateNode(c) \/ WireEdge(c) \/ InsertRow(c) \/ PatchRow(c) PROVE Grows
  BY <1>2, <1>4 DEF CreateNode, WireEdge, InsertRow, PatchRow
<1>5. ASSUME ImportRow(c) PROVE Grows
  <2> DEFINE i == Step(c).row.id
  <2>1. UNCHANGED rowVars \/ CreateTx(i, {}, 0)
    BY <1>5 DEF ImportRow
  <2>2. /\ job[c].busy /\ job[c].todo # << >> /\ Step(c) = job[c].todo[1] /\ Step(c) \in Steps
        /\ Step(c).op = "row" /\ job[c].todo \in Seq(Steps)
    BY <1>5, TurnFields, JobFields DEF ImportRow
  <2>3. i \in Issues
    BY <2>2, StepFields DEF ExportRow
  <2>4. 1 \in Left(job[c], "row")
    BY <2>2, Popped DEF Left
  <2>5. \E n \in DOMAIN file : file[n].id = i
    BY <2>2, <2>4 DEF Shape
  <2> HIDE DEF i
  <2> QED BY <1>1, <2>1, <2>3, <2>5, TxGrows DEF rowVars
<1>6. ASSUME ImportEdge(c) PROVE Grows
  <2>1. Step(c).child \in Issues
    BY <1>6, TurnFields, StepFields DEF ImportEdge
  <2> QED BY <1>1, <1>6, <2>1, TxGrows DEF ImportEdge, rowVars
<1>7. ASSUME Settle(c) PROVE Grows
  <2> DEFINE r == Step(c).row
  <2>1. r.id \in Issues /\ r.status \in Statuses
    BY <1>7, TurnFields, StepFields DEF Settle, ExportRow
  <2>2. CASE UNCHANGED rowVars
    BY <1>1, <2>2 DEF rowVars
  <2>3. CASE \E ev \in Receipts : CloseTx(r.id, {ev})
    BY <2>1, <2>3, TxGrows
  <2>4. CASE /\ r.status \notin {"open", "closed"} /\ issue[r.id].status = "open"
             /\ UpdateTx(r.id, r.status, issue[r.id].evidence, 0)
    BY <2>1, <2>4, TxGrows
  <2> QED BY <1>7, <2>2, <2>3, <2>4 DEF Settle, SettleWaits
<1>8. ASSUME CloseException(c) PROVE Grows
  <2>1. Step(c).row.id \in Issues
    BY <1>8, TurnFields, StepFields DEF CloseException, ExportRow
  <2> QED BY <1>8, <2>1, TxGrows DEF CloseException
<1> QED BY <1>3, <1>4, <1>5, <1>6, <1>7, <1>8 DEF Job

\* And those of everybody else.
LEMMA OthersGrow ==
    ASSUME ImportsKept, TypeOK, Others, Offered("import")
    PROVE  Grows
<1>0. scene \in Cases /\ scene.made \subseteq Issues
  BY CaseFields DEF TypeOK
<1>1. ~Offered("create") /\ ~Offered("status") /\ ~Offered("drop") /\ ~Offered("undep")
  BY <1>0 DEF ImportsKept, Offered
<1>2. ASSUME UNCHANGED <<issue, dep>> PROVE Grows
  BY <1>2 DEF Grows, ThereNext, Exists
<1>3. ASSUME NEW i \in Issues, NEW w \in Names, Claim(i, w) PROVE Grows
  BY <1>3, TxGrows DEF Claim
<1>4. ASSUME NEW i \in Issues, Close(i) PROVE Grows
  BY <1>4, TxGrows DEF Close
<1>5. ASSUME NEW i \in Issues, NEW j \in Issues, AddDep(i, j) PROVE Grows
  BY <1>5, TxGrows DEF AddDep
<1>6. ASSUME Tick PROVE Grows
  BY <1>2, <1>6 DEF Tick
<1>7. ASSUME NEW s \in Projects, NEW f \in Folders \cup {NoFolder}, MoveProject(s, f) PROVE Grows
  BY <1>2, <1>7 DEF MoveProject, rowVars
<1>8. ASSUME NEW f \in Folders, NEW p \in Folders \cup {Root}, EnsureFolder(f, p) PROVE Grows
  BY <1>2, <1>8 DEF EnsureFolder, rowVars
<1>9. /\ \A i, ty, p : ~Create(i, ty, p)
      /\ \A i, st : ~SetStatus(i, st)
      /\ \A i, j : ~RemoveDep(i, j)
      /\ \A s : ~DropProject(s)
  BY <1>1 DEF Create, SetStatus, RemoveDep, DropProject
<1> QED BY <1>3, <1>4, <1>5, <1>6, <1>7, <1>8, <1>9 DEF Others

\* An import that starts has everything to do.
LEMMA LandingStarted ==
    ASSUME TypeOK, Offered("import"), NEW j, j.todo = ImportScript(file)
    PROVE  LandingNext(j)
<1> DEFINE s == ImportScript(file)
<1>1. /\ s \in Seq(Steps) /\ Len(file) <= Len(s)
      /\ \A a \in DOMAIN file : s[a] = [op |-> "row", row |-> file[a]]
      /\ \A a \in DOMAIN s : s[a].op \in {"row", "edge", "settle", "round"}
      /\ \A a \in DOMAIN s : s[a].op = "row" => a \in DOMAIN file
      /\ \A a \in DOMAIN s : s[a].op = "round" => a = Len(s)
      /\ Len(s) \in DOMAIN s /\ s[Len(s)].op = "round"
      /\ \A n \in DOMAIN file : \E a \in DOMAIN s : s[a] = [op |-> "settle", row |-> file[n]]
      /\ \A n \in DOMAIN file : \A d \in file[n].deps \ {file[n].id} : \E a \in DOMAIN s :
            s[a] = [op |-> "edge", child |-> file[n].id, parent |-> d]
  BY CaseFields, ImportScriptIs
<1>2. file \in Seq(ExportRow)
  BY CaseFields
<1>3. j.todo = s
  OBVIOUS
<1> HIDE DEF s
<1>4. ASSUME NEW a \in DOMAIN file
      PROVE  a \in Left(j, "row") /\ j.todo[a].row = file[a] /\ 1..a \subseteq DOMAIN file
  <2>1. a \in DOMAIN s
    BY <1>1, <1>2
  <2>2. s[a] = [op |-> "row", row |-> file[a]]
    BY <1>1
  <2>3. 1..a \subseteq DOMAIN file
    BY <1>2
  <2> QED BY <1>3, <2>1, <2>2, <2>3 DEF Left
<1>5. Shape(j)
  <2>1. \A a \in DOMAIN j.todo : j.todo[a].op \in {"row", "edge", "settle", "round", "except"}
    BY <1>1, <1>3
  <2>2. \A a \in Left(j, "row") : a \in DOMAIN file
    BY <1>1, <1>3 DEF Left
  <2>3. \A a \in Left(j, "round") : a = Len(j.todo)
    BY <1>1, <1>3 DEF Left
  <2>4. Left(j, "round") # {}
    BY <1>1, <1>3 DEF Left
  <2>5. \A a \in Left(j, "row") : /\ 1..a \subseteq Left(j, "row")
                                  /\ \E n \in DOMAIN file : j.todo[a].row = file[n]
    BY <1>4, <2>2
  <2> QED BY <2>1, <2>3, <2>4, <2>5 DEF Shape
<1>6. ASSUME NEW n \in DOMAIN file PROVE RowLandsNext(j, file[n])
  BY <1>4 DEF RowLandsNext, LeftFor
<1>7. ASSUME NEW n \in DOMAIN file PROVE StatusLandsNext(j, file[n])
  <2>1. PICK a \in DOMAIN s : s[a] = [op |-> "settle", row |-> file[n]]
    BY <1>1
  <2>2. a \in Left(j, "settle") /\ j.todo[a].row = file[n]
    BY <1>3, <2>1 DEF Left
  <2> QED BY <2>2 DEF StatusLandsNext, LeftFor
<1>8. ASSUME NEW n \in DOMAIN file, NEW d \in file[n].deps \ {file[n].id}
      PROVE  EdgeLandsNext(j, file[n], d)
  <2>1. PICK a \in DOMAIN s : s[a] = [op |-> "edge", child |-> file[n].id, parent |-> d]
    BY <1>1
  <2>2. a \in Left(j, "edge") /\ j.todo[a].child = file[n].id /\ j.todo[a].parent = d
    BY <1>3, <2>1 DEF Left
  <2> QED BY <2>2 DEF EdgeLandsNext
<1> QED BY <1>5, <1>6, <1>7, <1>8 DEF LandingNext

\* At the end of a round the rows that wait are all that is left.
LEMMA LandingRound ==
    ASSUME TypeOK, NEW j \in JobType, Landing(j), j.todo # << >>, j.todo[1].op = "round",
           UNCHANGED <<issue, dep>>, NEW k \in JobType,
           \A a \in DOMAIN k.todo : k.todo[a].op \in {"settle", "round", "except"},
           \A a \in Left(k, "round") : a = Len(k.todo),
           Left(k, "settle") # {} => Left(k, "round") # {},
           \A n \in DOMAIN j.failed : \E a \in DOMAIN k.todo :
              k.todo[a].op \in {"settle", "except"} /\ k.todo[a].row = j.failed[n]
    PROVE  LandingNext(k)
<1>1. \A op : Left(j, op) # {} => op = "round"
  <2>1. j.todo \in Seq(Steps) /\ 1 \in DOMAIN j.todo
    BY JobFields, Popped
  <2>2. Len(j.todo) = 1
    BY <2>1 DEF Landing, Shape, Left
  <2>3. \A a \in DOMAIN j.todo : a = 1
    BY <2>1, <2>2
  <2> QED BY <2>3 DEF Left
<1>2. Left(k, "row") = {}
  BY DEF Left
<1>3. Shape(k)
  BY <1>2 DEF Shape
<1>4. ASSUME NEW n \in DOMAIN file PROVE RowLandsNext(k, file[n])
  <2> DEFINE r == file[n]
  <2>1. RowLands(j, r)
    BY DEF Landing
  <2> HIDE DEF r
  <2>2. RowLandsNext(k, r)
    BY <1>1, <2>1 DEF RowLands, RowLandsNext, LeftFor, ThereNext, Exists
  <2> QED BY <2>2 DEF r
<1>5. ASSUME NEW n \in DOMAIN file PROVE StatusLandsNext(k, file[n])
  <2> DEFINE r == file[n]
  <2>1. StatusLands(j, r)
    BY DEF Landing
  <2> HIDE DEF r
  <2>2. ASSUME Settled(r) PROVE StatusLandsNext(k, r)
    BY <2>2 DEF Settled, StatusLandsNext, SettledNext, ThereNext, Exists
  <2>3. ASSUME \E m \in DOMAIN j.failed : j.failed[m] = r PROVE StatusLandsNext(k, r)
    <3>1. PICK a \in DOMAIN k.todo : k.todo[a].op \in {"settle", "except"} /\ k.todo[a].row = r
      BY <2>3
    <3> QED BY <3>1 DEF StatusLandsNext, LeftFor, Left
  <2>4. StatusLandsNext(k, r)
    BY <1>1, <2>1, <2>2, <2>3 DEF StatusLands, LeftFor
  <2> QED BY <2>4 DEF r
<1>6. ASSUME NEW n \in DOMAIN file, NEW d \in file[n].deps \ {file[n].id}
      PROVE  EdgeLandsNext(k, file[n], d)
  <2> DEFINE r == file[n]
  <2>1. EdgeLands(j, r, d)
    BY DEF Landing
  <2> HIDE DEF r
  <2>2. EdgeLandsNext(k, r, d)
    BY <1>1, <1>2, <2>1 DEF EdgeLands, EdgeLandsNext, ThereNext, Exists
  <2> QED BY <2>2 DEF r
<1>7. Offered("import")
  BY DEF Landing
<1> QED BY <1>3, <1>4, <1>5, <1>6, <1>7 DEF LandingNext

\* A step of an import.
LEMMA JobLands ==
    ASSUME TypeOK, JobsOK, ImportInv, NEW c \in Clients, Job(c), job'[c].resumable
    PROVE  job'[c].busy /\ LandingNext(job'[c])
<1> DEFINE j == job[c]
           k == job'[c]
           Good == k.busy /\ LandingNext(k)
<1>0. job \in [Clients -> JobType] /\ j \in JobType /\ k \in JobType
  BY JobStepJobs DEF TypeOK
<1>r. j.resumable => j.busy /\ Landing(j)
  BY DEF ImportInv
<1>s. k.resumable
  OBVIOUS
<1> HIDE DEF Good
<1>1. ASSUME NEW op, Turn(c, op), op # "round", k.busy, k.resumable = j.resumable,
             k.todo = Tail(j.todo),
             \A m \in DOMAIN j.failed : \E y \in DOMAIN k.failed : k.failed[y] = j.failed[m],
             op = "row" => ThereNext(Step(c).row.id),
             op = "edge" => \/ <<Step(c).child, Step(c).parent>> \in dep'
                            \/ ~ThereNext(Step(c).child) \/ ~ThereNext(Step(c).parent),
             op \in {"settle", "except"} =>
                \/ SettledNext(Step(c).row)
                \/ op = "settle" /\ \E y \in DOMAIN k.failed : k.failed[y] = Step(c).row
      PROVE  Good
  <2>1. Landing(j)
    BY <1>r, <1>s, <1>1
  <2>2. j.todo # << >> /\ Step(c) = j.todo[1] /\ Step(c).op = op
    BY <1>1, TurnFields
  <2>3. Grows
    BY <2>1, JobGrows DEF Landing
  <2>4. LandingNext(k)
    BY ONLY TypeOK, <1>0, <1>1, <2>1, <2>2, <2>3, LandingPopped
  <2> QED BY <1>1, <2>4 DEF Good
<1>2. ASSUME NEW op, Turn(c, op), Onward(c) \/ (op = "settle" /\ Progressed(c))
      PROVE  /\ k.busy /\ k.resumable = j.resumable /\ k.todo = Tail(j.todo)
             /\ \A m \in DOMAIN j.failed : \E y \in DOMAIN k.failed : k.failed[y] = j.failed[m]
  <2>1. k.busy /\ k.resumable = j.resumable /\ k.todo = Tail(j.todo) /\ k.failed = j.failed
    BY <1>2, OnwardFields, SettleJob
  <2> QED BY <2>1
<1>3. ASSUME StartPlan(c) \/ StartArrayImport(c) \/ Answer(c) \/ Abort(c) PROVE FALSE
  <2>1. CASE StartPlan(c)
    BY <1>s, <2>1, StartPlanJob
  <2>2. CASE StartArrayImport(c)
    BY <1>s, <2>2, StartArrayJob
  <2>3. CASE Answer(c) \/ Abort(c)
    <3>1. k = NoJob
      BY <1>0, <2>3 DEF Answer, Abort
    <3> QED BY <1>s, <3>1, NoJobType
  <2> QED BY <1>3, <2>1, <2>2, <2>3
<1>4. ASSUME StartImport(c) PROVE Good
  <2>1. Offered("import")
    BY <1>4 DEF StartImport
  <2>2. k.busy /\ k.todo = ImportScript(file)
    BY <1>4, StartImportJob
  <2>3. LandingNext(k)
    BY <2>1, <2>2, LandingStarted
  <2> QED BY <2>2, <2>3 DEF Good
<1>5. ASSUME CreateNode(c) PROVE Good
  <2>1. Turn(c, "node")
    BY <1>5 DEF CreateNode
  <2>2. PICK i \in Issues :
           job' = [job EXCEPT ![c].todo = Tail(@), ![c].ids[Step(c).node.key] = i]
    BY <1>5 DEF CreateNode
  <2>3. k.resumable = j.resumable
    BY <2>1, <2>2, NodeJob
  <2>4. 1 \in DOMAIN j.todo /\ j.todo[1].op = "node"
    BY <2>1, TurnFields, JobFields, Popped
  <2> QED BY <1>r, <1>s, <2>3, <2>4 DEF Landing, Shape
<1>6. ASSUME WireEdge(c) \/ InsertRow(c) \/ PatchRow(c) PROVE Good
  <2>1. PICK op \in {"wire", "insert", "patch"} : Turn(c, op) /\ Onward(c)
    BY <1>6 DEF WireEdge, InsertRow, PatchRow
  <2>2. k.resumable = j.resumable
    BY ONLY TypeOK, <2>1, OnwardFields
  <2>3. 1 \in DOMAIN j.todo /\ j.todo[1].op = op
    BY <2>1, TurnFields, JobFields, Popped
  <2> QED BY <1>r, <1>s, <2>1, <2>2, <2>3 DEF Landing, Shape
<1>7. ASSUME ImportRow(c) PROVE Good
  <2>1. Turn(c, "row") /\ Onward(c)
    BY <1>7 DEF ImportRow
  <2> DEFINE i == Step(c).row.id
  <2>2. i \in Issues
    BY <2>1, TurnFields, StepFields DEF ExportRow
  <2>3. (Exists(i) /\ issue' = issue) \/ CreateTx(i, {}, 0)
    BY <1>7 DEF ImportRow, rowVars
  <2> HIDE DEF i
  <2>4. issue'[i].status # "none"
    <3>1. CASE Exists(i) /\ issue' = issue
      BY <3>1 DEF Exists
    <3>2. CASE CreateTx(i, {}, 0)
      <4>1. issue \in [Issues -> Row]
        BY DEF TypeOK, RowsTypeOK
      <4>2. issue'[i] = [Absent EXCEPT !.status = "open", !.available = 0, !.labels = {}]
        BY <2>2, <3>2, <4>1 DEF CreateTx
      <4> QED BY <4>2 DEF Absent
    <3> QED BY <2>3, <3>1, <3>2
  <2>5. ThereNext(Step(c).row.id)
    BY <2>4 DEF ThereNext, i
  <2>c. /\ k.busy /\ k.resumable = j.resumable /\ k.todo = Tail(j.todo)
        /\ \A m \in DOMAIN j.failed : \E y \in DOMAIN k.failed : k.failed[y] = j.failed[m]
    BY ONLY <1>2, <2>1
  <2> HIDE DEF j, k
  <2> QED BY ONLY <1>1, <2>1, <2>c, <2>5
<1>8. ASSUME ImportEdge(c) PROVE Good
  <2>1. Turn(c, "edge") /\ Onward(c)
    BY <1>8 DEF ImportEdge
  <2>2. \/ <<Step(c).child, Step(c).parent>> \in dep'
        \/ ~ThereNext(Step(c).child) \/ ~ThereNext(Step(c).parent)
    BY <1>8 DEF ImportEdge, AddDepTx, rowVars, ThereNext, Exists
  <2>c. /\ k.busy /\ k.resumable = j.resumable /\ k.todo = Tail(j.todo)
        /\ \A m \in DOMAIN j.failed : \E y \in DOMAIN k.failed : k.failed[y] = j.failed[m]
    BY ONLY <1>2, <2>1
  <2> HIDE DEF j, k
  <2> QED BY ONLY <1>1, <2>1, <2>c, <2>2
<1>c. ASSUME NEW r, r.id \in Issues, NEW ev, CloseTx(r.id, ev) PROVE SettledNext(r)
  <2>1. issue \in [Issues -> Row]
    BY DEF TypeOK, RowsTypeOK
  <2>2. issue'[r.id] = Closed(issue[r.id], ev)
    BY <1>c, <2>1 DEF CloseTx
  <2>3. issue'[r.id].status = "closed"
    BY <1>c, <2>1, <2>2 DEF Closed, Freed, Row
  <2> QED BY <2>3 DEF SettledNext, ThereNext
<1>9. ASSUME Settle(c) PROVE Good
  <2> DEFINE r == Step(c).row
  <2>1. Turn(c, "settle")
    BY <1>9 DEF Settle
  <2>2. r.id \in Issues /\ r.status \in Statuses /\ r \in ExportRow
    BY <2>1, TurnFields, StepFields DEF ExportRow
  <2>3. issue \in [Issues -> Row] /\ Exists(r.id)
    BY <1>9 DEF TypeOK, RowsTypeOK, Settle
  <2>4. ASSUME SettledNext(r), Onward(c) \/ Progressed(c) PROVE Good
    BY <1>1, <1>2, <2>1, <2>4
  <2>5. CASE (\E ev \in Receipts : CloseTx(r.id, {ev})) /\ Progressed(c)
    <3>1. SettledNext(r)
      BY <1>c, <2>2, <2>5
    <3> QED BY <2>4, <2>5, <3>1
  <2>6. CASE SettleWaits(c, r)
    <3>1. job' = [job EXCEPT ![c].todo = Tail(@), ![c].failed = Append(@, Step(c).row)]
      BY <2>6 DEF SettleWaits
    <3>2. /\ k.busy /\ k.resumable = j.resumable /\ k.todo = Tail(j.todo)
          /\ Progressed(c) => k.failed = j.failed
          /\ ~Progressed(c) => k.failed = Append(j.failed, Step(c).row)
      BY <2>1, <3>1, SettleJob
    <3>3. k.failed = Append(j.failed, r)
      BY <1>0, <3>1
    <3>4. j.failed \in Seq(ExportRow)
      BY <1>0, JobFields
    <3> HIDE DEF r, j, k
    <3>5. /\ \A m \in DOMAIN j.failed : m \in DOMAIN k.failed /\ k.failed[m] = j.failed[m]
          /\ Len(j.failed) + 1 \in DOMAIN k.failed /\ k.failed[Len(j.failed) + 1] = r
      BY ONLY <2>2, <3>3, <3>4
    <3>6. /\ \A m \in DOMAIN j.failed : \E y \in DOMAIN k.failed : k.failed[y] = j.failed[m]
          /\ \E y \in DOMAIN k.failed : k.failed[y] = r
      BY ONLY <3>5
    <3> QED BY <1>1, <2>1, <3>2, <3>6 DEF r, j, k
  <2>7. CASE /\ r.status \notin {"open", "closed"} /\ Progressed(c)
             /\ UpdateTx(r.id, r.status, issue[r.id].evidence, 0)
    <3>1. issue'[r.id].status = r.status
      BY <2>2, <2>3, <2>7 DEF UpdateTx, Row
    <3>2. r.status # "none"
      BY <2>2 DEF Statuses
    <3>3. SettledNext(r)
      BY <2>7, <3>1, <3>2 DEF SettledNext, ThereNext
    <3> QED BY <2>4, <2>7, <3>3
  <2>8. CASE /\ r.status = "closed" => issue[r.id].status = "closed"
             /\ r.status \notin {"open", "closed"} => issue[r.id].status # "open"
             /\ UNCHANGED rowVars /\ Onward(c)
    <3>1. SettledNext(r)
      BY <2>3, <2>8 DEF SettledNext, ThereNext, Exists, rowVars
    <3> QED BY <2>4, <2>8, <3>1
  <2> QED BY <1>9, <2>5, <2>6, <2>7, <2>8 DEF Settle
<1>10. ASSUME CloseException(c) PROVE Good
  <2>1. Turn(c, "except") /\ Onward(c)
    BY <1>10 DEF CloseException
  <2>2. Step(c).row.id \in Issues
    BY <2>1, TurnFields, StepFields DEF ExportRow
  <2>3. SettledNext(Step(c).row)
    BY <1>c, <1>10, <2>2 DEF CloseException
  <2>c. /\ k.busy /\ k.resumable = j.resumable /\ k.todo = Tail(j.todo)
        /\ \A m \in DOMAIN j.failed : \E y \in DOMAIN k.failed : k.failed[y] = j.failed[m]
    BY ONLY <1>2, <2>1
  <2> HIDE DEF j, k
  <2> QED BY ONLY <1>1, <2>1, <2>c, <2>3
<1>11. ASSUME EndRound(c) PROVE Good
  <2>1. Turn(c, "round") /\ UNCHANGED <<issue, dep>>
    BY <1>11 DEF EndRound, rowVars
  <2>2. /\ k.busy /\ k.resumable = j.resumable
        /\ \A a \in DOMAIN k.todo : k.todo[a].op \in {"settle", "round", "except"}
        /\ \A a \in Left(k, "round") : a = Len(k.todo)
        /\ Left(k, "settle") # {} => Left(k, "round") # {}
        /\ \A n \in DOMAIN j.failed : \E a \in DOMAIN k.todo :
              k.todo[a].op \in {"settle", "except"} /\ k.todo[a].row = j.failed[n]
    BY <1>11, RoundJob
  <2>3. Landing(j) /\ j.todo # << >> /\ j.todo[1].op = "round"
    BY <1>r, <1>s, <2>1, <2>2, TurnFields
  <2>4. LandingNext(k)
    BY ONLY TypeOK, <1>0, <2>1, <2>2, <2>3, LandingRound
  <2> QED BY <2>2, <2>4 DEF Good
<1> QED BY <1>3, <1>4, <1>5, <1>6, <1>7, <1>8, <1>9, <1>10, <1>11 DEF Job, Good

LEMMA ImportStep ==
    ASSUME ImportsKept, ImportsAlone, PlanningOK, ImportInv, [Next]_vars
    PROVE  ImportInv'
<1>0. TypeOK /\ JobsOK
  BY DEF PlanningOK
<1>1. ASSUME \A c \in Clients : job'[c].resumable => job'[c].busy /\ LandingNext(job'[c]),
             UNCHANGED <<scene, file>>
      PROVE  ImportInv'
  <2>1. ASSUME NEW c \in Clients, job'[c].resumable PROVE job'[c].busy /\ Landing(job[c])'
    <3> DEFINE k == job'[c]
    <3>1. k.busy /\ LandingNext(k)
      BY <1>1, <2>1
    <3>2. Shape(job[c])'
      BY <1>1, <3>1 DEF LandingNext, Shape, Left
    <3>3. ASSUME NEW n \in DOMAIN file PROVE RowLands(job[c], file[n])'
      BY <1>1, <3>1 DEF LandingNext, RowLandsNext, RowLands, ThereNext, Exists, LeftFor, Left
    <3>4. ASSUME NEW n \in DOMAIN file PROVE StatusLands(job[c], file[n])'
      BY <1>1, <3>1 DEF LandingNext, StatusLandsNext, StatusLands, SettledNext, Settled,
                        ThereNext, Exists, LeftFor, Left
    <3>5. ASSUME NEW n \in DOMAIN file, NEW d \in file[n].deps \ {file[n].id}
          PROVE  EdgeLands(job[c], file[n], d)'
      BY <1>1, <3>1 DEF LandingNext, EdgeLandsNext, EdgeLands, ThereNext, Exists, Left
    <3> QED BY <1>1, <3>1, <3>2, <3>3, <3>4, <3>5 DEF Landing, LandingNext, Offered
  <2> QED BY <2>1 DEF ImportInv
<1>2. ASSUME Grows, NEW d \in Clients, job[d].resumable, job'[d] = job[d]
      PROVE  job'[d].busy /\ LandingNext(job'[d])
  <2> DEFINE j == job[d]
  <2>1. j.busy /\ Landing(j)
    BY <1>2 DEF ImportInv
  <2> HIDE DEF j
  <2>2. LandingNext(j)
    BY <1>0, <1>2, <2>1, LandingKept
  <2> QED BY <1>2, <2>1, <2>2 DEF j
<1>3. ASSUME NEW c \in Clients, Job(c) PROVE ImportInv'
  <2>1. UNCHANGED <<scene, file>>
    BY <1>0, <1>3, JobStepOK DEF StepOK, caseVars
  <2>2. \A d \in Clients \ {c} : job'[d] = job[d]
    BY <1>0, <1>3, JobStepJobs
  <2>3. ASSUME NEW d \in Clients \ {c}, job'[d].resumable
        PROVE  job'[d].busy /\ LandingNext(job'[d])
    <3>1. job[d].resumable /\ job'[d] = job[d]
      BY <2>2, <2>3
    <3>2. job[c].busy => Shape(job[c])
      BY <3>1 DEF ImportsAlone, ImportInv, Landing
    <3>3. Grows
      BY <1>0, <1>3, <3>2, JobGrows
    <3> QED BY <1>2, <3>1, <3>3
  <2>4. job'[c].resumable => job'[c].busy /\ LandingNext(job'[c])
    BY <1>0, <1>3, JobLands
  <2>5. \A d \in Clients : job'[d].resumable => job'[d].busy /\ LandingNext(job'[d])
    BY <2>3, <2>4
  <2> QED BY <1>1, <2>1, <2>5
<1>4. ASSUME UNCHANGED <<scene, file, job>>,
             \A c \in Clients : job[c].resumable => Grows
      PROVE  ImportInv'
  <2>1. \A c \in Clients : job'[c].resumable => job'[c].busy /\ LandingNext(job'[c])
    BY <1>2, <1>4
  <2> QED BY <1>1, <1>4, <2>1
<1>5. ASSUME Others PROVE ImportInv'
  <2>1. UNCHANGED <<scene, file, job>>
    BY <1>0, <1>5, OthersStepOK DEF StepOK, caseVars
  <2>2. ASSUME NEW c \in Clients, job[c].resumable PROVE Grows
    <3>1. Offered("import")
      BY <2>2 DEF ImportInv, Landing
    <3> QED BY <1>0, <1>5, <3>1, OthersGrow
  <2> QED BY <1>4, <2>1, <2>2
<1>6. ASSUME UNCHANGED vars PROVE ImportInv'
  <2>1. UNCHANGED <<scene, file, job>> /\ UNCHANGED <<issue, dep>>
    BY <1>6 DEF vars, caseVars, rowVars
  <2>2. Grows
    BY <2>1 DEF Grows, ThereNext, Exists
  <2> QED BY <1>4, <2>1, <2>2
<1> QED BY <1>3, <1>5, <1>6 DEF Next

\* An import that answers has landed the export: every row is there, every edge between its
\* rows, and what the export closed is closed, whatever earlier runs left behind and however
\* claims, closes, new edges and other imports come between its transactions (ImportLands,
\* jsonl.rs:370), as long as nothing else writes several transactions at the time and nobody
\* reopens, drops, unties or adds issues by hand where imports run.
THEOREM ExportLanded == ImportsKept => (Spec /\ []ImportsAlone => []ImportLands)
<1> SUFFICES ASSUME ImportsKept PROVE Spec /\ []ImportsAlone => []ImportLands
  OBVIOUS
<1>1. Init => ImportInv
  BY NoJobType DEF Init, ImportInv
<1>2. ImportsAlone /\ PlanningOK /\ ImportInv /\ [Next]_vars => ImportInv'
  BY ImportStep
<1>3. PlanningOK /\ ImportInv => ImportLands
  <2> SUFFICES ASSUME TypeOK, ImportInv, NEW c \in Clients, job[c].resumable, Answers(c),
                      NEW n \in DOMAIN file
               PROVE  /\ Exists(file[n].id)
                      /\ file[n].status # "open" => issue[file[n].id].status # "open"
                      /\ file[n].status = "closed" => issue[file[n].id].status = "closed"
                      /\ \A d \in file[n].deps \ {file[n].id} :
                            Exists(d) => <<file[n].id, d>> \in dep
    BY DEF PlanningOK, ImportLands
  <2>1. Landing(job[c]) /\ job[c].todo = << >>
    BY DEF ImportInv, Answers
  <2>2. \A op : Left(job[c], op) = {}
    BY <2>1 DEF Left
  <2>3. Settled(file[n])
    BY <2>1, <2>2 DEF Landing, StatusLands, LeftFor
  <2>4. ASSUME NEW d \in file[n].deps \ {file[n].id}, Exists(d) PROVE <<file[n].id, d>> \in dep
    BY <2>1, <2>2, <2>4 DEF Landing, EdgeLands
  <2> QED BY <2>3, <2>4 DEF Settled
<1> QED BY <1>1, <1>2, <1>3, PlanningOKInit, PlanningOKStep, PTL DEF Spec

----------------------------------------------------------------------------
(* Functions by recursion *)

\* Induction up to n: a set with 0 and with every successor of its own holds all.
LEMMA Climbs ==
    ASSUME NEW n \in Nat, NEW T, 0 \in T, \A k \in 1 .. n : k - 1 \in T => k \in T
    PROVE  \A k \in 0 .. n : k \in T
<1> DEFINE Bad == {k \in 0 .. n : k \notin T}
<1>1. Bad = {}
  <2> SUFFICES ASSUME Bad # {} PROVE FALSE
    OBVIOUS
  <2>1. PICK k \in Bad : \A m \in Bad : k <= m
    <3>1. Bad \in SUBSET Nat
      OBVIOUS
    <3> HIDE DEF Bad
    <3> QED BY <3>1, LeastNat
  <2>2. k \in 0 .. n /\ k \notin T /\ k # 0
    BY <2>1
  <2>3. k \in 1 .. n /\ k - 1 \in 0 .. n
    BY <2>2
  <2>4. k - 1 \notin T
    BY <2>2, <2>3
  <2>5. k - 1 \in Bad
    BY <2>3, <2>4
  <2> HIDE DEF Bad
  <2> QED BY <2>1, <2>2, <2>3, <2>5
<1> QED BY <1>1

\* The same downwards, from n.
LEMMA Falls ==
    ASSUME NEW n \in Nat, NEW T, \A k \in 1 .. n : (\A m \in 1 .. n : k < m => m \in T) => k \in T
    PROVE  \A k \in 1 .. n : k \in T
<1> DEFINE U == {k \in 0 .. n : \A m \in 1 .. n : n - k < m => m \in T}
<1>1. 0 \in U
  OBVIOUS
<1>2. ASSUME NEW k \in 1 .. n, k - 1 \in U PROVE k \in U
  <2>1. \A m \in 1 .. n : n - k + 1 < m => m \in T
    BY <1>2
  <2>2. n - k + 1 \in 1 .. n
    BY <1>2
  <2>3. n - k + 1 \in T
    BY <2>1, <2>2
  <2>4. ASSUME NEW m \in 1 .. n, n - k < m PROVE m \in T
    <3>1. m = n - k + 1 \/ n - k + 1 < m
      BY <1>2, <2>4
    <3> QED BY <2>1, <2>3, <3>1
  <2> QED BY <1>2, <2>4
<1>3. n \in U
  <2>1. n \in 0 .. n
    OBVIOUS
  <2> HIDE DEF U
  <2> QED BY <1>1, <1>2, <2>1, Climbs
<1> QED BY <1>3

\* f starts from v and maps, step by step, what the step before gave.
Maps(step, n, V) == step \in [1 .. n -> [V -> V]]
Follows(f, n, V, v, step) ==
    /\ f \in [0 .. n -> V] /\ f[0] = v
    /\ \A k \in 1 .. n : f[k] = step[k][f[k - 1]]

\* A function defined by recursion on numbers exists.
LEMMA Recurs ==
    ASSUME NEW n \in Nat, NEW V, NEW v \in V, NEW step, Maps(step, n, V)
    PROVE  \E f : Follows(f, n, V, v, step)
<1>0. step \in [1 .. n -> [V -> V]]
  BY DEF Maps
<1> DEFINE Builds(f, k) == /\ f \in [0 .. k -> V] /\ f[0] = v
                           /\ \A m \in 1 .. k : f[m] = step[m][f[m - 1]]
           T == {k \in 0 .. n : \E f : Builds(f, k)}
<1>1. 0 \in T
  <2> DEFINE f == [k \in 0 .. 0 |-> v]
  <2>1. Builds(f, 0)
    OBVIOUS
  <2> HIDE DEF f, Builds
  <2> QED BY <2>1
<1>2. ASSUME NEW k \in 1 .. n, k - 1 \in T PROVE k \in T
  <2>1. PICK f : Builds(f, k - 1)
    BY <1>2
  <2> DEFINE g == [m \in 0 .. k |-> IF m = k THEN step[k][f[k - 1]] ELSE f[m]]
  <2>2. f[k - 1] \in V /\ step[k][f[k - 1]] \in V
    <3>1. f \in [0 .. (k - 1) -> V] /\ k - 1 \in 0 .. (k - 1)
      BY <2>1
    <3>2. f[k - 1] \in V
      BY <3>1
    <3>3. step[k] \in [V -> V]
      BY <1>0
    <3> QED BY <3>2, <3>3
  <2>3. g \in [0 .. k -> V] /\ g[0] = v
    BY <2>1, <2>2
  <2>4. ASSUME NEW m \in 1 .. k PROVE g[m] = step[m][g[m - 1]]
    <3>1. CASE m = k
      <4>1. g[m] = step[k][f[k - 1]] /\ g[m - 1] = f[k - 1]
        BY <3>1
      <4> QED BY <3>1, <4>1
    <3>2. CASE m # k
      <4>1. m \in 1 .. (k - 1) /\ g[m] = f[m] /\ g[m - 1] = f[m - 1]
        BY <3>2
      <4>2. f[m] = step[m][f[m - 1]]
        BY <2>1, <4>1
      <4> QED BY <4>1, <4>2
    <3> QED BY <3>1, <3>2
  <2> HIDE DEF g
  <2>5. Builds(g, k)
    BY <2>3, <2>4
  <2> HIDE DEF Builds
  <2> QED BY <2>5
<1>3. n \in T
  <2>1. n \in 0 .. n
    OBVIOUS
  <2> HIDE DEF T
  <2> QED BY <1>1, <1>2, <2>1, Climbs
<1>4. PICK f : Builds(f, n)
  BY <1>3
<1> QED BY <1>4 DEF Follows

\* A finite set of numbers has a greatest element.
LEMMA GreatestNat ==
    ASSUME NEW T, IsFiniteSet(T), T # {}, NEW f, \A x \in T : f[x] \in Int
    PROVE  \E x \in T : \A y \in T : f[y] <= f[x]
<1> DEFINE Above(x) == {y \in T : f[x] < f[y]}
           C == {Cardinality(Above(x)) : x \in T}
<1>1. \A x \in T : IsFiniteSet(Above(x)) /\ Cardinality(Above(x)) \in Nat
  <2> TAKE x \in T
  <2>1. Above(x) \subseteq T
    OBVIOUS
  <2> HIDE DEF Above
  <2> QED BY <2>1, FS_Subset, FS_CardinalityType
<1>2. C \in SUBSET Nat /\ C # {}
  <2> HIDE DEF Above
  <2> QED BY <1>1
<1>3. PICK c \in C : \A m \in C : c <= m
  <2> HIDE DEF C
  <2> QED BY <1>2, LeastNat
<1>4. PICK x \in T : c = Cardinality(Above(x))
  BY <1>3
<1>5. ASSUME NEW y \in T, f[x] < f[y] PROVE FALSE
  <2>1. Above(y) \subseteq Above(x) /\ y \in Above(x) /\ y \notin Above(y)
    BY <1>5
  <2>2. Cardinality(Above(y)) < Cardinality(Above(x))
    <3>1. IsFiniteSet(Above(x)) /\ Above(y) # Above(x)
      BY <1>1, <2>1
    <3> HIDE DEF Above
    <3> QED BY <2>1, <3>1, FS_Subset, FS_CardinalityType
  <2>3. Cardinality(Above(y)) \in C
    OBVIOUS
  <2> HIDE DEF Above, C
  <2> QED BY <1>1, <1>3, <1>4, <2>2, <2>3
<1> QED BY <1>5

\* Top is the largest value of f on T, and 0 when T is empty.
LEMMA TopIs ==
    ASSUME NEW T, IsFiniteSet(T), NEW f, \A x \in T : f[x] \in Nat
    PROVE  /\ Top(f, T) \in Nat
           /\ \A x \in T : f[x] <= Top(f, T)
           /\ T = {} => Top(f, T) = 0
           /\ T # {} => \E x \in T : Top(f, T) = f[x]
<1>1. CASE T = {}
  BY <1>1 DEF Top
<1>2. CASE T # {}
  <2> DEFINE S == {f[x] : x \in T}
  <2>1. PICK x \in T : \A y \in T : f[y] <= f[x]
    BY <1>2, GreatestNat
  <2>2. f[x] \in S /\ \A n \in S : n <= f[x]
    BY <2>1
  <2>3. Top(f, T) = CHOOSE m \in S : \A n \in S : n <= m
    BY <1>2 DEF Top
  <2>4. Top(f, T) \in S /\ \A n \in S : n <= Top(f, T)
    <3> HIDE DEF S
    <3> QED BY <2>2, <2>3
  <2> QED BY <1>2, <2>4
<1> QED BY <1>1, <1>2

\* Top depends on the values on T only.
LEMMA TopOf ==
    ASSUME NEW T, NEW f, NEW g, \A x \in T : f[x] = g[x]
    PROVE  Top(f, T) = Top(g, T)
<1> DEFINE A == {f[x] : x \in T}
           B == {g[x] : x \in T}
<1>1. A = B
  OBVIOUS
<1>2. Top(f, T) = IF T = {} THEN 0 ELSE CHOOSE m \in A : \A n \in A : n <= m
  BY DEF Top
<1>3. Top(g, T) = IF T = {} THEN 0 ELSE CHOOSE m \in B : \A n \in B : n <= m
  BY DEF Top
<1> HIDE DEF A, B
<1> QED BY <1>1, <1>2, <1>3

----------------------------------------------------------------------------
(* The order of a scope *)

\* A scope without cycles that is not done has a node whose dependencies are.
LEMMA SomethingFree ==
    ASSUME dep \in SUBSET (Issues \X Issues), DepAcyclic, NEW S \in SUBSET Issues, IsFiniteSet(S),
           NEW done, S \ done # {}
    PROVE  Free(S, done) # {}
<1> DEFINE T == S \ done
           Ahead(i) == Reach(dep, i) \cap T
           f == [i \in T |-> 0 - Cardinality(Ahead(i))]
<1>1. IsFiniteSet(T)
  BY FS_Subset
<1>2. \A i \in T : IsFiniteSet(Ahead(i)) /\ Cardinality(Ahead(i)) \in Nat
  BY <1>1, FS_Subset, FS_CardinalityType
<1>3. PICK i \in T : \A j \in T : f[j] <= f[i]
  <2>1. \A j \in T : f[j] \in Int
    BY <1>2
  <2>2. T # {}
    OBVIOUS
  <2> HIDE DEF T, f
  <2> QED BY <1>1, <2>1, <2>2, GreatestNat
<1>4. ASSUME NEW b \in Internal(S, i), b \notin done PROVE FALSE
  <2>1. b \in T /\ <<i, b>> \in dep /\ i \in Issues /\ b \in Issues
    BY <1>4 DEF Internal, Blockers
  <2>2. i \in Reach(dep, i) /\ Reach(dep, i) \subseteq Issues /\ ClosedUnder(Reach(dep, i), dep)
    BY <2>1, ReachIsClosed
  <2>3. b \in Reach(dep, i)
    BY <2>1, <2>2 DEF ClosedUnder
  <2>4. Reach(dep, b) \subseteq Reach(dep, i)
    BY <2>1, <2>2, <2>3, ReachIsLeast
  <2>5. i \notin Reach(dep, b)
    BY <2>1 DEF DepAcyclic
  <2>6. Ahead(b) \subseteq Ahead(i) /\ i \in Ahead(i) /\ i \notin Ahead(b)
    BY <2>2, <2>4, <2>5
  <2>7. Cardinality(Ahead(b)) < Cardinality(Ahead(i))
    <3>1. IsFiniteSet(Ahead(i)) /\ IsFiniteSet(Ahead(b)) /\ Ahead(b) # Ahead(i)
      BY <1>2, <2>1, <2>6
    <3> HIDE DEF Ahead
    <3> QED BY <2>6, <3>1, FS_Subset, FS_CardinalityType
  <2>8. f[b] = 0 - Cardinality(Ahead(b)) /\ f[i] = 0 - Cardinality(Ahead(i)) /\ f[b] <= f[i]
    BY <1>3, <2>1
  <2>9. Cardinality(Ahead(b)) \in Nat /\ Cardinality(Ahead(i)) \in Nat
    BY <1>2, <2>1
  <2> HIDE DEF Ahead, f
  <2> QED BY <2>7, <2>8, <2>9
<1> QED BY <1>4 DEF Free

\* The first of some issues is one of them.
LEMMA FirstIn ==
    ASSUME FactsOK, NEW T \in SUBSET Issues, T # {}
    PROVE  First(T) \in T
BY FirstBefore DEF First

Once(t) == \A a, b \in DOMAIN t : t[a] = t[b] => a = b
DepsFirst(S, t) == \A a \in DOMAIN t : \A d \in Internal(S, t[a]) : \E b \in 1 .. (a - 1) : t[b] = d

\* t lists S, dependencies first.
Ordered(S, t) ==
    /\ t \in Seq(S) /\ Len(t) = Cardinality(S) /\ Once(t) /\ DepsFirst(S, t)
    /\ \A i \in S : \E a \in DOMAIN t : t[a] = i

\* Kahn's walk as a function of its steps.
LEMMA TopoIs ==
    ASSUME FactsOK, NEW S \in SUBSET Issues, IsFiniteSet(S)
    PROVE  \E walk \in [0 .. Cardinality(S) -> Seq(S)] :
              /\ Topo(S) = walk[Cardinality(S)]
              /\ walk[0] = << >>
              /\ \A k \in 1 .. Cardinality(S) :
                    walk[k] = LET free == Free(S, Range(walk[k - 1]))
                              IN  IF free = {} THEN walk[k - 1] ELSE Append(walk[k - 1], First(free))
<1> DEFINE n == Cardinality(S)
           Onto(s) == LET free == Free(S, Range(s))
                      IN  IF free = {} THEN s ELSE Append(s, First(free))
           Builds(w) == w = [k \in 0 .. n |-> IF k = 0 THEN << >> ELSE Onto(w[k - 1])]
           step == [k \in 1 .. n |-> [s \in Seq(S) |-> Onto(s)]]
<1>1. n \in Nat
  BY FS_CardinalityType
<1>2. Topo(S) = (CHOOSE u : Builds(u))[n]
  BY DEF Topo
<1>3. \A s \in Seq(S) : Onto(s) \in Seq(S)
  <2> TAKE s \in Seq(S)
  <2> DEFINE free == Free(S, Range(s))
  <2>1. free \subseteq S
    BY DEF Free
  <2>2. free # {} => First(free) \in S
    <3> HIDE DEF free
    <3> QED BY <2>1, FirstIn
  <2> HIDE DEF free
  <2>3. (IF free = {} THEN s ELSE Append(s, First(free))) \in Seq(S)
    BY <2>2
  <2> QED BY <2>3 DEF free
<1> HIDE DEF Onto, n
<1>4. PICK w : Follows(w, n, Seq(S), << >>, step)
  <2>1. Maps(step, n, Seq(S))
    BY <1>3 DEF Maps
  <2>2. << >> \in Seq(S)
    OBVIOUS
  <2> HIDE DEF step
  <2> QED BY ONLY <1>1, <2>1, <2>2, Recurs
<1>f. w \in [0 .. n -> Seq(S)] /\ w[0] = << >> /\ \A k \in 1 .. n : w[k] = step[k][w[k - 1]]
  BY <1>4 DEF Follows
<1>5. \A k \in 1 .. n : w[k] = Onto(w[k - 1])
  <2> TAKE k \in 1 .. n
  <2>1. w[k - 1] \in Seq(S)
    BY <1>1, <1>f
  <2>2. step[k][w[k - 1]] = Onto(w[k - 1])
    BY <2>1
  <2> QED BY <1>f, <2>2
<1>6. Builds(w)
  <2>1. \A k \in 0 .. n : w[k] = IF k = 0 THEN << >> ELSE Onto(w[k - 1])
    BY <1>1, <1>f, <1>5
  <2> QED BY <1>f, <2>1
<1> DEFINE walk == CHOOSE x : Builds(x)
<1>7. Builds(walk)
  <2> HIDE DEF Builds
  <2> QED BY <1>6
<1> HIDE DEF walk
<1>8. walk[0] = << >> /\ \A k \in 1 .. n : walk[k] = Onto(walk[k - 1])
  BY <1>1, <1>7
<1>9. \A k \in 0 .. n : walk[k] \in Seq(S)
  <2> DEFINE T == {k \in 0 .. n : walk[k] \in Seq(S)}
  <2>1. 0 \in T
    <3>1. walk[0] \in Seq(S)
      BY <1>8
    <3>2. 0 \in 0 .. n
      BY <1>1
    <3> QED BY ONLY <3>1, <3>2
  <2>2. ASSUME NEW k \in 1 .. n, k - 1 \in T PROVE k \in T
    BY <1>1, <1>3, <1>8, <2>2
  <2> HIDE DEF T
  <2>3. \A k \in 0 .. n : k \in T
    BY <1>1, <2>1, <2>2, Climbs
  <2> QED BY <2>3 DEF T
<1>10. walk \in [0 .. n -> Seq(S)]
  BY <1>7, <1>9
<1> QED BY <1>2, <1>8, <1>10 DEF walk, Onto, n

\* A sequence without repetitions has as many elements as positions.
LEMMA OnceCard ==
    ASSUME NEW S, NEW t \in Seq(S), Once(t)
    PROVE  /\ IsFiniteSet(Range(t)) /\ Cardinality(Range(t)) = Len(t)
           /\ Range(t) \subseteq S
<1>1. t \in [1 .. Len(t) -> Range(t)] /\ Range(t) = {t[a] : a \in 1 .. Len(t)}
  BY DEF Range
<1>2. t \in Bijection(1 .. Len(t), Range(t))
  BY <1>1 DEF Once, Bijection, Injection, IsInjective, Surjection
<1>3. ExistsBijection(1 .. Len(t), Range(t))
  BY <1>2 DEF ExistsBijection
<1>4. IsFiniteSet(1 .. Len(t)) /\ Cardinality(1 .. Len(t)) = Len(t)
  <2>1. Len(t) \in Nat
    OBVIOUS
  <2> HIDE DEF Range
  <2>2. /\ IsFiniteSet(1 .. Len(t))
        /\ Cardinality(1 .. Len(t)) = IF 1 > Len(t) THEN 0 ELSE Len(t) - 1 + 1
    BY <2>1, FS_Interval
  <2> QED BY <2>1, <2>2
<1>5. Range(t) \subseteq S
  BY DEF Range
<1> QED BY <1>3, <1>4, <1>5, FS_Bijection

\* One step of the walk: the node it appends is new, and its dependencies are there.
LEMMA WalkStep ==
    ASSUME FactsOK, dep \in SUBSET (Issues \X Issues), DepAcyclic,
           NEW S \in SUBSET Issues, IsFiniteSet(S), NEW t \in Seq(S), Once(t), DepsFirst(S, t),
           Len(t) < Cardinality(S)
    PROVE  LET free == Free(S, Range(t))
               u    == Append(t, First(free))
           IN  free # {} /\ u \in Seq(S) /\ Len(u) = Len(t) + 1 /\ Once(u) /\ DepsFirst(S, u)
<1> DEFINE done == Range(t)
           free == Free(S, done)
           x    == First(free)
           u    == Append(t, x)
<1>1. IsFiniteSet(done) /\ Cardinality(done) = Len(t) /\ done \subseteq S
  BY OnceCard
<1>2. S \ done # {}
  <2>1. done # S
    <3> HIDE DEF done
    <3> QED BY <1>1
  <2> QED BY <1>1, <2>1
<1>3. free # {}
  <2> HIDE DEF done
  <2> QED BY <1>2, SomethingFree
<1>4. x \in free
  <2>1. free \in SUBSET Issues
    BY DEF Free
  <2> HIDE DEF free
  <2> QED BY <1>3, <2>1, FirstIn
<1>5. x \in S /\ x \notin done /\ Internal(S, x) \subseteq done
  BY <1>4 DEF Free
<1> HIDE DEF x
<1>6. /\ u \in Seq(S) /\ Len(u) = Len(t) + 1 /\ u[Len(t) + 1] = x
      /\ \A a \in 1 .. Len(t) : u[a] = t[a]
      /\ DOMAIN u = 1 .. (Len(t) + 1) /\ DOMAIN t = 1 .. Len(t) /\ Len(t) \in Nat
  BY <1>5
<1>7. \A a \in 1 .. Len(t) : t[a] \in done
  BY DEF Range
<1> HIDE DEF u
<1>8. Once(u)
  <2> SUFFICES ASSUME NEW a \in DOMAIN u, NEW b \in DOMAIN u, u[a] = u[b] PROVE a = b
    BY DEF Once
  <2>1. CASE a \in 1 .. Len(t) /\ b \in 1 .. Len(t)
    BY <1>6, <2>1 DEF Once
  <2>2. CASE a \notin 1 .. Len(t) /\ b \notin 1 .. Len(t)
    BY <1>6, <2>2
  <2>3. CASE a \in 1 .. Len(t) /\ b \notin 1 .. Len(t)
    <3>1. b = Len(t) + 1
      BY <1>6, <2>3
    <3>2. u[a] = t[a] /\ t[a] \in done /\ u[b] = x
      BY <1>6, <1>7, <2>3, <3>1
    <3> QED BY <1>5, <3>2
  <2>4. CASE a \notin 1 .. Len(t) /\ b \in 1 .. Len(t)
    <3>1. a = Len(t) + 1
      BY <1>6, <2>4
    <3>2. u[b] = t[b] /\ t[b] \in done /\ u[a] = x
      BY <1>6, <1>7, <2>4, <3>1
    <3> QED BY <1>5, <3>2
  <2> QED BY <2>1, <2>2, <2>3, <2>4
<1>9. DepsFirst(S, u)
  <2> SUFFICES ASSUME NEW a \in DOMAIN u, NEW d \in Internal(S, u[a])
               PROVE \E b \in 1 .. (a - 1) : u[b] = d
    BY DEF DepsFirst
  <2>1. CASE a \in 1 .. Len(t)
    <3>1. u[a] = t[a] /\ a \in DOMAIN t
      BY <1>6, <2>1
    <3>2. PICK b \in 1 .. (a - 1) : t[b] = d
      BY <3>1 DEF DepsFirst
    <3>3. b \in 1 .. Len(t)
      BY <1>6, <2>1
    <3> QED BY <1>6, <3>2, <3>3
  <2>2. CASE a \notin 1 .. Len(t)
    <3>1. a = Len(t) + 1
      BY <1>6, <2>2
    <3>2. d \in done
      BY <1>5, <1>6, <3>1
    <3>3. PICK b \in 1 .. Len(t) : t[b] = d
      BY <3>2, <1>6 DEF Range
    <3>4. b \in 1 .. (a - 1) /\ u[b] = d
      BY <1>6, <3>1, <3>3
    <3> QED BY <3>4
  <2> QED BY <2>1, <2>2
<1> QED BY <1>3, <1>6, <1>8, <1>9 DEF u, x

\* Kahn's walk lists a scope without cycles, dependencies first.
LEMMA TopoOrdered ==
    ASSUME FactsOK, dep \in SUBSET (Issues \X Issues), DepAcyclic,
           NEW S \in SUBSET Issues, IsFiniteSet(S)
    PROVE  Ordered(S, Topo(S))
<1> DEFINE n == Cardinality(S)
<1>1. n \in Nat
  BY FS_CardinalityType
<1>2. PICK walk \in [0 .. n -> Seq(S)] :
         /\ Topo(S) = walk[n]
         /\ walk[0] = << >>
         /\ \A k \in 1 .. n :
               walk[k] = LET free == Free(S, Range(walk[k - 1]))
                         IN  IF free = {} THEN walk[k - 1] ELSE Append(walk[k - 1], First(free))
  BY TopoIs
<1> DEFINE T == {k \in 0 .. n : /\ walk[k] \in Seq(S) /\ Len(walk[k]) = k
                                /\ Once(walk[k]) /\ DepsFirst(S, walk[k])}
<1>3. 0 \in T
  <2>1. walk[0] = << >> /\ 0 \in 0 .. n
    BY <1>1, <1>2
  <2>2. << >> \in Seq(S) /\ Len(<< >>) = 0 /\ Once(<< >>) /\ DepsFirst(S, << >>)
    BY DEF Once, DepsFirst
  <2> QED BY ONLY <2>1, <2>2
<1>4. ASSUME NEW k \in 1 .. n, k - 1 \in T PROVE k \in T
  <2> DEFINE t == walk[k - 1]
             free == Free(S, Range(t))
  <2>1. t \in Seq(S) /\ Len(t) = k - 1 /\ Once(t) /\ DepsFirst(S, t) /\ k - 1 < n
    BY <1>1, <1>4
  <2>2. walk[k] = IF free = {} THEN t ELSE Append(t, First(free))
    BY <1>2
  <2>3. LET u == Append(t, First(free))
        IN  free # {} /\ u \in Seq(S) /\ Len(u) = Len(t) + 1 /\ Once(u) /\ DepsFirst(S, u)
    <3> HIDE DEF t
    <3> QED BY <2>1, WalkStep
  <2>4. walk[k] \in Seq(S) /\ Len(walk[k]) = k /\ Once(walk[k]) /\ DepsFirst(S, walk[k])
    <3>1. walk[k] = Append(t, First(free))
      BY <2>2, <2>3
    <3>2. Len(t) + 1 = k
      BY <1>1, <2>1
    <3> HIDE DEF t, free
    <3> QED BY <2>3, <3>1, <3>2
  <2> QED BY <1>1, <2>4
<1>5. n \in T
  <2>1. n \in 0 .. n
    BY <1>1
  <2> HIDE DEF T, n
  <2> QED BY <1>1, <1>3, <1>4, <2>1, Climbs
<1> DEFINE t == Topo(S)
<1>6. t \in Seq(S) /\ Len(t) = n /\ Once(t) /\ DepsFirst(S, t)
  BY <1>2, <1>5
<1>7. Range(t) = S
  <2> HIDE DEF t
  <2>1. IsFiniteSet(Range(t)) /\ Cardinality(Range(t)) = n /\ Range(t) \subseteq S
    BY <1>6, OnceCard
  <2> QED BY <2>1, FS_Subset
<1>8. \A i \in S : \E a \in DOMAIN t : t[a] = i
  BY <1>7 DEF Range
<1> QED BY <1>6, <1>8 DEF Ordered

\* In a list of S with dependencies first an edge goes back to an earlier position.
LEMMA EdgesGoBack ==
    ASSUME NEW S, NEW t, Ordered(S, t), NEW a \in DOMAIN t, NEW d \in Internal(S, t[a])
    PROVE  \E b \in DOMAIN t : t[b] = d /\ b < a
<1>1. t \in Seq(S) /\ DepsFirst(S, t)
  BY DEF Ordered
<1>2. PICK b \in 1 .. (a - 1) : t[b] = d
  BY <1>1 DEF DepsFirst
<1>3. Len(t) \in Nat /\ DOMAIN t = 1 .. Len(t) /\ a \in 1 .. Len(t)
  BY <1>1
<1>4. b \in DOMAIN t /\ b < a
  BY <1>2, <1>3
<1> QED BY <1>2, <1>4

\* What the charts are drawn of: finitely many issues, without a cycle, with durations.
Charted(S, D) ==
    /\ FactsOK /\ dep \in SUBSET (Issues \X Issues) /\ DepAcyclic
    /\ S \in SUBSET Issues /\ IsFiniteSet(S)
    /\ D \in [S -> Nat \ {0}]

\* w is what a recursion with these steps builds, as far as its values are in V.
Unrolls(w, n, V, v, step) ==
    /\ w = [k \in 0 .. n |-> w[k]] /\ w[0] = v
    /\ \A k \in 1 .. n : w[k - 1] \in V => w[k] = step[k][w[k - 1]]

LEMMA UnrollsFollows ==
    ASSUME NEW n \in Nat, NEW V, NEW v \in V, NEW step, Maps(step, n, V),
           NEW w, Unrolls(w, n, V, v, step)
    PROVE  Follows(w, n, V, v, step)
<1> DEFINE T == {k \in 0 .. n : w[k] \in V}
<1>0. step \in [1 .. n -> [V -> V]]
  BY DEF Maps
<1>1. /\ w = [k \in 0 .. n |-> w[k]] /\ w[0] = v
      /\ \A k \in 1 .. n : w[k - 1] \in V => w[k] = step[k][w[k - 1]]
  BY DEF Unrolls
<1>2. 0 \in T
  BY <1>1
<1>3. ASSUME NEW k \in 1 .. n, k - 1 \in T PROVE k \in T
  <2>1. w[k - 1] \in V /\ step[k] \in [V -> V] /\ k \in 0 .. n
    BY <1>0, <1>3
  <2>2. w[k] = step[k][w[k - 1]]
    BY <1>1, <2>1
  <2> QED BY <2>1, <2>2
<1>4. \A k \in 0 .. n : k \in T
  <2> HIDE DEF T
  <2> QED BY <1>2, <1>3, Climbs
<1>5. \A k \in 0 .. n : w[k] \in V
  BY <1>4
<1>6. w \in [0 .. n -> V]
  BY <1>1, <1>5
<1>7. \A k \in 1 .. n : w[k] = step[k][w[k - 1]]
  <2> TAKE k \in 1 .. n
  <2>1. k - 1 \in 0 .. n
    OBVIOUS
  <2>2. w[k - 1] \in V
    BY <1>5, <2>1
  <2> QED BY <1>1, <2>2
<1> QED BY <1>1, <1>6, <1>7 DEF Follows

----------------------------------------------------------------------------
(* The forward pass *)

\* The dependencies of a node are a finite part of the scope.
LEMMA InternalFinite ==
    ASSUME NEW S, IsFiniteSet(S), NEW i
    PROVE  Internal(S, i) \subseteq S /\ IsFiniteSet(Internal(S, i))
<1>1. Internal(S, i) \subseteq S
  BY DEF Internal
<1> QED BY <1>1, FS_Subset

\* The forward pass as a function of its steps.
Forward(S, D, t, pass) ==
    /\ pass \in [0 .. Len(t) -> [S -> Nat]]
    /\ Finishes(S, D) = pass[Len(t)]
    /\ \A k \in 1 .. Len(t) :
          pass[k] = [pass[k - 1] EXCEPT ![t[k]] =
                       Top(pass[k - 1], Internal(S, t[k])) + D[t[k]]]

LEMMA PassIs ==
    ASSUME NEW S, NEW D, Charted(S, D)
    PROVE  \E pass : Forward(S, D, Topo(S), pass)
<1>0. /\ FactsOK /\ dep \in SUBSET (Issues \X Issues) /\ DepAcyclic
      /\ S \in SUBSET Issues /\ IsFiniteSet(S)
      /\ D \in [S -> Nat \ {0}]
  BY DEF Charted
<1> DEFINE t == Topo(S)
           n == Len(t)
           V == [S -> Nat]
           v == [i \in S |-> 0]
           On(g, k) == [g EXCEPT ![t[k]] = Top(g, Internal(S, t[k])) + D[t[k]]]
           Builds(w) == w = [k \in 0 .. n |-> IF k = 0 THEN v ELSE On(w[k - 1], k)]
           step == [k \in 1 .. n |-> [g \in V |-> On(g, k)]]
<1>1. t \in Seq(S) /\ n \in Nat
  <2>1. t \in Seq(S)
    BY <1>0, TopoOrdered DEF Ordered
  <2> HIDE DEF t
  <2> QED BY <2>1
<1>2. Finishes(S, D) = (CHOOSE u : Builds(u))[n]
  BY DEF Finishes, FinishesAlong
<1> HIDE DEF t
<1>3. \A k \in 1 .. n : \A g \in V : On(g, k) \in V
  <2> TAKE k \in 1 .. n
  <2> TAKE g \in V
  <2>1. t[k] \in S
    BY <1>1
  <2>2. Internal(S, t[k]) \subseteq S /\ IsFiniteSet(Internal(S, t[k]))
    BY <1>0, InternalFinite
  <2>3. \A x \in Internal(S, t[k]) : g[x] \in Nat
    BY <2>2
  <2>4. Top(g, Internal(S, t[k])) \in Nat
    BY <2>2, <2>3, TopIs
  <2>5. Top(g, Internal(S, t[k])) + D[t[k]] \in Nat
    BY <1>0, <2>1, <2>4
  <2> QED BY <2>5
<1>4. v \in V
  OBVIOUS
<1> HIDE DEF On, n, V, v
<1>5. Maps(step, n, V)
  BY <1>3 DEF Maps
<1>6. PICK w : Follows(w, n, V, v, step)
  <2> HIDE DEF step
  <2> QED BY <1>1, <1>4, <1>5, Recurs DEF n
<1>7. Builds(w)
  <2>1. w \in [0 .. n -> V] /\ w[0] = v /\ \A k \in 1 .. n : w[k] = step[k][w[k - 1]]
    BY <1>6 DEF Follows
  <2>2. n \in Nat
    BY <1>1 DEF n
  <2>3. \A k \in 1 .. n : w[k] = On(w[k - 1], k)
    <3> TAKE k \in 1 .. n
    <3>1. k - 1 \in 0 .. n
      BY <2>2
    <3>2. w[k - 1] \in V
      BY <2>1, <3>1
    <3> QED BY <2>1, <3>2
  <2>4. \A k \in 0 .. n : w[k] = IF k = 0 THEN v ELSE On(w[k - 1], k)
    BY <2>1, <2>2, <2>3
  <2> QED BY <2>1, <2>4
<1> DEFINE pass == CHOOSE u : Builds(u)
<1>8. Builds(pass)
  <2> HIDE DEF Builds
  <2> QED BY <1>7
<1> HIDE DEF pass
<1>9. n \in Nat /\ \A k \in 1 .. n : pass[k] = On(pass[k - 1], k)
  BY <1>1, <1>8 DEF n
<1>10. Unrolls(pass, n, V, v, step)
  <2>1. pass[0] = v /\ pass = [k \in 0 .. n |-> pass[k]]
    BY <1>8, <1>9
  <2>2. ASSUME NEW k \in 1 .. n, pass[k - 1] \in V PROVE pass[k] = step[k][pass[k - 1]]
    BY <1>9, <2>2
  <2> HIDE DEF step
  <2> QED BY <2>1, <2>2 DEF Unrolls
<1>11. Follows(pass, n, V, v, step)
  <2> HIDE DEF step
  <2> QED BY <1>4, <1>5, <1>9, <1>10, UnrollsFollows
<1>12. pass \in [0 .. n -> V]
  BY <1>11 DEF Follows
<1>13. Forward(S, D, Topo(S), pass)
  BY <1>2, <1>9, <1>12 DEF Forward, pass, On, n, V, t
<1> QED BY <1>13

\* A node finishes its own duration after the last of its dependencies.
LEMMA FinishesIs ==
    ASSUME NEW S, NEW D, Charted(S, D)
    PROVE  /\ Finishes(S, D) \in [S -> Nat]
           /\ \A i \in S : Finishes(S, D)[i] = Top(Finishes(S, D), Internal(S, i)) + D[i]
<1>0. /\ FactsOK /\ dep \in SUBSET (Issues \X Issues) /\ DepAcyclic
      /\ S \in SUBSET Issues /\ IsFiniteSet(S)
      /\ D \in [S -> Nat \ {0}]
  BY DEF Charted
<1> DEFINE t == Topo(S)
           n == Len(t)
<1>1. Ordered(S, t)
  BY <1>0, TopoOrdered
<1>p. PICK pass : Forward(S, D, t, pass)
  BY PassIs
<1> HIDE DEF t
<1>2. /\ pass \in [0 .. n -> [S -> Nat]]
      /\ Finishes(S, D) = pass[n]
      /\ \A k \in 1 .. n :
            pass[k] = [pass[k - 1] EXCEPT ![t[k]] =
                         Top(pass[k - 1], Internal(S, t[k])) + D[t[k]]]
  BY <1>p DEF Forward
<1>3. t \in Seq(S) /\ Once(t) /\ n \in Nat /\ DOMAIN t = 1 .. n /\ \A k \in 1 .. n : t[k] \in S
  BY <1>1 DEF Ordered
<1> HIDE DEF n
<1> DEFINE Final(k, a) == pass[k][t[a]] = Top(pass[k], Internal(S, t[a])) + D[t[a]]
           T == {k \in 0 .. n : \A a \in 1 .. k : Final(k, a)}
<1>4. 0 \in T
  BY <1>3
<1>5. ASSUME NEW k \in 1 .. n, k - 1 \in T PROVE k \in T
  <2> DEFINE g == pass[k - 1]
             h == pass[k]
             m == Top(g, Internal(S, t[k])) + D[t[k]]
  <2>1. g \in [S -> Nat] /\ h = [g EXCEPT ![t[k]] = m] /\ t[k] \in S
    <3>1. k - 1 \in 0 .. n /\ k \in DOMAIN t
      BY <1>3
    <3> QED BY <1>2, <1>3, <3>1
  <2> HIDE DEF g, h, m
  <2>2. h[t[k]] = m /\ \A i \in S : i # t[k] => h[i] = g[i]
    BY <2>1
  <2>3. ASSUME NEW a \in 1 .. k PROVE Top(h, Internal(S, t[a])) = Top(g, Internal(S, t[a]))
    <3>1. ASSUME NEW d \in Internal(S, t[a]) PROVE h[d] = g[d]
      <4>1. a \in DOMAIN t
        BY <1>3
      <4>2. PICK b \in DOMAIN t : t[b] = d /\ b < a
        BY <1>1, <4>1, EdgesGoBack
      <4>3. b # k /\ k \in DOMAIN t /\ d \in S
        BY <1>3, <4>2
      <4>4. d # t[k]
        BY <1>3, <4>2, <4>3 DEF Once
      <4> QED BY <2>2, <4>3, <4>4
    <3> QED BY <3>1, TopOf
  <2>4. ASSUME NEW a \in 1 .. k PROVE h[t[a]] = Top(h, Internal(S, t[a])) + D[t[a]]
    <3>1. CASE a = k
      BY <2>2, <2>3, <3>1 DEF m
    <3>2. CASE a # k
      <4>1. a \in 1 .. (k - 1) /\ a \in DOMAIN t /\ k \in DOMAIN t /\ t[a] \in S
        BY <1>3, <3>2
      <4>2. t[a] # t[k]
        BY <1>3, <3>2, <4>1 DEF Once
      <4>3. g[t[a]] = Top(g, Internal(S, t[a])) + D[t[a]]
        BY <1>5, <4>1 DEF g
      <4> QED BY <2>2, <2>3, <4>1, <4>2, <4>3
    <3> QED BY <3>1, <3>2
  <2> QED BY <1>3, <2>4 DEF h
<1>6. n \in T
  <2>1. n \in 0 .. n
    BY <1>3
  <2> HIDE DEF T
  <2> QED BY <1>3, <1>4, <1>5, <2>1, Climbs
<1>7. pass[n] \in [S -> Nat]
  BY <1>2, <1>3
<1>8. ASSUME NEW i \in S PROVE pass[n][i] = Top(pass[n], Internal(S, i)) + D[i]
  <2>1. PICK a \in DOMAIN t : t[a] = i
    BY <1>1 DEF Ordered
  <2>2. Final(n, a)
    BY <1>3, <1>6, <2>1
  <2> QED BY <2>1, <2>2
<1> QED BY <1>2, <1>7, <1>8

\* Every node takes its duration, after each of its dependencies.
LEMMA FinishesAfter ==
    ASSUME NEW S, NEW D, Charted(S, D), NEW i \in S
    PROVE  LET f == Finishes(S, D) IN
           /\ f[i] \in Nat /\ D[i] \in Nat \ {0} /\ D[i] <= f[i]
           /\ \A d \in Internal(S, i) : d \in S /\ f[d] \in Nat /\ f[d] + D[i] <= f[i]
           /\ Internal(S, i) = {} => f[i] = D[i]
           /\ Internal(S, i) # {} => \E d \in Internal(S, i) : f[i] = f[d] + D[i]
<1> DEFINE f == Finishes(S, D)
           B == Internal(S, i)
<1>1. f \in [S -> Nat] /\ f[i] = Top(f, B) + D[i]
  BY FinishesIs
<1>2. D[i] \in Nat \ {0} /\ IsFiniteSet(S)
  BY DEF Charted
<1>3. B \subseteq S /\ IsFiniteSet(B)
  BY <1>2, InternalFinite
<1> HIDE DEF f, B
<1>4. \A x \in B : f[x] \in Nat
  BY <1>1, <1>3
<1>5. /\ Top(f, B) \in Nat
      /\ \A x \in B : f[x] <= Top(f, B)
      /\ B = {} => Top(f, B) = 0
      /\ B # {} => \E x \in B : Top(f, B) = f[x]
  BY <1>3, <1>4, TopIs
<1>6. f[i] \in Nat /\ D[i] <= f[i]
  BY <1>1, <1>2, <1>5
<1>7. \A d \in B : d \in S /\ f[d] \in Nat /\ f[d] + D[i] <= f[i]
  <2> TAKE d \in B
  <2>1. f[d] \in Nat /\ f[d] <= Top(f, B) /\ d \in S
    BY <1>3, <1>4, <1>5
  <2> QED BY <1>1, <1>2, <1>5, <2>1
<1>8. B = {} => f[i] = D[i]
  BY <1>1, <1>2, <1>5
<1>9. B # {} => \E d \in B : f[i] = f[d] + D[i]
  BY <1>1, <1>5
<1> QED BY <1>2, <1>6, <1>7, <1>8, <1>9 DEF f, B

\* The makespan is the last finish.
LEMMA TotalIs ==
    ASSUME NEW S, NEW D, Charted(S, D)
    PROVE  /\ Total(S, D) \in Nat
           /\ \A i \in S : Finishes(S, D)[i] <= Total(S, D)
           /\ S # {} => \E i \in S : Finishes(S, D)[i] = Total(S, D)
<1> DEFINE f == Finishes(S, D)
<1>1. IsFiniteSet(S) /\ f \in [S -> Nat]
  BY FinishesIs DEF Charted
<1>2. Total(S, D) = Top(f, S)
  BY DEF Total
<1> HIDE DEF f
<1>3. \A x \in S : f[x] \in Nat
  BY <1>1
<1>4. /\ Top(f, S) \in Nat
      /\ \A x \in S : f[x] <= Top(f, S)
      /\ S # {} => \E x \in S : Top(f, S) = f[x]
  BY <1>1, <1>3, TopIs
<1> QED BY <1>2, <1>4 DEF f

----------------------------------------------------------------------------
(* The backward pass *)

\* The backward pass as a function of its steps.
Back(S, D, g, i) ==
    [p \in S |-> IF p \in Internal(S, i) THEN Lesser(g[p], g[i] - D[i]) ELSE g[p]]

Backward(S, D, t, pass) ==
    /\ pass \in [0 .. Len(t) -> [S -> Int]]
    /\ LatestFinishes(S, D) = pass[Len(t)]
    /\ pass[0] = [i \in S |-> Total(S, D)]
    /\ \A k \in 1 .. Len(t) : pass[k] = Back(S, D, pass[k - 1], t[Len(t) + 1 - k])

LEMMA BackIs ==
    ASSUME NEW S, NEW D, Charted(S, D)
    PROVE  \E pass : Backward(S, D, Topo(S), pass)
<1>0. /\ FactsOK /\ dep \in SUBSET (Issues \X Issues) /\ DepAcyclic
      /\ S \in SUBSET Issues /\ IsFiniteSet(S)
      /\ D \in [S -> Nat \ {0}]
  BY DEF Charted
<1> DEFINE t == Topo(S)
           n == Len(t)
           V == [S -> Int]
           v == [i \in S |-> Total(S, D)]
           On(g, k) == LET i == t[n + 1 - k]
                       IN  [p \in S |-> IF p \in Internal(S, i) THEN Lesser(g[p], g[i] - D[i])
                                        ELSE g[p]]
           Builds(w) == w = [k \in 0 .. n |-> IF k = 0 THEN v ELSE On(w[k - 1], k)]
           step == [k \in 1 .. n |-> [g \in V |-> On(g, k)]]
<1>1. t \in Seq(S) /\ n \in Nat
  <2>1. t \in Seq(S)
    BY <1>0, TopoOrdered DEF Ordered
  <2> HIDE DEF t
  <2> QED BY <2>1
<1>2. LatestFinishes(S, D) = (CHOOSE u : Builds(u))[n]
  BY DEF LatestFinishes, LatestAlong
<1> HIDE DEF t
<1>3. \A k \in 1 .. n : \A g \in V : On(g, k) \in V
  <2> TAKE k \in 1 .. n
  <2> TAKE g \in V
  <2> DEFINE i == t[n + 1 - k]
  <2>1. n + 1 - k \in 1 .. n
    BY <1>1
  <2>2. i \in S
    BY <1>1, <2>1
  <2> HIDE DEF i
  <2>3. g[i] - D[i] \in Int
    BY <1>0, <2>2
  <2>4. \A p \in S : (IF p \in Internal(S, i) THEN Lesser(g[p], g[i] - D[i]) ELSE g[p]) \in Int
    BY <2>3 DEF Lesser
  <2> QED BY <2>4 DEF i
<1>4. v \in V
  BY TotalIs
<1> HIDE DEF On, n, V, v
<1>5. Maps(step, n, V)
  BY <1>3 DEF Maps
<1>6. PICK w : Follows(w, n, V, v, step)
  <2> HIDE DEF step
  <2> QED BY <1>1, <1>4, <1>5, Recurs DEF n
<1>7. Builds(w)
  <2>1. w \in [0 .. n -> V] /\ w[0] = v /\ \A k \in 1 .. n : w[k] = step[k][w[k - 1]]
    BY <1>6 DEF Follows
  <2>2. n \in Nat
    BY <1>1 DEF n
  <2>3. \A k \in 1 .. n : w[k] = On(w[k - 1], k)
    <3> TAKE k \in 1 .. n
    <3>1. k - 1 \in 0 .. n
      BY <2>2
    <3>2. w[k - 1] \in V
      BY <2>1, <3>1
    <3> QED BY <2>1, <3>2
  <2>4. \A k \in 0 .. n : w[k] = IF k = 0 THEN v ELSE On(w[k - 1], k)
    BY <2>1, <2>2, <2>3
  <2> QED BY <2>1, <2>4
<1> DEFINE pass == CHOOSE u : Builds(u)
<1>8. Builds(pass)
  <2> HIDE DEF Builds
  <2> QED BY <1>7
<1> HIDE DEF pass
<1>9. n \in Nat /\ pass[0] = v /\ \A k \in 1 .. n : pass[k] = On(pass[k - 1], k)
  BY <1>1, <1>8 DEF n
<1>10. Unrolls(pass, n, V, v, step)
  <2>1. pass[0] = v /\ pass = [k \in 0 .. n |-> pass[k]]
    BY <1>8, <1>9
  <2>2. ASSUME NEW k \in 1 .. n, pass[k - 1] \in V PROVE pass[k] = step[k][pass[k - 1]]
    BY <1>9, <2>2
  <2> HIDE DEF step
  <2> QED BY <2>1, <2>2 DEF Unrolls
<1>11. Follows(pass, n, V, v, step)
  <2> HIDE DEF step
  <2> QED BY <1>4, <1>5, <1>9, <1>10, UnrollsFollows
<1>12. pass \in [0 .. n -> V]
  BY <1>11 DEF Follows
<1>13. Backward(S, D, Topo(S), pass)
  BY <1>2, <1>9, <1>12 DEF Backward, Back, pass, On, n, V, v, t
<1> QED BY <1>13

\* The value of a node is final when its turn comes: the backward pass so far.
Tightened(S, D, t, k, g) ==
    /\ \A p \in S : g[p] <= Total(S, D)
    /\ \A m \in DOMAIN t : Len(t) < m + k =>
          \A p \in Internal(S, t[m]) : g[p] <= g[t[m]] - D[t[m]]
    /\ \A p \in S : \/ g[p] = Total(S, D)
                    \/ \E m \in DOMAIN t : /\ Len(t) < m + k /\ p \in Internal(S, t[m])
                                          /\ g[p] = g[t[m]] - D[t[m]]

LEMMA Tightens ==
    ASSUME NEW S, NEW D, Charted(S, D), NEW t, Ordered(S, t), NEW k \in 1 .. Len(t),
           NEW g \in [S -> Int], Tightened(S, D, t, k - 1, g)
    PROVE  Tightened(S, D, t, k, Back(S, D, g, t[Len(t) + 1 - k]))
<1> DEFINE n == Len(t)
           a == n + 1 - k
           i == t[a]
           h == Back(S, D, g, i)
<1>0. D \in [S -> Nat \ {0}]
  BY DEF Charted
<1>1. n \in Nat /\ DOMAIN t = 1 .. n /\ a \in 1 .. n /\ \A m \in 1 .. n : t[m] \in S
  BY DEF Ordered
<1>2. i \in S /\ Once(t) /\ g[i] - D[i] \in Int
  BY <1>0, <1>1 DEF Ordered
<1>3. /\ \A p \in S : g[p] <= Total(S, D)
      /\ \A m \in DOMAIN t : n < m + (k - 1) =>
            \A p \in Internal(S, t[m]) : g[p] <= g[t[m]] - D[t[m]]
      /\ \A p \in S : \/ g[p] = Total(S, D)
                      \/ \E m \in DOMAIN t : /\ n < m + (k - 1) /\ p \in Internal(S, t[m])
                                            /\ g[p] = g[t[m]] - D[t[m]]
  BY DEF Tightened
<1>4. /\ \A p \in S \ Internal(S, i) : h[p] = g[p]
      /\ \A p \in S \cap Internal(S, i) : h[p] = Lesser(g[p], g[i] - D[i])
  BY DEF Back
<1>5. Internal(S, i) \subseteq S /\ Total(S, D) \in Int
  BY TotalIs DEF Internal
<1>i. \A m \in DOMAIN t : Internal(S, t[m]) \subseteq S
  BY DEF Internal
<1> HIDE DEF h
<1>6. \A p \in S : h[p] \in Int /\ h[p] <= g[p] /\ (h[p] = g[p] \/ h[p] = g[i] - D[i])
  <2> TAKE p \in S
  <2>1. g[p] \in Int
    OBVIOUS
  <2> QED BY <1>2, <1>4, <2>1 DEF Lesser
<1>7. ASSUME NEW m \in DOMAIN t, n < m + k PROVE h[t[m]] = g[t[m]]
  <2>1. ASSUME t[m] \in Internal(S, i) PROVE FALSE
    <3>0. a \in DOMAIN t /\ t[m] \in Internal(S, t[a])
      BY <1>1, <2>1
    <3> HIDE DEF a
    <3>1. PICK b \in DOMAIN t : t[b] = t[m] /\ b < a
      BY <3>0, EdgesGoBack
    <3>2. b = m
      BY <1>2, <3>1 DEF Once
    <3> USE DEF a
    <3> QED BY <1>1, <1>7, <3>1, <3>2
  <2> QED BY <1>1, <1>4, <2>1
<1>8. a \in DOMAIN t /\ n < a + k
  BY <1>1
<1>9. ASSUME NEW p \in S PROVE h[p] <= Total(S, D)
  <2>1. h[p] \in Int /\ g[p] \in Int /\ h[p] <= g[p] /\ g[p] <= Total(S, D)
    BY <1>3, <1>6
  <2> QED BY <1>5, <2>1
<1>10. ASSUME NEW m \in DOMAIN t, n < m + k, NEW p \in Internal(S, t[m])
       PROVE h[p] <= h[t[m]] - D[t[m]]
  <2>1. h[t[m]] = g[t[m]] /\ t[m] \in S /\ p \in S
    BY <1>1, <1>7, <1>10, <1>i
  <2>2. h[p] \in Int /\ g[p] \in Int /\ h[p] <= g[p] /\ g[t[m]] - D[t[m]] \in Int
    BY <1>0, <1>6, <2>1
  <2>3. CASE m = a
    BY <1>2, <1>4, <2>1, <2>2, <2>3 DEF Lesser
  <2>4. CASE m # a
    <3>1. n < m + (k - 1)
      BY <1>1, <1>10, <2>4
    <3>2. g[p] <= g[t[m]] - D[t[m]]
      BY <1>3, <3>1
    <3> QED BY <2>1, <2>2, <3>2
  <2> QED BY <2>3, <2>4
<1>11. ASSUME NEW p \in S
       PROVE \/ h[p] = Total(S, D)
             \/ \E m \in DOMAIN t : /\ n < m + k /\ p \in Internal(S, t[m])
                                   /\ h[p] = h[t[m]] - D[t[m]]
  <2>1. CASE h[p] = g[p] /\ g[p] = Total(S, D)
    BY <2>1
  <2>2. CASE h[p] = g[p] /\ g[p] # Total(S, D)
    <3>1. PICK m \in DOMAIN t : /\ n < m + (k - 1) /\ p \in Internal(S, t[m])
                                /\ g[p] = g[t[m]] - D[t[m]]
      BY <1>3, <2>2
    <3>0. n < m + k
      BY <1>1, <3>1
    <3>2. h[p] = h[t[m]] - D[t[m]]
      <4>1. t[m] \in S /\ h[t[m]] <= g[t[m]] /\ h[t[m]] \in Int /\ g[t[m]] \in Int
            /\ D[t[m]] \in Int
        BY <1>0, <1>1, <1>6
      <4> QED BY <1>7, <2>2, <3>0, <3>1, <4>1
    <3> QED BY <3>0, <3>1, <3>2
  <2>3. CASE h[p] # g[p]
    <3>1. p \in Internal(S, i) /\ h[p] = g[i] - D[i]
      BY <1>4, <1>6, <2>3
    <3>2. h[i] = g[i]
      BY <1>7, <1>8
    <3> QED BY <1>8, <3>1, <3>2
  <2> QED BY <2>1, <2>2, <2>3
<1> QED BY <1>9, <1>10, <1>11 DEF Tightened, h

\* What holds of a node when it holds of its dependencies holds of every node.
LEMMA FromDeps ==
    ASSUME NEW S, NEW D, Charted(S, D), NEW T,
           \A i \in S : (\A d \in Internal(S, i) : d \in T) => i \in T
    PROVE  \A i \in S : i \in T
<1> DEFINE t == Topo(S)
           n == Len(t)
           U == {k \in 0 .. n : \A a \in 1 .. k : t[a] \in T}
<1>1. Ordered(S, t)
  BY TopoOrdered DEF Charted
<1> HIDE DEF t
<1>2. n \in Nat /\ DOMAIN t = 1 .. n /\ \A a \in 1 .. n : t[a] \in S
  BY <1>1 DEF Ordered
<1> HIDE DEF n
<1>3. 0 \in U
  BY <1>2
<1>4. ASSUME NEW k \in 1 .. n, k - 1 \in U PROVE k \in U
  <2>1. \A a \in 1 .. (k - 1) : t[a] \in T
    BY <1>4
  <2>2. ASSUME NEW d \in Internal(S, t[k]) PROVE d \in T
    <3>1. k \in DOMAIN t
      BY <1>2
    <3>2. PICK b \in DOMAIN t : t[b] = d /\ b < k
      BY <1>1, <3>1, EdgesGoBack
    <3>3. b \in 1 .. (k - 1)
      BY <1>2, <3>2
    <3> QED BY <2>1, <3>2, <3>3
  <2>3. t[k] \in T
    BY <1>2, <2>2
  <2>4. \A a \in 1 .. k : a = k \/ a \in 1 .. (k - 1)
    BY <1>2
  <2>5. \A a \in 1 .. k : t[a] \in T
    BY <2>1, <2>3, <2>4
  <2> QED BY <1>2, <2>5
<1>5. n \in U
  <2>1. n \in 0 .. n
    BY <1>2
  <2> HIDE DEF U
  <2> QED BY <1>2, <1>3, <1>4, <2>1, Climbs
<1>6. \A i \in S : \E a \in 1 .. n : t[a] = i
  BY <1>1, <1>2 DEF Ordered
<1> QED BY <1>5, <1>6

\* What holds of a node when it holds of those that depend on it holds of every node.
LEMMA FromDependents ==
    ASSUME NEW S, NEW D, Charted(S, D), NEW T,
           \A i \in S : (\A u \in S : i \in Internal(S, u) => u \in T) => i \in T
    PROVE  \A i \in S : i \in T
<1> DEFINE t == Topo(S)
           n == Len(t)
           U == {k \in 1 .. n : t[k] \in T}
<1>1. Ordered(S, t)
  BY TopoOrdered DEF Charted
<1> HIDE DEF t
<1>2. n \in Nat /\ DOMAIN t = 1 .. n /\ \A a \in 1 .. n : t[a] \in S
  BY <1>1 DEF Ordered
<1>o. Once(t) /\ \A i \in S : \E a \in 1 .. n : t[a] = i
  BY <1>1, <1>2 DEF Ordered
<1> HIDE DEF n
<1>3. ASSUME NEW k \in 1 .. n, \A m \in 1 .. n : k < m => m \in U PROVE k \in U
  <2>1. ASSUME NEW u \in S, t[k] \in Internal(S, u) PROVE u \in T
    <3>1. PICK m \in 1 .. n : t[m] = u
      BY <1>o
    <3>2. m \in DOMAIN t /\ k \in DOMAIN t /\ t[k] \in Internal(S, t[m])
      BY <1>2, <2>1, <3>1
    <3>3. PICK b \in DOMAIN t : t[b] = t[k] /\ b < m
      BY <1>1, <3>2, EdgesGoBack
    <3>4. b = k
      BY <1>o, <3>2, <3>3 DEF Once
    <3>5. m \in U
      BY <1>3, <3>3, <3>4
    <3> QED BY <3>1, <3>5
  <2>2. t[k] \in S
    BY <1>2
  <2>3. t[k] \in T
    BY <2>1, <2>2
  <2> QED BY <2>3
<1>4. \A k \in 1 .. n : k \in U
  <2> HIDE DEF U
  <2> QED BY <1>2, <1>3, Falls
<1>5. ASSUME NEW i \in S PROVE i \in T
  <2>1. PICK a \in 1 .. n : t[a] = i
    BY <1>o
  <2>2. a \in U
    BY <1>4
  <2> QED BY <2>1, <2>2
<1> QED BY <1>5

\* A node may finish as late as the makespan, or as the tightest of those that depend on
\* it lets it; never before it does.
LEMMA LatestIs ==
    ASSUME NEW S, NEW D, Charted(S, D)
    PROVE  LET l == LatestFinishes(S, D) IN
           /\ l \in [S -> Int]
           /\ \A p \in S : l[p] <= Total(S, D)
           /\ \A u \in S : \A p \in Internal(S, u) : l[p] <= l[u] - D[u]
           /\ \A p \in S : \/ l[p] = Total(S, D)
                           \/ \E u \in S : p \in Internal(S, u) /\ l[p] = l[u] - D[u]
           /\ \A p \in S : Finishes(S, D)[p] <= l[p]
<1> DEFINE t == Topo(S)
           n == Len(t)
           l == LatestFinishes(S, D)
           f == Finishes(S, D)
<1>0. Ordered(S, t)
  BY TopoOrdered DEF Charted
<1>1. PICK pass : Backward(S, D, t, pass)
  BY BackIs
<1> HIDE DEF t
<1>2. /\ pass \in [0 .. n -> [S -> Int]] /\ l = pass[n]
      /\ pass[0] = [i \in S |-> Total(S, D)]
      /\ \A k \in 1 .. n : pass[k] = Back(S, D, pass[k - 1], t[n + 1 - k])
  BY <1>1 DEF Backward
<1>3. n \in Nat /\ DOMAIN t = 1 .. n /\ \A a \in 1 .. n : t[a] \in S
  BY <1>0 DEF Ordered
<1> DEFINE T == {k \in 0 .. n : Tightened(S, D, t, k, pass[k])}
<1>4. 0 \in T
  <2>1. /\ \A p \in S : pass[0][p] = Total(S, D)
        /\ \A m \in DOMAIN t : ~(n < m + 0)
    BY <1>2, <1>3
  <2>2. Total(S, D) \in Int
    BY TotalIs
  <2>3. Tightened(S, D, t, 0, pass[0])
    BY <2>1, <2>2 DEF Tightened
  <2> QED BY <1>3, <2>3
<1>5. ASSUME NEW k \in 1 .. n, k - 1 \in T PROVE k \in T
  <2>1. pass[k - 1] \in [S -> Int] /\ Tightened(S, D, t, k - 1, pass[k - 1])
    BY <1>2, <1>3, <1>5
  <2>2. Tightened(S, D, t, k, Back(S, D, pass[k - 1], t[Len(t) + 1 - k]))
    BY <1>0, <2>1, Tightens
  <2>3. Tightened(S, D, t, k, pass[k])
    BY <1>2, <2>2
  <2> QED BY <1>3, <2>3
<1>6. Tightened(S, D, t, n, l) /\ l \in [S -> Int]
  <2>1. n \in 0 .. n
    BY <1>3
  <2>2. n \in T
    <3> HIDE DEF T, n
    <3> QED BY <1>3, <1>4, <1>5, <2>1, Climbs
  <2> QED BY <1>2, <2>1, <2>2
<1> HIDE DEF l
<1>7. \A p \in S : l[p] <= Total(S, D)
  BY <1>6 DEF Tightened
<1>8. ASSUME NEW u \in S, NEW p \in Internal(S, u) PROVE l[p] <= l[u] - D[u]
  <2>1. PICK m \in DOMAIN t : t[m] = u
    BY <1>0 DEF Ordered
  <2>2. n < m + n
    BY <1>3
  <2> QED BY <1>6, <2>1, <2>2 DEF Tightened
<1>9. ASSUME NEW p \in S
      PROVE  l[p] = Total(S, D) \/ \E u \in S : p \in Internal(S, u) /\ l[p] = l[u] - D[u]
  <2>1. CASE l[p] = Total(S, D)
    BY <2>1
  <2>2. CASE l[p] # Total(S, D)
    <3>1. PICK m \in DOMAIN t : p \in Internal(S, t[m]) /\ l[p] = l[t[m]] - D[t[m]]
      BY <1>6, <2>2 DEF Tightened
    <3> QED BY <1>3, <3>1
  <2> QED BY <2>1, <2>2
<1>10. \A p \in S : f[p] <= l[p]
  <2> DEFINE X == {p \in S : f[p] <= l[p]}
  <2>1. ASSUME NEW p \in S, \A u \in S : p \in Internal(S, u) => u \in X PROVE p \in X
    <3>1. CASE l[p] = Total(S, D)
      BY <3>1, TotalIs
    <3>2. CASE l[p] # Total(S, D)
      <4>1. PICK u \in S : p \in Internal(S, u) /\ l[p] = l[u] - D[u]
        BY <1>9, <3>2
      <4>2. f[u] <= l[u]
        BY <2>1, <4>1
      <4>3. f[p] \in Nat /\ f[u] \in Nat /\ D[u] \in Nat /\ f[p] + D[u] <= f[u]
        BY <4>1, FinishesAfter
      <4>4. l[u] \in Int /\ l[p] \in Int
        BY <1>6
      <4> HIDE DEF f
      <4>5. f[p] <= l[p]
        BY <4>1, <4>2, <4>3, <4>4
      <4> QED BY <4>5
    <3> QED BY <3>1, <3>2
  <2>2. \A p \in S : p \in X
    <3> HIDE DEF X
    <3> QED BY <2>1, FromDependents
  <2> QED BY <2>2
<1> QED BY <1>6, <1>7, <1>8, <1>9, <1>10 DEF l, f

\* The slack of a node: what separates its finish from its latest.
LEMMA SlackIs ==
    ASSUME NEW S, NEW D, Charted(S, D), NEW i \in S
    PROVE  /\ Slack(S, D)[i] \in Nat
           /\ LatestFinishes(S, D)[i] = Finishes(S, D)[i] + Slack(S, D)[i]
           /\ DOMAIN Slack(S, D) = S
<1> DEFINE f == Finishes(S, D)
           l == LatestFinishes(S, D)
<1>1. f[i] \in Int /\ l[i] \in Int /\ f[i] <= l[i]
  BY FinishesIs, LatestIs
<1>2. Slack(S, D) = [j \in S |-> Greater(l[j] - f[j], 0)]
  BY DEF Slack
<1>3. Slack(S, D)[i] = Greater(l[i] - f[i], 0) /\ DOMAIN Slack(S, D) = S
  BY <1>2
<1> HIDE DEF f, l
<1> QED BY <1>1, <1>3 DEF Greater, f, l

\* The durations when node i takes m minutes more.
Slipped(D, E, i, m) == E = [D EXCEPT ![i] = @ + m]

\* A node that takes m minutes more finishes m minutes later, and no node earlier.
LEMMA Slips ==
    ASSUME NEW S, NEW D, Charted(S, D), NEW i \in S, NEW m \in Nat,
           NEW E, Slipped(D, E, i, m)
    PROVE  /\ Charted(S, E)
           /\ \A j \in S : Finishes(S, D)[j] <= Finishes(S, E)[j]
           /\ Finishes(S, E)[i] = Finishes(S, D)[i] + m
<1> DEFINE f == Finishes(S, D)
           g == Finishes(S, E)
           t == Topo(S)
<1>0. D \in [S -> Nat \ {0}]
  BY DEF Charted
<1>1. Charted(S, E)
  <2>1. D[i] + m \in Nat \ {0}
    BY <1>0
  <2>2. E \in [S -> Nat \ {0}]
    BY <1>0, <2>1 DEF Slipped
  <2> QED BY <2>2 DEF Charted
<1>2. E[i] = D[i] + m /\ \A j \in S : j # i => E[j] = D[j]
  BY <1>0 DEF Slipped
<1>3. \A j \in S : D[j] \in Nat /\ E[j] \in Nat /\ D[j] <= E[j]
  <2> TAKE j \in S
  <2>1. D[j] \in Nat
    BY <1>0
  <2> QED BY <1>2, <2>1
<1>4. \A j \in S : f[j] <= g[j]
  <2> DEFINE T == {j \in S : f[j] <= g[j]}
  <2>1. ASSUME NEW j \in S, \A d \in Internal(S, j) : d \in T PROVE j \in T
    <3>1. f[j] \in Nat /\ g[j] \in Nat
      BY <1>1, FinishesAfter
    <3>2. CASE Internal(S, j) = {}
      <4>1. f[j] = D[j] /\ g[j] = E[j]
        BY <1>1, <3>2, FinishesAfter
      <4> QED BY <1>3, <4>1
    <3>3. CASE Internal(S, j) # {}
      <4>1. PICK d \in Internal(S, j) : f[j] = f[d] + D[j]
        BY <3>3, FinishesAfter
      <4>2. g[d] \in Nat /\ g[d] + E[j] <= g[j]
        BY <1>1, FinishesAfter
      <4>3. f[d] \in Nat
        BY FinishesAfter
      <4>4. f[d] <= g[d]
        BY <2>1
      <4> HIDE DEF f, g
      <4>5. f[j] <= g[j]
        BY <1>3, <3>1, <4>1, <4>2, <4>3, <4>4
      <4> QED BY <4>5
    <3> QED BY <3>2, <3>3
  <2>2. \A j \in S : j \in T
    <3> HIDE DEF T
    <3> QED BY <2>1, FromDeps
  <2> QED BY <2>2
<1>5. Ordered(S, t)
  BY TopoOrdered DEF Charted
<1> HIDE DEF t
<1>6. PICK c \in DOMAIN t : t[c] = i
  BY <1>5 DEF Ordered
<1>7. Once(t) /\ DOMAIN t \subseteq Nat
  BY <1>5 DEF Ordered
<1>8. \A j \in S : \A a \in DOMAIN t : t[a] = j /\ a < c => g[j] = f[j]
  <2> DEFINE T == {j \in S : \A a \in DOMAIN t : t[a] = j /\ a < c => g[j] = f[j]}
  <2>1. ASSUME NEW j \in S, \A d \in Internal(S, j) : d \in T PROVE j \in T
    <3>1. ASSUME NEW a \in DOMAIN t, t[a] = j, a < c PROVE g[j] = f[j]
      <4>1. ASSUME NEW d \in Internal(S, j) PROVE g[d] = f[d]
        <5>1. PICK b \in DOMAIN t : t[b] = d /\ b < a
          BY <1>5, <3>1, EdgesGoBack
        <5>2. b < c
          BY <1>7, <3>1, <5>1
        <5> QED BY <2>1, <5>1, <5>2
      <4>2. Top(g, Internal(S, j)) = Top(f, Internal(S, j))
        <5> HIDE DEF f, g
        <5> QED BY <4>1, TopOf
      <4>3. f[j] = Top(f, Internal(S, j)) + D[j] /\ g[j] = Top(g, Internal(S, j)) + E[j]
        BY <1>1, FinishesIs
      <4>4. j # i
        BY <1>6, <1>7, <3>1 DEF Once
      <4> HIDE DEF f, g
      <4> QED BY <1>2, <4>2, <4>3, <4>4
    <3> QED BY <3>1
  <2>2. \A j \in S : j \in T
    <3> HIDE DEF T
    <3> QED BY <2>1, FromDeps
  <2> QED BY <2>2
<1>9. g[i] = f[i] + m
  <2>1. ASSUME NEW d \in Internal(S, i) PROVE g[d] = f[d]
    <3>1. PICK b \in DOMAIN t : t[b] = d /\ b < c
      BY <1>5, <1>6, EdgesGoBack
    <3>2. d \in S
      BY DEF Internal
    <3> QED BY <1>8, <3>1, <3>2
  <2>2. Top(g, Internal(S, i)) = Top(f, Internal(S, i))
    <3> HIDE DEF f, g
    <3> QED BY <2>1, TopOf
  <2>3. f[i] = Top(f, Internal(S, i)) + D[i] /\ g[i] = Top(g, Internal(S, i)) + E[i]
    BY <1>1, FinishesIs
  <2>4. Top(f, Internal(S, i)) \in Nat
    <3>1. f \in [S -> Nat]
      BY FinishesIs
    <3>2. Internal(S, i) \subseteq S /\ IsFiniteSet(Internal(S, i))
      BY InternalFinite DEF Charted
    <3> HIDE DEF f
    <3>3. \A x \in Internal(S, i) : f[x] \in Nat
      BY <3>1, <3>2
    <3> QED BY <3>2, <3>3, TopIs
  <2> HIDE DEF f, g
  <2> QED BY <1>2, <1>3, <2>2, <2>3, <2>4
<1> QED BY <1>1, <1>4, <1>9

\* A node may slip by its slack, and by no minute more, before the plan does.
LEMMA SlackExact ==
    ASSUME NEW S, NEW D, Charted(S, D), NEW i \in S
    PROVE  /\ Total(S, [D EXCEPT ![i] = @ + Slack(S, D)[i]]) = Total(S, D)
           /\ Total(S, [D EXCEPT ![i] = @ + (Slack(S, D)[i] + 1)]) > Total(S, D)
<1> DEFINE f == Finishes(S, D)
           l == LatestFinishes(S, D)
           m == Slack(S, D)[i]
           total == Total(S, D)
<1>0. D \in [S -> Nat \ {0}]
  BY DEF Charted
<1>1. m \in Nat /\ l[i] = f[i] + m
  BY SlackIs
<1>2. /\ l \in [S -> Int]
      /\ \A p \in S : l[p] <= total
      /\ \A u \in S : \A p \in Internal(S, u) : l[p] <= l[u] - D[u]
      /\ \A p \in S : \/ l[p] = total
                      \/ \E u \in S : p \in Internal(S, u) /\ l[p] = l[u] - D[u]
      /\ \A p \in S : f[p] <= l[p]
  BY LatestIs
<1>3. total \in Nat /\ \E p \in S : f[p] = total
  BY TotalIs
<1>4. \A p \in S : f[p] \in Nat
  BY FinishesAfter
<1> HIDE DEF m, l
<1>5. Total(S, [D EXCEPT ![i] = @ + m]) = total
  <2> DEFINE E == [D EXCEPT ![i] = @ + m]
             g == Finishes(S, E)
  <2>1. Charted(S, E) /\ g[i] = f[i] + m /\ \A j \in S : f[j] <= g[j]
    <3>1. Slipped(D, E, i, m)
      BY DEF Slipped
    <3> HIDE DEF E
    <3> QED BY <1>1, <3>1, Slips
  <2>2. \A j \in S : j # i => E[j] = D[j]
    BY <1>0
  <2> HIDE DEF E
  <2>3. \A j \in S : g[j] <= l[j]
    <3> DEFINE T == {j \in S : g[j] <= l[j]}
    <3>1. ASSUME NEW j \in S, \A d \in Internal(S, j) : d \in T PROVE j \in T
      <4>1. CASE j = i
        <5>1. g[i] = l[i] /\ l[i] \in Int
          BY <1>1, <1>2, <2>1
        <5> QED BY <4>1, <5>1
      <4>2. CASE j # i /\ Internal(S, j) = {}
        <5>1. g[j] = E[j] /\ f[j] = D[j]
          BY <2>1, <4>2, FinishesAfter
        <5>2. g[j] = f[j]
          BY <2>2, <4>2, <5>1
        <5> QED BY <1>2, <5>2
      <4>3. CASE j # i /\ Internal(S, j) # {}
        <5>1. PICK d \in Internal(S, j) : g[j] = g[d] + E[j]
          BY <2>1, <4>3, FinishesAfter
        <5>2. g[d] \in Nat /\ g[d] <= l[d] /\ d \in S
          BY <2>1, <3>1, FinishesAfter
        <5>3. l[d] <= l[j] - D[j] /\ E[j] = D[j]
          BY <1>2, <2>2, <4>3
        <5>4. D[j] \in Int /\ l[d] \in Int /\ l[j] \in Int
          BY <1>0, <1>2, <5>2
        <5> HIDE DEF g
        <5>5. g[j] <= l[j]
          BY <5>1, <5>2, <5>3, <5>4
        <5> QED BY <5>5
      <4> QED BY <4>1, <4>2, <4>3
    <3>2. \A j \in S : j \in T
      <4> HIDE DEF T
      <4> QED BY <3>1, FromDeps
    <3> QED BY <3>2
  <2>4. /\ Total(S, E) \in Nat /\ \A p \in S : g[p] <= Total(S, E)
        /\ \E p \in S : g[p] = Total(S, E)
    BY <2>1, TotalIs
  <2>5. \A p \in S : g[p] \in Nat
    BY <2>1, FinishesAfter
  <2> HIDE DEF g, f, total
  <2>6. Total(S, E) <= total
    <3>1. PICK p \in S : g[p] = Total(S, E)
      BY <2>4
    <3>2. g[p] <= l[p] /\ l[p] <= total /\ l[p] \in Int
      BY <1>2, <2>3
    <3> QED BY <1>3, <2>4, <3>1, <3>2
  <2>7. total <= Total(S, E)
    <3>1. PICK p \in S : f[p] = total
      BY <1>3
    <3>2. f[p] <= g[p] /\ g[p] <= Total(S, E) /\ g[p] \in Nat
      BY <2>1, <2>4, <2>5
    <3> QED BY <1>3, <2>4, <3>1, <3>2
  <2>8. Total(S, E) = total
    BY <1>3, <2>4, <2>6, <2>7
  <2> QED BY <2>8 DEF E
<1>6. Total(S, [D EXCEPT ![i] = @ + (m + 1)]) > total
  <2> DEFINE E == [D EXCEPT ![i] = @ + (m + 1)]
             g == Finishes(S, E)
  <2>1. Charted(S, E) /\ g[i] = f[i] + (m + 1) /\ \A j \in S : f[j] <= g[j]
    <3>1. m + 1 \in Nat
      BY <1>1
    <3>2. Slipped(D, E, i, m + 1)
      BY DEF Slipped
    <3> HIDE DEF E
    <3> QED BY <3>1, <3>2, Slips
  <2>2. \A j \in S : E[j] \in Nat /\ D[j] <= E[j] /\ D[j] \in Nat
    <3> TAKE j \in S
    <3>1. D[j] \in Nat /\ E[j] = IF j = i THEN D[i] + (m + 1) ELSE D[j]
      BY <1>0
    <3> QED BY <1>1, <3>1
  <2> HIDE DEF E
  <2>3. Total(S, E) \in Nat /\ \A p \in S : g[p] <= Total(S, E) /\ g[p] \in Nat
    BY <2>1, TotalIs, FinishesAfter
  <2>4. \A j \in S : l[j] < g[j] => total < Total(S, E)
    <3> DEFINE T == {j \in S : l[j] < g[j] => total < Total(S, E)}
    <3>1. ASSUME NEW j \in S, \A u \in S : j \in Internal(S, u) => u \in T PROVE j \in T
      <4> SUFFICES ASSUME l[j] < g[j] PROVE total < Total(S, E)
        OBVIOUS
      <4>1. CASE l[j] = total
        <5>1. g[j] <= Total(S, E) /\ g[j] \in Nat
          BY <2>3
        <5> HIDE DEF g, total
        <5> QED BY <1>3, <2>3, <4>1, <5>1
      <4>2. CASE l[j] # total
        <5>1. PICK u \in S : j \in Internal(S, u) /\ l[j] = l[u] - D[u]
          BY <1>2, <4>2
        <5>2. g[j] + E[u] <= g[u] /\ g[u] \in Nat /\ g[j] \in Nat
          BY <2>1, <5>1, FinishesAfter
        <5>3. l[u] \in Int /\ l[j] \in Int /\ D[u] <= E[u] /\ E[u] \in Nat /\ D[u] \in Nat
          BY <1>2, <2>2
        <5> HIDE DEF g
        <5>4. l[u] < g[u]
          BY <5>1, <5>2, <5>3
        <5> QED BY <3>1, <5>1, <5>4
      <4> QED BY <4>1, <4>2
    <3>2. \A j \in S : j \in T
      <4> HIDE DEF T
      <4> QED BY <3>1, FromDependents
    <3> QED BY <3>2
  <2>5. l[i] < g[i]
    <3>1. f[i] \in Nat
      BY <1>4
    <3> HIDE DEF f, g
    <3> QED BY <1>1, <2>1, <3>1
  <2>6. total < Total(S, E)
    BY <2>4, <2>5
  <2>7. Total(S, E) > total
    <3> HIDE DEF total
    <3> QED BY <1>3, <2>3, <2>6
  <2> QED BY <2>7 DEF E
<1> QED BY <1>5, <1>6 DEF m

----------------------------------------------------------------------------
(* Sums of durations *)

\* The sum of a sequence as a function of its prefixes.
Adds(D, s, sum) ==
    /\ sum \in [0 .. Len(s) -> Nat]
    /\ Sum(D, s) = sum[Len(s)] /\ sum[0] = 0
    /\ \A k \in 1 .. Len(s) : sum[k] = sum[k - 1] + D[s[k]]

LEMMA SumAdds ==
    ASSUME NEW S, NEW D, \A x \in S : D[x] \in Nat, NEW s \in Seq(S)
    PROVE  \E sum : Adds(D, s, sum)
<1> DEFINE n == Len(s)
           On(x, k) == x + D[s[k]]
           Builds(w) == w = [k \in 0 .. n |-> IF k = 0 THEN 0 ELSE On(w[k - 1], k)]
           step == [k \in 1 .. n |-> [x \in Nat |-> On(x, k)]]
<1>1. n \in Nat /\ \A k \in 1 .. n : s[k] \in S
  OBVIOUS
<1>2. Sum(D, s) = (CHOOSE u : Builds(u))[n]
  BY DEF Sum
<1>3. \A k \in 1 .. n : \A x \in Nat : On(x, k) \in Nat
  <2> TAKE k \in 1 .. n
  <2>1. D[s[k]] \in Nat
    BY <1>1
  <2> QED BY <2>1
<1> HIDE DEF On, n
<1>5. Maps(step, n, Nat)
  BY <1>3 DEF Maps
<1>6. PICK w : Follows(w, n, Nat, 0, step)
  <2> HIDE DEF step
  <2> QED BY <1>1, <1>5, Recurs
<1>7. Builds(w)
  <2>1. w \in [0 .. n -> Nat] /\ w[0] = 0 /\ \A k \in 1 .. n : w[k] = step[k][w[k - 1]]
    BY <1>6 DEF Follows
  <2>3. \A k \in 1 .. n : w[k] = On(w[k - 1], k)
    <3> TAKE k \in 1 .. n
    <3>1. k - 1 \in 0 .. n
      BY <1>1
    <3>2. w[k - 1] \in Nat
      BY <2>1, <3>1
    <3> QED BY <2>1, <3>2
  <2>4. \A k \in 0 .. n : w[k] = IF k = 0 THEN 0 ELSE On(w[k - 1], k)
    BY <1>1, <2>1, <2>3
  <2> QED BY <2>1, <2>4
<1> DEFINE sum == CHOOSE u : Builds(u)
<1>8. Builds(sum)
  <2> HIDE DEF Builds
  <2> QED BY <1>7
<1> HIDE DEF sum
<1>9. sum[0] = 0 /\ \A k \in 1 .. n : sum[k] = On(sum[k - 1], k)
  BY <1>1, <1>8
<1>10. Unrolls(sum, n, Nat, 0, step)
  <2>1. sum = [k \in 0 .. n |-> sum[k]]
    BY <1>8
  <2>2. ASSUME NEW k \in 1 .. n, sum[k - 1] \in Nat PROVE sum[k] = step[k][sum[k - 1]]
    BY <1>9, <2>2
  <2> HIDE DEF step
  <2> QED BY <1>9, <2>1, <2>2 DEF Unrolls
<1>11. Follows(sum, n, Nat, 0, step)
  <2> HIDE DEF step
  <2> QED BY <1>1, <1>5, <1>10, UnrollsFollows
<1>12. sum \in [0 .. n -> Nat]
  BY <1>11 DEF Follows
<1>13. Adds(D, s, sum)
  BY <1>2, <1>9, <1>12 DEF Adds, sum, On, n
<1> QED BY <1>13

\* Sums of sequences, from the front.
LEMMA SumOne ==
    ASSUME NEW S, NEW D \in [S -> Nat \ {0}], NEW i \in S
    PROVE  Sum(D, <<i>>) = D[i]
<1> DEFINE s == <<i>>
<1>1. s \in Seq(S) /\ Len(s) = 1 /\ s[1] = i
  OBVIOUS
<1> HIDE DEF s
<1>2. PICK sum : Adds(D, s, sum)
  BY <1>1, SumAdds
<1>3. Sum(D, s) = sum[1] /\ sum[0] = 0 /\ \A k \in 1 .. 1 : sum[k] = sum[k - 1] + D[s[k]]
  BY <1>1, <1>2 DEF Adds
<1>4. sum[1] = sum[1 - 1] + D[s[1]] /\ 1 - 1 = 0
  BY <1>3
<1>5. D[i] \in Nat
  OBVIOUS
<1> QED BY ONLY <1>1, <1>3, <1>4, <1>5 DEF s

LEMMA SumFront ==
    ASSUME NEW S, NEW D \in [S -> Nat \ {0}], NEW d \in S, NEW q \in Seq(S)
    PROVE  /\ <<d>> \o q \in Seq(S)
           /\ Sum(D, q) \in Nat /\ Sum(D, <<d>> \o q) = D[d] + Sum(D, q)
<1> DEFINE u == <<d>> \o q
           n == Len(q)
<1>1. /\ u \in Seq(S) /\ Len(u) = n + 1 /\ u[1] = d /\ n \in Nat
      /\ \A k \in 1 .. n : u[k + 1] = q[k]
  OBVIOUS
<1>2. PICK x : Adds(D, q, x)
  BY SumAdds
<1> HIDE DEF u
<1>3. PICK y : Adds(D, u, y)
  BY <1>1, SumAdds
<1>4. /\ x \in [0 .. n -> Nat] /\ Sum(D, q) = x[n] /\ x[0] = 0
      /\ \A k \in 1 .. n : x[k] = x[k - 1] + D[q[k]]
  BY <1>2 DEF Adds
<1>5. /\ y \in [0 .. (n + 1) -> Nat] /\ Sum(D, u) = y[n + 1] /\ y[0] = 0
      /\ \A k \in 1 .. (n + 1) : y[k] = y[k - 1] + D[u[k]]
  BY <1>1, <1>3 DEF Adds
<1>q. D[d] \in Nat /\ \A k \in 1 .. n : D[q[k]] \in Nat
  <2>1. \A k \in 1 .. n : q[k] \in S
    OBVIOUS
  <2> QED BY <2>1
<1> HIDE DEF n
<1> DEFINE T == {k \in 0 .. n : y[k + 1] = D[d] + x[k]}
<1>6. 0 \in T
  <2>1. 1 \in 1 .. (n + 1) /\ 0 \in 0 .. n
    BY <1>1
  <2>2. y[1] = y[1 - 1] + D[u[1]] /\ 1 - 1 = 0
    BY <1>5, <2>1
  <2>3. y[1] = D[d] + x[0]
    BY ONLY <1>1, <1>4, <1>5, <1>q, <2>2
  <2> QED BY <2>1, <2>3
<1>7. ASSUME NEW k \in 1 .. n, k - 1 \in T PROVE k \in T
  <2>1. k + 1 \in 1 .. (n + 1) /\ k \in 0 .. n /\ k - 1 \in 0 .. n /\ k + 1 - 1 = k /\ k - 1 + 1 = k
    BY <1>1
  <2>2. y[k] = D[d] + x[k - 1]
    BY <1>7, <2>1
  <2>3. y[k + 1] = y[k] + D[u[k + 1]]
    BY <1>5, <2>1
  <2>4. u[k + 1] = q[k]
    BY <1>1
  <2>5. x[k] = x[k - 1] + D[q[k]] /\ x[k - 1] \in Nat /\ x[k] \in Nat
    BY <1>4, <2>1
  <2>6. y[k + 1] = D[d] + x[k]
    BY <1>q, <2>2, <2>3, <2>4, <2>5
  <2> QED BY <2>1, <2>6
<1>8. n \in T
  <2>1. n \in 0 .. n
    BY <1>1
  <2> HIDE DEF T
  <2> QED BY <1>1, <1>6, <1>7, <2>1, Climbs
<1>9. Sum(D, u) = D[d] + Sum(D, q) /\ Sum(D, q) \in Nat
  BY <1>1, <1>4, <1>5, <1>8
<1> QED BY <1>1, <1>9 DEF u

----------------------------------------------------------------------------
(* The critical chain *)

\* Of finitely many issues Latest picks one that finishes last.
LEMMA LatestIn ==
    ASSUME FactsOK, NEW T \in SUBSET Issues, IsFiniteSet(T), T # {},
           NEW f, \A x \in T : f[x] \in Nat
    PROVE  Latest(f, T) \in T /\ \A x \in T : f[x] <= f[Latest(f, T)]
<1>0. \A x \in T : /\ fact[x].born \in Int /\ SortKey(x) \in Int /\ x \in Int
  BY BeforeTypes
<1>1. PICK a \in T : \A x \in T : f[x] <= f[a]
  <2>1. \A x \in T : f[x] \in Int
    OBVIOUS
  <2> QED BY <2>1, GreatestNat
<1> DEFINE T1 == {x \in T : f[x] = f[a]}
           born == [x \in T |-> fact[x].born]
<1>2. PICK b \in T1 : \A x \in T1 : born[x] <= born[b]
  <2>1. T1 # {} /\ T1 \subseteq T
    OBVIOUS
  <2>2. \A x \in T1 : born[x] \in Int
    BY <1>0
  <2> HIDE DEF T1, born
  <2> QED BY <2>1, <2>2, GreatestNat, FS_Subset
<1> DEFINE T2 == {x \in T1 : fact[x].born = fact[b].born}
           sort == [x \in T |-> SortKey(x)]
<1>3. PICK c \in T2 : \A x \in T2 : sort[x] <= sort[c]
  <2>1. T2 # {} /\ T2 \subseteq T
    OBVIOUS
  <2>2. \A x \in T2 : sort[x] \in Int
    BY <1>0
  <2> HIDE DEF T1, T2, sort
  <2> QED BY <2>1, <2>2, GreatestNat, FS_Subset
<1> DEFINE T3 == {x \in T2 : SortKey(x) = SortKey(c)}
           id == [x \in T |-> x]
<1>4. PICK d \in T3 : \A x \in T3 : id[x] <= id[d]
  <2>1. T3 # {} /\ T3 \subseteq T
    OBVIOUS
  <2>2. \A x \in T3 : id[x] \in Int
    BY <1>0
  <2> HIDE DEF T1, T2, T3, id
  <2> QED BY <2>1, <2>2, GreatestNat, FS_Subset
<1>5. d \in T /\ f[d] = f[a] /\ fact[d].born = fact[b].born /\ SortKey(d) = SortKey(c)
  BY <1>4
<1>6. ASSUME NEW x \in T PROVE f[x] < f[d] \/ (f[x] = f[d] /\ (d = x \/ Before(x, d)))
  <2>1. f[x] \in Nat /\ f[d] \in Nat /\ f[x] <= f[d]
    BY <1>1, <1>5
  <2>2. CASE f[x] < f[d]
    BY <2>2
  <2>3. CASE f[x] = f[d]
    <3>1. x \in T1
      BY <1>5, <2>3
    <3>2. fact[x].born <= fact[d].born
      BY <1>2, <1>5, <3>1
    <3>3. fact[x].born = fact[d].born => SortKey(x) <= SortKey(d)
      BY <1>3, <1>5, <3>1
    <3>4. fact[x].born = fact[d].born /\ SortKey(x) = SortKey(d) => x <= d
      <4>1. ASSUME fact[x].born = fact[d].born, SortKey(x) = SortKey(d) PROVE x <= d
        <5>1. x \in T3
          BY <1>5, <3>1, <4>1
        <5>2. id[x] <= id[d]
          BY <1>4, <5>1
        <5> QED BY <1>5, <5>2
      <4> QED BY <4>1
    <3>5. d = x \/ Before(x, d)
      <4>1. /\ fact[x].born \in Int /\ SortKey(x) \in Int /\ x \in Int
            /\ fact[d].born \in Int /\ SortKey(d) \in Int /\ d \in Int
        BY <1>0, <1>5
      <4> QED BY ONLY <3>2, <3>3, <3>4, <4>1 DEF Before
    <3> QED BY <2>3, <3>5
  <2> QED BY <2>1, <2>2, <2>3
<1> DEFINE Good(i) == \A j \in T : f[j] < f[i] \/ (f[j] = f[i] /\ (i = j \/ Before(j, i)))
<1>7. Good(d)
  BY <1>6
<1>8. Latest(f, T) = CHOOSE i \in T : Good(i)
  BY DEF Latest
<1>9. Latest(f, T) \in T /\ Good(Latest(f, T))
  <2> HIDE DEF Good
  <2> QED BY <1>5, <1>7, <1>8
<1>10. ASSUME NEW x \in T PROVE f[x] <= f[Latest(f, T)]
  <2> DEFINE e == Latest(f, T)
  <2>1. f[x] < f[e] \/ f[x] = f[e]
    BY <1>9
  <2>2. f[x] \in Nat /\ f[e] \in Nat
    BY <1>9
  <2> HIDE DEF e
  <2>3. f[x] <= f[e]
    BY <2>1, <2>2
  <2> QED BY <2>3 DEF e
<1> QED BY <1>9, <1>10

\* The paths of dependencies as a function of the steps that extend them.
Extended(S, P) == UNION {{<<d>> \o q : d \in Internal(S, q[1])} : q \in P}

Extends(S, i, paths) ==
    /\ paths \in [0 .. Cardinality(S) -> SUBSET Seq(S)]
    /\ PathsTo(S, i) = paths[Cardinality(S)] /\ paths[0] = {<<i>>}
    /\ \A k \in 1 .. Cardinality(S) : paths[k] = paths[k - 1] \cup Extended(S, paths[k - 1])

LEMMA PathsExtend ==
    ASSUME NEW S, IsFiniteSet(S), NEW i \in S
    PROVE  \E paths : Extends(S, i, paths)
<1> DEFINE n == Cardinality(S)
           V == SUBSET Seq(S)
           v == {<<i>>}
           On(P) == P \cup UNION {{<<d>> \o q : d \in Internal(S, q[1])} : q \in P}
           Builds(w) == w = [k \in 0 .. n |-> IF k = 0 THEN v ELSE On(w[k - 1])]
           step == [k \in 1 .. n |-> [P \in V |-> On(P)]]
<1>1. n \in Nat
  BY FS_CardinalityType
<1>2. PathsTo(S, i) = (CHOOSE u : Builds(u))[n]
  BY DEF PathsTo
<1>3. \A P \in V : On(P) \in V
  <2> TAKE P \in V
  <2>1. ASSUME NEW q \in P, NEW d \in Internal(S, q[1]) PROVE <<d>> \o q \in Seq(S)
    <3>1. q \in Seq(S) /\ d \in S
      BY DEF Internal
    <3>2. <<d>> \in Seq(S)
      BY <3>1
    <3> QED BY <3>1, <3>2
  <2>2. ASSUME NEW z \in On(P), z \notin P PROVE z \in Seq(S)
    <3>1. PICK q \in P : z \in {<<d>> \o q : d \in Internal(S, q[1])}
      BY <2>2
    <3>2. PICK d \in Internal(S, q[1]) : z = <<d>> \o q
      BY <3>1
    <3> QED BY <2>1, <3>2
  <2> HIDE DEF On
  <2>3. \A z \in On(P) : z \in Seq(S)
    BY <2>2
  <2> QED BY <2>3
<1>4. v \in V
  OBVIOUS
<1> HIDE DEF On, n, V, v
<1>5. Maps(step, n, V)
  BY <1>3 DEF Maps
<1>6. PICK w : Follows(w, n, V, v, step)
  <2> HIDE DEF step
  <2> QED BY <1>1, <1>4, <1>5, Recurs
<1>7. Builds(w)
  <2>1. w \in [0 .. n -> V] /\ w[0] = v /\ \A k \in 1 .. n : w[k] = step[k][w[k - 1]]
    BY <1>6 DEF Follows
  <2>3. \A k \in 1 .. n : w[k] = On(w[k - 1])
    <3> TAKE k \in 1 .. n
    <3>1. k - 1 \in 0 .. n
      BY <1>1
    <3>2. w[k - 1] \in V
      BY <2>1, <3>1
    <3> QED BY <2>1, <3>2
  <2>4. \A k \in 0 .. n : w[k] = IF k = 0 THEN v ELSE On(w[k - 1])
    BY <1>1, <2>1, <2>3
  <2> QED BY <2>1, <2>4
<1> DEFINE paths == CHOOSE u : Builds(u)
<1>8. Builds(paths)
  <2> HIDE DEF Builds
  <2> QED BY <1>7
<1> HIDE DEF paths
<1>9. paths[0] = v /\ \A k \in 1 .. n : paths[k] = On(paths[k - 1])
  BY <1>1, <1>8
<1>10. Unrolls(paths, n, V, v, step)
  <2>1. paths = [k \in 0 .. n |-> paths[k]]
    BY <1>8
  <2>2. ASSUME NEW k \in 1 .. n, paths[k - 1] \in V PROVE paths[k] = step[k][paths[k - 1]]
    BY <1>9, <2>2
  <2> HIDE DEF step
  <2> QED BY <1>9, <2>1, <2>2 DEF Unrolls
<1>11. Follows(paths, n, V, v, step)
  <2> HIDE DEF step
  <2> QED BY <1>1, <1>4, <1>5, <1>10, UnrollsFollows
<1>12. paths \in [0 .. n -> V]
  BY <1>11 DEF Follows
<1>13. Extends(S, i, paths)
  BY <1>2, <1>9, <1>12 DEF Extends, Extended, paths, On, n, V, v
<1> QED BY <1>13

\* The nodes that cannot slip.
Tight(S, D) == {i \in S : Slack(S, D)[i] = 0}

\* The last to finish cannot slip.
LEMMA TightIs ==
    ASSUME NEW S, NEW D, Charted(S, D), S # {}
    PROVE  /\ Tight(S, D) \in SUBSET Issues /\ Tight(S, D) \subseteq S /\ IsFiniteSet(Tight(S, D))
           /\ \E i \in Tight(S, D) : Finishes(S, D)[i] = Total(S, D)
<1> DEFINE f == Finishes(S, D)
           l == LatestFinishes(S, D)
           m == Slack(S, D)
<1>1. Tight(S, D) \subseteq S
  BY DEF Tight
<1>2. S \in SUBSET Issues /\ IsFiniteSet(S)
  BY DEF Charted
<1>3. IsFiniteSet(Tight(S, D))
  BY <1>1, <1>2, FS_Subset
<1>4. PICK i \in S : f[i] = Total(S, D)
  BY TotalIs
<1>5. m[i] \in Nat /\ l[i] = f[i] + m[i]
  BY SlackIs
<1>6. l[i] <= Total(S, D) /\ Total(S, D) \in Nat
  BY LatestIs, TotalIs
<1>7. m[i] = 0
  <2> HIDE DEF m, l, f
  <2> QED BY <1>4, <1>5, <1>6
<1>8. i \in Tight(S, D)
  BY <1>7 DEF Tight
<1> QED BY <1>1, <1>2, <1>3, <1>4, <1>8

\* What makes a tight node start when it does is tight.
LEMMA TightUp ==
    ASSUME NEW S, NEW D, Charted(S, D), NEW i \in Tight(S, D)
    PROVE  LET f  == Finishes(S, D)
               up == Internal(S, i) \cap Tight(S, D)
               d  == Latest(f, up)
           IN  /\ Internal(S, i) # {} => up # {}
               /\ up # {} => d \in up /\ f[i] = f[d] + D[i]
<1> DEFINE f  == Finishes(S, D)
           l  == LatestFinishes(S, D)
           up == Internal(S, i) \cap Tight(S, D)
           d  == Latest(f, up)
<1>1. i \in S /\ Slack(S, D)[i] = 0
  BY DEF Tight
<1>2. S \in SUBSET Issues /\ IsFiniteSet(S) /\ FactsOK
  BY DEF Charted
<1>3. f[i] \in Nat /\ l[i] = f[i] /\ D[i] \in Nat
  <2>1. f[i] \in Nat /\ D[i] \in Nat /\ l[i] = f[i] + Slack(S, D)[i]
    BY <1>1, FinishesAfter, SlackIs
  <2> HIDE DEF f, l
  <2> QED BY <1>1, <2>1
<1>4. ASSUME NEW p \in Internal(S, i), f[i] = f[p] + D[i] PROVE p \in up
  <2>1. p \in S /\ f[p] \in Nat
    BY <1>1, FinishesAfter
  <2>2. l[p] <= l[i] - D[i] /\ l[p] \in Int
    BY <1>1, <2>1, LatestIs
  <2>3. Slack(S, D)[p] \in Nat /\ l[p] = f[p] + Slack(S, D)[p]
    BY <2>1, SlackIs
  <2>4. Slack(S, D)[p] = 0
    <3> HIDE DEF f, l
    <3> QED BY <1>3, <1>4, <2>1, <2>2, <2>3
  <2> QED BY <2>1, <2>4 DEF Tight
<1>5. ASSUME Internal(S, i) # {} PROVE \E p \in up : f[i] = f[p] + D[i]
  <2>1. PICK p \in Internal(S, i) : f[i] = f[p] + D[i]
    BY <1>1, <1>5, FinishesAfter
  <2> QED BY <1>4, <2>1
<1>6. ASSUME up # {} PROVE d \in up /\ f[i] = f[d] + D[i]
  <2>1. PICK p \in up : f[i] = f[p] + D[i]
    BY <1>5, <1>6
  <2>2. up \in SUBSET Issues /\ IsFiniteSet(up) /\ up \subseteq S
    <3>1. up \subseteq S
      BY DEF Internal
    <3> HIDE DEF up
    <3> QED BY <1>2, <3>1, FS_Subset
  <2>3. \A x \in up : f[x] \in Nat
    <3>1. f \in [S -> Nat]
      BY FinishesIs
    <3> HIDE DEF f, up
    <3> QED BY <2>2, <3>1
  <2>4. d \in up /\ \A x \in up : f[x] <= f[d]
    <3> HIDE DEF f, up
    <3> QED BY <1>2, <1>6, <2>2, <2>3, LatestIn
  <2>5. f[p] <= f[d] /\ f[p] \in Nat /\ f[d] \in Nat
    BY <2>1, <2>3, <2>4
  <2>6. f[d] + D[i] <= f[i]
    BY <1>1, <2>4, FinishesAfter
  <2> HIDE DEF f, d, up
  <2>7. f[i] = f[d] + D[i]
    BY <1>3, <2>1, <2>5, <2>6
  <2> QED BY <2>4, <2>7
<1> QED BY <1>5, <1>6

\* A chain of dependencies whose last node finishes with the plan, and without a pause.
Linked(S, D, q) ==
    /\ q \in Seq(S) /\ q # << >> /\ q[1] \in Tight(S, D)
    /\ \A k \in 1 .. Len(q) - 1 : q[k] \in Internal(S, q[k + 1])
    /\ \A a, b \in DOMAIN q : a < b => Finishes(S, D)[q[a]] < Finishes(S, D)[q[b]]
    /\ Sum(D, q) + Finishes(S, D)[q[1]] = Total(S, D) + D[q[1]]

LEMMA LinkedFront ==
    ASSUME NEW S, NEW D, Charted(S, D), NEW q, Linked(S, D, q),
           NEW d \in Internal(S, q[1]) \cap Tight(S, D),
           Finishes(S, D)[q[1]] = Finishes(S, D)[d] + D[q[1]]
    PROVE  Linked(S, D, <<d>> \o q)
<1> DEFINE f == Finishes(S, D)
           u == <<d>> \o q
           n == Len(q)
<1>0. D \in [S -> Nat \ {0}]
  BY DEF Charted
<1>1. /\ q \in Seq(S) /\ q # << >> /\ q[1] \in Tight(S, D)
      /\ \A k \in 1 .. n - 1 : q[k] \in Internal(S, q[k + 1])
      /\ \A a, b \in DOMAIN q : a < b => f[q[a]] < f[q[b]]
      /\ Sum(D, q) + f[q[1]] = Total(S, D) + D[q[1]]
  BY DEF Linked
<1>2. d \in S /\ f[q[1]] = f[d] + D[q[1]]
  BY DEF Tight
<1>3. u \in Seq(S) /\ Sum(D, q) \in Nat /\ Sum(D, u) = D[d] + Sum(D, q)
  BY <1>0, <1>1, <1>2, SumFront
<1>4. /\ Len(u) = n + 1 /\ u[1] = d /\ n \in Nat /\ 1 <= n /\ \A k \in 1 .. n : u[k + 1] = q[k]
      /\ DOMAIN u = 1 .. (n + 1) /\ DOMAIN q = 1 .. n /\ \A k \in 1 .. n : q[k] \in S
      /\ u # << >>
  BY <1>1, <1>2
<1>5. \A x \in S : f[x] \in Nat /\ D[x] \in Nat \ {0}
  BY FinishesAfter
<1>6. Total(S, D) \in Nat
  BY TotalIs
<1>7. \A a \in 2 .. (n + 1) : a - 1 \in 1 .. n /\ u[a] = q[a - 1]
  BY <1>4
<1> HIDE DEF f, u, n
<1>r. \A a, b \in 1 .. n : a < b => f[q[a]] < f[q[b]]
  BY ONLY <1>1, <1>4
<1>8. \A a \in 1 .. n : f[d] < f[q[a]]
  <2> TAKE a \in 1 .. n
  <2>1. 1 \in 1 .. n /\ f[q[1]] \in Nat /\ f[d] \in Nat /\ D[q[1]] \in Nat \ {0} /\ f[q[a]] \in Nat
    BY <1>2, <1>4, <1>5
  <2>2. f[d] < f[q[1]]
    BY <1>2, <2>1
  <2>3. a = 1 \/ f[q[1]] < f[q[a]]
    BY ONLY <1>r, <1>4, <2>1
  <2> QED BY ONLY <2>1, <2>2, <2>3
<1>9. ASSUME NEW a \in DOMAIN u, NEW b \in DOMAIN u, a < b PROVE f[u[a]] < f[u[b]]
  <2>1. b \in 2 .. (n + 1)
    BY <1>4, <1>9
  <2>2. CASE a = 1
    BY <1>4, <1>7, <1>8, <2>1, <2>2
  <2>3. CASE a # 1
    <3>1. a \in 2 .. (n + 1) /\ a - 1 < b - 1
      BY <1>4, <1>9, <2>3
    <3> QED BY ONLY <1>r, <1>7, <2>1, <3>1
  <2> QED BY <2>2, <2>3
<1>10. ASSUME NEW k \in 1 .. Len(u) - 1 PROVE u[k] \in Internal(S, u[k + 1])
  <2>1. k \in 1 .. n /\ u[k + 1] = q[k]
    BY <1>4
  <2>2. CASE k = 1
    BY <1>4, <2>1, <2>2
  <2>3. CASE k # 1
    <3>1. k \in 2 .. (n + 1) /\ k - 1 \in 1 .. n - 1 /\ k - 1 + 1 = k
      BY <1>4, <2>1, <2>3
    <3>2. q[k - 1] \in Internal(S, q[k])
      BY <1>1, <3>1
    <3> QED BY <1>7, <2>1, <3>1, <3>2
  <2> QED BY <2>2, <2>3
<1>11. Sum(D, u) + f[u[1]] = Total(S, D) + D[u[1]]
  <2>1. f[q[1]] \in Nat /\ f[d] \in Nat /\ D[q[1]] \in Nat /\ D[d] \in Nat
    BY <1>2, <1>4, <1>5
  <2>2. u[1] = d /\ Sum(D, q) + f[q[1]] = Total(S, D) + D[q[1]]
    BY ONLY <1>1, <1>4
  <2>3. Sum(D, q) \in Nat /\ Sum(D, u) = D[d] + Sum(D, q)
    BY ONLY <1>3
  <2>4. f[q[1]] = f[d] + D[q[1]] /\ Sum(D, q) + f[q[1]] = Total(S, D) + D[q[1]]
    BY ONLY <1>2, <2>2
  <2>5. Sum(D, u) + f[d] = Total(S, D) + D[d]
    BY ONLY <1>6, <2>1, <2>3, <2>4
  <2> QED BY ONLY <2>2, <2>5
<1>12. u[1] \in Tight(S, D)
  BY <1>4
<1> QED BY <1>3, <1>4, <1>9, <1>10, <1>11, <1>12 DEF Linked, u, f

\* The walk back of the critical chain as a function of its steps.
Onwards(S, D, q) ==
    LET up == Internal(S, q[1]) \cap Tight(S, D)
    IN  IF up = {} THEN q ELSE <<Latest(Finishes(S, D), up)>> \o q

Walks(S, D, chain) ==
    /\ CriticalChain(S, D) = chain[Cardinality(S)]
    /\ chain[0] = <<Latest(Finishes(S, D), Tight(S, D))>>
    /\ \A k \in 1 .. Cardinality(S) : chain[k] = Onwards(S, D, chain[k - 1])

LEMMA ChainWalks ==
    ASSUME NEW S, NEW D, Charted(S, D), S # {}
    PROVE  \E chain : Walks(S, D, chain)
<1> DEFINE n == Cardinality(S)
           V == Seq(S)
           f == Finishes(S, D)
           tight == {i \in S : Slack(S, D)[i] = 0}
           v == <<Latest(f, tight)>>
           On(q) == LET up == Internal(S, q[1]) \cap tight
                    IN  IF up = {} THEN q ELSE <<Latest(f, up)>> \o q
           Builds(w) == w = [k \in 0 .. n |-> IF k = 0 THEN v ELSE On(w[k - 1])]
           step == [k \in 1 .. n |-> [q \in V |-> On(q)]]
<1>0. S \in SUBSET Issues /\ IsFiniteSet(S) /\ FactsOK /\ f \in [S -> Nat]
  BY FinishesIs DEF Charted
<1>1. n \in Nat
  BY <1>0, FS_CardinalityType
<1>2. tight # {} /\ CriticalChain(S, D) = (CHOOSE u : Builds(u))[n]
  <2>1. tight # {}
    BY TightIs DEF Tight
  <2>2. CriticalChain(S, D) = IF tight = {} THEN <<>> ELSE (CHOOSE u : Builds(u))[n]
    BY DEF CriticalChain, ChainBack
  <2> HIDE DEF tight, Builds
  <2> QED BY <2>1, <2>2
<1>l. \A T \in SUBSET S : T # {} => Latest(f, T) \in S
  <2> TAKE T \in SUBSET S
  <2>1. T \in SUBSET Issues /\ IsFiniteSet(T)
    BY <1>0, FS_Subset
  <2> HIDE DEF f
  <2>2. \A x \in T : f[x] \in Nat
    BY <1>0
  <2> QED BY <1>0, <2>1, <2>2, LatestIn
<1>t. tight \subseteq S /\ \A q : Internal(S, q[1]) \cap tight \in SUBSET S
  OBVIOUS
<1> HIDE DEF f, tight
<1>3. \A q \in V : On(q) \in V
  <2> TAKE q \in V
  <2> DEFINE up == Internal(S, q[1]) \cap tight
  <2>1. up # {} => Latest(f, up) \in S
    BY <1>l, <1>t
  <2> HIDE DEF up
  <2>2. (IF up = {} THEN q ELSE <<Latest(f, up)>> \o q) \in Seq(S)
    <3>1. CASE up = {}
      BY <3>1
    <3>2. CASE up # {}
      <4>1. <<Latest(f, up)>> \in Seq(S)
        BY <2>1, <3>2
      <4> QED BY <3>2, <4>1
    <3> QED BY <3>1, <3>2
  <2> QED BY <2>2 DEF up
<1>4. v \in V
  <2>1. Latest(f, tight) \in S
    BY <1>2, <1>l, <1>t
  <2> QED BY <2>1
<1> HIDE DEF On, n, V, v
<1>5. Maps(step, n, V)
  BY <1>3 DEF Maps
<1>6. PICK w : Follows(w, n, V, v, step)
  <2> HIDE DEF step
  <2> QED BY <1>1, <1>4, <1>5, Recurs
<1>7. Builds(w)
  <2>1. w \in [0 .. n -> V] /\ w[0] = v /\ \A k \in 1 .. n : w[k] = step[k][w[k - 1]]
    BY <1>6 DEF Follows
  <2>3. \A k \in 1 .. n : w[k] = On(w[k - 1])
    <3> TAKE k \in 1 .. n
    <3>1. k - 1 \in 0 .. n
      BY <1>1
    <3>2. w[k - 1] \in V
      BY <2>1, <3>1
    <3> QED BY <2>1, <3>2
  <2>4. \A k \in 0 .. n : w[k] = IF k = 0 THEN v ELSE On(w[k - 1])
    BY <1>1, <2>1, <2>3
  <2> QED BY <2>1, <2>4
<1> DEFINE chain == CHOOSE u : Builds(u)
<1>8. Builds(chain)
  <2> HIDE DEF Builds
  <2> QED BY <1>7
<1> HIDE DEF chain
<1>9. chain[0] = v /\ \A k \in 1 .. n : chain[k] = On(chain[k - 1])
  BY <1>1, <1>8
<1>13. Walks(S, D, chain)
  BY <1>2, <1>9 DEF Walks, Onwards, Tight, chain, On, n, v, f, tight
<1> QED BY <1>13

\* The critical chain is a chain of dependencies as long as the plan, and one of the paths.
LEMMA CriticalIs ==
    ASSUME NEW S, NEW D, Charted(S, D), S # {}
    PROVE  LET q == CriticalChain(S, D) IN
           /\ q \in Seq(S)
           /\ \A k \in 1 .. Len(q) - 1 : q[k] \in Internal(S, q[k + 1])
           /\ Sum(D, q) = Total(S, D)
           /\ \E i \in S : q \in PathsTo(S, i)
<1> DEFINE n == Cardinality(S)
           f == Finishes(S, D)
           i == Latest(f, Tight(S, D))
           Done(q) == Internal(S, q[1]) \cap Tight(S, D) = {}
<1>0. S \in SUBSET Issues /\ IsFiniteSet(S) /\ FactsOK /\ f \in [S -> Nat] /\ D \in [S -> Nat \ {0}]
  BY FinishesIs DEF Charted
<1>1. n \in Nat
  BY <1>0, FS_CardinalityType
<1>2. PICK chain : Walks(S, D, chain)
  BY ChainWalks
<1>3. i \in Tight(S, D) /\ i \in S /\ f[i] = Total(S, D)
  <2> DEFINE T == Tight(S, D)
  <2>1. /\ T \in SUBSET Issues /\ T \subseteq S /\ IsFiniteSet(T)
        /\ \E x \in T : f[x] = Total(S, D)
    BY TightIs
  <2>2. f[i] <= Total(S, D) \/ i \notin S
    BY TotalIs
  <2>3. Total(S, D) \in Nat
    BY TotalIs
  <2> HIDE DEF T, f
  <2>4. \A x \in T : f[x] \in Nat
    BY <1>0, <2>1
  <2>5. Latest(f, T) \in T /\ \A x \in T : f[x] <= f[Latest(f, T)]
    BY <1>0, <2>1, <2>4, LatestIn
  <2>6. f[Latest(f, T)] = Total(S, D)
    <3> DEFINE e == Latest(f, T)
    <3>1. PICK x \in T : f[x] = Total(S, D)
      BY <2>1
    <3>2. f[x] <= f[e] /\ f[e] \in Nat /\ e \in S /\ f[e] <= Total(S, D)
      BY <2>1, <2>2, <2>4, <2>5 DEF T
    <3> HIDE DEF e
    <3>3. f[e] = Total(S, D)
      BY <2>3, <3>1, <3>2
    <3> QED BY <3>3 DEF e
  <2> QED BY <2>1, <2>5, <2>6 DEF T
<1>4. /\ CriticalChain(S, D) = chain[n] /\ chain[0] = <<i>>
      /\ \A k \in 1 .. n : chain[k] = Onwards(S, D, chain[k - 1])
  BY <1>2 DEF Walks
<1> HIDE DEF i
<1>5. PICK paths : Extends(S, i, paths)
  BY <1>0, <1>3, PathsExtend
<1>6. /\ PathsTo(S, i) = paths[n] /\ paths[0] = {<<i>>}
      /\ \A k \in 1 .. n : paths[k] = paths[k - 1] \cup Extended(S, paths[k - 1])
  BY <1>5 DEF Extends
<1> DEFINE Good(q, k) == Linked(S, D, q) /\ (Done(q) \/ Len(q) = k + 1)
           T == {k \in 0 .. n : Good(chain[k], k) /\ chain[k] \in paths[k]}
<1>7. 0 \in T
  <2>1. Sum(D, <<i>>) = D[i]
    BY <1>0, <1>3, SumOne
  <2> DEFINE q == <<i>>
  <2>2. q \in Seq(S) /\ Len(q) = 1 /\ q[1] = i /\ DOMAIN q = {1} /\ q # << >>
    BY <1>3
  <2> HIDE DEF q
  <2>3. Total(S, D) \in Nat /\ D[i] \in Nat
    BY <1>0, <1>3, TotalIs
  <2>4. Sum(D, q) + f[q[1]] = Total(S, D) + D[q[1]]
    <3>1. Sum(D, q) = D[i] /\ f[q[1]] = Total(S, D) /\ D[q[1]] = D[i]
      BY <1>3, <2>1, <2>2 DEF q
    <3> HIDE DEF f
    <3> QED BY <2>3, <3>1
  <2>5. \A k \in 1 .. Len(q) - 1 : q[k] \in Internal(S, q[k + 1])
    BY <2>2
  <2>6. \A a, b \in DOMAIN q : a < b => f[q[a]] < f[q[b]]
    BY <2>2
  <2>7. Linked(S, D, q)
    BY <1>3, <2>2, <2>4, <2>5, <2>6 DEF Linked
  <2>8. q \in paths[0] /\ chain[0] = q
    BY <1>4, <1>6 DEF q
  <2>9. Len(q) = 0 + 1 /\ 0 \in 0 .. n
    BY <1>1, <2>2
  <2> HIDE DEF Done
  <2> QED BY ONLY <2>7, <2>8, <2>9
<1>8. ASSUME NEW k \in 1 .. n, k - 1 \in T PROVE k \in T
  <2> DEFINE q  == chain[k - 1]
             up == Internal(S, q[1]) \cap Tight(S, D)
             d  == Latest(f, up)
  <2>1. Linked(S, D, q) /\ (Done(q) \/ Len(q) = k - 1 + 1) /\ q \in paths[k - 1]
    BY <1>8
  <2>2. chain[k] = IF up = {} THEN q ELSE <<d>> \o q
    BY <1>4 DEF Onwards
  <2>3. paths[k] = paths[k - 1] \cup Extended(S, paths[k - 1])
    BY <1>6
  <2>4. q[1] \in Tight(S, D) /\ q \in Seq(S)
    BY <2>1 DEF Linked
  <2> HIDE DEF q
  <2>5. CASE up = {}
    <3>1. chain[k] = q /\ Done(q)
      BY <2>2, <2>5
    <3>2. k \in 0 .. n
      BY <1>1
    <3> HIDE DEF Done
    <3> QED BY ONLY <2>1, <2>3, <3>1, <3>2
  <2>6. CASE up # {}
    <3>1. d \in up /\ f[q[1]] = f[d] + D[q[1]]
      BY <2>4, <2>6, TightUp
    <3>2. chain[k] = <<d>> \o q
      BY <2>2, <2>6
    <3> HIDE DEF d
    <3>3. Linked(S, D, <<d>> \o q)
      BY <2>1, <3>1, LinkedFront
    <3>4. Len(<<d>> \o q) = k + 1
      <4>1. Len(q) = k - 1 + 1
        BY <2>1, <2>6
      <4> QED BY <1>1, <2>4, <4>1
    <3>5. <<d>> \o q \in Extended(S, paths[k - 1])
      <4>1. d \in Internal(S, q[1]) /\ q \in paths[k - 1]
        BY <2>1, <3>1
      <4>2. <<d>> \o q \in {<<e>> \o q : e \in Internal(S, q[1])}
        BY ONLY <4>1
      <4> QED BY ONLY <4>1, <4>2 DEF Extended
    <3>6. k \in 0 .. n
      BY <1>1
    <3> HIDE DEF Done
    <3> QED BY ONLY <2>3, <3>2, <3>3, <3>4, <3>5, <3>6
  <2> QED BY <2>5, <2>6
<1> DEFINE q == chain[n]
<1>9. Linked(S, D, q) /\ (Done(q) \/ Len(q) = n + 1) /\ q \in paths[n]
  <2>1. n \in 0 .. n
    BY <1>1
  <2> HIDE DEF T, n
  <2>2. n \in T
    BY <1>1, <1>7, <1>8, <2>1, Climbs
  <2> QED BY <2>2 DEF T
<1> HIDE DEF q
<1>10. /\ q \in Seq(S) /\ q # << >> /\ q[1] \in Tight(S, D)
       /\ \A k \in 1 .. Len(q) - 1 : q[k] \in Internal(S, q[k + 1])
       /\ \A a, b \in DOMAIN q : a < b => f[q[a]] < f[q[b]]
       /\ Sum(D, q) + f[q[1]] = Total(S, D) + D[q[1]]
  BY <1>9 DEF Linked
<1>11. Done(q)
  <2>1. \A a \in DOMAIN q : q[a] \in S /\ f[q[a]] \in Nat
    BY <1>0, <1>10
  <2>2. Once(q)
    <3> SUFFICES ASSUME NEW a \in DOMAIN q, NEW b \in DOMAIN q, q[a] = q[b], a # b PROVE FALSE
      BY DEF Once
    <3>1. a \in Nat /\ b \in Nat
      BY <1>10
    <3>2. a < b \/ b < a
      BY <3>1
    <3>3. f[q[a]] < f[q[b]] \/ f[q[b]] < f[q[a]]
      BY <1>10, <3>2
    <3>4. f[q[a]] \in Nat /\ f[q[b]] = f[q[a]]
      BY <2>1
    <3> HIDE DEF f
    <3> QED BY <3>3, <3>4
  <2>3. IsFiniteSet(Range(q)) /\ Cardinality(Range(q)) = Len(q) /\ Range(q) \subseteq S
    BY <1>10, <2>2, OnceCard
  <2>4. Len(q) <= n
    BY <1>0, <2>3, FS_Subset
  <2>5. Len(q) # n + 1
    BY <1>1, <2>4
  <2> QED BY <1>9, <2>5
<1>12. Sum(D, q) = Total(S, D)
  <2>1. q[1] \in S
    BY <1>10 DEF Tight
  <2>2. Internal(S, q[1]) = {}
    BY <1>10, <1>11, TightUp
  <2>3. f[q[1]] = D[q[1]] /\ D[q[1]] \in Nat
    BY <2>1, <2>2, FinishesAfter
  <2>4. Total(S, D) \in Nat /\ Sum(D, q) \in Nat
    <3>1. Sum(D, q) \in Nat
      BY <1>0, <1>10, <2>1, SumFront
    <3> QED BY <3>1, TotalIs
  <2> HIDE DEF f
  <2> QED BY <1>10, <2>3, <2>4
<1> QED BY <1>3, <1>4, <1>6, <1>9, <1>10, <1>12 DEF q

\* No path of dependencies takes longer than the plan.
LEMMA PathFits ==
    ASSUME NEW S, NEW D, Charted(S, D), NEW i \in S, NEW p \in PathsTo(S, i)
    PROVE  Sum(D, p) \in Nat /\ Sum(D, p) <= Total(S, D)
<1> DEFINE n == Cardinality(S)
           f == Finishes(S, D)
           Fits(q) == q \in Seq(S) /\ q # << >> /\ Sum(D, q) + f[q[1]] <= f[i] + D[q[1]]
<1>0. IsFiniteSet(S) /\ f \in [S -> Nat] /\ D \in [S -> Nat \ {0}]
  BY FinishesIs DEF Charted
<1>1. n \in Nat
  BY <1>0, FS_CardinalityType
<1>2. PICK paths : Extends(S, i, paths)
  BY <1>0, PathsExtend
<1>3. /\ PathsTo(S, i) = paths[n] /\ paths[0] = {<<i>>}
      /\ \A k \in 1 .. n : paths[k] = paths[k - 1] \cup Extended(S, paths[k - 1])
  BY <1>2 DEF Extends
<1>4. f[i] \in Nat
  BY <1>0
<1> DEFINE T == {k \in 0 .. n : \A q \in paths[k] : Fits(q)}
<1>5. 0 \in T
  <2> DEFINE q == <<i>>
  <2>1. Sum(D, q) = D[i] /\ D[i] \in Nat
    BY <1>0, SumOne
  <2>2. q \in Seq(S) /\ q # << >> /\ q[1] = i
    OBVIOUS
  <2> HIDE DEF q, f
  <2>3. Fits(q)
    BY ONLY <1>4, <2>1, <2>2
  <2>4. paths[0] = {q} /\ 0 \in 0 .. n
    BY <1>1, <1>3 DEF q
  <2> HIDE DEF Fits
  <2> QED BY ONLY <2>3, <2>4
<1>6. ASSUME NEW k \in 1 .. n, k - 1 \in T PROVE k \in T
  <2>1. ASSUME NEW u \in Extended(S, paths[k - 1]) PROVE Fits(u)
    <3>1. PICK q \in paths[k - 1] : u \in {<<d>> \o q : d \in Internal(S, q[1])}
      BY DEF Extended
    <3>2. PICK d \in Internal(S, q[1]) : u = <<d>> \o q
      BY <3>1
    <3>3. q \in Seq(S) /\ q # << >> /\ Sum(D, q) + f[q[1]] <= f[i] + D[q[1]]
      BY <1>6
    <3>4. d \in S /\ q[1] \in S
      BY <3>3 DEF Internal
    <3>5. Sum(D, q) \in Nat /\ Sum(D, u) = D[d] + Sum(D, q) /\ u \in Seq(S)
      <4>1. D \in [S -> Nat \ {0}] /\ q \in Seq(S) /\ d \in S
        BY <1>0, <3>3, <3>4
      <4>2. Sum(D, q) \in Nat /\ Sum(D, <<d>> \o q) = D[d] + Sum(D, q) /\ <<d>> \o q \in Seq(S)
        BY ONLY <4>1, SumFront
      <4> QED BY ONLY <3>2, <4>2
    <3>6. f[d] + D[q[1]] <= f[q[1]]
      BY <3>4, FinishesAfter
    <3>7. u # << >> /\ u[1] = d
      BY <3>2, <3>3, <3>4
    <3>8. f[d] \in Nat /\ D[d] \in Nat /\ f[q[1]] \in Nat /\ D[q[1]] \in Nat
      BY <1>0, <3>4
    <3> HIDE DEF f
    <3>9. Sum(D, u) + f[d] <= f[i] + D[d]
      <4>1. Sum(D, q) + f[q[1]] <= f[i] + D[q[1]]
        BY ONLY <3>3
      <4>2. Sum(D, q) \in Nat /\ Sum(D, u) = D[d] + Sum(D, q)
        BY ONLY <3>5
      <4> QED BY ONLY <1>4, <3>6, <3>8, <4>1, <4>2
    <3> QED BY <3>5, <3>7, <3>9
  <2>2. \A q \in paths[k - 1] : Fits(q)
    BY <1>6
  <2>3. k \in 0 .. n
    BY <1>1
  <2> HIDE DEF Fits
  <2> QED BY <1>3, <2>1, <2>2, <2>3
<1>7. Fits(p)
  <2>1. n \in 0 .. n
    BY <1>1
  <2>2. n \in T
    <3> HIDE DEF T, n
    <3> QED BY <1>1, <1>5, <1>6, <2>1, Climbs
  <2> HIDE DEF Fits
  <2> QED BY <1>3, <2>2
<1>8. p[1] \in S
  BY <1>7
<1>9. Sum(D, p) \in Nat
  BY <1>0, <1>7, <1>8, SumFront
<1>10. /\ D[p[1]] <= f[p[1]] /\ f[i] <= Total(S, D) /\ Total(S, D) \in Nat
       /\ f[p[1]] \in Nat /\ D[p[1]] \in Nat
  BY <1>8, FinishesAfter, TotalIs
<1> HIDE DEF f
<1> QED BY <1>4, <1>7, <1>9, <1>10

\* The plan takes as long as its longest path.
LEMMA LongestIs ==
    ASSUME NEW S, NEW D, Charted(S, D), S # {}
    PROVE  Longest(S, D) = Total(S, D)
<1> DEFINE L == {Sum(D, q) : q \in UNION {PathsTo(S, i) : i \in S}}
           id == [l \in L |-> l]
<1>1. \A l \in L : l \in Nat /\ l <= Total(S, D)
  BY PathFits
<1>2. Total(S, D) \in L /\ Total(S, D) \in Nat
  <2> DEFINE q == CriticalChain(S, D)
  <2>1. Sum(D, q) = Total(S, D) /\ \E i \in S : q \in PathsTo(S, i)
    BY CriticalIs
  <2> HIDE DEF q
  <2> QED BY <2>1, TotalIs
<1>3. Longest(S, D) = Top(id, L)
  BY DEF Longest
<1> HIDE DEF L
<1>4. IsFiniteSet(L)
  BY <1>1, <1>2, FS_BoundedSetOfNaturals
<1>5. \A l \in L : id[l] = l
  OBVIOUS
<1> HIDE DEF id
<1>6. \A l \in L : id[l] \in Nat
  BY <1>1, <1>5
<1>7. /\ Top(id, L) \in Nat /\ \A l \in L : id[l] <= Top(id, L)
      /\ L # {} => \E l \in L : Top(id, L) = id[l]
  BY <1>4, <1>6, TopIs
<1>8. Total(S, D) <= Top(id, L) /\ Top(id, L) <= Total(S, D)
  BY <1>1, <1>2, <1>5, <1>7
<1> QED BY <1>2, <1>3, <1>7, <1>8

----------------------------------------------------------------------------
(* The peak *)

\* Moves have a time, and are a start or an end.
Timed(M) == \A x \in M : x[1] \in Nat /\ x[2] \in {1, -1}

\* One of some moves comes before the others.
Soonest(T) == CHOOSE x \in T : \A y \in T : ~Sweeps(y, x)

LEMMA SoonestIn ==
    ASSUME NEW T, Timed(T), T # {}
    PROVE  Soonest(T) \in T /\ \A y \in T : ~Sweeps(y, Soonest(T))
<1> DEFINE rank == [x \in T |-> 2 * x[1] + (IF x[2] = 1 THEN 1 ELSE 0)]
           R == {rank[x] : x \in T}
<1>1. R \in SUBSET Nat /\ R # {}
  <2>1. \A x \in T : 2 * x[1] + (IF x[2] = 1 THEN 1 ELSE 0) \in Nat
    BY DEF Timed
  <2>2. \A x \in T : rank[x] \in Nat
    BY <2>1
  <2> HIDE DEF rank
  <2> QED BY <2>2
<1>2. PICK r \in R : \A s \in R : r <= s
  <2> HIDE DEF R
  <2> QED BY <1>1, LeastNat
<1>3. PICK x \in T : r = rank[x]
  BY <1>2
<1>4. \A y \in T : ~Sweeps(y, x)
  <2> TAKE y \in T
  <2>1. rank[x] <= rank[y]
    <3>1. rank[y] \in R
      OBVIOUS
    <3> HIDE DEF R, rank
    <3> QED BY <1>2, <1>3, <3>1
  <2>2. /\ rank[x] = 2 * x[1] + (IF x[2] = 1 THEN 1 ELSE 0)
        /\ rank[y] = 2 * y[1] + (IF y[2] = 1 THEN 1 ELSE 0)
    OBVIOUS
  <2>3. x[1] \in Nat /\ x[2] \in {1, -1} /\ y[1] \in Nat /\ y[2] \in {1, -1}
    BY DEF Timed
  <2> HIDE DEF rank
  <2> QED BY ONLY <2>1, <2>2, <2>3 DEF Sweeps
<1> DEFINE P(z) == \A y \in T : ~Sweeps(y, z)
<1>5. Soonest(T) = CHOOSE z \in T : P(z)
  BY DEF Soonest
<1>6. Soonest(T) \in T /\ P(Soonest(T))
  <2>1. P(x)
    BY <1>4
  <2> HIDE DEF P
  <2> QED BY <1>5, <2>1
<1> QED BY <1>6

\* t lists some of the moves, each once, in order, and the others come after.
Swept(M, t) ==
    /\ t \in Seq(M) /\ Once(t)
    /\ \A a, b \in DOMAIN t : a < b => ~Sweeps(t[b], t[a])
    /\ \A a \in DOMAIN t : \A y \in M \ Range(t) : ~Sweeps(y, t[a])

LEMMA SweptNext ==
    ASSUME NEW M, Timed(M), NEW t, Swept(M, t), M \ Range(t) # {}
    PROVE  LET u == Append(t, Soonest(M \ Range(t)))
           IN  Swept(M, u) /\ Len(u) = Len(t) + 1
<1> DEFINE T == M \ Range(t)
           x == Soonest(T)
           u == Append(t, x)
           n == Len(t)
<1>1. /\ t \in Seq(M) /\ Once(t)
      /\ \A a, b \in DOMAIN t : a < b => ~Sweeps(t[b], t[a])
      /\ \A a \in DOMAIN t : \A y \in T : ~Sweeps(y, t[a])
  BY DEF Swept
<1>2. x \in T /\ \A y \in T : ~Sweeps(y, x)
  <2>1. Timed(T)
    BY DEF Timed
  <2>2. T # {}
    OBVIOUS
  <2> HIDE DEF T
  <2> QED BY <2>1, <2>2, SoonestIn
<1>3. x \in M /\ x \notin Range(t)
  BY <1>2
<1> HIDE DEF x
<1>4. /\ u \in Seq(M) /\ Len(u) = n + 1 /\ u[n + 1] = x
      /\ \A a \in 1 .. n : u[a] = t[a]
      /\ DOMAIN u = 1 .. (n + 1) /\ DOMAIN t = 1 .. n /\ n \in Nat
  BY <1>1, <1>3
<1>5. \A a \in 1 .. n : t[a] \in Range(t)
  BY <1>4 DEF Range
<1>6. Range(u) = Range(t) \cup {x}
  <2> HIDE DEF u, n
  <2>1. \A a \in 1 .. (n + 1) : a \in 1 .. n \/ a = n + 1
    BY <1>4
  <2>2. n + 1 \in 1 .. (n + 1) /\ \A a \in 1 .. n : a \in 1 .. (n + 1)
    BY <1>4
  <2>3. Range(u) = {u[a] : a \in 1 .. (n + 1)} /\ Range(t) = {t[a] : a \in 1 .. n}
    BY <1>4 DEF Range
  <2> QED BY <1>4, <2>1, <2>2, <2>3
<1> HIDE DEF u, n
<1>7. \A a, b \in 1 .. n : t[a] = t[b] => a = b
  BY <1>1, <1>4 DEF Once
<1>8. Once(u)
  <2> SUFFICES ASSUME NEW a \in 1 .. (n + 1), NEW b \in 1 .. (n + 1), u[a] = u[b] PROVE a = b
    BY <1>4 DEF Once
  <2>1. (a \in 1 .. n \/ a = n + 1) /\ (b \in 1 .. n \/ b = n + 1)
    BY <1>4
  <2> QED BY <1>3, <1>4, <1>5, <1>7, <2>1
<1>9. ASSUME NEW a \in DOMAIN u, NEW b \in DOMAIN u, a < b PROVE ~Sweeps(u[b], u[a])
  <2>1. a \in 1 .. n /\ (b \in 1 .. n \/ b = n + 1)
    BY <1>4, <1>9
  <2>2. CASE b = n + 1
    BY <1>1, <1>2, <1>4, <2>1, <2>2
  <2>3. CASE b \in 1 .. n
    BY <1>1, <1>4, <1>9, <2>1, <2>3
  <2> QED BY <2>1, <2>2, <2>3
<1>10. ASSUME NEW a \in DOMAIN u, NEW y \in M \ Range(u) PROVE ~Sweeps(y, u[a])
  <2>1. y \in T
    BY <1>6
  <2>2. a \in 1 .. n \/ a = n + 1
    BY <1>4
  <2> HIDE DEF T
  <2> QED BY <1>1, <1>2, <1>4, <2>1, <2>2
<1>11. Swept(M, u)
  BY <1>4, <1>8, <1>9, <1>10 DEF Swept
<1> QED BY <1>4, <1>11 DEF u, x, n

\* The moves sorted: all of them, each once, in order.
LEMMA SweepOrder ==
    ASSUME NEW M, Timed(M), IsFiniteSet(M)
    PROVE  LET t == Sorted(M, Sweeps) IN
           Swept(M, t) /\ Len(t) = Cardinality(M) /\ Range(t) = M
<1> DEFINE n == Cardinality(M)
           V == Seq(M \cup {Soonest({})})
           On(q) == LET T == M \ Range(q)
                    IN  Append(q, CHOOSE x \in T : \A y \in T : ~Sweeps(y, x))
           Builds(w) == w = [k \in 0 .. n |-> IF k = 0 THEN << >> ELSE On(w[k - 1])]
           step == [k \in 1 .. n |-> [q \in V |-> On(q)]]
<1>1. n \in Nat
  BY FS_CardinalityType
<1>2. Sorted(M, Sweeps) = (CHOOSE u : Builds(u))[n]
  BY DEF Sorted
<1>o. \A q : On(q) = Append(q, Soonest(M \ Range(q)))
  BY DEF Soonest
<1> HIDE DEF On
<1>3. \A q \in V : On(q) \in V
  <2> TAKE q \in V
  <2> DEFINE T == M \ Range(q)
  <2>1. Soonest(T) \in M \cup {Soonest({})}
    <3>1. CASE T = {}
      BY <3>1
    <3>2. CASE T # {}
      <4>1. Timed(T)
        BY DEF Timed
      <4> HIDE DEF T
      <4>2. Soonest(T) \in T
        BY <3>2, <4>1, SoonestIn
      <4> QED BY <4>2 DEF T
    <3> QED BY <3>1, <3>2
  <2> HIDE DEF T
  <2>2. Append(q, Soonest(T)) \in V
    BY <2>1
  <2> QED BY <1>o, <2>2 DEF T
<1>4. << >> \in V
  OBVIOUS
<1> HIDE DEF n, V
<1>5. Maps(step, n, V)
  BY <1>3 DEF Maps
<1>6. PICK w : Follows(w, n, V, << >>, step)
  <2> HIDE DEF step
  <2> QED BY <1>1, <1>4, <1>5, Recurs
<1>7. Builds(w)
  <2>1. w \in [0 .. n -> V] /\ w[0] = << >> /\ \A k \in 1 .. n : w[k] = step[k][w[k - 1]]
    BY <1>6 DEF Follows
  <2>3. \A k \in 1 .. n : w[k] = On(w[k - 1])
    <3> TAKE k \in 1 .. n
    <3>1. k - 1 \in 0 .. n
      BY <1>1
    <3>2. w[k - 1] \in V
      BY <2>1, <3>1
    <3> QED BY <2>1, <3>2
  <2>4. \A k \in 0 .. n : w[k] = IF k = 0 THEN << >> ELSE On(w[k - 1])
    BY <1>1, <2>1, <2>3
  <2> QED BY <2>1, <2>4
<1> DEFINE sort == CHOOSE u : Builds(u)
<1>8. Builds(sort)
  <2> HIDE DEF Builds
  <2> QED BY <1>7
<1> HIDE DEF sort
<1>9. sort[0] = << >> /\ \A k \in 1 .. n : sort[k] = On(sort[k - 1])
  BY <1>1, <1>8
<1> DEFINE T == {k \in 0 .. n : Swept(M, sort[k]) /\ Len(sort[k]) = k}
<1>10. 0 \in T
  <2>1. Swept(M, << >>) /\ Len(<< >>) = 0
    BY DEF Swept, Once
  <2>2. 0 \in 0 .. n /\ sort[0] = << >>
    BY <1>1, <1>9
  <2> QED BY ONLY <2>1, <2>2
<1>11. ASSUME NEW k \in 1 .. n, k - 1 \in T PROVE k \in T
  <2> DEFINE t == sort[k - 1]
             u == Append(t, Soonest(M \ Range(t)))
  <2>1. Swept(M, t) /\ Len(t) = k - 1
    BY <1>11
  <2>2. sort[k] = u
    BY <1>9, <1>o
  <2> HIDE DEF t
  <2>3. IsFiniteSet(Range(t)) /\ Cardinality(Range(t)) = k - 1 /\ Range(t) \subseteq M
    BY <2>1, OnceCard DEF Swept
  <2>4. M \ Range(t) # {}
    <3>1. Range(t) # M
      BY <1>1, <2>3 DEF n
    <3> QED BY <2>3, <3>1
  <2>5. Swept(M, u) /\ Len(u) = k - 1 + 1
    BY <2>1, <2>4, SweptNext
  <2>6. k \in 0 .. n /\ k - 1 + 1 = k
    BY <1>1
  <2> HIDE DEF u
  <2> QED BY ONLY <2>2, <2>5, <2>6
<1>12. Swept(M, sort[n]) /\ Len(sort[n]) = n
  <2>1. n \in 0 .. n
    BY <1>1
  <2>2. n \in T
    <3> HIDE DEF T
    <3> QED BY <1>1, <1>10, <1>11, <2>1, Climbs
  <2> QED BY <2>2
<1> DEFINE t == sort[n]
<1> HIDE DEF t
<1>13. Range(t) = M
  <2>1. Swept(M, t) /\ Len(t) = n
    BY <1>12 DEF t
  <2>2. IsFiniteSet(Range(t)) /\ Cardinality(Range(t)) = n /\ Range(t) \subseteq M
    BY <2>1, OnceCard DEF Swept
  <2> QED BY <2>2, FS_Subset DEF n
<1> QED BY <1>2, <1>12, <1>13 DEF sort, t, n

\* The starts and the ends of the scheduled intervals.
Moves(S, D) == IntervalEvents(S, D, Finishes(S, D))

LEMMA MovesAre ==
    ASSUME NEW S, NEW D, Charted(S, D)
    PROVE  /\ Timed(Moves(S, D)) /\ IsFiniteSet(Moves(S, D))
           /\ \A x \in Moves(S, D) :
                 x[3] \in S /\ x[1] = IF x[2] = 1 THEN Finishes(S, D)[x[3]] - D[x[3]]
                                      ELSE Finishes(S, D)[x[3]]
<1> DEFINE f == Finishes(S, D)
           A == {<<f[i] - D[i], 1, i>> : i \in S}
           B == {<<f[i], -1, i>> : i \in S}
           g == [i \in S |-> <<f[i] - D[i], 1, i>>]
           h == [i \in S |-> <<f[i], -1, i>>]
<1>0. IsFiniteSet(S) /\ \A i \in S : f[i] \in Nat /\ D[i] \in Nat /\ D[i] <= f[i]
  BY FinishesAfter DEF Charted
<1>1. Moves(S, D) = A \cup B
  BY DEF Moves, IntervalEvents
<1> HIDE DEF f
<1>2. \A i \in S : f[i] - D[i] \in Nat
  BY <1>0
<1>3. IsFiniteSet(A)
  <2>1. g \in Surjection(S, A)
    BY DEF Surjection
  <2> QED BY <1>0, <2>1, FS_Surjection
<1>4. IsFiniteSet(B)
  <2>1. h \in Surjection(S, B)
    BY DEF Surjection
  <2> QED BY <1>0, <2>1, FS_Surjection
<1>5. IsFiniteSet(A \cup B)
  <2> HIDE DEF A, B
  <2> QED BY <1>3, <1>4, FS_Union
<1>6. ASSUME NEW x \in A \cup B
      PROVE  /\ x[1] \in Nat /\ x[2] \in {1, -1} /\ x[3] \in S
             /\ x[1] = IF x[2] = 1 THEN f[x[3]] - D[x[3]] ELSE f[x[3]]
  <2>1. CASE x \in A
    <3>1. PICK i \in S : x = <<f[i] - D[i], 1, i>>
      BY <2>1
    <3> QED BY <1>2, <3>1
  <2>2. CASE x \in B
    <3>1. PICK i \in S : x = <<f[i], -1, i>>
      BY <2>2
    <3> QED BY <1>0, <3>1
  <2> QED BY <2>1, <2>2
<1> QED BY <1>1, <1>5, <1>6 DEF Timed, f

\* The running count and its highest value as functions of the moves so far.
Counts(o, run, peak) ==
    /\ run \in [0 .. Len(o) -> Int] /\ peak \in [0 .. Len(o) -> Int]
    /\ run[0] = 0 /\ peak[0] = 0
    /\ \A k \in 1 .. Len(o) : /\ run[k] = run[k - 1] + o[k][2]
                              /\ peak[k] = Greater(peak[k - 1], run[k])

LEMMA PeakCounts ==
    ASSUME NEW S, NEW D, Charted(S, D)
    PROVE  LET o == Sorted(Moves(S, D), Sweeps)
           IN  \E run, peak : Counts(o, run, peak) /\ Peak(S, D) = peak[Len(o)]
<1> DEFINE f == Finishes(S, D)
           moves == {<<f[i] - D[i], 1, i>> : i \in S} \cup {<<f[i], -1, i>> : i \in S}
           o == Sorted(moves, Sweeps)
           n == Len(o)
           V == [run : Int, peak : Int]
           v == [run |-> 0, peak |-> 0]
           On(c, k) == LET run == c.run + o[k][2]
                       IN  [run |-> run, peak |-> Greater(c.peak, run)]
           Builds(w) == w = [k \in 0 .. n |-> IF k = 0 THEN v ELSE On(w[k - 1], k)]
           step == [k \in 1 .. n |-> [c \in V |-> On(c, k)]]
<1>m. moves = Moves(S, D)
  BY DEF Moves, IntervalEvents
<1>1. n \in Nat /\ \A k \in 1 .. n : o[k][2] \in Int
  <2> DEFINE M == Moves(S, D)
             t == Sorted(M, Sweeps)
  <2>1. Timed(M) /\ IsFiniteSet(M)
    BY MovesAre
  <2> HIDE DEF M
  <2>2. Swept(M, t)
    BY <2>1, SweepOrder
  <2>3. t \in Seq(M)
    BY <2>2 DEF Swept
  <2> HIDE DEF t
  <2>4. Len(t) \in Nat /\ \A k \in 1 .. Len(t) : t[k] \in M
    BY <2>3
  <2>5. \A k \in 1 .. Len(t) : t[k][2] \in Int
    BY <2>1, <2>4 DEF Timed
  <2> HIDE DEF moves
  <2>6. o = t
    BY <1>m DEF t, M
  <2> HIDE DEF o
  <2> QED BY ONLY <2>4, <2>5, <2>6 DEF n
<1>2. Peak(S, D) = (CHOOSE u : Builds(u))[n].peak
  BY DEF Peak, PeakAlong, IntervalEvents
<1>s. o = Sorted(Moves(S, D), Sweeps)
  <2> HIDE DEF moves
  <2> QED BY <1>m
<1> HIDE DEF o
<1>3. \A k \in 1 .. n : \A c \in V : On(c, k) \in V
  BY <1>1 DEF Greater
<1>4. v \in V
  OBVIOUS
<1> HIDE DEF On, n, V, v
<1>5. Maps(step, n, V)
  BY <1>3 DEF Maps
<1>6. PICK w : Follows(w, n, V, v, step)
  <2> HIDE DEF step
  <2> QED BY <1>1, <1>4, <1>5, Recurs
<1>7. Builds(w)
  <2>1. w \in [0 .. n -> V] /\ w[0] = v /\ \A k \in 1 .. n : w[k] = step[k][w[k - 1]]
    BY <1>6 DEF Follows
  <2>3. \A k \in 1 .. n : w[k] = On(w[k - 1], k)
    <3> TAKE k \in 1 .. n
    <3>1. k - 1 \in 0 .. n
      BY <1>1
    <3>2. w[k - 1] \in V
      BY <2>1, <3>1
    <3> QED BY <2>1, <3>2
  <2>4. \A k \in 0 .. n : w[k] = IF k = 0 THEN v ELSE On(w[k - 1], k)
    BY <1>1, <2>1, <2>3
  <2> QED BY <2>1, <2>4
<1> DEFINE count == CHOOSE u : Builds(u)
<1>8. Builds(count)
  <2> HIDE DEF Builds
  <2> QED BY <1>7
<1> HIDE DEF count
<1>9. count[0] = v /\ \A k \in 1 .. n : count[k] = On(count[k - 1], k)
  BY <1>1, <1>8
<1>10. Unrolls(count, n, V, v, step)
  <2>1. count = [k \in 0 .. n |-> count[k]]
    BY <1>8
  <2>2. ASSUME NEW k \in 1 .. n, count[k - 1] \in V PROVE count[k] = step[k][count[k - 1]]
    BY <1>9, <2>2
  <2> HIDE DEF step
  <2> QED BY <1>9, <2>1, <2>2 DEF Unrolls
<1>11. Follows(count, n, V, v, step)
  <2> HIDE DEF step
  <2> QED BY <1>1, <1>4, <1>5, <1>10, UnrollsFollows
<1>12. count \in [0 .. n -> V]
  BY <1>11 DEF Follows
<1> DEFINE run == [k \in 0 .. n |-> count[k].run]
           peak == [k \in 0 .. n |-> count[k].peak]
<1>13. \A k \in 0 .. n : count[k].run \in Int /\ count[k].peak \in Int
  BY <1>12 DEF V
<1>14. Counts(o, run, peak)
  <2>1. count[0].run = 0 /\ count[0].peak = 0 /\ 0 \in 0 .. n
    BY <1>1, <1>9 DEF v
  <2>2. ASSUME NEW k \in 1 .. n
        PROVE  /\ count[k].run = count[k - 1].run + o[k][2]
               /\ count[k].peak = Greater(count[k - 1].peak, count[k].run)
    <3>1. count[k] = On(count[k - 1], k)
      BY <1>9
    <3> QED BY ONLY <3>1 DEF On
  <2>3. \A k \in 1 .. n : k \in 0 .. n /\ k - 1 \in 0 .. n
    BY <1>1
  <2> QED BY <1>13, <2>1, <2>2, <2>3 DEF Counts, n
<1>15. Peak(S, D) = peak[n]
  <2>1. n \in 0 .. n
    BY <1>1
  <2> QED BY <1>2, <2>1 DEF count
<1> HIDE DEF run, peak
<1> QED BY <1>14, <1>15, <1>s DEF n

Begins(f, D, i) == <<f[i] - D[i], 1, i>>
Ends(f, i) == <<f[i], -1, i>>

\* o lists the n moves of the intervals of S, in order.
Sweep(S, D, f, o, n) ==
    /\ n \in Nat /\ IsFiniteSet(S)
    /\ \A i \in S : f[i] \in Nat /\ D[i] \in Nat \ {0} /\ D[i] <= f[i]
    /\ \A a, b \in 1 .. n : (o[a] = o[b] => a = b) /\ (a < b => ~Sweeps(o[b], o[a]))
    /\ \A i \in S : (\E a \in 1 .. n : o[a] = Begins(f, D, i)) /\ (\E a \in 1 .. n : o[a] = Ends(f, i))
    /\ \A a \in 1 .. n : \E i \in S : o[a] = Begins(f, D, i) \/ o[a] = Ends(f, i)

\* The intervals open after k moves.
Opened(S, D, f, o, k) ==
    {i \in S : /\ \E a \in 1 .. k : o[a] = Begins(f, D, i)
               /\ \A a \in 1 .. k : o[a] # Ends(f, i)}

\* A move opens an interval, or closes one that is open.
LEMMA OpenMoves ==
    ASSUME NEW S, NEW D, NEW f, NEW o, NEW n, Sweep(S, D, f, o, n), NEW k \in 1 .. n
    PROVE  \E i \in S :
              \/ /\ o[k] = Begins(f, D, i) /\ i \notin Opened(S, D, f, o, k - 1)
                 /\ Opened(S, D, f, o, k) = Opened(S, D, f, o, k - 1) \cup {i}
              \/ /\ o[k] = Ends(f, i) /\ i \in Opened(S, D, f, o, k - 1)
                 /\ Opened(S, D, f, o, k) = Opened(S, D, f, o, k - 1) \ {i}
<1>1. /\ n \in Nat /\ IsFiniteSet(S)
      /\ \A i \in S : f[i] \in Nat /\ D[i] \in Nat \ {0} /\ D[i] <= f[i]
      /\ \A a, b \in 1 .. n : (o[a] = o[b] => a = b) /\ (a < b => ~Sweeps(o[b], o[a]))
      /\ \A i \in S : /\ \E a \in 1 .. n : o[a] = Begins(f, D, i)
                      /\ \E a \in 1 .. n : o[a] = Ends(f, i)
      /\ \A a \in 1 .. n : \E i \in S : o[a] = Begins(f, D, i) \/ o[a] = Ends(f, i)
  BY DEF Sweep
<1>2. \A i, j \in S : /\ Begins(f, D, i) # Ends(f, j)
                      /\ Begins(f, D, i) = Begins(f, D, j) => i = j
                      /\ Ends(f, i) = Ends(f, j) => i = j
  BY DEF Begins, Ends
<1>3. \A i \in S : Sweeps(Begins(f, D, i), Ends(f, i))
  <2> TAKE i \in S
  <2>1. f[i] - D[i] < f[i]
    BY <1>1
  <2> QED BY <2>1 DEF Sweeps, Begins, Ends
<1>4. \A i \in S : \A a, b \in 1 .. n : o[a] = Ends(f, i) /\ o[b] = Begins(f, D, i) => b < a
  <2> SUFFICES ASSUME NEW i \in S, NEW a \in 1 .. n, NEW b \in 1 .. n,
                      o[a] = Ends(f, i), o[b] = Begins(f, D, i), ~(b < a)
               PROVE FALSE
    OBVIOUS
  <2>1. a # b
    BY <1>2
  <2>2. a < b
    BY <1>1, <2>1
  <2> QED BY <1>1, <1>3, <2>2
<1>5. \A a \in 1 .. (k - 1) : a \in 1 .. n /\ a # k
  BY <1>1
<1>6. \A a \in 1 .. k : a \in 1 .. (k - 1) \/ a = k
  BY <1>1
<1>7. \A a \in 1 .. (k - 1) : a \in 1 .. k
  BY <1>1
<1>8. k \in 1 .. k
  BY <1>1
<1> DEFINE was == Opened(S, D, f, o, k - 1)
           is  == Opened(S, D, f, o, k)
<1>9. PICK i \in S : o[k] = Begins(f, D, i) \/ o[k] = Ends(f, i)
  BY <1>1
<1>10. CASE o[k] = Begins(f, D, i)
  <2>1. \A a \in 1 .. (k - 1) : o[a] # Begins(f, D, i)
    BY <1>1, <1>5, <1>10
  <2>2. i \notin was
    BY <2>1 DEF Opened
  <2>3. \A a \in 1 .. k : o[a] # Ends(f, i)
    <3> SUFFICES ASSUME NEW a \in 1 .. k, o[a] = Ends(f, i) PROVE FALSE
      OBVIOUS
    <3>1. a \in 1 .. n
      BY <1>1
    <3>2. k < a
      BY <1>4, <1>10, <3>1
    <3> QED BY <1>1, <3>2
  <2>4. i \in is
    BY <1>8, <1>10, <2>3 DEF Opened
  <2>5. ASSUME NEW j \in S, j # i PROVE j \in is <=> j \in was
    <3>1. o[k] # Begins(f, D, j) /\ o[k] # Ends(f, j)
      BY <1>2, <1>10, <2>5
    <3>2. (\E a \in 1 .. k : o[a] = Begins(f, D, j)) <=> (\E a \in 1 .. (k - 1) : o[a] = Begins(f, D, j))
      BY <1>6, <1>7, <3>1
    <3>3. (\A a \in 1 .. k : o[a] # Ends(f, j)) <=> (\A a \in 1 .. (k - 1) : o[a] # Ends(f, j))
      BY <1>6, <1>7, <3>1
    <3> QED BY <3>2, <3>3 DEF Opened
  <2>6. is \subseteq S /\ was \subseteq S
    BY DEF Opened
  <2> HIDE DEF is, was
  <2>7. is = was \cup {i}
    BY <2>4, <2>5, <2>6
  <2> QED BY <1>10, <2>2, <2>7 DEF is, was
<1>11. CASE o[k] = Ends(f, i)
  <2>1. \A a \in 1 .. (k - 1) : o[a] # Ends(f, i)
    BY <1>1, <1>5, <1>11
  <2>2. PICK b \in 1 .. n : o[b] = Begins(f, D, i)
    BY <1>1
  <2>3. b < k
    BY <1>4, <1>11, <2>2
  <2>4. b \in 1 .. (k - 1)
    BY <1>1, <2>3
  <2>5. i \in was
    BY <2>1, <2>2, <2>4 DEF Opened
  <2>6. i \notin is
    BY <1>8, <1>11 DEF Opened
  <2>7. ASSUME NEW j \in S, j # i PROVE j \in is <=> j \in was
    <3>1. o[k] # Begins(f, D, j) /\ o[k] # Ends(f, j)
      BY <1>2, <1>11, <2>7
    <3>2. (\E a \in 1 .. k : o[a] = Begins(f, D, j)) <=> (\E a \in 1 .. (k - 1) : o[a] = Begins(f, D, j))
      BY <1>6, <1>7, <3>1
    <3>3. (\A a \in 1 .. k : o[a] # Ends(f, j)) <=> (\A a \in 1 .. (k - 1) : o[a] # Ends(f, j))
      BY <1>6, <1>7, <3>1
    <3> QED BY <3>2, <3>3 DEF Opened
  <2>8. is \subseteq S /\ was \subseteq S
    BY DEF Opened
  <2> HIDE DEF is, was
  <2>9. is = was \ {i}
    BY <2>6, <2>7, <2>8
  <2> QED BY <1>11, <2>5, <2>9 DEF is, was
<1> QED BY <1>9, <1>10, <1>11

\* The nodes running at an instant.
RunningAt(S, D, f, at) == {i \in S : f[i] - D[i] <= at /\ at < f[i]}

\* After a start, what is open is running at that time.
LEMMA OpenRuns ==
    ASSUME NEW S, NEW D, NEW f, NEW o, NEW n, Sweep(S, D, f, o, n), NEW k \in 1 .. n,
           NEW i \in S, o[k] = Begins(f, D, i)
    PROVE  Opened(S, D, f, o, k) \subseteq RunningAt(S, D, f, f[i] - D[i])
<1>1. /\ n \in Nat
      /\ \A j \in S : f[j] \in Nat /\ D[j] \in Nat \ {0} /\ D[j] <= f[j]
      /\ \A a, b \in 1 .. n : (o[a] = o[b] => a = b) /\ (a < b => ~Sweeps(o[b], o[a]))
      /\ \A j \in S : \E a \in 1 .. n : o[a] = Ends(f, j)
  BY DEF Sweep
<1> SUFFICES ASSUME NEW j \in Opened(S, D, f, o, k)
             PROVE  j \in RunningAt(S, D, f, f[i] - D[i])
  OBVIOUS
<1>2. j \in S /\ \A a \in 1 .. k : o[a] # Ends(f, j)
  BY DEF Opened
<1>3. PICK a \in 1 .. k : o[a] = Begins(f, D, j)
  BY DEF Opened
<1>4. /\ f[i] \in Nat /\ D[i] \in Nat /\ f[j] \in Nat /\ D[j] \in Nat
      /\ f[i] - D[i] \in Int /\ f[j] - D[j] \in Int
  BY <1>1, <1>2
<1>5. f[j] - D[j] <= f[i] - D[i]
  <2>1. CASE a = k
    <3>1. Begins(f, D, i) = Begins(f, D, j)
      BY <1>3, <2>1
    <3>2. f[i] - D[i] = f[j] - D[j]
      BY <3>1 DEF Begins
    <3> QED BY <1>4, <3>2
  <2>2. CASE a # k
    <3>1. a \in 1 .. n /\ a < k
      BY <1>1, <2>2
    <3>2. ~Sweeps(Begins(f, D, i), Begins(f, D, j))
      BY <1>1, <1>3, <3>1
    <3>3. ~(f[i] - D[i] < f[j] - D[j])
      BY <3>2 DEF Sweeps, Begins
    <3> QED BY <1>4, <3>3
  <2> QED BY <2>1, <2>2
<1>6. f[i] - D[i] < f[j]
  <2>1. PICK b \in 1 .. n : o[b] = Ends(f, j)
    BY <1>1, <1>2
  <2>2. b \notin 1 .. k
    BY <1>2, <2>1
  <2>3. k < b
    BY <1>1, <2>2
  <2>4. ~Sweeps(Ends(f, j), Begins(f, D, i))
    BY <1>1, <2>1, <2>3
  <2>5. ~(f[j] < f[i] - D[i]) /\ f[j] # f[i] - D[i]
    BY <2>4 DEF Sweeps, Begins, Ends
  <2> QED BY <1>4, <2>5
<1> QED BY <1>2, <1>5, <1>6 DEF RunningAt

\* What runs at an instant is open once the moves up to it are made.
LEMMA RunsOpen ==
    ASSUME NEW S, NEW D, NEW f, NEW o, NEW n, Sweep(S, D, f, o, n), NEW at \in Nat
    PROVE  \E k \in 0 .. n : RunningAt(S, D, f, at) \subseteq Opened(S, D, f, o, k)
<1>1. /\ n \in Nat
      /\ \A j \in S : f[j] \in Nat /\ D[j] \in Nat \ {0} /\ D[j] <= f[j]
      /\ \A a, b \in 1 .. n : (o[a] = o[b] => a = b) /\ (a < b => ~Sweeps(o[b], o[a]))
      /\ \A i \in S : /\ \E a \in 1 .. n : o[a] = Begins(f, D, i)
                      /\ \E a \in 1 .. n : o[a] = Ends(f, i)
      /\ \A a \in 1 .. n : \E i \in S : o[a] = Begins(f, D, i) \/ o[a] = Ends(f, i)
  BY DEF Sweep
<1>2. \A a \in 1 .. n : o[a][1] \in Int
  <2> TAKE a \in 1 .. n
  <2>1. PICK i \in S : o[a] = Begins(f, D, i) \/ o[a] = Ends(f, i)
    BY <1>1
  <2>2. f[i] \in Nat /\ D[i] \in Nat
    BY <1>1
  <2> QED BY <2>1, <2>2 DEF Begins, Ends
<1> DEFINE K == {k \in 0 .. n : \A a \in 1 .. k : o[a][1] <= at}
           id == [k \in K |-> k]
<1>3. PICK k \in K : \A m \in K : m <= k
  <2>1. K \subseteq 0 .. n /\ 0 \in K
    BY <1>1
  <2>2. IsFiniteSet(0 .. n)
    BY <1>1, FS_Interval
  <2>3. \A x \in K : id[x] = x /\ id[x] \in Int
    BY <1>1
  <2> HIDE DEF K, id
  <2>4. IsFiniteSet(K) /\ K # {}
    BY <2>1, <2>2, FS_Subset
  <2>5. \E x \in K : \A y \in K : id[y] <= id[x]
    BY <2>3, <2>4, GreatestNat
  <2> QED BY <2>3, <2>5
<1>4. k \in 0 .. n /\ \A a \in 1 .. k : o[a][1] <= at
  BY <1>3
<1>5. ASSUME NEW b \in 1 .. n, k < b PROVE at < o[b][1]
  <2>1. k + 1 \in 1 .. n /\ k + 1 <= b /\ k + 1 \notin K
    <3>1. k + 1 \in 1 .. n /\ k + 1 <= b
      BY <1>1, <1>4, <1>5
    <3>2. ~(k + 1 <= k)
      BY <1>4
    <3> HIDE DEF K
    <3> QED BY <1>3, <3>1, <3>2
  <2>2. PICK a \in 1 .. (k + 1) : ~(o[a][1] <= at)
    BY <1>1, <2>1
  <2>3. a = k + 1
    <3>1. a \notin 1 .. k
      BY <1>4, <2>2
    <3> QED BY <1>4, <3>1
  <2>4. at < o[k + 1][1]
    BY <1>2, <2>1, <2>2, <2>3
  <2>5. CASE b = k + 1
    BY <2>4, <2>5
  <2>6. CASE b # k + 1
    <3>1. k + 1 < b
      BY <1>4, <2>1, <2>6
    <3>2. ~Sweeps(o[b], o[k + 1])
      BY <1>1, <2>1, <3>1
    <3>3. ~(o[b][1] < o[k + 1][1])
      BY <3>2 DEF Sweeps
    <3>4. o[b][1] \in Int /\ o[k + 1][1] \in Int
      BY <1>2, <2>1
    <3> QED BY <2>4, <3>3, <3>4
  <2> QED BY <2>5, <2>6
<1>6. ASSUME NEW i \in RunningAt(S, D, f, at) PROVE i \in Opened(S, D, f, o, k)
  <2>1. i \in S /\ f[i] - D[i] <= at /\ at < f[i] /\ f[i] \in Nat /\ D[i] \in Nat
    BY <1>1 DEF RunningAt
  <2>2. PICK a \in 1 .. n : o[a] = Begins(f, D, i)
    BY <1>1, <2>1
  <2>3. o[a][1] = f[i] - D[i]
    BY <2>2 DEF Begins
  <2>4. ~(k < a)
    BY <1>5, <2>1, <2>3
  <2>5. a \in 1 .. k
    BY <1>1, <1>4, <2>4
  <2>6. ASSUME NEW b \in 1 .. k, o[b] = Ends(f, i) PROVE FALSE
    <3>1. o[b][1] = f[i] /\ o[b][1] <= at
      BY <1>4, <2>6 DEF Ends
    <3> QED BY <2>1, <3>1
  <2> QED BY <2>1, <2>2, <2>5, <2>6 DEF Opened
<1> QED BY <1>4, <1>6

\* The sorted moves of a chart list its intervals.
LEMMA SweepIs ==
    ASSUME NEW S, NEW D, Charted(S, D)
    PROVE  LET o == Sorted(Moves(S, D), Sweeps)
           IN  Sweep(S, D, Finishes(S, D), o, Len(o))
<1> DEFINE M == Moves(S, D)
           o == Sorted(M, Sweeps)
           n == Len(o)
           f == Finishes(S, D)
<1>1. Timed(M) /\ IsFiniteSet(M)
  BY MovesAre
<1>2. M = {Begins(f, D, i) : i \in S} \cup {Ends(f, i) : i \in S}
  BY DEF Moves, IntervalEvents, Begins, Ends
<1>3. IsFiniteSet(S) /\ \A i \in S : f[i] \in Nat /\ D[i] \in Nat \ {0} /\ D[i] <= f[i]
  BY FinishesAfter DEF Charted
<1> HIDE DEF M, f
<1>4. Swept(M, o) /\ Range(o) = M
  BY <1>1, SweepOrder
<1> HIDE DEF o
<1>5. /\ o \in Seq(M) /\ Once(o)
      /\ \A a, b \in DOMAIN o : a < b => ~Sweeps(o[b], o[a])
  BY <1>4 DEF Swept
<1>6. n \in Nat /\ DOMAIN o = 1 .. n /\ \A a \in 1 .. n : o[a] \in M
  BY <1>5
<1>7. \A x \in M : \E a \in 1 .. n : o[a] = x
  BY <1>4, <1>6 DEF Range
<1> HIDE DEF n
<1>8. \A a, b \in 1 .. n : (o[a] = o[b] => a = b) /\ (a < b => ~Sweeps(o[b], o[a]))
  BY <1>5, <1>6 DEF Once
<1>9. \A i \in S : (\E a \in 1 .. n : o[a] = Begins(f, D, i)) /\ (\E a \in 1 .. n : o[a] = Ends(f, i))
  BY <1>2, <1>7
<1>10. \A a \in 1 .. n : \E i \in S : o[a] = Begins(f, D, i) \/ o[a] = Ends(f, i)
  BY <1>2, <1>6
<1>11. Sweep(S, D, f, o, n)
  BY <1>3, <1>6, <1>8, <1>9, <1>10 DEF Sweep
<1> QED BY <1>11 DEF M, o, n, f

\* The peak is the largest number of nodes running at one instant.
LEMMA PeakIs ==
    ASSUME NEW S, NEW D, Charted(S, D)
    PROVE  LET runs == [at \in 0 .. Total(S, D) |->
                           Cardinality(RunningAt(S, D, Finishes(S, D), at))]
           IN  Peak(S, D) = Top(runs, 0 .. Total(S, D))
<1> DEFINE o == Sorted(Moves(S, D), Sweeps)
           n == Len(o)
           f == Finishes(S, D)
           total == Total(S, D)
           runs == [at \in 0 .. total |-> Cardinality(RunningAt(S, D, f, at))]
           top == Top(runs, 0 .. total)
           Open(k) == Opened(S, D, f, o, k)
<1>1. PICK run, peak : Counts(o, run, peak) /\ Peak(S, D) = peak[n]
  BY PeakCounts
<1>2. Sweep(S, D, f, o, n)
  BY SweepIs
<1>3. total \in Nat /\ \A i \in S : f[i] <= total
  BY TotalIs
<1> HIDE DEF o, f, total
<1>4. /\ n \in Nat /\ IsFiniteSet(S)
      /\ \A i \in S : f[i] \in Nat /\ D[i] \in Nat \ {0} /\ D[i] <= f[i]
  BY <1>2 DEF Sweep
<1>5. /\ run \in [0 .. n -> Int] /\ peak \in [0 .. n -> Int]
      /\ run[0] = 0 /\ peak[0] = 0
      /\ \A k \in 1 .. n : /\ run[k] = run[k - 1] + o[k][2]
                           /\ peak[k] = Greater(peak[k - 1], run[k])
  BY <1>1 DEF Counts
<1> HIDE DEF n
<1>6. \A T \in SUBSET S : IsFiniteSet(T) /\ Cardinality(T) \in Nat
  BY <1>4, FS_Subset, FS_CardinalityType
<1>7. \A at : RunningAt(S, D, f, at) \in SUBSET S
  BY DEF RunningAt
<1>8. \A k : Open(k) \in SUBSET S
  BY DEF Opened
<1>9. \A at \in 0 .. total : runs[at] = Cardinality(RunningAt(S, D, f, at)) /\ runs[at] \in Nat
  BY <1>6, <1>7
<1>10. top \in Nat /\ \A at \in 0 .. total : runs[at] <= top
  <2>1. IsFiniteSet(0 .. total)
    BY <1>3, FS_Interval
  <2> HIDE DEF runs
  <2> QED BY <1>9, <2>1, TopIs
<1>11. \E at \in 0 .. total : top = runs[at]
  <2>0. IsFiniteSet(0 .. total)
    BY <1>3, FS_Interval
  <2>1. IsFiniteSet(0 .. total) /\ 0 .. total # {} /\ \A x \in 0 .. total : runs[x] \in Nat
    BY <1>3, <1>9, <2>0
  <2> HIDE DEF runs
  <2> QED BY <2>1, TopIs
<1> HIDE DEF runs, top, Open
<1> DEFINE T == {k \in 0 .. n : run[k] = Cardinality(Open(k)) /\ run[k] <= top}
<1>12. 0 \in T
  <2>1. Open(0) = {}
    BY DEF Open, Opened
  <2>2. Cardinality({}) = 0
    BY FS_EmptySet
  <2>3. 0 \in 0 .. n
    BY <1>4
  <2>4. run[0] = Cardinality(Open(0)) /\ run[0] <= top
    <3>1. run[0] = 0 /\ Cardinality(Open(0)) = 0
      BY <1>5, <2>1, <2>2
    <3> QED BY ONLY <1>10, <3>1
  <2> QED BY <2>3, <2>4
<1>13. ASSUME NEW k \in 1 .. n, k - 1 \in T PROVE k \in T
  <2>1. run[k - 1] = Cardinality(Open(k - 1)) /\ run[k - 1] <= top /\ run[k - 1] \in Int
    BY <1>5, <1>13
  <2>2. run[k] = run[k - 1] + o[k][2] /\ k \in 0 .. n
    BY <1>4, <1>5
  <2>3. PICK i \in S :
           \/ /\ o[k] = Begins(f, D, i) /\ i \notin Open(k - 1)
              /\ Open(k) = Open(k - 1) \cup {i}
           \/ /\ o[k] = Ends(f, i) /\ i \in Open(k - 1)
              /\ Open(k) = Open(k - 1) \ {i}
    BY <1>2, OpenMoves DEF Open
  <2>4. IsFiniteSet(Open(k - 1)) /\ Cardinality(Open(k - 1)) \in Nat
    BY <1>6, <1>8
  <2>5. CASE o[k] = Begins(f, D, i)
    <3>1. i \notin Open(k - 1) /\ Open(k) = Open(k - 1) \cup {i}
      BY <2>3, <2>5 DEF Begins, Ends
    <3>2. Cardinality(Open(k)) = Cardinality(Open(k - 1)) + 1
      BY <2>4, <3>1, FS_AddElement
    <3>3. o[k][2] = 1
      BY <2>5 DEF Begins
    <3> DEFINE at == f[i] - D[i]
    <3>4. at \in 0 .. total
      <4>1. f[i] \in Nat /\ D[i] \in Nat /\ D[i] <= f[i] /\ f[i] <= total
        BY <1>3, <1>4
      <4> QED BY <1>3, <4>1
    <3>5. Open(k) \subseteq RunningAt(S, D, f, at)
      BY <1>2, <2>5, OpenRuns DEF Open
    <3> HIDE DEF at
    <3>6. Cardinality(Open(k)) <= Cardinality(RunningAt(S, D, f, at))
      BY <1>6, <1>7, <3>5, FS_Subset
    <3>7. runs[at] = Cardinality(RunningAt(S, D, f, at)) /\ runs[at] <= top /\ runs[at] \in Nat
      BY <1>9, <1>10, <3>4
    <3>8. run[k] = Cardinality(Open(k)) /\ run[k] <= top
      BY ONLY <1>10, <2>1, <2>2, <2>4, <3>2, <3>3, <3>6, <3>7
    <3> QED BY <2>2, <3>8
  <2>6. CASE o[k] # Begins(f, D, i)
    <3>1. o[k] = Ends(f, i) /\ i \in Open(k - 1) /\ Open(k) = Open(k - 1) \ {i}
      BY <2>3, <2>6
    <3>2. Cardinality(Open(k)) = Cardinality(Open(k - 1)) - 1
      BY <2>4, <3>1, FS_RemoveElement
    <3>3. o[k][2] = -1
      BY <3>1 DEF Ends
    <3>4. run[k] = Cardinality(Open(k)) /\ run[k] <= top
      BY ONLY <1>10, <2>1, <2>2, <2>4, <3>2, <3>3
    <3> QED BY <2>2, <3>4
  <2> QED BY <2>5, <2>6
<1>14. \A k \in 0 .. n : k \in T
  <2> HIDE DEF T
  <2> QED BY <1>4, <1>12, <1>13, Climbs
<1>15. \A k \in 0 .. n : run[k] = Cardinality(Open(k)) /\ run[k] <= top /\ run[k] \in Int /\ peak[k] \in Int
  BY <1>5, <1>14
<1> DEFINE U == {k \in 0 .. n : peak[k] <= top /\ \A m \in 0 .. k : run[m] <= peak[k]}
<1>16. 0 \in U
  <2>1. 0 \in 0 .. n /\ \A m \in 0 .. 0 : m = 0
    BY <1>4
  <2> QED BY <1>5, <1>10, <2>1
<1>17. ASSUME NEW k \in 1 .. n, k - 1 \in U PROVE k \in U
  <2>1. k \in 0 .. n /\ k - 1 \in 0 .. n /\ \A m \in 0 .. k : m \in 0 .. n /\ (m = k \/ m \in 0 .. (k - 1))
    BY <1>4
  <2>2. peak[k - 1] <= top /\ \A m \in 0 .. (k - 1) : run[m] <= peak[k - 1]
    BY <1>17
  <2>3. peak[k] = Greater(peak[k - 1], run[k])
    BY <1>5
  <2>4. /\ peak[k - 1] \in Int /\ run[k] \in Int /\ run[k] <= top
        /\ \A m \in 0 .. k : run[m] \in Int
    BY <1>15, <2>1
  <2>5. peak[k] \in Int /\ peak[k] <= top /\ peak[k - 1] <= peak[k] /\ run[k] <= peak[k]
    BY ONLY <1>10, <2>2, <2>3, <2>4 DEF Greater
  <2>6. ASSUME NEW m \in 0 .. k PROVE run[m] <= peak[k]
    <3>1. CASE m = k
      BY <2>5, <3>1
    <3>2. CASE m # k
      <4>1. run[m] <= peak[k - 1] /\ run[m] \in Int
        BY <2>1, <2>2, <2>4, <3>2
      <4> QED BY ONLY <2>4, <2>5, <4>1
    <3> QED BY <3>1, <3>2
  <2> QED BY <2>1, <2>5, <2>6
<1>18. n \in U
  <2>1. n \in 0 .. n
    BY <1>4
  <2> HIDE DEF U
  <2> QED BY <1>4, <1>16, <1>17, <2>1, Climbs
<1>19. peak[n] <= top /\ peak[n] \in Int /\ \A m \in 0 .. n : run[m] <= peak[n]
  <2>1. n \in 0 .. n
    BY <1>4
  <2> QED BY <1>5, <1>18, <2>1
<1>20. top <= peak[n]
  <2>1. PICK at \in 0 .. total : top = runs[at]
    BY <1>11
  <2>2. at \in Nat
    BY <1>3
  <2>3. PICK k \in 0 .. n : RunningAt(S, D, f, at) \subseteq Open(k)
    BY <1>2, <2>2, RunsOpen DEF Open
  <2>4. Cardinality(RunningAt(S, D, f, at)) <= Cardinality(Open(k))
    BY <1>6, <1>8, <2>3, FS_Subset
  <2>5. runs[at] = Cardinality(RunningAt(S, D, f, at)) /\ runs[at] \in Nat
    BY <1>9
  <2>6. run[k] = Cardinality(Open(k)) /\ run[k] <= peak[n] /\ run[k] \in Int
    BY <1>15, <1>19
  <2> QED BY ONLY <1>19, <2>1, <2>4, <2>5, <2>6
<1>21. peak[n] = top
  BY <1>10, <1>19, <1>20
<1> QED BY <1>1, <1>21 DEF top, runs, total, f, n, o

----------------------------------------------------------------------------
(* The chart *)

\* The chart of any finite scope without cycles is sound.
LEMMA ChartIs ==
    ASSUME Charted(PlanNodes, PlanMinutes)
    PROVE  ChartSound
<1> DEFINE S == PlanNodes
           D == PlanMinutes
           t == Topo(S)
           g == Gantt(S, D)
           q == g.path
           Slip(i, m) == Total(S, [D EXCEPT ![i] = @ + m])
           Running(at) == Cardinality({i \in S : g.finish[i] - D[i] <= at /\ at < g.finish[i]})
<1>1. /\ g.finish = Finishes(S, D) /\ g.slack = Slack(S, D) /\ g.path = CriticalChain(S, D)
      /\ g.minutes = Total(S, D) /\ g.peak = Peak(S, D)
  BY DEF Gantt
<1>2. Charted(S, D)
  OBVIOUS
<1> HIDE DEF S, D
<1>3. Ordered(S, t)
  BY <1>2, TopoOrdered DEF Charted
<1>4. ASSUME S # {} PROVE Loads(S)
  BY <1>3, <1>4 DEF Ordered, Loads
<1>5. ASSUME NEW a \in DOMAIN t, NEW b \in DOMAIN t, <<t[a], t[b]>> \in dep PROVE b < a
  <2>1. t[a] \in S /\ t[b] \in S /\ Once(t) /\ S \subseteq Issues
    BY <1>2, <1>3 DEF Ordered, Charted
  <2>2. t[b] \in Internal(S, t[a])
    BY <1>5, <2>1 DEF Internal, Blockers
  <2> HIDE DEF t
  <2>3. PICK c \in DOMAIN t : t[c] = t[b] /\ c < a
    BY <1>3, <2>2, EdgesGoBack
  <2>4. c = b
    BY <2>1, <2>3 DEF Once
  <2> QED BY <2>3, <2>4
<1>6. ASSUME S # {}
      PROVE  /\ \A k \in 1 .. Len(q) - 1 : <<q[k + 1], q[k]>> \in dep
             /\ Sum(D, q) = g.minutes /\ g.minutes = Longest(S, D)
  <2> DEFINE c == CriticalChain(S, D)
  <2>1. /\ \A k \in 1 .. Len(c) - 1 : c[k] \in Internal(S, c[k + 1])
        /\ Sum(D, c) = Total(S, D)
    BY <1>2, <1>6, CriticalIs
  <2>2. Longest(S, D) = Total(S, D)
    BY <1>2, <1>6, LongestIs
  <2> HIDE DEF c
  <2>3. \A k \in 1 .. Len(c) - 1 : <<c[k + 1], c[k]>> \in dep
    BY <2>1 DEF Internal, Blockers
  <2>4. q = c
    BY <1>1 DEF c
  <2> HIDE DEF q, g
  <2> QED BY <1>1, <2>1, <2>2, <2>3, <2>4
<1>7. ASSUME NEW i \in S
      PROVE  /\ Slip(i, g.slack[i]) = g.minutes
             /\ Slip(i, g.slack[i] + 1) > g.minutes
  <2>1. /\ Slip(i, Slack(S, D)[i]) = Total(S, D)
        /\ Slip(i, Slack(S, D)[i] + 1) > Total(S, D)
    BY <1>2, SlackExact
  <2> HIDE DEF Slip, g
  <2> QED BY <1>1, <2>1
<1>8. g.peak = Top([at \in 0 .. g.minutes |-> Running(at)], 0 .. g.minutes)
  <2>1. Peak(S, D) = Top([at \in 0 .. Total(S, D) |->
                            Cardinality(RunningAt(S, D, Finishes(S, D), at))], 0 .. Total(S, D))
    BY <1>2, PeakIs
  <2> HIDE DEF g
  <2>2. \A at : Running(at) = Cardinality(RunningAt(S, D, Finishes(S, D), at))
    BY <1>1 DEF RunningAt
  <2> HIDE DEF Running
  <2> QED BY <1>1, <2>1, <2>2
<1> HIDE DEF t, g, q, Slip, Running
<1>9. S # {} =>
          /\ Loads(S)
          /\ \A a, b \in DOMAIN t : <<t[a], t[b]>> \in dep => b < a
          /\ \A k \in 1..Len(q) - 1 : <<q[k + 1], q[k]>> \in dep
          /\ Sum(D, q) = g.minutes /\ g.minutes = Longest(S, D)
          /\ \A i \in S : /\ Slip(i, g.slack[i]) = g.minutes
                          /\ Slip(i, g.slack[i] + 1) > g.minutes
          /\ g.peak = Top([at \in 0..g.minutes |-> Running(at)], 0..g.minutes)
  BY <1>4, <1>5, <1>6, <1>7, <1>8
<1> QED BY <1>9 DEF ChartSound, S, D, t, g, q, Slip, Running

\* What the states of Spec keep so that a plan can be charted: the graph has no cycle, and
\* only finitely many issues exist, for each transaction gives at most one more id a row.
ChartableOK ==
    PlanningOK /\ DepAcyclic /\ IsFiniteSet({i \in Issues : Exists(i)})

LEMMA ChartableInit == Init => ChartableOK
<1> SUFFICES ASSUME Init PROVE ChartableOK
  OBVIOUS
<1>1. dep = {} /\ \A i \in Issues : ~Exists(i)
  BY DEF Init, RowsInit, Exists, Absent
<1>2. {i \in Issues : Exists(i)} = {}
  BY <1>1
<1>3. IsFiniteSet({i \in Issues : Exists(i)})
  BY <1>2, FS_EmptySet
<1> QED BY <1>1, <1>3, PlanningOKInit DEF ChartableOK, DepAcyclic

LEMMA ChartableStep == ChartableOK /\ [Next]_vars => ChartableOK'
<1> SUFFICES ASSUME ChartableOK, [Next]_vars PROVE ChartableOK'
  OBVIOUS
<1>1. PlanningOK /\ DepAcyclic /\ PlanningOK'
  BY PlanningOKStep DEF ChartableOK
<1>2. RowsTypeOK /\ [RowsNext]_rowVars
  BY <1>1, StepKinds DEF PlanningOK, TypeOK, StepOK
<1>3. DepAcyclic'
  BY <1>1, <1>2, RowsAcyclic
<1> DEFINE T == {i \in Issues : Exists(i)}
<1>4. IsFiniteSet(T')
  <2>1. IsFiniteSet(T)
    BY DEF ChartableOK
  <2>2. T' = {i \in Issues : Exists(i)'}
    OBVIOUS
  <2>3. CASE \A i \in Issues : Exists(i)' => Exists(i)
    <3>1. T' \in SUBSET T
      BY <2>2, <2>3
    <3> HIDE DEF T
    <3> QED BY <2>1, <3>1, FS_Subset
  <2>4. ASSUME NEW j \in Issues, \A i \in Issues : Exists(i)' => Exists(i) \/ i = j
        PROVE  IsFiniteSet(T')
    <3>1. T' \in SUBSET (T \cup {j})
      BY <2>2, <2>4
    <3> HIDE DEF T
    <3>2. IsFiniteSet(T \cup {j})
      BY <2>1, FS_AddElement
    <3> QED BY <3>1, <3>2, FS_Subset
  <2> QED BY <1>2, <2>3, <2>4, RowsGrow
<1> QED BY <1>1, <1>3, <1>4 DEF ChartableOK

\* A planned node takes at least a minute, whatever its spec and the default say.
LEMMA PlanMinutesAre ==
    ASSUME TypeOK
    PROVE  PlanMinutes \in [PlanNodes -> Nat \ {0}]
<1>1. DefaultEstimate \in Int /\ Estimates \subseteq Nat
  BY NumbersAssumption
<1>2. ASSUME NEW i \in PlanNodes PROVE Minutes(i, DefaultEstimate) \in Nat \ {0}
  <2>1. fact[i] \in Fact
    BY DEF TypeOK, PlanNodes
  <2>2. fact[i].estimate \in Estimates \cup {0}
    BY <2>1 DEF Fact
  <2>3. fact[i].estimate \in Nat
    <3>1. 0 \in Nat
      OBVIOUS
    <3> QED BY ONLY <1>1, <2>2, <3>1
  <2> QED BY <1>1, <2>3 DEF Minutes, Greater
<1> HIDE DEF PlanNodes
<1> QED BY <1>2 DEF PlanMinutes

\* The chart a plan is scheduled by is right (ChartSound, plan.rs:707): in every reachable
\* state and for any plans, durations and default estimate, the order puts dependencies first,
\* the schedule is as long as its longest path, the critical chain is such a path, a node's
\* slack is exactly what it can slip by, and the peak is the most that ever run at once.
THEOREM Charts == Spec => []ChartSound
<1>1. ChartableOK => ChartSound
  <2> SUFFICES ASSUME ChartableOK PROVE ChartSound
    OBVIOUS
  <2>1. TypeOK /\ DepAcyclic /\ IsFiniteSet({i \in Issues : Exists(i)})
    BY DEF ChartableOK, PlanningOK
  <2>2. FactsOK /\ dep \in SUBSET (Issues \X Issues)
    BY <2>1 DEF TypeOK, FactsOK, RowsTypeOK
  <2>3. PlanNodes \in SUBSET {i \in Issues : Exists(i)} /\ PlanNodes \in SUBSET Issues
    BY DEF PlanNodes
  <2>4. IsFiniteSet(PlanNodes)
    BY <2>1, <2>3, FS_Subset
  <2>5. PlanMinutes \in [PlanNodes -> Nat \ {0}]
    BY <2>1, PlanMinutesAre
  <2>6. Charted(PlanNodes, PlanMinutes)
    BY <2>1, <2>2, <2>3, <2>4, <2>5 DEF Charted
  <2> QED BY <2>6, ChartIs
<1> QED BY <1>1, ChartableInit, ChartableStep, PTL DEF Spec

----------------------------------------------------------------------------
(* Sums over sets *)

\* A part per member, with nothing in two of them.
Parts(A, T) ==
    /\ \A x \in T : IsFiniteSet(A[x])
    /\ \A x, y \in T : x # y => A[x] \cap A[y] = {}

\* The parts of the first k members of s.
Upto(A, s, k) == UNION {A[s[m]] : m \in 1 .. k}

\* Each further member adds its own part.
LEMMA PartsAdd ==
    ASSUME NEW T, IsFiniteSet(T), NEW A, Parts(A, T)
    PROVE  LET s == SetToSeq(T)
           IN  /\ s \in Seq(T) /\ Len(s) \in Nat /\ \A k \in 1 .. Len(s) : s[k] \in T
               /\ Upto(A, s, 0) = {} /\ Upto(A, s, Len(s)) = UNION {A[x] : x \in T}
               /\ \A k \in 1 .. Len(s) :
                     /\ Upto(A, s, k) = Upto(A, s, k - 1) \cup A[s[k]]
                     /\ Upto(A, s, k - 1) \cap A[s[k]] = {} /\ IsFiniteSet(A[s[k]])
<1> DEFINE s == SetToSeq(T)
           n == Len(s)
<1>1. /\ s \in Seq(T) /\ \A x \in T : \E m \in DOMAIN s : s[m] = x
      /\ \A a, b \in DOMAIN s : s[a] = s[b] => a = b
  BY SetToSeqLists
<1> HIDE DEF s
<1>2. n \in Nat /\ DOMAIN s = 1 .. n /\ \A k \in 1 .. n : s[k] \in T
  BY <1>1
<1>3. Upto(A, s, 0) = {}
  BY DEF Upto
<1>4. Upto(A, s, n) = UNION {A[x] : x \in T}
  BY <1>1, <1>2 DEF Upto
<1>5. ASSUME NEW k \in 1 .. n
      PROVE  /\ Upto(A, s, k) = Upto(A, s, k - 1) \cup A[s[k]]
             /\ Upto(A, s, k - 1) \cap A[s[k]] = {} /\ IsFiniteSet(A[s[k]])
  <2>1. /\ k \in Nat /\ k \in 1 .. k /\ \A m \in 1 .. k : m = k \/ m \in 1 .. (k - 1)
        /\ \A m \in 1 .. (k - 1) : m \in 1 .. k /\ m \in 1 .. n /\ m # k
    BY <1>2
  <2>2. Upto(A, s, k) = Upto(A, s, k - 1) \cup A[s[k]]
    BY ONLY <2>1 DEF Upto
  <2>3. \A m \in 1 .. (k - 1) : A[s[m]] \cap A[s[k]] = {}
    <3> TAKE m \in 1 .. (k - 1)
    <3>1. s[m] # s[k] /\ s[m] \in T /\ s[k] \in T
      BY <1>1, <1>2, <2>1
    <3> QED BY <3>1 DEF Parts
  <2>4. Upto(A, s, k - 1) \cap A[s[k]] = {}
    BY ONLY <2>3 DEF Upto
  <2>5. IsFiniteSet(A[s[k]])
    BY <1>2 DEF Parts
  <2> QED BY <2>2, <2>4, <2>5
<1> QED BY <1>1, <1>2, <1>3, <1>4, <1>5 DEF s

\* What is counted part by part is counted once.
LEMMA SumParts ==
    ASSUME NEW T, IsFiniteSet(T), NEW A, Parts(A, T),
           NEW f, \A x \in T : f[x] = Cardinality(A[x])
    PROVE  /\ SumOver(f, T) = Cardinality(UNION {A[x] : x \in T})
           /\ IsFiniteSet(UNION {A[x] : x \in T})
<1> DEFINE s == SetToSeq(T)
           n == Len(s)
<1>1. /\ s \in Seq(T) /\ n \in Nat /\ \A k \in 1 .. n : s[k] \in T
      /\ Upto(A, s, 0) = {} /\ Upto(A, s, n) = UNION {A[x] : x \in T}
      /\ \A k \in 1 .. n :
            /\ Upto(A, s, k) = Upto(A, s, k - 1) \cup A[s[k]]
            /\ Upto(A, s, k - 1) \cap A[s[k]] = {} /\ IsFiniteSet(A[s[k]])
  BY PartsAdd
<1>2. \A x \in T : f[x] \in Nat
  BY FS_CardinalityType DEF Parts
<1>3. PICK sum : Adds(f, s, sum)
  <2> HIDE DEF s
  <2> QED BY <1>1, <1>2, SumAdds
<1>4. SumOver(f, T) = Sum(f, s)
  BY DEF SumOver
<1> HIDE DEF s
<1>5. /\ SumOver(f, T) = sum[n] /\ sum[0] = 0
      /\ \A k \in 1 .. n : sum[k] = sum[k - 1] + f[s[k]]
  BY <1>3, <1>4 DEF Adds
<1> DEFINE G == {k \in 0 .. n : IsFiniteSet(Upto(A, s, k)) /\ sum[k] = Cardinality(Upto(A, s, k))}
<1>6. 0 \in G
  <2>1. 0 \in 0 .. n
    BY <1>1
  <2> QED BY <1>1, <1>5, <2>1, FS_EmptySet
<1>7. ASSUME NEW k \in 1 .. n, k - 1 \in G PROVE k \in G
  <2>1. /\ Upto(A, s, k) = Upto(A, s, k - 1) \cup A[s[k]]
        /\ Upto(A, s, k - 1) \cap A[s[k]] = {} /\ IsFiniteSet(A[s[k]])
        /\ IsFiniteSet(Upto(A, s, k - 1)) /\ sum[k - 1] = Cardinality(Upto(A, s, k - 1))
        /\ k \in 0 .. n
    <3>1. k \in 0 .. n
      BY <1>1
    <3>2. IsFiniteSet(Upto(A, s, k - 1)) /\ sum[k - 1] = Cardinality(Upto(A, s, k - 1))
      BY <1>7
    <3>3. /\ Upto(A, s, k) = Upto(A, s, k - 1) \cup A[s[k]]
          /\ Upto(A, s, k - 1) \cap A[s[k]] = {} /\ IsFiniteSet(A[s[k]])
      BY <1>1
    <3> QED BY ONLY <3>1, <3>2, <3>3
  <2>2. /\ IsFiniteSet(Upto(A, s, k - 1) \cup A[s[k]])
        /\ Cardinality(Upto(A, s, k - 1) \cup A[s[k]])
             = Cardinality(Upto(A, s, k - 1)) + Cardinality(A[s[k]])
    <3>1. Cardinality(Upto(A, s, k - 1) \cap A[s[k]]) = 0
      BY <2>1, FS_EmptySet
    <3>2. /\ IsFiniteSet(Upto(A, s, k - 1) \cup A[s[k]])
          /\ Cardinality(Upto(A, s, k - 1) \cup A[s[k]])
               = Cardinality(Upto(A, s, k - 1)) + Cardinality(A[s[k]])
                 - Cardinality(Upto(A, s, k - 1) \cap A[s[k]])
      BY ONLY <2>1, FS_Union
    <3>3. Cardinality(Upto(A, s, k - 1)) \in Nat /\ Cardinality(A[s[k]]) \in Nat
      BY <2>1, FS_CardinalityType
    <3> QED BY ONLY <3>1, <3>2, <3>3
  <2>3. sum[k] = sum[k - 1] + Cardinality(A[s[k]])
    BY <1>1, <1>5
  <2> QED BY ONLY <2>1, <2>2, <2>3
<1>8. n \in G
  <2>1. n \in 0 .. n
    BY <1>1
  <2> HIDE DEF G
  <2> QED BY <1>1, <1>6, <1>7, <2>1, Climbs
<1> QED BY <1>1, <1>5, <1>8

\* A sum of natural numbers as a count: of each member as many as f says.
Copies(f, T) == UNION {{x} \X (1 .. f[x]) : x \in T}

LEMMA SumCopies ==
    ASSUME NEW T, IsFiniteSet(T), NEW f, \A x \in T : f[x] \in Nat
    PROVE  SumOver(f, T) = Cardinality(Copies(f, T)) /\ IsFiniteSet(Copies(f, T))
<1> DEFINE A == [x \in T |-> {x} \X (1 .. f[x])]
<1>1. ASSUME NEW x \in T
      PROVE  IsFiniteSet({x} \X (1 .. f[x])) /\ f[x] = Cardinality({x} \X (1 .. f[x]))
  <2>1. IsFiniteSet({x}) /\ Cardinality({x}) = 1
    BY FS_Singleton
  <2>2. IsFiniteSet(1 .. f[x]) /\ Cardinality(1 .. f[x]) = f[x]
    <3>1. f[x] \in Nat /\ f[x] \in Int /\ 1 \in Int
      OBVIOUS
    <3>2. /\ IsFiniteSet(1 .. f[x])
          /\ Cardinality(1 .. f[x]) = IF 1 > f[x] THEN 0 ELSE f[x] - 1 + 1
      BY <3>1, FS_Interval
    <3> QED BY ONLY <3>1, <3>2
  <2>3. /\ IsFiniteSet({x} \X (1 .. f[x]))
        /\ Cardinality({x} \X (1 .. f[x])) = Cardinality({x}) * Cardinality(1 .. f[x])
    BY ONLY <2>1, <2>2, FS_Product
  <2> QED BY ONLY <2>1, <2>2, <2>3, \A y \in T : f[y] \in Nat, x \in T
<1>2. \A x, y \in T : x # y => ({x} \X (1 .. f[x])) \cap ({y} \X (1 .. f[y])) = {}
  OBVIOUS
<1>3. Parts(A, T) /\ \A x \in T : f[x] = Cardinality(A[x])
  BY <1>1, <1>2 DEF Parts
<1>4. UNION {A[x] : x \in T} = Copies(f, T)
  BY DEF Copies
<1> HIDE DEF A
<1>5. SumOver(f, T) = Cardinality(UNION {A[x] : x \in T}) /\ IsFiniteSet(UNION {A[x] : x \in T})
  BY <1>3, SumParts
<1> QED BY <1>4, <1>5

\* More members, and more of each, add up to more.
LEMMA SumGrows ==
    ASSUME NEW T, IsFiniteSet(T), NEW R \in SUBSET T, NEW f, NEW g,
           \A x \in T : g[x] \in Nat, \A x \in R : f[x] \in Nat /\ f[x] <= g[x]
    PROVE  SumOver(f, R) <= SumOver(g, T)
<1>1. IsFiniteSet(R)
  BY FS_Subset
<1>2. SumOver(f, R) = Cardinality(Copies(f, R))
  BY <1>1, SumCopies
<1>3. SumOver(g, T) = Cardinality(Copies(g, T)) /\ IsFiniteSet(Copies(g, T))
  BY SumCopies
<1>4. ASSUME NEW x \in R PROVE {x} \X (1 .. f[x]) \subseteq {x} \X (1 .. g[x])
  <2>1. x \in T /\ f[x] \in Nat /\ g[x] \in Nat /\ f[x] <= g[x]
    OBVIOUS
  <2> QED BY ONLY <2>1
<1>5. Copies(f, R) \in SUBSET Copies(g, T)
  BY <1>4 DEF Copies
<1>6. Cardinality(Copies(f, R)) <= Cardinality(Copies(g, T))
  BY ONLY <1>3, <1>5, FS_Subset
<1> QED BY <1>2, <1>3, <1>6

----------------------------------------------------------------------------
(* Progress, part by part *)

LEMMA CardUnion ==
    ASSUME NEW A, IsFiniteSet(A), NEW B, IsFiniteSet(B), A \cap B = {}
    PROVE  IsFiniteSet(A \cup B) /\ Cardinality(A \cup B) = Cardinality(A) + Cardinality(B)
<1>1. Cardinality(A \cap B) = 0
  BY FS_EmptySet
<1>2. /\ IsFiniteSet(A \cup B)
      /\ Cardinality(A \cup B) = Cardinality(A) + Cardinality(B) - Cardinality(A \cap B)
  BY ONLY IsFiniteSet(A), IsFiniteSet(B), FS_Union
<1>3. Cardinality(A) \in Nat /\ Cardinality(B) \in Nat
  BY FS_CardinalityType
<1> QED BY ONLY <1>1, <1>2, <1>3

\* The progress of two sets without a common member adds up.
LEMMA ProgressPlus ==
    ASSUME NEW X, IsFiniteSet(X), NEW Y, IsFiniteSet(Y), X \cap Y = {}
    PROVE  Plus(Progress(X), Progress(Y)) = Progress(X \cup Y)
<1>1. Cardinality(X \cup Y) = Cardinality(X) + Cardinality(Y)
  BY CardUnion
<1>2. ASSUME NEW st \in Statuses PROVE Count(X \cup Y, st) = Count(X, st) + Count(Y, st)
  <2> DEFINE A == {i \in X : issue[i].status = st}
             B == {i \in Y : issue[i].status = st}
  <2>1. IsFiniteSet(A) /\ IsFiniteSet(B)
    BY FS_Subset
  <2>2. A \cap B = {} /\ {i \in X \cup Y : issue[i].status = st} = A \cup B
    OBVIOUS
  <2>3. Count(X, st) = Cardinality(A) /\ Count(Y, st) = Cardinality(B)
        /\ Count(X \cup Y, st) = Cardinality({i \in X \cup Y : issue[i].status = st})
    BY DEF Count
  <2> HIDE DEF A, B
  <2>4. Cardinality(A \cup B) = Cardinality(A) + Cardinality(B)
    BY <2>1, <2>2, CardUnion
  <2> QED BY <2>2, <2>3, <2>4
<1>3. ASSUME NEW ty
      PROVE  Cardinality({i \in X \cup Y : fact[i].type = ty})
               = Cardinality({i \in X : fact[i].type = ty}) + Cardinality({i \in Y : fact[i].type = ty})
  <2> DEFINE A == {i \in X : fact[i].type = ty}
             B == {i \in Y : fact[i].type = ty}
  <2>1. IsFiniteSet(A) /\ IsFiniteSet(B)
    BY FS_Subset
  <2>2. A \cap B = {} /\ {i \in X \cup Y : fact[i].type = ty} = A \cup B
    OBVIOUS
  <2> HIDE DEF A, B
  <2>4. Cardinality(A \cup B) = Cardinality(A) + Cardinality(B)
    BY <2>1, <2>2, CardUnion
  <2> QED BY <2>2, <2>4 DEF A, B
<1>4. [st \in Statuses |-> Count(X, st) + Count(Y, st)] = [st \in Statuses |-> Count(X \cup Y, st)]
  BY <1>2
<1>5. \A st \in Statuses : Progress(X).status[st] = Count(X, st) /\ Progress(Y).status[st] = Count(Y, st)
  BY DEF Progress
<1>6. [st \in Statuses |-> Progress(X).status[st] + Progress(Y).status[st]]
        = [st \in Statuses |-> Count(X, st) + Count(Y, st)]
  BY <1>5
<1> QED BY <1>1, <1>3, <1>4, <1>6 DEF Plus, Progress

\* The progress of the parts adds up to the progress of the whole.
LEMMA SumUpParts ==
    ASSUME NEW T, IsFiniteSet(T), NEW A, Parts(A, T),
           NEW f, \A x \in T : f[x] = Progress(A[x])
    PROVE  /\ SumUp(f, T) = Progress(UNION {A[x] : x \in T})
           /\ IsFiniteSet(UNION {A[x] : x \in T})
<1> DEFINE s == SetToSeq(T)
           n == Len(s)
           On(x, k) == Plus(x, f[s[k]])
           Builds(w) == w = [k \in 0 .. n |-> IF k = 0 THEN Progress({}) ELSE On(w[k - 1], k)]
           G == {k \in 0 .. n : IsFiniteSet(Upto(A, s, k))}
<1>1. /\ s \in Seq(T) /\ n \in Nat /\ \A k \in 1 .. n : s[k] \in T
      /\ Upto(A, s, 0) = {} /\ Upto(A, s, n) = UNION {A[x] : x \in T}
      /\ \A k \in 1 .. n :
            /\ Upto(A, s, k) = Upto(A, s, k - 1) \cup A[s[k]]
            /\ Upto(A, s, k - 1) \cap A[s[k]] = {} /\ IsFiniteSet(A[s[k]])
  BY PartsAdd
<1>2. SumUp(f, T) = (CHOOSE u : Builds(u))[n]
  BY DEF SumUp, AddUp
<1> HIDE DEF s
<1>3. \A k \in 0 .. n : k \in G
  <2>1. 0 \in G
    <3>1. 0 \in 0 .. n
      BY <1>1
    <3>2. Upto(A, s, 0) = {}
      BY <1>1
    <3> QED BY ONLY <3>1, <3>2, FS_EmptySet
  <2>2. ASSUME NEW k \in 1 .. n, k - 1 \in G PROVE k \in G
    <3>1. IsFiniteSet(Upto(A, s, k - 1)) /\ k \in 0 .. n
      BY <1>1, <2>2
    <3>2. Upto(A, s, k) = Upto(A, s, k - 1) \cup A[s[k]] /\ IsFiniteSet(A[s[k]])
          /\ Upto(A, s, k - 1) \cap A[s[k]] = {}
      BY <1>1
    <3>3. IsFiniteSet(Upto(A, s, k))
      BY <3>1, <3>2, CardUnion
    <3> QED BY <3>1, <3>3
  <2> HIDE DEF G, n
  <2> QED BY <1>1, <2>1, <2>2, Climbs
<1>4. ASSUME NEW k \in 1 .. n PROVE On(Progress(Upto(A, s, k - 1)), k) = Progress(Upto(A, s, k))
  <2>1. k - 1 \in G
    <3>1. k - 1 \in 0 .. n
      BY <1>1
    <3> HIDE DEF G, n
    <3> QED BY <1>3, <3>1
  <2>2. IsFiniteSet(Upto(A, s, k - 1))
    BY <2>1
  <2>3. /\ Upto(A, s, k) = Upto(A, s, k - 1) \cup A[s[k]] /\ IsFiniteSet(A[s[k]])
        /\ Upto(A, s, k - 1) \cap A[s[k]] = {} /\ s[k] \in T
    BY <1>1
  <2>4. f[s[k]] = Progress(A[s[k]])
    BY <2>3
  <2>5. Plus(Progress(Upto(A, s, k - 1)), Progress(A[s[k]])) = Progress(Upto(A, s, k))
    BY <2>2, <2>3, ProgressPlus
  <2> QED BY <2>4, <2>5
<1> HIDE DEF On, n
<1> DEFINE w == [k \in 0 .. n |-> Progress(Upto(A, s, k))]
<1>5. Builds(w)
  <2>1. \A k \in 0 .. n : w[k] = IF k = 0 THEN Progress({}) ELSE On(w[k - 1], k)
    <3> TAKE k \in 0 .. n
    <3>1. CASE k = 0
      BY <1>1, <3>1
    <3>2. CASE k # 0
      <4>1. k \in 1 .. n /\ k - 1 \in 0 .. n
        BY <1>1, <3>2
      <4> QED BY <1>4, <3>2, <4>1
    <3> QED BY <3>1, <3>2
  <2> QED BY <2>1
<1> HIDE DEF w
<1> DEFINE u == CHOOSE x : Builds(x)
<1>6. Builds(u)
  <2> HIDE DEF Builds
  <2> QED BY <1>5
<1> HIDE DEF u
<1>7. u[0] = Progress({}) /\ \A k \in 1 .. n : u[k] = On(u[k - 1], k)
  BY <1>1, <1>6
<1> DEFINE H == {k \in 0 .. n : u[k] = Progress(Upto(A, s, k))}
<1>8. \A k \in 0 .. n : k \in H
  <2>1. 0 \in H
    <3>1. 0 \in 0 .. n
      BY <1>1
    <3>2. Upto(A, s, 0) = {}
      BY <1>1
    <3> QED BY ONLY <1>7, <3>1, <3>2
  <2>2. ASSUME NEW k \in 1 .. n, k - 1 \in H PROVE k \in H
    <3>1. u[k - 1] = Progress(Upto(A, s, k - 1)) /\ k \in 0 .. n
      BY <1>1, <2>2
    <3>2. u[k] = On(u[k - 1], k)
      BY <1>7
    <3> QED BY <1>4, <3>1, <3>2
  <2> HIDE DEF H
  <2> QED BY <1>1, <2>1, <2>2, Climbs
<1>9. n \in 0 .. n
  BY <1>1
<1>10. u[n] = Progress(Upto(A, s, n)) /\ n \in G
  <2>1. n \in H /\ n \in G
    <3> HIDE DEF H, G
    <3> QED BY <1>3, <1>8, <1>9
  <2> QED BY <2>1
<1>11. IsFiniteSet(Upto(A, s, n))
  BY <1>10
<1>12. SumUp(f, T) = u[n]
  BY <1>2 DEF u
<1> QED BY <1>1, <1>10, <1>11, <1>12

----------------------------------------------------------------------------
(* Timestamps *)

\* The timestamps f of a row with status st, at a time: a row is closed when it has a closing
\* time, which is not before it was made, and nothing lies in the future.
InOrder(f, st, at) ==
    /\ f.born \in 0 .. at /\ f.claimed <= at
    /\ st = "closed" <=> f.ended # Never
    /\ st = "closed" => f.ended \in f.born .. at
    /\ f.reviewed # Never => f.born <= f.reviewed
    /\ f.imported => f.born = 0

Dated(i) == Exists(i) => ProjectOf[i] \in projects /\ InOrder(fact[i], issue[i].status, now)

\* Every row is dated, and a job stamps with a time that has been.
DatesOK == (\A i \in Issues : Dated(i)) /\ \A c \in Clients : job[c].at \in 0 .. now

\* What a time stamp changes.
LEMMA FactTimes ==
    ASSUME NEW f \in Fact
    PROVE  /\ f.born \in Int /\ f.ended \in Int /\ f.claimed \in Int /\ f.reviewed \in Int
           /\ f.imported \in BOOLEAN /\ f.born >= Never
BY DEF Fact, Times, Never

LEMMA StampedTimes ==
    ASSUME NEW f \in Fact, NEW t \in Times
    PROVE  /\ LET g == [f EXCEPT !.ended = t] IN
                 /\ g \in Fact /\ g.ended = t /\ g.born = f.born /\ g.claimed = f.claimed
                 /\ g.reviewed = f.reviewed /\ g.imported = f.imported
           /\ LET g == [f EXCEPT !.reviewed = t] IN
                 /\ g \in Fact /\ g.reviewed = t /\ g.born = f.born /\ g.claimed = f.claimed
                 /\ g.ended = f.ended /\ g.imported = f.imported
           /\ LET g == [f EXCEPT !.claimed = t] IN
                 /\ g \in Fact /\ g.claimed = t /\ g.born = f.born /\ g.reviewed = f.reviewed
                 /\ g.ended = f.ended /\ g.imported = f.imported
BY DEF Fact

LEMMA OrderClosed ==
    ASSUME NEW f \in Fact, NEW at \in Nat, NEW st, InOrder(f, st, at), NEW t \in f.born .. at
    PROVE  [f EXCEPT !.ended = t] \in Fact /\ InOrder([f EXCEPT !.ended = t], "closed", at)
<1> DEFINE g == [f EXCEPT !.ended = t]
<1>1. f.born \in Nat /\ t \in Nat /\ f.born \in Int
  BY DEF InOrder
<1>2. t \in Times /\ t # Never
  BY <1>1 DEF Times, Never
<1>3. /\ g \in Fact /\ g.ended = t /\ g.born = f.born /\ g.claimed = f.claimed
      /\ g.reviewed = f.reviewed /\ g.imported = f.imported
  BY <1>2, StampedTimes
<1> HIDE DEF g
<1> QED BY <1>2, <1>3 DEF InOrder, g

LEMMA OrderReviewed ==
    ASSUME NEW f \in Fact, NEW at \in Nat, NEW st, InOrder(f, st, at), st # "closed",
           NEW su, su # "closed", NEW u \in {f.reviewed, at}
    PROVE  [f EXCEPT !.reviewed = u] \in Fact /\ InOrder([f EXCEPT !.reviewed = u], su, at)
<1> DEFINE g == [f EXCEPT !.reviewed = u]
<1>1. f.reviewed \in Times /\ at \in Times
  BY DEF Fact, Times
<1>2. u \in Times
  BY <1>1
<1>3. /\ g \in Fact /\ g.reviewed = u /\ g.born = f.born /\ g.claimed = f.claimed
      /\ g.ended = f.ended /\ g.imported = f.imported
  BY <1>2, StampedTimes
<1> HIDE DEF g
<1> QED BY <1>2, <1>3 DEF InOrder, g

LEMMA OrderClaimed ==
    ASSUME NEW f \in Fact, NEW at \in Nat, NEW st, InOrder(f, st, at), NEW u \in {f.claimed, at}
    PROVE  [f EXCEPT !.claimed = u] \in Fact /\ InOrder([f EXCEPT !.claimed = u], st, at)
<1> DEFINE g == [f EXCEPT !.claimed = u]
<1>1. f.claimed \in Times /\ at \in Times
  BY DEF Fact, Times
<1>2. u \in Times /\ u <= at
  BY <1>1 DEF InOrder
<1>3. /\ g \in Fact /\ g.claimed = u /\ g.born = f.born /\ g.reviewed = f.reviewed
      /\ g.ended = f.ended /\ g.imported = f.imported
  BY <1>2, StampedTimes
<1> HIDE DEF g
<1> QED BY <1>2, <1>3 DEF InOrder, g

\* The timestamps f after a patch that ends at t, or not, and was reviewed at u.
Patched(f, t, u) == [f EXCEPT !.ended = t, !.reviewed = u]

EndOf(st, at) == IF st = "closed" THEN at ELSE Never

LEMMA OrderPatched ==
    ASSUME NEW f \in Fact, NEW at \in Nat, NEW st, InOrder(f, st, at), NEW su,
           NEW t, t = EndOf(su, at), NEW u \in {f.reviewed, at}, NEW g, g = Patched(f, t, u)
    PROVE  g \in Fact /\ InOrder(g, su, at)
<1> DEFINE h == [f EXCEPT !.ended = t]
<1>1. f.reviewed \in Times /\ at \in Times /\ Never \in Times /\ at # Never
  BY DEF Fact, Times, Never
<1>0. t = IF su = "closed" THEN at ELSE Never
  BY DEF EndOf
<1>2. u \in Times /\ t \in Times
  BY <1>0, <1>1
<1>3. /\ h \in Fact /\ h.ended = t /\ h.born = f.born /\ h.claimed = f.claimed
      /\ h.reviewed = f.reviewed /\ h.imported = f.imported
  BY <1>2, StampedTimes
<1>4. g = [h EXCEPT !.reviewed = u]
  BY DEF Patched
<1> HIDE DEF h
<1>5. /\ g \in Fact /\ g.reviewed = u /\ g.born = h.born /\ g.claimed = h.claimed
      /\ g.ended = h.ended /\ g.imported = h.imported
  <2>1. h \in Fact
    BY <1>3
  <2>2. LET x == [h EXCEPT !.reviewed = u] IN
           /\ x \in Fact /\ x.reviewed = u /\ x.born = h.born /\ x.claimed = h.claimed
           /\ x.ended = h.ended /\ x.imported = h.imported
    BY ONLY <1>2, <2>1, StampedTimes
  <2> QED BY ONLY <1>4, <2>2
<1>6. f.born \in 0 .. at /\ f.claimed <= at /\ (f.reviewed # Never => f.born <= f.reviewed)
      /\ (f.imported => f.born = 0)
  BY DEF InOrder
<1>7. g.born \in 0 .. at /\ g.claimed <= at /\ (g.imported => g.born = 0)
  BY <1>3, <1>5, <1>6
<1>8. g.reviewed # Never => g.born <= g.reviewed
  BY <1>3, <1>5, <1>6
<1>9. (su = "closed" <=> g.ended # Never) /\ (su = "closed" => g.ended \in g.born .. at)
  <2>1. g.ended = t /\ g.born = f.born
    BY ONLY <1>3, <1>5
  <2>2. CASE su = "closed"
    BY <1>0, <1>1, <1>6, <2>1, <2>2
  <2>3. CASE su # "closed"
    BY <1>0, <2>1, <2>3
  <2> QED BY <2>2, <2>3
<1> QED BY <1>5, <1>7, <1>8, <1>9 DEF InOrder

\* A row just made.
LEMMA OrderMade ==
    ASSUME NEW f, NEW at \in Nat, f.born \in 0 .. at,
           f.ended = Never, f.claimed = Never, f.reviewed = Never, f.imported => f.born = 0
    PROVE  InOrder(f, "open", at)
BY DEF InOrder, Never

LEMMA MadeOrders ==
    ASSUME NEW at \in Nat, NEW t \in 0 .. at
    PROVE  /\ \A n : InOrder([NoFact EXCEPT !.key = n.key, !.group = n.group,
                                            !.estimate = n.estimate, !.born = t], "open", at)
           /\ \A p : InOrder([NoFact EXCEPT !.parent = p, !.born = t], "open", at)
           /\ \A p : InOrder([NoFact EXCEPT !.parent = p, !.born = 0, !.imported = TRUE], "open", at)
           /\ \A ty, p : InOrder([NoFact EXCEPT !.type = ty, !.parent = p, !.born = t], "open", at)
<1>0. 0 \in 0 .. at
  OBVIOUS
<1>1. ASSUME NEW n
      PROVE  InOrder([NoFact EXCEPT !.key = n.key, !.group = n.group,
                                    !.estimate = n.estimate, !.born = t], "open", at)
  <2> DEFINE f == [NoFact EXCEPT !.key = n.key, !.group = n.group,
                                 !.estimate = n.estimate, !.born = t]
  <2>1. /\ f.born = t /\ f.ended = Never /\ f.claimed = Never /\ f.reviewed = Never
        /\ f.imported = FALSE
    BY DEF NoFact
  <2> HIDE DEF f
  <2>2. InOrder(f, "open", at)
    BY <2>1, OrderMade
  <2> QED BY <2>2 DEF f
<1>2. ASSUME NEW p PROVE InOrder([NoFact EXCEPT !.parent = p, !.born = t], "open", at)
  <2> DEFINE f == [NoFact EXCEPT !.parent = p, !.born = t]
  <2>1. /\ f.born = t /\ f.ended = Never /\ f.claimed = Never /\ f.reviewed = Never
        /\ f.imported = FALSE
    BY DEF NoFact
  <2> HIDE DEF f
  <2>2. InOrder(f, "open", at)
    BY <2>1, OrderMade
  <2> QED BY <2>2 DEF f
<1>3. ASSUME NEW p
      PROVE  InOrder([NoFact EXCEPT !.parent = p, !.born = 0, !.imported = TRUE], "open", at)
  <2> DEFINE f == [NoFact EXCEPT !.parent = p, !.born = 0, !.imported = TRUE]
  <2>1. f.born = 0 /\ f.ended = Never /\ f.claimed = Never /\ f.reviewed = Never
    BY DEF NoFact
  <2> HIDE DEF f
  <2>2. InOrder(f, "open", at)
    BY <1>0, <2>1, OrderMade
  <2> QED BY <2>2 DEF f
<1>4. ASSUME NEW ty, NEW p
      PROVE  InOrder([NoFact EXCEPT !.type = ty, !.parent = p, !.born = t], "open", at)
  <2> DEFINE f == [NoFact EXCEPT !.type = ty, !.parent = p, !.born = t]
  <2>1. /\ f.born = t /\ f.ended = Never /\ f.claimed = Never /\ f.reviewed = Never
        /\ f.imported = FALSE
    BY DEF NoFact
  <2> HIDE DEF f
  <2>2. InOrder(f, "open", at)
    BY <2>1, OrderMade
  <2> QED BY <2>2 DEF f
<1> QED BY <1>1, <1>2, <1>3, <1>4

\* One row is written, at an instant.
LEMMA DatedWrite ==
    ASSUME TypeOK, \A j \in Issues : Dated(j), NEW i \in Issues, UNCHANGED <<now, projects>>,
           \A j \in Issues \ {i} : issue'[j] = issue[j],
           ProjectOf[i] \in projects, NEW f \in Fact, fact' = [fact EXCEPT ![i] = f],
           InOrder(f, issue'[i].status, now)
    PROVE  \A j \in Issues : Dated(j)'
<1>1. fact'[i] = f /\ \A j \in Issues \ {i} : fact'[j] = fact[j]
  BY SetFact DEF TypeOK
<1>2. Dated(i)'
  BY <1>1 DEF Dated
<1>3. ASSUME NEW j \in Issues \ {i} PROVE Dated(j)'
  BY <1>1, <1>3 DEF Dated, Exists
<1> QED BY <1>2, <1>3

\* No row and no time stamp changes.
LEMMA DatedKept ==
    ASSUME \A j \in Issues : Dated(j), UNCHANGED <<now, projects, fact>>,
           \A j \in Issues : issue'[j].status = issue[j].status
    PROVE  \A j \in Issues : Dated(j)'
BY DEF Dated, Exists

\* Time passes.
LEMMA DatedTick ==
    ASSUME TypeOK, \A j \in Issues : Dated(j), UNCHANGED <<issue, projects, fact>>, now' = now + 1
    PROVE  \A j \in Issues : Dated(j)'
<1>1. ASSUME NEW f \in Fact, NEW st, InOrder(f, st, now) PROVE InOrder(f, st, now + 1)
  <2>1. now \in Nat /\ f.born \in Int /\ f.ended \in Int /\ f.claimed \in Int
    BY FactTimes DEF TypeOK, RowsTypeOK
  <2> QED BY <1>1, <2>1 DEF InOrder
<1> TAKE j \in Issues
<1>2. fact[j] \in Fact
  BY DEF TypeOK
<1> QED BY <1>1, <1>2 DEF Dated, Exists

\* What the transactions do to a row, as far as its dates go.
LEMMA TxWrites ==
    ASSUME TypeOK, NEW i \in Issues
    PROVE  /\ \A ls, at : CreateTx(i, ls, at) =>
                 /\ UNCHANGED <<now, projects>> /\ \A j \in Issues \ {i} : issue'[j] = issue[j]
                 /\ ProjectOf[i] \in projects /\ issue'[i].status = "open"
           /\ \A w, k, ttl, at : ClaimTx(i, w, k, ttl, at) =>
                 /\ UNCHANGED <<now, projects>> /\ \A j \in Issues \ {i} : issue'[j] = issue[j]
                 /\ Exists(i) /\ issue'[i].status = issue[i].status
           /\ \A st, ev, at : UpdateTx(i, st, ev, at) =>
                 /\ UNCHANGED <<now, projects>> /\ \A j \in Issues \ {i} : issue'[j] = issue[j]
                 /\ Exists(i) /\ issue'[i].status = st
           /\ \A ev : CloseTx(i, ev) =>
                 /\ UNCHANGED <<now, projects>> /\ \A j \in Issues \ {i} : issue'[j] = issue[j]
                 /\ Exists(i) /\ issue'[i].status = "closed"
<1>0. issue \in [Issues -> Row] /\ issue[i] \in Row
  BY DEF TypeOK, RowsTypeOK
<1>1. ASSUME NEW ls, NEW at, CreateTx(i, ls, at)
      PROVE  /\ UNCHANGED <<now, projects>> /\ \A j \in Issues \ {i} : issue'[j] = issue[j]
             /\ ProjectOf[i] \in projects /\ issue'[i].status = "open"
  BY <1>0, <1>1 DEF CreateTx, Absent
<1>2. ASSUME NEW w, NEW k, NEW ttl, NEW at, ClaimTx(i, w, k, ttl, at)
      PROVE  /\ UNCHANGED <<now, projects>> /\ \A j \in Issues \ {i} : issue'[j] = issue[j]
             /\ Exists(i) /\ issue'[i].status = issue[i].status
  BY <1>0, <1>2 DEF ClaimTx, Row
<1>3. ASSUME NEW st, NEW ev, NEW at, UpdateTx(i, st, ev, at)
      PROVE  /\ UNCHANGED <<now, projects>> /\ \A j \in Issues \ {i} : issue'[j] = issue[j]
             /\ Exists(i) /\ issue'[i].status = st
  BY <1>0, <1>3 DEF UpdateTx, Row
<1>4. ASSUME NEW ev, CloseTx(i, ev)
      PROVE  /\ UNCHANGED <<now, projects>> /\ \A j \in Issues \ {i} : issue'[j] = issue[j]
             /\ Exists(i) /\ issue'[i].status = "closed"
  BY <1>0, <1>4 DEF CloseTx, Closed, Freed, Row
<1> QED BY <1>1, <1>2, <1>3, <1>4

\* A row that exists is written where it has its project and its dates.
LEMMA DatedAt ==
    ASSUME TypeOK, \A j \in Issues : Dated(j), NEW i \in Issues, Exists(i)
    PROVE  ProjectOf[i] \in projects /\ InOrder(fact[i], issue[i].status, now) /\ fact[i] \in Fact
           /\ now \in Nat
BY DEF Dated, TypeOK, RowsTypeOK

LEMMA ReviewedAt ==
    ASSUME NEW i, NEW st
    PROVE  FirstReview(i, st) \in {fact[i].reviewed, now}
BY DEF FirstReview

\* An import's close: the row was imported, with the start of time as its birthday.
LEMMA ClosedByImport ==
    ASSUME TypeOK, \A j \in Issues : Dated(j), NEW i \in Issues, NEW ev, CloseTx(i, ev),
           Ending(i, "closed", 0), Exists(i) => fact[i].imported
    PROVE  \A j \in Issues : Dated(j)'
<1> DEFINE f == [fact[i] EXCEPT !.ended = 0]
<1>1. /\ UNCHANGED <<now, projects>> /\ \A j \in Issues \ {i} : issue'[j] = issue[j]
      /\ Exists(i) /\ issue'[i].status = "closed"
  BY TxWrites
<1>2. ProjectOf[i] \in projects /\ InOrder(fact[i], issue[i].status, now) /\ fact[i] \in Fact
      /\ now \in Nat
  BY <1>1, DatedAt
<1>3. fact[i].born = 0 /\ 0 \in fact[i].born .. now
  BY <1>1, <1>2 DEF InOrder
<1>4. f \in Fact /\ InOrder(f, "closed", now)
  BY <1>2, <1>3, OrderClosed
<1>5. fact' = [fact EXCEPT ![i] = f]
  BY DEF Ending
<1> HIDE DEF f
<1> QED BY <1>1, <1>2, <1>4, <1>5, DatedWrite

\* A patch, by an import or by hand.
LEMMA DatedPatch ==
    ASSUME TypeOK, \A j \in Issues : Dated(j), NEW i \in Issues, NEW st, NEW ev, NEW at,
           UpdateTx(i, st, ev, at), NEW t, t = (IF st = "closed" THEN now ELSE Never), NEW u,
           u = FirstReview(i, st), fact' = [fact EXCEPT ![i].ended = t, ![i].reviewed = u]
    PROVE  \A j \in Issues : Dated(j)'
<1> DEFINE g == Patched(fact[i], t, u)
<1>1. /\ UNCHANGED <<now, projects>> /\ \A j \in Issues \ {i} : issue'[j] = issue[j]
      /\ Exists(i) /\ issue'[i].status = st
  BY TxWrites
<1>2. ProjectOf[i] \in projects /\ InOrder(fact[i], issue[i].status, now) /\ fact[i] \in Fact
      /\ now \in Nat
  BY <1>1, DatedAt
<1>3. u \in {fact[i].reviewed, now}
  BY ReviewedAt
<1>4. g \in Fact /\ InOrder(g, st, now)
  <2>1. g = Patched(fact[i], t, u)
    OBVIOUS
  <2>2. t = EndOf(st, now)
    BY DEF EndOf
  <2> HIDE DEF g
  <2>3. fact[i] \in Fact /\ now \in Nat /\ InOrder(fact[i], issue[i].status, now)
    BY <1>2
  <2> QED BY ONLY <1>3, <2>1, <2>2, <2>3, OrderPatched
<1>5. fact' = [fact EXCEPT ![i] = g]
  BY DEF Patched
<1> HIDE DEF g
<1> QED BY <1>1, <1>2, <1>4, <1>5, DatedWrite

\* A creation, by whoever makes it.
LEMMA DatedMade ==
    ASSUME TypeOK, \A j \in Issues : Dated(j), NEW i \in Issues, NEW ls, NEW at,
           CreateTx(i, ls, at), NEW f \in Fact, InOrder(f, "open", now),
           fact' = [fact EXCEPT ![i] = f]
    PROVE  \A j \in Issues : Dated(j)'
<1>1. /\ UNCHANGED <<now, projects>> /\ \A j \in Issues \ {i} : issue'[j] = issue[j]
      /\ ProjectOf[i] \in projects /\ issue'[i].status = "open"
  BY TxWrites
<1> QED BY <1>1, DatedWrite

\* The steps of the jobs.
LEMMA JobDates ==
    ASSUME TypeOK, JobsOK, DatesOK, ImportsOwn, NEW c \in Clients, Job(c)
    PROVE  \A j \in Issues : Dated(j)'
<1>0. now \in Nat /\ 0 \in 0 .. now /\ job[c].at \in 0 .. now
  BY DEF DatesOK, TypeOK, RowsTypeOK
<1>d. \A j \in Issues : Dated(j)
  BY DEF DatesOK
<1>1. ASSUME UNCHANGED <<now, projects, issue, fact>> PROVE \A j \in Issues : Dated(j)'
  BY <1>d, <1>1, DatedKept
<1>2. ASSUME StartPlan(c) \/ StartImport(c) \/ StartArrayImport(c) \/ Answer(c) \/ Abort(c)
             \/ EndRound(c)
      PROVE  \A j \in Issues : Dated(j)'
  BY <1>1, <1>2 DEF StartPlan, StartImport, StartArrayImport, Answer, Abort, EndRound, rowVars,
                    readVars
<1>3. ASSUME WireEdge(c) \/ ImportEdge(c) PROVE \A j \in Issues : Dated(j)'
  BY <1>1, <1>3 DEF WireEdge, ImportEdge, AddDepTx, readVars, rowVars
<1>4. ASSUME CreateNode(c) PROVE \A j \in Issues : Dated(j)'
  <2> DEFINE n == Step(c).node
             new == [NoFact EXCEPT !.key = n.key, !.group = n.group, !.estimate = n.estimate,
                                   !.born = job[c].at]
  <2>1. n \in SpecNode /\ job[c].at \in Nat
    <3>1. Step(c) \in Steps /\ Step(c).op = "node" /\ job[c] \in JobType
      BY <1>4, TurnFields DEF CreateNode
    <3> QED BY <3>1, StepFields, JobFields
  <2>2. PICK i \in Issues : CreateTx(i, {}, job[c].at) /\ fact' = [fact EXCEPT ![i] = new]
    BY <1>4 DEF CreateNode
  <2>3. new \in Fact
    BY <2>1, NodeFact
  <2>4. InOrder(new, "open", now)
    BY <1>0, MadeOrders
  <2> HIDE DEF new
  <2> QED BY <1>d, <2>2, <2>3, <2>4, DatedMade
<1>5. ASSUME ImportRow(c) \/ InsertRow(c) PROVE \A j \in Issues : Dated(j)'
  <2> DEFINE r == Step(c).row
  <2>1. r.id \in Issues /\ r.parent \in Issues \cup {0}
    <3>1. Step(c) \in Steps /\ Step(c).op \in {"row", "insert"}
      BY <1>5, TurnFields DEF ImportRow, InsertRow
    <3>2. r \in ExportRow
      BY <3>1, StepFields
    <3> QED BY <3>2 DEF ExportRow
  <2>2. CASE UNCHANGED <<rowVars, fact>>
    BY <1>1, <2>2 DEF rowVars
  <2>3. CASE CreateTx(r.id, {}, 0)
             /\ fact' = [fact EXCEPT ![r.id] = [NoFact EXCEPT !.parent = r.parent, !.born = 0,
                                                              !.imported = TRUE]]
    <3> DEFINE new == [NoFact EXCEPT !.parent = r.parent, !.born = 0, !.imported = TRUE]
    <3>1. new \in Fact
      BY <2>1, Given, ImportedFact
    <3>2. fact' = [fact EXCEPT ![r.id] = new]
      BY <2>3
    <3>3. InOrder(new, "open", now)
      BY <1>0, MadeOrders
    <3> HIDE DEF new
    <3> QED BY <1>d, <2>1, <2>3, <3>1, <3>2, <3>3, DatedMade
  <2>4. CASE CreateTx(r.id, {}, 0)
             /\ fact' = [fact EXCEPT ![r.id] = [NoFact EXCEPT !.parent = r.parent, !.born = 0]]
    <3> DEFINE new == [NoFact EXCEPT !.parent = r.parent, !.born = 0]
    <3>1. new \in Fact
      BY <2>1, Given, RowFact
    <3>2. fact' = [fact EXCEPT ![r.id] = new]
      BY <2>4
    <3>3. InOrder(new, "open", now)
      BY <1>0, MadeOrders
    <3> HIDE DEF new
    <3> QED BY <1>d, <2>1, <2>4, <3>1, <3>2, <3>3, DatedMade
  <2> QED BY <1>5, <2>2, <2>3, <2>4 DEF ImportRow, InsertRow
<1>6. ASSUME PatchRow(c) PROVE \A j \in Issues : Dated(j)'
  <2> DEFINE r == Step(c).row
             t == IF r.status = "closed" THEN now ELSE Never
             u == FirstReview(r.id, r.status)
  <2>1. r.id \in Issues
    BY <1>6, TurnFields, StepFields DEF PatchRow, ExportRow
  <2>2. UpdateTx(r.id, r.status, issue[r.id].evidence, DeferredTo(r.id, now))
        /\ fact' = [fact EXCEPT ![r.id].ended = t, ![r.id].reviewed = u]
    BY <1>6 DEF PatchRow
  <2> QED BY <1>d, <2>1, <2>2, DatedPatch
<1>7. ASSUME Settle(c) PROVE \A j \in Issues : Dated(j)'
  <2> DEFINE r == Step(c).row
  <2>1. r.id \in Issues /\ (Exists(r.id) => fact[r.id].imported)
    <3>1. Turn(c, "settle")
      BY <1>7 DEF Settle
    <3>2. r.id \in Issues
      BY <3>1, TurnFields, StepFields DEF ExportRow
    <3> QED BY <3>1, <3>2 DEF ImportsOwn
  <2>2. CASE UNCHANGED <<rowVars, fact>>
    BY <1>1, <2>2 DEF rowVars
  <2>3. CASE (\E ev \in Receipts : CloseTx(r.id, {ev})) /\ Ending(r.id, "closed", 0)
    BY <1>d, <2>1, <2>3, ClosedByImport
  <2>4. CASE /\ r.status \notin {"open", "closed"} /\ issue[r.id].status = "open"
             /\ UpdateTx(r.id, r.status, issue[r.id].evidence, 0)
             /\ fact' = [fact EXCEPT ![r.id].reviewed = FirstReview(r.id, r.status)]
    <3> DEFINE u == FirstReview(r.id, r.status)
               i == r.id
               g == [fact[i] EXCEPT !.reviewed = u]
    <3>1. /\ UNCHANGED <<now, projects>> /\ \A j \in Issues \ {i} : issue'[j] = issue[j]
          /\ Exists(i) /\ issue'[i].status = r.status
      BY <2>1, <2>4, TxWrites
    <3>2. ProjectOf[i] \in projects /\ InOrder(fact[i], issue[i].status, now) /\ fact[i] \in Fact
      BY <1>d, <2>1, <3>1, DatedAt
    <3>3. u \in {fact[i].reviewed, now}
      BY ReviewedAt
    <3>4. issue[i].status # "closed" /\ r.status # "closed" /\ i \in Issues
      BY <2>1, <2>4
    <3>5. fact' = [fact EXCEPT ![i] = g]
      BY <2>4
    <3> HIDE DEF u, i
    <3>6. g \in Fact /\ InOrder(g, r.status, now)
      BY <1>0, <3>2, <3>3, <3>4, OrderReviewed
    <3>7. InOrder(g, issue'[i].status, now)
      BY <3>1, <3>6
    <3> HIDE DEF g, r
    <3> QED BY ONLY TypeOK, <1>d, <3>1, <3>2, <3>4, <3>5, <3>6, <3>7, DatedWrite
  <2> QED BY <1>7, <2>2, <2>3, <2>4 DEF Settle, SettleWaits
<1>8. ASSUME CloseException(c) PROVE \A j \in Issues : Dated(j)'
  <2> DEFINE i == Step(c).row.id
  <2>1. i \in Issues /\ (Exists(i) => fact[i].imported)
    <3>1. Turn(c, "except")
      BY <1>8 DEF CloseException
    <3>2. i \in Issues
      BY <3>1, TurnFields, StepFields DEF ExportRow
    <3> QED BY <3>1, <3>2 DEF ImportsOwn
  <2> QED BY <1>d, <1>8, <2>1, ClosedByImport DEF CloseException
<1> QED BY <1>2, <1>3, <1>4, <1>5, <1>6, <1>7, <1>8 DEF Job

\* The steps of everybody else.
LEMMA OthersDates ==
    ASSUME TypeOK, DatesOK, Others
    PROVE  \A j \in Issues : Dated(j)'
<1>0. now \in Nat /\ now \in 0 .. now
  BY DEF TypeOK, RowsTypeOK
<1>d. \A j \in Issues : Dated(j)
  BY DEF DatesOK
<1>1. ASSUME UNCHANGED <<now, projects, issue, fact>> PROVE \A j \in Issues : Dated(j)'
  BY <1>d, <1>1, DatedKept
<1>2. ASSUME Tick PROVE \A j \in Issues : Dated(j)'
  BY <1>d, <1>2, DatedTick DEF Tick, readVars
<1>3. ASSUME NEW i \in Issues, NEW ty \in Types, NEW p \in Issues \cup {0}, Create(i, ty, p)
      PROVE  \A j \in Issues : Dated(j)'
  <2> DEFINE new == [NoFact EXCEPT !.type = ty, !.parent = p, !.born = now]
  <2>1. new \in Fact
    BY <1>0, MadeFact
  <2>2. fact' = [fact EXCEPT ![i] = new] /\ CreateTx(i, {}, now + Grace)
    BY <1>3 DEF Create
  <2>3. InOrder(new, "open", now)
    BY <1>0, MadeOrders
  <2> HIDE DEF new
  <2> QED BY <1>d, <2>1, <2>2, <2>3, DatedMade
<1>4. ASSUME NEW i \in Issues, NEW who \in Names, Claim(i, who) PROVE \A j \in Issues : Dated(j)'
  <2> DEFINE k == IF who \in Humans THEN "human" ELSE "agent"
             u == IF fact[i].claimed = Never THEN now ELSE fact[i].claimed
             g == [fact[i] EXCEPT !.claimed = u]
  <2>1. ClaimTx(i, who, k, AgentTTL, now) /\ fact' = [fact EXCEPT ![i] = g]
    BY <1>4 DEF Claim
  <2>2. /\ UNCHANGED <<now, projects>> /\ \A j \in Issues \ {i} : issue'[j] = issue[j]
        /\ Exists(i) /\ issue'[i].status = issue[i].status
    BY <2>1, TxWrites
  <2>3. ProjectOf[i] \in projects /\ InOrder(fact[i], issue[i].status, now) /\ fact[i] \in Fact
    BY <1>d, <2>2, DatedAt
  <2>4. u \in {fact[i].claimed, now}
    OBVIOUS
  <2>5. fact' = [fact EXCEPT ![i] = g]
    BY <2>1
  <2> HIDE DEF u, k
  <2>6. g \in Fact /\ InOrder(g, issue[i].status, now)
    BY <1>0, <2>3, <2>4, OrderClaimed
  <2>7. InOrder(g, issue'[i].status, now)
    BY <2>2, <2>6
  <2> HIDE DEF g
  <2> QED BY <1>d, <2>2, <2>3, <2>5, <2>6, <2>7, DatedWrite
<1>5. ASSUME NEW i \in Issues, NEW st \in Statuses, SetStatus(i, st) PROVE \A j \in Issues : Dated(j)'
  <2> DEFINE t == IF st = "closed" THEN now ELSE Never
             u == FirstReview(i, st)
  <2>1. UpdateTx(i, st, issue[i].evidence, DeferredTo(i, now))
        /\ fact' = [fact EXCEPT ![i].ended = t, ![i].reviewed = u]
    BY <1>5 DEF SetStatus, Ended
  <2> QED BY <1>d, <2>1, DatedPatch
<1>6. ASSUME NEW i \in Issues, Close(i) PROVE \A j \in Issues : Dated(j)'
  <2> DEFINE f == [fact[i] EXCEPT !.ended = now]
  <2>1. PICK ev \in Receipts : CloseTx(i, {ev})
    BY <1>6 DEF Close
  <2>2. /\ UNCHANGED <<now, projects>> /\ \A j \in Issues \ {i} : issue'[j] = issue[j]
        /\ Exists(i) /\ issue'[i].status = "closed"
    BY <2>1, TxWrites
  <2>3. ProjectOf[i] \in projects /\ InOrder(fact[i], issue[i].status, now) /\ fact[i] \in Fact
    BY <1>d, <2>2, DatedAt
  <2>4. now \in fact[i].born .. now
    BY <1>0, <2>3 DEF InOrder
  <2>5. f \in Fact /\ InOrder(f, "closed", now)
    BY <1>0, <2>3, <2>4, OrderClosed
  <2>6. fact' = [fact EXCEPT ![i] = f]
    BY <1>6 DEF Close, Ending
  <2> HIDE DEF f
  <2> QED BY <1>d, <2>2, <2>3, <2>5, <2>6, DatedWrite
<1>7. ASSUME NEW i \in Issues, NEW j \in Issues, AddDep(i, j) \/ RemoveDep(i, j)
      PROVE  \A k \in Issues : Dated(k)'
  BY <1>1, <1>7 DEF AddDep, RemoveDep, AddDepTx, RemoveDepTx, readVars
<1>8. ASSUME NEW s \in Projects, DropProject(s) PROVE \A j \in Issues : Dated(j)'
  <2>1. /\ now' = now /\ projects' = projects \ {s}
        /\ \A j \in Issues : issue'[j] = IF ProjectOf[j] = s THEN Absent ELSE issue[j]
        /\ \A j \in Issues : fact'[j] = IF ProjectOf[j] = s THEN NoFact ELSE fact[j]
    BY <1>8 DEF DropProject, DropProjectTx
  <2> TAKE j \in Issues
  <2>2. CASE ProjectOf[j] = s
    BY <2>1, <2>2 DEF Dated, Exists, Absent
  <2>3. CASE ProjectOf[j] # s
    BY <1>d, <2>1, <2>3 DEF Dated, Exists
  <2> QED BY <2>2, <2>3
<1>9. ASSUME NEW s \in Projects, NEW f \in Folders \cup {NoFolder}, MoveProject(s, f)
      PROVE  \A j \in Issues : Dated(j)'
  BY <1>1, <1>9 DEF MoveProject, rowVars
<1>10. ASSUME NEW f \in Folders, NEW p \in Folders \cup {Root}, EnsureFolder(f, p)
       PROVE  \A j \in Issues : Dated(j)'
  BY <1>1, <1>10 DEF EnsureFolder, rowVars
<1>11. scene.made \subseteq Issues /\ scene.types \subseteq Types /\ scene.patches \subseteq Statuses
  BY CaseFields
<1> QED BY <1>2, <1>3, <1>4, <1>5, <1>6, <1>7, <1>8, <1>9, <1>10, <1>11 DEF Others

\* The clock never goes back, and a job starts with the time, or with none.
LEMMA JobTimes ==
    ASSUME TypeOK, DatesOK, [Next]_vars
    PROVE  now' \in Nat /\ now <= now' /\ \A c \in Clients : job'[c].at \in 0 .. now'
<1>0. job \in [Clients -> JobType] /\ now \in Nat /\ \A c \in Clients : job[c].at \in 0 .. now
  BY DEF TypeOK, RowsTypeOK, DatesOK
<1>1. ASSUME now' = now, job' = job
      PROVE  now' \in Nat /\ now <= now' /\ \A c \in Clients : job'[c].at \in 0 .. now'
  BY <1>0, <1>1
<1>2. ASSUME NEW c \in Clients, now' = now, \A d \in Clients \ {c} : job'[d] = job[d],
             job'[c].at \in {job[c].at, 0, now}
      PROVE  now' \in Nat /\ now <= now' /\ \A d \in Clients : job'[d].at \in 0 .. now'
  BY <1>0, <1>2
<1>3. ASSUME NEW c \in Clients, NEW k, job' = [job EXCEPT ![c] = k], now' = now,
             k.at \in {job[c].at, 0, now}
      PROVE  now' \in Nat /\ now <= now' /\ \A d \in Clients : job'[d].at \in 0 .. now'
  <2>1. job'[c] = k /\ \A d \in Clients \ {c} : job'[d] = job[d]
    BY <1>0, <1>3
  <2> QED BY <1>2, <1>3, <2>1
<1>4. ASSUME NEW c \in Clients, Job(c)
      PROVE  now' \in Nat /\ now <= now' /\ \A d \in Clients : job'[d].at \in 0 .. now'
  <2>1. now' = now
    BY <1>4 DEF Job, StartPlan, StartImport, StartArrayImport, Answer, Abort, CreateNode, WireEdge,
                ImportRow, InsertRow, ImportEdge, PatchRow, Settle, SettleWaits, EndRound,
                CloseException, rowVars, CreateTx, AddDepTx, UpdateTx, CloseTx
  <2>2. CASE StartPlan(c) \/ StartImport(c) \/ StartArrayImport(c)
    <3>1. PICK t, at, r : job' = [job EXCEPT ![c] = Started(t, at, r)] /\ at \in {0, now}
      BY <2>2 DEF StartPlan, StartImport, StartArrayImport
    <3>2. Started(t, at, r).at = at
      BY DEF Started
    <3> QED BY <1>3, <2>1, <3>1, <3>2
  <2>3. CASE Answer(c) \/ Abort(c)
    <3>1. job' = [job EXCEPT ![c] = NoJob] /\ NoJob.at = 0
      BY <2>3 DEF Answer, Abort, NoJob
    <3> QED BY <1>3, <2>1, <3>1
  <2>4. CASE Onward(c)
    <3> DEFINE k == [job[c] EXCEPT !.todo = Tail(job[c].todo)]
    <3>1. job' = [job EXCEPT ![c] = k]
      BY <2>4 DEF Onward
    <3>2. k.at = job[c].at
      BY <1>0 DEF JobType
    <3> HIDE DEF k
    <3> QED BY <1>3, <2>1, <3>1, <3>2
  <2>5. ASSUME NEW i, NEW key, job' = [job EXCEPT ![c].todo = Tail(@), ![c].ids[key] = i]
        PROVE  now' \in Nat /\ now <= now' /\ \A d \in Clients : job'[d].at \in 0 .. now'
    <3> DEFINE k == [job[c] EXCEPT !.todo = Tail(job[c].todo), !.ids[key] = i]
    <3>1. job' = [job EXCEPT ![c] = k]
      BY <2>5
    <3>2. k.at = job[c].at
      BY <1>0 DEF JobType
    <3> HIDE DEF k
    <3> QED BY <1>3, <2>1, <3>1, <3>2
  <2>6. ASSUME NEW r, job' = [job EXCEPT ![c].todo = Tail(@), ![c].failed = Append(@, r)]
        PROVE  now' \in Nat /\ now <= now' /\ \A d \in Clients : job'[d].at \in 0 .. now'
    <3> DEFINE k == [job[c] EXCEPT !.todo = Tail(job[c].todo), !.failed = Append(job[c].failed, r)]
    <3>1. job' = [job EXCEPT ![c] = k]
      BY <2>6
    <3>2. k.at = job[c].at
      BY <1>0 DEF JobType
    <3> HIDE DEF k
    <3> QED BY <1>3, <2>1, <3>1, <3>2
  <2>7. CASE Progressed(c)
    <3> DEFINE k == [job[c] EXCEPT !.todo = Tail(job[c].todo), !.progressed = TRUE]
    <3>1. job' = [job EXCEPT ![c] = k]
      BY <2>7 DEF Progressed
    <3>2. k.at = job[c].at
      BY <1>0 DEF JobType
    <3> HIDE DEF k
    <3> QED BY <1>3, <2>1, <3>1, <3>2
  <2>8. ASSUME NEW t, job' = [job EXCEPT ![c].failed = <<>>, ![c].progressed = FALSE, ![c].todo = t]
        PROVE  now' \in Nat /\ now <= now' /\ \A d \in Clients : job'[d].at \in 0 .. now'
    <3> DEFINE k == [job[c] EXCEPT !.failed = <<>>, !.progressed = FALSE, !.todo = t]
    <3>1. job' = [job EXCEPT ![c] = k]
      BY <2>8
    <3>2. k.at = job[c].at
      BY <1>0 DEF JobType
    <3> HIDE DEF k
    <3> QED BY <1>3, <2>1, <3>1, <3>2
  <2>9. CASE WireEdge(c) \/ ImportRow(c) \/ InsertRow(c) \/ ImportEdge(c) \/ PatchRow(c)
             \/ CloseException(c)
    BY <2>4, <2>9 DEF WireEdge, ImportRow, InsertRow, ImportEdge, PatchRow, CloseException
  <2>10. CASE CreateNode(c)
    BY <2>5, <2>10 DEF CreateNode
  <2>11. CASE Settle(c)
    BY <2>4, <2>6, <2>7, <2>11 DEF Settle, SettleWaits
  <2>12. CASE EndRound(c)
    BY <2>8, <2>12 DEF EndRound
  <2> QED BY <1>4, <2>2, <2>3, <2>9, <2>10, <2>11, <2>12 DEF Job
<1>5. CASE Others
  <2>1. job' = job
    BY <1>5, OthersStepOK
  <2>2. now' = now \/ now' = now + 1
    BY <1>5 DEF Others, Tick, Create, Claim, SetStatus, Close, AddDep, RemoveDep, DropProject,
                EnsureFolder, MoveProject, rowVars, CreateTx, ClaimTx, AddDepTx, RemoveDepTx, UpdateTx,
                CloseTx, DropProjectTx
  <2> QED BY <1>0, <2>1, <2>2
<1>6. CASE UNCHANGED vars
  BY <1>1, <1>6 DEF vars, rowVars
<1> QED BY <1>4, <1>5, <1>6 DEF Next

LEMMA DatesStep == PlanningOK /\ DatesOK /\ ImportsOwn /\ [Next]_vars => DatesOK'
<1> SUFFICES ASSUME PlanningOK, DatesOK, ImportsOwn, [Next]_vars PROVE DatesOK'
  OBVIOUS
<1>0. TypeOK /\ JobsOK /\ \A j \in Issues : Dated(j)
  BY DEF PlanningOK, DatesOK
<1>1. \A c \in Clients : job'[c].at \in 0 .. now'
  BY <1>0, JobTimes
<1>2. \A j \in Issues : Dated(j)'
  <2>1. CASE UNCHANGED vars
    BY <1>0, <2>1, DatedKept DEF vars, rowVars, readVars
  <2> QED BY <1>0, <2>1, JobDates, OthersDates DEF Next
<1> QED BY <1>1, <1>2 DEF DatesOK

LEMMA DatesInit == Init => DatesOK
<1> SUFFICES ASSUME Init PROVE DatesOK
  OBVIOUS
<1>1. \A i \in Issues : ~Exists(i)
  BY DEF Init, RowsInit, Exists, Absent
<1>2. \A c \in Clients : job[c].at = 0
  BY DEF Init, NoJob
<1>3. now = 0
  BY DEF Init, RowsInit
<1> QED BY <1>1, <1>2, <1>3 DEF DatesOK, Dated

----------------------------------------------------------------------------
(* ReportsAgree, claim by claim *)

\* What the states of Spec keep so that the reports can be compared.
Reported ==
    /\ TypeOK /\ EdgesResolve /\ FolderForest /\ \A i \in Issues : Dated(i)
    /\ IsFiniteSet(AllIssues) /\ IsFiniteSet({f \in Folders : IsFolder(f)})

LEMMA ReportedFacts ==
    ASSUME Reported
    PROVE  /\ now \in Nat /\ IsFiniteSet(Work(AllIssues)) /\ Work(AllIssues) \subseteq AllIssues
           /\ \A i \in AllIssues :
                 /\ i \in Issues /\ Exists(i) /\ fact[i] \in Fact /\ issue[i] \in Row
                 /\ ProjectOf[i] \in projects /\ ProjectOf[i] \in Projects
                 /\ InOrder(fact[i], issue[i].status, now)
<1>1. now \in Nat /\ projects \subseteq Projects /\ fact \in [Issues -> Fact]
      /\ issue \in [Issues -> Row]
  BY DEF Reported, TypeOK, RowsTypeOK
<1>2. Work(AllIssues) \in SUBSET AllIssues /\ IsFiniteSet(AllIssues)
  BY DEF Work, Reported
<1>3. IsFiniteSet(Work(AllIssues))
  BY <1>2, FS_Subset
<1>4. ASSUME NEW i \in AllIssues
      PROVE  /\ i \in Issues /\ Exists(i) /\ fact[i] \in Fact /\ issue[i] \in Row
             /\ ProjectOf[i] \in projects /\ ProjectOf[i] \in Projects
             /\ InOrder(fact[i], issue[i].status, now)
  <2>1. i \in Issues /\ Exists(i)
    BY DEF AllIssues
  <2>2. ProjectOf[i] \in projects /\ InOrder(fact[i], issue[i].status, now)
    BY <2>1 DEF Reported, Dated
  <2> QED BY <1>1, <2>1, <2>2
<1> QED BY <1>1, <1>2, <1>3, <1>4

\* The parts a folder and a project have in the work there is.
FolderWork(f) == {i \in Work(AllIssues) : placed[ProjectOf[i]] = f}
ProjectWork(s) == {i \in Work(AllIssues) : ProjectOf[i] = s}

\* A folder's rollup counts the work of the projects in it.
LEMMA RollupWork ==
    ASSUME Reported, NEW f \in Folders
    PROVE  LET ins == {s \in projects : placed[s] = f} IN
           /\ Work({i \in AllIssues : ProjectOf[i] \in ins}) = FolderWork(f)
           /\ FolderRollup(f, projects, AllIssues, Window).progress = Progress(FolderWork(f))
           /\ FolderRollup(f, projects, AllIssues, Window).burned = Burndown(FolderWork(f), Window).burned
           /\ FolderRollup(f, projects, AllIssues, Window).ready
                = SumOver([s \in ins |-> Rollup(s, AllIssues, Window).ready], ins)
<1> DEFINE ins == {s \in projects : placed[s] = f}
           r == FolderRollup(f, projects, AllIssues, Window)
           work == Work({i \in AllIssues : ProjectOf[i] \in ins})
<1>1. work = FolderWork(f)
  BY ReportedFacts DEF Work, FolderWork
<1>2. /\ r.progress = Progress(work) /\ r.burned = Burndown(work, Window).burned
      /\ r.ready = SumOver([s \in ins |-> Rollup(s, AllIssues, Window).ready], ins)
  BY DEF FolderRollup
<1> QED BY <1>1, <1>2

LEMMA LooseWork ==
    ASSUME NEW s
    PROVE  /\ Rollup(s, AllIssues, Window).progress = Progress(ProjectWork(s))
           /\ Rollup(s, AllIssues, Window).ready
                = Cardinality(ReadyOf({i \in AllIssues : ProjectOf[i] = s}))
<1> DEFINE mine == {i \in AllIssues : ProjectOf[i] = s}
<1>1. Work(mine) = ProjectWork(s)
  BY DEF Work, ProjectWork
<1>2. /\ Rollup(s, AllIssues, Window).progress = Progress(Work(mine))
      /\ Rollup(s, AllIssues, Window).ready = Cardinality(ReadyOf(mine))
  BY DEF Rollup
<1> QED BY <1>1, <1>2

\* The folders and the unfiled projects share the work out.
LEMMA WorkShared ==
    ASSUME Reported
    PROVE  LET filed == {f \in Folders : IsFolder(f)}
               A == [f \in Folders |-> FolderWork(f)]
               B == [s \in Projects |-> ProjectWork(s)]
               U == UNION {A[f] : f \in filed}
               V == UNION {B[s] : s \in Unfiled(projects)}
           IN  /\ IsFiniteSet(filed) /\ Parts(A, filed)
               /\ IsFiniteSet(Unfiled(projects)) /\ Parts(B, Unfiled(projects))
               /\ U \cap V = {} /\ U \cup V = Work(AllIssues)
<1> DEFINE filed == {f \in Folders : IsFolder(f)}
           A == [f \in Folders |-> FolderWork(f)]
           B == [s \in Projects |-> ProjectWork(s)]
           U == UNION {A[f] : f \in filed}
           V == UNION {B[s] : s \in Unfiled(projects)}
           W == Work(AllIssues)
<1>0. IsFiniteSet(filed) /\ projects \subseteq Projects
      /\ placed \in [Projects -> Folders \cup {NoFolder}] /\ NoFolder \notin Folders
  BY FoldersAssumption DEF Reported, TypeOK, RowsTypeOK
<1>1. IsFiniteSet(W) /\ \A i \in W : ProjectOf[i] \in projects /\ ProjectOf[i] \in Projects
  BY ReportedFacts
<1>2. \A s \in projects : placed[s] # NoFolder => placed[s] \in filed
  BY <1>0 DEF Reported, FolderForest
<1>3. Unfiled(projects) \in SUBSET Projects
  BY <1>0 DEF Unfiled
<1>4. IsFiniteSet(Unfiled(projects))
  BY <1>3, ProjectsAssumption, FS_Subset
<1>5. \A s \in Projects : s \in Unfiled(projects) <=> s \in projects /\ placed[s] \notin filed
  BY <1>0 DEF Unfiled
<1> HIDE DEF W
<1>6. \A f \in Folders : A[f] \in SUBSET W /\ A[f] = {i \in W : placed[ProjectOf[i]] = f}
  BY DEF FolderWork, W
<1>7. \A s \in Projects : B[s] \in SUBSET W /\ B[s] = {i \in W : ProjectOf[i] = s}
  BY DEF ProjectWork, W
<1> HIDE DEF A, B
<1>8. Parts(A, filed)
  <2>1. \A f \in filed : IsFiniteSet(A[f])
    BY <1>1, <1>6, FS_Subset
  <2>2. \A f, g \in filed : f # g => A[f] \cap A[g] = {}
    BY <1>6
  <2> QED BY <2>1, <2>2 DEF Parts
<1>9. Parts(B, Unfiled(projects))
  <2>1. \A s \in Unfiled(projects) : IsFiniteSet(B[s])
    BY <1>1, <1>3, <1>7, FS_Subset
  <2>2. \A s, q \in Unfiled(projects) : s # q => B[s] \cap B[q] = {}
    BY <1>3, <1>7
  <2> QED BY <2>1, <2>2 DEF Parts
<1>10. \A i \in W : (i \in U <=> placed[ProjectOf[i]] \in filed)
  BY <1>6
<1>11. \A i \in W : (i \in V <=> placed[ProjectOf[i]] \notin filed)
  BY <1>1, <1>3, <1>5, <1>7
<1>12. U \subseteq W /\ V \subseteq W
  BY <1>3, <1>6, <1>7
<1> HIDE DEF U, V, filed
<1>13. U \cap V = {} /\ U \cup V = W
  BY <1>10, <1>11, <1>12
<1> QED BY <1>0, <1>4, <1>8, <1>9, <1>13 DEF A, B, U, V, filed, W

\* Folders and unfiled projects add up to the totals.
LEMMA ProgressAgrees ==
    ASSUME Reported
    PROVE  LET roll   == [f \in Folders |-> FolderRollup(f, projects, AllIssues, Window)]
               loose  == [s \in Unfiled(projects) |-> Rollup(s, AllIssues, Window)]
           IN  Totals(projects, AllIssues, Window).progress =
                 Plus(SumUp([f \in Folders |-> roll[f].progress], {f \in Folders : IsFolder(f)}),
                      SumUp([s \in DOMAIN loose |-> loose[s].progress], DOMAIN loose))
<1> DEFINE roll   == [f \in Folders |-> FolderRollup(f, projects, AllIssues, Window)]
           loose  == [s \in Unfiled(projects) |-> Rollup(s, AllIssues, Window)]
           filed == {f \in Folders : IsFolder(f)}
           A == [f \in Folders |-> FolderWork(f)]
           B == [s \in Projects |-> ProjectWork(s)]
           U == UNION {A[f] : f \in filed}
           V == UNION {B[s] : s \in Unfiled(projects)}
           p == [f \in Folders |-> roll[f].progress]
           q == [s \in DOMAIN loose |-> loose[s].progress]
<1>1. /\ IsFiniteSet(filed) /\ Parts(A, filed)
      /\ IsFiniteSet(Unfiled(projects)) /\ Parts(B, Unfiled(projects))
      /\ U \cap V = {} /\ U \cup V = Work(AllIssues)
  BY WorkShared
<1>2. \A f \in filed : p[f] = Progress(A[f])
  BY RollupWork
<1>3. DOMAIN loose = Unfiled(projects) /\ \A s \in Unfiled(projects) : q[s] = Progress(B[s])
  <2>1. Unfiled(projects) \subseteq Projects
    BY DEF Unfiled, Reported, TypeOK, RowsTypeOK
  <2> QED BY <2>1, LooseWork
<1>4. Totals(projects, AllIssues, Window).progress = Progress(Work(AllIssues))
  BY DEF Totals
<1> HIDE DEF A, B, p, q, filed, loose
<1>5. SumUp(p, filed) = Progress(U) /\ IsFiniteSet(U)
  BY <1>1, <1>2, SumUpParts
<1>6. SumUp(q, Unfiled(projects)) = Progress(V) /\ IsFiniteSet(V)
  BY <1>1, <1>3, SumUpParts
<1> HIDE DEF U, V
<1>7. Plus(Progress(U), Progress(V)) = Progress(U \cup V)
  BY <1>1, <1>5, <1>6, ProgressPlus
<1>8. Totals(projects, AllIssues, Window).progress = Plus(SumUp(p, filed), SumUp(q, DOMAIN loose))
  BY <1>1, <1>3, <1>4, <1>5, <1>6, <1>7
<1> QED BY <1>8 DEF p, q, filed, loose

----------------------------------------------------------------------------
(* Ready work *)

\* The ready work of the projects in T, project by project.
LEMMA ReadyByProject ==
    ASSUME Reported, NEW T \in SUBSET projects
    PROVE  SumOver([s \in T |-> Rollup(s, AllIssues, Window).ready], T)
             = Cardinality(ReadyOf({i \in AllIssues : ProjectOf[i] \in T}))
<1> DEFINE A == [s \in T |-> ReadyOf({i \in AllIssues : ProjectOf[i] = s})]
           f == [s \in T |-> Rollup(s, AllIssues, Window).ready]
           R == ReadyOf({i \in AllIssues : ProjectOf[i] \in T})
<1>1. IsFiniteSet(T)
  <2>1. T \in SUBSET Projects
    BY DEF Reported, TypeOK, RowsTypeOK
  <2> QED BY <2>1, ProjectsAssumption, FS_Subset
<1>2. \A s \in T : A[s] = {i \in AllIssues : ProjectOf[i] = s /\ ReportReady(i)}
  BY DEF ReadyOf
<1>3. R = {i \in AllIssues : ProjectOf[i] \in T /\ ReportReady(i)}
  BY DEF ReadyOf
<1>4. \A s \in T : f[s] = Cardinality(A[s])
  BY LooseWork
<1> HIDE DEF A, f, R
<1>5. Parts(A, T)
  <2>1. \A s \in T : A[s] \in SUBSET AllIssues
    BY <1>2
  <2>2. \A s \in T : IsFiniteSet(A[s])
    BY <2>1, FS_Subset DEF Reported
  <2>3. \A s, q \in T : s # q => A[s] \cap A[q] = {}
    BY <1>2
  <2> QED BY <2>2, <2>3 DEF Parts
<1>6. UNION {A[s] : s \in T} = R
  BY <1>2, <1>3
<1>7. SumOver(f, T) = Cardinality(UNION {A[s] : s \in T})
  BY <1>1, <1>4, <1>5, SumParts
<1> QED BY <1>6, <1>7 DEF f, R

\* Ready in a report is ready in the store, but for goals.
LEMMA ReadyIsOffered ==
    ASSUME NEW i
    PROVE  ReportReady(i) <=> fact[i].type # "goal" /\ StoreReady(i)
BY DEF ReportReady, StoreReady, OpenBlockers

LEMMA ReadyAgrees ==
    ASSUME Reported
    PROVE  /\ Totals(projects, AllIssues, Window).ready
                = Cardinality({i \in Work(AllIssues) : StoreReady(i)})
           /\ {i \in Work(AllIssues) : StoreReady(i)} = ReadyOf(AllIssues)
<1>1. Totals(projects, AllIssues, Window).ready
        = SumOver([s \in projects |-> Rollup(s, AllIssues, Window).ready], projects)
  BY DEF Totals
<1>2. SumOver([s \in projects |-> Rollup(s, AllIssues, Window).ready], projects)
        = Cardinality(ReadyOf({i \in AllIssues : ProjectOf[i] \in projects}))
  <2>1. projects \in SUBSET projects
    OBVIOUS
  <2> QED BY <2>1, ReadyByProject
<1>3. {i \in AllIssues : ProjectOf[i] \in projects} = AllIssues
  BY ReportedFacts
<1>4. {i \in Work(AllIssues) : StoreReady(i)} = ReadyOf(AllIssues)
  BY ReadyIsOffered DEF Work, ReadyOf
<1> QED BY <1>1, <1>2, <1>3, <1>4

\* A folder's rollup is its dashboard.
LEMMA DashboardAgrees ==
    ASSUME Reported, NEW f \in Folders
    PROVE  LET d == Dashboard([kind |-> "folder", slug |-> f], Window, DefaultEstimate)
               r == FolderRollup(f, projects, AllIssues, Window)
           IN  /\ d.progress = r.progress /\ d.ready = r.ready
               /\ d.burndown.burned = r.burned /\ d.totals.progress = d.progress
<1> DEFINE sc == [kind |-> "folder", slug |-> f]
           S == InScope(sc)
           d == Dashboard(sc, Window, DefaultEstimate)
           r == FolderRollup(f, projects, AllIssues, Window)
           ins == {s \in projects : placed[s] = f}
<1>1. S = {i \in AllIssues : placed[ProjectOf[i]] = f}
  BY DEF InScope
<1>2. /\ d.progress = Progress(Work(S)) /\ d.ready = Cardinality(ReadyOf(Work(S)))
      /\ d.burndown = Burndown(Work(S), Window)
      /\ d.totals = Totals(SelectedProjects(sc), S, Window)
  BY DEF Dashboard
<1>3. Totals(SelectedProjects(sc), S, Window).progress = Progress(Work(S))
  BY DEF Totals
<1>4. Work(S) = FolderWork(f)
  BY <1>1 DEF Work, FolderWork
<1>5. ReadyOf(Work(S)) = ReadyOf({i \in AllIssues : ProjectOf[i] \in ins})
  <2>1. \A i \in AllIssues : ProjectOf[i] \in projects
    BY ReportedFacts
  <2> QED BY <1>1, <2>1 DEF ReadyOf, Work, ReportReady
<1> HIDE DEF d, S, sc
<1>6. /\ r.progress = Progress(FolderWork(f)) /\ r.burned = Burndown(FolderWork(f), Window).burned
      /\ r.ready = SumOver([s \in ins |-> Rollup(s, AllIssues, Window).ready], ins)
  BY RollupWork
<1> HIDE DEF r
<1>7. r.ready = Cardinality(ReadyOf({i \in AllIssues : ProjectOf[i] \in ins}))
  <2>1. ins \in SUBSET projects
    OBVIOUS
  <2> HIDE DEF ins
  <2> QED BY <1>6, <2>1, ReadyByProject
<1>8. d.progress = r.progress /\ d.ready = r.ready /\ d.burndown.burned = r.burned
      /\ d.totals.progress = d.progress
  BY <1>2, <1>3, <1>4, <1>5, <1>6, <1>7
<1> QED BY <1>8 DEF d, r, sc

\* No card of ready work shows a blocker: the target of an edge is there.
LEMMA NoBlockers ==
    ASSUME Reported, NEW i \in AllIssues, ReportReady(i)
    PROVE  BlockedBy(i) = 0
<1>1. \A b \in Blockers(i) : Exists(b)
  BY DEF Blockers, Reported, EdgesResolve
<1>2. {b \in Blockers(i) : issue[b].status # "closed"} = {}
  BY <1>1 DEF ReportReady, Exists
<1> QED BY <1>2, FS_EmptySet DEF BlockedBy

----------------------------------------------------------------------------
(* The burndown *)

LEMMA DoneIsClosed ==
    ASSUME Reported, NEW S \in SUBSET AllIssues
    PROVE  /\ DoneBy(S, now) = {i \in S : issue[i].status = "closed"}
           /\ {i \in S : fact[i].born <= now} = S
<1>1. ASSUME NEW i \in S
      PROVE  /\ fact[i].ended # Never /\ fact[i].ended <= now <=> issue[i].status = "closed"
             /\ fact[i].born <= now
  <2>1. InOrder(fact[i], issue[i].status, now) /\ now \in Nat
    BY ReportedFacts
  <2> QED BY <2>1 DEF InOrder
<1> QED BY <1>1 DEF DoneBy

LEMMA BurndownEnds ==
    ASSUME Reported
    PROVE  LET burn == Burndown(Work(AllIssues), Window) IN
           /\ burn.done = Count(Work(AllIssues), "closed")
           /\ burn.points[Window].remaining = burn.remaining
           /\ \A d \in 1 .. Window : burn.points[d - 1].scope <= burn.points[d].scope
<1> DEFINE S == Work(AllIssues)
           burn == Burndown(S, Window)
           start == now - Window
           at(d) == Lesser(start + d, now)
<1>0. S \in SUBSET AllIssues /\ IsFiniteSet(S) /\ now \in Nat /\ Window \in Nat
  BY ReportedFacts, WindowAssumption
<1> HIDE DEF S
<1>1. /\ burn.done = Cardinality(DoneBy(S, now))
      /\ burn.remaining = Greater(Cardinality(S) - Cardinality(DoneBy(S, now)), 0)
      /\ burn.points = [d \in 0 .. Window |-> Point(S, at(d))]
  BY DEF Burndown
<1> HIDE DEF burn
<1>2. burn.done = Count(S, "closed")
  BY <1>0, <1>1, DoneIsClosed DEF Count
<1>3. at(Window) = now /\ Window \in 0 .. Window
  BY <1>0 DEF Lesser
<1>4. Point(S, now).remaining = Greater(Cardinality(S) - Cardinality(DoneBy(S, now)), 0)
  BY <1>0, DoneIsClosed DEF Point
<1>5. burn.points[Window].remaining = burn.remaining
  BY <1>1, <1>3, <1>4
<1>6. ASSUME NEW d \in 1 .. Window PROVE burn.points[d - 1].scope <= burn.points[d].scope
  <2>1. /\ d - 1 \in 0 .. Window /\ d \in 0 .. Window /\ at(d - 1) \in Int /\ at(d) \in Int
        /\ at(d - 1) <= at(d)
    BY <1>0 DEF Lesser
  <2> DEFINE s == at(d - 1)
             t == at(d)
             P == {i \in S : fact[i].born <= s}
             Q == {i \in S : fact[i].born <= t}
  <2>2. burn.points[d - 1] = Point(S, s) /\ burn.points[d] = Point(S, t)
    BY <1>1, <2>1
  <2>3. s \in Int /\ t \in Int /\ s <= t
    BY <2>1
  <2> HIDE DEF s, t
  <2>4. Point(S, s).scope = Cardinality(P) /\ Point(S, t).scope = Cardinality(Q)
    BY DEF Point
  <2>5. P \in SUBSET Q
    <3> SUFFICES ASSUME NEW i \in S, fact[i].born <= s PROVE fact[i].born <= t
      OBVIOUS
    <3>1. i \in AllIssues
      BY <1>0
    <3>2. fact[i].born \in Int
      BY <3>1, ReportedFacts, FactTimes
    <3> QED BY <2>3, <3>2
  <2>6. IsFiniteSet(Q)
    <3>1. Q \in SUBSET S
      OBVIOUS
    <3> QED BY <1>0, <3>1, FS_Subset
  <2> HIDE DEF P, Q
  <2>7. Cardinality(P) <= Cardinality(Q)
    BY <2>5, <2>6, FS_Subset
  <2> QED BY <2>2, <2>4, <2>7
<1> QED BY <1>2, <1>5, <1>6 DEF burn, S

----------------------------------------------------------------------------
(* The metrics of a project *)

LEMMA MineAre ==
    ASSUME Reported, NEW s
    PROVE  InProject(s) \in SUBSET AllIssues /\ IsFiniteSet(InProject(s))
<1>1. InProject(s) \in SUBSET AllIssues
  BY DEF InProject, AllIssues
<1>2. IsFiniteSet(AllIssues)
  BY DEF Reported
<1> QED BY ONLY <1>1, <1>2, FS_Subset

\* Closes are counted and timed alike.
LEMMA TimesAgree ==
    ASSUME Reported, NEW s
    PROVE  /\ CycleTime(s).n = Count(InProject(s), "closed")
           /\ ReviewTime(s).n <= CycleTime(s).n /\ ReviewTime(s).sum <= CycleTime(s).sum
<1> DEFINE S == InProject(s)
           f == [i \in Issues |-> fact[i].ended - fact[i].reviewed]
           g == [i \in Issues |-> fact[i].ended - fact[i].born]
           R == {i \in S : fact[i].ended # Never /\ fact[i].reviewed # Never /\ f[i] >= 0}
           C == {i \in S : fact[i].ended # Never /\ g[i] >= 0}
<1>1. /\ CycleTime(s).n = Cardinality(C) /\ CycleTime(s).sum = SumOver(g, C)
      /\ ReviewTime(s).n = Cardinality(R) /\ ReviewTime(s).sum = SumOver(f, R)
  BY DEF CycleTime, ReviewTime, Summary
<1>2. S \in SUBSET AllIssues /\ IsFiniteSet(S)
  BY MineAre
<1>3. ASSUME NEW i \in S
      PROVE  /\ fact[i].ended # Never <=> issue[i].status = "closed"
             /\ fact[i].ended # Never => g[i] \in Nat
             /\ fact[i].ended # Never /\ fact[i].reviewed # Never => f[i] \in Int /\ f[i] <= g[i]
             /\ fact[i].ended # Never /\ fact[i].reviewed # Never /\ f[i] >= 0 => f[i] \in Nat
  <2>1. /\ InOrder(fact[i], issue[i].status, now) /\ now \in Nat /\ fact[i] \in Fact
        /\ i \in Issues
    BY <1>2, ReportedFacts
  <2>2. fact[i].born \in Int /\ fact[i].ended \in Int /\ fact[i].reviewed \in Int
    BY <2>1, FactTimes
  <2>3. f[i] = fact[i].ended - fact[i].reviewed /\ g[i] = fact[i].ended - fact[i].born
    BY <2>1
  <2>4. /\ fact[i].ended # Never <=> issue[i].status = "closed"
        /\ fact[i].ended # Never => fact[i].born <= fact[i].ended
        /\ fact[i].reviewed # Never => fact[i].born <= fact[i].reviewed
    BY <2>1 DEF InOrder
  <2> HIDE DEF f, g
  <2>5. f[i] \in Int /\ g[i] \in Int
    BY ONLY <2>2, <2>3
  <2>6. /\ fact[i].ended # Never => g[i] \in Nat
        /\ fact[i].ended # Never /\ fact[i].reviewed # Never => f[i] <= g[i]
    BY ONLY <2>2, <2>3, <2>4
  <2> QED BY ONLY <2>4, <2>5, <2>6
<1>4. C = {i \in S : issue[i].status = "closed"}
  <2>1. \A i \in S : fact[i].ended # Never => g[i] >= 0
    <3> TAKE i \in S
    <3>1. fact[i].ended # Never => g[i] \in Nat
      BY <1>3
    <3> HIDE DEF g
    <3> QED BY ONLY <3>1
  <2> QED BY <1>3, <2>1
<1>5. CycleTime(s).n = Count(S, "closed")
  BY <1>1, <1>4 DEF Count
<1> HIDE DEF f, g
<1>6. R \in SUBSET C
  BY <1>3
<1>7. IsFiniteSet(C)
  <2>1. C \in SUBSET S
    OBVIOUS
  <2> QED BY <1>2, <2>1, FS_Subset
<1>8. (\A i \in C : g[i] \in Nat) /\ \A i \in R : f[i] \in Nat /\ f[i] <= g[i]
  BY <1>3
<1> HIDE DEF C, R
<1>9. Cardinality(R) <= Cardinality(C)
  BY <1>6, <1>7, FS_Subset
<1>10. SumOver(f, R) <= SumOver(g, C)
  BY <1>6, <1>7, <1>8, SumGrows
<1> QED BY <1>1, <1>5, <1>9, <1>10

\* Over more members the top is no lower.
LEMMA TopGrows ==
    ASSUME NEW T, IsFiniteSet(T), NEW R \in SUBSET T, NEW f, \A x \in T : f[x] \in Nat
    PROVE  Top(f, R) <= Top(f, T)
<1>1. IsFiniteSet(R) /\ \A x \in R : f[x] \in Nat
  BY FS_Subset
<1>2. /\ Top(f, T) \in Nat /\ \A x \in T : f[x] <= Top(f, T)
  BY TopIs
<1>3. R # {} => \E x \in R : Top(f, R) = f[x]
  BY <1>1, TopIs
<1>4. R = {} => Top(f, R) = 0
  BY DEF Top
<1> QED BY <1>2, <1>3, <1>4

LEMMA QueueAgrees ==
    ASSUME Reported, NEW s
    PROVE  QueueAge(s) <= SqlQueueAge(s)
<1> DEFINE age == [i \in Issues |-> Age(i)]
           R == {i \in InProject(s) : StoreReady(i)}
           T == {i \in InProject(s) : SqlReady(i)}
<1>1. InProject(s) \in SUBSET AllIssues /\ IsFiniteSet(InProject(s))
  BY MineAre
<1>2. R \in SUBSET T /\ T \in SUBSET InProject(s)
  BY DEF StoreReady, SqlReady
<1>3. IsFiniteSet(T)
  BY <1>1, <1>2, FS_Subset
<1>4. \A i \in T : age[i] \in Nat
  <2> TAKE i \in T
  <2>1. i \in AllIssues
    BY <1>1, <1>2
  <2>2. fact[i] \in Fact /\ now \in Nat /\ i \in Issues
    BY <2>1, ReportedFacts
  <2>3. fact[i].born \in Int
    BY <2>2, FactTimes
  <2> QED BY <2>2, <2>3 DEF Age, Greater
<1>5. QueueAge(s) = Top(age, R) /\ SqlQueueAge(s) = Top(age, T)
  BY DEF QueueAge, SqlQueueAge
<1> HIDE DEF age, R, T
<1> QED BY <1>2, <1>3, <1>4, <1>5, TopGrows

\* Who is claimed is not ready, and nobody is claimed twice.
LEMMA ClaimsAgree ==
    ASSUME Reported, NEW s
    PROVE  ActiveClaims(s)["agent"] + ActiveClaims(s)["human"]
             + Totals(projects, AllIssues, Window).ready <= Cardinality(AllIssues)
<1> DEFINE A == {i \in InProject(s) : Held(i, now) /\ issue[i].kind = "agent"}
           H == {i \in InProject(s) : Held(i, now) /\ issue[i].kind = "human"}
           R == ReadyOf(AllIssues)
<1>1. ActiveClaims(s)["agent"] = Cardinality(A) /\ ActiveClaims(s)["human"] = Cardinality(H)
  BY DEF ActiveClaims, Kinds
<1>2. Totals(projects, AllIssues, Window).ready = Cardinality(R)
  BY ReadyAgrees
<1>3. A \in SUBSET AllIssues /\ H \in SUBSET AllIssues /\ R \in SUBSET AllIssues
  BY MineAre DEF ReadyOf
<1>4. A \cap H = {} /\ (A \cup H) \cap R = {}
  BY DEF ReadyOf, ReportReady
<1> HIDE DEF A, H, R
<1>5. IsFiniteSet(A) /\ IsFiniteSet(H) /\ IsFiniteSet(R) /\ IsFiniteSet(AllIssues)
  BY <1>3, FS_Subset DEF Reported
<1>6. IsFiniteSet(A \cup H) /\ Cardinality(A \cup H) = Cardinality(A) + Cardinality(H)
  BY <1>4, <1>5, CardUnion
<1>7. Cardinality((A \cup H) \cup R) = Cardinality(A \cup H) + Cardinality(R)
  BY <1>4, <1>5, <1>6, CardUnion
<1>8. (A \cup H) \cup R \in SUBSET AllIssues
  BY <1>3
<1>9. Cardinality((A \cup H) \cup R) <= Cardinality(AllIssues)
  BY <1>5, <1>8, FS_Subset
<1> QED BY <1>1, <1>2, <1>6, <1>7, <1>9

\* No claim took longer than there has been time.
LEMMA LatencyBounded ==
    ASSUME Reported, NEW s
    PROVE  ClaimLatency(s).sum <= now * ClaimLatency(s).n
<1> DEFINE f == [i \in Issues |-> fact[i].claimed - fact[i].born]
           C == {i \in InProject(s) : fact[i].claimed # Never /\ f[i] >= 0}
<1>1. ClaimLatency(s).n = Cardinality(C) /\ ClaimLatency(s).sum = SumOver(f, C)
  BY DEF ClaimLatency, Summary
<1>2. InProject(s) \in SUBSET AllIssues /\ IsFiniteSet(InProject(s)) /\ now \in Nat
  BY MineAre, ReportedFacts
<1>3. \A i \in C : f[i] \in Nat /\ f[i] <= now
  <2> TAKE i \in C
  <2>1. i \in AllIssues /\ f[i] >= 0
    BY <1>2
  <2>2. InOrder(fact[i], issue[i].status, now) /\ fact[i] \in Fact /\ i \in Issues
    BY <2>1, ReportedFacts
  <2>3. /\ fact[i].claimed \in Int /\ fact[i].born \in Int /\ fact[i].claimed <= now
        /\ fact[i].born >= 0 /\ f[i] = fact[i].claimed - fact[i].born
    BY <1>2, <2>2, FactTimes DEF InOrder
  <2> HIDE DEF f
  <2> QED BY ONLY <1>2, <2>1, <2>3
<1>4. IsFiniteSet(C)
  <2>1. C \in SUBSET InProject(s)
    OBVIOUS
  <2> QED BY <1>2, <2>1, FS_Subset
<1> HIDE DEF f, C
<1>5. SumOver(f, C) = Cardinality(Copies(f, C))
  BY <1>3, <1>4, SumCopies
<1>6. Copies(f, C) \in SUBSET (C \X (1 .. now))
  <2> SUFFICES ASSUME NEW i \in C PROVE {i} \X (1 .. f[i]) \subseteq C \X (1 .. now)
    BY DEF Copies
  <2>1. f[i] \in Nat /\ f[i] <= now /\ now \in Nat
    BY <1>2, <1>3
  <2>2. 1 .. f[i] \subseteq 1 .. now
    BY ONLY <2>1
  <2> QED BY ONLY <2>2, i \in C
<1>7. IsFiniteSet(1 .. now) /\ Cardinality(1 .. now) = now
  <2>1. 1 \in Int /\ now \in Int
    BY <1>2
  <2>2. IsFiniteSet(1 .. now) /\ Cardinality(1 .. now) = IF 1 > now THEN 0 ELSE now - 1 + 1
    BY <2>1, FS_Interval
  <2> QED BY <1>2, <2>2
<1>8. IsFiniteSet(C \X (1 .. now)) /\ Cardinality(C \X (1 .. now)) = Cardinality(C) * now
  BY <1>4, <1>7, FS_Product
<1>9. Cardinality(Copies(f, C)) <= Cardinality(C) * now
  BY <1>6, <1>8, FS_Subset
<1>10. Cardinality(C) \in Nat
  BY <1>4, FS_CardinalityType
<1>11. Cardinality(C) * now = now * Cardinality(C)
  BY ONLY <1>2, <1>10
<1> QED BY <1>1, <1>5, <1>9, <1>11

----------------------------------------------------------------------------
(* Goals, and ReportsAgree *)

\* The walk from a goal stays in the issues there are.
LEMMA DescendantsIn ==
    ASSUME Reported, NEW r
    PROVE  r \in Descendants(r) /\ Descendants(r) \subseteq AllIssues \cup {r}
<1> DEFINE n == Cardinality(AllIssues)
           V == {T \in SUBSET (AllIssues \cup {r}) : r \in T}
           On(x) == x \cup {i \in AllIssues : fact[i].parent \in x}
           Builds(w) == w = [k \in 0 .. n |-> IF k = 0 THEN {r} ELSE On(w[k - 1])]
           step == [k \in 1 .. n |-> [x \in V |-> On(x)]]
<1>1. n \in Nat
  BY FS_CardinalityType DEF Reported
<1>2. Descendants(r) = (CHOOSE w : Builds(w))[n]
  BY DEF Descendants
<1>3. {r} \in V /\ \A x \in V : On(x) \in V
  OBVIOUS
<1> HIDE DEF V, On, n
<1>4. Maps(step, n, V)
  BY <1>3 DEF Maps
<1>5. PICK w : Follows(w, n, V, {r}, step)
  <2> HIDE DEF step
  <2> QED BY <1>1, <1>3, <1>4, Recurs
<1>6. Builds(w)
  <2>1. w \in [0 .. n -> V] /\ w[0] = {r} /\ \A k \in 1 .. n : w[k] = step[k][w[k - 1]]
    BY <1>5 DEF Follows
  <2>2. \A k \in 1 .. n : w[k] = On(w[k - 1])
    <3> TAKE k \in 1 .. n
    <3>1. k - 1 \in 0 .. n
      BY <1>1
    <3>2. w[k - 1] \in V
      BY <2>1, <3>1
    <3> QED BY <2>1, <3>2
  <2>3. \A k \in 0 .. n : w[k] = IF k = 0 THEN {r} ELSE On(w[k - 1])
    BY <1>1, <2>1, <2>2
  <2> QED BY <2>1, <2>3
<1> DEFINE u == CHOOSE x : Builds(x)
<1>7. Builds(u)
  <2> HIDE DEF Builds
  <2> QED BY <1>6
<1> HIDE DEF u
<1>8. Unrolls(u, n, V, {r}, step)
  <2>1. u = [k \in 0 .. n |-> u[k]]
    BY <1>7
  <2>2. u[0] = {r} /\ \A k \in 1 .. n : u[k] = On(u[k - 1])
    <3>1. \A k \in 0 .. n : u[k] = IF k = 0 THEN {r} ELSE On(u[k - 1])
      BY <1>7
    <3>2. 0 \in 0 .. n /\ \A k \in 1 .. n : k \in 0 .. n /\ k # 0
      BY <1>1
    <3> QED BY ONLY <3>1, <3>2
  <2>3. ASSUME NEW k \in 1 .. n, u[k - 1] \in V PROVE u[k] = step[k][u[k - 1]]
    BY <2>2, <2>3
  <2> HIDE DEF step
  <2> QED BY <2>1, <2>2, <2>3 DEF Unrolls
<1>9. Follows(u, n, V, {r}, step)
  <2> HIDE DEF step
  <2> QED BY <1>1, <1>3, <1>4, <1>8, UnrollsFollows
<1>10. u \in [0 .. n -> V] /\ n \in 0 .. n
  BY <1>1, <1>9 DEF Follows
<1>11. u[n] \in V
  BY <1>10
<1>12. Descendants(r) = u[n]
  BY <1>2 DEF u
<1> QED BY <1>11, <1>12 DEF V

LEMMA GoalsAgree ==
    ASSUME Reported, NEW g \in AllIssues
    PROVE  GoalProgress(g).total = Cardinality({i \in AllIssues : g \in Descendants(g) /\ i # g
                                                                   /\ i \in Descendants(g)})
<1>1. g \in Descendants(g) /\ Descendants(g) \subseteq AllIssues \cup {g}
  BY DescendantsIn
<1>2. Descendants(g) \ {g} = {i \in AllIssues : g \in Descendants(g) /\ i # g /\ i \in Descendants(g)}
  BY <1>1
<1> QED BY <1>2 DEF GoalProgress, Progress

LEMMA ReportsAre == Reported => ReportsAgree
<1> SUFFICES ASSUME Reported PROVE ReportsAgree
  OBVIOUS
<1> DEFINE S      == AllIssues
           totals == Totals(projects, S, Window)
           roll   == [f \in Folders |-> FolderRollup(f, projects, S, Window)]
           loose  == [s \in Unfiled(projects) |-> Rollup(s, S, Window)]
           burn   == Burndown(Work(S), Window)
<1>1. totals.progress =
        Plus(SumUp([f \in Folders |-> roll[f].progress], {f \in Folders : IsFolder(f)}),
             SumUp([s \in DOMAIN loose |-> loose[s].progress], DOMAIN loose))
  BY ProgressAgrees
<1>2. totals.ready = Cardinality({i \in Work(S) : StoreReady(i)})
  BY ReadyAgrees
<1>3. ASSUME NEW f \in Folders, IsFolder(f)
      PROVE  LET d == Dashboard([kind |-> "folder", slug |-> f], Window, DefaultEstimate)
             IN  /\ d.progress = roll[f].progress /\ d.ready = roll[f].ready
                 /\ d.burndown.burned = roll[f].burned
                 /\ d.totals.progress = d.progress
  <2>1. roll[f] = FolderRollup(f, projects, S, Window)
    OBVIOUS
  <2> HIDE DEF roll
  <2> QED BY <2>1, DashboardAgrees
<1>4. \A i \in S : ReportReady(i) => BlockedBy(i) = 0
  BY NoBlockers
<1>5. /\ burn.done = Count(Work(S), "closed")
      /\ burn.points[Window].remaining = burn.remaining
      /\ \A d \in 1 .. Window : burn.points[d - 1].scope <= burn.points[d].scope
  BY BurndownEnds
<1>6. ASSUME NEW s \in Projects
      PROVE  /\ CycleTime(s).n = Count(InProject(s), "closed")
             /\ ReviewTime(s).n <= CycleTime(s).n /\ ReviewTime(s).sum <= CycleTime(s).sum
             /\ Stats(s).total = Progress(InProject(s)).total
             /\ QueueAge(s) <= SqlQueueAge(s)
             /\ ActiveClaims(s)["agent"] + ActiveClaims(s)["human"] + totals.ready
                    <= Cardinality(S)
             /\ ClaimLatency(s).sum <= now * ClaimLatency(s).n
  <2>1. Stats(s).total = Progress(InProject(s)).total
    BY DEF Stats, Progress
  <2> QED BY <2>1, TimesAgree, QueueAgrees, ClaimsAgree, LatencyBounded
<1>7. \A g \in S : fact[g].type = "goal" =>
         GoalProgress(g).total = Cardinality({i \in S : g \in Descendants(g) /\ i # g
                                                     /\ i \in Descendants(g)})
  BY GoalsAgree
<1> HIDE DEF S, totals, roll, loose, burn
<1> QED BY <1>1, <1>2, <1>3, <1>4, <1>5, <1>6, <1>7 DEF ReportsAgree, S, totals, roll, loose, burn

\* Only finitely many folders are made.
FoldersFinite == IsFiniteSet({f \in Folders : IsFolder(f)})

LEMMA FoldersStep == TypeOK /\ FoldersFinite /\ [Next]_vars => FoldersFinite'
<1> SUFFICES ASSUME TypeOK, FoldersFinite, [Next]_vars PROVE FoldersFinite'
  OBVIOUS
<1> DEFINE T == {f \in Folders : IsFolder(f)}
<1>0. IsFiniteSet(T) /\ T' = {f \in Folders : IsFolder(f)'}
  BY DEF FoldersFinite
<1>1. CASE UNCHANGED folder
  <2>1. T' = T
    BY <1>1 DEF IsFolder
  <2> HIDE DEF T
  <2>2. IsFiniteSet(T')
    BY <1>0, <2>1
  <2> QED BY <2>2 DEF FoldersFinite, T
<1>2. ASSUME NEW f \in Folders, NEW p, folder' = [folder EXCEPT ![f] = p] PROVE FoldersFinite'
  <2>1. \A g \in Folders \ {f} : folder'[g] = folder[g]
    BY <1>2 DEF TypeOK
  <2>2. T' \in SUBSET (T \cup {f})
    BY <1>0, <2>1 DEF IsFolder
  <2> HIDE DEF T
  <2>3. IsFiniteSet(T')
    BY <1>0, <2>2, FS_AddElement, FS_Subset
  <2> QED BY <2>3 DEF FoldersFinite, T
<1> QED BY <1>1, <1>2, FolderWriters DEF EnsureFolder, DropProject, MoveProject

\* The reports tell one story (ReportsAgree, report.rs:407), in every reachable state, for any
\* issues, projects, folders and window: as long as no import settles a row that somebody else
\* has made under the same id since it began (ImportsOwn), for a close it records is dated
\* before such a row was made.
THEOREM Reports == Spec /\ []ImportsOwn => []ReportsAgree
<1> DEFINE Inv == ChartableOK /\ DatesOK /\ FoldersFinite
<1>1. Init => Inv
  <2> SUFFICES ASSUME Init PROVE FoldersFinite
    BY ChartableInit, DatesInit
  <2>1. {f \in Folders : IsFolder(f)} = {}
    BY DEF Init, IsFolder
  <2> QED BY <2>1, FS_EmptySet DEF FoldersFinite
<1>2. Inv /\ ImportsOwn /\ [Next]_vars => Inv'
  BY ChartableStep, DatesStep, FoldersStep DEF ChartableOK, PlanningOK
<1>3. Inv /\ FolderForest => ReportsAgree
  <2> SUFFICES ASSUME Inv, FolderForest PROVE Reported
    BY ReportsAre
  <2> QED BY DEF ChartableOK, PlanningOK, DatesOK, FoldersFinite, Reported, AllIssues
<1> HIDE DEF Inv
<1> QED BY <1>1, <1>2, <1>3, Forest, PTL DEF Spec
==============================================================================

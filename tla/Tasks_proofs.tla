---------------------------- MODULE Tasks_proofs ----------------------------
(* Lemmas on task lists: they are finite, made of tasks, and have a first. *)
EXTENDS Tasks, TLAPS, FiniteSetTheorems

(* Every non-empty set of natural numbers has a least element. *)
LEMMA LeastNat ==
  ASSUME NEW S \in SUBSET Nat, S # {}
  PROVE  \E n \in S : \A m \in S : n <= m
PROOF
<1>1. PICK n \in S : \A m \in S : ~(<<m, n>> \in OpToRel(<, Nat))
  BY NatLessThanWellFounded, WFMin
<1>2. \A m \in S : ~(m < n)
  BY <1>1 DEF OpToRel
<1> QED BY <1>2

(* A non-empty list has a first task. *)
LEMMA FirstInList ==
  ASSUME NEW ts \in SUBSET Task, ts # {}
  PROVE  First(ts) \in ts
PROOF
<1> DEFINE ps == {t.pos : t \in ts}
<1>1. ps \in SUBSET Nat /\ ps # {}
  BY DEF Task
<1>2. PICK n \in ps : \A m \in ps : n <= m
  BY <1>1, LeastNat
<1>3. PICK t \in ts : t.pos = n
  OBVIOUS
<1>4. \A u \in ts : ~(u.pos < n)
  BY <1>1, <1>2 DEF Task
<1>5. Before(t, ts) = {}
  BY <1>3, <1>4 DEF Before
<1> QED BY <1>5 DEF First

(* There are finitely many routing targets. *)
LEMMA TargetFinite == IsFiniteSet(Target)
PROOF
<1> DEFINE P == Nodes \X (Args \cup {NoArg})
           f == [p \in P |-> [node |-> p[1], arg |-> p[2]]]
<1>1. IsFiniteSet(Args \cup {NoArg})
  BY FS_AddElement, TasksAssumption
<1>2. IsFiniteSet(P)
  BY <1>1, FS_Product, TasksAssumption
<1>3. f \in Surjection(P, Target)
  <2>1. f \in [P -> Target]
    BY DEF Target
  <2>2. \A t \in Target : \E p \in P : f[p] = t
    <3> TAKE t \in Target
    <3>1. <<t.node, t.arg>> \in P /\ f[<<t.node, t.arg>>] = t
      BY DEF Target
    <3> QED BY <3>1
  <2> QED BY <2>1, <2>2 DEF Surjection
<1> QED BY <1>2, <1>3, FS_Surjection

(* What a write routes to is a set of targets. *)
LEMMA RouteChoicesType ==
  ASSUME NEW w \in Write
  PROVE  RouteChoices(w) \in SUBSET SUBSET Target
PROOF
<1>1. w.task.node \in Nodes /\ w.cmd \in Command
  BY DEF Write, Task
<1>2. Routes[w.task.node] \in SUBSET SUBSET Target
  BY <1>1, TasksAssumption
<1>3. CASE w.cmd = NoCommand
  BY <1>2, <1>3 DEF RouteChoices
<1>4. CASE w.cmd = ToParent
  BY <1>4 DEF RouteChoices, NoCommand, ToParent
<1>5. CASE w.cmd # NoCommand /\ w.cmd # ToParent
  <2>1. PICK ts \in SUBSET Target : w.cmd = Goto(ts)
    BY <1>1, <1>5 DEF Command
  <2>2. w.cmd.goto = ts
    BY <2>1 DEF Goto
  <2> QED BY <1>5, <2>2 DEF RouteChoices
<1> QED BY <1>3, <1>4, <1>5

(* The targets of a routing, each with the write that sends it. *)
LEMMA RoutedType ==
  ASSUME NEW ws \in SUBSET Write, IsFiniteSet(ws), NEW goto \in Routings(ws)
  PROVE  /\ IsFiniteSet(Routed(goto))
         /\ \A x \in Routed(goto) : x[3] \in Target
PROOF
<1>1. DOMAIN goto = ws /\ \A w \in ws : goto[w] \in SUBSET Target
  BY RouteChoicesType DEF Routings
<1> DEFINE inner(w) == {<<w.task.order, w.task.pos, t>> : t \in goto[w]}
           outer == {inner(w) : w \in ws}
           g == [w \in ws |-> inner(w)]
<1>2. \A w \in ws : IsFiniteSet(inner(w))
  <2> TAKE w \in ws
  <2> DEFINE f == [t \in goto[w] |-> <<w.task.order, w.task.pos, t>>]
  <2>1. IsFiniteSet(goto[w])
    BY <1>1, TargetFinite, FS_Subset
  <2>2. f \in Surjection(goto[w], inner(w))
    BY DEF Surjection
  <2> QED BY <2>1, <2>2, FS_Surjection
<1>3. IsFiniteSet(outer)
  <2>1. g \in Surjection(ws, outer)
    BY DEF Surjection
  <2> QED BY <2>1, FS_Surjection
<1>4. IsFiniteSet(UNION outer)
  <2>1. \A T \in outer : IsFiniteSet(T)
    BY <1>2
  <2> HIDE DEF outer
  <2> QED BY <1>3, <2>1, FS_UNION
<1>5. Routed(goto) \in SUBSET UNION outer
  BY <1>1 DEF Routed
<1>6. \A w \in ws : \A x \in inner(w) : x[3] \in Target
  BY <1>1
<1>7. \A x \in UNION outer : x[3] \in Target
  BY <1>6
<1> HIDE DEF outer
<1> QED BY <1>4, <1>5, <1>7, FS_Subset

(* SetToSeq numbers the elements of a finite set. *)
LEMMA SetToSeqType ==
  ASSUME NEW S, IsFiniteSet(S)
  PROVE  /\ Cardinality(S) \in Nat
         /\ SetToSeq(S) \in [1..Cardinality(S) -> S]
PROOF
<1>1. Cardinality(S) \in Nat /\ ExistsBijection(1..Cardinality(S), S)
  BY FS_CardinalityType
<1>2. \E f \in [1..Cardinality(S) -> S] : IsInjective(f)
  BY <1>1 DEF ExistsBijection, Bijection, Injection
<1> QED BY <1>1, <1>2 DEF SetToSeq

(* A listing is a finite set of tasks. *)
LEMMA ListingType ==
  ASSUME NEW kept \in SUBSET Task, IsFiniteSet(kept),
         NEW routed, IsFiniteSet(routed), \A x \in routed : x[3] \in Target
  PROVE  Listing(kept, routed) \in SUBSET Task /\ IsFiniteSet(Listing(kept, routed))
PROOF
<1> DEFINE s == SetToSeq(routed)
           n == Cardinality(kept)
           D == 1..Cardinality(routed)
           ahead(k) == {j \in D : Earlier(s[j], s[k]) \/ (~Earlier(s[k], s[j]) /\ j < k)}
           index(k) == n + Cardinality(ahead(k))
           put(t) == [t EXCEPT !.pos = Cardinality(Before(t, kept)) + 1]
           new(k) == [pos |-> index(k) + 1, order |-> index(k), node |-> s[k][3].node, arg |-> s[k][3].arg]
           K == {put(t) : t \in kept}
           R == {new(k) : k \in D}
<1>1. n \in Nat /\ \A t \in kept : Cardinality(Before(t, kept)) \in Nat
  <2>1. \A t \in kept : Before(t, kept) \in SUBSET kept
    BY DEF Before
  <2>2. \A t \in kept : IsFiniteSet(Before(t, kept))
    BY <2>1, FS_Subset
  <2> QED BY <2>2, FS_CardinalityType
<1>2. Cardinality(routed) \in Nat /\ s \in [D -> routed]
  BY SetToSeqType
<1>3. Listing(kept, routed) = K \cup R
  BY <1>2 DEF Listing
<1>4. K \in SUBSET Task
  BY <1>1 DEF Task
<1>5. R \in SUBSET Task
  <2> SUFFICES ASSUME NEW k \in D PROVE new(k) \in Task
    OBVIOUS
  <2>1. s[k][3] \in Target
    BY <1>2
  <2>2. IsFiniteSet(D) /\ ahead(k) \in SUBSET D
    BY <1>2, FS_Interval
  <2>3. Cardinality(ahead(k)) \in Nat
    BY <2>2, FS_Subset, FS_CardinalityType
  <2>4. index(k) \in Nat /\ index(k) + 1 \in Nat
    BY <1>1, <2>3
  <2> HIDE DEF index
  <2> QED BY <2>1, <2>4 DEF Task, Target
<1>6. IsFiniteSet(K)
  <2> DEFINE f == [t \in kept |-> put(t)]
  <2>1. f \in Surjection(kept, K)
    BY DEF Surjection
  <2> QED BY <2>1, FS_Surjection
<1>7. IsFiniteSet(R)
  <2> DEFINE f == [k \in D |-> new(k)]
  <2>1. IsFiniteSet(D)
    BY <1>2, FS_Interval
  <2>2. f \in Surjection(D, R)
    BY DEF Surjection
  <2> QED BY <2>1, <2>2, FS_Surjection
<1> HIDE DEF K, R
<1>8. IsFiniteSet(K \cup R)
  BY <1>6, <1>7, FS_Union
<1> QED BY <1>3, <1>4, <1>5, <1>8

(* What START routes to is a finite list of tasks. *)
LEMMA StartListsType ==
  ASSUME NEW nx \in StartLists
  PROVE  nx \in SUBSET Task /\ IsFiniteSet(nx)
PROOF
<1>1. PICK r \in StartRoutes : nx = Listing({}, {<<0, 0, t>> : t \in r})
  BY DEF StartLists
<1> DEFINE routed == {<<0, 0, t>> : t \in r}
           f == [t \in r |-> <<0, 0, t>>]
<1>2. r \in SUBSET Target /\ IsFiniteSet(r)
  BY TasksAssumption, TargetFinite, FS_Subset
<1>3. f \in Surjection(r, routed)
  BY DEF Surjection
<1>4. IsFiniteSet(routed)
  BY <1>2, <1>3, FS_Surjection
<1>5. \A x \in routed : x[3] \in Target
  BY <1>2
<1> QED BY <1>1, <1>4, <1>5, ListingType, FS_EmptySet
=============================================================================

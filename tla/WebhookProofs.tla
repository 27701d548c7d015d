--------------------------- MODULE WebhookProofs ---------------------------
(***************************************************************************)
(* What the validating webhook lets in can be deployed and stays           *)
(* admissible, for every set of node types, every range of worker counts   *)
(* and every width of a uint, in whatever order the loop walks its map.    *)
(***************************************************************************)
EXTENDS Webhook, FiniteSetTheorems, WellFoundedInduction, TLAPS

-----------------------------------------------------------------------------
(* Sums over the node types of an object.                                  *)

\* A nonempty collection of sets of node types has a smallest member.
LEMMA SmallestMember ==
    ASSUME NEW T, IsFiniteSet(T), NEW C \in SUBSET SUBSET T, C # {}
    PROVE  \E U \in C : \A u \in U : U \ {u} \notin C
  <1> DEFINE N == {Cardinality(U) : U \in C}
  <1>1. \A U \in SUBSET T : IsFiniteSet(U) /\ Cardinality(U) \in Nat
    BY FS_Subset, FS_CardinalityType
  <1>2. N \subseteq Nat /\ N # {}
    BY <1>1
  <1>3. PICK n \in N : \A k \in N : ~(<<k, n>> \in OpToRel(<, Nat))
    <2> HIDE DEF N
    <2>1. N \in SUBSET Nat /\ N # {}
      BY <1>2
    <2> QED
      BY <2>1, NatLessThanWellFounded, WFMin, Zenon
  <1>4. PICK U \in C : Cardinality(U) = n
    OBVIOUS
  <1>5. ASSUME NEW u \in U, U \ {u} \in C
        PROVE  FALSE
    <2>1. Cardinality(U \ {u}) = Cardinality(U) - 1
      BY <1>1, FS_RemoveElement
    <2>2. Cardinality(U \ {u}) \in N /\ Cardinality(U) \in Nat /\ Cardinality(U \ {u}) \in Nat
      BY <1>1, <1>5
    <2>3. <<Cardinality(U \ {u}), n>> \in OpToRel(<, Nat)
      BY <1>4, <2>1, <2>2 DEF OpToRel
    <2> QED
      BY <1>3, <2>2, <2>3
  <1> QED
    BY <1>5

\* g adds up the numbers of workers asked for, over every set of node types.
AddsUp(g, types, T) ==
    /\ g \in [SUBSET T -> Nat]
    /\ g[{}] = 0
    /\ \A S \in SUBSET T : \A t \in T \ S : g[S \cup {t}] = g[S] + types[t].min

\* There is such a function, and so the sum does not depend on an order.
LEMMA SumExists ==
    ASSUME NEW T, IsFiniteSet(T), NEW types \in [T -> NodeType]
    PROVE  \E g : AddsUp(g, types, T)
  <1> DEFINE C == {U \in SUBSET T : ~ \E g : AddsUp(g, types, U)}
  <1>0. \A t \in T : types[t].min \in Nat
    BY WebhookAssumption DEF NodeType, Counts
  <1>1. SUFFICES ASSUME C # {}
                 PROVE  FALSE
    OBVIOUS
  <1>2. PICK U \in C : \A u \in U : U \ {u} \notin C
    BY <1>1, SmallestMember
  <1>3. U \in SUBSET T /\ ~ \E g : AddsUp(g, types, U)
    OBVIOUS
  <1>4. CASE U = {}
    <2>1. AddsUp([S \in SUBSET {} |-> 0], types, {})
      BY DEF AddsUp
    <2> QED
      BY <1>3, <1>4, <2>1
  <1>5. CASE U # {}
    <2>1. PICK u \in U : TRUE
      BY <1>5
    <2>2. PICK g : AddsUp(g, types, U \ {u})
      BY <1>2, <2>1
    <2> DEFINE h == [S \in SUBSET U |-> IF u \in S THEN g[S \ {u}] + types[u].min ELSE g[S]]
    <2>3. g \in [SUBSET (U \ {u}) -> Nat] /\ g[{}] = 0
      BY <2>2 DEF AddsUp
    <2>4. h \in [SUBSET U -> Nat] /\ h[{}] = 0
      <3>1. ASSUME NEW S \in SUBSET U
            PROVE  (IF u \in S THEN g[S \ {u}] + types[u].min ELSE g[S]) \in Nat
        <4>1. S \ {u} \in SUBSET (U \ {u}) /\ (u \notin S => S \in SUBSET (U \ {u}))
          OBVIOUS
        <4> QED
          BY <1>0, <1>3, <2>3, <4>1
      <3> QED
        BY <2>3, <3>1
    <2>5. ASSUME NEW S \in SUBSET U, NEW t \in U \ S
          PROVE  h[S \cup {t}] = h[S] + types[t].min
      <3>0. S \cup {t} \in SUBSET U
        OBVIOUS
      <3>1. CASE t = u
        <4>1. (S \cup {u}) \ {u} = S /\ u \notin S
          BY <3>1
        <4> QED
          BY <3>0, <3>1, <4>1
      <3>2. CASE t # u /\ u \in S
        <4> DEFINE R == S \ {u}
        <4>1. (S \cup {t}) \ {u} = R \cup {t} /\ R \in SUBSET (U \ {u}) /\ t \in (U \ {u}) \ R
          BY <3>2
        <4>2. g[R \cup {t}] = g[R] + types[t].min
          BY <2>2, <4>1 DEF AddsUp
        <4>3. g[R] \in Nat /\ types[t].min \in Nat /\ types[u].min \in Nat
          BY <1>0, <1>3, <2>3, <4>1
        <4>4. h[S \cup {t}] = g[R \cup {t}] + types[u].min /\ h[S] = g[R] + types[u].min
          BY <3>0, <3>2, <4>1
        <4> HIDE DEF R, h
        <4> QED
          BY <4>2, <4>3, <4>4
      <3>3. CASE t # u /\ u \notin S
        <4>1. S \in SUBSET (U \ {u}) /\ t \in (U \ {u}) \ S /\ u \notin S \cup {t}
          BY <3>3
        <4>2. g[S \cup {t}] = g[S] + types[t].min
          BY <2>2, <4>1 DEF AddsUp
        <4> QED
          BY <3>0, <4>1, <4>2
      <3> QED
        BY <3>1, <3>2, <3>3
    <2>6. AddsUp(h, types, U)
      <3> HIDE DEF h
      <3> QED
        BY <2>4, <2>5 DEF AddsUp
    <2> QED
      BY <1>3, <2>6
  <1> QED
    BY <1>4, <1>5

\* The fold over the node types is that sum.
LEMMA FoldAddsUp ==
    ASSUME NEW T, IsFiniteSet(T), NEW types \in [T -> NodeType], NEW g, AddsUp(g, types, T)
    PROVE  MapThenSumSet(LAMBDA t : types[t].min, T) = g[T]
  <1> DEFINE Pick(s) == CHOOSE x \in s : TRUE
             Turn(h) == [s \in SUBSET T |->
                            IF s = {} THEN 0 ELSE types[Pick(s)].min + h[s \ {Pick(s)}]]
             fold == CHOOSE h : h = Turn(h)
  <1>1. MapThenSumSet(LAMBDA t : types[t].min, T) = fold[T]
    BY DEF MapThenSumSet, MapThenFoldSet
  <1>2. \A s \in SUBSET T : s # {} => Pick(s) \in s
    OBVIOUS
  <1> HIDE DEF Pick
  <1>3. \A t \in T : types[t].min \in Nat
    BY WebhookAssumption DEF NodeType, Counts
  <1>4. ASSUME NEW s \in SUBSET T, NEW t \in s
        PROVE  g[s] = types[t].min + g[s \ {t}]
    <2>1. s \ {t} \in SUBSET T /\ t \in T \ (s \ {t}) /\ (s \ {t}) \cup {t} = s
      OBVIOUS
    <2>2. g[(s \ {t}) \cup {t}] = g[s \ {t}] + types[t].min
      BY <2>1 DEF AddsUp
    <2>3. g[s \ {t}] \in Nat /\ types[t].min \in Nat
      BY <1>3, <2>1 DEF AddsUp
    <2>4. g[s] = g[s \ {t}] + types[t].min
      BY <2>1, <2>2
    <2> QED
      BY <2>3, <2>4
  <1>5. g = Turn(g)
    <2>1. g \in [SUBSET T -> Nat] /\ g[{}] = 0
      BY DEF AddsUp
    <2>2. ASSUME NEW s \in SUBSET T
          PROVE  g[s] = IF s = {} THEN 0 ELSE types[Pick(s)].min + g[s \ {Pick(s)}]
      BY <1>2, <1>4, <2>1
    <2> QED
      BY <2>1, <2>2
  <1>6. fold = Turn(fold)
    <2> HIDE DEF Turn
    <2> QED
      BY <1>5
  <1> HIDE DEF fold
  <1> DEFINE C == {s \in SUBSET T : fold[s] # g[s]}
  <1>7. C = {}
    <2> SUFFICES ASSUME C # {}
                 PROVE  FALSE
      OBVIOUS
    <2>1. PICK U \in C : \A u \in U : U \ {u} \notin C
      BY SmallestMember
    <2>2. fold[U] = IF U = {} THEN 0 ELSE types[Pick(U)].min + fold[U \ {Pick(U)}]
      BY <1>6
    <2>3. CASE U = {}
      BY <2>1, <2>2, <2>3 DEF AddsUp
    <2>4. CASE U # {}
      <3>1. Pick(U) \in U /\ U \ {Pick(U)} \in SUBSET T
        BY <1>2, <2>4
      <3>2. fold[U \ {Pick(U)}] = g[U \ {Pick(U)}]
        BY <2>1, <3>1
      <3>3. g[U] = types[Pick(U)].min + g[U \ {Pick(U)}]
        BY <1>4, <3>1
      <3> QED
        BY <2>1, <2>2, <2>4, <3>2, <3>3
    <2> QED
      BY <2>3, <2>4
  <1> QED
    BY <1>1, <1>7

-----------------------------------------------------------------------------
(* Sums of uints.                                                          *)

\* Quotient and remainder.
LEMMA DivMod ==
    ASSUME NEW m \in Nat \ {0}, NEW a \in Nat
    PROVE  a = m * (a \div m) + (a % m) /\ a \div m \in Nat /\ a % m \in 0..(m - 1)
  OBVIOUS

\* They are determined by their sum.
LEMMA ModUnique ==
    ASSUME NEW m \in Nat \ {0}, NEW q \in Nat, NEW r \in 0..(m - 1)
    PROVE  (m * q + r) % m = r
  OBVIOUS

\* It does not matter when a remainder is taken.
LEMMA ModAdd ==
    ASSUME NEW m \in Nat \ {0}, NEW a \in Nat, NEW b \in Nat
    PROVE  ((a % m) + b) % m = (a + b) % m
  <1>1. PICK q \in Nat, r \in 0..(m - 1) : a = m * q + r /\ r = a % m
    BY DivMod
  <1>2. PICK p \in Nat, s \in 0..(m - 1) : r + b = m * p + s
    <2>1. r + b \in Nat
      BY <1>1
    <2> QED
      BY <2>1, DivMod
  <1>3. a + b = m * (q + p) + s
    <2>1. m * (q + p) = m * q + m * p
      BY SMT
    <2>2. m * q \in Nat /\ m * p \in Nat
      BY SMT
    <2> QED
      BY <1>1, <1>2, <2>1, <2>2
  <1>4. (r + b) % m = s
    BY <1>2, ModUnique
  <1>5. (a + b) % m = s
    <2>1. q + p \in Nat
      OBVIOUS
    <2>2. (m * (q + p) + s) % m = s
      BY <2>1, ModUnique
    <2> QED
      BY <1>3, <2>2
  <1> QED
    BY <1>1, <1>4, <1>5

\* A sum that wraps around in between ends where the whole sum does, and one
\* that fits does not change.
LEMMA WrapFacts ==
    /\ \A a, b \in Nat : Wrap(Wrap(a) + b) = Wrap(a + b)
    /\ \A a \in Nat : a < 2^Width => Wrap(a) = a
    /\ Wrap(0) = 0
  <1> DEFINE m == 2^Width
  <1>1. m \in Nat \ {0}
    BY WebhookAssumption
  <1> HIDE DEF m
  <1>2. \A a, b \in Nat : ((a % m) + b) % m = (a + b) % m
    BY <1>1, ModAdd
  <1>3. \A a \in Nat : a < m => a % m = a
    BY <1>1
  <1>4. 0 % m = 0
    BY <1>1
  <1> QED
    BY <1>2, <1>3, <1>4 DEF Wrap, m

-----------------------------------------------------------------------------
(* The inductive invariant.                                                *)

Objects == UNION {VMRayClusterSpec(T) : T \in SUBSET Types}

InOrder(spec, t) ==
    spec.types[t].min <= spec.types[t].max /\ spec.types[t].max <= spec.max

Deployable(spec) ==
    /\ spec.head \in DOMAIN spec.types
    /\ \A t \in DOMAIN spec.types : InOrder(spec, t)

\* The sums of the numbers of workers that sets of node types ask for.
SumOf(spec) == CHOOSE g : AddsUp(g, spec.types, DOMAIN spec.types)

\* What validateNodeTypes is to find out, whatever order it looks in.
Fits(spec) == Deployable(spec) /\ Wrap(SumOf(spec)[DOMAIN spec.types]) <= spec.max

\* Requests and stored objects are specs with the fields the webhook reads.
ObjectsTyped ==
    /\ pc \in {"idle", "types", "decide"}
    /\ pc # "idle" => req \in Objects
    /\ stored # NoObject => stored \in Objects

\* What the loop of validateNodeTypes has found out so far.
LoopProgress ==
    pc = "types" =>
        LET done == DOMAIN req.types \ todo
        IN  /\ todo \subseteq DOMAIN req.types
            /\ \A t \in done : InOrder(req, t)
            /\ headSeen <=> req.head \in done
            /\ total = Wrap(SumOf(req)[done])

\* What validateNodeTypes returns depends on the object alone.
Verdict == pc = "decide" => (typesOk <=> Fits(req))

\* What was let in would be let in again.
StoredFits ==
    stored # NoObject => Fits(stored) /\ DOMAIN stored.types # {} /\ stored.flaws = {}

WebhookInv == ObjectsTyped /\ LoopProgress /\ Verdict /\ StoredFits

\* The counts of an object are natural numbers.
LEMMA ObjectCounts ==
    ASSUME NEW spec \in Objects, NEW t \in DOMAIN spec.types
    PROVE  spec.types[t].min \in Nat /\ spec.types[t].max \in Nat /\ spec.max \in Nat
  BY WebhookAssumption DEF Objects, VMRayClusterSpec, NodeType, Counts

\* Changing the desired workers of an object gives an object.
LEMMA FlawsObject ==
    ASSUME NEW spec \in Objects, NEW f \in SUBSET Flaws
    PROVE  [spec EXCEPT !.flaws = f] \in Objects
  BY DEF Objects, VMRayClusterSpec

\* An object has finitely many node types.
LEMMA ObjectTypes ==
    ASSUME NEW spec \in Objects
    PROVE  IsFiniteSet(DOMAIN spec.types) /\ spec.types \in [DOMAIN spec.types -> NodeType]
  <1>1. PICK T \in SUBSET Types : spec \in VMRayClusterSpec(T)
    BY DEF Objects
  <1>2. DOMAIN spec.types = T /\ spec.types \in [T -> NodeType]
    BY <1>1 DEF VMRayClusterSpec
  <1>3. IsFiniteSet(T)
    BY WebhookAssumption, FS_Subset
  <1> QED
    BY <1>2, <1>3

\* SumOf adds up what the node types of an object ask for.
LEMMA SumOfAddsUp ==
    ASSUME NEW spec \in Objects
    PROVE  AddsUp(SumOf(spec), spec.types, DOMAIN spec.types)
  <1>1. \E g : AddsUp(g, spec.types, DOMAIN spec.types)
    BY ObjectTypes, SumExists
  <1> QED
    BY <1>1 DEF SumOf

\* The marker for no object is none.
LEMMA NoObjectIsNone == NoObject \notin Objects
  <1>1. ASSUME NEW spec \in Objects
        PROVE  spec.head \in Types
    BY DEF Objects, VMRayClusterSpec
  <1>2. NoObject.head \notin Types
    BY WebhookAssumption DEF NoObject
  <1> QED
    BY <1>1, <1>2

\* ValidateCreate and ValidateUpdate start the loop on an object.
LEMMA ValidateStep ==
    ASSUME WebhookInv, NEW spec \in Objects, Validate(spec)
    PROVE  WebhookInv'
  <1>1. ObjectsTyped' /\ Verdict'
    BY DEF WebhookInv, ObjectsTyped, Validate, Verdict
  <1>2. LoopProgress'
    <2>1. Wrap(SumOf(spec)[{}]) = 0
      BY SumOfAddsUp, WrapFacts DEF AddsUp
    <2>2. req' = spec /\ todo' = DOMAIN spec.types /\ total' = 0 /\ headSeen' = FALSE
      BY DEF Validate
    <2>3. DOMAIN spec.types \ DOMAIN spec.types = {}
      OBVIOUS
    <2> QED
      BY <2>1, <2>2, <2>3 DEF LoopProgress
  <1>3. StoredFits'
    <2>1. stored' = stored
      BY DEF Validate
    <2> QED
      BY <2>1 DEF WebhookInv, StoredFits
  <1> QED
    BY <1>1, <1>2, <1>3 DEF WebhookInv

\* A turn of the loop in validateNodeTypes.
LEMMA CheckNodeTypeStep ==
    ASSUME WebhookInv, ValidateNodeTypes, NEW t \in todo, CheckNodeType(t)
    PROVE  LoopProgress' /\ Verdict'
  <1> DEFINE done == DOMAIN req.types \ todo
  <1>1. /\ pc = "types" /\ req' = req /\ req \in Objects
        /\ todo \subseteq DOMAIN req.types /\ t \in DOMAIN req.types
        /\ \A u \in done : InOrder(req, u)
        /\ headSeen <=> req.head \in done
        /\ total = Wrap(SumOf(req)[done])
    BY DEF WebhookInv, ObjectsTyped, LoopProgress, ValidateNodeTypes
  <1>2. CASE req.types[t].min > req.types[t].max \/ req.types[t].max > req.max
    <2>1. ~InOrder(req, t)
      BY <1>1, <1>2, ObjectCounts DEF InOrder
    <2>2. ~Fits(req)
      BY <1>1, <2>1 DEF Fits, Deployable
    <2>3. typesOk' = FALSE /\ pc' = "decide"
      BY <1>2 DEF CheckNodeType
    <2> QED
      BY <1>1, <2>2, <2>3 DEF LoopProgress, Verdict
  <1>3. CASE ~(req.types[t].min > req.types[t].max \/ req.types[t].max > req.max)
    <2>1. InOrder(req, t)
      BY <1>1, <1>3, ObjectCounts DEF InOrder
    <2>2. /\ todo' = todo \ {t} /\ pc' = "types"
          /\ headSeen' = (headSeen \/ req.head = t)
          /\ total' = Wrap(total + req.types[t].min)
      BY <1>1, <1>3 DEF CheckNodeType
    <2>3. DOMAIN req.types \ todo' = done \cup {t} /\ done \in SUBSET DOMAIN req.types
          /\ t \in DOMAIN req.types \ done
      BY <1>1, <2>2
    <2>4. total' = Wrap(SumOf(req)[done \cup {t}])
      <3>1. AddsUp(SumOf(req), req.types, DOMAIN req.types)
        BY <1>1, SumOfAddsUp
      <3>2. /\ SumOf(req)[done \cup {t}] = SumOf(req)[done] + req.types[t].min
            /\ SumOf(req)[done] \in Nat
        BY <2>3, <3>1 DEF AddsUp
      <3>3. req.types[t].min \in Nat
        BY <1>1, ObjectCounts
      <3> QED
        BY <1>1, <2>2, <3>2, <3>3, WrapFacts
    <2>5. LoopProgress'
      <3> HIDE DEF done
      <3>1. /\ todo' \subseteq DOMAIN req'.types
            /\ headSeen' <=> req'.head \in done \cup {t}
            /\ \A u \in done \cup {t} : InOrder(req', u)
            /\ total' = Wrap(SumOf(req')[done \cup {t}])
            /\ DOMAIN req'.types \ todo' = done \cup {t}
        BY <1>1, <2>1, <2>2, <2>3, <2>4
      <3> QED
        BY <3>1 DEF LoopProgress, InOrder, SumOf
    <2>6. Verdict'
      BY <2>2 DEF Verdict
    <2> QED
      BY <2>5, <2>6
  <1> QED
    BY <1>2, <1>3

\* A turn of the loop, or its end.
LEMMA NodeTypesStep ==
    ASSUME WebhookInv, ValidateNodeTypes
    PROVE  WebhookInv'
  <1>1. ObjectsTyped' /\ StoredFits'
    <2>1. stored' = stored /\ req' = req /\ pc = "types" /\ pc' \in {"types", "decide"}
      BY DEF ValidateNodeTypes, CheckNodeType
    <2> QED
      BY <2>1 DEF WebhookInv, ObjectsTyped, StoredFits
  <1>2. ASSUME NEW t \in todo, CheckNodeType(t)
        PROVE  LoopProgress' /\ Verdict'
    BY <1>2, CheckNodeTypeStep
  <1>3. ASSUME todo = {}, typesOk' = CheckTotals, pc' = "decide"
        PROVE  LoopProgress' /\ Verdict'
    <2>1. /\ pc = "types" /\ req' = req
          /\ \A t \in DOMAIN req.types : InOrder(req, t)
          /\ headSeen <=> req.head \in DOMAIN req.types
          /\ total = Wrap(SumOf(req)[DOMAIN req.types])
      <3>1. DOMAIN req.types \ todo = DOMAIN req.types
        BY <1>3
      <3> QED
        BY <3>1 DEF WebhookInv, LoopProgress, ValidateNodeTypes
    <2>2. CheckTotals <=> Fits(req)
      BY <2>1 DEF CheckTotals, Fits, Deployable
    <2> QED
      BY <1>3, <2>1, <2>2 DEF LoopProgress, Verdict
  <1> QED
    BY <1>1, <1>2, <1>3 DEF ValidateNodeTypes, WebhookInv

\* The end of validateVMRayCluster.
LEMMA DecideStep ==
    ASSUME WebhookInv, ValidateVMRayCluster
    PROVE  WebhookInv'
  <1>1. ObjectsTyped'
    BY DEF WebhookInv, ObjectsTyped, ValidateVMRayCluster
  <1>2. LoopProgress' /\ Verdict'
    BY DEF LoopProgress, Verdict, ValidateVMRayCluster
  <1>3. ASSUME Admitted
        PROVE  Fits(req) /\ DOMAIN req.types # {} /\ req.flaws = {}
    <2>1. Fits(req) /\ DOMAIN req.types # {}
      BY <1>3 DEF WebhookInv, Verdict, Admitted, ValidateVMRayCluster, ValidateMinNodeTypes
    <2>2. req.flaws \subseteq {"name", "image", "workers"}
      <3>1. req \in Objects
        BY DEF WebhookInv, ObjectsTyped, ValidateVMRayCluster
      <3>2. req.flaws \subseteq Flaws
        BY <3>1 DEF Objects, VMRayClusterSpec
      <3> QED
        BY <3>2, WebhookAssumption
    <2>3. \A x \in {"name", "image", "workers"} : x \notin req.flaws
      BY <1>3 DEF Admitted, ValidateName, ValidateDockerImage, ValidateDesiredWorkers
    <2> QED
      BY <2>1, <2>2, <2>3
  <1>4. StoredFits'
    <2>1. stored' = IF Admitted THEN req ELSE stored
      BY DEF ValidateVMRayCluster
    <2> QED
      BY <1>3, <2>1 DEF WebhookInv, StoredFits
  <1> QED
    BY <1>1, <1>2, <1>4 DEF WebhookInv

\* WebhookInv is an invariant of the webhook: what its loop has found out, and
\* what it has let in, is as validateNodeTypes means it to be.
THEOREM WebhookInvariance == Spec => []WebhookInv
  <1>1. Init => WebhookInv
    BY DEF Init, WebhookInv, ObjectsTyped, LoopProgress, Verdict, StoredFits
  <1>2. WebhookInv /\ [Next]_vars => WebhookInv'
    <2> SUFFICES ASSUME WebhookInv, [Next]_vars PROVE WebhookInv'
      OBVIOUS
    <2>1. CASE Create
      <3>1. PICK spec \in Objects : Validate(spec)
        BY <2>1 DEF Create, Objects
      <3> QED
        BY <3>1, ValidateStep
    <2>2. CASE FinalizerUpdate
      BY <2>2, ValidateStep DEF FinalizerUpdate, WebhookInv, ObjectsTyped
    <2>3. CASE AutoscalerUpdate
      <3>1. PICK f \in SUBSET Flaws : Validate([stored EXCEPT !.flaws = f])
        BY <2>3 DEF AutoscalerUpdate
      <3>2. stored \in Objects
        BY <2>3 DEF AutoscalerUpdate, WebhookInv, ObjectsTyped
      <3> QED
        BY <3>1, <3>2, FlawsObject, ValidateStep
    <2>4. CASE ValidateNodeTypes
      BY <2>4, NodeTypesStep
    <2>5. CASE ValidateVMRayCluster
      BY <2>5, DecideStep
    <2>6. CASE UNCHANGED vars
      <3>1. /\ stored' = stored /\ req' = req /\ pc' = pc /\ todo' = todo /\ total' = total
            /\ headSeen' = headSeen /\ typesOk' = typesOk
        BY <2>6 DEF vars
      <3>2. ObjectsTyped' /\ Verdict' /\ StoredFits'
        BY <3>1 DEF WebhookInv, ObjectsTyped, Verdict, StoredFits
      <3>3. LoopProgress'
        BY <3>1 DEF WebhookInv, LoopProgress
      <3> QED
        BY <3>2, <3>3 DEF WebhookInv
    <2> QED
      BY <2>1, <2>2, <2>3, <2>4, <2>5, <2>6 DEF Next
  <1> QED
    BY <1>1, <1>2, PTL DEF Spec

\* validateNodeTypes lets an object in only when getVmClass can find the type
\* of its head and the counts of all its node types are in order, however the
\* loop walks its map and wherever the total wraps around.
THEOREM AdmittedCanBeDeployed == Spec => []AdmittedDeployable
  <1>1. WebhookInv => AdmittedDeployable
    BY DEF WebhookInv, StoredFits, Fits, Deployable, InOrder, AdmittedDeployable
  <1> QED
    BY <1>1, WebhookInvariance, PTL

\* The controller's update of an object that was let in is never refused: the
\* verdict on it is the same in every order in which the loop walks its map.
THEOREM FinalizerNeverRefused == Spec => []FinalizerUpdateAdmitted
  <1>1. WebhookInv => FinalizerUpdateAdmitted
    <2> SUFFICES ASSUME WebhookInv, pc = "decide", req = stored
                 PROVE  Admitted
      BY DEF FinalizerUpdateAdmitted
    <2>1. stored # NoObject
      BY NoObjectIsNone DEF WebhookInv, ObjectsTyped
    <2>2. Fits(req) /\ DOMAIN req.types # {} /\ req.flaws = {}
      BY <2>1 DEF WebhookInv, StoredFits
    <2>3. typesOk
      BY <2>2 DEF WebhookInv, Verdict
    <2> QED
      BY <2>2, <2>3 DEF Admitted, ValidateName, ValidateMinNodeTypes, ValidateDockerImage,
                        ValidateDesiredWorkers
  <1> QED
    BY <1>1, WebhookInvariance, PTL

\* Together, the node types of an object that was let in ask for no more workers
\* than the cluster may have, or for so many that their sum, as the loop of
\* validateNodeTypes forms it, has wrapped around.
THEOREM AdmittedTotal == Spec => []TotalWithinMax
  <1>1. WebhookInv => TotalWithinMax
    <2> SUFFICES ASSUME WebhookInv
                 PROVE  TotalWithinMax
      OBVIOUS
    <2>1. CASE stored = NoObject
      <3>1. TotalMinWorkers = 0
        <4> DEFINE none == stored.types
        <4>1. DOMAIN none = {} /\ none \in [{} -> NodeType]
          BY <2>1 DEF NoObject
        <4>2. IsFiniteSet({})
          BY FS_EmptySet
        <4> HIDE DEF none
        <4>3. PICK g : AddsUp(g, none, {})
          BY <4>1, <4>2, SumExists
        <4>4. MapThenSumSet(LAMBDA t : none[t].min, {}) = g[{}]
          BY <4>1, <4>2, <4>3, FoldAddsUp
        <4> QED
          BY <4>1, <4>3, <4>4 DEF TotalMinWorkers, none, AddsUp
      <3> QED
        BY <2>1, <3>1 DEF TotalWithinMax, NoObject
    <2>2. CASE stored # NoObject
      <3> DEFINE types == stored.types
                 T     == DOMAIN types
      <3>1. stored \in Objects /\ Fits(stored)
        BY <2>2 DEF WebhookInv, ObjectsTyped, StoredFits
      <3>2. AddsUp(SumOf(stored), types, T)
        BY <3>1, SumOfAddsUp
      <3>3. IsFiniteSet(T) /\ types \in [T -> NodeType]
        BY <3>1, ObjectTypes
      <3>4. TotalMinWorkers = SumOf(stored)[T]
        <4>1. TotalMinWorkers = MapThenSumSet(LAMBDA t : types[t].min, T)
          BY DEF TotalMinWorkers
        <4> HIDE DEF types, T
        <4> QED
          BY <3>2, <3>3, <4>1, FoldAddsUp
      <3>5. SumOf(stored)[T] \in Nat
        BY <3>2 DEF AddsUp
      <3>6. Wrap(SumOf(stored)[T]) <= stored.max
        BY <3>1 DEF Fits
      <3>7. SumOf(stored)[T] < 2^Width => Wrap(SumOf(stored)[T]) = SumOf(stored)[T]
        BY <3>5, WrapFacts
      <3>8. SumOf(stored)[T] < 2^Width \/ SumOf(stored)[T] >= 2^Width
        BY <3>5, WebhookAssumption
      <3> QED
        BY <3>4, <3>6, <3>7, <3>8 DEF TotalWithinMax
    <2> QED
      BY <2>1, <2>2
  <1> QED
    BY <1>1, WebhookInvariance, PTL
=============================================================================

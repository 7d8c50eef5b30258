--------------------------- MODULE StageModelProofs ---------------------------
(***************************************************************************)
(* Proofs about the window loop of the analytical model: for any queues,   *)
(* routes, files and number of windows.                                    *)
(***************************************************************************)
EXTENDS StageModel, FiniteSetTheorems, SequenceTheorems, TLAPS

-------------------------------------------------------------------------------
(* The inductive invariant.                                                *)

\* What SplitsAssumption says of the routes of a split.
IsRoute(route) ==
  /\ route \in [Stages -> Queues \cup {NoQueue}]
  /\ route[0] # NoQueue /\ route[5] # NoQueue
  /\ \A k \in Stages : route[k] # NoQueue => StageOf[route[k]] = k

Routed == \A s \in Id : IsRoute(splits[s].route)

Opened ==
  /\ Len(files) = IF phase = "load" THEN window - 1 ELSE window
  /\ phase # "load" => window <= Windows

\* A queue, a split, and the queue's stage on the split's route.
At(q, s) == \E i \in 1..Len(ids[q]) : ids[q][i] = s
On(q, s) == splits[s].route[StageOf[q]] = q
Due(q, s) ==
  On(q, s) /\ (StageOf[q] = 0 \/ Previous(splits[s].route, StageOf[q]) \in served)

Passing(q) == {s \in Id : On(q, s)}

\* No queue has a split twice.
Once == \A q \in Queues : \A i, j \in 1..Len(ids[q]) : ids[q][i] = ids[q][j] => i = j

\* While the file is read only the first queues have splits, and no results.
Reading ==
  phase = "read" =>
    /\ Once /\ served = {}
    /\ \A q \in Queues : \A s \in Id : At(q, s) <=> splits[s].route[0] = q
    /\ \A q \in Queues : args[q] = <<>> /\ rho[q] = <<>> /\ lat[q] = <<>> /\ corr[q] = <<>>

\* The arguments a queue's model is given.
Argument == [split : Id, share : Id, from : Queues \cup {NoQueue}]

Calculated == phase \in {"stages", "correct", "report"}

\* The arguments are in step with the ids and come from the queue before.
Arguments ==
  Calculated =>
    \A q \in Queues :
      /\ Len(args[q]) = Len(ids[q])
      /\ \A i \in 1..Len(ids[q]) :
           /\ args[q][i].split = ids[q][i] /\ args[q][i].share = ids[q][i]
           /\ args[q][i].from = Previous(splits[ids[q][i]].route, StageOf[q])

\* A split is where the calculation has brought it: at the queues of its route
\* up to this stage at least, and after them where it is due.
Places ==
  Calculated =>
    /\ Once
    /\ \A q \in Queues : \A s \in Id : At(q, s) <=> Due(q, s)
    /\ \A s \in Id : \A k \in 0..stage :
         splits[s].route[k] # NoQueue => At(splits[s].route[k], s)

ServedInOrder ==
  Calculated =>
    /\ \A q \in served : StageOf[q] <= stage
    /\ \A q \in Queues :
         /\ StageOf[q] < stage \/ phase # "stages"
         /\ ids[q] # <<>>
         => q \in served
    /\ phase # "stages" => stage = 5

\* The results of a queue are in step with its ids, and of the load of all
\* splits that pass it.
Results ==
  Calculated =>
    \A q \in Queues :
      /\ q \notin served => rho[q] = <<>> /\ lat[q] = <<>>
      /\ q \in served =>
           /\ Len(rho[q]) = Len(ids[q]) /\ Len(lat[q]) = Len(ids[q])
           /\ \A i \in 1..Len(ids[q]) :
                /\ lat[q][i].split = ids[q][i] /\ lat[q][i].rho = ids[q][i]
                /\ lat[q][i].load = Passing(q)

Corrections ==
  /\ phase \in {"stages", "correct"} => \A q \in Queues : corr[q] = <<>>
  /\ phase = "report" =>
       \A q \in Queues :
         /\ Len(corr[q]) = Len(ids[q])
         /\ \A i \in 1..Len(ids[q]) :
              /\ corr[q][i].flow = splits[ids[q][i]].flow
              /\ corr[q][i].features = {s \in SplitsOf(splits[ids[q][i]].flow) : On(q, s)}

IInv ==
  /\ TypeOK /\ Routed /\ Opened /\ Reading /\ Arguments /\ Places
  /\ ServedInOrder /\ Results /\ Corrections

-------------------------------------------------------------------------------
(* Positions, and what Push appends.                                       *)

LEMMA SequenceOf ==
  ASSUME NEW S, NEW n \in Nat, NEW e, e = [i \in 1..n |-> e[i]], \A i \in 1..n : e[i] \in S
  PROVE  e \in Seq(S) /\ Len(e) = n
PROOF
<1>1. e \in [1..n -> S]
  OBVIOUS
<1>2. e \in Seq(S)
  BY <1>1, IsASeq
<1>3. Len(e) \in Nat /\ DOMAIN e = 1..Len(e) /\ DOMAIN e = 1..n
  BY <1>1, <1>2, LenProperties
<1>q. QED BY <1>2, <1>3

LEMMA ElementsOf ==
  ASSUME NEW S, NEW e \in Seq(S)
  PROVE  Len(e) \in Nat /\ \A i \in 1..Len(e) : e[i] \in S
OBVIOUS

LEMMA WiderSequence ==
  ASSUME NEW S, NEW T, S \subseteq T, NEW e \in Seq(S)
  PROVE  e \in Seq(T)
PROOF
<1>1. PICK n \in Nat : n = Len(e) /\ e \in [1..n -> S]
  BY LenProperties
<1>2. e = [i \in 1..n |-> e[i]] /\ \A i \in 1..n : e[i] \in T
  BY <1>1
<1>q. QED BY <1>2, SequenceOf

LEMMA Joined ==
  ASSUME NEW S, NEW a \in Seq(S), NEW b \in Seq(S)
  PROVE  /\ a \o b \in Seq(S) /\ Len(a \o b) = Len(a) + Len(b)
         /\ \A i \in 1..Len(a) : (a \o b)[i] = a[i]
         /\ \A i \in 1..Len(b) : (a \o b)[Len(a) + i] = b[i]
OBVIOUS

LEMMA NthIsOneEach ==
  ASSUME NEW P \in SUBSET Nat, IsFiniteSet(P)
  PROVE  /\ Cardinality(P) \in Nat
         /\ \A n \in 1..Cardinality(P) : Nth(P, n) \in P
         /\ \A p \in P : \E n \in 1..Cardinality(P) : Nth(P, n) = p
         /\ \A m, n \in 1..Cardinality(P) : Nth(P, m) = Nth(P, n) => m = n
PROOF
<1> DEFINE Below(p) == {m \in P : m <= p}
           rank == [p \in P |-> Cardinality(Below(p))]
           T == 1..Cardinality(P)
<1>1. Cardinality(P) \in Nat
  BY FS_CardinalityType
<1>2. ASSUME NEW p \in P
      PROVE  IsFiniteSet(Below(p)) /\ Cardinality(Below(p)) \in T
  <2>1. Below(p) \in SUBSET P /\ p \in Below(p)
    OBVIOUS
  <2> HIDE DEF Below
  <2>2. IsFiniteSet(Below(p)) /\ Cardinality(Below(p)) <= Cardinality(P)
    BY <2>1, FS_Subset
  <2>3. Cardinality(Below(p)) \in Nat /\ Cardinality(Below(p)) # 0
    BY <2>1, <2>2, FS_CardinalityType, FS_EmptySet
  <2>q. QED BY <1>1, <2>2, <2>3
<1>3. ASSUME NEW p \in P, NEW r \in P, p < r
      PROVE  rank[p] # rank[r]
  <2>1. Below(p) \in SUBSET Below(r) /\ r \in Below(r) /\ r \notin Below(p)
    <3>1. p \in Nat /\ r \in Nat /\ \A m \in P : m \in Nat
      OBVIOUS
    <3>2. \A m \in P : m <= p => m <= r
      BY <1>3, <3>1
    <3>3. Below(p) \subseteq Below(r)
      BY <3>2
    <3>4. r \in Below(r)
      BY <3>1
    <3>5. r \notin Below(p)
      BY <1>3, <3>1
    <3>q. QED BY <3>3, <3>4, <3>5
  <2>2. rank[p] = Cardinality(Below(p)) /\ rank[r] = Cardinality(Below(r))
    OBVIOUS
  <2>3. IsFiniteSet(Below(r))
    BY <1>2
  <2> HIDE DEF Below, rank
  <2>4. Cardinality(Below(r)) = Cardinality(Below(p)) => Below(r) = Below(p)
    BY <2>1, <2>3, FS_Subset
  <2>q. QED BY <2>1, <2>2, <2>4
<1>4. rank \in Injection(P, T)
  <2>1. \A p \in P : rank[p] \in T
    BY <1>2
  <2>2. rank \in [P -> T]
    <3>1. rank = [p \in P |-> rank[p]]
      OBVIOUS
    <3> HIDE DEF rank, T
    <3>q. QED BY <2>1, <3>1
  <2>3. \A p, r \in P : rank[p] = rank[r] => p = r
    <3> HIDE DEF rank
    <3>q. QED BY <1>3
  <2>q. QED BY <2>2, <2>3 DEF Injection, IsInjective
<1>5. IsFiniteSet(T) /\ Cardinality(T) = Cardinality(P)
  BY <1>1, FS_Interval
<1>6. rank \in Surjection(P, T)
  <2> HIDE DEF rank, T
  <2>q. QED BY <1>4, <1>5, FS_Injection
<1>7. ASSUME NEW n \in T PROVE Nth(P, n) \in P /\ rank[Nth(P, n)] = n
  <2>1. \E p \in P : rank[p] = n
    BY <1>6 DEF Surjection
  <2>2. Nth(P, n) = CHOOSE p \in P : rank[p] = n
    BY DEF Nth
  <2> HIDE DEF rank
  <2>q. QED BY <2>1, <2>2
<1>8. ASSUME NEW p \in P PROVE rank[p] \in T /\ Nth(P, rank[p]) = p
  <2>1. rank[p] \in T
    BY <1>2
  <2>2. Nth(P, rank[p]) \in P /\ rank[Nth(P, rank[p])] = rank[p]
    BY <1>7, <2>1
  <2> HIDE DEF rank, T
  <2>q. QED BY <1>4, <2>1, <2>2 DEF Injection, IsInjective
<1> HIDE DEF rank
<1>q. QED BY <1>1, <1>7, <1>8

Slots(target, q) == {i \in 1..Len(target) : target[i] = q}

LEMMA SlotsFinite ==
  ASSUME NEW target, Len(target) \in Nat, NEW q
  PROVE  Slots(target, q) \in SUBSET Nat /\ IsFiniteSet(Slots(target, q))
PROOF
<1>1. IsFiniteSet(1..Len(target))
  BY FS_Interval
<1>2. Slots(target, q) \in SUBSET (1..Len(target))
  BY DEF Slots
<1>3. IsFiniteSet(Slots(target, q))
  BY <1>1, <1>2, FS_Subset
<1>q. QED BY <1>2, <1>3

\* The n-th element that Push appends for a queue is that of its n-th slot.
LEMMA PushAppends ==
  ASSUME NEW V, NEW vector \in [Queues -> Seq(V)], NEW target, Len(target) \in Nat,
         NEW value, \A i \in 1..Len(target) : value[i] \in V
  PROVE  /\ Push(vector, target, value) \in [Queues -> Seq(V)]
         /\ \A q \in Queues :
              /\ Cardinality(Slots(target, q)) \in Nat
              /\ Len(Push(vector, target, value)[q]) = Len(vector[q]) + Cardinality(Slots(target, q))
              /\ \A i \in 1..Len(vector[q]) : Push(vector, target, value)[q][i] = vector[q][i]
              /\ \A n \in 1..Cardinality(Slots(target, q)) :
                   Push(vector, target, value)[q][Len(vector[q]) + n] = value[Nth(Slots(target, q), n)]
PROOF
<1>1. ASSUME NEW q \in Queues
      PROVE  /\ Cardinality(Slots(target, q)) \in Nat
             /\ \A n \in 1..Cardinality(Slots(target, q)) : Nth(Slots(target, q), n) \in 1..Len(target)
  <2>1. Slots(target, q) \subseteq 1..Len(target)
    BY DEF Slots
  <2>q. QED BY <2>1, SlotsFinite, NthIsOneEach
<1> DEFINE tail == [q \in Queues |->
                      [n \in 1..Cardinality(Slots(target, q)) |-> value[Nth(Slots(target, q), n)]]]
<1>2. ASSUME NEW q \in Queues
      PROVE  /\ tail[q] \in Seq(V) /\ Len(tail[q]) = Cardinality(Slots(target, q))
             /\ \A n \in 1..Cardinality(Slots(target, q)) :
                  tail[q][n] = value[Nth(Slots(target, q), n)]
  BY <1>1
<1>3. Push(vector, target, value) = [q \in Queues |-> vector[q] \o tail[q]]
  BY DEF Push, Slots
<1> HIDE DEF tail
<1>4. ASSUME NEW q \in Queues
      PROVE  /\ vector[q] \o tail[q] \in Seq(V)
             /\ Len(vector[q] \o tail[q]) = Len(vector[q]) + Cardinality(Slots(target, q))
             /\ \A i \in 1..Len(vector[q]) : (vector[q] \o tail[q])[i] = vector[q][i]
             /\ \A n \in 1..Cardinality(Slots(target, q)) :
                  (vector[q] \o tail[q])[Len(vector[q]) + n] = value[Nth(Slots(target, q), n)]
  <2>1. PICK a \in Seq(V), b \in Seq(V) : a = vector[q] /\ b = tail[q]
    BY <1>2
  <2>2. Len(b) = Cardinality(Slots(target, q))
    BY <1>2, <2>1
  <2>3. /\ a \o b \in Seq(V) /\ Len(a \o b) = Len(a) + Len(b)
        /\ \A i \in 1..Len(a) : (a \o b)[i] = a[i]
        /\ \A n \in 1..Len(b) : (a \o b)[Len(a) + n] = b[n]
    OBVIOUS
  <2>q. QED BY <1>2, <2>1, <2>2, <2>3
<1>q. QED BY <1>1, <1>3, <1>4

\* So what is in a queue's vector is what was, and the values that target it.
OneEach(vector) == \A i, j \in 1..Len(vector) : vector[i] = vector[j] => i = j

Extends(pushed, old, target, value, q) ==
  /\ \A i \in 1..Len(pushed) :
       \/ i \in 1..Len(old) /\ pushed[i] = old[i]
       \/ i > Len(old) /\ \E j \in Slots(target, q) : pushed[i] = value[j]
  /\ \A i \in 1..Len(old) : i \in 1..Len(pushed) /\ pushed[i] = old[i]
  /\ \A j \in Slots(target, q) : \E i \in 1..Len(pushed) : pushed[i] = value[j]

LEMMA PushContents ==
  ASSUME NEW V, NEW vector \in [Queues -> Seq(V)], NEW target, Len(target) \in Nat,
         NEW value, \A i \in 1..Len(target) : value[i] \in V, NEW q \in Queues,
         NEW pushed, pushed = Push(vector, target, value)[q]
  PROVE  /\ Extends(pushed, vector[q], target, value, q)
         /\ /\ OneEach(vector[q])
            /\ \A i, j \in Slots(target, q) : value[i] = value[j] => i = j
            /\ \A i \in 1..Len(vector[q]) : \A j \in Slots(target, q) : vector[q][i] # value[j]
            => OneEach(pushed)
PROOF
<1> DEFINE P == Slots(target, q)
<1>1. P \in SUBSET Nat /\ IsFiniteSet(P)
  BY SlotsFinite
<1>2. PICK c \in Nat : c = Cardinality(P)
  BY <1>1, NthIsOneEach
<1>3. PICK l \in Nat : l = Len(vector[q])
  OBVIOUS
<1>4. /\ Len(pushed) = l + c
      /\ \A i \in 1..l : pushed[i] = vector[q][i]
      /\ \A n \in 1..c : pushed[l + n] = value[Nth(P, n)]
  <2>1. PICK all : all = Push(vector, target, value)
    OBVIOUS
  <2>2. /\ Len(all[q]) = Len(vector[q]) + Cardinality(Slots(target, q))
        /\ \A i \in 1..Len(vector[q]) : all[q][i] = vector[q][i]
        /\ \A n \in 1..Cardinality(Slots(target, q)) :
             all[q][Len(vector[q]) + n] = value[Nth(Slots(target, q), n)]
    BY <2>1, PushAppends
  <2>q. QED BY <1>2, <1>3, <2>1, <2>2
<1> HIDE DEF P
<1>5. /\ \A n \in 1..c : Nth(P, n) \in P
      /\ \A p \in P : \E n \in 1..c : Nth(P, n) = p
      /\ \A m, n \in 1..c : Nth(P, m) = Nth(P, n) => m = n
  BY <1>1, <1>2, NthIsOneEach
<1>6. ASSUME NEW i \in 1..Len(pushed), i > l
      PROVE  \E n \in 1..c : i = l + n /\ pushed[i] = value[Nth(P, n)]
  <2>1. i - l \in 1..c /\ i = l + (i - l)
    BY <1>4, <1>6
  <2>q. QED BY <1>4, <2>1
<1>7. ASSUME NEW i \in 1..Len(pushed)
      PROVE  \/ i \in 1..l /\ pushed[i] = vector[q][i]
             \/ i > l /\ \E j \in P : pushed[i] = value[j]
  <2>1. CASE i > l
    BY <1>5, <1>6, <2>1
  <2>2. CASE ~(i > l)
    BY <1>4, <2>2
  <2>q. QED BY <2>1, <2>2
<1>8. ASSUME NEW j \in P PROVE \E i \in 1..Len(pushed) : pushed[i] = value[j]
  <2>1. PICK n \in 1..c : Nth(P, n) = j
    BY <1>5
  <2>2. l + n \in 1..Len(pushed) /\ pushed[l + n] = value[j]
    BY <1>4, <2>1
  <2>q. QED BY <2>2
<1>9. ASSUME \A i, j \in 1..l : vector[q][i] = vector[q][j] => i = j,
             \A i, j \in P : value[i] = value[j] => i = j,
             \A i \in 1..l : \A j \in P : vector[q][i] # value[j],
             NEW i \in 1..Len(pushed), NEW j \in 1..Len(pushed), pushed[i] = pushed[j]
      PROVE  i = j
  <2>1. CASE i \in 1..l /\ j \in 1..l
    BY <1>4, <1>9, <2>1
  <2>2. CASE i > l /\ j > l
    <3>1. PICK m \in 1..c : i = l + m /\ pushed[i] = value[Nth(P, m)]
      BY <1>6, <2>2
    <3>2. PICK n \in 1..c : j = l + n /\ pushed[j] = value[Nth(P, n)]
      BY <1>6, <2>2
    <3>3. Nth(P, m) = Nth(P, n)
      BY <1>5, <1>9, <3>1, <3>2
    <3>q. QED BY <1>5, <3>1, <3>2, <3>3
  <2>3. ASSUME NEW a \in 1..Len(pushed), NEW b \in 1..Len(pushed), a \in 1..l, b > l
        PROVE  pushed[a] # pushed[b]
    <3>1. pushed[a] = vector[q][a]
      BY <1>4, <2>3
    <3>2. PICK n \in P : pushed[b] = value[n]
      BY <1>7, <2>3
    <3>q. QED BY <1>9, <2>3, <3>1, <3>2
  <2>q. QED BY <1>9, <1>3, <2>1, <2>2, <2>3
<1>10. Extends(pushed, vector[q], target, value, q)
  BY <1>3, <1>4, <1>7, <1>8 DEF P, Extends
<1>q. QED BY <1>3, <1>9, <1>10 DEF P, OneEach

-------------------------------------------------------------------------------
(* The next and the previous queue of a route.                             *)

LEMMA NextOnRoute ==
  ASSUME NEW route, IsRoute(route), NEW k \in 0..4
  PROVE  \E j \in k + 1..5 : /\ NextQueue(route, k) = route[j] /\ route[j] # NoQueue
                             /\ \A i \in k + 1..j - 1 : route[i] = NoQueue
PROOF
<1> DEFINE First(n) ==
      \E j \in n + 1..5 : route[j] # NoQueue /\ \A i \in n + 1..j - 1 : route[i] = NoQueue
<1>1. First(4)
  <2>1. \A i \in 4 + 1..5 - 1 : FALSE
    OBVIOUS
  <2>q. QED BY <2>1 DEF IsRoute
<1>2. ASSUME NEW n \in 0..3, First(n + 1) PROVE First(n)
  <2>1. CASE route[n + 1] # NoQueue
    BY <2>1
  <2>2. CASE route[n + 1] = NoQueue
    <3>1. PICK j \in n + 1 + 1..5 :
            route[j] # NoQueue /\ \A i \in n + 1 + 1..j - 1 : route[i] = NoQueue
      BY <1>2
    <3>2. \A i \in n + 1..j - 1 : i = n + 1 \/ i \in n + 1 + 1..j - 1
      OBVIOUS
    <3>q. QED BY <2>2, <3>1, <3>2
  <2>q. QED BY <2>1, <2>2
<1> HIDE DEF First
<1>3. First(3)
  <2>1. 3 \in 0..3 /\ 3 + 1 = 4
    OBVIOUS
  <2>q. QED BY <1>1, <1>2, <2>1
<1>4. First(2)
  <2>1. 2 \in 0..3 /\ 2 + 1 = 3
    OBVIOUS
  <2>q. QED BY <1>2, <1>3, <2>1
<1>5. First(1)
  <2>1. 1 \in 0..3 /\ 1 + 1 = 2
    OBVIOUS
  <2>q. QED BY <1>2, <1>4, <2>1
<1>6. First(0)
  <2>1. 0 \in 0..3 /\ 0 + 1 = 1
    OBVIOUS
  <2>q. QED BY <1>2, <1>5, <2>1
<1>7. First(k)
  <2>1. k = 0 \/ k = 1 \/ k = 2 \/ k = 3 \/ k = 4
    OBVIOUS
  <2>q. QED BY <1>1, <1>3, <1>4, <1>5, <1>6, <2>1
<1>q. QED BY <1>7 DEF First, NextQueue

LEMMA PreviousIs ==
  ASSUME NEW route, NEW k \in Stages, NEW j \in 0..k - 1, route[j] # NoQueue,
         \A i \in j + 1..k - 1 : route[i] = NoQueue
  PROVE  Previous(route, k) = route[j]
PROOF
<1> DEFINE before == {i \in 0..k - 1 : route[i] # NoQueue}
<1>1. j \in before /\ before # {} /\ \A i \in before : i <= j /\ i \in Int
  BY DEF Stages
<1>2. Previous(route, k) = route[CHOOSE n \in before : \A i \in before : i <= n]
  BY <1>1 DEF Previous
<1> HIDE DEF before
<1>3. PICK m : m = CHOOSE n \in before : \A i \in before : i <= n
  OBVIOUS
<1>4. m \in before /\ \A i \in before : i <= m
  BY <1>1, <1>3
<1>5. m = j
  BY <1>1, <1>4
<1>q. QED BY <1>2, <1>3, <1>5

LEMMA PreviousOnRoute ==
  ASSUME NEW route, IsRoute(route), NEW k \in 1..5
  PROVE  \E j \in 0..k - 1 : /\ Previous(route, k) = route[j] /\ route[j] # NoQueue
                             /\ \A i \in j + 1..k - 1 : route[i] = NoQueue
PROOF
<1> DEFINE Last(n) ==
      \E j \in 0..n - 1 : route[j] # NoQueue /\ \A i \in j + 1..n - 1 : route[i] = NoQueue
<1>1. Last(1)
  <2>1. 0 \in 0..1 - 1 /\ \A i \in 0 + 1..1 - 1 : FALSE
    OBVIOUS
  <2>q. QED BY <2>1 DEF IsRoute
<1>2. ASSUME NEW n \in 1..4, Last(n) PROVE Last(n + 1)
  <2>1. CASE route[n] # NoQueue
    <3>1. n \in 0..n + 1 - 1 /\ \A i \in n + 1..n + 1 - 1 : FALSE
      OBVIOUS
    <3>q. QED BY <2>1, <3>1
  <2>2. CASE route[n] = NoQueue
    <3>1. PICK j \in 0..n - 1 : route[j] # NoQueue /\ \A i \in j + 1..n - 1 : route[i] = NoQueue
      BY <1>2
    <3>2. j \in 0..n + 1 - 1 /\ \A i \in j + 1..n + 1 - 1 : i = n \/ i \in j + 1..n - 1
      OBVIOUS
    <3>q. QED BY <2>2, <3>1, <3>2
  <2>q. QED BY <2>1, <2>2
<1> HIDE DEF Last
<1>3. Last(2)
  <2>1. 1 \in 1..4 /\ 1 + 1 = 2
    OBVIOUS
  <2>q. QED BY <1>1, <1>2, <2>1
<1>4. Last(3)
  <2>1. 2 \in 1..4 /\ 2 + 1 = 3
    OBVIOUS
  <2>q. QED BY <1>2, <1>3, <2>1
<1>5. Last(4)
  <2>1. 3 \in 1..4 /\ 3 + 1 = 4
    OBVIOUS
  <2>q. QED BY <1>2, <1>4, <2>1
<1>6. Last(5)
  <2>1. 4 \in 1..4 /\ 4 + 1 = 5
    OBVIOUS
  <2>q. QED BY <1>2, <1>5, <2>1
<1>7. Last(k)
  <2>1. k = 1 \/ k = 2 \/ k = 3 \/ k = 4 \/ k = 5
    OBVIOUS
  <2>q. QED BY <1>1, <1>3, <1>4, <1>5, <1>6, <2>1
<1>8. PICK j \in 0..k - 1 : route[j] # NoQueue /\ \A i \in j + 1..k - 1 : route[i] = NoQueue
  BY <1>7 DEF Last
<1>9. Previous(route, k) = route[j]
  BY <1>8, PreviousIs DEF Stages
<1>q. QED BY <1>8, <1>9

LEMMA NoneBefore ==
  ASSUME NEW route
  PROVE  Previous(route, 0) = NoQueue
PROOF
<1>1. {j \in 0..0 - 1 : route[j] # NoQueue} = {}
  OBVIOUS
<1>q. QED BY <1>1 DEF Previous

-------------------------------------------------------------------------------
(* The functions of the window loop, one lemma for each.                   *)

LEMMA InitIInv == Init => IInv
PROOF
<1> SUFFICES ASSUME Init PROVE IInv
  OBVIOUS
<1>1. TypeOK
  BY QueuesAssumption DEF Init, TypeOK, Empty, Stages, Id
<1>2. Routed /\ Opened
  BY DEF Init, Routed, Opened, Id
<1>3. Reading /\ Arguments /\ Places /\ ServedInOrder /\ Results /\ Corrections
  BY DEF Init, Reading, Arguments, Places, ServedInOrder, Results, Corrections, Calculated
<1>q. QED BY <1>1, <1>2, <1>3 DEF IInv

LEMMA OpenWindowIInv == ASSUME IInv, NEW file \in Files, OpenWindow(file) PROVE IInv'
PROOF
<1>1. /\ phase = "load" /\ window <= Windows /\ phase' = "read"
      /\ files' = Append(files, file) /\ line' = 1 /\ flows' = <<>> /\ splits' = <<>>
      /\ ids' = [q \in Queues |-> <<>>] /\ args' = ids' /\ rho' = ids' /\ lat' = ids'
      /\ corr' = ids' /\ served' = {}
      /\ UNCHANGED <<window, stage, rows>>
  BY DEF OpenWindow, ResetFlow, ClearQueue
<1>2. Id' = {} /\ \A q \in Queues : Len(ids'[q]) = 0
  BY <1>1 DEF Id
<1>3. TypeOK'
  BY <1>1 DEF IInv, TypeOK, Id
<1>4. (Routed /\ Opened)'
  BY <1>1, <1>2, QueuesAssumption DEF IInv, TypeOK, Routed, Opened
<1>5. Reading'
  BY <1>1, <1>2 DEF Reading, Once
<1>6. (Arguments /\ Places /\ ServedInOrder /\ Results /\ Corrections)'
  BY <1>1 DEF Arguments, Places, ServedInOrder, Results, Corrections, Calculated
<1>q. QED BY <1>3, <1>4, <1>5, <1>6 DEF IInv

LEMMA ReadLineIInv == ASSUME IInv, ReadLine PROVE IInv'
PROOF
<1> DEFINE read == files[window][line]
           paths == Splits[read.pair]
           n == Len(paths)
           target == [j \in 1..n |-> paths[j][0]]
           value == [j \in 1..n |-> Len(splits) + j]
<1>1. /\ phase = "read" /\ line <= Len(files[window]) /\ line' = line + 1
      /\ UNCHANGED <<window, phase, stage, served, files, args, rho, lat, corr, rows>>
  BY DEF ReadLine
<1>2. /\ line \in Nat \ {0} /\ line' \in Nat \ {0} /\ read \in Lines
  <2>1. files \in Seq(Files) /\ Len(files) = window /\ window \in 1..Windows + 1 /\ line \in Nat \ {0}
    BY <1>1 DEF IInv, TypeOK, Opened
  <2>2. files[window] \in Seq(Lines)
    BY <2>1, QueuesAssumption, FilesAssumption
  <2>3. read \in Lines
    BY <1>1, <2>1, <2>2
  <2>q. QED BY <1>1, <2>1, <2>3
<1>3. (Opened /\ Arguments /\ Places /\ ServedInOrder /\ Results /\ Corrections)'
  BY <1>1 DEF IInv, Opened, Arguments, Places, ServedInOrder, Results, Corrections, Calculated
<1>4. CASE read.pair \notin DOMAIN Splits
  <2>1. UNCHANGED <<flows, splits, ids>>
    BY <1>4 DEF ReadLine
  <2>2. TypeOK'
    BY <1>1, <1>2, <2>1 DEF IInv, TypeOK, Id
  <2>3. (Routed /\ Reading)'
    BY <1>1, <2>1 DEF IInv, Routed, Reading, Once, Id, At
  <2>q. QED BY <1>3, <2>2, <2>3 DEF IInv
<1>5. CASE read.pair \in DOMAIN Splits
  <2>1. /\ flows' = Append(flows, read)
        /\ splits' = splits \o [j \in 1..n |-> [flow |-> Len(flows) + 1, route |-> paths[j]]]
        /\ ids' = Push(ids, target, value)
    BY <1>5 DEF ReadLine
  <2>2. /\ n \in Nat /\ paths \in Seq([Stages -> Queues \cup {NoQueue}])
        /\ \A j \in 1..n : IsRoute(paths[j])
    <3>1. paths \in Seq([Stages -> Queues \cup {NoQueue}])
      BY <1>5, SplitsAssumption
    <3>2. n \in Nat /\ \A j \in 1..n : paths[j] \in [Stages -> Queues \cup {NoQueue}]
      BY <3>1
    <3>q. QED BY <1>5, <3>1, <3>2, SplitsAssumption DEF IsRoute
  <2>3. PICK l \in Nat, m \in Nat : l = Len(splits) /\ m = Len(flows)
    BY DEF IInv, TypeOK
  <2> HIDE DEF paths, n
  <2>4. /\ flows' \in Seq(Lines) /\ Len(flows') = m + 1
        /\ \A i \in 1..Len(flows') : flows'[i].pair \in DOMAIN Splits
    <3> HIDE DEF read
    <3>q. QED BY <1>2, <1>5, <2>1, <2>3 DEF IInv, TypeOK
  <2>5. /\ splits' \in Seq([flow : 1..Len(flows'), route : [Stages -> Queues \cup {NoQueue}]])
        /\ Len(splits') = l + n
        /\ \A i \in 1..l : splits'[i] = splits[i]
        /\ \A j \in 1..n : splits'[l + j].route = paths[j]
    <3> DEFINE R == [flow : 1..m + 1, route : [Stages -> Queues \cup {NoQueue}]]
               new == [j \in 1..n |-> [flow |-> m + 1, route |-> paths[j]]]
    <3>1. splits \in Seq(R)
      <4>1. splits \in Seq([flow : 1..m, route : [Stages -> Queues \cup {NoQueue}]])
        BY <2>3 DEF IInv, TypeOK
      <4>2. [flow : 1..m, route : [Stages -> Queues \cup {NoQueue}]] \subseteq R
        BY <2>3
      <4> HIDE DEF R
      <4>q. QED BY <4>1, <4>2, WiderSequence
    <3>2. new \in Seq(R) /\ Len(new) = n /\ \A j \in 1..n : new[j].route = paths[j]
      <4>1. \A j \in 1..n : new[j] = [flow |-> m + 1, route |-> paths[j]]
        OBVIOUS
      <4>2. m + 1 \in 1..m + 1
        BY <2>3
      <4>3. ASSUME NEW j \in 1..n PROVE new[j] \in R /\ new[j].route = paths[j]
        <5>1. paths[j] \in [Stages -> Queues \cup {NoQueue}]
          BY <2>2 DEF IsRoute
        <5>q. QED BY <4>1, <4>2, <5>1
      <4>4. new = [j \in 1..n |-> new[j]]
        OBVIOUS
      <4> HIDE DEF new, R
      <4>q. QED BY <2>2, <4>3, <4>4, SequenceOf
    <3>3. splits' = splits \o new
      BY <2>1, <2>3
    <3> HIDE DEF new, R
    <3>4. /\ splits' \in Seq(R) /\ Len(splits') = l + n
          /\ \A i \in 1..l : splits'[i] = splits[i]
          /\ \A j \in 1..n : splits'[l + j] = new[j]
      <4>1. PICK old \in Seq(R) : old = splits
        BY <3>1
      <4>2. Len(old) = l /\ splits' = old \o new
        BY <2>3, <3>3, <4>1
      <4>3. /\ old \o new \in Seq(R) /\ Len(old \o new) = l + n
            /\ \A i \in 1..l : (old \o new)[i] = old[i]
            /\ \A j \in 1..n : (old \o new)[l + j] = new[j]
        <5>1. PICK added \in Seq(R) : added = new
          BY <3>2
        <5>2. /\ old \o added \in Seq(R) /\ Len(old \o added) = Len(old) + Len(added)
              /\ \A i \in 1..Len(old) : (old \o added)[i] = old[i]
              /\ \A j \in 1..Len(added) : (old \o added)[Len(old) + j] = added[j]
          BY Joined
        <5>3. Len(old) = l /\ Len(added) = n
          BY <3>2, <4>2, <5>1
        <5>q. QED BY <5>1, <5>2, <5>3
      <4>q. QED BY <4>1, <4>2, <4>3
    <3>q. QED BY <2>4, <3>2, <3>4 DEF R
  <2>6. Routed'
    <3>1. ASSUME NEW s \in 1..l + n PROVE IsRoute(splits'[s].route)
      <4>1. CASE s \in 1..l
        BY <2>3, <2>5, <4>1 DEF IInv, Routed, Id
      <4>2. CASE s \notin 1..l
        <5>1. s - l \in 1..n /\ s = l + (s - l)
          BY <2>2, <4>2
        <5>q. QED BY <2>2, <2>5, <5>1
      <4>q. QED BY <4>1, <4>2
    <3>q. QED BY <2>5, <3>1 DEF Routed, Id
  <2>7. /\ Id' = 1..l + n /\ ids \in [Queues -> Seq(1..l + n)]
        /\ Len(target) = n /\ \A j \in 1..n : value[j] \in 1..l + n
    <3>1. Id' = 1..l + n
      BY <2>5 DEF Id
    <3>2. ids \in [Queues -> Seq(1..l)]
      BY <2>3 DEF IInv, TypeOK, Id
    <3>3. 1..l \subseteq 1..l + n
      BY <2>2, <2>3
    <3>4. ids \in [Queues -> Seq(1..l + n)]
      <4>1. \A q \in Queues : ids[q] \in Seq(1..l + n)
        BY <3>2, <3>3, WiderSequence
      <4>q. QED BY <3>2, <4>1
    <3>q. QED BY <2>2, <2>3, <3>1, <3>4
  <2>8. \A j \in 1..n : target[j] = paths[j][0] /\ value[j] = l + j
    BY <2>3
  <2> HIDE DEF target, value
  <2>9. ids' \in [Queues -> Seq(Id')]
    BY <2>1, <2>2, <2>7, PushAppends
  <2>10. TypeOK'
    BY <1>1, <1>2, <2>4, <2>5, <2>9 DEF IInv, TypeOK, Reading
  <2>11. ASSUME NEW q \in Queues
         PROVE  /\ \A i, j \in 1..Len(ids'[q]) : ids'[q][i] = ids'[q][j] => i = j
                /\ \A s \in Id' : At(q, s)' <=> splits'[s].route[0] = q
    <3>1. /\ \A i, j \in 1..Len(ids[q]) : ids[q][i] = ids[q][j] => i = j
          /\ \A s \in 1..l : At(q, s) <=> splits[s].route[0] = q
          /\ \A i \in 1..Len(ids[q]) : ids[q][i] \in 1..l
      <4>1. Id = 1..l
        BY <2>3 DEF Id
      <4>2. ids[q] \in Seq(1..l)
        BY <4>1 DEF IInv, TypeOK
      <4>q. QED BY <1>1, <4>1, <4>2 DEF IInv, Reading, Once
    <3>2. PICK pushed : pushed = ids'[q]
      OBVIOUS
    <3>3. \A j \in Slots(target, q) : j \in 1..n /\ paths[j][0] = q /\ value[j] = l + j
      BY <2>7, <2>8 DEF Slots
    <3>4. \A j \in 1..n : paths[j][0] = q => j \in Slots(target, q)
      BY <2>7, <2>8 DEF Slots
    <3>5. /\ Extends(pushed, ids[q], target, value, q)
          /\ /\ OneEach(ids[q])
             /\ \A i, j \in Slots(target, q) : value[i] = value[j] => i = j
             /\ \A i \in 1..Len(ids[q]) : \A j \in Slots(target, q) : ids[q][i] # value[j]
             => OneEach(pushed)
      <4>1. PICK V : V = 1..l + n
        OBVIOUS
      <4>2. PICK old : old = ids /\ old \in [Queues -> Seq(V)]
        BY <2>7, <4>1
      <4>3. pushed = Push(old, target, value)[q] /\ Len(target) \in Nat
            /\ \A i \in 1..Len(target) : value[i] \in V
        BY <2>1, <2>2, <2>7, <3>2, <4>1, <4>2
      <4>4. Extends(pushed, old[q], target, value, q)
        BY <4>2, <4>3, PushContents
      <4>5. /\ OneEach(old[q])
            /\ \A i, j \in Slots(target, q) : value[i] = value[j] => i = j
            /\ \A i \in 1..Len(old[q]) : \A j \in Slots(target, q) : old[q][i] # value[j]
            => OneEach(pushed)
        BY <4>2, <4>3, PushContents
      <4>q. QED BY <4>2, <4>4, <4>5
    <3>6. OneEach(pushed)
      <4>1. \A i, j \in Slots(target, q) : value[i] = value[j] => i = j
        BY <2>2, <2>3, <3>3
      <4>2. \A i \in 1..Len(ids[q]) : \A j \in Slots(target, q) : ids[q][i] # value[j]
        BY <2>2, <2>3, <3>1, <3>3
      <4>q. QED BY <3>1, <3>5, <4>1, <4>2 DEF OneEach
    <3>7. ASSUME NEW s \in 1..l + n
          PROVE  (\E i \in 1..Len(pushed) : pushed[i] = s) <=> splits'[s].route[0] = q
      <4>1. CASE s \in 1..l
        <5>1. \A j \in Slots(target, q) : value[j] # s
          BY <2>2, <2>3, <3>3, <4>1
        <5>2. (\E i \in 1..Len(pushed) : pushed[i] = s) <=> At(q, s)
          BY <3>5, <5>1 DEF At, Extends
        <5>q. QED BY <2>5, <3>1, <4>1, <5>2
      <4>2. CASE s \notin 1..l
        <5>1. PICK k \in 1..n : s = l + k
          <6>1. s - l \in 1..n /\ s = l + (s - l)
            BY <2>2, <4>2
          <6>q. QED BY <6>1
        <5>2. \A j \in Slots(target, q) : value[j] = s <=> j = k
          BY <2>2, <2>3, <3>3, <5>1
        <5>3. \A i \in 1..Len(ids[q]) : ids[q][i] # s
          BY <3>1, <4>2
        <5>4. ASSUME NEW i \in 1..Len(pushed), pushed[i] = s PROVE k \in Slots(target, q)
          <6>1. PICK j \in Slots(target, q) : pushed[i] = value[j]
            BY <3>5, <5>3, <5>4 DEF Extends
          <6>q. QED BY <3>3, <5>2, <5>4, <6>1
        <5>5. k \in Slots(target, q) => \E i \in 1..Len(pushed) : pushed[i] = s
          BY <3>5, <5>2 DEF Extends
        <5>q. QED BY <2>5, <3>3, <3>4, <5>1, <5>4, <5>5
      <4>q. QED BY <4>1, <4>2
    <3>q. QED BY <2>7, <3>2, <3>6, <3>7 DEF At, OneEach
  <2>12. Reading'
    BY <1>1, <2>11 DEF IInv, Reading, Once
  <2>q. QED BY <1>3, <2>6, <2>10, <2>12 DEF IInv
<1>q. QED BY <1>4, <1>5


LEMMA ArrivalsIInv == ASSUME IInv, Arrivals PROVE IInv'
PROOF
<1> DEFINE arrivals(q) == [i \in 1..Len(ids[q]) |->
             [split |-> ids[q][i], share |-> ids[q][i], from |-> NoQueue]]
<1>1. /\ phase = "read" /\ phase' = "stages" /\ stage' = 0
      /\ args' = [q \in Queues |-> IF StageOf[q] = 0 THEN args[q] \o arrivals(q) ELSE args[q]]
      /\ UNCHANGED <<window, served, files, line, flows, splits, ids, rho, lat, corr, rows>>
  BY DEF Arrivals
<1>a. /\ args' = [q \in Queues |-> args'[q]]
      /\ \A q \in Queues : StageOf[q] = 0 => args'[q] = args[q] \o arrivals(q)
      /\ \A q \in Queues : StageOf[q] # 0 => args'[q] = args[q]
  <2>1. args' = [q \in Queues |-> IF StageOf[q] = 0 THEN args[q] \o arrivals(q) ELSE args[q]]
    BY <1>1
  <2> HIDE DEF arrivals
  <2>q. QED BY <2>1, Zenon
<1>b. /\ phase = "read" /\ phase' = "stages" /\ stage' = 0
      /\ UNCHANGED <<window, served, files, line, flows, splits, ids, rho, lat, corr, rows>>
  BY <1>1
<1> HIDE DEF arrivals
<1>2. /\ Once /\ served = {}
      /\ \A q \in Queues : \A s \in Id : At(q, s) <=> splits[s].route[0] = q
      /\ \A q \in Queues : args[q] = <<>> /\ rho[q] = <<>> /\ lat[q] = <<>> /\ corr[q] = <<>>
  BY <1>b DEF IInv, Reading
<1>3. ids \in [Queues -> Seq(Id)] /\ StageOf \in [Queues -> Stages] /\ NoQueue \notin Queues
  BY QueuesAssumption DEF IInv, TypeOK
<1>4. \A s \in Id : /\ IsRoute(splits[s].route) /\ splits[s].route[0] \in Queues
                    /\ StageOf[splits[s].route[0]] = 0
  BY DEF IInv, Routed, IsRoute, Stages
<1>5. ASSUME NEW q \in Queues, StageOf[q] # 0 PROVE ids[q] = <<>>
  <2>1. SUFFICES ASSUME ids[q] # <<>> PROVE FALSE
    OBVIOUS
  <2>2. ids[q][1] \in Id /\ At(q, ids[q][1])
    BY <1>3, <2>1 DEF At
  <2>q. QED BY <1>2, <1>4, <1>5, <2>2
<1>6. ASSUME NEW q \in Queues
      PROVE  /\ args'[q] \in Seq(Argument)
             /\ Len(args'[q]) = Len(ids[q])
             /\ \A i \in 1..Len(ids[q]) :
                  /\ args'[q][i].split = ids[q][i] /\ args'[q][i].share = ids[q][i]
                  /\ args'[q][i].from = Previous(splits[ids[q][i]].route, StageOf[q])
  <2>1. PICK n \in Nat : n = Len(ids[q])
    BY <1>3
  <2>2. \A i \in 1..n : ids[q][i] \in Id
    BY <1>3, <2>1
  <2>3. CASE StageOf[q] = 0
    <3>1. arrivals(q) = [i \in 1..n |-> arrivals(q)[i]]
      BY <2>1 DEF arrivals
    <3>2. \A i \in 1..n :
            arrivals(q)[i] = [split |-> ids[q][i], share |-> ids[q][i], from |-> NoQueue]
      BY <2>1 DEF arrivals
    <3>3. PICK added : added = arrivals(q)
      OBVIOUS
    <3>4. /\ added \in Seq(Argument)
          /\ Len(added) = n
      <4>1. ASSUME NEW i \in 1..n PROVE added[i] \in Argument
        <5>1. ids[q][i] \in Id
          BY <2>2
        <5>2. added[i] = [split |-> ids[q][i], share |-> ids[q][i], from |-> NoQueue]
          BY <3>2, <3>3
        <5>q. QED BY <5>1, <5>2 DEF Argument
      <4>2. added = [i \in 1..n |-> added[i]]
        BY <3>1, <3>3
      <4>q. QED BY <4>1, <4>2, SequenceOf
    <3>5. args'[q] = added
      <4>1. args'[q] = args[q] \o added /\ args[q] = <<>>
        BY <1>a, <1>2, <2>3, <3>3
      <4>2. <<>> \o added = added
        BY <3>4
      <4>q. QED BY <4>1, <4>2
    <3>6. \A i \in 1..n : Previous(splits[ids[q][i]].route, StageOf[q]) = NoQueue
      BY <2>3, NoneBefore
    <3>7. ASSUME NEW i \in 1..n
          PROVE  /\ added[i].split = ids[q][i] /\ added[i].share = ids[q][i]
                 /\ added[i].from = NoQueue
      <4>1. added[i] = [split |-> ids[q][i], share |-> ids[q][i], from |-> NoQueue]
        BY <3>2, <3>3
      <4>q. QED BY <4>1
    <3>q. QED BY <2>1, <3>4, <3>5, <3>6, <3>7, <3>5
  <2>4. CASE StageOf[q] # 0
    <3>1. args'[q] = <<>> /\ ids[q] = <<>>
      BY <1>a, <1>2, <1>5, <2>4
    <3>q. QED BY <3>1
  <2>q. QED BY <2>3, <2>4
<1>7. TypeOK'
  <2>1. args' \in [Queues -> Seq([split : Id, share : Id, from : Queues \cup {NoQueue}])]
    <3>1. args' = [q \in Queues |-> args'[q]]
      BY <1>a
    <3>2. args' \in [Queues -> Seq(Argument)]
      BY <1>6, <3>1
    <3>q. QED BY <3>2 DEF Argument
  <2>2. Id' = Id
    BY <1>b DEF Id
  <2>3. stage' \in Stages /\ phase' \in {"load", "read", "stages", "correct", "report"}
    BY <1>b DEF Stages
  <2>q. QED BY <1>b, <2>1, <2>2, <2>3 DEF IInv, TypeOK
<1>8. (Routed /\ Opened /\ Reading)'
  BY <1>b DEF IInv, Routed, Opened, Reading, Id
<1>9. Arguments'
  BY <1>b, <1>6 DEF Arguments
<1>10. Places'
  <2>1. \A q \in Queues : \A s \in Id : At(q, s) <=> On(q, s) /\ StageOf[q] = 0
    BY <1>2, <1>4 DEF On
  <2>2. \A s \in Id : \A k \in 0..0 : splits[s].route[k] # NoQueue => At(splits[s].route[k], s)
    BY <1>2, <1>4
  <2>q. QED BY <1>b, <1>2, <2>1, <2>2 DEF Places, At, Due, On, Once, Id
<1>11. (ServedInOrder /\ Results /\ Corrections)'
  BY <1>b, <1>2, <1>3 DEF ServedInOrder, Results, Corrections, Stages
<1>q. QED BY <1>7, <1>8, <1>9, <1>10, <1>11 DEF IInv

LEMMA NextStageIInv == ASSUME IInv, NextStage PROVE IInv'
PROOF
<1>1. /\ phase = "stages"
      /\ \A q \in Queues : StageOf[q] = stage /\ ids[q] # <<>> => q \in served
      /\ stage < 5 => stage' = stage + 1 /\ phase' = phase
      /\ ~(stage < 5) => stage' = stage /\ phase' = "correct"
      /\ UNCHANGED <<window, served, files, line, flows, splits, ids, args, rho, lat, corr, rows>>
  BY DEF NextStage, vectors
<1>2. stage \in Stages /\ StageOf \in [Queues -> Stages] /\ NoQueue \notin Queues /\ served \subseteq Queues
  BY QueuesAssumption DEF IInv, TypeOK
<1>3. /\ stage' \in Stages /\ phase' \in {"stages", "correct"}
      /\ stage <= stage' /\ stage' <= stage + 1
      /\ phase' = "correct" => stage = 5 /\ stage' = 5
  BY <1>1, <1>2 DEF Stages
<1>4. Id' = Id
  BY <1>1 DEF Id
<1>5. TypeOK'
  BY <1>1, <1>3, <1>4 DEF IInv, TypeOK
<1>6. (Routed /\ Opened /\ Reading /\ Arguments /\ Results /\ Corrections)'
  <2>1. Calculated /\ phase # "load" /\ phase' # "load" /\ phase' # "read" /\ phase' # "report"
    BY <1>1, <1>3 DEF Calculated
  <2>2. Routed' /\ Opened' /\ Reading'
    BY <1>1, <1>4, <2>1 DEF IInv, Routed, Opened, Reading
  <2>3. Arguments' /\ Corrections'
    BY <1>1, <2>1 DEF IInv, Arguments, Corrections
  <2>4. Results'
    BY <1>1, <1>4, <2>1 DEF IInv, Results, Passing, On
  <2>q. QED BY <2>2, <2>3, <2>4
<1>7. ASSUME NEW q \in Queues, StageOf[q] <= stage, ids[q] # <<>>
      PROVE  q \in served
  <2>1. CASE StageOf[q] = stage
    BY <1>1, <1>7, <2>1
  <2>2. CASE StageOf[q] < stage
    BY <1>1, <1>7, <2>2 DEF IInv, ServedInOrder, Calculated
  <2>q. QED BY <1>2, <1>7, <2>1, <2>2 DEF Stages
<1>8. ServedInOrder'
  <2>1. \A q \in served : StageOf[q] <= stage'
    <3>1. \A q \in served : StageOf[q] <= stage /\ StageOf[q] \in Stages
      BY <1>1, <1>2 DEF IInv, ServedInOrder, Calculated
    <3>q. QED BY <1>2, <1>3, <3>1 DEF Stages
  <2>2. ASSUME NEW q \in Queues, StageOf[q] < stage' \/ phase' # "stages", ids[q] # <<>>
        PROVE  q \in served
    <3>1. StageOf[q] <= stage
      BY <1>2, <1>3, <2>2 DEF Stages
    <3>q. QED BY <1>7, <2>2, <3>1
  <2>q. QED BY <1>1, <1>3, <2>1, <2>2 DEF ServedInOrder
<1>9. Places'
  <2>1. /\ Once
        /\ \A q \in Queues : \A s \in Id : At(q, s) <=> Due(q, s)
        /\ \A s \in Id : \A k \in 0..stage :
             splits[s].route[k] # NoQueue => At(splits[s].route[k], s)
    BY <1>1 DEF IInv, Places, Calculated
  <2>2. ASSUME NEW s \in Id, NEW k \in 0..stage', splits[s].route[k] # NoQueue
        PROVE  At(splits[s].route[k], s)
    <3>1. CASE k <= stage
      BY <1>2, <2>1, <2>2, <3>1 DEF Stages
    <3>2. CASE k > stage
      <4>1. k = stage + 1 /\ k \in 1..5 /\ k \in Stages
        BY <1>2, <1>3, <3>2 DEF Stages
      <4>2. PICK route : route = splits[s].route
        OBVIOUS
      <4>3. IsRoute(route)
        BY <4>2 DEF IInv, Routed
      <4>4. PICK j \in 0..k - 1 : Previous(route, k) = route[j] /\ route[j] # NoQueue
        BY <4>1, <4>3, PreviousOnRoute
      <4>5. j \in 0..stage /\ j \in Stages
        BY <1>2, <4>1 DEF Stages
      <4>6. At(route[j], s)
        BY <2>1, <4>2, <4>4, <4>5
      <4>7. /\ route[j] \in Queues /\ StageOf[route[j]] = j /\ j <= stage
            /\ route[k] \in Queues /\ StageOf[route[k]] = k
        BY <1>2, <2>2, <4>1, <4>2, <4>3, <4>4, <4>5 DEF IsRoute, Stages
      <4>8. ids[route[j]] # <<>>
        BY <4>6 DEF At
      <4>9. route[j] \in served
        BY <1>7, <4>7, <4>8
      <4>10. Due(route[k], s)
        BY <4>2, <4>4, <4>7, <4>9 DEF Due, On
      <4>q. QED BY <2>1, <4>2, <4>7, <4>10
    <3>q. QED BY <1>2, <3>1, <3>2 DEF Stages
  <2>q. QED BY <1>1, <1>4, <2>1, <2>2 DEF Places, Once, At, Due, On
<1>q. QED BY <1>5, <1>6, <1>8, <1>9 DEF IInv

LEMMA ReportIInv == ASSUME IInv, Report PROVE IInv'
PROOF
<1>1. /\ phase = "report" /\ phase' = "load" /\ window' = window + 1
      /\ UNCHANGED <<stage, served, files, line, flows, splits, ids, args, rho, lat, corr>>
  BY DEF Report, vectors
<1>2. window \in 1..Windows + 1 /\ window <= Windows /\ Windows \in Nat /\ Len(files) = window
  BY <1>1, QueuesAssumption DEF IInv, TypeOK, Opened
<1>3. Id' = Id
  BY <1>1 DEF Id
<1>4. TypeOK'
  <2>1. window' \in 1..Windows + 1
    BY <1>1, <1>2
  <2>q. QED BY <1>1, <1>3, <2>1 DEF IInv, TypeOK
<1>5. Routed' /\ Opened'
  BY <1>1, <1>2, <1>3 DEF IInv, Routed, Opened
<1>6. (Reading /\ Arguments /\ Places /\ ServedInOrder /\ Results /\ Corrections)'
  BY <1>1 DEF Reading, Arguments, Places, ServedInOrder, Results, Corrections, Calculated
<1>q. QED BY <1>4, <1>5, <1>6 DEF IInv

\* After the last stage a split is at all the queues of its route, and nowhere
\* else.
LEMMA AtIsOn ==
  ASSUME IInv, phase = "correct" \/ phase = "report", NEW q \in Queues, NEW s \in Id
  PROVE  At(q, s) <=> On(q, s)
PROOF
<1>1. /\ At(q, s) <=> Due(q, s)
      /\ \A k \in 0..5 : splits[s].route[k] # NoQueue => At(splits[s].route[k], s)
  BY DEF IInv, Places, ServedInOrder, Calculated
<1>2. StageOf[q] \in 0..5 /\ q # NoQueue
  BY QueuesAssumption DEF Stages
<1>q. QED BY <1>1, <1>2 DEF Due, On

LEMMA CorrectIInv == ASSUME IInv, Correct PROVE IInv'
PROOF
<1> DEFINE features(q, i) == {args[q][j].split : j \in
             {n \in 1..Len(ids[q]) : splits[ids[q][n]].flow = splits[ids[q][i]].flow}}
           corrections(q) == [i \in 1..Len(ids[q]) |->
             [flow |-> splits[ids[q][i]].flow, features |-> features(q, i)]]
<1>1. /\ phase = "correct" /\ phase' = "report"
      /\ UNCHANGED <<window, stage, served, files, line, flows, splits, ids, args, rho, lat, rows>>
  BY DEF Correct
<1>2. /\ corr' = [q \in Queues |-> corr'[q]]
      /\ \A q \in Queues : args[q] = <<>> => corr'[q] = corr[q]
      /\ \A q \in Queues : args[q] # <<>> => corr'[q] = corr[q] \o corrections(q)
  <2>1. corr' = [q \in Queues |-> IF args[q] = <<>> THEN corr[q] ELSE corr[q] \o corrections(q)]
    BY DEF Correct
  <2> HIDE DEF corrections
  <2>q. QED BY <2>1, Zenon
<1>3. /\ ids \in [Queues -> Seq(Id)]
      /\ \A s \in Id : splits[s].flow \in 1..Len(flows)
      /\ \A q \in Queues : Len(args[q]) = Len(ids[q]) /\ corr[q] = <<>>
      /\ \A q \in Queues : \A i \in 1..Len(ids[q]) : args[q][i].split = ids[q][i]
      /\ \A q \in Queues : args[q] \in Seq(Argument)
  <2>1. ids \in [Queues -> Seq(Id)]
    BY DEF IInv, TypeOK
  <2>2. args \in [Queues -> Seq(Argument)]
    BY DEF IInv, TypeOK, Argument
  <2>3. splits \in Seq([flow : 1..Len(flows), route : [Stages -> Queues \cup {NoQueue}]])
    BY DEF IInv, TypeOK
  <2>4. \A s \in Id : splits[s].flow \in 1..Len(flows)
    <3>1. ASSUME NEW s \in 1..Len(splits) PROVE splits[s].flow \in 1..Len(flows)
      <4>1. splits[s] \in [flow : 1..Len(flows), route : [Stages -> Queues \cup {NoQueue}]]
        BY <2>3, ElementsOf
      <4>q. QED BY <4>1
    <3>q. QED BY <3>1 DEF Id
  <2>5. \A q \in Queues :
          /\ Len(args[q]) = Len(ids[q])
          /\ \A i \in 1..Len(ids[q]) : args[q][i].split = ids[q][i]
    BY <1>1 DEF IInv, Arguments, Calculated
  <2>6. \A q \in Queues : corr[q] = <<>>
    BY <1>1 DEF IInv, Corrections
  <2>q. QED BY <2>1, <2>2, <2>4, <2>5, <2>6
<1>4. Id' = Id
  BY <1>1 DEF Id
<1> DEFINE Correction == [flow : 1..Len(flows), features : SUBSET Id]
<1>5. ASSUME NEW q \in Queues, NEW i \in 1..Len(ids[q])
      PROVE  features(q, i) = {s \in SplitsOf(splits[ids[q][i]].flow) : On(q, s)}
  <2>1. PICK f : f = splits[ids[q][i]].flow
    OBVIOUS
  <2>2. ASSUME NEW s \in features(q, i) PROVE s \in SplitsOf(f) /\ On(q, s)
    <3>1. PICK j \in 1..Len(ids[q]) : splits[ids[q][j]].flow = f /\ s = args[q][j].split
      BY <2>1, <2>2
    <3>2. s = ids[q][j] /\ s \in Id
      BY <1>3, <3>1
    <3>3. At(q, s)
      BY <3>2 DEF At
    <3>q. QED BY <1>1, <3>1, <3>2, <3>3, AtIsOn DEF SplitsOf, Id
  <2>3. ASSUME NEW s \in SplitsOf(f), On(q, s) PROVE s \in features(q, i)
    <3>1. s \in Id /\ splits[s].flow = f
      BY DEF SplitsOf, Id
    <3>2. At(q, s)
      BY <1>1, <2>3, <3>1, AtIsOn
    <3>3. PICK j \in 1..Len(ids[q]) : ids[q][j] = s
      BY <3>2 DEF At
    <3>4. args[q][j].split = s
      BY <1>3, <3>3
    <3>q. QED BY <2>1, <3>1, <3>3, <3>4
  <2> HIDE DEF features
  <2>q. QED BY <2>1, <2>2, <2>3
<1>6. ASSUME NEW q \in Queues
      PROVE  /\ corr'[q] \in Seq(Correction) /\ Len(corr'[q]) = Len(ids[q])
             /\ \A i \in 1..Len(ids[q]) : corr'[q][i].flow = splits[ids[q][i]].flow
             /\ \A i \in 1..Len(ids[q]) : corr'[q][i].features = features(q, i)
  <2>1. PICK n \in Nat : n = Len(ids[q]) /\ n = Len(args[q])
    BY <1>3
  <2>2. CASE args[q] = <<>>
    BY <1>2, <1>3, <2>2
  <2>3. CASE args[q] # <<>>
    <3>1. PICK added : added = corrections(q)
      OBVIOUS
    <3>2. /\ added = [i \in 1..n |-> added[i]]
          /\ \A i \in 1..n :
               added[i] = [flow |-> splits[ids[q][i]].flow, features |-> features(q, i)]
      BY <2>1, <3>1
    <3>3. ASSUME NEW i \in 1..n PROVE features(q, i) \in SUBSET Id
      <4>1. features(q, i) = {s \in SplitsOf(splits[ids[q][i]].flow) : On(q, s)}
        BY <1>5, <2>1
      <4> HIDE DEF features
      <4>q. QED BY <4>1 DEF SplitsOf, Id
    <3>4. corr'[q] = corr[q] \o added /\ corr[q] = <<>>
      BY <1>2, <1>3, <2>3, <3>1
    <3> HIDE DEF corrections, features
    <3>5. ASSUME NEW i \in 1..n
          PROVE  /\ added[i] \in Correction
                 /\ added[i].flow = splits[ids[q][i]].flow /\ added[i].features = features(q, i)
      <4>1. ids[q][i] \in Id
        BY <1>3, <2>1
      <4>2. splits[ids[q][i]].flow \in 1..Len(flows) /\ features(q, i) \in SUBSET Id
        BY <1>3, <3>3, <4>1
      <4>3. added[i] = [flow |-> splits[ids[q][i]].flow, features |-> features(q, i)]
        BY <3>2
      <4>q. QED BY <4>2, <4>3
    <3> HIDE DEF Correction
    <3>6. added \in Seq(Correction) /\ Len(added) = n
      BY <3>2, <3>5, SequenceOf
    <3>7. corr'[q] = added
      <4>1. <<>> \o added = added
        BY <3>6
      <4>q. QED BY <3>4, <4>1
    <3>q. QED BY <2>1, <3>5, <3>6, <3>7
  <2>q. QED BY <2>2, <2>3
<1>7. TypeOK'
  <2>1. corr' \in [Queues -> Seq([flow : 1..Len(flows), features : SUBSET Id])]
    <3> HIDE DEF Correction
    <3>1. corr' \in [Queues -> Seq(Correction)]
      BY <1>2, <1>6
    <3>q. QED BY <3>1 DEF Correction
  <2>2. phase' \in {"load", "read", "stages", "correct", "report"}
    BY <1>1
  <2>q. QED BY <1>1, <1>4, <2>1, <2>2 DEF IInv, TypeOK
<1>8. (Routed /\ Opened /\ Reading)'
  BY <1>1, <1>4 DEF IInv, Routed, Opened, Reading
<1>9. (Arguments /\ Places /\ ServedInOrder)'
  <2>1. Calculated
    BY <1>1 DEF Calculated
  <2>2. Arguments' /\ ServedInOrder'
    BY <1>1, <2>1 DEF IInv, Arguments, ServedInOrder
  <2>3. Places'
    BY <1>1, <1>4, <2>1 DEF IInv, Places, Once, At, Due, On
  <2>q. QED BY <2>2, <2>3
<1>10. Results'
  BY <1>1, <1>4 DEF IInv, Results, Passing, On, Calculated
<1>11. Corrections'
  <2> HIDE DEF features
  <2>1. ASSUME NEW q \in Queues
        PROVE  /\ Len(corr'[q]) = Len(ids[q])
               /\ \A i \in 1..Len(ids[q]) :
                    /\ corr'[q][i].flow = splits[ids[q][i]].flow
                    /\ corr'[q][i].features = {s \in SplitsOf(splits[ids[q][i]].flow) : On(q, s)}
    BY <1>5, <1>6
  <2>q. QED BY <1>1, <2>1 DEF Corrections, SplitsOf, On
<1>q. QED BY <1>7, <1>8, <1>9, <1>10, <1>11 DEF IInv

Untargeted(target, q) == Slots(target, q) = {}

LEMMA PushNothing ==
  ASSUME NEW V, NEW vector \in [Queues -> Seq(V)], NEW target, Len(target) \in Nat,
         NEW value, \A i \in 1..Len(target) : value[i] \in V, NEW q \in Queues,
         NEW pushed, pushed = Push(vector, target, value)[q]
  PROVE  Untargeted(target, q) => pushed = vector[q]
PROOF
<1>1. PICK all : all = Push(vector, target, value)
  OBVIOUS
<1>2. /\ all \in [Queues -> Seq(V)]
      /\ Len(all[q]) = Len(vector[q]) + Cardinality(Slots(target, q))
      /\ \A i \in 1..Len(vector[q]) : all[q][i] = vector[q][i]
  <2>1. all \in [Queues -> Seq(V)]
    BY <1>1, PushAppends
  <2>2. /\ Len(all[q]) = Len(vector[q]) + Cardinality(Slots(target, q))
        /\ \A i \in 1..Len(vector[q]) : all[q][i] = vector[q][i]
        /\ \A n \in 1..Cardinality(Slots(target, q)) :
             all[q][Len(vector[q]) + n] = value[Nth(Slots(target, q), n)]
    BY <1>1, PushAppends
  <2>q. QED BY <2>1, <2>2
<1>3. PICK a \in Seq(V), b \in Seq(V) : a = vector[q] /\ b = all[q]
  BY <1>2
<1>4. SUFFICES ASSUME Untargeted(target, q) PROVE a = b
  BY <1>1, <1>3
<1>5. Cardinality(Slots(target, q)) = 0
  BY <1>4, FS_EmptySet DEF Untargeted
<1>6. Len(b) = Len(a) /\ \A i \in 1..Len(a) : b[i] = a[i]
  BY <1>2, <1>3, <1>5
<1>q. QED BY <1>6, SeqEqual

-------------------------------------------------------------------------------
(* A queue is computed, and its splits depart to their next queues.        *)

Targets(r) == [i \in 1..Len(ids[r]) |-> NextQueue(splits[ids[r][i]].route, stage)]
Departures(r) ==
  [i \in 1..Len(ids[r]) |->
     [split |-> ids[r][i], share |-> args[r][i].split, from |-> r]]

\* The queue before q on the route of s.
Before(q, s) == Previous(splits[s].route, StageOf[q])

LEMMA ServeState ==
  ASSUME IInv, NEW r \in Queues, Serve(r)
  PROVE  /\ phase = "stages" /\ StageOf[r] = stage /\ r \notin served /\ ids[r] # <<>>
         /\ served' = served \cup {r}
         /\ stage < 5 => /\ ids' = Push(ids, Targets(r), ids[r])
                         /\ args' = Push(args, Targets(r), Departures(r))
         /\ ~(stage < 5) => ids' = ids /\ args' = args
         /\ UNCHANGED <<window, phase, stage, files, line, flows, splits, corr, rows>>
BY DEF Serve, Targets, Departures

LEMMA QueueHas ==
  ASSUME IInv, phase = "stages", NEW r \in Queues
  PROVE  /\ Len(ids[r]) \in Nat /\ OneEach(ids[r])
         /\ \A i \in 1..Len(ids[r]) :
              /\ ids[r][i] \in Id /\ On(r, ids[r][i]) /\ IsRoute(splits[ids[r][i]].route)
              /\ args[r][i].split = ids[r][i]
         /\ StageOf[r] <= stage => \A s \in Id : On(r, s) => At(r, s)
PROOF
<1>1. ids[r] \in Seq(Id)
  BY DEF IInv, TypeOK
<1>2. Len(ids[r]) \in Nat /\ \A i \in 1..Len(ids[r]) : ids[r][i] \in Id
  BY <1>1, ElementsOf
<1>3. OneEach(ids[r])
  BY DEF IInv, Places, Once, OneEach, Calculated
<1>4. ASSUME NEW i \in 1..Len(ids[r]) PROVE On(r, ids[r][i])
  <2>1. ids[r][i] \in Id /\ At(r, ids[r][i])
    BY <1>2 DEF At
  <2>q. QED BY <2>1 DEF IInv, Places, Calculated, Due
<1>5. \A i \in 1..Len(ids[r]) :
        IsRoute(splits[ids[r][i]].route) /\ args[r][i].split = ids[r][i]
  BY <1>2 DEF IInv, Routed, Arguments, Calculated
<1>6. ASSUME StageOf[r] <= stage, NEW s \in Id, On(r, s) PROVE At(r, s)
  <2>1. StageOf[r] \in 0..stage /\ r # NoQueue
    <3>1. StageOf[r] \in 0..5 /\ stage \in 0..5
      BY QueuesAssumption DEF Stages, IInv, TypeOK
    <3>2. r # NoQueue
      BY QueuesAssumption
    <3>q. QED BY <1>6, <3>1, <3>2
  <2>2. \A k \in 0..stage : splits[s].route[k] # NoQueue => At(splits[s].route[k], s)
    BY DEF IInv, Places, Calculated
  <2>q. QED BY <1>6, <2>1, <2>2 DEF On
<1>q. QED BY <1>2, <1>3, <1>4, <1>5, <1>6

\* The splits that depart to a queue are those that pass it after this one.
LEMMA ServeTargets ==
  ASSUME IInv, phase = "stages", NEW r \in Queues, StageOf[r] = stage, stage < 5,
         NEW q \in Queues
  PROVE  /\ Len(Targets(r)) = Len(ids[r])
         /\ \A i \in Slots(Targets(r), q) :
              /\ i \in 1..Len(ids[r]) /\ StageOf[q] > stage
              /\ On(q, ids[r][i]) /\ Before(q, ids[r][i]) = r
         /\ \A s \in Id : On(q, s) /\ StageOf[q] # 0 /\ Before(q, s) = r
              => \E i \in Slots(Targets(r), q) : ids[r][i] = s
PROOF
<1>1. PICK n \in Nat : n = Len(ids[r])
  BY QueueHas
<1>2. Len(Targets(r)) = n /\ \A i \in 1..n : Targets(r)[i] = NextQueue(splits[ids[r][i]].route, stage)
  BY <1>1 DEF Targets
<1>3. /\ stage \in 0..4 /\ stage \in Stages /\ StageOf[q] \in 0..5
      /\ r # NoQueue /\ q # NoQueue
  <2>1. StageOf[r] \in 0..5 /\ StageOf[q] \in 0..5 /\ r # NoQueue /\ q # NoQueue
    BY QueuesAssumption DEF Stages
  <2>q. QED BY <2>1 DEF Stages
<1>4. ASSUME NEW i \in Slots(Targets(r), q)
      PROVE  /\ i \in 1..n /\ StageOf[q] > stage
             /\ On(q, ids[r][i]) /\ Before(q, ids[r][i]) = r
  <2>1. i \in 1..n /\ Targets(r)[i] = q
    BY <1>2 DEF Slots
  <2>2. PICK route : route = splits[ids[r][i]].route
    OBVIOUS
  <2>3. IsRoute(route) /\ route[stage] = r
    <3>1. PICK id : id = ids[r][i]
      OBVIOUS
    <3>q. QED BY <1>1, <2>1, <2>2, <3>1, QueueHas DEF On
  <2>4. PICK j \in stage + 1..5 : /\ NextQueue(route, stage) = route[j] /\ route[j] # NoQueue
                                  /\ \A i_1 \in stage + 1..j - 1 : route[i_1] = NoQueue
    BY <1>3, <2>3, NextOnRoute
  <2>5. j \in Stages /\ q = route[j] /\ StageOf[q] = j
    <3>1. j \in Stages
      BY <1>3 DEF Stages
    <3>2. q = route[j]
      BY <1>2, <2>1, <2>2, <2>4
    <3>q. QED BY <1>3, <2>3, <3>1, <3>2 DEF IsRoute
  <2>6. stage \in 0..j - 1
    BY <1>3, <2>4
  <2>7. Previous(route, j) = route[stage]
    BY <1>3, <2>3, <2>4, <2>5, <2>6, PreviousIs
  <2>q. QED BY <1>3, <2>1, <2>2, <2>3, <2>4, <2>5, <2>6, <2>7 DEF On, Before
<1>5. ASSUME NEW s \in Id, On(q, s), StageOf[q] # 0, Before(q, s) = r
      PROVE  \E i \in Slots(Targets(r), q) : ids[r][i] = s
  <2>1. PICK route : route = splits[s].route
    OBVIOUS
  <2>2. PICK k \in 1..5 : k = StageOf[q] /\ route[k] = q
    BY <1>3, <1>5, <2>1 DEF On
  <2>3. IsRoute(route)
    BY <2>1 DEF IInv, Routed
  <2>4. PICK j \in 0..k - 1 : /\ Previous(route, k) = route[j] /\ route[j] # NoQueue
                              /\ \A i \in j + 1..k - 1 : route[i] = NoQueue
    BY <2>2, <2>3, PreviousOnRoute
  <2>5. j = stage /\ route[stage] = r
    <3>1. route[j] = r /\ j \in Stages
      BY <1>5, <2>1, <2>2, <2>4 DEF Before, Stages
    <3>q. QED BY <1>3, <2>3, <3>1 DEF IsRoute
  <2>6. At(r, s)
    BY <1>3, <2>1, <2>5, QueueHas DEF On, Stages
  <2>7. PICK i \in 1..n : ids[r][i] = s
    BY <1>1, <2>6 DEF At
  <2>8. PICK m \in stage + 1..5 : /\ NextQueue(route, stage) = route[m] /\ route[m] # NoQueue
                                  /\ \A i_1 \in stage + 1..m - 1 : route[i_1] = NoQueue
    BY <1>3, <2>3, NextOnRoute
  <2>9. m = k
    <3>1. k \in stage + 1..5 /\ route[k] # NoQueue
      BY <1>3, <2>2, <2>4, <2>5
    <3>2. ~(m < k)
      BY <1>3, <2>4, <2>5, <2>8
    <3>3. ~(k < m)
      BY <1>3, <2>8, <3>1
    <3>q. QED BY <1>3, <3>2, <3>3
  <2>10. Targets(r)[i] = q
    BY <1>2, <2>1, <2>2, <2>7, <2>8, <2>9
  <2>q. QED BY <1>2, <2>7, <2>10 DEF Slots
<1>q. QED BY <1>1, <1>2, <1>4, <1>5

LEMMA BeforeIsEarlier ==
  ASSUME IInv, NEW q \in Queues, NEW s \in Id, On(q, s), StageOf[q] # 0,
         Before(q, s) \in Queues
  PROVE  StageOf[Before(q, s)] < StageOf[q]
PROOF
<1>1. PICK k \in 1..5 : k = StageOf[q]
  BY QueuesAssumption DEF Stages
<1>2. PICK route : route = splits[s].route
  OBVIOUS
<1>3. IsRoute(route)
  BY <1>2 DEF IInv, Routed
<1>4. PICK j \in 0..k - 1 : Previous(route, k) = route[j] /\ route[j] # NoQueue
  BY <1>1, <1>3, PreviousOnRoute
<1>5. StageOf[route[j]] = j
  BY <1>3, <1>4 DEF IsRoute, Stages
<1>q. QED BY <1>1, <1>2, <1>4, <1>5 DEF Before

LEMMA ServeTypes ==
  ASSUME IInv, NEW r \in Queues, Serve(r)
  PROVE  /\ ids' \in [Queues -> Seq(Id)] /\ args' \in [Queues -> Seq(Argument)]
         /\ \A i \in 1..Len(ids[r]) : ids[r][i] \in Id /\ Departures(r)[i] \in Argument
         /\ Len(Targets(r)) = Len(ids[r])
PROOF
<1>1. /\ phase = "stages"
      /\ stage < 5 => /\ ids' = Push(ids, Targets(r), ids[r])
                      /\ args' = Push(args, Targets(r), Departures(r))
      /\ ~(stage < 5) => ids' = ids /\ args' = args
  BY ServeState
<1>2. ids \in [Queues -> Seq(Id)] /\ args \in [Queues -> Seq(Argument)]
  BY DEF IInv, TypeOK, Argument
<1>3. PICK n \in Nat : n = Len(ids[r])
  BY <1>1, QueueHas
<1>4. Len(Targets(r)) = n
  BY <1>3 DEF Targets
<1>5. \A i \in 1..n : ids[r][i] \in Id /\ args[r][i].split = ids[r][i]
  BY <1>1, <1>3, QueueHas
<1>6. ASSUME NEW i \in 1..n PROVE Departures(r)[i] \in Argument
  <2>1. Departures(r)[i] = [split |-> ids[r][i], share |-> args[r][i].split, from |-> r]
    BY <1>3 DEF Departures
  <2>2. ids[r][i] \in Id /\ args[r][i].split \in Id
    BY <1>5
  <2>q. QED BY <2>1, <2>2 DEF Argument
<1>7. CASE stage < 5
  <2>a. PICK target, V, W, had, were, sent, given :
          /\ target = Targets(r) /\ V = Id /\ W = Argument
          /\ had = ids /\ were = args /\ sent = ids[r] /\ given = Departures(r)
    OBVIOUS
  <2>1. Push(had, target, sent) \in [Queues -> Seq(V)]
    <3>1. /\ had \in [Queues -> Seq(V)] /\ Len(target) \in Nat
          /\ \A i \in 1..Len(target) : sent[i] \in V
      BY <1>2, <1>3, <1>4, <1>5, <2>a
    <3>q. QED BY <3>1, PushAppends
  <2>2. Push(were, target, given) \in [Queues -> Seq(W)]
    <3>1. /\ were \in [Queues -> Seq(W)] /\ Len(target) \in Nat
          /\ \A i \in 1..Len(target) : given[i] \in W
      BY <1>2, <1>3, <1>4, <1>6, <2>a
    <3>q. QED BY <3>1, PushAppends
  <2>3. ids' \in [Queues -> Seq(Id)] /\ args' \in [Queues -> Seq(Argument)]
    BY <1>1, <1>7, <2>a, <2>1, <2>2
  <2>q. QED BY <1>3, <1>4, <1>5, <1>6, <2>3
<1>8. CASE ~(stage < 5)
  BY <1>1, <1>2, <1>3, <1>4, <1>5, <1>6, <1>8
<1>q. QED BY <1>7, <1>8

\* Nothing arrives at the queues up to this stage.
LEMMA ServeKeeps ==
  ASSUME IInv, NEW r \in Queues, Serve(r), NEW q \in Queues, StageOf[q] <= stage
  PROVE  ids'[q] = ids[q] /\ args'[q] = args[q]
PROOF
<1>1. /\ phase = "stages" /\ StageOf[r] = stage
      /\ stage < 5 => /\ ids' = Push(ids, Targets(r), ids[r])
                      /\ args' = Push(args, Targets(r), Departures(r))
      /\ ~(stage < 5) => ids' = ids /\ args' = args
  BY ServeState
<1>2. ids \in [Queues -> Seq(Id)] /\ args \in [Queues -> Seq(Argument)]
  BY DEF IInv, TypeOK, Argument
<1>3. Len(Targets(r)) \in Nat /\ \A i \in 1..Len(Targets(r)) :
                                   ids[r][i] \in Id /\ Departures(r)[i] \in Argument
  BY <1>1, ServeTypes, QueueHas
<1>4. CASE stage < 5
  <2>1. \A i \in Slots(Targets(r), q) : StageOf[q] > stage
    BY <1>1, <1>4, ServeTargets
  <2>2. Slots(Targets(r), q) = {}
    <3>1. StageOf[q] \in 0..5 /\ stage \in 0..5
      BY QueuesAssumption DEF Stages, IInv, TypeOK
    <3>q. QED BY <2>1, <3>1
  <2>3. PICK target, V, W, had, were, sent, given :
          /\ target = Targets(r) /\ V = Id /\ W = Argument
          /\ had = ids /\ were = args /\ sent = ids[r] /\ given = Departures(r)
    OBVIOUS
  <2>4. Push(had, target, sent)[q] = had[q]
    <3>1. /\ had \in [Queues -> Seq(V)] /\ Len(target) \in Nat
          /\ \A i \in 1..Len(target) : sent[i] \in V
      BY <1>2, <1>3, <2>3
    <3>2. PICK pushed : pushed = Push(had, target, sent)[q]
      OBVIOUS
    <3>3. Untargeted(target, q) => pushed = had[q]
      BY <3>1, <3>2, PushNothing
    <3>q. QED BY <2>2, <2>3, <3>2, <3>3 DEF Untargeted
  <2>5. Push(were, target, given)[q] = were[q]
    <3>1. /\ were \in [Queues -> Seq(W)] /\ Len(target) \in Nat
          /\ \A i \in 1..Len(target) : given[i] \in W
      BY <1>2, <1>3, <2>3
    <3>2. PICK pushed : pushed = Push(were, target, given)[q]
      OBVIOUS
    <3>3. Untargeted(target, q) => pushed = were[q]
      BY <3>1, <3>2, PushNothing
    <3>q. QED BY <2>2, <2>3, <3>2, <3>3 DEF Untargeted
  <2>q. QED BY <1>1, <1>4, <2>3, <2>4, <2>5
<1>q. QED BY <1>1, <1>4

\* The queues have the splits they had, and those that depart to them.
LEMMA ServeArrivals ==
  ASSUME IInv, NEW r \in Queues, Serve(r), NEW q \in Queues
  PROVE  /\ OneEach(ids'[q])
         /\ \A s \in Id : (\E i \in 1..Len(ids'[q]) : ids'[q][i] = s)
                          <=> At(q, s) \/ (On(q, s) /\ StageOf[q] # 0 /\ Before(q, s) = r)
PROOF
<1>1. /\ phase = "stages" /\ StageOf[r] = stage /\ r \notin served
      /\ stage < 5 => ids' = Push(ids, Targets(r), ids[r])
  BY ServeState
<1>2. StageOf[q] \in 0..5 /\ stage \in 0..5
  BY QueuesAssumption DEF Stages, IInv, TypeOK
<1>3. OneEach(ids[q]) /\ OneEach(ids[r]) /\ Len(ids[r]) \in Nat
      /\ \A i \in 1..Len(ids[r]) : ids[r][i] \in Id
  BY <1>1, QueueHas
<1>4. CASE StageOf[q] <= stage
  <2>1. ids'[q] = ids[q]
    BY <1>4, ServeKeeps
  <2>2. ASSUME NEW s \in Id, On(q, s), StageOf[q] # 0, Before(q, s) = r PROVE FALSE
    BY <1>1, <1>2, <1>4, <2>2, BeforeIsEarlier
  <2>q. QED BY <1>3, <2>1, <2>2 DEF At
<1>5. CASE StageOf[q] > stage
  <2>1. stage < 5 /\ ids' = Push(ids, Targets(r), ids[r])
    BY <1>1, <1>2, <1>5
  <2>2. PICK target : target = Targets(r)
    OBVIOUS
  <2>3. /\ Len(target) = Len(ids[r])
        /\ \A i \in Slots(target, q) :
             /\ i \in 1..Len(ids[r]) /\ On(q, ids[r][i]) /\ Before(q, ids[r][i]) = r
        /\ \A s \in Id : On(q, s) /\ StageOf[q] # 0 /\ Before(q, s) = r
             => \E i \in Slots(target, q) : ids[r][i] = s
    BY <1>1, <2>1, <2>2, ServeTargets
  <2>4. PICK pushed, old, value : pushed = ids'[q] /\ old = ids /\ value = ids[r]
    OBVIOUS
  <2>5. /\ old \in [Queues -> Seq(Id)] /\ Len(target) \in Nat
        /\ \A i \in 1..Len(target) : value[i] \in Id
        /\ pushed = Push(old, target, value)[q]
    BY <1>3, <2>1, <2>2, <2>3, <2>4 DEF IInv, TypeOK
  <2>6. Extends(pushed, old[q], target, value, q)
    BY <2>5, PushContents
  <2>7. /\ OneEach(old[q])
        /\ \A i, j \in Slots(target, q) : value[i] = value[j] => i = j
        /\ \A i \in 1..Len(old[q]) : \A j \in Slots(target, q) : old[q][i] # value[j]
        => OneEach(pushed)
    BY <2>5, PushContents
  <2>8. ASSUME NEW j \in Slots(target, q), NEW i \in 1..Len(old[q]), old[q][i] = value[j]
        PROVE  FALSE
    <3>1. /\ value[j] \in Id /\ Before(q, value[j]) = r
      BY <1>3, <2>3, <2>4, <2>8
    <3>2. At(q, value[j])
      BY <2>4, <2>8 DEF At
    <3>3. Due(q, value[j])
      BY <1>1, <3>1, <3>2 DEF IInv, Places, Calculated
    <3>q. QED BY <1>1, <1>2, <1>5, <3>1, <3>3 DEF Due, Before
  <2>9. OneEach(pushed)
    <3>1. \A i, j \in Slots(target, q) : value[i] = value[j] => i = j
      BY <1>3, <2>3, <2>4 DEF OneEach
    <3>q. QED BY <1>3, <2>4, <2>7, <2>8, <3>1
  <2>10. ASSUME NEW s \in Id
         PROVE  (\E i \in 1..Len(pushed) : pushed[i] = s)
                <=> At(q, s) \/ (On(q, s) /\ StageOf[q] # 0 /\ Before(q, s) = r)
    <3>1. (\E i \in 1..Len(pushed) : pushed[i] = s)
          <=> At(q, s) \/ \E j \in Slots(target, q) : value[j] = s
      BY <2>4, <2>6 DEF Extends, At
    <3>2. (\E j \in Slots(target, q) : value[j] = s)
          <=> On(q, s) /\ StageOf[q] # 0 /\ Before(q, s) = r
      BY <1>2, <1>5, <2>3, <2>4
    <3>q. QED BY <3>1, <3>2
  <2>q. QED BY <2>4, <2>9, <2>10
<1>q. QED BY <1>2, <1>4, <1>5

\* The arguments of an arrival are appended where its id is.
LEMMA ServeArguments ==
  ASSUME IInv, NEW r \in Queues, Serve(r), NEW q \in Queues
  PROVE  /\ Len(args'[q]) = Len(ids'[q])
         /\ \A i \in 1..Len(ids'[q]) :
              /\ args'[q][i].split = ids'[q][i] /\ args'[q][i].share = ids'[q][i]
              /\ args'[q][i].from = Before(q, ids'[q][i])
PROOF
<1>1. /\ phase = "stages" /\ StageOf[r] = stage
      /\ stage < 5 => /\ ids' = Push(ids, Targets(r), ids[r])
                      /\ args' = Push(args, Targets(r), Departures(r))
  BY ServeState
<1>2. /\ StageOf[q] \in 0..5 /\ stage \in 0..5
      /\ ids \in [Queues -> Seq(Id)] /\ args \in [Queues -> Seq(Argument)]
  BY QueuesAssumption DEF Stages, IInv, TypeOK, Argument
<1>3. /\ Len(args[q]) = Len(ids[q])
      /\ \A i \in 1..Len(ids[q]) :
           /\ args[q][i].split = ids[q][i] /\ args[q][i].share = ids[q][i]
           /\ args[q][i].from = Before(q, ids[q][i])
  BY <1>1 DEF IInv, Arguments, Calculated, Before
<1>4. CASE StageOf[q] <= stage
  <2>1. ids'[q] = ids[q] /\ args'[q] = args[q]
    BY <1>4, ServeKeeps
  <2>q. QED BY <1>3, <2>1
<1>5. CASE StageOf[q] > stage
  <2>1. stage < 5
    BY <1>2, <1>5
  <2>2. PICK target, V, W, had, were, sent, given, newIds, newArgs :
          /\ target = Targets(r) /\ V = Id /\ W = Argument
          /\ had = ids /\ were = args /\ sent = ids[r] /\ given = Departures(r)
          /\ newIds = ids' /\ newArgs = args'
    OBVIOUS
  <2>3. /\ Len(target) \in Nat /\ Len(target) = Len(sent)
        /\ \A i \in 1..Len(target) : sent[i] \in V /\ given[i] \in W
        /\ \A i \in Slots(target, q) : i \in 1..Len(sent) /\ Before(q, sent[i]) = r
    BY <1>1, <2>1, <2>2, ServeTypes, ServeTargets, QueueHas
  <2>4. \A i \in 1..Len(sent) :
          given[i].split = sent[i] /\ given[i].share = sent[i] /\ given[i].from = r
    <3>1. ASSUME NEW i \in 1..Len(ids[r])
          PROVE  Departures(r)[i] = [split |-> ids[r][i], share |-> ids[r][i], from |-> r]
      <4>1. args[r][i].split = ids[r][i]
        BY <1>1, QueueHas
      <4>2. Departures(r)[i] = [split |-> ids[r][i], share |-> args[r][i].split, from |-> r]
        BY DEF Departures
      <4>q. QED BY <4>1, <4>2
    <3>2. ASSUME NEW i \in 1..Len(ids[r])
          PROVE  /\ Departures(r)[i].split = ids[r][i] /\ Departures(r)[i].share = ids[r][i]
                 /\ Departures(r)[i].from = r
      <4>1. PICK d : d = Departures(r)[i]
        OBVIOUS
      <4>2. d = [split |-> ids[r][i], share |-> ids[r][i], from |-> r]
        BY <3>1, <4>1
      <4>3. d.split = ids[r][i] /\ d.share = ids[r][i] /\ d.from = r
        BY <4>2
      <4>q. QED BY <4>1, <4>3
    <3>q. QED BY <2>2, <3>2
  <2>5. PICK l \in Nat, c \in Nat :
          /\ l = Len(had[q]) /\ c = Cardinality(Slots(target, q)) /\ Len(were[q]) = l
    <3>1. Cardinality(Slots(target, q)) \in Nat
      BY <2>3, SlotsFinite, NthIsOneEach
    <3>2. Len(ids[q]) \in Nat
      BY <1>1, QueueHas
    <3>q. QED BY <1>3, <2>2, <3>1, <3>2
  <2>6. \A n \in 1..c : Nth(Slots(target, q), n) \in Slots(target, q)
    BY <2>3, <2>5, SlotsFinite, NthIsOneEach
  <2>7. /\ Len(newIds[q]) = l + c
        /\ \A i \in 1..l : newIds[q][i] = had[q][i]
        /\ \A n \in 1..c : newIds[q][l + n] = sent[Nth(Slots(target, q), n)]
    <3>1. /\ had \in [Queues -> Seq(V)] /\ newIds = Push(had, target, sent)
          /\ Len(target) \in Nat /\ \A i \in 1..Len(target) : sent[i] \in V
      BY <1>1, <1>2, <2>1, <2>2, <2>3
    <3>2. /\ Len(newIds[q]) = Len(had[q]) + Cardinality(Slots(target, q))
          /\ \A i \in 1..Len(had[q]) : newIds[q][i] = had[q][i]
          /\ \A n \in 1..Cardinality(Slots(target, q)) :
               newIds[q][Len(had[q]) + n] = sent[Nth(Slots(target, q), n)]
      BY <3>1, PushAppends
    <3>q. QED BY <2>5, <3>2
  <2>8. /\ Len(newArgs[q]) = l + c
        /\ \A i \in 1..l : newArgs[q][i] = were[q][i]
        /\ \A n \in 1..c : newArgs[q][l + n] = given[Nth(Slots(target, q), n)]
    <3>1. /\ were \in [Queues -> Seq(W)] /\ newArgs = Push(were, target, given)
          /\ Len(target) \in Nat /\ \A i \in 1..Len(target) : given[i] \in W
      BY <1>1, <1>2, <2>1, <2>2, <2>3
    <3>2. /\ Len(newArgs[q]) = Len(were[q]) + Cardinality(Slots(target, q))
          /\ \A i \in 1..Len(were[q]) : newArgs[q][i] = were[q][i]
          /\ \A n \in 1..Cardinality(Slots(target, q)) :
               newArgs[q][Len(were[q]) + n] = given[Nth(Slots(target, q), n)]
      BY <3>1, PushAppends
    <3>q. QED BY <2>5, <3>2
  <2>9. ASSUME NEW i \in 1..l + c
        PROVE  /\ newArgs[q][i].split = newIds[q][i] /\ newArgs[q][i].share = newIds[q][i]
               /\ newArgs[q][i].from = Before(q, newIds[q][i])
    <3>1. CASE i <= l
      <4>1. i \in 1..l
        BY <3>1
      <4>2. newIds[q][i] = ids[q][i] /\ newArgs[q][i] = args[q][i] /\ i \in 1..Len(ids[q])
        BY <2>2, <2>5, <2>7, <2>8, <4>1
      <4>q. QED BY <1>3, <4>2
    <3>2. CASE i > l
      <4>1. PICK n \in 1..c : i = l + n
        <5>1. i - l \in 1..c /\ i = l + (i - l)
          BY <3>2
        <5>q. QED BY <5>1
      <4>2. PICK j \in Slots(target, q) : newIds[q][i] = sent[j] /\ newArgs[q][i] = given[j]
        BY <2>6, <2>7, <2>8, <4>1
      <4>q. QED BY <2>3, <2>4, <4>2
    <3>q. QED BY <3>1, <3>2
  <2>q. QED BY <2>2, <2>7, <2>8, <2>9
<1>q. QED BY <1>2, <1>4, <1>5

\* A result for each id, of the load of all splits that pass the queue.
Result == [split : Id, rho : Id, load : SUBSET Id]

LEMMA ServeResults ==
  ASSUME IInv, NEW r \in Queues, Serve(r)
  PROVE  /\ rho' \in [Queues -> Seq(Id)] /\ lat' \in [Queues -> Seq(Result)]
         /\ \A q \in Queues : q # r => rho'[q] = rho[q] /\ lat'[q] = lat[q]
         /\ Len(rho'[r]) = Len(ids[r]) /\ Len(lat'[r]) = Len(ids[r])
         /\ \A i \in 1..Len(ids[r]) :
              /\ lat'[r][i].split = ids[r][i] /\ lat'[r][i].rho = ids[r][i]
              /\ lat'[r][i].load = Passing(r)
PROOF
<1> DEFINE load == {args[r][i].split : i \in 1..Len(args[r])}
           ratios == [i \in 1..Len(args[r]) |-> args[r][i].split]
<1>1. /\ phase = "stages" /\ StageOf[r] = stage /\ r \notin served
      /\ rho \in [Queues -> Seq(Id)] /\ lat \in [Queues -> Seq(Result)]
  <2>1. rho \in [Queues -> Seq(Id)] /\ lat \in [Queues -> Seq(Result)]
    BY DEF IInv, TypeOK, Result
  <2>q. QED BY <2>1, ServeState
<1>2. rho[r] = <<>> /\ lat[r] = <<>> /\ Len(args[r]) = Len(ids[r])
  BY <1>1 DEF IInv, Results, Arguments, Calculated
<1>3. PICK n \in Nat : /\ n = Len(ids[r])
                       /\ \A i \in 1..n : ids[r][i] \in Id /\ args[r][i].split = ids[r][i]
  BY <1>1, QueueHas
<1>4. ratios = [i \in 1..n |-> ratios[i]] /\ \A i \in 1..n : ratios[i] = ids[r][i]
  BY <1>2, <1>3
<1>5. load = Passing(r)
  <2>1. ASSUME NEW s \in load PROVE s \in Passing(r)
    <3>1. PICK i \in 1..n : s = args[r][i].split
      BY <1>2, <1>3
    <3>2. s = ids[r][i]
      BY <1>3, <3>1
    <3>q. QED BY <1>1, <1>3, <3>1, <3>2, QueueHas DEF Passing
  <2>2. ASSUME NEW s \in Passing(r) PROVE s \in load
    <3>1. s \in Id /\ On(r, s)
      BY DEF Passing
    <3>2. StageOf[r] <= stage
      <4>1. StageOf[r] \in 0..5
        BY QueuesAssumption DEF Stages
      <4>q. QED BY <1>1, <4>1
    <3>3. At(r, s)
      BY <1>1, <3>1, <3>2, QueueHas
    <3>4. PICK i \in 1..n : ids[r][i] = s
      BY <1>3, <3>3 DEF At
    <3>5. args[r][i].split = s
      BY <1>3, <3>4
    <3>q. QED BY <1>2, <1>3, <3>5
  <2> HIDE DEF load
  <2>q. QED BY <2>1, <2>2
<1>6. /\ rho' = [rho EXCEPT ![r] = rho[r] \o ratios]
      /\ lat' = [lat EXCEPT ![r] = lat[r] \o [x \in 1..Len(rho'[r]) |->
                   [split |-> args[r][x].split, rho |-> rho'[r][x], load |-> load]]]
  <2>1. ME_model(r)
    BY DEF Serve
  <2>2. rho' = [rho EXCEPT ![r] = rho[r] \o ratios]
    BY <2>1 DEF ME_model
  <2>3. lat' = [lat EXCEPT ![r] = lat[r] \o [x \in 1..Len(rho'[r]) |->
                   [split |-> args[r][x].split, rho |-> rho'[r][x], load |-> load]]]
    BY <2>1 DEF ME_model
  <2>q. QED BY <2>2, <2>3
<1> HIDE DEF load, ratios
<1>7. PICK ratio : ratio = ratios
  OBVIOUS
<1>8. /\ ratio \in Seq(Id) /\ Len(ratio) = n /\ \A i \in 1..n : ratio[i] = ids[r][i]
  <2>1. ratio = [i \in 1..n |-> ratio[i]] /\ \A i \in 1..n : ratio[i] = ids[r][i]
    BY <1>4, <1>7
  <2>2. \A i \in 1..n : ratio[i] \in Id
    BY <1>3, <2>1
  <2>q. QED BY <2>1, <2>2, SequenceOf
<1>9. rho'[r] = ratio /\ rho' = [rho EXCEPT ![r] = ratio]
  <2>1. rho[r] \o ratios = ratio
    <3>1. <<>> \o ratio = ratio
      BY <1>8
    <3>q. QED BY <1>2, <1>7, <3>1
  <2>2. rho' = [rho EXCEPT ![r] = ratio]
    BY <1>6, <2>1
  <2>q. QED BY <1>1, <2>2
<1> DEFINE outcome(x) == [split |-> args[r][x].split, rho |-> ratio[x], load |-> load]
<1>10. PICK latency : latency = [x \in 1..n |-> outcome(x)]
  OBVIOUS
<1>11. lat' = [lat EXCEPT ![r] = lat[r] \o latency]
  <2>1. [x \in 1..Len(rho'[r]) |->
           [split |-> args[r][x].split, rho |-> rho'[r][x], load |-> load]] = latency
    BY <1>8, <1>9, <1>10
  <2>q. QED BY <1>6, <2>1
<1>12. ASSUME NEW i \in 1..n
       PROVE  /\ latency[i] \in Result
              /\ latency[i].split = ids[r][i] /\ latency[i].rho = ids[r][i]
              /\ latency[i].load = Passing(r)
  <2>1. PICK d : d = latency[i]
    OBVIOUS
  <2>2. d = [split |-> ids[r][i], rho |-> ids[r][i], load |-> Passing(r)]
    BY <1>3, <1>5, <1>8, <1>10, <2>1
  <2>3. ids[r][i] \in Id /\ Passing(r) \in SUBSET Id
    BY <1>3 DEF Passing
  <2>4. d \in Result
    BY <2>2, <2>3 DEF Result
  <2>5. d.split = ids[r][i] /\ d.rho = ids[r][i] /\ d.load = Passing(r)
    BY <2>2
  <2>q. QED BY <2>1, <2>4, <2>5
<1>13. latency \in Seq(Result) /\ Len(latency) = n
  <2>1. latency = [i \in 1..n |-> latency[i]]
    <3> HIDE DEF outcome
    <3>q. QED BY <1>10
  <2>q. QED BY <1>12, <2>1, SequenceOf
<1>14. lat'[r] = latency /\ lat' = [lat EXCEPT ![r] = latency]
  <2>1. <<>> \o latency = latency
    BY <1>13
  <2>2. lat' = [lat EXCEPT ![r] = latency]
    BY <1>2, <1>11, <2>1
  <2>q. QED BY <1>1, <2>2
<1>15. rho' \in [Queues -> Seq(Id)] /\ lat' \in [Queues -> Seq(Result)]
  BY <1>1, <1>8, <1>9, <1>13, <1>14
<1>16. \A q \in Queues : q # r => rho'[q] = rho[q] /\ lat'[q] = lat[q]
  BY <1>1, <1>9, <1>14
<1>q. QED BY <1>3, <1>8, <1>9, <1>12, <1>13, <1>14, <1>15, <1>16

LEMMA ServeIInv == ASSUME IInv, NEW r \in Queues, Serve(r) PROVE IInv'
PROOF
<1>1. /\ phase = "stages" /\ StageOf[r] = stage /\ r \notin served
      /\ served' = served \cup {r}
      /\ UNCHANGED <<window, phase, stage, files, line, flows, splits, corr, rows>>
  BY ServeState
<1>2. /\ Id' = Id /\ stage \in 0..5 /\ \A q \in Queues : StageOf[q] \in 0..5
      /\ served \subseteq Queues
  BY <1>1, QueuesAssumption DEF Id, IInv, TypeOK, Stages
<1>3. TypeOK'
  <2>1. ids' \in [Queues -> Seq(Id)]
    BY ServeTypes
  <2>2. args' \in [Queues -> Seq([split : Id, share : Id, from : Queues \cup {NoQueue}])]
    <3>1. args' \in [Queues -> Seq(Argument)]
      BY ServeTypes
    <3>q. QED BY <3>1 DEF Argument
  <2>3. rho' \in [Queues -> Seq(Id)]
    BY ServeResults
  <2>4. lat' \in [Queues -> Seq([split : Id, rho : Id, load : SUBSET Id])]
    <3>1. lat' \in [Queues -> Seq(Result)]
      BY ServeResults
    <3>q. QED BY <3>1 DEF Result
  <2>5. served' \subseteq Queues
    BY <1>1, <1>2
  <2>q. QED BY <1>1, <1>2, <2>1, <2>2, <2>3, <2>4, <2>5 DEF IInv, TypeOK
<1>4. (Routed /\ Opened /\ Reading /\ Corrections)'
  BY <1>1, <1>2 DEF IInv, Routed, Opened, Reading, Corrections
<1>5. Arguments'
  <2>1. \A q \in Queues :
          /\ Len(args'[q]) = Len(ids'[q])
          /\ \A i \in 1..Len(ids'[q]) :
               /\ args'[q][i].split = ids'[q][i] /\ args'[q][i].share = ids'[q][i]
               /\ args'[q][i].from = Before(q, ids'[q][i])
    BY ServeArguments
  <2>q. QED BY <1>1, <2>1 DEF Arguments, Before
<1>6. Places'
  <2>1. ASSUME NEW q \in Queues
        PROVE  /\ \A i, j \in 1..Len(ids'[q]) : ids'[q][i] = ids'[q][j] => i = j
               /\ \A s \in Id : (\E i \in 1..Len(ids'[q]) : ids'[q][i] = s)
                     <=> On(q, s) /\ (StageOf[q] = 0 \/ Before(q, s) \in served')
               /\ \A s \in Id : At(q, s) => \E i \in 1..Len(ids'[q]) : ids'[q][i] = s
    <3>1. /\ OneEach(ids'[q])
          /\ \A s \in Id : (\E i \in 1..Len(ids'[q]) : ids'[q][i] = s)
                           <=> At(q, s) \/ (On(q, s) /\ StageOf[q] # 0 /\ Before(q, s) = r)
      BY ServeArrivals
    <3>2. \A s \in Id : At(q, s) <=> On(q, s) /\ (StageOf[q] = 0 \/ Before(q, s) \in served)
      BY <1>1 DEF IInv, Places, Calculated, Due, Before
    <3>q. QED BY <1>1, <3>1, <3>2 DEF OneEach
  <2>2. \A s \in Id : \A k \in 0..stage :
          splits[s].route[k] # NoQueue
          => \E i \in 1..Len(ids'[splits[s].route[k]]) : ids'[splits[s].route[k]][i] = s
    <3>1. ASSUME NEW s \in Id, NEW k \in 0..stage, splits[s].route[k] # NoQueue
          PROVE  \E i \in 1..Len(ids'[splits[s].route[k]]) : ids'[splits[s].route[k]][i] = s
      <4>1. PICK q : q = splits[s].route[k]
        OBVIOUS
      <4>2. At(q, s)
        BY <1>1, <3>1, <4>1 DEF IInv, Places, Calculated
      <4>3. q \in Queues
        <5>1. k \in Stages /\ IsRoute(splits[s].route)
          BY <1>2 DEF IInv, Routed, Stages
        <5>q. QED BY <3>1, <4>1, <5>1 DEF IsRoute
      <4>q. QED BY <2>1, <4>1, <4>2, <4>3
    <3>q. QED BY <3>1
  <2>q. QED BY <1>1, <1>2, <2>1, <2>2 DEF Places, Once, At, Due, On, Before
<1>7. ServedInOrder'
  <2>1. \A q \in served' : StageOf[q] <= stage
    BY <1>1, <1>2 DEF IInv, ServedInOrder, Calculated
  <2>2. ASSUME NEW q \in Queues, StageOf[q] < stage, ids'[q] # <<>> PROVE q \in served'
    <3>1. ids'[q] = ids[q]
      BY <1>2, <2>2, ServeKeeps
    <3>q. QED BY <1>1, <2>2, <3>1 DEF IInv, ServedInOrder, Calculated
  <2>q. QED BY <1>1, <2>1, <2>2 DEF ServedInOrder
<1>8. Results'
  <2>1. ASSUME NEW q \in Queues
        PROVE  /\ q \notin served' => rho'[q] = <<>> /\ lat'[q] = <<>>
               /\ q \in served' =>
                    /\ Len(rho'[q]) = Len(ids'[q]) /\ Len(lat'[q]) = Len(ids'[q])
                    /\ \A i \in 1..Len(ids'[q]) :
                         /\ lat'[q][i].split = ids'[q][i] /\ lat'[q][i].rho = ids'[q][i]
                         /\ lat'[q][i].load = Passing(q)
    <3>1. CASE q = r
      <4>1. ids'[r] = ids[r]
        BY <1>1, <1>2, ServeKeeps
      <4>q. QED BY <1>1, <3>1, <4>1, ServeResults
    <3>2. CASE q # r
      <4>1. rho'[q] = rho[q] /\ lat'[q] = lat[q] /\ (q \in served' <=> q \in served)
        BY <1>1, <3>2, ServeResults
      <4>2. CASE q \in served
        <5>1. StageOf[q] <= stage
          BY <1>1, <4>2 DEF IInv, ServedInOrder, Calculated
        <5>2. ids'[q] = ids[q]
          BY <5>1, ServeKeeps
        <5>q. QED BY <1>1, <4>1, <4>2, <5>2 DEF IInv, Results, Calculated
      <4>3. CASE q \notin served
        BY <1>1, <4>1, <4>3 DEF IInv, Results, Calculated
      <4>q. QED BY <4>2, <4>3
    <3>q. QED BY <3>1, <3>2
  <2>2. \A q \in Queues : Passing(q)' = Passing(q)
    BY <1>1, <1>2 DEF Passing, On
  <2>q. QED BY <2>1, <2>2 DEF Results
<1>q. QED BY <1>3, <1>4, <1>5, <1>6, <1>7, <1>8 DEF IInv

-------------------------------------------------------------------------------
(* The invariant holds throughout, and what follows from it.               *)

LEMMA NextIInv == ASSUME IInv, [Next]_vars PROVE IInv'
PROOF
<1>1. CASE UNCHANGED vars
  <2>1. UNCHANGED <<window, phase, stage, served, files, line, flows, splits,
                    ids, args, rho, lat, corr, rows>>
    BY <1>1 DEF vars, vectors
  <2>2. Id' = Id
    BY <2>1 DEF Id
  <2>3. TypeOK'
    BY <2>1, <2>2 DEF IInv, TypeOK
  <2>4. (Routed /\ Opened)'
    BY <2>1, <2>2 DEF IInv, Routed, Opened
  <2>5. (Reading /\ Places)'
    BY <2>1, <2>2 DEF IInv, Reading, Places, Once, At, Due, On, Calculated
  <2>6. (Arguments /\ ServedInOrder)'
    BY <2>1 DEF IInv, Arguments, ServedInOrder, Calculated
  <2>7. (Results /\ Corrections)'
    BY <2>1, <2>2 DEF IInv, Results, Corrections, Passing, On, SplitsOf, Calculated
  <2>q. QED BY <2>3, <2>4, <2>5, <2>6, <2>7 DEF IInv
<1>2. CASE Next
  BY <1>2, OpenWindowIInv, ReadLineIInv, ArrivalsIInv, ServeIInv, NextStageIInv,
     CorrectIInv, ReportIInv DEF Next
<1>q. QED BY <1>1, <1>2

(***************************************************************************)
(* While a window is calculated every split is at the queues of its route  *)
(* that its departures have reached and nowhere else, once at each, and    *)
(* the vectors of every queue are in step.                                 *)
(***************************************************************************)
THEOREM LoopInvariant == Spec => []IInv
PROOF
<1>1. Init => IInv
  BY InitIInv
<1>2. IInv /\ [Next]_vars => IInv'
  BY NextIInv
<1>q. QED BY <1>1, <1>2, PTL DEF Spec

(***************************************************************************)
(* The variables of the window loop keep their types.                      *)
(***************************************************************************)
THEOREM TypeCorrect == Spec => []TypeOK
PROOF
<1>1. IInv => TypeOK
  BY DEF IInv
<1>q. QED BY <1>1, LoopInvariant, PTL

(***************************************************************************)
(* The vectors of a queue, filled by different functions, hold the values  *)
(* of one split at each position, and a computed queue has a result for    *)
(* each of its splits.                                                     *)
(***************************************************************************)
THEOREM StaysInStep == Spec => []VectorsInStep
PROOF
<1>1. IInv => VectorsInStep
  BY DEF IInv, Arguments, Results, Calculated, VectorsInStep
<1>q. QED BY <1>1, LoopInvariant, PTL

Where(e, s) == {i \in 1..Len(e) : e[i] = s}

LEMMA OnePlace ==
  ASSUME NEW e, OneEach(e), NEW s
  PROVE  Cardinality(Where(e, s)) = IF \E i \in 1..Len(e) : e[i] = s THEN 1 ELSE 0
PROOF
<1>1. CASE \E i \in 1..Len(e) : e[i] = s
  <2>1. PICK i \in 1..Len(e) : e[i] = s
    BY <1>1
  <2>2. Where(e, s) = {i}
    BY <2>1 DEF OneEach, Where
  <2>3. Cardinality({i}) = 1
    BY FS_Singleton
  <2>q. QED BY <1>1, <2>2, <2>3
<1>2. CASE ~\E i \in 1..Len(e) : e[i] = s
  <2>1. Where(e, s) = {}
    BY <1>2 DEF Where
  <2>q. QED BY <1>2, <2>1, FS_EmptySet
<1>q. QED BY <1>1, <1>2

(***************************************************************************)
(* A split is at a queue of its route once when the queue before has been  *)
(* computed, and not at all otherwise; its arrivals come from that queue.  *)
(***************************************************************************)
THEOREM RoutesAreFollowed == Spec => []SplitsFollowTheirRoutes
PROOF
<1>1. ASSUME IInv PROVE SplitsFollowTheirRoutes
  <2>1. SUFFICES ASSUME Calculated, NEW q \in Queues, NEW s \in Id
                 PROVE  LET k == StageOf[q]
                            here == {i \in 1..Len(ids[q]) : ids[q][i] = s}
                            previous == Previous(splits[s].route, k)
                            due == splits[s].route[k] = q /\ (k = 0 \/ previous \in served)
                        IN  /\ Cardinality(here) = (IF due THEN 1 ELSE 0)
                            /\ \A i \in here : args[q][i].from = previous
    BY DEF SplitsFollowTheirRoutes, Calculated
  <2>2. OneEach(ids[q]) /\ (At(q, s) <=> Due(q, s))
    BY <1>1, <2>1 DEF IInv, Places, Once, OneEach
  <2>3. Cardinality({i \in 1..Len(ids[q]) : ids[q][i] = s}) = IF Due(q, s) THEN 1 ELSE 0
    <3>1. PICK e : e = ids[q]
      OBVIOUS
    <3>2. Cardinality(Where(e, s)) = IF \E i \in 1..Len(e) : e[i] = s THEN 1 ELSE 0
      BY <2>2, <3>1, OnePlace
    <3>3. Where(e, s) = {i \in 1..Len(ids[q]) : ids[q][i] = s}
      BY <3>1 DEF Where
    <3>4. (\E i \in 1..Len(e) : e[i] = s) <=> Due(q, s)
      BY <2>2, <3>1 DEF At
    <3>q. QED BY <3>2, <3>3, <3>4
  <2>4. \A i \in 1..Len(ids[q]) :
          ids[q][i] = s => args[q][i].from = Previous(splits[s].route, StageOf[q])
    BY <1>1, <2>1 DEF IInv, Arguments
  <2>q. QED BY <2>3, <2>4 DEF Due, On
<1>2. IInv => SplitsFollowTheirRoutes
  BY <1>1
<1>q. QED BY <1>2, LoopInvariant, PTL

(***************************************************************************)
(* The latency of a flow adds up, for each split and each queue of its     *)
(* route but the hosts', the split's own result with the correction of the *)
(* flow, both of all the splits that pass the queue.                       *)
(***************************************************************************)
THEOREM LatencyAddsUp == Spec => []LatencyIsOfItsRoute
PROOF
<1>1. ASSUME IInv, phase = "report", NEW s \in Id, NEW k \in 1..5,
             splits[s].route[k] # NoQueue
      PROVE  Expected(s, splits[s].route[k])
  <2>1. PICK q : q = splits[s].route[k]
    OBVIOUS
  <2>2. q \in Queues /\ StageOf[q] = k /\ On(q, s)
    BY <1>1, <2>1 DEF IInv, Routed, IsRoute, On, Stages
  <2>3. At(q, s) /\ Calculated
    BY <1>1, <2>2, AtIsOn DEF Calculated
  <2>4. /\ OneEach(ids[q]) /\ q \in served
        /\ \A i \in 1..Len(ids[q]) :
             /\ lat[q][i].split = ids[q][i] /\ lat[q][i].load = Passing(q)
             /\ corr[q][i].flow = splits[ids[q][i]].flow
             /\ corr[q][i].features = {r \in SplitsOf(splits[ids[q][i]].flow) : On(q, r)}
    <3>1. OneEach(ids[q])
      BY <1>1, <2>2, <2>3 DEF IInv, Places, Once, OneEach
    <3>2. ids[q] # <<>>
      BY <2>3 DEF At
    <3>3. q \in served
      BY <1>1, <2>2, <2>3, <3>2 DEF IInv, ServedInOrder
    <3>4. \A i \in 1..Len(ids[q]) :
            lat[q][i].split = ids[q][i] /\ lat[q][i].load = Passing(q)
      BY <1>1, <2>2, <2>3, <3>3 DEF IInv, Results
    <3>5. \A i \in 1..Len(ids[q]) :
            /\ corr[q][i].flow = splits[ids[q][i]].flow
            /\ corr[q][i].features = {r \in SplitsOf(splits[ids[q][i]].flow) : On(q, r)}
      BY <1>1, <2>2 DEF IInv, Corrections
    <3>q. QED BY <3>1, <3>3, <3>4, <3>5
  <2>5. PICK p : p = Position(q, s)
    OBVIOUS
  <2>6. p \in 1..Len(ids[q]) /\ ids[q][p] = s
    <3>1. PICK i \in 1..Len(ids[q]) : ids[q][i] = s
      BY <2>3 DEF At
    <3>2. Len(ids[q]) \in Nat
      <4>1. ids[q] \in Seq(Id)
        BY <1>1, <2>2 DEF IInv, TypeOK
      <4>q. QED BY <4>1, ElementsOf
    <3>3. \A j \in 1..i - 1 : ids[q][j] # s
      BY <2>4, <3>1, <3>2 DEF OneEach
    <3>4. \E i_1 \in 1..Len(ids[q]) : ids[q][i_1] = s /\ \A j \in 1..i_1 - 1 : ids[q][j] # s
      BY <3>1, <3>3
    <3>q. QED BY <2>5, <3>4 DEF Position
  <2> DEFINE term(r) == [queue |-> r, latency |-> lat[r][Position(r, s)],
                         correction |-> corr[r][Position(r, s)]]
             passed == {r \in {splits[s].route[i] : i \in 1..5} \ {NoQueue} :
                          \E i \in 1..Len(ids[r]) : ids[r][i] = s}
  <2>7. Terms(s) = {term(r) : r \in passed}
    BY DEF Terms
  <2>8. q \in passed
    BY <1>1, <2>1, <2>3 DEF At
  <2>9. \A r : term(r).queue = r
    OBVIOUS
  <2>10. term(q).latency = lat[q][p] /\ term(q).correction = corr[q][p]
    BY <2>5
  <2> HIDE DEF term, passed
  <2>11. \A t \in Terms(s) : t.queue = q => t = term(q)
    BY <2>7, <2>9
  <2>12. \E t \in Terms(s) : t.queue = q
    BY <2>7, <2>8, <2>9
  <2>13. Passing(q) = {r \in Id : splits[r].route[StageOf[q]] = q}
    BY DEF Passing, On
  <2>14. {r \in SplitsOf(splits[s].flow) : On(q, r)}
           = {r \in SplitsOf(splits[s].flow) : splits[r].route[StageOf[q]] = q}
    BY DEF On
  <2>15. /\ lat[q][p].split = s /\ lat[q][p].load = Passing(q)
         /\ corr[q][p].flow = splits[s].flow
         /\ corr[q][p].features = {r \in SplitsOf(splits[s].flow) : On(q, r)}
    BY <2>4, <2>6
  <2>16. Expected(s, q)
    BY <2>10, <2>11, <2>12, <2>13, <2>14, <2>15 DEF Expected
  <2>q. QED BY <2>1, <2>16
<1>2. IInv => LatencyIsOfItsRoute
  BY <1>1 DEF LatencyIsOfItsRoute
<1>q. QED BY <1>2, LoopInvariant, PTL

(***************************************************************************)
(* Within a window nothing arrives at a queue that has been computed: the  *)
(* next queues of a route belong to later stages.                          *)
(***************************************************************************)
THEOREM NoLateArrivals == Spec => NothingArrivesLate
PROOF
<1>1. ASSUME IInv, [Next]_vars, phase # "load", NEW q \in served
      PROVE  ids'[q] = ids[q] /\ args'[q] = args[q]
  <2>1. q \in Queues
    BY <1>1 DEF IInv, TypeOK
  <2>2. CASE UNCHANGED vars
    BY <2>2 DEF vars, vectors
  <2>3. ASSUME NEW file \in Files, OpenWindow(file) PROVE FALSE
    BY <1>1, <2>3 DEF OpenWindow
  <2>4. phase # "read"
    BY <1>1 DEF IInv, Reading
  <2>5. ~ReadLine /\ ~Arrivals
    BY <2>4 DEF ReadLine, Arrivals
  <2>6. ASSUME NEW r \in Queues, Serve(r) PROVE ids'[q] = ids[q] /\ args'[q] = args[q]
    <3>1. phase = "stages"
      BY <1>1, <2>6, ServeState
    <3>2. StageOf[q] <= stage
      BY <1>1, <3>1 DEF IInv, ServedInOrder, Calculated
    <3>q. QED BY <1>1, <2>1, <2>6, <3>2, ServeKeeps
  <2>7. CASE NextStage
    BY <2>7 DEF NextStage, vectors
  <2>8. CASE Correct
    BY <2>8 DEF Correct
  <2>9. CASE Report
    BY <2>9 DEF Report, vectors
  <2>q. QED BY <1>1, <2>2, <2>3, <2>5, <2>6, <2>7, <2>8, <2>9 DEF Next
<1>2. IInv /\ [Next]_vars
      => [phase # "load" => \A q \in served : ids'[q] = ids[q] /\ args'[q] = args[q]]_vars
  BY <1>1
<1>q. QED BY <1>2, LoopInvariant, PTL DEF Spec, NothingArrivesLate

===============================================================================

----------------------------- MODULE RoutingProofs ----------------------------
(***************************************************************************)
(* Theorems about the routing tables, for the fat tree with any even K and *)
(* the two-level tree of any even K and any N: the splits that route()     *)
(* pushes for a pair of hosts are exactly the shortest walks between them, *)
(* each queue at the stage of its type, and those of the way back mirror   *)
(* them.                                                                   *)
(*                                                                         *)
(* The reference is recursive in the distance, and no host is more than    *)
(* six links from another, so that it is unfolded six times instead of     *)
(* proving an induction.  The proof has four parts.                        *)
(*                                                                         *)
(*   1. Walks and paths, whatever the graph: a walk of n queues goes one   *)
(*      sphere closer with each (TwoSteps, FourSteps, SixSteps), a split   *)
(*      stands for the walk of the stages it uses (PathTwo...), and where  *)
(*      links have two directions each walk has one that mirrors it        *)
(*      (TwoMirror, FourMirror, SixMirror).                                *)
(*   2. The fat tree: where each port leads to (FatHop), hence the devices *)
(*      at each distance of a host (FatSpheres), hence that the loops of   *)
(*      FattreeL3::route find the walks into these spheres (FatRoutes).    *)
(*   3. The two-level tree in the same steps.  Integer division decides    *)
(*      how many ports there are to link (CustomSizes) and which hosts     *)
(*      stay without a link (CustomUnreached).                             *)
(*   4. The inductive invariant of route(): the last flow pushed is that   *)
(*      of two hosts of the tree, with the splits found for them.          *)
(*                                                                         *)
(* At the end the splits are counted, by numbering what the searches find. *)
(***************************************************************************)
EXTENDS Routing, FiniteSetTheorems, SequenceTheorems, TLAPS

-------------------------------------------------------------------------------
(* Quotients and remainders.                                               *)

LEMMA Division ==
  ASSUME NEW l \in Nat, NEW m \in Nat \ {0}
  PROVE  l \div m \in Nat /\ l % m \in 0..m - 1 /\ l = (l % m) + (l \div m) * m
OBVIOUS

LEMMA Smaller ==
  ASSUME NEW m \in Nat \ {0}, NEW e \in Nat, NEW f \in Nat, e < f
  PROVE  e * m + m <= f * m
PROOF
<1>1. e + 1 <= f
  OBVIOUS
<1>2. (e + 1) * m <= f * m
  BY <1>1
<1>q. QED BY <1>2

LEMMA Digits ==
  ASSUME NEW m \in Nat \ {0}, NEW e \in Nat, NEW n \in 0..m - 1,
         NEW f \in Nat, NEW k \in 0..m - 1, n + e * m = k + f * m
  PROVE  n = k /\ e = f
PROOF
<1>1. ~(e < f) /\ ~(f < e)
  BY Smaller
<1>q. QED BY <1>1

LEMMA Quotient ==
  ASSUME NEW m \in Nat \ {0}, NEW e \in Nat, NEW n \in 0..m - 1
  PROVE  n + e * m \in Nat /\ (n + e * m) \div m = e /\ (n + e * m) % m = n
PROOF
<1>1. n + e * m \in Nat
  OBVIOUS
<1>q. QED BY <1>1, Division, Digits

\* A number of two digits, the higher one below k.
LEMMA Below ==
  ASSUME NEW m \in Nat \ {0}, NEW k \in Nat, NEW l \in Nat
  PROVE  l < k * m <=> l \div m < k
PROOF
<1>1. l \div m \in Nat /\ l % m \in 0..m - 1 /\ l = (l % m) + (l \div m) * m
  BY Division
<1>2. CASE l \div m < k
  <2>1. (l \div m) * m + m <= k * m
    BY <1>1, <1>2, Smaller
  <2>q. QED BY <1>1, <1>2, <2>1
<1>3. CASE ~(l \div m < k)
  <2>1. k * m <= (l \div m) * m
    BY <1>1, <1>3, Smaller
  <2>q. QED BY <1>1, <1>3, <2>1
<1>q. QED BY <1>2, <1>3

-------------------------------------------------------------------------------
(* The reference, unfolded.                                                *)

LEMMA SphereSteps ==
  ASSUME NEW d
  PROVE  /\ Spheres(d)[0] = {d}
         /\ \A n \in 1..6 : Spheres(d)[n] = Behind(Spheres(d)[n - 1])
PROOF
<1> DEFINE s1 == Behind({d})
           s2 == Behind(s1)
           s3 == Behind(s2)
           s4 == Behind(s3)
           s5 == Behind(s4)
           s6 == Behind(s5)
           Is(f) == f = [n \in 0..6 |-> IF n = 0 THEN {d} ELSE Behind(f[n - 1])]
           g == [n \in 0..6 |-> <<{d}, s1, s2, s3, s4, s5, s6>>[n + 1]]
<1>1. Is(g)
  <2>1. /\ g[0] = {d} /\ g[1] = Behind(g[0]) /\ g[2] = Behind(g[1]) /\ g[3] = Behind(g[2])
        /\ g[4] = Behind(g[3]) /\ g[5] = Behind(g[4]) /\ g[6] = Behind(g[5])
    OBVIOUS
  <2> HIDE DEF s1, s2, s3, s4, s5, s6
  <2>2. g = [n \in 0..6 |-> g[n]]
    OBVIOUS
  <2> HIDE DEF g
  <2>3. \A n \in 0..6 : g[n] = IF n = 0 THEN {d} ELSE Behind(g[n - 1])
    BY <2>1
  <2>q. QED BY <2>2, <2>3
<1> HIDE DEF g
<1>2. Spheres(d) = CHOOSE f : Is(f)
  BY DEF Spheres
<1>3. PICK f : f = Spheres(d)
  OBVIOUS
<1>4. Is(f)
  <2> HIDE DEF Is
  <2>q. QED BY <1>1, <1>2, <1>3
<1>5. \A n \in 0..6 : f[n] = IF n = 0 THEN {d} ELSE Behind(f[n - 1])
  BY <1>4
<1>q. QED BY <1>3, <1>5

LEMMA WalkSteps ==
  ASSUME NEW spheres, NEW c, NEW length \in 1..6
  PROVE  \E walks : /\ walks[length] = WalksInto(spheres, c, length)
                    /\ walks[1] = {<<HostPort(c)>>}
                    /\ \A n \in 2..length :
                         walks[n] = Onward(walks[n - 1], spheres[length - n])
PROOF
<1> DEFINE w1 == {<<HostPort(c)>>}
           w2 == Onward(w1, spheres[length - 2])
           w3 == Onward(w2, spheres[length - 3])
           w4 == Onward(w3, spheres[length - 4])
           w5 == Onward(w4, spheres[length - 5])
           w6 == Onward(w5, spheres[length - 6])
           Is(f) == f = [n \in 1..length |-> IF n = 1 THEN {<<HostPort(c)>>}
                                             ELSE Onward(f[n - 1], spheres[length - n])]
           all == <<w1, w2, w3, w4, w5, w6>>
           g == [n \in 1..length |-> all[n]]
<1>1. Is(g)
  <2>1. /\ all[1] = {<<HostPort(c)>>}
        /\ all[2] = Onward(all[1], spheres[length - 2])
        /\ all[3] = Onward(all[2], spheres[length - 3])
        /\ all[4] = Onward(all[3], spheres[length - 4])
        /\ all[5] = Onward(all[4], spheres[length - 5])
        /\ all[6] = Onward(all[5], spheres[length - 6])
    OBVIOUS
  <2> HIDE DEF all
  <2>2. \A n \in 1..length : g[n] = all[n]
    OBVIOUS
  <2>3. g = [n \in 1..length |-> g[n]]
    OBVIOUS
  <2> HIDE DEF g
  <2>4. \A n \in 2..length : all[n] = Onward(all[n - 1], spheres[length - n])
    BY <2>1
  <2>5. \A n \in 1..length :
          g[n] = IF n = 1 THEN {<<HostPort(c)>>} ELSE Onward(g[n - 1], spheres[length - n])
    <3>1. ASSUME NEW n \in 1..length, n # 1
          PROVE  g[n] = Onward(g[n - 1], spheres[length - n])
      <4>1. n \in 2..length /\ n - 1 \in 1..length
        BY <3>1
      <4>q. QED BY <2>2, <2>4, <4>1
    <3>2. g[1] = {<<HostPort(c)>>}
      BY <2>1, <2>2
    <3>q. QED BY <3>1, <3>2
  <2>q. QED BY <2>3, <2>5
<1> HIDE DEF g
<1>2. PICK f : f = CHOOSE h : Is(h)
  OBVIOUS
<1>3. Is(f)
  <2> HIDE DEF Is
  <2>q. QED BY <1>1, <1>2
<1>4. f[length] = WalksInto(spheres, c, length)
  BY <1>2 DEF WalksInto
<1>5. \A n \in 1..length : f[n] = IF n = 1 THEN {<<HostPort(c)>>}
                                  ELSE Onward(f[n - 1], spheres[length - n])
  BY <1>3
<1>6. f[1] = {<<HostPort(c)>>}
  BY <1>5
<1>7. \A n \in 2..length : f[n] = Onward(f[n - 1], spheres[length - n])
  BY <1>5
<1>q. QED BY <1>4, <1>6, <1>7

\* The queues that lead on from a queue to given devices.
Towards(q, targets) == {p \in Ports(NextDevice(q)) : NextDevice(p) \in targets}

LEMMA OneStep ==
  ASSUME NEW walks, NEW targets, NEW w
  PROVE  w \in Onward(walks, targets) <=>
           \E v \in walks : \E q \in Towards(v[Len(v)], targets) : w = Append(v, q)
BY DEF Onward, Towards

LEMMA Appended ==
  ASSUME NEW S, NEW s \in Seq(S), NEW t \in Seq(S), NEW x \in S, Len(t) = Len(s) + 1,
         \A i \in 1..Len(s) : t[i] = s[i], t[Len(t)] = x
  PROVE  Append(s, x) = t
PROOF
<1>1. /\ Append(s, x) \in Seq(S) /\ Len(Append(s, x)) = Len(s) + 1
      /\ Append(s, x)[Len(s) + 1] = x
      /\ \A i \in 1..Len(s) : Append(s, x)[i] = s[i]
  BY AppendProperties
<1>2. \A i \in 1..Len(t) : Append(s, x)[i] = t[i]
  BY <1>1
<1>q. QED BY <1>1, <1>2, SeqEqual

LEMMA Longer ==
  /\ \A a, b : Append(<<a>>, b) = <<a, b>>
  /\ \A a, b, c : Append(<<a, b>>, c) = <<a, b, c>>
  /\ \A a, b, c, d : Append(<<a, b, c>>, d) = <<a, b, c, d>>
  /\ \A a, b, c, d, e : Append(<<a, b, c, d>>, e) = <<a, b, c, d, e>>
  /\ \A a, b, c, d, e, f : Append(<<a, b, c, d, e>>, f) = <<a, b, c, d, e, f>>
PROOF
<1>1. ASSUME NEW a, NEW b PROVE Append(<<a>>, b) = <<a, b>>
  <2> DEFINE S == {a, b}
             s == <<a>>
             t == <<a, b>>
  <2>1. s \in Seq(S) /\ t \in Seq(S) /\ b \in S /\ Len(s) = 1 /\ Len(t) = 2
    OBVIOUS
  <2>2. (\A i \in 1..1 : t[i] = s[i]) /\ t[2] = b
    OBVIOUS
  <2> HIDE DEF S, s, t
  <2>3. /\ Len(t) = Len(s) + 1 /\ t[Len(t)] = b
        /\ \A i \in 1..Len(s) : t[i] = s[i]
    BY <2>1, <2>2
  <2>4. Append(s, b) = t
    BY <2>1, <2>3, Appended
  <2>q. QED BY <2>4 DEF s, t
<1>2. ASSUME NEW a, NEW b, NEW c PROVE Append(<<a, b>>, c) = <<a, b, c>>
  <2> DEFINE S == {a, b, c}
             s == <<a, b>>
             t == <<a, b, c>>
  <2>1. s \in Seq(S) /\ t \in Seq(S) /\ c \in S /\ Len(s) = 2 /\ Len(t) = 3
    OBVIOUS
  <2>2. (\A i \in 1..2 : t[i] = s[i]) /\ t[3] = c
    OBVIOUS
  <2> HIDE DEF S, s, t
  <2>3. /\ Len(t) = Len(s) + 1 /\ t[Len(t)] = c
        /\ \A i \in 1..Len(s) : t[i] = s[i]
    BY <2>1, <2>2
  <2>4. Append(s, c) = t
    BY <2>1, <2>3, Appended
  <2>q. QED BY <2>4 DEF s, t
<1>3. ASSUME NEW a, NEW b, NEW c, NEW d PROVE Append(<<a, b, c>>, d) = <<a, b, c, d>>
  <2> DEFINE S == {a, b, c, d}
             s == <<a, b, c>>
             t == <<a, b, c, d>>
  <2>1. s \in Seq(S) /\ t \in Seq(S) /\ d \in S /\ Len(s) = 3 /\ Len(t) = 4
    OBVIOUS
  <2>2. (\A i \in 1..3 : t[i] = s[i]) /\ t[4] = d
    OBVIOUS
  <2> HIDE DEF S, s, t
  <2>3. /\ Len(t) = Len(s) + 1 /\ t[Len(t)] = d
        /\ \A i \in 1..Len(s) : t[i] = s[i]
    BY <2>1, <2>2
  <2>4. Append(s, d) = t
    BY <2>1, <2>3, Appended
  <2>q. QED BY <2>4 DEF s, t
<1>4. ASSUME NEW a, NEW b, NEW c, NEW d, NEW e PROVE Append(<<a, b, c, d>>, e) = <<a, b, c, d, e>>
  <2> DEFINE S == {a, b, c, d, e}
             s == <<a, b, c, d>>
             t == <<a, b, c, d, e>>
  <2>1. s \in Seq(S) /\ t \in Seq(S) /\ e \in S /\ Len(s) = 4 /\ Len(t) = 5
    OBVIOUS
  <2>2. (\A i \in 1..4 : t[i] = s[i]) /\ t[5] = e
    OBVIOUS
  <2> HIDE DEF S, s, t
  <2>3. /\ Len(t) = Len(s) + 1 /\ t[Len(t)] = e
        /\ \A i \in 1..Len(s) : t[i] = s[i]
    BY <2>1, <2>2
  <2>4. Append(s, e) = t
    BY <2>1, <2>3, Appended
  <2>q. QED BY <2>4 DEF s, t
<1>5. ASSUME NEW a, NEW b, NEW c, NEW d, NEW e, NEW f
      PROVE Append(<<a, b, c, d, e>>, f) = <<a, b, c, d, e, f>>
  <2> DEFINE S == {a, b, c, d, e, f}
             s == <<a, b, c, d, e>>
             t == <<a, b, c, d, e, f>>
  <2>1. s \in Seq(S) /\ t \in Seq(S) /\ f \in S /\ Len(s) = 5 /\ Len(t) = 6
    OBVIOUS
  <2>2. (\A i \in 1..5 : t[i] = s[i]) /\ t[6] = f
    OBVIOUS
  <2> HIDE DEF S, s, t
  <2>3. /\ Len(t) = Len(s) + 1 /\ t[Len(t)] = f
        /\ \A i \in 1..Len(s) : t[i] = s[i]
    BY <2>1, <2>2
  <2>4. Append(s, f) = t
    BY <2>1, <2>3, Appended
  <2>q. QED BY <2>4 DEF s, t
<1>q. QED BY <1>1, <1>2, <1>3, <1>4, <1>5

LEMMA Lasts ==
  /\ \A a : <<a>>[Len(<<a>>)] = a
  /\ \A a, b : <<a, b>>[Len(<<a, b>>)] = b
  /\ \A a, b, c : <<a, b, c>>[Len(<<a, b, c>>)] = c
  /\ \A a, b, c, d : <<a, b, c, d>>[Len(<<a, b, c, d>>)] = d
  /\ \A a, b, c, d, e : <<a, b, c, d, e>>[Len(<<a, b, c, d, e>>)] = e
OBVIOUS

\* Walks of n - 1 queues that start with a and have gone on to given targets go
\* on to the next ones.
LEMMA SecondStep ==
  ASSUME NEW a, NEW walks, NEW T2,
         \A v : v \in walks <=> v = <<a>>
  PROVE  \A v : v \in Onward(walks, T2) <=>
           \E p \in Towards(a, T2) :
             v = <<a, p>>
PROOF
<1>1. ASSUME NEW v \in Onward(walks, T2)
      PROVE
        \E p \in Towards(a, T2) :
          v = <<a, p>>
  <2>1. PICK x \in walks : \E p \in Towards(x[Len(x)], T2) : v = Append(x, p)
    BY OneStep
  <2>2. PICK p \in Towards(x[Len(x)], T2) : v = Append(x, p)
    BY <2>1
  <2>3. x[Len(x)] = a /\ v = <<a, p>>
    BY <2>2, Lasts, Longer
  <2>q. QED BY <2>2, <2>3
<1>2. ASSUME NEW p \in Towards(a, T2)
      PROVE  <<a, p>> \in Onward(walks, T2)
  <2>1. PICK x : x = <<a>>
    OBVIOUS
  <2>2. x \in walks
    BY <2>1
  <2>3. x[Len(x)] = a /\ Append(x, p) = <<a, p>>
    BY <2>1, Lasts, Longer
  <2>q. QED BY <2>2, <2>3, OneStep
<1>q. QED BY <1>1, <1>2

LEMMA ThirdStep ==
  ASSUME NEW a, NEW walks, NEW T2, NEW T3,
         \A v : v \in walks <=>
           \E p \in Towards(a, T2) :
             v = <<a, p>>
  PROVE  \A v : v \in Onward(walks, T3) <=>
           \E p \in Towards(a, T2) :
             \E q \in Towards(p, T3) :
               v = <<a, p, q>>
PROOF
<1>1. ASSUME NEW v \in Onward(walks, T3)
      PROVE
        \E p \in Towards(a, T2) :
          \E q \in Towards(p, T3) :
            v = <<a, p, q>>
  <2>1. PICK x \in walks : \E q \in Towards(x[Len(x)], T3) : v = Append(x, q)
    BY OneStep
  <2>2. PICK q \in Towards(x[Len(x)], T3) : v = Append(x, q)
    BY <2>1
  <2>3. PICK p \in Towards(a, T2) :
          x = <<a, p>>
    OBVIOUS
  <2>4. x[Len(x)] = p /\ v = <<a, p, q>>
    BY <2>2, <2>3, Lasts, Longer
  <2>q. QED BY <2>2, <2>4
<1>2. ASSUME NEW p \in Towards(a, T2), NEW q \in Towards(p, T3)
      PROVE  <<a, p, q>> \in Onward(walks, T3)
  <2>1. PICK x : x = <<a, p>>
    OBVIOUS
  <2>2. x \in walks
    BY <2>1
  <2>3. x[Len(x)] = p /\ Append(x, q) = <<a, p, q>>
    BY <2>1, Lasts, Longer
  <2>q. QED BY <2>2, <2>3, OneStep
<1>q. QED BY <1>1, <1>2

LEMMA FourthStep ==
  ASSUME NEW a, NEW walks, NEW T2, NEW T3, NEW T4,
         \A v : v \in walks <=>
           \E p \in Towards(a, T2) :
             \E q \in Towards(p, T3) :
               v = <<a, p, q>>
  PROVE  \A v : v \in Onward(walks, T4) <=>
           \E p \in Towards(a, T2) :
             \E q \in Towards(p, T3) :
               \E r \in Towards(q, T4) :
                 v = <<a, p, q, r>>
PROOF
<1>1. ASSUME NEW v \in Onward(walks, T4)
      PROVE
        \E p \in Towards(a, T2) :
          \E q \in Towards(p, T3) :
            \E r \in Towards(q, T4) :
              v = <<a, p, q, r>>
  <2>1. PICK x \in walks : \E r \in Towards(x[Len(x)], T4) : v = Append(x, r)
    BY OneStep
  <2>2. PICK r \in Towards(x[Len(x)], T4) : v = Append(x, r)
    BY <2>1
  <2>3. PICK p \in Towards(a, T2) :
          \E q \in Towards(p, T3) :
            x = <<a, p, q>>
    OBVIOUS
  <2>4. PICK q \in Towards(p, T3) :
          x = <<a, p, q>>
    BY <2>3
  <2>5. x[Len(x)] = q /\ v = <<a, p, q, r>>
    BY <2>2, <2>4, Lasts, Longer
  <2>q. QED BY <2>2, <2>5
<1>2. ASSUME NEW p \in Towards(a, T2), NEW q \in Towards(p, T3), NEW r \in Towards(q, T4)
      PROVE  <<a, p, q, r>> \in Onward(walks, T4)
  <2>1. PICK x : x = <<a, p, q>>
    OBVIOUS
  <2>2. x \in walks
    BY <2>1
  <2>3. x[Len(x)] = q /\ Append(x, r) = <<a, p, q, r>>
    BY <2>1, Lasts, Longer
  <2>q. QED BY <2>2, <2>3, OneStep
<1>q. QED BY <1>1, <1>2

LEMMA FifthStep ==
  ASSUME NEW a, NEW walks, NEW T2, NEW T3, NEW T4, NEW T5,
         \A v : v \in walks <=>
           \E p \in Towards(a, T2) :
             \E q \in Towards(p, T3) :
               \E r \in Towards(q, T4) :
                 v = <<a, p, q, r>>
  PROVE  \A v : v \in Onward(walks, T5) <=>
           \E p \in Towards(a, T2) :
             \E q \in Towards(p, T3) :
               \E r \in Towards(q, T4) :
                 \E t \in Towards(r, T5) :
                   v = <<a, p, q, r, t>>
PROOF
<1>1. ASSUME NEW v \in Onward(walks, T5)
      PROVE
        \E p \in Towards(a, T2) :
          \E q \in Towards(p, T3) :
            \E r \in Towards(q, T4) :
              \E t \in Towards(r, T5) :
                v = <<a, p, q, r, t>>
  <2>1. PICK x \in walks : \E t \in Towards(x[Len(x)], T5) : v = Append(x, t)
    BY OneStep
  <2>2. PICK t \in Towards(x[Len(x)], T5) : v = Append(x, t)
    BY <2>1
  <2>3. PICK p \in Towards(a, T2) :
          \E q \in Towards(p, T3) :
            \E r \in Towards(q, T4) :
              x = <<a, p, q, r>>
    OBVIOUS
  <2>4. PICK q \in Towards(p, T3) :
          \E r \in Towards(q, T4) :
            x = <<a, p, q, r>>
    BY <2>3
  <2>5. PICK r \in Towards(q, T4) :
          x = <<a, p, q, r>>
    BY <2>4
  <2>6. x[Len(x)] = r /\ v = <<a, p, q, r, t>>
    BY <2>2, <2>5, Lasts, Longer
  <2>q. QED BY <2>2, <2>6
<1>2. ASSUME NEW p \in Towards(a, T2), NEW q \in Towards(p, T3), NEW r \in Towards(q, T4),
             NEW t \in Towards(r, T5)
      PROVE  <<a, p, q, r, t>> \in Onward(walks, T5)
  <2>1. PICK x : x = <<a, p, q, r>>
    OBVIOUS
  <2>2. x \in walks
    BY <2>1
  <2>3. x[Len(x)] = r /\ Append(x, t) = <<a, p, q, r, t>>
    BY <2>1, Lasts, Longer
  <2>q. QED BY <2>2, <2>3, OneStep
<1>q. QED BY <1>1, <1>2

LEMMA SixthStep ==
  ASSUME NEW a, NEW walks, NEW T2, NEW T3, NEW T4, NEW T5, NEW T6,
         \A v : v \in walks <=>
           \E p \in Towards(a, T2) :
             \E q \in Towards(p, T3) :
               \E r \in Towards(q, T4) :
                 \E t \in Towards(r, T5) :
                   v = <<a, p, q, r, t>>
  PROVE  \A v : v \in Onward(walks, T6) <=>
           \E p \in Towards(a, T2) :
             \E q \in Towards(p, T3) :
               \E r \in Towards(q, T4) :
                 \E t \in Towards(r, T5) :
                   \E u \in Towards(t, T6) :
                     v = <<a, p, q, r, t, u>>
PROOF
<1>1. ASSUME NEW v \in Onward(walks, T6)
      PROVE
        \E p \in Towards(a, T2) :
          \E q \in Towards(p, T3) :
            \E r \in Towards(q, T4) :
              \E t \in Towards(r, T5) :
                \E u \in Towards(t, T6) :
                  v = <<a, p, q, r, t, u>>
  <2>1. PICK x \in walks : \E u \in Towards(x[Len(x)], T6) : v = Append(x, u)
    BY OneStep
  <2>2. PICK u \in Towards(x[Len(x)], T6) : v = Append(x, u)
    BY <2>1
  <2>3. PICK p \in Towards(a, T2) :
          \E q \in Towards(p, T3) :
            \E r \in Towards(q, T4) :
              \E t \in Towards(r, T5) :
                x = <<a, p, q, r, t>>
    OBVIOUS
  <2>4. PICK q \in Towards(p, T3) :
          \E r \in Towards(q, T4) :
            \E t \in Towards(r, T5) :
              x = <<a, p, q, r, t>>
    BY <2>3
  <2>5. PICK r \in Towards(q, T4) :
          \E t \in Towards(r, T5) :
            x = <<a, p, q, r, t>>
    BY <2>4
  <2>6. PICK t \in Towards(r, T5) :
          x = <<a, p, q, r, t>>
    BY <2>5
  <2>7. x[Len(x)] = t /\ v = <<a, p, q, r, t, u>>
    BY <2>2, <2>6, Lasts, Longer
  <2>q. QED BY <2>2, <2>7
<1>2. ASSUME NEW p \in Towards(a, T2), NEW q \in Towards(p, T3), NEW r \in Towards(q, T4),
             NEW t \in Towards(r, T5), NEW u \in Towards(t, T6)
      PROVE  <<a, p, q, r, t, u>> \in Onward(walks, T6)
  <2>1. PICK x : x = <<a, p, q, r, t>>
    OBVIOUS
  <2>2. x \in walks
    BY <2>1
  <2>3. x[Len(x)] = t /\ Append(x, u) = <<a, p, q, r, t, u>>
    BY <2>1, Lasts, Longer
  <2>q. QED BY <2>2, <2>3, OneStep
<1>q. QED BY <1>1, <1>2

\* The walks of two, four and six queues into given spheres.
LEMMA TwoSteps ==
  ASSUME NEW spheres, NEW c
  PROVE  \A w : w \in WalksInto(spheres, c, 2) <=>
           \E p \in Towards(HostPort(c), spheres[0]) :
             w = <<HostPort(c), p>>
PROOF
<1>1. PICK walks : /\ walks[2] = WalksInto(spheres, c, 2)
                   /\ walks[1] = {<<HostPort(c)>>}
                   /\ \A n \in 2..2 : walks[n] = Onward(walks[n - 1], spheres[2 - n])
  BY WalkSteps
<1>2. \A v : v \in walks[2] <=>
        \E p \in Towards(HostPort(c), spheres[0]) :
          v = <<HostPort(c), p>>
  <2>1. PICK before : before = walks[1]
    OBVIOUS
  <2>2. walks[2] = Onward(before, spheres[0])
    BY <1>1, <2>1
  <2>3. \A v : v \in before <=> v = <<HostPort(c)>>
    BY <1>1, <2>1
  <2>4. \A v : v \in Onward(before, spheres[0]) <=>
          \E p \in Towards(HostPort(c), spheres[0]) :
            v = <<HostPort(c), p>>
    BY <2>3, SecondStep
  <2>q. QED BY <2>2, <2>4
<1>q. QED BY <1>1, <1>2

LEMMA FourSteps ==
  ASSUME NEW spheres, NEW c
  PROVE  \A w : w \in WalksInto(spheres, c, 4) <=>
           \E p \in Towards(HostPort(c), spheres[2]) :
             \E q \in Towards(p, spheres[1]) :
               \E r \in Towards(q, spheres[0]) :
                 w = <<HostPort(c), p, q, r>>
PROOF
<1>1. PICK walks : /\ walks[4] = WalksInto(spheres, c, 4)
                   /\ walks[1] = {<<HostPort(c)>>}
                   /\ \A n \in 2..4 : walks[n] = Onward(walks[n - 1], spheres[4 - n])
  BY WalkSteps
<1>2. \A v : v \in walks[2] <=>
        \E p \in Towards(HostPort(c), spheres[2]) :
          v = <<HostPort(c), p>>
  <2>1. PICK before : before = walks[1]
    OBVIOUS
  <2>2. walks[2] = Onward(before, spheres[2])
    BY <1>1, <2>1
  <2>3. \A v : v \in before <=> v = <<HostPort(c)>>
    BY <1>1, <2>1
  <2>4. \A v : v \in Onward(before, spheres[2]) <=>
          \E p \in Towards(HostPort(c), spheres[2]) :
            v = <<HostPort(c), p>>
    BY <2>3, SecondStep
  <2>q. QED BY <2>2, <2>4
<1>3. \A v : v \in walks[3] <=>
        \E p \in Towards(HostPort(c), spheres[2]) :
          \E q \in Towards(p, spheres[1]) :
            v = <<HostPort(c), p, q>>
  <2>1. PICK before : before = walks[2]
    OBVIOUS
  <2>2. walks[3] = Onward(before, spheres[1])
    BY <1>1, <2>1
  <2>3. \A v : v \in before <=>
          \E p \in Towards(HostPort(c), spheres[2]) :
            v = <<HostPort(c), p>>
    BY <1>2, <2>1
  <2>4. \A v : v \in Onward(before, spheres[1]) <=>
          \E p \in Towards(HostPort(c), spheres[2]) :
            \E q \in Towards(p, spheres[1]) :
              v = <<HostPort(c), p, q>>
    BY <2>3, ThirdStep
  <2>q. QED BY <2>2, <2>4
<1>4. \A v : v \in walks[4] <=>
        \E p \in Towards(HostPort(c), spheres[2]) :
          \E q \in Towards(p, spheres[1]) :
            \E r \in Towards(q, spheres[0]) :
              v = <<HostPort(c), p, q, r>>
  <2>1. PICK before : before = walks[3]
    OBVIOUS
  <2>2. walks[4] = Onward(before, spheres[0])
    BY <1>1, <2>1
  <2>3. \A v : v \in before <=>
          \E p \in Towards(HostPort(c), spheres[2]) :
            \E q \in Towards(p, spheres[1]) :
              v = <<HostPort(c), p, q>>
    BY <1>3, <2>1
  <2>4. \A v : v \in Onward(before, spheres[0]) <=>
          \E p \in Towards(HostPort(c), spheres[2]) :
            \E q \in Towards(p, spheres[1]) :
              \E r \in Towards(q, spheres[0]) :
                v = <<HostPort(c), p, q, r>>
    BY <2>3, FourthStep
  <2>q. QED BY <2>2, <2>4
<1>q. QED BY <1>1, <1>4

LEMMA SixSteps ==
  ASSUME NEW spheres, NEW c
  PROVE  \A w : w \in WalksInto(spheres, c, 6) <=>
           \E p \in Towards(HostPort(c), spheres[4]) :
             \E q \in Towards(p, spheres[3]) :
               \E r \in Towards(q, spheres[2]) :
                 \E t \in Towards(r, spheres[1]) :
                   \E u \in Towards(t, spheres[0]) :
                     w = <<HostPort(c), p, q, r, t, u>>
PROOF
<1>1. PICK walks : /\ walks[6] = WalksInto(spheres, c, 6)
                   /\ walks[1] = {<<HostPort(c)>>}
                   /\ \A n \in 2..6 : walks[n] = Onward(walks[n - 1], spheres[6 - n])
  BY WalkSteps
<1>2. \A v : v \in walks[2] <=>
        \E p \in Towards(HostPort(c), spheres[4]) :
          v = <<HostPort(c), p>>
  <2>1. PICK before : before = walks[1]
    OBVIOUS
  <2>2. walks[2] = Onward(before, spheres[4])
    BY <1>1, <2>1
  <2>3. \A v : v \in before <=> v = <<HostPort(c)>>
    BY <1>1, <2>1
  <2>4. \A v : v \in Onward(before, spheres[4]) <=>
          \E p \in Towards(HostPort(c), spheres[4]) :
            v = <<HostPort(c), p>>
    BY <2>3, SecondStep
  <2>q. QED BY <2>2, <2>4
<1>3. \A v : v \in walks[3] <=>
        \E p \in Towards(HostPort(c), spheres[4]) :
          \E q \in Towards(p, spheres[3]) :
            v = <<HostPort(c), p, q>>
  <2>1. PICK before : before = walks[2]
    OBVIOUS
  <2>2. walks[3] = Onward(before, spheres[3])
    BY <1>1, <2>1
  <2>3. \A v : v \in before <=>
          \E p \in Towards(HostPort(c), spheres[4]) :
            v = <<HostPort(c), p>>
    BY <1>2, <2>1
  <2>4. \A v : v \in Onward(before, spheres[3]) <=>
          \E p \in Towards(HostPort(c), spheres[4]) :
            \E q \in Towards(p, spheres[3]) :
              v = <<HostPort(c), p, q>>
    BY <2>3, ThirdStep
  <2>q. QED BY <2>2, <2>4
<1>4. \A v : v \in walks[4] <=>
        \E p \in Towards(HostPort(c), spheres[4]) :
          \E q \in Towards(p, spheres[3]) :
            \E r \in Towards(q, spheres[2]) :
              v = <<HostPort(c), p, q, r>>
  <2>1. PICK before : before = walks[3]
    OBVIOUS
  <2>2. walks[4] = Onward(before, spheres[2])
    BY <1>1, <2>1
  <2>3. \A v : v \in before <=>
          \E p \in Towards(HostPort(c), spheres[4]) :
            \E q \in Towards(p, spheres[3]) :
              v = <<HostPort(c), p, q>>
    BY <1>3, <2>1
  <2>4. \A v : v \in Onward(before, spheres[2]) <=>
          \E p \in Towards(HostPort(c), spheres[4]) :
            \E q \in Towards(p, spheres[3]) :
              \E r \in Towards(q, spheres[2]) :
                v = <<HostPort(c), p, q, r>>
    BY <2>3, FourthStep
  <2>q. QED BY <2>2, <2>4
<1>5. \A v : v \in walks[5] <=>
        \E p \in Towards(HostPort(c), spheres[4]) :
          \E q \in Towards(p, spheres[3]) :
            \E r \in Towards(q, spheres[2]) :
              \E t \in Towards(r, spheres[1]) :
                v = <<HostPort(c), p, q, r, t>>
  <2>1. PICK before : before = walks[4]
    OBVIOUS
  <2>2. walks[5] = Onward(before, spheres[1])
    BY <1>1, <2>1
  <2>3. \A v : v \in before <=>
          \E p \in Towards(HostPort(c), spheres[4]) :
            \E q \in Towards(p, spheres[3]) :
              \E r \in Towards(q, spheres[2]) :
                v = <<HostPort(c), p, q, r>>
    BY <1>4, <2>1
  <2>4. \A v : v \in Onward(before, spheres[1]) <=>
          \E p \in Towards(HostPort(c), spheres[4]) :
            \E q \in Towards(p, spheres[3]) :
              \E r \in Towards(q, spheres[2]) :
                \E t \in Towards(r, spheres[1]) :
                  v = <<HostPort(c), p, q, r, t>>
    BY <2>3, FifthStep
  <2>q. QED BY <2>2, <2>4
<1>6. \A v : v \in walks[6] <=>
        \E p \in Towards(HostPort(c), spheres[4]) :
          \E q \in Towards(p, spheres[3]) :
            \E r \in Towards(q, spheres[2]) :
              \E t \in Towards(r, spheres[1]) :
                \E u \in Towards(t, spheres[0]) :
                  v = <<HostPort(c), p, q, r, t, u>>
  <2>1. PICK before : before = walks[5]
    OBVIOUS
  <2>2. walks[6] = Onward(before, spheres[0])
    BY <1>1, <2>1
  <2>3. \A v : v \in before <=>
          \E p \in Towards(HostPort(c), spheres[4]) :
            \E q \in Towards(p, spheres[3]) :
              \E r \in Towards(q, spheres[2]) :
                \E t \in Towards(r, spheres[1]) :
                  v = <<HostPort(c), p, q, r, t>>
    BY <1>5, <2>1
  <2>4. \A v : v \in Onward(before, spheres[0]) <=>
          \E p \in Towards(HostPort(c), spheres[4]) :
            \E q \in Towards(p, spheres[3]) :
              \E r \in Towards(q, spheres[2]) :
                \E t \in Towards(r, spheres[1]) :
                  \E u \in Towards(t, spheres[0]) :
                    v = <<HostPort(c), p, q, r, t, u>>
    BY <2>3, SixthStep
  <2>q. QED BY <2>2, <2>4
<1>q. QED BY <1>1, <1>6

-------------------------------------------------------------------------------
(* The links of the fat tree.                                              *)

Fat == tree \in Trees /\ ThreeLevels

LEMMA DeviceFields ==
  ASSUME NEW type, NEW pod, NEW local
  PROVE  /\ Device(type, pod, local).type = type
         /\ Device(type, pod, local).pod = pod
         /\ Device(type, pod, local).local = local
BY DEF Device

LEMMA Sizes ==
  ASSUME tree \in Trees
  PROVE  tree.K \in Nat \ {0} /\ Half \in Nat \ {0} /\ tree.K = 2 * Half
BY TreesAssumption DEF Half

\* What the devices of the fat tree are.
FatDevice(d) ==
  /\ d = Device(d.type, d.pod, d.local)
  /\ \/ d.type = "core" /\ d.pod \in 0..Half - 1 /\ d.local \in 0..Half - 1
     \/ d.type = "aggr" /\ d.pod \in 0..tree.K - 1 /\ d.local \in 0..Half - 1
     \/ d.type = "edge" /\ d.pod \in 0..tree.K - 1 /\ d.local \in 0..Half - 1
     \/ d.type = "host" /\ d.pod \in 0..tree.K - 1 /\ d.local \in 0..Half * Half - 1

LEMMA FatDevices ==
  ASSUME Fat
  PROVE  \A d : d \in Devices <=> FatDevice(d)
PROOF
<1>1. Devices = L3(tree.K)!Cores \cup L3(tree.K)!Aggrs \cup L3(tree.K)!Edges \cup L3(tree.K)!Hosts
  BY DEF Fat, Devices, L3!Devices
<1>2. L3(tree.K)!Half = Half /\ L3(tree.K)!HostsPerPod = Half * Half
  BY DEF Half, L3!Half, L3!HostsPerPod
<1>3. ASSUME NEW d
      PROVE  /\ d \in L3(tree.K)!Cores <=>
                  d = Device(d.type, d.pod, d.local) /\ d.type = "core"
                  /\ d.pod \in 0..Half - 1 /\ d.local \in 0..Half - 1
             /\ d \in L3(tree.K)!Aggrs <=>
                  d = Device(d.type, d.pod, d.local) /\ d.type = "aggr"
                  /\ d.pod \in 0..tree.K - 1 /\ d.local \in 0..Half - 1
             /\ d \in L3(tree.K)!Edges <=>
                  d = Device(d.type, d.pod, d.local) /\ d.type = "edge"
                  /\ d.pod \in 0..tree.K - 1 /\ d.local \in 0..Half - 1
             /\ d \in L3(tree.K)!Hosts <=>
                  d = Device(d.type, d.pod, d.local) /\ d.type = "host"
                  /\ d.pod \in 0..tree.K - 1 /\ d.local \in 0..Half * Half - 1
  BY <1>2 DEF L3!Cores, L3!Aggrs, L3!Edges, L3!Hosts, L3!Device, Device
<1>q. QED BY <1>1, <1>3 DEF FatDevice

\* The ports of a device, and what each of them leads to.
LEMMA FatPorts ==
  ASSUME Fat, NEW d
  PROVE  Ports(d) = {<<d, n>> : n \in 0..(IF d.type = "host" THEN 0 ELSE tree.K - 1)}
BY DEF Ports, PortsOf

LEMMA FatNext ==
  ASSUME Fat, NEW d \in Devices, NEW q \in Ports(d)
  PROVE  /\ q = <<d, q[2]>> /\ q[1] = d
         /\ \/ /\ d.type = "host" /\ q[2] = 0 /\ QueueType(q) = "host_up"
               /\ NextDevice(q) = Device("edge", d.pod, d.local \div Half)
            \/ /\ d.type = "edge" /\ q[2] \in 0..Half - 1 /\ QueueType(q) = "edge_up"
               /\ NextDevice(q) = Device("aggr", d.pod, q[2])
            \/ /\ d.type = "edge" /\ q[2] - Half \in 0..Half - 1 /\ QueueType(q) = "edge_down"
               /\ NextDevice(q) = Device("host", d.pod, (q[2] - Half) + d.local * Half)
            \/ /\ d.type = "aggr" /\ q[2] \in 0..Half - 1 /\ QueueType(q) = "aggr_up"
               /\ NextDevice(q) = Device("core", d.local, q[2])
            \/ /\ d.type = "aggr" /\ q[2] - Half \in 0..Half - 1 /\ QueueType(q) = "aggr_down"
               /\ NextDevice(q) = Device("edge", d.pod, q[2] - Half)
            \/ /\ d.type = "core" /\ q[2] \in 0..tree.K - 1 /\ QueueType(q) = "core_down"
               /\ NextDevice(q) = Device("aggr", q[2], d.pod)
PROOF
<1> DEFINE k == tree.K
           n == q[2]
<1>1. k \in Nat \ {0} /\ Half \in Nat \ {0} /\ k = 2 * Half
  BY Sizes DEF Fat
<1>2. FatDevice(d)
  BY FatDevices
<1>3. /\ q = <<d, n>> /\ q[1] = d
      /\ n \in 0..(IF d.type = "host" THEN 0 ELSE k - 1)
  BY FatPorts
<1>4. QueueType(q) = L3(tree.K)!QueueType(q) /\ NextDevice(q) = L3(tree.K)!NextDevice(q)
  BY DEF Fat, QueueType, NextDevice
<1>5. L3(tree.K)!Half = Half /\ (L3(tree.K)!Up(q) <=> n < Half)
  BY DEF Half, L3!Half, L3!Up
<1>6. \A t, p, l : L3(tree.K)!Device(t, p, l) = Device(t, p, l)
  BY DEF Device, L3!Device
<1> HIDE DEF k, n
<1>7. CASE d.type = "host"
  <2>1. n = 0 /\ L3(tree.K)!QueueType(q) = "host_up"
    BY <1>3, <1>7 DEF L3!QueueType
  <2>2. L3(tree.K)!NextDevice(q) = Device("edge", d.pod, d.local \div Half)
    BY <1>3, <1>5, <1>6, <2>1 DEF L3!NextDevice
  <2>q. QED BY <1>3, <1>4, <1>7, <2>1, <2>2 DEF n
<1>8. CASE d.type = "core"
  <2>1. n \in 0..k - 1 /\ L3(tree.K)!QueueType(q) = "core_down"
    BY <1>3, <1>8 DEF L3!QueueType
  <2>2. L3(tree.K)!NextDevice(q) = Device("aggr", n, d.pod)
    BY <1>3, <1>5, <1>6, <2>1 DEF L3!NextDevice, L3!AggrBelow, n
  <2>q. QED BY <1>3, <1>4, <1>8, <2>1, <2>2 DEF n, k
<1>9. ASSUME d.type \in {"aggr", "edge"}, ~(n < Half)
      PROVE  n - Half \in 0..Half - 1 /\ n % Half = n - Half
  <2>1. n - Half \in 0..Half - 1
    BY <1>1, <1>3, <1>9
  <2>2. ((n - Half) + 1 * Half) % Half = n - Half
    BY <1>1, <2>1, Quotient
  <2>3. n = (n - Half) + 1 * Half
    BY <1>1, <1>3, <1>9
  <2>q. QED BY <2>1, <2>2, <2>3
<1>10. CASE d.type = "aggr"
  <2>1. CASE n < Half
    <3>1. n \in 0..Half - 1 /\ L3(tree.K)!QueueType(q) = "aggr_up"
      BY <1>1, <1>3, <1>5, <1>10, <2>1 DEF L3!QueueType
    <3>2. L3(tree.K)!NextDevice(q) = Device("core", d.local, n)
      BY <1>3, <1>6, <3>1 DEF L3!NextDevice, n
    <3>q. QED BY <1>3, <1>4, <1>10, <3>1, <3>2 DEF n
  <2>2. CASE ~(n < Half)
    <3>1. L3(tree.K)!QueueType(q) = "aggr_down"
      BY <1>3, <1>5, <1>10, <2>2 DEF L3!QueueType
    <3>2. L3(tree.K)!NextDevice(q) = Device("edge", d.pod, n - Half)
      BY <1>3, <1>5, <1>6, <1>9, <1>10, <2>2, <3>1 DEF L3!NextDevice, n
    <3>q. QED BY <1>3, <1>4, <1>9, <1>10, <2>2, <3>1, <3>2 DEF n
  <2>q. QED BY <2>1, <2>2
<1>11. CASE d.type = "edge"
  <2>1. CASE n < Half
    <3>1. n \in 0..Half - 1 /\ L3(tree.K)!QueueType(q) = "edge_up"
      BY <1>1, <1>3, <1>5, <1>11, <2>1 DEF L3!QueueType
    <3>2. L3(tree.K)!NextDevice(q) = Device("aggr", d.pod, n)
      BY <1>3, <1>6, <3>1 DEF L3!NextDevice, n
    <3>q. QED BY <1>3, <1>4, <1>11, <3>1, <3>2 DEF n
  <2>2. CASE ~(n < Half)
    <3>1. L3(tree.K)!QueueType(q) = "edge_down"
      BY <1>3, <1>5, <1>11, <2>2 DEF L3!QueueType
    <3>2. L3(tree.K)!NextDevice(q) = Device("host", d.pod, (n - Half) + d.local * Half)
      BY <1>3, <1>5, <1>6, <1>9, <1>11, <2>2, <3>1 DEF L3!NextDevice, n
    <3>q. QED BY <1>3, <1>4, <1>9, <1>11, <2>2, <3>1, <3>2 DEF n
  <2>q. QED BY <2>1, <2>2
<1>q. QED BY <1>2, <1>7, <1>8, <1>10, <1>11 DEF FatDevice

\* Where a port leads to, by the type of its device and the half it is in.
LEMMA FatHop ==
  ASSUME Fat, NEW d \in Devices, NEW q \in Ports(d)
  PROVE  /\ q = <<d, q[2]>> /\ q[1] = d
         /\ NextDevice(q) = Device(NextDevice(q).type, NextDevice(q).pod, NextDevice(q).local)
         /\ d.type = "host" =>
              /\ q[2] = 0 /\ QueueType(q) = "host_up" /\ NextDevice(q).type = "edge"
              /\ NextDevice(q).pod = d.pod /\ NextDevice(q).local = d.local \div Half
         /\ d.type \in {"edge", "aggr"} => q[2] \in 0..Half - 1 \/ q[2] - Half \in 0..Half - 1
         /\ d.type = "edge" /\ q[2] \in 0..Half - 1 =>
              /\ QueueType(q) = "edge_up" /\ NextDevice(q).type = "aggr"
              /\ NextDevice(q).pod = d.pod /\ NextDevice(q).local = q[2]
         /\ d.type = "edge" /\ q[2] - Half \in 0..Half - 1 =>
              /\ QueueType(q) = "edge_down" /\ NextDevice(q).type = "host"
              /\ NextDevice(q).pod = d.pod
              /\ NextDevice(q).local = (q[2] - Half) + d.local * Half
         /\ d.type = "aggr" /\ q[2] \in 0..Half - 1 =>
              /\ QueueType(q) = "aggr_up" /\ NextDevice(q).type = "core"
              /\ NextDevice(q).pod = d.local /\ NextDevice(q).local = q[2]
         /\ d.type = "aggr" /\ q[2] - Half \in 0..Half - 1 =>
              /\ QueueType(q) = "aggr_down" /\ NextDevice(q).type = "edge"
              /\ NextDevice(q).pod = d.pod /\ NextDevice(q).local = q[2] - Half
         /\ d.type = "core" =>
              /\ q[2] \in 0..tree.K - 1
              /\ QueueType(q) = "core_down" /\ NextDevice(q).type = "aggr"
              /\ NextDevice(q).pod = q[2] /\ NextDevice(q).local = d.pod
PROOF
<1>1. tree.K \in Nat \ {0} /\ Half \in Nat \ {0} /\ tree.K = 2 * Half
  BY Sizes DEF Fat
<1>2. ~(q[2] \in 0..Half - 1 /\ q[2] - Half \in 0..Half - 1)
  BY <1>1
<1>3. CASE d.type = "host"
  BY <1>3, FatNext, DeviceFields
<1>4. CASE d.type = "edge" /\ q[2] \in 0..Half - 1
  BY <1>2, <1>4, FatNext, DeviceFields
<1>5. CASE d.type = "edge" /\ q[2] - Half \in 0..Half - 1
  BY <1>2, <1>5, FatNext, DeviceFields
<1>6. CASE d.type = "aggr" /\ q[2] \in 0..Half - 1
  BY <1>2, <1>6, FatNext, DeviceFields
<1>7. CASE d.type = "aggr" /\ q[2] - Half \in 0..Half - 1
  BY <1>2, <1>7, FatNext, DeviceFields
<1>8. CASE d.type = "core"
  BY <1>8, FatNext, DeviceFields
<1>q. QED BY <1>3, <1>4, <1>5, <1>6, <1>7, <1>8, FatNext

\* Every port leads to a device.
LEMMA FatLinked ==
  ASSUME Fat, NEW d \in Devices, NEW q \in Ports(d)
  PROVE  NextDevice(q) \in Devices
PROOF
<1>1. tree.K \in Nat \ {0} /\ Half \in Nat \ {0} /\ tree.K = 2 * Half
  BY Sizes DEF Fat
<1>2. FatDevice(d) /\ \A b : b \in Devices <=> FatDevice(b)
  BY FatDevices
<1>3. ASSUME d.type = "host"
      PROVE  d.local \div Half \in 0..Half - 1
  <2>1. d.local \in Nat /\ d.local < Half * Half
    <3>1. Half * Half \in Nat
      BY <1>1
    <3>q. QED BY <1>2, <1>3, <3>1 DEF FatDevice
  <2>2. d.local \div Half \in Nat
    BY <1>1, <2>1, Division
  <2>3. d.local \div Half < Half
    BY <1>1, <2>1, Below
  <2>q. QED BY <1>1, <2>2, <2>3
<1>4. ASSUME d.type = "edge", NEW n \in 0..Half - 1
      PROVE  n + d.local * Half \in 0..Half * Half - 1
  <2>1. d.local \in 0..Half - 1
    BY <1>2, <1>4 DEF FatDevice
  <2>2. PICK e \in Nat : e = d.local /\ e < Half
    BY <1>1, <2>1
  <2>3. PICK m \in Nat : m = n + e * Half
    BY <1>1
  <2>4. m \div Half = e
    BY <1>1, <2>3, Quotient
  <2>5. m < Half * Half
    BY <1>1, <2>2, <2>4, Below
  <2>6. Half * Half \in Nat
    BY <1>1
  <2>7. m \in 0..Half * Half - 1
    BY <2>5, <2>6
  <2>q. QED BY <2>2, <2>3, <2>7
<1>5. FatDevice(NextDevice(q))
  <2>2. CASE d.type = "host"
    BY <1>2, <1>3, <2>2, FatHop DEF FatDevice
  <2>3. CASE d.type = "edge"
    <3>1. CASE q[2] \in 0..Half - 1
      BY <1>1, <1>2, <2>3, <3>1, FatHop DEF FatDevice
    <3>2. CASE q[2] - Half \in 0..Half - 1
      <4>1. PICK n \in 0..Half - 1 : n = q[2] - Half
        BY <3>2
      <4>q. QED BY <1>2, <1>4, <2>3, <3>2, <4>1, FatHop DEF FatDevice
    <3>q. QED BY <2>3, <3>1, <3>2, FatHop
  <2>4. CASE d.type = "aggr"
    <3>1. CASE q[2] \in 0..Half - 1
      BY <1>1, <1>2, <2>4, <3>1, FatHop DEF FatDevice
    <3>2. CASE q[2] - Half \in 0..Half - 1
      BY <1>1, <1>2, <2>4, <3>2, FatHop DEF FatDevice
    <3>q. QED BY <2>4, <3>1, <3>2, FatHop
  <2>5. CASE d.type = "core"
    BY <1>1, <1>2, <2>5, FatHop DEF FatDevice
  <2>q. QED BY <1>2, <2>2, <2>3, <2>4, <2>5 DEF FatDevice
<1>q. QED BY <1>2, <1>5

\* Every device has a port 0.
LEMMA FirstPort ==
  ASSUME Fat, NEW d \in Devices
  PROVE  <<d, 0>> \in Ports(d)
PROOF
<1>1. tree.K \in Nat \ {0}
  BY Sizes DEF Fat
<1>2. 0 \in 0..(IF d.type = "host" THEN 0 ELSE tree.K - 1)
  BY <1>1
<1>q. QED BY <1>2, FatPorts

\* The edge switch of a host, and the port down to it.
LEMMA FatHosts ==
  ASSUME Fat, NEW h \in Devices, h.type = "host"
  PROVE  /\ HostPort(h) \in Ports(h) /\ QueueType(HostPort(h)) = "host_up"
         /\ EdgeOf(h) = Device("edge", h.pod, h.local \div Half) /\ EdgeOf(h) \in Devices
         /\ EdgeOf(h).type = "edge" /\ EdgeOf(h).pod = h.pod
         /\ EdgeOf(h).local = h.local \div Half
         /\ <<EdgeOf(h), (h.local % Half) + Half>> \in Ports(EdgeOf(h))
         /\ NextDevice(<<EdgeOf(h), (h.local % Half) + Half>>) = h
PROOF
<1>1. tree.K \in Nat \ {0} /\ Half \in Nat \ {0} /\ tree.K = 2 * Half
  BY Sizes DEF Fat
<1>2. FatDevice(h)
  BY FatDevices
<1>3. HostPort(h) \in Ports(h)
  BY FatPorts DEF HostPort
<1>4. /\ EdgeOf(h) = Device("edge", h.pod, h.local \div Half) /\ EdgeOf(h) \in Devices
      /\ QueueType(HostPort(h)) = "host_up"
  BY <1>3, FatNext, FatLinked DEF EdgeOf
<1>5. /\ h.local \div Half \in Nat /\ h.local % Half \in 0..Half - 1
      /\ h.local = (h.local % Half) + (h.local \div Half) * Half
  <2>1. Half * Half \in Nat
    BY <1>1
  <2>2. PICK l \in Nat : l = h.local
    BY <1>2, <2>1 DEF FatDevice
  <2>q. QED BY <1>1, <2>2, Division
<1> DEFINE q == <<EdgeOf(h), (h.local % Half) + Half>>
<1>6. q \in Ports(EdgeOf(h)) /\ q[2] = (h.local % Half) + Half
  BY <1>1, <1>4, <1>5, FatPorts, DeviceFields
<1> HIDE DEF q
<1>7. EdgeOf(h).type = "edge" /\ EdgeOf(h).pod = h.pod /\ EdgeOf(h).local = h.local \div Half
  BY <1>4, DeviceFields
<1>8. NextDevice(q) = Device("host", h.pod, (q[2] - Half) + (h.local \div Half) * Half)
  BY <1>1, <1>4, <1>5, <1>6, <1>7, FatNext
<1>9. (q[2] - Half) + (h.local \div Half) * Half = h.local
  <2>1. q[2] - Half = h.local % Half
    BY <1>1, <1>5, <1>6
  <2>q. QED BY <1>5, <2>1
<1>10. NextDevice(q) = h
  BY <1>2, <1>8, <1>9 DEF FatDevice
<1>q. QED BY <1>3, <1>4, <1>6, <1>7, <1>10 DEF q

\* The devices at each distance of a host.
FatSphere(s, n) ==
  CASE n = 0 -> {s}
    [] n = 1 -> {EdgeOf(s)}
    [] n = 2 -> {b \in Devices : \/ b.type = "host" /\ EdgeOf(b) = EdgeOf(s)
                                 \/ b.type = "aggr" /\ b.pod = s.pod}
    [] n = 3 -> {b \in Devices : (b.type = "edge" /\ b.pod = s.pod) \/ b.type = "core"}
    [] n = 4 -> {b \in Devices : (b.type = "host" /\ b.pod = s.pod) \/ b.type = "aggr"}
    [] n = 5 -> {b \in Devices : b.type = "edge" \/ b.type = "core"}
    [] n = 6 -> {b \in Devices : b.type = "host" \/ b.type = "aggr"}

LEMMA FatSpheres ==
  ASSUME Fat, NEW s \in Devices, s.type = "host"
  PROVE  \A n \in 0..6 : Spheres(s)[n] = FatSphere(s, n)
PROOF
<1>1. tree.K \in Nat \ {0} /\ Half \in Nat \ {0} /\ tree.K = 2 * Half
  BY Sizes DEF Fat
<1>2. FatDevice(s) /\ \A b : b \in Devices <=> FatDevice(b)
  BY FatDevices
<1>3. /\ EdgeOf(s) \in Devices /\ EdgeOf(s).type = "edge" /\ EdgeOf(s).pod = s.pod
      /\ EdgeOf(s).local \in 0..Half - 1
  <2>1. EdgeOf(s) \in Devices /\ EdgeOf(s).type = "edge" /\ EdgeOf(s).pod = s.pod
    BY FatHosts, DeviceFields
  <2>q. QED BY <1>2, <2>1 DEF FatDevice
<1>4. ASSUME NEW targets, NEW b \in Devices
      PROVE  b \in Behind(targets) <=> \E q \in Ports(b) : NextDevice(q) \in targets
  BY DEF Behind
\* A port by its number.
<1>5. ASSUME NEW b \in Devices, b.type # "host", NEW n \in 0..tree.K - 1
      PROVE  <<b, n>> \in Ports(b)
  BY <1>5, FatPorts
<1>6. Behind(FatSphere(s, 0)) = FatSphere(s, 1)
  <2>1. ASSUME NEW b \in Devices, NEW q \in Ports(b), NextDevice(q) = s PROVE b = EdgeOf(s)
    <3>1. /\ b.type = "edge" /\ q[2] - Half \in 0..Half - 1
          /\ s = Device("host", b.pod, (q[2] - Half) + b.local * Half)
      BY <1>2, <2>1, FatHop DEF FatDevice
    <3>2. b = Device("edge", b.pod, b.local) /\ b.local \in 0..Half - 1
      BY <1>2, <3>1 DEF FatDevice
    <3>3. PICK n \in 0..Half - 1, e \in Nat : n = q[2] - Half /\ e = b.local
      BY <3>1, <3>2
    <3>4. s.pod = b.pod /\ s.local \div Half = b.local
      <4>1. (n + e * Half) \div Half = e
        BY <1>1, Quotient
      <4>2. s.pod = b.pod /\ s.local = n + e * Half
        BY <3>1, <3>3, DeviceFields
      <4>q. QED BY <3>3, <4>1, <4>2
    <3>q. QED BY <3>2, <3>4, FatHosts
  <2>2. \E q \in Ports(EdgeOf(s)) : NextDevice(q) = s
    BY FatHosts
  <2>q. QED BY <1>3, <2>1, <2>2 DEF Behind, FatSphere
<1>7. Behind(FatSphere(s, 1)) = FatSphere(s, 2)
  <2>1. ASSUME NEW b \in Devices, NEW q \in Ports(b), NextDevice(q) = EdgeOf(s)
        PROVE  b \in FatSphere(s, 2)
    <3>1. CASE b.type = "host"
      <4>1. q = HostPort(b)
        BY <3>1, FatPorts DEF HostPort
      <4>q. QED BY <2>1, <3>1, <4>1 DEF EdgeOf, FatSphere
    <3>2. CASE b.type # "host"
      <4>1. FatDevice(b) /\ NextDevice(q).type = "edge" /\ NextDevice(q).pod = s.pod
        BY <1>2, <1>3, <2>1
      <4>2. b.type = "aggr" /\ b.pod = s.pod
        BY <3>2, <4>1, FatHop DEF FatDevice
      <4>q. QED BY <4>2 DEF FatSphere
    <3>q. QED BY <3>1, <3>2
  <2>2. ASSUME NEW b \in FatSphere(s, 2)
        PROVE  b \in Devices /\ \E q \in Ports(b) : NextDevice(q) = EdgeOf(s)
    <3>1. b \in Devices
      BY DEF FatSphere
    <3>2. CASE b.type = "host"
      <4>1. EdgeOf(b) = EdgeOf(s)
        BY <3>2 DEF FatSphere
      <4>q. QED BY <3>1, <3>2, <4>1, FatHosts DEF EdgeOf
    <3>3. CASE b.type # "host"
      <4>1. b.type = "aggr" /\ b.pod = s.pod
        BY <3>3 DEF FatSphere
      <4>2. PICK n \in 0..tree.K - 1 : n = EdgeOf(s).local + Half
        BY <1>1, <1>3
      <4>3. <<b, n>> \in Ports(b)
        BY <1>5, <3>1, <4>1
      <4>4. NextDevice(<<b, n>>) = Device("edge", s.pod, EdgeOf(s).local)
        <5>1. PICK q \in Ports(b) : q = <<b, n>>
          BY <4>3
        <5>2. q[2] = n /\ n - Half = EdgeOf(s).local /\ n \notin 0..Half - 1
          BY <1>1, <1>3, <4>2, <5>1
        <5>3. NextDevice(q) = Device("edge", b.pod, q[2] - Half)
          BY <3>1, <4>1, <5>2, FatNext
        <5>q. QED BY <4>1, <5>1, <5>2, <5>3
      <4>5. EdgeOf(s) = Device("edge", s.pod, EdgeOf(s).local)
        BY FatHosts, DeviceFields
      <4>q. QED BY <3>1, <4>3, <4>4, <4>5
    <3>q. QED BY <3>2, <3>3
  <2>3. FatSphere(s, 1) = {EdgeOf(s)}
    BY DEF FatSphere
  <2>4. FatSphere(s, 2) \subseteq Devices
    BY DEF FatSphere
  <2>q. QED BY <2>1, <2>2, <2>3, <2>4 DEF Behind
<1>8. Behind(FatSphere(s, 2)) = FatSphere(s, 3)
  <2>1. ASSUME NEW b \in Devices, NEW q \in Ports(b), NextDevice(q) \in FatSphere(s, 2)
        PROVE  b \in FatSphere(s, 3)
    <3>1. \/ NextDevice(q).type = "host" /\ EdgeOf(NextDevice(q)) = EdgeOf(s)
          \/ NextDevice(q).type = "aggr" /\ NextDevice(q).pod = s.pod
      BY <2>1 DEF FatSphere
    <3>2. CASE NextDevice(q).type = "host"
      <4>1. b.type = "edge" /\ NextDevice(q).pod = b.pod
        BY <1>2, <3>2, FatHop DEF FatDevice
      <4>2. EdgeOf(NextDevice(q)).pod = NextDevice(q).pod
        BY <3>2, FatLinked, FatHosts, DeviceFields
      <4>q. QED BY <1>3, <3>1, <3>2, <4>1, <4>2 DEF FatSphere
    <3>3. CASE NextDevice(q).type = "aggr"
      <4>1. FatDevice(b) /\ NextDevice(q).pod = s.pod
        BY <1>2, <3>1, <3>3
      <4>2. (b.type = "edge" /\ b.pod = s.pod) \/ b.type = "core"
        BY <3>3, <4>1, FatHop DEF FatDevice
      <4>q. QED BY <4>2 DEF FatSphere
    <3>q. QED BY <3>1, <3>2, <3>3
  <2>2. ASSUME NEW b \in FatSphere(s, 3)
        PROVE  b \in Devices /\ \E q \in Ports(b) : NextDevice(q) \in FatSphere(s, 2)
    <3>1. b \in Devices /\ ((b.type = "edge" /\ b.pod = s.pod) \/ b.type = "core")
      BY DEF FatSphere
    <3>2. PICK n \in 0..tree.K - 1 : n = IF b.type = "edge" THEN 0 ELSE s.pod
      BY <1>1, <1>2 DEF FatDevice
    <3>3. PICK q \in Ports(b) : q = <<b, n>>
      BY <1>5, <3>1
    <3>4. NextDevice(q).type = "aggr" /\ NextDevice(q).pod = s.pod
      <4>1. q[2] = n /\ (b.type = "edge" => n = 0) /\ (b.type = "core" => n = s.pod)
        BY <3>2, <3>3
      <4>2. ~(0 - Half \in 0..Half - 1)
        BY <1>1
      <4>q. QED BY <1>1, <3>1, <4>1, <4>2, FatHop
    <3>5. NextDevice(q) \in Devices
      BY <3>1, FatLinked
    <3>q. QED BY <3>1, <3>4, <3>5 DEF FatSphere
  <2>3. FatSphere(s, 3) \subseteq Devices
    BY DEF FatSphere
  <2>q. QED BY <2>1, <2>2, <2>3 DEF Behind
<1>9. Behind(FatSphere(s, 3)) = FatSphere(s, 4)
  <2>1. ASSUME NEW b \in Devices, NEW q \in Ports(b), NextDevice(q) \in FatSphere(s, 3)
        PROVE  b \in FatSphere(s, 4)
    <3>1. \/ NextDevice(q).type = "edge" /\ NextDevice(q).pod = s.pod
          \/ NextDevice(q).type = "core"
      BY <2>1 DEF FatSphere
    <3>2. FatDevice(b)
      BY <1>2
    <3>q. QED BY <3>1, <3>2, FatHop DEF FatDevice, FatSphere
  <2>2. ASSUME NEW b \in FatSphere(s, 4)
        PROVE  b \in Devices /\ \E q \in Ports(b) : NextDevice(q) \in FatSphere(s, 3)
    <3>1. b \in Devices /\ ((b.type = "host" /\ b.pod = s.pod) \/ b.type = "aggr")
      BY DEF FatSphere
    <3>2. PICK q \in Ports(b) : q = <<b, 0>>
      BY FirstPort, <3>1
    <3>3. \/ NextDevice(q).type = "edge" /\ NextDevice(q).pod = s.pod
          \/ NextDevice(q).type = "core"
      <4>1. q[2] = 0 /\ ~(0 - Half \in 0..Half - 1)
        BY <1>1, <3>2
      <4>q. QED BY <1>1, <3>1, <4>1, FatHop
    <3>4. NextDevice(q) \in Devices
      BY <3>1, FatLinked
    <3>q. QED BY <3>1, <3>3, <3>4 DEF FatSphere
  <2>3. FatSphere(s, 4) \subseteq Devices
    BY DEF FatSphere
  <2>q. QED BY <2>1, <2>2, <2>3 DEF Behind
<1>10. Behind(FatSphere(s, 4)) = FatSphere(s, 5)
  <2>1. ASSUME NEW b \in Devices, NEW q \in Ports(b), NextDevice(q) \in FatSphere(s, 4)
        PROVE  b \in FatSphere(s, 5)
    <3>1. NextDevice(q).type = "host" \/ NextDevice(q).type = "aggr"
      BY <2>1 DEF FatSphere
    <3>2. FatDevice(b)
      BY <1>2
    <3>q. QED BY <3>1, <3>2, FatHop DEF FatDevice, FatSphere
  <2>2. ASSUME NEW b \in FatSphere(s, 5)
        PROVE  b \in Devices /\ \E q \in Ports(b) : NextDevice(q) \in FatSphere(s, 4)
    <3>1. b \in Devices /\ (b.type = "edge" \/ b.type = "core")
      BY DEF FatSphere
    <3>2. PICK q \in Ports(b) : q = <<b, 0>>
      BY FirstPort, <3>1
    <3>3. NextDevice(q).type = "aggr"
      <4>1. q[2] = 0 /\ ~(0 - Half \in 0..Half - 1)
        BY <1>1, <3>2
      <4>q. QED BY <1>1, <3>1, <4>1, FatHop
    <3>4. NextDevice(q) \in Devices
      BY <3>1, FatLinked
    <3>q. QED BY <3>1, <3>3, <3>4 DEF FatSphere
  <2>3. FatSphere(s, 5) \subseteq Devices
    BY DEF FatSphere
  <2>q. QED BY <2>1, <2>2, <2>3 DEF Behind
<1>11. Behind(FatSphere(s, 5)) = FatSphere(s, 6)
  <2>1. ASSUME NEW b \in Devices, NEW q \in Ports(b), NextDevice(q) \in FatSphere(s, 5)
        PROVE  b \in FatSphere(s, 6)
    <3>1. NextDevice(q).type = "edge" \/ NextDevice(q).type = "core"
      BY <2>1 DEF FatSphere
    <3>2. FatDevice(b)
      BY <1>2
    <3>q. QED BY <3>1, <3>2, FatHop DEF FatDevice, FatSphere
  <2>2. ASSUME NEW b \in FatSphere(s, 6)
        PROVE  b \in Devices /\ \E q \in Ports(b) : NextDevice(q) \in FatSphere(s, 5)
    <3>1. b \in Devices /\ (b.type = "host" \/ b.type = "aggr")
      BY DEF FatSphere
    <3>2. PICK q \in Ports(b) : q = <<b, 0>>
      BY FirstPort, <3>1
    <3>3. NextDevice(q).type \in {"edge", "core"}
      BY <1>1, <3>1, FatHop
    <3>4. NextDevice(q) \in Devices
      BY <3>1, FatLinked
    <3>q. QED BY <3>1, <3>3, <3>4 DEF FatSphere
  <2>3. FatSphere(s, 6) \subseteq Devices
    BY DEF FatSphere
  <2>q. QED BY <2>1, <2>2, <2>3 DEF Behind
<1>12. Spheres(s)[0] = FatSphere(s, 0)
  BY SphereSteps DEF FatSphere
<1>13. /\ Spheres(s)[1] = Behind(Spheres(s)[0]) /\ Spheres(s)[2] = Behind(Spheres(s)[1])
       /\ Spheres(s)[3] = Behind(Spheres(s)[2]) /\ Spheres(s)[4] = Behind(Spheres(s)[3])
       /\ Spheres(s)[5] = Behind(Spheres(s)[4]) /\ Spheres(s)[6] = Behind(Spheres(s)[5])
  BY SphereSteps
<1>q. QED BY <1>6, <1>7, <1>8, <1>9, <1>10, <1>11, <1>12, <1>13

-------------------------------------------------------------------------------
(* Splits and their paths.                                                 *)

AtStages(q0, q1, q2, q3, q4, q5) == [k \in 0..5 |-> <<q0, q1, q2, q3, q4, q5>>[k + 1]]

TwoStages(w) == AtStages(w[1], NotUsed, NotUsed, NotUsed, NotUsed, w[2])
FourStagesL3(w) == AtStages(w[1], w[2], NotUsed, NotUsed, w[3], w[4])
FourStagesL2(w) == AtStages(w[1], w[2], NotUsed, w[3], NotUsed, w[4])
SixStages(w) == AtStages(w[1], w[2], w[3], w[4], w[5], w[6])

LEMMA StagesOf ==
  ASSUME NEW a, NEW b, NEW c, NEW d, NEW e, NEW f
  PROVE  /\ DOMAIN AtStages(a, b, c, d, e, f) = 0..5
         /\ AtStages(a, b, c, d, e, f)[0] = a /\ AtStages(a, b, c, d, e, f)[1] = b
         /\ AtStages(a, b, c, d, e, f)[2] = c /\ AtStages(a, b, c, d, e, f)[3] = d
         /\ AtStages(a, b, c, d, e, f)[4] = e /\ AtStages(a, b, c, d, e, f)[5] = f
BY DEF AtStages

LEMMA ExceptStages ==
  ASSUME NEW a, NEW b, NEW c, NEW d
  PROVE  /\ [NoneUsed EXCEPT ![0] = a, ![5] = d]
              = AtStages(a, NotUsed, NotUsed, NotUsed, NotUsed, d)
         /\ [NoneUsed EXCEPT ![0] = a, ![1] = b, ![4] = c, ![5] = d]
              = AtStages(a, b, NotUsed, NotUsed, c, d)
         /\ [NoneUsed EXCEPT ![0] = a, ![1] = b, ![3] = c, ![5] = d]
              = AtStages(a, b, NotUsed, c, NotUsed, d)
PROOF
<1> DEFINE Two == AtStages(a, NotUsed, NotUsed, NotUsed, NotUsed, d)
           FourL3 == AtStages(a, b, NotUsed, NotUsed, c, d)
           FourL2 == AtStages(a, b, NotUsed, c, NotUsed, d)
<1>1. /\ Two = [k \in {0, 1, 2, 3, 4, 5} |-> Two[k]]
      /\ FourL3 = [k \in {0, 1, 2, 3, 4, 5} |-> FourL3[k]]
      /\ FourL2 = [k \in {0, 1, 2, 3, 4, 5} |-> FourL2[k]]
      /\ NoneUsed = [k \in {0, 1, 2, 3, 4, 5} |-> NotUsed]
  BY DEF AtStages, NoneUsed
<1>2. /\ Two[0] = a /\ Two[5] = d
      /\ \A k \in {1, 2, 3, 4} : Two[k] = NotUsed
  BY StagesOf
<1>3. /\ FourL3[0] = a /\ FourL3[1] = b /\ FourL3[4] = c /\ FourL3[5] = d
      /\ \A k \in {2, 3} : FourL3[k] = NotUsed
  BY StagesOf
<1>4. /\ FourL2[0] = a /\ FourL2[1] = b /\ FourL2[3] = c /\ FourL2[5] = d
      /\ \A k \in {2, 4} : FourL2[k] = NotUsed
  BY StagesOf
<1> HIDE DEF Two, FourL3, FourL2
<1>5. [NoneUsed EXCEPT ![0] = a, ![5] = d] = Two
  BY <1>1, <1>2
<1>6. [NoneUsed EXCEPT ![0] = a, ![1] = b, ![4] = c, ![5] = d] = FourL3
  BY <1>1, <1>3
<1>7. [NoneUsed EXCEPT ![0] = a, ![1] = b, ![3] = c, ![5] = d] = FourL2
  BY <1>1, <1>4
<1>q. QED BY <1>5, <1>6, <1>7 DEF Two, FourL3, FourL2

\* A sequence with another queue, or with a stage that is not used.
LEMMA Joins ==
  ASSUME NEW S, NEW s \in Seq(S), NEW q \in S
  PROVE  /\ s \o Used(NotUsed) = s
         /\ q # NotUsed => s \o Used(q) = Append(s, q)
         /\ q # NotUsed => Used(NotUsed) \o Used(q) = <<q>>
PROOF
<1>1. Used(NotUsed) = <<>> /\ (q # NotUsed => Used(q) = <<q>>)
  BY DEF Used
<1>2. s \o <<>> = s
  BY ConcatEmptySeq
<1>3. s \o <<q>> = Append(s, q)
  BY AppendIsConcat
<1>4. <<q>> \in Seq(S)
  OBVIOUS
<1>5. <<>> \o <<q>> = <<q>>
  BY <1>4, ConcatEmptySeq
<1>q. QED BY <1>1, <1>2, <1>3, <1>5

\* The same for the first queues of a path, one after the other.
LEMMA Joins1 ==
  ASSUME NEW a, NEW q, q # NotUsed
  PROVE  <<a>> \o Used(NotUsed) = <<a>> /\ <<a>> \o Used(q) = <<a, q>>
PROOF
<1> DEFINE S == {a, q}
<1>1. <<a>> \in Seq(S) /\ q \in S
  OBVIOUS
<1> HIDE DEF S
<1>2. <<a>> \o Used(NotUsed) = <<a>> /\ <<a>> \o Used(q) = Append(<<a>>, q)
  BY <1>1, Joins
<1>3. Append(<<a>>, q) = <<a, q>>
  BY Longer
<1>q. QED BY <1>2, <1>3

LEMMA Joins2 ==
  ASSUME NEW a, NEW b, NEW q, q # NotUsed
  PROVE  <<a, b>> \o Used(NotUsed) = <<a, b>> /\ <<a, b>> \o Used(q) = <<a, b, q>>
PROOF
<1> DEFINE S == {a, b, q}
<1>1. <<a, b>> \in Seq(S) /\ q \in S
  OBVIOUS
<1> HIDE DEF S
<1>2. <<a, b>> \o Used(NotUsed) = <<a, b>> /\ <<a, b>> \o Used(q) = Append(<<a, b>>, q)
  BY <1>1, Joins
<1>3. Append(<<a, b>>, q) = <<a, b, q>>
  BY Longer
<1>q. QED BY <1>2, <1>3

LEMMA Joins3 ==
  ASSUME NEW a, NEW b, NEW c, NEW q, q # NotUsed
  PROVE  <<a, b, c>> \o Used(NotUsed) = <<a, b, c>> /\ <<a, b, c>> \o Used(q) = <<a, b, c, q>>
PROOF
<1> DEFINE S == {a, b, c, q}
<1>1. <<a, b, c>> \in Seq(S) /\ q \in S
  OBVIOUS
<1> HIDE DEF S
<1>2. <<a, b, c>> \o Used(NotUsed) = <<a, b, c>> /\ <<a, b, c>> \o Used(q) = Append(<<a, b, c>>, q)
  BY <1>1, Joins
<1>3. Append(<<a, b, c>>, q) = <<a, b, c, q>>
  BY Longer
<1>q. QED BY <1>2, <1>3

LEMMA Joins4 ==
  ASSUME NEW a, NEW b, NEW c, NEW d, NEW q, q # NotUsed
  PROVE  <<a, b, c, d>> \o Used(NotUsed) = <<a, b, c, d>>
         /\ <<a, b, c, d>> \o Used(q) = <<a, b, c, d, q>>
PROOF
<1> DEFINE S == {a, b, c, d, q}
<1>1. <<a, b, c, d>> \in Seq(S) /\ q \in S
  OBVIOUS
<1> HIDE DEF S
<1>2. <<a, b, c, d>> \o Used(NotUsed) = <<a, b, c, d>>
      /\ <<a, b, c, d>> \o Used(q) = Append(<<a, b, c, d>>, q)
  BY <1>1, Joins
<1>3. Append(<<a, b, c, d>>, q) = <<a, b, c, d, q>>
  BY Longer
<1>q. QED BY <1>2, <1>3

LEMMA Joins5 ==
  ASSUME NEW a, NEW b, NEW c, NEW d, NEW e, NEW q, q # NotUsed
  PROVE  <<a, b, c, d, e>> \o Used(NotUsed) = <<a, b, c, d, e>>
         /\ <<a, b, c, d, e>> \o Used(q) = <<a, b, c, d, e, q>>
PROOF
<1> DEFINE S == {a, b, c, d, e, q}
<1>1. <<a, b, c, d, e>> \in Seq(S) /\ q \in S
  OBVIOUS
<1> HIDE DEF S
<1>2. <<a, b, c, d, e>> \o Used(NotUsed) = <<a, b, c, d, e>>
      /\ <<a, b, c, d, e>> \o Used(q) = Append(<<a, b, c, d, e>>, q)
  BY <1>1, Joins
<1>3. Append(<<a, b, c, d, e>>, q) = <<a, b, c, d, e, q>>
  BY Longer
<1>q. QED BY <1>2, <1>3

LEMMA PathTwo ==
  ASSUME NEW a, NEW b, a # NotUsed, b # NotUsed
  PROVE  Path(AtStages(a, NotUsed, NotUsed, NotUsed, NotUsed, b)) = <<a, b>>
PROOF
<1> DEFINE N == Used(NotUsed)
<1>1. Path(AtStages(a, NotUsed, NotUsed, NotUsed, NotUsed, b))
        = Used(a) \o N \o N \o N \o N \o Used(b)
  <2> DEFINE p == AtStages(a, NotUsed, NotUsed, NotUsed, NotUsed, b)
  <2>1. /\ p[0] = a /\ p[1] = NotUsed /\ p[2] = NotUsed
         /\ p[3] = NotUsed /\ p[4] = NotUsed /\ p[5] = b
    BY StagesOf
  <2> HIDE DEF p
  <2>2. Path(p) = Used(a) \o N \o N \o N \o N \o Used(b)
    BY <2>1 DEF Path
  <2>q. QED BY <2>2 DEF p
<1>2. Used(a) = <<a>>
  BY DEF Used
<1>3. <<a>> \o N = <<a>> /\ <<a>> \o Used(b) = <<a, b>>
  <2>1. <<a>> \o N = <<a>>
    BY Joins1
  <2>2. <<a>> \o Used(b) = <<a, b>>
    BY Joins1
  <2>q. QED BY <2>1, <2>2
<1> HIDE DEF N
<1>q. QED BY <1>1, <1>2, <1>3

LEMMA PathFourL3 ==
  ASSUME NEW a, NEW b, NEW c, NEW d,
         a # NotUsed, b # NotUsed, c # NotUsed, d # NotUsed
  PROVE  Path(AtStages(a, b, NotUsed, NotUsed, c, d)) = <<a, b, c, d>>
PROOF
<1> DEFINE N == Used(NotUsed)
<1>1. Path(AtStages(a, b, NotUsed, NotUsed, c, d))
        = Used(a) \o Used(b) \o N \o N \o Used(c) \o Used(d)
  <2> DEFINE p == AtStages(a, b, NotUsed, NotUsed, c, d)
  <2>1. /\ p[0] = a /\ p[1] = b /\ p[2] = NotUsed
         /\ p[3] = NotUsed /\ p[4] = c /\ p[5] = d
    BY StagesOf
  <2> HIDE DEF p
  <2>2. Path(p) = Used(a) \o Used(b) \o N \o N \o Used(c) \o Used(d)
    BY <2>1 DEF Path
  <2>q. QED BY <2>2 DEF p
<1>2. Used(a) = <<a>>
  BY DEF Used
<1>3. /\ <<a>> \o Used(b) = <<a, b>> /\ <<a, b>> \o N = <<a, b>>
      /\ <<a, b>> \o Used(c) = <<a, b, c>>
      /\ <<a, b, c>> \o Used(d) = <<a, b, c, d>>
  <2>1. <<a>> \o Used(b) = <<a, b>>
    BY Joins1
  <2>2. <<a, b>> \o N = <<a, b>>
    BY Joins2
  <2>3. <<a, b>> \o Used(c) = <<a, b, c>>
    BY Joins2
  <2>4. <<a, b, c>> \o Used(d) = <<a, b, c, d>>
    BY Joins3
  <2>q. QED BY <2>1, <2>2, <2>3, <2>4
<1> HIDE DEF N
<1>q. QED BY <1>1, <1>2, <1>3

LEMMA PathFourL2 ==
  ASSUME NEW a, NEW b, NEW c, NEW d,
         a # NotUsed, b # NotUsed, c # NotUsed, d # NotUsed
  PROVE  Path(AtStages(a, b, NotUsed, c, NotUsed, d)) = <<a, b, c, d>>
PROOF
<1> DEFINE N == Used(NotUsed)
<1>1. Path(AtStages(a, b, NotUsed, c, NotUsed, d))
        = Used(a) \o Used(b) \o N \o Used(c) \o N \o Used(d)
  <2> DEFINE p == AtStages(a, b, NotUsed, c, NotUsed, d)
  <2>1. /\ p[0] = a /\ p[1] = b /\ p[2] = NotUsed
         /\ p[3] = c /\ p[4] = NotUsed /\ p[5] = d
    BY StagesOf
  <2> HIDE DEF p
  <2>2. Path(p) = Used(a) \o Used(b) \o N \o Used(c) \o N \o Used(d)
    BY <2>1 DEF Path
  <2>q. QED BY <2>2 DEF p
<1>2. Used(a) = <<a>>
  BY DEF Used
<1>3. /\ <<a>> \o Used(b) = <<a, b>> /\ <<a, b>> \o N = <<a, b>>
      /\ <<a, b>> \o Used(c) = <<a, b, c>> /\ <<a, b, c>> \o N = <<a, b, c>>
      /\ <<a, b, c>> \o Used(d) = <<a, b, c, d>>
  <2>1. <<a>> \o Used(b) = <<a, b>>
    BY Joins1
  <2>2. <<a, b>> \o N = <<a, b>>
    BY Joins2
  <2>3. <<a, b>> \o Used(c) = <<a, b, c>>
    BY Joins2
  <2>4. <<a, b, c>> \o N = <<a, b, c>>
    BY Joins3
  <2>5. <<a, b, c>> \o Used(d) = <<a, b, c, d>>
    BY Joins3
  <2>q. QED BY <2>1, <2>2, <2>3, <2>4, <2>5
<1> HIDE DEF N
<1>q. QED BY <1>1, <1>2, <1>3

LEMMA PathSix ==
  ASSUME NEW a, NEW b, NEW c, NEW d, NEW e, NEW f,
         a # NotUsed, b # NotUsed, c # NotUsed, d # NotUsed, e # NotUsed, f # NotUsed
  PROVE  Path(AtStages(a, b, c, d, e, f)) = <<a, b, c, d, e, f>>
PROOF
<1>1. Path(AtStages(a, b, c, d, e, f))
        = Used(a) \o Used(b) \o Used(c) \o Used(d) \o Used(e) \o Used(f)
  <2> DEFINE p == AtStages(a, b, c, d, e, f)
  <2>1. /\ p[0] = a /\ p[1] = b /\ p[2] = c
         /\ p[3] = d /\ p[4] = e /\ p[5] = f
    BY StagesOf
  <2> HIDE DEF p
  <2>2. Path(p) = Used(a) \o Used(b) \o Used(c) \o Used(d) \o Used(e) \o Used(f)
    BY <2>1 DEF Path
  <2>q. QED BY <2>2 DEF p
<1>2. Used(a) = <<a>>
  BY DEF Used
<1>3. /\ <<a>> \o Used(b) = <<a, b>>
      /\ <<a, b>> \o Used(c) = <<a, b, c>>
      /\ <<a, b, c>> \o Used(d) = <<a, b, c, d>>
      /\ <<a, b, c, d>> \o Used(e) = <<a, b, c, d, e>>
      /\ <<a, b, c, d, e>> \o Used(f) = <<a, b, c, d, e, f>>
  <2>1. <<a>> \o Used(b) = <<a, b>>
    BY Joins1
  <2>2. <<a, b>> \o Used(c) = <<a, b, c>>
    BY Joins2
  <2>3. <<a, b, c>> \o Used(d) = <<a, b, c, d>>
    BY Joins3
  <2>4. <<a, b, c, d>> \o Used(e) = <<a, b, c, d, e>>
    BY Joins4
  <2>5. <<a, b, c, d, e>> \o Used(f) = <<a, b, c, d, e, f>>
    BY Joins5
  <2>q. QED BY <2>1, <2>2, <2>3, <2>4, <2>5
<1>q. QED BY <1>1, <1>2, <1>3

-------------------------------------------------------------------------------
(* Facts of every graph that the trees make.                               *)

\* Every port leads to a device.
Closed == \A d \in Devices : \A q \in Ports(d) : NextDevice(q) \in Devices

LEMMA PortForm ==
  ASSUME NEW d, NEW q \in Ports(d)
  PROVE  q = <<d, q[2]>> /\ q[1] = d /\ q # NotUsed
BY DEF Ports, PortsOf, NotUsed

LEMMA HostPorts ==
  ASSUME NEW h, h.type = "host"
  PROVE  Ports(h) = {HostPort(h)}
BY DEF Ports, PortsOf, HostPort

\* What leads on to a device of a sphere leads on to the next one.
LEMMA Leads ==
  ASSUME NEW s, NEW n \in 1..6, NEW q, NextDevice(q) \in Spheres(s)[n]
  PROVE  \E p \in Towards(q, Spheres(s)[n - 1]) : NextDevice(p) \in Spheres(s)[n - 1]
PROOF
<1>1. Spheres(s)[n] = Behind(Spheres(s)[n - 1])
  BY SphereSteps
<1>2. NextDevice(q) \in Behind(Spheres(s)[n - 1])
  BY <1>1
<1>3. PICK p \in Ports(NextDevice(q)) : NextDevice(p) \in Spheres(s)[n - 1]
  BY <1>2 DEF Behind
<1>q. QED BY <1>3 DEF Towards

LEMMA HostLeads ==
  ASSUME NEW s, NEW n \in 1..6, NEW c \in Spheres(s)[n], c.type = "host"
  PROVE  NextDevice(HostPort(c)) \in Spheres(s)[n - 1]
PROOF
<1>1. Spheres(s)[n] = Behind(Spheres(s)[n - 1])
  BY SphereSteps
<1>2. c \in Behind(Spheres(s)[n - 1])
  BY <1>1
<1>q. QED BY <1>2, HostPorts DEF Behind

\* Where the nearest sphere of a client is known, so are its shortest walks.
LEMMA Nearest ==
  ASSUME NEW c, NEW s, NEW length \in 1..6, c \in Spheres(s)[length],
         \A n \in 1..6 : n < length => c \notin Spheres(s)[n]
  PROVE  ShortestWalks(c, s) = WalksInto(Spheres(s), c, length)
PROOF
<1> DEFINE near == {n \in 1..6 : c \in Spheres(s)[n]}
<1>1. length \in near /\ \A n \in near : length <= n
  OBVIOUS
<1>2. \A n \in near : (\A m \in near : n <= m) => n = length
  BY <1>1
<1>3. (CHOOSE n \in near : \A m \in near : n <= m) = length
  BY <1>1, <1>2
<1>q. QED BY <1>1, <1>3 DEF ShortestWalks

\* All queues of a walk that starts at a device are ports of devices.
LEMMA TowardsQueues ==
  ASSUME Closed, NEW q \in OutputQueues, NEW targets, NEW p \in Towards(q, targets)
  PROVE  p \in OutputQueues /\ p # NotUsed /\ p[1] = NextDevice(q) /\ NextDevice(p) \in targets
PROOF
<1>1. PICK d \in Devices : q \in Ports(d)
  BY DEF OutputQueues
<1>2. NextDevice(q) \in Devices
  BY <1>1 DEF Closed
<1>3. p \in Ports(NextDevice(q)) /\ NextDevice(p) \in targets
  BY DEF Towards
<1>4. p \in OutputQueues
  BY <1>2, <1>3 DEF OutputQueues
<1>q. QED BY <1>3, <1>4, PortForm

LEMMA HostQueue ==
  ASSUME NEW c \in Devices, c.type = "host"
  PROVE  HostPort(c) \in OutputQueues /\ HostPort(c) # NotUsed /\ HostPort(c)[1] = c
PROOF
<1>1. HostPort(c) \in Ports(c)
  BY HostPorts
<1>q. QED BY <1>1, PortForm DEF OutputQueues

-------------------------------------------------------------------------------
(* Finitely many walks.                                                    *)

LEMMA ImageFinite ==
  ASSUME NEW S, IsFiniteSet(S), NEW f
  PROVE  IsFiniteSet({f[x] : x \in S})
PROOF
<1>1. [x \in S |-> f[x]] \in Surjection(S, {f[x] : x \in S})
  BY DEF Surjection
<1>q. QED BY <1>1, FS_Surjection

LEMMA PortsFinite ==
  ASSUME tree \in Trees, NEW d
  PROVE  IsFiniteSet(Ports(d))
PROOF
<1> DEFINE m == IF d.type = "host" THEN 0 ELSE tree.K - 1
           f == [n \in 0..m |-> <<d, n>>]
<1>1. m \in Int
  BY Sizes
<1>2. IsFiniteSet(0..m)
  BY <1>1, FS_Interval
<1>3. IsFiniteSet({f[n] : n \in 0..m})
  <2> HIDE DEF f, m
  <2>q. QED BY <1>2, ImageFinite
<1>4. {f[n] : n \in 0..m} = Ports(d)
  BY DEF Ports, PortsOf
<1>q. QED BY <1>3, <1>4

LEMMA OnwardFinite ==
  ASSUME tree \in Trees, NEW walks, IsFiniteSet(walks), NEW targets
  PROVE  IsFiniteSet(Onward(walks, targets))
PROOF
<1> DEFINE Next_(w) == {p \in Ports(NextDevice(w[Len(w)])) : NextDevice(p) \in targets}
           More(w) == {Append(w, q) : q \in Next_(w)}
           f == [w \in walks |-> More(w)]
<1>1. ASSUME NEW w \in walks PROVE IsFiniteSet(More(w))
  <2>1. IsFiniteSet(Next_(w))
    <3>1. IsFiniteSet(Ports(NextDevice(w[Len(w)])))
      BY PortsFinite
    <3>q. QED BY <3>1, FS_Subset
  <2> DEFINE g == [q \in Next_(w) |-> Append(w, q)]
  <2>2. IsFiniteSet({g[q] : q \in Next_(w)})
    <3> HIDE DEF g, Next_
    <3>q. QED BY <2>1, ImageFinite
  <2>3. {g[q] : q \in Next_(w)} = More(w)
    <3> HIDE DEF Next_
    <3>q. QED OBVIOUS
  <2>q. QED BY <2>2, <2>3
<1> HIDE DEF More
<1>2. IsFiniteSet({f[w] : w \in walks})
  <2> HIDE DEF f
  <2>q. QED BY ImageFinite
<1>3. {f[w] : w \in walks} = {More(w) : w \in walks}
  OBVIOUS
<1>4. IsFiniteSet(UNION {More(w) : w \in walks})
  <2>1. \A T \in {More(w) : w \in walks} : IsFiniteSet(T)
    BY <1>1
  <2>2. IsFiniteSet({More(w) : w \in walks})
    BY <1>2, <1>3
  <2>q. QED BY <2>1, <2>2, FS_UNION
<1>q. QED BY <1>4 DEF Onward, More

LEMMA WalksFinite ==
  ASSUME tree \in Trees, NEW spheres, NEW c, NEW length \in 1..6
  PROVE  IsFiniteSet(WalksInto(spheres, c, length))
PROOF
<1>1. PICK walks : /\ walks[length] = WalksInto(spheres, c, length)
                   /\ walks[1] = {<<HostPort(c)>>}
                   /\ \A n \in 2..length :
                        walks[n] = Onward(walks[n - 1], spheres[length - n])
  BY WalkSteps
<1>2. IsFiniteSet(walks[1])
  BY <1>1, FS_Singleton
<1>3. ASSUME NEW n \in 1..5, n + 1 <= length, IsFiniteSet(walks[n])
      PROVE  IsFiniteSet(walks[n + 1])
  <2>1. n + 1 \in 2..length /\ (n + 1) - 1 = n
    BY <1>3
  <2>2. walks[n + 1] = Onward(walks[n], spheres[length - (n + 1)])
    BY <1>1, <2>1
  <2>q. QED BY <1>3, <2>2, OnwardFinite
<1>4. 2 <= length => IsFiniteSet(walks[2])
  BY <1>2, <1>3
<1>5. 3 <= length => IsFiniteSet(walks[3])
  BY <1>3, <1>4
<1>6. 4 <= length => IsFiniteSet(walks[4])
  BY <1>3, <1>5
<1>7. 5 <= length => IsFiniteSet(walks[5])
  BY <1>3, <1>6
<1>8. 6 <= length => IsFiniteSet(walks[6])
  BY <1>3, <1>7
<1>q. QED BY <1>1, <1>2, <1>4, <1>5, <1>6, <1>7, <1>8

-------------------------------------------------------------------------------
(* What every queue of a walk is.                                          *)

LEMMA TwoWalks ==
  ASSUME Closed, NEW c \in Devices, c.type = "host", NEW s,
         NEW w \in WalksInto(Spheres(s), c, 2)
  PROVE  /\ w = <<w[1], w[2]>> /\ w[1] = HostPort(c)
         /\ w[2] \in Towards(w[1], Spheres(s)[0])
         /\ \A k \in 1..2 : w[k] \in OutputQueues /\ w[k] # NotUsed
         /\ w[1][1] = c
         /\ w[2][1] = NextDevice(w[1])
         /\ NextDevice(w[2]) = s
PROOF
<1>1. PICK p :
        /\ w = <<HostPort(c), p>>
        /\ p \in Towards(HostPort(c), Spheres(s)[0])
  BY TwoSteps
<1>2. w[1] = HostPort(c) /\ w[2] = p
  BY <1>1
<1>3. HostPort(c) \in OutputQueues /\ HostPort(c) # NotUsed /\ HostPort(c)[1] = c
  BY HostQueue
<1>4. /\ p \in OutputQueues /\ p # NotUsed
      /\ p[1] = NextDevice(HostPort(c)) /\ NextDevice(p) \in Spheres(s)[0]
  BY <1>1, <1>3, TowardsQueues
<1>5. NextDevice(p) = s
  BY <1>4, SphereSteps
<1>6. \A k \in 1..2 : k \in {1, 2}
  OBVIOUS
<1>q. QED BY <1>1, <1>2, <1>3, <1>4, <1>5, <1>6

LEMMA FourWalks ==
  ASSUME Closed, NEW c \in Devices, c.type = "host", NEW s,
         NEW w \in WalksInto(Spheres(s), c, 4)
  PROVE  /\ w = <<w[1], w[2], w[3], w[4]>> /\ w[1] = HostPort(c)
         /\ w[2] \in Towards(w[1], Spheres(s)[2])
         /\ w[3] \in Towards(w[2], Spheres(s)[1])
         /\ w[4] \in Towards(w[3], Spheres(s)[0])
         /\ \A k \in 1..4 : w[k] \in OutputQueues /\ w[k] # NotUsed
         /\ w[1][1] = c
         /\ w[2][1] = NextDevice(w[1])
         /\ w[3][1] = NextDevice(w[2])
         /\ w[4][1] = NextDevice(w[3])
         /\ NextDevice(w[4]) = s
PROOF
<1>1. PICK p, q, r :
        /\ w = <<HostPort(c), p, q, r>>
        /\ p \in Towards(HostPort(c), Spheres(s)[2])
        /\ q \in Towards(p, Spheres(s)[1])
        /\ r \in Towards(q, Spheres(s)[0])
  BY FourSteps
<1>2. w[1] = HostPort(c) /\ w[2] = p /\ w[3] = q /\ w[4] = r
  BY <1>1
<1>3. HostPort(c) \in OutputQueues /\ HostPort(c) # NotUsed /\ HostPort(c)[1] = c
  BY HostQueue
<1>4. /\ p \in OutputQueues /\ p # NotUsed
      /\ p[1] = NextDevice(HostPort(c)) /\ NextDevice(p) \in Spheres(s)[2]
  BY <1>1, <1>3, TowardsQueues
<1>5. /\ q \in OutputQueues /\ q # NotUsed
      /\ q[1] = NextDevice(p) /\ NextDevice(q) \in Spheres(s)[1]
  BY <1>1, <1>4, TowardsQueues
<1>6. /\ r \in OutputQueues /\ r # NotUsed
      /\ r[1] = NextDevice(q) /\ NextDevice(r) \in Spheres(s)[0]
  BY <1>1, <1>5, TowardsQueues
<1>7. NextDevice(r) = s
  BY <1>6, SphereSteps
<1>8. \A k \in 1..4 : k \in {1, 2, 3, 4}
  OBVIOUS
<1>q. QED BY <1>1, <1>2, <1>3, <1>4, <1>5, <1>6, <1>7, <1>8

LEMMA SixWalks ==
  ASSUME Closed, NEW c \in Devices, c.type = "host", NEW s,
         NEW w \in WalksInto(Spheres(s), c, 6)
  PROVE  /\ w = <<w[1], w[2], w[3], w[4], w[5], w[6]>> /\ w[1] = HostPort(c)
         /\ w[2] \in Towards(w[1], Spheres(s)[4])
         /\ w[3] \in Towards(w[2], Spheres(s)[3])
         /\ w[4] \in Towards(w[3], Spheres(s)[2])
         /\ w[5] \in Towards(w[4], Spheres(s)[1])
         /\ w[6] \in Towards(w[5], Spheres(s)[0])
         /\ \A k \in 1..6 : w[k] \in OutputQueues /\ w[k] # NotUsed
         /\ w[1][1] = c
         /\ w[2][1] = NextDevice(w[1])
         /\ w[3][1] = NextDevice(w[2])
         /\ w[4][1] = NextDevice(w[3])
         /\ w[5][1] = NextDevice(w[4])
         /\ w[6][1] = NextDevice(w[5])
         /\ NextDevice(w[6]) = s
PROOF
<1>1. PICK p, q, r, t, u :
        /\ w = <<HostPort(c), p, q, r, t, u>>
        /\ p \in Towards(HostPort(c), Spheres(s)[4])
        /\ q \in Towards(p, Spheres(s)[3])
        /\ r \in Towards(q, Spheres(s)[2])
        /\ t \in Towards(r, Spheres(s)[1])
        /\ u \in Towards(t, Spheres(s)[0])
  BY SixSteps
<1>2. w[1] = HostPort(c) /\ w[2] = p /\ w[3] = q /\ w[4] = r /\ w[5] = t /\ w[6] = u
  BY <1>1
<1>3. HostPort(c) \in OutputQueues /\ HostPort(c) # NotUsed /\ HostPort(c)[1] = c
  BY HostQueue
<1>4. /\ p \in OutputQueues /\ p # NotUsed
      /\ p[1] = NextDevice(HostPort(c)) /\ NextDevice(p) \in Spheres(s)[4]
  BY <1>1, <1>3, TowardsQueues
<1>5. /\ q \in OutputQueues /\ q # NotUsed
      /\ q[1] = NextDevice(p) /\ NextDevice(q) \in Spheres(s)[3]
  BY <1>1, <1>4, TowardsQueues
<1>6. /\ r \in OutputQueues /\ r # NotUsed
      /\ r[1] = NextDevice(q) /\ NextDevice(r) \in Spheres(s)[2]
  BY <1>1, <1>5, TowardsQueues
<1>7. /\ t \in OutputQueues /\ t # NotUsed
      /\ t[1] = NextDevice(r) /\ NextDevice(t) \in Spheres(s)[1]
  BY <1>1, <1>6, TowardsQueues
<1>8. /\ u \in OutputQueues /\ u # NotUsed
      /\ u[1] = NextDevice(t) /\ NextDevice(u) \in Spheres(s)[0]
  BY <1>1, <1>7, TowardsQueues
<1>9. NextDevice(u) = s
  BY <1>8, SphereSteps
<1>10. \A k \in 1..6 : k \in {1, 2, 3, 4, 5, 6}
  OBVIOUS
<1>q. QED BY <1>1, <1>2, <1>3, <1>4, <1>5, <1>6, <1>7, <1>8, <1>9, <1>10

\* A device that something leads to can be left the way it was reached.
Returns ==
  \A d \in Devices : (\E b \in Devices : \E p \in Ports(b) : NextDevice(p) = d) =>
    \A q \in Ports(d) : \E r \in Ports(NextDevice(q)) : NextDevice(r) = d

LEMMA WayBack ==
  ASSUME Returns, NEW d \in Devices, NEW b \in Devices, NEW p \in Ports(b),
         NextDevice(p) = d, NEW q \in Ports(d)
  PROVE  \E r \in Ports(NextDevice(q)) : NextDevice(r) = d
BY DEF Returns

LEMMA Nearer ==
  ASSUME NEW s, NEW n \in 0..5, NEW d \in Devices, NEW q \in Ports(d),
         NextDevice(q) \in Spheres(s)[n]
  PROVE  d \in Spheres(s)[n + 1]
PROOF
<1>1. Spheres(s)[n + 1] = Behind(Spheres(s)[n])
  <2>1. n + 1 \in 1..6 /\ (n + 1) - 1 = n
    OBVIOUS
  <2>q. QED BY <2>1, SphereSteps
<1>q. QED BY <1>1 DEF Behind

\* A walk of two queues has one that mirrors it.
LEMMA TwoBack ==
  ASSUME Closed, Returns, NEW c \in Devices, c.type = "host",
         NEW s \in Devices, s.type = "host",
         \E b \in Devices : \E p \in Ports(b) : NextDevice(p) = c,
         NEW w \in WalksInto(Spheres(s), c, 2)
  PROVE  \E v \in WalksInto(Spheres(c), s, 2) : v[2][1] = w[2][1]
PROOF
<1>1. /\ w[1] = HostPort(c) /\ NextDevice(w[2]) = s
      /\ w[2] \in Ports(NextDevice(w[1])) /\ w[2][1] = NextDevice(w[1])
  BY TwoWalks DEF Towards
<1>2. w[1] \in Ports(c)
  BY <1>1, HostPorts
<1>3. NextDevice(w[1]) \in Devices
  BY <1>2 DEF Closed
<1>4. PICK u1 \in Ports(NextDevice(w[1])) : NextDevice(u1) = c
  BY <1>2, WayBack
<1>5. PICK u2 \in Ports(s) : NextDevice(u2) = NextDevice(w[1])
  BY <1>1, <1>2, <1>3, WayBack
<1>6. c \in Spheres(c)[0]
  BY SphereSteps
<1>7. u2 = HostPort(s)
  BY <1>5, HostPorts
<1>8. u1 \in Towards(u2, Spheres(c)[0])
  BY <1>4, <1>5, <1>6 DEF Towards
<1> DEFINE v == <<HostPort(s), u1>>
<1>9. v \in WalksInto(Spheres(c), s, 2)
  BY <1>7, <1>8, TwoSteps
<1>10. v[2] = u1
  OBVIOUS
<1>11. /\ u1[1] = w[2][1]
  BY <1>1, <1>4, PortForm
<1> HIDE DEF v
<1>q. QED BY <1>9, <1>10, <1>11

\* A walk of four queues has one that mirrors it.
LEMMA FourBack ==
  ASSUME Closed, Returns, NEW c \in Devices, c.type = "host",
         NEW s \in Devices, s.type = "host",
         \E b \in Devices : \E p \in Ports(b) : NextDevice(p) = c,
         NEW w \in WalksInto(Spheres(s), c, 4)
  PROVE  \E v \in WalksInto(Spheres(c), s, 4) : v[2][1] = w[4][1] /\ v[3][1] = w[3][1]
         /\ v[4][1] = w[2][1]
PROOF
<1>1. /\ w[1] = HostPort(c) /\ NextDevice(w[4]) = s
      /\ w[2] \in Ports(NextDevice(w[1])) /\ w[2][1] = NextDevice(w[1])
      /\ w[3] \in Ports(NextDevice(w[2])) /\ w[3][1] = NextDevice(w[2])
      /\ w[4] \in Ports(NextDevice(w[3])) /\ w[4][1] = NextDevice(w[3])
  BY FourWalks DEF Towards
<1>2. w[1] \in Ports(c)
  BY <1>1, HostPorts
<1>3. NextDevice(w[1]) \in Devices
  BY <1>2 DEF Closed
<1>4. NextDevice(w[2]) \in Devices
  BY <1>1, <1>3 DEF Closed
<1>5. NextDevice(w[3]) \in Devices
  BY <1>1, <1>4 DEF Closed
<1>6. PICK u1 \in Ports(NextDevice(w[1])) : NextDevice(u1) = c
  BY <1>2, WayBack
<1>7. PICK u2 \in Ports(NextDevice(w[2])) : NextDevice(u2) = NextDevice(w[1])
  BY <1>1, <1>2, <1>3, WayBack
<1>8. PICK u3 \in Ports(NextDevice(w[3])) : NextDevice(u3) = NextDevice(w[2])
  BY <1>1, <1>3, <1>4, WayBack
<1>9. PICK u4 \in Ports(s) : NextDevice(u4) = NextDevice(w[3])
  BY <1>1, <1>4, <1>5, WayBack
<1>10. c \in Spheres(c)[0]
  BY SphereSteps
<1>11. NextDevice(w[1]) \in Spheres(c)[1]
  BY <1>3, <1>6, <1>10, Nearer
<1>12. NextDevice(w[2]) \in Spheres(c)[2]
  BY <1>4, <1>7, <1>11, Nearer
<1>13. u4 = HostPort(s)
  BY <1>9, HostPorts
<1>14. u3 \in Towards(u4, Spheres(c)[2])
  BY <1>8, <1>9, <1>12 DEF Towards
<1>15. u2 \in Towards(u3, Spheres(c)[1])
  BY <1>7, <1>8, <1>11 DEF Towards
<1>16. u1 \in Towards(u2, Spheres(c)[0])
  BY <1>6, <1>7, <1>10 DEF Towards
<1> DEFINE v == <<HostPort(s), u3, u2, u1>>
<1>17. v \in WalksInto(Spheres(c), s, 4)
  BY <1>13, <1>14, <1>15, <1>16, FourSteps
<1>18. v[2] = u3 /\ v[3] = u2 /\ v[4] = u1
  OBVIOUS
<1>19. /\ u3[1] = w[4][1]
      /\ u2[1] = w[3][1]
      /\ u1[1] = w[2][1]
  BY <1>1, <1>8, <1>7, <1>6, PortForm
<1> HIDE DEF v
<1>q. QED BY <1>17, <1>18, <1>19

\* A walk of six queues has one that mirrors it.
LEMMA SixBack ==
  ASSUME Closed, Returns, NEW c \in Devices, c.type = "host",
         NEW s \in Devices, s.type = "host",
         \E b \in Devices : \E p \in Ports(b) : NextDevice(p) = c,
         NEW w \in WalksInto(Spheres(s), c, 6)
  PROVE  \E v \in WalksInto(Spheres(c), s, 6) : v[2][1] = w[6][1] /\ v[3][1] = w[5][1]
         /\ v[4][1] = w[4][1] /\ v[5][1] = w[3][1] /\ v[6][1] = w[2][1]
PROOF
<1>1. /\ w[1] = HostPort(c) /\ NextDevice(w[6]) = s
      /\ w[2] \in Ports(NextDevice(w[1])) /\ w[2][1] = NextDevice(w[1])
      /\ w[3] \in Ports(NextDevice(w[2])) /\ w[3][1] = NextDevice(w[2])
      /\ w[4] \in Ports(NextDevice(w[3])) /\ w[4][1] = NextDevice(w[3])
      /\ w[5] \in Ports(NextDevice(w[4])) /\ w[5][1] = NextDevice(w[4])
      /\ w[6] \in Ports(NextDevice(w[5])) /\ w[6][1] = NextDevice(w[5])
  BY SixWalks DEF Towards
<1>2. w[1] \in Ports(c)
  BY <1>1, HostPorts
<1>3. NextDevice(w[1]) \in Devices
  BY <1>2 DEF Closed
<1>4. NextDevice(w[2]) \in Devices
  BY <1>1, <1>3 DEF Closed
<1>5. NextDevice(w[3]) \in Devices
  BY <1>1, <1>4 DEF Closed
<1>6. NextDevice(w[4]) \in Devices
  BY <1>1, <1>5 DEF Closed
<1>7. NextDevice(w[5]) \in Devices
  BY <1>1, <1>6 DEF Closed
<1>8. PICK u1 \in Ports(NextDevice(w[1])) : NextDevice(u1) = c
  BY <1>2, WayBack
<1>9. PICK u2 \in Ports(NextDevice(w[2])) : NextDevice(u2) = NextDevice(w[1])
  BY <1>1, <1>2, <1>3, WayBack
<1>10. PICK u3 \in Ports(NextDevice(w[3])) : NextDevice(u3) = NextDevice(w[2])
  BY <1>1, <1>3, <1>4, WayBack
<1>11. PICK u4 \in Ports(NextDevice(w[4])) : NextDevice(u4) = NextDevice(w[3])
  BY <1>1, <1>4, <1>5, WayBack
<1>12. PICK u5 \in Ports(NextDevice(w[5])) : NextDevice(u5) = NextDevice(w[4])
  BY <1>1, <1>5, <1>6, WayBack
<1>13. PICK u6 \in Ports(s) : NextDevice(u6) = NextDevice(w[5])
  BY <1>1, <1>6, <1>7, WayBack
<1>14. c \in Spheres(c)[0]
  BY SphereSteps
<1>15. NextDevice(w[1]) \in Spheres(c)[1]
  BY <1>3, <1>8, <1>14, Nearer
<1>16. NextDevice(w[2]) \in Spheres(c)[2]
  BY <1>4, <1>9, <1>15, Nearer
<1>17. NextDevice(w[3]) \in Spheres(c)[3]
  BY <1>5, <1>10, <1>16, Nearer
<1>18. NextDevice(w[4]) \in Spheres(c)[4]
  BY <1>6, <1>11, <1>17, Nearer
<1>19. u6 = HostPort(s)
  BY <1>13, HostPorts
<1>20. u5 \in Towards(u6, Spheres(c)[4])
  BY <1>12, <1>13, <1>18 DEF Towards
<1>21. u4 \in Towards(u5, Spheres(c)[3])
  BY <1>11, <1>12, <1>17 DEF Towards
<1>22. u3 \in Towards(u4, Spheres(c)[2])
  BY <1>10, <1>11, <1>16 DEF Towards
<1>23. u2 \in Towards(u3, Spheres(c)[1])
  BY <1>9, <1>10, <1>15 DEF Towards
<1>24. u1 \in Towards(u2, Spheres(c)[0])
  BY <1>8, <1>9, <1>14 DEF Towards
<1> DEFINE v == <<HostPort(s), u5, u4, u3, u2, u1>>
<1>25. v \in WalksInto(Spheres(c), s, 6)
  BY <1>19, <1>20, <1>21, <1>22, <1>23, <1>24, SixSteps
<1>26. v[2] = u5 /\ v[3] = u4 /\ v[4] = u3 /\ v[5] = u2 /\ v[6] = u1
  OBVIOUS
<1>27. /\ u5[1] = w[6][1]
      /\ u4[1] = w[5][1]
      /\ u3[1] = w[4][1]
      /\ u2[1] = w[3][1]
      /\ u1[1] = w[2][1]
  BY <1>1, <1>12, <1>11, <1>10, <1>9, <1>8, PortForm
<1> HIDE DEF v
<1>q. QED BY <1>25, <1>26, <1>27

-------------------------------------------------------------------------------
(* The devices of walks, on the way there and on the way back.             *)

Vias(walks) == {Tail([i \in 1..Len(w) |-> w[i][1]]) : w \in walks}
Backs(walks) == {[i \in 1..Len(w) - 1 |-> w[Len(w) + 1 - i][1]] : w \in walks}

LEMMA TailOf ==
  ASSUME NEW L \in Nat \ {0}, NEW w
  PROVE  Tail([i \in 1..L |-> w[i][1]]) = [i \in 1..L - 1 |-> w[i + 1][1]]
PROOF
<1> DEFINE f == [i \in 1..L |-> w[i][1]]
           S == {f[i] : i \in 1..L}
<1>1. f \in Seq(S) /\ Len(f) = L /\ f # <<>>
  OBVIOUS
<1>2. \A i \in 1..L - 1 : f[i + 1] = w[i + 1][1]
  OBVIOUS
<1> HIDE DEF f, S
<1>3. /\ Tail(f) \in Seq(S) /\ Len(Tail(f)) = L - 1
      /\ \A i \in 1..Len(Tail(f)) : Tail(f)[i] = f[i + 1]
  BY <1>1, HeadTailProperties
<1>4. Tail(f) = [i \in 1..L - 1 |-> Tail(f)[i]]
  BY <1>3, LenProperties
<1>q. QED BY <1>2, <1>3, <1>4 DEF f

\* Each of the walks W has one in V that mirrors it.
Mirrors(V, W, L) ==
  \A w \in W : Len(w) = L /\ \E v \in V : \A k \in 2..L : v[k][1] = w[L + 2 - k][1]

LEMMA Mirrored ==
  ASSUME NEW L \in Nat \ {0}, NEW W, NEW V,
         Mirrors(V, W, L), Mirrors(W, V, L)
  PROVE  Vias(W) = Backs(V)
PROOF
<1> DEFINE Via(w) == [i \in 1..L - 1 |-> w[i + 1][1]]
           Back(v) == [i \in 1..L - 1 |-> v[L + 1 - i][1]]
<1>1. Vias(W) = {Via(w) : w \in W}
  <2>1. \A w \in W : Tail([i \in 1..Len(w) |-> w[i][1]]) = Via(w)
    BY TailOf DEF Mirrors
  <2> HIDE DEF Via
  <2>q. QED BY <2>1 DEF Vias
<1>2. Backs(V) = {Back(v) : v \in V}
  <2> DEFINE Own(v) == [i \in 1..Len(v) - 1 |-> v[Len(v) + 1 - i][1]]
  <2>1. \A v \in V : Own(v) = Back(v)
    BY DEF Mirrors
  <2>2. Backs(V) = {Own(v) : v \in V}
    BY DEF Backs
  <2> HIDE DEF Back, Own
  <2>q. QED BY <2>1, <2>2
<1>3. ASSUME NEW w \in W PROVE \E v \in V : Via(w) = Back(v)
  <2>1. PICK v \in V : \A k \in 2..L : v[k][1] = w[L + 2 - k][1]
    BY DEF Mirrors
  <2>2. ASSUME NEW i \in 1..L - 1 PROVE v[L + 1 - i][1] = w[i + 1][1]
    <3>1. L + 1 - i \in 2..L /\ L + 2 - (L + 1 - i) = i + 1
      OBVIOUS
    <3>q. QED BY <2>1, <3>1
  <2>3. Via(w) = Back(v)
    BY <2>2
  <2>q. QED BY <2>3
<1>4. ASSUME NEW v \in V PROVE \E w \in W : Via(w) = Back(v)
  <2>1. PICK w \in W : \A k \in 2..L : w[k][1] = v[L + 2 - k][1]
    BY DEF Mirrors
  <2>2. ASSUME NEW i \in 1..L - 1 PROVE v[L + 1 - i][1] = w[i + 1][1]
    <3>1. i + 1 \in 2..L /\ L + 2 - (i + 1) = L + 1 - i
      OBVIOUS
    <3>q. QED BY <2>1, <3>1
  <2>3. Via(w) = Back(v)
    BY <2>2
  <2>q. QED BY <2>3
<1> HIDE DEF Via, Back
<1>q. QED BY <1>1, <1>2, <1>3, <1>4

\* A device that something leads to.
Reached(d) == \E b \in Devices : \E p \in Ports(b) : NextDevice(p) = d

LEMMA TwoMirror ==
  ASSUME Closed, Returns, NEW c \in Devices, c.type = "host", Reached(c),
         NEW s \in Devices, s.type = "host", Reached(s)
  PROVE  Vias(WalksInto(Spheres(s), c, 2)) = Backs(WalksInto(Spheres(c), s, 2))
PROOF
<1> DEFINE W == WalksInto(Spheres(s), c, 2)
           V == WalksInto(Spheres(c), s, 2)
<1>0. PICK L \in Nat \ {0} : L = 2
  OBVIOUS
<1>1. \A w \in W : Len(w) = L
  BY <1>0, TwoWalks
<1>2. \A v \in V : Len(v) = L
  BY <1>0, TwoWalks
<1>3. \A k \in 2..L : k \in {2}
  BY <1>0
<1>4. ASSUME NEW w \in W
      PROVE  \E v \in V : \A k \in 2..L : v[k][1] = w[L + 2 - k][1]
  <2>1. PICK v \in V : v[2][1] = w[2][1]
    BY TwoBack DEF Reached
  <2>q. QED BY <1>0, <1>3, <2>1
<1>5. ASSUME NEW v \in V
      PROVE  \E w \in W : \A k \in 2..L : w[k][1] = v[L + 2 - k][1]
  <2>1. PICK w \in W : w[2][1] = v[2][1]
    BY TwoBack DEF Reached
  <2>q. QED BY <1>0, <1>3, <2>1
<1> HIDE DEF W, V
<1>6. Mirrors(V, W, L) /\ Mirrors(W, V, L)
  BY <1>1, <1>2, <1>4, <1>5 DEF Mirrors
<1>7. Vias(W) = Backs(V)
  BY <1>6, Mirrored
<1>q. QED BY <1>7 DEF W, V

LEMMA FourMirror ==
  ASSUME Closed, Returns, NEW c \in Devices, c.type = "host", Reached(c),
         NEW s \in Devices, s.type = "host", Reached(s)
  PROVE  Vias(WalksInto(Spheres(s), c, 4)) = Backs(WalksInto(Spheres(c), s, 4))
PROOF
<1> DEFINE W == WalksInto(Spheres(s), c, 4)
           V == WalksInto(Spheres(c), s, 4)
<1>0. PICK L \in Nat \ {0} : L = 4
  OBVIOUS
<1>1. \A w \in W : Len(w) = L
  BY <1>0, FourWalks
<1>2. \A v \in V : Len(v) = L
  BY <1>0, FourWalks
<1>3. \A k \in 2..L : k \in {2, 3, 4}
  BY <1>0
<1>4. ASSUME NEW w \in W
      PROVE  \E v \in V : \A k \in 2..L : v[k][1] = w[L + 2 - k][1]
  <2>1. PICK v \in V : v[2][1] = w[4][1] /\ v[3][1] = w[3][1] /\ v[4][1] = w[2][1]
    BY FourBack DEF Reached
  <2>q. QED BY <1>0, <1>3, <2>1
<1>5. ASSUME NEW v \in V
      PROVE  \E w \in W : \A k \in 2..L : w[k][1] = v[L + 2 - k][1]
  <2>1. PICK w \in W : w[2][1] = v[4][1] /\ w[3][1] = v[3][1] /\ w[4][1] = v[2][1]
    BY FourBack DEF Reached
  <2>q. QED BY <1>0, <1>3, <2>1
<1> HIDE DEF W, V
<1>6. Mirrors(V, W, L) /\ Mirrors(W, V, L)
  BY <1>1, <1>2, <1>4, <1>5 DEF Mirrors
<1>7. Vias(W) = Backs(V)
  BY <1>6, Mirrored
<1>q. QED BY <1>7 DEF W, V

LEMMA SixMirror ==
  ASSUME Closed, Returns, NEW c \in Devices, c.type = "host", Reached(c),
         NEW s \in Devices, s.type = "host", Reached(s)
  PROVE  Vias(WalksInto(Spheres(s), c, 6)) = Backs(WalksInto(Spheres(c), s, 6))
PROOF
<1> DEFINE W == WalksInto(Spheres(s), c, 6)
           V == WalksInto(Spheres(c), s, 6)
<1>0. PICK L \in Nat \ {0} : L = 6
  OBVIOUS
<1>1. \A w \in W : Len(w) = L
  BY <1>0, SixWalks
<1>2. \A v \in V : Len(v) = L
  BY <1>0, SixWalks
<1>3. \A k \in 2..L : k \in {2, 3, 4, 5, 6}
  BY <1>0
<1>4. ASSUME NEW w \in W
      PROVE  \E v \in V : \A k \in 2..L : v[k][1] = w[L + 2 - k][1]
  <2>1. PICK v \in V : v[2][1] = w[6][1] /\ v[3][1] = w[5][1] /\ v[4][1] = w[4][1]
             /\ v[5][1] = w[3][1] /\ v[6][1] = w[2][1]
    BY SixBack DEF Reached
  <2>q. QED BY <1>0, <1>3, <2>1
<1>5. ASSUME NEW v \in V
      PROVE  \E w \in W : \A k \in 2..L : w[k][1] = v[L + 2 - k][1]
  <2>1. PICK w \in W : w[2][1] = v[6][1] /\ w[3][1] = v[5][1] /\ w[4][1] = v[4][1]
             /\ w[5][1] = v[3][1] /\ w[6][1] = v[2][1]
    BY SixBack DEF Reached
  <2>q. QED BY <1>0, <1>3, <2>1
<1> HIDE DEF W, V
<1>6. Mirrors(V, W, L) /\ Mirrors(W, V, L)
  BY <1>1, <1>2, <1>4, <1>5 DEF Mirrors
<1>7. Vias(W) = Backs(V)
  BY <1>6, Mirrored
<1>q. QED BY <1>7 DEF W, V

-------------------------------------------------------------------------------
(* Splits that are made of walks.                                          *)

SplitOf(split) ==
  DOMAIN split = 0..5 /\ \A k \in 0..5 : split[k] \in OutputQueues \cup {NotUsed}

MadeOf(splits, walks) ==
  /\ {Path(split) : split \in splits} = walks
  /\ IsFiniteSet(splits)
  /\ \A split \in splits : SplitOf(split)

LEMMA OfTwoStages ==
  ASSUME tree \in Trees, Closed, NEW c \in Devices, c.type = "host", NEW s
  PROVE  MadeOf({TwoStages(w) : w \in WalksInto(Spheres(s), c, 2)}, WalksInto(Spheres(s), c, 2))
PROOF
<1> DEFINE W == WalksInto(Spheres(s), c, 2)
           F == {TwoStages(w) : w \in W}
           f == [w \in W |-> TwoStages(w)]
<1>1. ASSUME NEW w \in W
      PROVE  Path(TwoStages(w)) = w /\ SplitOf(TwoStages(w))
  <2>1. w = <<w[1], w[2]>> /\ \A k \in 1..2 : w[k] \in OutputQueues /\ w[k] # NotUsed
    BY TwoWalks
  <2>2. w[1] \in OutputQueues /\ w[1] # NotUsed /\ w[2] \in OutputQueues /\ w[2] # NotUsed
    BY <2>1
  <2>3. Path(TwoStages(w)) = <<w[1], w[2]>>
    BY <2>2, PathTwo DEF TwoStages
  <2>4. SplitOf(TwoStages(w))
    <3>1. \A k \in 0..5 : k \in {0, 1, 2, 3, 4, 5}
      OBVIOUS
    <3>q. QED BY <2>2, <3>1, StagesOf DEF SplitOf, TwoStages
  <2>q. QED BY <2>1, <2>3, <2>4
<1>2. IsFiniteSet(F)
  <2>1. IsFiniteSet(W)
    BY WalksFinite
  <2>2. IsFiniteSet({f[w] : w \in W})
    <3> HIDE DEF f, W
    <3>q. QED BY <2>1, ImageFinite
  <2>3. {f[w] : w \in W} = F
    <3> HIDE DEF W
    <3>q. QED OBVIOUS
  <2>q. QED BY <2>2, <2>3
<1> HIDE DEF W
<1>3. {Path(split) : split \in F} = W /\ \A split \in F : SplitOf(split)
  BY <1>1
<1> HIDE DEF F
<1>4. MadeOf(F, W)
  BY <1>2, <1>3 DEF MadeOf
<1>q. QED BY <1>4 DEF F, W

LEMMA OfFourStagesL3 ==
  ASSUME tree \in Trees, Closed, NEW c \in Devices, c.type = "host", NEW s
  PROVE  MadeOf({FourStagesL3(w) : w \in WalksInto(Spheres(s), c, 4)}, WalksInto(Spheres(s), c, 4))
PROOF
<1> DEFINE W == WalksInto(Spheres(s), c, 4)
           F == {FourStagesL3(w) : w \in W}
           f == [w \in W |-> FourStagesL3(w)]
<1>1. ASSUME NEW w \in W
      PROVE  Path(FourStagesL3(w)) = w /\ SplitOf(FourStagesL3(w))
  <2>1. w = <<w[1], w[2], w[3], w[4]>> /\ \A k \in 1..4 : w[k] \in OutputQueues /\ w[k] # NotUsed
    BY FourWalks
  <2>2. w[1] \in OutputQueues /\ w[1] # NotUsed /\ w[2] \in OutputQueues /\ w[2] # NotUsed
        /\ w[3] \in OutputQueues /\ w[3] # NotUsed /\ w[4] \in OutputQueues /\ w[4] # NotUsed
    BY <2>1
  <2>3. Path(FourStagesL3(w)) = <<w[1], w[2], w[3], w[4]>>
    BY <2>2, PathFourL3 DEF FourStagesL3
  <2>4. SplitOf(FourStagesL3(w))
    <3>1. \A k \in 0..5 : k \in {0, 1, 2, 3, 4, 5}
      OBVIOUS
    <3>q. QED BY <2>2, <3>1, StagesOf DEF SplitOf, FourStagesL3
  <2>q. QED BY <2>1, <2>3, <2>4
<1>2. IsFiniteSet(F)
  <2>1. IsFiniteSet(W)
    BY WalksFinite
  <2>2. IsFiniteSet({f[w] : w \in W})
    <3> HIDE DEF f, W
    <3>q. QED BY <2>1, ImageFinite
  <2>3. {f[w] : w \in W} = F
    <3> HIDE DEF W
    <3>q. QED OBVIOUS
  <2>q. QED BY <2>2, <2>3
<1> HIDE DEF W
<1>3. {Path(split) : split \in F} = W /\ \A split \in F : SplitOf(split)
  BY <1>1
<1> HIDE DEF F
<1>4. MadeOf(F, W)
  BY <1>2, <1>3 DEF MadeOf
<1>q. QED BY <1>4 DEF F, W

LEMMA OfFourStagesL2 ==
  ASSUME tree \in Trees, Closed, NEW c \in Devices, c.type = "host", NEW s
  PROVE  MadeOf({FourStagesL2(w) : w \in WalksInto(Spheres(s), c, 4)}, WalksInto(Spheres(s), c, 4))
PROOF
<1> DEFINE W == WalksInto(Spheres(s), c, 4)
           F == {FourStagesL2(w) : w \in W}
           f == [w \in W |-> FourStagesL2(w)]
<1>1. ASSUME NEW w \in W
      PROVE  Path(FourStagesL2(w)) = w /\ SplitOf(FourStagesL2(w))
  <2>1. w = <<w[1], w[2], w[3], w[4]>> /\ \A k \in 1..4 : w[k] \in OutputQueues /\ w[k] # NotUsed
    BY FourWalks
  <2>2. w[1] \in OutputQueues /\ w[1] # NotUsed /\ w[2] \in OutputQueues /\ w[2] # NotUsed
        /\ w[3] \in OutputQueues /\ w[3] # NotUsed /\ w[4] \in OutputQueues /\ w[4] # NotUsed
    BY <2>1
  <2>3. Path(FourStagesL2(w)) = <<w[1], w[2], w[3], w[4]>>
    BY <2>2, PathFourL2 DEF FourStagesL2
  <2>4. SplitOf(FourStagesL2(w))
    <3>1. \A k \in 0..5 : k \in {0, 1, 2, 3, 4, 5}
      OBVIOUS
    <3>q. QED BY <2>2, <3>1, StagesOf DEF SplitOf, FourStagesL2
  <2>q. QED BY <2>1, <2>3, <2>4
<1>2. IsFiniteSet(F)
  <2>1. IsFiniteSet(W)
    BY WalksFinite
  <2>2. IsFiniteSet({f[w] : w \in W})
    <3> HIDE DEF f, W
    <3>q. QED BY <2>1, ImageFinite
  <2>3. {f[w] : w \in W} = F
    <3> HIDE DEF W
    <3>q. QED OBVIOUS
  <2>q. QED BY <2>2, <2>3
<1> HIDE DEF W
<1>3. {Path(split) : split \in F} = W /\ \A split \in F : SplitOf(split)
  BY <1>1
<1> HIDE DEF F
<1>4. MadeOf(F, W)
  BY <1>2, <1>3 DEF MadeOf
<1>q. QED BY <1>4 DEF F, W

LEMMA OfSixStages ==
  ASSUME tree \in Trees, Closed, NEW c \in Devices, c.type = "host", NEW s
  PROVE  MadeOf({SixStages(w) : w \in WalksInto(Spheres(s), c, 6)}, WalksInto(Spheres(s), c, 6))
PROOF
<1> DEFINE W == WalksInto(Spheres(s), c, 6)
           F == {SixStages(w) : w \in W}
           f == [w \in W |-> SixStages(w)]
<1>1. ASSUME NEW w \in W
      PROVE  Path(SixStages(w)) = w /\ SplitOf(SixStages(w))
  <2>1. w = <<w[1], w[2], w[3], w[4], w[5], w[6]>> /\ \A k \in 1..6 : w[k] \in OutputQueues
        /\ w[k] # NotUsed
    BY SixWalks
  <2>2. w[1] \in OutputQueues /\ w[1] # NotUsed /\ w[2] \in OutputQueues /\ w[2] # NotUsed
        /\ w[3] \in OutputQueues /\ w[3] # NotUsed /\ w[4] \in OutputQueues /\ w[4] # NotUsed
        /\ w[5] \in OutputQueues /\ w[5] # NotUsed /\ w[6] \in OutputQueues /\ w[6] # NotUsed
    BY <2>1
  <2>3. Path(SixStages(w)) = <<w[1], w[2], w[3], w[4], w[5], w[6]>>
    BY <2>2, PathSix DEF SixStages
  <2>4. SplitOf(SixStages(w))
    <3>1. \A k \in 0..5 : k \in {0, 1, 2, 3, 4, 5}
      OBVIOUS
    <3>q. QED BY <2>2, <3>1, StagesOf DEF SplitOf, SixStages
  <2>q. QED BY <2>1, <2>3, <2>4
<1>2. IsFiniteSet(F)
  <2>1. IsFiniteSet(W)
    BY WalksFinite
  <2>2. IsFiniteSet({f[w] : w \in W})
    <3> HIDE DEF f, W
    <3>q. QED BY <2>1, ImageFinite
  <2>3. {f[w] : w \in W} = F
    <3> HIDE DEF W
    <3>q. QED OBVIOUS
  <2>q. QED BY <2>2, <2>3
<1> HIDE DEF W
<1>3. {Path(split) : split \in F} = W /\ \A split \in F : SplitOf(split)
  BY <1>1
<1> HIDE DEF F
<1>4. MadeOf(F, W)
  BY <1>2, <1>3 DEF MadeOf
<1>q. QED BY <1>4 DEF F, W

LEMMA SomeTwo ==
  ASSUME NEW s, NEW c \in Spheres(s)[2], c.type = "host"
  PROVE  WalksInto(Spheres(s), c, 2) # {}
PROOF
<1>1. NextDevice(HostPort(c)) \in Spheres(s)[1]
  BY HostLeads
<1>2. PICK p \in Towards(HostPort(c), Spheres(s)[0]) : NextDevice(p) \in Spheres(s)[0]
  BY <1>1, Leads
<1>3. <<HostPort(c), p>> \in WalksInto(Spheres(s), c, 2)
  BY <1>2, TwoSteps
<1>q. QED BY <1>3

LEMMA SomeFour ==
  ASSUME NEW s, NEW c \in Spheres(s)[4], c.type = "host"
  PROVE  WalksInto(Spheres(s), c, 4) # {}
PROOF
<1>1. NextDevice(HostPort(c)) \in Spheres(s)[3]
  BY HostLeads
<1>2. PICK p \in Towards(HostPort(c), Spheres(s)[2]) : NextDevice(p) \in Spheres(s)[2]
  BY <1>1, Leads
<1>3. PICK q \in Towards(p, Spheres(s)[1]) : NextDevice(q) \in Spheres(s)[1]
  BY <1>2, Leads
<1>4. PICK r \in Towards(q, Spheres(s)[0]) : NextDevice(r) \in Spheres(s)[0]
  BY <1>3, Leads
<1>5. <<HostPort(c), p, q, r>> \in WalksInto(Spheres(s), c, 4)
  BY <1>2, <1>3, <1>4, FourSteps
<1>q. QED BY <1>5

LEMMA SomeSix ==
  ASSUME NEW s, NEW c \in Spheres(s)[6], c.type = "host"
  PROVE  WalksInto(Spheres(s), c, 6) # {}
PROOF
<1>1. NextDevice(HostPort(c)) \in Spheres(s)[5]
  BY HostLeads
<1>2. PICK p \in Towards(HostPort(c), Spheres(s)[4]) : NextDevice(p) \in Spheres(s)[4]
  BY <1>1, Leads
<1>3. PICK q \in Towards(p, Spheres(s)[3]) : NextDevice(q) \in Spheres(s)[3]
  BY <1>2, Leads
<1>4. PICK r \in Towards(q, Spheres(s)[2]) : NextDevice(r) \in Spheres(s)[2]
  BY <1>3, Leads
<1>5. PICK t \in Towards(r, Spheres(s)[1]) : NextDevice(t) \in Spheres(s)[1]
  BY <1>4, Leads
<1>6. PICK u \in Towards(t, Spheres(s)[0]) : NextDevice(u) \in Spheres(s)[0]
  BY <1>5, Leads
<1>7. <<HostPort(c), p, q, r, t, u>> \in WalksInto(Spheres(s), c, 6)
  BY <1>2, <1>3, <1>4, <1>5, <1>6, SixSteps
<1>q. QED BY <1>7

-------------------------------------------------------------------------------
(* The splits of walks, by the queues of the walks.                        *)

LEMMA InTwoStages ==
  ASSUME NEW spheres, NEW c
  PROVE  \A f : (\E w \in WalksInto(spheres, c, 2) : f = TwoStages(w)) <=>
           \E p \in Towards(HostPort(c), spheres[0]) :
             f = AtStages(HostPort(c), NotUsed, NotUsed, NotUsed, NotUsed, p)
PROOF
<1>1. \A a, p : TwoStages(<<a, p>>) = AtStages(a, NotUsed, NotUsed, NotUsed, NotUsed, p)
  BY DEF TwoStages
<1>2. ASSUME NEW f, \E w \in WalksInto(spheres, c, 2) : f = TwoStages(w)
      PROVE
           \E p \in Towards(HostPort(c), spheres[0]) :
             f = AtStages(HostPort(c), NotUsed, NotUsed, NotUsed, NotUsed, p)
  <2>1. PICK w \in WalksInto(spheres, c, 2) : f = TwoStages(w)
    BY <1>2
  <2>2. PICK p :
          /\ p \in Towards(HostPort(c), spheres[0])
          /\ w = <<HostPort(c), p>>
    BY TwoSteps
  <2>q. QED BY <1>1, <2>1, <2>2
<1>3. ASSUME NEW f, NEW p \in Towards(HostPort(c), spheres[0]),
             f = AtStages(HostPort(c), NotUsed, NotUsed, NotUsed, NotUsed, p)
      PROVE  \E w \in WalksInto(spheres, c, 2) : f = TwoStages(w)
  <2>1. <<HostPort(c), p>> \in WalksInto(spheres, c, 2)
    BY TwoSteps
  <2>2. f = TwoStages(<<HostPort(c), p>>)
    BY <1>1, <1>3
  <2>q. QED BY <2>1, <2>2
<1>q. QED BY <1>2, <1>3

LEMMA InFourStagesL3 ==
  ASSUME NEW spheres, NEW c
  PROVE  \A f : (\E w \in WalksInto(spheres, c, 4) : f = FourStagesL3(w)) <=>
           \E p \in Towards(HostPort(c), spheres[2]) :
             \E q \in Towards(p, spheres[1]) :
               \E r \in Towards(q, spheres[0]) :
                 f = AtStages(HostPort(c), p, NotUsed, NotUsed, q, r)
PROOF
<1>1. \A a, p, q, r : FourStagesL3(<<a, p, q, r>>) = AtStages(a, p, NotUsed, NotUsed, q, r)
  BY DEF FourStagesL3
<1>2. ASSUME NEW f, \E w \in WalksInto(spheres, c, 4) : f = FourStagesL3(w)
      PROVE
           \E p \in Towards(HostPort(c), spheres[2]) :
             \E q \in Towards(p, spheres[1]) :
               \E r \in Towards(q, spheres[0]) :
                 f = AtStages(HostPort(c), p, NotUsed, NotUsed, q, r)
  <2>1. PICK w \in WalksInto(spheres, c, 4) : f = FourStagesL3(w)
    BY <1>2
  <2>2. PICK p, q, r :
          /\ p \in Towards(HostPort(c), spheres[2])
          /\ q \in Towards(p, spheres[1])
          /\ r \in Towards(q, spheres[0])
          /\ w = <<HostPort(c), p, q, r>>
    BY FourSteps
  <2>q. QED BY <1>1, <2>1, <2>2
<1>3. ASSUME NEW f, NEW p \in Towards(HostPort(c), spheres[2]),
             NEW q \in Towards(p, spheres[1]), NEW r \in Towards(q, spheres[0]),
             f = AtStages(HostPort(c), p, NotUsed, NotUsed, q, r)
      PROVE  \E w \in WalksInto(spheres, c, 4) : f = FourStagesL3(w)
  <2>1. <<HostPort(c), p, q, r>> \in WalksInto(spheres, c, 4)
    BY FourSteps
  <2>2. f = FourStagesL3(<<HostPort(c), p, q, r>>)
    BY <1>1, <1>3
  <2>q. QED BY <2>1, <2>2
<1>q. QED BY <1>2, <1>3

LEMMA InFourStagesL2 ==
  ASSUME NEW spheres, NEW c
  PROVE  \A f : (\E w \in WalksInto(spheres, c, 4) : f = FourStagesL2(w)) <=>
           \E p \in Towards(HostPort(c), spheres[2]) :
             \E q \in Towards(p, spheres[1]) :
               \E r \in Towards(q, spheres[0]) :
                 f = AtStages(HostPort(c), p, NotUsed, q, NotUsed, r)
PROOF
<1>1. \A a, p, q, r : FourStagesL2(<<a, p, q, r>>) = AtStages(a, p, NotUsed, q, NotUsed, r)
  BY DEF FourStagesL2
<1>2. ASSUME NEW f, \E w \in WalksInto(spheres, c, 4) : f = FourStagesL2(w)
      PROVE
           \E p \in Towards(HostPort(c), spheres[2]) :
             \E q \in Towards(p, spheres[1]) :
               \E r \in Towards(q, spheres[0]) :
                 f = AtStages(HostPort(c), p, NotUsed, q, NotUsed, r)
  <2>1. PICK w \in WalksInto(spheres, c, 4) : f = FourStagesL2(w)
    BY <1>2
  <2>2. PICK p, q, r :
          /\ p \in Towards(HostPort(c), spheres[2])
          /\ q \in Towards(p, spheres[1])
          /\ r \in Towards(q, spheres[0])
          /\ w = <<HostPort(c), p, q, r>>
    BY FourSteps
  <2>q. QED BY <1>1, <2>1, <2>2
<1>3. ASSUME NEW f, NEW p \in Towards(HostPort(c), spheres[2]),
             NEW q \in Towards(p, spheres[1]), NEW r \in Towards(q, spheres[0]),
             f = AtStages(HostPort(c), p, NotUsed, q, NotUsed, r)
      PROVE  \E w \in WalksInto(spheres, c, 4) : f = FourStagesL2(w)
  <2>1. <<HostPort(c), p, q, r>> \in WalksInto(spheres, c, 4)
    BY FourSteps
  <2>2. f = FourStagesL2(<<HostPort(c), p, q, r>>)
    BY <1>1, <1>3
  <2>q. QED BY <2>1, <2>2
<1>q. QED BY <1>2, <1>3

LEMMA InSixStages ==
  ASSUME NEW spheres, NEW c
  PROVE  \A f : (\E w \in WalksInto(spheres, c, 6) : f = SixStages(w)) <=>
           \E p \in Towards(HostPort(c), spheres[4]) :
             \E q \in Towards(p, spheres[3]) :
               \E r \in Towards(q, spheres[2]) :
                 \E t \in Towards(r, spheres[1]) :
                   \E u \in Towards(t, spheres[0]) :
                     f = AtStages(HostPort(c), p, q, r, t, u)
PROOF
<1>1. \A a, p, q, r, t, u : SixStages(<<a, p, q, r, t, u>>) = AtStages(a, p, q, r, t, u)
  BY DEF SixStages
<1>2. ASSUME NEW f, \E w \in WalksInto(spheres, c, 6) : f = SixStages(w)
      PROVE
           \E p \in Towards(HostPort(c), spheres[4]) :
             \E q \in Towards(p, spheres[3]) :
               \E r \in Towards(q, spheres[2]) :
                 \E t \in Towards(r, spheres[1]) :
                   \E u \in Towards(t, spheres[0]) :
                     f = AtStages(HostPort(c), p, q, r, t, u)
  <2>1. PICK w \in WalksInto(spheres, c, 6) : f = SixStages(w)
    BY <1>2
  <2>2. PICK p, q, r, t, u :
          /\ p \in Towards(HostPort(c), spheres[4])
          /\ q \in Towards(p, spheres[3])
          /\ r \in Towards(q, spheres[2])
          /\ t \in Towards(r, spheres[1])
          /\ u \in Towards(t, spheres[0])
          /\ w = <<HostPort(c), p, q, r, t, u>>
    BY SixSteps
  <2>q. QED BY <1>1, <2>1, <2>2
<1>3. ASSUME NEW f, NEW p \in Towards(HostPort(c), spheres[4]),
             NEW q \in Towards(p, spheres[3]), NEW r \in Towards(q, spheres[2]),
             NEW t \in Towards(r, spheres[1]), NEW u \in Towards(t, spheres[0]),
             f = AtStages(HostPort(c), p, q, r, t, u)
      PROVE  \E w \in WalksInto(spheres, c, 6) : f = SixStages(w)
  <2>1. <<HostPort(c), p, q, r, t, u>> \in WalksInto(spheres, c, 6)
    BY SixSteps
  <2>2. f = SixStages(<<HostPort(c), p, q, r, t, u>>)
    BY <1>1, <1>3
  <2>q. QED BY <2>1, <2>2
<1>q. QED BY <1>2, <1>3

-------------------------------------------------------------------------------
(* The fat tree's links have two directions.                               *)

LEMMA FatDown ==
  ASSUME Fat, NEW d \in Devices, NEW q \in Ports(d), NextDevice(q).type = "host"
  PROVE  d.type = "edge" /\ EdgeOf(NextDevice(q)) = d
PROOF
<1>1. Half \in Nat \ {0}
  BY Sizes DEF Fat
<1>2. FatDevice(d)
  BY FatDevices
<1>3. d.type = "edge" /\ q[2] - Half \in 0..Half - 1
  BY <1>2, FatHop DEF FatDevice
<1>4. /\ NextDevice(q).pod = d.pod
      /\ NextDevice(q).local = (q[2] - Half) + d.local * Half
  BY <1>3, FatHop
<1>5. PICK n \in 0..Half - 1, e \in Nat : n = q[2] - Half /\ e = d.local
  BY <1>2, <1>3 DEF FatDevice
<1>6. (n + e * Half) \div Half = e
  BY <1>1, Quotient
<1>7. NextDevice(q).local \div Half = d.local
  BY <1>4, <1>5, <1>6
<1>8. EdgeOf(NextDevice(q)) = Device("edge", d.pod, d.local)
  BY <1>4, <1>7, FatLinked, FatHosts
<1>q. QED BY <1>2, <1>3, <1>8 DEF FatDevice

LEMMA FatClosed ==
  ASSUME Fat
  PROVE  Closed /\ Returns
PROOF
<1>1. tree.K \in Nat \ {0} /\ Half \in Nat \ {0} /\ tree.K = 2 * Half
  BY Sizes DEF Fat
<1>2. Closed
  BY FatLinked DEF Closed
<1>3. ASSUME NEW d \in Devices, NEW q \in Ports(d)
      PROVE  \E r \in Ports(NextDevice(q)) : NextDevice(r) = d
  <2> DEFINE e == NextDevice(q)
  <2>1. e \in Devices /\ FatDevice(d)
    BY FatLinked, FatDevices
  <2>2. ASSUME e.type # "host", NEW n \in 0..tree.K - 1
        PROVE  <<e, n>> \in Ports(e) /\ <<e, n>>[2] = n
    BY <2>2, FatPorts
  <2>3. CASE d.type = "host"
    <3>1. q = HostPort(d)
      BY <2>3, HostPorts
    <3>q. QED BY <2>3, <3>1, FatHosts DEF EdgeOf
  <2>4. CASE e.type = "host"
    <3>1. EdgeOf(e) = d /\ HostPort(e) \in Ports(e)
      BY <2>1, <2>4, FatDown, FatHosts
    <3>q. QED BY <3>1 DEF EdgeOf
  <2>5. ASSUME NEW r \in Ports(e), NextDevice(r).type = d.type,
               NextDevice(r).pod = d.pod, NextDevice(r).local = d.local
        PROVE  \E u \in Ports(e) : NextDevice(u) = d
    <3>1. NextDevice(r) = Device(d.type, d.pod, d.local)
      BY <2>1, <2>5, FatHop
    <3>q. QED BY <2>1, <3>1 DEF FatDevice
  <2>6. CASE d.type = "edge" /\ q[2] \in 0..Half - 1
    <3>1. e.type = "aggr" /\ e.pod = d.pod
      BY <2>6, FatHop
    <3>2. d.local + Half \in 0..tree.K - 1 /\ (d.local + Half) - Half = d.local
          /\ d.local \in 0..Half - 1
      BY <1>1, <2>1, <2>6 DEF FatDevice
    <3>3. PICK r \in Ports(e) : r = <<e, d.local + Half>> /\ r[2] = d.local + Half
      BY <2>2, <3>1, <3>2
    <3>q. QED BY <2>1, <2>5, <2>6, <3>1, <3>2, <3>3, FatHop
  <2>7. CASE d.type = "aggr" /\ q[2] \in 0..Half - 1
    <3>1. e.type = "core" /\ e.pod = d.local
      BY <2>7, FatHop
    <3>2. d.pod \in 0..tree.K - 1
      BY <2>1, <2>7 DEF FatDevice
    <3>3. PICK r \in Ports(e) : r = <<e, d.pod>> /\ r[2] = d.pod
      BY <2>2, <3>1, <3>2
    <3>q. QED BY <2>1, <2>5, <2>7, <3>1, <3>2, <3>3, FatHop
  <2>8. CASE d.type = "aggr" /\ q[2] - Half \in 0..Half - 1
    <3>1. e.type = "edge" /\ e.pod = d.pod
      BY <2>8, FatHop
    <3>2. d.local \in 0..tree.K - 1 /\ d.local \in 0..Half - 1
      BY <1>1, <2>1, <2>8 DEF FatDevice
    <3>3. PICK r \in Ports(e) : r = <<e, d.local>> /\ r[2] = d.local
      BY <2>2, <3>1, <3>2
    <3>q. QED BY <2>1, <2>5, <2>8, <3>1, <3>2, <3>3, FatHop
  <2>9. CASE d.type = "core"
    <3>1. e.type = "aggr" /\ e.local = d.pod
      BY <2>9, FatHop
    <3>2. d.local \in 0..tree.K - 1 /\ d.local \in 0..Half - 1
      BY <1>1, <2>1, <2>9 DEF FatDevice
    <3>3. PICK r \in Ports(e) : r = <<e, d.local>> /\ r[2] = d.local
      BY <2>2, <3>1, <3>2
    <3>q. QED BY <2>1, <2>5, <2>9, <3>1, <3>2, <3>3, FatHop
  <2>10. CASE d.type = "edge" /\ q[2] - Half \in 0..Half - 1
    BY <2>4, <2>10, FatHop
  <2>q. QED BY <2>1, <2>3, <2>6, <2>7, <2>8, <2>9, <2>10, FatHop DEF FatDevice
<1>4. Returns
  BY <1>3 DEF Returns
<1>q. QED BY <1>2, <1>4

LEMMA FatReached ==
  ASSUME Fat, NEW h \in Devices, h.type = "host"
  PROVE  Reached(h)
BY FatHosts DEF Reached

-------------------------------------------------------------------------------
(* The distance of two hosts of the fat tree.                              *)

LEMMA FatNear ==
  ASSUME Fat, NEW c \in Devices, c.type = "host", NEW s \in Devices, s.type = "host"
  PROVE  /\ EdgeOf(c) = EdgeOf(s) =>
              c.pod = s.pod /\ c \in Spheres(s)[2]
              /\ ShortestWalks(c, s) = WalksInto(Spheres(s), c, 2)
         /\ EdgeOf(c) # EdgeOf(s) /\ c.pod = s.pod =>
              c \in Spheres(s)[4] /\ ShortestWalks(c, s) = WalksInto(Spheres(s), c, 4)
         /\ c.pod # s.pod =>
              c \in Spheres(s)[6] /\ ShortestWalks(c, s) = WalksInto(Spheres(s), c, 6)
PROOF
<1>1. \A n \in 0..6 : Spheres(s)[n] = FatSphere(s, n)
  BY FatSpheres
<1>2. EdgeOf(c).pod = c.pod /\ EdgeOf(s).pod = s.pod /\ EdgeOf(s).type = "edge"
  BY FatHosts
<1>3. /\ c \notin FatSphere(s, 1) /\ c \notin FatSphere(s, 3) /\ c \notin FatSphere(s, 5)
      /\ c \in FatSphere(s, 2) <=> EdgeOf(c) = EdgeOf(s)
      /\ c \in FatSphere(s, 4) <=> c.pod = s.pod
      /\ c \in FatSphere(s, 6)
  BY <1>2 DEF FatSphere
<1>4. /\ c \notin Spheres(s)[1] /\ c \notin Spheres(s)[3] /\ c \notin Spheres(s)[5]
      /\ c \in Spheres(s)[2] <=> EdgeOf(c) = EdgeOf(s)
      /\ c \in Spheres(s)[4] <=> c.pod = s.pod
      /\ c \in Spheres(s)[6]
  BY <1>1, <1>3
<1>5. /\ \A n \in 1..6 : n < 2 => n = 1
      /\ \A n \in 1..6 : n < 4 => n \in {1, 2, 3}
      /\ \A n \in 1..6 : n < 6 => n \in {1, 2, 3, 4, 5}
  OBVIOUS
<1>6. CASE EdgeOf(c) = EdgeOf(s)
  <2>1. ShortestWalks(c, s) = WalksInto(Spheres(s), c, 2)
    BY <1>4, <1>5, <1>6, Nearest
  <2>q. QED BY <1>2, <1>4, <1>6, <2>1
<1>7. CASE EdgeOf(c) # EdgeOf(s) /\ c.pod = s.pod
  <2>1. \A n \in 1..6 : n < 4 => c \notin Spheres(s)[n]
    BY <1>4, <1>5, <1>7
  <2>2. ShortestWalks(c, s) = WalksInto(Spheres(s), c, 4)
    BY <1>4, <1>7, <2>1, Nearest
  <2>q. QED BY <1>4, <1>7, <2>2
<1>8. CASE c.pod # s.pod
  <2>1. \A n \in 1..6 : n < 6 => c \notin Spheres(s)[n]
    BY <1>2, <1>4, <1>5, <1>8
  <2>2. ShortestWalks(c, s) = WalksInto(Spheres(s), c, 6)
    BY <1>4, <2>1, Nearest
  <2>q. QED BY <1>2, <1>4, <1>8, <2>2
<1>q. QED BY <1>6, <1>7, <1>8

-------------------------------------------------------------------------------
(* FattreeL3::route makes the walks that lead closer with every step.      *)

LEMMA FatCode ==
  ASSUME Fat
  PROVE  /\ \A q : L3(tree.K)!NextDevice(q) = NextDevice(q)
         /\ \A h : L3(tree.K)!EdgeOf(h) = EdgeOf(h) /\ L3(tree.K)!HostPort(h) = HostPort(h)
         /\ \A d : L3(tree.K)!Ports(d) = Ports(d)
         /\ L3(tree.K)!NoneUsed = NoneUsed
         /\ \A c, s : FlowSplits(c, s) = L3(tree.K)!FlowSplits(c, s)
PROOF
<1>1. \A q : L3(tree.K)!NextDevice(q) = NextDevice(q)
  BY DEF Fat, NextDevice
<1>2. \A h : L3(tree.K)!HostPort(h) = HostPort(h)
  BY DEF HostPort, L3!HostPort
<1>3. \A h : L3(tree.K)!EdgeOf(h) = EdgeOf(h)
  BY <1>1, <1>2 DEF EdgeOf, L3!EdgeOf
<1>4. \A d : L3(tree.K)!Ports(d) = Ports(d)
  BY DEF Ports, L3!Ports, PortsOf, L3!PortsOf
<1>5. L3(tree.K)!NoneUsed = NoneUsed
  BY DEF NoneUsed, L3!NoneUsed, NotUsed, L3!NotUsed
<1>6. \A c, s : FlowSplits(c, s) = L3(tree.K)!FlowSplits(c, s)
  BY DEF Fat, FlowSplits
<1>q. QED BY <1>1, <1>2, <1>3, <1>4, <1>5, <1>6

LEMMA FatTwo ==
  ASSUME Fat, NEW c \in Devices, c.type = "host", NEW s \in Devices, s.type = "host",
         EdgeOf(c) = EdgeOf(s)
  PROVE  FlowSplits(c, s) = {TwoStages(w) : w \in WalksInto(Spheres(s), c, 2)}
PROOF
<1>1. FlowSplits(c, s) =
        {[NoneUsed EXCEPT ![0] = HostPort(c), ![5] = p] :
           p \in {q \in Ports(EdgeOf(s)) : NextDevice(q) = s}}
  BY FatCode DEF L3!FlowSplits, L3!TwoHops, L3!To
<1>2. Towards(HostPort(c), Spheres(s)[0]) = {q \in Ports(EdgeOf(s)) : NextDevice(q) = s}
  BY SphereSteps DEF Towards, EdgeOf
<1>3. FlowSplits(c, s) =
        {AtStages(HostPort(c), NotUsed, NotUsed, NotUsed, NotUsed, p) :
           p \in Towards(HostPort(c), Spheres(s)[0])}
  BY <1>1, <1>2, ExceptStages
<1>4. \A f : f \in FlowSplits(c, s) <=>
        \E p \in Towards(HostPort(c), Spheres(s)[0]) :
          f = AtStages(HostPort(c), NotUsed, NotUsed, NotUsed, NotUsed, p)
  BY <1>3
<1>5. \A f : (\E w \in WalksInto(Spheres(s), c, 2) : f = TwoStages(w)) <=>
        \E p \in Towards(HostPort(c), Spheres(s)[0]) :
          f = AtStages(HostPort(c), NotUsed, NotUsed, NotUsed, NotUsed, p)
  BY InTwoStages, ZenonT(30)
<1>q. QED BY <1>4, <1>5

\* The splits as route() finds them.
LEMMA FatFoundFour ==
  ASSUME Fat, NEW c \in Devices, c.type = "host", NEW s \in Devices, s.type = "host",
         EdgeOf(c) # EdgeOf(s), c.pod = s.pod
  PROVE  \A f : f \in FlowSplits(c, s) <=>
           \E p \in {q \in Ports(EdgeOf(c)) : NextDevice(q).type = "aggr"} :
             \E q \in {r \in Ports(NextDevice(p)) : NextDevice(r) = EdgeOf(s)} :
               \E r \in {t \in Ports(EdgeOf(s)) : NextDevice(t) = s} :
                 f = AtStages(HostPort(c), p, NotUsed, NotUsed, q, r)
PROOF
<1> DEFINE Ups == {q \in Ports(EdgeOf(c)) : NextDevice(q).type = "aggr"}
           Downs(d, e) == {q \in Ports(d) : NextDevice(q) = e}
<1>1. FlowSplits(c, s) = UNION {UNION {
        {[NoneUsed EXCEPT ![0] = HostPort(c), ![1] = p, ![4] = q, ![5] = r] :
           r \in Downs(EdgeOf(s), s)} :
         q \in Downs(NextDevice(p), EdgeOf(s))} : p \in Ups}
  BY FatCode DEF L3!FlowSplits, L3!FourHops, L3!To, L3!ToType
<1> HIDE DEF Ups, Downs
<1>2. FlowSplits(c, s) = UNION {UNION {
        {AtStages(HostPort(c), p, NotUsed, NotUsed, q, r) : r \in Downs(EdgeOf(s), s)} :
         q \in Downs(NextDevice(p), EdgeOf(s))} : p \in Ups}
  BY <1>1, ExceptStages
<1>3. \A f : f \in FlowSplits(c, s) <=>
        \E p \in Ups : \E q \in Downs(NextDevice(p), EdgeOf(s)) :
          \E r \in Downs(EdgeOf(s), s) : f = AtStages(HostPort(c), p, NotUsed, NotUsed, q, r)
  BY <1>2
<1>q. QED BY <1>3 DEF Ups, Downs

LEMMA FatFoundSix ==
  ASSUME Fat, NEW c \in Devices, c.type = "host", NEW s \in Devices, s.type = "host",
         c.pod # s.pod
  PROVE  \A f : f \in FlowSplits(c, s) <=>
           \E p \in {q \in Ports(EdgeOf(c)) : NextDevice(q).type = "aggr"} :
             \E q \in {r \in Ports(NextDevice(p)) : NextDevice(r).type = "core"} :
               \E r \in {t \in Ports(NextDevice(q)) : NextDevice(t).pod = s.pod} :
                 \E t \in {u \in Ports(NextDevice(r)) : NextDevice(u) = EdgeOf(s)} :
                   \E u \in {v \in Ports(EdgeOf(s)) : NextDevice(v) = s} :
                     f = AtStages(HostPort(c), p, q, r, t, u)
PROOF
<1> DEFINE Ups == {q \in Ports(EdgeOf(c)) : NextDevice(q).type = "aggr"}
           Cores(d) == {q \in Ports(d) : NextDevice(q).type = "core"}
           Pods(d) == {q \in Ports(d) : NextDevice(q).pod = s.pod}
           Downs(d, e) == {q \in Ports(d) : NextDevice(q) = e}
<1>5. EdgeOf(c) # EdgeOf(s)
  <2>1. EdgeOf(c).pod = c.pod /\ EdgeOf(s).pod = s.pod
    BY FatHosts
  <2>q. QED BY <2>1
<1>0. FlowSplits(c, s) = L3(tree.K)!SixHops(c, s)
  BY <1>5, FatCode DEF L3!FlowSplits
<1>1. L3(tree.K)!ToType(L3(tree.K)!EdgeOf(c), "aggr") = Ups
  BY FatCode DEF L3!ToType
<1>2. ASSUME NEW d
      PROVE  /\ L3(tree.K)!ToType(d, "core") = Cores(d)
             /\ {q \in L3(tree.K)!Ports(d) : L3(tree.K)!NextDevice(q).pod = s.pod} = Pods(d)
             /\ L3(tree.K)!To(d, L3(tree.K)!EdgeOf(s)) = Downs(d, EdgeOf(s))
  BY FatCode DEF L3!ToType, L3!To
<1>3. L3(tree.K)!To(L3(tree.K)!EdgeOf(s), s) = Downs(EdgeOf(s), s)
  BY FatCode DEF L3!To
<1>4. \A f : f \in L3(tree.K)!SixHops(c, s) <=>
        \E p \in L3(tree.K)!ToType(L3(tree.K)!EdgeOf(c), "aggr") :
          \E q \in L3(tree.K)!ToType(L3(tree.K)!NextDevice(p), "core") :
            \E r \in {q1 \in L3(tree.K)!Ports(L3(tree.K)!NextDevice(q)) :
                       L3(tree.K)!NextDevice(q1).pod = s.pod} :
              \E t \in L3(tree.K)!To(L3(tree.K)!NextDevice(r), L3(tree.K)!EdgeOf(s)) :
                \E u \in L3(tree.K)!To(L3(tree.K)!EdgeOf(s), s) :
                  f = AtStages(L3(tree.K)!HostPort(c), p, q, r, t, u)
  <2> DEFINE Rs(q) == {q1 \in L3(tree.K)!Ports(L3(tree.K)!NextDevice(q)) :
                        L3(tree.K)!NextDevice(q1).pod = s.pod}
             Ts(r) == L3(tree.K)!To(L3(tree.K)!NextDevice(r), L3(tree.K)!EdgeOf(s))
             Last(p, q, r, t) == {[k \in 0..5 |->
                                     <<L3(tree.K)!HostPort(c), p, q, r, t, u>>[k + 1]] :
                                  u \in L3(tree.K)!To(L3(tree.K)!EdgeOf(s), s)}
             AfterR(p, q, r) == UNION {Last(p, q, r, t) : t \in Ts(r)}
             AfterQ(p, q) == UNION {AfterR(p, q, r) : r \in Rs(q)}
             AfterP(p) == UNION {AfterQ(p, q) :
                                 q \in L3(tree.K)!ToType(L3(tree.K)!NextDevice(p), "core")}
  <2>1. L3(tree.K)!SixHops(c, s) =
          UNION {AfterP(p) : p \in L3(tree.K)!ToType(L3(tree.K)!EdgeOf(c), "aggr")}
    BY DEF L3!SixHops
  <2>2. \A f, p, q, r, t : f \in Last(p, q, r, t) <=>
          \E u \in L3(tree.K)!To(L3(tree.K)!EdgeOf(s), s) :
            f = AtStages(L3(tree.K)!HostPort(c), p, q, r, t, u)
    BY DEF AtStages
  <2> HIDE DEF Last
  <2>3. \A f, p, q, r : f \in AfterR(p, q, r) <=> \E t \in Ts(r) : f \in Last(p, q, r, t)
    OBVIOUS
  <2> HIDE DEF AfterR
  <2>4. \A f, p, q : f \in AfterQ(p, q) <=> \E r \in Rs(q) : f \in AfterR(p, q, r)
    OBVIOUS
  <2> HIDE DEF AfterQ
  <2>5. \A f, p : f \in AfterP(p) <=>
          \E q \in L3(tree.K)!ToType(L3(tree.K)!NextDevice(p), "core") : f \in AfterQ(p, q)
    OBVIOUS
  <2> HIDE DEF AfterP
  <2>q. QED BY <2>1, <2>2, <2>3, <2>4, <2>5
<1> HIDE DEF Ups, Cores, Pods, Downs
<1>6. \A f : f \in FlowSplits(c, s) <=>
        \E p \in Ups : \E q \in Cores(NextDevice(p)) : \E r \in Pods(NextDevice(q)) :
          \E t \in Downs(NextDevice(r), EdgeOf(s)) :
            \E u \in Downs(EdgeOf(s), s) : f = AtStages(HostPort(c), p, q, r, t, u)
  BY <1>0, <1>1, <1>2, <1>3, <1>4, FatCode
<1>q. QED BY <1>6 DEF Ups, Cores, Pods, Downs

\* Where these lead, as steps into the spheres of the server.
LEMMA FatFour ==
  ASSUME Fat, NEW c \in Devices, c.type = "host", NEW s \in Devices, s.type = "host",
         EdgeOf(c) # EdgeOf(s), c.pod = s.pod
  PROVE  FlowSplits(c, s) = {FourStagesL3(w) : w \in WalksInto(Spheres(s), c, 4)}
PROOF
<1> DEFINE Ups == {q \in Ports(EdgeOf(c)) : NextDevice(q).type = "aggr"}
           Downs(d, e) == {q \in Ports(d) : NextDevice(q) = e}
<1>1. \A f : f \in FlowSplits(c, s) <=>
        \E p \in Ups : \E q \in Downs(NextDevice(p), EdgeOf(s)) :
          \E r \in Downs(EdgeOf(s), s) : f = AtStages(HostPort(c), p, NotUsed, NotUsed, q, r)
  BY FatFoundFour
<1>2. /\ EdgeOf(c) \in Devices /\ EdgeOf(c).type = "edge" /\ EdgeOf(c).pod = c.pod
      /\ EdgeOf(s) \in Devices /\ NextDevice(HostPort(c)) = EdgeOf(c)
  BY FatHosts DEF EdgeOf
<1>3. /\ Spheres(s)[0] = {s} /\ Spheres(s)[1] = {EdgeOf(s)}
      /\ Spheres(s)[2] = FatSphere(s, 2)
  BY FatSpheres DEF FatSphere
<1>4. Towards(HostPort(c), Spheres(s)[2]) = Ups
  <2>1. ASSUME NEW p \in Ports(EdgeOf(c))
        PROVE  NextDevice(p) \in FatSphere(s, 2) <=> NextDevice(p).type = "aggr"
    <3>1. NextDevice(p) \in Devices
      BY <1>2, FatLinked
    <3>2. NextDevice(p).type \in {"aggr", "host"} /\ NextDevice(p).pod = c.pod
      BY <1>2, FatHop
    <3>3. NextDevice(p).type = "host" => EdgeOf(NextDevice(p)) # EdgeOf(s)
      BY <1>2, FatDown
    <3>q. QED BY <3>1, <3>2, <3>3 DEF FatSphere
  <2>q. QED BY <1>2, <1>3, <2>1 DEF Towards
<1>5. ASSUME NEW p PROVE Towards(p, Spheres(s)[1]) = Downs(NextDevice(p), EdgeOf(s))
  BY <1>3 DEF Towards
<1>6. ASSUME NEW p, NEW q \in Downs(NextDevice(p), EdgeOf(s))
      PROVE  Towards(q, Spheres(s)[0]) = Downs(EdgeOf(s), s)
  BY <1>3 DEF Towards
<1> HIDE DEF Ups, Downs
<1>7. \A f : f \in FlowSplits(c, s) <=>
        \E p \in Towards(HostPort(c), Spheres(s)[2]) :
          \E q \in Towards(p, Spheres(s)[1]) : \E r \in Towards(q, Spheres(s)[0]) :
            f = AtStages(HostPort(c), p, NotUsed, NotUsed, q, r)
  BY <1>1, <1>4, <1>5, <1>6
<1>8. \A f : (\E w \in WalksInto(Spheres(s), c, 4) : f = FourStagesL3(w)) <=>
        \E p \in Towards(HostPort(c), Spheres(s)[2]) :
          \E q \in Towards(p, Spheres(s)[1]) : \E r \in Towards(q, Spheres(s)[0]) :
            f = AtStages(HostPort(c), p, NotUsed, NotUsed, q, r)
  BY InFourStagesL3
<1>q. QED BY <1>7, <1>8

LEMMA FatSix ==
  ASSUME Fat, NEW c \in Devices, c.type = "host", NEW s \in Devices, s.type = "host",
         c.pod # s.pod
  PROVE  FlowSplits(c, s) = {SixStages(w) : w \in WalksInto(Spheres(s), c, 6)}
PROOF
<1> DEFINE Ups == {q \in Ports(EdgeOf(c)) : NextDevice(q).type = "aggr"}
           Cores(d) == {q \in Ports(d) : NextDevice(q).type = "core"}
           Pods(d) == {q \in Ports(d) : NextDevice(q).pod = s.pod}
           Downs(d, e) == {q \in Ports(d) : NextDevice(q) = e}
<1>2. \A f : f \in FlowSplits(c, s) <=>
        \E p \in Ups : \E q \in Cores(NextDevice(p)) : \E r \in Pods(NextDevice(q)) :
          \E t \in Downs(NextDevice(r), EdgeOf(s)) :
            \E u \in Downs(EdgeOf(s), s) : f = AtStages(HostPort(c), p, q, r, t, u)
  BY FatFoundSix
<1>3. /\ EdgeOf(c) \in Devices /\ EdgeOf(c).type = "edge" /\ EdgeOf(c).pod = c.pod
      /\ EdgeOf(s) \in Devices /\ NextDevice(HostPort(c)) = EdgeOf(c)
  BY FatHosts DEF EdgeOf
<1>4. /\ Spheres(s)[0] = {s} /\ Spheres(s)[1] = {EdgeOf(s)}
      /\ Spheres(s)[2] = FatSphere(s, 2) /\ Spheres(s)[3] = FatSphere(s, 3)
      /\ Spheres(s)[4] = FatSphere(s, 4)
  BY FatSpheres DEF FatSphere
<1>5. Towards(HostPort(c), Spheres(s)[4]) = Ups
  <2>1. ASSUME NEW p \in Ports(EdgeOf(c))
        PROVE  NextDevice(p) \in FatSphere(s, 4) <=> NextDevice(p).type = "aggr"
    <3>1. NextDevice(p) \in Devices
      BY <1>3, FatLinked
    <3>2. NextDevice(p).type \in {"aggr", "host"} /\ NextDevice(p).pod = c.pod
      BY <1>3, FatHop
    <3>q. QED BY <3>1, <3>2 DEF FatSphere
  <2>q. QED BY <1>3, <1>4, <2>1 DEF Towards
<1>6. ASSUME NEW p \in Ups
      PROVE  /\ Towards(p, Spheres(s)[3]) = Cores(NextDevice(p))
             /\ NextDevice(p) \in Devices /\ NextDevice(p).type = "aggr"
  <2>1. NextDevice(p) \in Devices /\ NextDevice(p).type = "aggr"
    BY <1>3, FatLinked
  <2>2. NextDevice(p).pod = c.pod
    BY <1>3, <2>1, FatHop
  <2>3. ASSUME NEW q \in Ports(NextDevice(p))
        PROVE  NextDevice(q) \in FatSphere(s, 3) <=> NextDevice(q).type = "core"
    <3>1. NextDevice(q) \in Devices
      BY <2>1, FatLinked
    <3>2. NextDevice(q).type = "core" \/ NextDevice(q).pod = c.pod
      BY <2>1, <2>2, FatHop
    <3>q. QED BY <3>1, <3>2 DEF FatSphere
  <2>q. QED BY <1>4, <2>1, <2>3 DEF Towards
<1>7. ASSUME NEW p \in Ups, NEW q \in Cores(NextDevice(p))
      PROVE  Towards(q, Spheres(s)[2]) = Pods(NextDevice(q))
  <2>1. NextDevice(q) \in Devices /\ NextDevice(q).type = "core"
    BY <1>6, FatLinked
  <2>2. ASSUME NEW r \in Ports(NextDevice(q))
        PROVE  NextDevice(r) \in FatSphere(s, 2) <=> NextDevice(r).pod = s.pod
    <3>1. NextDevice(r) \in Devices /\ NextDevice(r).type = "aggr"
      BY <2>1, FatLinked, FatHop
    <3>q. QED BY <3>1 DEF FatSphere
  <2>q. QED BY <1>4, <2>2 DEF Towards
<1>8. ASSUME NEW r PROVE Towards(r, Spheres(s)[1]) = Downs(NextDevice(r), EdgeOf(s))
  BY <1>4 DEF Towards
<1>9. ASSUME NEW r, NEW t \in Downs(NextDevice(r), EdgeOf(s))
      PROVE  Towards(t, Spheres(s)[0]) = Downs(EdgeOf(s), s)
  BY <1>4 DEF Towards
<1> HIDE DEF Ups, Cores, Pods, Downs
<1>10. \A f : f \in FlowSplits(c, s) <=>
         \E p \in Towards(HostPort(c), Spheres(s)[4]) :
           \E q \in Towards(p, Spheres(s)[3]) : \E r \in Towards(q, Spheres(s)[2]) :
             \E t \in Towards(r, Spheres(s)[1]) : \E u \in Towards(t, Spheres(s)[0]) :
               f = AtStages(HostPort(c), p, q, r, t, u)
  BY <1>2, <1>5, <1>6, <1>7, <1>8, <1>9
<1>11. \A f : (\E w \in WalksInto(Spheres(s), c, 6) : f = SixStages(w)) <=>
         \E p \in Towards(HostPort(c), Spheres(s)[4]) :
           \E q \in Towards(p, Spheres(s)[3]) : \E r \in Towards(q, Spheres(s)[2]) :
             \E t \in Towards(r, Spheres(s)[1]) : \E u \in Towards(t, Spheres(s)[0]) :
               f = AtStages(HostPort(c), p, q, r, t, u)
  BY InSixStages
<1>q. QED BY <1>10, <1>11

-------------------------------------------------------------------------------
(* The stages of the splits.                                               *)

LEMMA StageTypes ==
  /\ StageType[0] = "host_up" /\ StageType[1] = "edge_up" /\ StageType[2] = "aggr_up"
  /\ StageType[3] = "core_down" /\ StageType[4] = "aggr_down" /\ StageType[5] = "edge_down"
BY DEF StageType

\* Every queue of the split is of the type its stage serves.
Staged(split) ==
  \A k \in 0..5 : split[k] # NotUsed => QueueType(split[k]) = StageType[k]

LEMMA StagedBy ==
  ASSUME NEW q0, NEW q1, NEW q2, NEW q3, NEW q4, NEW q5,
         q0 # NotUsed => QueueType(q0) = "host_up", q1 # NotUsed => QueueType(q1) = "edge_up",
         q2 # NotUsed => QueueType(q2) = "aggr_up", q3 # NotUsed => QueueType(q3) = "core_down",
         q4 # NotUsed => QueueType(q4) = "aggr_down", q5 # NotUsed => QueueType(q5) = "edge_down"
  PROVE  Staged(AtStages(q0, q1, q2, q3, q4, q5))
PROOF
<1> DEFINE f == AtStages(q0, q1, q2, q3, q4, q5)
<1>1. f[0] = q0 /\ f[1] = q1 /\ f[2] = q2 /\ f[3] = q3 /\ f[4] = q4 /\ f[5] = q5
  BY StagesOf
<1>2. \A k \in 0..5 : k \in {0, 1, 2, 3, 4, 5}
  OBVIOUS
<1> HIDE DEF f
<1>3. Staged(f)
  BY <1>1, <1>2, StageTypes DEF Staged
<1>q. QED BY <1>3 DEF f

LEMMA FatTypes ==
  ASSUME Fat, NEW d \in Devices, NEW q \in Ports(d)
  PROVE  /\ d.type = "host" => QueueType(q) = "host_up"
         /\ d.type = "edge" => NextDevice(q).type \in {"aggr", "host"} /\ NextDevice(q).pod = d.pod
         /\ d.type = "edge" /\ NextDevice(q).type = "aggr" => QueueType(q) = "edge_up"
         /\ d.type = "edge" /\ NextDevice(q).type = "host" => QueueType(q) = "edge_down"
         /\ d.type = "aggr" => \/ NextDevice(q).type = "core" /\ QueueType(q) = "aggr_up"
                               \/ /\ NextDevice(q).type = "edge" /\ NextDevice(q).pod = d.pod
                                  /\ QueueType(q) = "aggr_down"
         /\ d.type = "core" => NextDevice(q).type = "aggr" /\ QueueType(q) = "core_down"
BY FatHop

LEMMA FatTwoStaged ==
  ASSUME Fat, NEW c \in Devices, c.type = "host", NEW s \in Devices, s.type = "host",
         NEW w \in WalksInto(Spheres(s), c, 2)
  PROVE  Staged(TwoStages(w))
PROOF
<1>1. /\ w[1] = HostPort(c) /\ w[2] \in Ports(NextDevice(w[1])) /\ NextDevice(w[2]) = s
  BY FatClosed, TwoWalks DEF Towards
<1>2. /\ NextDevice(w[1]) \in Devices /\ NextDevice(w[1]).type = "edge"
      /\ QueueType(w[1]) = "host_up"
  BY <1>1, FatHosts DEF EdgeOf
<1>3. QueueType(w[2]) = "edge_down"
  BY <1>1, <1>2, FatTypes
<1>q. QED BY <1>2, <1>3, StagedBy DEF TwoStages

LEMMA FatFourStaged ==
  ASSUME Fat, NEW c \in Devices, c.type = "host", NEW s \in Devices, s.type = "host",
         EdgeOf(c) # EdgeOf(s), NEW w \in WalksInto(Spheres(s), c, 4)
  PROVE  Staged(FourStagesL3(w))
PROOF
<1>1. /\ w[1] = HostPort(c)
      /\ w[2] \in Ports(NextDevice(w[1])) /\ NextDevice(w[2]) \in Spheres(s)[2]
      /\ w[3] \in Ports(NextDevice(w[2])) /\ NextDevice(w[3]) \in Spheres(s)[1]
      /\ w[4] \in Ports(NextDevice(w[3])) /\ NextDevice(w[4]) = s
  BY FatClosed, FourWalks DEF Towards
<1>2. /\ NextDevice(w[1]) \in Devices /\ NextDevice(w[1]).type = "edge"
      /\ QueueType(w[1]) = "host_up" /\ NextDevice(w[1]) = EdgeOf(c)
  <2>1. NextDevice(w[1]) = EdgeOf(c)
    BY <1>1 DEF EdgeOf
  <2>q. QED BY <1>1, <2>1, FatHosts
<1>3. Spheres(s)[1] = {EdgeOf(s)} /\ Spheres(s)[2] = FatSphere(s, 2)
  BY FatSpheres DEF FatSphere
<1>4. /\ NextDevice(w[3]) = EdgeOf(s) /\ EdgeOf(s) \in Devices /\ EdgeOf(s).type = "edge"
      /\ NextDevice(w[2]) \in FatSphere(s, 2)
  BY <1>1, <1>3, FatHosts
<1>5. NextDevice(w[2]) \in Devices /\ NextDevice(w[2]).type = "aggr"
  <2>1. NextDevice(w[2]).type = "host" => EdgeOf(NextDevice(w[2])) = EdgeOf(c)
    BY <1>1, <1>2, FatDown
  <2>q. QED BY <1>4, <2>1 DEF FatSphere
<1>6. QueueType(w[2]) = "edge_up"
  BY <1>1, <1>2, <1>5, FatTypes
<1>7. QueueType(w[3]) = "aggr_down"
  BY <1>1, <1>4, <1>5, FatTypes
<1>8. QueueType(w[4]) = "edge_down"
  BY <1>1, <1>4, FatTypes
<1>q. QED BY <1>2, <1>6, <1>7, <1>8, StagedBy DEF FourStagesL3

LEMMA FatSixStaged ==
  ASSUME Fat, NEW c \in Devices, c.type = "host", NEW s \in Devices, s.type = "host",
         c.pod # s.pod, NEW w \in WalksInto(Spheres(s), c, 6)
  PROVE  Staged(SixStages(w))
PROOF
<1>1. /\ w[1] = HostPort(c)
      /\ w[2] \in Ports(NextDevice(w[1])) /\ NextDevice(w[2]) \in Spheres(s)[4]
      /\ w[3] \in Ports(NextDevice(w[2])) /\ NextDevice(w[3]) \in Spheres(s)[3]
      /\ w[4] \in Ports(NextDevice(w[3])) /\ NextDevice(w[4]) \in Spheres(s)[2]
      /\ w[5] \in Ports(NextDevice(w[4])) /\ NextDevice(w[5]) \in Spheres(s)[1]
      /\ w[6] \in Ports(NextDevice(w[5])) /\ NextDevice(w[6]) = s
  BY FatClosed, SixWalks DEF Towards
<1>2. /\ NextDevice(w[1]) \in Devices /\ NextDevice(w[1]).type = "edge"
      /\ QueueType(w[1]) = "host_up" /\ NextDevice(w[1]).pod = c.pod
  BY <1>1, FatHosts DEF EdgeOf
<1>3. /\ Spheres(s)[1] = {EdgeOf(s)} /\ Spheres(s)[2] = FatSphere(s, 2)
      /\ Spheres(s)[3] = FatSphere(s, 3) /\ Spheres(s)[4] = FatSphere(s, 4)
  BY FatSpheres DEF FatSphere
<1>4. NextDevice(w[5]) = EdgeOf(s) /\ EdgeOf(s) \in Devices /\ EdgeOf(s).type = "edge"
  BY <1>1, <1>3, FatHosts
<1>5. /\ NextDevice(w[2]) \in Devices /\ NextDevice(w[2]).type = "aggr"
      /\ NextDevice(w[2]).pod = c.pod /\ QueueType(w[2]) = "edge_up"
  <2>1. NextDevice(w[2]) \in FatSphere(s, 4)
    BY <1>1, <1>3
  <2>2. NextDevice(w[2]).pod = c.pod
    BY <1>1, <1>2, FatTypes
  <2>3. NextDevice(w[2]) \in Devices /\ NextDevice(w[2]).type = "aggr"
    BY <2>1, <2>2 DEF FatSphere
  <2>q. QED BY <1>1, <1>2, <2>2, <2>3, FatTypes
<1>6. NextDevice(w[3]) \in Devices /\ NextDevice(w[3]).type = "core" /\ QueueType(w[3]) = "aggr_up"
  <2>1. NextDevice(w[3]) \in FatSphere(s, 3)
    BY <1>1, <1>3
  <2>2. NextDevice(w[3]) \in Devices /\ NextDevice(w[3]).type = "core"
    <3>1. NextDevice(w[3]).type = "core" \/ NextDevice(w[3]).pod = c.pod
      BY <1>1, <1>5, FatTypes
    <3>q. QED BY <2>1, <3>1 DEF FatSphere
  <2>q. QED BY <1>1, <1>5, <2>2, FatTypes
<1>7. NextDevice(w[4]) \in Devices /\ NextDevice(w[4]).type = "aggr"
      /\ QueueType(w[4]) = "core_down"
  BY <1>1, <1>6, FatTypes, FatLinked
<1>8. QueueType(w[5]) = "aggr_down"
  BY <1>1, <1>4, <1>7, FatTypes
<1>9. QueueType(w[6]) = "edge_down"
  BY <1>1, <1>4, FatTypes
<1>q. QED BY <1>2, <1>5, <1>6, <1>7, <1>8, <1>9, StagedBy DEF SixStages

-------------------------------------------------------------------------------
(* What holds of the flows between two hosts, of either tree.              *)

Routed(c, s) ==
  /\ MadeOf(FlowSplits(c, s), ShortestWalks(c, s))
  /\ \A split \in FlowSplits(c, s) : Staged(split)

LEMMA FatRoutes ==
  ASSUME Fat, NEW c \in Devices, c.type = "host", NEW s \in Devices, s.type = "host"
  PROVE  /\ Routed(c, s) /\ FlowSplits(c, s) # {}
         /\ Vias(ShortestWalks(c, s)) = Backs(ShortestWalks(s, c))
PROOF
<1>0. tree \in Trees /\ Closed /\ Returns /\ Reached(c) /\ Reached(s)
  BY FatClosed, FatReached DEF Fat
<1>1. CASE EdgeOf(c) = EdgeOf(s)
  <2>1. /\ ShortestWalks(c, s) = WalksInto(Spheres(s), c, 2) /\ c \in Spheres(s)[2]
        /\ ShortestWalks(s, c) = WalksInto(Spheres(c), s, 2)
    BY <1>1, FatNear
  <2>2. FlowSplits(c, s) = {TwoStages(w) : w \in WalksInto(Spheres(s), c, 2)}
    BY <1>1, FatTwo
  <2>3. MadeOf(FlowSplits(c, s), ShortestWalks(c, s))
    BY <1>0, <2>1, <2>2, OfTwoStages
  <2>4. \A split \in FlowSplits(c, s) : Staged(split)
    BY <2>2, FatTwoStaged
  <2>5. FlowSplits(c, s) # {}
    BY <2>1, <2>2, SomeTwo
  <2>6. Vias(ShortestWalks(c, s)) = Backs(ShortestWalks(s, c))
    BY <1>0, <2>1, TwoMirror
  <2>q. QED BY <2>3, <2>4, <2>5, <2>6 DEF Routed
<1>2. CASE EdgeOf(c) # EdgeOf(s) /\ c.pod = s.pod
  <2>1. /\ ShortestWalks(c, s) = WalksInto(Spheres(s), c, 4) /\ c \in Spheres(s)[4]
        /\ ShortestWalks(s, c) = WalksInto(Spheres(c), s, 4)
    BY <1>2, FatNear
  <2>2. FlowSplits(c, s) = {FourStagesL3(w) : w \in WalksInto(Spheres(s), c, 4)}
    BY <1>2, FatFour
  <2>3. MadeOf(FlowSplits(c, s), ShortestWalks(c, s))
    BY <1>0, <2>1, <2>2, OfFourStagesL3
  <2>4. \A split \in FlowSplits(c, s) : Staged(split)
    BY <1>2, <2>2, FatFourStaged
  <2>5. FlowSplits(c, s) # {}
    BY <2>1, <2>2, SomeFour
  <2>6. Vias(ShortestWalks(c, s)) = Backs(ShortestWalks(s, c))
    BY <1>0, <2>1, FourMirror
  <2>q. QED BY <2>3, <2>4, <2>5, <2>6 DEF Routed
<1>3. CASE c.pod # s.pod
  <2>1. /\ ShortestWalks(c, s) = WalksInto(Spheres(s), c, 6) /\ c \in Spheres(s)[6]
        /\ ShortestWalks(s, c) = WalksInto(Spheres(c), s, 6)
    BY <1>3, FatNear
  <2>2. FlowSplits(c, s) = {SixStages(w) : w \in WalksInto(Spheres(s), c, 6)}
    BY <1>3, FatSix
  <2>3. MadeOf(FlowSplits(c, s), ShortestWalks(c, s))
    BY <1>0, <2>1, <2>2, OfSixStages
  <2>4. \A split \in FlowSplits(c, s) : Staged(split)
    BY <1>3, <2>2, FatSixStaged
  <2>5. FlowSplits(c, s) # {}
    BY <2>1, <2>2, SomeSix
  <2>6. Vias(ShortestWalks(c, s)) = Backs(ShortestWalks(s, c))
    BY <1>0, <2>1, SixMirror
  <2>q. QED BY <2>3, <2>4, <2>5, <2>6 DEF Routed
<1>q. QED BY <1>1, <1>2, <1>3

-------------------------------------------------------------------------------
(* The links of the two-level tree.                                        *)

\* A two-level tree that create() and link() did not give up on.
Custom == tree \in Trees /\ ~ThreeLevels /\ Linked

EdgeCount == L2(tree.K, tree.N)!NumEdges
CoreCount == L2(tree.K, tree.N)!NumCores
HostsEach == L2(tree.K, tree.N)!HostsPerEdge

\* What the devices of the two-level tree are.
CustomDevice(d) ==
  /\ d = Device(d.type, d.pod, d.local)
  /\ \/ d.type = "core" /\ d.pod = 0 /\ d.local \in 0..CoreCount - 1
     \/ d.type = "edge" /\ d.pod \in 0..EdgeCount - 1 /\ d.local = 0
     \/ d.type = "host" /\ d.pod \in 0..EdgeCount - 1 /\ d.local \in 0..HostsEach - 1

LEMMA CustomDevices ==
  ASSUME ~ThreeLevels
  PROVE  \A d : d \in Devices <=> CustomDevice(d)
PROOF
<1>1. Devices = L2(tree.K, tree.N)!Cores \cup L2(tree.K, tree.N)!Edges \cup L2(tree.K, tree.N)!Hosts
  BY DEF Devices, L2!Devices
<1>2. ASSUME NEW d
      PROVE  /\ d \in L2(tree.K, tree.N)!Cores <=>
                  d = Device(d.type, d.pod, d.local) /\ d.type = "core"
                  /\ d.pod = 0 /\ d.local \in 0..CoreCount - 1
             /\ d \in L2(tree.K, tree.N)!Edges <=>
                  d = Device(d.type, d.pod, d.local) /\ d.type = "edge"
                  /\ d.pod \in 0..EdgeCount - 1 /\ d.local = 0
             /\ d \in L2(tree.K, tree.N)!Hosts <=>
                  d = Device(d.type, d.pod, d.local) /\ d.type = "host"
                  /\ d.pod \in 0..EdgeCount - 1 /\ d.local \in 0..HostsEach - 1
  BY DEF L2!Cores, L2!Edges, L2!Hosts, L2!Device, Device, EdgeCount, CoreCount, HostsEach
<1>q. QED BY <1>1, <1>2 DEF CustomDevice

\* The integer divisions, before anything is linked.
LEMMA CustomCounts ==
  ASSUME Custom
  PROVE  /\ tree.K \in Nat \ {0} /\ Half \in Nat \ {0} /\ tree.K = 2 * Half
         /\ EdgeCount \in Nat \ {0} /\ CoreCount \in Nat /\ 2 * CoreCount <= EdgeCount
         /\ HostsEach \in Nat \ {0} /\ Half <= HostsEach
         /\ LinksEach \in Nat \ {0} /\ EdgeCount * LinksEach <= tree.K
PROOF
<1>1. tree.K \in Nat \ {0} /\ Half \in Nat \ {0} /\ tree.K = 2 * Half
  BY Sizes DEF Custom
<1>2. tree.N \in Nat
  BY TreesAssumption DEF Custom, ThreeLevels
<1>3. /\ EdgeCount = tree.N \div Half /\ CoreCount = EdgeCount \div 2
      /\ HostsEach = tree.N \div EdgeCount /\ LinksEach = tree.K \div EdgeCount
  BY DEF EdgeCount, CoreCount, HostsEach, LinksEach, Half, L2!NumEdges, L2!NumCores,
         L2!HostsPerEdge, L2!Links, L2!Half
<1>4. EdgeCount # 0 /\ tree.K > EdgeCount
  BY DEF Custom, Linked, L2!Linked, EdgeCount
<1>5. EdgeCount \in Nat \ {0} /\ EdgeCount * Half <= tree.N
  <2>1. PICK n \in Nat, h \in Nat \ {0} : n = tree.N /\ h = Half
    BY <1>1, <1>2
  <2>2. n \div h \in Nat /\ n % h \in 0..h - 1 /\ n = (n % h) + (n \div h) * h
    BY Division
  <2>3. (n \div h) * h \in Nat
    BY <2>2
  <2>q. QED BY <1>3, <1>4, <2>1, <2>2, <2>3
<1>6. CoreCount \in Nat /\ 2 * CoreCount <= EdgeCount
  <2>1. PICK e \in Nat : e = EdgeCount
    BY <1>5
  <2>2. e \div 2 \in Nat /\ 2 * (e \div 2) <= e
    OBVIOUS
  <2>q. QED BY <1>3, <2>1, <2>2
<1>7. HostsEach \in Nat \ {0} /\ Half <= HostsEach
  <2>1. PICK n \in Nat, h \in Nat \ {0}, e \in Nat \ {0} :
          n = tree.N /\ h = Half /\ e = EdgeCount
    BY <1>1, <1>2, <1>5
  <2>2. ~(n < h * e)
    BY <1>5, <2>1
  <2>3. n \div e \in Nat /\ ~(n \div e < h)
    BY <2>2, Below, Division
  <2>q. QED BY <1>3, <2>1, <2>3
<1>8. LinksEach \in Nat \ {0} /\ EdgeCount * LinksEach <= tree.K
  <2>1. PICK k \in Nat, e \in Nat \ {0} : k = tree.K /\ e = EdgeCount
    BY <1>1, <1>5
  <2>2. k \div e \in Nat /\ k % e \in 0..e - 1 /\ k = (k % e) + (k \div e) * e
    BY Division
  <2>3. k \div e # 0
    <3>1. ~(k < 1 * e) /\ (k < 1 * e <=> k \div e < 1)
      BY <1>4, <2>1, Below
    <3>q. QED BY <2>2, <3>1
  <2>4. (k \div e) * e \in Nat /\ (k \div e) * e = e * (k \div e)
    BY <2>2
  <2>q. QED BY <1>3, <2>1, <2>2, <2>3, <2>4
<1>q. QED BY <1>1, <1>5, <1>6, <1>7, <1>8

LEMMA CustomPorts ==
  ASSUME NEW d
  PROVE  Ports(d) = {<<d, n>> : n \in 0..(IF d.type = "host" THEN 0 ELSE tree.K - 1)}
BY DEF Ports, PortsOf

\* Where a port leads to, by the type of its device and the half it is in.
LEMMA CustomHop ==
  ASSUME Custom, NEW d \in Devices, NEW q \in Ports(d)
  PROVE  /\ q = <<d, q[2]>> /\ q[1] = d
         /\ NextDevice(q) = Device(NextDevice(q).type, NextDevice(q).pod, NextDevice(q).local)
         /\ d.type = "host" =>
              /\ q[2] = 0 /\ QueueType(q) = "host_up" /\ NextDevice(q).type = "edge"
              /\ NextDevice(q).pod = d.pod /\ NextDevice(q).local = 0
         /\ d.type = "edge" => q[2] \in 0..Half - 1 \/ q[2] - Half \in 0..Half - 1
         /\ d.type = "edge" /\ q[2] \in 0..Half - 1 =>
              /\ QueueType(q) = "edge_up" /\ NextDevice(q).type = "core"
              /\ NextDevice(q).pod = 0 /\ NextDevice(q).local = q[2] \div LinksEach
         /\ d.type = "edge" /\ q[2] - Half \in 0..Half - 1 =>
              /\ QueueType(q) = "edge_down" /\ NextDevice(q).type = "host"
              /\ NextDevice(q).pod = d.pod /\ NextDevice(q).local = q[2] - Half
         /\ d.type = "core" =>
              /\ q[2] \in 0..tree.K - 1
              /\ QueueType(q) = "core_down" /\ NextDevice(q).type = "edge"
              /\ NextDevice(q).pod = q[2] \div LinksEach /\ NextDevice(q).local = 0
PROOF
<1> DEFINE k == tree.K
           n == q[2]
<1>1. /\ k \in Nat \ {0} /\ Half \in Nat \ {0} /\ k = 2 * Half
      /\ HostsEach \in Nat \ {0} /\ LinksEach \in Nat \ {0}
  BY CustomCounts
<1>2. CustomDevice(d)
  BY CustomDevices DEF Custom
<1>3. /\ q = <<d, n>> /\ q[1] = d
      /\ n \in 0..(IF d.type = "host" THEN 0 ELSE k - 1)
  BY CustomPorts
<1>4. /\ QueueType(q) = L2(tree.K, tree.N)!QueueType(q)
      /\ NextDevice(q) = L2(tree.K, tree.N)!NextDevice(q)
  BY DEF Custom, QueueType, NextDevice
<1>5. /\ L2(tree.K, tree.N)!Half = Half /\ L2(tree.K, tree.N)!Links = LinksEach
      /\ L2(tree.K, tree.N)!HostsPerEdge = HostsEach
  BY DEF Half, L2!Half, LinksEach, HostsEach
<1>6. \A t, p, l : L2(tree.K, tree.N)!Device(t, p, l) = Device(t, p, l)
  BY DEF Device, L2!Device
<1> HIDE DEF k, n
<1>7. CASE d.type = "host"
  <2>1. n = 0 /\ L2(tree.K, tree.N)!QueueType(q) = "host_up"
    BY <1>3, <1>7 DEF L2!QueueType
  <2>2. d.local \div HostsEach = 0
    <3>1. PICK l \in Nat, m \in Nat \ {0} : l = d.local /\ m = HostsEach /\ l < m
      BY <1>1, <1>2, <1>7 DEF CustomDevice
    <3>2. l < 1 * m
      BY <3>1
    <3>3. l \div m < 1 /\ l \div m \in Nat
      BY <3>2, Below, Division
    <3>q. QED BY <3>1, <3>3
  <2>3. L2(tree.K, tree.N)!NextDevice(q) = Device("edge", d.pod, 0)
    BY <1>3, <1>5, <1>6, <2>1, <2>2 DEF L2!NextDevice
  <2>q. QED BY <1>3, <1>4, <1>7, <2>1, <2>3, DeviceFields DEF n
<1>8. CASE d.type = "core"
  <2>1. n \in 0..k - 1 /\ L2(tree.K, tree.N)!QueueType(q) = "core_down" /\ d.pod = 0
    BY <1>2, <1>3, <1>8 DEF L2!QueueType, CustomDevice
  <2>2. L2(tree.K, tree.N)!NextDevice(q) = Device("edge", n \div LinksEach, 0)
    BY <1>3, <1>5, <1>6, <2>1 DEF L2!NextDevice, n
  <2>q. QED BY <1>3, <1>4, <1>8, <2>1, <2>2, DeviceFields DEF n, k
<1>9. CASE d.type = "edge"
  <2>1. CASE n < Half
    <3>1. n \in 0..Half - 1 /\ L2(tree.K, tree.N)!QueueType(q) = "edge_up" /\ d.local = 0
      BY <1>1, <1>2, <1>3, <1>5, <1>9, <2>1 DEF L2!QueueType, CustomDevice, n
    <3>2. L2(tree.K, tree.N)!NextDevice(q) = Device("core", 0, n \div LinksEach)
      BY <1>3, <1>5, <1>6, <3>1 DEF L2!NextDevice, n
    <3>3. ~(n - Half \in 0..Half - 1)
      BY <1>1, <2>1, <3>1
    <3>q. QED BY <1>3, <1>4, <1>9, <3>1, <3>2, <3>3, DeviceFields DEF n
  <2>2. CASE ~(n < Half)
    <3>1. n - Half \in 0..Half - 1 /\ n \notin 0..Half - 1
      BY <1>1, <1>3, <1>9, <2>2
    <3>2. n % Half = n - Half
      <4>1. ((n - Half) + 1 * Half) % Half = n - Half
        BY <1>1, <3>1, Quotient
      <4>2. n = (n - Half) + 1 * Half
        BY <1>1, <1>3, <1>9
      <4>q. QED BY <4>1, <4>2
    <3>3. L2(tree.K, tree.N)!QueueType(q) = "edge_down"
      BY <1>3, <1>5, <1>9, <2>2 DEF L2!QueueType, n
    <3>4. L2(tree.K, tree.N)!NextDevice(q) = Device("host", d.pod, n - Half)
      BY <1>3, <1>5, <1>6, <3>2, <3>3 DEF L2!NextDevice, n
    <3>q. QED BY <1>3, <1>4, <1>9, <3>1, <3>3, <3>4, DeviceFields DEF n
  <2>q. QED BY <2>1, <2>2
<1>q. QED BY <1>2, <1>7, <1>8, <1>9 DEF CustomDevice

\* What link() relies on: the links of a core switch to each edge switch use up
\* its ports, and the links of an edge switch to each core switch its upper half.
LEMMA CustomSizes ==
  ASSUME Custom
  PROVE  /\ CoreCount \in Nat \ {0}
         /\ tree.K = EdgeCount * LinksEach /\ Half = CoreCount * LinksEach
PROOF
<1>1. /\ tree.K \in Nat \ {0} /\ Half \in Nat \ {0} /\ tree.K = 2 * Half
      /\ EdgeCount \in Nat \ {0} /\ CoreCount \in Nat /\ 2 * CoreCount <= EdgeCount
      /\ HostsEach \in Nat \ {0} /\ LinksEach \in Nat \ {0}
      /\ EdgeCount * LinksEach <= tree.K
  BY CustomCounts
<1>2. PICK k \in Nat \ {0}, h \in Nat \ {0}, e \in Nat \ {0}, c \in Nat, l \in Nat \ {0} :
        k = tree.K /\ h = Half /\ e = EdgeCount /\ c = CoreCount /\ l = LinksEach
  BY <1>1
<1>3. ASSUME NEW d \in Devices, d.type # "host", NEW n \in 0..k - 1
      PROVE  /\ <<d, n>> \in Ports(d) /\ <<d, n>>[2] = n
             /\ NextDevice(<<d, n>>) \in Devices
  <2>1. <<d, n>> \in Ports(d)
    BY <1>2, <1>3, CustomPorts
  <2>2. Ports(d) = L2(tree.K, tree.N)!Ports(d) /\ Devices = L2(tree.K, tree.N)!Devices
    BY DEF Custom, Ports, PortsOf, L2!Ports, L2!PortsOf, Devices
  <2>3. \A q \in Ports(d) : L2(tree.K, tree.N)!NextDevice(q) \in Devices
    BY <2>2 DEF Custom, Linked, L2!Linked
  <2>q. QED BY <2>1, <2>3 DEF Custom, NextDevice
<1>4. \A b : b \in Devices <=> CustomDevice(b)
  BY CustomDevices DEF Custom
<1>5. h <= c * l
  <2> DEFINE d == Device("edge", 0, 0)
  <2>1. d \in Devices /\ d.type = "edge"
    <3>1. d.type = "edge" /\ d.pod = 0 /\ d.local = 0
      BY DeviceFields
    <3>q. QED BY <1>2, <1>4, <3>1 DEF CustomDevice
  <2> HIDE DEF d
  <2>2. h - 1 \in 0..k - 1 /\ h - 1 \in 0..h - 1
    BY <1>1, <1>2
  <2>3. PICK q \in Ports(d) : q[2] = h - 1 /\ NextDevice(q) \in Devices
    BY <1>3, <2>1, <2>2
  <2>4. NextDevice(q).type = "core" /\ NextDevice(q).local = (h - 1) \div l
    BY <1>2, <2>1, <2>2, <2>3, CustomHop
  <2>5. (h - 1) \div l \in 0..c - 1
    BY <1>2, <1>4, <2>3, <2>4 DEF CustomDevice
  <2>6. PICK m \in Nat : m = h - 1
    BY <2>2
  <2>7. m < c * l <=> m \div l < c
    BY Below
  <2>8. c * l \in Nat
    OBVIOUS
  <2>q. QED BY <2>5, <2>6, <2>7, <2>8
<1>6. c # 0
  BY <1>2, <1>5
<1>7. k <= e * l
  <2> DEFINE d == Device("core", 0, 0)
  <2>1. d \in Devices /\ d.type = "core"
    <3>1. d.type = "core" /\ d.pod = 0 /\ d.local = 0
      BY DeviceFields
    <3>q. QED BY <1>2, <1>4, <1>6, <3>1 DEF CustomDevice
  <2> HIDE DEF d
  <2>2. k - 1 \in 0..k - 1
    OBVIOUS
  <2>3. PICK q \in Ports(d) : q[2] = k - 1 /\ NextDevice(q) \in Devices
    BY <1>3, <2>1, <2>2
  <2>4. NextDevice(q).type = "edge" /\ NextDevice(q).pod = (k - 1) \div l
    BY <1>2, <2>1, <2>2, <2>3, CustomHop
  <2>5. (k - 1) \div l \in 0..e - 1
    BY <1>2, <1>4, <2>3, <2>4 DEF CustomDevice
  <2>6. PICK m \in Nat : m = k - 1
    BY <2>2
  <2>7. m < e * l <=> m \div l < e
    BY Below
  <2>8. e * l \in Nat
    OBVIOUS
  <2>q. QED BY <2>5, <2>6, <2>7, <2>8
<1>8. k = e * l /\ h = c * l
  <2>1. e * l \in Nat /\ c * l \in Nat /\ (2 * c) * l \in Nat /\ (2 * c) * l = 2 * (c * l)
    OBVIOUS
  <2>2. e * l <= k /\ k = 2 * h /\ 2 * c <= e
    BY <1>1, <1>2
  <2>3. (2 * c) * l <= e * l
    <3>1. PICK a \in Nat : a = 2 * c
      OBVIOUS
    <3>2. a * l <= e * l
      <4>1. CASE a < e
        <5>1. a * l + l <= e * l
          BY <4>1, Smaller
        <5>2. a * l \in Nat
          OBVIOUS
        <5>q. QED BY <2>1, <5>1, <5>2
      <4>2. CASE a = e
        BY <2>1, <4>2
      <4>q. QED BY <2>2, <3>1, <4>1, <4>2
    <3>q. QED BY <3>1, <3>2
  <2>4. 2 * (c * l) <= k
    BY <2>1, <2>2, <2>3
  <2>q. QED BY <1>5, <1>7, <2>1, <2>2, <2>4
<1>q. QED BY <1>2, <1>6, <1>8

\* Every port leads to a device.
LEMMA CustomLinked ==
  ASSUME Custom, NEW d \in Devices, NEW q \in Ports(d)
  PROVE  NextDevice(q) \in Devices
PROOF
<1>1. Ports(d) = L2(tree.K, tree.N)!Ports(d) /\ Devices = L2(tree.K, tree.N)!Devices
  BY DEF Custom, Ports, PortsOf, L2!Ports, L2!PortsOf, Devices
<1>q. QED BY <1>1 DEF Custom, Linked, L2!Linked, NextDevice

\* The edge switch of a host, and the port down to it, if it has one.
LEMMA CustomHosts ==
  ASSUME Custom, NEW h \in Devices, h.type = "host"
  PROVE  /\ HostPort(h) \in Ports(h) /\ QueueType(HostPort(h)) = "host_up"
         /\ EdgeOf(h) \in Devices /\ EdgeOf(h).type = "edge" /\ EdgeOf(h).pod = h.pod
         /\ EdgeOf(h) = Device("edge", h.pod, 0)
         /\ h.local < Half =>
              \E q \in Ports(EdgeOf(h)) : q = <<EdgeOf(h), h.local + Half>> /\ NextDevice(q) = h
PROOF
<1>1. tree.K \in Nat \ {0} /\ Half \in Nat \ {0} /\ tree.K = 2 * Half
  BY CustomCounts
<1>2. HostPort(h) \in Ports(h)
  BY HostPorts
<1>3. /\ EdgeOf(h) \in Devices /\ QueueType(HostPort(h)) = "host_up"
      /\ EdgeOf(h).type = "edge" /\ EdgeOf(h).pod = h.pod /\ EdgeOf(h) = Device("edge", h.pod, 0)
  <2>1. PICK q \in Ports(h) : q = HostPort(h)
    BY <1>2
  <2>2. /\ NextDevice(q) \in Devices /\ QueueType(q) = "host_up"
        /\ NextDevice(q).type = "edge" /\ NextDevice(q).pod = h.pod /\ NextDevice(q).local = 0
        /\ NextDevice(q) = Device(NextDevice(q).type, NextDevice(q).pod, NextDevice(q).local)
    BY CustomHop, CustomLinked
  <2>q. QED BY <2>1, <2>2 DEF EdgeOf
<1>4. ASSUME h.local < Half
      PROVE  \E q \in Ports(EdgeOf(h)) : q = <<EdgeOf(h), h.local + Half>> /\ NextDevice(q) = h
  <2>1. h = Device("host", h.pod, h.local) /\ h.local \in Nat
    <3>1. CustomDevice(h)
      BY CustomDevices DEF Custom
    <3>2. HostsEach \in Nat
      BY CustomCounts
    <3>q. QED BY <3>1, <3>2 DEF CustomDevice
  <2>2. h.local + Half \in 0..tree.K - 1
    BY <1>1, <1>4, <2>1
  <2>3. PICK q \in Ports(EdgeOf(h)) : q = <<EdgeOf(h), h.local + Half>> /\ q[2] = h.local + Half
    <3>1. PICK n \in 0..tree.K - 1 : n = h.local + Half
      BY <2>2
    <3>2. <<EdgeOf(h), n>> \in Ports(EdgeOf(h)) /\ <<EdgeOf(h), n>>[2] = n
      BY <1>3, CustomPorts
    <3>q. QED BY <3>1, <3>2
  <2>4. q[2] - Half \in 0..Half - 1 /\ q[2] - Half = h.local
    BY <1>1, <1>4, <2>1, <2>3
  <2>5. NextDevice(q) = Device("host", h.pod, h.local)
    BY <1>3, <2>3, <2>4, CustomHop
  <2>q. QED BY <2>1, <2>3, <2>5
<1>q. QED BY <1>2, <1>3, <1>4

\* Only the edge switch leads to a host, and only to those it has ports for.
LEMMA CustomDown ==
  ASSUME Custom, NEW d \in Devices, NEW q \in Ports(d), NextDevice(q).type = "host"
  PROVE  /\ d.type = "edge" /\ EdgeOf(NextDevice(q)) = d
         /\ NextDevice(q).local < Half /\ QueueType(q) = "edge_down"
PROOF
<1>1. Half \in Nat \ {0}
  BY CustomCounts
<1>2. CustomDevice(d)
  BY CustomDevices DEF Custom
<1>3. /\ d.type = "edge" /\ q[2] - Half \in 0..Half - 1 /\ NextDevice(q).pod = d.pod
      /\ NextDevice(q).local = q[2] - Half /\ QueueType(q) = "edge_down"
  BY <1>2, CustomHop DEF CustomDevice
<1>4. EdgeOf(NextDevice(q)) = Device("edge", d.pod, 0)
  BY <1>3, CustomLinked, CustomHosts
<1>5. d = Device("edge", d.pod, 0)
  BY <1>2, <1>3 DEF CustomDevice
<1>q. QED BY <1>1, <1>3, <1>4, <1>5

\* An edge switch and a core switch have ports that lead to each other.
LEMMA CustomBetween ==
  ASSUME Custom, NEW e \in Devices, e.type = "edge", NEW b \in Devices, b.type = "core"
  PROVE  /\ \E q \in Ports(e) : NextDevice(q) = b
         /\ \E q \in Ports(b) : NextDevice(q) = e
PROOF
<1>1. /\ tree.K \in Nat \ {0} /\ Half \in Nat \ {0} /\ tree.K = 2 * Half
      /\ EdgeCount \in Nat \ {0} /\ CoreCount \in Nat \ {0} /\ LinksEach \in Nat \ {0}
      /\ tree.K = EdgeCount * LinksEach /\ Half = CoreCount * LinksEach
  BY CustomCounts, CustomSizes
<1>2. /\ e = Device("edge", e.pod, 0) /\ e.pod \in 0..EdgeCount - 1
      /\ b = Device("core", 0, b.local) /\ b.local \in 0..CoreCount - 1
  <2>1. CustomDevice(e) /\ CustomDevice(b)
    BY CustomDevices DEF Custom
  <2>q. QED BY <2>1 DEF CustomDevice
<1>3. ASSUME NEW f \in Nat \ {0}, NEW d \in 0..f - 1
      PROVE  /\ d * LinksEach \in 0..f * LinksEach - 1
             /\ (d * LinksEach) \div LinksEach = d
  <2>1. PICK l \in Nat \ {0} : l = LinksEach
    BY <1>1
  <2>2. (0 + d * l) \div l = d /\ 0 + d * l \in Nat
    BY Quotient
  <2>3. 0 + d * l = d * l /\ d * l \in Nat /\ f * l \in Nat
    OBVIOUS
  <2>4. PICK m \in Nat : m = d * l
    BY <2>3
  <2>5. m \div l = d /\ d < f
    BY <2>2, <2>3, <2>4
  <2>6. m < f * l
    BY <2>5, Below
  <2>q. QED BY <2>1, <2>3, <2>4, <2>5, <2>6
<1>4. PICK n \in 0..Half - 1 : n \div LinksEach = b.local
  BY <1>1, <1>2, <1>3
<1>5. PICK m \in 0..tree.K - 1 : m \div LinksEach = e.pod
  BY <1>1, <1>2, <1>3
<1>6. \E q \in Ports(e) : NextDevice(q) = b
  <2>1. PICK q \in Ports(e) : q[2] = n
    <3>1. n \in 0..tree.K - 1
      BY <1>1
    <3>2. <<e, n>> \in Ports(e) /\ <<e, n>>[2] = n
      BY <3>1, CustomPorts
    <3>q. QED BY <3>2
  <2>2. NextDevice(q) = Device("core", 0, b.local)
    BY <1>4, <2>1, CustomHop
  <2>q. QED BY <1>2, <2>1, <2>2
<1>7. \E q \in Ports(b) : NextDevice(q) = e
  <2>1. PICK q \in Ports(b) : q[2] = m
    <3>1. <<b, m>> \in Ports(b) /\ <<b, m>>[2] = m
      BY CustomPorts
    <3>q. QED BY <3>1
  <2>2. NextDevice(q) = Device("edge", e.pod, 0)
    BY <1>5, <2>1, CustomHop
  <2>q. QED BY <1>2, <2>1, <2>2
<1>q. QED BY <1>6, <1>7

LEMMA CustomClosed ==
  ASSUME Custom
  PROVE  Closed /\ Returns
PROOF
<1>1. Closed
  BY CustomLinked DEF Closed
<1>2. ASSUME NEW d \in Devices, NEW b \in Devices, NEW p \in Ports(b), NextDevice(p) = d,
             NEW q \in Ports(d)
      PROVE  \E r \in Ports(NextDevice(q)) : NextDevice(r) = d
  <2>1. NextDevice(q) \in Devices /\ CustomDevice(d)
    BY CustomLinked, CustomDevices DEF Custom
  <2>2. CASE d.type = "host"
    <3>1. q = HostPort(d) /\ d.local < Half
      BY <1>2, <2>2, HostPorts, CustomDown
    <3>q. QED BY <2>2, <3>1, CustomHosts DEF EdgeOf
  <2>3. CASE NextDevice(q).type = "host"
    <3>1. EdgeOf(NextDevice(q)) = d /\ HostPort(NextDevice(q)) \in Ports(NextDevice(q))
      BY <2>1, <2>3, CustomDown, CustomHosts
    <3>q. QED BY <3>1 DEF EdgeOf
  <2>4. CASE d.type = "edge" /\ NextDevice(q).type = "core"
    BY <2>1, <2>4, CustomBetween
  <2>5. CASE d.type = "core" /\ NextDevice(q).type = "edge"
    BY <2>1, <2>5, CustomBetween
  <2>q. QED BY <2>1, <2>2, <2>3, <2>4, <2>5, CustomHop DEF CustomDevice
<1>3. Returns
  BY <1>2 DEF Returns
<1>q. QED BY <1>1, <1>3

-------------------------------------------------------------------------------
(* The devices at each distance of a host of the two-level tree.           *)

CustomSphere(s, n) ==
  CASE n = 0 -> {s}
    [] n = 1 -> {EdgeOf(s)}
    [] n = 2 -> {b \in Devices : (b.type = "host" /\ b.pod = s.pod) \/ b.type = "core"}
    [] n = 3 -> {b \in Devices : b.type = "edge"}
    [] n = 4 -> {b \in Devices : b.type = "host" \/ b.type = "core"}

\* Nothing leads to a host that its edge switch has no port for.
LEMMA CustomUnreached ==
  ASSUME Custom, NEW s \in Devices, s.type = "host", ~(s.local < Half)
  PROVE  /\ \A d \in Devices : \A q \in Ports(d) : NextDevice(q) # s
         /\ \A n \in 1..6 : Spheres(s)[n] = {}
PROOF
<1>1. \A d \in Devices : \A q \in Ports(d) : NextDevice(q) # s
  BY CustomDown
<1>2. Behind({s}) = {} /\ Behind({}) = {}
  BY <1>1 DEF Behind
<1>3. /\ Spheres(s)[1] = {} /\ Spheres(s)[2] = {} /\ Spheres(s)[3] = {}
      /\ Spheres(s)[4] = {} /\ Spheres(s)[5] = {} /\ Spheres(s)[6] = {}
  <2>1. Spheres(s)[0] = {s} /\ \A n \in 1..6 : Spheres(s)[n] = Behind(Spheres(s)[n - 1])
    BY SphereSteps
  <2>2. Spheres(s)[1] = {}
    BY <1>2, <2>1
  <2>3. \A n \in 2..6 : Spheres(s)[n - 1] = {} => Spheres(s)[n] = {}
    BY <1>2, <2>1
  <2>4. Spheres(s)[2] = {}
    BY <2>2, <2>3
  <2>5. Spheres(s)[3] = {}
    BY <2>3, <2>4
  <2>6. Spheres(s)[4] = {}
    BY <2>3, <2>5
  <2>7. Spheres(s)[5] = {}
    BY <2>3, <2>6
  <2>8. Spheres(s)[6] = {}
    BY <2>3, <2>7
  <2>q. QED BY <2>2, <2>4, <2>5, <2>6, <2>7, <2>8
<1>4. \A n \in 1..6 : n \in {1, 2, 3, 4, 5, 6}
  OBVIOUS
<1>q. QED BY <1>1, <1>3, <1>4

LEMMA CustomSpheres ==
  ASSUME Custom, NEW s \in Devices, s.type = "host", s.local < Half
  PROVE  \A n \in 0..4 : Spheres(s)[n] = CustomSphere(s, n)
PROOF
<1>1. \A b : b \in Devices <=> CustomDevice(b)
  BY CustomDevices DEF Custom
<1>2. EdgeOf(s) \in Devices /\ EdgeOf(s).type = "edge" /\ EdgeOf(s).pod = s.pod
  BY CustomHosts
<1>3. PICK core \in Devices : core.type = "core"
  <2>1. CoreCount \in Nat \ {0}
    BY CustomSizes
  <2>2. CustomDevice(Device("core", 0, 0))
    BY <2>1, DeviceFields DEF CustomDevice
  <2>q. QED BY <1>1, <2>2, DeviceFields
<1>4. ASSUME NEW d \in Devices, d.type = "edge", d.pod = s.pod PROVE d = EdgeOf(s)
  BY <1>1, <1>4, CustomHosts DEF CustomDevice
<1>5. ASSUME NEW d \in Devices, NEW q \in Ports(d)
      PROVE  /\ NextDevice(q) \in Devices
             /\ d.type = "host" => NextDevice(q).type = "edge" /\ NextDevice(q) = EdgeOf(d)
             /\ d.type = "edge" => \/ NextDevice(q).type = "core"
                                   \/ NextDevice(q).type = "host" /\ NextDevice(q).pod = d.pod
             /\ d.type = "core" => NextDevice(q).type = "edge"
  <2>1. d.type = "host" => NextDevice(q) = EdgeOf(d)
    BY HostPorts DEF EdgeOf
  <2>q. QED BY <2>1, CustomHop, CustomLinked
<1>6. Behind(CustomSphere(s, 0)) = CustomSphere(s, 1)
  <2>1. ASSUME NEW b \in Devices, NEW q \in Ports(b), NextDevice(q) = s PROVE b = EdgeOf(s)
    BY <2>1, CustomDown
  <2>2. \E q \in Ports(EdgeOf(s)) : NextDevice(q) = s
    BY CustomHosts
  <2>q. QED BY <1>2, <2>1, <2>2 DEF Behind, CustomSphere
<1>7. Behind(CustomSphere(s, 1)) = CustomSphere(s, 2)
  <2>1. ASSUME NEW b \in Devices, NEW q \in Ports(b), NextDevice(q) = EdgeOf(s)
        PROVE  b \in CustomSphere(s, 2)
    <3>1. CASE b.type = "host"
      <4>1. EdgeOf(b) = EdgeOf(s) /\ EdgeOf(b).pod = b.pod
        BY <1>5, <2>1, <3>1, CustomHosts
      <4>q. QED BY <1>2, <3>1, <4>1 DEF CustomSphere
    <3>2. CASE b.type # "host"
      BY <1>1, <1>2, <1>5, <2>1, <3>2 DEF CustomSphere, CustomDevice
    <3>q. QED BY <3>1, <3>2
  <2>2. ASSUME NEW b \in CustomSphere(s, 2)
        PROVE  b \in Devices /\ \E q \in Ports(b) : NextDevice(q) = EdgeOf(s)
    <3>1. b \in Devices /\ ((b.type = "host" /\ b.pod = s.pod) \/ b.type = "core")
      BY DEF CustomSphere
    <3>2. CASE b.type = "host"
      <4>1. HostPort(b) \in Ports(b) /\ NextDevice(HostPort(b)) = EdgeOf(b)
        BY <3>2, HostPorts DEF EdgeOf
      <4>2. EdgeOf(b) \in Devices /\ EdgeOf(b).type = "edge" /\ EdgeOf(b).pod = s.pod
        BY <3>1, <3>2, CustomHosts
      <4>q. QED BY <1>4, <3>1, <4>1, <4>2
    <3>3. CASE b.type = "core"
      BY <1>2, <3>1, <3>3, CustomBetween
    <3>q. QED BY <3>1, <3>2, <3>3
  <2>3. CustomSphere(s, 1) = {EdgeOf(s)} /\ CustomSphere(s, 2) \subseteq Devices
    BY DEF CustomSphere
  <2>q. QED BY <2>1, <2>2, <2>3 DEF Behind
<1>8. Behind(CustomSphere(s, 2)) = CustomSphere(s, 3)
  <2>1. ASSUME NEW b \in Devices, NEW q \in Ports(b), NextDevice(q) \in CustomSphere(s, 2)
        PROVE  b \in CustomSphere(s, 3)
    <3>1. NextDevice(q).type = "host" \/ NextDevice(q).type = "core"
      BY <2>1 DEF CustomSphere
    <3>2. b.type = "edge"
      BY <1>1, <1>5, <3>1 DEF CustomDevice
    <3>q. QED BY <3>2 DEF CustomSphere
  <2>2. ASSUME NEW b \in CustomSphere(s, 3)
        PROVE  b \in Devices /\ \E q \in Ports(b) : NextDevice(q) \in CustomSphere(s, 2)
    <3>1. b \in Devices /\ b.type = "edge"
      BY DEF CustomSphere
    <3>2. PICK q \in Ports(b) : NextDevice(q) = core
      BY <1>3, <3>1, CustomBetween
    <3>q. QED BY <1>3, <3>1, <3>2 DEF CustomSphere
  <2>3. CustomSphere(s, 3) \subseteq Devices
    BY DEF CustomSphere
  <2>q. QED BY <2>1, <2>2, <2>3 DEF Behind
<1>9. Behind(CustomSphere(s, 3)) = CustomSphere(s, 4)
  <2>1. ASSUME NEW b \in Devices, NEW q \in Ports(b), NextDevice(q) \in CustomSphere(s, 3)
        PROVE  b \in CustomSphere(s, 4)
    <3>1. NextDevice(q).type = "edge"
      BY <2>1 DEF CustomSphere
    <3>2. b.type = "host" \/ b.type = "core"
      BY <1>1, <1>5, <3>1 DEF CustomDevice
    <3>q. QED BY <3>2 DEF CustomSphere
  <2>2. ASSUME NEW b \in CustomSphere(s, 4)
        PROVE  b \in Devices /\ \E q \in Ports(b) : NextDevice(q) \in CustomSphere(s, 3)
    <3>1. b \in Devices /\ (b.type = "host" \/ b.type = "core")
      BY DEF CustomSphere
    <3>2. CASE b.type = "host"
      <4>1. HostPort(b) \in Ports(b)
        BY <3>2, HostPorts
      <4>q. QED BY <1>5, <3>1, <3>2, <4>1 DEF CustomSphere
    <3>3. CASE b.type = "core"
      BY <1>2, <3>1, <3>3, CustomBetween DEF CustomSphere
    <3>q. QED BY <3>1, <3>2, <3>3
  <2>3. CustomSphere(s, 4) \subseteq Devices
    BY DEF CustomSphere
  <2>q. QED BY <2>1, <2>2, <2>3 DEF Behind
<1>10. Spheres(s)[0] = CustomSphere(s, 0)
  BY SphereSteps DEF CustomSphere
<1>11. /\ Spheres(s)[1] = Behind(Spheres(s)[0]) /\ Spheres(s)[2] = Behind(Spheres(s)[1])
       /\ Spheres(s)[3] = Behind(Spheres(s)[2]) /\ Spheres(s)[4] = Behind(Spheres(s)[3])
  BY SphereSteps
<1>12. \A n \in 0..4 : n \in {0, 1, 2, 3, 4}
  OBVIOUS
<1>q. QED BY <1>6, <1>7, <1>8, <1>9, <1>10, <1>11, <1>12

LEMMA CustomReached ==
  ASSUME Custom, NEW h \in Devices, h.type = "host", h.local < Half
  PROVE  Reached(h)
BY CustomHosts DEF Reached

LEMMA CustomEdges ==
  ASSUME Custom, NEW c \in Devices, c.type = "host", NEW s \in Devices, s.type = "host"
  PROVE  EdgeOf(c) = EdgeOf(s) <=> c.pod = s.pod
PROOF
<1>1. /\ EdgeOf(c) = Device("edge", c.pod, 0) /\ EdgeOf(c).pod = c.pod
      /\ EdgeOf(s) = Device("edge", s.pod, 0) /\ EdgeOf(s).pod = s.pod
  BY CustomHosts
<1>q. QED BY <1>1

LEMMA CustomNear ==
  ASSUME Custom, NEW c \in Devices, c.type = "host", NEW s \in Devices, s.type = "host"
  PROVE  /\ ~(s.local < Half) => ShortestWalks(c, s) = {}
         /\ s.local < Half /\ c.pod = s.pod =>
              c \in Spheres(s)[2] /\ ShortestWalks(c, s) = WalksInto(Spheres(s), c, 2)
         /\ s.local < Half /\ c.pod # s.pod =>
              c \in Spheres(s)[4] /\ ShortestWalks(c, s) = WalksInto(Spheres(s), c, 4)
PROOF
<1>1. ASSUME ~(s.local < Half) PROVE ShortestWalks(c, s) = {}
  <2>1. \A n \in 1..6 : Spheres(s)[n] = {}
    BY <1>1, CustomUnreached
  <2>2. {n \in 1..6 : c \in Spheres(s)[n]} = {}
    BY <2>1
  <2>q. QED BY <2>2 DEF ShortestWalks
<1>2. ASSUME s.local < Half
      PROVE  /\ c \notin Spheres(s)[1] /\ c \notin Spheres(s)[3]
             /\ c \in Spheres(s)[2] <=> c.pod = s.pod
             /\ c \in Spheres(s)[4]
  <2>1. \A n \in 0..4 : Spheres(s)[n] = CustomSphere(s, n)
    BY <1>2, CustomSpheres
  <2>2. EdgeOf(s).type = "edge"
    BY CustomHosts
  <2>3. /\ c \notin CustomSphere(s, 1) /\ c \notin CustomSphere(s, 3)
        /\ c \in CustomSphere(s, 2) <=> c.pod = s.pod
        /\ c \in CustomSphere(s, 4)
    BY <2>2 DEF CustomSphere
  <2>q. QED BY <2>1, <2>3
<1>3. /\ \A n \in 1..6 : n < 2 => n = 1
      /\ \A n \in 1..6 : n < 4 => n \in {1, 2, 3}
  OBVIOUS
<1>4. ASSUME s.local < Half, c.pod = s.pod
      PROVE  c \in Spheres(s)[2] /\ ShortestWalks(c, s) = WalksInto(Spheres(s), c, 2)
  <2>1. c \in Spheres(s)[2] /\ \A n \in 1..6 : n < 2 => c \notin Spheres(s)[n]
    BY <1>2, <1>3, <1>4
  <2>q. QED BY <2>1, Nearest
<1>5. ASSUME s.local < Half, c.pod # s.pod
      PROVE  c \in Spheres(s)[4] /\ ShortestWalks(c, s) = WalksInto(Spheres(s), c, 4)
  <2>1. c \in Spheres(s)[4] /\ \A n \in 1..6 : n < 4 => c \notin Spheres(s)[n]
    BY <1>2, <1>3, <1>5
  <2>q. QED BY <2>1, Nearest
<1>q. QED BY <1>1, <1>4, <1>5

-------------------------------------------------------------------------------
(* FattreeL2custom::route makes the walks that lead closer with every step. *)

LEMMA CustomCode ==
  ASSUME Custom
  PROVE  /\ \A q : L2(tree.K, tree.N)!NextDevice(q) = NextDevice(q)
         /\ \A h : /\ L2(tree.K, tree.N)!EdgeOf(h) = EdgeOf(h)
                   /\ L2(tree.K, tree.N)!HostPort(h) = HostPort(h)
         /\ \A d : L2(tree.K, tree.N)!Ports(d) = Ports(d)
         /\ L2(tree.K, tree.N)!NoneUsed = NoneUsed
         /\ \A c, s : FlowSplits(c, s) = L2(tree.K, tree.N)!FlowSplits(c, s)
PROOF
<1>1. \A q : L2(tree.K, tree.N)!NextDevice(q) = NextDevice(q)
  BY DEF Custom, NextDevice
<1>2. \A h : L2(tree.K, tree.N)!HostPort(h) = HostPort(h)
  BY DEF HostPort, L2!HostPort
<1>3. \A h : L2(tree.K, tree.N)!EdgeOf(h) = EdgeOf(h)
  BY <1>1, <1>2 DEF EdgeOf, L2!EdgeOf
<1>4. \A d : L2(tree.K, tree.N)!Ports(d) = Ports(d)
  BY DEF Ports, L2!Ports, PortsOf, L2!PortsOf
<1>5. L2(tree.K, tree.N)!NoneUsed = NoneUsed
  BY DEF NoneUsed, L2!NoneUsed, NotUsed, L2!NotUsed
<1>6. \A c, s : FlowSplits(c, s) = L2(tree.K, tree.N)!FlowSplits(c, s)
  BY DEF Custom, FlowSplits
<1>q. QED BY <1>1, <1>2, <1>3, <1>4, <1>5, <1>6

\* The splits as route() finds them.
LEMMA CustomFound ==
  ASSUME Custom, NEW c, NEW s
  PROVE  \A f :
    /\ EdgeOf(c) = EdgeOf(s) =>
         (f \in FlowSplits(c, s) <=>
            \E p \in {q \in Ports(EdgeOf(s)) : NextDevice(q) = s} :
              f = AtStages(HostPort(c), NotUsed, NotUsed, NotUsed, NotUsed, p))
    /\ EdgeOf(c) # EdgeOf(s) =>
         (f \in FlowSplits(c, s) <=>
            \E p \in {q \in Ports(EdgeOf(c)) : NextDevice(q).type = "core"} :
              \E q \in {r \in Ports(NextDevice(p)) : NextDevice(r) = EdgeOf(s)} :
                \E r \in {t \in Ports(EdgeOf(s)) : NextDevice(t) = s} :
                  f = AtStages(HostPort(c), p, NotUsed, q, NotUsed, r))
PROOF
<1> DEFINE Ups == {q \in Ports(EdgeOf(c)) : NextDevice(q).type = "core"}
           Down(d, e) == {q \in Ports(d) : NextDevice(q) = e}
<1>1. ASSUME EdgeOf(c) = EdgeOf(s)
      PROVE  FlowSplits(c, s) =
               {[NoneUsed EXCEPT ![0] = HostPort(c), ![5] = p] : p \in Down(EdgeOf(s), s)}
  BY <1>1, CustomCode DEF L2!FlowSplits, L2!TwoHops
<1>2. ASSUME EdgeOf(c) # EdgeOf(s)
      PROVE  FlowSplits(c, s) = UNION {UNION {
               {[NoneUsed EXCEPT ![0] = HostPort(c), ![1] = p, ![3] = q, ![5] = r] :
                  r \in Down(EdgeOf(s), s)} :
                q \in Down(NextDevice(p), EdgeOf(s))} : p \in Ups}
  BY <1>2, CustomCode DEF L2!FlowSplits, L2!FourHops
<1> HIDE DEF Ups, Down
<1>3. ASSUME EdgeOf(c) = EdgeOf(s)
      PROVE  FlowSplits(c, s) =
               {AtStages(HostPort(c), NotUsed, NotUsed, NotUsed, NotUsed, p) :
                  p \in Down(EdgeOf(s), s)}
  BY <1>1, <1>3, ExceptStages
<1>4. ASSUME EdgeOf(c) # EdgeOf(s)
      PROVE  FlowSplits(c, s) = UNION {UNION {
               {AtStages(HostPort(c), p, NotUsed, q, NotUsed, r) : r \in Down(EdgeOf(s), s)} :
                q \in Down(NextDevice(p), EdgeOf(s))} : p \in Ups}
  BY <1>2, <1>4, ExceptStages
<1>5. ASSUME EdgeOf(c) = EdgeOf(s), NEW f
      PROVE  f \in FlowSplits(c, s) <=>
               \E p \in Down(EdgeOf(s), s) :
                 f = AtStages(HostPort(c), NotUsed, NotUsed, NotUsed, NotUsed, p)
  BY <1>3, <1>5
<1>6. ASSUME EdgeOf(c) # EdgeOf(s), NEW f
      PROVE  f \in FlowSplits(c, s) <=>
               \E p \in Ups : \E q \in Down(NextDevice(p), EdgeOf(s)) :
                 \E r \in Down(EdgeOf(s), s) :
                   f = AtStages(HostPort(c), p, NotUsed, q, NotUsed, r)
  BY <1>4, <1>6
<1>q. QED BY <1>5, <1>6 DEF Ups, Down

LEMMA CustomTwo ==
  ASSUME Custom, NEW c \in Devices, c.type = "host", NEW s \in Devices, s.type = "host",
         c.pod = s.pod
  PROVE  FlowSplits(c, s) = {TwoStages(w) : w \in WalksInto(Spheres(s), c, 2)}
PROOF
<1>1. EdgeOf(c) = EdgeOf(s)
  BY CustomEdges
<1>2. Towards(HostPort(c), Spheres(s)[0]) = {q \in Ports(EdgeOf(s)) : NextDevice(q) = s}
  BY <1>1, SphereSteps DEF Towards, EdgeOf
<1>3. \A f : f \in FlowSplits(c, s) <=>
        \E p \in Towards(HostPort(c), Spheres(s)[0]) :
          f = AtStages(HostPort(c), NotUsed, NotUsed, NotUsed, NotUsed, p)
  BY <1>1, <1>2, CustomFound
<1>4. \A f : (\E w \in WalksInto(Spheres(s), c, 2) : f = TwoStages(w)) <=>
        \E p \in Towards(HostPort(c), Spheres(s)[0]) :
          f = AtStages(HostPort(c), NotUsed, NotUsed, NotUsed, NotUsed, p)
  BY InTwoStages, ZenonT(30)
<1>q. QED BY <1>3, <1>4

LEMMA CustomFour ==
  ASSUME Custom, NEW c \in Devices, c.type = "host", NEW s \in Devices, s.type = "host",
         c.pod # s.pod, s.local < Half
  PROVE  FlowSplits(c, s) = {FourStagesL2(w) : w \in WalksInto(Spheres(s), c, 4)}
PROOF
<1> DEFINE Ups == {q \in Ports(EdgeOf(c)) : NextDevice(q).type = "core"}
           Down(d, e) == {q \in Ports(d) : NextDevice(q) = e}
<1>1. \A f : f \in FlowSplits(c, s) <=>
        \E p \in Ups : \E q \in Down(NextDevice(p), EdgeOf(s)) :
          \E r \in Down(EdgeOf(s), s) : f = AtStages(HostPort(c), p, NotUsed, q, NotUsed, r)
  <2>1. EdgeOf(c) # EdgeOf(s)
    BY CustomEdges
  <2>q. QED BY <2>1, CustomFound
<1>2. /\ EdgeOf(c) \in Devices /\ EdgeOf(c).type = "edge" /\ EdgeOf(c).pod = c.pod
      /\ EdgeOf(s) \in Devices
  BY CustomHosts
<1>3. /\ Spheres(s)[0] = {s} /\ Spheres(s)[1] = {EdgeOf(s)}
      /\ Spheres(s)[2] = CustomSphere(s, 2)
  BY CustomSpheres DEF CustomSphere
<1>4. Towards(HostPort(c), Spheres(s)[2]) = Ups
  <2>1. ASSUME NEW p \in Ports(EdgeOf(c))
        PROVE  NextDevice(p) \in CustomSphere(s, 2) <=> NextDevice(p).type = "core"
    <3>1. NextDevice(p) \in Devices
      BY <1>2, CustomLinked
    <3>2. NextDevice(p).type = "core" \/ NextDevice(p).pod = c.pod
      BY <1>2, CustomHop
    <3>q. QED BY <3>1, <3>2 DEF CustomSphere
  <2>2. NextDevice(HostPort(c)) = EdgeOf(c)
    BY DEF EdgeOf
  <2>q. QED BY <1>3, <2>1, <2>2 DEF Towards
<1>5. ASSUME NEW p PROVE Towards(p, Spheres(s)[1]) = Down(NextDevice(p), EdgeOf(s))
  BY <1>3 DEF Towards
<1>6. ASSUME NEW p, NEW q \in Down(NextDevice(p), EdgeOf(s))
      PROVE  Towards(q, Spheres(s)[0]) = Down(EdgeOf(s), s)
  BY <1>3 DEF Towards
<1> HIDE DEF Ups, Down
<1>7. \A f : f \in FlowSplits(c, s) <=>
        \E p \in Towards(HostPort(c), Spheres(s)[2]) :
          \E q \in Towards(p, Spheres(s)[1]) : \E r \in Towards(q, Spheres(s)[0]) :
            f = AtStages(HostPort(c), p, NotUsed, q, NotUsed, r)
  BY <1>1, <1>4, <1>5, <1>6
<1>8. \A f : (\E w \in WalksInto(Spheres(s), c, 4) : f = FourStagesL2(w)) <=>
        \E p \in Towards(HostPort(c), Spheres(s)[2]) :
          \E q \in Towards(p, Spheres(s)[1]) : \E r \in Towards(q, Spheres(s)[0]) :
            f = AtStages(HostPort(c), p, NotUsed, q, NotUsed, r)
  BY InFourStagesL2
<1>q. QED BY <1>7, <1>8

LEMMA CustomTwoStaged ==
  ASSUME Custom, NEW c \in Devices, c.type = "host", NEW s \in Devices, s.type = "host",
         NEW w \in WalksInto(Spheres(s), c, 2)
  PROVE  Staged(TwoStages(w))
PROOF
<1>1. /\ w[1] = HostPort(c) /\ w[2] \in Ports(NextDevice(w[1])) /\ NextDevice(w[2]) = s
  BY CustomClosed, TwoWalks DEF Towards
<1>2. NextDevice(w[1]) = EdgeOf(c)
  BY <1>1 DEF EdgeOf
<1>3. QueueType(w[1]) = "host_up" /\ QueueType(w[2]) = "edge_down"
  BY <1>1, <1>2, CustomHosts, CustomDown
<1>q. QED BY <1>3, StagedBy DEF TwoStages

LEMMA CustomFourStaged ==
  ASSUME Custom, NEW c \in Devices, c.type = "host", NEW s \in Devices, s.type = "host",
         c.pod # s.pod, s.local < Half, NEW w \in WalksInto(Spheres(s), c, 4)
  PROVE  Staged(FourStagesL2(w))
PROOF
<1>1. /\ w[1] = HostPort(c)
      /\ w[2] \in Ports(NextDevice(w[1])) /\ NextDevice(w[2]) \in Spheres(s)[2]
      /\ w[3] \in Ports(NextDevice(w[2])) /\ NextDevice(w[3]) \in Spheres(s)[1]
      /\ w[4] \in Ports(NextDevice(w[3])) /\ NextDevice(w[4]) = s
  BY CustomClosed, FourWalks DEF Towards
<1>2. NextDevice(w[1]) = EdgeOf(c)
  BY <1>1 DEF EdgeOf
<1>3. /\ EdgeOf(c) \in Devices /\ EdgeOf(c).type = "edge" /\ EdgeOf(c).pod = c.pod
      /\ EdgeOf(s) \in Devices /\ EdgeOf(s).type = "edge" /\ QueueType(w[1]) = "host_up"
  BY <1>1, CustomHosts
<1>4. NextDevice(w[3]) = EdgeOf(s) /\ NextDevice(w[2]) \in CustomSphere(s, 2)
  <2>1. Spheres(s)[1] = {EdgeOf(s)} /\ Spheres(s)[2] = CustomSphere(s, 2)
    BY CustomSpheres DEF CustomSphere
  <2>q. QED BY <1>1, <2>1
<1>5. /\ NextDevice(w[2]) \in Devices /\ NextDevice(w[2]).type = "core"
      /\ QueueType(w[2]) = "edge_up"
  <2>1. \/ NextDevice(w[2]).type = "core" /\ QueueType(w[2]) = "edge_up"
        \/ NextDevice(w[2]).type = "host" /\ NextDevice(w[2]).pod = c.pod
    BY <1>1, <1>2, <1>3, CustomHop
  <2>q. QED BY <1>4, <2>1 DEF CustomSphere
<1>6. QueueType(w[3]) = "core_down"
  BY <1>1, <1>5, CustomHop
<1>7. QueueType(w[4]) = "edge_down"
  BY <1>1, <1>3, <1>4, CustomDown
<1>q. QED BY <1>3, <1>5, <1>6, <1>7, StagedBy DEF FourStagesL2

LEMMA CustomRoutes ==
  ASSUME Custom, NEW c \in Devices, c.type = "host", NEW s \in Devices, s.type = "host"
  PROVE  /\ Routed(c, s) /\ (FlowSplits(c, s) = {} <=> ~(s.local < Half))
         /\ c.local < Half /\ s.local < Half =>
              Vias(ShortestWalks(c, s)) = Backs(ShortestWalks(s, c))
PROOF
<1>0. tree \in Trees /\ Closed /\ Returns
  BY CustomClosed DEF Custom
<1>1. CASE ~(s.local < Half)
  <2>1. ShortestWalks(c, s) = {}
    BY <1>1, CustomNear
  <2>2. {q \in Ports(EdgeOf(s)) : NextDevice(q) = s} = {}
    BY <1>1, CustomHosts, CustomUnreached
  <2>3. FlowSplits(c, s) = {}
    BY <2>2, CustomFound
  <2>q. QED BY <1>1, <2>1, <2>3, FS_EmptySet DEF Routed, MadeOf
<1>2. CASE s.local < Half /\ c.pod = s.pod
  <2>1. ShortestWalks(c, s) = WalksInto(Spheres(s), c, 2) /\ c \in Spheres(s)[2]
    BY <1>2, CustomNear
  <2>2. FlowSplits(c, s) = {TwoStages(w) : w \in WalksInto(Spheres(s), c, 2)}
    BY <1>2, CustomTwo
  <2>3. MadeOf(FlowSplits(c, s), ShortestWalks(c, s))
    BY <1>0, <2>1, <2>2, OfTwoStages
  <2>4. \A split \in FlowSplits(c, s) : Staged(split)
    BY <2>2, CustomTwoStaged
  <2>5. FlowSplits(c, s) # {}
    BY <2>1, <2>2, SomeTwo
  <2>6. ASSUME c.local < Half
        PROVE  Vias(ShortestWalks(c, s)) = Backs(ShortestWalks(s, c))
    <3>1. ShortestWalks(s, c) = WalksInto(Spheres(c), s, 2)
      BY <1>2, <2>6, CustomNear
    <3>2. Reached(c) /\ Reached(s)
      BY <1>2, <2>6, CustomReached
    <3>q. QED BY <1>0, <2>1, <3>1, <3>2, TwoMirror
  <2>q. QED BY <1>2, <2>3, <2>4, <2>5, <2>6 DEF Routed
<1>3. CASE s.local < Half /\ c.pod # s.pod
  <2>1. ShortestWalks(c, s) = WalksInto(Spheres(s), c, 4) /\ c \in Spheres(s)[4]
    BY <1>3, CustomNear
  <2>2. FlowSplits(c, s) = {FourStagesL2(w) : w \in WalksInto(Spheres(s), c, 4)}
    BY <1>3, CustomFour
  <2>3. MadeOf(FlowSplits(c, s), ShortestWalks(c, s))
    BY <1>0, <2>1, <2>2, OfFourStagesL2
  <2>4. \A split \in FlowSplits(c, s) : Staged(split)
    BY <1>3, <2>2, CustomFourStaged
  <2>5. FlowSplits(c, s) # {}
    BY <2>1, <2>2, SomeFour
  <2>6. ASSUME c.local < Half
        PROVE  Vias(ShortestWalks(c, s)) = Backs(ShortestWalks(s, c))
    <3>1. ShortestWalks(s, c) = WalksInto(Spheres(c), s, 4)
      BY <1>3, <2>6, CustomNear
    <3>2. Reached(c) /\ Reached(s)
      BY <1>3, <2>6, CustomReached
    <3>q. QED BY <1>0, <2>1, <3>1, <3>2, FourMirror
  <2>q. QED BY <1>3, <2>3, <2>4, <2>5, <2>6 DEF Routed
<1>q. QED BY <1>1, <1>2, <1>3

-------------------------------------------------------------------------------
(* The hosts that route() numbers.                                         *)

LEMMA Numbered ==
  ASSUME NEW k \in Nat \ {0}, NEW m \in Nat \ {0}
  PROVE  /\ k * m \in Nat \ {0}
         /\ \A id \in 0..k * m - 1 : id \div m \in 0..k - 1 /\ id % m \in 0..m - 1
PROOF
<1>1. k * m \in Nat \ {0}
  <2>1. k * m \in Nat
    OBVIOUS
  <2>2. 0 < k * m <=> 0 \div m < k
    BY Below
  <2>3. 0 \div m = 0
    <3>1. (0 + 0 * m) \div m = 0 /\ 0 + 0 * m = 0
      BY Quotient
    <3>q. QED BY <3>1
  <2>q. QED BY <2>1, <2>2, <2>3
<1>2. ASSUME NEW id \in 0..k * m - 1
      PROVE  id \div m \in 0..k - 1 /\ id % m \in 0..m - 1
  <2>1. id \in Nat /\ id < k * m
    BY <1>1
  <2>2. id \div m \in Nat /\ id % m \in 0..m - 1
    BY <2>1, Division
  <2>3. id \div m < k
    BY <2>1, Below
  <2>q. QED BY <2>2, <2>3
<1>q. QED BY <1>1, <1>2

LEMMA HostsOf ==
  ASSUME tree \in Trees, Linked
  PROVE  /\ NumHosts \in Nat \ {0}
         /\ \A id \in 0..NumHosts - 1 : HostOf(id) \in Devices /\ HostOf(id).type = "host"
PROOF
<1>1. CASE ThreeLevels
  <2>1. Fat
    BY <1>1 DEF Fat
  <2>2. tree.K \in Nat \ {0} /\ Half \in Nat \ {0}
    BY Sizes
  <2>3. PICK k \in Nat \ {0}, m \in Nat \ {0} : k = tree.K /\ m = Half * Half
    <3>1. Half * Half \in Nat \ {0}
      BY <2>2, Numbered
    <3>q. QED BY <2>2, <3>1
  <2>4. L3(tree.K)!HostsPerPod = m
    BY <2>3 DEF L3!HostsPerPod, L3!Half, Half
  <2>5. NumHosts = k * m
    BY <1>1, <2>3, <2>4 DEF NumHosts, L3!NumHosts
  <2>6. ASSUME NEW id \in 0..NumHosts - 1
        PROVE  HostOf(id) \in Devices /\ HostOf(id).type = "host"
    <3>1. HostOf(id) = Device("host", id \div m, id % m)
      BY <1>1, <2>4 DEF HostOf, L3!HostOf, L3!Device, Device
    <3>2. id \div m \in 0..tree.K - 1 /\ id % m \in 0..Half * Half - 1
      BY <2>3, <2>5, Numbered
    <3>3. /\ HostOf(id).type = "host" /\ HostOf(id).pod = id \div m
          /\ HostOf(id).local = id % m
      BY <3>1, DeviceFields
    <3>4. FatDevice(HostOf(id))
      BY <3>1, <3>2, <3>3 DEF FatDevice
    <3>q. QED BY <2>1, <3>3, <3>4, FatDevices
  <2>q. QED BY <2>5, <2>6, Numbered
<1>2. CASE ~ThreeLevels
  <2>1. Custom
    BY <1>2 DEF Custom
  <2>2. PICK k \in Nat \ {0}, m \in Nat \ {0} : k = EdgeCount /\ m = HostsEach
    BY <2>1, CustomCounts
  <2>3. NumHosts = k * m
    BY <1>2, <2>2 DEF NumHosts, L2!NumHosts, EdgeCount, HostsEach
  <2>4. ASSUME NEW id \in 0..NumHosts - 1
        PROVE  HostOf(id) \in Devices /\ HostOf(id).type = "host"
    <3>1. HostOf(id) = Device("host", id \div m, id % m)
      BY <1>2, <2>2 DEF HostOf, L2!HostOf, L2!Device, Device, HostsEach
    <3>2. id \div m \in 0..EdgeCount - 1 /\ id % m \in 0..HostsEach - 1
      BY <2>2, <2>3, Numbered
    <3>3. /\ HostOf(id).type = "host" /\ HostOf(id).pod = id \div m
          /\ HostOf(id).local = id % m
      BY <3>1, DeviceFields
    <3>4. CustomDevice(HostOf(id))
      BY <3>1, <3>2, <3>3 DEF CustomDevice
    <3>q. QED BY <1>2, <3>3, <3>4, CustomDevices
  <2>q. QED BY <2>3, <2>4, Numbered
<1>q. QED BY <1>1, <1>2

\* What holds of the splits between two hosts, whatever the tree.
LEMMA Routes ==
  ASSUME tree \in Trees, Linked,
         NEW c \in Devices, c.type = "host", NEW s \in Devices, s.type = "host"
  PROVE  /\ Routed(c, s)
         /\ FlowSplits(c, s) = {} <=> ~ThreeLevels /\ s.local >= Half
         /\ FlowSplits(c, s) # {} /\ FlowSplits(s, c) # {} =>
              Vias(ShortestWalks(c, s)) = Backs(ShortestWalks(s, c))
PROOF
<1>1. CASE ThreeLevels
  BY <1>1, FatRoutes DEF Fat
<1>2. CASE ~ThreeLevels
  <2>1. Custom
    BY <1>2 DEF Custom
  <2>2. s.local \in Nat /\ Half \in Nat
    <3>1. CustomDevice(s)
      BY <1>2, CustomDevices
    <3>2. HostsEach \in Nat /\ Half \in Nat
      BY <2>1, CustomCounts
    <3>q. QED BY <3>1, <3>2 DEF CustomDevice
  <2>3. s.local >= Half <=> ~(s.local < Half)
    BY <2>2
  <2>q. QED BY <1>2, <2>1, <2>3, CustomRoutes
<1>q. QED BY <1>1, <1>2

-------------------------------------------------------------------------------

\* The inductive invariant: what route() counts with, and where the splits of
\* the last flow come from.
FlowInv ==
  flow # NoFlow =>
    /\ Linked
    /\ flow.clientId \in 0..NumHosts - 1 /\ flow.serverId \in 0..NumHosts - 1
    /\ flow.splits = FlowSplits(HostOf(flow.clientId), HostOf(flow.serverId))

RouteInv ==
  /\ tree \in Trees
  /\ Linked => client \in 0..NumHosts /\ server \in 0..NumHosts - 1
  /\ count_flow \in Nat /\ count_flow_split \in Nat
  /\ FlowInv

\* The invariant says of the last flow what Routes says of its hosts.
LEMMA FlowRoutes ==
  ASSUME RouteInv, flow # NoFlow
  PROVE  LET c == HostOf(flow.clientId)
             s == HostOf(flow.serverId)
         IN  /\ flow.splits = FlowSplits(c, s)
             /\ Routed(c, s) /\ Routed(s, c)
             /\ FlowSplits(c, s) = {} <=> ~ThreeLevels /\ s.local >= Half
             /\ FlowSplits(c, s) # {} /\ FlowSplits(s, c) # {} =>
                  Vias(ShortestWalks(c, s)) = Backs(ShortestWalks(s, c))
PROOF
<1> DEFINE c == HostOf(flow.clientId)
           s == HostOf(flow.serverId)
<1>1. /\ tree \in Trees /\ Linked /\ flow.splits = FlowSplits(c, s)
      /\ flow.clientId \in 0..NumHosts - 1 /\ flow.serverId \in 0..NumHosts - 1
  BY DEF RouteInv, FlowInv
<1>2. c \in Devices /\ c.type = "host" /\ s \in Devices /\ s.type = "host"
  BY <1>1, HostsOf
<1> HIDE DEF c, s
<1>3. /\ Routed(c, s) /\ Routed(s, c)
      /\ FlowSplits(c, s) = {} <=> ~ThreeLevels /\ s.local >= Half
      /\ FlowSplits(c, s) # {} /\ FlowSplits(s, c) # {} =>
           Vias(ShortestWalks(c, s)) = Backs(ShortestWalks(s, c))
  BY <1>1, <1>2, Routes
<1>q. QED BY <1>1, <1>3 DEF c, s

LEMMA InvTypes ==
  ASSUME RouteInv
  PROVE  TypeOK
PROOF
<1>1. CASE flow = NoFlow
  <2>1. flow.splits = {}
    BY <1>1 DEF NoFlow
  <2>q. QED BY <2>1 DEF RouteInv, TypeOK
<1>2. CASE flow # NoFlow
  <2>1. \A split \in flow.splits : SplitOf(split)
    BY <1>2, FlowRoutes DEF Routed, MadeOf
  <2>q. QED BY <2>1 DEF RouteInv, TypeOK, SplitOf
<1>q. QED BY <1>1, <1>2

LEMMA InvShortest ==
  ASSUME RouteInv
  PROVE  SplitsAreShortestWalks
PROOF
<1> SUFFICES ASSUME flow # NoFlow
             PROVE  /\ {Path(split) : split \in flow.splits}
                         = ShortestWalks(HostOf(flow.clientId), HostOf(flow.serverId))
                    /\ \A split \in flow.splits : \A k \in 0..5 :
                         split[k] # NotUsed => QueueType(split[k]) = StageType[k]
                    /\ flow.splits = {} <=>
                         ~ThreeLevels /\ HostOf(flow.serverId).local >= tree.K \div 2
  BY DEF SplitsAreShortestWalks
<1>q. QED BY FlowRoutes DEF Routed, MadeOf, Staged, Half

LEMMA InvReverse ==
  ASSUME RouteInv
  PROVE  ReverseFlow
PROOF
<1> DEFINE c == HostOf(flow.clientId)
           s == HostOf(flow.serverId)
           Via(split) == [i \in 1..Len(Path(split)) |-> Path(split)[i][1]]
           Back(split) == [i \in 1..Len(Path(split)) - 1 |->
                             Path(split)[Len(Path(split)) + 1 - i][1]]
<1> SUFFICES ASSUME flow # NoFlow, flow.splits # {}, FlowSplits(s, c) # {}
             PROVE  {Tail(Via(split)) : split \in flow.splits}
                      = {Back(split) : split \in FlowSplits(s, c)}
  BY DEF ReverseFlow
<1>1. /\ {Path(split) : split \in flow.splits} = ShortestWalks(c, s)
      /\ {Path(split) : split \in FlowSplits(s, c)} = ShortestWalks(s, c)
      /\ Vias(ShortestWalks(c, s)) = Backs(ShortestWalks(s, c))
  BY FlowRoutes DEF Routed, MadeOf
<1>2. {Tail(Via(split)) : split \in flow.splits} = Vias(ShortestWalks(c, s))
  <2> DEFINE Tail_(w) == Tail([i \in 1..Len(w) |-> w[i][1]])
  <2>1. Vias(ShortestWalks(c, s)) = {Tail_(w) : w \in ShortestWalks(c, s)}
    BY DEF Vias
  <2>2. \A split : Tail(Via(split)) = Tail_(Path(split))
    OBVIOUS
  <2> HIDE DEF Tail_, Via
  <2>3. {Tail_(w) : w \in ShortestWalks(c, s)} = {Tail_(Path(split)) : split \in flow.splits}
    BY <1>1
  <2>q. QED BY <2>1, <2>2, <2>3
<1>3. {Back(split) : split \in FlowSplits(s, c)} = Backs(ShortestWalks(s, c))
  <2> DEFINE Back_(w) == [i \in 1..Len(w) - 1 |-> w[Len(w) + 1 - i][1]]
  <2>1. Backs(ShortestWalks(s, c)) = {Back_(w) : w \in ShortestWalks(s, c)}
    BY DEF Backs
  <2>2. \A split : Back(split) = Back_(Path(split))
    OBVIOUS
  <2> HIDE DEF Back_, Back
  <2>3. {Back_(w) : w \in ShortestWalks(s, c)} = {Back_(Path(split)) : split \in FlowSplits(s, c)}
    BY <1>1
  <2>q. QED BY <2>1, <2>2, <2>3
<1>q. QED BY <1>1, <1>2, <1>3

-------------------------------------------------------------------------------

(* The invariant holds initially and every round of route() preserves it.  *)

LEMMA InitInv == Init => RouteInv
PROOF
<1> SUFFICES ASSUME Init PROVE RouteInv
  OBVIOUS
<1>1. tree \in Trees /\ client = 0 /\ server = 0 /\ flow = NoFlow
      /\ count_flow = 0 /\ count_flow_split = 0
  BY DEF Init
<1>2. Linked => NumHosts \in Nat \ {0}
  BY <1>1, HostsOf
<1>q. QED BY <1>1, <1>2 DEF RouteInv, FlowInv

\* What only the tree determines does not change.
LEMMA TreeStays ==
  ASSUME tree' = tree
  PROVE  /\ ThreeLevels' = ThreeLevels /\ Linked' = Linked /\ NumHosts' = NumHosts
         /\ \A id : HostOf(id)' = HostOf(id)
         /\ \A c, s : FlowSplits(c, s)' = FlowSplits(c, s)
BY DEF ThreeLevels, Linked, NumHosts, HostOf, FlowSplits

LEMMA StepInv == RouteInv /\ [Next]_vars => RouteInv'
PROOF
<1> SUFFICES ASSUME RouteInv, [Next]_vars PROVE RouteInv'
  OBVIOUS
<1>1. CASE UNCHANGED vars
  BY <1>1, TreeStays DEF vars, RouteInv, FlowInv, NoFlow
<1>2. CASE Route
  <2>1. tree' = tree /\ Linked /\ client < NumHosts
    BY <1>2 DEF Route
  <2>2. /\ tree \in Trees /\ client \in 0..NumHosts /\ server \in 0..NumHosts - 1
        /\ count_flow \in Nat /\ count_flow_split \in Nat /\ FlowInv
    BY <2>1 DEF RouteInv
  <2>3. NumHosts \in Nat \ {0} /\ client \in 0..NumHosts - 1
    BY <2>1, <2>2, HostsOf
  <2>4. client' \in 0..NumHosts /\ server' \in 0..NumHosts - 1
    BY <1>2, <2>2, <2>3 DEF Route
  <2>5. CASE client = server
    BY <1>2, <2>1, <2>2, <2>4, <2>5, TreeStays DEF Route, RouteInv, FlowInv, NoFlow
  <2>6. CASE client # server
    <3> DEFINE splits == FlowSplits(HostOf(client), HostOf(server))
    <3>1. /\ flow' = [flowId |-> count_flow, clientId |-> client, serverId |-> server,
                      splits |-> splits]
          /\ count_flow' = count_flow + 1
          /\ count_flow_split' = count_flow_split + Cardinality(splits)
      BY <1>2, <2>6 DEF Route
    <3>2. Cardinality(splits) \in Nat
      <4>1. /\ HostOf(client) \in Devices /\ HostOf(client).type = "host"
            /\ HostOf(server) \in Devices /\ HostOf(server).type = "host"
        BY <2>1, <2>2, <2>3, HostsOf
      <4>2. Routed(HostOf(client), HostOf(server))
        BY <2>1, <2>2, <4>1, Routes
      <4>3. IsFiniteSet(splits)
        BY <4>2 DEF Routed, MadeOf
      <4>q. QED BY <4>3, FS_CardinalityType
    <3> HIDE DEF splits
    <3>3. flow'.clientId = client /\ flow'.serverId = server /\ flow'.splits = splits
      BY <3>1
    <3>4. FlowInv'
      BY <2>1, <2>2, <2>3, <3>3, TreeStays DEF FlowInv, splits
    <3>q. QED BY <2>1, <2>2, <2>4, <3>1, <3>2, <3>4, TreeStays DEF RouteInv
  <2>q. QED BY <2>5, <2>6
<1>q. QED BY <1>1, <1>2 DEF Next

LEMMA AlwaysInv == Spec => []RouteInv
BY InitInv, StepInv, PTL DEF Spec

(***************************************************************************)
(* The loops of route() stay on hosts of the tree, and each stage of a     *)
(* split holds a queue of the tree or is marked as not used, whichever     *)
(* branch of FattreeL3::route or FattreeL2custom::route pushed it.         *)
(***************************************************************************)
THEOREM TypeCorrect == Spec => []TypeOK
BY AlwaysInv, InvTypes, PTL

(***************************************************************************)
(* The splits that route() pushes for a pair of hosts are all the shortest *)
(* walks from one to the other over the links that link() made, and no     *)
(* others; each queue is at the stage of its type; and a flow has no split *)
(* only where integer division left the server without a port.             *)
(***************************************************************************)
THEOREM SplitsAreShortest == Spec => []SplitsAreShortestWalks
BY AlwaysInv, InvShortest, PTL

(***************************************************************************)
(* The flow between two hosts and the one back visit the same devices, in  *)
(* reverse order: the formulas of link() for the ports up and those for    *)
(* the ports down describe the two directions of the same links.           *)
(***************************************************************************)
THEOREM ReversesFlow == Spec => []ReverseFlow
BY AlwaysInv, InvReverse, PTL

-------------------------------------------------------------------------------
(* How many splits a flow has.                                             *)

\* The members of a set that a function numbers without repetition.
LEMMA Numbering ==
  ASSUME NEW S, IsFiniteSet(S), NEW T, NEW f, DOMAIN f = S, f = [x \in S |-> f[x]],
         \A x \in S : f[x] \in T,
         \A y \in T : \E x \in S : f[x] = y,
         \A x \in S : \A y \in S : f[x] = f[y] => x = y
  PROVE  Cardinality(T) = Cardinality(S)
PROOF
<1>1. f \in [S -> T]
  OBVIOUS
<1>2. f \in Surjection(S, T)
  BY <1>1 DEF Surjection
<1>3. f \in Injection(S, T)
  BY <1>1 DEF Injection, IsInjective
<1>q. QED BY <1>2, <1>3, FS_Surjection

\* Intervals and pairs.
LEMMA Count ==
  ASSUME NEW n \in Nat, NEW m \in Nat
  PROVE  /\ IsFiniteSet(0..n - 1) /\ Cardinality(0..n - 1) = n
         /\ IsFiniteSet((0..n - 1) \X (0..m - 1))
         /\ Cardinality((0..n - 1) \X (0..m - 1)) = n * m
PROOF
<1>1. /\ IsFiniteSet(0..n - 1) /\ Cardinality(0..n - 1) = n
      /\ IsFiniteSet(0..m - 1) /\ Cardinality(0..m - 1) = m
  BY FS_Interval
<1> DEFINE N == 0..n - 1
           M == 0..m - 1
<1> HIDE DEF N, M
<1>2. IsFiniteSet(N \X M) /\ Cardinality(N \X M) = Cardinality(N) * Cardinality(M)
  BY <1>1, FS_Product DEF N, M
<1>q. QED BY <1>1, <1>2 DEF N, M

\* What the searches of FattreeL3::route find.
LEMMA FatSearches ==
  ASSUME Fat, NEW d \in Devices
  PROVE  /\ d.type = "edge" =>
              /\ {q \in Ports(d) : NextDevice(q).type = "aggr"} = {<<d, n>> : n \in 0..Half - 1}
              /\ \A n \in 0..Half - 1 : NextDevice(<<d, n>>) = Device("aggr", d.pod, n)
         /\ d.type = "aggr" =>
              /\ {q \in Ports(d) : NextDevice(q).type = "core"} = {<<d, n>> : n \in 0..Half - 1}
              /\ \A n \in 0..Half - 1 : NextDevice(<<d, n>>) = Device("core", d.local, n)
         /\ d.type = "aggr" =>
              \A e \in Devices : e.type = "edge" /\ e.pod = d.pod =>
                {q \in Ports(d) : NextDevice(q) = e} = {<<d, e.local + Half>>}
         /\ d.type = "core" =>
              \A pod \in 0..tree.K - 1 :
                /\ {q \in Ports(d) : NextDevice(q).pod = pod} = {<<d, pod>>}
                /\ NextDevice(<<d, pod>>) = Device("aggr", pod, d.pod)
         /\ d.type = "host" =>
              {q \in Ports(EdgeOf(d)) : NextDevice(q) = d}
                = {<<EdgeOf(d), (d.local % Half) + Half>>}
PROOF
<1>1. tree.K \in Nat \ {0} /\ Half \in Nat \ {0} /\ tree.K = 2 * Half
  BY Sizes DEF Fat
<1>2. /\ \A n \in 0..Half - 1 : n \in 0..tree.K - 1 /\ n + Half \in 0..tree.K - 1
      /\ \A n \in 0..Half - 1 : n - Half \notin 0..Half - 1 /\ (n + Half) - Half = n
  BY <1>1
<1>3. ASSUME NEW b \in Devices, b.type # "host", NEW n \in 0..tree.K - 1
      PROVE  <<b, n>> \in Ports(b) /\ <<b, n>>[2] = n
  BY <1>3, FatPorts
<1>4. CASE d.type = "edge"
  <2>1. ASSUME NEW q \in Ports(d), NextDevice(q).type = "aggr"
        PROVE  q \in {<<d, n>> : n \in 0..Half - 1}
    BY <1>4, <2>1, FatHop
  <2>2. ASSUME NEW n \in 0..Half - 1
        PROVE  /\ <<d, n>> \in Ports(d) /\ NextDevice(<<d, n>>).type = "aggr"
               /\ NextDevice(<<d, n>>) = Device("aggr", d.pod, n)
    <3>1. <<d, n>> \in Ports(d) /\ <<d, n>>[2] \in 0..Half - 1 /\ <<d, n>>[2] = n
      BY <1>2, <1>3, <1>4
    <3>q. QED BY <1>4, <3>1, FatHop
  <2>q. QED BY <1>4, <2>1, <2>2
<1>5. CASE d.type = "aggr"
  <2>1. ASSUME NEW q \in Ports(d), NextDevice(q).type = "core"
        PROVE  q \in {<<d, n>> : n \in 0..Half - 1}
    BY <1>5, <2>1, FatHop
  <2>2. ASSUME NEW n \in 0..Half - 1
        PROVE  /\ <<d, n>> \in Ports(d) /\ NextDevice(<<d, n>>).type = "core"
               /\ NextDevice(<<d, n>>) = Device("core", d.local, n)
    <3>1. <<d, n>> \in Ports(d) /\ <<d, n>>[2] \in 0..Half - 1 /\ <<d, n>>[2] = n
      BY <1>2, <1>3, <1>5
    <3>q. QED BY <1>5, <3>1, FatHop
  <2>3. ASSUME NEW e \in Devices, e.type = "edge", e.pod = d.pod
        PROVE  {q \in Ports(d) : NextDevice(q) = e} = {<<d, e.local + Half>>}
    <3>1. e = Device("edge", d.pod, e.local) /\ e.local \in 0..Half - 1
      BY <2>3, FatDevices DEF FatDevice
    <3>2. ASSUME NEW q \in Ports(d), NextDevice(q) = e
          PROVE  q = <<d, e.local + Half>>
      <4>1. q = <<d, q[2]>> /\ q[2] - Half \in 0..Half - 1 /\ e.local = q[2] - Half
        BY <1>5, <2>3, <3>2, FatHop
      <4>2. q[2] \in 0..tree.K - 1
        BY <1>5, FatPorts
      <4>3. q[2] = e.local + Half
        BY <1>1, <4>1, <4>2
      <4>q. QED BY <4>1, <4>3
    <3>3. <<d, e.local + Half>> \in Ports(d) /\ NextDevice(<<d, e.local + Half>>) = e
      <4>1. /\ <<d, e.local + Half>> \in Ports(d)
            /\ <<d, e.local + Half>>[2] - Half \in 0..Half - 1
            /\ <<d, e.local + Half>>[2] - Half = e.local
        BY <1>2, <1>3, <1>5, <3>1
      <4>2. NextDevice(<<d, e.local + Half>>) = Device("edge", d.pod, e.local)
        BY <1>5, <4>1, FatHop
      <4>q. QED BY <3>1, <4>1, <4>2
    <3>q. QED BY <3>2, <3>3
  <2>q. QED BY <1>5, <2>1, <2>2, <2>3
<1>6. CASE d.type = "core"
  <2>1. ASSUME NEW pod \in 0..tree.K - 1
        PROVE  /\ {q \in Ports(d) : NextDevice(q).pod = pod} = {<<d, pod>>}
               /\ NextDevice(<<d, pod>>) = Device("aggr", pod, d.pod)
    <3>1. ASSUME NEW q \in Ports(d), NextDevice(q).pod = pod
          PROVE  q = <<d, pod>>
      BY <1>6, <3>1, FatHop
    <3>2. <<d, pod>> \in Ports(d) /\ <<d, pod>>[2] = pod
      BY <1>3, <1>6
    <3>3. NextDevice(<<d, pod>>) = Device("aggr", pod, d.pod) /\ NextDevice(<<d, pod>>).pod = pod
      BY <1>6, <3>2, FatHop
    <3>q. QED BY <3>1, <3>2, <3>3
  <2>q. QED BY <1>6, <2>1
<1>7. CASE d.type = "host"
  <2>1. /\ EdgeOf(d) \in Devices /\ EdgeOf(d).type = "edge"
        /\ EdgeOf(d).local = d.local \div Half
        /\ <<EdgeOf(d), (d.local % Half) + Half>> \in Ports(EdgeOf(d))
        /\ NextDevice(<<EdgeOf(d), (d.local % Half) + Half>>) = d
    BY <1>7, FatHosts
  <2>2. d.local \in Nat
    BY <1>1, <1>7, FatDevices DEF FatDevice
  <2>3. ASSUME NEW q \in Ports(EdgeOf(d)), NextDevice(q) = d
        PROVE  q = <<EdgeOf(d), (d.local % Half) + Half>>
    <3>1. /\ q = <<EdgeOf(d), q[2]>> /\ q[2] - Half \in 0..Half - 1
          /\ d.local = (q[2] - Half) + EdgeOf(d).local * Half
      BY <1>7, <2>1, <2>3, FatHop
    <3>2. q[2] \in 0..tree.K - 1
      BY <2>1, FatPorts
    <3>3. EdgeOf(d).local \in Nat
      BY <2>1, FatDevices DEF FatDevice
    <3>4. d.local % Half = q[2] - Half
      <4>1. ASSUME NEW m \in Nat \ {0}, NEW e \in Nat, NEW n \in 0..m - 1, d.local = n + e * m
            PROVE  d.local % m = n
        BY <4>1, Quotient
      <4>2. q[2] - Half \in 0..Half - 1
        BY <3>1
      <4>q. QED BY <1>1, <3>1, <3>3, <4>1, <4>2
    <3>5. q[2] = (d.local % Half) + Half
      BY <1>1, <3>2, <3>4
    <3>q. QED BY <3>1, <3>5
  <2>q. QED BY <1>7, <2>1, <2>3
<1>8. d.type \in {"edge", "aggr", "core", "host"}
  BY FatDevices DEF FatDevice
<1>q. QED BY <1>4, <1>5, <1>6, <1>7, <1>8

\* Its splits, numbered by the ports up to an aggregation and a core switch.
LEMMA FatCounts ==
  ASSUME Fat, NEW c \in Devices, c.type = "host", NEW s \in Devices, s.type = "host"
  PROVE  Cardinality(FlowSplits(c, s)) = SplitCount(c, s)
PROOF
<1> DEFINE ec == EdgeOf(c)
           es == EdgeOf(s)
           up == HostPort(c)
           down == <<es, (s.local % Half) + Half>>
           Aggr(pod, n) == Device("aggr", pod, n)
           Core(n, k) == Device("core", n, k)
           last(n) == <<Aggr(s.pod, n), es.local + Half>>
<1>1. tree.K \in Nat \ {0} /\ Half \in Nat \ {0} /\ tree.K = 2 * Half
  BY Sizes DEF Fat
<1>2. /\ ec \in Devices /\ ec.type = "edge" /\ ec.pod = c.pod
      /\ es \in Devices /\ es.type = "edge" /\ es.pod = s.pod
  BY FatHosts
<1>3. c.pod \in 0..tree.K - 1 /\ s.pod \in 0..tree.K - 1
  BY FatDevices DEF FatDevice
<1>4. /\ {q \in Ports(ec) : NextDevice(q).type = "aggr"} = {<<ec, n>> : n \in 0..Half - 1}
      /\ \A n \in 0..Half - 1 : NextDevice(<<ec, n>>) = Aggr(c.pod, n)
  BY <1>2, FatSearches
<1>5. {q \in Ports(es) : NextDevice(q) = s} = {down}
  BY FatSearches
<1>6. ASSUME NEW pod \in 0..tree.K - 1, NEW n \in 0..Half - 1
      PROVE  /\ Aggr(pod, n) \in Devices /\ Aggr(pod, n).type = "aggr"
             /\ Aggr(pod, n).pod = pod /\ Aggr(pod, n).local = n
  <2>1. FatDevice(Aggr(pod, n))
    BY DeviceFields DEF FatDevice
  <2>q. QED BY <2>1, FatDevices, DeviceFields
<1>7. ASSUME NEW n \in 0..Half - 1
      PROVE  {q \in Ports(Aggr(s.pod, n)) : NextDevice(q) = es} = {last(n)}
  BY <1>2, <1>3, <1>6, FatSearches
<1>8. CASE ec = es
  <2>1. \A f : f \in FlowSplits(c, s) <=>
          \E p \in {q \in Ports(es) : NextDevice(q) = s} :
            f = [NoneUsed EXCEPT ![0] = HostPort(c), ![5] = p]
    BY <1>8, FatCode DEF L3!FlowSplits, L3!TwoHops, L3!To
  <2>2. FlowSplits(c, s) = {[NoneUsed EXCEPT ![0] = HostPort(c), ![5] = down]}
    BY <1>5, <2>1
  <2>q. QED BY <1>8, <2>2, FS_Singleton DEF SplitCount, Fat
<1>9. CASE ec # es /\ c.pod = s.pod
  <2> DEFINE f == [n \in 0..Half - 1 |->
                     AtStages(up, <<ec, n>>, NotUsed, NotUsed, last(n), down)]
  <2>1. \A g : g \in FlowSplits(c, s) <=>
          \E p \in {q \in Ports(ec) : NextDevice(q).type = "aggr"} :
            \E q \in {r \in Ports(NextDevice(p)) : NextDevice(r) = es} :
              \E r \in {t \in Ports(es) : NextDevice(t) = s} :
                g = AtStages(up, p, NotUsed, NotUsed, q, r)
    BY <1>9, FatFoundFour
  <2>2. \A n \in 0..Half - 1 :
          {r \in Ports(NextDevice(<<ec, n>>)) : NextDevice(r) = es} = {last(n)}
    BY <1>4, <1>7, <1>9
  <2> HIDE DEF ec, es, up, down, last
  <2>3. \A g : g \in FlowSplits(c, s) <=>
          \E n \in 0..Half - 1 : g = AtStages(up, <<ec, n>>, NotUsed, NotUsed, last(n), down)
    <3>1. ASSUME NEW g, NEW n \in 0..Half - 1
          PROVE  (\E q \in {r \in Ports(NextDevice(<<ec, n>>)) : NextDevice(r) = es} :
                    \E r \in {t \in Ports(es) : NextDevice(t) = s} :
                      g = AtStages(up, <<ec, n>>, NotUsed, NotUsed, q, r))
                 <=> g = AtStages(up, <<ec, n>>, NotUsed, NotUsed, last(n), down)
      BY <1>5, <2>2
    <3>2. \A g : g \in FlowSplits(c, s) <=>
            \E p \in {<<ec, n>> : n \in 0..Half - 1} :
              \E q \in {r \in Ports(NextDevice(p)) : NextDevice(r) = es} :
                \E r \in {t \in Ports(es) : NextDevice(t) = s} :
                  g = AtStages(up, p, NotUsed, NotUsed, q, r)
      BY <1>4, <2>1
    <3> DEFINE Rest(g, p) == \E q \in {r \in Ports(NextDevice(p)) : NextDevice(r) = es} :
                               \E r \in {t \in Ports(es) : NextDevice(t) = s} :
                                 g = AtStages(up, p, NotUsed, NotUsed, q, r)
    <3>3. \A g : g \in FlowSplits(c, s) <=> \E p \in {<<ec, n>> : n \in 0..Half - 1} : Rest(g, p)
      BY <3>2
    <3>4. ASSUME NEW g, NEW n \in 0..Half - 1
          PROVE  Rest(g, <<ec, n>>)
                   <=> g = AtStages(up, <<ec, n>>, NotUsed, NotUsed, last(n), down)
      BY <3>1
    <3> HIDE DEF Rest
    <3>5. \A g : g \in FlowSplits(c, s) <=> \E n \in 0..Half - 1 : Rest(g, <<ec, n>>)
      BY <3>3
    <3>q. QED BY <3>4, <3>5
  <2>4. ASSUME NEW n \in 0..Half - 1, NEW k \in 0..Half - 1, f[n] = f[k]
        PROVE  n = k
    <3>1. f[n][1] = <<ec, n>> /\ f[k][1] = <<ec, k>>
      BY StagesOf
    <3>q. QED BY <2>4, <3>1
  <2>5. \A n \in 0..Half - 1 : f[n] = AtStages(up, <<ec, n>>, NotUsed, NotUsed, last(n), down)
    OBVIOUS
  <2>6. f = [n \in 0..Half - 1 |-> f[n]] /\ DOMAIN f = 0..Half - 1
    OBVIOUS
  <2> HIDE DEF f
  <2>7. Cardinality(FlowSplits(c, s)) = Cardinality(0..Half - 1)
    <3>1. \A n \in 0..Half - 1 : f[n] \in FlowSplits(c, s)
      BY <2>3, <2>5
    <3>2. \A g \in FlowSplits(c, s) : \E n \in 0..Half - 1 : f[n] = g
      BY <2>3, <2>5
    <3>3. IsFiniteSet(0..Half - 1)
      BY <1>1, Count
    <3>4. /\ f = [x \in 0..Half - 1 |-> f[x]]
          /\ \A n \in 0..Half - 1 : \A k \in 0..Half - 1 : f[n] = f[k] => n = k
      BY <2>4, <2>6
    <3> DEFINE N == 0..Half - 1
    <3>5. DOMAIN f = N
      BY <2>6
    <3> HIDE DEF N
    <3>q. QED BY <3>1, <3>2, <3>3, <3>4, <3>5, Numbering DEF N
  <2>8. SplitCount(c, s) = Half
    BY <1>9 DEF SplitCount, Fat, ec, es
  <2>q. QED BY <1>1, <2>7, <2>8, Count
<1>10. CASE c.pod # s.pod
  <2> DEFINE pairs == (0..Half - 1) \X (0..Half - 1)
             Split(n, k) == AtStages(up, <<ec, n>>, <<Aggr(c.pod, n), k>>,
                                     <<Core(n, k), s.pod>>, last(n), down)
             f == [x \in pairs |-> Split(x[1], x[2])]
  <2>1. \A g : g \in FlowSplits(c, s) <=>
          \E p \in {q \in Ports(ec) : NextDevice(q).type = "aggr"} :
            \E q \in {r \in Ports(NextDevice(p)) : NextDevice(r).type = "core"} :
              \E r \in {t \in Ports(NextDevice(q)) : NextDevice(t).pod = s.pod} :
                \E t \in {u \in Ports(NextDevice(r)) : NextDevice(u) = es} :
                  \E u \in {v \in Ports(es) : NextDevice(v) = s} :
                    g = AtStages(up, p, q, r, t, u)
    BY <1>10, FatFoundSix
  <2>2. ASSUME NEW n \in 0..Half - 1
        PROVE  /\ {q \in Ports(NextDevice(<<ec, n>>)) : NextDevice(q).type = "core"}
                     = {<<Aggr(c.pod, n), k>> : k \in 0..Half - 1}
               /\ \A k \in 0..Half - 1 : NextDevice(<<Aggr(c.pod, n), k>>) = Core(n, k)
    BY <1>3, <1>4, <1>6, FatSearches
  <2>3. ASSUME NEW n \in 0..Half - 1, NEW k \in 0..Half - 1
        PROVE  /\ {q \in Ports(Core(n, k)) : NextDevice(q).pod = s.pod}
                     = {<<Core(n, k), s.pod>>}
               /\ NextDevice(<<Core(n, k), s.pod>>) = Aggr(s.pod, n)
    <3>1. FatDevice(Core(n, k))
      BY DeviceFields DEF FatDevice
    <3>2. Core(n, k) \in Devices /\ Core(n, k).type = "core" /\ Core(n, k).pod = n
      BY <3>1, FatDevices, DeviceFields
    <3>q. QED BY <1>3, <3>2, FatSearches
  <2> HIDE DEF ec, es, up, down, last, Aggr, Core
  <2>4. ASSUME NEW g, NEW n \in 0..Half - 1, NEW k \in 0..Half - 1
        PROVE  (\E r \in {t \in Ports(NextDevice(<<Aggr(c.pod, n), k>>)) :
                            NextDevice(t).pod = s.pod} :
                  \E t \in {u \in Ports(NextDevice(r)) : NextDevice(u) = es} :
                    \E u \in {v \in Ports(es) : NextDevice(v) = s} :
                      g = AtStages(up, <<ec, n>>, <<Aggr(c.pod, n), k>>, r, t, u))
               <=> g = Split(n, k)
    BY <1>5, <1>7, <2>2, <2>3
  <2> HIDE DEF Split
  <2>5. \A g : g \in FlowSplits(c, s) <=>
          \E n \in 0..Half - 1 : \E k \in 0..Half - 1 : g = Split(n, k)
    <3> DEFINE Rest(g, p, q) ==
                 \E r \in {t \in Ports(NextDevice(q)) : NextDevice(t).pod = s.pod} :
                   \E t \in {u \in Ports(NextDevice(r)) : NextDevice(u) = es} :
                     \E u \in {v \in Ports(es) : NextDevice(v) = s} :
                       g = AtStages(up, p, q, r, t, u)
    <3>1. \A g : g \in FlowSplits(c, s) <=>
            \E p \in {<<ec, n>> : n \in 0..Half - 1} :
              \E q \in {r \in Ports(NextDevice(p)) : NextDevice(r).type = "core"} : Rest(g, p, q)
      BY <1>4, <2>1
    <3>2. \A g : \A n \in 0..Half - 1 : \A k \in 0..Half - 1 :
            Rest(g, <<ec, n>>, <<Aggr(c.pod, n), k>>) <=> g = Split(n, k)
      BY <2>4
    <3> HIDE DEF Rest
    <3>3. \A g : g \in FlowSplits(c, s) <=>
            \E n \in 0..Half - 1 :
              \E q \in {<<Aggr(c.pod, n), k>> : k \in 0..Half - 1} : Rest(g, <<ec, n>>, q)
      BY <2>2, <3>1
    <3>4. \A g : \A n \in 0..Half - 1 :
            (\E q \in {<<Aggr(c.pod, n), k>> : k \in 0..Half - 1} : Rest(g, <<ec, n>>, q))
              <=> \E k \in 0..Half - 1 : Rest(g, <<ec, n>>, <<Aggr(c.pod, n), k>>)
      OBVIOUS
    <3>5. ASSUME NEW g
          PROVE  g \in FlowSplits(c, s) <=>
                   \E n \in 0..Half - 1 : \E k \in 0..Half - 1 :
                     Rest(g, <<ec, n>>, <<Aggr(c.pod, n), k>>)
      BY <3>3, <3>4
    <3>6. ASSUME NEW g
          PROVE  (\E n \in 0..Half - 1 : \E k \in 0..Half - 1 :
                    Rest(g, <<ec, n>>, <<Aggr(c.pod, n), k>>))
                   <=> \E n \in 0..Half - 1 : \E k \in 0..Half - 1 : g = Split(n, k)
      BY <3>2
    <3>q. QED BY <3>5, <3>6
  <2>6. \A x \in pairs : x = <<x[1], x[2]>> /\ x[1] \in 0..Half - 1 /\ x[2] \in 0..Half - 1
    OBVIOUS
  <2>7. ASSUME NEW x \in pairs, NEW y \in pairs, f[x] = f[y]
        PROVE  x = y
    <3>1. /\ Split(x[1], x[2])[1] = <<ec, x[1]>> /\ Split(y[1], y[2])[1] = <<ec, y[1]>>
          /\ Split(x[1], x[2])[2] = <<Aggr(c.pod, x[1]), x[2]>>
          /\ Split(y[1], y[2])[2] = <<Aggr(c.pod, y[1]), y[2]>>
      BY StagesOf DEF Split
    <3>2. x[1] = y[1] /\ x[2] = y[2]
      BY <2>7, <3>1
    <3>q. QED BY <2>6, <3>2
  <2>8. /\ f = [x \in pairs |-> f[x]] /\ DOMAIN f = pairs
        /\ \A n \in 0..Half - 1 : \A k \in 0..Half - 1 :
             <<n, k>> \in pairs /\ f[<<n, k>>] = Split(n, k)
        /\ \A x \in pairs : f[x] = Split(x[1], x[2])
    OBVIOUS
  <2> HIDE DEF f
  <2>9. Cardinality(FlowSplits(c, s)) = Cardinality(pairs)
    <3>1. \A x \in pairs : f[x] \in FlowSplits(c, s)
      BY <2>5, <2>6, <2>8
    <3>2. ASSUME NEW g \in FlowSplits(c, s) PROVE \E x \in pairs : f[x] = g
      <4>1. PICK n \in 0..Half - 1, k \in 0..Half - 1 : g = Split(n, k)
        BY <2>5
      <4>2. <<n, k>> \in pairs /\ f[<<n, k>>] = g
        BY <2>8, <4>1
      <4>q. QED BY <4>2
    <3>3. IsFiniteSet(pairs)
      BY <1>1, Count
    <3> HIDE DEF pairs
    <3>q. QED BY <2>7, <2>8, <3>1, <3>2, <3>3, Numbering
  <2>10. SplitCount(c, s) = Half * Half
    <3>1. ec # es
      BY <1>2, <1>10
    <3>q. QED BY <1>10, <3>1 DEF SplitCount, Fat, ec, es
  <2>q. QED BY <1>1, <2>9, <2>10, Count
<1>q. QED BY <1>8, <1>9, <1>10

\* What the searches of FattreeL2custom::route find.
LEMMA CustomSearches ==
  ASSUME Custom, NEW d \in Devices
  PROVE  /\ d.type = "edge" =>
              /\ {q \in Ports(d) : NextDevice(q).type = "core"} = {<<d, n>> : n \in 0..Half - 1}
              /\ \A n \in 0..Half - 1 :
                   NextDevice(<<d, n>>) \in Devices /\ NextDevice(<<d, n>>).type = "core"
         /\ d.type = "core" =>
              \A e \in Devices : e.type = "edge" =>
                {q \in Ports(d) : NextDevice(q) = e}
                  = {<<d, n + e.pod * LinksEach>> : n \in 0..LinksEach - 1}
         /\ d.type = "host" /\ d.local < Half =>
              {q \in Ports(EdgeOf(d)) : NextDevice(q) = d} = {<<EdgeOf(d), d.local + Half>>}
PROOF
<1>1. /\ tree.K \in Nat \ {0} /\ Half \in Nat \ {0} /\ tree.K = 2 * Half
      /\ EdgeCount \in Nat \ {0} /\ LinksEach \in Nat \ {0}
      /\ tree.K = EdgeCount * LinksEach
  BY CustomCounts, CustomSizes
<1>2. /\ \A n \in 0..Half - 1 : n \in 0..tree.K - 1
      /\ \A n \in 0..Half - 1 : n - Half \notin 0..Half - 1
  BY <1>1
<1>3. ASSUME NEW b \in Devices, b.type # "host", NEW n \in 0..tree.K - 1
      PROVE  <<b, n>> \in Ports(b) /\ <<b, n>>[2] = n
  BY <1>3, CustomPorts
<1>4. CASE d.type = "edge"
  <2>1. ASSUME NEW q \in Ports(d), NextDevice(q).type = "core"
        PROVE  q \in {<<d, n>> : n \in 0..Half - 1}
    BY <1>4, <2>1, CustomHop
  <2>2. ASSUME NEW n \in 0..Half - 1
        PROVE  /\ <<d, n>> \in Ports(d) /\ NextDevice(<<d, n>>).type = "core"
               /\ NextDevice(<<d, n>>) \in Devices
    <3>1. <<d, n>> \in Ports(d) /\ <<d, n>>[2] \in 0..Half - 1
      BY <1>2, <1>3, <1>4
    <3>q. QED BY <1>4, <3>1, CustomHop, CustomLinked
  <2>q. QED BY <1>4, <2>1, <2>2
<1>5. CASE d.type = "core"
  <2>1. ASSUME NEW e \in Devices, e.type = "edge"
        PROVE  {q \in Ports(d) : NextDevice(q) = e}
                 = {<<d, n + e.pod * LinksEach>> : n \in 0..LinksEach - 1}
    <3>1. e = Device("edge", e.pod, 0) /\ e.pod \in 0..EdgeCount - 1
      BY <2>1, CustomDevices DEF CustomDevice, Custom
    <3>2. ASSUME NEW q \in Ports(d), NextDevice(q) = e
          PROVE  \E n \in 0..LinksEach - 1 : q = <<d, n + e.pod * LinksEach>>
      <4>1. q = <<d, q[2]>> /\ q[2] \in 0..tree.K - 1 /\ e.pod = q[2] \div LinksEach
        BY <1>5, <3>2, CustomHop
      <4>2. /\ q[2] % LinksEach \in 0..LinksEach - 1
            /\ q[2] = (q[2] % LinksEach) + (q[2] \div LinksEach) * LinksEach
        <5>1. PICK l \in Nat \ {0}, n \in Nat : l = LinksEach /\ n = q[2]
          BY <1>1, <4>1
        <5>2. n % l \in 0..l - 1 /\ n = (n % l) + (n \div l) * l
          BY Division
        <5>q. QED BY <5>1, <5>2
      <4>q. QED BY <4>1, <4>2
    <3>3. ASSUME NEW n \in 0..LinksEach - 1
          PROVE  /\ <<d, n + e.pod * LinksEach>> \in Ports(d)
                 /\ NextDevice(<<d, n + e.pod * LinksEach>>) = e
      <4>1. /\ n + e.pod * LinksEach \in Nat
            /\ (n + e.pod * LinksEach) \div LinksEach = e.pod
        <5>1. PICK l \in Nat \ {0}, k \in Nat : l = LinksEach /\ k = e.pod
          BY <1>1, <3>1
        <5>2. n \in 0..l - 1
          BY <5>1
        <5>3. n + k * l \in Nat /\ (n + k * l) \div l = k
          BY <5>2, Quotient
        <5>q. QED BY <5>1, <5>3
      <4>2. n + e.pod * LinksEach < EdgeCount * LinksEach
        <5>1. PICK l \in Nat \ {0}, m \in Nat \ {0}, x \in Nat :
                l = LinksEach /\ m = EdgeCount /\ x = n + e.pod * LinksEach
          BY <1>1, <4>1
        <5>2. x \div l < m
          BY <3>1, <4>1, <5>1
        <5>3. x < m * l
          BY <5>2, Below
        <5>q. QED BY <5>1, <5>3
      <4>3. n + e.pod * LinksEach \in 0..tree.K - 1
        BY <1>1, <4>1, <4>2
      <4>4. /\ <<d, n + e.pod * LinksEach>> \in Ports(d)
            /\ <<d, n + e.pod * LinksEach>>[2] = n + e.pod * LinksEach
        BY <1>3, <1>5, <4>3
      <4>5. NextDevice(<<d, n + e.pod * LinksEach>>) = Device("edge", e.pod, 0)
        BY <1>5, <4>1, <4>4, CustomHop
      <4>q. QED BY <3>1, <4>4, <4>5
    <3>q. QED BY <3>2, <3>3
  <2>q. QED BY <1>5, <2>1
<1>6. CASE d.type = "host"
  <2>1. ASSUME d.local < Half
        PROVE  {q \in Ports(EdgeOf(d)) : NextDevice(q) = d} = {<<EdgeOf(d), d.local + Half>>}
    <3>1. /\ EdgeOf(d) \in Devices /\ EdgeOf(d).type = "edge"
          /\ \E q \in Ports(EdgeOf(d)) : q = <<EdgeOf(d), d.local + Half>> /\ NextDevice(q) = d
      BY <1>6, <2>1, CustomHosts
    <3>2. ASSUME NEW q \in Ports(EdgeOf(d)), NextDevice(q) = d
          PROVE  q = <<EdgeOf(d), d.local + Half>>
      <4>1. q = <<EdgeOf(d), q[2]>> /\ q[2] - Half \in 0..Half - 1 /\ d.local = q[2] - Half
        BY <1>6, <3>1, <3>2, CustomHop
      <4>2. q[2] \in 0..tree.K - 1
        BY <3>1, CustomPorts
      <4>3. q[2] = d.local + Half
        BY <1>1, <4>1, <4>2
      <4>q. QED BY <4>1, <4>3
    <3>q. QED BY <3>1, <3>2
  <2>q. QED BY <1>6, <2>1
<1>q. QED BY <1>4, <1>5, <1>6

\* Its splits, numbered by the port up and the parallel link down.
LEMMA CustomFlows ==
  ASSUME Custom, NEW c \in Devices, c.type = "host", NEW s \in Devices, s.type = "host"
  PROVE  Cardinality(FlowSplits(c, s)) = SplitCount(c, s)
PROOF
<1> DEFINE ec == EdgeOf(c)
           es == EdgeOf(s)
           up == HostPort(c)
           down == <<es, s.local + Half>>
           Back(n, k) == <<NextDevice(<<ec, n>>), k + es.pod * LinksEach>>
<1>1. /\ Half \in Nat \ {0} /\ LinksEach \in Nat \ {0}
  BY CustomCounts
<1>2. /\ ec \in Devices /\ ec.type = "edge" /\ ec.pod = c.pod
      /\ es \in Devices /\ es.type = "edge" /\ es.pod = s.pod
      /\ (ec = es <=> c.pod = s.pod)
  BY CustomHosts, CustomEdges
<1>3. CASE ~(s.local < Half)
  <2>1. \A q \in Ports(es) : NextDevice(q) # s
    BY <1>2, <1>3, CustomUnreached
  <2>2. \A f : f \notin FlowSplits(c, s)
    BY <2>1, CustomFound
  <2>3. FlowSplits(c, s) = {}
    BY <2>2
  <2>q. QED BY <1>3, <2>3, FS_EmptySet DEF SplitCount, Custom
<1>4. s.local < Half => {q \in Ports(es) : NextDevice(q) = s} = {down}
  BY CustomSearches
<1>5. CASE s.local < Half /\ ec = es
  <2>1. \A f : f \in FlowSplits(c, s) <=>
          \E p \in {q \in Ports(es) : NextDevice(q) = s} :
            f = AtStages(up, NotUsed, NotUsed, NotUsed, NotUsed, p)
    BY <1>5, CustomFound
  <2>2. FlowSplits(c, s) = {AtStages(up, NotUsed, NotUsed, NotUsed, NotUsed, down)}
    BY <1>4, <1>5, <2>1
  <2>q. QED BY <1>2, <1>5, <2>2, FS_Singleton DEF SplitCount, Custom
<1>6. CASE s.local < Half /\ ec # es
  <2> DEFINE pairs == (0..Half - 1) \X (0..LinksEach - 1)
             Split(n, k) == AtStages(up, <<ec, n>>, NotUsed, Back(n, k), NotUsed, down)
             f == [x \in pairs |-> Split(x[1], x[2])]
  <2>1. \A g : g \in FlowSplits(c, s) <=>
          \E p \in {q \in Ports(ec) : NextDevice(q).type = "core"} :
            \E q \in {r \in Ports(NextDevice(p)) : NextDevice(r) = es} :
              \E r \in {t \in Ports(es) : NextDevice(t) = s} :
                g = AtStages(up, p, NotUsed, q, NotUsed, r)
    BY <1>6, CustomFound
  <2>2. {q \in Ports(ec) : NextDevice(q).type = "core"} = {<<ec, n>> : n \in 0..Half - 1}
    BY <1>2, CustomSearches
  <2>3. ASSUME NEW n \in 0..Half - 1
        PROVE  {r \in Ports(NextDevice(<<ec, n>>)) : NextDevice(r) = es}
                 = {Back(n, k) : k \in 0..LinksEach - 1}
    <3>1. NextDevice(<<ec, n>>) \in Devices /\ NextDevice(<<ec, n>>).type = "core"
      BY <1>2, CustomSearches
    <3>q. QED BY <1>2, <3>1, CustomSearches
  <2>4. ASSUME NEW n, NEW k \in Int, NEW j \in Int, Back(n, k) = Back(n, j)
        PROVE  k = j
    <3>1. es.pod \in Int
      BY <1>2, CustomDevices DEF CustomDevice, Custom
    <3>2. es.pod * LinksEach \in Int
      BY <1>1, <3>1
    <3>3. k + es.pod * LinksEach = j + es.pod * LinksEach
      BY <2>4
    <3>q. QED BY <3>2, <3>3
  <2> HIDE DEF ec, es, up, down, Back
  <2>5. \A g : g \in FlowSplits(c, s) <=>
          \E n \in 0..Half - 1 : \E k \in 0..LinksEach - 1 : g = Split(n, k)
    <3> DEFINE Rest(g, p, q) == \E r \in {t \in Ports(es) : NextDevice(t) = s} :
                                  g = AtStages(up, p, NotUsed, q, NotUsed, r)
    <3>1. \A g : g \in FlowSplits(c, s) <=>
            \E p \in {<<ec, n>> : n \in 0..Half - 1} :
              \E q \in {r \in Ports(NextDevice(p)) : NextDevice(r) = es} : Rest(g, p, q)
      BY <2>1, <2>2
    <3>2. \A g, n, k : Rest(g, <<ec, n>>, Back(n, k)) <=> g = Split(n, k)
      BY <1>4, <1>6
    <3> HIDE DEF Rest
    <3>3. \A g : g \in FlowSplits(c, s) <=>
            \E n \in 0..Half - 1 : \E q \in {Back(n, k) : k \in 0..LinksEach - 1} :
              Rest(g, <<ec, n>>, q)
      BY <2>3, <3>1
    <3>4. \A g : \A n \in 0..Half - 1 :
            (\E q \in {Back(n, k) : k \in 0..LinksEach - 1} : Rest(g, <<ec, n>>, q))
              <=> \E k \in 0..LinksEach - 1 : Rest(g, <<ec, n>>, Back(n, k))
      OBVIOUS
    <3>5. ASSUME NEW g
          PROVE  g \in FlowSplits(c, s) <=>
                   \E n \in 0..Half - 1 : \E k \in 0..LinksEach - 1 :
                     Rest(g, <<ec, n>>, Back(n, k))
      BY <3>3, <3>4
    <3>q. QED BY <3>2, <3>5
  <2>6. \A x \in pairs : x = <<x[1], x[2]>> /\ x[1] \in 0..Half - 1 /\ x[2] \in 0..LinksEach - 1
    OBVIOUS
  <2>7. ASSUME NEW x \in pairs, NEW y \in pairs, f[x] = f[y]
        PROVE  x = y
    <3>1. /\ Split(x[1], x[2])[1] = <<ec, x[1]>> /\ Split(y[1], y[2])[1] = <<ec, y[1]>>
          /\ Split(x[1], x[2])[3] = Back(x[1], x[2])
          /\ Split(y[1], y[2])[3] = Back(y[1], y[2])
      BY StagesOf
    <3>2. x[1] = y[1] /\ Back(x[1], x[2]) = Back(y[1], y[2])
      BY <2>7, <3>1
    <3>3. x[2] = y[2]
      BY <2>4, <2>6, <3>2
    <3>q. QED BY <2>6, <3>2, <3>3
  <2> HIDE DEF Split
  <2>8. /\ f = [x \in pairs |-> f[x]] /\ DOMAIN f = pairs
        /\ \A n \in 0..Half - 1 : \A k \in 0..LinksEach - 1 :
             <<n, k>> \in pairs /\ f[<<n, k>>] = Split(n, k)
        /\ \A x \in pairs : f[x] = Split(x[1], x[2])
    OBVIOUS
  <2> HIDE DEF f
  <2>9. Cardinality(FlowSplits(c, s)) = Cardinality(pairs)
    <3>1. \A x \in pairs : f[x] \in FlowSplits(c, s)
      BY <2>5, <2>6, <2>8
    <3>2. ASSUME NEW g \in FlowSplits(c, s) PROVE \E x \in pairs : f[x] = g
      <4>1. PICK n \in 0..Half - 1, k \in 0..LinksEach - 1 : g = Split(n, k)
        BY <2>5
      <4>2. <<n, k>> \in pairs /\ f[<<n, k>>] = g
        BY <2>8, <4>1
      <4>q. QED BY <4>2
    <3>3. IsFiniteSet(pairs)
      BY <1>1, Count
    <3> HIDE DEF pairs
    <3>q. QED BY <2>7, <2>8, <3>1, <3>2, <3>3, Numbering
  <2>10. SplitCount(c, s) = Half * LinksEach
    BY <1>2, <1>6 DEF SplitCount, Custom
  <2>q. QED BY <1>1, <2>9, <2>10, Count
<1>q. QED BY <1>3, <1>5, <1>6

LEMMA InvCounts ==
  ASSUME RouteInv
  PROVE  SplitsCounted
PROOF
<1> SUFFICES ASSUME flow # NoFlow
             PROVE  Cardinality(flow.splits)
                      = SplitCount(HostOf(flow.clientId), HostOf(flow.serverId))
  BY DEF SplitsCounted
<1> DEFINE c == HostOf(flow.clientId)
           s == HostOf(flow.serverId)
<1>1. /\ tree \in Trees /\ Linked /\ flow.splits = FlowSplits(c, s)
      /\ flow.clientId \in 0..NumHosts - 1 /\ flow.serverId \in 0..NumHosts - 1
  BY DEF RouteInv, FlowInv
<1>2. c \in Devices /\ c.type = "host" /\ s \in Devices /\ s.type = "host"
  BY <1>1, HostsOf
<1> HIDE DEF c, s
<1>3. Fat \/ Custom
  BY <1>1 DEF Fat, Custom
<1>4. Cardinality(FlowSplits(c, s)) = SplitCount(c, s)
  BY <1>2, <1>3, FatCounts, CustomFlows
<1>q. QED BY <1>1, <1>4 DEF c, s

(***************************************************************************)
(* For trees of any size, a flow is spread over as many splits as there    *)
(* are shortest walks between its hosts.                                   *)
(***************************************************************************)
THEOREM FlowsAreSpread == Spec => []SplitsCounted
BY AlwaysInv, InvCounts, PTL
===============================================================================

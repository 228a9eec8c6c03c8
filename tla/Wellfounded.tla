---------------------------- MODULE Wellfounded ----------------------------
(***************************************************************************)
(* Least elements and bounds of sets of natural numbers; the walk up a     *)
(* chain of parents, which ends because every parent has a smaller number; *)
(* the walk over links, which finds the end of every short path; and the   *)
(* arithmetic of moments: the arguments about numbers the proofs need.     *)
(***************************************************************************)
EXTENDS Integers, FiniteSets, FiniteSetTheorems, WellFoundedInduction, TLAPS

(* A nonempty set of natural numbers has a least element. *)
LEMMA LeastElement ==
    ASSUME NEW T \in SUBSET Nat, T # {}
    PROVE  \E n \in T : \A k \in T : n <= k
  <1> DEFINE R == OpToRel(<, Nat)
  <1>1. PICK n \in T : \A k \in T : ~(<<k, n>> \in R)
    <2> HIDE DEF R
    <2>1. IsWellFoundedOn(R, Nat)
      BY NatLessThanWellFounded DEF R
    <2>2. QED
      BY <2>1, WFMin
  <1>2. ASSUME NEW k \in T, k < n PROVE FALSE
    <2>1. <<k, n>> \in R
      BY <1>2 DEF OpToRel
    <2>2. QED
      BY <1>1, <2>1
  <1>3. QED
    BY <1>2

(* A finite set of natural numbers has a bound. *)
LEMMA FiniteBound ==
    ASSUME NEW S \in SUBSET Nat, IsFiniteSet(S)
    PROVE  \E n \in Nat : \A s \in S : s <= n
  <1> DEFINE Bounded(U) == \E n \in Nat : \A s \in U : s <= n
             T == {k \in Nat : \E U \in SUBSET S : Cardinality(U) = k /\ ~Bounded(U)}
  <1>1. \A U \in SUBSET S : IsFiniteSet(U) /\ Cardinality(U) \in Nat
    BY FS_Subset, FS_CardinalityType
  <1>2. SUFFICES ASSUME ~Bounded(S) PROVE FALSE
    OBVIOUS
  <1>3. T # {}
    BY <1>1, <1>2
  <1>4. PICK k \in T : \A i \in T : k <= i
    <2>1. T \in SUBSET Nat
      OBVIOUS
    <2> HIDE DEF T
    <2>2. QED
      BY <1>3, <2>1, LeastElement
  <1>5. PICK U \in SUBSET S : Cardinality(U) = k /\ ~Bounded(U)
    OBVIOUS
  <1>6. PICK x \in U : TRUE
    BY <1>5
  <1> DEFINE V == U \ {x}
  <1>7. V \in SUBSET S /\ Cardinality(V) = k - 1 /\ k - 1 \in Nat
    <2>1. IsFiniteSet(U) /\ k \in Nat /\ V \in SUBSET S
      BY <1>1, <1>5
    <2>2. Cardinality(V) = Cardinality(U) - 1
      BY <1>6, <2>1, FS_RemoveElement
    <2>3. Cardinality(V) \in Nat
      BY <1>1, <2>1
    <2> HIDE DEF V, T, Bounded
    <2>4. QED
      BY <1>5, <2>1, <2>2, <2>3
  <1>8. Bounded(V)
    BY <1>4, <1>7
  <1>9. PICK n \in Nat : \A s \in V : s <= n
    BY <1>8
  <1>10. Bounded(U)
    <2>1. CASE x <= n
      BY <1>9, <2>1
    <2>2. CASE ~(x <= n)
      <3>1. x \in Nat /\ \A s \in U : s <= x
        BY <1>6, <1>9, <2>2
      <3>2. QED
        BY <3>1
    <2>3. QED
      BY <2>1, <2>2
  <1>11. QED
    BY <1>5, <1>10

-----------------------------------------------------------------------------
(* up[r] is the parent of r, 0 at a root. *)

Climbs(S, up) == \A r \in S : up[r] = 0 \/ (up[r] \in S /\ up[r] < r)

Depths(S, up, f) ==
    f = [r \in S |-> IF up[r] = 0 THEN 0 ELSE f[up[r]] + 1]

(* The walk up ends: the number of steps is defined for every element. *)
LEMMA DepthsExist ==
    ASSUME NEW S \in SUBSET (Nat \ {0}), IsFiniteSet(S), NEW up, Climbs(S, up)
    PROVE  \E f : Depths(S, up, f)
  <1> DEFINE Below(n) == {r \in S : r < n}
             Good(n) == \E f : Depths(Below(n), up, f)
             T == {n \in Nat : ~Good(n)}
  <1>1. Good(0)
    <2>1. \A r \in S : ~(r < 0)
      OBVIOUS
    <2>4. Below(0) = {}
      BY <2>1
    <2>2. Depths({}, up, [r \in {} |-> 0])
      BY DEF Depths
    <2> HIDE DEF Below
    <2>3. QED
      BY <2>2, <2>4
  <1>2. ASSUME NEW n \in Nat, Good(n) PROVE Good(n + 1)
    <2>1. PICK f : Depths(Below(n), up, f)
      BY <1>2
    <2> DEFINE step(r) == IF up[r] = 0 THEN 0 ELSE f[up[r]] + 1
               g == [r \in Below(n + 1) |-> step(r)]
    <2>2. ASSUME NEW r \in Below(n + 1), up[r] # 0 PROVE g[up[r]] = f[up[r]]
      <3>0. r \in S /\ r \in Nat /\ r < n + 1
        BY <2>2
      <3>4. up[r] \in S /\ up[r] \in Nat /\ up[r] < r
        BY <2>2, <3>0 DEF Climbs
      <3>1. up[r] \in Below(n) /\ up[r] \in Below(n + 1)
        BY <3>0, <3>4
      <3>2. f[up[r]] = step(up[r])
        BY <2>1, <3>1 DEF Depths
      <3>3. QED
        BY <3>1, <3>2
    <2>3. g = [r \in Below(n + 1) |-> IF up[r] = 0 THEN 0 ELSE g[up[r]] + 1]
      BY <2>2
    <2>4. QED
      BY <2>3 DEF Depths
  <1>3. T = {}
    <2>1. SUFFICES ASSUME T # {} PROVE FALSE
      OBVIOUS
    <2>2. PICK n \in T : \A k \in T : n <= k
      <3>1. T \in SUBSET Nat
        OBVIOUS
      <3> HIDE DEF T
      <3>2. QED
        BY <2>1, <3>1, LeastElement
    <2>3. n \in Nat /\ ~Good(n)
      BY <2>2
    <2> HIDE DEF Good
    <2>4. n - 1 \in Nat
      BY <1>1, <2>3
    <2>5. Good(n - 1)
      BY <2>2, <2>3, <2>4
    <2>6. (n - 1) + 1 = n
      BY <2>3
    <2>7. QED
      BY <1>2, <2>3, <2>4, <2>5, <2>6
  <1>4. PICK n \in Nat : \A r \in S : r <= n
    BY FiniteBound
  <1>5. Below(n + 1) = S
    <2>1. \A r \in S : r < n + 1
      BY <1>4
    <2>2. QED
      BY <2>1
  <1>6. Good(n + 1)
    <2> HIDE DEF Good
    <2>1. n + 1 \in Nat
      OBVIOUS
    <2>2. QED
      BY <1>3, <2>1
  <1>7. QED
    BY <1>5, <1>6

(* Where two walks agree about the parents of a set closed under them,     *)
(* they agree about the number of steps.                                   *)
LEMMA DepthsAgree ==
    ASSUME NEW S \in SUBSET (Nat \ {0}), NEW D \in SUBSET S,
           NEW up, NEW f, Depths(S, up, f),
           NEW vp, NEW g, Depths(S, vp, g),
           Climbs(D, up), \A r \in D : vp[r] = up[r]
    PROVE  \A r \in D : g[r] = f[r]
  <1> DEFINE T == {r \in D : g[r] # f[r]}
  <1>1. SUFFICES ASSUME T # {} PROVE FALSE
    OBVIOUS
  <1>2. PICK r \in T : \A q \in T : r <= q
    <2>1. T \in SUBSET Nat
      OBVIOUS
    <2> HIDE DEF T
    <2>2. QED
      BY <1>1, <2>1, LeastElement
  <1>3. /\ f[r] = IF up[r] = 0 THEN 0 ELSE f[up[r]] + 1
        /\ g[r] = IF up[r] = 0 THEN 0 ELSE g[up[r]] + 1
    BY DEF Depths
  <1>4. CASE up[r] = 0
    BY <1>3, <1>4
  <1>5. CASE up[r] # 0
    <2>1. up[r] \in D /\ up[r] < r
      BY <1>5 DEF Climbs
    <2>2. up[r] \notin T
      <3>1. SUFFICES ASSUME up[r] \in T PROVE FALSE
        OBVIOUS
      <3>2. r <= up[r] /\ r \in Nat /\ up[r] \in Nat
        BY <1>2, <2>1, <3>1
      <3> HIDE DEF T
      <3>3. QED
        BY <2>1, <3>2
    <2>3. g[up[r]] = f[up[r]]
      BY <2>1, <2>2
    <2>4. QED
      BY <1>3, <1>5, <2>3
  <1>6. QED
    BY <1>4, <1>5

(* A number of steps is a natural number. *)
LEMMA DepthsNat ==
    ASSUME NEW S \in SUBSET (Nat \ {0}), NEW up, Climbs(S, up),
           NEW f, Depths(S, up, f)
    PROVE  \A r \in S : f[r] \in Nat
  <1> DEFINE T == {r \in S : f[r] \notin Nat}
  <1>1. SUFFICES ASSUME T # {} PROVE FALSE
    OBVIOUS
  <1>2. PICK r \in T : \A q \in T : r <= q
    <2>1. T \in SUBSET Nat
      OBVIOUS
    <2> HIDE DEF T
    <2>2. QED
      BY <1>1, <2>1, LeastElement
  <1>3. f[r] = IF up[r] = 0 THEN 0 ELSE f[up[r]] + 1
    BY DEF Depths
  <1>4. CASE up[r] # 0
    <2>1. up[r] \in S /\ up[r] < r
      BY <1>4 DEF Climbs
    <2>2. f[up[r]] \in Nat
      <3>1. SUFFICES ASSUME up[r] \in T PROVE FALSE
        BY <2>1
      <3>2. r <= up[r] /\ r \in Nat /\ up[r] \in Nat
        BY <1>2, <2>1, <3>1
      <3> HIDE DEF T
      <3>3. QED
        BY <2>1, <3>2
    <2>3. QED
      BY <1>3, <1>4, <2>2
  <1>5. QED
    BY <1>3, <1>4

-----------------------------------------------------------------------------
(* What can be reached over a set of links in so many steps. *)

Walks(E, from, f) ==
    f = [d \in Nat |-> IF d = 0 THEN {from}
                       ELSE f[d - 1] \cup {l.to : l \in {m \in E : m.from \in f[d - 1]}}]

(* p[0], ..., p[m] is a path over links of E. *)
Path(E, p, m) ==
    \A i \in 0..(m - 1) : \E l \in E : l.from = p[i] /\ l.to = p[i + 1]

(* The walk is defined for every number of steps: it is the set of the     *)
(* ends of the paths that are no longer.                                   *)
LEMMA WalksExist ==
    ASSUME NEW E, NEW from
    PROVE  \E f : Walks(E, from, f)
  <1> DEFINE Nodes == {from} \cup {l.to : l \in E}
             Ends(t, m) == \E p : p[0] = from /\ p[m] = t /\ Path(E, p, m)
             f == [d \in Nat |-> {t \in Nodes : \E m \in 0..d : Ends(t, m)}]
             Onto(S) == {l.to : l \in {m \in E : m.from \in S}}
  <1>1. f[0] = {from}
    <2>1. Ends(from, 0)
      <3>1. [i \in {0} |-> from][0] = from
        OBVIOUS
      <3>2. Path(E, [i \in {0} |-> from], 0)
        BY DEF Path
      <3>3. QED
        BY <3>1, <3>2
    <2>2. \A t : Ends(t, 0) => t = from
      OBVIOUS
    <2>3. f[0] = {t \in Nodes : \E m \in 0..0 : Ends(t, m)}
      OBVIOUS
    <2> HIDE DEF Ends, f
    <2>4. QED
      BY <2>1, <2>2, <2>3
  <1>2. ASSUME NEW d \in Nat, d # 0 PROVE f[d] = f[d - 1] \cup Onto(f[d - 1])
    <2>1. /\ f[d] = {t \in Nodes : \E m \in 0..d : Ends(t, m)}
          /\ f[d - 1] = {t \in Nodes : \E m \in 0..(d - 1) : Ends(t, m)}
      BY <1>2
    <2>2. ASSUME NEW t \in f[d] PROVE t \in f[d - 1] \cup Onto(f[d - 1])
      <3>1. PICK m \in 0..d : Ends(t, m)
        BY <2>1, <2>2
      <3>2. CASE m # d
        <4>1. m \in 0..(d - 1)
          BY <3>2
        <4> HIDE DEF Ends
        <4>2. QED
          BY <2>1, <2>2, <3>1, <4>1
      <3>3. CASE m = d
        <4>1. PICK p : p[0] = from /\ p[d] = t /\ Path(E, p, d)
          BY <3>1, <3>3
        <4>2. PICK l \in E : l.from = p[d - 1] /\ l.to = t
          BY <1>2, <4>1 DEF Path
        <4>3. p[d - 1] \in Nodes
          <5>1. CASE d - 1 = 0
            BY <4>1, <5>1
          <5>2. CASE d - 1 # 0
            <6>1. d - 2 \in 0..(d - 1) /\ (d - 2) + 1 = d - 1
              BY <1>2, <5>2
            <6>2. PICK k \in E : k.to = p[d - 1]
              BY <4>1, <6>1 DEF Path
            <6>3. QED
              BY <6>2
          <5>3. QED
            BY <5>1, <5>2
        <4>4. Path(E, p, d - 1)
          BY <1>2, <4>1 DEF Path
        <4>5. Ends(p[d - 1], d - 1)
          BY <4>1, <4>4
        <4> HIDE DEF Ends, Nodes
        <4>6. d - 1 \in 0..(d - 1)
          BY <1>2
        <4>7. p[d - 1] \in f[d - 1]
          BY <2>1, <4>3, <4>5, <4>6
        <4> HIDE DEF f
        <4>8. QED
          BY <4>2, <4>7
      <3>4. QED
        BY <3>2, <3>3
    <2>3. ASSUME NEW t \in f[d - 1] PROVE t \in f[d]
      <3> HIDE DEF Ends
      <3>1. t \in Nodes /\ \E m \in 0..(d - 1) : Ends(t, m)
        BY <2>1, <2>3
      <3>2. 0..(d - 1) \subseteq 0..d
        BY <1>2
      <3>3. QED
        BY <2>1, <3>1, <3>2
    <2>4. ASSUME NEW t \in Onto(f[d - 1]) PROVE t \in f[d]
      <3> HIDE DEF f
      <3>1. PICK l \in E : l.from \in f[d - 1] /\ l.to = t
        BY <2>4
      <3>2. PICK m \in 0..(d - 1) : Ends(l.from, m)
        BY <2>1, <3>1
      <3>3. PICK p : p[0] = from /\ p[m] = l.from /\ Path(E, p, m)
        BY <3>2
      <3> DEFINE q == [i \in 0..(m + 1) |-> IF i = m + 1 THEN t ELSE p[i]]
      <3>4. /\ q[0] = from /\ q[m + 1] = t /\ q[m] = l.from
            /\ \A i \in 0..m : q[i] = p[i]
        BY <1>2, <3>3
      <3>5. Path(E, q, m + 1)
        <4>1. SUFFICES ASSUME NEW i \in 0..((m + 1) - 1)
                       PROVE  \E k \in E : k.from = q[i] /\ k.to = q[i + 1]
          BY DEF Path
        <4>2. CASE i = m
          BY <3>1, <3>4, <4>2
        <4>3. CASE i # m
          <5>1. i \in 0..(m - 1) /\ i \in 0..m /\ i + 1 \in 0..m
            BY <1>2, <4>1, <4>3
          <5> HIDE DEF q
          <5>2. QED
            BY <3>3, <3>4, <5>1 DEF Path
        <4>4. QED
          BY <4>2, <4>3
      <3> HIDE DEF q
      <3>6. Ends(t, m + 1)
        BY <3>4, <3>5
      <3>7. t \in Nodes /\ m + 1 \in 0..d
        BY <1>2, <3>1
      <3> HIDE DEF Ends, Nodes
      <3>8. QED
        BY <2>1, <3>6, <3>7
    <2> HIDE DEF f, Onto
    <2>5. QED
      BY <2>2, <2>3, <2>4
  <1>3. f = [d \in Nat |-> IF d = 0 THEN {from} ELSE f[d - 1] \cup Onto(f[d - 1])]
    <2>1. DOMAIN f = Nat /\ f = [d \in Nat |-> f[d]]
      OBVIOUS
    <2> HIDE DEF f, Onto
    <2>2. QED
      BY <1>1, <1>2, <2>1
  <1> HIDE DEF f
  <1>4. QED
    BY <1>3 DEF Walks

(* The walk finds the end of every path that is short enough. *)
LEMMA PathIsWalked ==
    ASSUME NEW E, NEW from, NEW f, Walks(E, from, f), NEW p, NEW m \in Nat,
           p[0] = from, Path(E, p, m), NEW D \in Nat, m <= D
    PROVE  p[m] \in f[D]
  <1> DEFINE at(d) == IF d <= m THEN p[d] ELSE p[m]
             T == {d \in Nat : at(d) \notin f[d]}
  <1>1. SUFFICES ASSUME T # {} PROVE FALSE
    <2>1. at(D) = p[m] /\ (at(D) \in f[D] \/ D \in T)
      OBVIOUS
    <2> HIDE DEF T, at
    <2>2. QED
      BY <2>1
  <1>2. PICK d \in T : \A k \in T : d <= k
    <2>1. T \in SUBSET Nat
      OBVIOUS
    <2> HIDE DEF T
    <2>2. QED
      BY <1>1, <2>1, LeastElement
  <1>3. d # 0
    BY <1>2 DEF Walks
  <1>4. d - 1 \in Nat /\ d \in Nat
    BY <1>2, <1>3
  <1>5. at(d - 1) \in f[d - 1]
    BY <1>2, <1>4
  <1>6. f[d] = f[d - 1] \cup {l.to : l \in {k \in E : k.from \in f[d - 1]}}
    BY <1>3, <1>4 DEF Walks
  <1>7. CASE d <= m
    <2>1. d - 1 \in 0..(m - 1) /\ (d - 1) + 1 = d
      BY <1>4, <1>7
    <2>2. PICK l \in E : l.from = p[d - 1] /\ l.to = p[d]
      BY <2>1 DEF Path
    <2>3. at(d - 1) = p[d - 1] /\ at(d) = p[d]
      BY <1>4, <1>7
    <2>4. at(d) \in f[d]
      BY <1>5, <1>6, <2>2, <2>3
    <2>5. QED
      BY <1>2, <2>4
  <1>8. CASE ~(d <= m)
    <2>1. at(d - 1) = p[m] /\ at(d) = p[m]
      BY <1>4, <1>8
    <2>2. at(d) \in f[d]
      BY <1>5, <1>6, <2>1
    <2>3. QED
      BY <1>2, <2>2
  <1>9. QED
    BY <1>7, <1>8

---------------------------------------------------------------------------
(* Quotient and remainder. *)

LEMMA ProductGrows ==
    ASSUME NEW m \in Nat, NEW x \in Nat, NEW y \in Nat, x <= y
    PROVE  x * m \in Nat /\ x * m <= y * m /\ (x + 1) * m = x * m + m
  OBVIOUS

LEMMA DivisionIs ==
    ASSUME NEW m \in Nat \ {0}, NEW s \in Nat
    PROVE  /\ s \div m \in Nat /\ s % m \in 0..(m - 1)
           /\ s = ((s \div m) * m) + (s % m)
  OBVIOUS

LEMMA DivisionUnique ==
    ASSUME NEW m \in Nat \ {0}, NEW q \in Nat, NEW r \in 0..(m - 1), NEW s, s = q * m + r
    PROVE  s \in Nat /\ s \div m = q /\ s % m = r
  <1>1. s \in Nat
    BY ProductGrows
  <1>2. PICK p \in Nat, t \in 0..(m - 1) : p = s \div m /\ t = s % m /\ s = p * m + t
    BY <1>1, DivisionIs
  <1>3. CASE p < q
    <2>1. (p + 1) * m = p * m + m /\ (p + 1) * m <= q * m /\ p * m \in Nat /\ q * m \in Nat
      <3>1. p + 1 <= q /\ p + 1 \in Nat
        BY <1>3
      <3>2. QED
        BY <3>1, ProductGrows
    <2>2. QED
      BY <1>2, <2>1
  <1>4. CASE q < p
    <2>1. (q + 1) * m = q * m + m /\ (q + 1) * m <= p * m /\ p * m \in Nat /\ q * m \in Nat
      <3>1. q + 1 <= p /\ q + 1 \in Nat
        BY <1>4
      <3>2. QED
        BY <3>1, ProductGrows
    <2>2. QED
      BY <1>2, <2>1
  <1>5. CASE p = q
    BY <1>2, <1>5
  <1>6. QED
    BY <1>3, <1>4, <1>5

---------------------------------------------------------------------------
(* A moment as a day, an hour and a minute: H hours of M minutes to a day. *)

IsDay(P, H, M) == P = H * M
Moment(P, M, d, h, m) == d * P + h * M + m

LEMMA MomentIs ==
    ASSUME NEW M \in Nat \ {0}, NEW H \in Nat \ {0}, NEW P, IsDay(P, H, M), NEW d \in Nat,
           NEW h \in 0..(H - 1), NEW m \in 0..(M - 1), NEW c, c = Moment(P, M, d, h, m)
    PROVE  c \in Nat /\ c \div P = d /\ (c \div M) % H = h /\ c % M = m
  <1> USE DEF IsDay, Moment
  <1>1. P \in Nat
    BY ProductGrows
  <1>2. PICK k \in Nat : k = h * M /\ k + M <= P
    <2>1. h * M \in Nat /\ (h + 1) * M = h * M + M /\ (h + 1) * M <= H * M
      <3>1. h \in Nat /\ h + 1 \in Nat /\ h + 1 <= H
        OBVIOUS
      <3>2. QED
        BY <3>1, ProductGrows
    <2>2. QED
      BY <1>1, <2>1
  <1>3. c \in Nat /\ c \div P = d
    <2>1. k + m \in 0..(P - 1) /\ P \in Nat \ {0}
      BY <1>1, <1>2
    <2>2. c = d * P + (k + m)
      <3>1. d * P \in Nat
        BY <1>1, ProductGrows
      <3>2. QED
        BY <1>1, <1>2, <3>1
    <2>3. QED
      BY <2>1, <2>2, DivisionUnique
  <1>4. PICK q \in Nat : q = d * H + h
    BY ProductGrows
  <1>5. q % H = h
    BY <1>4, DivisionUnique
  <1>6. c = q * M + m
    <2>1. d * (H * M) = (d * H) * M
      OBVIOUS
    <2>2. (d * H + h) * M = (d * H) * M + h * M
      OBVIOUS
    <2>3. QED
      BY <1>4, <2>1, <2>2
  <1>7. c \div M = q /\ c % M = m
    BY <1>6, DivisionUnique
  <1>8. QED
    BY <1>3, <1>5, <1>7

LEMMA MomentSplits ==
    ASSUME NEW M \in Nat \ {0}, NEW H \in Nat \ {0}, NEW P, IsDay(P, H, M), NEW s \in Nat
    PROVE  s = Moment(P, M, s \div P, (s \div M) % H, s % M)
  <1>1. PICK q \in Nat, m \in 0..(M - 1) : s = q * M + m
    BY DivisionIs
  <1>2. PICK d \in Nat, h \in 0..(H - 1) : q = d * H + h
    BY DivisionIs
  <1>3. s = Moment(P, M, d, h, m)
    <2>1. d * P = (d * H) * M
      BY DEF IsDay
    <2>2. (d * H + h) * M = (d * H) * M + h * M
      OBVIOUS
    <2>3. QED
      BY <1>1, <1>2, <2>1, <2>2 DEF Moment
  <1>4. s \div P = d
    BY <1>3, MomentIs
  <1>5. s \div M = q /\ s % M = m
    BY <1>1, DivisionUnique
  <1>6. q % H = h
    BY <1>2, DivisionUnique
  <1>7. QED
    BY <1>3, <1>4, <1>5, <1>6, Zenon

(* Days follow each other.                                                 *)
LEMMA DaysFollow ==
    ASSUME NEW P \in Nat \ {0}, NEW s \in Nat, NEW t \in Nat, NEW d \in Nat
    PROVE  /\ s <= t => s \div P <= t \div P
           /\ s < (d + 1) * P => s \div P <= d
           /\ s < d * P => s \div P < d
           /\ s \div P < d => s < d * P
  <1>1. PICK a \in Nat, r \in 0..(P - 1) : a = s \div P /\ s = a * P + r
    BY DivisionIs
  <1>2. PICK b \in Nat, u \in 0..(P - 1) : b = t \div P /\ t = b * P + u
    BY DivisionIs
  <1>3. a * P \in Nat /\ b * P \in Nat /\ d * P \in Nat /\ (d + 1) * P = d * P + P
    BY ProductGrows
  <1>4. b < a => t < s
    <2>1. SUFFICES ASSUME b < a PROVE b * P + P <= a * P
      BY <1>1, <1>2, <1>3
    <2>2. b + 1 \in Nat /\ b + 1 <= a
      BY <2>1
    <2>3. QED
      BY <2>2, ProductGrows
  <1>5. d <= a => d * P <= s
    <2>1. SUFFICES ASSUME d <= a PROVE d * P <= a * P
      BY <1>1, <1>3
    <2>2. QED
      BY <2>1, ProductGrows
  <1>6. d + 1 <= a => (d + 1) * P <= s
    <2>1. SUFFICES ASSUME d + 1 <= a PROVE (d + 1) * P <= a * P
      <3>1. (d + 1) * P \in Nat
        BY <1>3
      <3>2. QED
        BY <1>1, <1>3, <3>1
    <2>2. d + 1 \in Nat
      OBVIOUS
    <2>3. QED
      BY <2>1, <2>2, ProductGrows
  <1>7. s \in Int /\ t \in Int /\ a \in Int /\ b \in Int /\ d * P \in Int /\ (d + 1) * P \in Int
    BY <1>3
  <1>8. s <= t => a <= b
    BY <1>4, <1>7
  <1>9. s < (d + 1) * P => a <= d
    BY <1>6, <1>7
  <1>10. s < d * P => a < d
    BY <1>5, <1>7
  <1>11. a < d => s < d * P
    <2>1. SUFFICES ASSUME a < d PROVE a * P + P <= d * P
      BY <1>1, <1>3
    <2>2. a + 1 \in Nat /\ a + 1 <= d
      BY <2>1
    <2>3. QED
      BY <2>2, ProductGrows
  <1>12. QED
    BY <1>1, <1>2, <1>8, <1>9, <1>10, <1>11
=============================================================================

------------------------ MODULE SignalPlanningProofs ------------------------
(***************************************************************************)
(* Proofs about SignalPlanning, for any prices, numbers of targets,        *)
(* weights and filters: what the sanitizer's search for the best targets   *)
(* finds, and what rounding and merging leave of them in the plan.         *)
(***************************************************************************)
EXTENDS SignalPlanning, SummationProofs, FiniteSetTheorems, SequenceTheorems

-----------------------------------------------------------------------------
(* Sequences of values, compared as _prefer_path compares them.             *)

LEMMA BeyondIsTotal ==
  ASSUME NEW side, NEW a \in Int, NEW b \in Int
  PROVE  /\ a # b => Beyond(side, a, b) \/ Beyond(side, b, a)
         /\ ~ (Beyond(side, a, b) /\ Beyond(side, b, a))
         /\ ~ Beyond(side, a, a)
BY DEF Beyond

LEMMA BeyondTransitive ==
  ASSUME NEW side, NEW a \in Int, NEW b \in Int, NEW c \in Int,
         Beyond(side, a, b), Beyond(side, b, c)
  PROVE  Beyond(side, a, c)
BY DEF Beyond

\* Place k is the first at which w and u differ, and w is nearer there.
NearerAt(side, w, u, k) ==
  Beyond(side, w[k], u[k]) /\ \A l \in 1 .. k - 1 : w[l] = u[l]

\* w keeps more than u, or as much and nearer to the entry.
AsGood(side, w, u) ==
  \/ Len(w) > Len(u)
  \/ /\ Len(w) = Len(u)
     /\ \/ \A k \in 1 .. Len(w) : w[k] = u[k]
        \/ \E k \in 1 .. Len(w) : NearerAt(side, w, u, k)

LEMMA NearerTransitive ==
  ASSUME NEW side, NEW n \in Nat, NEW w, NEW u, NEW x,
         \A k \in 1 .. n : w[k] \in Int /\ u[k] \in Int /\ x[k] \in Int,
         NEW k \in 1 .. n, NearerAt(side, w, u, k),
         NEW j \in 1 .. n, NearerAt(side, u, x, j)
  PROVE  \E i \in 1 .. n : NearerAt(side, w, x, i)
<1>1. CASE k < j
  <2>1. NearerAt(side, w, x, k)
    BY <1>1 DEF NearerAt, Beyond
  <2> QED
    BY <2>1
<1>2. CASE j < k
  <2>1. NearerAt(side, w, x, j)
    BY <1>2 DEF NearerAt, Beyond
  <2> QED
    BY <2>1
<1>3. CASE j = k
  <2>1. NearerAt(side, w, x, k)
    BY <1>3 DEF NearerAt, Beyond
  <2> QED
    BY <2>1
<1> QED
  BY <1>1, <1>2, <1>3

LEMMA AsGoodTransitive ==
  ASSUME NEW side, NEW w \in Seq(Int), NEW u \in Seq(Int), NEW x \in Seq(Int),
         AsGood(side, w, u), AsGood(side, u, x)
  PROVE  AsGood(side, w, x)
<1>0. Len(w) \in Nat /\ Len(u) \in Nat /\ Len(x) \in Nat
  OBVIOUS
<1>1. CASE Len(w) > Len(x)
  BY <1>1 DEF AsGood
<1>2. CASE Len(w) <= Len(x)
  <2> DEFINE n == Len(w)
  <2>1. n = Len(u) /\ n = Len(x)
    BY <1>0, <1>2 DEF AsGood
  <2>2. \A k \in 1 .. n : w[k] \in Int /\ u[k] \in Int /\ x[k] \in Int
    BY <2>1, ElementOfSeq
  <2>3. CASE \A k \in 1 .. n : w[k] = u[k]
    <3>1. CASE \A k \in 1 .. n : u[k] = x[k]
      BY <2>1, <2>3, <3>1 DEF AsGood
    <3>2. ASSUME NEW k \in 1 .. n, NearerAt(side, u, x, k)
          PROVE  AsGood(side, w, x)
      <4>1. NearerAt(side, w, x, k)
        BY <1>0, <2>3, <3>2 DEF NearerAt
      <4> QED
        BY <4>1, <2>1 DEF AsGood
    <3> QED
      BY <2>1, <3>1, <3>2 DEF AsGood
  <2>4. ASSUME NEW k \in 1 .. n, NearerAt(side, w, u, k)
        PROVE  AsGood(side, w, x)
    <3>1. CASE \A j \in 1 .. n : u[j] = x[j]
      <4>1. NearerAt(side, w, x, k)
        BY <1>0, <2>4, <3>1 DEF NearerAt
      <4> QED
        BY <4>1, <2>1 DEF AsGood
    <3>2. ASSUME NEW j \in 1 .. n, NearerAt(side, u, x, j)
          PROVE  AsGood(side, w, x)
      <4>1. \E i \in 1 .. n : NearerAt(side, w, x, i)
        BY <1>0, <2>2, <2>4, <3>2, NearerTransitive
      <4> QED
        BY <4>1, <2>1 DEF AsGood
    <3> QED
      BY <2>1, <3>1, <3>2 DEF AsGood
  <2> QED
    BY <2>1, <2>3, <2>4 DEF AsGood
<1> QED
  BY <1>0, <1>1, <1>2

LEMMA AsGoodAppend ==
  ASSUME NEW side, NEW w \in Seq(Int), NEW u \in Seq(Int), NEW t \in Int,
         AsGood(side, w, u)
  PROVE  AsGood(side, Append(w, t), Append(u, t))
<1>1. Len(Append(w, t)) = Len(w) + 1 /\ Len(Append(u, t)) = Len(u) + 1
  OBVIOUS
<1>2. CASE Len(w) > Len(u)
  BY <1>1, <1>2 DEF AsGood
<1>3. CASE Len(w) = Len(u) /\ \A k \in 1 .. Len(w) : w[k] = u[k]
  <2>1. \A k \in 1 .. Len(w) + 1 : Append(w, t)[k] = Append(u, t)[k]
    BY <1>3
  <2> QED
    BY <1>1, <1>3, <2>1 DEF AsGood
<1>4. ASSUME Len(w) = Len(u), NEW k \in 1 .. Len(w), NearerAt(side, w, u, k)
      PROVE  AsGood(side, Append(w, t), Append(u, t))
  <2>1. \A l \in 1 .. k : Append(w, t)[l] = w[l] /\ Append(u, t)[l] = u[l]
    BY <1>4
  <2>2. k \in 1 .. Len(Append(w, t))
    BY <1>1
  <2>3. NearerAt(side, Append(w, t), Append(u, t), k)
    BY <1>4, <2>1 DEF NearerAt
  <2> QED
    BY <1>1, <1>4, <2>2, <2>3 DEF AsGood
<1> QED
  BY <1>2, <1>3, <1>4 DEF AsGood

LEMMA ValuesType ==
  ASSUME NEW v \in Seq(Int), NEW p \in Seq(1 .. Len(v))
  PROVE  /\ ValuesAt(v, p) \in Seq(Int) /\ Len(ValuesAt(v, p)) = Len(p)
         /\ \A k \in 1 .. Len(p) : ValuesAt(v, p)[k] = v[p[k]]
<1>1. ValuesAt(v, p) \in [1 .. Len(p) -> Int]
  BY DEF ValuesAt
<1> QED
  BY <1>1 DEF ValuesAt

LEMMA ValuesAppend ==
  ASSUME NEW v \in Seq(Int), NEW p \in Seq(1 .. Len(v)), NEW i \in 1 .. Len(v)
  PROVE  ValuesAt(v, Append(p, i)) = Append(ValuesAt(v, p), v[i])
<1> DEFINE n == Len(p)
           a == ValuesAt(v, Append(p, i))
           b == Append(ValuesAt(v, p), v[i])
<1>1. /\ Append(p, i) \in Seq(1 .. Len(v)) /\ Len(Append(p, i)) = n + 1
      /\ \A k \in 1 .. n : Append(p, i)[k] = p[k]
      /\ Append(p, i)[n + 1] = i
      /\ n \in Nat /\ v[i] \in Int
  BY AppendProperties, LenProperties, ElementOfSeq
<1>2. /\ ValuesAt(v, p) \in Seq(Int) /\ Len(ValuesAt(v, p)) = n
      /\ \A k \in 1 .. n : ValuesAt(v, p)[k] = v[p[k]]
  BY ValuesType
<1>3. /\ a \in Seq(Int) /\ Len(a) = n + 1
      /\ \A k \in 1 .. n + 1 : a[k] = v[Append(p, i)[k]]
  BY <1>1, ValuesType
<1>4. /\ b \in Seq(Int) /\ Len(b) = n + 1
      /\ \A k \in 1 .. n : b[k] = ValuesAt(v, p)[k]
      /\ b[n + 1] = v[i]
  BY <1>1, <1>2, AppendProperties
<1> HIDE DEF a, b
<1>5. ASSUME NEW k \in 1 .. n + 1
      PROVE  a[k] = b[k]
  <2>1. CASE k = n + 1
    BY <1>1, <1>3, <1>4, <2>1
  <2>2. CASE k \in 1 .. n
    BY <1>1, <1>2, <1>3, <1>4, <2>2
  <2> QED
    BY <1>1, <2>1, <2>2
<1>6. a = b
  BY <1>3, <1>4, <1>5, SeqEqual
<1> QED
  BY <1>6 DEF a, b

\* Of two paths the search keeps the one whose values are as good as both.
LEMMA BetterIsAsGood ==
  ASSUME NEW side, NEW v \in Seq(Int), NEW p \in Seq(1 .. Len(v)), NEW q \in Seq(1 .. Len(v))
  PROVE  /\ Better(side, v, p, q) \in {p, q}
         /\ AsGood(side, ValuesAt(v, Better(side, v, p, q)), ValuesAt(v, p))
         /\ AsGood(side, ValuesAt(v, Better(side, v, p, q)), ValuesAt(v, q))
<1>0. PICK w, u : w = ValuesAt(v, p) /\ u = ValuesAt(v, q)
  OBVIOUS
<1>1. /\ w \in Seq(Int) /\ Len(w) = Len(p) /\ \A k \in 1 .. Len(p) : w[k] = v[p[k]]
      /\ u \in Seq(Int) /\ Len(u) = Len(q) /\ \A k \in 1 .. Len(q) : u[k] = v[q[k]]
  BY <1>0, ValuesType
<1>2. DOMAIN p = 1 .. Len(p) /\ Len(p) \in Nat /\ Len(q) \in Nat
  OBVIOUS
<1>3. AsGood(side, w, w) /\ AsGood(side, u, u)
  BY DEF AsGood
<1>4. CASE Preferred(side, v, p, q)
  <2>1. AsGood(side, w, u)
    <3>1. CASE Len(p) > Len(q)
      BY <1>1, <3>1 DEF AsGood
    <3>2. CASE Len(p) = Len(q) /\ w = u
      BY <1>1, <3>2 DEF AsGood
    <3>3. CASE Len(p) = Len(q) /\ w # u
      <4>1. FirstDifferenceIn({k \in DOMAIN p : Beyond(side, v[p[k]], v[q[k]])}, w, u)
        BY <1>0, <1>4, <3>3, <1>2 DEF Preferred
      <4>2. PICK k \in 1 .. Len(p) : /\ Beyond(side, v[p[k]], v[q[k]])
                                     /\ \A l \in 1 .. k - 1 : w[l] = u[l]
        BY <4>1, <1>2 DEF FirstDifferenceIn
      <4>3. NearerAt(side, w, u, k)
        BY <4>2, <1>1, <3>3 DEF NearerAt
      <4> QED
        BY <4>3, <1>1, <3>3 DEF AsGood
    <3> QED
      BY <1>2, <3>1, <3>2, <3>3, <1>4 DEF Preferred
  <2> QED
    BY <1>0, <1>3, <1>4, <2>1 DEF Better
<1>5. CASE ~ Preferred(side, v, p, q)
  <2>1. AsGood(side, u, w)
    <3>1. CASE Len(p) # Len(q)
      BY <1>1, <1>2, <1>5, <3>1 DEF AsGood, Preferred
    <3>2. CASE Len(p) = Len(q) /\ \A k \in 1 .. Len(p) : w[k] = u[k]
      BY <1>1, <3>2 DEF AsGood
    <3>3. CASE Len(p) = Len(q) /\ ~ \A k \in 1 .. Len(p) : w[k] = u[k]
      <4> DEFINE D == {k \in 1 .. Len(p) : w[k] # u[k]}
      <4>0. PICK d \in 1 .. Len(p) : w[d] # u[d]
        BY <3>3
      <4>1. D \subseteq Nat /\ d \in D
        BY <1>2, <4>0
      <4> HIDE DEF D
      <4>2. PICK k \in D : \A l \in D : k <= l
        BY <4>1, LeastExists
      <4>3. k \in 1 .. Len(p) /\ w[k] # u[k] /\ k \in Nat
        BY <1>2 DEF D
      <4>4. \A l \in 1 .. k - 1 : w[l] = u[l]
        BY <4>2, <4>3, <1>2 DEF D
      <4>5. w # u
        BY <4>3
      <4>6. ~ Beyond(side, v[p[k]], v[q[k]])
        BY <1>0, <4>3, <4>4, <4>5, <1>2, <1>5, <3>3 DEF Preferred, FirstDifferenceIn
      <4>7. w[k] \in Int /\ u[k] \in Int /\ w[k] = v[p[k]] /\ u[k] = v[q[k]]
        BY <4>3, <1>1, <3>3, ElementOfSeq
      <4>8. Beyond(side, u[k], w[k])
        BY <4>3, <4>6, <4>7, BeyondIsTotal
      <4>9. NearerAt(side, u, w, k)
        BY <4>4, <4>8 DEF NearerAt
      <4> QED
        BY <4>3, <4>9, <1>1, <3>3 DEF AsGood
    <3> QED
      BY <3>1, <3>2, <3>3
  <2> QED
    BY <1>0, <1>3, <1>5, <2>1 DEF Better
<1> QED
  BY <1>4, <1>5

-----------------------------------------------------------------------------
(* The search for the best path.                                            *)

\* The value at b can follow that at a.
Follows(side, v, a, b) == a < b /\ Beyond(side, v[a], v[b])

\* Indices that rise, of values each beyond the one before.
IsPath(side, v, p) ==
  /\ p \in Seq(1 .. Len(v)) /\ Len(p) >= 1
  /\ \A k \in 1 .. Len(p) - 1 : Follows(side, v, p[k], p[k + 1])

\* p is a path to i, and as good as any other.
BestTo(side, v, p, i) ==
  /\ IsPath(side, v, p) /\ p[Len(p)] = i
  /\ \A q : IsPath(side, v, q) /\ q[Len(q)] = i =>
       AsGood(side, ValuesAt(v, p), ValuesAt(v, q))

LEMMA PathOfOne ==
  ASSUME NEW side, NEW v \in Seq(Int), NEW i \in 1 .. Len(v)
  PROVE  IsPath(side, v, <<i>>) /\ <<i>>[Len(<<i>>)] = i
<1>1. <<i>> \in Seq(1 .. Len(v)) /\ Len(<<i>>) = 1 /\ <<i>>[1] = i
  OBVIOUS
<1> QED
  BY <1>1 DEF IsPath

LEMMA PathExtends ==
  ASSUME NEW side, NEW v \in Seq(Int), NEW p, IsPath(side, v, p),
         NEW i \in 1 .. Len(v), Follows(side, v, p[Len(p)], i)
  PROVE  IsPath(side, v, Append(p, i)) /\ Append(p, i)[Len(Append(p, i))] = i
<1>0. PICK n, a : n = Len(p) /\ a = Append(p, i)
  OBVIOUS
<1>1. p \in Seq(1 .. Len(v)) /\ n \in Nat /\ n >= 1
  BY <1>0 DEF IsPath
<1>2. /\ a \in Seq(1 .. Len(v)) /\ Len(a) = n + 1
      /\ \A k \in 1 .. n : a[k] = p[k]
      /\ a[n + 1] = i
  BY <1>0, <1>1, AppendProperties
<1>3. ASSUME NEW k \in 1 .. n
      PROVE  Follows(side, v, a[k], a[k + 1])
  <2>1. CASE k = n
    BY <1>0, <1>2, <2>1
  <2>2. CASE k \in 1 .. n - 1
    <3>1. k + 1 \in 1 .. n
      BY <1>1, <2>2
    <3>2. Follows(side, v, p[k], p[k + 1])
      BY <1>0, <2>2 DEF IsPath
    <3> QED
      BY <1>2, <3>1, <3>2
  <2> QED
    BY <1>1, <2>1, <2>2
<1>4. Len(a) - 1 = n /\ Len(a) >= 1
  BY <1>1, <1>2
<1> QED
  BY <1>0, <1>2, <1>3, <1>4 DEF IsPath

\* A path without its last index.
LEMMA PathShortens ==
  ASSUME NEW side, NEW v \in Seq(Int), NEW q, IsPath(side, v, q), Len(q) > 1
  PROVE  \E p : /\ IsPath(side, v, p) /\ q = Append(p, q[Len(q)])
                /\ Follows(side, v, p[Len(p)], q[Len(q)])
<1>0. PICK m : m = Len(q) - 1
  OBVIOUS
<1>1. q \in Seq(1 .. Len(v)) /\ Len(q) = m + 1 /\ m \in Nat /\ m >= 1
  BY <1>0 DEF IsPath
<1>2. \A k \in 1 .. m + 1 : q[k] \in 1 .. Len(v)
  BY <1>1, ElementOfSeq
<1>3. PICK p : p = [k \in 1 .. m |-> q[k]]
  OBVIOUS
<1>4. p \in Seq(1 .. Len(v)) /\ Len(p) = m /\ \A k \in 1 .. m : p[k] = q[k]
  BY <1>1, <1>2, <1>3
<1>5. \A k \in 1 .. m : Follows(side, v, q[k], q[k + 1])
  BY <1>1 DEF IsPath
<1>6. \A k \in 1 .. m - 1 : Follows(side, v, p[k], p[k + 1])
  <2> TAKE k \in 1 .. m - 1
  <2>1. k \in 1 .. m /\ k + 1 \in 1 .. m
    BY <1>1
  <2> QED
    BY <1>4, <1>5, <2>1
<1>7. IsPath(side, v, p)
  BY <1>1, <1>4, <1>6 DEF IsPath
<1>8. Follows(side, v, p[m], q[m + 1])
  BY <1>1, <1>4, <1>5
<1>9. q = Append(p, q[m + 1])
  <2>0. PICK a : a = Append(p, q[m + 1])
    OBVIOUS
  <2>1. /\ a \in Seq(1 .. Len(v)) /\ Len(a) = m + 1
        /\ \A k \in 1 .. m : a[k] = p[k]
        /\ a[m + 1] = q[m + 1]
    BY <1>1, <1>2, <1>4, <2>0, AppendProperties
  <2>2. \A k \in 1 .. m + 1 : a[k] = q[k]
    <3> TAKE k \in 1 .. m + 1
    <3>1. k = m + 1 \/ k \in 1 .. m
      BY <1>1
    <3> QED
      BY <1>4, <2>1, <3>1
  <2>3. a = q
    BY <1>1, <2>1, <2>2, SeqEqual
  <2> QED
    BY <2>0, <2>3
<1> QED
  BY <1>1, <1>4, <1>7, <1>8, <1>9

\* What PathTo adds to the best paths to the values before i.
LEMMA PathToIsBest ==
  ASSUME NEW side, NEW v \in Seq(Int), NEW i \in 1 .. Len(v), NEW paths,
         \A j \in 1 .. i - 1 : BestTo(side, v, paths[j], j)
  PROVE  BestTo(side, v, PathTo(side, v, paths, i), i)
<1> DEFINE n == i - 1
           T == Seq(1 .. Len(v))
           F == [j \in 1 .. n |-> [q \in T |->
                  IF Beyond(side, v[j], v[i])
                  THEN Better(side, v, Append(paths[j], i), q) ELSE q]]
<1>0. n \in Nat /\ Len(v) \in Nat /\ n + 1 = i /\ \A j \in 1 .. n : j \in 1 .. Len(v) /\ j < i
  OBVIOUS
<1>1. \A j \in 1 .. n : paths[j] \in T /\ Append(paths[j], i) \in T
  BY AppendProperties DEF BestTo, IsPath
<1>2. F \in [1 .. n -> [T -> T]]
  <2>1. ASSUME NEW j \in 1 .. n, NEW q \in T
        PROVE  (IF Beyond(side, v[j], v[i])
                THEN Better(side, v, Append(paths[j], i), q) ELSE q) \in T
    <3>1. Better(side, v, Append(paths[j], i), q) \in {Append(paths[j], i), q}
      BY <1>1, BetterIsAsGood
    <3> QED
      BY <1>1, <3>1
  <2> QED
    BY <2>1
<1>3. <<i>> \in T
  OBVIOUS
<1> HIDE DEF T, n
<1>4. PICK s : Loop(n, T, <<i>>, F, s)
  BY <1>0, <1>2, <1>3, LoopExists
<1>5. s = [j \in 0 .. n |->
            IF j = 0 THEN <<i>>
            ELSE IF Beyond(side, v[j], v[i])
              THEN Better(side, v, Append(paths[j], i), s[j - 1])
            ELSE s[j - 1]]
  <2>1. \A j \in 1 .. n : s[j - 1] \in T /\ s[j] = F[j][s[j - 1]]
    <3>1. \A j \in 1 .. n : j - 1 \in 0 .. n
      BY <1>0
    <3> QED
      BY <1>4, <3>1 DEF Loop
  <2>2. \A j \in 1 .. n : s[j] = IF Beyond(side, v[j], v[i])
              THEN Better(side, v, Append(paths[j], i), s[j - 1])
            ELSE s[j - 1]
    BY <2>1
  <2>3. s = [j \in 0 .. n |-> s[j]] /\ s[0] = <<i>>
    BY <1>4 DEF Loop
  <2>4. \A j \in 0 .. n : j = 0 \/ j \in 1 .. n
    BY <1>0
  <2> QED
    BY <2>2, <2>3, <2>4
<1> HIDE DEF F
<1>6. PICK t : /\ t = [j \in 0 .. n |->
                   IF j = 0 THEN <<i>>
                   ELSE IF Beyond(side, v[j], v[i])
                     THEN Better(side, v, Append(paths[j], i), t[j - 1])
                   ELSE t[j - 1]]
               /\ PathTo(side, v, paths, i) = t[n]
  BY <1>5 DEF PathTo, n
<1>61. ASSUME NEW j \in 1 .. n
       PROVE  t[j] = IF Beyond(side, v[j], v[i])
                     THEN Better(side, v, Append(paths[j], i), t[j - 1])
                     ELSE t[j - 1]
  <2>1. j \in 0 .. n /\ j # 0
    BY <1>0
  <2> QED
    BY <1>6, <2>1
<1> DEFINE Val(p) == ValuesAt(v, p)
           Good == {j \in 0 .. n :
                     /\ IsPath(side, v, t[j]) /\ t[j][Len(t[j])] = i
                     /\ AsGood(side, Val(t[j]), Val(<<i>>))
                     /\ \A l \in 1 .. j : Beyond(side, v[l], v[i]) =>
                          AsGood(side, Val(t[j]), Val(Append(paths[l], i)))}
<1>7. 0 \in Good
  BY <1>0, <1>6, PathOfOne DEF AsGood
<1>8. ASSUME NEW j \in 1 .. n, j - 1 \in Good
      PROVE  j \in Good
  <2>1. /\ t[j - 1] \in T /\ Append(paths[j], i) \in T
        /\ AsGood(side, Val(t[j - 1]), Val(<<i>>))
        /\ \A l \in 1 .. j - 1 : Beyond(side, v[l], v[i]) =>
             AsGood(side, Val(t[j - 1]), Val(Append(paths[l], i)))
    BY <1>1, <1>8 DEF IsPath, T
  <2>2. ASSUME AsGood(side, Val(t[j]), Val(t[j - 1])), t[j] \in T,
               Beyond(side, v[j], v[i]) => AsGood(side, Val(t[j]), Val(Append(paths[j], i)))
        PROVE  /\ AsGood(side, Val(t[j]), Val(<<i>>))
               /\ \A l \in 1 .. j : Beyond(side, v[l], v[i]) =>
                    AsGood(side, Val(t[j]), Val(Append(paths[l], i)))
    <3>1. /\ Val(t[j]) \in Seq(Int) /\ Val(t[j - 1]) \in Seq(Int) /\ Val(<<i>>) \in Seq(Int)
          /\ \A l \in 1 .. n : Val(Append(paths[l], i)) \in Seq(Int)
      BY <1>1, <1>3, <2>1, <2>2, ValuesType DEF T
    <3>2. AsGood(side, Val(t[j]), Val(<<i>>))
      BY <2>1, <2>2, <3>1, AsGoodTransitive
    <3>3. ASSUME NEW l \in 1 .. j, Beyond(side, v[l], v[i])
          PROVE  AsGood(side, Val(t[j]), Val(Append(paths[l], i)))
      <4>1. CASE l = j
        BY <2>2, <3>3, <4>1
      <4>2. CASE l \in 1 .. j - 1
        <5>1. AsGood(side, Val(t[j - 1]), Val(Append(paths[l], i))) /\ l \in 1 .. n
          BY <1>0, <2>1, <3>3, <4>2
        <5> QED
          BY <2>2, <3>1, <5>1, AsGoodTransitive
      <4> QED
        BY <1>0, <4>1, <4>2
    <3> QED
      BY <3>2, <3>3
  <2>3. CASE Beyond(side, v[j], v[i])
    <3>1. t[j] = Better(side, v, Append(paths[j], i), t[j - 1])
      BY <1>61, <2>3
    <3>2. /\ t[j] \in {Append(paths[j], i), t[j - 1]}
          /\ AsGood(side, Val(t[j]), Val(Append(paths[j], i)))
          /\ AsGood(side, Val(t[j]), Val(t[j - 1]))
      BY <2>1, <3>1, BetterIsAsGood DEF T
    <3>3. IsPath(side, v, Append(paths[j], i))
          /\ Append(paths[j], i)[Len(Append(paths[j], i))] = i
      <4>1. IsPath(side, v, paths[j]) /\ paths[j][Len(paths[j])] = j
        BY DEF BestTo, n
      <4>2. Follows(side, v, paths[j][Len(paths[j])], i)
        BY <1>0, <2>3, <4>1 DEF Follows
      <4> QED
        BY <4>1, <4>2, PathExtends
    <3>4. IsPath(side, v, t[j]) /\ t[j][Len(t[j])] = i
      BY <1>8, <3>2, <3>3
    <3>5. t[j] \in T
      BY <2>1, <3>2
    <3>6. /\ AsGood(side, Val(t[j]), Val(<<i>>))
          /\ \A l \in 1 .. j : Beyond(side, v[l], v[i]) =>
               AsGood(side, Val(t[j]), Val(Append(paths[l], i)))
      BY <2>2, <3>2, <3>5
    <3> QED
      BY <1>0, <3>4, <3>6
  <2>4. CASE ~ Beyond(side, v[j], v[i])
    <3>1. t[j] = t[j - 1]
      BY <1>61, <2>4
    <3>2. AsGood(side, Val(t[j]), Val(t[j - 1]))
      BY <3>1 DEF AsGood
    <3> QED
      BY <1>8, <2>1, <2>2, <2>4, <3>1, <3>2
  <2> QED
    BY <2>3, <2>4
<1> HIDE DEF Good
<1>9. \A j \in 0 .. n : j \in Good
  BY <1>0, <1>7, <1>8, Upto
<1>10. PICK b : b = PathTo(side, v, paths, i)
  OBVIOUS
<1>11. /\ IsPath(side, v, b) /\ b[Len(b)] = i
       /\ AsGood(side, Val(b), Val(<<i>>))
       /\ \A l \in 1 .. n : Beyond(side, v[l], v[i]) =>
            AsGood(side, Val(b), Val(Append(paths[l], i)))
  BY <1>0, <1>6, <1>9, <1>10 DEF Good
<1>12. ASSUME NEW q, IsPath(side, v, q), q[Len(q)] = i
       PROVE  AsGood(side, Val(b), Val(q))
  <2>0. q \in Seq(1 .. Len(v)) /\ Len(q) \in Nat /\ Len(q) >= 1 /\ b \in T
    BY <1>11, <1>12 DEF IsPath, T
  <2>3. Val(b) \in Seq(Int) /\ Val(q) \in Seq(Int)
    BY <2>0, ValuesType DEF T
  <2>1. CASE Len(q) = 1
    <3>1. q = <<i>>
      BY <1>12, <2>0, <2>1
    <3> QED
      BY <1>11, <3>1
  <2>2. CASE Len(q) > 1
    <3>1. PICK p : /\ IsPath(side, v, p) /\ q = Append(p, i)
                   /\ Follows(side, v, p[Len(p)], i)
      BY <1>12, <2>2, PathShortens
    <3>2. PICK l : l = p[Len(p)]
      OBVIOUS
    <3>3. l \in 1 .. n /\ p \in T /\ Beyond(side, v[l], v[i])
      <4>1. p \in Seq(1 .. Len(v)) /\ Len(p) \in 1 .. Len(p)
        BY <3>1 DEF IsPath
      <4>2. l \in 1 .. Len(v) /\ l < i /\ Beyond(side, v[l], v[i])
        BY <3>1, <3>2, <4>1, ElementOfSeq DEF Follows
      <4> QED
        BY <1>0, <4>1, <4>2 DEF T
    <3>4. AsGood(side, Val(paths[l]), Val(p))
      BY <3>1, <3>2, <3>3 DEF BestTo, n
    <3>5. /\ Val(paths[l]) \in Seq(Int) /\ Val(p) \in Seq(Int) /\ v[i] \in Int
          /\ Val(Append(paths[l], i)) = Append(Val(paths[l]), v[i])
          /\ Val(q) = Append(Val(p), v[i])
      BY <1>1, <3>1, <3>3, ValuesType, ValuesAppend, ElementOfSeq DEF T
    <3>6. AsGood(side, Val(Append(paths[l], i)), Val(q))
      BY <3>4, <3>5, AsGoodAppend
    <3>7. AsGood(side, Val(b), Val(Append(paths[l], i)))
      BY <1>11, <3>1, <3>2, <3>3
    <3>8. Val(b) \in Seq(Int) /\ Val(Append(paths[l], i)) \in Seq(Int) /\ Val(q) \in Seq(Int)
      BY <1>1, <2>0, <3>3, ValuesType DEF T
    <3> QED
      BY <3>6, <3>7, <3>8, AsGoodTransitive
  <2>4. Len(q) = 1 \/ Len(q) > 1
    <3>1. \A m \in Nat : m >= 1 => m = 1 \/ m > 1
      OBVIOUS
    <3> QED
      BY <2>0, <3>1
  <2> QED
    BY <2>1, <2>2, <2>4
<1> QED
  BY <1>10, <1>11, <1>12 DEF BestTo

\* The best paths to the first k values.
BestUpTo(side, v, paths, k) ==
  /\ paths \in Seq(Seq(1 .. Len(v))) /\ Len(paths) = k
  /\ \A j \in 1 .. k : BestTo(side, v, paths[j], j)

LEMMA OneMorePath ==
  ASSUME NEW side, NEW v \in Seq(Int), NEW k \in 1 .. Len(v), NEW paths,
         BestUpTo(side, v, paths, k - 1)
  PROVE  BestUpTo(side, v, Append(paths, PathTo(side, v, paths, k)), k)
<1>0. PICK p, a : p = PathTo(side, v, paths, k) /\ a = Append(paths, p)
  OBVIOUS
<1>1. BestTo(side, v, p, k)
  BY <1>0, PathToIsBest DEF BestUpTo
<1>2. p \in Seq(1 .. Len(v))
  BY <1>1 DEF BestTo, IsPath
<1>3. paths \in Seq(Seq(1 .. Len(v))) /\ Len(paths) = k - 1
  BY DEF BestUpTo
<1>4. /\ a \in Seq(Seq(1 .. Len(v))) /\ Len(a) = k - 1 + 1
      /\ \A j \in 1 .. k - 1 : a[j] = paths[j]
      /\ a[k - 1 + 1] = p
  BY <1>0, <1>2, <1>3, AppendProperties
<1>5. k - 1 + 1 = k /\ \A j \in 1 .. k : j = k \/ j \in 1 .. k - 1
  OBVIOUS
<1>6. \A j \in 1 .. k : BestTo(side, v, a[j], j)
  BY <1>1, <1>4, <1>5 DEF BestUpTo
<1> QED
  BY <1>0, <1>4, <1>5, <1>6 DEF BestUpTo

LEMMA PathsAreBest ==
  ASSUME NEW side, NEW v \in Seq(Int)
  PROVE  BestUpTo(side, v, PathsOf(side, v), Len(v))
<1> DEFINE n == Len(v)
           T == Seq(Seq(1 .. n))
           F == [k \in 1 .. n |-> [q \in T |->
                  IF BestUpTo(side, v, q, k - 1)
                  THEN Append(q, PathTo(side, v, q, k)) ELSE q]]
<1>0. n \in Nat /\ <<>> \in T
  OBVIOUS
<1>1. F \in [1 .. n -> [T -> T]]
  <2>1. ASSUME NEW k \in 1 .. n, NEW q \in T
        PROVE  (IF BestUpTo(side, v, q, k - 1)
                THEN Append(q, PathTo(side, v, q, k)) ELSE q) \in T
    BY OneMorePath DEF BestUpTo
  <2> QED
    BY <2>1
<1>2. BestUpTo(side, v, <<>>, 0)
  BY DEF BestUpTo
<1> HIDE DEF T
<1>3. PICK s : Loop(n, T, <<>>, F, s)
  BY <1>0, <1>1, LoopExists
<1>4. s[0] = <<>> /\ s = [k \in 0 .. n |-> s[k]]
  BY <1>3 DEF Loop
<1>5. ASSUME NEW k \in 1 .. n
      PROVE  s[k] = IF BestUpTo(side, v, s[k - 1], k - 1)
                    THEN Append(s[k - 1], PathTo(side, v, s[k - 1], k)) ELSE s[k - 1]
  <2>1. s[k - 1] \in T /\ s[k] = F[k][s[k - 1]]
    <3>1. k - 1 \in 0 .. n
      BY <1>0
    <3> QED
      BY <1>3, <3>1 DEF Loop
  <2> QED
    BY <2>1
<1> HIDE DEF F, n
<1> DEFINE Good(t) == {k \in 0 .. n : BestUpTo(side, v, t[k], k)}
<1>6. ASSUME NEW t, t[0] = <<>>,
             \A k \in 1 .. n : BestUpTo(side, v, t[k - 1], k - 1) =>
               t[k] = Append(t[k - 1], PathTo(side, v, t[k - 1], k))
      PROVE  \A k \in 0 .. n : BestUpTo(side, v, t[k], k)
  <2>1. 0 \in Good(t)
    BY <1>0, <1>2, <1>6
  <2>2. ASSUME NEW k \in 1 .. n, k - 1 \in Good(t)
        PROVE  k \in Good(t)
    <3>1. BestUpTo(side, v, t[k - 1], k - 1)
      BY <2>2
    <3>2. BestUpTo(side, v, t[k], k)
      BY <1>6, <3>1, OneMorePath DEF n
    <3> QED
      BY <1>0, <3>2
  <2>3. \A k \in 0 .. n : k \in Good(t)
    <3> HIDE DEF Good
    <3> QED
      BY <1>0, <2>1, <2>2, Upto
  <2> QED
    BY <2>3
<1>7. \A k \in 1 .. n : s[k] = Append(s[k - 1], PathTo(side, v, s[k - 1], k))
  <2>1. \A k \in 0 .. n : BestUpTo(side, v, s[k], k)
    BY <1>4, <1>5, <1>6
  <2>2. \A k \in 1 .. n : k - 1 \in 0 .. n
    BY <1>0
  <2> QED
    BY <1>5, <2>1, <2>2
<1>8. s = [k \in 0 .. n |-> IF k = 0 THEN <<>>
             ELSE Append(s[k - 1], PathTo(side, v, s[k - 1], k))]
  <2>1. \A k \in 0 .. n : k = 0 \/ k \in 1 .. n
    BY <1>0
  <2> QED
    BY <1>4, <1>7, <2>1
<1>9. PICK t : /\ t = [k \in 0 .. n |-> IF k = 0 THEN <<>>
                         ELSE Append(t[k - 1], PathTo(side, v, t[k - 1], k))]
               /\ PathsOf(side, v) = t[n]
  BY <1>8 DEF PathsOf, n
<1>10. t[0] = <<>> /\ \A k \in 1 .. n : t[k] = Append(t[k - 1], PathTo(side, v, t[k - 1], k))
  <2>1. 0 \in 0 .. n /\ \A k \in 1 .. n : k \in 0 .. n /\ k # 0
    BY <1>0
  <2> QED
    BY <1>9, <2>1
<1>11. BestUpTo(side, v, t[n], n)
  <2>1. \A k \in 0 .. n : BestUpTo(side, v, t[k], k)
    BY <1>6, <1>10
  <2> QED
    BY <1>0, <2>1
<1> QED
  BY <1>9, <1>11 DEF n

\* The search finds a path as good as any.
LEMMA LongestPathIsBest ==
  ASSUME NEW side, NEW v \in Seq(Int), v # <<>>
  PROVE  /\ IsPath(side, v, LongestPath(side, v))
         /\ \A q : IsPath(side, v, q) =>
              AsGood(side, ValuesAt(v, LongestPath(side, v)), ValuesAt(v, q))
<1> DEFINE n == Len(v) - 1
           T == Seq(1 .. Len(v))
           Val(p) == ValuesAt(v, p)
<1>0. n \in Nat /\ Len(v) = n + 1
  OBVIOUS
<1>1. PICK paths : paths = PathsOf(side, v)
  OBVIOUS
<1>2. \A j \in 1 .. n + 1 : BestTo(side, v, paths[j], j) /\ paths[j] \in T
  <2>1. BestUpTo(side, v, paths, n + 1)
    BY <1>0, <1>1, PathsAreBest
  <2>2. \A j \in 1 .. n + 1 : BestTo(side, v, paths[j], j)
    BY <2>1 DEF BestUpTo
  <2> QED
    BY <2>2 DEF BestTo, IsPath
<1> DEFINE F == [k \in 1 .. n |-> [q \in T |-> Better(side, v, paths[k + 1], q)]]
<1>3. F \in [1 .. n -> [T -> T]]
  <2>1. ASSUME NEW k \in 1 .. n, NEW q \in T
        PROVE  Better(side, v, paths[k + 1], q) \in T
    <3>1. paths[k + 1] \in T
      BY <1>0, <1>2
    <3>2. Better(side, v, paths[k + 1], q) \in {paths[k + 1], q}
      BY <3>1, BetterIsAsGood
    <3> QED
      BY <3>1, <3>2
  <2> QED
    BY <2>1
<1>31. paths[1] \in T
  BY <1>0, <1>2
<1> HIDE DEF T, n
<1>4. PICK s : Loop(n, T, paths[1], F, s)
  BY <1>0, <1>3, <1>31, LoopExists
<1>5. s = [k \in 0 .. n |-> IF k = 0 THEN paths[1]
                            ELSE Better(side, v, paths[k + 1], s[k - 1])]
  <2>1. \A k \in 1 .. n : s[k - 1] \in T /\ s[k] = F[k][s[k - 1]]
    <3>1. \A k \in 1 .. n : k - 1 \in 0 .. n
      BY <1>0
    <3> QED
      BY <1>4, <3>1 DEF Loop
  <2>2. \A k \in 1 .. n : s[k] = Better(side, v, paths[k + 1], s[k - 1])
    BY <2>1
  <2>3. s = [k \in 0 .. n |-> s[k]] /\ s[0] = paths[1]
    BY <1>4 DEF Loop
  <2>4. \A k \in 0 .. n : k = 0 \/ k \in 1 .. n
    BY <1>0
  <2> QED
    BY <2>2, <2>3, <2>4
<1> HIDE DEF F
<1>6. PICK t : /\ t = [k \in 0 .. n |-> IF k = 0 THEN paths[1]
                         ELSE Better(side, v, paths[k + 1], t[k - 1])]
               /\ LongestPath(side, v) = t[n]
  BY <1>1, <1>5 DEF LongestPath, n
<1>7. t[0] = paths[1] /\ \A k \in 1 .. n : t[k] = Better(side, v, paths[k + 1], t[k - 1])
  <2>1. 0 \in 0 .. n /\ \A k \in 1 .. n : k \in 0 .. n /\ k # 0
    BY <1>0
  <2> QED
    BY <1>6, <2>1
<1> DEFINE Good == {k \in 0 .. n :
              /\ IsPath(side, v, t[k])
              /\ \A l \in 1 .. k + 1 : AsGood(side, Val(t[k]), Val(paths[l]))}
<1>8. 0 \in Good
  <2>1. IsPath(side, v, paths[1]) /\ AsGood(side, Val(paths[1]), Val(paths[1]))
    BY <1>0, <1>2 DEF BestTo, AsGood
  <2> QED
    BY <1>0, <1>7, <2>1
<1>9. ASSUME NEW k \in 1 .. n, k - 1 \in Good
      PROVE  k \in Good
  <2>1. k - 1 \in 0 .. n /\ k + 1 \in 1 .. n + 1 /\ k - 1 + 1 = k
    BY <1>0
  <2>2. IsPath(side, v, t[k - 1]) /\ \A l \in 1 .. k : AsGood(side, Val(t[k - 1]), Val(paths[l]))
    BY <1>9, <2>1
  <2>3. IsPath(side, v, paths[k + 1]) /\ paths[k + 1] \in T /\ t[k - 1] \in T
    BY <1>2, <2>1, <2>2 DEF BestTo, IsPath, T
  <2>4. /\ t[k] \in {paths[k + 1], t[k - 1]}
        /\ AsGood(side, Val(t[k]), Val(paths[k + 1]))
        /\ AsGood(side, Val(t[k]), Val(t[k - 1]))
    BY <1>7, <2>3, BetterIsAsGood DEF T
  <2>5. t[k] \in T
    BY <2>3, <2>4
  <2>6. ASSUME NEW l \in 1 .. k + 1
        PROVE  AsGood(side, Val(t[k]), Val(paths[l]))
    <3>1. CASE l = k + 1
      BY <2>4, <3>1
    <3>2. CASE l \in 1 .. k
      <4>1. paths[l] \in T
        BY <1>0, <1>2, <3>2
      <4>2. Val(t[k]) \in Seq(Int) /\ Val(t[k - 1]) \in Seq(Int) /\ Val(paths[l]) \in Seq(Int)
        BY <2>3, <2>5, <4>1, ValuesType DEF T
      <4> QED
        BY <2>2, <2>4, <3>2, <4>2, AsGoodTransitive
    <3>3. l = k + 1 \/ l \in 1 .. k
      BY <1>0
    <3> QED
      BY <3>1, <3>2, <3>3
  <2>7. IsPath(side, v, t[k])
    BY <2>2, <2>3, <2>4
  <2> QED
    BY <1>0, <2>6, <2>7
<1> HIDE DEF Good
<1>10. \A k \in 0 .. n : k \in Good
  BY <1>0, <1>8, <1>9, Upto
<1>11. PICK b : b = LongestPath(side, v)
  OBVIOUS
<1>12. IsPath(side, v, b) /\ \A l \in 1 .. n + 1 : AsGood(side, Val(b), Val(paths[l]))
  BY <1>0, <1>6, <1>10, <1>11 DEF Good
<1>13. ASSUME NEW q, IsPath(side, v, q)
       PROVE  AsGood(side, Val(b), Val(q))
  <2>1. PICK l : l = q[Len(q)]
    OBVIOUS
  <2>2. q \in T /\ b \in T /\ Len(q) \in 1 .. Len(q)
    BY <1>12, <1>13 DEF IsPath, T
  <2>3. l \in 1 .. n + 1
    BY <1>0, <2>1, <2>2, ElementOfSeq DEF T
  <2>4. AsGood(side, Val(paths[l]), Val(q)) /\ paths[l] \in T
    BY <1>2, <1>13, <2>1, <2>3 DEF BestTo
  <2>5. Val(b) \in Seq(Int) /\ Val(paths[l]) \in Seq(Int) /\ Val(q) \in Seq(Int)
    BY <2>2, <2>4, ValuesType DEF T
  <2> QED
    BY <1>12, <2>3, <2>4, <2>5, AsGoodTransitive
<1> QED
  BY <1>11, <1>12, <1>13

-----------------------------------------------------------------------------
(* The targets on the profitable side.                                      *)

\* kept is what is beyond the entry among the first n targets, in their order:
\* e says which they are.
Keeps(side, entry, ts, n, kept, e) ==
  /\ kept \in Seq(Int) /\ e \in Seq(1 .. n) /\ Len(e) = Len(kept)
  /\ \A i \in 1 .. Len(e), j \in 1 .. Len(e) : i < j => e[i] < e[j]
  /\ \A j \in 1 .. Len(e) : kept[j] = ts[e[j]] /\ Beyond(side, entry, kept[j])
  /\ \A i \in 1 .. n : Beyond(side, entry, ts[i]) => \E j \in 1 .. Len(e) : e[j] = i

LEMMA KeepsOne ==
  ASSUME NEW side, NEW entry, NEW ts \in Seq(Int), NEW n \in 1 .. Len(ts),
         NEW kept, NEW e, Keeps(side, entry, ts, n - 1, kept, e),
         Beyond(side, entry, ts[n])
  PROVE  Keeps(side, entry, ts, n, Append(kept, ts[n]), Append(e, n))
<1>0. PICK m, k, f : m = Len(e) /\ k = Append(kept, ts[n]) /\ f = Append(e, n)
  OBVIOUS
<1>1. /\ kept \in Seq(Int) /\ e \in Seq(1 .. n - 1) /\ Len(kept) = m /\ m \in Nat
      /\ \A j \in 1 .. m : e[j] \in 1 .. n - 1
  <2>1. kept \in Seq(Int) /\ e \in Seq(1 .. n - 1) /\ Len(kept) = m
    BY <1>0 DEF Keeps
  <2>2. m \in Nat /\ \A j \in 1 .. m : e[j] \in 1 .. n - 1
    BY <1>0, <2>1, ElementOfSeq, LenProperties
  <2> QED
    BY <2>1, <2>2
<1>2. ts[n] \in Int /\ e \in Seq(1 .. n)
  <2>1. e \in [1 .. m -> 1 .. n]
    BY <1>0, <1>1
  <2> QED
    BY <1>1, <2>1, ElementOfSeq
<1>3. /\ k \in Seq(Int) /\ Len(k) = m + 1 /\ k[m + 1] = ts[n]
      /\ \A j \in 1 .. m : k[j] = kept[j]
  BY <1>0, <1>1, <1>2, AppendProperties
<1>4. /\ f \in Seq(1 .. n) /\ Len(f) = m + 1 /\ f[m + 1] = n
      /\ \A j \in 1 .. m : f[j] = e[j]
  BY <1>0, <1>1, <1>2, AppendProperties
<1>5. \A j \in 1 .. m + 1 : j = m + 1 \/ j \in 1 .. m
  BY <1>1
<1>6. ASSUME NEW i \in 1 .. m + 1, NEW j \in 1 .. m + 1, i < j
      PROVE  f[i] < f[j]
  <2>1. i \in 1 .. m
    BY <1>1, <1>6
  <2>2. CASE j = m + 1
    BY <1>1, <1>4, <2>1, <2>2
  <2>3. CASE j \in 1 .. m
    BY <1>0, <1>4, <1>6, <2>1, <2>3 DEF Keeps
  <2> QED
    BY <1>5, <2>2, <2>3
<1>7. ASSUME NEW j \in 1 .. m + 1
      PROVE  k[j] = ts[f[j]] /\ Beyond(side, entry, k[j])
  <2>1. CASE j = m + 1
    BY <1>3, <1>4, <2>1
  <2>2. CASE j \in 1 .. m
    BY <1>0, <1>3, <1>4, <2>2 DEF Keeps
  <2> QED
    BY <1>5, <2>1, <2>2
<1>8. ASSUME NEW i \in 1 .. n, Beyond(side, entry, ts[i])
      PROVE  \E j \in 1 .. m + 1 : f[j] = i
  <2>1. CASE i = n
    <3>1. m + 1 \in 1 .. m + 1
      BY <1>1
    <3> QED
      BY <1>4, <2>1, <3>1
  <2>2. CASE i \in 1 .. n - 1
    <3>1. PICK j \in 1 .. m : e[j] = i
      BY <1>0, <1>8, <2>2 DEF Keeps
    <3>2. j \in 1 .. m + 1
      BY <1>1
    <3> QED
      BY <1>4, <3>1, <3>2
  <2> QED
    BY <2>1, <2>2
<1> QED
  BY <1>0, <1>3, <1>4, <1>6, <1>7, <1>8 DEF Keeps

LEMMA KeepsNot ==
  ASSUME NEW side, NEW entry, NEW ts \in Seq(Int), NEW n \in 1 .. Len(ts),
         NEW kept, NEW e, Keeps(side, entry, ts, n - 1, kept, e),
         ~ Beyond(side, entry, ts[n])
  PROVE  Keeps(side, entry, ts, n, kept, e)
<1>1. e \in Seq(1 .. n - 1) /\ \A j \in 1 .. Len(e) : e[j] \in 1 .. n - 1
  BY ElementOfSeq DEF Keeps
<1>2. e \in Seq(1 .. n)
  <2>1. e \in [1 .. Len(e) -> 1 .. n] /\ Len(e) \in Nat
    BY <1>1
  <2> QED
    BY <1>1, <2>1, ElementOfSeq
<1>3. \A i \in 1 .. n : i = n \/ i \in 1 .. n - 1
  OBVIOUS
<1> QED
  BY <1>2, <1>3 DEF Keeps

LEMMA ProfitableSideKeeps ==
  ASSUME NEW side, NEW entry, NEW ts \in Seq(Int)
  PROVE  \E e : Keeps(side, entry, ts, Len(ts), OnProfitableSide(side, entry, ts), e)
<1> DEFINE n == Len(ts)
           T == Seq(Int)
           F == [i \in 1 .. n |-> [q \in T |->
                  IF Beyond(side, entry, ts[i]) THEN Append(q, ts[i]) ELSE q]]
<1>0. n \in Nat /\ <<>> \in T /\ \A i \in 1 .. n : ts[i] \in Int
  BY ElementOfSeq
<1>1. F \in [1 .. n -> [T -> T]]
  BY <1>0
<1> HIDE DEF T
<1>2. PICK s : Loop(n, T, <<>>, F, s)
  BY <1>0, <1>1, LoopExists
<1>3. s = [i \in 0 .. n |-> IF i = 0 THEN <<>>
             ELSE IF Beyond(side, entry, ts[i]) THEN Append(s[i - 1], ts[i])
             ELSE s[i - 1]]
  <2>1. \A i \in 1 .. n : s[i - 1] \in T /\ s[i] = F[i][s[i - 1]]
    <3>1. \A i \in 1 .. n : i - 1 \in 0 .. n
      BY <1>0
    <3> QED
      BY <1>2, <3>1 DEF Loop
  <2>2. \A i \in 1 .. n : s[i] = IF Beyond(side, entry, ts[i]) THEN Append(s[i - 1], ts[i])
                                 ELSE s[i - 1]
    BY <2>1
  <2>3. s = [i \in 0 .. n |-> s[i]] /\ s[0] = <<>>
    BY <1>2 DEF Loop
  <2>4. \A i \in 0 .. n : i = 0 \/ i \in 1 .. n
    BY <1>0
  <2> QED
    BY <2>2, <2>3, <2>4
<1> HIDE DEF F, n
<1>4. PICK t : /\ t = [i \in 0 .. n |-> IF i = 0 THEN <<>>
                    ELSE IF Beyond(side, entry, ts[i]) THEN Append(t[i - 1], ts[i])
                    ELSE t[i - 1]]
               /\ OnProfitableSide(side, entry, ts) = t[n]
  BY <1>3 DEF OnProfitableSide, n
<1>5. /\ t[0] = <<>>
      /\ \A i \in 1 .. n : t[i] = IF Beyond(side, entry, ts[i]) THEN Append(t[i - 1], ts[i])
                                  ELSE t[i - 1]
  <2>1. 0 \in 0 .. n /\ \A i \in 1 .. n : i \in 0 .. n /\ i # 0
    BY <1>0
  <2> QED
    BY <1>4, <2>1
<1> DEFINE Good == {i \in 0 .. n : \E e : Keeps(side, entry, ts, i, t[i], e)}
<1>6. 0 \in Good
  <2>1. Keeps(side, entry, ts, 0, <<>>, <<>>)
    BY DEF Keeps
  <2> QED
    BY <1>0, <1>5, <2>1
<1>7. ASSUME NEW i \in 1 .. n, i - 1 \in Good
      PROVE  i \in Good
  <2>1. PICK e : Keeps(side, entry, ts, i - 1, t[i - 1], e)
    BY <1>7
  <2>2. CASE Beyond(side, entry, ts[i])
    <3>1. Keeps(side, entry, ts, i, t[i], Append(e, i))
      BY <1>5, <2>1, <2>2, KeepsOne DEF n
    <3> QED
      BY <1>0, <3>1
  <2>3. CASE ~ Beyond(side, entry, ts[i])
    <3>1. Keeps(side, entry, ts, i, t[i], e)
      BY <1>5, <2>1, <2>3, KeepsNot DEF n
    <3> QED
      BY <1>0, <3>1
  <2> QED
    BY <2>2, <2>3
<1> HIDE DEF Good
<1>8. \A i \in 0 .. n : i \in Good
  BY <1>0, <1>6, <1>7, Upto
<1>9. n \in Good
  BY <1>0, <1>8
<1> QED
  BY <1>4, <1>9 DEF Good, n

-----------------------------------------------------------------------------
(* The targets left by the sanitizer are the best.                          *)

LEMMA FunctionIsSeq ==
  ASSUME NEW S, NEW n \in Nat, NEW f \in [1 .. n -> S]
  PROVE  f \in Seq(S) /\ Len(f) = n
OBVIOUS

LEMMA RisingFits ==
  ASSUME NEW n \in Nat, NEW p \in Seq(1 .. n),
         \A k \in 1 .. Len(p) - 1 : p[k] < p[k + 1]
  PROVE  Len(p) <= n
<1>0. PICK m : m = Len(p)
  OBVIOUS
<1>1. m \in Nat /\ \A k \in 1 .. m : p[k] \in 1 .. n
  BY <1>0, ElementOfSeq
<1> DEFINE Good == {k \in 0 .. m : k = 0 \/ p[k] >= k}
<1>2. 0 \in Good
  BY <1>1
<1>3. ASSUME NEW k \in 1 .. m, k - 1 \in Good
      PROVE  k \in Good
  <2>1. CASE k = 1
    BY <1>1, <2>1
  <2>2. CASE k # 1
    <3>1. k - 1 \in 1 .. m - 1 /\ k - 1 + 1 = k /\ k - 1 \in 1 .. m
      BY <1>1, <2>2
    <3>2. p[k - 1] < p[k - 1 + 1]
      BY <1>0, <3>1
    <3>3. p[k - 1] < p[k] /\ p[k - 1] >= k - 1
      BY <1>3, <3>1, <3>2
    <3> QED
      BY <1>1, <3>1, <3>3
  <2> QED
    BY <2>1, <2>2
<1> HIDE DEF Good
<1>4. \A k \in 0 .. m : k \in Good
  BY <1>1, <1>2, <1>3, Upto
<1>5. m \in Good
  BY <1>1, <1>4
<1> QED
  BY <1>0, <1>1, <1>5 DEF Good

LEMMA ImprovingIsBeyond ==
  ASSUME NEW side, NEW entry \in Int, NEW w \in Seq(Int), Improving(side, entry, w)
  PROVE  \A k \in 1 .. Len(w) : Beyond(side, entry, w[k])
<1>0. PICK m : m = Len(w)
  OBVIOUS
<1>1. m \in Nat /\ \A k \in 1 .. m : w[k] \in Int
  BY <1>0, ElementOfSeq
<1>2. \A k \in 1 .. m : Beyond(side, IF k = 1 THEN entry ELSE w[k - 1], w[k])
  <2>1. DOMAIN w = 1 .. m
    BY <1>0
  <2> QED
    BY <2>1 DEF Improving
<1> DEFINE Good == {k \in 0 .. m : k = 0 \/ Beyond(side, entry, w[k])}
<1>3. 0 \in Good
  BY <1>1
<1>4. ASSUME NEW k \in 1 .. m, k - 1 \in Good
      PROVE  k \in Good
  <2>1. CASE k = 1
    BY <1>1, <1>2, <2>1
  <2>2. CASE k # 1
    <3>1. k - 1 \in 1 .. m
      BY <1>1, <2>2
    <3>2. Beyond(side, w[k - 1], w[k]) /\ Beyond(side, entry, w[k - 1])
      BY <1>2, <1>4, <2>2, <3>1
    <3>3. Beyond(side, entry, w[k])
      BY <1>1, <3>1, <3>2, BeyondTransitive
    <3> QED
      BY <1>1, <3>3
  <2> QED
    BY <2>1, <2>2
<1> HIDE DEF Good
<1>5. \A k \in 0 .. m : k \in Good
  BY <1>1, <1>3, <1>4, Upto
<1>6. \A k \in 1 .. m : k \in 0 .. m /\ k # 0
  BY <1>1
<1> QED
  BY <1>0, <1>5, <1>6 DEF Good

\* What a way is, index by index.
LEMMA WayIsRising ==
  ASSUME NEW side, NEW entry, NEW v \in Seq(Int), NEW w
  PROVE  w \in Ways(side, entry, v) <=>
           \E p \in Seq(1 .. Len(v)) :
             /\ Len(p) \in 1 .. Len(v)
             /\ \A k \in 1 .. Len(p) - 1 : p[k] < p[k + 1]
             /\ w = ValuesAt(v, p) /\ Improving(side, entry, w)
<1> DEFINE P(m) == {q \in [1 .. m -> DOMAIN v] : \A k \in 2 .. m : q[k - 1] < q[k]}
<1>0. DOMAIN v = 1 .. Len(v) /\ Len(v) \in Nat
  OBVIOUS
<1>1. w \in Ways(side, entry, v) <=>
        \E m \in DOMAIN v : \E p \in P(m) : w = ValuesAt(v, p) /\ Improving(side, entry, w)
  BY DEF Ways
<1>2. ASSUME NEW m \in DOMAIN v, NEW p \in P(m)
      PROVE  /\ p \in Seq(1 .. Len(v)) /\ Len(p) = m
             /\ \A k \in 1 .. Len(p) - 1 : p[k] < p[k + 1]
  <2>1. p \in Seq(1 .. Len(v)) /\ Len(p) = m
    <3>1. p \in [1 .. m -> 1 .. Len(v)] /\ m \in Nat
      BY <1>0
    <3> QED
      BY <3>1, FunctionIsSeq
  <2>2. ASSUME NEW k \in 1 .. m - 1
        PROVE  p[k] < p[k + 1]
    <3>1. k + 1 \in 2 .. m /\ k + 1 - 1 = k
      BY <1>0
    <3>2. p[k + 1 - 1] < p[k + 1]
      BY <3>1
    <3> QED
      BY <3>1, <3>2
  <2> QED
    BY <2>1, <2>2
<1>3. ASSUME NEW p \in Seq(1 .. Len(v)), Len(p) \in 1 .. Len(v),
             \A k \in 1 .. Len(p) - 1 : p[k] < p[k + 1]
      PROVE  Len(p) \in DOMAIN v /\ p \in P(Len(p))
  <2>1. p \in [1 .. Len(p) -> DOMAIN v]
    BY <1>0
  <2>2. ASSUME NEW k \in 2 .. Len(p)
        PROVE  p[k - 1] < p[k]
    <3>1. k - 1 \in 1 .. Len(p) - 1 /\ k - 1 + 1 = k
      BY <1>3
    <3>2. p[k - 1] < p[k - 1 + 1]
      BY <1>3, <3>1
    <3> QED
      BY <3>1, <3>2
  <2> QED
    BY <1>0, <1>3, <2>1, <2>2
<1> HIDE DEF P
<1> QED
  BY <1>0, <1>1, <1>2, <1>3

LEMMA WayIsPath ==
  ASSUME NEW side, NEW entry \in Int, NEW ts \in Seq(Int), NEW kept, NEW e,
         Keeps(side, entry, ts, Len(ts), kept, e), NEW w \in Ways(side, entry, ts)
  PROVE  w \in Seq(Int) /\ \E q : IsPath(side, kept, q) /\ w = ValuesAt(kept, q)
<1>1. PICK p \in Seq(1 .. Len(ts)) :
        /\ Len(p) \in 1 .. Len(ts)
        /\ \A k \in 1 .. Len(p) - 1 : p[k] < p[k + 1]
        /\ w = ValuesAt(ts, p) /\ Improving(side, entry, w)
  BY WayIsRising
<1>2. PICK m : m = Len(p)
  OBVIOUS
<1>3. m \in Nat /\ m >= 1 /\ \A k \in 1 .. m : p[k] \in 1 .. Len(ts)
  BY <1>1, <1>2, ElementOfSeq
<1>4. w \in Seq(Int) /\ Len(w) = m /\ \A k \in 1 .. m : w[k] = ts[p[k]]
  BY <1>1, <1>2, ValuesType
<1>5. \A k \in 1 .. m : Beyond(side, entry, ts[p[k]])
  BY <1>1, <1>4, ImprovingIsBeyond
<1>6. PICK n : n = Len(e)
  OBVIOUS
<1>7. /\ kept \in Seq(Int) /\ Len(kept) = n /\ n \in Nat
      /\ \A j \in 1 .. n : e[j] \in 1 .. Len(ts) /\ kept[j] = ts[e[j]]
      /\ \A i \in 1 .. n, j \in 1 .. n : i < j => e[i] < e[j]
      /\ \A i \in 1 .. Len(ts) : Beyond(side, entry, ts[i]) => \E j \in 1 .. n : e[j] = i
  <2>1. e \in Seq(1 .. Len(ts))
    BY DEF Keeps
  <2>2. n \in Nat /\ \A j \in 1 .. n : e[j] \in 1 .. Len(ts)
    BY <1>6, <2>1, ElementOfSeq, LenProperties
  <2> QED
    BY <1>6, <2>2 DEF Keeps
<1>8. \A k \in 1 .. m : \E j \in 1 .. n : e[j] = p[k]
  BY <1>3, <1>5, <1>7
<1>9. PICK q : q = [k \in 1 .. m |-> CHOOSE j \in 1 .. n : e[j] = p[k]]
  OBVIOUS
<1>10. \A k \in 1 .. m : q[k] \in 1 .. n /\ e[q[k]] = p[k]
  BY <1>8, <1>9
<1>11. q \in Seq(1 .. n) /\ Len(q) = m
  <2>1. q \in [1 .. m -> 1 .. n]
    BY <1>9, <1>10
  <2> QED
    BY <1>3, <2>1, FunctionIsSeq
<1>12. ASSUME NEW k \in 1 .. m - 1
       PROVE  Follows(side, kept, q[k], q[k + 1])
  <2>1. k \in 1 .. m /\ k + 1 \in 1 .. m /\ k + 1 - 1 = k /\ k + 1 # 1
    BY <1>3
  <2>2. PICK a, b : a = q[k] /\ b = q[k + 1]
    OBVIOUS
  <2>3. /\ a \in 1 .. n /\ b \in 1 .. n /\ e[a] = p[k] /\ e[b] = p[k + 1]
    BY <1>10, <2>1, <2>2
  <2>4. p[k] < p[k + 1] /\ p[k] \in Int /\ p[k + 1] \in Int
    BY <1>1, <1>2, <1>3, <2>1
  <2>5. a < b
    <3>1. ~ (b < a)
      <4>1. b < a => p[k + 1] < p[k]
        BY <1>7, <2>3
      <4> QED
        BY <2>4, <4>1
    <3>2. a # b
      BY <2>3, <2>4
    <3> QED
      BY <1>7, <2>3, <3>1, <3>2
  <2>6. Beyond(side, w[k], w[k + 1])
    <3>1. k + 1 \in DOMAIN w
      BY <1>4, <2>1
    <3>2. Beyond(side, IF k + 1 = 1 THEN entry ELSE w[k + 1 - 1], w[k + 1])
      <4>1. PICK l : l = k + 1
        OBVIOUS
      <4>2. Beyond(side, IF l = 1 THEN entry ELSE w[l - 1], w[l])
        BY <1>1, <3>1, <4>1 DEF Improving
      <4> QED
        BY <4>1, <4>2
    <3> QED
      BY <2>1, <3>2
  <2>7. w[k] = kept[a] /\ w[k + 1] = kept[b]
    <3>1. w[k] = ts[p[k]] /\ w[k + 1] = ts[p[k + 1]]
      BY <1>4, <2>1
    <3>2. \A j \in 1 .. n : kept[j] = ts[e[j]]
      BY <1>7
    <3>3. kept[a] = ts[e[a]] /\ kept[b] = ts[e[b]]
      BY <2>3, <3>2
    <3> QED
      BY <2>3, <3>1, <3>3
  <2> QED
    BY <2>2, <2>5, <2>6, <2>7 DEF Follows
<1>13. IsPath(side, kept, q)
  BY <1>3, <1>7, <1>11, <1>12 DEF IsPath
<1>14. w = ValuesAt(kept, q)
  <2>1. PICK u : u = ValuesAt(kept, q)
    OBVIOUS
  <2>2. u \in Seq(Int) /\ Len(u) = m /\ \A k \in 1 .. m : u[k] = kept[q[k]]
    <3>1. kept \in Seq(Int) /\ q \in Seq(1 .. Len(kept)) /\ Len(q) = m
      BY <1>7, <1>11
    <3> QED
      BY <2>1, <3>1, ValuesType
  <2>3. ASSUME NEW k \in 1 .. m
        PROVE  u[k] = w[k]
    <3>1. u[k] = kept[q[k]] /\ w[k] = ts[p[k]] /\ q[k] \in 1 .. n /\ e[q[k]] = p[k]
      BY <1>4, <1>10, <2>2
    <3> QED
      BY <1>7, <3>1
  <2>4. u = w
    BY <1>4, <2>2, <2>3, SeqEqual
  <2> QED
    BY <2>1, <2>4
<1> QED
  BY <1>4, <1>13, <1>14

LEMMA PathIsWay ==
  ASSUME NEW side, NEW entry \in Int, NEW ts \in Seq(Int), NEW kept, NEW e,
         Keeps(side, entry, ts, Len(ts), kept, e), NEW b, IsPath(side, kept, b)
  PROVE  ValuesAt(kept, b) \in Ways(side, entry, ts)
<1>1. PICK m, n, w : m = Len(b) /\ n = Len(e) /\ w = ValuesAt(kept, b)
  OBVIOUS
<1>2. /\ kept \in Seq(Int) /\ Len(kept) = n /\ n \in Nat
      /\ \A j \in 1 .. n : /\ e[j] \in 1 .. Len(ts) /\ kept[j] = ts[e[j]]
                           /\ Beyond(side, entry, kept[j])
      /\ \A i \in 1 .. n, j \in 1 .. n : i < j => e[i] < e[j]
  <2>1. e \in Seq(1 .. Len(ts))
    BY DEF Keeps
  <2>2. n \in Nat /\ \A j \in 1 .. n : e[j] \in 1 .. Len(ts)
    BY <1>1, <2>1, ElementOfSeq, LenProperties
  <2> QED
    BY <1>1, <2>2 DEF Keeps
<1>3. b \in Seq(1 .. n) /\ m \in Nat /\ m >= 1 /\ \A k \in 1 .. m : b[k] \in 1 .. n
  <2>1. b \in Seq(1 .. n) /\ m >= 1
    BY <1>1, <1>2 DEF IsPath
  <2> QED
    BY <1>1, <2>1, ElementOfSeq, LenProperties
<1>4. w \in Seq(Int) /\ Len(w) = m /\ \A k \in 1 .. m : w[k] = kept[b[k]]
  <2>1. b \in Seq(1 .. Len(kept))
    BY <1>2, <1>3
  <2> QED
    BY <1>1, <1>2, <2>1, ValuesType
<1>5. \A k \in 1 .. m - 1 : b[k] < b[k + 1] /\ Beyond(side, kept[b[k]], kept[b[k + 1]])
  BY <1>1 DEF IsPath, Follows
<1>6. PICK p : p = [k \in 1 .. m |-> e[b[k]]]
  OBVIOUS
<1>7. \A k \in 1 .. m : p[k] = e[b[k]] /\ p[k] \in 1 .. Len(ts)
  BY <1>2, <1>3, <1>6
<1>8. p \in Seq(1 .. Len(ts)) /\ Len(p) = m
  BY <1>3, <1>6, <1>7
<1>9. \A k \in 1 .. m - 1 : p[k] < p[k + 1]
  <2> TAKE k \in 1 .. m - 1
  <2>1. k \in 1 .. m /\ k + 1 \in 1 .. m
    BY <1>3
  <2>2. b[k] \in 1 .. n /\ b[k + 1] \in 1 .. n /\ b[k] < b[k + 1]
    BY <1>3, <1>5, <2>1
  <2> QED
    BY <1>2, <1>7, <2>1, <2>2
<1>10. Len(p) \in 1 .. Len(ts)
  <2>1. Len(ts) \in Nat
    OBVIOUS
  <2>2. Len(p) <= Len(ts)
    BY <1>8, <1>9, <2>1, RisingFits
  <2> QED
    BY <1>3, <1>8, <2>1, <2>2
<1>11. w = ValuesAt(ts, p)
  <2>1. PICK u : u = ValuesAt(ts, p)
    OBVIOUS
  <2>2. u \in Seq(Int) /\ Len(u) = m /\ \A k \in 1 .. m : u[k] = ts[p[k]]
    BY <1>8, <2>1, ValuesType
  <2>3. ASSUME NEW k \in 1 .. m
        PROVE  u[k] = w[k]
    <3>1. u[k] = ts[p[k]] /\ w[k] = kept[b[k]] /\ b[k] \in 1 .. n /\ p[k] = e[b[k]]
      BY <1>3, <1>4, <1>7, <2>2
    <3> QED
      BY <1>2, <3>1
  <2>4. u = w
    BY <1>4, <2>2, <2>3, SeqEqual
  <2> QED
    BY <2>1, <2>4
<1>12. Improving(side, entry, w)
  <2>1. ASSUME NEW k \in 1 .. m
        PROVE  Beyond(side, IF k = 1 THEN entry ELSE w[k - 1], w[k])
    <3>1. CASE k = 1
      BY <1>2, <1>3, <1>4, <3>1
    <3>2. CASE k # 1
      <4>1. k - 1 \in 1 .. m /\ k - 1 \in 1 .. m - 1 /\ k - 1 + 1 = k
        BY <1>3, <3>2
      <4>2. Beyond(side, kept[b[k - 1]], kept[b[k - 1 + 1]])
        BY <1>5, <4>1
      <4> QED
        BY <1>4, <3>2, <4>1, <4>2
    <3> QED
      BY <3>1, <3>2
  <2>2. DOMAIN w = 1 .. m
    BY <1>4
  <2> QED
    BY <2>1, <2>2 DEF Improving
<1> QED
  BY <1>1, <1>8, <1>9, <1>10, <1>11, <1>12, WayIsRising

LEMMA SurvivorsAreBest ==
  ASSUME NEW side, NEW entry \in Int, NEW ts \in Seq(Int), NEW kept, NEW c,
         kept = OnProfitableSide(side, entry, ts), kept # <<>>,
         c = ValuesAt(kept, LongestPath(side, kept))
  PROVE  /\ c \in Ways(side, entry, ts) /\ c \in Seq(Int) /\ Len(c) \in 1 .. Len(ts)
         /\ Improving(side, entry, c)
         /\ \A w \in Ways(side, entry, ts) :
              w \in Seq(Int) /\ Improving(side, entry, w) /\ AsGood(side, c, w)
<1>1. PICK e : Keeps(side, entry, ts, Len(ts), kept, e)
  BY ProfitableSideKeeps
<1>2. PICK b : b = LongestPath(side, kept)
  OBVIOUS
<1>3. kept \in Seq(Int)
  BY <1>1 DEF Keeps
<1>4. /\ IsPath(side, kept, b)
      /\ \A q : IsPath(side, kept, q) => AsGood(side, c, ValuesAt(kept, q))
  BY <1>2, <1>3, LongestPathIsBest
<1>5. c = ValuesAt(kept, b)
  BY <1>2
<1>6. c \in Ways(side, entry, ts)
  BY <1>1, <1>4, <1>5, PathIsWay
<1>7. ASSUME NEW w \in Ways(side, entry, ts)
      PROVE  /\ w \in Seq(Int) /\ Improving(side, entry, w) /\ AsGood(side, c, w)
             /\ Len(w) \in 1 .. Len(ts)
  <2>1. w \in Seq(Int) /\ \E q : IsPath(side, kept, q) /\ w = ValuesAt(kept, q)
    BY <1>1, WayIsPath
  <2>2. PICK p \in Seq(1 .. Len(ts)) : /\ Len(p) \in 1 .. Len(ts) /\ w = ValuesAt(ts, p)
                                       /\ Improving(side, entry, w)
    BY WayIsRising
  <2>3. Len(w) = Len(p)
    BY <2>2, ValuesType
  <2> QED
    BY <1>4, <2>1, <2>2, <2>3
<1> QED
  BY <1>6, <1>7

\* Of two targets beyond the entry the nearer one is nearer in price.
LEMMA NearerInPrice ==
  ASSUME NEW side, NEW entry \in Int, NEW a \in Int, NEW b \in Int,
         Beyond(side, entry, a), Beyond(side, a, b)
  PROVE  Distance(a, entry) < Distance(b, entry)
BY DEF Beyond, Distance, MaxOf, MinOf

LEMMA RepairedType ==
  ASSUME NEW side, NEW entry \in Int, NEW t \in Nat, NEW m2
  PROVE  Repaired(side, entry, t, m2) \in {t, 10 * t, t \div 10}
         /\ Repaired(side, entry, t, m2) \in Nat
<1>1. 10 * t \in Nat /\ t \div 10 \in Nat
  OBVIOUS
<1> QED
  BY <1>1 DEF Repaired

-----------------------------------------------------------------------------
(* What the states are made of.                                             *)

IsSignal(sig) ==
  /\ sig.side \in {"LONG", "SHORT"} /\ sig.entry \in Nat /\ sig.stop \in Nat
  /\ sig.targets \in Seq(Nat) /\ Len(sig.targets) \in 1 .. MaxTargets

\* The result of each component is the one of its inputs.
PlanningInv ==
  /\ IsSignal(signal)
  /\ clean \in {NotYet, Sanitized(signal)}
  /\ plan = NotYet
       \/ /\ clean = Sanitized(signal) /\ clean.status = "accepted"
          /\ \E notional \in Margins, model \in RiskModels, exit \in Exits, f \in Filters :
               plan = Planned(signal, clean.targets, notional, model, exit, f)

LEMMA InitPlanning == Init => PlanningInv
<1> SUFFICES ASSUME Init PROVE PlanningInv
  OBVIOUS
<1>1. PICK n \in 1 .. MaxTargets : signal.targets \in [1 .. n -> Prices]
  BY DEF Init
<1>2. n \in Nat /\ n \in 1 .. MaxTargets /\ signal.targets \in [1 .. n -> Nat]
  <2>1. MaxTargets \in Nat /\ Prices \subseteq Nat
    BY PlanningConstants
  <2>2. signal.targets \in [1 .. n -> Nat]
    BY <1>1, <2>1
  <2>3. n \in Nat
    BY <2>1
  <2> QED
    BY <2>2, <2>3
<1>3. signal.targets \in Seq(Nat) /\ Len(signal.targets) = n
  BY <1>2, FunctionIsSeq
<1>4. signal.side \in {"LONG", "SHORT"} /\ signal.entry \in Nat /\ signal.stop \in Nat
  BY PlanningConstants DEF Init
<1> QED
  BY <1>2, <1>3, <1>4 DEF Init, PlanningInv, IsSignal

LEMMA NextPlanning == PlanningInv /\ [Next]_vars => PlanningInv'
<1> SUFFICES ASSUME PlanningInv, [Next]_vars PROVE PlanningInv'
  OBVIOUS
<1>1. CASE Sanitize
  BY <1>1 DEF Sanitize, PlanningInv
<1>2. CASE Plan
  <2>1. clean = Sanitized(signal)
    BY <1>2 DEF Plan, PlanningInv, NotYet
  <2>2. PICK notional \in Margins, model \in RiskModels, exit \in Exits, f \in Filters :
          plan' = Planned(signal, clean.targets, notional, model, exit, f)
    BY <1>2 DEF Plan
  <2>3. signal' = signal /\ clean' = clean /\ clean.status = "accepted"
    BY <1>2 DEF Plan
  <2> QED
    BY <2>1, <2>2, <2>3 DEF PlanningInv
<1>3. CASE UNCHANGED vars
  BY <1>3 DEF PlanningInv, vars
<1> QED
  BY <1>1, <1>2, <1>3 DEF Next

\* In every state the sanitized signal and the plan are what the sanitizer and the
\* planner compute, sanitize_signal of the parsed signal and
\* build_execution_plan of the sanitized one.
THEOREM PlanningIsOfItsInputs == Spec => []PlanningInv
<1>1. Init => PlanningInv
  BY InitPlanning
<1>2. PlanningInv /\ [Next]_vars => PlanningInv'
  BY NextPlanning
<1> QED
  BY <1>1, <1>2, PTL DEF Spec

\* The repaired targets of a signal.
RepairedTargets(sig) ==
  [i \in DOMAIN sig.targets |->
     Repaired(sig.side, sig.entry, sig.targets[i], TwiceMedian(sig.targets))]

LEMMA RepairedTargetsType ==
  ASSUME NEW sig, IsSignal(sig)
  PROVE  RepairedTargets(sig) \in Seq(Int) /\ Len(RepairedTargets(sig)) = Len(sig.targets)
<1>1. /\ sig.targets \in Seq(Nat) /\ Len(sig.targets) \in Nat /\ sig.entry \in Int
      /\ \A i \in 1 .. Len(sig.targets) : sig.targets[i] \in Nat
      /\ DOMAIN sig.targets = 1 .. Len(sig.targets)
  BY ElementOfSeq, LenProperties DEF IsSignal
<1>2. RepairedTargets(sig) \in [1 .. Len(sig.targets) -> Int]
  <2>1. ASSUME NEW i \in 1 .. Len(sig.targets)
        PROVE  Repaired(sig.side, sig.entry, sig.targets[i], TwiceMedian(sig.targets)) \in Int
    <3>1. Repaired(sig.side, sig.entry, sig.targets[i], TwiceMedian(sig.targets)) \in Nat
      BY <1>1, RepairedType
    <3> QED
      BY <3>1
  <2> QED
    BY <1>1, <2>1 DEF RepairedTargets
<1> QED
  BY <1>1, <1>2, FunctionIsSeq

\* What an accepted signal's targets are.
LEMMA AcceptedTargets ==
  ASSUME NEW sig, IsSignal(sig), NEW c, c = Sanitized(sig).targets,
         Sanitized(sig).status = "accepted"
  PROVE  /\ StopOnCorrectSide(sig.side, sig.entry, sig.stop)
         /\ Sanitized(sig) = [status |-> "accepted", targets |-> c, alert |-> c # sig.targets]
         /\ c \in Ways(sig.side, sig.entry, RepairedTargets(sig)) /\ c \in Seq(Int)
         /\ Len(c) \in 1 .. Len(sig.targets)
         /\ Improving(sig.side, sig.entry, c)
         /\ \A w \in Ways(sig.side, sig.entry, RepairedTargets(sig)) :
              /\ w \in Seq(Int) /\ Improving(sig.side, sig.entry, w)
              /\ AsGood(sig.side, c, w)
<1>1. PICK kept : kept = OnProfitableSide(sig.side, sig.entry, RepairedTargets(sig))
  OBVIOUS
<1>2. /\ StopOnCorrectSide(sig.side, sig.entry, sig.stop) /\ kept # <<>>
      /\ c = ValuesAt(kept, LongestPath(sig.side, kept))
      /\ Sanitized(sig) = [status |-> "accepted", targets |-> c, alert |-> c # sig.targets]
  BY <1>1 DEF Sanitized, Rejected, RepairedTargets
<1>3. /\ RepairedTargets(sig) \in Seq(Int) /\ sig.entry \in Int
      /\ Len(RepairedTargets(sig)) = Len(sig.targets)
  BY RepairedTargetsType DEF IsSignal
<1> QED
  <2>1. PICK r, en, side : r = RepairedTargets(sig) /\ en = sig.entry /\ side = sig.side
    OBVIOUS
  <2>2. /\ c \in Ways(side, en, r) /\ c \in Seq(Int) /\ Len(c) \in 1 .. Len(r)
        /\ Improving(side, en, c)
        /\ \A w \in Ways(side, en, r) :
             w \in Seq(Int) /\ Improving(side, en, w) /\ AsGood(side, c, w)
    <3>1. /\ kept = OnProfitableSide(side, en, r) /\ kept # <<>>
          /\ c = ValuesAt(kept, LongestPath(side, kept))
          /\ r \in Seq(Int) /\ en \in Int
      BY <1>1, <1>2, <1>3, <2>1
    <3> QED
      BY <3>1, SurvivorsAreBest
  <2> QED
    BY <1>2, <1>3, <2>1, <2>2

LEMMA InvTargetsAreBest == PlanningInv => TargetsAreBest
<1> SUFFICES ASSUME PlanningInv, clean.status = "accepted" PROVE TargetsAreBest
  BY DEF TargetsAreBest
<1>1. PICK c, ways, en, side : /\ c = clean.targets /\ en = signal.entry /\ side = signal.side
                               /\ ways = Ways(signal.side, signal.entry, RepairedTargets(signal))
  OBVIOUS
<1>2. IsSignal(signal) /\ clean = Sanitized(signal)
  BY DEF PlanningInv, NotYet
<1>3. en \in Int
  BY <1>1, <1>2 DEF IsSignal
<1>4. /\ c \in ways /\ c \in Seq(Int) /\ Improving(side, en, c)
      /\ \A w \in ways : w \in Seq(Int) /\ Improving(side, en, w) /\ AsGood(side, c, w)
  BY <1>1, <1>2, AcceptedTargets
<1> DEFINE longest == {w \in ways : \A o \in ways : Len(o) <= Len(w)}
<1>5. \A w \in ways : Len(w) <= Len(c)
  <2> TAKE w \in ways
  <2>1. Len(w) \in Nat /\ Len(c) \in Nat /\ AsGood(side, c, w)
    BY <1>4, LenProperties
  <2> QED
    BY <2>1 DEF AsGood
<1>6. c \in longest
  BY <1>4, <1>5
<1>7. ASSUME NEW o \in longest \ {c}
      PROVE  \E k \in DOMAIN o : /\ Distance(c[k], en) < Distance(o[k], en)
                                 /\ \A l \in 1 .. k - 1 : c[l] = o[l]
  <2>1. /\ o \in Seq(Int) /\ Improving(side, en, o) /\ AsGood(side, c, o)
        /\ Len(o) \in Nat /\ Len(c) \in Nat /\ o # c
    BY <1>4, LenProperties
  <2>2. Len(o) = Len(c)
    BY <1>4, <1>5, <2>1
  <2>3. ~ \A k \in 1 .. Len(c) : c[k] = o[k]
    BY <1>4, <2>1, <2>2, SeqEqual
  <2>4. PICK k \in 1 .. Len(c) : NearerAt(side, c, o, k)
    BY <2>1, <2>2, <2>3 DEF AsGood
  <2>5. c[k] \in Int /\ o[k] \in Int /\ k \in DOMAIN o
    BY <1>4, <2>1, <2>2, ElementOfSeq
  <2>6. Beyond(side, en, c[k])
    BY <1>3, <1>4, ImprovingIsBeyond
  <2>7. Beyond(side, c[k], o[k]) /\ \A l \in 1 .. k - 1 : c[l] = o[l]
    BY <2>4 DEF NearerAt
  <2>8. Distance(c[k], en) < Distance(o[k], en)
    BY <1>3, <2>5, <2>6, <2>7, NearerInPrice
  <2> QED
    BY <2>5, <2>7, <2>8
<1> QED
  BY <1>1, <1>6, <1>7 DEF TargetsAreBest, RepairedTargets

\* The targets the ingestor publishes are, of all the ways to leave out repaired
\* targets so that each is beyond the one before, the longest and of these the
\* nearest to the entry: what longest_monotonic_subsequence_indices is for,
\* for any number of targets.
THEOREM TargetsStayBest == Spec => []TargetsAreBest
BY PlanningIsOfItsInputs, InvTargetsAreBest, PTL

\* What the engines take for granted of an accepted signal.
OnItsSides ==
  clean.status = "accepted" =>
    /\ Beyond(signal.side, signal.stop, signal.entry)
    /\ Len(clean.targets) \in 1 .. Len(signal.targets)
    /\ Improving(signal.side, signal.entry, clean.targets)

LEMMA InvOnItsSides == PlanningInv => OnItsSides
<1> SUFFICES ASSUME PlanningInv, clean.status = "accepted" PROVE OnItsSides
  BY DEF OnItsSides
<1>1. IsSignal(signal) /\ clean = Sanitized(signal)
  BY DEF PlanningInv, NotYet
<1>2. PICK c : c = clean.targets
  OBVIOUS
<1>3. /\ StopOnCorrectSide(signal.side, signal.entry, signal.stop)
      /\ Len(c) \in 1 .. Len(signal.targets)
      /\ Improving(signal.side, signal.entry, c)
  BY <1>1, <1>2, AcceptedTargets
<1> QED
  BY <1>2, <1>3 DEF OnItsSides, StopOnCorrectSide

\* The stop of a signal that sanitize_signal accepts is on the losing side of the
\* entry, and there are targets left, the first beyond the entry and each beyond
\* the one before.
THEOREM AcceptedIsOnItsSides == Spec => []OnItsSides
BY PlanningIsOfItsInputs, InvOnItsSides, PTL

-----------------------------------------------------------------------------
(* A sound signal is left as it is.                                         *)

LEMMA BoundExists ==
  ASSUME NEW n \in Nat, NEW ts \in [1 .. n -> Nat]
  PROVE  \E b \in Nat : \A i \in 1 .. n : ts[i] <= b
<1> DEFINE Good == {j \in 0 .. n : \E b \in Nat : \A i \in 1 .. j : ts[i] <= b}
<1>1. 0 \in Good
  OBVIOUS
<1>2. ASSUME NEW j \in 1 .. n, j - 1 \in Good
      PROVE  j \in Good
  <2>1. PICK b \in Nat : \A i \in 1 .. j - 1 : ts[i] <= b
    BY <1>2
  <2>2. \A i \in 1 .. j : i = j \/ i \in 1 .. j - 1
    OBVIOUS
  <2>3. CASE ts[j] <= b
    <3>1. \A i \in 1 .. j : ts[i] <= b
      BY <2>1, <2>2, <2>3
    <3> QED
      BY <3>1
  <2>4. CASE b < ts[j]
    <3>1. ts[j] \in Nat /\ \A i \in 1 .. j : ts[i] \in Nat
      OBVIOUS
    <3>2. \A i \in 1 .. j : ts[i] <= ts[j]
      BY <2>1, <2>2, <2>4, <3>1
    <3> QED
      BY <3>1, <3>2
  <2> QED
    BY <2>1, <2>3, <2>4
<1> HIDE DEF Good
<1>3. \A j \in 0 .. n : j \in Good
  BY <1>1, <1>2, Upto
<1>4. n \in Good
  BY <1>3
<1> QED
  BY <1>4 DEF Good

UpToCount(ts, x) == Cardinality({i \in DOMAIN ts : ts[i] <= x})
BelowCount(ts, x) == Cardinality({i \in DOMAIN ts : ts[i] < x})

LEMMA Counts ==
  ASSUME NEW ts \in Seq(Nat), NEW x \in Nat
  PROVE  /\ UpToCount(ts, x) \in Nat /\ BelowCount(ts, x) \in Nat
         /\ BelowCount(ts, 0) = 0
         /\ BelowCount(ts, x + 1) = UpToCount(ts, x)
         /\ (\A i \in DOMAIN ts : ts[i] # x) => UpToCount(ts, x) = BelowCount(ts, x)
         /\ (\A i \in DOMAIN ts : ts[i] <= x) => UpToCount(ts, x) = Len(ts)
<1> DEFINE D == DOMAIN ts
<1>0. D = 1 .. Len(ts) /\ Len(ts) \in Nat /\ \A i \in D : ts[i] \in Nat
  OBVIOUS
<1>1. IsFiniteSet(D) /\ Cardinality(D) = Len(ts)
  <2>1. IsFiniteSet(1 .. Len(ts))
        /\ Cardinality(1 .. Len(ts)) = IF 1 > Len(ts) THEN 0 ELSE Len(ts) - 1 + 1
    BY <1>0, FS_Interval
  <2>2. (IF 1 > Len(ts) THEN 0 ELSE Len(ts) - 1 + 1) = Len(ts)
    BY <1>0
  <2> QED
    BY <1>0, <2>1, <2>2
<1> HIDE DEF D
<1>2. \A S : S \subseteq D => Cardinality(S) \in Nat
  BY <1>1, FS_Subset, FS_CardinalityType
<1>3. {i \in D : ts[i] <= x} \subseteq D /\ {i \in D : ts[i] < x} \subseteq D
  OBVIOUS
<1>4. {i \in D : ts[i] < 0} = {}
  BY <1>0
<1>5. {i \in D : ts[i] < x + 1} = {i \in D : ts[i] <= x}
  BY <1>0
<1>6. (\A i \in D : ts[i] # x) => {i \in D : ts[i] <= x} = {i \in D : ts[i] < x}
  BY <1>0
<1>7. (\A i \in D : ts[i] <= x) => {i \in D : ts[i] <= x} = D
  OBVIOUS
<1>8. Cardinality({i \in D : ts[i] < 0}) = 0
  BY <1>4, FS_EmptySet, Zenon
<1>9. Cardinality({i \in D : ts[i] <= x}) \in Nat /\ Cardinality({i \in D : ts[i] < x}) \in Nat
  BY <1>2, <1>3, Zenon
<1>10. UpToCount(ts, x) \in Nat /\ BelowCount(ts, x) \in Nat /\ BelowCount(ts, 0) = 0
  BY <1>8, <1>9, Zenon DEF UpToCount, BelowCount, D
<1>11. BelowCount(ts, x + 1) = UpToCount(ts, x)
  BY <1>5, Zenon DEF UpToCount, BelowCount, D
<1>12. (\A i \in DOMAIN ts : ts[i] # x) => UpToCount(ts, x) = BelowCount(ts, x)
  BY <1>6, Zenon DEF UpToCount, BelowCount, D
<1>13. (\A i \in DOMAIN ts : ts[i] <= x) => UpToCount(ts, x) = Len(ts)
  BY <1>1, <1>7, Zenon DEF UpToCount, D
<1> QED
  BY <1>10, <1>11, <1>12, <1>13

\* The k-th smallest value exists.
LEMMA SmallestExists ==
  ASSUME NEW ts \in Seq(Nat), NEW k \in 1 .. Len(ts)
  PROVE  Smallest(ts, k) \in {ts[i] : i \in DOMAIN ts}
<1> DEFINE W == {x \in Nat : UpToCount(ts, x) >= k}
<1>0. /\ Len(ts) \in Nat /\ DOMAIN ts = 1 .. Len(ts) /\ ts \in [1 .. Len(ts) -> Nat]
      /\ \A i \in DOMAIN ts : ts[i] \in Nat
  OBVIOUS
<1>1. \A x \in Nat : UpToCount(ts, x) \in Nat /\ BelowCount(ts, x) \in Nat
  BY Counts
<1>2. W # {}
  <2>1. PICK b \in Nat : \A i \in 1 .. Len(ts) : ts[i] <= b
    BY <1>0, BoundExists
  <2>2. UpToCount(ts, b) = Len(ts)
    BY <1>0, <2>1, Counts
  <2> QED
    BY <2>2
<1>3. W \subseteq Nat
  OBVIOUS
<1> HIDE DEF W
<1>4. PICK x \in W : \A y \in W : x <= y
  BY <1>2, <1>3, LeastExists
<1>5. x \in Nat /\ UpToCount(ts, x) >= k
  BY <1>4 DEF W
<1>6. BelowCount(ts, x) < k
  <2>1. CASE x = 0
    <3>1. BelowCount(ts, 0) = 0
      BY <1>5, Counts
    <3> QED
      BY <2>1, <3>1
  <2>2. CASE x # 0
    <3>1. PICK y : y = x - 1
      OBVIOUS
    <3>2. y \in Nat /\ ~ (x <= y) /\ x = y + 1
      BY <1>5, <2>2, <3>1
    <3>3. ~ (UpToCount(ts, y) >= k) /\ UpToCount(ts, y) \in Nat
      BY <1>1, <1>4, <3>2 DEF W
    <3>4. BelowCount(ts, x) = UpToCount(ts, y)
      BY <3>2, Counts
    <3> QED
      BY <3>3, <3>4
  <2> QED
    BY <2>1, <2>2
<1>7. \E i \in DOMAIN ts : ts[i] = x
  <2>1. CASE \A i \in DOMAIN ts : ts[i] # x
    <3>1. UpToCount(ts, x) = BelowCount(ts, x)
      BY <1>5, <2>1, Counts
    <3>2. UpToCount(ts, x) \in Nat
      BY <1>1, <1>5
    <3> QED
      BY <1>5, <1>6, <3>1, <3>2
  <2> QED
    BY <2>1
<1>8. \E y \in {ts[i] : i \in DOMAIN ts} : BelowCount(ts, y) < k /\ UpToCount(ts, y) >= k
  BY <1>5, <1>6, <1>7
<1>9. Smallest(ts, k) = CHOOSE y \in {ts[i] : i \in DOMAIN ts} :
                          BelowCount(ts, y) < k /\ UpToCount(ts, y) >= k
  BY Zenon DEF Smallest, BelowCount, UpToCount
<1> QED
  BY <1>8, <1>9

LEMMA TwiceMedianType ==
  ASSUME NEW ts \in Seq(Nat), Len(ts) >= 1
  PROVE  TwiceMedian(ts) \in Nat
<1>1. Len(ts) \in Nat /\ \A i \in DOMAIN ts : ts[i] \in Nat
  OBVIOUS
<1>2. (Len(ts) + 1) \div 2 \in 1 .. Len(ts) /\ Len(ts) \div 2 + 1 \in 1 .. Len(ts)
  BY <1>1
<1>3. /\ Smallest(ts, (Len(ts) + 1) \div 2) \in Nat
      /\ Smallest(ts, Len(ts) \div 2 + 1) \in Nat
  BY <1>1, <1>2, SmallestExists
<1> QED
  BY <1>3 DEF TwiceMedian

LEMMA RisingAtLeast ==
  ASSUME NEW n \in Nat, NEW p \in Seq(1 .. n),
         \A k \in 1 .. Len(p) - 1 : p[k] < p[k + 1]
  PROVE  \A k \in 1 .. Len(p) : p[k] >= k
<1>0. PICK m : m = Len(p)
  OBVIOUS
<1>1. m \in Nat /\ \A k \in 1 .. m : p[k] \in 1 .. n
  BY <1>0, ElementOfSeq
<1> DEFINE Good == {k \in 0 .. m : k = 0 \/ p[k] >= k}
<1>2. 0 \in Good
  BY <1>1
<1>3. ASSUME NEW k \in 1 .. m, k - 1 \in Good
      PROVE  k \in Good
  <2>1. CASE k = 1
    BY <1>1, <2>1
  <2>2. CASE k # 1
    <3>1. k - 1 \in 1 .. m - 1 /\ k - 1 + 1 = k /\ k - 1 \in 1 .. m
      BY <1>1, <2>2
    <3>2. p[k - 1] < p[k - 1 + 1]
      BY <1>0, <3>1
    <3>3. p[k - 1] < p[k] /\ p[k - 1] >= k - 1
      BY <1>3, <3>1, <3>2
    <3> QED
      BY <1>1, <3>1, <3>3
  <2> QED
    BY <2>1, <2>2
<1> HIDE DEF Good
<1>4. \A k \in 0 .. m : k \in Good
  BY <1>1, <1>2, <1>3, Upto
<1> QED
  BY <1>0, <1>1, <1>4 DEF Good

\* The stop and the targets of a sound signal are on their sides, the targets in
\* order and none five times off the median.
Sound(sig) ==
  /\ StopOnCorrectSide(sig.side, sig.entry, sig.stop)
  /\ \A i \in 1 .. Len(sig.targets) :
       /\ Beyond(sig.side, sig.entry, sig.targets[i])
       /\ ~ LooksShifted(sig.targets[i], TwiceMedian(sig.targets))
       /\ \A j \in 1 .. i - 1 : Beyond(sig.side, sig.targets[j], sig.targets[i])

LEMMA SoundIsKept ==
  ASSUME NEW sig, IsSignal(sig), Sound(sig)
  PROVE  Sanitized(sig) = [status |-> "accepted", targets |-> sig.targets, alert |-> FALSE]
<1>1. PICK side, en, ts, n : side = sig.side /\ en = sig.entry /\ ts = sig.targets /\ n = Len(ts)
  OBVIOUS
<1>2. /\ n \in Nat /\ n >= 1 /\ ts \in Seq(Nat) /\ DOMAIN ts = 1 .. n /\ en \in Int
      /\ \A i \in 1 .. n : ts[i] \in Nat
  <2>1. ts \in Seq(Nat) /\ n \in 1 .. MaxTargets /\ en \in Int
    BY <1>1 DEF IsSignal
  <2> QED
    BY <1>1, <2>1, ElementOfSeq, LenProperties
<1>3. ts \in Seq(Int)
  <2>1. ts \in [1 .. n -> Int]
    BY <1>1, <1>2
  <2> QED
    BY <1>2, <2>1, FunctionIsSeq
<1>4. RepairedTargets(sig) = ts
  <2>1. \A i \in 1 .. n : Repaired(side, en, ts[i], TwiceMedian(ts)) = ts[i]
    BY <1>1 DEF Sound, Repaired
  <2>2. RepairedTargets(sig) = [i \in 1 .. n |-> Repaired(side, en, ts[i], TwiceMedian(ts))]
    BY <1>1, <1>2 DEF RepairedTargets
  <2>3. RepairedTargets(sig) = [i \in 1 .. n |-> ts[i]]
    BY <2>1, <2>2
  <2> QED
    BY <1>2, <2>3
<1>5. PICK kept, e : kept = OnProfitableSide(side, en, ts) /\ Keeps(side, en, ts, n, kept, e)
  BY <1>1, <1>3, ProfitableSideKeeps
<1>6. kept # <<>>
  <2>1. Beyond(side, en, ts[1]) /\ 1 \in 1 .. n
    BY <1>1, <1>2 DEF Sound
  <2>2. \E j \in 1 .. Len(e) : e[j] = 1
    BY <1>5, <2>1 DEF Keeps
  <2>3. Len(kept) = Len(e) /\ Len(e) # 0
    BY <1>5, <2>2 DEF Keeps
  <2> QED
    BY <2>3
<1>7. Sanitized(sig).status = "accepted"
  BY <1>1, <1>2, <1>4, <1>5, <1>6 DEF Sanitized, RepairedTargets, Sound
<1>8. PICK c : c = Sanitized(sig).targets
  OBVIOUS
<1>9. /\ Sanitized(sig) = [status |-> "accepted", targets |-> c, alert |-> c # ts]
      /\ c \in Ways(side, en, ts) /\ c \in Seq(Int) /\ Len(c) \in 1 .. n
      /\ \A w \in Ways(side, en, ts) : AsGood(side, c, w)
  BY <1>1, <1>4, <1>7, <1>8, AcceptedTargets
<1>10. ASSUME NEW j \in 1 .. n, NEW i \in 1 .. n, j < i
       PROVE  Beyond(side, ts[j], ts[i])
  <2>1. j \in 1 .. i - 1
    BY <1>2, <1>10
  <2> QED
    BY <1>1, <2>1 DEF Sound
<1>11. ts \in Ways(side, en, ts)
  <2>1. PICK p : p = [k \in 1 .. n |-> k]
    OBVIOUS
  <2>2. p \in Seq(1 .. n) /\ Len(p) = n /\ \A k \in 1 .. n : p[k] = k
    BY <1>2, <2>1, FunctionIsSeq
  <2>3. \A k \in 1 .. Len(p) - 1 : p[k] < p[k + 1]
    <3> TAKE k \in 1 .. Len(p) - 1
    <3>1. k \in 1 .. n /\ k + 1 \in 1 .. n
      BY <1>2, <2>2
    <3> QED
      BY <2>2, <3>1
  <2>4. ts = ValuesAt(ts, p)
    <3>1. ValuesAt(ts, p) = [k \in 1 .. n |-> ts[k]]
      BY <2>1 DEF ValuesAt
    <3> QED
      BY <1>2, <3>1
  <2>5. Improving(side, en, ts)
    <3>1. ASSUME NEW k \in 1 .. n
          PROVE  Beyond(side, IF k = 1 THEN en ELSE ts[k - 1], ts[k])
      <4>1. CASE k = 1
        BY <1>1, <4>1 DEF Sound
      <4>2. CASE k # 1
        <5>1. k - 1 \in 1 .. n /\ k - 1 < k
          BY <1>2, <4>2
        <5> QED
          BY <1>10, <4>2, <5>1
      <4> QED
        BY <4>1, <4>2
    <3> QED
      BY <1>2, <3>1 DEF Improving
  <2>6. Len(p) \in 1 .. n
    BY <1>2, <2>2
  <2> QED
    BY <1>1, <1>3, <2>2, <2>3, <2>4, <2>5, <2>6, WayIsRising
<1>12. PICK p \in Seq(1 .. n) : /\ \A k \in 1 .. Len(p) - 1 : p[k] < p[k + 1]
                                /\ c = ValuesAt(ts, p)
  BY <1>1, <1>3, <1>9, WayIsRising
<1>13. AsGood(side, c, ts) /\ Len(c) = n
  <2>1. AsGood(side, c, ts) /\ Len(c) \in Nat /\ Len(c) <= n
    BY <1>2, <1>9, <1>11
  <2> QED
    BY <1>1, <1>2, <2>1 DEF AsGood
<1>14. Len(p) = n /\ \A k \in 1 .. n : c[k] = ts[p[k]] /\ p[k] \in 1 .. n /\ p[k] >= k
  <2>1. Len(c) = Len(p) /\ \A k \in 1 .. Len(p) : c[k] = ts[p[k]]
    BY <1>1, <1>3, <1>12, ValuesType
  <2>2. \A k \in 1 .. Len(p) : p[k] \in 1 .. n
    BY ElementOfSeq
  <2>3. \A k \in 1 .. Len(p) : p[k] >= k
    BY <1>2, <1>12, RisingAtLeast
  <2> QED
    BY <1>13, <2>1, <2>2, <2>3
<1>15. ASSUME NEW k \in 1 .. n
       PROVE  ~ NearerAt(side, c, ts, k)
  <2>1. c[k] = ts[p[k]] /\ p[k] \in 1 .. n /\ p[k] >= k
    BY <1>14
  <2>2. ts[k] \in Int /\ ts[p[k]] \in Int
    BY <1>2, <2>1
  <2>3. k = p[k] \/ k < p[k]
    BY <1>2, <2>1
  <2>4. ~ Beyond(side, c[k], ts[k])
    <3>1. CASE k = p[k]
      BY <2>1, <2>2, <3>1, BeyondIsTotal
    <3>2. CASE k < p[k]
      <4>1. Beyond(side, ts[k], ts[p[k]])
        BY <1>10, <2>1, <3>2
      <4> QED
        BY <2>1, <2>2, <4>1, BeyondIsTotal
    <3> QED
      BY <2>3, <3>1, <3>2
  <2> QED
    BY <2>4 DEF NearerAt
<1>16. c = ts
  <2>1. \A k \in 1 .. n : c[k] = ts[k]
    BY <1>1, <1>2, <1>13, <1>15 DEF AsGood
  <2> QED
    BY <1>1, <1>3, <1>9, <1>13, <2>1, SeqEqual
<1> QED
  BY <1>1, <1>9, <1>16

LEMMA InvSoundSignalPasses == PlanningInv => SoundSignalPasses
<1> DEFINE ts == signal.targets
           Hyp == /\ clean # NotYet
                  /\ signal.stop # signal.entry
                  /\ (signal.side = "LONG" <=> signal.stop < signal.entry)
                  /\ \A i \in DOMAIN ts :
                       /\ ts[i] # signal.entry
                       /\ (signal.side = "LONG" <=> ts[i] > signal.entry)
                       /\ 2 * ts[i] < 5 * TwiceMedian(ts)
                       /\ TwiceMedian(ts) < 5 * (2 * ts[i])
                       /\ \A j \in 1 .. i - 1 : ts[i] # ts[j]
                            /\ (signal.side = "LONG" <=> ts[j] < ts[i])
<1> SUFFICES ASSUME PlanningInv, Hyp
             PROVE  clean = [status |-> "accepted", targets |-> ts, alert |-> FALSE]
  BY DEF SoundSignalPasses
<1>1. IsSignal(signal) /\ clean = Sanitized(signal)
  BY DEF PlanningInv
<1>2. /\ ts \in Seq(Nat) /\ Len(ts) \in Nat /\ Len(ts) >= 1 /\ DOMAIN ts = 1 .. Len(ts)
      /\ \A i \in 1 .. Len(ts) : ts[i] \in Nat
      /\ signal.entry \in Nat /\ signal.stop \in Nat
  <2>1. ts \in Seq(Nat) /\ Len(ts) \in 1 .. MaxTargets
    BY <1>1 DEF IsSignal
  <2> QED
    BY <1>1, <2>1, ElementOfSeq, LenProperties DEF IsSignal
<1>3. TwiceMedian(ts) \in Nat
  BY <1>2, TwiceMedianType
<1>4. StopOnCorrectSide(signal.side, signal.entry, signal.stop)
  BY <1>2 DEF StopOnCorrectSide, Beyond
<1>5. ASSUME NEW i \in 1 .. Len(ts)
      PROVE  /\ Beyond(signal.side, signal.entry, ts[i])
             /\ ~ LooksShifted(ts[i], TwiceMedian(ts))
             /\ \A j \in 1 .. i - 1 : Beyond(signal.side, ts[j], ts[i])
  <2>1. Beyond(signal.side, signal.entry, ts[i])
    <3>1. ts[i] \in Nat /\ ts[i] # signal.entry /\ (signal.side = "LONG" <=> ts[i] > signal.entry)
      BY <1>2
    <3> QED
      BY <1>2, <3>1 DEF Beyond
  <2>2. ~ LooksShifted(ts[i], TwiceMedian(ts))
    <3>1. PICK t, m2 : t = ts[i] /\ m2 = TwiceMedian(ts)
      OBVIOUS
    <3>2. t \in Nat /\ m2 \in Nat /\ 2 * t < 5 * m2 /\ m2 < 5 * (2 * t)
      BY <1>2, <1>3, <3>1
    <3>3. ~ LooksShifted(t, m2)
      BY <3>2 DEF LooksShifted, MaxOf, MinOf, ShiftLo, ShiftHi
    <3> QED
      BY <3>1, <3>3
  <2>3. ASSUME NEW j \in 1 .. i - 1
        PROVE  Beyond(signal.side, ts[j], ts[i])
    <3>1. ts[j] \in Nat /\ ts[i] \in Nat
      BY <1>2
    <3>2. ts[i] # ts[j] /\ (signal.side = "LONG" <=> ts[j] < ts[i])
      BY <1>2
    <3> QED
      BY <3>1, <3>2 DEF Beyond
  <2> QED
    BY <2>1, <2>2, <2>3
<1>6. Sound(signal)
  BY <1>4, <1>5 DEF Sound
<1> QED
  BY <1>1, <1>6, SoundIsKept

\* sanitize_signal leaves a signal without a defect as it is, for any number of
\* targets: the search for the best targets then takes all of them.
THEOREM SoundSignalsPass == Spec => []SoundSignalPasses
BY PlanningIsOfItsInputs, InvSoundSignalPasses, PTL

-----------------------------------------------------------------------------
(* Rounding.                                                                *)

LEMMA DivBounds ==
  ASSUME NEW d \in Nat \ {0}, NEW p \in Int
  PROVE  /\ p \div d \in Int /\ (p \div d) * d <= p /\ p < (p \div d) * d + d
         /\ p >= 0 => p \div d >= 0
OBVIOUS

LEMMA DivMonotonic ==
  ASSUME NEW d \in Nat \ {0}, NEW p \in Int, NEW q \in Int, p <= q
  PROVE  p \div d <= q \div d
<1>1. PICK a, b : a = p \div d /\ b = q \div d
  OBVIOUS
<1>2. a \in Int /\ b \in Int /\ a * d <= p /\ q < b * d + d
  BY <1>1, DivBounds
<1>3. a * d < (b + 1) * d
  BY <1>2
<1>4. a < b + 1
  BY <1>2, <1>3
<1> QED
  BY <1>1, <1>2, <1>4

LEMMA TimesMonotonic ==
  ASSUME NEW d \in Nat, NEW a \in Int, NEW b \in Int, a <= b
  PROVE  a * d <= b * d
OBVIOUS

LEMMA DivOfMultiple ==
  ASSUME NEW d \in Nat \ {0}, NEW a \in Int
  PROVE  (a * d) \div d = a /\ (a * d) % d = 0
OBVIOUS

\* Rounding is towards the entry for a target, away from it for a stop.
LEMMA RoundedIsConservative ==
  ASSUME NEW side, NEW tick \in Nat \ {0}, NEW p \in Nat
  PROVE  /\ RoundedPrice(side, tick, p) \in Nat
         /\ ~ Beyond(side, p, RoundedPrice(side, tick, p))
         /\ \E a \in Int : RoundedPrice(side, tick, p) = a * tick
<1>1. PICK a, b : a = p \div tick /\ b = (p + tick - 1) \div tick
  OBVIOUS
<1>2. a \in Int /\ a >= 0 /\ a * tick <= p
  BY <1>1, DivBounds
<1>3. b \in Int /\ b >= 0 /\ p + tick - 1 < b * tick + tick
  <2>1. p + tick - 1 \in Int /\ p + tick - 1 >= 0
    OBVIOUS
  <2> QED
    BY <1>1, <2>1, DivBounds
<1>4. a * tick \in Nat /\ b * tick \in Nat
  BY <1>2, <1>3
<1>5. b * tick >= p
  BY <1>3, <1>4
<1>6. RoundedPrice(side, tick, p) = IF side = "LONG" THEN a * tick ELSE b * tick
  BY <1>1 DEF RoundedPrice
<1>7. \E c \in Int : RoundedPrice(side, tick, p) = c * tick
  BY <1>2, <1>3, <1>6
<1>8. CASE side = "LONG"
  BY <1>2, <1>4, <1>6, <1>7, <1>8 DEF Beyond
<1>9. CASE side # "LONG"
  BY <1>4, <1>5, <1>6, <1>7, <1>9 DEF Beyond
<1> QED
  BY <1>8, <1>9

LEMMA RoundedIsMonotonic ==
  ASSUME NEW side, NEW tick \in Nat \ {0}, NEW p \in Nat, NEW q \in Nat, ~ Beyond(side, p, q)
  PROVE  ~ Beyond(side, RoundedPrice(side, tick, p), RoundedPrice(side, tick, q))
<1>1. CASE side = "LONG"
  <2>1. q <= p
    BY <1>1 DEF Beyond
  <2>2. q \div tick \in Int /\ p \div tick \in Int /\ q \div tick <= p \div tick
    BY <2>1, DivBounds, DivMonotonic
  <2>3. (q \div tick) * tick <= (p \div tick) * tick
    BY <2>2, TimesMonotonic
  <2>4. (q \div tick) * tick \in Int /\ (p \div tick) * tick \in Int
    BY <2>2
  <2> QED
    BY <1>1, <2>3, <2>4 DEF RoundedPrice, Beyond
<1>2. CASE side # "LONG"
  <2>1. p + tick - 1 <= q + tick - 1 /\ p + tick - 1 \in Int /\ q + tick - 1 \in Int
    BY <1>2 DEF Beyond
  <2> DEFINE a == (p + tick - 1) \div tick
             b == (q + tick - 1) \div tick
  <2>2. a \in Int /\ b \in Int /\ a <= b
    BY <2>1, DivBounds, DivMonotonic
  <2> HIDE DEF a, b
  <2>3. a * tick <= b * tick /\ a * tick \in Int /\ b * tick \in Int
    BY <2>2, TimesMonotonic
  <2>4. RoundedPrice(side, tick, p) = a * tick /\ RoundedPrice(side, tick, q) = b * tick
    BY <1>2 DEF RoundedPrice, a, b
  <2> QED
    BY <1>2, <2>3, <2>4 DEF Beyond
<1> QED
  BY <1>1, <1>2

LEMMA RoundedOfMultiple ==
  ASSUME NEW side, NEW tick \in Nat \ {0}, NEW a \in Int
  PROVE  RoundedPrice(side, tick, a * tick) = a * tick
<1>1. (a * tick) \div tick = a
  BY DivOfMultiple
<1>2. (a * tick + tick - 1) \div tick = a
  <2>1. PICK b : b = (a * tick + tick - 1) \div tick
    OBVIOUS
  <2>2. a * tick \in Int /\ a * tick + tick - 1 \in Int
    OBVIOUS
  <2>3. /\ b \in Int /\ b * tick <= a * tick + tick - 1
        /\ a * tick + tick - 1 < b * tick + tick
    BY <2>1, <2>2, DivBounds
  <2>4. b * tick < (a + 1) * tick /\ (a - 1) * tick < b * tick
    BY <2>3
  <2>5. b < a + 1 /\ a - 1 < b
    BY <2>3, <2>4
  <2> QED
    BY <2>1, <2>3, <2>5
<1> QED
  BY <1>1, <1>2 DEF RoundedPrice

-----------------------------------------------------------------------------
(* Sums of parts.                                                           *)

\* The parts of a whole make up the whole.
LEMMA FractionsType ==
  ASSUME NEW n \in 1 .. MaxTargets, NEW model \in {1, 2},
         model = 1 \/ n <= Len(Model2Weights)
  PROVE  /\ \A i \in 1 .. n : Fractions(model, n)[i] \in Int /\ Fractions(model, n)[i] >= 0
         /\ Total(n, Fractions(model, n)) = One
<1>0. MaxTargets \in Nat /\ Model2Weights \in Seq(Nat \ {0}) /\ n \in Nat /\ n - 1 \in Nat
  BY PlanningConstants
<1>1. PICK F, others : F = Fractions(model, n) /\ others = [i \in 1 .. n - 1 |-> Part(model, n, i)]
  OBVIOUS
<1>2. F = [i \in 1 .. n |-> IF i < n THEN others[i] ELSE One - Total(n - 1, others)]
  BY <1>1 DEF Fractions
<1>3. ASSUME NEW a \in Nat, NEW b \in Nat \ {0}
      PROVE  Quotient(a, b) \in Nat
  <2>1. 2 * b \in Nat \ {0} /\ 2 * a + b \in Int /\ 2 * a + b >= 0
    OBVIOUS
  <2>2. (2 * a + b) \div (2 * b) \in Int /\ (2 * a + b) \div (2 * b) >= 0
    BY <2>1, DivBounds
  <2> QED
    BY <2>2 DEF Quotient
<1>4. ASSUME NEW i \in 1 .. n - 1
      PROVE  others[i] \in Nat
  <2>1. CASE model = 1
    <3>1. n \in Nat \ {0} /\ One \in Nat
      BY <1>0 DEF One
    <3>2. others[i] = Quotient(One, n)
      BY <1>1, <2>1 DEF Part
    <3> QED
      BY <1>3, <3>1, <3>2
  <2>2. CASE model = 2
    <3>1. n <= Len(Model2Weights) /\ Len(Model2Weights) \in Nat
      BY <1>0, <2>2
    <3>2. \A k \in 1 .. n : Model2Weights[k] \in Nat /\ Model2Weights[k] > 0
      <4>1. \A k \in 1 .. Len(Model2Weights) : Model2Weights[k] \in Nat \ {0}
        BY <1>0, ElementOfSeq
      <4> QED
        BY <3>1, <4>1
    <3>3. Total(n, Model2Weights) \in Int /\ Total(n, Model2Weights) > 0
      <4>1. n \in 1 .. n /\ Model2Weights[n] > 0
        BY <1>0, <3>2
      <4> QED
        BY <1>0, <3>2, <4>1, TotalPositive, TotalType
    <3>4. One * Model2Weights[i] \in Nat /\ Total(n, Model2Weights) \in Nat \ {0}
      <4>1. i \in 1 .. n
        BY <1>0
      <4> QED
        BY <3>2, <3>3, <4>1 DEF One
    <3>5. others[i] = Quotient(One * Model2Weights[i], Total(n, Model2Weights))
      BY <1>1, <2>2 DEF Part
    <3> QED
      BY <1>3, <3>4, <3>5
  <2> QED
    BY <2>1, <2>2
<1>5. Total(n - 1, others) \in Int
  <2>1. \A i \in 1 .. n - 1 : others[i] \in Int
    BY <1>4
  <2> QED
    BY <1>0, <2>1, TotalType
<1>6. \A i \in 1 .. n - 1 : F[i] = others[i] /\ others[i] \in Int
  <2> TAKE i \in 1 .. n - 1
  <2>1. i \in 1 .. n /\ i < n
    BY <1>0
  <2> QED
    BY <1>2, <1>4, <2>1
<1>7. F[n] = One - Total(n - 1, others)
  BY <1>0, <1>2
<1>8. F[n] \in Int /\ F[n] >= 0
  <2>1. F[n] \in Int
    BY <1>5, <1>7 DEF One
  <2> QED
    BY <1>1, <2>1, PrecisionSuffices
<1>9. \A i \in 1 .. n : F[i] \in Int /\ F[i] >= 0
  <2> TAKE i \in 1 .. n
  <2>1. i = n \/ i \in 1 .. n - 1
    BY <1>0
  <2> QED
    BY <1>4, <1>6, <1>8, <2>1
<1>10. Total(n, F) = One
  <2>1. Total(n - 1, F) = Total(n - 1, others)
    BY <1>0, <1>6, TotalSame
  <2>2. n - 1 + 1 = n
    BY <1>0
  <2>3. Total(n, F) = Total(n - 1, F) + F[n]
    BY <1>0, <1>9, <2>2, TotalStep
  <2> QED
    BY <1>5, <1>7, <2>1, <2>3 DEF One
<1> QED
  BY <1>1, <1>9, <1>10

-----------------------------------------------------------------------------
(* Quantities of the legs.                                                  *)

Multiple(step, q) == \E a \in Int : q = a * step

LEMMA MultiplesAdd ==
  ASSUME NEW step \in Nat \ {0}, NEW p, NEW q, Multiple(step, p), Multiple(step, q)
  PROVE  Multiple(step, p + q) /\ Multiple(step, p - q) /\ p \in Int /\ p % step = 0
<1>1. PICK a \in Int : p = a * step
  BY DEF Multiple
<1>2. PICK b \in Int : q = b * step
  BY DEF Multiple
<1>3. p + q = (a + b) * step /\ p - q = (a - b) * step /\ a + b \in Int /\ a - b \in Int
  BY <1>1, <1>2
<1>4. Multiple(step, p + q) /\ Multiple(step, p - q)
  BY <1>3 DEF Multiple
<1>5. (a * step) % step = 0 /\ a * step \in Int
  BY DivOfMultiple
<1> QED
  BY <1>1, <1>4, <1>5

\* The quantities are multiples of the step and make up the whole.
LEMMA QuantitiesType ==
  ASSUME NEW n \in Nat \ {0}, NEW fr, DOMAIN fr = 1 .. n,
         \A i \in 1 .. n : fr[i] \in Int /\ fr[i] >= 0, Total(n, fr) = One,
         NEW step \in Nat \ {0}, NEW qty \in Nat, Multiple(step, qty)
  PROVE  /\ \A i \in 1 .. n : /\ LegQuantities(qty, fr, step)[i] \in Nat
                              /\ Multiple(step, LegQuantities(qty, fr, step)[i])
         /\ Total(n, LegQuantities(qty, fr, step)) = qty
<1>0. n \in Nat /\ step \in Int /\ qty \in Int /\ One \in Nat \ {0} /\ One \in Int
  BY DEF One
<1>a. n \in Nat /\ n >= 1
  OBVIOUS
<1>1. PICK share, floors, qs, g :
        /\ share = [i \in 1 .. n |-> (qty * fr[i]) \div One]
        /\ floors = [i \in 1 .. n |-> FloorTo(step, (qty * fr[i]) \div One)]
        /\ g = [i \in 1 .. n |-> share[i] \div step]
        /\ qs = LegQuantities(qty, fr, step)
  OBVIOUS
<1>2. ASSUME NEW i \in 1 .. n
      PROVE  /\ g[i] \in Int /\ floors[i] = step * g[i] /\ floors[i] \in Nat
             /\ Multiple(step, floors[i]) /\ One * floors[i] <= qty * fr[i]
             /\ qty * fr[i] \in Int
  <2>1. qty * fr[i] \in Int /\ qty * fr[i] >= 0
    OBVIOUS
  <2>2. share[i] \in Int /\ share[i] >= 0 /\ share[i] * One <= qty * fr[i]
    <3>1. PICK x : x = qty * fr[i]
      OBVIOUS
    <3>2. x \in Int /\ x >= 0 /\ share[i] = x \div One
      BY <1>1, <2>1, <3>1
    <3>3. x \div One \in Int /\ x \div One >= 0 /\ (x \div One) * One <= x
      BY <1>0, <3>2, DivBounds
    <3> QED
      BY <3>1, <3>2, <3>3
  <2>3. g[i] \in Int /\ g[i] >= 0 /\ g[i] * step <= share[i]
    BY <1>1, <2>2, DivBounds
  <2>4. floors[i] = g[i] * step
    BY <1>1 DEF FloorTo
  <2>5. g[i] * step \in Int /\ g[i] * step >= 0 /\ g[i] * step = step * g[i]
    BY <2>3
  <2>6. One * floors[i] <= qty * fr[i]
    <3>1. PICK x, y, z : x = floors[i] /\ y = qty * fr[i] /\ z = share[i]
      OBVIOUS
    <3>2. x \in Int /\ y \in Int /\ z \in Int /\ z * One <= y /\ x <= z
      BY <2>1, <2>2, <2>3, <2>4, <2>5, <3>1
    <3>3. One * x <= y
      BY <3>2 DEF One
    <3> QED
      BY <3>1, <3>3
  <2>7. Multiple(step, floors[i])
    BY <2>3, <2>4 DEF Multiple
  <2>8. floors[i] = step * g[i] /\ floors[i] \in Nat
    BY <2>4, <2>5
  <2> QED
    BY <2>1, <2>3, <2>6, <2>7, <2>8
<1>3. Total(n, floors) \in Int
  <2>1. \A i \in 1 .. n : floors[i] \in Int
    BY <1>2
  <2> QED
    BY <1>0, <2>1, TotalType
<1>4. Multiple(step, Total(n, floors))
  <2>1. Total(n, floors) = step * Total(n, g) /\ Total(n, g) \in Int
    <3>1. \A i \in 1 .. n : g[i] \in Int /\ floors[i] = step * g[i]
      BY <1>2
    <3>2. Total(n, g) \in Int
      BY <1>0, <3>1, TotalType
    <3>3. PICK c : c = step
      OBVIOUS
    <3>4. c \in Int /\ \A i \in 1 .. n : g[i] \in Int /\ floors[i] = c * g[i]
      BY <1>0, <3>1, <3>3
    <3>5. Total(n, floors) = c * Total(n, g)
      BY <1>0, <3>4, TotalScale
    <3> QED
      BY <3>2, <3>3, <3>5
  <2>2. step * Total(n, g) = Total(n, g) * step
    BY <2>1
  <2> QED
    BY <2>1, <2>2 DEF Multiple
<1>5. Total(n, floors) <= qty
  <2>1. PICK up, down : /\ up = [i \in 1 .. n |-> qty * fr[i]]
                        /\ down = [i \in 1 .. n |-> One * floors[i]]
    OBVIOUS
  <2>2. Total(n, up) = qty * Total(n, fr)
    <3>1. PICK c : c = qty
      OBVIOUS
    <3>2. c \in Int /\ \A i \in 1 .. n : fr[i] \in Int /\ up[i] = c * fr[i]
      BY <1>0, <2>1, <3>1
    <3>3. Total(n, up) = c * Total(n, fr)
      BY <1>a, <3>2, TotalScale
    <3> QED
      BY <3>1, <3>3
  <2>3. Total(n, down) = One * Total(n, floors)
    <3>1. \A i \in 1 .. n : floors[i] \in Int /\ down[i] = One * floors[i]
      BY <1>2, <2>1
    <3> QED
      BY <1>0, <3>1, TotalScale
  <2>4. \A i \in 1 .. n : down[i] \in Int /\ up[i] \in Int /\ down[i] <= up[i]
    BY <1>2, <2>1 DEF One
  <2>5. Total(n, down) <= Total(n, up)
    BY <1>0, <2>4, TotalMonotonic
  <2>6. One * Total(n, floors) <= qty * One
    BY <2>2, <2>3, <2>5
  <2> QED
    BY <1>3, <2>6 DEF One
<1>6. qs = [floors EXCEPT ![1] = @ + qty - Total(n, floors)]
  <2>1. Len(floors) = n
    BY <1>1
  <2>2. floors = [i \in DOMAIN fr |-> FloorTo(step, (qty * fr[i]) \div One)]
    BY <1>1
  <2> QED
    BY <1>1, <2>1, <2>2 DEF LegQuantities, WithRest
<1>7. DOMAIN floors = 1 .. n /\ 1 \in 1 .. n
  BY <1>1
<1>8. qs[1] = floors[1] + qty - Total(n, floors) /\ \A i \in 1 .. n : i # 1 => qs[i] = floors[i]
  BY <1>6, <1>7
<1>9. qs[1] \in Nat /\ Multiple(step, qs[1])
  <2>1. floors[1] \in Nat /\ Multiple(step, floors[1])
    BY <1>2, <1>7
  <2>2. Multiple(step, qty - Total(n, floors))
    BY <1>4, MultiplesAdd
  <2>3. Multiple(step, floors[1] + qty - Total(n, floors))
    BY <2>1, <2>2, MultiplesAdd
  <2> QED
    BY <1>3, <1>5, <1>8, <2>1, <2>3
<1>10. ASSUME NEW i \in 1 .. n
       PROVE  qs[i] \in Nat /\ Multiple(step, qs[i])
  BY <1>2, <1>8, <1>9
<1>11. Total(n, qs) = qty
  <2>1. \A k \in 1 .. n : floors[k] \in Int /\ qs[k] \in Int /\ (k # 1 => qs[k] = floors[k])
    BY <1>2, <1>8, <1>10
  <2>2. Total(n, qs) = Total(n, floors) + qs[1] - floors[1]
    BY <1>a, <2>1, TotalFirst
  <2>3. floors[1] \in Int
    BY <1>7, <2>1
  <2> QED
    BY <1>3, <1>8, <2>2, <2>3
<1> QED
  BY <1>1, <1>10, <1>11

-----------------------------------------------------------------------------
(* Merging.                                                                 *)

Leg == [index : Nat, price : Nat, fraction : Int, qty : Nat]

\* A leg for one of the first n targets that can be placed.
Placeable(f, prices, n, leg) ==
  /\ leg.index \in 1 .. n /\ leg.price = prices[leg.index]
  /\ MeetsMinimums(f, leg.qty, leg.price) /\ Multiple(f.step, leg.qty)

LegsOk(f, prices, n, legs) ==
  /\ legs \in Seq(Leg)
  /\ \A k \in 1 .. Len(legs) : Placeable(f, prices, n, legs[k])
  /\ \A k \in 1 .. Len(legs) - 1 : legs[k].index < legs[k + 1].index

QtyOf(legs) == Total(Len(legs), [k \in DOMAIN legs |-> legs[k].qty])
FractionOf(legs) == Total(Len(legs), [k \in DOMAIN legs |-> legs[k].fraction])

IsFilter(f) == /\ f.tick \in Nat \ {0} /\ f.step \in Nat \ {0}
               /\ f.minQty \in Nat /\ f.minNotional \in Nat

LEMMA SumsOfLegs ==
  ASSUME NEW legs \in Seq(Leg)
  PROVE  QtyOf(legs) \in Int /\ FractionOf(legs) \in Int
<1>1. Len(legs) \in Nat /\ \A k \in 1 .. Len(legs) : legs[k] \in Leg
  BY ElementOfSeq, LenProperties
<1>2. \A k \in 1 .. Len(legs) : legs[k].qty \in Int /\ legs[k].fraction \in Int
  BY <1>1 DEF Leg
<1>3. DOMAIN legs = 1 .. Len(legs)
  OBVIOUS
<1> QED
  BY <1>1, <1>2, <1>3, TotalType DEF QtyOf, FractionOf

LEMMA MoreIsEnough ==
  ASSUME NEW f, IsFilter(f), NEW price \in Nat, NEW a \in Nat, NEW b \in Nat,
         MeetsMinimums(f, a, price)
  PROVE  MeetsMinimums(f, a + b, price)
<1>1. b * price >= 0 /\ a * price \in Int /\ b * price \in Int
  OBVIOUS
<1>2. (a + b) * price = a * price + b * price
  OBVIOUS
<1> QED
  BY <1>1, <1>2 DEF MeetsMinimums, IsFilter

LEMMA AddToLastOk ==
  ASSUME NEW f, IsFilter(f), NEW prices, NEW n \in Nat, NEW legs, LegsOk(f, prices, n, legs),
         legs # <<>>, NEW fraction \in Int, NEW q \in Nat, Multiple(f.step, q)
  PROVE  /\ LegsOk(f, prices, n, AddToLast(legs, fraction, q))
         /\ AddToLast(legs, fraction, q) # <<>>
         /\ QtyOf(AddToLast(legs, fraction, q)) = QtyOf(legs) + q
         /\ FractionOf(AddToLast(legs, fraction, q)) = FractionOf(legs) + fraction
<1>1. PICK m, new : m = Len(legs) /\ new = AddToLast(legs, fraction, q)
  OBVIOUS
<1>2. legs \in Seq(Leg) /\ m \in Nat /\ m >= 1 /\ \A k \in 1 .. m : legs[k] \in Leg
  <2>1. legs \in Seq(Leg)
    BY DEF LegsOk
  <2> QED
    BY <1>1, <2>1, ElementOfSeq
<1>3. \A k \in 1 .. m : /\ legs[k].index \in Nat /\ legs[k].price \in Nat
                        /\ legs[k].fraction \in Int /\ legs[k].qty \in Nat
  BY <1>2 DEF Leg
<1>4. PICK old, last : old = legs[m] /\ last = [old EXCEPT !.fraction = @ + fraction, !.qty = @ + q]
  OBVIOUS
<1>5. /\ last \in Leg /\ last.index = legs[m].index /\ last.price = legs[m].price
      /\ last.fraction = legs[m].fraction + fraction /\ last.qty = legs[m].qty + q
  <2>1. old \in Leg
    BY <1>2, <1>4
  <2>2. /\ last = [index |-> old.index, price |-> old.price,
                   fraction |-> old.fraction + fraction, qty |-> old.qty + q]
        /\ old.index \in Nat /\ old.price \in Nat /\ old.fraction \in Int /\ old.qty \in Nat
    BY <1>4, <2>1 DEF Leg
  <2>3. old.fraction + fraction \in Int /\ old.qty + q \in Nat
    BY <2>2
  <2> QED
    BY <1>4, <2>2, <2>3 DEF Leg
<1>6. new = [legs EXCEPT ![m] = last]
  <2>1. new = [legs EXCEPT ![Len(legs)] =
                [legs[Len(legs)] EXCEPT !.fraction = @ + fraction, !.qty = @ + q]]
    BY <1>1 DEF AddToLast
  <2> QED
    BY <1>1, <1>4, <2>1
<1>7. /\ new \in Seq(Leg) /\ Len(new) = m /\ new[m] = last
      /\ \A k \in 1 .. m : k # m => new[k] = legs[k]
  BY <1>1, <1>2, <1>5, <1>6
<1>8. \A k \in 1 .. m : new[k].index = legs[k].index
  BY <1>5, <1>7
<1>9. ASSUME NEW k \in 1 .. m
      PROVE  Placeable(f, prices, n, new[k])
  <2>1. Placeable(f, prices, n, legs[k])
    BY <1>1 DEF LegsOk
  <2>2. CASE k = m
    <3>1. MeetsMinimums(f, last.qty, last.price)
      BY <1>3, <1>5, <2>1, <2>2, MoreIsEnough DEF Placeable
    <3>2. Multiple(f.step, last.qty)
      BY <1>5, <2>1, <2>2, MultiplesAdd DEF Placeable, IsFilter
    <3> QED
      BY <1>5, <1>7, <2>1, <2>2, <3>1, <3>2 DEF Placeable
  <2>3. CASE k # m
    BY <1>7, <2>1, <2>3
  <2> QED
    BY <2>2, <2>3
<1>10. ASSUME NEW k \in 1 .. m - 1
       PROVE  new[k].index < new[k + 1].index
  <2>1. k \in 1 .. m /\ k + 1 \in 1 .. m /\ k \in 1 .. Len(legs) - 1
    BY <1>1, <1>2
  <2>2. legs[k].index < legs[k + 1].index
    BY <2>1 DEF LegsOk
  <2> QED
    BY <1>8, <2>1, <2>2
<1>11. LegsOk(f, prices, n, new)
  BY <1>7, <1>9, <1>10 DEF LegsOk
<1>12. DOMAIN legs = 1 .. m /\ DOMAIN new = 1 .. m
  BY <1>1, <1>2, <1>7
<1>13. QtyOf(new) = QtyOf(legs) + q
  <2>1. PICK a, b : /\ a = [k \in 1 .. m |-> legs[k].qty]
                    /\ b = [k \in 1 .. m |-> new[k].qty]
    OBVIOUS
  <2>2. /\ \A k \in 1 .. m : a[k] \in Int /\ b[k] \in Int /\ (k # m => b[k] = a[k])
        /\ m \in 1 .. m /\ b[m] = a[m] + q
    BY <1>2, <1>3, <1>5, <1>7, <2>1
  <2>3. Total(m, b) = Total(m, a) + b[m] - a[m] /\ Total(m, a) \in Int
    BY <1>2, <2>2, TotalExcept, TotalType
  <2>4. a[m] \in Int
    BY <2>2
  <2> QED
    <3>1. QtyOf(legs) = Total(m, a) /\ QtyOf(new) = Total(m, b)
      BY <1>1, <1>7, <1>12, <2>1 DEF QtyOf
    <3> QED
      BY <2>2, <2>3, <2>4, <3>1
<1>14. FractionOf(new) = FractionOf(legs) + fraction
  <2>1. PICK a, b : /\ a = [k \in 1 .. m |-> legs[k].fraction]
                    /\ b = [k \in 1 .. m |-> new[k].fraction]
    OBVIOUS
  <2>2. /\ \A k \in 1 .. m : a[k] \in Int /\ b[k] \in Int /\ (k # m => b[k] = a[k])
        /\ m \in 1 .. m /\ b[m] = a[m] + fraction
    BY <1>2, <1>3, <1>5, <1>7, <2>1
  <2>3. Total(m, b) = Total(m, a) + b[m] - a[m] /\ Total(m, a) \in Int
    BY <1>2, <2>2, TotalExcept, TotalType
  <2>4. a[m] \in Int
    BY <2>2
  <2> QED
    <3>1. FractionOf(legs) = Total(m, a) /\ FractionOf(new) = Total(m, b)
      BY <1>1, <1>7, <1>12, <2>1 DEF FractionOf
    <3> QED
      BY <2>2, <2>3, <2>4, <3>1
<1>15. new # <<>>
  BY <1>2, <1>7
<1> QED
  BY <1>1, <1>11, <1>13, <1>14, <1>15

\* A leg that can be placed after the others, and is.
ComesAfter(f, prices, n, legs, leg, new) ==
  /\ new = Append(legs, leg)
  /\ LegsOk(f, prices, n, legs)
  /\ leg \in Leg /\ Placeable(f, prices, n, leg)
  /\ \A k \in 1 .. Len(legs) : legs[k].index < leg.index

LEMMA AppendOk ==
  ASSUME NEW f, NEW prices, NEW n \in Nat, NEW legs, NEW leg, NEW new,
         ComesAfter(f, prices, n, legs, leg, new)
  PROVE  /\ LegsOk(f, prices, n, new)
         /\ QtyOf(new) = QtyOf(legs) + leg.qty
         /\ FractionOf(new) = FractionOf(legs) + leg.fraction
<1>0. /\ new = Append(legs, leg)
      /\ LegsOk(f, prices, n, legs) /\ leg \in Leg /\ Placeable(f, prices, n, leg)
      /\ \A k \in 1 .. Len(legs) : legs[k].index < leg.index
  BY DEF ComesAfter
<1>1. PICK m : m = Len(legs)
  OBVIOUS
<1>2. legs \in Seq(Leg) /\ m \in Nat /\ \A k \in 1 .. m : legs[k] \in Leg
  <2>1. legs \in Seq(Leg)
    BY <1>0 DEF LegsOk
  <2> QED
    BY <1>1, <2>1, ElementOfSeq, LenProperties
<1>3. /\ new \in Seq(Leg) /\ Len(new) = m + 1 /\ new[m + 1] = leg
      /\ \A k \in 1 .. m : new[k] = legs[k]
  BY <1>0, <1>1, <1>2, AppendProperties
<1>4. \A k \in 1 .. m + 1 : k = m + 1 \/ k \in 1 .. m
  BY <1>2
<1>5. \A k \in 1 .. m + 1 : Placeable(f, prices, n, new[k])
  BY <1>0, <1>1, <1>3, <1>4 DEF LegsOk
<1>6. ASSUME NEW k \in 1 .. m
      PROVE  new[k].index < new[k + 1].index
  <2>1. CASE k = m
    BY <1>0, <1>1, <1>3, <2>1
  <2>2. CASE k # m
    <3>1. k \in 1 .. Len(legs) - 1 /\ k + 1 \in 1 .. m
      BY <1>1, <1>2, <2>2
    <3>2. legs[k].index < legs[k + 1].index
      BY <1>0, <3>1 DEF LegsOk
    <3> QED
      BY <1>3, <3>1, <3>2
  <2> QED
    BY <2>1, <2>2
<1>7. LegsOk(f, prices, n, new)
  <2>1. Len(new) - 1 = m
    BY <1>2, <1>3
  <2> QED
    BY <1>3, <1>5, <1>6, <2>1 DEF LegsOk
<1>8. DOMAIN legs = 1 .. m /\ DOMAIN new = 1 .. m + 1
  BY <1>1, <1>2, <1>3
<1>9. \A k \in 1 .. m + 1 : new[k] \in Leg
  BY <1>0, <1>2, <1>3, <1>4
<1>10. \A k \in 1 .. m + 1 : new[k].qty \in Int /\ new[k].fraction \in Int
  <2>1. \A l \in Leg : l.qty \in Int /\ l.fraction \in Int
    BY DEF Leg
  <2> QED
    BY <1>9, <2>1
<1>11. QtyOf(new) = QtyOf(legs) + leg.qty
  <2>1. PICK a, b : /\ a = [k \in 1 .. m |-> legs[k].qty]
                    /\ b = [k \in 1 .. m + 1 |-> new[k].qty]
    OBVIOUS
  <2>2. \A k \in 1 .. m + 1 : b[k] \in Int
    BY <1>10, <2>1
  <2>3. Total(m + 1, b) = Total(m, b) + b[m + 1]
    BY <1>2, <2>2, TotalStep
  <2>4. \A k \in 1 .. m : b[k] \in Int /\ a[k] = b[k]
    BY <1>2, <1>3, <1>10, <2>1
  <2>5. Total(m, a) = Total(m, b)
    BY <1>2, <2>4, TotalSame
  <2>6. b[m + 1] = leg.qty
    BY <1>2, <1>3, <2>1
  <2> QED
    BY <1>1, <1>3, <1>8, <2>1, <2>3, <2>5, <2>6 DEF QtyOf
<1>12. FractionOf(new) = FractionOf(legs) + leg.fraction
  <2>1. PICK a, b : /\ a = [k \in 1 .. m |-> legs[k].fraction]
                    /\ b = [k \in 1 .. m + 1 |-> new[k].fraction]
    OBVIOUS
  <2>2. \A k \in 1 .. m + 1 : b[k] \in Int
    BY <1>10, <2>1
  <2>3. Total(m + 1, b) = Total(m, b) + b[m + 1]
    BY <1>2, <2>2, TotalStep
  <2>4. \A k \in 1 .. m : b[k] \in Int /\ a[k] = b[k]
    BY <1>2, <1>3, <1>10, <2>1
  <2>5. Total(m, a) = Total(m, b)
    BY <1>2, <2>4, TotalSame
  <2>6. b[m + 1] = leg.fraction
    BY <1>2, <1>3, <2>1
  <2> QED
    BY <1>1, <1>3, <1>8, <2>1, <2>3, <2>5, <2>6 DEF FractionOf
<1> QED
  BY <1>1, <1>7, <1>11, <1>12

\* What is placed and what is gathered after the first i targets.
Gathering == [legs : Seq(Leg), start : Nat, fraction : Int, qty : Nat]

Gathered(f, prices, fractions, qs, i, acc) ==
  /\ acc \in Gathering
  /\ LegsOk(f, prices, i, acc.legs)
  /\ acc.start \in 0 .. i
  /\ acc.start # 0 => \A k \in 1 .. Len(acc.legs) : acc.legs[k].index < acc.start
  /\ acc.start = 0 => acc.fraction = 0 /\ acc.qty = 0
  /\ Multiple(f.step, acc.qty)
  /\ QtyOf(acc.legs) + acc.qty = Total(i, qs)
  /\ FractionOf(acc.legs) + acc.fraction = Total(i, fractions)

LEMMA LegsOkOfMore ==
  ASSUME NEW f, NEW prices, NEW n \in Nat, NEW legs, LegsOk(f, prices, n, legs)
  PROVE  LegsOk(f, prices, n + 1, legs)
<1>1. 1 .. n \subseteq 1 .. n + 1
  OBVIOUS
<1>2. \A k \in 1 .. Len(legs) : Placeable(f, prices, n + 1, legs[k])
  BY <1>1 DEF LegsOk, Placeable
<1> QED
  BY <1>2 DEF LegsOk

LEMMA GatherKeeps ==
  ASSUME NEW f, IsFilter(f), NEW prices, NEW fractions, NEW qs, NEW n \in Nat, NEW i \in Nat,
         i + 1 <= n,
         \A k \in 1 .. n : /\ prices[k] \in Nat /\ fractions[k] \in Int
                           /\ qs[k] \in Nat /\ Multiple(f.step, qs[k]),
         NEW acc, Gathered(f, prices, fractions, qs, i, acc)
  PROVE  Gathered(f, prices, fractions, qs, i + 1,
                  Gather(f, prices, acc, i + 1, fractions[i + 1], qs[i + 1]))
<1>0. PICK j, fr, q, legs, new :
        /\ j = i + 1 /\ fr = fractions[i + 1] /\ q = qs[i + 1] /\ legs = acc.legs
        /\ new = Gather(f, prices, acc, i + 1, fractions[i + 1], qs[i + 1])
  OBVIOUS
<1>1. /\ j \in Nat /\ j >= 1 /\ j \in 1 .. n /\ fr \in Int /\ q \in Nat
      /\ Multiple(f.step, q)
  BY <1>0
<1>2. /\ acc.start \in 0 .. i /\ acc.fraction \in Int /\ acc.qty \in Nat
      /\ legs \in Seq(Leg) /\ LegsOk(f, prices, j, legs)
      /\ Multiple(f.step, acc.qty)
  BY <1>0, LegsOkOfMore DEF Gathered, Gathering
<1>3. Total(j, qs) = Total(i, qs) + q /\ Total(i, qs) \in Int
  <2>1. \A k \in 1 .. i + 1 : qs[k] \in Int
    OBVIOUS
  <2>2. \A k \in 1 .. i : qs[k] \in Int
    OBVIOUS
  <2> QED
    BY <1>0, <2>1, <2>2, TotalStep, TotalType
<1>4. Total(j, fractions) = Total(i, fractions) + fr /\ Total(i, fractions) \in Int
  <2>1. \A k \in 1 .. i + 1 : fractions[k] \in Int
    OBVIOUS
  <2>2. \A k \in 1 .. i : fractions[k] \in Int
    OBVIOUS
  <2> QED
    BY <1>0, <2>1, <2>2, TotalStep, TotalType
<1>5. QtyOf(legs) \in Int /\ FractionOf(legs) \in Int
  BY <1>2, SumsOfLegs
<1>6. /\ QtyOf(legs) + acc.qty + q = Total(j, qs)
      /\ FractionOf(legs) + acc.fraction + fr = Total(j, fractions)
  BY <1>0, <1>1, <1>2, <1>3, <1>4, <1>5 DEF Gathered
<1>7. PICK start, fraction, qty :
        /\ start = (IF acc.start = 0 THEN j ELSE acc.start)
        /\ fraction = acc.fraction + fr /\ qty = acc.qty + q
  OBVIOUS
<1>a. PICK all : all = [acc EXCEPT !.start = IF @ = 0 THEN j ELSE @,
                                   !.fraction = @ + fr, !.qty = @ + q]
  OBVIOUS
<1>8. all = [legs |-> legs, start |-> start, fraction |-> fraction, qty |-> qty]
  BY <1>0, <1>7, <1>a DEF Gathered, Gathering
<1>9. /\ start \in 1 .. j /\ fraction \in Int /\ qty \in Nat /\ Multiple(f.step, qty)
      /\ QtyOf(legs) + qty = Total(j, qs)
      /\ FractionOf(legs) + fraction = Total(j, fractions)
  <2>1. start \in 1 .. j
    BY <1>0, <1>1, <1>2, <1>7
  <2>2. fraction \in Int /\ qty \in Nat
    BY <1>1, <1>2, <1>7
  <2>3. Multiple(f.step, qty)
    BY <1>1, <1>2, <1>7, MultiplesAdd DEF IsFilter
  <2>4. QtyOf(legs) + qty = Total(j, qs) /\ FractionOf(legs) + fraction = Total(j, fractions)
    <3>1. \A a, b, c \in Int : a + b + c = a + (b + c)
      OBVIOUS
    <3>2. acc.qty \in Int /\ acc.fraction \in Int /\ q \in Int /\ fr \in Int
      BY <1>1, <1>2
    <3> QED
      BY <1>5, <1>6, <1>7, <3>1, <3>2
  <2> QED
    BY <2>1, <2>2, <2>3, <2>4
<1>10. \A k \in 1 .. Len(legs) : legs[k].index < start
  <2> TAKE k \in 1 .. Len(legs)
  <2>1. CASE acc.start = 0
    <3>1. LegsOk(f, prices, i, acc.legs)
      BY DEF Gathered
    <3>2. legs[k].index \in 1 .. i
      BY <1>0, <3>1 DEF LegsOk, Placeable
    <3> QED
      BY <1>0, <1>7, <2>1, <3>2
  <2>2. CASE acc.start # 0
    BY <1>0, <1>7, <2>2 DEF Gathered
  <2> QED
    BY <2>1, <2>2
<1>11. prices[start] \in Nat /\ start \in Nat
  BY <1>1, <1>9
<1>12. new = IF ~ MeetsMinimums(f, qty, prices[start]) THEN all
             ELSE IF legs # <<>> /\ j # start
               THEN NothingGathered(AddToLast(legs, fraction, qty))
             ELSE NothingGathered(Append(legs,
                    [index |-> start, price |-> prices[start],
                     fraction |-> fraction, qty |-> qty]))
  BY <1>0, <1>7, <1>8, <1>a DEF Gather
<1>13. CASE ~ MeetsMinimums(f, qty, prices[start])
  <2>1. new = [legs |-> legs, start |-> start, fraction |-> fraction, qty |-> qty]
    BY <1>8, <1>12, <1>13
  <2>2. new \in Gathering /\ start \in 0 .. j /\ start # 0
    BY <1>2, <1>9, <1>11, <2>1 DEF Gathering
  <2>3. Gathered(f, prices, fractions, qs, j, new)
    BY <1>2, <1>9, <1>10, <2>1, <2>2 DEF Gathered
  <2> QED
    BY <1>0, <2>3
<1>14. ASSUME NEW ls, new = NothingGathered(ls), LegsOk(f, prices, j, ls),
              QtyOf(ls) = Total(j, qs), FractionOf(ls) = Total(j, fractions)
       PROVE  Gathered(f, prices, fractions, qs, j, new)
  <2>1. new = [legs |-> ls, start |-> 0, fraction |-> 0, qty |-> 0] /\ ls \in Seq(Leg)
    BY <1>14 DEF NothingGathered, LegsOk
  <2>2. new \in Gathering /\ 0 \in 0 .. j
    BY <1>1, <2>1 DEF Gathering
  <2>3. Multiple(f.step, 0)
    <3>1. 0 = 0 * f.step
      BY DEF IsFilter
    <3> QED
      BY <3>1 DEF Multiple
  <2>4. QtyOf(ls) + 0 = Total(j, qs) /\ FractionOf(ls) + 0 = Total(j, fractions)
    BY <1>14, <2>1, SumsOfLegs
  <2> QED
    BY <1>14, <2>1, <2>2, <2>3, <2>4 DEF Gathered
<1>15. CASE MeetsMinimums(f, qty, prices[start]) /\ legs # <<>> /\ j # start
  <2>1. new = NothingGathered(AddToLast(legs, fraction, qty))
    BY <1>12, <1>15
  <2>2. /\ LegsOk(f, prices, j, AddToLast(legs, fraction, qty))
        /\ QtyOf(AddToLast(legs, fraction, qty)) = QtyOf(legs) + qty
        /\ FractionOf(AddToLast(legs, fraction, qty)) = FractionOf(legs) + fraction
    <3>1. /\ j \in Nat /\ LegsOk(f, prices, j, legs) /\ legs # <<>>
          /\ fraction \in Int /\ qty \in Nat /\ Multiple(f.step, qty)
      BY <1>1, <1>2, <1>9, <1>15
    <3> QED
      BY <3>1, AddToLastOk
  <2>3. Gathered(f, prices, fractions, qs, j, new)
    BY <1>9, <1>14, <2>1, <2>2
  <2> QED
    BY <1>0, <2>3
<1>16. CASE MeetsMinimums(f, qty, prices[start]) /\ ~ (legs # <<>> /\ j # start)
  <2>1. PICK leg : leg = [index |-> start, price |-> prices[start],
                          fraction |-> fraction, qty |-> qty]
    OBVIOUS
  <2>a. PICK more : more = Append(legs, leg)
    OBVIOUS
  <2>2. new = NothingGathered(more)
    BY <1>12, <1>16, <2>1, <2>a
  <2>3. /\ leg \in Leg /\ leg.index = start /\ leg.price = prices[start]
        /\ leg.fraction = fraction /\ leg.qty = qty
    BY <1>9, <1>11, <2>1 DEF Leg
  <2>4. Placeable(f, prices, j, leg) /\ \A k \in 1 .. Len(legs) : legs[k].index < leg.index
    BY <1>9, <1>10, <1>16, <2>3 DEF Placeable
  <2>5. /\ LegsOk(f, prices, j, more)
        /\ QtyOf(more) = QtyOf(legs) + qty
        /\ FractionOf(more) = FractionOf(legs) + fraction
    <3>1. j \in Nat /\ ComesAfter(f, prices, j, legs, leg, more)
      BY <1>1, <1>2, <2>a, <2>3, <2>4 DEF ComesAfter
    <3>2. /\ LegsOk(f, prices, j, more)
          /\ QtyOf(more) = QtyOf(legs) + leg.qty
          /\ FractionOf(more) = FractionOf(legs) + leg.fraction
      BY <3>1, AppendOk
    <3> QED
      BY <2>3, <3>2
  <2>6. Gathered(f, prices, fractions, qs, j, new)
    BY <1>9, <1>14, <2>2, <2>5
  <2> QED
    BY <1>0, <2>6
<1> QED
  BY <1>13, <1>15, <1>16

\* The legs, if any, can be placed and make up the whole.
LEMMA MergedLegsOk ==
  ASSUME NEW f, IsFilter(f), NEW prices \in Seq(Nat), NEW fractions, NEW qs,
         \A k \in 1 .. Len(prices) : /\ fractions[k] \in Int
                                     /\ qs[k] \in Nat /\ Multiple(f.step, qs[k])
  PROVE  /\ LegsOk(f, prices, Len(prices), MergedLegs(f, prices, fractions, qs))
         /\ MergedLegs(f, prices, fractions, qs) # <<>> =>
              /\ QtyOf(MergedLegs(f, prices, fractions, qs)) = Total(Len(prices), qs)
              /\ FractionOf(MergedLegs(f, prices, fractions, qs)) = Total(Len(prices), fractions)
<1> DEFINE n == Len(prices)
           T == Gathering
           c == NothingGathered(<<>>)
           F == [i \in 1 .. n |-> [acc \in T |->
                  IF Gathered(f, prices, fractions, qs, i - 1, acc)
                  THEN Gather(f, prices, acc, i, fractions[i], qs[i]) ELSE acc]]
<1>0. /\ n \in Nat
      /\ \A k \in 1 .. n : /\ prices[k] \in Nat /\ fractions[k] \in Int
                           /\ qs[k] \in Nat /\ Multiple(f.step, qs[k])
  BY ElementOfSeq
<1> HIDE DEF n
<1>1. ASSUME NEW i \in 1 .. n, NEW acc, Gathered(f, prices, fractions, qs, i - 1, acc)
      PROVE  Gathered(f, prices, fractions, qs, i,
                      Gather(f, prices, acc, i, fractions[i], qs[i]))
  <2>1. PICK j : j = i - 1
    OBVIOUS
  <2>2. j \in Nat /\ j + 1 <= n /\ j + 1 = i
    BY <1>0, <2>1
  <2>3. Gathered(f, prices, fractions, qs, j, acc)
    BY <1>1, <2>1
  <2>4. Gathered(f, prices, fractions, qs, j + 1,
                 Gather(f, prices, acc, j + 1, fractions[j + 1], qs[j + 1]))
    BY <1>0, <2>2, <2>3, GatherKeeps
  <2> QED
    BY <2>2, <2>4
<1>2. Gathered(f, prices, fractions, qs, 0, c)
  <2>1. c = [legs |-> <<>>, start |-> 0, fraction |-> 0, qty |-> 0] /\ <<>> \in Seq(Leg)
        /\ Len(<<>>) = 0
    BY DEF NothingGathered
  <2>2. c \in Gathering
    <3> HIDE DEF c
    <3> QED
      BY <2>1 DEF Gathering
  <2>3. Multiple(f.step, 0)
    <3>1. 0 = 0 * f.step
      BY DEF IsFilter
    <3> QED
      BY <3>1 DEF Multiple
  <2>4. QtyOf(<<>>) = 0 /\ FractionOf(<<>>) = 0 /\ Total(0, qs) = 0 /\ Total(0, fractions) = 0
    BY <2>1, TotalNone DEF QtyOf, FractionOf
  <2>5. LegsOk(f, prices, 0, <<>>)
    BY <2>1 DEF LegsOk
  <2> HIDE DEF c
  <2> QED
    BY <2>1, <2>2, <2>3, <2>4, <2>5 DEF Gathered
<1>3. F \in [1 .. n -> [T -> T]]
  <2>1. ASSUME NEW i \in 1 .. n, NEW acc \in T
        PROVE  (IF Gathered(f, prices, fractions, qs, i - 1, acc)
                THEN Gather(f, prices, acc, i, fractions[i], qs[i]) ELSE acc) \in T
    BY <1>1 DEF Gathered
  <2> QED
    BY <2>1
<1>4. c \in T
  BY <1>2 DEF Gathered
<1> HIDE DEF T, c
<1>5. PICK s : Loop(n, T, c, F, s)
  BY <1>0, <1>3, <1>4, LoopExists
<1>6. /\ s[0] = c /\ s = [i \in 0 .. n |-> s[i]]
      /\ \A i \in 1 .. n : s[i - 1] \in T /\ s[i] = F[i][s[i - 1]]
  <2>1. \A i \in 1 .. n : i - 1 \in 0 .. n
    BY <1>0
  <2> QED
    BY <1>5, <2>1 DEF Loop
<1>7. \A i \in 1 .. n : Gathered(f, prices, fractions, qs, i - 1, s[i - 1]) =>
        s[i] = Gather(f, prices, s[i - 1], i, fractions[i], qs[i])
  BY <1>6
<1> HIDE DEF F
<1> DEFINE Good(t) == {i \in 0 .. n : Gathered(f, prices, fractions, qs, i, t[i])}
<1>8. ASSUME NEW t, t[0] = c,
             \A i \in 1 .. n : Gathered(f, prices, fractions, qs, i - 1, t[i - 1]) =>
               t[i] = Gather(f, prices, t[i - 1], i, fractions[i], qs[i])
      PROVE  \A i \in 0 .. n : Gathered(f, prices, fractions, qs, i, t[i])
  <2>1. 0 \in Good(t)
    BY <1>0, <1>2, <1>8
  <2>2. ASSUME NEW i \in 1 .. n, i - 1 \in Good(t)
        PROVE  i \in Good(t)
    <3>1. Gathered(f, prices, fractions, qs, i - 1, t[i - 1])
      BY <2>2
    <3>2. Gathered(f, prices, fractions, qs, i, t[i])
      BY <1>1, <1>8, <3>1
    <3> QED
      BY <1>0, <3>2
  <2>3. \A i \in 0 .. n : i \in Good(t)
    <3> HIDE DEF Good
    <3> QED
      BY <1>0, <2>1, <2>2, Upto
  <2> QED
    BY <2>3
<1>9. \A i \in 1 .. n : s[i] = Gather(f, prices, s[i - 1], i, fractions[i], qs[i])
  <2>1. \A i \in 0 .. n : Gathered(f, prices, fractions, qs, i, s[i])
    BY <1>6, <1>7, <1>8
  <2>2. \A i \in 1 .. n : i - 1 \in 0 .. n
    BY <1>0
  <2> QED
    BY <1>7, <2>1, <2>2
<1>10. s = [i \in 0 .. n |-> IF i = 0 THEN c
              ELSE Gather(f, prices, s[i - 1], i, fractions[i], qs[i])]
  <2>1. \A i \in 0 .. n : i = 0 \/ i \in 1 .. n
    BY <1>0
  <2> QED
    BY <1>6, <1>9, <2>1
<1>b. PICK t :
        /\ t = [i \in 0 .. n |-> IF i = 0 THEN c
                  ELSE Gather(f, prices, t[i - 1], i, fractions[i], qs[i])]
        /\ AllGathered(f, prices, fractions, qs) = t[n]
  BY <1>10 DEF AllGathered, c, n
<1>11. PICK all :
        /\ all = t[n]
        /\ MergedLegs(f, prices, fractions, qs) =
             IF all.start = 0 \/ all.legs = <<>> THEN all.legs
             ELSE AddToLast(all.legs, all.fraction, all.qty)
  BY <1>b DEF MergedLegs
<1>12. t[0] = c /\ \A i \in 1 .. n : t[i] = Gather(f, prices, t[i - 1], i, fractions[i], qs[i])
  <2>1. 0 \in 0 .. n /\ \A i \in 1 .. n : i \in 0 .. n /\ i # 0
    BY <1>0
  <2> QED
    BY <1>b, <2>1
<1>13. Gathered(f, prices, fractions, qs, n, all)
  <2>1. \A i \in 0 .. n : Gathered(f, prices, fractions, qs, i, t[i])
    BY <1>8, <1>12
  <2>2. n \in 0 .. n
    BY <1>0
  <2> QED
    BY <1>11, <2>1, <2>2
<1>14. PICK legs, fraction, qty : legs = all.legs /\ fraction = all.fraction /\ qty = all.qty
  OBVIOUS
<1>15. /\ legs \in Seq(Leg) /\ fraction \in Int /\ qty \in Nat
       /\ LegsOk(f, prices, n, legs) /\ Multiple(f.step, qty)
       /\ QtyOf(legs) + qty = Total(n, qs) /\ FractionOf(legs) + fraction = Total(n, fractions)
       /\ all.start = 0 => fraction = 0 /\ qty = 0
  BY <1>13, <1>14 DEF Gathered, Gathering
<1>16. QtyOf(legs) \in Int /\ FractionOf(legs) \in Int
  BY <1>15, SumsOfLegs
<1> SUFFICES /\ LegsOk(f, prices, n, MergedLegs(f, prices, fractions, qs))
             /\ MergedLegs(f, prices, fractions, qs) # <<>> =>
                  /\ QtyOf(MergedLegs(f, prices, fractions, qs)) = Total(n, qs)
                  /\ FractionOf(MergedLegs(f, prices, fractions, qs)) = Total(n, fractions)
  BY DEF n
<1>17. CASE all.start = 0 \/ legs = <<>>
  <2>1. MergedLegs(f, prices, fractions, qs) = legs
    BY <1>11, <1>14, <1>17
  <2>2. legs # <<>> => QtyOf(legs) = Total(n, qs) /\ FractionOf(legs) = Total(n, fractions)
    BY <1>15, <1>16, <1>17
  <2> QED
    BY <1>15, <2>1, <2>2
<1>18. CASE ~ (all.start = 0 \/ legs = <<>>)
  <2>1. MergedLegs(f, prices, fractions, qs) = AddToLast(legs, fraction, qty)
    BY <1>11, <1>14, <1>18
  <2>2. /\ LegsOk(f, prices, n, AddToLast(legs, fraction, qty))
        /\ QtyOf(AddToLast(legs, fraction, qty)) = QtyOf(legs) + qty
        /\ FractionOf(AddToLast(legs, fraction, qty)) = FractionOf(legs) + fraction
    BY <1>0, <1>15, <1>18, AddToLastOk, SMTT(30)
  <2> QED
    BY <1>15, <2>1, <2>2
<1> QED
  BY <1>17, <1>18

\* The targets of an accepted signal are beyond its entry, the stop is not.
LEMMA TargetsOfAccepted ==
  ASSUME NEW sig, IsSignal(sig), NEW c, c = Sanitized(sig).targets,
         Sanitized(sig).status = "accepted"
  PROVE  /\ c \in Seq(Nat) /\ Len(c) \in Nat /\ Len(c) >= 1 /\ Len(c) <= Len(sig.targets)
         /\ Beyond(sig.side, sig.stop, sig.entry)
         /\ \A i \in 1 .. Len(c) : c[i] \in Nat /\ Beyond(sig.side, sig.entry, c[i])
<1>1. PICK r, en, side : r = RepairedTargets(sig) /\ en = sig.entry /\ side = sig.side
  OBVIOUS
<1>2. /\ r \in Seq(Int) /\ en \in Int /\ Len(r) = Len(sig.targets)
      /\ c \in Ways(side, en, r) /\ c \in Seq(Int) /\ Improving(side, en, c)
      /\ Len(c) \in 1 .. Len(sig.targets)
      /\ Beyond(sig.side, sig.stop, sig.entry)
  BY <1>1, RepairedTargetsType, AcceptedTargets DEF IsSignal, StopOnCorrectSide
<1>3. Len(c) \in Nat /\ Len(sig.targets) \in Nat
  BY <1>2, LenProperties DEF IsSignal
<1>4. \A i \in 1 .. Len(sig.targets) : sig.targets[i] \in Nat
  BY ElementOfSeq DEF IsSignal
<1>5. \A i \in 1 .. Len(r) : r[i] \in Nat
  <2> TAKE i \in 1 .. Len(r)
  <2>1. sig.targets[i] \in Nat /\ i \in DOMAIN sig.targets
    BY <1>2, <1>4 DEF IsSignal
  <2>2. r[i] = Repaired(side, en, sig.targets[i], TwiceMedian(sig.targets))
    BY <1>1, <2>1 DEF RepairedTargets
  <2> QED
    BY <1>2, <2>1, <2>2, RepairedType
<1>6. PICK p \in Seq(1 .. Len(r)) : Len(p) \in 1 .. Len(r) /\ c = ValuesAt(r, p)
  BY <1>2, WayIsRising
<1>7. ASSUME NEW i \in 1 .. Len(c)
      PROVE  c[i] \in Nat /\ Beyond(sig.side, sig.entry, c[i])
  <2>1. Len(c) = Len(p) /\ p[i] \in 1 .. Len(r) /\ c[i] = r[p[i]]
    <3>1. Len(c) = Len(p)
      BY <1>2, <1>6, ValuesType
    <3>2. i \in 1 .. Len(p) /\ DOMAIN p = 1 .. Len(p)
      BY <1>6, <3>1
    <3> QED
      BY <1>6, <3>1, <3>2, ElementOfSeq DEF ValuesAt
  <2>2. Beyond(side, en, c[i])
    BY <1>2, ImprovingIsBeyond
  <2> QED
    BY <1>1, <1>5, <2>1, <2>2
<1>8. c \in Seq(Nat)
  <2>1. c \in [1 .. Len(c) -> Nat]
    BY <1>2, <1>7
  <2> QED
    BY <1>3, <2>1, FunctionIsSeq
<1> QED
  BY <1>2, <1>3, <1>7, <1>8

-----------------------------------------------------------------------------
(* The parts of a plan.                                                     *)

EntryOf(sig, f) == RoundedPrice(sig.side, f.tick, sig.entry)

QtyFor(sig, notional, f) == FloorTo(f.step, notional \div EntryOf(sig, f))

PricesFor(sig, c, f) == [i \in DOMAIN c |-> RoundedPrice(sig.side, f.tick, c[i])]

LegsFor(sig, c, notional, model, f) ==
  MergedLegs(f, PricesFor(sig, c, f), Fractions(model, Len(c)),
             LegQuantities(QtyFor(sig, notional, f), Fractions(model, Len(c)), f.step))

ExitFor(sig, exit, f) ==
  IF sig.side = "LONG" THEN EntryOf(sig, f) + exit ELSE EntryOf(sig, f) - exit

PlanOf(sig, c, notional, model, exit, f) ==
  [status |-> "planned", model |-> model, filters |-> f,
   qty |-> QtyFor(sig, notional, f), entry |-> EntryOf(sig, f),
   stop |-> RoundedPrice(sig.side, f.tick, sig.stop),
   legs |-> IF model = 3 THEN <<>> ELSE LegsFor(sig, c, notional, model, f),
   exit |-> IF model = 3 THEN RoundedPrice(sig.side, f.tick, ExitFor(sig, exit, f)) ELSE 0]

\* What has been checked when there is a plan, and what a refusal says.
LEMMA PlannedCases ==
  ASSUME NEW sig, NEW c, NEW notional, NEW model, NEW exit, NEW f, NEW p,
         p = Planned(sig, c, notional, model, exit, f)
  PROVE  /\ p.status = "planned" =>
              /\ p = PlanOf(sig, c, notional, model, exit, f)
              /\ EntryOf(sig, f) # 0
              /\ ~ QtyFor(sig, notional, f) <= 0
              /\ ~ (model = 2 /\ Len(c) > Len(Model2Weights))
              /\ ~ (model = 3 /\ (exit <= 0 \/ ExitFor(sig, exit, f) <= 0))
              /\ ~ (model # 3 /\ LegsFor(sig, c, notional, model, f) = <<>>)
         /\ p.status = "refused" =>
              \/ p.why \in {"quantity", "notional", "legs", "exit"}
              \/ p.why = "input" /\ ~ ValidInputs(sig, model, c)
              \/ p.why = "price" /\ \E i \in DOMAIN c : c[i] = 0
              \/ p.why = "weights" /\ Len(c) > Len(Model2Weights)
<1>1. PICK entry, qty, legs, exitPrice :
        /\ entry = EntryOf(sig, f) /\ qty = QtyFor(sig, notional, f)
        /\ legs = LegsFor(sig, c, notional, model, f) /\ exitPrice = ExitFor(sig, exit, f)
  OBVIOUS
<1>2. p = IF ~ ValidInputs(sig, model, c) THEN Refused("input")
          ELSE IF entry = 0 THEN DivisionByZero
          ELSE IF qty < f.minQty \/ qty <= 0 THEN Refused("quantity")
          ELSE IF qty * entry < f.minNotional THEN Refused("notional")
          ELSE IF model = 2 /\ Len(c) > Len(Model2Weights) THEN Refused("weights")
          ELSE IF model # 3 /\ (\E i \in DOMAIN c : c[i] = 0) THEN Refused("price")
          ELSE IF model = 3 /\ (exit <= 0 \/ exitPrice <= 0) THEN Refused("exit")
          ELSE IF model # 3 /\ legs = <<>> THEN Refused("legs")
          ELSE PlanOf(sig, c, notional, model, exit, f)
  BY <1>1 DEF Planned, PlanOf, EntryOf, QtyFor, PricesFor, LegsFor, ExitFor
<1>3. PICK made : made = PlanOf(sig, c, notional, model, exit, f)
  OBVIOUS
<1>4. made.status = "planned" /\ DivisionByZero.status = "raised"
      /\ \A w : Refused(w).status = "refused" /\ Refused(w).why = w
  BY <1>3 DEF PlanOf, DivisionByZero, Refused
<1> QED
  BY <1>1, <1>2, <1>3, <1>4

\* The prices of the targets.
LEMMA PricesForType ==
  ASSUME NEW sig, NEW f, IsFilter(f), NEW c \in Seq(Nat)
  PROVE  /\ PricesFor(sig, c, f) \in Seq(Nat) /\ Len(PricesFor(sig, c, f)) = Len(c)
         /\ \A i \in 1 .. Len(c) :
              PricesFor(sig, c, f)[i] = RoundedPrice(sig.side, f.tick, c[i])
<1>1. Len(c) \in Nat /\ DOMAIN c = 1 .. Len(c) /\ \A i \in 1 .. Len(c) : c[i] \in Nat
  BY ElementOfSeq, LenProperties
<1>2. ASSUME NEW i \in 1 .. Len(c)
      PROVE  RoundedPrice(sig.side, f.tick, c[i]) \in Nat
  BY <1>1, RoundedIsConservative DEF IsFilter
<1>3. PricesFor(sig, c, f) \in [1 .. Len(c) -> Nat]
  BY <1>1, <1>2 DEF PricesFor
<1>4. PricesFor(sig, c, f) \in Seq(Nat) /\ Len(PricesFor(sig, c, f)) = Len(c)
  BY <1>1, <1>3, FunctionIsSeq
<1> QED
  BY <1>1, <1>4 DEF PricesFor

\* The quantity can be placed.
LEMMA QtyForType ==
  ASSUME NEW sig, IsSignal(sig), NEW notional \in Nat, NEW f, IsFilter(f),
         EntryOf(sig, f) # 0
  PROVE  /\ EntryOf(sig, f) \in Nat \ {0}
         /\ QtyFor(sig, notional, f) \in Nat
         /\ Multiple(f.step, QtyFor(sig, notional, f))
<1>1. EntryOf(sig, f) \in Nat \ {0}
  BY RoundedIsConservative DEF EntryOf, IsSignal, IsFilter
<1>2. PICK q, a, step : /\ q = notional \div EntryOf(sig, f) /\ step = f.step /\ a = q \div step
  OBVIOUS
<1>3. q \in Int /\ q >= 0 /\ step \in Nat \ {0}
  BY <1>1, <1>2, DivBounds DEF IsFilter
<1>4. a \in Int /\ a >= 0
  BY <1>2, <1>3, DivBounds
<1>5. a * step \in Int /\ a * step >= 0
  BY <1>3, <1>4
<1>6. QtyFor(sig, notional, f) = a * step
  BY <1>2 DEF QtyFor, FloorTo
<1> QED
  BY <1>1, <1>2, <1>4, <1>5, <1>6 DEF Multiple

\* The legs of a plan of model 1 or 2.
LEMMA PlannedLegs ==
  ASSUME NEW sig, IsSignal(sig), NEW c \in Seq(Nat), Len(c) \in 1 .. MaxTargets,
         NEW notional \in Nat, NEW model \in {1, 2},
         model = 1 \/ Len(c) <= Len(Model2Weights),
         NEW f, IsFilter(f), EntryOf(sig, f) # 0, NEW legs,
         legs = LegsFor(sig, c, notional, model, f), legs # <<>>
  PROVE  /\ LegsOk(f, PricesFor(sig, c, f), Len(c), legs)
         /\ QtyOf(legs) = QtyFor(sig, notional, f)
         /\ FractionOf(legs) = One
<1>1. PICK n, qty, fr, prices, qs, step :
        /\ n = Len(c) /\ qty = QtyFor(sig, notional, f) /\ fr = Fractions(model, n)
        /\ prices = PricesFor(sig, c, f) /\ step = f.step
        /\ qs = LegQuantities(qty, fr, step)
  OBVIOUS
<1>2. n \in Nat /\ n >= 1 /\ n \in 1 .. MaxTargets /\ n \in Nat \ {0}
  BY <1>1, LenProperties
<1>3. qty \in Nat /\ Multiple(step, qty) /\ step \in Nat \ {0}
  BY <1>1, QtyForType DEF IsFilter
<1>4. /\ DOMAIN fr = 1 .. n /\ \A i \in 1 .. n : fr[i] \in Int /\ fr[i] >= 0
      /\ Total(n, fr) = One
  <2>1. DOMAIN fr = 1 .. n
    BY <1>1 DEF Fractions
  <2>2. model = 1 \/ n <= Len(Model2Weights)
    BY <1>1
  <2>3. (\A i \in 1 .. n : fr[i] \in Int /\ fr[i] >= 0) /\ Total(n, fr) = One
    BY <1>1, <1>2, <2>2, FractionsType
  <2> QED
    BY <2>1, <2>3
<1>5. /\ \A i \in 1 .. n : qs[i] \in Nat /\ Multiple(step, qs[i])
      /\ Total(n, qs) = qty
  BY <1>1, <1>2, <1>3, <1>4, QuantitiesType
<1>6. prices \in Seq(Nat) /\ Len(prices) = n
  BY <1>1, PricesForType
<1>7. \A k \in 1 .. Len(prices) : fr[k] \in Int /\ qs[k] \in Nat /\ Multiple(f.step, qs[k])
  BY <1>1, <1>4, <1>5, <1>6
<1>8. legs = MergedLegs(f, prices, fr, qs)
  BY <1>1 DEF LegsFor
<1>9. /\ LegsOk(f, prices, Len(prices), legs)
      /\ QtyOf(legs) = Total(Len(prices), qs) /\ FractionOf(legs) = Total(Len(prices), fr)
  BY <1>6, <1>7, <1>8, MergedLegsOk
<1> QED
  BY <1>1, <1>4, <1>5, <1>6, <1>9

-----------------------------------------------------------------------------
(* What holds of a plan.                                                    *)

\* What a plan is made of.
LEMMA PlansInputs ==
  ASSUME PlanningInv, plan # NotYet
  PROVE  \E notional \in Nat, model \in 1 .. 3, exit \in Int, f \in Filters :
           /\ IsFilter(f)
           /\ IsSignal(signal) /\ clean.targets = Sanitized(signal).targets
           /\ Sanitized(signal).status = "accepted"
           /\ plan = Planned(signal, clean.targets, notional, model, exit, f)
<1>1. clean = Sanitized(signal) /\ clean.status = "accepted" /\ IsSignal(signal)
  BY DEF PlanningInv
<1>2. PICK notional \in Margins, model \in RiskModels, exit \in Exits, f \in Filters :
        plan = Planned(signal, clean.targets, notional, model, exit, f)
  BY DEF PlanningInv
<1>3. notional \in Nat /\ model \in 1 .. 3 /\ exit \in Int /\ IsFilter(f)
  BY PlanningConstants DEF IsFilter
<1> QED
  BY <1>1, <1>2, <1>3

LEMMA InvPricesAreConservative == PlanningInv => PricesAreConservative
<1> SUFFICES ASSUME PlanningInv, plan.status = "planned" PROVE PricesAreConservative
  BY DEF PricesAreConservative
<1>1. PICK notional \in Nat, model \in 1 .. 3, exit \in Int, f \in Filters :
        /\ IsFilter(f)
        /\ IsSignal(signal) /\ clean.targets = Sanitized(signal).targets
        /\ Sanitized(signal).status = "accepted"
        /\ plan = Planned(signal, clean.targets, notional, model, exit, f)
  BY PlansInputs DEF NotYet
<1>2. PICK c, side, en, tick, entry, legs :
        /\ c = clean.targets /\ side = signal.side /\ en = signal.entry /\ tick = f.tick
        /\ entry = EntryOf(signal, f) /\ legs = LegsFor(signal, c, notional, model, f)
  OBVIOUS
<1>3. /\ c \in Seq(Nat) /\ Len(c) \in Nat /\ Len(c) >= 1 /\ Len(c) <= Len(signal.targets)
      /\ Beyond(side, signal.stop, en)
      /\ \A i \in 1 .. Len(c) : c[i] \in Nat /\ Beyond(side, en, c[i])
  BY <1>1, <1>2, TargetsOfAccepted
<1>4. /\ plan = PlanOf(signal, c, notional, model, exit, f)
      /\ EntryOf(signal, f) # 0
      /\ ~ (model = 2 /\ Len(c) > Len(Model2Weights))
      /\ ~ (model = 3 /\ (exit <= 0 \/ ExitFor(signal, exit, f) <= 0))
      /\ ~ (model # 3 /\ LegsFor(signal, c, notional, model, f) = <<>>)
  BY <1>1, <1>2, PlannedCases
<1>5. /\ plan.model = model /\ plan.entry = entry
      /\ plan.stop = RoundedPrice(side, tick, signal.stop)
      /\ plan.legs = IF model = 3 THEN <<>> ELSE legs
      /\ model = 3 => plan.exit = RoundedPrice(side, tick, ExitFor(signal, exit, f))
  BY <1>2, <1>4 DEF PlanOf
<1>6. /\ en \in Nat /\ signal.stop \in Nat /\ tick \in Nat \ {0}
      /\ side \in {"LONG", "SHORT"} /\ entry = RoundedPrice(side, tick, en)
  BY <1>1, <1>2 DEF IsSignal, IsFilter, EntryOf
<1>7. entry \in Nat /\ plan.stop \in Nat
  BY <1>5, <1>6, RoundedIsConservative
<1>8. ~ Beyond(side, signal.stop, plan.stop)
  BY <1>5, <1>6, RoundedIsConservative
<1>9. ~ Beyond(side, entry, plan.stop)
  <2>1. ~ Beyond(side, en, signal.stop)
    BY <1>3, <1>6 DEF Beyond
  <2> QED
    BY <1>5, <1>6, <2>1, RoundedIsMonotonic
<1>10. ASSUME NEW k \in DOMAIN plan.legs
       PROVE  /\ ~ Beyond(side, c[plan.legs[k].index], plan.legs[k].price)
              /\ ~ Beyond(side, plan.legs[k].price, entry)
  <2>1. model # 3 /\ plan.legs = legs /\ legs # <<>>
    BY <1>2, <1>4, <1>5, <1>10
  <2>2. model \in {1, 2} /\ (model = 1 \/ Len(c) <= Len(Model2Weights))
    <3>1. Len(Model2Weights) \in Nat
      BY PlanningConstants, LenProperties
    <3> QED
      BY <1>3, <1>4, <2>1, <3>1
  <2>3. Len(c) \in 1 .. MaxTargets
    BY <1>1, <1>3, PlanningConstants DEF IsSignal
  <2>4. LegsOk(f, PricesFor(signal, c, f), Len(c), legs)
    BY <1>1, <1>2, <1>3, <1>4, <2>1, <2>2, <2>3, PlannedLegs
  <2>5. k \in 1 .. Len(legs)
    BY <2>1, <2>4 DEF LegsOk
  <2>6. PICK i : i = legs[k].index
    OBVIOUS
  <2>7. i \in 1 .. Len(c) /\ legs[k].price = PricesFor(signal, c, f)[i]
    BY <2>4, <2>5, <2>6 DEF LegsOk, Placeable
  <2>8. c[i] \in Nat /\ Beyond(side, en, c[i])
    BY <1>3, <2>7
  <2>9. legs[k].price = RoundedPrice(side, tick, c[i])
    BY <1>1, <1>2, <1>3, <2>7, PricesForType
  <2>10. ~ Beyond(side, c[i], RoundedPrice(side, tick, c[i]))
    BY <1>6, <2>8, RoundedIsConservative
  <2>11. ~ Beyond(side, RoundedPrice(side, tick, c[i]), entry)
    <3>1. ~ Beyond(side, c[i], en)
      BY <1>6, <2>8 DEF Beyond
    <3> QED
      BY <1>6, <2>8, <3>1, RoundedIsMonotonic
  <2> QED
    BY <2>1, <2>6, <2>9, <2>10, <2>11
<1>11. model = 3 => ~ Beyond(side, plan.exit, entry)
  <2> SUFFICES ASSUME model = 3 PROVE ~ Beyond(side, plan.exit, entry)
    OBVIOUS
  <2>1. PICK x : x = ExitFor(signal, exit, f)
    OBVIOUS
  <2>2. exit > 0 /\ x = IF side = "LONG" THEN entry + exit ELSE entry - exit
    BY <1>1, <1>2, <1>4, <2>1 DEF ExitFor
  <2>3. x \in Nat
    BY <1>4, <1>7, <2>1, <2>2
  <2>4. ~ Beyond(side, x, entry)
    BY <1>7, <2>2, <2>3 DEF Beyond
  <2>5. ~ Beyond(side, RoundedPrice(side, tick, x), RoundedPrice(side, tick, entry))
    BY <1>6, <1>7, <2>3, <2>4, RoundedIsMonotonic
  <2>6. RoundedPrice(side, tick, entry) = entry
    <3>1. PICK a \in Int : entry = a * tick
      BY <1>6, RoundedIsConservative
    <3> QED
      BY <1>6, <3>1, RoundedOfMultiple
  <2> QED
    BY <1>5, <2>1, <2>5, <2>6
<1> QED
  <2>1. /\ ~ Beyond(signal.side, signal.stop, plan.stop)
        /\ ~ Beyond(signal.side, plan.entry, plan.stop)
        /\ \A k \in DOMAIN plan.legs :
             /\ ~ Beyond(signal.side, clean.targets[plan.legs[k].index], plan.legs[k].price)
             /\ ~ Beyond(signal.side, plan.legs[k].price, plan.entry)
        /\ plan.model = 3 => ~ Beyond(signal.side, plan.exit, plan.entry)
    BY <1>2, <1>5, <1>8, <1>9, <1>10, <1>11
  <2> QED
    BY <2>1 DEF PricesAreConservative, Beyond

\* Rounding to the ticks of the exchange never moves the stop towards the entry,
\* never a target away from it or to the losing side of it
\* (round_price_conservative as build_execution_plan uses it).
THEOREM PricesStayConservative == Spec => []PricesAreConservative
BY PlanningIsOfItsInputs, InvPricesAreConservative, PTL

\* The numbers of the targets rise from leg to leg.
LEMMA LegsRise ==
  ASSUME NEW f, NEW prices, NEW n, NEW legs, LegsOk(f, prices, n, legs)
  PROVE  \A k \in 1 .. Len(legs) : k > 1 => legs[k - 1].index < legs[k].index
<1> SUFFICES ASSUME NEW k \in 1 .. Len(legs), k > 1
             PROVE  legs[k - 1].index < legs[k].index
  OBVIOUS
<1>1. PICK j : j = k - 1
  OBVIOUS
<1>2. Len(legs) \in Nat
  BY LenProperties DEF LegsOk
<1>3. j \in 1 .. Len(legs) - 1 /\ j + 1 = k
  BY <1>1, <1>2
<1>4. legs[j].index < legs[j + 1].index
  BY <1>3 DEF LegsOk
<1> QED
  BY <1>1, <1>3, <1>4

LEMMA InvPlanIsExecutable == PlanningInv => PlanIsExecutable
<1> SUFFICES ASSUME PlanningInv PROVE PlanIsExecutable
  OBVIOUS
<1>1. CASE plan = NotYet
  BY <1>1 DEF PlanIsExecutable, NotYet
<1>2. CASE plan # NotYet
  <2>1. PICK notional \in Nat, model \in 1 .. 3, exit \in Int, f \in Filters :
          /\ IsFilter(f)
          /\ IsSignal(signal) /\ clean.targets = Sanitized(signal).targets
          /\ Sanitized(signal).status = "accepted"
          /\ plan = Planned(signal, clean.targets, notional, model, exit, f)
    BY <1>2, PlansInputs
  <2>2. PICK c : c = clean.targets
    OBVIOUS
  <2>3. /\ c \in Seq(Nat) /\ Len(c) \in Nat /\ Len(c) >= 1 /\ Len(c) <= Len(signal.targets)
        /\ Beyond(signal.side, signal.stop, signal.entry)
        /\ \A i \in 1 .. Len(c) : c[i] \in Nat /\ Beyond(signal.side, signal.entry, c[i])
    BY <2>1, <2>2, TargetsOfAccepted
  <2>4. Len(Model2Weights) \in Nat /\ Len(signal.targets) \in Nat
    BY <2>1, PlanningConstants, LenProperties DEF IsSignal
  <2>5. ASSUME plan.status = "planned", plan.model # 3
        PROVE  /\ Total(Len(plan.legs), [k \in DOMAIN plan.legs |-> plan.legs[k].qty]) = plan.qty
               /\ Total(Len(plan.legs), [k \in DOMAIN plan.legs |-> plan.legs[k].fraction]) = One
               /\ \A k \in DOMAIN plan.legs :
                    /\ plan.legs[k].qty >= plan.filters.minQty
                    /\ plan.legs[k].qty % plan.filters.step = 0
                    /\ plan.legs[k].qty * plan.legs[k].price >= plan.filters.minNotional
                    /\ k > 1 => plan.legs[k - 1].index < plan.legs[k].index
    <3>1. PICK legs, qty : /\ legs = LegsFor(signal, c, notional, model, f)
                           /\ qty = QtyFor(signal, notional, f)
      OBVIOUS
    <3>2. /\ plan = PlanOf(signal, c, notional, model, exit, f)
          /\ EntryOf(signal, f) # 0
          /\ ~ (model = 2 /\ Len(c) > Len(Model2Weights))
          /\ ~ (model # 3 /\ LegsFor(signal, c, notional, model, f) = <<>>)
      BY <2>1, <2>2, <2>5, PlannedCases
    <3>3. model # 3 /\ plan.legs = legs /\ plan.qty = qty /\ plan.filters = f
      BY <2>5, <3>1, <3>2 DEF PlanOf
    <3>4. model \in {1, 2} /\ (model = 1 \/ Len(c) <= Len(Model2Weights)) /\ legs # <<>>
      BY <2>3, <2>4, <3>1, <3>2, <3>3
    <3>5. Len(c) \in 1 .. MaxTargets
      BY <2>1, <2>3, <2>4, PlanningConstants DEF IsSignal
    <3>6. /\ LegsOk(f, PricesFor(signal, c, f), Len(c), legs)
          /\ QtyOf(legs) = qty /\ FractionOf(legs) = One
      BY <2>1, <2>3, <3>1, <3>2, <3>4, <3>5, PlannedLegs
    <3>7. DOMAIN legs = 1 .. Len(legs)
      BY <3>6 DEF LegsOk
    <3>8. ASSUME NEW k \in 1 .. Len(legs)
          PROVE  /\ legs[k].qty >= f.minQty /\ legs[k].qty % f.step = 0
                 /\ legs[k].qty * legs[k].price >= f.minNotional
                 /\ k > 1 => legs[k - 1].index < legs[k].index
      <4>1. MeetsMinimums(f, legs[k].qty, legs[k].price) /\ Multiple(f.step, legs[k].qty)
        BY <3>6 DEF LegsOk, Placeable
      <4>2. legs[k].qty % f.step = 0
        BY <2>1, <4>1, MultiplesAdd DEF IsFilter
      <4>3. k > 1 => legs[k - 1].index < legs[k].index
        BY <3>6, LegsRise
      <4> QED
        BY <4>1, <4>2, <4>3 DEF MeetsMinimums
    <3> QED
      BY <3>3, <3>6, <3>7, <3>8 DEF QtyOf, FractionOf
  <2>6. ASSUME plan.status = "refused"
        PROVE  \/ plan.why \in {"quantity", "notional", "legs", "exit"}
               \/ plan.why \in {"input", "price"}
                    /\ (signal.stop = 0 \/ \E i \in DOMAIN clean.targets : clean.targets[i] = 0)
               \/ plan.why = "weights" /\ Len(signal.targets) > Len(Model2Weights)
    <3>1. \/ plan.why \in {"quantity", "notional", "legs", "exit"}
          \/ plan.why = "input" /\ ~ ValidInputs(signal, model, c)
          \/ plan.why = "price" /\ \E i \in DOMAIN c : c[i] = 0
          \/ plan.why = "weights" /\ Len(c) > Len(Model2Weights)
      BY <2>1, <2>2, <2>6, PlannedCases
    <3>2. ~ ValidInputs(signal, model, c) => signal.stop = 0
      <4>1. /\ signal.side \in {"LONG", "SHORT"}
            /\ signal.entry \in Nat /\ signal.stop \in Nat
        BY <2>1 DEF IsSignal
      <4>2. signal.entry > 0
        <5>1. c[1] \in Nat /\ Beyond(signal.side, signal.entry, c[1])
          BY <2>3
        <5> QED
          BY <2>3, <4>1, <5>1 DEF Beyond
      <4>3. c # <<>> /\ DOMAIN c = 1 .. Len(c)
        BY <2>3
      <4> QED
        BY <2>3, <4>1, <4>2, <4>3 DEF ValidInputs
    <3> QED
      BY <2>2, <2>3, <2>4, <3>1, <3>2
  <2> QED
    BY <2>5, <2>6 DEF PlanIsExecutable
<1> QED
  BY <1>1, <1>2

\* Whatever rounding and merging do (build_execution_plan, _merge_tiny_legs), the
\* legs of a plan make up its whole quantity, each can be placed, and a signal
\* the sanitizer accepted is refused for no other reason than the ones named.
THEOREM PlansStayExecutable == Spec => []PlanIsExecutable
BY PlanningIsOfItsInputs, InvPlanIsExecutable, PTL
=============================================================================

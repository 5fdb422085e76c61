------------------------------ MODULE ChainProofs ------------------------------
(***************************************************************************)
(* Induction over numbers and lists in a form a first-order prover can     *)
(* use, with a set for the property, and what the operators of Lists and   *)
(* some of SequencesExt compute for every list.  Then what the tables of   *)
(* Chains come to, for every table and every list of saves: chains that    *)
(* end and share no block, what giving blocks to one more and freeing      *)
(* another's does to the rest, and what a card built from saves reads as.  *)
(***************************************************************************)
EXTENDS Chains, WellFoundedInduction, FiniteSetTheorems, TLAPS

-----------------------------------------------------------------------------
(* Induction: a set of numbers has a least one.                            *)

\* Any numbers at all have a least one.
LEMMA LeastNat ==
  ASSUME NEW D, D \subseteq Nat, D # {}
  PROVE  \E m \in D : \A d \in D : m <= d
<1> DEFINE R == {ss \in Nat \X Nat : ss[1] < ss[2]}
<1>1. IsWellFoundedOn(R, Nat)
  BY NatLessThanWellFounded DEF OpToRel
<1>2. PICK m \in D : \A d \in D : ~(<<d, m>> \in R)
  <2> HIDE DEF R
  <2> QED BY <1>1, WFMin
<1>3. ASSUME NEW d \in D PROVE m <= d
  <2>1. <<d, m>> \notin R
    BY <1>2
  <2>2. ~(d < m)
    BY <2>1
  <2> QED BY <2>2
<1> QED BY <1>3

\* Induction over the numbers, the property being a set of them.
LEMMA NatInduct ==
  ASSUME NEW P, 0 \in P, \A n \in Nat : n \in P => n + 1 \in P
  PROVE  \A n \in Nat : n \in P
<1> SUFFICES ASSUME NEW k \in Nat, k \notin P PROVE FALSE
  OBVIOUS
<1> DEFINE D == {n \in Nat : n \notin P}
<1>1. PICK m \in D : \A d \in D : m <= d
  <2>1. D \subseteq Nat /\ D # {}
    OBVIOUS
  <2> HIDE DEF D
  <2> QED BY <2>1, LeastNat
<1>2. m \in Nat /\ m # 0 /\ m - 1 \in Nat
  OBVIOUS
<1>3. m - 1 \in P
  <2>1. m - 1 \notin D
    BY <1>1, <1>2
  <2> QED BY <2>1, <1>2
<1>4. (m - 1) + 1 \in P
  BY <1>2, <1>3
<1> QED BY <1>2, <1>4

\* Induction over lists, an element at the end at a time.
LEMMA SeqInduct ==
  ASSUME NEW S, NEW P, <<>> \in P,
         \A s \in Seq(S), e \in S : s \in P => Append(s, e) \in P
  PROVE  \A s \in Seq(S) : s \in P
<1> DEFINE Q == {n \in Nat : \A s \in Seq(S) : Len(s) = n => s \in P}
<1>1. 0 \in Q
  OBVIOUS
<1>2. ASSUME NEW n \in Nat, n \in Q PROVE n + 1 \in Q
  <2> SUFFICES ASSUME NEW s \in Seq(S), Len(s) = n + 1 PROVE s \in P
    OBVIOUS
  <2> DEFINE front == [i \in 1 .. n |-> s[i]]
  <2>1. front \in Seq(S) /\ Len(front) = n
    OBVIOUS
  <2>2. s[n + 1] \in S
    OBVIOUS
  <2>3. s = Append(front, s[n + 1])
    OBVIOUS
  <2>4. front \in P
    BY <2>1, <1>2
  <2> HIDE DEF front
  <2> QED BY <2>1, <2>2, <2>3, <2>4
<1>3. \A n \in Nat : n \in Q
  <2> HIDE DEF Q
  <2> QED BY <1>1, <1>2, NatInduct
<1> QED BY <1>3

-----------------------------------------------------------------------------
(* Recursion: a function given a step at a time is there.                  *)

\* f is base, and then what step makes of the value before it.
Steps(f, base, N, step) == f[0] = base /\ \A n \in 1 .. N : f[n] = step[<<f[n - 1], n>>]

\* From a first value, a step for each number up to N makes a function.
LEMMA Recursion ==
  ASSUME NEW S, NEW base \in S, NEW N \in Nat, NEW step \in [S \X (1 .. N) -> S]
  PROVE  \E f \in [0 .. N -> S] : Steps(f, base, N, step)
<1> DEFINE Q(k) == \E f \in [0 .. k -> S] : Steps(f, base, k, step)
           P == {k \in Nat : k <= N => Q(k)}
<1>1. 0 \in P
  <2> DEFINE f == [n \in 0 .. 0 |-> base]
  <2>1. f \in [0 .. 0 -> S] /\ f[0] = base
    OBVIOUS
  <2> HIDE DEF f
  <2>2. Steps(f, base, 0, step)
    BY <2>1 DEF Steps
  <2> QED BY <2>1, <2>2
<1>2. ASSUME NEW k \in Nat, k \in P PROVE k + 1 \in P
  <2> SUFFICES ASSUME k + 1 <= N PROVE Q(k + 1)
    OBVIOUS
  <2>1. PICK f \in [0 .. k -> S] : Steps(f, base, k, step)
    BY <1>2
  <2> DEFINE g == [n \in 0 .. k + 1 |-> IF n = k + 1 THEN step[<<f[k], k + 1>>] ELSE f[n]]
  <2>2. <<f[k], k + 1>> \in S \X (1 .. N)
    OBVIOUS
  <2>3. g \in [0 .. k + 1 -> S]
    BY <2>2
  <2>4. g[0] = base
    BY <2>1 DEF Steps
  <2>5. ASSUME NEW n \in 1 .. k + 1 PROVE g[n] = step[<<g[n - 1], n>>]
    <3>1. n - 1 \in 0 .. k /\ g[n - 1] = f[n - 1]
      OBVIOUS
    <3>2. CASE n = k + 1
      <4>1. g[k + 1] = step[<<f[k], k + 1>>] /\ (k + 1) - 1 = k
        OBVIOUS
      <4> HIDE DEF g
      <4> QED BY <4>1, <3>1, <3>2
    <3>3. CASE n \in 1 .. k
      <4>1. g[n] = f[n] /\ f[n] = step[<<f[n - 1], n>>]
        BY <3>3, <2>1 DEF Steps
      <4> HIDE DEF g
      <4> QED BY <4>1, <3>1
    <3> QED BY <3>2, <3>3
  <2> HIDE DEF g
  <2>6. Steps(g, base, k + 1, step)
    BY <2>4, <2>5 DEF Steps
  <2> QED BY <2>3, <2>6
<1>3. N \in P
  <2> HIDE DEF P
  <2> QED BY <1>1, <1>2, NatInduct
<1> QED BY <1>3

\* A function that is a first value and then a step from each to the next has
\* all its values where the first is, if no step leads out.
LEMMA StepsStay ==
  ASSUME NEW T, NEW N \in Nat, NEW g, g[0] \in T,
         \A n \in 1 .. N : g[n - 1] \in T => g[n] \in T
  PROVE  \A n \in 0 .. N : g[n] \in T
<1> DEFINE P == {k \in Nat : k <= N => g[k] \in T}
<1>1. 0 \in P
  OBVIOUS
<1>2. ASSUME NEW n \in Nat, n \in P PROVE n + 1 \in P
  <2> SUFFICES ASSUME n + 1 <= N PROVE g[n + 1] \in T
    OBVIOUS
  <2>1. g[n] \in T /\ n + 1 \in 1 .. N /\ (n + 1) - 1 = n
    BY <1>2
  <2> QED BY <2>1
<1>3. \A n \in Nat : n \in P
  <2> HIDE DEF P
  <2> QED BY <1>1, <1>2, NatInduct
<1> QED BY <1>3

-----------------------------------------------------------------------------
(* Those: what a filter by kind keeps.                                     *)

\* The list as far as it has been gone through, for each length gone.
Gone(s, kinds) ==
    CHOOSE kept : kept = [n \in 0 .. Len(s) |->
        IF n = 0 THEN <<>>
        ELSE IF s[n].kind \in kinds THEN Append(kept[n - 1], s[n]) ELSE kept[n - 1]]

\* The function there is a choice of is there, and its values are lists.
LEMMA GoneIsThere ==
  ASSUME NEW S, NEW s \in Seq(S), NEW kinds
  PROVE  /\ Gone(s, kinds) \in [0 .. Len(s) -> Seq(S)]
         /\ Gone(s, kinds)[0] = <<>>
         /\ \A n \in 1 .. Len(s) :
              Gone(s, kinds)[n] = IF s[n].kind \in kinds THEN Append(Gone(s, kinds)[n - 1], s[n])
                                  ELSE Gone(s, kinds)[n - 1]
         /\ Those(s, kinds) = Gone(s, kinds)[Len(s)]
<1> DEFINE N == Len(s)
           T == Seq(S)
           step == [x \in T \X (1 .. N) |->
                      IF s[x[2]].kind \in kinds THEN Append(x[1], s[x[2]]) ELSE x[1]]
           base == <<>>
           Body(f) == [n \in 0 .. N |->
                         IF n = 0 THEN base
                         ELSE IF s[n].kind \in kinds THEN Append(f[n - 1], s[n]) ELSE f[n - 1]]
           g == Gone(s, kinds)
<1>1. N \in Nat /\ base \in T
  OBVIOUS
<1>a. \A x \in T, n \in 1 .. N : (IF s[n].kind \in kinds THEN Append(x, s[n]) ELSE x) \in T
  OBVIOUS
<1>2. /\ step \in [T \X (1 .. N) -> T]
      /\ \A x \in T, n \in 1 .. N :
            step[<<x, n>>] = IF s[n].kind \in kinds THEN Append(x, s[n]) ELSE x
  <2> HIDE DEF N, T
  <2> QED BY <1>a
<1> HIDE DEF step
<1>3. PICK f \in [0 .. N -> T] : Steps(f, base, N, step)
  <2>1. step \in [T \X (1 .. N) -> T]
    BY <1>2
  <2> HIDE DEF N, T, base
  <2> QED BY <1>1, <2>1, Recursion, Zenon
<1>4. f = Body(f)
  <2> HIDE DEF T, N, base
  <2>1. ASSUME NEW n \in 0 .. N, n # 0
        PROVE  f[n] = IF s[n].kind \in kinds THEN Append(f[n - 1], s[n]) ELSE f[n - 1]
    <3>1. n \in 1 .. N /\ n - 1 \in 0 .. N
      BY <2>1, <1>1
    <3>2. f[n - 1] \in T
      BY <3>1
    <3> QED BY <3>1, <3>2, <1>2, <1>3 DEF Steps
  <2> QED BY <2>1, <1>3 DEF Steps
<1>5. g = Body(g)
  <2>1. g = CHOOSE kept : kept = Body(kept)
    BY DEF Gone
  <2> HIDE DEF g, Body
  <2> QED BY <1>4, <2>1
<1>6. Those(s, kinds) = g[N]
  BY DEF Those, Gone
<1> HIDE DEF g
<1>7. /\ g[0] = base
      /\ \A n \in 1 .. N : g[n] = IF s[n].kind \in kinds THEN Append(g[n - 1], s[n]) ELSE g[n - 1]
      /\ DOMAIN g = 0 .. N /\ g = [n \in DOMAIN g |-> g[n]]
  <2> HIDE DEF N, base
  <2>1. DOMAIN g = 0 .. N /\ g = [n \in DOMAIN g |-> g[n]]
    BY <1>5
  <2>2. g[0] = base
    BY <1>5, <1>1
  <2>3. ASSUME NEW n \in 1 .. N
        PROVE  g[n] = IF s[n].kind \in kinds THEN Append(g[n - 1], s[n]) ELSE g[n - 1]
    <3>1. n \in 0 .. N /\ n # 0
      BY <1>1
    <3> QED BY <3>1, <1>5
  <2> QED BY <2>1, <2>2, <2>3
<1>8. \A n \in 0 .. N : g[n] \in T
  <2> HIDE DEF N, T, base
  <2>1. \A n \in 1 .. N : g[n - 1] \in T => g[n] \in T
    BY <1>7, <1>a
  <2> QED BY <2>1, <1>1, <1>7, StepsStay
<1>9. g \in [0 .. N -> T]
  <2> HIDE DEF N, T
  <2> QED BY <1>7, <1>8
<1> QED BY <1>6, <1>7, <1>9 DEF g

\* Nothing is kept of nothing.
LEMMA ThoseEmpty ==
  ASSUME NEW kinds
  PROVE  Those(<<>>, kinds) = <<>>
<1>1. ASSUME NEW S, NEW s \in Seq(S), Len(s) = 0
      PROVE  Those(s, kinds) = <<>>
  <2>1. Gone(s, kinds)[0] = <<>> /\ Those(s, kinds) = Gone(s, kinds)[Len(s)]
    BY GoneIsThere
  <2> QED BY <1>1, <2>1
<1>2. <<>> \in Seq({}) /\ Len(<<>>) = 0
  OBVIOUS
<1> QED BY <1>1, <1>2

\* An element more at the end is kept or not, whatever is before it.
LEMMA ThoseAppend ==
  ASSUME NEW S, NEW s \in Seq(S), NEW e \in S, NEW kinds
  PROVE  Those(Append(s, e), kinds) =
            IF e.kind \in kinds THEN Append(Those(s, kinds), e) ELSE Those(s, kinds)
<1> DEFINE t == Append(s, e)
           N == Len(s)
           g == Gone(s, kinds)
           h == Gone(t, kinds)
<1>1. t \in Seq(S) /\ Len(t) = N + 1 /\ N \in Nat /\ t[N + 1] = e
  OBVIOUS
<1>2. \A n \in 1 .. N : t[n] = s[n]
  OBVIOUS
<1> HIDE DEF t
<1>3. /\ g[0] = <<>> /\ Those(s, kinds) = g[N]
      /\ \A n \in 1 .. N : g[n] = IF s[n].kind \in kinds THEN Append(g[n - 1], s[n]) ELSE g[n - 1]
  BY GoneIsThere
<1>4. /\ h[0] = <<>> /\ Those(t, kinds) = h[N + 1]
      /\ \A n \in 1 .. N + 1 : h[n] = IF t[n].kind \in kinds THEN Append(h[n - 1], t[n]) ELSE h[n - 1]
  BY <1>1, GoneIsThere
<1> HIDE DEF g, h, N
<1>5. \A n \in Nat : n \in {k \in Nat : k <= N => h[k] = g[k]}
  <2> DEFINE P == {k \in Nat : k <= N => h[k] = g[k]}
  <2>1. 0 \in P
    BY <1>3, <1>4
  <2>2. ASSUME NEW n \in Nat, n \in P PROVE n + 1 \in P
    <3> SUFFICES ASSUME n + 1 <= N PROVE h[n + 1] = g[n + 1]
      OBVIOUS
    <3>1. h[n] = g[n] /\ n + 1 \in 1 .. N /\ n + 1 \in 1 .. N + 1 /\ (n + 1) - 1 = n
      BY <2>2, <1>1
    <3>2. g[n + 1] = IF s[n + 1].kind \in kinds THEN Append(g[n], s[n + 1]) ELSE g[n]
      BY <3>1, <1>3
    <3>3. h[n + 1] = IF t[n + 1].kind \in kinds THEN Append(h[n], t[n + 1]) ELSE h[n]
      BY <3>1, <1>4
    <3> QED BY <3>1, <3>2, <3>3, <1>2
  <2>3. \A n \in Nat : n \in P
    <3> HIDE DEF P
    <3> QED BY <2>1, <2>2, NatInduct
  <2> QED BY <2>3
<1>6. h[N] = g[N]
  BY <1>5, <1>1
<1>7. h[N + 1] = IF t[N + 1].kind \in kinds THEN Append(h[N], t[N + 1]) ELSE h[N]
  <2>1. N + 1 \in 1 .. N + 1 /\ (N + 1) - 1 = N
    BY <1>1
  <2> QED BY <2>1, <1>4
<1> QED BY <1>1, <1>3, <1>4, <1>6, <1>7 DEF t

\* What is kept is a list of the same things, no longer, and of the kinds.
LEMMA ThoseAre ==
  ASSUME NEW S, NEW s \in Seq(S), NEW kinds
  PROVE  /\ Those(s, kinds) \in Seq(S)
         /\ Len(Those(s, kinds)) <= Len(s)
         /\ \A i \in DOMAIN Those(s, kinds) : Those(s, kinds)[i].kind \in kinds
<1> DEFINE Good(u) == /\ Those(u, kinds) \in Seq(S)
                      /\ Len(Those(u, kinds)) <= Len(u)
                      /\ \A i \in DOMAIN Those(u, kinds) : Those(u, kinds)[i].kind \in kinds
           P == {u \in Seq(S) : Good(u)}
<1>1. <<>> \in P
  <2> DEFINE none == <<>>
  <2>1. none \in Seq(S) /\ Len(none) = 0 /\ DOMAIN none = {}
    OBVIOUS
  <2>2. Those(none, kinds) = none
    BY ThoseEmpty
  <2> HIDE DEF none
  <2>3. Good(none)
    BY <2>1, <2>2
  <2> QED BY <2>1, <2>3 DEF none
<1>2. ASSUME NEW u \in Seq(S), NEW e \in S, u \in P PROVE Append(u, e) \in P
  <2>1. Good(u)
    BY <1>2
  <2>2. Those(Append(u, e), kinds) =
            IF e.kind \in kinds THEN Append(Those(u, kinds), e) ELSE Those(u, kinds)
    BY ThoseAppend
  <2>3. Append(u, e) \in Seq(S) /\ Len(Append(u, e)) = Len(u) + 1 /\ Len(u) \in Nat
    OBVIOUS
  <2>4. CASE e.kind \in kinds
    <3> DEFINE v == Those(u, kinds)
    <3>1. v \in Seq(S) /\ Len(v) <= Len(u) /\ \A i \in DOMAIN v : v[i].kind \in kinds
      BY <2>1
    <3> HIDE DEF v
    <3>2. Append(v, e) \in Seq(S) /\ Len(Append(v, e)) = Len(v) + 1 /\ Len(v) \in Nat
      BY <3>1
    <3>3. \A i \in DOMAIN Append(v, e) : Append(v, e)[i].kind \in kinds
      BY <3>1, <2>4
    <3>4. Those(Append(u, e), kinds) = Append(v, e)
      BY <2>2, <2>4 DEF v
    <3>5. Len(Append(v, e)) <= Len(Append(u, e))
      BY <2>3, <3>1, <3>2
    <3> QED BY <2>3, <3>2, <3>3, <3>4, <3>5
  <2>5. CASE e.kind \notin kinds
    <3>1. Those(Append(u, e), kinds) = Those(u, kinds)
      BY <2>2, <2>5
    <3>2. Len(Those(u, kinds)) <= Len(u) + 1
      BY <2>1, <2>3
    <3> QED BY <2>1, <2>3, <3>1, <3>2
  <2> QED BY <2>4, <2>5
<1>3. \A u \in Seq(S) : u \in P
  <2> HIDE DEF P
  <2> QED BY <1>1, <1>2, SeqInduct
<1> QED BY <1>3

\* A list with nothing but the kinds is kept as it is.
LEMMA ThoseAll ==
  ASSUME NEW S, NEW s \in Seq(S), NEW kinds, \A i \in 1 .. Len(s) : s[i].kind \in kinds
  PROVE  Those(s, kinds) = s
<1> DEFINE P == {u \in Seq(S) : (\A i \in 1 .. Len(u) : u[i].kind \in kinds) => Those(u, kinds) = u}
<1>1. <<>> \in P
  BY ThoseEmpty
<1>2. ASSUME NEW u \in Seq(S), NEW e \in S, u \in P PROVE Append(u, e) \in P
  <2>1. Append(u, e) \in Seq(S)
    OBVIOUS
  <2> SUFFICES ASSUME \A i \in 1 .. Len(Append(u, e)) : Append(u, e)[i].kind \in kinds
               PROVE  Those(Append(u, e), kinds) = Append(u, e)
    BY <2>1
  <2>2. e.kind \in kinds
    <3>1. Len(u) + 1 \in 1 .. Len(Append(u, e)) /\ Append(u, e)[Len(u) + 1] = e
      OBVIOUS
    <3> QED BY <3>1
  <2>3. \A i \in 1 .. Len(u) : u[i].kind \in kinds
    <3> SUFFICES ASSUME NEW i \in 1 .. Len(u) PROVE u[i].kind \in kinds
      OBVIOUS
    <3>1. i \in 1 .. Len(Append(u, e)) /\ Append(u, e)[i] = u[i]
      OBVIOUS
    <3> QED BY <3>1
  <2>4. Those(u, kinds) = u
    BY <1>2, <2>3
  <2> QED BY <2>2, <2>4, ThoseAppend
<1>3. \A u \in Seq(S) : u \in P
  <2> HIDE DEF P
  <2> QED BY <1>1, <1>2, SeqInduct
<1> QED BY <1>3

\* Nothing is kept exactly of a list with none of the kinds in it.
LEMMA ThoseNone ==
  ASSUME NEW S, NEW s \in Seq(S), NEW kinds
  PROVE  Those(s, kinds) = <<>> <=> \A i \in 1 .. Len(s) : s[i].kind \notin kinds
<1> DEFINE Good(u) == Those(u, kinds) = <<>> <=> \A i \in 1 .. Len(u) : u[i].kind \notin kinds
           P == {u \in Seq(S) : Good(u)}
<1>1. <<>> \in P
  <2>1. Those(<<>>, kinds) = <<>> /\ Len(<<>>) = 0 /\ <<>> \in Seq(S)
    BY ThoseEmpty
  <2> QED BY <2>1
<1>2. ASSUME NEW u \in Seq(S), NEW e \in S, u \in P PROVE Append(u, e) \in P
  <2> DEFINE t == Append(u, e)
  <2>1. /\ t \in Seq(S) /\ Len(t) = Len(u) + 1 /\ Len(u) \in Nat /\ t[Len(u) + 1] = e
        /\ \A i \in 1 .. Len(u) : t[i] = u[i]
    OBVIOUS
  <2>2. Those(t, kinds) = IF e.kind \in kinds THEN Append(Those(u, kinds), e) ELSE Those(u, kinds)
    BY ThoseAppend
  <2>3. Those(u, kinds) \in Seq(S)
    BY ThoseAre
  <2>4. Append(Those(u, kinds), e) # <<>>
    BY <2>3, SMTT(30)
  <2> HIDE DEF t
  <2>5. ASSUME e.kind \in kinds PROVE Good(t)
    <3>1. Those(t, kinds) # <<>>
      BY <2>2, <2>4, <2>5
    <3>2. ~(\A i \in 1 .. Len(t) : t[i].kind \notin kinds)
      BY <2>1, <2>5
    <3> QED BY <3>1, <3>2
  <2>6. ASSUME e.kind \notin kinds PROVE Good(t)
    <3>1. Those(t, kinds) = Those(u, kinds)
      BY <2>2, <2>6
    <3>2. (\A i \in 1 .. Len(t) : t[i].kind \notin kinds)
            <=> (\A i \in 1 .. Len(u) : u[i].kind \notin kinds)
      BY <2>1, <2>6
    <3>3. Good(u)
      BY <1>2
    <3> QED BY <3>1, <3>2, <3>3
  <2>7. t \in P
    <3> HIDE DEF Good
    <3> QED BY <2>1, <2>5, <2>6
  <2> QED BY <2>7 DEF t
<1>3. \A u \in Seq(S) : u \in P
  <2> HIDE DEF P
  <2> QED BY <1>1, <1>2, SeqInduct
<1> QED BY <1>3

\* Of what was kept, keeping some again is keeping those of both.
LEMMA ThoseTwice ==
  ASSUME NEW S, NEW s \in Seq(S), NEW kinds, NEW fewer, fewer \subseteq kinds
  PROVE  Those(Those(s, kinds), fewer) = Those(s, fewer)
<1> DEFINE P == {u \in Seq(S) : Those(Those(u, kinds), fewer) = Those(u, fewer)}
<1>1. <<>> \in P
  BY ThoseEmpty
<1>2. ASSUME NEW u \in Seq(S), NEW e \in S, u \in P PROVE Append(u, e) \in P
  <2> DEFINE v == Those(u, kinds)
  <2>1. v \in Seq(S)
    BY ThoseAre
  <2>2. Those(v, fewer) = Those(u, fewer)
    BY <1>2
  <2>3. Those(Append(u, e), kinds) = IF e.kind \in kinds THEN Append(v, e) ELSE v
    BY ThoseAppend
  <2> HIDE DEF v
  <2>4. Those(Append(v, e), fewer) = IF e.kind \in fewer THEN Append(Those(v, fewer), e) ELSE Those(v, fewer)
    BY <2>1, ThoseAppend
  <2>5. Those(Append(u, e), fewer) = IF e.kind \in fewer THEN Append(Those(u, fewer), e) ELSE Those(u, fewer)
    BY ThoseAppend
  <2>6. Append(u, e) \in Seq(S)
    OBVIOUS
  <2>7. Those(Those(Append(u, e), kinds), fewer) = Those(Append(u, e), fewer)
    BY <2>2, <2>3, <2>4, <2>5
  <2> QED BY <2>6, <2>7
<1>3. \A u \in Seq(S) : u \in P
  <2> HIDE DEF P
  <2> QED BY <1>1, <1>2, SeqInduct
<1> QED BY <1>3

\* Two lists end to end are kept of separately.
LEMMA ThoseConcat ==
  ASSUME NEW S, NEW s \in Seq(S), NEW t \in Seq(S), NEW kinds
  PROVE  Those(s \o t, kinds) = Those(s, kinds) \o Those(t, kinds)
<1> DEFINE P == {u \in Seq(S) : Those(s \o u, kinds) = Those(s, kinds) \o Those(u, kinds)}
<1>0. Those(s, kinds) \in Seq(S)
  BY ThoseAre
<1>1. <<>> \in P
  <2>1. s \o <<>> = s /\ Those(s, kinds) \o <<>> = Those(s, kinds) /\ <<>> \in Seq(S)
    BY <1>0
  <2> QED BY <2>1, ThoseEmpty
<1>2. ASSUME NEW u \in Seq(S), NEW e \in S, u \in P PROVE Append(u, e) \in P
  <2> DEFINE v == Those(s, kinds)
             w == Those(u, kinds)
  <2>1. v \in Seq(S) /\ w \in Seq(S) /\ s \o u \in Seq(S)
    BY ThoseAre
  <2>2. Those(s \o u, kinds) = v \o w
    BY <1>2
  <2>3. s \o Append(u, e) = Append(s \o u, e)
    OBVIOUS
  <2>4. Those(Append(u, e), kinds) = IF e.kind \in kinds THEN Append(w, e) ELSE w
    BY ThoseAppend
  <2>5. Those(Append(s \o u, e), kinds) =
          IF e.kind \in kinds THEN Append(Those(s \o u, kinds), e) ELSE Those(s \o u, kinds)
    <3> DEFINE su == s \o u
    <3>1. su \in Seq(S)
      BY <2>1
    <3> HIDE DEF su, v, w
    <3>2. Those(Append(su, e), kinds) =
            IF e.kind \in kinds THEN Append(Those(su, kinds), e) ELSE Those(su, kinds)
      BY <3>1, ThoseAppend
    <3> QED BY <3>2 DEF su
  <2> HIDE DEF v, w
  <2>6. v \o Append(w, e) = Append(v \o w, e)
    BY <2>1
  <2>7. Those(s \o Append(u, e), kinds) = v \o Those(Append(u, e), kinds)
    BY <2>2, <2>3, <2>4, <2>5, <2>6
  <2>8. Append(u, e) \in Seq(S)
    OBVIOUS
  <2> QED BY <2>7, <2>8 DEF v
<1>3. \A u \in Seq(S) : u \in P
  <2> HIDE DEF P
  <2> QED BY <1>1, <1>2, SeqInduct
<1> QED BY <1>3

-----------------------------------------------------------------------------
(* Total: what a list of numbers comes to.                                 *)

\* The function there is a choice of is there, and its values are numbers.
LEMMA SummedIsThere ==
  ASSUME NEW s \in Seq(Nat)
  PROVE  /\ Summed(s) \in [0 .. Len(s) -> Nat]
         /\ Summed(s)[0] = 0
         /\ \A n \in 1 .. Len(s) : Summed(s)[n] = Summed(s)[n - 1] + s[n]
         /\ Total(s) = Summed(s)[Len(s)]
<1> DEFINE N == Len(s)
           T == Nat
           step == [x \in T \X (1 .. N) |-> x[1] + s[x[2]]]
           base == 0
           Body(f) == [n \in 0 .. N |-> IF n = 0 THEN base ELSE f[n - 1] + s[n]]
           g == Summed(s)
<1>1. N \in Nat /\ base \in T
  OBVIOUS
<1>a. \A x \in T, n \in 1 .. N : x + s[n] \in T
  OBVIOUS
<1>2. /\ step \in [T \X (1 .. N) -> T]
      /\ \A x \in T, n \in 1 .. N : step[<<x, n>>] = x + s[n]
  <2> HIDE DEF N, T
  <2> QED BY <1>a
<1> HIDE DEF step
<1>3. PICK f \in [0 .. N -> T] : Steps(f, base, N, step)
  <2>1. step \in [T \X (1 .. N) -> T]
    BY <1>2
  <2> HIDE DEF N, T, base
  <2> QED BY <1>1, <2>1, Recursion, Zenon
<1>4. f = Body(f)
  <2> HIDE DEF T, N, base
  <2>1. ASSUME NEW n \in 0 .. N, n # 0
        PROVE  f[n] = f[n - 1] + s[n]
    <3>1. n \in 1 .. N /\ n - 1 \in 0 .. N
      BY <2>1, <1>1
    <3>2. f[n - 1] \in T
      BY <3>1
    <3> QED BY <3>1, <3>2, <1>2, <1>3 DEF Steps
  <2> QED BY <2>1, <1>3 DEF Steps
<1>5. g = Body(g)
  <2>1. g = CHOOSE sum : sum = Body(sum)
    BY DEF Summed
  <2> HIDE DEF g, Body
  <2> QED BY <1>4, <2>1
<1>6. Total(s) = g[N]
  BY DEF Total, Summed
<1> HIDE DEF g
<1>7. /\ g[0] = base
      /\ \A n \in 1 .. N : g[n] = g[n - 1] + s[n]
      /\ DOMAIN g = 0 .. N /\ g = [n \in DOMAIN g |-> g[n]]
  <2> HIDE DEF N, base
  <2>1. DOMAIN g = 0 .. N /\ g = [n \in DOMAIN g |-> g[n]]
    BY <1>5
  <2>2. g[0] = base
    BY <1>5, <1>1
  <2>3. ASSUME NEW n \in 1 .. N
        PROVE  g[n] = g[n - 1] + s[n]
    <3>1. n \in 0 .. N /\ n # 0
      BY <1>1
    <3> QED BY <3>1, <1>5
  <2> QED BY <2>1, <2>2, <2>3
<1>8. \A n \in 0 .. N : g[n] \in T
  <2> HIDE DEF N, T, base
  <2>1. \A n \in 1 .. N : g[n - 1] \in T => g[n] \in T
    BY <1>7, <1>a
  <2> QED BY <2>1, <1>1, <1>7, StepsStay
<1>9. g \in [0 .. N -> T]
  <2> HIDE DEF N, T
  <2> QED BY <1>7, <1>8
<1> QED BY <1>6, <1>7, <1>9 DEF g

\* Nothing comes to nothing.
LEMMA TotalEmpty == Total(<<>>) = 0
<1>1. ASSUME NEW s \in Seq(Nat), Len(s) = 0
      PROVE  Total(s) = 0
  <2>1. Summed(s)[0] = 0 /\ Total(s) = Summed(s)[Len(s)]
    BY SummedIsThere
  <2> QED BY <1>1, <2>1
<1>2. <<>> \in Seq(Nat) /\ Len(<<>>) = 0
  OBVIOUS
<1> QED BY <1>1, <1>2

\* A number more at the end is that much more.
LEMMA TotalAppend ==
  ASSUME NEW s \in Seq(Nat), NEW e \in Nat
  PROVE  Total(Append(s, e)) = Total(s) + e
<1> DEFINE t == Append(s, e)
           N == Len(s)
           g == Summed(s)
           h == Summed(t)
<1>1. t \in Seq(Nat) /\ Len(t) = N + 1 /\ N \in Nat /\ t[N + 1] = e
  OBVIOUS
<1>2. \A n \in 1 .. N : t[n] = s[n]
  OBVIOUS
<1> HIDE DEF t
<1>3. /\ g[0] = 0 /\ Total(s) = g[N]
      /\ \A n \in 1 .. N : g[n] = g[n - 1] + s[n]
  BY SummedIsThere
<1>4. /\ h[0] = 0 /\ Total(t) = h[N + 1]
      /\ \A n \in 1 .. N + 1 : h[n] = h[n - 1] + t[n]
  BY <1>1, SummedIsThere
<1> HIDE DEF g, h, N
<1>5. \A n \in Nat : n \in {k \in Nat : k <= N => h[k] = g[k]}
  <2> DEFINE P == {k \in Nat : k <= N => h[k] = g[k]}
  <2>1. 0 \in P
    BY <1>3, <1>4
  <2>2. ASSUME NEW n \in Nat, n \in P PROVE n + 1 \in P
    <3> SUFFICES ASSUME n + 1 <= N PROVE h[n + 1] = g[n + 1]
      OBVIOUS
    <3>1. h[n] = g[n] /\ n + 1 \in 1 .. N /\ n + 1 \in 1 .. N + 1 /\ (n + 1) - 1 = n
      BY <2>2, <1>1
    <3>2. g[n + 1] = g[n] + s[n + 1]
      BY <3>1, <1>3
    <3>3. h[n + 1] = h[n] + t[n + 1]
      BY <3>1, <1>4
    <3> QED BY <3>1, <3>2, <3>3, <1>2
  <2>3. \A n \in Nat : n \in P
    <3> HIDE DEF P
    <3> QED BY <2>1, <2>2, NatInduct
  <2> QED BY <2>3
<1>6. h[N] = g[N]
  BY <1>5, <1>1
<1>7. h[N + 1] = h[N] + t[N + 1]
  <2>1. N + 1 \in 1 .. N + 1 /\ (N + 1) - 1 = N
    BY <1>1
  <2> QED BY <2>1, <1>4
<1> QED BY <1>1, <1>3, <1>4, <1>6, <1>7 DEF t

\* It is a number.
LEMMA TotalIsNat ==
  ASSUME NEW s \in Seq(Nat)
  PROVE  Total(s) \in Nat
BY SummedIsThere


\* Two lists of numbers come to what each does.
LEMMA TotalConcat ==
  ASSUME NEW s \in Seq(Nat), NEW t \in Seq(Nat)
  PROVE  Total(s \o t) = Total(s) + Total(t)
<1> DEFINE P == {u \in Seq(Nat) : Total(s \o u) = Total(s) + Total(u)}
<1>0. Total(s) \in Nat
  BY TotalIsNat
<1>1. <<>> \in P
  <2>1. s \o <<>> = s /\ <<>> \in Seq(Nat)
    OBVIOUS
  <2> QED BY <1>0, <2>1, TotalEmpty
<1>2. ASSUME NEW u \in Seq(Nat), NEW e \in Nat, u \in P
      PROVE  Append(u, e) \in P
  <2>1. s \o Append(u, e) = Append(s \o u, e) /\ s \o u \in Seq(Nat) /\ Append(u, e) \in Seq(Nat)
    OBVIOUS
  <2>2. Total(Append(s \o u, e)) = Total(s \o u) + e
    BY <2>1, TotalAppend
  <2>3. Total(Append(u, e)) = Total(u) + e
    BY TotalAppend
  <2>4. Total(u) \in Nat /\ Total(s \o u) = Total(s) + Total(u)
    BY <1>2, TotalIsNat
  <2>5. Total(s \o Append(u, e)) = Total(s) + Total(Append(u, e))
    BY <1>0, <2>1, <2>2, <2>3, <2>4
  <2> QED BY <2>1, <2>5
<1>3. \A u \in Seq(Nat) : u \in P
  <2> HIDE DEF P
  <2> QED BY <1>1, <1>2, SeqInduct
<1> QED BY <1>3

-----------------------------------------------------------------------------
(* Joined: lists end to end.                                               *)

\* The function there is a choice of is there, and its values are lists.
LEMMA LacedIsThere ==
  ASSUME NEW S, NEW s \in Seq(Seq(S))
  PROVE  /\ Laced(s) \in [0 .. Len(s) -> Seq(S)]
         /\ Laced(s)[0] = <<>>
         /\ \A n \in 1 .. Len(s) : Laced(s)[n] = Laced(s)[n - 1] \o s[n]
         /\ Joined(s) = Laced(s)[Len(s)]
<1> DEFINE N == Len(s)
           T == Seq(S)
           step == [x \in T \X (1 .. N) |-> x[1] \o s[x[2]]]
           base == <<>>
           Body(f) == [n \in 0 .. N |-> IF n = 0 THEN base ELSE f[n - 1] \o s[n]]
           g == Laced(s)
<1>1. N \in Nat /\ base \in T
  OBVIOUS
<1>a. \A x \in T, n \in 1 .. N : x \o s[n] \in T
  OBVIOUS
<1>2. /\ step \in [T \X (1 .. N) -> T]
      /\ \A x \in T, n \in 1 .. N : step[<<x, n>>] = x \o s[n]
  <2> HIDE DEF N, T
  <2> QED BY <1>a
<1> HIDE DEF step
<1>3. PICK f \in [0 .. N -> T] : Steps(f, base, N, step)
  <2>1. step \in [T \X (1 .. N) -> T]
    BY <1>2
  <2> HIDE DEF N, T, base
  <2> QED BY <1>1, <2>1, Recursion, Zenon
<1>4. f = Body(f)
  <2> HIDE DEF T, N, base
  <2>1. ASSUME NEW n \in 0 .. N, n # 0
        PROVE  f[n] = f[n - 1] \o s[n]
    <3>1. n \in 1 .. N /\ n - 1 \in 0 .. N
      BY <2>1, <1>1
    <3>2. f[n - 1] \in T
      BY <3>1
    <3> QED BY <3>1, <3>2, <1>2, <1>3 DEF Steps
  <2> QED BY <2>1, <1>3 DEF Steps
<1>5. g = Body(g)
  <2>1. g = CHOOSE all : all = Body(all)
    BY DEF Laced
  <2> HIDE DEF g, Body
  <2> QED BY <1>4, <2>1
<1>6. Joined(s) = g[N]
  BY DEF Total, Laced
<1> HIDE DEF g
<1>7. /\ g[0] = base
      /\ \A n \in 1 .. N : g[n] = g[n - 1] \o s[n]
      /\ DOMAIN g = 0 .. N /\ g = [n \in DOMAIN g |-> g[n]]
  <2> HIDE DEF N, base
  <2>1. DOMAIN g = 0 .. N /\ g = [n \in DOMAIN g |-> g[n]]
    BY <1>5
  <2>2. g[0] = base
    BY <1>5, <1>1
  <2>3. ASSUME NEW n \in 1 .. N
        PROVE  g[n] = g[n - 1] \o s[n]
    <3>1. n \in 0 .. N /\ n # 0
      BY <1>1
    <3> QED BY <3>1, <1>5
  <2> QED BY <2>1, <2>2, <2>3
<1>8. \A n \in 0 .. N : g[n] \in T
  <2> HIDE DEF N, T, base
  <2>1. \A n \in 1 .. N : g[n - 1] \in T => g[n] \in T
    BY <1>7, <1>a
  <2> QED BY <2>1, <1>1, <1>7, StepsStay
<1>9. g \in [0 .. N -> T]
  <2> HIDE DEF N, T
  <2> QED BY <1>7, <1>8
<1> QED BY <1>6, <1>7, <1>9 DEF g

\* No lists make an empty one.
LEMMA JoinedEmpty == Joined(<<>>) = <<>>
<1>1. ASSUME NEW S, NEW s \in Seq(Seq(S)), Len(s) = 0
      PROVE  Joined(s) = <<>>
  <2>1. Laced(s)[0] = <<>> /\ Joined(s) = Laced(s)[Len(s)]
    BY LacedIsThere
  <2> QED BY <1>1, <2>1
<1>2. <<>> \in Seq(Seq({})) /\ Len(<<>>) = 0
  OBVIOUS
<1> QED BY <1>1, <1>2

\* A list more goes at the end.
LEMMA JoinedAppend ==
  ASSUME NEW S, NEW s \in Seq(Seq(S)), NEW e \in Seq(S)
  PROVE  Joined(Append(s, e)) = Joined(s) \o e
<1> DEFINE t == Append(s, e)
           N == Len(s)
           g == Laced(s)
           h == Laced(t)
<1>1. t \in Seq(Seq(S)) /\ Len(t) = N + 1 /\ N \in Nat /\ t[N + 1] = e
  OBVIOUS
<1>2. \A n \in 1 .. N : t[n] = s[n]
  OBVIOUS
<1> HIDE DEF t
<1>3. /\ g[0] = <<>> /\ Joined(s) = g[N]
      /\ \A n \in 1 .. N : g[n] = g[n - 1] \o s[n]
  BY LacedIsThere
<1>4. /\ h[0] = <<>> /\ Joined(t) = h[N + 1]
      /\ \A n \in 1 .. N + 1 : h[n] = h[n - 1] \o t[n]
  BY <1>1, LacedIsThere
<1> HIDE DEF g, h, N
<1>5. \A n \in Nat : n \in {k \in Nat : k <= N => h[k] = g[k]}
  <2> DEFINE P == {k \in Nat : k <= N => h[k] = g[k]}
  <2>1. 0 \in P
    BY <1>3, <1>4
  <2>2. ASSUME NEW n \in Nat, n \in P PROVE n + 1 \in P
    <3> SUFFICES ASSUME n + 1 <= N PROVE h[n + 1] = g[n + 1]
      OBVIOUS
    <3>1. h[n] = g[n] /\ n + 1 \in 1 .. N /\ n + 1 \in 1 .. N + 1 /\ (n + 1) - 1 = n
      BY <2>2, <1>1
    <3>2. g[n + 1] = g[n] \o s[n + 1]
      BY <3>1, <1>3
    <3>3. h[n + 1] = h[n] \o t[n + 1]
      BY <3>1, <1>4
    <3> QED BY <3>1, <3>2, <3>3, <1>2
  <2>3. \A n \in Nat : n \in P
    <3> HIDE DEF P
    <3> QED BY <2>1, <2>2, NatInduct
  <2> QED BY <2>3
<1>6. h[N] = g[N]
  BY <1>5, <1>1
<1>7. h[N + 1] = h[N] \o t[N + 1]
  <2>1. N + 1 \in 1 .. N + 1 /\ (N + 1) - 1 = N
    BY <1>1
  <2> QED BY <2>1, <1>4
<1> QED BY <1>1, <1>3, <1>4, <1>6, <1>7 DEF t

\* It is a list of what the lists are of.
LEMMA JoinedIsSeq ==
  ASSUME NEW S, NEW s \in Seq(Seq(S))
  PROVE  Joined(s) \in Seq(S)
<1>1. /\ Laced(s) \in [0 .. Len(s) -> Seq(S)]
      /\ Joined(s) = Laced(s)[Len(s)]
  BY LacedIsThere
<1>2. Len(s) \in 0 .. Len(s)
  OBVIOUS
<1> QED BY <1>1, <1>2

-----------------------------------------------------------------------------
(* Lists built another way.                                                *)

\* A list given element by element.
LEMMA ListOf ==
  ASSUME NEW S, NEW n \in Nat, NEW f \in [1 .. n -> S]
  PROVE  f \in Seq(S) /\ Len(f) = n
OBVIOUS

\* A list of none.
LEMMA ListOfNone ==
  ASSUME NEW S
  PROVE  <<>> \in Seq(S) /\ Len(<<>>) = 0
OBVIOUS

\* A list of one.
LEMMA ListOfOne ==
  ASSUME NEW S, NEW e \in S
  PROVE  <<e>> \in Seq(S) /\ Len(<<e>>) = 1 /\ <<e>>[1] = e
OBVIOUS

\* What a list has in it.
LEMMA ListHas ==
  ASSUME NEW S, NEW s \in Seq(S)
  PROVE  Len(s) \in Nat /\ DOMAIN s = 1 .. Len(s) /\ \A i \in 1 .. Len(s) : s[i] \in S
OBVIOUS

\* Part of a list.
LEMMA PartIs ==
  ASSUME NEW S, NEW s \in Seq(S), NEW a \in Nat, NEW b \in Nat, 1 <= a, a <= b + 1, b <= Len(s)
  PROVE  SubSeq(s, a, b) \in Seq(S) /\ Len(SubSeq(s, a, b)) = b - a + 1
OBVIOUS

\* Lists with the same elements are the same.
LEMMA ListsEqual ==
  ASSUME NEW S, NEW a \in Seq(S), NEW b \in Seq(S), Len(a) = Len(b),
         \A i \in 1 .. Len(a) : a[i] = b[i]
  PROVE  a = b
OBVIOUS

\* One list after another.
LEMMA ConcatIs ==
  ASSUME NEW S, NEW a \in Seq(S), NEW b \in Seq(S)
  PROVE  /\ a \o b \in Seq(S)
         /\ Len(a \o b) = Len(a) + Len(b)
         /\ \A i \in 1 .. Len(a) : (a \o b)[i] = a[i]
         /\ \A i \in Len(a) + 1 .. Len(a) + Len(b) : (a \o b)[i] = b[i - Len(a)]
OBVIOUS

\* Three lists, whichever are put together first, and a list and none.
Associate(a, b, c) == (a \o b) \o c = a \o (b \o c)

\* Three lists end to end, whichever two are put together first.
LEMMA ConcatThree ==
  ASSUME NEW S, NEW a \in Seq(S), NEW b \in Seq(S), NEW c \in Seq(S)
  PROVE  Associate(a, b, c)
<1> DEFINE l == (a \o b) \o c
           r == a \o (b \o c)
<1>0. Len(a) \in Nat /\ Len(b) \in Nat /\ Len(c) \in Nat
  OBVIOUS
<1>1. /\ a \o b \in Seq(S) /\ Len(a \o b) = Len(a) + Len(b)
      /\ \A i \in 1 .. Len(a) : (a \o b)[i] = a[i]
      /\ \A i \in Len(a) + 1 .. Len(a) + Len(b) : (a \o b)[i] = b[i - Len(a)]
  BY ConcatIs
<1>2. /\ b \o c \in Seq(S) /\ Len(b \o c) = Len(b) + Len(c)
      /\ \A i \in 1 .. Len(b) : (b \o c)[i] = b[i]
      /\ \A i \in Len(b) + 1 .. Len(b) + Len(c) : (b \o c)[i] = c[i - Len(b)]
  BY ConcatIs
<1>3. /\ l \in Seq(S) /\ Len(l) = Len(a \o b) + Len(c)
      /\ \A i \in 1 .. Len(a \o b) : l[i] = (a \o b)[i]
      /\ \A i \in Len(a \o b) + 1 .. Len(a \o b) + Len(c) : l[i] = c[i - Len(a \o b)]
  <2> DEFINE ab == a \o b
  <2>1. ab \in Seq(S)
    BY <1>1
  <2>2. l = ab \o c
    OBVIOUS
  <2> HIDE DEF ab
  <2>3. /\ ab \o c \in Seq(S) /\ Len(ab \o c) = Len(ab) + Len(c)
        /\ \A i \in 1 .. Len(ab) : (ab \o c)[i] = ab[i]
        /\ \A i \in Len(ab) + 1 .. Len(ab) + Len(c) : (ab \o c)[i] = c[i - Len(ab)]
    BY <2>1, ConcatIs
  <2> HIDE DEF l
  <2> QED BY <2>2, <2>3 DEF ab
<1>4. /\ r \in Seq(S) /\ Len(r) = Len(a) + Len(b \o c)
      /\ \A i \in 1 .. Len(a) : r[i] = a[i]
      /\ \A i \in Len(a) + 1 .. Len(a) + Len(b \o c) : r[i] = (b \o c)[i - Len(a)]
  BY <1>2, ConcatIs
<1>5. ASSUME NEW i \in 1 .. Len(l) PROVE l[i] = r[i]
  <2> HIDE DEF l, r
  <2>1. CASE i <= Len(a)
    <3>1. i \in 1 .. Len(a) /\ i \in 1 .. Len(a \o b)
      BY <1>0, <1>1, <2>1
    <3> QED BY <3>1, <1>1, <1>3, <1>4
  <2>2. CASE i > Len(a) /\ i <= Len(a) + Len(b)
    <3>1. /\ i \in 1 .. Len(a \o b) /\ i \in Len(a) + 1 .. Len(a) + Len(b)
          /\ i \in Len(a) + 1 .. Len(a) + Len(b \o c) /\ i - Len(a) \in 1 .. Len(b)
      BY <1>0, <1>1, <1>2, <2>2
    <3> QED BY <3>1, <1>1, <1>2, <1>3, <1>4
  <2>3. CASE i > Len(a) + Len(b)
    <3>1. /\ i \in Len(a \o b) + 1 .. Len(a \o b) + Len(c)
          /\ i \in Len(a) + 1 .. Len(a) + Len(b \o c)
          /\ i - Len(a) \in Len(b) + 1 .. Len(b) + Len(c)
          /\ i - Len(a \o b) = (i - Len(a)) - Len(b)
      BY <1>0, <1>1, <1>2, <1>3, <2>3
    <3> QED BY <3>1, <1>1, <1>2, <1>3, <1>4
  <2> QED BY <1>0, <2>1, <2>2, <2>3
<1>6. Len(l) = Len(r)
  BY <1>0, <1>1, <1>2, <1>3, <1>4
<1> HIDE DEF l, r
<1>7. l = r
  BY <1>3, <1>4, <1>5, <1>6, ListsEqual
<1> QED BY <1>7 DEF l, r, Associate

\* A list and nothing after it.
LEMMA ConcatNone ==
  ASSUME NEW S, NEW a \in Seq(S)
  PROVE  a \o <<>> = a
OBVIOUS

\* More at the end of the last of the lists.
More(u, e, x) == Joined(Append(u, e \o x)) = Joined(Append(u, e)) \o x

\* What comes last in the last list comes last of them all.
LEMMA JoinedMore ==
  ASSUME NEW S, NEW u \in Seq(Seq(S)), NEW e \in Seq(S), NEW x \in Seq(S)
  PROVE  More(u, e, x)
<1> DEFINE j == Joined(u)
           ex == e \o x
<1>1. j \in Seq(S) /\ ex \in Seq(S)
  BY JoinedIsSeq, ConcatIs
<1>2. Joined(Append(u, e)) = j \o e
  BY JoinedAppend
<1> HIDE DEF ex
<1>3. Joined(Append(u, ex)) = j \o ex
  BY <1>1, JoinedAppend
<1> HIDE DEF j
<1>4. (j \o e) \o x = j \o (e \o x)
  <2>1. Associate(j, e, x)
    BY <1>1, ConcatThree, Zenon
  <2> QED BY <2>1 DEF Associate
<1> QED BY <1>2, <1>3, <1>4 DEF ex, More

\* One element changed.
LEMMA ChangedIs ==
  ASSUME NEW S, NEW s \in Seq(S), NEW k \in 1 .. Len(s), NEW w \in S
  PROVE  /\ [s EXCEPT ![k] = w] \in Seq(S)
         /\ Len([s EXCEPT ![k] = w]) = Len(s)
         /\ \A j \in 1 .. Len(s) : [s EXCEPT ![k] = w][j] = IF j = k THEN w ELSE s[j]
OBVIOUS

\* One element changed, of a list with another added.
LEMMA ChangedAppend ==
  ASSUME NEW S, NEW u \in Seq(S), NEW e \in S, NEW w \in S
  PROVE  /\ [Append(u, e) EXCEPT ![Len(u) + 1] = w] = Append(u, w)
         /\ \A k \in 1 .. Len(u) :
              [Append(u, e) EXCEPT ![k] = w] = Append([u EXCEPT ![k] = w], e)
<1>1. /\ Append(u, e) \in Seq(S) /\ Len(Append(u, e)) = Len(u) + 1 /\ Append(u, e)[Len(u) + 1] = e
      /\ (\A j \in 1 .. Len(u) : Append(u, e)[j] = u[j]) /\ Len(u) \in Nat
  OBVIOUS
<1>2. [Append(u, e) EXCEPT ![Len(u) + 1] = w] = Append(u, w)
  <2> DEFINE a == [Append(u, e) EXCEPT ![Len(u) + 1] = w]
             b == Append(u, w)
  <2>1. a \in Seq(S) /\ Len(a) = Len(u) + 1 /\ a[Len(u) + 1] = w
        /\ \A j \in 1 .. Len(u) : a[j] = u[j]
    <3> DEFINE t == Append(u, e)
               k == Len(u) + 1
    <3>1. t \in Seq(S) /\ Len(t) = k /\ k \in 1 .. Len(t) /\ \A j \in 1 .. Len(u) : t[j] = u[j]
      BY <1>1
    <3>2. \A j \in 1 .. Len(u) : j \in 1 .. k /\ j # k
      BY <1>1
    <3> HIDE DEF t, k
    <3>3. /\ [t EXCEPT ![k] = w] \in Seq(S)
          /\ Len([t EXCEPT ![k] = w]) = Len(t)
          /\ \A j \in 1 .. Len(t) : [t EXCEPT ![k] = w][j] = IF j = k THEN w ELSE t[j]
      BY <3>1, ChangedIs
    <3>4. a = [t EXCEPT ![k] = w]
      BY DEF t, k
    <3> HIDE DEF a
    <3>5. a \in Seq(S) /\ Len(a) = k /\ a[k] = w /\ \A j \in 1 .. Len(u) : a[j] = u[j]
      BY <3>1, <3>2, <3>3, <3>4
    <3> QED BY <3>5 DEF k
  <2>2. b \in Seq(S) /\ Len(b) = Len(u) + 1 /\ b[Len(u) + 1] = w
        /\ \A j \in 1 .. Len(u) : b[j] = u[j]
    OBVIOUS
  <2> HIDE DEF a, b
  <2>3. \A j \in 1 .. Len(a) : j \in 1 .. Len(u) \/ j = Len(u) + 1
    BY <1>1, <2>1
  <2>4. \A j \in 1 .. Len(a) : a[j] = b[j]
    BY <2>1, <2>2, <2>3
  <2>5. a = b
    BY <2>1, <2>2, <2>4, ListsEqual
  <2> QED BY <2>5 DEF a, b
<1>3. ASSUME NEW k \in 1 .. Len(u)
      PROVE  [Append(u, e) EXCEPT ![k] = w] = Append([u EXCEPT ![k] = w], e)
  <2> DEFINE v == [u EXCEPT ![k] = w]
             a == [Append(u, e) EXCEPT ![k] = w]
             b == Append(v, e)
  <2>1. a \in Seq(S) /\ Len(a) = Len(u) + 1
        /\ \A j \in 1 .. Len(u) + 1 : a[j] = IF j = k THEN w ELSE Append(u, e)[j]
    <3> DEFINE t == Append(u, e)
    <3>1. t \in Seq(S) /\ Len(t) = Len(u) + 1 /\ k \in 1 .. Len(t)
      BY <1>1
    <3>2. a = [t EXCEPT ![k] = w]
      OBVIOUS
    <3> HIDE DEF t, a
    <3>3. /\ [t EXCEPT ![k] = w] \in Seq(S)
          /\ Len([t EXCEPT ![k] = w]) = Len(t)
          /\ \A j \in 1 .. Len(t) : [t EXCEPT ![k] = w][j] = IF j = k THEN w ELSE t[j]
      BY <3>1, ChangedIs
    <3> QED BY <3>1, <3>2, <3>3 DEF t
  <2>2. v \in Seq(S) /\ Len(v) = Len(u)
        /\ \A j \in 1 .. Len(u) : v[j] = IF j = k THEN w ELSE u[j]
    OBVIOUS
  <2> HIDE DEF v
  <2>3. b \in Seq(S) /\ Len(b) = Len(u) + 1 /\ b[Len(u) + 1] = e
        /\ \A j \in 1 .. Len(u) : b[j] = v[j]
    BY <2>2
  <2> HIDE DEF a, b
  <2>4. \A j \in 1 .. Len(a) : j \in 1 .. Len(u) \/ (j = Len(u) + 1 /\ j # k)
    BY <1>1, <2>1
  <2>5. \A j \in 1 .. Len(a) : a[j] = b[j]
    BY <1>1, <2>1, <2>2, <2>3, <2>4
  <2>6. a = b
    BY <2>1, <2>3, <2>5, ListsEqual
  <2> QED BY <2>6 DEF a, b, v
<1> QED BY <1>2, <1>3

\* More at the end of one of the lists, which nothing follows, or nothing more.
LEMMA JoinedChanged ==
  ASSUME NEW S, NEW x \in Seq(S), NEW s \in Seq(Seq(S)), NEW at \in 1 .. Len(s),
         x = <<>> \/ \A j \in at + 1 .. Len(s) : s[j] = <<>>
  PROVE  Joined([s EXCEPT ![at] = s[at] \o x]) = Joined(s) \o x
<1> DEFINE T == Seq(S)
           Calm(u, k) == x = <<>> \/ \A j \in k + 1 .. Len(u) : u[j] = <<>>
           Good(u) == \A k \in 1 .. Len(u) : Calm(u, k) => Joined([u EXCEPT ![k] = u[k] \o x]) = Joined(u) \o x
           P == {u \in Seq(T) : Good(u)}
<1>1. <<>> \in P
  OBVIOUS
<1>2. ASSUME NEW u \in Seq(T), NEW e \in T, u \in P
      PROVE  Append(u, e) \in P
  <2>0. Len(u) \in Nat
    OBVIOUS
  <2>1. Append(u, e) \in Seq(T) /\ Len(Append(u, e)) = Len(u) + 1 /\ Append(u, e)[Len(u) + 1] = e
        /\ (\A j \in 1 .. Len(u) : Append(u, e)[j] = u[j]) /\ Len(u) \in Nat
    OBVIOUS
  <2>2. ASSUME NEW k \in 1 .. Len(u) + 1, Calm(Append(u, e), k)
        PROVE  Joined([Append(u, e) EXCEPT ![k] = Append(u, e)[k] \o x]) = Joined(Append(u, e)) \o x
    <3>1. Joined(u) \in Seq(S) /\ Joined(Append(u, e)) = Joined(u) \o e
      BY JoinedIsSeq, JoinedAppend
    <3>2. CASE k = Len(u) + 1
      <4>1. [Append(u, e) EXCEPT ![k] = Append(u, e)[k] \o x] = Append(u, e \o x)
        <5>1. e \o x \in T
          BY ConcatIs
        <5>2. Append(u, e)[k] = e
          BY <3>2, <2>1
        <5>3. [Append(u, e) EXCEPT ![Len(u) + 1] = e \o x] = Append(u, e \o x)
          <6> DEFINE w == e \o x
          <6> HIDE DEF w
          <6>1. w \in T
            BY <5>1 DEF w
          <6>2. [Append(u, e) EXCEPT ![Len(u) + 1] = w] = Append(u, w)
            <7> HIDE DEF T
            <7> QED BY <6>1, ChangedAppend
          <6> QED BY <6>2 DEF w
        <5> QED BY <3>2, <5>2, <5>3
      <4>2. Joined(Append(u, e \o x)) = Joined(Append(u, e)) \o x
        <5>1. u \in Seq(Seq(S)) /\ e \in Seq(S) /\ x \in Seq(S)
          OBVIOUS
        <5> HIDE DEF T, P, Good, Calm
        <5>2. More(u, e, x)
          BY <5>1, JoinedMore, Zenon
        <5> QED BY <5>2 DEF More
      <4> QED BY <4>1, <4>2
    <3>3. CASE k # Len(u) + 1
      <4> DEFINE v == [u EXCEPT ![k] = u[k] \o x]
      <4>1. k \in 1 .. Len(u)
        BY <3>3, <2>0, SMTT(30)
      <4>2. u[k] \o x \in T
        <5>1. u[k] \in Seq(S)
          BY <4>1
        <5> QED BY <5>1, ConcatIs
      <4>3. [Append(u, e) EXCEPT ![k] = Append(u, e)[k] \o x] = Append(v, e) /\ v \in Seq(T)
        <5>1. v \in Seq(T) /\ Len(v) = Len(u)
          BY <4>1, <4>2
        <5>2. Append(u, e)[k] = u[k]
          BY <4>1
        <5>3. Append(v, e) = [Append(u, e) EXCEPT ![k] = u[k] \o x]
          <6> DEFINE w == u[k] \o x
          <6>1. w \in T
            BY <4>2
          <6> HIDE DEF w
          <6>2. [Append(u, e) EXCEPT ![k] = w] = Append([u EXCEPT ![k] = w], e)
            <7> HIDE DEF T
            <7> QED BY <4>1, <6>1, ChangedAppend
          <6> QED BY <6>2 DEF w
        <5> QED BY <5>1, <5>2, <5>3
      <4>4. Calm(u, k)
        <5>1. CASE x = <<>>
          BY <5>1
        <5>2. CASE \A j \in k + 1 .. Len(Append(u, e)) : Append(u, e)[j] = <<>>
          <6>0. Len(Append(u, e)) = Len(u) + 1
            BY <2>1
          <6>1. \A j \in k + 1 .. Len(u) : j \in 1 .. Len(u) /\ j \in k + 1 .. Len(Append(u, e))
            BY <2>0, <6>0
          <6> QED BY <5>2, <6>1, <2>1
        <5> QED BY <2>2, <5>1, <5>2
      <4>5. Joined(v) = Joined(u) \o x
        BY <1>2, <4>1, <4>4
      <4> HIDE DEF v
      <4>6. Joined(Append(v, e)) = (Joined(u) \o x) \o e
        BY <4>3, <4>5, JoinedAppend
      <4>7. (Joined(u) \o x) \o e = (Joined(u) \o e) \o x
        <5>1. CASE x = <<>>
          <6>1. Joined(u) \o x = Joined(u) /\ (Joined(u) \o e) \o x = Joined(u) \o e
            BY <5>1, <3>1
          <6> QED BY <6>1
        <5>2. CASE \A j \in k + 1 .. Len(Append(u, e)) : Append(u, e)[j] = <<>>
          <6>1. Len(u) + 1 \in k + 1 .. Len(Append(u, e))
            BY <4>1, <2>1
          <6>2. e = <<>>
            BY <5>2, <6>1, <2>1
          <6>3. (Joined(u) \o x) \o e = Joined(u) \o x /\ Joined(u) \o e = Joined(u)
            BY <6>2, <3>1
          <6> QED BY <6>3
        <5> QED BY <2>2, <5>1, <5>2
      <4> QED BY <3>1, <4>3, <4>6, <4>7
    <3> QED BY <3>2, <3>3
  <2>3. Good(Append(u, e))
    BY <2>1, <2>2
  <2> QED BY <2>1, <2>3
<1>3. \A u \in Seq(T) : u \in P
  <2> HIDE DEF P, T
  <2> QED BY <1>1, <1>2, SeqInduct
<1> QED BY <1>3

-----------------------------------------------------------------------------
(* InOrder: the numbers of a set, in order.                                *)

\* The function there is a choice of is there, and its values are lists of
\* numbers gone through.
LEMMA PickedIsThere ==
  ASSUME NEW N \in Nat, NEW numbers
  PROVE  /\ Picked(N, numbers) \in [0 .. N -> Seq(1 .. N)]
         /\ Picked(N, numbers)[0] = <<>>
         /\ \A n \in 1 .. N : Picked(N, numbers)[n] =
              IF n \in numbers THEN Append(Picked(N, numbers)[n - 1], n) ELSE Picked(N, numbers)[n - 1]
         /\ InOrder(N, numbers) = Picked(N, numbers)[N]
<1> DEFINE T == Seq(1 .. N)
           Step(v, n) == IF n \in numbers THEN Append(v, n) ELSE v
           step == [x \in T \X (1 .. N) |-> Step(x[1], x[2])]
           base == <<>>
           Body(f) == [n \in 0 .. N |-> IF n = 0 THEN base ELSE Step(f[n - 1], n)]
           g == Picked(N, numbers)
<1>1. N \in Nat /\ base \in T
  OBVIOUS
<1>a. ASSUME NEW x \in T, NEW n \in 1 .. N PROVE Step(x, n) \in T
  <2>1. Append(x, n) \in T
    OBVIOUS
  <2> QED BY <2>1
<1> HIDE DEF Step
<1>2. /\ step \in [T \X (1 .. N) -> T]
      /\ \A x \in T, n \in 1 .. N : step[<<x, n>>] = Step(x, n)
  <2> HIDE DEF T
  <2> QED BY <1>a
<1> HIDE DEF step
<1>3. PICK f \in [0 .. N -> T] : Steps(f, base, N, step)
  <2>1. step \in [T \X (1 .. N) -> T]
    BY <1>2
  <2> HIDE DEF T, base
  <2> QED BY <1>1, <2>1, Recursion, Zenon
<1>4. f = Body(f)
  <2> HIDE DEF T, base
  <2>1. ASSUME NEW n \in 0 .. N, n # 0
        PROVE  f[n] = Step(f[n - 1], n)
    <3>1. n \in 1 .. N /\ n - 1 \in 0 .. N
      BY <2>1, <1>1
    <3>2. f[n - 1] \in T
      BY <3>1
    <3> QED BY <3>1, <3>2, <1>2, <1>3 DEF Steps
  <2> QED BY <2>1, <1>3 DEF Steps
<1>5. g = Body(g)
  <2>1. g = CHOOSE kept : kept = Body(kept)
    BY DEF Picked, Step
  <2> HIDE DEF g, Body
  <2> QED BY <1>4, <2>1
<1>6. InOrder(N, numbers) = g[N]
  BY DEF InOrder
<1> HIDE DEF g
<1>7. /\ g[0] = base
      /\ \A n \in 1 .. N : g[n] = Step(g[n - 1], n)
      /\ DOMAIN g = 0 .. N /\ g = [n \in DOMAIN g |-> g[n]]
  <2> HIDE DEF base
  <2>1. DOMAIN g = 0 .. N /\ g = [n \in DOMAIN g |-> g[n]]
    BY <1>5
  <2>2. g[0] = base
    BY <1>5, <1>1
  <2>3. ASSUME NEW n \in 1 .. N
        PROVE  g[n] = Step(g[n - 1], n)
    <3>1. n \in 0 .. N /\ n # 0
      BY <1>1
    <3> QED BY <3>1, <1>5
  <2> QED BY <2>1, <2>2, <2>3
<1>8. \A n \in 0 .. N : g[n] \in T
  <2> HIDE DEF T, base
  <2>1. \A n \in 1 .. N : g[n - 1] \in T => g[n] \in T
    BY <1>7, <1>a
  <2> QED BY <2>1, <1>1, <1>7, StepsStay
<1>9. g \in [0 .. N -> T]
  <2> HIDE DEF T
  <2> QED BY <1>7, <1>8
<1> QED BY <1>6, <1>7, <1>9 DEF g, Step

\* All of the numbers of a set up to one, and no others, each once.
Ascends(c, n, numbers) ==
    /\ c \in Seq(1 .. n)
    /\ Len(c) <= n
    /\ \A i \in 1 .. Len(c) : c[i] \in numbers
    /\ \A k \in 1 .. n : k \in numbers => \E i \in 1 .. Len(c) : c[i] = k
    /\ \A i, j \in 1 .. Len(c) : i < j => c[i] < c[j]

\* So InOrder is.
LEMMA InOrderIs ==
  ASSUME NEW N \in Nat, NEW numbers
  PROVE  Ascends(InOrder(N, numbers), N, numbers)
<1> DEFINE g == Picked(N, numbers)
           P == {k \in Nat : k <= N => Ascends(g[k], k, numbers)}
<1>1. /\ g \in [0 .. N -> Seq(1 .. N)] /\ g[0] = <<>> /\ InOrder(N, numbers) = g[N]
      /\ \A n \in 1 .. N : g[n] = IF n \in numbers THEN Append(g[n - 1], n) ELSE g[n - 1]
  BY PickedIsThere
<1> HIDE DEF g
<1>2. 0 \in P
  <2>1. Ascends(<<>>, 0, numbers)
    BY DEF Ascends
  <2> QED BY <2>1, <1>1
<1>3. ASSUME NEW n \in Nat, n \in P PROVE n + 1 \in P
  <2> SUFFICES ASSUME n + 1 <= N PROVE Ascends(g[n + 1], n + 1, numbers)
    OBVIOUS
  <2> DEFINE c == g[n]
             d == g[n + 1]
  <2>1. Ascends(c, n, numbers)
    BY <1>3
  <2>2. d = IF n + 1 \in numbers THEN Append(c, n + 1) ELSE c
    <3>1. n + 1 \in 1 .. N /\ (n + 1) - 1 = n
      OBVIOUS
    <3> QED BY <3>1, <1>1
  <2> HIDE DEF c, d
  <2>3. c \in Seq(1 .. n + 1)
    <3>1. c \in Seq(1 .. n) /\ 1 .. n \subseteq 1 .. n + 1
      BY <2>1 DEF Ascends
    <3> QED BY <3>1
  <2>4. CASE n + 1 \notin numbers
    <3>1. d = c
      BY <2>2, <2>4
    <3>2. \A k \in 1 .. n + 1 : k \in numbers => k \in 1 .. n
      BY <2>4
    <3> QED BY <3>1, <3>2, <2>1, <2>3 DEF Ascends, d
  <2>5. CASE n + 1 \in numbers
    <3>1. d = Append(c, n + 1)
      BY <2>2, <2>5
    <3>2. /\ d \in Seq(1 .. n + 1) /\ Len(d) = Len(c) + 1 /\ d[Len(c) + 1] = n + 1
          /\ \A i \in 1 .. Len(c) : d[i] = c[i]
      BY <3>1, <2>3
    <3>3. Len(c) \in Nat /\ Len(c) <= n
      BY <2>1 DEF Ascends
    <3>4. \A i \in 1 .. Len(d) : d[i] \in numbers
      <4>1. \A i \in 1 .. Len(d) : i \in 1 .. Len(c) \/ i = Len(c) + 1
        BY <3>2, <3>3
      <4> QED BY <4>1, <3>2, <2>1, <2>5 DEF Ascends
    <3>5. ASSUME NEW k \in 1 .. n + 1, k \in numbers PROVE \E i \in 1 .. Len(d) : d[i] = k
      <4>1. CASE k = n + 1
        <5>1. Len(c) + 1 \in 1 .. Len(d)
          BY <3>2, <3>3
        <5> QED BY <5>1, <4>1, <3>2
      <4>2. CASE k # n + 1
        <5>1. k \in 1 .. n
          BY <4>2
        <5>2. PICK i \in 1 .. Len(c) : c[i] = k
          BY <5>1, <3>5, <2>1 DEF Ascends
        <5>3. i \in 1 .. Len(d) /\ d[i] = k
          <6> DEFINE m == Len(c)
          <6>1. Len(d) = m + 1 /\ m \in Nat /\ i \in 1 .. m
            BY <3>2, <3>3
          <6>2. d[i] = k
            BY <5>2, <3>2, Zenon
          <6> HIDE DEF m, d
          <6> QED BY <6>1, <6>2
        <5>4. \E j \in 1 .. Len(d) : d[j] = k
          BY <5>3
        <5> QED BY <5>4
      <4> QED BY <4>1, <4>2
    <3>6. ASSUME NEW i \in 1 .. Len(d), NEW j \in 1 .. Len(d), i < j PROVE d[i] < d[j]
      <4>1. i \in 1 .. Len(c) /\ c[i] \in 1 .. n
        <5>1. i \in 1 .. Len(c)
          BY <3>6, <3>2, <3>3
        <5>2. c \in Seq(1 .. n)
          BY <2>1 DEF Ascends
        <5> QED BY <5>1, <5>2
      <4>2. CASE j \in 1 .. Len(c)
        BY <4>1, <4>2, <3>6, <3>2, <2>1 DEF Ascends
      <4>3. CASE j = Len(c) + 1
        BY <4>1, <4>3, <3>2
      <4> QED BY <4>2, <4>3, <3>2, <3>3
    <3>7. Len(d) <= n + 1
      BY <3>2, <3>3
    <3> QED BY <3>2, <3>4, <3>5, <3>6, <3>7 DEF Ascends, d
  <2> QED BY <2>4, <2>5
<1>4. N \in P
  <2> HIDE DEF P
  <2> QED BY <1>2, <1>3, NatInduct
<1> QED BY <1>1, <1>4

\* A list with one more in it, somewhere.
Inserted(d, c, x, i) ==
    /\ i \in 1 .. Len(d) /\ Len(d) = Len(c) + 1 /\ d[i] = x
    /\ \A j \in 1 .. Len(c) : c[j] = IF j < i THEN d[j] ELSE d[j + 1]

\* A number more is one more of the list, and the rest are as they were.
LEMMA InOrderMore ==
  ASSUME NEW N \in Nat, NEW numbers, NEW x \in 1 .. N, x \notin numbers
  PROVE  \E i \in Nat : Inserted(InOrder(N, numbers \cup {x}), InOrder(N, numbers), x, i)
<1> DEFINE g == Picked(N, numbers)
           more == numbers \cup {x}
           h == Picked(N, more)
           Good(k) == IF k < x THEN h[k] = g[k] ELSE \E i \in Nat : Inserted(h[k], g[k], x, i)
           P == {k \in Nat : k <= N => Good(k)}
<1>0. x \in Nat /\ 1 <= x /\ x <= N
  OBVIOUS
<1>1. /\ g \in [0 .. N -> Seq(1 .. N)] /\ g[0] = <<>> /\ InOrder(N, numbers) = g[N]
      /\ \A n \in 1 .. N : g[n] = IF n \in numbers THEN Append(g[n - 1], n) ELSE g[n - 1]
  BY PickedIsThere
<1>2. /\ h \in [0 .. N -> Seq(1 .. N)] /\ h[0] = <<>> /\ InOrder(N, more) = h[N]
      /\ \A n \in 1 .. N : h[n] = IF n \in more THEN Append(h[n - 1], n) ELSE h[n - 1]
  BY PickedIsThere
<1> HIDE DEF g, h
<1>3. 0 \in P
  BY <1>0, <1>1, <1>2
<1>4. ASSUME NEW n \in Nat, n \in P PROVE n + 1 \in P
  <2> SUFFICES ASSUME n + 1 <= N PROVE Good(n + 1)
    OBVIOUS
  <2>0. n + 1 \in 1 .. N /\ (n + 1) - 1 = n /\ n \in 0 .. N /\ Good(n)
    BY <1>4
  <2>1. g[n + 1] = IF n + 1 \in numbers THEN Append(g[n], n + 1) ELSE g[n]
    BY <2>0, <1>1
  <2>2. h[n + 1] = IF n + 1 \in more THEN Append(h[n], n + 1) ELSE h[n]
    BY <2>0, <1>2
  <2>3. g[n] \in Seq(1 .. N) /\ h[n] \in Seq(1 .. N)
    BY <2>0, <1>1, <1>2
  <2>4. CASE n + 1 < x
    <3>1. h[n] = g[n] /\ (n + 1 \in more <=> n + 1 \in numbers)
      BY <2>4, <2>0, <1>0
    <3> QED BY <3>1, <2>1, <2>2, <2>4
  <2>5. CASE n + 1 = x
    <3>1. h[n] = g[n]
      BY <2>5, <2>0, <1>0
    <3>2. g[n + 1] = g[n] /\ h[n + 1] = Append(g[n], x)
      BY <3>1, <2>1, <2>2, <2>5
    <3>3. Inserted(Append(g[n], x), g[n], x, Len(g[n]) + 1)
      BY <2>3 DEF Inserted
    <3>4. Len(g[n]) + 1 \in Nat
      BY <2>3
    <3> QED BY <3>2, <3>3, <3>4, <2>5
  <2>6. CASE n + 1 > x
    <3>1. PICK i \in Nat : Inserted(h[n], g[n], x, i)
      BY <2>6, <2>0, <1>0
    <3>2. n + 1 \in more <=> n + 1 \in numbers
      BY <2>6, <1>0
    <3>3. CASE n + 1 \notin numbers
      <4>1. h[n + 1] = h[n] /\ g[n + 1] = g[n]
        BY <3>2, <3>3, <2>1, <2>2
      <4> QED BY <4>1, <3>1, <2>6
    <3>4. CASE n + 1 \in numbers
      <4> DEFINE c == g[n]
                 d == h[n]
      <4>1. h[n + 1] = Append(d, n + 1) /\ g[n + 1] = Append(c, n + 1)
        BY <3>2, <3>4, <2>1, <2>2
      <4>2. c \in Seq(1 .. N) /\ d \in Seq(1 .. N) /\ Inserted(d, c, x, i)
        BY <2>3, <3>1
      <4> HIDE DEF c, d
      <4>3. /\ Len(Append(c, n + 1)) = Len(c) + 1 /\ Append(c, n + 1)[Len(c) + 1] = n + 1
            /\ \A j \in 1 .. Len(c) : Append(c, n + 1)[j] = c[j]
            /\ Len(Append(d, n + 1)) = Len(d) + 1 /\ Append(d, n + 1)[Len(d) + 1] = n + 1
            /\ \A j \in 1 .. Len(d) : Append(d, n + 1)[j] = d[j]
            /\ Len(c) \in Nat /\ Len(d) = Len(c) + 1 /\ i \in 1 .. Len(d)
        BY <4>2 DEF Inserted
      <4> DEFINE cc == Append(c, n + 1)
                 dd == Append(d, n + 1)
      <4>4. /\ Len(cc) = Len(c) + 1 /\ cc[Len(c) + 1] = n + 1
            /\ \A j \in 1 .. Len(c) : cc[j] = c[j]
            /\ Len(dd) = Len(d) + 1 /\ dd[Len(d) + 1] = n + 1
            /\ \A j \in 1 .. Len(d) : dd[j] = d[j]
        BY <4>3
      <4> HIDE DEF cc, dd
      <4>5. ASSUME NEW j \in 1 .. Len(cc) PROVE cc[j] = IF j < i THEN dd[j] ELSE dd[j + 1]
        <5>1. CASE j \in 1 .. Len(c)
          <6>1. c[j] = IF j < i THEN d[j] ELSE d[j + 1]
            BY <5>1, <4>2 DEF Inserted
          <6>2. j \in 1 .. Len(d) /\ j + 1 \in 1 .. Len(d)
            BY <5>1, <4>3
          <6> QED BY <6>1, <6>2, <5>1, <4>4
        <5>2. CASE j = Len(c) + 1
          BY <5>2, <4>3, <4>4
        <5> QED BY <5>1, <5>2, <4>3, <4>4
      <4>6. Inserted(dd, cc, x, i)
        <5>1. i \in 1 .. Len(dd) /\ Len(dd) = Len(cc) + 1 /\ dd[i] = x
          BY <4>2, <4>3, <4>4 DEF Inserted
        <5> QED BY <5>1, <4>5 DEF Inserted
      <4> QED BY <4>1, <4>6, <2>6 DEF cc, dd
    <3> QED BY <3>3, <3>4
  <2> QED BY <2>4, <2>5, <2>6, <1>0
<1>5. N \in P
  <2> HIDE DEF P
  <2> QED BY <1>3, <1>4, NatInduct
<1> QED BY <1>0, <1>1, <1>2, <1>5

\* All of the first numbers are the first numbers.
LEMMA InOrderFirst ==
  ASSUME NEW N \in Nat, NEW M \in 0 .. N
  PROVE  InOrder(N, 1 .. M) = [i \in 1 .. M |-> i]
<1> DEFINE c == InOrder(N, 1 .. M)
           Good(i) == c[i] = i
           P == {k \in Nat : k <= M => k <= Len(c) /\ \A i \in 1 .. k : c[i] = i}
<1>1. /\ c \in Seq(1 .. N)
      /\ \A i \in 1 .. Len(c) : c[i] \in 1 .. M
      /\ \A k \in 1 .. N : k \in 1 .. M => \E i \in 1 .. Len(c) : c[i] = k
      /\ \A i, j \in 1 .. Len(c) : i < j => c[i] < c[j]
  <2>1. Ascends(c, N, 1 .. M)
    BY InOrderIs
  <2> QED BY <2>1 DEF Ascends
<1> HIDE DEF c
<1>0. Len(c) \in Nat
  BY <1>1
<1>2. 0 \in P
  BY <1>0
<1>3. ASSUME NEW n \in Nat, n \in P PROVE n + 1 \in P
  <2> SUFFICES ASSUME n + 1 <= M PROVE n + 1 <= Len(c) /\ \A i \in 1 .. n + 1 : c[i] = i
    OBVIOUS
  <2>1. n <= Len(c) /\ \A i \in 1 .. n : c[i] = i
    BY <1>3
  <2>2. PICK i \in 1 .. Len(c) : c[i] = n + 1
    <3>1. n + 1 \in 1 .. N /\ n + 1 \in 1 .. M
      OBVIOUS
    <3> QED BY <3>1, <1>1
  <2>3. i > n
    <3>1. i \in 1 .. n => c[i] = i
      BY <2>1
    <3> QED BY <3>1, <2>2
  <2>4. n + 1 \in 1 .. Len(c)
    BY <2>3, <1>0
  <2>5. c[n + 1] \in 1 .. M
    BY <2>4, <1>1
  <2>6. c[n + 1] > n
    <3>1. CASE n = 0
      BY <3>1, <2>5
    <3>2. CASE n > 0
      <4>1. n \in 1 .. Len(c) /\ c[n] = n /\ n < n + 1
        BY <3>2, <2>1
      <4>2. c[n] < c[n + 1]
        BY <4>1, <2>4, <1>1
      <4> QED BY <4>1, <4>2, <2>5
    <3> QED BY <3>1, <3>2
  <2>7. c[n + 1] = n + 1
    <3>1. CASE i = n + 1
      BY <3>1, <2>2
    <3>2. CASE i > n + 1
      <4>1. c[n + 1] < c[i]
        BY <3>2, <2>4, <1>1
      <4> QED BY <4>1, <2>2, <2>5, <2>6
    <3> QED BY <3>1, <3>2, <2>3
  <2> QED BY <2>1, <2>4, <2>7
<1>4. M \in P
  <2> HIDE DEF P
  <2> QED BY <1>2, <1>3, NatInduct
<1>5. Len(c) = M
  <2>1. M <= Len(c) /\ \A i \in 1 .. M : c[i] = i
    BY <1>4
  <2>2. ASSUME Len(c) > M PROVE FALSE
    <3>1. M + 1 \in 1 .. Len(c) /\ c[M + 1] \in 1 .. M
      BY <2>2, <1>0, <1>1
    <3>2. c[c[M + 1]] = c[M + 1] /\ c[M + 1] \in 1 .. Len(c) /\ c[M + 1] < M + 1
      BY <3>1, <2>1, <1>0
    <3>3. c[c[M + 1]] < c[M + 1]
      BY <3>1, <3>2, <1>1
    <3> QED BY <3>1, <3>2, <3>3
  <2> QED BY <2>1, <2>2, <1>0
<1>6. c = [i \in 1 .. M |-> i]
  <2>1. \A i \in 1 .. M : c[i] = i
    BY <1>4
  <2> QED BY <2>1, <1>1, <1>5
<1> QED BY <1>6 DEF c

-----------------------------------------------------------------------------
(* Where each number of a list, or each list, comes in what they make.     *)

\* What a list comes to only rises.
LEMMA SummedRises ==
  ASSUME NEW s \in Seq(Nat), NEW i \in 0 .. Len(s), NEW j \in 0 .. Len(s), i <= j
  PROVE  Summed(s)[i] <= Summed(s)[j]
<1> DEFINE g == Summed(s)
           P == {n \in Nat : i + n <= Len(s) => g[i] <= g[i + n]}
<1>0. Len(s) \in Nat
  OBVIOUS
<1>1. /\ g \in [0 .. Len(s) -> Nat]
      /\ \A n \in 1 .. Len(s) : g[n] = g[n - 1] + s[n]
  BY SummedIsThere
<1> HIDE DEF g
<1>2. 0 \in P
  BY <1>1
<1>3. ASSUME NEW n \in Nat, n \in P PROVE n + 1 \in P
  <2> SUFFICES ASSUME i + (n + 1) <= Len(s) PROVE g[i] <= g[i + (n + 1)]
    OBVIOUS
  <2>1. /\ i + (n + 1) \in 1 .. Len(s) /\ (i + (n + 1)) - 1 = i + n
        /\ i + n \in 0 .. Len(s) /\ i + n <= Len(s)
    BY <1>0
  <2>2. g[i + (n + 1)] = g[i + n] + s[i + (n + 1)]
    BY <2>1, <1>1
  <2>3. g[i] <= g[i + n]
    BY <2>1, <1>3
  <2>4. s[i + (n + 1)] \in Nat
    BY <2>1
  <2>5. g[i] \in Nat /\ g[i + n] \in Nat
    BY <2>1, <1>1
  <2> QED BY <2>2, <2>3, <2>4, <2>5
<1>4. j - i \in P
  <2>1. j - i \in Nat
    BY <1>0
  <2> HIDE DEF P
  <2> QED BY <1>2, <1>3, <2>1, NatInduct
<1>5. i + (j - i) = j
  BY <1>0
<1> QED BY <1>0, <1>4, <1>5 DEF g

\* A list of one number over and over.
LEMMA TotalSame ==
  ASSUME NEW s \in Seq(Nat), NEW c \in Nat, \A i \in 1 .. Len(s) : s[i] = c
  PROVE  Total(s) = Len(s) * c
<1> DEFINE g == Summed(s)
           N == Len(s)
           P == {n \in Nat : n <= N => g[n] = n * c}
<1>1. /\ g[0] = 0 /\ \A n \in 1 .. N : g[n] = g[n - 1] + s[n]
      /\ Total(s) = g[N] /\ N \in Nat
  BY SummedIsThere
<1> HIDE DEF g
<1>2. 0 \in P
  BY <1>1
<1>3. ASSUME NEW n \in Nat, n \in P PROVE n + 1 \in P
  <2> SUFFICES ASSUME n + 1 <= N PROVE g[n + 1] = (n + 1) * c
    OBVIOUS
  <2>1. n + 1 \in 1 .. N /\ (n + 1) - 1 = n /\ n <= N
    BY <1>1
  <2>2. g[n + 1] = g[n] + s[n + 1] /\ s[n + 1] = c /\ g[n] = n * c
    BY <2>1, <1>1, <1>3
  <2>3. (n + 1) * c = n * c + c
    OBVIOUS
  <2> QED BY <2>2, <2>3
<1>4. N \in P
  <2> HIDE DEF P, N
  <2> QED BY <1>1, <1>2, <1>3, NatInduct
<1> QED BY <1>1, <1>4

\* A list that is nowhere more than another comes to no more.
LEMMA TotalLess ==
  ASSUME NEW s \in Seq(Nat), NEW t \in Seq(Nat), Len(s) = Len(t), \A i \in 1 .. Len(s) : s[i] <= t[i]
  PROVE  Total(s) <= Total(t)
<1> DEFINE g == Summed(s)
           h == Summed(t)
           N == Len(s)
           P == {n \in Nat : n <= N => g[n] <= h[n]}
<1>b. /\ g[0] = 0 /\ (\A n \in 1 .. N : g[n] = g[n - 1] + s[n]) /\ Total(s) = g[N]
      /\ N \in Nat /\ g \in [0 .. N -> Nat]
  BY SummedIsThere
<1>c. /\ h[0] = 0 /\ (\A n \in 1 .. N : h[n] = h[n - 1] + t[n]) /\ Total(t) = h[N]
      /\ h \in [0 .. N -> Nat]
  BY SummedIsThere
<1>a. \A n \in 1 .. N : s[n] \in Nat /\ t[n] \in Nat
  OBVIOUS
<1> HIDE DEF g, h
<1>2. 0 \in P
  BY <1>b, <1>c
<1>3. ASSUME NEW n \in Nat, n \in P PROVE n + 1 \in P
  <2> SUFFICES ASSUME n + 1 <= N PROVE g[n + 1] <= h[n + 1]
    OBVIOUS
  <2>1. n + 1 \in 1 .. N /\ (n + 1) - 1 = n /\ n <= N /\ n \in 0 .. N
    BY <1>b, <1>c
  <2>2. g[n + 1] = g[n] + s[n + 1] /\ h[n + 1] = h[n] + t[n + 1] /\ s[n + 1] <= t[n + 1] /\ g[n] <= h[n]
    BY <2>1, <1>b, <1>c, <1>3
  <2>3. g[n] \in Nat /\ h[n] \in Nat /\ s[n + 1] \in Nat /\ t[n + 1] \in Nat
    BY <2>1, <1>b, <1>c, <1>a
  <2> QED BY <2>2, <2>3
<1>4. N \in P
  <2> HIDE DEF P, N
  <2> QED BY <1>b, <1>c, <1>2, <1>3, NatInduct
<1> QED BY <1>b, <1>c, <1>4

\* How long each list is.
LengthsOf(s) == [k \in DOMAIN s |-> Len(s[k])]

\* Lists end to end are as long as the lists are, and each lies where the
\* lengths of those before it come to.
LEMMA LacedAt ==
  ASSUME NEW S, NEW s \in Seq(Seq(S))
  PROVE  /\ LengthsOf(s) \in Seq(Nat) /\ Len(LengthsOf(s)) = Len(s)
         /\ Joined(s) \in Seq(S) /\ Len(Joined(s)) = Total(LengthsOf(s))
         /\ \A k \in 1 .. Len(s) : \A i \in 1 .. Len(s[k]) :
              Joined(s)[Summed(LengthsOf(s))[k - 1] + i] = s[k][i]
<1> DEFINE l == LengthsOf(s)
           g == Laced(s)
           h == Summed(l)
           N == Len(s)
<1>1. l \in Seq(Nat) /\ Len(l) = N /\ N \in Nat /\ \A k \in 1 .. N : l[k] = Len(s[k])
  <2>1. \A k \in 1 .. N : s[k] \in Seq(S) /\ Len(s[k]) \in Nat
    OBVIOUS
  <2> QED BY <2>1 DEF LengthsOf
<1>a. \A k \in 1 .. N : s[k] \in Seq(S)
  OBVIOUS
<1> HIDE DEF l
<1>2. /\ g \in [0 .. N -> Seq(S)] /\ g[0] = <<>> /\ Joined(s) = g[N]
      /\ \A n \in 1 .. N : g[n] = g[n - 1] \o s[n]
  BY LacedIsThere
<1>3. /\ h \in [0 .. N -> Nat] /\ h[0] = 0 /\ Total(l) = h[N]
      /\ \A n \in 1 .. N : h[n] = h[n - 1] + l[n]
  BY <1>1, SummedIsThere
<1> HIDE DEF g, h, N
<1> DEFINE At(n) == /\ Len(g[n]) = h[n]
                    /\ \A k \in 1 .. n : \A i \in 1 .. l[k] : h[k - 1] + i <= h[n] /\ g[n][h[k - 1] + i] = s[k][i]
           P == {n \in Nat : n <= N => At(n)}
<1>4. 0 \in P
  BY <1>2, <1>3
<1>5. ASSUME NEW n \in Nat, n \in P PROVE n + 1 \in P
  <2> SUFFICES ASSUME n + 1 <= N PROVE At(n + 1)
    OBVIOUS
  <2>0. /\ n + 1 \in 1 .. N /\ (n + 1) - 1 = n /\ n \in 0 .. N /\ n <= N
        /\ n + 1 \in 0 .. N
    BY <1>1
  <2> DEFINE a == g[n]
             b == s[n + 1]
  <2>1. /\ g[n + 1] = a \o b /\ a \in Seq(S) /\ b \in Seq(S)
        /\ h[n + 1] = h[n] + l[n + 1] /\ l[n + 1] = Len(b) /\ h[n] \in Nat
        /\ Len(a) = h[n]
    BY <2>0, <1>a, <1>1, <1>2, <1>3, <1>5
  <2>2. \A k \in 1 .. n : \A i \in 1 .. l[k] : h[k - 1] + i <= h[n] /\ a[h[k - 1] + i] = s[k][i]
    BY <2>0, <1>5
  <2>b. b = s[n + 1]
    OBVIOUS
  <2> HIDE DEF a, b
  <2>3. /\ Len(a \o b) = Len(a) + Len(b)
        /\ \A i \in 1 .. Len(a) : (a \o b)[i] = a[i]
        /\ \A i \in Len(a) + 1 .. Len(a) + Len(b) : (a \o b)[i] = b[i - Len(a)]
        /\ Len(b) \in Nat
    <3>1. a \in Seq(S) /\ b \in Seq(S)
      BY <2>1
    <3>2. Len(b) \in Nat
      BY <3>1
    <3>3. /\ Len(a \o b) = Len(a) + Len(b)
          /\ \A i \in 1 .. Len(a) : (a \o b)[i] = a[i]
          /\ \A i \in Len(a) + 1 .. Len(a) + Len(b) : (a \o b)[i] = b[i - Len(a)]
      BY <3>1, ConcatIs
    <3> QED BY <3>2, <3>3
  <2> DEFINE c == a \o b
  <2>4. /\ g[n + 1] = c /\ Len(c) = Len(a) + Len(b)
        /\ \A i \in 1 .. Len(a) : c[i] = a[i]
        /\ \A i \in Len(a) + 1 .. Len(a) + Len(b) : c[i] = b[i - Len(a)]
    BY <2>1, <2>3
  <2> HIDE DEF c
  <2>5. ASSUME NEW k \in 1 .. n + 1, NEW i \in 1 .. l[k]
        PROVE  h[k - 1] + i <= h[n + 1] /\ c[h[k - 1] + i] = s[k][i]
    <3>1. CASE k \in 1 .. n
      <4>1. h[k - 1] + i <= h[n] /\ a[h[k - 1] + i] = s[k][i]
        BY <3>1, <2>2
      <4>2. k - 1 \in 0 .. N /\ k \in 1 .. N
        BY <3>1, <2>0, <1>1
      <4>3. h[k - 1] \in Nat /\ l[k] \in Nat /\ i \in Nat /\ i >= 1
        <5>1. h[k - 1] \in Nat /\ l[k] \in Nat
          BY <4>2, <1>1, <1>3
        <5> QED BY <5>1
      <4>4. h[k - 1] + i \in 1 .. Len(a)
        <5>1. h[k - 1] + i <= h[n] /\ h[n] \in Nat /\ Len(a) = h[n]
          BY <4>1, <2>1
        <5> QED BY <5>1, <4>3
      <4>5. h[n] <= h[n + 1] /\ h[k - 1] + i \in Nat /\ h[n + 1] \in Nat
        <5>1. h[n + 1] = h[n] + Len(b) /\ h[n] \in Nat /\ Len(b) \in Nat
          BY <2>1, <2>3
        <5> QED BY <5>1, <4>3, SMTT(30)
      <4> QED BY <4>1, <4>4, <4>5, <2>1, <2>4, SMTT(30)
    <3>2. CASE k = n + 1
      <4>1. k - 1 = n /\ i \in 1 .. Len(b)
        BY <3>2, <2>0, <2>1
      <4>2. h[n] + i \in Len(a) + 1 .. Len(a) + Len(b) /\ (h[n] + i) - Len(a) = i
        BY <4>1, <2>1, <2>3, SMTT(30)
      <4>3. c[h[n] + i] = b[i]
        BY <4>2, <2>4
      <4>4. h[n] + i <= h[n + 1]
        BY <4>2, <2>1
      <4> QED BY <3>2, <4>1, <4>3, <4>4, <2>b
    <3> QED BY <3>1, <3>2
  <2> QED BY <2>1, <2>4, <2>5
<1>6. N \in P
  <2> HIDE DEF P
  <2> QED BY <1>1, <1>4, <1>5, NatInduct
<1>7. At(N)
  BY <1>1, <1>6
<1>8. Joined(s) \in Seq(S)
  BY JoinedIsSeq
<1> QED BY <1>1, <1>2, <1>3, <1>7, <1>8 DEF l, h, N
\* A list with one element less.
LEMMA WithoutIsSeq ==
  ASSUME NEW S, NEW s \in Seq(S), NEW i \in 1 .. Len(s)
  PROVE  LET less == SubSeq(s, 1, i - 1) \o SubSeq(s, i + 1, Len(s))
         IN /\ less \in Seq(S) /\ Len(less) = Len(s) - 1
            /\ \A j \in 1 .. Len(s) - 1 : less[j] = IF j < i THEN s[j] ELSE s[j + 1]
<1> DEFINE a == SubSeq(s, 1, i - 1)
           b == SubSeq(s, i + 1, Len(s))
<1>1. a \in Seq(S) /\ Len(a) = i - 1 /\ \A j \in 1 .. i - 1 : a[j] = s[j]
  OBVIOUS
<1>2. b \in Seq(S) /\ Len(b) = Len(s) - i /\ \A j \in 1 .. Len(s) - i : b[j] = s[i + j]
  OBVIOUS
<1>3. a \o b = SubSeq(s, 1, i - 1) \o SubSeq(s, i + 1, Len(s))
  OBVIOUS
<1> HIDE DEF a, b
<1>4. a \o b \in Seq(S) /\ Len(a \o b) = Len(s) - 1
  BY <1>1, <1>2, ConcatIs
<1>5. ASSUME NEW j \in 1 .. Len(s) - 1
      PROVE  (a \o b)[j] = IF j < i THEN s[j] ELSE s[j + 1]
  <2>1. CASE j < i
    <3>1. j \in 1 .. i - 1
      BY <2>1
    <3>2. (a \o b)[j] = a[j]
      BY <3>1, <1>1, <1>2, ConcatIs
    <3> QED BY <3>1, <3>2, <1>1, <2>1
  <2>2. CASE ~(j < i)
    <3> DEFINE k == j - (i - 1)
    <3>1. j \in Len(a) + 1 .. Len(a) + Len(b) /\ k = j - Len(a)
      BY <2>2, <1>1, <1>2
    <3>2. (a \o b)[j] = b[k]
      BY SMTT(30), <3>1, <1>1, <1>2, ConcatIs
    <3>3. k \in 1 .. Len(s) - i /\ i + k = j + 1
      BY <2>2
    <3>4. b[k] = s[i + k]
      BY <3>3, <1>2
    <3> QED BY <3>2, <3>3, <3>4, <2>2
  <2> QED BY <2>1, <2>2
<1> QED BY <1>3, <1>4, <1>5

-----------------------------------------------------------------------------
(* Chains: the blocks links lead to.                                       *)

\* How far the links lead from a block, number by number.
Walks(g, t, first, N) ==
    /\ g[0] = first /\ g \in [0 .. N -> Int]
    /\ \A n \in 1 .. N : g[n] = IF g[n - 1] \in DOMAIN t THEN t[g[n - 1]] ELSE 0

\* The function there is a choice of is there, and its values are numbers.
LEMMA WalkedIsThere ==
  ASSUME NEW t \in Seq(Int), NEW first \in Int, NEW N \in Nat
  PROVE  Walks(Walked(t, first, N), t, first, N)
<1> DEFINE Step(b) == IF b \in DOMAIN t THEN t[b] ELSE 0
           step == [x \in Int \X (1 .. N) |-> Step(x[1])]
           Body(f) == [n \in 0 .. N |-> IF n = 0 THEN first ELSE Step(f[n - 1])]
           g == Walked(t, first, N)
<1>a. \A b \in Int : Step(b) \in Int
  OBVIOUS
<1>5a. g = CHOOSE block : block = Body(block)
  BY DEF Walked
<1> HIDE DEF Step
<1>2. /\ step \in [Int \X (1 .. N) -> Int]
      /\ \A b \in Int, n \in 1 .. N : step[<<b, n>>] = Step(b)
  BY <1>a
<1> HIDE DEF step
<1>3. PICK f \in [0 .. N -> Int] : Steps(f, first, N, step)
  BY <1>2, Recursion, Zenon
<1>4. f = Body(f)
  <2>1. ASSUME NEW n \in 0 .. N, n # 0
        PROVE  f[n] = Step(f[n - 1])
    <3>1. n \in 1 .. N /\ n - 1 \in 0 .. N
      BY <2>1
    <3>2. f[n - 1] \in Int
      BY <3>1
    <3> QED BY <3>1, <3>2, <1>2, <1>3 DEF Steps
  <2> QED BY <2>1, <1>3 DEF Steps
<1> HIDE DEF g
<1>5. g = Body(g)
  <2> HIDE DEF Body
  <2> QED BY <1>4, <1>5a
<1>7. /\ g[0] = first
      /\ \A n \in 1 .. N : g[n] = Step(g[n - 1])
      /\ DOMAIN g = 0 .. N /\ g = [n \in DOMAIN g |-> g[n]]
  <2>1. DOMAIN g = 0 .. N /\ g = [n \in DOMAIN g |-> g[n]]
    BY <1>5
  <2>2. g[0] = first
    BY <1>5
  <2>3. ASSUME NEW n \in 1 .. N
        PROVE  g[n] = Step(g[n - 1])
    <3>1. n \in 0 .. N /\ n # 0
      OBVIOUS
    <3> QED BY <3>1, <1>5
  <2> QED BY <2>1, <2>2, <2>3
<1>8. \A n \in 0 .. N : g[n] \in Int
  <2>1. \A n \in 1 .. N : g[n - 1] \in Int => g[n] \in Int
    BY <1>7, <1>a
  <2> QED BY <2>1, <1>7, StepsStay
<1>9. g \in [0 .. N -> Int]
  BY <1>7, <1>8
<1>10. Walks(g, t, first, N)
  BY <1>7, <1>9 DEF Step, Walks
<1> QED BY <1>10 DEF g

\* A list of blocks, each linked to the next and the last to nothing more.
Runs(t, c) ==
    /\ c \in Seq(1 .. Len(t)) /\ c # <<>> /\ Len(c) <= Len(t)
    /\ \A i \in 1 .. Len(c) - 1 : t[c[i]] = c[i + 1]
    /\ t[c[Len(c)]] = CHAIN_END

\* Where there is such a list from a block on, a reader finds it.
LEMMA RunIsChain ==
  ASSUME NEW t \in Seq(Int), NEW c, Runs(t, c)
  PROVE  Chain(t, c[1]) = c
<1> DEFINE N == Len(t)
           L == Len(c)
           g == Walked(t, c[1], N)
           path == Path(t, c[1], N)
           ends == {n \in 1 .. N : path[n] \in DOMAIN t /\ t[path[n]] = CHAIN_END}
<1>1. /\ N \in Nat /\ L \in Nat /\ L >= 1 /\ L <= N /\ DOMAIN t = 1 .. N
      /\ (\A i \in 1 .. L : c[i] \in 1 .. N)
      /\ (\A i \in 1 .. L - 1 : t[c[i]] = c[i + 1]) /\ t[c[L]] = CHAIN_END
      /\ c = [i \in 1 .. L |-> c[i]]
  <2>1. c \in Seq(1 .. Len(t)) /\ c # <<>> /\ Len(c) <= Len(t)
    BY DEF Runs
  <2>2. L \in Nat /\ L >= 1 /\ c = [i \in 1 .. L |-> c[i]] /\ \A i \in 1 .. L : c[i] \in 1 .. N
    BY <2>1
  <2> QED BY <2>1, <2>2 DEF Runs
<1>2. /\ g[0] = c[1] /\ g \in [0 .. N -> Int]
      /\ \A n \in 1 .. N : g[n] = IF g[n - 1] \in DOMAIN t THEN t[g[n - 1]] ELSE 0
  <2>1. c[1] \in Int
    <3>1. 1 \in 1 .. L /\ 1 .. N \subseteq Int
      BY <1>1
    <3> QED BY <3>1, <1>1
  <2>2. N \in Nat
    BY <1>1
  <2>3. g = Walked(t, c[1], N)
    OBVIOUS
  <2> HIDE DEF N, g
  <2>4. Walks(g, t, c[1], N)
    BY <2>1, <2>2, <2>3, WalkedIsThere
  <2> QED BY <2>4 DEF Walks
<1>3. path = [i \in 1 .. N |-> g[i - 1]]
  BY DEF Path
<1>4. Chain(t, c[1]) = IF ends = {} THEN <<>> ELSE [i \in 1 .. Min(ends) |-> path[i]]
  BY DEF Chain
<1> HIDE DEF N, L, g, path
<1>5. \A n \in Nat : n \in {k \in Nat : k + 1 <= L => g[k] = c[k + 1]}
  <2> DEFINE P == {k \in Nat : k + 1 <= L => g[k] = c[k + 1]}
  <2>1. 0 \in P
    BY <1>2
  <2>2. ASSUME NEW n \in Nat, n \in P PROVE n + 1 \in P
    <3> SUFFICES ASSUME (n + 1) + 1 <= L PROVE g[n + 1] = c[(n + 1) + 1]
      OBVIOUS
    <3>1. n + 1 \in 1 .. N /\ (n + 1) - 1 = n /\ n + 1 \in 1 .. L - 1 /\ n + 1 \in 1 .. L
      <4> HIDE DEF P, ends
      <4> QED BY SMTT(30), <1>1
    <3>2. g[n] = c[n + 1]
      BY <3>1, <2>2
    <3>3. g[n] \in DOMAIN t
      BY <3>1, <3>2, <1>1
    <3>4. g[n + 1] = t[g[n]]
      BY <3>1, <3>3, <1>2
    <3> QED BY <3>1, <3>2, <3>4, <1>1
  <2> HIDE DEF P
  <2>3. \A n \in Nat : n \in P
    BY <2>1, <2>2, NatInduct
  <2> QED BY <2>3 DEF P
<1>6. \A i \in 1 .. L : path[i] = c[i]
  <2> SUFFICES ASSUME NEW i \in 1 .. L PROVE path[i] = c[i]
    OBVIOUS
  <2>1. i \in 1 .. N /\ i - 1 \in Nat /\ (i - 1) + 1 = i /\ i <= L
    BY <1>1
  <2>2. g[i - 1] = c[(i - 1) + 1]
    BY <2>1, <1>5
  <2> QED BY <2>1, <2>2, <1>3
<1>7. L \in ends
  BY <1>1, <1>6
<1>8. \A n \in ends : L <= n
  <2> SUFFICES ASSUME NEW n \in ends, n < L PROVE FALSE
    BY <1>1
  <2>1. n \in 1 .. L - 1 /\ n \in 1 .. L /\ n + 1 \in 1 .. L
    BY <1>1
  <2>2. path[n] = c[n] /\ t[c[n]] = c[n + 1] /\ c[n + 1] \in 1 .. N
    BY <2>1, <1>1, <1>6
  <2> QED BY <2>2 DEF CHAIN_END
<1> HIDE DEF ends
<1>9. Min(ends) = L
  <2>1. \A n \in ends : n \in Int
    BY DEF ends
  <2>2. \A m \in ends : (\A n \in ends : m <= n) => m = L
    BY <1>1, <1>7, <1>8, <2>1
  <2> QED BY <1>7, <1>8, <2>2 DEF Min
<1>10. Chain(t, c[1]) = [i \in 1 .. L |-> path[i]]
  BY <1>4, <1>7, <1>9
<1> QED BY <1>1, <1>6, <1>10

\* What a reader finds is such a list.
LEMMA ChainRuns ==
  ASSUME NEW t \in Seq(Int), NEW first \in Int, Chain(t, first) # <<>>
  PROVE  Runs(t, Chain(t, first)) /\ Chain(t, first)[1] = first
<1> DEFINE N == Len(t)
           c == Chain(t, first)
           g == Walked(t, first, N)
           path == Path(t, first, N)
           ends == {n \in 1 .. N : path[n] \in DOMAIN t /\ t[path[n]] = CHAIN_END}
<1>1. N \in Nat /\ DOMAIN t = 1 .. N
  OBVIOUS
<1>2. /\ g[0] = first /\ g \in [0 .. N -> Int]
      /\ \A n \in 1 .. N : g[n] = IF g[n - 1] \in DOMAIN t THEN t[g[n - 1]] ELSE 0
  <2>1. g = Walked(t, first, N)
    OBVIOUS
  <2> HIDE DEF N, g, path, c, ends
  <2>2. Walks(g, t, first, N)
    BY <1>1, <2>1, WalkedIsThere
  <2> QED BY <2>2 DEF Walks
<1>3. path = [i \in 1 .. N |-> g[i - 1]]
  BY DEF Path
<1>4. c = IF ends = {} THEN <<>> ELSE [i \in 1 .. Min(ends) |-> path[i]]
  BY DEF Chain
<1> HIDE DEF N, g, path, c
<1>5. ends # {} /\ ends \subseteq Nat
  BY <1>4 DEF c
<1>6. PICK L \in ends : \A n \in ends : L <= n
  <2> HIDE DEF ends
  <2> QED BY <1>5, LeastNat
<1>7. L \in 1 .. N /\ path[L] \in DOMAIN t /\ t[path[L]] = CHAIN_END
  OBVIOUS
<1> HIDE DEF ends
<1>8. Min(ends) = L
  <2>1. \A m \in ends : (\A n \in ends : m <= n) => m = L
    BY <1>5, <1>6
  <2> QED BY <1>6, <2>1 DEF Min
<1>9. c = [i \in 1 .. L |-> path[i]]
  BY <1>4, <1>5, <1>8
<1>10. \A n \in Nat : n \in {k \in Nat : k < L => path[L - k] \in DOMAIN t}
  <2> DEFINE P == {k \in Nat : k < L => path[L - k] \in DOMAIN t}
  <2>1. 0 \in P
    BY <1>7
  <2>2. ASSUME NEW k \in Nat, k \in P PROVE k + 1 \in P
    <3> SUFFICES ASSUME k + 1 < L, path[L - (k + 1)] \notin DOMAIN t PROVE FALSE
      OBVIOUS
    <3>1. L - k \in 1 .. N /\ L - (k + 1) \in 1 .. N /\ (L - (k + 1)) - 1 \in 0 .. N /\ (L - k) - 1 \in 1 .. N
      BY <1>1, <1>7
    <3>2. path[L - k] \in DOMAIN t
      BY <2>2, <1>7
    <3>3. (L - (k + 1)) = (L - k) - 1 /\ ((L - k) - 1) - 1 = (L - (k + 1)) - 1
      BY <1>7
    <3>4. path[L - k] = g[(L - k) - 1] /\ path[L - (k + 1)] = g[(L - (k + 1)) - 1]
      BY <3>1, <1>3
    <3>5. g[((L - k) - 1) - 1] \notin DOMAIN t
      BY <3>3, <3>4
    <3>6. g[(L - k) - 1] = 0
      BY <3>1, <3>5, <1>2
    <3> QED BY <3>2, <3>4, <3>6, <1>1
  <2> HIDE DEF P
  <2>3. \A n \in Nat : n \in P
    BY <2>1, <2>2, NatInduct
  <2> QED BY <2>3 DEF P
<1>11. \A i \in 1 .. L : path[i] \in 1 .. N
  <2> SUFFICES ASSUME NEW i \in 1 .. L PROVE path[i] \in 1 .. N
    OBVIOUS
  <2>1. L - i \in Nat /\ L - i < L /\ L - (L - i) = i
    BY <1>7
  <2> QED BY <2>1, <1>1, <1>10
<1>12. c \in Seq(1 .. N) /\ Len(c) = L /\ \A i \in 1 .. L : c[i] = path[i]
  BY <1>7, <1>9, <1>11
<1>13. ASSUME NEW i \in 1 .. L - 1 PROVE t[c[i]] = c[i + 1]
  <2>1. i \in 1 .. L /\ i + 1 \in 1 .. L /\ i \in 1 .. N /\ i + 1 \in 1 .. N /\ (i + 1) - 1 = i
    BY <1>1, <1>7
  <2>2. path[i] = g[i - 1] /\ path[i + 1] = g[i]
    BY <2>1, <1>3
  <2>3. g[i] = t[g[i - 1]]
    BY <2>1, <2>2, <1>1, <1>2, <1>11
  <2> QED BY <2>1, <2>2, <2>3, <1>12
<1>14. c[1] = first
  <2>1. 1 \in 1 .. L /\ 1 \in 1 .. N /\ 1 - 1 = 0
    BY <1>1, <1>7
  <2> QED BY <2>1, <1>2, <1>3, <1>12
<1>15. t[c[Len(c)]] = CHAIN_END
  BY <1>7, <1>12
<1>16. c # <<>> /\ Len(c) <= N
  BY <1>7, <1>12
<1>17. Runs(t, c)
  BY <1>12, <1>13, <1>15, <1>16 DEF Runs, N
<1> QED BY <1>14, <1>17 DEF c

\* No block is in it twice.
LEMMA RunIsSimple ==
  ASSUME NEW t \in Seq(Int), NEW c, Runs(t, c),
         NEW i \in 1 .. Len(c), NEW j \in 1 .. Len(c), c[i] = c[j]
  PROVE  i = j
<1>1. /\ c \in Seq(1 .. Len(t)) /\ Len(c) \in Nat /\ Len(c) >= 1 /\ Len(c) <= Len(t)
      /\ (\A k \in 1 .. Len(c) - 1 : t[c[k]] = c[k + 1]) /\ t[c[Len(c)]] = CHAIN_END
  <2>1. c \in Seq(1 .. Len(t)) /\ c # <<>>
    BY DEF Runs
  <2>2. Len(c) \in Nat /\ Len(c) >= 1
    BY SMTT(30), <2>1
  <2> QED BY <2>1, <2>2 DEF Runs
<1>2. ASSUME NEW a \in 1 .. Len(c), NEW b \in 1 .. Len(c), c[a] = c[b], a < b PROVE FALSE
  <2> DEFINE m == Len(c) - (b - a)
             d == [k \in 1 .. m |-> IF k <= a THEN c[k] ELSE c[k + (b - a)]]
  <2>0. Len(c) \in Nat /\ a \in Nat /\ b \in Nat /\ 1 <= a /\ a < b /\ b <= Len(c)
    <3>1. Len(c) \in Nat
      BY <1>1
    <3> QED BY <3>1, <1>2
  <2>1. m \in Nat /\ m >= a /\ m >= 1 /\ m < Len(c) /\ a \in Nat /\ b \in Nat /\ m + (b - a) = Len(c)
    BY <2>0
  <2>2. ASSUME NEW k \in 1 .. m
        PROVE  k \in 1 .. Len(c) /\ k + (b - a) \in 1 .. Len(c)
    <3>1. k \in Int /\ 1 <= k /\ k <= Len(c) - (b - a)
      BY <2>0
    <3> QED BY <3>1, <2>0
  <2>3. \A k \in 1 .. Len(c) : c[k] \in 1 .. Len(t)
    <3> DEFINE S == 1 .. Len(t)
    <3>1. c \in Seq(S)
      BY <1>1
    <3> HIDE DEF S
    <3>2. \A k \in 1 .. Len(c) : c[k] \in S
      BY <3>1
    <3> QED BY <3>2 DEF S
  <2> HIDE DEF m
  <2>4. d \in Seq(1 .. Len(t)) /\ Len(d) = m /\ \A k \in 1 .. m : d[k] = IF k <= a THEN c[k] ELSE c[k + (b - a)]
    <3> DEFINE S == 1 .. Len(t)
    <3>1. \A k \in 1 .. m : c[k] \in S /\ c[k + (b - a)] \in S
      BY <2>2, <2>3
    <3> HIDE DEF S
    <3>2. d \in [1 .. m -> S]
      BY <3>1
    <3>3. d \in Seq(S) /\ Len(d) = m
      <4> HIDE DEF d
      <4> QED BY <2>1, <3>2, ListOf
    <3> QED BY <3>3 DEF S
  <2> HIDE DEF d
  <2>5. ASSUME NEW k \in 1 .. m - 1 PROVE t[d[k]] = d[k + 1]
    <3>1. k \in 1 .. m /\ k + 1 \in 1 .. m
      BY <2>1
    <3>2. CASE k < a
      <4>0. k <= a /\ k + 1 <= a /\ k \in 1 .. Len(c) - 1
        BY <3>2, <2>0, <2>1
      <4>1. d[k] = c[k] /\ d[k + 1] = c[k + 1] /\ k \in 1 .. Len(c) - 1
        BY <3>1, <4>0, <2>4
      <4> QED BY <4>1, <1>1
    <3>3. CASE k = a
      <4>1. d[k] = c[a] /\ d[k + 1] = c[(k + 1) + (b - a)] /\ (k + 1) + (b - a) = b + 1
        <5>1. k <= a /\ ~(k + 1 <= a) /\ (k + 1) + (b - a) = b + 1
          BY <3>3, <2>0
        <5> QED BY <5>1, <3>1, <3>3, <2>4
      <4>2. b \in 1 .. Len(c) - 1
        BY <3>1, <3>3, <2>1
      <4> QED BY <4>1, <4>2, <1>1, <1>2
    <3>4. CASE k > a
      <4>1. d[k] = c[k + (b - a)] /\ d[k + 1] = c[(k + 1) + (b - a)] /\ (k + 1) + (b - a) = (k + (b - a)) + 1
        <5>1. ~(k <= a) /\ ~(k + 1 <= a) /\ (k + 1) + (b - a) = (k + (b - a)) + 1
          BY <3>4, <2>0
        <5> QED BY <5>1, <3>1, <2>4
      <4>2. k + (b - a) \in 1 .. Len(c) - 1
        BY <3>1, <3>4, <2>1, <1>2
      <4> QED BY <4>1, <4>2, <1>1
    <3> QED BY <3>2, <3>3, <3>4, <2>1
  <2>6. t[d[m]] = CHAIN_END
    <3>1. m \in 1 .. m
      BY <2>1
    <3>2. CASE m = a
      <4>1. b = Len(c) /\ d[m] = c[a]
        BY <3>1, <3>2, <2>1, <2>4
      <4> QED BY <4>1, <1>1, <1>2
    <3>3. CASE m > a
      <4>1. d[m] = c[m + (b - a)]
        BY <3>1, <3>3, <2>1, <2>4
      <4> QED BY <4>1, <2>1, <1>1
    <3> QED BY <3>2, <3>3, <2>1
  <2>7. Runs(t, d)
    <3>1. Len(d) = m /\ m >= 1 /\ m <= Len(t) /\ d # <<>>
      BY <2>1, <2>4, <1>1
    <3> QED BY <3>1, <2>4, <2>5, <2>6 DEF Runs
  <2>8. d[1] = c[1]
    <3>1. 1 \in 1 .. m /\ 1 <= a
      BY <2>1
    <3> QED BY <3>1, <2>4
  <2>9. Chain(t, c[1]) = c /\ Chain(t, d[1]) = d
    BY <2>7, RunIsChain
  <2> QED BY <2>1, <2>4, <2>8, <2>9
<1> QED BY <1>2

\* No block of one list is in the other.
Apart(c, d) == \A i \in 1 .. Len(c), j \in 1 .. Len(d) : c[i] # d[j]

\* What may link to what: the next block, or nothing more, or no save's.
Links(N) == {CHAIN_END, FREE} \cup 1 .. N

\* A table of such links is a list of numbers.
LEMMA TableIs ==
  ASSUME NEW N \in Nat, NEW t \in [1 .. N -> Links(N)]
  PROVE  t \in Seq(Int) /\ Len(t) = N
<1>1. Links(N) \subseteq Int
  BY DEF Links, CHAIN_END, FREE
<1>2. t \in [1 .. N -> Int]
  BY <1>1
<1> QED BY <1>2, ListOf

\* What is known of blocks that are free: there are no more than the table has.
LEMMA FreeRunIs ==
  ASSUME NEW t \in Seq(Int), NEW n \in Nat, NEW blocks \in FreeRuns(t, n)
  PROVE  /\ blocks \in Seq(1 .. Len(t)) /\ Len(blocks) = n /\ n > 0 /\ n <= Len(t)
         /\ \A i \in 1 .. n : blocks[i] \in 1 .. Len(t) /\ t[blocks[i]] = FREE
         /\ \A i, j \in 1 .. n : blocks[i] = blocks[j] => i = j
<1> DEFINE N == Len(t)
           S == 1 .. N
<1>1. N \in Nat /\ DOMAIN t = S
  OBVIOUS
<1>2. blocks \in [1 .. n -> {b \in DOMAIN t : t[b] = FREE}] /\ n > 0 /\ IsInjective(blocks)
  BY DEF FreeRuns
<1>3. blocks \in [1 .. n -> S]
  BY <1>1, <1>2
<1>4. \A i, j \in 1 .. n : blocks[i] = blocks[j] => i = j
  BY <1>2 DEF IsInjective
<1>5. n <= N
  <2>1. blocks \in Injection(1 .. n, S)
    BY <1>3, <1>4 DEF Injection, IsInjective
  <2>2. IsFiniteSet(S) /\ Cardinality(S) = N /\ Cardinality(1 .. n) = n
    <3>1. 1 \in Int /\ N \in Int /\ n \in Int
      BY <1>1
    <3>2. /\ IsFiniteSet(1 .. N) /\ Cardinality(1 .. N) = IF 1 > N THEN 0 ELSE N - 1 + 1
          /\ Cardinality(1 .. n) = IF 1 > n THEN 0 ELSE n - 1 + 1
      BY <3>1, FS_Interval
    <3> HIDE DEF N
    <3> QED BY <3>2, <1>1
  <2>3. Cardinality(1 .. n) <= Cardinality(S)
    <3> HIDE DEF S
    <3> QED BY <2>1, <2>2, FS_Injection
  <2> QED BY <2>2, <2>3
<1>6. \A i \in 1 .. n : blocks[i] \in S /\ t[blocks[i]] = FREE
  BY <1>1, <1>2
<1> HIDE DEF S
<1>7. blocks \in Seq(S) /\ Len(blocks) = n
  BY <1>3, ListOf
<1> QED BY <1>2, <1>4, <1>5, <1>6, <1>7 DEF S

\* Blocks of a table, none twice.
Distinct(t, blocks) ==
    /\ t \in Seq(Int) /\ blocks \in Seq(1 .. Len(t)) /\ Len(blocks) > 0 /\ Len(blocks) <= Len(t)
    /\ \A i \in 1 .. Len(blocks) : blocks[i] \in 1 .. Len(t)
    /\ \A i, j \in 1 .. Len(blocks) : blocks[i] = blocks[j] => i = j

\* The table once they are given to a save.
LEMMA GivenIs ==
  ASSUME NEW t, NEW blocks, Distinct(t, blocks)
  PROVE  /\ DOMAIN Given(t, blocks) = 1 .. Len(t) /\ Given(t, blocks) \in Seq(Int)
         /\ Len(Given(t, blocks)) = Len(t)
         /\ \A b \in 1 .. Len(t) :
              (\A i \in 1 .. Len(blocks) : blocks[i] # b) => Given(t, blocks)[b] = t[b]
         /\ \A i \in 1 .. Len(blocks) :
              Given(t, blocks)[blocks[i]] = IF i = Len(blocks) THEN CHAIN_END ELSE blocks[i + 1]
<1> DEFINE g == Given(t, blocks)
           N == Len(t)
           n == Len(blocks)
           Follows(i) == IF i = n THEN CHAIN_END ELSE blocks[i + 1]
           at(b) == CHOOSE i \in 1 .. n : blocks[i] = b
<1>1. /\ DOMAIN t = 1 .. N /\ N \in Nat /\ n \in Nat /\ DOMAIN blocks = 1 .. n
      /\ \A b \in 1 .. N : t[b] \in Int
  BY DEF Distinct
<1>2. /\ \A i \in 1 .. n : blocks[i] \in 1 .. N
      /\ \A i, j \in 1 .. n : blocks[i] = blocks[j] => i = j
  BY DEF Distinct
<1>3. g = [b \in 1 .. N |-> IF \A i \in 1 .. n : blocks[i] # b THEN t[b] ELSE Follows(at(b))]
  BY <1>1 DEF Given
<1> HIDE DEF N, n, g
<1>4. \A i \in 1 .. n : at(blocks[i]) = i
  BY <1>2
<1> HIDE DEF at
<1>5. \A i \in 1 .. n : g[blocks[i]] = Follows(i)
  BY <1>2, <1>3, <1>4
<1>6. \A b \in 1 .. N : (\A i \in 1 .. n : blocks[i] # b) => g[b] = t[b]
  BY <1>3
<1>7. ASSUME NEW b \in 1 .. N PROVE g[b] \in Int
  <2>1. CASE \A i \in 1 .. n : blocks[i] # b
    BY <2>1, <1>1, <1>6
  <2>2. CASE \E i \in 1 .. n : blocks[i] = b
    <3>1. PICK i \in 1 .. n : blocks[i] = b
      BY <2>2
    <3>2. i # n => i + 1 \in 1 .. n
      BY <1>1
    <3>3. i # n => blocks[i + 1] \in Int
      BY <3>2, <1>1, <1>2
    <3>4. g[b] = Follows(i)
      BY <3>1, <1>5
    <3> QED BY <3>3, <3>4 DEF CHAIN_END
  <2> QED BY <2>1, <2>2
<1>8. g \in [1 .. N -> Int]
  BY <1>3, <1>7
<1>9. g \in Seq(Int) /\ Len(g) = N /\ DOMAIN g = 1 .. N
  BY <1>1, <1>8, ListOf
<1> QED BY <1>5, <1>6, <1>9 DEF g, N, n

\* They are then the chain from the first of them.
LEMMA GivenRuns ==
  ASSUME NEW t, NEW blocks, Distinct(t, blocks)
  PROVE  Runs(Given(t, blocks), blocks)
<1> DEFINE g == Given(t, blocks)
           n == Len(blocks)
<1>1. /\ g \in Seq(Int) /\ Len(g) = Len(t)
      /\ \A i \in 1 .. n : g[blocks[i]] = IF i = n THEN CHAIN_END ELSE blocks[i + 1]
  BY GivenIs
<1> HIDE DEF g
<1>2. blocks \in Seq(1 .. Len(t)) /\ n > 0 /\ n <= Len(t)
  BY DEF Distinct
<1>3. n \in Nat /\ blocks # <<>>
  BY <1>2
<1>4. \A i \in 1 .. n - 1 : i \in 1 .. n /\ i # n
  BY <1>3
<1>5. n \in 1 .. n
  BY <1>2, <1>3
<1> QED BY <1>1, <1>2, <1>3, <1>4, <1>5 DEF Runs, g

\* What is known of a chain.
LEMMA RunIs ==
  ASSUME NEW t \in Seq(Int), NEW c, Runs(t, c)
  PROVE  /\ c \in Seq(1 .. Len(t)) /\ Len(c) \in Nat /\ Len(c) > 0 /\ Len(c) <= Len(t)
         /\ \A i \in 1 .. Len(c) : c[i] \in 1 .. Len(t)
         /\ \A i \in 1 .. Len(c) : t[c[i]] = IF i = Len(c) THEN CHAIN_END ELSE c[i + 1]
         /\ \A i \in 1 .. Len(c) : t[c[i]] # FREE
<1> DEFINE S == 1 .. Len(t)
<1>1. /\ c \in Seq(S) /\ c # <<>> /\ Len(c) <= Len(t)
      /\ \A i \in 1 .. Len(c) - 1 : t[c[i]] = c[i + 1]
      /\ t[c[Len(c)]] = CHAIN_END
  BY DEF Runs
<1>a. Len(t) \in Nat
  OBVIOUS
<1> HIDE DEF S
<1>2. Len(c) \in Nat /\ Len(c) > 0 /\ \A i \in 1 .. Len(c) : c[i] \in S
  BY <1>1
<1>3. ASSUME NEW i \in 1 .. Len(c)
      PROVE  t[c[i]] = IF i = Len(c) THEN CHAIN_END ELSE c[i + 1]
  <2>1. i # Len(c) => i \in 1 .. Len(c) - 1
    BY <1>2
  <2> QED BY <2>1, <1>1
<1>4. ASSUME NEW i \in 1 .. Len(c) PROVE t[c[i]] # FREE
  <2>1. i # Len(c) => i + 1 \in 1 .. Len(c)
    BY <1>2
  <2>2. i # Len(c) => c[i + 1] \in S
    BY <2>1, <1>2
  <2> QED BY <2>2, <1>a, <1>3 DEF FREE, CHAIN_END, S
<1> QED BY <1>1, <1>2, <1>3, <1>4 DEF S

\* A chain that goes on as it did in another table is one there too.
LEMMA RunsAlike ==
  ASSUME NEW t \in Seq(Int), NEW u \in Seq(Int), Len(u) = Len(t), NEW c, Runs(t, c),
         \A i \in 1 .. Len(c) : u[c[i]] = t[c[i]]
  PROVE  Runs(u, c)
<1>1. Len(c) \in Nat /\ Len(c) > 0
  BY RunIs
<1>2. (\A i \in 1 .. Len(c) - 1 : i \in 1 .. Len(c)) /\ Len(c) \in 1 .. Len(c)
  BY <1>1
<1> QED BY <1>2 DEF Runs

\* The chains there were stay, and have none of the blocks given.
LEMMA GivenKeeps ==
  ASSUME NEW t, NEW blocks, Distinct(t, blocks), NEW c, Runs(t, c),
         \A i \in 1 .. Len(blocks) : t[blocks[i]] = FREE
  PROVE  Runs(Given(t, blocks), c) /\ Apart(c, blocks) /\ Apart(blocks, c)
<1>0. t \in Seq(Int)
  BY DEF Distinct
<1>1. /\ \A i \in 1 .. Len(c) : t[c[i]] # FREE /\ c[i] \in 1 .. Len(t)
  BY <1>0, RunIs
<1>2. Apart(c, blocks) /\ Apart(blocks, c)
  BY <1>1 DEF Apart
<1>3. /\ Given(t, blocks) \in Seq(Int) /\ Len(Given(t, blocks)) = Len(t)
      /\ \A b \in 1 .. Len(t) :
              (\A i \in 1 .. Len(blocks) : blocks[i] # b) => Given(t, blocks)[b] = t[b]
  BY GivenIs
<1>4. \A i \in 1 .. Len(c) : Given(t, blocks)[c[i]] = t[c[i]]
  BY <1>1, <1>2, <1>3 DEF Apart
<1>5. Runs(Given(t, blocks), c)
  BY <1>0, <1>3, <1>4, RunsAlike
<1> QED BY <1>2, <1>5

\* The table once a list of blocks is freed.
Freely(u, t, gone) ==
    /\ u \in Seq(Int) /\ Len(u) = Len(t)
    /\ \A b \in 1 .. Len(t) : u[b] = IF \E i \in 1 .. Len(gone) : gone[i] = b THEN FREE ELSE t[b]
LEMMA FreedIs ==
  ASSUME NEW t \in Seq(Int), NEW gone, gone \in Seq(1 .. Len(t))
  PROVE  Freely(Freed(t, gone), t, gone)
<1> DEFINE N == Len(t)
           f == Freed(t, gone)
           n == Len(gone)
<1>1. DOMAIN t = 1 .. N /\ N \in Nat /\ DOMAIN gone = 1 .. n /\ \A b \in 1 .. N : t[b] \in Int
  OBVIOUS
<1>2. f = [b \in 1 .. N |-> IF \E i \in 1 .. n : gone[i] = b THEN FREE ELSE t[b]]
  BY <1>1 DEF Freed
<1> HIDE DEF N, f, n
<1>a. FREE \in Int
  BY DEF FREE
<1>b. \A b \in 1 .. N : f[b] \in Int
  BY <1>1, <1>2, <1>a
<1>3. f \in [1 .. N -> Int]
  BY <1>2, <1>b
<1>4. f \in Seq(Int) /\ Len(f) = N
  BY <1>1, <1>3, ListOf
<1>5. \A b \in 1 .. N : f[b] = IF \E i \in 1 .. n : gone[i] = b THEN FREE ELSE t[b]
  BY <1>2
<1> QED BY <1>4, <1>5 DEF Freely, N, f, n

\* Chains with none of them stay.
LEMMA FreedKeeps ==
  ASSUME NEW t \in Seq(Int), NEW gone, gone \in Seq(1 .. Len(t)), NEW c, Runs(t, c), Apart(c, gone)
  PROVE  Runs(Freed(t, gone), c)
<1>1. /\ Freed(t, gone) \in Seq(Int) /\ Len(Freed(t, gone)) = Len(t)
      /\ \A b \in 1 .. Len(t) :
              Freed(t, gone)[b] = IF \E i \in 1 .. Len(gone) : gone[i] = b THEN FREE ELSE t[b]
  BY FreedIs DEF Freely
<1>2. \A i \in 1 .. Len(c) : c[i] \in 1 .. Len(t)
  BY RunIs
<1>3. \A i \in 1 .. Len(c) : Freed(t, gone)[c[i]] = t[c[i]]
  BY <1>1, <1>2 DEF Apart
<1> QED BY <1>1, <1>3, RunsAlike

\* What is written in blocks is there, and what was in the others stays.
Bears(w, d, t, blocks, bytes, D) ==
    /\ w \in [1 .. Len(t) -> D]
    /\ \A i \in 1 .. Len(blocks) : w[blocks[i]] = bytes[i]
    /\ \A b \in 1 .. Len(t) : (\A i \in 1 .. Len(blocks) : blocks[i] # b) => w[b] = d[b]
LEMMA WrittenIs ==
  ASSUME NEW t, NEW blocks, Distinct(t, blocks), NEW D,
         NEW d \in [1 .. Len(t) -> D], NEW bytes \in Seq(D), Len(bytes) = Len(blocks)
  PROVE  Bears(Written(d, blocks, bytes), d, t, blocks, bytes, D)
<1> DEFINE w == Written(d, blocks, bytes)
           N == Len(t)
           n == Len(blocks)
           at(b) == CHOOSE i \in 1 .. n : blocks[i] = b
<1>1. DOMAIN blocks = 1 .. n /\ DOMAIN d = 1 .. N
  BY DEF Distinct
<1>2. /\ \A i \in 1 .. n : blocks[i] \in 1 .. N
      /\ \A i, j \in 1 .. n : blocks[i] = blocks[j] => i = j
  BY DEF Distinct
<1>3. w = [b \in 1 .. N |-> IF \A i \in 1 .. n : blocks[i] # b THEN d[b] ELSE bytes[at(b)]]
  BY <1>1 DEF Written
<1>4. (\A i \in 1 .. n : bytes[i] \in D) /\ (\A b \in 1 .. N : d[b] \in D)
  OBVIOUS
<1> HIDE DEF N, n, w
<1>5. \A i \in 1 .. n : at(blocks[i]) = i
  BY <1>2
<1> HIDE DEF at
<1>6. \A i \in 1 .. n : w[blocks[i]] = bytes[i]
  BY <1>2, <1>3, <1>5
<1>7. \A b \in 1 .. N : (\A i \in 1 .. n : blocks[i] # b) => w[b] = d[b]
  BY <1>3
<1>8. \A b \in 1 .. N : w[b] \in D
  BY <1>4, <1>6, <1>7
<1>9. w \in [1 .. N -> D]
  BY <1>3, <1>8
<1> QED BY <1>6, <1>7, <1>9 DEF Bears, w, N, n

\* The blocks of a save packed after those before it.
Piece(lengths, k) == [i \in 1 .. lengths[k] |-> StartsAt(lengths, k) + i - 1]

\* Where the pieces of a packed table lie: each after the one before, and
\* ending in a block no other ends in or has.
LEMMA PiecesLie ==
  ASSUME NEW lengths \in Seq(Nat), NEW k \in 1 .. Len(lengths)
  PROVE  /\ StartsAt(lengths, k) = 1 + Summed(lengths)[k - 1]
         /\ Summed(lengths)[k - 1] \in Nat /\ Summed(lengths)[k] \in Nat /\ lengths[k] \in Nat
         /\ Summed(lengths)[k] = Summed(lengths)[k - 1] + lengths[k]
         /\ Summed(lengths)[k] <= Total(lengths) /\ Total(lengths) \in Nat
         /\ \A j \in 1 .. Len(lengths) : j < k => Summed(lengths)[j] <= Summed(lengths)[k - 1]
         /\ \A j \in 1 .. Len(lengths) : k < j => Summed(lengths)[k] <= Summed(lengths)[j - 1]
<1> DEFINE g == Summed(lengths)
           N == Len(lengths)
<1>1. /\ g \in [0 .. N -> Nat] /\ g[0] = 0 /\ Total(lengths) = g[N]
      /\ \A n \in 1 .. N : g[n] = g[n - 1] + lengths[n]
  BY SummedIsThere
<1>2. \A i, j \in 0 .. N : i <= j => g[i] <= g[j]
  BY SummedRises
<1>3. N \in Nat /\ lengths[k] \in Nat /\ StartsAt(lengths, k) = 1 + g[k - 1]
  BY DEF StartsAt
<1> HIDE DEF g
<1>4. k - 1 \in 0 .. N /\ k \in 0 .. N /\ N \in 0 .. N /\ k <= N
  BY <1>3
<1>5. \A j \in 1 .. N : j \in 0 .. N /\ j - 1 \in 0 .. N
  BY <1>3
<1>6. \A j \in 1 .. N : j < k => j <= k - 1
  BY <1>3
<1>7. \A j \in 1 .. N : k < j => k <= j - 1
  BY <1>3
<1>8. g[k - 1] \in Nat /\ g[k] \in Nat /\ g[N] \in Nat
  BY <1>1, <1>4
<1> QED BY <1>1, <1>2, <1>3, <1>4, <1>5, <1>6, <1>7, <1>8 DEF g

\* The last blocks of the pieces, which end their chains.
Lasts(lengths) == {StartsAt(lengths, k + 1) - 1 : k \in {j \in DOMAIN lengths : lengths[j] > 0}}

LEMMA LastsAre ==
  ASSUME NEW lengths \in Seq(Nat)
  PROVE  \A b : b \in Lasts(lengths) <=>
                  \E k \in 1 .. Len(lengths) : lengths[k] > 0 /\ b = Summed(lengths)[k]
<1>1. DOMAIN lengths = 1 .. Len(lengths)
  OBVIOUS
<1>2. ASSUME NEW k \in 1 .. Len(lengths) PROVE StartsAt(lengths, k + 1) - 1 = Summed(lengths)[k]
  <2>1. Summed(lengths)[k] \in Nat /\ (k + 1) - 1 = k
    BY PiecesLie
  <2> QED BY <2>1 DEF StartsAt
<1> HIDE DEF StartsAt
<1> QED BY <1>1, <1>2 DEF Lasts

\* The last of them is what all of the pieces come to.
LEMMA TotalIsLast ==
  ASSUME NEW lengths \in Seq(Nat), Total(lengths) > 0
  PROVE  Total(lengths) \in Lasts(lengths)
<1> DEFINE g == Summed(lengths)
           N == Len(lengths)
           D == {k \in Nat : k <= N /\ g[k] = g[N]}
<1>1. /\ g \in [0 .. N -> Nat] /\ g[0] = 0 /\ Total(lengths) = g[N]
      /\ \A n \in 1 .. N : g[n] = g[n - 1] + lengths[n]
      /\ N \in Nat
  BY SummedIsThere
<1> HIDE DEF g
<1>2. PICK k \in D : \A d \in D : k <= d
  <2>1. D \subseteq Nat /\ N \in D
    BY <1>1
  <2> HIDE DEF D
  <2> QED BY <2>1, LeastNat
<1>3. k \in 1 .. N /\ k - 1 \in 0 .. N /\ k - 1 \in Nat /\ k - 1 <= N
  <2>1. k # 0
    BY <1>1
  <2> QED BY <2>1, <1>1
<1>4. g[k - 1] # g[k]
  <2>1. k - 1 \notin D
    BY <1>2, <1>3
  <2> QED BY <2>1, <1>3
<1>5. lengths[k] > 0
  <2>1. g[k] = g[k - 1] + lengths[k] /\ g[k - 1] \in Nat
    BY <1>1, <1>3
  <2>2. lengths[k] \in Nat
    BY <1>3
  <2> QED BY <2>1, <2>2, <1>4
<1>6. Total(lengths) = g[k]
  BY <1>1
<1> QED BY <1>3, <1>5, <1>6, LastsAre DEF g

\* The table the pieces are packed in.
LEMMA PackedIs ==
  ASSUME NEW lengths \in Seq(Nat), NEW N \in Nat, Total(lengths) <= N
  PROVE  Packed(lengths, N) \in [1 .. N -> Links(N)]
<1> DEFINE p == Packed(lengths, N)
<1>1. p = [b \in 1 .. N |-> IF b > Total(lengths) THEN FREE
                            ELSE IF b \in Lasts(lengths) THEN CHAIN_END ELSE b + 1]
  BY DEF Packed, Lasts
<1> HIDE DEF p
<1>2. Total(lengths) \in Nat
  BY TotalIsNat
<1>3. ASSUME NEW b \in 1 .. N PROVE p[b] \in Links(N)
  <2>1. CASE b > Total(lengths)
    BY <2>1, <1>1 DEF Links
  <2>2. CASE b <= Total(lengths) /\ b \in Lasts(lengths)
    <3>1. ~(b > Total(lengths))
      BY <2>2, <1>2
    <3> QED BY <3>1, <2>2, <1>1 DEF Links
  <2>3. CASE b <= Total(lengths) /\ b \notin Lasts(lengths)
    <3>1. ~(b > Total(lengths)) /\ Total(lengths) > 0
      BY <2>3, <1>2
    <3>2. b # Total(lengths)
      BY <3>1, <2>3, TotalIsLast
    <3>3. b + 1 \in 1 .. N
      BY <3>2, <2>3, <1>2
    <3> QED BY <3>1, <3>3, <2>3, <1>1 DEF Links
  <2> QED BY <2>1, <2>2, <2>3, <1>2
<1>4. p \in [1 .. N -> Links(N)]
  BY <1>1, <1>3
<1> QED BY <1>4 DEF p

\* Each piece is a chain there.
LEMMA PackedRuns ==
  ASSUME NEW lengths \in Seq(Nat), NEW N \in Nat, Total(lengths) <= N,
         NEW k \in 1 .. Len(lengths), lengths[k] > 0
  PROVE  /\ Runs(Packed(lengths, N), Piece(lengths, k))
         /\ Len(Piece(lengths, k)) = lengths[k]
         /\ Piece(lengths, k)[1] = StartsAt(lengths, k)
         /\ \A i \in 1 .. lengths[k] : Piece(lengths, k)[i] = Summed(lengths)[k - 1] + i
<1> DEFINE p == Packed(lengths, N)
           c == Piece(lengths, k)
           n == lengths[k]
           a == Summed(lengths)[k - 1]
           T == Total(lengths)
<1>1. p = [b \in 1 .. N |-> IF b > T THEN FREE
                            ELSE IF b \in Lasts(lengths) THEN CHAIN_END ELSE b + 1]
  BY DEF Packed, Lasts
<1>2. p \in Seq(Int) /\ Len(p) = N
  BY PackedIs, TableIs
<1>3. /\ a \in Nat /\ n \in Nat /\ n > 0 /\ T \in Nat /\ T <= N
      /\ Summed(lengths)[k] = a + n /\ a + n <= T
      /\ StartsAt(lengths, k) = 1 + a
  BY PiecesLie
<1>4. /\ \A j \in 1 .. Len(lengths) : j < k => Summed(lengths)[j] <= a
      /\ \A j \in 1 .. Len(lengths) : k < j => a + n <= Summed(lengths)[j - 1]
  BY <1>3, PiecesLie
<1>5. \A j \in 1 .. Len(lengths) : /\ Summed(lengths)[j - 1] \in Nat
                                   /\ lengths[j] \in Nat
                                   /\ Summed(lengths)[j] = Summed(lengths)[j - 1] + lengths[j]
  BY PiecesLie
<1>a. Len(lengths) \in Nat
  OBVIOUS
<1>c. c = [i \in 1 .. n |-> StartsAt(lengths, k) + i - 1]
  BY DEF Piece
<1>d. a + n \in Lasts(lengths)
  BY <1>3, LastsAre
<1> HIDE DEF p, c, n, a, T
<1>6. \A i \in 1 .. n : c[i] = a + i
  <2>1. \A i \in 1 .. n : c[i] = (1 + a) + i - 1
    BY <1>3, <1>c
  <2> QED BY <2>1, <1>3
<1>7. \A i \in 1 .. n : c[i] \in 1 .. N
  <2>1. \A i \in 1 .. n : a + i \in 1 .. N
    BY <1>3
  <2> QED BY <2>1, <1>6
<1>8. c \in Seq(1 .. N) /\ Len(c) = n
  <2>1. c \in [1 .. n -> 1 .. N]
    BY <1>c, <1>7
  <2> DEFINE S == 1 .. N
  <2>2. c \in [1 .. n -> S]
    BY <2>1
  <2> HIDE DEF S
  <2>3. c \in Seq(S) /\ Len(c) = n
    BY <2>2, <1>3, ListOf
  <2> QED BY <2>3 DEF S
<1>9. ASSUME NEW i \in 1 .. n - 1 PROVE a + i \notin Lasts(lengths)
  <2> SUFFICES ASSUME a + i \in Lasts(lengths) PROVE FALSE
    OBVIOUS
  <2>1. PICK j \in 1 .. Len(lengths) : lengths[j] > 0 /\ a + i = Summed(lengths)[j]
    BY LastsAre
  <2>2. i > 0 /\ i < n /\ i \in Int
    BY <1>3
  <2>3. CASE j < k
    <3>1. a + i <= a
      BY <2>1, <2>3, <1>4
    <3> QED BY <3>1, <2>2, <1>3
  <2>4. CASE j = k
    <3>1. a + i = a + n
      BY <2>1, <2>4, <1>3
    <3> QED BY <3>1, <2>2, <1>3
  <2>5. CASE k < j
    <3>1. a + n <= Summed(lengths)[j - 1]
      BY <2>5, <1>4
    <3>2. a + i = Summed(lengths)[j - 1] + lengths[j] /\ lengths[j] \in Nat /\ Summed(lengths)[j - 1] \in Nat
      BY <2>1, <1>5
    <3> QED BY <3>1, <3>2, <2>2, <1>3
  <2>6. j < k \/ j = k \/ k < j
    BY <1>a
  <2> QED BY <2>3, <2>4, <2>5, <2>6
<1>10. ASSUME NEW i \in 1 .. n - 1 PROVE p[c[i]] = c[i + 1]
  <2>1. i \in 1 .. n /\ i + 1 \in 1 .. n /\ a + i \in 1 .. N /\ ~(a + i > T) /\ (a + i) + 1 = a + (i + 1)
    BY <1>3
  <2>2. c[i] = a + i /\ c[i + 1] = a + (i + 1)
    BY <2>1, <1>6
  <2>3. p[a + i] = (a + i) + 1
    BY <2>1, <1>1, <1>9
  <2> QED BY <2>1, <2>2, <2>3
<1>11. p[c[n]] = CHAIN_END
  <2>1. n \in 1 .. n /\ a + n \in 1 .. N /\ ~(a + n > T)
    BY <1>3
  <2>2. p[a + n] = CHAIN_END
    BY <2>1, <1>1, <1>d
  <2> QED BY <2>1, <2>2, <1>6
<1>12. Runs(p, c)
  <2>1. c # <<>> /\ Len(c) <= N
    BY <1>3, <1>8
  <2> QED BY <2>1, <1>2, <1>8, <1>10, <1>11 DEF Runs
<1>13. c[1] = StartsAt(lengths, k)
  <2>1. 1 \in 1 .. n
    BY <1>3
  <2> QED BY <2>1, <1>3, <1>6
<1> QED BY <1>6, <1>8, <1>12, <1>13 DEF p, c, n, a

\* No two have a block in common.
LEMMA PiecesApart ==
  ASSUME NEW lengths \in Seq(Nat), NEW j \in 1 .. Len(lengths), NEW k \in 1 .. Len(lengths), j # k
  PROVE  Apart(Piece(lengths, j), Piece(lengths, k))
<1>0. ASSUME NEW m \in 1 .. Len(lengths)
      PROVE  /\ Summed(lengths)[m - 1] \in Nat /\ lengths[m] \in Nat
             /\ Summed(lengths)[m] = Summed(lengths)[m - 1] + lengths[m]
             /\ Len(Piece(lengths, m)) = lengths[m]
             /\ \A i \in 1 .. lengths[m] : Piece(lengths, m)[i] = Summed(lengths)[m - 1] + i
  <2>1. /\ Summed(lengths)[m - 1] \in Nat /\ lengths[m] \in Nat
        /\ Summed(lengths)[m] = Summed(lengths)[m - 1] + lengths[m]
        /\ StartsAt(lengths, m) = 1 + Summed(lengths)[m - 1]
    BY PiecesLie
  <2>2. Len(Piece(lengths, m)) = lengths[m]
    BY <2>1 DEF Piece
  <2>3. \A i \in 1 .. lengths[m] : Piece(lengths, m)[i] = (1 + Summed(lengths)[m - 1]) + i - 1
    BY <2>1 DEF Piece
  <2>4. \A a \in Nat : \A i \in Int : (1 + a) + i - 1 = a + i
    OBVIOUS
  <2>5. ASSUME NEW i \in 1 .. lengths[m] PROVE Piece(lengths, m)[i] = Summed(lengths)[m - 1] + i
    <3>1. i \in Int /\ Summed(lengths)[m - 1] \in Nat
      BY <2>1
    <3>2. (1 + Summed(lengths)[m - 1]) + i - 1 = Summed(lengths)[m - 1] + i
      BY <3>1, <2>4, Zenon
    <3>3. Piece(lengths, m)[i] = (1 + Summed(lengths)[m - 1]) + i - 1
      BY <2>3
    <3> QED BY <3>2, <3>3, Zenon
  <2> QED BY <2>1, <2>2, <2>5, Zenon
<1> DEFINE low(m) == Summed(lengths)[m - 1]
           high(m) == Summed(lengths)[m]
<1>1. ASSUME NEW i \in 1 .. Len(Piece(lengths, j)), NEW l \in 1 .. Len(Piece(lengths, k)),
             Piece(lengths, j)[i] = Piece(lengths, k)[l]
      PROVE  FALSE
  <2>1. /\ low(j) \in Nat /\ low(k) \in Nat /\ high(j) = low(j) + lengths[j] /\ high(k) = low(k) + lengths[k]
        /\ lengths[j] \in Nat /\ lengths[k] \in Nat
        /\ i \in 1 .. lengths[j] /\ l \in 1 .. lengths[k]
    BY <1>0
  <2>2. Piece(lengths, j)[i] = low(j) + i /\ Piece(lengths, k)[l] = low(k) + l
    BY <2>1, <1>0
  <2>3. (j < k => high(j) <= low(k)) /\ (k < j => high(k) <= low(j))
    BY PiecesLie
  <2>4. j < k \/ k < j
    OBVIOUS
  <2>5. low(j) + i = low(k) + l
    BY <2>2, <1>1
  <2> HIDE DEF low, high
  <2>6. \A a, b, m, x, y \in Int : x <= m /\ y >= 1 /\ a + m <= b => a + x # b + y
    OBVIOUS
  <2>9. \A m \in Nat : m \in Int
    OBVIOUS
  <2>7. CASE j < k
    <3>1. i <= lengths[j] /\ l >= 1 /\ i \in Int /\ l \in Int
      BY <2>1
    <3>2. low(j) + lengths[j] <= low(k)
      BY <2>1, <2>3, <2>7
    <3>3. low(j) \in Int /\ low(k) \in Int /\ lengths[j] \in Int
      BY <2>1, <2>9, Zenon
    <3> QED BY <3>1, <3>2, <3>3, <2>5, <2>6
  <2>8. CASE k < j
    <3>1. high(k) <= low(j) /\ l <= lengths[k] /\ i >= 1 /\ i \in Int /\ l \in Int
      BY <2>1, <2>3, <2>8
    <3>2. low(k) + lengths[k] <= low(j)
      BY <2>1, <2>3, <2>8
    <3>3. low(j) \in Int /\ low(k) \in Int /\ lengths[k] \in Int
      BY <2>1, <2>9, Zenon
    <3> QED BY <3>1, <3>2, <3>3, <2>5, <2>6
  <2> QED BY <2>4, <2>7, <2>8
<1> QED BY <1>1 DEF Apart
-----------------------------------------------------------------------------
(* Saves laid out in chains.                                               *)

\* Every save starts a chain, and no block is in two.
LaidOut(N, t, S, first) ==
    /\ t \in [1 .. N -> Links(N)]
    /\ \A s \in S : first[s] \in 1 .. N /\ Chain(t, first[s]) # <<>>
    /\ \A r, s \in S : r # s => Apart(Chain(t, first[r]), Chain(t, first[s]))

\* What is known of each.
LEMMA LaidOutIs ==
  ASSUME NEW N \in Nat, NEW t, NEW S, NEW first, LaidOut(N, t, S, first), NEW s \in S
  PROVE  /\ Runs(t, Chain(t, first[s])) /\ Chain(t, first[s])[1] = first[s] /\ first[s] \in 1 .. N
         /\ Chain(t, first[s]) \in Seq(1 .. N) /\ Len(Chain(t, first[s])) \in 1 .. N
         /\ \A i \in 1 .. Len(Chain(t, first[s])) :
              Chain(t, first[s])[i] \in 1 .. N /\ t[Chain(t, first[s])[i]] # FREE
<1>1. t \in Seq(Int) /\ Len(t) = N
  BY TableIs DEF LaidOut
<1>2. first[s] \in 1 .. N /\ Chain(t, first[s]) # <<>> /\ first[s] \in Int
  BY DEF LaidOut
<1> DEFINE c == Chain(t, first[s])
<1>3. Runs(t, c) /\ c[1] = first[s]
  BY <1>1, <1>2, ChainRuns
<1> HIDE DEF c
<1>4. /\ c \in Seq(1 .. Len(t)) /\ Len(c) \in Nat /\ Len(c) > 0 /\ Len(c) <= Len(t)
      /\ \A i \in 1 .. Len(c) : c[i] \in 1 .. Len(t)
      /\ \A i \in 1 .. Len(c) : t[c[i]] # FREE
  BY <1>1, <1>3, RunIs
<1>5. Len(c) \in 1 .. N
  BY <1>1, <1>4
<1> QED BY <1>1, <1>2, <1>3, <1>4, <1>5 DEF c

\* What is in a chain's blocks is a list as long as it is.
LEMMA ContentIs ==
  ASSUME NEW N \in Nat, NEW t, NEW S, NEW first, LaidOut(N, t, S, first), NEW s \in S,
         NEW D, NEW d \in [1 .. N -> D]
  PROVE  /\ Content(t, d, first[s]) \in Seq(D)
         /\ Len(Content(t, d, first[s])) = Len(Chain(t, first[s]))
         /\ Content(t, d, first[s]) # <<>>
<1> DEFINE c == Chain(t, first[s])
           e == Content(t, d, first[s])
<1>1. /\ c \in Seq(1 .. N) /\ Len(c) \in 1 .. N
      /\ \A i \in 1 .. Len(c) : c[i] \in 1 .. N
  BY LaidOutIs
<1>2. e = [j \in DOMAIN c |-> d[c[j]]]
  BY DEF Content
<1> HIDE DEF c, e
<1>3. DOMAIN c = 1 .. Len(c) /\ Len(c) \in Nat /\ Len(c) > 0
  BY <1>1
<1>4. e \in [1 .. Len(c) -> D]
  BY <1>1, <1>2, <1>3
<1>5. e \in Seq(D) /\ Len(e) = Len(c)
  BY <1>3, <1>4, ListOf
<1>6. e # <<>>
  BY <1>3, <1>5
<1> QED BY <1>5, <1>6 DEF c, e

\* What is there of a save laid out.
There(t, d, start, D) ==
    /\ Content(t, d, start) \in Seq(D) /\ Content(t, d, start) # <<>>
    /\ Len(Content(t, d, start)) = Len(Chain(t, start))

LEMMA ContentThere ==
  ASSUME NEW N \in Nat, NEW t, NEW S, NEW first, LaidOut(N, t, S, first), NEW s \in S,
         NEW D, NEW d \in [1 .. N -> D]
  PROVE  There(t, d, first[s], D)
BY ContentIs DEF There

\* The same blocks with the same in them.
LEMMA ContentSame ==
  ASSUME NEW t, NEW u, NEW d, NEW e, NEW a, NEW b, NEW c \in Seq(Nat),
         Chain(t, a) = c, Chain(u, b) = c, \A i \in 1 .. Len(c) : e[c[i]] = d[c[i]]
  PROVE  Content(u, e, b) = Content(t, d, a)
<1>1. DOMAIN c = 1 .. Len(c)
  OBVIOUS
<1>2. Content(t, d, a) = [j \in 1 .. Len(c) |-> d[c[j]]]
  BY <1>1 DEF Content
<1>3. Content(u, e, b) = [j \in 1 .. Len(c) |-> e[c[j]]]
  BY <1>1 DEF Content
<1> QED BY <1>2, <1>3

\* What is written elsewhere is not seen in the blocks of a chain.
KeptIn(blocks, d, e) == blocks \in Seq(Nat) /\ \A i \in 1 .. Len(blocks) : e[blocks[i]] = d[blocks[i]]

LEMMA ContentKept ==
  ASSUME NEW t, NEW d, NEW e, NEW a, KeptIn(Chain(t, a), d, e)
  PROVE  Content(t, e, a) = Content(t, d, a)
BY ContentSame DEF KeptIn

\* One more among those that start somewhere.
Joins(more, first, S, x, block) ==
    x \notin S /\ more[x] = block /\ \A s \in S : more[s] = first[s]

\* One save more is laid out, and the others lie where they did.
Gains(N, u, S, more, t, first, x, blocks) ==
    /\ LaidOut(N, u, S \cup {x}, more)
    /\ \A s \in S : Chain(u, more[s]) = Chain(t, first[s])
    /\ Chain(u, more[x]) = blocks

\* So it is in blocks that were free.
LEMMA LaidGiven ==
  ASSUME NEW N \in Nat, NEW t, NEW S, NEW first, LaidOut(N, t, S, first),
         NEW n \in Nat, NEW blocks \in FreeRuns(t, n), NEW x, NEW more,
         Joins(more, first, S, x, blocks[1])
  PROVE  Gains(N, Given(t, blocks), S, more, t, first, x, blocks)
<1> DEFINE u == Given(t, blocks)
<1>0. x \notin S /\ more[x] = blocks[1] /\ \A s \in S : more[s] = first[s]
  BY DEF Joins
<1>1. t \in Seq(Int) /\ Len(t) = N /\ \A b \in 1 .. N : t[b] \in Links(N)
  BY TableIs DEF LaidOut
<1>2. /\ blocks \in Seq(1 .. N) /\ Len(blocks) = n /\ n > 0 /\ n <= N
      /\ \A i \in 1 .. n : blocks[i] \in 1 .. N /\ t[blocks[i]] = FREE
      /\ \A i, j \in 1 .. n : blocks[i] = blocks[j] => i = j
  <2>1. /\ blocks \in Seq(1 .. Len(t)) /\ Len(blocks) = n /\ n > 0 /\ n <= Len(t)
        /\ \A i \in 1 .. n : blocks[i] \in 1 .. Len(t) /\ t[blocks[i]] = FREE
        /\ \A i, j \in 1 .. n : blocks[i] = blocks[j] => i = j
    BY <1>1, FreeRunIs
  <2> QED BY <2>1, <1>1
<1>3. Distinct(t, blocks)
  BY <1>1, <1>2 DEF Distinct
<1>4. /\ u \in Seq(Int) /\ Len(u) = N /\ DOMAIN u = 1 .. N
      /\ \A b \in 1 .. N : (\A i \in 1 .. n : blocks[i] # b) => u[b] = t[b]
      /\ \A i \in 1 .. n : u[blocks[i]] = IF i = n THEN CHAIN_END ELSE blocks[i + 1]
  <2>1. /\ DOMAIN u = 1 .. Len(t) /\ u \in Seq(Int) /\ Len(u) = Len(t)
        /\ \A b \in 1 .. Len(t) : (\A i \in 1 .. Len(blocks) : blocks[i] # b) => u[b] = t[b]
        /\ \A i \in 1 .. Len(blocks) :
             u[blocks[i]] = IF i = Len(blocks) THEN CHAIN_END ELSE blocks[i + 1]
    BY <1>3, GivenIs
  <2> HIDE DEF u
  <2> QED BY <2>1, <1>1, <1>2
<1>5. Runs(u, blocks)
  BY <1>3, GivenRuns
<1>6. ASSUME NEW s \in S
      PROVE  /\ Runs(u, Chain(t, first[s])) /\ Chain(t, first[s])[1] = first[s]
             /\ Apart(Chain(t, first[s]), blocks) /\ Apart(blocks, Chain(t, first[s]))
             /\ first[s] \in 1 .. N /\ Chain(t, first[s]) # <<>>
  <2>a. first[s] \in 1 .. N /\ Chain(t, first[s]) # <<>>
    BY DEF LaidOut
  <2>b. Runs(t, Chain(t, first[s])) /\ Chain(t, first[s])[1] = first[s]
    BY LaidOutIs
  <2>1. /\ Runs(t, Chain(t, first[s])) /\ Chain(t, first[s])[1] = first[s]
        /\ first[s] \in 1 .. N /\ Chain(t, first[s]) # <<>>
    BY <2>a, <2>b
  <2>2. \A i \in 1 .. Len(blocks) : t[blocks[i]] = FREE
    BY <1>2
  <2> HIDE DEF u
  <2> DEFINE c == Chain(t, first[s])
  <2>3. Runs(t, c)
    BY <2>1
  <2> HIDE DEF c
  <2>4. Runs(u, c) /\ Apart(c, blocks) /\ Apart(blocks, c)
    BY <1>3, <2>2, <2>3, GivenKeeps DEF u
  <2> QED BY <2>1, <2>4 DEF c
<1> HIDE DEF u
<1>7. \A s \in S : Chain(u, more[s]) = Chain(t, first[s])
  <2> SUFFICES ASSUME NEW s \in S PROVE Chain(u, more[s]) = Chain(t, first[s])
    OBVIOUS
  <2> DEFINE c == Chain(t, first[s])
  <2>1. Runs(u, c) /\ c[1] = more[s]
    BY <1>0, <1>6
  <2> HIDE DEF c
  <2>2. Chain(u, c[1]) = c
    BY <1>4, <2>1, RunIsChain
  <2> QED BY <2>1, <2>2 DEF c
<1>8. Chain(u, more[x]) = blocks
  <2>1. Chain(u, blocks[1]) = blocks
    BY <1>4, <1>5, RunIsChain
  <2> QED BY <2>1, <1>0
<1>9. \A b \in 1 .. N : u[b] \in Links(N)
  <2> SUFFICES ASSUME NEW b \in 1 .. N PROVE u[b] \in Links(N)
    OBVIOUS
  <2>1. CASE \A i \in 1 .. n : blocks[i] # b
    BY <2>1, <1>1, <1>4
  <2>2. CASE \E i \in 1 .. n : blocks[i] = b
    <3>1. PICK i \in 1 .. n : blocks[i] = b
      BY <2>2
    <3>2. i # n => i + 1 \in 1 .. n
      BY <1>2
    <3>3. i # n => blocks[i + 1] \in 1 .. N
      BY <3>2, <1>2
    <3> QED BY <3>1, <3>3, <1>4 DEF Links
  <2> QED BY <2>1, <2>2
<1>10. u \in [1 .. N -> Links(N)]
  BY <1>4, <1>9
<1>11. blocks # <<>> /\ blocks[1] \in 1 .. N
  BY <1>2
<1>12. \A s \in S \cup {x} : more[s] \in 1 .. N /\ Chain(u, more[s]) # <<>>
  BY <1>0, <1>6, <1>7, <1>8, <1>11
<1>13. \A r, s \in S \cup {x} : r # s => Apart(Chain(u, more[r]), Chain(u, more[s]))
  <2> SUFFICES ASSUME NEW r \in S \cup {x}, NEW s \in S \cup {x}, r # s
               PROVE  Apart(Chain(u, more[r]), Chain(u, more[s]))
    OBVIOUS
  <2>1. CASE r \in S /\ s \in S
    BY <2>1, <1>7 DEF LaidOut
  <2>2. CASE r = x /\ s \in S
    BY <2>2, <1>6, <1>7, <1>8
  <2>3. CASE r \in S /\ s = x
    BY <2>3, <1>6, <1>7, <1>8
  <2> QED BY <2>1, <2>2, <2>3
<1>14. LaidOut(N, u, S \cup {x}, more)
  BY <1>10, <1>12, <1>13 DEF LaidOut
<1> QED BY <1>7, <1>8, <1>14 DEF Gains, u

\* What was in the blocks of the others is there yet, and the save's in its own.
Holding(N, u, w, S, more, t, d, first, x, bytes, D) ==
    /\ w \in [1 .. N -> D]
    /\ Content(u, w, more[x]) = bytes
    /\ \A s \in S : Content(u, w, more[s]) = Content(t, d, first[s])

LEMMA GivenContent ==
  ASSUME NEW N \in Nat, NEW t, NEW S, NEW first, LaidOut(N, t, S, first),
         NEW n \in Nat, NEW blocks \in FreeRuns(t, n), NEW x, NEW more,
         Joins(more, first, S, x, blocks[1]),
         NEW D, NEW d \in [1 .. N -> D], NEW bytes \in Seq(D), Len(bytes) = n
  PROVE  Holding(N, Given(t, blocks), Written(d, blocks, bytes), S, more, t, d, first, x, bytes, D)
<1> DEFINE u == Given(t, blocks)
           w == Written(d, blocks, bytes)
<1>1. t \in Seq(Int) /\ Len(t) = N
  BY TableIs DEF LaidOut
<1>2. /\ blocks \in Seq(1 .. N) /\ Len(blocks) = n /\ n > 0 /\ n <= N
      /\ \A i \in 1 .. n : blocks[i] \in 1 .. N /\ t[blocks[i]] = FREE
      /\ \A i, j \in 1 .. n : blocks[i] = blocks[j] => i = j
  <2>1. /\ blocks \in Seq(1 .. Len(t)) /\ Len(blocks) = n /\ n > 0 /\ n <= Len(t)
        /\ \A i \in 1 .. n : blocks[i] \in 1 .. Len(t) /\ t[blocks[i]] = FREE
        /\ \A i, j \in 1 .. n : blocks[i] = blocks[j] => i = j
    BY <1>1, FreeRunIs
  <2> QED BY <2>1, <1>1
<1>3. Distinct(t, blocks)
  BY <1>1, <1>2 DEF Distinct
<1>4. /\ w \in [1 .. N -> D]
      /\ \A i \in 1 .. n : w[blocks[i]] = bytes[i]
      /\ \A b \in 1 .. N : (\A i \in 1 .. n : blocks[i] # b) => w[b] = d[b]
  <2>0. d \in [1 .. Len(t) -> D] /\ Len(bytes) = Len(blocks)
    BY <1>1, <1>2
  <2>1. /\ w \in [1 .. Len(t) -> D]
        /\ \A i \in 1 .. Len(blocks) : w[blocks[i]] = bytes[i]
        /\ \A b \in 1 .. Len(t) : (\A i \in 1 .. Len(blocks) : blocks[i] # b) => w[b] = d[b]
    <3>1. Bears(w, d, t, blocks, bytes, D)
      BY <2>0, <1>3, WrittenIs
    <3> QED BY <3>1 DEF Bears
  <2> HIDE DEF w
  <2> QED BY <2>1, <1>1, <1>2
<1>5. /\ \A s \in S : Chain(u, more[s]) = Chain(t, first[s])
      /\ Chain(u, more[x]) = blocks
  <2>1. Gains(N, u, S, more, t, first, x, blocks)
    BY LaidGiven
  <2> QED BY <2>1 DEF Gains
<1> HIDE DEF u, w
<1>6. Content(u, w, more[x]) = bytes
  <2>1. DOMAIN blocks = 1 .. n
    BY <1>2
  <2>2. Content(u, w, more[x]) = [j \in 1 .. n |-> w[blocks[j]]]
    BY <2>1, <1>5 DEF Content
  <2>3. Content(u, w, more[x]) = [j \in 1 .. n |-> bytes[j]]
    BY <2>2, <1>4
  <2>4. bytes = [j \in 1 .. n |-> bytes[j]]
    OBVIOUS
  <2> QED BY <2>3, <2>4
<1>7. ASSUME NEW s \in S PROVE Content(u, w, more[s]) = Content(t, d, first[s])
  <2> DEFINE c == Chain(t, first[s])
  <2>1. /\ c \in Seq(1 .. N)
        /\ \A i \in 1 .. Len(c) : c[i] \in 1 .. N /\ t[c[i]] # FREE
    BY LaidOutIs
  <2>2. Chain(t, first[s]) = c /\ Chain(u, more[s]) = c
    BY <1>5
  <2> HIDE DEF c
  <2>3. ASSUME NEW i \in 1 .. Len(c) PROVE w[c[i]] = d[c[i]]
    <3>1. c[i] \in 1 .. N /\ t[c[i]] # FREE
      BY <2>1
    <3>2. \A j \in 1 .. n : blocks[j] # c[i]
      BY <3>1, <1>2
    <3> QED BY <3>1, <3>2, <1>4
  <2>4. c \in Seq(Nat)
    BY <2>1
  <2> QED BY <2>2, <2>3, <2>4, ContentSame, SMTT(30)
<1> QED BY <1>4, <1>6, <1>7 DEF Holding, u, w

\* One save fewer, and the others lie where they did.
Loses(N, u, S, fewer, t, first) ==
    /\ LaidOut(N, u, S, fewer)
    /\ \A s \in S : Chain(u, fewer[s]) = Chain(t, first[s])
    /\ \A d : \A s \in S : Content(u, d, fewer[s]) = Content(t, d, first[s])

LEMMA LaidFreed ==
  ASSUME NEW N \in Nat, NEW t, NEW S, NEW first, LaidOut(N, t, S, first), NEW x \in S,
         NEW fewer, \A s \in S \ {x} : fewer[s] = first[s]
  PROVE  Loses(N, Freed(t, Chain(t, first[x])), S \ {x}, fewer, t, first)
<1> DEFINE gone == Chain(t, first[x])
           u == Freed(t, gone)
<1>1. t \in Seq(Int) /\ Len(t) = N /\ \A b \in 1 .. N : t[b] \in Links(N)
  BY TableIs DEF LaidOut
<1>2. gone \in Seq(1 .. N)
  BY LaidOutIs
<1>g. \A s \in S \ {x} : Apart(Chain(t, first[s]), gone)
  BY DEF LaidOut
<1> HIDE DEF gone
<1>3. /\ u \in Seq(Int) /\ Len(u) = N
      /\ \A b \in 1 .. N : u[b] = IF \E i \in 1 .. Len(gone) : gone[i] = b THEN FREE ELSE t[b]
  <2>0. gone \in Seq(1 .. Len(t))
    BY <1>1, <1>2
  <2>1. /\ u \in Seq(Int) /\ Len(u) = Len(t)
        /\ \A b \in 1 .. Len(t) : u[b] = IF \E i \in 1 .. Len(gone) : gone[i] = b THEN FREE ELSE t[b]
    <3>1. Freely(u, t, gone)
      BY <2>0, <1>1, FreedIs
    <3> QED BY <3>1 DEF Freely
  <2> HIDE DEF u
  <2> QED BY <2>1, <1>1
<1>4. \A b \in 1 .. N : u[b] \in Links(N)
  BY <1>1, <1>3 DEF Links
<1>u. u = Freed(t, gone)
  OBVIOUS
<1> HIDE DEF u
<1>5. u \in [1 .. N -> Links(N)]
  <2>1. DOMAIN u = 1 .. N /\ u = [b \in DOMAIN u |-> u[b]]
    BY <1>3
  <2> QED BY <2>1, <1>4
<1>6. ASSUME NEW s \in S \ {x}
      PROVE  /\ Chain(u, fewer[s]) = Chain(t, first[s]) /\ Chain(t, first[s]) # <<>>
             /\ fewer[s] \in 1 .. N /\ Chain(t, first[s]) \in Seq(1 .. N)
  <2> DEFINE c == Chain(t, first[s])
  <2>a. c # <<>> /\ first[s] \in 1 .. N
    BY DEF LaidOut
  <2>b. Runs(t, c) /\ c[1] = first[s] /\ c \in Seq(1 .. N)
    BY LaidOutIs
  <2>1. Runs(t, c) /\ c[1] = fewer[s] /\ c # <<>> /\ fewer[s] \in 1 .. N /\ c \in Seq(1 .. N)
    BY <2>a, <2>b
  <2>2. Apart(c, gone)
    BY <1>g
  <2> HIDE DEF c
  <2>3. Runs(u, c)
    BY <1>1, <1>2, <2>1, <2>2, <1>u, FreedKeeps
  <2>4. Chain(u, c[1]) = c
    BY <1>3, <2>3, RunIsChain
  <2> QED BY <2>1, <2>4 DEF c
<1>7. LaidOut(N, u, S \ {x}, fewer)
  <2>1. \A r, s \in S \ {x} : r # s => Apart(Chain(u, fewer[r]), Chain(u, fewer[s]))
    BY <1>6 DEF LaidOut
  <2> QED BY <2>1, <1>5, <1>6 DEF LaidOut
<1>8. ASSUME NEW d, NEW s \in S \ {x} PROVE Content(u, d, fewer[s]) = Content(t, d, first[s])
  <2> DEFINE c == Chain(t, first[s])
  <2>1. Chain(t, first[s]) = c /\ Chain(u, fewer[s]) = c /\ c \in Seq(1 .. N)
    BY <1>6
  <2> HIDE DEF c
  <2>2. c \in Seq(Nat)
    BY <2>1
  <2> QED BY <2>1, <2>2, ContentSame
<1>9. Loses(N, u, S \ {x}, fewer, t, first)
  <2> DEFINE T == S \ {x}
  <2>1. /\ LaidOut(N, u, T, fewer)
        /\ \A s \in T : Chain(u, fewer[s]) = Chain(t, first[s])
        /\ \A d : \A s \in T : Content(u, d, fewer[s]) = Content(t, d, first[s])
    BY <1>6, <1>7, <1>8
  <2> HIDE DEF T
  <2>2. Loses(N, u, T, fewer, t, first)
    BY <2>1 DEF Loses
  <2> QED BY <2>2 DEF T
<1> QED BY <1>9, <1>u DEF gone
\* Each save has a piece of a packed table to itself.
Pieced(at, first, S, lengths) ==
    /\ \A s \in S : at[s] \in 1 .. Len(lengths) /\ first[s] = StartsAt(lengths, at[s])
    /\ \A r, s \in S : at[r] = at[s] => r = s

\* Saves packed one after the other are laid out.
LaidIn(p, N, lengths, S, first, at) ==
    LaidOut(N, p, S, first) /\ \A s \in S : Chain(p, first[s]) = Piece(lengths, at[s])

LEMMA LaidPacked ==
  ASSUME NEW N \in Nat, NEW lengths \in Seq(Nat), Total(lengths) <= N,
         \A k \in 1 .. Len(lengths) : lengths[k] > 0,
         NEW S, NEW first, NEW at, Pieced(at, first, S, lengths)
  PROVE  LaidIn(Packed(lengths, N), N, lengths, S, first, at)
<1> DEFINE p == Packed(lengths, N)
<1>1. p \in [1 .. N -> Links(N)]
  BY PackedIs
<1>2. p \in Seq(Int) /\ Len(p) = N
  BY <1>1, TableIs
<1>p. p = Packed(lengths, N)
  OBVIOUS
<1> HIDE DEF p
<1>3. ASSUME NEW s \in S
      PROVE  /\ first[s] \in 1 .. N
             /\ Chain(p, first[s]) = Piece(lengths, at[s])
             /\ Chain(p, first[s]) # <<>>
  <2> DEFINE k == at[s]
             c == Piece(lengths, k)
  <2>1. k \in 1 .. Len(lengths) /\ first[s] = StartsAt(lengths, k) /\ lengths[k] > 0
    BY DEF Pieced
  <2> HIDE DEF k
  <2>2. Runs(Packed(lengths, N), c) /\ c[1] = StartsAt(lengths, k)
    BY <2>1, PackedRuns
  <2> HIDE DEF c
  <2>3. Runs(p, c) /\ c[1] = first[s]
    BY <2>1, <2>2, <1>p
  <2>4. Chain(p, c[1]) = c
    BY <2>3, <1>2, RunIsChain
  <2>5. /\ Len(c) \in Nat /\ Len(c) > 0
        /\ \A i \in 1 .. Len(c) : c[i] \in 1 .. Len(p)
    BY <2>3, <1>2, RunIs
  <2>6. c # <<>> /\ c[1] \in 1 .. N
    <3>1. 1 \in 1 .. Len(c)
      BY <2>5
    <3>2. c[1] \in 1 .. Len(p)
      BY <2>5, <3>1
    <3>3. c # <<>>
      BY <2>5
    <3> QED BY <3>2, <3>3, <1>2
  <2> QED BY <2>3, <2>4, <2>6 DEF c, k
<1>4. ASSUME NEW r \in S, NEW s \in S, r # s
      PROVE  Apart(Chain(p, first[r]), Chain(p, first[s]))
  <2> DEFINE j == at[r]
             k == at[s]
  <2>1. j \in 1 .. Len(lengths) /\ k \in 1 .. Len(lengths) /\ j # k
    BY <1>4 DEF Pieced
  <2> HIDE DEF j, k
  <2>2. Apart(Piece(lengths, j), Piece(lengths, k))
    BY <2>1, PiecesApart
  <2> QED BY <2>2, <1>3 DEF j, k
<1>5. LaidOut(N, p, S, first)
  BY <1>1, <1>3, <1>4, <1>p DEF LaidOut
<1> QED BY <1>3, <1>5 DEF LaidIn, p

\* What is laid down from the first block is there.
LEMMA FilledIs ==
  ASSUME NEW N \in Nat, NEW D, NEW zero \in D, NEW bytes \in Seq(D)
  PROVE  Filled(bytes, N, zero) \in [1 .. N -> D]
<1>1. \A b \in DOMAIN bytes : bytes[b] \in D
  OBVIOUS
<1>2. \A b \in 1 .. N : (IF b \in DOMAIN bytes THEN bytes[b] ELSE zero) \in D
  BY <1>1
<1> QED BY <1>2 DEF Filled

\* Each save's part in its piece.
HeldAt(parts, N, zero, k) ==
    Content(Packed(LengthsOf(parts), N), Filled(Joined(parts), N, zero),
            StartsAt(LengthsOf(parts), k)) = parts[k]

LEMMA PackedContent ==
  ASSUME NEW N \in Nat, NEW D, NEW parts \in Seq(Seq(D)), Total(LengthsOf(parts)) <= N,
         NEW k \in 1 .. Len(parts), parts[k] # <<>>, NEW zero
  PROVE  HeldAt(parts, N, zero, k)
<1> DEFINE lengths == LengthsOf(parts)
           p == Packed(lengths, N)
           c == Piece(lengths, k)
           all == Joined(parts)
           d == Filled(all, N, zero)
           n == Len(parts[k])
           low == Summed(lengths)[k - 1]
<1>1. /\ lengths \in Seq(Nat) /\ Len(lengths) = Len(parts)
      /\ all \in Seq(D) /\ Len(all) = Total(lengths)
      /\ \A i \in 1 .. n : all[low + i] = parts[k][i]
  BY LacedAt
<1>2. lengths[k] = n /\ n \in Nat /\ n > 0 /\ parts[k] \in Seq(D)
  <2>1. parts[k] \in Seq(D)
    OBVIOUS
  <2>2. n \in Nat /\ n > 0
    BY <2>1
  <2> QED BY <2>1, <2>2 DEF LengthsOf
<1>t. Total(lengths) <= N
  OBVIOUS
<1>s. p = Packed(lengths, N) /\ c = Piece(lengths, k) /\ low = Summed(lengths)[k - 1]
  OBVIOUS
<1>d. d = [b \in 1 .. N |-> IF b \in DOMAIN all THEN all[b] ELSE zero]
  BY DEF Filled
<1>k. k \in 1 .. Len(lengths)
  BY <1>1
<1> HIDE DEF lengths, p, c, all, d, low
<1>3. /\ Runs(p, c) /\ Len(c) = lengths[k] /\ c[1] = StartsAt(lengths, k)
      /\ \A i \in 1 .. lengths[k] : c[i] = low + i
  BY <1>1, <1>2, <1>t, <1>s, <1>k, PackedRuns
<1>4. p \in Seq(Int) /\ Len(p) = N
  BY <1>1, <1>t, <1>s, PackedIs, TableIs
<1>5. Chain(p, StartsAt(lengths, k)) = c
  <2>1. Chain(p, c[1]) = c
    BY <1>3, <1>4, RunIsChain
  <2> QED BY <2>1, <1>3
<1>6. c \in Seq(1 .. Len(p)) /\ \A i \in 1 .. Len(c) : c[i] \in 1 .. Len(p)
  BY <1>3, <1>4, RunIs
<1>7. DOMAIN c = 1 .. n
  BY <1>2, <1>3, <1>6
<1>8. \A i \in 1 .. n : d[c[i]] = parts[k][i]
  <2> SUFFICES ASSUME NEW i \in 1 .. n PROVE d[c[i]] = parts[k][i]
    OBVIOUS
  <2>1. c[i] = low + i /\ c[i] \in 1 .. N
    BY <1>2, <1>3, <1>4, <1>6
  <2>2. low \in Nat /\ low + lengths[k] <= Total(lengths) /\ Total(lengths) \in Nat
    <3>1. /\ Summed(lengths)[k - 1] \in Nat
          /\ Summed(lengths)[k] = Summed(lengths)[k - 1] + lengths[k]
          /\ Summed(lengths)[k] <= Total(lengths) /\ Total(lengths) \in Nat
      BY <1>1, <1>k, PiecesLie
    <3> QED BY <3>1, <1>s
  <2>3. low + i \in 1 .. Len(all)
    BY <2>2, <1>1, <1>2
  <2>4. DOMAIN all = 1 .. Len(all)
    BY <1>1
  <2>5. d[low + i] = all[low + i]
    BY <2>1, <2>3, <2>4, <1>d
  <2> QED BY <2>1, <2>5, <1>1
<1>9. Content(p, d, StartsAt(lengths, k)) = [j \in 1 .. n |-> d[c[j]]]
  BY <1>5, <1>7 DEF Content
<1>10. parts[k] = [j \in 1 .. n |-> parts[k][j]]
  BY <1>2
<1>11. Content(p, d, StartsAt(lengths, k)) = parts[k]
  <2> DEFINE q == parts[k]
  <2>1. q = [j \in 1 .. n |-> q[j]] /\ \A i \in 1 .. n : d[c[i]] = q[i]
    BY <1>8, <1>10
  <2> HIDE DEF q, n
  <2>2. [j \in 1 .. n |-> d[c[j]]] = [j \in 1 .. n |-> q[j]]
    BY <2>1
  <2> QED BY <2>1, <2>2, <1>9 DEF q
<1> QED BY <1>11 DEF HeldAt, p, d, all, lengths

\* As long as all of the chains of some saves.
ChainsOf(t, first, c) == [i \in DOMAIN c |-> Len(Chain(t, first[c[i]]))]

\* However many saves there are, their chains come to no more than the table.
LEMMA LaidFits ==
  ASSUME NEW N \in Nat, NEW t, NEW S, NEW first, LaidOut(N, t, S, first),
         NEW c \in Seq(S), \A i, j \in 1 .. Len(c) : c[i] = c[j] => i = j
  PROVE  ChainsOf(t, first, c) \in Seq(Nat) /\ Total(ChainsOf(t, first, c)) <= N
<1> DEFINE chain(s) == Chain(t, first[s])
           blocks(s) == {chain(s)[i] : i \in 1 .. Len(chain(s))}
           once(l) == \A i, j \in 1 .. Len(l) : l[i] = l[j] => i = j
           Good(l) == /\ ChainsOf(t, first, l) \in Seq(Nat)
                      /\ \E B \in SUBSET (1 .. N) :
                           /\ IsFiniteSet(B) /\ Cardinality(B) = Total(ChainsOf(t, first, l))
                           /\ \A b \in B : \E i \in 1 .. Len(l) : b \in blocks(l[i])
           P == {l \in Seq(S) : once(l) => Good(l)}
<1>1. ASSUME NEW s \in S
      PROVE  /\ Len(chain(s)) \in Nat /\ blocks(s) \subseteq 1 .. N
             /\ IsFiniteSet(blocks(s)) /\ Cardinality(blocks(s)) = Len(chain(s))
  <2> DEFINE d == chain(s)
             n == Len(d)
  <2>1. /\ Runs(t, d) /\ n \in 1 .. N
        /\ \A i \in 1 .. n : d[i] \in 1 .. N
    BY LaidOutIs
  <2>2. t \in Seq(Int)
    BY TableIs DEF LaidOut
  <2>b. blocks(s) = {d[i] : i \in 1 .. n}
    OBVIOUS
  <2> HIDE DEF d, n
  <2>3. \A i, j \in 1 .. n : d[i] = d[j] => i = j
    BY <2>1, <2>2, RunIsSimple DEF n
  <2> DEFINE f == [i \in 1 .. n |-> d[i]]
             B == {d[i] : i \in 1 .. n}
  <2>4. f \in Bijection(1 .. n, B)
    <3>1. f \in [1 .. n -> B] /\ \A i, j \in 1 .. n : f[i] = f[j] => i = j
      BY <2>3
    <3>2. \A b \in B : \E i \in 1 .. n : f[i] = b
      OBVIOUS
    <3> HIDE DEF f, B
    <3> QED BY <3>1, <3>2 DEF Bijection, Injection, Surjection, IsInjective
  <2>5. IsFiniteSet(1 .. n) /\ Cardinality(1 .. n) = n
    <3>1. /\ IsFiniteSet(1 .. n) /\ Cardinality(1 .. n) = IF 1 > n THEN 0 ELSE n - 1 + 1
      BY <2>1, FS_Interval
    <3> QED BY <3>1, <2>1
  <2>6. IsFiniteSet(B) /\ Cardinality(B) = n
    <3> HIDE DEF f, B
    <3>1. ExistsBijection(1 .. n, B)
      BY <2>4 DEF ExistsBijection
    <3> QED BY <3>1, <2>5, FS_Bijection
  <2>7. B \subseteq 1 .. N
    BY <2>1
  <2> QED BY <2>1, <2>6, <2>7, <2>b DEF d, n
<1>2. ASSUME NEW r \in S, NEW s \in S, r # s PROVE blocks(r) \cap blocks(s) = {}
  BY <1>2 DEF LaidOut, Apart
<1> HIDE DEF chain, blocks
<1>c. \A l : ChainsOf(t, first, l) = [i \in DOMAIN l |-> Len(chain(l[i]))]
  BY DEF ChainsOf, chain
<1>3. <<>> \in P
  <2>1. ChainsOf(t, first, <<>>) = <<>>
    BY DEF ChainsOf
  <2>2. IsFiniteSet({}) /\ Cardinality({}) = Total(<<>>)
    BY FS_EmptySet, TotalEmpty
  <2>3. <<>> \in Seq(S) /\ <<>> \in Seq(Nat) /\ {} \in SUBSET (1 .. N)
    OBVIOUS
  <2>4. Good(<<>>)
    BY <2>1, <2>2, <2>3
  <2> HIDE DEF Good
  <2> QED BY <2>3, <2>4
<1>4. ASSUME NEW l \in Seq(S), NEW e \in S, l \in P PROVE Append(l, e) \in P
  <2> DEFINE m == Append(l, e)
             n == Len(l)
  <2>1. /\ m \in Seq(S) /\ Len(m) = n + 1 /\ n \in Nat /\ m[n + 1] = e
        /\ \A i \in 1 .. n : m[i] = l[i] /\ l[i] \in S
    OBVIOUS
  <2>c. m = Append(l, e)
    OBVIOUS
  <2> HIDE DEF m
  <2> SUFFICES ASSUME once(m) PROVE Good(m)
    BY <2>1, <2>c
  <2>2. once(l) /\ \A i \in 1 .. n : l[i] # e
    <3>1. \A i \in 1 .. n : i \in 1 .. n + 1 /\ i # n + 1
      BY <2>1
    <3>2. n + 1 \in 1 .. n + 1
      BY <2>1
    <3> QED BY <3>1, <3>2, <2>1
  <2>3. Good(l)
    BY <2>2, <1>4
  <2> DEFINE lens == ChainsOf(t, first, l)
             k == Len(chain(e))
  <2>5. lens \in Seq(Nat) /\ k \in Nat
    BY <2>3, <1>1
  <2>4. ChainsOf(t, first, m) = Append(lens, k)
    <3> DEFINE a == Append(lens, k)
               b == ChainsOf(t, first, m)
    <3>1. /\ lens = [i \in 1 .. n |-> Len(chain(l[i]))]
          /\ b = [i \in 1 .. n + 1 |-> Len(chain(m[i]))]
      BY <2>1, <1>c
    <3>n. n \in Nat
      OBVIOUS
    <3> HIDE DEF n
    <3>2. Len(lens) = n
      BY <3>1, <3>n
    <3>3. a \in Seq(Nat) /\ Len(a) = n + 1 /\ a[n + 1] = k /\ \A i \in 1 .. n : a[i] = lens[i]
      <4> HIDE DEF lens, k
      <4> QED BY <3>2, <2>5
    <3>4. ASSUME NEW i \in 1 .. n + 1 PROVE Len(chain(m[i])) = a[i]
      <4>1. CASE i = n + 1
        BY <4>1, <3>3, <2>1
      <4>2. CASE i \in 1 .. n
        <5>1. lens[i] = Len(chain(l[i])) /\ m[i] = l[i]
          BY <4>2, <3>1, <2>1
        <5> QED BY <5>1, <4>2, <3>3
      <4>3. i = n + 1 \/ i \in 1 .. n
        BY <3>n
      <4> QED BY <4>1, <4>2, <4>3
    <3>5. \A i \in 1 .. n + 1 : a[i] \in Nat
      BY <3>3, <3>n
    <3> HIDE DEF a, b
    <3>6. b \in [1 .. n + 1 -> Nat] /\ \A i \in 1 .. n + 1 : b[i] = a[i]
      BY <3>1, <3>4, <3>5
    <3>7. b \in Seq(Nat) /\ Len(b) = n + 1
      BY <3>6, <3>n, ListOf
    <3>8. b = a
      BY <3>3, <3>6, <3>7, ListsEqual
    <3> QED BY <3>8 DEF a, b
  <2>6. Total(Append(lens, k)) = Total(lens) + k
    BY <2>5, TotalAppend
  <2>7. PICK B \in SUBSET (1 .. N) : /\ IsFiniteSet(B) /\ Cardinality(B) = Total(lens)
                                     /\ \A b \in B : \E i \in 1 .. n : b \in blocks(l[i])
    BY <2>3
  <2> DEFINE C == blocks(e)
  <2>8. IsFiniteSet(C) /\ Cardinality(C) = k /\ C \subseteq 1 .. N
    BY <1>1
  <2>9. B \cap C = {}
    BY <2>1, <2>2, <2>7, <1>2
  <2>10. IsFiniteSet(B \cup C) /\ Cardinality(B \cup C) = Cardinality(B) + Cardinality(C)
    <3> HIDE DEF C
    <3>1. /\ IsFiniteSet(B \cup C)
          /\ Cardinality(B \cup C) = Cardinality(B) + Cardinality(C) - Cardinality({})
      <4>1. /\ IsFiniteSet(B \cup C)
            /\ Cardinality(B \cup C) = Cardinality(B) + Cardinality(C) - Cardinality(B \cap C)
        BY <2>7, <2>8, FS_Union
      <4> QED BY <4>1, <2>9
    <3>2. Cardinality({}) = 0 /\ Cardinality(B) \in Nat /\ Cardinality(C) \in Nat
      BY <2>7, <2>8, FS_EmptySet, FS_CardinalityType
    <3> QED BY <3>1, <3>2
  <2>11. \A b \in B \cup C : \E i \in 1 .. n + 1 : b \in blocks(m[i])
    <3>1. \A i \in 1 .. n : i \in 1 .. n + 1 /\ m[i] = l[i]
      BY <2>1
    <3>2. n + 1 \in 1 .. n + 1 /\ m[n + 1] = e
      BY <2>1
    <3> QED BY <3>1, <3>2, <2>7
  <2>12. Append(lens, k) \in Seq(Nat)
    BY <2>5
  <2> QED BY <2>1, <2>4, <2>6, <2>7, <2>8, <2>10, <2>11, <2>12
<1>5. c \in P
  <2> HIDE DEF P
  <2> QED BY <1>3, <1>4, SeqInduct
<1>6. Good(c)
  BY <1>5
<1>7. PICK B \in SUBSET (1 .. N) : Cardinality(B) = Total(ChainsOf(t, first, c))
  BY <1>6
<1>8. IsFiniteSet(1 .. N) /\ Cardinality(1 .. N) = N
  <2>1. /\ IsFiniteSet(1 .. N) /\ Cardinality(1 .. N) = IF 1 > N THEN 0 ELSE N - 1 + 1
    BY FS_Interval
  <2> QED BY <2>1
<1>9. Cardinality(B) <= N
  <2> DEFINE I == 1 .. N
  <2>1. B \subseteq I /\ IsFiniteSet(I) /\ Cardinality(I) = N
    BY <1>8
  <2> HIDE DEF I
  <2> QED BY <2>1, FS_Subset
<1> QED BY <1>6, <1>7, <1>9
\* What a directory lists: what there is of each slot in use, in their order.
Listing(M, S, rec) == LET slots == InOrder(M, S) IN [i \in DOMAIN slots |-> rec[slots[i]]]

Of(l, c, M, S, rec, D) ==
    /\ l \in Seq(D) /\ Len(l) = Len(c) /\ Len(l) <= M /\ c \in Seq(S)
    /\ \A i \in 1 .. Len(l) : l[i] = rec[c[i]]
    /\ \A i, j \in 1 .. Len(c) : c[i] = c[j] => i = j

LEMMA ListingIs ==
  ASSUME NEW M \in Nat, NEW S \in SUBSET (1 .. M), NEW D, NEW rec, \A s \in S : rec[s] \in D
  PROVE  Of(Listing(M, S, rec), InOrder(M, S), M, S, rec, D)
<1> DEFINE c == InOrder(M, S)
           l == Listing(M, S, rec)
           n == Len(c)
<1>1. /\ c \in Seq(1 .. M) /\ n <= M
      /\ \A i \in 1 .. n : c[i] \in S
      /\ \A i, j \in 1 .. n : i < j => c[i] < c[j]
  BY InOrderIs DEF Ascends
<1>2. l = [i \in DOMAIN c |-> rec[c[i]]]
  BY DEF Listing
<1> HIDE DEF c, l
<1>3. DOMAIN c = 1 .. n /\ n \in Nat
  BY <1>1
<1>4. c \in Seq(S)
  <2>1. c \in [1 .. n -> S]
    <3>1. c = [i \in 1 .. n |-> c[i]]
      BY <1>1
    <3> HIDE DEF n
    <3> QED BY <3>1, <1>1
  <2> HIDE DEF n
  <2> QED BY <2>1, <1>3, ListOf
<1>n. n = Len(c)
  OBVIOUS
<1> HIDE DEF n
<1>5. l \in [1 .. n -> D] /\ \A i \in 1 .. n : l[i] = rec[c[i]]
  BY <1>1, <1>2, <1>3
<1>6. l \in Seq(D) /\ Len(l) = n
  BY <1>3, <1>5, ListOf
<1>7. \A i, j \in 1 .. n : c[i] = c[j] => i = j
  <2> SUFFICES ASSUME NEW i \in 1 .. n, NEW j \in 1 .. n, c[i] = c[j], i # j PROVE FALSE
    OBVIOUS
  <2>1. c[i] \in Int /\ c[j] \in Int
    <3>1. \A k \in 1 .. M : k \in Int
      OBVIOUS
    <3>2. c[i] \in 1 .. M /\ c[j] \in 1 .. M
      BY <1>1
    <3> QED BY <3>1, <3>2
  <2>2. i < j \/ j < i
    BY <1>3
  <2>3. c[i] < c[j] \/ c[j] < c[i]
    BY <2>2, <1>1
  <2> QED BY <2>1, <2>3
<1> QED BY <1>1, <1>4, <1>5, <1>6, <1>7, <1>n DEF Of, c, l

\* One slot more in use: one more is listed, and the rest as they were.
LEMMA ListingMore ==
  ASSUME NEW M \in Nat, NEW S \in SUBSET (1 .. M), NEW D, NEW rec, \A s \in S : rec[s] \in D,
         NEW x \in 1 .. M, NEW e \in D, NEW more, Joins(more, rec, S, x, e)
  PROVE  \E i \in Nat : Inserted(Listing(M, S \cup {x}, more), Listing(M, S, rec), e, i)
<1> DEFINE c == InOrder(M, S)
           d == InOrder(M, S \cup {x})
           l == Listing(M, S, rec)
           m == Listing(M, S \cup {x}, more)
<1>0. x \notin S /\ more[x] = e /\ \A s \in S : more[s] = rec[s]
  BY DEF Joins
<1>1. PICK i \in Nat : Inserted(d, c, x, i)
  BY <1>0, InOrderMore
<1>2. /\ l \in Seq(D) /\ Len(l) = Len(c) /\ c \in Seq(S)
      /\ \A j \in 1 .. Len(l) : l[j] = rec[c[j]]
  <2>1. Of(l, c, M, S, rec, D)
    BY ListingIs
  <2> QED BY <2>1 DEF Of
<1>3. /\ m \in Seq(D) /\ Len(m) = Len(d) /\ d \in Seq(S \cup {x})
      /\ \A j \in 1 .. Len(m) : m[j] = more[d[j]]
  <2> DEFINE T == S \cup {x}
  <2>1. T \in SUBSET (1 .. M) /\ \A s \in T : more[s] \in D
    BY <1>0
  <2> HIDE DEF T
  <2>2. Of(Listing(M, T, more), InOrder(M, T), M, T, more, D)
    BY <2>1, ListingIs
  <2> QED BY <2>2 DEF Of, T
<1> HIDE DEF c, d, l, m
<1>4. /\ i \in 1 .. Len(d) /\ Len(d) = Len(c) + 1 /\ d[i] = x
      /\ \A j \in 1 .. Len(c) : c[j] = IF j < i THEN d[j] ELSE d[j + 1]
  BY <1>1 DEF Inserted
<1>5. Len(c) \in Nat /\ Len(d) \in Nat
  BY <1>2, <1>3
<1>6. m[i] = e
  BY <1>0, <1>3, <1>4
<1>7. ASSUME NEW j \in 1 .. Len(l) PROVE l[j] = IF j < i THEN m[j] ELSE m[j + 1]
  <2>1. c[j] \in S /\ l[j] = rec[c[j]] /\ more[c[j]] = rec[c[j]] /\ j \in 1 .. Len(c)
    <3>1. j \in 1 .. Len(c)
      BY <1>2
    <3>2. c[j] \in S
      BY <3>1, <1>2
    <3> QED BY <3>1, <3>2, <1>0, <1>2
  <2>2. j \in 1 .. Len(m) /\ j + 1 \in 1 .. Len(m)
    BY <2>1, <1>3, <1>4, <1>5
  <2> QED BY <2>1, <2>2, <1>3, <1>4
<1>8. Inserted(m, l, e, i)
  BY <1>2, <1>3, <1>4, <1>6, <1>7 DEF Inserted
<1> QED BY <1>8 DEF l, m

\* The first slots in use.
LEMMA ListingFirst ==
  ASSUME NEW M \in Nat, NEW K \in 0 .. M, NEW rec
  PROVE  Listing(M, 1 .. K, rec) = [i \in 1 .. K |-> rec[i]]
<1> DEFINE c == InOrder(M, 1 .. K)
<1>1. c = [i \in 1 .. K |-> i]
  BY InOrderFirst
<1>2. Listing(M, 1 .. K, rec) = [i \in DOMAIN c |-> rec[c[i]]]
  BY DEF Listing
<1> HIDE DEF c
<1> QED BY <1>1, <1>2

\* The saves a format's directory may list.
LengthsIn(l) == [k \in DOMAIN l |-> Len(l[k].data)]
FitIn(l, N, D) ==
    /\ LengthsIn(l) \in Seq(Nat) /\ Total(LengthsIn(l)) <= N
    /\ \A k \in DOMAIN l : l[k].data # <<>> /\ l[k].data \in Seq(D)

LEMMA ListingFits ==
  ASSUME NEW N \in Nat, NEW M \in Nat, NEW t, NEW S \in SUBSET (1 .. M), NEW first,
         LaidOut(N, t, S, first), NEW D, NEW d \in [1 .. N -> D], NEW rec,
         \A s \in S : rec[s].data = Content(t, d, first[s])
  PROVE  FitIn(Listing(M, S, rec), N, D)
<1> DEFINE c == InOrder(M, S)
           l == Listing(M, S, rec)
           E == {rec[s] : s \in S}
           lengths == LengthsIn(l)
<1>1. /\ l \in Seq(E) /\ Len(l) = Len(c) /\ c \in Seq(S)
      /\ \A j \in 1 .. Len(l) : l[j] = rec[c[j]]
      /\ \A i, j \in 1 .. Len(c) : c[i] = c[j] => i = j
  <2>1. \A s \in S : rec[s] \in E
    OBVIOUS
  <2> HIDE DEF E
  <2>2. Of(Listing(M, S, rec), InOrder(M, S), M, S, rec, E)
    BY <2>1, ListingIs
  <2> QED BY <2>2 DEF Of
<1>2. ASSUME NEW s \in S
      PROVE  /\ rec[s].data \in Seq(D) /\ rec[s].data # <<>>
             /\ Len(rec[s].data) = Len(Chain(t, first[s]))
  <2>1. rec[s].data = Content(t, d, first[s])
    OBVIOUS
  <2>2. There(t, d, first[s], D)
    BY ContentThere
  <2> QED BY <2>1, <2>2 DEF There
<1>3. ChainsOf(t, first, c) \in Seq(Nat) /\ Total(ChainsOf(t, first, c)) <= N
  BY <1>1, LaidFits
<1> HIDE DEF l, c
<1>4. DOMAIN l = 1 .. Len(c) /\ DOMAIN c = 1 .. Len(c)
  BY <1>1
<1>5. \A k \in 1 .. Len(c) : c[k] \in S /\ l[k] = rec[c[k]]
  BY <1>1
<1>6. lengths = ChainsOf(t, first, c)
  <2>1. \A k \in 1 .. Len(c) : Len(l[k].data) = Len(Chain(t, first[c[k]]))
    BY <1>2, <1>5
  <2> QED BY <2>1, <1>4 DEF ChainsOf, LengthsIn
<1>7. \A k \in DOMAIN l : l[k].data # <<>> /\ l[k].data \in Seq(D)
  BY <1>2, <1>4, <1>5
<1> QED BY <1>3, <1>6, <1>7 DEF FitIn, l

\* A chain's content, whatever else the table has in it.
LEMMA ChainContent ==
  ASSUME NEW N \in Nat, NEW t \in [1 .. N -> Int], NEW first \in Int, Chain(t, first) # <<>>,
         NEW D, NEW d \in [1 .. N -> D]
  PROVE  Content(t, d, first) \in Seq(D) /\ Content(t, d, first) # <<>>
         /\ Len(Content(t, d, first)) = Len(Chain(t, first))
<1> DEFINE c == Chain(t, first)
           e == Content(t, d, first)
<1>0. t \in Seq(Int) /\ Len(t) = N
  BY ListOf
<1>1. Runs(t, c)
  BY <1>0, ChainRuns
<1>2. e = [j \in DOMAIN c |-> d[c[j]]]
  BY DEF Content
<1> HIDE DEF c, e
<1>3. /\ c \in Seq(1 .. Len(t)) /\ Len(c) \in Nat /\ Len(c) > 0
      /\ \A i \in 1 .. Len(c) : c[i] \in 1 .. Len(t)
  BY <1>0, <1>1, RunIs
<1>4. DOMAIN c = 1 .. Len(c)
  BY <1>3
<1>5. e \in [1 .. Len(c) -> D]
  BY <1>0, <1>2, <1>3, <1>4
<1>6. e \in Seq(D) /\ Len(e) = Len(c)
  BY <1>3, <1>5, ListOf
<1>7. e # <<>>
  BY <1>3, <1>6
<1> QED BY <1>6, <1>7 DEF c, e

LEMMA ChainThere ==
  ASSUME NEW N \in Nat, NEW t \in [1 .. N -> Int], NEW first \in Int, Chain(t, first) # <<>>,
         NEW D, NEW d \in [1 .. N -> D]
  PROVE  There(t, d, first, D)
BY ChainContent DEF There

\* A save on the table of a card whose saves are wherever they are.
LEMMA GivenLinks ==
  ASSUME NEW N \in Nat, NEW t \in [1 .. N -> Links(N)], NEW n \in Nat, NEW blocks \in FreeRuns(t, n),
         NEW D, NEW d \in [1 .. N -> D], NEW bytes \in Seq(D), Len(bytes) = n
  PROVE  /\ Given(t, blocks) \in [1 .. N -> Links(N)]
         /\ Written(d, blocks, bytes) \in [1 .. N -> D]
         /\ blocks[1] \in 1 .. N
<1> DEFINE more == [x \in {0} |-> blocks[1]]
<1>1. LaidOut(N, t, {}, more)
  BY DEF LaidOut
<1>2. Joins(more, more, {}, 0, blocks[1])
  BY DEF Joins
<1> HIDE DEF more
<1>3. Gains(N, Given(t, blocks), {}, more, t, more, 0, blocks)
  BY <1>1, <1>2, LaidGiven
<1>4. Written(d, blocks, bytes) \in [1 .. N -> D]
  <2>1. Holding(N, Given(t, blocks), Written(d, blocks, bytes), {}, more, t, d, more, 0, bytes, D)
    BY <1>1, <1>2, GivenContent
  <2> QED BY <2>1 DEF Holding
<1>5. blocks[1] \in 1 .. N
  BY <1>2, <1>3 DEF Gains, LaidOut, Joins
<1> QED BY <1>3, <1>4, <1>5 DEF Gains, LaidOut

\* So a table with a chain freed.
LEMMA FreedLinks ==
  ASSUME NEW N \in Nat, NEW t \in [1 .. N -> Links(N)], NEW blocks
  PROVE  Freed(t, blocks) \in [1 .. N -> Links(N)]
BY DEF Freed, Links

-----------------------------------------------------------------------------
(* A card written anew.                                                    *)

\* What saves hold, one after the other in an order of theirs.
DataOf(saves, order) == [i \in DOMAIN order |-> saves[order[i]].data]
InTurn(saves) == [k \in DOMAIN saves |-> k]

\* Each save is in the order, at its place.
Ordered(order, saves, at) ==
    /\ order \in Seq(1 .. Len(saves))
    /\ \A k \in 1 .. Len(saves) : at[k] \in 1 .. Len(order) /\ order[at[k]] = k

\* A card with the saves packed so, each from where it is in that order.
Anew(N, D, saves, lengths, at, t, d, first) ==
    /\ LaidOut(N, t, 1 .. Len(saves), first)
    /\ d \in [1 .. N -> D]
    /\ \A k \in 1 .. Len(saves) :
         /\ Content(t, d, first[k]) = saves[k].data
         /\ Len(Chain(t, first[k])) = Len(saves[k].data)
         /\ Chain(t, first[k]) = Piece(lengths, at[k])

LEMMA AnewIs ==
  ASSUME NEW N \in Nat, NEW D, NEW zero \in D, NEW saves, NEW n \in Nat, n = Len(saves),
         \A k \in 1 .. n : saves[k].data \in Seq(D) /\ saves[k].data # <<>>,
         NEW order, NEW at, Ordered(order, saves, at),
         NEW lengths, lengths = LengthsOf(DataOf(saves, order)), Total(lengths) <= N,
         NEW first, \A k \in 1 .. n : first[k] = StartsAt(lengths, at[k])
  PROVE  Anew(N, D, saves, lengths, at, Packed(lengths, N),
              Filled(Joined(DataOf(saves, order)), N, zero), first)
<1> DEFINE parts == DataOf(saves, order)
           t == Packed(lengths, N)
           d == Filled(Joined(parts), N, zero)
           m == Len(order)
<1>1. /\ order \in Seq(1 .. n) /\ m \in Nat /\ DOMAIN order = 1 .. m
      /\ \A k \in 1 .. n : at[k] \in 1 .. m /\ order[at[k]] = k
      /\ \A i \in 1 .. m : order[i] \in 1 .. n
  BY DEF Ordered
<1> HIDE DEF m
<1>2. parts = [i \in 1 .. m |-> saves[order[i]].data]
  BY <1>1 DEF DataOf
<1>3. ASSUME NEW i \in 1 .. m PROVE saves[order[i]].data \in Seq(D) /\ saves[order[i]].data # <<>>
  BY <1>1
<1>p. parts = DataOf(saves, order)
  OBVIOUS
<1> HIDE DEF parts
<1>4. parts \in Seq(Seq(D)) /\ Len(parts) = m
  <2> DEFINE Q == Seq(D)
  <2>1. \A i \in 1 .. m : saves[order[i]].data \in Q
    BY <1>3
  <2> HIDE DEF Q
  <2>2. parts \in [1 .. m -> Q]
    BY <2>1, <1>2
  <2>3. parts \in Seq(Q) /\ Len(parts) = m
    BY <2>2, <1>1, ListOf
  <2> QED BY <2>3 DEF Q
<1>5. lengths \in Seq(Nat) /\ Len(lengths) = m /\ Joined(parts) \in Seq(D)
  BY <1>4, <1>p, LacedAt
<1>6. \A k \in 1 .. Len(lengths) : lengths[k] > 0
  <2> SUFFICES ASSUME NEW k \in 1 .. m PROVE lengths[k] > 0
    BY <1>5
  <2>1. lengths[k] = Len(parts[k])
    BY <1>4, <1>p DEF LengthsOf
  <2>2. parts[k] \in Seq(D) /\ parts[k] # <<>>
    BY <1>2, <1>3
  <2> QED BY <2>1, <2>2
<1>7. Pieced(at, first, 1 .. n, lengths)
  <2>1. \A k \in 1 .. n : at[k] \in 1 .. Len(lengths) /\ first[k] = StartsAt(lengths, at[k])
    BY <1>1, <1>5
  <2>2. ASSUME NEW j \in 1 .. n, NEW k \in 1 .. n, at[j] = at[k] PROVE j = k
    BY <2>2, <1>1
  <2> QED BY <2>1, <2>2 DEF Pieced
<1>8. /\ LaidOut(N, Packed(lengths, N), 1 .. n, first)
      /\ \A s \in 1 .. n : Chain(Packed(lengths, N), first[s]) = Piece(lengths, at[s])
  <2>1. LaidIn(Packed(lengths, N), N, lengths, 1 .. n, first, at)
    BY <1>5, <1>6, <1>7, LaidPacked
  <2> QED BY <2>1 DEF LaidIn
<1>9. Filled(Joined(parts), N, zero) \in [1 .. N -> D]
  BY <1>5, FilledIs
<1>t. t = Packed(lengths, N) /\ d = Filled(Joined(parts), N, zero)
  OBVIOUS
<1> HIDE DEF t, d
<1>10. ASSUME NEW k \in 1 .. n
       PROVE  /\ Content(t, d, first[k]) = saves[k].data /\ Len(Chain(t, first[k])) = Len(saves[k].data)
              /\ Chain(t, first[k]) = Piece(lengths, at[k])
  <2> DEFINE a == at[k]
  <2>1. a \in 1 .. Len(parts) /\ parts[a] = saves[k].data /\ first[k] = StartsAt(lengths, a)
    BY <1>1, <1>2, <1>4
  <2>2. parts[a] # <<>>
    BY <2>1
  <2> HIDE DEF a
  <2>l. Total(LengthsOf(parts)) <= N /\ a \in 1 .. Len(parts)
    BY <2>1, <1>p
  <2>3. Content(Packed(LengthsOf(parts), N), Filled(Joined(parts), N, zero), StartsAt(LengthsOf(parts), a)) = parts[a]
    <3>1. HeldAt(parts, N, zero, a)
      BY <2>l, <2>2, <1>4, PackedContent
    <3> QED BY <3>1 DEF HeldAt
  <2>4. Content(t, d, first[k]) = saves[k].data
    BY <2>1, <2>3, <1>p, <1>t
  <2>5. Len(Content(t, d, first[k])) = Len(Chain(t, first[k]))
    <3> DEFINE S == 1 .. n
    <3>1. LaidOut(N, t, S, first) /\ k \in S /\ d \in [1 .. N -> D]
      BY <1>8, <1>9, <1>t
    <3> HIDE DEF S
    <3>2. There(t, d, first[k], D)
      BY <3>1, ContentThere
    <3> QED BY <3>2 DEF There
  <2>6. Chain(t, first[k]) = Piece(lengths, at[k])
    BY <1>8, <1>t
  <2> QED BY <2>4, <2>5, <2>6
<1> QED BY <1>8, <1>9, <1>10, <1>t, <1>p DEF Anew

\* Saves in the order they come in.
LEMMA InTurnIs ==
  ASSUME NEW T, NEW saves \in Seq(T)
  PROVE  /\ Ordered(InTurn(saves), saves, InTurn(saves))
         /\ LengthsOf(DataOf(saves, InTurn(saves))) = LengthsIn(saves)
         /\ DataOf(saves, InTurn(saves)) = [k \in DOMAIN saves |-> saves[k].data]
<1> DEFINE n == Len(saves)
           order == InTurn(saves)
<1>1. DOMAIN saves = 1 .. n /\ n \in Nat
  OBVIOUS
<1>2. order = [k \in 1 .. n |-> k]
  BY <1>1 DEF InTurn
<1> HIDE DEF order
<1>n. n = Len(saves)
  OBVIOUS
<1> HIDE DEF n
<1>3. order \in [1 .. n -> 1 .. n]
  BY <1>2
<1>4. order \in Seq(1 .. n) /\ Len(order) = n
  <2> DEFINE S == 1 .. n
  <2>1. order \in [1 .. n -> S]
    BY <1>3
  <2> HIDE DEF S
  <2>2. order \in Seq(S) /\ Len(order) = n
    BY <2>1, <1>1, ListOf
  <2> QED BY <2>2 DEF S
<1>5. DataOf(saves, order) = [k \in 1 .. n |-> saves[k].data]
  BY <1>2 DEF DataOf
<1>6. LengthsOf(DataOf(saves, order)) = LengthsIn(saves)
  BY <1>1, <1>5 DEF LengthsOf, LengthsIn
<1>7. Ordered(order, saves, order)
  BY <1>2, <1>4, <1>n DEF Ordered
<1> QED BY <1>1, <1>5, <1>6, <1>7 DEF order

\* What is listed of it is what was given.
LEMMA ListedAnew ==
  ASSUME NEW M \in Nat, NEW T, NEW saves \in Seq(T), Len(saves) <= M,
         NEW rec, \A k \in 1 .. Len(saves) : rec[k] = saves[k]
  PROVE  Listing(M, 1 .. Len(saves), rec) = saves
<1>1. Len(saves) \in 0 .. M
  OBVIOUS
<1>2. Listing(M, 1 .. Len(saves), rec) = [i \in 1 .. Len(saves) |-> rec[i]]
  BY <1>1, ListingFirst
<1>3. saves = [i \in 1 .. Len(saves) |-> saves[i]]
  OBVIOUS
<1> QED BY <1>2, <1>3
=============================================================================

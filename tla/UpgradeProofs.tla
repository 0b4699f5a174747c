--------------------------- MODULE UpgradeProofs ---------------------------
(***************************************************************************)
(* The routing table of the pool's proxy stays exact, whatever updates are *)
(* planned, delayed, mixed or repeated: each removal fills the hole that   *)
(* it leaves with the last element of a list, and the positions that are   *)
(* kept beside the lists follow.  What a cut, the cuts for a facet, a plan *)
(* and a reset do to the routes gives the rest: facets serve their release *)
(* as long as the updates meet their table, and no update works twice.     *)
(*                                                                         *)
(* Loops over sequences are recursive functions.  What holds after each    *)
(* iteration is proved of the function, which is shown to exist first.     *)
(***************************************************************************)
EXTENDS Upgrade, Sums

-----------------------------------------------------------------------------
\* g is base at first and what each step makes of it later.
IsRun(g, D, N, base, step) ==
    /\ g \in [0 .. N -> D]
    /\ g[0] = base
    /\ \A n \in 1 .. N : g[n] = step[n][g[n - 1]]

\* Recursion over the numbers up to N with values in D has a solution.
LEMMA Recursion ==
    ASSUME NEW D, NEW N \in Nat, NEW base \in D, NEW step \in [1 .. N -> [D -> D]]
    PROVE  \E g : IsRun(g, D, N, base, step)
  <1>. DEFINE Solved(m) == \E g \in [0 .. m -> D] :
                              g[0] = base /\ \A n \in 1 .. m : g[n] = step[n][g[n - 1]]
              T == {m \in Nat : m <= N => Solved(m)}
  <1>1. 0 \in T
    <2>. DEFINE g == [n \in 0 .. 0 |-> base]
    <2>1. g \in [0 .. 0 -> D] /\ g[0] = base /\ \A n \in 1 .. 0 : g[n] = step[n][g[n - 1]]
      OBVIOUS
    <2>. QED
      BY <2>1
  <1>2. ASSUME NEW m \in Nat, m \in T PROVE m + 1 \in T
    <2>. SUFFICES ASSUME m + 1 <= N PROVE Solved(m + 1)
      OBVIOUS
    <2>1. PICK g \in [0 .. m -> D] : g[0] = base /\ \A n \in 1 .. m : g[n] = step[n][g[n - 1]]
      BY <1>2
    <2>. DEFINE h == [n \in 0 .. m + 1 |-> IF n = m + 1 THEN step[m + 1][g[m]] ELSE g[n]]
    <2>2. m \in 0 .. m /\ m + 1 \in 1 .. N /\ g[m] \in D
      BY <2>1
    <2>3. step[m + 1][g[m]] \in D
      BY <2>2
    <2>4. h \in [0 .. m + 1 -> D]
      BY <2>1, <2>3
    <2>5. h[0] = base
      BY <2>1
    <2>6. ASSUME NEW n \in 1 .. m + 1 PROVE h[n] = step[n][h[n - 1]]
      <3>1. n - 1 \in 0 .. m /\ h[n - 1] = g[n - 1]
        BY <2>6
      <3>2. CASE n = m + 1
        BY <3>1, <3>2
      <3>3. CASE n # m + 1
        BY <2>1, <3>1, <3>3
      <3>. QED
        BY <3>2, <3>3
    <2>. QED
      BY <2>4, <2>5, <2>6
  <1>. HIDE DEF T
  <1>3. N \in T
    BY <1>1, <1>2, AllNumbers
  <1>. QED
    <2>1. Solved(N)
      BY <1>3 DEF T
    <2>. QED
      BY <2>1 DEF IsRun

\* What the definition of a run makes of g.
IsBody(body, g, D, N, base, step) ==
    /\ body = [n \in 0 .. N |-> body[n]]
    /\ body[0] = base
    /\ \A n \in 1 .. N : g[n - 1] \in D => body[n] = step[n][g[n - 1]]

\* A run is what the definition makes of it.
LEMMA RunIsBody ==
    ASSUME NEW D, NEW N \in Nat, NEW base, NEW step, NEW g, IsRun(g, D, N, base, step),
           NEW body, IsBody(body, g, D, N, base, step)
    PROVE  g = body
  <1>1. /\ body = [n \in 0 .. N |-> body[n]]
        /\ body[0] = base
        /\ \A n \in 1 .. N : g[n - 1] \in D => body[n] = step[n][g[n - 1]]
    BY Zenon DEF IsBody
  <1>2. /\ g \in [0 .. N -> D]
        /\ g[0] = base
        /\ \A n \in 1 .. N : g[n] = step[n][g[n - 1]] /\ g[n - 1] \in D
    BY DEF IsRun
  <1>3. ASSUME NEW n \in 0 .. N PROVE g[n] = body[n]
    <2>1. CASE n = 0
      BY <1>1, <1>2, <2>1
    <2>2. CASE n # 0
      <3>1. n \in 1 .. N
        BY <2>2
      <3>. QED
        BY <1>1, <1>2, <3>1
    <2>. QED
      BY <2>1, <2>2
  <1>4. g = [n \in 0 .. N |-> g[n]]
    BY <1>2
  <1>5. [n \in 0 .. N |-> g[n]] = [n \in 0 .. N |-> body[n]]
    BY <1>3
  <1>6. body = [n \in 0 .. N |-> body[n]]
    BY <1>1, Zenon
  <1>. QED
    BY <1>4, <1>5, <1>6, Zenon

\* What holds at first and is kept by each iteration holds after all of them.
LEMMA Iteration ==
    ASSUME NEW N \in Nat, NEW h, NEW D, h[0] \in D[0],
           \A n \in 1 .. N : h[n - 1] \in D[n - 1] => h[n] \in D[n]
    PROVE  \A n \in 0 .. N : h[n] \in D[n]
  <1>. DEFINE T == {n \in Nat : n <= N => h[n] \in D[n]}
  <1>1. 0 \in T
    OBVIOUS
  <1>2. ASSUME NEW n \in Nat, n \in T PROVE n + 1 \in T
    <2>1. (n + 1) - 1 = n /\ (n + 1 <= N => n + 1 \in 1 .. N)
      OBVIOUS
    <2>. QED
      BY <1>2, <2>1
  <1>. HIDE DEF T
  <1>3. Nat \subseteq T
    BY <1>1, <1>2, AllNumbers
  <1>. QED
    BY <1>3 DEF T

\* A set that goes from each number to the next one.
LEMMA UpTo ==
    ASSUME NEW N \in Nat, NEW S, 0 \in S, \A n \in 1 .. N : n - 1 \in S => n \in S
    PROVE  \A n \in 0 .. N : n \in S
  <1>. DEFINE h == [n \in 0 .. N |-> n]
              D == [n \in 0 .. N |-> S]
  <1>1. 0 \in 0 .. N /\ \A n \in 1 .. N : n \in 0 .. N /\ n - 1 \in 0 .. N
    OBVIOUS
  <1>2. h[0] \in D[0] /\ \A n \in 1 .. N : h[n - 1] \in D[n - 1] => h[n] \in D[n]
    BY <1>1
  <1>3. \A n \in 0 .. N : h[n] = n /\ D[n] = S
    OBVIOUS
  <1>. HIDE DEF h, D
  <1>4. \A n \in 0 .. N : h[n] \in D[n]
    BY <1>2, Iteration
  <1>. QED
    BY <1>3, <1>4

-----------------------------------------------------------------------------
\* Sequences.

\* Append adds one element at the end.
LEMMA Appended ==
    ASSUME NEW X, NEW q \in Seq(X), NEW x \in X
    PROVE  /\ Len(q) \in Nat
           /\ Append(q, x) \in Seq(X) /\ Append(q, x) # << >>
           /\ Len(Append(q, x)) = Len(q) + 1 /\ Append(q, x)[Len(q) + 1] = x
           /\ \A i \in 1 .. Len(q) : Append(q, x)[i] = q[i]
  OBVIOUS

\* The elements are those at the positions.
LEMMA ElementsByPosition ==
    ASSUME NEW X, NEW q \in Seq(X)
    PROVE  \A x : x \in ToSet(q) <=> \E i \in 1 .. Len(q) : x = q[i]
  <1>1. DOMAIN q = 1 .. Len(q)
    OBVIOUS
  <1>. QED
    BY <1>1 DEF ToSet

\* The elements after Append.
LEMMA AppendedElements ==
    ASSUME NEW X, NEW q \in Seq(X), NEW x \in X
    PROVE  /\ ToSet(Append(q, x)) = ToSet(q) \union {x}
           /\ IsInjective(q) /\ x \notin ToSet(q) => IsInjective(Append(q, x))
  <1>. DEFINE p == Append(q, x)
              n == Len(q)
  <1>1. /\ n \in Nat
        /\ p \in Seq(X)
        /\ Len(p) = n + 1 /\ p[n + 1] = x
        /\ \A i \in 1 .. n : p[i] = q[i]
    BY Appended
  <1>2. DOMAIN p = 1 .. n + 1 /\ DOMAIN q = 1 .. n
    BY <1>1
  <1>3. \A y : y \in ToSet(q) <=> \E i \in 1 .. n : y = q[i]
    BY ElementsByPosition
  <1>. HIDE DEF p, n
  <1>4. \A y : y \in ToSet(p) <=> \E i \in 1 .. n + 1 : y = p[i]
    BY <1>1, ElementsByPosition
  <1>5. \A i \in 1 .. n + 1 : i = n + 1 \/ i \in 1 .. n
    BY <1>1
  <1>6. \A i \in 1 .. n : i \in 1 .. n + 1
    BY <1>1
  <1>7. n + 1 \in 1 .. n + 1
    BY <1>1
  <1>8. ToSet(p) = ToSet(q) \union {x}
    <2>1. \A y : y \in ToSet(p) <=> y = x \/ \E i \in 1 .. n : y = q[i]
      BY <1>1, <1>4, <1>5, <1>6, <1>7
    <2>. QED
      BY <1>3, <2>1
  <1>9. ASSUME IsInjective(q), x \notin ToSet(q) PROVE IsInjective(p)
    <2>1. \A i, j \in 1 .. n : q[i] = q[j] => i = j
      BY <1>2, <1>9, Zenon DEF IsInjective
    <2>2. \A i \in 1 .. n : q[i] # x
      BY <1>3, <1>9, Zenon
    <2>3. \A i, j \in 1 .. n + 1 : p[i] = p[j] => i = j
      BY <1>1, <1>5, <2>1, <2>2
    <2>. QED
      BY <1>2, <2>3, Zenon DEF IsInjective
  <1>. QED
    BY <1>8, <1>9 DEF p

\* The sequences that a filter goes through.
KeptRun(seq, S, h) ==
    [n \in 0 .. Len(seq) |->
        IF n = 0 THEN << >>
        ELSE IF seq[n] \in S THEN Append(h[n - 1], seq[n]) ELSE h[n - 1]]

\* The filter exists as a recursive function, step by step.
LEMMA KeptRuns ==
    ASSUME NEW X, NEW seq \in Seq(X), NEW S
    PROVE  \E h : /\ h[0] = << >>
                  /\ \A n \in 1 .. Len(seq) :
                         h[n] = IF seq[n] \in S THEN Append(h[n - 1], seq[n]) ELSE h[n - 1]
                  /\ h[Len(seq)] = Kept(seq, S)
  <1>. DEFINE N == Len(seq)
              D == Seq(X)
              More(q, n) == IF seq[n] \in S THEN Append(q, seq[n]) ELSE q
              step == [n \in 1 .. N |-> [q \in D |-> More(q, n)]]
              kept == CHOOSE h : h = KeptRun(seq, S, h)
  <1>1. N \in Nat /\ << >> \in D
    OBVIOUS
  <1>2. \A n \in 1 .. N : \A q \in D : More(q, n) \in D
    OBVIOUS
  <1>3. \A h : /\ KeptRun(seq, S, h)[0] = << >>
               /\ \A n \in 1 .. N : KeptRun(seq, S, h)[n] = More(h[n - 1], n)
               /\ KeptRun(seq, S, h) = [n \in 0 .. N |-> KeptRun(seq, S, h)[n]]
    BY <1>1 DEF KeptRun
  <1>4. Kept(seq, S) = kept[N]
    BY DEF Kept, KeptRun
  <1>. HIDE DEF D, More, N, kept
  <1>5. step \in [1 .. N -> [D -> D]] /\ \A n \in 1 .. N : \A q \in D : step[n][q] = More(q, n)
    BY <1>2
  <1>. HIDE DEF step
  <1>6. step \in [1 .. N -> [D -> D]]
    BY <1>5
  <1>7. N \in Nat
    BY <1>1
  <1>8. << >> \in D
    BY <1>1
  <1>9. \E g : IsRun(g, D, N, << >>, step)
    BY <1>6, <1>7, <1>8, Recursion
  <1>10. PICK g : IsRun(g, D, N, << >>, step)
    BY <1>9
  <1>11. g = KeptRun(seq, S, g)
    <2>. DEFINE body == KeptRun(seq, S, g)
    <2>1. body = [n \in 0 .. N |-> body[n]] /\ body[0] = << >>
      BY <1>3
    <2>2. \A n \in 1 .. N : g[n - 1] \in D => body[n] = step[n][g[n - 1]]
      BY <1>3, <1>5
    <2>. HIDE DEF body
    <2>3. IsBody(body, g, D, N, << >>, step)
      BY <2>1, <2>2, Zenon DEF IsBody
    <2>4. g = body
      BY <1>7, <1>10, <2>3, RunIsBody, Zenon
    <2>. QED
      BY <2>4 DEF body
  <1>12. kept = KeptRun(seq, S, kept)
    BY <1>11 DEF kept
  <1>13. kept[0] = << >> /\ \A n \in 1 .. N : kept[n] = More(kept[n - 1], n)
    BY <1>3, <1>12
  <1>. QED
    BY <1>4, <1>13 DEF More, N

\* The elements that are kept are elements of both, each as often as before.
LEMMA KeptType ==
    ASSUME NEW X, NEW seq \in Seq(X), NEW S
    PROVE  /\ Kept(seq, S) \in Seq(X \cap S)
           /\ Kept(seq, S) \in Seq(X)
           /\ ToSet(Kept(seq, S)) = ToSet(seq) \cap S
           /\ IsInjective(seq) => IsInjective(Kept(seq, S))
  <1>. DEFINE N == Len(seq)
              Y == X \cap S
              Upto(n) == {x \in Y : \E i \in 1 .. n : x = seq[i]}
              D(n) == {q \in Seq(Y) : ToSet(q) = Upto(n) /\ (IsInjective(seq) => IsInjective(q))}
              Ds == [n \in 0 .. N |-> D(n)]
  <1>1. PICK h : /\ h[0] = << >>
                 /\ \A n \in 1 .. N : h[n] = IF seq[n] \in S THEN Append(h[n - 1], seq[n]) ELSE h[n - 1]
                 /\ h[N] = Kept(seq, S)
    BY KeptRuns, Zenon
  <1>2. N \in Nat /\ DOMAIN seq = 1 .. N /\ \A n \in 1 .. N : seq[n] \in X
    OBVIOUS
  <1>3. << >> \in D(0)
    <2>1. ToSet(<< >>) = {} /\ IsInjective(<< >>) /\ << >> \in Seq(Y)
      BY DEF ToSet, IsInjective
    <2>2. Upto(0) = {}
      OBVIOUS
    <2>. QED
      BY <2>1, <2>2
  <1>4. ASSUME NEW n \in 1 .. N, h[n - 1] \in D(n - 1) PROVE h[n] \in D(n)
    <2>. DEFINE q == h[n - 1]
                x == seq[n]
    <2>1. q \in Seq(Y) /\ ToSet(q) = Upto(n - 1) /\ (IsInjective(seq) => IsInjective(q))
      BY <1>4
    <2>2. \A i : i \in 1 .. n <=> i \in 1 .. n - 1 \/ i = n
      BY <1>2
    <2>3. x \in X
      BY <1>2
    <2>4. CASE x \in S
      <3>1. h[n] = Append(q, x) /\ x \in Y
        BY <1>1, <2>3, <2>4
      <3>2. Upto(n) = Upto(n - 1) \union {x}
        BY <2>2, <3>1
      <3>3. ToSet(Append(q, x)) = ToSet(q) \union {x}
        <4>. HIDE DEF q, x, Y
        <4>. QED
          BY <2>1, <3>1, AppendedElements
      <3>4. Append(q, x) \in Seq(Y)
        BY <2>1, <3>1
      <3>5. ASSUME IsInjective(seq) PROVE IsInjective(Append(q, x))
        <4>1. \A i \in 1 .. n - 1 : i \in 1 .. N /\ i # n
          BY <1>2
        <4>2. \A i \in 1 .. n - 1 : x # seq[i]
          BY <1>2, <3>5, <4>1 DEF IsInjective
        <4>3. x \notin ToSet(q)
          BY <2>1, <4>2
        <4>. QED
          BY <2>1, <3>1, <3>5, <4>3, AppendedElements
      <3>. HIDE DEF q, x, Upto
      <3>. QED
        BY <2>1, <3>1, <3>2, <3>3, <3>4, <3>5
    <2>5. CASE x \notin S
      <3>1. h[n] = q
        BY <1>1, <2>5
      <3>2. Upto(n) = Upto(n - 1)
        BY <2>2, <2>5
      <3>. QED
        BY <2>1, <3>1, <3>2
    <2>. QED
      BY <2>4, <2>5
  <1>. HIDE DEF D, N
  <1>5. h[0] \in Ds[0] /\ \A n \in 1 .. N : h[n - 1] \in Ds[n - 1] => h[n] \in Ds[n]
    <2>1. 0 \in 0 .. N /\ \A n \in 1 .. N : n \in 0 .. N /\ n - 1 \in 0 .. N
      BY <1>2
    <2>. QED
      BY <1>1, <1>3, <1>4, <2>1
  <1>6. \A n \in 0 .. N : h[n] \in Ds[n]
    <2>. HIDE DEF Ds
    <2>. QED
      BY <1>2, <1>5, Iteration
  <1>7. h[N] \in D(N)
    BY <1>2, <1>6
  <1>8. /\ Kept(seq, S) \in Seq(Y)
        /\ ToSet(Kept(seq, S)) = Upto(N)
        /\ IsInjective(seq) => IsInjective(Kept(seq, S))
    BY <1>1, <1>7 DEF D
  <1>9. Upto(N) = ToSet(seq) \cap S
    BY <1>2, ElementsByPosition DEF N
  <1>. QED
    BY <1>8, <1>9

\* What swap and pop leaves of a sequence: the last element takes the place k.
Popped(q, k) == Front([q EXCEPT ![k] = Last(q)])

\* The sequence after the last element took the place of the k-th one.
LEMMA SwapAndPop ==
    ASSUME NEW X, NEW q \in Seq(X), NEW k \in 1 .. Len(q)
    PROVE  /\ Popped(q, k) \in Seq(X)
           /\ Len(Popped(q, k)) = Len(q) - 1
           /\ \A i \in 1 .. Len(q) - 1 : Popped(q, k)[i] = IF i = k THEN q[Len(q)] ELSE q[i]
           /\ Last(q) = q[Len(q)] /\ q[Len(q)] \in X
  <1>. DEFINE r == [q EXCEPT ![k] = Last(q)]
              p == Popped(q, k)
  <1>1. Last(q) = q[Len(q)] /\ q[Len(q)] \in X /\ Len(q) \in Nat
    BY DEF Last
  <1>2. r \in Seq(X) /\ Len(r) = Len(q)
    BY <1>1
  <1>3. \A i \in 1 .. Len(q) : r[i] = IF i = k THEN q[Len(q)] ELSE q[i]
    BY <1>1
  <1>. HIDE DEF r, p
  <1>4. p = SubSeq(r, 1, Len(r) - 1)
    BY Zenon DEF Front, Popped, r, p
  <1>5. 1 \in Nat /\ Len(r) - 1 \in Nat /\ Len(r) - 1 <= Len(r)
    BY <1>1, <1>2
  <1>6. /\ SubSeq(r, 1, Len(r) - 1) \in Seq(X)
        /\ Len(SubSeq(r, 1, Len(r) - 1)) = Len(r) - 1
        /\ \A i \in 1 .. Len(r) - 1 : SubSeq(r, 1, Len(r) - 1)[i] = r[i]
    BY <1>2, <1>5
  <1>7. \A i \in 1 .. Len(q) - 1 : i \in 1 .. Len(q) /\ i \in 1 .. Len(r) - 1
    BY <1>1, <1>2
  <1>8. \A i \in 1 .. Len(q) - 1 : p[i] = IF i = k THEN q[Len(q)] ELSE q[i]
    BY <1>3, <1>4, <1>6, <1>7, Zenon
  <1>. QED
    BY <1>1, <1>2, <1>4, <1>6, <1>8, Zenon DEF p

\* Elements with different positions are different.
LEMMA InjectiveByPosition ==
    ASSUME NEW X, NEW q \in Seq(X), NEW at, \A i \in 1 .. Len(q) : at[q[i]] = i - 1
    PROVE  IsInjective(q) /\ \A i \in DOMAIN q : at[q[i]] = i - 1
  <1>1. DOMAIN q = 1 .. Len(q)
    OBVIOUS
  <1>2. ASSUME NEW i \in 1 .. Len(q), NEW j \in 1 .. Len(q), q[i] = q[j] PROVE i = j
    <2>1. i - 1 = j - 1
      BY <1>2, Zenon
    <2>. QED
      BY <2>1
  <1>. QED
    BY <1>1, <1>2, Zenon DEF IsInjective

-----------------------------------------------------------------------------
\* The table.

Tables ==
    [ok: BOOLEAN, impls: Seq(Facets), at: [Facets -> Nat], list: [Facets -> Seq(Selectors)],
     route: [Selectors -> Facets \union {NoFacet}], pos: [Selectors -> Nat]]

\* The facets in F are listed even if they have no function.
IsListed(t, F, f) == t.list[f] # << >> \/ f \in F

\* A selector is in the list of the facet that serves it, at its position.
RoutesLinked(t) ==
    \A s \in Selectors : t.route[s] # NoFacet =>
        /\ t.pos[s] + 1 \in 1 .. Len(t.list[t.route[s]])
        /\ t.list[t.route[s]][t.pos[s] + 1] = s

\* A facet serves the selectors of its list, and their positions are those in the list.
ListsLinked(t) ==
    \A f \in Facets : \A i \in 1 .. Len(t.list[f]) :
        t.route[t.list[f][i]] = f /\ t.pos[t.list[f][i]] = i - 1

\* The same of the facets and the list of facets.
FacetsLinked(t, F) ==
    \A f \in Facets : IsListed(t, F, f) =>
        t.at[f] + 1 \in 1 .. Len(t.impls) /\ t.impls[t.at[f] + 1] = f

ImplsLinked(t, F) ==
    \A i \in 1 .. Len(t.impls) : t.at[t.impls[i]] = i - 1 /\ IsListed(t, F, t.impls[i])

Linked(t, F) ==
    t \in Tables /\ RoutesLinked(t) /\ ListsLinked(t) /\ FacetsLinked(t, F) /\ ImplsLinked(t, F)

\* A table that is linked satisfies what the runs check.
LEMMA LinkedIsExact ==
    ASSUME ds.ok, Linked(ds, {})
    PROVE  TableExact
  <1>1. /\ ds.impls \in Seq(Facets)
        /\ ds.list \in [Facets -> Seq(Selectors)]
        /\ ds.route \in [Selectors -> Facets \union {NoFacet}]
    BY DEF Linked, Tables
  <1>2. /\ RoutesLinked(ds)
        /\ ListsLinked(ds)
        /\ FacetsLinked(ds, {})
        /\ ImplsLinked(ds, {})
    BY DEF Linked
  <1>3. NoFacet \notin Facets
    BY UpgradeAssumption
  <1>4. \A i \in 1 .. Len(ds.impls) : ds.at[ds.impls[i]] = i - 1
    BY <1>2, Zenon DEF ImplsLinked
  <1>5. IsInjective(ds.impls) /\ \A i \in DOMAIN ds.impls : ds.at[ds.impls[i]] = i - 1
    BY <1>1, <1>4, InjectiveByPosition, Zenon
  <1>6. ToSet(ds.impls) \subseteq {ds.route[s] : s \in Selectors} \ {NoFacet}
    <2>. SUFFICES ASSUME NEW i \in 1 .. Len(ds.impls)
                  PROVE  ds.impls[i] \in {ds.route[s] : s \in Selectors} \ {NoFacet}
      BY <1>1, ElementsByPosition
    <2>. DEFINE f == ds.impls[i]
    <2>1. f \in Facets /\ ds.list[f] # << >>
      BY <1>1, <1>2 DEF ImplsLinked, IsListed
    <2>. HIDE DEF f
    <2>2. 1 \in 1 .. Len(ds.list[f]) /\ ds.list[f][1] \in Selectors
      BY <1>1, <2>1
    <2>3. ds.route[ds.list[f][1]] = f
      BY <1>2, <2>1, <2>2 DEF ListsLinked
    <2>. QED
      BY <1>3, <2>1, <2>2, <2>3 DEF f
  <1>7. {ds.route[s] : s \in Selectors} \ {NoFacet} \subseteq ToSet(ds.impls)
    <2>. SUFFICES ASSUME NEW s \in Selectors, ds.route[s] # NoFacet
                  PROVE  ds.route[s] \in ToSet(ds.impls)
      OBVIOUS
    <2>. DEFINE f == ds.route[s]
    <2>1. f \in Facets
      BY <1>1
    <2>2. ds.pos[s] + 1 \in 1 .. Len(ds.list[f])
      BY <1>2 DEF RoutesLinked
    <2>3. ds.list[f] # << >>
      BY <1>1, <2>1, <2>2
    <2>4. ds.at[f] + 1 \in 1 .. Len(ds.impls) /\ ds.impls[ds.at[f] + 1] = f
      BY <1>2, <2>1, <2>3 DEF FacetsLinked, IsListed
    <2>. QED
      BY <1>1, <2>4 DEF ToSet
  <1>8. ASSUME NEW f \in Facets
        PROVE  /\ IsInjective(ds.list[f])
               /\ ToSet(ds.list[f]) = {s \in Selectors : ds.route[s] = f}
               /\ \A i \in DOMAIN ds.list[f] : ds.pos[ds.list[f][i]] = i - 1
    <2>1. ds.list[f] \in Seq(Selectors)
      BY <1>1
    <2>2. \A i \in 1 .. Len(ds.list[f]) :
              ds.route[ds.list[f][i]] = f /\ ds.pos[ds.list[f][i]] = i - 1
      BY <1>2 DEF ListsLinked
    <2>3. IsInjective(ds.list[f]) /\ \A i \in DOMAIN ds.list[f] : ds.pos[ds.list[f][i]] = i - 1
      <3>1. \A i \in 1 .. Len(ds.list[f]) : ds.pos[ds.list[f][i]] = i - 1
        BY <2>2
      <3>. QED
        BY <2>1, <3>1, InjectiveByPosition, Zenon
    <2>4. ToSet(ds.list[f]) \subseteq {s \in Selectors : ds.route[s] = f}
      BY <2>1, <2>2, ElementsByPosition
    <2>5. {s \in Selectors : ds.route[s] = f} \subseteq ToSet(ds.list[f])
      BY <1>2, <1>3, <2>1 DEF ToSet, RoutesLinked
    <2>. QED
      BY <2>3, <2>4, <2>5
  <1>9. ToSet(ds.impls) = {ds.route[s] : s \in Selectors} \ {NoFacet}
    BY <1>6, <1>7
  <1>. QED
    BY <1>5, <1>8, <1>9, Zenon DEF TableExact

\* A facet that has no function yet is listed at the end.
LEMMA AddFacetIfNewLinks ==
    ASSUME NEW t, Linked(t, {}), NEW f \in Facets
    PROVE  /\ Linked(AddFacetIfNew(t, f), {f})
           /\ AddFacetIfNew(t, f).ok = t.ok
           /\ AddFacetIfNew(t, f).route = t.route
  <1>. DEFINE u == AddFacet(t, f)
  <1>1. t \in Tables
    BY DEF Linked
  <1>2. CASE t.list[f] # << >>
    <2>1. AddFacetIfNew(t, f) = t
      BY <1>2 DEF AddFacetIfNew
    <2>2. \A g : IsListed(t, {f}, g) <=> IsListed(t, {}, g)
      BY <1>2 DEF IsListed
    <2>3. FacetsLinked(t, {f}) /\ ImplsLinked(t, {f})
      BY <2>2 DEF Linked, FacetsLinked, ImplsLinked
    <2>. QED
      BY <2>1, <2>3 DEF Linked
  <1>3. CASE t.list[f] = << >>
    <2>1. AddFacetIfNew(t, f) = u
      BY <1>3 DEF AddFacetIfNew
    <2>2. t.impls \in Seq(Facets) /\ t.at \in [Facets -> Nat] /\ Len(t.impls) \in Nat
      BY <1>1 DEF Tables
    <2>3. /\ u.ok = t.ok /\ u.list = t.list /\ u.route = t.route /\ u.pos = t.pos
          /\ u.impls = Append(t.impls, f)
          /\ u.at = [t.at EXCEPT ![f] = Len(t.impls)]
      BY <1>1 DEF AddFacet, Tables
    <2>6. u \in Tables
      <3>1. Append(t.impls, f) \in Seq(Facets)
        BY <2>2
      <3>. QED
        BY <1>1, <2>2, <3>1 DEF AddFacet, Tables
    <2>. HIDE DEF u
    <2>4. /\ u.impls \in Seq(Facets) /\ Len(u.impls) = Len(t.impls) + 1
          /\ u.impls[Len(t.impls) + 1] = f
          /\ \A i \in 1 .. Len(t.impls) : u.impls[i] = t.impls[i]
      BY <2>2, <2>3
    <2>5. u.at \in [Facets -> Nat] /\ u.at[f] = Len(t.impls) /\ \A g \in Facets \ {f} : u.at[g] = t.at[g]
      BY <2>2, <2>3
    <2>7. RoutesLinked(u) /\ ListsLinked(u)
      BY <2>3 DEF Linked, RoutesLinked, ListsLinked
    <2>8. \A i \in 1 .. Len(t.impls) : t.impls[i] \in Facets \ {f}
      BY <1>3, <2>2 DEF Linked, ImplsLinked, IsListed
    <2>9. FacetsLinked(u, {f})
      <3>. SUFFICES ASSUME NEW g \in Facets, IsListed(u, {f}, g)
                    PROVE  u.at[g] + 1 \in 1 .. Len(u.impls) /\ u.impls[u.at[g] + 1] = g
        BY DEF FacetsLinked
      <3>1. CASE g = f
        BY <2>2, <2>4, <2>5, <3>1
      <3>2. CASE g # f
        <4>1. t.at[g] + 1 \in 1 .. Len(t.impls) /\ t.impls[t.at[g] + 1] = g
          BY <2>3, <3>2 DEF Linked, FacetsLinked, IsListed
        <4>2. u.at[g] = t.at[g]
          BY <2>5, <3>2
        <4>3. u.at[g] + 1 \in 1 .. Len(u.impls)
          BY <2>2, <2>4, <4>1, <4>2
        <4>. QED
          BY <2>4, <4>1, <4>2, <4>3, Zenon
      <3>. QED
        BY <3>1, <3>2
    <2>10. ImplsLinked(u, {f})
      <3>. SUFFICES ASSUME NEW i \in 1 .. Len(u.impls)
                    PROVE  u.at[u.impls[i]] = i - 1 /\ IsListed(u, {f}, u.impls[i])
        BY DEF ImplsLinked
      <3>1. CASE i = Len(t.impls) + 1
        BY <2>2, <2>4, <2>5, <3>1 DEF IsListed
      <3>2. CASE i # Len(t.impls) + 1
        <4>1. i \in 1 .. Len(t.impls)
          BY <2>2, <2>4, <3>2
        <4>2. t.at[t.impls[i]] = i - 1 /\ t.list[t.impls[i]] # << >>
          BY <4>1 DEF Linked, ImplsLinked, IsListed
        <4>. QED
          BY <2>3, <2>4, <2>5, <2>8, <4>1, <4>2 DEF IsListed
      <3>. QED
        BY <3>1, <3>2
    <2>. QED
      BY <2>1, <2>3, <2>6, <2>7, <2>9, <2>10 DEF Linked
  <1>. QED
    BY <1>2, <1>3

\* A selector that is not served joins the list of a listed facet.
LEMMA AddFunctionLinks ==
    ASSUME NEW t, NEW f \in Facets, NEW s \in Selectors, Linked(t, {f}), t.route[s] = NoFacet
    PROVE  /\ Linked(AddFunction(t, s, f), {f})
           /\ AddFunction(t, s, f).list[f] # << >>
           /\ AddFunction(t, s, f).ok = t.ok
           /\ AddFunction(t, s, f).route[s] = f
           /\ \A x \in Selectors \ {s} : AddFunction(t, s, f).route[x] = t.route[x]
  <1>. DEFINE u == AddFunction(t, s, f)
              n == Len(t.list[f])
  <1>1. t \in Tables
    BY DEF Linked
  <1>2. /\ t.ok \in BOOLEAN /\ t.impls \in Seq(Facets) /\ t.at \in [Facets -> Nat]
        /\ t.list \in [Facets -> Seq(Selectors)]
        /\ t.route \in [Selectors -> Facets \union {NoFacet}]
        /\ t.pos \in [Selectors -> Nat]
    BY <1>1 DEF Tables
  <1>3. /\ t.list[f] \in Seq(Selectors) /\ n \in Nat
        /\ Append(t.list[f], s) \in Seq(Selectors) /\ Append(t.list[f], s) # << >>
        /\ Len(Append(t.list[f], s)) = n + 1 /\ Append(t.list[f], s)[n + 1] = s
        /\ \A i \in 1 .. n : Append(t.list[f], s)[i] = t.list[f][i]
    <2>1. t.list[f] \in Seq(Selectors)
      BY <1>2
    <2>. QED
      BY <2>1, Appended
  <1>4. /\ u.ok = t.ok /\ u.impls = t.impls /\ u.at = t.at
        /\ u.list = [t.list EXCEPT ![f] = Append(t.list[f], s)]
        /\ u.route = [t.route EXCEPT ![s] = f]
        /\ u.pos = [t.pos EXCEPT ![s] = n]
    BY <1>1 DEF AddFunction, Tables
  <1>8. u \in Tables
    BY <1>1, <1>3 DEF AddFunction, Tables
  <1>. HIDE DEF u
  <1>5. /\ u.list \in [Facets -> Seq(Selectors)] /\ u.list[f] = Append(t.list[f], s)
        /\ \A g \in Facets \ {f} : u.list[g] = t.list[g]
    BY <1>2, <1>3, <1>4
  <1>6. /\ u.route \in [Selectors -> Facets \union {NoFacet}] /\ u.route[s] = f
        /\ \A x \in Selectors \ {s} : u.route[x] = t.route[x]
    BY <1>2, <1>4
  <1>7. /\ u.pos \in [Selectors -> Nat] /\ u.pos[s] = n
        /\ \A x \in Selectors \ {s} : u.pos[x] = t.pos[x]
    BY <1>2, <1>3, <1>4
  <1>. HIDE DEF n
  <1>9. NoFacet \notin Facets
    BY UpgradeAssumption
  <1>10. \A g \in Facets : \A i \in 1 .. Len(t.list[g]) :
             /\ t.list[g][i] \in Selectors \ {s}
             /\ t.route[t.list[g][i]] = g /\ t.pos[t.list[g][i]] = i - 1
    <2>1. \A g \in Facets : t.list[g] \in Seq(Selectors)
      BY <1>2
    <2>. QED
      BY <1>9, <2>1 DEF Linked, ListsLinked
  <1>11. RoutesLinked(u)
    <2>. SUFFICES ASSUME NEW x \in Selectors, u.route[x] # NoFacet
                  PROVE  /\ u.pos[x] + 1 \in 1 .. Len(u.list[u.route[x]])
                         /\ u.list[u.route[x]][u.pos[x] + 1] = x
      BY DEF RoutesLinked
    <2>1. CASE x = s
      <3>1. u.route[x] = f /\ u.pos[x] = n /\ u.list[f] = Append(t.list[f], s)
        BY <1>5, <1>6, <1>7, <2>1
      <3>2. n + 1 \in 1 .. Len(u.list[f])
        BY <1>3, <3>1
      <3>. QED
        BY <1>3, <2>1, <3>1, <3>2, Zenon
    <2>2. CASE x # s
      <3>1. u.route[x] = t.route[x] /\ u.pos[x] = t.pos[x] /\ t.route[x] \in Facets
        BY <1>2, <1>6, <1>7, <2>2
      <3>2. /\ t.pos[x] + 1 \in 1 .. Len(t.list[t.route[x]])
            /\ t.list[t.route[x]][t.pos[x] + 1] = x
        BY <3>1 DEF Linked, RoutesLinked
      <3>3. CASE t.route[x] = f
        BY <1>3, <1>5, <3>1, <3>2, <3>3 DEF n
      <3>4. CASE t.route[x] # f
        BY <1>5, <3>1, <3>2, <3>4
      <3>. QED
        BY <3>3, <3>4
    <2>. QED
      BY <2>1, <2>2
  <1>12. ListsLinked(u)
    <2>. SUFFICES ASSUME NEW g \in Facets, NEW i \in 1 .. Len(u.list[g])
                  PROVE  u.route[u.list[g][i]] = g /\ u.pos[u.list[g][i]] = i - 1
      BY DEF ListsLinked
    <2>1. CASE g # f
      <3>1. u.list[g] = t.list[g] /\ i \in 1 .. Len(t.list[g])
        BY <1>5, <2>1
      <3>2. t.list[g][i] \in Selectors \ {s}
        BY <1>10, <3>1, Zenon
      <3>3. t.route[t.list[g][i]] = g /\ t.pos[t.list[g][i]] = i - 1
        BY <1>10, <3>1, Zenon
      <3>. QED
        BY <1>6, <1>7, <3>1, <3>2, <3>3
    <2>2. CASE g = f /\ i = n + 1
      BY <1>3, <1>5, <1>6, <1>7, <2>2
    <2>3. CASE g = f /\ i # n + 1
      <3>1. i \in 1 .. n /\ u.list[g][i] = t.list[f][i]
        BY <1>3, <1>5, <2>3
      <3>2. i \in 1 .. Len(t.list[f])
        BY <3>1 DEF n
      <3>3. t.list[f][i] \in Selectors \ {s}
        BY <1>10, <3>2, Zenon
      <3>4. t.route[t.list[f][i]] = f /\ t.pos[t.list[f][i]] = i - 1
        BY <1>10, <3>2, Zenon
      <3>. QED
        BY <1>6, <1>7, <2>3, <3>1, <3>3, <3>4
    <2>. QED
      BY <2>1, <2>2, <2>3
  <1>13. \A g \in Facets : IsListed(u, {f}, g) <=> IsListed(t, {f}, g)
    BY <1>3, <1>5 DEF IsListed
  <1>14. FacetsLinked(u, {f})
    BY <1>4, <1>13 DEF Linked, FacetsLinked
  <1>15. ImplsLinked(u, {f})
    <2>1. \A i \in 1 .. Len(t.impls) : t.impls[i] \in Facets
      BY <1>2
    <2>. QED
      BY <1>4, <1>13, <2>1 DEF Linked, ImplsLinked
  <1>. QED
    BY <1>3, <1>4, <1>5, <1>6, <1>8, <1>11, <1>12, <1>14, <1>15 DEF Linked, u

\* Swap and pop of place k, with the positions of the elements kept beside the sequence.
Moved(at, q, k, x) == [[at EXCEPT ![Last(q)] = at[x]] EXCEPT ![x] = 0]

Positions(q, at) == \A i \in 1 .. Len(q) : at[q[i]] = i - 1

\* p and new are q and at without the element x.
Without(X, q, at, x, p, new) ==
    /\ p \in Seq(X) /\ new \in [X -> Nat]
    /\ \A i \in 1 .. Len(p) :
           new[p[i]] = i - 1 /\ p[i] # x /\ \E j \in 1 .. Len(q) : p[i] = q[j]
    /\ \A i \in 1 .. Len(q) : q[i] # x =>
           new[q[i]] + 1 \in 1 .. Len(p) /\ p[new[q[i]] + 1] = q[i]
    /\ \A y \in X : (\A i \in 1 .. Len(q) : q[i] # y) => new[y] = at[y]

\* Positions that are kept beside a sequence follow its swap and pop.
LEMMA SwapAndPopLinks ==
    ASSUME NEW X, NEW q \in Seq(X), NEW k \in 1 .. Len(q), NEW at \in [X -> Nat],
           Positions(q, at)
    PROVE  Without(X, q, at, q[k], Popped(q, k), Moved(at, q, k, q[k]))
  <1>. DEFINE n == Len(q)
              p == Popped(q, k)
              new == Moved(at, q, k, q[k])
  <1>1. /\ p \in Seq(X) /\ Len(p) = n - 1
        /\ \A i \in 1 .. n - 1 : p[i] = IF i = k THEN q[n] ELSE q[i]
        /\ Last(q) = q[n] /\ q[n] \in X
    BY SwapAndPop
  <1>2. n \in Nat /\ k \in 1 .. n /\ n \in 1 .. n /\ \A i \in 1 .. n : q[i] \in X
    OBVIOUS
  <1>3. \A i \in 1 .. n : at[q[i]] = i - 1
    BY DEF Positions
  <1>4. \A x \in X : new[x] = IF x = q[k] THEN 0 ELSE IF x = q[n] THEN at[q[k]] ELSE at[x]
    BY <1>1, <1>2 DEF Moved
  <1>5. at[q[k]] = k - 1 /\ at[q[k]] \in Nat
    BY <1>2, <1>3
  <1>6. new \in [X -> Nat]
    BY <1>5 DEF Moved
  <1>. HIDE DEF n, p, new
  <1>7. \A i, j \in 1 .. n : q[i] = q[j] => i = j
    BY <1>2, <1>3
  <1>8. ASSUME NEW i \in 1 .. n - 1
        PROVE  new[p[i]] = i - 1 /\ p[i] # q[k] /\ \E j \in 1 .. n : p[i] = q[j]
    <2>1. i \in 1 .. n /\ i # n
      BY <1>2
    <2>2. CASE i = k
      <3>1. p[i] = q[n] /\ q[n] # q[k]
        BY <1>1, <1>2, <1>7, <2>1, <2>2
      <3>. QED
        BY <1>2, <1>4, <1>5, <2>2, <3>1
    <2>3. CASE i # k
      <3>1. p[i] = q[i] /\ q[i] # q[k] /\ q[i] # q[n]
        BY <1>1, <1>2, <1>7, <2>1, <2>3
      <3>. QED
        BY <1>2, <1>3, <1>4, <2>1, <3>1
    <2>. QED
      BY <2>2, <2>3
  <1>9. ASSUME NEW i \in 1 .. n, q[i] # q[k]
        PROVE  new[q[i]] + 1 \in 1 .. n - 1 /\ p[new[q[i]] + 1] = q[i]
    <2>1. i # k
      BY <1>9
    <2>2. CASE i = n
      <3>1. new[q[i]] = at[q[k]]
        BY <1>2, <1>4, <1>9, <2>2
      <3>2. new[q[i]] + 1 = k /\ k \in 1 .. n - 1
        BY <1>2, <1>5, <2>1, <2>2, <3>1
      <3>. QED
        BY <1>1, <2>2, <3>2
    <2>3. CASE i # n
      <3>1. i \in 1 .. n - 1
        BY <1>2, <2>3
      <3>2. q[i] # q[n]
        BY <1>2, <1>7, <2>3
      <3>3. new[q[i]] = at[q[i]]
        BY <1>2, <1>4, <1>9, <3>2
      <3>4. at[q[i]] = i - 1
        BY <1>3, Zenon
      <3>5. new[q[i]] + 1 = i
        BY <1>2, <3>3, <3>4
      <3>. QED
        BY <1>1, <2>1, <3>1, <3>5
    <2>. QED
      BY <2>2, <2>3
  <1>10. \A x \in X : (\A i \in 1 .. n : q[i] # x) => new[x] = at[x]
    BY <1>2, <1>4
  <1>. QED
    BY <1>1, <1>6, <1>8, <1>9, <1>10 DEF n, p, new, Without

\* Selector s taken from its facet, before the facet is removed if nothing is left.
Unrouted(t, s) ==
    LET f == t.route[s]
        moved == Last(t.list[f])
    IN  [t EXCEPT !.list[f] = Front([@ EXCEPT ![t.pos[s] + 1] = moved]),
                  !.pos[moved] = t.pos[s],
                  !.pos[s] = 0, !.route[s] = NoFacet]

\* The lists of functions after a removal, before an empty facet is dropped.
LEMMA UnroutedLinks ==
    ASSUME NEW t, NEW F, Linked(t, F), NEW s \in Selectors, NEW f \in Facets, t.route[s] = f
    PROVE  /\ Linked(Unrouted(t, s), F \union {f})
           /\ Unrouted(t, s).ok = t.ok
           /\ Unrouted(t, s).route = [t.route EXCEPT ![s] = NoFacet]
           /\ \A g \in Facets \ {f} : Unrouted(t, s).list[g] = t.list[g]
  <1>. DEFINE u == Unrouted(t, s)
              q == t.list[f]
              k == t.pos[s] + 1
              p == Popped(q, k)
              new == Moved(t.pos, q, k, s)
  <1>1. t \in Tables
    BY DEF Linked
  <1>2. /\ t.ok \in BOOLEAN /\ t.impls \in Seq(Facets) /\ t.at \in [Facets -> Nat]
        /\ t.list \in [Facets -> Seq(Selectors)]
        /\ t.route \in [Selectors -> Facets \union {NoFacet}]
        /\ t.pos \in [Selectors -> Nat]
    BY <1>1 DEF Tables
  <1>3. NoFacet \notin Facets
    BY UpgradeAssumption
  <1>4. q \in Seq(Selectors) /\ k \in 1 .. Len(q) /\ q[k] = s
    BY <1>2, <1>3 DEF Linked, RoutesLinked
  <1>5. \A i \in 1 .. Len(q) : t.route[q[i]] = f /\ t.pos[q[i]] = i - 1
    BY DEF Linked, ListsLinked
  <1>6. /\ p \in Seq(Selectors) /\ new \in [Selectors -> Nat]
        /\ \A i \in 1 .. Len(p) :
               new[p[i]] = i - 1 /\ p[i] # s /\ \E j \in 1 .. Len(q) : p[i] = q[j]
        /\ \A i \in 1 .. Len(q) : q[i] # s =>
               new[q[i]] + 1 \in 1 .. Len(p) /\ p[new[q[i]] + 1] = q[i]
        /\ \A x \in Selectors : (\A i \in 1 .. Len(q) : q[i] # x) => new[x] = t.pos[x]
    <2>1. Positions(q, t.pos)
      BY <1>5, Zenon DEF Positions
    <2>2. t.pos \in [Selectors -> Nat]
      BY <1>2, Zenon
    <2>3. Without(Selectors, q, t.pos, q[k], p, Moved(t.pos, q, k, q[k]))
      BY <1>4, <2>1, <2>2, SwapAndPopLinks, Zenon
    <2>4. Without(Selectors, q, t.pos, s, p, new)
      BY <1>4, <2>3, Zenon
    <2>. HIDE DEF q, p, new
    <2>. QED
      BY <2>4, Zenon DEF Without
  <1>7. /\ u.ok = t.ok /\ u.impls = t.impls /\ u.at = t.at
        /\ u.list = [t.list EXCEPT ![f] = p]
        /\ u.route = [t.route EXCEPT ![s] = NoFacet]
        /\ u.pos = new
    BY <1>1 DEF Unrouted, Tables, Popped, Moved
  <1>8. u \in Tables
    BY <1>1, <1>4, <1>6 DEF Unrouted, Tables, Popped, Moved
  <1>. HIDE DEF u, p, new
  <1>9. /\ u.list[f] = p
        /\ \A g \in Facets \ {f} : u.list[g] = t.list[g]
        /\ u.route[s] = NoFacet
        /\ \A x \in Selectors \ {s} : u.route[x] = t.route[x]
    BY <1>2, <1>7
  <1>10. ASSUME NEW x \in Selectors, t.route[x] # f PROVE u.pos[x] = t.pos[x]
    <2>1. \A i \in 1 .. Len(q) : q[i] # x
      BY <1>5, <1>10, Zenon
    <2>. QED
      BY <1>6, <1>7, <2>1, Zenon
  <1>. HIDE DEF q, k
  <1>11. RoutesLinked(u)
    <2>. SUFFICES ASSUME NEW x \in Selectors, u.route[x] # NoFacet
                  PROVE  /\ u.pos[x] + 1 \in 1 .. Len(u.list[u.route[x]])
                         /\ u.list[u.route[x]][u.pos[x] + 1] = x
      BY DEF RoutesLinked
    <2>1. x # s /\ u.route[x] = t.route[x] /\ t.route[x] \in Facets
      BY <1>2, <1>9
    <2>2. /\ t.pos[x] + 1 \in 1 .. Len(t.list[t.route[x]])
          /\ t.list[t.route[x]][t.pos[x] + 1] = x
      BY <2>1 DEF Linked, RoutesLinked
    <2>3. CASE t.route[x] = f
      <3>1. PICK i \in 1 .. Len(q) : q[i] = x
        BY <2>2, <2>3 DEF q
      <3>2. new[x] + 1 \in 1 .. Len(p) /\ p[new[x] + 1] = x
        BY <1>6, <2>1, <3>1, Zenon
      <3>. QED
        BY <1>7, <1>9, <2>1, <2>3, <3>2
    <2>4. CASE t.route[x] # f
      BY <1>9, <1>10, <2>1, <2>2, <2>4
    <2>. QED
      BY <2>3, <2>4
  <1>12. ListsLinked(u)
    <2>. SUFFICES ASSUME NEW g \in Facets, NEW i \in 1 .. Len(u.list[g])
                  PROVE  u.route[u.list[g][i]] = g /\ u.pos[u.list[g][i]] = i - 1
      BY DEF ListsLinked
    <2>1. CASE g # f
      <3>1. u.list[g] = t.list[g] /\ t.list[g] \in Seq(Selectors)
        BY <1>2, <1>9, <2>1
      <3>2. /\ t.list[g][i] \in Selectors
            /\ t.route[t.list[g][i]] = g /\ t.pos[t.list[g][i]] = i - 1
        BY <3>1 DEF Linked, ListsLinked
      <3>3. t.list[g][i] # s /\ t.route[t.list[g][i]] # f
        BY <2>1, <3>2
      <3>4. u.pos[t.list[g][i]] = t.pos[t.list[g][i]]
        BY <1>10, <3>2, <3>3, Zenon
      <3>. QED
        BY <1>9, <3>1, <3>2, <3>3, <3>4
    <2>2. CASE g = f
      <3>1. u.list[g] = p /\ i \in 1 .. Len(p)
        BY <1>9, <2>2
      <3>2. new[p[i]] = i - 1 /\ p[i] # s /\ p[i] \in Selectors
        BY <1>6, <3>1
      <3>3. PICK j \in 1 .. Len(q) : p[i] = q[j]
        BY <1>6, <3>1, Zenon
      <3>4. t.route[p[i]] = f
        BY <1>5, <3>3, Zenon
      <3>5. u.route[p[i]] = f
        BY <1>9, <3>2, <3>4
      <3>. QED
        BY <1>7, <2>2, <3>1, <3>2, <3>5, Zenon
    <2>. QED
      BY <2>1, <2>2
  <1>13. \A g \in Facets : IsListed(u, F \union {f}, g) <=> IsListed(t, F, g)
    <2>1. q # << >>
      BY <1>4
    <2>. QED
      BY <1>9, <2>1 DEF IsListed, q
  <1>14. FacetsLinked(u, F \union {f})
    BY <1>7, <1>13 DEF Linked, FacetsLinked
  <1>15. ImplsLinked(u, F \union {f})
    <2>1. \A i \in 1 .. Len(t.impls) : t.impls[i] \in Facets
      BY <1>2
    <2>. QED
      BY <1>7, <1>13, <2>1 DEF Linked, ImplsLinked
  <1>. QED
    BY <1>7, <1>8, <1>9, <1>11, <1>12, <1>14, <1>15 DEF Linked, u

\* The facet that has no function left leaves the list of facets.
LEMMA RemoveFacetLinks ==
    ASSUME NEW u, NEW F, NEW f \in Facets, Linked(u, F \union {f}), u.list[f] = << >>, f \notin F
    PROVE  /\ Linked(RemoveFacet(u, f), F)
           /\ RemoveFacet(u, f).ok = u.ok
           /\ RemoveFacet(u, f).route = u.route
           /\ RemoveFacet(u, f).list = u.list
  <1>. DEFINE v == RemoveFacet(u, f)
              q == u.impls
              k == u.at[f] + 1
              p == Popped(q, k)
              new == Moved(u.at, q, k, f)
  <1>1. u \in Tables
    BY DEF Linked
  <1>2. /\ u.impls \in Seq(Facets) /\ u.at \in [Facets -> Nat]
    BY <1>1 DEF Tables
  <1>3. k \in 1 .. Len(q) /\ q[k] = f
    BY DEF Linked, FacetsLinked, IsListed
  <1>4. \A i \in 1 .. Len(q) : u.at[q[i]] = i - 1 /\ IsListed(u, F \union {f}, q[i])
    BY DEF Linked, ImplsLinked
  <1>5. /\ p \in Seq(Facets) /\ new \in [Facets -> Nat]
        /\ \A i \in 1 .. Len(p) :
               new[p[i]] = i - 1 /\ p[i] # f /\ \E j \in 1 .. Len(q) : p[i] = q[j]
        /\ \A i \in 1 .. Len(q) : q[i] # f =>
               new[q[i]] + 1 \in 1 .. Len(p) /\ p[new[q[i]] + 1] = q[i]
    <2>1. Positions(q, u.at)
      BY <1>4, Zenon DEF Positions
    <2>2. u.at \in [Facets -> Nat] /\ q \in Seq(Facets)
      BY <1>2, Zenon
    <2>3. Without(Facets, q, u.at, q[k], p, Moved(u.at, q, k, q[k]))
      BY <1>3, <2>1, <2>2, SwapAndPopLinks, Zenon
    <2>4. Without(Facets, q, u.at, f, p, new)
      BY <1>3, <2>3, Zenon
    <2>. HIDE DEF q, p, new
    <2>. QED
      BY <2>4, Zenon DEF Without
  <1>6. /\ v.ok = u.ok /\ v.list = u.list /\ v.route = u.route /\ v.pos = u.pos
        /\ v.impls = p
        /\ v.at = new
    BY <1>1 DEF RemoveFacet, Tables, Popped, Moved
  <1>7. v \in Tables
    BY <1>1, <1>5 DEF RemoveFacet, Tables, Popped, Moved
  <1>. HIDE DEF v, p, new
  <1>8. RoutesLinked(v) /\ ListsLinked(v)
    BY <1>6 DEF Linked, RoutesLinked, ListsLinked
  <1>9. FacetsLinked(v, F)
    <2>. SUFFICES ASSUME NEW g \in Facets, IsListed(v, F, g)
                  PROVE  v.at[g] + 1 \in 1 .. Len(v.impls) /\ v.impls[v.at[g] + 1] = g
      BY DEF FacetsLinked
    <2>1. g # f /\ IsListed(u, F \union {f}, g)
      BY <1>6 DEF IsListed
    <2>2. PICK i \in 1 .. Len(q) : q[i] = g
      BY <2>1 DEF Linked, FacetsLinked
    <2>3. new[g] + 1 \in 1 .. Len(p) /\ p[new[g] + 1] = g
      BY <1>5, <2>1, <2>2, Zenon
    <2>. QED
      BY <1>6, <2>3, Zenon
  <1>10. ImplsLinked(v, F)
    <2>. SUFFICES ASSUME NEW i \in 1 .. Len(p)
                  PROVE  v.at[v.impls[i]] = i - 1 /\ IsListed(v, F, v.impls[i])
      BY <1>6, Zenon DEF ImplsLinked
    <2>1. new[p[i]] = i - 1 /\ p[i] # f
      BY <1>5, Zenon
    <2>2. PICK j \in 1 .. Len(q) : p[i] = q[j]
      BY <1>5, Zenon
    <2>3. IsListed(u, F \union {f}, p[i])
      BY <1>4, <2>2, Zenon
    <2>. QED
      BY <1>6, <2>1, <2>3, Zenon DEF IsListed
  <1>. QED
    BY <1>6, <1>7, <1>8, <1>9, <1>10 DEF Linked, v

\* Removing a function of a facet outside F.
LEMMA RemoveFunctionLinks ==
    ASSUME NEW t, NEW F, Linked(t, F), NEW s \in Selectors, t.route[s] \notin F, t.ok,
           RemoveFunction(t, s).ok
    PROVE  /\ Linked(RemoveFunction(t, s), F)
           /\ t.route[s] # NoFacet
           /\ RemoveFunction(t, s).route[s] = NoFacet
           /\ \A x \in Selectors \ {s} : RemoveFunction(t, s).route[x] = t.route[x]
  <1>. DEFINE f == t.route[s]
              u == Unrouted(t, s)
  <1>1. t \in Tables
    BY DEF Linked
  <1>2. t.route \in [Selectors -> Facets \union {NoFacet}]
    BY <1>1 DEF Tables
  <1>3. RemoveFunction(t, s) = IF f = NoFacet THEN Revert(t)
                               ELSE IF u.list[f] = << >> THEN RemoveFacet(u, f) ELSE u
    BY Zenon DEF RemoveFunction, Unrouted
  <1>4. f \in Facets
    <2>1. f # NoFacet
      <3>1. Revert(t).ok = FALSE
        BY <1>1 DEF Revert, Tables
      <3>. QED
        BY <1>3, <3>1, Zenon
    <2>. QED
      BY <1>2, <2>1
  <1>5. Linked(u, F \union {f}) /\ u.route = [t.route EXCEPT ![s] = NoFacet]
    BY <1>4, UnroutedLinks, Zenon
  <1>6. u.route[s] = NoFacet /\ \A x \in Selectors \ {s} : u.route[x] = t.route[x]
    BY <1>2, <1>5
  <1>7. NoFacet \notin Facets
    BY UpgradeAssumption
  <1>8. f # NoFacet
    BY <1>4, <1>7, Zenon
  <1>. HIDE DEF u, f
  <1>9. CASE u.list[f] = << >>
    <2>1. RemoveFunction(t, s) = RemoveFacet(u, f)
      BY <1>3, <1>8, <1>9, Zenon
    <2>2. f \notin F
      BY DEF f
    <2>3. Linked(RemoveFacet(u, f), F) /\ RemoveFacet(u, f).route = u.route
      BY <1>4, <1>5, <1>9, <2>2, RemoveFacetLinks
    <2>. QED
      BY <1>6, <1>8, <2>1, <2>3 DEF f
  <1>10. CASE u.list[f] # << >>
    <2>1. RemoveFunction(t, s) = u
      BY <1>3, <1>8, <1>10, Zenon
    <2>2. \A g : IsListed(u, F, g) <=> IsListed(u, F \union {f}, g)
      BY <1>10 DEF IsListed
    <2>3. FacetsLinked(u, F) /\ ImplsLinked(u, F)
      BY <1>5, <2>2, Zenon DEF Linked, FacetsLinked, ImplsLinked
    <2>4. Linked(u, F)
      BY <1>5, <2>3, Zenon DEF Linked
    <2>. QED
      BY <1>6, <1>8, <2>1, <2>4 DEF f
  <1>. QED
    BY <1>9, <1>10

-----------------------------------------------------------------------------
\* One function of a cut.

\* A reverted table is whatever it was; the others are linked.
Sound(F) == {t \in Tables : t.ok => Linked(t, F)}

\* A call that reverts leaves a table that is not ok.
LEMMA Reverted ==
    ASSUME NEW t \in Tables
    PROVE  Revert(t) \in Tables /\ Revert(t).ok = FALSE
  BY DEF Revert, Tables

\* The facet that a cut has listed before its functions are counted.
Marked(action, f) == IF action = "remove" THEN {} ELSE {f}

\* Each way to cut one function keeps the table linked or reverts.
LEMMA RemoveFunctionSound ==
    ASSUME NEW t, NEW F, Linked(t, F), NEW s \in Selectors, t.route[s] \notin F, t.ok
    PROVE  RemoveFunction(t, s) \in Sound(F)
  <1>1. t \in Tables
    BY DEF Linked
  <1>2. CASE RemoveFunction(t, s).ok
    BY <1>2, RemoveFunctionLinks DEF Sound, Linked
  <1>3. CASE ~ RemoveFunction(t, s).ok
    <2>1. CASE t.route[s] = NoFacet
      <3>1. RemoveFunction(t, s) = Revert(t)
        BY <2>1, Zenon DEF RemoveFunction
      <3>. QED
        BY <1>1, <3>1, Reverted DEF Sound
    <2>2. CASE t.route[s] # NoFacet
      <3>. DEFINE f == t.route[s]
                  u == Unrouted(t, s)
      <3>1. t.route \in [Selectors -> Facets \union {NoFacet}]
        BY <1>1 DEF Tables
      <3>2. f \in Facets
        BY <2>2, <3>1
      <3>3. RemoveFunction(t, s) = IF u.list[f] = << >> THEN RemoveFacet(u, f) ELSE u
        BY <2>2, Zenon DEF RemoveFunction, Unrouted
      <3>4. Linked(u, F \union {f}) /\ u.ok
        BY <3>2, UnroutedLinks
      <3>. HIDE DEF u, f
      <3>5. f \notin F
        BY DEF f
      <3>6. u.list[f] = << >> => RemoveFacet(u, f).ok
        BY <3>2, <3>4, <3>5, RemoveFacetLinks
      <3>. QED
        BY <1>3, <3>3, <3>4, <3>6, Zenon
    <2>. QED
      BY <2>1, <2>2
  <1>. QED
    BY <1>2, <1>3

\* A function is added only if none serves it.
LEMMA AddOneSound ==
    ASSUME NEW t, NEW f \in Facets, Linked(t, {f}), NEW s \in Selectors, t.ok
    PROVE  /\ AddOne(t, s, f) \in Sound({f})
           /\ AddOne(t, s, f).ok => AddOne(t, s, f).list[f] # << >>
  <1>1. t \in Tables
    BY DEF Linked
  <1>2. CASE t.route[s] # NoFacet
    BY <1>1, <1>2, Reverted DEF AddOne, Sound
  <1>3. CASE t.route[s] = NoFacet
    BY <1>3, AddFunctionLinks DEF AddOne, Sound, Linked
  <1>. QED
    BY <1>2, <1>3

\* A function is replaced only by another facet.
LEMMA ReplaceOneSound ==
    ASSUME NEW t, NEW f \in Facets, Linked(t, {f}), NEW s \in Selectors, t.ok
    PROVE  /\ ReplaceOne(t, s, f) \in Sound({f})
           /\ ReplaceOne(t, s, f).ok => ReplaceOne(t, s, f).list[f] # << >>
  <1>. DEFINE u == RemoveFunction(t, s)
  <1>1. t \in Tables
    BY DEF Linked
  <1>2. ReplaceOne(t, s, f) = IF t.route[s] = f \/ ~ u.ok THEN Revert(t) ELSE AddFunction(u, s, f)
    BY Zenon DEF ReplaceOne
  <1>3. CASE t.route[s] = f \/ ~ u.ok
    BY <1>1, <1>2, <1>3, Reverted DEF Sound
  <1>4. CASE ~ (t.route[s] = f \/ ~ u.ok)
    <2>1. Linked(u, {f}) /\ u.route[s] = NoFacet
      BY <1>4, RemoveFunctionLinks
    <2>2. ReplaceOne(t, s, f) = AddFunction(u, s, f)
      BY <1>2, <1>4, Zenon
    <2>. HIDE DEF u
    <2>3. Linked(AddFunction(u, s, f), {f}) /\ AddFunction(u, s, f).list[f] # << >>
      BY <2>1, AddFunctionLinks
    <2>. QED
      BY <2>2, <2>3 DEF Sound, Linked
  <1>. QED
    BY <1>3, <1>4

Actions == {"add", "replace", "remove"}

\* One iteration of the loop over the functions of a cut.
CutStep(t, action, s, f) == IF t.ok THEN CutOne(t, action, s, f) ELSE t

\* One iteration of a cut.
LEMMA CutStepSound ==
    ASSUME NEW action \in Actions, NEW f, action = "remove" \/ f \in Facets,
           NEW s \in Selectors, NEW t \in Sound(Marked(action, f))
    PROVE  /\ CutStep(t, action, s, f) \in Sound(Marked(action, f))
           /\ action # "remove" /\ t.ok /\ CutStep(t, action, s, f).ok =>
                  CutStep(t, action, s, f).list[f] # << >>
  <1>1. CASE ~ t.ok
    BY <1>1 DEF CutStep
  <1>2. CASE t.ok
    <2>1. Linked(t, Marked(action, f)) /\ CutStep(t, action, s, f) = CutOne(t, action, s, f)
      BY <1>2 DEF Sound, CutStep
    <2>2. CASE action = "remove"
      BY <1>2, <2>1, <2>2, RemoveFunctionSound DEF CutOne, Marked
    <2>3. CASE action = "add"
      BY <1>2, <2>1, <2>3, AddOneSound DEF CutOne, Marked
    <2>4. CASE action = "replace"
      BY <1>2, <2>1, <2>4, ReplaceOneSound DEF CutOne, Marked
    <2>. QED
      BY <2>2, <2>3, <2>4 DEF Actions
  <1>. QED
    BY <1>1, <1>2

-----------------------------------------------------------------------------
\* All the functions of a cut.

\* The tables of a cut, from t to what CutAll returns.
IsCutRun(h, t, action, selectors, f) ==
    /\ h[0] = t
    /\ \A n \in 1 .. Len(selectors) : h[n] = CutStep(h[n - 1], action, selectors[n], f)
    /\ h[Len(selectors)] = CutAll(t, action, selectors, f)

CutRun(h, t, action, selectors, f) ==
    [n \in 0 .. Len(selectors) |->
        IF n = 0 THEN t
        ELSE LET before == h[n - 1]
             IN  IF before.ok THEN CutOne(before, action, selectors[n], f) ELSE before]

\* The loop of a cut exists as a recursive function, and all its tables are sound.
LEMMA CutAllRuns ==
    ASSUME NEW action \in Actions, NEW f, action = "remove" \/ f \in Facets,
           NEW selectors \in Seq(Selectors), NEW t \in Sound(Marked(action, f))
    PROVE  \E h : /\ IsCutRun(h, t, action, selectors, f)
                  /\ \A n \in 0 .. Len(selectors) : h[n] \in Sound(Marked(action, f))
  <1>. DEFINE N == Len(selectors)
              D == Sound(Marked(action, f))
              More(u, n) == CutStep(u, action, selectors[n], f)
              step == [n \in 1 .. N |-> [u \in D |-> More(u, n)]]
              run == CHOOSE h : h = CutRun(h, t, action, selectors, f)
              Ds == [n \in 0 .. N |-> D]
  <1>1. N \in Nat
    OBVIOUS
  <1>2. \A n \in 1 .. N : \A u \in D : More(u, n) \in D
    <2>1. \A n \in 1 .. N : selectors[n] \in Selectors
      OBVIOUS
    <2>. QED
      BY <2>1, CutStepSound
  <1>3. \A h : /\ CutRun(h, t, action, selectors, f)[0] = t
               /\ \A n \in 1 .. N : CutRun(h, t, action, selectors, f)[n] = More(h[n - 1], n)
               /\ CutRun(h, t, action, selectors, f) =
                      [n \in 0 .. N |-> CutRun(h, t, action, selectors, f)[n]]
    BY <1>1 DEF CutRun, CutStep
  <1>4. CutAll(t, action, selectors, f) = run[N]
    BY DEF CutAll, CutRun
  <1>5. t \in D
    OBVIOUS
  <1>. HIDE DEF D, More, N, run
  <1>6. step \in [1 .. N -> [D -> D]] /\ \A n \in 1 .. N : \A u \in D : step[n][u] = More(u, n)
    BY <1>2
  <1>. HIDE DEF step
  <1>7. step \in [1 .. N -> [D -> D]]
    BY <1>6
  <1>8. \E g : IsRun(g, D, N, t, step)
    BY <1>1, <1>5, <1>7, Recursion
  <1>9. PICK g : IsRun(g, D, N, t, step)
    BY <1>8
  <1>10. g = CutRun(g, t, action, selectors, f)
    <2>. DEFINE body == CutRun(g, t, action, selectors, f)
    <2>1. body = [n \in 0 .. N |-> body[n]] /\ body[0] = t
      BY <1>3
    <2>2. \A n \in 1 .. N : g[n - 1] \in D => body[n] = step[n][g[n - 1]]
      BY <1>3, <1>6
    <2>. HIDE DEF body
    <2>3. IsBody(body, g, D, N, t, step)
      BY <2>1, <2>2, Zenon DEF IsBody
    <2>4. g = body
      BY <1>1, <1>9, <2>3, RunIsBody, Zenon
    <2>. QED
      BY <2>4 DEF body
  <1>11. run = CutRun(run, t, action, selectors, f)
    BY <1>10 DEF run
  <1>12. run[0] = t /\ \A n \in 1 .. N : run[n] = More(run[n - 1], n)
    BY <1>3, <1>11
  <1>13. run[0] \in Ds[0] /\ \A n \in 1 .. N : run[n - 1] \in Ds[n - 1] => run[n] \in Ds[n]
    BY <1>1, <1>2, <1>5, <1>12
  <1>14. \A n \in 0 .. N : run[n] \in Ds[n]
    BY <1>1, <1>13, Iteration
  <1>15. \A n \in 0 .. N : run[n] \in D
    BY <1>14
  <1>16. IsCutRun(run, t, action, selectors, f)
    BY <1>4, <1>12 DEF IsCutRun, N, More
  <1>. QED
    BY <1>15, <1>16 DEF D, N

\* A cut of at least one function leaves its facet with one.
LEMMA CutAllSound ==
    ASSUME NEW action \in Actions, NEW f, action = "remove" \/ f \in Facets,
           NEW selectors \in Seq(Selectors), selectors # << >>, NEW t \in Sound(Marked(action, f))
    PROVE  /\ CutAll(t, action, selectors, f) \in Sound(Marked(action, f))
           /\ action # "remove" /\ CutAll(t, action, selectors, f).ok =>
                  CutAll(t, action, selectors, f).list[f] # << >>
  <1>. DEFINE N == Len(selectors)
  <1>1. PICK h : /\ IsCutRun(h, t, action, selectors, f)
                 /\ \A n \in 0 .. N : h[n] \in Sound(Marked(action, f))
    BY CutAllRuns
  <1>2. N \in 0 .. N /\ N \in 1 .. N /\ N - 1 \in 0 .. N /\ selectors[N] \in Selectors
    OBVIOUS
  <1>3. h[N] = CutAll(t, action, selectors, f) /\ h[N] = CutStep(h[N - 1], action, selectors[N], f)
    BY <1>1, <1>2 DEF IsCutRun
  <1>4. h[N - 1] \in Sound(Marked(action, f)) /\ h[N] \in Sound(Marked(action, f))
    BY <1>1, <1>2
  <1>. HIDE DEF N
  <1>5. h[N].ok => h[N - 1].ok
    BY <1>3 DEF CutStep
  <1>6. action # "remove" /\ h[N].ok => h[N].list[f] # << >>
    BY <1>2, <1>3, <1>4, <1>5, CutStepSound
  <1>. QED
    BY <1>3, <1>4, <1>6

-----------------------------------------------------------------------------
\* A cut, and an update.

Cuts == [implAddress: Facets \union {NoFacet}, action: Actions, selectors: Seq(Selectors)]

\* A facet that serves a function need not be named any more.
LEMMA MarkedServes ==
    ASSUME NEW t, NEW f, Linked(t, {f}), t.list[f] # << >>
    PROVE  Linked(t, {})
  <1>1. \A g : IsListed(t, {}, g) <=> IsListed(t, {f}, g)
    BY DEF IsListed
  <1>. QED
    BY <1>1, Zenon DEF Linked, FacetsLinked, ImplsLinked

\* A whole cut keeps the table linked or reverts.
LEMMA ApplySound ==
    ASSUME NEW t \in Sound({}), t.ok, NEW cut \in Cuts
    PROVE  Apply(t, cut) \in Sound({})
  <1>. DEFINE f == cut.implAddress
              q == cut.selectors
  <1>1. t \in Tables /\ Linked(t, {})
    BY DEF Sound
  <1>2. f \in Facets \union {NoFacet} /\ q \in Seq(Selectors) /\ cut.action \in Actions
    BY DEF Cuts
  <1>3. Revert(t) \in Sound({})
    BY <1>1, Reverted DEF Sound
  <1>4. CASE cut.action = "remove"
    <2>1. Apply(t, cut) = IF q = << >> \/ f # NoFacet THEN Revert(t) ELSE CutAll(t, "remove", q, f)
      BY <1>4 DEF Apply, RemoveFunctions
    <2>2. q # << >> => CutAll(t, "remove", q, f) \in Sound({})
      <3>1. t \in Sound(Marked("remove", f)) /\ "remove" \in Actions
        BY DEF Marked, Actions
      <3>. HIDE DEF q, f
      <3>. QED
        BY <1>2, <3>1, CutAllSound DEF Marked
    <2>. QED
      BY <1>3, <2>1, <2>2, Zenon
  <1>5. ASSUME NEW action \in {"add", "replace"}, f \in Facets, q # << >>
        PROVE  CutAll(AddFacetIfNew(t, f), action, q, f) \in Sound({})
    <2>. DEFINE u == AddFacetIfNew(t, f)
                v == CutAll(u, action, q, f)
    <2>. HIDE DEF f, q
    <2>1. Linked(u, {f}) /\ u.ok
      BY <1>1, <1>5, AddFacetIfNewLinks
    <2>2. u \in Sound(Marked(action, f)) /\ action \in Actions /\ action # "remove"
      BY <1>5, <2>1 DEF Sound, Linked, Marked, Actions
    <2>3. Marked(action, f) = {f}
      BY <2>2 DEF Marked
    <2>. HIDE DEF u
    <2>4. v \in Sound({f}) /\ (v.ok => v.list[f] # << >>)
      BY <1>2, <1>5, <2>2, <2>3, CutAllSound
    <2>. HIDE DEF v
    <2>5. v \in Tables /\ (v.ok => Linked(v, {}))
      BY <2>4, MarkedServes DEF Sound
    <2>. QED
      BY <2>5 DEF Sound, v, u
  <1>6. CASE cut.action = "add"
    <2>1. Apply(t, cut) = IF q = << >> \/ f = NoFacet THEN Revert(t)
                          ELSE CutAll(AddFacetIfNew(t, f), "add", q, f)
      BY <1>6 DEF Apply, AddFunctions
    <2>. HIDE DEF q, f
    <2>2. q # << >> /\ f # NoFacet => CutAll(AddFacetIfNew(t, f), "add", q, f) \in Sound({})
      BY <1>2, <1>5
    <2>. QED
      BY <1>3, <2>1, <2>2, Zenon
  <1>7. CASE cut.action = "replace"
    <2>1. Apply(t, cut) = IF q = << >> \/ f = NoFacet THEN Revert(t)
                          ELSE CutAll(AddFacetIfNew(t, f), "replace", q, f)
      BY <1>7 DEF Apply, ReplaceFunctions
    <2>. HIDE DEF q, f
    <2>2. q # << >> /\ f # NoFacet => CutAll(AddFacetIfNew(t, f), "replace", q, f) \in Sound({})
      BY <1>2, <1>5
    <2>. QED
      BY <1>3, <2>1, <2>2, Zenon
  <1>. QED
    BY <1>2, <1>4, <1>6, <1>7 DEF Actions

\* The tables of a transaction, from t to what UpdateImplementation returns.
UpdateRun(h, t, cuts) ==
    [n \in 0 .. Len(cuts) |->
        IF n = 0 THEN t
        ELSE LET before == h[n - 1] IN IF before.ok THEN Apply(before, cuts[n]) ELSE before]

\* One iteration of the loop over the cuts.
UpdateStep(t, cut) == IF t.ok THEN Apply(t, cut) ELSE t

\* One cut of an update.
LEMMA UpdateStepSound ==
    ASSUME NEW t \in Sound({}), NEW cut \in Cuts
    PROVE  UpdateStep(t, cut) \in Sound({})
  BY ApplySound DEF UpdateStep

\* The loop of an update exists as a recursive function.
LEMMA UpdateRuns ==
    ASSUME NEW t \in Sound({}), NEW cuts \in Seq(Cuts)
    PROVE  \E h : /\ h[0] = t
                  /\ \A n \in 1 .. Len(cuts) : h[n] = UpdateStep(h[n - 1], cuts[n])
                  /\ h[Len(cuts)] = UpdateImplementation(t, cuts)
                  /\ h[Len(cuts)] \in Sound({})
  <1>. DEFINE N == Len(cuts)
              D == Sound({})
              More(u, n) == UpdateStep(u, cuts[n])
              step == [n \in 1 .. N |-> [u \in D |-> More(u, n)]]
              run == CHOOSE h : h = UpdateRun(h, t, cuts)
              Ds == [n \in 0 .. N |-> D]
  <1>1. N \in Nat
    OBVIOUS
  <1>2. \A n \in 1 .. N : \A u \in D : More(u, n) \in D
    <2>1. \A n \in 1 .. N : cuts[n] \in Cuts
      OBVIOUS
    <2>. QED
      BY <2>1, UpdateStepSound
  <1>3. \A h : /\ UpdateRun(h, t, cuts)[0] = t
               /\ \A n \in 1 .. N : UpdateRun(h, t, cuts)[n] = More(h[n - 1], n)
               /\ UpdateRun(h, t, cuts) = [n \in 0 .. N |-> UpdateRun(h, t, cuts)[n]]
    BY <1>1 DEF UpdateRun, UpdateStep
  <1>4. UpdateImplementation(t, cuts) = run[N]
    BY DEF UpdateImplementation, UpdateRun
  <1>5. t \in D
    OBVIOUS
  <1>. HIDE DEF D, More, N, run
  <1>6. step \in [1 .. N -> [D -> D]] /\ \A n \in 1 .. N : \A u \in D : step[n][u] = More(u, n)
    BY <1>2
  <1>. HIDE DEF step
  <1>7. step \in [1 .. N -> [D -> D]]
    BY <1>6
  <1>8. \E g : IsRun(g, D, N, t, step)
    BY <1>1, <1>5, <1>7, Recursion
  <1>9. PICK g : IsRun(g, D, N, t, step)
    BY <1>8
  <1>10. g = UpdateRun(g, t, cuts)
    <2>. DEFINE body == UpdateRun(g, t, cuts)
    <2>1. body = [n \in 0 .. N |-> body[n]] /\ body[0] = t
      BY <1>3
    <2>2. \A n \in 1 .. N : g[n - 1] \in D => body[n] = step[n][g[n - 1]]
      BY <1>3, <1>6
    <2>. HIDE DEF body
    <2>3. IsBody(body, g, D, N, t, step)
      BY <2>1, <2>2, Zenon DEF IsBody
    <2>4. g = body
      BY <1>1, <1>9, <2>3, RunIsBody, Zenon
    <2>. QED
      BY <2>4 DEF body
  <1>11. run = UpdateRun(run, t, cuts)
    BY <1>10 DEF run
  <1>12. run[0] = t /\ \A n \in 1 .. N : run[n] = More(run[n - 1], n)
    BY <1>3, <1>11
  <1>13. run[0] \in Ds[0] /\ \A n \in 1 .. N : run[n - 1] \in Ds[n - 1] => run[n] \in Ds[n]
    BY <1>1, <1>2, <1>5, <1>12
  <1>14. \A n \in 0 .. N : run[n] \in Ds[n]
    BY <1>1, <1>13, Iteration
  <1>15. run[N] \in D
    BY <1>1, <1>14
  <1>. QED
    BY <1>4, <1>12, <1>15 DEF D, N, More

\* No update leaves a table that is not linked.
LEMMA UpdateSound ==
    ASSUME NEW t \in Sound({}), NEW cuts \in Seq(Cuts)
    PROVE  UpdateImplementation(t, cuts) \in Sound({})
  BY UpdateRuns

\* An update of one cut.
LEMMA UpdateByOneCut ==
    ASSUME NEW t \in Sound({}), NEW cut \in Cuts
    PROVE  UpdateImplementation(t, << cut >>) = UpdateStep(t, cut)
  <1>. DEFINE cuts == << cut >>
  <1>1. cuts \in Seq(Cuts) /\ Len(cuts) = 1 /\ cuts[1] = cut
    OBVIOUS
  <1>. HIDE DEF cuts
  <1>2. PICK h : /\ h[0] = t
                 /\ \A n \in 1 .. Len(cuts) : h[n] = UpdateStep(h[n - 1], cuts[n])
                 /\ h[Len(cuts)] = UpdateImplementation(t, cuts)
                 /\ h[Len(cuts)] \in Sound({})
    BY <1>1, UpdateRuns, Zenon
  <1>3. 1 \in 1 .. Len(cuts) /\ 1 - 1 = 0
    BY <1>1
  <1>4. UpdateImplementation(t, cuts) = UpdateStep(t, cut)
    BY <1>1, <1>2, <1>3
  <1>. QED
    BY <1>4 DEF cuts

-----------------------------------------------------------------------------
\* What a cut and an update do to the routes.

\* What a cut requires of the facet g that serves a function, and who serves it afterwards.
Accepts(g, action, f) ==
    /\ action = "add" => g = NoFacet
    /\ action = "replace" => g # NoFacet /\ g # f
    /\ action = "remove" => g # NoFacet
Result(action, f) == IF action = "remove" THEN NoFacet ELSE f

\* The functions in S were cut, and no other.
Effect(t, u, action, f, S) ==
    \A s \in Selectors : IF s \in S THEN Accepts(t.route[s], action, f) /\ u.route[s] = Result(action, f)
                         ELSE u.route[s] = t.route[s]

\* The effect of cutting one function, from its route and those of the others.
LEMMA OneEffect ==
    ASSUME NEW t, NEW u, NEW action, NEW f, NEW s \in Selectors,
           Accepts(t.route[s], action, f), u.route[s] = Result(action, f),
           \A x \in Selectors \ {s} : u.route[x] = t.route[x]
    PROVE  Effect(t, u, action, f, {s})
  BY DEF Effect

\* What an iteration of a cut does to the routes.
LEMMA CutStepEffect ==
    ASSUME NEW action \in Actions, NEW f, action = "remove" \/ f \in Facets,
           NEW s \in Selectors, NEW t \in Sound(Marked(action, f)), t.ok,
           CutStep(t, action, s, f).ok
    PROVE  Effect(t, CutStep(t, action, s, f), action, f, {s})
  <1>. DEFINE u == CutStep(t, action, s, f)
  <1>. SUFFICES Effect(t, u, action, f, {s})
    OBVIOUS
  <1>1. Linked(t, Marked(action, f)) /\ u = CutOne(t, action, s, f) /\ t \in Tables
    BY DEF Sound, CutStep
  <1>2. Revert(t).ok = FALSE
    BY <1>1, Reverted
  <1>3. CASE action = "remove"
    <2>1. u = RemoveFunction(t, s) /\ Linked(t, {})
      BY <1>1, <1>3 DEF CutOne, Marked
    <2>2. /\ t.route[s] # NoFacet /\ u.route[s] = NoFacet
          /\ \A x \in Selectors \ {s} : u.route[x] = t.route[x]
      BY <2>1, RemoveFunctionLinks
    <2>. HIDE DEF u
    <2>. QED
      <3>1. Accepts(t.route[s], action, f) /\ u.route[s] = Result(action, f)
        BY <1>3, <2>2 DEF Accepts, Result
      <3>. QED
        BY <2>2, <3>1, OneEffect
  <1>4. CASE action = "add"
    <2>1. u = AddOne(t, s, f) /\ Linked(t, {f})
      BY <1>1, <1>4 DEF CutOne, Marked
    <2>2. t.route[s] = NoFacet /\ u = AddFunction(t, s, f)
      BY <1>2, <2>1 DEF AddOne
    <2>3. u.route[s] = f /\ \A x \in Selectors \ {s} : u.route[x] = t.route[x]
      BY <1>4, <2>1, <2>2, AddFunctionLinks
    <2>. HIDE DEF u
    <2>. QED
      <3>1. Accepts(t.route[s], action, f) /\ u.route[s] = Result(action, f)
        BY <1>4, <2>2, <2>3 DEF Accepts, Result
      <3>. QED
        BY <2>3, <3>1, OneEffect
  <1>5. CASE action = "replace"
    <2>. DEFINE v == RemoveFunction(t, s)
    <2>1. u = ReplaceOne(t, s, f) /\ Linked(t, {f})
      BY <1>1, <1>5 DEF CutOne, Marked
    <2>2. t.route[s] # f /\ v.ok /\ u = AddFunction(v, s, f)
      BY <1>2, <2>1 DEF ReplaceOne
    <2>3. /\ Linked(v, {f}) /\ t.route[s] # NoFacet /\ v.route[s] = NoFacet
          /\ \A x \in Selectors \ {s} : v.route[x] = t.route[x]
      BY <2>1, <2>2, RemoveFunctionLinks
    <2>. HIDE DEF u, v
    <2>4. u.route[s] = f /\ \A x \in Selectors \ {s} : u.route[x] = v.route[x]
      BY <1>5, <2>2, <2>3, AddFunctionLinks
    <2>. QED
      <3>1. Accepts(t.route[s], action, f) /\ u.route[s] = Result(action, f)
        BY <1>5, <2>2, <2>3, <2>4 DEF Accepts, Result
      <3>2. \A x \in Selectors \ {s} : u.route[x] = t.route[x]
        BY <2>3, <2>4
      <3>. QED
        BY <3>1, <3>2, OneEffect
  <1>. QED
    BY <1>3, <1>4, <1>5 DEF Actions

\* What the loop of a cut does to the routes.
LEMMA CutAllEffect ==
    ASSUME NEW action \in Actions, NEW f, action = "remove" \/ f \in Facets,
           NEW selectors \in Seq(Selectors), IsInjective(selectors),
           NEW t \in Sound(Marked(action, f)), CutAll(t, action, selectors, f).ok
    PROVE  Effect(t, CutAll(t, action, selectors, f), action, f, ToSet(selectors))
  <1>. DEFINE N == Len(selectors)
              Upto(k) == {s \in Selectors : \E i \in 1 .. k : s = selectors[i]}
              D(k) == {v \in Sound(Marked(action, f)) : v.ok => Effect(t, v, action, f, Upto(k))}
              Ds == [k \in 0 .. N |-> D(k)]
  <1>1. PICK h : /\ IsCutRun(h, t, action, selectors, f)
                 /\ \A n \in 0 .. N : h[n] \in Sound(Marked(action, f))
    BY CutAllRuns
  <1>2. /\ h[0] = t /\ h[N] = CutAll(t, action, selectors, f)
        /\ \A k \in 1 .. N : h[k] = CutStep(h[k - 1], action, selectors[k], f)
    BY <1>1 DEF IsCutRun
  <1>3. /\ N \in Nat
        /\ \A k \in 1 .. N : selectors[k] \in Selectors
        /\ \A i, j \in 1 .. N : selectors[i] = selectors[j] => i = j
    BY DEF IsInjective
  <1>. HIDE DEF N
  <1>4. h[0] \in D(0)
    <2>1. Upto(0) = {}
      OBVIOUS
    <2>. QED
      BY <1>2, <2>1 DEF Effect
  <1>5. ASSUME NEW k \in 1 .. N, h[k - 1] \in D(k - 1) PROVE h[k] \in D(k)
    <2>. DEFINE v == h[k - 1]
                u == h[k]
                s == selectors[k]
    <2>1. u = CutStep(v, action, s, f) /\ u \in Sound(Marked(action, f)) /\ s \in Selectors
      BY <1>1, <1>2, <1>3
    <2>2. v \in Sound(Marked(action, f)) /\ (v.ok => Effect(t, v, action, f, Upto(k - 1)))
      BY <1>5
    <2>. HIDE DEF u, v
    <2>. SUFFICES ASSUME u.ok PROVE Effect(t, u, action, f, Upto(k))
      BY <2>1 DEF u
    <2>3. v.ok
      BY <2>1 DEF CutStep
    <2>4. Effect(v, u, action, f, {s})
      BY <2>1, <2>2, <2>3, CutStepEffect
    <2>5. \A i : i \in 1 .. k <=> i \in 1 .. k - 1 \/ i = k
      BY <1>3
    <2>6. Upto(k) = Upto(k - 1) \union {s}
      BY <1>3, <2>5
    <2>7. s \notin Upto(k - 1)
      <3>1. \A i \in 1 .. k - 1 : i \in 1 .. N /\ i # k
        BY <1>3
      <3>. QED
        BY <1>3, <3>1
    <2>. HIDE DEF s, Upto
    <2>. QED
      BY <2>1, <2>2, <2>3, <2>4, <2>6, <2>7, Zenon DEF Effect
  <1>. HIDE DEF D
  <1>6. h[0] \in Ds[0] /\ \A k \in 1 .. N : h[k - 1] \in Ds[k - 1] => h[k] \in Ds[k]
    <2>1. 0 \in 0 .. N /\ \A k \in 1 .. N : k \in 0 .. N /\ k - 1 \in 0 .. N
      BY <1>3
    <2>. QED
      BY <1>4, <1>5, <2>1
  <1>7. \A k \in 0 .. N : h[k] \in Ds[k]
    <2>. HIDE DEF Ds
    <2>. QED
      BY <1>3, <1>6, Iteration
  <1>8. h[N] \in D(N)
    BY <1>3, <1>7
  <1>9. Effect(t, h[N], action, f, Upto(N))
    BY <1>2, <1>8 DEF D
  <1>10. Upto(N) = ToSet(selectors)
    BY <1>3, ElementsByPosition DEF N
  <1>. QED
    BY <1>2, <1>9, <1>10

\* What a cut does to the routes if it succeeds.
LEMMA ApplyEffect ==
    ASSUME NEW t \in Sound({}), t.ok, NEW cut \in Cuts, IsInjective(cut.selectors),
           Apply(t, cut).ok
    PROVE  /\ cut.selectors # << >>
           /\ Effect(t, Apply(t, cut), cut.action, cut.implAddress, ToSet(cut.selectors))
  <1>. DEFINE f == cut.implAddress
              q == cut.selectors
  <1>1. t \in Tables /\ Linked(t, {})
    BY DEF Sound
  <1>2. f \in Facets \union {NoFacet} /\ q \in Seq(Selectors) /\ cut.action \in Actions
    BY DEF Cuts
  <1>3. Revert(t).ok = FALSE
    BY <1>1, Reverted
  <1>4. CASE cut.action = "remove"
    <2>1. Apply(t, cut) = IF q = << >> \/ f # NoFacet THEN Revert(t) ELSE CutAll(t, "remove", q, f)
      BY <1>4 DEF Apply, RemoveFunctions
    <2>2. q # << >> /\ Apply(t, cut) = CutAll(t, "remove", q, f)
      BY <1>3, <2>1
    <2>3. t \in Sound(Marked("remove", f)) /\ "remove" \in Actions
      BY DEF Marked, Actions
    <2>. HIDE DEF f
    <2>4. Effect(t, CutAll(t, "remove", q, f), "remove", f, ToSet(q))
      BY <1>2, <2>2, <2>3, CutAllEffect
    <2>. QED
      BY <1>4, <2>2, <2>4 DEF f
  <1>5. ASSUME NEW action \in {"add", "replace"}, cut.action = action,
               Apply(t, cut) = IF q = << >> \/ f = NoFacet THEN Revert(t)
                               ELSE CutAll(AddFacetIfNew(t, f), action, q, f)
        PROVE  q # << >> /\ Effect(t, Apply(t, cut), action, f, ToSet(q))
    <2>. DEFINE u == AddFacetIfNew(t, f)
    <2>1. q # << >> /\ f # NoFacet /\ Apply(t, cut) = CutAll(u, action, q, f)
      BY <1>3, <1>5
    <2>2. f \in Facets
      BY <1>2, <2>1
    <2>3. Linked(u, {f}) /\ u.ok /\ u.route = t.route
      BY <1>1, <2>2, AddFacetIfNewLinks
    <2>4. u \in Sound(Marked(action, f)) /\ action \in Actions
      BY <1>5, <2>3 DEF Sound, Linked, Marked, Actions
    <2>. HIDE DEF u, f
    <2>5. Effect(u, CutAll(u, action, q, f), action, f, ToSet(q))
      BY <1>2, <2>1, <2>2, <2>4, CutAllEffect
    <2>. QED
      BY <2>1, <2>3, <2>5 DEF Effect
  <1>6. CASE cut.action = "add"
    <2>1. Apply(t, cut) = IF q = << >> \/ f = NoFacet THEN Revert(t)
                          ELSE CutAll(AddFacetIfNew(t, f), "add", q, f)
      BY <1>6 DEF Apply, AddFunctions
    <2>2. q # << >> /\ Effect(t, Apply(t, cut), "add", f, ToSet(q))
      BY <1>5, <1>6, <2>1
    <2>. QED
      BY <1>6, <2>2
  <1>7. CASE cut.action = "replace"
    <2>1. Apply(t, cut) = IF q = << >> \/ f = NoFacet THEN Revert(t)
                          ELSE CutAll(AddFacetIfNew(t, f), "replace", q, f)
      BY <1>7 DEF Apply, ReplaceFunctions
    <2>2. q # << >> /\ Effect(t, Apply(t, cut), "replace", f, ToSet(q))
      BY <1>5, <1>7, <2>1
    <2>. QED
      BY <1>7, <2>2
  <1>. QED
    BY <1>2, <1>4, <1>6, <1>7 DEF Actions

\* A transaction that has reverted stays reverted.
LEMMA UpdateReverted ==
    ASSUME NEW t \in Sound({}), NEW cuts \in Seq(Cuts), ~ t.ok
    PROVE  UpdateImplementation(t, cuts) = t
  <1>. DEFINE Ds == [n \in 0 .. Len(cuts) |-> {t}]
  <1>1. PICK h : /\ h[0] = t
                 /\ \A n \in 1 .. Len(cuts) : h[n] = UpdateStep(h[n - 1], cuts[n])
                 /\ h[Len(cuts)] = UpdateImplementation(t, cuts)
                 /\ h[Len(cuts)] \in Sound({})
    BY UpdateRuns, Zenon
  <1>2. Len(cuts) \in Nat
    OBVIOUS
  <1>3. h[0] \in Ds[0] /\ \A n \in 1 .. Len(cuts) : h[n - 1] \in Ds[n - 1] => h[n] \in Ds[n]
    BY <1>1, <1>2 DEF UpdateStep
  <1>4. \A n \in 0 .. Len(cuts) : h[n] \in Ds[n]
    BY <1>2, <1>3, Iteration
  <1>. QED
    BY <1>1, <1>2, <1>4

\* There is one run of an update.
LEMMA UpdateUnique ==
    ASSUME NEW t \in Sound({}), NEW cuts \in Seq(Cuts), NEW h, h[0] = t,
           \A n \in 1 .. Len(cuts) : h[n] = UpdateStep(h[n - 1], cuts[n])
    PROVE  h[Len(cuts)] = UpdateImplementation(t, cuts)
  <1>1. PICK g : /\ g[0] = t
                 /\ \A n \in 1 .. Len(cuts) : g[n] = UpdateStep(g[n - 1], cuts[n])
                 /\ g[Len(cuts)] = UpdateImplementation(t, cuts)
                 /\ g[Len(cuts)] \in Sound({})
    BY UpdateRuns, Zenon
  <1>. DEFINE Ds == [n \in 0 .. Len(cuts) |-> {g[n]}]
  <1>2. Len(cuts) \in Nat
    OBVIOUS
  <1>3. h[0] \in Ds[0] /\ \A n \in 1 .. Len(cuts) : h[n - 1] \in Ds[n - 1] => h[n] \in Ds[n]
    BY <1>1, <1>2
  <1>4. \A n \in 0 .. Len(cuts) : h[n] \in Ds[n]
    BY <1>2, <1>3, Iteration
  <1>. QED
    BY <1>1, <1>2, <1>4

\* An update without cuts changes nothing.
LEMMA UpdateByNoCut ==
    ASSUME NEW t \in Sound({})
    PROVE  UpdateImplementation(t, << >>) = t
  <1>. DEFINE cuts == << >>
              h == [n \in {0} |-> t]
  <1>1. cuts \in Seq(Cuts) /\ Len(cuts) = 0 /\ h[0] = t
    OBVIOUS
  <1>2. \A n \in 1 .. Len(cuts) : h[n] = UpdateStep(h[n - 1], cuts[n])
    BY <1>1
  <1>. HIDE DEF cuts, h
  <1>3. h[Len(cuts)] = UpdateImplementation(t, cuts)
    BY <1>1, <1>2, UpdateUnique
  <1>4. UpdateImplementation(t, cuts) = t
    BY <1>1, <1>3
  <1>. QED
    BY <1>4 DEF cuts

\* Cuts that are joined are carried out one after the other.
LEMMA UpdateConcat ==
    ASSUME NEW t \in Sound({}), NEW a \in Seq(Cuts), NEW b \in Seq(Cuts)
    PROVE  UpdateImplementation(t, a \o b) = UpdateImplementation(UpdateImplementation(t, a), b)
  <1>. DEFINE u == UpdateImplementation(t, a)
              m == Len(a)
              n == Len(b)
              c == a \o b
  <1>1. PICK g : /\ g[0] = t
                 /\ \A k \in 1 .. m : g[k] = UpdateStep(g[k - 1], a[k])
                 /\ g[m] = u
    BY UpdateRuns
  <1>2. u \in Sound({})
    BY UpdateSound
  <1>. HIDE DEF u
  <1>3. PICK w : /\ w[0] = u
                 /\ \A k \in 1 .. n : w[k] = UpdateStep(w[k - 1], b[k])
                 /\ w[n] = UpdateImplementation(u, b)
    BY <1>2, UpdateRuns
  <1>. DEFINE h == [k \in 0 .. m + n |-> IF k <= m THEN g[k] ELSE w[k - m]]
  <1>4. /\ m \in Nat /\ n \in Nat /\ c \in Seq(Cuts) /\ Len(c) = m + n
        /\ \A k \in 1 .. m : c[k] = a[k]
        /\ \A k \in m + 1 .. m + n : c[k] = b[k - m]
    OBVIOUS
  <1>. HIDE DEF m, n, c
  <1>5. h[0] = t
    BY <1>1, <1>4
  <1>6. ASSUME NEW k \in 1 .. m + n PROVE h[k] = UpdateStep(h[k - 1], c[k])
    <2>1. k \in 0 .. m + n /\ k - 1 \in 0 .. m + n
      BY <1>4
    <2>2. CASE k <= m
      <3>1. k \in 1 .. m /\ k - 1 <= m
        BY <1>4, <2>2
      <3>2. h[k] = g[k] /\ h[k - 1] = g[k - 1] /\ c[k] = a[k]
        BY <1>4, <2>1, <2>2, <3>1
      <3>. QED
        BY <1>1, <3>1, <3>2
    <2>3. CASE k = m + 1
      <3>1. k \in m + 1 .. m + n /\ ~ (k <= m) /\ k - m = 1 /\ k - 1 = m /\ k - 1 <= m /\ 1 \in 1 .. n /\ 1 - 1 = 0
        BY <1>4, <2>3
      <3>2. h[k] = w[1] /\ h[k - 1] = g[m] /\ c[k] = b[1]
        BY <1>4, <2>1, <3>1
      <3>. QED
        BY <1>1, <1>3, <3>1, <3>2
    <2>4. CASE k > m + 1
      <3>1. /\ k \in m + 1 .. m + n /\ ~ (k <= m) /\ ~ (k - 1 <= m)
            /\ k - m \in 1 .. n /\ (k - 1) - m = (k - m) - 1
        BY <1>4, <2>4
      <3>2. h[k] = w[k - m] /\ h[k - 1] = w[(k - m) - 1] /\ c[k] = b[k - m]
        BY <1>4, <2>1, <3>1
      <3>. QED
        BY <1>3, <3>1, <3>2
    <2>. QED
      BY <1>4, <2>2, <2>3, <2>4
  <1>7. h[m + n] = UpdateImplementation(u, b)
    <2>1. CASE n = 0
      <3>1. m + n = m /\ m <= m /\ m \in 0 .. m + n
        BY <1>4, <2>1
      <3>. QED
        BY <1>1, <1>3, <2>1, <3>1
    <2>2. CASE n # 0
      <3>1. m + n \in 0 .. m + n /\ ~ (m + n <= m) /\ (m + n) - m = n
        BY <1>4, <2>2
      <3>. QED
        BY <1>3, <3>1
    <2>. QED
      BY <2>1, <2>2
  <1>. HIDE DEF h
  <1>8. \A k \in 1 .. Len(c) : h[k] = UpdateStep(h[k - 1], c[k])
    BY <1>4, <1>6
  <1>9. h[Len(c)] = UpdateImplementation(t, c)
    BY <1>4, <1>5, <1>8, UpdateUnique
  <1>10. UpdateImplementation(t, c) = UpdateImplementation(u, b)
    BY <1>4, <1>7, <1>9
  <1>. QED
    BY <1>10 DEF u, c

-----------------------------------------------------------------------------
\* The cuts of the scripts.

\* Joining sequences one after the other.
FlattenRun(seqs, h) ==
    [i \in 1 .. Len(seqs) |-> IF i = 1 THEN seqs[i] ELSE h[i - 1] \o seqs[i]]

\* The joined sequence grows by one sequence at a time.
LEMMA FlattenRuns ==
    ASSUME NEW X, NEW seqs \in Seq(Seq(X))
    PROVE  \E p : /\ p[0] = << >> /\ p[Len(seqs)] = FlattenSeq(seqs)
                  /\ \A n \in 1 .. Len(seqs) : p[n] = p[n - 1] \o seqs[n]
                  /\ \A n \in 0 .. Len(seqs) : p[n] \in Seq(X)
  <1>1. CASE Len(seqs) = 0
    <2>1. FlattenSeq(seqs) = seqs
      BY <1>1 DEF FlattenSeq
    <2>2. seqs = << >> /\ << >> \in Seq(X)
      BY <1>1
    <2>. DEFINE p == [n \in {0} |-> << >>]
    <2>3. p[0] = << >>
      OBVIOUS
    <2>. HIDE DEF p
    <2>4. p[Len(seqs)] = FlattenSeq(seqs)
      BY <1>1, <2>1, <2>2, <2>3, Zenon
    <2>5. \A n \in 1 .. Len(seqs) : FALSE
      BY <1>1
    <2>6. \A n \in 0 .. Len(seqs) : n = 0
      BY <1>1
    <2>. QED
      BY <2>2, <2>3, <2>4, <2>5, <2>6, Zenon
  <1>2. CASE Len(seqs) # 0
    <2>. DEFINE N == Len(seqs) - 1
                D == Seq(X)
                More(q, n) == q \o seqs[n + 1]
                step == [n \in 1 .. N |-> [q \in D |-> More(q, n)]]
                flat == CHOOSE h : h = FlattenRun(seqs, h)
                shifted == [n \in 0 .. N |-> flat[n + 1]]
                Ds == [n \in 0 .. N |-> D]
                first == seqs[1]
    <2>1. N \in Nat /\ first \in D /\ N + 1 = Len(seqs)
      BY <1>2
    <2>2. \A n \in 1 .. N : \A q \in D : More(q, n) \in D
      <3>1. \A n \in 1 .. N : seqs[n + 1] \in D
        BY <2>1
      <3>. QED
        BY <3>1
    <2>3. \A h : /\ FlattenRun(seqs, h)[1] = first
                 /\ \A n \in 1 .. N : FlattenRun(seqs, h)[n + 1] = More(h[n], n)
                 /\ FlattenRun(seqs, h) = [i \in 1 .. N + 1 |-> FlattenRun(seqs, h)[i]]
      <3>. SUFFICES ASSUME NEW h
                    PROVE  /\ FlattenRun(seqs, h)[1] = first
                           /\ \A n \in 1 .. N : FlattenRun(seqs, h)[n + 1] = More(h[n], n)
                           /\ FlattenRun(seqs, h) = [i \in 1 .. N + 1 |-> FlattenRun(seqs, h)[i]]
        OBVIOUS
      <3>1. FlattenRun(seqs, h) = [i \in 1 .. N + 1 |-> FlattenRun(seqs, h)[i]]
        BY <2>1 DEF FlattenRun
      <3>2. FlattenRun(seqs, h)[1] = first
        BY <2>1 DEF FlattenRun
      <3>3. ASSUME NEW n \in 1 .. N PROVE FlattenRun(seqs, h)[n + 1] = More(h[n], n)
        <4>1. n + 1 \in 1 .. Len(seqs) /\ n + 1 # 1 /\ (n + 1) - 1 = n
          BY <2>1
        <4>2. FlattenRun(seqs, h)[n + 1] = h[(n + 1) - 1] \o seqs[n + 1]
          BY <4>1 DEF FlattenRun
        <4>. QED
          BY <4>1, <4>2
      <3>. QED
        BY <3>1, <3>2, <3>3
    <2>4. FlattenSeq(seqs) = flat[N + 1]
      <3>1. FlattenSeq(seqs) = flat[Len(seqs)]
        BY <1>2 DEF FlattenSeq, FlattenRun
      <3>. HIDE DEF flat
      <3>. QED
        BY <2>1, <3>1
    <2>. HIDE DEF D, More, N, flat, first
    <2>5. step \in [1 .. N -> [D -> D]] /\ \A n \in 1 .. N : \A q \in D : step[n][q] = More(q, n)
      BY <2>2
    <2>. HIDE DEF step
    <2>6. step \in [1 .. N -> [D -> D]] /\ N \in Nat /\ first \in D
      BY <2>1, <2>5
    <2>7. \E g : IsRun(g, D, N, first, step)
      BY <2>6, Recursion
    <2>8. PICK g : IsRun(g, D, N, first, step)
      BY <2>7
    <2>9. /\ g \in [0 .. N -> D]
          /\ g[0] = first
          /\ \A n \in 1 .. N : g[n] = step[n][g[n - 1]] /\ g[n - 1] \in D
      BY <2>6, <2>8 DEF IsRun
    <2>10. \A n \in 1 .. N : g[n] = More(g[n - 1], n)
      BY <2>5, <2>9
    <2>. DEFINE f == [i \in 1 .. N + 1 |-> g[i - 1]]
    <2>11. f = FlattenRun(seqs, f)
      <3>1. ASSUME NEW i \in 1 .. N + 1 PROVE f[i] = FlattenRun(seqs, f)[i]
        <4>1. CASE i = 1
          BY <2>3, <2>6, <2>9, <4>1
        <4>2. CASE i # 1
          <5>1. i - 1 \in 1 .. N /\ (i - 1) + 1 = i /\ f[i - 1] = g[(i - 1) - 1] /\ f[i] = g[i - 1]
            BY <2>6, <4>2
          <5>2. FlattenRun(seqs, f)[(i - 1) + 1] = More(f[i - 1], i - 1)
            BY <2>3, <5>1
          <5>. QED
            BY <2>10, <5>1, <5>2
        <4>. QED
          BY <4>1, <4>2
      <3>2. f = [i \in 1 .. N + 1 |-> f[i]]
        OBVIOUS
      <3>3. [i \in 1 .. N + 1 |-> f[i]] = [i \in 1 .. N + 1 |-> FlattenRun(seqs, f)[i]]
        BY <3>1
      <3>4. FlattenRun(seqs, f) = [i \in 1 .. N + 1 |-> FlattenRun(seqs, f)[i]]
        BY <2>3
      <3>. QED
        BY <3>2, <3>3, <3>4, Zenon
    <2>12. flat = FlattenRun(seqs, flat)
      BY <2>11 DEF flat
    <2>13. flat[1] = first /\ \A n \in 1 .. N : flat[n + 1] = More(flat[n], n)
      BY <2>3, <2>12
    <2>14. shifted[0] \in Ds[0]
      BY <2>6, <2>13
    <2>15. ASSUME NEW n \in 1 .. N, shifted[n - 1] \in Ds[n - 1] PROVE shifted[n] \in Ds[n]
      <3>1. shifted[n - 1] = flat[n] /\ shifted[n] = flat[n + 1] /\ Ds[n - 1] = D /\ Ds[n] = D
        BY <2>6
      <3>. QED
        BY <2>2, <2>13, <2>15, <3>1
    <2>. HIDE DEF shifted
    <2>16. \A n \in 0 .. N : shifted[n] \in Ds[n]
      BY <2>6, <2>14, <2>15, Iteration
    <2>17. \A n \in 1 .. N + 1 : flat[n] \in D
      <3>1. ASSUME NEW n \in 1 .. N + 1 PROVE n - 1 \in 0 .. N /\ (n - 1) + 1 = n
        BY <2>6
      <3>2. \A n \in 0 .. N : flat[n + 1] \in D
        BY <2>6, <2>16 DEF shifted
      <3>. QED
        BY <3>1, <3>2
    <2>. DEFINE p == [n \in 0 .. Len(seqs) |-> IF n = 0 THEN << >> ELSE flat[n]]
    <2>18. p[0] = << >> /\ p[Len(seqs)] = FlattenSeq(seqs)
      BY <2>1, <2>4
    <2>19. ASSUME NEW n \in 1 .. Len(seqs) PROVE p[n] = p[n - 1] \o seqs[n]
      <3>1. n \in 0 .. Len(seqs) /\ n # 0 /\ n - 1 \in 0 .. Len(seqs)
        BY <2>1
      <3>2. CASE n = 1
        <4>1. p[n] = first /\ p[n - 1] = << >> /\ seqs[n] = first
          BY <2>13, <3>1, <3>2 DEF first
        <4>2. \A q \in Seq(X) : << >> \o q = q
          OBVIOUS
        <4>. QED
          BY <2>1, <4>1, <4>2, Zenon DEF D
      <3>3. CASE n # 1
        <4>1. n - 1 \in 1 .. N /\ (n - 1) + 1 = n /\ n - 1 # 0
          BY <2>1, <3>1, <3>3
        <4>2. p[n] = flat[(n - 1) + 1] /\ p[n - 1] = flat[n - 1]
          BY <3>1, <4>1
        <4>3. flat[(n - 1) + 1] = flat[n - 1] \o seqs[(n - 1) + 1]
          BY <2>13, <4>1 DEF More
        <4>. QED
          BY <4>1, <4>2, <4>3
      <3>. QED
        BY <3>2, <3>3
    <2>20. ASSUME NEW n \in 0 .. Len(seqs) PROVE p[n] \in Seq(X)
      <3>1. << >> \in Seq(X) /\ (n # 0 => n \in 1 .. N + 1)
        BY <2>1
      <3>. QED
        BY <2>17, <3>1 DEF D
    <2>. HIDE DEF p
    <2>. QED
      BY <2>18, <2>19, <2>20
  <1>. QED
    BY <1>1, <1>2

\* Joining sequences over X gives a sequence over X.
LEMMA FlattenType ==
    ASSUME NEW X, NEW seqs \in Seq(Seq(X))
    PROVE  FlattenSeq(seqs) \in Seq(X)
  <1>1. PICK p : p[Len(seqs)] = FlattenSeq(seqs) /\ \A n \in 0 .. Len(seqs) : p[n] \in Seq(X)
    BY FlattenRuns
  <1>2. Len(seqs) \in 0 .. Len(seqs)
    OBVIOUS
  <1>. QED
    BY <1>1, <1>2

\* Joined updates are carried out one after the other.
LEMMA UpdateFlatten ==
    ASSUME NEW t \in Sound({}), NEW groups \in Seq(Seq(Cuts))
    PROVE  \E g : /\ g[0] = t
                  /\ g[Len(groups)] = UpdateImplementation(t, FlattenSeq(groups))
                  /\ \A n \in 1 .. Len(groups) : g[n] = UpdateImplementation(g[n - 1], groups[n])
                  /\ \A n \in 0 .. Len(groups) : g[n] \in Sound({})
  <1>. DEFINE N == Len(groups)
  <1>1. PICK p : /\ p[0] = << >> /\ p[N] = FlattenSeq(groups)
                 /\ \A n \in 1 .. N : p[n] = p[n - 1] \o groups[n]
                 /\ \A n \in 0 .. N : p[n] \in Seq(Cuts)
    BY FlattenRuns
  <1>2. N \in Nat /\ \A n \in 1 .. N : groups[n] \in Seq(Cuts)
    OBVIOUS
  <1>. HIDE DEF N
  <1>. DEFINE After(n) == UpdateImplementation(t, p[n])
              g == [n \in 0 .. N |-> After(n)]
  <1>3. After(0) = t
    BY <1>1, UpdateByNoCut
  <1>4. ASSUME NEW n \in 1 .. N PROVE After(n) = UpdateImplementation(After(n - 1), groups[n])
    <2>1. p[n] = p[n - 1] \o groups[n] /\ p[n - 1] \in Seq(Cuts) /\ groups[n] \in Seq(Cuts)
      <3>1. n - 1 \in 0 .. N
        BY <1>2
      <3>. QED
        BY <1>1, <1>2, <3>1
    <2>. QED
      BY <2>1, UpdateConcat
  <1>5. ASSUME NEW n \in 0 .. N PROVE After(n) \in Sound({})
    BY <1>1, UpdateSound
  <1>6. After(N) = UpdateImplementation(t, FlattenSeq(groups))
    BY <1>1
  <1>. HIDE DEF After
  <1>7. /\ g[0] = t /\ g[N] = UpdateImplementation(t, FlattenSeq(groups))
        /\ \A n \in 1 .. N : g[n] = UpdateImplementation(g[n - 1], groups[n])
        /\ \A n \in 0 .. N : g[n] \in Sound({})
    <2>1. 0 \in 0 .. N /\ N \in 0 .. N /\ \A n \in 1 .. N : n \in 0 .. N /\ n - 1 \in 0 .. N
      BY <1>2
    <2>. QED
      BY <1>3, <1>4, <1>5, <1>6, <2>1
  <1>. HIDE DEF g
  <1>. QED
    BY <1>7 DEF N

\* The cuts that CutIfAny makes.
LEMMA CutIfAnyType ==
    ASSUME NEW f \in Facets \union {NoFacet}, NEW action \in Actions, NEW q \in Seq(Selectors)
    PROVE  CutIfAny(f, action, q) \in Seq(Cuts)
  <1>1. Cut(f, action, q) \in Cuts
    BY DEF Cut, Cuts
  <1>. QED
    BY <1>1 DEF CutIfAny

\* The cuts for one facet.
LEMMA CutsForType ==
    ASSUME NEW f \in Facets, NEW new \in Seq(Selectors), NEW old \in Seq(Selectors)
    PROVE  CutsFor(f, new, old) \in Seq(Cuts)
  <1>1. \A q \in Seq(Selectors) : \A S : Kept(q, S) \in Seq(Selectors)
    <2>. SUFFICES ASSUME NEW q \in Seq(Selectors), NEW S PROVE Kept(q, S) \in Seq(Selectors)
      OBVIOUS
    <2>. QED
      BY KeptType
  <1>2. {"remove", "replace", "add"} \subseteq Actions
    BY DEF Actions
  <1>3. CutIfAny(NoFacet, "remove", Kept(old, ToSet(old) \ ToSet(new))) \in Seq(Cuts)
    BY <1>1, <1>2, CutIfAnyType
  <1>4. CutIfAny(f, "replace", Kept(new, ToSet(old))) \in Seq(Cuts)
    BY <1>1, <1>2, CutIfAnyType
  <1>5. CutIfAny(f, "add", Kept(new, ToSet(new) \ ToSet(old))) \in Seq(Cuts)
    BY <1>1, <1>2, CutIfAnyType
  <1>. QED
    BY <1>3, <1>4, <1>5 DEF CutsFor

\* What the cuts for one facet do to the routes.

\* A cut that is left out if it is empty has the same effect.
LEMMA CutIfAnyEffect ==
    ASSUME NEW t \in Sound({}), NEW f \in Facets \union {NoFacet}, NEW action \in Actions,
           NEW q \in Seq(Selectors), IsInjective(q),
           UpdateImplementation(t, CutIfAny(f, action, q)).ok
    PROVE  t.ok /\ Effect(t, UpdateImplementation(t, CutIfAny(f, action, q)), action, f, ToSet(q))
  <1>. DEFINE u == UpdateImplementation(t, CutIfAny(f, action, q))
              c == Cut(f, action, q)
  <1>1. CASE q = << >>
    <2>1. u = t
      BY <1>1, UpdateByNoCut DEF CutIfAny
    <2>2. ToSet(q) = {}
      BY <1>1 DEF ToSet
    <2>. QED
      BY <2>1, <2>2 DEF Effect
  <1>2. CASE q # << >>
    <2>1. c \in Cuts /\ c.implAddress = f /\ c.action = action /\ c.selectors = q
      BY DEF Cut, Cuts
    <2>2. CutIfAny(f, action, q) = << c >>
      BY <1>2 DEF CutIfAny
    <2>. HIDE DEF c
    <2>3. u = UpdateStep(t, c)
      BY <2>1, <2>2, UpdateByOneCut
    <2>4. t.ok /\ u = Apply(t, c)
      BY <2>3 DEF UpdateStep
    <2>5. Apply(t, c).ok
      BY <2>4
    <2>6. Effect(t, Apply(t, c), action, f, ToSet(q))
      BY <2>1, <2>4, <2>5, ApplyEffect
    <2>. QED
      BY <2>4, <2>6
  <1>. QED
    BY <1>1, <1>2

\* The functions N are served by f, those of O that f lacks by none, the others as before.
Upgraded(t, u, f, N, O) ==
    \A s \in Selectors :
        /\ s \in N => /\ u.route[s] = f
                      /\ s \in O => t.route[s] # NoFacet /\ t.route[s] # f
                      /\ s \notin O => t.route[s] = NoFacet
        /\ s \notin N /\ s \in O => t.route[s] # NoFacet /\ u.route[s] = NoFacet
        /\ s \notin N /\ s \notin O => u.route[s] = t.route[s]

\* Removing, replacing and adding, one after the other.
LEMMA ThreeEffects ==
    ASSUME NEW f \in Facets, NEW N, NEW O, NEW t, NEW u, NEW v, NEW w,
           Effect(t, u, "remove", NoFacet, O \cap (O \ N)),
           Effect(u, v, "replace", f, N \cap O),
           Effect(v, w, "add", f, N \cap (N \ O))
    PROVE  Upgraded(t, w, f, N, O)
  <1>. SUFFICES ASSUME NEW s \in Selectors
                PROVE  /\ s \in N => /\ w.route[s] = f
                                     /\ s \in O => t.route[s] # NoFacet /\ t.route[s] # f
                                     /\ s \notin O => t.route[s] = NoFacet
                       /\ s \notin N /\ s \in O => t.route[s] # NoFacet /\ w.route[s] = NoFacet
                       /\ s \notin N /\ s \notin O => w.route[s] = t.route[s]
    BY Zenon DEF Upgraded
  <1>1. /\ s \in O /\ s \notin N => t.route[s] # NoFacet /\ u.route[s] = NoFacet
        /\ ~ (s \in O /\ s \notin N) => u.route[s] = t.route[s]
    BY DEF Effect, Accepts, Result
  <1>2. /\ s \in N /\ s \in O => u.route[s] # NoFacet /\ u.route[s] # f /\ v.route[s] = f
        /\ ~ (s \in N /\ s \in O) => v.route[s] = u.route[s]
    BY DEF Effect, Accepts, Result
  <1>3. /\ s \in N /\ s \notin O => v.route[s] = NoFacet /\ w.route[s] = f
        /\ ~ (s \in N /\ s \notin O) => w.route[s] = v.route[s]
    BY DEF Effect, Accepts, Result
  <1>. QED
    BY <1>1, <1>2, <1>3, Zenon

\* The cuts for one facet replace the old functions by the new ones.
LEMMA CutsForEffect ==
    ASSUME NEW t \in Sound({}), NEW f \in Facets,
           NEW new \in Seq(Selectors), IsInjective(new),
           NEW old \in Seq(Selectors), IsInjective(old),
           UpdateImplementation(t, CutsFor(f, new, old)).ok
    PROVE  t.ok /\ Upgraded(t, UpdateImplementation(t, CutsFor(f, new, old)), f,
                            ToSet(new), ToSet(old))
  <1>. DEFINE p == Kept(old, ToSet(old) \ ToSet(new))
              q == Kept(new, ToSet(old))
              r == Kept(new, ToSet(new) \ ToSet(old))
              a == CutIfAny(NoFacet, "remove", p)
              b == CutIfAny(f, "replace", q)
              c == CutIfAny(f, "add", r)
              u == UpdateImplementation(t, a)
              v == UpdateImplementation(u, b)
              w == UpdateImplementation(v, c)
  <1>1. p \in Seq(Selectors) /\ IsInjective(p) /\ ToSet(p) = ToSet(old) \cap (ToSet(old) \ ToSet(new))
    BY KeptType
  <1>2. q \in Seq(Selectors) /\ IsInjective(q) /\ ToSet(q) = ToSet(new) \cap ToSet(old)
    <2>1. ASSUME NEW S PROVE /\ Kept(new, S) \in Seq(Selectors) /\ IsInjective(Kept(new, S))
                             /\ ToSet(Kept(new, S)) = ToSet(new) \cap S
      BY KeptType
    <2>. QED
      BY <2>1
  <1>3. r \in Seq(Selectors) /\ IsInjective(r) /\ ToSet(r) = ToSet(new) \cap (ToSet(new) \ ToSet(old))
    BY KeptType
  <1>4. CutsFor(f, new, old) = (a \o b) \o c
    BY Zenon DEF CutsFor
  <1>5. "remove" \in Actions /\ "replace" \in Actions /\ "add" \in Actions
    BY DEF Actions
  <1>. HIDE DEF p, q, r
  <1>6. a \in Seq(Cuts) /\ b \in Seq(Cuts) /\ c \in Seq(Cuts)
    BY <1>1, <1>2, <1>3, <1>5, CutIfAnyType
  <1>. HIDE DEF a, b, c
  <1>7. u \in Sound({}) /\ v \in Sound({})
    BY <1>6, UpdateSound
  <1>8. UpdateImplementation(t, CutsFor(f, new, old)) = w
    <2>1. a \o b \in Seq(Cuts)
      BY <1>6
    <2>2. UpdateImplementation(t, (a \o b) \o c) = UpdateImplementation(UpdateImplementation(t, a \o b), c)
      BY <1>6, <2>1, UpdateConcat
    <2>3. UpdateImplementation(t, a \o b) = v
      BY <1>6, UpdateConcat
    <2>. QED
      BY <1>4, <2>2, <2>3
  <1>9. w.ok
    BY <1>8
  <1>. HIDE DEF u, v, w
  <1>10. v.ok /\ Effect(v, w, "add", f, ToSet(r))
    BY <1>3, <1>5, <1>7, <1>9, CutIfAnyEffect DEF w, c
  <1>11. u.ok /\ Effect(u, v, "replace", f, ToSet(q))
    BY <1>2, <1>5, <1>7, <1>10, CutIfAnyEffect DEF v, b
  <1>12. t.ok /\ Effect(t, u, "remove", NoFacet, ToSet(p))
    BY <1>1, <1>5, <1>11, CutIfAnyEffect DEF u, a
  <1>13. /\ Effect(t, u, "remove", NoFacet, ToSet(old) \cap (ToSet(old) \ ToSet(new)))
         /\ Effect(u, v, "replace", f, ToSet(new) \cap ToSet(old))
         /\ Effect(v, w, "add", f, ToSet(new) \cap (ToSet(new) \ ToSet(old)))
    BY <1>1, <1>2, <1>3, <1>10, <1>11, <1>12, Zenon
  <1>14. Upgraded(t, w, f, ToSet(new), ToSet(old))
    BY <1>13, ThreeEffects
  <1>. QED
    BY <1>8, <1>12, <1>14

\* The components whose facets are upgraded, and the selectors of a release.
LEMMA InterfaceType ==
    ASSUME NEW r \in Releases, NEW c \in ToSet(Components)
    PROVE  Interface[r][c] \in Seq(Selectors)
  <1>1. Components \in Seq(ToSet(Components))
    BY UpgradeAssumption
  <1>2. \A i \in 1 .. Len(Components) : Interface[r][Components[i]] \in Seq(Selectors)
    BY UpgradeAssumption
  <1>3. PICK i \in 1 .. Len(Components) : c = Components[i]
    BY <1>1, ElementsByPosition
  <1>. QED
    BY <1>2, <1>3

\* The components of upgrade:pool are distinct, and the one that stays is not among them.
LEMMA PoolComponentsDistinct ==
    /\ PoolComponents \in Seq(ToSet(Components)) /\ IsInjective(PoolComponents)
    /\ "ParaProxyInterfaces" \notin ToSet(PoolComponents)
  <1>. DEFINE names == <<"PoolCore", "PoolMarketplace", "PoolParameters", "PoolApeStaking">>
              X == {"PoolCore", "PoolMarketplace", "PoolParameters", "PoolApeStaking"}
  <1>1. names \in Seq(X) /\ "ParaProxyInterfaces" \notin X
    OBVIOUS
  <1>2. IsInjective(names)
    BY DEF IsInjective
  <1>. HIDE DEF names, X
  <1>3. /\ Kept(names, ToSet(Components)) \in Seq(X \cap ToSet(Components))
        /\ IsInjective(Kept(names, ToSet(Components)))
    BY <1>1, <1>2, KeptType
  <1>4. PoolComponents \in Seq(X \cap ToSet(Components)) /\ IsInjective(PoolComponents)
    BY <1>3 DEF PoolComponents, names
  <1>5. PoolComponents \in Seq(X)
    BY <1>4
  <1>6. \A c \in ToSet(PoolComponents) : c \in X
    BY <1>5, ElementsByPosition
  <1>7. PoolComponents \in Seq(ToSet(Components))
    BY <1>4
  <1>. QED
    BY <1>1, <1>4, <1>6, <1>7

\* What the scripts compute are cuts.
LEMMA UpgradeCutsType ==
    ASSUME NEW r \in Releases, NEW run \in 1 .. MaxRuns + 1, NEW cs \in Seq(ToSet(Components)),
           NEW old, \A c \in ToSet(cs) : old[c] \in Facets \union {NoFacet},
           ds \in Tables
    PROVE  UpgradeProxyImplementations(r, run, cs, old) \in Seq(Cuts)
  <1>. DEFINE One(i) == CutsFor(<<cs[i], run>>, Interface[r][cs[i]], FacetFunctionSelectors(ds, old[cs[i]]))
              all == [i \in DOMAIN cs |-> One(i)]
  <1>1. DOMAIN cs = 1 .. Len(cs) /\ Len(cs) \in Nat
    OBVIOUS
  <1>2. ASSUME NEW i \in 1 .. Len(cs) PROVE One(i) \in Seq(Cuts)
    <2>1. cs[i] \in ToSet(Components) /\ cs[i] \in ToSet(cs)
      BY ElementsByPosition
    <2>2. <<cs[i], run>> \in Facets
      BY <2>1 DEF Facets
    <2>3. Interface[r][cs[i]] \in Seq(Selectors)
      BY <2>1, InterfaceType
    <2>4. old[cs[i]] \in Facets \union {NoFacet}
      BY <2>1
    <2>5. ds.list \in [Facets -> Seq(Selectors)]
      BY DEF Tables
    <2>6. FacetFunctionSelectors(ds, old[cs[i]]) \in Seq(Selectors)
      BY <2>4, <2>5 DEF FacetFunctionSelectors
    <2>. QED
      BY <2>2, <2>3, <2>6, CutsForType
  <1>. HIDE DEF One
  <1>3. all \in Seq(Seq(Cuts))
    BY <1>1, <1>2
  <1>. HIDE DEF all
  <1>4. FlattenSeq(all) \in Seq(Cuts)
    BY <1>3, FlattenType
  <1>. QED
    BY <1>4, Zenon DEF UpgradeProxyImplementations, all, One

-----------------------------------------------------------------------------
\* The plan of an upgrade: for each of the components cs, the facet of this run with the
\* functions of the release r takes the place of the functions O[i].

PlanType(r, run, cs, O) ==
    /\ r \in Releases /\ run \in 1 .. MaxRuns + 1
    /\ cs \in Seq(ToSet(Components)) /\ IsInjective(cs)
    /\ O \in [1 .. Len(cs) -> Seq(Selectors)]
    /\ \A i \in 1 .. Len(cs) : IsInjective(O[i])

Groups(r, run, cs, O) == [i \in DOMAIN cs |-> CutsFor(<<cs[i], run>>, Interface[r][cs[i]], O[i])]
PlanCuts(r, run, cs, O) == FlattenSeq(Groups(r, run, cs, O))

\* The tables between the facets of a plan.
PlanRun(g, r, run, cs, O) ==
    \A k \in 1 .. Len(cs) :
        Upgraded(g[k - 1], g[k], <<cs[k], run>>, ToSet(Interface[r][cs[k]]), ToSet(O[k]))

\* The parts of a plan, one per component.
LEMMA GroupsType ==
    ASSUME NEW r, NEW run, NEW cs, NEW O, PlanType(r, run, cs, O)
    PROVE  /\ Len(cs) \in Nat /\ Groups(r, run, cs, O) \in Seq(Seq(Cuts))
           /\ Len(Groups(r, run, cs, O)) = Len(cs)
           /\ \A i \in 1 .. Len(cs) :
                  /\ Groups(r, run, cs, O)[i] = CutsFor(<<cs[i], run>>, Interface[r][cs[i]], O[i])
                  /\ <<cs[i], run>> \in Facets /\ O[i] \in Seq(Selectors) /\ IsInjective(O[i])
                  /\ Interface[r][cs[i]] \in Seq(Selectors) /\ IsInjective(Interface[r][cs[i]])
                  /\ Interface[r][cs[i]] # << >>
  <1>. DEFINE One(i) == CutsFor(<<cs[i], run>>, Interface[r][cs[i]], O[i])
              all == [i \in DOMAIN cs |-> One(i)]
  <1>1. DOMAIN cs = 1 .. Len(cs) /\ Len(cs) \in Nat
    BY DEF PlanType
  <1>2. ASSUME NEW i \in 1 .. Len(cs)
        PROVE  /\ <<cs[i], run>> \in Facets /\ O[i] \in Seq(Selectors) /\ IsInjective(O[i])
               /\ Interface[r][cs[i]] \in Seq(Selectors) /\ IsInjective(Interface[r][cs[i]])
               /\ Interface[r][cs[i]] # << >>
    <2>1. cs[i] \in ToSet(Components)
      BY DEF PlanType
    <2>2. <<cs[i], run>> \in Facets
      BY <2>1 DEF Facets, PlanType
    <2>3. O[i] \in Seq(Selectors) /\ IsInjective(O[i]) /\ r \in Releases
      BY DEF PlanType
    <2>4. PICK j \in 1 .. Len(Components) : cs[i] = Components[j]
      BY <2>1, UpgradeAssumption, ElementsByPosition
    <2>5. /\ Interface[r][Components[j]] \in Seq(Selectors)
          /\ IsInjective(Interface[r][Components[j]]) /\ Interface[r][Components[j]] # << >>
      BY <2>3, UpgradeAssumption
    <2>. QED
      BY <2>2, <2>3, <2>4, <2>5
  <1>3. ASSUME NEW i \in 1 .. Len(cs) PROVE One(i) \in Seq(Cuts)
    BY <1>2, CutsForType
  <1>4. Groups(r, run, cs, O) = all
    BY Zenon DEF Groups
  <1>5. \A i \in 1 .. Len(cs) : all[i] = One(i)
    BY <1>1
  <1>. HIDE DEF One
  <1>6. all \in Seq(Seq(Cuts)) /\ Len(all) = Len(cs)
    BY <1>1, <1>3
  <1>. QED
    BY <1>1, <1>2, <1>4, <1>5, <1>6, Zenon DEF One

\* A plan that succeeds upgrades one component after the other.
LEMMA PlanRuns ==
    ASSUME NEW r, NEW run, NEW cs, NEW O, PlanType(r, run, cs, O), NEW t \in Sound({}),
           UpdateImplementation(t, PlanCuts(r, run, cs, O)).ok
    PROVE  \E g : /\ g[0] = t /\ g[Len(cs)] = UpdateImplementation(t, PlanCuts(r, run, cs, O))
                  /\ PlanRun(g, r, run, cs, O)
  <1>. DEFINE G == Groups(r, run, cs, O)
              N == Len(cs)
              after == UpdateImplementation(t, PlanCuts(r, run, cs, O))
  <1>1. /\ N \in Nat /\ G \in Seq(Seq(Cuts)) /\ Len(G) = N
        /\ after = UpdateImplementation(t, FlattenSeq(G))
    BY GroupsType DEF PlanCuts
  <1>2. ASSUME NEW i \in 1 .. N
        PROVE  G[i] = CutsFor(<<cs[i], run>>, Interface[r][cs[i]], O[i]) /\ G[i] \in Seq(Cuts)
    BY <1>1, GroupsType
  <1>. HIDE DEF G
  <1>3. PICK g : /\ g[0] = t
                 /\ g[Len(G)] = UpdateImplementation(t, FlattenSeq(G))
                 /\ \A n \in 1 .. Len(G) : g[n] = UpdateImplementation(g[n - 1], G[n])
                 /\ \A n \in 0 .. Len(G) : g[n] \in Sound({})
    BY <1>1, UpdateFlatten
  <1>. HIDE DEF after
  <1>4. /\ g[0] = t /\ g[N] = after
        /\ \A n \in 1 .. N : g[n] = UpdateImplementation(g[n - 1], G[n])
        /\ \A n \in 0 .. N : g[n] \in Sound({})
    BY <1>1, <1>3
  <1>5. after.ok
    BY DEF after
  <1>. HIDE DEF N
  \* A plan that succeeds has succeeded at each facet.
  <1>6. ASSUME NEW k \in 0 .. N, ~ g[k].ok PROVE FALSE
    <2>. DEFINE S == {n \in 0 .. N : n >= k => ~ g[n].ok}
    <2>1. 0 \in S
      BY <1>1, <1>6
    <2>2. ASSUME NEW n \in 1 .. N, n - 1 \in S PROVE n \in S
      <3>1. n \in 0 .. N /\ n - 1 \in 0 .. N
        BY <1>1
      <3>2. CASE n = k
        BY <1>6, <3>1, <3>2
      <3>3. CASE n > k
        <4>1. ~ g[n - 1].ok
          BY <1>1, <2>2, <3>1, <3>3
        <4>2. g[n - 1] \in Sound({}) /\ G[n] \in Seq(Cuts)
          BY <1>2, <1>4, <3>1
        <4>3. UpdateImplementation(g[n - 1], G[n]) = g[n - 1]
          BY <4>1, <4>2, UpdateReverted
        <4>. QED
          BY <1>4, <3>1, <4>1, <4>3
      <3>4. CASE n < k
        BY <1>1, <3>1, <3>4
      <3>. QED
        BY <1>1, <3>2, <3>3, <3>4
    <2>. HIDE DEF S
    <2>3. \A n \in 0 .. N : n \in S
      BY <1>1, <2>1, <2>2, UpTo
    <2>4. N \in S /\ N >= k
      BY <1>1, <2>3
    <2>. QED
      BY <1>4, <1>5, <2>4 DEF S
  <1>7. ASSUME NEW k \in 1 .. N
        PROVE  Upgraded(g[k - 1], g[k], <<cs[k], run>>, ToSet(Interface[r][cs[k]]), ToSet(O[k]))
    <2>1. k \in 0 .. N /\ k - 1 \in 0 .. N /\ k \in 1 .. Len(cs)
      BY <1>1 DEF N
    <2>2. /\ g[k - 1] \in Sound({}) /\ g[k].ok
          /\ g[k] = UpdateImplementation(g[k - 1], CutsFor(<<cs[k], run>>, Interface[r][cs[k]], O[k]))
      BY <1>2, <1>4, <1>6, <2>1
    <2>3. /\ <<cs[k], run>> \in Facets /\ O[k] \in Seq(Selectors) /\ IsInjective(O[k])
          /\ Interface[r][cs[k]] \in Seq(Selectors) /\ IsInjective(Interface[r][cs[k]])
      BY <2>1, GroupsType
    <2>4. UpdateImplementation(g[k - 1], CutsFor(<<cs[k], run>>, Interface[r][cs[k]], O[k])).ok
      BY <2>2
    <2>. QED
      BY <2>2, <2>3, <2>4, CutsForEffect
  <1>8. PlanRun(g, r, run, cs, O)
    BY <1>7 DEF PlanRun, N
  <1>. QED
    BY <1>4, <1>8 DEF after, N

\* What a facet serves belongs to the release of the run that deployed it.
Released(f, rel) == Interface[rel[f[2]]][f[1]]
Owned(route, rel) ==
    \A s \in Selectors : route[s] # NoFacet =>
        route[s][2] \in 1 .. Len(rel) /\ s \in ToSet(Released(route[s], rel))

\* A facet that serves a function serves all of its release, and is the only one of its component.
Tidy(route, rel) ==
    \A s, x \in Selectors : route[s] # NoFacet =>
        /\ x \in ToSet(Released(route[s], rel)) => route[x] = route[s]
        /\ route[x] # NoFacet /\ route[x][1] = route[s][1] => route[x] = route[s]

\* After a plan each function is served as before, by no facet, or by the new facet that has it.
ServedBy(t, u, r, run, cs, k) ==
    \A s \in Selectors :
        \/ u.route[s] = t.route[s] \/ u.route[s] = NoFacet
        \/ \E j \in 1 .. k : s \in ToSet(Interface[r][cs[j]]) /\ u.route[s] = <<cs[j], run>>

\* No plan routes a function to another facet than the new ones of its components.
LEMMA PlanServes ==
    ASSUME NEW r, NEW run, NEW cs, NEW O, PlanType(r, run, cs, O), NEW t \in Sound({}),
           UpdateImplementation(t, PlanCuts(r, run, cs, O)).ok
    PROVE  ServedBy(t, UpdateImplementation(t, PlanCuts(r, run, cs, O)), r, run, cs, Len(cs))
  <1>. DEFINE N == Len(cs)
              after == UpdateImplementation(t, PlanCuts(r, run, cs, O))
  <1>1. PICK g : g[0] = t /\ g[N] = after /\ PlanRun(g, r, run, cs, O)
    BY PlanRuns
  <1>2. N \in Nat
    BY DEF PlanType
  <1>. DEFINE S == {n \in 0 .. N : ServedBy(t, g[n], r, run, cs, n)}
  <1>3. 0 \in S
    BY <1>1, <1>2 DEF ServedBy
  <1>4. ASSUME NEW n \in 1 .. N, n - 1 \in S PROVE n \in S
    <2>1. /\ n \in 0 .. N /\ n \in 1 .. n /\ \A j \in 1 .. n - 1 : j \in 1 .. n
          /\ ServedBy(t, g[n - 1], r, run, cs, n - 1)
      BY <1>2, <1>4
    <2>2. Upgraded(g[n - 1], g[n], <<cs[n], run>>, ToSet(Interface[r][cs[n]]), ToSet(O[n]))
      BY <1>1 DEF PlanRun
    <2>3. ASSUME NEW s \in Selectors
          PROVE  \/ g[n].route[s] = t.route[s] \/ g[n].route[s] = NoFacet
                 \/ \E j \in 1 .. n : s \in ToSet(Interface[r][cs[j]]) /\ g[n].route[s] = <<cs[j], run>>
      <3>1. \/ s \in ToSet(Interface[r][cs[n]]) /\ g[n].route[s] = <<cs[n], run>>
            \/ g[n].route[s] = NoFacet
            \/ g[n].route[s] = g[n - 1].route[s]
        BY <2>2, Zenon DEF Upgraded
      <3>2. \/ g[n - 1].route[s] = t.route[s] \/ g[n - 1].route[s] = NoFacet
            \/ \E j \in 1 .. n - 1 : s \in ToSet(Interface[r][cs[j]])
                                     /\ g[n - 1].route[s] = <<cs[j], run>>
        BY <2>1, Zenon DEF ServedBy
      <3>. QED
        BY <2>1, <3>1, <3>2, Zenon
    <2>4. ServedBy(t, g[n], r, run, cs, n)
      BY <2>3, Zenon DEF ServedBy
    <2>. QED
      BY <2>1, <2>4
  <1>. HIDE DEF S
  <1>5. \A n \in 0 .. N : n \in S
    BY <1>2, <1>3, <1>4, UpTo
  <1>6. N \in S
    BY <1>2, <1>5
  <1>. QED
    BY <1>1, <1>6 DEF S

\* The old functions are those that the facets of the components serve.
Exact(t, cs, O) ==
    \A i \in 1 .. Len(cs) : \A s \in Selectors :
        s \in ToSet(O[i]) <=> t.route[s] # NoFacet /\ t.route[s][1] = cs[i]

\* A function is served by a facet of another component than the first k.
Aside(t, cs, k, s) == t.route[s] # NoFacet /\ \A j \in 1 .. k : t.route[s][1] # cs[j]

\* The first k components are upgraded and the others as they were.
Halfway(t, u, r, run, cs, k) ==
    \A s \in Selectors :
        /\ u.route[s] # NoFacet =>
               \/ \E j \in 1 .. k : s \in ToSet(Interface[r][cs[j]]) /\ u.route[s] = <<cs[j], run>>
               \/ Aside(t, cs, k, s) /\ u.route[s] = t.route[s]
        /\ \A j \in 1 .. k : s \in ToSet(Interface[r][cs[j]]) => u.route[s] = <<cs[j], run>>
        /\ Aside(t, cs, k, s) => u.route[s] = t.route[s]

\* The next component of a plan that was computed from this table.
LEMMA HalfwayNext ==
    ASSUME NEW r, NEW run, NEW cs, NEW O, PlanType(r, run, cs, O), NEW t, Exact(t, cs, O),
           NEW k \in 1 .. Len(cs), NEW v, NEW u, Halfway(t, v, r, run, cs, k - 1),
           Upgraded(v, u, <<cs[k], run>>, ToSet(Interface[r][cs[k]]), ToSet(O[k]))
    PROVE  Halfway(t, u, r, run, cs, k)
  <1>. DEFINE New(j) == ToSet(Interface[r][cs[j]])
              f(j) == <<cs[j], run>>
  <1>1. /\ Len(cs) \in Nat /\ k \in 1 .. k
        /\ \A j \in 1 .. k - 1 : j \in 1 .. k /\ cs[j] # cs[k]
    <2>1. Len(cs) \in Nat /\ DOMAIN cs = 1 .. Len(cs)
      BY DEF PlanType
    <2>2. \A i, j \in 1 .. Len(cs) : cs[i] = cs[j] => i = j
      BY <2>1 DEF PlanType, IsInjective
    <2>3. \A j \in 1 .. k - 1 : j \in 1 .. Len(cs) /\ j # k /\ j \in 1 .. k
      BY <2>1
    <2>. QED
      BY <2>1, <2>2, <2>3
  <1>2. \A j \in 1 .. k : j \in 1 .. k - 1 \/ j = k
    BY <1>1
  <1>3. \A j \in 1 .. k : f(j)[1] = cs[j]
    OBVIOUS
  <1>4. \A j \in 1 .. k : f(j) # NoFacet
    <2>1. \A j \in 1 .. k : j \in 1 .. Len(cs)
      BY <1>1
    <2>2. \A j \in 1 .. Len(cs) : f(j) \in Facets
      BY GroupsType
    <2>. QED
      BY <2>1, <2>2, UpgradeAssumption
  <1>. SUFFICES ASSUME NEW s \in Selectors
                PROVE  /\ u.route[s] # NoFacet => \/ \E j \in 1 .. k : s \in New(j) /\ u.route[s] = f(j)
                                                  \/ Aside(t, cs, k, s) /\ u.route[s] = t.route[s]
                       /\ \A j \in 1 .. k : s \in New(j) => u.route[s] = f(j)
                       /\ Aside(t, cs, k, s) => u.route[s] = t.route[s]
    BY Zenon DEF Halfway
  <1>. HIDE DEF New, f
  <1>5. /\ v.route[s] # NoFacet => \/ \E j \in 1 .. k - 1 : s \in New(j) /\ v.route[s] = f(j)
                                   \/ Aside(t, cs, k - 1, s) /\ v.route[s] = t.route[s]
        /\ \A j \in 1 .. k - 1 : s \in New(j) => v.route[s] = f(j)
        /\ Aside(t, cs, k - 1, s) => v.route[s] = t.route[s]
    BY Zenon DEF Halfway, New, f
  <1>6. /\ s \in New(k) => /\ u.route[s] = f(k)
                           /\ s \notin ToSet(O[k]) => v.route[s] = NoFacet
        /\ s \notin New(k) /\ s \in ToSet(O[k]) => u.route[s] = NoFacet
        /\ s \notin New(k) /\ s \notin ToSet(O[k]) => u.route[s] = v.route[s]
    BY Zenon DEF Upgraded, New, f
  <1>7. s \in ToSet(O[k]) <=> t.route[s] # NoFacet /\ t.route[s][1] = cs[k]
    BY DEF Exact
  \* What is replaced or removed was not touched before.
  <1>8. s \in ToSet(O[k]) => Aside(t, cs, k - 1, s) /\ v.route[s] = t.route[s]
    BY <1>1, <1>5, <1>7 DEF Aside
  <1>9. Aside(t, cs, k, s) => Aside(t, cs, k - 1, s) /\ s \notin ToSet(O[k]) /\ t.route[s] # NoFacet
    BY <1>1, <1>7 DEF Aside
  <1>10. Aside(t, cs, k - 1, s) /\ s \notin ToSet(O[k]) => Aside(t, cs, k, s)
    BY <1>2, <1>7 DEF Aside
  <1>11. ASSUME NEW j \in 1 .. k, s \in New(j) PROVE u.route[s] = f(j)
    <2>1. CASE j = k
      BY <1>6, <1>11, <2>1
    <2>2. CASE j \in 1 .. k - 1
      <3>1. v.route[s] = f(j) /\ f(j) # NoFacet /\ f(j)[1] # cs[k]
        BY <1>1, <1>3, <1>4, <1>5, <1>11, <2>2
      <3>2. s \notin ToSet(O[k])
        BY <1>7, <1>8, <3>1
      <3>. QED
        BY <1>6, <3>1, <3>2
    <2>. QED
      BY <1>2, <2>1, <2>2
  <1>12. ASSUME Aside(t, cs, k, s) PROVE u.route[s] = t.route[s]
    BY <1>5, <1>6, <1>9, <1>12
  <1>13. ASSUME u.route[s] # NoFacet
         PROVE  \/ \E j \in 1 .. k : s \in New(j) /\ u.route[s] = f(j)
                \/ Aside(t, cs, k, s) /\ u.route[s] = t.route[s]
    <2>1. CASE s \in New(k)
      BY <1>1, <1>6, <2>1
    <2>2. CASE s \notin New(k)
      <3>1. s \notin ToSet(O[k]) /\ u.route[s] = v.route[s]
        BY <1>6, <1>13, <2>2
      <3>. QED
        BY <1>1, <1>5, <1>10, <1>13, <3>1
    <2>. QED
      BY <2>1, <2>2
  <1>. QED
    BY <1>11, <1>12, <1>13

\* A plan that meets the table it was computed from upgrades its components and no other.
LEMMA PlanUpgrades ==
    ASSUME NEW r, NEW run, NEW cs, NEW O, PlanType(r, run, cs, O), NEW t \in Sound({}),
           Exact(t, cs, O), UpdateImplementation(t, PlanCuts(r, run, cs, O)).ok
    PROVE  Halfway(t, UpdateImplementation(t, PlanCuts(r, run, cs, O)), r, run, cs, Len(cs))
  <1>. DEFINE N == Len(cs)
              after == UpdateImplementation(t, PlanCuts(r, run, cs, O))
  <1>1. PICK g : g[0] = t /\ g[N] = after /\ PlanRun(g, r, run, cs, O)
    BY PlanRuns
  <1>2. N \in Nat
    BY DEF PlanType
  <1>. DEFINE S == {n \in 0 .. N : Halfway(t, g[n], r, run, cs, n)}
  <1>3. 0 \in S
    BY <1>1, <1>2 DEF Halfway, Aside
  <1>4. ASSUME NEW n \in 1 .. N, n - 1 \in S PROVE n \in S
    <2>1. n \in 0 .. N /\ Halfway(t, g[n - 1], r, run, cs, n - 1)
      BY <1>2, <1>4
    <2>2. Upgraded(g[n - 1], g[n], <<cs[n], run>>, ToSet(Interface[r][cs[n]]), ToSet(O[n]))
      BY <1>1 DEF PlanRun
    <2>3. Halfway(t, g[n], r, run, cs, n)
      BY <2>1, <2>2, HalfwayNext
    <2>. QED
      BY <2>1, <2>3
  <1>. HIDE DEF S
  <1>5. \A n \in 0 .. N : n \in S
    BY <1>2, <1>3, <1>4, UpTo
  <1>6. N \in S
    BY <1>2, <1>5
  <1>. QED
    BY <1>1, <1>6 DEF S

\* After a plan each facet serves functions of its own release only.
LEMMA PlanOwned ==
    ASSUME NEW rel, NEW run \in 1 .. Len(rel), NEW cs, NEW O, PlanType(rel[run], run, cs, O),
           NEW t \in Sound({}), Owned(t.route, rel),
           UpdateImplementation(t, PlanCuts(rel[run], run, cs, O)).ok
    PROVE  Owned(UpdateImplementation(t, PlanCuts(rel[run], run, cs, O)).route, rel)
  <1>. DEFINE r == rel[run]
              u == UpdateImplementation(t, PlanCuts(r, run, cs, O))
  <1>1. ServedBy(t, u, r, run, cs, Len(cs))
    BY PlanServes
  <1>. HIDE DEF u
  <1>. SUFFICES ASSUME NEW s \in Selectors, u.route[s] # NoFacet
                PROVE  u.route[s][2] \in 1 .. Len(rel) /\ s \in ToSet(Released(u.route[s], rel))
    BY DEF Owned, u
  <1>2. CASE u.route[s] = t.route[s]
    BY <1>2 DEF Owned
  <1>3. ASSUME NEW j \in 1 .. Len(cs), s \in ToSet(Interface[r][cs[j]]), u.route[s] = <<cs[j], run>>
        PROVE  u.route[s][2] \in 1 .. Len(rel) /\ s \in ToSet(Released(u.route[s], rel))
    <2>1. u.route[s][1] = cs[j] /\ u.route[s][2] = run
      BY <1>3
    <2>. QED
      BY <1>3, <2>1, Zenon DEF Released
  <1>. QED
    BY <1>1, <1>2, <1>3 DEF ServedBy

\* After a plan that meets its table each component is served by one facet, completely.
LEMMA PlanTidy ==
    ASSUME NEW rel, NEW run \in 1 .. Len(rel), NEW cs, NEW O, PlanType(rel[run], run, cs, O),
           NEW t \in Sound({}), Tidy(t.route, rel), Exact(t, cs, O),
           UpdateImplementation(t, PlanCuts(rel[run], run, cs, O)).ok
    PROVE  Tidy(UpdateImplementation(t, PlanCuts(rel[run], run, cs, O)).route, rel)
  <1>. DEFINE r == rel[run]
              u == UpdateImplementation(t, PlanCuts(r, run, cs, O))
              N == Len(cs)
              New(j) == ToSet(Interface[r][cs[j]])
  <1>1. Halfway(t, u, r, run, cs, N)
    BY PlanUpgrades
  <1>. HIDE DEF u
  <1>. SUFFICES ASSUME NEW s \in Selectors, NEW x \in Selectors, u.route[s] # NoFacet
                PROVE  /\ x \in ToSet(Released(u.route[s], rel)) => u.route[x] = u.route[s]
                       /\ u.route[x] # NoFacet /\ u.route[x][1] = u.route[s][1] =>
                              u.route[x] = u.route[s]
    BY Zenon DEF Tidy, u
  <1>. HIDE DEF N, New
  <1>2. /\ \/ \E j \in 1 .. N : s \in New(j) /\ u.route[s] = <<cs[j], run>>
           \/ Aside(t, cs, N, s) /\ u.route[s] = t.route[s]
        /\ u.route[x] # NoFacet => \/ \E j \in 1 .. N : u.route[x] = <<cs[j], run>>
                                   \/ Aside(t, cs, N, x) /\ u.route[x] = t.route[x]
        /\ \A j \in 1 .. N : x \in New(j) => u.route[x] = <<cs[j], run>>
        /\ Aside(t, cs, N, x) => u.route[x] = t.route[x]
    BY <1>1, Zenon DEF Halfway, New, r
  <1>3. ASSUME NEW j \in 1 .. N, u.route[s] = <<cs[j], run>>
        PROVE  /\ x \in ToSet(Released(u.route[s], rel)) => u.route[x] = u.route[s]
               /\ u.route[x] # NoFacet /\ u.route[x][1] = u.route[s][1] => u.route[x] = u.route[s]
    <2>1. u.route[s][1] = cs[j] /\ u.route[s][2] = run
      BY <1>3
    <2>2. ToSet(Released(u.route[s], rel)) = New(j)
      BY <2>1, Zenon DEF Released, New
    <2>3. ASSUME NEW i \in 1 .. N, u.route[x] = <<cs[i], run>>, u.route[x][1] = cs[j]
          PROVE  u.route[x] = u.route[s]
      BY <1>3, <2>3
    <2>4. Aside(t, cs, N, x) => t.route[x][1] # cs[j]
      BY DEF Aside
    <2>. QED
      BY <1>2, <1>3, <2>1, <2>2, <2>3, <2>4, Zenon
  <1>4. ASSUME Aside(t, cs, N, s), u.route[s] = t.route[s]
        PROVE  /\ x \in ToSet(Released(u.route[s], rel)) => u.route[x] = u.route[s]
               /\ u.route[x] # NoFacet /\ u.route[x][1] = u.route[s][1] => u.route[x] = u.route[s]
    <2>1. /\ x \in ToSet(Released(t.route[s], rel)) => t.route[x] = t.route[s]
          /\ t.route[x] # NoFacet /\ t.route[x][1] = t.route[s][1] => t.route[x] = t.route[s]
      BY <1>4, Zenon DEF Tidy, Aside
    <2>2. t.route[x] = t.route[s] => Aside(t, cs, N, x)
      BY <1>4, Zenon DEF Aside
    <2>3. ASSUME NEW j \in 1 .. N, u.route[x] = <<cs[j], run>> PROVE u.route[x][1] # t.route[s][1]
      <3>1. u.route[x][1] = cs[j]
        BY <2>3
      <3>. QED
        BY <1>4, <3>1, Zenon DEF Aside
    <2>. QED
      BY <1>2, <1>4, <2>1, <2>2, <2>3, Zenon
  <1>. QED
    BY <1>2, <1>3, <1>4, Zenon

\* A plan does not succeed twice in a row: its first component has a function that no
\* other part of the plan concerns, and that its facet serves after the first time.
LEMMA PlanOnce ==
    ASSUME NEW r, NEW run, NEW cs, NEW O, PlanType(r, run, cs, O), NEW t \in Sound({}),
           NEW s \in Selectors, 1 \in 1 .. Len(cs), s \in ToSet(Interface[r][cs[1]]),
           \A j \in 2 .. Len(cs) : s \notin ToSet(Interface[r][cs[j]]) /\ s \notin ToSet(O[j]),
           NEW u, u = UpdateImplementation(t, PlanCuts(r, run, cs, O)), u.ok,
           UpdateImplementation(u, PlanCuts(r, run, cs, O)).ok
    PROVE  FALSE
  <1>. DEFINE N == Len(cs)
              f == <<cs[1], run>>
  <1>1. PICK g : g[0] = t /\ g[N] = u /\ PlanRun(g, r, run, cs, O)
    BY PlanRuns
  <1>2. u \in Sound({})
    <2>1. PlanCuts(r, run, cs, O) \in Seq(Cuts)
      BY GroupsType, FlattenType DEF PlanCuts
    <2>. QED
      BY <2>1, UpdateSound
  <1>3. PICK h : h[0] = u /\ PlanRun(h, r, run, cs, O)
    BY <1>2, PlanRuns
  <1>4. N \in Nat /\ 1 \in 1 .. N
    BY DEF PlanType
  <1>5. f # NoFacet
    BY <1>4, GroupsType, UpgradeAssumption
  <1>. HIDE DEF f
  <1>6. Upgraded(g[0], g[1], f, ToSet(Interface[r][cs[1]]), ToSet(O[1]))
    <2>1. 1 - 1 = 0
      OBVIOUS
    <2>. QED
      BY <1>1, <1>4, <2>1 DEF PlanRun, f
  <1>7. Upgraded(h[0], h[1], f, ToSet(Interface[r][cs[1]]), ToSet(O[1]))
    <2>1. 1 - 1 = 0
      OBVIOUS
    <2>. QED
      BY <1>3, <1>4, <2>1 DEF PlanRun, f
  <1>8. h[0].route[s] # f
    BY <1>5, <1>7, Zenon DEF Upgraded
  <1>. DEFINE S == {n \in 0 .. N : n >= 1 => g[n].route[s] = f}
  <1>9. 0 \in S
    BY <1>4
  <1>10. ASSUME NEW n \in 1 .. N, n - 1 \in S PROVE n \in S
    <2>1. n \in 0 .. N /\ (n = 1 \/ (n \in 2 .. N /\ n - 1 >= 1))
      BY <1>4
    <2>2. CASE n = 1
      <3>1. g[1].route[s] = f
        BY <1>6, Zenon DEF Upgraded
      <3>. QED
        BY <2>1, <2>2, <3>1
    <2>3. CASE n \in 2 .. N /\ n - 1 >= 1
      <3>1. g[n - 1].route[s] = f
        BY <1>10, <2>3
      <3>2. Upgraded(g[n - 1], g[n], <<cs[n], run>>, ToSet(Interface[r][cs[n]]), ToSet(O[n]))
        BY <1>1 DEF PlanRun
      <3>3. g[n].route[s] = g[n - 1].route[s]
        BY <2>3, <3>2, Zenon DEF Upgraded
      <3>. QED
        BY <2>1, <3>1, <3>3
    <2>. QED
      BY <2>1, <2>2, <2>3
  <1>. HIDE DEF S
  <1>11. \A n \in 0 .. N : n \in S
    BY <1>4, <1>9, <1>10, UpTo
  <1>12. N \in S /\ N >= 1
    BY <1>4, <1>11
  <1>13. u.route[s] = f
    BY <1>1, <1>12 DEF S
  <1>. QED
    BY <1>3, <1>8, <1>13

\* A plan without components changes nothing.
LEMMA EmptyPlan ==
    ASSUME NEW r, NEW run, NEW cs, NEW O, PlanType(r, run, cs, O), NEW t \in Sound({}),
           ~ (1 \in 1 .. Len(cs))
    PROVE  UpdateImplementation(t, PlanCuts(r, run, cs, O)) = t
  <1>. DEFINE G == Groups(r, run, cs, O)
  <1>1. Len(cs) \in Nat /\ G \in Seq(Seq(Cuts)) /\ Len(G) = Len(cs)
    BY GroupsType
  <1>2. Len(G) = 0
    BY <1>1
  <1>. HIDE DEF G
  <1>3. PICK g : g[0] = t /\ g[Len(G)] = UpdateImplementation(t, FlattenSeq(G))
    BY <1>1, UpdateFlatten
  <1>. QED
    BY <1>2, <1>3 DEF PlanCuts, G

-----------------------------------------------------------------------------
\* The removals of a reset.

RemovalType(cuts) ==
    /\ cuts \in Seq(Cuts)
    /\ \A i \in 1 .. Len(cuts) :
           /\ cuts[i].action = "remove" /\ cuts[i].implAddress = NoFacet
           /\ IsInjective(cuts[i].selectors)

RemovalRun(g, cuts) ==
    \A k \in 1 .. Len(cuts) :
        /\ cuts[k].selectors # << >>
        /\ Effect(g[k - 1], g[k], "remove", NoFacet, ToSet(cuts[k].selectors))

\* Removals that succeed have succeeded at each cut.
LEMMA RemovalRuns ==
    ASSUME NEW cuts, RemovalType(cuts), NEW t \in Sound({}), UpdateImplementation(t, cuts).ok
    PROVE  \E g : /\ g[0] = t /\ g[Len(cuts)] = UpdateImplementation(t, cuts)
                  /\ RemovalRun(g, cuts)
  <1>. DEFINE N == Len(cuts)
  <1>1. N \in Nat /\ \A k \in 1 .. N : cuts[k] \in Cuts
    BY DEF RemovalType
  <1>2. cuts \in Seq(Cuts)
    BY DEF RemovalType
  <1>3. PICK g : /\ g[0] = t
                 /\ \A n \in 1 .. N : g[n] = UpdateStep(g[n - 1], cuts[n])
                 /\ g[N] = UpdateImplementation(t, cuts)
    BY <1>2, UpdateRuns
  <1>. HIDE DEF N
  <1>4. \A n \in 0 .. N : g[n] \in Sound({})
    <2>. DEFINE S == {n \in 0 .. N : g[n] \in Sound({})}
    <2>1. 0 \in S
      BY <1>1, <1>3
    <2>2. ASSUME NEW n \in 1 .. N, n - 1 \in S PROVE n \in S
      <3>1. n \in 0 .. N /\ g[n - 1] \in Sound({}) /\ cuts[n] \in Cuts
        BY <1>1, <2>2
      <3>2. UpdateStep(g[n - 1], cuts[n]) \in Sound({})
        BY <3>1, UpdateStepSound
      <3>. QED
        BY <1>3, <3>1, <3>2
    <2>. HIDE DEF S
    <2>3. \A n \in 0 .. N : n \in S
      BY <1>1, <2>1, <2>2, UpTo
    <2>. QED
      BY <2>3 DEF S
  <1>5. ASSUME NEW k \in 0 .. N, ~ g[k].ok PROVE FALSE
    <2>. DEFINE S == {n \in 0 .. N : n >= k => ~ g[n].ok}
    <2>1. 0 \in S
      BY <1>1, <1>5
    <2>2. ASSUME NEW n \in 1 .. N, n - 1 \in S PROVE n \in S
      <3>1. n \in 0 .. N /\ n - 1 \in 0 .. N
        BY <1>1
      <3>2. CASE n = k
        BY <1>5, <3>1, <3>2
      <3>3. CASE n > k
        <4>1. ~ g[n - 1].ok
          BY <1>1, <2>2, <3>1, <3>3
        <4>2. UpdateStep(g[n - 1], cuts[n]) = g[n - 1]
          BY <4>1 DEF UpdateStep
        <4>. QED
          BY <1>3, <3>1, <4>1, <4>2
      <3>4. CASE n < k
        BY <1>1, <3>1, <3>4
      <3>. QED
        BY <1>1, <3>2, <3>3, <3>4
    <2>. HIDE DEF S
    <2>3. \A n \in 0 .. N : n \in S
      BY <1>1, <2>1, <2>2, UpTo
    <2>4. N \in S /\ N >= k
      BY <1>1, <2>3
    <2>. QED
      BY <1>3, <2>4 DEF S
  <1>6. ASSUME NEW k \in 1 .. N
        PROVE  /\ cuts[k].selectors # << >>
               /\ Effect(g[k - 1], g[k], "remove", NoFacet, ToSet(cuts[k].selectors))
    <2>1. k \in 0 .. N /\ k - 1 \in 0 .. N
      BY <1>1
    <2>2. g[k - 1] \in Sound({}) /\ g[k - 1].ok /\ g[k].ok
      BY <1>4, <1>5, <2>1
    <2>3. g[k] = Apply(g[k - 1], cuts[k])
      BY <1>3, <2>2 DEF UpdateStep
    <2>4. /\ cuts[k] \in Cuts /\ IsInjective(cuts[k].selectors)
          /\ cuts[k].action = "remove" /\ cuts[k].implAddress = NoFacet
      BY <1>1 DEF RemovalType, N
    <2>5. Apply(g[k - 1], cuts[k]).ok
      BY <2>2, <2>3
    <2>6. /\ cuts[k].selectors # << >>
          /\ Effect(g[k - 1], Apply(g[k - 1], cuts[k]), cuts[k].action, cuts[k].implAddress,
                    ToSet(cuts[k].selectors))
      BY <2>2, <2>4, <2>5, ApplyEffect
    <2>. QED
      BY <2>3, <2>4, <2>6, Zenon
  <1>. QED
    BY <1>3, <1>6 DEF RemovalRun, N

\* What the first k cuts removed has no route any more, the rest has the one it had.
Removed(t, u, cuts, k) ==
    \A s \in Selectors :
        /\ \A j \in 1 .. k : s \in ToSet(cuts[j].selectors) => u.route[s] = NoFacet
        /\ u.route[s] = t.route[s] \/ \E j \in 1 .. k : s \in ToSet(cuts[j].selectors)

\* What removals do to the routes if they succeed.
LEMMA Removal ==
    ASSUME NEW cuts, RemovalType(cuts), NEW t \in Sound({}), UpdateImplementation(t, cuts).ok
    PROVE  Removed(t, UpdateImplementation(t, cuts), cuts, Len(cuts))
  <1>. DEFINE N == Len(cuts)
              after == UpdateImplementation(t, cuts)
  <1>1. PICK g : g[0] = t /\ g[N] = after /\ RemovalRun(g, cuts)
    BY RemovalRuns
  <1>2. N \in Nat
    BY DEF RemovalType
  <1>. DEFINE S == {n \in 0 .. N : Removed(t, g[n], cuts, n)}
  <1>3. 0 \in S
    BY <1>1, <1>2 DEF Removed
  <1>4. ASSUME NEW n \in 1 .. N, n - 1 \in S PROVE n \in S
    <2>1. /\ n \in 0 .. N /\ Removed(t, g[n - 1], cuts, n - 1)
          /\ n \in 1 .. n /\ \A j \in 1 .. n - 1 : j \in 1 .. n
          /\ \A j \in 1 .. n : j = n \/ j \in 1 .. n - 1
      BY <1>2, <1>4
    <2>2. Effect(g[n - 1], g[n], "remove", NoFacet, ToSet(cuts[n].selectors))
      BY <1>1 DEF RemovalRun
    <2>3. ASSUME NEW s \in Selectors
          PROVE  /\ \A j \in 1 .. n : s \in ToSet(cuts[j].selectors) => g[n].route[s] = NoFacet
                 /\ g[n].route[s] = t.route[s] \/ \E j \in 1 .. n : s \in ToSet(cuts[j].selectors)
      <3>1. /\ s \in ToSet(cuts[n].selectors) => g[n].route[s] = NoFacet
            /\ s \notin ToSet(cuts[n].selectors) => g[n].route[s] = g[n - 1].route[s]
        BY <2>2 DEF Effect, Result
      <3>2. /\ \A j \in 1 .. n - 1 : s \in ToSet(cuts[j].selectors) => g[n - 1].route[s] = NoFacet
            /\ g[n - 1].route[s] = t.route[s] \/ \E j \in 1 .. n - 1 : s \in ToSet(cuts[j].selectors)
        BY <2>1, Zenon DEF Removed
      <3>. QED
        BY <2>1, <3>1, <3>2, Zenon
    <2>4. Removed(t, g[n], cuts, n)
      BY <2>3, Zenon DEF Removed
    <2>. QED
      BY <2>1, <2>4
  <1>. HIDE DEF S
  <1>5. \A n \in 0 .. N : n \in S
    BY <1>2, <1>3, <1>4, UpTo
  <1>6. N \in S
    BY <1>2, <1>5
  <1>. QED
    BY <1>1, <1>6 DEF S

\* Each cut removes all that some facet serves.
WholeFacets(route, cuts) ==
    \A i \in 1 .. Len(cuts) : \A s \in ToSet(cuts[i].selectors) : \A x \in Selectors :
        route[x] = route[s] => x \in ToSet(cuts[i].selectors)

\* Removals give no facet a function.
LEMMA RemovalOwned ==
    ASSUME NEW rel, NEW cuts, RemovalType(cuts), NEW t \in Sound({}), Owned(t.route, rel),
           UpdateImplementation(t, cuts).ok
    PROVE  Owned(UpdateImplementation(t, cuts).route, rel)
  <1>. DEFINE u == UpdateImplementation(t, cuts)
  <1>1. Removed(t, u, cuts, Len(cuts))
    BY Removal
  <1>. HIDE DEF u
  <1>2. \A s \in Selectors : u.route[s] # NoFacet => u.route[s] = t.route[s]
    BY <1>1, Zenon DEF Removed
  <1>3. Owned(u.route, rel)
    BY <1>2 DEF Owned
  <1>. QED
    BY <1>3 DEF u

\* Removing all that some facets serve leaves the others complete.
LEMMA RemovalTidy ==
    ASSUME NEW rel, NEW cuts, RemovalType(cuts), NEW t \in Sound({}), Tidy(t.route, rel),
           WholeFacets(t.route, cuts), UpdateImplementation(t, cuts).ok
    PROVE  Tidy(UpdateImplementation(t, cuts).route, rel)
  <1>. DEFINE u == UpdateImplementation(t, cuts)
              Cleared(s) == \E j \in 1 .. Len(cuts) : s \in ToSet(cuts[j].selectors)
  <1>1. Removed(t, u, cuts, Len(cuts))
    BY Removal
  <1>. HIDE DEF u
  <1>2. \A s \in Selectors : /\ u.route[s] # NoFacet => u.route[s] = t.route[s] /\ ~ Cleared(s)
                             /\ ~ Cleared(s) => u.route[s] = t.route[s]
    BY <1>1, Zenon DEF Removed
  <1>3. \A s, x \in Selectors : Cleared(x) /\ t.route[s] = t.route[x] => Cleared(s)
    BY Zenon DEF WholeFacets
  <1>. HIDE DEF Cleared
  <1>4. ASSUME NEW s \in Selectors, NEW x \in Selectors, u.route[s] # NoFacet
        PROVE  /\ x \in ToSet(Released(u.route[s], rel)) => u.route[x] = u.route[s]
               /\ u.route[x] # NoFacet /\ u.route[x][1] = u.route[s][1] => u.route[x] = u.route[s]
    <2>1. u.route[s] = t.route[s] /\ ~ Cleared(s) /\ t.route[s] # NoFacet
      BY <1>2, <1>4
    <2>2. /\ x \in ToSet(Released(t.route[s], rel)) => t.route[x] = t.route[s]
          /\ t.route[x] # NoFacet /\ t.route[x][1] = t.route[s][1] => t.route[x] = t.route[s]
      BY <2>1, Zenon DEF Tidy
    <2>. QED
      BY <1>2, <1>3, <2>1, <2>2, Zenon
  <1>5. Tidy(u.route, rel)
    BY <1>4, Zenon DEF Tidy
  <1>. QED
    BY <1>5 DEF u

\* What was removed cannot be removed again.
LEMMA RemovalOnce ==
    ASSUME NEW cuts, RemovalType(cuts), NEW t \in Sound({}), 1 \in 1 .. Len(cuts),
           NEW u, u = UpdateImplementation(t, cuts), u.ok, UpdateImplementation(u, cuts).ok
    PROVE  FALSE
  <1>1. Removed(t, u, cuts, Len(cuts))
    BY Removal
  <1>2. cuts \in Seq(Cuts)
    BY DEF RemovalType
  <1>3. u \in Sound({})
    BY <1>2, UpdateSound
  <1>4. PICK h : h[0] = u /\ RemovalRun(h, cuts)
    BY <1>3, RemovalRuns
  <1>5. /\ cuts[1].selectors # << >> /\ cuts[1].selectors \in Seq(Selectors)
        /\ Effect(u, h[1], "remove", NoFacet, ToSet(cuts[1].selectors))
    <2>1. 1 - 1 = 0
      OBVIOUS
    <2>2. cuts[1] \in Cuts
      BY <1>2
    <2>. QED
      BY <1>4, <2>1, <2>2 DEF RemovalRun, Cuts
  <1>. DEFINE s == cuts[1].selectors[1]
  <1>6. s \in ToSet(cuts[1].selectors) /\ s \in Selectors
    <2>1. 1 \in 1 .. Len(cuts[1].selectors)
      BY <1>5
    <2>. QED
      BY <1>5, <2>1, ElementsByPosition
  <1>. HIDE DEF s
  <1>7. u.route[s] = NoFacet
    BY <1>1, <1>6 DEF Removed
  <1>8. u.route[s] # NoFacet
    BY <1>5, <1>6 DEF Effect, Accepts
  <1>. QED
    BY <1>7, <1>8

\* A reset that finds nothing to remove changes nothing.
LEMMA NoRemoval ==
    ASSUME NEW cuts, RemovalType(cuts), NEW t \in Sound({}), ~ (1 \in 1 .. Len(cuts))
    PROVE  UpdateImplementation(t, cuts) = t
  <1>1. cuts \in Seq(Cuts)
    BY DEF RemovalType
  <1>2. PICK g : g[0] = t /\ g[Len(cuts)] = UpdateImplementation(t, cuts)
    BY <1>1, UpdateRuns
  <1>3. Len(cuts) = 0
    BY <1>1
  <1>. QED
    BY <1>2, <1>3

-----------------------------------------------------------------------------
\* The updates of the scripts.

\* An update of an upgrade script: what it replaces belongs to the component at some release,
\* and if it names the right facets it is all that they served.
PlanFor(u, r, run, cs, O) ==
    /\ PlanType(r, run, cs, O)
    /\ u.cuts = PlanCuts(r, run, cs, O)
    /\ \A i \in 1 .. Len(cs) : \A s \in ToSet(O[i]) :
           \E q \in Releases : s \in ToSet(Interface[q][cs[i]])
    /\ u.named => \A i \in 1 .. Len(cs) : \A s \in Selectors :
           s \in ToSet(O[i]) <=> u.basis[s] # NoFacet /\ u.basis[s][1] = cs[i]

Planned(u, rel) == \E run \in 1 .. Len(rel) : \E cs, O : PlanFor(u, rel[run], run, cs, O)

\* An update of a reset.
Clearing(u) == RemovalType(u.cuts) /\ WholeFacets(u.basis, u.cuts)

FromScript(u, rel) == Planned(u, rel) \/ Clearing(u)

\* What was known of facets and updates stays true when another run deploys facets.
LEMMA RunsGrow ==
    ASSUME NEW rel \in Seq(Releases), NEW r \in Releases
    PROVE  /\ \A route : Owned(route, rel) => /\ Owned(route, Append(rel, r))
                                              /\ Tidy(route, rel) => Tidy(route, Append(rel, r))
           /\ \A u : FromScript(u, rel) => FromScript(u, Append(rel, r))
  <1>. DEFINE more == Append(rel, r)
  <1>1. \A n \in 1 .. Len(rel) : n \in 1 .. Len(more) /\ more[n] = rel[n]
    OBVIOUS
  <1>. HIDE DEF more
  <1>2. ASSUME NEW route, Owned(route, rel)
        PROVE  Owned(route, more) /\ (Tidy(route, rel) => Tidy(route, more))
    <2>1. \A s \in Selectors : route[s] # NoFacet =>
              /\ route[s][2] \in 1 .. Len(rel) /\ s \in ToSet(Released(route[s], rel))
              /\ Released(route[s], more) = Released(route[s], rel)
      BY <1>1, <1>2 DEF Owned, Released
    <2>2. Owned(route, more)
      BY <1>1, <2>1, Zenon DEF Owned
    <2>3. Tidy(route, rel) => Tidy(route, more)
      BY <2>1, Zenon DEF Tidy
    <2>. QED
      BY <2>2, <2>3
  <1>3. ASSUME NEW u, Planned(u, rel) PROVE Planned(u, more)
    <2>1. PICK run \in 1 .. Len(rel) : \E cs, O : PlanFor(u, rel[run], run, cs, O)
      BY <1>3, Zenon DEF Planned
    <2>2. run \in 1 .. Len(more) /\ more[run] = rel[run]
      BY <1>1
    <2>. QED
      BY <2>1, <2>2, Zenon DEF Planned
  <1>. QED
    BY <1>2, <1>3, Zenon DEF FromScript, more

\* What an update that succeeds leaves, by what it was computed from.
LEMMA FromScriptOwned ==
    ASSUME NEW rel, NEW u, FromScript(u, rel), NEW t \in Sound({}), Owned(t.route, rel),
           UpdateImplementation(t, u.cuts).ok
    PROVE  Owned(UpdateImplementation(t, u.cuts).route, rel)
  <1>1. CASE Planned(u, rel)
    <2>1. PICK run \in 1 .. Len(rel) : \E cs, O : PlanFor(u, rel[run], run, cs, O)
      BY <1>1, Zenon DEF Planned
    <2>2. PICK cs, O : PlanFor(u, rel[run], run, cs, O)
      BY <2>1
    <2>. USE DEF PlanFor
    <2>3. UpdateImplementation(t, PlanCuts(rel[run], run, cs, O)).ok
      BY <2>2
    <2>4. Owned(UpdateImplementation(t, PlanCuts(rel[run], run, cs, O)).route, rel)
      BY <2>2, <2>3, PlanOwned
    <2>. QED
      BY <2>2, <2>4
  <1>2. CASE Clearing(u)
    BY <1>2, RemovalOwned DEF Clearing
  <1>. QED
    BY <1>1, <1>2 DEF FromScript

\* An update that meets its table and names the right facets keeps the table tidy.
LEMMA FromScriptTidy ==
    ASSUME NEW rel, NEW u, FromScript(u, rel), u.named, NEW t \in Sound({}), u.basis = t.route,
           Tidy(t.route, rel), UpdateImplementation(t, u.cuts).ok
    PROVE  Tidy(UpdateImplementation(t, u.cuts).route, rel)
  <1>1. CASE Planned(u, rel)
    <2>1. PICK run \in 1 .. Len(rel) : \E cs, O : PlanFor(u, rel[run], run, cs, O)
      BY <1>1, Zenon DEF Planned
    <2>2. PICK cs, O : PlanFor(u, rel[run], run, cs, O)
      BY <2>1
    <2>. USE DEF PlanFor
    <2>3. UpdateImplementation(t, PlanCuts(rel[run], run, cs, O)).ok
      BY <2>2
    <2>4. Exact(t, cs, O)
      BY <2>2 DEF Exact
    <2>5. Tidy(UpdateImplementation(t, PlanCuts(rel[run], run, cs, O)).route, rel)
      BY <2>2, <2>3, <2>4, PlanTidy
    <2>. QED
      BY <2>2, <2>5
  <1>2. CASE Clearing(u)
    <2>1. RemovalType(u.cuts) /\ WholeFacets(t.route, u.cuts)
      BY <1>2 DEF Clearing
    <2>. QED
      BY <2>1, RemovalTidy
  <1>. QED
    BY <1>1, <1>2 DEF FromScript

\* Each component has a function that no other component has, in whatever release.
OwnFunctions ==
    \A r \in Releases, c \in ToSet(Components) : \E s \in ToSet(Interface[r][c]) :
        \A q \in Releases, d \in ToSet(Components) \ {c} : s \notin ToSet(Interface[q][d])

\* An update that succeeds after itself has nothing to do.
LEMMA FromScriptOnce ==
    ASSUME OwnFunctions, NEW rel, NEW u, FromScript(u, rel), NEW t \in Sound({}),
           NEW v, v = UpdateImplementation(t, u.cuts), v.ok,
           UpdateImplementation(v, u.cuts).ok
    PROVE  UpdateImplementation(v, u.cuts) = v
  <1>1. CASE Planned(u, rel)
    <2>1. PICK run \in 1 .. Len(rel) : \E cs, O : PlanFor(u, rel[run], run, cs, O)
      BY <1>1, Zenon DEF Planned
    <2>2. PICK cs, O : PlanFor(u, rel[run], run, cs, O)
      BY <2>1
    <2>. USE DEF PlanFor
    <2>. DEFINE r == rel[run]
    <2>3. v = UpdateImplementation(t, PlanCuts(r, run, cs, O))
      BY <2>2
    <2>4. UpdateImplementation(v, PlanCuts(r, run, cs, O)).ok
      BY <2>2
    <2>5. PlanType(r, run, cs, O)
      BY <2>2
    <2>6. CASE 1 \in 1 .. Len(cs)
      <3>1. r \in Releases /\ Len(cs) \in Nat /\ \A i \in 1 .. Len(cs) : cs[i] \in ToSet(Components)
        BY <2>5 DEF PlanType
      <3>2. \A i \in 2 .. Len(cs) : i \in 1 .. Len(cs) /\ cs[i] # cs[1]
        <4>1. DOMAIN cs = 1 .. Len(cs)
          BY <2>5 DEF PlanType
        <4>2. \A i, j \in 1 .. Len(cs) : cs[i] = cs[j] => i = j
          BY <2>5, <4>1 DEF PlanType, IsInjective
        <4>3. \A i \in 2 .. Len(cs) : i \in 1 .. Len(cs) /\ i # 1
          BY <3>1
        <4>. QED
          BY <2>6, <4>2, <4>3, Zenon
      <3>3. cs[1] \in ToSet(Components)
        BY <2>6, <3>1
      <3>4. PICK s \in ToSet(Interface[r][cs[1]]) :
                \A q \in Releases, d \in ToSet(Components) \ {cs[1]} : s \notin ToSet(Interface[q][d])
        BY <3>1, <3>3, Zenon DEF OwnFunctions
      <3>5. \A i \in 2 .. Len(cs) : \A q \in Releases : s \notin ToSet(Interface[q][cs[i]])
        BY <3>1, <3>2, <3>4
      <3>6. \A i \in 2 .. Len(cs) : s \notin ToSet(Interface[r][cs[i]]) /\ s \notin ToSet(O[i])
        BY <2>2, <3>1, <3>2, <3>5, Zenon
      <3>7. s \in Selectors
        <4>1. Interface[r][cs[1]] \in Seq(Selectors)
          BY <3>1, <3>3, InterfaceType
        <4>. QED
          BY <4>1, ElementsByPosition
      <3>. HIDE DEF r
      <3>. QED
        BY <2>3, <2>4, <2>5, <2>6, <3>4, <3>6, <3>7, PlanOnce
    <2>7. CASE ~ (1 \in 1 .. Len(cs))
      <3>1. v \in Sound({})
        BY <2>3, <2>5, <2>7, EmptyPlan
      <3>2. UpdateImplementation(v, PlanCuts(r, run, cs, O)) = v
        BY <2>5, <2>7, <3>1, EmptyPlan
      <3>. QED
        BY <2>2, <3>2
    <2>. QED
      BY <2>6, <2>7
  <1>2. CASE Clearing(u)
    <2>1. RemovalType(u.cuts)
      BY <1>2 DEF Clearing
    <2>2. CASE 1 \in 1 .. Len(u.cuts)
      BY <2>1, <2>2, RemovalOnce
    <2>3. CASE ~ (1 \in 1 .. Len(u.cuts))
      <3>1. v \in Sound({})
        BY <2>1, <2>3, NoRemoval
      <3>. QED
        BY <2>1, <2>3, <3>1, NoRemoval
    <2>. QED
      BY <2>2, <2>3
  <1>. QED
    BY <1>1, <1>2 DEF FromScript

-----------------------------------------------------------------------------
\* The deployment of the pool.

\* The functions of the components up to n are served by their facets, and no other is.
ServedUpTo(t, r, n) ==
    \A s \in Selectors :
        /\ t.route[s] # NoFacet => \E j \in 1 .. n : s \in ToSet(Interface[r][Components[j]])
        /\ \A j \in 1 .. n : s \in ToSet(Interface[r][Components[j]]) =>
               t.route[s] = <<Components[j], 1>>

Deployable(r, n) == {t \in Tables : t.ok /\ Linked(t, {}) /\ ServedUpTo(t, r, n)}

\* At the start of the deployment nothing is served.
LEMMA NothingServed == \A r : EmptyTable(Facets, Selectors) \in Deployable(r, 0)
  <1>. DEFINE t == EmptyTable(Facets, Selectors)
  <1>1. t \in Tables
    BY DEF EmptyTable, Tables
  <1>2. /\ t.ok /\ t.impls = << >> /\ Len(t.impls) = 0
        /\ \A f \in Facets : t.list[f] = << >>
        /\ \A s \in Selectors : t.route[s] = NoFacet
    BY DEF EmptyTable
  <1>. HIDE DEF t
  <1>3. Linked(t, {})
    BY <1>1, <1>2 DEF Linked, RoutesLinked, ListsLinked, FacetsLinked, ImplsLinked, IsListed
  <1>. QED
    BY <1>1, <1>2, <1>3 DEF Deployable, ServedUpTo, t

\* The facet of the next component can be added: none of its functions is served yet.
LEMMA NextComponentAdded ==
    ASSUME NEW r \in Releases, Compiles(r), NEW n \in 1 .. Len(Components),
           NEW t \in Deployable(r, n - 1), <<Components[n], 1>> \in Facets,
           Interface[r][Components[n]] # << >>
    PROVE  Apply(t, Cut(<<Components[n], 1>>, "add", Interface[r][Components[n]]))
               \in Deployable(r, n)
  <1>. DEFINE f == <<Components[n], 1>>
              q == Interface[r][Components[n]]
              u == AddFacetIfNew(t, f)
              N == Len(q)
              Before(s) == \E j \in 1 .. n - 1 : s \in ToSet(Interface[r][Components[j]])
              Added(v, k) == \A s \in Selectors : v.route[s] # NoFacet =>
                                 Before(s) \/ \E i \in 1 .. k : s = q[i]
              Ds == [k \in 0 .. N |-> {v \in Tables : v.ok /\ Linked(v, {f}) /\ Added(v, k)}]
  <1>1. q \in Seq(Selectors) /\ IsInjective(q) /\ f \in Facets /\ NoFacet \notin Facets
    BY UpgradeAssumption
  <1>2. t \in Tables /\ t.ok /\ Linked(t, {}) /\ ServedUpTo(t, r, n - 1)
    BY DEF Deployable
  <1>3. N \in Nat /\ N \in 0 .. N /\ DOMAIN q = 1 .. N
    BY <1>1
  <1>4. \A s \in ToSet(q) : ~ Before(s)
    <2>1. n - 1 \in Int /\ \A j \in 1 .. n - 1 : j \in 1 .. Len(Components) /\ j # n
      BY UpgradeAssumption
    <2>. QED
      BY <2>1 DEF Compiles
  <1>5. Apply(t, Cut(f, "add", q)) = CutAll(u, "add", q, f)
    <2>. HIDE DEF f, q
    <2>1. q # << >> /\ f # NoFacet
      BY <1>1 DEF q
    <2>. QED
      BY <2>1 DEF Apply, Cut, AddFunctions
  <1>6. Linked(u, {f}) /\ u.ok /\ u.route = t.route
    BY <1>1, <1>2, AddFacetIfNewLinks
  <1>7. q # << >>
    OBVIOUS
  <1>. HIDE DEF f, q, u
  <1>8. u \in Sound(Marked("add", f)) /\ "add" \in Actions /\ Marked("add", f) = {f}
    BY <1>6 DEF Sound, Linked, Marked, Actions
  <1>9. PICK h : IsCutRun(h, u, "add", q, f)
    BY <1>1, <1>8, CutAllRuns
  <1>10. /\ h[0] = u /\ h[N] = CutAll(u, "add", q, f)
         /\ \A k \in 1 .. N : h[k] = CutStep(h[k - 1], "add", q[k], f)
    BY <1>9 DEF IsCutRun
  <1>. HIDE DEF N, Before
  <1>11. h[0] \in Ds[0]
    <2>1. u \in Tables
      BY <1>6 DEF Linked
    <2>2. \A s \in Selectors : u.route[s] # NoFacet => Before(s)
      BY <1>2, <1>6 DEF ServedUpTo, Before
    <2>3. 0 \in 0 .. N
      BY <1>3
    <2>. QED
      BY <1>6, <1>10, <2>1, <2>2, <2>3
  <1>12. ASSUME NEW k \in 1 .. N, h[k - 1] \in Ds[k - 1] PROVE h[k] \in Ds[k]
    <2>. DEFINE v == h[k - 1]
                s == q[k]
    <2>1. k \in 0 .. N /\ k - 1 \in 0 .. N /\ k - 1 \in Nat
      BY <1>3
    <2>2. v \in Tables /\ v.ok /\ Linked(v, {f}) /\ Added(v, k - 1)
      BY <1>12, <2>1
    <2>3. s \in Selectors /\ s \in ToSet(q)
      <3>1. k \in 1 .. Len(q)
        BY DEF N
      <3>. QED
        BY <1>1, <3>1, ElementsByPosition
    <2>4. h[k] = AddOne(v, s, f)
      BY <1>10, <2>2 DEF CutStep, CutOne
    <2>. HIDE DEF v
    <2>5. v.route[s] = NoFacet
      <3>. SUFFICES ASSUME v.route[s] # NoFacet PROVE FALSE
        OBVIOUS
      <3>1. PICK i \in 1 .. k - 1 : s = q[i]
        BY <1>4, <2>2, <2>3
      <3>2. i \in 1 .. N /\ i # k
        BY <1>3, <2>1
      <3>. QED
        BY <1>1, <1>3, <3>1, <3>2 DEF IsInjective
    <2>6. h[k] = AddFunction(v, s, f)
      BY <2>4, <2>5 DEF AddOne
    <2>7. /\ Linked(h[k], {f}) /\ h[k].ok
          /\ \A x \in Selectors \ {s} : h[k].route[x] = v.route[x]
      BY <1>1, <2>2, <2>3, <2>5, <2>6, AddFunctionLinks
    <2>8. Added(h[k], k)
      <3>. SUFFICES ASSUME NEW x \in Selectors, h[k].route[x] # NoFacet, ~ Before(x)
                    PROVE  \E i \in 1 .. k : x = q[i]
        OBVIOUS
      <3>1. CASE x = s
        BY <1>3, <3>1
      <3>2. CASE x # s
        <4>1. v.route[x] # NoFacet
          BY <2>7, <3>2
        <4>2. PICK i \in 1 .. k - 1 : x = q[i]
          BY <2>2, <4>1
        <4>. QED
          BY <2>1, <4>2
      <3>. QED
        BY <3>1, <3>2
    <2>9. h[k] \in Tables
      BY <2>7 DEF Linked
    <2>. QED
      BY <2>1, <2>7, <2>8, <2>9
  <1>. DEFINE w == CutAll(u, "add", q, f)
  <1>13. w \in Tables /\ w.ok /\ Linked(w, {f}) /\ Added(w, N)
    <2>. HIDE DEF Ds
    <2>1. \A k \in 0 .. N : h[k] \in Ds[k]
      BY <1>3, <1>11, <1>12, Iteration
    <2>2. w \in Ds[N]
      BY <1>3, <1>10, <2>1
    <2>. QED
      BY <1>3, <2>2 DEF Ds
  <1>14. w.list[f] # << >>
    BY <1>1, <1>7, <1>8, <1>13, CutAllSound
  <1>. HIDE DEF w
  <1>15. Linked(w, {})
    BY <1>13, <1>14, MarkedServes
  <1>16. Effect(t, w, "add", f, ToSet(q))
    <2>. DEFINE c == Cut(f, "add", q)
    <2>1. c \in Cuts /\ c.selectors = q /\ c.action = "add" /\ c.implAddress = f
      BY <1>1 DEF Cut, Cuts, Actions
    <2>2. w = Apply(t, c)
      BY <1>5 DEF w
    <2>3. t \in Sound({})
      BY <1>2 DEF Sound
    <2>. HIDE DEF c
    <2>. QED
      BY <1>1, <1>2, <1>13, <2>1, <2>2, <2>3, ApplyEffect
  <1>17. ServedUpTo(w, r, n)
    <2>1. n \in 1 .. n /\ \A j \in 1 .. n - 1 : j \in 1 .. n
      BY UpgradeAssumption
    <2>2. \A j \in 1 .. n : j = n \/ j \in 1 .. n - 1
      BY UpgradeAssumption
    <2>3. ToSet(Interface[r][Components[n]]) = ToSet(q) /\ f = <<Components[n], 1>>
      BY DEF q, f
    <2>. SUFFICES ASSUME NEW s \in Selectors
                  PROVE  /\ w.route[s] # NoFacet =>
                                \E j \in 1 .. n : s \in ToSet(Interface[r][Components[j]])
                         /\ \A j \in 1 .. n : s \in ToSet(Interface[r][Components[j]]) =>
                                w.route[s] = <<Components[j], 1>>
      BY Zenon DEF ServedUpTo
    <2>4. IF s \in ToSet(q) THEN w.route[s] = f ELSE w.route[s] = t.route[s]
      BY <1>16 DEF Effect, Result
    <2>5. /\ t.route[s] # NoFacet => Before(s)
          /\ \A j \in 1 .. n - 1 : s \in ToSet(Interface[r][Components[j]]) =>
                 t.route[s] = <<Components[j], 1>>
      BY <1>2, Zenon DEF ServedUpTo, Before
    <2>6. \A j \in 1 .. n - 1 : s \in ToSet(Interface[r][Components[j]]) => s \notin ToSet(q)
      BY <1>4 DEF Before
    <2>7. ASSUME w.route[s] # NoFacet
          PROVE  \E j \in 1 .. n : s \in ToSet(Interface[r][Components[j]])
      BY <2>1, <2>3, <2>4, <2>5, <2>7, Zenon DEF Before
    <2>8. ASSUME NEW j \in 1 .. n, s \in ToSet(Interface[r][Components[j]])
          PROVE  w.route[s] = <<Components[j], 1>>
      BY <2>2, <2>3, <2>4, <2>5, <2>6, <2>8, Zenon
    <2>. QED
      BY <2>7, <2>8
  <1>. QED
    BY <1>5, <1>13, <1>15, <1>17 DEF Deployable, w, f, q

\* The tables of the deployment, one per component.
DeployRun(r, h) ==
    [n \in 0 .. Len(Components) |->
        IF n = 0 THEN EmptyTable(Facets, Selectors)
        ELSE UpdateImplementation(h[n - 1],
                 << Cut(<<Components[n], 1>>, "add", Interface[r][Components[n]]) >>)]

\* One transaction of the deployment.
DeployStep(r, t, n) ==
    UpdateImplementation(t, << Cut(<<Components[n], 1>>, "add", Interface[r][Components[n]]) >>)

\* One transaction of the deployment.
LEMMA DeployStepSound ==
    ASSUME NEW r \in Releases, NEW n \in 1 .. Len(Components)
    PROVE  /\ \A t \in Sound({}) : DeployStep(r, t, n) \in Sound({})
           /\ Compiles(r) =>
                  \A t \in Deployable(r, n - 1) : DeployStep(r, t, n) \in Deployable(r, n)
  <1>. DEFINE f == <<Components[n], 1>>
              q == Interface[r][Components[n]]
              c == Cut(f, "add", q)
  <1>1. f \in Facets
    <2>1. Components[n] \in ToSet(Components)
      BY UpgradeAssumption, ElementsByPosition
    <2>2. 1 \in 1 .. MaxRuns + 1
      BY UpgradeAssumption
    <2>. QED
      BY <2>1, <2>2 DEF Facets
  <1>2. q \in Seq(Selectors) /\ q # << >>
    BY UpgradeAssumption
  <1>3. c \in Cuts
    BY <1>1, <1>2 DEF Cut, Cuts, Actions
  <1>4. ASSUME Compiles(r), NEW t \in Deployable(r, n - 1) PROVE Apply(t, c) \in Deployable(r, n)
    BY <1>1, <1>2, <1>4, NextComponentAdded
  <1>5. \A t : DeployStep(r, t, n) = UpdateImplementation(t, << c >>)
    BY Zenon DEF DeployStep
  <1>. HIDE DEF c
  <1>6. << c >> \in Seq(Cuts)
    BY <1>3
  <1>7. \A t \in Sound({}) : DeployStep(r, t, n) \in Sound({})
    BY <1>5, <1>6, UpdateSound
  <1>8. ASSUME Compiles(r), NEW t \in Deployable(r, n - 1)
        PROVE  DeployStep(r, t, n) \in Deployable(r, n)
    <2>1. t \in Sound({}) /\ t.ok
      BY DEF Deployable, Sound
    <2>2. UpdateImplementation(t, << c >>) = Apply(t, c)
      BY <1>3, <2>1, UpdateByOneCut DEF UpdateStep
    <2>. QED
      BY <1>4, <1>5, <1>8, <2>2
  <1>. QED
    BY <1>7, <1>8

\* The deployment of a release that compiles succeeds, and its table is linked.
LEMMA InitialTableLinked ==
    ASSUME NEW r \in Releases, Compiles(r)
    PROVE  InitialTable(r) \in Deployable(r, Len(Components))
  <1>. DEFINE N == Len(Components)
              D == Sound({})
              t == EmptyTable(Facets, Selectors)
              More(u, n) == DeployStep(r, u, n)
              step == [n \in 1 .. N |-> [u \in D |-> More(u, n)]]
              run == CHOOSE h : h = DeployRun(r, h)
              Ds == [n \in 0 .. N |-> Deployable(r, n)]
  <1>1. N \in Nat
    BY UpgradeAssumption
  <1>2. \A n \in 1 .. N : \A u \in D : More(u, n) \in D
    BY DeployStepSound
  <1>3. \A h : /\ DeployRun(r, h)[0] = t
               /\ \A n \in 1 .. N : DeployRun(r, h)[n] = More(h[n - 1], n)
               /\ DeployRun(r, h) = [n \in 0 .. N |-> DeployRun(r, h)[n]]
    BY <1>1 DEF DeployRun, DeployStep
  <1>4. InitialTable(r) = run[N]
    BY DEF InitialTable, DeployRun
  <1>5. t \in D /\ t \in Deployable(r, 0)
    BY NothingServed DEF Deployable, Sound
  <1>6. \A n \in 1 .. N : \A u \in Deployable(r, n - 1) : More(u, n) \in Deployable(r, n)
    BY DeployStepSound
  <1>. HIDE DEF D, More, N, run, t
  <1>7. step \in [1 .. N -> [D -> D]] /\ \A n \in 1 .. N : \A u \in D : step[n][u] = More(u, n)
    BY <1>2
  <1>. HIDE DEF step
  <1>8. step \in [1 .. N -> [D -> D]] /\ t \in D
    BY <1>5, <1>7
  <1>9. \E g : IsRun(g, D, N, t, step)
    BY <1>1, <1>8, Recursion
  <1>10. PICK g : IsRun(g, D, N, t, step)
    BY <1>9
  <1>11. g = DeployRun(r, g)
    <2>. DEFINE body == DeployRun(r, g)
    <2>1. body = [n \in 0 .. N |-> body[n]] /\ body[0] = t
      BY <1>3
    <2>2. \A n \in 1 .. N : g[n - 1] \in D => body[n] = step[n][g[n - 1]]
      BY <1>3, <1>7
    <2>. HIDE DEF body
    <2>3. IsBody(body, g, D, N, t, step)
      BY <2>1, <2>2, Zenon DEF IsBody
    <2>4. g = body
      BY <1>1, <1>10, <2>3, RunIsBody, Zenon
    <2>. QED
      BY <2>4 DEF body
  <1>12. run = DeployRun(r, run)
    BY <1>11 DEF run
  <1>13. run[0] = t /\ \A n \in 1 .. N : run[n] = More(run[n - 1], n)
    BY <1>3, <1>12
  <1>14. run[0] \in Ds[0] /\ \A n \in 1 .. N : run[n - 1] \in Ds[n - 1] => run[n] \in Ds[n]
    <2>1. 0 \in 0 .. N /\ \A n \in 1 .. N : n \in 0 .. N /\ n - 1 \in 0 .. N
      BY <1>1
    <2>. QED
      BY <1>5, <1>6, <1>13, <2>1
  <1>15. \A n \in 0 .. N : run[n] \in Ds[n]
    BY <1>1, <1>14, Iteration
  <1>16. run[N] \in Deployable(r, N)
    BY <1>1, <1>15
  <1>. QED
    BY <1>4, <1>16 DEF N

-----------------------------------------------------------------------------
\* The whole system.

\* The table is linked, and what was noted are cuts.
UpgradeInv ==
    /\ ds \in Tables /\ ds.ok /\ Linked(ds, {})
    /\ releaseOf \in Seq(Releases)
    /\ \A u \in noted : u.cuts \in Seq(Cuts)

\* The deployed pool satisfies the invariant.
LEMMA InitUpgrade == Init => UpgradeInv
  <1>. SUFFICES ASSUME Init PROVE UpgradeInv
    OBVIOUS
  <1>1. PICK r \in Releases : Compiles(r) /\ ds = InitialTable(r) /\ releaseOf = << r >>
    BY DEF Init
  <1>2. ds \in Tables /\ ds.ok /\ Linked(ds, {})
    BY <1>1, InitialTableLinked DEF Deployable
  <1>3. releaseOf \in Seq(Releases)
    BY <1>1
  <1>4. noted = {}
    BY DEF Init
  <1>. QED
    BY <1>2, <1>3, <1>4 DEF UpgradeInv

\* An update that is sent or carried out leaves the table linked, or as it was.
LEMMA UpdatePoolImplLinks ==
    ASSUME UpgradeInv, NEW u, u.cuts \in Seq(Cuts), UpdatePoolImpl(u)
    PROVE  ds' \in Tables /\ ds'.ok /\ Linked(ds', {})
  <1>. DEFINE after == UpdateImplementation(ds, u.cuts)
  <1>1. ds \in Sound({})
    BY DEF UpgradeInv, Sound
  <1>2. after \in Sound({})
    BY <1>1, UpdateSound
  <1>3. CASE ~ after.ok
    BY <1>3 DEF UpdatePoolImpl, table, UpgradeInv
  <1>4. CASE after.ok
    <2>1. ds' = after
      BY <1>4 DEF UpdatePoolImpl
    <2>. QED
      BY <1>2, <1>4, <2>1 DEF Sound
  <1>. QED
    BY <1>3, <1>4

\* So does what is sent or noted.
LEMMA SubmitKeeps ==
    ASSUME UpgradeInv, NEW u, u.cuts \in Seq(Cuts), Submit(u)
    PROVE  /\ ds' \in Tables /\ ds'.ok /\ Linked(ds', {})
           /\ \A v \in noted' : v.cuts \in Seq(Cuts)
  <1>1. CASE owner = "signer"
    BY <1>1, UpdatePoolImplLinks DEF Submit, UpgradeInv
  <1>2. CASE owner # "signer"
    <2>1. noted' = noted \union {u} /\ ds' = ds
      BY <1>2 DEF Submit, table
    <2>. QED
      BY <2>1 DEF UpgradeInv
  <1>. QED
    BY <1>1, <1>2

\* An upgrade of components keeps the invariant.
LEMMA UpgradeComponentsKeeps ==
    ASSUME UpgradeInv, NEW r \in Releases, NEW cs \in Seq(ToSet(Components)),
           NEW old, \A c \in ToSet(cs) : old[c] \in Facets \union {NoFacet},
           NEW basis, NEW named, Deploy(r),
           Submit(Update(UpgradeProxyImplementations(r, Len(releaseOf) + 1, cs, old), basis, named))
    PROVE  UpgradeInv'
  <1>. DEFINE cuts == UpgradeProxyImplementations(r, Len(releaseOf) + 1, cs, old)
              u == Update(cuts, basis, named)
  <1>1. releaseOf \in Seq(Releases) /\ ds \in Tables
    BY DEF UpgradeInv
  <1>2. releaseOf' = Append(releaseOf, r) /\ Len(releaseOf) <= MaxRuns /\ MaxRuns \in Nat
    BY UpgradeAssumption DEF Deploy
  <1>3. releaseOf' \in Seq(Releases)
    BY <1>1, <1>2
  <1>4. Len(releaseOf) + 1 \in 1 .. MaxRuns + 1
    BY <1>1, <1>2
  <1>5. cuts \in Seq(Cuts)
    BY <1>1, <1>4, UpgradeCutsType
  <1>6. u.cuts \in Seq(Cuts)
    BY <1>5 DEF Update
  <1>. HIDE DEF u
  <1>7. /\ ds' \in Tables /\ ds'.ok /\ Linked(ds', {})
        /\ \A v \in noted' : v.cuts \in Seq(Cuts)
    BY <1>6, SubmitKeeps DEF u
  <1>. QED
    BY <1>3, <1>7 DEF UpgradeInv

\* Every step keeps the invariant.
LEMMA NextUpgrade == UpgradeInv /\ [Next]_vars => UpgradeInv'
  <1>. SUFFICES ASSUME UpgradeInv, [Next]_vars PROVE UpgradeInv'
    OBVIOUS
  <1>1. ASSUME NEW r \in Releases, UpgradePool(r) PROVE UpgradeInv'
    <2>1. PICK old \in [ToSet(PoolComponents) -> Facets] : UpgradeComponents(r, PoolComponents, old)
      BY <1>1 DEF UpgradePool
    <2>2. \A c \in ToSet(PoolComponents) : old[c] \in Facets \union {NoFacet}
      OBVIOUS
    <2>. QED
      BY <2>1, <2>2, PoolComponentsDistinct, UpgradeComponentsKeeps DEF UpgradeComponents
  <1>2. ASSUME NEW r \in Releases, NEW i \in DOMAIN Components, UpgradeComponent(r, Components[i])
        PROVE  UpgradeInv'
    <2>. DEFINE c == Components[i]
                cs == << c >>
    <2>1. PICK f \in Facets \union {NoFacet} : UpgradeComponents(r, cs, [x \in {c} |-> f])
      BY <1>2 DEF UpgradeComponent, Deployed
    <2>2. cs \in Seq(ToSet(Components)) /\ ToSet(cs) = {c}
      BY DEF ToSet
    <2>. DEFINE old == [x \in {c} |-> f]
    <2>3. \A x \in ToSet(cs) : old[x] \in Facets \union {NoFacet}
      BY <2>2
    <2>4. UpgradeComponents(r, cs, old)
      BY <2>1
    <2>. HIDE DEF cs, old
    <2>. QED
      BY <2>2, <2>3, <2>4, UpgradeComponentsKeeps DEF UpgradeComponents
  <1>3. ASSUME ResetSelectors PROVE UpgradeInv'
    <2>. DEFINE S == {f \in Facets : f[1] # "ParaProxyInterfaces"}
                others == Kept(FacetAddresses(ds), S)
                cuts == [i \in DOMAIN others |-> Cut(NoFacet, "remove", ds.list[others[i]])]
                u == Update(cuts, ds.route, TRUE)
    <2>1. Submit(u) /\ releaseOf' = releaseOf
      BY <1>3 DEF ResetSelectors
    <2>2. ds.impls \in Seq(Facets) /\ ds.list \in [Facets -> Seq(Selectors)]
      BY DEF UpgradeInv, Tables
    <2>. HIDE DEF S
    <2>3. others \in Seq(Facets \cap S)
      BY <2>2, KeptType DEF FacetAddresses
    <2>. HIDE DEF others
    <2>4. others \in Seq(Facets)
      BY <2>3
    <2>5. \A i \in 1 .. Len(others) : Cut(NoFacet, "remove", ds.list[others[i]]) \in Cuts
      BY <2>2, <2>4 DEF Cut, Cuts, Actions
    <2>6. cuts \in Seq(Cuts)
      BY <2>4, <2>5
    <2>7. u.cuts \in Seq(Cuts)
      BY <2>6 DEF Update
    <2>. HIDE DEF u
    <2>8. /\ ds' \in Tables /\ ds'.ok /\ Linked(ds', {})
          /\ \A v \in noted' : v.cuts \in Seq(Cuts)
      BY <2>1, <2>7, SubmitKeeps
    <2>. QED
      BY <2>1, <2>8 DEF UpgradeInv
  <1>4. ASSUME NEW r \in Releases, ResetPool(r) PROVE UpgradeInv'
    <2>. DEFINE old == [c \in ToSet(PoolComponents) |-> NoFacet]
    <2>1. PICK basis : /\ Deploy(r)
                       /\ Submit(Update(UpgradeProxyImplementations(r, Len(releaseOf) + 1,
                                                                   PoolComponents, old), basis, TRUE))
      BY <1>4 DEF ResetPool
    <2>2. \A c \in ToSet(PoolComponents) : old[c] \in Facets \union {NoFacet}
      OBVIOUS
    <2>. HIDE DEF old
    <2>. QED
      BY <2>1, <2>2, PoolComponentsDistinct, UpgradeComponentsKeeps
  <1>5. CASE ResetFails
    BY <1>5 DEF ResetFails, table, UpgradeInv
  <1>6. CASE HandOver
    BY <1>6 DEF HandOver, table, UpgradeInv
  <1>7. ASSUME Execute PROVE UpgradeInv'
    <2>1. PICK u \in noted : UpdatePoolImpl(u)
      BY <1>7 DEF Execute
    <2>2. ds' \in Tables /\ ds'.ok /\ Linked(ds', {})
      BY <2>1, UpdatePoolImplLinks DEF UpgradeInv
    <2>3. releaseOf' = releaseOf /\ noted' = noted
      BY <1>7 DEF Execute
    <2>. QED
      BY <2>2, <2>3 DEF UpgradeInv
  <1>8. CASE UNCHANGED vars
    BY <1>8 DEF vars, table, UpgradeInv
  <1>. QED
    BY <1>1, <1>2, <1>3, <1>4, <1>5, <1>6, <1>7, <1>8 DEF Next

-----------------------------------------------------------------------------
\* The updates that are sent and noted, in the whole system.

\* The cuts applied last, with the table they were applied to.
Applied(t, cuts, rel) ==
    cuts = << >> \/ \E v \in Sound({}) : \E u : /\ FromScript(u, rel) /\ u.cuts = cuts
                                               /\ t = UpdateImplementation(v, cuts)

PlanInv ==
    /\ \A u \in noted : FromScript(u, releaseOf)
    /\ Owned(ds.route, releaseOf)
    /\ orderly => Tidy(ds.route, releaseOf)
    /\ Applied(ds, latest, releaseOf)

\* The deployed pool is tidy and owes nothing to an update.
LEMMA InitPlan == Init => PlanInv
  <1>. SUFFICES ASSUME Init PROVE PlanInv
    OBVIOUS
  <1>. DEFINE N == Len(Components)
  <1>1. PICK r \in Releases : Compiles(r) /\ ds = InitialTable(r) /\ releaseOf = << r >>
    BY DEF Init
  <1>2. ServedUpTo(ds, r, N)
    BY <1>1, InitialTableLinked DEF Deployable
  <1>3. noted = {} /\ latest = << >>
    BY DEF Init
  <1>4. ASSUME NEW s \in Selectors, ds.route[s] # NoFacet
        PROVE  \E j \in 1 .. N : /\ s \in ToSet(Interface[r][Components[j]])
                                 /\ ds.route[s] = <<Components[j], 1>>
    BY <1>2, <1>4, Zenon DEF ServedUpTo
  <1>5. \A j \in 1 .. N : \A s \in Selectors :
            s \in ToSet(Interface[r][Components[j]]) => ds.route[s] = <<Components[j], 1>>
    BY <1>2, Zenon DEF ServedUpTo
  <1>6. 1 \in 1 .. Len(releaseOf) /\ releaseOf[1] = r
    BY <1>1
  <1>. HIDE DEF N
  <1>7. ASSUME NEW j \in 1 .. N, NEW f, f = <<Components[j], 1>>
        PROVE  /\ f[1] = Components[j] /\ f[2] = 1
               /\ Released(f, releaseOf) = Interface[r][Components[j]]
    BY <1>6, <1>7 DEF Released
  <1>8. Owned(ds.route, releaseOf)
    <2>. SUFFICES ASSUME NEW s \in Selectors, ds.route[s] # NoFacet
                  PROVE  /\ ds.route[s][2] \in 1 .. Len(releaseOf)
                         /\ s \in ToSet(Released(ds.route[s], releaseOf))
      BY Zenon DEF Owned
    <2>1. PICK j \in 1 .. N : /\ s \in ToSet(Interface[r][Components[j]])
                              /\ ds.route[s] = <<Components[j], 1>>
      BY <1>4
    <2>2. /\ ds.route[s][2] = 1
          /\ Released(ds.route[s], releaseOf) = Interface[r][Components[j]]
      BY <1>7, <2>1
    <2>. QED
      BY <1>6, <2>1, <2>2
  <1>9. Tidy(ds.route, releaseOf)
    <2>. SUFFICES ASSUME NEW s \in Selectors, NEW x \in Selectors, ds.route[s] # NoFacet
                  PROVE  /\ x \in ToSet(Released(ds.route[s], releaseOf)) =>
                                ds.route[x] = ds.route[s]
                         /\ ds.route[x] # NoFacet /\ ds.route[x][1] = ds.route[s][1] =>
                                ds.route[x] = ds.route[s]
      BY Zenon DEF Tidy
    <2>1. PICK j \in 1 .. N : ds.route[s] = <<Components[j], 1>>
      BY <1>4
    <2>2. /\ ds.route[s][1] = Components[j]
          /\ Released(ds.route[s], releaseOf) = Interface[r][Components[j]]
      BY <1>7, <2>1
    <2>3. x \in ToSet(Interface[r][Components[j]]) => ds.route[x] = <<Components[j], 1>>
      BY <1>5
    <2>4. ASSUME ds.route[x] # NoFacet, ds.route[x][1] = Components[j]
          PROVE  ds.route[x] = ds.route[s]
      <3>1. PICK i \in 1 .. N : ds.route[x] = <<Components[i], 1>>
        BY <1>4, <2>4
      <3>2. ds.route[x][1] = Components[i]
        BY <1>7, <3>1
      <3>. QED
        BY <2>1, <2>4, <3>1, <3>2
    <2>. QED
      BY <2>1, <2>2, <2>3, <2>4, Zenon
  <1>. QED
    BY <1>3, <1>8, <1>9, Zenon DEF PlanInv, Applied

\* An update of a script that is sent or carried out, under the releases known then.
LEMMA UpdatePoolImplPlan ==
    ASSUME UpgradeInv, NEW rel, Owned(ds.route, rel), orderly => Tidy(ds.route, rel),
           Applied(ds, latest, rel), NEW u, FromScript(u, rel), UpdatePoolImpl(u)
    PROVE  /\ Owned(ds'.route, rel) /\ (orderly' => Tidy(ds'.route, rel))
           /\ Applied(ds', latest', rel)
  <1>. DEFINE after == UpdateImplementation(ds, u.cuts)
  <1>1. ds \in Sound({})
    BY DEF UpgradeInv, Sound
  <1>2. CASE ~ after.ok
    <2>1. ds' = ds /\ latest' = latest /\ orderly' = orderly
      BY <1>2 DEF UpdatePoolImpl, table
    <2>. QED
      BY <2>1
  <1>3. CASE after.ok
    <2>1. ds' = after /\ latest' = u.cuts /\ orderly' = (orderly /\ u.named /\ u.basis = ds.route)
      BY <1>3 DEF UpdatePoolImpl
    <2>2. Owned(ds'.route, rel)
      BY <1>1, <1>3, <2>1, FromScriptOwned
    <2>3. orderly' => Tidy(ds'.route, rel)
      <3>1. ASSUME orderly, u.named, u.basis = ds.route PROVE Tidy(ds'.route, rel)
        BY <1>1, <1>3, <2>1, <3>1, FromScriptTidy
      <3>. QED
        BY <2>1, <3>1
    <2>4. Applied(ds', latest', rel)
      BY <1>1, <2>1, Zenon DEF Applied
    <2>. QED
      BY <2>2, <2>3, <2>4
  <1>. QED
    BY <1>2, <1>3

\* What a script sends or notes keeps the invariant, whether it deployed facets or not.
LEMMA SubmitPlan ==
    ASSUME UpgradeInv, PlanInv, NEW u, Submit(u), FromScript(u, releaseOf'),
           releaseOf' = releaseOf \/ \E r \in Releases : releaseOf' = Append(releaseOf, r)
    PROVE  PlanInv'
  <1>. DEFINE rel == releaseOf'
  <1>1. releaseOf \in Seq(Releases)
    BY DEF UpgradeInv
  <1>2. /\ FromScript(u, rel)
        /\ \A v \in noted : FromScript(v, rel)
        /\ Owned(ds.route, rel) /\ (orderly => Tidy(ds.route, rel))
        /\ Applied(ds, latest, rel)
    <2>1. ASSUME NEW r \in Releases, releaseOf' = Append(releaseOf, r)
          PROVE  /\ FromScript(u, rel)
                 /\ \A v \in noted : FromScript(v, rel)
                 /\ Owned(ds.route, rel) /\ (orderly => Tidy(ds.route, rel))
                 /\ Applied(ds, latest, rel)
      <3>1. /\ \A route : Owned(route, releaseOf) =>
                   /\ Owned(route, rel)
                   /\ Tidy(route, releaseOf) => Tidy(route, rel)
            /\ \A v : FromScript(v, releaseOf) => FromScript(v, rel)
        BY <1>1, <2>1, RunsGrow
      <3>. HIDE DEF rel
      <3>2. Applied(ds, latest, rel)
        BY <3>1, Zenon DEF PlanInv, Applied
      <3>3. /\ \A v \in noted : FromScript(v, rel)
            /\ Owned(ds.route, rel) /\ (orderly => Tidy(ds.route, rel))
        BY <3>1, Zenon DEF PlanInv
      <3>4. FromScript(u, rel)
        BY DEF rel
      <3>. QED
        BY <3>2, <3>3, <3>4
    <2>2. CASE releaseOf' = releaseOf
      BY <2>2 DEF PlanInv
    <2>. QED
      BY <2>1, <2>2
  <1>. HIDE DEF rel
  <1>3. CASE owner = "signer"
    <2>1. UpdatePoolImpl(u) /\ noted' = noted
      BY <1>3 DEF Submit
    <2>2. /\ Owned(ds'.route, rel) /\ (orderly' => Tidy(ds'.route, rel))
          /\ Applied(ds', latest', rel)
      BY <1>2, <2>1, UpdatePoolImplPlan
    <2>. QED
      BY <1>2, <2>1, <2>2, Zenon DEF PlanInv, rel
  <1>4. CASE owner # "signer"
    <2>1. noted' = noted \union {u} /\ ds' = ds /\ latest' = latest /\ orderly' = orderly
      BY <1>4 DEF Submit, table
    <2>2. \A v \in noted' : FromScript(v, rel)
      BY <1>2, <2>1
    <2>. QED
      BY <1>2, <2>1, <2>2, Zenon DEF PlanInv, rel
  <1>. QED
    BY <1>3, <1>4

\* What the script of an upgrade sends is a plan, if the facets it names are of its components.
LEMMA UpgradePlanned ==
    ASSUME UpgradeInv, PlanInv, NEW r \in Releases, Len(releaseOf) <= MaxRuns,
           NEW cs \in Seq(ToSet(Components)), IsInjective(cs), NEW old,
           \A c \in ToSet(cs) : old[c] = NoFacet \/ (old[c] \in Facets /\ old[c][1] = c),
           NEW basis, NEW named,
           named => \A c \in ToSet(cs) : \A s \in Selectors :
               ds.route[s] # NoFacet /\ ds.route[s] = old[c] <=> basis[s] # NoFacet /\ basis[s][1] = c
    PROVE  FromScript(Update(UpgradeProxyImplementations(r, Len(releaseOf) + 1, cs, old),
                             basis, named), Append(releaseOf, r))
  <1>. DEFINE run == Len(releaseOf) + 1
              rel == Append(releaseOf, r)
              cuts == UpgradeProxyImplementations(r, run, cs, old)
              u == Update(cuts, basis, named)
              O == [i \in 1 .. Len(cs) |-> FacetFunctionSelectors(ds, old[cs[i]])]
  <1>1. /\ releaseOf \in Seq(Releases) /\ ds \in Tables /\ ds.ok /\ Linked(ds, {})
        /\ Owned(ds.route, releaseOf)
    BY DEF UpgradeInv, PlanInv
  <1>2. /\ run \in 1 .. MaxRuns + 1 /\ run \in 1 .. Len(rel) /\ rel[run] = r
    BY <1>1, UpgradeAssumption
  <1>3. DOMAIN cs = 1 .. Len(cs) /\ Len(cs) \in Nat /\ \A i \in 1 .. Len(cs) : cs[i] \in ToSet(cs)
    BY ElementsByPosition
  <1>4. TableExact
    BY <1>1, LinkedIsExact
  <1>5. ds.list \in [Facets -> Seq(Selectors)]
    BY <1>1 DEF Tables
  <1>6. ASSUME NEW i \in 1 .. Len(cs)
        PROVE  /\ O[i] = FacetFunctionSelectors(ds, old[cs[i]])
               /\ O[i] \in Seq(Selectors) /\ IsInjective(O[i])
               /\ \A s \in Selectors : s \in ToSet(O[i]) <=>
                      ds.route[s] # NoFacet /\ ds.route[s] = old[cs[i]]
    <2>1. O[i] = FacetFunctionSelectors(ds, old[cs[i]])
      OBVIOUS
    <2>. HIDE DEF O
    <2>2. CASE old[cs[i]] = NoFacet
      <3>1. O[i] = << >>
        BY <2>1, <2>2 DEF FacetFunctionSelectors
      <3>2. << >> \in Seq(Selectors) /\ IsInjective(<< >>) /\ ToSet(<< >>) = {}
        BY DEF IsInjective, ToSet
      <3>. QED
        BY <2>1, <2>2, <3>1, <3>2, Zenon
    <2>3. CASE old[cs[i]] # NoFacet
      <3>1. old[cs[i]] \in Facets
        BY <1>3, <2>3
      <3>2. O[i] = ds.list[old[cs[i]]]
        BY <2>1, <2>3 DEF FacetFunctionSelectors
      <3>3. /\ IsInjective(ds.list[old[cs[i]]])
            /\ ToSet(ds.list[old[cs[i]]]) = {s \in Selectors : ds.route[s] = old[cs[i]]}
        BY <1>4, <3>1 DEF TableExact
      <3>4. ds.list[old[cs[i]]] \in Seq(Selectors)
        BY <1>5, <3>1
      <3>5. \A s \in Selectors : s \in ToSet(O[i]) <=> ds.route[s] = old[cs[i]]
        BY <3>2, <3>3
      <3>6. \A s \in Selectors : s \in ToSet(O[i]) <=>
                ds.route[s] # NoFacet /\ ds.route[s] = old[cs[i]]
        BY <2>3, <3>5
      <3>. QED
        BY <2>1, <3>2, <3>3, <3>4, <3>6
    <2>. QED
      BY <2>2, <2>3
  <1>7. O \in [1 .. Len(cs) -> Seq(Selectors)]
    BY <1>6
  <1>8. cuts = PlanCuts(r, run, cs, O)
    <2>. DEFINE One(i) == CutsFor(<<cs[i], run>>, Interface[r][cs[i]], FacetFunctionSelectors(ds, old[cs[i]]))
                Two(i) == CutsFor(<<cs[i], run>>, Interface[r][cs[i]], O[i])
                one == [i \in DOMAIN cs |-> One(i)]
                two == [i \in DOMAIN cs |-> Two(i)]
    <2>1. \A i \in DOMAIN cs : One(i) = Two(i)
      BY <1>3
    <2>2. cuts = FlattenSeq(one)
      BY Zenon DEF UpgradeProxyImplementations
    <2>3. PlanCuts(r, run, cs, O) = FlattenSeq(two)
      BY Zenon DEF PlanCuts, Groups
    <2>. HIDE DEF One, Two
    <2>4. one = two
      BY <2>1
    <2>. QED
      BY <2>2, <2>3, <2>4, Zenon
  <1>. HIDE DEF O, run, cuts
  <1>9. PlanType(r, run, cs, O)
    BY <1>2, <1>6, <1>7 DEF PlanType
  <1>10. ASSUME NEW i \in 1 .. Len(cs), NEW s \in ToSet(O[i])
         PROVE  \E q \in Releases : s \in ToSet(Interface[q][cs[i]])
    <2>1. s \in Selectors
      BY <1>6, ElementsByPosition
    <2>2. ds.route[s] # NoFacet /\ ds.route[s] = old[cs[i]] /\ ds.route[s][1] = cs[i]
      BY <1>3, <1>6, <2>1
    <2>3. ds.route[s][2] \in 1 .. Len(releaseOf) /\ s \in ToSet(Released(ds.route[s], releaseOf))
      BY <1>1, <2>1, <2>2 DEF Owned
    <2>4. releaseOf[ds.route[s][2]] \in Releases
      BY <1>1, <2>3
    <2>. QED
      BY <2>2, <2>3, <2>4 DEF Released
  <1>11. u.cuts = cuts /\ u.basis = basis /\ u.named = named
    BY DEF Update
  <1>. HIDE DEF u
  <1>12. ASSUME u.named, NEW i \in 1 .. Len(cs), NEW s \in Selectors
         PROVE  s \in ToSet(O[i]) <=> u.basis[s] # NoFacet /\ u.basis[s][1] = cs[i]
    <2>1. ds.route[s] # NoFacet /\ ds.route[s] = old[cs[i]] <=> basis[s] # NoFacet /\ basis[s][1] = cs[i]
      BY <1>3, <1>11, <1>12
    <2>. QED
      BY <1>6, <1>11, <2>1
  <1>13. PlanFor(u, r, run, cs, O)
    BY <1>8, <1>9, <1>10, <1>11, <1>12 DEF PlanFor
  <1>14. Planned(u, rel)
    <2>. HIDE DEF rel
    <2>. QED
      BY <1>2, <1>13, Zenon DEF Planned
  <1>. QED
    BY <1>14 DEF FromScript, u, cuts, run

\* An upgrade of components keeps the invariant, whatever facets the operator names.
LEMMA UpgradeComponentsPlan ==
    ASSUME UpgradeInv, PlanInv, NEW r \in Releases, NEW cs \in Seq(ToSet(Components)),
           IsInjective(cs), NEW old,
           \A c \in ToSet(cs) : old[c] = NoFacet \/ old[c] \in Deployed(c),
           UpgradeComponents(r, cs, old)
    PROVE  PlanInv'
  <1>. DEFINE named == Current(cs, old)
              u == Update(UpgradeProxyImplementations(r, Len(releaseOf) + 1, cs, old), ds.route, named)
  <1>1. /\ Len(releaseOf) <= MaxRuns /\ releaseOf' = Append(releaseOf, r) /\ Submit(u)
    BY DEF UpgradeComponents, Deploy
  <1>2. \A c \in ToSet(cs) : old[c] = NoFacet \/ (old[c] \in Facets /\ old[c][1] = c)
    BY DEF Deployed
  <1>3. ASSUME named, NEW c \in ToSet(cs), NEW s \in Selectors
        PROVE  ds.route[s] # NoFacet /\ ds.route[s] = old[c]
                   <=> ds.route[s] # NoFacet /\ ds.route[s][1] = c
    <2>1. TableExact
      BY LinkedIsExact DEF UpgradeInv
    <2>2. ToSet(ds.impls) = {ds.route[x] : x \in Selectors} \ {NoFacet}
      BY <2>1 DEF TableExact
    <2>3. Serving(c) \subseteq {old[c]}
      <3>1. PICK i \in 1 .. Len(cs) : c = cs[i]
        BY ElementsByPosition
      <3>2. DOMAIN cs = 1 .. Len(cs)
        OBVIOUS
      <3>. QED
        BY <1>3, <3>1, <3>2 DEF Current
    <2>4. ASSUME ds.route[s] # NoFacet, ds.route[s][1] = c PROVE ds.route[s] = old[c]
      <3>1. ds.route[s] \in ToSet(ds.impls)
        BY <2>2, <2>4
      <3>2. ds.route[s] \in Serving(c)
        BY <2>4, <3>1 DEF Serving, FacetAddresses
      <3>. QED
        BY <2>3, <3>2
    <2>. QED
      BY <1>2, <2>4
  <1>. DEFINE basis == ds.route
  <1>4. named => \A c \in ToSet(cs) : \A s \in Selectors :
            ds.route[s] # NoFacet /\ ds.route[s] = old[c] <=> basis[s] # NoFacet /\ basis[s][1] = c
    BY <1>3
  <1>. HIDE DEF named, basis
  <1>5. FromScript(Update(UpgradeProxyImplementations(r, Len(releaseOf) + 1, cs, old), basis, named),
                   Append(releaseOf, r))
    BY <1>1, <1>2, <1>4, UpgradePlanned
  <1>6. FromScript(u, releaseOf')
    BY <1>1, <1>5 DEF basis
  <1>. HIDE DEF u
  <1>. QED
    BY <1>1, <1>6, SubmitPlan

\* The first half of a reset removes whole facets.
LEMMA ResetSelectorsPlan ==
    ASSUME UpgradeInv, PlanInv, ResetSelectors
    PROVE  PlanInv'
  <1>. DEFINE S == {f \in Facets : f[1] # "ParaProxyInterfaces"}
              others == Kept(FacetAddresses(ds), S)
              cuts == [i \in DOMAIN others |-> Cut(NoFacet, "remove", ds.list[others[i]])]
              u == Update(cuts, ds.route, TRUE)
  <1>1. Submit(u) /\ releaseOf' = releaseOf
    BY DEF ResetSelectors
  <1>2. ds.impls \in Seq(Facets) /\ ds.list \in [Facets -> Seq(Selectors)]
    BY DEF UpgradeInv, Tables
  <1>. HIDE DEF S
  <1>3. others \in Seq(Facets \cap S)
    BY <1>2, KeptType DEF FacetAddresses
  <1>. HIDE DEF others
  <1>4. others \in Seq(Facets)
    BY <1>3
  <1>5. TableExact
    BY LinkedIsExact DEF UpgradeInv
  <1>6. ASSUME NEW i \in 1 .. Len(others)
        PROVE  /\ others[i] \in Facets /\ ds.list[others[i]] \in Seq(Selectors)
               /\ IsInjective(ds.list[others[i]])
               /\ ToSet(ds.list[others[i]]) = {s \in Selectors : ds.route[s] = others[i]}
    BY <1>2, <1>4, <1>5 DEF TableExact
  <1>7. ASSUME NEW i \in 1 .. Len(others)
        PROVE  /\ cuts[i] \in Cuts /\ cuts[i].action = "remove" /\ cuts[i].implAddress = NoFacet
               /\ cuts[i].selectors = ds.list[others[i]]
    <2>1. cuts[i] = Cut(NoFacet, "remove", ds.list[others[i]])
      BY <1>4
    <2>2. ds.list[others[i]] \in Seq(Selectors)
      BY <1>6
    <2>. HIDE DEF cuts
    <2>. QED
      BY <2>1, <2>2 DEF Cut, Cuts, Actions
  <1>8. Len(cuts) = Len(others) /\ cuts \in Seq(Cuts)
    <2>1. Len(cuts) = Len(others) /\ Len(others) \in Nat /\ DOMAIN cuts = 1 .. Len(others)
      BY <1>4
    <2>2. \A i \in 1 .. Len(others) : Cut(NoFacet, "remove", ds.list[others[i]]) \in Cuts
      BY <1>6 DEF Cut, Cuts, Actions
    <2>3. cuts \in Seq(Cuts)
      BY <1>4, <2>2
    <2>. QED
      BY <2>1, <2>3
  <1>. HIDE DEF cuts
  <1>9. RemovalType(cuts)
    BY <1>6, <1>7, <1>8 DEF RemovalType
  <1>10. ASSUME NEW i \in 1 .. Len(cuts), NEW s \in ToSet(cuts[i].selectors), NEW x \in Selectors,
                ds.route[x] = ds.route[s]
         PROVE  x \in ToSet(cuts[i].selectors)
    <2>1. i \in 1 .. Len(others) /\ cuts[i].selectors = ds.list[others[i]]
      BY <1>7, <1>8
    <2>2. ToSet(cuts[i].selectors) = {y \in Selectors : ds.route[y] = others[i]}
      BY <1>6, <2>1
    <2>. QED
      BY <1>10, <2>2
  <1>11. WholeFacets(ds.route, cuts)
    BY <1>10 DEF WholeFacets
  <1>12. FromScript(u, releaseOf)
    BY <1>9, <1>11 DEF FromScript, Clearing, Update
  <1>. HIDE DEF u
  <1>. QED
    BY <1>1, <1>12, SubmitPlan

\* The second half of a reset is a plan that replaces nothing.
LEMMA ResetPoolPlan ==
    ASSUME UpgradeInv, PlanInv, NEW r \in Releases, ResetPool(r)
    PROVE  PlanInv'
  <1>. DEFINE old == [c \in ToSet(PoolComponents) |-> NoFacet]
              basis == [s \in Selectors |-> IF ds.route[s] \in Deployed("ParaProxyInterfaces")
                                            THEN ds.route[s] ELSE NoFacet]
              cuts == UpgradeProxyImplementations(r, Len(releaseOf) + 1, PoolComponents, old)
              u == Update(cuts, basis, TRUE)
  <1>1. Len(releaseOf) <= MaxRuns /\ releaseOf' = Append(releaseOf, r) /\ Submit(u)
    BY DEF ResetPool, Deploy
  <1>2. \A c \in ToSet(PoolComponents) : old[c] = NoFacet
    OBVIOUS
  <1>3. ASSUME NEW c \in ToSet(PoolComponents), NEW s \in Selectors, basis[s] # NoFacet,
               basis[s][1] = c
        PROVE  FALSE
    <2>1. basis[s] \in Deployed("ParaProxyInterfaces")
      BY <1>3
    <2>2. basis[s][1] = "ParaProxyInterfaces"
      BY <2>1 DEF Deployed
    <2>. QED
      BY <1>3, <2>2, PoolComponentsDistinct
  <1>. HIDE DEF old, basis
  <1>4. \A c \in ToSet(PoolComponents) : \A s \in Selectors :
            ds.route[s] # NoFacet /\ ds.route[s] = old[c] <=> basis[s] # NoFacet /\ basis[s][1] = c
    BY <1>2, <1>3
  <1>5. FromScript(u, Append(releaseOf, r))
    BY <1>1, <1>2, <1>4, PoolComponentsDistinct, UpgradePlanned
  <1>6. FromScript(u, releaseOf')
    BY <1>1, <1>5
  <1>. HIDE DEF u
  <1>. QED
    BY <1>1, <1>6, SubmitPlan

\* Every step keeps the invariant.
LEMMA NextPlan == UpgradeInv /\ PlanInv /\ [Next]_vars => PlanInv'
  <1>. SUFFICES ASSUME UpgradeInv, PlanInv, [Next]_vars PROVE PlanInv'
    OBVIOUS
  <1>1. ASSUME NEW r \in Releases, UpgradePool(r) PROVE PlanInv'
    <2>1. PICK old \in [ToSet(PoolComponents) -> Facets] :
              /\ \A c \in ToSet(PoolComponents) : old[c] \in Deployed(c)
              /\ UpgradeComponents(r, PoolComponents, old)
      BY <1>1 DEF UpgradePool
    <2>. QED
      BY <2>1, PoolComponentsDistinct, UpgradeComponentsPlan
  <1>2. ASSUME NEW r \in Releases, NEW i \in DOMAIN Components, UpgradeComponent(r, Components[i])
        PROVE  PlanInv'
    <2>. DEFINE c == Components[i]
                cs == << c >>
    <2>1. PICK f \in Deployed(c) \union {NoFacet} : UpgradeComponents(r, cs, [x \in {c} |-> f])
      BY <1>2 DEF UpgradeComponent
    <2>2. cs \in Seq(ToSet(Components)) /\ ToSet(cs) = {c} /\ IsInjective(cs)
      BY DEF ToSet, IsInjective
    <2>. DEFINE old == [x \in {c} |-> f]
    <2>3. \A x \in ToSet(cs) : old[x] = NoFacet \/ old[x] \in Deployed(x)
      BY <2>2
    <2>4. UpgradeComponents(r, cs, old)
      BY <2>1
    <2>. HIDE DEF cs, old
    <2>. QED
      BY <2>2, <2>3, <2>4, UpgradeComponentsPlan
  <1>3. ASSUME NEW r \in Releases, ResetPool(r) PROVE PlanInv'
    BY <1>3, ResetPoolPlan
  <1>4. CASE ResetSelectors
    BY <1>4, ResetSelectorsPlan
  <1>5. CASE ResetFails
    BY <1>5 DEF ResetFails, table, PlanInv
  <1>6. CASE HandOver
    BY <1>6 DEF HandOver, table, PlanInv
  <1>7. CASE Execute
    <2>1. PICK u \in noted : UpdatePoolImpl(u)
      BY <1>7 DEF Execute
    <2>2. releaseOf' = releaseOf /\ noted' = noted
      BY <1>7 DEF Execute
    <2>3. /\ Owned(ds'.route, releaseOf) /\ (orderly' => Tidy(ds'.route, releaseOf))
          /\ Applied(ds', latest', releaseOf)
      BY <2>1, UpdatePoolImplPlan DEF PlanInv
    <2>. QED
      BY <2>2, <2>3 DEF PlanInv
  <1>8. CASE UNCHANGED vars
    BY <1>8 DEF vars, table, PlanInv
  <1>. QED
    BY <1>1, <1>2, <1>3, <1>4, <1>5, <1>6, <1>7, <1>8 DEF Next

\* An update that was the last one to be applied changes nothing when it is applied again.
LEMMA UpdateRepeated ==
    ASSUME OwnFunctions, UpgradeInv, PlanInv, NEW u, UpdatePoolImpl(u), latest' = latest
    PROVE  ds' = ds
  <1>. DEFINE after == UpdateImplementation(ds, u.cuts)
  <1>1. ds \in Sound({}) /\ ds.ok
    BY DEF UpgradeInv, Sound
  <1>2. CASE ~ after.ok
    BY <1>2 DEF UpdatePoolImpl, table
  <1>3. CASE after.ok
    <2>1. ds' = after /\ u.cuts = latest
      BY <1>3 DEF UpdatePoolImpl
    <2>2. CASE latest = << >>
      BY <1>1, <2>1, <2>2, UpdateByNoCut
    <2>3. CASE latest # << >>
      <3>. PICK v \in Sound({}) : \E w : /\ FromScript(w, releaseOf) /\ w.cuts = latest
                                         /\ ds = UpdateImplementation(v, latest)
        BY <2>3 DEF PlanInv, Applied
      <3>1. PICK w : /\ FromScript(w, releaseOf) /\ w.cuts = latest
                     /\ ds = UpdateImplementation(v, latest)
        OBVIOUS
      <3>2. /\ ds = UpdateImplementation(v, w.cuts) /\ UpdateImplementation(ds, w.cuts) = after
            /\ UpdateImplementation(ds, w.cuts).ok
        BY <1>3, <2>1, <3>1
      <3>3. UpdateImplementation(ds, w.cuts) = ds
        BY <1>1, <3>1, <3>2, FromScriptOnce
      <3>. QED
        BY <2>1, <3>2, <3>3
    <2>. QED
      BY <2>2, <2>3
  <1>. QED
    BY <1>2, <1>3

\* No step applies an update twice in a row to any effect.
LEMMA NextRepeated ==
    ASSUME OwnFunctions, UpgradeInv, PlanInv, [Next]_vars, latest' = latest
    PROVE  ds' = ds
  <1>1. ASSUME NEW u, Submit(u) PROVE ds' = ds
    <2>1. CASE owner = "signer"
      BY <1>1, <2>1, UpdateRepeated DEF Submit
    <2>2. CASE owner # "signer"
      BY <1>1, <2>2 DEF Submit, table
    <2>. QED
      BY <2>1, <2>2
  <1>2. ASSUME NEW r, NEW cs, NEW old, UpgradeComponents(r, cs, old) PROVE ds' = ds
    BY <1>1, <1>2 DEF UpgradeComponents
  <1>3. ASSUME NEW r, UpgradePool(r) PROVE ds' = ds
    BY <1>2, <1>3 DEF UpgradePool
  <1>4. ASSUME NEW r, NEW c, UpgradeComponent(r, c) PROVE ds' = ds
    BY <1>2, <1>4 DEF UpgradeComponent
  <1>5. ASSUME NEW r, ResetPool(r) PROVE ds' = ds
    BY <1>1, <1>5 DEF ResetPool
  <1>6. CASE ResetSelectors
    BY <1>1, <1>6 DEF ResetSelectors
  <1>7. CASE ResetFails \/ HandOver \/ UNCHANGED vars
    BY <1>7 DEF ResetFails, HandOver, vars, table
  <1>8. CASE Execute
    BY <1>8, UpdateRepeated DEF Execute
  <1>. QED
    BY <1>3, <1>4, <1>5, <1>6, <1>7, <1>8 DEF Next

-----------------------------------------------------------------------------
(***************************************************************************)
(* However the updates are planned, delayed, mixed or repeated, the lists  *)
(* of the proxy, the positions it keeps beside them and the routes agree:  *)
(* the deployment succeeds, and swap and pop keeps them inverse.           *)
(***************************************************************************)
THEOREM TableExactHolds == Spec => []TableExact
  <1>1. UpgradeInv => TableExact
    BY LinkedIsExact DEF UpgradeInv
  <1>. QED
    BY <1>1, InitUpgrade, NextUpgrade, PTL DEF Spec

\* Under the invariants the facets of a component are at most one, with its whole release.
LEMMA TidyIsServed == UpgradeInv /\ PlanInv => ServedAsReleased
  <1>. SUFFICES ASSUME UpgradeInv, PlanInv, orderly, NEW i \in DOMAIN Components
                PROVE  /\ Cardinality(Serving(Components[i])) <= 1
                       /\ \A f \in Serving(Components[i]) :
                              ToSet(ds.list[f]) = ToSet(FacetSelectors(f))
    BY DEF ServedAsReleased
  <1>. DEFINE c == Components[i]
  <1>1. TableExact
    BY LinkedIsExact DEF UpgradeInv
  <1>2. /\ ToSet(ds.impls) = {ds.route[s] : s \in Selectors} \ {NoFacet}
        /\ \A f \in Facets : ToSet(ds.list[f]) = {s \in Selectors : ds.route[s] = f}
    BY <1>1 DEF TableExact
  <1>3. Owned(ds.route, releaseOf) /\ Tidy(ds.route, releaseOf) /\ releaseOf \in Seq(Releases)
    BY DEF PlanInv, UpgradeInv
  <1>4. ds.impls \in Seq(Facets)
    BY DEF UpgradeInv, Tables
  <1>5. ASSUME NEW f \in Serving(c)
        PROVE  f \in Facets /\ f # NoFacet /\ f[1] = c /\ \E s \in Selectors : ds.route[s] = f
    <2>1. f \in ToSet(ds.impls) /\ f[1] = c
      BY DEF Serving, FacetAddresses
    <2>2. f \in Facets
      BY <1>4, <2>1, ElementsByPosition
    <2>. QED
      BY <1>2, <2>1, <2>2
  <1>6. ASSUME NEW f \in Serving(c), NEW g \in Serving(c) PROVE f = g
    <2>1. PICK s \in Selectors : ds.route[s] = f
      BY <1>5
    <2>2. PICK x \in Selectors : ds.route[x] = g
      BY <1>5
    <2>3. f # NoFacet /\ g # NoFacet /\ f[1] = g[1]
      BY <1>5
    <2>. QED
      BY <1>3, <2>1, <2>2, <2>3, Zenon DEF Tidy
  <1>7. Cardinality(Serving(c)) <= 1
    <2>. HIDE DEF c
    <2>1. CASE Serving(c) = {}
      BY <2>1, FS_EmptySet
    <2>2. ASSUME NEW f \in Serving(c) PROVE Cardinality(Serving(c)) <= 1
      <3>1. Serving(c) = {f}
        BY <1>6
      <3>2. Cardinality({f}) = 1
        BY FS_Singleton
      <3>. QED
        BY <3>1, <3>2
    <2>. QED
      BY <2>1, <2>2
  <1>8. ASSUME NEW f \in Serving(c) PROVE ToSet(ds.list[f]) = ToSet(FacetSelectors(f))
    <2>1. PICK s \in Selectors : ds.route[s] = f
      BY <1>5
    <2>2. f \in Facets /\ f # NoFacet
      BY <1>5
    <2>3. f[2] \in 1 .. Len(releaseOf)
      BY <1>3, <2>1, <2>2 DEF Owned
    <2>4. FacetSelectors(f) = Released(f, releaseOf)
      BY DEF FacetSelectors, Released
    <2>5. releaseOf[f[2]] \in Releases /\ f[1] \in ToSet(Components)
      BY <1>3, <2>2, <2>3 DEF Facets
    <2>6. FacetSelectors(f) \in Seq(Selectors)
      BY <2>5, InterfaceType DEF FacetSelectors
    <2>7. \A x \in ToSet(FacetSelectors(f)) : x \in Selectors
      BY <2>6, ElementsByPosition
    <2>8. \A x \in Selectors : ds.route[x] = f => x \in ToSet(FacetSelectors(f))
      BY <1>3, <2>2, <2>4, Zenon DEF Owned
    <2>9. \A x \in Selectors : x \in ToSet(FacetSelectors(f)) => ds.route[x] = f
      BY <1>3, <2>1, <2>2, <2>4, Zenon DEF Tidy
    <2>10. ToSet(ds.list[f]) = {x \in Selectors : ds.route[x] = f}
      BY <1>2, <2>2
    <2>. HIDE DEF c
    <2>. QED
      BY <2>7, <2>8, <2>9, <2>10
  <1>. QED
    BY <1>7, <1>8

(***************************************************************************)
(* As long as every update meets the table it was computed from and names  *)
(* the facets that serve, each component is served by one facet at most,   *)
(* with the functions of its release and no other: for any components,     *)
(* releases and order of the scripts.                                      *)
(***************************************************************************)
THEOREM ServedAsReleasedHolds == Spec => []ServedAsReleased
  <1>1. UpgradeInv /\ PlanInv => ServedAsReleased
    BY TidyIsServed
  <1>. QED
    BY <1>1, InitUpgrade, NextUpgrade, InitPlan, NextPlan, PTL DEF Spec

(***************************************************************************)
(* An update that was applied changes nothing when it is sent again before *)
(* another one, if each component has a function of its own: the facet     *)
(* that serves it since the first time may not replace itself.             *)
(***************************************************************************)
THEOREM RepeatedUpdateRevertsHolds ==
    ASSUME OwnFunctions
    PROVE  Spec => RepeatedUpdateReverts
  <1>1. UpgradeInv /\ PlanInv /\ [Next]_vars => [latest' = latest => ds' = ds]_vars
    BY NextRepeated
  <1>. QED
    BY <1>1, InitUpgrade, NextUpgrade, InitPlan, NextPlan, PTL DEF Spec, RepeatedUpdateReverts
=============================================================================

--------------------------- MODULE SourcesProofs ---------------------------
(***************************************************************************)
(* A collection yields the items of its listing, in their order and up to  *)
(* its limits: proved for every site, however its pages link to each       *)
(* other, and for every configuration of an adapter.                       *)
(*                                                                         *)
(* Listing and FlattenSeq are recursive functions, so induction is needed  *)
(* on what they compute.  It is done by the least number for which a fact  *)
(* fails, which is an element of a set of naturals.                        *)
(***************************************************************************)
EXTENDS Sources, WellFoundedInduction, TLAPS

-----------------------------------------------------------------------------
(***************************************************************************)
(* Induction.                                                              *)
(***************************************************************************)
\* A set of naturals that is not empty has a least element.
LEMMA Least ==
    ASSUME NEW T \in SUBSET Nat, T # {}
    PROVE  \E x \in T : \A y \in T : x <= y
<1>1. \E x \in T : \A y \in T : ~ (<<y, x>> \in OpToRel(<, Nat))
  BY WFMin, NatLessThanWellFounded, Zenon
<1>2. \E x \in T : \A y \in T : ~ (y < x)
  BY <1>1, Zenon DEF OpToRel
<1>3. QED
  BY <1>2

\* A set that has a first number, and the next one of each of its numbers below
\* a bound, has all of them.
LEMMA Upward ==
    ASSUME NEW a \in Nat, NEW b \in Nat, NEW S, a \in S,
           \A k \in a..b : k \in S /\ k < b => k + 1 \in S
    PROVE  a <= b => a..b \subseteq S
<1> DEFINE T == {k \in a..b : k \notin S}
<1> SUFFICES ASSUME T # {} PROVE FALSE
  OBVIOUS
<1>1. T \in SUBSET Nat
  OBVIOUS
<1>2. PICK k \in T : \A y \in T : k <= y
  BY <1>1, Least
<1>3. k \in a..b /\ k # a
  BY <1>2
<1>4. k - 1 \in a..b /\ k - 1 \notin T /\ k - 1 < b
  BY <1>2, <1>3
<1>5. k - 1 \in S
  BY <1>4
<1>6. k - 1 + 1 \in S /\ k - 1 + 1 = k
  BY <1>3, <1>4, <1>5
<1>7. QED
  BY <1>2, <1>6

-----------------------------------------------------------------------------
(***************************************************************************)
(* Prefixes.                                                               *)
(***************************************************************************)
LEMMA PrefixIs ==
    ASSUME NEW S, NEW s \in Seq(S), NEW t \in Seq(S)
    PROVE  IsPrefix(s, t) <=> Len(s) <= Len(t) /\ \A i \in 1..Len(s) : s[i] = t[i]
<1>1. Len(s) \in Nat /\ Len(t) \in Nat
  OBVIOUS
<1>2. SubSeq(s, 1, Len(s)) = [i \in 1..Len(s) |-> s[i]]
  OBVIOUS
<1>3. ASSUME Len(s) <= Len(t)
      PROVE  SubSeq(t, 1, Len(s)) = [i \in 1..Len(s) |-> t[i]]
  BY <1>1, <1>3
<1>4. QED
  BY <1>1, <1>2, <1>3 DEF IsPrefix

-----------------------------------------------------------------------------
(***************************************************************************)
(* Flattening.                                                             *)
(***************************************************************************)
\* The function by which FlattenSeq is defined.
Flatten(seqs) ==
    CHOOSE f : f = [i \in 1..Len(seqs) |-> IF i = 1 THEN seqs[i] ELSE f[i - 1] \o seqs[i]]

\* There is such a function.
LEMMA FlattenIs ==
    ASSUME NEW S, NEW seqs \in Seq(S)
    PROVE  Flatten(seqs) =
               [i \in 1..Len(seqs) |-> IF i = 1 THEN seqs[i] ELSE Flatten(seqs)[i - 1] \o seqs[i]]
<1> DEFINE n == Len(seqs)
           Flattens(f, m) == f = [i \in 1..m |-> IF i = 1 THEN seqs[i] ELSE f[i - 1] \o seqs[i]]
           D == {m \in 0..n : \E f : Flattens(f, m)}
<1>1. n \in Nat
  OBVIOUS
<1>2. 0 \in D
  <2>1. Flattens(<<>>, 0)
    OBVIOUS
  <2>2. 0 \in 0..n
    BY <1>1
  <2> HIDE DEF Flattens
  <2>3. QED
    BY <2>1, <2>2
<1>3. ASSUME NEW m \in 0..n, m \in D, m < n PROVE m + 1 \in D
  <2>1. PICK f : Flattens(f, m)
    BY <1>3
  <2> DEFINE g == [i \in 1..(m + 1) |-> IF i = 1 THEN seqs[i] ELSE f[i - 1] \o seqs[i]]
  <2>2. ASSUME NEW i \in 1..m PROVE g[i] = f[i]
    <3>1. f[i] = IF i = 1 THEN seqs[i] ELSE f[i - 1] \o seqs[i]
      BY <2>1, Zenon
    <3>2. i \in 1..(m + 1)
      BY <1>3
    <3>3. g[i] = IF i = 1 THEN seqs[i] ELSE f[i - 1] \o seqs[i]
      BY <3>2, Zenon
    <3>4. QED
      BY <3>1, <3>3
  <2>3. ASSUME NEW i \in 1..(m + 1)
        PROVE  g[i] = IF i = 1 THEN seqs[i] ELSE g[i - 1] \o seqs[i]
    <3>1. i # 1 => i - 1 \in 1..m
      OBVIOUS
    <3>2. QED
      BY <2>2, <3>1
  <2>4. Flattens(g, m + 1)
    BY <2>3
  <2> HIDE DEF g, Flattens
  <2>5. QED
    BY <1>1, <1>3, <2>4
<1>4. n \in D
  <2> HIDE DEF D
  <2>1. \A m \in 0..n : m \in D /\ m < n => m + 1 \in D
    BY <1>3
  <2>2. 0 \in Nat /\ 0 <= n
    BY <1>1
  <2>3. 0..n \subseteq D
    BY <1>1, <1>2, <2>1, <2>2, Upward, Zenon
  <2>4. QED
    BY <1>1, <2>3
<1>5. \E f : Flattens(f, n)
  BY <1>4
<1>6. QED
  BY <1>5 DEF Flatten

\* Two sequences that agree up to n are flattened alike up to n.
LEMMA FlattenAgrees ==
    ASSUME NEW S, NEW s \in Seq(S), NEW t \in Seq(S), NEW n \in Nat,
           n <= Len(s), n <= Len(t), \A i \in 1..n : s[i] = t[i]
    PROVE  \A i \in 1..n : Flatten(s)[i] = Flatten(t)[i]
<1> DEFINE D == {i \in 1..n : Flatten(s)[i] = Flatten(t)[i]}
<1>1. \A i \in 1..n : i \in 1..Len(s) /\ i \in 1..Len(t)
  OBVIOUS
<1>2. ASSUME NEW i \in 1..n
      PROVE  /\ Flatten(s)[i] = IF i = 1 THEN s[i] ELSE Flatten(s)[i - 1] \o s[i]
             /\ Flatten(t)[i] = IF i = 1 THEN t[i] ELSE Flatten(t)[i - 1] \o t[i]
  <2>1. Flatten(s)[i] = IF i = 1 THEN s[i] ELSE Flatten(s)[i - 1] \o s[i]
    BY <1>1, FlattenIs
  <2>2. Flatten(t)[i] = IF i = 1 THEN t[i] ELSE Flatten(t)[i - 1] \o t[i]
    BY <1>1, FlattenIs
  <2>3. QED
    BY <2>1, <2>2
<1>3. n >= 1 => 1 \in D
  BY <1>2
<1>4. \A i \in 1..n : i \in D /\ i < n => i + 1 \in D
  BY <1>2
<1> HIDE DEF D
<1>5. n >= 1 => 1..n \subseteq D
  BY <1>3, <1>4, Upward
<1>6. QED
  BY <1>5 DEF D

\* FlattenSeq, by its last sequence.
LEMMA FlattenSeqIs ==
    ASSUME NEW S, NEW seqs \in Seq(S)
    PROVE  FlattenSeq(seqs) = IF Len(seqs) = 0 THEN seqs ELSE Flatten(seqs)[Len(seqs)]
BY Zenon DEF FlattenSeq, Flatten

LEMMA FlattenAppend ==
    ASSUME NEW S, NEW seqs \in Seq(Seq(S)), NEW x \in Seq(S)
    PROVE  FlattenSeq(Append(seqs, x)) = FlattenSeq(seqs) \o x
<1> DEFINE n == Len(seqs)
           t == Append(seqs, x)
<1>1. /\ n \in Nat /\ t \in Seq(Seq(S)) /\ Len(t) = n + 1 /\ t[n + 1] = x
      /\ \A i \in 1..n : t[i] = seqs[i]
  OBVIOUS
<1> HIDE DEF t
<1>2. FlattenSeq(t) = Flatten(t)[n + 1]
  BY <1>1, FlattenSeqIs
<1>3. Flatten(t)[n + 1] = IF n + 1 = 1 THEN t[n + 1] ELSE Flatten(t)[n + 1 - 1] \o t[n + 1]
  <2>1. n + 1 \in 1..Len(t)
    BY <1>1
  <2>2. Flatten(t) = [i \in 1..Len(t) |-> IF i = 1 THEN t[i] ELSE Flatten(t)[i - 1] \o t[i]]
    BY <1>1, FlattenIs
  <2>3. \A i \in 1..Len(t) : Flatten(t)[i] = IF i = 1 THEN t[i] ELSE Flatten(t)[i - 1] \o t[i]
    BY <2>2, Zenon
  <2> DEFINE m == n + 1
  <2> SUFFICES Flatten(t)[m] = IF m = 1 THEN t[m] ELSE Flatten(t)[m - 1] \o t[m]
    OBVIOUS
  <2>4. m \in 1..Len(t)
    BY <2>1
  <2> HIDE DEF m
  <2>5. QED
    BY <2>3, <2>4
<1>4. CASE n = 0
  <2>1. FlattenSeq(seqs) = seqs /\ seqs = <<>>
    <3>1. seqs = <<>>
      BY <1>4
    <3>2. FlattenSeq(seqs) = seqs
      BY <1>4, FlattenSeqIs, Zenon
    <3>3. QED
      BY <3>1, <3>2
  <2>2. QED
    BY <1>1, <1>2, <1>3, <1>4, <2>1 DEF t
<1>5. CASE n # 0
  <2>1. FlattenSeq(seqs) = Flatten(seqs)[n]
    BY <1>5, FlattenSeqIs
  <2>2. Flatten(t)[n] = Flatten(seqs)[n]
    <3>1. \A i \in 1..n : Flatten(t)[i] = Flatten(seqs)[i]
      <4>1. n <= Len(t) /\ n <= Len(seqs)
        BY <1>1
      <4>2. QED
        BY <1>1, <4>1, FlattenAgrees
    <3>2. QED
      BY <1>1, <1>5, <3>1
  <2>3. n + 1 # 1 /\ n + 1 - 1 = n
    BY <1>1, <1>5
  <2>4. FlattenSeq(t) = Flatten(t)[n] \o t[n + 1]
    BY <1>2, <1>3, <2>3
  <2>5. QED
    BY <1>1, <2>1, <2>2, <2>4 DEF t
<1>6. QED
  BY <1>4, <1>5

-----------------------------------------------------------------------------
(***************************************************************************)
(* The listing.                                                            *)
(***************************************************************************)
\* The listing of n pages, from that of one page less.
NextPages(before, n) ==
    LET p == IF n = 1 THEN 1
             ELSE IF Len(before) < n - 1 THEN NoPage ELSE NextUrl(Last(before))
    IN  IF p = NoPage \/ Contains(before, p) THEN before ELSE Append(before, p)

LEMMA NextPagesAfter ==
    ASSUME NEW before, NEW n, n # 1, ~(Len(before) < n - 1)
    PROVE  NextPages(before, n) = IF \/ NextUrl(Last(before)) = NoPage
                                     \/ Contains(before, NextUrl(Last(before)))
                                  THEN before ELSE Append(before, NextUrl(Last(before)))
BY DEF NextPages

\* The function by which Listing is defined.
Walk ==
    CHOOSE f : f = [n \in 0..options.max_pages |->
                       IF n = 0 THEN <<>> ELSE NextPages(f[n - 1], n)]

LEMMA ListingIs == Listing = Walk[options.max_pages]
BY Zenon DEF Listing, Walk, NextPages

\* There is such a function.
LEMMA WalkIs ==
    ASSUME options.max_pages \in Nat
    PROVE  Walk = [n \in 0..options.max_pages |->
                      IF n = 0 THEN <<>> ELSE NextPages(Walk[n - 1], n)]
<1> DEFINE M == options.max_pages
           Walks(f, m) == f = [n \in 0..m |-> IF n = 0 THEN <<>> ELSE NextPages(f[n - 1], n)]
           D == {m \in 0..M : \E f : Walks(f, m)}
<1>1. 0 \in D
  <2> DEFINE g == [n \in 0..0 |-> <<>>]
  <2>1. g = [n \in 0..0 |-> IF n = 0 THEN <<>> ELSE NextPages(g[n - 1], n)]
    OBVIOUS
  <2>2. Walks(g, 0)
    BY <2>1
  <2>3. 0 \in 0..M
    OBVIOUS
  <2> HIDE DEF Walks
  <2>4. QED
    BY <2>2, <2>3
<1>2. ASSUME NEW m \in 0..M, m \in D, m < M PROVE m + 1 \in D
  <2>1. PICK f : Walks(f, m)
    BY <1>2
  <2> DEFINE g == [n \in 0..(m + 1) |-> IF n = 0 THEN <<>> ELSE NextPages(f[n - 1], n)]
  <2>2. ASSUME NEW n \in 0..m PROVE g[n] = f[n]
    <3>1. f[n] = IF n = 0 THEN <<>> ELSE NextPages(f[n - 1], n)
      BY <2>1, Zenon
    <3>2. n \in 0..(m + 1)
      BY <1>2
    <3>3. g[n] = IF n = 0 THEN <<>> ELSE NextPages(f[n - 1], n)
      BY <3>2, Zenon
    <3>4. QED
      BY <3>1, <3>3
  <2>3. ASSUME NEW n \in 0..(m + 1)
        PROVE  g[n] = IF n = 0 THEN <<>> ELSE NextPages(g[n - 1], n)
    <3>1. n # 0 => n - 1 \in 0..m
      OBVIOUS
    <3>2. g[n] = IF n = 0 THEN <<>> ELSE NextPages(f[n - 1], n)
      OBVIOUS
    <3> HIDE DEF g
    <3>3. QED
      BY <2>2, <3>1, <3>2
  <2>4. Walks(g, m + 1)
    BY <2>3
  <2>5. m + 1 \in 0..M
    BY <1>2
  <2> HIDE DEF g, Walks
  <2>6. QED
    BY <2>4, <2>5
<1>3. M \in D
  <2> HIDE DEF D
  <2>1. \A m \in 0..M : m \in D /\ m < M => m + 1 \in D
    BY <1>2
  <2>2. 0..M \subseteq D
    BY <1>1, <2>1, Upward
  <2>3. QED
    BY <2>2
<1>4. \E f : Walks(f, M)
  BY <1>3
<1>5. QED
  BY <1>4 DEF Walk

\* What Walk is at 0, and at the number after n.
LEMMA WalkStep ==
    ASSUME options.max_pages \in Nat
    PROVE  /\ Walk[0] = <<>>
           /\ \A n \in 0..options.max_pages :
                 n < options.max_pages => Walk[n + 1] = NextPages(Walk[n], n + 1)
<1> DEFINE M == options.max_pages
<1>1. \A n \in 0..M : Walk[n] = IF n = 0 THEN <<>> ELSE NextPages(Walk[n - 1], n)
  BY WalkIs, Zenon
<1>2. ASSUME NEW n \in 0..M, n < M PROVE Walk[n + 1] = NextPages(Walk[n], n + 1)
  <2> DEFINE m == n + 1
  <2>1. m \in 0..M /\ m # 0 /\ m - 1 = n
    BY <1>2
  <2> HIDE DEF m
  <2>2. Walk[m] = NextPages(Walk[m - 1], m)
    BY <1>1, <2>1
  <2>3. QED
    BY <2>1, <2>2 DEF m
<1>3. QED
  BY <1>1, <1>2

\* The next page of a page that was the n-th of a listing by numbers.
LEMMA NextUrlType ==
    ASSUME options \in Options, site \in Sites, NEW p \in Pages
    PROVE  /\ NextUrl(p) \in 0..(NPages + 1)
           /\ options.paging # "param" => NextUrl(p) \in Pages \cup {NoPage}
           /\ options.paging = "param" => NextUrl(p) \in {p + 1, NoPage}
<1>1. NPages \in Nat \ {0}
  BY SiteAssumption
<1>2. site[p].next \in Pages \cup {NoPage}
  BY DEF Sites
<1>3. p + 1 \in 0..(NPages + 1) /\ Pages \cup {NoPage} \subseteq 0..(NPages + 1)
  BY <1>1 DEF Pages, NoPage
<1>4. QED
  BY <1>2, <1>3 DEF NextUrl

\* A listing of n pages has at most n, all of the site; by numbers, they are the
\* first ones.
WalkTyped(n) ==
    /\ Walk[n] \in Seq(Pages) /\ Len(Walk[n]) <= n
    /\ options.paging = "param" /\ Len(Walk[n]) > 0 => Walk[n][Len(Walk[n])] = Len(Walk[n])

LEMMA WalkNext ==
    ASSUME options \in Options, site \in Sites,
           NEW n \in 0..options.max_pages, n < options.max_pages, WalkTyped(n)
    PROVE  /\ WalkTyped(n + 1)
           /\ Walk[n + 1] = Walk[n] \/ \E p \in Pages : Walk[n + 1] = Append(Walk[n], p)
<1> DEFINE W == Walk[n]
           p == IF n + 1 = 1 THEN 1
                ELSE IF Len(W) < n + 1 - 1 THEN NoPage ELSE NextUrl(Last(W))
<1>1. options.max_pages \in Nat /\ options.max_pages <= NPages /\ NPages \in Nat \ {0}
  BY SiteAssumption DEF Options
<1>2. W \in Seq(Pages) /\ Len(W) \in Nat /\ Len(W) <= n
  BY DEF WalkTyped
<1>3. Walk[n + 1] = IF p = NoPage \/ Contains(W, p) THEN W ELSE Append(W, p)
  BY <1>1, WalkStep DEF NextPages
<1>4. /\ p \in Pages \cup {NoPage}
      /\ p # NoPage => n = Len(W)
      /\ p # NoPage /\ options.paging = "param" => p = Len(W) + 1
  <2>1. CASE n = 0
    <3>1. p = 1 /\ Len(W) = 0
      BY <1>2, <2>1
    <3>2. QED
      BY <1>1, <2>1, <3>1 DEF Pages, NoPage
  <2>2. CASE n # 0 /\ Len(W) < n
    <3>1. p = NoPage
      BY <1>1, <1>2, <2>2
    <3>2. QED
      BY <3>1
  <2>3. CASE n # 0 /\ Len(W) = n
    <3>1. p = NextUrl(W[n]) /\ W[n] \in Pages
      BY <1>1, <1>2, <2>3 DEF Last
    <3>2. CASE options.paging # "param"
      BY <2>3, <3>1, <3>2, NextUrlType
    <3>3. CASE options.paging = "param"
      <4>1. W[n] = n
        BY <1>1, <1>2, <2>3, <3>3 DEF WalkTyped
      <4>2. p \in {n + 1, NoPage}
        BY <3>1, <3>3, <4>1, NextUrlType
      <4>3. n + 1 \in Pages
        BY <1>1 DEF Pages
      <4>4. QED
        BY <2>3, <4>2, <4>3
    <3>4. QED
      BY <3>2, <3>3
  <2>4. QED
    BY <1>1, <1>2, <2>1, <2>2, <2>3
<1> HIDE DEF p
<1>5. CASE p = NoPage \/ Contains(W, p)
  <2>1. Walk[n + 1] = W
    BY <1>3, <1>5
  <2>2. QED
    BY <1>2, <2>1 DEF WalkTyped
<1>6. CASE ~(p = NoPage \/ Contains(W, p))
  <2>1. Walk[n + 1] = Append(W, p) /\ p \in Pages /\ n = Len(W)
    BY <1>3, <1>4, <1>6
  <2>2. /\ Append(W, p) \in Seq(Pages) /\ Len(Append(W, p)) = n + 1
        /\ Append(W, p)[n + 1] = p
    BY <1>2, <2>1
  <2>3. options.paging = "param" => p = n + 1
    BY <1>4, <1>6, <2>1
  <2>4. QED
    BY <2>1, <2>2, <2>3 DEF WalkTyped
<1>7. QED
  BY <1>5, <1>6

LEMMA WalkType ==
    ASSUME options \in Options, site \in Sites
    PROVE  \A n \in 0..options.max_pages : WalkTyped(n)
<1> DEFINE M == options.max_pages
           D == {n \in 0..M : WalkTyped(n)}
<1>1. M \in Nat
  BY SiteAssumption DEF Options
<1>2. 0 \in D
  <2>1. Walk[0] = <<>>
    BY <1>1, WalkStep
  <2>2. <<>> \in Seq(Pages) /\ Len(<<>>) = 0
    OBVIOUS
  <2>3. WalkTyped(0)
    BY <2>1, <2>2 DEF WalkTyped
  <2>4. QED
    BY <1>1, <2>3
<1>3. \A n \in 0..M : n \in D /\ n < M => n + 1 \in D
  BY <1>1, WalkNext
<1> HIDE DEF D
<1>4. 0..M \subseteq D
  BY <1>1, <1>2, <1>3, Upward
<1>5. QED
  BY <1>4 DEF D

\* A listing that a page did not make longer stays as it is.
LEMMA WalkEnds ==
    ASSUME options \in Options, site \in Sites,
           NEW n \in 0..options.max_pages, n < options.max_pages, Walk[n + 1] = Walk[n]
    PROVE  Walk[options.max_pages] = Walk[n]
<1> DEFINE M == options.max_pages
           D == {m \in (n + 1)..M : Walk[m] = Walk[n]}
<1>1. M \in Nat
  BY SiteAssumption DEF Options
<1>2. n + 1 \in D
  BY <1>1
<1>3. ASSUME NEW m \in (n + 1)..M, m \in D, m < M PROVE m + 1 \in D
  <2>1. Walk[m + 1] = NextPages(Walk[m], m + 1)
    BY <1>1, <1>3, WalkStep
  <2>2. Walk[m] = Walk[n] /\ Walk[n] \in Seq(Pages) /\ Len(Walk[n]) <= n
    BY <1>3, WalkType DEF WalkTyped
  <2>3. m + 1 # 1 /\ Len(Walk[m]) < m + 1 - 1
    BY <1>1, <1>3, <2>2
  <2>4. NextPages(Walk[m], m + 1) = Walk[m]
    BY <2>3 DEF NextPages
  <2>5. m + 1 \in (n + 1)..M
    BY <1>1, <1>3
  <2>6. QED
    BY <2>1, <2>2, <2>4, <2>5
<1> HIDE DEF D
<1>4. (n + 1)..M \subseteq D
  <2>1. \A m \in (n + 1)..M : m \in D /\ m < M => m + 1 \in D
    BY <1>3
  <2>2. n + 1 \in Nat /\ n + 1 <= M
    BY <1>1
  <2>3. QED
    BY <1>1, <1>2, <2>1, <2>2, Upward
<1>5. M \in (n + 1)..M
  BY <1>1
<1>6. QED
  BY <1>4, <1>5 DEF D

-----------------------------------------------------------------------------
(***************************************************************************)
(* The items of a listing.                                                 *)
(***************************************************************************)
Entries == Pages \X (1..MaxPerPage)

\* The items of a sequence of pages, as CollectsListing has them.
ItemsOn(pages) == FlattenSeq([i \in 1..Len(pages) |-> ItemsOf(pages[i])])

LEMMA ItemsOfType ==
    ASSUME site \in Sites, NEW p \in Pages
    PROVE  /\ ItemsOf(p) \in Seq(Entries) /\ Len(ItemsOf(p)) = site[p].items
           /\ site[p].items \in 0..MaxPerPage
           /\ \A i \in 1..site[p].items : ItemsOf(p)[i] = <<p, i>>
<1>1. site[p].items \in 0..MaxPerPage /\ MaxPerPage \in Nat
  BY SiteAssumption DEF Sites
<1>2. \A i \in 1..site[p].items : <<p, i>> \in Entries
  BY <1>1 DEF Entries
<1>3. QED
  BY <1>1, <1>2 DEF ItemsOf

LEMMA ItemsOnAppend ==
    ASSUME site \in Sites, NEW pages \in Seq(Pages), NEW p \in Pages
    PROVE  ItemsOn(Append(pages, p)) = ItemsOn(pages) \o ItemsOf(p)
<1> DEFINE s == [i \in 1..Len(pages) |-> ItemsOf(pages[i])]
           t == [i \in 1..Len(Append(pages, p)) |-> ItemsOf(Append(pages, p)[i])]
<1>1. \A i \in 1..Len(pages) : ItemsOf(pages[i]) \in Seq(Entries)
  BY ItemsOfType
<1>2. s \in Seq(Seq(Entries)) /\ Len(s) = Len(pages)
  BY <1>1
<1>3. ItemsOf(p) \in Seq(Entries)
  BY ItemsOfType
<1>4. t = Append(s, ItemsOf(p))
  <2>1. /\ Len(Append(pages, p)) = Len(pages) + 1 /\ Len(pages) \in Nat
        /\ Append(pages, p)[Len(pages) + 1] = p
        /\ \A i \in 1..Len(pages) : Append(pages, p)[i] = pages[i]
    OBVIOUS
  <2>2. /\ Append(s, ItemsOf(p)) = [i \in 1..(Len(s) + 1) |->
                                       IF i = Len(s) + 1 THEN ItemsOf(p) ELSE s[i]]
    BY <1>2
  <2>3. ASSUME NEW i \in 1..(Len(pages) + 1)
        PROVE  ItemsOf(Append(pages, p)[i]) = IF i = Len(s) + 1 THEN ItemsOf(p) ELSE s[i]
    BY <1>2, <2>1
  <2> HIDE DEF s
  <2>4. QED
    BY <1>2, <2>1, <2>2, <2>3
<1>5. FlattenSeq(Append(s, ItemsOf(p))) = FlattenSeq(s) \o ItemsOf(p)
  BY <1>2, <1>3, FlattenAppend
<1>6. QED
  BY <1>4, <1>5 DEF ItemsOn

\* The items of the first n pages of the listing are items, and come first in
\* the items of the first m.
LEMMA ItemsOnType ==
    ASSUME options \in Options, site \in Sites
    PROVE  \A n \in 0..options.max_pages : ItemsOn(Walk[n]) \in Seq(Entries)
<1> DEFINE M == options.max_pages
           D == {n \in 0..M : ItemsOn(Walk[n]) \in Seq(Entries)}
<1>1. M \in Nat
  BY SiteAssumption DEF Options
<1>2. 0 \in D
  <2>1. Walk[0] = <<>>
    BY <1>1, WalkStep
  <2>2. [i \in 1..Len(<<>>) |-> ItemsOf(<<>>[i])] = <<>>
    OBVIOUS
  <2>3. FlattenSeq(<<>>) = <<>>
    <3>1. <<>> \in Seq(Seq(Entries)) /\ Len(<<>>) = 0
      OBVIOUS
    <3>2. QED
      BY <3>1, FlattenSeqIs, Zenon
  <2>4. ItemsOn(Walk[0]) = <<>>
    BY <2>1, <2>2, <2>3 DEF ItemsOn
  <2>5. <<>> \in Seq(Entries) /\ 0 \in 0..M
    BY <1>1
  <2>6. QED
    BY <2>4, <2>5
<1>3. ASSUME NEW n \in 0..M, n \in D, n < M PROVE n + 1 \in D
  <2>1. WalkTyped(n)
    BY WalkType
  <2>2. CASE Walk[n + 1] = Walk[n]
    BY <1>1, <1>3, <2>2
  <2>3. CASE \E p \in Pages : Walk[n + 1] = Append(Walk[n], p)
    <3>1. PICK p \in Pages : Walk[n + 1] = Append(Walk[n], p)
      BY <2>3
    <3>2. ItemsOn(Walk[n + 1]) = ItemsOn(Walk[n]) \o ItemsOf(p)
      BY <2>1, <3>1, ItemsOnAppend DEF WalkTyped
    <3>3. ItemsOf(p) \in Seq(Entries) /\ ItemsOn(Walk[n]) \in Seq(Entries)
      BY <1>3, ItemsOfType
    <3>4. ItemsOn(Walk[n + 1]) \in Seq(Entries)
      BY <3>2, <3>3
    <3>5. QED
      BY <1>1, <1>3, <3>4
  <2>4. QED
    BY <1>3, <2>1, <2>2, <2>3, WalkNext
<1> HIDE DEF D
<1>4. 0..M \subseteq D
  <2>1. \A n \in 0..M : n \in D /\ n < M => n + 1 \in D
    BY <1>3
  <2>2. QED
    BY <1>1, <1>2, <2>1, Upward
<1>5. QED
  BY <1>4 DEF D

LEMMA ItemsOnGrow ==
    ASSUME options \in Options, site \in Sites, NEW n \in 0..options.max_pages
    PROVE  /\ Len(ItemsOn(Walk[n])) <= Len(ItemsOn(Listing))
           /\ \A i \in 1..Len(ItemsOn(Walk[n])) : ItemsOn(Walk[n])[i] = ItemsOn(Listing)[i]
<1> DEFINE M == options.max_pages
           s == ItemsOn(Walk[n])
           First(t) == Len(s) <= Len(t) /\ \A i \in 1..Len(s) : s[i] = t[i]
           D == {m \in n..M : First(ItemsOn(Walk[m]))}
<1>1. M \in Nat /\ s \in Seq(Entries) /\ Len(s) \in Nat
  BY SiteAssumption, ItemsOnType DEF Options
<1>2. n \in D
  BY <1>1
<1>3. ASSUME NEW m \in n..M, m \in D, m < M PROVE m + 1 \in D
  <2>1. m \in 0..M /\ m + 1 \in n..M
    BY <1>1, <1>3
  <2>2. WalkTyped(m) /\ ItemsOn(Walk[m]) \in Seq(Entries)
    BY <2>1, WalkType, ItemsOnType
  <2>3. CASE Walk[m + 1] = Walk[m]
    BY <1>3, <2>1, <2>3
  <2>4. CASE \E p \in Pages : Walk[m + 1] = Append(Walk[m], p)
    <3>1. PICK p \in Pages : Walk[m + 1] = Append(Walk[m], p)
      BY <2>4
    <3>2. ItemsOn(Walk[m + 1]) = ItemsOn(Walk[m]) \o ItemsOf(p)
      BY <2>2, <3>1, ItemsOnAppend DEF WalkTyped
    <3>3. ItemsOf(p) \in Seq(Entries)
      BY ItemsOfType
    <3>4. First(ItemsOn(Walk[m])) 
      BY <1>3
    <3> DEFINE t == ItemsOn(Walk[m])
    <3> HIDE DEF s, t
    <3>5. First(t \o ItemsOf(p))
      BY <1>1, <2>2, <3>3, <3>4 DEF t
    <3>6. QED
      BY <2>1, <3>2, <3>5 DEF t
  <2>5. QED
    BY <1>3, <2>1, <2>2, <2>3, <2>4, WalkNext
<1> HIDE DEF D
<1>4. n..M \subseteq D
  <2>1. \A m \in n..M : m \in D /\ m < M => m + 1 \in D
    BY <1>3
  <2>2. n \in Nat /\ n <= M
    BY <1>1
  <2>3. QED
    BY <1>1, <1>2, <2>1, <2>2, Upward
<1>5. M \in D
  BY <1>1, <1>4
<1>6. QED
  BY <1>5, ListingIs DEF D

-----------------------------------------------------------------------------
(***************************************************************************)
(* The invariant.                                                          *)
(***************************************************************************)
\* Turns the page loop has taken, the pages loaded in them, and what they list.
Turns == options.max_pages - left
Loaded == Walk[Turns]
Listed == ItemsOn(Loaded)
Wanted == ItemsOn(Listing)

\* The page after those loaded.
Following == IF Turns = 0 THEN 1 ELSE NextUrl(Loaded[Turns])

\* The pages loaded are those of the listing, and the one being read, or looked
\* for, is the last or the next of them.
AlongListing ==
    /\ left <= options.max_pages /\ Len(Loaded) = Turns
    /\ seen = {Loaded[i] : i \in 1..Turns}
    /\ pc = "page" => url = Following
    /\ pc \in {"loading", "items", "detail"} => Turns > 0 /\ url = Loaded[Turns]

\* Items are yielded in the order of the listing, position of them from this page.
InOrder ==
    /\ Len(yielded) <= Len(Listed)
    /\ \A i \in 1..Len(yielded) : yielded[i] = Listed[i]
    /\ pc = "page" => Len(yielded) = Len(Listed)
    /\ pc \in {"loading", "items", "detail"} =>
          /\ Len(yielded) + site[url].items = Len(Listed) + position
          /\ position <= site[url].items
    /\ pc = "loading" => position = 0
    /\ pc = "detail" => position < site[url].items

\* The limit on items is not passed, and ends the collection when it is reached.
WithinLimit ==
    options.max_items # 0 =>
        /\ Len(yielded) <= options.max_items
        /\ pc \notin {"ended", "failed"} => Len(yielded) < options.max_items

\* A collection ends at the limit, or behind the last page of the listing.
EndsInTime ==
    pc = "ended" =>
        \/ options.max_items # 0 /\ Len(yielded) = options.max_items
        \/ Len(yielded) = Len(Wanted)

Progress == TypeOK /\ AlongListing /\ InOrder /\ WithinLimit /\ EndsInTime

\* What the invariant says of the numbers and pages of a state.
LEMMA LoadedFacts ==
    ASSUME TypeOK, left <= options.max_pages
    PROVE  /\ options.max_pages \in Nat /\ options.max_pages <= NPages /\ NPages \in Nat \ {0}
           /\ options.max_items \in Nat /\ left \in Nat /\ position \in Nat
           /\ Turns \in 0..options.max_pages /\ (left # 0 <=> Turns < options.max_pages)
           /\ Loaded \in Seq(Pages) /\ Listed \in Seq(Entries) /\ Wanted \in Seq(Entries)
           /\ Len(Listed) <= Len(Wanted) /\ \A i \in 1..Len(Listed) : Listed[i] = Wanted[i]
<1>1. /\ options.max_pages \in Nat /\ options.max_pages <= NPages /\ NPages \in Nat \ {0}
      /\ options.max_items \in Nat /\ left \in Nat /\ position \in Nat
  BY SiteAssumption DEF TypeOK, Options
<1>2. Turns \in 0..options.max_pages /\ (left # 0 <=> Turns < options.max_pages)
  BY <1>1 DEF Turns
<1>3. options \in Options /\ site \in Sites
  BY DEF TypeOK
<1>4. Loaded \in Seq(Pages)
  BY <1>2, <1>3, WalkType DEF Loaded, WalkTyped
<1>5. Listed \in Seq(Entries) /\ Wanted \in Seq(Entries)
  BY <1>1, <1>2, <1>3, ItemsOnType, ListingIs DEF Loaded, Listed, Wanted
<1>6. Len(Listed) <= Len(Wanted) /\ \A i \in 1..Len(Listed) : Listed[i] = Wanted[i]
  BY <1>2, <1>3, ItemsOnGrow DEF Loaded, Listed, Wanted
<1>7. QED
  BY <1>1, <1>2, <1>4, <1>5, <1>6

\* The site and the options do not change, and so the listing does not.
LEMMA ListingStays ==
    ASSUME UNCHANGED <<options, site>>
    PROVE  /\ Turns' = options.max_pages - left' /\ Loaded' = Walk[Turns'] /\ Wanted' = Wanted
           /\ Listed' = ItemsOn(Walk[Turns'])
           /\ Following' = IF Turns' = 0 THEN 1 ELSE NextUrl(Walk[Turns'][Turns'])
<1>1. Walk' = Walk
  BY DEF Walk, NextPages, NextUrl
<1>2. Listing' = Listing
  BY DEF Listing, NextUrl
<1>3. Turns' = options.max_pages - left'
  BY DEF Turns
<1>4. Listed' = ItemsOn(Walk[Turns'])
  BY <1>1 DEF Listed, Loaded, ItemsOn, ItemsOf
<1>5. Wanted' = Wanted
  BY <1>2 DEF Wanted, ItemsOn, ItemsOf
<1>6. Following' = IF Turns' = 0 THEN 1 ELSE NextUrl(Walk[Turns'][Turns'])
  BY <1>1 DEF Following, Loaded, NextUrl
<1>7. QED
  BY <1>1, <1>3, <1>4, <1>5, <1>6 DEF Loaded

\* As long as no page is loaded, neither do the pages loaded.
LEMMA PagesStay ==
    ASSUME UNCHANGED <<options, site, left>>
    PROVE  /\ Turns' = Turns /\ Loaded' = Loaded /\ Listed' = Listed /\ Wanted' = Wanted
           /\ Following' = Following
<1>1. Turns' = Turns
  BY DEF Turns
<1>2. QED
  BY <1>1, ListingStays DEF Loaded, Listed, Following

-----------------------------------------------------------------------------
(***************************************************************************)
(* The actions.                                                            *)
(***************************************************************************)
\* The page loop ends: after max_pages turns, or because the next page is none
\* or was loaded, which is where the listing ends.
LEMMA TurnEnds ==
    ASSUME Progress, Turn, left = 0 \/ url = NoPage \/ url \in seen
    PROVE  Progress'
<1> USE DEF Progress
<1>1. pc = "page" /\ pc' = "ended" /\ UNCHANGED <<options, site, url, seen, left, position, yielded>>
  BY DEF Turn
<1>2. left <= options.max_pages
  BY DEF AlongListing
<1>3. /\ options.max_pages \in Nat /\ Turns \in 0..options.max_pages
      /\ (left # 0 <=> Turns < options.max_pages) /\ Loaded \in Seq(Pages)
  BY <1>2, LoadedFacts
<1>4. Listing = Loaded
  <2>1. CASE left = 0
    <3>1. Turns = options.max_pages
      BY <1>3, <2>1
    <3>2. QED
      BY <3>1, ListingIs DEF Loaded
  <2>2. CASE left # 0
    <3>1. /\ Turns < options.max_pages /\ url = Following /\ Len(Loaded) = Turns
          /\ seen = {Loaded[i] : i \in 1..Turns}
      BY <1>1, <1>3, <2>2 DEF AlongListing
    <3>2. Walk[Turns + 1] = NextPages(Loaded, Turns + 1)
      BY <1>3, <3>1, WalkStep DEF Loaded
    <3>3. url = NoPage \/ Contains(Loaded, url)
      BY <2>2, <3>1 DEF Contains
    <3>4. Turns = 0 => url = 1 /\ seen = {}
      BY <3>1 DEF Following
    <3>5. Turns # 0
      BY <2>2, <3>4 DEF NoPage
    <3>6. url = NextUrl(Last(Loaded)) /\ Turns + 1 # 1 /\ ~(Len(Loaded) < Turns + 1 - 1)
      BY <1>3, <3>1, <3>5 DEF Following, Last
    <3>7. NextPages(Loaded, Turns + 1) = Loaded
      BY <3>3, <3>6 DEF NextPages
    <3>8. Walk[options.max_pages] = Walk[Turns]
      BY <1>3, <3>1, <3>2, <3>7, WalkEnds DEF Loaded, TypeOK
    <3>9. QED
      BY <3>8, ListingIs DEF Loaded
  <2>3. QED
    BY <2>1, <2>2
<1>5. Len(yielded) = Len(Wanted)
  BY <1>1, <1>4 DEF InOrder, Listed, Wanted
<1>6. Turns' = Turns /\ Loaded' = Loaded /\ Listed' = Listed /\ Wanted' = Wanted
  BY <1>1, PagesStay
<1>7. TypeOK'
  BY <1>1 DEF TypeOK
<1>8. QED
  BY <1>1, <1>5, <1>6, <1>7 DEF AlongListing, InOrder, WithinLimit, EndsInTime

\* A page is loaded that is the next of the listing.
LEMMA TurnLoads ==
    ASSUME Progress, Turn, left # 0, url # NoPage, url \notin seen
    PROVE  Progress'
<1> USE DEF Progress
<1>1. /\ pc = "page" /\ pc' = "loading" /\ seen' = seen \cup {url} /\ left' = left - 1
      /\ position' = 0 /\ UNCHANGED <<options, site, url, yielded>>
  BY DEF Turn
<1>2. left <= options.max_pages /\ url = Following /\ Len(Loaded) = Turns
      /\ seen = {Loaded[i] : i \in 1..Turns}
  BY <1>1 DEF AlongListing
<1>3. /\ options.max_pages \in Nat /\ options.max_pages <= NPages /\ NPages \in Nat \ {0}
      /\ left \in Nat
      /\ Turns \in 0..options.max_pages /\ Turns < options.max_pages
      /\ Loaded \in Seq(Pages) /\ Listed \in Seq(Entries)
  BY <1>2, LoadedFacts
<1>4. Walk[Turns + 1] = Append(Loaded, url)
  <2>1. Walk[Turns + 1] = NextPages(Loaded, Turns + 1)
    BY <1>3, WalkStep DEF Loaded
  <2>2. ~Contains(Loaded, url)
    BY <1>2 DEF Contains
  <2>3. CASE Turns = 0
    <3>1. url = 1 /\ Turns + 1 = 1
      BY <1>2, <2>3 DEF Following
    <3>2. QED
      BY <2>1, <2>2, <3>1 DEF NextPages
  <2>4. CASE Turns # 0
    <3>1. url = NextUrl(Last(Loaded))
      BY <1>2, <1>3, <2>4 DEF Following, Last
    <3>2. NextPages(Loaded, Turns + 1)
            = IF url = NoPage \/ Contains(Loaded, url) THEN Loaded ELSE Append(Loaded, url)
      <4>1. PICK m \in Nat : m = Turns + 1
        BY <1>3
      <4>2. m # 1 /\ ~(Len(Loaded) < m - 1)
        BY <1>2, <1>3, <2>4, <4>1
      <4>3. NextPages(Loaded, m)
              = IF \/ NextUrl(Last(Loaded)) = NoPage
                   \/ Contains(Loaded, NextUrl(Last(Loaded)))
                THEN Loaded ELSE Append(Loaded, NextUrl(Last(Loaded)))
        BY <4>2, NextPagesAfter
      <4>4. QED
        BY <3>1, <4>1, <4>3, Zenon
    <3>3. QED
      BY <2>1, <2>2, <3>2
  <2>5. QED
    BY <2>3, <2>4
<1>5. url \in Pages
  <2>1. WalkTyped(Turns + 1)
    BY <1>3, WalkType DEF TypeOK
  <2>2. Append(Loaded, url) \in Seq(Pages)
    BY <1>4, <2>1 DEF WalkTyped
  <2>3. Append(Loaded, url)[Len(Append(Loaded, url))] = url
    /\ Len(Append(Loaded, url)) \in 1..Len(Append(Loaded, url))
    BY <1>3
  <2>4. QED
    BY <2>2, <2>3
<1>6. Turns' = Turns + 1
  BY <1>1, <1>3 DEF Turns
<1>7. Loaded' = Append(Loaded, url) /\ Wanted' = Wanted /\ Listed' = Listed \o ItemsOf(url)
  <2>1. ItemsOn(Append(Loaded, url)) = ItemsOn(Loaded) \o ItemsOf(url)
    BY <1>3, <1>5, ItemsOnAppend DEF TypeOK
  <2>2. QED
    BY <1>1, <1>4, <1>6, <2>1, ListingStays DEF Listed
<1>8. /\ Len(Append(Loaded, url)) = Turns + 1 /\ Append(Loaded, url)[Turns + 1] = url
      /\ \A i \in 1..Turns : Append(Loaded, url)[i] = Loaded[i]
  BY <1>2, <1>3
<1>9. AlongListing'
  <2> DEFINE a == Append(Loaded, url)
  <2>1. seen' = {a[i] : i \in 1..(Turns + 1)}
    <3> HIDE DEF a
    <3>1. \A i \in 1..Turns : i \in 1..(Turns + 1) /\ a[i] = Loaded[i]
      BY <1>3, <1>8 DEF a
    <3>2. Turns + 1 \in 1..(Turns + 1) /\ a[Turns + 1] = url
      BY <1>3, <1>8 DEF a
    <3>3. \A i \in 1..(Turns + 1) : i \in 1..Turns \/ i = Turns + 1
      BY <1>3
    <3>4. seen' = {Loaded[i] : i \in 1..Turns} \cup {url}
      BY <1>1, <1>2
    <3>5. QED
      BY <3>1, <3>2, <3>3, <3>4
  <2>2. QED
    BY <1>1, <1>2, <1>3, <1>6, <1>7, <1>8, <2>1 DEF AlongListing
<1>10. /\ ItemsOf(url) \in Seq(Entries) /\ Len(ItemsOf(url)) = site[url].items
       /\ site[url].items \in 0..MaxPerPage
  BY <1>5, ItemsOfType DEF TypeOK
<1>11. /\ Len(Listed \o ItemsOf(url)) = Len(Listed) + site[url].items /\ Len(Listed) \in Nat
       /\ \A i \in 1..Len(Listed) : (Listed \o ItemsOf(url))[i] = Listed[i]
  BY <1>3, <1>10
<1>12. InOrder'
  <2>1. Len(yielded) = Len(Listed) /\ \A i \in 1..Len(yielded) : yielded[i] = Listed[i]
    BY <1>1 DEF InOrder
  <2>2. site'[url'].items = site[url].items /\ site[url].items \in Nat
    BY <1>1, <1>10
  <2>3. QED
    BY <1>1, <1>7, <1>11, <2>1, <2>2 DEF InOrder
<1>13. TypeOK'
  <2>1. url \in 0..(NPages + 1) /\ left - 1 \in 0..NPages /\ 0 \in 0..MaxPerPage
    BY <1>2, <1>3, SiteAssumption DEF TypeOK
  <2>2. QED
    BY <1>1, <1>5, <2>1 DEF TypeOK
<1>14. WithinLimit' /\ EndsInTime'
  BY <1>1 DEF WithinLimit, EndsInTime
<1>15. QED
  BY <1>9, <1>12, <1>13, <1>14

\* The page is answered, or not.
LEMMA LoadKeeps ==
    ASSUME Progress, Load \/ LoadFails
    PROVE  Progress'
<1> USE DEF Progress
<1>1. /\ pc = "loading" /\ pc' \in {"items", "failed"}
      /\ UNCHANGED <<options, site, url, seen, left, position, yielded>>
  BY DEF Load, LoadFails
<1>2. Turns' = Turns /\ Loaded' = Loaded /\ Listed' = Listed /\ Wanted' = Wanted
  BY <1>1, PagesStay
<1>3. TypeOK'
  BY <1>1 DEF TypeOK
<1>4. QED
  BY <1>1, <1>2, <1>3 DEF AlongListing, InOrder, WithinLimit, EndsInTime

\* The item yielded is the next one of the page.
LEMMA YieldKeeps ==
    ASSUME Progress, Yield, pc \in {"items", "detail"}, position < site[url].items,
           UNCHANGED <<options, site, url, seen, left>>
    PROVE  Progress'
<1> USE DEF Progress
<1> DEFINE e == <<url, position + 1>>
           n == site[url].items
<1>1. /\ yielded' = Append(yielded, e) /\ position' = position + 1
      /\ pc' = IF options.max_items # 0 /\ Len(yielded') >= options.max_items
               THEN "ended" ELSE "items"
  BY DEF Yield
<1>2. left <= options.max_pages /\ Len(Loaded) = Turns /\ Turns > 0 /\ url = Loaded[Turns]
  BY DEF AlongListing
<1>3. /\ options.max_pages \in Nat /\ Turns \in 0..options.max_pages
      /\ Loaded \in Seq(Pages) /\ Listed \in Seq(Entries) /\ position \in Nat
      /\ options.max_items \in Nat
  BY <1>2, LoadedFacts
<1>4. url \in Pages
  BY <1>2, <1>3
<1>5. /\ ItemsOf(url) \in Seq(Entries) /\ Len(ItemsOf(url)) = n /\ n \in 0..MaxPerPage
      /\ \A i \in 1..n : ItemsOf(url)[i] = <<url, i>>
  BY <1>4, ItemsOfType DEF TypeOK
<1>6. PICK before \in Seq(Entries) : Listed = before \o ItemsOf(url)
  <2> DEFINE m == Turns - 1
  <2>1. m \in 0..options.max_pages /\ m < options.max_pages /\ m + 1 = Turns
    BY <1>2, <1>3
  <2>2. WalkTyped(m) /\ ItemsOn(Walk[m]) \in Seq(Entries)
    BY <2>1, WalkType, ItemsOnType DEF TypeOK
  <2>3. Walk[m + 1] = Walk[m] \/ \E p \in Pages : Walk[m + 1] = Append(Walk[m], p)
    BY <2>1, <2>2, WalkNext DEF TypeOK
  <2>4. PICK p \in Pages : Loaded = Append(Walk[m], p)
    <3>1. Len(Walk[m]) < Turns
      BY <2>1, <2>2 DEF WalkTyped
    <3>2. Loaded # Walk[m]
      BY <1>2, <3>1
    <3>3. QED
      BY <2>1, <2>3, <3>2 DEF Loaded
  <2>5. p = url
    <3>1. Walk[m] \in Seq(Pages)
      BY <2>2 DEF WalkTyped
    <3>2. Append(Walk[m], p)[Len(Append(Walk[m], p))] = p
      BY <3>1
    <3>3. QED
      BY <1>2, <2>4, <3>2
  <2>6. Listed = ItemsOn(Walk[m]) \o ItemsOf(url)
    BY <2>2, <2>4, <2>5, ItemsOnAppend DEF WalkTyped, TypeOK, Listed
  <2>7. QED
    BY <2>2, <2>6
<1>7. /\ Len(yielded) + n = Len(Listed) + position
      /\ \A i \in 1..Len(yielded) : yielded[i] = Listed[i]
  BY DEF InOrder
<1>8. yielded \in Seq(Entries) /\ Len(yielded) \in Nat /\ e \in Entries
  <2>1. position + 1 \in 1..MaxPerPage
    BY <1>3, <1>5, SiteAssumption
  <2>2. QED
    BY <1>4, <2>1 DEF TypeOK, Entries
<1>9. Len(before) \in Nat /\ Len(Listed) = Len(before) + n
  BY <1>5, <1>6
<1>10. Len(yielded) = Len(before) + position /\ Len(yielded) + 1 <= Len(Listed)
  <2>1. n \in Nat /\ position < n
    BY <1>5, SiteAssumption
  <2> HIDE DEF n
  <2>2. QED
    BY <1>3, <1>7, <1>8, <1>9, <2>1
<1>11. Listed[Len(yielded) + 1] = e
  <2>1. position + 1 \in 1..n
    BY <1>3, <1>5
  <2>2. Listed[Len(before) + (position + 1)] = ItemsOf(url)[position + 1]
    BY <1>5, <1>6, <1>9, <2>1
  <2>3. QED
    BY <1>3, <1>5, <1>9, <1>10, <2>1, <2>2
<1>12. /\ yielded' \in Seq(Entries) /\ Len(yielded') = Len(yielded) + 1
       /\ yielded'[Len(yielded) + 1] = e
       /\ \A i \in 1..Len(yielded) : yielded'[i] = yielded[i]
  BY <1>1, <1>8
<1>13. Turns' = Turns /\ Loaded' = Loaded /\ Listed' = Listed /\ Wanted' = Wanted
  BY PagesStay
<1>14. InOrder'
  <2>1. \A i \in 1..Len(yielded') : yielded'[i] = Listed[i]
    <3>1. \A i \in 1..(Len(yielded) + 1) : i \in 1..Len(yielded) \/ i = Len(yielded) + 1
      BY <1>8
    <3>2. QED
      BY <1>7, <1>11, <1>12, <3>1
  <2>2. Len(yielded') + n = Len(Listed) + position' /\ position' <= n
    <3>1. n \in Nat /\ position < n /\ Len(Listed) \in Nat
      BY <1>3, <1>5, SiteAssumption
    <3>2. /\ Len(yielded') = Len(yielded) + 1 /\ position' = position + 1
          /\ Len(yielded) + n = Len(Listed) + position
      BY <1>1, <1>7, <1>12
    <3>3. \A a, b, c, d \in Nat :
             a + c = b + d /\ d < c => (a + 1) + c = b + (d + 1) /\ d + 1 <= c
      OBVIOUS
    <3> HIDE DEF n
    <3>4. Len(yielded) + n = Len(Listed) + position /\ position < n
      BY <3>1, <3>2
    <3>5. (Len(yielded) + 1) + n = Len(Listed) + (position + 1) /\ position + 1 <= n
      BY <1>3, <1>8, <3>1, <3>3, <3>4, Zenon
    <3>6. QED
      BY <3>2, <3>5
  <2>3. site'[url'].items = n
    OBVIOUS
  <2>4. pc' \notin {"page", "loading", "detail"}
    BY <1>1
  <2> HIDE DEF n
  <2>5. QED
    BY <1>10, <1>12, <1>13, <2>1, <2>2, <2>3, <2>4 DEF InOrder
<1>15. AlongListing'
  BY <1>1, <1>13 DEF AlongListing
<1>16. WithinLimit' /\ EndsInTime'
  <2>1. options.max_items # 0 => Len(yielded) < options.max_items
    BY DEF WithinLimit
  <2>2. QED
    BY <1>1, <1>3, <1>8, <1>12, <2>1 DEF WithinLimit, EndsInTime
<1>17. TypeOK'
  <2>1. position + 1 \in 0..MaxPerPage
    BY <1>3, <1>5, SiteAssumption
  <2>2. QED
    BY <1>1, <1>12, <2>1 DEF TypeOK, Entries
<1>18. QED
  BY <1>14, <1>15, <1>16, <1>17

\* The items of a page are through.
LEMMA PageReadKeeps ==
    ASSUME Progress, PageRead
    PROVE  Progress'
<1> USE DEF Progress
<1>1. /\ pc = "items" /\ position = site[url].items /\ pc' = "page" /\ url' = NextUrl(url)
      /\ UNCHANGED <<options, site, seen, left, position, yielded>>
  BY DEF PageRead
<1>2. left <= options.max_pages /\ Len(Loaded) = Turns /\ Turns > 0 /\ url = Loaded[Turns]
  BY <1>1 DEF AlongListing
<1>3. /\ Turns \in 0..options.max_pages /\ options.max_pages \in Nat
      /\ Loaded \in Seq(Pages) /\ Listed \in Seq(Entries) /\ position \in Nat
  BY <1>2, LoadedFacts
<1>4. url \in Pages
  BY <1>2, <1>3
<1>5. url' = Following
  BY <1>1, <1>2 DEF Following
<1>6. /\ Turns' = Turns /\ Loaded' = Loaded /\ Listed' = Listed /\ Wanted' = Wanted
      /\ Following' = Following
  BY <1>1, PagesStay
<1>7. AlongListing'
  BY <1>1, <1>5, <1>6 DEF AlongListing
<1>8. InOrder'
  <2>1. Len(yielded) \in Nat /\ Len(Listed) \in Nat
    BY <1>3 DEF TypeOK
  <2>2. Len(yielded) = Len(Listed)
    BY <1>1, <1>3, <2>1 DEF InOrder
  <2>3. QED
    BY <1>1, <1>6, <2>2 DEF InOrder
<1>9. TypeOK'
  <2>1. NextUrl(url) \in 0..(NPages + 1)
    BY <1>4, NextUrlType DEF TypeOK
  <2>2. QED
    BY <1>1, <2>1 DEF TypeOK
<1>10. WithinLimit' /\ EndsInTime'
  BY <1>1 DEF WithinLimit, EndsInTime
<1>11. QED
  BY <1>7, <1>8, <1>9, <1>10

LEMMA ProgressNext == Progress /\ [Next]_vars => Progress'
<1> SUFFICES ASSUME Progress, [Next]_vars PROVE Progress'
  OBVIOUS
<1>1. CASE Turn
  BY <1>1, TurnEnds, TurnLoads
<1>2. CASE Load \/ LoadFails
  BY <1>2, LoadKeeps
<1>3. CASE Item
  BY <1>3, YieldKeeps DEF Item
<1>4. CASE AskDetail
  <2>1. /\ pc = "items" /\ position < site[url].items /\ pc' = "detail"
        /\ UNCHANGED <<options, site, url, seen, left, position, yielded>>
    BY <1>4 DEF AskDetail
  <2>2. Turns' = Turns /\ Loaded' = Loaded /\ Listed' = Listed /\ Wanted' = Wanted
    BY <2>1, PagesStay
  <2>3. TypeOK'
    BY <2>1 DEF Progress, TypeOK
  <2>4. QED
    BY <2>1, <2>2, <2>3 DEF Progress, AlongListing, InOrder, WithinLimit, EndsInTime
<1>5. CASE Detail
  BY <1>5, YieldKeeps DEF Detail, Progress, InOrder
<1>6. CASE PageRead
  BY <1>6, PageReadKeeps
<1>7. CASE UNCHANGED vars
  <2>1. UNCHANGED <<options, site, pc, url, seen, left, position, yielded>>
    BY <1>7 DEF vars
  <2>2. /\ Turns' = Turns /\ Loaded' = Loaded /\ Listed' = Listed /\ Wanted' = Wanted
        /\ Following' = Following
    BY <2>1, PagesStay
  <2>3. TypeOK'
    BY <2>1 DEF Progress, TypeOK
  <2>4. QED
    BY <2>1, <2>2, <2>3 DEF Progress, AlongListing, InOrder, WithinLimit, EndsInTime
<1>8. QED
  BY <1>1, <1>2, <1>3, <1>4, <1>5, <1>6, <1>7 DEF Next

LEMMA ProgressInit == Init => Progress
<1> SUFFICES ASSUME Init PROVE Progress
  OBVIOUS
<1>1. /\ options \in Options /\ site \in Sites /\ pc = "page" /\ url = 1 /\ seen = {}
      /\ left = options.max_pages /\ position = 0 /\ yielded = <<>>
  BY DEF Init
<1>2. TypeOK
  <2>1. 1 \in 0..(NPages + 1) /\ options.max_pages \in 0..NPages /\ 0 \in 0..MaxPerPage
    BY <1>1, SiteAssumption DEF Options
  <2>2. QED
    BY <1>1, <2>1 DEF TypeOK
<1>3. options.max_pages \in Nat /\ options.max_items \in Nat /\ Turns = 0
  BY <1>1, SiteAssumption DEF Options, Turns
<1>4. Loaded = <<>>
  BY <1>3, WalkStep DEF Loaded
<1>5. Listed = <<>>
  <2>1. [i \in 1..Len(<<>>) |-> ItemsOf(<<>>[i])] = <<>>
    OBVIOUS
  <2>2. FlattenSeq(<<>>) = <<>>
    <3>1. <<>> \in Seq(Seq(Entries)) /\ Len(<<>>) = 0
      OBVIOUS
    <3>2. QED
      BY <3>1, FlattenSeqIs, Zenon
  <2>3. QED
    BY <1>4, <2>1, <2>2 DEF Listed, ItemsOn
<1>6. AlongListing
  BY <1>1, <1>3, <1>4 DEF AlongListing, Following
<1>7. InOrder /\ WithinLimit /\ EndsInTime
  BY <1>1, <1>3, <1>5 DEF InOrder, WithinLimit, EndsInTime
<1>8. QED
  BY <1>2, <1>6, <1>7 DEF Progress

LEMMA ProgressAlways == Spec => []Progress
BY ProgressInit, ProgressNext, PTL DEF Spec

-----------------------------------------------------------------------------
(***************************************************************************)
(* The theorems.                                                           *)
(***************************************************************************)
\* However the pages of a site link to each other, collect yields the items of
\* the listing in their order, each once and no more than max_items; a page that
\* fails only cuts them short, and otherwise none is missing in the end.
THEOREM ListingsAreCollected == Spec => []CollectsListing
<1>1. Progress => CollectsListing
  <2> SUFFICES ASSUME Progress PROVE CollectsListing
    OBVIOUS
  <2>1. left <= options.max_pages
    BY DEF Progress, AlongListing
  <2>2. /\ options.max_items \in Nat /\ Listed \in Seq(Entries) /\ Wanted \in Seq(Entries)
        /\ Len(Listed) <= Len(Wanted) /\ \A i \in 1..Len(Listed) : Listed[i] = Wanted[i]
    BY <2>1, LoadedFacts DEF Progress
  <2>3. /\ yielded \in Seq(Entries) /\ Len(yielded) <= Len(Listed)
        /\ \A i \in 1..Len(yielded) : yielded[i] = Listed[i]
    BY DEF Progress, TypeOK, InOrder, Entries
  <2>4. /\ Len(yielded) \in Nat /\ Len(Wanted) \in Nat /\ Len(yielded) <= Len(Wanted)
        /\ \A i \in 1..Len(yielded) : yielded[i] = Wanted[i]
    BY <2>2, <2>3
  <2>5. options.max_items # 0 => Len(yielded) <= options.max_items
    BY DEF Progress, WithinLimit
  <2> DEFINE m == options.max_items
             L == Limited(Wanted)
  <2>6. /\ L \in Seq(Entries)
        /\ Len(L) = IF m = 0 \/ Len(Wanted) <= m THEN Len(Wanted) ELSE m
        /\ \A i \in 1..Len(L) : L[i] = Wanted[i]
    <3>1. CASE m = 0 \/ Len(Wanted) <= m
      BY <2>2, <3>1 DEF Limited
    <3>2. CASE ~(m = 0 \/ Len(Wanted) <= m)
      <4>1. L = SubSeq(Wanted, 1, m)
        BY <3>2 DEF Limited
      <4>2. m \in 1..Len(Wanted)
        BY <2>2, <2>4, <3>2
      <4>3. /\ SubSeq(Wanted, 1, m) \in Seq(Entries) /\ Len(SubSeq(Wanted, 1, m)) = m
            /\ \A i \in 1..m : SubSeq(Wanted, 1, m)[i] = Wanted[i]
        BY <2>2, <2>4, <4>2
      <4>4. QED
        BY <3>2, <4>1, <4>3
    <3>3. QED
      BY <3>1, <3>2
  <2> HIDE DEF L
  <2>7. Len(yielded) <= Len(L) /\ \A i \in 1..Len(yielded) : yielded[i] = L[i]
    BY <2>2, <2>4, <2>5, <2>6
  <2>8. IsPrefix(yielded, L)
    BY <2>3, <2>6, <2>7, PrefixIs
  <2>9. pc = "ended" => yielded = L
    <3> SUFFICES ASSUME pc = "ended" PROVE yielded = L
      OBVIOUS
    <3>1. (m # 0 /\ Len(yielded) = m) \/ Len(yielded) = Len(Wanted)
      BY DEF Progress, EndsInTime
    <3>2. Len(yielded) = Len(L)
      BY <2>2, <2>4, <2>5, <2>6, <3>1
    <3>3. QED
      BY <2>3, <2>6, <2>7, <3>2
  <2>10. CollectsListing <=> IsPrefix(yielded, L) /\ (pc = "ended" => yielded = L)
    BY DEF CollectsListing, L, Wanted, ItemsOn
  <2>11. QED
    BY <2>8, <2>9, <2>10
<1>2. QED
  BY <1>1, ProgressAlways, PTL
=============================================================================

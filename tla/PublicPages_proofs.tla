-------------------------- MODULE PublicPages_proofs --------------------------
(***************************************************************************)
(* Proofs about PublicPages, for every set of posts, every page size and   *)
(* every number of operations on the store.                                *)
(***************************************************************************)
EXTENDS PublicPages, BlogStore_proofs, SequenceTheorems

----------------------------------------------------------------------------
(* The order of the listings.                                              *)

\* How many posts of S come before p.
Rank(S, p) == Cardinality({q \in S : Newer(q, p)})

LEMMA FinitePosts ==
    ASSUME NEW S, S \subseteq PostIds
    PROVE  /\ IsFiniteSet(S) /\ Cardinality(S) \in Nat
           /\ Cardinality(S) + PageSize <= MaxInt
  <1>1. IsFiniteSet(S) /\ Cardinality(S) <= Cardinality(PostIds)
    BY IdsAssumption, FS_Subset
  <1>2. Cardinality(S) \in Nat /\ Cardinality(PostIds) \in Nat
    BY <1>1, IdsAssumption, FS_CardinalityType
  <1> QED
    BY <1>1, <1>2, RoomAssumption, PagesAssumption

LEMMA PublishedRows ==
    ASSUME StoreTypeOK, NEW p \in Published
    PROVE  /\ p \in PostIds /\ posts[p] \in Row /\ posts[p] # NoRow
           /\ posts[p].published_at \in Nat /\ Born[p] \in Nat
  BY PagesAssumption DEF StoreTypeOK, Published, Row, Dates

\* ORDER BY settles every pair of published posts.
LEMMA NewerIsOrder ==
    ASSUME StoreTypeOK, NEW p \in Published, NEW q \in Published
    PROVE  /\ ~Newer(p, p)
           /\ p # q => Newer(p, q) \/ Newer(q, p)
           /\ \A o \in Published : Newer(p, q) /\ Newer(q, o) => Newer(p, o)
  <1>1. \A o \in Published : posts[o].published_at \in Nat /\ Born[o] \in Nat
    BY PublishedRows
  <1>2. p # q => Born[p] # Born[q]
    BY PublishedRows, PagesAssumption
  <1> QED
    BY <1>1, <1>2 DEF Newer

\* Newer posts have smaller ranks, and every rank is a place in the list.
LEMMA RankOrder ==
    ASSUME StoreTypeOK, NEW S, S \subseteq Published, NEW p \in S
    PROVE  /\ Rank(S, p) \in 0 .. Cardinality(S) - 1
           /\ \A q \in S : Newer(q, p) => Rank(S, q) < Rank(S, p)
  <1> DEFINE Before(q) == {o \in S : Newer(o, q)}
  <1>0. S \subseteq PostIds
    BY DEF Published
  <1>1. \A q \in S : /\ IsFiniteSet(Before(q)) /\ Cardinality(Before(q)) \in Nat
                     /\ Cardinality(Before(q)) <= Cardinality(S)
    <2> TAKE q \in S
    <2>1. Before(q) \subseteq S
      OBVIOUS
    <2> QED
      BY <1>0, <2>1, FinitePosts, FS_Subset
  <1>2. Cardinality(Before(p)) # Cardinality(S)
    <2>1. p \notin Before(p)
      BY NewerIsOrder
    <2>2. Before(p) \in SUBSET S
      OBVIOUS
    <2> QED
      BY <1>0, <2>1, <2>2, FinitePosts, FS_Subset
  <1>3. ASSUME NEW q \in S, Newer(q, p)
        PROVE  Cardinality(Before(q)) < Cardinality(Before(p))
    <2>1. Before(q) \in SUBSET Before(p)
      BY <1>3, NewerIsOrder
    <2>2. q \in Before(p) /\ q \notin Before(q)
      BY <1>3, NewerIsOrder
    <2>3. /\ Cardinality(Before(q)) <= Cardinality(Before(p))
          /\ Cardinality(Before(p)) # Cardinality(Before(q))
      BY <1>1, <2>1, <2>2, FS_Subset
    <2> QED
      BY <1>1, <2>3
  <1> QED
    BY <1>0, <1>1, <1>2, <1>3, FinitePosts DEF Rank

\* Counting the newer posts numbers the posts of S without gaps.
LEMMA RankOnto ==
    ASSUME StoreTypeOK, NEW S, S \subseteq Published
    PROVE  /\ \A n \in 1 .. Cardinality(S) : \E p \in S : Rank(S, p) = n - 1
           /\ \A p, q \in S : Rank(S, p) = Rank(S, q) => p = q
  <1> DEFINE place == [p \in S |-> Rank(S, p) + 1]
             N == Cardinality(S)
  <1>0. N \in Nat
    BY FinitePosts DEF Published
  <1>1. \A p, q \in S : Rank(S, p) = Rank(S, q) => p = q
    <2> TAKE p, q \in S
    <2>1. Rank(S, p) \in Nat /\ Rank(S, q) \in Nat
      BY <1>0, RankOrder
    <2>2. Newer(p, q) => Rank(S, p) < Rank(S, q)
      BY RankOrder
    <2>3. Newer(q, p) => Rank(S, q) < Rank(S, p)
      BY RankOrder
    <2>4. p # q => Newer(p, q) \/ Newer(q, p)
      BY NewerIsOrder
    <2> QED
      BY <2>1, <2>2, <2>3, <2>4
  <1>2. \A p \in S : Rank(S, p) \in 0 .. N - 1
    BY RankOrder
  <1>3. place \in [S -> 1 .. N]
    BY <1>0, <1>2
  <1>4. place \in Injection(S, 1 .. N)
    BY <1>1, <1>2, <1>3, <1>0 DEF Injection, IsInjective
  <1>5. IsFiniteSet(1 .. N) /\ Cardinality(1 .. N) = N
    BY <1>0, FS_Interval
  <1>6. place \in Surjection(S, 1 .. N)
    BY <1>4, <1>5, FS_Injection
  <1>7. \A n \in 1 .. N : \E p \in S : Rank(S, p) + 1 = n
    BY <1>6 DEF Surjection
  <1>8. \A n \in 1 .. N : \E p \in S : Rank(S, p) = n - 1
    <2> TAKE n \in 1 .. N
    <2>1. PICK p \in S : Rank(S, p) + 1 = n
      BY <1>7
    <2> QED
      BY <1>0, <1>2, <2>1
  <1> QED
    BY <1>1, <1>8

\* NewestFirst lists every post of S once, at the place of its rank.
LEMMA Listing ==
    ASSUME StoreTypeOK, NEW S, S \subseteq Published
    PROVE  /\ NewestFirst(S) \in Seq(S) /\ Len(NewestFirst(S)) = Cardinality(S)
           /\ \A n \in 1 .. Cardinality(S) :
                 NewestFirst(S)[n] \in S /\ Rank(S, NewestFirst(S)[n]) = n - 1
           /\ \A p \in S : /\ Rank(S, p) + 1 \in 1 .. Cardinality(S)
                           /\ NewestFirst(S)[Rank(S, p) + 1] = p
  <1> DEFINE N == Cardinality(S)
             L == NewestFirst(S)
  <1>0. N \in Nat
    BY FinitePosts DEF Published
  <1>1. L = [n \in 1 .. N |-> CHOOSE p \in S : Rank(S, p) = n - 1]
    BY DEF NewestFirst, Rank
  <1>2. \A n \in 1 .. N : L[n] \in S /\ Rank(S, L[n]) = n - 1
    <2> TAKE n \in 1 .. N
    <2>1. \E p \in S : Rank(S, p) = n - 1
      BY RankOnto
    <2>2. L[n] = CHOOSE p \in S : Rank(S, p) = n - 1
      BY <1>1
    <2> QED
      BY <2>1, <2>2
  <1>3. L \in [1 .. N -> S]
    BY <1>1, <1>2
  <1>4. L \in Seq(S) /\ Len(L) = N
    BY <1>0, <1>3
  <1>5. ASSUME NEW p \in S
        PROVE  Rank(S, p) + 1 \in 1 .. N /\ L[Rank(S, p) + 1] = p
    <2>1. Rank(S, p) \in 0 .. N - 1
      BY RankOrder
    <2>2. Rank(S, p) + 1 \in 1 .. N /\ (Rank(S, p) + 1) - 1 = Rank(S, p)
      BY <1>0, <2>1
    <2>3. L[Rank(S, p) + 1] \in S /\ Rank(S, L[Rank(S, p) + 1]) = Rank(S, p)
      BY <1>2, <2>2
    <2> QED
      BY <2>2, <2>3, RankOnto
  <1> QED
    BY <1>2, <1>4, <1>5

\* An operation that neither adds posts to the published ones nor dates one
\* of them anew brings those that remain forward, or leaves their places.
LEMMA RankShrinks ==
    ASSUME StoreTypeOK, NEW p \in Published, p \in Published',
           Published' \subseteq Published,
           \A q \in Published' : posts'[q].published_at = posts[q].published_at
    PROVE  Rank(Published, p)' <= Rank(Published, p)
  <1>1. {q \in Published : Newer(q, p)}' \in SUBSET {q \in Published : Newer(q, p)}
    BY DEF Newer
  <1>2. IsFiniteSet({q \in Published : Newer(q, p)})
    BY FinitePosts DEF Published
  <1> QED
    BY <1>1, <1>2, FS_Subset DEF Rank

\* One that takes none of them away puts them back, or leaves their places.
LEMMA RankGrows ==
    ASSUME StoreTypeOK, StoreTypeOK', NEW p \in Published,
           Published \subseteq Published',
           \A q \in Published : posts'[q].published_at = posts[q].published_at
    PROVE  Rank(Published, p) <= Rank(Published, p)'
  <1>1. {q \in Published : Newer(q, p)} \in SUBSET ({q \in Published : Newer(q, p)}')
    BY DEF Newer
  <1>2. IsFiniteSet({q \in Published : Newer(q, p)}')
    <2>1. {q \in Published : Newer(q, p)}' \subseteq PostIds
      BY DEF Published
    <2> QED
      BY <2>1, FinitePosts
  <1> QED
    BY <1>1, <1>2, FS_Subset DEF Rank

----------------------------------------------------------------------------
(* Pages of a listing.                                                     *)

LEMMA Division ==
    ASSUME NEW x \in Int, NEW b \in Nat \ {0}
    PROVE  /\ x % b \in 0 .. b - 1 /\ x \div b \in Int /\ x = b * (x \div b) + (x % b)
           /\ \A q \in Int, s \in 0 .. b - 1 : x = b * q + s => x % b = s
  <1>1. x % b \in 0 .. b - 1
    OBVIOUS
  <1>2. x \div b \in Int
    OBVIOUS
  <1>3. x = b * (x \div b) + (x % b)
    OBVIOUS
  <1>4. ASSUME NEW q \in Int, NEW s \in 0 .. b - 1, x = b * q + s
        PROVE  x % b = s
    <2> DEFINE r == x % b
               d == x \div b
    <2>1. r \in 0 .. b - 1 /\ d \in Int /\ b * q + s = b * d + r
      BY <1>1, <1>2, <1>3, <1>4
    <2> HIDE DEF r, d
    <2>2. b * (q - d) = r - s /\ r - s < b /\ r - s > -b
      BY <2>1
    <2>3. q - d < 1 /\ q - d > -1
      <3> DEFINE e == q - d
      <3>1. e \in Int /\ b * e < b * 1 /\ b * e > b * (-1)
        BY <2>1, <2>2
      <3> HIDE DEF e
      <3>2. e < 1 /\ e > -1
        BY <3>1
      <3> QED
        BY <3>2 DEF e
    <2>4. r = s
      BY <2>1, <2>2, <2>3
    <2> QED
      BY <2>4 DEF r
  <1> QED
    BY <1>1, <1>2, <1>3, <1>4

LEMMA WrappedRange ==
    ASSUME NEW n \in Int
    PROVE  /\ Wrapped(n) \in (-MaxInt - 1) .. MaxInt
           /\ n \in (-MaxInt - 1) .. MaxInt => Wrapped(n) = n
  <1>1. MaxInt \in Nat
    BY PagesAssumption
  <1>2. (n + MaxInt + 1) % (2 * (MaxInt + 1)) \in 0 .. (2 * MaxInt + 1)
    BY <1>1
  <1>3. n + MaxInt + 1 \in 0 .. (2 * MaxInt + 1)
            => (n + MaxInt + 1) % (2 * (MaxInt + 1)) = n + MaxInt + 1
    BY <1>1
  <1> QED
    BY <1>1, <1>2, <1>3 DEF Wrapped

\* A number that is too large by less than one turn becomes negative.
LEMMA WrappedOverflow ==
    ASSUME NEW n \in Int, n > MaxInt, n <= 2 * MaxInt + 1
    PROVE  Wrapped(n) < 0
  <1>1. MaxInt \in Nat
    BY PagesAssumption
  <1> DEFINE m == 2 * (MaxInt + 1)
             k == n - MaxInt - 1
  <1>2. k \in 0 .. MaxInt /\ n + MaxInt + 1 = k + 1 * m
    BY <1>1
  <1>3. (n + MaxInt + 1) % m = k
    BY <1>1, <1>2
  <1> QED
    BY <1>1, <1>2, <1>3 DEF Wrapped

LEMMA PageSizeFacts ==
    /\ PageSize \in Nat \ {0} /\ AtLeastOne(PageSize) = PageSize
    /\ PageSize <= MaxInt /\ MaxInt \in Nat \ {0}
  BY PagesAssumption DEF AtLeastOne

LEMMA OffsetType ==
    ASSUME NEW n \in Int, NEW k \in Int
    PROVE  Offset(n, k) \in (-MaxInt - 1) .. MaxInt
  BY WrappedRange DEF Offset

\* Two numbers of which the second comes k later stay k apart when nothing
\* overflows between them.
LEMMA WrappedStep ==
    ASSUME NEW n \in Int, NEW k \in Nat, Wrapped(n) + k <= MaxInt
    PROVE  Wrapped(n + k) = Wrapped(n) + k
  <1> DEFINE m == 2 * (MaxInt + 1)
             a == n + MaxInt + 1
             r == a % m
             q == a \div m
  <1>1. MaxInt \in Nat /\ m \in Nat \ {0} /\ a \in Int
    BY PagesAssumption
  <1>2. r \in 0 .. m - 1 /\ q \in Int /\ a = m * q + r
    <2> HIDE DEF m, a
    <2> QED
      BY <1>1, Division
  <1>3. r + k \in 0 .. m - 1 /\ a + k = m * q + (r + k)
    BY <1>1, <1>2 DEF Wrapped
  <1>4. (a + k) % m = r + k
    <2> DEFINE b == a + k
               s == r + k
    <2>1. b \in Int /\ s \in 0 .. m - 1 /\ b = m * q + s
      BY <1>1, <1>2, <1>3
    <2> HIDE DEF m, a, r, q, b, s
    <2>2. b % m = s
      BY <1>1, <1>2, <2>1, Division
    <2> QED
      BY <2>2 DEF b, s
  <1>5. Wrapped(n) = r - MaxInt - 1 /\ Wrapped(n + k) = ((a + k) % m) - MaxInt - 1
    <2>1. n + k + MaxInt + 1 = a + k
      BY <1>1
    <2> QED
      BY <2>1 DEF Wrapped
  <1> QED
    BY <1>1, <1>2, <1>4, <1>5

\* Nothing comes after the very last page number: its page is not full.
LEMMA LastNumber ==
    ASSUME Offset(MaxInt, PageSize) \in Nat
    PROVE  Offset(MaxInt, PageSize) + 2 * PageSize > MaxInt
  <1> DEFINE m == MaxInt + 1
             n == (MaxInt - 1) * PageSize
             b == 2 * m
             o == Wrapped(n)
  <1>1. /\ MaxInt \in Nat \ {0} /\ PageSize \in Nat \ {0} /\ m \in Nat \ {0}
        /\ n \in Int /\ o = Offset(MaxInt, PageSize) /\ o \in Nat /\ b = 2 * m
    BY PageSizeFacts DEF Offset
  <1>2. n = m * PageSize - 2 * PageSize
    BY <1>1
  <1> SUFFICES ASSUME o + 2 * PageSize <= MaxInt
               PROVE  FALSE
    BY <1>1
  <1>3. Wrapped(n + 2 * PageSize) = o + 2 * PageSize
    BY <1>1, WrappedStep
  <1>4. n + 2 * PageSize = m * PageSize
    BY <1>1, <1>2
  <1>5. PICK h \in Int : PageSize = 2 * h \/ PageSize = 2 * h + 1
    <2> DEFINE h == PageSize \div 2
               s == PageSize % 2
    <2>1. h \in Int /\ PageSize = 2 * h + s /\ s \in 0 .. 2 - 1
      <3>1. PageSize \in Int /\ 2 \in Nat \ {0}
        BY <1>1
      <3> QED
        BY <3>1, Division, Zenon
    <2> HIDE DEF h, s
    <2>2. s = 0 \/ s = 1
      BY <2>1
    <2> QED
      BY <1>1, <2>1, <2>2
  <1>6. Wrapped(m * PageSize) = ((m * PageSize + m) % b) - m
    <2>1. m * PageSize + MaxInt + 1 = m * PageSize + m
      BY <1>1
    <2> QED
      BY <1>1, <2>1 DEF Wrapped
  <1>7. CASE PageSize = 2 * h
    <2>1. m * PageSize + m = b * h + m /\ m \in 0 .. b - 1
      BY <1>1, <1>7
    <2>2. (m * PageSize + m) % b = m
      <3> HIDE DEF b, m
      <3> DEFINE x == m * PageSize + m
      <3>1. x \in Int /\ x = b * h + m
        BY <1>1, <2>1
      <3> HIDE DEF x
      <3>2. h \in Int /\ b \in Nat \ {0} /\ m \in 0 .. b - 1
        BY <1>1, <2>1 DEF b
      <3>3. x % b = m
        BY <3>1, <3>2, Division, Zenon
      <3> QED
        BY <3>3 DEF x
    <2>3. o + 2 * PageSize = 0
      BY <1>1, <1>3, <1>4, <1>6, <2>2
    <2> QED
      BY <1>1, <2>3
  <1>8. CASE PageSize = 2 * h + 1
    <2>1. m * PageSize + m = b * (h + 1)
      BY <1>1, <1>8
    <2>2. (m * PageSize + m) % b = 0
      <3> HIDE DEF b, m
      <3> DEFINE x == m * PageSize + m
                 j == h + 1
      <3>1. x \in Int /\ j \in Int /\ b \in Nat \ {0} /\ x = b * j + 0
        BY <1>1, <2>1
      <3> HIDE DEF x, j
      <3>2. x % b = 0
        BY <3>1
      <3> QED
        BY <3>2 DEF x
    <2>3. o + 2 * PageSize < 0
      BY <1>1, <1>3, <1>4, <1>6, <2>2
    <2> QED
      BY <1>1, <2>3
  <1> QED
    BY <1>5, <1>7, <1>8

\* What the link to the next page asks for, when the page was full.
LEMMA NextOffset ==
    ASSUME NEW n \in 1 .. MaxInt, Offset(n, PageSize) \in Nat,
           Offset(n, PageSize) + PageSize <= Cardinality(PostIds)
    PROVE  LET next == AtLeastOne(Wrapped(n + 1)) IN
           /\ next = n + 1 /\ next \in 1 .. MaxInt
           /\ Offset(next, PageSize) = Offset(n, PageSize) + PageSize
  <1> DEFINE o == Offset(n, PageSize)
  <1>1. /\ MaxInt \in Nat \ {0} /\ PageSize \in Nat \ {0} /\ PageSize <= MaxInt
        /\ Cardinality(PostIds) \in Nat /\ Cardinality(PostIds) + PageSize <= MaxInt
    BY PageSizeFacts, FinitePosts
  <1>2. n # MaxInt
    BY <1>1, LastNumber
  <1>3. Wrapped(n + 1) = n + 1 /\ AtLeastOne(Wrapped(n + 1)) = n + 1 /\ n + 1 \in 1 .. MaxInt
    BY <1>1, <1>2, WrappedRange DEF AtLeastOne
  <1>4. (n - 1) * PageSize \in Int /\ ((n + 1) - 1) * PageSize = (n - 1) * PageSize + PageSize
    BY <1>1
  <1>5. o = Wrapped((n - 1) * PageSize)
    BY DEF Offset
  <1> DEFINE x == (n - 1) * PageSize
  <1>6. x \in Int /\ Wrapped(x) + PageSize <= MaxInt
    BY <1>1, <1>4, <1>5
  <1> HIDE DEF x
  <1>7. Wrapped(x + PageSize) = Wrapped(x) + PageSize
    BY <1>1, <1>6, WrappedStep
  <1>8. Offset(n + 1, PageSize) = Wrapped(x + PageSize)
    BY <1>4 DEF Offset, x
  <1> QED
    BY <1>3, <1>5, <1>7, <1>8 DEF x

\* What list_published returns: the posts whose ranks are on the page.
LEMMA PageOfPosts ==
    ASSUME StoreTypeOK, NEW n \in Int, NEW k \in Int,
           NEW from \in Nat, from = Offset(AtLeastOne(n), AtLeastOne(k))
    PROVE  LET ps == ListPublished(n, k)
               size == AtLeastOne(k)
           IN  /\ ps \in Seq(Published) /\ Len(ps) <= size
               /\ Len(ps) < size => Cardinality(Published) <= from + Len(ps)
               /\ ps # <<>> => from + Len(ps) <= Cardinality(Published)
               /\ \A i \in DOMAIN ps : Rank(Published, ps[i]) = from + i - 1
               /\ \A p \in Published :
                     /\ Rank(Published, p) >= from
                     /\ Rank(Published, p) < from + size
                     => p \in Range(ps)
  <1> DEFINE all == NewestFirst(Published)
             N == Cardinality(Published)
             size == AtLeastOne(k)
             last == IF from + size < N THEN from + size ELSE N
             ps == ListPublished(n, k)
  <1>1. N \in Nat /\ size \in Nat \ {0}
    BY FinitePosts DEF Published, AtLeastOne
  <1>2. /\ all \in Seq(Published) /\ Len(all) = N
        /\ \A i \in 1 .. N : all[i] \in Published /\ Rank(Published, all[i]) = i - 1
        /\ \A p \in Published : /\ Rank(Published, p) + 1 \in 1 .. N
                                /\ all[Rank(Published, p) + 1] = p
    BY Listing
  <1>3. ps = SubSeq(all, from + 1, last)
    BY <1>2 DEF ListPublished
  <1>4. last \in Nat /\ last <= N
    BY <1>1
  <1>5. /\ ps \in Seq(Published)
        /\ Len(ps) = IF from + 1 <= last THEN last - from ELSE 0
        /\ \A i \in 1 .. Len(ps) : ps[i] = all[from + i]
    <2> HIDE DEF last, N, all, ps
    <2>1. \A i \in from + 1 .. last : all[i] \in Published
      BY <1>1, <1>2, <1>4
    <2>2. from + 1 \in Int /\ last \in Int
      BY <1>4
    <2>3. /\ ps \in Seq(Published)
          /\ Len(ps) = IF from + 1 <= last THEN last - (from + 1) + 1 ELSE 0
          /\ \A i \in 1 .. last - (from + 1) + 1 : ps[i] = all[(from + 1) + i - 1]
      <3> DEFINE m == from + 1
      <3>1. m \in Int /\ \A i \in m .. last : all[i] \in Published
        BY <2>1, <2>2
      <3> HIDE DEF m
      <3>2. /\ SubSeq(all, m, last) \in Seq(Published)
            /\ Len(SubSeq(all, m, last)) = IF m <= last THEN last - m + 1 ELSE 0
            /\ \A i \in 1 .. last - m + 1 : SubSeq(all, m, last)[i] = all[m + i - 1]
        BY <2>2, <3>1, SubSeqProperties
      <3>3. ps = SubSeq(all, m, last)
        BY <1>3 DEF m
      <3> QED
        BY <3>2, <3>3 DEF m
    <2>4. Len(ps) = IF from + 1 <= last THEN last - from ELSE 0
      BY <2>2, <2>3
    <2>5. ASSUME NEW i \in 1 .. Len(ps)
          PROVE  ps[i] = all[from + i]
      <3>1. i \in 1 .. last - (from + 1) + 1 /\ (from + 1) + i - 1 = from + i
        BY <1>4, <2>4, <2>5
      <3> QED
        BY <2>3, <3>1
    <2> QED
      BY <2>3, <2>4, <2>5
  <1>6. DOMAIN ps = 1 .. Len(ps)
    BY <1>5
  <1>7. \A i \in DOMAIN ps : Rank(Published, ps[i]) = from + i - 1
    <2> TAKE i \in DOMAIN ps
    <2> DEFINE j == from + i
    <2>1. i \in 1 .. Len(ps) /\ j \in 1 .. N
      BY <1>1, <1>4, <1>5, <1>6
    <2>2. Rank(Published, all[j]) = j - 1
      BY <1>2, <2>1
    <2> QED
      BY <1>5, <2>1, <2>2
  <1>8. ASSUME NEW p \in Published, Rank(Published, p) >= from,
               Rank(Published, p) < from + size
        PROVE  p \in Range(ps)
    <2> DEFINE i == Rank(Published, p) + 1 - from
    <2>1. /\ Rank(Published, p) + 1 \in 1 .. N /\ all[Rank(Published, p) + 1] = p
          /\ Rank(Published, p) \in Int
      BY <1>1, <1>2, RankOrder
    <2>2. i \in 1 .. Len(ps) /\ from + i = Rank(Published, p) + 1
      BY <1>1, <1>5, <1>8, <2>1
    <2>3. ps[i] = p
      BY <1>5, <2>1, <2>2
    <2> QED
      BY <1>6, <2>2, <2>3 DEF Range
  <1>9. /\ Len(ps) <= size
        /\ Len(ps) < size => N <= from + Len(ps)
        /\ ps # <<>> => from + Len(ps) <= N
    BY <1>1, <1>5
  <1> QED
    BY <1>5, <1>7, <1>8, <1>9

----------------------------------------------------------------------------
(* What a step of the visitor does.                                        *)

\* The pages that list posts.
ListKinds == {"home", "post", "tag", "sitemap", "rss"}

\* As many posts as the feed asks for.
FeedSize == AtLeastOne(Wrapped(RssLimit))

\* A page is listed: posts that are published now, on a home page and in the
\* feed as many as fit, on a tag's page those that carry the tag.
Listed(page, ps, place) ==
    /\ List(page, ps, place)
    /\ ps \in Seq(Published)
    /\ place \in {"tags", "shown"}
    /\ page.kind \in ListKinds
    /\ page.kind = "home" => Len(ps) <= PageSize
    /\ page.kind = "rss" => Len(ps) <= FeedSize
    /\ page.kind = "tag" => \A i \in DOMAIN ps : page.arg \in TagSet(ps[i])

\* The visitor gets a page without posts; the store and the history stay.
Unlisted ==
    /\ pc' \in {"not_found", "error"} /\ entries' = <<>> /\ done' = 0
    /\ asked'.kind \in {"nothing", "post", "tag"}
    /\ UNCHANGED <<posts, tags, links, changes, history>>

LEMMA FailPageStep == FailPage => Unlisted
  BY DEF FailPage, Unlisted, Nothing

LEMMA NotFoundStep ==
    ASSUME NEW page, NotFound(page), page.kind \in {"post", "tag"}
    PROVE  Unlisted
  BY DEF NotFound, Unlisted

\* The same for a home page that is not refused.
LEMMA HomePage ==
    ASSUME StoreTypeOK, NEW n \in 1 .. MaxInt, ~Refused(n, PageSize)
    PROVE  LET ps == ListPublished(n, PageSize)
               from == Offset(n, PageSize)
           IN  /\ from \in Nat
               /\ ps \in Seq(Published) /\ Len(ps) <= PageSize
               /\ Len(ps) < PageSize => Cardinality(Published) <= from + Len(ps)
               /\ ps # <<>> => from + Len(ps) <= Cardinality(Published)
               /\ \A i \in DOMAIN ps : Rank(Published, ps[i]) = from + i - 1
               /\ \A p \in Published :
                     /\ Rank(Published, p) >= from
                     /\ Rank(Published, p) < from + PageSize
                     => p \in Range(ps)
  <1> DEFINE from == Offset(n, PageSize)
  <1>1. n \in Int /\ PageSize \in Int /\ AtLeastOne(PageSize) = PageSize
    BY PageSizeFacts
  <1>2. AtLeastOne(n) = n
    BY DEF AtLeastOne
  <1>3. from \in Nat /\ from = Offset(AtLeastOne(n), AtLeastOne(PageSize))
    BY <1>1, <1>2, OffsetType, PageSizeFacts DEF Refused
  <1> HIDE DEF from
  <1>4. LET ps == ListPublished(n, PageSize)
            size == AtLeastOne(PageSize)
        IN  /\ ps \in Seq(Published) /\ Len(ps) <= size
            /\ Len(ps) < size => Cardinality(Published) <= from + Len(ps)
            /\ ps # <<>> => from + Len(ps) <= Cardinality(Published)
            /\ \A i \in DOMAIN ps : Rank(Published, ps[i]) = from + i - 1
            /\ \A p \in Published :
                  /\ Rank(Published, p) >= from
                  /\ Rank(Published, p) < from + size
                  => p \in Range(ps)
    BY <1>1, <1>3, PageOfPosts
  <1> QED
    BY <1>1, <1>3, <1>4 DEF from

\* A home page has its posts by their ranks; it begins where its number says
\* or, past the last number whose offset fits, is refused.
LEMMA HomeListed ==
    ASSUME StoreTypeOK, NEW n \in 1 .. MaxInt, ~Refused(n, PageSize),
           ListHome(n, ListPublished(n, PageSize))
    PROVE  /\ Listed([kind |-> "home", arg |-> n], ListPublished(n, PageSize), "tags")
           /\ Offset(n, PageSize) \in Nat
           /\ entries' # <<>> => above' = Offset(n, PageSize)
  <1> DEFINE ps == ListPublished(n, PageSize)
             page == [kind |-> "home", arg |-> n]
  <1>1. AtLeastOne(n) = n /\ n \in Int /\ AtLeastOne(PageSize) = PageSize
    BY PageSizeFacts DEF AtLeastOne
  <1>2. Offset(n, PageSize) \in Nat
    BY <1>1, OffsetType, PageSizeFacts DEF Refused
  <1>3. /\ ps \in Seq(Published) /\ Len(ps) <= PageSize
        /\ \A i \in DOMAIN ps : Rank(Published, ps[i]) = Offset(n, PageSize) + i - 1
    BY HomePage
  <1>4. List(page, ps, "tags")
    BY DEF ListHome
  <1>5. Listed(page, ps, "tags")
    BY <1>3, <1>4 DEF Listed, ListKinds
  <1>6. ASSUME entries' # <<>>
        PROVE  above' = Offset(n, PageSize)
    <2>1. ps # <<>>
      BY <1>4, <1>6 DEF List
    <2>2. above' = Cardinality(NewerThan(ps[1])) /\ 1 \in DOMAIN ps
      BY <1>3, <2>1 DEF ListHome
    <2>3. Rank(Published, ps[1]) = Offset(n, PageSize)
      BY <1>2, <1>3, <2>2
    <2> QED
      BY <2>2, <2>3 DEF Rank, NewerThan
  <1> QED
    BY <1>2, <1>5, <1>6

\* The page the visitor gets from a page number typed by hand ...
LEMMA OpenHomeStep ==
    ASSUME StoreTypeOK, NEW m \in Int, m <= MaxInt, OpenHome(m)
    PROVE  \/ Unlisted
           \/ LET n == AtLeastOne(m)
                  ps == ListPublished(n, PageSize) IN
              /\ n \in 1 .. MaxInt /\ ~Refused(n, PageSize) /\ ListHome(n, ps)
              /\ walked' = ps
              /\ stayed' = {p \in Published :
                              Cardinality(NewerThan(p)) >= (n - 1) * PageSize}
              /\ left' = FALSE /\ joined' = FALSE
  <1>1. AtLeastOne(m) \in 1 .. MaxInt /\ AtLeastOne(AtLeastOne(m)) = AtLeastOne(m)
    BY PageSizeFacts DEF AtLeastOne
  <1>2. Refused(m, PageSize) <=> Refused(AtLeastOne(m), PageSize)
    BY <1>1 DEF Refused
  <1> QED
    BY <1>1, <1>2, FailPageStep DEF OpenHome

\* ... and from the link to the next page.
LEMMA FollowNextStep ==
    ASSUME StoreTypeOK, asked.arg \in 1 .. MaxInt, FollowNext
    PROVE  \/ Unlisted
           \/ LET n == AtLeastOne(Wrapped(asked.arg + 1))
                  ps == ListPublished(n, PageSize) IN
              /\ asked.kind = "home" /\ Len(entries) = PageSize
              /\ n \in 1 .. MaxInt /\ ~Refused(n, PageSize) /\ ListHome(n, ps)
              /\ walked' = walked \o ps
              /\ UNCHANGED <<stayed, left, joined>>
  <1>1. Wrapped(asked.arg + 1) \in (-MaxInt - 1) .. MaxInt
    BY PageSizeFacts, WrappedRange
  <1>2. AtLeastOne(Wrapped(asked.arg + 1)) \in 1 .. MaxInt
    BY <1>1, PageSizeFacts DEF AtLeastOne
  <1> QED
    BY <1>2, FailPageStep DEF FollowNext, NextPageOffered

\* The other pages.
LEMMA OtherPages ==
    ASSUME StoreTypeOK,
           \/ \E s \in Slugs : OpenPost(s)
           \/ \E t \in TagSlugs : OpenTag(t)
           \/ OpenSitemap \/ OpenRss
    PROVE  \/ Unlisted
           \/ \E page, ps, place :
                 /\ Listed(page, ps, place) /\ page.kind # "home"
                 /\ SameWalk
  <1>1. ASSUME NEW s \in Slugs, OpenPost(s)
        PROVE  \/ Unlisted
               \/ \E page, ps, place :
                     /\ Listed(page, ps, place) /\ page.kind # "home"
                     /\ SameWalk
    <2> DEFINE page == [kind |-> "post", arg |-> s]
    <2>1. CASE NotFound(page)
      BY <2>1, NotFoundStep
    <2>2. ASSUME NEW p \in FoundBySlug(s) \cap Published,
                 List(page, <<p>>, "tags"), SameWalk
          PROVE  \E page1, ps, place :
                     /\ Listed(page1, ps, place) /\ page1.kind # "home"
                     /\ SameWalk
      <3>1. <<p>> \in Seq(Published)
        OBVIOUS
      <3>2. Listed(page, <<p>>, "tags") /\ page.kind # "home"
        BY <2>2, <3>1 DEF Listed, ListKinds
      <3> QED
        BY <2>2, <3>2
    <2> QED
      BY <1>1, <2>1, <2>2 DEF OpenPost
  <1>2. ASSUME NEW t \in TagSlugs, OpenTag(t)
        PROVE  \/ Unlisted
               \/ \E page, ps, place :
                     /\ Listed(page, ps, place) /\ page.kind # "home"
                     /\ SameWalk
    <2> DEFINE page == [kind |-> "tag", arg |-> t]
               ps == PostsByTag(t)
               S == {p \in Published : <<p, t>> \in links}
    <2>1. CASE NotFound(page)
      BY <2>1, NotFoundStep
    <2>2. CASE List(page, ps, "tags") /\ SameWalk
      <3>1. ps \in Seq(S) /\ S \subseteq Published
        BY Listing DEF PostsByTag
      <3>2. ps \in Seq(Published) /\ \A i \in DOMAIN ps : <<ps[i], t>> \in links
        <4>1. \A i \in DOMAIN ps : ps[i] \in S
          BY <3>1
        <4> HIDE DEF S
        <4>2. ps \in Seq(Published)
          BY <3>1, SeqMonotonic
        <4> QED
          BY <4>1, <4>2 DEF S
      <3>3. \A i \in DOMAIN ps : t \in TagSet(ps[i])
        <4> TAKE i \in DOMAIN ps
        <4> DEFINE l == <<ps[i], t>>
        <4>1. l \in {m \in links : m[1] = ps[i]} /\ l[2] = t
          BY <3>2
        <4> QED
          BY <4>1 DEF TagSet
      <3>4. Listed(page, ps, "tags") /\ page.kind # "home"
        BY <2>2, <3>2, <3>3 DEF Listed, ListKinds
      <3> QED
        BY <2>2, <3>4
    <2> QED
      BY <1>2, <2>1, <2>2 DEF OpenTag
  <1>3. CASE OpenSitemap
    <2> DEFINE page == [kind |-> "sitemap", arg |-> 0]
    <2>1. NewestFirst(Published) \in Seq(Published)
      BY Listing
    <2>2. Listed(page, NewestFirst(Published), "shown") /\ page.kind # "home" /\ SameWalk
      BY <1>3, <2>1 DEF OpenSitemap, Listed, ListKinds
    <2> QED
      BY <2>2
  <1>4. CASE OpenRss
    <2> DEFINE page == [kind |-> "rss", arg |-> 0]
               ps == ListPublished(1, Wrapped(RssLimit))
    <2>1. Wrapped(RssLimit) \in Int /\ AtLeastOne(Wrapped(RssLimit)) \in Int
      BY PagesAssumption, WrappedRange DEF AtLeastOne
    <2>2. Offset(AtLeastOne(1), AtLeastOne(Wrapped(RssLimit))) = 0
      <3>1. AtLeastOne(1) = 1 /\ (1 - 1) * AtLeastOne(Wrapped(RssLimit)) = 0
        BY <2>1 DEF AtLeastOne
      <3>2. Wrapped(0) = 0
        BY WrappedRange, PageSizeFacts
      <3> QED
        BY <3>1, <3>2 DEF Offset
    <2>3. ps \in Seq(Published) /\ Len(ps) <= FeedSize
      <3> DEFINE k == Wrapped(RssLimit)
                 from == 0
      <3>1. from \in Nat /\ from = Offset(AtLeastOne(1), AtLeastOne(k)) /\ k \in Int
        BY <2>1, <2>2
      <3> HIDE DEF k, from
      <3>2. 1 \in Int
        OBVIOUS
      <3>3. /\ ListPublished(1, k) \in Seq(Published)
            /\ Len(ListPublished(1, k)) <= AtLeastOne(k)
        BY <3>1, <3>2, PageOfPosts, Zenon
      <3> QED
        BY <3>3 DEF k, FeedSize
    <2>4. Listed(page, ps, "shown") /\ page.kind # "home" /\ SameWalk
      BY <1>4, <2>3 DEF OpenRss, Listed, ListKinds
    <2> QED
      BY <2>4
  <1> QED
    BY <1>1, <1>2, <1>3, <1>4
\* What a step of the visitor or of the administration does.
VisitorStep ==
    \/ Unlisted
    \/ \E page, ps, place :
          Listed(page, ps, place) /\ page.kind # "home" /\ SameWalk
    \/ \E n \in 1 .. MaxInt :
          LET ps == ListPublished(n, PageSize) IN
          /\ ~Refused(n, PageSize) /\ ListHome(n, ps)
          /\ \/ /\ walked' = ps
                /\ stayed' = {p \in Published :
                                Cardinality(NewerThan(p)) >= (n - 1) * PageSize}
                /\ left' = FALSE /\ joined' = FALSE
             \/ /\ asked.kind = "home" /\ Len(entries) = PageSize
                /\ n = AtLeastOne(Wrapped(asked.arg + 1))
                /\ walked' = walked \o ps
                /\ UNCHANGED <<stayed, left, joined>>

LEMMA StepCases ==
    ASSUME StoreTypeOK, asked.kind = "home" => asked.arg \in 1 .. MaxInt, PagesNext
    PROVE  VisitorStep \/ ReadTags \/ Change
  <1>1. ASSUME NEW n \in TypedPages \cup {1}, OpenHome(n)
        PROVE  VisitorStep
    <2>1. n \in Int /\ n <= MaxInt
      BY PagesAssumption, PageSizeFacts
    <2> QED
      BY <1>1, <2>1, OpenHomeStep DEF VisitorStep
  <1>2. CASE FollowNext
    <2>1. asked.arg \in 1 .. MaxInt
      BY <1>2 DEF FollowNext
    <2> QED
      BY <1>2, <2>1, FollowNextStep DEF VisitorStep
  <1>3. CASE \/ \E s \in Slugs : OpenPost(s)
             \/ \E t \in TagSlugs : OpenTag(t)
             \/ OpenSitemap \/ OpenRss
    BY <1>3, OtherPages DEF VisitorStep
  <1>4. CASE FailPage
    BY <1>4, FailPageStep DEF VisitorStep
  <1> QED
    BY <1>1, <1>2, <1>3, <1>4 DEF PagesNext

----------------------------------------------------------------------------
(* The inductive invariant.                                                *)

\* An entry whose post was not changed since it was listed is what the store
\* holds, its tags too once they were read; on a tag's page it has the tag.
Untouched ==
    \A i \in DOMAIN entries :
        LET e == entries[i] IN
        e.post \notin touched =>
            /\ posts[e.post] = e.row
            /\ i <= done => e.tags = TagSet(e.post)
            /\ asked.kind = "tag" => asked.arg \in TagSet(e.post)

\* The place of a home page, as the code computes it, and the room behind it.
HomePlace ==
    asked.kind = "home" =>
        /\ asked.arg \in 1 .. MaxInt
        /\ Offset(asked.arg, PageSize) \in Nat
        /\ entries # <<>> =>
              /\ above = Offset(asked.arg, PageSize)
              /\ above + Len(entries) <= Cardinality(PostIds)

\* When no post joined, the posts that were walked past are all before the
\* next page: it cannot repeat one.
NoRepeat ==
    asked.kind = "home" /\ ~joined =>
        /\ IsInjective(walked)
        /\ \A i \in DOMAIN walked :
              walked[i] \in Published =>
                 Rank(Published, walked[i])
                    < Offset(asked.arg, PageSize) + Len(entries)

\* When no post left, the posts still to be seen are all behind the page, and
\* the page is full: there is a next one.
NoGap ==
    asked.kind = "home" /\ ~left =>
        \A p \in stayed \ Range(walked) :
            /\ Len(entries) = PageSize
            /\ Rank(Published, p) >= asked.arg * PageSize

\* The feed has at most as many posts as it asked for.
FeedFits == asked.kind = "rss" => Len(entries) <= FeedSize

Walks == walked \in Seq(PostIds) /\ stayed \subseteq Published

PagesInv ==
    /\ StoreInv /\ PagesTypeOK /\ OnlyPublishedShown /\ Untouched
    /\ FeedFits /\ HomePlace /\ Walks /\ NoRepeat /\ NoGap

LEMMA InitPagesInv == PagesInit => PagesInv
  <1> SUFFICES ASSUME PagesInit PROVE PagesInv
    OBVIOUS
  <1>1. StoreInv
    BY InitStore DEF PagesInit
  <1>2. entries = <<>> /\ done = 0 /\ walked = <<>> /\ stayed = {} /\ above = 0
        /\ pc = "idle" /\ asked.kind = "nothing"
    BY DEF PagesInit, Nothing
  <1> QED
    BY <1>1, <1>2 DEF PagesInv, PagesTypeOK, OnlyPublishedShown, Untouched, FeedFits,
                      HomePlace, Walks, NoRepeat, NoGap

\* The visitor only reads; the store stays well-formed.
LEMMA NextStoreInv ==
    ASSUME StoreInv, PagesNext
    PROVE  StoreInv' /\ [Next]_vars /\ (Change \/ UNCHANGED vars)
  <1>1. Change \/ UNCHANGED vars
    BY DEF PagesNext, OpenHome, ListHome, List, FailPage, FollowNext, OpenPost,
           NotFound, OpenTag, OpenSitemap, OpenRss, ReadTags, vars
  <1>2. [Next]_vars
    BY <1>1 DEF Change
  <1> QED
    BY <1>1, <1>2, NextStoreHolds

\* One entry of a page.
Entries == [post : PostIds, row : Row, tags : SUBSET TagSlugs]

\* A page that was just listed shows published posts as they are now.
LEMMA ListedPage ==
    ASSUME StoreInv, NEW page, NEW ps, NEW place, Listed(page, ps, place)
    PROVE  /\ asked' = page /\ done' = 0
           /\ entries' \in Seq(Entries) /\ Len(entries') = Len(ps)
           /\ pc' \in {"shown", "tags"} /\ (pc' = "tags" => 0 < Len(entries'))
           /\ OnlyPublishedShown' /\ Untouched' /\ FeedFits'
  <1>1. /\ ps \in Seq(Published) /\ Len(ps) \in Nat /\ DOMAIN ps = 1 .. Len(ps)
        /\ entries' = [i \in 1 .. Len(ps) |-> Entry(ps[i])]
    BY DEF Listed, List
  <1>2. /\ asked' = page /\ done' = 0 /\ UNCHANGED <<posts, tags, links>>
        /\ pc' = IF ps = <<>> THEN "shown" ELSE place
        /\ place \in {"tags", "shown"}
        /\ page.kind = "tag" => \A i \in DOMAIN ps : page.arg \in TagSet(ps[i])
    BY DEF Listed, List
  <1>3. ASSUME NEW i \in 1 .. Len(ps)
        PROVE  /\ entries'[i] \in Entries
               /\ entries'[i].post = ps[i] /\ entries'[i].row = posts[ps[i]]
               /\ entries'[i].row.status = "published"
               /\ entries'[i].row.published_at # NoDate
    <2>1. ps[i] \in Published
      BY <1>1
    <2>2. ps[i] \in PostIds /\ posts[ps[i]] \in Row /\ posts[ps[i]] # NoRow
      BY <2>1, PublishedRows DEF StoreInv
    <2>3. posts[ps[i]].status = "published" /\ posts[ps[i]].published_at # NoDate
      BY <2>1, <2>2 DEF StoreInv, RowsDated, Dated, Published
    <2>4. entries'[i] = [post |-> ps[i], row |-> posts[ps[i]], tags |-> {}]
      BY <1>1 DEF Entry
    <2> QED
      BY <2>2, <2>3, <2>4 DEF Entries
  <1>4. /\ entries' \in Seq(Entries) /\ Len(entries') = Len(ps)
        /\ DOMAIN entries' = 1 .. Len(ps)
    BY <1>1, <1>3
  <1>5. OnlyPublishedShown'
    BY <1>3, <1>4 DEF OnlyPublishedShown
  <1>6. Untouched'
    <2> SUFFICES ASSUME NEW i \in 1 .. Len(ps)
                 PROVE  /\ posts[entries'[i].post] = entries'[i].row
                        /\ ~(i <= 0)
                        /\ page.kind = "tag"
                              => page.arg \in TagSet(entries'[i].post)
      BY <1>2, <1>4 DEF Untouched, TagSet
    <2>1. i \in DOMAIN ps /\ i \in Nat /\ ~(i <= 0)
      BY <1>1
    <2> QED
      BY <1>2, <1>3, <2>1
  <1>7. pc' \in {"shown", "tags"} /\ (pc' = "tags" => 0 < Len(entries'))
    BY <1>1, <1>2, <1>4
  <1>8. FeedFits'
    BY <1>2, <1>4 DEF Listed, FeedFits
  <1> QED
    BY <1>2, <1>4, <1>5, <1>6, <1>7, <1>8

LEMMA VisitorTypes ==
    ASSUME PagesInv, VisitorStep
    PROVE  PagesTypeOK' /\ OnlyPublishedShown' /\ Untouched' /\ FeedFits'
  <1>1. CASE Unlisted
    <2>1. /\ entries' = <<>> /\ done' = 0 /\ above' = above
          /\ pc' \in {"not_found", "error"} /\ asked'.kind \in {"nothing", "post", "tag"}
      BY <1>1 DEF Unlisted, history
    <2> QED
      BY <2>1 DEF PagesInv, PagesTypeOK, OnlyPublishedShown, Untouched, FeedFits
  <1>2. ASSUME NEW page, NEW ps, NEW place, Listed(page, ps, place), above' \in Nat
        PROVE  PagesTypeOK' /\ OnlyPublishedShown' /\ Untouched' /\ FeedFits'
    <2>1. page.kind \in ListKinds /\ (page.kind = "home" => Len(ps) <= PageSize)
      BY <1>2 DEF Listed
    <2>2. /\ asked' = page /\ done' = 0 /\ pc' \in {"shown", "tags"}
          /\ entries' \in Seq(Entries) /\ Len(entries') = Len(ps)
          /\ pc' = "tags" => 0 < Len(entries')
          /\ OnlyPublishedShown' /\ Untouched' /\ FeedFits'
      BY <1>2, ListedPage DEF PagesInv
    <2>3. Len(entries') \in Nat
      BY <2>2
    <2>4. PagesTypeOK'
      BY <1>2, <2>1, <2>2, <2>3 DEF PagesTypeOK, ListKinds, Entries
    <2> QED
      BY <2>2, <2>4
  <1>3. CASE \E page, ps, place :
                Listed(page, ps, place) /\ page.kind # "home" /\ SameWalk
    BY <1>2, <1>3 DEF SameWalk, PagesInv, PagesTypeOK
  <1>4. ASSUME NEW n \in 1 .. MaxInt, ~Refused(n, PageSize),
               ListHome(n, ListPublished(n, PageSize))
        PROVE  PagesTypeOK' /\ OnlyPublishedShown' /\ Untouched' /\ FeedFits'
    <2>1. Listed([kind |-> "home", arg |-> n], ListPublished(n, PageSize), "tags")
      BY <1>4, HomeListed DEF PagesInv, StoreInv
    <2>2. above' \in Nat
      <3>1. \A p : NewerThan(p) \subseteq PostIds
        BY DEF NewerThan, Published
      <3> QED
        BY <1>4, <3>1, FinitePosts DEF ListHome
    <2> QED
      BY <1>2, <2>1, <2>2
  <1> QED
    BY <1>1, <1>3, <1>4 DEF VisitorStep

LEMMA ReadTagsTypes ==
    ASSUME PagesInv, ReadTags
    PROVE  PagesTypeOK' /\ OnlyPublishedShown' /\ Untouched' /\ FeedFits'
  <1> DEFINE n == done + 1
  <1>1. /\ entries \in Seq(Entries) /\ Len(entries) \in Nat
        /\ DOMAIN entries = 1 .. Len(entries) /\ n \in 1 .. Len(entries) /\ done \in Nat
    BY DEF PagesInv, PagesTypeOK, Entries, ReadTags
  <1>2. TagSet(entries[n].post) \in SUBSET TagSlugs
    BY DEF PagesInv, StoreInv, StoreTypeOK, TagSet
  <1>3. entries' = [entries EXCEPT ![n] = [entries[n] EXCEPT !.tags = TagSet(entries[n].post)]]
    BY DEF ReadTags
  <1>4. entries[n] \in Entries
    BY <1>1
  <1>5. entries'[n] = [entries[n] EXCEPT !.tags = TagSet(entries[n].post)]
    BY <1>1, <1>3
  <1>6. /\ entries'[n] \in Entries /\ entries'[n].post = entries[n].post
        /\ entries'[n].row = entries[n].row
        /\ entries'[n].tags = TagSet(entries[n].post)
    BY <1>2, <1>4, <1>5 DEF Entries
  <1>7. \A i \in 1 .. Len(entries) : i # n => entries'[i] = entries[i]
    BY <1>1, <1>3
  <1>8. /\ entries' \in Seq(Entries) /\ Len(entries') = Len(entries)
        /\ DOMAIN entries' = 1 .. Len(entries)
    <2>1. [entries[n] EXCEPT !.tags = TagSet(entries[n].post)] \in Entries
      BY <1>5, <1>6
    <2> QED
      BY <1>1, <1>3, <2>1
  <1>9. /\ done' = n /\ UNCHANGED <<posts, tags, links, asked, touched, above>>
        /\ pc' = IF n = Len(entries) THEN "shown" ELSE "tags"
    BY <1>8 DEF ReadTags, history
  <1>10. PagesTypeOK'
    <2> DEFINE size == Len(entries)
    <2>1. n \in 0 .. size /\ (n # size => n < size)
      <3>1. size \in Nat /\ n \in 1 .. size
        BY <1>1
      <3> HIDE DEF n, size
      <3> QED
        BY <3>1
    <2>2. pc' \in {"shown", "tags"} /\ (pc' = "tags" => n # Len(entries))
      BY <1>9
    <2>3. /\ asked.kind \in {"nothing", "home", "post", "tag", "sitemap", "rss"}
          /\ asked.kind = "home" => Len(entries) <= PageSize
          /\ above \in Nat
      BY DEF PagesInv, PagesTypeOK
    <2> QED
      BY <1>8, <1>9, <2>1, <2>2, <2>3 DEF PagesTypeOK, Entries
  <1>11. OnlyPublishedShown'
    BY <1>1, <1>6, <1>7, <1>8 DEF PagesInv, OnlyPublishedShown
  <1>12. Untouched'
    <2> SUFFICES ASSUME NEW i \in 1 .. Len(entries), entries'[i].post \notin touched
                 PROVE  /\ posts[entries'[i].post] = entries'[i].row
                        /\ i <= n => entries'[i].tags = TagSet(entries'[i].post)
                        /\ asked.kind = "tag" => asked.arg \in TagSet(entries'[i].post)
      BY <1>8, <1>9 DEF Untouched, TagSet
    <2>1. entries'[i].post = entries[i].post /\ entries'[i].row = entries[i].row
      BY <1>6, <1>7
    <2>2. /\ posts[entries[i].post] = entries[i].row
          /\ i <= done => entries[i].tags = TagSet(entries[i].post)
          /\ asked.kind = "tag" => asked.arg \in TagSet(entries[i].post)
      BY <1>1, <2>1 DEF PagesInv, Untouched
    <2>3. i <= n => entries'[i].tags = TagSet(entries[i].post)
      BY <1>1, <1>6, <1>7, <2>2
    <2> QED
      BY <2>1, <2>2, <2>3
  <1>13. FeedFits'
    BY <1>8, <1>9 DEF PagesInv, FeedFits
  <1> QED
    BY <1>10, <1>11, <1>12, <1>13

LEMMA ChangeTypes ==
    ASSUME PagesInv, Change
    PROVE  PagesTypeOK' /\ OnlyPublishedShown' /\ Untouched' /\ FeedFits'
  <1>1. /\ UNCHANGED <<pc, asked, entries, done, above>>
        /\ touched' = touched \cup
              {p \in PostIds : posts'[p] # posts[p] \/ TagSet(p)' # TagSet(p)}
    BY DEF Change, visitor
  <1>2. PagesTypeOK' /\ OnlyPublishedShown' /\ FeedFits'
    BY <1>1 DEF PagesInv, PagesTypeOK, OnlyPublishedShown, FeedFits
  <1>3. ASSUME NEW i \in DOMAIN entries, entries[i].post \notin touched'
        PROVE  /\ entries[i].post \notin touched
               /\ posts'[entries[i].post] = posts[entries[i].post]
               /\ TagSet(entries[i].post)' = TagSet(entries[i].post)
    <2>1. entries[i] \in Entries
      <3>1. entries \in Seq(Entries)
        BY DEF PagesInv, PagesTypeOK, Entries
      <3> QED
        BY <3>1
    <2>2. entries[i].post \in PostIds
      BY <2>1 DEF Entries
    <2>3. TagSet(entries[i].post)' = {l[2] : l \in {m \in links' : m[1] = entries[i].post}}
      BY <1>1 DEF TagSet
    <2>4. \A p \in PostIds : p \notin touched' =>
             /\ posts'[p] = posts[p] /\ p \notin touched
             /\ {l[2] : l \in {m \in links' : m[1] = p}} = TagSet(p)
      BY <1>1 DEF TagSet
    <2> QED
      BY <1>3, <2>2, <2>3, <2>4
  <1>4. Untouched'
    <2> SUFFICES ASSUME NEW i \in DOMAIN entries, entries[i].post \notin touched'
                 PROVE  /\ posts'[entries[i].post] = entries[i].row
                        /\ i <= done => entries[i].tags = TagSet(entries[i].post)'
                        /\ asked.kind = "tag" => asked.arg \in TagSet(entries[i].post)'
      BY <1>1 DEF Untouched
    <2> QED
      BY <1>3 DEF PagesInv, Untouched
  <1> QED
    BY <1>2, <1>4
\* The place of a post is below the number of posts, which leaves room for a page.
LEMMA RankRoom ==
    ASSUME StoreTypeOK, NEW p \in Published
    PROVE  /\ Rank(Published, p) \in Nat
           /\ Rank(Published, p) < Cardinality(Published)
           /\ Cardinality(Published) \in Nat
           /\ Cardinality(Published) <= Cardinality(PostIds)
           /\ Cardinality(PostIds) \in Nat
           /\ Cardinality(PostIds) + PageSize <= MaxInt
  <1>1. Published \in SUBSET PostIds
    BY DEF Published
  <1>2. /\ Cardinality(Published) \in Nat /\ Cardinality(PostIds) \in Nat
        /\ Cardinality(PostIds) + PageSize <= MaxInt /\ IsFiniteSet(PostIds)
    BY <1>1, FinitePosts
  <1>3. Cardinality(Published) <= Cardinality(PostIds)
    BY <1>1, <1>2, FS_Subset
  <1>4. Rank(Published, p) \in 0 .. Cardinality(Published) - 1
    BY RankOrder
  <1> QED
    BY <1>2, <1>3, <1>4

\* What both ways to a home page have in common: where it is, and that the
\* posts which are behind its beginning, but not on it, are behind its end.
LEMMA HomeStep ==
    ASSUME PagesInv, NEW n \in 1 .. MaxInt, ~Refused(n, PageSize),
           ListHome(n, ListPublished(n, PageSize))
    PROVE  LET ps == ListPublished(n, PageSize)
               from == Offset(n, PageSize)
           IN  /\ HomePlace'
               /\ ps \in Seq(Published) /\ ps \in Seq(PostIds)
               /\ asked'.kind = "home" /\ asked'.arg = n /\ Len(entries') = Len(ps)
               /\ UNCHANGED <<posts, tags, links>> /\ Published' = Published
               /\ IsInjective(ps)
               /\ \A p \in Published \ Range(ps) :
                     Rank(Published, p) >= (n - 1) * PageSize =>
                        /\ Len(ps) = PageSize
                        /\ Rank(Published, p) >= n * PageSize
  <1> DEFINE ps == ListPublished(n, PageSize)
             from == Offset(n, PageSize)
  <1>1. /\ from \in Nat
        /\ ps \in Seq(Published) /\ Len(ps) <= PageSize
        /\ Len(ps) < PageSize => Cardinality(Published) <= from + Len(ps)
        /\ ps # <<>> => from + Len(ps) <= Cardinality(Published)
        /\ \A i \in DOMAIN ps : Rank(Published, ps[i]) = from + i - 1
        /\ \A p \in Published :
              /\ Rank(Published, p) >= from
              /\ Rank(Published, p) < from + PageSize
              => p \in Range(ps)
    BY HomePage DEF PagesInv, StoreInv
  <1>2. Listed([kind |-> "home", arg |-> n], ps, "tags") /\ (entries' # <<>> => above' = from)
    BY HomeListed DEF PagesInv, StoreInv
  <1>3. /\ asked'.kind = "home" /\ asked'.arg = n /\ Len(entries') = Len(ps)
        /\ entries' \in Seq(Entries)
    BY <1>2, ListedPage DEF PagesInv
  <1>4. UNCHANGED <<posts, tags, links>> /\ Published' = Published
    BY <1>2 DEF Listed, List, Published
  <1>5. Published \in SUBSET PostIds /\ Cardinality(Published) \in Nat
        /\ Cardinality(PostIds) \in Nat /\ Cardinality(Published) <= Cardinality(PostIds)
    <2>1. Published \in SUBSET PostIds
      BY DEF Published
    <2> QED
      BY <2>1, FinitePosts, FS_Subset
  <1>6. ps \in Seq(PostIds)
    <2> HIDE DEF ps
    <2> QED
      BY <1>1, <1>5, SeqMonotonic
  <1>7. HomePlace'
    <2>1. entries' # <<>> => ps # <<>> /\ above' = from
      BY <1>1, <1>2, <1>3
    <2>2. entries' # <<>> => above' + Len(entries') <= Cardinality(PostIds)
      BY <1>1, <1>3, <1>5, <2>1
    <2>3. Cardinality(PostIds)' = Cardinality(PostIds)
      OBVIOUS
    <2> QED
      BY <1>1, <1>3, <2>1, <2>2 DEF HomePlace
  <1>8. IsInjective(ps)
    <2> SUFFICES ASSUME NEW i \in DOMAIN ps, NEW j \in DOMAIN ps, ps[i] = ps[j]
                 PROVE  i = j
      BY DEF IsInjective
    <2>1. i \in Nat /\ j \in Nat
      BY <1>1
    <2>2. from + i - 1 = from + j - 1
      BY <1>1
    <2> QED
      BY <1>1, <2>1, <2>2
  <1>9. ASSUME NEW p \in Published \ Range(ps), Rank(Published, p) >= (n - 1) * PageSize
        PROVE  Len(ps) = PageSize /\ Rank(Published, p) >= n * PageSize
    <2> DEFINE before == (n - 1) * PageSize
               rank == Rank(Published, p)
    <2>1. /\ rank \in Nat /\ rank < Cardinality(Published)
          /\ Cardinality(PostIds) + PageSize <= MaxInt
      BY RankRoom DEF PagesInv, StoreInv
    <2>2. /\ before \in Int /\ before >= 0 /\ n * PageSize = before + PageSize
          /\ MaxInt \in Nat /\ PageSize \in Nat
      BY PageSizeFacts
    <2>3. from = before
      BY <1>5, <1>9, <2>1, <2>2, WrappedRange DEF Offset
    <2>4. rank >= from + PageSize
      BY <1>1, <1>9, <2>1, <2>2, <2>3
    <2>5. Len(ps) \in Nat /\ Len(ps) <= PageSize /\ ~(Len(ps) < PageSize)
      <3> DEFINE size == Len(ps)
                 count == Cardinality(Published)
      <3>1. /\ size \in Nat /\ size <= PageSize /\ count \in Nat
            /\ size < PageSize => count <= from + size
        BY <1>1, <1>5
      <3> HIDE DEF size
      <3> QED
        BY <1>1, <2>1, <2>2, <2>4, <3>1
    <2> QED
      BY <2>2, <2>3, <2>4, <2>5
  <1> QED
    BY <1>1, <1>3, <1>4, <1>6, <1>7, <1>8, <1>9
\* An element of two lists put together is one of the first or of the second.
LEMMA JoinedElement ==
    ASSUME NEW S, NEW s \in Seq(S), NEW t \in Seq(S), NEW i \in DOMAIN (s \o t)
    PROVE  \/ i \in DOMAIN s /\ (s \o t)[i] = s[i]
           \/ \E j \in DOMAIN t : i = Len(s) + j /\ (s \o t)[i] = t[j]
  <1>1. /\ s \o t \in Seq(S) /\ Len(s \o t) = Len(s) + Len(t)
        /\ \A k \in 1 .. Len(s) + Len(t) :
              (s \o t)[k] = IF k <= Len(s) THEN s[k] ELSE t[k - Len(s)]
    BY ConcatProperties
  <1>2. /\ Len(s) \in Nat /\ Len(t) \in Nat
        /\ DOMAIN s = 1 .. Len(s) /\ DOMAIN t = 1 .. Len(t)
    BY LenProperties
  <1>3. i \in 1 .. Len(s) + Len(t)
    BY <1>1, LenProperties
  <1> DEFINE j == i - Len(s)
  <1>4. CASE i <= Len(s)
    BY <1>1, <1>2, <1>3, <1>4
  <1>5. CASE i > Len(s)
    <2>1. j \in DOMAIN t /\ i = Len(s) + j
      BY <1>2, <1>3, <1>5
    <2>2. (s \o t)[i] = t[j]
      BY <1>1, <1>2, <1>3, <1>5
    <2> QED
      BY <2>1, <2>2
  <1> QED
    BY <1>2, <1>3, <1>4, <1>5

\* Lists without repetitions and without a common element make one.
LEMMA JoinedInjective ==
    ASSUME NEW S, NEW s \in Seq(S), NEW t \in Seq(S), IsInjective(s), IsInjective(t),
           \A i \in DOMAIN s, j \in DOMAIN t : s[i] # t[j]
    PROVE  IsInjective(s \o t)
  <1> SUFFICES ASSUME NEW i \in DOMAIN (s \o t), NEW j \in DOMAIN (s \o t),
                      (s \o t)[i] = (s \o t)[j]
               PROVE  i = j
    BY DEF IsInjective
  <1>1. \/ i \in DOMAIN s /\ (s \o t)[i] = s[i]
        \/ \E k \in DOMAIN t : i = Len(s) + k /\ (s \o t)[i] = t[k]
    BY JoinedElement
  <1>2. \/ j \in DOMAIN s /\ (s \o t)[j] = s[j]
        \/ \E k \in DOMAIN t : j = Len(s) + k /\ (s \o t)[j] = t[k]
    BY JoinedElement
  <1> QED
    BY <1>1, <1>2, Zenon DEF IsInjective

\* The walk begins with the page that was asked for.
LEMMA OpenWalk ==
    ASSUME PagesInv, NEW n \in 1 .. MaxInt, ~Refused(n, PageSize),
           ListHome(n, ListPublished(n, PageSize)),
           walked' = ListPublished(n, PageSize),
           stayed' = {p \in Published :
                        Cardinality(NewerThan(p)) >= (n - 1) * PageSize}
    PROVE  HomePlace' /\ Walks' /\ NoRepeat' /\ NoGap'
  <1> DEFINE ps == ListPublished(n, PageSize)
             from == Offset(n, PageSize)
  <1>1. /\ HomePlace'
        /\ ps \in Seq(Published) /\ ps \in Seq(PostIds)
        /\ asked'.kind = "home" /\ asked'.arg = n /\ Len(entries') = Len(ps)
        /\ UNCHANGED <<posts, tags, links>> /\ Published' = Published
        /\ IsInjective(ps)
        /\ \A p \in Published \ Range(ps) :
              Rank(Published, p) >= (n - 1) * PageSize =>
                 /\ Len(ps) = PageSize
                 /\ Rank(Published, p) >= n * PageSize
    BY HomeStep
  <1>2. /\ from \in Nat
        /\ \A i \in DOMAIN ps : Rank(Published, ps[i]) = from + i - 1
    BY HomePage DEF PagesInv, StoreInv
  <1>3. walked' = ps
    OBVIOUS
  <1>4. Walks'
    BY <1>1, <1>3 DEF Walks
  <1>5. NoRepeat'
    <2>1. \A i \in DOMAIN ps : Rank(Published, ps[i]) < from + Len(ps)
      BY <1>1, <1>2
    <2> QED
      BY <1>1, <1>3, <2>1 DEF NoRepeat, Rank, Newer
  <1>6. NoGap'
    <2>1. \A p \in stayed' : p \in Published /\ Rank(Published, p) >= (n - 1) * PageSize
      BY DEF Rank, NewerThan
    <2>2. \A p \in stayed' \ Range(ps) :
             Len(ps) = PageSize /\ Rank(Published, p) >= n * PageSize
      BY <1>1, <2>1
    <2> QED
      BY <1>1, <1>3, <2>2 DEF NoGap, Rank, Newer
  <1> QED
    BY <1>1, <1>4, <1>5, <1>6

\* The next page goes on where the page before it ended.
LEMMA NextWalk ==
    ASSUME PagesInv, NEW n \in 1 .. MaxInt, ~Refused(n, PageSize),
           ListHome(n, ListPublished(n, PageSize)),
           asked.kind = "home", Len(entries) = PageSize,
           n = AtLeastOne(Wrapped(asked.arg + 1)),
           walked' = walked \o ListPublished(n, PageSize),
           UNCHANGED <<stayed, left, joined>>
    PROVE  HomePlace' /\ Walks' /\ NoRepeat' /\ NoGap'
  <1> DEFINE ps == ListPublished(n, PageSize)
             from == Offset(n, PageSize)
  <1>1. /\ HomePlace'
        /\ ps \in Seq(Published) /\ ps \in Seq(PostIds)
        /\ asked'.kind = "home" /\ asked'.arg = n /\ Len(entries') = Len(ps)
        /\ UNCHANGED <<posts, tags, links>> /\ Published' = Published
        /\ IsInjective(ps)
        /\ \A p \in Published \ Range(ps) :
              Rank(Published, p) >= (n - 1) * PageSize =>
                 /\ Len(ps) = PageSize
                 /\ Rank(Published, p) >= n * PageSize
    BY HomeStep
  <1>2. /\ from \in Nat
        /\ \A i \in DOMAIN ps : Rank(Published, ps[i]) = from + i - 1
    BY HomePage DEF PagesInv, StoreInv
  <1>3. /\ n = asked.arg + 1 /\ asked.arg \in 1 .. MaxInt
        /\ from = Offset(asked.arg, PageSize) + Len(entries)
    <2>1. entries # <<>>
      BY PageSizeFacts
    <2>2. /\ asked.arg \in 1 .. MaxInt /\ Offset(asked.arg, PageSize) \in Nat
          /\ Offset(asked.arg, PageSize) + PageSize <= Cardinality(PostIds)
      BY <2>1 DEF PagesInv, HomePlace
    <2> QED
      BY <2>2, NextOffset
  <1>4. walked \in Seq(PostIds) /\ walked' = walked \o ps
    BY DEF PagesInv, Walks
  <1>5. Walks' /\ Range(walked') = Range(walked) \cup Range(ps)
    <2> HIDE DEF ps
    <2>1. walked \o ps \in Seq(PostIds)
      BY <1>1, <1>4, ConcatProperties
    <2>2. Range(walked \o ps) = Range(walked) \cup Range(ps)
      BY <1>1, <1>4, RangeConcatenation
    <2> QED
      BY <1>1, <1>4, <2>1, <2>2 DEF PagesInv, Walks
  <1>6. \A p \in Published : Rank(Published, p) \in Nat
    BY RankRoom DEF PagesInv, StoreInv
  <1>7. NoRepeat'
    <2> SUFFICES ASSUME ~joined
                 PROVE  /\ IsInjective(walked')
                        /\ \A i \in DOMAIN walked' :
                              walked'[i] \in Published =>
                                 Rank(Published, walked'[i]) < from + Len(ps)
      BY <1>1 DEF NoRepeat, Rank, Newer
    <2>1. /\ IsInjective(walked)
          /\ \A i \in DOMAIN walked :
                walked[i] \in Published => Rank(Published, walked[i]) < from
      BY <1>3 DEF PagesInv, NoRepeat
    <2>2. \A i \in DOMAIN ps : /\ ps[i] \in Published
                               /\ Rank(Published, ps[i]) >= from
                               /\ Rank(Published, ps[i]) < from + Len(ps)
      <3>1. \A i \in DOMAIN ps : ps[i] \in Published /\ i >= 1 /\ i <= Len(ps)
                                 /\ i \in Nat
        BY <1>1
      <3> HIDE DEF ps, from
      <3> QED
        BY <1>1, <1>2, <3>1
    <2> HIDE DEF ps, from
    <2>3. \A i \in DOMAIN walked, j \in DOMAIN ps : walked[i] # ps[j]
      <3> SUFFICES ASSUME NEW i \in DOMAIN walked, NEW j \in DOMAIN ps,
                          walked[i] = ps[j]
                   PROVE  FALSE
        OBVIOUS
      <3>1. /\ Rank(Published, ps[j]) >= from /\ Rank(Published, ps[j]) \in Nat
            /\ Rank(Published, ps[j]) < from
        BY <1>6, <2>1, <2>2
      <3> QED
        BY <1>2, <3>1
    <2>4. IsInjective(walked')
      BY <1>1, <1>4, <2>1, <2>3, JoinedInjective
    <2>5. ASSUME NEW i \in DOMAIN walked', walked'[i] \in Published
          PROVE  Rank(Published, walked'[i]) < from + Len(ps)
      <3> DEFINE p == walked'[i]
                 rank == Rank(Published, p)
                 end == from + Len(ps)
      <3>1. \/ i \in DOMAIN walked /\ p = walked[i]
            \/ \E j \in DOMAIN ps : p = ps[j]
        <4>1. i \in DOMAIN (walked \o ps) /\ p = (walked \o ps)[i]
          BY <1>4
        <4>0. walked \in Seq(PostIds) /\ ps \in Seq(PostIds)
          BY <1>1, <1>4
        <4>2. \/ i \in DOMAIN walked /\ (walked \o ps)[i] = walked[i]
              \/ \E j \in DOMAIN ps : i = Len(walked) + j /\ (walked \o ps)[i] = ps[j]
          BY <4>0, <4>1, JoinedElement
        <4> QED
          BY <4>1, <4>2
      <3>2. rank \in Nat
        BY <1>6, <2>5
      <3>3. rank < from \/ rank < end
        BY <2>1, <2>2, <2>5, <3>1
      <3>4. Len(ps) \in Nat
        BY <1>1
      <3> HIDE DEF rank
      <3>5. rank < end
        BY <1>2, <3>2, <3>3, <3>4
      <3> QED
        BY <3>5 DEF rank
    <2> QED
      BY <2>4, <2>5
  <1>8. NoGap'
    <2> SUFFICES ASSUME ~left, NEW p \in stayed \ Range(walked')
                 PROVE  Len(ps) = PageSize /\ Rank(Published, p) >= n * PageSize
      <3>1. \A p : Rank(Published, p)' = Rank(Published, p)
        BY <1>1 DEF Rank, Newer
      <3>2. left' = left /\ stayed' = stayed
        OBVIOUS
      <3> HIDE DEF ps
      <3> QED
        BY <1>1, <3>1, <3>2 DEF NoGap
    <2>1. p \in Published /\ p \notin Range(walked) /\ p \notin Range(ps)
      BY <1>5 DEF PagesInv, Walks
    <2>2. Rank(Published, p) >= asked.arg * PageSize
      BY <2>1 DEF PagesInv, NoGap
    <2>3. asked.arg = n - 1
      BY <1>3
    <2> QED
      BY <1>1, <2>1, <2>2, <2>3
  <1> QED
    BY <1>1, <1>5, <1>7, <1>8
\* The other pages end the walk.
LEMMA QuietWalk ==
    ASSUME PagesInv, asked'.kind # "home",
           UNCHANGED <<posts, tags, links, walked, stayed>>
    PROVE  HomePlace' /\ Walks' /\ NoRepeat' /\ NoGap'
  BY DEF PagesInv, HomePlace, Walks, NoRepeat, NoGap, Published

LEMMA VisitorWalk ==
    ASSUME PagesInv, VisitorStep
    PROVE  HomePlace' /\ Walks' /\ NoRepeat' /\ NoGap'
  <1>1. CASE Unlisted
    <2>1. asked'.kind # "home" /\ UNCHANGED <<posts, tags, links, walked, stayed>>
      BY <1>1 DEF Unlisted, history
    <2> QED
      BY <2>1, QuietWalk
  <1>2. CASE \E page, ps, place :
                Listed(page, ps, place) /\ page.kind # "home" /\ SameWalk
    <2>1. asked'.kind # "home" /\ UNCHANGED <<posts, tags, links, walked, stayed>>
      BY <1>2 DEF Listed, List, SameWalk
    <2> QED
      BY <2>1, QuietWalk
  <1> QED
    BY <1>1, <1>2, OpenWalk, NextWalk DEF VisitorStep

\* Reading tags moves nothing.
LEMMA ReadTagsWalk ==
    ASSUME PagesInv, ReadTags
    PROVE  HomePlace' /\ Walks' /\ NoRepeat' /\ NoGap'
  <1>1. UNCHANGED <<posts, asked, walked, stayed, left, joined, above>>
    BY DEF ReadTags, history
  <1>2. Len(entries') = Len(entries) /\ (entries' # <<>> => entries # <<>>)
    <2>1. entries \in Seq(Entries) /\ done + 1 \in 1 .. Len(entries)
      BY DEF PagesInv, PagesTypeOK, Entries, ReadTags
    <2>2. entries # <<>>
      BY <2>1
    <2>3. DOMAIN entries' = DOMAIN entries
      BY DEF ReadTags
    <2>4. Len(entries') = Len(entries)
      BY <2>1, <2>3 DEF ReadTags
    <2> QED
      BY <2>2, <2>4
  <1>3. Published' = Published
    BY <1>1 DEF Published
  <1>4. HomePlace' /\ Walks'
    BY <1>1, <1>2, <1>3 DEF PagesInv, HomePlace, Walks
  <1>5. NoRepeat'
    BY <1>1, <1>2, <1>3 DEF PagesInv, NoRepeat, Rank, Newer
  <1>6. NoGap'
    BY <1>1, <1>2, <1>3 DEF PagesInv, NoGap, Rank, Newer
  <1> QED
    BY <1>4, <1>5, <1>6

\* What the flags say of an operation on the store.
LEMMA ChangeFlags ==
    ASSUME PagesInv, Change
    PROVE  /\ ~joined' => /\ ~joined /\ Published' \subseteq Published
                          /\ \A q \in Published' :
                                posts'[q].published_at = posts[q].published_at
           /\ ~left' => /\ ~left /\ Published \subseteq Published'
                        /\ \A q \in Published :
                              posts'[q].published_at = posts[q].published_at
  <1>1. Published \subseteq PostIds /\ Published' \subseteq PostIds
    BY DEF Published
  <1>2. ASSUME NEW q \in Published \cap Published', q \notin Redated
        PROVE  posts'[q].published_at = posts[q].published_at
    BY <1>2 DEF Redated, Published
  <1>3. ASSUME ~joined'
        PROVE  /\ ~joined /\ Published' \subseteq Published
               /\ \A q \in Published' : posts'[q].published_at = posts[q].published_at
    <2>1. ~joined /\ Published' \cap (Redated \cup (PostIds \ Published)) = {}
      BY <1>3 DEF Change
    <2> QED
      BY <1>1, <1>2, <2>1
  <1>4. ASSUME ~left'
        PROVE  /\ ~left /\ Published \subseteq Published'
               /\ \A q \in Published : posts'[q].published_at = posts[q].published_at
    <2>1. ~left /\ Published \cap (Redated \cup (PostIds \ Published')) = {}
      BY <1>4 DEF Change
    <2> QED
      BY <1>1, <1>2, <2>1
  <1> QED
    BY <1>3, <1>4

\* An operation on the store moves the posts, but only towards the front when
\* none joined, and only towards the end when none left.
LEMMA ChangeWalk ==
    ASSUME PagesInv, StoreInv', Change
    PROVE  HomePlace' /\ Walks' /\ NoRepeat' /\ NoGap'
  <1>1. UNCHANGED <<asked, entries, walked, above>>
        /\ stayed' = (stayed \cap Published') \ Redated
    BY DEF Change, visitor
  <1>2. HomePlace' /\ Walks'
    BY <1>1 DEF PagesInv, HomePlace, Walks
  <1>3. NoRepeat'
    <2> SUFFICES ASSUME asked.kind = "home", ~joined'
                 PROVE  /\ IsInjective(walked)
                        /\ \A i \in DOMAIN walked :
                              walked[i] \in Published' =>
                                 Rank(Published, walked[i])'
                                    < Offset(asked.arg, PageSize) + Len(entries)
      BY <1>1 DEF NoRepeat
    <2>1. /\ ~joined /\ Published' \subseteq Published
          /\ \A q \in Published' : posts'[q].published_at = posts[q].published_at
      BY ChangeFlags
    <2>2. /\ IsInjective(walked)
          /\ \A i \in DOMAIN walked :
                walked[i] \in Published =>
                   Rank(Published, walked[i])
                      < Offset(asked.arg, PageSize) + Len(entries)
      BY <2>1 DEF PagesInv, NoRepeat
    <2>3. \A p \in Published' : /\ Rank(Published, p)' <= Rank(Published, p)
                                /\ Rank(Published, p)' \in Nat
                                /\ Rank(Published, p) \in Nat
      <3> TAKE p \in Published'
      <3>1. p \in Published
        BY <2>1
      <3>2. Rank(Published, p)' <= Rank(Published, p)
        BY <2>1, <3>1, RankShrinks DEF PagesInv, StoreInv
      <3>3. Rank(Published, p)' \in Nat
        <4>1. {q \in Published : Newer(q, p)}' \subseteq PostIds
          BY DEF Published
        <4> QED
          BY <4>1, FinitePosts DEF Rank
      <3> QED
        BY <3>1, <3>2, <3>3, RankRoom DEF PagesInv, StoreInv
    <2>4. Offset(asked.arg, PageSize) \in Nat /\ Len(entries) \in Nat
      BY DEF PagesInv, HomePlace, PagesTypeOK
    <2>5. ASSUME NEW i \in DOMAIN walked, walked[i] \in Published'
          PROVE  Rank(Published, walked[i])'
                    < Offset(asked.arg, PageSize) + Len(entries)
      <3> DEFINE new == Rank(Published, walked[i])'
                 old == Rank(Published, walked[i])
                 end == Offset(asked.arg, PageSize) + Len(entries)
      <3>1. old < end /\ new <= old /\ new \in Nat /\ old \in Nat /\ end \in Nat
        BY <1>1, <2>1, <2>2, <2>3, <2>4, <2>5
      <3> HIDE DEF new, old, end
      <3>2. new < end
        BY <3>1
      <3> QED
        BY <1>1, <3>2 DEF new, end
    <2> QED
      BY <2>2, <2>5
  <1>4. NoGap'
    <2> SUFFICES ASSUME asked.kind = "home", ~left', NEW p \in stayed' \ Range(walked)
                 PROVE  /\ Len(entries) = PageSize
                        /\ Rank(Published, p)' >= asked.arg * PageSize
      BY <1>1 DEF NoGap
    <2>1. /\ ~left /\ Published \subseteq Published'
          /\ \A q \in Published : posts'[q].published_at = posts[q].published_at
      BY ChangeFlags
    <2>2. p \in stayed /\ p \in Published
      BY <1>1 DEF PagesInv, Walks
    <2>3. Len(entries) = PageSize /\ Rank(Published, p) >= asked.arg * PageSize
      BY <2>1, <2>2 DEF PagesInv, NoGap
    <2>4. Rank(Published, p) <= Rank(Published, p)'
      BY <2>1, <2>2, RankGrows DEF PagesInv, StoreInv
    <2>5. Rank(Published, p) \in Nat /\ Rank(Published, p)' \in Nat
      <3>1. {q \in Published : Newer(q, p)}' \subseteq PostIds
        BY DEF Published
      <3>2. Rank(Published, p)' \in Nat
        BY <3>1, FinitePosts DEF Rank
      <3> QED
        BY <2>2, <3>2, RankRoom DEF PagesInv, StoreInv
    <2>6. asked.arg * PageSize \in Int
      BY PageSizeFacts DEF PagesInv, HomePlace
    <2> QED
      BY <2>3, <2>4, <2>5, <2>6
  <1> QED
    BY <1>2, <1>3, <1>4

LEMMA NextPagesInv == PagesInv /\ [PagesNext]_pageVars => PagesInv'
  <1> SUFFICES ASSUME PagesInv, [PagesNext]_pageVars
               PROVE  PagesInv'
    OBVIOUS
  <1>1. CASE PagesNext
    <2>1. StoreInv' /\ (VisitorStep \/ ReadTags \/ Change)
      BY <1>1, NextStoreInv, StepCases DEF PagesInv, StoreInv, HomePlace
    <2>2. CASE VisitorStep
      BY <2>1, <2>2, VisitorTypes, VisitorWalk DEF PagesInv
    <2>3. CASE ReadTags
      BY <2>1, <2>3, ReadTagsTypes, ReadTagsWalk DEF PagesInv
    <2>4. CASE Change
      BY <2>1, <2>4, ChangeTypes, ChangeWalk DEF PagesInv
    <2> QED
      BY <2>1, <2>2, <2>3, <2>4
  <1>2. CASE UNCHANGED pageVars
    <2>1. UNCHANGED <<posts, tags, links, pc, asked, entries, done, touched,
                      walked, stayed, left, joined, above>>
      BY <1>2 DEF pageVars
    <2>2. StoreInv'
      BY <2>1, NextStoreHolds DEF PagesInv, vars
    <2>5. PagesTypeOK' /\ OnlyPublishedShown' /\ FeedFits'
      BY <2>1 DEF PagesInv, PagesTypeOK, OnlyPublishedShown, FeedFits
    <2>3. Untouched' /\ HomePlace' /\ Walks'
      BY <2>1 DEF PagesInv, Untouched, TagSet, HomePlace, Walks, Published
    <2>4. NoRepeat' /\ NoGap'
      BY <2>1 DEF PagesInv, NoRepeat, NoGap, Published, Rank, Newer
    <2> QED
      BY <2>2, <2>3, <2>4, <2>5 DEF PagesInv
  <1> QED
    BY <1>1, <1>2

LEMMA PagesInvHolds == PagesSpec => []PagesInv
  BY InitPagesInv, NextPagesInv, PTL DEF PagesSpec
----------------------------------------------------------------------------
(* The theorems.                                                           *)

\* The handlers' variables keep their types, and a home page never has more
\* than HOME_PAGE_SIZE posts.
THEOREM PagesTypes == PagesSpec => []PagesTypeOK
  <1>1. PagesInv => PagesTypeOK
    BY DEF PagesInv
  <1> QED
    BY <1>1, PagesInvHolds, PTL

\* Whatever the administration does between two queries of a page, no page
\* lists a post that was not published when its row was read, and every row
\* on a page has its publication date.
THEOREM PagesShowPublished == PagesSpec => []OnlyPublishedShown
  <1>1. PagesInv => OnlyPublishedShown
    BY DEF PagesInv
  <1> QED
    BY <1>1, PagesInvHolds, PTL

\* Text and tags of a post on a page come from one save, and a post on a
\* tag's page carries the tag, unless an operation changed the post between
\* the query for the posts and the one for its tags.
THEOREM PagesTornOnlyByChange == PagesSpec => []TornOnlyByChange
  <1>1. PagesInv => TornOnlyByChange
    <2> SUFFICES ASSUME PagesInv, NEW i \in 1 .. done,
                        entries[i].post \notin touched
                 PROVE  /\ \E f \in Forms : /\ entries[i].row.content = Content(f)
                                            /\ entries[i].tags = TagsOf(f)
                        /\ asked.kind = "tag" => asked.arg \in entries[i].tags
      BY DEF TornOnlyByChange
    <2>1. entries \in Seq(Entries) /\ done \in 0 .. Len(entries)
      BY DEF PagesInv, PagesTypeOK, Entries
    <2>2. i \in DOMAIN entries /\ i <= done
      BY <2>1
    <2>3. entries[i].post \in PostIds /\ entries[i].row \in Row
      <3>1. entries[i] \in Entries
        BY <2>1, <2>2
      <3> QED
        BY <3>1 DEF Entries
    <2>4. /\ posts[entries[i].post] = entries[i].row
          /\ entries[i].tags = TagSet(entries[i].post)
          /\ asked.kind = "tag" => asked.arg \in TagSet(entries[i].post)
      BY <2>2 DEF PagesInv, Untouched
    <2>5. posts[entries[i].post] # NoRow
      BY <2>3, <2>4, RowAssumption
    <2> QED
      BY <2>3, <2>4, <2>5 DEF PagesInv, StoreInv, TagsMatchContent
  <1> QED
    BY <1>1, PagesInvHolds, PTL

\* Page n of the home page begins after n - 1 pages of posts, whatever page
\* number was typed: the computation in i64 gives the true offset whenever
\* that offset exists.
THEOREM PagesAreInPlace == PagesSpec => []PageInPlace
  <1>1. PagesInv => PageInPlace
    <2> SUFFICES ASSUME PagesInv, asked.kind = "home", entries # <<>>,
                        (asked.arg - 1) * PageSize <= MaxInt
                 PROVE  above = (asked.arg - 1) * PageSize
      BY DEF PageInPlace
    <2>1. asked.arg \in 1 .. MaxInt /\ above = Offset(asked.arg, PageSize)
      BY DEF PagesInv, HomePlace
    <2> DEFINE before == (asked.arg - 1) * PageSize
    <2>2. before \in Int /\ before >= 0
      BY <2>1, PageSizeFacts
    <2>3. Wrapped(before) = before
      BY <2>2, WrappedRange, PageSizeFacts
    <2> QED
      BY <2>1, <2>3 DEF Offset
  <1> QED
    BY <1>1, PagesInvHolds, PTL

\* A visitor who follows the next-page links to the end has seen every post
\* that was published all the time, however many posts there are, whatever
\* the page size, and whatever was published in the meantime, provided that
\* no published post was withdrawn, deleted or dated anew.
THEOREM WalksMissNothing == PagesSpec => []NothingMissed
  <1>1. PagesInv => NothingMissed
    BY DEF PagesInv, NoGap, NothingMissed, WalkDone, NextPageOffered
  <1> QED
    BY <1>1, PagesInvHolds, PTL

\* The visitor meets no post twice, provided that none was published or
\* dated anew in the meantime.
THEOREM WalksRepeatNothing == PagesSpec => []NothingTwice
  <1>1. PagesInv => NothingTwice
    BY DEF PagesInv, NoRepeat, NothingTwice
  <1> QED
    BY <1>1, PagesInvHolds, PTL

\* The feed keeps to every BLOG_RSS_LIMIT but 0, also to one that is no i64:
\* the limit of the run rss_zero is the only one that breaks the promise.
THEOREM FeedKeepsLimit ==
    ASSUME RssLimit # 0
    PROVE  PagesSpec => []FeedWithinLimit
  <1>1. RssLimit \in 1 .. (2 * MaxInt + 1) /\ MaxInt \in Nat \ {0}
    BY PagesAssumption
  <1>2. /\ Wrapped(RssLimit) \in (-MaxInt - 1) .. MaxInt
        /\ RssLimit <= MaxInt => Wrapped(RssLimit) = RssLimit
    BY <1>1, WrappedRange
  <1>3. FeedSize \in Nat /\ FeedSize <= RssLimit
    BY <1>1, <1>2 DEF FeedSize, AtLeastOne
  <1>4. PagesInv => FeedWithinLimit
    <2> SUFFICES ASSUME PagesInv, asked.kind = "rss"
                 PROVE  Len(entries) <= RssLimit
      BY DEF FeedWithinLimit
    <2>1. entries \in Seq(Entries) /\ Len(entries) <= FeedSize
      BY DEF PagesInv, PagesTypeOK, Entries, FeedFits
    <2>2. Len(entries) \in Nat
      BY <2>1
    <2> QED
      BY <1>1, <1>3, <2>1, <2>2
  <1> QED
    BY <1>4, PagesInvHolds, PTL
=============================================================================

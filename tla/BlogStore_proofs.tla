-------------------------- MODULE BlogStore_proofs --------------------------
(***************************************************************************)
(* Proofs about the data of the blog and about BlogStore, for every set of *)
(* posts and forms.                                                        *)
(***************************************************************************)
EXTENDS BlogStore, FiniteSetTheorems, TLAPS

----------------------------------------------------------------------------
(* The data.                                                               *)

\* resolve() can only return members of Slugs.
LEMMA CandidateIsSlug ==
    ASSUME NEW f \in Forms, NEW k \in 1 .. MaxAttempts
    PROVE  Candidate(f, k) \in Slugs
  BY DEF Slugs

\* The base slug is the first candidate.
LEMMA BaseIsSlug ==
    ASSUME NEW f \in Forms
    PROVE  BaseSlug(f) \in Slugs
  <1>1. 1 \in 1 .. MaxAttempts
    BY BoundsAssumption
  <1>2. Candidate(f, 1) = BaseSlug(f)
    BY DEF Candidate
  <1> QED
    BY <1>1, <1>2, CandidateIsSlug

\* An accepted form makes a well-typed row.
LEMMA RowType ==
    ASSUME NEW f \in Forms, HasText(f), NEW s \in Slugs, NEW d \in Dates
    PROVE  RowOf(f, s, d) \in Row
  BY DEF RowOf, Row, HasText

\* There is room for at least one date.
LEMMA OneIsDate == 1 \in Dates
  <1>1. IsFiniteSet(Requests)
    BY IdsAssumption, FS_Subset DEF PostIds
  <1>2. Cardinality(Requests) \in Nat
    BY <1>1, FS_CardinalityType
  <1> QED
    BY <1>2, BoundsAssumption DEF Dates

LEMMA ZeroIsDate == NoDate \in Dates
  BY BoundsAssumption DEF Dates, NoDate

\* A handler writes no date, the one it loaded, or the clock.
LEMMA StampType ==
    ASSUME NEW s, NEW old \in Dates, NEW now \in Dates
    PROVE  Stamp(s, old, now) \in Dates
  BY ZeroIsDate DEF Stamp

\* The date a handler computes fits the status it goes with.
LEMMA StampFits ==
    ASSUME NEW s \in Statuses, NEW old \in Dates, NEW now \in Nat \ {0}
    PROVE  Dated(s, Stamp(s, old, now))
  BY DEF Dated, Stamp, Statuses, NoDate

----------------------------------------------------------------------------
(* The tags a post has.                                                    *)

\* A tag of a form has the name of one of its entries, never a blank one.
LEMMA TagNameNotBlank ==
    ASSUME NEW f \in Forms, NEW t \in TagsOf(f)
    PROVE  TagName(f, t) # Blank
  <1>1. \E i \in FirstUses(f) : TagSlug(f, i) = t
    BY DEF TagsOf
  <1>2. PICK i \in FirstUses(f) : TagName(f, t) = f.tags[i]
    BY <1>1 DEF TagName
  <1> QED
    BY <1>2 DEF FirstUses, Named

\* Replacing the links of one post leaves the tags of the others alone.
LEMMA TagSetRetagged ==
    ASSUME NEW p \in PostIds, NEW ts, links' = Retagged(p, ts),
           NEW q \in PostIds
    PROVE  TagSet(q)' = IF q = p THEN ts ELSE TagSet(q)
  <1>1. TagSet(q)' = {l[2] : l \in {m \in Retagged(p, ts) : m[1] = q}}
    BY DEF TagSet
  <1>2. CASE q = p
    <2>1. {m \in Retagged(p, ts) : m[1] = p} = {p} \X ts
      BY DEF Retagged
    <2>2. {l[2] : l \in {p} \X ts} = ts
      <3>1. \A t \in ts : <<p, t>> \in {p} \X ts /\ <<p, t>>[2] = t
        OBVIOUS
      <3>2. \A t \in ts : t \in {l[2] : l \in {p} \X ts}
        BY <3>1
      <3>3. \A l \in {p} \X ts : l[2] \in ts
        OBVIOUS
      <3> QED
        BY <3>2, <3>3
    <2> QED
      BY <1>1, <1>2, <2>1, <2>2
  <1>3. CASE q # p
    <2>1. {m \in Retagged(p, ts) : m[1] = q} = {m \in links : m[1] = q}
      BY <1>3 DEF Retagged
    <2> QED
      BY <1>1, <1>3, <2>1 DEF TagSet
  <1> QED
    BY <1>2, <1>3

\* Types of the store's variables.
StoreTypeOK ==
    /\ posts \in [PostIds -> Row \cup {NoRow}]
    /\ tags \in [TagSlugs -> Texts]
    /\ links \subseteq PostIds \X TagSlugs

\* A saved post has the tags of its form, and their names are there.
LEMMA PutTags ==
    ASSUME StoreTypeOK, TagsMatchContent,
           NEW p \in PostIds, NEW f \in Forms, HasText(f),
           NEW s \in Slugs, NEW d \in Dates, Put(p, f, s, d)
    PROVE  TagsMatchContent'
  <1> SUFFICES ASSUME NEW q \in PostIds
               PROVE  (IF posts[q] = NoRow THEN TagSet(q) = {}
                       ELSE \E g \in Forms :
                               /\ posts[q].content = Content(g)
                               /\ TagSet(q) = TagsOf(g)
                               /\ \A t \in TagSet(q) : tags[t] # Blank)'
    BY DEF TagsMatchContent
  <1>1. TagSet(q)' = IF q = p THEN TagsOf(f) ELSE TagSet(q)
    BY TagSetRetagged DEF Put
  <1>2. \A t \in TagSet(q)' : t \in TagSlugs
    <2>1. TagSet(q) \subseteq TagSlugs
      BY DEF StoreTypeOK, TagSet
    <2> QED
      BY <1>1, <2>1 DEF TagSlugs
  <1>3. ASSUME NEW t \in TagSlugs, tags[t] # Blank \/ t \in TagsOf(f)
        PROVE  tags'[t] # Blank
    BY <1>3, TagNameNotBlank DEF Put, Renamed
  <1>4. CASE q = p
    <2>1. posts'[q] = RowOf(f, s, d)
      BY <1>4 DEF Put, StoreTypeOK
    <2>2. posts'[q] # NoRow
      BY <2>1, RowType, RowAssumption
    <2>3. posts'[q].content = Content(f)
      BY <2>1 DEF RowOf
    <2> QED
      BY <1>1, <1>2, <1>3, <1>4, <2>2, <2>3
  <1>5. CASE q # p
    <2>1. posts'[q] = posts[q]
      BY <1>5 DEF Put, StoreTypeOK
    <2>2. IF posts[q] = NoRow THEN TagSet(q) = {}
          ELSE \E g \in Forms :
                  /\ posts[q].content = Content(g)
                  /\ TagSet(q) = TagsOf(g)
                  /\ \A t \in TagSet(q) : tags[t] # Blank
      BY DEF TagsMatchContent
    <2> QED
      BY <1>1, <1>2, <1>3, <1>5, <2>1, <2>2
  <1> QED
    BY <1>4, <1>5

\* Publishing and withdrawing touch neither text nor tags.
LEMMA SetStatusTags ==
    ASSUME StoreTypeOK, TagsMatchContent, NEW p \in PostIds, posts[p] # NoRow,
           NEW st \in Statuses, NEW d \in Dates, SetStatusOf(p, st, d)
    PROVE  TagsMatchContent'
  <1>1. \A q \in PostIds : TagSet(q)' = TagSet(q)
    BY DEF SetStatusOf, TagSet
  <1>2. ASSUME NEW q \in PostIds
        PROVE  /\ posts'[q] = NoRow <=> posts[q] = NoRow
               /\ posts[q] # NoRow => posts'[q].content = posts[q].content
    <2>1. CASE q = p
      <3>1. posts[p] \in Row
        BY DEF StoreTypeOK
      <3>2. posts'[p] = [posts[p] EXCEPT !.status = st, !.published_at = d]
        BY DEF SetStatusOf, StoreTypeOK
      <3>3. posts'[p] \in Row /\ posts'[p].content = posts[p].content
        BY <3>1, <3>2 DEF Row
      <3> QED
        BY <2>1, <3>3, RowAssumption
    <2>2. CASE q # p
      BY <2>2 DEF SetStatusOf, StoreTypeOK
    <2> QED
      BY <2>1, <2>2
  <1> QED
    BY <1>1, <1>2 DEF TagsMatchContent, SetStatusOf

\* A deleted post leaves no links.
LEMMA RemoveTags ==
    ASSUME StoreTypeOK, TagsMatchContent, NEW p \in PostIds, Remove(p)
    PROVE  TagsMatchContent'
  <1>1. \A q \in PostIds : TagSet(q)' = IF q = p THEN {} ELSE TagSet(q)
    BY TagSetRetagged DEF Remove
  <1>2. \A q \in PostIds : posts'[q] = IF q = p THEN NoRow ELSE posts[q]
    BY DEF Remove, StoreTypeOK
  <1> QED
    BY <1>1, <1>2 DEF TagsMatchContent, Remove

----------------------------------------------------------------------------
(* The invariant of the store.                                             *)

LEMMA InitStoreType == Init => StoreTypeOK
  <1> SUFFICES ASSUME Init PROVE StoreTypeOK
    OBVIOUS
  <1>1. ASSUME NEW p \in Existing
        PROVE  RowOf(SeedForm[p], BaseSlug(SeedForm[p]),
                     Stamp(SeedForm[p].status, NoDate, 1)) \in Row
    <2>1. SeedForm[p] \in Forms /\ HasText(SeedForm[p])
      BY SeedAssumption DEF Acceptable
    <2>2. Stamp(SeedForm[p].status, NoDate, 1) \in Dates
      BY OneIsDate, ZeroIsDate, StampType
    <2> QED
      BY <2>1, <2>2, BaseIsSlug, RowType
  <1> QED
    BY <1>1 DEF Init, StoreTypeOK, PostIds

LEMMA InitTags == Init => TagsMatchContent
  <1> SUFFICES ASSUME Init, NEW p \in PostIds
               PROVE  IF posts[p] = NoRow THEN TagSet(p) = {}
                      ELSE \E f \in Forms :
                              /\ posts[p].content = Content(f)
                              /\ TagSet(p) = TagsOf(f)
                              /\ \A t \in TagSet(p) : tags[t] # Blank
    BY DEF TagsMatchContent
  <1>1. CASE p \notin Existing
    <2>1. posts[p] = NoRow
      BY <1>1 DEF Init
    <2>2. \A l \in links : l[1] # p
      BY <1>1 DEF Init
    <2> QED
      BY <2>1, <2>2 DEF TagSet
  <1>2. CASE p \in Existing
    <2> DEFINE f == SeedForm[p]
    <2>1. f \in Forms /\ HasText(f)
      BY <1>2, SeedAssumption DEF Acceptable
    <2>2. posts[p] = RowOf(f, BaseSlug(f), Stamp(f.status, NoDate, 1))
      BY <1>2 DEF Init
    <2>3. Stamp(f.status, NoDate, 1) \in Dates
      BY OneIsDate, ZeroIsDate, StampType
    <2>4. posts[p] # NoRow /\ posts[p].content = Content(f)
      BY <2>1, <2>2, <2>3, BaseIsSlug, RowType, RowAssumption DEF RowOf
    <2>5. TagSet(p) = TagsOf(f)
      <3>1. \A l \in links : l[1] = p => l[2] \in TagsOf(f)
        BY DEF Init
      <3>2. \A t \in TagsOf(f) : <<p, t>> \in links /\ <<p, t>>[1] = p /\ <<p, t>>[2] = t
        BY <1>2, <2>1 DEF Init, TagSlugs
      <3>3. \A t \in TagsOf(f) : t \in TagSet(p)
        BY <3>2 DEF TagSet
      <3> QED
        BY <3>1, <3>3 DEF TagSet
    <2>6. ASSUME NEW t \in TagsOf(f)
          PROVE  tags[t] # Blank
      <3>1. t \in TagSlugs
        BY <2>1 DEF TagSlugs
      <3>2. PICK q \in Existing : /\ t \in TagsOf(SeedForm[q])
                                  /\ tags[t] = TagName(SeedForm[q], t)
        BY <1>2, <2>6, <3>1 DEF Init
      <3>3. SeedForm[q] \in Forms
        BY SeedAssumption
      <3> QED
        BY <3>2, <3>3, TagNameNotBlank
    <2> QED
      BY <2>1, <2>4, <2>5, <2>6
  <1> QED
    BY <1>1, <1>2

LEMMA NextStore ==
    StoreTypeOK /\ TagsMatchContent /\ [Next]_vars
        => StoreTypeOK' /\ TagsMatchContent'
  <1> SUFFICES ASSUME StoreTypeOK, TagsMatchContent, [Next]_vars
               PROVE  StoreTypeOK' /\ TagsMatchContent'
    OBVIOUS
  <1>1. ASSUME NEW p \in PostIds, NEW f \in Forms, Save(p, f)
        PROVE  StoreTypeOK' /\ TagsMatchContent'
    <2>1. PICK k \in 1 .. MaxAttempts, date \in Dates :
             Put(p, f, Candidate(f, k), date)
      BY <1>1 DEF Save
    <2>2. HasText(f)
      BY <1>1 DEF Save, Acceptable
    <2>3. Candidate(f, k) \in Slugs
      BY CandidateIsSlug
    <2>4. StoreTypeOK'
      <3>1. posts' \in [PostIds -> Row \cup {NoRow}]
        BY <2>1, <2>2, <2>3, RowType DEF Put, StoreTypeOK
      <3>2. \A t \in TagsOf(f) : TagName(f, t) \in Texts
        <4>1. ASSUME NEW t \in TagsOf(f)
              PROVE  TagName(f, t) \in Texts
          <5>1. \E i \in FirstUses(f) : TagSlug(f, i) = t
            BY DEF TagsOf
          <5>2. PICK i \in FirstUses(f) : TagName(f, t) = f.tags[i]
            BY <5>1 DEF TagName
          <5> QED
            BY <5>2, FormsAssumption DEF FirstUses, Named
        <4> QED
          BY <4>1
      <3>3. tags' \in [TagSlugs -> Texts]
        BY <2>1, <3>2 DEF Put, Renamed, StoreTypeOK
      <3>4. links' \subseteq PostIds \X TagSlugs
        BY <2>1 DEF Put, Retagged, StoreTypeOK, TagSlugs
      <3> QED
        BY <3>1, <3>3, <3>4 DEF StoreTypeOK
    <2> QED
      BY <2>1, <2>2, <2>3, <2>4, PutTags
  <1>2. ASSUME NEW p \in PostIds, NEW st \in Statuses, NEW d \in Dates,
               posts[p] # NoRow, SetStatusOf(p, st, d)
        PROVE  StoreTypeOK' /\ TagsMatchContent'
    <2>1. posts[p] \in Row
      BY <1>2 DEF StoreTypeOK
    <2>2. [posts[p] EXCEPT !.status = st, !.published_at = d] \in Row
      BY <2>1 DEF Row
    <2>3. posts' = [posts EXCEPT ![p] = [posts[p] EXCEPT !.status = st, !.published_at = d]]
      BY <1>2, <2>1 DEF SetStatusOf, StoreTypeOK
    <2> QED
      BY <1>2, <2>2, <2>3, SetStatusTags DEF SetStatusOf, StoreTypeOK
  <1>3. ASSUME NEW p \in PostIds, Remove(p)
        PROVE  StoreTypeOK' /\ TagsMatchContent'
    BY <1>3, RemoveTags DEF Remove, Retagged, StoreTypeOK
  <1>4. CASE UNCHANGED vars
    BY <1>4 DEF vars, StoreTypeOK, TagsMatchContent, TagSet
  <1>5. CASE Next
    <2>1. PICK p \in PostIds :
             \/ \E f \in Forms : Create(p, f) \/ Update(p, f)
             \/ Publish(p) \/ Unpublish(p) \/ Delete(p)
      BY <1>5 DEF Next
    <2>2. CASE \E f \in Forms : Create(p, f) \/ Update(p, f)
      BY <1>1, <2>2 DEF Create, Update
    <2>3. CASE Publish(p)
      BY <1>2, <2>3 DEF Publish, Statuses
    <2>4. CASE Unpublish(p)
      BY <1>2, <2>4, ZeroIsDate DEF Unpublish, Statuses
    <2>5. CASE Delete(p)
      BY <1>3, <2>5 DEF Delete
    <2> QED
      BY <2>1, <2>2, <2>3, <2>4, <2>5
  <1> QED
    BY <1>4, <1>5

\* In the store, where every operation is one step, a post has the tags of
\* the form its text came from, and a deleted post has no links.
THEOREM StoreTagsMatch == Spec => []TagsMatchContent
  <1>1. Init => StoreTypeOK /\ TagsMatchContent
    BY InitStoreType, InitTags
  <1> QED
    BY <1>1, NextStore, PTL DEF Spec

----------------------------------------------------------------------------
(* The dates of the store.                                                 *)

\* A row is published exactly when it has a publication date.
RowsDated ==
    \A p \in PostIds :
        posts[p] # NoRow => Dated(posts[p].status, posts[p].published_at)

LEMMA InitRowsDated == Init => RowsDated
  <1> SUFFICES ASSUME Init, NEW p \in PostIds, posts[p] # NoRow
               PROVE  Dated(posts[p].status, posts[p].published_at)
    BY DEF RowsDated
  <1>1. p \in Existing
    BY DEF Init
  <1>2. /\ posts[p].status = SeedForm[p].status
        /\ posts[p].published_at = Stamp(SeedForm[p].status, NoDate, 1)
    BY <1>1 DEF Init, RowOf
  <1>3. SeedForm[p].status \in Statuses
    BY <1>1, SeedAssumption DEF Acceptable, HasText
  <1> QED
    BY <1>2, <1>3, ZeroIsDate, StampFits

LEMMA NextRowsDated ==
    StoreTypeOK /\ RowsDated /\ [Next]_vars => RowsDated'
  <1> SUFFICES ASSUME StoreTypeOK, RowsDated, [Next]_vars,
                      NEW q \in PostIds, posts'[q] # NoRow
               PROVE  Dated(posts'[q].status, posts'[q].published_at)
    BY DEF RowsDated, Dated
  <1>0. CASE posts'[q] = posts[q]
    BY <1>0 DEF RowsDated
  <1>1. ASSUME NEW p \in PostIds, NEW f \in Forms, Save(p, f)
        PROVE  Dated(posts'[q].status, posts'[q].published_at)
    <2>1. PICK k \in 1 .. MaxAttempts, date \in Dates :
             Dated(f.status, date) /\ Put(p, f, Candidate(f, k), date)
      BY <1>1 DEF Save
    <2>2. CASE q = p
      BY <2>1, <2>2 DEF Put, RowOf, StoreTypeOK
    <2>3. CASE q # p
      BY <1>0, <2>1, <2>3 DEF Put, StoreTypeOK
    <2> QED
      BY <2>2, <2>3
  <1>2. ASSUME NEW p \in PostIds, NEW st \in Statuses, NEW d \in Dates, Dated(st, d),
               posts[p] # NoRow, SetStatusOf(p, st, d)
        PROVE  Dated(posts'[q].status, posts'[q].published_at)
    <2>1. posts[p] \in Row
      BY <1>2 DEF StoreTypeOK
    <2>2. posts' = [posts EXCEPT ![p] = [posts[p] EXCEPT !.status = st, !.published_at = d]]
      BY <1>2, <2>1 DEF SetStatusOf, StoreTypeOK
    <2>3. CASE q = p
      BY <1>2, <2>1, <2>2, <2>3 DEF Row, StoreTypeOK
    <2>4. CASE q # p
      BY <1>0, <2>2, <2>4 DEF StoreTypeOK
    <2> QED
      BY <2>3, <2>4
  <1>3. ASSUME NEW p \in PostIds, Remove(p)
        PROVE  Dated(posts'[q].status, posts'[q].published_at)
    BY <1>0, <1>3 DEF Remove, StoreTypeOK
  <1>4. CASE UNCHANGED vars
    BY <1>0, <1>4 DEF vars
  <1>5. CASE Next
    <2>1. PICK p \in PostIds :
             \/ \E f \in Forms : Create(p, f) \/ Update(p, f)
             \/ Publish(p) \/ Unpublish(p) \/ Delete(p)
      BY <1>5 DEF Next
    <2>2. CASE \E f \in Forms : Create(p, f) \/ Update(p, f)
      BY <1>1, <2>2 DEF Create, Update
    <2>3. CASE Publish(p)
      BY <1>2, <2>3 DEF Publish, Statuses, Dated
    <2>4. CASE Unpublish(p)
      BY <1>2, <2>4, ZeroIsDate DEF Unpublish, Statuses, Dated
    <2>5. CASE Delete(p)
      BY <1>3, <2>5 DEF Delete
    <2> QED
      BY <2>1, <2>2, <2>3, <2>4, <2>5
  <1> QED
    BY <1>4, <1>5
----------------------------------------------------------------------------
(* What editing a post again relies on.                                    *)

\* A tag is found under its name again, a row under the text of its slug:
\* the name gives the tag's slug, the slug was resolved for a form.
NamesFit == \A t \in TagSlugs : tags[t] # Blank => Slugify[tags[t]] = t

RowsResolved ==
    \A p \in PostIds :
        posts[p] # NoRow =>
            \E f \in Forms, k \in 1 .. MaxAttempts :
                Acceptable(f) /\ posts[p].slug = Candidate(f, k)

LEMMA TagNameFits ==
    ASSUME NEW f \in Forms, NEW t \in TagsOf(f)
    PROVE  Slugify[TagName(f, t)] = t
  <1>1. \E i \in FirstUses(f) : TagSlug(f, i) = t
    BY DEF TagsOf
  <1>2. PICK i \in FirstUses(f) : TagName(f, t) = f.tags[i] /\ TagSlug(f, i) = t
    BY <1>1 DEF TagName
  <1> QED
    BY <1>2 DEF TagSlug

LEMMA InitNames == Init => NamesFit /\ RowsResolved
  <1> SUFFICES ASSUME Init PROVE NamesFit /\ RowsResolved
    OBVIOUS
  <1>1. ASSUME NEW t \in TagSlugs, tags[t] # Blank
        PROVE  Slugify[tags[t]] = t
    <2>1. PICK q \in Existing : /\ t \in TagsOf(SeedForm[q])
                                /\ tags[t] = TagName(SeedForm[q], t)
      BY <1>1 DEF Init
    <2> QED
      BY <2>1, SeedAssumption, TagNameFits
  <1>2. ASSUME NEW p \in PostIds, posts[p] # NoRow
        PROVE  \E f \in Forms, k \in 1 .. MaxAttempts :
                  Acceptable(f) /\ posts[p].slug = Candidate(f, k)
    <2>1. p \in Existing
      BY <1>2 DEF Init
    <2>2. posts[p].slug = BaseSlug(SeedForm[p])
      BY <2>1 DEF Init, RowOf
    <2>3. BaseSlug(SeedForm[p]) = Candidate(SeedForm[p], 1) /\ 1 \in 1 .. MaxAttempts
      BY BoundsAssumption DEF Candidate
    <2> QED
      BY <2>1, <2>2, <2>3, SeedAssumption
  <1> QED
    BY <1>1, <1>2 DEF NamesFit, RowsResolved

LEMMA NextNames ==
    StoreTypeOK /\ NamesFit /\ RowsResolved /\ [Next]_vars
        => NamesFit' /\ RowsResolved'
  <1> SUFFICES ASSUME StoreTypeOK, NamesFit, RowsResolved, [Next]_vars
               PROVE  NamesFit' /\ RowsResolved'
    OBVIOUS
  <1>1. ASSUME NEW p \in PostIds, NEW f \in Forms, Save(p, f)
        PROVE  NamesFit' /\ RowsResolved'
    <2>1. PICK k \in 1 .. MaxAttempts, date \in Dates :
             Put(p, f, Candidate(f, k), date)
      BY <1>1 DEF Save
    <2>2. NamesFit'
      <3>1. ASSUME NEW t \in TagSlugs, tags'[t] # Blank
            PROVE  Slugify[tags'[t]] = t
        <4>1. tags'[t] = IF t \in TagsOf(f) THEN TagName(f, t) ELSE tags[t]
          BY <2>1 DEF Put, Renamed
        <4> QED
          BY <3>1, <4>1, TagNameFits DEF NamesFit
      <3> QED
        BY <3>1 DEF NamesFit
    <2>3. RowsResolved'
      <3>1. posts'[p].slug = Candidate(f, k) /\ Acceptable(f)
        BY <1>1, <2>1 DEF Put, RowOf, StoreTypeOK, Save
      <3>2. \A q \in PostIds \ {p} : posts'[q] = posts[q]
        BY <2>1 DEF Put, StoreTypeOK
      <3> QED
        BY <3>1, <3>2 DEF RowsResolved
    <2> QED
      BY <2>2, <2>3
  <1>2. ASSUME NEW p \in PostIds, NEW st, NEW d,
               posts[p] # NoRow, SetStatusOf(p, st, d)
        PROVE  NamesFit' /\ RowsResolved'
    <2>1. posts[p] \in Row
      BY <1>2 DEF StoreTypeOK
    <2>2. posts' = [posts EXCEPT ![p] = [posts[p] EXCEPT !.status = st, !.published_at = d]]
      BY <1>2, <2>1 DEF SetStatusOf, StoreTypeOK
    <2>3. /\ posts'[p].slug = posts[p].slug
          /\ \A q \in PostIds \ {p} : posts'[q] = posts[q]
      BY <2>1, <2>2 DEF Row, StoreTypeOK
    <2> QED
      BY <1>2, <2>3 DEF SetStatusOf, NamesFit, RowsResolved
  <1>3. ASSUME NEW p \in PostIds, Remove(p)
        PROVE  NamesFit' /\ RowsResolved'
    BY <1>3 DEF Remove, StoreTypeOK, NamesFit, RowsResolved
  <1>4. CASE UNCHANGED vars
    BY <1>4 DEF vars, NamesFit, RowsResolved
  <1>5. CASE Next
    <2>1. PICK p \in PostIds :
             \/ \E f \in Forms : Create(p, f) \/ Update(p, f)
             \/ Publish(p) \/ Unpublish(p) \/ Delete(p)
      BY <1>5 DEF Next
    <2>2. CASE \E f \in Forms : Create(p, f) \/ Update(p, f)
      BY <1>1, <2>2 DEF Create, Update
    <2>3. CASE Publish(p) \/ Unpublish(p)
      BY <1>2, <2>3 DEF Publish, Unpublish
    <2>4. CASE Delete(p)
      BY <1>3, <2>4 DEF Delete
    <2> QED
      BY <2>1, <2>2, <2>3, <2>4
  <1> QED
    BY <1>4, <1>5

\* All that holds of the tables.
StoreInv ==
    StoreTypeOK /\ TagsMatchContent /\ RowsDated /\ NamesFit /\ RowsResolved

LEMMA InitStore == Init => StoreInv
  BY InitStoreType, InitTags, InitRowsDated, InitNames DEF StoreInv

LEMMA NextStoreHolds == StoreInv /\ [Next]_vars => StoreInv'
  BY NextStore, NextRowsDated, NextNames DEF StoreInv

LEMMA StoreInvHolds == Spec => []StoreInv
  BY InitStore, NextStoreHolds, PTL DEF Spec
=============================================================================

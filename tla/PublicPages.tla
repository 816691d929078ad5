----------------------------- MODULE PublicPages ------------------------------
(***************************************************************************)
(* The public pages: the home page and its further pages, a post, a tag's  *)
(* listing, the sitemap and the RSS feed, read by one visitor while the    *)
(* administration changes the store.  A page is one query for its posts,   *)
(* and on three of the pages one more query per post for its tags; the     *)
(* store may change between any two of them.  Visitors only read, so one   *)
(* visitor who goes from page to page stands for all of them.              *)
(*                                                                         *)
(* The store is BlogStore, which the admin handlers implement              *)
(* (AdminPosts, ImplementsStore): a query sees whole operations only.      *)
(***************************************************************************)
EXTENDS BlogStore, Integers, Functions

CONSTANTS
    PageSize,   \* HOME_PAGE_SIZE
    RssLimit,   \* BLOG_RSS_LIMIT
    MaxInt,     \* i64::MAX
    TypedPages, \* page numbers in the query strings visitors type
    Born,       \* Born[p]: the order of created_at, which settles ties
    MaxChanges  \* bound on the operations on the store in one behaviour

ASSUME PagesAssumption ==
    /\ MaxInt \in Nat \ {0}
    /\ PageSize \in 1 .. MaxInt /\ RssLimit \in 0 .. (2 * MaxInt + 1)
    /\ TypedPages \subseteq (-MaxInt - 1) .. MaxInt
    /\ MaxChanges \in Nat
    /\ Born \in [PostIds -> Nat]
    /\ \A p, q \in PostIds : p # q => Born[p] # Born[q]

\* A walk along all posts ends before the integers do.
ASSUME RoomAssumption == Cardinality(PostIds) + PageSize <= MaxInt

VARIABLES
    pc,       \* where the handler of the visitor's request is
    asked,    \* the page the visitor asked for last
    entries,  \* the posts on it, each as its query returned it
    done      \* how many of them have their tags

visitor == <<pc, asked, entries, done>>

VARIABLES
    \* what happened since the query for the posts of the page ...
    touched,  \* posts that were changed
    public,   \* public[p]: the tags p has had while it was published
    \* ... and since the visitor opened the home page
    walked,   \* the posts listed since, page after page
    stayed,   \* posts published all the time, with one date
    left,     \* a published post was withdrawn, deleted or dated anew
    joined,   \* a post was published or dated anew
    above,    \* on a home page: the published posts before its first
    changes   \* operations on the store so far

history == <<touched, public, walked, stayed, left, joined, above>>
pageVars == <<posts, tags, links, pc, asked, entries, done,
              touched, public, walked, stayed, left, joined, above, changes>>

----------------------------------------------------------------------------
(* The queries.                                                            *)

Published == {p \in PostIds : posts[p] # NoRow /\ posts[p].status = "published"}

\* ORDER BY published_at DESC, created_at DESC.
Newer(p, q) ==
    \/ posts[p].published_at > posts[q].published_at
    \/ posts[p].published_at = posts[q].published_at /\ Born[p] > Born[q]

NewestFirst(S) ==
    [n \in 1 .. Cardinality(S) |->
        CHOOSE p \in S : Cardinality({q \in S : Newer(q, p)}) = n - 1]

AtLeastOne(n) == IF n < 1 THEN 1 ELSE n

\* Two's complement: what a release build keeps of a result, and of a usize
\* taken for an i64.
Wrapped(n) == ((n + MaxInt + 1) % (2 * (MaxInt + 1))) - MaxInt - 1

\* Faulty variant: pages are counted from 0 here and from 1 by the handler
OffsetFromZero(page, size) == Wrapped(page * size)

\* Faulty variant: the pages overlap
OffsetOverlapping(page, size) == Wrapped((page - 1) * (size - 1))

Offset(page, size) == Wrapped((page - 1) * size)

\* Faulty variant: one row more, to see whether there is a next page
ListOneMore(page, perPage) ==
    LET all == NewestFirst(Published)
        size == AtLeastOne(perPage)
        from == Offset(AtLeastOne(page), size)
        last == from + size + 1
    IN SubSeq(all, from + 1, IF last < Len(all) THEN last ELSE Len(all))

\* PostgreSQL refuses a negative OFFSET.  Without the wrapping, in a debug
\* build, the handler panics before the query: neither gives a page.
Refused(page, perPage) == Offset(AtLeastOne(page), AtLeastOne(perPage)) < 0

\* list_published, when it is not refused.
ListPublished(page, perPage) ==
    LET all == NewestFirst(Published)
        size == AtLeastOne(perPage)
        from == Offset(AtLeastOne(page), size)
        last == from + size
    IN SubSeq(all, from + 1, IF last < Len(all) THEN last ELSE Len(all))

\* posts_by_tag_slug.
PostsByTag(t) == NewestFirst({p \in Published : <<p, t>> \in links})

Entry(p) == [post |-> p, row |-> posts[p], tags |-> {}]

----------------------------------------------------------------------------
(* The requests of the visitor.                                            *)

Nothing == [kind |-> "nothing", arg |-> 0]

\* A handler that has its posts goes on to their tags, or answers.
List(page, ps, place) ==
    /\ asked' = page
    /\ entries' = [i \in DOMAIN ps |-> Entry(ps[i])]
    /\ done' = 0
    /\ pc' = IF ps = <<>> THEN "shown" ELSE place
    /\ touched' = {}
    /\ public' = [p \in PostIds |-> IF p \in Published THEN TagSet(p) ELSE {}]
    /\ UNCHANGED <<posts, tags, links, changes>>

NotFound(page) ==
    /\ asked' = page /\ entries' = <<>> /\ done' = 0
    /\ pc' = "not_found"
    /\ UNCHANGED <<posts, tags, links, changes, history>>

SameWalk == UNCHANGED <<walked, stayed, left, joined, above>>

\* A query fails, or the handler panics: the generic error page, or none.
FailPage ==
    /\ pc' = "error" /\ asked' = Nothing /\ entries' = <<>> /\ done' = 0
    /\ UNCHANGED <<posts, tags, links, changes, history>>

NewerThan(p) == {q \in Published : Newer(q, p)}

\* Page n of the home page is listed, posts ps.
ListHome(n, ps) ==
    /\ List([kind |-> "home", arg |-> n], ps, "tags")
    /\ above' = IF ps = <<>> THEN 0 ELSE Cardinality(NewerThan(ps[1]))

\* The home page of page number n, 1 when the query string has none.
OpenHome(n) ==
    /\ pc # "tags"
    /\ IF Refused(n, PageSize) THEN FailPage
       ELSE LET page == AtLeastOne(n)
                ps == ListPublished(page, PageSize) IN
            /\ ListHome(page, ps)
            /\ walked' = ps
            /\ stayed' = {p \in Published :
                            Cardinality(NewerThan(p)) >= (page - 1) * PageSize}
            /\ left' = FALSE /\ joined' = FALSE

\* Faulty variant: a full page is taken for the last one
NextPageOffersNone == Len(entries) > PageSize

\* next_page of the home page: the page is full.
NextPageOffered == Len(entries) = PageSize

\* The visitor follows the link to the next page.
FollowNext ==
    /\ pc = "shown" /\ asked.kind = "home" /\ NextPageOffered
    /\ LET n == AtLeastOne(Wrapped(asked.arg + 1))
           ps == ListPublished(n, PageSize) IN
       IF Refused(n, PageSize) THEN FailPage
       ELSE /\ ListHome(n, ps)
            /\ walked' = walked \o ps
            /\ UNCHANGED <<stayed, left, joined>>

\* Faulty variant: the status of the post is not looked at
OpenPostAnyStatus(s) ==
    /\ pc # "tags"
    /\ LET page == [kind |-> "post", arg |-> s] IN
       \/ \E p \in FoundBySlug(s) : List(page, <<p>>, "tags") /\ SameWalk
       \/ FoundBySlug(s) = {} /\ NotFound(page)

OpenPost(s) ==
    /\ pc # "tags"
    /\ LET page == [kind |-> "post", arg |-> s] IN
       \/ \E p \in FoundBySlug(s) \cap Published :
             List(page, <<p>>, "tags") /\ SameWalk
       \/ FoundBySlug(s) \cap Published = {} /\ NotFound(page)

OpenTag(t) ==
    /\ pc # "tags"
    /\ LET page == [kind |-> "tag", arg |-> t]
           ps == PostsByTag(t) IN
       IF ps = <<>> THEN NotFound(page) ELSE List(page, ps, "tags") /\ SameWalk

\* list_all_admin, of which the published posts are kept.  Their order is
\* that of updated_at, which is not modelled.
OpenSitemap ==
    /\ pc # "tags"
    /\ List([kind |-> "sitemap", arg |-> 0], NewestFirst(Published), "shown")
    /\ SameWalk

OpenRss ==
    /\ pc # "tags"
    /\ List([kind |-> "rss", arg |-> 0],
            ListPublished(1, Wrapped(RssLimit)), "shown")
    /\ SameWalk

\* Faulty variant: the tags of the first post are shown with every post
ReadTagsOfFirst ==
    /\ pc = "tags"
    /\ entries' = [entries EXCEPT ![done + 1].tags = TagSet(entries[1].post)]
    /\ done' = done + 1
    /\ pc' = IF done' = Len(entries) THEN "shown" ELSE "tags"
    /\ UNCHANGED <<posts, tags, links, changes, asked, history>>

\* One list_for_post; the last one completes the page.
ReadTags ==
    /\ pc = "tags"
    /\ entries' = [entries EXCEPT ![done + 1].tags = TagSet(entries[done + 1].post)]
    /\ done' = done + 1
    /\ pc' = IF done' = Len(entries) THEN "shown" ELSE "tags"
    /\ UNCHANGED <<posts, tags, links, changes, asked, history>>

----------------------------------------------------------------------------
(* An operation of the administration, and what the history keeps of it.   *)

Redated == {p \in PostIds : posts[p] # NoRow /\ posts'[p] # NoRow
                             /\ posts'[p].published_at # posts[p].published_at}

Change ==
    /\ changes < MaxChanges /\ changes' = changes + 1
    /\ Next
    /\ touched' = touched \cup
          {p \in PostIds : posts'[p] # posts[p] \/ TagSet(p)' # TagSet(p)}
    /\ public' = [p \in PostIds |->
                    public[p] \cup (IF p \in Published' THEN TagSet(p)' ELSE {})]
    /\ stayed' = (stayed \cap Published') \ Redated
    /\ left' = (left \/ Published \cap (Redated \cup (PostIds \ Published')) # {})
    /\ joined' = (joined \/ Published' \cap (Redated \cup (PostIds \ Published)) # {})
    /\ UNCHANGED <<visitor, walked, above>>

PagesInit ==
    /\ Init
    /\ pc = "idle" /\ asked = Nothing /\ entries = <<>> /\ done = 0
    /\ touched = {} /\ public = [p \in PostIds |-> {}]
    /\ walked = <<>> /\ stayed = {} /\ left = FALSE /\ joined = FALSE
    /\ above = 0 /\ changes = 0

PagesNext ==
    \/ \E n \in TypedPages \cup {1} : OpenHome(n)
    \/ FollowNext
    \/ \E s \in Slugs : OpenPost(s)
    \/ \E t \in TagSlugs : OpenTag(t)
    \/ OpenSitemap \/ OpenRss
    \/ ReadTags \/ FailPage
    \/ Change

PagesSpec == PagesInit /\ [][PagesNext]_pageVars

----------------------------------------------------------------------------
(* Properties.                                                             *)

\* Types of the variables; the home page has at most PageSize posts.
PagesTypeOK ==
    /\ pc \in {"idle", "tags", "shown", "not_found", "error"}
    /\ asked.kind \in {"nothing", "home", "post", "tag", "sitemap", "rss"}
    /\ entries \in Seq([post : PostIds, row : Row, tags : SUBSET TagSlugs])
    /\ asked.kind = "home" => Len(entries) <= PageSize
    /\ done \in 0 .. Len(entries) /\ above \in Nat
    /\ pc = "tags" => done < Len(entries)

\* Every post on a public page was published when its row was read, and had
\* its publication date: published_at.unwrap_or(created_at) in the handlers
\* never falls back on created_at.
OnlyPublishedShown ==
    \A i \in DOMAIN entries :
        entries[i].row.status = "published" /\ entries[i].row.published_at # NoDate

\* A page shows a post with the tags of the very form its text came from,
\* and a tag's page lists posts that carry the tag, unless the post was
\* changed between the two queries.
TornOnlyByChange ==
    \A i \in 1 .. done :
        LET e == entries[i] IN
        \/ e.post \in touched
        \/ /\ \E f \in Forms : e.row.content = Content(f) /\ e.tags = TagsOf(f)
           /\ asked.kind = "tag" => asked.arg \in e.tags

\* The visitor has come to the last page of the home page.
WalkDone == asked.kind = "home" /\ pc = "shown" /\ ~NextPageOffered

\* Page n of the home page begins after the posts of the n - 1 pages before
\* it, for every page number typed by hand.  Beyond the last number whose
\* offset fits in an i64 a page may show posts of another page.
PageInPlace ==
    LET before == (asked.arg - 1) * PageSize IN
    asked.kind = "home" /\ entries # <<>> /\ before <= MaxInt => above = before

\* A visitor who opens a page and follows the next-page links to the end sees
\* every post from there on that was published all the time, unless a
\* published post went away or moved in the meantime: OFFSET then skips one.
\* New posts alone make none missed.
NothingMissed == WalkDone /\ ~left => stayed \subseteq Range(walked)

\* No post is on two of the pages, unless a post was published or moved in
\* the meantime.  Withdrawals and deletions alone repeat none.
NothingTwice == asked.kind = "home" /\ ~joined => IsInjective(walked)

\* PRODUCT.md: "Public content only shows published posts; drafts remain
\* admin-only".  No tag is shown that the post had only as a draft.
DraftTagsHidden ==
    \A i \in 1 .. done : entries[i].tags \subseteq public[entries[i].post]

\* README.md: BLOG_RSS_LIMIT is the "maximum number of published posts
\* included in the RSS feed".
FeedWithinLimit == asked.kind = "rss" => Len(entries) <= RssLimit
=============================================================================

----------------------------- MODULE BlogStore ------------------------------
(***************************************************************************)
(* What the post administration promises to whoever looks at the database: *)
(* a set of posts, each with its tags, that changes only by whole          *)
(* operations.  A save writes a post, the names of its tags and its links  *)
(* in one step; publishing, withdrawing and deleting are one step each.    *)
(* AdminPosts, the handlers as they run, implements this specification.    *)
(***************************************************************************)
EXTENDS BlogData

VARIABLES
    posts,  \* posts[p]: the row of post p, or NoRow
    tags,   \* tags[t]: the name of the tag with slug t, Blank if no row
    links   \* post_tags: pairs <<post, tag slug>>

vars == <<posts, tags, links>>

\* The row a save of form f stores under slug s.
RowOf(f, s, date) ==
    [slug |-> s, content |-> Content(f), status |-> f.status,
     published_at |-> date]

\* list_for_post.
TagSet(p) == {l[2] : l \in {m \in links : m[1] = p}}

\* find_by_slug.
FoundBySlug(s) == {p \in PostIds : posts[p] # NoRow /\ posts[p].slug = s}

----------------------------------------------------------------------------
(* The database after some posts were created one after the other.  A tag  *)
(* that several of them use carries the spelling of whichever came last.   *)

Init ==
    /\ posts = [p \in PostIds |->
                  IF p \in Existing
                  THEN LET f == SeedForm[p] IN
                       RowOf(f, BaseSlug(f), Stamp(f.status, NoDate, 1))
                  ELSE NoRow]
    /\ links = {l \in Existing \X TagSlugs : l[2] \in TagsOf(SeedForm[l[1]])}
    /\ tags \in [TagSlugs -> Texts]
    /\ \A t \in TagSlugs :
          LET users == {p \in Existing : t \in TagsOf(SeedForm[p])} IN
          IF users = {} THEN tags[t] = Blank
          ELSE \E p \in users : tags[t] = TagName(SeedForm[p], t)

----------------------------------------------------------------------------
(* What one saved form does to the three tables.                           *)

Dated(status, date) == (status = "published") <=> (date # NoDate)

Unused(p, s) == \A q \in PostIds \ {p} : posts[q] # NoRow => posts[q].slug # s

\* Faulty variant: the old links are not deleted
RetaggedAppends(p, ts) == links \cup ({p} \X ts)

Retagged(p, ts) == {l \in links : l[1] # p} \cup ({p} \X ts)

Renamed(f) ==
    [t \in TagSlugs |-> IF t \in TagsOf(f) THEN TagName(f, t) ELSE tags[t]]

\* Post p becomes what form f says, under slug s.
Put(p, f, s, date) ==
    /\ posts' = [posts EXCEPT ![p] = RowOf(f, s, date)]
    /\ tags' = Renamed(f)
    /\ links' = Retagged(p, TagsOf(f))

\* Only the status and its date change.
SetStatusOf(p, status, date) ==
    /\ posts' = [posts EXCEPT ![p].status = status, ![p].published_at = date]
    /\ UNCHANGED <<tags, links>>

\* The post goes with its links (ON DELETE CASCADE); tags stay.
Remove(p) ==
    /\ posts' = [posts EXCEPT ![p] = NoRow]
    /\ links' = Retagged(p, {})
    /\ tags' = tags

----------------------------------------------------------------------------

\* A new post, or a new version of one, from an acceptable form.
Save(p, f) ==
    /\ Acceptable(f)
    /\ \E k \in 1 .. MaxAttempts, date \in Dates :
          /\ Unused(p, Candidate(f, k))
          /\ Dated(f.status, date)
          /\ Put(p, f, Candidate(f, k), date)

Create(p, f) == posts[p] = NoRow /\ p \in Requests /\ Save(p, f)
Update(p, f) == posts[p] # NoRow /\ Save(p, f)

Publish(p) ==
    /\ posts[p] # NoRow
    /\ \E date \in Dates \ {NoDate} : SetStatusOf(p, "published", date)

Unpublish(p) ==
    /\ posts[p] # NoRow
    /\ SetStatusOf(p, "draft", NoDate)

Delete(p) == posts[p] # NoRow /\ Remove(p)

Next ==
    \E p \in PostIds :
        \/ \E f \in Forms : Create(p, f) \/ Update(p, f)
        \/ Publish(p)
        \/ Unpublish(p)
        \/ Delete(p)

Spec == Init /\ [][Next]_vars

----------------------------------------------------------------------------

\* The tags of a post are those of the very form its text came from: no
\* reader can find the text of one save with the tags of another, and a
\* deleted post leaves no links.
TagsMatchContent ==
    \A p \in PostIds :
        IF posts[p] = NoRow THEN TagSet(p) = {}
        ELSE \E f \in Forms :
                /\ posts[p].content = Content(f)
                /\ TagSet(p) = TagsOf(f)
                /\ \A t \in TagSet(p) : tags[t] # Blank
=============================================================================

------------------------------- MODULE Editing -------------------------------
(***************************************************************************)
(* What administrators do around AdminPosts: they open the edit form, the  *)
(* dashboard or the delete confirmation, and send a request from it much   *)
(* later.  Such a page is a snapshot: the edit form is filled from the     *)
(* post (load_post) and, in a second query, from its tags (list_for_post), *)
(* nothing ties it to the row it came from, and other requests run in      *)
(* between.  A request that was answered with an error is sent again, a    *)
(* form that was rejected is corrected and sent again.                     *)
(***************************************************************************)
EXTENDS AdminPosts

CONSTANTS
    Typed,     \* the forms written on the empty form of a new post
    SlugText,  \* SlugText[s]: the text in the slug field for slug s
    ByName     \* ByName[n]: the place of a tag's name n in ORDER BY t.name

ASSUME EditingAssumption ==
    /\ Forms \subseteq [title : Texts, slug : Texts, tags : Seq(Texts),
                        body : Texts, status : STRING]
    /\ Typed \subseteq Forms
    /\ ByName \in [Texts -> Nat]
    /\ \A m, n \in Texts : m # n => ByName[m] # ByName[n]

\* The text of a slug that was saved has that slug (SavedSlugStays in
\* Slugify).
ASSUME SlugTextAssumption ==
    \A f \in Forms, k \in 1 .. MaxAttempts :
        Acceptable(f) =>
            /\ SlugText[Candidate(f, k)] # Blank
            /\ Slugify[SlugText[Candidate(f, k)]] = Candidate(f, k)

VARIABLES
    desk,  \* desk[r]: the page request r is sent from
    \* what happened to the page's post, for the properties only:
    edited,  \* edited[r]: the fields in which the form sent differs from
             \* the form that was opened
    stale,   \* stale[r]: someone else changed the post or its tags since
             \* the first query of the page
    took,    \* took[r]: the write of r took effect ("yes"), and someone else
             \* has changed its post since ("overtaken")
    again    \* again[r]: the request that r repeats, r itself if none

past == <<edited, stale, took, again>>
editVars == <<posts, tags, links, clock, call, pc, local,
              desk, edited, stale, took, again>>

Fields == {"title", "slug", "tags", "body", "status"}

Differences(f, g) == {x \in Fields : f[x] # g[x]}

\* CreatePostFormData::default.
EmptyForm ==
    [title |-> Blank, slug |-> Blank, tags |-> <<>>, body |-> Blank,
     status |-> "draft"]

\* row: the row the page shows; form: what its input fields hold.
NoPage(r) == [page |-> "none", post |-> r, row |-> NoRow, form |-> NoForm]

Page(page, p) == [page |-> page, post |-> p, row |-> posts[p], form |-> NoForm]

----------------------------------------------------------------------------
(* The form that shows a post.                                             *)

\* tags_csv, the names joined with commas, by its entries.
TagsCsv(p) ==
    LET before(t) == {u \in TagSet(p) : ByName[tags[u]] < ByName[tags[t]]} IN
    [n \in 1 .. Cardinality(TagSet(p)) |->
        tags[CHOOSE t \in TagSet(p) : Cardinality(before(t)) = n - 1]]

\* Faulty variant: the status is always preset to published
FormShowingPublished(row, csv) ==
    [title |-> row.content[1], slug |-> SlugText[row.slug], tags |-> csv,
     body |-> row.content[2], status |-> "published"]

FormShowing(row, csv) ==
    [title |-> row.content[1], slug |-> SlugText[row.slug], tags |-> csv,
     body |-> row.content[2], status |-> row.status]

\* AdminPostFormTemplate: of the status field, either option is selected.
Filled(form) ==
    [form EXCEPT !.status = IF @ = "published" THEN "published" ELSE "draft"]

\* A form that was sent can come back on a page and be sent as it is.
ASSUME FilledAssumption == \A f \in Forms : Filled(f) \in Forms

----------------------------------------------------------------------------
(* Opening a page.  Only one that is found is kept: the others are a 404.  *)

AtDesk(r) == desk[r].page = "none" /\ pc[r] = "idle"

Show(r, page) == desk' = [desk EXCEPT ![r] = page]

SameAdmin == UNCHANGED allVars

OpenNew(r) ==
    /\ AtDesk(r) /\ "create" \in Ops
    /\ Show(r, [NoPage(r) EXCEPT !.page = "new", !.form = EmptyForm])
    /\ SameAdmin

\* edit_post_form up to its second query.
OpenEdit(r, p) ==
    /\ AtDesk(r) /\ PoolFree /\ "update" \in Ops
    /\ p # r /\ posts[p] # NoRow
    /\ Show(r, Page("row", p))
    /\ SameAdmin

\* build_post_form_data.  Forms bounds the forms that are looked at.
FillTags(r) ==
    /\ desk[r].page = "row" /\ PoolFree
    /\ LET shown == Filled(FormShowing(desk[r].row, TagsCsv(desk[r].post))) IN
       /\ shown \in Forms
       /\ Show(r, [desk[r] EXCEPT !.page = "form", !.form = shown])
    /\ SameAdmin

\* admin_home: of its list, the entry whose button will be pressed.
OpenDashboard(r, p) ==
    /\ AtDesk(r) /\ PoolFree /\ Ops \cap {"publish", "unpublish"} # {}
    /\ p # r /\ posts[p] # NoRow
    /\ Show(r, Page("dashboard", p))
    /\ SameAdmin

\* delete_post_confirm.
OpenDeleteConfirm(r, p) ==
    /\ AtDesk(r) /\ PoolFree /\ "delete" \in Ops
    /\ p # r /\ posts[p] # NoRow
    /\ Show(r, Page("confirm", p))
    /\ SameAdmin

Open(r) ==
    /\ \/ OpenNew(r)
       \/ \E p \in PostIds :
             OpenEdit(r, p) \/ OpenDashboard(r, p) \/ OpenDeleteConfirm(r, p)
    /\ UNCHANGED past

\* Faulty variant: the page comes back without its fields
CorrectLosesForm(q, r) ==
    /\ AtDesk(q) /\ pc[r] = "invalid"
    /\ Show(q, [desk[r] EXCEPT !.form = NoForm])
    /\ edited' = [edited EXCEPT ![q] = edited[r]]
    /\ stale' = [stale EXCEPT ![q] = stale[r]]
    /\ SameAdmin /\ UNCHANGED <<took, again>>

\* A form that was answered 422 comes back with its fields as they were
\* sent, and is sent as request q once it is corrected.
Correct(q, r) ==
    /\ AtDesk(q) /\ pc[r] = "invalid"
    /\ LET page == [desk[r] EXCEPT !.form = Filled(call[r].form)] IN
       Show(q, IF page.page = "new" THEN [page EXCEPT !.post = q] ELSE page)
    /\ edited' = [edited EXCEPT ![q] = edited[r]]
    /\ stale' = [stale EXCEPT ![q] = stale[r]]
    /\ SameAdmin /\ UNCHANGED <<took, again>>

----------------------------------------------------------------------------
(* Sending it.                                                             *)

Sends(r, c) == c \in Calls(r) /\ Arrive(r, c)

SubmitNew(r) ==
    /\ desk[r].page = "new"
    /\ \E f \in Typed : Sends(r, [op |-> "create", post |-> r, form |-> f])
    /\ UNCHANGED <<desk, past>>

\* One field at most is edited between two submissions.
SubmitEdit(r) ==
    /\ desk[r].page = "form"
    /\ \E f \in Forms :
          LET typed == Differences(desk[r].form, f) IN
          /\ Cardinality(typed) <= 1
          /\ Sends(r, [op |-> "update", post |-> desk[r].post, form |-> f])
          /\ edited' = [edited EXCEPT ![r] = @ \cup typed]
    /\ UNCHANGED <<desk, stale, took, again>>

\* The button of a dashboard entry, named after the status it shows.
PressToggle(r) ==
    /\ desk[r].page = "dashboard"
    /\ Sends(r, [op |-> IF desk[r].row.status = "published"
                        THEN "unpublish" ELSE "publish",
                 post |-> desk[r].post, form |-> NoForm])
    /\ UNCHANGED <<desk, past>>

PressDelete(r) ==
    /\ desk[r].page = "confirm"
    /\ Sends(r, [op |-> "delete", post |-> desk[r].post, form |-> NoForm])
    /\ UNCHANGED <<desk, past>>

\* After an error page the same request is sent again, as q.
SendAgain(q, r) ==
    /\ AtDesk(q) /\ pc[r] = "error"
    /\ Sends(q, [call[r] EXCEPT !.post = IF call[r].op = "create" THEN q ELSE @])
    /\ Show(q, desk[r])
    /\ edited' = [edited EXCEPT ![q] = edited[r]]
    /\ stale' = [stale EXCEPT ![q] = stale[r]]
    /\ again' = [again EXCEPT ![q] = r]
    /\ UNCHANGED took

Send(r) == SubmitNew(r) \/ SubmitEdit(r) \/ PressToggle(r) \/ PressDelete(r)

----------------------------------------------------------------------------
(* The handlers run, and the history keeps what they did to the posts.     *)

\* The posts that the step changes, or whose tags it renames.
Touched ==
    {p \in PostIds :
        \/ posts'[p] # posts[p]
        \/ links' # links /\ TagSet(p)' # TagSet(p)
        \/ tags' # tags /\ \E t \in TagSet(p) : tags'[t] # tags[t]}

Handle(r) ==
    /\ \/ Step(r) \/ Fail(r) \/ CommitUnacked(r) \/ WriteUnacked(r)
       \/ DeadlockVictim(r)
    /\ LET touched == Touched IN
       /\ stale' = [q \in Requests |->
                       \/ stale[q]
                       \/ q # r /\ desk[q].page # "none" /\ desk[q].post \in touched]
       /\ took' = [q \in Requests |->
                      IF q = r
                      THEN IF Apply(r) \/ WriteApplies(r) THEN "yes" ELSE took[r]
                      ELSE IF took[q] = "yes" /\ call[q].post \in touched
                           THEN "overtaken" ELSE took[q]]
    /\ UNCHANGED <<desk, edited, again>>

EditInit ==
    /\ AdminInit
    /\ desk = [r \in Requests |-> NoPage(r)]
    /\ edited = [r \in Requests |-> {}]
    /\ stale = [r \in Requests |-> FALSE]
    /\ took = [r \in Requests |-> "no"]
    /\ again = [r \in Requests |-> r]

EditNext ==
    \E r \in Requests :
        \/ Open(r)
        \/ FillTags(r) /\ UNCHANGED past
        \/ Send(r)
        \/ Handle(r)
        \/ \E q \in Requests : Correct(q, r) \/ SendAgain(q, r)

EditSpec == EditInit /\ [][EditNext]_editVars

----------------------------------------------------------------------------
(* Properties.                                                             *)

\* Types of the pages; a form that is shown, or shown again after it was
\* rejected, has its fields.
EditTypeOK ==
    /\ \A r \in Requests :
          /\ desk[r].page \in {"none", "new", "row", "form", "dashboard", "confirm"}
          /\ desk[r].post \in PostIds
          /\ desk[r].row \in Row \cup {NoRow}
          /\ desk[r].form \in IF desk[r].page \in {"new", "form"}
                             THEN Forms \cup {EmptyForm} ELSE {NoForm}
          /\ again[r] \in Requests
    /\ edited \in [Requests -> SUBSET Fields]
    /\ stale \in [Requests -> BOOLEAN]
    /\ took \in [Requests -> {"no", "yes", "overtaken"}]

\* The write of request r is what changes the database in this step.
Writes(r) == pc'[r] # pc[r] /\ (Apply(r) \/ WriteApplies(r))

\* Saving an edit form changes nothing but the fields its author edited, as
\* long as nobody else changed the post or its tags since the form was
\* opened, also when the request is a repeated one: what was not typed makes
\* the way from the tables into the form, through slugify, parse_tags and the
\* date, and back unchanged.
OnlyEditsChange ==
    [][\A r \in Requests :
          LET p == call[r].post IN
          Writes(r) /\ call[r].op = "update" /\ ~stale[r] =>
            /\ "title" \notin edited[r] => posts'[p].content[1] = posts[p].content[1]
            /\ "body" \notin edited[r] => posts'[p].content[2] = posts[p].content[2]
            /\ "slug" \notin edited[r] => posts'[p].slug = posts[p].slug
            /\ "status" \notin edited[r] =>
                  /\ posts'[p].status = posts[p].status
                  /\ posts'[p].published_at = posts[p].published_at
            /\ "tags" \notin edited[r] => links' = links /\ tags' = tags]_editVars

\* A save, a publish, a withdrawal or a deletion that took effect although
\* it was answered with an error may be sent again: it changes nothing any
\* more, unless someone else changed the post meanwhile.  Only the slug may
\* move, when the one the form asks for was taken and has become free.  A
\* creation is left out: sent again it makes a second post, under the next
\* free slug, and nothing in the code prevents that.
RetryChangesNothing ==
    [][\A q \in Requests :
          LET p == call[q].post IN
          Writes(q) /\ call[q].op # "create" /\ again[q] # q /\ took[again[q]] = "yes" =>
            /\ tags' = tags /\ links' = links
            /\ \A o \in PostIds \ {p} : posts'[o] = posts[o]
            /\ \/ posts'[p] = posts[p]
               \/ /\ call[q].op = "update"
                  /\ posts[p].slug # BaseSlug(call[q].form)
                  /\ posts'[p] = [posts[p] EXCEPT !.slug = posts'[p].slug]]_editVars

\* A draft is published only by someone who meant it: by the Publish button
\* of a page that showed a draft, by an author who chose the status, or by a
\* form opened while the post was published, before it was withdrawn.
PublishedKnowingly ==
    [][\A p \in PostIds :
          /\ posts[p] # NoRow /\ posts'[p] # NoRow
          /\ posts[p].status = "draft" /\ posts'[p].status = "published"
          => \E r \in Requests :
                /\ Writes(r) /\ call[r].post = p
                /\ \/ call[r].op = "publish" /\ desk[r].row.status = "draft"
                   \/ "status" \in edited[r]
                   \/ desk[r].row.status = "published" /\ stale[r]]_editVars
=============================================================================

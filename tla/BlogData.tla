------------------------------ MODULE BlogData ------------------------------
(***************************************************************************)
(* The data of the blog's post administration: the form an administrator   *)
(* submits, the slug and the tags the handlers derive from it, and the row *)
(* that is stored.  Pure definitions, shared by the abstract store         *)
(* (BlogStore) and by the handlers (AdminPosts).                           *)
(*                                                                         *)
(* Texts are opaque: title, slug override, tag names and body are members  *)
(* of Texts as they are after trim(), and Slugify gives what slugify()     *)
(* returns for each of them, a sequence of the words between the hyphens.  *)
(* NoSlug stands for the error it returns for a text without letters or    *)
(* digits.                                                                 *)
(***************************************************************************)
EXTENDS Naturals, Sequences, FiniteSets

CONSTANTS
    Existing,    \* the posts in the database when the observation starts
    Requests,    \* the admin requests; the UUID that create_post draws in
                 \* request r is r itself, so ids are fresh
    Texts,       \* trimmed field texts
    Slugify,     \* text -> slug, NoSlug when it is rejected
    Forms,       \* the forms that are submitted
    SeedForm,    \* the form each post of Existing was created from
    NoForm,      \* "no form": the request carries only a post id
    NoRow,       \* "no row": the post does not exist
    MaxAttempts, \* MAX_UNIQUENESS_ATTEMPTS
    MaxDate      \* bound on the clock readings (Utc::now) of one behaviour

Blank == ""
NoSlug == <<>>
NoDate == 0

PostIds == Existing \cup Requests
Statuses == {"draft", "published"}
Dates == 0 .. MaxDate

----------------------------------------------------------------------------
(* Validation and slug of a form.                                          *)

\* The checks the handlers make before their first await after the form is
\* in hand: a title, a body, a known status.
HasText(f) ==
    /\ f.title # Blank
    /\ f.body # Blank
    /\ f.status \in Statuses

\* The slug override if one was given, the title otherwise.
SlugSource(f) == IF f.slug # Blank THEN f.slug ELSE f.title

BaseSlug(f) == Slugify[SlugSource(f)]

\* The k-th slug resolve() tries: the base slug, then base-2, base-3, ...
Candidate(f, k) == IF k = 1 THEN BaseSlug(f) ELSE Append(BaseSlug(f), k)

----------------------------------------------------------------------------
(* Tags of a form.  f.tags is tags_csv split at its commas and trimmed.    *)

Named(f) == {i \in DOMAIN f.tags : f.tags[i] # Blank}

TagsParse(f) == \A i \in Named(f) : Slugify[f.tags[i]] # NoSlug

\* The entries parse_tags keeps: of those with one slug, the first.
FirstUses(f) ==
    {i \in Named(f) :
        \A j \in Named(f) : j < i => Slugify[f.tags[j]] # Slugify[f.tags[i]]}

TagSlug(f, i) == Slugify[f.tags[i]]
TagsOf(f) == {TagSlug(f, i) : i \in FirstUses(f)}
TagName(f, t) == f.tags[CHOOSE i \in FirstUses(f) : TagSlug(f, i) = t]

----------------------------------------------------------------------------
(* Rows.  content stands for the columns every save rewrites together      *)
(* (title, body_md, body_html, excerpt); created_at and updated_at are     *)
(* left out, no property reads them.                                       *)

Content(f) == <<f.title, f.body>>

Acceptable(f) == HasText(f) /\ BaseSlug(f) # NoSlug /\ TagsParse(f)

Slugs == {Candidate(f, k) : f \in Forms, k \in 1 .. MaxAttempts}
TagSlugs == UNION {TagsOf(f) : f \in Forms}

Row == [slug : Slugs, content : {Content(f) : f \in Forms},
        status : Statuses, published_at : Dates]

\* Faulty variant: the date that was loaded is not kept
StampDropsOld(status, old, now) == IF status = "draft" THEN NoDate ELSE now

\* Faulty variant: a draft keeps the date it had
StampKeepsOld(status, old, now) == IF old # NoDate \/ status = "draft" THEN old ELSE now

\* published_at as the handlers compute it: none for a draft, the date that
\* was loaded if there is one, the clock otherwise.
Stamp(status, old, now) ==
    IF status = "draft" THEN NoDate
    ELSE IF old # NoDate THEN old
    ELSE now

----------------------------------------------------------------------------
(* Assumptions on the constants.                                           *)

ASSUME IdsAssumption ==
    /\ Existing \cap Requests = {}
    /\ IsFiniteSet(PostIds)

ASSUME BoundsAssumption ==
    /\ MaxAttempts \in Nat \ {0}
    /\ MaxDate \in Nat
    /\ MaxDate > Cardinality(Requests)

ASSUME FormsAssumption ==
    /\ Blank \in Texts
    /\ \A f \in Forms :
          /\ {f.title, f.slug, f.body} \subseteq Texts
          /\ f.tags \in Seq(Texts)
    /\ NoForm \notin Forms

\* The posts of Existing were created one after the other by create_post.
ASSUME SeedAssumption ==
    /\ SeedForm \in [Existing -> Forms]
    /\ \A p \in Existing : Acceptable(SeedForm[p])
    /\ \A p, q \in Existing :
          p # q => BaseSlug(SeedForm[p]) # BaseSlug(SeedForm[q])

ASSUME RowAssumption == NoRow \notin Row
=============================================================================

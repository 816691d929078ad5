---------------------------- MODULE Editing_proofs ----------------------------
(***************************************************************************)
(* Theorems about Editing.  Its pages are added to AdminPosts, so what is  *)
(* proved of the handlers holds of whatever is sent from the pages.        *)
(*                                                                         *)
(* EditInv ties a request to the page it was sent from.  RoundTrips        *)
(* follows a post from its rows into a form, through the handler and back, *)
(* for as long as nobody disturbs it: hence nothing changes that was not   *)
(* edited, and a repetition changes nothing.                               *)
(***************************************************************************)
EXTENDS Editing, AdminPosts_proofs

\* A page that is sent is the arrival of a request.
LEMMA SendIsReceive ==
    ASSUME NEW r \in Requests, Send(r)
    PROVE  Receive(r)
  BY DEF Send, SubmitNew, SubmitEdit, PressToggle, PressDelete, Sends, Receive

LEMMA SendAgainIsReceive ==
    ASSUME NEW q \in Requests, NEW r \in Requests, SendAgain(q, r)
    PROVE  Receive(q)
  BY DEF SendAgain, Sends, Receive

\* Looking at a page changes nothing.
LEMMA LookingIsStutter ==
    ASSUME NEW r \in Requests, NEW q \in Requests,
           Open(r) \/ FillTags(r) \/ Correct(q, r)
    PROVE  UNCHANGED allVars
  BY DEF Open, OpenNew, OpenEdit, OpenDashboard, OpenDeleteConfirm, FillTags,
         Correct, SameAdmin

\* What happens at the desks is, for the handlers, an action or a stutter.
LEMMA EditStepIsAdminStep ==
    ASSUME [EditNext]_editVars
    PROVE  [AdminNext]_allVars
  <1>1. CASE UNCHANGED editVars
    BY <1>1 DEF editVars, allVars
  <1>2. ASSUME NEW r \in Requests, Open(r) \/ FillTags(r)
        PROVE  [AdminNext]_allVars
    BY <1>2, LookingIsStutter
  <1>3. ASSUME NEW r \in Requests, Send(r)
        PROVE  AdminNext
    BY <1>3, SendIsReceive DEF AdminNext
  <1>4. ASSUME NEW r \in Requests, Handle(r)
        PROVE  AdminNext
    BY <1>4 DEF Handle, AdminNext
  <1>5. ASSUME NEW r \in Requests, NEW q \in Requests,
               Correct(q, r) \/ SendAgain(q, r)
        PROVE  [AdminNext]_allVars
    <2>1. CASE Correct(q, r)
      BY <2>1, LookingIsStutter
    <2>2. CASE SendAgain(q, r)
      BY <2>2, SendAgainIsReceive DEF AdminNext
    <2> QED
      BY <1>5, <2>1, <2>2
  <1> QED
    BY <1>1, <1>2, <1>3, <1>4, <1>5 DEF EditNext

\* Editing adds pages to AdminPosts: what is proved of the handlers holds here.
LEMMA EditingIsAdmin == EditSpec => AdminSpec
  <1>1. EditInit => AdminInit
    BY DEF EditInit
  <1>2. [EditNext]_editVars => [AdminNext]_allVars
    BY EditStepIsAdminStep
  <1> QED
    BY <1>1, <1>2, PTL DEF EditSpec, AdminSpec

\* However stale the pages are that saves, publishing and deletions are sent
\* from: no two posts share a slug, status and date agree, and a post has
\* the tags of the form its text came from.
THEOREM StalePagesKeepPosts ==
    EditSpec => [](SlugsUnique /\ PublishedIffDated /\ TagsMatchContent)
  BY EditingIsAdmin, SlugsStayUnique, PublishedStaysDated, TagsStayWithContent, PTL
----------------------------------------------------------------------------
(* What is at a desk.                                                      *)

PageKinds == {"none", "new", "row", "form", "dashboard", "confirm"}

Desks == [page : PageKinds, post : PostIds, row : Row \cup {NoRow},
          form : Forms \cup {EmptyForm, NoForm}]

\* The fields of a form that come from the row of the post.
RowFields == {"title", "slug", "body", "status"}
TextFields == {"title", "body", "status"}

\* What they hold when the page shows the row.
Shows(row) == FormShowing(row, <<>>)

HistoryTypeOK ==
    /\ edited \in [Requests -> SUBSET Fields]
    /\ stale \in [Requests -> BOOLEAN]
    /\ took \in [Requests -> {"no", "yes", "overtaken"}]
    /\ again \in [Requests -> Requests]

DeskTypeOK ==
    /\ desk \in [Requests -> Desks]
    /\ \A r \in Requests :
          /\ desk[r].form \in IF desk[r].page \in {"new", "form"}
                              THEN Forms \cup {EmptyForm} ELSE {NoForm}
          /\ desk[r].page = "form" => desk[r].form \in Forms
          /\ desk[r].page \in PageKinds \ {"none", "new"} => desk[r].row \in Row

\* A request comes from the page that belongs to it, about the page's post;
\* a rejected one from a form.
SentFromPage(r) ==
    /\ pc[r] # "idle" =>
          /\ call[r].op # "none"
          /\ call[r].op = "create" <=> desk[r].page = "new"
          /\ call[r].op = "update" <=> desk[r].page = "form"
          /\ call[r].op \in {"publish", "unpublish"} <=> desk[r].page = "dashboard"
          /\ call[r].op = "publish" => desk[r].row.status = "draft"
          /\ call[r].op = "delete" <=> desk[r].page = "confirm"
          /\ call[r].op # "create" => call[r].post = desk[r].post
    /\ pc[r] = "invalid" => Saves(r)

\* The fields nobody edited are those of the row the form was opened for.
FormKept(r) ==
    desk[r].page = "form" =>
        \A x \in RowFields \ edited[r] :
            /\ desk[r].form[x] = Shows(desk[r].row)[x]
            /\ pc[r] # "idle" => call[r].form[x] = Shows(desk[r].row)[x]

\* As long as nobody else changed the post it is as the page shows it,
\* but for the fields that were edited: they may have been saved.
PostSeen(r) ==
    ~stale[r] =>
        /\ desk[r].page = "row" => posts[desk[r].post] = desk[r].row
        /\ desk[r].page = "form" =>
              /\ posts[desk[r].post] # NoRow
              /\ \A x \in TextFields \ edited[r] :
                    Shows(posts[desk[r].post])[x] = Shows(desk[r].row)[x]

DesksFit == \A r \in Requests : SentFromPage(r) /\ FormKept(r) /\ PostSeen(r)

EditInv == IInv /\ HistoryTypeOK /\ DeskTypeOK /\ DesksFit

LEMMA InitEditInv == EditInit => EditInv
  <1> SUFFICES ASSUME EditInit PROVE EditInv
    OBVIOUS
  <1>1. IInv
    BY InitIInv DEF EditInit
  <1>2. /\ desk = [r \in Requests |-> NoPage(r)]
        /\ \A r \in Requests : pc[r] = "idle"
    BY DEF EditInit, AdminInit
  <1>3. \A r \in Requests : NoPage(r) \in Desks /\ NoPage(r).page = "none"
                            /\ NoPage(r).form = NoForm
    BY DEF NoPage, Desks, PageKinds, PostIds
  <1>4. HistoryTypeOK
    BY DEF EditInit, HistoryTypeOK
  <1>5. DeskTypeOK
    BY <1>2, <1>3 DEF DeskTypeOK
  <1>6. DesksFit
    BY <1>2, <1>3 DEF DesksFit, SentFromPage, FormKept, PostSeen
  <1> QED
    BY <1>1, <1>4, <1>5, <1>6 DEF EditInv

\* A desk where nothing happened.
Quiet(q) ==
    /\ desk'[q] = desk[q] /\ pc'[q] = pc[q] /\ call'[q] = call[q]
    /\ edited'[q] = edited[q] /\ stale'[q] = stale[q]

LEMMA QuietFits ==
    ASSUME NEW q \in Requests, Quiet(q), UnchangedDb,
           SentFromPage(q), FormKept(q), PostSeen(q)
    PROVE  SentFromPage(q)' /\ FormKept(q)' /\ PostSeen(q)'
  <1>1. SentFromPage(q)'
    BY DEF Quiet, SentFromPage, Saves
  <1>2. FormKept(q)'
    BY DEF Quiet, FormKept, Shows, FormShowing
  <1>3. PostSeen(q)'
    BY DEF Quiet, PostSeen, Shows, FormShowing, UnchangedDb
  <1> QED
    BY <1>1, <1>2, <1>3

\* The template keeps every field that it shows, the status if it is one of
\* the two options.
LEMMA FilledFields ==
    ASSUME NEW f \in [title : Texts, slug : Texts, tags : Seq(Texts),
                      body : Texts, status : STRING]
    PROVE  /\ Filled(f).title = f.title /\ Filled(f).slug = f.slug
           /\ Filled(f).body = f.body /\ Filled(f).tags = f.tags
           /\ f.status \in Statuses => Filled(f).status = f.status
  BY DEF Filled, Statuses

\* A step that leaves the tables alone and one desk aside.
LEMMA OneDesk ==
    ASSUME EditInv, IInv', HistoryTypeOK', NEW r \in Requests, UnchangedDb,
           \A q \in Requests \ {r} : Quiet(q),
           DeskTypeOK', SentFromPage(r)', FormKept(r)', PostSeen(r)'
    PROVE  EditInv'
  <1>1. ASSUME NEW q \in Requests
        PROVE  SentFromPage(q)' /\ FormKept(q)' /\ PostSeen(q)'
    <2>1. CASE q = r
      BY <2>1
    <2>2. CASE q # r
      BY <2>2, QuietFits DEF EditInv, DesksFit
    <2> QED
      BY <2>1, <2>2
  <1> QED
    BY <1>1 DEF EditInv, DesksFit
LEMMA NextEditIInv == EditInv /\ [EditNext]_editVars => IInv'
  BY EditStepIsAdminStep, NextIInv DEF EditInv

\* A new page on a free desk.
LEMMA ShownFits ==
    ASSUME EditInv, IInv', NEW r \in Requests, pc[r] = "idle",
           NEW page \in Desks, Show(r, page), SameAdmin, UNCHANGED past,
           page.form \in IF page.page \in {"new", "form"}
                         THEN Forms \cup {EmptyForm} ELSE {NoForm},
           page.page # "form",
           page.page \in PageKinds \ {"none", "new"} => page.row \in Row,
           page.page = "row" => posts[page.post] = page.row
    PROVE  EditInv'
  <1>1. UnchangedDb /\ UNCHANGED <<pc, call, edited, stale>> /\ HistoryTypeOK'
    BY DEF SameAdmin, allVars, UnchangedDb, past, EditInv, HistoryTypeOK
  <1>2. /\ desk' = [desk EXCEPT ![r] = page] /\ desk \in [Requests -> Desks]
        /\ desk'[r] = page
    BY DEF Show, EditInv, DeskTypeOK
  <1>3. \A q \in Requests \ {r} : Quiet(q)
    BY <1>1, <1>2 DEF Quiet
  <1>4. DeskTypeOK'
    <2>1. desk' \in [Requests -> Desks]
      BY <1>2
    <2>2. \A q \in Requests : q = r \/ desk'[q] = desk[q]
      BY <1>2
    <2> QED
      BY <1>2, <2>1, <2>2 DEF EditInv, DeskTypeOK
  <1>5. SentFromPage(r)'
    BY <1>1 DEF SentFromPage
  <1>6. FormKept(r)' /\ PostSeen(r)'
    BY <1>1, <1>2 DEF FormKept, PostSeen, UnchangedDb
  <1> QED
    BY <1>1, <1>3, <1>4, <1>5, <1>6, OneDesk

LEMMA OpenFits ==
    ASSUME EditInv, IInv', NEW r \in Requests, Open(r)
    PROVE  EditInv'
  <1>1. CASE OpenNew(r)
    <2> DEFINE page == [NoPage(r) EXCEPT !.page = "new", !.form = EmptyForm]
    <2>1. NoPage(r) \in Desks
      BY DEF NoPage, Desks, PageKinds, PostIds
    <2>2. page \in Desks /\ page.page = "new" /\ page.form = EmptyForm
      BY <2>1 DEF Desks, PageKinds
    <2>3. Show(r, page) /\ pc[r] = "idle" /\ SameAdmin /\ UNCHANGED past
      BY <1>1 DEF Open, OpenNew, AtDesk
    <2> HIDE DEF page
    <2> QED
      BY <2>2, <2>3, ShownFits DEF PageKinds
  <1>2. ASSUME NEW p \in PostIds, NEW kind \in {"row", "dashboard", "confirm"},
               AtDesk(r), posts[p] # NoRow, Show(r, Page(kind, p)), SameAdmin
        PROVE  EditInv'
    <2>1. posts[p] \in Row
      BY <1>2 DEF EditInv, IInv, TypeOK
    <2>2. Page(kind, p) \in Desks
      BY <2>1 DEF Page, Desks, PageKinds
    <2>3. /\ Page(kind, p).page = kind /\ Page(kind, p).row = posts[p]
          /\ Page(kind, p).post = p /\ Page(kind, p).form = NoForm
      BY DEF Page
    <2> HIDE DEF Page
    <2> QED
      BY <1>2, <2>1, <2>2, <2>3, ShownFits DEF Open, AtDesk
  <1> QED
    BY <1>1, <1>2 DEF Open, OpenEdit, OpenDashboard, OpenDeleteConfirm

\* The tags are filled in.
LEMMA FillTagsFits ==
    ASSUME EditInv, IInv', NEW r \in Requests, FillTags(r), UNCHANGED past
    PROVE  EditInv'
  <1> DEFINE csv == TagsCsv(desk[r].post)
             shown == Filled(FormShowing(desk[r].row, csv))
             page == [desk[r] EXCEPT !.page = "form", !.form = shown]
  <1>1. UnchangedDb /\ UNCHANGED <<pc, call, edited, stale>> /\ HistoryTypeOK'
    BY DEF FillTags, SameAdmin, allVars, UnchangedDb, past, EditInv, HistoryTypeOK
  <1>2. /\ shown \in Forms /\ desk' = [desk EXCEPT ![r] = page]
        /\ desk[r].page = "row" /\ desk \in [Requests -> Desks] /\ desk[r] \in Desks
        /\ desk[r].row \in Row
    BY DEF FillTags, Show, EditInv, DeskTypeOK, PageKinds
  <1>3. /\ page \in Desks /\ page.page = "form" /\ page.form = shown
        /\ page.row = desk[r].row /\ page.post = desk[r].post
    <2> HIDE DEF shown
    <2> QED
      BY <1>2 DEF Desks, PageKinds
  <1>4. desk'[r] = page
    BY <1>2
  <1>5. \A q \in Requests \ {r} : Quiet(q)
    BY <1>1, <1>2 DEF Quiet
  <1>6. DeskTypeOK'
    <2> HIDE DEF page, shown
    <2>1. desk' \in [Requests -> Desks]
      BY <1>2, <1>3
    <2>2. \A q \in Requests : q = r \/ desk'[q] = desk[q]
      BY <1>2
    <2> QED
      BY <1>2, <1>3, <1>4, <2>1, <2>2 DEF EditInv, DeskTypeOK
  <1>7. pc[r] = "idle"
    <2>1. SentFromPage(r)
      BY DEF EditInv, DesksFit
    <2> QED
      BY <1>2, <2>1, CallFacts DEF SentFromPage, EditInv, IInv
  <1>8. SentFromPage(r)'
    BY <1>1, <1>7 DEF SentFromPage
  <1>9. \A x \in RowFields : shown[x] = Shows(desk[r].row)[x]
    <2>1. desk[r].row.status \in Statuses
      BY <1>2 DEF Row
    <2>2. /\ shown.title = desk[r].row.content[1] /\ shown.body = desk[r].row.content[2]
          /\ shown.slug = SlugText[desk[r].row.slug]
          /\ shown.status = desk[r].row.status
      BY <2>1 DEF Filled, FormShowing, Statuses
    <2> HIDE DEF shown
    <2> QED
      BY <2>2 DEF RowFields, Shows, FormShowing
  <1> HIDE DEF page, shown
  <1>10. FormKept(r)'
    BY <1>1, <1>3, <1>4, <1>7, <1>9 DEF FormKept, Shows, FormShowing
  <1>11. PostSeen(r)'
    <2>1. ~stale[r] => posts[desk[r].post] = desk[r].row
      BY <1>2 DEF EditInv, DesksFit, PostSeen
    <2>2. desk[r].row # NoRow
      BY <1>2, RowAssumption
    <2> QED
      BY <1>1, <1>3, <1>4, <2>1, <2>2 DEF PostSeen, UnchangedDb, Shows, FormShowing
  <1> QED
    BY <1>1, <1>5, <1>6, <1>8, <1>10, <1>11, OneDesk
\* What the arrival of a request does.
LEMMA SendsFacts ==
    ASSUME EditInv, NEW r \in Requests, NEW c, Sends(r, c)
    PROVE  /\ c \in Calls(r) /\ call'[r] = c /\ pc[r] = "idle" /\ pc'[r] # "idle"
           /\ pc'[r] = "invalid" => c.op = "create"
           /\ \A q \in Requests \ {r} : pc'[q] = pc[q] /\ call'[q] = call[q]
           /\ UnchangedDb
           /\ c.op # "none" /\ c.post \in PostIds
           /\ c.op \in {"create", "update"} => c.form \in Forms
  <1>1. c \in Calls(r) /\ Arrive(r, c)
    BY DEF Sends
  <1>2. /\ c.op # "none" /\ c.post \in PostIds
        /\ c.op \in {"create", "update"} => c.form \in Forms
    BY <1>1, CallsType
  <1>3. DOMAIN pc = Requests /\ DOMAIN call = Requests
    BY DEF EditInv, IInv, TypeOK
  <1>4. pc' = [pc EXCEPT ![r] = IF c.op = "create" THEN Checked(c.form) ELSE "load"]
        /\ call' = [call EXCEPT ![r] = c]
    BY <1>1 DEF Arrive, Goto
  <1>5. Checked(c.form) \in {"resolve", "invalid"}
    BY DEF Checked
  <1>6. pc'[r] = IF c.op = "create" THEN Checked(c.form) ELSE "load"
    BY <1>3, <1>4
  <1>7. /\ pc'[r] # "idle"
        /\ pc'[r] = "invalid" => c.op = "create"
    BY <1>5, <1>6
  <1> QED
    BY <1>1, <1>2, <1>3, <1>4, <1>7 DEF Arrive

\* A request that is sent from its page, which stays on the desk.
LEMMA SentFits ==
    ASSUME EditInv, IInv', NEW r \in Requests, NEW c, Sends(r, c), HistoryTypeOK',
           UNCHANGED <<desk, stale, took, again>>,
           \A q \in Requests \ {r} : edited'[q] = edited[q],
           edited[r] \subseteq edited'[r],
           c.op = "create" <=> desk[r].page = "new",
           c.op = "update" <=> desk[r].page = "form",
           c.op \in {"publish", "unpublish"} <=> desk[r].page = "dashboard",
           c.op = "publish" => desk[r].row.status = "draft",
           c.op = "delete" <=> desk[r].page = "confirm",
           c.op # "create" => c.post = desk[r].post,
           c.op = "update" =>
              \A x \in RowFields \ edited'[r] : c.form[x] = desk[r].form[x]
    PROVE  EditInv'
  <1>1. /\ call'[r] = c /\ pc'[r] # "idle"
        /\ pc'[r] = "invalid" => c.op = "create"
        /\ \A q \in Requests \ {r} : pc'[q] = pc[q] /\ call'[q] = call[q]
        /\ UnchangedDb /\ c.op # "none"
    BY SendsFacts
  <1>2. \A q \in Requests \ {r} : Quiet(q)
    BY <1>1 DEF Quiet
  <1>3. DeskTypeOK'
    BY DEF EditInv, DeskTypeOK
  <1>4. SentFromPage(r)'
    BY <1>1 DEF SentFromPage, Saves
  <1>5. FormKept(r)'
    BY <1>1 DEF EditInv, DesksFit, FormKept, Shows, FormShowing
  <1>6. PostSeen(r)'
    BY <1>1 DEF EditInv, DesksFit, PostSeen, UnchangedDb, Shows, FormShowing
  <1> QED
    BY <1>1, <1>2, <1>3, <1>4, <1>5, <1>6, OneDesk

LEMMA SendFits ==
    ASSUME EditInv, IInv', NEW r \in Requests, Send(r)
    PROVE  EditInv'
  <1>1. HistoryTypeOK /\ desk[r] \in Desks
    BY DEF EditInv, DeskTypeOK
  <1>2. CASE SubmitNew(r)
    <2>1. PICK f \in Typed : Sends(r, [op |-> "create", post |-> r, form |-> f])
      BY <1>2 DEF SubmitNew
    <2>2. desk[r].page = "new" /\ UNCHANGED <<desk, edited, stale, took, again>>
      BY <1>2 DEF SubmitNew, past
    <2>3. HistoryTypeOK'
      BY <1>1, <2>2 DEF HistoryTypeOK
    <2> DEFINE c == [op |-> "create", post |-> r, form |-> f]
    <2>4. c.op = "create" /\ Sends(r, c)
      BY <2>1
    <2> HIDE DEF c
    <2> QED
      BY <2>2, <2>3, <2>4, SentFits
  <1>3. CASE SubmitEdit(r)
    <2>1. PICK f \in Forms :
             /\ Sends(r, [op |-> "update", post |-> desk[r].post, form |-> f])
             /\ edited' = [edited EXCEPT ![r] = @ \cup Differences(desk[r].form, f)]
      BY <1>3 DEF SubmitEdit
    <2>2. desk[r].page = "form" /\ UNCHANGED <<desk, stale, took, again>>
      BY <1>3 DEF SubmitEdit
    <2>3. /\ edited'[r] = edited[r] \cup Differences(desk[r].form, f)
          /\ \A q \in Requests \ {r} : edited'[q] = edited[q]
          /\ edited' \in [Requests -> SUBSET Fields]
      BY <1>1, <2>1 DEF HistoryTypeOK, Differences
    <2>4. HistoryTypeOK'
      BY <1>1, <2>2, <2>3 DEF HistoryTypeOK
    <2>5. \A x \in RowFields \ edited'[r] : f[x] = desk[r].form[x]
      BY <2>3 DEF Differences, RowFields, Fields
    <2> DEFINE c == [op |-> "update", post |-> desk[r].post, form |-> f]
    <2>6. c.op = "update" /\ c.post = desk[r].post /\ c.form = f /\ Sends(r, c)
      BY <2>1
    <2> HIDE DEF c
    <2> QED
      BY <2>2, <2>3, <2>4, <2>5, <2>6, SentFits
  <1>4. CASE PressToggle(r)
    <2> DEFINE c == [op |-> IF desk[r].row.status = "published"
                            THEN "unpublish" ELSE "publish",
                     post |-> desk[r].post, form |-> NoForm]
    <2>1. /\ desk[r].page = "dashboard" /\ Sends(r, c)
          /\ UNCHANGED <<desk, edited, stale, took, again>>
      BY <1>4 DEF PressToggle, past
    <2>2. HistoryTypeOK'
      BY <1>1, <2>1 DEF HistoryTypeOK
    <2>3. desk[r].row.status \in Statuses
      BY <2>1 DEF EditInv, DeskTypeOK, PageKinds, Row
    <2>4. /\ c.op \in {"publish", "unpublish"} /\ c.post = desk[r].post
          /\ c.op = "publish" => desk[r].row.status = "draft"
      BY <2>3 DEF Statuses
    <2> HIDE DEF c
    <2> QED
      BY <2>1, <2>2, <2>4, SentFits
  <1>5. CASE PressDelete(r)
    <2> DEFINE c == [op |-> "delete", post |-> desk[r].post, form |-> NoForm]
    <2>1. /\ desk[r].page = "confirm" /\ Sends(r, c)
          /\ UNCHANGED <<desk, edited, stale, took, again>>
      BY <1>5 DEF PressDelete, past
    <2>2. HistoryTypeOK'
      BY <1>1, <2>1 DEF HistoryTypeOK
    <2>3. c.op = "delete" /\ c.post = desk[r].post
      OBVIOUS
    <2> HIDE DEF c
    <2> QED
      BY <2>1, <2>2, <2>3, SentFits
  <1> QED
    BY <1>2, <1>3, <1>4, <1>5 DEF Send
\* A rejected form that comes back.
LEMMA CorrectFits ==
    ASSUME EditInv, IInv', NEW q \in Requests, NEW r \in Requests, Correct(q, r)
    PROVE  EditInv'
  <1> DEFINE f == Filled(call[r].form)
             old == [desk[r] EXCEPT !.form = f]
             page == IF old.page = "new" THEN [old EXCEPT !.post = q] ELSE old
  <1>1. /\ desk[q].page = "none" /\ pc[q] = "idle" /\ pc[r] = "invalid" /\ q # r
        /\ desk' = [desk EXCEPT ![q] = page]
        /\ edited' = [edited EXCEPT ![q] = edited[r]]
        /\ stale' = [stale EXCEPT ![q] = stale[r]]
        /\ UnchangedDb /\ UNCHANGED <<pc, call, took, again>>
    BY DEF Correct, AtDesk, Show, SameAdmin, allVars, UnchangedDb
  <1>2. /\ HistoryTypeOK /\ desk \in [Requests -> Desks] /\ desk[r] \in Desks
        /\ SentFromPage(r) /\ FormKept(r) /\ PostSeen(r)
    BY DEF EditInv, DeskTypeOK, DesksFit
  <1>3. Saves(r) /\ call[r].form \in Forms /\ desk[r].page \in {"new", "form"}
    BY <1>1, <1>2, CallFacts DEF SentFromPage, Saves, EditInv, IInv
  <1>4. f \in Forms
    BY <1>3, FilledAssumption
  <1>5. /\ old \in Desks /\ old.page = desk[r].page /\ old.row = desk[r].row
        /\ old.post = desk[r].post /\ old.form = f
    <2> HIDE DEF f
    <2> QED
      BY <1>2, <1>4 DEF Desks
  <1>6. /\ page \in Desks /\ page.page = desk[r].page /\ page.row = desk[r].row
        /\ page.form = f
        /\ page.page = "form" => page.post = desk[r].post
    <2> HIDE DEF old
    <2> QED
      BY <1>5 DEF Desks, PostIds
  <1>7. \A x \in RowFields : x # "status" \/ call[r].form.status \in Statuses
                                => f[x] = call[r].form[x]
    BY <1>3, FilledFields, EditingAssumption DEF RowFields
  <1> HIDE DEF page, old, f
  <1>8. /\ desk'[q] = page /\ edited'[q] = edited[r] /\ stale'[q] = stale[r]
        /\ \A o \in Requests \ {q} : Quiet(o)
    BY <1>1, <1>2 DEF Quiet, HistoryTypeOK
  <1>9. HistoryTypeOK'
    BY <1>1, <1>2 DEF HistoryTypeOK
  <1>10. DeskTypeOK'
    <2>1. desk' \in [Requests -> Desks]
      BY <1>1, <1>2, <1>6
    <2>2. \A o \in Requests : o = q \/ desk'[o] = desk[o]
      BY <1>8 DEF Quiet
    <2> QED
      BY <1>3, <1>4, <1>6, <1>8, <2>1, <2>2 DEF EditInv, DeskTypeOK
  <1>11. SentFromPage(q)'
    BY <1>1 DEF SentFromPage
  <1>12. FormKept(q)'
    <2> SUFFICES ASSUME desk[r].page = "form", NEW x \in RowFields \ edited[r]
                 PROVE  f[x] = Shows(desk[r].row)[x]
      BY <1>1, <1>6, <1>8 DEF FormKept, Shows, FormShowing
    <2>1. call[r].form[x] = Shows(desk[r].row)[x]
      BY <1>1, <1>2 DEF FormKept
    <2>2. desk[r].row.status \in Statuses
      BY DEF EditInv, DeskTypeOK, PageKinds, Row
    <2>3. x = "status" => call[r].form.status \in Statuses
      BY <2>1, <2>2 DEF Shows, FormShowing
    <2> QED
      BY <1>7, <2>1, <2>3
  <1>13. PostSeen(q)'
    BY <1>1, <1>2, <1>3, <1>6, <1>8 DEF PostSeen, UnchangedDb, Shows, FormShowing
  <1> QED
    BY <1>1, <1>8, <1>9, <1>10, <1>11, <1>12, <1>13, OneDesk

\* A request that is sent once more.
LEMMA SendAgainFits ==
    ASSUME EditInv, IInv', NEW q \in Requests, NEW r \in Requests, SendAgain(q, r)
    PROVE  EditInv'
  <1> DEFINE c == [call[r] EXCEPT !.post = IF call[r].op = "create" THEN q ELSE @]
  <1>1. /\ desk[q].page = "none" /\ pc[q] = "idle" /\ pc[r] = "error" /\ q # r
        /\ Sends(q, c)
        /\ desk' = [desk EXCEPT ![q] = desk[r]]
        /\ edited' = [edited EXCEPT ![q] = edited[r]]
        /\ stale' = [stale EXCEPT ![q] = stale[r]]
        /\ again' = [again EXCEPT ![q] = r] /\ took' = took
    BY DEF SendAgain, AtDesk, Show
  <1>2. /\ HistoryTypeOK /\ desk \in [Requests -> Desks] /\ desk[r] \in Desks
        /\ SentFromPage(r) /\ FormKept(r) /\ PostSeen(r)
    BY DEF EditInv, DeskTypeOK, DesksFit
  <1>3. /\ c.op = call[r].op /\ c.form = call[r].form
        /\ c.op # "create" => c.post = call[r].post
    <2>1. call[r] \in [op : Ops \cup {"none"}, post : PostIds, form : Forms \cup {NoForm}]
      BY DEF EditInv, IInv, TypeOK
    <2> QED
      BY <2>1
  <1> HIDE DEF c
  <1>4. /\ call'[q] = c /\ pc'[q] # "idle"
        /\ pc'[q] = "invalid" => c.op = "create"
        /\ \A o \in Requests \ {q} : pc'[o] = pc[o] /\ call'[o] = call[o]
        /\ UnchangedDb /\ c.op # "none"
    BY <1>1, SendsFacts
  <1>5. /\ desk'[q] = desk[r] /\ edited'[q] = edited[r] /\ stale'[q] = stale[r]
        /\ \A o \in Requests \ {q} : Quiet(o)
    BY <1>1, <1>2, <1>4 DEF Quiet, HistoryTypeOK
  <1>6. HistoryTypeOK'
    BY <1>1, <1>2 DEF HistoryTypeOK
  <1>7. DeskTypeOK'
    <2>1. desk' \in [Requests -> Desks]
      BY <1>1, <1>2
    <2>2. \A o \in Requests : o = q \/ desk'[o] = desk[o]
      BY <1>5 DEF Quiet
    <2> QED
      BY <1>5, <2>1, <2>2 DEF EditInv, DeskTypeOK
  <1>8. SentFromPage(q)'
    BY <1>1, <1>2, <1>3, <1>4, <1>5 DEF SentFromPage, Saves
  <1>9. FormKept(q)'
    BY <1>1, <1>2, <1>3, <1>4, <1>5 DEF FormKept, Shows, FormShowing
  <1>10. PostSeen(q)'
    BY <1>2, <1>4, <1>5 DEF PostSeen, UnchangedDb, Shows, FormShowing
  <1> QED
    BY <1>4, <1>5, <1>6, <1>7, <1>8, <1>9, <1>10, OneDesk

\* What a handler's step does to the requests.
LEMMA HandleFacts ==
    ASSUME EditInv, NEW r \in Requests, Handle(r)
    PROVE  /\ Acts(r) /\ call' = call
           /\ pc[r] # "idle" /\ pc'[r] # "idle"
           /\ pc'[r] = "invalid" => pc[r] = "invalid" \/ Saves(r)
           /\ \A q \in Requests \ {r} : pc'[q] = pc[q] /\ local'[q] = local[q]
  <1>1. /\ Acts(r)
        /\ Step(r) \/ Fail(r) \/ CommitUnacked(r) \/ WriteUnacked(r) \/ DeadlockVictim(r)
    BY DEF Handle, Acts
  <1>2. \A q \in Requests \ {r} : pc'[q] = pc[q] /\ local'[q] = local[q]
    BY <1>1, OthersKept DEF Kept, EditInv, IInv
  <1>3. /\ TypeOK /\ pc \in [Requests -> {"idle"} \cup InFlight \cup Answers]
        /\ pc[r] = "resolve" => Saves(r)
    BY DEF EditInv, IInv, TypeOK, WritesValidated, Validated
  <1> DEFINE Moves == /\ call' = call /\ pc[r] # "idle" /\ pc'[r] # "idle"
                      /\ pc'[r] = "invalid" => pc[r] = "invalid" \/ Saves(r)
  <1> USE DEF Goto, Answer, Set
  <1>4. ASSUME LoadMissing(r) \/ LoadForUpdate(r) PROVE Moves
    BY <1>3, <1>4 DEF LoadMissing, LoadForUpdate, Checked, Saves
  <1>5. ASSUME LoadForPublish(r) \/ LoadForUnpublishOrDelete(r) PROVE Moves
    BY <1>3, <1>5 DEF LoadForPublish, LoadForUnpublishOrDelete
  <1>6. ASSUME SlugFree(r) \/ SlugTaken(r) PROVE Moves
    BY <1>3, <1>6 DEF SlugFree, SlugTaken
  <1>7. ASSUME Begin(r) \/ InsertPost(r) \/ UpdateRow(r) \/ UpdateKey(r) PROVE Moves
    BY <1>3, <1>7 DEF Begin, InsertPost, UpdateRow, UpdateKey
  <1>8. ASSUME SetStatus(r) \/ UpsertTag(r) \/ ReplaceTags(r) PROVE Moves
    BY <1>3, <1>8 DEF SetStatus, UpsertTag, ReplaceTags
  <1>9. ASSUME Commit(r) \/ CommitUnacked(r) PROVE Moves
    BY <1>3, <1>9 DEF Commit, CommitUnacked, Apply
  <1>10. ASSUME Write(r) \/ WriteUnacked(r) \/ WriteMissing(r) PROVE Moves
    BY <1>3, <1>10 DEF Write, WriteUnacked, WriteApplies, WriteMissing
  <1>11. ASSUME Fail(r) \/ DeadlockVictim(r) PROVE Moves
    BY <1>3, <1>11 DEF Fail, DeadlockVictim, Blocked, WaitsFor, InFlight, InTx
  <1> QED
    BY <1>1, <1>2, <1>4, <1>5, <1>6, <1>7, <1>8, <1>9, <1>10, <1>11 DEF Step
\* A handler that changes the tables writes, and is then answered.
LEMMA HandleWrites ==
    ASSUME EditInv, NEW r \in Requests, Handle(r)
    PROVE  UnchangedDb \/ Writes(r)
  <1>1. /\ Step(r) \/ Fail(r) \/ CommitUnacked(r) \/ WriteUnacked(r) \/ DeadlockVictim(r)
        /\ TypeOK
    BY DEF Handle, EditInv, IInv
  <1>2. CASE Commit(r) \/ CommitUnacked(r)
    <2>1. Apply(r) /\ pc[r] = "commit"
      BY <1>2 DEF Commit, CommitUnacked, Apply
    <2>2. pc'[r] \in Answers
      BY <1>1, <1>2, AnswerPlace DEF Commit, CommitUnacked, Answers
    <2> QED
      BY <2>1, <2>2 DEF Writes, Answers
  <1>3. CASE Write(r) \/ WriteUnacked(r)
    <2>1. WriteApplies(r) /\ pc[r] = "write"
      BY <1>3 DEF Write, WriteUnacked, WriteApplies
    <2>2. pc'[r] \in Answers
      BY <1>1, <1>3, AnswerPlace DEF Write, WriteUnacked, Answers
    <2> QED
      BY <2>1, <2>2 DEF Writes, Answers
  <1>4. CASE ~(Commit(r) \/ CommitUnacked(r) \/ Write(r) \/ WriteUnacked(r))
    BY <1>1, <1>4
    DEF Step, LoadMissing, LoadForUpdate, LoadForPublish, LoadForUnpublishOrDelete,
        SlugFree, SlugTaken, Begin, InsertPost, UpdateRow, UpdateKey, SetStatus,
        UpsertTag, ReplaceTags, WriteMissing, Fail, DeadlockVictim
  <1> QED
    BY <1>2, <1>3, <1>4

\* What a save changes: one row, to what its form says.
LEMMA SaveWrites ==
    ASSUME EditInv, NEW r \in Requests, Apply(r)
    PROVE  /\ Saves(r) /\ call[r].post \in PostIds /\ call[r].form \in Forms
           /\ posts'[call[r].post] = RowOf(call[r].form, Slug(r), local[r].date)
           /\ posts'[call[r].post] # NoRow
           /\ \A p \in PostIds \ {call[r].post} : posts'[p] = posts[p]
  <1>1. TypeOK /\ WritesValidated /\ pc[r] = "commit"
        /\ Put(call[r].post, call[r].form, Slug(r), local[r].date)
    BY DEF EditInv, IInv, Apply
  <1>2. /\ posts'[call[r].post] # NoRow
        /\ \A p \in PostIds \ {call[r].post} : posts'[p] = posts[p]
    BY <1>1, PutRows
  <1>3. Saves(r) /\ call[r].post \in PostIds /\ call[r].form \in Forms
    BY <1>1, CommitFacts
  <1>4. posts'[call[r].post] = RowOf(call[r].form, Slug(r), local[r].date)
    BY <1>1, <1>3 DEF Put, TypeOK
  <1> QED
    BY <1>2, <1>3, <1>4

\* A handler runs, and the pages of the others get stale if it changed what
\* they show.
LEMMA HandleFits ==
    ASSUME EditInv, IInv', NEW r \in Requests, Handle(r)
    PROVE  EditInv'
  <1>1. /\ UNCHANGED <<desk, edited, again, call>>
        /\ pc[r] # "idle" /\ pc'[r] # "idle"
        /\ pc'[r] = "invalid" => pc[r] = "invalid" \/ Saves(r)
        /\ \A q \in Requests \ {r} : pc'[q] = pc[q]
    BY HandleFacts DEF Handle
  <1>2. HistoryTypeOK /\ DeskTypeOK /\ DesksFit
    BY DEF EditInv
  <1>3. stale' = [q \in Requests |->
                     \/ stale[q]
                     \/ q # r /\ desk[q].page # "none" /\ desk[q].post \in Touched]
    BY DEF Handle
  <1>4. HistoryTypeOK'
    <2>1. stale' \in [Requests -> BOOLEAN]
      BY <1>3
    <2>2. took' \in [Requests -> {"no", "yes", "overtaken"}]
      BY <1>2 DEF Handle, HistoryTypeOK
    <2> QED
      BY <1>1, <1>2, <2>1, <2>2 DEF HistoryTypeOK
  <1>5. DeskTypeOK'
    BY <1>1, <1>2 DEF DeskTypeOK
  <1>6. ASSUME NEW q \in Requests
        PROVE  SentFromPage(q)' /\ FormKept(q)'
    <2>1. (pc'[q] # "idle" => pc[q] # "idle")
          /\ (pc'[q] = "invalid" => pc[q] = "invalid" \/ Saves(q))
      BY <1>1
    <2> QED
      BY <1>1, <1>2, <2>1 DEF DesksFit, SentFromPage, FormKept, Saves, Shows, FormShowing
  <1>7. ASSUME NEW q \in Requests \ {r}, ~stale'[q], desk[q].page # "none"
        PROVE  ~stale[q] /\ posts'[desk[q].post] = posts[desk[q].post]
    <2>1. ~stale[q] /\ desk[q].post \notin Touched
      BY <1>3, <1>7
    <2>2. desk[q].post \in PostIds
      BY <1>2 DEF DeskTypeOK, Desks
    <2> QED
      BY <2>1, <2>2 DEF Touched
  <1>8. ASSUME NEW q \in Requests \ {r}
        PROVE  PostSeen(q)'
    BY <1>1, <1>2, <1>7, <1>8 DEF DesksFit, PostSeen, Shows, FormShowing
  <1>9. PostSeen(r)'
    <2>1. stale'[r] = stale[r] \/ stale'[r] = (stale[r] \/ FALSE)
      BY <1>3
    <2>2. ~stale'[r] => ~stale[r]
      BY <2>1
    <2>3. desk[r].page # "row"
      BY <1>1, <1>2, CallFacts DEF DesksFit, SentFromPage, EditInv, IInv
    <2> SUFFICES ASSUME ~stale'[r], desk[r].page = "form"
                 PROVE  /\ posts'[desk[r].post] # NoRow
                        /\ \A x \in TextFields \ edited[r] :
                              Shows(posts'[desk[r].post])[x] = Shows(desk[r].row)[x]
      BY <1>1, <2>3 DEF PostSeen, Shows, FormShowing
    <2>4. call[r].op = "update" /\ call[r].post = desk[r].post
      BY <1>1, <1>2 DEF DesksFit, SentFromPage
    <2>5. CASE UnchangedDb
      BY <1>2, <2>2, <2>5 DEF DesksFit, PostSeen, UnchangedDb
    <2>6. CASE Apply(r)
      <3>1. /\ posts'[desk[r].post] = RowOf(call[r].form, Slug(r), local[r].date)
            /\ posts'[desk[r].post] # NoRow
        BY <2>4, <2>6, SaveWrites
      <3>2. \A x \in TextFields : Shows(posts'[desk[r].post])[x] = call[r].form[x]
        BY <3>1 DEF Shows, FormShowing, RowOf, Content, TextFields
      <3>3. \A x \in TextFields \ edited[r] : call[r].form[x] = Shows(desk[r].row)[x]
        BY <1>1, <1>2 DEF DesksFit, FormKept, TextFields, RowFields
      <3> QED
        BY <3>1, <3>2, <3>3
    <2>7. ~WriteApplies(r)
      BY <2>4 DEF WriteApplies
    <2> QED
      BY <2>5, <2>6, <2>7, HandleWrites DEF Writes
  <1> QED
    BY <1>2, <1>4, <1>5, <1>6, <1>8, <1>9 DEF EditInv, DesksFit

LEMMA NextEditInv == EditInv /\ [EditNext]_editVars => EditInv'
  <1> SUFFICES ASSUME EditInv, [EditNext]_editVars
               PROVE  EditInv'
    OBVIOUS
  <1>1. IInv'
    BY NextEditIInv
  <1>2. CASE EditNext
    BY <1>1, <1>2, OpenFits, FillTagsFits, SendFits, HandleFits, CorrectFits, SendAgainFits
    DEF EditNext
  <1>3. CASE UNCHANGED editVars
    <2>1. /\ UNCHANGED <<desk, pc, call, edited, stale, took, again>> /\ UnchangedDb
      BY <1>3 DEF editVars, UnchangedDb
    <2>2. HistoryTypeOK' /\ DeskTypeOK'
      BY <2>1 DEF EditInv, HistoryTypeOK, DeskTypeOK
    <2>3. \A q \in Requests : SentFromPage(q)' /\ FormKept(q)' /\ PostSeen(q)'
      BY <2>1, QuietFits DEF EditInv, DesksFit, Quiet
    <2> QED
      BY <1>1, <2>2, <2>3 DEF EditInv, DesksFit
  <1> QED
    BY <1>2, <1>3

LEMMA EditInvHolds == EditSpec => []EditInv
  BY InitEditInv, NextEditInv, PTL DEF EditSpec

\* The pages keep their types; a form that comes back after it was rejected
\* has its fields, whichever sequence of pages and requests led to it.
THEOREM EditTypes == EditSpec => []EditTypeOK
  <1>1. EditInv => EditTypeOK
    BY DEF EditInv, HistoryTypeOK, DeskTypeOK, Desks, PageKinds, EditTypeOK
  <1> QED
    BY <1>1, EditInvHolds, PTL

\* Only a save or a publish sets a draft's status to published, and the page
\* it was sent from, however old and however often it was sent again, says
\* how it was meant.
LEMMA PublishingIsMeant ==
    ASSUME EditInv, [EditNext]_editVars, NEW p \in PostIds,
           posts[p] # NoRow, posts'[p] # NoRow,
           posts[p].status = "draft", posts'[p].status = "published"
    PROVE  \E r \in Requests :
              /\ Writes(r) /\ call[r].post = p
              /\ \/ call[r].op = "publish" /\ desk[r].row.status = "draft"
                 \/ "status" \in edited[r]
                 \/ desk[r].row.status = "published" /\ stale[r]
  <1>1. posts' # posts
    OBVIOUS
  <1>2. PICK r \in Requests : Handle(r)
    <2>1. \A r \in Requests, q \in Requests :
             Open(r) \/ FillTags(r) \/ Correct(q, r) => posts' = posts
      BY LookingIsStutter DEF allVars
    <2>2. \A r \in Requests, q \in Requests : Send(r) \/ SendAgain(q, r) => posts' = posts
      BY SendIsReceive, SendAgainIsReceive DEF Receive, Arrive, UnchangedDb
    <2> QED
      BY <1>1, <2>1, <2>2 DEF EditNext, editVars
  <1>3. Writes(r)
    BY <1>1, <1>2, HandleWrites DEF UnchangedDb
  <1>4. /\ pc[r] # "idle" /\ SentFromPage(r) /\ FormKept(r) /\ PostSeen(r) /\ TypeOK
        /\ call[r].post \in PostIds
    BY <1>2, HandleFacts, CallFacts DEF EditInv, DesksFit, IInv
  <1>5. CASE Apply(r)
    <2>1. /\ Saves(r) /\ posts'[call[r].post] = RowOf(call[r].form, Slug(r), local[r].date)
          /\ \A q \in PostIds \ {call[r].post} : posts'[q] = posts[q]
      BY <1>5, SaveWrites
    <2>2. call[r].post = p
      BY <2>1
    <2>3. call[r].form.status = "published"
      BY <2>1, <2>2 DEF RowOf
    <2>4. call[r].op = "update"
      <3>1. call[r].op = "create" => p = r /\ posts[r] = NoRow
        BY <1>4, <1>5, <2>2, CallFacts DEF EditInv, IInv, RowsPinned, Apply, InFlight, InTx
      <3> QED
        BY <2>1, <3>1 DEF Saves
    <2>5. desk[r].page = "form" /\ desk[r].post = p
      BY <1>4, <2>2, <2>4 DEF SentFromPage
    <2>6. ASSUME "status" \notin edited[r]
          PROVE  desk[r].row.status = "published" /\ stale[r]
      <3>1. call[r].form.status = desk[r].row.status
        BY <1>4, <2>5, <2>6 DEF FormKept, RowFields, Shows, FormShowing
      <3>2. ~stale[r] => posts[p].status = desk[r].row.status
        BY <1>4, <2>5, <2>6 DEF PostSeen, TextFields, Shows, FormShowing
      <3> QED
        BY <2>3, <3>1, <3>2
    <2> QED
      BY <1>3, <2>2, <2>6
  <1>6. CASE WriteApplies(r)
    <2>1. CASE call[r].op = "delete"
      BY <1>4, <1>6, <2>1 DEF WriteApplies, Remove, TypeOK
    <2>2. ASSUME call[r].op \in {"publish", "unpublish"}, posts[call[r].post] # NoRow,
                 SetStatusOf(call[r].post,
                    IF call[r].op = "publish" THEN "published" ELSE "draft",
                    local[r].date)
          PROVE  call[r].post = p /\ call[r].op = "publish"
      <3> DEFINE w  == call[r].post
                 st == IF call[r].op = "publish" THEN "published" ELSE "draft"
      <3>1. posts \in [PostIds -> Row \cup {NoRow}] /\ w \in PostIds
        BY <1>4 DEF TypeOK
      <3>2. posts' = [posts EXCEPT ![w] = [posts[w] EXCEPT !.status = st,
                                                          !.published_at = local[r].date]]
        BY <2>2, <3>1 DEF SetStatusOf
      <3>3. w = p
        BY <3>1, <3>2
      <3>4. posts[p] \in Row
        BY <2>2, <3>1, <3>3
      <3>5. posts'[p].status = st
        BY <3>1, <3>2, <3>3, <3>4 DEF Row
      <3> QED
        BY <3>3, <3>5
    <2> QED
      BY <1>3, <1>4, <1>6, <2>1, <2>2 DEF WriteApplies, SentFromPage
  <1> QED
    BY <1>3, <1>5, <1>6 DEF Writes

\* No draft is published by a request nobody meant to publish it with.
THEOREM DraftsPublishedKnowingly == EditSpec => PublishedKnowingly
  <1>1. EditInv /\ [EditNext]_editVars =>
           [\A p \in PostIds :
               /\ posts[p] # NoRow /\ posts'[p] # NoRow
               /\ posts[p].status = "draft" /\ posts'[p].status = "published"
               => \E r \in Requests :
                     /\ Writes(r) /\ call[r].post = p
                     /\ \/ call[r].op = "publish" /\ desk[r].row.status = "draft"
                        \/ "status" \in edited[r]
                        \/ desk[r].row.status = "published" /\ stale[r]]_editVars
    BY PublishingIsMeant
  <1> QED
    BY <1>1, EditInvHolds, PTL DEF EditSpec, PublishedKnowingly
----------------------------------------------------------------------------
(* The tags on their way through the form and back.                        *)

\* How many elements of S have a smaller key than p.
Place(S, key, p) == Cardinality({q \in S : key[q] < key[p]})

\* That numbers a finite set without gaps.
LEMMA PlacesOnto ==
    ASSUME NEW S, IsFiniteSet(S), NEW key \in [S -> Nat],
           \A p, q \in S : p # q => key[p] # key[q]
    PROVE  /\ Cardinality(S) \in Nat
           /\ \A n \in 1 .. Cardinality(S) : \E p \in S : Place(S, key, p) = n - 1
           /\ \A p \in S : \E n \in 1 .. Cardinality(S) : Place(S, key, p) = n - 1
           /\ \A p, q \in S : Place(S, key, p) = Place(S, key, q) => p = q
  <1> DEFINE N == Cardinality(S)
             Before(p) == {q \in S : key[q] < key[p]}
             place == [p \in S |-> Cardinality(Before(p)) + 1]
  <1>1. N \in Nat
    BY FS_CardinalityType
  <1>2. \A p \in S : /\ IsFiniteSet(Before(p)) /\ Cardinality(Before(p)) \in Nat
                     /\ Cardinality(Before(p)) <= N
    <2> TAKE p \in S
    <2>1. Before(p) \subseteq S
      OBVIOUS
    <2>2. IsFiniteSet(Before(p)) /\ Cardinality(Before(p)) <= N
      BY <2>1, FS_Subset
    <2> QED
      BY <2>2, FS_CardinalityType
  <1>3. ASSUME NEW p \in S
        PROVE  Cardinality(Before(p)) # N
    <2>1. p \notin Before(p) /\ Before(p) \in SUBSET S
      OBVIOUS
    <2> QED
      BY <2>1, FS_Subset
  <1>4. ASSUME NEW p \in S, NEW q \in S, key[p] < key[q]
        PROVE  Cardinality(Before(p)) < Cardinality(Before(q))
    <2>1. key[p] \in Nat /\ key[q] \in Nat /\ \A o \in S : key[o] \in Nat
      OBVIOUS
    <2>2. Before(p) \in SUBSET Before(q) /\ p \in Before(q) /\ p \notin Before(p)
      BY <1>4, <2>1
    <2>3. /\ Cardinality(Before(p)) <= Cardinality(Before(q))
          /\ Cardinality(Before(p)) # Cardinality(Before(q))
      BY <1>2, <2>2, FS_Subset
    <2> QED
      BY <1>2, <2>3
  <1>5. ASSUME NEW p \in S, NEW q \in S, Cardinality(Before(p)) = Cardinality(Before(q))
        PROVE  p = q
    <2>1. key[p] \in Nat /\ key[q] \in Nat
      OBVIOUS
    <2>2. Cardinality(Before(p)) \in Nat
      BY <1>2
    <2>3. ~(key[p] < key[q]) /\ ~(key[q] < key[p])
      BY <1>4, <1>5, <2>2
    <2> QED
      BY <2>1, <2>3
  <1> HIDE DEF Before, N
  <1>6. \A p \in S : Cardinality(Before(p)) \in 0 .. N - 1
    BY <1>1, <1>2, <1>3
  <1>7. place \in Injection(S, 1 .. N)
    BY <1>1, <1>5, <1>6 DEF Injection, IsInjective
  <1>8. IsFiniteSet(1 .. N) /\ Cardinality(1 .. N) = N
    BY <1>1, FS_Interval
  <1>9. place \in Surjection(S, 1 .. N)
    BY <1>7, <1>8, FS_Injection DEF N
  <1>10. ASSUME NEW n \in 1 .. N
         PROVE  \E p \in S : Cardinality(Before(p)) = n - 1
    <2>1. PICK p \in S : place[p] = n
      BY <1>9 DEF Surjection
    <2> QED
      BY <1>1, <1>6, <2>1
  <1>11. ASSUME NEW p \in S
         PROVE  \E n \in 1 .. N : Cardinality(Before(p)) = n - 1
    <2>1. Cardinality(Before(p)) + 1 \in 1 .. N
      BY <1>1, <1>6
    <2>2. Cardinality(Before(p)) = (Cardinality(Before(p)) + 1) - 1
      BY <1>1, <1>6
    <2> QED
      BY <2>1, <2>2
  <1> QED
    BY <1>1, <1>5, <1>10, <1>11 DEF Place, Before, N

\* The entries of csv are the names of the tags of p.
CsvShows(csv, p) ==
    /\ \A i \in DOMAIN csv : \E t \in TagSet(p) : csv[i] = tags[t]
    /\ \A t \in TagSet(p) : \E i \in DOMAIN csv : csv[i] = tags[t]

\* Form f gives p the tags it has, under the names they have.
TagsAre(p, f) ==
    TagsOf(f) = TagSet(p) /\ \A t \in TagsOf(f) : TagName(f, t) = tags[t]

\* The tags of a post are finitely many and have their names.
LEMMA TagSetFacts ==
    ASSUME StoreInv, NEW p \in PostIds
    PROVE  /\ IsFiniteSet(TagSet(p)) /\ TagSet(p) \subseteq TagSlugs
           /\ \A t \in TagSet(p) :
                 tags[t] \in Texts /\ tags[t] # Blank /\ Slugify[tags[t]] = t
  <1>1. TagSet(p) \subseteq TagSlugs
    BY DEF StoreInv, StoreTypeOK, TagSet
  <1>2. CASE posts[p] = NoRow
    BY <1>1, <1>2, FS_EmptySet DEF StoreInv, TagsMatchContent
  <1>3. CASE posts[p] # NoRow
    <2>1. PICK f \in Forms : /\ TagSet(p) = TagsOf(f)
                             /\ \A t \in TagSet(p) : tags[t] # Blank
      BY <1>3 DEF StoreInv, TagsMatchContent
    <2>2. f.tags \in Seq(Texts)
      BY FormsAssumption
    <2>3. IsFiniteSet(1 .. Len(f.tags)) /\ DOMAIN f.tags = 1 .. Len(f.tags)
      BY <2>2, FS_Interval
    <2>4. IsFiniteSet(FirstUses(f))
      <3>1. FirstUses(f) \subseteq DOMAIN f.tags
        BY DEF FirstUses, Named
      <3> QED
        BY <2>3, <3>1, FS_Subset
    <2> DEFINE slug == [i \in FirstUses(f) |-> TagSlug(f, i)]
    <2>5. slug \in Surjection(FirstUses(f), TagsOf(f))
      BY DEF Surjection, TagsOf
    <2>6. IsFiniteSet(TagsOf(f))
      BY <2>4, <2>5, FS_Surjection
    <2> QED
      BY <1>1, <2>1, <2>6 DEF StoreInv, NamesFit, StoreTypeOK
  <1> QED
    BY <1>2, <1>3
\* tags_csv lists every tag of the post.
LEMMA CsvListsTags ==
    ASSUME StoreInv, NEW p \in PostIds
    PROVE  CsvShows(TagsCsv(p), p)
  <1> DEFINE S == TagSet(p)
             N == Cardinality(S)
             key == [t \in S |-> ByName[tags[t]]]
             place(t) == Place(S, key, t)
             csv == TagsCsv(p)
  <1>1. /\ IsFiniteSet(S)
        /\ \A t \in S : tags[t] \in Texts /\ Slugify[tags[t]] = t
    BY TagSetFacts
  <1>2. key \in [S -> Nat] /\ \A t, u \in S : t # u => key[t] # key[u]
    <2>1. \A t, u \in S : t # u => tags[t] # tags[u]
      BY <1>1
    <2> QED
      BY <1>1, <2>1, EditingAssumption
  <1>3. \A t \in S : {u \in S : ByName[tags[u]] < ByName[tags[t]]} = {u \in S : key[u] < key[t]}
    OBVIOUS
  <1>4. csv = [n \in 1 .. N |-> tags[CHOOSE t \in S :
                  Cardinality({u \in S : ByName[tags[u]] < ByName[tags[t]]}) = n - 1]]
    BY DEF TagsCsv
  <1> HIDE DEF key, S
  <1>5. /\ \A n \in 1 .. N : \E t \in S : place(t) = n - 1
        /\ \A t \in S : \E n \in 1 .. N : place(t) = n - 1
        /\ \A t, u \in S : place(t) = place(u) => t = u
    BY <1>1, <1>2, PlacesOnto
  <1>6. \A t \in S : Cardinality({u \in S : ByName[tags[u]] < ByName[tags[t]]}) = place(t)
    BY <1>3 DEF Place, S
  <1> DEFINE At(n) == CHOOSE t \in S :
                 Cardinality({u \in S : ByName[tags[u]] < ByName[tags[t]]}) = n - 1
  <1>7. DOMAIN csv = 1 .. N /\ \A n \in 1 .. N : csv[n] = tags[At(n)]
    BY <1>4
  <1> HIDE DEF csv, N, place
  <1>8. \A n \in 1 .. N : At(n) \in S /\ place(At(n)) = n - 1
    <2> TAKE n \in 1 .. N
    <2>1. \E t \in S : Cardinality({u \in S : ByName[tags[u]] < ByName[tags[t]]}) = n - 1
      BY <1>5, <1>6
    <2>2. /\ At(n) \in S
          /\ Cardinality({u \in S : ByName[tags[u]] < ByName[tags[At(n)]]}) = n - 1
      BY <2>1
    <2> HIDE DEF At
    <2> QED
      BY <1>6, <2>2
  <1> HIDE DEF At
  <1>9. ASSUME NEW t \in S
        PROVE  \E n \in 1 .. N : csv[n] = tags[t]
    <2>1. PICK n \in 1 .. N : place(t) = n - 1
      BY <1>5
    <2>2. At(n) = t
      BY <1>5, <1>8, <2>1
    <2> QED
      BY <1>7, <2>2
  <1>10. {csv[i] : i \in DOMAIN csv} = {tags[t] : t \in S}
    <2>1. ASSUME NEW i \in DOMAIN csv
          PROVE  csv[i] \in {tags[t] : t \in S}
      <3>1. i \in 1 .. N /\ csv[i] = tags[At(i)] /\ At(i) \in S
        BY <1>7, <1>8, <2>1
      <3> QED
        BY <3>1
    <2>2. ASSUME NEW t \in S
          PROVE  tags[t] \in {csv[i] : i \in DOMAIN csv}
      <3>1. PICK n \in 1 .. N : csv[n] = tags[t]
        BY <1>9
      <3>2. n \in DOMAIN csv
        BY <1>7
      <3> QED
        BY <3>1, <3>2
    <2> QED
      BY <2>1, <2>2
  <1> QED
    BY <1>10 DEF CsvShows, csv, S

\* Among the entries with one slug there is a first.
LEMMA FirstUse ==
    ASSUME NEW f \in Forms, NEW i \in Named(f)
    PROVE  \E j \in FirstUses(f) : TagSlug(f, j) = TagSlug(f, i)
  <1> DEFINE Same == {j \in Named(f) : Slugify[f.tags[j]] = Slugify[f.tags[i]]}
  <1>1. Same \subseteq Nat /\ i \in Same
    <2>1. f.tags \in Seq(Texts)
      BY FormsAssumption
    <2> QED
      BY <2>1 DEF Named
  <1>2. PICK j \in Same : \A k \in Same : ~(k < j)
    <2> DEFINE id == [k \in Same |-> k]
               Before(j) == {k \in Same : id[k] < id[j]}
               place(j) == Place(Same, id, j)
    <2>1. IsFiniteSet(Same)
      <3>1. f.tags \in Seq(Texts)
        BY FormsAssumption
      <3>2. Same \subseteq 1 .. Len(f.tags) /\ IsFiniteSet(1 .. Len(f.tags))
        BY <3>1, FS_Interval DEF Named
      <3> QED
        BY <3>2, FS_Subset
    <2>2. id \in [Same -> Nat] /\ \A j, k \in Same : j # k => id[j] # id[k]
      BY <1>1
    <2>3. \A j \in Same : Before(j) \subseteq Same /\ \A k \in Same : k < j => k \in Before(j)
      OBVIOUS
    <2>4. Cardinality(Same) \in Nat /\ Cardinality(Same) # 0
      BY <1>1, <2>1, FS_EmptySet, FS_CardinalityType
    <2> HIDE DEF id, Same
    <2>5. \A n \in 1 .. Cardinality(Same) : \E j \in Same : place(j) = n - 1
      BY <2>1, <2>2, PlacesOnto
    <2>6. PICK j \in Same : Cardinality(Before(j)) = 0
      BY <2>4, <2>5 DEF Place
    <2> HIDE DEF Before, place
    <2>7. Before(j) = {}
      BY <2>1, <2>3, <2>6, FS_Subset, FS_EmptySet
    <2> QED
      BY <2>3, <2>7
  <1>3. j \in FirstUses(f)
    <2> SUFFICES ASSUME NEW k \in Named(f), k < j
                 PROVE  Slugify[f.tags[k]] # Slugify[f.tags[j]]
      BY <1>1, <1>2 DEF FirstUses
    <2>1. f.tags \in Seq(Texts)
      BY FormsAssumption
    <2>2. k \in Nat /\ j \in Nat
      BY <1>1, <2>1 DEF Named
    <2> QED
      BY <1>2, <2>2
  <1> QED
    BY <1>2, <1>3 DEF TagSlug

\* What the form shows of the tags is what parse_tags makes of it.
LEMMA TagsReturn ==
    ASSUME StoreInv, NEW p \in PostIds, NEW f \in Forms, CsvShows(f.tags, p)
    PROVE  TagsAre(p, f)
  <1>1. \A t \in TagSet(p) : tags[t] # Blank /\ Slugify[tags[t]] = t
    BY TagSetFacts
  <1>2. \A i \in DOMAIN f.tags : \E t \in TagSet(p) : f.tags[i] = tags[t]
    BY DEF CsvShows
  <1>3. \A t \in TagSet(p) : \E i \in DOMAIN f.tags : f.tags[i] = tags[t]
    BY DEF CsvShows
  <1>4. ASSUME NEW i \in DOMAIN f.tags
        PROVE  TagSlug(f, i) \in TagSet(p) /\ f.tags[i] = tags[TagSlug(f, i)]
    BY <1>1, <1>2 DEF TagSlug
  <1>5. FirstUses(f) \subseteq DOMAIN f.tags
    BY DEF FirstUses, Named
  <1>6. ASSUME NEW t \in TagSet(p)
        PROVE  t \in TagsOf(f)
    <2>1. PICK i \in DOMAIN f.tags : f.tags[i] = tags[t]
      BY <1>3
    <2>2. i \in Named(f) /\ TagSlug(f, i) = t
      BY <1>1, <2>1 DEF Named, TagSlug
    <2> QED
      BY <2>2, FirstUse DEF TagsOf
  <1>7. TagsOf(f) = TagSet(p)
    BY <1>4, <1>5, <1>6 DEF TagsOf
  <1>8. ASSUME NEW t \in TagsOf(f)
        PROVE  TagName(f, t) = tags[t]
    <2>1. \E i \in FirstUses(f) : TagSlug(f, i) = t
      BY DEF TagsOf
    <2>2. PICK i \in FirstUses(f) : TagName(f, t) = f.tags[i] /\ TagSlug(f, i) = t
      BY <2>1 DEF TagName
    <2> QED
      BY <1>4, <1>5, <2>2
  <1> QED
    BY <1>7, <1>8 DEF TagsAre

\* Saving them changes neither a name nor a link.
LEMMA TagsSavedAgain ==
    ASSUME StoreInv, NEW p \in PostIds, NEW f \in Forms, TagsAre(p, f)
    PROVE  Renamed(f) = tags /\ Retagged(p, TagsOf(f)) = links
  <1>1. Renamed(f) = tags
    BY DEF Renamed, TagsAre, StoreInv, StoreTypeOK
  <1>2. links \subseteq PostIds \X TagSlugs
    BY DEF StoreInv, StoreTypeOK
  <1>3. ASSUME NEW l \in links, l[1] = p
        PROVE  l \in {p} \X TagsOf(f)
    <2>1. l[2] \in TagSet(p)
      BY <1>3 DEF TagSet
    <2>2. l = <<l[1], l[2]>>
      BY <1>2
    <2> QED
      BY <1>3, <2>1, <2>2 DEF TagsAre
  <1>4. ASSUME NEW t \in TagsOf(f)
        PROVE  <<p, t>> \in links
    <2>1. PICK m \in links : m[1] = p /\ m[2] = t
      BY DEF TagsAre, TagSet
    <2> QED
      BY <1>2, <2>1
  <1>5. Retagged(p, TagsOf(f)) = links
    BY <1>2, <1>3, <1>4 DEF Retagged
  <1> QED
    BY <1>1, <1>5

----------------------------------------------------------------------------
(* What a request still knows of its post when it writes.                  *)

\* From load_post to the write.
Carry == {"resolve", "begin", "write"} \cup InTx

\* Nobody else has changed the post since the page was opened, or since the
\* request that this one repeats took effect.
Undisturbed(r) == ~stale[r] \/ (again[r] # r /\ took[again[r]] = "yes")

\* A repeated request is the same request as the one that was answered with
\* an error; only a create has a new post.
Repeats(r) ==
    again[r] # r =>
        /\ pc[r] # "idle" /\ pc[again[r]] = "error"
        /\ call[r].op = call[again[r]].op
        /\ call[r].op # "create" =>
              /\ call[r].post = call[again[r]].post
              /\ call[r].form = call[again[r]].form

\* What the write of r has made of the tables is still there.
Wrote(r) ==
  \A p \in PostIds : p = call[r].post =>
    /\ call[r].op = "update" =>
          /\ posts[p] # NoRow
          /\ posts[p].content = Content(call[r].form)
          /\ posts[p].status = call[r].form.status
          /\ TagsAre(p, call[r].form)
    /\ call[r].op = "publish" => posts[p] # NoRow /\ posts[p].status = "published"
    /\ call[r].op = "unpublish" => posts[p] # NoRow /\ posts[p].status = "draft"
    /\ call[r].op = "delete" => posts[p] = NoRow

Lasting(r) == took[r] = "yes" => pc[r] \in Answers /\ Wrote(r)

\* An undisturbed request knows the date of its post, and has not tried
\* another slug if the post has the one that its form asks for.
LoadedNow(r) ==
    Undisturbed(r) /\ pc[r] \in Carry /\ call[r].op \in {"update", "publish"} =>
      \A p \in PostIds : p = call[r].post =>
        /\ posts[p] # NoRow /\ local[r].seen = posts[p].published_at
        /\ call[r].op = "update" /\ posts[p].slug = BaseSlug(call[r].form)
              => local[r].attempt = 1

\* Tags nobody edited are those of the page's form, and as long as nobody
\* else changed the post they are its tags, as its slug is the one shown.
TagsSent(r) ==
    desk[r].page = "form" /\ "tags" \notin edited[r] /\ pc[r] # "idle" =>
        call[r].form.tags = desk[r].form.tags

FormCurrent(r) ==
    ~stale[r] /\ desk[r].page = "form" =>
      \A p \in PostIds : p = desk[r].post =>
        /\ "tags" \notin edited[r] => CsvShows(desk[r].form.tags, p)
        /\ "slug" \notin edited[r] => posts[p].slug = desk[r].row.slug

RoundTrip(r) ==
    Repeats(r) /\ Lasting(r) /\ LoadedNow(r) /\ TagsSent(r) /\ FormCurrent(r)

RoundTrips == \A r \in Requests : RoundTrip(r)

LEMMA InitRoundTrips == EditInit => RoundTrips
  <1> SUFFICES ASSUME EditInit, NEW r \in Requests PROVE RoundTrip(r)
    BY DEF RoundTrips
  <1>1. /\ pc[r] = "idle" /\ again[r] = r /\ took[r] = "no" /\ desk[r].page = "none"
    BY DEF EditInit, AdminInit, NoPage
  <1> QED
    BY <1>1 DEF RoundTrip, Repeats, Lasting, LoadedNow, Carry, InTx, TagsSent,
                FormCurrent

\* A request to which nothing happened.
Still(q) ==
    /\ desk'[q] = desk[q] /\ pc'[q] = pc[q] /\ call'[q] = call[q]
    /\ local'[q] = local[q] /\ edited'[q] = edited[q] /\ stale'[q] = stale[q]
    /\ again'[q] = again[q] /\ took'[q] = took[q]

\* What the other requests of a step keep: the post as they know it.
Same(p) ==
    /\ posts'[p] = posts[p] /\ TagSet(p)' = TagSet(p)
    /\ \A t \in TagSet(p) : tags'[t] = tags[t]

LEMMA TablesKept ==
    ASSUME UnchangedDb, NEW p
    PROVE  Same(p)
  <1>1. tags' = tags /\ links' = links /\ posts' = posts
    BY DEF UnchangedDb
  <1>2. TagSet(p)' = TagSet(p)
    BY <1>1 DEF TagSet
  <1> QED
    BY <1>1, <1>2 DEF Same

LEMMA WroteStays ==
    ASSUME NEW q, Wrote(q), call'[q] = call[q],
           \A p \in PostIds : p = call[q].post => Same(p)
    PROVE  Wrote(q)'
  <1> SUFFICES ASSUME NEW p \in PostIds, p = call[q].post
               PROVE  /\ call[q].op = "update" =>
                            /\ posts'[p] # NoRow
                            /\ posts'[p].content = Content(call[q].form)
                            /\ posts'[p].status = call[q].form.status
                            /\ TagsOf(call[q].form) = TagSet(p)'
                            /\ \A t \in TagsOf(call[q].form) :
                                  TagName(call[q].form, t) = tags'[t]
                      /\ call[q].op = "publish" =>
                            posts'[p] # NoRow /\ posts'[p].status = "published"
                      /\ call[q].op = "unpublish" =>
                            posts'[p] # NoRow /\ posts'[p].status = "draft"
                      /\ call[q].op = "delete" => posts'[p] = NoRow
    BY DEF Wrote, TagsAre
  <1> QED
    BY DEF Same, Wrote, TagsAre

LEMMA FormStaysCurrent ==
    ASSUME NEW q, FormCurrent(q), desk'[q] = desk[q], edited'[q] = edited[q],
           ~stale'[q] => ~stale[q] /\ \A p \in PostIds : p = desk[q].post => Same(p)
    PROVE  FormCurrent(q)'
  <1> SUFFICES ASSUME NEW p \in PostIds, p = desk[q].post, ~stale'[q], desk[q].page = "form"
               PROVE  /\ "tags" \notin edited[q] => CsvShows(desk[q].form.tags, p)'
                      /\ "slug" \notin edited[q] => posts'[p].slug = desk[q].row.slug
    BY DEF FormCurrent, CsvShows
  <1> QED
    BY DEF FormCurrent, CsvShows, Same

\* The tables did not change, and one request at most, which had not been
\* sent.
LEMMA OneTrip ==
    ASSUME RoundTrips, HistoryTypeOK, NEW r \in Requests, pc[r] = "idle", UnchangedDb,
           \A q \in Requests \ {r} : Still(q), took' = took,
           Repeats(r)', LoadedNow(r)', TagsSent(r)', FormCurrent(r)'
    PROVE  RoundTrips'
  <1>1. ASSUME NEW q \in Requests, q # r
        PROVE  RoundTrip(q)'
    <2>1. RoundTrip(q) /\ Still(q) /\ again[q] \in Requests
      BY <1>1 DEF RoundTrips, HistoryTypeOK
    <2>2. again[q] # q => again[q] # r
      BY <2>1 DEF RoundTrip, Repeats
    <2>3. again[q] # q => Still(again[q])
      BY <2>1, <2>2
    <2>4. Repeats(q)'
      BY <2>1, <2>3 DEF Still, RoundTrip, Repeats
    <2>5. Lasting(q)'
      <3>1. took'[q] = "yes" => pc'[q] \in Answers /\ Wrote(q)
        BY <2>1 DEF Still, RoundTrip, Lasting
      <3>2. call'[q] = call[q] /\ \A p \in PostIds : Same(p)
        BY <2>1, TablesKept DEF Still
      <3> QED
        BY <3>1, <3>2, WroteStays DEF Lasting
    <2>6. LoadedNow(q)'
      BY <2>1 DEF Still, RoundTrip, LoadedNow, Undisturbed, UnchangedDb
    <2>7. TagsSent(q)'
      BY <2>1 DEF Still, RoundTrip, TagsSent
    <2>8. FormCurrent(q)'
      <3>1. /\ desk'[q] = desk[q] /\ edited'[q] = edited[q] /\ stale'[q] = stale[q]
            /\ FormCurrent(q)
        BY <2>1 DEF Still, RoundTrip
      <3>2. \A p \in PostIds : Same(p)
        BY TablesKept
      <3> QED
        BY <3>1, <3>2, FormStaysCurrent
    <2> QED
      BY <2>4, <2>5, <2>6, <2>7, <2>8 DEF RoundTrip
  <1>2. Lasting(r)'
    BY DEF RoundTrips, RoundTrip, Lasting, Answers
  <1> QED
    BY <1>1, <1>2 DEF RoundTrips, RoundTrip
\* What a request that has not been sent owes: nothing but its page.
LEMMA IdleTrip ==
    ASSUME RoundTrips, NEW r \in Requests, pc[r] = "idle"
    PROVE  again[r] = r
  BY DEF RoundTrips, RoundTrip, Repeats

LEMMA OpenTrip ==
    ASSUME EditInv, EditInv', StoreInv, RoundTrips, NEW r \in Requests,
           Open(r) \/ (FillTags(r) /\ UNCHANGED past)
    PROVE  RoundTrips'
  <1>1. /\ UNCHANGED <<posts, tags, links, call, pc, local, edited, stale, took, again>>
        /\ \E page : Show(r, page)
        /\ HistoryTypeOK /\ desk \in [Requests -> Desks]
    BY DEF Open, OpenNew, OpenEdit, OpenDashboard, OpenDeleteConfirm, FillTags,
           SameAdmin, allVars, past, EditInv, DeskTypeOK
  <1>2. \A q \in Requests \ {r} : Still(q)
    BY <1>1 DEF Still, Show
  <1>3. pc[r] = "idle"
    <2>1. CASE FillTags(r)
      BY <2>1, CallFacts DEF FillTags, EditInv, DesksFit, SentFromPage, IInv
    <2> QED
      BY <2>1 DEF Open, OpenNew, OpenEdit, OpenDashboard, OpenDeleteConfirm, AtDesk
  <1>4. again[r] = r
    BY <1>3, IdleTrip
  <1>5. Repeats(r)' /\ LoadedNow(r)' /\ TagsSent(r)'
    BY <1>1, <1>3, <1>4 DEF Repeats, LoadedNow, Carry, InTx, TagsSent
  <1>6. FormCurrent(r)'
    <2>1. CASE Open(r)
      <3>1. \E page : desk' = [desk EXCEPT ![r] = page] /\ page.page # "form"
        <4>1. CASE OpenNew(r)
          <5>1. [NoPage(r) EXCEPT !.page = "new", !.form = EmptyForm].page = "new"
            BY DEF NoPage
          <5> HIDE DEF NoPage
          <5> QED
            BY <4>1, <5>1 DEF OpenNew, Show
        <4>2. ASSUME NEW p, NEW kind \in {"row", "dashboard", "confirm"},
                     Show(r, Page(kind, p))
              PROVE  \E page : desk' = [desk EXCEPT ![r] = page] /\ page.page # "form"
          <5>1. Page(kind, p).page = kind
            BY DEF Page
          <5> HIDE DEF Page
          <5> QED
            BY <4>2, <5>1 DEF Show
        <4> QED
          BY <2>1, <4>1, <4>2 DEF Open, OpenEdit, OpenDashboard, OpenDeleteConfirm
      <3>2. desk'[r].page # "form"
        BY <1>1, <3>1
      <3> QED
        BY <3>2 DEF FormCurrent
    <2>2. CASE FillTags(r)
      <3>0. PICK csv : csv = TagsCsv(desk[r].post)
        OBVIOUS
      <3>1. desk[r] \in Desks
        BY <1>1
      <3>2. PICK p \in PostIds : p = desk[r].post /\ csv = TagsCsv(p)
        BY <3>0, <3>1 DEF Desks
      <3>3. PICK form : /\ form = Filled(FormShowing(desk[r].row, csv))
                        /\ desk[r].page = "row"
                        /\ desk' = [desk EXCEPT ![r] =
                                       [desk[r] EXCEPT !.page = "form", !.form = form]]
        BY <2>2, <3>2 DEF FillTags, Show
      <3>4. desk'[r] = [desk[r] EXCEPT !.page = "form", !.form = form]
        BY <1>1, <3>3
      <3>5. desk'[r].post = p /\ desk'[r].row = desk[r].row /\ desk'[r].form = form
        BY <3>1, <3>2, <3>4 DEF Desks
      <3>6. form.tags = csv
        BY <3>3 DEF Filled, FormShowing
      <3>7. ~stale[r] => posts[p] = desk[r].row
        BY <3>2, <3>3 DEF EditInv, DesksFit, PostSeen
      <3>8. CsvShows(csv, p)'
        <4>1. CsvShows(csv, p)
          BY <3>2, CsvListsTags
        <4>2. Same(p)
          BY <1>1, TablesKept DEF UnchangedDb
        <4> QED
          BY <4>1, <4>2 DEF CsvShows, Same
      <3>9. stale'[r] = stale[r] /\ posts' = posts /\ desk'[r].form.tags = csv
        BY <1>1, <3>5, <3>6
      <3>10. ~stale'[r] => posts'[p].slug = desk'[r].row.slug
        BY <3>5, <3>7, <3>9
      <3> QED
        BY <3>5, <3>8, <3>9, <3>10 DEF FormCurrent, CsvShows
    <2> QED
      BY <2>1, <2>2
  <1> QED
    BY <1>1, <1>2, <1>3, <1>5, <1>6, OneTrip DEF UnchangedDb
\* A request that has just been sent has not loaded its post.
LEMMA Departs ==
    ASSUME EditInv, NEW r \in Requests, NEW c, Sends(r, c)
    PROVE  /\ pc[r] = "idle" /\ call'[r] = c /\ UnchangedDb
           /\ \A q \in Requests \ {r} :
                 pc'[q] = pc[q] /\ call'[q] = call[q] /\ local'[q] = local[q]
           /\ LoadedNow(r)'
  <1>1. /\ pc[r] = "idle" /\ call'[r] = c /\ UnchangedDb
        /\ \A q \in Requests \ {r} : pc'[q] = pc[q] /\ call'[q] = call[q]
    BY SendsFacts
  <1>2. /\ local' = local
        /\ pc' = [pc EXCEPT ![r] = IF c.op = "create" THEN Checked(c.form) ELSE "load"]
    BY DEF Sends, Arrive, Goto
  <1>3. call'[r].op # "create" => pc'[r] = "load"
    BY <1>1, <1>2 DEF EditInv, IInv, TypeOK
  <1>4. LoadedNow(r)'
    BY <1>3 DEF LoadedNow, Carry, InTx
  <1> QED
    BY <1>1, <1>2, <1>4

LEMMA SendTrip ==
    ASSUME EditInv, RoundTrips, NEW r \in Requests, Send(r)
    PROVE  RoundTrips'
  <1>1. PICK c : Sends(r, c) /\ \/ desk[r].page # "form"
                                \/ edited'[r] = edited[r] \cup Differences(desk[r].form, c.form)
    <2>1. CASE SubmitNew(r) \/ PressToggle(r) \/ PressDelete(r)
      BY <2>1 DEF SubmitNew, PressToggle, PressDelete
    <2>2. CASE SubmitEdit(r)
      <3>1. PICK f \in Forms :
               /\ Sends(r, [op |-> "update", post |-> desk[r].post, form |-> f])
               /\ edited' = [edited EXCEPT ![r] = @ \cup Differences(desk[r].form, f)]
        BY <2>2 DEF SubmitEdit
      <3>2. edited'[r] = edited[r] \cup Differences(desk[r].form, f)
        BY <3>1 DEF EditInv, HistoryTypeOK
      <3> QED
        BY <3>1, <3>2
    <2> QED
      BY <2>1, <2>2 DEF Send
  <1>2. /\ UNCHANGED <<desk, stale, took, again>>
        /\ \A q \in Requests \ {r} : edited'[q] = edited[q]
        /\ edited[r] \subseteq edited'[r]
    <2>1. CASE SubmitNew(r) \/ PressToggle(r) \/ PressDelete(r)
      BY <2>1 DEF SubmitNew, PressToggle, PressDelete, past
    <2>2. CASE SubmitEdit(r)
      <3>1. PICK f : edited' = [edited EXCEPT ![r] = @ \cup Differences(desk[r].form, f)]
        BY <2>2 DEF SubmitEdit
      <3>2. edited \in [Requests -> SUBSET Fields]
        BY DEF EditInv, HistoryTypeOK
      <3>3. UNCHANGED <<desk, stale, took, again>>
        BY <2>2 DEF SubmitEdit
      <3> QED
        BY <3>1, <3>2, <3>3
    <2> QED
      BY <2>1, <2>2 DEF Send
  <1>3. /\ pc[r] = "idle" /\ call'[r] = c /\ UnchangedDb
        /\ \A q \in Requests \ {r} :
              pc'[q] = pc[q] /\ call'[q] = call[q] /\ local'[q] = local[q]
        /\ LoadedNow(r)'
    BY <1>1, Departs
  <1>4. \A q \in Requests \ {r} : Still(q)
    BY <1>2, <1>3 DEF Still
  <1>5. Repeats(r)'
    BY <1>2, <1>3, IdleTrip DEF Repeats
  <1>6. TagsSent(r)'
    BY <1>1, <1>2, <1>3 DEF TagsSent, Differences, Fields
  <1>7. FormCurrent(r)'
    <2>1. \A p \in PostIds : Same(p)
      BY <1>3, TablesKept
    <2> SUFFICES ASSUME NEW p \in PostIds, p = desk[r].post, ~stale[r], desk[r].page = "form"
                 PROVE  /\ "tags" \notin edited[r] => CsvShows(desk[r].form.tags, p)'
                        /\ "slug" \notin edited[r] => posts'[p].slug = desk[r].row.slug
      BY <1>2 DEF FormCurrent, CsvShows
    <2> QED
      BY <1>2, <2>1 DEF RoundTrips, RoundTrip, FormCurrent, CsvShows, Same
  <1> QED
    BY <1>2, <1>3, <1>4, <1>5, <1>6, <1>7, OneTrip DEF EditInv

\* The page of a rejected form, on another desk.
LEMMA CorrectTrip ==
    ASSUME EditInv, EditInv', RoundTrips, NEW q \in Requests, NEW r \in Requests,
           Correct(q, r)
    PROVE  RoundTrips'
  <1>1. /\ pc[q] = "idle" /\ pc[r] = "invalid"
        /\ UNCHANGED <<posts, tags, links, pc, call, local, took, again>>
        /\ edited' = [edited EXCEPT ![q] = edited[r]]
        /\ stale' = [stale EXCEPT ![q] = stale[r]]
        /\ \E page : desk' = [desk EXCEPT ![q] = page]
    BY DEF Correct, AtDesk, SameAdmin, allVars, Show
  <1>2. /\ HistoryTypeOK /\ desk \in [Requests -> Desks] /\ desk[r] \in Desks
        /\ SentFromPage(r) /\ RoundTrip(r) /\ again[q] = q
    BY <1>1, IdleTrip DEF EditInv, DeskTypeOK, DesksFit, RoundTrips
  <1>3. \A o \in Requests \ {q} : Still(o)
    BY <1>1, <1>2 DEF Still, HistoryTypeOK
  <1>4. Repeats(q)' /\ LoadedNow(q)' /\ TagsSent(q)'
    BY <1>1, <1>2 DEF Repeats, LoadedNow, Carry, InTx, TagsSent
  <1>5. FormCurrent(q)'
    <2>1. /\ stale'[q] = stale[r] /\ edited'[q] = edited[r]
      BY <1>1, <1>2 DEF HistoryTypeOK
    <2>2. desk'[q].page = "form" =>
             /\ desk[r].page = "form" /\ desk'[q].post = desk[r].post
             /\ desk'[q].row = desk[r].row
             /\ desk'[q].form.tags = call[r].form.tags
      <3>1. PICK g : g = Filled(call[r].form) /\ g.tags = call[r].form.tags
        <4>1. Saves(r)
          BY <1>1, <1>2 DEF SentFromPage
        <4>2. call[r].form \in Forms
          BY <4>1, CallFacts DEF Saves, EditInv, IInv
        <4> QED
          BY <4>2, EditingAssumption, FilledFields
      <3>2. PICK page : /\ page = [desk[r] EXCEPT !.form = g]
                        /\ desk' = [desk EXCEPT ![q] = IF page.page = "new"
                                      THEN [page EXCEPT !.post = q] ELSE page]
        BY <3>1 DEF Correct, Show
      <3>3. /\ page.page = desk[r].page /\ page.post = desk[r].post
            /\ page.row = desk[r].row /\ page.form = g
        BY <1>2, <3>2 DEF Desks
      <3>4. desk'[q] = IF page.page = "new" THEN [page EXCEPT !.post = q] ELSE page
        BY <1>2, <3>2
      <3>5. [page EXCEPT !.post = q].page = page.page
        OBVIOUS
      <3> QED
        BY <3>1, <3>3, <3>4, <3>5
    <2>3. \A p \in PostIds : Same(p)
      BY <1>1, TablesKept DEF UnchangedDb
    <2> SUFFICES ASSUME NEW p \in PostIds, p = desk[r].post, ~stale[r], desk[r].page = "form"
                 PROVE  /\ "tags" \notin edited[r] => CsvShows(call[r].form.tags, p)'
                        /\ "slug" \notin edited[r] => posts'[p].slug = desk[r].row.slug
      BY <1>1, <2>1, <2>2 DEF FormCurrent, CsvShows
    <2>4. "tags" \notin edited[r] => call[r].form.tags = desk[r].form.tags
      BY <1>1, <1>2 DEF RoundTrip, TagsSent
    <2> QED
      BY <1>1, <1>2, <2>3, <2>4 DEF RoundTrip, FormCurrent, CsvShows, Same
  <1> QED
    BY <1>1, <1>3, <1>4, <1>5, OneTrip DEF UnchangedDb, EditInv

\* A request that repeats one which was answered with an error.
LEMMA SendAgainTrip ==
    ASSUME EditInv, RoundTrips, NEW q \in Requests, NEW r \in Requests, SendAgain(q, r)
    PROVE  RoundTrips'
  <1>1. PICK c : c = [call[r] EXCEPT !.post = IF call[r].op = "create" THEN q ELSE @]
    OBVIOUS
  <1>2. /\ pc[q] = "idle" /\ pc[r] = "error" /\ Sends(q, c)
        /\ desk' = [desk EXCEPT ![q] = desk[r]]
        /\ edited' = [edited EXCEPT ![q] = edited[r]]
        /\ stale' = [stale EXCEPT ![q] = stale[r]]
        /\ again' = [again EXCEPT ![q] = r] /\ took' = took
    BY <1>1 DEF SendAgain, AtDesk, Show
  <1>3. /\ HistoryTypeOK /\ desk \in [Requests -> Desks] /\ RoundTrip(r)
    BY DEF EditInv, DeskTypeOK, RoundTrips
  <1>4. /\ c.op = call[r].op /\ c.form = call[r].form
        /\ c.op # "create" => c.post = call[r].post
    <2>1. call[r] \in [op : Ops \cup {"none"}, post : PostIds, form : Forms \cup {NoForm}]
      BY DEF EditInv, IInv, TypeOK
    <2> QED
      BY <1>1, <2>1
  <1>5. /\ call'[q] = c /\ UnchangedDb
        /\ \A o \in Requests \ {q} :
              pc'[o] = pc[o] /\ call'[o] = call[o] /\ local'[o] = local[o]
        /\ LoadedNow(q)'
    BY <1>2, Departs
  <1>6. /\ desk'[q] = desk[r] /\ edited'[q] = edited[r] /\ stale'[q] = stale[r]
        /\ again'[q] = r /\ q # r /\ pc'[q] # "idle"
        /\ \A o \in Requests \ {q} : Still(o)
    <2>1. pc'[q] # "idle"
      BY <1>2, SendsFacts
    <2> QED
      BY <1>2, <1>3, <1>5, <2>1 DEF Still, HistoryTypeOK
  <1>7. Repeats(q)'
    BY <1>2, <1>4, <1>5, <1>6 DEF Repeats
  <1>8. TagsSent(q)'
    BY <1>2, <1>3, <1>4, <1>5, <1>6 DEF RoundTrip, TagsSent
  <1>9. FormCurrent(q)'
    <2>1. \A p \in PostIds : Same(p)
      BY <1>5, TablesKept
    <2>2. PICK csv : csv = desk[r].form.tags
      OBVIOUS
    <2>3. PICK row : row = desk[r].row
      OBVIOUS
    <2> SUFFICES ASSUME NEW p \in PostIds, p = desk[r].post, ~stale[r], desk[r].page = "form"
                 PROVE  /\ "tags" \notin edited[r] => CsvShows(csv, p)'
                        /\ "slug" \notin edited[r] => posts'[p].slug = row.slug
      BY <1>6, <2>2, <2>3 DEF FormCurrent, CsvShows
    <2> QED
      BY <1>3, <2>1, <2>2, <2>3 DEF RoundTrip, FormCurrent, CsvShows, Same
  <1> QED
    BY <1>2, <1>5, <1>6, <1>7, <1>8, <1>9, OneTrip DEF EditInv
\* What a handler that goes on towards its write still knows.
LEMMA HandleCarries ==
    ASSUME EditInv, NEW r \in Requests, Acts(r), pc[r] # "idle", pc'[r] \in Carry,
           call[r].op \in {"update", "publish"}
    PROVE  /\ UnchangedDb
           /\ \/ /\ pc[r] = "load" /\ posts[call[r].post] # NoRow
                 /\ local'[r].seen = posts[call[r].post].published_at
                 /\ local'[r].attempt = 1
              \/ /\ pc[r] \in Carry /\ local'[r].seen = local[r].seen
                 /\ local'[r].attempt = local[r].attempt \/ ~SlugAvailable(r)
  <1>1. TypeOK /\ WritesValidated
    BY DEF EditInv, IInv
  <1>2. UnchangedDb
    BY <1>1, DbSteps DEF Carry, InTx, Answers
  <1> DEFINE Knows ==
        \/ /\ pc[r] = "load" /\ posts[call[r].post] # NoRow
           /\ local'[r].seen = posts[call[r].post].published_at
           /\ local'[r].attempt = 1
        \/ /\ pc[r] \in Carry /\ local'[r].seen = local[r].seen
           /\ local'[r].attempt = local[r].attempt \/ ~SlugAvailable(r)
  <1>3. local \in [Requests -> LocalType] /\ pc \in [Requests -> {"idle"} \cup InFlight \cup Answers]
    BY <1>1 DEF TypeOK, LocalType
  <1>4. pc[r] = "load" => local[r].attempt = 1
    BY <1>1 DEF WritesValidated, Validated, Fresh
  <1>5. ASSUME NEW s, NEW old, TakeStamp(r, s, old)
        PROVE  local'[r].seen = old /\ local'[r].attempt = local[r].attempt
    <2>1. local'[r] = [local[r] EXCEPT !.seen = old, !.date = Stamp(s, old, clock + 1)]
      BY <1>3, <1>5 DEF TakeStamp
    <2> QED
      BY <1>3, <2>1 DEF LocalType
  <1>6. ASSUME NEW a, a \in Answers \cup {"not_found"}, Answer(r, a) PROVE FALSE
    BY <1>3, <1>6 DEF Answer, Goto, Carry, InTx, Answers
  <1>7. ~(Receive(r) \/ ReceiveMalformedId(r))
    BY DEF Receive, Arrive, ReceiveMalformedId
  <1>8. ASSUME LoadForUpdate(r) PROVE Knows
    <2>1. pc[r] = "load" /\ Loaded(r) # NoRow /\ pc'[r] = Checked(call[r].form)
      BY <1>3, <1>8 DEF LoadForUpdate, Goto
    <2>2. Checked(call[r].form) = "resolve"
      BY <2>1 DEF Checked, Carry, InTx
    <2>3. local'[r] = [local[r] EXCEPT !.seen = Loaded(r).published_at]
      BY <1>3, <1>8, <2>2 DEF LoadForUpdate
    <2> QED
      BY <1>3, <1>4, <2>1, <2>3 DEF LocalType, Loaded
  <1>9. ASSUME LoadForPublish(r) PROVE Knows
    BY <1>4, <1>5, <1>9 DEF LoadForPublish, Loaded
  <1>10. ASSUME SlugFree(r) PROVE Knows
    BY <1>5, <1>6, <1>10 DEF SlugFree, Carry, Answers
  <1>11. ASSUME SlugTaken(r) PROVE Knows
    <2>1. /\ pc[r] \in Carry /\ ~SlugAvailable(r)
          /\ Set(r, "attempt", local[r].attempt + 1)
      BY <1>6, <1>11 DEF SlugTaken, Carry, Answers
    <2>2. local'[r] = [local[r] EXCEPT !["attempt"] = local[r].attempt + 1]
      BY <1>3, <2>1 DEF Set
    <2> QED
      BY <1>3, <2>1, <2>2 DEF LocalType
  <1>12. ASSUME \/ Begin(r) \/ UpdateRow(r) \/ UpdateKey(r) \/ InsertPost(r)
                \/ SetStatus(r) \/ ReplaceTags(r)
         PROVE  Knows
    <2>1. pc[r] \in Carry /\ local' = local
      BY <1>6, <1>12 DEF Begin, UpdateRow, UpdateKey, InsertPost, SetStatus,
                         ReplaceTags, Carry, InTx, Answers
    <2> QED
      BY <2>1
  <1>13. ASSUME UpsertTag(r) PROVE Knows
    <2>1. PICK i \in NextTag(r) : local' = [local EXCEPT ![r]["done"] = i]
      BY <1>13 DEF UpsertTag, Set
    <2>2. local'[r] = [local[r] EXCEPT !["done"] = i]
      BY <1>3, <2>1
    <2> QED
      BY <1>3, <1>13, <2>2 DEF LocalType, UpsertTag, Carry, InTx
  <1>14. ~(\/ LoadMissing(r) \/ Commit(r) \/ CommitUnacked(r) \/ Write(r) \/ WriteUnacked(r)
           \/ WriteMissing(r) \/ Fail(r) \/ DeadlockVictim(r))
    BY <1>6 DEF LoadMissing, Commit, CommitUnacked, Write, WriteUnacked, WriteMissing,
                Fail, DeadlockVictim, Answers
  <1>15. ~LoadForUnpublishOrDelete(r)
    BY DEF LoadForUnpublishOrDelete
  <1> QED
    BY <1>2, <1>7, <1>8, <1>9, <1>10, <1>11, <1>12, <1>13, <1>14, <1>15 DEF Acts, Step
\* A save of a published post that loaded its date writes it again, a save
\* of a draft none.
LEMMA DateSaved ==
    ASSUME EditInv, RoundTrips, NEW r \in Requests, Apply(r), call[r].op = "update",
           Undisturbed(r), NEW p \in PostIds, p = call[r].post,
           posts[p].status = call[r].form.status
    PROVE  local[r].date = posts[p].published_at
  <1>1. pc[r] = "commit" /\ TypeOK /\ WritesValidated
    BY DEF Apply, EditInv, IInv
  <1>2. Dated(call[r].form.status, local[r].date)
    BY <1>1, CommitFacts
  <1>3. posts[p] # NoRow /\ local[r].seen = posts[p].published_at
    BY <1>1 DEF RoundTrips, RoundTrip, LoadedNow, Carry, InTx
  <1>4. Dated(posts[p].status, posts[p].published_at)
    BY <1>3 DEF EditInv, IInv, PublishedIffDated
  <1>5. local[r].seen # NoDate /\ local[r].date # NoDate => local[r].date = local[r].seen
    BY <1>1 DEF EditInv, IInv, SeenKept, InTx
  <1> QED
    BY <1>2, <1>3, <1>4, <1>5 DEF Dated

\* What a save changes of the fields its author left alone: nothing, as long
\* as nobody else changed the post.
LEMMA UneditedSaved ==
    ASSUME EditInv, StoreInv, RoundTrips, NEW r \in Requests, Apply(r),
           call[r].op = "update", ~stale[r], NEW p \in PostIds, p = call[r].post
    PROVE  /\ desk[r].page = "form" /\ p = desk[r].post
           /\ "title" \notin edited[r] => posts'[p].content[1] = posts[p].content[1]
           /\ "body" \notin edited[r] => posts'[p].content[2] = posts[p].content[2]
           /\ "slug" \notin edited[r] => posts'[p].slug = posts[p].slug
           /\ "status" \notin edited[r] =>
                 /\ posts'[p].status = posts[p].status
                 /\ posts'[p].published_at = posts[p].published_at
           /\ "tags" \notin edited[r] => links' = links /\ tags' = tags
  <1> DEFINE f == call[r].form
  <1>1. /\ pc[r] = "commit" /\ f \in Forms
        /\ Put(p, f, Slug(r), local[r].date)
        /\ posts'[p] = RowOf(f, Slug(r), local[r].date)
    BY SaveWrites DEF Apply
  <1>2. desk[r].page = "form" /\ p = desk[r].post
    BY <1>1 DEF EditInv, DesksFit, SentFromPage
  <1>3. \A x \in RowFields \ edited[r] : f[x] = Shows(desk[r].row)[x]
    BY <1>1, <1>2 DEF EditInv, DesksFit, FormKept
  <1>4. /\ posts[p] # NoRow
        /\ \A x \in TextFields \ edited[r] : Shows(posts[p])[x] = Shows(desk[r].row)[x]
    BY <1>2 DEF EditInv, DesksFit, PostSeen
  <1>5. \A x \in TextFields \ edited[r] : f[x] = Shows(posts[p])[x]
    BY <1>3, <1>4 DEF TextFields, RowFields
  <1>6. /\ posts'[p].content[1] = f.title /\ posts'[p].content[2] = f.body
        /\ posts'[p].status = f.status /\ posts'[p].published_at = local[r].date
        /\ posts'[p].slug = Slug(r)
    BY <1>1 DEF RowOf, Content
  <1>7. /\ "title" \notin edited[r] => f.title = posts[p].content[1]
        /\ "body" \notin edited[r] => f.body = posts[p].content[2]
        /\ "status" \notin edited[r] => f.status = posts[p].status
    BY <1>5 DEF TextFields, Shows, FormShowing
  <1>8. "status" \notin edited[r] => local[r].date = posts[p].published_at
    BY <1>7, DateSaved DEF Undisturbed
  <1>9. ASSUME "slug" \notin edited[r]
        PROVE  Slug(r) = posts[p].slug
    <2>1. posts[p].slug = desk[r].row.slug
      BY <1>2, <1>9 DEF RoundTrips, RoundTrip, FormCurrent
    <2>2. f.slug = SlugText[posts[p].slug]
      BY <1>3, <1>9, <2>1 DEF RowFields, Shows, FormShowing
    <2>3. PICK g \in Forms, k \in 1 .. MaxAttempts :
             Acceptable(g) /\ posts[p].slug = Candidate(g, k)
      BY <1>4 DEF StoreInv, RowsResolved
    <2>4. BaseSlug(f) = posts[p].slug
      BY <2>2, <2>3, SlugTextAssumption DEF BaseSlug, SlugSource
    <2>5. local[r].attempt = 1
      BY <1>1, <2>4 DEF RoundTrips, RoundTrip, LoadedNow, Undisturbed, Carry, InTx
    <2> QED
      BY <2>4, <2>5 DEF Slug, Candidate
  <1>10. ASSUME "tags" \notin edited[r]
         PROVE  links' = links /\ tags' = tags
    <2>1. f.tags = desk[r].form.tags
      BY <1>1, <1>2, <1>10 DEF RoundTrips, RoundTrip, TagsSent
    <2>2. CsvShows(desk[r].form.tags, p)
      BY <1>2, <1>10 DEF RoundTrips, RoundTrip, FormCurrent
    <2>3. TagsAre(p, f)
      BY <1>1, <2>1, <2>2, TagsReturn
    <2> QED
      BY <1>1, <2>3, TagsSavedAgain DEF Put
  <1> QED
    BY <1>2, <1>6, <1>7, <1>8, <1>9, <1>10

\* A save that is repeated writes what is there already, up to the slug if
\* the post does not have the one the form asks for.
LEMMA RepeatedSave ==
    ASSUME EditInv, StoreInv, RoundTrips, NEW q \in Requests, Apply(q),
           call[q].op = "update", again[q] # q, took[again[q]] = "yes",
           NEW p \in PostIds, p = call[q].post
    PROVE  /\ tags' = tags /\ links' = links
           /\ posts'[p] = [posts[p] EXCEPT !.slug = Slug(q)]
           /\ posts[p].slug = BaseSlug(call[q].form) => Slug(q) = posts[p].slug
  <1> DEFINE f == call[q].form
             s == again[q]
  <1>1. /\ pc[q] = "commit" /\ f \in Forms
        /\ Put(p, f, Slug(q), local[q].date)
        /\ posts'[p] = RowOf(f, Slug(q), local[q].date)
    BY SaveWrites DEF Apply
  <1>2. s \in Requests /\ call[s].op = "update" /\ call[s].post = p /\ call[s].form = f
    BY DEF RoundTrips, RoundTrip, Repeats, EditInv, HistoryTypeOK
  <1>3. /\ posts[p] # NoRow /\ posts[p].content = Content(f) /\ posts[p].status = f.status
        /\ TagsAre(p, f)
    <2>1. Wrote(s)
      BY <1>2 DEF RoundTrips, RoundTrip, Lasting
    <2> QED
      BY <1>2, <2>1 DEF Wrote
  <1>4. tags' = tags /\ links' = links
    BY <1>1, <1>3, TagsSavedAgain DEF Put
  <1>5. Undisturbed(q)
    BY DEF Undisturbed
  <1>6. local[q].date = posts[p].published_at
    BY <1>3, <1>5, DateSaved
  <1>7. posts[p] \in Row
    BY <1>3 DEF EditInv, IInv, TypeOK
  <1>8. posts'[p] = [posts[p] EXCEPT !.slug = Slug(q)]
    BY <1>1, <1>3, <1>6, <1>7 DEF RowOf, Row
  <1>9. ASSUME posts[p].slug = BaseSlug(f)
        PROVE  Slug(q) = posts[p].slug
    <2>1. local[q].attempt = 1
      BY <1>1, <1>5, <1>9 DEF RoundTrips, RoundTrip, LoadedNow, Carry, InTx
    <2> QED
      BY <1>9, <2>1 DEF Slug, Candidate
  <1> QED
    BY <1>4, <1>8, <1>9
\* A post that a step does not touch is as it was for everyone.
LEMMA UntouchedSame ==
    ASSUME NEW p \in PostIds, p \notin Touched
    PROVE  Same(p)
  <1>1. /\ posts'[p] = posts[p]
        /\ links' = links \/ TagSet(p)' = TagSet(p)
        /\ tags' = tags \/ \A t \in TagSet(p) : tags'[t] = tags[t]
    BY DEF Touched
  <1>2. links' = links => TagSet(p)' = TagSet(p)
    BY DEF TagSet
  <1> QED
    BY <1>1, <1>2 DEF Same

\* A handler that is at its write is answered by its next step, however it
\* ends.
LEMMA WriteAnswers ==
    ASSUME EditInv, NEW r \in Requests, Acts(r), pc[r] \in {"commit", "write"}
    PROVE  pc'[r] \in Answers
  <1>1. TypeOK
    BY DEF EditInv, IInv
  <1>2. \A a \in {"redirect", "error"} : Answer(r, a) => pc'[r] \in Answers
    BY <1>1, AnswerPlace DEF Answers
  <1> QED
    BY <1>2
    DEF Acts, Step, Receive, Arrive, ReceiveMalformedId, LoadMissing, LoadForUpdate,
        LoadForPublish, LoadForUnpublishOrDelete, SlugFree, SlugTaken, Begin,
        InsertPost, UpdateRow, UpdateKey, SetStatus, UpsertTag, ReplaceTags, Commit,
        Write, WriteMissing, Fail, CommitUnacked, WriteUnacked, DeadlockVictim

\* A write that takes effect is found in the tables afterwards.
LEMMA WriteWrote ==
    ASSUME EditInv, NEW r \in Requests, Apply(r) \/ WriteApplies(r)
    PROVE  Wrote(r)'
  <1>1. TypeOK /\ call' = call
    BY DEF EditInv, IInv, Apply, WriteApplies
  <1>2. CASE Apply(r)
    <2>1. /\ Saves(r) /\ call[r].post \in PostIds /\ call[r].form \in Forms
          /\ posts'[call[r].post] = RowOf(call[r].form, Slug(r), local[r].date)
          /\ posts'[call[r].post] # NoRow
      BY <1>2, SaveWrites
    <2>2. tags' = Renamed(call[r].form)
          /\ links' = Retagged(call[r].post, TagsOf(call[r].form))
      BY <1>2 DEF Apply, Put
    <2> SUFFICES ASSUME NEW p \in PostIds, p = call[r].post
                 PROVE  /\ posts'[p] # NoRow
                        /\ posts'[p].content = Content(call[r].form)
                        /\ posts'[p].status = call[r].form.status
                        /\ TagsOf(call[r].form) = TagSet(p)'
                        /\ \A t \in TagsOf(call[r].form) :
                              TagName(call[r].form, t) = tags'[t]
      BY <1>1, <2>1 DEF Wrote, TagsAre, Saves
    <2>3. TagSet(p)' = TagsOf(call[r].form)
      BY <2>2, TagSetRetagged
    <2>4. TagsOf(call[r].form) \subseteq TagSlugs
      BY <2>1 DEF TagSlugs
    <2>5. \A t \in TagsOf(call[r].form) : TagName(call[r].form, t) = tags'[t]
      BY <2>2, <2>4 DEF Renamed
    <2> QED
      BY <2>1, <2>3, <2>5 DEF RowOf
  <1>3. CASE WriteApplies(r)
    <2> SUFFICES ASSUME NEW p \in PostIds, p = call[r].post
                 PROVE  /\ call[r].op # "update"
                        /\ call[r].op = "publish" =>
                              posts'[p] # NoRow /\ posts'[p].status = "published"
                        /\ call[r].op = "unpublish" =>
                              posts'[p] # NoRow /\ posts'[p].status = "draft"
                        /\ call[r].op = "delete" => posts'[p] = NoRow
      BY <1>1 DEF Wrote
    <2>1. CASE call[r].op = "delete"
      BY <1>1, <1>3, <2>1 DEF WriteApplies, Remove, TypeOK
    <2>2. CASE call[r].op \in {"publish", "unpublish"}
      <3>1. PICK s \in Statuses, d \in Dates :
               /\ posts[p] # NoRow /\ SetStatusOf(p, s, d)
               /\ s = IF call[r].op = "publish" THEN "published" ELSE "draft"
        BY <1>1, <1>3, <2>2 DEF WriteApplies, Statuses, TypeOK
      <3>2. posts'[p] # NoRow
        BY <1>1, <3>1, SetStatusRows
      <3>3. posts'[p] = [posts[p] EXCEPT !.status = s, !.published_at = d] /\ posts[p] \in Row
        BY <1>1, <3>1 DEF SetStatusOf, TypeOK
      <3>4. posts'[p].status = s
        BY <3>3 DEF Row
      <3> QED
        BY <2>2, <3>1, <3>2, <3>4
    <2> QED
      BY <1>3, <2>1, <2>2 DEF WriteApplies
  <1> QED
    BY <1>2, <1>3

\* A handler's step, for the requests of the others.
LEMMA HandleOthers ==
    ASSUME EditInv, RoundTrips, NEW r \in Requests, Handle(r),
           NEW q \in Requests, q # r
    PROVE  RoundTrip(q)'
  <1>1. /\ desk' = desk /\ edited' = edited /\ again' = again /\ call' = call
        /\ pc'[q] = pc[q] /\ local'[q] = local[q]
        /\ HistoryTypeOK /\ RoundTrip(q)
    BY HandleFacts DEF Handle, EditInv, RoundTrips
  <1>2. again[q] \in Requests
    BY <1>1 DEF HistoryTypeOK
  <1>3. again[q] # q => again[q] # r /\ pc'[again[q]] = pc[again[q]]
    <2>1. pc[r] # "error"
      BY HandleFacts, ActsInFlight DEF InFlight, InTx
    <2> QED
      BY <1>1, <1>2, <2>1, HandleFacts DEF RoundTrip, Repeats
  <1>4. ASSUME ~stale'[q]
        PROVE  /\ ~stale[q]
               /\ desk[q].page # "none" => \A p \in PostIds : p = desk[q].post => Same(p)
    BY <1>4, UntouchedSame DEF Handle
  <1>5. ASSUME NEW s \in Requests \ {r}, took'[s] = "yes"
        PROVE  took[s] = "yes" /\ \A p \in PostIds : p = call[s].post => Same(p)
    BY <1>5, UntouchedSame DEF Handle
  <1>6. Repeats(q)'
    BY <1>1, <1>3 DEF RoundTrip, Repeats
  <1>7. Lasting(q)'
    <2> SUFFICES ASSUME took'[q] = "yes"
                 PROVE  pc'[q] \in Answers /\ Wrote(q)'
      BY DEF Lasting
    <2>1. pc'[q] \in Answers /\ Wrote(q)
      BY <1>1, <1>5 DEF RoundTrip, Lasting
    <2> QED
      BY <1>1, <1>5, <2>1, WroteStays
  <1>8. LoadedNow(q)'
    <2> SUFFICES ASSUME Undisturbed(q)', pc[q] \in Carry, call[q].op \in {"update", "publish"},
                        NEW p \in PostIds, p = call[q].post
                 PROVE  /\ posts'[p] # NoRow /\ local[q].seen = posts'[p].published_at
                        /\ call[q].op = "update" /\ posts'[p].slug = BaseSlug(call[q].form)
                              => local[q].attempt = 1
      BY <1>1 DEF LoadedNow
    <2>1. CASE ~stale'[q]
      <3>1. desk[q].page # "none" /\ call[q].post = desk[q].post
        BY DEF EditInv, DesksFit, SentFromPage, Carry, InTx
      <3>2. ~stale[q] /\ Same(p)
        BY <1>4, <2>1, <3>1
      <3> QED
        BY <1>1, <3>2 DEF RoundTrip, LoadedNow, Undisturbed, Same
    <2>2. CASE again[q] # q /\ took'[again[q]] = "yes"
      <3>1. call[again[q]].post = p
        BY <1>1, <2>2 DEF RoundTrip, Repeats
      <3>2. took[again[q]] = "yes" /\ Same(p)
        BY <1>2, <1>3, <1>5, <2>2, <3>1
      <3> QED
        BY <1>1, <2>2, <3>2 DEF RoundTrip, LoadedNow, Undisturbed, Same
    <2> QED
      BY <1>1, <2>1, <2>2 DEF Undisturbed
  <1>9. TagsSent(q)'
    BY <1>1 DEF RoundTrip, TagsSent
  <1>10. FormCurrent(q)'
    <2>1. CASE desk[q].page = "form"
      BY <1>1, <1>4, <2>1, FormStaysCurrent DEF RoundTrip
    <2> QED
      BY <1>1, <2>1 DEF FormCurrent
  <1> QED
    BY <1>6, <1>7, <1>8, <1>9, <1>10 DEF RoundTrip
\* A handler's step, for its own request.
LEMMA HandleSelf ==
    ASSUME EditInv, StoreInv, RoundTrips, NEW r \in Requests, Handle(r)
    PROVE  RoundTrip(r)'
  <1>1. /\ desk' = desk /\ edited' = edited /\ again' = again /\ call' = call
        /\ Acts(r) /\ pc[r] \in InFlight /\ pc[r] # "idle" /\ pc'[r] # "idle"
        /\ HistoryTypeOK /\ RoundTrip(r) /\ SentFromPage(r)
    BY HandleFacts, ActsInFlight DEF Handle, EditInv, RoundTrips, DesksFit
  <1>2. again[r] # r => /\ again[r] \in Requests \ {r}
                        /\ pc'[again[r]] = pc[again[r]]
                        /\ took'[again[r]] = "yes" => took[again[r]] = "yes"
    <2>1. again[r] \in Requests
      BY <1>1 DEF HistoryTypeOK
    <2>2. \A q \in Requests \ {r} : took'[q] = "yes" => took[q] = "yes"
      BY DEF Handle
    <2> QED
      BY <2>1, <2>2, HandleFacts
  <1>3. ~stale'[r] => ~stale[r]
    <2>1. stale'[r] = (stale[r] \/ FALSE)
      BY DEF Handle
    <2> QED
      BY <2>1
  <1>4. Repeats(r)'
    BY <1>1, <1>2 DEF RoundTrip, Repeats
  <1>5. Lasting(r)'
    <2> SUFFICES ASSUME took'[r] = "yes"
                 PROVE  pc'[r] \in Answers /\ Wrote(r)'
      BY DEF Lasting
    <2>1. took[r] # "yes"
      BY <1>1 DEF RoundTrip, Lasting, Answers, InFlight, InTx
    <2>2. Apply(r) \/ WriteApplies(r)
      BY <2>1 DEF Handle
    <2>3. pc[r] \in {"commit", "write"}
      BY <2>2 DEF Apply, WriteApplies
    <2> QED
      BY <1>1, <2>2, <2>3, WriteAnswers, WriteWrote
  <1>6. LoadedNow(r)'
    <2> SUFFICES ASSUME Undisturbed(r)', pc'[r] \in Carry, call[r].op \in {"update", "publish"},
                        NEW p \in PostIds, p = call[r].post
                 PROVE  /\ posts'[p] # NoRow /\ local'[r].seen = posts'[p].published_at
                        /\ call[r].op = "update" /\ posts'[p].slug = BaseSlug(call[r].form)
                              => local'[r].attempt = 1
      BY <1>1 DEF LoadedNow
    <2>1. Undisturbed(r)
      BY <1>1, <1>2, <1>3 DEF Undisturbed
    <2>2. /\ posts' = posts
          /\ \/ /\ posts[p] # NoRow
                /\ local'[r].seen = posts[p].published_at
                /\ local'[r].attempt = 1
             \/ /\ pc[r] \in Carry /\ local'[r].seen = local[r].seen
                /\ local'[r].attempt = local[r].attempt \/ ~SlugAvailable(r)
      BY <1>1, HandleCarries DEF UnchangedDb
    <2>3. CASE /\ pc[r] \in Carry /\ local'[r].seen = local[r].seen
               /\ local'[r].attempt = local[r].attempt \/ ~SlugAvailable(r)
      <3>1. /\ posts[p] # NoRow /\ local[r].seen = posts[p].published_at
            /\ call[r].op = "update" /\ posts[p].slug = BaseSlug(call[r].form)
                  => local[r].attempt = 1
        BY <1>1, <2>1, <2>3 DEF RoundTrip, LoadedNow
      <3>2. ASSUME call[r].op = "update", posts[p].slug = BaseSlug(call[r].form)
            PROVE  SlugAvailable(r)
        <4>1. Slug(r) = posts[p].slug
          BY <3>1, <3>2 DEF Slug, Candidate
        <4> SUFFICES ASSUME NEW o \in PostIds, posts[o] # NoRow, posts[o].slug = Slug(r)
                     PROVE  o = p
          BY <3>2 DEF SlugAvailable, FoundBySlug
        <4> QED
          BY <3>1, <4>1 DEF EditInv, IInv, SlugInv, SlugsUnique
      <3> QED
        BY <2>2, <2>3, <3>1, <3>2
    <2> QED
      BY <2>2, <2>3
  <1>7. TagsSent(r)'
    BY <1>1 DEF RoundTrip, TagsSent
  <1>8. FormCurrent(r)'
    <2>1. CASE UnchangedDb
      BY <1>1, <1>3, <2>1, TablesKept, FormStaysCurrent DEF RoundTrip
    <2>2. CASE ~UnchangedDb
      <3> SUFFICES ASSUME NEW p \in PostIds, p = desk[r].post, ~stale[r], desk[r].page = "form"
                   PROVE  /\ "tags" \notin edited[r] => CsvShows(desk[r].form.tags, p)'
                          /\ "slug" \notin edited[r] => posts'[p].slug = desk[r].row.slug
        BY <1>1, <1>3 DEF FormCurrent, CsvShows
      <3>1. call[r].op = "update" /\ call[r].post = p
        BY <1>1 DEF SentFromPage
      <3>2. Apply(r)
        BY <2>2, <3>1, HandleWrites DEF Writes, WriteApplies
      <3>3. /\ "slug" \notin edited[r] => posts'[p].slug = posts[p].slug
            /\ "tags" \notin edited[r] => links' = links /\ tags' = tags
        BY <3>1, <3>2, UneditedSaved
      <3>4. /\ "tags" \notin edited[r] => CsvShows(desk[r].form.tags, p)
            /\ "slug" \notin edited[r] => posts[p].slug = desk[r].row.slug
        BY <1>1 DEF RoundTrip, FormCurrent
      <3>5. links' = links => TagSet(p)' = TagSet(p)
        BY DEF TagSet
      <3> QED
        BY <1>1, <3>3, <3>4, <3>5 DEF CsvShows
    <2> QED
      BY <2>1, <2>2
  <1> QED
    BY <1>4, <1>5, <1>6, <1>7, <1>8 DEF RoundTrip

LEMMA NextRoundTrips ==
    EditInv /\ EditInv' /\ StoreInv /\ RoundTrips /\ [EditNext]_editVars => RoundTrips'
  <1> SUFFICES ASSUME EditInv, EditInv', StoreInv, RoundTrips, [EditNext]_editVars
               PROVE  RoundTrips'
    OBVIOUS
  <1>1. CASE UNCHANGED editVars
    <2>1. /\ UNCHANGED <<desk, pc, call, local, edited, stale, took, again>>
          /\ UnchangedDb
      BY <1>1 DEF editVars, UnchangedDb
    <2> SUFFICES ASSUME NEW q \in Requests
                 PROVE  RoundTrip(q)'
      BY DEF RoundTrips
    <2>2. RoundTrip(q) /\ \A p \in PostIds : Same(p)
      BY <2>1, TablesKept DEF RoundTrips
    <2>3. Repeats(q)' /\ TagsSent(q)'
      BY <2>1, <2>2 DEF RoundTrip, Repeats, TagsSent
    <2>4. Lasting(q)'
      BY <2>1, <2>2, WroteStays DEF RoundTrip, Lasting
    <2>5. LoadedNow(q)'
      BY <2>1, <2>2 DEF RoundTrip, LoadedNow, Undisturbed, UnchangedDb
    <2>6. FormCurrent(q)'
      BY <2>1, <2>2, FormStaysCurrent DEF RoundTrip
    <2> QED
      BY <2>3, <2>4, <2>5, <2>6 DEF RoundTrip
  <1>2. ASSUME NEW r \in Requests, Open(r) \/ (FillTags(r) /\ UNCHANGED past)
        PROVE  RoundTrips'
    BY <1>2, OpenTrip
  <1>3. ASSUME NEW r \in Requests, Send(r)
        PROVE  RoundTrips'
    BY <1>3, SendTrip
  <1>4. ASSUME NEW r \in Requests, Handle(r)
        PROVE  RoundTrips'
    BY <1>4, HandleOthers, HandleSelf DEF RoundTrips
  <1>5. ASSUME NEW r \in Requests, NEW q \in Requests, Correct(q, r) \/ SendAgain(q, r)
        PROVE  RoundTrips'
    BY <1>5, CorrectTrip, SendAgainTrip
  <1> QED
    BY <1>1, <1>2, <1>3, <1>4, <1>5 DEF EditNext

\* The tables below the pages are those of the abstract store.
LEMMA StoreBelowPages == EditSpec => []StoreInv
  BY EditingIsAdmin, HandlersImplementStore, StoreInvHolds
  DEF ImplementsStore

LEMMA RoundTripsHold == EditSpec => []RoundTrips
  BY InitRoundTrips, NextRoundTrips, EditInvHolds, StoreBelowPages, PTL DEF EditSpec
----------------------------------------------------------------------------
(* The properties of the round trip.                                       *)

\* Saving an edit form changes nothing but what its author edited, as long
\* as nobody else changed the post: title and body, the slug through
\* slugify, the status and its date, the tags through their list.
THEOREM OnlyEditsTakeEffect == EditSpec => OnlyEditsChange
  <1>1. ASSUME EditInv, StoreInv, RoundTrips, NEW r \in Requests, Writes(r),
               call[r].op = "update", ~stale[r]
        PROVE  LET p == call[r].post IN
               /\ "title" \notin edited[r] => posts'[p].content[1] = posts[p].content[1]
               /\ "body" \notin edited[r] => posts'[p].content[2] = posts[p].content[2]
               /\ "slug" \notin edited[r] => posts'[p].slug = posts[p].slug
               /\ "status" \notin edited[r] =>
                     /\ posts'[p].status = posts[p].status
                     /\ posts'[p].published_at = posts[p].published_at
               /\ "tags" \notin edited[r] => links' = links /\ tags' = tags
    <2>1. Apply(r)
      BY <1>1 DEF Writes, WriteApplies
    <2>2. call[r].post \in PostIds
      BY <1>1, <2>1, SaveWrites
    <2> QED
      BY <1>1, <2>1, <2>2, UneditedSaved
  <1>2. EditInv /\ StoreInv /\ RoundTrips =>
           [\A r \in Requests :
              LET p == call[r].post IN
              Writes(r) /\ call[r].op = "update" /\ ~stale[r] =>
                /\ "title" \notin edited[r] => posts'[p].content[1] = posts[p].content[1]
                /\ "body" \notin edited[r] => posts'[p].content[2] = posts[p].content[2]
                /\ "slug" \notin edited[r] => posts'[p].slug = posts[p].slug
                /\ "status" \notin edited[r] =>
                      /\ posts'[p].status = posts[p].status
                      /\ posts'[p].published_at = posts[p].published_at
                /\ "tags" \notin edited[r] => links' = links /\ tags' = tags]_editVars
    BY <1>1
  <1> QED
    BY <1>2, EditInvHolds, StoreBelowPages, RoundTripsHold, PTL DEF OnlyEditsChange

\* What a repeated write changes: nothing, or the slug of a post that does
\* not have the one its form asks for.
LEMMA RepeatedWrite ==
    ASSUME EditInv, StoreInv, RoundTrips, NEW q \in Requests, Writes(q),
           call[q].op # "create", again[q] # q, took[again[q]] = "yes",
           NEW p \in PostIds, p = call[q].post
    PROVE  /\ tags' = tags /\ links' = links
           /\ \A o \in PostIds \ {p} : posts'[o] = posts[o]
           /\ \/ posts'[p] = posts[p]
              \/ /\ call[q].op = "update"
                 /\ posts[p].slug # BaseSlug(call[q].form)
                 /\ posts'[p] = [posts[p] EXCEPT !.slug = posts'[p].slug]
  <1>1. TypeOK /\ WritesValidated /\ PublishedIffDated
    BY DEF EditInv, IInv
  <1>2. CASE Apply(q)
    <2>1. /\ Saves(q)
          /\ \A o \in PostIds \ {p} : posts'[o] = posts[o]
      BY <1>2, SaveWrites
    <2>2. /\ tags' = tags /\ links' = links
          /\ posts'[p] = [posts[p] EXCEPT !.slug = Slug(q)]
          /\ posts[p].slug = BaseSlug(call[q].form) => Slug(q) = posts[p].slug
      BY <1>2, <2>1, RepeatedSave DEF Saves
    <2>3. posts[p] \in Row \cup {NoRow} /\ posts[p] # NoRow
      <3>1. Wrote(again[q]) /\ call[again[q]].op = "update" /\ call[again[q]].post = p
        BY <2>1 DEF RoundTrips, RoundTrip, Lasting, Repeats, EditInv, HistoryTypeOK, Saves
      <3> QED
        BY <1>1, <3>1 DEF Wrote, TypeOK
    <2>4. posts'[p].slug = Slug(q) /\ (Slug(q) = posts[p].slug => posts'[p] = posts[p])
      BY <2>2, <2>3 DEF Row
    <2> QED
      BY <2>1, <2>2, <2>4 DEF Saves
  <1>3. CASE WriteApplies(q)
    <2>1. /\ Wrote(again[q]) /\ call[again[q]].op = call[q].op
          /\ call[again[q]].post = p
      BY DEF RoundTrips, RoundTrip, Lasting, Repeats, EditInv, HistoryTypeOK
    <2>2. CASE call[q].op = "delete"
      <3>1. posts[p] = NoRow
        BY <2>1, <2>2 DEF Wrote
      <3>2. posts' = posts /\ tags' = tags /\ links' = Retagged(p, {})
        BY <1>1, <1>3, <2>2, <3>1 DEF WriteApplies, Remove, TypeOK
      <3>3. TagSet(p) = {}
        BY <3>1 DEF StoreInv, TagsMatchContent
      <3>4. \A l \in links : l[1] # p
        BY <3>3 DEF TagSet
      <3>5. Retagged(p, {}) = links
        BY <3>4 DEF Retagged
      <3> QED
        BY <3>2, <3>5
    <2>3. CASE call[q].op \in {"publish", "unpublish"}
      <3>1. PICK s : /\ s = IF call[q].op = "publish" THEN "published" ELSE "draft"
                     /\ posts[p] # NoRow /\ SetStatusOf(p, s, local[q].date)
        BY <1>3, <2>3 DEF WriteApplies
      <3>2. posts[p].status = s
        BY <2>1, <2>3, <3>1 DEF Wrote
      <3>3. local[q].date = posts[p].published_at
        <4>1. Dated(posts[p].status, posts[p].published_at)
          BY <1>1, <3>1 DEF PublishedIffDated
        <4>2. pc[q] = "write"
          BY <1>3 DEF WriteApplies
        <4>3. call[q].op = "publish" <=> local[q].date # NoDate
          BY <1>1, <2>3, <4>2 DEF WritesValidated, Validated, Saves
        <4>4. call[q].op = "publish" => local[q].seen = posts[p].published_at
          BY <4>2 DEF RoundTrips, RoundTrip, LoadedNow, Undisturbed, Carry
        <4>5. local[q].seen # NoDate /\ local[q].date # NoDate
                 => local[q].date = local[q].seen
          BY <4>2 DEF EditInv, IInv, SeenKept
        <4> QED
          BY <2>3, <3>1, <3>2, <4>1, <4>3, <4>4, <4>5 DEF Dated
      <3>4. posts[p] \in Row
        BY <1>1, <3>1 DEF TypeOK
      <3>5. [posts[p] EXCEPT !.status = s, !.published_at = local[q].date] = posts[p]
        BY <3>2, <3>3, <3>4 DEF Row
      <3>6. posts' = posts
        BY <1>1, <3>1, <3>5 DEF SetStatusOf, TypeOK
      <3> QED
        BY <3>1, <3>6 DEF SetStatusOf
    <2> QED
      BY <1>3, <2>2, <2>3 DEF WriteApplies
  <1> QED
    BY <1>2, <1>3 DEF Writes

\* A save of an edit form, a publish, a withdrawal or a deletion that took
\* effect although it was answered with an error changes nothing when it is
\* sent again, unless someone else changed the post meanwhile.  Not so a
\* creation: sent again it makes a second post.
THEOREM RepeatsChangeNothing == EditSpec => RetryChangesNothing
  <1>1. ASSUME EditInv, StoreInv, RoundTrips, NEW q \in Requests,
               Writes(q), call[q].op # "create", again[q] # q, took[again[q]] = "yes"
        PROVE  LET p == call[q].post IN
               /\ tags' = tags /\ links' = links
               /\ \A o \in PostIds \ {p} : posts'[o] = posts[o]
               /\ \/ posts'[p] = posts[p]
                  \/ /\ call[q].op = "update"
                     /\ posts[p].slug # BaseSlug(call[q].form)
                     /\ posts'[p] = [posts[p] EXCEPT !.slug = posts'[p].slug]
    <2>1. call[q].post \in PostIds
      BY <1>1, CallFacts DEF EditInv, IInv
    <2> QED
      BY <1>1, <2>1, RepeatedWrite
  <1>2. EditInv /\ StoreInv /\ RoundTrips =>
           [\A q \in Requests :
              LET p == call[q].post IN
              Writes(q) /\ call[q].op # "create" /\ again[q] # q /\ took[again[q]] = "yes" =>
                /\ tags' = tags /\ links' = links
                /\ \A o \in PostIds \ {p} : posts'[o] = posts[o]
                /\ \/ posts'[p] = posts[p]
                   \/ /\ call[q].op = "update"
                      /\ posts[p].slug # BaseSlug(call[q].form)
                      /\ posts'[p] = [posts[p] EXCEPT !.slug = posts'[p].slug]]_editVars
    BY <1>1
  <1> QED
    BY <1>2, EditInvHolds, StoreBelowPages, RoundTripsHold, PTL DEF RetryChangesNothing
=============================================================================

----------------------------- MODULE AdminPosts -----------------------------
(***************************************************************************)
(* The admin handlers create_post, update_post, publish_post,              *)
(* unpublish_post and delete_post running concurrently over one PostgreSQL *)
(* database.                                                               *)
(*                                                                         *)
(* A request is a sequential program that is suspended at every await, so  *)
(* an action is one database call together with the code up to the next    *)
(* one, and pc names the call a request is about to make.  posts, tags and *)
(* links are the COMMITTED rows.  Statements run at READ COMMITTED: a read *)
(* sees the committed rows of its moment, and what a transaction has       *)
(* written follows from its pc and its form until Commit makes it visible. *)
(* The locks it holds meanwhile follow from its pc as well (HoldsRow,      *)
(* HeldSlugs, HeldTags).                                                   *)
(***************************************************************************)
EXTENDS BlogStore, Relation

CONSTANTS
    Ops,            \* the handlers that are exercised
    MaxConnections  \* size of the connection pool

ASSUME OpsAssumption ==
    Ops \subseteq {"create", "update", "publish", "unpublish", "delete"}
ASSUME PoolAssumption == MaxConnections \in Nat \ {0}

VARIABLES
    clock,  \* the last reading of Utc::now() any request took
    call,   \* call[r]: the handler, the post and the form of request r
    pc,     \* pc[r]: the next database call of r, or its answer
    local   \* local[r]: the handler's local variables

admin == <<clock, call, pc, local>>
allVars == <<posts, tags, links, clock, call, pc, local>>

\* redirect is success, invalid 422, not_found 404; error is a 500 or a
\* connection that broke before the answer came back.
Answers == {"redirect", "invalid", "not_found", "error"}
InTx == {"insert", "update", "key", "status", "upsert", "commit"}
InFlight == {"load", "resolve", "begin", "write"} \cup InTx

Calls(r) ==
    [op : Ops \cap {"create"}, post : {r}, form : Forms] \cup
    [op : Ops \cap {"update"}, post : PostIds \ {r}, form : Forms] \cup
    [op : Ops \ {"create", "update"}, post : PostIds \ {r}, form : {NoForm}]

NoCall(r) == [op |-> "none", post |-> r, form |-> NoForm]

\* attempt: the slug candidate tried; seen: published_at as load_post
\* returned it; date: the published_at to write; done: the last tag upserted
Fresh == [attempt |-> 1, seen |-> NoDate, date |-> NoDate, done |-> 0]

AdminInit ==
    /\ Init
    /\ clock = 1
    /\ call = [r \in Requests |-> NoCall(r)]
    /\ pc = [r \in Requests |-> "idle"]
    /\ local = [r \in Requests |-> Fresh]

----------------------------------------------------------------------------
(* Pool, slug and tags of a request.                                       *)

HoldsConnection(r) == pc[r] \in InTx \cup {"write"}

\* A connection can be acquired now.
PoolFree ==
    Cardinality({r \in Requests : HoldsConnection(r)}) < MaxConnections

Slug(r) == Candidate(call[r].form, local[r].attempt)

\* Faulty variant: exclude_post_id is not looked at
SlugAvailableToNobody(r) == FoundBySlug(Slug(r)) = {}

\* slug_is_available: no committed row has the slug, or the row is the one
\* being edited (exclude_post_id).
SlugAvailable(r) ==
    \A p \in FoundBySlug(Slug(r)) :
        call[r].op = "update" /\ p = call[r].post

\* Faulty variant: no UNIQUE on posts.slug
SlugInUseNoConstraint(r) == FALSE

\* The UNIQUE constraint on posts.slug, against committed rows.
SlugInUse(r) == ~Unused(call[r].post, Slug(r))

\* The tags still to be upserted, by their place in tags_csv, and the first
\* of them (no element when all are done).
Pending(r) == {i \in FirstUses(call[r].form) : i > local[r].done}
NextTag(r) == {i \in Pending(r) : \A j \in Pending(r) : i <= j}

----------------------------------------------------------------------------
(* Locks.  They are held until the transaction ends.                       *)

\* UPDATE posts ... WHERE id = p found its row.
HoldsRow(r, p) ==
    /\ call[r].op = "update"
    /\ call[r].post = p
    /\ pc[r] \in {"key", "status", "upsert", "commit"}

\* An entry of the unique index on posts.slug that is not settled: the old
\* one of a row under update, the new one once INSERT or UPDATE made it.
HasKey(r) == pc[r] \in {"status", "upsert", "commit"}

HeldSlugs(r) ==
    {posts[p].slug : p \in {q \in PostIds : HoldsRow(r, q) /\ posts[q] # NoRow}}
        \cup (IF HasKey(r) THEN {Slug(r)} ELSE {})

\* INSERT ... ON CONFLICT (slug) DO UPDATE locks the tag's row or index entry.
HeldTags(r) ==
    IF pc[r] \in {"upsert", "commit"}
    THEN {TagSlug(call[r].form, i) :
             i \in FirstUses(call[r].form) \ Pending(r)}
    ELSE {}

\* The next statement of r waits for the transaction of q to end.
WaitsFor(r, q) ==
    /\ r # q
    /\ \/ /\ pc[r] \in {"update", "write"}
          /\ HoldsRow(q, call[r].post)
       \/ /\ pc[r] \in {"insert", "key"}
          /\ Slug(r) \in HeldSlugs(q)
       \/ /\ pc[r] = "upsert"
          /\ \E i \in NextTag(r) : TagSlug(call[r].form, i) \in HeldTags(q)

Blocked(r) == \E q \in Requests : WaitsFor(r, q)

\* r waits for itself through others.
OnCycle(r) ==
    TransitiveClosure([e \in Requests \X Requests |-> WaitsFor(e[1], e[2])],
                      Requests)[r, r]

----------------------------------------------------------------------------
(* Steps of control.                                                       *)

Goto(r, place) == pc' = [pc EXCEPT ![r] = place]

Set(r, name, value) == local' = [local EXCEPT ![r][name] = value]

\* The handler returns; its local variables are gone.
Answer(r, answer) ==
    /\ Goto(r, answer)
    /\ local' = [local EXCEPT ![r] = Fresh]

\* r will write published_at as Stamp says; the clock moves if it was read.
\* MaxDate bounds the readings; there is at most one per request.
TakeStamp(r, status, old) ==
    LET date == Stamp(status, old, clock + 1) IN
    /\ date \in Dates
    /\ local' = [local EXCEPT ![r].seen = old, ![r].date = date]
    /\ clock' = IF date = clock + 1 THEN date ELSE clock

UnchangedDb == UNCHANGED <<posts, tags, links>>

\* Faulty variant: a text without a slug passes
CheckedAnySlug(f) == IF HasText(f) THEN "resolve" ELSE "invalid"

\* Where a form goes after the checks that need no database.
Checked(f) ==
    IF HasText(f) /\ BaseSlug(f) # NoSlug THEN "resolve" ELSE "invalid"

----------------------------------------------------------------------------
(* A request arrives.                                                      *)

Arrive(r, c) ==
    /\ pc[r] = "idle"
    /\ call' = [call EXCEPT ![r] = c]
    /\ Goto(r, IF c.op = "create" THEN Checked(c.form) ELSE "load")
    /\ UnchangedDb /\ UNCHANGED <<clock, local>>

Receive(r) == \E c \in Calls(r) : Arrive(r, c)

\* The post id in the path is not a UUID.
ReceiveMalformedId(r) ==
    /\ pc[r] = "idle"
    /\ Ops \ {"create"} # {}
    /\ Goto(r, "not_found")
    /\ UnchangedDb /\ UNCHANGED <<clock, call, local>>

----------------------------------------------------------------------------
(* load_post, and what each handler does with the row before its next call *)

\* The row list_all_admin returns for the post of r.
Loaded(r) == posts[call[r].post]

LoadMissing(r) ==
    /\ pc[r] = "load" /\ PoolFree
    /\ Loaded(r) = NoRow
    /\ Answer(r, "not_found")
    /\ UnchangedDb /\ UNCHANGED <<clock, call>>

LoadForUpdate(r) ==
    /\ pc[r] = "load" /\ PoolFree
    /\ call[r].op = "update"
    /\ Loaded(r) # NoRow
    /\ Goto(r, Checked(call[r].form))
    /\ local' = IF Checked(call[r].form) = "resolve"
                THEN [local EXCEPT ![r].seen = Loaded(r).published_at]
                ELSE local
    /\ UnchangedDb /\ UNCHANGED <<clock, call>>

LoadForPublish(r) ==
    /\ pc[r] = "load" /\ PoolFree
    /\ call[r].op = "publish"
    /\ Loaded(r) # NoRow
    /\ TakeStamp(r, "published", Loaded(r).published_at)
    /\ Goto(r, "begin")
    /\ UnchangedDb /\ UNCHANGED call

LoadForUnpublishOrDelete(r) ==
    /\ pc[r] = "load" /\ PoolFree
    /\ call[r].op \in {"unpublish", "delete"}
    /\ Loaded(r) # NoRow
    /\ Goto(r, "begin")
    /\ UnchangedDb /\ UNCHANGED <<clock, call, local>>

----------------------------------------------------------------------------
(* SlugService::resolve, one lookup at a time, on pooled connections       *)
(* outside the transaction.                                                *)

\* The candidate is free: parse_tags, then the date, then the transaction.
SlugFree(r) ==
    /\ pc[r] = "resolve" /\ PoolFree
    /\ SlugAvailable(r)
    /\ IF TagsParse(call[r].form)
       THEN /\ TakeStamp(r, call[r].form.status, local[r].seen)
            /\ Goto(r, "begin")
       ELSE Answer(r, "invalid") /\ UNCHANGED clock
    /\ UnchangedDb /\ UNCHANGED call

\* Faulty variant: the loop runs once too often
SlugTakenOneMore(r) ==
    /\ pc[r] = "resolve" /\ PoolFree
    /\ ~SlugAvailable(r)
    /\ IF local[r].attempt <= MaxAttempts
       THEN Set(r, "attempt", local[r].attempt + 1) /\ UNCHANGED pc
       ELSE Answer(r, "invalid")
    /\ UnchangedDb /\ UNCHANGED <<clock, call>>

\* Faulty variant: the loop never gives up
SlugTakenStartsOver(r) ==
    /\ pc[r] = "resolve" /\ PoolFree
    /\ ~SlugAvailable(r)
    /\ Set(r, "attempt", (local[r].attempt % MaxAttempts) + 1) /\ UNCHANGED pc
    /\ UnchangedDb /\ UNCHANGED <<clock, call>>

SlugTaken(r) ==
    /\ pc[r] = "resolve" /\ PoolFree
    /\ ~SlugAvailable(r)
    /\ IF local[r].attempt < MaxAttempts
       THEN Set(r, "attempt", local[r].attempt + 1) /\ UNCHANGED pc
       ELSE Answer(r, "invalid")
    /\ UnchangedDb /\ UNCHANGED <<clock, call>>

----------------------------------------------------------------------------
(* The transaction of create_post and update_post, or the connection on    *)
(* which the other handlers run their single statement.                    *)

Begin(r) ==
    /\ pc[r] = "begin" /\ PoolFree
    /\ Goto(r, CASE call[r].op = "create" -> "insert"
                 [] call[r].op = "update" -> "update"
                 [] OTHER -> "write")
    /\ UnchangedDb /\ UNCHANGED <<clock, call, local>>

\* Faulty variant: a failed INSERT is answered like a success
InsertPostIgnoresFailure(r) ==
    /\ pc[r] = "insert" /\ ~Blocked(r)
    /\ IF SlugInUse(r) THEN Answer(r, "redirect")
       ELSE Goto(r, "upsert") /\ UNCHANGED local
    /\ UnchangedDb /\ UNCHANGED <<clock, call>>

\* insert_with: fails on a slug that was committed since it was resolved.
InsertPost(r) ==
    /\ pc[r] = "insert" /\ ~Blocked(r)
    /\ IF SlugInUse(r) THEN Answer(r, "error")
       ELSE Goto(r, "upsert") /\ UNCHANGED local
    /\ UnchangedDb /\ UNCHANGED <<clock, call>>

\* Faulty variant: an UPDATE of no row is not an error
UpdateRowOrCreate(r) ==
    /\ pc[r] = "update" /\ ~Blocked(r)
    /\ Goto(r, "key") /\ UNCHANGED local
    /\ UnchangedDb /\ UNCHANGED <<clock, call>>

\* update_with finds and locks the row (RowNotFound if it is gone) ...
UpdateRow(r) ==
    /\ pc[r] = "update" /\ ~Blocked(r)
    /\ IF posts[call[r].post] = NoRow THEN Answer(r, "error")
       ELSE Goto(r, "key") /\ UNCHANGED local
    /\ UnchangedDb /\ UNCHANGED <<clock, call>>

\* ... and enters the new slug in the unique index.
UpdateKey(r) ==
    /\ pc[r] = "key" /\ ~Blocked(r)
    /\ IF SlugInUse(r) THEN Answer(r, "error")
       ELSE Goto(r, "status") /\ UNCHANGED local
    /\ UnchangedDb /\ UNCHANGED <<clock, call>>

\* set_status_with on the row the transaction has locked already.
SetStatus(r) ==
    /\ pc[r] = "status"
    /\ Goto(r, "upsert")
    /\ UnchangedDb /\ UNCHANGED <<clock, call, local>>

\* Faulty variant: the upsert takes a connection of its own
UpsertTagOnPool(r) ==
    /\ pc[r] = "upsert" /\ PoolFree /\ ~Blocked(r)
    /\ \E i \in NextTag(r) : Set(r, "done", i)
    /\ UnchangedDb /\ UNCHANGED <<clock, call, pc>>

\* upsert_by_slug_with, tag by tag in the order of tags_csv.
UpsertTag(r) ==
    /\ pc[r] = "upsert" /\ ~Blocked(r)
    /\ \E i \in NextTag(r) : Set(r, "done", i)
    /\ UnchangedDb /\ UNCHANGED <<clock, call, pc>>

\* replace_post_tags_with: the post's row is locked or new, nobody else
\* writes its links.
ReplaceTags(r) ==
    /\ pc[r] = "upsert" /\ Pending(r) = {}
    /\ Goto(r, "commit")
    /\ UnchangedDb /\ UNCHANGED <<clock, call, local>>

\* Faulty variant: the tags are left to a later transaction
ApplyForgetsTags(r) ==
    /\ pc[r] = "commit"
    /\ posts' = [posts EXCEPT ![call[r].post] =
                    RowOf(call[r].form, Slug(r), local[r].date)]
    /\ UNCHANGED <<tags, links, clock, call>>

\* Everything the transaction wrote becomes visible.
Apply(r) ==
    /\ pc[r] = "commit"
    /\ Put(call[r].post, call[r].form, Slug(r), local[r].date)
    /\ UNCHANGED <<clock, call>>

Commit(r) == Apply(r) /\ Answer(r, "redirect")

----------------------------------------------------------------------------
(* The single statement of publish_post, unpublish_post and delete_post,   *)
(* in a transaction of its own.  set_status fails when the row is gone,    *)
(* delete does not look.                                                   *)

WriteApplies(r) ==
    /\ pc[r] = "write" /\ ~Blocked(r)
    /\ \/ /\ call[r].op \in {"publish", "unpublish"}
          /\ posts[call[r].post] # NoRow
          /\ SetStatusOf(call[r].post,
                IF call[r].op = "publish" THEN "published" ELSE "draft",
                local[r].date)
       \/ call[r].op = "delete" /\ Remove(call[r].post)
    /\ UNCHANGED <<clock, call>>

Write(r) == WriteApplies(r) /\ Answer(r, "redirect")

WriteMissing(r) ==
    /\ pc[r] = "write" /\ ~Blocked(r)
    /\ call[r].op \in {"publish", "unpublish"}
    /\ posts[call[r].post] = NoRow
    /\ Answer(r, "error")
    /\ UnchangedDb /\ UNCHANGED <<clock, call>>

----------------------------------------------------------------------------
(* Failures.                                                               *)

\* A database error, the pool's acquire timeout, or the client going away:
\* the transaction is dropped and rolled back.
Fail(r) ==
    /\ pc[r] \in InFlight
    /\ Answer(r, "error")
    /\ UnchangedDb /\ UNCHANGED <<clock, call>>

\* The commit, or the single statement, took effect but its
\* acknowledgement was lost.
CommitUnacked(r) == Apply(r) /\ Answer(r, "error")
WriteUnacked(r) == WriteApplies(r) /\ Answer(r, "error")

\* PostgreSQL breaks a wait cycle by aborting a transaction on it.
DeadlockVictim(r) ==
    /\ Blocked(r) /\ OnCycle(r)
    /\ Answer(r, "error")
    /\ UnchangedDb /\ UNCHANGED <<clock, call>>

----------------------------------------------------------------------------

\* What the handler of r does when nothing fails.
Step(r) ==
    \/ LoadMissing(r) \/ LoadForUpdate(r)
    \/ LoadForPublish(r) \/ LoadForUnpublishOrDelete(r)
    \/ SlugFree(r) \/ SlugTaken(r)
    \/ Begin(r)
    \/ InsertPost(r) \/ UpdateRow(r) \/ UpdateKey(r) \/ SetStatus(r)
    \/ UpsertTag(r) \/ ReplaceTags(r) \/ Commit(r)
    \/ Write(r) \/ WriteMissing(r)

AdminNext ==
    \E r \in Requests :
        \/ Receive(r) \/ ReceiveMalformedId(r)
        \/ Step(r)
        \/ Fail(r) \/ CommitUnacked(r) \/ WriteUnacked(r)
        \/ DeadlockVictim(r)

AdminSpec == AdminInit /\ [][AdminNext]_allVars

\* Tokio polls a request whose await completed and PostgreSQL wakes a waiter
\* when the lock is released and checks for wait cycles (deadlock_timeout).
\* Nothing is assumed of arrivals and of failures.
AdminFairness ==
    /\ \A r \in Requests : WF_allVars(Step(r))
    /\ WF_allVars(\E r \in Requests : DeadlockVictim(r))

FairAdminSpec == AdminSpec /\ AdminFairness

----------------------------------------------------------------------------
(* Properties.                                                             *)

\* Types of the variables.
TypeOK ==
    /\ posts \in [PostIds -> Row \cup {NoRow}]
    /\ tags \in [TagSlugs -> Texts]
    /\ links \subseteq PostIds \X TagSlugs
    /\ clock \in Dates
    /\ pc \in [Requests -> {"idle"} \cup InFlight \cup Answers]
    /\ call \in [Requests -> [op : Ops \cup {"none"}, post : PostIds,
                              form : Forms \cup {NoForm}]]
    /\ \A r \in Requests : call[r] \in Calls(r) \cup {NoCall(r)}
    /\ local \in [Requests -> [attempt : 1 .. MaxAttempts, seen : Dates,
                               date : Dates, done : Nat]]

\* Two live posts never have the same slug, though resolve() looks for a
\* free one outside the transaction that inserts it.
SlugsUnique ==
    \A p, q \in PostIds :
        p # q /\ posts[p] # NoRow /\ posts[q] # NoRow
            => posts[p].slug # posts[q].slug

\* Why: a transaction that entered its slug in the index is the only one to
\* have it, among committed rows and among the others in flight.
KeysReserved ==
    \A r \in Requests :
        HasKey(r) =>
            /\ Unused(call[r].post, Slug(r))
            /\ \A q \in Requests : q # r /\ HasKey(q) => Slug(q) # Slug(r)

\* Saves(r): r is a create_post or an update_post.
Saves(r) == call[r].op \in {"create", "update"}

\* What request r has established where it stands: a save in its transaction
\* has an accepted form and a date that fits the form's status, a publish
\* brings a date and a withdrawal none.
Validated(r) ==
    /\ pc[r] \in {"idle", "load"} => local[r] = Fresh
    /\ pc[r] = "load" => call[r].op \notin {"none", "create"}
    /\ pc[r] = "resolve" => Saves(r) /\ Checked(call[r].form) = "resolve"
    /\ pc[r] = "begin" => call[r].op # "none"
    /\ pc[r] \in InTx => Saves(r)
    /\ pc[r] = "insert" => call[r].op = "create"
    /\ pc[r] = "write" => ~Saves(r) /\ call[r].op # "none"
    /\ Saves(r) /\ pc[r] \in {"begin"} \cup InTx =>
          /\ Acceptable(call[r].form)
          /\ Dated(call[r].form.status, local[r].date)
    /\ ~Saves(r) /\ pc[r] \in {"begin", "write"} =>
          (call[r].op = "publish" <=> local[r].date # NoDate)

\* No request reaches a write with a form that was not accepted or with a
\* date that does not fit the status it is about to set, though the checks
\* are spread over three awaits, before and after the slug is resolved.
WritesValidated == \A r \in Requests : Validated(r)

\* The row an open update works on stays, and the row an open create is
\* about to make is not there: between the statements of one transaction
\* nobody deletes the post, and nobody creates one under another's id.
RowsPinned ==
    \A r \in Requests :
        /\ \A p \in PostIds : HoldsRow(r, p) => posts[p] # NoRow
        /\ pc[r] = "idle" \/ (call[r].op = "create" /\ pc[r] \in InFlight)
              => posts[r] = NoRow

\* A post is published exactly when it has a publication date, however
\* saves, publishing and withdrawing interleave.
PublishedIffDated ==
    \A p \in PostIds :
        posts[p] # NoRow => Dated(posts[p].status, posts[p].published_at)

\* A post whose deletion was confirmed stays deleted: a save or a publish
\* that loaded it before cannot bring it back.
DeleteIsFinal ==
    \A r \in Requests :
        pc[r] = "redirect" /\ call[r].op = "delete"
            => posts[call[r].post] = NoRow

\* A post whose creation was confirmed is there until someone deletes it.
AckedCreateDurable ==
    \A r \in Requests :
        pc[r] = "redirect" /\ call[r].op = "create"
            => \/ posts[r] # NoRow
               \/ \E q \in Requests :
                    /\ call[q].op = "delete" /\ call[q].post = r
                    /\ pc[q] \in {"redirect", "error"}

\* Saving or re-publishing a published post keeps its publication date; only
\* a request that had loaded another date (the post was a draft then, or was
\* withdrawn and published again in between) can replace it.
RedatedOnlyByStale ==
    [][\A p \in PostIds :
          /\ posts[p] # NoRow /\ posts'[p] # NoRow
          /\ posts[p].published_at # NoDate
          /\ posts'[p].published_at \notin {NoDate, posts[p].published_at}
          => \E r \in Requests :
                /\ call[r].post = p /\ pc[r] # pc'[r]
                /\ local[r].seen # posts[p].published_at]_allVars

\* The handlers implement BlogStore: whatever interleaves or fails, the
\* database changes by whole operations.  The refinement mapping is the
\* identity, posts, tags and links are the committed tables in both.
ImplementsStore == Spec

\* Every request is answered, also when it waits for a lock, is part of a
\* wait cycle or finds the pool empty.
EveryRequestAnswered ==
    \A r \in Requests : pc[r] # "idle" ~> pc[r] \in Answers
=============================================================================

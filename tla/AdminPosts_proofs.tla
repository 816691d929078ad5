-------------------------- MODULE AdminPosts_proofs -------------------------
(***************************************************************************)
(* Proofs about AdminPosts, for every set of posts, requests and forms,    *)
(* every pool size and every bound.                                        *)
(***************************************************************************)
EXTENDS AdminPosts, BlogStore_proofs

----------------------------------------------------------------------------
(* Types.                                                                  *)

LEMMA CallsType ==
    ASSUME NEW r \in Requests, NEW c \in Calls(r)
    PROVE  /\ c \in [op : Ops \cup {"none"}, post : PostIds,
                     form : Forms \cup {NoForm}]
           /\ c.op \in {"create", "update"} => c.form \in Forms
           /\ c.op = "create" => c.post = r
           /\ c.op # "none"
  BY OpsAssumption DEF Calls, PostIds

\* A request that saves has a form, and one that creates its own id.
LEMMA CallFacts ==
    ASSUME TypeOK, NEW r \in Requests
    PROVE  /\ call[r].post \in PostIds
           /\ Saves(r) => call[r].form \in Forms
           /\ call[r].op = "create" => call[r].post = r
           /\ call[r].op \in {"none", "create", "update", "publish", "unpublish", "delete"}
  <1>1. call[r] \in Calls(r) \cup {NoCall(r)}
    BY DEF TypeOK
  <1>2. CASE call[r] = NoCall(r)
    BY <1>2 DEF NoCall, Saves, PostIds
  <1>3. CASE call[r] \in Calls(r)
    BY <1>3, CallsType, OpsAssumption DEF Saves
  <1> QED
    BY <1>1, <1>2, <1>3

LocalType == [attempt : 1 .. MaxAttempts, seen : Dates, date : Dates, done : Nat]

LEMMA FreshType == Fresh \in LocalType
  BY BoundsAssumption, ZeroIsDate DEF Fresh, LocalType

LEMMA InitType == AdminInit => TypeOK
  <1> SUFFICES ASSUME AdminInit PROVE TypeOK
    OBVIOUS
  <1> USE DEF AdminInit, Init
  <1>1. posts \in [PostIds -> Row \cup {NoRow}]
    <2> SUFFICES ASSUME NEW p \in Existing
                 PROVE  RowOf(SeedForm[p], BaseSlug(SeedForm[p]),
                              Stamp(SeedForm[p].status, NoDate, 1)) \in Row
      OBVIOUS
    <2>1. SeedForm[p] \in Forms /\ HasText(SeedForm[p])
      BY SeedAssumption DEF Acceptable
    <2>2. Stamp(SeedForm[p].status, NoDate, 1) \in Dates
      BY OneIsDate, ZeroIsDate, StampType
    <2> QED
      BY <2>1, <2>2, BaseIsSlug, RowType
  <1>2. links \subseteq PostIds \X TagSlugs
    BY DEF PostIds
  <1>3. clock \in Dates
    BY OneIsDate
  <1>4. local \in [Requests -> [attempt : 1 .. MaxAttempts, seen : Dates,
                                date : Dates, done : Nat]]
    BY FreshType DEF LocalType
  <1>5. call \in [Requests -> [op : Ops \cup {"none"}, post : PostIds,
                               form : Forms \cup {NoForm}]]
    BY DEF NoCall, PostIds
  <1> QED
    BY <1>1, <1>2, <1>3, <1>4, <1>5 DEF TypeOK

----------------------------------------------------------------------------
(* What the three ways of writing do to the tables, with types.            *)

\* A save leaves well-typed tables.
LEMMA PutType ==
    ASSUME TypeOK, NEW p \in PostIds, NEW f \in Forms, NEW s \in Slugs,
           NEW d \in Dates, Acceptable(f), Put(p, f, s, d)
    PROVE  /\ posts' \in [PostIds -> Row \cup {NoRow}]
           /\ tags' \in [TagSlugs -> Texts]
           /\ links' \subseteq PostIds \X TagSlugs
  <1>1. posts' \in [PostIds -> Row \cup {NoRow}]
    <2>1. RowOf(f, s, d) \in Row
      BY RowType DEF Acceptable
    <2> QED
      BY <2>1 DEF TypeOK, Put
  <1>2. tags' \in [TagSlugs -> Texts]
    <2>1. ASSUME NEW t \in TagsOf(f) PROVE TagName(f, t) \in Texts
      <3>1. \E i \in FirstUses(f) : TagSlug(f, i) = t
        BY DEF TagsOf
      <3>2. FirstUses(f) \subseteq DOMAIN f.tags
        BY DEF FirstUses, Named
      <3>3. f.tags \in Seq(Texts)
        BY FormsAssumption
      <3>4. \A i \in DOMAIN f.tags : f.tags[i] \in Texts
        BY <3>3
      <3> QED
        BY <3>1, <3>2, <3>4 DEF TagName
    <2> QED
      BY <2>1 DEF TypeOK, Put, Renamed
  <1>3. links' \subseteq PostIds \X TagSlugs
    <2>1. TagsOf(f) \subseteq TagSlugs
      BY DEF TagSlugs
    <2> QED
      BY <2>1 DEF TypeOK, Put, Retagged
  <1> QED
    BY <1>1, <1>2, <1>3

\* A new status with a date leaves well-typed tables.
LEMMA SetStatusType ==
    ASSUME TypeOK, NEW p \in PostIds, posts[p] # NoRow,
           NEW s \in Statuses, NEW d \in Dates, SetStatusOf(p, s, d)
    PROVE  posts' \in [PostIds -> Row \cup {NoRow}]
  <1>1. posts[p] \in Row
    BY DEF TypeOK
  <1>2. [posts[p] EXCEPT !.status = s, !.published_at = d] \in Row
    BY <1>1 DEF Row
  <1>3. posts' = [posts EXCEPT ![p] = [posts[p] EXCEPT !.status = s, !.published_at = d]]
    BY DEF SetStatusOf, TypeOK
  <1> QED
    BY <1>2, <1>3 DEF TypeOK

\* A deletion leaves well-typed tables.
LEMMA RemoveType ==
    ASSUME TypeOK, NEW p \in PostIds, Remove(p)
    PROVE  /\ posts' \in [PostIds -> Row \cup {NoRow}]
           /\ tags' \in [TagSlugs -> Texts]
           /\ links' \subseteq PostIds \X TagSlugs
  BY DEF TypeOK, Remove, Retagged

\* The part of TypeOK about the requests.
RequestsType ==
    /\ clock \in Dates
    /\ pc \in [Requests -> {"idle"} \cup InFlight \cup Answers]
    /\ local \in [Requests -> LocalType]

\* An answer, whichever, leaves the requests well typed.
LEMMA AnswerType ==
    ASSUME TypeOK, NEW r \in Requests, NEW a \in Answers, Answer(r, a)
    PROVE  /\ pc' \in [Requests -> {"idle"} \cup InFlight \cup Answers]
           /\ local' \in [Requests -> LocalType]
  BY FreshType DEF TypeOK, Answer, Goto, LocalType

LEMMA TakeStampType ==
    ASSUME TypeOK, NEW r \in Requests, NEW s, NEW old \in Dates,
           TakeStamp(r, s, old)
    PROVE  clock' \in Dates /\ local' \in [Requests -> LocalType]
  <1>1. \A l \in LocalType, d \in Dates :
            [l EXCEPT !.seen = old, !.date = d] \in LocalType
    BY DEF LocalType
  <1>2. local' = [local EXCEPT ![r] =
            [local[r] EXCEPT !.seen = old, !.date = Stamp(s, old, clock + 1)]]
    BY DEF TakeStamp, TypeOK
  <1>3. Stamp(s, old, clock + 1) \in Dates
    BY DEF TakeStamp
  <1>4. local \in [Requests -> LocalType]
    BY DEF TypeOK, LocalType
  <1>5. local' \in [Requests -> LocalType]
    BY <1>1, <1>2, <1>3, <1>4
  <1>6. clock' \in Dates
    BY <1>3 DEF TakeStamp, TypeOK
  <1> QED
    BY <1>5, <1>6

LEMMA SetType ==
    ASSUME TypeOK, NEW r \in Requests
    PROVE  /\ \A k \in 1 .. MaxAttempts :
                 Set(r, "attempt", k) => local' \in [Requests -> LocalType]
           /\ \A i \in Nat :
                 Set(r, "done", i) => local' \in [Requests -> LocalType]
  <1>1. local \in [Requests -> LocalType]
    BY DEF TypeOK, LocalType
  <1>2. \A l \in LocalType, k \in 1 .. MaxAttempts :
            [l EXCEPT !["attempt"] = k] \in LocalType
    BY DEF LocalType
  <1>3. \A l \in LocalType, i \in Nat : [l EXCEPT !["done"] = i] \in LocalType
    BY DEF LocalType
  <1>4. ASSUME NEW k \in 1 .. MaxAttempts, Set(r, "attempt", k)
        PROVE  local' \in [Requests -> LocalType]
    <2>1. local' = [local EXCEPT ![r] = [local[r] EXCEPT !["attempt"] = k]]
      BY <1>1, <1>4 DEF Set
    <2> QED
      BY <1>1, <1>2, <2>1
  <1>5. ASSUME NEW i \in Nat, Set(r, "done", i)
        PROVE  local' \in [Requests -> LocalType]
    <2>1. local' = [local EXCEPT ![r] = [local[r] EXCEPT !["done"] = i]]
      BY <1>1, <1>5 DEF Set
    <2> QED
      BY <1>1, <1>3, <2>1
  <1> QED
    BY <1>4, <1>5

----------------------------------------------------------------------------
(* TypeOK is preserved by each step.  Its proof needs WritesValidated: what *)
(* a transaction writes is well typed because its form was accepted.       *)

CallType ==
    /\ call \in [Requests -> [op : Ops \cup {"none"}, post : PostIds,
                              form : Forms \cup {NoForm}]]
    /\ \A r \in Requests : call[r] \in Calls(r) \cup {NoCall(r)}

DbType ==
    /\ posts \in [PostIds -> Row \cup {NoRow}]
    /\ tags \in [TagSlugs -> Texts]
    /\ links \subseteq PostIds \X TagSlugs

LEMMA TypeParts == TypeOK <=> DbType /\ RequestsType /\ CallType
  BY DEF TypeOK, DbType, RequestsType, CallType, LocalType

\* Steps of control that leave the tables and the calls alone.
LEMMA ControlType ==
    ASSUME TypeOK, UnchangedDb, call' = call, RequestsType'
    PROVE  TypeOK'
  BY TypeParts DEF UnchangedDb, DbType, CallType, TypeOK, RequestsType, LocalType

\* The place a request moves to is one of those that exist.
LEMMA GotoType ==
    ASSUME TypeOK, NEW r \in Requests, NEW l \in InFlight \cup Answers, Goto(r, l)
    PROVE  pc' \in [Requests -> {"idle"} \cup InFlight \cup Answers]
  BY DEF TypeOK, Goto

LEMMA ReceiveType ==
    ASSUME TypeOK, NEW r \in Requests, Receive(r)
    PROVE  TypeOK'
  <1>1. PICK c \in Calls(r) :
            /\ call' = [call EXCEPT ![r] = c]
            /\ Goto(r, IF c.op = "create" THEN Checked(c.form) ELSE "load")
    BY DEF Receive, Arrive
  <1>2. CallType'
    BY <1>1, CallsType DEF TypeOK, CallType
  <1>3. pc' \in [Requests -> {"idle"} \cup InFlight \cup Answers]
    BY <1>1, GotoType DEF Checked, InFlight, Answers
  <1>4. DbType'
    BY DEF Receive, Arrive, UnchangedDb, TypeOK, DbType
  <1>5. RequestsType'
    BY <1>3 DEF Receive, Arrive, TypeOK, RequestsType, LocalType
  <1> QED
    BY <1>2, <1>4, <1>5, TypeParts, PTL

LEMMA LoadType ==
    ASSUME TypeOK, NEW r \in Requests,
           \/ LoadMissing(r) \/ LoadForUpdate(r)
           \/ LoadForPublish(r) \/ LoadForUnpublishOrDelete(r)
    PROVE  TypeOK'
  <1> DEFINE p == call[r].post
  <1>0. p \in PostIds
    BY CallFacts
  <1>1. CASE LoadMissing(r)
    BY <1>1, AnswerType, ControlType DEF LoadMissing, RequestsType, Answers, TypeOK
  <1>2. CASE LoadForUpdate(r)
    <2>1. posts[p].published_at \in Dates
      BY <1>0, <1>2 DEF LoadForUpdate, Loaded, TypeOK, Row
    <2>2. \A l \in LocalType, d \in Dates : [l EXCEPT !.seen = d] \in LocalType
      BY DEF LocalType
    <2>3. local' \in [Requests -> LocalType]
      <3>1. local \in [Requests -> LocalType]
        BY DEF TypeOK, LocalType
      <3>2. \/ local' = [local EXCEPT ![r] =
                           [local[r] EXCEPT !.seen = posts[p].published_at]]
            \/ local' = local
        BY <1>2, <3>1 DEF LoadForUpdate, Loaded
      <3> QED
        BY <2>1, <2>2, <3>1, <3>2
    <2>4. pc' \in [Requests -> {"idle"} \cup InFlight \cup Answers]
      BY <1>2, GotoType DEF LoadForUpdate, Checked, InFlight, Answers
    <2> QED
      BY <1>2, <2>3, <2>4, ControlType DEF LoadForUpdate, RequestsType, TypeOK
  <1>3. CASE LoadForPublish(r)
    <2>1. posts[p].published_at \in Dates
      BY <1>0, <1>3 DEF LoadForPublish, Loaded, TypeOK, Row
    <2>2. clock' \in Dates /\ local' \in [Requests -> LocalType]
      BY <1>3, <2>1, TakeStampType DEF LoadForPublish, Loaded
    <2>3. pc' \in [Requests -> {"idle"} \cup InFlight \cup Answers]
      BY <1>3, GotoType DEF LoadForPublish, InFlight
    <2> QED
      BY <1>3, <2>2, <2>3, ControlType DEF LoadForPublish, RequestsType
  <1>4. CASE LoadForUnpublishOrDelete(r)
    <2>1. pc' \in [Requests -> {"idle"} \cup InFlight \cup Answers]
      BY <1>4, GotoType DEF LoadForUnpublishOrDelete, InFlight
    <2> QED
      BY <1>4, <2>1, ControlType
      DEF LoadForUnpublishOrDelete, RequestsType, TypeOK, LocalType
  <1> QED
    BY <1>1, <1>2, <1>3, <1>4

LEMMA ResolveType ==
    ASSUME TypeOK, NEW r \in Requests, SlugFree(r) \/ SlugTaken(r)
    PROVE  TypeOK'
  <1>1. CASE SlugFree(r) /\ TagsParse(call[r].form)
    <2>1. local[r].seen \in Dates
      BY DEF TypeOK
    <2>2. clock' \in Dates /\ local' \in [Requests -> LocalType]
      BY <1>1, <2>1, TakeStampType DEF SlugFree
    <2>3. pc' \in [Requests -> {"idle"} \cup InFlight \cup Answers]
      BY <1>1, GotoType DEF SlugFree, InFlight
    <2> QED
      BY <1>1, <2>2, <2>3, ControlType DEF SlugFree, RequestsType
  <1>2. CASE SlugFree(r) /\ ~TagsParse(call[r].form)
    BY <1>2, AnswerType, ControlType DEF SlugFree, RequestsType, Answers, TypeOK
  <1>3. CASE SlugTaken(r) /\ local[r].attempt < MaxAttempts
    <2>1. local[r].attempt + 1 \in 1 .. MaxAttempts
      BY <1>3, BoundsAssumption DEF TypeOK
    <2>2. local' \in [Requests -> LocalType]
      BY <1>3, <2>1, SetType DEF SlugTaken
    <2> QED
      BY <1>3, <2>2, ControlType DEF SlugTaken, RequestsType, TypeOK
  <1>4. CASE SlugTaken(r) /\ ~(local[r].attempt < MaxAttempts)
    BY <1>4, AnswerType, ControlType DEF SlugTaken, RequestsType, Answers, TypeOK
  <1> QED
    BY <1>1, <1>2, <1>3, <1>4

LEMMA TransactionType ==
    ASSUME TypeOK, NEW r \in Requests,
           \/ Begin(r) \/ InsertPost(r) \/ UpdateRow(r) \/ UpdateKey(r)
           \/ SetStatus(r) \/ ReplaceTags(r)
    PROVE  TypeOK'
  <1>1. CASE Begin(r)
    <2>1. pc' \in [Requests -> {"idle"} \cup InFlight \cup Answers]
      BY <1>1, GotoType DEF Begin, InFlight, InTx
    <2> QED
      BY <1>1, <2>1, ControlType DEF Begin, RequestsType, TypeOK, LocalType
  <1>2. CASE InsertPost(r)
    <2>1. CASE SlugInUse(r)
      BY <1>2, <2>1, AnswerType, ControlType DEF InsertPost, RequestsType, Answers, TypeOK
    <2>2. CASE ~SlugInUse(r)
      <3>1. pc' \in [Requests -> {"idle"} \cup InFlight \cup Answers]
        BY <1>2, <2>2, GotoType DEF InsertPost, InFlight, InTx
      <3> QED
        BY <1>2, <2>2, <3>1, ControlType DEF InsertPost, RequestsType, TypeOK, LocalType
    <2> QED
      BY <2>1, <2>2
  <1>3. CASE UpdateRow(r)
    <2>1. CASE posts[call[r].post] = NoRow
      BY <1>3, <2>1, AnswerType, ControlType DEF UpdateRow, RequestsType, Answers, TypeOK
    <2>2. CASE posts[call[r].post] # NoRow
      <3>1. pc' \in [Requests -> {"idle"} \cup InFlight \cup Answers]
        BY <1>3, <2>2, GotoType DEF UpdateRow, InFlight, InTx
      <3> QED
        BY <1>3, <2>2, <3>1, ControlType DEF UpdateRow, RequestsType, TypeOK, LocalType
    <2> QED
      BY <2>1, <2>2
  <1>4. CASE UpdateKey(r)
    <2>1. CASE SlugInUse(r)
      BY <1>4, <2>1, AnswerType, ControlType DEF UpdateKey, RequestsType, Answers, TypeOK
    <2>2. CASE ~SlugInUse(r)
      <3>1. pc' \in [Requests -> {"idle"} \cup InFlight \cup Answers]
        BY <1>4, <2>2, GotoType DEF UpdateKey, InFlight, InTx
      <3> QED
        BY <1>4, <2>2, <3>1, ControlType DEF UpdateKey, RequestsType, TypeOK, LocalType
    <2> QED
      BY <2>1, <2>2
  <1>5. CASE SetStatus(r)
    <2>1. pc' \in [Requests -> {"idle"} \cup InFlight \cup Answers]
      BY <1>5, GotoType DEF SetStatus, InFlight, InTx
    <2> QED
      BY <1>5, <2>1, ControlType DEF SetStatus, RequestsType, TypeOK, LocalType
  <1>6. CASE ReplaceTags(r)
    <2>1. pc' \in [Requests -> {"idle"} \cup InFlight \cup Answers]
      BY <1>6, GotoType DEF ReplaceTags, InFlight, InTx
    <2> QED
      BY <1>6, <2>1, ControlType DEF ReplaceTags, RequestsType, TypeOK, LocalType
  <1> QED
    BY <1>1, <1>2, <1>3, <1>4, <1>5, <1>6

\* Tags are upserted by their place in a sequence.
LEMMA UpsertType ==
    ASSUME TypeOK, WritesValidated, NEW r \in Requests, UpsertTag(r)
    PROVE  TypeOK'
  <1>1. PICK i \in NextTag(r) : Set(r, "done", i)
    BY DEF UpsertTag
  <1>2. call[r].form \in Forms
    BY CallFacts DEF UpsertTag, WritesValidated, Validated, InTx
  <1>3. i \in DOMAIN call[r].form.tags
    BY <1>1 DEF NextTag, Pending, FirstUses, Named
  <1>4. i \in Nat
    BY <1>2, <1>3, FormsAssumption
  <1>5. local' \in [Requests -> LocalType]
    BY <1>1, <1>4, SetType
  <1> QED
    BY <1>5, ControlType DEF UpsertTag, RequestsType, TypeOK

LEMMA ApplyType ==
    ASSUME TypeOK, WritesValidated, NEW r \in Requests, Commit(r) \/ CommitUnacked(r)
    PROVE  TypeOK'
  <1>1. Saves(r) /\ Acceptable(call[r].form)
    BY DEF Commit, CommitUnacked, Apply, WritesValidated, Validated, InTx
  <1>2. call[r].form \in Forms /\ call[r].post \in PostIds
    BY <1>1, CallFacts
  <1>3. Slug(r) \in Slugs /\ local[r].date \in Dates
    BY <1>2, CandidateIsSlug DEF Slug, TypeOK
  <1>4. DbType'
    BY <1>1, <1>2, <1>3, PutType DEF Commit, CommitUnacked, Apply, DbType
  <1>5. RequestsType'
    BY AnswerType DEF Commit, CommitUnacked, Apply, Answers, RequestsType, TypeOK
  <1>6. CallType'
    BY DEF Commit, CommitUnacked, Apply, CallType, TypeOK
  <1> QED
    BY <1>4, <1>5, <1>6, TypeParts, PTL

LEMMA WriteType ==
    ASSUME TypeOK, NEW r \in Requests, Write(r) \/ WriteUnacked(r)
    PROVE  TypeOK'
  <1>1. call[r].post \in PostIds /\ local[r].date \in Dates
    BY CallFacts DEF TypeOK
  <1>2. DbType'
    <2>1. CASE call[r].op = "delete"
      <3>1. Remove(call[r].post)
        BY <2>1 DEF Write, WriteUnacked, WriteApplies
      <3> QED
        BY <1>1, <3>1, RemoveType DEF DbType
    <2>2. CASE call[r].op # "delete"
      <3>1. PICK s \in Statuses :
                /\ posts[call[r].post] # NoRow
                /\ SetStatusOf(call[r].post, s, local[r].date)
        BY <2>2 DEF Write, WriteUnacked, WriteApplies, Statuses
      <3> QED
        BY <1>1, <3>1, SetStatusType DEF DbType, SetStatusOf, TypeOK
    <2> QED
      BY <2>1, <2>2
  <1>3. RequestsType'
    BY AnswerType DEF Write, WriteUnacked, WriteApplies, Answers, RequestsType, TypeOK
  <1>4. CallType'
    BY DEF Write, WriteUnacked, WriteApplies, CallType, TypeOK
  <1> QED
    BY <1>2, <1>3, <1>4, TypeParts, PTL

LEMMA FailureType ==
    ASSUME TypeOK, NEW r \in Requests,
           WriteMissing(r) \/ Fail(r) \/ DeadlockVictim(r)
    PROVE  TypeOK'
  BY AnswerType, ControlType
  DEF WriteMissing, Fail, DeadlockVictim, RequestsType, Answers, TypeOK

LEMMA MalformedType ==
    ASSUME TypeOK, NEW r \in Requests, ReceiveMalformedId(r)
    PROVE  TypeOK'
  <1>1. pc' \in [Requests -> {"idle"} \cup InFlight \cup Answers]
    BY GotoType DEF ReceiveMalformedId, Answers
  <1> QED
    BY <1>1, ControlType DEF ReceiveMalformedId, RequestsType, TypeOK, LocalType

LEMMA NextType == TypeOK /\ WritesValidated /\ [AdminNext]_allVars => TypeOK'
  <1> SUFFICES ASSUME TypeOK, WritesValidated, [AdminNext]_allVars
               PROVE  TypeOK'
    OBVIOUS
  <1>1. CASE UNCHANGED allVars
    BY <1>1, ControlType DEF allVars, UnchangedDb, RequestsType, TypeOK, LocalType
  <1>2. CASE AdminNext
    <2>1. PICK r \in Requests :
              \/ Receive(r) \/ ReceiveMalformedId(r) \/ Step(r)
              \/ Fail(r) \/ CommitUnacked(r) \/ WriteUnacked(r) \/ DeadlockVictim(r)
      BY <1>2 DEF AdminNext
    <2> QED
      BY <2>1, ReceiveType, MalformedType, LoadType, ResolveType, TransactionType,
         UpsertType, ApplyType, WriteType, FailureType
      DEF Step
  <1> QED
    BY <1>1, <1>2

----------------------------------------------------------------------------
(* A step of one request leaves the others where they are.                 *)

Kept(q) == pc'[q] = pc[q] /\ call'[q] = call[q] /\ local'[q] = local[q]

LEMMA OthersKept ==
    ASSUME TypeOK, NEW r \in Requests, NEW q \in Requests, q # r,
           \/ Receive(r) \/ ReceiveMalformedId(r) \/ Step(r)
           \/ Fail(r) \/ CommitUnacked(r) \/ WriteUnacked(r) \/ DeadlockVictim(r)
    PROVE  Kept(q)
  <1> USE DEF TypeOK, Kept, Goto, Answer, Set, TakeStamp
  <1>1. CASE Receive(r) \/ ReceiveMalformedId(r)
    BY <1>1 DEF Receive, Arrive, ReceiveMalformedId
  <1>2. CASE LoadMissing(r) \/ LoadForUpdate(r)
    BY <1>2 DEF LoadMissing, LoadForUpdate
  <1>3. CASE LoadForPublish(r) \/ LoadForUnpublishOrDelete(r)
    BY <1>3 DEF LoadForPublish, LoadForUnpublishOrDelete
  <1>4. CASE SlugFree(r) \/ SlugTaken(r)
    BY <1>4 DEF SlugFree, SlugTaken
  <1>5. CASE Begin(r) \/ InsertPost(r) \/ UpdateRow(r) \/ UpdateKey(r)
    BY <1>5 DEF Begin, InsertPost, UpdateRow, UpdateKey
  <1>6. CASE SetStatus(r) \/ UpsertTag(r) \/ ReplaceTags(r)
    BY <1>6 DEF SetStatus, UpsertTag, ReplaceTags
  <1>7. CASE Commit(r) \/ CommitUnacked(r)
    BY <1>7 DEF Commit, CommitUnacked, Apply
  <1>8. CASE Write(r) \/ WriteUnacked(r) \/ WriteMissing(r)
    BY <1>8 DEF Write, WriteUnacked, WriteApplies, WriteMissing
  <1>9. CASE Fail(r) \/ DeadlockVictim(r)
    BY <1>9 DEF Fail, DeadlockVictim
  <1> QED
    BY <1>1, <1>2, <1>3, <1>4, <1>5, <1>6, <1>7, <1>8, <1>9 DEF Step

\* ... and answers no request but its own.
LEMMA AnswerPlace ==
    ASSUME TypeOK, NEW r \in Requests, NEW a \in Answers, Answer(r, a)
    PROVE  pc'[r] \in Answers
  BY DEF TypeOK, Answer, Goto

----------------------------------------------------------------------------
(* WritesValidated is preserved.                                           *)

LEMMA AnsweredValidated ==
    ASSUME NEW r \in Requests, pc'[r] \in Answers
    PROVE  Validated(r)'
  BY DEF Validated, Answers, InTx

LEMMA InitValidated == AdminInit => WritesValidated
  BY DEF AdminInit, WritesValidated, Validated, NoCall, InTx, Saves

LEMMA StepValidated ==
    ASSUME TypeOK, NEW r \in Requests, Validated(r), Step(r)
    PROVE  Validated(r)'
  <1> USE DEF TypeOK, Goto
  <1>1. CASE LoadMissing(r)
    BY <1>1, AnswerPlace, AnsweredValidated DEF LoadMissing, Answers
  <1>2. CASE LoadForUpdate(r)
    <2>1. pc'[r] = Checked(call[r].form) /\ call' = call /\ Saves(r)
      BY <1>2 DEF LoadForUpdate, Saves
    <2>2. pc'[r] \in {"resolve", "invalid"}
      BY <2>1 DEF Checked
    <2> QED
      BY <2>1, <2>2 DEF Validated, Saves, InTx
  <1>3. CASE LoadForPublish(r)
    <2>1. pc'[r] = "begin" /\ call' = call /\ call[r].op = "publish"
      BY <1>3 DEF LoadForPublish
    <2>2. posts[call[r].post].published_at \in Dates
      BY <1>3, CallFacts DEF LoadForPublish, Loaded, Row
    <2>3. local'[r].date = Stamp("published", posts[call[r].post].published_at, clock + 1)
      BY <1>3 DEF LoadForPublish, Loaded, TakeStamp
    <2>4. clock + 1 \in Nat \ {0}
      BY BoundsAssumption DEF Dates
    <2>5. Dated("published", local'[r].date)
      BY <2>2, <2>3, <2>4, StampFits DEF Statuses
    <2> QED
      BY <2>1, <2>5 DEF Validated, Saves, InTx, Dated
  <1>4. CASE LoadForUnpublishOrDelete(r)
    <2>1. pc'[r] = "begin" /\ call' = call /\ local' = local
      BY <1>4 DEF LoadForUnpublishOrDelete
    <2>2. call[r].op \in {"unpublish", "delete"} /\ local[r].date = NoDate
      BY <1>4 DEF LoadForUnpublishOrDelete, Validated, Fresh
    <2> QED
      BY <2>1, <2>2 DEF Validated, Saves, InTx
  <1>5. CASE SlugFree(r) /\ TagsParse(call[r].form)
    <2> DEFINE f == call[r].form
    <2>1. pc'[r] = "begin" /\ call' = call
      BY <1>5 DEF SlugFree
    <2>2. Saves(r) /\ Acceptable(f)
      BY <1>5 DEF SlugFree, Validated, Checked, Acceptable
    <2>3. local'[r].date = Stamp(f.status, local[r].seen, clock + 1)
      BY <1>5 DEF SlugFree, TakeStamp
    <2>4. clock + 1 \in Nat \ {0} /\ local[r].seen \in Dates
      BY BoundsAssumption DEF Dates
    <2>5. Dated(f.status, local'[r].date)
      BY <2>2, <2>3, <2>4, StampFits DEF Acceptable, HasText
    <2> QED
      BY <2>1, <2>2, <2>5 DEF Validated, Saves, InTx
  <1>6. CASE SlugFree(r) /\ ~TagsParse(call[r].form)
    BY <1>6, AnswerPlace, AnsweredValidated DEF SlugFree, Answers
  <1>7. CASE SlugTaken(r) /\ local[r].attempt < MaxAttempts
    BY <1>7 DEF SlugTaken, Validated, Saves, InTx
  <1>8. CASE SlugTaken(r) /\ ~(local[r].attempt < MaxAttempts)
    BY <1>8, AnswerPlace, AnsweredValidated DEF SlugTaken, Answers
  <1>9. CASE Begin(r)
    <2>1. call' = call /\ local' = local /\ pc[r] = "begin"
      BY <1>9 DEF Begin
    <2>2. \/ pc'[r] = "insert" /\ call[r].op = "create"
          \/ pc'[r] = "update" /\ call[r].op = "update"
          \/ pc'[r] = "write" /\ ~Saves(r)
      BY <1>9, CallFacts DEF Begin, Saves, InTx
    <2> QED
      BY <2>1, <2>2 DEF Validated, Saves, InTx
  <1>10. CASE InsertPost(r) \/ UpdateRow(r) \/ UpdateKey(r)
    <2>1. \/ pc'[r] \in Answers
          \/ /\ pc[r] \in InTx /\ pc'[r] \in InTx \ {"insert"}
             /\ call' = call /\ local' = local
      BY <1>10, AnswerPlace DEF InsertPost, UpdateRow, UpdateKey, InTx, Answers
    <2> QED
      BY <2>1, AnsweredValidated DEF Validated, Saves, InTx
  <1>11. CASE SetStatus(r) \/ ReplaceTags(r)
    BY <1>11 DEF SetStatus, ReplaceTags, Validated, Saves, InTx
  <1>12. CASE UpsertTag(r)
    <2>1. call' = call /\ pc' = pc /\ pc[r] = "upsert"
      BY <1>12 DEF UpsertTag
    <2>2. local'[r].date = local[r].date
      BY <1>12 DEF UpsertTag, Set
    <2> QED
      BY <2>1, <2>2 DEF Validated, Saves, InTx
  <1>13. CASE Commit(r)
    BY <1>13, AnswerPlace, AnsweredValidated DEF Commit, Answers
  <1>14. CASE Write(r) \/ WriteMissing(r)
    BY <1>14, AnswerPlace, AnsweredValidated DEF Write, WriteMissing, Answers
  <1> QED
    BY <1>1, <1>2, <1>3, <1>4, <1>5, <1>6, <1>7, <1>8, <1>9, <1>10, <1>11, <1>12,
       <1>13, <1>14
    DEF Step

LEMMA NextValidated == TypeOK /\ WritesValidated /\ [AdminNext]_allVars => WritesValidated'
  <1> SUFFICES ASSUME TypeOK, WritesValidated, [AdminNext]_allVars, NEW q \in Requests
               PROVE  Validated(q)'
    BY DEF WritesValidated
  <1>0. Validated(q)
    BY DEF WritesValidated
  <1>1. ASSUME Kept(q) PROVE Validated(q)'
    BY <1>0, <1>1 DEF Kept, Validated, Saves
  <1>2. CASE UNCHANGED allVars
    BY <1>1, <1>2 DEF allVars, Kept
  <1>3. CASE AdminNext
    <2>1. PICK r \in Requests :
              \/ Receive(r) \/ ReceiveMalformedId(r) \/ Step(r)
              \/ Fail(r) \/ CommitUnacked(r) \/ WriteUnacked(r) \/ DeadlockVictim(r)
      BY <1>3 DEF AdminNext
    <2>2. CASE q # r
      BY <1>1, <2>1, <2>2, OthersKept
    <2>3. CASE q = r /\ Receive(r)
      <3>1. PICK c \in Calls(q) :
                /\ call' = [call EXCEPT ![q] = c]
                /\ Goto(q, IF c.op = "create" THEN Checked(c.form) ELSE "load")
        BY <2>3 DEF Receive, Arrive
      <3>2. call'[q] = c /\ local' = local /\ local[q] = Fresh
        BY <1>0, <2>3, <3>1 DEF Receive, Arrive, TypeOK, Validated
      <3>3. CASE c.op = "create"
        <4>1. pc'[q] = Checked(c.form)
          BY <3>1, <3>3 DEF Goto, TypeOK
        <4> QED
          BY <3>2, <3>3, <4>1 DEF Validated, Saves, InTx, Checked
      <3>4. CASE c.op # "create"
        <4>1. pc'[q] = "load"
          BY <3>1, <3>4 DEF Goto, TypeOK
        <4>2. c.op # "none"
          BY CallsType
        <4> QED
          BY <3>2, <3>4, <4>1, <4>2 DEF Validated, Saves, InTx
      <3> QED
        BY <3>3, <3>4
    <2>4. CASE q = r /\ ReceiveMalformedId(r)
      BY <2>4, AnsweredValidated DEF ReceiveMalformedId, Goto, Answers, TypeOK
    <2>5. CASE q = r /\ Step(r)
      BY <1>0, <2>5, StepValidated
    <2>6. CASE q = r /\ (Fail(r) \/ CommitUnacked(r) \/ WriteUnacked(r) \/ DeadlockVictim(r))
      BY <2>6, AnswerPlace, AnsweredValidated
      DEF Fail, CommitUnacked, WriteUnacked, DeadlockVictim, Answers
    <2> QED
      BY <2>1, <2>2, <2>3, <2>4, <2>5, <2>6
  <1> QED
    BY <1>2, <1>3

----------------------------------------------------------------------------
(* Slugs.                                                                  *)

SlugInv == SlugsUnique /\ KeysReserved

Acts(r) ==
    \/ Receive(r) \/ ReceiveMalformedId(r) \/ Step(r)
    \/ Fail(r) \/ CommitUnacked(r) \/ WriteUnacked(r) \/ DeadlockVictim(r)

\* Where the slugs of the rows come from: a row keeps its slug, unless a
\* transaction that entered its slug in the index commits.
LEMMA RowSlugs ==
    ASSUME TypeOK, NEW r \in Requests, Acts(r), NEW p \in PostIds, posts'[p] # NoRow
    PROVE  \/ posts[p] # NoRow /\ posts'[p].slug = posts[p].slug
           \/ /\ p = call[r].post /\ posts'[p].slug = Slug(r)
              /\ HasKey(r) /\ ~HasKey(r)'
  <1>1. CASE UnchangedDb
    BY <1>1 DEF UnchangedDb
  <1>2. CASE Commit(r) \/ CommitUnacked(r)
    <2>1. pc[r] = "commit" /\ Put(call[r].post, call[r].form, Slug(r), local[r].date)
      BY <1>2 DEF Commit, CommitUnacked, Apply
    <2>2. pc'[r] \in Answers
      BY <1>2, AnswerPlace DEF Commit, CommitUnacked, Answers
    <2>3. HasKey(r) /\ ~HasKey(r)'
      BY <2>1, <2>2 DEF HasKey, Answers
    <2>4. posts' = [posts EXCEPT ![call[r].post] =
                       RowOf(call[r].form, Slug(r), local[r].date)]
      BY <2>1 DEF Put
    <2>5. CASE p = call[r].post
      BY <2>3, <2>4, <2>5 DEF TypeOK, RowOf
    <2>6. CASE p # call[r].post
      BY <2>4, <2>6 DEF TypeOK
    <2> QED
      BY <2>5, <2>6
  <1>3. CASE Write(r) \/ WriteUnacked(r)
    <2> DEFINE w == call[r].post
    <2>1. CASE Remove(w)
      BY <2>1 DEF Remove, TypeOK
    <2>2. CASE \E s \in Statuses, d \in Dates : posts[w] # NoRow /\ SetStatusOf(w, s, d)
      <3>1. PICK s \in Statuses, d \in Dates : posts[w] # NoRow /\ SetStatusOf(w, s, d)
        BY <2>2
      <3>2. posts' = [posts EXCEPT ![w] =
                         [posts[w] EXCEPT !.status = s, !.published_at = d]]
        BY <3>1, CallFacts DEF SetStatusOf, TypeOK
      <3>3. w \in PostIds /\ posts[w] \in Row
        BY <3>1, CallFacts DEF TypeOK
      <3>4. [posts[w] EXCEPT !.status = s, !.published_at = d].slug = posts[w].slug
        BY <3>3 DEF Row
      <3> QED
        BY <3>1, <3>2, <3>3, <3>4 DEF TypeOK
    <2>3. local[r].date \in Dates
      BY DEF TypeOK
    <2>4. \/ Remove(w)
          \/ posts[w] # NoRow /\ SetStatusOf(w, "published", local[r].date)
          \/ posts[w] # NoRow /\ SetStatusOf(w, "draft", local[r].date)
      BY <1>3 DEF Write, WriteUnacked, WriteApplies
    <2> QED
      BY <2>1, <2>2, <2>3, <2>4 DEF Statuses
  <1> QED
    BY <1>1, <1>2, <1>3
    DEF Acts, Step, Receive, Arrive, ReceiveMalformedId, LoadMissing, LoadForUpdate,
        LoadForPublish, LoadForUnpublishOrDelete, SlugFree, SlugTaken, Begin,
        InsertPost, UpdateRow, UpdateKey, SetStatus, UpsertTag, ReplaceTags,
        WriteMissing, Fail, DeadlockVictim

\* r enters its slug in the unique index now.
EntersKey(r) ==
    /\ ~SlugInUse(r) /\ ~Blocked(r)
    /\ UnchangedDb
    /\ pc[r] \in {"insert", "key"}

\* Who has a slug in the index after a step had it before, or enters it.
LEMMA KeysHeld ==
    ASSUME TypeOK, NEW r \in Requests, Acts(r), NEW q \in Requests, HasKey(q)'
    PROVE  /\ call'[q] = call[q] /\ Slug(q)' = Slug(q)
           /\ HasKey(q) \/ (q = r /\ EntersKey(r))
  <1>1. CASE Kept(q)
    BY <1>1 DEF Kept, HasKey, Slug
  <1>2. CASE q = r
    <2>1. pc'[r] \notin Answers
      BY <1>2 DEF HasKey, Answers
    <2>2. CASE Receive(r) \/ ReceiveMalformedId(r)
      <3>1. pc'[r] \in {"resolve", "invalid", "load", "not_found"}
        BY <2>2 DEF Receive, Arrive, ReceiveMalformedId, Goto, Checked, TypeOK
      <3> QED
        BY <1>2, <3>1 DEF HasKey
    <2>3. CASE \/ LoadMissing(r) \/ LoadForUpdate(r)
               \/ LoadForPublish(r) \/ LoadForUnpublishOrDelete(r)
      <3>1. pc'[r] \in {"resolve", "invalid", "begin", "not_found"}
        BY <2>3 DEF LoadMissing, LoadForUpdate, LoadForPublish,
                    LoadForUnpublishOrDelete, Goto, Answer, Checked, TypeOK
      <3> QED
        BY <1>2, <3>1 DEF HasKey
    <2>4. CASE SlugFree(r) \/ SlugTaken(r)
      <3>1. pc'[r] \in {"resolve", "invalid", "begin"}
        BY <2>4 DEF SlugFree, SlugTaken, Goto, Answer, TypeOK
      <3> QED
        BY <1>2, <3>1 DEF HasKey
    <2>5. CASE Begin(r) \/ UpdateRow(r)
      <3>1. pc'[r] \in {"insert", "update", "write", "key", "error"}
        BY <2>5 DEF Begin, UpdateRow, Goto, Answer, TypeOK
      <3> QED
        BY <1>2, <3>1 DEF HasKey
    <2>6. CASE InsertPost(r) \/ UpdateKey(r)
      <3>1. ~SlugInUse(r)
        BY <2>1, <2>6, AnswerPlace DEF InsertPost, UpdateKey, Answers
      <3>2. call' = call /\ local' = local
        BY <2>6, <3>1 DEF InsertPost, UpdateKey
      <3> QED
        BY <1>2, <2>6, <3>1, <3>2 DEF InsertPost, UpdateKey, EntersKey, Slug
    <2>7. CASE SetStatus(r) \/ ReplaceTags(r)
      BY <1>2, <2>7 DEF SetStatus, ReplaceTags, HasKey, Slug
    <2>8. CASE UpsertTag(r)
      <3>1. call' = call /\ pc[r] = "upsert"
        BY <2>8 DEF UpsertTag
      <3>2. local'[r].attempt = local[r].attempt
        BY <2>8 DEF UpsertTag, Set, TypeOK
      <3> QED
        BY <1>2, <3>1, <3>2 DEF HasKey, Slug
    <2>9. CASE Commit(r) \/ CommitUnacked(r) \/ Write(r) \/ WriteUnacked(r) \/ WriteMissing(r)
      BY <2>1, <2>9, AnswerPlace
      DEF Commit, CommitUnacked, Write, WriteUnacked, WriteMissing, Answers
    <2>10. CASE Fail(r) \/ DeadlockVictim(r)
      BY <2>1, <2>10, AnswerPlace DEF Fail, DeadlockVictim, Answers
    <2> QED
      BY <2>2, <2>3, <2>4, <2>5, <2>6, <2>7, <2>8, <2>9, <2>10 DEF Acts, Step
  <1> QED
    BY <1>1, <1>2, OthersKept DEF Acts

\* Nobody else has the slug that r enters.
LEMMA EnteredKeyIsFree ==
    ASSUME TypeOK, NEW r \in Requests, EntersKey(r)
    PROVE  /\ Unused(call[r].post, Slug(r))
           /\ \A q \in Requests \ {r} : HasKey(q) => Slug(q) # Slug(r)
  <1>1. ASSUME NEW q \in Requests \ {r}, HasKey(q) PROVE Slug(q) # Slug(r)
    <2>1. Slug(q) \in HeldSlugs(q)
      BY <1>1 DEF HeldSlugs
    <2>2. ~WaitsFor(r, q)
      BY <1>1 DEF EntersKey, Blocked
    <2> QED
      BY <2>1, <2>2, <1>1 DEF WaitsFor, EntersKey
  <1> QED
    BY <1>1 DEF EntersKey, SlugInUse

LEMMA InitSlugs == AdminInit => SlugInv
  <1> SUFFICES ASSUME AdminInit PROVE SlugInv
    OBVIOUS
  <1>1. KeysReserved
    BY DEF AdminInit, KeysReserved, HasKey
  <1>2. ASSUME NEW p \in PostIds, NEW q \in PostIds, p # q,
               posts[p] # NoRow, posts[q] # NoRow
        PROVE  posts[p].slug # posts[q].slug
    <2>1. p \in Existing /\ q \in Existing
      BY <1>2 DEF AdminInit, Init
    <2>2. /\ posts[p].slug = BaseSlug(SeedForm[p])
          /\ posts[q].slug = BaseSlug(SeedForm[q])
      BY <1>2, <2>1 DEF AdminInit, Init, RowOf
    <2> QED
      BY <1>2, <2>1, <2>2, SeedAssumption
  <1> QED
    BY <1>1, <1>2 DEF SlugInv, SlugsUnique

LEMMA NextSlugs == TypeOK /\ SlugInv /\ [AdminNext]_allVars => SlugInv'
  <1> SUFFICES ASSUME TypeOK, SlugInv, [AdminNext]_allVars
               PROVE  SlugInv'
    OBVIOUS
  <1>1. CASE UNCHANGED allVars
    BY <1>1 DEF allVars, SlugInv, SlugsUnique, KeysReserved, HasKey, Slug, Unused
  <1>2. CASE AdminNext
    <2>1. PICK r \in Requests : Acts(r)
      BY <1>2 DEF AdminNext, Acts
    <2>2. call[r].post \in PostIds
      BY CallFacts
    <2>3. SlugsUnique'
      <3> SUFFICES ASSUME NEW p \in PostIds, NEW q \in PostIds, p # q,
                          posts'[p] # NoRow, posts'[q] # NoRow
                   PROVE  posts'[p].slug # posts'[q].slug
        BY DEF SlugsUnique
      <3>1. CASE /\ posts[p] # NoRow /\ posts'[p].slug = posts[p].slug
                 /\ posts[q] # NoRow /\ posts'[q].slug = posts[q].slug
        BY <3>1 DEF SlugInv, SlugsUnique
      <3>2. ASSUME NEW o \in PostIds, o # call[r].post, posts[o] # NoRow, HasKey(r)
            PROVE  posts[o].slug # Slug(r)
        BY <3>2 DEF SlugInv, KeysReserved, Unused
      <3> QED
        BY <2>1, <3>1, <3>2, RowSlugs
    <2>4. KeysReserved'
      <3> SUFFICES ASSUME NEW q \in Requests, HasKey(q)'
                   PROVE  /\ \A p \in PostIds \ {call'[q].post} :
                                posts'[p] # NoRow => posts'[p].slug # Slug(q)'
                          /\ \A o \in Requests : o # q /\ HasKey(o)' => Slug(o)' # Slug(q)'
        BY DEF KeysReserved, Unused
      <3>1. /\ call'[q] = call[q] /\ Slug(q)' = Slug(q)
            /\ HasKey(q) \/ (q = r /\ EntersKey(r))
        BY <2>1, KeysHeld
      <3>2. Unused(call[q].post, Slug(q))
        BY <3>1, EnteredKeyIsFree DEF SlugInv, KeysReserved
      <3>3. ASSUME NEW o \in Requests, o # q, HasKey(o) PROVE Slug(o) # Slug(q)
        BY <3>1, <3>3, EnteredKeyIsFree DEF SlugInv, KeysReserved
      <3>4. ASSUME NEW p \in PostIds \ {call[q].post}, posts'[p] # NoRow
            PROVE  posts'[p].slug # Slug(q)
        <4>1. CASE posts[p] # NoRow /\ posts'[p].slug = posts[p].slug
          BY <3>2, <4>1 DEF Unused
        <4>2. CASE /\ p = call[r].post /\ posts'[p].slug = Slug(r)
                   /\ HasKey(r) /\ ~HasKey(r)'
          <5>1. q # r
            BY <4>2
          <5> QED
            BY <3>3, <4>2, <5>1
        <4> QED
          BY <2>1, <3>4, <4>1, <4>2, RowSlugs
      <3>5. ASSUME NEW o \in Requests, o # q, HasKey(o)' PROVE Slug(o)' # Slug(q)
        <4>1. /\ Slug(o)' = Slug(o)
              /\ HasKey(o) \/ (o = r /\ EntersKey(r))
          BY <2>1, <3>5, KeysHeld
        <4>2. CASE HasKey(o)
          BY <3>3, <3>5, <4>1, <4>2
        <4>3. CASE o = r /\ EntersKey(r)
          <5>1. HasKey(q)
            BY <3>1, <3>5, <4>3
          <5> QED
            BY <3>5, <4>1, <4>3, <5>1, EnteredKeyIsFree
        <4> QED
          BY <4>1, <4>2, <4>3
      <3> QED
        BY <3>1, <3>4, <3>5
    <2> QED
      BY <2>3, <2>4 DEF SlugInv
  <1> QED
    BY <1>1, <1>2

----------------------------------------------------------------------------
(* What the steps do to the tables.                                        *)

\* A step writes the tables in one of three ways or leaves them alone.
LEMMA DbSteps ==
    ASSUME TypeOK, WritesValidated, NEW r \in Requests, Acts(r)
    PROVE  \/ UnchangedDb
           \/ /\ pc[r] = "commit" /\ Saves(r) /\ pc'[r] \in Answers
              /\ Put(call[r].post, call[r].form, Slug(r), local[r].date)
           \/ /\ call[r].op = "publish" /\ pc[r] = "write" /\ pc'[r] \in Answers
              /\ posts[call[r].post] # NoRow /\ local[r].date \in Dates \ {NoDate}
              /\ SetStatusOf(call[r].post, "published", local[r].date)
           \/ /\ call[r].op = "unpublish" /\ pc[r] = "write" /\ pc'[r] \in Answers
              /\ posts[call[r].post] # NoRow
              /\ SetStatusOf(call[r].post, "draft", NoDate)
           \/ /\ call[r].op = "delete" /\ pc[r] = "write" /\ pc'[r] \in Answers
              /\ ~Blocked(r) /\ Remove(call[r].post)
  <1>1. CASE Commit(r) \/ CommitUnacked(r)
    <2>1. pc'[r] \in Answers
      BY <1>1, AnswerPlace DEF Commit, CommitUnacked, Answers
    <2>2. pc[r] = "commit" /\ Put(call[r].post, call[r].form, Slug(r), local[r].date)
      BY <1>1 DEF Commit, CommitUnacked, Apply
    <2>3. Saves(r)
      BY <2>2 DEF WritesValidated, Validated, InTx
    <2> QED
      BY <2>1, <2>2, <2>3
  <1>2. CASE Write(r) \/ WriteUnacked(r)
    <2>1. WriteApplies(r) /\ pc'[r] \in Answers
      BY <1>2, AnswerPlace DEF Write, WriteUnacked, Answers
    <2>2. CASE call[r].op = "delete"
      BY <2>1, <2>2 DEF WriteApplies
    <2>3. CASE call[r].op = "publish"
      <3>1. local[r].date # NoDate /\ local[r].date \in Dates
        BY <2>1, <2>3 DEF WriteApplies, WritesValidated, Validated, Saves, TypeOK
      <3> QED
        BY <2>1, <2>3, <3>1 DEF WriteApplies
    <2>4. CASE call[r].op = "unpublish"
      <3>1. local[r].date = NoDate
        BY <2>1, <2>4 DEF WriteApplies, WritesValidated, Validated, Saves
      <3> QED
        BY <2>1, <2>4, <3>1 DEF WriteApplies
    <2> QED
      BY <2>1, <2>2, <2>3, <2>4 DEF WriteApplies
  <1>3. CASE ~(Commit(r) \/ CommitUnacked(r) \/ Write(r) \/ WriteUnacked(r))
    BY <1>3
    DEF Acts, Step, Receive, Arrive, ReceiveMalformedId, LoadMissing, LoadForUpdate,
        LoadForPublish, LoadForUnpublishOrDelete, SlugFree, SlugTaken, Begin,
        InsertPost, UpdateRow, UpdateKey, SetStatus, UpsertTag, ReplaceTags,
        WriteMissing, Fail, DeadlockVictim
  <1> QED
    BY <1>1, <1>2, <1>3

\* What a save that commits has established.
LEMMA CommitFacts ==
    ASSUME TypeOK, WritesValidated, NEW r \in Requests, pc[r] = "commit"
    PROVE  /\ Saves(r) /\ call[r].form \in Forms /\ call[r].post \in PostIds
           /\ Acceptable(call[r].form)
           /\ local[r].date \in Dates
           /\ Dated(call[r].form.status, local[r].date)
           /\ local[r].attempt \in 1 .. MaxAttempts
  <1>1. Saves(r)
    BY DEF WritesValidated, Validated, InTx
  <1>2. Acceptable(call[r].form) /\ Dated(call[r].form.status, local[r].date)
    BY <1>1 DEF WritesValidated, Validated, InTx
  <1> QED
    BY <1>1, <1>2, CallFacts DEF TypeOK

\* A save makes its row and touches no other.
LEMMA PutRows ==
    ASSUME TypeOK, WritesValidated, NEW r \in Requests, pc[r] = "commit",
           Put(call[r].post, call[r].form, Slug(r), local[r].date)
    PROVE  /\ posts'[call[r].post] # NoRow
           /\ \A p \in PostIds \ {call[r].post} : posts'[p] = posts[p]
  <1>1. RowOf(call[r].form, Slug(r), local[r].date) \in Row
    BY CommitFacts, CandidateIsSlug, RowType DEF Slug, Acceptable
  <1> QED
    BY <1>1, CommitFacts, RowAssumption DEF Put, TypeOK

\* A new status neither makes nor removes a row.
LEMMA SetStatusRows ==
    ASSUME TypeOK, NEW w \in PostIds, posts[w] # NoRow,
           NEW s \in Statuses, NEW d \in Dates, SetStatusOf(w, s, d)
    PROVE  \A p \in PostIds : posts'[p] = NoRow <=> posts[p] = NoRow
  <1>1. posts[w] \in Row
    BY DEF TypeOK
  <1>2. [posts[w] EXCEPT !.status = s, !.published_at = d] \in Row
    BY <1>1 DEF Row
  <1>3. posts' = [posts EXCEPT ![w] = [posts[w] EXCEPT !.status = s, !.published_at = d]]
    BY DEF SetStatusOf, TypeOK
  <1> QED
    BY <1>2, <1>3, RowAssumption DEF TypeOK

----------------------------------------------------------------------------
(* PublishedIffDated.                                                      *)

LEMMA InitDated == AdminInit => PublishedIffDated
  <1> SUFFICES ASSUME AdminInit, NEW p \in PostIds, posts[p] # NoRow
               PROVE  Dated(posts[p].status, posts[p].published_at)
    BY DEF PublishedIffDated
  <1>1. p \in Existing
    BY DEF AdminInit, Init
  <1>2. /\ posts[p].status = SeedForm[p].status
        /\ posts[p].published_at = Stamp(SeedForm[p].status, NoDate, 1)
    BY <1>1 DEF AdminInit, Init, RowOf
  <1>3. SeedForm[p].status \in Statuses
    BY <1>1, SeedAssumption DEF Acceptable, HasText
  <1> QED
    BY <1>2, <1>3, ZeroIsDate, StampFits

LEMMA NextDated ==
    TypeOK /\ WritesValidated /\ PublishedIffDated /\ [AdminNext]_allVars
        => PublishedIffDated'
  <1> SUFFICES ASSUME TypeOK, WritesValidated, PublishedIffDated, [AdminNext]_allVars,
                      NEW p \in PostIds, posts'[p] # NoRow
               PROVE  Dated(posts'[p].status, posts'[p].published_at)
    BY DEF PublishedIffDated, Dated
  <1>1. CASE posts'[p] = posts[p]
    BY <1>1 DEF PublishedIffDated
  <1>2. CASE UNCHANGED allVars
    BY <1>1, <1>2 DEF allVars
  <1>3. CASE AdminNext
    <2>1. PICK r \in Requests : Acts(r)
      BY <1>3 DEF AdminNext, Acts
    <2> DEFINE w == call[r].post
    <2>2. w \in PostIds
      BY CallFacts
    <2>3. CASE UnchangedDb
      BY <1>1, <2>3 DEF UnchangedDb
    <2>4. CASE pc[r] = "commit" /\ Put(w, call[r].form, Slug(r), local[r].date)
      <3>1. Dated(call[r].form.status, local[r].date)
        BY <2>4, CommitFacts
      <3>2. posts' = [posts EXCEPT ![w] = RowOf(call[r].form, Slug(r), local[r].date)]
        BY <2>4 DEF Put
      <3> QED
        BY <1>1, <3>1, <3>2 DEF TypeOK, RowOf
    <2>5. ASSUME NEW s \in Statuses, NEW d \in Dates, Dated(s, d),
                 posts[w] # NoRow, SetStatusOf(w, s, d)
          PROVE  Dated(posts'[p].status, posts'[p].published_at)
      <3>1. posts[w] \in Row
        BY <2>2, <2>5 DEF TypeOK
      <3>2. posts' = [posts EXCEPT ![w] = [posts[w] EXCEPT !.status = s, !.published_at = d]]
        BY <2>2, <2>5 DEF SetStatusOf, TypeOK
      <3>3. LET row == [posts[w] EXCEPT !.status = s, !.published_at = d] IN
            row.status = s /\ row.published_at = d
        BY <3>1 DEF Row
      <3> QED
        BY <1>1, <2>5, <3>2, <3>3 DEF TypeOK
    <2>6. CASE Remove(w)
      BY <1>1, <2>2, <2>6 DEF Remove, TypeOK
    <2>7. \A d \in Dates \ {NoDate} : Dated("published", d)
      BY DEF Dated
    <2>8. Dated("draft", NoDate)
      BY DEF Dated
    <2> QED
      BY <2>1, <2>3, <2>4, <2>5, <2>6, <2>7, <2>8, DbSteps, ZeroIsDate DEF Statuses
  <1> QED
    BY <1>2, <1>3

----------------------------------------------------------------------------
(* RowsPinned.                                                             *)

\* An update whose row is locked after a step had locked it before or found
\* it now.
LEMMA RowsHeld ==
    ASSUME TypeOK, WritesValidated, NEW r \in Requests, Acts(r),
           NEW q \in Requests, NEW p \in PostIds, HoldsRow(q, p)'
    PROVE  \/ HoldsRow(q, p)
           \/ q = r /\ posts[p] # NoRow /\ UnchangedDb
  <1>1. CASE Kept(q)
    BY <1>1 DEF Kept, HoldsRow
  <1>2. CASE q = r
    <2>1. pc'[r] \in {"key", "status", "upsert", "commit"} /\ call'[r].op = "update"
          /\ call'[r].post = p
      BY <1>2 DEF HoldsRow
    <2>2. CASE Receive(r) \/ ReceiveMalformedId(r)
      <3>1. pc'[r] \in {"resolve", "invalid", "load", "not_found"}
        BY <2>2 DEF Receive, Arrive, ReceiveMalformedId, Goto, Checked, TypeOK
      <3> QED
        BY <2>1, <3>1
    <2>3. CASE \/ LoadMissing(r) \/ LoadForUpdate(r)
               \/ LoadForPublish(r) \/ LoadForUnpublishOrDelete(r)
      <3>1. pc'[r] \in {"resolve", "invalid", "begin", "not_found"}
        BY <2>3 DEF LoadMissing, LoadForUpdate, LoadForPublish,
                    LoadForUnpublishOrDelete, Goto, Answer, Checked, TypeOK
      <3> QED
        BY <2>1, <3>1
    <2>4. CASE SlugFree(r) \/ SlugTaken(r)
      <3>1. pc'[r] \in {"resolve", "invalid", "begin"}
        BY <2>4 DEF SlugFree, SlugTaken, Goto, Answer, TypeOK
      <3> QED
        BY <2>1, <3>1
    <2>5. CASE Begin(r)
      <3>1. pc'[r] \in {"insert", "update", "write"}
        BY <2>5 DEF Begin, Goto, TypeOK
      <3> QED
        BY <2>1, <3>1
    <2>6. CASE UpdateRow(r)
      <3>1. posts[call[r].post] # NoRow /\ UnchangedDb /\ call' = call
        BY <2>1, <2>6, AnswerPlace DEF UpdateRow, Answers
      <3> QED
        BY <1>2, <2>1, <3>1
    <2>7. CASE InsertPost(r) \/ UpdateKey(r) \/ SetStatus(r) \/ UpsertTag(r) \/ ReplaceTags(r)
      <3>1. call' = call /\ pc[r] \in {"insert", "key", "status", "upsert"}
        BY <2>7 DEF InsertPost, UpdateKey, SetStatus, UpsertTag, ReplaceTags
      <3>2. CASE pc[r] = "insert"
        BY <2>1, <3>1, <3>2 DEF WritesValidated, Validated
      <3> QED
        BY <1>2, <2>1, <3>1, <3>2 DEF HoldsRow
    <2>8. CASE Commit(r) \/ CommitUnacked(r) \/ Write(r) \/ WriteUnacked(r) \/ WriteMissing(r)
      BY <2>1, <2>8, AnswerPlace
      DEF Commit, CommitUnacked, Write, WriteUnacked, WriteMissing, Answers
    <2>9. CASE Fail(r) \/ DeadlockVictim(r)
      BY <2>1, <2>9, AnswerPlace DEF Fail, DeadlockVictim, Answers
    <2> QED
      BY <2>2, <2>3, <2>4, <2>5, <2>6, <2>7, <2>8, <2>9 DEF Acts, Step
  <1> QED
    BY <1>1, <1>2, OthersKept DEF Acts

\* A request that acts has just arrived or is in flight, with its call fixed.
LEMMA ActsInFlight ==
    ASSUME NEW r \in Requests, Acts(r)
    PROVE  pc[r] = "idle" \/ (pc[r] \in InFlight /\ call' = call)
  <1>1. CASE Receive(r) \/ ReceiveMalformedId(r)
    BY <1>1 DEF Receive, Arrive, ReceiveMalformedId
  <1>2. CASE Step(r)
    BY <1>2
    DEF Step, LoadMissing, LoadForUpdate, LoadForPublish, LoadForUnpublishOrDelete,
        SlugFree, SlugTaken, Begin, InsertPost, UpdateRow, UpdateKey, SetStatus,
        UpsertTag, ReplaceTags, Commit, Apply, Write, WriteApplies, WriteMissing,
        InFlight, InTx
  <1>3. CASE Fail(r) \/ CommitUnacked(r) \/ WriteUnacked(r)
    BY <1>3 DEF Fail, CommitUnacked, WriteUnacked, Apply, WriteApplies, InFlight, InTx
  <1>4. CASE DeadlockVictim(r)
    BY <1>4 DEF DeadlockVictim, Blocked, WaitsFor, InFlight, InTx
  <1> QED
    BY <1>1, <1>2, <1>3, <1>4 DEF Acts

\* The post that q may still create.
Unborn(q) == pc[q] = "idle" \/ (call[q].op = "create" /\ pc[q] \in InFlight)

LEMMA UnbornBefore ==
    ASSUME TypeOK, NEW r \in Requests, Acts(r), NEW q \in Requests, Unborn(q)'
    PROVE  Unborn(q)
  <1>1. CASE Kept(q)
    BY <1>1 DEF Kept, Unborn
  <1>2. CASE q = r
    <2>1. CASE pc[r] = "idle"
      BY <1>2, <2>1 DEF Unborn
    <2>2. CASE pc[r] \in InFlight /\ call' = call
      <3>1. pc'[r] # "idle"
        BY <2>2, AnswerPlace
        DEF Acts, Receive, Arrive, ReceiveMalformedId, Step, LoadMissing, LoadForUpdate,
            LoadForPublish, LoadForUnpublishOrDelete, SlugFree, SlugTaken, Begin,
            InsertPost, UpdateRow, UpdateKey, SetStatus, UpsertTag, ReplaceTags,
            Commit, Write, WriteMissing, Fail, CommitUnacked, WriteUnacked,
            DeadlockVictim, Goto, Checked, Answers, TypeOK, InFlight, InTx
      <3> QED
        BY <1>2, <2>2, <3>1 DEF Unborn
    <2> QED
      BY <2>1, <2>2, ActsInFlight
  <1> QED
    BY <1>1, <1>2, OthersKept DEF Acts

LEMMA InitPinned == AdminInit => RowsPinned
  BY IdsAssumption DEF AdminInit, Init, RowsPinned, HoldsRow, NoCall, PostIds

LEMMA NextPinned ==
    TypeOK /\ WritesValidated /\ RowsPinned /\ [AdminNext]_allVars => RowsPinned'
  <1> SUFFICES ASSUME TypeOK, WritesValidated, RowsPinned, [AdminNext]_allVars
               PROVE  RowsPinned'
    OBVIOUS
  <1>1. CASE UNCHANGED allVars
    BY <1>1 DEF allVars, RowsPinned, HoldsRow
  <1>2. CASE AdminNext
    <2>1. PICK r \in Requests : Acts(r)
      BY <1>2 DEF AdminNext, Acts
    <2> DEFINE w == call[r].post
    <2>2. w \in PostIds
      BY CallFacts
    <2>3. ASSUME pc[r] = "commit", Put(w, call[r].form, Slug(r), local[r].date)
          PROVE  /\ posts'[w] # NoRow
                 /\ \A p \in PostIds \ {w} : posts'[p] = posts[p]
      BY <2>2, <2>3, PutRows
    <2>4. ASSUME posts[w] # NoRow, NEW s \in Statuses, NEW d \in Dates, SetStatusOf(w, s, d)
          PROVE  \A p \in PostIds : posts'[p] = NoRow <=> posts[p] = NoRow
      BY <2>2, <2>4, SetStatusRows
    <2>5. ASSUME NEW q \in Requests, NEW p \in PostIds, HoldsRow(q, p)'
          PROVE  posts'[p] # NoRow
      <3>1. CASE UnchangedDb
        <4>1. HoldsRow(q, p) \/ posts[p] # NoRow
          BY <2>1, <2>5, RowsHeld
        <4> QED
          BY <3>1, <4>1 DEF UnchangedDb, RowsPinned
      <3>2. CASE ~UnchangedDb
        <4>1. HoldsRow(q, p)
          BY <2>1, <2>5, <3>2, RowsHeld
        <4>2. posts[p] # NoRow
          BY <4>1 DEF RowsPinned
        <4>3. CASE pc[r] = "commit" /\ Put(w, call[r].form, Slug(r), local[r].date)
          BY <2>3, <4>2, <4>3
        <4>4. CASE /\ posts[w] # NoRow
                   /\ \E s \in Statuses, d \in Dates : SetStatusOf(w, s, d)
          BY <2>4, <4>2, <4>4
        <4>5. CASE pc[r] = "write" /\ ~Blocked(r) /\ Remove(w)
          <5>1. q # r
            BY <4>1, <4>5 DEF HoldsRow
          <5>2. p # w
            BY <4>1, <4>5, <5>1 DEF Blocked, WaitsFor
          <5> QED
            BY <2>2, <4>2, <4>5, <5>2 DEF Remove, TypeOK
        <4> QED
          BY <2>1, <3>2, <4>3, <4>4, <4>5, DbSteps, ZeroIsDate DEF Statuses
      <3> QED
        BY <3>1, <3>2
    <2>6. ASSUME NEW q \in Requests, Unborn(q)'
          PROVE  posts'[q] = NoRow
      <3>1. posts[q] = NoRow /\ q \in PostIds
        BY <2>1, <2>6, UnbornBefore DEF Unborn, RowsPinned, PostIds
      <3>2. CASE UnchangedDb
        BY <3>1, <3>2 DEF UnchangedDb
      <3>3. CASE pc[r] = "commit" /\ pc'[r] \in Answers
                 /\ Put(w, call[r].form, Slug(r), local[r].date)
        <4>1. CASE call[r].op = "create"
          <5>1. w = r
            BY <4>1, CallFacts
          <5>2. r # q
            BY <2>6, <3>3 DEF Unborn, Answers, InFlight, InTx
          <5> QED
            BY <2>3, <3>1, <3>3, <5>1, <5>2
        <4>2. CASE call[r].op = "update"
          <5>1. HoldsRow(r, w)
            BY <3>3, <4>2 DEF HoldsRow
          <5>2. posts[w] # NoRow
            BY <2>2, <5>1 DEF RowsPinned
          <5> QED
            BY <2>3, <3>1, <3>3, <5>2
        <4> QED
          BY <3>3, <4>1, <4>2, CommitFacts DEF Saves
      <3>4. CASE /\ posts[w] # NoRow
                 /\ \E s \in Statuses, d \in Dates : SetStatusOf(w, s, d)
        BY <2>4, <3>1, <3>4
      <3>5. CASE Remove(w)
        BY <2>2, <3>1, <3>5 DEF Remove, TypeOK
      <3> QED
        BY <2>1, <3>2, <3>3, <3>4, <3>5, DbSteps, ZeroIsDate DEF Statuses
    <2> QED
      BY <2>5, <2>6 DEF RowsPinned, Unborn
  <1> QED
    BY <1>1, <1>2

----------------------------------------------------------------------------
(* Links.                                                                  *)

\* A link belongs to a post that is there (FOREIGN KEY with CASCADE).
LinksResolve == \A l \in links : posts[l[1]] # NoRow

LEMMA InitLinks == AdminInit => LinksResolve
  <1> SUFFICES ASSUME AdminInit, NEW l \in links PROVE posts[l[1]] # NoRow
    BY DEF LinksResolve
  <1> DEFINE p == l[1]
  <1>1. p \in Existing
    BY DEF AdminInit, Init
  <1>2. posts[p] = RowOf(SeedForm[p], BaseSlug(SeedForm[p]),
                         Stamp(SeedForm[p].status, NoDate, 1))
    BY <1>1 DEF AdminInit, Init, PostIds
  <1>3. SeedForm[p] \in Forms /\ HasText(SeedForm[p])
    BY <1>1, SeedAssumption DEF Acceptable
  <1>4. Stamp(SeedForm[p].status, NoDate, 1) \in Dates
    BY OneIsDate, ZeroIsDate, StampType
  <1> QED
    BY <1>2, <1>3, <1>4, BaseIsSlug, RowType, RowAssumption

LEMMA NextLinks ==
    TypeOK /\ WritesValidated /\ LinksResolve /\ [AdminNext]_allVars => LinksResolve'
  <1> SUFFICES ASSUME TypeOK, WritesValidated, LinksResolve, [AdminNext]_allVars,
                      NEW l \in links'
               PROVE  posts'[l[1]] # NoRow
    BY DEF LinksResolve
  <1>1. CASE UNCHANGED allVars
    BY <1>1 DEF allVars, LinksResolve
  <1>2. CASE AdminNext
    <2>1. PICK r \in Requests : Acts(r)
      BY <1>2 DEF AdminNext, Acts
    <2> DEFINE w == call[r].post
    <2>2. w \in PostIds
      BY CallFacts
    <2>3. \A m \in links : m[1] \in PostIds
      BY DEF TypeOK
    <2>4. CASE UnchangedDb
      BY <2>4 DEF UnchangedDb, LinksResolve
    <2>5. CASE pc[r] = "commit" /\ Put(w, call[r].form, Slug(r), local[r].date)
      <3>1. posts'[w] # NoRow /\ \A p \in PostIds \ {w} : posts'[p] = posts[p]
        BY <2>2, <2>5, PutRows
      <3>2. l \in links \/ l[1] = w
        BY <2>5 DEF Put, Retagged
      <3> QED
        BY <2>3, <3>1, <3>2 DEF LinksResolve
    <2>6. CASE /\ posts[w] # NoRow
               /\ \E s \in Statuses, d \in Dates : SetStatusOf(w, s, d)
      <3>1. \A p \in PostIds : posts'[p] = NoRow <=> posts[p] = NoRow
        BY <2>2, <2>6, SetStatusRows
      <3>2. links' = links
        BY <2>6 DEF SetStatusOf
      <3> QED
        BY <2>3, <3>1, <3>2 DEF LinksResolve
    <2>7. CASE Remove(w)
      <3>1. l \in links /\ l[1] # w
        BY <2>7 DEF Remove, Retagged
      <3> QED
        BY <2>2, <2>3, <2>7, <3>1 DEF LinksResolve, Remove, TypeOK
    <2> QED
      BY <2>1, <2>4, <2>5, <2>6, <2>7, DbSteps, ZeroIsDate DEF Statuses
  <1> QED
    BY <1>1, <1>2

----------------------------------------------------------------------------
(* Deletions.                                                              *)

\* A deletion that has found its post knows that nobody will create it any
\* more: its id is that of an old post or of a request past its insert.
NotReborn ==
    \A r \in Requests :
        /\ call[r].op = "delete" /\ pc[r] \in {"begin", "write", "redirect"}
        /\ call[r].post \in Requests
        => ~Unborn(call[r].post)

\* A row appears where there was none only as the post of a create.
LEMMA RowAppears ==
    ASSUME TypeOK, WritesValidated, RowsPinned, NEW r \in Requests, Acts(r),
           NEW p \in PostIds, posts[p] = NoRow, posts'[p] # NoRow
    PROVE  p = r /\ Unborn(r)
  <1> DEFINE w == call[r].post
  <1>1. w \in PostIds
    BY CallFacts
  <1>2. CASE UnchangedDb
    BY <1>2 DEF UnchangedDb
  <1>3. CASE pc[r] = "commit" /\ Put(w, call[r].form, Slug(r), local[r].date)
    <2>1. p = w
      BY <1>3, PutRows
    <2>2. call[r].op # "update"
      BY <1>1, <1>3, <2>1 DEF RowsPinned, HoldsRow
    <2>3. call[r].op = "create"
      BY <1>3, <2>2, CommitFacts DEF Saves
    <2> QED
      BY <1>3, <2>1, <2>3, CallFacts DEF Unborn, InFlight, InTx
  <1>4. CASE /\ posts[w] # NoRow
             /\ \E s \in Statuses, d \in Dates : SetStatusOf(w, s, d)
    BY <1>1, <1>4, SetStatusRows
  <1>5. CASE Remove(w)
    BY <1>1, <1>5 DEF Remove, TypeOK
  <1> QED
    BY <1>2, <1>3, <1>4, <1>5, DbSteps, ZeroIsDate DEF Statuses

\* How a deletion gets on: it finds the post, or had found it, and it is
\* confirmed by its own write.
LEMMA DeletionSteps ==
    ASSUME TypeOK, WritesValidated, NEW r \in Requests, Acts(r),
           call'[r].op = "delete", pc'[r] \in {"begin", "write", "redirect"}
    PROVE  /\ call'[r] = call[r]
           /\ \/ pc[r] = "load" /\ pc'[r] = "begin" /\ posts[call[r].post] # NoRow
              \/ pc[r] = "begin" /\ pc'[r] = "write"
              \/ pc[r] = "write" /\ pc'[r] = "redirect" /\ Remove(call[r].post)
  <1> USE DEF TypeOK, Goto, Answer
  <1>1. CASE Receive(r) \/ ReceiveMalformedId(r)
    BY <1>1 DEF Receive, Arrive, ReceiveMalformedId, Checked
  <1>2. CASE \/ LoadMissing(r) \/ LoadForUpdate(r)
             \/ LoadForPublish(r) \/ LoadForUnpublishOrDelete(r)
    BY <1>2 DEF LoadMissing, LoadForUpdate, LoadForPublish, LoadForUnpublishOrDelete, Loaded
  <1>3. CASE SlugFree(r) \/ SlugTaken(r)
    BY <1>3 DEF SlugFree, SlugTaken, WritesValidated, Validated, Saves
  <1>4. CASE Begin(r)
    BY <1>4 DEF Begin
  <1>5. CASE \/ InsertPost(r) \/ UpdateRow(r) \/ UpdateKey(r) \/ SetStatus(r)
             \/ UpsertTag(r) \/ ReplaceTags(r)
    BY <1>5 DEF InsertPost, UpdateRow, UpdateKey, SetStatus, UpsertTag, ReplaceTags
  <1>6. CASE Commit(r) \/ CommitUnacked(r)
    BY <1>6 DEF Commit, CommitUnacked, Apply, WritesValidated, Validated, Saves, InTx
  <1>7. CASE Write(r) \/ WriteUnacked(r) \/ WriteMissing(r)
    BY <1>7 DEF Write, WriteUnacked, WriteApplies, WriteMissing
  <1>8. CASE Fail(r) \/ DeadlockVictim(r)
    BY <1>8 DEF Fail, DeadlockVictim
  <1> QED
    BY <1>1, <1>2, <1>3, <1>4, <1>5, <1>6, <1>7, <1>8 DEF Acts, Step

LEMMA InitDeletions == AdminInit => NotReborn /\ DeleteIsFinal
  BY DEF AdminInit, NotReborn, DeleteIsFinal

LEMMA NextDeletions ==
    /\ TypeOK /\ WritesValidated /\ RowsPinned /\ NotReborn /\ DeleteIsFinal
    /\ [AdminNext]_allVars
    => NotReborn' /\ DeleteIsFinal'
  <1> SUFFICES ASSUME TypeOK, WritesValidated, RowsPinned, NotReborn, DeleteIsFinal,
                      [AdminNext]_allVars
               PROVE  NotReborn' /\ DeleteIsFinal'
    OBVIOUS
  <1>1. CASE UNCHANGED allVars
    BY <1>1 DEF allVars, NotReborn, DeleteIsFinal, Unborn
  <1>2. CASE AdminNext
    <2>1. PICK r \in Requests : Acts(r)
      BY <1>2 DEF AdminNext, Acts
    <2>2. ASSUME NEW q \in Requests, call'[q].op = "delete",
                 pc'[q] \in {"begin", "write", "redirect"},
                 NEW p \in Requests, call'[q].post = p
          PROVE  ~Unborn(p)'
      <3>1. CASE Kept(q)
        <4>1. ~Unborn(p)
          BY <2>2, <3>1 DEF Kept, NotReborn
        <4> QED
          BY <2>1, <4>1, UnbornBefore
      <3>2. CASE q = r
        <4>1. call'[q] = call[q]
          BY <2>1, <2>2, <3>2, DeletionSteps
        <4>2. CASE pc[q] \in {"begin", "write"}
          <5>1. ~Unborn(p)
            BY <2>2, <4>1, <4>2 DEF NotReborn
          <5> QED
            BY <2>1, <5>1, UnbornBefore
        <4>3. CASE posts[p] # NoRow
          <5>1. ~Unborn(p)
            BY <4>3 DEF RowsPinned, Unborn
          <5> QED
            BY <2>1, <5>1, UnbornBefore
        <4> QED
          BY <2>1, <2>2, <3>2, <4>1, <4>2, <4>3, DeletionSteps
      <3> QED
        BY <2>1, <3>1, <3>2, OthersKept DEF Acts
    <2>3. ASSUME NEW q \in Requests, pc'[q] = "redirect", call'[q].op = "delete"
          PROVE  posts'[call'[q].post] = NoRow
      <3> DEFINE p == call[q].post
      <3>0. p \in PostIds
        BY CallFacts
      <3>1. CASE Kept(q)
        <4>1. posts[p] = NoRow /\ (p \in Requests => ~Unborn(p))
          BY <2>3, <3>1 DEF Kept, DeleteIsFinal, NotReborn
        <4> QED
          BY <2>1, <3>0, <3>1, <4>1, RowAppears DEF Kept
      <3>2. CASE q = r
        <4>1. call'[q] = call[q] /\ Remove(p)
          BY <2>1, <2>3, <3>2, DeletionSteps
        <4> QED
          BY <3>0, <4>1 DEF Remove, TypeOK
      <3> QED
        BY <2>1, <3>1, <3>2, OthersKept DEF Acts
    <2>4. NotReborn'
      BY <2>2 DEF NotReborn
    <2> QED
      BY <2>3, <2>4 DEF DeleteIsFinal
  <1> QED
    BY <1>1, <1>2

----------------------------------------------------------------------------
(* Creations.                                                              *)

\* A row disappears only by the write of a deletion, answered or not.
LEMMA RowDisappears ==
    ASSUME TypeOK, WritesValidated, NEW r \in Requests, Acts(r),
           NEW p \in PostIds, posts[p] # NoRow, posts'[p] = NoRow
    PROVE  /\ call'[r].op = "delete" /\ call'[r].post = p
           /\ pc'[r] \in {"redirect", "error"}
  <1> DEFINE w == call[r].post
  <1>1. w \in PostIds
    BY CallFacts
  <1>2. ~UnchangedDb
    BY DEF UnchangedDb
  <1>3. ~(pc[r] = "commit" /\ Put(w, call[r].form, Slug(r), local[r].date))
    BY PutRows
  <1>4. ~(/\ posts[w] # NoRow
          /\ \E s \in Statuses, d \in Dates : SetStatusOf(w, s, d))
    BY <1>1, SetStatusRows
  <1>5. call[r].op = "delete" /\ pc[r] = "write" /\ Remove(w)
    BY <1>2, <1>3, <1>4, DbSteps, ZeroIsDate DEF Statuses
  <1>6. p = w
    BY <1>1, <1>5 DEF Remove, TypeOK
  <1>7. Write(r) \/ WriteUnacked(r)
    BY <1>2, <1>5
    DEF Acts, Step, Receive, Arrive, ReceiveMalformedId, LoadMissing, LoadForUpdate,
        LoadForPublish, LoadForUnpublishOrDelete, SlugFree, SlugTaken, Begin,
        InsertPost, UpdateRow, UpdateKey, SetStatus, UpsertTag, ReplaceTags,
        Commit, CommitUnacked, Apply, WriteMissing, Fail, DeadlockVictim
  <1> QED
    BY <1>5, <1>6, <1>7
    DEF Write, WriteUnacked, WriteApplies, Answer, Goto, TypeOK

\* What was answered stays answered.
LEMMA AnswersFinal ==
    ASSUME TypeOK, NEW r \in Requests, Acts(r), NEW q \in Requests, pc[q] \in Answers
    PROVE  pc'[q] = pc[q] /\ call'[q] = call[q]
  <1>1. q # r
    BY ActsInFlight DEF Answers, InFlight, InTx
  <1> QED
    BY <1>1, OthersKept DEF Acts, Kept

\* A create is confirmed by its own commit, with its row in place.
LEMMA CreationConfirmed ==
    ASSUME TypeOK, WritesValidated, NEW r \in Requests, Acts(r),
           pc'[r] = "redirect", call'[r].op = "create"
    PROVE  posts'[r] # NoRow
  <1> USE DEF TypeOK, Goto, Answer
  <1>1. CASE Receive(r) \/ ReceiveMalformedId(r)
    BY <1>1 DEF Receive, Arrive, ReceiveMalformedId, Checked
  <1>2. CASE Commit(r)
    <2>1. pc[r] = "commit" /\ Put(call[r].post, call[r].form, Slug(r), local[r].date)
          /\ call' = call
      BY <1>2 DEF Commit, Apply
    <2> QED
      BY <2>1, PutRows, CallFacts
  <1>3. CASE Write(r)
    BY <1>3 DEF Write, WriteApplies
  <1>4. CASE ~(Receive(r) \/ ReceiveMalformedId(r) \/ Commit(r) \/ Write(r))
    BY <1>4
    DEF Acts, Step, LoadMissing, LoadForUpdate, LoadForPublish,
        LoadForUnpublishOrDelete, SlugFree, SlugTaken, Begin, InsertPost, UpdateRow,
        UpdateKey, SetStatus, UpsertTag, ReplaceTags, WriteMissing, Fail,
        DeadlockVictim, CommitUnacked, WriteUnacked, Checked
  <1> QED
    BY <1>1, <1>2, <1>3, <1>4

LEMMA InitCreations == AdminInit => AckedCreateDurable
  BY DEF AdminInit, AckedCreateDurable

LEMMA NextCreations ==
    TypeOK /\ WritesValidated /\ AckedCreateDurable /\ [AdminNext]_allVars
        => AckedCreateDurable'
  <1> SUFFICES ASSUME TypeOK, WritesValidated, AckedCreateDurable, [AdminNext]_allVars
               PROVE  AckedCreateDurable'
    OBVIOUS
  <1>1. CASE UNCHANGED allVars
    BY <1>1 DEF allVars, AckedCreateDurable
  <1>2. CASE AdminNext
    <2>1. PICK r \in Requests : Acts(r)
      BY <1>2 DEF AdminNext, Acts
    <2> SUFFICES ASSUME NEW q \in Requests, pc'[q] = "redirect", call'[q].op = "create",
                        posts'[q] = NoRow
                 PROVE  \E o \in Requests :
                           /\ call'[o].op = "delete" /\ call'[o].post = q
                           /\ pc'[o] \in {"redirect", "error"}
      BY DEF AckedCreateDurable
    <2>2. Kept(q)
      BY <2>1, CreationConfirmed, OthersKept DEF Acts
    <2>3. CASE posts[q] # NoRow
      BY <2>1, <2>3, RowDisappears DEF PostIds
    <2>4. CASE posts[q] = NoRow
      <3>1. PICK o \in Requests : /\ call[o].op = "delete" /\ call[o].post = q
                                  /\ pc[o] \in {"redirect", "error"}
        BY <2>2, <2>4 DEF Kept, AckedCreateDurable
      <3> QED
        BY <2>1, <3>1, AnswersFinal DEF Answers
    <2> QED
      BY <2>3, <2>4
  <1> QED
    BY <1>1, <1>2

----------------------------------------------------------------------------
(* Publication dates.                                                      *)

\* A request that saw a date when it loaded the post, and is going to write
\* one, writes that one.
SeenKept ==
    \A r \in Requests :
        /\ pc[r] \in {"begin", "write"} \cup InTx
        /\ local[r].seen # NoDate /\ local[r].date # NoDate
        => local[r].date = local[r].seen

\* A handler that has stamped its request keeps the date it saw.
LEMMA StampKeepsSeen ==
    ASSUME TypeOK, NEW r \in Requests, NEW s, NEW old, TakeStamp(r, s, old),
           local'[r].seen # NoDate, local'[r].date # NoDate
    PROVE  local'[r].date = local'[r].seen
  <1>1. local'[r] = [local[r] EXCEPT !.seen = old, !.date = Stamp(s, old, clock + 1)]
    BY DEF TakeStamp, TypeOK
  <1>2. local'[r].seen = old /\ local'[r].date = Stamp(s, old, clock + 1)
    BY <1>1 DEF TypeOK
  <1> QED
    BY <1>2 DEF Stamp

LEMMA InitSeen == AdminInit => SeenKept
  BY DEF AdminInit, SeenKept, InTx

\* The dates of r, from the place where they are taken to the write.
LEMMA DatesCarried ==
    ASSUME TypeOK, WritesValidated, NEW r \in Requests, Acts(r),
           pc'[r] \in {"begin", "write"} \cup InTx
    PROVE  \/ \E s, old : TakeStamp(r, s, old)
           \/ local'[r].seen = NoDate
           \/ /\ pc[r] \in {"begin", "write"} \cup InTx
              /\ local'[r].seen = local[r].seen /\ local'[r].date = local[r].date
  <1> USE DEF TypeOK, Goto, Answer, InTx
  <1>1. CASE Receive(r) \/ ReceiveMalformedId(r)
    BY <1>1 DEF Receive, Arrive, ReceiveMalformedId, Checked
  <1>2. CASE LoadMissing(r) \/ LoadForUpdate(r)
    BY <1>2 DEF LoadMissing, LoadForUpdate, Checked
  <1>3. CASE LoadForPublish(r)
    BY <1>3 DEF LoadForPublish
  <1>4. CASE LoadForUnpublishOrDelete(r)
    BY <1>4 DEF LoadForUnpublishOrDelete, WritesValidated, Validated, Fresh
  <1>5. CASE SlugFree(r)
    BY <1>5 DEF SlugFree
  <1>6. CASE SlugTaken(r)
    BY <1>6 DEF SlugTaken
  <1>7. CASE Begin(r)
    BY <1>7 DEF Begin
  <1>8. CASE InsertPost(r) \/ UpdateRow(r) \/ UpdateKey(r)
    BY <1>8 DEF InsertPost, UpdateRow, UpdateKey
  <1>9. CASE SetStatus(r) \/ ReplaceTags(r)
    BY <1>9 DEF SetStatus, ReplaceTags
  <1>10. CASE UpsertTag(r)
    <2>1. PICK i \in NextTag(r) : local' = [local EXCEPT ![r]["done"] = i]
      BY <1>10 DEF UpsertTag, Set
    <2>2. local'[r] = [local[r] EXCEPT !["done"] = i]
      BY <2>1
    <2>3. local'[r].seen = local[r].seen /\ local'[r].date = local[r].date
      BY <2>2
    <2> QED
      BY <1>10, <2>3 DEF UpsertTag
  <1>11. CASE \/ Commit(r) \/ CommitUnacked(r) \/ Write(r) \/ WriteUnacked(r)
              \/ WriteMissing(r) \/ Fail(r) \/ DeadlockVictim(r)
    BY <1>11 DEF Commit, CommitUnacked, Write, WriteUnacked, WriteMissing, Fail,
                 DeadlockVictim
  <1> QED
    BY <1>1, <1>2, <1>3, <1>4, <1>5, <1>6, <1>7, <1>8, <1>9, <1>10, <1>11 DEF Acts, Step

LEMMA NextSeen ==
    TypeOK /\ WritesValidated /\ SeenKept /\ [AdminNext]_allVars => SeenKept'
  <1> SUFFICES ASSUME TypeOK, WritesValidated, SeenKept, [AdminNext]_allVars,
                      NEW q \in Requests, pc'[q] \in {"begin", "write"} \cup InTx,
                      local'[q].seen # NoDate, local'[q].date # NoDate
               PROVE  local'[q].date = local'[q].seen
    BY DEF SeenKept
  <1>1. CASE UNCHANGED allVars
    BY <1>1 DEF allVars, SeenKept
  <1>2. CASE AdminNext
    <2>1. PICK r \in Requests : Acts(r)
      BY <1>2 DEF AdminNext, Acts
    <2>2. CASE Kept(q)
      BY <2>2 DEF Kept, SeenKept
    <2>3. CASE q = r
      BY <2>1, <2>3, DatesCarried, StampKeepsSeen DEF SeenKept
    <2> QED
      BY <2>1, <2>2, <2>3, OthersKept DEF Acts
  <1> QED
    BY <1>1, <1>2

----------------------------------------------------------------------------
(* The inductive invariant and the theorems.                               *)

IInv ==
    /\ TypeOK /\ WritesValidated /\ SlugInv /\ RowsPinned
    /\ PublishedIffDated /\ LinksResolve
    /\ NotReborn /\ DeleteIsFinal /\ AckedCreateDurable /\ SeenKept

LEMMA InitIInv == AdminInit => IInv
  BY InitType, InitValidated, InitSlugs, InitPinned, InitDated, InitLinks,
     InitDeletions, InitCreations, InitSeen
  DEF IInv

LEMMA NextIInv == IInv /\ [AdminNext]_allVars => IInv'
  BY NextType, NextValidated, NextSlugs, NextPinned, NextDated, NextLinks,
     NextDeletions, NextCreations, NextSeen
  DEF IInv

LEMMA Invariance == AdminSpec => []IInv
  BY InitIInv, NextIInv, PTL DEF AdminSpec

\* The variables keep their types under every interleaving and failure.
THEOREM TypeCorrect == AdminSpec => []TypeOK
  <1>1. IInv => TypeOK
    BY DEF IInv
  <1> QED
    BY <1>1, Invariance, PTL

\* Two live posts never have the same slug, though create_post and
\* update_post look for a free slug outside the transaction that uses it.
THEOREM SlugsStayUnique == AdminSpec => []SlugsUnique
  <1>1. IInv => SlugsUnique
    BY DEF IInv, SlugInv
  <1> QED
    BY <1>1, Invariance, PTL

\* A slug that an open transaction entered in the unique index belongs to it
\* alone: the reason why slugs stay unique.
THEOREM KeysStayReserved == AdminSpec => []KeysReserved
  <1>1. IInv => KeysReserved
    BY DEF IInv, SlugInv
  <1> QED
    BY <1>1, Invariance, PTL

\* What a request writes was validated: the form and the date of a save, the
\* date of a publish or a withdrawal.
THEOREM WritesStayValidated == AdminSpec => []WritesValidated
  <1>1. IInv => WritesValidated
    BY DEF IInv
  <1> QED
    BY <1>1, Invariance, PTL

\* The row an open update works on is not deleted under it, and nobody
\* takes the id of a post that is about to be created.
THEOREM RowsStayPinned == AdminSpec => []RowsPinned
  <1>1. IInv => RowsPinned
    BY DEF IInv
  <1> QED
    BY <1>1, Invariance, PTL

\* A post is published exactly when it has a publication date.
THEOREM PublishedStaysDated == AdminSpec => []PublishedIffDated
  <1>1. IInv => PublishedIffDated
    BY DEF IInv
  <1> QED
    BY <1>1, Invariance, PTL

\* A post whose deletion was confirmed stays deleted, whatever requests had
\* loaded it before.
THEOREM DeletionsStayFinal == AdminSpec => []DeleteIsFinal
  <1>1. IInv => DeleteIsFinal
    BY DEF IInv
  <1> QED
    BY <1>1, Invariance, PTL

\* A post whose creation was confirmed is there until someone deletes it.
THEOREM CreationsStayDurable == AdminSpec => []AckedCreateDurable
  <1>1. IInv => AckedCreateDurable
    BY DEF IInv
  <1> QED
    BY <1>1, Invariance, PTL

\* The step that gives a published post another publication date is the
\* write of a request that had not seen the date it replaces.
LEMMA RedatingIsStale ==
    ASSUME IInv, NEW r \in Requests, Acts(r), NEW p \in PostIds,
           posts[p] # NoRow, posts'[p] # NoRow, posts[p].published_at # NoDate,
           posts'[p].published_at \notin {NoDate, posts[p].published_at}
    PROVE  /\ call[r].post = p /\ pc[r] # pc'[r]
           /\ local[r].seen # posts[p].published_at
  <1> USE DEF IInv
  <1> DEFINE w == call[r].post
  <1>1. w \in PostIds
    BY CallFacts
  <1>2. ASSUME p = w, posts'[p].published_at = local[r].date, pc'[r] \in Answers,
               pc[r] \in {"commit", "write"}
        PROVE  /\ call[r].post = p /\ pc[r] # pc'[r]
               /\ local[r].seen # posts[p].published_at
    BY <1>2 DEF SeenKept, Answers, InTx
  <1>3. CASE UnchangedDb
    BY <1>3 DEF UnchangedDb
  <1>4. CASE /\ pc[r] = "commit" /\ pc'[r] \in Answers
             /\ Put(w, call[r].form, Slug(r), local[r].date)
    <2>1. posts' = [posts EXCEPT ![w] = RowOf(call[r].form, Slug(r), local[r].date)]
      BY <1>4 DEF Put
    <2>2. p = w /\ posts'[p].published_at = local[r].date
      BY <1>1, <2>1 DEF TypeOK, RowOf
    <2> QED
      BY <1>2, <1>4, <2>2
  <1>5. ASSUME NEW s, NEW d, SetStatusOf(w, s, d), posts[w] # NoRow
        PROVE  p = w /\ posts'[p].published_at = d
    <2>1. posts' = [posts EXCEPT ![w] = [posts[w] EXCEPT !.status = s, !.published_at = d]]
      BY <1>1, <1>5 DEF SetStatusOf, TypeOK
    <2>2. p = w
      BY <1>1, <2>1 DEF TypeOK
    <2>3. posts[w] \in Row
      BY <1>1, <1>5 DEF TypeOK
    <2> QED
      BY <1>1, <2>1, <2>2, <2>3 DEF TypeOK, Row
  <1>6. CASE /\ pc[r] = "write" /\ pc'[r] \in Answers /\ posts[w] # NoRow
             /\ SetStatusOf(w, "published", local[r].date)
    BY <1>2, <1>5, <1>6
  <1>7. CASE posts[w] # NoRow /\ SetStatusOf(w, "draft", NoDate)
    BY <1>5, <1>7
  <1>8. CASE Remove(w)
    BY <1>1, <1>8 DEF Remove, TypeOK
  <1> QED
    BY <1>3, <1>4, <1>6, <1>7, <1>8, DbSteps

\* Saving or re-publishing a published post keeps its date, but for a
\* request that had loaded another one.
THEOREM DatesKeptButByStale == AdminSpec => RedatedOnlyByStale
  <1> DEFINE DatesKept ==
        \A p \in PostIds :
          /\ posts[p] # NoRow /\ posts'[p] # NoRow
          /\ posts[p].published_at # NoDate
          /\ posts'[p].published_at \notin {NoDate, posts[p].published_at}
          => \E r \in Requests :
                /\ call[r].post = p /\ pc[r] # pc'[r]
                /\ local[r].seen # posts[p].published_at
  <1>1. ASSUME IInv, [AdminNext]_allVars
        PROVE  [DatesKept]_allVars
    <2>1. CASE UNCHANGED allVars
      BY <2>1
    <2>2. CASE AdminNext
      <3>1. PICK r \in Requests : Acts(r)
        BY <2>2 DEF AdminNext, Acts
      <3>2. DatesKept
        BY <1>1, <3>1, RedatingIsStale
      <3> QED
        BY <3>2
    <2> QED
      BY <1>1, <2>1, <2>2
  <1>2. IInv /\ [AdminNext]_allVars => [DatesKept]_allVars
    BY <1>1
  <1> QED
    BY <1>2, Invariance, PTL DEF AdminSpec, RedatedOnlyByStale

----------------------------------------------------------------------------
(* The handlers implement the abstract store.                              *)

LEMMA StepImplements == IInv /\ [AdminNext]_allVars => [Next]_vars
  <1> SUFFICES ASSUME IInv, [AdminNext]_allVars PROVE [Next]_vars
    OBVIOUS
  <1> USE DEF IInv
  <1>1. CASE UNCHANGED allVars
    BY <1>1 DEF allVars, vars
  <1>2. CASE AdminNext
    <2>1. PICK r \in Requests : Acts(r)
      BY <1>2 DEF AdminNext, Acts
    <2> DEFINE w == call[r].post
               f == call[r].form
    <2>2. w \in PostIds
      BY CallFacts
    <2>3. CASE UnchangedDb
      BY <2>3 DEF UnchangedDb, vars
    <2>4. CASE pc[r] = "commit" /\ Put(w, f, Slug(r), local[r].date)
      <3>1. /\ f \in Forms /\ Acceptable(f) /\ Saves(r)
            /\ local[r].date \in Dates /\ Dated(f.status, local[r].date)
            /\ local[r].attempt \in 1 .. MaxAttempts
        BY <2>4, CommitFacts
      <3>2. Unused(w, Slug(r))
        BY <2>4 DEF SlugInv, KeysReserved, HasKey
      <3>3. Save(w, f)
        BY <2>4, <3>1, <3>2 DEF Save, Slug
      <3>4. CASE call[r].op = "create"
        <4>1. w = r
          BY <3>4, CallFacts
        <4>2. posts[w] = NoRow
          BY <2>4, <3>4, <4>1 DEF RowsPinned, InFlight, InTx
        <4> QED
          BY <2>2, <3>1, <3>3, <4>1, <4>2 DEF Next, Create
      <3>5. CASE call[r].op = "update"
        <4>1. posts[w] # NoRow
          BY <2>2, <2>4, <3>5 DEF RowsPinned, HoldsRow
        <4> QED
          BY <2>2, <3>1, <3>3, <4>1 DEF Next, Update
      <3> QED
        BY <3>1, <3>4, <3>5 DEF Saves
    <2>5. CASE /\ posts[w] # NoRow /\ local[r].date \in Dates \ {NoDate}
               /\ SetStatusOf(w, "published", local[r].date)
      BY <2>2, <2>5 DEF Next, Publish
    <2>6. CASE posts[w] # NoRow /\ SetStatusOf(w, "draft", NoDate)
      BY <2>2, <2>6 DEF Next, Unpublish
    <2>7. CASE Remove(w)
      <3>1. CASE posts[w] # NoRow
        BY <2>2, <2>7, <3>1 DEF Next, Delete
      <3>2. CASE posts[w] = NoRow
        <4>1. posts' = posts /\ tags' = tags
          BY <2>2, <2>7, <3>2 DEF Remove, TypeOK
        <4>2. \A l \in links : l[1] # w
          BY <3>2 DEF LinksResolve
        <4>3. links' = links
          BY <2>7, <4>2 DEF Remove, Retagged
        <4> QED
          BY <4>1, <4>3 DEF vars
      <3> QED
        BY <3>1, <3>2
    <2> QED
      BY <2>1, <2>3, <2>4, <2>5, <2>6, <2>7, DbSteps
  <1> QED
    BY <1>1, <1>2

\* Every behaviour of the handlers, seen through the committed tables, is a
\* behaviour of the store in which each operation is one step.
THEOREM HandlersImplementStore == AdminSpec => ImplementsStore
  <1>1. AdminInit => Init
    BY DEF AdminInit
  <1>2. IInv /\ [AdminNext]_allVars => [Next]_vars
    BY StepImplements
  <1> QED
    BY <1>1, <1>2, Invariance, PTL DEF AdminSpec, ImplementsStore, Spec

\* The tags of a post are those of the form its text came from, in every
\* state of the handlers: the store has the property and they implement it.
THEOREM TagsStayWithContent == AdminSpec => []TagsMatchContent
  BY HandlersImplementStore, StoreTagsMatch, PTL DEF ImplementsStore
=============================================================================

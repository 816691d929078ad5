# TLA+ models of the blog

This directory holds TLA+ specifications of the blog in `src/` (a Rust server on
axum, sqlx and PostgreSQL), the TLC configurations that check them on small
instances, and proofs checked by TLAPS. Paths below are relative to the
repository; `src/src/admin.rs` is the handler file.

## 1. The system

A process (`src/src/main.rs`) reads its configuration from the environment,
connects to PostgreSQL, migrates the schema, seeds an administrator when there
is none, and serves HTTP. Anonymous readers see published posts; a logged-in
administrator creates, edits, publishes, withdraws and deletes them. Requests run
concurrently as Tokio tasks and share nothing but the connection pool and the
database, so every hard behaviour of the program is in the order of its database
calls. More than one process may run against one database.

### Components

| Component | State | Operations | Interacts with |
|---|---|---|---|
| Post administration (`admin.rs`) | local variables of a request between awaits | `create_post`, `update_post`, `publish_post`, `unpublish_post`, `delete_post`; dashboard, edit form, delete confirmation | slug service, both repositories, the pool, the session guard |
| Slug service (`slug.rs`) | none | `slugify`, `resolve`, `slug_is_available` | `PostRepo::find_by_slug` |
| Post repository (`repositories/posts.rs`) | table `posts` | `find_by_slug`, `list_*`, `insert`, `update`, `set_status`, `delete` | PostgreSQL |
| Tag repository (`repositories/tags.rs`) | tables `tags`, `post_tags` | `upsert_by_slug`, `replace_post_tags`, readers | PostgreSQL |
| Database schema (`migrations/`) | UNIQUE on slugs and usernames, foreign keys with cascade, check on status | applied by the migrator | all repositories |
| Boot sequence (`main.rs`, `db.rs`) | the process; `_sqlx_migrations` and its advisory lock | configure, connect, retry without TLS, ping, migrate, seed, bind, serve | PostgreSQL, seeding |
| Admin seeding (`seed.rs`, `repositories/admins.rs`) | table `admins` | `seed_admin`; lookup and password update | boot sequence, login |
| Configuration (`config.rs`) | the environment | `Config::from_env` | boot sequence |
| Public pages (`lib.rs`) | none | home, post, tag listing, sitemap, RSS, each a sequence of queries | both repositories |
| Paging and limits (`lib.rs`, `posts.rs`) | none | page to offset, next-page link, `BLOG_RSS_LIMIT` | public pages |
| Authentication and sessions (`auth/`, `session.rs`) | none on the server: the session is a signed cookie | login, logout, guard | admins, every admin route |
| Markdown renderer (`markdown.rs`) | none | text to sanitized HTML | saves |
| Application state, templates, error pages, static files | none | presentation | |

### What is hard, and what makes each component correct

* **Saves.** The slug of a post is found free on a pooled connection *before* the
  transaction that inserts it begins; the publication date is computed from a row
  read even earlier; the transaction is a handful of statements on three tables,
  any of which can fail or wait for another save's locks, and tags are locked in
  the order the author typed them. Correct means: no two posts share a slug; the
  database changes only by whole saves; a post has the tags of the text it shows;
  status and date agree; a deletion is not undone by a save that had loaded the
  post; every request is answered although locks are taken in any order and the
  pool is small.
* **Boots.** Several processes may boot at once and be killed anywhere. Correct
  means: the schema is migrated once and in order, what serves is complete,
  credentials are never replaced, one admin is seeded, nobody waits for the lock
  of a dead process.
* **Public pages.** A page is one query for its posts and one more per post for
  the tags, with saves in between; the home page goes on by offset while posts come
  and go. Correct means: what is shown was published; text and tags of a post
  belong together; a visitor who follows the links misses and repeats nothing. The
  code achieves each only up to a limit, and the properties say which.
* **Editing.** The pages of the administration are snapshots: an edit form is
  filled from two queries and saved much later, a dashboard button is named after a
  status that may have changed, a request that was answered with an error may have
  taken effect and is sent again. Correct means: a save changes what its author
  edited and nothing else as far as nobody interfered; a repetition changes
  nothing; nothing is published by someone who did not mean to.
* **Sessions.** The session lives in the browser's cookie, and whatever answer
  arrives last decides what it is. Correct means: sessions come from a login with
  the user's password, an answer that is late does not undo a logout, a restart
  signs nobody out unless the secret is replaced, which signs everybody out.
* **Slugs.** Two loops build a slug, a third checks it; a slug is slugified again
  whenever its post is edited. Correct means: the words of the text survive, the
  check never fails, and a saved slug is its own slug.
* **Configuration and page numbers.** Rules with boundaries: blank or missing,
  trimmed or not, offsets that leave the range of an i64.

`PROJECT.json` lists each hazard at its line, with the properties about it.

## 2. The modules

| Module | Models | Lines are about |
|---|---|---|
| `BlogData` | forms, slugs, tags, dates, rows: the pure part of the handlers | `admin.rs`, `slug.rs` |
| `BlogStore` | the abstract promise: a database of posts that changes by whole operations | schema, repositories |
| `AdminPosts` | the five state-changing handlers, step by step, over PostgreSQL; implements `BlogStore` | `admin.rs`, `slug.rs`, repositories |
| `Editing` | administrators with their pages, around `AdminPosts` | `admin.rs`, `templates.rs`, dashboard of `lib.rs` |
| `PublicPages` | a visitor of the public pages, query by query, over `BlogStore` | `lib.rs`, the readers of the repositories |
| `Startup` | the configuration, and processes booting against one database | `config.rs`, `main.rs`, `db.rs`, `seed.rs` |
| `SlugPromise` | what `slugify` promises, in one step | `slug.rs` |
| `Slugify` | the loops of `slugify` and `validate_slug`; implements `SlugPromise` | `slug.rs` |
| `Sessions` | login, logout and guard for one browser with several requests under way | `auth/`, `session.rs`, `admins.rs` |
| `MCAdminPosts`, `MCEditing`, `MCPublicPages`, `MCStartup`, `MCSlugify`, `MCSessions` | instances for TLC | |
| `BlogStore_proofs`, `AdminPosts_proofs`, `Editing_proofs`, `PublicPages_proofs`, `Startup_proofs`, `Slugify_proofs`, `Sessions_proofs` | theorems about the module of that name | |

`BlogData` is below all modules about posts. `AdminPosts` and `PublicPages` both stand
on `BlogStore`: the one implements it, the other reads it. `Editing` extends
`AdminPosts`. The constant `Slugify` of `BlogData` is what the module `Slugify` computes.
`Startup` leaves an admin whose name and password can be typed (`TypeOK`,
`ServingReady`), which is where `Sessions` begins.

A definition whose comment starts with *Faulty variant* is a plausible bug of
the definition that follows it. No action uses it. Each one breaks at least one
of the properties below, which is how the properties were shown to say something
about the code.

### BlogData and BlogStore

`BlogStore` is the administration as its users may think of it. Its state is
three tables: `posts[p]` is a row or `NoRow`, `tags[t]` a tag's name, `links` the
rows of `post_tags`. `Create` and `Update` put a post, rename its tags and
replace its links in one step, from an acceptable form, under an unused slug and
with a date that fits the status; `Publish`, `Unpublish` and `Delete` are one step
each.

Texts are opaque and already trimmed. `Slugify` is a constant function from texts
to slugs, a slug being the sequence of words between its hyphens, so that the
suffix `-2` that `resolve` appends can collide with a slug somebody typed.
`Content` is the title and the source text; the rendered HTML and the excerpt are
functions of them and are not kept apart. `created_at` and `updated_at` are left
out: nothing in the handlers reads them to decide anything.

### AdminPosts

A request is one run of a handler. It is suspended at each `.await`, so an action
is one database call with all the code up to the next one, and `pc[r]` names the
call it makes next.

| Action | Code |
|---|---|
| `Arrive`, `Receive`, `ReceiveMalformedId` | routing, `parse_post_id`, and for `create_post` the form checks before the first await; `Receive` is the arrival of any request, `Editing` picks the one its page sends |
| `LoadMissing`, `LoadForUpdate`, `LoadForPublish`, `LoadForUnpublishOrDelete` | `load_post` and what each handler does with its result |
| `SlugFree`, `SlugTaken` | one round of `SlugService::resolve`; when free, also `parse_tags` and the date |
| `Begin` | `pool.begin()`, or acquiring the connection of a single statement |
| `InsertPost` | `insert_with` |
| `UpdateRow`, `UpdateKey` | `update_with`: finding and locking the row, then entering the new slug in the unique index, where it can wait a second time |
| `SetStatus` | `set_status_with` |
| `UpsertTag` | one `upsert_by_slug_with` |
| `ReplaceTags` | `replace_post_tags_with` |
| `Commit` | `tx.commit()` and the redirect |
| `Write`, `WriteMissing` | the single statement of publish, withdraw and delete |
| `Fail` | a database error, the pool's acquire timeout or the client going away at any await: the transaction is dropped and rolled back (see *Dropped requests*) |
| `CommitUnacked`, `WriteUnacked` | the statement took effect, its acknowledgement was lost |
| `DeadlockVictim` | PostgreSQL aborts one member of a wait cycle |

**Database.** PostgreSQL is not under `src/`; it is modelled from how the
repositories use it, at READ COMMITTED, the default nobody changes. `posts`, `tags` and
`links` are the *committed* rows. What an open transaction wrote follows from its
`pc` and its form and becomes visible in `Commit`. The locks it holds follow from
`pc` too: the row it updates (`HoldsRow`), the unique-index entries of the old and
the new slug (`HeldSlugs`), the tags it upserted (`HeldTags`). A statement whose
lock is held by another open transaction waits (`WaitsFor`). The key-share locks
that foreign keys take on posts and tags add no waits: every transaction that
takes one already holds the row more strongly, and `ON CONFLICT DO UPDATE` of a
tag's name does not conflict with them.

`create_post` draws a fresh UUID; in the model the id of the post that request `r`
creates is `r` itself. `clock` makes the readings of `Utc::now()` distinct and
increasing, so that a property can tell a kept date from a new one.

**Dropped requests.** When a client goes away while a single statement or a commit is
on the server, PostgreSQL may still complete it. The model decides with the request's
end: the statement takes effect (`CommitUnacked`, `WriteUnacked`) or never does (`Fail`).
An effect that comes later is `CommitUnacked` or `WriteUnacked` at that later moment,
but for the client, which may have sent the request again before; no property tells the
two apart.

**Pool.** A request needs a connection for each lookup (`PoolFree`) and holds one
from `Begin` to its answer. Statements inside the transaction run on the
transaction's connection, which is why they do not test `PoolFree`.

### Editing

`desk[r]` is the page that request `r` will be sent from. `OpenEdit` and `FillTags` are
the two queries of `edit_post_form`, `OpenDashboard` and `OpenDeleteConfirm` the pages
with a button, `OpenNew` the empty form. `SubmitNew`, `SubmitEdit`, `PressToggle` and
`PressDelete` send the request that page holds, through `Arrive` of `AdminPosts`; from
there the handler's own actions run (`Handle`). `Correct` is a form that came back
with 422 and its fields as they were sent; `SendAgain` is a request repeated after an
error page. The server remembers nothing between a page and the request sent from
it, so the only thing that ties them is `desk`. `edited`, `stale`, `took` and `again`
are history for the properties.

A text goes into a field and comes back as it is: title, names and body were trimmed
when they were saved, and the names in `tags_csv` hold no commas. `TagsCsv` lists the
tags of a post by rank in the order of their names, `ByName`, which numbers the texts
in use. `SlugText` gives the text that the slug field shows; that this text has the
slug it shows (`SlugTextAssumption`) is `SavedSlugStays` of `Slugify`. What browsers do to
line breaks in a textarea is left out; forms that were sent by a browser have those
line breaks already.

### PublicPages

The store is `BlogStore`: since the handlers implement it (`HandlersImplementStore`),
whatever holds of a reader over `BlogStore` holds over the handlers. `Change` is
one operation of the store; it may come between any two queries. `BlogStore` also
allows steps that the handlers rarely take (any date, any free suffix), so the
passing properties are shown for a larger system.

`OpenHome`, `FollowNext`, `OpenPost`, `OpenTag`, `OpenSitemap` and `OpenRss` are the
arrival of a request with the query for its posts (`ListPublished`, `FoundBySlug`,
`PostsByTag`); `ReadTags` is one `list_for_post`; `FailPage` is a query that fails.
Readers hold no locks and share nothing, so one visitor stands for all. `touched`
and `public` record what happened to the posts since the page's first query,
`walked`, `stayed`, `left` and `joined` since the visitor opened the home page; no
action of the program reads them. `created_at` is kept only as the order that settles
equal dates (`Born`), and the order of the sitemap (`updated_at`) is not modelled.

A listing is given by rank: the n-th post of `NewestFirst(S)` is the one that exactly
n-1 posts of `S` are newer than (`published_at`, then `created_at`).

A visitor may type any of `TypedPages` into the query string. (Text that is no `i64` is
answered 400 by the `Query` extractor at `lib.rs:100` before any query, and left out.) `MaxInt` is the largest
`i64`: `Wrapped` is what a release build keeps of a page number and of the offset, and
of the `usize` of `BLOG_RSS_LIMIT` taken for an `i64`. `RoomAssumption` says that there are
fewer posts than integers, so that a visitor who follows the links never gets to an
offset that wraps; one who types a page number does. A negative offset is an error of
PostgreSQL (`Refused`). A debug build panics where the multiplication overflows; in
both the visitor gets no page.

### Startup

An environment gives each of the nine `Variables` a value or leaves it `Missing`.
`ReadRequired`, `DatabaseUrl`, `BindAddr`, `MinLength`, `Url` and `SizeOrDefault` are the readers of
`config.rs`; `Configured` is `Config::from_env`. What makes a text an address, a URL or a
number is left to the constants `Addrs`, `Urls`, `Sizes`, `Long`.

A process goes through the calls of `main` in order. `ConnectRefusesTls` is the
answer to which `db.rs` reacts with one retry without TLS. `run_migrations` is
split at its awaits: take the advisory lock, read what was applied, apply each
missing migration in a transaction, unlock; the migrator is sqlx's, modelled
from the call and the files. `seed_admin` is two statements with nothing to tie
them together, `CheckAdmins` and `InsertAdmin`. `Stop` kills a process, or fails
its call, anywhere; `StopAfterMigration` and `StopAfterInsert` are the same after
the statement in flight took effect. The connections of a stopped process close
and its advisory lock goes with them. A statement of a process that was killed
either took effect by then or never does; that PostgreSQL may finish it a moment
later, while the next boot is already looking, is left out. `late` is history:
the processes whose present boot began when a row of `admins` was there.

### SlugPromise and Slugify

`Slugify` runs the `for` loop (`Scan`, with `Push`, `Separate` or `Skip` per character), the
`while` loop (`EndScan`, `Pop`) and `validate_slug` (`Validate`), then once more on the slug
that was saved (`EditSaved`), with or without the number `resolve` appends. Characters
are those of ASCII in four kinds that matter: letters and digits, their capitals,
the hyphen, anything else. `deunicode` is a library: a text is what it gives.
`SlugPromise` says what comes out without loops: the longest runs of letters and
digits, in lower case, one hyphen between two of them. `Kept` are the places of the
text that leave a character, and the n-th character of `Words` comes from the n-th of
them.

### Sessions

`session_layer` signs the cookie and keeps nothing on the server, so `jar`, the
browser's cookie, is the session. A request carries the cookie it was sent with
(`sent`), and its answer may set a new one, remove it, or leave it (`reply`); `Deliver`
applies it to the jar when the answer arrives, in any order, and `Lose` is a request or
an answer that never does. `GuardPasses` and `GuardRedirects` are `require_admin_auth`;
`FindAdmin` and `Verify` the two halves of `login_submit` around its query; `Logout` is
`session.flush()`; `Act` stands for a handler of `AdminPosts` or `Editing`. `Restart` ends the
requests in the process and may change `BLOG_SESSION_SECRET`, while requests and answers
on the wire arrive all the same; `Derived` is `Key::derive_from`, and `by` and `under` in a
cookie are history that no action reads; `Rotate` is
`update_password`, which nothing under `src/` calls but tests and which an owner of
the database would do. A hash is the password it verifies; the dummy hash verifies
none. The cookie store is library code: that a session which was not written sets no
cookie, that one which was emptied removes it, and that a cookie without `Expires`
ends with the browser are modelled from `session_layer`, which asks for nothing else.
The guard takes the admin's id out of the session and does not look for the row
(`guard.rs:35`), although `.plan:75` wants the admin loaded for each request; the model
follows the code.

## 3. The runs

| Run | Configuration | Properties |
|---|---|---|
| `two` | two requests of all kinds, all seven forms (three of them rejected), over two posts whose slugs meet with the forms', pool of 2, 3 attempts, with fairness | `TypeOK`, `WritesValidated`, `SlugsUnique`, `KeysReserved`, `TagsMatchContent`, `ImplementsStore`, `EveryRequestAnswered` |
| `dates` | three requests of all kinds around one draft, pool of 2 | `PublishedIffDated`, `RowsPinned`, `DeleteIsFinal`, `AckedCreateDurable`, `RedatedOnlyByStale` |
| `pool` | three creates on two connections that lock two tags in opposite orders, with fairness | `EveryRequestAnswered` |
| `editing` | three requests from pages around one published post, nine forms | `EditTypeOK`, `OnlyEditsChange`, `RetryChangesNothing`, `PublishedKnowingly` |
| `pages` | four published posts that fill a page, a possible fifth, every page, page numbers 0, 2, 5, 9 and 15 of five-bit integers, two operations of the store | `PagesTypeOK`, `OnlyPublishedShown`, `TornOnlyByChange`, `PageInPlace`, `NothingMissed`, `NothingTwice` |
| `draft_tags` | few posts and one operation | `DraftTagsHidden`, violated |
| `rss_zero` | a feed limit of 0 | `FeedWithinLimit`, violated |
| `boots` | two processes, overlapping boots, four starts, four environments that are accepted and ten that are refused, with fairness | `TypeOK`, `MigratedOnce`, `ServingReady`, `LateBootsSeedNothing`, `CredentialsKept`, `BootEnds` |
| `second_admin` | two overlapping first boots with different usernames | `NoSecondAdmin`, violated |
| `replica_exits` | two overlapping first boots with one environment | `SeedingLetsBootContinue`, violated |
| `slugify` | every text of up to four characters of an alphabet of nine, two numbers, with fairness | `SlugTypeOK`, `NeverInvalidFormat`, `SavedSlugStays`, `ImplementsPromise` |
| `sessions` | three requests of one browser, two admins and a stranger, two passwords, two secrets, two restarts and one change of a password | `SessionsTypeOK`, `SignedInByPassword`, `LogoutSticks`, `SecretDecides` |

What they show:

* `ImplementsStore` is refinement with the identity mapping: whatever interleaves,
  waits, fails or is answered with an error although it happened, the tables change
  by one whole operation at a time. The abstract `Save` demands an unused slug and
  an acceptable form, so a save that overtook a check would show here.
* `SlugsUnique` holds although `resolve` looks outside the transaction, because the
  unique index catches what was taken since. `KeysReserved` is why: from the
  moment a transaction has entered its slug nobody else has it, committed or not.
* `WritesValidated`: the checks of a form are before the first await, after the
  load, and after the slug lookups; none is missed on any path to a write.
* `TagsMatchContent` (stated in `BlogStore`): text and tags of a post come from one
  form, always.
* `RowsPinned`: between the statements of an update nobody deletes its post.
* `PublishedIffDated`: status and date agree, although each handler decides the
  date from a row it read earlier. It holds because every write sets both.
* `RedatedOnlyByStale` says how far staleness goes. The date of a published post
  is not strictly kept: a save or a publish that loaded the post as a draft
  overwrites the date another request set in between. The property says this is
  the only way.
* `DeleteIsFinal`, `AckedCreateDurable`: a confirmed answer means what it says.
* `EveryRequestAnswered`: wait cycles of saves are broken, and since a request
  never asks for a second connection while it holds one, a small pool delays but
  does not block.
* `OnlyPublishedShown`: every row on a public page was published and dated when it
  was read, so the handlers' `published_at.unwrap_or(created_at)` never uses
  `created_at`.
* `TornOnlyByChange`: text and tags come from one form unless the post was changed
  between the page's queries; the pages do not read in one transaction.
* `NothingMissed`, `NothingTwice`: paging by offset skips a post only when another
  one left or moved during the walk, and repeats one only when another one arrived
  or moved. That the link after a full page may lead to an empty page is harmless.
* `PageInPlace`: a page typed by hand begins where the pages before it end, up to the
  last page number whose offset fits. Beyond it a release build shows an error or the
  posts of another page, which the property leaves open.
* `MigratedOnce`, `ServingReady`, `LateBootsSeedNothing`, `CredentialsKept`, `BootEnds`: boots may
  overlap, be cut off and be repeated with changed environments. One admin in all is
  seeded as long as no boot begins before another one's insert.
* `TypeOK` of `Startup`: what is stored of `ADMIN_USERNAME` and `ADMIN_PASSWORD` is trimmed
  and not empty, so that white space around a value in the environment is no part of
  a password, and a login form must repeat it without.
* `OnlyEditsChange`: the round trip of a post through its form, its slug, its tags and
  its date is the identity on every field that was not edited, also after a rejection
  in between and for a request that is repeated, unless someone else changed the post or its tags since. When someone
  did, the later save wins in every field; the code has no check against it, and no
  property says otherwise.
* `RetryChangesNothing`: a save, a publish, a withdrawal or a deletion may be repeated
  after an error. A *create* may not: after a lost acknowledgement it makes a second
  post with a suffixed slug, so the property leaves it out.
* `PublishedKnowingly`: a stale page publishes only what its sender asked for, or what
  was published when the form was opened.
* `NeverInvalidFormat`: `SlugError::InvalidFormat` cannot come out of `slugify`.
  `SavedSlugStays`: editing a post leaves its address alone. `ImplementsPromise`, liveness
  included: the loops give the words of the text, and end.
* `SignedInByPassword`: every session in the jar, on its way, or behind the guard comes
  from a login with a password that was that admin's at some moment between the
  sending of the login and its query. A password that was changed signs nobody out.
* `LogoutSticks`: a logout is not undone by answers that were on their way, since
  answers of other handlers do not write the session. It says nothing of other
  copies of the cookie: the server has no list of sessions to end.
* `SecretDecides`: the guard honours a session exactly while the secret is in force
  that its login was verified under. A restart with the same `BLOG_SESSION_SECRET` signs
  nobody out; a new secret ends all sessions, also one in an answer that reaches the
  browser after the restart, or in a request that reaches the new process; if the old
  secret comes back, so do they. The cookie carries only its signature, so this needs
  the key to follow from the secret and from nothing else, and secrets not to share one.

### Four places where the documentation says more than the code

Seeding tests for an admin and inserts one in two separate statements; a public
page reads a post and its tags in two.

* `second_admin`: the README (`src/README.md:110`) says the app does not create
  another row if any admin exists. Two first boots with different
  `ADMIN_USERNAME` both find the table empty and both insert. For a boot that begins
  after the row is there, the statement holds (`LateBootsSeedNothing`).
* `replica_exits`: the README (`src/README.md:103`) says that if an admin row
  exists, seeding is skipped and startup continues. Of two first boots with one
  environment, the second to insert meets the unique username and exits. After a
  restart it continues.

* `draft_tags`: `src/PRODUCT.md:41` says that public content only shows published
  posts and that drafts remain admin-only. When a save turns a post into a draft
  with other tags between the two queries of a page, the page shows those tags
  although the post never had them in public.
* `rss_zero`: `src/README.md:64` calls `BLOG_RSS_LIMIT` the maximum number of posts in
  the feed. 0 is accepted, and `list_published` raises it to 1.

### Bounds

* *Two or three requests.* All properties relate at most two requests or two
  posts. Three let one save take a slug and a second wait while a third resolves,
  and let two requests change a post between a third one's load and its write.
  Where there are three they are reduced to the forms their properties are about;
  `two` has all forms. Two requests are enough for `SlugsUnique` because the posts that
  are there bring slugs of their own, and the theorem is for any number.
* *Forms.* The forms in `MCAdminPosts` are chosen to meet: one title whose slug
  equals another's suffixed slug, an override equal to another's title, the same
  two tags in opposite orders, one tag in two spellings and twice in one form, and
  one form for each reason of rejection.
* `MaxAttempts` is 2 or 3, 10000 in the code. Two requests and two posts
  can exhaust it, which they cannot in practice; the theorems hold for any value.
* `MaxDate` covers the initial dates and one reading per request, so the bound
  never stops a request.
* `MaxConnections` is 2, so that the pool is exhausted.
* *Pages of administrators.* Three requests let one page go stale while another
  request changes its post and a third repeats or corrects. Between two submissions
  one field is edited; `Correct` allows a second one. One of the forms is an
  edit form whose title was emptied, so that rejected edits are corrected and saved too.
* `MaxChanges` is 2: one operation between a page's first query and its tags and one
  more before or after it; for a walk, one operation on each side of the visitor's
  position, or one that undoes the other. `PageSize` is 4, 10 in the code, and
  `MaxInt` is 15: the offset of page 5 wraps to a negative number, that of page 9 to 0,
  and four posts fill a page.
* `MaxStarts` bounds boots; four starts of two processes are a boot cut off and
  repeated on each side.
* Texts of up to four characters, some of which become three by transliteration, put a
  separator before, between, twice between and after letters; a property of a longer
  text is about one of these places. All properties of `slugify` but its end are proved
  for every text.
* `MaxRestarts` of `Sessions` is 2, so that a secret is replaced and comes back, and
  `MaxRotations` is 1: a login is before, around or after each. Three requests are a login,
  a logout and an answer that crosses them.
* Symmetry sets are used for request and process names in safety runs only.

The workload of every instance but those of `PublicPages` is finite and may end with
nothing left to do, hence `CHECK_DEADLOCK FALSE` there; that nobody stops *before* is
`EveryRequestAnswered` and `BootEnds`. A visitor can always open another page.

### Fairness

`AdminFairness` is weak fairness of each request's own `Step`, and of some
`DeadlockVictim`. Tokio polls a task whose await completed; PostgreSQL wakes a
waiter when the lock it waits for is released, and runs its deadlock detector
after `deadlock_timeout`. Weak fairness is enough for the pool because a waiting
request needs it only after others have been answered for good. Nothing is
assumed of arrivals, failures or lost acknowledgements. `Startup` has weak fairness
of each process's `Step`, and none of starts or stops; the migration lock is granted
once its holder is done or gone. `Slugify` has weak fairness of its loops, which run on
one thread without waiting. `Editing` and `Sessions` are about safety: administrators owe
nobody a click.

## 4. The proofs

The theorems are proved for all values of the constants, from the named assumptions
of the modules.

* `BlogData`, `AdminPosts`: ids are disjoint and finite in number, bounds are naturals,
  forms are made of texts, the posts there at the start were made by the same rules.
* `Editing`: names have an order, a slug that was saved is its own slug, and a form
  that was sent can come back as it is (`EditingAssumption`, `SlugTextAssumption`,
  `FilledAssumption`).
* `PublicPages`: page size and limits are integers of the width, posts have different
  `created_at`, and there are fewer posts than integers (`PagesAssumption`,
  `RoomAssumption`).
* `Startup`: trimming twice is trimming once, environments give the variables values.
* `Slugify`: lower case leaves letters, digits and hyphens alone, texts are ASCII.
* `Sessions`: first passwords are passwords, the constants that mean "none" or "remove"
  are apart from each other, and `Key::derive_from` gives different secrets different keys.

| Theorem | Statement |
|---|---|
| `TypeCorrect` | `AdminSpec => []TypeOK` |
| `WritesStayValidated` | `AdminSpec => []WritesValidated` |
| `SlugsStayUnique` | `AdminSpec => []SlugsUnique` |
| `KeysStayReserved` | `AdminSpec => []KeysReserved` |
| `RowsStayPinned` | `AdminSpec => []RowsPinned` |
| `PublishedStaysDated` | `AdminSpec => []PublishedIffDated` |
| `DeletionsStayFinal`, `CreationsStayDurable` | `AdminSpec =>` always `DeleteIsFinal`, `AckedCreateDurable` |
| `DatesKeptButByStale` | `AdminSpec => RedatedOnlyByStale` |
| `HandlersImplementStore` | `AdminSpec => ImplementsStore` |
| `StoreTagsMatch` | `Spec => []TagsMatchContent` (`BlogStore`) |
| `TagsStayWithContent` | `AdminSpec => []TagsMatchContent` |
| `StalePagesKeepPosts` | `EditSpec => [](SlugsUnique /\ PublishedIffDated /\ TagsMatchContent)` (`Editing`) |
| `EditTypes` | `EditSpec => []EditTypeOK` |
| `DraftsPublishedKnowingly` | `EditSpec => PublishedKnowingly` |
| `OnlyEditsTakeEffect` | `EditSpec => OnlyEditsChange` |
| `RepeatsChangeNothing` | `EditSpec => RetryChangesNothing` |
| `PagesTypes`, `PagesShowPublished`, `PagesTornOnlyByChange` | `PagesSpec =>` always `PagesTypeOK`, `OnlyPublishedShown`, `TornOnlyByChange` (`PublicPages`) |
| `PagesAreInPlace`, `WalksMissNothing`, `WalksRepeatNothing` | `PagesSpec =>` always `PageInPlace`, `NothingMissed`, `NothingTwice` |
| `FeedKeepsLimit` | `RssLimit # 0` implies `PagesSpec => []FeedWithinLimit`: 0 is the only limit that `rss_zero` could have shown |
| `BootsTypeCorrect`, `SchemaMigratedOnce`, `ServesWhenReady`, `LateBootsNeverSeed` | `Spec =>` always `TypeOK`, `MigratedOnce`, `ServingReady`, `LateBootsSeedNothing` (`Startup`) |
| `CredentialsStay` | `Spec => CredentialsKept` (`Startup`) |
| `SlugTypesCorrect`, `FormatNeverInvalid`, `EditKeepsSlug` | `Spec =>` always `SlugTypeOK`, `NeverInvalidFormat`, `SavedSlugStays` (`Slugify`) |
| `SlugifyKeepsPromise` | `Spec => Promise!PromiseSafety`: `ImplementsPromise` without its liveness |
| `SessionTypesCorrect`, `SessionsEarned`, `LogoutStays` | `Spec =>` always `SessionsTypeOK`, `SignedInByPassword`, `LogoutSticks` (`Sessions`) |
| `GuardFollowsSecret` | `Spec => SecretDecides` (`Sessions`) |

The inductive invariant of `AdminPosts` is

    IInv == TypeOK /\ WritesValidated /\ SlugInv /\ RowsPinned
            /\ PublishedIffDated /\ LinksResolve
            /\ NotReborn /\ DeleteIsFinal /\ AckedCreateDurable /\ SeenKept

with `SlugInv == SlugsUnique /\ KeysReserved`. Hardly any part is inductive alone:

* `SlugsUnique` is broken by a commit unless its slug is still unused *then*. That
  is `KeysReserved`, and it survives the entry of another slug only because the
  index check sees both committed rows and the entries of open transactions
  (`RowSlugs`, `KeysHeld`, `EnteredKeyIsFree`).
* `KeysReserved` is broken by a commit that gives another post that slug, or by
  an old slug handed back: an updating transaction keeps its old index entry,
  which needs its row to be still there, `RowsPinned`.
* `RowsPinned` needs that deletions wait for the row lock, and that a post which a
  create is about to insert has no other request writing it; a request loads a
  post only when it exists (`UnbornBefore`).
* `PublishedIffDated` needs `WritesValidated`: the date carried to a write fits
  the status. `WritesValidated` in turn needs to know what the request established
  on the way, which is `Validated`.
* `LinksResolve` (links only of posts that exist) makes a deletion of a post
  another request had already removed a stutter for the abstract specification.
* `DeleteIsFinal` needs `NotReborn`: a deletion found its post, so that the only create
  with its id is past its insert; and a row comes to be only by an insert
  (`RowAppears`). A save that had loaded the post before finds no row to update.
* `AckedCreateDurable`: a confirmation comes with the row (`CreationConfirmed`), a row
  disappears only by a deletion (`RowDisappears`), and a deletion's answer is final.
* `RedatedOnlyByStale` follows from `SeenKept`: a request that saw a date writes that
  date, so a date is replaced only by one that saw none, or another.

The proof has one lemma per action and invariant part, on the pattern
`AdminInit => IInv`, `IInv /\ [AdminNext]_allVars => IInv'`. Refinement follows from
the same invariant: `StepImplements` maps each handler step to an action of
`BlogStore` or to a stutter.

`TagsMatchContent` is where the refinement pays: it is proved for the abstract store,
where a save is one step, and `HandlersImplementStore` carries it to the handlers
without another look at their steps. The invariant of the store is

    StoreInv == StoreTypeOK /\ TagsMatchContent /\ RowsDated /\ NamesFit /\ RowsResolved

that is, also: status and date agree, the name of a tag has the tag's slug, and the
slug of a post is one that `resolve` gives to some accepted form. It
holds of the handlers, and of `Editing` above them, in the same way.

`Editing` has two invariants on top of `IInv`. `EditInv` ties a request to its page: it
was sent from the page that holds such a request (`SentFromPage`), a field nobody
edited is still what the row on the page shows (`FormKept`), and as long as nobody
else changed the post the row itself is what the page shows (`PostSeen`). That gives
`PublishedKnowingly`. `RoundTrips` follows a post that nobody disturbed around: it is
as the form shows it, tags and slug included (`FormCurrent`, `TagsSent`); the handler
has loaded its date and not tried a second slug (`LoadedNow`); what a request wrote
lasts until somebody disturbs it, also when the answer was an error (`Lasting`), and a
repeated request is the same one (`Repeats`). The lemmas under it say that each leg of
the trip is the identity: `CsvListsTags` and `TagsReturn` from tags through `tags_csv`
and `parse_tags` back to the same tags with the same names, which needs `NamesFit`;
`UneditedSaved` for the slug, which needs `RowsResolved` and `SlugTextAssumption`;
`DateSaved` for the date.

`PublicPages` has `PagesInv`, on top of `StoreInv`:

* `Untouched`: an entry whose post was not touched is what the store holds, hence
  `TornOnlyByChange`.
* `HomePlace`: the offset of a home page is a natural number, because its page was
  typed in range or follows a full page: with `RoomAssumption` and the arithmetic of
  `Wrapped` this is `PageInPlace`.
* `NoRepeat`, `NoGap`: while no post joined, the posts walked past rank before the next
  offset; while none left, those still to come rank behind it and the page is full.
  A post that leaves only lowers ranks and one that joins only raises them. Ranks
  number the posts without gaps (`RankOrder` and the lemmas after it), which is why a
  post of such a rank is on the page, or is not.

The other modules have an invariant of their own, called `IInv` as well:

* `Startup`: whoever reads or writes the table of migrations holds the lock
  (`LockIsHeld`), and while it does what it found missing is what is missing
  (`TodoIsMissing`): hence `MigratedOnce`. A process past the migrations has the schema
  behind it, one past seeding an admin, and rows never go (`SchemaBehind`, `AdminBehind`):
  hence `ServingReady` and `LateBootsSeedNothing`. A booting process has a configured
  environment, which is why what it inserts can be typed.
* `Slugify`: while the loop runs, the slug does not begin with a hyphen, has no two in a
  row, and ends with one exactly when `last_was_hyphen` says so; taking hyphens off
  the end keeps that, and at the end of the second loop it is what `validate_slug`
  demands. For the second call: the slug is what was read so far of a text that is
  a slug already, so every character is copied. For the promise (`Spelling`): the slug
  consists of the characters of the places marked so far, a place being marked if it
  has a letter or follows one (`Marked`), each in the place of its rank. The second
  loop takes the one place off that `Words` does not keep, if there is one
  (`KeptPlaces`).
* `Sessions`: what a login found in the row and is about to accept is the password its
  form carries, for a request in `right` (`FoundRight`); sessions are set by logins
  only (`Guarded`); a session names a request that was sent, so that no later
  form changes who earned it (`MakersSent`). Every cookie, in the jar, in a request or in
  an answer, was signed with the key of the secret in force when its login was verified
  (`SignedByMaker`); as keys tell secrets apart, that is `SecretDecides`.

Only model-checked is what needs fairness, of which the prover knows nothing:
`EveryRequestAnswered`, `BootEnds`, and of `ImplementsPromise` that `slugify` ends. The four
violations are counterexamples and stay with TLC as well.

## 5. What is not modelled, and why

* Rendering, sanitizing, excerpts, SEO texts, error pages, static files and scripts:
  text transformations and presentation without state.
* The About page and `robots.txt`, which read no database, and `lastmod` in the sitemap.
* Argon2, cookie signatures, `deunicode`, sqlx, PostgreSQL, the browser: external,
  modelled from how the code uses them.
* Clock jumps: `Utc::now()` is increasing.
* Transaction isolation other than READ COMMITTED, and other programs writing to
  the database, but for `Rotate`.
* Sessions of several browsers: they share nothing but the key and the rows.

## 6. Plan

Done: all modules of section 2, and a theorem for every safety property of a run that
passes. What is left are theorems that no run states yet: that the readers show posts
as the handlers, not only the store, leave them, which is the composition of
`HandlersImplementStore` with `PublicPages`; that `SlugTextAssumption` and the slugs of
`BlogData` are instances of what `Slugify` proves; and sharper statements of what a
stale save overwrites.

## 7. Running

    tlc -workers 2 -config MCAdminPosts_two.cfg MCAdminPosts.tla
    tlc -workers 2 -config MCEditing_editing.cfg MCEditing.tla
    tlc -workers 2 -config MCPublicPages_pages.cfg MCPublicPages.tla
    tlc -workers 2 -config MCStartup_boots.cfg MCStartup.tla
    tlc -workers 2 -config MCSlugify_texts.cfg MCSlugify.tla
    tlc -workers 2 -config MCSessions_tabs.cfg MCSessions.tla
    tlapm BlogStore_proofs.tla
    tlapm AdminPosts_proofs.tla
    tlapm Editing_proofs.tla
    tlapm PublicPages_proofs.tla
    tlapm Startup_proofs.tla
    tlapm Slugify_proofs.tla
    tlapm Sessions_proofs.tla

Each run takes about a minute with two workers.

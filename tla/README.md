# A verification of the board's concurrent core

TLA+ models of FastAPI-Clean-Board, the TLC configurations that check them, and
TLAPS proofs. Paths are relative to the repository (`app/...`). `PROJECT.json`
lists the components, the runs, the lines each definition stands for, the
hazards, the disagreements found and the theorems.

## 1. The system

The board is one asyncio process (or several) in front of PostgreSQL and Redis.
A request passes the middlewares, the dependencies that find its user, and an
endpoint (`app/api/v1`), which calls a service (`app/services`). The service opens a
`UnitOfWork` (`app/core/uow.py`), one session and one transaction that commits
when the `async with` block ends and rolls back when it raises, and calls
repositories (`app/repositories`), each method of which is one to three SQL
statements. No service holds a lock of its own. All mutual exclusion comes from
PostgreSQL's row locks and unique indexes, and between any two statements the
event loop may run any other request.

| Part | State | Operations | Talks to | Hard behaviours |
|---|---|---|---|---|
| like toggle | `likes`, `posts.likes_count` | `toggle_like_post`, four repository methods | posts (deleted?) | decision before the write; recount and overwrite by two statements; two locks per request |
| post detail | | `read_post_by_id` | posts, likes, view counter | count and own like read by two statements |
| view counter | Redis `post:views:N`, `posts.views` | `read_post_by_id`, `increment_views_background`, `sync_views`, `increment_views_if_exists` | Redis, posts; background task | GET/SET/INCR apart; a task after the response; Redis loses keys; late syncs |
| view sync job | `updates`, in memory | `sync_post_views_to_db` (`app/core/scheduler.py`) | Redis, posts | writes all it has collected again after every key, over newer values; goes on after a failure |
| refresh tokens | `refresh_tokens`, the JWTs clients hold | `login`, `refresh`, `logout` | users, the clock | rows read without a lock; a DELETE locks its rows one by one, and two of them may deadlock; `exp` cut to seconds; rollback by the exception raised |
| posts | `posts` | create, `update_post_core`, `soft_delete_post_core` | | the UPDATE and the reason of its failure are two statements |
| administrative deletion | `posts` | `PostRepository.soft_delete_post` | | no condition on the author, none on the row not being deleted |
| comments | `comments` | register, update, soft delete | the parent's row, foreign keys | the parent is looked at without a lock |
| bookmarks | `bookmarks` | `toggle_bookmark_to_post` | posts (exists?) | decision before the write |
| registration | `users` | `register` | | two checks without a lock; the migration has a unique index on the email, the model on the nickname too |
| paged lists | | `get_posts_list`, `get_comments`, `list_by_user` | posts, comments, bookmarks | OFFSET over a list that changes; `created_at` is the start of a transaction |
| unit of work | a session, a pooled connection | `__aenter__`, `__aexit__` | every service | all or nothing; the connection goes back whatever fails |
| access control | the access token | `get_current_user`, `get_current_user_optional`, `authenticate_user` | users | a unit of work before the endpoint's |
| error handling | | handlers of `BaseAppException`, `HTTPException`, `RequestValidationError`, `Exception` | all of the above | raised before, within or after the transaction; who answers |
| middlewares, logging | trace id: scope and context variable | `trace`, `access_log`, `timing_log`, `TraceIdFilter` | every line of the log | overlapping requests; lines outside the middleware |
| endpoints | | `app/api/v1` | services | which user, which background task |
| migrations | the schema of PostgreSQL | `alembic upgrade head` | every repository | one migration, which differs from the models in the unique indexes of `users` |
| schemas, settings, start-up | | | | none |

What each should guarantee:

* likes: the counter is the number of rows; a toggle has the effect of one
  atomic toggle or none; toggles do not deadlock; a detail agrees with itself.
* views: no view counted twice; the counter loses none; a re-read shows
  the reader's own view; the job loses and invents none.
* tokens: rotation leaves one usable row; a used token stays used; logout and
  expiry delete what they say; a token is honoured until its `exp`.
* posts and comments: no edit is lost, deletion is final, the refusal is the true one,
  threads stay one level deep.
* bookmarks: as likes. Registration: accounts share neither email nor nickname.
* lists: what was there from the first page to the last is answered, once.
* a request: an error means that nothing was changed; a connection is returned;
  every line and answer carries the request's own trace id; every request is answered.

## 2. How PostgreSQL is modelled

One action is one SQL statement, Redis call, or the commit. READ COMMITTED, the
default the sessions use, gives its semantics:

* A statement sees the rows committed when it starts and its own transaction's
  writes. Tables are therefore variables holding *committed* rows, and each
  request has a variable for what its open transaction wrote (`wrote`, `row`,
  `removed`/`fresh`, `entered`). `Commit` moves it to the table in one step, `Fail`
  drops it: together they are `UnitOfWork.__aexit__`.
* A row written by an open transaction is locked. An UPDATE, DELETE or
  conflicting INSERT on it is not enabled (`~RowLocked`, `~PostLocked`, `~Entered`)
  until that transaction ends, and then evaluates its WHERE on the new
  committed row. SELECTs wait for nothing, and a DELETE or UPDATE does not wait for the
  uncommitted INSERT of another transaction: it does not see that row.
* A DELETE of many rows selects them when it starts and then takes them one by one, in
  the order of its plan, which may differ between the two DELETEs of `refresh_tokens`: it
  keeps what it has deleted locked while it waits at a row another transaction has
  deleted, and rows inserted in between escape it. In `RefreshTokens` these are the actions
  `DeleteAll`/`DeleteExpired`, `ReachRow` (any remaining row), `WaitEnds` and `DeleteEnds`.
* Transactions that wait for each other in a circle (`Deadlocked`) wait until PostgreSQL
  ends one of them with an error (`DetectDeadlock`), which the code answers with 500.
* `likes_count = likes_count + 1` is computed by the UPDATE under the lock.
  `likes_count = :real_count` was computed before.

`Fail(r)` is enabled at every moment of a request: a statement raises, the client
goes away or the process dies. Process death is the simultaneous `Fail` of
requests, which Redis survives.

A member of `Requests` or `Tasks` is a connection that serves one request after
the other. Hence behaviours are unbounded without counters, and a model with
three members covers every overlap of at most three requests.

## 3. Modules

| Module | Models | State ↔ code | Notes |
|---|---|---|---|
| `SetToggle` | what a toggle promises | `members`, and each client's aim | abstract: look, then one atomic flip, or agree, and be answered with success; or abort |
| `LikeToggle` | likes | `likes`, `likesCount`, `deleted` are columns; `pc` names the next statement; `isLiked`, `count` are the locals of `toggle_like_post` | both values of `use_counter_cache` |
| `PostDetail` | `LikeToggle` and the readers of details | `shown` is the `likes_count` of the DTO | the readers only look |
| `ViewCounter` | views | `views`, `cache`; `answer` is `post_dto.views`, `newViews` is `new_views` | `useCache` is `USE_VIEWS_COUNTER_CACHE`, chosen at the start and never changed; `Incr` is `redis.incr` and the test of the period |
| `ViewSyncJob` | `ViewCounter` and the job | `updates` is the dictionary `updates`; `due` the keys SCAN still owes | the job and the tasks lock each other's rows |
| `Sessions` | what login, refresh and logout promise | `store`, and what each client has looked at | abstract: look, then in one atomic step end what was seen and start one; or abort. No locks, no waiting |
| `RefreshTokens` | login, refresh, logout | a row has `id`, the token its hash is of, `expiresAt` | a token is `[user, exp]`: the JWT has no other claim that varies; `reached` is the row a DELETE waits for, `removed` what it has deleted so far; implements `Sessions` |
| `Posts` | post writes | a text is the request that wrote it last | `status` is `RepoResult.status`; `ForceDelete` is the administrative deletion |
| `Comments` | comment writes | as `Posts`, with `parent` | foreign keys are `Fail` |
| `Bookmarks` | bookmark toggle | as `LikeToggle`, no counter | implements `SetToggle` too |
| `Registration` | register | `unique`: the columns of `users` with a unique index; `entered`: those whose index holds the open INSERT's key | `unique` is chosen at the start: `{email}` as the migration makes it, or `{email, nickname}` as the models do; password policy is a nondeterministic refusal |
| `Pages` | the three lists | `created` is `created_at`; `offset` the client's | a filter is membership of the list; equal `created_at` come in any order |
| `Api` | one request from the first middleware to the answer | `trace` is `scope["state"]["trace_id"]`, `context` is `current_trace_id`; `held` connections | what a service does inside its transaction is "writes or not, returns or raises" |

`PostDetail` and `ViewSyncJob` compose: their next-state relation is a step of the
module they extend, guarded by the locks of the new actor, or a step of the new actor.
`MCx` extends `x` with the symmetry sets; runs that check a liveness property do
not use them. `xProofs` holds the proofs about `x`; those
about `PostDetail` are in `LikeToggleProofs`, those about `ViewSyncJob` in
`ViewCounterProofs`, those about `Bookmarks` and `Pages` in `BookmarksAndPagesProofs`
(which is why the names in `Pages` say `List`). Variables under
"History" are read by no guard: they record what a property has to speak
about. Operators marked "Plausible bug" are not part of a model; each is a way
its neighbour could be written wrongly, and the run that would notice it is in
`PROJECT.json` under `mutants`.

Simplifications: ids of users, texts, titles and hashes are model
values or the identity of the writer; wrong credentials, malformed tokens and
validation errors end a request before it changes anything: `Api` draws them apart, the
modules of the services leave them out or merge them into `Fail`. In `Api` the `UnitOfWork` of
`get_current_user` and that of the endpoint are one object, entered twice, one
after the other: `held` counts the sessions it has open. `Abandon` is the
server cancelling the request's task, or dying.

## 4. Runs

A passing run reaches every state of its instance.

| Run | Instance | What it shows |
|---|---|---|
| `like_toggle` | 2 requests, 2 users, 1 post, 1 reader of its detail | the counter is exact unless an unlike overwrote it with a stale recount (`CountExactUnlessDrifted`); every like that becomes visible adds exactly one (`LikeCountsOnce`); the toggle implements `SetToggle`; each toggle ends; a detail contradicts itself only if a toggle came between its two statements (`DetailCoherent`) |
| `view_counter` | 3 tasks, 1 post, with and without the cache, period 2, 4 views, tasks and Redis fail | no view is counted twice (`NoOvercount`); the Redis counter is the number of views unless a SET overwrote a newer one or it was lost; a re-read answers more, unless the counter was so disturbed (`ReReadGrowsUnlessDisturbed`); without the cache `posts.views` is the number of answered reads (`UncachedViewsExact`); each read ends |
| `view_sync_job` | 2 tasks, 2 posts, period 1, 2 views each, the job and Redis fail | nothing the job holds exceeds the views (`NoOvercountByJob`); `posts.views` goes back only by a value that was overtaken; after a run whose last unit of work committed, every collected value has arrived, although earlier ones failed (`FlushedAtEnd`) |
| `token_rotation` | 2 requests, 1 user, 2 ticks a second, lifetime 1 s, clock to 3, row ids to 3 | a commit ends exactly the sessions its DELETE selected and starts its own, as one atomic step would (`ImplementsSessions`); refresh leaves exactly the new row and logout none, unless overlapped; a used token works again only by a race or a reissue; no token is called expired before the second of its `exp` (`IInv`); each request ends, two DELETEs that wait for each other's rows among them |
| `posts_writes` | 3 requests, 2 users, 2 fields, 1 post | overlapping edits of different fields are both kept, one of several deletions by the author succeeds, nothing changes a deleted post, an administrative deletion among them; 403 and 404 are true, although found by a second statement |
| `posts_deleted` | 2 requests, 1 user | **violation** of `NoInternalError` |
| `comments_threads` | 2 requests, 2 users, 2 posts, 3 comments | threads one level deep and under one post; deletion final and answered once; a reply enters under a deleted comment only if the deletion was committed after the look at the parent (`ReplyUnderDeletedOnlyIfRaced`); an author is refused only if he asked before the comment was committed |
| `bookmarks_toggle` | 3 requests, 2 users, 2 posts | implements `SetToggle` |
| `register_accounts` | 3 requests, 2 emails, 2 nicknames, both schemas | no two accounts share an email (`IInv`); two share a nickname only if one overtook the other and there is no index on it (`AccountsShareOnlyIfRaced`); only an overtaken registration gets the uncaught index error |
| `nicknames_shared` | 2 requests, 2 emails, 1 nickname, both schemas | **violation** of `NicknamesDistinct` |
| `list_pages` | 4 rows, pages of 1, clock to 4, each of the three lists | a row that stays in the list is skipped only if one ahead of it left or its `created_at` is shared, and repeated only if one entered ahead of it (both within `ListInv`) |
| `api` | 2 requests, 1 connection, six endpoints, 1 client-sent id | sessions are closed and connections returned, and what a protected endpoint commits it does for a known user, and every 401 carries its challenge (`IInv`); every line and answer carries its own request's id (`TracedThroughout`); an error means no change, success a commit (`AnswerTellsCommit`); every request is answered |

Why the bounds are enough. Every stale read in this code takes two requests: one
that reads, one that commits before the first writes. Three tasks are used where
a third party matters: in `ViewCounter` a read that fills the counter late, one
that moved it, one that re-reads; in `Posts` a creator, an editor and a deleter.
Two users make a foreign post and an independent like possible. A period of 2
(10 in the code) brings several syncs within 4 views; beside the job a period of 1
makes every view a sync, so that two tasks and two views overtake it in both orders, and a second
post gives it values to write again. Two ticks a second are the
least that tell `expires_at` from the truncated `exp`, and a lifetime of one
second lets tokens expire, and be presented in the second of their `exp`, before the clock stops at 3;
three rows are two that two DELETEs meet in different orders, and the one a refresh inserts. Three comments make a parent, a reply
and a reply to the reply; two posts a parent elsewhere. Two emails and
nicknames give every pattern of collision of three registrations in which
two requests share a value. Four rows and pages of one let a row be passed, one
leave and one enter around it, with and without equal `created_at`. One
connection for two requests is the smallest pool at its limit, and a protected
endpoint needs two sessions one after the other. The endpoints of `api` differ in
what the model can tell apart: optional user and background task (`read_post`), the
same without the cache, which writes and has no background task (`read_post_uncached`), no
transaction to change (`read_posts_list`), raising before and after a write within the transaction
(`refresh_token`), raising within it (`register`), protected and raising after it
(`update_post`). `MaxHits`, `MaxTime`,
`MaxRows`, `MaxPosts` and `MaxComments` are the only bounds; each is named in its module.

`CHECK_DEADLOCK FALSE` is set for `token_rotation`, which stops when `MaxTime` and `MaxRows` are
used up. No other run may stop.

Fairness. Liveness is checked under `SF` of each request's `Step`, its
statements without failing. Between statements only the event loop decides, and it
resumes every task whose await is done (that much is weak fairness). A
statement waiting for a row becomes enabled and disabled as other
transactions take and release the lock; PostgreSQL queues the waiters of a row
and serves them in turn, which is strong fairness. The same holds in `Api` of the
connections of the pool, which SQLAlchemy hands to its waiters in turn; nobody needs
`PoolTimeout`. Nothing is assumed of
clients, of failures, of the clock or of deletions. In `RefreshTokens` `DetectDeadlock` is
weakly fair as well: a circle stays until PostgreSQL, after `deadlock_timeout`, ends one of its
transactions. Without that `EveryRequestEnds` does not hold there: two requests of one
user that meet two of his rows in different orders wait for ever. Everywhere else the
liveness properties say that no set of requests wait for one another for ever, with nobody to
break the circle: likes take the row of likes before the row of posts, reads and
their tasks one row each, and no request keeps one connection while it asks for another.

### Disagreements the runs show

`posts_deleted`: `update_post_core` has no case for `ALREADY_DELETED` and
answers an internal error for a deleted post, where its docstring promises
`PostNotFoundException`.

`nicknames_shared`: `app/models/user.py:84` declares the unique index `ix_users_nickname`, and the
tests create their tables from the models. The only migration
(`migrations/versions/7a835f944b09_init_table.py:24-34`), which the setup of the README applies,
creates `ix_users_email` and no index on the nickname. `register` looks the nickname up
without a lock, so in a database made by the migration two overlapping registrations get one
nickname. All that holds there is `AccountsShareOnlyIfRaced`. The email is safe under either schema.

### Exceptions the passing properties make

Each is reachable, and each is a behaviour of the code a reader may not expect.

* `drifted`: `unlike_with_counter_cache` counts rows, then overwrites the
  counter (`app/repositories/like.py:93`). A toggle of another user committed
  in between is lost from `likes_count`.
* `outdated`: a detail whose post was toggled between its two statements.
* `disturbed`: two overlapping first reads, the later SET over a counter already moved.
* `overtaken`: a late background task, or the job, puts an older value into `posts.views`.
* `stale`: `refresh` reads the rows without a lock; two requests
  with one token both succeed (`app/services/auth_service.py:126`).
* `reissued`: a refresh in the second of the login answers the token it was given.
* `overlapped`: a refresh under way at a logout inserts its row afterwards.
* An expired row: `refresh` deletes all rows and raises inside the unit of work, which
  rolls the deletion back (`DeleteEnds` and `Rollback` of `RefreshTokens`). No text promises the
  deletion, so no property calls this wrong; `ImplementsSessions` says what happens.
* `Deadlocked`: two logins, refreshes or logouts of one user that meet his rows in different
  orders; one is answered 500.
* `bereft`: a reply is inserted under a parent deleted since it was looked at.
* `unborn`: an author's edit that meets his comment uncommitted is refused as a stranger's.
* `raced`: a registration overtaken by another gets the error of the unique index, or its nickname
  where there is none.
* `leftAhead`, `enteredAhead`, `Tied`: rows skipped or repeated between pages.

One more that no property mentions: a comment may be inserted under a soft-deleted post.

## 5. Proofs

TLAPS proves, for any number of requests, users, posts, comments, tasks, rows and connections, any
page size, period, lifetime, clock and both settings:

| Theorem | States |
|---|---|
| `LikeToggleProofs!Invariance`, `TypeCorrect`, `CountExact` | `Spec => []IInv`, `[]TypeOK`, `[]CountExactUnlessDrifted` |
| `LikeToggleProofs!LikesCountOnce` | `Spec => LikeCountsOnce` |
| `LikeToggleProofs!LikeToggleImplementsSetToggle` | `Spec => ImplementsSetToggle`, every step is a step of `SetToggle` or a stutter |
| `LikeToggleProofs!DetailInvariance`, `DetailsCoherent` | `DetailSpec => []DetailInv`, `DetailCoherent` |
| `ViewCounterProofs!Invariance`, `TypeCorrect` | `Spec => []IInv`, `[]TypeOK` |
| `ViewCounterProofs!NeverOvercounted`, `CacheIsExact`, `ReReadsGrow`, `UncachedIsExact` | the four safety properties of `view_counter` |
| `ViewCounterProofs!JobInvariance`, `NeverOvercountedByJob` | `JobSpec => []JobInv`, `[]NoOvercountByJob` |
| `ViewCounterProofs!ViewsBackOvertaken`, `FlushesAtEnd` | `JobSpec => ViewsBackOnlyOvertaken`, `FlushedAtEnd` |
| `RefreshTokensProofs!Invariance` | `Spec => []IInv`, `ExpiredOnlyAtEnd` among it |
| `RefreshTokensProofs!RefreshTokensImplementSessions` | `Spec => ImplementsSessions`, every step is a step of `Sessions` or a stutter |
| `RefreshTokensProofs!RotationsExact`, `ReuseIsTraced` | `Spec => RotationExact`, `ReuseNeedsRaceOrReissue` |
| `PostsProofs!Invariance`, `EditsAreKept`, `OneDeletion` | `Spec => []IInv`, `[]EditsKept`, `[]DeletedOnce` |
| `PostsProofs!DeletionIsFinal`, `RefusalsTrue` | `Spec => DeletedForGood`, `RefusalTrue` |
| `CommentsProofs!Invariance`, `ThreadsStayFlat`, `OneDeletion` | `Spec => []IInv`, `[]ThreadsFlat`, `[]DeletedOnce` |
| `CommentsProofs!DeletionIsFinal`, `RepliesUnderDeletedRaced`, `AuthorsRefusedOnlyUnborn` | `Spec => DeletedForGood`, `ReplyUnderDeletedOnlyIfRaced`, `AuthorRefusedOnlyUnborn` |
| `BookmarksAndPagesProofs!Invariance`, `BookmarksImplementSetToggle` | `Spec => []IInv`, `ImplementsSetToggle` |
| `BookmarksAndPagesProofs!ListInvariance`, `NoneSkipped`, `NoneRepeated` | `ListSpec => []ListInv`, `[]SkippedOnlyIfOneLeft`, `[]RepeatedOnlyIfOneEntered` |
| `RegistrationProofs!Invariance`, `SharedOnlyRaced`, `IndexErrorsOnlyRaced` | `Spec => []IInv`, `AccountsShareOnlyIfRaced`, `IndexErrorOnlyIfRaced`, under either schema |
| `ApiProofs!Invariance`, `TraceIdsDoNotMix`, `AnswersTellCommits` | `Spec => []IInv`, `[]TracedThroughout`, `[]AnswerTellsCommit` |

Assumptions: `Users` of `LikeToggle` is finite (so that likes can be counted) and so are `Requests` of
`Comments` (so that ids can), the settings are
Booleans, `SyncEvery` and `TicksPerSecond` are positive, the bounds and `LifeSeconds` are numbers,
the rows of a list are finitely many (so that they can be counted) and its clock has a tick,
the pool has a connection, the endpoints are the modelled ones, the value for "no id" is no id,
the values that stand for "nobody" and "no post" are none, `Readers` are users, and no
task is a post. They are `ASSUME`s of the modules, evaluated by the runs.

Likes. `CountExactUnlessDrifted` is not inductive: it says nothing
of a counter that is about to be written. `IInv` adds what an open transaction
holds: at which statement it has written what (`PhaseOK`, `AnswerOK`), that its insert is of a row still
absent and its delete of one still present (`WrittenRow`), which stays true because one row has one
writer (`RowsApart`) and one post has one holder (`PostsApart`); hence an
increment is still one more than the committed counter when it commits
(`IncrementCurrent`), and a recount that missed no commit is still right (`RecountCurrent`).
Commit is then the only action that changes the counter, and lemmas on cardinality
close its cases. The refinement uses `WrittenRow` to know that a commit flips, and an
empty `wrote` to know that the abstract client had agreed. Bookmarks are the same without a
counter (`RowsHeld`). For the readers of details `DetailInv` adds that a count held
between the two statements is still the number of likes unless outdated
(`ShownCurrent`); the likes of a post are a subset of the users, so a full count
contains the reader's.

Views. `IInv` adds where each task is and what its copy is worth
there (`TaskOK`), one writer per row (`PostsApart`), and that nobody has seen
more than the next answer (`SeenOK`): every counter and every copy is at most the
views counted, and on an undisturbed post the cache equals them.

The job. It writes only `posts.views`, and `IInv` survives any such write of at most the
views counted, so lemma `NextIInv` of the reads serves every step
of theirs. `JobInv` adds that what GET answered is what is collected (`JobPhaseOK`), that a
value nobody has overtaken, the job's or a task's, is not older than `posts.views`
(`CurrentUnlessOvertaken`: it was the number of views when it was taken), and that
after a committed unit of work every collected value is in `posts.views` (`FlushedStays`).

Refresh tokens. Rows, fresh rows and targets have ids below `nextId`, and one id
is one row (`RowsNumbered`). A row is in at most one open `removed` set, although the sets grow row by row; after its DELETE a
request's targets that are still rows are in its own (`DeletedByOne`, `PhaseOK`), so
its commit deletes exactly what of them is still there (`CommitDeletes`), however long the
statement waited. That is the refinement: to `Sessions` a request acts from the moment its DELETE
has selected rows, everything between that and the commit is a stutter, and the commit is
`Start` or `End`; a request with an expired row never acts. That a commit starts one
session, and a new one, is `PhaseOK` and `RowsNumbered`. `RotationExact` then needs only that rows
committed in between were noticed (`overlapped`). `RowsOutliveTokens`: `expiresAt` is read after
`exp`, and truncation is monotone (a lemma on `\div`), so a row found expired is
one whose token has reached its `exp`. `UsedTokensTraced`: a used token with a committed
row was reissued, and a refresh that has read its rows with a used token is stale or
was reissued its token.

Posts and comments. One row has one open writer (`WritersApart`), so the row it
holds is the committed row with its change on top (`WritesOnTop`) until it commits; that is
`EditsKept` and the finality of deletion at `Commit`. A row's author never changes, and
deletion and birth only happen once, so the reason found by the second statement is
still true at the answer (`ReasonTrue`). For comments `ParentsStay` keeps the parent that was
looked at without a lock where it was (its post and its own lack of a parent never change), but
for a deletion, which the reply cannot have missed unless it was committed after the look (`bereft`),
and `IdsLeft` counts ids, which a bounded table needs to hold every open INSERT.

Registration. One INSERT owns a key of a unique index (`KeysOwned`), which with the index on the
email alone is all that keeps accounts apart (`EmailsDistinct`); an email or nickname that is taken
after a check found it free was taken since (`TakenOnlyIfRaced`). Nothing is assumed of the schema but
that it is one of the two, so what is proved of the nickname holds without its index.

Lists. Neither property says anything of the pages still to come. `OffsetDivides` does: a row
that has come has fewer than `offset` rows ahead of it, one that is still to come at least
as many, but for rows that one ahead has entered or left, and for ties. Rows appear anywhere in
the list (`created_at` is older than the commit), so each entry and departure is charged to the
rows behind it. Lemma `PlaceOfRow` says where a row without a tie is with respect to a page,
lemma `PageSizes` that a page skips `offset` rows and is full, or is the end of
the list. Hence a short page ends with no row left to come.

A request's way. The properties speak of its end; `WayKnown` and `AnswersDue`
say for each place on it what is already known there: which places have written
nothing, that an exception is under way exactly where one was raised, and that
the answer the middlewares pass on is the one its exception is due (`Due`), the trace id added
by the outermost of them (`Sent`). With that every action is a step
from what its place knows to what the next one must know. The table of statuses is expanded
only where a 401 is at stake.

Only model-checked: the four liveness properties (`EveryToggleEnds`, `EveryReadEnds`,
`EveryRequestEnds`, `EveryRequestAnswered`), which rest on fairness and
`ENABLED`, out of the prover's reach. Every safety property and every refinement that a passing run
checks is proved. `DetailInv`, `JobInv` and the `IInv` of `Bookmarks` are in no `.cfg`: the runs
check the properties they are there for.

## 6. Not modelled

* `require_admin`: its only user, `GET /v1/posts/admin`, is declared after
  `GET /v1/posts/{post_id}`, which answers every request for it with 422. (It
  would compare the role with `"admin"`, where the enum holds `"ADMIN"`.)
* A commit whose acknowledgement is lost: `Fail` is before the commit, `AnswerTellsCommit` says
  nothing of it.
* Liveness of the view sync job: with the reads fair too, the graph is too
  large; that a run of it ends is a loop over the keys of a SCAN.
* What ILIKE and the other filters of the lists select; the comments of a detail, read as in `Pages`.
* CORS, unknown paths, and a body that is not JSON, which FastAPI refuses
  before the dependencies; `Api` has the refusals after them.
* Wording, codes and details of errors, formats and files of the loggers.
* Migrations as steps: `upgrade` runs before the server starts. What it makes of `users` is the
  first schema of `Registration`; of the other tables it creates the columns and unique
  constraints the models declare. `post_histories` has no code that writes it.
* Schemas (declarations; what they refuse is `Validate`), start-up, settings and the Redis pool
  (wiring; the settings that matter are chosen at the start of the models).

## 7. Plan

1. `Comments`: what can be said of a comment written under a post deleted meanwhile.
2. One form for the lemmas several proof modules repeat (one open writer of a row).
3. An abstract counter of views that `ViewCounter` implements up to `disturbed`.

# Formal model of heres-whats-happening

TLA+ modules for the parts of this repository whose correctness depends on the
order in which things happen: queue consumption, event ingest, enrichment,
poster generation, rate limiting, account links, sessions, interests and
matching, and what a reader sees of it all. TLC checks each on a small instance;
TLAPS proves the invariants of eight of them for every value of the constants.
`src/` below is the repository root.

## 1. The system

Scrapers send events to an SQS queue; a Lambda enriches them (artist, image,
bio, tour) and sends them on to a second queue; the API's ingest workers write
them to Postgres. Interests (from Spotify or by hand) arrive through a third
queue. A daily job embeds events and users and stores matches. A Go HTTP API
serves accounts, the calendar, and posters, which another entry point of the
Lambda draws and stores in S3. A single-page web client uses the API.

| Component | State it keeps | Operations | Talks to | What is hard | What makes it correct |
|---|---|---|---|---|---|
| Queue consumer, `internal/ingest/consumer.go` | batches in the hands of the workers; the queue's visibility and receive counts | receive, handle, delete | SQS, a handler | redelivery against a deadline, crash with a batch in hand, delete that fails | a handler begun in time owns its message; every message ends; deleted only when applied |
| Event ingest, `internal/ingest/events.go`, `enrichment.go` | rows of events, performers, genres, artists and their sections | apply one message | consumer, Postgres | no transaction; duplicates; old messages after new ones | redelivery repairs; enrichment is not blanked |
| Poster generation, `http/handlers/posters.go`, `internal/poster`, `lambda/.../poster*.ts` | `poster_jobs` rows, goroutines, S3 objects | claim, generate, mark, find, put | Lambda Function URL, S3 | detached goroutine, six deadlines, forced regeneration, lost writes | one generation per job; a ready row can be served; pending settles |
| Rate limiter, `internal/ratelimit/memory.go`, `http/middleware/ratelimit.go` | token buckets in a bounded map | Allow, Record, sweep, evict | every limited route | check and spend are two critical sections; eviction | bounded debt, bounded map, little debt forgiven |
| Account links, `http/handlers/confirm.go`, `password_reset.go`, `auth.go` (Signup), `user.go` | `users.confirmed`, one confirmation and one reset row per user, the mailbox | signup, resend, confirm, reset, delete | Postgres, mail | handlers interleave between queries; part-failure | consumed implies confirmed; a reset works once |
| Sessions, `http/handlers/auth.go`, `internal/auth`, `http/middleware/auth.go`, `confirmed.go` | refresh tokens, the claims of access tokens | signup, login, refresh, logout, delete, revoke | account links, web client | a login beside a reset; claims older than the account | only a login under way outlives a reset; a confirmed user is let in |
| Interests ingest, `internal/ingest/interests.go` | `user_interests` | replace, then embed and match; tags by hand | consumer, TEI | not atomic, slow calls in the middle | a message applied alone wins as a whole |
| Matcher, `internal/matcher` | embeddings, `user_event_match` | daily job, per-user rescore, prune, archive | TEI, Postgres | job and rescore at once, stamps taken after reads | a run that nothing overlaps leaves the matches of the current interests |
| Enrichment Lambda, `lambda/mastra-handler/src` | S3 cache of artist sections | read, run what is stale, write, publish | S3, language models, SQS | read-modify-write without a lock, TTLs by status | a good section gives way only to an overlap; errors heal |
| Spotify, `http/handlers/spotify.go`, `scraper/spotify` | tokens | connect, disconnect, scrape | interests queue | disconnect beside a scrape or a message | a disconnect that nothing overlaps holds |
| Calendar, search, iCal, `http/handlers/calendar.go`, `search.go` | none (reads) | keyset pages, rank fusion | Postgres, TEI | rows change between two requests, or two queries of one | a row that stays is shown once; the best found is listed |
| Going, not interested, manual events | one row each | toggle | Postgres | the client changes its lists first | the client's lists end as the server's |
| Web client, `web/src/api/client.ts`, `web/src/hooks` | access token, refresh in flight, cached lists | fetch, refresh once, optimistic update, refetch | API | many 401s at once; first loads, answers and refetches in any order | a request refreshes at most once for each refusal; quiet lists are the server's |
| Scrapers, support packages, Terraform | none that matters here | I/O | | | |

`PROJECT.json` lists all of these with their status and, under `hazards`, every
place in the code where one of the hard behaviours bites.

## 2. The modules

    AtLeastOnceQueue            what the rest may assume of a drained queue
       ^  refined by
    Consumer                    consumer.go on a clock
       |
    AtLeastOnceQueue  --EXTENDS-->  EventIngest     the events handler over it
    Enrichment                  the Lambda between the scrapers and the ingest queue
    Scorer <- Interests <- Matcher     a user's tastes: rows, then embedding and matches
    Fusion <- Calendar <- Lists        a reader: feed and search, then a tab with lists
    Sessions                    tokens, middleware, and the web client's refresh
    PosterJob                   API goroutine + job row + Lambda + S3
    RateLimiter                 buckets + middleware
    AccountLinks                confirmation and reset links
    ConsumerProofs, PosterJobProofs, RateLimiterProofs, SessionsProofs,
    AccountLinksProofs, EventIngestProofs, MatcherProofs, ListsProofs    theorems
    MC*.tla, *.cfg              instances for TLC

**AtLeastOnceQueue** is the abstract specification of a queue: a message is
unsent, queued, deleted or dead; a worker may begin any message that was ever
sent; a message is deleted only after `Handle` returned nil for it.

**Consumer** models `workerLoop` and `handleOne` action by action. `Receive`
takes up to `BatchSize` messages in any order and starts the visibility clock
of all of them; `Start` is `context.WithTimeout`; `HandleOk`/`HandleErr` are
the two outcomes of `Handle`; `Delete`/`DeleteErr` run on what is left of the
same deadline, since `handleOne` shadows `ctx`. The queue is external: `Redrive`
and the behaviour of a receipt of an earlier delivery (it may or may not delete)
follow SQS's contract. `Tick` cannot pass a deadline, so a step that has run
out of time happens before time goes on. `ReceiveLost` and `Crash` are the
environment's failures. A delivery carries its receipt and its `place` in the reply it came
with; `Behind` says that the messages in front of it may take so long that its
own handler can end after it is visible again. `late`, `failed` and `expired` are
history: a handler that began with less hiding time than budget, and the
deliveries lost to a failure or to the visibility timeout behind batch mates.

**EventIngest** has one action per SQL statement of `handleMessage` and
`applyEnrichment` about one event and its headline artist. `pc` is the statement
that comes next, `todo` what is left of a loop. A column holds the message that
wrote it. `Abandon` is a failed statement, a failed delete or a stopped task.
`Duplicates = TRUE` admits everything `Consumer` does when a batch does not fit
in the visibility timeout. Only the order of a list and the statuses of
sections are kept of a message; genres are taken after `NormalizeGenre`.

**PosterJob** is one user's jobs. A *run* is one won claim: handler, goroutine
(`phase`) and Lambda invocation (`lambda`). `left` is what is left of the
deadline of the phase: 5 s for the claim and for the status write, the
credentials' own time, `http.Client.Timeout` or the rest of the generation
budget for the call. A name is a pair of its letters and its marks, because
`JobID` keeps the marks and `posterKeyBase` drops them. Text, credit and image
content are abstracted to the run that produced them. Deletion of the user
cascades to the rows.

**RateLimiter** is one limiter. A token is `Window` units and a tick refills
`Burst` units, so that levels are whole. `Touch` is `bucketLocked` with the
spending: sweep, eviction, lookup, creation, `lastSeen`. `Allow`/`Deny` and
`Record` are separate actions; `OnSuccess` adds the request that was let
through and spends nothing. `allowed` counts a key's requests between the two;
`MaxRequests` bounds their sum over the keys, which the code does not, so that
the properties say what they are worth in it. `MaxIdle` and `Window` bound the two timers, whose
larger values no condition tells apart. `time.Now` is read just before the lock
in the code and at the action here: two calls that wait for the lock may apply
their readings in the other order, by the time of the wait.

**AccountLinks** has one action per query of signup, resend, confirmation,
reset request, reset and deletion for one mail address. An account made again
under the address is another user. `confirms`/`resets` are the tables (one row
per user), `Reset` is the one statement it is in the code, and `expired` is set
by `Expire`. `owner`, `followed`, `spent` are history.

**Sessions** models the handlers of `auth.go` over `users` and `refresh_tokens`
and one tab. A login is three steps (`LoginVerify`, `LoginStore`, `LoginReply`)
because a reset, a confirmation or a deletion may come between; the claim in the
access token is the one its first query read. Access tokens are numbers in the
order of signing, so `stale` alone says which have expired. `Answer` is the
middleware of the three route groups of `server.go`. On the client, `flight` is
`refreshInFlight`, and a request is one `apiFetch` with its retry after a 401
and its other retry after a 403; `tries` is history, the refusals it has awaited
a refresh for. The reset link itself is in AccountLinks.

**Interests** is one user's rows, edited by hand, replaced by messages one
statement at a time (`plan` is what is left of `replaceInterests`), and emptied
by a disconnect. `newer` are the rows with `updated_at` after the embedding's:
all that the selection for embedding looks at. A `scrape` goes through load,
refresh and fetch, and the refresh stores its tokens by an upsert. Deliveries
are those of AtLeastOnceQueue with the status left out. **Scorer** holds the
weights, the folding of the artist kinds, the text and the score, in thousandths.
**Matcher** adds three kinds of run, by a worker, the nightly job and a rescore:
`embedUsers` in two steps with the slow call between, `MatchStep.Run` as load
user, load events and stamp, upserts, prune, prune of what is over. An embedding
is the text it was made from. `alone`, `missed` and `clean` are history: who has
run without another's write, whether the embedding went stale in a way the
selection cannot see, whether a disconnect found nothing under way.

**Enrichment** is one artist's S3 object and up to two invocations
(`maximum_concurrency`). A record is a status and an age in days. An invocation
reads (or cannot, and goes on with nothing), works, writes the whole object over
whatever is there, and emits; each step can fail, `InvocationFails` at any point,
after which the message comes back. `Tick` is a day, and no invocation lasts one.
`blind` and `overtaken` are history: the read failed; what others have written
since the read.

**Fusion** is `fuseRRF` with scores as fractions. **Calendar** is one feed read
page by page with `(starts_at, id)` cursors, and one search, over rows that
ingest, the matcher, the archiver and time change between two statements. Time is
in half days, so that an even instant is a midnight. `steady` and `later` are
history: rows that have stayed as they were since the first page, and rows moved
to a later start. **Lists** adds the handlers of the going and not-interested
lists and one tab: `cache` and `fetch` are the query client's entry and its
request under way for each key, `loaded` the keys that have data. `OpenPage` starts
the four first loads, each of which is read, lands or fails by itself, and clicks
need not wait for them. `call` is a mutation, whose `onMutate`, outcome and
`onSettled` are `Click`, `Serve`/`ServeFails`/`ConnectionLost` and `Settle`. What
`Settle` invalidates is asked for again, except that a first load under way is
joined, since the query client restarts only a query that has data; `joined` is
history, the keys whose first load the server had read by then. A request whose
connection broke may still be applied (`late`, `ServeLate`).

## 3. What the runs check

| Run | Instance | States | What it shows |
|---|---|---|---|
| `consumer` | 2 messages, 2 workers, batch 2, handle 2 < visibility 3 < two handlers, 3 receives, 1 fault | 182,752 | `TimelyHandlerOwns`, `ExclusiveHandling`, `DeadMeansLost`, `EveryMessageEnds`; refinement of `AtLeastOnceQueue` |
| `consumer_batch` | the same, no fault | violation | the comment on `defaultHandleTimeout` against a batch (see 6) |
| `ingest` | 4 messages, 2 workers, duplicates, 2 deliveries each and 3 in all, 1 fault | 949,510 | `LoneHandlerRepairs`, `EnrichmentKept` |
| `ingest_hides` | a good image, then an error, 1 worker, no fault | violation | an error hides what was kept |
| `poster` | 1 show, 2 runs, 2 faults, cutoff 5 | 90,314 | `OneRunPerJob`, `ReadyIsServable`, `SidecarMeansPng`, `DeletedStaysGone`, `PendingSettles` |
| `poster_diacritic` | 2 shows that differ in a mark, no fault | violation | two jobs, one object |
| `limiter` | 5 keys (symmetric), 3 requests, burst 1, window 2, sweep at 2, cap 4 | 224,755 | `DebtBounded`, `MapBounded`, `SweptOwesLittle`, `SweepForgivesLittle`, `RetryAfterRepays` |
| `links` | 2 users of one address, 3 links, 2 requests, 1 fault | 133,722 | `ConsumedMeansConfirmed`, `WelcomeMeansConfirmed`, `OwnLinkConfirms`, `ResetExactlyOnce` |
| `sessions` | 1 login at a time, 1 refresh token, 2 requests (symmetric), 2 access tokens, 1 reset | 2,161,715 | `OnlyLateLoginsOutlive`, `GateHeals`, `RefreshesOnceForEach` |
| `tastes` | 1 message sent twice, 1 worker, job, rescore, 1 scraper, 2 changes | 774,005 | `LoneReplaceRepairs`, `DisconnectHolds`, `LoneRunMatches`, `EmbeddingCurrent` |
| `enrichment` | 2 events of one artist, 2 sections, 2 invocations, 1 fault | 316,684 | `GoodSurvives`, `ErrorsHeal` |
| `calendar` | 3 events on 2 instants, pages of 1, 2 changes; 2 of 3 results; 2 calls at a time (symmetric), 2 clicks, 1 fault | 840,485 | `SteadyShownOnce`, `SearchListsTheBest`, `QuietListsAgree` |

The runs `consumer`, `ingest`, `poster`, `limiter`, `links`, `sessions` and
`tastes` also check the type invariant of their module, `TypeOK`.

**Why the bounds are enough.** Two workers and two messages give every
interleaving of a duplicate delivery. One handler fits in the visibility timeout
and two do not, as in the code, so that the second message of a batch is the one
behind; a handler may use up its deadline any number of times, and with three
receives a message dies of failures, of waiting behind the other, or of both, in
particular one whose own handler never failed. In `ingest`, three deliveries are a
first one that stops anywhere, a second beside it and a third that repairs; the
four messages are a rich one, a bare one, one with a failed section and one
that does not decode. Two poster runs are a claim and its rival or successor.
In `limiter` five keys exceed the cap of four, and the cap of four is the
smallest at which a quarter is a bucket. Three requests let through on one token
each leave a debt of two, which exceeds the burst and which two windows do not
refill: buckets in debt are swept, and a capped Retry-After comes too soon. Three links are a first, its
replacement and one of the other kind or of the next account.
In `sessions` two requests are enough for one to join the other's refresh. A
visitor is new or comes back with a cookie and no access token, so that two
access tokens are a stale one and its replacement, or one from a refresh after a
401 and one from the refresh after the 403 that follows; a second login would
only repeat the first. In `tastes` the worker, the
job and the rescore are three runs that overlap, one redelivery is a repair, and
two changes are an edit or a disconnect and a failure, or a start of the job and
one of them; the event's artist and its genre reach the score by different ways,
and the tag has the name of the scraped genre, so that a row of one kind hides
behind the other. In `enrichment` the event with a picture of its own runs a
subset of the sections, which is what makes its write carry the others; the days
of the TTLs keep their order (error, then tour and none, then ok). In `calendar` a page of one
row puts a boundary between any two rows, two of three events may share an
instant, and three ids are the smallest number of which two results leave one
out. The reader's clock starts in the middle of a day; one tick ends that day and
the events under way, and another would change no condition. The tab's two clicks are one and its opposite, or two on different lists, one
after the other or at once.

**What the bounds leave out.** `MaxFaults`, `MaxReceive` (a constant of the
real queue), `MaxDeliveries`, `Runs`, `Tokens`, `MaxSubmits`, `MaxMints`, `MaxResets`,
`MaxChanges`, `MaxClicks` and `Horizon` are bounds of the runs. The proofs hold for every value of those of their module.

**Fairness.** `Consumer!FairSpec`: a worker polls and starts what it holds
(`workerLoop` never waits for anything else), a handler ends at the latest when
its deadline expires (weak fairness of `HandleErr` with the deadline hit, not of
success), the attempt to delete ends, SQS redrives, and time passes.
`PosterJob!FairSpec`: a goroutine and an invocation run until they end, each
step having a deadline; time passes; and a client whose job is stale posts
again, which is what the comment on `stalePendingAfter` relies on. Nothing
assumes that a call or a write succeeds. `EveryMessageEnds` and `PendingSettles`
need this fairness; so does `ErrorsHeal` that of `Enrichment!Fairness`: days
pass, each day's scrape publishes each event (`ecs_schedules.tf`), a message on
the queue is received, and an invocation goes on (each of its steps ends within
the Lambda's 300 s). It does not assume that a provider answers: `Heal` is no
fair action, and `ErrorsHeal` speaks of behaviours in which it happens. Faults of
S3 and SQS end with `MaxFaults`. The other properties need no fairness.
`PendingSettles` lets go when every run of the instance has been used up.

**Deadlock.** `consumer`, `consumer_batch`, `ingest`, `ingest_hides`, `poster`,
`poster_diacritic`, `links`, `sessions`, `tastes` and `calendar` switch the
deadlock check off, because those instances really stop: all messages have ended,
all runs, links or tokens are used up, all clicks are made. `limiter` and
`enrichment` never stop and are checked.

Every property has a mutant in `PROJECT.json`: a change of one definition that
a plausible bug would make (the comment `mutant:` above the alternative says
which), under which TLC finds the property violated.

## 4. What is proved

All proofs are checked by tlapm with Z3, Zenon and LS4. They use the named
assumptions of the modules (`ConsumerAssumption`, `PosterAssumption`,
`LimiterAssumption`, `SessionsAssumption`, `LinksAssumption`, `IngestAssumption`,
`InterestsAssumption`, `MatcherAssumption`, `CalendarAssumption`) and the conditions named below, and no
bound of the runs. The named assumptions are types of the constants and what keeps
things of different sorts apart: a null is no row, token or message; there are
finitely many events and a page has room for one; a worker is
not the job; `KnownGenres` are genres; a payload has one list for each scraped
kind; a threshold is one the settings page offers.

**ConsumerProofs.**

* `ConsumerType`: `Spec => []TypeOK`.
* `WorkerOwnsItsMessage` (`TimelyHandlerOwns`), `HandlingIsExclusive`
  (`ExclusiveHandling`) and `DeadLettersLost` (`DeadMeansLost`), with no condition
  on the batch size or the timeouts. None of the three is inductive. `IInv` adds
  `Own` (a message in hand that is not `Behind` stays hidden under its own receipt
  for at least the budget of the message being handled plus one `HandleTimeout` for
  each message in front of it and itself), `Begun` (a handler that is not `late`
  has its message hidden for at least its budget, and one that is late is behind)
  and `Apart` (no delivery is in two places). `Receive` establishes `Own` by the
  definition of `Behind`; `Tick` keeps it because only one message at a time uses up
  budget, and takes hiding time and budget away together. `Tally`
  then counts for `DeadLettersLost`: each receive of a message that is still queued
  is lost, or is the latest one, hidden and in a worker's hands.
* `ConsumerImplements`: `Spec => ImplementsAtLeastOnce`, with no condition on
  the timeouts. `RInv` strengthens `TypeOK` by `Sent`: what a worker holds was
  sent, and what it is deleting was applied.

**PosterJobProofs.**

* `PosterType`, `NoResurrection` (`DeletedStaysGone`), `SidecarHasPng`,
  `ReadyRowsServable`. The invariant `OInv` follows the reply on its way: what
  an invocation replies and a goroutine is about to write is a run whose key has
  a png.
* `OneGenerationPerJob`: `Spec => []OneRunPerJob`, assuming `FitsStale`: twice
  `DbTimeout` plus the smaller of `GenTimeout` and `CredsTimeout + HttpTimeout`
  is at most `StaleAfter`. `ClaimInv` says that the row of a live run is pending
  and that its age plus the time the run has left is at most `StaleAfter`. With
  the code's 6 min, 5 s and 310 s it asks credentials to take at most 40 s; the
  code bounds them only by the 6 min of the generation, and then the sum is
  6 min 10 s. The default credential chain answers well within 40 s.

**RateLimiterProofs.**

* `LimiterType`, `MapStaysBounded` (an eviction of a quarter of at least four
  buckets makes room for one).
* `DebtStaysBounded`: `Spec => []DebtBounded`. `DebtBounded` is not inductive: a
  `Record` on an empty bucket lowers it, and only its earlier `Allow` says how
  far. The invariant `Floored` says that the level of a key is at least
  one token, less a token for each request that is not waiting to record for it.
  `Allow` establishes it afresh from the token it found; `Record` takes a token
  and leaves the set of the waiting.
* `SweptOwes` (`SweptOwesLittle`) and `SweepForgives` (`SweepForgivesLittle`), for any
  number of requests. The invariant `Rested` says what an idle bucket has
  gained: it is full, or above the largest debt by `Burst` for each idle tick. What
  the debt exceeds the refill of two windows by is all that a sweep forgives, and it
  is nothing while `Window * (MaxRequests - 1) <= Burst * (Window + 1)`.
* `RetryAfterPays` (`RetryAfterRepays`): each wait of the length Allow asks for pays a
  whole burst of tokens or lets the client through, so that at most
  `MaxRequests / Burst` waits, rounded up, are needed. `CeilCovers` is about rounding.

**SessionsProofs.**

* `SessionsType`.
* `RefreshingEnds` (`RefreshesOnceForEach`): a request awaits at most one refresh for a
  401 and then at most one for a 403. `Tried` says what it has awaited at each point
  of its way through `apiFetch`, as the flags `again` and `heal` record it.
* `ResetEndsSessions` (`OnlyLateLoginsOutlive`), likewise inductive: every step
  but a login's insert only ends sessions, the password changes only in the step
  that ends them all, and the insert is where a login with an older one is `late`.
* `RefusalHeals` (`GateHeals`). `Heal` follows one request that began after the
  confirmation through its refresh and retry: while it waits for a refresh of its
  own, what that refresh got is a confirmed claim; the retry is sent with such a
  token; so its answer is not a 403. That a refresh reads the account afresh is
  what makes its claim good, and a refresh joined in flight is the gap.

**AccountLinksProofs.** `LinksType`, `ConfirmBeforeConsume`
(`ConsumedMeansConfirmed`), `WelcomeIsTrue`, `OnlyOwnLinkConfirms`
(`OwnLinkConfirms`) and `ResetOnce` (`ResetExactlyOnce`), from one invariant,
`LinksInv`. It adds to those properties that a row's token was minted for the user
of the row (`Owned`), that a handler between its two statements followed a good link
of the user it is about to mark (`MarksFollowed`), that a user to be welcomed is
confirmed or deleted (`ConfirmedOrGone`), and that only minted tokens have been mailed
or spent. Without `Owned` an upsert could give a user the link of another.

**EventIngestProofs.**

* `IngestType`, and `NothingEnrichedIsBlanked` (`EnrichmentKept`), an action
  property proved a statement at a time.
* `LoneHandlerLeavesTheWhole` (`LoneHandlerRepairs`). `Progress` says what the rows
  hold of the message at each statement of a handler that nothing has run beside:
  the event's row is its own once written; of performers and genres exactly the part
  of the list that is no longer in `todo`. `AloneIsAlone` says that no one else holds
  a message then. No condition on earlier deliveries is needed, since each
  list is cleared before it is written. `Whole` is about the
  event's row, its performers and its genres; the link to the artist, the segment and
  the sections are merged by statements of their own, and are `EnrichmentKept`'s.

**MatcherProofs.** Five theorems about `Matcher` and the `Interests` it extends,
on the common invariant `Typed`: the rows are finitely many records with one
row a kind and name, the plan of a handler is a sequence of statements, and
what a run has read is of the right shape and not later than the clock.

* `MatcherType`. That a score is in 0..1000 needs that the weights of finitely many
  rows have a natural sum. The fold that sums them is defined by a choice, and
  induction theorems cannot be cited, so `TotalIsNat` argues by the least
  counterexample, which `LeastOf` takes from the well-foundedness of `<`.
* `ReplaceRepairs` (`LoneReplaceRepairs`). `Replaced` says what n statements of a
  plan have done: a kind whose DELETE is among them has the rows of the names
  inserted since, a name's last rank winning. `StatementsShape` finds the statements
  of each kind in the concatenation of the four.
* `DisconnectStays` (`DisconnectHolds`). `DisconnectInv` extends the property over
  the gap between the two statements: nothing that could bring rows or tokens back
  is under way.
* `EmbeddingFollows` (`EmbeddingCurrent`). `Stamped`: unless a change was missed,
  either some row is newer than the embedding, so that the next selection takes the
  user, or the embedding is of the rows. `Embedded`: what a lone run has read is the
  current text, and from the write on the embedding is.
* `LoneRunSettles` (`LoneRunMatches`). `Writing`, the invariant of the loop of
  upserts: the candidates no longer in `todo` are matches at the run's stamp, and
  every other match is older than it. That makes the prune by stamp exact.

**ListsProofs.** Three theorems: for the tab, the walk through a feed, and search.

* `ListsConverge` (`QuietListsAgree`). `Agrees` says who will put a list right: one
  that is held and not being fetched is the server's, or some mutation will fetch it
  when it settles, because the server has applied it (`Applied`) or the tab changed
  the list for it (`Early`); an answer that has been read and not yet landed is
  current, or the server has since applied a mutation that will fetch again. A
  mutation that settles and joins the first load is the one step after which
  neither need hold, and there the key is in `joined`. It rests on
  `InvalidatesCover`: what a click cancels and changes early is fetched again
  however it settles.
* `SteadyRowsOnce` (`SteadyShownOnce`), for any page size. `WalkInv`: an event that
  never moved to a later start is shown at most once and, once shown, is not after
  the cursor (`NoRepeat`); a steady one is shown or still after the cursor
  (`Reached`), and is in the feed without a bound, so that later pages need none.
  `PagedAdds` says that one page keeps the two apart, and for that the query has to
  list each selected row once, in order. `Sorted` chooses the list that a strict
  order has; `FirstOf` and `SortExists` show that there is one, again by least
  counterexamples, and `SortedShape` that it lists everything once.
* `SearchesListTheBest` (`SearchListsTheBest`), for any rankings and limits. Two
  facts carry it: comparing scores by cross products and then by `Met` is a strict
  order (`HigherOrder`, `AboveOrders`), and what both legs rank at least as high
  scores more (`PlacesScore`, `OutranksHigher`). `PrefixBest` says that cutting a
  ranking keeps what the property asks, `ResultsBest` that rendering does, as long
  as every id has display data.

Only model-checked: `GoodSurvives` of `Enrichment`, which is not proved yet,
and the three liveness properties `EveryMessageEnds`, `PendingSettles` and
`ErrorsHeal` (liveness under fairness is out of the prover's reach).

## 5. What is abstracted and what is not modelled

Contents of rows and messages are the message or run they came from; text
formats, SQL text search, cryptography, language-model workflows, HTTP framing,
logging and metrics are left out. A failing statement is one that has no effect;
a write that took effect though its caller saw an error is modelled where the
code can meet it (`ClaimLost`, `DeleteErr` on an expired receipt, a Lambda that
goes on after its caller gave up).

**Sessions.** Passwords are the number of resets before them; hashing and
signatures hold. One account, one tab. `GateHeals` lets a refusal stand when the
refresh failed or was joined; `OnlyLateLoginsOutlive` lets a login stand that had
checked the old password before the reset.

**Interests, Matcher.** One user. `loadUsers`' two queries are one step, as no
statement in between could matter but one to the same rows. The genre cache is
whether genres were found; a value that a list names twice keeps its last rank, as
the upserts leave it; the match configuration is fixed, TEI is configured, a user has one rescore at a time. Weights and scores
are rounded to thousandths, and two texts that share a value have cosine 1.

**Enrichment.** Payloads and the identity of the artist are left out, as are
skipped segments and events without performers, which only pass through. A
workflow is one step with one of the three statuses. A message that is published
again before its last copy was handled replaces it.

**Calendar, Lists.** The ranking of a search leg is any ranking of any events.
The venue filter is one more condition like the segment, and is left out. One
thing is exercised at a time: a feed among changing rows, a search, or the tab
over rows that stand still. An event without an end runs for half a day, one with
an end likewise. Every key of the tab is taken to be on the page, so that
invalidating it fetches it. `QuietListsAgree` allows three gaps, which nothing
fetches again for: a fetch that failed, a request applied after the tab gave it up
(`outrun`), and a first load that a successful click joined (`joined`). A list
without data is not counted as wrong.

**Not modelled.** The iCal feed and its token, the event page, events added by
hand, settings and the list of interests are one statement each on one user's
rows, with nothing between two of them to go wrong. Scrapers keep no state
between runs; the Ticketmaster adapter pages by offset over a live result set, so
that a run may skip an event, and the next day's run finds it before the seven
days after which it would be archived. Configuration, migrations, mail, secrets,
metrics and Terraform are I/O and declarations: their numbers are the models'
constants, their failures the models' faults. The email path of the Lambda keeps
no state, and its ids are hashes that make a second delivery an upsert.

## 6. Disagreements between code and comments

1. `consumer.go:27-34` sizes the 25 s handler budget under the 30 s visibility
   timeout so that a running handler owns its message and the delete has
   headroom. Ten messages are received at once and handled in turn, so a later
   one may be handled after it became visible to others; and the budget covers
   the delete. Run `consumer_batch`. What remains true is `TimelyHandlerOwns`.
   The same has an effect on the dead letter queue (30 s in `sqs.tf:28` and
   `enrichment.tf:11`, three receives): each delivery that ends while its message
   waits behind slow batch mates counts as a receive, so that a message can be
   dead-lettered although its handler never failed. `DeadMeansLost` counts such
   deliveries as lost (`expired`), and states of the run `consumer` reach it
   without an injected fault: the messages in front used up their deadlines. The
   dead letter alarm asks to check the consumer's logs (`sqs.tf:49`), which
   hold no error of such a message.
2. `artists.sql:26-30,47-48,63-65` guard the payload of a section against a
   transient error, but let the status become `error`, and `buildArtist` shows a
   section only when its status is `ok`. Run `ingest_hides`.
3. `poster-sink.ts:76-77` calls the object key injective; `normalize` drops
   diacritics, which `JobID` keeps. Run `poster_diacritic`.

Smaller ones, not run: `posters.go:23-25` says the owner of a six minutes old
pending row is gone, while six minutes is also the generation budget (hence the
condition `FitsStale`). A forced run that dies between png and sidecar leaves a
new image beside the old credit. `memory.go:138-140` calls a bucket idle for
two windows necessarily full. With enough requests under way at once the debt
exceeds what two windows refill, nothing bounds their number, and a sweep then
forgives the rest; `SweptOwesLittle` and `SweepForgivesLittle` say how much.
Likewise Retry-After, "as the missing fraction of a token accrues" but capped at
one window (`memory.go:102-113`), is too soon for a debt above the burst: the
client is refused again, and `RetryAfterRepays` says how often at most. A first load
of a list that a click joins lands the list of before the click
(`useMarkGoing.ts:22-27`, whose comment leaves the whole events to the server);
the next click, or a visit after `staleTime`, mends it.
`confirm.go:123-124` says a replay after a failed consume is idempotent; after
the link's expiry it is refused instead.

Found while modelling the later parts, and stated by the gaps their properties
allow:

* The comment on `ResetPassword` has a reset sign the user out everywhere. A
  login that had checked the old password before the reset and stores its session
  after it stays (`late`).
* `client.ts:66-73` collapses the refreshes of 401s that arrive together. A 401 that
  arrives after the refresh has settled starts another, so that several requests may
  cost several refreshes; each costs at most one for each of its refusals.
* `client.ts` says that a refresh always resolves a 403 of `RequireConfirmed`.
  One that joins a refresh under way may get a claim read before the account was
  confirmed (`heal = "joined"`); the next request heals.
* `manual_interests.go` calls the nightly batch the backstop of a lost message.
  After a deletion nothing is newer than the embedding, so the batch does not
  select the user; nor does it after an edit during an embedder call, since the
  stamp is the time of the write (`missed`). A user left without any text keeps
  the embedding there was. An event's embedding is likewise made once: a changed
  title does not clear it.
* A disconnect publishes no message, so embedding and matches stay until another
  run for the user; a scrape that reads the tokens between its two statements, or
  a message still on the queue, brings rows back, and a refresh of the scrape's
  tokens stores them again (`clean`).
* A match run takes its stamp after its reads: of two that overlap, the one that
  read earlier may prune what the other wrote, until the next run.
* The web client asks for events after the local midnight, and the bound is
  strict. Date-only events are stored at local midnight, so today's never appear
  in the paged calendar, nor do shows that began before midnight and still run;
  the comment of migration 0021 and
  `docs/superpowers/specs/2026-07-30-calendar-cursor-pagination-design.md:59-61`
  want both kept visible. `InFeed` has the code's bound.
* `search.go` says that a row renders alike from either query; not if ingest
  changes it between the two. And fusion gives a place in both lists more than
  the first place in one (2/110 > 1/61), so that with ten events in both lists the
  best lexical hit may be left out; `SearchListsTheBest` asks only for what rank
  fusion promises.
* `enrichment.ts` resolves one artist for the three workflows of an event. A
  section kept from an earlier day may belong to the artist that was the best
  match then, beside a newly picked one. The identity is not in the model.
* `enrichment.ts` writes once so that its workflows do not overwrite one another.
  Two invocations for one artist still do; if they overlap every day, one record
  can be lost every day, which is why `ErrorsHeal` promises good records again
  and again and not for ever.

## 7. Plan

Done: all components whose steps interact, in twelve runs. Left, in this order:

1. **Theorems**: `GoodSurvives` of `Enrichment`, from the invariant that what an
   invocation holds of a section it does not run is the object's own record unless
   it was overtaken.
2. `Matcher` over `AtLeastOnceQueue` by a refinement mapping, as `Consumer` has.
3. Two users of one artist and one matcher batch, should a defect suggest it.

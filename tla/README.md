# DonWorry backend: TLA+ specifications

DonWorry is an Express 5 application over Prisma and MySQL (InnoDB, REPEATABLE
READ) with Kakao as identity provider and an SMTP server for codes. It keeps no
state in memory between requests. Everything that can go wrong between requests
therefore goes wrong in the database, between two statements of a handler, or
at Kakao. The specifications describe the handlers at that grain: **a step is
what one request does between two awaits that reach the database, Kakao or the
mail server**, and a single statement, or a transaction whose effects InnoDB's
locks make indivisible, is one step.

Services without a path below are under `src/features/`.

## 1. Inventory

| Part | Code | State | Operations | Talks to |
|---|---|---|---|---|
| Account withdrawal | `users.withdrawal.service.js`, `scripts/reconcile-withdrawals.js` | `users`, `withdrawal_attempts`, `withdrawal_audits`, `KAKAO_WITHDRAWAL` tokens | start re-authentication, delete account, recover attempts | Kakao client, every writer of `users` |
| Kakao client | `auth/kakao.client.js` | none (state is at Kakao) | exchange code, read identity, unlink | Kakao |
| Sessions | `auth.service.js` login, kakaoLogin, refresh, logout | `REFRESH` tokens, `token_family_id` | login, rotate, detect reuse, log out | reset, password change, withdrawal |
| Code confirmation | `auth.service.js`, `users.service.js` changeEmail | `failed_attempt_count`, `blocked_until`, `used_at` of a code row | confirm e-mail, reset password, change e-mail | code issue, sessions |
| Code issue | `auth.service.js` 298-620, `users.service.js` 291-420 | code rows, `auth_request_logs` | request a code of each kind | mail |
| Sign-up and availability checks | `auth.service.js` | `users` | sign up, look up login id, nickname, e-mail | code confirmation |
| Kakao login and linking | `auth.service.js` 1163-1467 | link-session tokens, `users.kakao_user_id` | start, read, finish a link; prove it by password or e-mail | Kakao client, code confirmation |
| Notification settings | `users.service.js` 586-670 | four flags of `users` | partial update | - |
| Monthly budget | `users.service.js` 672-836 | `monthly_budgets`, `category_budgets`, `hourly_wage` | read, partial update | records |
| Profile, password, saving goal | `users.service.js` | columns of `users` | update | sessions, withdrawal |
| Wishlist items | `wishlist-items.service.js` | `wishlist_items` | create, update, delete, list | notifications, decisions |
| Temptation decisions | `temptations.service.js` | `temptation_decisions` | BUY, SKIP, DELAY | items, records, notifications |
| Notifications | `notifications.service.js` | `notifications` | list, mark one, mark all, delete | items, decisions |
| Consumption records | `consumption-records.service.js` | `consumption_records` | create, update, delete, list, ratio | decisions, budget |
| Interventions | `interventions.service.js` | none | risk score of a planned purchase | budget, records |
| Home summary, cheer message | `home.service.js`, `utils/achievement-rate.js` | none | four queries at once, then aggregates | budget, records, saving goal |
| Monthly report | `reports.service.js` | none | aggregates | records, saving goal |
| Onboarding | `onboarding.service.js` | columns of `users` | read, complete | saving goal |
| Product URL import | `product-url.service.js` | none but sockets and timers | fetch a page over redirects, ask the scraping service, find a product | DNS, shops, ScrapingBee |
| Mail | `auth.mailer.js` | none | send | SMTP |
| HTTP layer, API description | `middlewares`, `*.routes.js`, `*.dto.js`, `swagger/openapi.js` | none | validate, authenticate, map errors | all |

What makes the parts correct, and what makes that hard:

* **Withdrawal** changes two systems that share no transaction. A withdrawal
  severs the link at Kakao and then deletes the account; a crash, a lost
  answer or a password change may come between any two of its seven steps, and
  the recovery command may run beside the request whose row it recovers, or
  beside another copy of itself. It is right when the row it would be finished
  from is never lost, the status in the row is never ahead of Kakao, a deletion
  always rests on the credential the account has at that moment, and what was
  begun is eventually finished.
* **Sessions** are right when a family of tokens has one usable token, stays
  dead once revoked, and dies with its account, although each handler reads in
  one statement and writes in a later transaction.
* **Code confirmation** counts failures with four separate statements
  (look, clear an old lock, increment, read again and lock). Parallel guesses
  must not get more tries than configured, must not lift each other's lock,
  and the right code must work once.
* **Code issue** has three different implementations of one rule (a cooldown and
  a limit per window): bare statements, a serializable transaction, and a row
  lock. It sends mail in the middle and cleans up afterwards.
* **Settings** and **budget** are partial updates that read, merge and write: a
  lost update is the hazard, and each has its own cure (compare-and-swap with
  one retry; serializable transaction with three tries).
* **Items, decisions, notifications** share one deadline per item which exists
  twice, in the item and in its reminder, and is written by three handlers while
  time passes.
* **Records** keep the hours of work that their price stood for. The wage is read
  without a lock, by a transaction that writes the hours later, and the answers
  to the questions are replaced by a delete and an insert. A record is right when
  its hours belong to its own price and its answers to one request.
* **Saving goal, home, cheer message, budget, report, ratio** show one user
  figures about the same records, and each computes the month of Seoul, filters
  and rounds in code of its own. They are right when the figures agree, add up,
  and never divide by nothing. The home summary takes its figures from several
  reads with no transaction around them.
* **Product import** follows a shop it does not know through redirects, over
  several addresses, under a timer per hop, with a dispatcher that must be closed
  whichever way the hop ends, and closing waits for a body that nobody reads. It
  is right when every call is answered and leaves nothing open, and when the
  product it reports is the one the page names first.
* **Interventions** are calculations over rows that are only read.

`PROJECT.json` lists the hazards one by one, each at its line, with the
properties that would catch it.

## 2. Plan

In order of importance. Steps 1 to 11 are done.

1. `Withdrawal`, and its proofs.
2. `Sessions`, and its proofs.
3. `Wishlist`: items, decisions and notifications in one module, because the
   three handlers meet in the same two rows.
4. `AtomicPatch`, the abstract specification of a partial update, and its two
   implementations `NotificationSettings` and `Budget`, with refinement proofs.
5. `CodeConfirm`, and its proofs.
6. `CodeIssue`, and its proofs.
7. `KakaoLink`, and its proofs: link sessions, the proof of an account by
   password and by mailed code, and the link itself.
8. `Records` and, over it, `Insights`: the records and their writers, and the views
   of them as operators over the state, with the home summary as a sequence of
   actions; `RecordsProofs`, with the fact that `Insights` runs over `Records`.
9. `StructuredData` and, over it, `ProductUrl`: the search of a page, and the
   protocol around it.
10. `WishlistProofs`, for the items, reminders and decisions.
11. Proofs of the views (`Insights`) and of the import (`StructuredData`,
    `ProductUrl`): every invariant and every action property that a run finds to
    hold is now a theorem.

Left: a module for sign-up with its verification token, if the code comes to use
the token up; notifications over several items (mark-all).

## 3. Modules

| Module | What it is | Proofs |
|---|---|---|
| `Withdrawal` | withdrawal protocol, recovery command, Kakao | `WithdrawalProofs` |
| `Sessions` | refresh-token families | `SessionsProofs` |
| `Wishlist` | items, decisions, records made by them, notifications | `WishlistProofs` |
| `AtomicPatch` | abstract: a value changed by atomic partial updates | - |
| `NotificationSettings` | compare-and-swap loop; implements `AtomicPatch` | `NotificationSettingsProofs` |
| `Budget` | serializable upsert with retries; implements `AtomicPatch` | `BudgetProofs` |
| `CodeConfirm` | failed-attempt counter, lock and acceptance of one code | `CodeProofs` |
| `CodeIssue` | cooldown, limit, delivery and clean-up for one mailbox | `CodeProofs` |
| `KakaoLink` | Kakao login, link sessions, their proofs, the link | `KakaoLinkProofs` |
| `Records` | consumption records: their writers, the wage, the answers | `RecordsProofs` |
| `Insights` | extends `Records`: goal, budget and clock; every view of the records | `RecordsProofs` |
| `StructuredData` | the search of a page for a product, turn by turn | `WishlistProofs` |
| `ProductUrl` | extends `StructuredData`: the import of a product from its URL | `WishlistProofs` |
| `MC*` | the instances for TLC (small sets, symmetry, bodies) | - |

An operator that is commented `mutant:`, or introduced as a variant of the one below
it ("As ..., but ..."), is that definition with a plausible bug. No action uses it;
it is there to show that a property can fail.

### Withdrawal

One `Requests` element is one `DELETE /users/me`. Its program counter `pc` walks
`begin` (find the user), `checkAttempt`, then either `deleteLocal`
(`deleteLocalUser`) or `consumeState`, `readIdentity`, `createAttempt`,
`recheck`, `unlink`, `mark`, `finalize`, `commit`. One `Reconcilers` element is a
run of `scripts/reconcile-withdrawals.js`; it picks a retriable row and enters
the same shared steps. `attempt[r]` is the row that request `r` inserted.
Passwords are version numbers (bcrypt salts each hash, so a new hash never
equals an old one); the credential fingerprint is the version and the identity
that were read first. `connected` is Kakao's side. An unlink call can take effect and
its answer be lost. `Interrupt` is a crash, an error or a timeout at any step.
`severed`, `audits` and `accepted` are history: for which accounts Kakao said the link
is gone, how many audit rows were written, and which requests had a re-authentication
state accepted. The last is what `ReauthenticationUsedOnce` is about, so that a state
presented again after its first request has come to its end counts like one presented
at the same time.

### Sessions

`row`, `family`, `owner`, `expired` are the columns of a `REFRESH` token. A `call`
holds what a handler has read. `Authenticate`/`IssueSession` are the two halves of
login, `ReadRefreshToken` with `RotateToken` or `RevokeFamily` those of a refresh, and
logout likewise; reset, password change and withdrawal are one step each, in
the middle of which nothing else can come (one transaction). Tokens issued before
families existed have no family. `proof`, `lastReset` and `revoked` are history.
`OnlyLateLoginsOutliveReset` says which sessions a reset may leave alive: those of a
login that had compared the old password before the reset and inserts its token
after it. No others, whatever rotations are under way.

### Wishlist

`waitUntil[i]` is the deadline in the item and `notes` are the rows of
`notifications`: the item's immediate "added" message and its reminder, told apart
by their time. A `call` carries the deadline its handler computed from the time at
which it started. An update, a decision and a deletion then write in one transaction
each. Which reminders are still ahead is decided by a time that the handler reads
before it sends the statement, so each of the three takes any `now` between its
start and its write. For the update `now` is no earlier than `written[i]`, the time
of the last transaction on the item: line 192 of `wishlist-items.service.js` runs
once the item's row is locked. A reminder can therefore fall due, and be listed,
between that line and the UPDATE, and be moved back; `DueStaysDue` says that this is
the only way, and that it needs an update that began before the reminder fell due.
`excused` records items whose next reminder the user deleted (not some other
notification), or whose wait an update restarted after the reminder had fired (the
code makes no new reminder then). `Latency` is smaller than the shortest wait: waits
are hours, requests seconds. Prices are known or unknown, no more.

### AtomicPatch, NotificationSettings, Budget

`AtomicPatch` says what a client may rely on: a request is open, then done, and
at one instant in between its body was merged into the value as it was then, or it
was refused and had no effect. `NotificationSettings` reads, merges and compares
and swaps by value, twice at most; `Budget` reads the category list under a shared
lock and upserts, three times at most, when the database makes it the victim of a
deadlock. Each module instantiates `AtomicPatch` with a refinement mapping
(`value` is the row, a request in its loop is "open").

### CodeConfirm and CodeIssue

`CodeConfirm` is about one code row and any number of requests that guess at it:
`read`, `consume` (the right code), `clear` (an expired lock), `count` (increment
under a guard), `reread`, `lock`. `kind` chooses the one of the four handlers that
is modelled; they differ in what they ask again when they accept. `CodeIssue` is
about one mailbox and any number of requests for a code: check, insert, send, retire
the older rows or delete the undelivered one. One row and one mailbox are enough
because all statements are keyed by them; the rows of different mailboxes never meet
in a condition. `spent` is history: the codes a confirmation took or retired. `died`
is history: a call died between two statements. `CooldownKept` asks the cooldown of
every pair of codes of the two kinds that check under a lock or a serializable
transaction; e-mail verification checks with bare statements, and of it the property
allows requests that overlapped, and no others. The log of a password reset is
pruned as of the time its request started, so that two requests disagree about what
is old: `pruned` are the requests whose log row is gone, and `LimitKept` counts
every request that was ever let in, whether its row is still there or not. A request
may take any time: nothing in the code bounds it (the socket timeout of the mailer
is per silence, and the cooldown is any positive number in the environment), so the
clean-up of one, which retires every other code (`OtherCodes`: `id: { not: ... }`),
may come after a newer code was issued. `rivals` are the requests with older rows
that were running when a row was inserted, and `OnlyRivalsRetire` says that they
alone can do that: of a password reset one of the two must have been running for a
cooldown, of an e-mail change it cannot happen. `OlderCodesAreDead` is the promise
the clean-up is there for. The names of `CodeIssue` that a module over codes has too
begin with `Issue`, as those of `ProductUrl` begin with `Import`: the proofs extend
both.

### KakaoLink

`link[s]` is the `KAKAO_LINK` row of session `s` and `code[s]` its
`KAKAO_LINK_EMAIL` rows in the order in which they were created. A `call` carries
the session, the code and the counter it has read; its `step` is the statement it
comes to next. `kakaoLogin` walks `findEmail`, `createLink` or `createUser`; a wrong
password `recordFailure`; a request for a code `checkRecent`, `insertCode`,
`mail`, `retire` or `dropCode`; a code `findCode`, `useCode`; and both proofs end
in `completeKakaoLink`: `checkIdentity` (outside of the transaction) and
`complete` (the transaction, which happens or is rolled back). What is abstracted:
e-mail addresses change, at Kakao and here, so that a login may find any
account by its address, or none; a session that has expired is one nobody opens any
more; the resend cooldown may or may not have passed when a row is there; the
counter of a mailed code is `CodeConfirm`. `completions` is history: how often a
session let its holder in.

### Records and Insights

`rows` are the `consumption_records` of one account. Creating and updating are two
steps each: the reads of the transaction, with the wage they found, and its writes,
from the first of which on the row is locked until the commit. An update of the
answers alone writes no row: there the answers it deletes, and the gap they leave in
the index, are what another such update waits for. Amounts are counted in hundredths
of a won (`Won` is 100), the scale of the price column; what a price has beyond two
decimals is left out (the column rounds it off, after the hours were computed from
it). `had` is history: every wage the account has had. `MCTold` in `MCInsights`
lists the records a table may start with.

`Insights` adds what the figures are compared with: the target of the saving goal,
whether it is active, the budget of each month. A view that takes one read is an
operator (`SavingGoal`, `Cheer`, `BudgetView`, `ReportGoals`, `ReportChart`,
`Defense`, `Vulnerable`, `SkippedRatio`, `RecentOfCategory`); the months are
`HomeMonth`, `ReportMonth`, `BudgetMonth` and `HistoryStart`, one for each copy in
the code. `Math.round` of a quotient of doubles is the set of results it may have:
halves may go either way (`Nearest`), while `calculateAchievementRate` is exact.
`HomeRatio` has the guard against an empty total that `calculateRatio` has,
`Percents` none, like the report; `HomeShares` are the shares of the home chart with
its "others", which see free records. Saving goal, cheer message and home summary
let the database add the prices, exactly; the report adds them as doubles. An amount
that is shown is meant to the nearest hundredth, where the noise of doubles is gone,
but `getGoalAchievement` also branches on such a sum: `Reached` takes both branches
when prices that are not whole add up to the target exactly (938.40 + 30.80 + 30.80
is 999.9999999999999), so that `ReportGoals` is the set of what the report may
answer. `GoalsAgree` names that one case, in which the report says that nothing is
left of a goal still in progress, where the home summary says that it is reached.
`StartHome`, `QueryHome` and `AnswerHome` are `getHomeSummary`: the user and the
time, four queries in any order with other requests between them, and the answer.
`getBudget` takes three reads; the summary uses nothing of it but the amount, which
is read at one instant, so that it is one step here. Targets are positive (the DTO
asks for 1000 at least) and, like budgets and wages, whole won; prices are any
hundredths, not negative; and days, weeks and months have some length: these are the
assumptions the proofs use.

### StructuredData and ProductUrl

A page is what its JSON blocks, meta tags, attributes and headings have to offer. A
block is an ordered tree in preorder; each node has a product, a name, or
neither. `VisitNode` is a turn of the loop of `findStructuredProduct`, `NextBlock`
goes on to another block. `ExpectedProduct` is the reference: it is stated
over document order, and knows nothing of stacks. `IsPage` says what a page is: in
each block the root comes first, and a node is at most one level deeper than the
one before it. That is what a preorder listing of any JSON value looks like.

`ProductUrl` is one call of `parseProductUrl` at a time. `step` is where it waits;
`hop` and `left` count redirects and addresses; `open` counts dispatchers; `body`
says whether a response is still coming; `fired` is the signal of the request in
hand. `Close` is the `finally` block: it waits until the response is over or the
timer has fired. What the shop and the scraping service answer is a choice
at each step. A failure goes through `DirectFails` (the `catch` block, which may
turn to the scraping service) or straight to the caller.

## 4. Runs

All properties of passing runs have a mutant in `PROJECT.json` that breaks them.

| Run | Instance | Asks |
|---|---|---|
| `withdrawal` | 1 account, 1 identity, 2 requests, 1 recovery worker, 2 passwords, 2 re-authentication states; stalled requests possible; `FairSpec`, no symmetry | is the recovery row kept, the status true, every deletion proven, audited once, a re-authentication used once, and every begun withdrawal finished unless the credential changes? |
| `sessions` | 1 user, 4 tokens of which 1 legacy, 2 calls, 2 passwords | does a family fork, revive, outlive its account, or outlive a reset other than by a late login? |
| `wishlist` | 1 item, 3 notification rows, 2 calls, waits of 2 and 3 ticks, calls of 1 tick, 5 instants | are there two records, two reminders, a reminder at a wrong time, a silent wait, a due reminder taken back by any but an update that began before? |
| `settings` | 2 requests that may be sent again and again, 5 bodies | is it an atomic update; is 409 honest? |
| `budget` | 2 requests, 4 bodies, `FairSpec` | is it an atomic update; is everyone answered? |
| `code_confirm` | 3 calls, 4 kinds, 2 tries, lock of 2 ticks, life of 4 | can guesses in parallel cheat the counter or the lock? |
| `code_issue` | 3 requests for a code of each kind, as long as they like; cooldown 2, window 5, limit 2, 6 instants, of which sign-up has the first 4 | can requests in parallel cheat the cooldown or the limit; does an issued code leave an older one alive; what can kill the newest one? |
| `insights` | tables of up to 3 out of 13 records around the ends of a month, looked at as they are; and 8 situations that 2 requests and a withdrawal change under a home summary; 3 wages, months of 4 ticks | do the views of one month agree, add up, and divide by something; is a record, and a summary, of one piece? |
| `product_url` | every tree of up to 4 nodes and every page of up to 3 small blocks, depth 1 and 3 nodes within the limits; 2 redirects, 2 addresses; `LiveSpec` | is every call answered, with nothing left open; is the product the first one of the page? |
| `kakao_link` | 2 accounts, 2 identities, 2 sessions, 2 calls, 1 code per session, 1 try; symmetry on all | is an identity ever replaced, a session or a code used twice, a session used up without a link? |

Why the bounds are enough. Every condition in the code compares at most two
processes with one row, so two requests meet every race of a pair; withdrawal has a
worker beside two requests, because a worker may also race with the request (two
workers at once, and two identities, are left to the proofs, which hold for any
number of each). One wrong password is enough for `kakao_link`, whose properties do
not depend on the counter; the run about the counter allows two. One code per
session is shared by two requests; newer codes beside it are left to the proofs.
Four tokens are a legacy token, its successor, and a second family with a rotation.
Two passwords are "before" and "after" a change. Three guesses against two allowed
tries, and three requests against a limit of two, reach the limit and go past it.
Three notification ids are the two rows a new item makes and one that a delay adds.
The clocks run past a lock, a code's life, a window and a wait. In `code_issue`
three requests are a slow one and two issued meanwhile. The constraint
`ShortSignUps` stops the clock of sign-up, whose requests check without a lock and
interleave more, once a request can be slower than a cooldown. In `insights` the
agreement of views depends on the table alone, so that the many tables need no
requests; the races of a record have two parties and a wage, and those of a summary
come between two of its queries. Three records are two categories and one to be
summed up as "others" (`TopCategories` is 1 for 4), or the three that the report
asks for. In `product_url` the limits on depth, nodes, redirects and addresses are
met and passed; they are cut from 15, 10000, 5 and 3, and nothing in the code
depends on their values. For the properties that are proved, the bounds do not
matter at all.

`CHECK_DEADLOCK FALSE` is set where the bounds let the system stop: tokens run out
(`sessions`), the clock stops (`wishlist`, `code_*`), requests are all over
(`code_issue`, `budget`, `insights`), accounts and sessions are used up (`kakao_link`).

**Violations.** Two runs each check one sentence that a document or a test of the
repository says, and TLC shows an interleaving in which the code does otherwise:

* `withdrawal_link_race` - the API description says that withdrawing a linked
  account severs the link. `deleteLocalUser` runs because no identity was read, and
  its conditional delete asks for the password hash only.
* `kakao_link_lock` - a Kakao test says that repeated failures lock the password of
  a link session. A wrong password that was read before the lock was set writes the
  counter and the (empty) lock that it computed from what it read, and lifts it.

Three more sentences hold only with an exception, which the property names: a reset
discards all sessions (`src/tests/auth-password-reset.test.js:351`) except that of a
late login; a second verification mail within a minute is refused
(`src/tests/auth-signup.test.js:573`) unless the two requests overlap; and issuing a
password-reset code retires only the codes that exist
(`src/tests/auth-password-reset.test.js:196`) unless the mail of a request takes longer
than the cooldown, in which case its clean-up retires the code issued meanwhile as well
(`auth.service.js:598` asks for every other id; `OnlyRivalsRetire`).

**Fairness.** `Withdrawal!FairSpec`: a request that started runs on (weak fairness
of its steps; an interrupt, which nothing forces, ends it); the operator runs the
recovery command again and again over every row, and of the calls repeated for ever
each succeeds now and then (strong fairness of each recovery step, because
interrupts disable it in between). Nothing is assumed of users: no one has to sign
up, consent, or send a request. `StallPossible` says that a request may be slower
than the two minutes after which the recovery command takes its row; it is `TRUE`,
so the two work side by side. `Budget!FairSpec`: a transaction in progress runs on
and the database resolves a deadlock by choosing a victim. `ProductUrl!LiveSpec`:
the program goes on where it can, a lookup ends (the resolver has its own timeout),
and a timer that runs fires. Nothing is assumed of the shop and of the scraping
service: they may be silent for ever, in the middle of a body too.

## 5. Proofs

All theorems hold for all values of the constants that meet the named assumptions of
the modules (sets of null values disjoint from real ones, bounds natural numbers,
bodies as the DTOs let them through).

* **WithdrawalProofs.** `RecoveryStateSurvives` is not inductive. Its proof needs
  to know that a worker on its way to call Kakao has a row (`HeldRowExists`: rows
  go only with their account), that a row is marked only after Kakao's answer
  (`MarkFollowsSever`) and finalized only when marked (`CommitFollowsMark`), and that
  no one works on the row of a request that has not inserted one
  (`EarlyRequestHasNoRow`). `IInv` is their conjunction with the type
  invariant and the properties. Types, `RecoveryStateSurvives`,
  `UnlinkedMeansSevered`, `AuditMatchesDeletion` and the action property
  `DeletionIsProven` follow. `ReauthenticationUsedOnce` needs instead that the state
  of a request that got through is used or no longer the newest (`StateIsSpent`).
* **SessionsProofs.** What a call has read may be stale. `CallsAreSound` says how
  much of it still holds: a token that is still live has the family and owner that
  were read. With families named by issued tokens and owned by one user, it makes
  `OneLiveTokenPerFamily`, `RevokedFamilyStaysDead` and `NoSessionWithoutAccount`
  inductive. `OnlyLateLoginsOutliveReset` needs besides that a token without a family
  is never stale (`LegacyIsFresh`): its successor starts a family and would otherwise
  take over an old password unseen.
* **CodeProofs, confirming.** The row is consistent (a lock means an exhausted
  counter, a used code has neither) and calls lag behind the clock: a call that
  clears a lock has seen it run out, so it never clears one that another call has
  set meanwhile. `AcceptedOnce`, `ExhaustionIsLocked`, `LockIsKept` and
  `FailuresAreRemembered` follow.
* **CodeProofs, issuing.** The limit and the cooldown are about all requests ever
  let in, while a request sees the rows that are left and a time of its own, which
  may be long past. `IssueInv` bridges the two: a log row holds the time its request
  started (`LogsAreStarts`); one that was pruned is a window older than one still
  there (`PrunedIsOld`), so that a late request finds the newer one in its way; ids
  follow the order of insertion (`IdsAreOrdered`); a sign-up request that found no
  recent row has none within its cooldown but those inserted since
  (`RowsSeenAreCool`). One step lets one request in at most, and the newcomer keeps
  the distance (`CooldownKept`) and the count (`LimitKept`) with those before it. A
  code that is retired has either a newer one that stays, or was retired by a
  request that was running when its row was inserted (`RetiredForCause`), and
  whoever is running with an older row is a rival (`RivalsAreOlder`); with the
  spacing of the log this gives `OnlyRivalsRetire`. `OlderCodesAreDead` is inductive
  with these. That requests are finitely many, which the count needs, is an
  assumption; that they are quick is not.
* **KakaoLinkProofs.** A request holds on to a session and a code it read long ago.
  `NothingReturns` says that rows never go back (an account that was, a session that
  was offered, a code that was used up), `LinkOK` what a session row means for
  its account, and `CallOK` what still holds of a call whoever moves in between
  (`CallStays`); a code that is taken was unused, so no other call holds it.
  `LinkCompletesOnce`, `UsedLinkIsLinked`, `CodeProvesOnce` and the action
  property `IdentityNeverReplaced` follow.
* **NotificationSettingsProofs, BudgetProofs.** Every step of the detailed module is
  a step of `AtomicPatch` or a stutter. The first needs that a merge keeps the
  master switch equal to the conjunction of the other three and that each lost try
  was a change by someone else (`TriesAreChanges`, whence `ConflictMeansContention`);
  the second that under the lock the list read is the list in the row
  (`ReadIsCurrent`).
* **WishlistProofs.** A call writes a deadline that it computed when it started.
  `CallIsRecent` bounds how old that is, by `Latency`, which is below every wait: so
  a deadline that is written lies ahead. `RemindersOK` is about the time of the last
  transaction on the item (`written`), not about the clock: of the item's reminders
  later than that there is one at most, and it is at the item's deadline. No
  transaction compares with an earlier time, except a decision or a deletion that
  removes more than is ahead, or a delay, which finds the deadline itself passed. So
  an item whose wait is over has no reminder ahead, and a delay always makes one
  (`DelayMakesReminder`). `OneRecordPerItem` and `DecidedItemsAreQuiet` rest on what
  is known of calls alone (`CallsNameItems`); `ReminderAtDeadline`,
  `EveryWaitIsAsked` and the action property `DueStaysDue` on all of it.
* **WishlistProofs, the import.** `ProductIsFirst` compares a search that pops a
  stack with an order on the page. The stack invariant `StackOK` says that its
  entries go down the page from the top, get no deeper towards the bottom, and that
  whatever is still to be seen is below one of them; then a turn of the loop
  (`StackStep`) sees the next node of the page that is not too deep, and nothing else,
  because what is below a node is below one of its children (`BelowIsWithinChild`) and
  the children come before whatever is not (`ChildrenComeFirst`). So the nodes seen are
  always the first ones (`SearchOK`), the limit on nodes cuts off what the reference
  cuts off (`SearchedAll`), and over the blocks (`ScanOK`) the first product is found
  or there is none, and the kept name is the first (`ScanFindsFirst`). `Children` picks
  an increasing enumeration, and there is one (`SetsHaveAnOrder`).
  `DispatcherClosed` is inductive once it is known that a hop has an error to report
  only in the end, an address left when it connects, and a redirect left when it
  follows one (`HopInv`).
* **RecordsProofs.** A call holds a wage the account has had. With the types that makes
  `RowsAreWhole` inductive over `Records`; `InsightsRunOverRecords` shows that every
  step of `Insights` is a step of `Records` or leaves the records alone, so the
  property holds under the views too.
* **RecordsProofs, the views.** The figures are sums over sets of records, folds of
  the community modules. Facts about them that others would prove by induction are
  proved by smallest counterexample (`SmallestMember`: of finite sets that violate a
  fact one contains no other). From sums that split and compare, a sum is the sum of
  its sums by category (`SumByKey`), the largest categories with the rest are all of
  them (`ChartAddsUp`), shares lie between 0 and 100 (`PercentsAreShares`), and the
  several ways to round a rate agree (`RatesAgree`). `GoalsAgree` and
  `SpendingAgrees` then hold in every state whose settings are as the DTOs leave
  them (`SettingsOK`), for any prices in hundredths; what the report may say of the
  goal is worked out in `WhatIsReported`. `SharesAreDefined` and `SummaryAddsUp`
  need besides what a summary in progress has read so far (`HomeOK`): each figure is
  whole by itself, whatever came between the reads, and the guarded shares of a home
  chart lie between 0 and 100 also when nothing was paid (`HomeRatiosAreShares`).

Each proof module also proves the types of its module (`TypeCorrect`); for most
modules no run checks them again, since the properties rest on them.

Only model-checked: the three liveness properties (`PendingWithdrawalCompletes`,
`EveryRequestAnswered`, `EveryCallAnswered`), because the prover has no rule for
fairness or ENABLED, and the two violations, which are counterexamples. Every other
property of a passing run is a theorem.

## 6. Not modelled

* HTTP routing, validation, error messages, logging, the API description: no state.
* The text of product pages (HTML, character sets, regular expressions, which
  addresses are private); SMTP and Kakao wire formats; bcrypt and JWT, which are
  taken as a proof that holds or not.
* Interventions: the risk score is a sum of three fixed weights over rows that are
  only read, and a record stores the score that the client sends back.
* `updateMe`, the availability checks before a sign-up, the daily question, budgets
  per category, hours worked and spent, the channel of a report: single updates,
  single reads, or figures computed as one that is modelled.
* Lock order inside InnoDB. A transaction may be aborted as a deadlock victim
  (`Abort`, `Conflict`), and that is all.
* Behaviour the models have but no run judges. A password that is changed between
  the recovery command's fingerprint check and its unlink call is disconnected all
  the same, although the repository's README leaves such accounts to a manual check
  (the account itself is kept: `DeletionIsProven`). And, where no document says what
  is right: a second withdrawal that inserts its row after the account is gone
  leaves a row on which recovery fails for ever; mark-all marks reminders that are
  not yet due; an update after the reminder fired does not ask again, and one under
  way when it fires takes it back; two verification requests at once retire each
  other's codes; an undelivered e-mail-change code leaves no usable one; a process
  that dies between the last failure and its lock leaves the code unlocked until the
  next wrong guess, which locks it; a record takes the price read before a
  concurrent update.
* Of the import: several state markers in one script are tried in the order of
  `STATE_MARKERS`, and a JSON object lists integer-like keys first; a page in the
  model has its blocks and nodes in the order that comes out. A body that breaks
  off, or whose hop runs out of time while it is read, and a malformed `Location`,
  end in a plain 500, and the scraping service is not asked
  (`product-url.service.js:600`, `:618`), where `src/src/swagger/openapi.js:3221`
  documents 504 for a timeout.
* Of the views: the goal in a report is rounded with doubles, so that 14.5 % may
  come out as 14 there and as 15 elsewhere (`GoalsAgree` allows it), and may fall
  short of a target that its prices add up to exactly (`GoalsAgree` names the case);
  a target set by onboarding counts at home and, unless the goal is activated, not
  in the report; a report may list two entries "ETC".
* Of the sign-up: `signup` tells a taken login id from a taken e-mail by the name of
  the violated field (`auth.service.js:998`). What the driver reports there is external
  code; a driver that reports the index instead leads to the message about e-mail.

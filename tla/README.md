# Verification of the content platform

TLA+ models of the API in `apps/api` (NestJS over PostgreSQL through Prisma) and of the screens of `apps/web`
that call it, checked with TLC on small instances. Of the forty properties that the passing runs check, all but
five are theorems too, proved with TLAPS for any number of users, requests and rows (section 5).

Paths below are relative to `src/apps/api/src` unless they begin with `apps/`, `docs/` or `packages/`.

## 1. Inventory

The product is a Next.js application that calls a NestJS API. The API runs as several replicas over one
PostgreSQL database; nothing but the table of rate limits and the timers lives in the memory of a replica.
Requests of all users therefore interleave at the granularity of SQL statements: a handler reads, waits,
and writes by id what it decided from what it had read. A `$transaction` without an isolation level is
READ COMMITTED; five services ask for SERIALIZABLE. The hard behaviours of the system follow from that, and
from the two services outside it, Notion and the mailer, that can answer late, twice, or not at all.

| Component | State | Operations | What is hard | What makes it correct |
| --- | --- | --- | --- | --- |
| Scheduled jobs (`common/jobs`, `curation/curation.scheduler.ts`, `automations`) | `scheduled_job_runs`: one row per job and bucket, with a lease | start under a lease, renew, record the outcome, sweep the expired | replicas with different clocks, late and lost renewals, crashes | a bucket starts once; no overlap while deadlines hold; a dead run is freed |
| Team and invitations (`invitations`, `organizations`, account deletion of `auth`) | memberships, invitations, letters | invite, resend, revoke, accept, preview, list, change a role, remove, delete an account | a letter is sent before or after its row is stored; the caller's role is read once | a link admits once, with the role it announced; the team keeps an administrator |
| Editorial calendar (`publication-plans`, `library`, `contents`) | contents with a status and dates, plans | create, update, delete a plan; save, edit, archive, restore a content | three services write one status, from stale reads, at READ COMMITTED | a published content has its date; a scheduled one has its plan |
| Notion: binding (`integrations`, `integrations/notion`) | credential, provisioning lease, mapping, page states; databases in Notion | connect, disconnect, provision, map, synchronise | a creation whose answer is lost; a lease that expires; a disconnection in the middle | one database; nobody binds what it found after losing its lease |
| Idea discovery (`ideas`) | candidates, reactions, saved ideas, learned profile | generate a batch, react, reset | retried serializable transactions, dates drawn before the snapshot, replays | the profile is what the reactions say; a reaction stands; a kept candidate has its idea |
| Notion: synchronisation (`integrations`, `integrations/notion`) | page states with a hash and a date, the pages in Notion | export, reconcile, push, pull, diagnose and repair a schema | edits on both sides while a request runs, pushes made of several calls, transactions that expire under a request | what is left alone agrees on both sides; one page for an item; conflicts follow their rule; the state never goes back |
| Discovery deck (`apps/web/src/components/ideas`, `lib/ideas`) | cards shown, reactions pending, an epoch | load, react, restore, reset | answers out of order, resets crossing reactions | the deck shows what is left to answer; an old profile never replaces a newer one |
| Curation (`curation`) | feeds with a next date and failures, resources, tags | add, import, summarise, use | an import fails half way; two feeds carry one article | an article is stored once; a feed recovers |
| Automations (`automations`) | rules, reminders, notifications, recommendations | process reminders, generate recommendations, mark as read | the job and an administrator run it together | one reminder for a plan and a date, one notification for each member |
| Accounts, sessions, organizations (`auth`, `organizations`) | users, Google identities, organizations, slugs | register, log in, change the password, delete; create | two registrations of one address; two password changes | one user for an address; the second change is refused |
| Rate limits (`config/security.middleware.ts`) | buckets in memory, at most `maxBuckets` | count, expire, evict | eviction at the limit | no client passes its limit unless its bucket was evicted |
| Onboarding (`onboarding`) | progress of a user | read, complete a step, apply a preset | a read rewrites what it has computed | a completed step stays completed |
| Screens (`apps/web/src/components`) | what a component shows, its form, the key of what it waits for, the calls under way | a click, a keystroke, the answer to a call | answers in any order, a change of month or organization during a call, a call that throws, changes made by others | at rest the screen shows the rows of the API; it waits only for calls under way; it writes what the member saw |
| AI settings, editorial contexts | one row of an organization each | an upsert | two members, the onboarding | a row is replaced by a member who has read it |
| Generation by AI, history, dashboard, encryption, health | a log, or nothing | | | |

### How they interact

* The scheduler calls `CurationService.importDueFeeds` and the two jobs of automations under leases of
  `ScheduledJobsService`; a feed import asked by a user takes the same lease.
* `OrganizationGuard` reads the membership of the caller once for each request, from the table that
  invitations, role changes and deleted accounts write.
* Publication plans write the status of the contents that the library and the editor write too, and that
  the synchronisation with Notion and the reminders read.
* The deletion of an account cascades to organizations, memberships, invitations and reactions.
* The synchronisation relies on the mapping and the states that provisioning, mapping and disconnection
  change under it. A diagnosis or a repair of the schema stores what it has read of Notion in the same mapping.
* A screen makes a call for each thing its member does, and often reads its list again after it; it holds
  the rows of its last reading until then, whatever the other members, the jobs and Notion have done.

## 2. Plan

| Order | Module | Status |
| --- | --- | --- |
| 1 | `ExclusiveJob`, `ScheduledJobs`, `ScheduledJobsOnTime` and proofs | done |
| 2 | `TeamInvitations` and proofs | done |
| 3 | `EditorialCalendar` and proofs | done |
| 4 | `NotionBinding` and proofs | done |
| 5 | `IdeaDiscovery` and proofs | done |
| 6 | `NotionSync` and proofs | done |
| 7 | `CurationFeeds` and proofs: imports, their failures and delays, the articles two feeds share | done |
| 8 | `DiscoveryDeck` and proofs: the deck as a client of the ideas, with the cards and the profile it shows | done |
| 9 | `Reminders`, `Recommendations` and proofs: job and administrator together, stale plans | done |
| 10 | `RateLimiter`, `Accounts`, `Onboarding` and proofs | done |
| 11 | `NotionSchema`: diagnosis, repair and backfill of the columns of a mapping | done |
| 12 | `ScreenCalls` and thirteen screens of the web application; proofs of what they write and wait for | done |

Abstract specification: `ExclusiveJob`, which `ScheduledJobsOnTime` implements. For the feeds and the reminders
the abstract set of articles, or of notices, is the history (`stored`, `told`) that their properties compare
with the tables.

What would come next: `ScreensAreExact` as a theorem for the screens whose lists are not sorted, by
strengthening the invariants of `Screens_proofs` with what each call under way may still bring; and the
deletion of the sync states by a backfill, in a composition of `NotionSchema` with `NotionBinding`.

## 3. What is modelled

Common conventions. A process is one request (or one call of a job); `req[p]` holds its operation, the stage
it has reached and what it has read. One action is one statement, or one serializable transaction, or one
exchange with the outside. `Fails`, `Stop` or `Abandon` ends a request anywhere: an error, a refused check or
a server that stops; what it has committed stays. Texts, names and wording are left out.

### ScheduledJobs, ScheduledJobsOnTime, ExclusiveJob

`ScheduledJobs` is `common/jobs/scheduled-jobs.service.ts` for one job key. `run` is the table, by bucket;
`pc`, `at`, `nextBeat` are the local state of a call; `inFlight` holds the renewals that were sent and have not
been executed. Every process has a clock that is `Skew` ahead of the real time. `Reap` is the sweep of expired
rows, `IndexesAllow` the two unique indexes, of which the partial one is in a migration, `SendBeat` and
`LandBeat` / `LoseBeat` a renewal and its arrival or loss, `RecordSuccess`, `RecordFailure` and
`SuccessNotRecorded` the outcome, written by id. The write of a success is inside the `try` whose `catch`
writes a failure: when it fails, or takes effect and only its answer is lost, the call records FAILED, in the
second case over its own SUCCEEDED row. `RowsOfOthersStay` therefore says by whom a finished row may be
rewritten and not that it never is: by the call that owns it, a late success over the FAILED of a sweep or a
failure over a success whose answer was lost, and by nobody else.

`ScheduledJobsOnTime` restricts time so that nothing due is left undone, and shows under `TimingAssumption`
(the third of a lease, plus twice the delay, plus the clock difference, is less than a lease) that the service
implements `ExclusiveJob`, with `executing <- {p : pc[p] = "handler"}` and `started <- {b : starts[b] > 0}`.

### TeamInvitations

`invitations/invitations.service.ts`, the guard, and the parts of `auth` and `organizations` that change
memberships. An address stands for its user. `letter` is what a mailbox holds: `create` stores, then writes;
`resend` writes, then stores (`MailResent`, `SwapToken`, whose condition is `StillAsRead`). `uses` and `joined`
are histories for the properties.

A role change and a removal are SERIALIZABLE: one action takes the snapshot and counts the administrators
(`CountAdmins`), another writes and commits (`UpdateMemberRole`, `RemoveMember`), and PostgreSQL then aborts
the others under way that write the same row or have counted somebody it writes while it counted somebody
they write (`Aborts`). The deletion of an account
(`auth/auth.service.ts:371`) is READ COMMITTED and outside that protection: `DeleteAccount` may end the
account of the one administrator that a demotion under way has counted, and the demotion commits. The team
then has no administrator although every step was checked. `TeamKeepsAdmin` names that crossing
(`CountedTheDeleted`) beside the end of an account itself, and excludes every other way; section 6 has the
sequential case.

### EditorialCalendar

`publication-plans`, `library` and `contents`. A transaction at READ COMMITTED is a sequence of actions:
`draft` and `patch` hold the rows it has written, which lock those rows (`PlanIsFree`, `ContentIsFree`)
until `Commit`; its reads see its own writes over what is committed now (`SeesPlan`, `SeesItem`).
`SyncContent` is `syncContentStatusForPlan`; the three `Relax...` actions are `relaxScheduledContentIfUnused`.
`PublishedHasDate` is about these three services: a pull from Notion sets PUBLISHED without a date
(`applyRemoteContent`), and is in `NotionSync`, which keeps no publication date.

### NotionBinding

`provisionNotionDatabase`, `saveNotionMapping`, `disconnectNotion`, the OAuth return, and the parts of a
synchronisation that read the mapping and store a page state. `remote` is Notion: the databases that carry
the marker of the organization; `post[p]` the creation that a request has sent, which Notion may serve after
the caller has given up. `doomed` holds the rows a disconnection has deleted and not committed.
Assumptions: Notion shows a database to searches as soon as it exists, and the five minutes of a lease are
longer than what is left of a creation once its lease is renewed (twelve seconds for each call).

### NotionSchema

`getNotionSchemaHealth`, `repairNotionSchema`, `backfillMappingSource`, `inspectAndPersistSchema` and the
repair of the Notion adapter. `cols` is the columns in Notion, which keep their ids when they are renamed;
`row` is the mapping, with ids and names for three fields that stand for the six; `home` is the database of
each source. A request reads the row (`Ask`), retrieves the source (`RetrieveToInspect`, `RetrieveToRepair`,
or `ReadSources` for a mapping that is older than the ids), adds what is missing with one call
(`UpdateDataSource`) and stores the health (`StoreHealth`, `StoreRepair`, `StoreBackfill`). Members change
columns in Notion and administrators bind or disconnect between any two of these. The title is left out:
Notion neither deletes nor converts it.

A diagnosis stores its health where `updatedAt` is what it has read (`Unread`). The column has microseconds
and Prisma reads milliseconds, so the condition holds only of a row that nobody has written since and whose
date happens to be a whole number of milliseconds (`whole`, drawn at each write by `Stamped`). After an update
this is one date in a thousand: nearly every diagnosis of a row that was once updated leaves the stored status
and names as they were, and answers with those. `SchemaIsExact` is about what is stored: it is the health of
the columns, as far as these have not changed since they were read. Left out: a backfill that gives the
mapping another source also deletes the sync states (`integrations.service.ts:1402`); no property is about the
two together, those of a binding being in `NotionBinding`.

### NotionSync

`exportContent`, `exportResource`, `reconcileContent`, `reconcileResource`, the two `push...Locked`, the two
`applyRemote...`, `saveSyncState` and `withEntityLock` of `integrations/integrations.service.ts`, and
`replacePageBody` of the Notion adapter, for one item, a content or a resource. `item` is its row with its
plans, `page` the pages in Notion, `state` the sync state. A request reads the item (`Ask`), takes the lock and
reads the state (`LockEntity`), looks at the page and decides (`Reconcile`), then pushes, call by call
(`UpdatePage` or `CreatePage`, `ClearBody`, `AppendBody`, `RetrievePushed`, `SaveSyncState`) or pulls
(`ApplyRemote`). `Expire` ends its transaction, and with it the lock, without the request noticing before its
next statement. `EditItem`, `ChangePlan` and `EditInNotion` are everybody else.

Abstracted: the title and the status are one value (`text`), the channel of a plan goes where its date goes
and is left out, a body is a set of paragraphs, a hash is what is hashed. `updated_at` is the start of the
transaction, as the trigger sets it. A call that Notion serves after its caller has given up is in
`NotionBinding`, not here. The credential and the mapping, which a request reads first, are there too.

### IdeaDiscovery

`generateDiscoveryFeed`, `submitDiscoveryFeedback`, `resetDiscoveryPreferences` and
`retrySerializableTransaction` of `ideas/ideas.service.ts`. A reaction or a reset draws its date (`DrawDate`),
takes its snapshot with its first statement (`Open`), and commits only if no transaction that writes the
profile row has committed since (`MayCommit`, `Outdate`), otherwise it is `Refused` and starts again, at most
`Attempts` times. The profile is the set of reactions counted: the scores of the code are functions of it.
`learned` and `crossed` are histories.

Assumption: no two dates are drawn in the same millisecond.

### CurationFeeds, Reminders, Recommendations

`CurationFeeds` is `curation/curation.service.ts` and its scheduler: due feeds are read (`ReadDueFeeds`),
each is imported under its lease (`TakeLease`, `Fetch`, `CheckItem`, `CreateItem`, `RecordSuccess`,
`RecordFailure`); `Throws`, `Dies` and `LoseLease` end or undermine an import anywhere. `wait` is how long a
feed has to wait, in quarters of an hour: an hour after a success; a quarter after a failure, doubled at
each further one in a row up to sixteen hours, which the cap of 24 hours of the code never shortens.
`stored` and `failed` are histories.

`Reminders` and `Recommendations` are two loops of `automations/automations.service.ts`, statement by
statement: `processPublicationReminders` (rule, plans, members, preferences, then for each plan a reminder
and its notices) and `generateRecommendations` (the oldest targets, then a look and an insert for each). A
refused insert is passed over, as the catch branches do. Plans, rules, members and targets change between
any two statements.

### Accounts, Onboarding, RateLimiter

`Accounts` is `auth` and the creation of an organization. A password is a word and the number of its salt,
so that the same password set twice has two hashes, which is what the conditional update of `changePassword`
compares. `Onboarding` is `onboarding/onboarding.service.ts`: every answer computes the progress from what
the organization holds and writes it (`ReadOrganizations`, `ReadRow`, `ReadFacts`, `SaveProgress`); `alone`
says that nothing came in between. `RateLimiter` is the table of `config/security.middleware.ts` of one
replica; a request is one action, since nothing is awaited. `window` is the history of a client, which the
table may have forgotten.

### DiscoveryDeck

`idea-discovery-workspace.tsx` and its client: every handler and every answer, with the calls under way, the
epoch of the organization shown, and the server as one member sees it (candidates, answered ones, the
version of the profile). A reaction takes its card off the deck at once, and gives it back if it fails. The
deck compares the slug only for a selection and for a reset, so an answer that arrives after the
organization was left and chosen again is taken; `again` and `blurred` are the histories of that and of
crossings.

### ScreenCalls and the screens

`ScreenCalls` has what the components of `apps/web` share: `view` (the state of the component), `call` (the
calls it has made), `server` (the rows of the API), `past` (histories for the properties). A handler runs up
to its next `await`; the rest is the action of the answer (`LoadAnswer`, `SaveAnswer`, ...). Calls are
served and answered in any order; one may be refused, or break, before or after the API has served it.
`live` is `isMounted` or `loadGeneration`: the effect that made the call is still in force.

| Module | Component | What is particular |
| --- | --- | --- |
| `CalendarScreen` | `calendar/editorial-calendar-workspace.tsx` | a month and filters; a reading after a change is of the month when the change was asked |
| `IdeasScreen` | `ideas/ideas-workspace.tsx` | several savings and archivings at a time, pages that shrink |
| `NotionPanel` | `integrations/notion-integration-panel.tsx` | one operation at a time, and changes of organization during it |
| `LibraryList` | `library/content-library-workspace.tsx`, the search of `library.service.ts` | filters applied when submitted, pages |
| `ContentScreen` | `library/content-library-detail.tsx`, the writes of `library.service.ts` | roles and archives; a request that looks, then writes; four other writers |
| `CurationScreen` | `curation/curation-workspace.tsx` | one key for several operations; a draft and its saving |
| `OnboardingScreen` | `onboarding/onboarding-flow.tsx` and the flag of the user | presets, a whole state in every answer |
| `EditorScreen` | `contents/content-detail.tsx`, the update of `contents.service.ts` | the export of what was saved last |
| `GeneratorScreen` | `contents/content-generator.tsx` | a source that changes while a draft is generated |
| `AutomationPages` | `automations/automations-workspace.tsx`, `notifications/notifications-workspace.tsx` | two pages, changes and readings that cross |
| `MembersPage` | `organizations/members-list.tsx` | an administrator that demotes itself |
| `ProfileScreen` | `settings/profile-settings.tsx`, the bar of the shell | errors are caught; the end of the session |
| `SettingsForms` | `editorial-context/editorial-context-form.tsx`, `ai-settings/ai-settings-form.tsx` | a form read once, an upsert |

The organization of a screen does not change while it is mounted, except in `NotionPanel` and the deck. A
call that throws leaves a screen waiting for ever (`stuck`), except in the profile, which catches, and the
Notion panel, whose `finally` ends the operation: the repository has no word about it, so
`ScreensWaitForCalls` names it as an exception. Two things the components could do are out of reach and are
left out: the choice among organizations in the first onboarding, and a preset where no context is shown.

The content of `ContentScreen` is written elsewhere by the library, which dates what it archives
(`WrittenInLibrary`), and by the content editor, the plans and the pull from Notion, which move the status
to or from ARCHIVED without its date and whatever the role of the caller (`WrittenWithoutDate`): the date of a
row need not fit its status, in the first state either. `apart` says that the status was last moved so, or by
a request of the library under which the content was archived or restored; the properties are about the
writes of the library, in the other cases.

`EditingScreens` holds the three screens where a member edits what is stored (`ContentScreen`, `EditorScreen`
and `SettingsForms`), one of them in a behaviour, with their own specification `EditingSpec`. `MC_Screens`
extends it and takes its steps as they are (`EditsNext`), beside those of the ten other screens and of the
calendar.

## 4. What the runs check

| Run | Module | Instance | Checks | States |
| --- | --- | --- | --- | --- |
| `jobs_lease` | `MC_BackgroundJobs` | leases: 2 replicas, clocks 1 apart, buckets and leases of 2, time to 3, 1 renewal under way; reminders: 2 runs, 2 plans, 1 member, 1 failure or change; feeds: 2 feeds, 2 pages, 2 troubles or requests by hand | `StartedOncePerBucket`, `RowsOfOthersStay`, `MembersAreTold`; under fairness `AbandonedRunIsFailed`, `NearIsTold`, `ErrorRecovers` | 198 k |
| `jobs_on_time` | `MC_IndependentParts` | leases: buckets of 3, leases of 6, time to 7, 2 renewals under way; feeds: as above with 3 troubles or requests; 3 targets for a window of 2; 3 keys for 2 buckets; a deck of 2 organizations, 5 calls | `HolderKeepsRow`, `ImplementsExclusiveJob`, `FeedsAreExact`, `RecommendedOnce`, `LimitsHold`, `DeckIsExact`, `ShownIsServers` | 1.4 M |
| `team_invitations` | `MC_People` | 2 people, 2 requests, 3 tokens; 1 address, 2 ids, 2 passwords; 2 roles, 3 changes | `JoinsAsInvited`, `TokenAdmitsOnce`, `ClosedStaysClosed`, `TeamKeepsAdmin`, `AccountsAreWhole`, `ChangesFromChecked`, `OnboardingIsKept` | 2.1 M |
| `calendar_and_screens` | `MC_Screens` | 2 contents and 2 plans one request at a time; 1 and 1 when 2 requests cross; 13 screens, 3 things done by the member or by others, 1 trouble | `TypeOK`, `PublishedHasDate`; `AloneScheduledHasPlan`, `AloneSchedulingMarksContent` when requests do not cross; `ScreensAreExact`, `ScreensWaitForCalls`, `WritesAreGuarded` | 2.2 M |
| `notion` | `MC_NotionBinding` | 2 databases Notion may create, 1 of one's own, 1 entity, 2 requests; schema: 2 sources, 2 requests, 2 changes around them, 1 error | `OneDatabase`, `LateAnswerNotBound`; `AloneStatesOfMappedSource`, `AloneNothingWithoutCredential` when requests do not cross; `SchemaIsExact` | 2.2 M |
| `notion_sync` | `MC_NotionSync` | 1 item and its page; 3 requests and 2 edits one request at a time; 3 requests, 1 edit, expired transactions when 2 cross | `SynchronisedAgrees`, `NoPageLost`, `ConflictFollowsRule`, `StateMovesForward` | 2.4 M |
| `ideas` | `IdeaDiscovery` | 2 members, 1 candidate, 2 requests, 2 attempts, 4 dates | `ProfileIsLearned`, `AnnouncedIsStored`, `LikedIsSaved`, `ReactionsStand` | 4.4 M |

Four runs are compositions. Their variable `part` is chosen in the first state and never changed; a
behaviour is about one part and the variables of the others stay as they are, because the parts share no
state. Each part is reached by its own action of the MC module (`FeedsNext`, `TeamNext`, ...), and a
property of a part is the implication `part = ... => ...`, or holds of the others because their variables do
not move. The type invariants of the parts that are hosted with INSTANCE are conjuncts of their property;
`TypeOK` of the calendar is checked by its run, and those of `ScheduledJobs`, `TeamInvitations`,
`NotionBinding`, `NotionSync` and `IdeaDiscovery` are proved.

Bounds. Two requests are enough for every conflict that the code has between two handlers, and each module's
hazards are pairs. Three tokens are an invitation, its second letter and a new invitation. Two databases are
the one a lost answer created and the one another request would create. Four dates are two reactions, a
reset, and a retry. Jobs: a time bound of 3 lets a lease end in the bucket after its own and be swept there;
on time, 7 units hold a whole lease of 6 and the acquisition after it. Feeds: two feeds that carry the same
two pages, one of which may not be fetched; three troubles are a lost lease and a failure of both imports.
Recommendations: three targets let one enter the window when another is edited. Rate limits: three keys for
a table of two, so that a key is evicted within its window and comes back. Screens: three things done are a
change, a second one that crosses it, and a change elsewhere or a change of month; one trouble is a call
that the API served and whose answer is lost. Schema: two requests are a repair and a diagnosis or a repair
and a backfill, two changes are a column and the binding; columns of one of the two sources are edited. The
bounds `MaxAsked`, `MaxTroubles`, `MaxRequests`, `MaxChanges`, `MaxLost`, `MaxFails`, `MaxEdits`,
`MaxByHand`, `MaxCalls`, `MaxSalt`, `MaxGone` and `MaxTime` are of the models and not of the code.

Where a behaviour may end (no more calls, bounds used up, time at its end), the run either does not check
deadlock or has a step `Stops` that stands for a member or an administrator who does nothing more.

One request at a time, or two that cross. The calendar, `NotionBinding` and `NotionSync` have two instances
(the variable `crossing`, or the values `"alone"` and `"crossing"` of `part`). When requests cross, they
interleave freely on a smaller instance; otherwise a request starts after the one before has ended, however
it ended, on a larger one. Properties named `Alone...` are about the second: they do not hold of crossing
requests, and section 6 says why. In `MC_NotionSync` every property is about both, and edits fall between
any two steps of a request in both.

Fairness is used by three properties. `AbandonedRunIsFailed`: time passes (`Tick`); the interval timers of
the replicas keep starting calls (`Begin`), the scheduler being started with every replica; a call that is
not killed makes its next statement; a handler ends, its network calls having timeouts. `Reap` has strong
fairness: a replica that restarts in a loop does not die before its first statement every time.
`NearIsTold`: runs of the reminders start again and again, and a run that does not fail goes on; failures
and changes are bounded, so the property says that a finite number of them leaves nobody untold.
`ErrorRecovers`: the time of the feeds passes, the scheduler calls, an import that does not fail goes on.

## 5. What is proved

No theorem bounds the number of processes, users or rows; those of `TypeOK` are inductive after a small
strengthening in each module.

* `BackgroundJobs_proofs`, leases. `BucketStartedOnce`: the invariant `OnceInv` says that a bucket that was
  started has a row, and a row is never removed, so the index on (job, bucket) refuses a second start.
  `RowsStay`, an action property: `OwnedInv` says that the row a call has inserted stays its own, and that the
  clock a call has read is in the past; so the outcome a call writes, the FAILED that follows a success whose
  answer was lost included, goes over its own row, and a sweep fails only what has expired. `HolderIsSafe` and
  `LeaseIsExclusive` under `TimingAssumption`: the invariant `LeaseInv` bounds the lease stored, and every
  renewal under way, from below by the next beat of its owner, so a sweep reads a clock that cannot have
  reached it. The refinement maps `Acquire` to `Start`, the ends of a handler to `Stop`, all else to a stutter.
* `BackgroundJobs_proofs`, reminders. `MembersToldOnce`: `WalkInv` says that a notice exists exactly when it
  was inserted once, and that all the members of the plans a run is done with, and those of the plan at hand
  it is done with, have theirs; no statement of anybody takes a notice away, so what others do keeps it.
* `People_proofs`, team. `JoinedAsInvited`, `LinkAdmitsOnce`, `AdminKept` and `ClosedForGood`. `TeamInv` says
  that a token stored is written in a letter with the same address and role or will be by the one request
  that holds it, that tokens held by requests are distinct, and that a token that has admitted somebody is in
  no open invitation. For `AdminKept`, `CountInv` says that whoever a role change or a removal under way has
  counted is an active administrator still, or their account was deleted since (`CountHolds`): whoever else
  could have demoted or removed them would have aborted it.
* `People_proofs`, accounts. `AccountsKeptWhole` and `PasswordsReplacedByChecked`. `RequestIsSound` says that
  a request is in the stages that write only with an id and a password found before, and `DrawnIds` that who
  is there has an id that was drawn: a new id has no rows, which is why nothing of a deleted account comes
  back. The conditional update of `changePassword` compares the salted hash, so it replaces what was checked.
* `People_proofs`, onboarding. `OnboardingAlwaysKept`. `RequestIsExact`: what an uncrossed request has read is
  what is there, because a step of one request marks all others as crossed; and whatever writes a context
  invalidates the transactions of the presets under way.
* `CalendarAndScreens_proofs`, calendar. `PublishedDated`: `DateInv` says that a content that is published,
  has its date in the row, in the patch of every transaction that writes it, and that a request that has read
  a date reads a row that still has it, because no action clears one. `ScheduledIsPlanned` and
  `SchedulingIsMarked`, for one request at a time: `AloneInv` says that there is one active request
  (`OnlyActive`), that the rows are those it has read and its transaction has changed (`ReadFits`, `TxFits`),
  and that the only content that is scheduled without a plan is the one the transaction is about to relax
  (`Loose`). `ScheduledIsPlanned`, and it alone, has the hypothesis `"SCHEDULED" \notin Wanted` of the runs:
  nobody sets that status by hand. The editor lets one do so, and then no plan is needed.
* `CalendarAndScreens_proofs`, screens. `WritesAlwaysGuarded` and `EditsAlwaysWait`, of `EditingSpec`: any
  texts, labels, statuses and values, any number of calls, changes elsewhere and troubles. The calls under way
  are a sequence, from which an answer takes one anywhere; a screen makes a call of a kind only when none of
  that kind is under way (`OneWaits`), and its flags say which are. `ContentInv`: a status that was not moved
  apart has its date, and a request that is about to write for an editor has found a content that is not
  archived and is not to be (`FoundContent`); unless what it has found has changed, its write dates what it
  archives (`ContentGuarded`). `EditorInv`: the screen shows the stored content unless an update has been
  served, and an export carries what the screen still shows. `SettingsInv`: a form that is open shows the row,
  and a saving was made with it, unless the row has changed elsewhere since. Each answer's case shows that the
  calls that stay keep what was known of them.
* `Screens_proofs`, of the specification `AllSpec` that TLC runs. `ScreensAlwaysWait` is `ScreensWaitForCalls` of
  all thirteen screens: `ScreensInv` has a conjunct for each (`CalendarFits` to `NotionFits`, and the invariants
  of the three editing screens), which says for which calls each flag stands and that they are one at a time,
  or, where several go under one name, which of them the name is about. `PlansRun` shows that a behaviour of
  `AllSpec` is one of the calendar's `MCSpec`, whose variables the screens leave alone, and gives
  `ScheduledIsPlannedToo`; the steps of the editing screens are those of `EditingSpec`, and give
  `ScreensWriteGuarded`.
* `NotionBinding_proofs`. `OneDatabaseKept` and `LateAnswersIgnored`. `Creation` says that while a creation
  may still be served, its lease is in force and there is no database; `PastIsOver`, that a lease that was
  replaced does not come back. `StatesFollowTheMapping` and `NothingLeftBehind`, for one request at a time:
  what the one active request has read is still there, and what its transaction has deleted is what there was
  (`OneActive`, `RequestFits`); a mapping without a source is no mapping (`MappedOrNot`).
* `NotionSync_proofs`. `LeftAloneAgrees`, `OnePage`, `RuleFollowed` and `StateNeverBack`: all the properties of
  the run. `SyncInv` rests on two facts. A page never changes without a later date (`PagesMove`), so a request
  or a state that finds the date it remembers finds the page it remembers (`GotThePage`, `PushedResource`,
  `StatesProperties`). And one request at most holds the lock (`OneHolder`) and has read the state under it
  (`SeesState`), so nobody else has saved since. `PushedContent` follows a push call by call.
* `IdeaDiscovery_proofs`. `ProfileLearned`, `AnsweredAsStored`, `KeptIsSaved`, `ReactionsKept`. `FreshInv`: a
  snapshot that may commit misses nothing but deleted accounts. `DateInv`: dates in rows and under way are
  before the clock. `LearnInv`: the date of a reaction compares with the reset as its history says; a reset
  under way is later than every row.
* `IndependentParts_proofs`, feeds, recommendations and limits. `FeedsKeptExact`: `FeedsInv` says that every
  item an import has read is stored, still to do, or the one at hand, so that it reports success only when all
  are stored (`FeedsCallInv`), and that a page has as many inserts as rows. `RecommendedExactlyOnce`:
  `RecommendedInv` says that what a run has walked past has a row. `LimitsAlwaysHold`: `LimitsInv` says that
  the table has one bucket for a key (`Table`), which agrees with the history of its client, and that a client
  without a bucket has no window or was evicted (`ClientInv`): a window is outlived only by that.
* `IndependentParts_proofs`, deck. `DeckAlwaysExact` and `ProfileAlwaysServers`. An answer finds another
  screen than the one that asked, so `DeckInv` relates each call to the screen: at most one call of this visit
  fills it, and the flags are set only while theirs is under way (`FlagsFit`); a selection of this visit is
  alone and was asked for an empty deck, so its cards cannot repeat what is on screen (`SelectionFits`);
  reactions under way are about different cards (`LiveFits`); the server knows each confirmed one, so no later
  answer brings the card back (`CallFits`, `CardsFit`); and every profile that an answer carries is up to that
  of the server, in the order of versions, with the latest on screen or still to arrive (`ProfilesFit`). The
  lemma `CountedDown`, that the candidates of an organization can be listed from the newest, is proved by the
  smallest counterexample, the library's induction being out of reach.

Hypotheses. Theorems assume the `ASSUME`s of their modules, which the runs evaluate: sets that are not empty
and bounds that are numbers, names of "none" that are nobody's, and for `HolderIsSafe` and `LeaseIsExclusive`
the deadlines. The constants of the hosted parts are constants of the MC modules (`RemindersAssumption`,
`AccountsAssumption`, `OnboardingAssumption`, `FeedsAssumption`, `TargetsAssumption`, `LimitsAssumption`,
`DeckAssumption`, `ScreensAssumption`), so a theorem about `MCSpec` is one for all their values; the variable
`part` restricts nothing, the other parts standing still. The `Alone...` theorems are about the specification
`MCSpec` of their MC module, for any number of requests.

Only model-checked:

* `AbandonedRunIsFailed`, `NearIsTold` and `ErrorRecovers`, as liveness under fairness is beyond TLAPS;
* `SchemaIsExact`: the columns are compared by folds over the fields of a kind, and what a fold computes is
  proved by induction over data, which the installed provers cannot instantiate;
* `ScreensAreExact`: the pages of several lists are sorted and filtered with `SelectSeq` and `SetToSortSeq`, of
  which the provers know nothing, and what the others show at rest needs an invariant over every answer that
  may still come.

No module with a theorem reaches a RECURSIVE operator.

## 6. Where the code and its documents disagree

Each of these is a run that finds a counterexample.

* `jobs_overlap` (`NoOverlap`): `docs/operations/production.md:42` promises one replica for each execution,
  "meme entre deux buckets". Renewal errors are swallowed and a handler is never stopped, so after a missed
  lease two handlers run at once. `jobs_on_time` shows under which timing the promise is kept.
* `team_last_admin` (`LastAdminProtected`): the README says that the last administrator is protected. When
  the founder was demoted, `deleteAccount` of the only administrator leaves a team nobody can administer.
* `calendar_archive` (`OnlyAdminArchives`): only an administrator may archive or restore
  (`docs/specs/20-features-v1/01-bibliotheque-contenus.md:57`); the content editor lets an editor do both.
* `notion_disconnected` (`NothingWithoutCredential`): a disconnection deletes credential, mapping and states
  (`docs/operations/integrations.md:16`); a request that had read the credential stores a mapping or a state
  after it.
* `ideas_skip` (`SkipIsNeutral`): a SKIP leaves the profile unchanged
  (`docs/implementation/spec-idea-discovery.md:37`); it recomputes it, and after a deleted account, or a
  reset that crossed a reaction, the counts change.

Two properties hold only with one request at a time. A plan that is cancelled while another request deletes
the content's other plan leaves a scheduled content without a plan (READ COMMITTED, write skew): no document
promises more. A synchronisation that ends after the mapping has changed leaves a state that points into the
former database, although `docs/implementation/spec-managed-notion-database-setup.md:34` says that states are
invalidated when the source changes. `OneDatabase` and `ProfileIsLearned` are stated with their exceptions,
`severed` and `crossed`: TLC shows that they are needed.

`SynchronisedAgrees` too: `behind` names when a content that the code takes for synchronised may differ from
its page. An edit between the listing of the item and a pull is hashed as synchronised, and its body is never
pushed; a conflict that Notion wins does the same without any race. A Notion edit between two calls of a push
is older than the date the push stores, and is not seen again. A push that stops after it has emptied the page,
or goes on without its transaction, leaves a page that the next pull takes as it is. A pull into a content with
several plans moves the first one, after which another may be first. And a content that is deleted between the
listing and the pull comes back with the status of its page. The repository does not say which of these it
accepts.

Other exceptions that the properties name, which TLC needs and which the documents do not settle or contradict:

* A repair of the schema goes field by field. A field whose column is gone adopts by its name a column that
  belongs to a later field, and both then name one column; each further repair is refused. The documents say
  that a confirmed repair makes the synchronisation possible again
  (`docs/implementation/spec-managed-notion-database-setup.md:61`).
* A repair adds columns by name: one of that name that was added since the columns were read is converted,
  although a repair converts none (`docs/operations/integrations.md:14`); `sure` excludes changes of columns
  after the reading.
* A repair or a backfill that crosses a new binding writes ids of the former source into the new mapping
  (`fresh`).
* A change of `reminderHoursBefore` gives a plan another trigger date, and so a second reminder, where
  `docs/specs/30-features-v2/04-automatisation-marketing.md:83` speaks of a single one; `ToldOnce` is about
  a plan and a date.
* An invitation may be pending for an address that has become an active member meanwhile
  (`invitations.service.ts:88` looks and writes in two statements); accepting it changes nothing that
  `JoinsAsInvited` does not allow.
* A target that is planned already counts among the oldest in the window of the recommendations, which is
  cut before planned ones are left out: ten planned contents hide the others. `RunCoversWindow` is about the
  window.
* Only the oldest inserted bucket is looked at for its expiry, so a full table may evict an open window
  while an expired one stays; `LimitHolds` names the eviction.
* The choice of a preset, which only the onboarding row tells, is lost when a read that crossed it writes
  back.
* On screen, a reading after a change may be of a month that is no longer shown; a saving or a draft that
  ends late replaces what was typed, or marks another draft as saved; an organization left and chosen again
  during an operation shows its answer twice. Each screen's `past` names the case.

## 7. What is not modelled

Left out: generation by AI beyond its page (a request with a bounded number of attempts, the validation of
an answer, a log), similarity of texts, encryption, DNS and redirections of fetches, templates of e-mails,
the dashboard and health, which keep no state or only read it; security headers; the state cookie of the
Google redirection; migrations, which run before the API.

Screens that are left out make one call and show its answer: the history and its detail, the dashboard, the
shell and the switcher of organizations, the list, creation and settings of an organization, the list of
contents, a resource of the curation, the acceptance of an invitation, and the login form. The components of
the design system have no state that an answer changes.

Within modelled components: the branch of `inspectAndPersistSchema` for a mapping without a source is never
reached, because the backfill comes first; the title of the managed database is not in `NotionSchema`; a
call that Notion serves after its caller has given up is in `NotionBinding` only.

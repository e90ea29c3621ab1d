# SubGuard in TLA+

SubGuard is a Telegram Mini App for tracking subscriptions: a Go backend
(`src/backend`: Fiber handlers, GORM on PostgreSQL, Redis, a Telegram bot and
background workers in one process) and a React frontend (`src/frontend`). This
directory models the parts in which several actors touch the same rows, checks
them with TLC and proves the most important results with TLAPS.

File names below are relative to `src/backend/internal` unless they start with
`cmd/` or `frontend/`.

## 1. Inventory

| Component | State | Operations | Interacts with | What is hard | What makes it correct |
|---|---|---|---|---|---|
| Payments and Premium (`handler/payment.go`, `bot/bot.go`, `handler/webhook.go`, `worker/premium.go`) | `users.is_donator`, `premium_expires_at`, `donations` | invoices, Stars and Crypto Pay webhooks, expiry worker | Telegram, Crypto Pay, admin panel, account deletion | redelivery, failed transactions, stale batch of the worker | a charge activates once; a paid charge is not lost; a live grant is not taken |
| Subscriptions (`handler/subscription.go`, `repository/subscription.go`, Renew/Cancelled in `bot/bot.go`) | rows of `subscriptions` | create, PATCH, delete, renew | reminder worker, trial sweep | read and write in two statements, repeated callbacks | one shift per overlap; no revival of deleted rows |
| Trial expiry worker (`worker/trial_expiry.go`) | `is_trial`, `trial_ends_at` | hourly sweep | PATCH, Renew | writes of stale rows | a trial without an end date only where one was asked for or a PATCH overlapped |
| Payment-reminder worker (`worker/notification.go`) | `notified_at`, the batch it read | check, send, stamp | subscriptions, users, pause switch, Telegram | copies, stamps at the end, shutdown | one reminder per date, none lost, none about an old date |
| Shared rooms (`handler/room.go`, `repository/room.go`) | rooms, members, services, paid marks, `last_reminded_at` | create, join, remind, pay, unpay, edit, leave, delete | both room workers, the frontend store | check and use of the cooldown, concurrent membership | members and shares agree; one manual reminder a day |
| Billing reset worker (`worker/billing_reset.go`) | `has_paid`, `last_billing_reset_at` | hourly check | rooms | two-hour window, short months, restart | each month reset once, new payments kept |
| Room reminder worker (`worker/room_reminder.go`) | `last_billing_reminder_at` | hourly check | rooms, Telegram | shutdown in mid-room | a reminder on the day before the reset |
| Paywall and connection pool (`handler/subscription.go`, `handler/room.go`, `repository/admin.go`, `cmd/server/main.go`) | row locks, pool of connections | count and insert under a lock | every request | a second connection inside a transaction | limit kept; requests finish |
| Account lifecycle (`handler/user.go`, `middleware/auth.go`, `bot/bot.go`) | `users` and what they own | sign-in, update, export, delete, revive | everything | deletion against live requests | nothing of a deleted account stays or returns |
| Admin bot panel (`bot/admin_panel.go`, `repository/admin.go`) | dialogue state, settings record | switches, dialogues | workers, paywall, maintenance | read-modify-write of the settings | no switch undone |
| Broadcast (`bot/broadcast.go`, `handler/admin.go`) | running flags, counters | start, send pool, stop | Supervise, Telegram | two locks, restart after a panic | each user at most once |
| Worker supervision (`workerutil`) | back-off | restart | every worker | panics | workers keep running |
| Maintenance guard (`middleware/maintenance.go`) | cached flag | check | admin panel | cache age | switch takes effect in bounded time |
| Currency worker (`worker/currency.go`) | rates in Redis | refresh | frontend | refresh against expiry | rates are there |
| Server lifecycle (`cmd/server/main.go`) | wait group, pools | start, stop | every worker | order of shutdown | workers end before their pools close |
| Frontend stores (`frontend/src/stores`) | cached rooms, open room, subscriptions, settings, paywall config, rates | fetch, mutate, refetch, roll back, retry | the REST API, every page | answers in any order, aborted loads, snapshots taken too early | no old answer replaces a newer one; the store ends as the server |
| Shared-room sheet (`frontend/src/components/subguard/SharedRoomSheet.tsx`) | dialogs, busy flags, service picker | edits, marks, reminder, add a service | `roomStore`, links that open a room | the sheet changes room while answers are under way | the mark the user was told of; a note for a second service of a brand |
| Subscription and room forms (`AddSubscriptionSheet`, `CreateRoomSheet`, `GlobalModals`) | drafts, steps, in-flight flags | fill in, save, close, reopen | stores, profile | requests outlive the sheet, the profile arrives late | one row per form; no payment moved unasked |
| Mini App shell (`frontend/src/routes`, `lib/telegram.ts`, `hooks/use-telegram-back.ts`) | route, tab, open sheets, stack of handlers | boot, navigate, open, close, back | Telegram's native back button, every sheet | an effect runs after the state it reacts to | the button peels one layer |
| Settings, privacy and premium sheets (`SettingsView`, `NotificationsSheet`, `PrivacySheet`, `PremiumSheet`) | busy flags, timers | save, delete, pay with Stars or Crypto | `settingsStore`, Telegram invoices | async functions that outlive the sheet | no idle spinner, one payment awaited at a time |
| Swipeable cards (`hooks/useSwipeGesture.ts`, `SwipeableRoomCard`, `lib/buttonClickPrimer.ts`) | gesture, tray, snap animation | touch, mouse, click, delete | the browser's event order | emulated mouse events and clicks after a touch | a swipe is no tap |
| List views (`Dashboard`, `CalendarView`, `AnalyticsView`, `RoomsPageView`, `FilterSheet`) | search, filters, draft, month, day, range | search, filter, sort, page | stores | selections kept while rows come and go | every view lists what the store holds |
| Frontend presentation and helpers, configuration, seed data, observability, notifier, recommendations, deployment | none of their own, or presentation | | | | not modelled |

`PROJECT.json` has the same list with sources and status, and the hazards with
their lines.

## 2. Plan

1. **Premium**, **PaymentLedger** (done, proved): money first.
2. **Subscriptions** (done, proved) and **Reminders**, which extends it with
   the worker that reads and stamps the same rows (done, proved).
3. **Calendar**, **Rooms** and **RoomBilling** (done, proved): the room
   handlers and account deletion over one room table, and on top of them the
   billing reset and the room reminder. `Calendar` holds the two clamping rules,
   which are proved to name the same day.
4. **Broadcast** (done, proved): the bot's and the REST handler's
   broadcast under Supervise.
5. **RoomClient** (done, proved): `roomStore` and the room sheet against the API,
   every call in the three steps sent, handled, answered.
6. **CreateRoomForm**, **SubscriptionForm**, **RoomPicker** over **Catalogue** (done,
   proved): what the user fills in while requests are under way.
7. **Pages**, **SettingsClient**, **PremiumCheckout**, **SwipeCard**, **DashboardList**
   (done, proved): the shell, the settings, payments, gestures and views of the client.
8. Proofs (done): every safety invariant and action property the runs check is a theorem,
   and of `EveryRunEnds`, `LapsedEventuallyCleared` and `BlankSheetIsExplained` the part that is not
   about fairness (section 5).
9. Models left: a **Paywall** (transactions with row locks over a bounded pool, an atomic
   counter as what they implement), the **admin dialogues** over the one settings record, and a
   **Lifecycle** with the order of the shutdown. Section 7 says what they would add.

Runs stay at one or two users, subscriptions or rooms, two concurrent requests,
one or two workers and a clock of one to three days; each hazard needs no more
actors than that.

## 3. The modules

### Premium and PaymentLedger

`Premium` has the user rows, the donation rows, the charges at the providers,
the webhook requests in flight and the expiry workers with the batch they have
read. Each handler is split where it talks to the database: a Crypto Pay
request looks the user up (`DeliverCrypto`), then commits or fails
(`CommitCrypto`, `TxFail`); a Stars payment is handled in a goroutine after
Telegram has its 200, so it is delivered once whatever happens, while Crypto
Pay delivers again until it gets a 200. The worker reads a batch
(`WorkerSelect`), downgrades row by row (`WorkerDowngrade`) and then notifies
(`WorkerNotify`). The admin's switch, `DeleteMe` and revival by the next
authenticated request appear as far as they touch premium and donations.

`PaymentLedger` is what the payment code promises: a paid charge is settled at
most once, and settling is what activates. `Premium` implements it under the
refinement "settled" for charges with a donation row and "activations" for the
history of credits (`ImplementsLedger`).

A delivery whose user is not found is answered 200 and records nothing. The code does the
same when the lookup itself fails (`handler/payment.go:392`), so the model keeps two actions
and two histories: `DeliverUnknownUser` with `refused`, and `LookupFails`, a fault, with `missed`.
`CryptoNeverLost` does not excuse a missed charge as refused: each costs one fault.

Two facts that no document denies are part of the model: a Stars payment whose
transaction fails is lost (`CryptoNeverLost` is about Crypto Pay only), and a
month plan bought over a lifetime grant sets an expiry date.

### Subscriptions

The rows of one user, the requests between their two statements, and history:
`since` (how the row a request read was changed by others) and `shifts` (periods
each tap added). PATCH and Renew read (`BeginUpdate`, `BeginRenew`) and write
(`FinishUpdate`, `FinishRenew`) in separate statements. `FinishRenew` has the
`WHERE next_payment_at = prev` of the code; `FinishUpdate` writes every editable
column from the request or from the row as it was read, so a concurrent renewal
is overwritten: the last writer wins. `TrialSweep` is the hourly UPDATE. `Create` takes
`is_trial` and the end of the trial separately, because the second is optional, and a PATCH body
that leaves `is_trial` out writes back the value that was read (`TrialOf`). A trial without an end date is
none the sweep will ever find. `endless` is the history of who made such a row possible: the owner, by asking for it, or a
PATCH in flight that had read a trial when the sweep or a Renew ended it (`TrialsEnd`).
A date is a local day that falls due at its noon, as `parseUserDate` stores it;
a day has `SlotsPerDay` moments. The id of a deleted row is not used again.
Names, amounts, notes and icons are left out: they never guard a step.

### Reminders

`Reminders` extends `Subscriptions` with one check of the worker:
`StartCheck` (the candidate query, with the user and the rows as read),
`Remind` (one row: gates on the copies, then a send with one of three outcomes: not sent, sent, or
`late`, a timeout after which the message has arrived, while the worker takes it for failed and does not stamp),
`Interrupt` (SIGTERM ends the loop), `Persist` (one UPDATE stamps what was
sent) and `LoseCheck` (a crash, or a stamp that fails and is only logged). The
paged read of the batch is one read here; 48 h and 20 h become slots.
`pings` counts reminders since the row was last re-armed (its date or period
changed, or its stamp was cleared).

### Calendar, Rooms and RoomBilling

`Calendar` numbers local days and knows of each its place in its month.
`DueOn` is the day part of `roomDueForResetNow`, `billsTomorrow` the function of
that name: one clamps by comparing with the last day, the other by a minimum.

`Rooms` has the rows of `shared_rooms` with their three stamps, the paid mark of
each member, the services, the Join and Remind requests in flight and the
account deletions. Most handlers check the owner, who never changes, and run one
statement that matches nothing in a deleted room: one action each. `Join` is
`BeginJoin` and `FinishJoin` (insert, nothing on conflict, foreign key on the
room); `Remind` is `BeginRemind` (cooldown), `SendReminders` and `FinishRemind`
(stamp); `DeleteMe` is `BeginErase` (lists the owned rooms) and `FinishErase` (the
commit). Creating a room locks its owner's row, so the paywall's count and the
insert are one action. The clock is one time zone without
daylight-saving changes: rooms never compare theirs.

`RoomBilling` adds the two hourly workers. A tick reads copies (`ResetRead`,
`RemindRead`) and goes through them room by room (`ResetRoom`) or member by member
(`TellMember`, `StampRoom`) while requests run in between. "23 hours" is a day
less an hour of the model's shorter day. `Shutdown` is SIGTERM: it ends both loops
where the code looks at its context, and the next process ticks on boot.
`CrashRestart` does the same anywhere. The hour passes when its ticks are over or
missed. `settled` (when the billing day last changed), `told` (messages of the
day) and `torn` (rooms whose stamp is missing) are history.

`CooldownHonoured` excepts reminders that overlap, and those after one whose stamp was
lost (`crossed`), until one has ended alone: two overlapping `Remind` requests do
both message everybody. Two facts that no document denies: a billing day changed after that day's reset
makes a second reset on a later day of the same month; and a room reset the day
before has its stamp in the way of the first tick of the window, so only
the second is left.

### Broadcast

`Broadcast` has both programs that send one message to many users. A run is a row
(`run`: its campaign, whether it took the lock, its phase, what stopped it, how often
Supervise restarted it) with its own reader (`feed`), channel (`queue`), senders
(`sending`) and counters (`count`); runs share the locks in Redis and the users. `Start`
is the handler up to the goroutine: `TakeLock` is a SetNX that succeeds, `LockFails` one
that fails, after which both handlers go on without the lock. The reader takes a page
(`FetchBatch`) and passes it on user by user (`Feed`), waiting when the channel is
full; a sender takes a user (`Take`) and Telegram answers (`Send`): `late` is a timeout
after which the message has arrived all the same. `CloseChannel`, `Finish` and
`Release` are the end of a run: channel closed, senders waited for and counters
reported, lock deleted. The two programs differ in the key (one per campaign in the bot,
one for the whole API), in who deletes it (`Releases`: the bot whether or not it took the lock,
the API only if it did) and in where users are filtered (`Matching`, `Blank`).

`Panic` is a panic in the reader: the senders' context ends, their channel is never
closed, and `Restart` is Supervise running the whole broadcast again with another 24 hours,
from the first recipient. A panic in a sender, which no one recovers, and the
end of the drain timeout are a `Crash`. `LockExpires` deletes a lock nobody is entitled to any more.
A lock's 24 hours begin a moment before those of its run; that moment is left out. Message
texts, albums, throttling and progress are left out too: they decide neither who
is sent to nor how often.

### RoomClient

`RoomClient` is `roomStore`, the room sheet and the pages that list rooms. A call is sent
(`Send`, `StartFetch`, `FetchRooms`), handled by the backend (`FetchRead`, `Handle`,
`HandleCreate`, `ListRead`) and answered (`FetchPopulates`, `MarkOk`, `RefetchAfterMutation`, `CreateOk`,
`JoinOk`, `ListAnswered` ... or the step that fails), with anything in between. The backend is
only what the client can tell: whether a room exists, its version, the paid mark of its other
member, whether it was reminded. `fetchDetail` aborts the load it supersedes: `StartFetch` drops it,
silently if it was stopped before the headers, by blanking the detail if it was stopped in the body
(`AbortOutcomes`). Marks answer with the room, so they write the open detail; every other edit
loads it again. `told`, `mark` and `seen` are history: how a failed load was reported (by a `toast`, or `hushed`: a 401
that `api.ts` does not announce because it announced one less than 30 s before), the last
mark the user was told of, the newest version an answer told of.

### Catalogue, CreateRoomForm, SubscriptionForm and RoomPicker

`Catalogue` has the brands and what a search finds of them. `CreateRoomForm` is the sheet with
its steps (name, services, own service), the note asked of a second service of a brand, the
effects that clear it when it closes, and the POST that survives a close. `SubscriptionForm` is the other sheet
with the handler `GlobalModals` gives it and `addSubscriptionInFlight`: a row is its payment day,
shown in the zone the client guesses until the profile lands (`ProfileLands`) and anchored at
noon by the backend. `created` counts the rows made of one filling of the form. `RoomPicker` is the picker in the room sheet: adds are
handled and answered in two steps, removals in one, and the list it checks for duplicates is the
one last shown. `unsure` holds the brands of adds that were tapped again or whose answer was lost.

### Pages, SettingsClient, PremiumCheckout, SwipeCard and DashboardList

`Pages` is the shell: route, tab, sheets, the free-tier gate, links, and what `RootComponent`
replaces it by. React runs an effect after the render that asked for it, so `RunBackEffect` is a step of
its own and `ran` is what it last saw: only then are handlers pushed and popped.

`SettingsClient` is `settingsStore` with its sheets. `SaveSetting` changes the store and sends;
`PatchFails` puts back the whole record the save started from; `ProfileAnswered` replaces the
record and starts the zone sync of up to three attempts (`SyncSends`, `SyncHandled`, `SyncOk`,
`SyncFails`). `raced` remembers that requests overlapped or an answer was lost.

`PremiumCheckout` has one record per payment that runs, because the handlers are async functions that go on when
the sheet is closed, and write the flags of the sheet opened since. A payment that Telegram called `pending`, or did
not answer for in five minutes, stays under way in a phase of its own (`InvoicePending`, `PendingSettles`), although no handler
awaits it any more and the buttons are enabled; `Awaited` are the others. `SwipeCard` is one card: touch and mouse
gestures, the mouse events a browser emulates after a touch, the click primer, which clicks
when the browser does not, and the snap animation with its listener and timer. The hook takes 6 px for a drag and
the primer 10 px for a tap (`AXIS_LOCK_DISTANCE`, `TAP_MOVE_TOLERANCE`), and a browser's slop is taken to be no smaller, so a touch in between is
both. `reach` is where the pointer has been relative to the slop of a tap, `rearmed` the history of whether the emulated mouse
events of this press reset the hook's `didDrag`. `DashboardList`
has the pipelines from the store's rows to what the dashboard, the calendar, the analytics and the rooms page list.
`Array.filter` and the stable `Array.sort` are one operator, `Sorted`: a position that is `Kept` goes where the number of
kept positions `Preceding` it says, by key and then by place. Names are represented by their rank in the alphabet.

`MCForms` and `MCPages` put these modules in one run each. The modules share no state, so a
behaviour plays one of them (`played`) and the run is the sum of the parts, not their product.

## 4. The runs

| Run | Instance | Shows |
|---|---|---|
| `premium` | 1 charge, 2 requests, 2 workers, 3 time units, 2 faults, fairness | `CreditedOnce`, `CryptoNeverLost`, `ImplementsLedger`; `UntouchedRowsLapsed`: only a grant made after the batch was read can be caught by a downgrade; `NoticePerDowngrade`, `CryptoEventuallySettled`, `LapsedEventuallyCleared` |
| `premium_recorded` | violation | a donation recorded for an account deleted meanwhile activates nothing, ever |
| `subscription_rows` | 1 subscription, 2 requests, 2 taps | `DoubleTapShiftsOnce`, `DeletedStaysDeleted`; `EndlessTrialExplained`: where trials without an end date come from |
| `reminders` | 1 subscription, 1 request, 2 days of 3 moments, 1 fault | `OnePingPerDate` (one more for each fault), `SuppressedWasSent` |
| `rooms` | 1 room, 2 users, 2 requests, 1 account deletion, 2 days of 2 hours | `NoOrphans`, `OwnerIsMember`, `CooldownHonoured`, `JoinKeepsPaidMarks` |
| `rooms_account_deletion` | violation | a room created while its owner is being deleted survives |
| `room_billing` | 1 room, 1 user, 5 days over two months, 1 fault, 1 restart | `ResetOncePerDay`, `ResetOnBillingDay`, `ReminderBeforeReset`, `ToldOnce` |
| `broadcast` | 2 campaigns of the bot and 2 of the API, 2 users, 2 runs, 2 senders, channel of 1, pages of 1, 2 attempts, 1 fault, fairness | `RunKeepsItsLock`, `NobodyTwice`, `ReportCountsAll`, `ReachesEveryone`, `EveryRunEnds` |
| `room_client` | 2 rooms, 2 mutations, two kinds of edit, fairness of the loads | `FreshAfterWrite`: a load brings nothing older than what the client knew when it was sent; `LastMarkWins`, `JoinedListedOnce`, `BlankSheetIsExplained` |
| `forms` | 2 brands, 2 currencies, 3 picks, 2 saves; 2 subscriptions, zones 13 hours apart, 2 openings, 2 requests; 2 adds | `OneCreateInFlight`, `OneRowPerForm`, `UntouchedDateKept`, `NoteTellsApart` |
| `pages` | limits of 1, 1 item; 2 settings, 3 zones, 2 saves, 1 profile read; 3 payments, 2 openings; 2 snaps; 2 of 3 subscriptions, 2 rooms | `BackButtonMatches`, `BackPeelsOne`, `QuietStoreIsTrue`, `OneCheckout`, `BusyMeansRunning`, `SwipeOpensNothing`, `ViewsMatchItems` |
| `settings_zone` | violation | the sync of the browser's zone overwrites a zone the user picked meanwhile |

No run has a type invariant: TLAPS proves those of every module for all constants.

**Bounds.** `MaxTime`, `MaxDay` and `Horizon` bound the clock and the dates,
`MaxDeliveries` the deliveries of one callback query, `MaxFaults` crashes and
failed statements. Two requests are enough for every overlap because a request
meets others only through the row; a third sees the same row. Two workers
are what a rolling deployment runs. In `subscription_rows` the clock covers one
day: its properties compare dates, never the clock, and the sweep's condition
already holds in that day's last moment. In `reminders` a day has a moment before
noon, noon and one after, the window is one moment and the notification time
noon; so a later moment of the same day is inside the window, and the
next day is outside. In the room runs a day has two or
four hours and months have two or three days, so that a billing day of 3 is past the end
of the first month; the reset window is two hours as in the code, the
reminder comes after it. One room is enough: rooms share nothing but their owner's limit. Symmetry permutes
requests in `rooms`, which has no liveness property. One charge is enough in `premium`: charges meet only in their user's row, which the
admin's switch changes as well, and the safety properties are proved for any number. In
`broadcast` one campaign of each kind addresses nobody: its runs matter for the lock alone. At most
one key is in use (`MaxKeys`) and one run at a time addresses users (`MaxBusy`), since runs of
different keys share nothing and all runs share nothing but locks and users. A channel
of one, pages of one and two attempts make the reader wait, page and retry.

In `room_client` two rooms let the sheet change room under an answer, and two mutations
(`MaxOps`) overlap each other and the one load that owns the abort controller. Edits are represented by one
that the user confirms and one that is sent at once: all of them end in the same refetch. In `forms`
the zones are 13 hours apart, so noon in one is another day in the other, and two openings of a
form with two requests let an answer meet the next filling. In `pages` two saves and one profile
read make every overlap of two writers with the sync's three attempts; three payments allow two in flight
after the sheet was left and a third in the new one; travels of -100, 0, 8, 40 and 100 pixels along each axis and
speeds 0 and 6 fall on either side of the thresholds of the gesture, and 8 between the 6 px of a drag and the 10 px of a tap; the subscriptions differ in every field a view
looks at (`ListPool`). The proofs do without all of these bounds; only the liveness properties keep them.

**Deadlock.** It is checked in the Premium runs. In the other runs it is off, because the bounded clock,
used-up ids and counted saves, openings and mutations let the instance stop where the program would idle.

**Fairness.** `Premium!FairSpec`: Crypto Pay repeats a webhook that has not been
answered with 200, requests run to their end, and the worker's ticker fires. Payments, users, crashes
and the clock are not fair.
`Broadcast!FairSpec`: the steps of a run are fair. Goroutines are scheduled, Telegram answers or
the client's timeout fires, the database answers, and Supervise restarts what panicked. Starts,
faults, deadlines and users are not fair. `Blank` users and stopped runs are part of the fair steps,
so no wait is assumed away.
`RoomClient!Fairness`: a GET is handled and settles (`FetchRead`, `FetchSettles`), with an answer or with a failure:
`fetch()` never stays open for ever. The user, mutations and links are not fair.

## 5. Proofs

`PremiumProofs` proves for any users, charges, requests, workers and bounds:

- `PremiumTypeCorrect`: the type invariant;
- `ChargesCreditedOnce`: a charge switches Premium on at most once while its
  donation row exists. The invariant that carries it says that every credit is
  backed by a donation row, which is written in the same transaction;
- `CryptoPaymentsKept`: a paid Crypto Pay charge is recorded, still due, refused
  because the row of its user was gone, erased with its account, or missed by a failed lookup; and there are no more
  missed charges than faults (`Cardinality(missed) <= faults`, carried by the invariant with the finiteness of `missed`);
- `StaleRowsOnlyAfterNewGrant`: a batch row that was not granted anew since it was
  read is still lapsed;
- `OneNoticePerDowngrade`: the workers about to tell a user of a downgrade are never more than the downgrades of
  that user nobody has told of. It is inductive with the types: an UPDATE that matched makes one notice due and one
  worker owe it, and a message spends both. To count, the workers must be finite (`WorkerAssumption`);
- `WebhooksImplementLedger`: `Spec` implements `PaymentLedger`; each commit maps
  to a settling step and every other step stutters;
- `LapsedGrantsWorkedOff`: while a grant is lapsed every worker can take a step (`WorkerReady`); a tick reads every
  lapsed grant; each further step takes something from the finite set `WorkLeft` (rows, and the messages
  they may earn), which nobody else adds to; and a row that leaves the batch is lapsed no more or something failed.
  It needs `NoticeAfterRow`: the worker that owes a message is through with that row;
- `RequestsEndSettled`: a webhook request ends with its charge in `donations`, or something failed.

`SubscriptionsProofs` proves for any subscriptions, taps, requests and periods:

- `SubscriptionsTypeCorrect`;
- `DeletedRowsStayDeleted`, from `TypeOK` and itself: it is inductive because an UPDATE
  matches live rows only and `Create` never takes a used id;
- `DoubleTapShiftsTheDateOnce`. The property alone is not inductive. `Moved` strengthens
  it: for every request, a row nobody wrote since has the date that was read, and
  a row that was only renewed since has a later one, so the `WHERE` of a stale Renew
  cannot match. It rests on `CalendarAssumption` (a period has at least one day: lemma `Forward`), and on
  `NotedFacts` (how a request's history grows);
- `EndlessTrialsExplained`, from `EndlessInv`, which also covers what the PATCH requests in flight have read (`LeftEndless`): a
  trial such a request read is ended only by steps that put its row into `endless`.

`RemindersProofs` proves for any subscriptions, requests and taps:

- `RemindersTypeCorrect`;
- `RemindersSpaced`: if nobody is reminded before slot `e` of a day, the `n` reminders about one date, less one for each fault
  (a crash, a failed stamp, a send that timed out late: `Surplus`), fit into one day
  with more than a dedup window between each two: `e + (n - 1) * (DedupSlots + 1)` is a slot of that day (`Fits`). Its
  invariant `PingsInv` says where the last reminder that was sent is accounted for: in a stamp of the day before the
  date, at a slot into which all of them fit, or in the memory of the running check (`Accounted`); that what the
  check sent it sent for the day after it began (`SentToday`); and that a row still in its batch has room for
  one more (`RoomForOne`), which the candidate query's window gives;
- `OneReminderPerDate` (one, and one more for each fault), under `LateTimes` (a notification time late enough that the dedup window reaches the
  end of its day), and `TwoRemindersAtMost`, for any notification time, under
  `2 * (DedupSlots + 1) >= SlotsPerDay`: twenty hours twice are longer than a day. With an early time the code really
  sends two (section 6), and three only after a fault. Both follow from `PingsInv` by counting (`AtMost`);
- `RowsBesideWorker`: `DeletedStaysDeleted` and `DoubleTapShiftsOnce` hold with the reminder worker stamping rows
  between the two statements of a request. A stamp moves no date, revives no row and re-arms none (`StampsKeepRows`);
- `DedupLosesNoReminder`, without `LateTimes`. Its invariant `StampsInv` says that every stamp, and all the running
  check has sent and not stamped yet, has a reminder on record for the day that followed it (`StampIsPinged`,
  `SentIsPinged`). `LastMomentBlocks` turns it into the property: a window shorter than a day that still blocks at
  the last moment blocks by a stamp of that same day.

`RoomProofs` proves for any rooms, users, services and requests, and any calendar:

- `ReminderAndResetAgree`: `billsTomorrow` today is `DueOn` tomorrow;
- `RoomsTypeCorrect`, `BillingTypeCorrect`;
- `NothingOutlivesItsRoom` and `OwnerStaysMember`, from one invariant. What makes it
  inductive is `Listed`: a running account deletion has listed every room of the
  account but those created since (`overlap`), so its last statement, which removes
  all memberships, takes no owner out of another live room;
- `NoRoomIsResetTwiceADay`, from `NotYetReset`: a room still in the worker's copies
  has, in the table, a stamp older than the window, since only the worker writes
  it and the hour does not pass under it. `StaleIsAnotherDay` turns that into a
  different day;
- `JoinsKeepPaidMarks`: the INSERT of a join adds a row or nothing (`Joined`), whatever was marked while it was in flight;
- `CooldownIsHonoured`, from `CoolInv`, which tells for each request that is past the cooldown check whether it ran
  `Alone`, has `Waited` a day since the last message, or found a stamp no younger than that message (`Stamped`);
- `MembersToldOnce`, from `ToldInv`: a member the worker has still to message was not messaged today, unless a
  tick was torn before its stamp;
- `RemindedBeforeReset` and `ResetByTheEndOfTheWindow`, from `WindowInv`: where today's tick of each worker
  stands relative to each room, for rooms whose billing day stood. `EveInv` carries the stamp of the eve over
  midnight (`StampedToday`, `StampedYesterday`), by `ReminderAndResetAgree`; by `NeverDueTwice` a room is not due on two
  days in a row, so the stamp of the day before cannot hide the one of today;
- `RoomsBesideWorkers`: what the handlers guarantee by themselves (`NoOrphans`, `OwnerIsMember`, `CooldownHonoured`,
  `JoinKeepsPaidMarks`) holds while both workers write the same rows. The workers' steps leave the room handlers' part
  alone, change stamps no invariant of it reads, or are resets, which no join takes part in.

`BroadcastProofs` proves for any campaigns, users, runs, senders and capacities:

- `BroadcastTypeCorrect`;
- `LockKept`: the property is inductive with the types. A step moves rows of runs in one way only
  (`Moved`: campaign and lock mark stay, restarts never go down), so a run that is stray stays stray
  (`StrayStays`); a lock is deleted by `Release` or `LockExpires` only (`LockSteps`), and whoever
  deletes another run's lock has lost its own to a stray run or is one;
- `NobodyIsToldTwice`, `ReportsAreComplete` and `NobodyIsSkipped`, from one invariant, `PassInv`, about each run by itself.
  In one pass over the users a user is in one place only: still to be read, in the channel, with one sender,
  or done with (`OncePerPass`), so the copies are bounded by the passes (`Bound`); every user taken from the channel
  is counted when the sender lets go of it (`Counts`); every user eligible from the start is in the batch, was fed to the
  channel, or lies beyond the last page read (`Reach`); and when a report is made the channel and the senders'
  hands are empty (`Rests`);
- `NobodyWaitsForEver`: a run that goes on has a step whose guards hold (`CanStep`, spelled out for each phase). A reader that
  waits on the full channel has a user in it, whom a sender that is free can take or one that is not can let go of; a reader that waits for
  its senders to finish has one that still can; a page that is not empty has a first user (`PageExists`, from a ranking
  of the users, `Ranks`);
- `EveryStepIsOneLess`: every such step takes at least one token from the finite set `Left`, which holds the
  phases the run still owes and, for each user, the steps it still takes to read, pass on, take and try it; no step
  of anybody else adds one. A fault (a restart by Supervise among them) may, and there are at most `MaxFaults`. It rests on `WhereUsersAre` (the place of a user in the pass)
  and one lemma for each kind of step (`FetchTakes`, `FeedTakes`, `TakeTakes`, `SendTakes`, `PhaseTakes`).

`RoomClientProofs` proves for any rooms, edits and number of mutations:

- `RoomClientTypeCorrect`;
- `LastMarkStands`, from `MarkInv`: marks are sent one at a time (`payBusy` is set as long as one
  is in flight and no longer), and between handling and answer the one in flight is what the backend holds;
- `LoadsAreFresh`, from `FreshInv`: an answer carries at most the version the backend has, what
  the client has `seen` is never newer than that, and a load that superseded another was sent with all that was heard;
- `JoinedRoomListedOnce`, from `ListInv`: the invite joins one room once, and its answer appends it only if the list lacks it;
- `BlankSheetIsLoading`: a sheet that is `Blank` (no detail, and no report of a failure, be it by a toast or by the
  one a 401 had within 30 s before) has a load in flight (`BlankLoads`), and a load that settles leaves no sheet
  `Blank`. The steps that clear a detail without a word or a load are answered deletions, so it needs that an answered
  deletion is of a room that is gone (`DeletesAreDone`) and that a room that is gone stays gone.

`FormsProofs` proves for any brands, subscriptions, days, zones and numbers of requests:

- `RoomFormTypeCorrect`, `SubFormTypeCorrect`, `PickerTypeCorrect`;
- `OneRoomPerSave`: the property is inductive with the types, because `saving` outlives the drawer;
- `OneSubscriptionPerForm`, from `RowInv`: one POST is in flight at a time (`OneAdd`), none that is not handled
  has made a row, and a filling that made one is still waiting for its answer or closed;
- `EditKeepsTheDay`, with the lemma `NoonIsThatDay`: noon of a day in a zone falls on that day in that zone, so the
  sheet filled in again once the profile landed shows the day the row was saved with;
- `PickerTellsApart`, from `PickerInv` with `TellsApart`: what the sheet shows of the brands that are not
  `unsure` is what the backend has, so the duplicate check that reads the one decides about the other.

`PagesProofs` proves for any numbers of items, fields, values, payments and pointer travels:

- `PagesTypeCorrect`, `SettingsTypeCorrect`, `CheckoutTypeCorrect`, `SwipeTypeCorrect`, `ListTypeCorrect`;
- `BackButtonFollows` and `BackButtonPeels`, from `HandlersMatch`: the stack is the one handler the effect
  pushed when it last ran, or empty;
- `SettingsPageIsTrue`, from `QuietInv`: with requests one at a time, whatever is in flight tells what the
  store, the backend and the snapshot to go back to are (`SaveTells` for a save);
- `OnePaymentAtATime` (`OneInv`) and `NoIdleSpinner` (`BusyInv`): which flags go with which awaited payment;
- `SwipeIsNoTap`, from `PressInv`: a click that may still come of a drag finds `didDrag` set, or the emulated mouse
  events of that press have reset it (`rearmed`);
- `ViewsKeepTheirState`: the state that `ViewsMatchItems` rests on besides its pipelines. No row is stored twice, a chosen day
  lies in the month on display, a preset shows its own range, the rooms are in the stored order, and the
  filter sheet is over the dashboard;
- `ViewsShowTheRows`: `ViewsMatchItems` for any rows, rooms and keys, from that state and lemmas about the pipelines. No
  induction over the list is needed. The rank of a kept position is the number of kept positions before it in the order; two
  of them have two ranks, all in `1..n`, and an injection of a finite set into one of its size is onto. So each rank is taken once: the result
  has every kept row, in order.

The assumptions on constants type the bounds and values: `CalendarAssumption`, `LimitAssumption`,
`TapAssumption`, `NullAssumption`, `RoomAssumption`, `BroadcastAssumption`, `ClockAssumption` and `FaultAssumption`, and for the
client `RoomClientAssumption`, `CatalogueAssumption`, `CreateRoomAssumption`, `SubscriptionFormAssumption`,
`PickerAssumption`, `PagesAssumption`, `SettingsAssumption`, `CheckoutAssumption` and `SwipeAssumption`.
Eight say more, each with its reason in the code:

- `WorkerAssumption`: there are finitely many workers (one per replica of the server);
- `UserAssumption`: and finitely many rows in the users table;
- `ReminderAssumption`: the dedup window is shorter than a day (`worker/notification.go:69`: 20 hours);
- `BillingAssumption`: the reset window takes two hours at least and ends before the day does
  (`worker/billing_reset.go:138`: hours 0 and 1). A window of one hour has no second tick to make up for a missed one;
- `ListAssumption`: the rows and rooms have natural numbers for amounts, days, members and the rank of their names, and the
  rooms are finitely many;
- `DateAssumption`: days are consecutive days of months that have two days at least, so no room is due on two
  consecutive days;
- `RowAssumption`: NULL is no row, request or moment;
- `RoomClient!NullAssumption`: null in `detailAbort` is no request.

TLC evaluates all of them in every run of their module.

Model-checked only are the four liveness properties, because weak fairness speaks of ENABLED, and the step from "it always
gets less" to "it ends" is an induction over data; the prover has neither. What can be proved of them is:

- `EveryRunEnds`: `NobodyWaitsForEver` and `EveryStepIsOneLess`. TLC confirms that `CanStep(r)` is `ENABLED RunStep(r)` on the
  instance of `broadcast`;
- `LapsedEventuallyCleared`: `LapsedGrantsWorkedOff`; `WorkerReady(w)` is `ENABLED WorkerStep(w)` on the instance of `premium`;
- `BlankSheetIsExplained`: `BlankSheetIsLoading`; left is that a load is handled and settles;
- `CryptoEventuallySettled`: `CryptoPaymentsKept` (a charge that is not settled is still due) and `RequestsEndSettled`; left is that a
  provider repeats what is due and a request runs to its end.

No module declares a RECURSIVE operator.

## 6. Where code and documents disagree

Three are runs that TLC refutes, with the quoted line in `PROJECT.json` "findings": a donation
recorded without an activation; a room that survives its owner's account; and the zone sync that
overwrites a zone the user picked.

More are in the models without a run of their own. In the backend:

- the downgrade takes away a lifetime grant bought after the batch was read (`worker/premium.go:91`; :23 says
  "Lifetime grants (NULL expiry) are never touched");
- a delivery of the Renew callback that reads after the first one committed shifts the date again
  (`bot/bot.go:501`, beside the double-tap guard described at :486);
- a notification time in the first hours of a day gives two reminders for one date (`worker/notification.go:374`;
  :67 says "at most one ping per renewal date"), and three only after a fault (`TwoRemindersAtMost`);
- a shutdown between two members of a room ends the tick before its stamp, and the next process
  messages the first ones again (`worker/room_reminder.go:132` against the stamp at :156);
- a paid Crypto Pay charge whose user lookup fails is answered 200 and lost, although the user exists
  (`handler/payment.go:392`; the failed transaction below it is answered 500 so that it is delivered again);
- a Crypto Pay webhook repeated after `DeleteMe` and a revival of the account activates the charge again, because the
  deletion drops the donation row that deduplicates it (`handler/user.go:393`). `CreditedOnce` and `ImplementsLedger` count since that deletion and do not say otherwise;
- trials without an end date, which the sweep skips for ever (`worker/trial_expiry.go:23` says "without this sweep is_trial
  would stay true forever"): POST and PATCH can ask for one, and a PATCH that read a trial writes `is_trial` back after the sweep or a
  Renew set `trial_ends_at` to NULL. `EndlessTrialExplained` says there is no other way;
- a reminder whose send times out after it was delivered is not stamped and goes out again at a later tick
  (`worker/notification.go:275`), again beside "at most one ping per renewal date";
- the reminder worker sends from the copies in its batch, so a row renewed or deleted since is
  still reminded of (`worker/notification.go:324`: "keeps the in-memory loop honest if the
  data races with another writer");
- two overlapping `Remind` requests both pass the cooldown (`handler/room.go:277`);
- a broadcast that Supervise restarts sends its message again to those who have it, and its
  24 hours begin anew while those of its lock do not (`bot/broadcast.go:180`: "TTL = 24h matches the
  worker's max run time"). `NobodyTwice` counts restarts, and `RunKeepsItsLock` excepts them.

In the frontend (`frontend/src`):

- a load that fails with a 401 less than 30 s after another 401 of the app blanks the sheet without a toast: `stores/roomStore.ts:109`
  leaves a 401 to `api.ts` ("handled globally by api.ts (reload)"), which toasts, debounced, and does not reload (`lib/api.ts:92`).
  `BlankSheetIsExplained` takes the earlier toast as the report;
- the answer of a mark, and the load that follows another mutation, become the open detail whichever room the sheet
  shows by then (`stores/roomStore.ts:150`, :187), so the sheet of one room can show another;
- a deletion that is answered while the sheet shows the room again blanks it for good: no load follows;
- `refetchAfterMutation` has a catch that nothing reaches, because `fetchDetail` never throws (`stores/roomStore.ts:188`);
- the deep link is handled once per mount of the dashboard (`hooks/use-deep-link.ts`; :8 says once per session);
- a second, different subscription saved while a POST is in flight is confirmed to the user and never sent
  (`stores/subscriptionStore.ts:94`; :14 calls concurrent legitimate calls impossible);
- `AddSubscriptionSheet.tsx:153` expects its parent to re-throw a failed save; `GlobalModals.tsx:55` swallows it, so
  the sheet closes;
- an add whose answer was lost and that is tried again passes the duplicate check, which reads the list shown (`SharedRoomSheet.tsx:253`);
- a refused save puts back the whole settings record it started from, and with it a field another save changed
  meanwhile (`stores/settingsStore.ts:180`);
- Reset in the filter sheet takes effect at once, while the draft is described as applied only on Apply (`FilterSheet.tsx:43`);
- the premium sheet says it waits for the payment, but reads the profile on focus and once after five
  seconds only (`PremiumSheet.tsx:290`); and a payment begun before the sheet was closed re-enables the buttons of the
  sheet opened since;
- after a Stars payment that Telegram calls "pending" (`lib/telegram.ts:265`) or does not answer for in five minutes (:294),
  `PremiumSheet.tsx:91` enables the buttons again, and a second payment can be begun while the first may still be charged.
  `OneCheckout` counts the payments the sheet awaits;
- a touch that drags the card by 6 to 10 px is a tap as well, and if its emulated mouse events come after the snap animation
  the hook takes them for a press and forgets the drag (`hooks/useSwipeGesture.ts:171`), so the click opens the card; `SwipeOpensNothing` excepts
  this (`rearmed`) and nothing else;
- a card whose touch is cancelled by the system stays where it was dragged to: there is no `touchcancel` handler
  (`hooks/useSwipeGesture.ts`);
- the preset "all time" of the analytics ends with the fifth year from now (`AnalyticsView.tsx:47`), while nothing
  bounds a payment date, so `ViewsMatchItems` compares the totals only when all rows fall before that;
- the rooms page has no back button of Telegram, so an open room sheet there has none either.

## 7. Not modelled

- **Paywall and connection pool.** `Create` is atomic in the models because it locks the user's row. That it asks
  the pool for a second connection inside its transaction (`repository/admin.go:281`) is a deadlock a model of the
  pool would show.
- **Admin dialogues and the settings record**, which is read and written whole (`repository/admin.go:290`), so the
  later of two dialogues undoes the earlier. The switches that other modules react to are modelled there.
- **Maintenance guard** (a flag cached for 15 seconds) and **currency worker** (one writer, one key): no other
  component's state depends on them.
- **Server lifecycle**: the order in which `main` stops listener, workers and pools (`cmd/server/main.go:640`). What a shutdown
  does to a worker is in Reminders, RoomBilling and Broadcast.
- **Account export**, language and referral: they change nothing another part reads.
- In the client: `openTgProfile`, copying an invite, haptics, theme and viewport calls, translation, formatting, logos, and the
  third-party components under `ui/`. `JoinRoomSheet` is imported nowhere.
- Configuration, seed data, metrics, migrations, backup, deployment, and read-only endpoints.

Telegram, Crypto Pay, PostgreSQL, Redis and the browser appear only as the outcomes the code
can meet: delivered again, failed, committed, lost, aborted, in another order.

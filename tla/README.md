# Verification of VaultChat

TLA+ models of VaultChat, the TLC runs that check them on small instances and
TLAPS proofs for all values of the constants. VaultChat is a NestJS API
(`src/apps/api`), three Angular applications (`auth-web`, `chat-web`,
`gallery-web`) and a small shared library (`libs/shared`). A user links up to
three Cloudinary accounts (a Primary and two Secondaries); their free space
together is the user's *vault*. Postgres (TypeORM) holds the rows, Redis holds
upload sessions, presence and the token blacklist, BullMQ runs one hourly job.

Paths below are relative to `src/apps/api/src` unless they start with an
application's name.

## 1. Inventory

| Component | State | Operations | Correct when |
|---|---|---|---|
| Account selector (`media/selectors`) | none | `selectAccountForUpload` | strict fill order; refuses exactly what fits nowhere; agrees with the vault page |
| Media upload (`media/media.service.ts`) | `media`, `media_parts`, `storage_used_bytes` | init, sign-part, complete, abort, list, remove | bytes are reserved once, corrected once, released once; never beyond the limit; a listed item is complete |
| Direct upload (`media/direct-upload`) | Redis session with a TTL, `media`, `storage_used_bytes` | init, sign-part, complete, abort | parts signed in order; no reservation lost or settled twice |
| Cloudinary accounts (`cloudinary-accounts`) | `cloudinary_accounts` (role, slot, active, used, limit) | add, swap, promote, deactivate, verify, list, reconcile | one active Primary, one account per slot; no live item on a deactivated account |
| Vault page (`vault`) | none (reads accounts) | getVault | promises no bytes the selector would refuse |
| Storage recalculation (`jobs/storage-recalc`) | one BullMQ job | hourly tick, run over all accounts | every active account visited; runs again next hour; no reservation lost |
| Chat service (`chat/chat.service.ts`) | conversations, members, messages, read markers | create, list, send, mark read | one 1:1 thread per pair; read markers do not go back |
| Chat gateway and presence (`chat/chat.gateway.ts`, `chat/presence`) | sockets, rooms, Redis socket set and presence key | connect, disconnect, join, leave, send, typing, mark read | a user is online exactly while connected |
| Chat client (`chat-web`) | open conversation, thread, list, badges, typing label | select, send, type, receive events, reconnect | shows the messages of the open conversation, all of them |
| Auth (`auth`, `users`) | refresh-token slot, password, reset link, Redis blacklist | login, refresh, logout, forgot, reset, sign-up, Google | one valid refresh token; logout is final; a reset link works once |
| Refresh-retry interceptor, route guard (`libs/shared`) | access token of the tab | on 401: refresh, retry once | a valid session survives; a call ends |
| Albums (`albums`) | albums, join rows, cover | create, update, remove, add, remove media | cover is a member; a deleted album stays deleted |
| Storage spaces (`storage-spaces`) | spaces, members, media's space | create, update, remove, members, assign | only editors assign; removal leaves nothing half done |
| Uploads page and queue (`gallery-web`) | list of items, tasks, promises, ffmpeg engine | add, probe, convert, upload, retry, remove | the server agrees with what the page shows; nothing with a timeout hangs |
| Gallery page and player (`gallery-web`) | grid, selection, bulk deletion, HLS player | load, select, delete many, open, close | shows what is there; every player is destroyed |
| Cloudinary client, encryption, mail, configuration, other pages | none of interest | | |

**How they interact.** Media upload, direct upload, accounts, recalculation and
the vault page share the rows of `cloudinary_accounts`; every request is an
async handler on one of possibly several Node processes, so requests interleave
at every `await`. Uploads talk to Cloudinary from the browser; the server only
signs, and destroys files on abort and delete. The uploads page drives the
direct upload endpoints and sees only their answers. Albums, spaces and the
gallery page share the media rows. Chat requests share the read markers and the
rooms; the page combines HTTP answers with socket events. The tabs of a browser
share its refresh cookie, and all browsers of a user share one slot in its row.

**What is hard.** (a) Checks made before a transaction and used in it: status,
role, linked media, existing media id. (b) `adjustAccountUsage`, and every other
`save`, which read a row without a lock and write it back later. (c) Unique
indexes that Postgres checks row by row, in swap and promote. (d) State split
over two stores: Postgres commit, then Redis SET or DEL. (e) Redis keys read and
written with plain commands, and expiring. (f) Capacity decided twice, by
aggregate and by account. (g) Answers that arrive after the page has moved on.
(h) Events emitted in another order than rows were written. (i) Timers, retries
and jobs that have to end, or to come again. All of them are in PROJECT.json
under `hazards`, at their lines.

## 2. Modules

| Module | Models |
|---|---|
| `VaultSelector` | `cloudinary-account-selector.ts` and the totals of `vault.service.ts` as definitions over a table of accounts |
| `SelectorLoop` | the selector's sort and its two loops, as the source writes them |
| `VaultState` | the shared rows, the constraints of the schema, the locals of a request, failure of a request |
| `MediaUpload` | `MediaService`: init, complete, abort, remove |
| `CloudinaryAccounts` | `CloudinaryAccountsService`: create, swap, promote, deactivate |
| `VaultLedger` | abstract specification: what storage accounting promises |
| `Vault` | composes the two services; properties; inductive invariant; refinement mapping to `VaultLedger` |
| `VaultPage` | what the selector's loops and the vault page say of every table the vault reaches |
| `DirectUpload` | `DirectUploadService` with its Redis sessions |
| `StorageRecalc` | cron tick, BullMQ job and worker, `applyStorageReconciliation`, beside the requests that change usage |
| `ChatSocket` | what the three chat modules share of the user's socket: rooms, joins, events under way, the open conversation |
| `ChatThread` | messages of a conversation on their way to one user: service, gateway, socket, thread of the page |
| `ChatList` | creation and listing of conversations, unread counts, previews and badges |
| `Typing` | composers, typing handlers, the typing label and its timers |
| `Presence` | connect and disconnect handlers, the two Redis keys, what other clients show |
| `AuthSessions` | login, refresh, logout, reset password; interceptor, route guard, tabs and browsers |
| `UploadsPageState`, `UploadsPage`, `UploadQueue`, `VideoProcessing` | the uploads page: its list and buttons, the queue's promise chain with the server behind it, the ffmpeg engine |
| `LibraryState`, `Albums`, `StorageSpaces`, `GalleryPage`, `Library` | albums, spaces and the gallery page over the same media |
| `MC...` | initial tables, kinds of files, one focus at a time, symmetry for TLC |
| `SelectorProofs`, `VaultProofs`, `AuthSessionsProofs`, `UploadsPageProofs`, `LibraryProofs`, `ChatThreadProofs` | theorems about the module of that name (`VaultSelector`, `Library` with its parts, ...) |
| `StorageProofs` | theorems about `DirectUpload` and `StorageRecalc` |
| `ChatProofs` | theorems about `Typing`, `Presence` and `ChatList` |

**From code to model.**
- A handler is cut at its awaits. The local variables that live across an await
  are a record (`req[r]`, `tab[t]`, `job[i]`, ...) whose `pc` names the await it
  is at. An action is named for its handler and the part of it: `CompleteRead`,
  `CompleteLoad`, `CompleteCommit` are `directUploadComplete` up to the
  transaction, the account read of `adjustAccountUsage`, and the commit. Early
  returns and exceptions end the request or are guards of its first action when
  nothing has been changed by then.
- A transaction runs at READ COMMITTED, the Postgres default, which TypeORM does
  not change. Its reads are steps of their own; its writes take effect together
  at the commit. This is exact for what other requests can see: from its first
  write on, the rows it wrote are locked and its writes are invisible. Where a
  read follows a write in the same transaction, `PartsLocked` keeps the other
  writers out in between. Where a second statement depends on rows the first has
  not locked, the statements are steps: `deactivate` marks media in one
  (`DeactivateOrphan`, with `MediaLocked` for the rows it holds) and writes the
  account in the next.
- `Repository.save` loads the row again, compares it with the entity and writes
  the columns that differ, or inserts the row. The load and the write are one
  step, so a stale entity is written back with all the columns its query
  selected, and a deleted one is inserted (albums, spaces, members, media).
- A write that the CHECK constraint, a unique index or a foreign key refuses
  fails. Multi-statement transactions are checked after every statement
  (`PromoteStatements`, `Swapped`).
- A Redis command, or a pipeline, is one step. Keys expire by a step of their own.
- In the browser, one action is what runs between two awaits of a promise chain
  or one event of a socket, a timer or a user. Socket events keep their order;
  HTTP answers arrive in any order.
- A request may fail at any await (`Fail`, `RedisFails`, `Throw`, lost answers):
  a query error, Cloudinary answering with an error, the process stopping, the
  connection dropping. What was committed stays. In the browser an answer may also
  never come (`NeverAnswered`, `EngineStalls`, `WorkerHangs`).
- Histories. Properties that say "only if X happened" need to know X: variables
  marked `history` in their declaration (`overtaken`, `late`, `spoilt`, ...)
  record it and guard no action.
- One user is modelled where no row is shared between users. MIME checks,
  signatures, URLs and log lines are left out. Sizes are small numbers.

**Each module's state, in short.**
`StorageRecalc`: `usedBytes` and `remote` bytes per account with `claims`, the bytes
a request has reserved or not yet given back; `give` is what each
`adjustAccountUsage` under way has read of the account row it will save; `job` is the BullMQ job with its
state, and the locals of the run are the accounts left of its page (which come in
the order of their addition), its offset and the usage it has fetched.
`ChatThread`: rows (messages, marker), the socket (connected, rooms, events under
way), handlers between awaits, requests and answers of the page, its thread, and
the history `behind` of the messages that a later one overtook on the way to the
page. `Typing`: each composer's conversation and timer, events under
way, the one label and its timers. `AuthSessions`: a refresh token that has left
the row, or has expired, never comes back, so a cookie is `none`, `current` or
`stale`; a password is the number of resets it took; a refused login is a 401 that
the interceptor answers with a refresh and a second try. `UploadsPage`: every file has one item, one task
and at most one chain of promises; the server side is the set of sessions and
media rows. `Albums`: `given` is what was last given for the name and the cover by
create, update or removeMedia, and `lost` why the row shows something else. `GalleryPage`: a player is attached when the import of HLS.js ends,
which may be after its video was closed.

## 3. Runs

| Run | Question | Result |
|---|---|---|
| `vault_serial` | One request at a time, failing anywhere (no interleavings: those are in `vault_concurrent`): do the books balance, does a vault with accounts have a Primary, are live items on active accounts, is every operation a step of `VaultLedger`, and do the selector's loops and the vault page agree on every table that arises? | holds |
| `vault_concurrent` | Two requests overlap: is usage within limits and a ready item complete? Can the books, the Primary or the live items be lost in any way other than a request acting on a stale read? Does a promotion take effect? | holds, with the stale steps named |
| `vault_swap` | Does a swap exchange the two Secondaries? | violated: the unique index always refuses |
| `direct_upload` | Are parts signed in order, are reservations lost only to expiry or failure, do the books go wrong only by a second settlement or a stale usage read? | holds |
| `uploads_page` | Do the statuses agree with the promises under way, are reservations given back, does an upload write one row and is "uploaded" true, do transcodings read their own bytes, what can stay busy for ever? | holds, with the exceptions its properties name |
| `storage_recalc` | Which saves spoil books or activate an account, which accounts does a run visit, does it run again and again, do the books end up right? | holds, with the exceptions named |
| `chat_thread` | What may be missing from a thread at rest, how can it mix two conversations, when does the read marker go back? | holds, with the exceptions named |
| `chat_list` | When are there two conversations of a pair, when does a badge rise, when does a preview go back? | holds, with the exceptions named |
| `typing` | Does a name stay in the label, is it shown in the wrong thread, who waits for a stop in vain? | holds |
| `auth_sessions` | When does a cookie work, up to the end of its time, who reopens an ended session, can a stale check be acted upon, does every call end? | holds, with the exceptions named |
| `presence` | Do the clients show what Redis holds, who deletes the key of a connected user, does a user who has gone end up offline? | holds, with the exceptions named |
| `library` | Does what was deleted stay deleted, does an album show what was last given for its fields, who assigns media, does the grid show all there is, is every HLS player destroyed? | holds, with the exceptions named |

**Exceptions are the content.** In this code several of the plain properties
are false: two deletes of one item release its bytes twice, a refresh undoes a
concurrent logout, a late answer shows one thread in another. Some comments promise
more than holds ("Dedupe 1:1 conversations", `chat/chat.service.ts` 87; "Atomically
swaps reserved bytes" and "Atomically: release reserved bytes, charge actual bytes",
`media/direct-upload/direct-upload.service.ts` 245 and 286). The properties state
*exactly when* the plain one fails, and TLC shows that there is no other way:
- Vault and direct upload: `StillAsRead` lists what each request read and still
  relies on; the `Fresh...` properties say that a step whose reads still hold
  preserves the books, the Primary and the live items whatever the others are in
  the middle of. A repair would lock what is listed there until the write. For
  `deactivate` that is more than its reads: its transaction marks the media first
  and writes the account second, and an init that commits in between leaves a live
  item on the deactivated account, so the account row has to be locked before the
  media are marked.
- `UsedWithinLimit` is about `MediaService` and the account requests. A direct
  upload that ends larger than it was announced, and a recalculation, may exceed the
  limit of an account, and no property says otherwise.
- Recalculation (`OnlyLateSavesDoHarm`, `CompletedRunVisitsAll`): books that
  balanced are spoilt only by a whole-row save that is late: of the recalculation, also
  while bytes are claimed, or of `adjustAccountUsage`, which loads without a lock.
  The same saves are the only ones that activate a deactivated account. An account
  is missed only when a deactivation, or such a save, shifts the pages.
  `RunsUntilFailure`: the first failed run is the last one, because the failed
  job keeps the stable id.
- Sessions (`CookieWorks`, `EndedSessionReopensOnly`): a cookie is spoilt by
  another browser's login or refresh (one slot per user), a logout, a reset, an
  overlapping refresh of a sibling tab, a failure after the slot was cleared, or the
  end of the refresh token's time.
- Albums (`AlbumIsAsGiven`): name and cover are what was last given for them, unless
  a request acted on an album it had read before another wrote it, or a removal
  failed between the join row and the cover. A deleted media stays the cover by
  design: the column has no foreign key.
- Presence: a socket is left in the set when its connect handler was overtaken
  by its disconnect (`OnlyGhostsStayOnline`); a connected user is deleted when a
  connect comes between count and delete (`DeletesLiveOnlyIfMiscounted`).
- Threads (`GapsHaveACause`, `OnlyLateAnswersMix`, `MarkerMovesBackOnly`): six
  causes of a gap, one of a mixture, and three ways back for the read marker: an
  overtaken handler, a message that a later one overtook (emitted before it, or in
  a list read before it was received), and the last of a page of the oldest
  messages. The second way came out of the proof: with pages of one message it
  cannot happen, so the run now has pages of two.
- Uploads page: a second row only for a user who retries after the answer of
  complete was lost; "uploaded" without a row only for a file that the queue's
  own preflight refuses; a reservation left behind only by a lost answer of init, a
  failed abort, an answer that never comes, a reload, or the session's two hours.
- `NeverStuck`: a busy file comes to rest, or it waits at an await that has no
  timeout: an HTTP call, the native probe, the load of ffmpeg, or the worker. Only
  `exec` and `ffprobe` have one, and it does not help when the command hangs:
  the worker is not terminated, and the two `deleteFile` of the `finally` block
  (`video-processing.service.ts` 328-329) wait behind it. The comments say more: "a
  stalled ffmpeg instance never leaves the queue stuck" (194-195), "so a hung ffmpeg
  instance never leaves the queue stuck in "Compressing…" indefinitely" (290-291),
  and "Surface any error — including timeouts — as a visible processError so the
  queue never stays stuck in "Compressing…"" (`uploads-page.component.ts` 323-324).
  With `exec` as the only await in question, "a transcoding leaves `processing`" is
  violated in this model, by `WorkerHangs`, the timeout and `NeverAnswered` at the
  first deletion; `Forsaken` is the exception that this makes necessary.

**Finding.** `vault_swap`: the comment above `swap` says that a single statement
sidesteps the unique index. Postgres checks a plain unique index row by row, so
the statement always fails. It is described in PROJECT.json. One more remark
without a run: `computeUnreadCounts` ignores its `_currentUserId`, so a
conversation never opened counts the user's own messages, where the comment says
"count all messages not sent by the current user" (`chat/chat.service.ts` 403).

**Liveness and fairness.** Only what the code's scheduling justifies is fair:

| Module | Fair | Why | Used by |
|---|---|---|---|
| `StorageRecalc` | `TickGetJob`, `TickAdd`, `Worker` | cron fires hourly, the worker takes what waits | `RunsUntilFailure`, `EventuallyBalanced` |
| `UploadsPage` | the engine, each file's promise chain | timers fire and settled promises go on; an await without a timer may end with `NeverAnswered` or `EngineStalls`, so fairness promises no answer; users, reloads and expiry are not fair | `NeverStuck` |
| `Typing` | `TimeoutFires` | browser timers fire; events and members are not fair | `LabelGoesAway` |
| `AuthSessions` | `ServerStep(t)` | the server answers (what a call that is never answered does to a page is modelled in `UploadsPage`); users, expiry and failures are not fair | `CallsEnd` |
| `Presence` | handlers; expiry of the key while nobody is connected | Redis answers or fails; a TTL runs out | `GoneGoesOffline` |

The other specifications state no fairness: any request may stop anywhere.

**Bounds**, and why they are enough.
- `vault_serial`: three accounts (all that a user can have active), two media so
  that the release of one can eat the charge of the other, sizes 1 and 2 with a
  limit of 3: an account fits one file and not the next, fills to the last byte,
  shrinks at completion. One request slot: serial by intent.
- `vault_concurrent`: two requests, which is what it takes for a read to go stale;
  one media id, one part, forced deactivations only, two accounts with limits 1 and
  2, so that a file of 2 goes past the first to the one that may be deactivated.
- `direct_upload`: two uploads, two requests, three parts (a gap, a duplicate and
  one too many), a final size (2) above the announced one (1), one media row.
- `uploads_page`: a video of two parts and a file that is a video or invalid, two
  server uploads, one retry of a part: two files to overlap, the first part stored when
  the second fails. An image goes the way of a video that needs no processing; the
  proofs cover all kinds.
- `storage_recalc`: two accounts, one of them added during the run, pages of one,
  two bytes, one `adjustAccountUsage` under way. A page boundary lies between the
  accounts.
- `chat_thread`: two conversations, three messages, one event under way, pages of
  two messages: a page that is not the whole list, and a list with a message that
  is still under way as an event. `MCChatThread` starts with the first message
  stored and lets only the last be of the second conversation. `chat_list`: two
  conversations, two messages, two events, which can arrive in either order.
- `typing`: two members with one label, two conversations, two starts, two events.
- `auth_sessions`: two tabs, in one browser or in two, one reset in flight, one
  link.
- `presence`: three sockets (one leaving, one staying, one arriving), one Redis
  failure.
- `library`: three media, the owner and a guest, two names, two requests, three
  openings of the player. `MCLibrary` exercises the album, the space or the
  page in one behaviour, each beside the deletion of its media; the three
  share no row but the media. The album is asked for one media of the owner and one
  of the guest.

`CHECK_DEADLOCK FALSE` is set where the bounds let everything end: upload ids in
`direct_upload`, sockets in `presence`, requests and openings in `library`.
Symmetry is over interchangeable requests, media and uploads, and only in runs
without liveness.

**Mutants.** Each property is listed with a change of one definition that a
plausible bug would make (a dropped status check, a missing floor, a stop that
is not told, a cookie that is not stored) and that its run catches. The changed
definitions stand before the ones they replace, marked `Mutant of`.

## 4. Proofs

Every safety invariant and every action property that a passing run checks is also a
theorem of its specification: for every number of accounts, media, uploads,
files, requests, parts, sockets, tabs, users, members, conversations and
messages, and every size, limit and page size. The named assumptions of the
modules (`VaultConstants`, `ForceIsBoolean`, `FiniteIds`, `DirectConstants`,
`FiniteUploads`, `RecalcConstants`, `UploadsPageConstants`, `PresenceConstants`,
`SessionConstants`, `TypingConstants`, `ChatConstants`, `ListConstants`,
`LibraryConstants`) are the only ones, and TLC evaluates them in the runs. What
a theorem assumes beyond them is in its statement: `OneAtATime` (one request slot),
`NewVault` (nothing stored yet) and `DefaultLimits` in `VaultProofs`. Each proof
is laid out as initial states, one step per action, PTL last.

**Sums and recursive functions** (of bytes held, of free space, the messages of a
conversation) need an induction, and the library's induction theorems cannot be
instantiated here. The proofs use well-founded orders instead, which are stated
without an operator parameter: were there an argument for which the claim fails,
a least one would exist (`LeastSubset`, `LeastNat`), and at the least one the
definition gives a smaller one. `SelectorProofs` proves in this way what a sum over
a finite set is and how it changes with one term.

*Account selection* (`SelectorProofs`), for any table of accounts.
- `SelectionIsFirstFit`: the account selected is active, has room, and precedes
  every other active account with room in the fill order.
- `RefusedAboveLargestSlot`: a file is refused exactly when it exceeds the largest
  free slot reported, although the refusal is decided on the total first.
- `VaultFullOnlyBeyondPage`: VAULT_FULL never hits a file that the vault page has
  room for.
- `LoopsSelectAsDefined`: the sort and the two loops answer as the set definitions
  that the other modules use. A sorted order exists (`RisingExists`); it lists each
  account in use once because an injection between sets of one size is onto
  (`OrderIsByRank`); after each row the first loop holds the sum and the maximum of
  the rows so far (`CountsHold`).

*Vault* (`VaultProofs`).
- `VaultInvariant`: none of `TypeOK`, `UsedWithinLimit`, `ReadyHasAllParts` is
  inductive alone: a commit writes what the request read some steps before.
  `LocalsOK` says what a request carries: a loaded row within its limit, complete
  parts for the total it read, a delta no larger than the size it read.
  `OrphansHeld`: the rows a deactivation has marked stay as they are until it commits.
  `VaultTypeOK`, `UsageNeverExceedsLimit` and `ReadyItemsAreComplete` follow.
- `FreshStepsKeepAPrimary`, `FreshStepsKeepLiveMedia`, `FreshStepsKeepTheBooks`: a
  step whose reads still hold does one of a few things to the tables
  (`FreshEffect`: reserve, settle, add an account, reorder, promote, deactivate, or
  nothing), and each of them keeps the property.
- `PromotionsTakeEffect`: the three statements of a promotion pass the unique
  indexes one after the other, because the ranks of the accounts stay distinct.
- `SerialVaultIsSound` (under `OneAtATime`, `NewVault`): a lone request always
  finds what it read unchanged (`SerialReadsFresh`), so every step is fresh and
  `VaultSound` holds throughout.
- `VaultKeepsLedger` (under `OneAtATime`, `NewVault`, `DefaultLimits`): the
  refinement of `VaultLedger`. Each effect of a fresh step is one action of the
  ledger or a stutter.
- `ReadersOfTheVault`: `VaultInv` gives every table in reach distinct ranks, also
  with an account above its limit, so the theorems about the selector apply.

*Direct upload and recalculation* (`StorageProofs`).
- `DirectInvariant`: signing without gaps needs to know that every part below the
  counter of a stored session, *and of the copy of a session that any request
  holds*, has been signed; otherwise a stale write could bring back a counter that
  skips a part. Sessions and requests name the account on
  which the reservation is (`ReservationsKnown`), or a settlement would charge
  another. `PartsSignedInOrder`, `OnlyExpiryOrFailureStrands`
  and `OnlyStaleSettlementsUnbalance` follow.
- `RecalcInvariant`: the places of the accounts have no gaps, an addition goes
  behind all of them, and every account that was active throughout and lies
  before the offset is visited or on the page, unless a deactivation has shifted
  the pages (`RecalcInv`); what is being given back is claimed (`GivesInv`), so that
  a save whose read still holds keeps a balance. `OnlyLateSaves` and `RunsVisitAll`
  follow.

*Sessions* (`AuthSessionsProofs`).
- `ChecksInvariant`: `ChecksInv` carries each check from where it is made to where
  it is used: the password a login compared, the token a refresh verified, the
  link a reset found still hold, or the request is marked; and an ended session
  leaves the slot empty, without which a refresh could verify after the end.
  `EndedSessionsStayEnded` and `OnlyOvertakenChecksAreStale` follow.
- `UnspoiltCookiesWork`: `CookieInv` says that at most one browser holds the current
  token; that an unspoilt cookie which is not the token of the row is about to be
  replaced, by a tab that will write a new one or has it on the way (`Reissuing`,
  `Answering`); and that a refresh whose token was overwritten after it had been
  verified leaves every cookie spoilt. An expiry spoils the one cookie that holds
  the current token or is about to.

*Uploads page* (`UploadsPageProofs`).
- `StatusTellsWhatIsInFlight`: `PageInv` in three parts: what a status says of the
  promises under way (`StatusInv`), which transcoding holds which name, until it has
  deleted it or for ever (`NamesInv`), and what the page knows of the server's sessions and rows
  (`ServerInv`). `FailedUploadsGiveBack`, `UploadedMeansRow` and
  `ForeignBytesOnlyOfSharers` follow.

*Chat* (`ChatThreadProofs`, `ChatProofs`).
- `ChatInvariant`: a message of the open conversation that its thread lacks is
  under way or in a list to come, unless a cause of a gap has occurred
  (`NothingMissed`); events and marks under way that nothing has overtaken are in
  the order of the messages (`EventsInOrder`, `MarksInOrder`). `GapsAreExplained`,
  `MarkerRarelyGoesBack` and `OnlyLateListsMix` follow.
- `ListInvariant`: a creation under way knows whether its lookup has missed a pair
  (`CreationsKnow`), the page hears only of conversations it has visited
  (`HearsVisited`), and of each in the order of its messages but for those marked
  late (`EmittedInOrder`). `SecondPairs`, `BadgesOfVisited` and `PreviewsGoBack`
  follow.
- `TypingInvariant` is inductive as it stands: the timer of the member whom the
  label names, and the conversation it was shown for, change only together with
  the label. `OnlySwitchingMisleads` is its action property.
- `CountingInvariant`: that only a miscounted user is deleted relates a deletion
  to a count some steps before, so `CountingInv` adds how far the two handlers of
  each socket are (`SocketsInStep`), that an online socket is counted or lost, that
  whoever is about to delete has missed all of them (`AllCounted`), that somebody
  is about to tell when the clients are behind (`ShownOrTelling`), and who answers
  for the key (`KeyIsOwned`). `PresenceInvariant` and `LiveUsersAreMiscounted`
  follow.

*Library* (`LibraryProofs`).
- `LibraryReads`: `ReadsInv` says of every request that the album, space or role it
  has read is still what it read, or that it is marked. Any step either writes such
  a row and marks the others, or leaves it alone (`RequestStep`, `QuietStep`).
  `DeletedRowsStayDeleted` and `OnlyEditorsAssign` follow.
- `AlbumsGiven`: an update or a removal that nobody has overtaken leaves the album
  with what has been given, or is about to (`GivenInv`); `AlbumsShowWhatWasGiven`
  follows.
- `LibraryInvariant` needs `ImportsInv` for the player: at most one import of HLS.js
  that is not overtaken is pending, and while it is there is no player. For the grid
  it needs `GridInv`: what a bulk deletion is through with has failed or is gone. These are
  about `Library`'s `Spec`, in which album, space and page work at once, so they also
  cover what the run checks one part at a time.

**What the proofs changed.** Each failed attempt that had a reason was a case the
run's bounds had hidden. `MarkerMovesBackOnly` was false for pages of more than one
message: a list read before a message was received can mark it after a newer one;
the exception is now named and the run has pages of two. `StillAsRead` did not say
what `create` relies on when it inserts. `FillRank` had overlapping cases. A page of
the recalculation is now a set of accounts in the order of their addition, and the
selector's sort and loops are a sequence and a recursive function that can be
reasoned about.

**Only model-checked.** The liveness properties `NeverStuck`, `LabelGoesAway`,
`GoneGoesOffline`, `CallsEnd`, `RunsUntilFailure` and `EventuallyBalanced`: liveness
under fairness, and ENABLED, are out of the prover's reach. `SwapTakesEffect` is
refuted by its run.

## 5. Not modelled

Listed with reasons under `components` in PROJECT.json.
- Reads that change nothing: lists and details of every service, `verify`,
  `preflight`, `sign-part` of `MediaService`. The selector and the vault page,
  whose answers others rely on, are the exception.
- Sign-up and Google sign-in: they create a user and then issue tokens as a login.
- Of the chat page: presence dots, the route parameter, the new-conversation
  form. Group membership never changes after creation, so it is data.
- The album, space, vault and login pages: forms and lists that call one
  endpoint and show its answer. Drag and drop, formatting of sizes, and the rollout
  flag of the uploads page. Leaving the page within the application while its promises
  go on, and the server finishing a call after a reload.
- AES-GCM, mail, configuration and the health probe keep no state.
- A `DirectUpload` request beside an account that is deactivated: the account
  rows of that module change only in usage. The same race is modelled for
  `MediaService` in `Vault`.

## 6. Plan

Done: every subsystem of the inventory has its module, its run, liveness where the
code schedules something, and a theorem for every safety invariant and action
property that holds. Left: only the liveness properties rest on bounds alone, so
runs of `presence`, `auth_sessions` and `uploads_page` with larger bounds would say
more; and the components marked partly modelled in PROJECT.json.

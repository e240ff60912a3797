# dumpsite in TLA+

`dumpsite` is an iOS app ("An sns app where you could dump your overflowing
feelings."): users write *feels* into *trashcans*, everybody sees everybody's
feels in a feed, and everybody can react to them.  It is written in Swift on
Firebase Auth and Cloud Firestore.  There are no tests and no design documents;
the source, its comments and the texts it shows to the user are the reference.
This directory holds a formal model of the app's own logic, the TLC runs that
check it and the TLAPS proofs about it.

All paths below are relative to the repository's `dumpsite/dumpsite/` unless they
start with `Pods/`.

Contents: [1 Inventory](#1-inventory) · [2 Modules and their code](#2-modules-and-their-code) ·
[3 Runs](#3-runs) · [4 Bounds](#4-bounds) · [5 Fairness](#5-fairness) ·
[6 Proofs](#6-proofs) · [7 What the violations show](#7-what-the-violations-show) ·
[8 Not modelled](#8-not-modelled) · [9 Plan](#9-plan) · [10 Running it](#10-running-it)

## 1 Inventory

### How things run

The app has a single main thread.  Nothing in its own code runs elsewhere, so
a handler is atomic; what interleaves is *which handler is next*:

- taps, gestures and layout passes of the table and collection views;
- completions and listener calls of Firestore, dispatched to the main queue
  after the state they report was read, so they may be out of date when they run;
- Auth's state listeners and completions, dispatched to the main queue after
  `currentUser` has already changed;
- `DispatchQueue.main.async { reloadData() }`, queued by each feed callback:
  between a callback and its reload the arrays and the table disagree;
- other devices, known only through Firestore's server;
- a crash (a forced unwrap or an index out of range), or the user killing the
  app, after which everything but Firestore's persistent cache, its queue of
  unsent writes and Auth's keychain entry is built anew.

### Components

| Component | State | Operations | Correct when |
|---|---|---|---|
| `ReactCell` (`cell/ReactCell.swift`) | `reactStates`, `reactCount`, `userIdList`, `feelsId` | `commonInit`, `checkUserReact`, `react1` … `react5`, `updateReact` | counts are the sizes of the lists beside them, a user has one react, the highlighted button is the recorded one, nobody is recorded with a react he did not choose |
| `FeedViewController` | `feelsArray`, `feelsIds`, `reactNibOpen`, `reactionsArray`, `currentReact`, `listenToFeels`, two listener registrations per appearance, `trashcanList`, `trashcanCount`, `currentUserData` | `checkForUpdates` (two snapshot listeners), `viewWillAppear`, `viewWillDisappear`, `didSelectRowAt`, `cellForRowAt`, `handleLongPress`, `createFeels`, `getTrashcanList`, `getCurrentUserData` | the four parallel arrays keep step through any mix of additions and removals, on pages that are covered too; sections and reactions correspond; the open section stays that of the same feels |
| `LaunchScreenViewController` | `authStateListener`, `numberOfPushes` | the listener, `checkUserSession`, the push to Log In or to the feed, `viewWillDisappear` | left exactly once, to the feed only for a remembered, verified user |
| `LogInViewController` | `isRememberMeOn` | `signIn`, `updateUserSession`, sign-out of an unverified user | the feed opens for a verified user only |
| `CreateAccountViewController`, `DumpsiteConstructionViewController` | default user values | `getDefaultUserValues`, `constructDumpsite` (createUser, user document, verification mail), the ways to Log In | every account has a user document |
| `ProfileViewController` | `trashcanList`, `trashcanCount`, `isInDeleteMode`, the alerts | add, delete and save trashcans, delete mode, log-out | list, count and document agree; what was tapped is what is deleted |
| `NewFeelsViewController` | text, mood, trashcan picker | `dumpFeels`: feels, reactions document, `feelsCount`, a new feed | feels go into the trashcan that was picked; counts are not lost |
| `TrashcanContentViewController` | `feelsArray`, `reactionsArray`, two listener registrations that are never removed | `getAllFeels` (two snapshot listeners), `viewWillDisappear` | lists the user's own feels in that trashcan, each once; no row without feels |
| `FeelsReactDataController` | five counters and a timer | count up to each react's number | an animation |
| Firestore client (`Pods/FirebaseFirestore`) | on disk: a mutation queue per user, `lastAcknowledgedBatchId`, the remote document cache; in memory: `heldBatchResults`, `writePipeline`, the streams, listener registrations | set, update, get, delete, snapshots; acknowledge, reject, hold and release batches; restart streams | no write lost or seen to go back, whatever breaks; listeners converge |
| Auth client (`Pods/FirebaseAuth`) | `currentUser`, state listeners | sign in, create, sign out | external, modelled as used |
| The rest | | layout views, unused structs, vendored libraries | |

### How they interact

```
LaunchScreen --push--> LogIn --present/push--> CreateAccount, DumpsiteConstruction
     |                   |
     +-------------------+--> TabBar: FeedViewController | ProfileViewController
                                |   ^        |                |
        feed is pushed again    |   |        |  ReactCell     | currentUserData handed
        on the way back         v   |        v  (bound row)   | over by the tab delegate
                          NewFeelsViewController     \        /
                                          \           v      v
                                           +-----> Firestore: feels, reactions, users, defaults
```

- Screens are only ever *pushed*: leaving the composer pushes one more feed, log-out
  opens one more Log In view.  The views below stay alive, and so do their listeners
  and pending completions.
- The feed and the reaction cells share `reactionsArray` and the section index, and
  nothing else: the cell writes to Firestore and hears back through the listener,
  which stores the modified document at `currentReact`.
- The composer gets a copy of the trashcan list when it opens; the profile gets one
  when its tab is opened first and never reads the document again.

### What is hard to test

`PROJECT.json` lists every hazard with its line and the properties that cover it.  In
short: whole-document writes from stale copies; a listener that stores a diff in the
slot of another document; cells that come back from the reuse pool with the buttons
of other feels; parallel arrays edited in three branches of two listeners; listeners
of covered pages; an index captured at a tap and used after an alert and a query; a cell put where the
add button was before a deletion; a sign-in
completing for one user while another is current; a restart between two writes that
belong together, or between Auth's keychain and the document that says whether to use it;
read–increment–write of a counter over three callbacks; pages that go
on listening after they were left; and below the app, writes sent again after a broken
stream, answers without a name, batch numbers that start over at a restart, updates of a
document that is not cached.

## 2 Modules and their code

`map` in `PROJECT.json` gives the lines of each definition.

| Module | Models | Role |
|---|---|---|
| `ReactionDocs` | `structs/React.swift`, `structs/Reactions.swift`, the conversions in `updateReact`, `cellForRowAt` and `dumpFeels` | data and pure operators |
| `Votes` | what reacting promises | abstract specification |
| `Reactions` | `ReactCell`, the reactions half of `FeedViewController`, Firestore between several devices | detailed specification; implements `Votes` |
| `MCReactions` | | instance for TLC: two users on two devices |
| `ReactionsProofs`, `ReactionsRefinement` | | theorems |
| `Feed` | `FeedViewController` on one device, with its stack of pages, and `TrashcanContentViewController` | component |
| `MCFeed` | | five settings for TLC, explored side by side |
| `FeedProofs`, `SessionProofs`, `TrashcansProofs` | | theorems |
| `SequenceLemmas` | | facts about sequences and numbers the proofs share |
| `Session` | launch screen, Log In, Create Account, Dumpsite Construction, log-out, and Auth | composition of four controllers |
| `Trashcans` | `ProfileViewController`, the trashcan side of composer and feed, the user document | composition of three controllers |
| `Sync` | what the app relies on from Firestore | abstract specification |
| `FirestoreClient` | `FSTLocalStore`, `FSTRemoteStore`, `FSTLevelDBMutationQueue`, the write stream of `FSTStream`, the parts of `FSTSyncEngine` between them | detailed specification; implements `Sync` |
| `MCFirestoreClient` | | four instances for TLC, explored side by side |
| `FirestoreClientProofs`, `FirestoreClientRefinement` | | theorems |

### Reactions

State per device: Firestore's local `view` of the collection with the queue `pending` of
unsent writes, the snapshots `raised` and not yet delivered, `reactionsArray`,
`currentReact`, the `open` section, the bound `cell`, and `spare`, the buttons of the
cell waiting in the reuse pool.  One `server` document per feels.  `pressed` is a history
variable: the reacts each user has ever tapped.

| Action | Code |
|---|---|
| `TapReact` | `react1` … `react5` with their trailing `updateReact`: purge, count, rebuild the document from the dictionaries in any iteration order, `setData(merge: true)` |
| `OpenReacts`, `CloseReacts` | `didSelectRowAt` and the `cellForRowAt` that follows |
| `Reload` | `reloadData` or scrolling: the row is laid out again, in the same cell or another |
| `Bind`, `CheckUserReact` | `cellForRowAt` for a react row, `commonInit`, `checkUserReact` |
| `Deliver` | the reactions listener, `.modified`: `reactionsArray[currentReact!] = diff` |
| `ServerApply`, `Watch` | Firestore: the oldest unsent write reaches the server; the server's version reaches the local view unless a local write hides it |
| `Relaunch` | a restart after a crash or a kill |

A `userIdList` is only searched, appended to and purged of one id, so it is a multiset.
Which slot (`react0` …) holds which react is *not* abstracted: `updateReact` writes in
the iteration order of a Swift dictionary, and that both directions of the conversion
lose nothing is a theorem, not an assumption.

The first delivery of each listener (`.added`) is folded into `Init` and `Relaunch`
here: documents exist from the start and stay.  `Feed` is where they come and go.

### Votes

`vote` is the react recorded for each user on each feels, `ever` those he has chosen
there.  `Choose` is a tap; `Record` is a write reaching the server: it may change the
vote of *everybody*, to none or to any react that user ever chose there, but its author
ends up with one.  That is the strongest promise whole-document writes keep; it says
precisely that reacts are never invented, and that they may be lost or come back.

### Feed

A page is a record with the controller's fields (`feelsArray`, whose twin `feelsIds` is
edited in the same statements, `reactNibOpen`, `reactionsArray`, `currentReact`,
`listenToFeels`), the number of `listeners` it has left registered, the `queue` of its
callbacks, the number of sections `shown` at the last reload and the feels of the react
row on screen (`bound`).  `reloading` says that a `reloadData` is waiting behind the
callback that queued it.  `contents` are the pages of trashcans that were opened, also
those that were left: their listeners are never removed and hold on to them.  Feels are
numbered by time stamp.

| Action | Code |
|---|---|
| `Deliver` | one call of one listener: `DeliverFeels` with the branches *added by others* (insert at 0), *added* (append), *removed* (drop index 0); `DeliverReacts` with *added*, *modified*, *removed* |
| `Reload`, `Scroll`, `Select`, `LongPress`, `TapReact` | `reloadData`, `cellForRowAt` without one, `didSelectRowAt`, `handleLongPress`, a react button |
| `Leave`, `ComeBack`, `BackFromComposer` | `viewWillDisappear`, `viewWillAppear`, the composer's segue to a new feed |
| `DumpFeels`, `DeleteFeels` | the writes of the composer and of the profile, with the listener calls they raise |
| `OpenTrashcan`, `DeliverContents`, `ReloadContents`, `CloseTrashcan` | `showTrashcanContents`, the two listeners of `getAllFeels`, `reloadData`, `viewWillDisappear` of the page of a trashcan |
| `TapTab` | `tabBarController(_:didSelect:)` with such a page on top of the profile tab |
| `FeelsSynced`, `ReactionsSynced`, `OtherReacts` | other devices; the collections are two watch targets, so the halves of one operation arrive apart |
| `Relaunch` | a restart |

The ways the app can stop are states, with the reason in `crash`: `emptyArray`
(removal at index 0 of an empty array), `currentReact` (nil or out of range),
`noReactions` (a section without reactions document), `staleTable` (`reloadSections`
or scrolling with a different number of sections), `longPress`, `contentsReact` (a
modified reactions document reaches the page of a trashcan, whose `currentReact` is
never set), `topController` (the forced cast of the profile tab's top controller).

The composer's bar button has an action *and* a segue in the storyboard
(`Base.lproj/Main.storyboard` 163–164); `Leave("composer")` is one push.  In the
profile tab only the deletion of feels matters here; how a trashcan is deleted is the
subject of `Trashcans`.

### Session

Server: the accounts that `exist`, those `verified`, and `rememberMe` of the user
documents (`doc`, `"absent"` without one, `"null"` when the switch was never touched).
Auth: `authUser` and `emailVerified`, the copy made at sign-in.  Launch screen:
`listening`, the `notices` queued, the user it was `told` last, the user being fetched,
`numberOfPushes`.  Views on top and covered: `isRememberMeOn` and `defaults`.  Requests
under way (`requested`) and completions queued (`answered`), each with the view it
belongs to.

| Action | Code |
|---|---|
| `AuthStateChanged` | the launch screen's state listener |
| `SessionFetched`, `SessionNotFetched` | `checkUserSession`'s `getDocument` and its completion handler |
| `LaunchDisappears` | `viewWillDisappear`, which removes the listener — later than the push, so the listener may be called in between |
| `RememberMeSwitch`, `SignIn`, `SignedIn` | the Log In view; `SignedIn` is the completion with `updateUserSession` and the check of the e-mail |
| `OpenCreateAccount`, `DefaultsFetched`, `ConstructDumpsite`, `AccountCreated`, `OpenDumpsite` | Create Account and the screen after it |
| `LogOut` | the profile's button |
| `AnswerOne`, `RefuseOne`, `Verify` | Auth's server and the mail link (external) |
| `Relaunch` | a restart: Auth's user persists, everything else is new |

A request to Auth changes the user *before* its completion is queued; that gap is where
`session_overlap` finds its trace, and where a kill makes Auth keep a user whose wish to stay
signed in was not stored yet.  `lastSignIn` is a history
variable: whom Auth signed in last, what the switch of the view was when the completion
ran (when Auth answered, until then; the default, for a new account), and whether the
completion has run.

### Trashcans

`account` is the user document with `rememberMe` (false stands for the null that makes
`User(dictionary:)` nil), `feed`, `composer` and `profile` are the three copies of
its list made by three controllers at three times, `profile.cells` what the collection
shows, `prompt` and `alert` the items the two alerts were opened for, `queries` and `answers`
the deletions between the alert's Delete and their completion, `counting` and
`counted` the read-increment-write of `feelsCount`.  `known` says whether a controller
has a `currentUserData`.  A deletion carries, for the properties, the name *on the cell*
that was tapped, which may be the add button's, and the feels in the trashcan of that name
when Delete was pressed.

| Action | Code |
|---|---|
| `UserDataHeard`, `TrashcanListFetched` | `getCurrentUserData`, `getTrashcanList` |
| `TapTab`, `OpenComposer`, `LeaveComposer` | hand-over by the tab delegate at every tap, and by `prepare(for:)` |
| `PickTrashcan`, `DumpFeels`, `CountRead`, `CountWritten` | the composer's picker; `dumpFeels` and the completion chain that updates `feelsCount` |
| `ToggleDeleteMode`, `TapAddTrashcan`, `CancelPrompt`, `CreateTrashcan` | gestures and the add alert |
| `TapTrashcan` | `didSelectItemAt` in delete mode: any cell but the one at `addTrashcanCellPath`; its index is captured |
| `CancelDelete`, `ConfirmDelete` | the buttons of the alert; Delete sends the query for all feels |
| `QueryAnswered`, `QueryFailed`, `FinishDelete` | the query, and its completion with the index of the tap |
| `Relaunch` | a restart, with or without a log-in that left the switch alone |

### FirestoreClient

On disk: per user the queue `mutations` and `lastAcked`, and the cache `remoteDocs` with
`lastRemote`.  In memory: the open queue's `user` and `nextBatchID`, the acknowledged
results that are `held` until a snapshot has them, the `pipeline` of batches sent ahead,
the write `stream`, and the watch `target`.  Between client and server: `requests` and
`responses`.  The server is a `log`; a version is a position of it.  `author`, `refused`
and `dropped` are history.

The app's writes are each of one document and of three kinds:

| Kind | Calls | Without a document |
|---|---|---|
| `set` | `setData` and `addDocument`: `CreateAccountViewController` 112, `NewFeelsViewController` 206 and 223, `ReactCell` 171 | makes one |
| `update` | `updateData`: `LogInViewController` 164, `ProfileViewController` 171 and 236, `NewFeelsViewController` 240 | refused by the server; laid over the cache, and cached when acknowledged, only if there is a document there (`Precondition::Exists(true)`) |
| `delete` | `delete()`: `ProfileViewController` 229 and 230 | a deleted document |

So an update acknowledged on a device that has no copy of the document leaves the queue
and nothing in the cache, until a listener hears of it (`ApplyResult`).  What a document
*holds* is abstracted to the position in the log of the last write in it: the fields an
update or a merge leaves alone are not told apart, and a cached document that a write was
applied to counts as of that write's version (in the code it keeps the version it had, and
the version only decides whether a later result or snapshot replaces it).

| Action | Code |
|---|---|
| `Write` | `setData`, `updateData` or `delete`, down to `FSTSyncEngine.writeMutations`: append to the queue, `fillWritePipeline` |
| `Handshake` | the stream opens (token, connection, handshake); the whole pipeline is sent |
| `ReceiveResponse` | `writeStreamDidReceiveResponse…` → `acknowledgeBatchWithResult`: hold or release, refill |
| `ReceiveRefusal` | a permanent error: `handleWriteError` → `rejectBatchID`, the stream is started again |
| `Interrupted`, `IdleClose` | the stream breaks; the idle timer closes it |
| `Listen`, `StopListening`, `Snapshot` | `listenToQuery`, `releaseQuery` (which releases what is held), `applyRemoteEvent` |
| `CredentialChange` | `credentialDidChangeWithUser` for the same or another user |
| `Relaunch` | the process is killed; `startMutationQueue` |
| `ServerCommit`, `ServerRefuse`, `WriteElsewhere` | external: the server and the other devices |

The client's own assertions that could fail are states: `queueNotEmpty` (numbers start
over with batches left), `ackOrder`, `rejectAcked`, `emptyPipeline` (an answer with
nothing in the pipeline).

### Sync

A log of writes, per user a queue of writes not yet seen in the log, and per document the
position the device has `seen`.  A user's writes enter the log in his order, perhaps more
than once, an update only while there is a document; a write leaves the queue only when the
device's copy of the document is at least as new, or it is an update and the device has
no document, or the server refused it, or the queue was reopened.  This is what
`Reactions` and `Feed` assume of Firestore when they lay unsent writes over the server's
documents.  The refinement mapping counts a batch as committed if an answer for it is
held or under way.

## 3 Runs

| Run | Properties | Shows |
|---|---|---|
| `reactions_switch` | `DocumentsConsistent`, `CellsConsistent`, `ButtonsMatchLists` | with two reacts, users change their minds from stale copies; counts, lists and buttons stay in step in every copy |
| `reactions_slots` | `TypeOK`, `VotesAuthentic`, `ImplementsVotes`, `AgreeAtRest` | with two feels, diffs land in the wrong slot of `reactionsArray`; still nobody is recorded with a react he did not choose there, the whole implements `Votes`, and devices that stay up end up agreeing with the server |
| `reactions_lost` | `TapIncrementsCount` (violated) | two taps on stale copies count once |
| `feed` | `TypeOK`, `ArraysParallel`, `NothingRemovedFromEmpty`, `OwnFeelsShownOnce`, `EverySectionHasReactions`, `TableLagsOnlyUntilReload`, `TrashcanRowsExist`, `TrashcanListsOwnFeels`, `OpenSectionFollowsFeels`, `NotedSectionLostOnlyToRemovals`, `LiveFeelsGetShown` | five settings of `MCFeed`: one page among other devices; calls queued behind one another; two pages, the lower one covered and still listening; the page of a trashcan alone and among others |
| `feed_rows` | `OpenSectionHasReactCell` (violated) | feels of others have two sections and one reactions document: opened after both listeners were called, the second has none |
| `session_signin` | `TypeOK`, `FeedOnlyForVerified`, `LogInOpenedOnce`, `OnlyRememberedSessionsResume`, `LaunchIsLeft` | all paths to the feed with one request to Auth at a time, restarts anywhere |
| `session_document` | `MissingDocumentIsHandled` (violated) | a restart between account and document |
| `session_overlap` | `FeedOnlyForVerified` (violated) | the same property with two requests at a time |
| `trashcans_one` | `TypeOK`, `CountsMatchLists`, `DocumentFollowsProfile`, `CountedFeelsWereDumped`, `DeletesWhatWasTapped`, `TappedFeelsAreDeleted`, `CellsFollowList`, `FeelsCountNeverDrops` | one deletion at a time, from its tap to its completion, with everything else free to interleave |
| `trashcans_button` | `OnlyTrashcansAreTapped` (violated) | an add button left before the new one deletes a trashcan |
| `trashcans_two` | `TappedFeelsAreDeleted` (violated) | a second trashcan tapped before the first deletion has finished |
| `firestore_client` | `TypeOK`, `NoAssertionFails`, `NothingLost`, `AnswersMatchPipeline`, `WritesStayVisible`, `LaterWriteWins`, `ImplementsSync`, `WritesSettle`, `ListenersConverge` | sets, updates and deletes; broken streams, refusals, other users and restarts between any two steps lose no write, show none going back, implement `Sync`, and settle |

Each property of each passing run has at least one *mutant* in `PROJECT.json`: a
plausible bug, kept in the module as an operator marked "Variant", under which TLC
finds the property violated.  The variants are not part of any specification.

Some properties are stated under a condition, because the code promises no more:
`OwnFeelsShownOnce` until something of the user's is removed (a removal takes the entry at
index 0, whichever feels that is); `EverySectionHasReactions` for a user alone (otherwise
`feed_rows`); `TrashcanListsOwnFeels` lets feels deleted meanwhile stay listed;
`NotedSectionLostOnlyToRemovals` excepts removals and `CellsFollowList` the alert behind
which a deletion finished, the two places where the code does lose step;
`WritesStayVisible` excepts what a restart drops, which the source admits
(`FSTLocalStore.mm` 137–139) and `ListenersConverge` shows to come back, and an update
while the device has no document to lay it over; `OnlyRememberedSessionsResume` asks for
the switch only once the completion of the sign-in has run (see section 7);
`DeletesWhatWasTapped` with one deletion at a time, from the tap to its completion
(otherwise `trashcans_two`), and a cell that shows a name (otherwise `trashcans_button`).

The app really may stop only by a crash, and its modules can restart after one, so
deadlock is checked in their runs.  Not in `firestore_client`: once the bounded writes,
faults and restarts are used up and everything is settled, nothing is left to do.

## 4 Bounds

| Bound | Value | Why it is enough |
|---|---|---|
| `Users`, `Devices` | 2, one user each | every hazard of `Reactions` is one writer against one stale copy; the theorems are for any number |
| `Reacts`, `Slots` | 2 (`switch`, `lost`), 1 (`slots`) | a switch needs the react given up and the one taken; five buttons have the same code |
| `NumFeels` in `Reactions` | 1 or 2 | a diff in the wrong slot needs two |
| `MaxTaps` | 2 | one tap on each device, or a switch on one; taps of the two users are the conflicting writes |
| `NumFeels` in `Feed` | 2 | one own, one foreign, in either order; one to be removed and one to stay |
| `pages` of a setting of `MCFeed` | 1 or 2 | a covered page and the one on top |
| `trashcans` | none or one | a page left that listens on needs one trashcan, opened once |
| `reacts` | 0 or 1 | one modification, or the revival of one deleted document |
| `queue` | 1 or 2 | one callback of each collection waiting when another device is heard; the device's own writes are not bounded by it |
| `alone`, `mine` | both, either feels | separates what feels of others break |
| `Accounts` | 2 | the user a request is for and the user who is current |
| `MaxInFlight` | 1 or 2 | one for what the code gets right, two for what it does not; a deletion counts from its tap on, a sign-in from the button |
| `MaxTrashcans`, `NumFeels`, `Foreign` in `Trashcans` | 2, 3, {1} | one trashcan to be deleted and one to stay; two own feels, so that a trashcan can hold both and two counts can overlap, and one feels of another user in a trashcan of the same name |
| `Keys`, `Users` in `FirestoreClient` | 2, 2 | writes to the same document and to another; the queue left and the queue opened |
| `MaxPipeline` | 2 (10 in the code) | fewer than the three writes of one instance, so that it is full and refilled |
| `writes` of `MCLimits` | three sets; a set, then an update or a set; an update, then a set; a set, then an update or a delete | a write before, in and behind the pipeline; an update of a document that is there, that another device deleted or made meanwhile, or that this device never heard of |
| `elsewhere`, `faults`, `restarts` of `MCLimits` | 0–1, 0–1, 1–2 | one set or deletion by another device in between; a break and a restart in any order; two launches, as `lastAcked` of one is read by the next |

The unbounded counters of the code appear only in guards with those bounds; nothing
else is cut off.

## 5 Fairness

Weak fairness is assumed of what happens by itself and of nothing a user does:

- `Reactions`: `ServerApply` and `Watch` (Firestore retries its streams with backoff for
  as long as the app runs) and `Deliver` (the main queue is drained).  `AgreeAtRest`
  asks only that from some time on no device stops.
- `Feed`: `Deliver` of each page.  Not `Reload`: whether the table is drawn is not what
  `LiveFeelsGetShown` is about.
- `Session`: `AuthStateChanged` (main queue), `SessionFetched \/ SessionNotFetched`
  (Firestore answers a `getDocument` with a document, from the cache, or with an
  error), `LaunchDisappears` (UIKit finishes the transition).  Signing in, verifying
  and being answered by Auth are not fair.  `LaunchIsLeft` excepts a user who kills the
  app for ever.

- `FirestoreClient`: `Handshake` (connecting is retried with backoff without end), the
  server (commits or refuses what it is sent), `ReceiveResponse \/ ReceiveRefusal` (the
  worker queue is drained), and `Snapshot` of the newest version (a healthy watch stream).
  Breaks and restarts are bounded, so from some time on there are none; the write stream
  must still be *started* by the code, which is what `WritesSettle` is about.

`Trashcans` has no liveness property: its queries may fail for ever, and nothing happens
then.

## 6 Proofs

TLC checks the properties on the small instances of section 3; `tlapm` proves them for
*every* value of the constants, without any bound on queues, pages, taps or launches
beyond the constants' own.

| Theorem | Statement |
|---|---|
| **`ReactionsProofs`** | any users, devices, feels, reacts and taps; several devices may have one user |
| `SerialiseParses` | parsing what `updateReact` wrote returns the two dictionaries, for every iteration order |
| `Invariance`, `TypeCorrect` | `Spec => []IInv`, `Spec => []TypeOK` (so in each module below) |
| `DocumentsStayConsistent` | `Spec => []DocumentsConsistent` |
| `CellsStayConsistent` | `Spec => []CellsConsistent` |
| `ButtonsAlwaysMatchLists` | `Spec => []ButtonsMatchLists` |
| `VotesAlwaysAuthentic` | `Spec => []VotesAuthentic` |
| **`ReactionsRefinement`** | |
| `VotesImplemented` | `Spec => ImplementsVotes` |
| **`TrashcansProofs`** | any names, feels, composers, profiles and requests under way |
| `CountsAlwaysMatchLists` | `Spec => []CountsMatchLists` |
| `DocumentAlwaysFollowsProfile` | `Spec => []DocumentFollowsProfile` |
| `CountsAreDumps` | `Spec => []CountedFeelsWereDumped` |
| `FeelsCountMonotonic` | `Spec => FeelsCountNeverDrops` |
| `CellsKeepFollowing` | `Spec => CellsFollowList` |
| `DeletionsAsTapped` | `MaxInFlight = 1 => (Spec => DeletesWhatWasTapped)` |
| `DeletionsComplete` | `MaxInFlight = 1 => (Spec => TappedFeelsAreDeleted)` |
| **`SessionProofs`** | any accounts, launches and requests under way |
| `LogInViewOpenedOnce` | `Spec => []LogInOpenedOnce` |
| `SessionsResumeRemembered` | `Spec => OnlyRememberedSessionsResume` |
| `FeedIsForVerified` | `MaxInFlight = 1 => (Spec => []FeedOnlyForVerified)` |
| **`FeedProofs`** | any feels, pages, pages of trashcans, reactions and calls waiting |
| `FlagsFollowFeels` | `Spec => []ArraysParallel` |
| `RemovalsFindEntries` | `Spec => []NothingRemovedFromEmpty` |
| `TableCatchesUp` | `Spec => []TableLagsOnlyUntilReload` |
| `OwnFeelsOnce` | `Spec => []OwnFeelsShownOnce` |
| `SectionsHaveReactions` | `(\A s \in Settings : s.alone => s.mine = Feels) => (Spec => []EverySectionHasReactions)` |
| `TrashcanRows`, `TrashcanListsOwn` | `Spec => []TrashcanRowsExist`, `Spec => []TrashcanListsOwnFeels` |
| `OpenSectionStays` | `Spec => OpenSectionFollowsFeels` |
| `NotedSectionStays` | `Spec => NotedSectionLostOnlyToRemovals` |
| **`FirestoreClientProofs`** | any documents, users, writes, size of the pipeline, faults and launches |
| `NoAssertionEverFails` | `Spec => []NoAssertionFails` |
| `NoWriteLost` | `Spec => []NothingLost` |
| `AnswersAlwaysMatch` | `Spec => []AnswersMatchPipeline` |
| `WritesAlwaysVisible` | `Spec => []WritesStayVisible` |
| `LaterWriteAlwaysWins` | `Spec => []LaterWriteWins` |
| **`FirestoreClientRefinement`** | |
| `SyncImplemented` | `Spec => ImplementsSync` |

`SequenceLemmas` has the facts about `Append`, `Tail`, `InsertAt` and `RemoveAt` that the
controllers' arrays and the client's queues need in all of them, and `LeastOf`: a set of
numbers has a least one.

### What is assumed

The `ASSUME`s of the modules, which TLC evaluates in the runs:

- `ReactionDocsAssumption`: finitely many users; there is a one-to-one layout of reacts in
  slots.  `ReactionsAssumption`: `UserOf` maps devices to users; at least one feels; a bound
  on taps; `None`, the number 0 that stands for no feels and no react, is not a react.
- `TrashcansAssumption`: the default trashcan is a name, `Foreign` are feels, the bounds are
  numbers.  `ClosedAssumption`: `Closed`, which stands for the nil of a controller that is
  not there and for an alert that is not shown, is neither a controller nor a tap nor an
  item.  `ButtonAssumption`: the add button is told from the names.
- `SessionAssumption`: the values for nobody and never are not accounts; the documents'
  default is on or off.
- `FeedAssumption`: the settings explored are of the form its comment describes.
- `FirestoreClientAssumption`: the first user is a user; the pipeline holds at least one
  batch; the limits are of the form its comment describes.

Three theorems have a hypothesis, because without it the code does *not* keep the
property and a run shows how:

- `MaxInFlight = 1` in `DeletionsAsTapped`, `DeletionsComplete` and `FeedIsForVerified`: a
  second trashcan is only tapped, a second sign-in only started, when the first has been
  completed.  With two,
  `trashcans_two` and `session_overlap` are violated.  The runs `trashcans_one` and
  `session_signin` have this bound.
- In `SectionsHaveReactions`, a setting in which nobody else writes has no feels of others.
  The property itself is about a user alone; feels of others have two entries in `feelsArray`
  and one in `reactionsArray` (`feed_rows`), wherever they come from.  All settings of `MCFeed`
  satisfy it.

### The arguments

**`Reactions`.**  None of the properties is inductive alone.  A document is consistent
because it was written from a consistent cell, and a cell is consistent because it was
parsed from a consistent document — so they are proved together.  A tap adds *one* entry
and removes those of the *highlighted* buttons; that keeps one react per user only if the
highlighted buttons are exactly the lists' entries for that user, which is
`ButtonsMatchLists`; and that survives cell reuse only because a cell in the pool has at
most one button highlighted, which is in no property and has to be added.  The inductive
invariant is

    IInv == TypeOK /\ DocumentsConsistent /\ VotesAuthentic /\ \A d : GoodDevice(d)

where `GoodDevice` says that the bound cell of a device is in step, authentic and
highlights what it records, that the pooled cell has at most one highlight, and that
an open section has a bound cell.
`DocumentsConsistent` and `VotesAuthentic` quantify over *every copy of every document*
(server, views, arrays, unsent writes, undelivered snapshots); the lemmas `CopyPlaces` and
`NoNewCopy` reduce an action to the copies it adds, and there is one lemma per action.
`PressedGood` is the lemma about `react1` … `react5`; it needs the cardinality facts
`AppendAddsVoter` and `PurgeRemovesVoter`.

**`Reactions` implements `Votes`.**  A tap maps to `Choose`, a write reaching the server to
`Record`, everything else to a stutter.  `Record` promises that the author of the write
ends up with a vote, which `IInv` does not say: `WritesSigned` adds that every unsent write
lists its device's user under some react.  It holds because the button just pressed is
highlighted, and highlights are the lists' entries.

**`Trashcans`.**  `CountsMatchLists` and `DocumentFollowsProfile` come by inspection of the
actions, together with `ProfileSound` (the collection has one cell more than the profile
trashcans, so the cell tapped exists; the two alerts exclude each other).  `CountedFeelsWereDumped` needs a ledger:
`CountsAccounted` says that the document's count plus the increments not yet written stand
for different dumps, and that each count read differs from the document's by one write at
most, which is why a lost increment loses and never invents.  The two theorems about deletions are about the name on
a *cell*, while the code looks into the list.  `CellsSound` relates the two whatever is in
flight: each cell of a trashcan shows its name or is an add button left behind, because a
new cell is never put before the trashcans (`prompt` is beyond the list, which only shrinks
behind the alert), and then `cellForItemAt` makes it a button unless it is the last.  Hence a
tap on a name means the trashcan at its item (`TapMeant`), and it still does at the
completion (`StillMeant`) if nothing else was deleted, which only `MaxInFlight = 1` keeps
(`UnderWay` counts the open alert too): a trashcan added meanwhile goes behind the others,
and a dump only adds.

**`Session`.**  `LaunchSound` says that while the launch screen listens nobody has made a
request, so at most one call of its listener waits, and the user changes only when the
screen signs him out; `FetchSound`, that the document being fetched is the current user's.  `HistorySound` says that
whoever is signed in was signed in last, and that his document, once the completion has run,
says what the switch did: completions of *other* sign-ins may run in between and change other
documents, or this one for the same user, and then `lastSignIn` follows.  These three are what
`SessionsResumeRemembered` needs, with no bound on requests.
`FeedIsForVerified` rests on `OneRequest`: a completion that was told the e-mail is verified
was told so of the user who is still current.

**`Feed`.**  What a page shows depends on calls that wait, and the calls are about documents
that have changed since.  The invariant therefore speaks of a *history along the queue*:
`LeadsTo(told, queue, …)` says there are sets `told[0]`, …, `told[n]` of documents, from those
the page was told of to those that exist now, and each waiting call is what leads from one to
the next.  The arrays are tied to `told[0]` (`Shows`, and the length of `reactionsArray`), the
documents to `told[n]`; delivering a call drops the first set, raising one adds a last.
`NothingRemovedFromEmpty` follows as a removal's document is in `told[0]`, which is then not
empty and has no more elements than the array; `OwnFeelsShownOnce` from `OnceIf`, kept until
something of the user's goes; `EverySectionHasReactions` as the lengths are the cardinalities
of sets that agree when the queue is empty.  `RemovedAreGone` (a feels that was removed never
comes back) separates one's own feels from the removals still to come.  For the page of a
trashcan `ListsOwn` says of each feels that it is in the array, in one waiting call, or in
neither, and never in both.  That at most one entry of `reactNibOpen` is true,
and that the queued `reloadData` is counted, is `TableSound`.  `LeastOf` gives the minimal
counterexample that stands in for induction over sequences where two lists are compared.

**`FirestoreClient`.**  The properties are about writes; the code deals in batch numbers,
which start over at a launch or when the user changes, and in answers that carry no name.
The invariant says how the pieces lie in the open user's queue:

    mutations[user]  =  held results  ++  pipeline  ++  not yet sent
    pipeline         =  answered      ++  requested

`HeldSound` and `PipelineSound` are the first line, `StreamSound` the second; both are needed
for an answer to be for the write at the head of the pipeline, which is `AnswersMatchPipeline`
and why `emptyPipeline` and `ackOrder` never happen.  `AckedUpTo` says that the number in
`lastAcked` cuts the queue right behind what is held: for a *closed* queue that is what
`startMutationQueue` will remove, and if the numbers start over the queue is empty then, so
`queueNotEmpty` never happens.  That new numbers are above all others of the queue is
`Numbered`; that the numbers, although given anew, keep the order of the writes is
`Ascending`, with `BelongsTo`: the number of a batch is below that of its write, as the next
number never exceeds the count of the writes made so far.

`NothingLost`, `WritesStayVisible` and `LaterWriteWins` are about the log.  A write may be in
it several times, as a broken stream loses the answer and the write is sent again.  An answer
and a held result name the *last* place (`Final`), since a write that is answered is not sent
again, and that place is behind all the user wrote before (`Behind`, `AnswersSound`,
`HeldFinal`).  Hence what is acknowledged is settled for good, `SettledFinal`, which is
stronger than `LaterWriteWins` because it has to survive writes being sent again.
`LeftVisible` says of a write which left the queue two things.  It is `Visible`: in the cache
wherever it was committed, as a result is released only when a snapshot, or the release
itself, has brought the cache up to its version — unless it is an update and no document is
cached.  And it is `Past`: whatever will still get into the cache, from results held, answers
under way (`Coming`) or the next snapshot, is newer than any place of it; for without a
document the cache says nothing, and one older than the update must not turn up later.  For
results that needs their order, which `HeldFinal` has.  `CacheSound` bounds the cache while the
client listens: by `target`, the version the next snapshot has at least, or by `lastRemote`,
that of the last one; without it a snapshot could take a document back.  None of these is
inductive alone: which write an answer removes follows from how the queue lies, and that the
server will not be sent it again from the places of the writes before it.  There is a lemma
for each action and part of the invariant it can disturb, and one (`OpenQueueCuts`) for what
a launch and a change of users have in common.

**`FirestoreClient` implements `Sync`.**  `Sync`'s queues are the open queue, shown with the
versions that held results and the answers before a refusal tell of (`Known`, `Shown`), and the
others as they will be once opened.  `Write` maps to `Write`; `ServerCommit` to `Commit` of the
first write nobody knows of; `Interrupted` to `Forget`; `ReceiveRefusal` to `Reject`;
`ReceiveResponse`, `StopListening` and `Snapshot` to `Hear`; `Relaunch` and `CredentialChange`
to another user to `Reopen`, `CredentialChange` to the same to `Forget`; `WriteElsewhere` to
`WriteElsewhere`; what remains changes nothing `Sync` has a variable for.  Each step needs `IInv`: that the answers go on where the held results
end, that a version told is final, and, for `Hear`, `CacheSound` in the next state.

### Only model-checked

- The liveness properties (`AgreeAtRest`, `LiveFeelsGetShown`, `LaunchIsLeft`, `WritesSettle`,
  `ListenersConverge`): fairness and `ENABLED` are out of the prover's reach.

## 7 What the violations show

Each is a disagreement of the code with one of its own comments or with a text it shows;
`findings` in `PROJECT.json` quotes them.

- `reactions_lost`: *"Increment react count"* — of the cell's copy, not of the document.
- `feed_rows`: *"if react is open, return the feelsCell and reactCell"* — feels of others
  are inserted at the front by one branch and appended by the next, so there are more
  sections than reactions documents.  The property asks for a reactions document only when
  no call of a listener waits; in the trace both listeners have been called and the table is
  reloaded, and opening the second section of the same feels indexes past the array.
- `session_document`: *"If user document doesn't exists, ask user to create another account
  and apologize"* — the branch is never reached, `document.data()!` stops the app first.
- `session_overlap`: *"Check if email is verified. If not, prevent user from accessing the
  Feed View"* — the check is of the request's user, the feed uses the current one.
- `trashcans_button`: *"Trashcan Cell"*, of every item but the add button's — a trashcan is
  added while a deletion finishes behind the alert, the new cell becomes an add button at
  the old place, and the old button, before it, deletes a trashcan in delete mode.
- `trashcans_two`: the alert's promise again — the index of the tap is used after the alert
  and the query, and another deletion has finished since.

Two more are in the models without a run of their own.  A removal takes the entry at index 0
out of the feed (`FeedViewController` 175, `DeliverFeels`), so deleted feels may stay listed and
live ones go; `OwnFeelsShownOnce` excepts it.  And Auth keeps the user from its answer to a
sign-in on, while whether he wants that is stored by the completion (`LogInViewController` 117):
a start between the two goes by what he wanted the time before, and the session of somebody who
had just left the switch off may resume; `OnlyRememberedSessionsResume` excepts it.

Other stops are modelled as states and contradict nothing written down: the nil
`currentReact`, the table updated with stale sections, the long press before any react row
was bound, the add button's old place, the default values that have not arrived, the tab
tapped with the page of a trashcan on top, reactions heard by such a page, the
`currentUserData` that a document with a null `rememberMe` or a freshly pushed feed does
not have.

## 8 Not modelled

- `FeelsReactDataController` and the profile's feels counter: labels that count up to
  numbers fixed when the view opens.  No state of the app depends on them.
- The composer's text and mood, `EmojiViewController`, `MoodDelegate`: data passed on
  unchanged.  (`dumpFeels` compares the text with a placeholder other than the one
  `setUpFeelsContent` shows, so placeholder and empty text are dumped as they are.)
- In the page of a trashcan `reactionsArray` and `reactNibOpen`: filled and emptied, but
  never read before the stop `contentsReact`, as the selection of rows is commented out.
- Scrolling while the table has *fewer* sections than the arrays: the rows asked for exist,
  though of other feels; and profile cells laid out again by scrolling.
- Views that only lay out (`FeelsCell`, `TrashcanCell`, `AddTrashcanCell`, `CustomSwitch`,
  `FeelsTextView`, `TabBarController`), animation and keyboard handling.
- `structs/FeelsStack.swift`, `structs/UserReact.swift`, `loadFeels`, `loadReacts`: never used.
- `deleteCurrentUser` in the launch screen: its only call is in the branch that cannot be
  reached.
- The fields of documents in `FirestoreClient` (see section 2), and batches of several writes,
  which the app does not make.
- Firestore beyond what the app uses: transactions, limits, limbo resolution (a snapshot
  tells of deletions at once, where the client may have to ask for the document), garbage
  collection, persistence formats, and targets one by one with their resume tokens
  (`FirestoreClient` has one target, as the app listens to whole collections); Auth's tokens.  The definitions that stand for them are marked external
  or mapped to the client's classes.
- The vendored libraries below those clients (`Pods/BoringSSL`, `Pods/gRPC*`, `Pods/leveldb-library`, …):
  third-party code the app never calls directly.  They are nearly all of the repository's
  C and C++; the app itself is Swift, its Firestore client Objective-C++, so the share of
  C, C++ and header lines that these modules stand for is close to nothing by nature.
- Names, text, moods, time stamps beyond their order, and all formatting.

## 9 Plan

Done: `ReactionDocs`, `Votes`, `Reactions` with proofs (the most important behaviour: what
several devices do to shared documents), then `Feed`, `Session`, `Trashcans`.

Then the page of a trashcan in `Feed`, `rememberMe`, cells and the tab delegate in
`Trashcans`, and `Sync` and `FirestoreClient`, on which the other modules' view of
Firestore rests.

What is left to model adds little: the counters, whose only state is their own.

Proved: every safety property and action property of the passing runs, and both
refinements, `Reactions` of `Votes` and `FirestoreClient` of `Sync`.

What is left to prove: what `Sync` and `Votes` promise, as theorems about them alone, such
as that `Sync` commits a user's writes in his order, which `FirestoreClient` and `Reactions`
would then inherit.

## 10 Running it

In this directory, with the TLA+ tools and the community modules on the path:

    tlc -config MCReactions_switch.cfg MCReactions
    tlc -config MCFeed.cfg MCFeed
    tlc -config MCFirestoreClient.cfg MCFirestoreClient
    tlapm ReactionsProofs.tla        # and the other modules of section 6

Each passing run takes at most a few minutes on two workers.

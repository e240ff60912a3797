------------------------------ MODULE Reactions ------------------------------
(***************************************************************************)
(* Reacting to feels.  Several devices show the same feels; on each, the   *)
(* feed keeps a copy of every reactions document (reactionsArray), binds   *)
(* the open one to a ReactCell, and a tap on a react button edits the      *)
(* cell's dictionaries and writes the whole document back.  Between the    *)
(* cell and the server lie Firestore's local view with its queue of        *)
(* unsent writes, the snapshot callbacks queued on the main thread, and    *)
(* the reload of the table.                                                *)
(*                                                                         *)
(* The documents exist from the start (NewFeelsViewController creates one  *)
(* with every feels) and stay, and a section of the table is known only by *)
(* its index into reactionsArray.  Documents that come and go, sections    *)
(* past the end of that array and the feels a section shows are the        *)
(* subject of Feed.                                                        *)
(***************************************************************************)
EXTENDS ReactionDocs, Sequences

CONSTANTS
  Devices,   \* installations of the app, one feed open on each
  UserOf,    \* the user signed in on each device
  NumFeels,  \* number of feels, and of reactions documents
  MaxTaps    \* bound on the taps that change something

None == 0  \* a nil index

ASSUME ReactionsAssumption ==
  /\ UserOf \in [Devices -> Users]
  /\ None \notin Reacts
  /\ NumFeels \in Nat \ {0}
  /\ MaxTaps \in Nat

\* Feels are named by their place in the order the query asks for.
Feels == 1 .. NumFeels

VARIABLES
  server,          \* the reactions document of every feels
  pending,         \* per device, the writes not yet applied by the server
  view,            \* per device, Firestore's local view of the collection
  raised,          \* per device, snapshots waiting for the main thread
  reactionsArray,  \* per device, FeedViewController.reactionsArray
  currentReact,    \* per device, FeedViewController.currentReact
  open,            \* per device, the section with reactNibOpen, or None
  cell,            \* per device, the ReactCell last bound
  spare,           \* per device, reactStates of the cell left in the reuse pool
  running,         \* per device, FALSE after a crash
  taps,            \* number of taps so far
  pressed          \* history: reacts a user ever tapped on a feels

vars == <<server, pending, view, raised, reactionsArray, currentReact, open,
          cell, spare, running, taps, pressed>>

ReactStates == [Reacts -> BOOLEAN]
NoReactStates == [r \in Reacts |-> FALSE]

Snapshots == (SUBSET Reactions(Feels)) \ {{}}

Cells == [feelsId     : Feels \cup {None},
          reactCount  : [Reacts -> Int],
          userIdList  : [Reacts -> UserIdLists],
          reactStates : ReactStates]

\* A cell as the nib makes it, before commonInit.
NewCell == [feelsId     |-> None,
            reactCount  |-> [r \in Reacts |-> 0],
            userIdList  |-> [r \in Reacts |-> EmptyList],
            reactStates |-> NoReactStates]

\* Variant: the two queries return the feels in opposite orders.
ArrayOfReversed(docs) ==
  [i \in Feels |-> [feelsId |-> i, reactions |-> docs[NumFeels + 1 - i]]]

\* reactionsArray after a listener's first snapshot: every document, in order.
ArrayOf(docs) == [i \in Feels |-> [feelsId |-> i, reactions |-> docs[i]]]

Init ==
  /\ server = [f \in Feels |-> FreshDocument]
  /\ pending = [d \in Devices |-> <<>>]
  /\ view = [d \in Devices |-> server]
  /\ raised = [d \in Devices |-> <<>>]
  /\ reactionsArray = [d \in Devices |-> ArrayOf(server)]
  /\ currentReact = [d \in Devices |-> None]
  /\ open = [d \in Devices |-> None]
  /\ cell = [d \in Devices |-> NewCell]
  /\ spare = [d \in Devices |-> NoReactStates]
  /\ running = [d \in Devices |-> TRUE]
  /\ taps = 0
  /\ pressed = [u \in Users |-> [f \in Feels |-> {}]]

-----------------------------------------------------------------------------
(* ReactCell *)

\* Variant: a reused cell is not cleared when the user has not reacted.
CheckUserReactUncleared(states, userIdList, u) ==
  LET own == {r \in Reacts : Contains(userIdList[r], u)}
  IN  IF own = {} THEN {states} ELSE {[q \in Reacts |-> q = r] : r \in own}

\* The highlighted buttons checkUserReact can leave.  It visits the lists in
\* an arbitrary order: one without the user turns every button off; the first
\* with the user turns its own on and the others off, unless it is on already.
CheckUserReact(states, userIdList, u) ==
  LET own == {r \in Reacts : Contains(userIdList[r], u)}
  IN  IF own = {}
      THEN {NoReactStates}
      ELSE {[q \in Reacts |-> q = r] : r \in own}
           \cup {states : r \in {q \in own : states[q]}}

\* Variant: the cell is told the feels of its section, not of the array entry.
BindToSection(d, i) ==
  LET ids == ParsedUserIds(reactionsArray[d][i].reactions)
  IN  /\ currentReact' = [currentReact EXCEPT ![d] = i]
      /\ UNCHANGED spare
      /\ \E states \in CheckUserReact(cell[d].reactStates, ids, UserOf[d]) :
            cell' = [cell EXCEPT ![d] =
                      [feelsId     |-> i,
                       reactCount  |-> ParsedCount(reactionsArray[d][i].reactions),
                       userIdList  |-> ids,
                       reactStates |-> states]]

\* cellForRowAt for the react row of section i: note the section, parse the
\* array entry and give it to a reused cell or to the one from the pool.
Bind(d, i) ==
  LET entry == reactionsArray[d][i]
      ids   == ParsedUserIds(entry.reactions)
  IN  /\ currentReact' = [currentReact EXCEPT ![d] = i]
      /\ \E reuse \in BOOLEAN :
            LET before == IF reuse THEN cell[d].reactStates ELSE spare[d]
            IN  /\ spare' = [spare EXCEPT ![d] = IF reuse THEN @
                                                 ELSE cell[d].reactStates]
                /\ \E states \in CheckUserReact(before, ids, UserOf[d]) :
                      cell' = [cell EXCEPT ![d] =
                                [feelsId     |-> entry.feelsId,
                                 reactCount  |-> ParsedCount(entry.reactions),
                                 userIdList  |-> ids,
                                 reactStates |-> states]]

\* Variant: the react given up is purged of the user but keeps its count.
PressedKeepingCount(c, r, u) ==
  [c EXCEPT !.reactCount[r] = @ + 1,
            !.userIdList = [q \in Reacts |-> [c.userIdList[q] EXCEPT ![u] = IF q = r THEN 1 ELSE 0]],
            !.reactStates = [q \in Reacts |-> q = r]]

\* Variant: the other buttons are reset, their reacts are not.
PressedKeepingOthers(c, r, u) ==
  [c EXCEPT !.reactCount[r] = @ + 1,
            !.userIdList[r][u] = @ + 1,
            !.reactStates = [q \in Reacts |-> q = r]]

\* The cell after react1 .. react5 pressed for react r: r gains the user, and
\* every other highlighted react loses him.
Pressed(c, r, u) ==
  LET others == {q \in Reacts \ {r} : c.reactStates[q]}
  IN  [feelsId     |-> c.feelsId,
       reactCount  |-> [q \in Reacts |-> IF q = r THEN c.reactCount[q] + 1
                                         ELSE IF q \in others THEN c.reactCount[q] - 1
                                         ELSE c.reactCount[q]],
       userIdList  |-> [q \in Reacts |-> IF q = r THEN [c.userIdList[q] EXCEPT ![u] = @ + 1]
                                         ELSE IF q \in others THEN [c.userIdList[q] EXCEPT ![u] = 0]
                                         ELSE c.userIdList[q]],
       reactStates |-> [q \in Reacts |-> q = r]]

\* The diffs a listener is given when the local view changes.
Changes(before, after) ==
  {[feelsId |-> f, reactions |-> after[f]] : f \in {g \in Feels : before[g] # after[g]}}

\* The local view of device d becomes `after`; listeners hear of real changes.
SetView(d, after) ==
  LET diffs == Changes(view[d], after)
  IN  /\ view' = [view EXCEPT ![d] = after]
      /\ raised' = IF diffs = {} THEN raised
                   ELSE [raised EXCEPT ![d] = Append(@, diffs)]

\* A react button is pressed in the open cell: react1 .. react5 and the
\* updateReact they end with.
TapReact(d, r) ==
  /\ running[d]
  /\ open[d] # None
  /\ ~cell[d].reactStates[r]
  /\ taps < MaxTaps
  /\ taps' = taps + 1
  /\ LET u == UserOf[d]
         c == Pressed(cell[d], r, u)
     IN  /\ cell' = [cell EXCEPT ![d] = c]
         /\ pressed' = [pressed EXCEPT ![u][c.feelsId] = @ \cup {r}]
         /\ \E l \in Layouts :
              LET doc == Serialise(c.reactCount, c.userIdList, l)
              IN  /\ pending' = [pending EXCEPT ![d] =
                                   Append(@, [feelsId |-> c.feelsId, reactions |-> doc])]
                  /\ SetView(d, [view[d] EXCEPT ![c.feelsId] = doc])
  /\ UNCHANGED <<server, reactionsArray, currentReact, open, spare, running>>

-----------------------------------------------------------------------------
(* The feed table *)

\* didSelectRowAt on a closed section: it opens, every other one closes, and
\* its rows are laid out.
OpenReacts(d, i) ==
  /\ running[d]
  /\ open[d] # i
  /\ open' = [open EXCEPT ![d] = i]
  /\ Bind(d, i)
  /\ UNCHANGED <<server, pending, view, raised, reactionsArray, running, taps, pressed>>

\* didSelectRowAt on the open section.
CloseReacts(d) ==
  /\ running[d]
  /\ open[d] # None
  /\ open' = [open EXCEPT ![d] = None]
  /\ UNCHANGED <<server, pending, view, raised, reactionsArray, currentReact,
                 cell, spare, running, taps, pressed>>

\* reloadData, or scrolling back: the open section's rows are laid out anew.
Reload(d) ==
  /\ running[d]
  /\ open[d] # None
  /\ Bind(d, open[d])
  /\ UNCHANGED <<server, pending, view, raised, reactionsArray, open, running,
                 taps, pressed>>

\* The reactions listener on the main thread.  Every diff of type .modified
\* is stored at currentReact, whichever document it is of, so the last one in
\* query order stays; with currentReact still nil the app crashes.
Deliver(d) ==
  /\ running[d]
  /\ raised[d] # <<>>
  /\ raised' = [raised EXCEPT ![d] = Tail(@)]
  /\ IF currentReact[d] = None
     THEN /\ running' = [running EXCEPT ![d] = FALSE]
          /\ UNCHANGED reactionsArray
     ELSE /\ \E diff \in Head(raised[d]) :
               /\ \A other \in Head(raised[d]) : other.feelsId <= diff.feelsId
               /\ reactionsArray' = [reactionsArray EXCEPT ![d][currentReact[d]] = diff]
          /\ UNCHANGED running
  /\ UNCHANGED <<server, pending, view, currentReact, open, cell, spare, taps, pressed>>

\* The app is started again, after a crash or after the user killed it.  The
\* local view and the unsent writes are on disk; the rest is built anew.
Relaunch(d) ==
  /\ running' = [running EXCEPT ![d] = TRUE]
  /\ raised' = [raised EXCEPT ![d] = <<>>]
  /\ reactionsArray' = [reactionsArray EXCEPT ![d] = ArrayOf(view[d])]
  /\ currentReact' = [currentReact EXCEPT ![d] = None]
  /\ open' = [open EXCEPT ![d] = None]
  /\ cell' = [cell EXCEPT ![d] = NewCell]
  /\ spare' = [spare EXCEPT ![d] = NoReactStates]
  /\ UNCHANGED <<server, pending, view, taps, pressed>>

-----------------------------------------------------------------------------
(* Firestore *)

\* The server applies the oldest unsent write of a device.  setData with
\* merge:true replaces each of the slots the write names, which are all.
ServerApply(d) ==
  /\ running[d]
  /\ pending[d] # <<>>
  /\ LET w == Head(pending[d])
     IN  server' = [server EXCEPT ![w.feelsId] = w.reactions]
  /\ pending' = [pending EXCEPT ![d] = Tail(@)]
  /\ UNCHANGED <<view, raised, reactionsArray, currentReact, open, cell, spare,
                 running, taps, pressed>>

\* Variant: a local version is kept although it has been sent.
KeptLocal(d, f) == view[d][f] # server[f]

Unsent(d, f) == \E i \in DOMAIN pending[d] : pending[d][i].feelsId = f

\* A device hears from the server.  A document with unsent writes keeps its
\* local version until the server has them.
Watch(d) ==
  /\ running[d]
  /\ LET after == [f \in Feels |-> IF Unsent(d, f) THEN view[d][f] ELSE server[f]]
     IN  /\ after # view[d]
         /\ SetView(d, after)
  /\ UNCHANGED <<server, pending, reactionsArray, currentReact, open, cell, spare,
                 running, taps, pressed>>

-----------------------------------------------------------------------------
Next ==
  \E d \in Devices :
     \/ \E r \in Reacts : TapReact(d, r)
     \/ \E i \in Feels : OpenReacts(d, i)
     \/ CloseReacts(d)
     \/ Reload(d)
     \/ Deliver(d)
     \/ Relaunch(d)
     \/ ServerApply(d)
     \/ Watch(d)

Spec == Init /\ [][Next]_vars

\* Firestore retries its streams until they succeed and the main queue is
\* drained; nobody has to tap, open a section or start the app again.
Fairness ==
  \A d \in Devices : /\ WF_vars(ServerApply(d))
                     /\ WF_vars(Watch(d))
                     /\ WF_vars(Deliver(d))

FairSpec == Spec /\ Fairness

-----------------------------------------------------------------------------
(* Properties *)

TypeOK ==
  /\ server \in [Feels -> Documents]
  /\ pending \in [Devices -> Seq(Reactions(Feels))]
  /\ view \in [Devices -> [Feels -> Documents]]
  /\ raised \in [Devices -> Seq(Snapshots)]
  /\ reactionsArray \in [Devices -> [Feels -> Reactions(Feels)]]
  /\ currentReact \in [Devices -> Feels \cup {None}]
  /\ open \in [Devices -> Feels \cup {None}]
  /\ cell \in [Devices -> Cells]
  /\ spare \in [Devices -> ReactStates]
  /\ running \in [Devices -> BOOLEAN]
  /\ taps \in 0 .. MaxTaps
  /\ pressed \in [Users -> [Feels -> SUBSET Reacts]]

\* Every copy of a reactions document, wherever it is.
OnServer    == {[feelsId |-> f, reactions |-> server[f]] : f \in Feels}
InViews     == {[feelsId |-> f, reactions |-> view[d][f]] : d \in Devices, f \in Feels}
InArrays    == {reactionsArray[d][i] : d \in Devices, i \in Feels}
InQueues    == UNION {{pending[d][i] : i \in DOMAIN pending[d]} : d \in Devices}
InSnapshots == UNION {UNION {raised[d][i] : i \in DOMAIN raised[d]} : d \in Devices}

Copies == OnServer \cup InViews \cup InArrays \cup InQueues \cup InSnapshots

\* However stale the copies the devices write from, no document ever shows a
\* count that differs from its list of users, lists a user twice, or loses a
\* react: the counts and lists that ReactCell edits separately stay in step.
DocumentsConsistent ==
  \A copy \in Copies : Consistent(copy.reactions)

\* The dictionaries a cell is about to write back are consistent too.
CellsConsistent ==
  \A d \in Devices : /\ CountsMatch(cell[d].reactCount, cell[d].userIdList)
                     /\ OneReactPerUser(cell[d].userIdList)

\* A ReactCell that came from the reuse pool, where it showed other feels,
\* highlights exactly the react its lists record for the signed-in user; the
\* tap handlers rely on it when they add one entry and purge the others.
ButtonsMatchLists ==
  \A d \in Devices : cell[d].feelsId # None =>
     \A r \in Reacts :
        cell[d].reactStates[r] <=> Contains(cell[d].userIdList[r], UserOf[d])

\* Nobody is ever shown to have reacted to feels in a way he never chose,
\* although every writer writes the lists of all users, and although diffs of
\* one feels end up in the array slot of another.
VotesAuthentic ==
  \A copy \in Copies, u \in Users, r \in Reacts :
     Contains(ParsedUserIds(copy.reactions)[r], u) => r \in pressed[u][copy.feelsId]

\* The react the server records for each user, read off its documents.
RecordedVotes ==
  [f \in Feels |-> [u \in Users |->
     LET of == {r \in Reacts : Contains(ParsedUserIds(server[f])[r], u)}
     IN  IF of = {} THEN None ELSE CHOOSE r \in of : TRUE]]

Ballots == INSTANCE Votes WITH vote <- RecordedVotes, ever <- pressed, NoReact <- None

\* Cells, queues, views and the misplaced diffs together implement Votes: a
\* step of any device is a choice of one user, a write that leaves its author
\* with a react and everybody else with one of his own choosing, or invisible.
ImplementsVotes == Ballots!Spec

\* Once the taps are over, every device that stays up has sent its writes and
\* sees what the server has, whatever overwrote what on the way.
AgreeAtRest ==
  (\A d \in Devices : <>[]running[d])
     => <>[](\A d \in Devices : pending[d] = <<>> /\ view[d] = server)

\* "Increment react count" (ReactCell.swift): a write made for a tap raises by
\* one the server's count of the react that gains its user.  Checked to fail:
\* two users who tap the same react on stale copies are counted once.
Increments(before, after, u) ==
  \A r \in Reacts :
     (Contains(ParsedUserIds(after)[r], u) /\ ~Contains(ParsedUserIds(before)[r], u))
        => ParsedCount(after)[r] = ParsedCount(before)[r] + 1

TapIncrementsCount ==
  [][\A d \in Devices : ServerApply(d) =>
        LET f == Head(pending[d]).feelsId
        IN  Increments(server[f], server'[f], UserOf[d])]_vars
=============================================================================

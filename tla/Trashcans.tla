------------------------------ MODULE Trashcans ------------------------------
(***************************************************************************)
(* The trashcans of one user on one device.  The list lives in the user    *)
(* document; the feed fetches it, hands one copy to the composer, which    *)
(* dumps feels into a trashcan by its name, and another to the profile     *)
(* tab, which adds and deletes trashcans in its own copy and writes that   *)
(* back.  A trashcan is deleted in four steps: the tap, which shows an     *)
(* alert, Delete in it, the answer to a query for all feels, and its       *)
(* completion; other deletions may finish between any two, and the user is *)
(* free to go on after the second.                                         *)
(***************************************************************************)
EXTENDS Integers, SequencesExt

CONSTANTS
  Closed,         \* a view that does not exist, data not there yet
  Names,          \* names of trashcans
  MixedEmotions,  \* the one every account starts with
  NumFeels,       \* bound on the feels
  Foreign,        \* the feels of other users, there from the start
  MaxTrashcans,   \* bound on the length of the list
  MaxInFlight     \* bound on the deletions under way, from the tap on

Feels == 1 .. NumFeels

ASSUME TrashcansAssumption ==
  /\ MixedEmotions \in Names
  /\ NumFeels \in Nat
  /\ Foreign \subseteq Feels
  /\ MaxTrashcans \in Nat
  /\ MaxInFlight \in Nat \ {0}

NoName == ""  \* the label "Choose Trashcan"

VARIABLES
  account,    \* the user document, in Firestore's local view
  feels,      \* what became of each feels, and its trashcan
  feed,       \* the top FeedViewController
  composer,   \* NewFeelsViewController, or Closed
  profile,    \* ProfileViewController, or Closed until the tab is opened
  isInDeleteMode,
  prompt,     \* item of the add button whose alert is shown, or Closed
  alert,      \* item of the cell whose deletion is to be confirmed, or Closed
  queries,    \* deletions whose query has not been answered
  answers,    \* answered ones, waiting for the main thread
  counting,   \* dumps whose getDocument has not been answered
  counted,    \* feelsCount as read for those that have been
  crash

vars == <<account, feels, feed, composer, profile, isInDeleteMode, prompt,
          alert, queries, answers, counting, counted, crash>>

store    == <<account, feels>>
dialogue == <<isInDeleteMode, prompt, alert>>
deleting == <<queries, answers>>
adding   == <<counting, counted>>

AddButton == "add"  \* the cell after the trashcans

\* The document, as far as trashcans go.  It makes a User only if all fields
\* are there: rememberMe is null after a log-in whose switch was not touched.
Accounts == [trashcans : Seq(Names), trashcanCount : Nat, feelsCount : Nat,
             rememberMe : BOOLEAN]

\* Whether there is a currentUserData, and the list for the composer.  (Only
\* the profile changes the list, so the User that opens it has the document's.)
Feeds == [known : BOOLEAN, trashcanList : Seq(Names), trashcanCount : Nat]

NewFeed == [known |-> FALSE, trashcanList |-> <<>>, trashcanCount |-> 0]

\* The profile's copy, whether the last tap on the tab bar left it a
\* currentUserData, and what the cells of the collection show.
Profiles == [trashcans : Seq(Names), trashcanCount : Int, known : BOOLEAN,
             cells : Seq(Names \cup {AddButton})]

Composers == [trashcanList : Seq(Names), trashcanCount : Int,
              trashcanName : Names \cup {NoName}]

\* A tap in delete mode: the item of the cell; for the properties, the name on it.
Taps == [item : Nat, name : Names \cup {AddButton}]

\* A deletion: the tap and the feels the query found; for the properties, the
\* feels of that name when Delete was pressed.
Deletions == [item : Nat, name : Names \cup {AddButton}, found : SUBSET Feels, had : SUBSET Feels]

\* What is closed is told from everything that is open.
ASSUME ClosedAssumption ==
  /\ Closed \notin Nat
  /\ Closed \notin Composers
  /\ Closed \notin Profiles
  /\ Closed \notin Taps

\* Names are told from the button.
ASSUME ButtonAssumption == AddButton \notin Names

FeelsStates == {"none", "live", "deleted"}

Mine(f) == f \notin Foreign
Live == {f \in Feels : feels[f].state = "live"}
LiveIn(name) == {f \in Live : Mine(f) /\ feels[f].trashcan = name}

Running == crash = ""

Init ==
  /\ account \in [trashcans : {<<MixedEmotions>>}, trashcanCount : {1}, feelsCount : {0},
                  rememberMe : BOOLEAN]
  /\ feels \in [Feels -> [state : {"none", "live"}, trashcan : {MixedEmotions}]]
  /\ \A f \in Feels : feels[f].state = "live" <=> f \in Foreign
  /\ feed = NewFeed
  /\ composer = Closed
  /\ profile = Closed
  /\ isInDeleteMode = FALSE
  /\ prompt = Closed
  /\ alert = Closed
  /\ queries = <<>>
  /\ answers = <<>>
  /\ counting = 0
  /\ counted = <<>>
  /\ crash = ""

-----------------------------------------------------------------------------
(* FeedViewController *)

\* getCurrentUserData: the listener's call.
UserDataHeard ==
  /\ Running
  /\ feed' = [feed EXCEPT !.known = account.rememberMe]
  /\ UNCHANGED <<store, composer, profile, dialogue, deleting, adding, crash>>

\* getTrashcanList: the document is read as a User and field by field.
TrashcanListFetched ==
  /\ Running
  /\ feed' = [known |-> account.rememberMe, trashcanList |-> account.trashcans,
              trashcanCount |-> account.trashcanCount]
  /\ UNCHANGED <<store, composer, profile, dialogue, deleting, adding, crash>>

OnTabs == Running /\ composer = Closed /\ prompt = Closed /\ alert = Closed

\* The tab bar's delegate hands over currentUserData, whatever it is, at every
\* tap.  At the first one viewDidLoad copies it; without it the app stops.
TapTab ==
  /\ OnTabs
  /\ IF profile # Closed
     THEN profile' = [profile EXCEPT !.known = feed.known] /\ UNCHANGED crash
     ELSE IF feed.known
     THEN /\ profile' = [trashcans |-> account.trashcans,
                         trashcanCount |-> account.trashcanCount, known |-> TRUE,
                         cells |-> Append(account.trashcans, AddButton)]
          /\ UNCHANGED crash
     ELSE crash' = "noUserData" /\ UNCHANGED profile
  /\ UNCHANGED <<store, feed, composer, dialogue, deleting, adding>>

\* createFeels and prepare(for:).
OpenComposer ==
  /\ OnTabs
  /\ composer' = [trashcanList  |-> feed.trashcanList,
                  trashcanCount |-> feed.trashcanCount,
                  trashcanName  |-> NoName]
  /\ UNCHANGED <<store, feed, profile, dialogue, deleting, adding, crash>>

-----------------------------------------------------------------------------
(* NewFeelsViewController *)

\* The picker offers trashcanCount rows and takes the name from trashcanList.
PickTrashcan(row) ==
  /\ Running /\ composer # Closed
  /\ row \in 1 .. composer.trashcanCount
  /\ IF row \in DOMAIN composer.trashcanList
     THEN composer' = [composer EXCEPT !.trashcanName = composer.trashcanList[row]]
          /\ UNCHANGED crash
     ELSE crash' = "picker" /\ UNCHANGED composer
  /\ UNCHANGED <<store, feed, profile, dialogue, deleting, adding>>

\* Variant: the label is taken for a name.
TrashcanLabel(c) == c.trashcanName

\* The trashcan of the feels, "Mixed Emotions" unless one was picked.
TrashcanName(c) == IF c.trashcanName = NoName THEN MixedEmotions ELSE c.trashcanName

\* dumpFeels: the feels are stored, feelsCount is about to be read, and a new
\* feed is pushed, which knows nothing yet.
DumpFeels(f) ==
  /\ Running /\ composer # Closed
  /\ feels[f].state = "none"
  /\ \A g \in Feels : feels[g].state = "none" => f <= g
  /\ feels' = [feels EXCEPT ![f] = [state |-> "live", trashcan |-> TrashcanName(composer)]]
  /\ counting' = counting + 1
  /\ composer' = Closed
  /\ feed' = NewFeed
  /\ UNCHANGED <<account, profile, dialogue, deleting, counted, crash>>

\* The composer's back button.
LeaveComposer ==
  /\ Running /\ composer # Closed
  /\ composer' = Closed
  /\ feed' = NewFeed
  /\ UNCHANGED <<store, profile, dialogue, deleting, adding, crash>>

\* Variant: a listener in place of getDocument, called with every change.
CountReadAgain ==
  /\ Running /\ counting > 0
  /\ counted' = Append(counted, account.feelsCount)
  /\ UNCHANGED <<store, feed, composer, profile, dialogue, deleting, counting, crash>>

\* The getDocument of a dump is answered, by a document that makes no User
\* perhaps ...
CountRead ==
  /\ Running /\ counting > 0
  /\ IF account.rememberMe
     THEN /\ counting' = counting - 1
          /\ counted' = Append(counted, account.feelsCount)
          /\ UNCHANGED crash
     ELSE crash' = "noUserData" /\ UNCHANGED adding
  /\ UNCHANGED <<store, feed, composer, profile, dialogue, deleting>>

\* ... and its completion writes one more than was read.
CountWritten ==
  /\ Running /\ counted # <<>>
  /\ account' = [account EXCEPT !.feelsCount = Head(counted) + 1]
  /\ counted' = Tail(counted)
  /\ UNCHANGED <<feels, feed, composer, profile, dialogue, deleting, counting, crash>>

-----------------------------------------------------------------------------
(* ProfileViewController *)

OnProfile == OnTabs /\ profile # Closed

\* Variant: the list is forgotten.
SaveCountOnly(trashcans, trashcanCount) ==
  account' = [account EXCEPT !.trashcanCount = trashcanCount]

\* Variant: setData with a whole new user.
SaveWholeUser(trashcans, trashcanCount) ==
  account' = [account EXCEPT !.trashcans = trashcans, !.trashcanCount = trashcanCount,
                             !.feelsCount = 0]

\* updateData with the two fields.
Save(trashcans, trashcanCount) ==
  account' = [account EXCEPT !.trashcans = trashcans, !.trashcanCount = trashcanCount]

\* handleLongPress and handleDoubleTap.
ToggleDeleteMode ==
  /\ OnProfile
  /\ isInDeleteMode' = ~isInDeleteMode
  /\ UNCHANGED <<store, feed, composer, profile, prompt, alert, deleting, adding, crash>>

\* The add button is the cell after the trashcans.
AddTrashcanCell == profile.trashcanCount + 1

TapAddTrashcan ==
  /\ OnProfile
  /\ ~isInDeleteMode
  /\ prompt' = AddTrashcanCell
  /\ UNCHANGED <<store, feed, composer, profile, isInDeleteMode, alert, deleting, adding, crash>>

CancelPrompt ==
  /\ Running /\ prompt # Closed
  /\ prompt' = Closed
  /\ UNCHANGED <<store, feed, composer, profile, isInDeleteMode, alert, deleting, adding, crash>>

\* Variant: where the add button is by now.
PlaceOfAddButton == profile.trashcanCount + 2

\* Where the add button was when it was tapped.
PlaceOfNewCell == prompt

\* cellForItemAt, with the list as it is by then.
NewCell(p, place) == IF place = p.trashcanCount + 1 THEN AddButton ELSE p.trashcans[place]

\* Variant: only the list is saved.
AddedSavingList(name) ==
  /\ profile' = [profile EXCEPT !.trashcanCount = @ + 1, !.trashcans = Append(@, name)]
  /\ account' = [account EXCEPT !.trashcans = profile'.trashcans]
  /\ UNCHANGED crash

\* The list and the count grow, here and in the document, and the collection
\* gets a cell, but refuses a place past its end.
Added(name) ==
  LET p == [profile EXCEPT !.trashcanCount = @ + 1, !.trashcans = Append(@, name)]
  IN  /\ Save(p.trashcans, p.trashcanCount)
      /\ IF PlaceOfNewCell <= Len(p.cells) + 1
         THEN /\ profile' = [p EXCEPT !.cells =
                    InsertAt(@, PlaceOfNewCell, NewCell(p, PlaceOfNewCell))]
              /\ UNCHANGED crash
         ELSE profile' = p /\ crash' = "insertItems"

\* Create in the alert.
CreateTrashcan(name) ==
  /\ Running /\ prompt # Closed
  /\ Len(profile.trashcans) < MaxTrashcans
  /\ IF profile.known
     THEN Added(name)
     ELSE crash' = "noUserData" /\ UNCHANGED <<account, profile>>
  /\ prompt' = Closed
  /\ UNCHANGED <<feels, feed, composer, isInDeleteMode, alert, deleting, adding>>

\* A tap in delete mode, on any cell before the place of the add button.
TapTrashcan(i) ==
  /\ OnProfile
  /\ isInDeleteMode
  /\ i \in 1 .. profile.trashcanCount
  /\ Len(queries) + Len(answers) < MaxInFlight
  /\ alert' = [item |-> i, name |-> profile.cells[i]]
  /\ UNCHANGED <<store, feed, composer, profile, isInDeleteMode, prompt, deleting, adding, crash>>

CancelDelete ==
  /\ Running /\ alert # Closed
  /\ alert' = Closed
  /\ UNCHANGED <<store, feed, composer, profile, isInDeleteMode, prompt, deleting, adding, crash>>

\* Delete in the alert: the query for all feels is sent.
ConfirmDelete ==
  /\ Running /\ alert # Closed
  /\ queries' = Append(queries, [item |-> alert.item, name |-> alert.name, found |-> {},
                                 had |-> LiveIn(alert.name)])
  /\ alert' = Closed
  /\ UNCHANGED <<store, feed, composer, profile, isInDeleteMode, prompt, answers, adding, crash>>

QueryAnswered ==
  /\ Running /\ queries # <<>>
  /\ queries' = Tail(queries)
  /\ answers' = Append(answers, [Head(queries) EXCEPT !.found = Live])
  /\ UNCHANGED <<store, feed, composer, profile, dialogue, adding, crash>>

QueryFailed ==
  /\ Running /\ queries # <<>>
  /\ queries' = Tail(queries)
  /\ UNCHANGED <<store, feed, composer, profile, dialogue, answers, adding, crash>>

\* Variant: whose feels they are is not checked.
FeelsToRemoveOfAnyone(d) ==
  {f \in d.found : feels[f].trashcan = profile.trashcans[d.item]}

\* Variant: the newest matching feels only.
FeelsToRemoveFirst(d) ==
  {f \in d.found : /\ Mine(f) /\ feels[f].trashcan = profile.trashcans[d.item]
                   /\ \A g \in d.found : Mine(g) => g <= f}

\* The user's own feels among those found, by the name now at the item.
FeelsToRemove(d) ==
  {f \in d.found : Mine(f) /\ feels[f].trashcan = profile.trashcans[d.item]}

Removed(d) ==
  profile' = [profile EXCEPT !.trashcanCount = @ - 1, !.trashcans = RemoveAt(@, d.item),
                             !.cells = RemoveAt(@, d.item)]

\* The completion of the query: feels and trashcan go, the list is saved.
FinishDelete ==
  /\ Running /\ answers # <<>>
  /\ answers' = Tail(answers)
  /\ LET d == Head(answers)
     IN  IF profile.known /\ d.item \in DOMAIN profile.trashcans
         THEN /\ feels' = [f \in Feels |-> IF f \in FeelsToRemove(d)
                                           THEN [feels[f] EXCEPT !.state = "deleted"]
                                           ELSE feels[f]]
              /\ Removed(d)
              /\ Save(profile'.trashcans, profile'.trashcanCount)
              /\ UNCHANGED crash
         ELSE crash' = "finishDelete" /\ UNCHANGED <<store, profile>>
  /\ UNCHANGED <<feed, composer, dialogue, queries, adding>>

\* The app is killed, or has crashed, and is started again; the user may have
\* to log in, with or without a touch of the switch.
Relaunch(rememberMe) ==
  /\ account' = [account EXCEPT !.rememberMe = rememberMe]
  /\ feed' = NewFeed
  /\ composer' = Closed
  /\ profile' = Closed
  /\ isInDeleteMode' = FALSE
  /\ prompt' = Closed
  /\ alert' = Closed
  /\ queries' = <<>>
  /\ answers' = <<>>
  /\ counting' = 0
  /\ counted' = <<>>
  /\ crash' = ""
  /\ UNCHANGED feels

-----------------------------------------------------------------------------
Next ==
  \/ UserDataHeard
  \/ TrashcanListFetched
  \/ TapTab
  \/ OpenComposer
  \/ \E row \in 1 .. MaxTrashcans : PickTrashcan(row)
  \/ \E f \in Feels : DumpFeels(f)
  \/ LeaveComposer
  \/ CountRead
  \/ CountWritten
  \/ ToggleDeleteMode
  \/ TapAddTrashcan
  \/ CancelPrompt
  \/ \E name \in Names : CreateTrashcan(name)
  \/ \E i \in 1 .. MaxTrashcans : TapTrashcan(i)
  \/ CancelDelete
  \/ ConfirmDelete
  \/ QueryAnswered
  \/ QueryFailed
  \/ FinishDelete
  \/ \E rememberMe \in BOOLEAN : Relaunch(rememberMe)

Spec == Init /\ [][Next]_vars

-----------------------------------------------------------------------------
(* Properties *)

TypeOK ==
  /\ account \in Accounts
  /\ feels \in [Feels -> [state : FeelsStates, trashcan : Names]]
  /\ feed \in Feeds
  /\ composer = Closed \/ composer \in Composers
  /\ profile = Closed \/ profile \in Profiles
  /\ isInDeleteMode \in BOOLEAN
  /\ prompt = Closed \/ prompt \in Nat
  /\ alert = Closed \/ alert \in Taps
  /\ queries \in Seq(Deletions) /\ answers \in Seq(Deletions)
  /\ counting \in Nat
  /\ counted \in Seq(Nat)
  /\ crash \in {"", "noUserData", "picker", "insertItems", "finishDelete"}

CountIsLength(data) == data.trashcanCount = Len(data.trashcans)

\* Every copy of the trashcans, however old, has as many names as its count
\* says: rows and cells are counted by one and filled from the other.
CountsMatchLists ==
  /\ CountIsLength(account)
  /\ feed.trashcanCount = Len(feed.trashcanList)
  /\ profile # Closed => CountIsLength(profile)
  /\ composer # Closed => composer.trashcanCount = Len(composer.trashcanList)

\* The profile never reads the document again, yet at any time, whatever is
\* in flight or was lost with a restart, the document has the list it shows.
DocumentFollowsProfile == profile # Closed => account.trashcans = profile.trashcans

Deleted == {f \in Live : feels'[f].state = "deleted"}

\* A deletion is completed, and the app goes on.
Completed == answers # <<>> /\ Tail(answers) = answers' /\ crash' = "" /\ profile' # Closed

\* With one deletion at a time, from the tap to its completion, what goes is
\* the trashcan whose name was on the cell that was tapped, whatever had become
\* of the other cells by then, and feels of the user's in it and no others:
\* trashcans may be added and feels dumped meanwhile.  (A cell that showed no
\* name is OnlyTrashcansAreTapped's.)
DeletesWhatWasTapped ==
  [][(Completed /\ Head(answers).name # AddButton) =>
        LET d == Head(answers)
        IN  /\ \A f \in Deleted : Mine(f) /\ feels[f].trashcan = d.name
            /\ profile'.trashcans = RemoveAt(profile.trashcans, d.item)
            /\ profile.trashcans[d.item] = d.name]_vars

\* "} else { // Trashcan Cell" (didSelectItemAt): every cell before the place
\* of the add button is a trashcan's.  Checked to fail: a cell put where the
\* add button was, after a deletion had finished behind its alert, leaves the
\* old button before the new one, and in delete mode it deletes a trashcan.
OnlyTrashcansAreTapped == alert # Closed => alert.name # AddButton

CellsRight(p) == p.cells = Append(p.trashcans, AddButton)

\* A new cell is put where the add button was at the tap, while a deletion
\* may finish behind the alert.  In no other way do the cells on screen come
\* to differ from the list and the add button after it.
CellsFollowList ==
  [][(profile # Closed /\ profile' # Closed /\ CellsRight(profile) /\ crash' = "") =>
        \/ CellsRight(profile')
        \/ prompt # Closed /\ prompt # AddTrashcanCell /\ prompt' = Closed]_vars

\* "Deleting a trashcan will delete all feels dumped in it!"  True of what was
\* in it when the user pressed Delete, with one deletion at a time.  Checked to
\* fail when a second trashcan is tapped before the first deletion has
\* finished: its item then is that of another trashcan.
TappedFeelsAreDeleted ==
  [][Completed => \A f \in Head(answers).had : feels'[f].state = "deleted"]_vars

\* A dump is three writes and a read, cut short by restarts and by a document
\* that makes no User: a count may be missed, but none is made up.
CountedFeelsWereDumped ==
  account.feelsCount <= Cardinality({f \in Feels : Mine(f) /\ feels[f].state # "none"})

\* feelsCount is read, incremented and written back in three steps, one set
\* of them for each dump and some cut short by a restart, and the profile saves
\* the document's other fields from a copy it never refreshes; still the count
\* in the document never drops.
FeelsCountNeverDrops == [][account'.feelsCount >= account.feelsCount]_vars
=============================================================================

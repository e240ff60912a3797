-------------------------------- MODULE Feed --------------------------------
(***************************************************************************)
(* FeedViewController on one device: how the snapshots of the collections  *)
(* "feels" and "reactions" become the parallel arrays behind the table,    *)
(* and how the table, taps and the other screens use them meanwhile.  With *)
(* it, TrashcanContentViewController: the page of the feels in one         *)
(* trashcan, opened in the profile tab, with two listeners of its own.     *)
(*                                                                         *)
(* Every return from the composer pushes a new FeedViewController and the  *)
(* old ones stay below it with their listeners on, so a device has several *)
(* pages; only the top one is ever on screen.  The page of a trashcan that *)
(* was left goes on listening too, as its listeners hold on to it.  What   *)
(* the reactions documents hold is the subject of Reactions: here one is   *)
(* its feels' name.                                                        *)
(***************************************************************************)
EXTENDS Integers, Sequences, FiniteSetsExt

CONSTANTS
  NumFeels,   \* number of feels ever dumped
  Settings    \* what is explored, see below

ASSUME FeedAssumption ==
  /\ NumFeels \in Nat
  /\ \A s \in Settings :
        /\ s.mine \subseteq 1 .. NumFeels   \* the user's, the others are of others
        /\ s.alone \in BOOLEAN     \* nobody but this device writes
        /\ s.pages \in Nat \ {0}   \* bound on the feed's pages pushed
        /\ \A S \in s.trashcans : S \subseteq 1 .. NumFeels   \* feels in one of that name
        /\ s.reacts \in Nat        \* bound on the reactions written
        /\ s.queue \in Nat         \* bound on the callbacks waiting when others are heard

\* Feels are numbered by timestamp: the queries return higher numbers first.
Feels == 1 .. NumFeels

None == 0

DocStates == {"none", "live", "gone"}

VARIABLES
  setting,     \* the setting of this behaviour
  own,         \* the feels whose userId is the signed-in user
  feelsDoc,    \* Firestore's local view of the collection "feels"
  reactsDoc,   \* Firestore's local view of the collection "reactions"
  pages,       \* the FeedViewControllers, the last one on top
  contents,    \* the TrashcanContentViewControllers, the last one opened last
  screen,      \* what covers the window
  crash,       \* why the app is not running, or ""
  reacts       \* number of reactions written so far

vars == <<setting, own, feelsDoc, reactsDoc, pages, contents, screen, crash, reacts>>

\* away: profile tab, FeelsReactData
Screens == {"feed", "composer", "away", "trashcan"}

Live(docs) == {f \in Feels : docs[f] = "live"}

\* A set of feels in the order of timestamp, newest and oldest first.
Newest(S) == [i \in 1 .. Cardinality(S) |->
                CHOOSE f \in S : Cardinality({g \in S : g >= f}) = i]
Oldest(S) == [i \in 1 .. Cardinality(S) |->
                CHOOSE f \in S : Cardinality({g \in S : g <= f}) = i]

Closed(n) == [i \in 1 .. n |-> FALSE]

\* A call of one of the two listeners, waiting on the main queue.
Callbacks == [collection : {"feels", "reactions"},
              type       : {"added", "modified", "removed"},
              ids        : SUBSET Feels]

Callback(collection, type, ids) ==
  [collection |-> collection, type |-> type, ids |-> ids]

Pages == [listenToFeels  : BOOLEAN,
          listeners      : Nat,                     \* registrations not removed
          queue          : Seq(Callbacks),
          feelsArray     : Seq(Feels),              \* and feelsIds, its twin
          reactNibOpen   : Seq(BOOLEAN),
          reactionsArray : Seq(Feels),
          currentReact   : Nat,                     \* None for nil
          shown          : Nat,                     \* sections of the last reload
          reloading      : BOOLEAN,                 \* reloadData is queued
          bound          : Feels \cup {None}]       \* feels of the react cell shown

NewPage == [listenToFeels |-> TRUE, listeners |-> 0, queue |-> <<>>,
            feelsArray |-> <<>>, reactNibOpen |-> <<>>, reactionsArray |-> <<>>,
            currentReact |-> None, shown |-> 0, reloading |-> FALSE, bound |-> None]

Contents == [trashcan   : SUBSET Feels,     \* feels with that trashcan's name
             queue      : Seq(Callbacks),
             feelsArray : Seq(Feels),
             shown      : Nat]              \* rows of the last reload

Top == pages[Len(pages)]

-----------------------------------------------------------------------------
(* The listeners *)

\* Variant: the reactions listener is not told of the documents it starts with.
RegisteredUntold(p, fdocs, rdocs) ==
  [p EXCEPT !.listeners = @ + 1,
            !.queue = Append(@, Callback("feels", "added", Live(fdocs)))]

\* checkForUpdates registers both listeners; each is called first with all
\* the documents there are.
Registered(p, fdocs, rdocs) ==
  [p EXCEPT !.listeners = @ + 1,
            !.queue = @ \o <<Callback("feels", "added", Live(fdocs)),
                             Callback("reactions", "added", Live(rdocs))>>]

\* Variant: the listeners of a page that comes back are kept.
AppearedListening(p, fdocs, rdocs) == Registered(p, fdocs, rdocs)

\* Variant: the old listeners are removed instead of the new ones.
AppearedDetached(p, fdocs, rdocs) ==
  [p EXCEPT !.shown = Len(p.feelsArray),
            !.reloading = FALSE,
            !.listeners = IF p.listenToFeels THEN 1 ELSE 0,
            !.queue = IF p.listenToFeels THEN Registered(p, fdocs, rdocs).queue ELSE @]

\* viewWillAppear.  When the page has been away before, the two listeners
\* are removed in the same call and never run.
Appeared(p, fdocs, rdocs) ==
  LET q == IF p.listenToFeels THEN Registered(p, fdocs, rdocs) ELSE p
  IN  [q EXCEPT !.shown = Len(p.feelsArray), !.reloading = FALSE]

\* Variant: a page that is covered gives up its arrays.
DisappearedEmptied(p) ==
  [p EXCEPT !.listenToFeels = FALSE, !.bound = None, !.shown = 0,
            !.feelsArray = <<>>, !.reactNibOpen = <<>>, !.reactionsArray = <<>>]

Disappeared(p) == [p EXCEPT !.listenToFeels = FALSE, !.bound = None]

\* Every listener of every page is called with a change.
Raise(pgs, call) ==
  [k \in DOMAIN pgs |->
     [pgs[k] EXCEPT !.queue = @ \o [i \in 1 .. pgs[k].listeners |-> call]]]

\* The same for the pages of trashcans.  Other calls change nothing there.
RaiseContents(ctx, call) ==
  [k \in DOMAIN ctx |->
     IF <<call.collection, call.type>> \in {<<"feels", "added">>, <<"reactions", "modified">>}
     THEN [ctx[k] EXCEPT !.queue = Append(@, call)] ELSE ctx[k]]

\* Variant: the new flags all go to the end.
OpenFlagsAppended(flags, ids) ==
  flags \o Closed(Cardinality(ids \ own)) \o Closed(Cardinality(ids))

\* Variant: only .added makes room for a flag.
OpenFlagsOnce(flags, ids) == flags \o Closed(Cardinality(ids))

\* Diffs of type .added: feels of others are inserted at the front and, like
\* one's own, appended at the end; so are their flags.
ListedFeels(arr, ids) == Oldest(ids \ own) \o arr \o Newest(ids)
OpenFlags(flags, ids) ==
  Closed(Cardinality(ids \ own)) \o flags \o Closed(Cardinality(ids))

\* A diff of type .removed takes the front entry, whichever it is; for feels
\* of others that is the one the first branch has just inserted.
FeelsRemoved(p, ids) ==
  IF ids \subseteq own
  THEN [p EXCEPT !.feelsArray = Tail(@), !.reactNibOpen = Tail(@)]
  ELSE p

\* Variant: the reload is left to the next appearance.
DeliveredQuietly(p) == [p EXCEPT !.queue = Tail(@)]

\* A callback has run; it has queued a reloadData.
Delivered(p) == [p EXCEPT !.queue = Tail(@), !.reloading = TRUE]

DeliverFeels(k, call) ==
  LET p == Delivered(pages[k])
  IN  /\ call.collection = "feels"
      /\ \/ /\ call.type = "added"
            /\ pages' = [pages EXCEPT ![k] =
                           [p EXCEPT !.feelsArray = ListedFeels(@, call.ids),
                                     !.reactNibOpen = OpenFlags(@, call.ids)]]
            /\ UNCHANGED crash
         \/ /\ call.type = "removed"
            /\ IF call.ids \subseteq own /\ p.feelsArray = <<>>
               THEN crash' = "emptyArray" /\ UNCHANGED pages
               ELSE /\ pages' = [pages EXCEPT ![k] = FeelsRemoved(p, call.ids)]
                    /\ UNCHANGED crash

DeliverReacts(k, call) ==
  LET p == Delivered(pages[k])
  IN  /\ call.collection = "reactions"
      /\ \/ /\ call.type = "added"
            /\ pages' = [pages EXCEPT ![k] =
                           [p EXCEPT !.reactionsArray = @ \o Newest(call.ids)]]
            /\ UNCHANGED crash
         \/ /\ call.type = "modified"
            /\ IF p.currentReact \in DOMAIN p.reactionsArray
               THEN /\ \E f \in call.ids :
                         pages' = [pages EXCEPT ![k] =
                                     [p EXCEPT !.reactionsArray[p.currentReact] = f]]
                    /\ UNCHANGED crash
               ELSE crash' = "currentReact" /\ UNCHANGED pages
         \/ /\ call.type = "removed"
            /\ IF p.reactionsArray = <<>>
               THEN crash' = "emptyArray" /\ UNCHANGED pages
               ELSE /\ pages' = [pages EXCEPT ![k] =
                                   [p EXCEPT !.reactionsArray = Tail(@)]]
                    /\ UNCHANGED crash

\* The main thread runs the next callback of a page, on screen or not.
Deliver(k) ==
  /\ crash = ""
  /\ k \in DOMAIN pages
  /\ pages[k].queue # <<>>
  /\ DeliverFeels(k, Head(pages[k].queue)) \/ DeliverReacts(k, Head(pages[k].queue))
  /\ UNCHANGED <<setting, own, feelsDoc, reactsDoc, contents, screen, reacts>>

-----------------------------------------------------------------------------
(* The table of the top page *)

OpenSections(p) == {i \in DOMAIN p.reactNibOpen : p.reactNibOpen[i]}

\* The table lays out its rows.  The react row of the open section, unless
\* it is out of sight, is bound to the reactions at the section's index.
LayOut(p) ==
  LET q == [p EXCEPT !.shown = Len(p.feelsArray), !.reloading = FALSE, !.bound = None]
  IN  \/ /\ pages' = [pages EXCEPT ![Len(pages)] = q]
         /\ UNCHANGED crash
      \/ \E i \in OpenSections(p) :
            IF i \in DOMAIN p.reactionsArray
            THEN /\ pages' = [pages EXCEPT ![Len(pages)] =
                       [q EXCEPT !.currentReact = i, !.bound = p.reactionsArray[i]]]
                 /\ UNCHANGED crash
            ELSE crash' = "noReactions" /\ UNCHANGED pages

OnFeed == crash = "" /\ screen = "feed"

\* The reloadData a callback has queued.
Reload ==
  /\ OnFeed
  /\ Top.reloading
  /\ LayOut(Top)
  /\ UNCHANGED <<setting, own, feelsDoc, reactsDoc, contents, screen, reacts>>

\* Scrolling asks for rows of the sections of the last reload.
Scroll ==
  /\ OnFeed
  /\ IF Top.shown > Len(Top.feelsArray)
     THEN crash' = "staleTable" /\ UNCHANGED pages
     ELSE Top.shown = Len(Top.feelsArray) /\ LayOut(Top)
  /\ UNCHANGED <<setting, own, feelsDoc, reactsDoc, contents, screen, reacts>>

\* The flags didSelectRowAt leaves: the section is toggled, the others close.
Toggled(flags, i) == [j \in DOMAIN flags |-> j = i /\ ~flags[i]]

\* didSelectRowAt.  The table still has the sections of its last reload; when
\* the arrays have changed size since, reloadSections is refused.
Select(i) ==
  /\ OnFeed
  /\ i \in 1 .. Top.shown
  /\ IF Top.shown # Len(Top.feelsArray)
     THEN crash' = "staleTable" /\ UNCHANGED pages
     ELSE LayOut([Top EXCEPT !.reactNibOpen = Toggled(@, i)])
  /\ UNCHANGED <<setting, own, feelsDoc, reactsDoc, contents, screen, reacts>>

\* A document written with setData: an edit, or a new document if there is none.
WriteReactions(f) ==
  /\ reacts < setting.reacts
  /\ reacts' = reacts + 1
  /\ reactsDoc' = [reactsDoc EXCEPT ![f] = "live"]
  /\ LET call == Callback("reactions",
                          IF reactsDoc[f] = "live" THEN "modified" ELSE "added", {f})
     IN  pages' = Raise(pages, call) /\ contents' = RaiseContents(contents, call)

\* A react button of the bound cell.
TapReact ==
  /\ OnFeed
  /\ Top.bound # None
  /\ WriteReactions(Top.bound)
  /\ UNCHANGED <<setting, own, feelsDoc, screen, crash>>

\* handleLongPress, which looks at the section bound last.
LongPress ==
  /\ OnFeed
  /\ IF /\ Top.currentReact \in DOMAIN Top.reactNibOpen
        /\ Top.reactNibOpen[Top.currentReact] => Top.currentReact \in DOMAIN Top.reactionsArray
     THEN /\ Top.reactNibOpen[Top.currentReact]
          /\ screen' = "away"
          /\ pages' = [pages EXCEPT ![Len(pages)] = Disappeared(@)]
          /\ UNCHANGED crash
     ELSE crash' = "longPress" /\ UNCHANGED <<pages, screen>>
  /\ UNCHANGED <<setting, own, feelsDoc, reactsDoc, contents, reacts>>

-----------------------------------------------------------------------------
(* The other screens *)

\* The profile tab, or the composer.
Leave(to) ==
  /\ OnFeed
  /\ to = "composer" => Len(pages) < setting.pages
  /\ screen' = to
  /\ pages' = [pages EXCEPT ![Len(pages)] = Disappeared(@)]
  /\ UNCHANGED <<setting, own, feelsDoc, reactsDoc, contents, crash, reacts>>

ComeBack ==
  /\ crash = ""
  /\ screen = "away"
  /\ screen' = "feed"
  /\ pages' = [pages EXCEPT ![Len(pages)] = Appeared(@, feelsDoc, reactsDoc)]
  /\ UNCHANGED <<setting, own, feelsDoc, reactsDoc, contents, crash, reacts>>

\* The composer's back button shows yet another FeedViewController.
BackFromComposer ==
  /\ crash = ""
  /\ screen = "composer"
  /\ screen' = "feed"
  /\ pages' = Append(pages, Appeared(NewPage, feelsDoc, reactsDoc))
  /\ UNCHANGED <<setting, own, feelsDoc, reactsDoc, contents, crash, reacts>>

\* Variant: the reactions document is created by the first reaction.
DumpFeelsOnly(f) ==
  /\ crash = ""
  /\ screen = "composer"
  /\ f \in own /\ feelsDoc[f] = "none" /\ reactsDoc[f] = "none"
  /\ \A g \in Feels : feelsDoc[g] # "none" => g < f
  /\ feelsDoc' = [feelsDoc EXCEPT ![f] = "live"]
  /\ screen' = "feed"
  /\ pages' = Append(Raise(pages, Callback("feels", "added", {f})),
                     Appeared(NewPage, feelsDoc', reactsDoc))
  /\ contents' = RaiseContents(contents, Callback("feels", "added", {f}))
  /\ UNCHANGED <<setting, own, reactsDoc, crash, reacts>>

\* dumpFeels: the feels, its reactions, and a new FeedViewController.
DumpFeels(f) ==
  /\ crash = ""
  /\ screen = "composer"
  /\ f \in own /\ feelsDoc[f] = "none" /\ reactsDoc[f] = "none"
  /\ \A g \in Feels : feelsDoc[g] # "none" => g < f
  /\ feelsDoc' = [feelsDoc EXCEPT ![f] = "live"]
  /\ reactsDoc' = [reactsDoc EXCEPT ![f] = "live"]
  /\ screen' = "feed"
  /\ pages' = Append(Raise(Raise(pages, Callback("feels", "added", {f})),
                           Callback("reactions", "added", {f})),
                     Appeared(NewPage, feelsDoc', reactsDoc'))
  /\ contents' = RaiseContents(contents, Callback("feels", "added", {f}))
  /\ UNCHANGED <<setting, own, crash, reacts>>

\* The trashcan with one of the user's feels is deleted in the profile tab.
DeleteFeels(f) ==
  /\ crash = ""
  /\ screen = "away"
  /\ f \in own /\ feelsDoc[f] = "live"
  /\ feelsDoc' = [feelsDoc EXCEPT ![f] = "gone"]
  /\ reactsDoc' = [reactsDoc EXCEPT ![f] = "gone"]
  /\ LET told == Raise(pages, Callback("feels", "removed", {f}))
     IN  pages' = IF reactsDoc[f] = "live"
                  THEN Raise(told, Callback("reactions", "removed", {f}))
                  ELSE told
  /\ UNCHANGED <<setting, own, contents, screen, crash, reacts>>

\* Variant: the app comes up without a feed.
RelaunchBare ==
  /\ pages' = <<>>
  /\ contents' = <<>>
  /\ screen' = "feed"
  /\ crash' = ""
  /\ UNCHANGED <<setting, own, feelsDoc, reactsDoc, reacts>>

\* The app is started again.
Relaunch ==
  /\ pages' = <<Appeared(NewPage, feelsDoc, reactsDoc)>>
  /\ contents' = <<>>
  /\ screen' = "feed"
  /\ crash' = ""
  /\ UNCHANGED <<setting, own, feelsDoc, reactsDoc, reacts>>

-----------------------------------------------------------------------------
(* The page of a trashcan *)

NewContents(S) ==
  [trashcan |-> S, queue |-> <<Callback("feels", "added", Live(feelsDoc))>>,
   feelsArray |-> <<>>, shown |-> 0]

\* showTrashcanContents: a new page, which registers its listeners once.
OpenTrashcan(S) ==
  /\ crash = ""
  /\ screen = "away"
  /\ S \in setting.trashcans
  /\ Len(contents) < Cardinality(setting.trashcans)
  /\ screen' = "trashcan"
  /\ contents' = Append(contents, NewContents(S))
  /\ UNCHANGED <<setting, own, feelsDoc, reactsDoc, pages, crash, reacts>>

\* Variant: the trashcan's name alone decides.
KeptOfAnyone(c, ids) == ids \cap c.trashcan

\* The feels a page lists: the user's own with the name of its trashcan.
Kept(c, ids) == ids \cap c.trashcan \cap own

\* A callback of a page of a trashcan, open or left.  Removals are not looked
\* at; the reaction modified is stored at currentReact, which is never set.
DeliverContents(k) ==
  /\ crash = ""
  /\ k \in DOMAIN contents
  /\ contents[k].queue # <<>>
  /\ LET call == Head(contents[k].queue)
     IN  IF call.collection = "feels"
         THEN /\ contents' = [contents EXCEPT
                    ![k].queue = Tail(@),
                    ![k].feelsArray = @ \o Newest(Kept(contents[k], call.ids))]
              /\ UNCHANGED crash
         ELSE crash' = "contentsReact" /\ UNCHANGED contents
  /\ UNCHANGED <<setting, own, feelsDoc, reactsDoc, pages, screen, reacts>>

\* The reloadData a callback has queued.
ReloadContents ==
  /\ crash = ""
  /\ screen = "trashcan"
  /\ contents' = [contents EXCEPT ![Len(contents)].shown =
                     Len(contents[Len(contents)].feelsArray)]
  /\ UNCHANGED <<setting, own, feelsDoc, reactsDoc, pages, screen, crash, reacts>>

\* Variant: the table is not told that its array was emptied.
EmptiedUntold(c) == [c EXCEPT !.feelsArray = <<>>]

Emptied(c) == [c EXCEPT !.feelsArray = <<>>, !.shown = 0]

\* viewWillDisappear, on the way back to the profile.
CloseTrashcan ==
  /\ crash = ""
  /\ screen = "trashcan"
  /\ screen' = "away"
  /\ contents' = [contents EXCEPT ![Len(contents)] = Emptied(@)]
  /\ UNCHANGED <<setting, own, feelsDoc, reactsDoc, pages, crash, reacts>>

\* tabBarController(_:didSelect:) of the feed takes the top of the profile
\* tab for a ProfileViewController, whichever tab was tapped.
TapTab ==
  /\ crash = ""
  /\ screen = "trashcan"
  /\ crash' = "topController"
  /\ UNCHANGED <<setting, own, feelsDoc, reactsDoc, pages, contents, screen, reacts>>

-----------------------------------------------------------------------------
(* Other devices, heard of through Firestore *)

Quiet == /\ \A k \in DOMAIN pages : Len(pages[k].queue) < setting.queue
         /\ \A k \in DOMAIN contents : Len(contents[k].queue) < setting.queue

NextState(s) == IF s = "none" THEN "live" ELSE "gone"

\* Someone dumps feels or deletes them; the two collections are two targets,
\* so the two halves of either arrive separately.
FeelsSynced(f) ==
  /\ ~setting.alone
  /\ crash = ""
  /\ Quiet
  /\ feelsDoc[f] # "gone"
  /\ feelsDoc' = [feelsDoc EXCEPT ![f] = NextState(@)]
  /\ LET call == Callback("feels", IF feelsDoc[f] = "none" THEN "added" ELSE "removed", {f})
     IN  pages' = Raise(pages, call) /\ contents' = RaiseContents(contents, call)
  /\ UNCHANGED <<setting, own, reactsDoc, screen, crash, reacts>>

ReactionsSynced(f) ==
  /\ ~setting.alone
  /\ crash = ""
  /\ Quiet
  /\ reactsDoc[f] # "gone"
  /\ reactsDoc' = [reactsDoc EXCEPT ![f] = NextState(@)]
  /\ pages' = Raise(pages, Callback("reactions",
                     IF reactsDoc[f] = "none" THEN "added" ELSE "removed", {f}))
  /\ UNCHANGED <<setting, own, feelsDoc, contents, screen, crash, reacts>>

\* Someone reacts, perhaps to feels that were deleted meanwhile.
OtherReacts(f) ==
  /\ ~setting.alone
  /\ crash = ""
  /\ Quiet
  /\ reactsDoc[f] # "none"
  /\ WriteReactions(f)
  /\ UNCHANGED <<setting, own, feelsDoc, screen, crash>>

-----------------------------------------------------------------------------
Init ==
  /\ setting \in Settings
  /\ own = setting.mine
  /\ \E S \in SUBSET Feels : feelsDoc = [f \in Feels |-> IF f \in S THEN "live" ELSE "none"]
  /\ reactsDoc = feelsDoc
  /\ pages = <<Appeared(NewPage, feelsDoc, reactsDoc)>>
  /\ contents = <<>>
  /\ screen = "feed"
  /\ crash = ""
  /\ reacts = 0

MaxPages == Max({s.pages : s \in Settings})
MaxContents == Max({Cardinality(s.trashcans) : s \in Settings})

Next ==
  \/ \E k \in 1 .. MaxPages : Deliver(k)
  \/ \E k \in 1 .. MaxContents : DeliverContents(k)
  \/ Reload
  \/ Scroll
  \/ \E i \in 1 .. 2 * NumFeels : Select(i)
  \/ TapReact
  \/ LongPress
  \/ \E to \in {"composer", "away"} : Leave(to)
  \/ ComeBack
  \/ BackFromComposer
  \/ \E f \in Feels : DumpFeels(f)
  \/ \E f \in Feels : DeleteFeels(f)
  \/ \E S \in SUBSET Feels : OpenTrashcan(S)
  \/ ReloadContents
  \/ CloseTrashcan
  \/ TapTab
  \/ Relaunch
  \/ \E f \in Feels : FeelsSynced(f)
  \/ \E f \in Feels : ReactionsSynced(f)
  \/ \E f \in Feels : OtherReacts(f)

Spec == Init /\ [][Next]_vars

\* The main queue is drained whatever the user does.
Fairness ==
  /\ \A k \in 1 .. MaxPages : WF_vars(Deliver(k))
  /\ \A k \in 1 .. MaxContents : WF_vars(DeliverContents(k))

FairSpec == Spec /\ Fairness

-----------------------------------------------------------------------------
(* Properties *)

TypeOK ==
  /\ own \subseteq Feels
  /\ feelsDoc \in [Feels -> DocStates]
  /\ reactsDoc \in [Feels -> DocStates]
  /\ pages \in Seq(Pages) \ {<<>>}
  /\ contents \in Seq(Contents)
  /\ setting \in Settings
  /\ screen \in Screens
  /\ crash \in {"", "emptyArray", "currentReact", "noReactions", "staleTable", "longPress",
                "contentsReact", "topController"}
  /\ reacts \in 0 .. setting.reacts

\* feelsArray and reactNibOpen are edited side by side in three branches of
\* the listener; the table indexes one with the other's size.  They keep the
\* same length on every page, and never are two sections open.
ArraysParallel ==
  \A k \in DOMAIN pages :
     /\ Len(pages[k].feelsArray) = Len(pages[k].reactNibOpen)
     /\ Cardinality(OpenSections(pages[k])) <= 1

\* Entries are removed at index 0 without a look at the array.  However the
\* removals of both collections interleave with pages that start late, none
\* finds its array empty.
NothingRemovedFromEmpty == crash # "emptyArray"

Occurrences(f, s) == Cardinality({i \in DOMAIN s : s[i] = f})

Waiting(k, collection) ==
  {i \in DOMAIN pages[k].queue : pages[k].queue[i].collection = collection}

\* A page that came and went, or started late, shows the user's own feels
\* exactly once when its listener has caught up, as long as nothing of his
\* has been removed.  (Feels of others are shown twice.)
OwnFeelsShownOnce ==
  (\A f \in own : feelsDoc[f] # "gone") =>
     \A k \in DOMAIN pages : Waiting(k, "feels") = {} =>
        \A f \in own : Occurrences(f, pages[k].feelsArray)
                         = IF feelsDoc[f] = "live" THEN 1 ELSE 0

\* Alone, and as long as no reaction has revived a deleted document, a page
\* that has caught up has reactions for every section, removals included.
EverySectionHasReactions ==
  (setting.alone /\ \A f \in Feels : reactsDoc[f] = "live" => feelsDoc[f] = "live") =>
     \A k \in DOMAIN pages :
        pages[k].queue = <<>> =>
           Len(pages[k].reactionsArray) = Len(pages[k].feelsArray)

OpenFeels(p) == {p.feelsArray[i] : i \in OpenSections(p)}

\* When a snapshot shifts the arrays, no section opens by itself and the one
\* that is open still is that of the same feels.
OpenSectionFollowsFeels ==
  [][\A k \in DOMAIN pages :
        Deliver(k) => OpenFeels(pages'[k]) \subseteq OpenFeels(pages[k])]_vars

\* Feels that arrive are shown, on pages that are covered as well, unless the
\* app stops, is restarted, or they or something of the user's are removed.
LiveFeelsGetShown ==
  \A f \in Feels, k \in 1 .. MaxPages :
     (k \in DOMAIN pages /\ feelsDoc[f] = "live")
        ~> \/ crash # ""
           \/ k \notin DOMAIN pages
           \/ \E g \in own \cup {f} : feelsDoc[g] = "gone"
           \/ f \in {pages[k].feelsArray[i] : i \in DOMAIN pages[k].feelsArray}

\* A snapshot changes the arrays at once and the table only with the reload
\* it queues; a tap or scrolling in between stops the app.  There is no other
\* time at which the table has the sections of arrays that are no more.
TableLagsOnlyUntilReload ==
  \A k \in DOMAIN pages :
     pages[k].shown # Len(pages[k].feelsArray) => pages[k].reloading

Noted(p) ==
  p.currentReact # None =>
     p.currentReact \in DOMAIN p.reactNibOpen \cap DOMAIN p.reactionsArray

\* The section noted for the long press and for modified reactions stays
\* within both arrays, on pages that are covered and come back as well: only a
\* removal can take the noted section away.  (Before one was opened it is nil,
\* and the app stops.)
NotedSectionLostOnlyToRemovals ==
  [][\A k \in DOMAIN pages \cap DOMAIN pages' :
        Noted(pages[k]) => \/ Noted(pages'[k])
                           \/ /\ Deliver(k)
                              /\ Head(pages[k].queue).type = "removed"]_vars

\* Among the pages of trashcans, open, left or listening on, none has rows
\* for feels that are not in its array.
TrashcanRowsExist ==
  \A k \in DOMAIN contents : contents[k].shown <= Len(contents[k].feelsArray)

\* The page of a trashcan that is open and has caught up lists the user's
\* feels in it, each once and nobody else's, however feels arrive meanwhile.
\* (What is deleted meanwhile stays listed.)
TrashcanListsOwnFeels ==
  (screen = "trashcan" /\ crash = "") =>
     LET c == contents[Len(contents)]
     IN  (\A i \in DOMAIN c.queue : c.queue[i].collection # "feels") =>
            \A f \in Feels :
               Occurrences(f, c.feelsArray) \in
                 IF f \in own \cap c.trashcan
                 THEN CASE feelsDoc[f] = "none" -> {0}
                        [] feelsDoc[f] = "live" -> {1}
                        [] OTHER -> {0, 1}
                 ELSE {0}

\* "if react is open, return the feelsCell and reactCell" (FeedViewController,
\* numberOfRowsInSection), on a page that waits for no call of a listener.
\* Checked to fail: feels of others are listed twice and their reactions once,
\* so the second section has none for its react cell.
OpenSectionHasReactCell == pages[Len(pages)].queue = <<>> => crash # "noReactions"
=============================================================================

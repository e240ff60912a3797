--------------------------- MODULE TrashcansProofs ---------------------------
(***************************************************************************)
(* The safety properties of Trashcans, for any number of names, feels and  *)
(* trashcans; what a deletion deletes, with one under way at a time.       *)
(***************************************************************************)
EXTENDS Trashcans, SequenceLemmas

-----------------------------------------------------------------------------
(* The inductive invariant. *)

\* What was dumped on this device, deleted since or not.
Dumped == {f \in Feels : Mine(f) /\ feels[f].state # "none"}

\* Every count read or still to be read stands for a dump that is not yet
\* counted, and those read are overtaken by one write at most.
CountsAccounted ==
  /\ account.feelsCount + counting + Len(counted) <= Cardinality(Dumped)
  /\ \A i \in DOMAIN counted : /\ counted[i] <= account.feelsCount
                               /\ account.feelsCount <= counted[i] + 1
  /\ \A i, j \in DOMAIN counted : i <= j => counted[i] <= counted[j]

\* While the app runs the collection has a cell for each trashcan and one more;
\* the alerts, one at a time, and the queries are those of a profile.
ProfileSound ==
  /\ Running /\ profile # Closed => Len(profile.cells) = Len(profile.trashcans) + 1
  /\ prompt # Closed => prompt >= 1 /\ profile # Closed
  /\ alert # Closed => prompt = Closed /\ profile # Closed
  /\ queries # <<>> \/ answers # <<>> => profile # Closed

\* The cell of a trashcan shows its name, if it is not an add button left
\* behind; the last one is the add button.
CellsMatch(p) ==
  /\ \A i \in 1 .. Len(p.trashcans) : p.cells[i] \in {p.trashcans[i], AddButton}
  /\ p.cells[Len(p.trashcans) + 1] = AddButton

\* The list only shrinks behind the alert for a new trashcan.
CellsSound ==
  /\ Running /\ profile # Closed => CellsMatch(profile)
  /\ prompt # Closed /\ profile # Closed => prompt > Len(profile.trashcans)

\* Foreign feels were there before, and only feels that exist are found.
FeelsSound ==
  /\ \A f \in Foreign : feels[f].state # "none"
  /\ \A i \in DOMAIN answers : \A f \in answers[i].found : feels[f].state # "none"

\* A tap on a name means the trashcan at its item, and a deletion what was in
\* it when it was confirmed as well.
TapMeant(t) ==
  /\ t.item \in DOMAIN profile.trashcans
  /\ t.name # AddButton => profile.trashcans[t.item] = t.name

StillMeant(d) == TapMeant(d) /\ d.had \subseteq LiveIn(d.name)

\* The deletions under way, the one to be confirmed among them.
UnderWay == Len(queries) + Len(answers) + (IF alert = Closed THEN 0 ELSE 1)

InFlightSound ==
  /\ UnderWay <= MaxInFlight
  /\ MaxInFlight = 1 =>
       /\ alert # Closed => TapMeant(alert)
       /\ \A i \in DOMAIN queries : StillMeant(queries[i])
       /\ \A i \in DOMAIN answers : /\ StillMeant(answers[i])
                                    /\ answers[i].had \subseteq answers[i].found

IInv ==
  /\ TypeOK
  /\ CountsMatchLists
  /\ DocumentFollowsProfile
  /\ ProfileSound
  /\ CellsSound
  /\ CountsAccounted
  /\ FeelsSound
  /\ InFlightSound

-----------------------------------------------------------------------------
(* What the parts of the invariant depend on. *)

\* The types of the fields and of what waits in the queues.
LEMMA Types ==
  ASSUME IInv
  PROVE  /\ account.trashcans \in Seq(Names)
         /\ account.trashcanCount \in Nat
         /\ account.feelsCount \in Nat
         /\ account.rememberMe \in BOOLEAN
         /\ counting \in Nat
         /\ counted \in Seq(Nat) /\ Len(counted) \in Nat
         /\ queries \in Seq(Deletions) /\ Len(queries) \in Nat
         /\ answers \in Seq(Deletions) /\ Len(answers) \in Nat
         /\ \A i \in DOMAIN queries : queries[i] \in Deletions
         /\ \A i \in DOMAIN answers : answers[i] \in Deletions
         /\ \A i \in DOMAIN counted : counted[i] \in Nat
<1>1. /\ account \in Accounts
      /\ counting \in Nat
      /\ counted \in Seq(Nat)
      /\ queries \in Seq(Deletions)
      /\ answers \in Seq(Deletions)
  BY DEF IInv, TypeOK
<1>2. Len(counted) \in Nat /\ Len(queries) \in Nat /\ Len(answers) \in Nat
  BY <1>1, LenProperties
<1>3. ASSUME NEW S, NEW s \in Seq(S)
      PROVE  \A i \in DOMAIN s : s[i] \in S
  BY ElementOfSeq
<1>4. /\ \A i \in DOMAIN queries : queries[i] \in Deletions
      /\ \A i \in DOMAIN answers : answers[i] \in Deletions
      /\ \A i \in DOMAIN counted : counted[i] \in Nat
  BY <1>1, <1>3, Zenon
<1> QED
  BY <1>1, <1>2, <1>4 DEF Accounts

\* The profile's list has a length, and the count is that length.
LEMMA ProfileTypes ==
  ASSUME IInv, profile # Closed
  PROVE  /\ profile \in Profiles
         /\ profile.trashcans \in Seq(Names)
         /\ Len(profile.trashcans) \in Nat
         /\ DOMAIN profile.trashcans = 1 .. Len(profile.trashcans)
         /\ profile.trashcanCount = Len(profile.trashcans)
         /\ profile.cells \in Seq(Names \cup {AddButton})
<1>1. profile \in Profiles /\ profile.trashcanCount = Len(profile.trashcans)
  BY DEF IInv, TypeOK, CountsMatchLists, CountIsLength
<1>2. profile.trashcans \in Seq(Names) /\ profile.cells \in Seq(Names \cup {AddButton})
  BY <1>1 DEF Profiles
<1> QED
  BY <1>1, <1>2, LenProperties

\* Feels are finitely many.
LEMMA DumpedFinite == IsFiniteSet(Dumped) /\ Cardinality(Dumped) \in Nat
<1>1. IsFiniteSet(Feels)
  BY FS_Interval, TrashcansAssumption DEF Feels
<1> QED
  BY <1>1, FS_Subset, FS_CardinalityType DEF Dumped

LEMMA CountsKept ==
  ASSUME IInv, account'.feelsCount = account.feelsCount, UNCHANGED <<feels, counting, counted>>
  PROVE  CountsAccounted'
<1>1. Dumped' = Dumped
  BY DEF Dumped
<1> QED
  BY <1>1 DEF IInv, CountsAccounted

LEMMA FeelsKept ==
  ASSUME IInv, UNCHANGED <<feels, answers>>
  PROVE  FeelsSound'
  BY DEF IInv, FeelsSound

LEMMA CellsKept ==
  ASSUME IInv, UNCHANGED profile, prompt' \in {prompt, Closed}, crash' = "" => crash = ""
  PROVE  CellsSound'
  BY DEF IInv, CellsSound, CellsMatch, Running

\* The number under way, as an inequality.
LEMMA UnderWayBound ==
  ASSUME IInv
  PROVE  /\ Len(queries) + Len(answers) <= MaxInFlight
         /\ alert # Closed => Len(queries) + Len(answers) + 1 <= MaxInFlight
         /\ MaxInFlight = 1 /\ alert # Closed => queries = <<>> /\ answers = <<>>
<1>1. Len(queries) \in Nat /\ Len(answers) \in Nat /\ MaxInFlight \in Nat
  BY Types, TrashcansAssumption
<1>2. UnderWay <= MaxInFlight
  BY DEF IInv, InFlightSound
<1>3. /\ Len(queries) + Len(answers) <= MaxInFlight
      /\ alert # Closed => Len(queries) + Len(answers) + 1 <= MaxInFlight
  BY <1>1, <1>2 DEF UnderWay
<1>4. MaxInFlight = 1 /\ alert # Closed => Len(queries) = 0 /\ Len(answers) = 0
  BY <1>1, <1>3
<1> QED
  BY <1>3, <1>4, Types, EmptySeq

LEMMA InFlightKept ==
  ASSUME IInv, UNCHANGED <<feels, deleting, alert>>,
         queries # <<>> \/ answers # <<>> \/ alert # Closed =>
           profile'.trashcans = profile.trashcans
  PROVE  InFlightSound'
<1>1. UNCHANGED <<queries, answers, alert>> /\ UnderWay' = UnderWay
  BY DEF deleting, UnderWay
<1>2. \A d : LiveIn(d.name)' = LiveIn(d.name)
  BY DEF LiveIn, Live
<1>3. \A d : profile'.trashcans = profile.trashcans => (TapMeant(d) => TapMeant(d)')
  BY DEF TapMeant
<1>4. \A d : profile'.trashcans = profile.trashcans => (StillMeant(d) => StillMeant(d)')
  BY <1>2, <1>3 DEF StillMeant
<1>5. /\ \A i \in DOMAIN queries : queries # <<>>
      /\ \A i \in DOMAIN answers : answers # <<>>
  OBVIOUS
<1> QED
  BY <1>1, <1>3, <1>4, <1>5 DEF IInv, InFlightSound

-----------------------------------------------------------------------------
(* Every action keeps the invariant. *)

LEMMA UserDataHeardStep ==
  ASSUME IInv, UserDataHeard
  PROVE  IInv'
<1>1. TypeOK' /\ CountsMatchLists'
  BY DEF UserDataHeard, IInv, TypeOK, CountsMatchLists, CountIsLength, Feeds, Accounts, store,
         dialogue, deleting, adding
<1>2. DocumentFollowsProfile' /\ ProfileSound'
  BY DEF UserDataHeard, IInv, DocumentFollowsProfile, ProfileSound, Running, store, dialogue, deleting
<1>3. CountsAccounted' /\ FeelsSound' /\ InFlightSound' /\ CellsSound'
  BY CountsKept, FeelsKept, InFlightKept, CellsKept DEF UserDataHeard, store, dialogue, deleting, adding
<1> QED
  BY <1>1, <1>2, <1>3 DEF IInv

LEMMA TrashcanListFetchedStep ==
  ASSUME IInv, TrashcanListFetched
  PROVE  IInv'
<1>1. TypeOK' /\ CountsMatchLists'
  BY DEF TrashcanListFetched, IInv, TypeOK, CountsMatchLists, CountIsLength, Feeds, Accounts, store,
         dialogue, deleting, adding
<1>2. DocumentFollowsProfile' /\ ProfileSound'
  BY DEF TrashcanListFetched, IInv, DocumentFollowsProfile, ProfileSound, Running, store, dialogue,
         deleting
<1>3. CountsAccounted' /\ FeelsSound' /\ InFlightSound' /\ CellsSound'
  BY CountsKept, FeelsKept, InFlightKept, CellsKept DEF TrashcanListFetched, store, dialogue, deleting, adding
<1> QED
  BY <1>1, <1>2, <1>3 DEF IInv

LEMMA TapTabStep ==
  ASSUME IInv, TapTab
  PROVE  IInv'
<1>1. UNCHANGED <<account, feels, feed, composer, prompt, alert, isInDeleteMode, queries, answers,
                  counting, counted>>
  BY DEF TapTab, store, dialogue, deleting, adding
<1>2. CASE profile # Closed
  <2>1. /\ profile' = [profile EXCEPT !.known = feed.known]
        /\ profile \in Profiles
        /\ UNCHANGED crash
    BY <1>2 DEF TapTab, IInv, TypeOK
  <2>2. /\ profile' \in Profiles
        /\ profile' # Closed
        /\ profile'.trashcans = profile.trashcans
        /\ profile'.trashcanCount = profile.trashcanCount
        /\ profile'.cells = profile.cells
    <3>1. feed.known \in BOOLEAN
      BY DEF IInv, TypeOK, Feeds
    <3> QED
      BY <2>1, <3>1, ClosedAssumption DEF Profiles
  <2>3. TypeOK' /\ CountsMatchLists'
    BY <1>1, <1>2, <2>1, <2>2 DEF IInv, TypeOK, CountsMatchLists, CountIsLength
  <2>4. DocumentFollowsProfile' /\ ProfileSound'
    BY <1>1, <1>2, <2>1, <2>2 DEF IInv, DocumentFollowsProfile, ProfileSound, Running
  <2>5. CountsAccounted' /\ FeelsSound' /\ InFlightSound'
    BY <1>1, <2>2, CountsKept, FeelsKept, InFlightKept DEF deleting
  <2>6. CellsSound'
    BY <1>1, <1>2, <2>1, <2>2 DEF IInv, CellsSound, CellsMatch, Running
  <2> QED
    BY <2>3, <2>4, <2>5, <2>6 DEF IInv
<1>3. CASE profile = Closed
  <2>1. queries = <<>> /\ answers = <<>> /\ prompt = Closed /\ alert = Closed
    BY <1>3 DEF IInv, ProfileSound
  <2>2. CASE feed.known
    <3> DEFINE cells == Append(account.trashcans, AddButton)
    <3>1. /\ profile' = [trashcans |-> account.trashcans,
                         trashcanCount |-> account.trashcanCount, known |-> TRUE,
                         cells |-> cells]
          /\ UNCHANGED crash
      BY <1>3, <2>2 DEF TapTab
    <3>2. /\ account.trashcans \in Seq(Names)
          /\ account.trashcanCount \in Nat
          /\ account.trashcanCount = Len(account.trashcans)
      BY DEF IInv, TypeOK, Accounts, CountsMatchLists, CountIsLength
    <3>3. /\ cells \in Seq(Names \cup {AddButton})
          /\ Len(cells) = Len(account.trashcans) + 1
          /\ \A i \in 1 .. Len(account.trashcans) : cells[i] = account.trashcans[i]
          /\ cells[Len(account.trashcans) + 1] = AddButton
      <4>1. account.trashcans \in Seq(Names \cup {AddButton})
        BY <3>2
      <4> QED
        BY <4>1, AppendElements
    <3> HIDE DEF cells
    <3>4. /\ profile' \in Profiles
          /\ profile'.trashcans = account.trashcans
          /\ profile'.trashcanCount = Len(account.trashcans)
          /\ Len(profile'.cells) = Len(account.trashcans) + 1
      BY <3>1, <3>2, <3>3 DEF Profiles
    <3>5. TypeOK' /\ CountsMatchLists'
      BY <1>1, <3>1, <3>4 DEF IInv, TypeOK, CountsMatchLists, CountIsLength
    <3>6. DocumentFollowsProfile' /\ ProfileSound'
      BY <1>1, <2>1, <3>1, <3>4 DEF IInv, DocumentFollowsProfile, ProfileSound, Running
    <3>7. CountsAccounted' /\ FeelsSound' /\ InFlightSound'
      BY <1>1, <2>1, CountsKept, FeelsKept, InFlightKept DEF deleting
    <3>8. CellsSound'
      <4>1. profile'.cells = cells /\ profile'.trashcans = account.trashcans
        BY <3>1
      <4> QED
        BY <1>1, <2>1, <3>3, <4>1 DEF CellsSound, CellsMatch
    <3> QED
      BY <3>5, <3>6, <3>7, <3>8 DEF IInv
  <2>3. CASE ~feed.known
    <3>1. crash' = "noUserData" /\ UNCHANGED profile
      BY <1>3, <2>3 DEF TapTab
    <3>2. TypeOK' /\ CountsMatchLists' /\ DocumentFollowsProfile' /\ ProfileSound'
      BY <1>1, <1>3, <3>1 DEF IInv, TypeOK, CountsMatchLists, CountIsLength,
         DocumentFollowsProfile, ProfileSound
    <3>3. CountsAccounted' /\ FeelsSound' /\ InFlightSound'
      BY <1>1, <3>1, CountsKept, FeelsKept, InFlightKept DEF deleting
    <3>4. CellsSound'
      BY <1>1, <3>1, CellsKept
    <3> QED
      BY <3>2, <3>3, <3>4 DEF IInv
  <2> QED
    BY <2>2, <2>3
<1> QED
  BY <1>2, <1>3

LEMMA OpenComposerStep ==
  ASSUME IInv, OpenComposer
  PROVE  IInv'
<1>1. /\ composer' = [trashcanList |-> feed.trashcanList, trashcanCount |-> feed.trashcanCount,
                      trashcanName |-> NoName]
      /\ UNCHANGED <<account, feels, feed, profile, prompt, alert, isInDeleteMode, queries, answers,
                     counting, counted, crash>>
  BY DEF OpenComposer, store, dialogue, deleting, adding
<1>2. /\ feed.trashcanList \in Seq(Names)
      /\ feed.trashcanCount \in Nat
      /\ feed.trashcanCount = Len(feed.trashcanList)
  BY DEF IInv, TypeOK, Feeds, CountsMatchLists
<1>3. /\ composer' \in Composers
      /\ composer'.trashcanCount = Len(composer'.trashcanList)
  BY <1>1, <1>2 DEF Composers
<1>4. TypeOK' /\ CountsMatchLists'
  BY <1>1, <1>3 DEF IInv, TypeOK, CountsMatchLists, CountIsLength
<1>5. DocumentFollowsProfile' /\ ProfileSound'
  BY <1>1 DEF IInv, DocumentFollowsProfile, ProfileSound, Running
<1>6. CountsAccounted' /\ FeelsSound' /\ InFlightSound' /\ CellsSound'
  BY <1>1, CountsKept, FeelsKept, InFlightKept, CellsKept DEF deleting
<1> QED
  BY <1>4, <1>5, <1>6 DEF IInv

LEMMA PickTrashcanStep ==
  ASSUME IInv, NEW row \in 1 .. MaxTrashcans, PickTrashcan(row)
  PROVE  IInv'
<1>1. UNCHANGED <<account, feels, feed, profile, prompt, alert, isInDeleteMode, queries, answers,
                  counting, counted>>
  BY DEF PickTrashcan, store, dialogue, deleting, adding
<1>2. composer # Closed /\ composer \in Composers /\ Running
  BY DEF PickTrashcan, IInv, TypeOK
<1>3. /\ composer' = Closed \/ composer' \in Composers
      /\ composer' # Closed => composer'.trashcanCount = Len(composer'.trashcanList)
      /\ crash' \in {"", "picker"}
  <2>1. CASE row \in DOMAIN composer.trashcanList
    <3>1. /\ composer' = [composer EXCEPT !.trashcanName = composer.trashcanList[row]]
          /\ UNCHANGED crash
      BY <2>1 DEF PickTrashcan
    <3>2. composer.trashcanList[row] \in Names
      BY <1>2, <2>1, ElementOfSeq DEF Composers
    <3> QED
      BY <1>2, <3>1, <3>2 DEF Composers, Running, IInv, CountsMatchLists
  <2>2. CASE row \notin DOMAIN composer.trashcanList
    <3>1. crash' = "picker" /\ UNCHANGED composer
      BY <2>2 DEF PickTrashcan
    <3> QED
      BY <1>2, <3>1 DEF IInv, CountsMatchLists
  <2> QED
    BY <2>1, <2>2
<1>4. TypeOK' /\ CountsMatchLists'
  BY <1>1, <1>3 DEF IInv, TypeOK, CountsMatchLists, CountIsLength
<1>5. DocumentFollowsProfile' /\ ProfileSound'
  BY <1>1, <1>2 DEF IInv, DocumentFollowsProfile, ProfileSound, Running
<1>6. CountsAccounted' /\ FeelsSound' /\ InFlightSound'
  BY <1>1, CountsKept, FeelsKept, InFlightKept DEF deleting
<1>7. CellsSound'
  BY <1>1, <1>2, CellsKept DEF Running
<1> QED
  BY <1>4, <1>5, <1>6, <1>7 DEF IInv

\* The feels of a dump are the user's own: those of the others exist already.
LEMMA DumpAddsOne ==
  ASSUME IInv, NEW f \in Feels, feels[f].state = "none",
         NEW name, feels' = [feels EXCEPT ![f] = [state |-> "live", trashcan |-> name]]
  PROVE  /\ IsFiniteSet(Dumped)
         /\ Cardinality(Dumped) \in Nat
         /\ Cardinality(Dumped') = Cardinality(Dumped) + 1
         /\ Mine(f)
<1>1. Mine(f) /\ f \notin Dumped
  BY DEF IInv, FeelsSound, Mine, Dumped
<1>2. Dumped' = Dumped \cup {f}
  <2>1. feels \in [Feels -> [state : FeelsStates, trashcan : Names]]
    BY DEF IInv, TypeOK
  <2>2. feels'[f].state = "live" /\ \A g \in Feels \ {f} : feels'[g] = feels[g]
    BY <2>1
  <2> QED
    BY <1>1, <2>2 DEF Dumped
<1> QED
  BY <1>1, <1>2, DumpedFinite, FS_AddElement

LEMMA DumpFeelsStep ==
  ASSUME IInv, NEW f \in Feels, DumpFeels(f)
  PROVE  IInv'
<1> DEFINE name == TrashcanName(composer)
<1>1. /\ feels[f].state = "none"
      /\ feels' = [feels EXCEPT ![f] = [state |-> "live", trashcan |-> name]]
      /\ counting' = counting + 1
      /\ composer' = Closed
      /\ feed' = NewFeed
      /\ UNCHANGED <<account, profile, prompt, alert, isInDeleteMode, queries, answers, counted, crash>>
  BY DEF DumpFeels, dialogue, deleting
<1>2. name \in Names
  <2>1. composer \in Composers
    BY DEF DumpFeels, IInv, TypeOK
  <2> QED
    BY <2>1, TrashcansAssumption DEF TrashcanName, Composers
<1> HIDE DEF name
<1>3. feels \in [Feels -> [state : FeelsStates, trashcan : Names]]
  BY DEF IInv, TypeOK
<1>4. feels' \in [Feels -> [state : FeelsStates, trashcan : Names]]
  BY <1>1, <1>2, <1>3 DEF FeelsStates
<1>5. /\ feels'[f].state = "live"
      /\ \A g \in Feels \ {f} : feels'[g] = feels[g]
  BY <1>1, <1>3
<1>6. TypeOK' /\ CountsMatchLists'
  <2>1. NewFeed \in Feeds /\ NewFeed.trashcanCount = Len(NewFeed.trashcanList)
    BY DEF NewFeed, Feeds
  <2>2. counting' \in Nat
    BY <1>1, Types
  <2> QED
    BY <1>1, <1>4, <2>1, <2>2 DEF IInv, TypeOK, CountsMatchLists, CountIsLength
<1>7. DocumentFollowsProfile' /\ ProfileSound'
  BY <1>1 DEF IInv, DocumentFollowsProfile, ProfileSound, Running
<1>8. CountsAccounted'
  <2>1. /\ Cardinality(Dumped) \in Nat
        /\ Cardinality(Dumped') = Cardinality(Dumped) + 1
    BY <1>1, DumpAddsOne
  <2> QED
    BY <1>1, <2>1, Types DEF IInv, CountsAccounted
<1>9. FeelsSound'
  <2>1. \A g \in Feels : feels[g].state # "none" => feels'[g].state # "none"
    BY <1>5
  <2>2. Foreign \subseteq Feels
    BY TrashcansAssumption
  <2>3. \A i \in DOMAIN answers : answers[i].found \subseteq Feels
    BY Types DEF Deletions
  <2> QED
    BY <1>1, <2>1, <2>2, <2>3 DEF IInv, FeelsSound
<1>10. InFlightSound'
  <2>1. \A n : LiveIn(n) \subseteq LiveIn(n)'
    BY <1>1, <1>5 DEF LiveIn, Live
  <2>2. /\ \A d : TapMeant(d) => TapMeant(d)'
        /\ \A d : StillMeant(d) => StillMeant(d)'
    BY <1>1, <2>1 DEF StillMeant, TapMeant
  <2>3. UnderWay' = UnderWay
    BY <1>1 DEF UnderWay
  <2> QED
    BY <1>1, <2>2, <2>3 DEF IInv, InFlightSound
<1>11. CellsSound'
  BY <1>1, CellsKept
<1> QED
  BY <1>6, <1>7, <1>8, <1>9, <1>10, <1>11 DEF IInv

LEMMA LeaveComposerStep ==
  ASSUME IInv, LeaveComposer
  PROVE  IInv'
<1>1. /\ composer' = Closed
      /\ feed' = NewFeed
      /\ UNCHANGED <<account, feels, profile, prompt, alert, isInDeleteMode, queries, answers,
                     counting, counted, crash>>
  BY DEF LeaveComposer, store, dialogue, deleting, adding
<1>2. NewFeed \in Feeds /\ NewFeed.trashcanCount = Len(NewFeed.trashcanList)
  BY DEF NewFeed, Feeds
<1>3. TypeOK' /\ CountsMatchLists'
  BY <1>1, <1>2 DEF IInv, TypeOK, CountsMatchLists, CountIsLength
<1>4. DocumentFollowsProfile' /\ ProfileSound'
  BY <1>1 DEF IInv, DocumentFollowsProfile, ProfileSound, Running
<1>5. CountsAccounted' /\ FeelsSound' /\ InFlightSound' /\ CellsSound'
  BY <1>1, CountsKept, FeelsKept, InFlightKept, CellsKept DEF deleting
<1> QED
  BY <1>3, <1>4, <1>5 DEF IInv

LEMMA CountReadStep ==
  ASSUME IInv, CountRead
  PROVE  IInv'
<1>1. UNCHANGED <<account, feels, feed, composer, profile, prompt, alert, isInDeleteMode, queries, answers>>
  BY DEF CountRead, store, dialogue, deleting
<1>2. /\ counting' \in Nat /\ counted' \in Seq(Nat)
      /\ crash' \in {"", "noUserData"}
      /\ CountsAccounted'
  <2>0. Dumped' = Dumped
    BY <1>1 DEF Dumped
  <2>1. CASE account.rememberMe
    <3>1. /\ counting > 0
          /\ counting' = counting - 1
          /\ counted' = Append(counted, account.feelsCount)
          /\ UNCHANGED crash
      BY <2>1 DEF CountRead
    <3>2. /\ counted' \in Seq(Nat)
          /\ Len(counted') = Len(counted) + 1
          /\ DOMAIN counted' = 1 .. Len(counted) + 1
          /\ \A i \in 1 .. Len(counted) : counted'[i] = counted[i]
          /\ counted'[Len(counted) + 1] = account.feelsCount
      BY <3>1, Types, AppendElements
    <3>3. account'.feelsCount + counting' + Len(counted') <= Cardinality(Dumped')
      <4>1. account.feelsCount + counting + Len(counted) <= Cardinality(Dumped)
        BY DEF IInv, CountsAccounted
      <4>2. /\ account.feelsCount \in Nat /\ counting \in Nat /\ Len(counted) \in Nat
            /\ Cardinality(Dumped) \in Nat
        BY DumpedFinite, Types
      <4>3. PICK f, c, l, d : /\ f = account.feelsCount /\ c = counting /\ l = Len(counted)
                              /\ d = Cardinality(Dumped)
        OBVIOUS
      <4>4. f + (c - 1) + (l + 1) <= d
        BY <4>1, <4>2, <4>3
      <4>5. /\ account'.feelsCount = f /\ counting' = c - 1 /\ Len(counted') = l + 1
            /\ Cardinality(Dumped') = d
        BY <1>1, <2>0, <3>1, <3>2, <4>3
      <4> QED
        BY <4>4, <4>5
    <3>4. DOMAIN counted = 1 .. Len(counted)
      BY Types
    <3>5. ASSUME NEW i \in DOMAIN counted'
          PROVE  /\ counted'[i] \in Nat
                 /\ counted'[i] <= account.feelsCount
                 /\ account.feelsCount <= counted'[i] + 1
      <4>1. CASE i \in DOMAIN counted
        BY <3>2, <3>4, <4>1, Types DEF IInv, CountsAccounted
      <4>2. CASE i = Len(counted) + 1
        BY <3>2, <4>2, Types
      <4> QED
        BY <3>2, <3>4, <4>1, <4>2, Types
    <3>6. ASSUME NEW i \in DOMAIN counted', NEW j \in DOMAIN counted', i <= j
          PROVE  counted'[i] <= counted'[j]
      <4>1. CASE j \in DOMAIN counted
        <5>1. i \in DOMAIN counted
          BY <3>2, <3>4, <3>6, <4>1, Types
        <5> QED
          BY <3>2, <3>4, <3>6, <4>1, <5>1 DEF IInv, CountsAccounted
      <4>2. CASE j = Len(counted) + 1
        BY <3>2, <3>5, <4>2
      <4> QED
        BY <3>2, <3>4, <4>1, <4>2, Types
    <3>7. CountsAccounted'
      BY <1>1, <3>3, <3>5, <3>6 DEF CountsAccounted
    <3>8. counting' \in Nat
      BY <3>1, Types
    <3> QED
      BY <3>1, <3>2, <3>7, <3>8 DEF CountRead, Running
  <2>2. CASE ~account.rememberMe
    <3>1. crash' = "noUserData" /\ UNCHANGED <<counting, counted>>
      BY <2>2 DEF CountRead, adding
    <3> QED
      BY <1>1, <3>1, CountsKept, Types
  <2> QED
    BY <2>1, <2>2
<1>3. TypeOK' /\ CountsMatchLists'
  BY <1>1, <1>2 DEF IInv, TypeOK, CountsMatchLists, CountIsLength
<1>4. DocumentFollowsProfile' /\ ProfileSound'
  BY <1>1 DEF IInv, DocumentFollowsProfile, ProfileSound, CountRead, Running
<1>5. FeelsSound' /\ InFlightSound'
  BY <1>1, FeelsKept, InFlightKept DEF deleting
<1>6. CellsSound'
  BY <1>1, CellsKept DEF CountRead, Running
<1> QED
  BY <1>2, <1>3, <1>4, <1>5, <1>6 DEF IInv

\* One more than was read is no less than what is there by now, and at most
\* one more.
LEMMA CountWrittenStep ==
  ASSUME IInv, CountWritten
  PROVE  IInv' /\ account'.feelsCount >= account.feelsCount
<1>1. /\ counted # <<>>
      /\ account' = [account EXCEPT !.feelsCount = Head(counted) + 1]
      /\ counted' = Tail(counted)
      /\ UNCHANGED <<feels, feed, composer, profile, prompt, alert, isInDeleteMode, queries, answers,
                     counting, crash>>
  BY DEF CountWritten, dialogue, deleting
<1>2. /\ counted' \in Seq(Nat)
      /\ Len(counted') = Len(counted) - 1
      /\ Head(counted) \in Nat
      /\ Head(counted) = counted[1]
      /\ 1 \in DOMAIN counted
      /\ \A i \in DOMAIN counted' : counted'[i] = counted[i + 1] /\ i + 1 \in DOMAIN counted
  BY <1>1, Types, TailElements, LenProperties
<1>3. account \in Accounts
  BY DEF IInv, TypeOK
<1>4. /\ account' \in Accounts
      /\ account'.feelsCount = Head(counted) + 1
      /\ account'.trashcans = account.trashcans
      /\ account'.trashcanCount = account.trashcanCount
  <2>1. ASSUME NEW n \in Nat, account' = [account EXCEPT !.feelsCount = n]
        PROVE  /\ account' \in Accounts
               /\ account'.feelsCount = n
               /\ account'.trashcans = account.trashcans
               /\ account'.trashcanCount = account.trashcanCount
    BY <1>3, <2>1 DEF Accounts
  <2>2. Head(counted) + 1 \in Nat
    BY <1>2
  <2> QED
    BY <1>1, <2>1, <2>2
<1>5. /\ Head(counted) <= account.feelsCount
      /\ account.feelsCount <= Head(counted) + 1
  BY <1>2 DEF IInv, CountsAccounted
<1>6. CountsAccounted'
  <2>1. Dumped' = Dumped
    BY <1>1 DEF Dumped
  <2>2. account'.feelsCount + counting' + Len(counted') <= Cardinality(Dumped')
    <3>1. /\ account'.feelsCount <= account.feelsCount + 1
          /\ account'.feelsCount \in Nat
      BY <1>2, <1>4, <1>5, Types
    <3>2. account.feelsCount + counting + Len(counted) <= Cardinality(Dumped)
      BY DEF IInv, CountsAccounted
    <3>3. counting' = counting /\ Len(counted') = Len(counted) - 1
      BY <1>1, <1>2
    <3>4. /\ account.feelsCount \in Nat /\ counting \in Nat /\ Len(counted) \in Nat
          /\ Cardinality(Dumped) \in Nat
      BY DumpedFinite, Types
    <3>5. PICK f, c, l, d, g : /\ f = account.feelsCount /\ c = counting /\ l = Len(counted)
                               /\ d = Cardinality(Dumped) /\ g = account'.feelsCount
      OBVIOUS
    <3>6. g + c + (l - 1) <= d
      BY <3>1, <3>2, <3>4, <3>5
    <3> QED
      BY <2>1, <3>3, <3>5, <3>6
  <2>3. ASSUME NEW i \in DOMAIN counted'
        PROVE  /\ counted'[i] <= account'.feelsCount
               /\ account'.feelsCount <= counted'[i] + 1
    <3>1. /\ counted[i + 1] <= account.feelsCount
          /\ counted[1] <= counted[i + 1]
          /\ counted[i + 1] \in Nat
      <4>1. i + 1 \in DOMAIN counted /\ 1 <= i + 1 /\ 1 \in DOMAIN counted
        BY <1>2
      <4> QED
        BY <4>1, Types DEF IInv, CountsAccounted
    <3>2. counted'[i] = counted[i + 1] /\ account'.feelsCount = counted[1] + 1 /\ counted[1] \in Nat
      BY <1>2, <1>4
    <3>3. account.feelsCount <= counted[1] + 1 /\ account.feelsCount \in Nat
      BY <1>2, <1>5, Types
    <3>4. PICK f, a, b : f = account.feelsCount /\ a = counted[1] /\ b = counted[i + 1]
      OBVIOUS
    <3>5. b <= a + 1 /\ a + 1 <= b + 1
      BY <3>1, <3>2, <3>3, <3>4
    <3> QED
      BY <3>2, <3>4, <3>5
  <2>4. ASSUME NEW i \in DOMAIN counted', NEW j \in DOMAIN counted', i <= j
        PROVE  counted'[i] <= counted'[j]
    <3>1. i + 1 \in DOMAIN counted /\ j + 1 \in DOMAIN counted /\ i + 1 <= j + 1
      BY <1>2, <2>4
    <3> QED
      BY <1>2, <3>1 DEF IInv, CountsAccounted
  <2> QED
    BY <2>2, <2>3, <2>4 DEF CountsAccounted
<1>7. TypeOK' /\ CountsMatchLists'
  BY <1>1, <1>2, <1>4 DEF IInv, TypeOK, CountsMatchLists, CountIsLength
<1>8. DocumentFollowsProfile' /\ ProfileSound'
  BY <1>1, <1>4 DEF IInv, DocumentFollowsProfile, ProfileSound, Running
<1>9. FeelsSound' /\ InFlightSound'
  BY <1>1, FeelsKept, InFlightKept DEF deleting
<1>10. CellsSound'
  BY <1>1, CellsKept
<1> QED
  BY <1>4, <1>5, <1>6, <1>7, <1>8, <1>9, <1>10, <1>2, Types DEF IInv

LEMMA DialogueStep ==
  ASSUME IInv, ToggleDeleteMode \/ TapAddTrashcan \/ CancelPrompt \/ CancelDelete
  PROVE  IInv'
<1>1. UNCHANGED <<account, feels, feed, composer, profile, queries, answers, counting, counted,
                  crash>>
  BY DEF ToggleDeleteMode, TapAddTrashcan, CancelPrompt, CancelDelete, store, deleting, adding
<1>2. /\ isInDeleteMode' \in BOOLEAN
      /\ prompt' = Closed \/ prompt' \in Nat
      /\ prompt' # Closed => prompt' >= 1 /\ profile # Closed
      /\ prompt' # Closed /\ profile # Closed => prompt' > Len(profile.trashcans)
      /\ alert' \in {alert, Closed}
      /\ alert' # Closed => prompt' = Closed
  <2>1. /\ isInDeleteMode \in BOOLEAN
        /\ prompt = Closed \/ prompt \in Nat
        /\ prompt # Closed => prompt >= 1 /\ profile # Closed
        /\ prompt # Closed /\ profile # Closed => prompt > Len(profile.trashcans)
        /\ alert # Closed => prompt = Closed
    BY DEF IInv, TypeOK, ProfileSound, CellsSound
  <2>2. CASE ToggleDeleteMode
    BY <2>1, <2>2 DEF ToggleDeleteMode
  <2>3. CASE TapAddTrashcan
    <3>1. /\ prompt' = profile.trashcanCount + 1
          /\ profile # Closed
          /\ alert = Closed
          /\ UNCHANGED <<isInDeleteMode, alert>>
      BY <2>3 DEF TapAddTrashcan, OnProfile, OnTabs, AddTrashcanCell
    <3>2. prompt' \in Nat /\ prompt' >= 1 /\ prompt' > Len(profile.trashcans)
      BY <3>1, ProfileTypes
    <3> QED
      BY <2>1, <3>1, <3>2
  <2>4. CASE CancelPrompt
    BY <2>1, <2>4 DEF CancelPrompt
  <2>5. CASE CancelDelete
    BY <2>1, <2>5 DEF CancelDelete
  <2> QED
    BY <2>2, <2>3, <2>4, <2>5
<1>3. TypeOK' /\ CountsMatchLists'
  BY <1>1, <1>2 DEF IInv, TypeOK, CountsMatchLists, CountIsLength
<1>4. DocumentFollowsProfile' /\ ProfileSound' /\ CellsSound'
  BY <1>1, <1>2 DEF IInv, DocumentFollowsProfile, ProfileSound, CellsSound, CellsMatch, Running
<1>5. CountsAccounted' /\ FeelsSound'
  BY <1>1, CountsKept, FeelsKept
<1>6. InFlightSound'
  <2>1. CASE alert' = alert
    BY <1>1, <2>1, InFlightKept DEF deleting
  <2>2. CASE alert' = Closed
    <3>1. UnderWay' <= MaxInFlight
      <4>1. UnderWay' = Len(queries) + Len(answers) + 0
        BY <1>1, <2>2 DEF UnderWay
      <4> QED
        BY <4>1, Types, UnderWayBound
    <3>2. \A d : LiveIn(d.name)' = LiveIn(d.name)
      BY <1>1 DEF LiveIn, Live
    <3>3. \A d : StillMeant(d) => StillMeant(d)'
      BY <1>1, <3>2 DEF StillMeant, TapMeant
    <3> QED
      BY <1>1, <2>2, <3>1, <3>3 DEF IInv, InFlightSound
  <2> QED
    BY <1>2, <2>1, <2>2
<1> QED
  BY <1>3, <1>4, <1>5, <1>6 DEF IInv

\* The cell for a new trashcan: the collection has room for it, and what it
\* shows is there.
LEMMA NewCellShown ==
  ASSUME IInv, Running, profile # Closed, NEW name \in Names, NEW p,
         p = [profile EXCEPT !.trashcanCount = @ + 1, !.trashcans = Append(@, name)],
         NEW place \in Nat, place > Len(profile.trashcans), place <= Len(p.cells) + 1
  PROVE  /\ NewCell(p, place) \in Names \cup {AddButton}
         /\ InsertAt(p.cells, place, NewCell(p, place)) \in Seq(Names \cup {AddButton})
         /\ Len(InsertAt(p.cells, place, NewCell(p, place))) = Len(p.cells) + 1
         /\ \A q : /\ q.trashcans = p.trashcans
                  /\ q.cells = InsertAt(p.cells, place, NewCell(p, place))
                  => CellsMatch(q)
<1>1. /\ p.trashcans = Append(profile.trashcans, name)
      /\ p.trashcanCount = profile.trashcanCount + 1
      /\ p.cells = profile.cells
  BY ProfileTypes DEF Profiles
<1>2. /\ p.trashcans \in Seq(Names)
      /\ DOMAIN p.trashcans = 1 .. Len(profile.trashcans) + 1
      /\ Len(p.trashcans) = Len(profile.trashcans) + 1
      /\ \A i \in 1 .. Len(profile.trashcans) : p.trashcans[i] = profile.trashcans[i]
  BY <1>1, ProfileTypes, AppendElements
<1>3. /\ p.cells \in Seq(Names \cup {AddButton})
      /\ Len(p.cells) = Len(profile.trashcans) + 1
  BY <1>1, ProfileTypes DEF IInv, ProfileSound
<1>4. NewCell(p, place) \in Names \cup {AddButton}
  <2>1. CASE place = p.trashcanCount + 1
    BY <2>1 DEF NewCell
  <2>2. CASE place # p.trashcanCount + 1
    <3>1. place \in DOMAIN p.trashcans
      BY <1>1, <1>2, <1>3, <2>2, ProfileTypes
    <3>2. p.trashcans[place] \in Names
      BY <1>2, <3>1, ElementOfSeq
    <3> QED
      BY <2>2, <3>2 DEF NewCell
  <2> QED
    BY <2>1, <2>2
<1>5. place \in 1 .. Len(p.cells) + 1
  BY <1>3, ProfileTypes
<1> DEFINE cell == NewCell(p, place)
           cells == p.cells
           S == Names \cup {AddButton}
<1>6. cell \in S /\ cells \in Seq(S) /\ place \in 1 .. Len(cells) + 1
  BY <1>3, <1>4, <1>5
<1> HIDE DEF cell, cells, S
<1>7. /\ InsertAt(cells, place, cell) \in Seq(S)
      /\ Len(InsertAt(cells, place, cell)) = Len(cells) + 1
  BY <1>6, InsertAtElements
<1>10. \A j \in 1 .. Len(cells) + 1 :
          /\ j < place => InsertAt(cells, place, cell)[j] = cells[j]
          /\ j = place => InsertAt(cells, place, cell)[j] = cell
          /\ j > place => InsertAt(cells, place, cell)[j] = cells[j - 1]
  BY <1>6, InsertAtMoves
<1>8. ASSUME NEW q, q.trashcans = p.trashcans, q.cells = InsertAt(cells, place, cell)
      PROVE  CellsMatch(q)
  <2> DEFINE n == Len(profile.trashcans)
  <2>1. n \in Nat /\ p.trashcanCount = n + 1 /\ Len(p.trashcans) = n + 1 /\ Len(cells) = n + 1
    BY <1>1, <1>2, <1>3, ProfileTypes DEF cells
  <2>2. /\ \A i \in 1 .. n : cells[i] \in {p.trashcans[i], AddButton}
        /\ cells[n + 1] = AddButton
    <3>1. CellsMatch(profile)
      BY DEF IInv, CellsSound
    <3> QED
      BY <1>1, <1>2, <3>1 DEF CellsMatch, cells
  <2>3. place = n + 1 => cell = p.trashcans[n + 1]
    BY <2>1 DEF cell, NewCell
  <2>4. place = n + 2 => cell = AddButton
    BY <2>1 DEF cell, NewCell
  <2>5. \A j \in 1 .. n + 2 : /\ j < place => q.cells[j] = cells[j]
                              /\ j = place => q.cells[j] = cell
                              /\ j > place => q.cells[j] = cells[j - 1]
    BY <1>8, <1>10, <2>1
  <2> HIDE DEF n
  <2>6. place = n + 1 \/ place = n + 2
    BY <1>6, <2>1 DEF n
  <2>7. \A i \in 1 .. n : q.cells[i] = cells[i]
    BY <2>1, <2>5, <2>6
  <2>8. q.cells[n + 1] \in {p.trashcans[n + 1], AddButton}
    BY <2>1, <2>2, <2>3, <2>5, <2>6
  <2>9. q.cells[n + 2] = AddButton
    BY <2>1, <2>2, <2>4, <2>5, <2>6
  <2>10. Len(q.trashcans) = n + 1 /\ Len(q.trashcans) + 1 = n + 2
    BY <1>8, <2>1
  <2>11. \A i \in 1 .. n + 1 : i \in 1 .. n \/ i = n + 1
    BY <2>1
  <2> QED
    BY <1>8, <2>2, <2>7, <2>8, <2>9, <2>10, <2>11 DEF CellsMatch
<1>9. \A q : /\ q.trashcans = p.trashcans
            /\ q.cells = InsertAt(cells, place, cell)
            => CellsMatch(q)
  BY <1>8
<1> QED
  BY <1>4, <1>7, <1>9 DEF cell, cells, S

\* The profile after a trashcan was added, whether or not the collection
\* accepted its cell.
LEMMA AddedProfile ==
  ASSUME IInv, Running, profile # Closed, prompt # Closed, NEW name \in Names, Added(name)
  PROVE  /\ profile' \in Profiles
         /\ profile'.trashcans = Append(profile.trashcans, name)
         /\ profile'.trashcanCount = profile.trashcanCount + 1
         /\ \/ /\ crash' = ""
               /\ Len(profile'.cells) = Len(profile.cells) + 1
               /\ CellsMatch(profile')
               /\ \E cell \in Names \cup {AddButton} :
                     /\ profile'.cells = InsertAt(profile.cells, prompt, cell)
                     /\ prompt = AddTrashcanCell => cell = name
            \/ crash' = "insertItems"
         /\ account' = [account EXCEPT !.trashcans = Append(profile.trashcans, name),
                                       !.trashcanCount = profile.trashcanCount + 1]
<1> DEFINE p == [profile EXCEPT !.trashcanCount = @ + 1, !.trashcans = Append(@, name)]
           cell == NewCell(p, prompt)
<1>1. /\ profile \in Profiles
      /\ profile.trashcans \in Seq(Names)
      /\ Len(profile.trashcans) \in Nat
      /\ profile.trashcanCount = Len(profile.trashcans)
  BY ProfileTypes
<1>2. /\ p.trashcans = Append(profile.trashcans, name)
      /\ p.trashcanCount = profile.trashcanCount + 1
      /\ p.cells = profile.cells
      /\ p.known = profile.known
  BY <1>1 DEF Profiles
<1>3. /\ p.trashcans \in Seq(Names)
      /\ p.trashcans[Len(profile.trashcans) + 1] = name
  BY <1>1, <1>2, AppendElements
<1>4. p \in Profiles
  <2>1. profile.trashcanCount + 1 \in Int
    BY <1>1
  <2> QED
    BY <1>1, <1>2, <1>3, <2>1 DEF Profiles
<1>5. account' = [account EXCEPT !.trashcans = Append(profile.trashcans, name),
                                 !.trashcanCount = profile.trashcanCount + 1]
  <2>1. Save(p.trashcans, p.trashcanCount)
    BY DEF Added
  <2> QED
    BY <1>2, <2>1 DEF Save
<1>6. prompt \in Nat /\ prompt > Len(profile.trashcans)
  BY DEF IInv, TypeOK, CellsSound
<1>7. CASE prompt <= Len(p.cells) + 1
  <2>1. profile' = [p EXCEPT !.cells = InsertAt(@, prompt, cell)] /\ UNCHANGED crash
    BY <1>7 DEF Added, PlaceOfNewCell
  <2>2. /\ cell \in Names \cup {AddButton}
        /\ InsertAt(p.cells, prompt, cell) \in Seq(Names \cup {AddButton})
        /\ Len(InsertAt(p.cells, prompt, cell)) = Len(p.cells) + 1
        /\ \A q : q.trashcans = p.trashcans /\ q.cells = InsertAt(p.cells, prompt, cell)
                  => CellsMatch(q)
    BY <1>6, <1>7, NewCellShown
  <2>3. prompt = AddTrashcanCell => cell = name
    <3>1. SUFFICES ASSUME prompt = profile.trashcanCount + 1
                   PROVE  cell = name
      BY DEF AddTrashcanCell
    <3>2. prompt # p.trashcanCount + 1
      BY <1>1, <1>2, <3>1
    <3> QED
      BY <1>1, <1>2, <1>3, <3>1, <3>2 DEF NewCell
  <2> HIDE DEF p, cell
  <2>4. /\ profile' \in Profiles
        /\ profile'.trashcans = p.trashcans
        /\ profile'.trashcanCount = p.trashcanCount
        /\ profile'.cells = InsertAt(p.cells, prompt, cell)
    BY <1>4, <2>1, <2>2 DEF Profiles
  <2>5. CellsMatch(profile')
    <3>1. PICK q : q = profile'
      OBVIOUS
    <3>2. CellsMatch(q)
      BY <2>2, <2>4, <3>1
    <3> QED
      BY <3>1, <3>2
  <2> QED
    BY <1>2, <1>5, <2>1, <2>2, <2>3, <2>4, <2>5 DEF Running
<1>8. CASE ~(prompt <= Len(p.cells) + 1)
  <2>1. profile' = p /\ crash' = "insertItems"
    BY <1>8 DEF Added, PlaceOfNewCell
  <2> QED
    BY <1>2, <1>4, <1>5, <2>1
<1> QED
  BY <1>7, <1>8

LEMMA CreateTrashcanStep ==
  ASSUME IInv, NEW name \in Names, CreateTrashcan(name)
  PROVE  IInv'
<1>1. /\ prompt' = Closed
      /\ UNCHANGED <<feels, feed, composer, alert, isInDeleteMode, queries, answers, counting,
                     counted>>
  BY DEF CreateTrashcan, deleting, adding
<1>2. Running /\ prompt # Closed /\ profile # Closed /\ alert = Closed
  BY DEF CreateTrashcan, IInv, ProfileSound
<1>3. CASE ~profile.known
  <2>1. crash' = "noUserData" /\ UNCHANGED <<account, profile>>
    BY <1>3 DEF CreateTrashcan
  <2>2. TypeOK' /\ CountsMatchLists' /\ DocumentFollowsProfile' /\ ProfileSound'
    BY <1>1, <2>1 DEF IInv, TypeOK, CountsMatchLists, CountIsLength, DocumentFollowsProfile,
       ProfileSound, Running
  <2>3. CountsAccounted' /\ FeelsSound' /\ InFlightSound'
    BY <1>1, <2>1, CountsKept, FeelsKept, InFlightKept DEF deleting
  <2>4. CellsSound'
    BY <1>1, <2>1, CellsKept
  <2> QED
    BY <2>2, <2>3, <2>4 DEF IInv
<1>4. CASE profile.known
  <2>1. Added(name)
    BY <1>4 DEF CreateTrashcan
  <2> DEFINE list == Append(profile.trashcans, name)
             count == profile.trashcanCount + 1
  <2>2. /\ profile' \in Profiles
        /\ profile'.trashcans = list
        /\ profile'.trashcanCount = count
        /\ \/ /\ crash' = ""
              /\ Len(profile'.cells) = Len(profile.cells) + 1
              /\ CellsMatch(profile')
           \/ crash' = "insertItems"
        /\ account' = [account EXCEPT !.trashcans = list, !.trashcanCount = count]
    BY <1>2, <2>1, AddedProfile
  <2>3. /\ list \in Seq(Names)
        /\ count \in Nat
        /\ count = Len(list)
        /\ Len(list) = Len(profile.trashcans) + 1
        /\ \A i \in DOMAIN profile.trashcans : i \in DOMAIN list /\ list[i] = profile.trashcans[i]
    BY <1>2, ProfileTypes, AppendElements
  <2> HIDE DEF list, count
  <2>4. /\ account' \in Accounts
        /\ account'.trashcans = list
        /\ account'.trashcanCount = count
        /\ account'.feelsCount = account.feelsCount
    BY <2>2, <2>3 DEF Accounts, IInv, TypeOK
  <2>5. profile' # Closed
    BY <2>2, ClosedAssumption
  <2>6. TypeOK'
    BY <1>1, <2>2, <2>4 DEF IInv, TypeOK
  <2>7. CountsMatchLists'
    BY <1>1, <2>2, <2>3, <2>4 DEF IInv, CountsMatchLists, CountIsLength
  <2>8. DocumentFollowsProfile'
    BY <2>2, <2>4 DEF DocumentFollowsProfile
  <2>9. ProfileSound'
    <3>1. Len(profile.cells) = Len(profile.trashcans) + 1
      BY <1>2 DEF IInv, ProfileSound
    <3>2. crash' = "" => Len(profile'.cells) = Len(profile'.trashcans) + 1
      BY <1>2, <2>2, <2>3, <3>1
    <3> QED
      BY <1>1, <2>5, <3>2 DEF ProfileSound, Running
  <2>10. CountsAccounted' /\ FeelsSound'
    BY <1>1, <2>4, CountsKept, FeelsKept
  <2>11. InFlightSound'
    <3>1. \A d : LiveIn(d.name)' = LiveIn(d.name)
      BY <1>1 DEF LiveIn, Live
    <3>2. \A d : TapMeant(d) => TapMeant(d)'
      BY <2>2, <2>3 DEF TapMeant
    <3>3. \A d : StillMeant(d) => StillMeant(d)'
      BY <3>1, <3>2 DEF StillMeant
    <3>4. UnderWay' = UnderWay
      BY <1>1 DEF UnderWay
    <3> QED
      BY <1>1, <3>2, <3>3, <3>4 DEF IInv, InFlightSound
  <2>12. CellsSound'
    BY <1>1, <2>2 DEF CellsSound, Running
  <2> QED
    BY <2>6, <2>7, <2>8, <2>9, <2>10, <2>11, <2>12 DEF IInv
<1> QED
  BY <1>3, <1>4

LEMMA TapTrashcanStep ==
  ASSUME IInv, NEW i \in 1 .. MaxTrashcans, TapTrashcan(i)
  PROVE  IInv'
<1> DEFINE t == [item |-> i, name |-> profile.cells[i]]
<1>1. /\ Running
      /\ profile # Closed
      /\ prompt = Closed
      /\ i \in 1 .. profile.trashcanCount
      /\ Len(queries) + Len(answers) < MaxInFlight
      /\ alert' = t
      /\ UNCHANGED <<account, feels, feed, composer, profile, prompt, isInDeleteMode, queries,
                     answers, counting, counted, crash>>
  BY DEF TapTrashcan, OnProfile, OnTabs, store, deleting, adding
<1>2. i \in DOMAIN profile.trashcans /\ i \in Nat
  BY <1>1, ProfileTypes
<1>3. profile.cells[i] \in {profile.trashcans[i], AddButton}
  <2>1. CellsMatch(profile)
    BY <1>1 DEF IInv, CellsSound
  <2> QED
    BY <1>1, <2>1, ProfileTypes DEF CellsMatch
<1>4. t \in Taps
  <2>1. profile.trashcans[i] \in Names
    BY <1>1, <1>2, ProfileTypes, ElementOfSeq
  <2>2. PICK name \in Names \cup {AddButton} : name = profile.cells[i]
    BY <1>3, <2>1
  <2> QED
    BY <1>2, <2>2 DEF Taps
<1>5. t.item = i /\ t.name = profile.cells[i]
  OBVIOUS
<1> HIDE DEF t
<1>6. alert' \in Taps /\ alert' # Closed
  BY <1>1, <1>4, ClosedAssumption
<1>7. TypeOK' /\ CountsMatchLists'
  BY <1>1, <1>6 DEF IInv, TypeOK, CountsMatchLists, CountIsLength
<1>8. DocumentFollowsProfile' /\ ProfileSound' /\ CellsSound'
  BY <1>1 DEF IInv, DocumentFollowsProfile, ProfileSound, CellsSound, CellsMatch, Running
<1>9. CountsAccounted' /\ FeelsSound'
  BY <1>1, CountsKept, FeelsKept
<1>10. InFlightSound'
  <2>1. UnderWay' <= MaxInFlight
    <3>1. UnderWay' = Len(queries) + Len(answers) + 1
      BY <1>1, <1>6 DEF UnderWay
    <3> QED
      BY <1>1, <3>1, Types, TrashcansAssumption
  <2>2. \A d : LiveIn(d.name)' = LiveIn(d.name)
    BY <1>1 DEF LiveIn, Live
  <2>3. \A d : StillMeant(d) => StillMeant(d)'
    BY <1>1, <2>2 DEF StillMeant, TapMeant
  <2>4. TapMeant(alert)'
    BY <1>1, <1>2, <1>3, <1>5 DEF TapMeant
  <2> QED
    BY <1>1, <2>1, <2>3, <2>4 DEF IInv, InFlightSound
<1> QED
  BY <1>7, <1>8, <1>9, <1>10 DEF IInv

LEMMA ConfirmDeleteStep ==
  ASSUME IInv, ConfirmDelete
  PROVE  IInv'
<1> DEFINE d == [item |-> alert.item, name |-> alert.name, found |-> {},
                 had |-> LiveIn(alert.name)]
<1>1. /\ alert # Closed
      /\ alert' = Closed
      /\ queries' = Append(queries, d)
      /\ UNCHANGED <<account, feels, feed, composer, profile, prompt, isInDeleteMode, answers,
                     counting, counted, crash>>
  BY DEF ConfirmDelete, store, adding
<1>2. alert \in Taps /\ alert.item \in Nat /\ alert.name \in Names \cup {AddButton}
  BY <1>1 DEF IInv, TypeOK, Taps
<1>3. d \in Deletions
  <2>1. LiveIn(alert.name) \in SUBSET Feels
    BY DEF LiveIn, Live
  <2>2. PICK item \in Nat, name \in Names \cup {AddButton} :
           item = alert.item /\ name = alert.name
    BY <1>2
  <2> QED
    BY <2>1, <2>2 DEF Deletions
<1>4. MaxInFlight = 1 => (\A e : e = d => StillMeant(e)')
  <2>1. \A n : LiveIn(n)' = LiveIn(n)
    BY <1>1 DEF LiveIn, Live
  <2>2. MaxInFlight = 1 => TapMeant(alert)
    BY <1>1 DEF IInv, InFlightSound
  <2>3. \A e : e = d => e.item = alert.item /\ e.name = alert.name /\ e.had = LiveIn(alert.name)
    OBVIOUS
  <2> HIDE DEF d
  <2> QED
    BY <1>1, <2>1, <2>2, <2>3 DEF StillMeant, TapMeant
<1> HIDE DEF d
<1>5. /\ queries' \in Seq(Deletions)
      /\ Len(queries') = Len(queries) + 1
      /\ \A j \in DOMAIN queries' :
            \/ j \in DOMAIN queries /\ queries'[j] = queries[j]
            \/ queries'[j] = d
  <2>1. DOMAIN queries = 1 .. Len(queries)
    BY Types
  <2>2. /\ queries' \in Seq(Deletions)
        /\ Len(queries') = Len(queries) + 1
        /\ DOMAIN queries' = 1 .. Len(queries) + 1
        /\ \A j \in 1 .. Len(queries) : queries'[j] = queries[j]
        /\ queries'[Len(queries) + 1] = d
    BY <1>1, <1>3, Types, AppendElements
  <2>3. \A j \in DOMAIN queries' : j \in DOMAIN queries \/ j = Len(queries) + 1
    BY <2>1, <2>2, Types
  <2> QED
    BY <2>1, <2>2, <2>3
<1>6. TypeOK' /\ CountsMatchLists'
  BY <1>1, <1>5 DEF IInv, TypeOK, CountsMatchLists, CountIsLength
<1>7. DocumentFollowsProfile' /\ ProfileSound' /\ CellsSound'
  BY <1>1 DEF IInv, DocumentFollowsProfile, ProfileSound, CellsSound, CellsMatch, Running
<1>8. CountsAccounted' /\ FeelsSound'
  BY <1>1, CountsKept, FeelsKept
<1>9. InFlightSound'
  <2>1. UnderWay' <= MaxInFlight
    <3>1. UnderWay' = Len(queries) + 1 + Len(answers) + 0
      BY <1>1, <1>5 DEF UnderWay
    <3>2. Len(queries) + Len(answers) + 1 <= MaxInFlight
      BY <1>1, UnderWayBound
    <3> QED
      BY <3>1, <3>2, Types, TrashcansAssumption
  <2>2. \A e : StillMeant(e) => StillMeant(e)'
    <3>1. \A e : LiveIn(e.name)' = LiveIn(e.name)
      BY <1>1 DEF LiveIn, Live
    <3> QED
      BY <1>1, <3>1 DEF StillMeant, TapMeant
  <2> QED
    BY <1>1, <1>4, <1>5, <2>1, <2>2 DEF IInv, InFlightSound
<1> QED
  BY <1>6, <1>7, <1>8, <1>9 DEF IInv

LEMMA QueryAnsweredStep ==
  ASSUME IInv, QueryAnswered
  PROVE  IInv'
<1> DEFINE q == Head(queries)
           d == [q EXCEPT !.found = Live]
<1>1. /\ queries # <<>>
      /\ queries' = Tail(queries)
      /\ answers' = Append(answers, d)
      /\ UNCHANGED <<account, feels, feed, composer, profile, prompt, alert, isInDeleteMode,
                     counting, counted, crash>>
  BY DEF QueryAnswered, store, dialogue, adding
<1>2. /\ queries' \in Seq(Deletions)
      /\ Len(queries') = Len(queries) - 1
      /\ 1 \in DOMAIN queries
      /\ q = queries[1]
      /\ q \in Deletions
      /\ \A j \in DOMAIN queries' : j + 1 \in DOMAIN queries /\ queries'[j] = queries[j + 1]
  BY <1>1, Types, TailElements, LenProperties
<1>3. /\ d \in Deletions
      /\ d.found = Live
      /\ d.item = q.item /\ d.name = q.name /\ d.had = q.had
  <2>1. Live \in SUBSET Feels
    BY DEF Live
  <2> HIDE DEF q
  <2> QED
    BY <1>2, <2>1 DEF Deletions
<1> HIDE DEF d, q
<1>4. /\ answers' \in Seq(Deletions)
      /\ Len(answers') = Len(answers) + 1
      /\ \A j \in DOMAIN answers' :
            \/ j \in DOMAIN answers /\ answers'[j] = answers[j]
            \/ answers'[j] = d
  <2>1. DOMAIN answers = 1 .. Len(answers)
    BY Types
  <2>2. /\ answers' \in Seq(Deletions)
        /\ Len(answers') = Len(answers) + 1
        /\ DOMAIN answers' = 1 .. Len(answers) + 1
        /\ \A j \in 1 .. Len(answers) : answers'[j] = answers[j]
        /\ answers'[Len(answers) + 1] = d
    BY <1>1, <1>3, Types, AppendElements
  <2>3. \A j \in DOMAIN answers' : j \in DOMAIN answers \/ j = Len(answers) + 1
    BY <2>1, <2>2, Types
  <2> QED
    BY <2>1, <2>2, <2>3
<1>5. TypeOK' /\ CountsMatchLists'
  BY <1>1, <1>2, <1>4 DEF IInv, TypeOK, CountsMatchLists, CountIsLength
<1>6. DocumentFollowsProfile' /\ ProfileSound'
  BY <1>1 DEF IInv, DocumentFollowsProfile, ProfileSound, Running
<1>7. CountsAccounted'
  BY <1>1, CountsKept
<1>8. FeelsSound'
  <2>1. \A f \in d.found : feels[f].state # "none"
    BY <1>3 DEF Live
  <2> QED
    BY <1>1, <1>4, <2>1 DEF IInv, FeelsSound
<1>9. InFlightSound'
  <2>1. UnderWay' <= MaxInFlight
    <3>1. Len(queries') + Len(answers') = Len(queries) + Len(answers)
      BY <1>2, <1>4, Types
    <3>2. UnderWay' = UnderWay
      BY <1>1, <3>1 DEF UnderWay
    <3> QED
      BY <3>2 DEF IInv, InFlightSound
  <2>2. \A e : LiveIn(e)' = LiveIn(e)
    BY <1>1 DEF LiveIn, Live
  <2>3. /\ \A e : TapMeant(e) => TapMeant(e)'
        /\ \A e : StillMeant(e) => StillMeant(e)'
    BY <1>1, <2>2 DEF StillMeant, TapMeant
  <2>4. ASSUME NEW e, e = d, StillMeant(q)
        PROVE  StillMeant(e)' /\ e.had \subseteq e.found
    <3>1. LiveIn(q.name) \subseteq Live
      BY DEF LiveIn
    <3>2. e.item = q.item /\ e.name = q.name /\ e.had = q.had /\ e.found = Live
      BY <1>3, <2>4
    <3> QED
      BY <1>1, <2>2, <2>4, <3>1, <3>2 DEF StillMeant, TapMeant
  <2> QED
    BY <1>1, <1>2, <1>4, <2>1, <2>3, <2>4 DEF IInv, InFlightSound
<1>10. CellsSound'
  BY <1>1, CellsKept
<1> QED
  BY <1>5, <1>6, <1>7, <1>8, <1>9, <1>10 DEF IInv

LEMMA QueryFailedStep ==
  ASSUME IInv, QueryFailed
  PROVE  IInv'
<1>1. /\ queries # <<>>
      /\ queries' = Tail(queries)
      /\ UNCHANGED <<account, feels, feed, composer, profile, prompt, alert, isInDeleteMode, answers,
                     counting, counted, crash>>
  BY DEF QueryFailed, store, dialogue, adding
<1>2. /\ queries' \in Seq(Deletions)
      /\ Len(queries') = Len(queries) - 1
      /\ \A j \in DOMAIN queries' : j + 1 \in DOMAIN queries /\ queries'[j] = queries[j + 1]
  BY <1>1, Types, TailElements, LenProperties
<1>3. TypeOK' /\ CountsMatchLists'
  BY <1>1, <1>2 DEF IInv, TypeOK, CountsMatchLists, CountIsLength
<1>4. DocumentFollowsProfile' /\ ProfileSound'
  BY <1>1 DEF IInv, DocumentFollowsProfile, ProfileSound, Running
<1>5. CountsAccounted' /\ FeelsSound'
  BY <1>1, CountsKept, FeelsKept
<1>6. InFlightSound'
  <2>1. UnderWay' <= MaxInFlight
    <3>1. UnderWay' = UnderWay - 1
      BY <1>1, <1>2, Types DEF UnderWay
    <3>2. UnderWay \in Nat
      BY Types DEF UnderWay
    <3> QED
      BY <3>1, <3>2, TrashcansAssumption DEF IInv, InFlightSound
  <2>2. \A e : LiveIn(e)' = LiveIn(e)
    BY <1>1 DEF LiveIn, Live
  <2>3. /\ \A e : TapMeant(e) => TapMeant(e)'
        /\ \A e : StillMeant(e) => StillMeant(e)'
    BY <1>1, <2>2 DEF StillMeant, TapMeant
  <2> QED
    BY <1>1, <1>2, <2>1, <2>3 DEF IInv, InFlightSound
<1>7. CellsSound'
  BY <1>1, CellsKept
<1> QED
  BY <1>3, <1>4, <1>5, <1>6, <1>7 DEF IInv

\* The completion of a deletion that goes through.
LEMMA FinishDeleteEffect ==
  ASSUME IInv, FinishDelete, NEW d, d = Head(answers),
         profile.known /\ d.item \in DOMAIN profile.trashcans
  PROVE  /\ d.item \in 1 .. Len(profile.trashcans)
         /\ feels' \in [Feels -> [state : FeelsStates, trashcan : Names]]
         /\ \A f \in FeelsToRemove(d) : feels'[f].state = "deleted"
         /\ \A f \in Feels \ FeelsToRemove(d) : feels'[f] = feels[f]
         /\ profile # Closed
         /\ profile' \in Profiles
         /\ profile'.trashcans = RemoveAt(profile.trashcans, d.item)
         /\ profile'.trashcanCount = profile.trashcanCount - 1
         /\ profile'.cells = RemoveAt(profile.cells, d.item)
         /\ Len(profile'.trashcans) = Len(profile.trashcans) - 1
         /\ Len(profile'.cells) = Len(profile.trashcans)
         /\ CellsMatch(profile')
         /\ account' \in Accounts
         /\ account'.trashcans = profile'.trashcans
         /\ account'.trashcanCount = profile'.trashcanCount
         /\ account'.feelsCount = account.feelsCount
         /\ crash' = ""
<1>1. /\ feels' = [f \in Feels |-> IF f \in FeelsToRemove(d) THEN [feels[f] EXCEPT !.state = "deleted"]
                                   ELSE feels[f]]
      /\ Removed(d)
      /\ Save(profile'.trashcans, profile'.trashcanCount)
      /\ UNCHANGED crash
      /\ Running
      /\ answers # <<>>
  BY DEF FinishDelete
<1>2. profile # Closed
  BY <1>1 DEF IInv, ProfileSound
<1>3. /\ profile \in Profiles
      /\ profile.trashcans \in Seq(Names)
      /\ Len(profile.trashcans) \in Nat
      /\ DOMAIN profile.trashcans = 1 .. Len(profile.trashcans)
      /\ profile.trashcanCount = Len(profile.trashcans)
      /\ profile.cells \in Seq(Names \cup {AddButton})
      /\ Len(profile.cells) = Len(profile.trashcans) + 1
  BY <1>1, <1>2, ProfileTypes DEF IInv, ProfileSound
<1>4. /\ d.item \in 1 .. Len(profile.trashcans)
      /\ d.item \in 1 .. Len(profile.cells)
  BY <1>3
<1> DEFINE list == RemoveAt(profile.trashcans, d.item)
           cells == RemoveAt(profile.cells, d.item)
<1>5. /\ list \in Seq(Names)
      /\ Len(list) = Len(profile.trashcans) - 1
      /\ cells \in Seq(Names \cup {AddButton})
      /\ Len(cells) = Len(profile.trashcans)
      /\ \A j \in 1 .. Len(profile.trashcans) - 1 :
           list[j] = IF j < d.item THEN profile.trashcans[j] ELSE profile.trashcans[j + 1]
      /\ \A j \in 1 .. Len(profile.trashcans) :
           cells[j] = IF j < d.item THEN profile.cells[j] ELSE profile.cells[j + 1]
  <2>1. /\ list \in Seq(Names)
        /\ Len(list) = Len(profile.trashcans) - 1
        /\ \A j \in 1 .. Len(profile.trashcans) - 1 :
             list[j] = IF j < d.item THEN profile.trashcans[j] ELSE profile.trashcans[j + 1]
    BY <1>3, <1>4, RemoveAtElements
  <2>2. /\ cells \in Seq(Names \cup {AddButton})
        /\ Len(cells) = Len(profile.cells) - 1
        /\ \A j \in 1 .. Len(profile.cells) - 1 :
             cells[j] = IF j < d.item THEN profile.cells[j] ELSE profile.cells[j + 1]
    BY <1>3, <1>4, RemoveAtElements
  <2>3. Len(profile.cells) - 1 = Len(profile.trashcans)
    BY <1>3
  <2> QED
    BY <2>1, <2>2, <2>3
<1>6. profile' = [profile EXCEPT !.trashcanCount = @ - 1, !.trashcans = list, !.cells = cells]
  BY <1>1 DEF Removed
<1> HIDE DEF list, cells
<1>7. /\ profile' \in Profiles
      /\ profile'.trashcans = list
      /\ profile'.trashcanCount = profile.trashcanCount - 1
      /\ profile'.cells = cells
  <2>1. profile.trashcanCount - 1 \in Int
    BY <1>3
  <2> QED
    BY <1>3, <1>5, <1>6, <2>1 DEF Profiles
<1>8. /\ account' \in Accounts
      /\ account'.trashcans = profile'.trashcans
      /\ account'.trashcanCount = profile'.trashcanCount
      /\ account'.feelsCount = account.feelsCount
  <2>1. profile'.trashcanCount \in Nat
    BY <1>3, <1>4, <1>7
  <2>2. account' = [account EXCEPT !.trashcans = profile'.trashcans,
                                   !.trashcanCount = profile'.trashcanCount]
    BY <1>1 DEF Save
  <2>3. account \in Accounts
    BY DEF IInv, TypeOK
  <2> QED
    BY <1>5, <1>7, <2>1, <2>2, <2>3 DEF Accounts
<1>13. CellsMatch(profile')
  <2>1. CellsMatch(profile)
    BY <1>1, <1>2 DEF IInv, CellsSound
  <2> DEFINE n == Len(profile.trashcans)
  <2>2. /\ n \in Nat /\ d.item \in 1 .. n
        /\ Len(list) = n - 1
        /\ \A i \in 1 .. n : profile.cells[i] \in {profile.trashcans[i], AddButton}
        /\ profile.cells[n + 1] = AddButton
        /\ \A j \in 1 .. n - 1 :
             list[j] = IF j < d.item THEN profile.trashcans[j] ELSE profile.trashcans[j + 1]
        /\ \A j \in 1 .. n :
             cells[j] = IF j < d.item THEN profile.cells[j] ELSE profile.cells[j + 1]
    BY <1>3, <1>4, <1>5, <2>1 DEF CellsMatch
  <2> HIDE DEF n
  <2>3. cells[n] = AddButton /\ Len(list) + 1 = n
    BY <2>2
  <2>4. ASSUME NEW j \in 1 .. n - 1
        PROVE  cells[j] \in {list[j], AddButton}
    <3>1. CASE j < d.item
      BY <2>2, <3>1
    <3>2. CASE ~(j < d.item)
      <4>1. j + 1 \in 1 .. n /\ j \in 1 .. n
        BY <2>2
      <4>2. profile.cells[j + 1] \in {profile.trashcans[j + 1], AddButton}
        BY <2>2, <4>1
      <4> QED
        BY <2>2, <3>2, <4>1, <4>2
    <3> QED
      BY <3>1, <3>2
  <2> QED
    BY <1>7, <2>2, <2>3, <2>4 DEF CellsMatch
<1>9. feels \in [Feels -> [state : FeelsStates, trashcan : Names]]
  BY DEF IInv, TypeOK
<1>10. feels' \in [Feels -> [state : FeelsStates, trashcan : Names]]
  BY <1>1, <1>9 DEF FeelsStates
<1>11. FeelsToRemove(d) \subseteq Feels
  <2>1. d \in Deletions
    BY <1>1, Types, TailElements
  <2> QED
    BY <2>1 DEF FeelsToRemove, Deletions
<1>12. /\ \A f \in FeelsToRemove(d) : feels'[f].state = "deleted"
       /\ \A f \in Feels \ FeelsToRemove(d) : feels'[f] = feels[f]
  BY <1>1, <1>9, <1>11
<1> QED
  BY <1>1, <1>2, <1>4, <1>5, <1>7, <1>8, <1>10, <1>12, <1>13 DEF Running, list, cells

LEMMA FinishDeleteStep ==
  ASSUME IInv, FinishDelete
  PROVE  IInv'
<1>1. PICK d : d = Head(answers)
  OBVIOUS
<1>2. /\ answers # <<>>
      /\ answers' = Tail(answers)
      /\ UNCHANGED <<feed, composer, prompt, alert, isInDeleteMode, queries, counting, counted>>
  BY DEF FinishDelete, dialogue, adding
<1>3. /\ answers' \in Seq(Deletions)
      /\ Len(answers') = Len(answers) - 1
      /\ Len(answers) >= 1
      /\ 1 \in DOMAIN answers
      /\ d = answers[1]
      /\ d \in Deletions
      /\ \A j \in DOMAIN answers' : j + 1 \in DOMAIN answers /\ answers'[j] = answers[j + 1]
  BY <1>1, <1>2, Types, TailElements, LenProperties
<1>4. UnderWay' <= MaxInFlight
  <2>1. UnderWay' = UnderWay - 1
    BY <1>2, <1>3, Types DEF UnderWay
  <2>2. UnderWay \in Nat
    BY Types DEF UnderWay
  <2> QED
    BY <2>1, <2>2, TrashcansAssumption DEF IInv, InFlightSound
<1>5. MaxInFlight = 1 => queries' = <<>> /\ answers' = <<>> /\ alert' = Closed
  <2>1. MaxInFlight = 1 => Len(queries) = 0 /\ Len(answers') = 0
    BY <1>2, <1>3, Types, UnderWayBound
  <2>2. MaxInFlight = 1 => alert = Closed
    BY <1>2, UnderWayBound
  <2> QED
    BY <1>2, <1>3, <2>1, <2>2, Types, EmptySeq
<1>6. InFlightSound'
  BY <1>4, <1>5 DEF InFlightSound
<1>7. CASE profile.known /\ d.item \in DOMAIN profile.trashcans
  <2>1. /\ d.item \in 1 .. Len(profile.trashcans)
        /\ feels' \in [Feels -> [state : FeelsStates, trashcan : Names]]
        /\ \A f \in FeelsToRemove(d) : feels'[f].state = "deleted"
        /\ \A f \in Feels \ FeelsToRemove(d) : feels'[f] = feels[f]
        /\ profile # Closed
        /\ profile' \in Profiles
        /\ profile'.trashcanCount = profile.trashcanCount - 1
        /\ Len(profile'.trashcans) = Len(profile.trashcans) - 1
        /\ Len(profile'.cells) = Len(profile.trashcans)
        /\ CellsMatch(profile')
        /\ account' \in Accounts
        /\ account'.trashcans = profile'.trashcans
        /\ account'.trashcanCount = profile'.trashcanCount
        /\ account'.feelsCount = account.feelsCount
        /\ crash' = ""
    BY <1>1, <1>7, FinishDeleteEffect
  <2>2. profile' # Closed
    BY <2>1, ClosedAssumption
  <2>3. TypeOK'
    BY <1>2, <1>3, <2>1 DEF IInv, TypeOK
  <2>4. CountsMatchLists' /\ DocumentFollowsProfile'
    BY <1>2, <2>1, ProfileTypes DEF IInv, CountsMatchLists, CountIsLength, DocumentFollowsProfile
  <2>5. ProfileSound'
    <3>1. Len(profile'.cells) = Len(profile'.trashcans) + 1
      <4>1. Len(profile.trashcans) \in Nat
        BY <2>1, ProfileTypes
      <4>2. /\ Len(profile'.trashcans) = Len(profile.trashcans) - 1
            /\ Len(profile'.cells) = Len(profile.trashcans)
        BY <2>1
      <4> QED
        BY <4>1, <4>2
    <3> QED
      BY <1>2, <2>1, <2>2, <3>1 DEF IInv, ProfileSound
  <2>6. \A f \in Feels : feels'[f].state # "none" <=> feels[f].state # "none"
    <3>1. \A f \in FeelsToRemove(d) : feels[f].state # "none"
      BY <1>3 DEF IInv, FeelsSound, FeelsToRemove
    <3> QED
      BY <2>1, <3>1
  <2>7. CountsAccounted'
    <3>1. Dumped' = Dumped
      BY <2>6 DEF Dumped
    <3> QED
      BY <1>2, <2>1, <3>1 DEF IInv, CountsAccounted
  <2>8. FeelsSound'
    <3>1. Foreign \subseteq Feels /\ \A i \in DOMAIN answers : answers[i].found \subseteq Feels
      BY Types, TrashcansAssumption DEF Deletions
    <3> QED
      BY <1>3, <2>6, <3>1 DEF IInv, FeelsSound
  <2>9. CellsSound'
    <3>1. prompt' # Closed => prompt' > Len(profile'.trashcans)
      <4>1. SUFFICES ASSUME prompt # Closed
                     PROVE  prompt > Len(profile'.trashcans)
        BY <1>2
      <4>2. prompt > Len(profile.trashcans) /\ prompt \in Nat
        BY <2>1, <4>1 DEF IInv, TypeOK, CellsSound
      <4>3. /\ Len(profile'.trashcans) = Len(profile.trashcans) - 1
            /\ Len(profile.trashcans) \in Nat
        BY <2>1, ProfileTypes
      <4> QED
        BY <4>2, <4>3
    <3> QED
      BY <2>1, <3>1 DEF CellsSound
  <2> QED
    BY <1>6, <2>3, <2>4, <2>5, <2>7, <2>8, <2>9 DEF IInv
<1>8. CASE ~(profile.known /\ d.item \in DOMAIN profile.trashcans)
  <2>1. crash' = "finishDelete" /\ UNCHANGED <<account, feels, profile>>
    BY <1>1, <1>8 DEF FinishDelete, store
  <2>2. TypeOK' /\ CountsMatchLists' /\ DocumentFollowsProfile'
    BY <1>2, <1>3, <2>1 DEF IInv, TypeOK, CountsMatchLists, CountIsLength, DocumentFollowsProfile
  <2>3. ProfileSound'
    BY <1>2, <2>1 DEF IInv, ProfileSound, Running
  <2>4. CountsAccounted' /\ FeelsSound'
    BY <1>2, <1>3, <2>1, CountsKept DEF IInv, FeelsSound
  <2>5. CellsSound'
    BY <1>2, <2>1, CellsKept
  <2> QED
    BY <1>6, <2>2, <2>3, <2>4, <2>5 DEF IInv
<1> QED
  BY <1>7, <1>8

LEMMA RelaunchStep ==
  ASSUME IInv, NEW rememberMe \in BOOLEAN, Relaunch(rememberMe)
  PROVE  IInv'
<1>1. /\ account' = [account EXCEPT !.rememberMe = rememberMe]
      /\ feed' = NewFeed /\ composer' = Closed /\ profile' = Closed
      /\ isInDeleteMode' = FALSE /\ prompt' = Closed /\ alert' = Closed
      /\ queries' = <<>> /\ answers' = <<>>
      /\ counting' = 0 /\ counted' = <<>>
      /\ crash' = ""
      /\ UNCHANGED feels
  BY DEF Relaunch
<1>2. /\ account' \in Accounts
      /\ account'.trashcans = account.trashcans
      /\ account'.trashcanCount = account.trashcanCount
      /\ account'.feelsCount = account.feelsCount
  BY <1>1 DEF IInv, TypeOK, Accounts
<1>3. NewFeed \in Feeds /\ NewFeed.trashcanCount = Len(NewFeed.trashcanList)
  BY DEF NewFeed, Feeds
<1>4. /\ counting' \in Nat /\ counted' \in Seq(Nat) /\ Len(counted') = 0 /\ DOMAIN counted' = {}
      /\ queries' \in Seq(Deletions) /\ Len(queries') = 0 /\ DOMAIN queries' = {}
      /\ answers' \in Seq(Deletions) /\ Len(answers') = 0 /\ DOMAIN answers' = {}
  BY <1>1, EmptyElements
<1>5. /\ TypeOK' /\ CountsMatchLists'
      /\ DocumentFollowsProfile' /\ ProfileSound' /\ CellsSound'
  <2>1. TypeOK'
    BY <1>1, <1>2, <1>3, <1>4 DEF IInv, TypeOK
  <2>2. CountsMatchLists'
    BY <1>1, <1>2, <1>3 DEF IInv, CountsMatchLists, CountIsLength
  <2>3. DocumentFollowsProfile' /\ ProfileSound' /\ CellsSound'
    BY <1>1 DEF DocumentFollowsProfile, ProfileSound, CellsSound
  <2> QED
    BY <2>1, <2>2, <2>3
<1>6. CountsAccounted'
  <2>1. Dumped' = Dumped
    BY <1>1 DEF Dumped
  <2>2. account.feelsCount <= Cardinality(Dumped)
    BY Types, DumpedFinite DEF IInv, CountsAccounted
  <2>3. account.feelsCount \in Nat
    BY Types
  <2>4. counting' = 0
    BY <1>1
  <2> QED
    BY <1>2, <1>4, <2>1, <2>2, <2>3, <2>4 DEF CountsAccounted
<1>7. FeelsSound'
  BY <1>1, <1>4 DEF IInv, FeelsSound
<1>8. InFlightSound'
  <2>1. UnderWay' <= MaxInFlight
    <3>1. UnderWay' = 0 + 0 + 0
      BY <1>1, <1>4 DEF UnderWay
    <3> QED
      BY <3>1, TrashcansAssumption
  <2>2. alert' = Closed /\ DOMAIN queries' = {} /\ DOMAIN answers' = {}
    BY <1>1, <1>4
  <2> QED
    BY <2>1, <2>2 DEF InFlightSound
<1> QED
  BY <1>5, <1>6, <1>7, <1>8 DEF IInv

-----------------------------------------------------------------------------
(* The invariant holds in every behaviour. *)

LEMMA InitIInv == Init => IInv
<1> SUFFICES ASSUME Init
             PROVE  IInv
  OBVIOUS
<1>1. /\ account \in Accounts
      /\ account.trashcanCount = 1
      /\ account.trashcans = <<MixedEmotions>>
      /\ account.feelsCount = 0
  <2>1. <<MixedEmotions>> \in Seq(Names)
    BY TrashcansAssumption
  <2>2. PICK rememberMe \in BOOLEAN :
           account = [trashcans |-> <<MixedEmotions>>, trashcanCount |-> 1, feelsCount |-> 0,
                      rememberMe |-> rememberMe]
    BY DEF Init
  <2> QED
    BY <2>1, <2>2 DEF Accounts
<1>2. feels \in [Feels -> [state : FeelsStates, trashcan : Names]]
  BY TrashcansAssumption DEF Init, FeelsStates
<1>3. NewFeed \in Feeds /\ NewFeed.trashcanCount = Len(NewFeed.trashcanList)
  BY DEF NewFeed, Feeds
<1>0. /\ counting = 0 /\ counted \in Seq(Nat) /\ Len(counted) = 0 /\ DOMAIN counted = {}
      /\ queries \in Seq(Deletions) /\ Len(queries) = 0 /\ DOMAIN queries = {}
      /\ answers \in Seq(Deletions) /\ Len(answers) = 0 /\ DOMAIN answers = {}
  BY EmptyElements DEF Init
<1>4. TypeOK
  <2>1. /\ feed = NewFeed /\ composer = Closed /\ profile = Closed
        /\ isInDeleteMode = FALSE /\ prompt = Closed /\ alert = Closed /\ crash = ""
    BY DEF Init
  <2> QED
    BY <1>0, <1>1, <1>2, <1>3, <2>1 DEF TypeOK
<1>5. CountsMatchLists
  BY <1>1, <1>3 DEF Init, CountsMatchLists, CountIsLength
<1>6. DocumentFollowsProfile /\ ProfileSound /\ CellsSound
  BY DEF Init, DocumentFollowsProfile, ProfileSound, CellsSound
<1>7. CountsAccounted
  <2>1. 0 <= Cardinality(Dumped)
    BY DumpedFinite
  <2> QED
    BY <1>0, <1>1, <2>1 DEF CountsAccounted
<1>8. FeelsSound
  <2>1. Foreign \subseteq Feels
    BY TrashcansAssumption
  <2>2. \A f \in Foreign : feels[f].state = "live"
    BY <2>1 DEF Init
  <2> QED
    BY <1>0, <2>2 DEF FeelsSound
<1>9. InFlightSound
  <2>1. UnderWay = 0 + 0 + 0 /\ alert = Closed
    BY <1>0 DEF UnderWay, Init
  <2> QED
    BY <1>0, <2>1, TrashcansAssumption DEF InFlightSound
<1> QED
  BY <1>4, <1>5, <1>6, <1>7, <1>8, <1>9 DEF IInv

LEMMA NextIInv == IInv /\ [Next]_vars => IInv'
<1> SUFFICES ASSUME IInv, [Next]_vars
             PROVE  IInv'
  OBVIOUS
<1>1. CASE UserDataHeard
  BY <1>1, UserDataHeardStep
<1>2. CASE TrashcanListFetched
  BY <1>2, TrashcanListFetchedStep
<1>3. CASE TapTab
  BY <1>3, TapTabStep
<1>4. CASE OpenComposer
  BY <1>4, OpenComposerStep
<1>5. ASSUME NEW row \in 1 .. MaxTrashcans, PickTrashcan(row)
      PROVE  IInv'
  BY <1>5, PickTrashcanStep
<1>6. ASSUME NEW f \in Feels, DumpFeels(f)
      PROVE  IInv'
  BY <1>6, DumpFeelsStep
<1>7. CASE LeaveComposer
  BY <1>7, LeaveComposerStep
<1>8. CASE CountRead
  BY <1>8, CountReadStep
<1>9. CASE CountWritten
  BY <1>9, CountWrittenStep
<1>10. CASE ToggleDeleteMode \/ TapAddTrashcan \/ CancelPrompt \/ CancelDelete
  BY <1>10, DialogueStep
<1>11. ASSUME NEW name \in Names, CreateTrashcan(name)
       PROVE  IInv'
  BY <1>11, CreateTrashcanStep
<1>12. ASSUME NEW i \in 1 .. MaxTrashcans, TapTrashcan(i)
       PROVE  IInv'
  BY <1>12, TapTrashcanStep
<1>18. CASE ConfirmDelete
  BY <1>18, ConfirmDeleteStep
<1>13. CASE QueryAnswered
  BY <1>13, QueryAnsweredStep
<1>14. CASE QueryFailed
  BY <1>14, QueryFailedStep
<1>15. CASE FinishDelete
  BY <1>15, FinishDeleteStep
<1>16. ASSUME NEW rememberMe \in BOOLEAN, Relaunch(rememberMe)
       PROVE  IInv'
  BY <1>16, RelaunchStep
<1>17. CASE UNCHANGED vars
  <2>1. TypeOK' /\ CountsMatchLists'
    BY <1>17 DEF vars, IInv, TypeOK, CountsMatchLists, CountIsLength
  <2>2. DocumentFollowsProfile' /\ ProfileSound'
    BY <1>17 DEF vars, IInv, DocumentFollowsProfile, ProfileSound, Running
  <2>3. CountsAccounted' /\ FeelsSound' /\ InFlightSound' /\ CellsSound'
    BY <1>17, CountsKept, FeelsKept, InFlightKept, CellsKept DEF vars, deleting
  <2> QED
    BY <2>1, <2>2, <2>3 DEF IInv
<1> QED
  BY <1>1, <1>2, <1>3, <1>4, <1>5, <1>6, <1>7, <1>8, <1>9, <1>10, <1>11, <1>12, <1>13, <1>14,
     <1>15, <1>16, <1>17, <1>18 DEF Next

\* The inductive invariant is an invariant.
THEOREM Invariance == Spec => []IInv
<1>1. Init => IInv
  BY InitIInv
<1>2. IInv /\ [Next]_vars => IInv'
  BY NextIInv
<1> QED
  BY <1>1, <1>2, PTL DEF Spec

-----------------------------------------------------------------------------
(* What follows. *)

\* Type correctness of the document, the copies and the queues.
THEOREM TypeCorrect == Spec => []TypeOK
<1>1. IInv => TypeOK
  BY DEF IInv
<1> QED
  BY <1>1, Invariance, PTL

\* Rows and cells are counted by as much as there is to fill them with, in
\* every copy of the list, for any number of trashcans.
THEOREM CountsAlwaysMatchLists == Spec => []CountsMatchLists
<1>1. IInv => CountsMatchLists
  BY DEF IInv
<1> QED
  BY <1>1, Invariance, PTL

\* The profile's copy of the list, never refreshed, is the document's.
THEOREM DocumentAlwaysFollowsProfile == Spec => []DocumentFollowsProfile
<1>1. IInv => DocumentFollowsProfile
  BY DEF IInv
<1> QED
  BY <1>1, Invariance, PTL

\* However many counts are being read and written at once, no feels is counted
\* twice.
THEOREM CountsAreDumps == Spec => []CountedFeelsWereDumped
<1>1. IInv => CountedFeelsWereDumped
  <2> SUFFICES ASSUME IInv
               PROVE  account.feelsCount <= Cardinality(Dumped)
    BY DEF CountedFeelsWereDumped, Dumped
  <2>1. /\ account.feelsCount \in Nat /\ counting \in Nat /\ Len(counted) \in Nat
        /\ Cardinality(Dumped) \in Nat
    BY Types, DumpedFinite
  <2>2. account.feelsCount + counting + Len(counted) <= Cardinality(Dumped)
    BY DEF IInv, CountsAccounted
  <2> QED
    BY <2>1, <2>2
<1> QED
  BY <1>1, Invariance, PTL

\* Nor does a late write take back what an earlier one counted.
THEOREM FeelsCountMonotonic == Spec => FeelsCountNeverDrops
<1>1. ASSUME IInv, [Next]_vars
      PROVE  [account'.feelsCount >= account.feelsCount]_vars
  <2>0. account.feelsCount \in Nat
    BY <1>1, Types
  <2>1. CASE CountWritten
    BY <1>1, <2>1, CountWrittenStep
  <2>2. ASSUME NEW name \in Names, CreateTrashcan(name)
        PROVE  account'.feelsCount = account.feelsCount
    <3>1. CASE ~profile.known
      BY <2>2, <3>1 DEF CreateTrashcan
    <3>2. CASE profile.known
      <4>1. Added(name) /\ Running /\ prompt # Closed /\ profile # Closed
        BY <1>1, <2>2, <3>2 DEF CreateTrashcan, IInv, ProfileSound
      <4>2. account' = [account EXCEPT !.trashcans = Append(profile.trashcans, name),
                                       !.trashcanCount = profile.trashcanCount + 1]
        BY <1>1, <4>1, AddedProfile
      <4>3. account \in Accounts
        BY <1>1 DEF IInv, TypeOK
      <4> QED
        BY <4>2, <4>3 DEF Accounts
    <3> QED
      BY <3>1, <3>2
  <2>3. CASE FinishDelete
    <3>1. PICK d : d = Head(answers)
      OBVIOUS
    <3>2. CASE profile.known /\ d.item \in DOMAIN profile.trashcans
      <4>1. account'.feelsCount = account.feelsCount
        BY <1>1, <2>3, <3>1, <3>2, FinishDeleteEffect
      <4> QED
        BY <2>0, <4>1
    <3>3. CASE ~(profile.known /\ d.item \in DOMAIN profile.trashcans)
      BY <2>0, <2>3, <3>1, <3>3 DEF FinishDelete, store
    <3> QED
      BY <3>2, <3>3
  <2>4. ASSUME NEW rememberMe \in BOOLEAN, Relaunch(rememberMe)
        PROVE  account'.feelsCount = account.feelsCount
    BY <1>1, <2>4 DEF Relaunch, IInv, TypeOK, Accounts
  <2>5. \/ UNCHANGED account
        \/ CountWritten
        \/ \E name \in Names : CreateTrashcan(name)
        \/ FinishDelete
        \/ \E rememberMe \in BOOLEAN : Relaunch(rememberMe)
    BY <1>1 DEF Next, vars, UserDataHeard, TrashcanListFetched, TapTab, OpenComposer, PickTrashcan,
       DumpFeels, LeaveComposer, CountRead, ToggleDeleteMode, TapAddTrashcan, CancelPrompt,
       TapTrashcan, CancelDelete, ConfirmDelete, QueryAnswered, QueryFailed, store
  <2> QED
    BY <2>0, <2>1, <2>2, <2>3, <2>4, <2>5
<1> QED
  BY <1>1, Invariance, PTL DEF Spec, FeelsCountNeverDrops

\* Only a cell put where the add button was, and no longer is, makes the
\* collection differ from the list and the add button after it.
THEOREM CellsKeepFollowing == Spec => CellsFollowList
<1>1. ASSUME IInv, [Next]_vars, profile # Closed, profile' # Closed, CellsRight(profile), crash' = ""
      PROVE  \/ CellsRight(profile')
             \/ prompt # Closed /\ prompt # AddTrashcanCell /\ prompt' = Closed
  <2> DEFINE S == Names \cup {AddButton}
  <2>0. /\ profile \in Profiles
        /\ profile.trashcans \in Seq(Names)
        /\ profile.trashcans \in Seq(S)
        /\ AddButton \in S
        /\ Len(profile.trashcans) \in Nat
        /\ DOMAIN profile.trashcans = 1 .. Len(profile.trashcans)
        /\ profile.trashcanCount = Len(profile.trashcans)
        /\ profile.cells = Append(profile.trashcans, AddButton)
    <3>1. profile.trashcans \in Seq(Names)
      BY <1>1, ProfileTypes
    <3>2. profile.trashcans \in Seq(S)
      BY <3>1
    <3> QED
      BY <1>1, <3>2, ProfileTypes DEF CellsRight
  <2>1. ASSUME NEW name \in Names, CreateTrashcan(name)
        PROVE  \/ CellsRight(profile')
               \/ prompt # Closed /\ prompt # AddTrashcanCell /\ prompt' = Closed
    <3>1. /\ prompt # Closed
          /\ prompt' = Closed
          /\ Running
          /\ Added(name)
      BY <1>1, <2>1 DEF CreateTrashcan
    <3>2. /\ profile'.trashcans = Append(profile.trashcans, name)
          /\ \E cell \in S : /\ profile'.cells = InsertAt(profile.cells, prompt, cell)
                             /\ prompt = AddTrashcanCell => cell = name
      BY <1>1, <3>1, AddedProfile
    <3>3. CASE prompt = AddTrashcanCell
      <4>1. profile'.cells = InsertAt(Append(profile.trashcans, AddButton),
                                      Len(profile.trashcans) + 1, name)
        BY <2>0, <3>2, <3>3 DEF AddTrashcanCell
      <4>2. profile'.cells = Append(Append(profile.trashcans, name), AddButton)
        <5>1. name \in S /\ profile.trashcans \in Seq(S) /\ AddButton \in S
          BY <2>0
        <5> HIDE DEF S
        <5> QED
          BY <4>1, <5>1, InsertBeforeLast
      <4> QED
        BY <3>2, <4>2 DEF CellsRight
    <3> QED
      BY <3>1, <3>3
  <2>2. CASE FinishDelete
    <3>1. PICK d : d = Head(answers)
      OBVIOUS
    <3>2. profile.known /\ d.item \in DOMAIN profile.trashcans
      BY <1>1, <2>2, <3>1 DEF FinishDelete
    <3>3. /\ d.item \in 1 .. Len(profile.trashcans)
          /\ profile'.trashcans = RemoveAt(profile.trashcans, d.item)
          /\ profile'.cells = RemoveAt(profile.cells, d.item)
      BY <1>1, <2>2, <3>1, <3>2, FinishDeleteEffect
    <3>4. profile'.cells = Append(RemoveAt(profile.trashcans, d.item), AddButton)
      BY <2>0, <3>3, RemoveBeforeLast
    <3> QED
      BY <3>3, <3>4 DEF CellsRight
  <2>3. CASE TapTab
    <3>1. profile' = [profile EXCEPT !.known = feed.known]
      BY <1>1, <2>3 DEF TapTab
    <3>2. profile'.cells = profile.cells /\ profile'.trashcans = profile.trashcans
      BY <2>0, <3>1 DEF Profiles
    <3> QED
      BY <1>1, <3>2 DEF CellsRight
  <2>4. ASSUME NEW rememberMe \in BOOLEAN, Relaunch(rememberMe)
        PROVE  FALSE
    BY <1>1, <2>4 DEF Relaunch
  <2>5. CASE UNCHANGED profile
    BY <1>1, <2>5
  <2>6. \/ UNCHANGED profile
        \/ \E name \in Names : CreateTrashcan(name)
        \/ FinishDelete
        \/ TapTab
        \/ \E rememberMe \in BOOLEAN : Relaunch(rememberMe)
    BY <1>1 DEF Next, vars, UserDataHeard, TrashcanListFetched, OpenComposer, PickTrashcan,
       DumpFeels, LeaveComposer, CountRead, CountWritten, ToggleDeleteMode, TapAddTrashcan,
       CancelPrompt, TapTrashcan, CancelDelete, ConfirmDelete, QueryAnswered, QueryFailed
  <2> QED
    BY <2>1, <2>2, <2>3, <2>4, <2>5, <2>6
<1> QED
  BY <1>1, Invariance, PTL DEF Spec, CellsFollowList

\* A deletion leaves the queue only by its completion.
LEMMA OnlyFinishDeleteAnswers ==
  ASSUME IInv, [Next]_vars, answers # <<>>, Tail(answers) = answers', profile' # Closed
  PROVE  FinishDelete
<1>1. answers' # answers
  <2>1. Len(Tail(answers)) = Len(answers) - 1 /\ Len(answers) \in Nat
    BY Types, TailElements
  <2> QED
    BY <2>1
<1>2. ~QueryAnswered
  <2> SUFFICES ASSUME QueryAnswered
               PROVE  FALSE
    OBVIOUS
  <2>1. PICK d : /\ answers' = Append(answers, d)
                 /\ d = [Head(queries) EXCEPT !.found = Live]
                 /\ queries # <<>>
    BY DEF QueryAnswered
  <2>2. d \in Deletions
    <3>1. Head(queries) \in Deletions
      BY <2>1, Types, TailElements
    <3>2. Live \in SUBSET Feels
      BY DEF Live
    <3> QED
      BY <2>1, <3>1, <3>2 DEF Deletions
  <2>3. Len(answers') = Len(answers) + 1
    BY <2>1, <2>2, Types, AppendElements
  <2>4. Len(Tail(answers)) = Len(answers) - 1 /\ Len(answers) \in Nat
    BY Types, TailElements
  <2> QED
    BY <2>3, <2>4
<1>3. \A rememberMe \in BOOLEAN : ~Relaunch(rememberMe)
  BY DEF Relaunch
<1> QED
  BY <1>1, <1>2, <1>3 DEF Next, vars, UserDataHeard, TrashcanListFetched, TapTab, OpenComposer,
     PickTrashcan, DumpFeels, LeaveComposer, CountRead, CountWritten, ToggleDeleteMode,
     TapAddTrashcan, CancelPrompt, CreateTrashcan, TapTrashcan, CancelDelete, ConfirmDelete,
     QueryFailed, deleting

\* With one deletion at a time, the trashcan at the item is the one whose name
\* was tapped, and what was in it when that was confirmed is still there and is
\* found.
LEMMA CompletionMeant ==
  ASSUME MaxInFlight = 1, IInv, [Next]_vars, Completed, NEW d, d = Head(answers)
  PROVE  /\ FinishDelete
         /\ d \in Deletions
         /\ profile.known /\ d.item \in DOMAIN profile.trashcans
         /\ d.name # AddButton => profile.trashcans[d.item] = d.name
         /\ d.had \subseteq LiveIn(d.name)
         /\ d.had \subseteq d.found
<1>1. FinishDelete /\ crash' = "" /\ answers # <<>>
  BY OnlyFinishDeleteAnswers DEF Completed
<1>2. profile.known /\ d.item \in DOMAIN profile.trashcans
  BY <1>1 DEF FinishDelete
<1>3. 1 \in DOMAIN answers /\ d = answers[1] /\ d \in Deletions
  BY <1>1, Types, TailElements
<1>4. StillMeant(answers[1]) /\ answers[1].had \subseteq answers[1].found
  BY <1>3 DEF IInv, InFlightSound
<1> QED
  BY <1>1, <1>2, <1>3, <1>4 DEF StillMeant, TapMeant

\* The name on the cell that was tapped is the trashcan that goes, with the
\* user's feels in it and no others, for any number of trashcans and feels,
\* while he waits for one deletion before he taps for the next: though between
\* tap and completion only the place in the list is kept.
THEOREM DeletionsAsTapped == MaxInFlight = 1 => (Spec => DeletesWhatWasTapped)
<1> SUFFICES ASSUME MaxInFlight = 1
             PROVE  Spec => DeletesWhatWasTapped
  OBVIOUS
<1>1. ASSUME IInv, [Next]_vars, Completed, Head(answers).name # AddButton
      PROVE  LET d == Head(answers)
             IN  /\ \A f \in Deleted : Mine(f) /\ feels[f].trashcan = d.name
                 /\ profile'.trashcans = RemoveAt(profile.trashcans, d.item)
                 /\ profile.trashcans[d.item] = d.name
  <2>1. PICK d : d = Head(answers)
    OBVIOUS
  <2>2. /\ FinishDelete
        /\ profile.known /\ d.item \in DOMAIN profile.trashcans
        /\ profile.trashcans[d.item] = d.name
    BY <1>1, <2>1, CompletionMeant
  <2>3. /\ \A f \in Feels \ FeelsToRemove(d) : feels'[f] = feels[f]
        /\ profile'.trashcans = RemoveAt(profile.trashcans, d.item)
    BY <1>1, <2>1, <2>2, FinishDeleteEffect
  <2>4. \A f \in Deleted : f \in FeelsToRemove(d)
    BY <2>3 DEF Deleted, Live
  <2> QED
    BY <2>1, <2>2, <2>3, <2>4 DEF FeelsToRemove
<1> QED
  BY <1>1, Invariance, PTL DEF Spec, DeletesWhatWasTapped

\* And all of it: nothing that was in the trashcan when the user confirmed is
\* left behind.
THEOREM DeletionsComplete == MaxInFlight = 1 => (Spec => TappedFeelsAreDeleted)
<1> SUFFICES ASSUME MaxInFlight = 1
             PROVE  Spec => TappedFeelsAreDeleted
  OBVIOUS
<1>1. ASSUME IInv, [Next]_vars, Completed
      PROVE  \A f \in Head(answers).had : feels'[f].state = "deleted"
  <2>1. PICK d : d = Head(answers)
    OBVIOUS
  <2>2. /\ FinishDelete
        /\ profile.known /\ d.item \in DOMAIN profile.trashcans
        /\ d.name # AddButton => profile.trashcans[d.item] = d.name
        /\ d.had \subseteq LiveIn(d.name)
        /\ d.had \subseteq d.found
    BY <1>1, <2>1, CompletionMeant
  <2>3. \A f \in FeelsToRemove(d) : feels'[f].state = "deleted"
    BY <1>1, <2>1, <2>2, FinishDeleteEffect
  <2>4. CASE d.name # AddButton
    <3>1. d.had \subseteq FeelsToRemove(d)
      BY <2>2, <2>4 DEF LiveIn, FeelsToRemove
    <3> QED
      BY <2>1, <2>3, <3>1
  <2>5. CASE d.name = AddButton
    <3>1. \A f \in Feels : feels[f].trashcan \in Names
      BY <1>1 DEF IInv, TypeOK
    <3>2. LiveIn(AddButton) = {}
      BY <3>1, ButtonAssumption DEF LiveIn, Live
    <3> QED
      BY <2>1, <2>2, <2>5, <3>2
  <2> QED
    BY <2>4, <2>5
<1> QED
  BY <1>1, Invariance, PTL DEF Spec, TappedFeelsAreDeleted
=============================================================================

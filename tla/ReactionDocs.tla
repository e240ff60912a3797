---------------------------- MODULE ReactionDocs ----------------------------
(***************************************************************************)
(* The documents of the "reactions" collection and the conversions the app *)
(* applies to them: React.dictionary / Reactions.dictionary on the way to  *)
(* Firestore and the loop in FeedViewController.cellForRowAt on the way    *)
(* back.                                                                   *)
(*                                                                         *)
(* A document holds one react per slot ("react0", "react1", ...).  Which   *)
(* react sits in which slot is not fixed: NewFeelsViewController writes    *)
(* them in the order of its array, ReactCell.updateReact in the iteration  *)
(* order of a Swift dictionary, which is arbitrary.                        *)
(*                                                                         *)
(* A userIdList is only ever searched, appended to and purged of one id,   *)
(* so its order is left out: it is the number of entries each user has.    *)
(***************************************************************************)
EXTENDS Integers, FiniteSets, Functions

CONSTANTS
  Users,   \* ids of Firebase users
  Reacts,  \* "Happy", "Tease", "Crying", "Bored", "Angry"
  Slots    \* "react0" .. "react4"

\* One-to-one ways to lay the reacts out in the slots.
Layouts == Bijection(Slots, Reacts)

ASSUME ReactionDocsAssumption ==
  /\ IsFiniteSet(Users)
  /\ Layouts # {}   \* there are as many slots as reacts

UserIdLists == [Users -> Nat]

EmptyList == [u \in Users |-> 0]

Contains(ids, u) == ids[u] > 0

Voters(ids) == {u \in Users : Contains(ids, u)}

\* struct React
ReactRecords == [reactName : Reacts, reactCount : Int, userIdList : UserIdLists]

\* the field "reactions" of struct Reactions
Documents == [Slots -> ReactRecords]

\* One diff of a snapshot, or one element of reactionsArray: struct Reactions.
Reactions(FeelsIds) == [feelsId : FeelsIds, reactions : Documents]

\* What updateReact builds from the dictionaries of a cell: slot s receives
\* the react that the iteration order l puts there.
Serialise(reactCount, userIdList, l) ==
  [s \in Slots |-> [reactName  |-> l[s],
                    reactCount |-> reactCount[l[s]],
                    userIdList |-> userIdList[l[s]]]]

\* The record a document keeps for one react, wherever its slot is.
ReactNamed(doc, r) == doc[CHOOSE s \in Slots : doc[s].reactName = r]

\* Variant: clearReactData leaves the entry stored before the name was read.
ParsedCountUncleared(doc) ==
  [r \in Reacts \cup {""} |-> IF r = "" THEN 0 ELSE ReactNamed(doc, r).reactCount]

\* What cellForRowAt collects from a document: two dictionaries by name.
ParsedCount(doc)   == [r \in Reacts |-> ReactNamed(doc, r).reactCount]
ParsedUserIds(doc) == [r \in Reacts |-> ReactNamed(doc, r).userIdList]

\* The document NewFeelsViewController creates with every feels: nobody has
\* reacted, and the slots follow the fixed order of its array reactNames.
FreshDocument ==
  Serialise([r \in Reacts |-> 0], [r \in Reacts |-> EmptyList],
            CHOOSE l \in Layouts : TRUE)

-----------------------------------------------------------------------------
(* What makes the counts and lists of one feels consistent. *)

\* Every count is the number of users in the list beside it.
CountsMatch(reactCount, userIdList) ==
  \A r \in Reacts : reactCount[r] = Cardinality(Voters(userIdList[r]))

\* No user is listed twice, be it under one react or under two.
OneReactPerUser(userIdList) ==
  \A u \in Users, r \in Reacts :
     /\ userIdList[r][u] <= 1
     /\ Contains(userIdList[r], u) =>
           \A q \in Reacts \ {r} : ~Contains(userIdList[q], u)

\* Every react has exactly one slot.
WellLaidOut(doc) ==
  \A r \in Reacts :
     \E s \in Slots : /\ doc[s].reactName = r
                      /\ \A t \in Slots : doc[t].reactName = r => t = s

Consistent(doc) ==
  /\ WellLaidOut(doc)
  /\ CountsMatch(ParsedCount(doc), ParsedUserIds(doc))
  /\ OneReactPerUser(ParsedUserIds(doc))
=============================================================================

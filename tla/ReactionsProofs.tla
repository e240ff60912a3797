--------------------------- MODULE ReactionsProofs ---------------------------
(***************************************************************************)
(* Reactions documents, and the safety properties of Reactions, for any    *)
(* number of users, devices, feels, reacts and taps.                       *)
(***************************************************************************)
EXTENDS Reactions, SequenceTheorems, FiniteSetTheorems, TLAPS

-----------------------------------------------------------------------------
(* Facts about reactions documents: what the app writes it reads back, and *)
(* one press of a react button keeps counts and lists consistent.          *)

\* A react looked up by name is the record of the slot that has the name:
\* the parsing loop of cellForRowAt does not depend on the slot order.
LEMMA NamedSlot ==
  ASSUME NEW doc, WellLaidOut(doc), NEW s \in Slots, doc[s].reactName \in Reacts
  PROVE  ReactNamed(doc, doc[s].reactName) = doc[s]
<1> DEFINE r == doc[s].reactName
           t == CHOOSE t \in Slots : doc[t].reactName = r
<1>1. t \in Slots /\ doc[t].reactName = r
  OBVIOUS
<1>2. t = s
  BY <1>1 DEF WellLaidOut
<1> QED
  BY <1>2 DEF ReactNamed

\* A well laid out document has a record of the right type for every react.
LEMMA ParsedType ==
  ASSUME NEW doc \in Documents, WellLaidOut(doc)
  PROVE  /\ ParsedCount(doc) \in [Reacts -> Int]
         /\ ParsedUserIds(doc) \in [Reacts -> UserIdLists]
<1>1. ASSUME NEW r \in Reacts
      PROVE  ReactNamed(doc, r) \in ReactRecords
  <2>1. PICK s \in Slots : doc[s].reactName = r
    BY DEF WellLaidOut
  <2>2. ReactNamed(doc, r) = doc[s]
    BY <2>1, NamedSlot
  <2> QED
    BY <2>2 DEF Documents
<1> QED
  BY <1>1 DEF ParsedCount, ParsedUserIds, ReactRecords

\* What updateReact writes, cellForRowAt reads back, in whatever slot order
\* the dictionary of the writer happened to produce.
THEOREM SerialiseParses ==
  ASSUME NEW c \in [Reacts -> Int], NEW ids \in [Reacts -> UserIdLists],
         NEW l \in Layouts
  PROVE  LET doc == Serialise(c, ids, l)
         IN  /\ doc \in Documents
             /\ WellLaidOut(doc)
             /\ ParsedCount(doc) = c
             /\ ParsedUserIds(doc) = ids
<1> DEFINE doc == Serialise(c, ids, l)
<1>1. \A s \in Slots : /\ doc[s].reactName = l[s]
                       /\ doc[s].reactCount = c[l[s]]
                       /\ doc[s].userIdList = ids[l[s]]
  BY DEF Serialise
<1>2. doc \in Documents
  BY DEF Serialise, Layouts, Bijection, Injection, Surjection, IsInjective, Documents, ReactRecords
<1>3. WellLaidOut(doc)
  BY <1>1 DEF WellLaidOut, Layouts, Bijection, Injection, Surjection, IsInjective
<1>4. ASSUME NEW r \in Reacts
      PROVE  ReactNamed(doc, r).reactCount = c[r] /\ ReactNamed(doc, r).userIdList = ids[r]
  <2>1. PICK s \in Slots : l[s] = r
    BY DEF Layouts, Bijection, Injection, Surjection, IsInjective
  <2>2. ReactNamed(doc, r) = doc[s]
    BY <1>1, <1>3, <2>1, NamedSlot
  <2> QED
    BY <1>1, <2>1, <2>2
<1>5. ParsedCount(doc) = c
  BY <1>4 DEF ParsedCount
<1>6. ParsedUserIds(doc) = ids
  BY <1>4 DEF ParsedUserIds
<1> QED
  BY <1>2, <1>3, <1>5, <1>6

\* Nobody has reacted in the document created with the feels.
LEMMA FreshDocumentConsistent ==
  /\ FreshDocument \in Documents
  /\ Consistent(FreshDocument)
  /\ \A r \in Reacts : ParsedUserIds(FreshDocument)[r] = EmptyList
<1> DEFINE l == CHOOSE l \in Layouts : TRUE
           c == [r \in Reacts |-> 0]
           ids == [r \in Reacts |-> EmptyList]
<1>1. l \in Layouts
  BY ReactionDocsAssumption
<1>2. c \in [Reacts -> Int] /\ ids \in [Reacts -> UserIdLists]
  BY DEF EmptyList, UserIdLists
<1>3. FreshDocument = Serialise(c, ids, l)
  BY DEF FreshDocument
<1>4. /\ FreshDocument \in Documents
      /\ WellLaidOut(FreshDocument)
      /\ ParsedCount(FreshDocument) = c
      /\ ParsedUserIds(FreshDocument) = ids
  <2> HIDE DEF c, ids, l
  <2> QED BY <1>1, <1>2, <1>3, SerialiseParses
<1>5. \A r \in Reacts : Voters(ids[r]) = {}
  BY DEF Voters, Contains, EmptyList
<1>6. CountsMatch(c, ids)
  BY <1>5, FS_EmptySet DEF CountsMatch
<1>7. OneReactPerUser(ids)
  BY DEF OneReactPerUser, Contains, EmptyList
<1> QED
  BY <1>4, <1>6, <1>7 DEF Consistent

-----------------------------------------------------------------------------
\* Appending a user to a list without him adds one voter.
LEMMA AppendAddsVoter ==
  ASSUME NEW ids \in UserIdLists, NEW u \in Users, ~Contains(ids, u)
  PROVE  LET new == [ids EXCEPT ![u] = @ + 1]
         IN  /\ new \in UserIdLists
             /\ new[u] = 1
             /\ \A v \in Users \ {u} : new[v] = ids[v]
             /\ Voters(new) = Voters(ids) \cup {u}
             /\ Cardinality(Voters(new)) = Cardinality(Voters(ids)) + 1
<1> DEFINE new == [ids EXCEPT ![u] = @ + 1]
<1>1. ids[u] = 0
  BY DEF UserIdLists, Contains
<1>2. new \in UserIdLists /\ new[u] = 1 /\ \A v \in Users \ {u} : new[v] = ids[v]
  BY <1>1 DEF UserIdLists
<1>3. Voters(new) = Voters(ids) \cup {u}
  BY <1>2 DEF Voters, Contains
<1>4. IsFiniteSet(Voters(ids))
  BY ReactionDocsAssumption, FS_Subset DEF Voters
<1>5. u \notin Voters(ids)
  BY DEF Voters
<1>6. Cardinality(Voters(new)) = Cardinality(Voters(ids)) + 1
  <2> HIDE DEF new
  <2> QED BY <1>3, <1>4, <1>5, FS_AddElement
<1> QED
  BY <1>2, <1>3, <1>6

\* Purging a list of a user it contains removes one voter.
LEMMA PurgeRemovesVoter ==
  ASSUME NEW ids \in UserIdLists, NEW u \in Users, Contains(ids, u)
  PROVE  LET new == [ids EXCEPT ![u] = 0]
         IN  /\ new \in UserIdLists
             /\ new[u] = 0
             /\ \A v \in Users \ {u} : new[v] = ids[v]
             /\ Voters(new) = Voters(ids) \ {u}
             /\ Cardinality(Voters(new)) = Cardinality(Voters(ids)) - 1
<1> DEFINE new == [ids EXCEPT ![u] = 0]
<1>1. new \in UserIdLists /\ new[u] = 0 /\ \A v \in Users \ {u} : new[v] = ids[v]
  BY DEF UserIdLists
<1>2. Voters(new) = Voters(ids) \ {u}
  BY <1>1 DEF Voters, Contains
<1>3. IsFiniteSet(Voters(ids))
  BY ReactionDocsAssumption, FS_Subset DEF Voters
<1>4. u \in Voters(ids)
  BY DEF Voters
<1>5. Cardinality(Voters(new)) = Cardinality(Voters(ids)) - 1
  <2> HIDE DEF new
  <2> QED BY <1>2, <1>3, <1>4, FS_RemoveElement
<1> QED
  BY <1>1, <1>2, <1>5

-----------------------------------------------------------------------------
(* Predicates of the proofs. *)

\* The highlighted buttons agree with the lists of a cell.
Highlights(states, userIdList, u) ==
  \A r \in Reacts : states[r] <=> Contains(userIdList[r], u)

AtMostOne(states) == \A q, r \in Reacts : states[q] /\ states[r] => q = r

\* The dictionaries of a cell are in step.
GoodCell(c) == CountsMatch(c.reactCount, c.userIdList) /\ OneReactPerUser(c.userIdList)

-----------------------------------------------------------------------------
(* Lemmas about the operators of ReactCell. *)

\* Whatever a reused cell showed before, it comes out of checkUserReact with
\* exactly the signed-in user's react highlighted.
LEMMA CheckUserReactHighlights ==
  ASSUME NEW before \in ReactStates, AtMostOne(before),
         NEW ids \in [Reacts -> UserIdLists], OneReactPerUser(ids),
         NEW u \in Users,
         NEW states \in CheckUserReact(before, ids, u)
  PROVE  /\ states \in ReactStates
         /\ Highlights(states, ids, u)
         /\ AtMostOne(states)
<1> DEFINE own == {r \in Reacts : Contains(ids[r], u)}
<1>1. CASE own = {}
  <2>1. states = NoReactStates
    BY <1>1 DEF CheckUserReact
  <2> QED
    BY <1>1, <2>1 DEF NoReactStates, ReactStates, Highlights, AtMostOne
<1>2. CASE own # {}
  <2>1. PICK r \in own : \/ states = [q \in Reacts |-> q = r]
                         \/ states = before /\ before[r]
    BY <1>2 DEF CheckUserReact
  <2>2. \A q \in Reacts : Contains(ids[q], u) <=> q = r
    BY <2>1 DEF OneReactPerUser
  <2>3. states \in ReactStates /\ \A q \in Reacts : states[q] <=> q = r
    <3>1. CASE states = [q \in Reacts |-> q = r]
      BY <3>1 DEF ReactStates
    <3>2. CASE states = before /\ before[r]
      BY <3>2, <2>1 DEF AtMostOne, ReactStates
    <3> QED
      BY <2>1, <3>1, <3>2
  <2> QED
    BY <2>2, <2>3 DEF Highlights, AtMostOne
<1> QED
  BY <1>1, <1>2

\* Pressing a button that is not highlighted keeps counts and lists in step
\* and moves the user's one entry to the pressed react.
LEMMA PressedGood ==
  ASSUME NEW c \in Cells, GoodCell(c), NEW u \in Users, NEW r \in Reacts,
         Highlights(c.reactStates, c.userIdList, u), ~c.reactStates[r]
  PROVE  /\ Pressed(c, r, u) \in Cells
         /\ Pressed(c, r, u).feelsId = c.feelsId
         /\ GoodCell(Pressed(c, r, u))
         /\ Highlights(Pressed(c, r, u).reactStates, Pressed(c, r, u).userIdList, u)
         /\ AtMostOne(Pressed(c, r, u).reactStates)
         /\ \A v \in Users \ {u}, q \in Reacts :
              Contains(Pressed(c, r, u).userIdList[q], v) <=> Contains(c.userIdList[q], v)
<1> DEFINE p == Pressed(c, r, u)
           others == {q \in Reacts \ {r} : c.reactStates[q]}
           added == [c.userIdList[r] EXCEPT ![u] = @ + 1]
           purged(q) == [c.userIdList[q] EXCEPT ![u] = 0]
<1>0. /\ c.userIdList \in [Reacts -> UserIdLists]
      /\ c.reactCount \in [Reacts -> Int]
      /\ c.reactStates \in ReactStates
      /\ c.feelsId \in Feels \cup {None}
  BY DEF Cells
<1>1. /\ p.userIdList[r] = added
      /\ p.reactCount[r] = c.reactCount[r] + 1
      /\ ~Contains(c.userIdList[r], u)
      /\ added \in UserIdLists
      /\ added[u] = 1
      /\ \A v \in Users \ {u} : added[v] = c.userIdList[r][v]
      /\ Cardinality(Voters(added)) = Cardinality(Voters(c.userIdList[r])) + 1
  <2>1. ~Contains(c.userIdList[r], u)
    BY DEF Highlights
  <2>2. c.userIdList[r] \in UserIdLists
    BY <1>0
  <2>3. p.userIdList[r] = added /\ p.reactCount[r] = c.reactCount[r] + 1
    BY DEF Pressed
  <2> QED
    BY <2>1, <2>2, <2>3, AppendAddsVoter
<1>2. ASSUME NEW q \in others
      PROVE  /\ p.userIdList[q] = purged(q)
             /\ p.reactCount[q] = c.reactCount[q] - 1
             /\ purged(q) \in UserIdLists
             /\ purged(q)[u] = 0
             /\ \A v \in Users \ {u} : purged(q)[v] = c.userIdList[q][v]
             /\ Cardinality(Voters(purged(q))) = Cardinality(Voters(c.userIdList[q])) - 1
  <2>1. Contains(c.userIdList[q], u)
    BY DEF Highlights
  <2>2. c.userIdList[q] \in UserIdLists
    BY <1>0
  <2>3. p.userIdList[q] = purged(q) /\ p.reactCount[q] = c.reactCount[q] - 1
    BY DEF Pressed
  <2>4. PICK ids \in UserIdLists : ids = c.userIdList[q]
    BY <2>2
  <2>5. PICK new : new = [ids EXCEPT ![u] = 0]
    OBVIOUS
  <2>6. /\ new \in UserIdLists /\ new[u] = 0
        /\ \A v \in Users \ {u} : new[v] = ids[v]
        /\ Cardinality(Voters(new)) = Cardinality(Voters(ids)) - 1
    BY <2>1, <2>4, <2>5, PurgeRemovesVoter
  <2> QED
    BY <2>3, <2>4, <2>5, <2>6
<1>3. ASSUME NEW q \in Reacts \ ({r} \cup others)
      PROVE  /\ p.userIdList[q] = c.userIdList[q]
             /\ p.reactCount[q] = c.reactCount[q]
             /\ ~Contains(c.userIdList[q], u)
  <2>1. p.userIdList[q] = c.userIdList[q] /\ p.reactCount[q] = c.reactCount[q]
    BY DEF Pressed
  <2>2. ~Contains(c.userIdList[q], u)
    BY DEF Highlights
  <2> QED
    BY <2>1, <2>2
<1>4. p.reactStates = [q \in Reacts |-> q = r] /\ p.feelsId = c.feelsId
  BY DEF Pressed
<1>5. /\ p.userIdList \in [Reacts -> UserIdLists]
      /\ p.reactCount \in [Reacts -> Int]
  <2>1. /\ p.userIdList = [q \in Reacts |-> p.userIdList[q]]
        /\ p.reactCount = [q \in Reacts |-> p.reactCount[q]]
    BY DEF Pressed
  <2>2. ASSUME NEW q \in Reacts
        PROVE  p.userIdList[q] \in UserIdLists /\ p.reactCount[q] \in Int
    <3> HIDE DEF p, added, purged
    <3>1. c.reactCount[q] \in Int /\ c.userIdList[q] \in UserIdLists
      BY <1>0
    <3>2. CASE q = r
      BY <1>1, <3>1, <3>2
    <3>3. CASE q \in others
      BY <1>2, <3>1, <3>3
    <3>4. CASE q \in Reacts \ ({r} \cup others)
      BY <1>3, <3>1, <3>4
    <3> QED
      BY <3>2, <3>3, <3>4
  <2> QED
    BY <2>1, <2>2
<1>6. p \in Cells
  <2>1. p.reactStates \in ReactStates
    BY <1>4 DEF ReactStates
  <2>2. p = [feelsId |-> p.feelsId, reactCount |-> p.reactCount,
             userIdList |-> p.userIdList, reactStates |-> p.reactStates]
    BY DEF Pressed
  <2> QED
    BY <1>0, <1>4, <1>5, <2>1, <2>2 DEF Cells
<1>7. /\ p.userIdList[r][u] = 1
      /\ \A q \in Reacts \ {r} : ~Contains(p.userIdList[q], u) /\ p.userIdList[q][u] <= 1
      /\ \A v \in Users \ {u}, q \in Reacts : p.userIdList[q][v] = c.userIdList[q][v]
  <2>1. ASSUME NEW q \in Reacts \ {r}
        PROVE  ~Contains(p.userIdList[q], u) /\ p.userIdList[q][u] <= 1
    <3>1. CASE q \in others
      <4> HIDE DEF p, purged
      <4> QED BY <1>2, <3>1 DEF Contains
    <3>2. CASE q \notin others
      <4>1. p.userIdList[q] \in [Users -> Nat]
        BY <1>5 DEF UserIdLists
      <4> HIDE DEF p
      <4> QED BY <1>3, <3>2, <4>1 DEF Contains
    <3> QED
      BY <3>1, <3>2
  <2>2. ASSUME NEW v \in Users \ {u}, NEW q \in Reacts
        PROVE  p.userIdList[q][v] = c.userIdList[q][v]
    <3> HIDE DEF p, purged, added
    <3>1. CASE q = r
      BY <1>1, <3>1
    <3>2. CASE q \in others
      BY <1>2, <3>2
    <3>3. CASE q \in Reacts \ ({r} \cup others)
      BY <1>3, <3>3
    <3> QED
      BY <3>1, <3>2, <3>3
  <2> QED
    BY <1>1, <2>1, <2>2
<1>8. Highlights(p.reactStates, p.userIdList, u) /\ AtMostOne(p.reactStates)
  <2>1. \A q \in Reacts : Contains(p.userIdList[q], u) <=> q = r
    BY <1>7 DEF Contains
  <2> QED
    BY <1>4, <2>1 DEF Highlights, AtMostOne
<1>9. \A v \in Users \ {u}, q \in Reacts :
        Contains(p.userIdList[q], v) <=> Contains(c.userIdList[q], v)
  BY <1>7 DEF Contains
<1>10. OneReactPerUser(p.userIdList)
  <2> HIDE DEF p
  <2> SUFFICES ASSUME NEW v \in Users, NEW q \in Reacts
      PROVE  /\ p.userIdList[q][v] <= 1
             /\ Contains(p.userIdList[q], v) =>
                   \A q2 \in Reacts \ {q} : ~Contains(p.userIdList[q2], v)
    BY DEF OneReactPerUser
  <2>1. CASE v = u
    BY <1>7, <2>1
  <2>2. CASE v # u
    BY <1>7, <1>9, <2>2 DEF GoodCell, OneReactPerUser
  <2> QED
    BY <2>1, <2>2
<1>11. CountsMatch(p.reactCount, p.userIdList)
  <2> SUFFICES ASSUME NEW q \in Reacts
               PROVE  p.reactCount[q] = Cardinality(Voters(p.userIdList[q]))
    BY DEF CountsMatch
  <2>1. c.reactCount[q] = Cardinality(Voters(c.userIdList[q]))
    BY DEF GoodCell, CountsMatch
  <2> HIDE DEF p, added, purged
  <2>2. CASE q = r
    BY <1>1, <2>1, <2>2
  <2>3. CASE q \in others
    BY <1>2, <2>1, <2>3
  <2>4. CASE q \in Reacts \ ({r} \cup others)
    BY <1>3, <2>1, <2>4
  <2> QED
    BY <2>2, <2>3, <2>4
<1> QED
  BY <1>4, <1>6, <1>8, <1>9, <1>10, <1>11 DEF GoodCell

-----------------------------------------------------------------------------
(* The inductive invariant. *)

\* What a cell lists, its users pressed.
CellAuthentic(c) ==
  \A v \in Users, r \in Reacts :
     Contains(c.userIdList[r], v) => c.feelsId # None /\ r \in pressed[v][c.feelsId]

GoodDevice(d) ==
  /\ GoodCell(cell[d])
  /\ CellAuthentic(cell[d])
  /\ cell[d].feelsId # None => Highlights(cell[d].reactStates, cell[d].userIdList, UserOf[d])
  /\ AtMostOne(cell[d].reactStates)
  /\ AtMostOne(spare[d])
  /\ open[d] # None => cell[d].feelsId # None

\* The properties of documents are kept by writing cells back, those of cells
\* by reading documents: they hold together or not at all.
IInv ==
  /\ TypeOK
  /\ DocumentsConsistent
  /\ VotesAuthentic
  /\ \A d \in Devices : GoodDevice(d)

\* The places a copy can be in.
IsCopy(c) ==
  \/ \E f \in Feels : c = [feelsId |-> f, reactions |-> server[f]]
  \/ \E d \in Devices, f \in Feels : c = [feelsId |-> f, reactions |-> view[d][f]]
  \/ \E d \in Devices, i \in Feels : c = reactionsArray[d][i]
  \/ \E d \in Devices : \E i \in DOMAIN pending[d] : c = pending[d][i]
  \/ \E d \in Devices : \E i \in DOMAIN raised[d] : c \in raised[d][i]

LEMMA CopyPlaces ==
  ASSUME NEW CONSTANT c
  PROVE  c \in Copies <=> IsCopy(c)
<1>1. c \in OnServer <=> \E f \in Feels : c = [feelsId |-> f, reactions |-> server[f]]
  BY DEF OnServer
<1>2. c \in InViews <=> \E d \in Devices, f \in Feels : c = [feelsId |-> f, reactions |-> view[d][f]]
  BY DEF InViews
<1>3. c \in InArrays <=> \E d \in Devices, i \in Feels : c = reactionsArray[d][i]
  BY DEF InArrays
<1>4. c \in InQueues <=> \E d \in Devices : \E i \in DOMAIN pending[d] : c = pending[d][i]
  BY DEF InQueues
<1>5. c \in InSnapshots <=> \E d \in Devices : \E i \in DOMAIN raised[d] : c \in raised[d][i]
  <2> DEFINE R(d) == UNION {raised[d][i] : i \in DOMAIN raised[d]}
  <2>1. \A d \in Devices : c \in R(d) <=> \E i \in DOMAIN raised[d] : c \in raised[d][i]
    OBVIOUS
  <2>2. c \in InSnapshots <=> \E d \in Devices : c \in R(d)
    BY DEF InSnapshots
  <2> HIDE DEF R
  <2> QED
    BY <2>1, <2>2
<1>6. c \in Copies <=> c \in OnServer \/ c \in InViews \/ c \in InArrays
                      \/ c \in InQueues \/ c \in InSnapshots
  BY DEF Copies
<1> QED
  BY <1>1, <1>2, <1>3, <1>4, <1>5, <1>6, Zenon DEF IsCopy

\* The same in the next state.
LEMMA NextCopyPlaces ==
  ASSUME NEW CONSTANT c
  PROVE  (c \in Copies)' <=> IsCopy(c)'
<1>1. c \in Copies <=> IsCopy(c)
  BY CopyPlaces
<1> QED
  BY <1>1, PTL

\* Every copy is a document of some feels.
LEMMA CopiesType ==
  ASSUME TypeOK, NEW c \in Copies
  PROVE  c \in Reactions(Feels)
<1>1. CASE \E f \in Feels : c = [feelsId |-> f, reactions |-> server[f]]
  BY <1>1 DEF TypeOK, Reactions
<1>2. CASE \E d \in Devices, f \in Feels : c = [feelsId |-> f, reactions |-> view[d][f]]
  BY <1>2 DEF TypeOK, Reactions
<1>3. CASE \E d \in Devices, i \in Feels : c = reactionsArray[d][i]
  BY <1>3 DEF TypeOK
<1>4. CASE \E d \in Devices : \E i \in DOMAIN pending[d] : c = pending[d][i]
  BY <1>4, ElementOfSeq DEF TypeOK
<1>5. CASE \E d \in Devices : \E i \in DOMAIN raised[d] : c \in raised[d][i]
  <2>1. PICK d \in Devices : \E i \in DOMAIN raised[d] : c \in raised[d][i]
    BY <1>5
  <2>2. PICK i \in DOMAIN raised[d] : c \in raised[d][i]
    BY <2>1
  <2>3. raised[d] \in Seq(Snapshots)
    BY DEF TypeOK
  <2>4. raised[d][i] \in Snapshots
    BY <2>2, <2>3, ElementOfSeq
  <2> QED
    BY <2>2, <2>4 DEF Snapshots
<1> QED
  BY <1>1, <1>2, <1>3, <1>4, <1>5, CopyPlaces DEF IsCopy

\* Laying out a section gives a good cell, whichever cell is reused.
LEMMA BindGood ==
  ASSUME IInv, NEW d \in Devices, NEW i \in Feels, Bind(d, i), UNCHANGED pressed
  PROVE  /\ currentReact' \in [Devices -> Feels \cup {None}]
         /\ spare' \in [Devices -> ReactStates]
         /\ cell' \in [Devices -> Cells]
         /\ \A e \in Devices \ {d} : cell'[e] = cell[e] /\ spare'[e] = spare[e]
         /\ GoodCell(cell'[d])
         /\ CellAuthentic(cell[d])'
         /\ Highlights(cell'[d].reactStates, cell'[d].userIdList, UserOf[d])
         /\ AtMostOne(cell'[d].reactStates)
         /\ AtMostOne(spare'[d])
         /\ cell'[d].feelsId # None
<1> DEFINE entry == reactionsArray[d][i]
           ids == ParsedUserIds(entry.reactions)
<1>1. /\ entry \in Copies
      /\ entry \in Reactions(Feels)
  BY CopyPlaces DEF IsCopy, IInv, TypeOK
<1>2. /\ entry.reactions \in Documents
      /\ entry.feelsId \in Feels
      /\ Consistent(entry.reactions)
  BY <1>1 DEF Reactions, IInv, DocumentsConsistent
<1>3. ids \in [Reacts -> UserIdLists] /\ ParsedCount(entry.reactions) \in [Reacts -> Int]
  BY <1>2, ParsedType DEF Consistent
<1>4. PICK reuse \in BOOLEAN :
        LET before == IF reuse THEN cell[d].reactStates ELSE spare[d]
        IN  /\ spare' = [spare EXCEPT ![d] = IF reuse THEN @ ELSE cell[d].reactStates]
            /\ \E states \in CheckUserReact(before, ids, UserOf[d]) :
                  cell' = [cell EXCEPT ![d] =
                            [feelsId     |-> entry.feelsId,
                             reactCount  |-> ParsedCount(entry.reactions),
                             userIdList  |-> ids,
                             reactStates |-> states]]
  BY DEF Bind
<1> DEFINE before == IF reuse THEN cell[d].reactStates ELSE spare[d]
<1>5. before \in ReactStates /\ AtMostOne(before)
  BY DEF IInv, TypeOK, GoodDevice, Cells
<1>6. PICK states \in CheckUserReact(before, ids, UserOf[d]) :
        cell' = [cell EXCEPT ![d] = [feelsId     |-> entry.feelsId,
                                     reactCount  |-> ParsedCount(entry.reactions),
                                     userIdList  |-> ids,
                                     reactStates |-> states]]
  BY <1>4
<1>7. OneReactPerUser(ids) /\ CountsMatch(ParsedCount(entry.reactions), ids)
  BY <1>2 DEF Consistent
<1>8. /\ states \in ReactStates
      /\ Highlights(states, ids, UserOf[d])
      /\ AtMostOne(states)
  <2>1. UserOf[d] \in Users
    BY ReactionsAssumption
  <2> HIDE DEF before, ids
  <2> QED BY <1>3, <1>5, <1>6, <1>7, <2>1, CheckUserReactHighlights
<1>9. /\ cell'[d].feelsId = entry.feelsId
      /\ cell'[d].reactCount = ParsedCount(entry.reactions)
      /\ cell'[d].userIdList = ids
      /\ cell'[d].reactStates = states
      /\ \A e \in Devices \ {d} : cell'[e] = cell[e]
  BY <1>6 DEF IInv, TypeOK
<1>10. cell' \in [Devices -> Cells]
  <2> HIDE DEF ids, entry
  <2>1. [feelsId |-> entry.feelsId, reactCount |-> ParsedCount(entry.reactions),
         userIdList |-> ids, reactStates |-> states] \in Cells
    BY <1>2, <1>3, <1>8 DEF Cells
  <2> QED BY <1>6, <2>1 DEF IInv, TypeOK
<1>11. /\ spare' \in [Devices -> ReactStates]
       /\ \A e \in Devices \ {d} : spare'[e] = spare[e]
       /\ AtMostOne(spare'[d])
  <2>1. cell[d].reactStates \in ReactStates
    BY DEF IInv, TypeOK, Cells
  <2> QED BY <1>4, <2>1 DEF IInv, TypeOK, GoodDevice
<1>12. currentReact' \in [Devices -> Feels \cup {None}]
  BY DEF Bind, IInv, TypeOK
<1>13. entry.feelsId # None
  BY <1>2 DEF Feels, None
<1>14. CellAuthentic(cell[d])'
  <2> HIDE DEF ids, entry
  <2>1. \A v \in Users, r \in Reacts :
          Contains(ParsedUserIds(entry.reactions)[r], v) => r \in pressed[v][entry.feelsId]
    BY <1>1 DEF IInv, VotesAuthentic
  <2> QED BY <1>9, <1>13, <2>1 DEF CellAuthentic, ids
<1> QED
  BY <1>7, <1>8, <1>9, <1>10, <1>11, <1>12, <1>13, <1>14 DEF GoodCell

-----------------------------------------------------------------------------
(* Steps. *)

\* A step that makes no new copy keeps the properties of documents.
LEMMA NoNewCopy ==
  ASSUME IInv, UNCHANGED pressed, \A c : IsCopy(c)' => IsCopy(c)
  PROVE  DocumentsConsistent' /\ VotesAuthentic'
<1>1. \A c : (c \in Copies)' => c \in Copies
  BY CopyPlaces, NextCopyPlaces
<1> QED
  BY <1>1 DEF IInv, DocumentsConsistent, VotesAuthentic

\* A new local view: what the listener is given are documents of that view.
LEMMA SetViewStep ==
  ASSUME TypeOK, NEW d \in Devices, NEW after \in [Feels -> Documents], SetView(d, after)
  PROVE  /\ view' \in [Devices -> [Feels -> Documents]]
         /\ raised' \in [Devices -> Seq(Snapshots)]
         /\ view'[d] = after
         /\ \A e \in Devices \ {d} : view'[e] = view[e]
         /\ \A e \in Devices : \A c : \A i \in DOMAIN raised'[e] : c \in raised'[e][i] =>
              \/ \E j \in DOMAIN raised[e] : c \in raised[e][j]
              \/ \E f \in Feels : c = [feelsId |-> f, reactions |-> after[f]]
<1> DEFINE diffs == Changes(view[d], after)
<1>1. \A c \in diffs : \E f \in Feels : c = [feelsId |-> f, reactions |-> after[f]]
  BY DEF Changes
<1>2. diffs \in SUBSET Reactions(Feels)
  BY DEF Changes, Reactions
<1>3. /\ view' \in [Devices -> [Feels -> Documents]]
      /\ view'[d] = after
      /\ \A e \in Devices \ {d} : view'[e] = view[e]
  BY DEF SetView, TypeOK
<1>4. raised \in [Devices -> Seq(Snapshots)]
  BY DEF TypeOK
<1>5. CASE diffs = {}
  <2>1. raised' = raised
    BY <1>5 DEF SetView
  <2> QED
    BY <1>3, <1>4, <2>1
<1>6. CASE diffs # {}
  <2> HIDE DEF diffs
  <2>1. diffs \in Snapshots
    BY <1>2, <1>6 DEF Snapshots
  <2>2. raised' = [raised EXCEPT ![d] = Append(raised[d], diffs)]
    BY <1>6 DEF SetView, diffs
  <2>3. raised[d] \in Seq(Snapshots)
    BY <1>4
  <2>4. Append(raised[d], diffs) \in Seq(Snapshots)
    BY <2>1, <2>3
  <2>5. raised' \in [Devices -> Seq(Snapshots)]
    BY <1>4, <2>2, <2>4
  <2>6. ASSUME NEW e \in Devices, NEW c, NEW i \in DOMAIN raised'[e], c \in raised'[e][i]
        PROVE  \/ \E j \in DOMAIN raised[e] : c \in raised[e][j]
               \/ \E f \in Feels : c = [feelsId |-> f, reactions |-> after[f]]
    <3>1. CASE e # d
      BY <1>4, <2>2, <2>6, <3>1
    <3>2. CASE e = d
      <4>1. raised'[d] = Append(raised[d], diffs)
        BY <1>4, <2>2
      <4>2. i \in 1 .. Len(raised[d]) + 1
        BY <2>3, <2>1, <2>6, <3>2, <4>1, AppendProperties
      <4>3. CASE i = Len(raised[d]) + 1
        <5>1. raised'[d][i] = diffs
          BY <2>3, <2>1, <4>1, <4>3, AppendProperties
        <5> QED
          BY <1>1, <2>6, <3>2, <5>1
      <4>4. CASE i \in 1 .. Len(raised[d])
        <5>1. raised'[d][i] = raised[d][i] /\ i \in DOMAIN raised[d]
          BY <2>3, <2>1, <4>1, <4>4, AppendProperties
        <5> QED
          BY <2>6, <3>2, <5>1
      <4>5. Len(raised[d]) \in Nat
        BY <2>3
      <4> QED
        BY <4>2, <4>3, <4>4, <4>5
    <3> QED
      BY <3>1, <3>2
  <2> QED
    BY <1>3, <2>5, <2>6
<1> QED
  BY <1>5, <1>6

\* Opening or laying out a section.
LEMMA BindStep ==
  ASSUME IInv, NEW d \in Devices, NEW i \in Feels, Bind(d, i),
         open' \in [Devices -> Feels \cup {None}],
         \A e \in Devices \ {d} : open'[e] = open[e],
         UNCHANGED <<server, pending, view, raised, reactionsArray, running, taps, pressed>>
  PROVE  IInv'
<1>1. /\ currentReact' \in [Devices -> Feels \cup {None}]
      /\ spare' \in [Devices -> ReactStates]
      /\ cell' \in [Devices -> Cells]
      /\ \A e \in Devices \ {d} : cell'[e] = cell[e] /\ spare'[e] = spare[e]
      /\ GoodCell(cell'[d])
      /\ CellAuthentic(cell[d])'
      /\ Highlights(cell'[d].reactStates, cell'[d].userIdList, UserOf[d])
      /\ AtMostOne(cell'[d].reactStates)
      /\ AtMostOne(spare'[d])
      /\ cell'[d].feelsId # None
  BY BindGood
<1>2. TypeOK'
  BY <1>1 DEF IInv, TypeOK
<1>3. DocumentsConsistent' /\ VotesAuthentic'
  BY NoNewCopy DEF IsCopy
<1>4. ASSUME NEW e \in Devices
      PROVE  GoodDevice(e)'
  <2>1. CASE e = d
    BY <1>1, <2>1 DEF GoodDevice, GoodCell
  <2>2. CASE e # d
    BY <1>1, <2>2 DEF IInv, GoodDevice, CellAuthentic
  <2> QED
    BY <2>1, <2>2
<1> QED
  BY <1>2, <1>3, <1>4 DEF IInv

LEMMA DeliverStep ==
  ASSUME IInv, NEW d \in Devices, Deliver(d)
  PROVE  IInv'
<1>1. raised[d] \in Seq(Snapshots) /\ raised[d] # <<>>
  BY DEF IInv, TypeOK, Deliver
<1>2. /\ Tail(raised[d]) \in Seq(Snapshots)
      /\ Head(raised[d]) = raised[d][1]
      /\ 1 \in DOMAIN raised[d]
      /\ Head(raised[d]) \in Snapshots
      /\ \A i \in DOMAIN Tail(raised[d]) : /\ i + 1 \in DOMAIN raised[d]
                                          /\ Tail(raised[d])[i] = raised[d][i + 1]
  BY <1>1, HeadTailProperties, ElementOfSeq
<1>3. /\ raised' = [raised EXCEPT ![d] = Tail(raised[d])]
      /\ raised' \in [Devices -> Seq(Snapshots)]
  BY <1>2 DEF Deliver, IInv, TypeOK
<1>4. running' \in [Devices -> BOOLEAN]
  BY DEF Deliver, IInv, TypeOK
<1>5. /\ reactionsArray' \in [Devices -> [Feels -> Reactions(Feels)]]
      /\ \A e \in Devices, i \in Feels : \/ reactionsArray'[e][i] = reactionsArray[e][i]
                                        \/ reactionsArray'[e][i] \in raised[d][1]
  <2>1. CASE currentReact[d] = None
    BY <2>1 DEF Deliver, IInv, TypeOK
  <2>2. CASE currentReact[d] # None
    <3>1. PICK diff \in Head(raised[d]) :
            reactionsArray' = [reactionsArray EXCEPT ![d][currentReact[d]] = diff]
      BY <2>2 DEF Deliver
    <3>2. diff \in Reactions(Feels)
      BY <1>2 DEF Snapshots
    <3>3. currentReact[d] \in Feels
      BY <2>2 DEF IInv, TypeOK
    <3>4. diff \in raised[d][1]
      BY <1>2
    <3> QED
      BY <3>1, <3>2, <3>3, <3>4 DEF IInv, TypeOK
  <2> QED
    BY <2>1, <2>2
<1>6. TypeOK'
  BY <1>3, <1>4, <1>5 DEF Deliver, IInv, TypeOK
<1>7. ASSUME NEW c, IsCopy(c)'
      PROVE  IsCopy(c)
  <2>1. CASE \E e \in Devices, i \in Feels : c = reactionsArray'[e][i]
    BY <1>2, <1>5, <2>1 DEF IsCopy
  <2>2. CASE \E e \in Devices : \E i \in DOMAIN raised'[e] : c \in raised'[e][i]
    <3>1. PICK e \in Devices : \E i \in DOMAIN raised'[e] : c \in raised'[e][i]
      BY <2>2
    <3>2. PICK i \in DOMAIN raised'[e] : c \in raised'[e][i]
      BY <3>1
    <3>3. CASE e = d
      <4>1. raised'[d] = Tail(raised[d])
        BY <1>3 DEF IInv, TypeOK
      <4> QED
        BY <1>2, <3>2, <3>3, <4>1 DEF IsCopy
    <3>4. CASE e # d
      <4>1. raised'[e] = raised[e]
        BY <1>3, <3>4 DEF IInv, TypeOK
      <4> QED
        BY <3>2, <4>1 DEF IsCopy
    <3> QED
      BY <3>3, <3>4
  <2>3. UNCHANGED <<server, view, pending>>
    BY DEF Deliver
  <2> QED
    BY <1>7, <2>1, <2>2, <2>3 DEF IsCopy
<1>8. UNCHANGED pressed
  BY DEF Deliver
<1>9. DocumentsConsistent' /\ VotesAuthentic'
  BY <1>7, <1>8, NoNewCopy
<1>10. \A e \in Devices : GoodDevice(e)'
  BY DEF Deliver, IInv, GoodDevice, CellAuthentic
<1> QED
  BY <1>6, <1>9, <1>10 DEF IInv

LEMMA TapReactStep ==
  ASSUME IInv, NEW d \in Devices, NEW r \in Reacts, TapReact(d, r)
  PROVE  IInv'
<1> DEFINE u == UserOf[d]
           c == Pressed(cell[d], r, u)
<1>1. /\ u \in Users
      /\ cell[d] \in Cells
      /\ GoodDevice(d)
      /\ cell[d].feelsId # None
      /\ cell[d].feelsId \in Feels
      /\ ~cell[d].reactStates[r]
  BY ReactionsAssumption DEF TapReact, IInv, TypeOK, GoodDevice, Cells
<1>2. /\ c \in Cells
      /\ c.feelsId = cell[d].feelsId
      /\ GoodCell(c)
      /\ Highlights(c.reactStates, c.userIdList, u)
      /\ AtMostOne(c.reactStates)
      /\ \A v \in Users \ {u}, q \in Reacts :
           Contains(c.userIdList[q], v) <=> Contains(cell[d].userIdList[q], v)
      /\ \A q \in Reacts : Contains(c.userIdList[q], u) => q = r
  <2>1. \A q \in Reacts : c.reactStates[q] <=> q = r
    BY DEF Pressed
  <2> HIDE DEF c, u
  <2>2. /\ c \in Cells
        /\ c.feelsId = cell[d].feelsId
        /\ GoodCell(c)
        /\ Highlights(c.reactStates, c.userIdList, u)
        /\ AtMostOne(c.reactStates)
        /\ \A v \in Users \ {u}, q \in Reacts :
             Contains(c.userIdList[q], v) <=> Contains(cell[d].userIdList[q], v)
    BY <1>1, PressedGood DEF GoodDevice, c, u
  <2> QED
    BY <2>1, <2>2 DEF Highlights
<1>3. PICK l \in Layouts :
        LET doc == Serialise(c.reactCount, c.userIdList, l)
        IN  /\ pending' = [pending EXCEPT ![d] =
                             Append(pending[d], [feelsId |-> c.feelsId, reactions |-> doc])]
            /\ SetView(d, [view[d] EXCEPT ![c.feelsId] = doc])
  BY DEF TapReact
<1> DEFINE doc == Serialise(c.reactCount, c.userIdList, l)
           new == [feelsId |-> c.feelsId, reactions |-> doc]
           after == [view[d] EXCEPT ![c.feelsId] = doc]
<1>4. /\ cell' = [cell EXCEPT ![d] = c]
      /\ pressed' = [pressed EXCEPT ![u][c.feelsId] = @ \cup {r}]
      /\ taps' = taps + 1 /\ taps < MaxTaps
      /\ UNCHANGED <<server, reactionsArray, currentReact, open, spare, running>>
  BY DEF TapReact
<1> HIDE DEF c, u
<1>5. /\ doc \in Documents
      /\ Consistent(doc)
      /\ ParsedUserIds(doc) = c.userIdList
  <2>1. c.reactCount \in [Reacts -> Int] /\ c.userIdList \in [Reacts -> UserIdLists]
    BY <1>2 DEF Cells
  <2> QED
    BY <1>2, <2>1, SerialiseParses DEF Consistent, GoodCell
<1> HIDE DEF doc
<1>6. /\ after \in [Feels -> Documents]
      /\ \A f \in Feels : after[f] = IF f = c.feelsId THEN doc ELSE view[d][f]
  BY <1>1, <1>2, <1>5 DEF IInv, TypeOK
<1>7. new \in Reactions(Feels)
  BY <1>1, <1>2, <1>5 DEF Reactions
<1>8. pending[d] \in Seq(Reactions(Feels)) /\ pending \in [Devices -> Seq(Reactions(Feels))]
  BY DEF IInv, TypeOK
<1> HIDE DEF new, after
<1>9. /\ view' \in [Devices -> [Feels -> Documents]]
      /\ raised' \in [Devices -> Seq(Snapshots)]
      /\ view'[d] = after
      /\ \A e \in Devices \ {d} : view'[e] = view[e]
      /\ \A e \in Devices : \A k : \A i \in DOMAIN raised'[e] : k \in raised'[e][i] =>
           \/ \E j \in DOMAIN raised[e] : k \in raised[e][j]
           \/ \E f \in Feels : k = [feelsId |-> f, reactions |-> after[f]]
  <2>1. SetView(d, after)
    BY <1>3 DEF after, doc
  <2> QED
    BY <1>6, <2>1, SetViewStep DEF IInv
<1>10. /\ pending' = [pending EXCEPT ![d] = Append(pending[d], new)]
       /\ Append(pending[d], new) \in Seq(Reactions(Feels))
       /\ \A i \in DOMAIN Append(pending[d], new) :
            \/ Append(pending[d], new)[i] = new
            \/ i \in DOMAIN pending[d] /\ Append(pending[d], new)[i] = pending[d][i]
  <2>1. pending' = [pending EXCEPT ![d] = Append(pending[d], new)]
    BY <1>3 DEF new, doc
  <2>2. Append(pending[d], new) \in Seq(Reactions(Feels))
    BY <1>7, <1>8
  <2>3. ASSUME NEW i \in DOMAIN Append(pending[d], new)
        PROVE  \/ Append(pending[d], new)[i] = new
               \/ i \in DOMAIN pending[d] /\ Append(pending[d], new)[i] = pending[d][i]
    <3>1. i \in 1 .. Len(pending[d]) + 1 /\ Len(pending[d]) \in Nat
      BY <1>7, <1>8, AppendProperties
    <3>2. CASE i = Len(pending[d]) + 1
      BY <1>7, <1>8, <3>2, AppendProperties
    <3>3. CASE i \in 1 .. Len(pending[d])
      BY <1>7, <1>8, <3>3, AppendProperties
    <3> QED
      BY <3>1, <3>2, <3>3
  <2> QED
    BY <2>1, <2>2, <2>3
<1>11. TypeOK'
  <2>1. pending' \in [Devices -> Seq(Reactions(Feels))]
    BY <1>8, <1>10
  <2>2. cell' \in [Devices -> Cells]
    BY <1>2, <1>4 DEF IInv, TypeOK
  <2>3. taps' \in 0 .. MaxTaps
    BY <1>4, ReactionsAssumption DEF IInv, TypeOK
  <2>4. pressed' \in [Users -> [Feels -> SUBSET Reacts]]
    BY <1>1, <1>2, <1>4 DEF IInv, TypeOK
  <2> QED
    BY <1>4, <1>9, <2>1, <2>2, <2>3, <2>4 DEF IInv, TypeOK
<1>12. ASSUME NEW k, IsCopy(k)'
       PROVE  IsCopy(k) \/ k = new
  <2>0. ASSUME NEW f \in Feels, k = [feelsId |-> f, reactions |-> after[f]]
        PROVE  IsCopy(k) \/ k = new
    <3>1. CASE f = c.feelsId
      BY <1>6, <2>0, <3>1 DEF new
    <3>2. CASE f # c.feelsId
      BY <1>6, <2>0, <3>2 DEF IsCopy
    <3> QED
      BY <3>1, <3>2
  <2>1. CASE \E e \in Devices, f \in Feels : k = [feelsId |-> f, reactions |-> view'[e][f]]
    <3>1. PICK e \in Devices, f \in Feels : k = [feelsId |-> f, reactions |-> view'[e][f]]
      BY <2>1
    <3>2. CASE e = d
      BY <1>9, <2>0, <3>1, <3>2
    <3>3. CASE e # d
      BY <1>9, <3>1, <3>3 DEF IsCopy
    <3> QED
      BY <3>2, <3>3
  <2>2. CASE \E e \in Devices : \E i \in DOMAIN raised'[e] : k \in raised'[e][i]
    <3>1. PICK e \in Devices : \E i \in DOMAIN raised'[e] : k \in raised'[e][i]
      BY <2>2
    <3>2. \/ \E j \in DOMAIN raised[e] : k \in raised[e][j]
          \/ \E f \in Feels : k = [feelsId |-> f, reactions |-> after[f]]
      BY <1>9, <3>1
    <3> QED
      BY <2>0, <3>2 DEF IsCopy
  <2>3. CASE \E e \in Devices : \E i \in DOMAIN pending'[e] : k = pending'[e][i]
    <3>1. PICK e \in Devices : \E i \in DOMAIN pending'[e] : k = pending'[e][i]
      BY <2>3
    <3>2. CASE e = d
      <4>1. pending'[d] = Append(pending[d], new)
        BY <1>8, <1>10
      <4> QED
        BY <1>10, <3>1, <3>2, <4>1 DEF IsCopy
    <3>3. CASE e # d
      <4>1. pending'[e] = pending[e]
        BY <1>8, <1>10, <3>3
      <4> QED
        BY <3>1, <4>1 DEF IsCopy
    <3> QED
      BY <3>2, <3>3
  <2> QED
    BY <1>4, <1>12, <2>1, <2>2, <2>3 DEF IsCopy
<1>13. \A k : (k \in Copies)' => k \in Copies \/ k = new
  BY <1>12, CopyPlaces, NextCopyPlaces
<1>14. new.reactions = doc /\ new.feelsId = c.feelsId
  BY DEF new
<1>15. DocumentsConsistent'
  BY <1>5, <1>13, <1>14 DEF IInv, DocumentsConsistent
<1>16. \A v \in Users, f \in Feels : pressed[v][f] \subseteq pressed'[v][f]
  BY <1>4 DEF IInv, TypeOK
<1>17. r \in pressed'[u][c.feelsId]
  BY <1>1, <1>2, <1>4 DEF IInv, TypeOK
<1>18. ASSUME NEW v \in Users, NEW q \in Reacts, Contains(c.userIdList[q], v)
       PROVE  q \in pressed'[v][c.feelsId]
  <2>1. CASE v = u
    BY <1>2, <1>17, <1>18, <2>1
  <2>2. CASE v # u
    BY <1>1, <1>2, <1>16, <1>18, <2>2 DEF GoodDevice, CellAuthentic
  <2> QED
    BY <2>1, <2>2
<1>19. VotesAuthentic'
  <2> SUFFICES ASSUME NEW k, (k \in Copies)', NEW v \in Users, NEW q \in Reacts,
                      Contains(ParsedUserIds(k.reactions)[q], v)
               PROVE  q \in pressed'[v][k.feelsId]
    BY DEF VotesAuthentic
  <2>1. CASE k \in Copies
    <3>1. k.feelsId \in Feels
      BY <2>1, CopiesType DEF IInv, Reactions
    <3> QED
      BY <1>16, <2>1, <3>1 DEF IInv, VotesAuthentic
  <2>2. CASE k = new
    BY <1>5, <1>14, <1>18, <2>2
  <2> QED
    BY <1>13, <2>1, <2>2
<1>20. ASSUME NEW e \in Devices
       PROVE  GoodDevice(e)'
  <2>1. CASE e = d
    <3>1. cell'[d] = c
      BY <1>4 DEF IInv, TypeOK
    <3>2. CellAuthentic(cell[d])'
      BY <1>1, <1>2, <1>18, <3>1 DEF CellAuthentic
    <3> QED
      BY <1>1, <1>2, <1>4, <2>1, <3>1, <3>2 DEF GoodDevice, u
  <2>2. CASE e # d
    <3>1. cell'[e] = cell[e]
      BY <1>4, <2>2 DEF IInv, TypeOK
    <3>2. CellAuthentic(cell[e])'
      <4>1. cell[e].feelsId \in Feels \cup {None}
        BY DEF IInv, TypeOK, Cells
      <4> QED
        BY <1>16, <3>1, <4>1 DEF IInv, GoodDevice, CellAuthentic
    <3> QED
      BY <1>4, <3>1, <3>2 DEF IInv, GoodDevice
  <2> QED
    BY <2>1, <2>2
<1> QED
  BY <1>11, <1>15, <1>19, <1>20 DEF IInv

LEMMA CloseReactsStep ==
  ASSUME IInv, NEW d \in Devices, CloseReacts(d)
  PROVE  IInv'
<1>1. TypeOK'
  BY DEF CloseReacts, IInv, TypeOK
<1>2. DocumentsConsistent' /\ VotesAuthentic'
  BY NoNewCopy DEF CloseReacts, IsCopy
<1>3. \A e \in Devices : GoodDevice(e)'
  BY DEF CloseReacts, IInv, TypeOK, GoodDevice, CellAuthentic
<1> QED
  BY <1>1, <1>2, <1>3 DEF IInv

\* A cell as the nib makes it lists nobody and highlights nothing.
LEMMA NewCellGood ==
  /\ NewCell \in Cells
  /\ GoodCell(NewCell)
  /\ NewCell.feelsId = None
  /\ \A v \in Users, r \in Reacts : ~Contains(NewCell.userIdList[r], v)
  /\ NewCell.reactStates = NoReactStates
  /\ NoReactStates \in ReactStates
  /\ AtMostOne(NoReactStates)
<1> DEFINE ids == [r \in Reacts |-> EmptyList]
           c == [r \in Reacts |-> 0]
<1>1. /\ NewCell.userIdList = ids
      /\ NewCell.reactCount = c
      /\ NewCell.feelsId = None
      /\ NewCell.reactStates = NoReactStates
  BY DEF NewCell
<1>2. NoReactStates \in ReactStates /\ AtMostOne(NoReactStates)
  BY DEF NoReactStates, ReactStates, AtMostOne
<1>3. ids \in [Reacts -> UserIdLists] /\ c \in [Reacts -> Int]
  BY DEF EmptyList, UserIdLists
<1>4. \A v \in Users, r \in Reacts : ids[r][v] = 0 /\ ~Contains(ids[r], v)
  BY DEF EmptyList, Contains
<1>5. \A r \in Reacts : Voters(ids[r]) = {}
  <2> HIDE DEF ids
  <2> QED BY <1>4 DEF Voters
<1>6. CountsMatch(c, ids)
  BY <1>5, FS_EmptySet DEF CountsMatch
<1>7. OneReactPerUser(ids)
  <2> HIDE DEF ids
  <2> QED BY <1>4 DEF OneReactPerUser
<1>8. NewCell \in Cells
  BY <1>2, <1>3 DEF NewCell, Cells
<1> QED
  BY <1>1, <1>2, <1>4, <1>6, <1>7, <1>8 DEF GoodCell

LEMMA RelaunchStep ==
  ASSUME IInv, NEW d \in Devices, Relaunch(d)
  PROVE  IInv'
<1>1. /\ raised' = [raised EXCEPT ![d] = <<>>]
      /\ reactionsArray' = [reactionsArray EXCEPT ![d] = ArrayOf(view[d])]
      /\ cell' = [cell EXCEPT ![d] = NewCell]
      /\ spare' = [spare EXCEPT ![d] = NoReactStates]
      /\ open' = [open EXCEPT ![d] = None]
      /\ UNCHANGED <<server, pending, view, taps, pressed>>
  BY DEF Relaunch
<1>2. \A i \in Feels : ArrayOf(view[d])[i] = [feelsId |-> i, reactions |-> view[d][i]]
  BY DEF ArrayOf
<1>3. ArrayOf(view[d]) \in [Feels -> Reactions(Feels)]
  BY DEF ArrayOf, IInv, TypeOK, Reactions
<1>4. TypeOK'
  <2>1. <<>> \in Seq(Snapshots)
    OBVIOUS
  <2>2. raised' \in [Devices -> Seq(Snapshots)]
    BY <1>1, <2>1 DEF IInv, TypeOK
  <2>3. reactionsArray' \in [Devices -> [Feels -> Reactions(Feels)]]
    BY <1>1, <1>3 DEF IInv, TypeOK
  <2>4. cell' \in [Devices -> Cells] /\ spare' \in [Devices -> ReactStates]
    BY <1>1, NewCellGood DEF IInv, TypeOK
  <2>5. /\ running' \in [Devices -> BOOLEAN]
        /\ currentReact' \in [Devices -> Feels \cup {None}]
        /\ open' \in [Devices -> Feels \cup {None}]
    BY DEF Relaunch, IInv, TypeOK
  <2> QED
    BY <1>1, <2>2, <2>3, <2>4, <2>5 DEF IInv, TypeOK
<1>5. ASSUME NEW c, IsCopy(c)'
      PROVE  IsCopy(c)
  <2>1. CASE \E e \in Devices, i \in Feels : c = reactionsArray'[e][i]
    <3>1. PICK e \in Devices, i \in Feels : c = reactionsArray'[e][i]
      BY <2>1
    <3>2. CASE e = d
      <4>1. reactionsArray'[d] = ArrayOf(view[d])
        BY <1>1 DEF IInv, TypeOK
      <4> QED
        BY <1>2, <3>1, <3>2, <4>1 DEF IsCopy
    <3>3. CASE e # d
      <4>1. reactionsArray'[e] = reactionsArray[e]
        BY <1>1, <3>3 DEF IInv, TypeOK
      <4> QED
        BY <3>1, <4>1 DEF IsCopy
    <3> QED
      BY <3>2, <3>3
  <2>2. CASE \E e \in Devices : \E i \in DOMAIN raised'[e] : c \in raised'[e][i]
    <3>1. PICK e \in Devices : \E i \in DOMAIN raised'[e] : c \in raised'[e][i]
      BY <2>2
    <3>2. raised'[e] = raised[e]
      <4>1. raised'[d] = <<>>
        BY <1>1 DEF IInv, TypeOK
      <4>2. e # d
        BY <3>1, <4>1
      <4> QED
        BY <1>1, <4>2 DEF IInv, TypeOK
    <3> QED
      BY <3>1, <3>2 DEF IsCopy
  <2> QED
    BY <1>1, <1>5, <2>1, <2>2 DEF IsCopy
<1>6. DocumentsConsistent' /\ VotesAuthentic'
  BY <1>1, <1>5, NoNewCopy
<1>7. ASSUME NEW e \in Devices
      PROVE  GoodDevice(e)'
  <2>1. CASE e = d
    <3>1. cell'[d] = NewCell /\ spare'[d] = NoReactStates /\ open'[d] = None
      BY <1>1 DEF IInv, TypeOK
    <3> QED
      BY <2>1, <3>1, NewCellGood DEF GoodDevice, CellAuthentic
  <2>2. CASE e # d
    <3>1. cell'[e] = cell[e] /\ spare'[e] = spare[e] /\ open'[e] = open[e]
      BY <1>1, <2>2 DEF IInv, TypeOK
    <3> QED
      BY <1>1, <3>1 DEF IInv, GoodDevice, CellAuthentic
  <2> QED
    BY <2>1, <2>2
<1> QED
  BY <1>4, <1>6, <1>7 DEF IInv

LEMMA ServerApplyStep ==
  ASSUME IInv, NEW d \in Devices, ServerApply(d)
  PROVE  IInv'
<1> DEFINE w == Head(pending[d])
<1>1. pending[d] \in Seq(Reactions(Feels)) /\ pending[d] # <<>>
  BY DEF IInv, TypeOK, ServerApply
<1>2. /\ Tail(pending[d]) \in Seq(Reactions(Feels))
      /\ w = pending[d][1]
      /\ 1 \in DOMAIN pending[d]
      /\ w \in Reactions(Feels)
      /\ \A i \in DOMAIN Tail(pending[d]) : /\ i + 1 \in DOMAIN pending[d]
                                           /\ Tail(pending[d])[i] = pending[d][i + 1]
  BY <1>1, HeadTailProperties, ElementOfSeq
<1>3. /\ server' = [server EXCEPT ![w.feelsId] = w.reactions]
      /\ pending' = [pending EXCEPT ![d] = Tail(pending[d])]
      /\ UNCHANGED <<view, raised, reactionsArray, currentReact, open, cell, spare,
                     running, taps, pressed>>
  BY DEF ServerApply
<1> HIDE DEF w
<1>4. w.feelsId \in Feels /\ w.reactions \in Documents
      /\ w = [feelsId |-> w.feelsId, reactions |-> w.reactions]
  BY <1>2 DEF Reactions
<1>5. TypeOK'
  BY <1>2, <1>3, <1>4 DEF IInv, TypeOK
<1>6. ASSUME NEW c, IsCopy(c)'
      PROVE  IsCopy(c)
  <2>1. CASE \E f \in Feels : c = [feelsId |-> f, reactions |-> server'[f]]
    <3>1. PICK f \in Feels : c = [feelsId |-> f, reactions |-> server'[f]]
      BY <2>1
    <3>2. CASE f = w.feelsId
      <4>1. server'[f] = w.reactions
        BY <1>3, <3>2 DEF IInv, TypeOK
      <4>2. c = w
        BY <1>4, <3>1, <3>2, <4>1
      <4> QED
        BY <1>2, <4>2 DEF IsCopy
    <3>3. CASE f # w.feelsId
      <4>1. server'[f] = server[f]
        BY <1>3, <3>3 DEF IInv, TypeOK
      <4> QED
        BY <3>1, <4>1 DEF IsCopy
    <3> QED
      BY <3>2, <3>3
  <2>2. CASE \E e \in Devices : \E i \in DOMAIN pending'[e] : c = pending'[e][i]
    <3>1. PICK e \in Devices : \E i \in DOMAIN pending'[e] : c = pending'[e][i]
      BY <2>2
    <3>2. CASE e = d
      <4>1. pending'[d] = Tail(pending[d])
        BY <1>3 DEF IInv, TypeOK
      <4> QED
        BY <1>2, <3>1, <3>2, <4>1 DEF IsCopy
    <3>3. CASE e # d
      <4>1. pending'[e] = pending[e]
        BY <1>3, <3>3 DEF IInv, TypeOK
      <4> QED
        BY <3>1, <4>1 DEF IsCopy
    <3> QED
      BY <3>2, <3>3
  <2> QED
    BY <1>3, <1>6, <2>1, <2>2 DEF IsCopy
<1>7. DocumentsConsistent' /\ VotesAuthentic'
  BY <1>3, <1>6, NoNewCopy
<1>8. \A e \in Devices : GoodDevice(e)'
  BY <1>3 DEF IInv, GoodDevice, CellAuthentic
<1> QED
  BY <1>5, <1>7, <1>8 DEF IInv

LEMMA WatchStep ==
  ASSUME IInv, NEW d \in Devices, Watch(d)
  PROVE  IInv'
<1> DEFINE after == [f \in Feels |-> IF Unsent(d, f) THEN view[d][f] ELSE server[f]]
<1>1. after \in [Feels -> Documents]
  BY DEF IInv, TypeOK
<1>2. \A f \in Feels : after[f] = view[d][f] \/ after[f] = server[f]
  OBVIOUS
<1>3. /\ SetView(d, after)
      /\ UNCHANGED <<server, pending, reactionsArray, currentReact, open, cell, spare,
                     running, taps, pressed>>
  BY DEF Watch
<1> HIDE DEF after
<1>4. /\ view' \in [Devices -> [Feels -> Documents]]
      /\ raised' \in [Devices -> Seq(Snapshots)]
      /\ view'[d] = after
      /\ \A e \in Devices \ {d} : view'[e] = view[e]
      /\ \A e \in Devices : \A k : \A i \in DOMAIN raised'[e] : k \in raised'[e][i] =>
           \/ \E j \in DOMAIN raised[e] : k \in raised[e][j]
           \/ \E f \in Feels : k = [feelsId |-> f, reactions |-> after[f]]
  BY <1>1, <1>3, SetViewStep DEF IInv
<1>5. TypeOK'
  BY <1>3, <1>4 DEF IInv, TypeOK
<1>6. ASSUME NEW k, IsCopy(k)'
      PROVE  IsCopy(k)
  <2>0. ASSUME NEW f \in Feels, k = [feelsId |-> f, reactions |-> after[f]]
        PROVE  IsCopy(k)
    <3>1. CASE after[f] = view[d][f]
      BY <2>0, <3>1 DEF IsCopy
    <3>2. CASE after[f] = server[f]
      BY <2>0, <3>2 DEF IsCopy
    <3> QED
      BY <1>2, <3>1, <3>2
  <2>1. CASE \E e \in Devices, f \in Feels : k = [feelsId |-> f, reactions |-> view'[e][f]]
    <3>1. PICK e \in Devices, f \in Feels : k = [feelsId |-> f, reactions |-> view'[e][f]]
      BY <2>1
    <3>2. CASE e = d
      BY <1>4, <2>0, <3>1, <3>2
    <3>3. CASE e # d
      BY <1>4, <3>1, <3>3 DEF IsCopy
    <3> QED
      BY <3>2, <3>3
  <2>2. CASE \E e \in Devices : \E i \in DOMAIN raised'[e] : k \in raised'[e][i]
    <3>1. PICK e \in Devices : \E i \in DOMAIN raised'[e] : k \in raised'[e][i]
      BY <2>2
    <3>2. \/ \E j \in DOMAIN raised[e] : k \in raised[e][j]
          \/ \E f \in Feels : k = [feelsId |-> f, reactions |-> after[f]]
      BY <1>4, <3>1
    <3> QED
      BY <2>0, <3>2 DEF IsCopy
  <2> QED
    BY <1>3, <1>6, <2>1, <2>2 DEF IsCopy
<1>7. DocumentsConsistent' /\ VotesAuthentic'
  BY <1>3, <1>6, NoNewCopy
<1>8. \A e \in Devices : GoodDevice(e)'
  BY <1>3 DEF IInv, GoodDevice, CellAuthentic
<1> QED
  BY <1>5, <1>7, <1>8 DEF IInv

-----------------------------------------------------------------------------
(* The invariant holds in every behaviour. *)

LEMMA InitIInv == Init => IInv
<1> SUFFICES ASSUME Init
             PROVE  IInv
  OBVIOUS
<1>1. \A f \in Feels : server[f] = FreshDocument
  BY DEF Init
<1>2. TypeOK
  <2>1. server \in [Feels -> Documents]
    BY FreshDocumentConsistent DEF Init
  <2>2. ArrayOf(server) \in [Feels -> Reactions(Feels)]
    BY <2>1 DEF ArrayOf, Reactions
  <2>3. taps \in 0 .. MaxTaps
    BY ReactionsAssumption DEF Init
  <2>4. \A S : <<>> \in Seq(S)
    OBVIOUS
  <2>5. /\ pending \in [Devices -> Seq(Reactions(Feels))]
        /\ raised \in [Devices -> Seq(Snapshots)]
    BY <2>4 DEF Init
  <2>6. cell \in [Devices -> Cells] /\ spare \in [Devices -> ReactStates]
    BY NewCellGood DEF Init
  <2> QED
    BY <2>1, <2>2, <2>3, <2>5, <2>6 DEF Init, TypeOK
<1>3. ASSUME NEW c, IsCopy(c)
      PROVE  c.reactions = FreshDocument
  BY <1>1, <1>3 DEF IsCopy, Init, ArrayOf
<1>4. \A c : c \in Copies => c.reactions = FreshDocument
  BY <1>3, CopyPlaces
<1>5. DocumentsConsistent
  BY <1>4, FreshDocumentConsistent DEF DocumentsConsistent
<1>6. VotesAuthentic
  BY <1>4, FreshDocumentConsistent DEF VotesAuthentic, Contains, EmptyList
<1>7. \A d \in Devices : GoodDevice(d)
  BY NewCellGood DEF Init, GoodDevice, CellAuthentic
<1> QED
  BY <1>2, <1>5, <1>6, <1>7 DEF IInv

LEMMA NextIInv == IInv /\ [Next]_vars => IInv'
<1> SUFFICES ASSUME IInv, [Next]_vars
             PROVE  IInv'
  OBVIOUS
<1>1. ASSUME NEW d \in Devices, NEW r \in Reacts, TapReact(d, r)
      PROVE  IInv'
  BY <1>1, TapReactStep
<1>2. ASSUME NEW d \in Devices, NEW i \in Feels, OpenReacts(d, i)
      PROVE  IInv'
  <2>1. /\ open' \in [Devices -> Feels \cup {None}]
        /\ \A e \in Devices \ {d} : open'[e] = open[e]
    BY <1>2 DEF OpenReacts, IInv, TypeOK
  <2> QED
    BY <1>2, <2>1, BindStep DEF OpenReacts
<1>3. ASSUME NEW d \in Devices, CloseReacts(d)
      PROVE  IInv'
  BY <1>3, CloseReactsStep
<1>4. ASSUME NEW d \in Devices, Reload(d)
      PROVE  IInv'
  <2>1. open[d] \in Feels /\ open \in [Devices -> Feels \cup {None}]
    BY <1>4 DEF Reload, IInv, TypeOK
  <2> QED
    BY <1>4, <2>1, BindStep DEF Reload
<1>5. ASSUME NEW d \in Devices, Deliver(d)
      PROVE  IInv'
  BY <1>5, DeliverStep
<1>6. ASSUME NEW d \in Devices, Relaunch(d)
      PROVE  IInv'
  BY <1>6, RelaunchStep
<1>7. ASSUME NEW d \in Devices, ServerApply(d)
      PROVE  IInv'
  BY <1>7, ServerApplyStep
<1>8. ASSUME NEW d \in Devices, Watch(d)
      PROVE  IInv'
  BY <1>8, WatchStep
<1>9. CASE UNCHANGED vars
  <2>1. TypeOK'
    BY <1>9 DEF vars, IInv, TypeOK
  <2>2. DocumentsConsistent' /\ VotesAuthentic'
    BY <1>9, NoNewCopy DEF vars, IsCopy
  <2>3. \A d \in Devices : GoodDevice(d)'
    BY <1>9 DEF vars, IInv, GoodDevice, CellAuthentic
  <2> QED
    BY <2>1, <2>2, <2>3 DEF IInv
<1> QED
  BY <1>1, <1>2, <1>3, <1>4, <1>5, <1>6, <1>7, <1>8, <1>9 DEF Next

\* The inductive invariant is an invariant.
THEOREM Invariance == Spec => []IInv
<1>1. Init => IInv
  BY InitIInv
<1>2. IInv /\ [Next]_vars => IInv'
  BY NextIInv
<1> QED
  BY <1>1, <1>2, PTL DEF Spec

\* Type correctness of the devices, the queues and the server.
THEOREM TypeCorrect == Spec => []TypeOK
<1>1. IInv => TypeOK
  BY DEF IInv
<1> QED
  BY <1>1, Invariance, PTL

\* Counts and lists of every document stay in step, for any number of users,
\* devices and reacts and in every interleaving.
THEOREM DocumentsStayConsistent == Spec => []DocumentsConsistent
<1>1. IInv => DocumentsConsistent
  BY DEF IInv
<1> QED
  BY <1>1, Invariance, PTL

\* So do the dictionaries of every cell.
THEOREM CellsStayConsistent == Spec => []CellsConsistent
<1>1. IInv => CellsConsistent
  BY DEF IInv, GoodDevice, GoodCell, CellsConsistent
<1> QED
  BY <1>1, Invariance, PTL

\* Recycled cells highlight the signed-in user's react and no other.
THEOREM ButtonsAlwaysMatchLists == Spec => []ButtonsMatchLists
<1>1. IInv => ButtonsMatchLists
  BY DEF IInv, GoodDevice, Highlights, ButtonsMatchLists
<1> QED
  BY <1>1, Invariance, PTL

\* No copy of a document ever shows a react that its user did not choose.
THEOREM VotesAlwaysAuthentic == Spec => []VotesAuthentic
<1>1. IInv => VotesAuthentic
  BY DEF IInv
<1> QED
  BY <1>1, Invariance, PTL
=============================================================================

------------------------- MODULE ReactionsRefinement -------------------------
(***************************************************************************)
(* Reactions implements Votes, for any number of users, devices, feels,    *)
(* reacts and taps.                                                        *)
(***************************************************************************)
EXTENDS ReactionsProofs

\* A write that has not been sent lists its author under some react.
Signed(w, author) == \E r \in Reacts : Contains(ParsedUserIds(w.reactions)[r], author)

WritesSigned ==
  \A d \in Devices : \A i \in DOMAIN pending[d] : Signed(pending[d][i], UserOf[d])

\* A pressed cell is written back with the user in the list of his react.
LEMMA PressedSigned ==
  ASSUME IInv, NEW d \in Devices, NEW r \in Reacts, NEW l \in Layouts,
         open[d] # None, ~cell[d].reactStates[r]
  PROVE  LET c == Pressed(cell[d], r, UserOf[d])
         IN  /\ c.feelsId = cell[d].feelsId
             /\ c.feelsId \in Feels
             /\ Serialise(c.reactCount, c.userIdList, l) \in Documents
             /\ Contains(ParsedUserIds(Serialise(c.reactCount, c.userIdList, l))[r], UserOf[d])
<1> DEFINE u == UserOf[d]
           c == Pressed(cell[d], r, u)
<1>1. u \in Users
  BY ReactionsAssumption
<1>2. /\ cell[d] \in Cells
      /\ GoodCell(cell[d])
      /\ cell[d].feelsId # None
      /\ Highlights(cell[d].reactStates, cell[d].userIdList, u)
  BY DEF IInv, TypeOK, GoodDevice
<1>3. /\ c \in Cells
      /\ c.feelsId = cell[d].feelsId
      /\ Highlights(c.reactStates, c.userIdList, u)
  <2> HIDE DEF u
  <2> QED
    BY <1>1, <1>2, PressedGood
<1>4. c.reactStates[r]
  BY DEF Pressed
<1> HIDE DEF c, u
<1>5. /\ c.reactCount \in [Reacts -> Int]
      /\ c.userIdList \in [Reacts -> UserIdLists]
      /\ c.feelsId \in Feels
  BY <1>2, <1>3 DEF Cells
<1>6. /\ Serialise(c.reactCount, c.userIdList, l) \in Documents
      /\ ParsedUserIds(Serialise(c.reactCount, c.userIdList, l)) = c.userIdList
  BY <1>5, SerialiseParses
<1>7. Contains(c.userIdList[r], u)
  BY <1>3, <1>4 DEF Highlights
<1> QED
  BY <1>3, <1>5, <1>6, <1>7 DEF c, u

\* No write loses its author on the way.
LEMMA WritesSignedStep ==
  ASSUME IInv, WritesSigned, [Next]_vars
  PROVE  WritesSigned'
<1>1. ASSUME NEW d \in Devices, NEW r \in Reacts, TapReact(d, r)
      PROVE  WritesSigned'
  <2> DEFINE c == Pressed(cell[d], r, UserOf[d])
             doc(l) == Serialise(c.reactCount, c.userIdList, l)
  <2>1. /\ open[d] # None
        /\ ~cell[d].reactStates[r]
        /\ \E l \in Layouts :
             pending' = [pending EXCEPT ![d] = Append(@, [feelsId |-> c.feelsId, reactions |-> doc(l)])]
    BY <1>1 DEF TapReact
  <2>2. PICK l \in Layouts :
          pending' = [pending EXCEPT ![d] = Append(@, [feelsId |-> c.feelsId, reactions |-> doc(l)])]
    BY <2>1
  <2>3. PICK w : w = [feelsId |-> c.feelsId, reactions |-> doc(l)]
    OBVIOUS
  <2>4. /\ c.feelsId \in Feels
        /\ doc(l) \in Documents
        /\ Contains(ParsedUserIds(doc(l))[r], UserOf[d])
    BY <2>1, PressedSigned
  <2> HIDE DEF c, doc
  <2>5. w \in Reactions(Feels) /\ Signed(w, UserOf[d])
    BY <2>3, <2>4 DEF Reactions, Signed
  <2>6. pending \in [Devices -> Seq(Reactions(Feels))]
    BY DEF IInv, TypeOK
  <2>7. /\ pending'[d] = Append(pending[d], w)
        /\ \A e \in Devices \ {d} : pending'[e] = pending[e]
    BY <2>2, <2>3, <2>6
  <2>8. ASSUME NEW i \in DOMAIN pending'[d]
        PROVE  Signed(pending'[d][i], UserOf[d])
    <3>1. pending[d] \in Seq(Reactions(Feels))
      BY <2>6
    <3>2. /\ DOMAIN Append(pending[d], w) = 1 .. Len(pending[d]) + 1
          /\ DOMAIN pending[d] = 1 .. Len(pending[d])
          /\ Len(pending[d]) \in Nat
          /\ \A j \in 1 .. Len(pending[d]) : Append(pending[d], w)[j] = pending[d][j]
          /\ Append(pending[d], w)[Len(pending[d]) + 1] = w
      BY <2>5, <3>1, AppendProperties, LenProperties
    <3>3. CASE i \in DOMAIN pending[d]
      BY <2>7, <3>2, <3>3 DEF WritesSigned
    <3>4. CASE i = Len(pending[d]) + 1
      BY <2>5, <2>7, <3>2, <3>4
    <3> QED
      BY <2>7, <3>2, <3>3, <3>4
  <2> QED
    BY <2>7, <2>8 DEF WritesSigned
<1>2. ASSUME NEW d \in Devices, ServerApply(d)
      PROVE  WritesSigned'
  <2>1. pending[d] # <<>> /\ pending' = [pending EXCEPT ![d] = Tail(@)]
    BY <1>2 DEF ServerApply
  <2>2. pending \in [Devices -> Seq(Reactions(Feels))]
    BY DEF IInv, TypeOK
  <2>3. /\ pending'[d] = Tail(pending[d])
        /\ \A e \in Devices \ {d} : pending'[e] = pending[e]
    BY <2>1, <2>2
  <2>4. \A i \in DOMAIN Tail(pending[d]) : /\ i + 1 \in DOMAIN pending[d]
                                          /\ Tail(pending[d])[i] = pending[d][i + 1]
    BY <2>1, <2>2, HeadTailProperties, ElementOfSeq
  <2>5. ASSUME NEW i \in DOMAIN pending'[d]
        PROVE  Signed(pending'[d][i], UserOf[d])
    BY <2>3, <2>4 DEF WritesSigned
  <2>6. ASSUME NEW e \in Devices \ {d}, NEW i \in DOMAIN pending'[e]
        PROVE  Signed(pending'[e][i], UserOf[e])
    BY <2>3 DEF WritesSigned
  <2> QED
    BY <2>5, <2>6 DEF WritesSigned
<1>3. CASE UNCHANGED pending
  BY <1>3 DEF WritesSigned
<1>4. \/ UNCHANGED pending
      \/ \E d \in Devices : ServerApply(d) \/ \E r \in Reacts : TapReact(d, r)
  BY DEF Next, vars, OpenReacts, CloseReacts, Reload, Deliver, Relaunch, Watch
<1> QED
  BY <1>1, <1>2, <1>3, <1>4

-----------------------------------------------------------------------------
(* The recorded votes. *)

\* The react a document records for a user.
Vote(doc, u) ==
  LET of == {r \in Reacts : Contains(ParsedUserIds(doc)[r], u)}
  IN  IF of = {} THEN None ELSE CHOOSE r \in of : TRUE

\* With nobody listed twice it is the one that lists him.
LEMMA VoteIsListed ==
  ASSUME NEW doc, OneReactPerUser(ParsedUserIds(doc)), NEW u \in Users
  PROVE  /\ Vote(doc, u) \in Reacts \cup {None}
         /\ \A r \in Reacts : Contains(ParsedUserIds(doc)[r], u) <=> Vote(doc, u) = r
<1> DEFINE of == {r \in Reacts : Contains(ParsedUserIds(doc)[r], u)}
<1>1. CASE of = {}
  <2>1. Vote(doc, u) = None
    BY <1>1 DEF Vote
  <2> QED
    BY <1>1, <2>1, ReactionsAssumption
<1>2. CASE of # {}
  <2>1. Vote(doc, u) \in of
    BY <1>2 DEF Vote
  <2>2. \A q, r \in of : q = r
    BY DEF OneReactPerUser
  <2> QED
    BY <2>1, <2>2
<1> QED
  BY <1>1, <1>2

LEMMA VotesOfServer == RecordedVotes = [f \in Feels |-> [u \in Users |-> Vote(server[f], u)]]
  BY DEF RecordedVotes, Vote

\* The server applying a write is a vote recorded for its author.
LEMMA ServerApplyRecords ==
  ASSUME IInv, IInv', WritesSigned, NEW d \in Devices, ServerApply(d)
  PROVE  \E f \in Feels : Ballots!Record(UserOf[d], f)
<1> DEFINE w == Head(pending[d])
           u == UserOf[d]
<1>1. /\ pending[d] # <<>>
      /\ server' = [server EXCEPT ![w.feelsId] = w.reactions]
      /\ UNCHANGED pressed
  BY DEF ServerApply
<1>2. /\ 1 \in DOMAIN pending[d]
      /\ w = pending[d][1]
      /\ w \in Reactions(Feels)
  <2>1. pending[d] \in Seq(Reactions(Feels))
    BY DEF IInv, TypeOK
  <2> QED
    BY <1>1, <2>1, HeadTailProperties, ElementOfSeq
<1>3. Signed(w, u)
  BY <1>2 DEF WritesSigned
<1> HIDE DEF w
<1>4. PICK f : f = w.feelsId
  OBVIOUS
<1>5. /\ f \in Feels
      /\ server'[f] = w.reactions
      /\ \A g \in Feels \ {f} : server'[g] = server[g]
  BY <1>1, <1>2, <1>4 DEF Reactions, IInv, TypeOK
<1>6. u \in Users
  BY ReactionsAssumption
<1>7. /\ OneReactPerUser(ParsedUserIds(server'[f]))
      /\ \A v \in Users, r \in Reacts :
           Contains(ParsedUserIds(server'[f])[r], v) => r \in pressed[v][f]
  <2>1. w \in Copies
    BY <1>2, CopyPlaces DEF IsCopy
  <2> QED
    BY <1>4, <1>5, <2>1 DEF IInv, DocumentsConsistent, VotesAuthentic, Consistent
<1> DEFINE ballot == [v \in Users |-> Vote(w.reactions, v)]
<1>8. \A v \in Users : /\ ballot[v] \in Reacts \cup {None}
                      /\ \A r \in Reacts :
                           Contains(ParsedUserIds(w.reactions)[r], v) <=> ballot[v] = r
  BY <1>5, <1>7, VoteIsListed
<1>9. /\ ballot \in [Users -> Reacts \cup {None}]
      /\ RecordedVotes' = [RecordedVotes EXCEPT ![f] = ballot]
  <2>1. RecordedVotes' = [g \in Feels |-> [v \in Users |-> Vote(server'[g], v)]]
    BY DEF RecordedVotes, Vote
  <2>2. RecordedVotes' = [RecordedVotes EXCEPT ![f] = ballot]
    BY <1>5, <2>1, VotesOfServer
  <2> QED
    BY <1>8, <2>2
<1>10. \A v \in Users : ballot[v] # None => ballot[v] \in pressed[v][f]
  BY <1>5, <1>7, <1>8
<1>11. ballot[u] # None
  <2>1. PICK r \in Reacts : Contains(ParsedUserIds(w.reactions)[r], u)
    BY <1>3 DEF Signed
  <2>2. ballot[u] = r
    BY <1>6, <1>8, <2>1
  <2> QED
    BY <2>2, ReactionsAssumption
<1> HIDE DEF ballot
<1>12. Ballots!Record(u, f)
  BY <1>1, <1>9, <1>10, <1>11 DEF Ballots!Record
<1> QED
  BY <1>5, <1>12

\* A tap is its user's choice of a react.
LEMMA TapReactChooses ==
  ASSUME IInv, NEW d \in Devices, NEW r \in Reacts, TapReact(d, r)
  PROVE  \E f \in Feels : Ballots!Choose(UserOf[d], f, r)
<1> DEFINE u == UserOf[d]
           c == Pressed(cell[d], r, u)
<1>1. /\ pressed' = [pressed EXCEPT ![u][c.feelsId] = @ \cup {r}]
      /\ open[d] # None
      /\ ~cell[d].reactStates[r]
      /\ UNCHANGED server
  BY DEF TapReact
<1>2. c.feelsId \in Feels
  <2>1. PICK l \in Layouts : TRUE
    BY ReactionDocsAssumption
  <2> QED
    BY <1>1, <2>1, PressedSigned
<1>3. UNCHANGED RecordedVotes
  BY <1>1 DEF RecordedVotes
<1> HIDE DEF c
<1>4. Ballots!Choose(u, c.feelsId, r)
  BY <1>1, <1>3 DEF Ballots!Choose
<1> QED
  BY <1>2, <1>4

\* Nobody has voted at first.
LEMMA InitRefines == Init => Ballots!Init
<1> SUFFICES ASSUME Init
             PROVE  Ballots!Init
  OBVIOUS
<1>1. \A f \in Feels : server[f] = FreshDocument
  BY DEF Init
<1>2. \A u \in Users : Vote(FreshDocument, u) = None
  BY FreshDocumentConsistent DEF Vote, Contains, EmptyList
<1>3. RecordedVotes = [f \in Feels |-> [u \in Users |-> None]]
  BY <1>1, <1>2, VotesOfServer
<1>4. pressed = [u \in Users |-> [f \in Feels |-> {}]]
  BY DEF Init
<1> QED
  BY <1>3, <1>4 DEF Ballots!Init

\* Every step of a device, of its queue or of the server is a step of Votes or
\* cannot be told from none.
LEMMA NextRefines ==
  ASSUME IInv, IInv', WritesSigned, [Next]_vars
  PROVE  [Ballots!Next]_<<RecordedVotes, pressed>>
<1>1. ASSUME NEW d \in Devices, NEW r \in Reacts, TapReact(d, r)
      PROVE  Ballots!Next
  BY <1>1, TapReactChooses, ReactionsAssumption DEF Ballots!Next
<1>2. ASSUME NEW d \in Devices, ServerApply(d)
      PROVE  Ballots!Next
  BY <1>2, ServerApplyRecords, ReactionsAssumption DEF Ballots!Next
<1>3. CASE UNCHANGED <<server, pressed>>
  BY <1>3 DEF RecordedVotes
<1>4. \/ UNCHANGED <<server, pressed>>
      \/ \E d \in Devices : ServerApply(d) \/ \E r \in Reacts : TapReact(d, r)
  BY DEF Next, vars, OpenReacts, CloseReacts, Reload, Deliver, Relaunch, Watch
<1> QED
  BY <1>1, <1>2, <1>3, <1>4

\* Writes are signed by their authors in every behaviour.
LEMMA WritesAlwaysSigned == Spec => []WritesSigned
<1>1. Init => WritesSigned
  BY DEF Init, WritesSigned
<1>2. IInv /\ WritesSigned /\ [Next]_vars => WritesSigned'
  BY WritesSignedStep
<1> QED
  BY <1>1, <1>2, Invariance, PTL DEF Spec

\* Cells, queues, snapshots and views together implement Votes: at most one
\* recorded react for each user, of his own choosing, and one for the author
\* of a write.
THEOREM VotesImplemented == Spec => ImplementsVotes
<1>1. Init => Ballots!Init
  BY InitRefines
<1>2. IInv /\ IInv' /\ WritesSigned /\ [Next]_vars => [Ballots!Next]_<<RecordedVotes, pressed>>
  BY NextRefines
<1> QED
  BY <1>1, <1>2, Invariance, WritesAlwaysSigned, PTL DEF Spec, ImplementsVotes, Ballots!Spec
=============================================================================

---------------------------- MODULE SessionProofs ----------------------------
(***************************************************************************)
(* The safety properties of Session, for any number of accounts.           *)
(***************************************************************************)
EXTENDS Session, SequenceLemmas

-----------------------------------------------------------------------------
(* The inductive invariant. *)

\* Only the first push opens a view.
OneViewPushed == logInViews = IF numberOfPushes = 0 THEN 0 ELSE 1

\* While the launch screen listens nobody has made a request, so the user
\* changes only when it signs him out; one call of the listener waits, for the
\* start or for that.
LaunchSound ==
  /\ screen = "launch" => listening
  /\ listening => /\ requested = {} /\ answered = <<>>
                  /\ screen \in {"launch", "login", "feed"}
  /\ ~listening => notices = 0
  /\ notices > 0 => /\ notices = 1
                    /\ authUser = Nobody \/ (screen = "launch" /\ fetching = Nobody)

\* The session that is fetched is the user's, and the screen waits for it.
FetchSound ==
  fetching # Nobody => screen = "launch" /\ fetching = authUser /\ notices = 0

\* The flag read at the sign-in is never ahead of the server.
FlagSound == emailVerified => authUser \in verified

\* With one request at a time nothing comes between the change of the user
\* and the completion that was told of it, and the feed is left in peace.
OneRequest ==
  /\ \/ requested = {} /\ Len(answered) <= 1
     \/ answered = <<>> /\ \E r \in Requests : requested = {r}
  /\ \A i \in DOMAIN answered : answered[i].verified => authUser \in verified
  /\ screen = "feed" => requested = {} /\ answered = <<>> /\ authUser \in verified

\* Who is signed in was signed in last, and once the completion has run his
\* document, if there is one, says what he asked for.
HistorySound ==
  authUser # Nobody =>
    /\ lastSignIn.uid = authUser
    /\ lastSignIn.saved => doc[authUser] \in {"absent", lastSignIn.rememberMe}

IInv ==
  /\ TypeOK
  /\ OneViewPushed
  /\ LaunchSound
  /\ FetchSound
  /\ FlagSound
  /\ HistorySound
  /\ MaxInFlight = 1 => OneRequest

-----------------------------------------------------------------------------
(* Lemmas about what the actions share. *)

\* Only what is named can disturb the last parts.
LEMMA HistoryKept ==
  ASSUME IInv, authUser' \in {authUser, Nobody}, UNCHANGED <<doc, lastSignIn>>
  PROVE  HistorySound'
  BY DEF IInv, HistorySound

\* A completion tells the history what it tells the document.
LEMMA HistorySaved ==
  ASSUME IInv, authUser' \in {authUser, Nobody}, NEW answer \in Answers, NEW asked \in RememberMe,
         Saved(answer, asked),
         \A a \in Accounts \ {answer.uid} : doc'[a] = doc[a],
         doc'[answer.uid] \in {"absent", asked}
  PROVE  HistorySound' /\ lastSignIn' \in SignIns
<1>1. /\ lastSignIn \in SignIns
      /\ authUser \in Accounts \cup {Nobody}
      /\ answer.uid \in Accounts
  BY DEF IInv, TypeOK, Answers
<1>2. CASE answer.uid = lastSignIn.uid
  <2>1. lastSignIn' = [uid |-> answer.uid, rememberMe |-> asked, saved |-> TRUE]
    BY <1>2 DEF Saved
  <2>2. lastSignIn'.uid = answer.uid /\ lastSignIn'.rememberMe = asked
    BY <2>1
  <2>3. lastSignIn' \in SignIns
    BY <1>1, <2>1 DEF SignIns
  <2>4. authUser # Nobody => authUser = answer.uid
    BY <1>2 DEF IInv, HistorySound
  <2> QED
    BY <2>2, <2>3, <2>4 DEF HistorySound
<1>3. CASE answer.uid # lastSignIn.uid
  <2>1. lastSignIn' = lastSignIn
    BY <1>3 DEF Saved
  <2>2. authUser # Nobody => doc'[authUser] = doc[authUser]
    BY <1>1, <1>3 DEF IInv, HistorySound
  <2> QED
    BY <1>1, <2>1, <2>2 DEF IInv, HistorySound
<1> QED
  BY <1>2, <1>3

LEMMA AuthKept ==
  ASSUME IInv, UNCHANGED <<authUser, emailVerified, verified>>
  PROVE  FlagSound'
  BY DEF IInv, FlagSound

LEMMA RequestsKept ==
  ASSUME IInv, UNCHANGED <<authUser, verified, requested, answered>>, screen' = "feed" => screen = "feed"
  PROVE  MaxInFlight = 1 => OneRequest'
  BY DEF IInv, OneRequest

\* A push opens a view at most once.
LEMMA PushLogInOnce ==
  ASSUME TypeOK, OneViewPushed, PushLogIn
  PROVE  /\ numberOfPushes' \in Nat /\ logInViews' \in Nat
         /\ OneViewPushed'
         /\ screen' = "login" \/ screen' = screen
<1>1. numberOfPushes \in Nat /\ logInViews \in Nat
  BY DEF TypeOK
<1>2. numberOfPushes' = numberOfPushes + 1
  BY DEF PushLogIn
<1>3. CASE numberOfPushes' = 1
  BY <1>1, <1>2, <1>3 DEF PushLogIn, OneViewPushed
<1>4. CASE numberOfPushes' # 1
  BY <1>1, <1>2, <1>4 DEF PushLogIn, OneViewPushed
<1> QED
  BY <1>3, <1>4

\* Covering a view moves its requests under it, and no more.
LEMMA CoveredRequests ==
  ASSUME TypeOK, CoverRequests
  PROVE  /\ requested' \subseteq Requests
         /\ answered' \in Seq(Answers)
         /\ Len(answered') = Len(answered)
         /\ DOMAIN answered' = DOMAIN answered
         /\ \A i \in DOMAIN answered : answered'[i].verified = answered[i].verified
         /\ requested = {} => requested' = {}
         /\ answered = <<>> => answered' = <<>>
         /\ \A r \in Requests : requested = {r} => \E q \in Requests : requested' = {q}
<1>1. /\ requested' = {Covered(r) : r \in requested}
      /\ answered' = [i \in DOMAIN answered |-> Covered(answered[i])]
  BY DEF CoverRequests
<1>0. isRememberMeOn \in RememberMe
  BY DEF TypeOK
<1>2. \A r \in Requests : Covered(r) \in Requests
  BY <1>0 DEF Covered, Requests, Views
<1>3. requested' \subseteq Requests
  BY <1>1, <1>2 DEF TypeOK
<1>4. /\ answered \in Seq(Answers)
      /\ Len(answered) \in Nat
      /\ DOMAIN answered = 1 .. Len(answered)
  BY LenProperties DEF TypeOK
<1>5. ASSUME NEW i \in DOMAIN answered
      PROVE  /\ Covered(answered[i]) \in Answers
             /\ Covered(answered[i]).verified = answered[i].verified
  <2>1. answered[i] \in Answers
    BY <1>4, ElementOfSeq
  <2> QED
    BY <1>0, <2>1 DEF Covered, Answers, Views
<1>6. /\ answered' \in Seq(Answers)
      /\ Len(answered') = Len(answered)
      /\ DOMAIN answered' = DOMAIN answered
  <2>1. answered' \in [1 .. Len(answered) -> Answers]
    BY <1>1, <1>4, <1>5
  <2> QED
    BY <1>4, <2>1, SeqDef, LenProperties
<1>7. \A i \in DOMAIN answered : answered'[i].verified = answered[i].verified
  BY <1>1, <1>5
<1>8. answered = <<>> => answered' = <<>>
  BY <1>4, <1>6, EmptySeq
<1>9. requested = {} => requested' = {}
  BY <1>1
<1>10. ASSUME NEW r \in Requests, requested = {r}
       PROVE  \E q \in Requests : requested' = {q}
  BY <1>1, <1>2, <1>10
<1> QED
  BY <1>3, <1>6, <1>7, <1>8, <1>9, <1>10

\* ... and leaves one request one request.
LEMMA CoveredOneRequest ==
  ASSUME IInv, CoverRequests, UNCHANGED <<authUser, verified>>, screen' # "feed"
  PROVE  MaxInFlight = 1 => OneRequest'
<1> SUFFICES ASSUME MaxInFlight = 1
             PROVE  OneRequest'
  OBVIOUS
<1>1. TypeOK /\ OneRequest
  BY DEF IInv
<1>2. \/ requested' = {} /\ Len(answered') <= 1
      \/ answered' = <<>> /\ \E r \in Requests : requested' = {r}
  BY <1>1, CoveredRequests DEF OneRequest
<1>3. \A i \in DOMAIN answered' : answered'[i].verified => authUser' \in verified'
  BY <1>1, CoveredRequests DEF OneRequest
<1> QED
  BY <1>2, <1>3 DEF OneRequest

\* What is kept for two views is a function on them.
LEMMA TwoViews ==
  ASSUME NEW S, NEW a \in S, NEW b \in S
  PROVE  [top |-> a, covered |-> b] \in [Views -> S]
  BY DEF Views

\* A completion is taken off the queue.
LEMMA CompletionTaken ==
  ASSUME TypeOK, answered # <<>>, answered' = Tail(answered)
  PROVE  /\ answered' \in Seq(Answers)
         /\ Head(answered) \in Answers
         /\ Len(answered) \in Nat
         /\ Len(answered') = Len(answered) - 1
         /\ 1 \in DOMAIN answered
         /\ Head(answered) = answered[1]
         /\ \A i \in DOMAIN answered' : i + 1 \in DOMAIN answered /\ answered'[i] = answered[i + 1]
<1>1. answered \in Seq(Answers)
  BY DEF TypeOK
<1>2. /\ answered' \in Seq(Answers)
      /\ Len(answered') = Len(answered) - 1
      /\ Head(answered) \in Answers
      /\ Head(answered) = answered[1]
      /\ 1 \in DOMAIN answered
      /\ \A i \in 1 .. Len(answered) - 1 : answered'[i] = answered[i + 1]
  BY <1>1, TailElements
<1>3. /\ Len(answered) \in Nat
      /\ DOMAIN answered = 1 .. Len(answered)
      /\ DOMAIN answered' = 1 .. Len(answered')
  BY <1>1, <1>2, LenProperties
<1> QED
  BY <1>2, <1>3

-----------------------------------------------------------------------------
(* Every action keeps the invariant. *)

LEMMA AuthStateChangedStep ==
  ASSUME IInv, AuthStateChanged
  PROVE  IInv'
<1>1. /\ listening /\ notices > 0
      /\ notices' = notices - 1
      /\ told' = authUser
      /\ UNCHANGED <<exists, verified, doc, authUser, emailVerified, listening, isRememberMeOn,
                     requested, answered, defaults, crash, lastSignIn>>
  BY DEF AuthStateChanged, server, calls
<1>2. /\ notices = 1 /\ notices' = 0
      /\ authUser = Nobody \/ (screen = "launch" /\ fetching = Nobody)
      /\ fetching = Nobody
  BY <1>1 DEF IInv, LaunchSound, FetchSound
<1>3. \/ UNCHANGED <<fetching, numberOfPushes, logInViews, screen>>
      \/ authUser = Nobody /\ PushLogIn /\ UNCHANGED fetching
      \/ /\ authUser # Nobody
         /\ fetching' = authUser
         /\ UNCHANGED <<numberOfPushes, logInViews, screen>>
  BY DEF AuthStateChanged, CheckUserSession
<1>4. /\ numberOfPushes' \in Nat /\ logInViews' \in Nat
      /\ OneViewPushed'
      /\ screen' = "login" \/ screen' = screen
  <2>1. CASE PushLogIn
    BY <2>1, PushLogInOnce DEF IInv
  <2>2. CASE UNCHANGED <<numberOfPushes, logInViews, screen>>
    BY <2>2 DEF IInv, TypeOK, OneViewPushed
  <2> QED
    BY <1>3, <2>1, <2>2
<1>5. TypeOK'
  <2>1. authUser \in Accounts \cup {Nobody}
    BY DEF IInv, TypeOK
  <2>2. /\ told' \in Accounts \cup {Nobody, Never}
        /\ fetching' \in Accounts \cup {Nobody}
    BY <1>1, <1>2, <1>3, <2>1
  <2>3. screen' \in Screens
    BY <1>4 DEF IInv, TypeOK, Screens
  <2>4. notices' \in Nat
    BY <1>2
  <2> QED
    BY <1>1, <1>4, <2>2, <2>3, <2>4 DEF IInv, TypeOK
<1>6. LaunchSound' /\ FetchSound'
  BY <1>1, <1>2, <1>3, <1>4 DEF IInv, LaunchSound, FetchSound
<1>7. FlagSound' /\ (MaxInFlight = 1 => OneRequest')
  BY <1>1, <1>4, AuthKept, RequestsKept
<1>10. HistorySound'
  BY <1>1, HistoryKept
<1> QED
  BY <1>4, <1>5, <1>6, <1>7, <1>10 DEF IInv

LEMMA SessionNotFetchedStep ==
  ASSUME IInv, SessionNotFetched
  PROVE  IInv'
<1>1. /\ fetching # Nobody
      /\ fetching' = Nobody
      /\ PushLogIn
      /\ UNCHANGED <<exists, verified, doc, authUser, emailVerified, notices, listening, told,
                     isRememberMeOn, requested, answered, defaults, crash, lastSignIn>>
  BY DEF SessionNotFetched, server, auth, calls
<1>2. /\ numberOfPushes' \in Nat /\ logInViews' \in Nat
      /\ OneViewPushed'
      /\ screen' = "login" \/ screen' = screen
  BY <1>1, PushLogInOnce DEF IInv
<1>3. screen = "launch" /\ listening /\ notices = 0
  BY <1>1 DEF IInv, LaunchSound, FetchSound
<1>4. TypeOK'
  BY <1>1, <1>2 DEF IInv, TypeOK, Screens
<1>5. LaunchSound' /\ FetchSound'
  BY <1>1, <1>2, <1>3 DEF IInv, LaunchSound, FetchSound
<1>6. FlagSound' /\ (MaxInFlight = 1 => OneRequest')
  BY <1>1, <1>2, AuthKept, RequestsKept
<1>10. HistorySound'
  BY <1>1, HistoryKept
<1> QED
  BY <1>2, <1>4, <1>5, <1>6, <1>10 DEF IInv

LEMMA SessionFetchedStep ==
  ASSUME IInv, SessionFetched
  PROVE  IInv'
<1>1. /\ fetching # Nobody
      /\ fetching' = Nobody
      /\ UNCHANGED <<exists, verified, doc, listening, told, isRememberMeOn, requested, answered,
                     defaults, lastSignIn>>
  BY DEF SessionFetched, server, calls
<1>2. /\ screen = "launch" /\ fetching = authUser /\ notices = 0
      /\ listening /\ requested = {} /\ answered = <<>>
      /\ authUser # Nobody
  BY <1>1 DEF IInv, LaunchSound, FetchSound
<1>3. CASE doc[fetching] = "absent"
  <2>1. crash' = "noDocument" /\ UNCHANGED <<authUser, emailVerified, notices, numberOfPushes, logInViews, screen>>
    BY <1>3 DEF SessionFetched, auth
  <2>2. TypeOK' /\ OneViewPushed'
    BY <1>1, <2>1 DEF IInv, TypeOK, OneViewPushed
  <2>3. LaunchSound' /\ FetchSound'
    BY <1>1, <1>2, <2>1 DEF IInv, LaunchSound, FetchSound
  <2>4. FlagSound' /\ (MaxInFlight = 1 => OneRequest')
    BY <1>1, <2>1, AuthKept, RequestsKept
  <2> QED
    BY <1>1, <2>1, <2>2, <2>3, <2>4, HistoryKept DEF IInv
<1>4. CASE doc[fetching] # "absent" /\ SessionIsOn(fetching) /\ emailVerified
  <2>1. /\ screen' = "feed"
        /\ UNCHANGED <<authUser, emailVerified, notices, numberOfPushes, logInViews, crash>>
    BY <1>4 DEF SessionFetched, auth
  <2>2. TypeOK' /\ OneViewPushed'
    BY <1>1, <2>1 DEF IInv, TypeOK, OneViewPushed, Screens
  <2>3. LaunchSound' /\ FetchSound'
    BY <1>1, <1>2, <2>1 DEF IInv, LaunchSound, FetchSound
  <2>4. FlagSound'
    BY <1>1, <2>1, AuthKept
  <2>5. MaxInFlight = 1 => OneRequest'
    <3>1. authUser \in verified
      BY <1>4 DEF IInv, FlagSound
    <3> QED
      BY <1>1, <1>2, <2>1, <3>1 DEF IInv, OneRequest
  <2> QED
    BY <1>1, <2>1, <2>2, <2>3, <2>4, <2>5, HistoryKept DEF IInv
<1>5. CASE doc[fetching] # "absent" /\ ~(SessionIsOn(fetching) /\ emailVerified)
  <2>1. /\ authUser' = Nobody /\ emailVerified' = FALSE
        /\ notices' = 1
        /\ PushLogIn
        /\ UNCHANGED crash
    <3>1. SignOut /\ PushLogIn /\ UNCHANGED crash
      BY <1>5 DEF SessionFetched
    <3>2. /\ authUser' = Nobody /\ emailVerified' = FALSE
          /\ notices' = IF listening /\ Nobody # authUser THEN notices + 1 ELSE notices
      BY <3>1 DEF SignOut, SetUser
    <3>3. notices' = notices + 1
      BY <1>2, <3>2
    <3> QED
      BY <1>2, <3>1, <3>2, <3>3
  <2>2. /\ numberOfPushes' \in Nat /\ logInViews' \in Nat
        /\ OneViewPushed'
        /\ screen' = "login" \/ screen' = screen
    BY <2>1, PushLogInOnce DEF IInv
  <2>3. TypeOK'
    BY <1>1, <2>1, <2>2 DEF IInv, TypeOK, Screens
  <2>4. LaunchSound' /\ FetchSound' /\ FlagSound'
    BY <1>1, <1>2, <2>1, <2>2 DEF IInv, LaunchSound, FetchSound, FlagSound
  <2>5. MaxInFlight = 1 => OneRequest'
    BY <1>1, <1>2, <2>2 DEF IInv, OneRequest
  <2> QED
    BY <1>1, <2>1, <2>2, <2>3, <2>4, <2>5, HistoryKept DEF IInv
<1> QED
  BY <1>3, <1>4, <1>5

LEMMA LaunchDisappearsStep ==
  ASSUME IInv, LaunchDisappears
  PROVE  IInv'
<1>1. /\ listening /\ screen # "launch"
      /\ listening' = FALSE /\ notices' = 0
      /\ UNCHANGED <<exists, verified, doc, authUser, emailVerified, screen, told, fetching,
                     numberOfPushes, logInViews, isRememberMeOn, requested, answered, defaults,
                     crash, lastSignIn>>
  BY DEF LaunchDisappears, server, calls
<1>2. TypeOK' /\ OneViewPushed'
  BY <1>1 DEF IInv, TypeOK, OneViewPushed
<1>3. LaunchSound' /\ FetchSound'
  BY <1>1 DEF IInv, LaunchSound, FetchSound
<1>4. FlagSound' /\ (MaxInFlight = 1 => OneRequest')
  BY <1>1, AuthKept, RequestsKept
<1>10. HistorySound'
  BY <1>1, HistoryKept
<1> QED
  BY <1>2, <1>3, <1>4, <1>10 DEF IInv

LEMMA RememberMeSwitchStep ==
  ASSUME IInv, NEW on \in BOOLEAN, RememberMeSwitch(on)
  PROVE  IInv'
<1>1. UNCHANGED <<exists, verified, doc, authUser, emailVerified, notices, screen, listening,
                  told, fetching, numberOfPushes, logInViews, requested, answered, defaults,
                  crash, lastSignIn>>
  BY DEF RememberMeSwitch, server, auth, launch, calls
<1>2. isRememberMeOn' \in RememberMe
  BY DEF RememberMeSwitch, RememberMe
<1>3. TypeOK' /\ OneViewPushed'
  BY <1>1, <1>2 DEF IInv, TypeOK, OneViewPushed
<1>4. LaunchSound' /\ FetchSound'
  BY <1>1 DEF IInv, LaunchSound, FetchSound
<1>5. FlagSound' /\ (MaxInFlight = 1 => OneRequest')
  BY <1>1, AuthKept, RequestsKept
<1>10. HistorySound'
  BY <1>1, HistoryKept
<1> QED
  BY <1>3, <1>4, <1>5, <1>10 DEF IInv

\* SignIn and ConstructDumpsite: the request is the only one if it must be.
LEMMA RequestStep ==
  ASSUME IInv, NEW r \in Requests, Request(r), ~listening, screen # "launch", screen # "feed"
  PROVE  IInv'
<1>1. /\ Cardinality(requested) + Len(answered) < MaxInFlight
      /\ requested' = requested \cup {r}
      /\ UNCHANGED <<exists, verified, doc, authUser, emailVerified, notices, screen, listening,
                     told, fetching, numberOfPushes, logInViews, isRememberMeOn, answered,
                     defaults, crash, lastSignIn>>
  BY DEF Request, server, auth, launch
<1>2. TypeOK' /\ OneViewPushed'
  BY <1>1 DEF IInv, TypeOK, OneViewPushed
<1>3. LaunchSound' /\ FetchSound' /\ FlagSound'
  BY <1>1 DEF IInv, LaunchSound, FetchSound, FlagSound
<1>4. ASSUME MaxInFlight = 1
      PROVE  OneRequest'
  <2>1. /\ answered \in Seq(Answers)
        /\ \/ requested = {}
           \/ answered = <<>> /\ \E q \in Requests : requested = {q}
    BY <1>4 DEF IInv, TypeOK, OneRequest
  <2>2. Len(answered) \in Nat
    BY <2>1, LenProperties
  <2>3. ASSUME NEW q \in Requests, requested = {q}
        PROVE  FALSE
    <3>1. Cardinality(requested) = 1
      <4>1. Cardinality({} \cup {q}) = Cardinality({}) + 1
        BY FS_EmptySet, FS_AddElement
      <4> QED
        BY <2>3, <4>1, FS_EmptySet
    <3> QED
      BY <1>1, <1>4, <2>2, <3>1
  <2>4. requested = {} /\ Len(answered) = 0
    <3>1. requested = {}
      BY <2>1, <2>3
    <3>2. Cardinality(requested) = 0
      BY <3>1, FS_EmptySet
    <3> QED
      BY <1>1, <1>4, <2>2, <3>1, <3>2
  <2>5. answered = <<>>
    BY <2>1, <2>4, EmptySeq
  <2>6. requested' = {r} /\ answered' = <<>>
    BY <1>1, <2>4, <2>5
  <2> QED
    BY <1>1, <2>6, EmptyElements DEF OneRequest
<1>10. HistorySound'
  BY <1>1, HistoryKept
<1> QED
  BY <1>2, <1>3, <1>4, <1>10 DEF IInv

LEMMA AnswerStep ==
  ASSUME IInv, NEW r \in Requests, Answer(r)
  PROVE  IInv'
<1> DEFINE e == [kind |-> r.kind, uid |-> r.uid, view |-> r.view, rememberMe |-> r.rememberMe,
                verified |-> r.uid \in verified]
<1>1. /\ r \in requested
      /\ requested' = requested \ {r}
      /\ SetUser(r.uid, r.uid \in verified)
      /\ answered' = Append(answered, e)
      /\ UNCHANGED <<verified, doc, screen, listening, told, fetching, numberOfPushes, logInViews,
                     isRememberMeOn, defaults, crash>>
      /\ exists' \subseteq exists \cup {r.uid} /\ exists \subseteq exists' /\ r.uid \in exists'
  BY DEF Answer, launch
<1>2. ~listening /\ fetching = Nobody /\ notices = 0
  BY <1>1 DEF IInv, LaunchSound, FetchSound
<1>3. authUser' = r.uid /\ emailVerified' = (r.uid \in verified) /\ notices' = 0
  BY <1>1, <1>2 DEF SetUser
<1>4. r.uid \in Accounts /\ e \in Answers /\ e.verified = (r.uid \in verified)
  BY DEF Requests, Answers
<1>5. answered \in Seq(Answers)
  BY DEF IInv, TypeOK
<1> HIDE DEF e
<1>6. /\ answered' \in Seq(Answers)
      /\ Len(answered') = Len(answered) + 1
      /\ DOMAIN answered' = 1 .. Len(answered) + 1
      /\ answered'[Len(answered) + 1] = e
  BY <1>1, <1>4, <1>5, AppendElements
<1>7. TypeOK'
  <2>1. exists \subseteq Accounts /\ verified \subseteq exists /\ requested \subseteq Requests
    BY DEF IInv, TypeOK
  <2>2. /\ exists' \subseteq Accounts /\ verified' \subseteq exists'
        /\ authUser' \in exists' \cup {Nobody}
    BY <1>1, <1>3, <1>4, <2>1
  <2>3. emailVerified' \in BOOLEAN /\ notices' \in Nat
    BY <1>3
  <2>4. requested' \subseteq Requests
    BY <1>1, <2>1
  <2>5. lastSignIn' \in SignIns
    <3>1. SwitchOf(r) \in RememberMe /\ DefaultRememberMe \in RememberMe
      BY SessionAssumption DEF SwitchOf, IInv, TypeOK, Requests, RememberMe
    <3> QED
      BY <1>4, <3>1 DEF Answer, SignIns
  <2> QED
    BY <1>1, <1>6, <2>2, <2>3, <2>4, <2>5 DEF IInv, TypeOK
<1>8. OneViewPushed' /\ LaunchSound' /\ FetchSound' /\ FlagSound'
  <2>1. OneViewPushed'
    BY <1>1 DEF IInv, OneViewPushed
  <2>2. LaunchSound' /\ FetchSound'
    BY <1>1, <1>2, <1>3 DEF IInv, LaunchSound, FetchSound
  <2>3. FlagSound'
    BY <1>1, <1>3 DEF FlagSound
  <2> QED
    BY <2>1, <2>2, <2>3
<1>9. ASSUME MaxInFlight = 1
      PROVE  OneRequest'
  <2>1. answered = <<>> /\ requested = {r} /\ screen # "feed"
    BY <1>1, <1>9 DEF IInv, OneRequest
  <2>2. requested' = {} /\ Len(answered') = 1 /\ DOMAIN answered' = {1} /\ answered'[1] = e
    BY <1>1, <1>6, <2>1, EmptyElements
  <2>3. \A i \in DOMAIN answered' : answered'[i].verified => authUser' \in verified'
    BY <1>1, <1>3, <1>4, <2>2
  <2>4. screen' # "feed" /\ Len(answered') <= 1
    BY <1>1, <2>1, <2>2
  <2> QED
    BY <2>2, <2>3, <2>4 DEF OneRequest
<1>10. HistorySound'
  <2>1. lastSignIn'.uid = r.uid /\ lastSignIn'.saved = FALSE
    BY DEF Answer
  <2> QED
    BY <1>3, <2>1 DEF HistorySound
<1> QED
  BY <1>7, <1>8, <1>9, <1>10 DEF IInv

LEMMA RefuseStep ==
  ASSUME IInv, NEW r \in Requests, Refuse(r)
  PROVE  IInv'
<1>1. /\ r \in requested
      /\ requested' = requested \ {r}
      /\ UNCHANGED <<exists, verified, doc, authUser, emailVerified, notices, screen, listening,
                     told, fetching, numberOfPushes, logInViews, isRememberMeOn, answered,
                     defaults, crash, lastSignIn>>
  BY DEF Refuse, server, auth, launch
<1>2. TypeOK' /\ OneViewPushed'
  BY <1>1 DEF IInv, TypeOK, OneViewPushed
<1>3. LaunchSound' /\ FetchSound' /\ FlagSound'
  BY <1>1 DEF IInv, LaunchSound, FetchSound, FlagSound
<1>4. ASSUME MaxInFlight = 1
      PROVE  OneRequest'
  <2>1. answered = <<>> /\ requested = {r} /\ screen # "feed"
    BY <1>1, <1>4 DEF IInv, OneRequest
  <2> QED
    BY <1>1, <2>1, EmptyElements DEF OneRequest
<1>10. HistorySound'
  BY <1>1, HistoryKept
<1> QED
  BY <1>2, <1>3, <1>4, <1>10 DEF IInv

LEMMA SignedInStep ==
  ASSUME IInv, SignedIn
  PROVE  IInv'
<1>1. /\ answered # <<>>
      /\ answered' = Tail(answered)
      /\ doc' = UserSessionUpdated(Head(answered))
      /\ UNCHANGED <<exists, verified, requested, listening, told, fetching, numberOfPushes,
                     logInViews, isRememberMeOn, defaults, crash>>
  BY DEF SignedIn, server, launch
<1>2. ~listening /\ fetching = Nobody /\ notices = 0 /\ screen # "launch"
  BY <1>1 DEF IInv, LaunchSound, FetchSound
<1>3. TypeOK
  BY DEF IInv
<1>4. /\ answered' \in Seq(Answers)
      /\ Head(answered) \in Answers
      /\ Len(answered) \in Nat
      /\ Len(answered') = Len(answered) - 1
      /\ 1 \in DOMAIN answered
      /\ Head(answered) = answered[1]
      /\ \A i \in DOMAIN answered' : i + 1 \in DOMAIN answered /\ answered'[i] = answered[i + 1]
  BY <1>1, <1>3, CompletionTaken
<1>5. \/ /\ Head(answered).verified
         /\ screen' = "feed" \/ screen' = screen
         /\ UNCHANGED <<authUser, emailVerified, notices>>
      \/ /\ authUser' = Nobody /\ emailVerified' = FALSE /\ notices' = notices
         /\ screen' = screen
  BY <1>2 DEF SignedIn, SignOut, SetUser, auth
<1>6. doc' \in [Accounts -> {"absent"} \cup RememberMe]
  <2>1. /\ doc \in [Accounts -> {"absent"} \cup RememberMe]
        /\ SwitchOf(Head(answered)) \in RememberMe
    BY <1>3, <1>4 DEF TypeOK, Answers, SwitchOf
  <2> QED
    BY <1>1, <2>1 DEF UserSessionUpdated
<1>10. HistorySound' /\ lastSignIn' \in SignIns
  <2>1. PICK answer \in Answers : answer = Head(answered)
    BY <1>4
  <2>2. PICK asked \in RememberMe : asked = SwitchOf(answer)
    BY <1>3, <2>1 DEF TypeOK, Answers, SwitchOf
  <2>3. Saved(answer, asked)
    BY <2>1, <2>2 DEF SignedIn
  <2>4. /\ \A a \in Accounts \ {answer.uid} : doc'[a] = doc[a]
        /\ doc'[answer.uid] \in {"absent", asked}
    <3>1. doc \in [Accounts -> {"absent"} \cup RememberMe] /\ answer.uid \in Accounts
      BY <1>3, <2>1 DEF TypeOK, Answers
    <3>2. doc' = IF doc[answer.uid] = "absent" THEN doc ELSE [doc EXCEPT ![answer.uid] = asked]
      BY <1>1, <2>1, <2>2 DEF UserSessionUpdated
    <3> QED
      BY <3>1, <3>2
  <2> QED
    BY <1>5, <2>3, <2>4, HistorySaved
<1>7. TypeOK' /\ OneViewPushed'
  <2>1. screen' \in Screens
    BY <1>3, <1>5 DEF TypeOK, Screens
  <2>2. authUser' \in exists' \cup {Nobody} /\ emailVerified' \in BOOLEAN /\ notices' \in Nat
    BY <1>1, <1>3, <1>5 DEF TypeOK
  <2> QED
    BY <1>1, <1>3, <1>4, <1>6, <1>10, <2>1, <2>2 DEF IInv, TypeOK, OneViewPushed
<1>8. LaunchSound' /\ FetchSound' /\ FlagSound'
  BY <1>1, <1>2, <1>5 DEF IInv, LaunchSound, FetchSound, FlagSound
<1>9. ASSUME MaxInFlight = 1
      PROVE  OneRequest'
  <2>1. /\ OneRequest
        /\ requested = {} /\ Len(answered) = 1
    BY <1>1, <1>4, <1>9, EmptyElements DEF IInv, OneRequest
  <2>2. requested' = {} /\ Len(answered') = 0
    BY <1>1, <1>4, <2>1
  <2>3. answered' = <<>>
    BY <1>4, <2>2, EmptySeq
  <2>4. CASE screen' = "feed"
    <3>1. screen # "feed"
      BY <1>1, <2>1 DEF OneRequest
    <3>2. Head(answered).verified /\ authUser' = authUser
      BY <1>5, <2>4, <3>1
    <3>3. authUser \in verified
      BY <1>4, <2>1, <3>2 DEF OneRequest
    <3>4. authUser' \in verified' /\ DOMAIN answered' = {}
      BY <1>1, <2>3, <3>2, <3>3, EmptyElements
    <3> QED
      BY <2>2, <2>3, <3>4 DEF OneRequest
  <2>5. CASE screen' # "feed"
    BY <2>2, <2>3, <2>5, EmptyElements DEF OneRequest
  <2> QED
    BY <2>4, <2>5
<1> QED
  BY <1>7, <1>8, <1>9, <1>10 DEF IInv

LEMMA AccountCreatedStep ==
  ASSUME IInv, AccountCreated
  PROVE  IInv'
<1>1. /\ answered # <<>>
      /\ answered' = Tail(answered)
      /\ UNCHANGED <<exists, verified, authUser, emailVerified, notices, requested, listening,
                     told, fetching, numberOfPushes, logInViews, isRememberMeOn, defaults>>
      /\ \/ /\ doc' = [doc EXCEPT ![Head(answered).uid] = DefaultRememberMe]
            /\ Saved(Head(answered), DefaultRememberMe)
            /\ UNCHANGED crash
         \/ UNCHANGED <<doc, lastSignIn>> /\ crash' = "noDefaults"
      /\ screen' \in {screen, "construction"}
  BY DEF AccountCreated, server, auth, launch
<1>2. ~listening /\ fetching = Nobody /\ screen # "launch"
  BY <1>1 DEF IInv, LaunchSound, FetchSound
<1>3. TypeOK
  BY DEF IInv
<1>4. /\ answered' \in Seq(Answers)
      /\ Head(answered) \in Answers
      /\ Len(answered) \in Nat
      /\ Len(answered') = Len(answered) - 1
      /\ \A i \in DOMAIN answered' : i + 1 \in DOMAIN answered /\ answered'[i] = answered[i + 1]
  BY <1>1, <1>3, CompletionTaken
<1>5. doc' \in [Accounts -> {"absent"} \cup RememberMe] /\ crash' \in {"", "noDocument", "noDefaults"}
  <2>1. /\ doc \in [Accounts -> {"absent"} \cup RememberMe]
        /\ crash \in {"", "noDocument", "noDefaults"}
        /\ DefaultRememberMe \in RememberMe
    BY <1>3, SessionAssumption DEF TypeOK, RememberMe
  <2> QED
    BY <1>1, <2>1
<1>9. HistorySound' /\ lastSignIn' \in SignIns
  <2>1. CASE Saved(Head(answered), DefaultRememberMe) /\ doc' = [doc EXCEPT ![Head(answered).uid] = DefaultRememberMe]
    <3>1. PICK answer \in Answers : answer = Head(answered)
      BY <1>4
    <3>2. /\ doc \in [Accounts -> {"absent"} \cup RememberMe]
          /\ answer.uid \in Accounts
          /\ DefaultRememberMe \in RememberMe
      BY <1>3, <3>1, SessionAssumption DEF TypeOK, Answers, RememberMe
    <3>3. /\ \A a \in Accounts \ {answer.uid} : doc'[a] = doc[a]
          /\ doc'[answer.uid] \in {"absent", DefaultRememberMe}
      BY <2>1, <3>1, <3>2
    <3> QED
      BY <1>1, <2>1, <3>1, <3>2, <3>3, HistorySaved
  <2>2. CASE UNCHANGED <<doc, lastSignIn>>
    BY <1>1, <1>3, <2>2, HistoryKept DEF TypeOK
  <2> QED
    BY <1>1, <2>1, <2>2
<1>6. TypeOK' /\ OneViewPushed'
  <2>1. screen' \in Screens
    BY <1>1, <1>3 DEF TypeOK, Screens
  <2>2. UNCHANGED <<exists, verified, authUser, emailVerified, notices, requested, listening,
                    told, fetching, numberOfPushes, logInViews, isRememberMeOn, defaults>>
    BY <1>1
  <2> QED
    BY <1>3, <1>4, <1>5, <1>9, <2>1, <2>2 DEF IInv, TypeOK, OneViewPushed
<1>7. LaunchSound' /\ FetchSound' /\ FlagSound'
  <2>1. screen' # "launch"
    BY <1>1, <1>2
  <2> QED
    BY <1>1, <1>2, <2>1 DEF IInv, LaunchSound, FetchSound, FlagSound
<1>8. ASSUME MaxInFlight = 1
      PROVE  OneRequest'
  <2>1. /\ OneRequest
        /\ requested = {} /\ Len(answered) = 1 /\ screen # "feed"
    BY <1>1, <1>4, <1>8, EmptyElements DEF IInv, OneRequest
  <2>2. requested' = {} /\ Len(answered') = 0 /\ screen' # "feed"
    BY <1>1, <1>4, <2>1
  <2>3. answered' = <<>>
    BY <1>4, <2>2, EmptySeq
  <2> QED
    BY <2>2, <2>3, EmptyElements DEF OneRequest
<1> QED
  BY <1>6, <1>7, <1>8, <1>9 DEF IInv

LEMMA DefaultsFetchedStep ==
  ASSUME IInv, NEW v \in Views, DefaultsFetched(v)
  PROVE  IInv'
<1>1. UNCHANGED <<exists, verified, doc, authUser, emailVerified, notices, screen, listening, told,
                  fetching, numberOfPushes, logInViews, isRememberMeOn, requested, answered,
                  crash, lastSignIn>>
  BY DEF DefaultsFetched, server, auth, launch, calls
<1>2. defaults' \in [Views -> BOOLEAN]
  <2>1. defaults \in [Views -> BOOLEAN] /\ defaults' = [defaults EXCEPT ![v] = TRUE]
    BY DEF IInv, TypeOK, DefaultsFetched
  <2> QED
    BY <2>1
<1>3. TypeOK' /\ OneViewPushed'
  BY <1>1, <1>2 DEF IInv, TypeOK, OneViewPushed
<1>4. LaunchSound' /\ FetchSound'
  BY <1>1 DEF IInv, LaunchSound, FetchSound
<1>5. FlagSound' /\ (MaxInFlight = 1 => OneRequest')
  BY <1>1, AuthKept, RequestsKept
<1>10. HistorySound'
  BY <1>1, HistoryKept
<1> QED
  BY <1>3, <1>4, <1>5, <1>10 DEF IInv

LEMMA VerifyStep ==
  ASSUME IInv, NEW a \in Accounts, Verify(a)
  PROVE  IInv'
<1>1. /\ a \in exists
      /\ verified' = verified \cup {a}
      /\ UNCHANGED <<exists, doc, authUser, emailVerified, notices, screen, listening, told,
                     fetching, numberOfPushes, logInViews, isRememberMeOn, requested, answered,
                     defaults, crash, lastSignIn>>
  BY DEF Verify, auth, launch, calls
<1>2. TypeOK' /\ OneViewPushed'
  BY <1>1 DEF IInv, TypeOK, OneViewPushed
<1>3. LaunchSound' /\ FetchSound' /\ FlagSound'
  BY <1>1 DEF IInv, LaunchSound, FetchSound, FlagSound
<1>4. MaxInFlight = 1 => OneRequest'
  BY <1>1 DEF IInv, OneRequest
<1>10. HistorySound'
  BY <1>1, HistoryKept
<1> QED
  BY <1>2, <1>3, <1>4, <1>10 DEF IInv

LEMMA LogOutStep ==
  ASSUME IInv, LogOut
  PROVE  IInv'
<1>1. /\ screen = "feed" /\ ~listening /\ screen' = "login"
      /\ SignOut /\ CoverRequests
      /\ UNCHANGED <<exists, verified, doc, listening, told, fetching, numberOfPushes, logInViews,
                     defaults, crash, lastSignIn>>
  BY DEF LogOut, At, CoverLogIn, server, launch
<1>2. fetching = Nobody /\ notices = 0 /\ TypeOK
  BY <1>1 DEF IInv, LaunchSound, FetchSound
<1>3. authUser' = Nobody /\ emailVerified' = FALSE /\ notices' = 0
  BY <1>1, <1>2 DEF SignOut, SetUser
<1>4. isRememberMeOn' \in RememberMe
  BY DEF LogOut, CoverLogIn, RememberMe
<1>5. /\ requested' \subseteq Requests
      /\ answered' \in Seq(Answers)
  BY <1>1, <1>2, CoveredRequests
<1>6. TypeOK' /\ OneViewPushed'
  BY <1>1, <1>2, <1>3, <1>4, <1>5 DEF IInv, TypeOK, OneViewPushed, Screens
<1>7. LaunchSound' /\ FetchSound' /\ FlagSound'
  BY <1>1, <1>2, <1>3 DEF LaunchSound, FetchSound, FlagSound
<1>8. ASSUME MaxInFlight = 1
      PROVE  OneRequest'
  <2>1. requested = {} /\ answered = <<>>
    BY <1>1, <1>8 DEF IInv, OneRequest
  <2>2. requested' = {} /\ answered' = <<>> /\ screen' # "feed"
    BY <1>1, <1>2, <2>1, CoveredRequests
  <2> QED
    BY <2>2, EmptyElements DEF OneRequest
<1>10. HistorySound'
  BY <1>1, <1>3, HistoryKept
<1> QED
  BY <1>6, <1>7, <1>8, <1>10 DEF IInv

LEMMA OpenCreateAccountStep ==
  ASSUME IInv, OpenCreateAccount
  PROVE  IInv'
<1>1. /\ screen = "login" /\ ~listening /\ screen' = "create"
      /\ CoverRequests
      /\ UNCHANGED <<exists, verified, doc, authUser, emailVerified, notices, listening, told,
                     fetching, numberOfPushes, logInViews, defaults, crash, lastSignIn>>
  BY DEF OpenCreateAccount, At, CoverLogIn, server, auth, launch
<1>2. fetching = Nobody /\ notices = 0 /\ TypeOK
  BY <1>1 DEF IInv, LaunchSound, FetchSound
<1>3. isRememberMeOn' \in RememberMe
  BY DEF OpenCreateAccount, CoverLogIn, RememberMe
<1>4. /\ requested' \subseteq Requests
      /\ answered' \in Seq(Answers)
  BY <1>1, <1>2, CoveredRequests
<1>5. TypeOK' /\ OneViewPushed'
  BY <1>1, <1>2, <1>3, <1>4 DEF IInv, TypeOK, OneViewPushed, Screens
<1>6. LaunchSound' /\ FetchSound' /\ FlagSound'
  BY <1>1, <1>2 DEF IInv, LaunchSound, FetchSound, FlagSound
<1>7. MaxInFlight = 1 => OneRequest'
  BY <1>1, CoveredOneRequest
<1>10. HistorySound'
  BY <1>1, HistoryKept
<1> QED
  BY <1>5, <1>6, <1>7, <1>10 DEF IInv

LEMMA OpenDumpsiteStep ==
  ASSUME IInv, OpenDumpsite
  PROVE  IInv'
<1>1. /\ screen # "launch" /\ ~listening /\ screen' = "login"
      /\ CoverRequests
      /\ UNCHANGED <<exists, verified, doc, authUser, emailVerified, notices, listening, told,
                     fetching, numberOfPushes, logInViews, isRememberMeOn, crash, lastSignIn>>
  BY DEF OpenDumpsite, At, CoverCreateAccount, server, auth, launch
<1>2. fetching = Nobody /\ notices = 0 /\ TypeOK
  BY <1>1 DEF IInv, LaunchSound, FetchSound
<1>3. defaults' \in [Views -> BOOLEAN]
  <2>1. defaults' = [top |-> FALSE, covered |-> defaults["top"]]
    BY DEF OpenDumpsite, CoverCreateAccount
  <2>2. FALSE \in BOOLEAN /\ defaults["top"] \in BOOLEAN
    BY <1>2 DEF TypeOK, Views
  <2> QED
    BY <2>1, <2>2, TwoViews
<1>4. /\ requested' \subseteq Requests
      /\ answered' \in Seq(Answers)
  BY <1>1, <1>2, CoveredRequests
<1>5. TypeOK' /\ OneViewPushed'
  BY <1>1, <1>2, <1>3, <1>4 DEF IInv, TypeOK, OneViewPushed, Screens
<1>6. LaunchSound' /\ FetchSound' /\ FlagSound'
  BY <1>1, <1>2 DEF IInv, LaunchSound, FetchSound, FlagSound
<1>7. MaxInFlight = 1 => OneRequest'
  BY <1>1, CoveredOneRequest
<1>10. HistorySound'
  BY <1>1, HistoryKept
<1> QED
  BY <1>5, <1>6, <1>7, <1>10 DEF IInv

LEMMA RelaunchStep ==
  ASSUME IInv, Relaunch
  PROVE  IInv'
<1>1. /\ screen' = "launch" /\ listening' = TRUE /\ notices' = 1 /\ told' = Never
      /\ fetching' = Nobody /\ numberOfPushes' = 0 /\ logInViews' = 0
      /\ isRememberMeOn' = "null" /\ defaults' = [v \in Views |-> FALSE]
      /\ requested' = {} /\ answered' = <<>> /\ crash' = ""
      /\ UNCHANGED <<exists, verified, doc, authUser, emailVerified, lastSignIn>>
  BY DEF Relaunch, server
<1>2. answered' \in Seq(Answers) /\ DOMAIN answered' = {} /\ Len(answered') = 0
  BY <1>1, EmptyElements
<1>3. isRememberMeOn' \in RememberMe /\ defaults' \in [Views -> BOOLEAN]
  BY <1>1 DEF RememberMe
<1>4. TypeOK' /\ OneViewPushed'
  <2>1. /\ exists' \subseteq Accounts /\ verified' \subseteq exists'
        /\ doc' \in [Accounts -> {"absent"} \cup RememberMe]
        /\ authUser' \in exists' \cup {Nobody} /\ emailVerified' \in BOOLEAN
        /\ lastSignIn' \in SignIns
    BY <1>1 DEF IInv, TypeOK
  <2>2. /\ told' \in Accounts \cup {Nobody, Never} /\ fetching' \in Accounts \cup {Nobody}
        /\ requested' \subseteq Requests /\ crash' \in {"", "noDocument", "noDefaults"}
    BY <1>1
  <2>3. notices' \in Nat /\ numberOfPushes' \in Nat /\ logInViews' \in Nat
    BY <1>1
  <2>4. screen' \in Screens /\ listening' \in BOOLEAN
    BY <1>1 DEF Screens
  <2>5. TypeOK'
    BY <1>2, <1>3, <2>1, <2>2, <2>3, <2>4 DEF TypeOK
  <2>6. OneViewPushed'
    BY <1>1 DEF OneViewPushed
  <2> QED
    BY <2>5, <2>6
<1>5. LaunchSound' /\ FetchSound' /\ FlagSound'
  BY <1>1 DEF IInv, LaunchSound, FetchSound, FlagSound
<1>6. OneRequest'
  <2>1. requested' = {} /\ screen' = "launch"
    BY <1>1
  <2> QED
    BY <1>2, <2>1 DEF OneRequest
<1>10. HistorySound'
  BY <1>1, HistoryKept
<1> QED
  BY <1>4, <1>5, <1>6, <1>10 DEF IInv

LEMMA InitIInv ==
  ASSUME Init
  PROVE  IInv
<1>1. answered = <<>> /\ answered \in Seq(Answers) /\ DOMAIN answered = {} /\ Len(answered) = 0
  BY EmptyElements DEF Init
<1>2. isRememberMeOn \in RememberMe /\ defaults \in [Views -> BOOLEAN]
  BY DEF Init, RememberMe
<1>3. TypeOK /\ OneViewPushed
  <2>1. /\ exists \subseteq Accounts /\ verified \subseteq exists
        /\ authUser \in exists \cup {Nobody} /\ emailVerified \in BOOLEAN
        /\ told \in Accounts \cup {Nobody, Never} /\ fetching \in Accounts \cup {Nobody}
        /\ requested \subseteq Requests /\ crash \in {"", "noDocument", "noDefaults"}
        /\ lastSignIn \in SignIns
    BY DEF Init, SignIns, RememberMe
  <2>2. notices \in Nat /\ numberOfPushes \in Nat /\ logInViews \in Nat
    BY DEF Init
  <2>4. OneViewPushed
    BY DEF Init, OneViewPushed
  <2>3. doc \in [Accounts -> {"absent"} \cup RememberMe] /\ screen \in Screens /\ listening \in BOOLEAN
    BY DEF Init, Screens
  <2> QED
    BY <1>1, <1>2, <2>1, <2>2, <2>3, <2>4 DEF TypeOK
<1>4. LaunchSound /\ FetchSound /\ FlagSound /\ HistorySound
  BY DEF Init, LaunchSound, FetchSound, FlagSound, HistorySound
<1>5. OneRequest
  <2>1. requested = {} /\ screen = "launch"
    BY DEF Init
  <2> QED
    BY <1>1, <2>1 DEF OneRequest
<1> QED
  BY <1>3, <1>4, <1>5 DEF IInv

LEMMA StutterStep ==
  ASSUME IInv, UNCHANGED vars
  PROVE  IInv'
<1>1. UNCHANGED <<exists, verified, doc, authUser, emailVerified, screen, listening, notices, told,
                  fetching, numberOfPushes, logInViews, isRememberMeOn, requested, answered,
                  defaults, crash, lastSignIn>>
  BY DEF vars
<1>2. TypeOK' /\ OneViewPushed'
  BY <1>1 DEF IInv, TypeOK, OneViewPushed
<1>3. LaunchSound' /\ FetchSound' /\ FlagSound' /\ (MaxInFlight = 1 => OneRequest')
  BY <1>1 DEF IInv, LaunchSound, FetchSound, FlagSound, OneRequest
<1>10. HistorySound'
  BY <1>1, HistoryKept
<1> QED
  BY <1>2, <1>3, <1>10 DEF IInv

LEMMA NextIInv ==
  ASSUME IInv, [Next]_vars
  PROVE  IInv'
<1>1. CASE AuthStateChanged
  BY <1>1, AuthStateChangedStep
<1>2. CASE SessionNotFetched
  BY <1>2, SessionNotFetchedStep
<1>3. CASE SessionFetched
  BY <1>3, SessionFetchedStep
<1>4. CASE LaunchDisappears
  BY <1>4, LaunchDisappearsStep
<1>5. ASSUME NEW on \in BOOLEAN, RememberMeSwitch(on)
      PROVE  IInv'
  BY <1>5, RememberMeSwitchStep
<1>6. ASSUME NEW a \in Accounts, SignIn(a) \/ ConstructDumpsite(a)
      PROVE  IInv'
  <2>1. PICK r \in Requests : Request(r)
    BY <1>6 DEF SignIn, ConstructDumpsite, Requests, Views, RememberMe
  <2>2. ~listening /\ screen # "launch" /\ screen # "feed"
    BY <1>6 DEF SignIn, ConstructDumpsite, At
  <2> QED
    BY <2>1, <2>2, RequestStep
<1>7. CASE AnswerOne
  BY <1>7, AnswerStep DEF AnswerOne
<1>8. CASE RefuseOne
  BY <1>8, RefuseStep DEF RefuseOne
<1>9. CASE SignedIn
  BY <1>9, SignedInStep
<1>10. CASE LogOut
  BY <1>10, LogOutStep
<1>11. CASE OpenCreateAccount
  BY <1>11, OpenCreateAccountStep
<1>12. ASSUME NEW v \in Views, DefaultsFetched(v)
       PROVE  IInv'
  BY <1>12, DefaultsFetchedStep
<1>13. CASE AccountCreated
  BY <1>13, AccountCreatedStep
<1>14. CASE OpenDumpsite
  BY <1>14, OpenDumpsiteStep
<1>15. ASSUME NEW a \in Accounts, Verify(a)
       PROVE  IInv'
  BY <1>15, VerifyStep
<1>16. CASE Relaunch
  BY <1>16, RelaunchStep
<1>17. CASE UNCHANGED vars
  BY <1>17, StutterStep
<1> QED
  BY <1>1, <1>2, <1>3, <1>4, <1>5, <1>6, <1>7, <1>8, <1>9, <1>10, <1>11, <1>12, <1>13, <1>14,
     <1>15, <1>16, <1>17 DEF Next

-----------------------------------------------------------------------------
(* The theorems. *)

\* The invariant holds in every state the app can reach.
THEOREM Invariance == Spec => []IInv
<1> QED
  BY InitIInv, NextIInv, PTL DEF Spec

\* Users, screens, switches and requests are what the code declares them to be.
THEOREM TypeCorrect == Spec => []TypeOK
<1>1. IInv => TypeOK
  BY DEF IInv
<1> QED
  BY <1>1, Invariance, PTL

\* numberOfPushes does its work: whatever calls the listener and however late
\* it is removed, the launch screen opens one Log In view at most.
THEOREM LogInViewOpenedOnce == Spec => []LogInOpenedOnce
<1>1. IInv => LogInOpenedOnce
  <2>1. IInv => logInViews \in {0, 1}
    BY DEF IInv, OneViewPushed
  <2> QED
    BY <2>1 DEF LogInOpenedOnce
<1> QED
  BY <1>1, Invariance, PTL

\* While one request to Auth is under way at a time, the feed is on screen for
\* verified addresses only.  Two requests break it: that is a finding.
THEOREM FeedIsForVerified == MaxInFlight = 1 => (Spec => []FeedOnlyForVerified)
<1> SUFFICES ASSUME MaxInFlight = 1
             PROVE  Spec => []FeedOnlyForVerified
  OBVIOUS
<1>1. IInv => FeedOnlyForVerified
  BY DEF IInv, OneRequest, FeedOnlyForVerified
<1> QED
  BY <1>1, Invariance, PTL

\* The launch screen lets nobody in without the password but the user Auth
\* signed in last, and him, if the app lived to see that sign-in completed, only
\* if he asked to be remembered in it: with any number of accounts, sign-ins
\* under way at once and covered views, and however the app is restarted.
THEOREM SessionsResumeRemembered == Spec => OnlyRememberedSessionsResume
<1>1. ASSUME IInv, [Next]_vars, screen = "launch", screen' = "feed"
      PROVE  /\ authUser' = lastSignIn.uid
             /\ lastSignIn.saved => lastSignIn.rememberMe = "on"
  <2>1. listening /\ answered = <<>>
    BY <1>1 DEF IInv, LaunchSound
  <2>2. SessionFetched
    <3>1. PushLogIn => screen' \in {"login", screen}
      BY DEF PushLogIn
    <3>2. ~AuthStateChanged /\ ~SessionNotFetched
      BY <1>1, <3>1 DEF AuthStateChanged, SessionNotFetched
    <3>3. ~LaunchDisappears /\ ~SignedIn /\ ~AccountCreated
      BY <1>1, <2>1 DEF LaunchDisappears, SignedIn, AccountCreated
    <3>4. ~LogOut /\ ~OpenCreateAccount /\ ~OpenDumpsite /\ ~Relaunch
      BY <1>1 DEF LogOut, OpenCreateAccount, OpenDumpsite, Relaunch
    <3>5. \A on \in BOOLEAN : ~RememberMeSwitch(on)
      BY <1>1 DEF RememberMeSwitch
    <3>6. \A a \in Accounts : ~SignIn(a) /\ ~ConstructDumpsite(a) /\ ~Verify(a)
      BY <1>1 DEF SignIn, ConstructDumpsite, At, Verify
    <3>7. \A v \in Views : ~DefaultsFetched(v)
      BY <1>1 DEF DefaultsFetched
    <3>8. ~AnswerOne /\ ~RefuseOne
      BY <1>1 DEF AnswerOne, RefuseOne, Answer, Refuse
    <3>9. ~UNCHANGED vars
      BY <1>1 DEF vars
    <3> QED
      BY <1>1, <3>2, <3>3, <3>4, <3>5, <3>6, <3>7, <3>8, <3>9 DEF Next
  <2>3. fetching # Nobody /\ fetching = authUser
    BY <1>1, <2>2 DEF SessionFetched, IInv, FetchSound
  <2>4. SessionIsOn(fetching) /\ UNCHANGED authUser
    <3>1. PushLogIn => screen' \in {"login", screen}
      BY DEF PushLogIn
    <3> QED
      BY <1>1, <2>2, <3>1 DEF SessionFetched, auth
  <2>5. doc[authUser] = "on" /\ authUser # Nobody
    BY <2>3, <2>4 DEF SessionIsOn
  <2> QED
    BY <1>1, <2>4, <2>5 DEF IInv, HistorySound
<1> QED
  BY <1>1, Invariance, PTL DEF Spec, OnlyRememberedSessionsResume
=============================================================================

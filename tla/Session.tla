------------------------------- MODULE Session -------------------------------
(***************************************************************************)
(* Who is signed in and which screen that opens, on one device:            *)
(* LaunchScreenViewController, LogInViewController,                        *)
(* CreateAccountViewController, DumpsiteConstructionViewController and the *)
(* log-out button of the profile.                                          *)
(*                                                                         *)
(* Firebase Auth changes its current user on a queue of its own and calls  *)
(* back on the main thread later; it keeps the user in the keychain, and   *)
(* Firestore keeps the documents, when the app is killed.                  *)
(***************************************************************************)
EXTENDS Integers, Sequences, FiniteSets

CONSTANTS
  Accounts,           \* e-mail addresses, one account each
  Nobody,             \* no user
  Never,              \* a listener that was not called yet
  DefaultRememberMe,  \* rememberMe in the document defaults/user
  MaxInFlight         \* bound on the sign-ins and creations under way

\* rememberMe of a user document: "null" when the switch was never touched.
RememberMe == {"null", "off", "on"}

ASSUME SessionAssumption ==
  /\ Nobody \notin Accounts
  /\ Never \notin Accounts \cup {Nobody}
  /\ DefaultRememberMe \in {"off", "on"}
  /\ MaxInFlight \in Nat \ {0}

VARIABLES
  exists, verified,  \* on the server: accounts, and those with a verified e-mail
  doc,               \* rememberMe of the user documents, "absent" without one
  authUser,          \* Auth.auth().currentUser
  emailVerified,     \* its isEmailVerified, as of the sign-in
  screen,
  listening,         \* the launch screen's authStateListener is registered
  notices,           \* calls of it that are queued
  told,              \* the user it was called with last
  fetching,          \* the user whose session checkUserSession is fetching
  numberOfPushes,
  logInViews,        \* Log In views the launch screen has opened
  isRememberMeOn,    \* of the Log In view on top
  defaults,          \* Create Account, on top or covered, has the default values
  requested,         \* requests to Auth under way
  answered,          \* completions waiting on the main queue
  crash,
  lastSignIn         \* for the properties: whom Auth signed in last, what was
                     \* asked then, and whether the completion has run since

vars == <<exists, verified, doc, authUser, emailVerified, screen, listening,
          notices, told, fetching, numberOfPushes, logInViews, isRememberMeOn,
          requested, answered, defaults, crash, lastSignIn>>

server == <<exists, verified>>
launch == <<listening, told, fetching, numberOfPushes, logInViews>>
auth   == <<authUser, emailVerified, notices>>
calls  == <<requested, answered>>

Screens == {"launch", "login", "create", "construction", "feed"}

\* Screens only pile up: a view that is covered is not seen again, but the
\* completions of its requests still run in it, with its switch as it was left.
Views == {"top", "covered"}

Requests == [kind : {"signIn", "create"}, uid : Accounts, view : Views,
             rememberMe : RememberMe]
Answers  == [kind : {"signIn", "create"}, uid : Accounts, view : Views,
             rememberMe : RememberMe, verified : BOOLEAN]

SignIns == [uid : Accounts \cup {Nobody}, rememberMe : RememberMe, saved : BOOLEAN]

Init ==
  /\ exists \in SUBSET Accounts
  /\ verified \in SUBSET exists
  /\ doc \in [Accounts -> {"absent"} \cup RememberMe]
  /\ \A a \in Accounts : a \in exists <=> doc[a] # "absent"
  /\ authUser = Nobody
  /\ emailVerified = FALSE
  /\ screen = "launch"
  /\ listening = TRUE
  /\ notices = 1
  /\ told = Never
  /\ fetching = Nobody
  /\ numberOfPushes = 0
  /\ logInViews = 0
  /\ isRememberMeOn = "null"
  /\ defaults = [v \in Views |-> FALSE]
  /\ requested = {}
  /\ answered = <<>>
  /\ crash = ""
  /\ lastSignIn = [uid |-> Nobody, rememberMe |-> "null", saved |-> FALSE]

-----------------------------------------------------------------------------
(* Firebase Auth *)

\* The current user changes; the listener, while registered, will be called.
SetUser(a, isVerified) ==
  /\ authUser' = a
  /\ emailVerified' = isVerified
  /\ notices' = IF listening /\ a # authUser THEN notices + 1 ELSE notices

SignOut == SetUser(Nobody, FALSE)

\* isRememberMeOn of the view that made a request.
SwitchOf(r) == IF r.view = "top" THEN isRememberMeOn ELSE r.rememberMe

\* A request succeeds: the user changes first, the completion is queued.
Answer(r) ==
  /\ crash = ""
  /\ r \in requested
  /\ requested' = requested \ {r}
  /\ IF r.kind = "create"
     THEN r.uid \notin exists /\ exists' = exists \cup {r.uid}
     ELSE r.uid \in exists /\ UNCHANGED exists
  /\ SetUser(r.uid, r.uid \in verified)
  /\ answered' = Append(answered, [kind |-> r.kind, uid |-> r.uid, view |-> r.view,
                                   rememberMe |-> r.rememberMe,
                                   verified |-> r.uid \in verified])
  /\ lastSignIn' = [uid |-> r.uid, saved |-> FALSE,
                    rememberMe |-> IF r.kind = "create" THEN DefaultRememberMe ELSE SwitchOf(r)]
  /\ UNCHANGED <<verified, doc, screen, launch, isRememberMeOn, defaults, crash>>

\* A request fails: wrong password, address in use, no connection.
Refuse(r) ==
  /\ crash = ""
  /\ r \in requested
  /\ requested' = requested \ {r}
  /\ UNCHANGED <<server, doc, auth, screen, launch, isRememberMeOn, answered,
                 defaults, crash, lastSignIn>>

\* The owner follows the link in the verification mail.
Verify(a) ==
  /\ a \in exists
  /\ verified' = verified \cup {a}
  /\ UNCHANGED <<exists, doc, auth, screen, launch, isRememberMeOn, calls,
                 defaults, crash, lastSignIn>>

-----------------------------------------------------------------------------
(* LaunchScreenViewController *)

\* Variant: every notice opens a Log In view.
PushLogInAgain ==
  /\ numberOfPushes' = numberOfPushes + 1
  /\ logInViews' = logInViews + 1
  /\ screen' = "login"

\* The push to Log In, made at most once.
PushLogIn ==
  /\ numberOfPushes' = numberOfPushes + 1
  /\ IF numberOfPushes' = 1
     THEN logInViews' = logInViews + 1 /\ screen' = "login"
     ELSE UNCHANGED <<logInViews, screen>>

\* Variant: the user of the call before is looked up.
CheckUserSessionOfTold == fetching' = told

\* The first half of checkUserSession.
CheckUserSession == fetching' = authUser

\* The authentication listener: it is called once, and then when the user is
\* not the one of the last call.
AuthStateChanged ==
  /\ crash = ""
  /\ listening /\ notices > 0
  /\ notices' = notices - 1
  /\ told' = authUser
  /\ \/ /\ told = authUser
        /\ UNCHANGED <<fetching, numberOfPushes, logInViews, screen>>
     \/ /\ told # authUser /\ authUser = Nobody
        /\ PushLogIn
        /\ UNCHANGED fetching
     \/ /\ told # authUser /\ authUser # Nobody
        /\ CheckUserSession
        /\ UNCHANGED <<numberOfPushes, logInViews, screen>>
  /\ UNCHANGED <<server, doc, authUser, emailVerified, listening, isRememberMeOn,
                 calls, defaults, crash, lastSignIn>>

\* rememberMe, false when it is null.
SessionIsOn(a) == doc[a] = "on"

\* Variant: the error is only printed.
SessionNotFetchedSilent ==
  /\ crash = ""
  /\ fetching # Nobody
  /\ fetching' = Nobody
  /\ UNCHANGED <<server, doc, auth, screen, listening, told, numberOfPushes, logInViews,
                 isRememberMeOn, calls, defaults, crash, lastSignIn>>

\* checkUserSession's getDocument fails.
SessionNotFetched ==
  /\ crash = ""
  /\ fetching # Nobody
  /\ fetching' = Nobody
  /\ PushLogIn
  /\ UNCHANGED <<server, doc, auth, listening, told, isRememberMeOn, calls,
                 defaults, crash, lastSignIn>>

\* ... or answers: data() of a document that does not exist is nil, and is
\* unwrapped; then the completion handler decides where to go.
SessionFetched ==
  /\ crash = ""
  /\ fetching # Nobody
  /\ fetching' = Nobody
  /\ \/ /\ doc[fetching] = "absent"
        /\ crash' = "noDocument"
        /\ UNCHANGED <<auth, numberOfPushes, logInViews, screen>>
     \/ /\ doc[fetching] # "absent" /\ SessionIsOn(fetching) /\ emailVerified
        /\ screen' = "feed"
        /\ UNCHANGED <<auth, numberOfPushes, logInViews, crash>>
     \/ /\ doc[fetching] # "absent" /\ ~(SessionIsOn(fetching) /\ emailVerified)
        /\ SignOut
        /\ PushLogIn
        /\ UNCHANGED crash
  /\ UNCHANGED <<server, doc, listening, told, isRememberMeOn, calls, defaults, lastSignIn>>

\* viewWillDisappear, somewhat after the push that causes it.
LaunchDisappears ==
  /\ crash = ""
  /\ listening
  /\ screen # "launch"
  /\ listening' = FALSE
  /\ notices' = 0
  /\ UNCHANGED <<server, doc, authUser, emailVerified, screen, told, fetching,
                 numberOfPushes, logInViews, isRememberMeOn, calls, defaults, crash, lastSignIn>>

\* Screens are used once the launch screen has gone.
At(s) == crash = "" /\ screen = s /\ ~listening

-----------------------------------------------------------------------------
\* Another Log In or Create Account view covers the one with requests.
Covered(r) ==
  IF r.view = "top" THEN [r EXCEPT !.view = "covered", !.rememberMe = isRememberMeOn] ELSE r

CoverRequests ==
  /\ requested' = {Covered(r) : r \in requested}
  /\ answered' = [i \in DOMAIN answered |-> Covered(answered[i])]

CoverLogIn ==
  /\ CoverRequests
  /\ isRememberMeOn' = "null"

CoverCreateAccount ==
  /\ CoverRequests
  /\ defaults' = [top |-> FALSE, covered |-> defaults.top]

-----------------------------------------------------------------------------
(* LogInViewController and the log-out button *)

RememberMeSwitch(on) ==
  /\ At("login")
  /\ isRememberMeOn' = IF on THEN "on" ELSE "off"
  /\ UNCHANGED <<server, doc, auth, screen, launch, calls, defaults, crash, lastSignIn>>

Request(r) ==
  /\ Cardinality(requested) + Len(answered) < MaxInFlight
  /\ requested' = requested \cup {r}
  /\ UNCHANGED <<server, doc, auth, screen, launch, isRememberMeOn, answered,
                 defaults, crash, lastSignIn>>

SignIn(a) ==
  At("login") /\ Request([kind |-> "signIn", uid |-> a, view |-> "top", rememberMe |-> "null"])

\* For the properties: a completion has run.
Saved(answer, rememberMe) ==
  lastSignIn' = IF answer.uid = lastSignIn.uid
                THEN [uid |-> answer.uid, rememberMe |-> rememberMe, saved |-> TRUE]
                ELSE lastSignIn

\* Variant: a switch that was not touched changes nothing.
UserSessionUpdatedIfTouched(answer) ==
  IF doc[answer.uid] = "absent" \/ SwitchOf(answer) = "null" THEN doc
  ELSE [doc EXCEPT ![answer.uid] = SwitchOf(answer)]

\* updateUserSession, which cannot update a document that does not exist.
UserSessionUpdated(answer) ==
  IF doc[answer.uid] = "absent" THEN doc
  ELSE [doc EXCEPT ![answer.uid] = SwitchOf(answer)]

\* Variant: the page opens first and the e-mail is checked there.
SignedInUnchecked ==
  /\ crash = ""
  /\ answered # <<>> /\ Head(answered).kind = "signIn"
  /\ answered' = Tail(answered)
  /\ doc' = UserSessionUpdated(Head(answered))
  /\ Saved(Head(answered), SwitchOf(Head(answered)))
  /\ screen' = IF Head(answered).view = "top" THEN "feed" ELSE screen
  /\ UNCHANGED <<server, auth, requested, launch, isRememberMeOn, defaults, crash>>

\* The completion of signIn: updateUserSession, then the feed or a sign-out of
\* whoever is the user by now.  A covered view pushes the feed out of sight.
SignedIn ==
  /\ crash = ""
  /\ answered # <<>> /\ Head(answered).kind = "signIn"
  /\ answered' = Tail(answered)
  /\ doc' = UserSessionUpdated(Head(answered))
  /\ Saved(Head(answered), SwitchOf(Head(answered)))
  /\ IF Head(answered).verified
     THEN /\ screen' = IF Head(answered).view = "top" THEN "feed" ELSE screen
          /\ UNCHANGED auth
     ELSE SignOut /\ UNCHANGED screen
  /\ UNCHANGED <<server, requested, launch, isRememberMeOn, defaults, crash>>

LogOut ==
  /\ At("feed")
  /\ SignOut
  /\ screen' = "login"
  /\ CoverLogIn
  /\ UNCHANGED <<server, doc, launch, defaults, crash, lastSignIn>>

-----------------------------------------------------------------------------
(* CreateAccountViewController and DumpsiteConstructionViewController *)

OpenCreateAccount ==
  /\ At("login")
  /\ screen' = "create"
  /\ CoverLogIn
  /\ UNCHANGED <<server, doc, auth, launch, defaults, crash, lastSignIn>>

\* The answer to getDefaultUserValues, in a view that is covered as well.
DefaultsFetched(v) ==
  /\ crash = ""
  /\ v = "top" => At("create")
  /\ v = "covered" => \E r \in requested \cup {answered[i] : i \in DOMAIN answered} : r.kind = "create" /\ r.view = v
  /\ ~defaults[v]
  /\ defaults' = [defaults EXCEPT ![v] = TRUE]
  /\ UNCHANGED <<server, doc, auth, screen, launch, isRememberMeOn, calls, crash, lastSignIn>>

ConstructDumpsite(a) ==
  At("create") /\ Request([kind |-> "create", uid |-> a, view |-> "top", rememberMe |-> "null"])

\* The completion of createUser: the user document, for which the defaults
\* must have arrived, and the mail, whose answer opens the next screen if the
\* view is not covered by then.
AccountCreated ==
  /\ crash = ""
  /\ answered # <<>> /\ Head(answered).kind = "create"
  /\ answered' = Tail(answered)
  /\ IF defaults[Head(answered).view]
     THEN /\ doc' = [doc EXCEPT ![Head(answered).uid] = DefaultRememberMe]
          /\ Saved(Head(answered), DefaultRememberMe)
          /\ screen' \in {screen} \cup IF Head(answered).view = "top" THEN {"construction"} ELSE {}
          /\ UNCHANGED crash
     ELSE crash' = "noDefaults" /\ UNCHANGED <<doc, screen, lastSignIn>>
  /\ UNCHANGED <<server, auth, requested, launch, isRememberMeOn, defaults>>

\* The buttons of both screens that lead to a new Log In view.
OpenDumpsite ==
  /\ At("create") \/ At("construction")
  /\ screen' = "login"
  /\ CoverCreateAccount
  /\ UNCHANGED <<server, doc, auth, launch, isRememberMeOn, crash, lastSignIn>>

-----------------------------------------------------------------------------
\* The app is killed, or has crashed, and is started again.
Relaunch ==
  /\ screen' = "launch"
  /\ listening' = TRUE
  /\ notices' = 1
  /\ told' = Never
  /\ fetching' = Nobody
  /\ numberOfPushes' = 0
  /\ logInViews' = 0
  /\ isRememberMeOn' = "null"
  /\ defaults' = [v \in Views |-> FALSE]
  /\ requested' = {}
  /\ answered' = <<>>
  /\ crash' = ""
  /\ UNCHANGED <<server, doc, authUser, emailVerified, lastSignIn>>

AnswerOne == \E r \in Requests : Answer(r)
RefuseOne == \E r \in Requests : Refuse(r)

Next ==
  \/ AuthStateChanged
  \/ SessionNotFetched
  \/ SessionFetched
  \/ LaunchDisappears
  \/ \E on \in BOOLEAN : RememberMeSwitch(on)
  \/ \E a \in Accounts : SignIn(a)
  \/ AnswerOne
  \/ RefuseOne
  \/ SignedIn
  \/ LogOut
  \/ OpenCreateAccount
  \/ \E v \in Views : DefaultsFetched(v)
  \/ \E a \in Accounts : ConstructDumpsite(a)
  \/ AccountCreated
  \/ OpenDumpsite
  \/ \E a \in Accounts : Verify(a)
  \/ Relaunch

Spec == Init /\ [][Next]_vars

\* The main queue is drained and a fetch is answered one way or the other.
Fairness == /\ WF_vars(AuthStateChanged)
            /\ WF_vars(SessionFetched \/ SessionNotFetched)
            /\ WF_vars(LaunchDisappears)

FairSpec == Spec /\ Fairness

-----------------------------------------------------------------------------
(* Properties *)

TypeOK ==
  /\ exists \subseteq Accounts /\ verified \subseteq exists
  /\ doc \in [Accounts -> {"absent"} \cup RememberMe]
  /\ authUser \in exists \cup {Nobody}
  /\ emailVerified \in BOOLEAN
  /\ screen \in Screens
  /\ listening \in BOOLEAN
  /\ notices \in Nat
  /\ told \in Accounts \cup {Nobody, Never}
  /\ fetching \in Accounts \cup {Nobody}
  /\ numberOfPushes \in Nat /\ logInViews \in Nat
  /\ isRememberMeOn \in RememberMe
  /\ defaults \in [Views -> BOOLEAN]
  /\ requested \subseteq Requests
  /\ answered \in Seq(Answers)
  /\ crash \in {"", "noDocument", "noDefaults"}
  /\ lastSignIn \in SignIns

\* The feed is only ever on screen for a signed-in user with a verified
\* address, however the app was left and restarted before: the flag checked
\* is a copy from the last sign-in, on whatever path led there.
FeedOnlyForVerified == screen = "feed" => authUser \in verified

\* "Prevents repeat of push": signing out from the listener calls it again,
\* possibly before it is removed, and still one Log In view is opened.
LogInOpenedOnce == logInViews <= 1

\* A session is only resumed, without the password, for the user Auth signed in
\* last, and only if he asked for it in that sign-in, as the switch was left in
\* the view it was made in, or was given the default in creating the account.
\* The exception is a sign-in the app was killed in, before its completion: Auth
\* keeps the user, and the start goes by what he wanted the time before.
OnlyRememberedSessionsResume ==
  [][(screen = "launch" /\ screen' = "feed")
        => /\ authUser' = lastSignIn.uid
           /\ lastSignIn.saved => lastSignIn.rememberMe = "on"]_vars

\* Unless the app is killed over and over, the launch screen is left, although
\* every way out hangs on a callback and signing out calls the listener again.
LaunchIsLeft ==
  <>[][~Relaunch]_vars => (screen = "launch" ~> (screen # "launch" \/ crash # ""))

\* "If user document doesn't exists, ask user to create another account and
\* apologize" (checkUserSession).  Checked to fail: the app stops before it
\* gets there, and does so again at every start.
MissingDocumentIsHandled == crash # "noDocument"
=============================================================================

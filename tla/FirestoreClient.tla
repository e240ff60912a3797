---------------------------- MODULE FirestoreClient ----------------------------
(***************************************************************************)
(* The part of the Firestore client the app's writes and listeners go      *)
(* through, on one device: FSTLocalStore with the mutation queues and the  *)
(* remote document cache on disk, FSTRemoteStore with its write pipeline,  *)
(* and the write stream.  Every write of the app is of one document: set   *)
(* (setData, addDocument), updated (updateData) or deleted (delete).       *)
(* What a document holds is known by the last write in it, a position of   *)
(* the log: the fields an update or a merge leaves alone are not told      *)
(* apart.                                                                  *)
(*                                                                         *)
(* Assumed of the server: it commits the requests of a stream in order and *)
(* answers in order, an update only of a document that exists; what it has *)
(* not committed when a stream breaks is discarded; a listen is first      *)
(* answered with a state no older than the listen, and tells of deletions  *)
(* too (the client's lookup of documents that left a query is not          *)
(* modelled).  All listeners are one target: the app listens to whole      *)
(* collections.                                                            *)
(***************************************************************************)
EXTENDS Integers, Sequences, FiniteSetsExt, SequencesExt

CONSTANTS
  Keys,          \* names of documents
  Users,         \* who may be signed in
  FirstUser,     \* who is at first
  MaxPipeline,   \* kMaxPendingWrites: writes sent ahead of their answers
  Limits         \* what is explored: a set of bounds, see below

Kinds == {"set", "update", "delete"}

Changes == [key : Keys, kind : Kinds]

ASSUME FirestoreClientAssumption ==
  /\ FirstUser \in Users
  /\ MaxPipeline \in Nat \ {0}
  /\ \A l \in Limits :
        /\ l.writes \in Seq(SUBSET Changes)  \* what each successive write may do
        /\ l.elsewhere \in Nat               \* writes of other devices
        /\ l.faults \in Nat                  \* streams that break
        /\ l.restarts \in Nat                \* launches and changes of the credential

\* The writes of this device are numbered; those of others look the same.
Writes == UNION {DOMAIN l.writes : l \in Limits}
Elsewhere == 0

Unknown == -1   \* kFSTBatchIDUnknown
Off == -1       \* no target is listened to
Refused == -1   \* a permanent error in place of a version

VARIABLES
  log,         \* the server: the writes committed, in order
  requests,    \* batches on their way to the server
  responses,   \* commit versions on their way back
  mutations,   \* disk: per user, the batches not yet reflected in remoteDocs
  lastAcked,   \* disk: per user, lastAcknowledgedBatchId
  remoteDocs,  \* disk: per document, the version cached, or 0
  lastRemote,  \* disk: lastRemoteSnapshotVersion
  user,        \* whose mutation queue is open
  nextBatchID, \* of the open queue
  held,        \* heldBatchResults: batches acknowledged but not yet heard of
  pipeline,    \* writePipeline
  stream,      \* the write stream
  target,      \* Off, or the version the next snapshot has at least
  author,      \* history: each of this device's writes, and who made it
  refused,     \* history: the writes the server refused
  dropped,     \* history: acknowledged writes given up when a queue was opened
  limits,      \* the bounds this behaviour keeps
  elsewhere, faults, restarts,  \* how much of them is used
  crash        \* the assertion that failed, or ""

disk == <<mutations, lastAcked, remoteDocs, lastRemote>>
memory == <<user, nextBatchID, held, target>>
history == <<author, refused, dropped>>
used == <<limits, elsewhere, faults, restarts>>
vars == <<log, requests, responses, disk, memory, pipeline, stream, history, used, crash>>

Batches == [id : Nat, key : Keys, kind : Kinds, write : Writes]
Results == [batch : Batches, version : Nat]

\* opening: token, connection and handshake, or the backoff before them.
StreamStates == {"stopped", "opening", "ready"}

Positions(k, v) == {i \in DOMAIN log : i <= v /\ log[i].key = k}

\* The version of a document as of version v.
DocAt(k, v) == Max(Positions(k, v) \cup {0})

Ids(batches) == {batches[i].id : i \in DOMAIN batches}

\* Whether that version of a document is there, or absent or deleted.
HasDocument(version) == version # 0 /\ log[version].kind # "delete"

Entry(b) == [key |-> b.key, kind |-> b.kind, value |-> b.write]

-----------------------------------------------------------------------------
(* The mutation queue *)

\* The elements of a sequence at some of its positions, in order.
Selected(s, positions) ==
  LET Rank(p) == Cardinality({q \in positions : q <= p})
  IN  [n \in 1 .. Cardinality(positions) |-> s[CHOOSE p \in positions : Rank(p) = n]]

\* Variant: acknowledged batches that are held are found as well.
AfterAnyway(batches, id, acked) ==
  Selected(batches, {i \in DOMAIN batches : batches[i].id > id})

\* nextMutationBatchAfterBatchID, repeated: the batches after one of the open
\* queue that are not acknowledged.
After(batches, id, acked) ==
  Selected(batches, {i \in DOMAIN batches : batches[i].id > id /\ batches[i].id > acked})

Without(batches, ids) ==
  Selected(batches, {i \in DOMAIN batches : batches[i].id \notin ids})

\* Variant: the highest number, not the one after it.
HighestBatchID == Max({Unknown} \cup UNION {Ids(mutations[u]) : u \in Users})

\* loadNextBatchIDFromDB looks at the queues of all users.
NextBatchID == 1 + Max({Unknown} \cup UNION {Ids(mutations[u]) : u \in Users})

\* Variant: the acknowledgements of an empty queue are kept.
LastAckedKept(u) == lastAcked[u]

\* Batch numbers start over when there are no batches; the old
\* acknowledgements must not apply to new batches.
LastAckedAtStart(u) == IF lastAcked[u] >= NextBatchID THEN Unknown ELSE lastAcked[u]

\* startMutationQueue: what was acknowledged in an earlier run is removed.
OpenQueue(u) ==
  LET acked == LastAckedAtStart(u)
      old   == {b \in Range(mutations[u]) : b.id <= acked}
  IN  /\ user' = u
      /\ nextBatchID' = NextBatchID
      /\ lastAcked' = [lastAcked EXCEPT ![u] = acked]
      /\ mutations' = [mutations EXCEPT ![u] = Without(@, {b.id : b \in old})]
      /\ dropped' = dropped \cup {b.write : b \in old}
      /\ held' = <<>>
      /\ crash' = IF lastAcked[u] >= NextBatchID /\ mutations[u] # <<>>
                  THEN "queueNotEmpty" ELSE crash

-----------------------------------------------------------------------------
(* The write pipeline *)

\* fillWritePipeline adds batches of the open queue while there is room.  A
\* batch added goes out at once on an open stream; else the stream is started
\* and its handshake sends the whole pipeline.
FillPipeline(p, reqs, state, batches, acked) ==
  LET lastID == IF p = <<>> THEN Unknown ELSE Last(p).id
      rest   == After(batches, lastID, acked)
      added  == SubSeq(rest, 1, Min({Len(rest), MaxPipeline - Len(p)}))
  IN  /\ pipeline' = p \o added
      /\ requests' = IF state = "ready" THEN reqs \o added ELSE <<>>
      /\ stream' = IF state = "stopped" /\ pipeline' # <<>> THEN "opening" ELSE state

\* The app sets, updates or deletes a document.
Write(k, kind) ==
  LET w == Len(author) + 1
      b == [id |-> nextBatchID, key |-> k, kind |-> kind, write |-> w]
  IN  /\ crash = ""
      /\ w \in DOMAIN limits.writes /\ [key |-> k, kind |-> kind] \in limits.writes[w]
      /\ author' = Append(author, [key |-> k, kind |-> kind, user |-> user])
      /\ nextBatchID' = nextBatchID + 1
      /\ mutations' = [mutations EXCEPT ![user] = Append(@, b)]
      /\ FillPipeline(pipeline, requests, stream, mutations'[user], lastAcked[user])
      /\ UNCHANGED <<log, responses, lastAcked, remoteDocs, lastRemote, user,
                     held, target, refused, dropped, used, crash>>

\* Variant: the handshake sends everything in the queue.
HandshakeWithAll ==
  /\ crash = ""
  /\ stream = "opening"
  /\ stream' = "ready"
  /\ requests' = mutations[user]
  /\ UNCHANGED <<log, responses, disk, memory, pipeline, history, used, crash>>

\* writeStreamDidCompleteHandshake.  The stream token is not sent back, so the
\* server does not know which of these it has committed already.
Handshake ==
  /\ crash = ""
  /\ stream = "opening"
  /\ stream' = "ready"
  /\ requests' = pipeline
  /\ UNCHANGED <<log, responses, disk, memory, pipeline, history, used, crash>>

-----------------------------------------------------------------------------
(* Acknowledgements *)

\* applyBatchResult, for a document older than the write.  An update has the
\* precondition that there is a document: without one nothing is cached.
ApplyResult(docs, r) ==
  IF /\ docs[r.batch.key] < r.version
     /\ r.batch.kind = "update" => HasDocument(docs[r.batch.key])
  THEN [docs EXCEPT ![r.batch.key] = r.version]
  ELSE docs

\* The cache after the results of batches are applied to it in turn.
WithResults(docs, results) ==
  LET after[n \in 0 .. Len(results)] ==
        IF n = 0 THEN docs ELSE ApplyResult(after[n - 1], results[n])
  IN  after[Len(results)]

\* Variant: the batches go without a trace in the cache.
ReleaseUncached(results, n, docs) ==
  LET done == SubSeq(results, 1, n)
  IN  /\ remoteDocs' = docs
      /\ mutations' = [mutations EXCEPT ![user] =
                         Without(@, {r.batch.id : r \in Range(done)})]
      /\ held' = SubSeq(results, n + 1, Len(results))

\* releaseBatchResults for the first n of some results.
Release(results, n, docs) ==
  LET done == SubSeq(results, 1, n)
  IN  /\ remoteDocs' = WithResults(docs, done)
      /\ mutations' = [mutations EXCEPT ![user] =
                         Without(@, {r.batch.id : r \in Range(done)})]
      /\ held' = SubSeq(results, n + 1, Len(results))

\* releaseHeldBatchResults: up to the first result the remote is not up to.
UpTo(results, v) ==
  Max({n \in 0 .. Len(results) : \A i \in 1 .. n : results[i].version <= v})

\* Variant: an acknowledged batch is never held.
AcknowledgeAtOnce(result) ==
  Release(Append(held, result), Len(held) + 1, remoteDocs)

\* acknowledgeBatchWithResult.  The result is held until the listeners have
\* heard of the write, unless there are none to hear of it.
Acknowledge(result) ==
  LET upToDate == result.version <= lastRemote \/ target = Off
  IN  IF upToDate /\ held = <<>>
      THEN Release(<<result>>, 1, remoteDocs)
      ELSE held' = Append(held, result) /\ UNCHANGED <<mutations, remoteDocs>>

\* writeStreamDidReceiveResponse: the answer is for the first write of the
\* pipeline.
ReceiveResponse ==
  /\ crash = ""
  /\ responses # <<>>
  /\ Head(responses) # Refused
  /\ responses' = Tail(responses)
  /\ IF pipeline = <<>> \/ Head(pipeline).id <= lastAcked[user]
     THEN /\ crash' = IF pipeline = <<>> THEN "emptyPipeline" ELSE "ackOrder"
          /\ UNCHANGED <<disk, held, pipeline, requests, stream>>
     ELSE LET b == Head(pipeline)
          IN  /\ lastAcked' = [lastAcked EXCEPT ![user] = b.id]
              /\ Acknowledge([batch |-> b, version |-> Head(responses)])
              /\ FillPipeline(Tail(pipeline), requests, stream, mutations'[user], b.id)
              /\ UNCHANGED <<lastRemote, crash>>
  /\ UNCHANGED <<log, user, nextBatchID, target, history, used>>

\* handleWriteError with a permanent error: the first write of the pipeline
\* is to blame; it is rejected and the stream started again for the others.
ReceiveRefusal ==
  /\ crash = ""
  /\ responses # <<>>
  /\ Head(responses) = Refused
  /\ responses' = <<>>
  /\ IF pipeline = <<>> \/ Head(pipeline).id <= lastAcked[user]
     THEN /\ crash' = IF pipeline = <<>> THEN "emptyPipeline" ELSE "rejectAcked"
          /\ UNCHANGED <<mutations, pipeline, requests, stream, refused>>
     ELSE LET b == Head(pipeline)
          IN  /\ mutations' = [mutations EXCEPT ![user] = Without(@, {b.id})]
              /\ refused' = refused \cup {b.write}
              /\ FillPipeline(Tail(pipeline), <<>>, "stopped", mutations'[user], lastAcked[user])
              /\ UNCHANGED crash
  /\ UNCHANGED <<log, lastAcked, remoteDocs, lastRemote, memory, author,
                 dropped, used>>

\* Variant: answers of the broken stream are still received.
InterruptedAnswering ==
  /\ crash = ""
  /\ faults < limits.faults
  /\ stream # "stopped"
  /\ faults' = faults + 1
  /\ stream' = IF pipeline = <<>> THEN "stopped" ELSE "opening"
  /\ requests' = <<>>
  /\ UNCHANGED <<log, responses, disk, memory, pipeline, history, limits,
                 elsewhere, restarts, crash>>

\* Variant: the stream is started again by the next write only.
InterruptedForGood ==
  /\ crash = ""
  /\ faults < limits.faults
  /\ stream # "stopped"
  /\ faults' = faults + 1
  /\ stream' = "stopped"
  /\ requests' = <<>>
  /\ responses' = <<>>
  /\ UNCHANGED <<log, disk, memory, pipeline, history, limits, elsewhere,
                 restarts, crash>>

\* The write stream breaks and is started again if there is anything to send.
\* What the server has not answered, and the answers under way, are lost.
Interrupted ==
  /\ crash = ""
  /\ faults < limits.faults
  /\ stream # "stopped"
  /\ faults' = faults + 1
  /\ stream' = IF pipeline = <<>> THEN "stopped" ELSE "opening"
  /\ requests' = <<>>
  /\ responses' = <<>>
  /\ UNCHANGED <<log, disk, memory, pipeline, history, limits, elsewhere,
                 restarts, crash>>

\* handleIdleCloseTimer: a stream with nothing to send is closed.
IdleClose ==
  /\ crash = ""
  /\ stream = "ready"
  /\ pipeline = <<>>
  /\ stream' = "stopped"
  /\ UNCHANGED <<log, requests, responses, disk, memory, pipeline, history,
                 used, crash>>

-----------------------------------------------------------------------------
(* Listening *)

\* The first listener: the target is allocated and watched.
Listen ==
  /\ crash = ""
  /\ target = Off
  /\ target' = Len(log)
  /\ UNCHANGED <<log, requests, responses, disk, user, nextBatchID, held,
                 pipeline, stream, history, used, crash>>

\* The last listener is removed: no more snapshots will release what is held.
StopListening ==
  /\ crash = ""
  /\ target # Off
  /\ target' = Off
  /\ Release(held, Len(held), remoteDocs)
  /\ UNCHANGED <<log, requests, responses, lastAcked, lastRemote, user,
                 nextBatchID, pipeline, stream, history, used, crash>>

\* Variant: a document with queued writes keeps its cached version.
WithSnapshotUnlessQueued(v) ==
  [k \in Keys |-> IF DocAt(k, v) > lastRemote /\ \A b \in Range(mutations[user]) : b.key # k
                  THEN DocAt(k, v) ELSE remoteDocs[k]]

\* The cache after the documents changed since the last snapshot replace the
\* cached ones.
WithSnapshot(v) ==
  [k \in Keys |-> IF DocAt(k, v) > lastRemote THEN DocAt(k, v) ELSE remoteDocs[k]]

\* applyRemoteEvent with the state of version v; what was held up to then is
\* released.
Snapshot(v) ==
  /\ crash = ""
  /\ target # Off
  /\ v \in target .. Len(log)
  /\ v > lastRemote
  /\ lastRemote' = v
  /\ target' = 0
  /\ Release(held, UpTo(held, v), WithSnapshot(v))
  /\ UNCHANGED <<log, requests, responses, lastAcked, user, nextBatchID,
                 pipeline, stream, history, used, crash>>

-----------------------------------------------------------------------------
(* The user and the process *)

\* credentialDidChangeWithUser: another user's queue is opened; in any case
\* both streams are stopped, the pipeline emptied and filled again.
CredentialChange(u) ==
  /\ crash = ""
  /\ restarts < limits.restarts
  /\ restarts' = restarts + 1
  /\ IF u = user
     THEN UNCHANGED <<user, nextBatchID, lastAcked, mutations, dropped, held, crash>>
     ELSE OpenQueue(u)
  /\ responses' = <<>>
  /\ FillPipeline(<<>>, <<>>, "stopped", mutations'[u], lastAcked'[u])
  /\ UNCHANGED <<log, remoteDocs, lastRemote, target, author, refused, limits,
                 elsewhere, faults>>

\* The process dies at any moment and the app is started again.
Relaunch ==
  /\ crash = ""
  /\ restarts < limits.restarts
  /\ restarts' = restarts + 1
  /\ OpenQueue(user)
  /\ target' = Off
  /\ responses' = <<>>
  /\ FillPipeline(<<>>, <<>>, "stopped", mutations'[user], lastAcked'[user])
  /\ UNCHANGED <<log, remoteDocs, lastRemote, author, refused, limits,
                 elsewhere, faults>>

-----------------------------------------------------------------------------
(* The server and the other devices *)

Serving == crash = "" /\ requests # <<>> /\ Refused \notin Range(responses)

\* An update of a document that is not there can only be refused.
ServerCommit ==
  /\ Serving
  /\ Head(requests).kind = "update" => HasDocument(DocAt(Head(requests).key, Len(log)))
  /\ log' = Append(log, Entry(Head(requests)))
  /\ requests' = Tail(requests)
  /\ responses' = Append(responses, Len(log'))
  /\ UNCHANGED <<disk, memory, pipeline, stream, history, used, crash>>

\* The write is refused for good and the stream ends.
ServerRefuse ==
  /\ Serving
  /\ requests' = <<>>
  /\ responses' = Append(responses, Refused)
  /\ UNCHANGED <<log, disk, memory, pipeline, stream, history, used, crash>>

\* An update that succeeds looks like a set from here.
WriteElsewhere(k, kind) ==
  /\ crash = ""
  /\ elsewhere < limits.elsewhere
  /\ kind # "update"
  /\ elsewhere' = elsewhere + 1
  /\ log' = Append(log, [key |-> k, kind |-> kind, value |-> Elsewhere])
  /\ UNCHANGED <<requests, responses, disk, memory, pipeline, stream, history,
                 limits, faults, restarts, crash>>

-----------------------------------------------------------------------------
Init ==
  /\ log = <<>> /\ requests = <<>> /\ responses = <<>>
  /\ mutations = [u \in Users |-> <<>>]
  /\ lastAcked = [u \in Users |-> Unknown]
  /\ remoteDocs = [k \in Keys |-> 0]
  /\ lastRemote = 0
  /\ user = FirstUser
  /\ nextBatchID = 0
  /\ held = <<>> /\ pipeline = <<>>
  /\ stream = "stopped"
  /\ target = Off
  /\ author = <<>> /\ refused = {} /\ dropped = {}
  /\ limits \in Limits
  /\ elsewhere = 0 /\ faults = 0 /\ restarts = 0
  /\ crash = ""

Next ==
  \/ \E k \in Keys, kind \in Kinds : Write(k, kind)
  \/ Handshake
  \/ ReceiveResponse
  \/ ReceiveRefusal
  \/ Interrupted
  \/ IdleClose
  \/ Listen
  \/ StopListening
  \/ \E v \in 1 .. Len(log) : Snapshot(v)
  \/ \E u \in Users : CredentialChange(u)
  \/ Relaunch
  \/ ServerCommit
  \/ ServerRefuse
  \/ \E k \in Keys, kind \in Kinds : WriteElsewhere(k, kind)

Spec == Init /\ [][Next]_vars

\* Connecting is retried with backoff until it succeeds, the server answers
\* what it is sent and tells listeners what it has.
Fairness ==
  /\ WF_vars(Handshake)
  /\ WF_vars(ServerCommit \/ ServerRefuse)
  /\ WF_vars(ReceiveResponse \/ ReceiveRefusal)
  /\ WF_vars(Snapshot(Len(log)))

FairSpec == Spec /\ Fairness

-----------------------------------------------------------------------------
(* Properties *)

TypeOK ==
  /\ log \in Seq([key : Keys, kind : Kinds, value : Writes \cup {Elsewhere}])
  /\ requests \in Seq(Batches) /\ pipeline \in Seq(Batches)
  /\ responses \in Seq(Nat \cup {Refused})
  /\ mutations \in [Users -> Seq(Batches)]
  /\ lastAcked \in [Users -> Nat \cup {Unknown}]
  /\ remoteDocs \in [Keys -> Nat]
  /\ lastRemote \in Nat /\ nextBatchID \in Nat
  /\ user \in Users
  /\ held \in Seq(Results)
  /\ stream \in StreamStates
  /\ target \in Nat \cup {Off}
  /\ author \in Seq([key : Keys, kind : Kinds, user : Users])
  /\ refused \subseteq Writes /\ dropped \subseteq Writes
  /\ limits \in Limits
  /\ elsewhere \in 0 .. limits.elsewhere /\ faults \in 0 .. limits.faults
  /\ restarts \in 0 .. limits.restarts
  /\ crash \in {"", "queueNotEmpty", "emptyPipeline", "ackOrder", "rejectAcked"}

\* Batch numbers are dealt out per launch and per user while acknowledgements
\* are kept per user on disk.  Whatever the order of launches, sign-ins,
\* errors and answers, no assertion of the client fails and no answer finds
\* the pipeline empty.
NoAssertionFails == crash = ""

Places(w) == {i \in DOMAIN log : log[i].value = w}

Queued(w) == \E u \in Users : \E b \in Range(mutations[u]) : b.write = w
ToSend(w) == \E u \in Users : \E b \in Range(mutations[u]) :
                b.write = w /\ b.id > lastAcked[u]

\* Every write the app ever made is either still to be sent, committed by the
\* server, or refused: neither a crash between two steps nor a queue opened
\* with the acknowledgements of an earlier numbering loses one.
NothingLost ==
  \A w \in DOMAIN author : ToSend(w) \/ Places(w) # {} \/ w \in refused

\* Answers carry no name; the client takes each for the first write of its
\* pipeline.  However streams broke and were refilled, it is.
AnswersMatchPipeline ==
  \A i \in DOMAIN responses : responses[i] # Refused =>
     /\ i \in DOMAIN pipeline
     /\ log[responses[i]] = Entry(pipeline[i])

\* "It ensures that the local write remains visible" (heldBatchResults in
\* FSTLocalStore): a write that left the queue is in the cached document, or
\* something newer is, unless it was refused or given up at a restart, or is
\* an update and the device has no document to lay it over.
WritesStayVisible ==
  \A w \in DOMAIN author :
    \/ Queued(w)
    \/ w \in refused \cup dropped
    \/ remoteDocs[author[w].key] >= Max(Places(w))
    \/ author[w].kind = "update" /\ ~HasDocument(remoteDocs[author[w].key])

\* Writes are sent again after every broken stream and may be committed
\* twice; still a later write of the user to the same document, once
\* acknowledged, is never undone by an earlier one sent again.
LaterWriteWins ==
  \A v, w \in DOMAIN author :
     (/\ v < w /\ author[v].key = author[w].key /\ author[v].user = author[w].user
      /\ ~ToSend(w) /\ w \notin refused /\ Places(v) # {})
        => Max(Places(v)) < Max(Places(w))

\* Sync's queue: the user's writes and which of them the client, or an answer
\* under way, knows to be committed.
Queue(u) ==
  LET batches == IF u = user THEN mutations[u] ELSE After(mutations[u], Unknown, lastAcked[u])
      known   == [i \in DOMAIN held |-> held[i].version]
                   \o Selected(responses, {i \in DOMAIN responses : responses[i] # Refused})
  IN  [i \in DOMAIN batches |->
         [key |-> batches[i].key, kind |-> batches[i].kind, value |-> batches[i].write,
          at |-> IF u = user /\ i \in DOMAIN known THEN known[i] ELSE 0]]

Contract == INSTANCE Sync WITH Values <- Writes, seen <- remoteDocs,
                               queue <- [u \in Users |-> Queue(u)]

\* Batches, acknowledgements held and released, and two streams that break
\* implement Sync.
ImplementsSync == Contract!Spec

\* The signed-in user's writes all leave the queue, with or without a
\* listener, when streams stop breaking.
WritesSettle == <>[](mutations[user] = <<>>)

\* A listener that is kept ends up with what the server has, also of what a
\* restart had made the device forget.
ListenersConverge ==
  <>[](target # Off) => <>[](\A k \in Keys : remoteDocs[k] = DocAt(k, Len(log)))
=============================================================================

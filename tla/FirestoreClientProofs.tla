------------------------ MODULE FirestoreClientProofs ------------------------
(***************************************************************************)
(* The safety properties of FirestoreClient, for any number of documents,  *)
(* users, writes, faults and launches and any size of the pipeline.        *)
(***************************************************************************)
EXTENDS FirestoreClient, SequenceLemmas

-----------------------------------------------------------------------------
(* Queues and what is cut out of them. *)

\* r is q without the n elements after the first a.
CutOut(r, q, a, n) ==
  /\ Len(r) = Len(q) - n
  /\ \A i \in 1 .. Len(r) : r[i] = q[IF i <= a THEN i ELSE i + n]

\* Batches are numbered in the order of the writes they hold.
Ascending(q) ==
  \A i, j \in 1 .. Len(q) : i < j => q[i].id < q[j].id /\ q[i].write < q[j].write

\* The first h batches of a queue are those acknowledged, the h-th the last.
AckedUpTo(q, h, acked) ==
  /\ h <= Len(q)
  /\ h > 0 => q[h].id = acked
  /\ \A i \in 1 .. Len(q) : q[i].id <= acked <=> i <= h

\* p are the batches of q that come after the first h.
Follows(p, h, q) ==
  /\ h + Len(p) <= Len(q)
  /\ \A i \in 1 .. Len(p) : p[i] = q[h + i]

\* With n answered, the requests are the rest of the pipeline.
Matches(p, reqs, n) ==
  /\ n + Len(reqs) = Len(p)
  /\ \A i \in 1 .. Len(reqs) : reqs[i] = p[n + i]

-----------------------------------------------------------------------------
(* The inductive invariant. *)

\* A batch holds a write of the user whose queue it is in.  Its number is
\* below that of the write even though batches are numbered anew.
BelongsTo(b, u) ==
  /\ b.write \in 1 .. Len(author)
  /\ author[b.write] = [key |-> b.key, kind |-> b.kind, user |-> u]
  /\ b.id < b.write

QueueSound(q, u, acked) ==
  /\ Ascending(q)
  /\ \A i \in 1 .. Len(q) : BelongsTo(q[i], u)
  /\ \E h \in Nat : AckedUpTo(q, h, acked)

QueuesSound == \A u \in Users : QueueSound(mutations[u], u, lastAcked[u])

\* New batches get numbers above those of the open queue.
Numbered ==
  /\ nextBatchID <= Len(author)
  /\ lastAcked[user] < nextBatchID
  /\ \A i \in 1 .. Len(mutations[user]) : mutations[user][i].id < nextBatchID

\* The open queue is what is held, then the pipeline, then the rest.
HeldSound ==
  /\ AckedUpTo(mutations[user], Len(held), lastAcked[user])
  /\ \A i \in 1 .. Len(held) : held[i].batch = mutations[user][i]

PipelineSound == Follows(pipeline, Len(held), mutations[user])

\* The pipeline is what is answered, then what is requested.  A refusal is the
\* last answer of a stream.
StreamSound ==
  /\ stream # "ready" => requests = <<>> /\ responses = <<>>
  /\ Len(responses) <= Len(pipeline)
  /\ \A i \in 1 .. Len(responses) : responses[i] = Refused => i = Len(responses)
  /\ stream = "ready" /\ (\A i \in 1 .. Len(responses) : responses[i] # Refused) =>
       Matches(pipeline, requests, Len(responses))

LogSound ==
  \A i \in 1 .. Len(log) :
    \/ log[i].value = Elsewhere
    \/ log[i].value \in 1 .. Len(author) /\ author[log[i].value].key = log[i].key

\* The version is where the batch was committed, for the last time.
Final(version, b) ==
  /\ version \in 1 .. Len(log)
  /\ log[version] = Entry(b)
  /\ \A p \in Places(b.write) : p <= version

\* It is behind all the user wrote before.
Behind(version, b, u) ==
  \A v \in 1 .. Len(author) :
    author[v].user = u /\ v < b.write => \A p \in Places(v) : p < version

AnswersSound ==
  \A i \in 1 .. Len(responses) : responses[i] # Refused =>
    Final(responses[i], pipeline[i]) /\ Behind(responses[i], pipeline[i], user)

\* What is held was committed in the order of the queue.
HeldFinal ==
  \A i \in 1 .. Len(held) :
    /\ Final(held[i].version, held[i].batch)
    /\ \A j \in 1 .. Len(held) : j < i => held[j].version < held[i].version

\* A write that is acknowledged is settled: no earlier write of the user is
\* sent any more, and each is behind it in the log.
SettledFinal ==
  \A v, w \in 1 .. Len(author) :
    v < w /\ author[v].user = author[w].user /\ ~ToSend(w) /\ w \notin refused =>
      ~ToSend(v) /\ \A p \in Places(v) : \E r \in Places(w) : p < r

\* The versions that acknowledgements, held or under way, may put into the
\* cache.
Coming ==
  {held[i].version : i \in 1 .. Len(held)}
    \cup {responses[i] : i \in {j \in 1 .. Len(responses) : responses[j] # Refused}}

\* A write is cached wherever it was committed, or there is no document for it.
Visible(w) ==
  \/ \A p \in Places(w) : p <= remoteDocs[author[w].key]
  \/ author[w].kind = "update" /\ ~HasDocument(remoteDocs[author[w].key])

\* Whatever gets into the cache is newer than a write.
Past(w) ==
  \A p \in Places(w) : /\ \A x \in Coming : p < x
                       /\ target # Off => p <= target \/ p <= lastRemote

\* A write that left the queue is shown, and will be by what replaces it: where
\* an update found no document, none older than the update turns up.
LeftVisible ==
  \A w \in 1 .. Len(author) :
    \/ Queued(w)
    \/ w \in refused \cup dropped
    \/ Visible(w) /\ Past(w)

\* A cached version is one of the document.  While listening, none is newer
\* than what the next snapshot has at least.
CacheSound ==
  \A k \in Keys :
    /\ remoteDocs[k] = 0 \/ (remoteDocs[k] \in 1 .. Len(log) /\ log[remoteDocs[k]].key = k)
    /\ target # Off => remoteDocs[k] <= target \/ remoteDocs[k] <= lastRemote

IInv ==
  /\ TypeOK
  /\ NoAssertionFails
  /\ QueuesSound
  /\ Numbered
  /\ HeldSound
  /\ PipelineSound
  /\ StreamSound
  /\ LogSound
  /\ AnswersSound
  /\ HeldFinal
  /\ SettledFinal
  /\ NothingLost
  /\ LeftVisible
  /\ CacheSound

-----------------------------------------------------------------------------
(* Numbers and positions. *)

\* A bounded set of numbers has a greatest one.
LEMMA MaxElement ==
  ASSUME NEW S \in SUBSET Int, S # {}, NEW top \in Int, \A x \in S : x <= top
  PROVE  Max(S) \in S /\ \A x \in S : x <= Max(S)
<1> DEFINE gaps == {top - x : x \in S}
<1>1. gaps \in SUBSET Nat /\ gaps # {}
  <2>1. \A x \in S : x \in Int /\ top - x \in Nat
    OBVIOUS
  <2> QED
    BY <2>1
<1>2. PICK n \in gaps : \A m \in gaps : n <= m
  BY <1>1, LeastOf
<1>3. PICK x \in S : n = top - x
  OBVIOUS
<1>4. \A y \in S : x >= y
  BY <1>2, <1>3
<1> QED
  BY <1>3, <1>4 DEF Max

\* Leaving out a stretch of positions cuts the elements there out.
LEMMA StretchLeftOut ==
  ASSUME NEW S, NEW s \in Seq(S), NEW a \in Nat, NEW d \in Nat, a + d <= Len(s),
         NEW positions, positions = {i \in 1 .. Len(s) : i <= a \/ i > a + d}
  PROVE  Selected(s, positions) \in Seq(S) /\ CutOut(Selected(s, positions), s, a, d)
<1> DEFINE Rank(p) == Cardinality({q \in positions : q <= p})
           e(n) == IF n <= a THEN n ELSE n + d
           m == Len(s) - d
<1>1. Len(s) \in Nat
  BY LenProperties
<1>2. ASSUME NEW p \in Nat, p <= a
      PROVE  Rank(p) = p
  <2>1. {q \in positions : q <= p} = 1 .. p
    BY <1>1, <1>2
  <2>2. Cardinality(1 .. p) = IF 1 > p THEN 0 ELSE p - 1 + 1
    BY FS_Interval
  <2>3. Rank(p) = Cardinality(1 .. p)
    BY <2>1
  <2> HIDE DEF Rank
  <2> QED
    BY <2>2, <2>3
<1>3. ASSUME NEW p \in Nat, p >= a + d, p <= Len(s)
      PROVE  Rank(p) = p - d
  <2> DEFINE all == 1 .. p
             gap == a + 1 .. a + d
  <2>1. {q \in positions : q <= p} = all \ gap
    BY <1>1, <1>3
  <2>2. all \cap gap = gap
    BY <1>3
  <2>3. IsFiniteSet(all) /\ Cardinality(all) = p
    BY FS_Interval
  <2>4. Cardinality(gap) = d
    <3>1. Cardinality(gap) = IF a + 1 > a + d THEN 0 ELSE (a + d) - (a + 1) + 1
      BY FS_Interval
    <3> QED
      BY <3>1
  <2> HIDE DEF all, gap
  <2> QED
    BY <2>1, <2>2, <2>3, <2>4, FS_Difference
<1>4. Cardinality(positions) = m
  <2>1. {q \in positions : q <= Len(s)} = positions
    BY <1>1
  <2> QED
    BY <1>1, <1>3, <2>1
<1>5. \A p \in positions : /\ p \in 1 .. Len(s)
                           /\ p <= a \/ p > a + d
  OBVIOUS
<1>6. \A p \in positions : Rank(p) = IF p <= a THEN p ELSE p - d
  BY <1>1, <1>2, <1>3, <1>5
<1>7. \A n \in 1 .. m : e(n) \in positions
  BY <1>1
<1> HIDE DEF Rank
<1>8. ASSUME NEW n \in 1 .. m
      PROVE  (CHOOSE p \in positions : Rank(p) = n) = e(n)
  <2>1. \A p \in positions : Rank(p) = n <=> p = e(n)
    BY <1>1, <1>5, <1>6
  <2>2. e(n) \in positions
    BY <1>7
  <2> HIDE DEF e
  <2> QED
    BY <2>1, <2>2
<1>9. Selected(s, positions) = [n \in 1 .. m |-> s[CHOOSE p \in positions : Rank(p) = n]]
  BY <1>4 DEF Selected, Rank
<1>10. m \in Nat /\ \A n \in 1 .. m : s[e(n)] \in S
  BY <1>1, <1>5, <1>7, ElementOfSeq
<1>11. PICK r : r = Selected(s, positions)
  OBVIOUS
<1>12. r \in [1 .. m -> S] /\ \A n \in 1 .. m : r[n] = s[e(n)]
  <2> HIDE DEF e, m
  <2>1. r = [n \in 1 .. m |-> s[e(n)]]
    BY <1>8, <1>9, <1>11
  <2> QED
    BY <1>10, <2>1
<1>13. r \in Seq(S) /\ Len(r) = m
  <2> HIDE DEF e, m
  <2>1. m \in Nat /\ r \in [1 .. m -> S]
    BY <1>10, <1>12
  <2> QED
    BY <2>1
<1> QED
  BY <1>11, <1>12, <1>13 DEF CutOut

\* What can be told of a batch and of a result.
LEMMA BatchFields ==
  /\ \A b \in Batches : b.id \in Nat /\ b.key \in Keys /\ b.kind \in Kinds /\ b.write \in Writes
  /\ \A r \in Results : r.batch \in Batches /\ r.version \in Nat
  BY DEF Batches, Results

\* What comes after the pipeline in the queue is neither acknowledged nor sent.
LEMMA AfterPipeline ==
  ASSUME NEW q \in Seq(Batches), NEW h \in Nat, NEW p \in Seq(Batches),
         NEW acked \in Nat \cup {Unknown}, NEW lastID,
         Ascending(q), AckedUpTo(q, h, acked), Follows(p, h, q),
         lastID = IF p = <<>> THEN Unknown ELSE Last(p).id
  PROVE  /\ After(q, lastID, acked) \in Seq(Batches)
         /\ CutOut(After(q, lastID, acked), q, 0, h + Len(p))
<1> DEFINE d == h + Len(p)
           positions == {i \in DOMAIN q : q[i].id > lastID /\ q[i].id > acked}
<1>1. /\ Len(q) \in Nat /\ Len(p) \in Nat /\ d \in Nat /\ d <= Len(q)
      /\ DOMAIN q = 1 .. Len(q)
  BY LenProperties DEF Follows
<1>2. \A i \in 1 .. Len(q) : q[i].id \in Nat
  BY ElementOfSeq, BatchFields
<1>3. \A i \in 1 .. Len(q) : q[i].id > acked <=> i > h
  <2>1. acked \in Int
    BY DEF Unknown
  <2> QED
    BY <1>2, <2>1 DEF AckedUpTo
<1>4. ASSUME NEW i \in 1 .. Len(q)
      PROVE  q[i].id > lastID /\ q[i].id > acked <=> i > d
  <2>1. CASE p = <<>>
    <3>1. Len(p) = 0 /\ lastID = -1
      BY <2>1 DEF Unknown
    <3> QED
      BY <1>2, <1>3, <3>1
  <2>2. CASE p # <<>>
    <3>1. Len(p) >= 1
      BY <1>1, <2>2, EmptySeq
    <3>2. lastID = p[Len(p)].id /\ p[Len(p)] = q[d] /\ d \in 1 .. Len(q) /\ d > h
      BY <1>1, <2>2, <3>1 DEF Follows, Last
    <3>3. i < d => q[i].id < q[d].id
      BY <3>2 DEF Ascending
    <3>4. d < i => q[d].id < q[i].id
      BY <3>2 DEF Ascending
    <3>5. q[i].id \in Nat /\ q[d].id \in Nat /\ lastID = q[d].id
      BY <1>2, <3>2
    <3>6. q[i].id > lastID <=> i > d
      BY <1>1, <3>2, <3>3, <3>4, <3>5
    <3> QED
      BY <1>1, <1>3, <3>2, <3>6
  <2> QED
    BY <2>1, <2>2
<1>5. positions = {i \in 1 .. Len(q) : i <= 0 \/ i > 0 + d}
  BY <1>1, <1>4
<1>6. After(q, lastID, acked) = Selected(q, positions)
  BY DEF After
<1> HIDE DEF positions, d
<1>7. Selected(q, positions) \in Seq(Batches) /\ CutOut(Selected(q, positions), q, 0, d)
  BY <1>1, <1>5, StretchLeftOut
<1> QED
  BY <1>6, <1>7 DEF d

\* fillWritePipeline goes on along the queue, and what it adds is requested.
LEMMA Filled ==
  ASSUME NEW q \in Seq(Batches), NEW h \in Nat, NEW p \in Seq(Batches),
         NEW reqs \in Seq(Batches), NEW state \in StreamStates,
         NEW acked \in Nat \cup {Unknown},
         Ascending(q), AckedUpTo(q, h, acked), Follows(p, h, q),
         FillPipeline(p, reqs, state, q, acked)
  PROVE  /\ pipeline' \in Seq(Batches)
         /\ Follows(pipeline', h, q)
         /\ Len(p) <= Len(pipeline')
         /\ \A i \in 1 .. Len(p) : pipeline'[i] = p[i]
         /\ requests' \in Seq(Batches)
         /\ stream' \in StreamStates
         /\ state # "ready" => stream' # "ready" /\ requests' = <<>>
         /\ state = "ready" =>
              /\ stream' = "ready"
              /\ \A n \in Nat : Matches(p, reqs, n) => Matches(pipeline', requests', n)
<1> DEFINE lastID == IF p = <<>> THEN Unknown ELSE Last(p).id
           rest == After(q, lastID, acked)
           room == MaxPipeline - Len(p)
           m == Min({Len(rest), room})
           added == SubSeq(rest, 1, m)
<1>1. Len(q) \in Nat /\ Len(p) \in Nat /\ Len(reqs) \in Nat
  BY LenProperties
<1>2. rest \in Seq(Batches) /\ CutOut(rest, q, 0, h + Len(p))
  BY AfterPipeline
<1>2b. \A j \in 1 .. Len(rest) : rest[j] = q[j + (h + Len(p))]
  BY <1>2 DEF CutOut
<1>3. /\ pipeline' = p \o added
      /\ requests' = IF state = "ready" THEN reqs \o added ELSE <<>>
      /\ stream' = IF state = "stopped" /\ pipeline' # <<>> THEN "opening" ELSE state
  BY DEF FillPipeline
<1> HIDE DEF rest
<1>4. m \in Int /\ m <= Len(rest)
  <2>1. Len(rest) \in Int /\ room \in Int
    BY <1>1, <1>2, LenProperties, FirestoreClientAssumption
  <2>2. m = Len(rest) \/ (m = room /\ room <= Len(rest))
    <3> HIDE DEF room
    <3> QED
      BY <2>1 DEF Min
  <2> QED
    BY <2>1, <2>2
<1> HIDE DEF m
<1>5. /\ added \in Seq(Batches)
      /\ Len(added) <= Len(rest)
      /\ \A i \in 1 .. Len(added) : added[i] = rest[i]
  <2>1. Len(rest) \in Nat /\ \A i \in 1 .. m : rest[i] \in Batches
    BY <1>2, <1>4, LenProperties, ElementOfSeq
  <2>2. /\ added \in Seq(Batches)
        /\ Len(added) = IF 1 <= m THEN m - 1 + 1 ELSE 0
        /\ \A i \in 1 .. m - 1 + 1 : added[i] = rest[1 + i - 1]
    BY <1>4, <2>1, SubSeqProperties
  <2> QED
    BY <1>4, <2>1, <2>2
<1> HIDE DEF added
<1>6. Len(added) \in Nat
  BY <1>5, LenProperties
<1>7. /\ pipeline' \in Seq(Batches)
      /\ Len(pipeline') = Len(p) + Len(added)
      /\ \A i \in 1 .. Len(p) + Len(added) :
           pipeline'[i] = IF i <= Len(p) THEN p[i] ELSE added[i - Len(p)]
  BY <1>3, <1>5, ConcatProperties
<1>8. Follows(pipeline', h, q)
  <2>1. h + Len(pipeline') <= Len(q)
    BY <1>1, <1>2, <1>5, <1>6, <1>7 DEF CutOut
  <2>2. ASSUME NEW i \in 1 .. Len(pipeline')
        PROVE  pipeline'[i] = q[h + i]
    <3>1. CASE i <= Len(p)
      BY <1>1, <1>6, <1>7, <3>1 DEF Follows
    <3>2. CASE i > Len(p)
      <4>1. i - Len(p) \in 1 .. Len(added) /\ i - Len(p) \in 1 .. Len(rest)
        BY <1>1, <1>5, <1>6, <1>7, <3>2, LenProperties, <1>2
      <4>2. i \in 1 .. Len(p) + Len(added) /\ ~(i <= Len(p))
        BY <1>1, <1>7, <3>2
      <4>3. pipeline'[i] = rest[i - Len(p)]
        BY <1>5, <1>7, <4>1, <4>2
      <4>4. rest[i - Len(p)] = q[(i - Len(p)) + (h + Len(p))]
        BY <1>2b, <4>1
      <4> QED
        BY <1>1, <4>2, <4>3, <4>4
    <3> QED
      BY <1>1, <1>7, <3>1, <3>2
  <2> QED
    BY <2>1, <2>2 DEF Follows
<1>9. ASSUME state # "ready"
      PROVE  stream' # "ready" /\ requests' = <<>>
  BY <1>3, <1>9
<1>10. ASSUME state = "ready", NEW n \in Nat, Matches(p, reqs, n)
       PROVE  Matches(pipeline', requests', n)
  <2>1. /\ Len(requests') = Len(reqs) + Len(added)
        /\ \A i \in 1 .. Len(reqs) + Len(added) :
             requests'[i] = IF i <= Len(reqs) THEN reqs[i] ELSE added[i - Len(reqs)]
    BY <1>3, <1>5, <1>10, ConcatProperties
  <2>2. n + Len(reqs) = Len(p) /\ \A i \in 1 .. Len(reqs) : reqs[i] = p[n + i]
    BY <1>10 DEF Matches
  <2>3. ASSUME NEW i \in 1 .. Len(requests')
        PROVE  requests'[i] = pipeline'[n + i]
    <3>0. i \in Nat /\ i >= 1 /\ i <= Len(reqs) + Len(added) /\ n + Len(reqs) = Len(p)
      BY <1>1, <1>6, <2>1, <2>2
    <3>1. CASE i <= Len(reqs)
      <4>1. n + i \in 1 .. Len(p)
        BY <1>1, <2>2, <3>1
      <4> QED
        BY <1>1, <1>6, <1>7, <2>1, <2>2, <3>1, <4>1
    <3>2. CASE i > Len(reqs)
      <4>1. (n + i) - Len(p) = i - Len(reqs) /\ n + i \in 1 .. Len(p) + Len(added) /\ ~(n + i <= Len(p))
        BY <1>1, <1>6, <3>0, <3>2
      <4>2. requests'[i] = added[i - Len(reqs)]
        BY <1>1, <1>6, <2>1, <3>0, <3>2
      <4>3. pipeline'[n + i] = added[(n + i) - Len(p)]
        BY <1>7, <4>1
      <4> QED
        BY <4>1, <4>2, <4>3
    <3> QED
      BY <1>1, <1>6, <2>1, <3>1, <3>2
  <2>4. n + Len(requests') = Len(pipeline')
    BY <1>1, <1>6, <1>7, <2>1, <2>2
  <2> QED
    BY <2>3, <2>4 DEF Matches
<1>11. requests' \in Seq(Batches)
  BY <1>3, <1>5, ConcatProperties, EmptySeq
<1>12. stream' \in StreamStates /\ (state = "ready" => stream' = "ready")
  BY <1>3 DEF StreamStates
<1>13. Len(p) <= Len(pipeline') /\ \A i \in 1 .. Len(p) : pipeline'[i] = p[i]
  BY <1>1, <1>6, <1>7
<1> QED
  BY <1>7, <1>8, <1>9, <1>10, <1>11, <1>12, <1>13

-----------------------------------------------------------------------------
(* Releasing results and opening a queue. *)

\* Leaving out the batches of a stretch cuts the stretch out.
LEMMA WithoutStretch ==
  ASSUME NEW q \in Seq(Batches), NEW a \in Nat, NEW n \in Nat, a + n <= Len(q), NEW ids,
         \A i \in 1 .. Len(q) : q[i].id \notin ids <=> i <= a \/ i > a + n
  PROVE  Without(q, ids) \in Seq(Batches) /\ CutOut(Without(q, ids), q, a, n)
<1> DEFINE positions == {i \in DOMAIN q : q[i].id \notin ids}
<1>1. DOMAIN q = 1 .. Len(q)
  BY LenProperties
<1>2. positions = {i \in 1 .. Len(q) : i <= a \/ i > a + n}
  BY <1>1
<1>3. Without(q, ids) = Selected(q, positions)
  BY DEF Without
<1> HIDE DEF positions
<1>4. Selected(q, positions) \in Seq(Batches) /\ CutOut(Selected(q, positions), q, a, n)
  BY <1>2, StretchLeftOut
<1> QED
  BY <1>3, <1>4

\* Results of batches, from the first to the last committed.
InOrder(results) ==
  \A i, j \in 1 .. Len(results) : i < j => results[i].version < results[j].version

\* A result is in some documents, or is an update that finds no document.
Laid(r, docs) ==
  \/ r.version <= docs[r.batch.key]
  \/ r.batch.kind = "update" /\ ~HasDocument(docs[r.batch.key])

\* The documents after each of some results, one after the other.
LEMMA AppliedInTurn ==
  ASSUME NEW docs, NEW results, Len(results) \in Nat
  PROVE  \E after : /\ after[0] = docs
                    /\ \A n \in 1 .. Len(results) :
                         after[n] = ApplyResult(after[n - 1], results[n])
                    /\ WithResults(docs, results) = after[Len(results)]
<1> DEFINE Turn(f, n) == IF n = 0 THEN docs ELSE ApplyResult(f[n - 1], results[n])
           Exists(m) == \E f : f = [n \in 0 .. m |-> Turn(f, n)]
           missing == {m \in Nat : ~Exists(m)}
<1>1. Exists(0)
  <2>1. PICK f : f = [n \in 0 .. 0 |-> docs]
    OBVIOUS
  <2>2. f = [n \in 0 .. 0 |-> Turn(f, n)]
    BY <2>1
  <2> QED
    BY <2>2
<1>2. ASSUME NEW m \in Nat, Exists(m)
      PROVE  Exists(m + 1)
  <2>1. PICK f : f = [n \in 0 .. m |-> Turn(f, n)]
    BY <1>2
  <2>2. PICK g : g = [n \in 0 .. m + 1 |-> IF n <= m THEN f[n] ELSE ApplyResult(f[m], results[n])]
    OBVIOUS
  <2>3. \A n \in 0 .. m : g[n] = f[n] /\ f[n] = Turn(f, n)
    BY <2>1, <2>2
  <2>4. g[m + 1] = ApplyResult(f[m], results[m + 1]) /\ g[m] = f[m]
    BY <2>2
  <2>5. ASSUME NEW n \in 0 .. m + 1
        PROVE  g[n] = Turn(g, n)
    <3>1. CASE n = 0
      BY <2>3, <3>1
    <3>2. CASE n \in 1 .. m
      <4>1. n \in 0 .. m /\ n - 1 \in 0 .. m /\ n # 0
        BY <3>2
      <4> QED
        BY <2>3, <4>1
    <3>3. CASE n = m + 1
      <4>1. n - 1 = m /\ n # 0
        BY <3>3
      <4> QED
        BY <2>4, <3>3, <4>1
    <3> QED
      BY <3>1, <3>2, <3>3
  <2> HIDE DEF Turn
  <2>6. g = [n \in 0 .. m + 1 |-> Turn(g, n)]
    BY <2>2, <2>5
  <2> QED
    BY <2>6
<1>3. \A m \in Nat : Exists(m)
  <2>1. SUFFICES ASSUME missing # {}
                 PROVE  FALSE
    OBVIOUS
  <2> HIDE DEF Exists
  <2>2. PICK m \in missing : \A x \in missing : m <= x
    BY <2>1, LeastOf
  <2>3. m # 0 /\ m - 1 \in Nat /\ m - 1 \notin missing
    BY <1>1, <2>2
  <2>4. Exists((m - 1) + 1) /\ (m - 1) + 1 = m
    BY <1>2, <2>3
  <2> QED
    BY <2>2, <2>4
<1>4. PICK after : /\ after = [n \in 0 .. Len(results) |-> Turn(after, n)]
                   /\ WithResults(docs, results) = after[Len(results)]
  <2>1. Exists(Len(results))
    BY <1>3
  <2> QED
    BY <2>1 DEF WithResults
<1>5. \A n \in 0 .. Len(results) : after[n] = Turn(after, n)
  BY <1>4
<1>6. after[0] = docs
  BY <1>5
<1>7. ASSUME NEW n \in 1 .. Len(results)
      PROVE  after[n] = ApplyResult(after[n - 1], results[n])
  <2>1. n \in 0 .. Len(results) /\ n # 0
    OBVIOUS
  <2> QED
    BY <1>5, <2>1
<1> QED
  BY <1>4, <1>6, <1>7

\* What applying results to some documents comes to.
LEMMA ResultsLaid ==
  ASSUME NEW docs \in [Keys -> Nat], NEW results \in Seq(Results), InOrder(results)
  PROVE  LET new == WithResults(docs, results)
         IN  /\ new \in [Keys -> Nat]
             /\ \A k \in Keys : docs[k] <= new[k]
             /\ \A i \in 1 .. Len(results) : Laid(results[i], new)
             /\ \A k \in Keys :
                  \/ new[k] = docs[k]
                  \/ \E i \in 1 .. Len(results) : /\ results[i].batch.key = k
                                                  /\ results[i].version = new[k]
<1>1. PICK m \in Nat : m = Len(results)
  BY LenProperties
<1>2. PICK after : /\ after[0] = docs
                   /\ \A n \in 1 .. m : after[n] = ApplyResult(after[n - 1], results[n])
                   /\ WithResults(docs, results) = after[m]
  BY <1>1, AppliedInTurn
<1>3. \A i \in 1 .. m : /\ results[i] \in Results /\ results[i].version \in Nat
                        /\ results[i].batch.key \in Keys
  BY <1>1, ElementOfSeq, BatchFields
<1> DEFINE Sound(d, n) ==
             /\ d \in [Keys -> Nat]
             /\ \A k \in Keys : docs[k] <= d[k]
             /\ \A i \in 1 .. n : Laid(results[i], d)
             /\ \A k \in Keys : \/ d[k] = docs[k]
                                \/ \E i \in 1 .. n : /\ results[i].batch.key = k
                                                     /\ results[i].version = d[k]
           unsound == {n \in 0 .. m : ~Sound(after[n], n)}
<1>4. Sound(after[0], 0)
  BY <1>2
<1>5. ASSUME NEW n \in 1 .. m, NEW d, Sound(d, n - 1), NEW e, NEW r,
             r = results[n], e = ApplyResult(d, r)
      PROVE  Sound(e, n)
  <2>1. \A i \in 1 .. n : i \in 1 .. n - 1 \/ i = n
    OBVIOUS
  <2>2. r.version \in Nat /\ r.batch.key \in Keys
    BY <1>3, <1>5
  <2>3. PICK c \in Keys, v \in Nat : c = r.batch.key /\ v = r.version
    BY <2>2
  <2>4. CASE d[c] < v /\ (r.batch.kind = "update" => HasDocument(d[c]))
    <3>1. e = [d EXCEPT ![c] = v]
      BY <1>5, <2>3, <2>4 DEF ApplyResult
    <3>2. e \in [Keys -> Nat] /\ e[c] = v /\ \A k \in Keys : k # c => e[k] = d[k]
      BY <1>5, <3>1
    <3>3. docs[c] \in Nat /\ d[c] \in Nat /\ docs[c] <= d[c]
      BY <1>5
    <3>4. ASSUME NEW k \in Keys
          PROVE  docs[k] <= e[k]
      <4>1. CASE k = c
        BY <2>4, <3>2, <3>3, <4>1
      <4>2. CASE k # c
        BY <1>5, <3>2, <4>2
      <4> QED
        BY <4>1, <4>2
    <3>5. ASSUME NEW i \in 1 .. n
          PROVE  Laid(results[i], e)
      <4>1. CASE results[i].batch.key = c
        <5>1. i \in 1 .. m /\ results[i].version \in Nat
          BY <1>3
        <5>2. i < n => results[i].version < v
          BY <1>1, <1>5, <2>3, <5>1 DEF InOrder
        <5>3. results[i].version <= v
          BY <1>5, <2>1, <2>3, <5>1, <5>2
        <5> QED
          BY <3>2, <4>1, <5>3 DEF Laid
      <4>2. CASE results[i].batch.key # c
        <5>1. i \in 1 .. n - 1
          BY <1>5, <2>1, <2>3, <4>2
        <5>2. Laid(results[i], d) /\ results[i].batch.key \in Keys
          BY <1>3, <1>5, <5>1
        <5>3. e[results[i].batch.key] = d[results[i].batch.key]
          BY <3>2, <4>2, <5>2
        <5> QED
          BY <5>2, <5>3 DEF Laid
      <4> QED
        BY <4>1, <4>2
    <3>6. ASSUME NEW k \in Keys
          PROVE  e[k] = docs[k] \/ \E i \in 1 .. n : results[i].batch.key = k /\ results[i].version = e[k]
      <4>1. CASE k = c
        <5>1. results[n].batch.key = k /\ results[n].version = e[k] /\ n \in 1 .. n
          BY <1>5, <2>3, <3>2, <4>1
        <5> QED
          BY <5>1
      <4>2. CASE k # c
        <5>1. e[k] = d[k] /\ \A i \in 1 .. n - 1 : i \in 1 .. n
          BY <3>2, <4>2
        <5> QED
          BY <1>5, <5>1
      <4> QED
        BY <4>1, <4>2
    <3> QED
      BY <3>2, <3>4, <3>5, <3>6
  <2>5. CASE ~(d[c] < v /\ (r.batch.kind = "update" => HasDocument(d[c])))
    <3>1. e = d
      BY <1>5, <2>3, <2>5 DEF ApplyResult
    <3>2. Laid(results[n], d)
      <4>1. d[c] \in Nat
        BY <1>5
      <4> QED
        BY <1>5, <2>3, <2>5, <4>1 DEF Laid
    <3>3. \A i \in 1 .. n - 1 : i \in 1 .. n
      OBVIOUS
    <3> QED
      BY <1>5, <2>1, <3>1, <3>2, <3>3
  <2> QED
    BY <2>4, <2>5
<1>6. \A n \in 0 .. m : Sound(after[n], n)
  <2>1. SUFFICES ASSUME unsound # {}
                 PROVE  FALSE
    OBVIOUS
  <2> HIDE DEF Sound
  <2>2. PICK n \in unsound : \A x \in unsound : n <= x
    <3>1. unsound \in SUBSET Nat
      OBVIOUS
    <3> QED
      BY <2>1, <3>1, LeastOf
  <2>3. n \in 1 .. m /\ n - 1 \in 0 .. m /\ n - 1 \notin unsound
    BY <1>4, <2>2
  <2>4. Sound(after[n - 1], n - 1)
    BY <2>3
  <2>5. after[n] = ApplyResult(after[n - 1], results[n])
    BY <1>2, <2>3
  <2>6. Sound(after[n], n)
    BY <1>5, <2>3, <2>4, <2>5
  <2> QED
    BY <2>2, <2>6
<1>7. m \in 0 .. m
  OBVIOUS
<1>8. Sound(after[m], m)
  BY <1>6, <1>7
<1> QED
  BY <1>1, <1>2, <1>8

\* What releasing the first n of some results comes to.
Releases(results, n, docs) ==
  /\ mutations' \in [Users -> Seq(Batches)]
  /\ CutOut(mutations'[user], mutations[user], 0, n)
  /\ \A u \in Users : u # user => mutations'[u] = mutations[u]
  /\ held' \in Seq(Results)
  /\ CutOut(held', results, 0, n)
  /\ remoteDocs' \in [Keys -> Nat]
  /\ \A k \in Keys : docs[k] <= remoteDocs'[k]
  /\ \A i \in 1 .. n : Laid(results[i], remoteDocs')
  /\ \A k \in Keys : \/ remoteDocs'[k] = docs[k]
                     \/ \E i \in 1 .. n : /\ results[i].batch.key = k
                                          /\ results[i].version = remoteDocs'[k]

\* releaseBatchResults takes the batches from the front of the queue, and the
\* cache gets as new as they are.
LEMMA Released ==
  ASSUME user \in Users, mutations \in [Users -> Seq(Batches)],
         NEW results \in Seq(Results), NEW n \in Nat, NEW docs \in [Keys -> Nat],
         n <= Len(results), n <= Len(mutations[user]),
         Ascending(mutations[user]), InOrder(results),
         \A i \in 1 .. n : results[i].batch = mutations[user][i],
         Release(results, n, docs)
  PROVE  Releases(results, n, docs)
<1> DEFINE done == SubSeq(results, 1, n)
           ids == {r.batch.id : r \in Range(done)}
<1>1. PICK q \in Seq(Batches) : q = mutations[user]
  OBVIOUS
<1>2. Len(results) \in Nat /\ Len(q) \in Nat /\ DOMAIN q = 1 .. Len(q)
  BY LenProperties
<1>3. \A i \in 1 .. n : results[i] \in Results
  BY <1>2, ElementOfSeq
<1>4. done \in Seq(Results) /\ Len(done) = n /\ \A i \in 1 .. n : done[i] = results[i]
  <2>1. /\ done \in Seq(Results)
        /\ Len(done) = IF 1 <= n THEN n - 1 + 1 ELSE 0
        /\ \A i \in 1 .. n - 1 + 1 : done[i] = results[1 + i - 1]
    BY <1>3, SubSeqProperties
  <2> QED
    BY <2>1
<1>5. Range(done) = {results[i] : i \in 1 .. n}
  <2>1. Range(done) = {done[i] : i \in 1 .. n}
    BY <1>4, RangeEquality
  <2> QED
    BY <1>4, <2>1
<1>6. /\ remoteDocs' = WithResults(docs, done)
      /\ mutations' = [mutations EXCEPT ![user] = Without(q, ids)]
      /\ held' = SubSeq(results, n + 1, Len(results))
  BY <1>1 DEF Release
<1> HIDE DEF done
<1>7. held' \in Seq(Results) /\ CutOut(held', results, 0, n)
  <2>1. \A i \in n + 1 .. Len(results) : results[i] \in Results
    BY <1>2, ElementOfSeq
  <2>2. /\ held' \in Seq(Results)
        /\ Len(held') = IF n + 1 <= Len(results) THEN Len(results) - (n + 1) + 1 ELSE 0
        /\ \A i \in 1 .. Len(results) - (n + 1) + 1 : held'[i] = results[n + 1 + i - 1]
    BY <1>2, <1>6, <2>1, SubSeqProperties
  <2>3. Len(held') = Len(results) - n
    <3>1. CASE n + 1 <= Len(results)
      BY <1>2, <2>2, <3>1
    <3>2. CASE n = Len(results)
      BY <1>2, <2>2, <3>2
    <3> QED
      BY <1>2, <3>1, <3>2
  <2>4. \A i \in 1 .. Len(held') : held'[i] = results[i + n]
    BY <1>2, <2>2, <2>3
  <2> QED
    BY <2>2, <2>3, <2>4 DEF CutOut
<1>8. Without(q, ids) \in Seq(Batches) /\ CutOut(Without(q, ids), q, 0, n)
  <2>1. \A i \in 1 .. Len(q) : q[i].id \in Nat
    BY ElementOfSeq, BatchFields
  <2>2. ids = {q[i].id : i \in 1 .. n}
    <3>1. ids = {results[i].batch.id : i \in 1 .. n}
      BY <1>5
    <3>2. \A i \in 1 .. n : results[i].batch.id = q[i].id
      BY <1>1
    <3>3. {results[i].batch.id : i \in 1 .. n} = {q[i].id : i \in 1 .. n}
      BY <3>2, Zenon
    <3> QED
      BY <3>1, <3>3, Zenon
  <2> HIDE DEF ids
  <2>3. ASSUME NEW i \in 1 .. Len(q)
        PROVE  q[i].id \notin ids <=> i <= 0 \/ i > 0 + n
    <3>1. \A j \in 1 .. Len(q) : q[i].id = q[j].id => i = j
      BY <1>1, <1>2, <2>1 DEF Ascending
    <3>2. \A j \in 1 .. n : j \in 1 .. Len(q)
      BY <1>1, <1>2
    <3>3. q[i].id \in ids <=> i \in 1 .. n
      BY <2>2, <3>1, <3>2
    <3> QED
      BY <1>2, <3>3
  <2>4. 0 + n <= Len(q)
    BY <1>1
  <2> QED
    BY <2>3, <2>4, WithoutStretch
<1> HIDE DEF ids
<1>9. /\ mutations' \in [Users -> Seq(Batches)]
      /\ mutations'[user] = Without(q, ids)
      /\ \A u \in Users : u # user => mutations'[u] = mutations[u]
  BY <1>6, <1>8
<1>10. /\ remoteDocs' \in [Keys -> Nat]
       /\ \A k \in Keys : docs[k] <= remoteDocs'[k]
       /\ \A i \in 1 .. n : Laid(done[i], remoteDocs')
       /\ \A k \in Keys : \/ remoteDocs'[k] = docs[k]
                          \/ \E i \in 1 .. n : /\ done[i].batch.key = k
                                               /\ done[i].version = remoteDocs'[k]
  <2>1. InOrder(done)
    <3>1. \A i \in 1 .. n : i \in 1 .. Len(results)
      BY <1>2
    <3> QED
      BY <1>4, <3>1 DEF InOrder
  <2> QED
    BY <1>4, <1>6, <2>1, ResultsLaid
<1>13. CutOut(mutations'[user], mutations[user], 0, n)
  BY <1>1, <1>8, <1>9
<1>14. \A i \in 1 .. n : Laid(results[i], remoteDocs')
  BY <1>4, <1>10
<1>15. ASSUME NEW k \in Keys
       PROVE  \/ remoteDocs'[k] = docs[k]
              \/ \E i \in 1 .. n : /\ results[i].batch.key = k
                                   /\ results[i].version = remoteDocs'[k]
  <2>1. CASE remoteDocs'[k] = docs[k]
    BY <2>1
  <2>2. ASSUME NEW i \in 1 .. n, done[i].batch.key = k, done[i].version = remoteDocs'[k]
        PROVE  results[i].batch.key = k /\ results[i].version = remoteDocs'[k]
    <3>1. done[i] = results[i]
      BY <1>4
    <3> QED
      BY <2>2, <3>1
  <2> QED
    BY <1>10, <2>1, <2>2
<1> QED
  BY <1>7, <1>9, <1>10, <1>13, <1>14, <1>15 DEF Releases

-----------------------------------------------------------------------------
(* What the parts of the invariant depend on. *)

\* The types of the variables, and how long the sequences are.
LEMMA Types ==
  ASSUME TypeOK
  PROVE  /\ log \in Seq([key : Keys, kind : Kinds, value : Writes \cup {Elsewhere}])
         /\ requests \in Seq(Batches) /\ pipeline \in Seq(Batches)
         /\ responses \in Seq(Nat \cup {Refused})
         /\ mutations \in [Users -> Seq(Batches)]
         /\ lastAcked \in [Users -> Nat \cup {Unknown}]
         /\ remoteDocs \in [Keys -> Nat] /\ lastRemote \in Nat
         /\ held \in Seq(Results)
         /\ author \in Seq([key : Keys, kind : Kinds, user : Users])
         /\ user \in Users /\ nextBatchID \in Nat
         /\ stream \in StreamStates /\ target \in Nat \cup {Off}
         /\ Len(log) \in Nat /\ Len(requests) \in Nat /\ Len(pipeline) \in Nat
         /\ Len(responses) \in Nat /\ Len(held) \in Nat /\ Len(author) \in Nat
         /\ DOMAIN log = 1 .. Len(log) /\ DOMAIN author = 1 .. Len(author)
         /\ DOMAIN responses = 1 .. Len(responses)
         /\ \A u \in Users : /\ mutations[u] \in Seq(Batches)
                             /\ Len(mutations[u]) \in Nat
                             /\ DOMAIN mutations[u] = 1 .. Len(mutations[u])
                             /\ lastAcked[u] \in Nat \cup {Unknown}
  BY LenProperties DEF TypeOK

\* Writes are numbered from one; 0 stands for those of other devices.
LEMMA WritesNumbered == Writes \in SUBSET (Nat \ {0})
<1>1. ASSUME NEW l \in Limits
      PROVE  DOMAIN l.writes \in SUBSET (Nat \ {0})
  <2>1. l.writes \in Seq(SUBSET Changes)
    BY FirestoreClientAssumption
  <2>2. DOMAIN l.writes = 1 .. Len(l.writes) /\ Len(l.writes) \in Nat
    BY <2>1, LenProperties
  <2> QED
    BY <2>2
<1> QED
  BY <1>1 DEF Writes

\* What is left of a queue when a stretch is cut out.
LEMMA CutElements ==
  ASSUME NEW q \in Seq(Batches), NEW r \in Seq(Batches), NEW a \in Nat, NEW n \in Nat,
         a + n <= Len(q), CutOut(r, q, a, n)
  PROVE  /\ Len(r) = Len(q) - n
         /\ \A j \in 1 .. Len(r) : /\ j <= a => j \in 1 .. Len(q) /\ r[j] = q[j]
                                   /\ j > a => j + n \in 1 .. Len(q) /\ r[j] = q[j + n]
         /\ \A i \in 1 .. Len(q) : /\ i <= a => i \in 1 .. Len(r) /\ r[i] = q[i]
                                   /\ i > a + n => i - n \in 1 .. Len(r) /\ r[i - n] = q[i]
         /\ Ascending(q) => Ascending(r)
<1> DEFINE at(j) == IF j <= a THEN j ELSE j + n
<1>1. Len(q) \in Nat /\ Len(r) \in Nat
  BY LenProperties
<1>2. Len(r) = Len(q) - n /\ \A j \in 1 .. Len(r) : r[j] = q[at(j)]
  BY DEF CutOut
<1>3. \A j \in 1 .. Len(r) : /\ j <= a => j \in 1 .. Len(q) /\ at(j) = j
                             /\ j > a => j + n \in 1 .. Len(q) /\ at(j) = j + n
  BY <1>1, <1>2
<1>4. ASSUME NEW i \in 1 .. Len(q)
      PROVE  /\ i <= a => i \in 1 .. Len(r) /\ at(i) = i
             /\ i > a + n => i - n \in 1 .. Len(r) /\ at(i - n) = i
  BY <1>1, <1>2
<1>5. \A i, j \in 1 .. Len(r) : i < j => at(i) < at(j) /\ at(i) \in 1 .. Len(q) /\ at(j) \in 1 .. Len(q)
  BY <1>1, <1>2
<1> HIDE DEF at
<1>6. Ascending(q) => Ascending(r)
  BY <1>2, <1>5 DEF Ascending
<1> QED
  BY <1>2, <1>3, <1>4, <1>6

\* A queue from which acknowledged batches, or the next one, are taken.
LEMMA CutAcked ==
  ASSUME NEW q \in Seq(Batches), NEW r \in Seq(Batches), NEW a \in Nat, NEW n \in Nat,
         NEW h \in Nat, NEW left \in Nat, NEW acked \in Nat \cup {Unknown},
         a + n <= Len(q), CutOut(r, q, a, n), AckedUpTo(q, h, acked),
         (a = 0 /\ n <= h /\ left = h - n) \/ (a = h /\ left = h)
  PROVE  AckedUpTo(r, left, acked)
<1>1. Len(q) \in Nat /\ Len(r) \in Nat
  BY LenProperties
<1>2. /\ Len(r) = Len(q) - n
      /\ \A j \in 1 .. Len(r) : /\ j <= a => j \in 1 .. Len(q) /\ r[j] = q[j]
                                /\ j > a => j + n \in 1 .. Len(q) /\ r[j] = q[j + n]
  BY CutElements
<1>3. /\ h <= Len(q)
      /\ h > 0 => q[h].id = acked
      /\ \A i \in 1 .. Len(q) : q[i].id <= acked <=> i <= h
  BY DEF AckedUpTo
<1>4. CASE a = 0 /\ n <= h /\ left = h - n
  <2>1. left <= Len(r)
    BY <1>1, <1>2, <1>3, <1>4
  <2>2. left > 0 => left \in 1 .. Len(r) /\ r[left] = q[h]
    BY <1>1, <1>2, <1>4, <2>1
  <2>3. ASSUME NEW j \in 1 .. Len(r)
        PROVE  r[j].id <= acked <=> j <= left
    <3>1. r[j] = q[j + n] /\ j + n \in 1 .. Len(q)
      BY <1>1, <1>2, <1>4
    <3>2. j + n <= h <=> j <= left
      BY <1>1, <1>4
    <3> QED
      BY <1>3, <3>1, <3>2
  <2> QED
    BY <1>3, <1>4, <2>1, <2>2, <2>3 DEF AckedUpTo
<1>5. CASE a = h /\ left = h
  <2>1. left <= Len(r)
    BY <1>1, <1>2, <1>3, <1>5
  <2>2. left > 0 => r[left] = q[h]
    BY <1>1, <1>2, <1>5, <2>1
  <2>3. ASSUME NEW j \in 1 .. Len(r)
        PROVE  r[j].id <= acked <=> j <= left
    <3>1. CASE j <= h
      BY <1>2, <1>3, <1>5, <3>1
    <3>2. CASE j > h
      <4>1. r[j] = q[j + n] /\ j + n \in 1 .. Len(q) /\ ~(j + n <= h) /\ ~(j <= left)
        BY <1>1, <1>2, <1>5, <3>2
      <4> QED
        BY <1>3, <4>1
    <3> QED
      BY <3>1, <3>2
  <2> QED
    BY <1>3, <1>5, <2>1, <2>2, <2>3 DEF AckedUpTo
<1> QED
  BY <1>4, <1>5

\* A write is in a queue, above an acknowledged number, or behind the first h.
Holds(q, w) == \E i \in 1 .. Len(q) : q[i].write = w
HoldsAbove(q, w, id) == \E i \in 1 .. Len(q) : q[i].write = w /\ q[i].id > id
HoldsBehind(q, w, h) == \E i \in 1 .. Len(q) : q[i].write = w /\ i > h

\* The same among the queues of all users.
QueuedIn(muts, w) == \E u \in Users : \E b \in Range(muts[u]) : b.write = w
ToSendIn(muts, acks, w) ==
  \E u \in Users : \E b \in Range(muts[u]) : b.write = w /\ b.id > acks[u]
OnlyIn(muts, w, u) == \A x \in Users : Holds(muts[x], w) => x = u

\* Where a write is queued, and whether it is still to be sent, is told by the
\* queue of its user.
LEMMA InQueueOf ==
  ASSUME NEW muts \in [Users -> Seq(Batches)], NEW acks, NEW u \in Users, NEW w,
         OnlyIn(muts, w, u)
  PROVE  /\ QueuedIn(muts, w) <=> Holds(muts[u], w)
         /\ ToSendIn(muts, acks, w) <=> HoldsAbove(muts[u], w, acks[u])
<1>1. ASSUME NEW x \in Users
      PROVE  Range(muts[x]) = {muts[x][i] : i \in 1 .. Len(muts[x])}
  <2>1. muts[x] \in Seq(Batches)
    OBVIOUS
  <2> QED
    BY <2>1, RangeEquality
<1>2. ASSUME NEW x \in Users, NEW b \in Range(muts[x]), b.write = w
      PROVE  x = u
  <2>1. Holds(muts[x], w)
    BY <1>1, <1>2 DEF Holds
  <2> QED
    BY <2>1 DEF OnlyIn
<1>3. QueuedIn(muts, w) <=> \E b \in Range(muts[u]) : b.write = w
  BY <1>2 DEF QueuedIn
<1>4. ToSendIn(muts, acks, w) <=> \E b \in Range(muts[u]) : b.write = w /\ b.id > acks[u]
  BY <1>2 DEF ToSendIn
<1> QED
  BY <1>1, <1>3, <1>4 DEF Holds, HoldsAbove

\* The same for the state as it is.
LEMMA WhoQueues ==
  ASSUME TypeOK, QueuesSound, NEW w \in 1 .. Len(author), NEW u \in Users, author[w].user = u
  PROVE  /\ Queued(w) <=> Holds(mutations[u], w)
         /\ ToSend(w) <=> HoldsAbove(mutations[u], w, lastAcked[u])
<1>1. ASSUME NEW x \in Users, Holds(mutations[x], w)
      PROVE  x = u
  <2>1. PICK i \in 1 .. Len(mutations[x]) : mutations[x][i].write = w
    BY <1>1 DEF Holds
  <2>2. BelongsTo(mutations[x][i], x)
    BY DEF QueuesSound, QueueSound
  <2> QED
    BY <2>1, <2>2 DEF BelongsTo
<1>2. OnlyIn(mutations, w, u)
  BY <1>1 DEF OnlyIn
<1>3. /\ QueuedIn(mutations, w) <=> Holds(mutations[u], w)
      /\ ToSendIn(mutations, lastAcked, w) <=> HoldsAbove(mutations[u], w, lastAcked[u])
  BY <1>2, Types, InQueueOf
<1>4. Queued(w) <=> QueuedIn(mutations, w)
  BY DEF Queued, QueuedIn
<1>5. ToSend(w) <=> ToSendIn(mutations, lastAcked, w)
  BY DEF ToSend, ToSendIn
<1> QED
  BY <1>3, <1>4, <1>5

\* In terms of how many batches of the queue are acknowledged.
LEMMA AboveIsBehind ==
  ASSUME NEW q \in Seq(Batches), NEW h \in Nat, NEW acked \in Nat \cup {Unknown},
         AckedUpTo(q, h, acked), NEW w
  PROVE  HoldsAbove(q, w, acked) <=> HoldsBehind(q, w, h)
<1>1. \A i \in 1 .. Len(q) : q[i].id \in Nat
  BY ElementOfSeq, BatchFields
<1>2. acked \in Int
  BY DEF Unknown
<1>3. Len(q) \in Nat
  BY LenProperties
<1>4. \A i \in 1 .. Len(q) : q[i].id > acked <=> i > h
  BY <1>1, <1>2, <1>3 DEF AckedUpTo
<1> QED
  BY <1>4 DEF HoldsAbove, HoldsBehind

LEMMA WhoSends ==
  ASSUME TypeOK, QueuesSound, NEW w \in 1 .. Len(author), NEW u \in Users, author[w].user = u,
         NEW h \in Nat, AckedUpTo(mutations[u], h, lastAcked[u])
  PROVE  ToSend(w) <=> HoldsBehind(mutations[u], w, h)
<1>1. HoldsAbove(mutations[u], w, lastAcked[u]) <=> HoldsBehind(mutations[u], w, h)
  BY Types, AboveIsBehind
<1> QED
  BY <1>1, WhoQueues

\* A change of one queue by which batches leave it from the acknowledged ones,
\* all or some, or right behind them.
QueueCut(u, a, n, h, acked) ==
  /\ mutations' \in [Users -> Seq(Batches)]
  /\ CutOut(mutations'[u], mutations[u], a, n)
  /\ \A x \in Users : x # u => mutations'[x] = mutations[x]
  /\ lastAcked'[u] = acked
  /\ \A x \in Users : x # u => lastAcked'[x] = lastAcked[x]
  /\ a + n <= Len(mutations[u])
  /\ AckedUpTo(mutations[u], h, acked)
  /\ (a = 0 /\ n <= h) \/ a = h

LEMMA QueuesStaySound ==
  ASSUME TypeOK, QueuesSound, NEW u \in Users, NEW a \in Nat, NEW n \in Nat, NEW h \in Nat,
         NEW acked \in Nat \cup {Unknown}, QueueCut(u, a, n, h, acked), author' = author
  PROVE  /\ QueuesSound'
         /\ \A left \in Nat : (a = 0 /\ n <= h /\ left = h - n) \/ (a = h /\ left = h)
                                => AckedUpTo(mutations'[u], left, acked)
<1>1. PICK q \in Seq(Batches) : q = mutations[u]
  BY Types
<1>2. PICK r \in Seq(Batches) : r = mutations'[u]
  BY DEF QueueCut
<1>3. CutOut(r, q, a, n) /\ a + n <= Len(q) /\ AckedUpTo(q, h, acked)
  BY <1>1, <1>2 DEF QueueCut
<1>4. ASSUME NEW left \in Nat, (a = 0 /\ n <= h /\ left = h - n) \/ (a = h /\ left = h)
      PROVE  AckedUpTo(r, left, acked)
  BY <1>3, <1>4, CutAcked
<1>5. Len(r) \in Nat /\ \A j \in 1 .. Len(r) : \E i \in 1 .. Len(q) : r[j] = q[i]
  <2>1. Len(r) \in Nat
    BY LenProperties
  <2>2. \A j \in 1 .. Len(r) : j <= a \/ j > a
    BY <2>1
  <2> QED
    BY <1>3, <2>1, <2>2, CutElements
<1>6. Ascending(r) /\ \A j \in 1 .. Len(r) : BelongsTo(r[j], u)
  <2>1. QueueSound(q, u, lastAcked[u])
    BY <1>1 DEF QueuesSound
  <2>2. Ascending(q) /\ \A i \in 1 .. Len(q) : BelongsTo(q[i], u)
    BY <2>1 DEF QueueSound
  <2>3. Ascending(r)
    BY <1>3, <2>2, CutElements
  <2> QED
    BY <1>5, <2>2, <2>3
<1>7. \E left \in Nat : AckedUpTo(r, left, acked)
  <2>1. CASE a = 0 /\ n <= h
    <3>1. h - n \in Nat
      BY <2>1
    <3> QED
      BY <1>4, <2>1, <3>1
  <2>2. CASE a = h
    BY <1>4, <2>2
  <2> QED
    BY <2>1, <2>2 DEF QueueCut
<1>8. QueueSound(r, u, acked)
  BY <1>6, <1>7 DEF QueueSound
<1>9. ASSUME NEW x \in Users
      PROVE  QueueSound(mutations'[x], x, lastAcked'[x])
  <2>1. CASE x = u
    BY <1>2, <1>8, <2>1 DEF QueueCut
  <2>2. CASE x # u
    <3>1. mutations'[x] = mutations[x] /\ lastAcked'[x] = lastAcked[x]
      BY <2>2 DEF QueueCut
    <3> QED
      BY <3>1 DEF QueuesSound
  <2> QED
    BY <2>1, <2>2
<1>10. QueuesSound'
  BY <1>9 DEF QueuesSound, QueueSound, BelongsTo
<1> QED
  BY <1>2, <1>4, <1>10

\* A write is in a queue but not in the stretch that is cut out of it.
HoldsBeside(q, w, a, n) == \E i \in 1 .. Len(q) : q[i].write = w /\ (i <= a \/ i > a + n)

\* What is queued and to be sent after such a change.
LEMMA QueuedAfterCut ==
  ASSUME TypeOK, QueuesSound, NEW u \in Users, NEW a \in Nat, NEW n \in Nat, NEW h \in Nat,
         NEW acked \in Nat \cup {Unknown}, QueueCut(u, a, n, h, acked), author' = author,
         NEW w \in 1 .. Len(author)
  PROVE  /\ author[w].user # u => (Queued(w)' <=> Queued(w)) /\ (ToSend(w)' <=> ToSend(w))
         /\ author[w].user = u =>
              /\ Queued(w)' <=> HoldsBeside(mutations[u], w, a, n)
              /\ ToSend(w)' <=> HoldsBehind(mutations[u], w, IF a + n <= h THEN h ELSE a + n)
<1>0. PICK acks : acks = lastAcked'
  OBVIOUS
<1>1. PICK q \in Seq(Batches) : q = mutations[u]
  BY Types
<1>2. PICK muts \in [Users -> Seq(Batches)] : muts = mutations' /\ acks = lastAcked'
  BY <1>0 DEF QueueCut
<1>3. PICK r \in Seq(Batches) : r = muts[u]
  OBVIOUS
<1>4. CutOut(r, q, a, n) /\ a + n <= Len(q) /\ AckedUpTo(q, h, acked)
  BY <1>1, <1>2, <1>3 DEF QueueCut
<1>5. PICK x \in Users : author[w].user = x
  <2>1. author[w] \in [key : Keys, kind : Kinds, user : Users]
    BY Types, ElementOfSeq
  <2> QED
    BY <2>1
<1>6. QueuesSound'
  BY QueuesStaySound
<1>7. OnlyIn(muts, w, x)
  <2>1. ASSUME NEW y \in Users, Holds(muts[y], w)
        PROVE  y = x
    <3>1. PICK i \in 1 .. Len(muts[y]) : muts[y][i].write = w
      BY <2>1 DEF Holds
    <3>2. PICK b : b = muts[y][i]
      OBVIOUS
    <3>3. BelongsTo(b, y)
      BY <1>2, <1>6, <3>2 DEF QueuesSound, QueueSound, BelongsTo
    <3> QED
      BY <1>5, <3>1, <3>2, <3>3 DEF BelongsTo
  <2> QED
    BY <2>1 DEF OnlyIn
<1>8. /\ Queued(w)' <=> Holds(muts[x], w)
      /\ ToSend(w)' <=> HoldsAbove(muts[x], w, acks[x])
  <2>1. /\ QueuedIn(muts, w) <=> Holds(muts[x], w)
        /\ ToSendIn(muts, acks, w) <=> HoldsAbove(muts[x], w, acks[x])
    BY <1>7, InQueueOf
  <2>2. Queued(w)' <=> QueuedIn(muts, w)
    BY <1>2 DEF Queued, QueuedIn
  <2>3. ToSend(w)' <=> ToSendIn(muts, acks, w)
    BY <1>2 DEF ToSend, ToSendIn
  <2> QED
    BY <2>1, <2>2, <2>3
<1>9. ASSUME x # u
      PROVE  (Queued(w)' <=> Queued(w)) /\ (ToSend(w)' <=> ToSend(w))
  <2>1. muts[x] = mutations[x] /\ acks[x] = lastAcked[x]
    BY <1>2, <1>9 DEF QueueCut
  <2>2. /\ Queued(w) <=> Holds(mutations[x], w)
        /\ ToSend(w) <=> HoldsAbove(mutations[x], w, lastAcked[x])
    BY <1>5, WhoQueues
  <2> QED
    BY <1>8, <2>1, <2>2
<1>10. Len(q) \in Nat /\ Len(r) \in Nat
  BY LenProperties
<1>11. /\ \A j \in 1 .. Len(r) : /\ j <= a => j \in 1 .. Len(q) /\ r[j] = q[j]
                                 /\ j > a => j + n \in 1 .. Len(q) /\ r[j] = q[j + n]
       /\ \A i \in 1 .. Len(q) : /\ i <= a => i \in 1 .. Len(r) /\ r[i] = q[i]
                                 /\ i > a + n => i - n \in 1 .. Len(r) /\ r[i - n] = q[i]
  BY <1>4, CutElements
<1>12. ASSUME NEW j \in 1 .. Len(r)
       PROVE  \E i \in 1 .. Len(q) : r[j] = q[i] /\ (i <= a \/ i > a + n)
  <2>1. CASE j <= a
    BY <1>11, <2>1
  <2>2. CASE j > a
    <3>1. j + n \in 1 .. Len(q) /\ r[j] = q[j + n] /\ j + n > a + n
      BY <1>11, <2>2
    <3> QED
      BY <3>1
  <2>3. j <= a \/ j > a
    BY <1>10
  <2> QED
    BY <2>1, <2>2, <2>3
<1>13. ASSUME NEW i \in 1 .. Len(q), i <= a \/ i > a + n
       PROVE  \E j \in 1 .. Len(r) : r[j] = q[i]
  BY <1>11, <1>13
<1>14. Holds(r, w) <=> HoldsBeside(q, w, a, n)
  BY <1>12, <1>13 DEF Holds, HoldsBeside
<1>15. \A i \in 1 .. Len(q) : q[i].id > acked <=> i > h
  <2>1. \A i \in 1 .. Len(q) : q[i].id \in Nat
    BY ElementOfSeq, BatchFields
  <2>2. acked \in Int
    BY DEF Unknown
  <2>3. \A i \in 1 .. Len(q) : q[i].id <= acked <=> i <= h
    BY <1>4 DEF AckedUpTo
  <2> QED
    BY <1>10, <2>1, <2>2, <2>3
<1>16. HoldsAbove(r, w, acked) <=>
         \E i \in 1 .. Len(q) : q[i].write = w /\ q[i].id > acked /\ (i <= a \/ i > a + n)
  BY <1>12, <1>13 DEF HoldsAbove
<1>17. HoldsAbove(r, w, acked) <=> HoldsBehind(q, w, IF a + n <= h THEN h ELSE a + n)
  <2>1. (a = 0 /\ n <= h) \/ a = h
    BY DEF QueueCut
  <2>2. \A i \in 1 .. Len(q) :
          i > h /\ (i <= a \/ i > a + n) <=> i > (IF a + n <= h THEN h ELSE a + n)
    BY <1>10, <2>1
  <2> QED
    BY <1>15, <1>16, <2>2 DEF HoldsBehind
<1>18. acks[u] = acked
  BY <1>2 DEF QueueCut
<1> QED
  BY <1>1, <1>3, <1>5, <1>8, <1>9, <1>14, <1>17, <1>18

-----------------------------------------------------------------------------
(* How the history of the writes goes on. *)

\* The log only grows, and only by writes that are still to be sent.
PlacesKept ==
  \A w \in 1 .. Len(author) :
    Places(w) \subseteq Places(w)' /\ (~ToSend(w) => Places(w)' = Places(w))

\* A write is committed, and each earlier one of its user is behind it for good.
SettledNow(w) ==
  /\ Places(w) # {}
  /\ \A v \in 1 .. Len(author) : v < w /\ author[v].user = author[w].user =>
       ~ToSend(v) /\ \A p \in Places(v) : \E r \in Places(w) : p < r

\* Nothing is lost, and what is settled stays so, in a step that settles or
\* refuses whatever it takes from what is to be sent.
LEMMA HistoryStays ==
  ASSUME TypeOK, NothingLost, SettledFinal, author' = author, refused \subseteq refused', PlacesKept,
         \A w \in 1 .. Len(author) : ToSend(w)' => ToSend(w),
         \A w \in 1 .. Len(author) :
           ToSend(w) /\ ~ToSend(w)' => w \in refused' \/ SettledNow(w)'
  PROVE  NothingLost' /\ SettledFinal'
<1>1. DOMAIN author = 1 .. Len(author)
  BY Types
<1>2. ASSUME NEW w \in 1 .. Len(author)
      PROVE  ToSend(w)' \/ Places(w)' # {} \/ w \in refused'
  <2>1. CASE ToSend(w) /\ ~ToSend(w)'
    BY <2>1 DEF SettledNow
  <2>2. CASE ~ToSend(w)
    <3>1. Places(w) # {} \/ w \in refused
      BY <1>1, <2>2 DEF NothingLost
    <3> QED
      BY <2>2, <3>1 DEF PlacesKept
  <2> QED
    BY <2>1, <2>2
<1>3. ASSUME NEW v \in 1 .. Len(author), NEW w \in 1 .. Len(author),
             v < w, author[v].user = author[w].user, ~ToSend(w)', w \notin refused'
      PROVE  ~ToSend(v)' /\ \A p \in Places(v)' : \E r \in Places(w)' : p < r
  <2>1. CASE ToSend(w)
    <3>1. SettledNow(w)'
      BY <1>3, <2>1
    <3> QED
      BY <1>3, <3>1 DEF SettledNow
  <2>2. CASE ~ToSend(w)
    <3>1. ~ToSend(v) /\ \A p \in Places(v) : \E r \in Places(w) : p < r
      BY <1>3, <2>2 DEF SettledFinal
    <3>2. Places(v)' = Places(v) /\ Places(w)' = Places(w) /\ ~ToSend(v)'
      BY <2>2, <3>1 DEF PlacesKept
    <3> QED
      BY <3>1, <3>2
  <2> QED
    BY <2>1, <2>2
<1>4. NothingLost'
  BY <1>1, <1>2 DEF NothingLost
<1>5. SettledFinal'
  BY <1>3 DEF SettledFinal
<1> QED
  BY <1>4, <1>5

\* The versions coming are numbers.
LEMMA ComingVersions ==
  ASSUME TypeOK
  PROVE  Coming \in SUBSET Nat
<1>1. \A i \in 1 .. Len(held) : held[i] \in Results /\ held[i].version \in Nat
  BY Types, ElementOfSeq, BatchFields
<1>2. \A i \in 1 .. Len(responses) : responses[i] \in Nat \cup {Refused}
  BY Types, ElementOfSeq
<1> QED
  BY <1>1, <1>2 DEF Coming

\* A version a document may get in the cache: the one it has, one that is
\* coming, or one no older than what listeners are to be told of.
Newer(k, d) ==
  \/ d = remoteDocs[k]
  \/ d \in Coming
  \/ /\ target # Off
     /\ \A p \in 1 .. Len(log) :
          log[p].key = k /\ (p <= target \/ p <= lastRemote) => p <= d

\* What left the queue stays shown in a step that shows, refuses or gives up
\* whatever it takes from the queue.
LEMMA LeftStays ==
  ASSUME IInv, author' = author, refused \subseteq refused', dropped \subseteq dropped', PlacesKept,
         \A i \in 1 .. Len(log) : log'[i] = log[i],
         \A k \in Keys : Newer(k, remoteDocs'[k]),
         \A x \in Coming' : x \in Coming \/ x = Len(log) + 1,
         \/ target' = Off
         \/ target' = Len(log)
         \/ /\ target # Off
            /\ \A p \in Nat : p <= target \/ p <= lastRemote => p <= target' \/ p <= lastRemote',
         \A w \in 1 .. Len(author) :
           Queued(w) /\ ~Queued(w)' => w \in refused' \cup dropped' \/ (Visible(w)' /\ Past(w)')
  PROVE  LeftVisible'
<1>1. TypeOK /\ LeftVisible
  BY DEF IInv
<1>2. /\ Len(log) \in Nat /\ DOMAIN log = 1 .. Len(log) /\ Len(author) \in Nat
      /\ remoteDocs \in [Keys -> Nat] /\ lastRemote \in Nat /\ target \in Nat \cup {Off}
  BY <1>1, Types
<1>3. ASSUME NEW w \in 1 .. Len(author), ~Queued(w)', w \notin refused' \cup dropped', ~Queued(w)
      PROVE  Visible(w)' /\ Past(w)'
  <2>1. Visible(w) /\ Past(w)
    BY <1>1, <1>3 DEF LeftVisible
  <2>2. Places(w)' = Places(w)
    <3>1. ~ToSend(w)
      BY <1>3 DEF Queued, ToSend
    <3> QED
      BY <3>1 DEF PlacesKept
  <2>3. PICK k \in Keys : k = author[w].key
    <3>1. author[w] \in [key : Keys, kind : Kinds, user : Users]
      BY <1>1, Types, ElementOfSeq
    <3> QED
      BY <3>1
  <2>4. \A p \in Places(w) : p \in 1 .. Len(log) /\ log[p].key = k
    <3>1. \A p \in Places(w) : p \in 1 .. Len(log) /\ log[p].value = w
      BY <1>2 DEF Places
    <3>2. w # Elsewhere
      BY DEF Elsewhere
    <3> QED
      BY <2>3, <3>1, <3>2 DEF IInv, LogSound
  <2>5. PICK c \in Nat : c = remoteDocs[k]
    BY <1>2
  <2>6. PICK d : d = remoteDocs'[k]
    OBVIOUS
  <2>7. Newer(k, d)
    BY <2>6
  <2>8. ASSUME d = c
        PROVE  Visible(w)'
    <3>1. CASE \A p \in Places(w) : p <= c
      BY <2>2, <2>3, <2>6, <2>8, <3>1 DEF Visible
    <3>2. CASE author[w].kind = "update" /\ ~HasDocument(c)
      <4>1. c = 0 \/ c \in 1 .. Len(log)
        BY <2>5 DEF IInv, CacheSound
      <4>2. c = 0 \/ log'[c].kind = "delete"
        BY <3>2, <4>1 DEF HasDocument
      <4> QED
        BY <2>3, <2>6, <2>8, <3>2, <4>2 DEF Visible, HasDocument
    <3> QED
      BY <2>1, <2>3, <2>5, <3>1, <3>2 DEF Visible
  <2>9. ASSUME d # c
        PROVE  Visible(w)'
    <3>1. \A p \in Places(w) : p <= d
      <4>1. CASE d \in Coming
        <5>1. d \in Nat
          BY <1>1, <4>1, ComingVersions
        <5>2. \A p \in Places(w) : p < d
          BY <2>1, <4>1 DEF Past
        <5> QED
          BY <2>4, <5>1, <5>2
      <4>2. CASE /\ target # Off
                 /\ \A p \in 1 .. Len(log) :
                      log[p].key = k /\ (p <= target \/ p <= lastRemote) => p <= d
        BY <2>1, <2>4, <4>2 DEF Past
      <4> QED
        BY <2>5, <2>7, <2>9, <4>1, <4>2 DEF Newer
    <3> QED
      BY <2>2, <2>3, <2>6, <3>1 DEF Visible
  <2>10. Past(w)'
    <3>1. ASSUME NEW p \in Places(w), NEW x \in Coming'
          PROVE  p < x
      <4>1. CASE x \in Coming
        BY <2>1, <4>1 DEF Past
      <4>2. CASE x = Len(log) + 1
        BY <1>2, <2>4, <4>2
      <4> QED
        BY <4>1, <4>2
    <3>2. ASSUME NEW p \in Places(w), target' # Off
          PROVE  p <= target' \/ p <= lastRemote'
      <4>1. CASE target' = Len(log)
        BY <1>2, <2>4, <4>1
      <4>2. CASE /\ target # Off
                 /\ \A m \in Nat : m <= target \/ m <= lastRemote =>
                                   m <= target' \/ m <= lastRemote'
        <5>1. p \in Nat /\ (p <= target \/ p <= lastRemote)
          BY <1>2, <2>1, <2>4, <4>2 DEF Past
        <5> QED
          BY <4>2, <5>1
      <4> QED
        BY <3>2, <4>1, <4>2
    <3> QED
      BY <2>2, <3>1, <3>2 DEF Past
  <2> QED
    BY <2>8, <2>9, <2>10
<1>4. ASSUME NEW w \in 1 .. Len(author), ~Queued(w)', w \notin refused' \cup dropped'
      PROVE  Visible(w)' /\ Past(w)'
  BY <1>3, <1>4
<1> QED
  BY <1>4 DEF LeftVisible

\* Steps that take nothing new into the cache, and writes from the queue only
\* to refuse them or give them up.
LEMMA LeftStaysCached ==
  ASSUME IInv, author' = author, refused \subseteq refused', dropped \subseteq dropped', PlacesKept,
         \A i \in 1 .. Len(log) : log'[i] = log[i], remoteDocs' = remoteDocs,
         \A x \in Coming' : x \in Coming \/ x = Len(log) + 1,
         \/ target' = Off
         \/ target' = Len(log)
         \/ target' = target /\ lastRemote' = lastRemote,
         \A w \in 1 .. Len(author) : Queued(w) /\ ~Queued(w)' => w \in refused' \cup dropped'
  PROVE  LeftVisible'
<1>1. \A k \in Keys : Newer(k, remoteDocs'[k])
  BY DEF Newer
<1>2. \/ target' = Off
      \/ target' = Len(log)
      \/ /\ target # Off
         /\ \A p \in Nat : p <= target \/ p <= lastRemote => p <= target' \/ p <= lastRemote'
  OBVIOUS
<1> QED
  BY <1>1, <1>2, LeftStays

\* With what is held and the answers as they are, or gone, nothing is coming
\* that was not.
LEMMA ComingStays ==
  ASSUME held' = held \/ held' = <<>>, responses' = responses \/ responses' = <<>>
  PROVE  Coming' \subseteq Coming
<1>1. PICK e : e = <<>>
  OBVIOUS
<1>2. Len(e) = 0
  BY <1>1, EmptyElements
<1>3. ASSUME NEW h, NEW r, h = held \/ h = e, r = responses \/ r = e
      PROVE  {h[i].version : i \in 1 .. Len(h)}
               \cup {r[i] : i \in {j \in 1 .. Len(r) : r[j] # Refused}} \subseteq Coming
  BY <1>2, <1>3 DEF Coming
<1> QED
  BY <1>1, <1>3 DEF Coming

\* A log that stays as it is.
LEMMA SameLog ==
  ASSUME log' = log
  PROVE  PlacesKept /\ \A w : Places(w)' = Places(w)
  BY DEF PlacesKept, Places

\* A log that grows by one entry.
LEMMA LongerLog ==
  ASSUME TypeOK, NEW e \in [key : Keys, kind : Kinds, value : Writes \cup {Elsewhere}], log' = Append(log, e)
  PROVE  /\ log' \in Seq([key : Keys, kind : Kinds, value : Writes \cup {Elsewhere}])
         /\ Len(log') = Len(log) + 1
         /\ \A i \in 1 .. Len(log) : log'[i] = log[i]
         /\ log'[Len(log) + 1] = e
         /\ \A w : e.value # w => Places(w)' = Places(w)
         /\ \A w : e.value = w => Places(w)' = Places(w) \cup {Len(log) + 1}
         /\ \A w : Places(w) \in SUBSET (1 .. Len(log))
<1>1. /\ log' \in Seq([key : Keys, kind : Kinds, value : Writes \cup {Elsewhere}])
      /\ Len(log') = Len(log) + 1
      /\ \A i \in 1 .. Len(log) : log'[i] = log[i]
      /\ log'[Len(log) + 1] = e
  BY Types, AppendElements
<1>2. DOMAIN log = 1 .. Len(log) /\ DOMAIN log' = 1 .. Len(log) + 1 /\ Len(log) \in Nat
  BY <1>1, Types, LenProperties
<1>3. PICK l : l = log'
  OBVIOUS
<1>4. \A w : Places(w)' = {i \in 1 .. Len(log) + 1 : l[i].value = w}
  BY <1>2, <1>3 DEF Places
<1>5. \A w : Places(w) = {i \in 1 .. Len(log) : l[i].value = w}
  BY <1>1, <1>2, <1>3 DEF Places
<1>6. \A i \in 1 .. Len(log) + 1 : i \in 1 .. Len(log) \/ i = Len(log) + 1
  BY <1>2
<1>7. l[Len(log) + 1].value = e.value /\ Len(log) + 1 \in 1 .. Len(log) + 1
  BY <1>1, <1>2, <1>3
<1>8. \A i \in 1 .. Len(log) : i \in 1 .. Len(log) + 1
  BY <1>2
<1>9. ASSUME NEW w, e.value # w
      PROVE  Places(w)' = Places(w)
  <2>1. \A i : i \in Places(w)' <=> i \in Places(w)
    BY <1>4, <1>5, <1>6, <1>7, <1>8, <1>9
  <2> QED
    BY <2>1
<1>10. ASSUME NEW w, e.value = w
       PROVE  Places(w)' = Places(w) \cup {Len(log) + 1}
  <2>1. \A i : i \in Places(w)' <=> i \in Places(w) \cup {Len(log) + 1}
    BY <1>4, <1>5, <1>6, <1>7, <1>8, <1>10
  <2> QED
    BY <2>1
<1> QED
  BY <1>1, <1>5, <1>9, <1>10

-----------------------------------------------------------------------------
(* The open queue. *)

\* A write of the signed-in user is to be sent if it is in the queue behind
\* what is held.
LEMMA OpenSends ==
  ASSUME IInv, NEW w \in 1 .. Len(author), author[w].user = user
  PROVE  ToSend(w) <=> HoldsBehind(mutations[user], w, Len(held))
<1>1. TypeOK /\ QueuesSound /\ AckedUpTo(mutations[user], Len(held), lastAcked[user])
  BY DEF IInv, HeldSound
<1>2. user \in Users /\ Len(held) \in Nat
  BY <1>1, Types
<1> QED
  BY <1>1, <1>2, WhoSends

\* The open queue and the batches in it.
LEMMA OpenQueueBatches ==
  ASSUME IInv
  PROVE  /\ user \in Users /\ mutations[user] \in Seq(Batches)
         /\ Len(mutations[user]) \in Nat /\ Len(held) \in Nat /\ Len(pipeline) \in Nat
         /\ Ascending(mutations[user])
         /\ \A i \in 1 .. Len(mutations[user]) : /\ mutations[user][i] \in Batches
                                                 /\ BelongsTo(mutations[user][i], user)
         /\ Len(held) + Len(pipeline) <= Len(mutations[user])
         /\ Len(held) <= Len(mutations[user])
<1>1. /\ user \in Users /\ mutations[user] \in Seq(Batches)
      /\ Len(mutations[user]) \in Nat /\ Len(held) \in Nat /\ Len(pipeline) \in Nat
  BY Types DEF IInv
<1>2. QueueSound(mutations[user], user, lastAcked[user])
  BY <1>1 DEF IInv, QueuesSound
<1>3. Len(held) + Len(pipeline) <= Len(mutations[user])
  BY DEF IInv, PipelineSound, Follows
<1>4. Len(held) <= Len(mutations[user])
  BY <1>1, <1>3
<1>5. \A i \in 1 .. Len(mutations[user]) : mutations[user][i] \in Batches
  BY <1>1, ElementOfSeq
<1> QED
  BY <1>1, <1>2, <1>3, <1>4, <1>5 DEF QueueSound

\* What the pipeline holds is to be sent, in the order of the writes.
LEMMA InPipeline ==
  ASSUME IInv, NEW i \in 1 .. Len(pipeline)
  PROVE  /\ Len(held) + i \in 1 .. Len(mutations[user])
         /\ pipeline[i] = mutations[user][Len(held) + i]
         /\ pipeline[i] \in Batches
         /\ BelongsTo(pipeline[i], user)
         /\ ToSend(pipeline[i].write)
         /\ \A j \in 1 .. Len(pipeline) : j < i => pipeline[j].write < pipeline[i].write
<1>1. PICK q : q = mutations[user]
  OBVIOUS
<1>2. PICK h \in Nat : h = Len(held)
  BY OpenQueueBatches
<1>3. Len(q) \in Nat /\ Len(pipeline) \in Nat /\ h + Len(pipeline) <= Len(q) /\ Ascending(q)
  BY <1>1, <1>2, OpenQueueBatches
<1>4. \A j \in 1 .. Len(pipeline) : h + j \in 1 .. Len(q) /\ pipeline[j] = q[h + j]
  BY <1>1, <1>2, <1>3 DEF IInv, PipelineSound, Follows
<1>5. q[h + i] \in Batches /\ BelongsTo(q[h + i], user)
  BY <1>1, <1>4, OpenQueueBatches
<1>6. HoldsBehind(q, pipeline[i].write, h)
  <2>1. h + i \in 1 .. Len(q) /\ h + i > h /\ q[h + i].write = pipeline[i].write
    BY <1>3, <1>4
  <2> QED
    BY <2>1 DEF HoldsBehind
<1>7. pipeline[i].write \in 1 .. Len(author) /\ author[pipeline[i].write].user = user
  BY <1>4, <1>5 DEF BelongsTo
<1>8. ToSend(pipeline[i].write)
  BY <1>1, <1>2, <1>6, <1>7, OpenSends
<1>9. ASSUME NEW j \in 1 .. Len(pipeline), j < i
      PROVE  pipeline[j].write < pipeline[i].write
  <2>1. h + j < h + i /\ h + j \in 1 .. Len(q) /\ h + i \in 1 .. Len(q)
    BY <1>3, <1>4, <1>9
  <2>2. q[h + j].write < q[h + i].write
    BY <1>3, <2>1 DEF Ascending
  <2> QED
    BY <1>4, <2>2
<1> QED
  BY <1>1, <1>2, <1>4, <1>5, <1>8, <1>9

\* What is held is not sent any more.
LEMMA InHeld ==
  ASSUME IInv, NEW i \in 1 .. Len(held)
  PROVE  /\ i \in 1 .. Len(mutations[user])
         /\ held[i].batch = mutations[user][i]
         /\ held[i] \in Results
         /\ BelongsTo(held[i].batch, user)
         /\ ~ToSend(held[i].batch.write)
         /\ Final(held[i].version, held[i].batch)
<1>1. PICK q : q = mutations[user]
  OBVIOUS
<1>2. PICK h \in Nat : h = Len(held)
  BY OpenQueueBatches
<1>3. Len(q) \in Nat /\ h <= Len(q) /\ Ascending(q)
  BY <1>1, <1>2, OpenQueueBatches
<1>4. i \in 1 .. Len(q) /\ held[i].batch = q[i] /\ Final(held[i].version, held[i].batch)
  BY <1>1, <1>2, <1>3 DEF IInv, HeldSound, HeldFinal
<1>5. BelongsTo(q[i], user)
  BY <1>1, <1>4, OpenQueueBatches
<1>6. \A j \in 1 .. Len(q) : q[j] \in Batches
  BY <1>1, OpenQueueBatches
<1>7. ~HoldsBehind(q, q[i].write, h)
  <2>1. SUFFICES ASSUME NEW j \in 1 .. Len(q), q[j].write = q[i].write, j > h
                 PROVE  FALSE
    BY DEF HoldsBehind
  <2>2. i < j
    BY <1>2, <2>1
  <2>3. q[i].write < q[j].write
    BY <1>3, <1>4, <2>2 DEF Ascending
  <2>4. q[i].write \in Nat
    BY <1>4, <1>6, BatchFields, WritesNumbered
  <2> QED
    BY <2>1, <2>3, <2>4
<1>8. q[i].write \in 1 .. Len(author) /\ author[q[i].write].user = user
  BY <1>5 DEF BelongsTo
<1>9. ~ToSend(q[i].write)
  BY <1>1, <1>2, <1>7, <1>8, OpenSends
<1>10. held[i] \in Results
  BY ElementOfSeq, Types DEF IInv
<1> QED
  BY <1>1, <1>4, <1>5, <1>9, <1>10

-----------------------------------------------------------------------------
(* Steps of the streams and of the server. *)

\* What the stream's steps leave as it is.
QueuesUntouched ==
  UNCHANGED <<disk, user, nextBatchID, held, pipeline, author, refused, dropped, crash>>

\* With the queues untouched, what is queued is what was, and so are the parts
\* of the invariant about them.
LEMMA QueuesUntouchedSound ==
  ASSUME IInv, QueuesUntouched
  PROVE  /\ NoAssertionFails' /\ QueuesSound' /\ Numbered' /\ HeldSound' /\ PipelineSound'
         /\ \A w : (Queued(w)' <=> Queued(w)) /\ (ToSend(w)' <=> ToSend(w))
<1>1. /\ mutations' = mutations /\ lastAcked' = lastAcked /\ user' = user
      /\ nextBatchID' = nextBatchID /\ held' = held /\ pipeline' = pipeline
      /\ author' = author /\ crash' = crash
  BY DEF QueuesUntouched, disk
<1>2. NoAssertionFails'
  BY <1>1 DEF IInv, NoAssertionFails
<1>3. QueuesSound'
  BY <1>1 DEF IInv, QueuesSound, QueueSound, BelongsTo
<1>4. Numbered'
  BY <1>1 DEF IInv, Numbered
<1>5. HeldSound'
  BY <1>1 DEF IInv, HeldSound
<1>6. PipelineSound'
  BY <1>1 DEF IInv, PipelineSound
<1>7. \A w : (Queued(w)' <=> Queued(w)) /\ (ToSend(w)' <=> ToSend(w))
  BY <1>1 DEF Queued, ToSend
<1> QED
  BY <1>2, <1>3, <1>4, <1>5, <1>6, <1>7

\* With the log untouched as well, so are those about the log.
LEMMA LogUntouchedSound ==
  ASSUME IInv, QueuesUntouched, log' = log, Coming' \subseteq Coming,
         target' = target \/ target' = Len(log)
  PROVE  LogSound' /\ HeldFinal' /\ SettledFinal' /\ NothingLost' /\ LeftVisible'
<1>1. /\ remoteDocs' = remoteDocs /\ lastRemote' = lastRemote /\ held' = held /\ author' = author
      /\ refused' = refused /\ dropped' = dropped
  BY DEF QueuesUntouched, disk
<1>2. PlacesKept /\ \A w : Places(w)' = Places(w)
  BY SameLog
<1>3. \A w : (Queued(w)' <=> Queued(w)) /\ (ToSend(w)' <=> ToSend(w))
  BY QueuesUntouchedSound
<1>4. LogSound'
  BY <1>1 DEF IInv, LogSound
<1>5. HeldFinal'
  BY <1>1 DEF IInv, HeldFinal, Final, Places
<1>6. NothingLost' /\ SettledFinal'
  BY <1>1, <1>2, <1>3, HistoryStays DEF IInv
<1>7. LeftVisible'
  BY <1>1, <1>2, <1>3, LeftStaysCached
<1> QED
  BY <1>4, <1>5, <1>6, <1>7

\* What a write was committed as stays final while others are.
LEMMA FinalStays ==
  ASSUME TypeOK, NEW e \in [key : Keys, kind : Kinds, value : Writes \cup {Elsewhere}], log' = Append(log, e),
         NEW version, NEW b, Final(version, b), e.value # b.write
  PROVE  Final(version, b)'
<1>1. /\ version \in 1 .. Len(log)
      /\ log[version] = Entry(b)
      /\ \A p \in Places(b.write) : p <= version
  BY DEF Final
<1>2. Places(b.write)' = Places(b.write) /\ Len(log') = Len(log) + 1 /\ log'[version] = log[version]
  BY <1>1, LongerLog
<1>3. version \in 1 .. Len(log')
  BY <1>1, <1>2, Types
<1>4. log'[version] = Entry(b)
  BY <1>1, <1>2
<1>5. \A p \in Places(b.write)' : p <= version
  BY <1>1, <1>2
<1> QED
  BY <1>3, <1>4, <1>5 DEF Final

\* An entry added to the log for a write still to be sent, or from elsewhere,
\* disturbs nothing that was settled, held or cached.
LEMMA LogGrownSound ==
  ASSUME IInv, QueuesUntouched, target' = target,
         NEW e \in [key : Keys, kind : Kinds, value : Writes \cup {Elsewhere}], log' = Append(log, e),
         \A x \in Coming' : x \in Coming \/ x = Len(log) + 1,
         \/ e.value = Elsewhere
         \/ /\ e.value \in 1 .. Len(author)
            /\ author[e.value].key = e.key
            /\ ToSend(e.value)
  PROVE  LogSound' /\ HeldFinal' /\ SettledFinal' /\ NothingLost' /\ LeftVisible' /\ CacheSound'
<1>1. /\ remoteDocs' = remoteDocs /\ lastRemote' = lastRemote /\ held' = held /\ author' = author
      /\ refused' = refused /\ dropped' = dropped
  BY DEF QueuesUntouched, disk
<1>2. TypeOK
  BY DEF IInv
<1>3. /\ Len(log') = Len(log) + 1
      /\ \A i \in 1 .. Len(log) : log'[i] = log[i]
      /\ log'[Len(log) + 1] = e
  BY <1>2, LongerLog
<1>4. Len(log) \in Nat /\ Len(author) \in Nat
  BY <1>2, Types
<1>5. ASSUME NEW w \in 1 .. Len(author), ~ToSend(w)
      PROVE  e.value # w
  BY <1>4, <1>5 DEF Elsewhere
<1>6. PlacesKept
  <2>1. ASSUME NEW w \in 1 .. Len(author)
        PROVE  Places(w) \subseteq Places(w)' /\ (~ToSend(w) => Places(w)' = Places(w))
    <3>1. CASE e.value = w
      <4>1. Places(w)' = Places(w) \cup {Len(log) + 1}
        BY <1>2, <3>1, LongerLog
      <4>2. ToSend(w)
        BY <1>5, <3>1
      <4> QED
        BY <4>1, <4>2
    <3>2. CASE e.value # w
      <4>1. Places(w)' = Places(w)
        BY <1>2, <3>2, LongerLog
      <4> QED
        BY <4>1
    <3> QED
      BY <3>1, <3>2
  <2> QED
    BY <2>1 DEF PlacesKept
<1>7. \A w : (Queued(w)' <=> Queued(w)) /\ (ToSend(w)' <=> ToSend(w))
  BY QueuesUntouchedSound
<1>8. LogSound'
  <2>1. ASSUME NEW i \in 1 .. Len(log) + 1
        PROVE  \/ log'[i].value = Elsewhere
               \/ log'[i].value \in 1 .. Len(author) /\ author[log'[i].value].key = log'[i].key
    <3>1. CASE i = Len(log) + 1
      BY <1>3, <3>1
    <3>2. CASE i \in 1 .. Len(log)
      BY <1>3, <3>2 DEF IInv, LogSound
    <3> QED
      BY <1>4, <3>1, <3>2
  <2> QED
    BY <1>1, <1>3, <2>1 DEF LogSound
<1>9. HeldFinal'
  <2>1. ASSUME NEW i \in 1 .. Len(held), NEW version, NEW b,
               version = held[i].version, b = held[i].batch
        PROVE  Final(version, b)'
    <3>1. Final(version, b) /\ b.write \in 1 .. Len(author) /\ ~ToSend(b.write)
      BY <2>1, InHeld DEF BelongsTo
    <3>2. e.value # b.write
      BY <1>5, <3>1
    <3> QED
      BY <1>2, <3>1, <3>2, FinalStays
  <2>2. \A i, j \in 1 .. Len(held) : j < i => held[j].version < held[i].version
    BY DEF IInv, HeldFinal
  <2> QED
    BY <1>1, <2>1, <2>2 DEF HeldFinal, Final, Places
<1>10. NothingLost' /\ SettledFinal'
  BY <1>1, <1>6, <1>7, HistoryStays DEF IInv
<1>11. LeftVisible'
  BY <1>1, <1>3, <1>6, <1>7, LeftStaysCached
<1>12. CacheSound'
  <2>1. ASSUME NEW k \in Keys
        PROVE  \/ remoteDocs[k] = 0
               \/ remoteDocs[k] \in 1 .. Len(log) + 1 /\ log'[remoteDocs[k]].key = k
    <3>1. remoteDocs[k] = 0 \/ (remoteDocs[k] \in 1 .. Len(log) /\ log[remoteDocs[k]].key = k)
      BY DEF IInv, CacheSound
    <3> QED
      BY <1>3, <1>4, <3>1
  <2> QED
    BY <1>1, <1>3, <2>1 DEF IInv, CacheSound
<1> QED
  BY <1>8, <1>9, <1>10, <1>11, <1>12

\* The server always works on the first write of the pipeline it has not
\* answered.
LEMMA NextRequest ==
  ASSUME IInv, Serving
  PROVE  /\ stream = "ready"
         /\ \A i \in 1 .. Len(responses) : responses[i] # Refused
         /\ requests # <<>> /\ Len(requests) >= 1
         /\ Matches(pipeline, requests, Len(responses))
         /\ Len(responses) + 1 \in 1 .. Len(pipeline)
         /\ Head(requests) = pipeline[Len(responses) + 1]
<1>1. /\ requests \in Seq(Batches) /\ responses \in Seq(Nat \cup {Refused})
      /\ Len(requests) \in Nat /\ Len(responses) \in Nat /\ Len(pipeline) \in Nat
  BY Types DEF IInv
<1>2. requests # <<>> /\ Refused \notin Range(responses)
  BY DEF Serving
<1>3. stream = "ready"
  BY <1>2 DEF IInv, StreamSound
<1>4. ASSUME NEW i \in 1 .. Len(responses)
      PROVE  responses[i] # Refused
  <2>1. responses[i] \in Range(responses)
    BY <1>1, RangeEquality
  <2> QED
    BY <1>2, <2>1
<1>5. Matches(pipeline, requests, Len(responses))
  BY <1>3, <1>4 DEF IInv, StreamSound
<1>6. Len(requests) >= 1 /\ Head(requests) = requests[1]
  BY <1>1, <1>2, TailElements
<1>7. Len(responses) + 1 \in 1 .. Len(pipeline) /\ requests[1] = pipeline[Len(responses) + 1]
  BY <1>1, <1>5, <1>6 DEF Matches
<1> QED
  BY <1>2, <1>3, <1>4, <1>5, <1>6, <1>7

\* The handshake finds nothing answered.
LEMMA HandshakeKeeps ==
  ASSUME IInv, Handshake
  PROVE  IInv'
<1>1. /\ QueuesUntouched /\ log' = log /\ target' = target /\ responses' = responses
      /\ requests' = pipeline /\ pipeline' = pipeline /\ stream' = "ready" /\ stream = "opening"
      /\ UNCHANGED <<limits, elsewhere, faults, restarts>>
  BY DEF Handshake, QueuesUntouched, disk, memory, history, used
<1>2. remoteDocs' = remoteDocs /\ lastRemote' = lastRemote
  BY DEF Handshake, disk
<1>3. responses = <<>> /\ Len(responses) = 0 /\ Len(pipeline) \in Nat
  BY <1>1, Types, EmptyElements DEF IInv, StreamSound
<1>4. TypeOK'
  BY <1>1 DEF IInv, TypeOK, QueuesUntouched, disk, StreamStates
<1>5. Matches(pipeline, pipeline, 0)
  BY <1>3 DEF Matches
<1>6. StreamSound'
  BY <1>1, <1>3, <1>5 DEF StreamSound
<1>7. AnswersSound'
  BY <1>1, <1>3 DEF AnswersSound
<1>8. CacheSound'
  BY <1>1, <1>2 DEF IInv, CacheSound
<1>9. Coming' \subseteq Coming
  BY <1>1, ComingStays DEF QueuesUntouched
<1> QED
  BY <1>1, <1>4, <1>6, <1>7, <1>8, <1>9, QueuesUntouchedSound, LogUntouchedSound DEF IInv

\* Nothing is on its way on a stream that is broken, or was never opened.
LEMMA QuietStream ==
  ASSUME stream' # "ready", requests' = <<>>, responses' = <<>>, Len(pipeline') \in Nat
  PROVE  StreamSound' /\ AnswersSound'
<1>1. Len(responses') = 0
  BY EmptyElements
<1>2. StreamSound'
  BY <1>1 DEF StreamSound
<1>3. AnswersSound'
  BY <1>1 DEF AnswersSound
<1> QED
  BY <1>2, <1>3

\* A stream that breaks takes what is on its way with it.
LEMMA InterruptedKeeps ==
  ASSUME IInv, Interrupted
  PROVE  IInv'
<1>1. /\ QueuesUntouched /\ log' = log /\ target' = target /\ pipeline' = pipeline
      /\ requests' = <<>> /\ responses' = <<>> /\ stream' \in {"stopped", "opening"}
      /\ UNCHANGED <<limits, elsewhere, restarts>>
      /\ faults < limits.faults /\ faults' = faults + 1
  BY DEF Interrupted, QueuesUntouched, disk, memory, history
<1>2. remoteDocs' = remoteDocs /\ lastRemote' = lastRemote
  BY DEF Interrupted, disk
<1>3. TypeOK'
  <2>1. /\ faults' \in 0 .. limits'.faults /\ elsewhere' \in 0 .. limits'.elsewhere
        /\ restarts' \in 0 .. limits'.restarts /\ limits' \in Limits
    <3>1. limits \in Limits /\ faults \in 0 .. limits.faults
      BY DEF IInv, TypeOK
    <3>2. limits.faults \in Nat
      BY <3>1, FirestoreClientAssumption
    <3>3. faults + 1 \in 0 .. limits.faults
      BY <1>1, <3>1, <3>2
    <3> QED
      BY <1>1, <3>3 DEF IInv, TypeOK
  <2>2. requests' \in Seq(Batches) /\ responses' \in Seq(Nat \cup {Refused}) /\ stream' \in StreamStates
    BY <1>1, EmptyElements DEF StreamStates
  <2> QED
    BY <1>1, <2>1, <2>2 DEF IInv, TypeOK, QueuesUntouched, disk
<1>4. StreamSound' /\ AnswersSound'
  BY <1>1, Types, QuietStream DEF IInv
<1>5. CacheSound'
  BY <1>1, <1>2 DEF IInv, CacheSound
<1>6. Coming' \subseteq Coming
  BY <1>1, ComingStays DEF QueuesUntouched
<1> QED
  BY <1>1, <1>3, <1>4, <1>5, <1>6, QueuesUntouchedSound, LogUntouchedSound DEF IInv

\* With nothing in the pipeline there is nothing on its way either.
LEMMA IdleCloseKeeps ==
  ASSUME IInv, IdleClose
  PROVE  IInv'
<1>1. /\ QueuesUntouched /\ log' = log /\ target' = target /\ pipeline' = pipeline
      /\ requests' = requests /\ responses' = responses
      /\ stream = "ready" /\ stream' = "stopped" /\ pipeline = <<>>
      /\ UNCHANGED <<limits, elsewhere, faults, restarts>>
  BY DEF IdleClose, QueuesUntouched, disk, memory, history, used
<1>2. remoteDocs' = remoteDocs /\ lastRemote' = lastRemote
  BY DEF IdleClose, disk
<1>3. TypeOK'
  BY <1>1 DEF IInv, TypeOK, QueuesUntouched, disk, StreamStates
<1>4. /\ requests \in Seq(Batches) /\ responses \in Seq(Nat \cup {Refused})
      /\ Len(requests) \in Nat /\ Len(responses) \in Nat /\ Len(pipeline) = 0
  BY <1>1, Types, EmptyElements DEF IInv
<1>5. responses = <<>> /\ Len(responses) = 0
  BY <1>4, EmptySeq DEF IInv, StreamSound
<1>6. Len(requests) = 0
  BY <1>1, <1>4, <1>5 DEF IInv, StreamSound, Matches
<1>7. requests = <<>>
  BY <1>4, <1>6, EmptySeq
<1>8. StreamSound' /\ AnswersSound'
  BY <1>1, <1>4, <1>5, <1>7, QuietStream
<1>9. CacheSound'
  BY <1>1, <1>2 DEF IInv, CacheSound
<1>10. Coming' \subseteq Coming
  BY <1>1, ComingStays DEF QueuesUntouched
<1> QED
  BY <1>1, <1>3, <1>8, <1>9, <1>10, QueuesUntouchedSound, LogUntouchedSound DEF IInv

\* A refusal answers the first write of the pipeline that is not answered.
LEMMA ServerRefuseKeeps ==
  ASSUME IInv, ServerRefuse
  PROVE  IInv'
<1>1. /\ QueuesUntouched /\ log' = log /\ target' = target /\ pipeline' = pipeline
      /\ requests' = <<>> /\ responses' = Append(responses, Refused) /\ stream' = stream
      /\ UNCHANGED <<limits, elsewhere, faults, restarts>>
      /\ author' = author /\ user' = user
  BY DEF ServerRefuse, QueuesUntouched, disk, memory, history, used
<1>2. remoteDocs' = remoteDocs /\ lastRemote' = lastRemote
  BY DEF ServerRefuse, disk
<1>3. /\ stream = "ready"
      /\ \A i \in 1 .. Len(responses) : responses[i] # Refused
      /\ Len(responses) + 1 \in 1 .. Len(pipeline)
  BY NextRequest DEF ServerRefuse
<1>4. /\ responses \in Seq(Nat \cup {Refused}) /\ Len(responses) \in Nat /\ Len(pipeline) \in Nat
      /\ Refused \in Nat \cup {Refused}
  BY Types DEF IInv
<1>5. /\ responses' \in Seq(Nat \cup {Refused})
      /\ Len(responses') = Len(responses) + 1
      /\ \A i \in 1 .. Len(responses) : responses'[i] = responses[i]
      /\ responses'[Len(responses) + 1] = Refused
  BY <1>1, <1>4, AppendElements
<1>6. TypeOK'
  BY <1>1, <1>5, EmptyElements DEF IInv, TypeOK, QueuesUntouched, disk
<1>7. StreamSound'
  <2>1. \A i \in 1 .. Len(responses') : responses'[i] = Refused <=> i = Len(responses')
    BY <1>3, <1>4, <1>5
  <2>2. Len(responses') <= Len(pipeline') /\ Len(responses') \in 1 .. Len(responses')
    BY <1>1, <1>3, <1>4, <1>5
  <2> QED
    BY <1>1, <1>3, <2>1, <2>2 DEF StreamSound
<1>8. AnswersSound'
  <2>1. ASSUME NEW i \in 1 .. Len(responses'), responses'[i] # Refused
        PROVE  i \in 1 .. Len(responses) /\ responses'[i] = responses[i]
    BY <1>4, <1>5, <2>1
  <2>2. \A i \in 1 .. Len(responses) : responses[i] # Refused =>
           Final(responses[i], pipeline[i]) /\ Behind(responses[i], pipeline[i], user)
    BY DEF IInv, AnswersSound
  <2> QED
    BY <1>1, <2>1, <2>2 DEF AnswersSound, Final, Behind, Places
<1>9. CacheSound'
  BY <1>1, <1>2 DEF IInv, CacheSound
<1>10. Coming' \subseteq Coming
  <2>1. ASSUME NEW i \in 1 .. Len(responses'), responses'[i] # Refused
        PROVE  responses'[i] \in Coming
    <3>1. i \in 1 .. Len(responses) /\ responses'[i] = responses[i]
      BY <1>4, <1>5, <2>1
    <3> QED
      BY <2>1, <3>1 DEF Coming
  <2>2. held' = held
    BY <1>1 DEF QueuesUntouched
  <2> QED
    BY <2>1, <2>2 DEF Coming
<1> QED
  BY <1>1, <1>6, <1>7, <1>8, <1>9, <1>10, QueuesUntouchedSound, LogUntouchedSound DEF IInv

\* The first listener is told of everything the cache has.
LEMMA ListenKeeps ==
  ASSUME IInv, Listen
  PROVE  IInv'
<1>1. /\ QueuesUntouched /\ log' = log /\ target' = Len(log) /\ pipeline' = pipeline
      /\ requests' = requests /\ responses' = responses /\ stream' = stream
      /\ UNCHANGED <<limits, elsewhere, faults, restarts>>
      /\ author' = author /\ user' = user
  BY DEF Listen, QueuesUntouched, disk, history, used
<1>2. remoteDocs' = remoteDocs /\ lastRemote' = lastRemote
  BY DEF Listen, disk
<1>3. Len(log) \in Nat
  BY Types DEF IInv
<1>4. TypeOK'
  BY <1>1, <1>3 DEF IInv, TypeOK, QueuesUntouched, disk
<1>5. StreamSound'
  BY <1>1 DEF IInv, StreamSound
<1>6. AnswersSound'
  BY <1>1 DEF IInv, AnswersSound, Final, Behind, Places
<1>7. CacheSound'
  <2>1. \A k \in Keys : remoteDocs[k] = 0 \/ remoteDocs[k] \in 1 .. Len(log)
    BY DEF IInv, CacheSound
  <2>2. \A k \in Keys : remoteDocs[k] <= Len(log)
    BY <1>3, <2>1
  <2> QED
    BY <1>1, <1>2, <2>2 DEF IInv, CacheSound
<1>8. Coming' \subseteq Coming
  BY <1>1, ComingStays DEF QueuesUntouched
<1> QED
  BY <1>1, <1>4, <1>5, <1>6, <1>7, <1>8, QueuesUntouchedSound, LogUntouchedSound DEF IInv

\* A commit is the last place of the write in the log, and behind whatever the
\* user wrote before.
LEMMA ServerCommitKeeps ==
  ASSUME IInv, ServerCommit
  PROVE  IInv'
<1> DEFINE n == Len(responses)
<1>1. PICK b : b = pipeline[n + 1]
  OBVIOUS
<1>2. /\ stream = "ready"
      /\ \A i \in 1 .. n : responses[i] # Refused
      /\ requests # <<>> /\ Len(requests) >= 1
      /\ Matches(pipeline, requests, n)
      /\ n + 1 \in 1 .. Len(pipeline)
      /\ Head(requests) = b
  BY <1>1, NextRequest DEF ServerCommit
<1>3. PICK e : e = Entry(b)
  OBVIOUS
<1>4. /\ QueuesUntouched /\ log' = Append(log, e) /\ target' = target /\ pipeline' = pipeline
      /\ requests' = Tail(requests) /\ responses' = Append(responses, Len(log')) /\ stream' = stream
      /\ UNCHANGED <<limits, elsewhere, faults, restarts>>
      /\ author' = author /\ user' = user
  BY <1>2, <1>3 DEF ServerCommit, QueuesUntouched, disk, memory, history, used
<1>5. /\ requests \in Seq(Batches) /\ responses \in Seq(Nat \cup {Refused})
      /\ Len(requests) \in Nat /\ n \in Nat /\ Len(pipeline) \in Nat /\ Len(log) \in Nat
      /\ Len(author) \in Nat
  BY Types DEF IInv
<1>6. /\ b \in Batches /\ BelongsTo(b, user) /\ ToSend(b.write)
      /\ \A j \in 1 .. Len(pipeline) : j < n + 1 => pipeline[j].write < b.write
  BY <1>1, <1>2, InPipeline
<1>7. /\ e.key = b.key /\ e.value = b.write
      /\ e \in [key : Keys, kind : Kinds, value : Writes \cup {Elsewhere}]
  BY <1>3, <1>6, BatchFields DEF Entry
<1>8. /\ log' \in Seq([key : Keys, kind : Kinds, value : Writes \cup {Elsewhere}])
      /\ Len(log') = Len(log) + 1
      /\ log'[Len(log) + 1] = e
      /\ \A w : e.value # w => Places(w)' = Places(w)
      /\ \A w : e.value = w => Places(w)' = Places(w) \cup {Len(log) + 1}
      /\ \A w : Places(w) \in SUBSET (1 .. Len(log))
  BY <1>4, <1>7, LongerLog DEF IInv
<1>9. b.write \in 1 .. Len(author) /\ author[b.write].key = b.key /\ author[b.write].user = user
  BY <1>6 DEF BelongsTo
<1>10. /\ responses' \in Seq(Nat \cup {Refused})
       /\ Len(responses') = n + 1
       /\ \A i \in 1 .. n : responses'[i] = responses[i]
       /\ responses'[n + 1] = Len(log) + 1
  <2>1. Len(log) + 1 \in Nat \cup {Refused}
    BY <1>5
  <2>2. responses' = Append(responses, Len(log) + 1)
    BY <1>4, <1>8
  <2> QED
    BY <1>5, <2>1, <2>2, AppendElements
<1>11. LogSound' /\ HeldFinal' /\ SettledFinal' /\ NothingLost' /\ LeftVisible' /\ CacheSound'
  <2>1. ASSUME NEW i \in 1 .. n + 1
        PROVE  responses'[i] \in Coming \/ responses'[i] = Len(log) + 1
    <3>1. CASE i \in 1 .. n
      BY <1>2, <1>10, <3>1 DEF Coming
    <3>2. CASE i = n + 1
      BY <1>10, <3>2
    <3> QED
      BY <1>5, <3>1, <3>2
  <2>2. \A x \in Coming' : x \in Coming \/ x = Len(log) + 1
    <3>1. held' = held
      BY <1>4 DEF QueuesUntouched
    <3> QED
      BY <1>10, <2>1, <3>1 DEF Coming
  <2> QED
    BY <1>4, <1>6, <1>7, <1>9, <2>2, LogGrownSound
<1>12. /\ requests' \in Seq(Batches)
       /\ Len(requests') = Len(requests) - 1
       /\ \A i \in 1 .. Len(requests) - 1 : requests'[i] = requests[i + 1]
  BY <1>2, <1>4, <1>5, TailElements
<1>13. TypeOK'
  BY <1>4, <1>8, <1>10, <1>12 DEF IInv, TypeOK, QueuesUntouched, disk
<1> HIDE DEF n
<1>14. Matches(pipeline, requests', n + 1)
  <2>1. n + Len(requests) = Len(pipeline) /\ \A i \in 1 .. Len(requests) : requests[i] = pipeline[n + i]
    BY <1>2 DEF Matches
  <2>2. (n + 1) + Len(requests') = Len(pipeline)
    <3>1. PICK k \in Nat, m \in Nat : k = Len(requests) /\ m = Len(pipeline)
      BY <1>5
    <3>2. Len(requests') = k - 1 /\ n + k = m /\ n \in Nat
      BY <1>5, <1>12, <2>1, <3>1
    <3>3. (n + 1) + (k - 1) = m
      BY <3>2
    <3> QED
      BY <3>1, <3>2, <3>3
  <2>3. ASSUME NEW i \in 1 .. Len(requests')
        PROVE  requests'[i] = pipeline[(n + 1) + i]
    <3>1. i + 1 \in 1 .. Len(requests) /\ i \in 1 .. Len(requests) - 1 /\ n + (i + 1) = (n + 1) + i
      BY <1>5, <1>12
    <3> QED
      BY <1>12, <2>1, <3>1
  <2> QED
    BY <2>2, <2>3 DEF Matches
<1>15. StreamSound'
  <2>1. \A i \in 1 .. n + 1 : responses'[i] # Refused
    <3>1. Len(log) + 1 # Refused
      BY <1>5 DEF Refused
    <3>2. \A i \in 1 .. n + 1 : i \in 1 .. n \/ i = n + 1
      BY <1>5
    <3> QED
      BY <1>2, <1>10, <3>1, <3>2
  <2>2. n + 1 <= Len(pipeline)
    BY <1>2
  <2> QED
    BY <1>2, <1>4, <1>10, <1>14, <2>1, <2>2 DEF StreamSound
<1>16. ASSUME NEW i \in 1 .. n, NEW c, c = pipeline[i]
       PROVE  Final(responses[i], c)' /\ Behind(responses[i], c, user)'
  <2> DEFINE v == responses[i]
  <2>1. Final(v, c) /\ Behind(v, c, user)
    BY <1>2, <1>16 DEF IInv, AnswersSound, n
  <2>2. c.write < b.write /\ c \in Batches
    <3>1. i \in 1 .. Len(pipeline) /\ i < n + 1
      BY <1>2, <1>5
    <3> QED
      BY <1>6, <1>16, <3>1, InPipeline
  <2>3. c.write \in Nat /\ b.write \in Nat
    BY <1>6, <2>2, BatchFields, WritesNumbered
  <2>4. PICK version : version = v
    OBVIOUS
  <2> HIDE DEF v
  <2>5. Final(version, c)'
    BY <1>4, <1>7, <2>1, <2>2, <2>3, <2>4, FinalStays DEF IInv
  <2>6. Behind(version, c, user)'
    <3>1. ASSUME NEW x \in 1 .. Len(author), x < c.write
          PROVE  Places(x)' = Places(x)
      <4>1. e.value # x
        BY <1>5, <1>7, <2>2, <2>3, <3>1
      <4> QED
        BY <1>8, <4>1
    <3> QED
      BY <1>4, <2>1, <2>4, <3>1 DEF Behind
  <2>7. Final(v, c)' /\ Behind(v, c, user)'
    <3>1. v' = v
      <4>1. responses'[i] = responses[i]
        BY <1>10
      <4> QED
        BY <4>1 DEF v
    <3> QED
      BY <2>4, <2>5, <2>6, <3>1 DEF Final, Behind
  <2> QED
    BY <2>7 DEF v
<1>17. ASSUME NEW version, version = Len(log) + 1
       PROVE  Final(version, b)' /\ Behind(version, b, user)'
  <2>1. \A p \in 1 .. Len(log) : p < version /\ p <= version
    BY <1>5, <1>17
  <2>2. version \in 1 .. Len(log')
    BY <1>5, <1>8, <1>17
  <2>3. Final(version, b)'
    <3>1. \A p \in Places(b.write)' : p \in 1 .. Len(log) \/ p = version
      BY <1>7, <1>8, <1>17
    <3>2. \A p \in Places(b.write)' : p <= version
      BY <1>5, <1>17, <2>1, <3>1
    <3> QED
      BY <1>3, <1>8, <1>17, <2>2, <3>2 DEF Final
  <2>4. Behind(version, b, user)'
    <3>1. ASSUME NEW x \in 1 .. Len(author), x < b.write
          PROVE  Places(x)' = Places(x)
      <4>1. e.value # x
        BY <1>5, <1>6, <1>7, <3>1, BatchFields, WritesNumbered
      <4> QED
        BY <1>8, <4>1
    <3> QED
      BY <1>4, <1>8, <2>1, <3>1 DEF Behind
  <2> QED
    BY <2>3, <2>4
<1>18. AnswersSound'
  <2>1. ASSUME NEW i \in 1 .. n + 1, NEW version, NEW c,
               version = responses'[i], c = pipeline[i]
        PROVE  Final(version, c)' /\ Behind(version, c, user)'
    <3>1. CASE i = n + 1
      BY <1>1, <1>10, <1>17, <2>1, <3>1
    <3>2. CASE i \in 1 .. n
      <4>1. version = responses[i] /\ responses'[i] = responses[i]
        BY <1>10, <2>1, <3>2
      <4>2. Final(responses[i], c)' /\ Behind(responses[i], c, user)'
        BY <1>16, <2>1, <3>2
      <4> QED
        BY <4>1, <4>2 DEF Final, Behind
    <3> QED
      BY <1>5, <3>1, <3>2
  <2> QED
    BY <1>4, <1>10, <2>1 DEF AnswersSound, Final, Behind
<1> QED
  BY <1>4, <1>11, <1>13, <1>15, <1>18, QueuesUntouchedSound DEF IInv

\* What another device writes is not one of this device's writes.
LEMMA WriteElsewhereKeeps ==
  ASSUME IInv, NEW k \in Keys, NEW kind \in Kinds, WriteElsewhere(k, kind)
  PROVE  IInv'
<1>1. PICK e : e = [key |-> k, kind |-> kind, value |-> Elsewhere]
  OBVIOUS
<1>2. /\ QueuesUntouched /\ log' = Append(log, e) /\ target' = target /\ pipeline' = pipeline
      /\ requests' = requests /\ responses' = responses /\ stream' = stream
      /\ UNCHANGED <<limits, faults, restarts>>
      /\ elsewhere < limits.elsewhere /\ elsewhere' = elsewhere + 1
      /\ author' = author /\ user' = user
  BY <1>1 DEF WriteElsewhere, QueuesUntouched, disk, memory, history
<1>3. e \in [key : Keys, kind : Kinds, value : Writes \cup {Elsewhere}] /\ e.value = Elsewhere
  BY <1>1
<1>4. LogSound' /\ HeldFinal' /\ SettledFinal' /\ NothingLost' /\ LeftVisible' /\ CacheSound'
  <2>1. Coming' \subseteq Coming
    BY <1>2, ComingStays DEF QueuesUntouched
  <2> QED
    BY <1>2, <1>3, <2>1, LogGrownSound
<1>5. /\ log' \in Seq([key : Keys, kind : Kinds, value : Writes \cup {Elsewhere}])
      /\ \A w : e.value # w => Places(w)' = Places(w)
  BY <1>2, <1>3, LongerLog DEF IInv
<1>6. TypeOK'
  <2>1. elsewhere + 1 \in 0 .. limits.elsewhere
    <3>1. limits \in Limits /\ elsewhere \in 0 .. limits.elsewhere
      BY DEF IInv, TypeOK
    <3>2. limits.elsewhere \in Nat
      BY <3>1, FirestoreClientAssumption
    <3> QED
      BY <1>2, <3>1, <3>2
  <2> QED
    BY <1>2, <1>5, <2>1 DEF IInv, TypeOK, QueuesUntouched, disk
<1>7. StreamSound'
  BY <1>2 DEF IInv, StreamSound
<1>8. AnswersSound'
  <2>1. ASSUME NEW i \in 1 .. Len(responses), responses[i] # Refused,
               NEW version, NEW b, version = responses[i], b = pipeline[i]
        PROVE  Final(version, b)' /\ Behind(version, b, user)'
    <3>1. Final(version, b) /\ Behind(version, b, user)
      BY <2>1 DEF IInv, AnswersSound
    <3>2. i \in 1 .. Len(pipeline)
      <4>1. Len(responses) <= Len(pipeline)
        BY DEF IInv, StreamSound
      <4>2. Len(responses) \in Nat /\ Len(pipeline) \in Nat
        BY Types DEF IInv
      <4> QED
        BY <4>1, <4>2
    <3>3. b \in Batches
      BY <2>1, <3>2, InPipeline
    <3>4. e.value # b.write
      BY <1>3, <3>3, BatchFields, WritesNumbered DEF Elsewhere
    <3>5. Final(version, b)'
      BY <1>2, <1>3, <3>1, <3>4, FinalStays DEF IInv
    <3>6. \A x \in 1 .. Len(author) : Places(x)' = Places(x)
      BY <1>3, <1>5 DEF Elsewhere
    <3>7. Behind(version, b, user)'
      BY <1>2, <3>1, <3>6 DEF Behind
    <3> QED
      BY <3>5, <3>7
  <2> QED
    BY <1>2, <2>1 DEF AnswersSound, Final, Behind, Places
<1> QED
  BY <1>2, <1>4, <1>6, <1>7, <1>8, QueuesUntouchedSound DEF IInv

-----------------------------------------------------------------------------
(* Acknowledgements and what listening releases. *)

\* What a release does to the open queue when the results are those held, or
\* those and the next: the queue, what is held and the cache stay sound, and
\* what is still to be sent is behind the results.
ReleaseOfAcked(results, n, docs, acked) ==
  /\ Releases(results, n, docs)
  /\ n <= Len(results)
  /\ AckedUpTo(mutations[user], Len(results), acked)
  /\ lastAcked'[user] = acked
  /\ \A u \in Users : u # user => lastAcked'[u] = lastAcked[u]
  /\ \A i \in 1 .. Len(results) : /\ results[i].batch = mutations[user][i]
                                  /\ Final(results[i].version, results[i].batch)
                                  /\ results[i].version \in Coming
  /\ InOrder(results)
  /\ \A k \in Keys : remoteDocs[k] <= docs[k] /\ Newer(k, docs[k])
  /\ UNCHANGED <<log, user, author>>

LEMMA ReleaseCuts ==
  ASSUME IInv, NEW results \in Seq(Results), NEW n \in Nat, NEW docs \in [Keys -> Nat],
         NEW acked \in Nat \cup {Unknown}, ReleaseOfAcked(results, n, docs, acked)
  PROVE  /\ QueueCut(user, 0, n, Len(results), acked)
         /\ user \in Users /\ Len(results) \in Nat
         /\ Len(held') \in Nat /\ Len(held') = Len(results) - n
         /\ QueuesSound'
         /\ AckedUpTo(mutations'[user], Len(held'), acked)
<1>1. user \in Users /\ mutations[user] \in Seq(Batches) /\ Len(mutations[user]) \in Nat
  BY OpenQueueBatches
<1>2. Len(results) \in Nat
  BY LenProperties
<1>3. Len(results) <= Len(mutations[user]) /\ n <= Len(results)
  BY DEF ReleaseOfAcked, AckedUpTo
<1>4. 0 + n <= Len(mutations[user])
  BY <1>1, <1>2, <1>3
<1>5. QueueCut(user, 0, n, Len(results), acked)
  BY <1>3, <1>4 DEF ReleaseOfAcked, Releases, QueueCut
<1>6. Len(held') = Len(results) - n /\ Len(held') \in Nat
  BY <1>2, <1>3 DEF ReleaseOfAcked, Releases, CutOut
<1>7. TypeOK /\ QueuesSound /\ author' = author
  BY DEF IInv, ReleaseOfAcked
<1>8. QueuesSound' /\ AckedUpTo(mutations'[user], Len(held'), acked)
  <2>1. PICK left \in Nat : left = Len(held')
    BY <1>6
  <2>2. 0 = 0 /\ n <= Len(results) /\ left = Len(results) - n
    BY <1>3, <1>6, <2>1
  <2> QED
    BY <1>1, <1>2, <1>5, <1>7, <2>1, <2>2, QueuesStaySound
<1> QED
  BY <1>1, <1>2, <1>5, <1>6, <1>8

LEMMA ReleaseQueued ==
  ASSUME IInv, NEW results \in Seq(Results), NEW n \in Nat, NEW docs \in [Keys -> Nat],
         NEW acked \in Nat \cup {Unknown}, ReleaseOfAcked(results, n, docs, acked),
         NEW w \in 1 .. Len(author)
  PROVE  /\ author[w].user # user => (Queued(w)' <=> Queued(w)) /\ (ToSend(w)' <=> ToSend(w))
         /\ author[w].user = user =>
              /\ Queued(w)' <=> HoldsBeside(mutations[user], w, 0, n)
              /\ ToSend(w)' <=> HoldsBehind(mutations[user], w, Len(results))
<1>1. /\ QueueCut(user, 0, n, Len(results), acked)
      /\ user \in Users /\ Len(results) \in Nat
  BY ReleaseCuts
<1>2. TypeOK /\ QueuesSound /\ author' = author /\ n <= Len(results)
  BY DEF IInv, ReleaseOfAcked
<1>3. PICK h \in Nat : h = Len(results)
  BY <1>1
<1>4. PICK m : m = IF 0 + n <= h THEN h ELSE 0 + n
  OBVIOUS
<1>5. m = h
  BY <1>2, <1>3, <1>4
<1>6. QueueCut(user, 0, n, h, acked)
  BY <1>1, <1>3
<1>7. /\ author[w].user # user => (Queued(w)' <=> Queued(w)) /\ (ToSend(w)' <=> ToSend(w))
      /\ author[w].user = user =>
           /\ Queued(w)' <=> HoldsBeside(mutations[user], w, 0, n)
           /\ ToSend(w)' <=> HoldsBehind(mutations[user], w, m)
  BY <1>1, <1>2, <1>4, <1>6, QueuedAfterCut
<1> QED
  BY <1>3, <1>5, <1>7

\* A version is one of the places of the write it was given for.
LEMMA FinalPlace ==
  ASSUME TypeOK, NEW version, NEW b, Final(version, b)
  PROVE  version \in Places(b.write) /\ version \in Nat
<1>1. version \in 1 .. Len(log) /\ log[version] = Entry(b)
  BY DEF Final
<1>2. log[version].value = b.write
  BY <1>1 DEF Entry
<1> QED
  BY <1>1, <1>2, Types DEF Places

\* Answers are of later writes than what is held, each of a later one than the
\* one before.
LEMMA AnswersInOrder ==
  ASSUME IInv, NEW k \in 1 .. Len(responses), responses[k] # Refused
  PROVE  /\ responses[k] \in Coming
         /\ \A i \in 1 .. Len(held) : held[i].version < responses[k]
         /\ \A i \in 1 .. Len(responses) : i < k => responses[i] # Refused /\ responses[i] < responses[k]
<1>1. responses[k] \in Coming
  BY DEF Coming
<1>2. k \in 1 .. Len(pipeline) /\ Len(responses) <= Len(pipeline) /\ Len(responses) \in Nat
  <2>1. Len(responses) <= Len(pipeline)
    BY DEF IInv, StreamSound
  <2>2. Len(responses) \in Nat /\ Len(pipeline) \in Nat
    BY Types DEF IInv
  <2> QED
    BY <2>1, <2>2
<1>3. Behind(responses[k], pipeline[k], user)
  BY DEF IInv, AnswersSound
<1>4. TypeOK /\ pipeline[k] = mutations[user][Len(held) + k]
      /\ Len(held) + k \in 1 .. Len(mutations[user])
  BY <1>2, InPipeline DEF IInv
<1>5. ASSUME NEW i \in 1 .. Len(held)
      PROVE  held[i].version < responses[k]
  <2>1. /\ i \in 1 .. Len(mutations[user]) /\ held[i].batch = mutations[user][i]
        /\ BelongsTo(held[i].batch, user) /\ Final(held[i].version, held[i].batch)
    BY InHeld
  <2>2. i < Len(held) + k
    BY OpenQueueBatches
  <2>3. held[i].batch.write < pipeline[k].write
    BY <1>4, <2>1, <2>2, OpenQueueBatches DEF Ascending
  <2>4. held[i].version \in Places(held[i].batch.write)
    BY <1>4, <2>1, FinalPlace
  <2> QED
    BY <1>3, <2>1, <2>3, <2>4 DEF Behind, BelongsTo
<1>6. ASSUME NEW i \in 1 .. Len(responses), i < k
      PROVE  responses[i] # Refused /\ responses[i] < responses[k]
  <2>1. responses[i] # Refused
    BY <1>2, <1>6 DEF IInv, StreamSound
  <2>2. i \in 1 .. Len(pipeline) /\ Final(responses[i], pipeline[i])
    BY <1>2, <1>6, <2>1 DEF IInv, AnswersSound
  <2>3. BelongsTo(pipeline[i], user) /\ pipeline[i].write < pipeline[k].write
    BY <1>2, <1>6, <2>2, InPipeline
  <2>4. responses[i] \in Places(pipeline[i].write)
    BY <1>4, <2>2, FinalPlace
  <2> QED
    BY <1>3, <2>1, <2>3, <2>4 DEF Behind, BelongsTo
<1> QED
  BY <1>1, <1>5, <1>6

\* What is coming after a release was coming before, and is newer than what is
\* released, if the answers are.
LEMMA ReleaseComing ==
  ASSUME IInv, NEW results \in Seq(Results), NEW n \in Nat, NEW docs \in [Keys -> Nat],
         NEW acked \in Nat \cup {Unknown}, ReleaseOfAcked(results, n, docs, acked),
         \A j \in 1 .. Len(responses') : responses'[j] # Refused =>
            /\ responses'[j] \in Coming
            /\ \A i \in 1 .. n : results[i].version < responses'[j]
  PROVE  \A x \in Coming' : x \in Coming /\ \A i \in 1 .. n : results[i].version < x
<1>1. /\ Len(results) \in Nat /\ Len(held') \in Nat /\ Len(held') = Len(results) - n
      /\ n <= Len(results)
  BY ReleaseCuts DEF ReleaseOfAcked
<1>2. ASSUME NEW j \in 1 .. Len(held')
      PROVE  /\ held'[j].version \in Coming
             /\ \A i \in 1 .. n : results[i].version < held'[j].version
  <2>1. held'[j] = results[j + n]
    <3>1. held'[j] = results[IF j <= 0 THEN j ELSE j + n]
      BY DEF ReleaseOfAcked, Releases, CutOut
    <3>2. ~(j <= 0)
      OBVIOUS
    <3> QED
      BY <3>1, <3>2
  <2>2. j + n \in 1 .. Len(results) /\ \A i \in 1 .. n : i \in 1 .. Len(results) /\ i < j + n
    BY <1>1
  <2> QED
    BY <2>1, <2>2 DEF ReleaseOfAcked, InOrder
<1> QED
  BY <1>2 DEF Coming

\* A batch that is released is in the cache, or there is no document for it.
LEMMA ReleaseShows ==
  ASSUME IInv, NEW results \in Seq(Results), NEW n \in Nat, NEW docs \in [Keys -> Nat],
         NEW acked \in Nat \cup {Unknown}, ReleaseOfAcked(results, n, docs, acked),
         refused' = refused, dropped' = dropped,
         \A x \in Coming' : x \in Coming /\ \A i \in 1 .. n : results[i].version < x,
         \/ target' = Off
         \/ /\ target # Off
            /\ \A p \in Nat : p <= target \/ p <= lastRemote => p <= target' \/ p <= lastRemote',
         target' # Off =>
           \A i \in 1 .. n : results[i].version <= target' \/ results[i].version <= lastRemote',
         target' \in Nat \cup {Off}, lastRemote' \in Nat
  PROVE  LeftVisible'
<1>1. TypeOK /\ QueuesSound
  BY DEF IInv
<1>2. /\ remoteDocs' \in [Keys -> Nat]
      /\ \A i \in 1 .. n : Laid(results[i], remoteDocs')
      /\ author' = author /\ log' = log
  BY DEF ReleaseOfAcked, Releases
<1>3. ASSUME NEW k \in Keys
      PROVE  Newer(k, remoteDocs'[k])
  <2>1. CASE remoteDocs'[k] = docs[k]
    BY <2>1 DEF ReleaseOfAcked
  <2>2. ASSUME NEW i \in 1 .. n, results[i].version = remoteDocs'[k]
        PROVE  Newer(k, remoteDocs'[k])
    <3>1. i \in 1 .. Len(results)
      BY ReleaseCuts DEF ReleaseOfAcked
    <3> QED
      BY <2>2, <3>1 DEF ReleaseOfAcked, Newer
  <2> QED
    BY <2>1, <2>2 DEF ReleaseOfAcked, Releases
<1>4. PlacesKept /\ \A w : Places(w)' = Places(w)
  BY <1>2, SameLog
<1>5. n <= Len(results) /\ Len(results) \in Nat /\ user \in Users /\ Len(mutations[user]) \in Nat
  BY ReleaseCuts, OpenQueueBatches DEF ReleaseOfAcked
<1>6. ASSUME NEW w \in 1 .. Len(author), Queued(w), ~Queued(w)'
      PROVE  Visible(w)' /\ Past(w)'
  <2>1. author[w].user = user
    BY <1>6, ReleaseQueued
  <2>2. Holds(mutations[user], w)
    BY <1>1, <1>5, <1>6, <2>1, WhoQueues
  <2>3. ~HoldsBeside(mutations[user], w, 0, n)
    BY <1>6, <2>1, ReleaseQueued
  <2>4. PICK i \in 1 .. Len(mutations[user]) : mutations[user][i].write = w
    BY <2>2 DEF Holds
  <2>5. i \in 1 .. n
    <3>1. ~(i <= 0 \/ i > 0 + n)
      BY <2>3, <2>4 DEF HoldsBeside
    <3> QED
      BY <1>5, <3>1
  <2>6. PICK r \in Results : r = results[i]
    <3>1. i \in 1 .. Len(results)
      BY <1>5, <2>5
    <3> QED
      BY <3>1, ElementOfSeq
  <2>7. r.batch = mutations[user][i] /\ Final(r.version, r.batch) /\ Laid(r, remoteDocs')
    <3>1. i \in 1 .. Len(results)
      BY <1>5, <2>5
    <3> QED
      BY <1>2, <2>5, <2>6, <3>1 DEF ReleaseOfAcked
  <2>8. BelongsTo(r.batch, user) /\ r.batch.write = w
    BY <2>4, <2>7, OpenQueueBatches
  <2>9. author[w].key = r.batch.key /\ author[w].kind = r.batch.kind
    BY <2>8 DEF BelongsTo
  <2>10. \A p \in Places(w) : p \in Nat /\ p <= r.version
    <3>1. \A p \in Places(w) : p <= r.version
      BY <2>7, <2>8 DEF Final
    <3>2. \A p \in Places(w) : p \in Nat
      BY <1>1, Types DEF Places
    <3> QED
      BY <3>1, <3>2
  <2>11. PICK v \in Nat, c \in Nat : v = r.version /\ c = remoteDocs'[author[w].key]
    <3>1. r.version \in Nat /\ r.batch.key \in Keys
      BY BatchFields
    <3> QED
      BY <1>2, <2>9, <3>1
  <2>12. Visible(w)'
    <3>1. CASE v <= c
      <4>1. \A p \in Places(w) : p <= c
        BY <2>10, <2>11, <3>1
      <4> QED
        BY <1>2, <1>4, <2>11, <4>1 DEF Visible
    <3>2. CASE author[w].kind = "update" /\ ~HasDocument(c)
      BY <1>2, <2>11, <3>2 DEF Visible, HasDocument
    <3> QED
      BY <2>7, <2>9, <2>11, <3>1, <3>2 DEF Laid
  <2>13. Past(w)'
    <3>1. ASSUME NEW p \in Places(w), NEW x \in Coming'
          PROVE  p < x
      <4>1. x \in Nat /\ v < x
        BY <1>1, <2>5, <2>6, <2>11, ComingVersions
      <4> QED
        BY <2>10, <2>11, <4>1
    <3>2. ASSUME NEW p \in Places(w), target' # Off
          PROVE  p <= target' \/ p <= lastRemote'
      <4>1. PICK t \in Nat, l \in Nat : t = target' /\ l = lastRemote'
        BY <3>2
      <4>2. v <= t \/ v <= l
        BY <2>5, <2>6, <2>11, <3>2, <4>1
      <4> QED
        BY <2>10, <2>11, <4>1, <4>2
    <3> QED
      BY <1>4, <3>1, <3>2 DEF Past
  <2> QED
    BY <2>12, <2>13
<1> QED
  BY <1>2, <1>3, <1>4, <1>6, LeftStays

\* What a release puts into the cache are versions of the documents.
LEMMA ReleaseCached ==
  ASSUME IInv, NEW results \in Seq(Results), NEW n \in Nat, NEW docs \in [Keys -> Nat],
         NEW acked \in Nat \cup {Unknown}, ReleaseOfAcked(results, n, docs, acked),
         NEW k \in Keys, remoteDocs'[k] # docs[k]
  PROVE  /\ remoteDocs'[k] \in 1 .. Len(log) /\ log[remoteDocs'[k]].key = k
         /\ \E i \in 1 .. n : results[i].version = remoteDocs'[k]
<1>1. PICK i \in 1 .. n : results[i].batch.key = k /\ results[i].version = remoteDocs'[k]
  BY DEF ReleaseOfAcked, Releases
<1>2. i \in 1 .. Len(results)
  BY ReleaseCuts DEF ReleaseOfAcked
<1>3. Final(results[i].version, results[i].batch)
  BY <1>2 DEF ReleaseOfAcked
<1> QED
  BY <1>1, <1>3 DEF Final, Entry

\* The open queue after a release.
LEMMA ReleaseHeld ==
  ASSUME IInv, NEW results \in Seq(Results), NEW n \in Nat, NEW docs \in [Keys -> Nat],
         NEW acked \in Nat \cup {Unknown}, ReleaseOfAcked(results, n, docs, acked),
         nextBatchID' = nextBatchID, acked < nextBatchID
  PROVE  Numbered' /\ HeldSound' /\ HeldFinal' /\ LogSound'
<1>1. PICK q \in Seq(Batches) : q = mutations[user]
  BY OpenQueueBatches
<1>2. PICK r \in Seq(Batches) : r = mutations'[user]
  BY OpenQueueBatches DEF ReleaseOfAcked, Releases
<1>3. /\ Len(results) \in Nat /\ Len(held') \in Nat /\ Len(held') = Len(results) - n
      /\ AckedUpTo(r, Len(held'), acked) /\ user \in Users
  BY <1>2, ReleaseCuts
<1>4. Len(q) \in Nat /\ Len(r) \in Nat
  BY LenProperties
<1>5. n <= Len(results) /\ Len(results) <= Len(q)
  BY <1>1 DEF ReleaseOfAcked, AckedUpTo
<1>6. /\ Len(r) = Len(q) - n
      /\ \A j \in 1 .. Len(r) : j + n \in 1 .. Len(q) /\ r[j] = q[j + n]
  <2>1. CutOut(r, q, 0, n) /\ 0 + n <= Len(q)
    BY <1>1, <1>2, <1>3, <1>4, <1>5 DEF ReleaseOfAcked, Releases
  <2>2. \A j \in 1 .. Len(r) : j > 0
    BY <1>4
  <2> QED
    BY <2>1, <2>2, CutElements
<1>7. \A i \in 1 .. Len(held') : i + n \in 1 .. Len(results) /\ held'[i] = results[i + n]
  <2>1. \A i \in 1 .. Len(held') : held'[i] = results[IF i <= 0 THEN i ELSE i + n]
    BY DEF ReleaseOfAcked, Releases, CutOut
  <2>2. \A i \in 1 .. Len(held') : ~(i <= 0) /\ i + n \in 1 .. Len(results)
    BY <1>3, <1>5
  <2> QED
    BY <2>1, <2>2
<1>8. \A i \in 1 .. Len(results) : results[i].batch = q[i] /\ Final(results[i].version, results[i].batch)
  BY <1>1 DEF ReleaseOfAcked
<1>9. /\ user' = user /\ author' = author /\ log' = log /\ lastAcked'[user] = acked
  BY DEF ReleaseOfAcked
<1>10. HeldSound'
  <2>1. \A i \in 1 .. Len(held') : held'[i].batch = r[i]
    <3>1. \A i \in 1 .. Len(held') : i \in 1 .. Len(r)
      BY <1>3, <1>4, <1>5, <1>6
    <3> QED
      BY <1>6, <1>7, <1>8, <3>1
  <2> QED
    BY <1>2, <1>3, <1>9, <2>1 DEF HeldSound
<1>11. HeldFinal'
  <2>1. ASSUME NEW i \in 1 .. Len(held'), NEW v, NEW b, v = held'[i].version, b = held'[i].batch
        PROVE  Final(v, b)
    BY <1>7, <1>8, <2>1
  <2>2. ASSUME NEW i \in 1 .. Len(held'), NEW j \in 1 .. Len(held'), j < i
        PROVE  held'[j].version < held'[i].version
    <3>1. j + n < i + n
      BY <1>3, <2>2
    <3> QED
      BY <1>7, <3>1 DEF ReleaseOfAcked, InOrder
  <2> QED
    BY <1>9, <2>1, <2>2 DEF HeldFinal, Final, Places
<1>12. Numbered'
  <2>1. \A i \in 1 .. Len(q) : q[i].id < nextBatchID
    BY <1>1 DEF IInv, Numbered
  <2>2. \A j \in 1 .. Len(r) : r[j].id < nextBatchID
    BY <1>6, <2>1
  <2>3. nextBatchID <= Len(author)
    BY DEF IInv, Numbered
  <2> QED
    BY <1>2, <1>9, <2>2, <2>3 DEF Numbered
<1>13. LogSound'
  BY <1>9 DEF IInv, LogSound
<1> QED
  BY <1>10, <1>11, <1>12, <1>13

\* What a release acknowledges anew is settled: it is the next of the user's
\* writes, and those before it are behind it in the log.
LEMMA ReleaseHistory ==
  ASSUME IInv, NEW results \in Seq(Results), NEW n \in Nat, NEW docs \in [Keys -> Nat],
         NEW acked \in Nat \cup {Unknown}, ReleaseOfAcked(results, n, docs, acked),
         refused' = refused, Len(held) <= Len(results),
         \A i \in 1 .. Len(results) :
           i > Len(held) => Behind(results[i].version, results[i].batch, user)
  PROVE  NothingLost' /\ SettledFinal'
<1>1. TypeOK /\ QueuesSound /\ NothingLost /\ SettledFinal /\ log' = log /\ author' = author
  BY DEF IInv, ReleaseOfAcked
<1>2. PlacesKept /\ \A w : Places(w)' = Places(w)
  BY <1>1, SameLog
<1>3. PICK q \in Seq(Batches) : q = mutations[user]
  BY OpenQueueBatches
<1>4. PICK h \in Nat, m \in Nat : h = Len(held) /\ m = Len(results)
  BY ReleaseCuts, OpenQueueBatches
<1>5. /\ h <= m /\ m <= Len(q) /\ Len(q) \in Nat /\ Ascending(q)
      /\ \A i \in 1 .. Len(q) : q[i] \in Batches /\ BelongsTo(q[i], user)
  BY <1>3, <1>4, OpenQueueBatches DEF ReleaseOfAcked, AckedUpTo
<1>6. \A w \in 1 .. Len(author) : author[w].user # user => (ToSend(w)' <=> ToSend(w))
  BY ReleaseQueued
<1>7. \A w \in 1 .. Len(author) : author[w].user = user =>
         (ToSend(w)' <=> HoldsBehind(q, w, m)) /\ (ToSend(w) <=> HoldsBehind(q, w, h))
  BY <1>3, <1>4, ReleaseQueued, OpenSends
<1>8. \A w : HoldsBehind(q, w, m) => HoldsBehind(q, w, h)
  <2>1. \A i \in 1 .. Len(q) : i > m => i > h
    BY <1>5
  <2> QED
    BY <2>1 DEF HoldsBehind
<1>9. \A w \in 1 .. Len(author) : ToSend(w)' => ToSend(w)
  BY <1>6, <1>7, <1>8
<1>10. ASSUME NEW w \in 1 .. Len(author), ToSend(w), ~ToSend(w)'
       PROVE  SettledNow(w)'
  <2>1. author[w].user = user /\ HoldsBehind(q, w, h) /\ ~HoldsBehind(q, w, m)
    BY <1>6, <1>7, <1>10
  <2>2. PICK i \in 1 .. Len(q) : q[i].write = w /\ i > h /\ i <= m
    <3>1. PICK i \in 1 .. Len(q) : q[i].write = w /\ i > h
      BY <2>1 DEF HoldsBehind
    <3>2. ~(i > m)
      BY <2>1, <3>1 DEF HoldsBehind
    <3> QED
      BY <1>5, <3>1, <3>2
  <2>3. i \in 1 .. Len(results)
    BY <1>4, <2>2
  <2>4. PICK version, b : /\ version = results[i].version /\ b = results[i].batch
                          /\ b = q[i]
    BY <1>3, <2>3 DEF ReleaseOfAcked
  <2>5. Final(version, b) /\ Behind(version, b, user) /\ b.write = w
    BY <1>4, <2>2, <2>3, <2>4 DEF ReleaseOfAcked
  <2>6. version \in Places(w)
    BY <1>1, <2>5, FinalPlace
  <2>7. ASSUME NEW v \in 1 .. Len(author), v < w, author[v].user = author[w].user
        PROVE  ~ToSend(v)' /\ \A p \in Places(v) : \E r \in Places(w) : p < r
    <3>1. \A p \in Places(v) : p < version
      BY <2>1, <2>5, <2>7 DEF Behind
    <3>2. ~HoldsBehind(q, v, m)
      <4>1. SUFFICES ASSUME NEW j \in 1 .. Len(q), q[j].write = v, j > m
                     PROVE  FALSE
        BY DEF HoldsBehind
      <4>2. i < j
        BY <2>2, <4>1, <1>4
      <4>3. q[i].write < q[j].write
        BY <1>5, <4>2 DEF Ascending
      <4>4. v \in Nat /\ w \in Nat
        OBVIOUS
      <4> QED
        BY <2>2, <2>7, <4>1, <4>3, <4>4
    <3>3. ~ToSend(v)'
      BY <1>7, <2>1, <2>7, <3>2
    <3> QED
      BY <2>6, <3>1, <3>3
  <2> QED
    BY <1>1, <1>2, <2>6, <2>7 DEF SettledNow
<1>11. \A w \in 1 .. Len(author) : ToSend(w) /\ ~ToSend(w)' => w \in refused' \/ SettledNow(w)'
  BY <1>10
<1> QED
  BY <1>1, <1>2, <1>9, <1>11, HistoryStays

\* What acknowledging the next batch of the queue comes to.
LEMMA AcknowledgeReleases ==
  ASSUME IInv, NEW b \in Batches, NEW version \in Nat,
         Len(held) + 1 \in 1 .. Len(mutations[user]), b = mutations[user][Len(held) + 1],
         Final(version, b), Behind(version, b, user), version \in Coming,
         Acknowledge([batch |-> b, version |-> version]),
         lastAcked' = [lastAcked EXCEPT ![user] = b.id],
         UNCHANGED <<log, user, author>>
  PROVE  \E results \in Seq(Results), n \in Nat :
           /\ ReleaseOfAcked(results, n, remoteDocs, b.id)
           /\ Len(results) = Len(held) + 1
           /\ \A i \in 1 .. Len(held) : results[i] = held[i]
           /\ results[Len(held) + 1].version = version
           /\ \A i \in 1 .. Len(results) :
                i > Len(held) => Behind(results[i].version, results[i].batch, user)
           /\ \A i \in 1 .. n : /\ results[i].version = version
                                /\ version <= lastRemote \/ target = Off
<1>1. PICK result \in Results : result = [batch |-> b, version |-> version]
  BY DEF Results
<1>2. PICK h \in Nat, q \in Seq(Batches) : h = Len(held) /\ q = mutations[user]
  BY OpenQueueBatches
<1>3. PICK results \in Seq(Results) : results = Append(held, result)
  BY AppendElements, Types DEF IInv
<1>4. /\ Len(results) = h + 1
      /\ \A i \in 1 .. h : results[i] = held[i]
      /\ results[h + 1] = result
  BY <1>2, <1>3, AppendElements, Types DEF IInv
<1>5. /\ Len(q) \in Nat /\ h + 1 \in 1 .. Len(q) /\ b = q[h + 1] /\ Ascending(q)
      /\ user \in Users
  BY <1>2, OpenQueueBatches
<1>6. \A i \in 1 .. h + 1 : i \in 1 .. h \/ i = h + 1
  OBVIOUS
<1>7. AckedUpTo(q, h + 1, b.id)
  <2>1. ASSUME NEW i \in 1 .. Len(q)
        PROVE  q[i].id <= b.id <=> i <= h + 1
    <3>1. i < h + 1 => q[i].id < q[h + 1].id
      BY <1>5 DEF Ascending
    <3>2. h + 1 < i => q[h + 1].id < q[i].id
      BY <1>5 DEF Ascending
    <3>3. q[i].id \in Nat /\ b.id \in Nat
      BY ElementOfSeq, BatchFields
    <3> QED
      BY <1>5, <3>1, <3>2, <3>3
  <2> QED
    BY <1>5, <2>1 DEF AckedUpTo
<1>8. \A i \in 1 .. h + 1 : results[i].batch = q[i] /\ Final(results[i].version, results[i].batch)
  <2>1. ASSUME NEW i \in 1 .. h
        PROVE  results[i].batch = q[i] /\ Final(results[i].version, results[i].batch)
    BY <1>2, <1>4, InHeld
  <2>2. results[h + 1].batch = q[h + 1] /\ Final(results[h + 1].version, results[h + 1].batch)
    BY <1>1, <1>4, <1>5
  <2> QED
    BY <1>6, <2>1, <2>2
<1>15. /\ \A i \in 1 .. h + 1 : results[i].version \in Coming
       /\ InOrder(results)
  <2>1. \A i \in 1 .. h : held[i].version \in Coming
    BY <1>2 DEF Coming
  <2>2. ASSUME NEW i \in 1 .. h
        PROVE  held[i].version < version
    <3>1. /\ held[i].batch = q[i] /\ BelongsTo(held[i].batch, user)
          /\ Final(held[i].version, held[i].batch) /\ i \in 1 .. Len(q)
      BY <1>2, InHeld
    <3>2. held[i].batch.write < b.write
      BY <1>5, <3>1 DEF Ascending
    <3>3. held[i].version \in Places(held[i].batch.write)
      BY <3>1, FinalPlace DEF IInv
    <3>4. PICK v : v = held[i].batch.write
      OBVIOUS
    <3>5. v \in 1 .. Len(author) /\ author[v].user = user /\ v < b.write
      BY <3>1, <3>2, <3>4 DEF BelongsTo
    <3>6. \A p \in Places(v) : p < version
      BY <3>5 DEF Behind
    <3> QED
      BY <3>3, <3>4, <3>6
  <2>3. \A i, j \in 1 .. h : i < j => held[i].version < held[j].version
    BY <1>2 DEF IInv, HeldFinal
  <2>4. results[h + 1].version = version
    BY <1>1, <1>4
  <2>5. ASSUME NEW i \in 1 .. h + 1, NEW j \in 1 .. h + 1, i < j
        PROVE  results[i].version < results[j].version
    <3>1. i \in 1 .. h
      BY <2>5
    <3> QED
      BY <1>4, <1>6, <2>2, <2>3, <2>4, <2>5, <3>1
  <2> QED
    BY <1>4, <1>6, <2>1, <2>4, <2>5 DEF InOrder
<1>9. ASSUME NEW i \in 1 .. Len(results), i > h
      PROVE  Behind(results[i].version, results[i].batch, user)
  <2>1. i = h + 1
    BY <1>4, <1>9
  <2> QED
    BY <1>1, <1>4, <2>1
<1>10. remoteDocs \in [Keys -> Nat] /\ mutations \in [Users -> Seq(Batches)] /\ held \in Seq(Results)
  BY Types DEF IInv
<1>11. ASSUME NEW n \in Nat, n <= h + 1, Releases(results, n, remoteDocs)
       PROVE  ReleaseOfAcked(results, n, remoteDocs, b.id)
  <2>1. \A k \in Keys : remoteDocs[k] <= remoteDocs[k] /\ Newer(k, remoteDocs[k])
    BY <1>10 DEF Newer
  <2>2. /\ lastAcked'[user] = b.id
        /\ \A u \in Users : u # user => lastAcked'[u] = lastAcked[u]
    BY <1>5, Types DEF IInv
  <2>3. user' = user /\ log' = log /\ author' = author
    OBVIOUS
  <2> QED
    BY <1>2, <1>4, <1>7, <1>8, <1>11, <1>15, <2>1, <2>2, <2>3 DEF ReleaseOfAcked
<1>12. results[h + 1].version = version
  BY <1>1, <1>4
<1>13. CASE (version <= lastRemote \/ target = Off) /\ held = <<>>
  <2>1. Release(<<result>>, 1, remoteDocs)
    BY <1>1, <1>13 DEF Acknowledge
  <2>2. h = 0 /\ results = <<result>>
    BY <1>2, <1>3, <1>13, EmptyElements
  <2>3. \A i \in 1 .. 1 : results[i].batch = mutations[user][i]
    <3>1. \A i \in 1 .. 1 : i \in 1 .. h + 1
      BY <2>2
    <3> QED
      BY <1>2, <1>8, <3>1
  <2>5. 1 <= Len(results) /\ 1 <= Len(mutations[user])
    BY <1>2, <1>4, <1>5, <2>2
  <2>6. Release(results, 1, remoteDocs) /\ Ascending(mutations[user]) /\ 1 \in Nat
    BY <1>2, <1>5, <2>1, <2>2
  <2>7. Releases(results, 1, remoteDocs)
    BY <1>5, <1>10, <1>15, <2>3, <2>5, <2>6, Released
  <2>8. ReleaseOfAcked(results, 1, remoteDocs, b.id)
    BY <1>11, <2>2, <2>7
  <2>9. \A i \in 1 .. 1 : results[i].version = version /\ (version <= lastRemote \/ target = Off)
    BY <1>1, <1>4, <1>13, <2>2
  <2> QED
    BY <1>2, <1>4, <1>9, <1>12, <2>8, <2>9
<1>14. CASE ~((version <= lastRemote \/ target = Off) /\ held = <<>>)
  <2>1. held' = results /\ mutations' = mutations /\ remoteDocs' = remoteDocs
    BY <1>1, <1>3, <1>14 DEF Acknowledge
  <2>2. CutOut(mutations'[user], mutations[user], 0, 0) /\ CutOut(held', results, 0, 0)
    <3>1. ASSUME NEW S, NEW s \in Seq(S)
          PROVE  CutOut(s, s, 0, 0)
      <4>1. Len(s) \in Nat
        BY LenProperties
      <4> QED
        BY <4>1 DEF CutOut
    <3> QED
      BY <1>2, <2>1, <3>1
  <2>3. \A k \in Keys : remoteDocs[k] <= remoteDocs'[k] /\ remoteDocs'[k] = remoteDocs[k]
    BY <1>10, <2>1
  <2>4. Releases(results, 0, remoteDocs)
    <3>1. mutations' \in [Users -> Seq(Batches)] /\ remoteDocs' \in [Keys -> Nat] /\ held' \in Seq(Results)
      BY <1>10, <2>1
    <3>2. \A u \in Users : u # user => mutations'[u] = mutations[u]
      BY <2>1
    <3>3. \A i \in 1 .. 0 : FALSE
      OBVIOUS
    <3> QED
      BY <2>2, <2>3, <3>1, <3>2, <3>3 DEF Releases
  <2>5. ReleaseOfAcked(results, 0, remoteDocs, b.id)
    BY <1>11, <2>4
  <2>6. \A i \in 1 .. 0 : FALSE
    OBVIOUS
  <2> QED
    BY <1>2, <1>4, <1>9, <1>12, <2>5, <2>6
<1> QED
  BY <1>13, <1>14

\* What follows the results in the open queue still does when they are
\* released.
LEMMA ReleaseFollows ==
  ASSUME IInv, NEW results \in Seq(Results), NEW n \in Nat, NEW docs \in [Keys -> Nat],
         NEW acked \in Nat \cup {Unknown}, ReleaseOfAcked(results, n, docs, acked),
         NEW p \in Seq(Batches), Follows(p, Len(results), mutations[user])
  PROVE  Ascending(mutations'[user]) /\ Follows(p, Len(held'), mutations'[user])
<1>1. PICK q \in Seq(Batches) : q = mutations[user]
  BY OpenQueueBatches
<1>2. PICK r \in Seq(Batches) : r = mutations'[user]
  BY OpenQueueBatches DEF ReleaseOfAcked, Releases
<1>3. PICK m \in Nat, h \in Nat : m = Len(results) /\ h = Len(held') /\ h = m - n
  BY ReleaseCuts
<1>4. n <= m /\ m <= Len(q) /\ Ascending(q) /\ CutOut(r, q, 0, n)
  BY <1>1, <1>2, <1>3, OpenQueueBatches DEF ReleaseOfAcked, Releases, AckedUpTo
<1>5. Len(q) \in Nat /\ Len(r) \in Nat /\ Len(p) \in Nat
  BY LenProperties
<1>6. 0 + n <= Len(q)
  BY <1>4, <1>5
<1>7. /\ Len(r) = Len(q) - n
      /\ \A j \in 1 .. Len(r) : j > 0 => r[j] = q[j + n]
      /\ Ascending(r)
  BY <1>4, <1>6, CutElements
<1>8. m + Len(p) <= Len(q) /\ \A i \in 1 .. Len(p) : p[i] = q[m + i]
  BY <1>1, <1>3 DEF Follows
<1>9. ASSUME NEW i \in 1 .. Len(p)
      PROVE  p[i] = r[h + i]
  <2>1. h + i \in 1 .. Len(r) /\ h + i > 0 /\ (h + i) + n = m + i
    BY <1>3, <1>4, <1>5, <1>7, <1>8
  <2> QED
    BY <1>7, <1>8, <2>1
<1>10. h + Len(p) <= Len(r)
  BY <1>3, <1>5, <1>7, <1>8
<1> QED
  BY <1>2, <1>3, <1>7, <1>9, <1>10 DEF Follows

\* An answer is for the first write of the pipeline.
LEMMA ReceiveResponseKeeps ==
  ASSUME IInv, ReceiveResponse
  PROVE  /\ IInv'
         /\ \E results \in Seq(Results), c \in Nat, acked \in Nat :
              /\ ReleaseOfAcked(results, c, remoteDocs, acked)
              /\ Len(results) = Len(held) + 1
              /\ \A i \in 1 .. Len(held) : results[i] = held[i]
              /\ results[Len(held) + 1].version = responses[1]
<1>1. PICK h \in Nat, m \in Nat, n \in Nat :
         h = Len(held) /\ m = Len(pipeline) /\ n = Len(responses)
  BY Types DEF IInv
<1>2. /\ responses \in Seq(Nat \cup {Refused}) /\ pipeline \in Seq(Batches)
      /\ requests \in Seq(Batches) /\ stream \in StreamStates
  BY Types DEF IInv
<1>3. responses # <<>> /\ Head(responses) # Refused /\ responses' = Tail(responses)
  BY DEF ReceiveResponse
<1>4. /\ responses' \in Seq(Nat \cup {Refused})
      /\ Len(responses') = n - 1 /\ n >= 1
      /\ Head(responses) = responses[1]
      /\ \A i \in 1 .. n - 1 : responses'[i] = responses[i + 1]
  BY <1>1, <1>2, <1>3, TailElements
<1>5. stream = "ready" /\ n <= m
  BY <1>1, <1>3 DEF IInv, StreamSound
<1>6. pipeline # <<>>
  BY <1>1, <1>4, <1>5, EmptyElements
<1>7. PICK rest \in Seq(Batches) :
         /\ rest = Tail(pipeline) /\ Len(rest) = m - 1
         /\ Head(pipeline) = pipeline[1]
         /\ \A i \in 1 .. m - 1 : rest[i] = pipeline[i + 1]
  <2>1. /\ Tail(pipeline) \in Seq(Batches) /\ Len(Tail(pipeline)) = m - 1
        /\ Head(pipeline) = pipeline[1]
        /\ \A i \in 1 .. m - 1 : Tail(pipeline)[i] = pipeline[i + 1]
    BY <1>1, <1>2, <1>6, TailElements
  <2>2. PICK rest : rest = Tail(pipeline)
    OBVIOUS
  <2> QED
    BY <2>1, <2>2
<1>8. PICK b, version : b = Head(pipeline) /\ version = Head(responses)
  OBVIOUS
<1>9. 1 \in 1 .. Len(pipeline) /\ 1 \in 1 .. Len(responses)
  BY <1>1, <1>4, <1>5
<1>10. /\ h + 1 \in 1 .. Len(mutations[user]) /\ b = mutations[user][h + 1]
       /\ b \in Batches /\ BelongsTo(b, user)
  BY <1>1, <1>7, <1>8, <1>9, InPipeline
<1>11. Final(version, b) /\ Behind(version, b, user) /\ version \in Nat
  <2>1. Final(version, b) /\ Behind(version, b, user)
    BY <1>3, <1>4, <1>7, <1>8, <1>9 DEF IInv, AnswersSound
  <2> QED
    BY <2>1 DEF Final
<1>12. ~(Head(pipeline).id <= lastAcked[user])
  <2>1. ~(h + 1 <= h)
    OBVIOUS
  <2> QED
    BY <1>1, <1>8, <1>10, <2>1 DEF IInv, HeldSound, AckedUpTo
<1>13. /\ lastAcked' = [lastAcked EXCEPT ![user] = b.id]
       /\ Acknowledge([batch |-> b, version |-> version])
       /\ FillPipeline(rest, requests, stream, mutations'[user], b.id)
       /\ lastRemote' = lastRemote /\ crash' = crash
  BY <1>6, <1>7, <1>8, <1>12 DEF ReceiveResponse
<1>14. /\ log' = log /\ user' = user /\ nextBatchID' = nextBatchID /\ target' = target
       /\ author' = author /\ refused' = refused /\ dropped' = dropped
       /\ limits' = limits /\ elsewhere' = elsewhere /\ faults' = faults /\ restarts' = restarts
  BY DEF ReceiveResponse, history, used
<1>15. b.id \in Nat /\ b.id \in Nat \cup {Unknown} /\ b.id < nextBatchID
  BY <1>10, BatchFields DEF IInv, Numbered
<1>16. PICK results \in Seq(Results), c \in Nat :
         /\ ReleaseOfAcked(results, c, remoteDocs, b.id)
         /\ Len(results) = h + 1
         /\ \A i \in 1 .. Len(held) : results[i] = held[i]
         /\ results[Len(held) + 1].version = version
         /\ \A i \in 1 .. Len(results) :
              i > Len(held) => Behind(results[i].version, results[i].batch, user)
         /\ \A i \in 1 .. c : /\ results[i].version = version
                              /\ version <= lastRemote \/ target = Off
  <2>1. /\ Len(held) + 1 \in 1 .. Len(mutations[user]) /\ b = mutations[user][Len(held) + 1]
        /\ b \in Batches /\ version \in Nat /\ Final(version, b) /\ Behind(version, b, user)
        /\ version \in Coming
        /\ Acknowledge([batch |-> b, version |-> version])
        /\ lastAcked' = [lastAcked EXCEPT ![user] = b.id]
        /\ UNCHANGED <<log, user, author>>
    <3>1. version \in Coming
      BY <1>3, <1>4, <1>8, <1>9 DEF Coming
    <3> QED
      BY <1>1, <1>10, <1>11, <1>13, <1>14, <3>1
  <2>2. \E results \in Seq(Results), c \in Nat :
           /\ ReleaseOfAcked(results, c, remoteDocs, b.id)
           /\ Len(results) = Len(held) + 1
           /\ \A i \in 1 .. Len(held) : results[i] = held[i]
           /\ results[Len(held) + 1].version = version
           /\ \A i \in 1 .. Len(results) :
                i > Len(held) => Behind(results[i].version, results[i].batch, user)
           /\ \A i \in 1 .. c : /\ results[i].version = version
                                /\ version <= lastRemote \/ target = Off
    BY <2>1, AcknowledgeReleases
  <2> QED
    BY <1>1, <2>2
<1>17. remoteDocs \in [Keys -> Nat] /\ lastAcked \in [Users -> Nat \cup {Unknown}]
  BY Types DEF IInv
<1>18. QueuesSound' /\ Len(held') \in Nat /\ AckedUpTo(mutations'[user], Len(held'), b.id)
  BY <1>15, <1>16, <1>17, ReleaseCuts
<1>19. Numbered' /\ HeldSound' /\ HeldFinal' /\ LogSound'
  BY <1>14, <1>15, <1>16, <1>17, ReleaseHeld
<1>20. LeftVisible'
  <2>1. version = responses[1] /\ responses[1] # Refused
    BY <1>3, <1>4, <1>8
  <2>2. ASSUME NEW j \in 1 .. Len(responses'), responses'[j] # Refused
        PROVE  responses'[j] \in Coming /\ version < responses'[j]
    <3>1. j \in 1 .. n - 1 /\ j + 1 \in 1 .. Len(responses) /\ 1 < j + 1
      BY <1>1, <1>4
    <3>2. responses'[j] = responses[j + 1]
      BY <1>4, <3>1
    <3> QED
      BY <1>9, <2>1, <2>2, <3>1, <3>2, AnswersInOrder
  <2>3. \A x \in Coming' : x \in Coming /\ \A i \in 1 .. c : results[i].version < x
    <3>1. \A j \in 1 .. Len(responses') : responses'[j] # Refused =>
             /\ responses'[j] \in Coming
             /\ \A i \in 1 .. c : results[i].version < responses'[j]
      BY <1>16, <2>2
    <3> QED
      BY <1>15, <1>16, <1>17, <3>1, ReleaseComing
  <2>4. target \in Nat \cup {Off} /\ lastRemote \in Nat
    BY Types DEF IInv
  <2>5. target' # Off =>
           \A i \in 1 .. c : results[i].version <= target' \/ results[i].version <= lastRemote'
    BY <1>13, <1>14, <1>16
  <2>6. \/ target' = Off
        \/ /\ target # Off
           /\ \A p \in Nat : p <= target \/ p <= lastRemote => p <= target' \/ p <= lastRemote'
    BY <1>13, <1>14
  <2>7. target' \in Nat \cup {Off} /\ lastRemote' \in Nat
    BY <1>13, <1>14, <2>4
  <2> QED
    BY <1>14, <1>15, <1>16, <1>17, <2>3, <2>5, <2>6, <2>7, ReleaseShows
<1>21. NothingLost' /\ SettledFinal'
  <2>1. Len(held) <= Len(results)
    BY <1>1, <1>16
  <2> QED
    BY <1>14, <1>15, <1>16, <1>17, <2>1, ReleaseHistory
<1>22. Follows(rest, h + 1, mutations[user])
  <2>1. h + m <= Len(mutations[user]) /\ \A i \in 1 .. m : pipeline[i] = mutations[user][h + i]
    BY <1>1 DEF IInv, PipelineSound, Follows
  <2>2. Len(mutations[user]) \in Nat
    BY OpenQueueBatches
  <2>3. (h + 1) + Len(rest) <= Len(mutations[user])
    BY <1>7, <2>1, <2>2
  <2>4. ASSUME NEW i \in 1 .. Len(rest)
        PROVE  rest[i] = mutations[user][(h + 1) + i]
    <3>1. i \in 1 .. m - 1 /\ i + 1 \in 1 .. m /\ h + (i + 1) = (h + 1) + i
      BY <1>7
    <3>2. rest[i] = pipeline[i + 1] /\ pipeline[i + 1] = mutations[user][h + (i + 1)]
      BY <1>7, <2>1, <3>1
    <3> QED
      BY <3>1, <3>2
  <2> QED
    BY <2>3, <2>4 DEF Follows
<1>23. PICK r \in Seq(Batches), g \in Nat : r = mutations'[user] /\ g = Len(held')
  BY <1>16, <1>18, OpenQueueBatches DEF ReleaseOfAcked, Releases
<1>24. Ascending(r) /\ Follows(rest, g, r)
  BY <1>15, <1>16, <1>17, <1>22, <1>23, ReleaseFollows
<1>25. FillPipeline(rest, requests, stream, r, b.id) /\ AckedUpTo(r, g, b.id)
  BY <1>13, <1>18, <1>23
<1>26. /\ pipeline' \in Seq(Batches)
       /\ Follows(pipeline', g, r)
       /\ Len(rest) <= Len(pipeline')
       /\ \A i \in 1 .. Len(rest) : pipeline'[i] = rest[i]
       /\ requests' \in Seq(Batches)
       /\ stream' = "ready" /\ stream' \in StreamStates
       /\ \A k \in Nat : Matches(rest, requests, k) => Matches(pipeline', requests', k)
  BY <1>2, <1>5, <1>15, <1>24, <1>25, Filled
<1>27. PipelineSound'
  BY <1>14, <1>23, <1>26 DEF PipelineSound
<1>28. Len(pipeline') \in Nat
  BY <1>26, LenProperties
<1>29. StreamSound'
  <2>1. Len(responses') <= Len(pipeline')
    BY <1>4, <1>5, <1>7, <1>26, <1>28
  <2>2. ASSUME NEW i \in 1 .. Len(responses'), responses'[i] = Refused
        PROVE  i = Len(responses')
    <3>1. i \in 1 .. n - 1 /\ i + 1 \in 1 .. Len(responses)
      BY <1>1, <1>4
    <3>2. responses[i + 1] = Refused
      BY <1>4, <2>2, <3>1
    <3>3. i + 1 = Len(responses)
      BY <3>1, <3>2 DEF IInv, StreamSound
    <3> QED
      BY <1>1, <1>4, <3>3
  <2>3. ASSUME \A i \in 1 .. Len(responses') : responses'[i] # Refused
        PROVE  Matches(pipeline', requests', Len(responses'))
    <3>1. ASSUME NEW i \in 1 .. Len(responses)
          PROVE  responses[i] # Refused
      <4>1. CASE i = 1
        BY <1>3, <1>4, <4>1
      <4>2. CASE i # 1
        <5>1. i - 1 \in 1 .. n - 1 /\ (i - 1) + 1 = i
          BY <1>1, <4>2
        <5> QED
          BY <1>4, <2>3, <5>1
      <4> QED
        BY <4>1, <4>2
    <3>2. Matches(pipeline, requests, n)
      BY <1>1, <1>5, <3>1 DEF IInv, StreamSound
    <3>3. Matches(rest, requests, n - 1)
      <4>1. /\ n + Len(requests) = m /\ Len(requests) \in Nat
            /\ \A i \in 1 .. Len(requests) : requests[i] = pipeline[n + i]
        BY <1>1, <1>2, <3>2, LenProperties DEF Matches
      <4>2. ASSUME NEW i \in 1 .. Len(requests)
            PROVE  requests[i] = rest[(n - 1) + i]
        <5>1. (n - 1) + i \in 1 .. m - 1 /\ ((n - 1) + i) + 1 = n + i
          BY <1>4, <4>1
        <5>2. rest[(n - 1) + i] = pipeline[((n - 1) + i) + 1]
          BY <1>7, <5>1
        <5> QED
          BY <4>1, <5>1, <5>2
      <4>3. (n - 1) + Len(requests) = Len(rest)
        BY <1>7, <4>1
      <4> QED
        BY <4>2, <4>3 DEF Matches
    <3>4. n - 1 \in Nat
      BY <1>4
    <3> QED
      BY <1>4, <1>26, <3>3, <3>4
  <2> QED
    BY <1>26, <2>1, <2>2, <2>3 DEF StreamSound
<1>30. AnswersSound'
  <2>1. ASSUME NEW i \in 1 .. Len(responses'), responses'[i] # Refused,
               NEW v, NEW c2, v = responses'[i], c2 = pipeline'[i]
        PROVE  Final(v, c2) /\ Behind(v, c2, user)
    <3>1. i \in 1 .. n - 1 /\ i + 1 \in 1 .. Len(responses) /\ i \in 1 .. m - 1 /\ i \in 1 .. Len(rest)
      BY <1>1, <1>4, <1>5, <1>7
    <3>2. v = responses[i + 1] /\ c2 = pipeline[i + 1]
      BY <1>4, <1>7, <1>26, <2>1, <3>1
    <3> QED
      BY <2>1, <3>1, <3>2 DEF IInv, AnswersSound
  <2> QED
    BY <1>14, <2>1 DEF AnswersSound, Final, Behind, Places
<1>31. CacheSound'
  <2>1. ASSUME NEW k \in Keys, NEW new, new = remoteDocs'[k]
        PROVE  /\ new = 0 \/ (new \in 1 .. Len(log) /\ log[new].key = k)
               /\ target # Off => new <= target \/ new <= lastRemote
    <3>1. CASE new = remoteDocs[k]
      BY <3>1 DEF IInv, CacheSound
    <3>2. CASE new # remoteDocs[k]
      <4>1. /\ new \in 1 .. Len(log) /\ log[new].key = k
            /\ \E i \in 1 .. c : results[i].version = new
        <5>1. remoteDocs'[k] # remoteDocs[k]
          BY <2>1, <3>2
        <5>2. /\ remoteDocs'[k] \in 1 .. Len(log) /\ log[remoteDocs'[k]].key = k
              /\ \E i \in 1 .. c : results[i].version = remoteDocs'[k]
          <6>1. /\ remoteDocs \in [Keys -> Nat] /\ b.id \in Nat \cup {Unknown}
                /\ ReleaseOfAcked(results, c, remoteDocs, b.id)
            BY <1>15, <1>16, <1>17
          <6> QED
            BY <5>1, <6>1, ReleaseCached
        <5> QED
          BY <2>1, <5>2
      <4>2. new = version /\ (version <= lastRemote \/ target = Off)
        BY <1>16, <4>1
      <4> QED
        BY <4>1, <4>2
    <3> QED
      BY <3>1, <3>2
  <2> QED
    BY <1>13, <1>14, <2>1 DEF CacheSound
<1>32. TypeOK'
  <2>1. /\ mutations' \in [Users -> Seq(Batches)] /\ held' \in Seq(Results)
        /\ remoteDocs' \in [Keys -> Nat]
    BY <1>16 DEF ReleaseOfAcked, Releases
  <2>2. lastAcked' \in [Users -> Nat \cup {Unknown}]
    BY <1>13, <1>15, <1>17
  <2> QED
    BY <1>4, <1>13, <1>14, <1>26, <2>1, <2>2 DEF IInv, TypeOK
<1>33. NoAssertionFails'
  BY <1>13 DEF IInv, NoAssertionFails
<1>34. IInv'
  BY <1>18, <1>19, <1>20, <1>21, <1>27, <1>29, <1>30, <1>31, <1>32, <1>33 DEF IInv
<1>35. Len(results) = Len(held) + 1 /\ results[Len(held) + 1].version = responses[1]
  BY <1>1, <1>4, <1>8, <1>16
<1> QED
  BY <1>15, <1>16, <1>34, <1>35

\* A refusal is of the first write of the pipeline as well.
LEMMA ReceiveRefusalKeeps ==
  ASSUME IInv, ReceiveRefusal
  PROVE  IInv' /\ QueueCut(user, Len(held), 1, Len(held), lastAcked[user])
<1>1. PICK h \in Nat, m \in Nat, q \in Seq(Batches), acked \in Nat \cup {Unknown} :
         /\ h = Len(held) /\ m = Len(pipeline)
         /\ q = mutations[user] /\ acked = lastAcked[user]
  BY OpenQueueBatches, Types DEF IInv
<1>2. /\ responses \in Seq(Nat \cup {Refused}) /\ pipeline \in Seq(Batches)
      /\ Len(responses) \in Nat /\ user \in Users /\ mutations \in [Users -> Seq(Batches)]
      /\ lastAcked \in [Users -> Nat \cup {Unknown}] /\ remoteDocs \in [Keys -> Nat]
  BY Types DEF IInv
<1>3. responses # <<>> /\ Head(responses) = Refused /\ responses' = <<>>
  BY DEF ReceiveRefusal
<1>4. Len(responses) >= 1
  BY <1>2, <1>3, TailElements
<1>5. m >= 1
  BY <1>1, <1>2, <1>4 DEF IInv, StreamSound
<1>6. pipeline # <<>>
  BY <1>1, <1>5, EmptyElements
<1>7. PICK rest \in Seq(Batches) :
         /\ rest = Tail(pipeline) /\ Len(rest) = m - 1
         /\ Head(pipeline) = pipeline[1]
         /\ \A i \in 1 .. m - 1 : rest[i] = pipeline[i + 1]
  <2>1. /\ Tail(pipeline) \in Seq(Batches) /\ Len(Tail(pipeline)) = m - 1
        /\ Head(pipeline) = pipeline[1]
        /\ \A i \in 1 .. m - 1 : Tail(pipeline)[i] = pipeline[i + 1]
    BY <1>1, <1>2, <1>6, TailElements
  <2>2. PICK rest : rest = Tail(pipeline)
    OBVIOUS
  <2> QED
    BY <2>1, <2>2
<1>8. PICK b : b = Head(pipeline)
  OBVIOUS
<1>9. 1 \in 1 .. Len(pipeline)
  BY <1>1, <1>5
<1>10. /\ h + 1 \in 1 .. Len(q) /\ b = q[h + 1] /\ b \in Batches /\ BelongsTo(b, user)
  BY <1>1, <1>7, <1>8, <1>9, InPipeline
<1>11. /\ Len(q) \in Nat /\ Ascending(q) /\ AckedUpTo(q, h, acked)
       /\ h + m <= Len(q) /\ \A i \in 1 .. m : pipeline[i] = q[h + i]
  BY <1>1, OpenQueueBatches DEF IInv, HeldSound, PipelineSound, Follows
<1>12. ~(Head(pipeline).id <= lastAcked[user])
  <2>1. ~(h + 1 <= h)
    OBVIOUS
  <2> QED
    BY <1>1, <1>8, <1>10, <1>11, <2>1 DEF AckedUpTo
<1>13. /\ mutations' = [mutations EXCEPT ![user] = Without(q, {b.id})]
       /\ refused' = refused \cup {b.write}
       /\ FillPipeline(rest, <<>>, "stopped", mutations'[user], acked)
       /\ crash' = crash
  BY <1>1, <1>6, <1>7, <1>8, <1>12 DEF ReceiveRefusal
<1>14. /\ log' = log /\ lastAcked' = lastAcked /\ remoteDocs' = remoteDocs
       /\ lastRemote' = lastRemote /\ author' = author /\ dropped' = dropped
       /\ user' = user /\ nextBatchID' = nextBatchID /\ held' = held /\ target' = target
       /\ limits' = limits /\ elsewhere' = elsewhere /\ faults' = faults /\ restarts' = restarts
  BY DEF ReceiveRefusal, memory, used
<1>15. Without(q, {b.id}) \in Seq(Batches) /\ CutOut(Without(q, {b.id}), q, h, 1)
  <2>1. ASSUME NEW i \in 1 .. Len(q)
        PROVE  q[i].id \notin {b.id} <=> i <= h \/ i > h + 1
    <3>1. i < h + 1 => q[i].id < q[h + 1].id
      BY <1>10, <1>11 DEF Ascending
    <3>2. h + 1 < i => q[h + 1].id < q[i].id
      BY <1>10, <1>11 DEF Ascending
    <3>3. q[i].id \in Nat /\ b.id \in Nat
      BY <1>10, ElementOfSeq, BatchFields
    <3> QED
      BY <1>10, <3>1, <3>2, <3>3
  <2>2. h + 1 <= Len(q)
    BY <1>10
  <2> QED
    BY <2>1, <2>2, WithoutStretch
<1>16. PICK r \in Seq(Batches) : r = Without(q, {b.id})
  BY <1>15
<1>17. /\ mutations' \in [Users -> Seq(Batches)] /\ mutations'[user] = r
       /\ \A x \in Users : x # user => mutations'[x] = mutations[x]
  BY <1>2, <1>13, <1>16
<1>18. QueueCut(user, h, 1, h, acked)
  BY <1>1, <1>10, <1>11, <1>14, <1>15, <1>16, <1>17 DEF QueueCut
<1>19. TypeOK /\ QueuesSound
  BY DEF IInv
<1>20. QueuesSound' /\ AckedUpTo(r, h, acked)
  <2>1. QueuesSound' /\ AckedUpTo(mutations'[user], h, acked)
    BY <1>2, <1>14, <1>18, <1>19, QueuesStaySound
  <2> QED
    BY <1>17, <2>1
<1>21. /\ Len(r) = Len(q) - 1 /\ Len(r) \in Nat
       /\ \A j \in 1 .. Len(r) : /\ j <= h => r[j] = q[j] /\ j \in 1 .. Len(q)
                                 /\ j > h => r[j] = q[j + 1] /\ j + 1 \in 1 .. Len(q)
       /\ Ascending(r)
  <2>1. CutOut(r, q, h, 1) /\ h + 1 <= Len(q)
    BY <1>10, <1>15, <1>16
  <2>2. /\ Len(r) = Len(q) - 1
        /\ \A j \in 1 .. Len(r) : /\ j <= h => j \in 1 .. Len(q) /\ r[j] = q[j]
                                  /\ j > h => j + 1 \in 1 .. Len(q) /\ r[j] = q[j + 1]
        /\ Ascending(q) => Ascending(r)
    BY <2>1, CutElements
  <2>3. Len(r) \in Nat
    BY LenProperties
  <2> QED
    BY <1>11, <2>2, <2>3
<1>22. Follows(rest, h, r)
  <2>1. h + Len(rest) <= Len(r)
    BY <1>7, <1>11, <1>21
  <2>2. ASSUME NEW i \in 1 .. Len(rest)
        PROVE  rest[i] = r[h + i]
    <3>1. /\ i \in 1 .. m - 1 /\ i + 1 \in 1 .. m
          /\ h + i \in 1 .. Len(r) /\ h + i > h /\ h + (i + 1) = (h + i) + 1
      BY <1>7, <1>11, <1>21
    <3>2. rest[i] = q[h + (i + 1)] /\ r[h + i] = q[(h + i) + 1]
      BY <1>7, <1>11, <1>21, <3>1
    <3> QED
      BY <3>1, <3>2
  <2> QED
    BY <2>1, <2>2 DEF Follows
<1>23. /\ pipeline' \in Seq(Batches) /\ Follows(pipeline', h, r)
       /\ requests' = <<>> /\ requests' \in Seq(Batches)
       /\ stream' \in StreamStates /\ stream' # "ready"
  <2>1. FillPipeline(rest, <<>>, "stopped", r, acked)
    BY <1>13, <1>17
  <2>2. "stopped" \in StreamStates /\ "stopped" # "ready" /\ <<>> \in Seq(Batches)
    BY EmptyElements DEF StreamStates
  <2> QED
    BY <1>20, <1>21, <1>22, <2>1, <2>2, Filled
<1>24. PipelineSound'
  BY <1>1, <1>14, <1>17, <1>23 DEF PipelineSound
<1>25. StreamSound' /\ AnswersSound'
  BY <1>3, <1>23, QuietStream, LenProperties
<1>26. HeldSound'
  <2>1. \A i \in 1 .. h : i \in 1 .. Len(r) /\ r[i] = q[i]
    <3>1. h \in Nat /\ Len(q) \in Nat /\ h + 1 <= Len(q) /\ Len(r) = Len(q) - 1
      BY <1>10, <1>21
    <3>2. \A i \in 1 .. h : i \in 1 .. Len(r) /\ i <= h
      BY <3>1
    <3> QED
      BY <1>21, <3>2
  <2>2. \A i \in 1 .. h : held[i].batch = q[i]
    BY <1>1 DEF IInv, HeldSound
  <2> QED
    BY <1>1, <1>14, <1>17, <1>20, <2>1, <2>2 DEF HeldSound
<1>27. Numbered'
  <2>1. \A i \in 1 .. Len(q) : q[i].id < nextBatchID
    BY <1>1 DEF IInv, Numbered
  <2>2. \A j \in 1 .. Len(r) : r[j].id < nextBatchID
    <3>1. \A j \in 1 .. Len(r) : j <= h \/ j > h
      BY <1>21
    <3> QED
      BY <1>21, <2>1, <3>1
  <2>3. nextBatchID <= Len(author) /\ lastAcked[user] < nextBatchID
    BY DEF IInv, Numbered
  <2> QED
    BY <1>14, <1>17, <2>2, <2>3 DEF Numbered
<1>28. ASSUME NEW w \in 1 .. Len(author)
       PROVE  /\ ToSend(w)' => ToSend(w)
              /\ ToSend(w) /\ ~ToSend(w)' => w \in refused'
              /\ Queued(w) /\ ~Queued(w)' => w \in refused'
  <2>1. PICK d \in Nat : d = IF h + 1 <= h THEN h ELSE h + 1
    OBVIOUS
  <2>2. d = h + 1
    BY <2>1
  <2>3. /\ author[w].user # user => (Queued(w)' <=> Queued(w)) /\ (ToSend(w)' <=> ToSend(w))
        /\ author[w].user = user =>
             /\ Queued(w)' <=> HoldsBeside(q, w, h, 1)
             /\ ToSend(w)' <=> HoldsBehind(q, w, d)
    BY <1>1, <1>2, <1>14, <1>18, <1>19, <2>1, QueuedAfterCut
  <2>4. CASE author[w].user = user
    <3>1. (Queued(w) <=> Holds(q, w)) /\ (ToSend(w) <=> HoldsBehind(q, w, h))
      BY <1>1, <1>2, <1>19, <2>4, WhoQueues, OpenSends
    <3>2. HoldsBehind(q, w, d) => HoldsBehind(q, w, h)
      <4>1. \A i \in 1 .. Len(q) : i > d => i > h
        BY <2>2
      <4> QED
        BY <4>1 DEF HoldsBehind
    <3>3. ASSUME NEW i \in 1 .. Len(q), q[i].write = w, i = h + 1
          PROVE  w \in refused'
      BY <1>10, <1>13, <3>3
    <3>4. HoldsBehind(q, w, h) /\ ~HoldsBehind(q, w, d) => w \in refused'
      <4>1. SUFFICES ASSUME NEW i \in 1 .. Len(q), q[i].write = w, i > h, ~HoldsBehind(q, w, d)
                     PROVE  w \in refused'
        BY DEF HoldsBehind
      <4>2. ~(i > d)
        BY <4>1 DEF HoldsBehind
      <4> QED
        BY <2>2, <3>3, <4>1, <4>2
    <3>5. Holds(q, w) /\ ~HoldsBeside(q, w, h, 1) => w \in refused'
      <4>1. SUFFICES ASSUME NEW i \in 1 .. Len(q), q[i].write = w, ~HoldsBeside(q, w, h, 1)
                     PROVE  w \in refused'
        BY DEF Holds
      <4>2. ~(i <= h \/ i > h + 1)
        BY <4>1 DEF HoldsBeside
      <4> QED
        BY <3>3, <4>1, <4>2
    <3> QED
      BY <2>3, <2>4, <3>1, <3>2, <3>4, <3>5
  <2> QED
    BY <2>3, <2>4
<1>29. PlacesKept
  BY <1>14, SameLog
<1>30. NothingLost' /\ SettledFinal'
  <2>1. refused \subseteq refused'
    BY <1>13
  <2> QED
    BY <1>14, <1>28, <1>29, <2>1, HistoryStays DEF IInv
<1>31. LeftVisible'
  <2>1. refused \subseteq refused' /\ dropped \subseteq dropped'
    BY <1>13, <1>14
  <2>2. \A w \in 1 .. Len(author) : Queued(w) /\ ~Queued(w)' => w \in refused' \cup dropped'
    BY <1>28
  <2>3. \A x \in Coming' : x \in Coming \/ x = Len(log) + 1
    BY <1>3, <1>14, ComingStays
  <2> QED
    BY <1>14, <1>29, <2>1, <2>2, <2>3, LeftStaysCached
<1>32. LogSound' /\ HeldFinal' /\ CacheSound' /\ NoAssertionFails'
  <2>1. LogSound'
    BY <1>14 DEF IInv, LogSound
  <2>2. HeldFinal'
    BY <1>14 DEF IInv, HeldFinal, Final, Places
  <2>3. CacheSound'
    BY <1>14 DEF IInv, CacheSound
  <2>4. NoAssertionFails'
    BY <1>13 DEF IInv, NoAssertionFails
  <2> QED
    BY <2>1, <2>2, <2>3, <2>4
<1>33. TypeOK'
  <2>1. refused' \subseteq Writes
    BY <1>10, <1>13, BatchFields DEF IInv, TypeOK
  <2>2. responses' \in Seq(Nat \cup {Refused})
    BY <1>3, EmptyElements
  <2> QED
    BY <1>13, <1>14, <1>17, <1>23, <2>1, <2>2 DEF IInv, TypeOK
<1>34. IInv'
  BY <1>20, <1>24, <1>25, <1>26, <1>27, <1>30, <1>31, <1>32, <1>33 DEF IInv
<1> QED
  BY <1>1, <1>18, <1>34

\* Releasing some of what is held.
LEMMA HeldReleases ==
  ASSUME IInv, NEW n \in Nat, NEW docs \in [Keys -> Nat], n <= Len(held),
         \A k \in Keys : remoteDocs[k] <= docs[k] /\ Newer(k, docs[k]),
         Release(held, n, docs), UNCHANGED <<log, user, author, lastAcked>>
  PROVE  ReleaseOfAcked(held, n, docs, lastAcked[user])
<1>1. /\ user \in Users /\ mutations \in [Users -> Seq(Batches)] /\ held \in Seq(Results)
      /\ Len(log) \in Nat /\ Len(held) \in Nat /\ Len(mutations[user]) \in Nat
  BY Types DEF IInv
<1>2. AckedUpTo(mutations[user], Len(held), lastAcked[user])
  BY DEF IInv, HeldSound
<1>3. Len(held) <= Len(mutations[user])
  BY <1>2 DEF AckedUpTo
<1>4. \A i \in 1 .. Len(held) : /\ held[i].batch = mutations[user][i]
                                /\ Final(held[i].version, held[i].batch)
  BY InHeld
<1>5. \A i \in 1 .. n : held[i].batch = mutations[user][i]
  <2>1. \A i \in 1 .. n : i \in 1 .. Len(held)
    BY <1>1
  <2> QED
    BY <1>4, <2>1
<1>6. Ascending(mutations[user]) /\ n <= Len(mutations[user])
  BY <1>1, <1>3, OpenQueueBatches
<1>7. InOrder(held) /\ \A i \in 1 .. Len(held) : held[i].version \in Coming
  BY DEF IInv, HeldFinal, InOrder, Coming
<1>8. Releases(held, n, docs)
  BY <1>1, <1>5, <1>6, <1>7, Released
<1> QED
  BY <1>2, <1>4, <1>7, <1>8 DEF ReleaseOfAcked

\* Such a release leaves the pipeline and its answers right.
LEMMA HeldReleaseKeeps ==
  ASSUME IInv, NEW n \in Nat, NEW docs \in [Keys -> Nat],
         ReleaseOfAcked(held, n, docs, lastAcked[user]), lastAcked' = lastAcked,
         UNCHANGED <<requests, responses, pipeline, stream, nextBatchID, history, crash>>,
         \/ target' = Off
         \/ /\ target # Off
            /\ \A p \in Nat : p <= target \/ p <= lastRemote => p <= lastRemote'
            /\ \A i \in 1 .. n : held[i].version <= lastRemote',
         target' \in Nat \cup {Off}, lastRemote' \in Nat
  PROVE  /\ NoAssertionFails' /\ QueuesSound' /\ Numbered' /\ HeldSound' /\ PipelineSound'
         /\ StreamSound' /\ LogSound' /\ AnswersSound' /\ HeldFinal' /\ SettledFinal'
         /\ NothingLost' /\ LeftVisible'
         /\ mutations' \in [Users -> Seq(Batches)] /\ held' \in Seq(Results)
         /\ remoteDocs' \in [Keys -> Nat]
<1>1. /\ author' = author /\ refused' = refused /\ dropped' = dropped
      /\ log' = log /\ user' = user
  BY DEF history, ReleaseOfAcked
<1>2. PICK acked \in Nat \cup {Unknown} : acked = lastAcked[user]
  BY OpenQueueBatches, Types DEF IInv
<1>3. PICK results \in Seq(Results) : results = held
  BY Types DEF IInv
<1>4. ReleaseOfAcked(results, n, docs, acked) /\ Len(held) <= Len(results) /\ acked < nextBatchID
  <2>1. Len(held) \in Nat
    BY OpenQueueBatches
  <2> QED
    BY <1>2, <1>3, <2>1 DEF IInv, Numbered
<1>5. QueuesSound'
  BY <1>4, ReleaseCuts
<1>6. Numbered' /\ HeldSound' /\ HeldFinal' /\ LogSound'
  BY <1>4, ReleaseHeld
<1>7. LeftVisible'
  <2>1. \A x \in Coming' : x \in Coming /\ \A i \in 1 .. n : results[i].version < x
    <3>1. n <= Len(held) /\ Len(held) \in Nat /\ \A i \in 1 .. n : i \in 1 .. Len(held)
      BY <1>3, <1>4, OpenQueueBatches DEF ReleaseOfAcked
    <3>2. \A j \in 1 .. Len(responses) : responses[j] # Refused =>
             /\ responses[j] \in Coming
             /\ \A i \in 1 .. n : held[i].version < responses[j]
      BY <3>1, AnswersInOrder
    <3>3. \A j \in 1 .. Len(responses') : responses'[j] # Refused =>
             /\ responses'[j] \in Coming
             /\ \A i \in 1 .. n : results[i].version < responses'[j]
      BY <1>3, <3>2
    <3> QED
      BY <1>4, <3>3, ReleaseComing
  <2>2. \/ target' = Off
        \/ /\ target # Off
           /\ \A p \in Nat : p <= target \/ p <= lastRemote => p <= target' \/ p <= lastRemote'
    OBVIOUS
  <2>3. target' # Off =>
           \A i \in 1 .. n : results[i].version <= target' \/ results[i].version <= lastRemote'
    BY <1>3
  <2> QED
    BY <1>1, <1>4, <2>1, <2>2, <2>3, ReleaseShows
<1>8. NothingLost' /\ SettledFinal'
  <2>1. \A i \in 1 .. Len(results) :
           i > Len(held) => Behind(results[i].version, results[i].batch, user)
    <3>1. \A i \in 1 .. Len(results) : ~(i > Len(held))
      BY <1>3, OpenQueueBatches
    <3> QED
      BY <3>1
  <2> QED
    BY <1>1, <1>4, <2>1, ReleaseHistory
<1>9. PipelineSound'
  <2>1. pipeline \in Seq(Batches) /\ Follows(pipeline, Len(results), mutations[user])
    BY <1>3, Types DEF IInv, PipelineSound
  <2>2. Follows(pipeline, Len(held'), mutations'[user])
    BY <1>4, <2>1, ReleaseFollows
  <2> QED
    BY <1>1, <2>2 DEF PipelineSound
<1>10. StreamSound'
  BY DEF IInv, StreamSound
<1>11. AnswersSound'
  BY <1>1 DEF IInv, AnswersSound, Final, Behind, Places
<1>12. NoAssertionFails'
  BY DEF IInv, NoAssertionFails
<1>13. /\ mutations' \in [Users -> Seq(Batches)] /\ held' \in Seq(Results)
       /\ remoteDocs' \in [Keys -> Nat]
  BY DEF ReleaseOfAcked, Releases
<1> QED
  BY <1>5, <1>6, <1>7, <1>8, <1>9, <1>10, <1>11, <1>12, <1>13

\* The cache is never ahead of the log.
LEMMA CacheInLog ==
  ASSUME IInv
  PROVE  /\ remoteDocs \in [Keys -> Nat] /\ Len(log) \in Nat
         /\ \A k \in Keys : remoteDocs[k] <= Len(log)
<1>1. remoteDocs \in [Keys -> Nat] /\ Len(log) \in Nat
  BY Types DEF IInv
<1>2. \A k \in Keys : remoteDocs[k] = 0 \/ remoteDocs[k] \in 1 .. Len(log)
  BY DEF IInv, CacheSound
<1> QED
  BY <1>1, <1>2

\* Without a listener what is held is released as it is.
LEMMA StopListeningKeeps ==
  ASSUME IInv, StopListening
  PROVE  IInv'
<1>1. /\ Release(held, Len(held), remoteDocs) /\ target' = Off
      /\ UNCHANGED <<log, requests, responses, lastAcked, lastRemote, user,
                     nextBatchID, pipeline, stream, history, used, crash>>
  BY DEF StopListening
<1>2. UNCHANGED <<log, user, author, lastAcked>>
  BY <1>1 DEF history
<1>3. Len(held) \in Nat /\ Len(held) <= Len(held)
  BY OpenQueueBatches
<1>4. \A k \in Keys : remoteDocs[k] <= remoteDocs[k] /\ Newer(k, remoteDocs[k])
  BY CacheInLog DEF Newer
<1>5. ReleaseOfAcked(held, Len(held), remoteDocs, lastAcked[user])
  BY <1>1, <1>2, <1>3, <1>4, CacheInLog, HeldReleases
<1>6. /\ NoAssertionFails' /\ QueuesSound' /\ Numbered' /\ HeldSound' /\ PipelineSound'
      /\ StreamSound' /\ LogSound' /\ AnswersSound' /\ HeldFinal' /\ SettledFinal'
      /\ NothingLost' /\ LeftVisible'
      /\ mutations' \in [Users -> Seq(Batches)] /\ held' \in Seq(Results)
      /\ remoteDocs' \in [Keys -> Nat]
  <2>1. /\ lastAcked' = lastAcked
        /\ UNCHANGED <<requests, responses, pipeline, stream, nextBatchID, history, crash>>
        /\ target' = Off /\ target' \in Nat \cup {Off} /\ lastRemote' \in Nat
    BY <1>1, Types DEF IInv
  <2> QED
    BY <1>3, <1>5, <2>1, CacheInLog, HeldReleaseKeeps
<1>7. TypeOK'
  BY <1>1, <1>6 DEF IInv, TypeOK, history, used
<1>8. CacheSound'
  <2>1. ASSUME NEW k \in Keys
        PROVE  remoteDocs'[k] = 0 \/ (remoteDocs'[k] \in 1 .. Len(log) /\ log[remoteDocs'[k]].key = k)
    <3>1. CASE remoteDocs'[k] = remoteDocs[k]
      BY <3>1 DEF IInv, CacheSound
    <3>2. CASE remoteDocs'[k] # remoteDocs[k]
      <4>1. held \in Seq(Results) /\ lastAcked[user] \in Nat \cup {Unknown}
        BY OpenQueueBatches, Types DEF IInv
      <4> QED
        BY <1>3, <1>5, <3>2, <4>1, CacheInLog, ReleaseCached
    <3> QED
      BY <3>1, <3>2
  <2>2. \A k \in Keys : \/ remoteDocs'[k] = 0
                        \/ remoteDocs'[k] \in 1 .. Len(log') /\ log'[remoteDocs'[k]].key = k
    BY <1>1, <2>1
  <2> QED
    BY <1>1, <2>2 DEF CacheSound
<1> QED
  BY <1>6, <1>7, <1>8 DEF IInv

\* The version of a document as of v is its last up to v.
LEMMA DocAtIsLast ==
  ASSUME TypeOK, NEW k \in Keys, NEW v \in Nat
  PROVE  /\ DocAt(k, v) \in Nat /\ DocAt(k, v) <= v
         /\ \/ DocAt(k, v) = 0
            \/ DocAt(k, v) \in 1 .. Len(log) /\ log[DocAt(k, v)].key = k
         /\ \A p \in 1 .. Len(log) : p <= v /\ log[p].key = k => p <= DocAt(k, v)
<1> DEFINE S == Positions(k, v) \cup {0}
<1>1. Len(log) \in Nat /\ DOMAIN log = 1 .. Len(log)
  BY Types
<1>2. Positions(k, v) = {p \in 1 .. Len(log) : p <= v /\ log[p].key = k}
  BY <1>1 DEF Positions
<1>3. /\ S \in SUBSET Int /\ S # {} /\ v \in Int /\ \A x \in S : x <= v /\ x \in Nat
      /\ \A x \in S : x = 0 \/ (x \in 1 .. Len(log) /\ log[x].key = k)
      /\ \A p \in 1 .. Len(log) : p <= v /\ log[p].key = k => p \in S
  BY <1>1, <1>2
<1>4. DocAt(k, v) = Max(S)
  BY DEF DocAt
<1> HIDE DEF S
<1>5. Max(S) \in S /\ \A x \in S : x <= Max(S)
  <2>1. \A x \in S : x <= v
    BY <1>3
  <2> QED
    BY <1>3, <2>1, MaxElement
<1> QED
  BY <1>3, <1>4, <1>5

\* A result is released only if it and all before it are of versions up to v.
LEMMA UpToBound ==
  ASSUME NEW results \in Seq(Results), NEW v \in Nat
  PROVE  /\ UpTo(results, v) \in Nat /\ UpTo(results, v) <= Len(results)
         /\ \A i \in 1 .. UpTo(results, v) : results[i].version <= v
<1> DEFINE S == {n \in 0 .. Len(results) : \A i \in 1 .. n : results[i].version <= v}
<1>1. Len(results) \in Nat
  BY LenProperties
<1>2. S \in SUBSET Int /\ 0 \in S /\ \A n \in S : n \in Nat /\ n <= Len(results)
  BY <1>1
<1>3. \A n \in S : \A i \in 1 .. n : results[i].version <= v
  OBVIOUS
<1>4. UpTo(results, v) = Max(S)
  BY DEF UpTo
<1> HIDE DEF S
<1>5. Max(S) \in S
  <2>1. S # {} /\ Len(results) \in Int /\ \A n \in S : n <= Len(results)
    BY <1>1, <1>2
  <2> QED
    BY <1>2, <2>1, MaxElement
<1> QED
  BY <1>2, <1>3, <1>4, <1>5

\* A snapshot takes no document back and makes none older than its version.
LEMMA SnapshotCache ==
  ASSUME IInv, NEW v \in 1 .. Len(log), target # Off, target <= v, v > lastRemote
  PROVE  /\ WithSnapshot(v) \in [Keys -> Nat]
         /\ \A k \in Keys :
              /\ remoteDocs[k] <= WithSnapshot(v)[k]
              /\ WithSnapshot(v)[k] <= v /\ Newer(k, WithSnapshot(v)[k])
              /\ \/ WithSnapshot(v)[k] = 0
                 \/ /\ WithSnapshot(v)[k] \in 1 .. Len(log)
                    /\ log[WithSnapshot(v)[k]].key = k
<1>1. /\ Len(log) \in Nat /\ remoteDocs \in [Keys -> Nat] /\ lastRemote \in Nat
      /\ target \in Nat \cup {Off} /\ v \in Nat /\ v <= Len(log)
  BY Types DEF IInv
<1>2. ASSUME NEW k \in Keys
      PROVE  LET d == IF DocAt(k, v) > lastRemote THEN DocAt(k, v) ELSE remoteDocs[k]
             IN  /\ d \in Nat /\ remoteDocs[k] <= d /\ d <= v /\ Newer(k, d)
                 /\ d = 0 \/ (d \in 1 .. Len(log) /\ log[d].key = k)
  <2>1. PICK a \in Nat : /\ a = DocAt(k, v) /\ a <= v
                         /\ a = 0 \/ (a \in 1 .. Len(log) /\ log[a].key = k)
                         /\ \A p \in 1 .. Len(log) : p <= v /\ log[p].key = k => p <= a
    BY <1>1, DocAtIsLast DEF IInv
  <2>2. PICK c \in Nat : c = remoteDocs[k]
    BY <1>1
  <2>3. /\ c = 0 \/ (c \in 1 .. Len(log) /\ log[c].key = k)
        /\ c <= target \/ c <= lastRemote
    BY <2>2 DEF IInv, CacheSound
  <2>4. c <= v
    BY <1>1, <2>3
  <2>5. c <= a
    BY <2>1, <2>3, <2>4
  <2>6. Newer(k, a)
    <3>1. \A p \in 1 .. Len(log) : p <= target \/ p <= lastRemote => p <= v
      BY <1>1
    <3> QED
      BY <2>1, <3>1 DEF Newer
  <2>7. Newer(k, c)
    BY <2>2 DEF Newer
  <2> QED
    BY <1>1, <2>1, <2>2, <2>3, <2>4, <2>5, <2>6, <2>7
<1>3. PICK docs : docs = WithSnapshot(v)
  OBVIOUS
<1>4. docs = [k \in Keys |-> IF DocAt(k, v) > lastRemote THEN DocAt(k, v) ELSE remoteDocs[k]]
  BY <1>3 DEF WithSnapshot
<1> QED
  BY <1>2, <1>3, <1>4

\* What a snapshot releases it has, and it is never behind the cache.
LEMMA SnapshotKeeps ==
  ASSUME IInv, NEW v \in 1 .. Len(log), Snapshot(v)
  PROVE  IInv'
<1>1. /\ Release(held, UpTo(held, v), WithSnapshot(v)) /\ target' = 0 /\ lastRemote' = v
      /\ target # Off /\ v \in target .. Len(log) /\ v > lastRemote
      /\ UNCHANGED <<log, requests, responses, lastAcked, user,
                     nextBatchID, pipeline, stream, history, used, crash>>
  BY DEF Snapshot
<1>2. UNCHANGED <<log, user, author, lastAcked>>
  BY <1>1 DEF history
<1>3. v \in Nat /\ target <= v /\ held \in Seq(Results) /\ lastAcked[user] \in Nat \cup {Unknown}
  BY <1>1, OpenQueueBatches, Types DEF IInv
<1>4. PICK n \in Nat : /\ n = UpTo(held, v) /\ n <= Len(held)
                       /\ \A i \in 1 .. n : held[i].version <= v
  BY <1>3, UpToBound
<1>5. PICK docs \in [Keys -> Nat] :
        /\ docs = WithSnapshot(v)
        /\ \A k \in Keys : /\ remoteDocs[k] <= docs[k] /\ docs[k] <= v /\ Newer(k, docs[k])
                           /\ docs[k] = 0 \/ (docs[k] \in 1 .. Len(log) /\ log[docs[k]].key = k)
  BY <1>1, <1>3, SnapshotCache
<1>6. ReleaseOfAcked(held, n, docs, lastAcked[user])
  <2>1. Release(held, n, docs)
    BY <1>1, <1>4, <1>5
  <2>2. \A k \in Keys : remoteDocs[k] <= docs[k] /\ Newer(k, docs[k])
    BY <1>5
  <2> QED
    BY <1>2, <1>4, <2>1, <2>2, HeldReleases
<1>7. /\ NoAssertionFails' /\ QueuesSound' /\ Numbered' /\ HeldSound' /\ PipelineSound'
      /\ StreamSound' /\ LogSound' /\ AnswersSound' /\ HeldFinal' /\ SettledFinal'
      /\ NothingLost' /\ LeftVisible'
      /\ mutations' \in [Users -> Seq(Batches)] /\ held' \in Seq(Results)
      /\ remoteDocs' \in [Keys -> Nat]
  <2>1. /\ lastAcked' = lastAcked
        /\ UNCHANGED <<requests, responses, pipeline, stream, nextBatchID, history, crash>>
    BY <1>1
  <2>2. /\ target # Off
        /\ \A p \in Nat : p <= target \/ p <= lastRemote => p <= lastRemote'
        /\ \A i \in 1 .. n : held[i].version <= lastRemote'
    <3>1. lastRemote \in Nat /\ target \in Nat
      BY <1>1, Types DEF IInv
    <3> QED
      BY <1>1, <1>3, <1>4, <3>1
  <2>3. target' \in Nat \cup {Off} /\ lastRemote' \in Nat
    BY <1>1, <1>3
  <2> QED
    BY <1>6, <2>1, <2>2, <2>3, HeldReleaseKeeps
<1>8. TypeOK'
  BY <1>1, <1>3, <1>7 DEF IInv, TypeOK, history, used
<1>9. CacheSound'
  <2>1. ASSUME NEW k \in Keys, NEW new, new = remoteDocs'[k]
        PROVE  (new = 0 \/ (new \in 1 .. Len(log) /\ log[new].key = k)) /\ new <= v
    <3>1. CASE new = docs[k]
      BY <1>5, <3>1
    <3>2. CASE new # docs[k]
      <4>1. remoteDocs'[k] # docs[k]
        BY <2>1, <3>2
      <4>2. /\ remoteDocs'[k] \in 1 .. Len(log) /\ log[remoteDocs'[k]].key = k
            /\ \E i \in 1 .. n : held[i].version = remoteDocs'[k]
        BY <1>3, <1>6, <4>1, ReleaseCached
      <4> QED
        BY <1>4, <2>1, <4>2
    <3> QED
      BY <3>1, <3>2
  <2>2. \A k \in Keys : /\ \/ remoteDocs'[k] = 0
                           \/ remoteDocs'[k] \in 1 .. Len(log') /\ log'[remoteDocs'[k]].key = k
                        /\ remoteDocs'[k] <= lastRemote'
    BY <1>1, <2>1
  <2> QED
    BY <2>2 DEF CacheSound
<1> QED
  BY <1>7, <1>8, <1>9 DEF IInv

-----------------------------------------------------------------------------
(* Opening a queue, and new writes. *)

\* A queue is opened with a number above those of all batches on disk.  It is
\* no larger than the number of writes made, however often numbers start over.
LEMMA NextBatchIDBound ==
  ASSUME IInv
  PROVE  /\ NextBatchID \in Nat /\ NextBatchID <= Len(author)
         /\ \A u \in Users : \A i \in 1 .. Len(mutations[u]) : mutations[u][i].id < NextBatchID
<1> DEFINE S == {Unknown} \cup UNION {Ids(mutations[u]) : u \in Users}
           top == Len(author) - 1
<1>1. Len(author) \in Nat
  BY Types DEF IInv
<1>2. ASSUME NEW u \in Users
      PROVE  Ids(mutations[u]) = {mutations[u][i].id : i \in 1 .. Len(mutations[u])}
  BY Types DEF IInv, Ids
<1>3. ASSUME NEW u \in Users, NEW i \in 1 .. Len(mutations[u])
      PROVE  mutations[u][i].id \in Nat /\ mutations[u][i].id <= top
  <2>1. mutations[u][i] \in Batches
    BY Types, ElementOfSeq DEF IInv
  <2>2. BelongsTo(mutations[u][i], u)
    BY DEF IInv, QueuesSound, QueueSound
  <2>3. PICK b \in Batches : b = mutations[u][i]
    BY <2>1
  <2>4. b.id \in Nat /\ b.write \in Nat /\ b.id < b.write /\ b.write <= Len(author)
    BY <1>1, <2>2, <2>3, BatchFields, WritesNumbered DEF BelongsTo
  <2> QED
    BY <1>1, <2>3, <2>4
<1>4. \A x \in S : x \in Int /\ x <= top /\ x >= -1
  <2>1. Unknown \in Int /\ Unknown <= top /\ Unknown >= -1
    BY <1>1 DEF Unknown
  <2>2. ASSUME NEW u \in Users, NEW x \in Ids(mutations[u])
        PROVE  x \in Int /\ x <= top /\ x >= -1
    <3>1. PICK i \in 1 .. Len(mutations[u]) : x = mutations[u][i].id
      BY <1>2
    <3> QED
      BY <1>3, <3>1
  <2> QED
    BY <2>1, <2>2
<1>5. S # {} /\ \A u \in Users : \A i \in 1 .. Len(mutations[u]) : mutations[u][i].id \in S
  BY <1>2
<1>6. NextBatchID = 1 + Max(S)
  BY DEF NextBatchID
<1> HIDE DEF S
<1>7. Max(S) \in S /\ \A x \in S : x <= Max(S)
  <2>1. S \in SUBSET Int /\ S # {} /\ top \in Int
    BY <1>1, <1>4, <1>5
  <2>2. \A x \in S : x <= top
    BY <1>4
  <2> HIDE DEF top
  <2> QED
    BY <2>1, <2>2, MaxElement
<1>8. PICK x \in S : x = Max(S)
  BY <1>7
<1>9. NextBatchID = 1 + x /\ x \in Int /\ x <= top /\ x >= -1 /\ \A y \in S : y <= x
  BY <1>4, <1>6, <1>7, <1>8
<1>10. ASSUME NEW u \in Users, NEW i \in 1 .. Len(mutations[u])
       PROVE  mutations[u][i].id < NextBatchID
  <2>1. mutations[u][i].id \in Nat /\ mutations[u][i].id <= x
    BY <1>3, <1>5, <1>9
  <2> QED
    BY <1>9, <2>1
<1> QED
  BY <1>1, <1>9, <1>10

\* What opening a queue comes to: the acknowledged batches are cut out of it,
\* and no assertion fails.
QueueOpened(u, h, acked) ==
  /\ QueueCut(u, 0, h, h, acked)
  /\ AckedUpTo(mutations[u], h, lastAcked[u])
  /\ acked < NextBatchID
  /\ lastAcked' \in [Users -> Nat \cup {Unknown}]
  /\ dropped \subseteq dropped' /\ dropped' \subseteq Writes
  /\ \A i \in 1 .. h : mutations[u][i].write \in dropped'
  /\ user' = u /\ nextBatchID' = NextBatchID /\ held' = <<>> /\ crash' = crash

LEMMA OpenQueueCuts ==
  ASSUME IInv, NEW u \in Users, OpenQueue(u)
  PROVE  \E h \in Nat, acked \in Nat \cup {Unknown} : QueueOpened(u, h, acked)
<1>1. PICK q \in Seq(Batches) : q = mutations[u]
  BY Types DEF IInv
<1>2. /\ Len(q) \in Nat /\ mutations \in [Users -> Seq(Batches)]
      /\ lastAcked \in [Users -> Nat \cup {Unknown}]
      /\ NextBatchID \in Nat /\ \A i \in 1 .. Len(q) : q[i].id < NextBatchID
      /\ dropped \subseteq Writes
  BY <1>1, Types, LenProperties, NextBatchIDBound DEF IInv, TypeOK
<1>3. PICK h \in Nat : AckedUpTo(q, h, lastAcked[u])
  BY <1>1 DEF IInv, QueuesSound, QueueSound
<1>4. PICK last \in Nat \cup {Unknown} : last = lastAcked[u]
  BY <1>2
<1>5. /\ h <= Len(q)
      /\ h > 0 => q[h].id = last
      /\ \A i \in 1 .. Len(q) : q[i].id <= last <=> i <= h
  BY <1>3, <1>4 DEF AckedUpTo
<1>6. \A i \in 1 .. Len(q) : q[i] \in Batches /\ q[i].id \in Nat /\ q[i].write \in Writes
  BY ElementOfSeq, BatchFields
<1>7. PICK acked : acked = LastAckedAtStart(u)
  OBVIOUS
<1>8. acked = IF last >= NextBatchID THEN Unknown ELSE last
  BY <1>4, <1>7 DEF LastAckedAtStart
<1>9. last \in Int
  BY DEF Unknown
<1>10. last >= NextBatchID => Len(q) = 0 /\ h = 0
  <2>1. SUFFICES ASSUME last >= NextBatchID
                 PROVE  Len(q) = 0 /\ h = 0
    OBVIOUS
  <2>2. h = 0
    <3>1. SUFFICES ASSUME h > 0
                   PROVE  FALSE
      OBVIOUS
    <3>2. h \in 1 .. Len(q)
      BY <1>5, <3>1
    <3>3. q[h].id = last /\ q[h].id < NextBatchID
      BY <1>2, <1>5, <3>1, <3>2
    <3> QED
      BY <1>2, <1>9, <2>1, <3>3
  <2>3. Len(q) = 0
    <3>1. SUFFICES ASSUME Len(q) # 0
                   PROVE  FALSE
      OBVIOUS
    <3>2. 1 \in 1 .. Len(q)
      BY <1>2, <3>1
    <3>3. q[1].id < NextBatchID /\ q[1].id \in Nat
      BY <1>2, <1>6, <3>2
    <3>4. q[1].id <= last
      BY <1>2, <1>9, <2>1, <3>3
    <3>5. 1 <= h
      BY <1>5, <3>2, <3>4
    <3> QED
      BY <2>2, <3>5
  <2> QED
    BY <2>2, <2>3
<1>11. acked \in Nat \cup {Unknown} /\ acked < NextBatchID
  <2>1. CASE last >= NextBatchID
    BY <1>2, <1>8, <2>1 DEF Unknown
  <2>2. CASE ~(last >= NextBatchID)
    BY <1>2, <1>8, <1>9, <2>2
  <2> QED
    BY <2>1, <2>2
<1>12. \A i \in 1 .. Len(q) : q[i].id <= acked <=> i <= h
  <2>1. CASE last >= NextBatchID
    <3>1. \A i \in 1 .. Len(q) : FALSE
      BY <1>10, <2>1
    <3> QED
      BY <3>1
  <2>2. CASE ~(last >= NextBatchID)
    BY <1>5, <1>8, <2>2
  <2> QED
    BY <2>1, <2>2
<1>13. AckedUpTo(q, h, acked)
  <2>1. h > 0 => q[h].id = acked
    BY <1>5, <1>8, <1>10
  <2> QED
    BY <1>5, <1>12, <2>1 DEF AckedUpTo
<1> DEFINE old == {b \in Range(q) : b.id <= acked}
           ids == {b.id : b \in old}
<1>14. /\ user' = u /\ nextBatchID' = NextBatchID /\ held' = <<>>
       /\ lastAcked' = [lastAcked EXCEPT ![u] = acked]
       /\ mutations' = [mutations EXCEPT ![u] = Without(q, ids)]
       /\ dropped' = dropped \cup {b.write : b \in old}
       /\ crash' = IF lastAcked[u] >= NextBatchID /\ mutations[u] # <<>>
                   THEN "queueNotEmpty" ELSE crash
  BY <1>1, <1>7 DEF OpenQueue
<1>15. crash' = crash
  <2>1. last >= NextBatchID => q = <<>>
    BY <1>10, EmptySeq
  <2> QED
    BY <1>1, <1>4, <1>14, <2>1
<1>16. old = {q[i] : i \in {j \in 1 .. Len(q) : j <= h}}
  <2>1. Range(q) = {q[i] : i \in 1 .. Len(q)}
    BY RangeEquality
  <2> QED
    BY <1>12, <2>1
<1>17. \A i \in 1 .. Len(q) : q[i].id \notin ids <=> i <= 0 \/ i > 0 + h
  <2>1. ASSUME NEW i \in 1 .. Len(q)
        PROVE  q[i].id \in ids <=> i <= h
    <3>1. ASSUME i <= h
          PROVE  q[i].id \in ids
      <4>1. q[i] \in old
        BY <1>16, <3>1
      <4> QED
        BY <4>1
    <3>2. ASSUME q[i].id \in ids
          PROVE  i <= h
      <4>1. q[i].id <= acked
        BY <3>2
      <4> QED
        BY <1>12, <4>1
    <3> QED
      BY <3>1, <3>2
  <2> HIDE DEF ids
  <2> QED
    BY <1>2, <2>1
<1>18. dropped' \subseteq Writes /\ dropped \subseteq dropped' /\ \A i \in 1 .. h : q[i].write \in dropped'
  <2>1. \A i \in 1 .. h : i \in 1 .. Len(q)
    BY <1>2, <1>5
  <2>2. \A i \in 1 .. h : q[i] \in old
    BY <1>16, <2>1
  <2>3. \A b \in old : b.write \in Writes
    BY <1>6, <1>16
  <2> HIDE DEF old
  <2> QED
    BY <1>2, <1>14, <2>2, <2>3
<1> HIDE DEF ids, old
<1>19. Without(q, ids) \in Seq(Batches) /\ CutOut(Without(q, ids), q, 0, h)
  <2>1. 0 + h <= Len(q)
    BY <1>5
  <2> QED
    BY <1>17, <2>1, WithoutStretch
<1>20. PICK r \in Seq(Batches) : r = Without(q, ids)
  BY <1>19
<1>21. /\ mutations' \in [Users -> Seq(Batches)] /\ mutations'[u] = r
       /\ \A x \in Users : x # u => mutations'[x] = mutations[x]
  BY <1>2, <1>14, <1>20
<1>22. /\ lastAcked' \in [Users -> Nat \cup {Unknown}] /\ lastAcked'[u] = acked
       /\ \A x \in Users : x # u => lastAcked'[x] = lastAcked[x]
  BY <1>2, <1>11, <1>14
<1>23. QueueCut(u, 0, h, h, acked)
  <2>1. 0 + h <= Len(mutations[u]) /\ h <= h
    BY <1>1, <1>5
  <2> QED
    BY <1>1, <1>13, <1>19, <1>20, <1>21, <1>22, <2>1 DEF QueueCut
<1>24. QueueOpened(u, h, acked)
  BY <1>1, <1>3, <1>11, <1>14, <1>15, <1>18, <1>22, <1>23 DEF QueueOpened
<1> QED
  BY <1>11, <1>24

\* Opening a queue gives up only what is acknowledged, and the pipeline is
\* filled with the rest.
LEMMA OpenedKeeps ==
  ASSUME IInv, NEW u \in Users, NEW h \in Nat, NEW acked \in Nat \cup {Unknown},
         QueueOpened(u, h, acked), responses' = <<>>,
         FillPipeline(<<>>, <<>>, "stopped", mutations'[u], lastAcked'[u]),
         target' = target \/ target' = Off,
         UNCHANGED <<log, remoteDocs, lastRemote, author, refused>>
  PROVE  /\ NoAssertionFails' /\ QueuesSound' /\ Numbered' /\ HeldSound' /\ PipelineSound'
         /\ StreamSound' /\ LogSound' /\ AnswersSound' /\ HeldFinal' /\ SettledFinal'
         /\ NothingLost' /\ LeftVisible' /\ CacheSound'
         /\ mutations' \in [Users -> Seq(Batches)]
         /\ pipeline' \in Seq(Batches) /\ requests' \in Seq(Batches) /\ stream' \in StreamStates
<1>1. /\ QueueCut(u, 0, h, h, acked)
      /\ AckedUpTo(mutations[u], h, lastAcked[u])
      /\ acked < NextBatchID
      /\ dropped \subseteq dropped' /\ dropped' \subseteq Writes
      /\ \A i \in 1 .. h : mutations[u][i].write \in dropped'
      /\ user' = u /\ nextBatchID' = NextBatchID /\ held' = <<>> /\ crash' = crash
  BY DEF QueueOpened
<1>2. TypeOK /\ QueuesSound /\ author' = author
  BY DEF IInv
<1>3. PICK q \in Seq(Batches) : q = mutations[u]
  BY <1>2, Types
<1>4. PICK r \in Seq(Batches) : r = mutations'[u]
  BY <1>1 DEF QueueCut
<1>5. QueuesSound' /\ AckedUpTo(r, 0, acked)
  <2>1. PICK left \in Nat : left = 0
    OBVIOUS
  <2>2. 0 = 0 /\ h <= h /\ left = h - h
    BY <2>1
  <2>3. QueuesSound' /\ AckedUpTo(mutations'[u], left, acked)
    BY <1>1, <1>2, <2>2, QueuesStaySound
  <2> QED
    BY <1>4, <2>1, <2>3
<1>6. lastAcked'[u] = acked /\ mutations' \in [Users -> Seq(Batches)]
  BY <1>1 DEF QueueCut
<1>7. /\ Len(r) \in Nat /\ Ascending(r)
      /\ \A j \in 1 .. Len(r) : j + h \in 1 .. Len(q) /\ r[j] = q[j + h]
  <2>1. CutOut(r, q, 0, h) /\ 0 + h <= Len(q)
    BY <1>1, <1>3, <1>4 DEF QueueCut
  <2>2. Len(r) \in Nat
    BY LenProperties
  <2>3. Ascending(q)
    BY <1>2, <1>3 DEF QueuesSound, QueueSound
  <2>4. \A j \in 1 .. Len(r) : j > 0
    BY <2>2
  <2> QED
    BY <2>1, <2>2, <2>3, <2>4, CutElements
<1>8. Len(held') = 0
  BY <1>1, EmptyElements
<1>9. /\ pipeline' \in Seq(Batches) /\ Follows(pipeline', 0, r)
      /\ requests' = <<>> /\ requests' \in Seq(Batches)
      /\ stream' \in StreamStates /\ stream' # "ready"
  <2>1. FillPipeline(<<>>, <<>>, "stopped", r, acked)
    BY <1>4, <1>6
  <2>2. "stopped" \in StreamStates /\ "stopped" # "ready" /\ <<>> \in Seq(Batches) /\ 0 \in Nat
    BY EmptyElements DEF StreamStates
  <2>3. Follows(<<>>, 0, r)
    BY <1>7, EmptyElements DEF Follows
  <2> QED
    BY <1>5, <1>7, <2>1, <2>2, <2>3, Filled
<1>10. PipelineSound'
  BY <1>1, <1>4, <1>8, <1>9 DEF PipelineSound
<1>11. StreamSound' /\ AnswersSound'
  BY <1>9, QuietStream, LenProperties
<1>12. HeldSound'
  BY <1>1, <1>4, <1>5, <1>6, <1>8 DEF HeldSound
<1>13. HeldFinal'
  BY <1>8 DEF HeldFinal
<1>14. Numbered'
  <2>1. NextBatchID <= Len(author) /\ \A i \in 1 .. Len(q) : q[i].id < NextBatchID
    BY <1>3, NextBatchIDBound
  <2>2. \A j \in 1 .. Len(r) : r[j].id < NextBatchID
    BY <1>7, <2>1
  <2> QED
    BY <1>1, <1>2, <1>4, <1>6, <2>1, <2>2 DEF Numbered
<1>15. LogSound'
  BY DEF IInv, LogSound
<1>16. ASSUME NEW w \in 1 .. Len(author)
       PROVE  /\ ToSend(w)' <=> ToSend(w)
              /\ Queued(w) /\ ~Queued(w)' => w \in dropped'
  <2>1. PICK d \in Nat : d = IF 0 + h <= h THEN h ELSE 0 + h
    OBVIOUS
  <2>2. d = h
    BY <2>1
  <2>3. /\ author[w].user # u => (Queued(w)' <=> Queued(w)) /\ (ToSend(w)' <=> ToSend(w))
        /\ author[w].user = u =>
             /\ Queued(w)' <=> HoldsBeside(q, w, 0, h)
             /\ ToSend(w)' <=> HoldsBehind(q, w, d)
    BY <1>1, <1>2, <1>3, <2>1, QueuedAfterCut
  <2>4. CASE author[w].user = u
    <3>1. (Queued(w) <=> Holds(q, w)) /\ (ToSend(w) <=> HoldsBehind(q, w, h))
      BY <1>1, <1>2, <1>3, <2>4, WhoQueues, WhoSends
    <3>2. Holds(q, w) /\ ~HoldsBeside(q, w, 0, h) => w \in dropped'
      <4>1. SUFFICES ASSUME NEW i \in 1 .. Len(q), q[i].write = w, ~HoldsBeside(q, w, 0, h)
                     PROVE  w \in dropped'
        BY DEF Holds
      <4>2. ~(i <= 0 \/ i > 0 + h)
        BY <4>1 DEF HoldsBeside
      <4>3. i \in 1 .. h
        BY <4>2
      <4> QED
        BY <1>1, <1>3, <4>1, <4>3
    <3> QED
      BY <2>2, <2>3, <2>4, <3>1, <3>2
  <2>5. CASE author[w].user # u
    BY <2>3, <2>5
  <2> QED
    BY <2>4, <2>5
<1>17. PlacesKept
  BY SameLog
<1>18. NothingLost' /\ SettledFinal'
  <2>1. refused \subseteq refused'
    OBVIOUS
  <2> QED
    BY <1>2, <1>16, <1>17, <2>1, HistoryStays DEF IInv
<1>19. LeftVisible'
  <2>1. \A w \in 1 .. Len(author) : Queued(w) /\ ~Queued(w)' => w \in refused' \cup dropped'
    BY <1>16
  <2>2. \A x \in Coming' : x \in Coming \/ x = Len(log) + 1
    BY <1>1, ComingStays
  <2> QED
    BY <1>1, <1>17, <2>1, <2>2, LeftStaysCached
<1>20. CacheSound'
  BY DEF IInv, CacheSound
<1>21. NoAssertionFails'
  BY <1>1 DEF IInv, NoAssertionFails
<1> QED
  BY <1>5, <1>6, <1>9, <1>10, <1>11, <1>12, <1>13, <1>14, <1>15, <1>18, <1>19, <1>20, <1>21

\* One more launch or change of the credential is within the bounds.
LEMMA RestartCounted ==
  ASSUME TypeOK, restarts < limits.restarts
  PROVE  restarts + 1 \in 0 .. limits.restarts
<1>1. limits \in Limits /\ restarts \in 0 .. limits.restarts
  BY DEF TypeOK
<1>2. limits.restarts \in Nat
  BY <1>1, FirestoreClientAssumption
<1> QED
  BY <1>1, <1>2

\* The process starts again with what is on disk.
LEMMA RelaunchKeeps ==
  ASSUME IInv, Relaunch
  PROVE  IInv'
<1>1. /\ OpenQueue(user) /\ target' = Off /\ responses' = <<>>
      /\ FillPipeline(<<>>, <<>>, "stopped", mutations'[user], lastAcked'[user])
      /\ UNCHANGED <<log, remoteDocs, lastRemote, author, refused>>
      /\ UNCHANGED <<limits, elsewhere, faults>>
      /\ restarts < limits.restarts /\ restarts' = restarts + 1
  BY DEF Relaunch
<1>2. user \in Users
  BY OpenQueueBatches
<1>3. PICK h \in Nat, acked \in Nat \cup {Unknown} : QueueOpened(user, h, acked)
  BY <1>1, <1>2, OpenQueueCuts
<1>4. /\ NoAssertionFails' /\ QueuesSound' /\ Numbered' /\ HeldSound' /\ PipelineSound'
      /\ StreamSound' /\ LogSound' /\ AnswersSound' /\ HeldFinal' /\ SettledFinal'
      /\ NothingLost' /\ LeftVisible' /\ CacheSound'
      /\ mutations' \in [Users -> Seq(Batches)]
      /\ pipeline' \in Seq(Batches) /\ requests' \in Seq(Batches) /\ stream' \in StreamStates
  BY <1>1, <1>2, <1>3, OpenedKeeps
<1>5. TypeOK'
  <2>1. restarts' \in 0 .. limits.restarts
    BY <1>1, RestartCounted DEF IInv
  <2>2. /\ lastAcked' \in [Users -> Nat \cup {Unknown}] /\ dropped' \subseteq Writes
        /\ user' = user /\ nextBatchID' = NextBatchID /\ held' = <<>> /\ crash' = crash
    BY <1>3 DEF QueueOpened
  <2>3. nextBatchID' \in Nat /\ held' \in Seq(Results) /\ responses' \in Seq(Nat \cup {Refused})
    BY <1>1, <2>2, NextBatchIDBound, EmptyElements
  <2> QED
    BY <1>1, <1>4, <2>1, <2>2, <2>3 DEF IInv, TypeOK
<1> QED
  BY <1>4, <1>5 DEF IInv

\* Another user's queue is opened, or the same user's goes on; either way
\* the pipeline starts over behind what is held.
LEMMA CredentialChangeKeeps ==
  ASSUME IInv, NEW u \in Users, CredentialChange(u)
  PROVE  IInv'
<1>1. /\ u # user => OpenQueue(u)
      /\ u = user => UNCHANGED <<user, nextBatchID, lastAcked, mutations, dropped, held, crash>>
      /\ responses' = <<>>
      /\ FillPipeline(<<>>, <<>>, "stopped", mutations'[u], lastAcked'[u])
      /\ UNCHANGED <<log, remoteDocs, lastRemote, author, refused>>
      /\ UNCHANGED <<target, limits, elsewhere, faults>>
      /\ restarts < limits.restarts /\ restarts' = restarts + 1
  BY DEF CredentialChange
<1>2. restarts' \in 0 .. limits.restarts
  BY <1>1, RestartCounted DEF IInv
<1>3. responses' \in Seq(Nat \cup {Refused})
  BY <1>1, EmptyElements
<1>4. CASE u # user
  <2>1. PICK h \in Nat, acked \in Nat \cup {Unknown} : QueueOpened(u, h, acked)
    BY <1>1, <1>4, OpenQueueCuts
  <2>2. /\ NoAssertionFails' /\ QueuesSound' /\ Numbered' /\ HeldSound' /\ PipelineSound'
        /\ StreamSound' /\ LogSound' /\ AnswersSound' /\ HeldFinal' /\ SettledFinal'
        /\ NothingLost' /\ LeftVisible' /\ CacheSound'
        /\ mutations' \in [Users -> Seq(Batches)]
        /\ pipeline' \in Seq(Batches) /\ requests' \in Seq(Batches) /\ stream' \in StreamStates
    BY <1>1, <2>1, OpenedKeeps
  <2>3. /\ lastAcked' \in [Users -> Nat \cup {Unknown}] /\ dropped' \subseteq Writes
        /\ user' = u /\ nextBatchID' = NextBatchID /\ held' = <<>> /\ crash' = crash
    BY <2>1 DEF QueueOpened
  <2>4. nextBatchID' \in Nat /\ held' \in Seq(Results)
    BY <2>3, NextBatchIDBound, EmptyElements
  <2>5. TypeOK'
    BY <1>1, <1>2, <1>3, <2>2, <2>3, <2>4 DEF IInv, TypeOK
  <2> QED
    BY <2>2, <2>5 DEF IInv
<1>5. CASE u = user
  <2>1. /\ mutations' = mutations /\ lastAcked' = lastAcked /\ held' = held /\ user' = user
        /\ nextBatchID' = nextBatchID /\ dropped' = dropped /\ crash' = crash
        /\ log' = log /\ remoteDocs' = remoteDocs /\ lastRemote' = lastRemote
        /\ author' = author /\ refused' = refused /\ target' = target
    BY <1>1, <1>5
  <2>2. PICK q \in Seq(Batches), h \in Nat, acked \in Nat \cup {Unknown} :
          q = mutations[user] /\ h = Len(held) /\ acked = lastAcked[user]
    BY OpenQueueBatches, Types DEF IInv
  <2>3. Ascending(q) /\ AckedUpTo(q, h, acked) /\ h <= Len(q) /\ Len(q) \in Nat
    BY <2>2, OpenQueueBatches DEF IInv, HeldSound
  <2>4. /\ pipeline' \in Seq(Batches) /\ Follows(pipeline', h, q)
        /\ requests' = <<>> /\ requests' \in Seq(Batches)
        /\ stream' \in StreamStates /\ stream' # "ready"
    <3>1. FillPipeline(<<>>, <<>>, "stopped", q, acked)
      BY <1>1, <1>5, <2>1, <2>2
    <3>2. "stopped" \in StreamStates /\ "stopped" # "ready" /\ <<>> \in Seq(Batches)
      BY EmptyElements DEF StreamStates
    <3>3. Follows(<<>>, h, q)
      BY <2>3, EmptyElements DEF Follows
    <3> QED
      BY <2>3, <3>1, <3>2, <3>3, Filled
  <2>5. PipelineSound'
    BY <2>1, <2>2, <2>4 DEF PipelineSound
  <2>6. StreamSound' /\ AnswersSound'
    BY <1>1, <2>4, QuietStream, LenProperties
  <2>7. QueuesSound' /\ Numbered' /\ HeldSound' /\ NoAssertionFails'
    <3>1. QueuesSound'
      BY <2>1 DEF IInv, QueuesSound, QueueSound, BelongsTo
    <3>2. Numbered'
      BY <2>1 DEF IInv, Numbered
    <3>3. HeldSound'
      BY <2>1 DEF IInv, HeldSound
    <3>4. NoAssertionFails'
      BY <2>1 DEF IInv, NoAssertionFails
    <3> QED
      BY <3>1, <3>2, <3>3, <3>4
  <2>8. LogSound' /\ HeldFinal' /\ CacheSound'
    <3>1. LogSound'
      BY <2>1 DEF IInv, LogSound
    <3>2. HeldFinal'
      BY <2>1 DEF IInv, HeldFinal, Final, Places
    <3>3. CacheSound'
      BY <2>1 DEF IInv, CacheSound
    <3> QED
      BY <3>1, <3>2, <3>3
  <2>9. /\ PlacesKept /\ \A w : Places(w)' = Places(w)
        /\ \A w : (Queued(w)' <=> Queued(w)) /\ (ToSend(w)' <=> ToSend(w))
    <3>1. \A w : (Queued(w)' <=> Queued(w)) /\ (ToSend(w)' <=> ToSend(w))
      BY <2>1 DEF Queued, ToSend
    <3> QED
      BY <2>1, <3>1, SameLog
  <2>10. NothingLost' /\ SettledFinal'
    BY <2>1, <2>9, HistoryStays DEF IInv
  <2>11. LeftVisible'
    <3>1. \A x \in Coming' : x \in Coming \/ x = Len(log) + 1
      BY <1>1, <2>1, ComingStays
    <3> QED
      BY <2>1, <2>9, <3>1, LeftStaysCached
  <2>12. TypeOK'
    BY <1>1, <1>2, <1>3, <2>1, <2>4 DEF IInv, TypeOK
  <2> QED
    BY <2>5, <2>6, <2>7, <2>8, <2>10, <2>11, <2>12 DEF IInv
<1> QED
  BY <1>4, <1>5

\* A new write comes last in the queue of the signed-in user.
LEMMA WriteKeeps ==
  ASSUME IInv, NEW k \in Keys, NEW kind \in Kinds, Write(k, kind)
  PROVE  IInv'
<1>1. PICK w : w = Len(author) + 1
  OBVIOUS
<1>2. PICK b : b = [id |-> nextBatchID, key |-> k, kind |-> kind, write |-> w]
  OBVIOUS
<1>3. /\ w \in DOMAIN limits.writes
      /\ author' = Append(author, [key |-> k, kind |-> kind, user |-> user])
      /\ nextBatchID' = nextBatchID + 1
      /\ mutations' = [mutations EXCEPT ![user] = Append(mutations[user], b)]
      /\ FillPipeline(pipeline, requests, stream, mutations'[user], lastAcked[user])
  BY <1>1, <1>2 DEF Write
<1>4. /\ log' = log /\ responses' = responses /\ lastAcked' = lastAcked
      /\ remoteDocs' = remoteDocs /\ lastRemote' = lastRemote /\ user' = user
      /\ held' = held /\ target' = target /\ refused' = refused /\ dropped' = dropped
      /\ limits' = limits /\ elsewhere' = elsewhere /\ faults' = faults /\ restarts' = restarts
      /\ crash' = crash
  BY DEF Write, used
<1>5. PICK q \in Seq(Batches), h \in Nat, acked \in Nat \cup {Unknown} :
        q = mutations[user] /\ h = Len(held) /\ acked = lastAcked[user]
  BY OpenQueueBatches, Types DEF IInv
<1>6. /\ Len(q) \in Nat /\ h <= Len(q) /\ Ascending(q) /\ AckedUpTo(q, h, acked)
      /\ Follows(pipeline, h, q)
      /\ \A i \in 1 .. Len(q) : q[i] \in Batches /\ BelongsTo(q[i], user)
      /\ nextBatchID <= Len(author) /\ acked < nextBatchID
      /\ \A i \in 1 .. Len(q) : q[i].id < nextBatchID
  BY <1>5, OpenQueueBatches DEF IInv, HeldSound, PipelineSound, Numbered
<1>7. /\ Len(author) \in Nat /\ nextBatchID \in Nat /\ user \in Users /\ w \in Nat
      /\ author \in Seq([key : Keys, kind : Kinds, user : Users])
      /\ pipeline \in Seq(Batches) /\ requests \in Seq(Batches) /\ stream \in StreamStates
      /\ mutations \in [Users -> Seq(Batches)] /\ Len(pipeline) \in Nat /\ Len(responses) \in Nat
  BY <1>1, Types DEF IInv
<1>8. w \in Writes
  BY <1>3 DEF IInv, TypeOK, Writes
<1>9. b \in Batches /\ b.id = nextBatchID /\ b.key = k /\ b.kind = kind /\ b.write = w
  BY <1>2, <1>7, <1>8 DEF Batches
<1>10. /\ author' \in Seq([key : Keys, kind : Kinds, user : Users])
       /\ Len(author') = w
       /\ \A i \in 1 .. Len(author) : author'[i] = author[i]
       /\ author'[w] = [key |-> k, kind |-> kind, user |-> user]
  BY <1>1, <1>3, <1>7, AppendElements
<1>11. PICK r \in Seq(Batches) : r = Append(q, b)
  BY <1>9, AppendElements
<1>12. /\ Len(r) = Len(q) + 1 /\ Len(r) \in Nat
       /\ \A i \in 1 .. Len(q) : r[i] = q[i]
       /\ r[Len(q) + 1] = b
  BY <1>6, <1>9, <1>11, AppendElements
<1>13. \A i \in 1 .. Len(r) : i \in 1 .. Len(q) \/ i = Len(q) + 1
  BY <1>6, <1>12
<1>14. /\ mutations' \in [Users -> Seq(Batches)] /\ mutations'[user] = r
       /\ \A u \in Users : u # user => mutations'[u] = mutations[u]
  BY <1>3, <1>5, <1>7, <1>11
<1>15. \A i \in 1 .. Len(q) : /\ q[i].id \in Nat /\ q[i].write \in Nat
                              /\ q[i].id < nextBatchID /\ q[i].write < w
  <2>1. \A i \in 1 .. Len(q) : /\ q[i].id \in Nat /\ q[i].write \in Nat
                               /\ q[i].write \in 1 .. Len(author)
    BY <1>6, BatchFields, WritesNumbered DEF BelongsTo
  <2>2. \A x \in 1 .. Len(author) : x < w
    BY <1>1, <1>7
  <2> QED
    BY <1>6, <2>1, <2>2
<1>16. Ascending(r)
  <2>1. ASSUME NEW i \in 1 .. Len(r), NEW j \in 1 .. Len(r), i < j
        PROVE  r[i].id < r[j].id /\ r[i].write < r[j].write
    <3>1. i \in 1 .. Len(q)
      BY <1>6, <1>12, <2>1
    <3>2. CASE j \in 1 .. Len(q)
      <4>1. q[i].id < q[j].id /\ q[i].write < q[j].write
        BY <1>6, <2>1, <3>1, <3>2 DEF Ascending
      <4> QED
        BY <1>12, <3>1, <3>2, <4>1
    <3>3. CASE j = Len(q) + 1
      BY <1>9, <1>12, <1>15, <3>1, <3>3
    <3> QED
      BY <1>13, <3>2, <3>3
  <2> QED
    BY <2>1 DEF Ascending
<1>17. AckedUpTo(r, h, acked)
  <2>1. ASSUME NEW i \in 1 .. Len(r)
        PROVE  r[i].id <= acked <=> i <= h
    <3>1. CASE i \in 1 .. Len(q)
      BY <1>6, <1>12, <3>1 DEF AckedUpTo
    <3>2. CASE i = Len(q) + 1
      <4>1. ~(i <= h)
        BY <1>6, <3>2
      <4>2. acked \in Int
        BY DEF Unknown
      <4>3. ~(r[i].id <= acked)
        BY <1>6, <1>7, <1>9, <1>12, <3>2, <4>2
      <4> QED
        BY <4>1, <4>3
    <3> QED
      BY <1>13, <3>1, <3>2
  <2>2. h > 0 => r[h].id = acked
    <3>1. h > 0 => h \in 1 .. Len(q)
      BY <1>6
    <3> QED
      BY <1>6, <1>12, <3>1 DEF AckedUpTo
  <2>3. h <= Len(r)
    BY <1>6, <1>12
  <2> QED
    BY <2>1, <2>2, <2>3 DEF AckedUpTo
<1>18. Follows(pipeline, h, r)
  <2>1. h + Len(pipeline) <= Len(q) /\ \A i \in 1 .. Len(pipeline) : pipeline[i] = q[h + i]
    BY <1>6 DEF Follows
  <2>2. \A i \in 1 .. Len(pipeline) : h + i \in 1 .. Len(q)
    BY <1>6, <1>7, <2>1
  <2>3. h + Len(pipeline) <= Len(r)
    BY <1>6, <1>7, <1>12, <2>1
  <2> QED
    BY <1>12, <2>1, <2>2, <2>3 DEF Follows
<1>19. FillPipeline(pipeline, requests, stream, r, acked)
  BY <1>3, <1>5, <1>14
<1>20. /\ pipeline' \in Seq(Batches)
       /\ Follows(pipeline', h, r)
       /\ Len(pipeline) <= Len(pipeline')
       /\ \A i \in 1 .. Len(pipeline) : pipeline'[i] = pipeline[i]
       /\ requests' \in Seq(Batches)
       /\ stream' \in StreamStates
       /\ stream # "ready" => stream' # "ready" /\ requests' = <<>>
       /\ stream = "ready" =>
            /\ stream' = "ready"
            /\ \A n \in Nat : Matches(pipeline, requests, n) => Matches(pipeline', requests', n)
  BY <1>7, <1>16, <1>17, <1>18, <1>19, Filled
<1>21. PipelineSound' /\ HeldSound'
  <2>1. PipelineSound'
    BY <1>4, <1>5, <1>14, <1>20 DEF PipelineSound
  <2>2. \A i \in 1 .. h : i \in 1 .. Len(q) /\ held[i].batch = q[i]
    BY <1>5, <1>6 DEF IInv, HeldSound
  <2>3. HeldSound'
    BY <1>4, <1>5, <1>12, <1>14, <1>17, <2>2 DEF HeldSound
  <2> QED
    BY <2>1, <2>3
<1>22. ASSUME NEW c, NEW u \in Users, BelongsTo(c, u)
       PROVE  BelongsTo(c, u)'
  <2>1. /\ c.write \in 1 .. Len(author) /\ c.id < c.write
        /\ author[c.write] = [key |-> c.key, kind |-> c.kind, user |-> u]
    BY <1>22 DEF BelongsTo
  <2>2. c.write \in 1 .. Len(author') /\ author'[c.write] = author[c.write]
    <3>1. \A x \in 1 .. Len(author) : x \in 1 .. Len(author')
      BY <1>1, <1>7, <1>10
    <3> QED
      BY <1>10, <2>1, <3>1
  <2> QED
    BY <2>1, <2>2 DEF BelongsTo
<1>23. BelongsTo(b, user)'
  <2>1. /\ b.write \in 1 .. Len(author')
        /\ author'[b.write] = [key |-> b.key, kind |-> b.kind, user |-> user]
    BY <1>1, <1>7, <1>9, <1>10
  <2>2. b.id < b.write
    BY <1>1, <1>6, <1>7, <1>9
  <2> QED
    BY <1>4, <2>1, <2>2 DEF BelongsTo
<1>24. QueuesSound'
  <2>1. ASSUME NEW u \in Users
        PROVE  QueueSound(mutations[u], u, lastAcked[u])
    BY DEF IInv, QueuesSound
  <2>2. ASSUME NEW u \in Users, NEW s, s = mutations'[u]
        PROVE  /\ Ascending(s)
               /\ \A i \in 1 .. Len(s) : BelongsTo(s[i], u)'
               /\ \E g \in Nat : AckedUpTo(s, g, lastAcked[u])
    <3>1. CASE u = user
      <4>1. s = r
        BY <1>14, <2>2, <3>1
      <4>2. ASSUME NEW i \in 1 .. Len(r), NEW c, c = r[i]
            PROVE  BelongsTo(c, user)'
        <5>1. CASE i \in 1 .. Len(q)
          <6>1. c = q[i] /\ BelongsTo(q[i], user)
            BY <1>6, <1>12, <4>2, <5>1
          <6>2. PICK x \in Users : x = user
            BY <1>7
          <6>3. BelongsTo(c, x)'
            BY <1>22, <6>1, <6>2
          <6> QED
            BY <1>4, <6>2, <6>3 DEF BelongsTo
        <5>2. CASE i = Len(q) + 1
          BY <1>12, <1>23, <4>2, <5>2 DEF BelongsTo
        <5> QED
          BY <1>13, <5>1, <5>2
      <4>3. \A i \in 1 .. Len(r) : BelongsTo(r[i], user)'
        BY <1>4, <2>2, <4>1, <4>2, <1>14 DEF BelongsTo
      <4> QED
        BY <1>4, <1>5, <1>16, <1>17, <2>2, <3>1, <4>1, <4>3 DEF BelongsTo
    <3>2. CASE u # user
      <4>1. s = mutations[u] /\ mutations'[u] = mutations[u]
        BY <1>14, <2>2, <3>2
      <4>2. QueueSound(s, u, lastAcked[u])
        BY <2>1, <4>1
      <4>3. ASSUME NEW i \in 1 .. Len(s), NEW c, c = s[i]
            PROVE  BelongsTo(c, u)'
        BY <1>22, <4>2, <4>3 DEF QueueSound
      <4>4. \A i \in 1 .. Len(s) : BelongsTo(s[i], u)'
        BY <4>1, <4>3 DEF BelongsTo
      <4> QED
        BY <4>2, <4>4 DEF QueueSound
    <3> QED
      BY <3>1, <3>2
  <2> QED
    BY <1>4, <2>2 DEF QueuesSound, QueueSound, BelongsTo
<1>25. Numbered'
  <2>1. \A i \in 1 .. Len(r) : r[i].id < nextBatchID + 1
    <3>1. ASSUME NEW i \in 1 .. Len(q)
          PROVE  r[i].id < nextBatchID + 1
      <4>1. r[i] = q[i] /\ q[i].id \in Nat /\ q[i].id < nextBatchID
        BY <1>12, <1>15
      <4> QED
        BY <1>7, <4>1
    <3>2. r[Len(q) + 1].id < nextBatchID + 1
      BY <1>7, <1>9, <1>12
    <3> QED
      BY <1>13, <3>1, <3>2
  <2>2. nextBatchID + 1 <= w
    BY <1>1, <1>6, <1>7
  <2>3. acked < nextBatchID + 1
    BY <1>6, <1>7 DEF Unknown
  <2> QED
    BY <1>3, <1>4, <1>5, <1>10, <1>14, <2>1, <2>2, <2>3 DEF Numbered
<1>26. StreamSound'
  <2>1. Len(responses) <= Len(pipeline')
    <3>1. Len(responses) <= Len(pipeline) /\ Len(pipeline') \in Nat
      BY <1>20, LenProperties DEF IInv, StreamSound
    <3> QED
      BY <1>7, <1>20, <3>1
  <2>2. CASE stream = "ready"
    BY <1>4, <1>7, <1>20, <2>1, <2>2 DEF IInv, StreamSound
  <2>3. CASE stream # "ready"
    BY <1>4, <1>20, <2>1, <2>3 DEF IInv, StreamSound
  <2> QED
    BY <2>2, <2>3
<1>27. AnswersSound'
  <2>1. ASSUME NEW i \in 1 .. Len(responses), responses[i] # Refused,
               NEW v, NEW c, v = responses[i], c = pipeline[i]
        PROVE  Final(v, c)' /\ Behind(v, c, user)' /\ pipeline'[i] = c
    <3>1. Final(v, c) /\ Behind(v, c, user)
      BY <2>1 DEF IInv, AnswersSound
    <3>2. i \in 1 .. Len(pipeline)
      <4>1. Len(responses) <= Len(pipeline)
        BY DEF IInv, StreamSound
      <4> QED
        BY <1>7, <4>1
    <3>3. c.write \in 1 .. Len(author)
      BY <2>1, <3>2, InPipeline DEF BelongsTo
    <3>4. Final(v, c)'
      BY <1>4, <3>1 DEF Final, Places
    <3>5. ASSUME NEW x \in 1 .. Len(author'), x < c.write
          PROVE  x \in 1 .. Len(author) /\ author'[x] = author[x]
      <4>1. x \in 1 .. Len(author)
        BY <1>1, <1>7, <1>10, <3>3, <3>5
      <4> QED
        BY <1>10, <4>1
    <3>6. Behind(v, c, user)'
      BY <1>4, <3>1, <3>5 DEF Behind, Places
    <3> QED
      BY <1>20, <2>1, <3>2, <3>4, <3>6
  <2> QED
    BY <1>4, <2>1 DEF AnswersSound, Final, Behind, Places
<1>28. ASSUME NEW u \in Users, NEW c, c.write # w
       PROVE  c \in Range(mutations'[u]) <=> c \in Range(mutations[u])
  <2>1. CASE u # user
    BY <1>14, <2>1
  <2>2. CASE u = user
    <3>1. Range(r) = {r[i] : i \in 1 .. Len(r)} /\ Range(q) = {q[i] : i \in 1 .. Len(q)}
      BY RangeEquality
    <3>2. \A i \in 1 .. Len(q) : i \in 1 .. Len(r)
      BY <1>6, <1>12
    <3>3. c \in Range(r) <=> c \in Range(q)
      BY <1>9, <1>12, <1>13, <1>28, <3>1, <3>2
    <3> QED
      BY <1>5, <1>14, <2>2, <3>3
  <2> QED
    BY <2>1, <2>2
<1>29. ASSUME NEW v, v # w
       PROVE  (Queued(v)' <=> Queued(v)) /\ (ToSend(v)' <=> ToSend(v))
  <2>1. Queued(v)' <=> Queued(v)
    BY <1>28, <1>29 DEF Queued
  <2>2. ToSend(v)' <=> ToSend(v)
    BY <1>4, <1>28, <1>29 DEF ToSend
  <2> QED
    BY <2>1, <2>2
<1>30. Queued(w)' /\ ToSend(w)'
  <2>1. b \in Range(mutations'[user])
    <3>1. Range(r) = {r[i] : i \in 1 .. Len(r)} /\ Len(q) + 1 \in 1 .. Len(r)
      BY <1>6, <1>12, RangeEquality
    <3> QED
      BY <1>12, <1>14, <3>1
  <2>2. b.id > lastAcked'[user]
    BY <1>4, <1>5, <1>6, <1>7, <1>9 DEF Unknown
  <2> QED
    BY <1>7, <1>9, <2>1, <2>2 DEF Queued, ToSend
<1>31. \A v \in 1 .. Len(author') : v = w \/ (v # w /\ v \in 1 .. Len(author))
  BY <1>1, <1>7, <1>10
<1>32. \A v : Places(v)' = Places(v)
  BY <1>4, SameLog
<1>33. DOMAIN author = 1 .. Len(author) /\ DOMAIN author' = 1 .. Len(author')
  BY <1>7, <1>10, LenProperties
<1>34. NothingLost'
  <2>1. ASSUME NEW v \in 1 .. Len(author')
        PROVE  ToSend(v)' \/ Places(v)' # {} \/ v \in refused'
    <3>1. CASE v = w
      BY <1>30, <3>1
    <3>2. CASE v # w /\ v \in 1 .. Len(author)
      BY <1>4, <1>29, <1>32, <1>33, <3>2 DEF IInv, NothingLost
    <3> QED
      BY <1>31, <3>1, <3>2
  <2> QED
    BY <1>33, <2>1 DEF NothingLost
<1>35. SettledFinal'
  <2>1. ASSUME NEW v \in 1 .. Len(author'), NEW x \in 1 .. Len(author'),
               v < x, author'[v].user = author'[x].user, ~ToSend(x)', x \notin refused'
        PROVE  ~ToSend(v)' /\ \A p \in Places(v)' : \E s \in Places(x)' : p < s
    <3>1. x # w /\ x \in 1 .. Len(author)
      BY <1>30, <1>31, <2>1
    <3>2. v # w /\ v \in 1 .. Len(author)
      <4>1. \A i \in 1 .. Len(author) : ~(w < i)
        BY <1>1, <1>7
      <4> QED
        BY <1>31, <2>1, <3>1, <4>1
    <3>3. author[v].user = author[x].user /\ ~ToSend(x) /\ x \notin refused
      BY <1>4, <1>10, <1>29, <2>1, <3>1, <3>2
    <3>4. ~ToSend(v) /\ \A p \in Places(v) : \E s \in Places(x) : p < s
      BY <2>1, <3>1, <3>2, <3>3 DEF IInv, SettledFinal
    <3> QED
      BY <1>29, <1>32, <3>2, <3>4
  <2> QED
    BY <2>1 DEF SettledFinal
<1>36. LeftVisible'
  <2>1. ASSUME NEW v \in 1 .. Len(author')
        PROVE  \/ Queued(v)'
               \/ v \in refused' \cup dropped'
               \/ Visible(v)' /\ Past(v)'
    <3>1. CASE v = w
      BY <1>30, <3>1
    <3>2. CASE v # w /\ v \in 1 .. Len(author)
      <4>1. Visible(v) => Visible(v)'
        BY <1>4, <1>10, <1>32, <3>2 DEF Visible, HasDocument
      <4>2. Coming' = Coming
        BY <1>4 DEF Coming
      <4>3. Past(v) => Past(v)'
        BY <1>4, <1>32, <4>2 DEF Past
      <4> QED
        BY <1>4, <1>29, <3>2, <4>1, <4>3 DEF IInv, LeftVisible
    <3> QED
      BY <1>31, <3>1, <3>2
  <2> QED
    BY <2>1 DEF LeftVisible
<1>37. LogSound'
  <2>1. ASSUME NEW i \in 1 .. Len(log)
        PROVE  \/ log[i].value = Elsewhere
               \/ log[i].value \in 1 .. Len(author') /\ author'[log[i].value].key = log[i].key
    <3>1. \A x \in 1 .. Len(author) : x \in 1 .. Len(author') /\ author'[x] = author[x]
      BY <1>1, <1>7, <1>10
    <3> QED
      BY <3>1 DEF IInv, LogSound
  <2> QED
    BY <1>4, <2>1 DEF LogSound
<1>38. HeldFinal' /\ CacheSound' /\ NoAssertionFails'
  <2>1. HeldFinal'
    BY <1>4 DEF IInv, HeldFinal, Final, Places
  <2>2. CacheSound'
    BY <1>4 DEF IInv, CacheSound
  <2>3. NoAssertionFails'
    BY <1>4 DEF IInv, NoAssertionFails
  <2> QED
    BY <2>1, <2>2, <2>3
<1>39. TypeOK'
  <2>1. nextBatchID' \in Nat
    BY <1>3, <1>7
  <2> QED
    BY <1>4, <1>10, <1>14, <1>20, <2>1 DEF IInv, TypeOK
<1> QED
  BY <1>21, <1>24, <1>25, <1>26, <1>27, <1>34, <1>35, <1>36, <1>37, <1>38, <1>39 DEF IInv

-----------------------------------------------------------------------------
(* The theorems. *)

\* The app is installed: nothing is on disk and nothing is on its way.
LEMMA InitSound == Init => IInv
<1> SUFFICES ASSUME Init
             PROVE  IInv
  OBVIOUS
<1>1. /\ log = <<>> /\ requests = <<>> /\ responses = <<>>
      /\ mutations = [u \in Users |-> <<>>]
      /\ lastAcked = [u \in Users |-> Unknown]
      /\ remoteDocs = [k \in Keys |-> 0]
      /\ lastRemote = 0 /\ user = FirstUser /\ nextBatchID = 0
      /\ held = <<>> /\ pipeline = <<>> /\ stream = "stopped" /\ target = Off
      /\ author = <<>> /\ refused = {} /\ dropped = {}
      /\ limits \in Limits /\ elsewhere = 0 /\ faults = 0 /\ restarts = 0
      /\ crash = ""
  BY DEF Init
<1>2. PICK e : e = <<>>
  OBVIOUS
<1>3. Len(e) = 0 /\ DOMAIN e = {} /\ \A S : e \in Seq(S)
  BY <1>2, EmptyElements
<1>4. user \in Users /\ lastAcked[user] = Unknown /\ mutations[user] = e
  BY <1>1, <1>2, FirestoreClientAssumption
<1>5. TypeOK
  <2>1. limits.elsewhere \in Nat /\ limits.faults \in Nat /\ limits.restarts \in Nat
    BY <1>1, FirestoreClientAssumption
  <2>2. /\ elsewhere \in 0 .. limits.elsewhere
        /\ faults \in 0 .. limits.faults
        /\ restarts \in 0 .. limits.restarts
    <3>1. \A n \in Nat : 0 \in 0 .. n
      OBVIOUS
    <3> QED
      BY <1>1, <2>1, <3>1
  <2>3. mutations \in [Users -> Seq(Batches)] /\ lastAcked \in [Users -> Nat \cup {Unknown}]
    BY <1>1, <1>2, <1>3
  <2> QED
    BY <1>1, <1>2, <1>3, <1>4, <2>2, <2>3 DEF TypeOK, StreamStates
<1>6. AckedUpTo(e, 0, Unknown) /\ Ascending(e) /\ Follows(e, 0, e)
  BY <1>3 DEF AckedUpTo, Ascending, Follows
<1>7. QueuesSound
  <2>1. ASSUME NEW u \in Users
        PROVE  QueueSound(mutations[u], u, lastAcked[u])
    <3>1. mutations[u] = e /\ lastAcked[u] = Unknown
      BY <1>1, <1>2
    <3>2. 0 \in Nat
      OBVIOUS
    <3> QED
      BY <1>3, <1>6, <3>1, <3>2 DEF QueueSound
  <2> QED
    BY <2>1 DEF QueuesSound
<1>8. /\ log = e /\ responses = e /\ pipeline = e /\ held = e /\ author = e
      /\ Len(log) = 0 /\ Len(responses) = 0 /\ Len(pipeline) = 0 /\ Len(held) = 0
      /\ Len(author) = 0 /\ Len(mutations[user]) = 0 /\ DOMAIN author = {}
  BY <1>1, <1>2, <1>3, <1>4
<1>9. Numbered
  <2>1. nextBatchID = 0 /\ lastAcked[user] = -1 /\ Len(author) = 0
    BY <1>1, <1>4, <1>8 DEF Unknown
  <2>2. \A i \in 1 .. Len(mutations[user]) : FALSE
    BY <1>8
  <2> QED
    BY <2>1, <2>2 DEF Numbered
<1>10. HeldSound /\ PipelineSound
  <2>1. HeldSound
    BY <1>4, <1>6, <1>8 DEF HeldSound
  <2>2. PipelineSound
    BY <1>4, <1>6, <1>8 DEF PipelineSound
  <2> QED
    BY <2>1, <2>2
<1>11. StreamSound /\ AnswersSound /\ HeldFinal
  <2>1. StreamSound
    <3>1. \A i \in 1 .. Len(responses) : FALSE
      BY <1>8
    <3>2. Len(responses) <= Len(pipeline)
      BY <1>8
    <3>3. stream # "ready" /\ requests = <<>> /\ responses = <<>>
      BY <1>1
    <3> QED
      BY <3>1, <3>2, <3>3 DEF StreamSound
  <2> QED
    BY <1>8, <2>1 DEF AnswersSound, HeldFinal
<1>12. LogSound /\ SettledFinal /\ LeftVisible /\ NothingLost
  BY <1>8 DEF LogSound, SettledFinal, LeftVisible, NothingLost
<1>13. CacheSound /\ NoAssertionFails
  BY <1>1 DEF CacheSound, NoAssertionFails
<1> QED
  BY <1>5, <1>7, <1>9, <1>10, <1>11, <1>12, <1>13 DEF IInv

\* A step that changes no variable.
LEMMA StutterKeeps ==
  ASSUME IInv, UNCHANGED vars
  PROVE  IInv'
<1>1. QueuesUntouched /\ log' = log /\ UNCHANGED <<requests, responses, stream, target, used>>
  BY DEF vars, QueuesUntouched, disk, memory, history
<1>2. TypeOK'
  BY <1>1 DEF IInv, TypeOK, QueuesUntouched, disk, used
<1>3. StreamSound'
  BY <1>1 DEF IInv, StreamSound, QueuesUntouched
<1>4. AnswersSound'
  BY <1>1 DEF IInv, AnswersSound, Final, Behind, Places, QueuesUntouched
<1>5. CacheSound'
  BY <1>1 DEF IInv, CacheSound, QueuesUntouched, disk
<1>6. Coming' \subseteq Coming
  <2>1. held' = held /\ responses' = responses
    BY DEF vars, memory
  <2> QED
    BY <2>1, ComingStays
<1> QED
  BY <1>1, <1>2, <1>3, <1>4, <1>5, <1>6, QueuesUntouchedSound, LogUntouchedSound DEF IInv

\* Whatever the order of writes, answers, broken streams, refusals, snapshots,
\* launches and users, the queues on disk, the pipeline and what is on its way
\* fit together, and what the log and the cache have of the writes is right.
THEOREM Invariance == Spec => []IInv
<1>1. Init => IInv
  BY InitSound
<1>2. IInv /\ [Next]_vars => IInv'
  <2> SUFFICES ASSUME IInv, [Next]_vars
               PROVE  IInv'
    OBVIOUS
  <2>1. ASSUME NEW k \in Keys, NEW kind \in Kinds, Write(k, kind)
        PROVE  IInv'
    BY <2>1, WriteKeeps
  <2>2. CASE Handshake
    BY <2>2, HandshakeKeeps
  <2>3. CASE ReceiveResponse
    BY <2>3, ReceiveResponseKeeps
  <2>4. CASE ReceiveRefusal
    BY <2>4, ReceiveRefusalKeeps
  <2>5. CASE Interrupted
    BY <2>5, InterruptedKeeps
  <2>6. CASE IdleClose
    BY <2>6, IdleCloseKeeps
  <2>7. CASE Listen
    BY <2>7, ListenKeeps
  <2>8. CASE StopListening
    BY <2>8, StopListeningKeeps
  <2>9. ASSUME NEW v \in 1 .. Len(log), Snapshot(v)
        PROVE  IInv'
    BY <2>9, SnapshotKeeps
  <2>10. ASSUME NEW u \in Users, CredentialChange(u)
         PROVE  IInv'
    BY <2>10, CredentialChangeKeeps
  <2>11. CASE Relaunch
    BY <2>11, RelaunchKeeps
  <2>12. CASE ServerCommit
    BY <2>12, ServerCommitKeeps
  <2>13. CASE ServerRefuse
    BY <2>13, ServerRefuseKeeps
  <2>14. ASSUME NEW k \in Keys, NEW kind \in Kinds, WriteElsewhere(k, kind)
         PROVE  IInv'
    BY <2>14, WriteElsewhereKeeps
  <2>15. CASE UNCHANGED vars
    BY <2>15, StutterKeeps
  <2> QED
    BY <2>1, <2>2, <2>3, <2>4, <2>5, <2>6, <2>7, <2>8, <2>9, <2>10, <2>11, <2>12, <2>13,
       <2>14, <2>15 DEF Next
<1> QED
  BY <1>1, <1>2, PTL DEF Spec

\* Every variable keeps its type, and the bounds of the exploration hold.
THEOREM TypeCorrect == Spec => []TypeOK
<1>1. IInv => TypeOK
  BY DEF IInv
<1> QED
  BY <1>1, Invariance, PTL

\* Batches are numbered anew at launches while acknowledgements stay on disk;
\* still no assertion of the client fails, and no answer finds the pipeline
\* empty.
THEOREM NoAssertionEverFails == Spec => []NoAssertionFails
<1>1. IInv => NoAssertionFails
  BY DEF IInv
<1> QED
  BY <1>1, Invariance, PTL

\* Every write the app ever made is still to be sent, committed or refused.
THEOREM NoWriteLost == Spec => []NothingLost
<1>1. IInv => NothingLost
  BY DEF IInv
<1> QED
  BY <1>1, Invariance, PTL

\* An answer, which carries no name, is always that of the write it is taken
\* for.
THEOREM AnswersAlwaysMatch == Spec => []AnswersMatchPipeline
<1>1. IInv => AnswersMatchPipeline
  <2> SUFFICES ASSUME IInv, NEW i \in DOMAIN responses, responses[i] # Refused
               PROVE  /\ i \in DOMAIN pipeline
                      /\ log[responses[i]] = Entry(pipeline[i])
    BY DEF AnswersMatchPipeline
  <2>1. /\ DOMAIN responses = 1 .. Len(responses) /\ DOMAIN pipeline = 1 .. Len(pipeline)
        /\ Len(responses) \in Nat /\ Len(pipeline) \in Nat
    BY Types, LenProperties DEF IInv
  <2>2. Len(responses) <= Len(pipeline)
    BY DEF IInv, StreamSound
  <2>3. i \in DOMAIN pipeline
    BY <2>1, <2>2
  <2>4. Final(responses[i], pipeline[i])
    BY <2>1 DEF IInv, AnswersSound
  <2> QED
    BY <2>3, <2>4 DEF Final
<1> QED
  BY <1>1, Invariance, PTL

\* A write's places in the log have a last one.
LEMMA LastPlace ==
  ASSUME TypeOK, NEW w, Places(w) # {}
  PROVE  /\ Max(Places(w)) \in Places(w) /\ Max(Places(w)) \in Nat
         /\ \A p \in Places(w) : p <= Max(Places(w)) /\ p \in Nat
<1>1. Len(log) \in Nat /\ DOMAIN log = 1 .. Len(log)
  BY Types
<1>2. Places(w) \in SUBSET Int /\ \A p \in Places(w) : p \in Nat
  BY <1>1 DEF Places
<1>3. \A p \in Places(w) : p <= Len(log)
  BY <1>1 DEF Places
<1>4. Max(Places(w)) \in Places(w) /\ \A p \in Places(w) : p <= Max(Places(w))
  <2>1. PICK S : S = Places(w)
    OBVIOUS
  <2>2. S \in SUBSET Int /\ S # {} /\ Len(log) \in Int
    BY <1>1, <1>2, <2>1
  <2>3. \A p \in S : p <= Len(log)
    BY <1>3, <2>1
  <2>4. Max(S) \in S /\ \A p \in S : p <= Max(S)
    BY <2>2, <2>3, MaxElement
  <2> QED
    BY <2>1, <2>4
<1> QED
  BY <1>2, <1>4

\* A write that left the queue is in the cached document, or something newer
\* is, unless it was refused or given up at a restart, or is an update and
\* there is no document it could be in.
THEOREM WritesAlwaysVisible == Spec => []WritesStayVisible
<1>1. IInv => WritesStayVisible
  <2> SUFFICES ASSUME IInv, NEW w \in DOMAIN author, ~Queued(w), w \notin refused \cup dropped
               PROVE  \/ remoteDocs[author[w].key] >= Max(Places(w))
                      \/ author[w].kind = "update" /\ ~HasDocument(remoteDocs[author[w].key])
    BY DEF WritesStayVisible
  <2>1. TypeOK /\ w \in 1 .. Len(author)
    BY Types DEF IInv
  <2>2. Visible(w)
    BY <2>1 DEF IInv, LeftVisible
  <2>3. ~ToSend(w)
    BY DEF Queued, ToSend
  <2>4. Places(w) # {}
    BY <2>3 DEF IInv, NothingLost
  <2>5. PICK last : last = Max(Places(w))
    OBVIOUS
  <2>6. last \in Places(w) /\ last \in Nat
    BY <2>1, <2>4, <2>5, LastPlace
  <2>7. remoteDocs[author[w].key] \in Nat
    <3>1. author[w] \in [key : Keys, kind : Kinds, user : Users]
      BY <2>1, Types, ElementOfSeq
    <3>2. author[w].key \in Keys
      BY <3>1
    <3> QED
      BY <2>1, <3>2, Types
  <2> QED
    BY <2>2, <2>5, <2>6, <2>7 DEF Visible
<1> QED
  BY <1>1, Invariance, PTL

\* Writes are sent again after every broken stream; still an earlier one never
\* ends up behind a later one that is acknowledged.
THEOREM LaterWriteAlwaysWins == Spec => []LaterWriteWins
<1>1. IInv => LaterWriteWins
  <2> SUFFICES ASSUME IInv, NEW v \in DOMAIN author, NEW w \in DOMAIN author,
                      v < w, author[v].key = author[w].key, author[v].user = author[w].user,
                      ~ToSend(w), w \notin refused, Places(v) # {}
               PROVE  Max(Places(v)) < Max(Places(w))
    BY DEF LaterWriteWins
  <2>1. TypeOK /\ v \in 1 .. Len(author) /\ w \in 1 .. Len(author)
    BY Types DEF IInv
  <2>2. \A p \in Places(v) : \E r \in Places(w) : p < r
    BY <2>1 DEF IInv, SettledFinal
  <2>3. PICK last : last = Max(Places(v))
    OBVIOUS
  <2>4. last \in Places(v) /\ last \in Nat
    BY <2>1, <2>3, LastPlace
  <2>5. PICK r \in Places(w) : last < r
    BY <2>2, <2>4
  <2>6. r <= Max(Places(w)) /\ r \in Nat /\ Max(Places(w)) \in Nat
    BY <2>1, <2>5, LastPlace
  <2>7. PICK top : top = Max(Places(w))
    OBVIOUS
  <2> QED
    BY <2>3, <2>4, <2>5, <2>6, <2>7
<1> QED
  BY <1>1, Invariance, PTL

=============================================================================

---------------------- MODULE FirestoreClientRefinement ----------------------
(***************************************************************************)
(* FirestoreClient implements Sync, for any number of documents, users,    *)
(* writes, faults and launches and any size of the pipeline.               *)
(***************************************************************************)
EXTENDS FirestoreClientProofs

-----------------------------------------------------------------------------
(* Queues as Sync sees them. *)

SyncWrites == [key : Keys, kind : Kinds, value : Writes, at : Nat]

AsWrite(b, at) == [key |-> b.key, kind |-> b.kind, value |-> b.write, at |-> at]

\* A queue of batches of which the first are known to be committed, and where.
Shown(q, known) ==
  [i \in DOMAIN q |-> AsWrite(q[i], IF i \in DOMAIN known THEN known[i] ELSE 0)]

\* What the client, or an answer under way, knows to be committed.
Known(results, answers) ==
  [i \in DOMAIN results |-> results[i].version]
    \o Selected(answers, {i \in DOMAIN answers : answers[i] # Refused})

\* The queue s with its n-th write known to be committed at v.
CommittedAt(s, n, v) == [s EXCEPT ![n].at = v]

\* Sync's queues.
Queues == [u \in Users |-> Queue(u)]

LEMMA ShownElements ==
  ASSUME NEW q \in Seq(Batches), NEW known \in Seq(Nat)
  PROVE  /\ Shown(q, known) \in Seq(SyncWrites)
         /\ Len(Shown(q, known)) = Len(q) /\ Len(q) \in Nat /\ Len(known) \in Nat
         /\ DOMAIN Shown(q, known) = 1 .. Len(q)
         /\ \A i \in 1 .. Len(q) :
              /\ i <= Len(known) => known[i] \in Nat /\ Shown(q, known)[i] = AsWrite(q[i], known[i])
              /\ i > Len(known) => Shown(q, known)[i] = AsWrite(q[i], 0)
<1>1. /\ DOMAIN q = 1 .. Len(q) /\ Len(q) \in Nat
      /\ DOMAIN known = 1 .. Len(known) /\ Len(known) \in Nat
  BY LenProperties
<1> DEFINE at(i) == IF i \in 1 .. Len(known) THEN known[i] ELSE 0
<1>2. Shown(q, known) = [i \in 1 .. Len(q) |-> AsWrite(q[i], at(i))]
  BY <1>1 DEF Shown
<1>3. ASSUME NEW i \in 1 .. Len(q)
      PROVE  at(i) \in Nat /\ AsWrite(q[i], at(i)) \in SyncWrites
  <2>1. at(i) \in Nat
    BY ElementOfSeq
  <2>2. q[i].key \in Keys /\ q[i].kind \in Kinds /\ q[i].write \in Writes
    BY ElementOfSeq, BatchFields
  <2> HIDE DEF at
  <2> QED
    BY <2>1, <2>2 DEF AsWrite, SyncWrites
<1>4. ASSUME NEW i \in 1 .. Len(q)
      PROVE  /\ i <= Len(known) => at(i) = known[i] /\ known[i] \in Nat
             /\ i > Len(known) => at(i) = 0
  BY <1>1, ElementOfSeq
<1> HIDE DEF at
<1>5. PICK s : s = Shown(q, known)
  OBVIOUS
<1>6. s \in [1 .. Len(q) -> SyncWrites] /\ \A i \in 1 .. Len(q) : s[i] = AsWrite(q[i], at(i))
  BY <1>2, <1>3, <1>5
<1>7. s \in Seq(SyncWrites) /\ Len(s) = Len(q) /\ DOMAIN s = 1 .. Len(q)
  BY <1>1, <1>6
<1> QED
  BY <1>1, <1>4, <1>5, <1>6, <1>7

\* All answers but a refusal, which is the last, tell of a commit.
LEMMA KnownElements ==
  ASSUME NEW results \in Seq(Results), NEW answers \in Seq(Nat \cup {Refused}), NEW a \in Nat,
         a <= Len(answers), \A i \in 1 .. Len(answers) : answers[i] # Refused <=> i <= a
  PROVE  /\ Known(results, answers) \in Seq(Nat)
         /\ Len(Known(results, answers)) = Len(results) + a /\ Len(results) \in Nat
         /\ \A i \in 1 .. Len(results) : Known(results, answers)[i] = results[i].version
         /\ \A i \in 1 .. a : Known(results, answers)[Len(results) + i] = answers[i]
<1>1. /\ Len(answers) \in Nat /\ DOMAIN answers = 1 .. Len(answers)
      /\ Len(results) \in Nat /\ DOMAIN results = 1 .. Len(results)
  BY LenProperties
<1>2. PICK d \in Nat : a + d = Len(answers)
  <2>1. Len(answers) - a \in Nat /\ a + (Len(answers) - a) = Len(answers)
    BY <1>1
  <2> QED
    BY <2>1
<1>3. PICK positions : positions = {i \in DOMAIN answers : answers[i] # Refused}
  OBVIOUS
<1>4. positions = {i \in 1 .. Len(answers) : i <= a \/ i > a + d}
  BY <1>1, <1>2, <1>3
<1>5. PICK t : t = Selected(answers, positions)
  OBVIOUS
<1>6. t \in Seq(Nat \cup {Refused}) /\ CutOut(t, answers, a, d)
  <2>1. PICK S : S = Nat \cup {Refused}
    OBVIOUS
  <2>2. answers \in Seq(S) /\ a + d <= Len(answers)
    BY <1>1, <1>2, <2>1
  <2>3. Selected(answers, positions) \in Seq(S) /\ CutOut(Selected(answers, positions), answers, a, d)
    BY <1>2, <1>4, <2>2, StretchLeftOut
  <2> QED
    BY <1>5, <2>1, <2>3
<1>7. Len(t) = a /\ \A i \in 1 .. a : t[i] = answers[i]
  <2>1. Len(t) = Len(answers) - d /\ \A i \in 1 .. Len(t) : t[i] = answers[IF i <= a THEN i ELSE i + d]
    BY <1>6 DEF CutOut
  <2>2. Len(t) = a
    BY <1>1, <1>2, <2>1
  <2>3. \A i \in 1 .. a : i <= a
    OBVIOUS
  <2> QED
    BY <2>1, <2>2, <2>3
<1>8. t \in Seq(Nat)
  <2>1. \A i \in 1 .. a : answers[i] \in Nat
    <3>1. \A i \in 1 .. a : i \in 1 .. Len(answers)
      BY <1>1
    <3> QED
      BY <3>1, ElementOfSeq
  <2>2. \A i \in 1 .. a : t[i] \in Nat
    BY <1>7, <2>1
  <2>3. t \in [1 .. a -> Nat]
    <3>1. t \in [1 .. a -> Nat \cup {Refused}]
      BY <1>6, <1>7, LenProperties
    <3> QED
      BY <2>2, <3>1
  <2> QED
    BY <2>3
<1>9. PICK s : s = [i \in 1 .. Len(results) |-> results[i].version]
  OBVIOUS
<1>10. s \in Seq(Nat) /\ Len(s) = Len(results)
  <2>1. \A i \in 1 .. Len(results) : results[i].version \in Nat
    BY ElementOfSeq, BatchFields
  <2> QED
    BY <1>1, <1>9, <2>1
<1>11. Known(results, answers) = s \o t
  BY <1>1, <1>3, <1>5, <1>9 DEF Known
<1>12. /\ s \o t \in Seq(Nat)
       /\ Len(s \o t) = Len(results) + a
       /\ \A i \in 1 .. Len(results) + a :
            (s \o t)[i] = IF i <= Len(results) THEN s[i] ELSE t[i - Len(results)]
  <2>1. /\ s \o t \in Seq(Nat)
        /\ Len(s \o t) = Len(s) + Len(t)
        /\ \A i \in 1 .. Len(s) + Len(t) :
             (s \o t)[i] = IF i <= Len(s) THEN s[i] ELSE t[i - Len(s)]
    <3>1. s \in Seq(Nat) /\ t \in Seq(Nat)
      BY <1>8, <1>10
    <3> QED
      BY <3>1, ConcatProperties, Zenon
  <2> QED
    BY <1>7, <1>10, <2>1
<1>13. \A i \in 1 .. Len(results) : (s \o t)[i] = results[i].version
  BY <1>1, <1>9, <1>12
<1>14. ASSUME NEW i \in 1 .. a
       PROVE  (s \o t)[Len(results) + i] = answers[i]
  <2>1. /\ Len(results) + i \in 1 .. Len(results) + a /\ ~(Len(results) + i <= Len(results))
        /\ (Len(results) + i) - Len(results) = i
    BY <1>1
  <2> QED
    BY <1>7, <1>12, <2>1
<1> QED
  BY <1>1, <1>11, <1>12, <1>13, <1>14

\* What of the queue is sent again is not known to be committed any more.
LEMMA UncommittedElements ==
  ASSUME NEW s \in Seq(SyncWrites)
  PROVE  /\ Contract!Uncommitted(s) \in Seq(SyncWrites)
         /\ Len(Contract!Uncommitted(s)) = Len(s)
         /\ \A i \in 1 .. Len(s) :
              Contract!Uncommitted(s)[i] =
                [key |-> s[i].key, kind |-> s[i].kind, value |-> s[i].value, at |-> 0]
<1>1. DOMAIN s = 1 .. Len(s) /\ Len(s) \in Nat
  BY LenProperties
<1>2. PICK t : t = Contract!Uncommitted(s)
  OBVIOUS
<1>3. t = [i \in 1 .. Len(s) |-> [s[i] EXCEPT !.at = 0]]
  BY <1>1, <1>2 DEF Contract!Uncommitted
<1>4. ASSUME NEW i \in 1 .. Len(s), NEW e, e = s[i]
      PROVE  /\ [e EXCEPT !.at = 0] = [key |-> e.key, kind |-> e.kind, value |-> e.value, at |-> 0]
             /\ [e EXCEPT !.at = 0] \in SyncWrites
  <2>1. e \in SyncWrites
    BY <1>4, ElementOfSeq
  <2> QED
    BY <2>1 DEF SyncWrites
<1>5. t \in [1 .. Len(s) -> SyncWrites]
  BY <1>3, <1>4
<1>6. t \in Seq(SyncWrites) /\ Len(t) = Len(s)
  BY <1>1, <1>5
<1>7. \A i \in 1 .. Len(s) : t[i] = [key |-> s[i].key, kind |-> s[i].kind, value |-> s[i].value, at |-> 0]
  BY <1>3, <1>4
<1> QED
  BY <1>2, <1>6, <1>7

\* A write is queued last, and nobody knows it to be committed.
LEMMA ShownAppended ==
  ASSUME NEW q \in Seq(Batches), NEW known \in Seq(Nat), NEW b \in Batches,
         Len(known) <= Len(q)
  PROVE  Shown(Append(q, b), known) = Append(Shown(q, known), AsWrite(b, 0))
<1>1. PICK r \in Seq(Batches) : /\ r = Append(q, b) /\ Len(r) = Len(q) + 1
                                /\ \A i \in 1 .. Len(q) : r[i] = q[i]
                                /\ r[Len(q) + 1] = b
  BY AppendElements
<1>2. PICK s : s = Shown(q, known)
  OBVIOUS
<1>3. PICK t : t = Shown(r, known)
  OBVIOUS
<1>4. /\ s \in Seq(SyncWrites) /\ Len(s) = Len(q) /\ Len(q) \in Nat /\ Len(known) \in Nat
      /\ \A i \in 1 .. Len(q) : /\ i <= Len(known) => s[i] = AsWrite(q[i], known[i])
                                /\ i > Len(known) => s[i] = AsWrite(q[i], 0)
  BY <1>2, ShownElements
<1>5. /\ t \in Seq(SyncWrites) /\ Len(t) = Len(q) + 1
      /\ \A i \in 1 .. Len(q) + 1 : /\ i <= Len(known) => t[i] = AsWrite(r[i], known[i])
                                    /\ i > Len(known) => t[i] = AsWrite(r[i], 0)
  BY <1>1, <1>3, ShownElements
<1>6. PICK e \in SyncWrites : e = AsWrite(b, 0)
  BY BatchFields DEF AsWrite, SyncWrites
<1>7. PICK x \in Seq(SyncWrites) : /\ x = Append(s, e) /\ Len(x) = Len(s) + 1
                                   /\ \A i \in 1 .. Len(s) : x[i] = s[i]
                                   /\ x[Len(s) + 1] = e
  <2>1. s \in Seq(SyncWrites)
    BY <1>4
  <2> QED
    BY <2>1, AppendElements
<1>8. ASSUME NEW i \in 1 .. Len(t)
      PROVE  t[i] = x[i]
  <2>1. CASE i \in 1 .. Len(q)
    <3>1. i \in 1 .. Len(q) + 1 /\ r[i] = q[i] /\ x[i] = s[i] /\ (i <= Len(known) \/ i > Len(known))
      BY <1>1, <1>4, <1>7, <2>1
    <3> QED
      BY <1>4, <1>5, <2>1, <3>1
  <2>2. CASE i = Len(q) + 1
    <3>1. i \in 1 .. Len(q) + 1 /\ i > Len(known) /\ r[i] = b /\ x[i] = e
      BY <1>1, <1>4, <1>7, <2>2
    <3> QED
      BY <1>5, <1>6, <3>1
  <2> QED
    BY <1>4, <1>5, <2>1, <2>2
<1>9. t = x
  BY <1>4, <1>5, <1>7, <1>8, SeqEqual
<1> QED
  BY <1>1, <1>2, <1>3, <1>6, <1>7, <1>9

\* What is told of a write leaves its other fields alone.
LEMMA AtReplaced ==
  ASSUME NEW e \in SyncWrites, NEW v
  PROVE  [e EXCEPT !.at = v] = [key |-> e.key, kind |-> e.kind, value |-> e.value, at |-> v]
BY DEF SyncWrites

\* The next answer tells of the first write not known to be committed.
LEMMA ShownCommitted ==
  ASSUME NEW q \in Seq(Batches), NEW known \in Seq(Nat), NEW more \in Seq(Nat), NEW v \in Nat,
         NEW n \in Nat, n = Len(known) + 1, n <= Len(q), Len(more) = n,
         \A i \in 1 .. Len(known) : more[i] = known[i], more[n] = v,
         NEW s, s = Shown(q, known)
  PROVE  Shown(q, more) = CommittedAt(s, n, v)
<1>1. PICK t : t = Shown(q, more)
  OBVIOUS
<1>2. /\ s \in Seq(SyncWrites) /\ Len(s) = Len(q) /\ Len(q) \in Nat /\ Len(known) \in Nat
      /\ DOMAIN s = 1 .. Len(q)
      /\ \A i \in 1 .. Len(q) : /\ i <= Len(known) => s[i] = AsWrite(q[i], known[i])
                                /\ i > Len(known) => s[i] = AsWrite(q[i], 0)
  BY ShownElements
<1>3. /\ t \in Seq(SyncWrites) /\ Len(t) = Len(q) /\ DOMAIN t = 1 .. Len(q)
      /\ \A i \in 1 .. Len(q) : /\ i <= Len(more) => t[i] = AsWrite(q[i], more[i])
                                /\ i > Len(more) => t[i] = AsWrite(q[i], 0)
  BY <1>1, ShownElements
<1>4. n \in 1 .. Len(q) /\ Len(more) = n /\ s[n] = AsWrite(q[n], 0) /\ t[n] = AsWrite(q[n], v)
  <2>1. n \in 1 .. Len(q) /\ n > Len(known) /\ n <= Len(more)
    BY <1>2
  <2>2. s[n] = AsWrite(q[n], 0)
    BY <1>2, <2>1
  <2>3. t[n] = AsWrite(q[n], v)
    BY <1>3, <2>1
  <2> QED
    BY <2>1, <2>2, <2>3
<1>5. [s[n] EXCEPT !.at = v] = t[n]
  <2>1. PICK b, e : b = q[n] /\ e = s[n]
    OBVIOUS
  <2>2. e = [key |-> b.key, kind |-> b.kind, value |-> b.write, at |-> 0]
    BY <1>4, <2>1 DEF AsWrite
  <2>3. [e EXCEPT !.at = v] = [key |-> b.key, kind |-> b.kind, value |-> b.write, at |-> v]
    <3>1. e \in SyncWrites
      BY <1>2, <1>4, <2>1, ElementOfSeq
    <3>2. [e EXCEPT !.at = v] = [key |-> e.key, kind |-> e.kind, value |-> e.value, at |-> v]
      BY <3>1, AtReplaced
    <3>3. e.key = b.key /\ e.kind = b.kind /\ e.value = b.write
      BY <2>2
    <3> QED
      BY <3>2, <3>3
  <2> QED
    BY <1>4, <2>1, <2>3 DEF AsWrite
<1>6. ASSUME NEW i \in 1 .. Len(q), i # n
      PROVE  t[i] = s[i]
  <2>1. CASE i <= Len(known)
    <3>1. i <= Len(more) /\ more[i] = known[i]
      BY <1>2, <2>1
    <3> QED
      BY <1>2, <1>3, <2>1, <3>1
  <2>2. CASE ~(i <= Len(known))
    <3>1. i > Len(known) /\ i > Len(more)
      BY <1>2, <1>6, <2>2
    <3> QED
      BY <1>2, <1>3, <3>1
  <2> QED
    BY <2>1, <2>2
<1>7. t = [s EXCEPT ![n] = t[n]]
  <2>1. t = [i \in 1 .. Len(q) |-> t[i]] /\ s = [i \in 1 .. Len(q) |-> s[i]]
    BY <1>2, <1>3, LenProperties
  <2> QED
    BY <1>4, <1>6, <2>1
<1>8. t = [s EXCEPT ![n] = [s[n] EXCEPT !.at = v]]
  BY <1>5, <1>7
<1> QED
  BY <1>1, <1>8 DEF CommittedAt

\* The first n writes of a queue and the others.
LEMMA QueueParts ==
  ASSUME NEW s \in Seq(SyncWrites), NEW n \in Nat, n <= Len(s)
  PROVE  /\ SubSeq(s, 1, n) \in Seq(SyncWrites)
         /\ Len(SubSeq(s, 1, n)) = n
         /\ \A i \in 1 .. n : SubSeq(s, 1, n)[i] = s[i]
         /\ SubSeq(s, n + 1, Len(s)) \in Seq(SyncWrites)
         /\ Len(SubSeq(s, n + 1, Len(s))) = Len(s) - n
         /\ \A i \in 1 .. Len(s) - n : SubSeq(s, n + 1, Len(s))[i] = s[i + n]
<1>1. Len(s) \in Nat
  BY LenProperties
<1>2. \A i \in 1 .. Len(s) : s[i] \in SyncWrites
  BY ElementOfSeq
<1>3. /\ SubSeq(s, 1, n) \in Seq(SyncWrites)
      /\ Len(SubSeq(s, 1, n)) = IF 1 <= n THEN n - 1 + 1 ELSE 0
      /\ \A i \in 1 .. n - 1 + 1 : SubSeq(s, 1, n)[i] = s[1 + i - 1]
  <2>1. \A i \in 1 .. n : s[i] \in SyncWrites
    BY <1>1, <1>2
  <2> QED
    BY <2>1, SubSeqProperties
<1>4. /\ SubSeq(s, n + 1, Len(s)) \in Seq(SyncWrites)
      /\ Len(SubSeq(s, n + 1, Len(s))) = IF n + 1 <= Len(s) THEN Len(s) - (n + 1) + 1 ELSE 0
      /\ \A i \in 1 .. Len(s) - (n + 1) + 1 : SubSeq(s, n + 1, Len(s))[i] = s[n + 1 + i - 1]
  <2>1. n + 1 \in Int /\ Len(s) \in Int /\ \A i \in n + 1 .. Len(s) : s[i] \in SyncWrites
    BY <1>1, <1>2
  <2> QED
    BY <2>1, SubSeqProperties
<1>5. \A i \in 1 .. n : SubSeq(s, 1, n)[i] = s[i]
  <2>1. n - 1 + 1 = n /\ \A i \in 1 .. n : 1 + i - 1 = i
    OBVIOUS
  <2> QED
    BY <1>3, <2>1
<1>6. \A i \in 1 .. Len(s) - n : SubSeq(s, n + 1, Len(s))[i] = s[i + n]
  <2>1. Len(s) - (n + 1) + 1 = Len(s) - n /\ \A i \in 1 .. Len(s) - n : n + 1 + i - 1 = i + n
    BY <1>1
  <2> QED
    BY <1>4, <2>1
<1>7. (IF 1 <= n THEN n - 1 + 1 ELSE 0) = n
  OBVIOUS
<1>8. (IF n + 1 <= Len(s) THEN Len(s) - (n + 1) + 1 ELSE 0) = Len(s) - n
  BY <1>1
<1> QED
  BY <1>3, <1>4, <1>5, <1>6, <1>7, <1>8

\* What is heard of leaves the queue in front.
LEMMA ShownHeard ==
  ASSUME NEW q \in Seq(Batches), NEW r \in Seq(Batches), NEW n \in Nat,
         NEW known \in Seq(Nat), NEW less \in Seq(Nat),
         n <= Len(known), n <= Len(q), CutOut(r, q, 0, n), CutOut(less, known, 0, n)
  PROVE  Shown(r, less) = SubSeq(Shown(q, known), n + 1, Len(Shown(q, known)))
<1>1. PICK s : s = Shown(q, known)
  OBVIOUS
<1>2. PICK t : t = Shown(r, less)
  OBVIOUS
<1>3. /\ s \in Seq(SyncWrites) /\ Len(s) = Len(q) /\ Len(q) \in Nat /\ Len(known) \in Nat
      /\ \A i \in 1 .. Len(q) : /\ i <= Len(known) => s[i] = AsWrite(q[i], known[i])
                                /\ i > Len(known) => s[i] = AsWrite(q[i], 0)
  BY <1>1, ShownElements
<1>4. /\ t \in Seq(SyncWrites) /\ Len(t) = Len(r)
      /\ \A i \in 1 .. Len(r) : /\ i <= Len(less) => t[i] = AsWrite(r[i], less[i])
                                /\ i > Len(less) => t[i] = AsWrite(r[i], 0)
  BY <1>2, ShownElements
<1>5. /\ Len(r) = Len(q) - n /\ Len(less) = Len(known) - n
      /\ \A i \in 1 .. Len(r) : r[i] = q[IF i <= 0 THEN i ELSE i + n]
      /\ \A i \in 1 .. Len(less) : less[i] = known[IF i <= 0 THEN i ELSE i + n]
  BY DEF CutOut
<1>6. PICK x \in Seq(SyncWrites) : /\ x = SubSeq(s, n + 1, Len(s)) /\ Len(x) = Len(q) - n
                                   /\ \A i \in 1 .. Len(q) - n : x[i] = s[i + n]
  <2>1. n <= Len(s) /\ s \in Seq(SyncWrites) /\ Len(s) = Len(q)
    BY <1>3
  <2>2. /\ SubSeq(s, n + 1, Len(s)) \in Seq(SyncWrites)
        /\ Len(SubSeq(s, n + 1, Len(s))) = Len(s) - n
        /\ \A i \in 1 .. Len(s) - n : SubSeq(s, n + 1, Len(s))[i] = s[i + n]
    BY <2>1, QueueParts
  <2> QED
    BY <2>1, <2>2
<1>7. ASSUME NEW i \in 1 .. Len(t)
      PROVE  t[i] = x[i]
  <2>1. /\ i + n \in 1 .. Len(q) /\ ~(i <= 0) /\ i \in 1 .. Len(r) /\ i \in 1 .. Len(q) - n
        /\ r[i] = q[i + n] /\ x[i] = s[i + n]
    <3>1. i \in 1 .. Len(r) /\ i \in 1 .. Len(q) - n /\ ~(i <= 0) /\ i + n \in 1 .. Len(q)
      <4>1. Len(t) = Len(q) - n /\ Len(t) = Len(r) /\ Len(q) \in Nat
        BY <1>3, <1>4, <1>5
      <4> QED
        BY <4>1
    <3>2. r[i] = q[IF i <= 0 THEN i ELSE i + n]
      BY <1>5, <3>1
    <3>3. x[i] = s[i + n]
      BY <1>6, <3>1
    <3> QED
      BY <3>1, <3>2, <3>3
  <2>2. CASE i <= Len(less)
    <3>1. i \in 1 .. Len(less) /\ i + n <= Len(known)
      BY <1>3, <1>5, <2>1, <2>2
    <3>2. less[i] = known[i + n]
      BY <1>5, <2>1, <3>1
    <3> QED
      BY <1>3, <1>4, <2>1, <2>2, <3>1, <3>2
  <2>3. CASE ~(i <= Len(less))
    <3>1. i > Len(less) /\ i + n > Len(known)
      BY <1>3, <1>5, <2>1, <2>3
    <3> QED
      BY <1>3, <1>4, <2>1, <3>1
  <2> QED
    BY <2>2, <2>3
<1>8. t = x
  BY <1>3, <1>4, <1>5, <1>6, <1>7, SeqEqual
<1> QED
  BY <1>1, <1>2, <1>6, <1>8

\* The same when nothing is known any more of what stays.
LEMMA ShownReopened ==
  ASSUME NEW q \in Seq(Batches), NEW r \in Seq(Batches), NEW n \in Nat, NEW known \in Seq(Nat),
         n <= Len(q), CutOut(r, q, 0, n)
  PROVE  Shown(r, <<>>) =
           Contract!Uncommitted(SubSeq(Shown(q, known), n + 1, Len(Shown(q, known))))
<1>1. PICK s : s = Shown(q, known)
  OBVIOUS
<1>2. PICK t : t = Shown(r, <<>>)
  OBVIOUS
<1>3. /\ s \in Seq(SyncWrites) /\ Len(s) = Len(q) /\ Len(q) \in Nat /\ Len(known) \in Nat
      /\ \A i \in 1 .. Len(q) : /\ i <= Len(known) => s[i] = AsWrite(q[i], known[i])
                                /\ i > Len(known) => s[i] = AsWrite(q[i], 0)
  BY <1>1, ShownElements
<1>4. /\ t \in Seq(SyncWrites) /\ Len(t) = Len(r)
      /\ \A i \in 1 .. Len(r) : t[i] = AsWrite(r[i], 0)
  <2>1. <<>> \in Seq(Nat) /\ Len(<<>>) = 0
    BY EmptyElements
  <2>2. /\ t \in Seq(SyncWrites) /\ Len(t) = Len(r)
        /\ \A i \in 1 .. Len(r) : i > Len(<<>>) => t[i] = AsWrite(r[i], 0)
    BY <1>2, <2>1, ShownElements
  <2>3. \A i \in 1 .. Len(r) : i > 0
    OBVIOUS
  <2> QED
    BY <2>1, <2>2, <2>3
<1>5. Len(r) = Len(q) - n /\ \A i \in 1 .. Len(r) : r[i] = q[IF i <= 0 THEN i ELSE i + n]
  BY DEF CutOut
<1>6. PICK x \in Seq(SyncWrites) : /\ x = SubSeq(s, n + 1, Len(s)) /\ Len(x) = Len(q) - n
                                   /\ \A i \in 1 .. Len(q) - n : x[i] = s[i + n]
  <2>1. n <= Len(s) /\ s \in Seq(SyncWrites) /\ Len(s) = Len(q)
    BY <1>3
  <2>2. /\ SubSeq(s, n + 1, Len(s)) \in Seq(SyncWrites)
        /\ Len(SubSeq(s, n + 1, Len(s))) = Len(s) - n
        /\ \A i \in 1 .. Len(s) - n : SubSeq(s, n + 1, Len(s))[i] = s[i + n]
    BY <2>1, QueueParts
  <2> QED
    BY <2>1, <2>2
<1>7. PICK y \in Seq(SyncWrites) :
         /\ y = Contract!Uncommitted(x) /\ Len(y) = Len(q) - n
         /\ \A i \in 1 .. Len(q) - n :
              y[i] = [key |-> x[i].key, kind |-> x[i].kind, value |-> x[i].value, at |-> 0]
  <2>1. /\ Contract!Uncommitted(x) \in Seq(SyncWrites) /\ Len(Contract!Uncommitted(x)) = Len(x)
        /\ \A i \in 1 .. Len(x) :
             Contract!Uncommitted(x)[i] = [key |-> x[i].key, kind |-> x[i].kind, value |-> x[i].value, at |-> 0]
    BY <1>6, UncommittedElements
  <2>2. Len(x) = Len(q) - n
    BY <1>6
  <2> QED
    BY <2>1, <2>2
<1>8. ASSUME NEW i \in 1 .. Len(t)
      PROVE  t[i] = y[i]
  <2>1. /\ i + n \in 1 .. Len(q) /\ ~(i <= 0) /\ i \in 1 .. Len(r) /\ i \in 1 .. Len(q) - n
        /\ r[i] = q[i + n] /\ x[i] = s[i + n]
    <3>1. i \in 1 .. Len(r) /\ i \in 1 .. Len(q) - n /\ ~(i <= 0) /\ i + n \in 1 .. Len(q)
      <4>1. Len(t) = Len(q) - n /\ Len(t) = Len(r) /\ Len(q) \in Nat
        BY <1>3, <1>4, <1>5
      <4> QED
        BY <4>1
    <3>2. r[i] = q[IF i <= 0 THEN i ELSE i + n]
      BY <1>5, <3>1
    <3>3. x[i] = s[i + n]
      BY <1>6, <3>1
    <3> QED
      BY <3>1, <3>2, <3>3
  <2>2. PICK b, at : b = q[i + n] /\ s[i + n] = AsWrite(b, at)
    <3>1. i + n <= Len(known) \/ i + n > Len(known)
      BY <1>3, <2>1
    <3> QED
      BY <1>3, <2>1, <3>1
  <2>3. x[i].key = b.key /\ x[i].kind = b.kind /\ x[i].value = b.write
    BY <2>1, <2>2 DEF AsWrite
  <2>4. y[i] = [key |-> b.key, kind |-> b.kind, value |-> b.write, at |-> 0]
    BY <1>7, <2>1, <2>3
  <2> QED
    BY <1>4, <2>1, <2>2, <2>4 DEF AsWrite
<1>9. t = y
  BY <1>3, <1>4, <1>5, <1>7, <1>8, SeqEqual
<1> QED
  BY <1>1, <1>2, <1>6, <1>7, <1>9

\* With the answers lost, what is held is known, and no more.
LEMMA ShownForgotten ==
  ASSUME NEW q \in Seq(Batches), NEW known \in Seq(Nat), NEW less \in Seq(Nat), NEW n \in Nat,
         Len(less) = n, n <= Len(known), Len(known) <= Len(q),
         \A i \in 1 .. n : less[i] = known[i]
  PROVE  Shown(q, less) =
           SubSeq(Shown(q, known), 1, n)
             \o Contract!Uncommitted(SubSeq(Shown(q, known), n + 1, Len(Shown(q, known))))
<1>1. PICK s : s = Shown(q, known)
  OBVIOUS
<1>2. PICK t : t = Shown(q, less)
  OBVIOUS
<1>3. /\ s \in Seq(SyncWrites) /\ Len(s) = Len(q) /\ Len(q) \in Nat /\ Len(known) \in Nat
      /\ \A i \in 1 .. Len(q) : /\ i <= Len(known) => s[i] = AsWrite(q[i], known[i])
                                /\ i > Len(known) => s[i] = AsWrite(q[i], 0)
  BY <1>1, ShownElements
<1>4. /\ t \in Seq(SyncWrites) /\ Len(t) = Len(q)
      /\ \A i \in 1 .. Len(q) : /\ i <= n => t[i] = AsWrite(q[i], less[i])
                                /\ i > n => t[i] = AsWrite(q[i], 0)
  BY <1>2, ShownElements
<1>5. PICK w \in Seq(SyncWrites) : /\ w = SubSeq(s, 1, n) /\ Len(w) = n
                                   /\ \A i \in 1 .. n : w[i] = s[i]
  <2>1. n <= Len(s) /\ s \in Seq(SyncWrites)
    BY <1>3
  <2>2. /\ SubSeq(s, 1, n) \in Seq(SyncWrites) /\ Len(SubSeq(s, 1, n)) = n
        /\ \A i \in 1 .. n : SubSeq(s, 1, n)[i] = s[i]
    BY <2>1, QueueParts
  <2> QED
    BY <2>2
<1>6. PICK x \in Seq(SyncWrites) : /\ x = SubSeq(s, n + 1, Len(s)) /\ Len(x) = Len(q) - n
                                   /\ \A i \in 1 .. Len(q) - n : x[i] = s[i + n]
  <2>1. n <= Len(s) /\ s \in Seq(SyncWrites) /\ Len(s) = Len(q)
    BY <1>3
  <2>2. /\ SubSeq(s, n + 1, Len(s)) \in Seq(SyncWrites)
        /\ Len(SubSeq(s, n + 1, Len(s))) = Len(s) - n
        /\ \A i \in 1 .. Len(s) - n : SubSeq(s, n + 1, Len(s))[i] = s[i + n]
    BY <2>1, QueueParts
  <2> QED
    BY <2>1, <2>2
<1>7. PICK y \in Seq(SyncWrites) :
         /\ y = Contract!Uncommitted(x) /\ Len(y) = Len(q) - n
         /\ \A i \in 1 .. Len(q) - n :
              y[i] = [key |-> x[i].key, kind |-> x[i].kind, value |-> x[i].value, at |-> 0]
  <2>1. /\ Contract!Uncommitted(x) \in Seq(SyncWrites) /\ Len(Contract!Uncommitted(x)) = Len(x)
        /\ \A i \in 1 .. Len(x) :
             Contract!Uncommitted(x)[i] = [key |-> x[i].key, kind |-> x[i].kind, value |-> x[i].value, at |-> 0]
    BY <1>6, UncommittedElements
  <2>2. Len(x) = Len(q) - n
    BY <1>6
  <2> QED
    BY <2>1, <2>2
<1>8. PICK z \in Seq(SyncWrites) :
         /\ z = w \o y /\ Len(z) = Len(q)
         /\ \A i \in 1 .. Len(q) : z[i] = IF i <= n THEN w[i] ELSE y[i - n]
  <2>1. /\ w \o y \in Seq(SyncWrites) /\ Len(w \o y) = Len(w) + Len(y)
        /\ \A i \in 1 .. Len(w) + Len(y) :
             (w \o y)[i] = IF i <= Len(w) THEN w[i] ELSE y[i - Len(w)]
    BY ConcatProperties
  <2>2. Len(w) = n /\ Len(w) + Len(y) = Len(q)
    BY <1>3, <1>5, <1>7
  <2> QED
    BY <2>1, <2>2
<1>9. ASSUME NEW i \in 1 .. Len(t)
      PROVE  t[i] = z[i]
  <2>1. i \in 1 .. Len(q)
    BY <1>4
  <2>2. CASE i <= n
    <3>1. i \in 1 .. n /\ i <= Len(known) /\ less[i] = known[i]
      BY <1>3, <2>1, <2>2
    <3>2. t[i] = s[i]
      BY <1>3, <1>4, <2>1, <2>2, <3>1
    <3>3. z[i] = w[i]
      BY <1>8, <2>1, <2>2
    <3> QED
      BY <1>5, <3>1, <3>2, <3>3
  <2>3. CASE ~(i <= n)
    <3>1. i - n \in 1 .. Len(q) - n /\ (i - n) + n = i /\ i > n
      BY <1>3, <2>1, <2>3
    <3>2. PICK b, at : b = q[i] /\ s[i] = AsWrite(b, at)
      <4>1. i <= Len(known) \/ i > Len(known)
        BY <1>3, <2>1
      <4> QED
        BY <1>3, <2>1, <4>1
    <3>3. x[i - n] = s[i] /\ z[i] = y[i - n]
      BY <1>6, <1>8, <2>1, <2>3, <3>1
    <3>4. x[i - n].key = b.key /\ x[i - n].kind = b.kind /\ x[i - n].value = b.write
      BY <3>2, <3>3 DEF AsWrite
    <3>5. y[i - n] = [key |-> b.key, kind |-> b.kind, value |-> b.write, at |-> 0]
      BY <1>7, <3>1, <3>4
    <3>6. t[i] = AsWrite(b, 0)
      BY <1>4, <2>1, <3>1, <3>2
    <3> QED
      BY <3>3, <3>5, <3>6 DEF AsWrite
  <2> QED
    BY <2>2, <2>3
<1>10. t = z
  BY <1>4, <1>8, <1>9, SeqEqual
<1> QED
  BY <1>1, <1>2, <1>5, <1>6, <1>7, <1>8, <1>10

\* The first write not known to be committed is taken out of the queue.
LEMMA ShownRejected ==
  ASSUME NEW q \in Seq(Batches), NEW r \in Seq(Batches), NEW known \in Seq(Nat),
         Len(known) + 1 <= Len(q), CutOut(r, q, Len(known), 1)
  PROVE  LET i == Len(known) + 1
             s == Shown(q, known)
         IN  Shown(r, known) = SubSeq(s, 1, i - 1) \o SubSeq(s, i + 1, Len(s))
<1>1. PICK s : s = Shown(q, known)
  OBVIOUS
<1>2. PICK t : t = Shown(r, known)
  OBVIOUS
<1>3. PICK n \in Nat : n = Len(known)
  BY LenProperties
<1>4. /\ s \in Seq(SyncWrites) /\ Len(s) = Len(q) /\ Len(q) \in Nat
      /\ \A i \in 1 .. Len(q) : /\ i <= n => s[i] = AsWrite(q[i], known[i])
                                /\ i > n => s[i] = AsWrite(q[i], 0)
  BY <1>1, <1>3, ShownElements
<1>5. /\ t \in Seq(SyncWrites) /\ Len(t) = Len(r)
      /\ \A i \in 1 .. Len(r) : /\ i <= n => t[i] = AsWrite(r[i], known[i])
                                /\ i > n => t[i] = AsWrite(r[i], 0)
  BY <1>2, <1>3, ShownElements
<1>6. /\ Len(r) = Len(q) - 1 /\ n + 1 <= Len(q)
      /\ \A i \in 1 .. Len(r) : r[i] = q[IF i <= n THEN i ELSE i + 1]
  BY <1>3 DEF CutOut
<1>7. PICK w \in Seq(SyncWrites) : /\ w = SubSeq(s, 1, n) /\ Len(w) = n
                                   /\ \A i \in 1 .. n : w[i] = s[i]
  <2>1. n <= Len(s) /\ s \in Seq(SyncWrites)
    BY <1>4, <1>6
  <2>2. /\ SubSeq(s, 1, n) \in Seq(SyncWrites) /\ Len(SubSeq(s, 1, n)) = n
        /\ \A i \in 1 .. n : SubSeq(s, 1, n)[i] = s[i]
    BY <2>1, QueueParts
  <2> QED
    BY <2>2
<1>8. PICK m \in Nat : m = n + 1
  OBVIOUS
<1>9. PICK x \in Seq(SyncWrites) : /\ x = SubSeq(s, m + 1, Len(s)) /\ Len(x) = Len(q) - m
                                   /\ \A i \in 1 .. Len(q) - m : x[i] = s[i + m]
  <2>1. m <= Len(s) /\ s \in Seq(SyncWrites) /\ Len(s) = Len(q)
    BY <1>4, <1>6, <1>8
  <2>2. /\ SubSeq(s, m + 1, Len(s)) \in Seq(SyncWrites)
        /\ Len(SubSeq(s, m + 1, Len(s))) = Len(s) - m
        /\ \A i \in 1 .. Len(s) - m : SubSeq(s, m + 1, Len(s))[i] = s[i + m]
    BY <2>1, QueueParts
  <2> QED
    BY <2>1, <2>2
<1>10. PICK z \in Seq(SyncWrites) :
         /\ z = w \o x /\ Len(z) = Len(q) - 1
         /\ \A i \in 1 .. Len(q) - 1 : z[i] = IF i <= n THEN w[i] ELSE x[i - n]
  <2>1. /\ w \o x \in Seq(SyncWrites) /\ Len(w \o x) = Len(w) + Len(x)
        /\ \A i \in 1 .. Len(w) + Len(x) :
             (w \o x)[i] = IF i <= Len(w) THEN w[i] ELSE x[i - Len(w)]
    BY ConcatProperties
  <2>2. Len(w) = n /\ Len(w) + Len(x) = Len(q) - 1
    <3>1. Len(q) \in Nat /\ Len(w) = n /\ m = n + 1 /\ Len(x) = Len(q) - m
      BY <1>4, <1>7, <1>8, <1>9
    <3> QED
      BY <3>1
  <2> QED
    BY <2>1, <2>2
<1>11. ASSUME NEW i \in 1 .. Len(t)
       PROVE  t[i] = z[i]
  <2>1. i \in 1 .. Len(q) - 1 /\ i \in 1 .. Len(q) /\ i + 1 \in 1 .. Len(q) /\ i \in 1 .. Len(r)
    BY <1>4, <1>5, <1>6
  <2>2. CASE i <= n
    <3>1. i \in 1 .. n /\ r[i] = q[i]
      <4>1. r[i] = q[IF i <= n THEN i ELSE i + 1]
        BY <1>6, <2>1
      <4> QED
        BY <2>1, <2>2, <4>1
    <3>2. t[i] = s[i] /\ z[i] = w[i]
      BY <1>4, <1>5, <1>10, <2>1, <2>2, <3>1
    <3> QED
      BY <1>7, <3>1, <3>2
  <2>3. CASE ~(i <= n)
    <3>1. i - n \in 1 .. Len(q) - m /\ (i - n) + m = i + 1 /\ i > n /\ i + 1 > n /\ r[i] = q[i + 1]
      <4>1. r[i] = q[IF i <= n THEN i ELSE i + 1]
        BY <1>6, <2>1
      <4>2. i \in Nat /\ i <= Len(q) - 1 /\ Len(q) \in Nat /\ m = n + 1 /\ i > n
        BY <1>4, <1>8, <2>1, <2>3
      <4>3. i - n \in 1 .. Len(q) - m /\ (i - n) + m = i + 1 /\ i + 1 > n
        BY <4>2
      <4> QED
        BY <2>3, <4>1, <4>2, <4>3
    <3>2. x[i - n] = s[i + 1] /\ z[i] = x[i - n]
      BY <1>9, <1>10, <2>1, <2>3, <3>1
    <3> QED
      BY <1>4, <1>5, <2>1, <3>1, <3>2
  <2> QED
    BY <2>2, <2>3
<1>12. t = z
  <2>1. t \in Seq(SyncWrites) /\ Len(t) = Len(z)
    BY <1>5, <1>6, <1>10
  <2> QED
    BY <1>11, <2>1, SeqEqual
<1>13. (n + 1) - 1 = n /\ (n + 1) + 1 = m + 1
  BY <1>8
<1> QED
  BY <1>1, <1>2, <1>3, <1>7, <1>9, <1>10, <1>12, <1>13

-----------------------------------------------------------------------------
(* The queues of a state. *)

\* The results held and the answers before a refusal tell of the first writes
\* of the open queue.
LEMMA OpenKnown ==
  ASSUME IInv
  PROVE  \E known \in Seq(Nat), a \in Nat :
           /\ known = Known(held, responses)
           /\ a <= Len(responses)
           /\ \A i \in 1 .. Len(responses) : responses[i] # Refused <=> i <= a
           /\ Len(known) = Len(held) + a
           /\ Len(known) <= Len(mutations[user])
           /\ \A i \in 1 .. Len(known) : known[i] # 0
           /\ \A i \in 1 .. Len(held) : known[i] = held[i].version
           /\ \A i \in 1 .. a : known[Len(held) + i] = responses[i]
<1>1. PICK h \in Nat, n \in Nat : h = Len(held) /\ n = Len(responses)
  BY Types DEF IInv
<1>2. /\ held \in Seq(Results) /\ responses \in Seq(Nat \cup {Refused})
      /\ Len(mutations[user]) \in Nat /\ Len(pipeline) \in Nat /\ Len(log) \in Nat
      /\ h + Len(pipeline) <= Len(mutations[user])
  BY <1>1, OpenQueueBatches, Types DEF IInv
<1>3. n <= Len(pipeline) /\ \A i \in 1 .. n : responses[i] = Refused => i = n
  BY <1>1 DEF IInv, StreamSound
<1>4. PICK a \in Nat : a <= n /\ \A i \in 1 .. n : responses[i] # Refused <=> i <= a
  <2>1. CASE \E i \in 1 .. n : responses[i] = Refused
    <3>1. n \in 1 .. n /\ responses[n] = Refused
      BY <1>3, <2>1
    <3>2. n - 1 \in Nat /\ n - 1 <= n
      BY <3>1
    <3>3. \A i \in 1 .. n : responses[i] # Refused <=> i <= n - 1
      <4>1. \A i \in 1 .. n : i = n \/ (i # n /\ i <= n - 1)
        OBVIOUS
      <4>2. ~(n <= n - 1)
        OBVIOUS
      <4> QED
        BY <1>3, <3>1, <4>1, <4>2
    <3> QED
      BY <3>2, <3>3
  <2>2. CASE \A i \in 1 .. n : responses[i] # Refused
    <3>1. n <= n /\ \A i \in 1 .. n : i <= n
      OBVIOUS
    <3> QED
      BY <2>2, <3>1
  <2> QED
    BY <2>1, <2>2
<1>5. PICK known \in Seq(Nat) :
         /\ known = Known(held, responses) /\ Len(known) = h + a
         /\ \A i \in 1 .. h : known[i] = held[i].version
         /\ \A i \in 1 .. a : known[h + i] = responses[i]
  <2>1. a <= Len(responses) /\ \A i \in 1 .. Len(responses) : responses[i] # Refused <=> i <= a
    BY <1>1, <1>4
  <2>2. /\ Known(held, responses) \in Seq(Nat)
        /\ Len(Known(held, responses)) = Len(held) + a
        /\ \A i \in 1 .. Len(held) : Known(held, responses)[i] = held[i].version
        /\ \A i \in 1 .. a : Known(held, responses)[Len(held) + i] = responses[i]
    BY <1>2, <2>1, KnownElements
  <2> QED
    BY <1>1, <2>2
<1>6. Len(known) <= Len(mutations[user])
  BY <1>2, <1>3, <1>4, <1>5
<1>7. ASSUME NEW i \in 1 .. Len(known)
      PROVE  known[i] # 0
  <2>1. CASE i \in 1 .. h
    <3>1. known[i] = held[i].version /\ held[i].version \in 1 .. Len(log)
      BY <1>1, <1>5, <2>1 DEF IInv, HeldFinal, Final
    <3> QED
      BY <1>2, <3>1
  <2>2. CASE i \notin 1 .. h
    <3>1. PICK j \in 1 .. a : i = h + j
      <4>1. i - h \in 1 .. a /\ i = h + (i - h)
        BY <1>5, <2>2
      <4> QED
        BY <4>1
    <3>2. j \in 1 .. n /\ responses[j] # Refused
      BY <1>4
    <3>3. responses[j] \in 1 .. Len(log)
      BY <1>1, <3>2 DEF IInv, AnswersSound, Final
    <3>4. responses[j] # 0
      BY <1>2, <3>3
    <3>5. known[h + j] = responses[j]
      BY <1>5
    <3> QED
      BY <3>1, <3>4, <3>5, Zenon
  <2> QED
    BY <2>1, <2>2
<1> QED
  BY <1>1, <1>4, <1>5, <1>6, <1>7

\* The open queue is shown with what is known of it, the others as they will
\* be opened.
LEMMA QueueShown ==
  ASSUME NEW u
  PROVE  /\ u = user => Queue(u) = Shown(mutations[u], Known(held, responses))
         /\ u # user => Queue(u) = Shown(After(mutations[u], Unknown, lastAcked[u]), <<>>)
  BY DEF Queue, Shown, Known, AsWrite

LEMMA QueueShownNext ==
  ASSUME NEW u
  PROVE  /\ u = user' => Queue(u)' = Shown(mutations'[u], Known(held', responses'))
         /\ u # user' => Queue(u)' = Shown(After(mutations'[u], Unknown, lastAcked'[u]), <<>>)
  BY DEF Queue, Shown, Known, AsWrite

\* The open queue as Sync sees it.
LEMMA OpenShown ==
  ASSUME IInv
  PROVE  /\ Queues[user] = Shown(mutations[user], Known(held, responses))
         /\ Queues[user] \in Seq(SyncWrites)
         /\ Len(Queues[user]) = Len(mutations[user])
         /\ DOMAIN Queues[user] = 1 .. Len(mutations[user])
         /\ Len(Known(held, responses)) <= Len(mutations[user])
         /\ \A i \in 1 .. Len(mutations[user]) :
              /\ Queues[user][i].key = mutations[user][i].key
              /\ Queues[user][i].kind = mutations[user][i].kind
              /\ Queues[user][i].value = mutations[user][i].write
              /\ Queues[user][i].at = 0 <=> i > Len(Known(held, responses))
              /\ i <= Len(Known(held, responses)) =>
                   Queues[user][i].at = Known(held, responses)[i]
<1>1. user \in Users /\ mutations[user] \in Seq(Batches) /\ Len(mutations[user]) \in Nat
  BY OpenQueueBatches
<1>2. PICK known \in Seq(Nat) : /\ known = Known(held, responses)
                                /\ Len(known) <= Len(mutations[user])
                                /\ \A i \in 1 .. Len(known) : known[i] # 0
  BY OpenKnown
<1>3. Queues[user] = Shown(mutations[user], known)
  <2>1. Queues[user] = Queue(user)
    BY <1>1 DEF Queues
  <2> QED
    BY <1>2, <2>1, QueueShown
<1>4. PICK s : s = Shown(mutations[user], known)
  OBVIOUS
<1>5. PICK q \in Seq(Batches) : q = mutations[user]
  BY <1>1
<1>6. /\ s \in Seq(SyncWrites) /\ Len(s) = Len(q) /\ Len(known) \in Nat
      /\ DOMAIN s = 1 .. Len(q)
      /\ \A i \in 1 .. Len(q) : /\ i <= Len(known) => s[i] = AsWrite(q[i], known[i])
                                /\ i > Len(known) => s[i] = AsWrite(q[i], 0)
  BY <1>4, <1>5, ShownElements
<1>7. ASSUME NEW i \in 1 .. Len(q)
      PROVE  /\ s[i].key = q[i].key /\ s[i].kind = q[i].kind /\ s[i].value = q[i].write
             /\ s[i].at = 0 <=> i > Len(known)
             /\ i <= Len(known) => s[i].at = known[i]
  <2>1. CASE i <= Len(known)
    <3>1. s[i] = AsWrite(q[i], known[i]) /\ i \in 1 .. Len(known) /\ ~(i > Len(known))
      BY <1>6, <2>1
    <3> QED
      BY <1>2, <3>1 DEF AsWrite
  <2>2. CASE ~(i <= Len(known))
    <3>1. i > Len(known)
      BY <1>6, <2>2
    <3> QED
      BY <1>6, <2>2, <3>1 DEF AsWrite
  <2> QED
    BY <2>1, <2>2
<1> QED
  BY <1>2, <1>3, <1>4, <1>5, <1>6, <1>7

\* A step that leaves the other queues alone changes one queue of Sync.
LEMMA OthersKept ==
  ASSUME IInv, user' = user, NEW s,
         \A u \in Users : u # user => mutations'[u] = mutations[u] /\ lastAcked'[u] = lastAcked[u],
         s = Shown(mutations'[user], Known(held', responses'))
  PROVE  Queues' = [Queues EXCEPT ![user] = s]
<1>1. user \in Users
  BY OpenQueueBatches
<1>2. Queues' = [u \in Users |-> Queue(u)']
  BY DEF Queues
<1>3. Queue(user)' = s
  BY QueueShownNext
<1>4. ASSUME NEW u \in Users, u # user
      PROVE  Queue(u)' = Queue(u)
  <2>1. /\ Queue(u) = Shown(After(mutations[u], Unknown, lastAcked[u]), <<>>)
        /\ Queue(u)' = Shown(After(mutations'[u], Unknown, lastAcked'[u]), <<>>)
    BY <1>4, QueueShown, QueueShownNext
  <2> QED
    BY <1>4, <2>1
<1>5. Queues = [u \in Users |-> Queue(u)]
  BY DEF Queues
<1> QED
  BY <1>1, <1>2, <1>3, <1>4, <1>5, Zenon

-----------------------------------------------------------------------------
(* One lemma per kind of step. *)

\* A write of the app comes last in its user's queue.
LEMMA WriteRefines ==
  ASSUME IInv, NEW k \in Keys, NEW kind \in Kinds, Write(k, kind)
  PROVE  Contract!Next
<1>1. PICK w : w = Len(author) + 1
  OBVIOUS
<1>2. PICK b : b = [id |-> nextBatchID, key |-> k, kind |-> kind, write |-> w]
  OBVIOUS
<1>3. /\ w \in DOMAIN limits.writes
      /\ mutations' = [mutations EXCEPT ![user] = Append(@, b)]
      /\ UNCHANGED <<log, responses, lastAcked, remoteDocs, user, held>>
  BY <1>1, <1>2 DEF Write
<1>4. w \in Writes /\ b \in Batches /\ b.key = k /\ b.kind = kind /\ b.write = w
  <2>1. w \in Writes
    BY <1>3 DEF IInv, TypeOK, Writes
  <2>2. nextBatchID \in Nat
    BY Types DEF IInv
  <2> QED
    BY <1>2, <2>1, <2>2 DEF Batches
<1>5. PICK q \in Seq(Batches) : q = mutations[user]
  BY OpenQueueBatches
<1>6. PICK known \in Seq(Nat) : known = Known(held, responses) /\ Len(known) <= Len(q)
  BY <1>5, OpenKnown
<1>7. Shown(Append(q, b), known) = Append(Shown(q, known), AsWrite(b, 0))
  BY <1>4, <1>6, ShownAppended
<1>8. user \in Users /\ mutations \in [Users -> Seq(Batches)]
  BY Types DEF IInv
<1>9. /\ mutations'[user] = Append(q, b) /\ user' = user
      /\ \A u \in Users : u # user => mutations'[u] = mutations[u] /\ lastAcked'[u] = lastAcked[u]
  BY <1>3, <1>5, <1>8
<1>10. PICK s : s = Append(Shown(q, known), AsWrite(b, 0))
  OBVIOUS
<1>11. s = Shown(mutations'[user], Known(held', responses'))
  BY <1>3, <1>6, <1>7, <1>9, <1>10
<1>12. Queues' = [Queues EXCEPT ![user] = s]
  BY <1>9, <1>11, OthersKept
<1>13. Queues[user] = Shown(q, known)
  BY <1>5, <1>6, OpenShown
<1>14. s = Append(Queues[user], [key |-> k, kind |-> kind, value |-> w, at |-> 0])
  BY <1>4, <1>10, <1>13 DEF AsWrite
<1>15. Queues' = [Queues EXCEPT ![user] =
                   Append(@, [key |-> k, kind |-> kind, value |-> w, at |-> 0])]
  BY <1>12, <1>14
<1>16. Contract!Write(k, kind, w)
  BY <1>3, <1>15 DEF Contract!Write, Queues
<1> QED
  BY <1>4, <1>16 DEF Contract!Next

\* The server commits the first write of the queue nobody knows to be
\* committed.
LEMMA ServerCommitRefines ==
  ASSUME IInv, ServerCommit
  PROVE  Contract!Next
<1>1. PICK v : v = Len(log) + 1
  OBVIOUS
<1>2. /\ Serving
      /\ Head(requests).kind = "update" => HasDocument(DocAt(Head(requests).key, Len(log)))
      /\ log' = Append(log, Entry(Head(requests)))
      /\ responses' = Append(responses, Len(log'))
      /\ mutations' = mutations /\ lastAcked' = lastAcked /\ remoteDocs' = remoteDocs
      /\ user' = user /\ held' = held
  BY DEF ServerCommit, disk, memory
<1>3. PICK q \in Seq(Batches), h \in Nat, n \in Nat :
         q = mutations[user] /\ h = Len(held) /\ n = Len(responses)
  BY OpenQueueBatches, Types DEF IInv
<1>4. /\ held \in Seq(Results) /\ responses \in Seq(Nat \cup {Refused})
      /\ Len(log) \in Nat /\ Len(q) \in Nat /\ user \in Users
      /\ log \in Seq([key : Keys, kind : Kinds, value : Writes \cup {Elsewhere}])
  BY <1>3, Types DEF IInv
<1>5. /\ \A i \in 1 .. n : responses[i] # Refused
      /\ n + 1 \in 1 .. Len(pipeline)
      /\ Head(requests) = pipeline[n + 1]
  BY <1>2, <1>3, NextRequest
<1>6. PICK next \in Nat : next = h + (n + 1)
  OBVIOUS
<1>7. /\ next \in 1 .. Len(q) /\ Head(requests) = q[next] /\ q[next] \in Batches
  BY <1>3, <1>5, <1>6, InPipeline
<1>8. v \in Nat /\ Len(log') = v
  <2>1. Entry(q[next]) \in [key : Keys, kind : Kinds, value : Writes \cup {Elsewhere}]
    BY <1>7, BatchFields DEF Entry
  <2> QED
    BY <1>1, <1>2, <1>4, <1>7, <2>1, AppendElements
<1>9. PICK known \in Seq(Nat), a \in Nat :
         /\ known = Known(held, responses) /\ a <= n
         /\ \A i \in 1 .. n : responses[i] # Refused <=> i <= a
         /\ Len(known) = h + a
         /\ \A i \in 1 .. h : known[i] = held[i].version
         /\ \A i \in 1 .. a : known[h + i] = responses[i]
  BY <1>3, OpenKnown
<1>10. a = n
  <2>1. CASE n = 0
    BY <1>9, <2>1
  <2>2. CASE n # 0
    <3>1. n \in 1 .. n
      BY <2>2
    <3>2. n <= a
      BY <1>5, <1>9, <3>1
    <3>3. a <= n
      BY <1>9
    <3> QED
      BY <3>2, <3>3
  <2> QED
    BY <2>1, <2>2
<1>11. PICK answers \in Seq(Nat \cup {Refused}) :
          /\ answers = responses' /\ Len(answers) = n + 1
          /\ \A i \in 1 .. n : answers[i] = responses[i]
          /\ answers[n + 1] = v
  <2>1. responses' = Append(responses, v) /\ v \in Nat \cup {Refused}
    BY <1>2, <1>8
  <2>2. /\ Append(responses, v) \in Seq(Nat \cup {Refused})
        /\ Len(Append(responses, v)) = Len(responses) + 1
        /\ \A i \in 1 .. Len(responses) : Append(responses, v)[i] = responses[i]
        /\ Append(responses, v)[Len(responses) + 1] = v
    BY <1>4, <2>1, AppendElements
  <2> QED
    BY <1>3, <2>1, <2>2
<1>12. PICK more \in Seq(Nat) :
          /\ more = Known(held', responses') /\ Len(more) = h + (n + 1)
          /\ \A i \in 1 .. h : more[i] = held[i].version
          /\ \A i \in 1 .. n + 1 : more[h + i] = answers[i]
  <2>1. \A i \in 1 .. n + 1 : answers[i] # Refused <=> i <= n + 1
    <3>1. \A i \in 1 .. n + 1 : i \in 1 .. n \/ i = n + 1
      OBVIOUS
    <3>2. v # Refused
      BY <1>8 DEF Refused
    <3> QED
      BY <1>5, <1>11, <3>1, <3>2
  <2>2. n + 1 \in Nat /\ n + 1 <= Len(answers) /\ Len(answers) = n + 1
    BY <1>11
  <2>3. /\ Known(held, answers) \in Seq(Nat)
        /\ Len(Known(held, answers)) = Len(held) + (n + 1)
        /\ \A i \in 1 .. Len(held) : Known(held, answers)[i] = held[i].version
        /\ \A i \in 1 .. n + 1 : Known(held, answers)[Len(held) + i] = answers[i]
    BY <1>4, <2>1, <2>2, KnownElements
  <2> QED
    BY <1>2, <1>3, <1>11, <2>3
<1>13. \A i \in 1 .. Len(known) : more[i] = known[i]
  <2>1. ASSUME NEW i \in 1 .. Len(known)
        PROVE  more[i] = known[i]
    <3>1. CASE i \in 1 .. h
      BY <1>9, <1>12, <3>1
    <3>2. CASE i \notin 1 .. h
      <4>1. PICK j \in 1 .. n : i = h + j
        <5>1. i - h \in 1 .. n /\ i = h + (i - h)
          BY <1>9, <1>10, <3>2
        <5> QED
          BY <5>1
      <4>2. j \in 1 .. n + 1
        OBVIOUS
      <4> QED
        BY <1>9, <1>10, <1>11, <1>12, <4>1, <4>2
    <3> QED
      BY <3>1, <3>2
  <2> QED
    BY <2>1
<1>14. /\ Len(known) + 1 = next /\ Len(known) < Len(q) /\ Len(more) = Len(known) + 1
       /\ more[next] = v
  <2>1. n + 1 \in 1 .. n + 1
    OBVIOUS
  <2>2. more[h + (n + 1)] = v
    BY <1>11, <1>12, <2>1
  <2> QED
    BY <1>4, <1>6, <1>7, <1>9, <1>10, <1>12, <2>2
<1>15. PICK s : s = Queues[user]
  OBVIOUS
<1>16. /\ s = Shown(q, known) /\ DOMAIN s = 1 .. Len(q)
       /\ \A i \in 1 .. Len(q) : /\ s[i].key = q[i].key /\ s[i].kind = q[i].kind
                                 /\ s[i].value = q[i].write
                                 /\ s[i].at = 0 <=> i > Len(known)
  BY <1>3, <1>9, <1>15, OpenShown
<1>17. PICK t : t = Shown(q, more)
  OBVIOUS
<1>18. t = CommittedAt(s, next, v)
  <2>1. /\ q \in Seq(Batches) /\ known \in Seq(Nat) /\ more \in Seq(Nat)
        /\ v \in Nat /\ next \in Nat
        /\ next = Len(known) + 1 /\ next <= Len(q) /\ Len(more) = next
        /\ \A i \in 1 .. Len(known) : more[i] = known[i]
        /\ more[next] = v /\ s = Shown(q, known)
    BY <1>4, <1>7, <1>8, <1>13, <1>14, <1>16
  <2>2. Shown(q, more) = CommittedAt(s, next, v)
    BY <2>1, ShownCommitted
  <2> QED
    BY <1>17, <2>2
<1>19. Queues' = [Queues EXCEPT ![user] = t]
  <2>1. t = Shown(mutations'[user], Known(held', responses'))
    BY <1>2, <1>3, <1>12, <1>17
  <2>2. /\ user' = user
        /\ \A u \in Users : u # user => mutations'[u] = mutations[u] /\ lastAcked'[u] = lastAcked[u]
    BY <1>2
  <2> QED
    BY <2>1, <2>2, OthersKept
<1>20. Queues' = [Queues EXCEPT ![user][next].at = Len(log')]
  BY <1>8, <1>15, <1>18, <1>19 DEF CommittedAt
<1>21. log' = Append(log, [key |-> s[next].key, kind |-> s[next].kind, value |-> s[next].value])
  BY <1>2, <1>7, <1>16 DEF Entry
<1>22. \A j \in DOMAIN s : s[j].at = 0 <=> j >= next
  <2>1. \A j \in 1 .. Len(q) : j > Len(known) <=> j >= next
    BY <1>9, <1>14
  <2> QED
    BY <1>16, <2>1
<1>23. PICK k : k = s[next].key
  OBVIOUS
<1>24. ASSUME s[next].kind = "update"
       PROVE  \E p \in Contract!Positions(k) : /\ Contract!HasDocument(p)
                                                /\ \A r \in Contract!Positions(k) : r <= p
  <2>1. Head(requests).kind = "update" /\ Head(requests).key = k /\ k \in Keys
    BY <1>7, <1>16, <1>23, <1>24, BatchFields
  <2>2. PICK p : p = DocAt(k, Len(log))
    OBVIOUS
  <2>3. HasDocument(p)
    BY <1>2, <2>1, <2>2
  <2>4. /\ p \in Nat
        /\ p = 0 \/ (p \in 1 .. Len(log) /\ log[p].key = k)
        /\ \A r \in 1 .. Len(log) : r <= Len(log) /\ log[r].key = k => r <= p
    BY <1>4, <2>1, <2>2, DocAtIsLast DEF IInv
  <2>5. DOMAIN log = 1 .. Len(log)
    BY <1>4, LenProperties
  <2>6. p \in Contract!Positions(k)
    BY <2>4, <2>5 DEF Contract!Positions
  <2>7. Contract!HasDocument(p)
    BY <2>3 DEF HasDocument, Contract!HasDocument
  <2>8. ASSUME NEW r \in Contract!Positions(k)
        PROVE  r <= p
    <3>1. r = 0 \/ (r \in 1 .. Len(log) /\ log[r].key = k)
      BY <2>5 DEF Contract!Positions
    <3> QED
      BY <1>4, <2>4, <3>1
  <2> QED
    BY <2>6, <2>7, <2>8
<1>25. s[next].kind = "update" =>
         \E p \in Contract!Positions(s[next].key) :
            /\ Contract!HasDocument(p)
            /\ \A r \in Contract!Positions(s[next].key) : r <= p
  BY <1>23, <1>24
<1>26. Contract!Commit(next)
  BY <1>2, <1>15, <1>20, <1>21, <1>22, <1>25 DEF Contract!Commit, Queues
<1>27. next \in DOMAIN Queues[user]
  BY <1>7, <1>15, <1>16
<1> QED
  BY <1>26, <1>27 DEF Contract!Next, Queues

\* Without answers what is held is known, and no more.
LEMMA HeldKnown ==
  ASSUME IInv, NEW results \in Seq(Results)
  PROVE  /\ Known(results, <<>>) \in Seq(Nat)
         /\ Len(Known(results, <<>>)) = Len(results)
         /\ \A i \in 1 .. Len(results) : Known(results, <<>>)[i] = results[i].version
<1>1. <<>> \in Seq(Nat \cup {Refused}) /\ Len(<<>>) = 0 /\ Len(results) \in Nat
  BY EmptyElements, LenProperties
<1>2. PICK none \in Seq(Nat \cup {Refused}) : none = <<>> /\ Len(none) = 0
  BY <1>1
<1>3. 0 \in Nat /\ 0 <= Len(none) /\ \A i \in 1 .. Len(none) : none[i] # Refused <=> i <= 0
  BY <1>2
<1>4. /\ Known(results, none) \in Seq(Nat)
      /\ Len(Known(results, none)) = Len(results) + 0
      /\ \A i \in 1 .. Len(results) : Known(results, none)[i] = results[i].version
  BY <1>3, KnownElements
<1> QED
  BY <1>1, <1>2, <1>4

\* A broken stream makes the device forget what it was not told.
LEMMA AnswersLost ==
  ASSUME IInv, responses' = <<>>,
         UNCHANGED <<log, mutations, lastAcked, remoteDocs, user, held>>
  PROVE  Contract!Next
<1>1. PICK q \in Seq(Batches), h \in Nat : q = mutations[user] /\ h = Len(held) /\ Len(q) \in Nat
  BY OpenQueueBatches
<1>2. PICK known \in Seq(Nat), a \in Nat :
         /\ known = Known(held, responses) /\ Len(known) = h + a /\ Len(known) <= Len(q)
         /\ \A i \in 1 .. h : known[i] = held[i].version
  BY <1>1, OpenKnown
<1>3. PICK less \in Seq(Nat) :
         /\ less = Known(held', responses') /\ Len(less) = h
         /\ \A i \in 1 .. h : less[i] = held[i].version
  <2>1. held \in Seq(Results)
    BY Types DEF IInv
  <2>2. /\ Known(held, <<>>) \in Seq(Nat)
        /\ Len(Known(held, <<>>)) = Len(held)
        /\ \A i \in 1 .. Len(held) : Known(held, <<>>)[i] = held[i].version
    BY <2>1, HeldKnown
  <2> QED
    BY <1>1, <2>2
<1>4. PICK s : s = Queues[user]
  OBVIOUS
<1>5. s = Shown(q, known) /\ Len(s) = Len(q)
  BY <1>1, <1>2, <1>4, OpenShown
<1>6. Shown(q, less) = SubSeq(Shown(q, known), 1, h)
                         \o Contract!Uncommitted(SubSeq(Shown(q, known), h + 1, Len(Shown(q, known))))
  <2>1. Len(less) = h /\ h <= Len(known) /\ Len(known) <= Len(q)
    BY <1>2, <1>3
  <2>2. \A i \in 1 .. h : less[i] = known[i]
    BY <1>2, <1>3
  <2> QED
    BY <2>1, <2>2, ShownForgotten
<1>7. PICK t : t = Shown(q, less)
  OBVIOUS
<1>8. t = SubSeq(s, 1, h) \o Contract!Uncommitted(SubSeq(s, h + 1, Len(s)))
  BY <1>5, <1>6, <1>7
<1>9. Queues' = [Queues EXCEPT ![user] = t]
  <2>1. t = Shown(mutations'[user], Known(held', responses'))
    BY <1>1, <1>3, <1>7
  <2> QED
    BY <2>1, OthersKept
<1>10. Contract!Forget(h)
  <2>1. Queues' = [Queues EXCEPT ![user] =
                     SubSeq(@, 1, h) \o Contract!Uncommitted(SubSeq(@, h + 1, Len(@)))]
    BY <1>4, <1>8, <1>9
  <2> QED
    BY <2>1 DEF Contract!Forget, Queues
<1>11. h \in 0 .. Len(Queues[user])
  BY <1>1, <1>2, <1>4, <1>5
<1> QED
  BY <1>10, <1>11 DEF Contract!Next, Queues

\* A refusal takes the first write not committed out of the queue.
LEMMA ReceiveRefusalRefines ==
  ASSUME IInv, ReceiveRefusal
  PROVE  Contract!Next
<1>1. PICK q \in Seq(Batches), h \in Nat : q = mutations[user] /\ h = Len(held) /\ Len(q) \in Nat
  BY OpenQueueBatches
<1>2. /\ responses # <<>> /\ Head(responses) = Refused /\ responses' = <<>>
      /\ log' = log /\ remoteDocs' = remoteDocs /\ user' = user /\ held' = held
      /\ lastAcked' = lastAcked
  BY DEF ReceiveRefusal, memory
<1>3. QueueCut(user, h, 1, h, lastAcked[user])
  BY <1>1, ReceiveRefusalKeeps
<1>4. PICK r \in Seq(Batches) : r = mutations'[user]
  <2>1. user \in Users /\ mutations' \in [Users -> Seq(Batches)]
    BY <1>3, OpenQueueBatches DEF QueueCut
  <2> QED
    BY <2>1
<1>5. /\ CutOut(r, q, h, 1) /\ h + 1 <= Len(q)
      /\ \A u \in Users : u # user => mutations'[u] = mutations[u] /\ lastAcked'[u] = lastAcked[u]
  BY <1>1, <1>3, <1>4 DEF QueueCut
<1>6. PICK known \in Seq(Nat), a \in Nat :
         /\ known = Known(held, responses) /\ Len(known) = h + a
         /\ \A i \in 1 .. Len(responses) : responses[i] # Refused <=> i <= a
         /\ \A i \in 1 .. h : known[i] = held[i].version
  BY <1>1, OpenKnown
<1>7. a = 0 /\ Len(known) = h
  <2>1. responses \in Seq(Nat \cup {Refused})
    BY Types DEF IInv
  <2>2. responses[1] = Refused /\ 1 \in 1 .. Len(responses)
    <3>1. Len(responses) >= 1 /\ Head(responses) = responses[1] /\ Len(responses) \in Nat
      BY <1>2, <2>1, TailElements, LenProperties
    <3> QED
      BY <1>2, <3>1
  <2>3. ~(1 <= a)
    BY <1>6, <2>2
  <2> QED
    BY <1>6, <2>3
<1>8. known = Known(held', responses')
  <2>1. held \in Seq(Results)
    BY Types DEF IInv
  <2>2. PICK less \in Seq(Nat) :
           /\ less = Known(held, <<>>) /\ Len(less) = Len(held)
           /\ \A i \in 1 .. Len(held) : less[i] = held[i].version
    BY <2>1, HeldKnown
  <2>3. Len(known) = Len(less) /\ \A i \in 1 .. Len(known) : known[i] = less[i]
    BY <1>1, <1>6, <1>7, <2>2
  <2>4. known = less
    BY <2>3, SeqEqual
  <2> QED
    BY <1>2, <2>2, <2>4
<1>9. PICK i \in Nat : i = h + 1
  OBVIOUS
<1>10. PICK s : s = Queues[user]
  OBVIOUS
<1>11. /\ s = Shown(q, known) /\ DOMAIN s = 1 .. Len(q)
       /\ \A j \in 1 .. Len(q) : s[j].at = 0 <=> j > Len(known)
  BY <1>1, <1>6, <1>10, OpenShown
<1>12. Shown(r, known) = SubSeq(s, 1, i - 1) \o SubSeq(s, i + 1, Len(s))
  <2>1. Len(known) + 1 <= Len(q) /\ CutOut(r, q, Len(known), 1)
    BY <1>5, <1>7
  <2>2. Len(known) + 1 = i
    BY <1>7, <1>9
  <2>3. LET k == Len(known) + 1
            x == Shown(q, known)
        IN  Shown(r, known) = SubSeq(x, 1, k - 1) \o SubSeq(x, k + 1, Len(x))
    BY <2>1, ShownRejected
  <2> QED
    BY <1>11, <2>2, <2>3
<1>13. PICK t : t = Shown(r, known)
  OBVIOUS
<1>14. Queues' = [Queues EXCEPT ![user] = t]
  <2>1. t = Shown(mutations'[user], Known(held', responses'))
    BY <1>4, <1>8, <1>13
  <2> QED
    BY <1>2, <1>5, <2>1, OthersKept
<1>15. \A j \in DOMAIN s : s[j].at = 0 <=> j >= i
  <2>1. \A j \in 1 .. Len(q) : j > Len(known) <=> j >= i
    BY <1>7, <1>9
  <2> QED
    BY <1>11, <2>1
<1>16. Contract!Reject(i)
  <2>1. Queues' = [Queues EXCEPT ![user] = SubSeq(@, 1, i - 1) \o SubSeq(@, i + 1, Len(@))]
    BY <1>10, <1>12, <1>13, <1>14
  <2> QED
    BY <1>2, <1>10, <1>15, <2>1 DEF Contract!Reject, Queues
<1>17. i \in DOMAIN Queues[user]
  BY <1>1, <1>5, <1>9, <1>10, <1>11
<1> QED
  BY <1>16, <1>17 DEF Contract!Next, Queues

\* A refusal under way changes nothing Sync knows of.
LEMMA ServerRefuseRefines ==
  ASSUME IInv, ServerRefuse
  PROVE  UNCHANGED Contract!vars
<1>1. /\ Serving /\ responses' = Append(responses, Refused)
      /\ UNCHANGED <<log, mutations, lastAcked, remoteDocs, user, held>>
  BY DEF ServerRefuse, disk, memory
<1>2. /\ held \in Seq(Results) /\ responses \in Seq(Nat \cup {Refused}) /\ Len(responses) \in Nat
      /\ Len(held) \in Nat
  BY Types DEF IInv
<1>3. PICK known \in Seq(Nat), a \in Nat :
         /\ known = Known(held, responses) /\ a <= Len(responses)
         /\ \A i \in 1 .. Len(responses) : responses[i] # Refused <=> i <= a
         /\ Len(known) = Len(held) + a
         /\ \A i \in 1 .. Len(held) : known[i] = held[i].version
         /\ \A i \in 1 .. a : known[Len(held) + i] = responses[i]
  BY OpenKnown
<1>4. PICK answers \in Seq(Nat \cup {Refused}) :
         /\ answers = responses' /\ Len(answers) = Len(responses) + 1
         /\ \A i \in 1 .. Len(responses) : answers[i] = responses[i]
         /\ answers[Len(responses) + 1] = Refused
  <2>1. PICK S : S = Nat \cup {Refused}
    OBVIOUS
  <2>2. Refused \in S /\ responses \in Seq(S)
    BY <1>2, <2>1
  <2>3. PICK answers \in Seq(S) : /\ answers = Append(responses, Refused)
                                  /\ Len(answers) = Len(responses) + 1
                                  /\ \A i \in 1 .. Len(responses) : answers[i] = responses[i]
                                  /\ answers[Len(responses) + 1] = Refused
    BY <2>2, AppendElements
  <2> QED
    BY <1>1, <2>1, <2>3
<1>5. \A i \in 1 .. Len(answers) : answers[i] # Refused <=> i <= a
  <2>1. \A i \in 1 .. Len(answers) : i \in 1 .. Len(responses) \/ i = Len(responses) + 1
    BY <1>2, <1>4
  <2>2. ~(Len(responses) + 1 <= a)
    BY <1>2, <1>3
  <2> QED
    BY <1>3, <1>4, <2>1, <2>2
<1>6. PICK more \in Seq(Nat) :
         /\ more = Known(held', responses') /\ Len(more) = Len(held) + a
         /\ \A i \in 1 .. Len(held) : more[i] = held[i].version
         /\ \A i \in 1 .. a : more[Len(held) + i] = answers[i]
  <2>1. a <= Len(answers)
    BY <1>2, <1>3, <1>4
  <2>2. /\ Known(held, answers) \in Seq(Nat)
        /\ Len(Known(held, answers)) = Len(held) + a
        /\ \A i \in 1 .. Len(held) : Known(held, answers)[i] = held[i].version
        /\ \A i \in 1 .. a : Known(held, answers)[Len(held) + i] = answers[i]
    BY <1>2, <1>5, <2>1, KnownElements
  <2> QED
    BY <1>1, <1>4, <2>2
<1>7. more = known
  <2>1. ASSUME NEW i \in 1 .. Len(more)
        PROVE  more[i] = known[i]
    <3>1. CASE i \in 1 .. Len(held)
      BY <1>3, <1>6, <3>1
    <3>2. CASE i \notin 1 .. Len(held)
      <4>1. PICK j \in 1 .. a : i = Len(held) + j
        <5>1. i - Len(held) \in 1 .. a /\ i = Len(held) + (i - Len(held))
          BY <1>2, <1>6, <3>2
        <5> QED
          BY <5>1
      <4>2. j \in 1 .. Len(responses)
        BY <1>2, <1>3
      <4> QED
        BY <1>3, <1>4, <1>6, <4>1, <4>2
    <3> QED
      BY <3>1, <3>2
  <2>2. Len(more) = Len(known)
    BY <1>3, <1>6
  <2> QED
    BY <2>1, <2>2, SeqEqual
<1>8. Known(held', responses') = Known(held, responses)
  BY <1>3, <1>6, <1>7
<1>9. \A u \in Users : Queue(u)' = Queue(u)
  <2>1. ASSUME NEW u \in Users
        PROVE  Queue(u)' = Queue(u)
    BY <1>1, <1>8, QueueShown, QueueShownNext
  <2> QED
    BY <2>1
<1>10. Queues' = Queues
  BY <1>9 DEF Queues
<1> QED
  BY <1>1, <1>10 DEF Contract!vars, Queues

\* What the queues and answers are made of is left alone.
LEMMA QueuesKept ==
  ASSUME UNCHANGED <<mutations, lastAcked, user, held, responses>>
  PROVE  Queues' = Queues
  BY DEF Queues, Queue

LEMMA WriteElsewhereRefines ==
  ASSUME IInv, NEW k \in Keys, NEW kind \in Kinds, WriteElsewhere(k, kind)
  PROVE  Contract!Next
<1>1. /\ log' = Append(log, [key |-> k, kind |-> kind, value |-> Elsewhere])
      /\ UNCHANGED <<mutations, lastAcked, user, held, responses, remoteDocs>>
  BY DEF WriteElsewhere, disk, memory
<1>2. Queues' = Queues
  BY <1>1, QueuesKept
<1>3. Contract!WriteElsewhere(k, kind)
  BY <1>1, <1>2 DEF Contract!WriteElsewhere, Queues
<1> QED
  BY <1>3 DEF Contract!Next

\* What is released leaves the queue in front, and the cache has it.
LEMMA ReleaseRefines ==
  ASSUME IInv, IInv', NEW results \in Seq(Results), NEW n \in Nat, NEW docs \in [Keys -> Nat],
         NEW acked \in Nat \cup {Unknown}, ReleaseOfAcked(results, n, docs, acked),
         \A u \in Users : u # user => lastAcked'[u] = lastAcked[u],
         NEW answers \in Seq(Nat \cup {Refused}), answers = responses',
         NEW a \in Nat, a <= Len(answers), \A i \in 1 .. Len(answers) : answers[i] # Refused <=> i <= a,
         Known(results, answers) = Known(held, responses)
  PROVE  Contract!Next
<1>1. PICK q \in Seq(Batches) : q = mutations[user] /\ Len(q) \in Nat
  BY OpenQueueBatches
<1>2. /\ Releases(results, n, docs) /\ n <= Len(results) /\ Len(results) <= Len(q)
      /\ \A i \in 1 .. Len(results) : /\ results[i].batch = q[i]
                                      /\ Final(results[i].version, results[i].batch)
      /\ \A k \in Keys : remoteDocs[k] <= docs[k]
      /\ log' = log /\ user' = user
  BY <1>1 DEF ReleaseOfAcked, AckedUpTo
<1>3. PICK r \in Seq(Batches), left \in Seq(Results) : r = mutations'[user] /\ left = held'
  BY <1>2, OpenQueueBatches DEF Releases
<1>4. /\ CutOut(r, q, 0, n) /\ CutOut(left, results, 0, n)
      /\ \A u \in Users : u # user => mutations'[u] = mutations[u]
      /\ remoteDocs' \in [Keys -> Nat]
      /\ \A k \in Keys : docs[k] <= remoteDocs'[k]
      /\ \A i \in 1 .. n : Laid(results[i], remoteDocs')
  BY <1>1, <1>2, <1>3 DEF Releases
<1>5. Len(results) \in Nat /\ Len(left) \in Nat /\ Len(left) = Len(results) - n
  BY <1>4, LenProperties DEF CutOut
<1>6. PICK known \in Seq(Nat) :
         /\ known = Known(held, responses) /\ Len(known) = Len(results) + a
         /\ \A i \in 1 .. Len(results) : known[i] = results[i].version
         /\ \A i \in 1 .. a : known[Len(results) + i] = answers[i]
  BY KnownElements
<1>7. PICK less \in Seq(Nat) :
         /\ less = Known(held', responses') /\ Len(less) = Len(left) + a
         /\ \A i \in 1 .. Len(left) : less[i] = left[i].version
         /\ \A i \in 1 .. a : less[Len(left) + i] = answers[i]
  <2>1. /\ Known(left, answers) \in Seq(Nat)
        /\ Len(Known(left, answers)) = Len(left) + a
        /\ \A i \in 1 .. Len(left) : Known(left, answers)[i] = left[i].version
        /\ \A i \in 1 .. a : Known(left, answers)[Len(left) + i] = answers[i]
    BY KnownElements
  <2> QED
    BY <1>3, <2>1
<1>8. CutOut(less, known, 0, n)
  <2>1. Len(less) = Len(known) - n
    BY <1>5, <1>6, <1>7
  <2>2. ASSUME NEW i \in 1 .. Len(less)
        PROVE  less[i] = known[i + n]
    <3>1. CASE i \in 1 .. Len(left)
      <4>1. i + n \in 1 .. Len(results)
        BY <1>5, <3>1
      <4>2. left[i] = results[i + n]
        <5>1. left[i] = results[IF i <= 0 THEN i ELSE i + n]
          BY <1>4, <3>1 DEF CutOut
        <5>2. ~(i <= 0)
          OBVIOUS
        <5> QED
          BY <5>1, <5>2
      <4> QED
        BY <1>6, <1>7, <3>1, <4>1, <4>2
    <3>2. CASE i \notin 1 .. Len(left)
      <4>1. PICK j \in 1 .. a : i = Len(left) + j
        <5>1. i - Len(left) \in 1 .. a /\ i = Len(left) + (i - Len(left))
          BY <1>5, <1>7, <3>2
        <5> QED
          BY <5>1
      <4>2. i + n = Len(results) + j
        BY <1>5, <4>1
      <4> QED
        BY <1>6, <1>7, <4>1, <4>2
    <3> QED
      BY <3>1, <3>2
  <2>3. \A i \in 1 .. Len(less) : less[i] = known[IF i <= 0 THEN i ELSE i + n]
    <3>1. \A i \in 1 .. Len(less) : ~(i <= 0)
      OBVIOUS
    <3> QED
      BY <2>2, <3>1
  <2> QED
    BY <2>1, <2>3 DEF CutOut
<1>9. PICK s : s = Queues[user]
  OBVIOUS
<1>10. /\ s = Shown(q, known) /\ Len(s) = Len(q)
       /\ \A i \in 1 .. Len(q) : /\ s[i].key = q[i].key /\ s[i].kind = q[i].kind
                                 /\ s[i].at = 0 <=> i > Len(known)
                                 /\ i <= Len(known) => s[i].at = known[i]
  BY <1>1, <1>6, <1>9, OpenShown
<1>11. Shown(r, less) = SubSeq(s, n + 1, Len(s))
  <2>1. n <= Len(known) /\ n <= Len(q)
    BY <1>1, <1>2, <1>5, <1>6
  <2>2. Shown(r, less) = SubSeq(Shown(q, known), n + 1, Len(Shown(q, known)))
    BY <1>4, <1>8, <2>1, ShownHeard
  <2> QED
    BY <1>10, <2>2
<1>12. PICK t : t = Shown(r, less)
  OBVIOUS
<1>13. Queues' = [Queues EXCEPT ![user] = SubSeq(@, n + 1, Len(@))]
  <2>1. t = Shown(mutations'[user], Known(held', responses'))
    BY <1>3, <1>7, <1>12
  <2>2. Queues' = [Queues EXCEPT ![user] = t]
    BY <1>2, <1>4, <2>1, OthersKept
  <2> QED
    BY <1>9, <1>11, <1>12, <2>2
<1>14. \A i \in 1 .. n :
          /\ s[i].at # 0
          /\ \/ remoteDocs'[s[i].key] >= s[i].at
             \/ s[i].kind = "update" /\ ~Contract!HasDocument(remoteDocs'[s[i].key])
  <2>1. ASSUME NEW i \in 1 .. n
        PROVE  /\ s[i].at # 0
               /\ \/ remoteDocs'[s[i].key] >= s[i].at
                  \/ s[i].kind = "update" /\ ~Contract!HasDocument(remoteDocs'[s[i].key])
    <3>1. i \in 1 .. Len(results) /\ i \in 1 .. Len(q) /\ i <= Len(known) /\ ~(i > Len(known))
      <4>1. n <= Len(results) /\ n <= Len(q) /\ n <= Len(known)
        BY <1>1, <1>2, <1>5, <1>6
      <4>2. Len(results) \in Nat /\ Len(q) \in Nat /\ Len(known) \in Nat
        BY LenProperties
      <4> QED
        BY <4>1, <4>2
    <3>2. results[i].batch = q[i]
      BY <1>2, <3>1
    <3>3. PICK k, v, kind : k = results[i].batch.key /\ v = results[i].version
                            /\ kind = results[i].batch.kind
      OBVIOUS
    <3>4. s[i].at = v /\ s[i].at # 0 /\ s[i].key = k /\ s[i].kind = kind
      BY <1>6, <1>10, <3>1, <3>2, <3>3
    <3>5. k \in Keys /\ v \in Nat
      BY <3>1, <3>3, ElementOfSeq, BatchFields
    <3>6. PICK now : now = remoteDocs'[k]
      OBVIOUS
    <3>7. now \in Nat
      BY <1>4, <3>5, <3>6
    <3>8. \/ v <= now
          \/ kind = "update" /\ ~HasDocument(now)
      <4>1. Laid(results[i], remoteDocs')
        BY <1>4
      <4> QED
        BY <3>3, <3>6, <4>1 DEF Laid
    <3>9. ~HasDocument(now) => ~Contract!HasDocument(now)
      BY DEF HasDocument, Contract!HasDocument
    <3>10. \/ now >= v
           \/ kind = "update" /\ ~Contract!HasDocument(now)
      BY <3>5, <3>7, <3>8, <3>9
    <3> QED
      BY <3>4, <3>6, <3>10, Zenon
  <2> QED
    BY <2>1
<1>15. \A k \in Keys : remoteDocs'[k] >= remoteDocs[k] /\ remoteDocs'[k] \in Contract!Positions(k)
  <2>1. ASSUME NEW k \in Keys
        PROVE  remoteDocs'[k] >= remoteDocs[k] /\ remoteDocs'[k] \in Contract!Positions(k)
    <3>1. PICK old \in Nat, now \in Nat : old = remoteDocs[k] /\ now = remoteDocs'[k]
      BY <1>4, Types DEF IInv
    <3>2. now >= old
      <4>1. docs[k] \in Nat /\ old <= docs[k] /\ docs[k] <= now
        BY <1>2, <1>4, <3>1
      <4> QED
        BY <4>1
    <3>3. now = 0 \/ (now \in 1 .. Len(log) /\ log[now].key = k)
      BY <1>2, <3>1 DEF IInv, CacheSound
    <3>4. DOMAIN log = 1 .. Len(log)
      BY Types DEF IInv
    <3>5. now \in Contract!Positions(k)
      BY <3>3, <3>4 DEF Contract!Positions
    <3> QED
      BY <3>1, <3>2, <3>5
  <2> QED
    BY <2>1
<1>16. remoteDocs' = [k \in Keys |-> remoteDocs'[k]]
  BY <1>4
<1>17. Contract!Hear(n)
  BY <1>2, <1>9, <1>13, <1>14, <1>15, <1>16 DEF Contract!Hear, Queues
<1>18. n \in 0 .. Len(Queues[user])
  BY <1>1, <1>2, <1>5, <1>9, <1>10
<1> QED
  BY <1>17, <1>18 DEF Contract!Next, Queues

\* An answer is heard of at once or held.
LEMMA ReceiveResponseRefines ==
  ASSUME IInv, IInv', ReceiveResponse
  PROVE  Contract!Next
<1>1. PICK results \in Seq(Results), c \in Nat, acked \in Nat :
         /\ ReleaseOfAcked(results, c, remoteDocs, acked)
         /\ Len(results) = Len(held) + 1
         /\ \A i \in 1 .. Len(held) : results[i] = held[i]
         /\ results[Len(held) + 1].version = responses[1]
  BY ReceiveResponseKeeps
<1>2. PICK h \in Nat, n \in Nat : h = Len(held) /\ n = Len(responses)
  BY Types DEF IInv
<1>3. PICK known \in Seq(Nat), a \in Nat :
         /\ known = Known(held, responses) /\ a <= n
         /\ \A i \in 1 .. n : responses[i] # Refused <=> i <= a
         /\ Len(known) = h + a
         /\ \A i \in 1 .. h : known[i] = held[i].version
         /\ \A i \in 1 .. a : known[h + i] = responses[i]
  BY <1>2, OpenKnown
<1>4. responses # <<>> /\ Head(responses) # Refused /\ responses' = Tail(responses)
  BY DEF ReceiveResponse
<1>5. PICK answers \in Seq(Nat \cup {Refused}) :
         /\ answers = responses' /\ Len(answers) = n - 1 /\ n >= 1
         /\ responses[1] # Refused
         /\ \A i \in 1 .. n - 1 : answers[i] = responses[i + 1]
  <2>1. responses \in Seq(Nat \cup {Refused})
    BY Types DEF IInv
  <2>2. /\ Tail(responses) \in Seq(Nat \cup {Refused})
        /\ Len(Tail(responses)) = Len(responses) - 1 /\ Len(responses) >= 1
        /\ Head(responses) = responses[1]
        /\ \A i \in 1 .. Len(responses) - 1 : Tail(responses)[i] = responses[i + 1]
    BY <1>4, <2>1, TailElements
  <2>3. PICK answers \in Seq(Nat \cup {Refused}) : answers = Tail(responses)
    BY <2>2
  <2> QED
    BY <1>2, <1>4, <2>2, <2>3
<1>6. PICK b \in Nat : a = b + 1
  <2>1. 1 \in 1 .. n
    BY <1>5
  <2>2. 1 <= a
    BY <1>3, <1>5, <2>1
  <2>3. a - 1 \in Nat /\ a = (a - 1) + 1
    BY <2>2
  <2> QED
    BY <2>3
<1>7. b <= Len(answers) /\ \A i \in 1 .. Len(answers) : answers[i] # Refused <=> i <= b
  <2>1. ASSUME NEW i \in 1 .. Len(answers)
        PROVE  answers[i] # Refused <=> i <= b
    <3>1. i \in 1 .. n - 1 /\ i + 1 \in 1 .. n
      BY <1>5
    <3>2. responses[i + 1] # Refused <=> i + 1 <= a
      BY <1>3, <3>1
    <3> QED
      BY <1>5, <1>6, <3>1, <3>2
  <2>2. b <= Len(answers)
    <3>1. a <= n /\ Len(answers) = n - 1 /\ a = b + 1
      BY <1>3, <1>5, <1>6
    <3> QED
      BY <3>1
  <2> QED
    BY <2>1, <2>2
<1>8. PICK more \in Seq(Nat) :
         /\ more = Known(results, answers) /\ Len(more) = (h + 1) + b
         /\ \A i \in 1 .. h + 1 : more[i] = results[i].version
         /\ \A i \in 1 .. b : more[(h + 1) + i] = answers[i]
  <2>1. /\ Known(results, answers) \in Seq(Nat)
        /\ Len(Known(results, answers)) = Len(results) + b
        /\ \A i \in 1 .. Len(results) : Known(results, answers)[i] = results[i].version
        /\ \A i \in 1 .. b : Known(results, answers)[Len(results) + i] = answers[i]
    BY <1>7, KnownElements
  <2>2. Len(results) = h + 1
    BY <1>1, <1>2
  <2> QED
    BY <2>1, <2>2
<1>9. more = known
  <2>1. Len(more) = Len(known)
    BY <1>3, <1>6, <1>8
  <2>2. ASSUME NEW i \in 1 .. Len(more)
        PROVE  more[i] = known[i]
    <3>1. CASE i \in 1 .. h
      <4>1. i \in 1 .. h + 1 /\ results[i] = held[i]
        BY <1>1, <1>2, <3>1
      <4> QED
        BY <1>3, <1>8, <3>1, <4>1
    <3>2. CASE i = h + 1
      <4>1. more[h + 1] = results[h + 1].version /\ results[h + 1].version = responses[1]
        <5>1. h + 1 \in 1 .. h + 1
          OBVIOUS
        <5> QED
          BY <1>1, <1>2, <1>8, <5>1
      <4>2. 1 \in 1 .. a
        BY <1>6
      <4>3. known[h + 1] = responses[1]
        BY <1>3, <4>2
      <4> QED
        BY <3>2, <4>1, <4>3
    <3>3. CASE i > h + 1
      <4>1. PICK j \in 1 .. b : i = (h + 1) + j
        <5>1. i - (h + 1) \in 1 .. b /\ i = (h + 1) + (i - (h + 1))
          BY <1>8, <3>3
        <5> QED
          BY <5>1
      <4>2. more[i] = answers[j]
        BY <1>8, <4>1
      <4>3. j \in 1 .. n - 1 /\ j + 1 \in 1 .. a /\ i = h + (j + 1)
        <5>1. b <= n - 1 /\ a = b + 1
          BY <1>5, <1>6, <1>7
        <5> QED
          BY <4>1, <5>1
      <4>4. answers[j] = responses[j + 1] /\ known[h + (j + 1)] = responses[j + 1]
        BY <1>3, <1>5, <4>3
      <4> QED
        BY <4>2, <4>3, <4>4
    <3> QED
      BY <3>1, <3>2, <3>3
  <2> QED
    BY <2>1, <2>2, SeqEqual
<1>10. /\ remoteDocs \in [Keys -> Nat] /\ acked \in Nat \cup {Unknown}
       /\ \A u \in Users : u # user => lastAcked'[u] = lastAcked[u]
       /\ Known(results, answers) = Known(held, responses)
  BY <1>1, <1>3, <1>8, <1>9, Types DEF IInv, ReleaseOfAcked
<1> QED
  BY <1>1, <1>5, <1>7, <1>10, ReleaseRefines

\* Releasing some of what is held, with no answer received.
LEMMA HeldReleaseRefines ==
  ASSUME IInv, IInv', NEW n \in Nat, NEW docs \in [Keys -> Nat],
         ReleaseOfAcked(held, n, docs, lastAcked[user]),
         lastAcked' = lastAcked, responses' = responses
  PROVE  Contract!Next
<1>1. PICK results \in Seq(Results), acked \in Nat \cup {Unknown}, answers \in Seq(Nat \cup {Refused}) :
         results = held /\ acked = lastAcked[user] /\ answers = responses
  BY OpenQueueBatches, Types DEF IInv
<1>2. PICK a \in Nat : /\ a <= Len(answers)
                       /\ \A i \in 1 .. Len(answers) : answers[i] # Refused <=> i <= a
  BY <1>1, OpenKnown
<1>3. /\ ReleaseOfAcked(results, n, docs, acked) /\ answers = responses'
      /\ \A u \in Users : u # user => lastAcked'[u] = lastAcked[u]
      /\ Known(results, answers) = Known(held, responses)
  BY <1>1
<1> QED
  BY <1>2, <1>3, ReleaseRefines

LEMMA StopListeningRefines ==
  ASSUME IInv, IInv', StopListening
  PROVE  Contract!Next
<1>1. Release(held, Len(held), remoteDocs) /\ UNCHANGED <<log, user, author, lastAcked, responses>>
  BY DEF StopListening, history
<1>2. Len(held) \in Nat /\ Len(held) <= Len(held)
  BY OpenQueueBatches
<1>3. \A k \in Keys : remoteDocs[k] <= remoteDocs[k] /\ Newer(k, remoteDocs[k])
  BY CacheInLog DEF Newer
<1>4. ReleaseOfAcked(held, Len(held), remoteDocs, lastAcked[user])
  BY <1>1, <1>2, <1>3, CacheInLog, HeldReleases
<1> QED
  BY <1>1, <1>2, <1>4, CacheInLog, HeldReleaseRefines

LEMMA SnapshotRefines ==
  ASSUME IInv, IInv', NEW v \in 1 .. Len(log), Snapshot(v)
  PROVE  Contract!Next
<1>1. /\ Release(held, UpTo(held, v), WithSnapshot(v))
      /\ target # Off /\ v \in target .. Len(log) /\ v > lastRemote
      /\ UNCHANGED <<log, user, author, lastAcked, responses>>
  BY DEF Snapshot, history
<1>2. v \in Nat /\ target <= v /\ held \in Seq(Results)
  BY <1>1, Types DEF IInv
<1>3. PICK n \in Nat : n = UpTo(held, v) /\ n <= Len(held)
  BY <1>2, UpToBound
<1>4. PICK docs \in [Keys -> Nat] :
        /\ docs = WithSnapshot(v)
        /\ \A k \in Keys : remoteDocs[k] <= docs[k] /\ Newer(k, docs[k])
  BY <1>1, <1>2, SnapshotCache
<1>5. ReleaseOfAcked(held, n, docs, lastAcked[user])
  <2>1. Release(held, n, docs)
    BY <1>1, <1>3, <1>4
  <2> QED
    BY <1>1, <1>3, <1>4, <2>1, HeldReleases
<1> QED
  BY <1>1, <1>5, HeldReleaseRefines

\* What has been acknowledged of a closed queue will be cut out of it.
LEMMA ClosedQueue ==
  ASSUME NEW q \in Seq(Batches), NEW h \in Nat, NEW acked \in Nat \cup {Unknown},
         Ascending(q), AckedUpTo(q, h, acked)
  PROVE  After(q, Unknown, acked) \in Seq(Batches) /\ CutOut(After(q, Unknown, acked), q, 0, h)
<1>1. h <= Len(q) /\ Len(q) \in Nat
  BY LenProperties DEF AckedUpTo
<1>2. PICK none \in Seq(Batches), lastID \in {Unknown} :
         /\ none = <<>> /\ Len(none) = 0
         /\ lastID = IF none = <<>> THEN Unknown ELSE Last(none).id
  BY EmptyElements
<1>3. Follows(none, h, q)
  BY <1>1, <1>2 DEF Follows
<1>4. /\ After(q, lastID, acked) \in Seq(Batches)
      /\ CutOut(After(q, lastID, acked), q, 0, h + Len(none))
  BY <1>2, <1>3, AfterPipeline
<1>5. lastID = Unknown /\ h + Len(none) = h
  BY <1>2
<1> QED
  BY <1>4, <1>5

\* Opening a queue, the same or another user's, gives up what is acknowledged
\* and forgets what is on its way.
LEMMA OpenQueueRefines ==
  ASSUME IInv, NEW u \in Users, OpenQueue(u), responses' = <<>>,
         UNCHANGED <<log, remoteDocs>>
  PROVE  Contract!Next
<1>1. PICK g \in Nat, acked \in Nat \cup {Unknown} : QueueOpened(u, g, acked)
  BY OpenQueueCuts
<1>2. /\ CutOut(mutations'[u], mutations[u], 0, g)
      /\ AckedUpTo(mutations[u], g, lastAcked[u])
      /\ mutations' \in [Users -> Seq(Batches)]
      /\ \A x \in Users : x # u => mutations'[x] = mutations[x] /\ lastAcked'[x] = lastAcked[x]
      /\ user' = u /\ held' = <<>>
  BY <1>1 DEF QueueOpened, QueueCut
<1>3. PICK q \in Seq(Batches), h \in Nat, last \in Nat \cup {Unknown} :
         q = mutations[user] /\ h = Len(held) /\ last = lastAcked[user]
  BY OpenQueueBatches, Types DEF IInv
<1>4. user \in Users /\ Len(q) \in Nat /\ Ascending(q) /\ AckedUpTo(q, h, last) /\ h <= Len(q)
  BY <1>3, OpenQueueBatches DEF IInv, HeldSound
<1>5. PICK known \in Seq(Nat), a \in Nat :
         known = Known(held, responses) /\ Len(known) = h + a
  BY <1>3, OpenKnown
<1>6. PICK s : s = Queues[user]
  OBVIOUS
<1>7. /\ s = Shown(q, known) /\ Len(s) = Len(q)
      /\ \A i \in 1 .. Len(q) : s[i].at = 0 <=> i > Len(known)
  BY <1>3, <1>5, <1>6, OpenShown
<1>8. PICK t : t = Contract!Uncommitted(SubSeq(s, h + 1, Len(s)))
  OBVIOUS
<1>9. ASSUME NEW r \in Seq(Batches), CutOut(r, q, 0, h)
      PROVE  Shown(r, <<>>) = t
  <2>1. Shown(r, <<>>) = Contract!Uncommitted(SubSeq(Shown(q, known), h + 1, Len(Shown(q, known))))
    BY <1>4, <1>9, ShownReopened
  <2> QED
    BY <1>7, <1>8, <2>1
<1>10. Known(held', responses') = <<>>
  <2>1. PICK none \in Seq(Results) : none = <<>> /\ Len(none) = 0
    BY EmptyElements
  <2>2. Known(none, <<>>) \in Seq(Nat) /\ Len(Known(none, <<>>)) = 0
    BY <2>1, HeldKnown
  <2>3. Known(none, <<>>) = <<>>
    BY <2>2, EmptySeq
  <2> QED
    BY <1>2, <2>1, <2>3
<1>11. PICK me \in Users : me = user
  BY <1>4
<1>12. Queue(me)' = t
  <2>1. CASE u = user
    <3>1. PICK r \in Seq(Batches) : r = mutations'[user]
      BY <1>2, <1>4
    <3>2. g = h
      <4>1. PICK k \in Nat : k = g /\ AckedUpTo(q, k, last)
        BY <1>2, <1>3, <2>1
      <4>2. k <= Len(q) /\ \A i \in 1 .. Len(q) : i <= k <=> i <= h
        BY <1>4, <4>1 DEF AckedUpTo
      <4>3. k <= h
        <5>1. k = 0 \/ k \in 1 .. Len(q)
          BY <1>4, <4>2
        <5> QED
          BY <4>2, <5>1
      <4>4. h <= k
        <5>1. h = 0 \/ h \in 1 .. Len(q)
          BY <1>4
        <5> QED
          BY <4>2, <5>1
      <4> QED
        BY <4>1, <4>3, <4>4
    <3>3. CutOut(r, q, 0, h)
      BY <1>2, <1>3, <2>1, <3>1, <3>2
    <3>4. Queue(me)' = Shown(r, <<>>)
      BY <1>2, <1>10, <1>11, <2>1, <3>1, QueueShownNext
    <3> QED
      BY <1>9, <3>3, <3>4
  <2>2. CASE u # user
    <3>1. mutations'[user] = q /\ lastAcked'[user] = last
      BY <1>2, <1>3, <1>4, <2>2
    <3>2. Queue(me)' = Shown(After(mutations'[me], Unknown, lastAcked'[me]), <<>>)
      BY <1>2, <1>11, <2>2, QueueShownNext
    <3>3. Queue(me)' = Shown(After(q, Unknown, last), <<>>)
      BY <1>11, <3>1, <3>2
    <3>4. PICK r \in Seq(Batches) : r = After(q, Unknown, last) /\ CutOut(r, q, 0, h)
      BY <1>4, ClosedQueue
    <3> QED
      BY <1>9, <3>3, <3>4
  <2> QED
    BY <2>1, <2>2
<1>13. ASSUME NEW x \in Users, x # user
       PROVE  Queue(x)' = Queue(x)
  <2>1. Queue(x) = Shown(After(mutations[x], Unknown, lastAcked[x]), <<>>)
    BY <1>13, QueueShown
  <2>2. CASE x # u
    <3>1. Queue(x)' = Shown(After(mutations'[x], Unknown, lastAcked'[x]), <<>>)
      BY <1>2, <2>2, QueueShownNext
    <3> QED
      BY <1>2, <2>1, <2>2, <3>1
  <2>3. CASE x = u
    <3>1. PICK p \in Seq(Batches), r \in Seq(Batches), old \in Nat \cup {Unknown} :
             p = mutations[x] /\ r = mutations'[x] /\ old = lastAcked[x]
      BY <1>2, Types DEF IInv
    <3>2. Ascending(p) /\ AckedUpTo(p, g, old) /\ CutOut(r, p, 0, g)
      BY <1>2, <2>3, <3>1 DEF IInv, QueuesSound, QueueSound
    <3>3. PICK e \in Seq(Batches) : e = After(p, Unknown, old) /\ CutOut(e, p, 0, g)
      BY <3>2, ClosedQueue
    <3>4. r = e
      <4>1. Len(r) = Len(e) /\ \A i \in 1 .. Len(r) : r[i] = e[i]
        BY <3>2, <3>3 DEF CutOut
      <4> QED
        BY <4>1, SeqEqual
    <3>5. Queue(x)' = Shown(r, <<>>)
      BY <1>2, <1>10, <2>3, <3>1, QueueShownNext
    <3> QED
      BY <2>1, <3>1, <3>3, <3>4, <3>5
  <2> QED
    BY <2>2, <2>3
<1>14. Queues' = [Queues EXCEPT ![user] = t]
  <2>1. Queues' = [x \in Users |-> Queue(x)'] /\ Queues = [x \in Users |-> Queue(x)]
    BY DEF Queues
  <2>2. \A x \in Users : Queue(x)' = IF x = me THEN t ELSE Queue(x)
    BY <1>12, <1>13, <1>11
  <2>3. Queues' = [Queues EXCEPT ![me] = t]
    BY <2>1, <2>2
  <2> QED
    BY <1>11, <2>3, Zenon
<1>15. Queues' = [Queues EXCEPT ![user] = Contract!Uncommitted(SubSeq(@, h + 1, Len(@)))]
  BY <1>6, <1>8, <1>14
<1>16. \A i \in 1 .. h : s[i].at # 0
  <2>1. \A i \in 1 .. h : i \in 1 .. Len(q) /\ ~(i > Len(known))
    BY <1>4, <1>5
  <2> QED
    BY <1>7, <2>1
<1>17. Contract!Reopen(u, h)
  BY <1>2, <1>6, <1>15, <1>16 DEF Contract!Reopen, Queues
<1>18. h \in 0 .. Len(Queues[user])
  BY <1>4, <1>6, <1>7
<1> QED
  BY <1>17, <1>18 DEF Contract!Next, Queues

LEMMA CredentialChangeRefines ==
  ASSUME IInv, NEW u \in Users, CredentialChange(u)
  PROVE  Contract!Next
<1>1. responses' = <<>> /\ UNCHANGED <<log, remoteDocs>>
  BY DEF CredentialChange
<1>2. CASE u = user
  <2>1. UNCHANGED <<mutations, lastAcked, user, held>>
    BY <1>2 DEF CredentialChange
  <2> QED
    BY <1>1, <2>1, AnswersLost
<1>3. CASE u # user
  <2>1. OpenQueue(u)
    BY <1>3 DEF CredentialChange
  <2> QED
    BY <1>1, <2>1, OpenQueueRefines
<1> QED
  BY <1>2, <1>3

-----------------------------------------------------------------------------
(* The refinement. *)

\* At first nothing is written, queued or seen.
LEMMA InitRefines == Init => Contract!Init
<1> SUFFICES ASSUME Init
             PROVE  Contract!Init
  OBVIOUS
<1>1. /\ log = <<>> /\ user = FirstUser /\ held = <<>> /\ responses = <<>>
      /\ mutations = [u \in Users |-> <<>>] /\ lastAcked = [u \in Users |-> Unknown]
      /\ remoteDocs = [k \in Keys |-> 0]
  BY DEF Init
<1>2. ASSUME NEW u \in Users
      PROVE  Queue(u) = <<>>
  <2>1. mutations[u] = <<>> /\ lastAcked[u] = Unknown
    BY <1>1
  <2>2. PICK none \in Seq(Batches) : none = <<>> /\ Len(none) = 0
    BY EmptyElements
  <2>3. \A known : Shown(none, known) = <<>>
    <3>1. DOMAIN none = {}
      BY <2>2
    <3>2. \A known : Shown(none, known) = [i \in {} |-> AsWrite(none[i], IF i \in DOMAIN known THEN known[i] ELSE 0)]
      BY <3>1 DEF Shown
    <3>3. \A f : f = [i \in {} |-> f[i]] => f = <<>>
      OBVIOUS
    <3> QED
      BY <3>2
  <2>4. After(none, Unknown, Unknown) = none
    <3>1. Ascending(none) /\ AckedUpTo(none, 0, Unknown) /\ Unknown \in Nat \cup {Unknown}
      BY <2>2 DEF Ascending, AckedUpTo
    <3>2. PICK r \in Seq(Batches) : r = After(none, Unknown, Unknown) /\ CutOut(r, none, 0, 0)
      BY <3>1, ClosedQueue
    <3>3. Len(r) = Len(none)
      BY <2>2, <3>2 DEF CutOut
    <3> QED
      BY <2>2, <3>2, <3>3, EmptySeq
  <2>5. CASE u = user
    BY <2>1, <2>2, <2>3, <2>5, QueueShown
  <2>6. CASE u # user
    BY <2>1, <2>2, <2>3, <2>4, <2>6, QueueShown
  <2> QED
    BY <2>5, <2>6
<1>3. Queues = [u \in Users |-> <<>>]
  BY <1>2 DEF Queues
<1> QED
  BY <1>1, <1>3, FirestoreClientAssumption DEF Contract!Init, Queues

\* Every step of the client, of the server or of another device is a step of
\* Sync or cannot be told from none.
LEMMA NextRefines ==
  ASSUME IInv, IInv', [Next]_vars
  PROVE  [Contract!Next]_(Contract!vars)
<1>1. ASSUME NEW k \in Keys, NEW kind \in Kinds, Write(k, kind)
      PROVE  Contract!Next
  BY <1>1, WriteRefines
<1>2. CASE ReceiveResponse
  BY <1>2, ReceiveResponseRefines
<1>3. CASE ReceiveRefusal
  BY <1>3, ReceiveRefusalRefines
<1>4. CASE Interrupted
  <2>1. responses' = <<>> /\ UNCHANGED <<log, mutations, lastAcked, remoteDocs, user, held>>
    BY <1>4 DEF Interrupted, disk, memory
  <2> QED
    BY <2>1, AnswersLost
<1>5. CASE StopListening
  BY <1>5, StopListeningRefines
<1>6. ASSUME NEW v \in 1 .. Len(log), Snapshot(v)
      PROVE  Contract!Next
  BY <1>6, SnapshotRefines
<1>7. ASSUME NEW u \in Users, CredentialChange(u)
      PROVE  Contract!Next
  BY <1>7, CredentialChangeRefines
<1>8. CASE Relaunch
  <2>1. OpenQueue(user) /\ responses' = <<>> /\ UNCHANGED <<log, remoteDocs>> /\ user \in Users
    BY <1>8, OpenQueueBatches DEF Relaunch
  <2> QED
    BY <2>1, OpenQueueRefines
<1>9. CASE ServerCommit
  BY <1>9, ServerCommitRefines
<1>10. CASE ServerRefuse
  BY <1>10, ServerRefuseRefines
<1>11. ASSUME NEW k \in Keys, NEW kind \in Kinds, WriteElsewhere(k, kind)
       PROVE  Contract!Next
  BY <1>11, WriteElsewhereRefines
<1>12. CASE Handshake \/ IdleClose \/ Listen \/ UNCHANGED vars
  <2>1. UNCHANGED <<log, remoteDocs, mutations, lastAcked, user, held, responses>>
    BY <1>12 DEF Handshake, IdleClose, Listen, vars, disk, memory
  <2>2. Queues' = Queues
    BY <2>1, QueuesKept
  <2> QED
    BY <2>1, <2>2 DEF Contract!vars, Queues
<1> QED
  BY <1>1, <1>2, <1>3, <1>4, <1>5, <1>6, <1>7, <1>8, <1>9, <1>10, <1>11, <1>12 DEF Next

\* Batches and their numbers, acknowledgements held and released, broken
\* streams, refusals, users and launches together implement Sync: a user's
\* writes enter the log in his order, and one leaves the queue only when the
\* device's copy of the document is as new, unless it is refused or given up
\* when a queue is opened.
THEOREM SyncImplemented == Spec => ImplementsSync
<1>1. Init => Contract!Init
  BY InitRefines
<1>2. IInv /\ IInv' /\ [Next]_vars => [Contract!Next]_(Contract!vars)
  BY NextRefines
<1> QED
  BY <1>1, <1>2, Invariance, PTL DEF Spec, ImplementsSync, Contract!Spec

=============================================================================

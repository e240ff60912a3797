------------------------------ MODULE FeedProofs ------------------------------
(***************************************************************************)
(* The safety properties of Feed, for any number of feels, pages, pages of *)
(* trashcans and reactions.                                                *)
(***************************************************************************)
EXTENDS Feed, SequenceLemmas

-----------------------------------------------------------------------------
(* The inductive invariant. *)

\* What a call says of the documents that exist: some that did not exist do
\* now, one that did does no more, or it is about something else.
Tells(before, call, collection, after) ==
  \/ /\ call.collection = collection /\ call.type = "added"
     /\ call.ids \cap before = {}
     /\ after = before \cup call.ids
  \/ /\ call.collection = collection /\ call.type = "removed"
     /\ \E f \in before : call.ids = {f} /\ after = before \ {f}
  \/ /\ call.collection # collection \/ call.type = "modified"
     /\ after = before

\* The calls that wait lead from the documents told[0], those a page has been
\* told of, to the ones in Firestore's local view.
LeadsTo(told, queue, collection, docs) ==
  /\ told \in [0 .. Len(queue) -> SUBSET Feels]
  /\ told[Len(queue)] = Live(docs)
  /\ \A i \in 1 .. Len(queue) : Tells(told[i - 1], queue[i], collection, told[i])

\* f is in a list exactly once, or not at all.
OnceIf(isThere, f, list) ==
  /\ isThere <=> \E i \in DOMAIN list : list[i] = f
  /\ \A i, j \in DOMAIN list : list[i] = f /\ list[j] = f => i = j

OwnKept(docs) == \A f \in own : docs[f] # "gone"

\* A page has an entry for each feels it was told of: feels of others have
\* two and keep them, a removal takes one.  One's own are told apart as long
\* as none was removed.
Shows(list, known, docs) ==
  /\ Cardinality(known) <= Len(list)
  /\ own = Feels => Cardinality(known) = Len(list)
  /\ OwnKept(docs) => \A f \in own : OnceIf(f \in known, f, list)

\* A feels that was removed never comes back.
RemovedAreGone(queue, docs) ==
  \A i \in DOMAIN queue :
     (queue[i].collection = "feels" /\ queue[i].type = "removed")
        => \A f \in queue[i].ids : docs[f] = "gone"

FeelsSound(queue, list, docs) ==
  /\ RemovedAreGone(queue, docs)
  /\ \E told : LeadsTo(told, queue, "feels", docs) /\ Shows(list, told[0], docs)

ReactionsSound(queue, list, docs) ==
  \E told : LeadsTo(told, queue, "reactions", docs) /\ Cardinality(told[0]) = Len(list)

\* A page listens once, its arrays are parallel with one section open at
\* most, and the table lags behind until a reload that is queued.
TableSound(p) ==
  /\ p.listeners = 1
  /\ Len(p.feelsArray) = Len(p.reactNibOpen)
  /\ \A i, j \in OpenSections(p) : i = j
  /\ p.shown # Len(p.feelsArray) => p.reloading

PageSound(p, fdocs, rdocs) ==
  /\ p \in Pages
  /\ TableSound(p)
  /\ FeelsSound(p.queue, p.feelsArray, fdocs)
  /\ ReactionsSound(p.queue, p.reactionsArray, rdocs)

\* The page of a trashcan lists of the user's feels in it that exist those it
\* has been told of, and some that exist no more.
ListsOwn(c, docs, f) ==
  /\ \A i, j \in DOMAIN c.feelsArray : c.feelsArray[i] = f /\ c.feelsArray[j] = f => i = j
  /\ \A i, j \in DOMAIN c.queue :
        /\ c.queue[i].collection = "feels" /\ f \in c.queue[i].ids
        /\ c.queue[j].collection = "feels" /\ f \in c.queue[j].ids
        => i = j
  /\ \A i \in DOMAIN c.queue : c.queue[i].collection = "feels" /\ f \in c.queue[i].ids =>
        docs[f] # "none" /\ \A j \in DOMAIN c.feelsArray : c.feelsArray[j] # f
  /\ \A j \in DOMAIN c.feelsArray : c.feelsArray[j] = f => docs[f] # "none" /\ f \in own \cap c.trashcan
  /\ (docs[f] = "live" /\ f \in own \cap c.trashcan) =>
        \/ \E j \in DOMAIN c.feelsArray : c.feelsArray[j] = f
        \/ \E i \in DOMAIN c.queue : c.queue[i].collection = "feels" /\ f \in c.queue[i].ids

PagesSound == \A k \in DOMAIN pages : PageSound(pages[k], feelsDoc, reactsDoc)

\* A page that may come back does not register its listeners again.
AwayIsRegistered == screen \in {"away", "trashcan"} => ~Top.listenToFeels

\* Alone, the user removes feels and reactions together.
FeelsHaveReactions == setting.alone => Live(feelsDoc) \subseteq Live(reactsDoc)

OpenTrashcanSound ==
  screen = "trashcan" =>
     /\ contents # <<>>
     /\ \A f \in Feels : ListsOwn(contents[Len(contents)], feelsDoc, f)

IInv ==
  /\ TypeOK
  /\ own = setting.mine
  /\ PagesSound
  /\ AwayIsRegistered
  /\ NothingRemovedFromEmpty
  /\ FeelsHaveReactions
  /\ TrashcanRowsExist
  /\ OpenTrashcanSound

-----------------------------------------------------------------------------
(* Lemmas about sets of feels and the lists made of them. *)

LEMMA FeelsFinite ==
  ASSUME NEW S \in SUBSET Feels
  PROVE  IsFiniteSet(S) /\ Cardinality(S) \in Nat
<1>1. IsFiniteSet(Feels)
  BY FeedAssumption, FS_Interval DEF Feels
<1> QED
  BY <1>1, FS_Subset, FS_CardinalityType

\* A list that has at each place the element of that rank has each once.
LEMMA RankedList ==
  ASSUME NEW S \in SUBSET Feels, NEW rank \in [S -> 1 .. Cardinality(S)], NEW list,
         \A f, g \in S : rank[f] = rank[g] => f = g,
         DOMAIN list = 1 .. Cardinality(S),
         \A i \in 1 .. Cardinality(S) : list[i] \in S /\ rank[list[i]] = i
  PROVE  /\ \A i, j \in 1 .. Cardinality(S) : list[i] = list[j] => i = j
         /\ \A f \in S : \E i \in 1 .. Cardinality(S) : list[i] = f
<1>1. \A i, j \in 1 .. Cardinality(S) : list[i] = list[j] => i = j
  OBVIOUS
<1>2. ASSUME NEW f \in S
      PROVE  \E i \in 1 .. Cardinality(S) : list[i] = f
  <2>1. rank[f] \in 1 .. Cardinality(S)
    OBVIOUS
  <2>2. list[rank[f]] \in S /\ rank[list[rank[f]]] = rank[f]
    BY <2>1
  <2> QED
    BY <2>1, <2>2
<1> QED
  BY <1>1, <1>2

\* An injective rank gives every place to some element.
LEMMA RankTaken ==
  ASSUME NEW S \in SUBSET Feels, NEW rank \in [S -> 1 .. Cardinality(S)],
         \A f, g \in S : rank[f] = rank[g] => f = g
  PROVE  \A i \in 1 .. Cardinality(S) : \E f \in S : rank[f] = i
<1>1. IsFiniteSet(S) /\ Cardinality(S) \in Nat
  BY FeelsFinite
<1>2. IsFiniteSet(1 .. Cardinality(S)) /\ Cardinality(1 .. Cardinality(S)) = Cardinality(S)
  BY <1>1, FS_Interval
<1>3. rank \in Injection(S, 1 .. Cardinality(S))
  BY DEF Injection, IsInjective
<1>4. rank \in Surjection(S, 1 .. Cardinality(S))
  BY <1>2, <1>3, FS_Injection
<1> QED
  BY <1>4 DEF Surjection

\* The feels at least, or at most, as new as f in a set tell f from the others.
LEMMA NewestList ==
  ASSUME NEW S \in SUBSET Feels
  PROVE  /\ Newest(S) \in Seq(S)
         /\ Len(Newest(S)) = Cardinality(S)
         /\ \A i, j \in 1 .. Cardinality(S) : Newest(S)[i] = Newest(S)[j] => i = j
         /\ \A f \in S : \E i \in 1 .. Cardinality(S) : Newest(S)[i] = f
<1> DEFINE Above(f) == {g \in S : g >= f}
           rank == [f \in S |-> Cardinality(Above(f))]
<1>0. \A f \in S : f \in Int
  BY DEF Feels
<1>1. IsFiniteSet(S) /\ Cardinality(S) \in Nat /\ \A f \in S : f \in Int
  BY <1>0, FeelsFinite
<1>2. ASSUME NEW f \in S
      PROVE  IsFiniteSet(Above(f)) /\ Cardinality(Above(f)) \in 1 .. Cardinality(S)
  <2>1. Above(f) \in SUBSET S /\ f \in Above(f)
    BY <1>1
  <2>2. /\ IsFiniteSet(Above(f))
        /\ Cardinality(Above(f)) <= Cardinality(S)
        /\ Cardinality(Above(f)) \in Nat
    BY <1>1, <2>1, FS_Subset, FS_CardinalityType
  <2>3. Cardinality(Above(f)) # 0
    BY <2>1, <2>2, FS_EmptySet
  <2> QED
    BY <1>1, <2>2, <2>3
<1>3. ASSUME NEW f \in S, NEW g \in S, Cardinality(Above(f)) = Cardinality(Above(g)), f < g
      PROVE  FALSE
  <2>1. Above(g) \in SUBSET Above(f) /\ f \in Above(f) /\ f \notin Above(g)
    BY <1>1, <1>3
  <2>2. IsFiniteSet(Above(f))
    BY <1>2
  <2> HIDE DEF Above
  <2>3. Above(f) = Above(g)
    BY <1>3, <2>1, <2>2, FS_Subset
  <2> QED
    BY <2>1, <2>3
<1>4. ASSUME NEW f \in S, NEW g \in S, Cardinality(Above(f)) = Cardinality(Above(g))
      PROVE  f = g
  <2>1. f < g \/ g < f \/ f = g
    BY <1>1
  <2> HIDE DEF Above
  <2> QED
    BY <1>3, <1>4, <2>1
<1>5. /\ rank \in [S -> 1 .. Cardinality(S)]
      /\ \A f \in S : rank[f] = Cardinality(Above(f))
      /\ \A f, g \in S : rank[f] = rank[g] => f = g
  <2> HIDE DEF Above
  <2> QED
    BY <1>2, <1>4
<1>6. \A i \in 1 .. Cardinality(S) : \E f \in S : rank[f] = i
  <2> HIDE DEF rank
  <2> QED
    BY <1>5, RankTaken
<1>7. ASSUME NEW i \in 1 .. Cardinality(S)
      PROVE  Newest(S)[i] \in S /\ rank[Newest(S)[i]] = i
  <2>1. Newest(S)[i] = CHOOSE f \in S : Cardinality(Above(f)) = i
    BY DEF Newest
  <2>2. \E f \in S : Cardinality(Above(f)) = i
    BY <1>5, <1>6
  <2> HIDE DEF Above
  <2>3. Newest(S)[i] \in S /\ Cardinality(Above(Newest(S)[i])) = i
    BY <2>1, <2>2
  <2> QED
    BY <1>5, <2>3
<1>8. DOMAIN Newest(S) = 1 .. Cardinality(S) /\ Newest(S) \in [1 .. Cardinality(S) -> S]
  BY <1>7 DEF Newest
<1>9. Newest(S) \in Seq(S) /\ Len(Newest(S)) = Cardinality(S)
  BY <1>1, <1>8, SeqDef, LenProperties
<1> HIDE DEF rank
<1> QED
  BY <1>5, <1>7, <1>8, <1>9, RankedList

LEMMA OldestList ==
  ASSUME NEW S \in SUBSET Feels
  PROVE  /\ Oldest(S) \in Seq(S)
         /\ Len(Oldest(S)) = Cardinality(S)
<1> DEFINE Below(f) == {g \in S : g <= f}
           rank == [f \in S |-> Cardinality(Below(f))]
<1>0. \A f \in S : f \in Int
  BY DEF Feels
<1>1. IsFiniteSet(S) /\ Cardinality(S) \in Nat /\ \A f \in S : f \in Int
  BY <1>0, FeelsFinite
<1>2. ASSUME NEW f \in S
      PROVE  IsFiniteSet(Below(f)) /\ Cardinality(Below(f)) \in 1 .. Cardinality(S)
  <2>1. Below(f) \in SUBSET S /\ f \in Below(f)
    BY <1>1
  <2>2. /\ IsFiniteSet(Below(f))
        /\ Cardinality(Below(f)) <= Cardinality(S)
        /\ Cardinality(Below(f)) \in Nat
    BY <1>1, <2>1, FS_Subset, FS_CardinalityType
  <2>3. Cardinality(Below(f)) # 0
    BY <2>1, <2>2, FS_EmptySet
  <2> QED
    BY <1>1, <2>2, <2>3
<1>3. ASSUME NEW f \in S, NEW g \in S, Cardinality(Below(f)) = Cardinality(Below(g)), f < g
      PROVE  FALSE
  <2>1. Below(f) \in SUBSET Below(g) /\ g \in Below(g) /\ g \notin Below(f)
    BY <1>1, <1>3
  <2>2. IsFiniteSet(Below(g))
    BY <1>2
  <2> HIDE DEF Below
  <2>3. Below(f) = Below(g)
    BY <1>3, <2>1, <2>2, FS_Subset
  <2> QED
    BY <2>1, <2>3
<1>4. ASSUME NEW f \in S, NEW g \in S, Cardinality(Below(f)) = Cardinality(Below(g))
      PROVE  f = g
  <2>1. f < g \/ g < f \/ f = g
    BY <1>1
  <2> HIDE DEF Below
  <2> QED
    BY <1>3, <1>4, <2>1
<1>5. /\ rank \in [S -> 1 .. Cardinality(S)]
      /\ \A f \in S : rank[f] = Cardinality(Below(f))
      /\ \A f, g \in S : rank[f] = rank[g] => f = g
  <2> HIDE DEF Below
  <2> QED
    BY <1>2, <1>4
<1>6. \A i \in 1 .. Cardinality(S) : \E f \in S : rank[f] = i
  <2> HIDE DEF rank
  <2> QED
    BY <1>5, RankTaken
<1>7. ASSUME NEW i \in 1 .. Cardinality(S)
      PROVE  Oldest(S)[i] \in S
  <2>1. Oldest(S)[i] = CHOOSE f \in S : Cardinality(Below(f)) = i
    BY DEF Oldest
  <2>2. \E f \in S : Cardinality(Below(f)) = i
    BY <1>5, <1>6
  <2> HIDE DEF Below
  <2> QED
    BY <2>1, <2>2
<1>8. DOMAIN Oldest(S) = 1 .. Cardinality(S) /\ Oldest(S) \in [1 .. Cardinality(S) -> S]
  BY <1>7 DEF Oldest
<1> QED
  BY <1>1, <1>8, SeqDef, LenProperties

\* Flags that are all closed.
LEMMA ClosedFlags ==
  ASSUME NEW n \in Nat
  PROVE  /\ Closed(n) \in Seq(BOOLEAN)
         /\ Len(Closed(n)) = n
         /\ \A i \in 1 .. n : ~Closed(n)[i]
<1>1. Closed(n) \in [1 .. n -> BOOLEAN] /\ \A i \in 1 .. n : ~Closed(n)[i]
  BY DEF Closed
<1> QED
  BY <1>1, SeqDef, LenProperties

\* A place in one of three lists put together.
LEMMA ThreePlaces ==
  ASSUME NEW a \in Nat, NEW b \in Nat, NEW c \in Nat, NEW i \in 1 .. a + b + c
  PROVE  \/ i \in 1 .. a
         \/ \E j \in 1 .. b : i = a + j
         \/ \E j \in 1 .. c : i = a + b + j
<1>1. CASE i <= a
  BY <1>1
<1>2. CASE i > a /\ i <= a + b
  <2>1. i - a \in 1 .. b /\ i = a + (i - a)
    BY <1>2
  <2> QED
    BY <2>1
<1>3. CASE i > a + b
  <2>1. i - (a + b) \in 1 .. c /\ i = a + b + (i - (a + b))
    BY <1>3
  <2> QED
    BY <2>1
<1> QED
  BY <1>1, <1>2, <1>3

\* Three lists put together.
LEMMA ThreeParts ==
  ASSUME NEW S, NEW a \in Seq(S), NEW b \in Seq(S), NEW c \in Seq(S)
  PROVE  /\ a \o b \o c \in Seq(S)
         /\ Len(a \o b \o c) = Len(a) + Len(b) + Len(c)
         /\ \A i \in 1 .. Len(a) : (a \o b \o c)[i] = a[i]
         /\ \A i \in 1 .. Len(b) : (a \o b \o c)[Len(a) + i] = b[i]
         /\ \A i \in 1 .. Len(c) : (a \o b \o c)[Len(a) + Len(b) + i] = c[i]
<1>1. Len(a) \in Nat /\ Len(b) \in Nat /\ Len(c) \in Nat
  BY LenProperties
<1> DEFINE ab == a \o b
<1>2. /\ ab \in Seq(S)
      /\ Len(ab) = Len(a) + Len(b)
      /\ \A i \in 1 .. Len(a) + Len(b) : ab[i] = IF i <= Len(a) THEN a[i] ELSE b[i - Len(a)]
  BY ConcatProperties
<1> HIDE DEF ab
<1>3. /\ ab \o c \in Seq(S)
      /\ Len(ab \o c) = Len(a) + Len(b) + Len(c)
      /\ \A i \in 1 .. Len(a) + Len(b) + Len(c) :
            (ab \o c)[i] = IF i <= Len(a) + Len(b) THEN ab[i] ELSE c[i - (Len(a) + Len(b))]
  <2>1. ab \in Seq(S) /\ Len(ab) = Len(a) + Len(b)
    BY <1>2
  <2>2. /\ ab \o c \in Seq(S)
        /\ Len(ab \o c) = Len(ab) + Len(c)
        /\ \A i \in 1 .. Len(ab) + Len(c) :
              (ab \o c)[i] = IF i <= Len(ab) THEN ab[i] ELSE c[i - Len(ab)]
    <3>1. PICK x \in Seq(S) : x = ab
      BY <2>1
    <3>2. /\ x \o c \in Seq(S)
          /\ Len(x \o c) = Len(x) + Len(c)
          /\ \A i \in 1 .. Len(x) + Len(c) :
                (x \o c)[i] = IF i <= Len(x) THEN x[i] ELSE c[i - Len(x)]
      BY ConcatProperties
    <3> QED
      BY <3>1, <3>2
  <2> QED
    BY <2>1, <2>2
<1>4. ASSUME NEW i \in 1 .. Len(a)
      PROVE  (ab \o c)[i] = a[i]
  BY <1>1, <1>2, <1>3
<1>5. ASSUME NEW i \in 1 .. Len(b)
      PROVE  (ab \o c)[Len(a) + i] = b[i]
  <2>1. /\ Len(a) + i \in 1 .. Len(a) + Len(b) /\ ~(Len(a) + i <= Len(a))
        /\ (Len(a) + i) - Len(a) = i /\ Len(a) + i \in 1 .. Len(a) + Len(b) + Len(c)
    BY <1>1
  <2> QED
    BY <1>1, <1>2, <1>3, <2>1
<1>6. ASSUME NEW i \in 1 .. Len(c)
      PROVE  (ab \o c)[Len(a) + Len(b) + i] = c[i]
  <2>1. /\ Len(a) + Len(b) + i \in 1 .. Len(a) + Len(b) + Len(c)
        /\ ~(Len(a) + Len(b) + i <= Len(a) + Len(b))
        /\ (Len(a) + Len(b) + i) - (Len(a) + Len(b)) = i
    BY <1>1
  <2> QED
    BY <1>3, <2>1
<1> QED
  BY <1>3, <1>4, <1>5, <1>6 DEF ab
-----------------------------------------------------------------------------
(* Lemmas about the calls that wait. *)

\* A call joins the queue with the change it tells of.
LEMMA CallHeard ==
  ASSUME NEW queue \in Seq(Callbacks), NEW call \in Callbacks, NEW collection,
         NEW docs, NEW docs2, NEW told,
         LeadsTo(told, queue, collection, docs),
         Tells(Live(docs), call, collection, Live(docs2))
  PROVE  \E longer : /\ LeadsTo(longer, Append(queue, call), collection, docs2)
                     /\ longer[0] = told[0]
<1> DEFINE n == Len(queue)
           new == Append(queue, call)
           longer == [i \in 0 .. n + 1 |-> IF i = n + 1 THEN Live(docs2) ELSE told[i]]
<1>1. n \in Nat
  BY LenProperties
<1>2. /\ new \in Seq(Callbacks)
      /\ Len(new) = n + 1
      /\ \A i \in 1 .. n : new[i] = queue[i]
      /\ new[n + 1] = call
  BY AppendElements
<1>3. /\ told \in [0 .. n -> SUBSET Feels]
      /\ told[n] = Live(docs)
      /\ \A i \in 1 .. n : Tells(told[i - 1], queue[i], collection, told[i])
  BY DEF LeadsTo
<1>4. Live(docs2) \in SUBSET Feels
  BY DEF Live
<1> HIDE DEF n, new
<1>5. /\ longer \in [0 .. n + 1 -> SUBSET Feels]
      /\ longer[n + 1] = Live(docs2)
      /\ \A i \in 0 .. n : longer[i] = told[i]
  BY <1>1, <1>3, <1>4
<1> HIDE DEF longer
<1>6. ASSUME NEW i \in 1 .. n + 1
      PROVE  Tells(longer[i - 1], new[i], collection, longer[i])
  <2>1. CASE i \in 1 .. n
    <3>1. i - 1 \in 0 .. n /\ i \in 0 .. n
      BY <1>1, <2>1
    <3>2. longer[i - 1] = told[i - 1] /\ longer[i] = told[i] /\ new[i] = queue[i]
      BY <1>2, <1>5, <2>1, <3>1
    <3> QED
      BY <1>3, <2>1, <3>2
  <2>2. CASE i = n + 1
    <3>1. i - 1 = n /\ n \in 0 .. n
      BY <1>1, <2>2
    <3>2. longer[i - 1] = Live(docs) /\ longer[i] = Live(docs2) /\ new[i] = call
      BY <1>2, <1>3, <1>5, <2>2, <3>1
    <3> QED
      BY <3>2
  <2> QED
    BY <1>1, <2>1, <2>2
<1>7. LeadsTo(longer, new, collection, docs2)
  BY <1>2, <1>5, <1>6 DEF LeadsTo
<1>8. longer[0] = told[0]
  BY <1>1, <1>5
<1> QED
  BY <1>7, <1>8 DEF new

\* The first call is taken: the page has been told of its change.
LEMMA CallTaken ==
  ASSUME NEW queue \in Seq(Callbacks), queue # <<>>, NEW collection, NEW docs, NEW told,
         LeadsTo(told, queue, collection, docs)
  PROVE  \E rest : /\ LeadsTo(rest, Tail(queue), collection, docs)
                   /\ Tells(told[0], Head(queue), collection, rest[0])
<1> DEFINE n == Len(queue)
           new == Tail(queue)
           rest == [i \in 0 .. n - 1 |-> told[i + 1]]
<1>1. n \in Nat
  BY LenProperties
<1>2. /\ new \in Seq(Callbacks)
      /\ Len(new) = n - 1
      /\ n >= 1
      /\ Head(queue) = queue[1]
      /\ \A i \in 1 .. n - 1 : new[i] = queue[i + 1]
  BY TailElements
<1>3. /\ told \in [0 .. n -> SUBSET Feels]
      /\ told[n] = Live(docs)
      /\ \A i \in 1 .. n : Tells(told[i - 1], queue[i], collection, told[i])
  BY DEF LeadsTo
<1> HIDE DEF n, new
<1>4. \A i \in 0 .. n - 1 : i + 1 \in 0 .. n
  BY <1>1
<1>5. /\ rest \in [0 .. n - 1 -> SUBSET Feels]
      /\ \A i \in 0 .. n - 1 : rest[i] = told[i + 1]
  BY <1>3, <1>4
<1> HIDE DEF rest
<1>6. ASSUME NEW i \in 1 .. n - 1
      PROVE  Tells(rest[i - 1], new[i], collection, rest[i])
  <2>1. i - 1 \in 0 .. n - 1 /\ i \in 0 .. n - 1 /\ i + 1 \in 1 .. n /\ (i - 1) + 1 = i /\ (i + 1) - 1 = i
    BY <1>1
  <2>2. Tells(told[(i + 1) - 1], queue[i + 1], collection, told[i + 1])
    BY <1>3, <2>1
  <2>3. rest[i - 1] = told[(i + 1) - 1] /\ rest[i] = told[i + 1] /\ new[i] = queue[i + 1]
    BY <1>2, <1>5, <2>1
  <2> QED
    BY <2>2, <2>3
<1>7. rest[n - 1] = Live(docs)
  <2>1. n - 1 \in 0 .. n - 1 /\ (n - 1) + 1 = n
    BY <1>1, <1>2
  <2>2. rest[n - 1] = told[(n - 1) + 1]
    BY <1>5, <2>1
  <2> QED
    BY <1>3, <2>1, <2>2
<1>8. LeadsTo(rest, new, collection, docs)
  BY <1>2, <1>5, <1>6, <1>7 DEF LeadsTo
<1>9. Tells(told[0], Head(queue), collection, rest[0])
  <2>1. 0 \in 0 .. n - 1 /\ 0 + 1 = 1 /\ 1 \in 1 .. n /\ 1 - 1 = 0
    BY <1>1, <1>2
  <2>2. Tells(told[1 - 1], queue[1], collection, told[1])
    BY <1>3, <2>1
  <2>3. rest[0] = told[1]
    BY <1>5, <2>1
  <2> QED
    BY <1>2, <2>1, <2>2, <2>3
<1> QED
  BY <1>8, <1>9 DEF new

\* A page that is registered will be told of everything there is.
LEMMA FirstCalls ==
  ASSUME NEW fdocs, NEW rdocs
  PROVE  LET queue == <<Callback("feels", "added", Live(fdocs)),
                        Callback("reactions", "added", Live(rdocs))>>
         IN  /\ queue \in Seq(Callbacks)
             /\ \E told : LeadsTo(told, queue, "feels", fdocs) /\ told[0] = {}
             /\ \E told : LeadsTo(told, queue, "reactions", rdocs) /\ told[0] = {}
<1> DEFINE one == Callback("feels", "added", Live(fdocs))
           two == Callback("reactions", "added", Live(rdocs))
           queue == <<one, two>>
<1>1. Live(fdocs) \in SUBSET Feels /\ Live(rdocs) \in SUBSET Feels
  BY DEF Live
<1>2. /\ one \in Callbacks /\ two \in Callbacks
      /\ one.collection = "feels" /\ one.type = "added" /\ one.ids = Live(fdocs)
      /\ two.collection = "reactions" /\ two.type = "added" /\ two.ids = Live(rdocs)
  BY <1>1 DEF Callback, Callbacks
<1> HIDE DEF one, two
<1>3. queue \in Seq(Callbacks) /\ Len(queue) = 2 /\ queue[1] = one /\ queue[2] = two
  BY <1>2
<1> HIDE DEF queue
<1>4. \E told : LeadsTo(told, queue, "feels", fdocs) /\ told[0] = {}
  <2> DEFINE told == [i \in 0 .. 2 |-> IF i = 0 THEN {} ELSE Live(fdocs)]
  <2>1. told \in [0 .. 2 -> SUBSET Feels] /\ told[0] = {} /\ told[1] = Live(fdocs) /\ told[2] = Live(fdocs)
    BY <1>1
  <2> HIDE DEF told
  <2>2. Tells(told[0], queue[1], "feels", told[1]) /\ Tells(told[1], queue[2], "feels", told[2])
    BY <1>2, <1>3, <2>1 DEF Tells
  <2>3. \A i \in 1 .. 2 : Tells(told[i - 1], queue[i], "feels", told[i])
    <3>1. (\A i \in 1 .. 2 : i = 1 \/ i = 2) /\ 1 - 1 = 0 /\ 2 - 1 = 1
      OBVIOUS
    <3> QED
      BY <2>2, <3>1
  <2> QED
    BY <1>3, <2>1, <2>3 DEF LeadsTo
<1>5. \E told : LeadsTo(told, queue, "reactions", rdocs) /\ told[0] = {}
  <2> DEFINE told == [i \in 0 .. 2 |-> IF i = 2 THEN Live(rdocs) ELSE {}]
  <2>1. told \in [0 .. 2 -> SUBSET Feels] /\ told[0] = {} /\ told[1] = {} /\ told[2] = Live(rdocs)
    BY <1>1
  <2> HIDE DEF told
  <2>2. Tells(told[0], queue[1], "reactions", told[1]) /\ Tells(told[1], queue[2], "reactions", told[2])
    BY <1>2, <1>3, <2>1 DEF Tells
  <2>3. \A i \in 1 .. 2 : Tells(told[i - 1], queue[i], "reactions", told[i])
    <3>1. (\A i \in 1 .. 2 : i = 1 \/ i = 2) /\ 1 - 1 = 0 /\ 2 - 1 = 1
      OBVIOUS
    <3> QED
      BY <2>2, <3>1
  <2> QED
    BY <1>3, <2>1, <2>3 DEF LeadsTo
<1> QED
  BY <1>3, <1>4, <1>5 DEF queue, one, two

-----------------------------------------------------------------------------
(* Lemmas about the two lists of a page. *)

LEMMA FeelsHeard ==
  ASSUME NEW queue \in Seq(Callbacks), NEW call \in Callbacks, NEW list, NEW docs, NEW docs2,
         FeelsSound(queue, list, docs),
         Tells(Live(docs), call, "feels", Live(docs2)),
         \A f \in Feels : docs[f] = "gone" => docs2[f] = "gone",
         own \subseteq Feels,
         (call.collection = "feels" /\ call.type = "removed")
            => \A f \in call.ids : docs2[f] = "gone"
  PROVE  FeelsSound(Append(queue, call), list, docs2)
<1>1. PICK told : LeadsTo(told, queue, "feels", docs) /\ Shows(list, told[0], docs)
  BY DEF FeelsSound
<1>2. PICK longer : /\ LeadsTo(longer, Append(queue, call), "feels", docs2)
                    /\ longer[0] = told[0]
  BY <1>1, CallHeard
<1>3. Shows(list, longer[0], docs2)
  BY <1>1, <1>2 DEF Shows, OwnKept
<1>4. RemovedAreGone(Append(queue, call), docs2)
  <2> DEFINE new == Append(queue, call)
  <2>1. /\ Len(queue) \in Nat
        /\ DOMAIN queue = 1 .. Len(queue)
        /\ DOMAIN new = 1 .. Len(queue) + 1
        /\ \A i \in 1 .. Len(queue) : new[i] = queue[i]
        /\ new[Len(queue) + 1] = call
    BY AppendElements, LenProperties
  <2>2. \A i \in DOMAIN queue : queue[i] \in Callbacks
    BY ElementOfSeq, LenProperties
  <2> HIDE DEF new
  <2>3. SUFFICES ASSUME NEW i \in DOMAIN new,
                        new[i].collection = "feels", new[i].type = "removed", NEW f \in new[i].ids
                 PROVE  docs2[f] = "gone"
    BY DEF RemovedAreGone, new
  <2>4. CASE i \in 1 .. Len(queue)
    <3>1. new[i] = queue[i] /\ i \in DOMAIN queue
      BY <2>1, <2>4
    <3>2. docs[f] = "gone"
      BY <2>3, <3>1 DEF FeelsSound, RemovedAreGone
    <3>3. f \in Feels
      BY <2>2, <2>3, <3>1 DEF Callbacks
    <3> QED
      BY <3>2, <3>3
  <2>5. CASE i = Len(queue) + 1
    BY <2>1, <2>3, <2>5
  <2> QED
    BY <2>1, <2>4, <2>5
<1> QED
  BY <1>2, <1>3, <1>4 DEF FeelsSound

LEMMA ReactionsHeard ==
  ASSUME NEW queue \in Seq(Callbacks), NEW call \in Callbacks, NEW list, NEW docs, NEW docs2,
         ReactionsSound(queue, list, docs),
         Tells(Live(docs), call, "reactions", Live(docs2))
  PROVE  ReactionsSound(Append(queue, call), list, docs2)
<1>1. PICK told : LeadsTo(told, queue, "reactions", docs) /\ Cardinality(told[0]) = Len(list)
  BY DEF ReactionsSound
<1>2. PICK longer : /\ LeadsTo(longer, Append(queue, call), "reactions", docs2)
                    /\ longer[0] = told[0]
  BY <1>1, CallHeard
<1> QED
  BY <1>1, <1>2 DEF ReactionsSound

\* What is left of a queue is as sound as the queue.
LEMMA RemovedStayGone ==
  ASSUME NEW queue \in Seq(Callbacks), queue # <<>>, NEW docs, RemovedAreGone(queue, docs)
  PROVE  RemovedAreGone(Tail(queue), docs)
<1> DEFINE new == Tail(queue)
<1>1. /\ Len(queue) \in Nat
      /\ DOMAIN queue = 1 .. Len(queue)
      /\ DOMAIN new = 1 .. Len(queue) - 1
      /\ \A i \in 1 .. Len(queue) - 1 : new[i] = queue[i + 1]
  BY TailElements, LenProperties
<1> HIDE DEF new
<1>2. \A i \in DOMAIN new : i + 1 \in DOMAIN queue
  BY <1>1
<1>3. \A i \in DOMAIN new : new[i] = queue[i + 1]
  BY <1>1
<1>4. RemovedAreGone(new, docs)
  BY <1>2, <1>3 DEF RemovedAreGone
<1> QED
  BY <1>4 DEF new

\* The entries of a list of feels after some were added to it.
LEMMA ListedFeelsElements ==
  ASSUME NEW list \in Seq(Feels), NEW ids \in SUBSET Feels, own \subseteq Feels
  PROVE  /\ ListedFeels(list, ids) \in Seq(Feels)
         /\ Len(ListedFeels(list, ids))
              = Cardinality(ids \ own) + Len(list) + Cardinality(ids)
         /\ \A i \in 1 .. Len(list) : ListedFeels(list, ids)[Cardinality(ids \ own) + i] = list[i]
         /\ \A f \in own : \A known : (OnceIf(f \in known, f, list) /\ ids \cap known = {})
               => OnceIf(f \in known \cup ids, f, ListedFeels(list, ids))
<1> DEFINE others == ids \ own
           a == Oldest(others)
           c == Newest(ids)
           new == a \o list \o c
<1>1. Cardinality(ids) \in Nat /\ Cardinality(others) \in Nat /\ Len(list) \in Nat
  BY FeelsFinite, LenProperties
<1>2. a \in Seq(others) /\ Len(a) = Cardinality(others)
  BY OldestList
<1>3. /\ c \in Seq(ids)
      /\ Len(c) = Cardinality(ids)
      /\ \A i, j \in 1 .. Cardinality(ids) : c[i] = c[j] => i = j
      /\ \A f \in ids : \E i \in 1 .. Cardinality(ids) : c[i] = f
  BY NewestList
<1>4. /\ \A i \in 1 .. Cardinality(others) : a[i] \in others
      /\ \A i \in 1 .. Cardinality(ids) : c[i] \in ids
  BY <1>2, <1>3, ElementOfSeq
<1> HIDE DEF a, c
<1>5. a \in Seq(Feels) /\ c \in Seq(Feels)
  <2>1. \A T \in SUBSET Feels : Seq(T) \subseteq Seq(Feels)
    OBVIOUS
  <2> QED
    BY <1>2, <1>3, <2>1
<1>6. /\ new \in Seq(Feels)
      /\ Len(new) = Len(a) + Len(list) + Len(c)
      /\ \A i \in 1 .. Len(a) : new[i] = a[i]
      /\ \A i \in 1 .. Len(list) : new[Len(a) + i] = list[i]
      /\ \A i \in 1 .. Len(c) : new[Len(a) + Len(list) + i] = c[i]
      /\ \A i \in 1 .. Len(a) + Len(list) + Len(c) :
            \/ i \in 1 .. Len(a)
            \/ \E j \in 1 .. Len(list) : i = Len(a) + j
            \/ \E j \in 1 .. Len(c) : i = Len(a) + Len(list) + j
  <2>1. /\ new \in Seq(Feels)
        /\ Len(new) = Len(a) + Len(list) + Len(c)
        /\ \A i \in 1 .. Len(a) : new[i] = a[i]
        /\ \A i \in 1 .. Len(list) : new[Len(a) + i] = list[i]
        /\ \A i \in 1 .. Len(c) : new[Len(a) + Len(list) + i] = c[i]
    BY <1>5, ThreeParts
  <2>2. \A i \in 1 .. Len(a) + Len(list) + Len(c) :
            \/ i \in 1 .. Len(a)
            \/ \E j \in 1 .. Len(list) : i = Len(a) + j
            \/ \E j \in 1 .. Len(c) : i = Len(a) + Len(list) + j
    <3>1. Len(a) \in Nat /\ Len(list) \in Nat /\ Len(c) \in Nat
      BY <1>1, <1>2, <1>3
    <3> QED
      BY <3>1, ThreePlaces
  <2> QED
    BY <2>1, <2>2
<1>7. new = ListedFeels(list, ids)
  BY DEF ListedFeels, a, c
<1> HIDE DEF new, others
<1>8. DOMAIN new = 1 .. Len(a) + Len(list) + Len(c) /\ DOMAIN list = 1 .. Len(list)
  BY <1>6, LenProperties
<1>9. ASSUME NEW f \in own, NEW known, OnceIf(f \in known, f, list), ids \cap known = {}
      PROVE  OnceIf(f \in known \cup ids, f, new)
  <2>1. \A i \in 1 .. Len(a) : new[i] # f
    BY <1>2, <1>4, <1>6 DEF others
  <2>2. ASSUME NEW i \in DOMAIN new, new[i] = f
        PROVE  \/ \E j \in 1 .. Len(list) : i = Len(a) + j /\ list[j] = f /\ f \in known
               \/ \E j \in 1 .. Len(c) : i = Len(a) + Len(list) + j /\ c[j] = f /\ f \in ids
    <3>1. CASE i \in 1 .. Len(a)
      BY <2>1, <2>2, <3>1
    <3>2. ASSUME NEW j \in 1 .. Len(list), i = Len(a) + j
          PROVE  list[j] = f /\ f \in known
      BY <1>6, <1>8, <1>9, <2>2, <3>2 DEF OnceIf
    <3>3. ASSUME NEW j \in 1 .. Len(c), i = Len(a) + Len(list) + j
          PROVE  c[j] = f /\ f \in ids
      BY <1>3, <1>4, <1>6, <2>2, <3>3
    <3> QED
      BY <1>6, <1>8, <3>1, <3>2, <3>3
  <2>3. ASSUME f \in known
        PROVE  \E i \in DOMAIN new : new[i] = f
    <3>1. PICK j \in 1 .. Len(list) : list[j] = f
      BY <1>8, <1>9, <2>3 DEF OnceIf
    <3>2. Len(a) + j \in 1 .. Len(a) + Len(list) + Len(c)
      BY <1>1, <1>2, <1>3
    <3> QED
      BY <1>6, <1>8, <3>1, <3>2
  <2>4. ASSUME f \in ids
        PROVE  \E i \in DOMAIN new : new[i] = f
    <3>1. PICK j \in 1 .. Len(c) : c[j] = f
      BY <1>3, <2>4
    <3>2. Len(a) + Len(list) + j \in 1 .. Len(a) + Len(list) + Len(c)
      BY <1>1, <1>2, <1>3
    <3> QED
      BY <1>6, <1>8, <3>1, <3>2
  <2>5. ASSUME NEW i \in DOMAIN new, NEW j \in DOMAIN new, new[i] = f, new[j] = f
        PROVE  i = j
    <3>1. CASE f \in known
      <4>1. f \notin ids
        BY <1>9, <3>1
      <4>2. PICK x \in 1 .. Len(list) : i = Len(a) + x /\ list[x] = f
        BY <2>2, <2>5, <4>1
      <4>3. PICK y \in 1 .. Len(list) : j = Len(a) + y /\ list[y] = f
        BY <2>2, <2>5, <4>1
      <4>4. x = y
        BY <1>8, <1>9, <4>2, <4>3 DEF OnceIf
      <4> QED
        BY <4>2, <4>3, <4>4
    <3>2. CASE f \notin known
      <4>1. PICK x \in 1 .. Len(c) : i = Len(a) + Len(list) + x /\ c[x] = f
        BY <2>2, <2>5, <3>2
      <4>2. PICK y \in 1 .. Len(c) : j = Len(a) + Len(list) + y /\ c[y] = f
        BY <2>2, <2>5, <3>2
      <4>3. x = y
        BY <1>3, <4>1, <4>2
      <4> QED
        BY <4>1, <4>2, <4>3
    <3> QED
      BY <3>1, <3>2
  <2>6. f \in known \cup ids <=> \E i \in DOMAIN new : new[i] = f
    BY <2>2, <2>3, <2>4
  <2> QED
    BY <2>5, <2>6 DEF OnceIf
<1>10. Len(new) = Cardinality(ids \ own) + Len(list) + Cardinality(ids)
  BY <1>2, <1>3, <1>6 DEF others
<1>11. \A i \in 1 .. Len(list) : new[Cardinality(ids \ own) + i] = list[i]
  BY <1>2, <1>6 DEF others
<1> QED
  BY <1>6, <1>7, <1>9, <1>10, <1>11

\* What is added to a page is shown.
LEMMA AddedShown ==
  ASSUME NEW list \in Seq(Feels), NEW known \in SUBSET Feels, NEW ids \in SUBSET Feels, NEW docs,
         own \subseteq Feels, ids \cap known = {}, Shows(list, known, docs)
  PROVE  Shows(ListedFeels(list, ids), known \cup ids, docs)
<1> DEFINE new == ListedFeels(list, ids)
<1>1. /\ Cardinality(known) \in Nat /\ Cardinality(ids) \in Nat /\ Cardinality(ids \ own) \in Nat
      /\ IsFiniteSet(known) /\ IsFiniteSet(ids)
  BY FeelsFinite
<1>2. Cardinality(known \cup ids) = Cardinality(known) + Cardinality(ids)
  <2>1. Cardinality(known \cup ids)
          = Cardinality(known) + Cardinality(ids) - Cardinality(known \cap ids)
    BY <1>1, FS_Union
  <2>2. Cardinality(known \cap ids) = 0
    BY FS_EmptySet
  <2> QED
    BY <1>1, <2>1, <2>2
<1>3. /\ Len(new) = Cardinality(ids \ own) + Len(list) + Cardinality(ids)
      /\ \A f \in own : OnceIf(f \in known, f, list) => OnceIf(f \in known \cup ids, f, new)
  BY ListedFeelsElements
<1>4. Len(list) \in Nat
  BY LenProperties
<1>5. own = Feels => Cardinality(ids \ own) = 0
  <2>1. ASSUME own = Feels
        PROVE  ids \ own = {}
    BY <2>1
  <2> QED
    BY <2>1, FS_EmptySet
<1> HIDE DEF new
<1>6. Cardinality(known \cup ids) <= Len(new)
  BY <1>1, <1>2, <1>3, <1>4 DEF Shows
<1>7. own = Feels => Cardinality(known \cup ids) = Len(new)
  BY <1>1, <1>2, <1>3, <1>4, <1>5 DEF Shows
<1>8. OwnKept(docs) => \A f \in own : OnceIf(f \in known \cup ids, f, new)
  BY <1>3 DEF Shows
<1>9. Shows(new, known \cup ids, docs)
  BY <1>6, <1>7, <1>8 DEF Shows
<1> QED
  BY <1>9 DEF new

\* Something known is in the list, or stands for something that is.
LEMMA KnownNotEmpty ==
  ASSUME NEW S, NEW list \in Seq(S), NEW known \in SUBSET Feels, NEW f \in known,
         Cardinality(known) <= Len(list)
  PROVE  list # <<>>
<1>1. IsFiniteSet(known) /\ Cardinality(known) \in Nat
  BY FeelsFinite
<1>2. Cardinality(known) # 0
  BY <1>1, FS_EmptySet
<1> QED
  BY <1>1, <1>2, EmptyElements

\* What is removed is known no more, and one's own takes an entry with it.
LEMMA RemovedShown ==
  ASSUME NEW list \in Seq(Feels), NEW known \in SUBSET Feels, NEW f \in known, NEW docs,
         own \subseteq Feels, docs[f] = "gone", Shows(list, known, docs)
  PROVE  Shows(IF f \in own THEN Tail(list) ELSE list, known \ {f}, docs)
<1>1. /\ Cardinality(known) \in Nat
      /\ Cardinality(known \ {f}) = Cardinality(known) - 1
  BY FeelsFinite, FS_RemoveElement
<1>2. Len(list) \in Nat /\ Cardinality(known) <= Len(list) /\ (own = Feels => Cardinality(known) = Len(list))
  BY LenProperties DEF Shows
<1>3. CASE f \in own
  <2>1. Len(Tail(list)) = Len(list) - 1
    BY <1>2, KnownNotEmpty, TailElements
  <2>2. ~OwnKept(docs)
    BY <1>3 DEF OwnKept
  <2>3. /\ Cardinality(known \ {f}) <= Len(Tail(list))
        /\ own = Feels => Cardinality(known \ {f}) = Len(Tail(list))
    BY <1>1, <1>2, <2>1
  <2> QED
    BY <1>3, <2>2, <2>3 DEF Shows
<1>4. CASE f \notin own
  <2>1. Cardinality(known \ {f}) <= Len(list)
    BY <1>1, <1>2
  <2>2. own # Feels
    BY <1>4
  <2>3. OwnKept(docs) => \A g \in own : OnceIf(g \in known \ {f}, g, list)
    BY <1>4 DEF Shows, OnceIf
  <2> QED
    BY <1>4, <2>1, <2>2, <2>3 DEF Shows
<1> QED
  BY <1>3, <1>4

\* The first call is taken from a page's queue: what the list becomes.
LEMMA FeelsTaken ==
  ASSUME NEW queue \in Seq(Callbacks), queue # <<>>, NEW list \in Seq(Feels), NEW docs,
         own \subseteq Feels, FeelsSound(queue, list, docs)
  PROVE  LET call == Head(queue) IN
         /\ call.collection # "feels" => FeelsSound(Tail(queue), list, docs)
         /\ (call.collection = "feels" /\ call.type = "added")
              => FeelsSound(Tail(queue), ListedFeels(list, call.ids), docs)
         /\ (call.collection = "feels" /\ call.type = "removed")
              => /\ (call.ids \subseteq own) => list # <<>>
                 /\ FeelsSound(Tail(queue), IF call.ids \subseteq own THEN Tail(list) ELSE list, docs)
<1>1. PICK told : LeadsTo(told, queue, "feels", docs) /\ Shows(list, told[0], docs)
  BY DEF FeelsSound
<1>2. PICK rest : /\ LeadsTo(rest, Tail(queue), "feels", docs)
                  /\ Tells(told[0], Head(queue), "feels", rest[0])
  BY <1>1, CallTaken
<1>3. RemovedAreGone(Tail(queue), docs)
  BY RemovedStayGone DEF FeelsSound
<1>4. told[0] \in SUBSET Feels
  <2>1. Len(queue) \in Nat /\ told \in [0 .. Len(queue) -> SUBSET Feels]
    BY <1>1, LenProperties DEF LeadsTo
  <2>2. 0 \in 0 .. Len(queue)
    BY <2>1
  <2> QED
    BY <2>1, <2>2
<1>5. PICK call : call = Head(queue)
  OBVIOUS
<1>6. call \in Callbacks /\ call.ids \in SUBSET Feels /\ 1 \in DOMAIN queue /\ call = queue[1]
  <2>1. call \in Callbacks /\ 1 \in DOMAIN queue /\ call = queue[1]
    BY <1>5, TailElements
  <2> QED
    BY <2>1 DEF Callbacks
<1>7. ASSUME call.collection # "feels"
      PROVE  FeelsSound(Tail(queue), list, docs)
  <2>1. rest[0] = told[0]
    BY <1>2, <1>5, <1>7 DEF Tells
  <2> QED
    BY <1>1, <1>2, <1>3, <2>1 DEF FeelsSound
<1>8. ASSUME call.collection = "feels", call.type = "added"
      PROVE  FeelsSound(Tail(queue), ListedFeels(list, call.ids), docs)
  <2>1. rest[0] = told[0] \cup call.ids /\ call.ids \cap told[0] = {}
    BY <1>2, <1>5, <1>8 DEF Tells
  <2>2. Shows(ListedFeels(list, call.ids), rest[0], docs)
    BY <1>1, <1>4, <1>6, <2>1, AddedShown
  <2> QED
    BY <1>2, <1>3, <2>2 DEF FeelsSound
<1>9. ASSUME call.collection = "feels", call.type = "removed"
      PROVE  /\ (call.ids \subseteq own) => list # <<>>
             /\ FeelsSound(Tail(queue), IF call.ids \subseteq own THEN Tail(list) ELSE list, docs)
  <2>1. PICK f \in told[0] : call.ids = {f} /\ rest[0] = told[0] \ {f}
    BY <1>2, <1>5, <1>9 DEF Tells
  <2>2. docs[f] = "gone"
    BY <1>6, <1>9, <2>1 DEF FeelsSound, RemovedAreGone
  <2>3. call.ids \subseteq own <=> f \in own
    BY <2>1
  <2>4. Shows(IF f \in own THEN Tail(list) ELSE list, rest[0], docs)
    <3>1. Shows(IF f \in own THEN Tail(list) ELSE list, told[0] \ {f}, docs)
      BY <1>1, <1>4, <2>2, RemovedShown
    <3> QED
      BY <2>1, <3>1
  <2>5. list # <<>>
    BY <1>1, <1>4, <2>1, KnownNotEmpty DEF Shows
  <2> QED
    BY <1>2, <1>3, <2>3, <2>4, <2>5 DEF FeelsSound
<1> QED
  BY <1>5, <1>7, <1>8, <1>9

\* The same for the reactions, of which there is one for each document.
LEMMA ReactionsTaken ==
  ASSUME NEW queue \in Seq(Callbacks), queue # <<>>, NEW list \in Seq(Feels), NEW docs,
         ReactionsSound(queue, list, docs)
  PROVE  LET call == Head(queue) IN
         /\ (call.collection # "reactions" \/ call.type = "modified")
              => \A other \in Seq(Feels) : Len(other) = Len(list) => ReactionsSound(Tail(queue), other, docs)
         /\ (call.collection = "reactions" /\ call.type = "added")
              => ReactionsSound(Tail(queue), list \o Newest(call.ids), docs)
         /\ (call.collection = "reactions" /\ call.type = "removed")
              => list # <<>> /\ ReactionsSound(Tail(queue), Tail(list), docs)
<1>1. PICK told : LeadsTo(told, queue, "reactions", docs) /\ Cardinality(told[0]) = Len(list)
  BY DEF ReactionsSound
<1>2. PICK rest : /\ LeadsTo(rest, Tail(queue), "reactions", docs)
                  /\ Tells(told[0], Head(queue), "reactions", rest[0])
  BY <1>1, CallTaken
<1>3. told[0] \in SUBSET Feels /\ Len(list) \in Nat
  <2>1. Len(queue) \in Nat /\ told \in [0 .. Len(queue) -> SUBSET Feels] /\ Len(list) \in Nat
    BY <1>1, LenProperties DEF LeadsTo
  <2>2. 0 \in 0 .. Len(queue)
    BY <2>1
  <2> QED
    BY <2>1, <2>2
<1>4. PICK call : call = Head(queue)
  OBVIOUS
<1>5. call \in Callbacks /\ call.ids \in SUBSET Feels
  <2>1. call \in Callbacks
    BY <1>4, TailElements
  <2> QED
    BY <2>1 DEF Callbacks
<1>6. ASSUME call.collection # "reactions" \/ call.type = "modified",
             NEW other \in Seq(Feels), Len(other) = Len(list)
      PROVE  ReactionsSound(Tail(queue), other, docs)
  <2>1. rest[0] = told[0]
    BY <1>2, <1>4, <1>6 DEF Tells
  <2> QED
    BY <1>1, <1>2, <1>6, <2>1 DEF ReactionsSound
<1>7. ASSUME call.collection = "reactions", call.type = "added"
      PROVE  ReactionsSound(Tail(queue), list \o Newest(call.ids), docs)
  <2>1. rest[0] = told[0] \cup call.ids /\ call.ids \cap told[0] = {}
    BY <1>2, <1>4, <1>7 DEF Tells
  <2>2. Cardinality(rest[0]) = Cardinality(told[0]) + Cardinality(call.ids)
    <3>1. /\ IsFiniteSet(told[0]) /\ IsFiniteSet(call.ids)
          /\ Cardinality(told[0]) \in Nat /\ Cardinality(call.ids) \in Nat
      BY <1>3, <1>5, FeelsFinite
    <3>2. Cardinality(told[0] \cup call.ids)
            = Cardinality(told[0]) + Cardinality(call.ids) - Cardinality(told[0] \cap call.ids)
      BY <3>1, FS_Union
    <3>3. Cardinality(told[0] \cap call.ids) = 0
      BY <2>1, FS_EmptySet
    <3> QED
      BY <2>1, <3>1, <3>2, <3>3
  <2>3. Len(list \o Newest(call.ids)) = Len(list) + Cardinality(call.ids)
    <3>1. Newest(call.ids) \in Seq(call.ids) /\ Len(Newest(call.ids)) = Cardinality(call.ids)
      BY <1>5, NewestList
    <3>2. Newest(call.ids) \in Seq(Feels)
      BY <1>5, <3>1
    <3> QED
      BY <3>1, <3>2, ConcatProperties
  <2> QED
    BY <1>1, <1>2, <2>2, <2>3 DEF ReactionsSound
<1>8. ASSUME call.collection = "reactions", call.type = "removed"
      PROVE  list # <<>> /\ ReactionsSound(Tail(queue), Tail(list), docs)
  <2>1. PICK f \in told[0] : call.ids = {f} /\ rest[0] = told[0] \ {f}
    BY <1>2, <1>4, <1>8 DEF Tells
  <2>2. /\ Cardinality(told[0]) \in Nat
        /\ Cardinality(rest[0]) = Cardinality(told[0]) - 1
    BY <1>3, <2>1, FeelsFinite, FS_RemoveElement
  <2>3. Cardinality(told[0]) <= Len(list)
    BY <1>1, <1>3
  <2>4. list # <<>>
    BY <1>3, <2>3, KnownNotEmpty
  <2>5. Len(Tail(list)) = Len(list) - 1
    BY <2>4, TailElements
  <2>6. Cardinality(rest[0]) = Len(Tail(list))
    BY <1>1, <2>2, <2>5
  <2> QED
    BY <1>2, <2>4, <2>6 DEF ReactionsSound
<1> QED
  BY <1>4, <1>6, <1>7, <1>8

-----------------------------------------------------------------------------
(* Lemmas about one page. *)

LEMMA PageTypes ==
  ASSUME NEW p \in Pages
  PROVE  /\ p.queue \in Seq(Callbacks) /\ p.feelsArray \in Seq(Feels)
         /\ p.reactNibOpen \in Seq(BOOLEAN) /\ p.reactionsArray \in Seq(Feels)
         /\ p.listenToFeels \in BOOLEAN /\ p.listeners \in Nat /\ p.currentReact \in Nat
         /\ p.shown \in Nat /\ p.reloading \in BOOLEAN /\ p.bound \in Feels \cup {None}
         /\ p = [listenToFeels |-> p.listenToFeels, listeners |-> p.listeners,
                 queue |-> p.queue, feelsArray |-> p.feelsArray,
                 reactNibOpen |-> p.reactNibOpen, reactionsArray |-> p.reactionsArray,
                 currentReact |-> p.currentReact, shown |-> p.shown,
                 reloading |-> p.reloading, bound |-> p.bound]
  BY DEF Pages

\* The flags of a list of feels after some were added to it.
LEMMA OpenFlagsElements ==
  ASSUME NEW flags \in Seq(BOOLEAN), NEW ids \in SUBSET Feels
  PROVE  /\ OpenFlags(flags, ids) \in Seq(BOOLEAN)
         /\ Len(OpenFlags(flags, ids)) = Cardinality(ids \ own) + Len(flags) + Cardinality(ids)
         /\ \A i \in DOMAIN OpenFlags(flags, ids) : OpenFlags(flags, ids)[i] =>
               \E j \in DOMAIN flags : i = Cardinality(ids \ own) + j /\ flags[j]
<1> DEFINE n == Cardinality(ids \ own)
           a == Closed(n)
           c == Closed(Cardinality(ids))
           new == a \o flags \o c
<1>1. n \in Nat /\ Cardinality(ids) \in Nat /\ Len(flags) \in Nat
  BY FeelsFinite, LenProperties
<1>2. /\ a \in Seq(BOOLEAN) /\ Len(a) = n /\ \A i \in 1 .. n : ~a[i]
      /\ c \in Seq(BOOLEAN) /\ Len(c) = Cardinality(ids) /\ \A i \in 1 .. Cardinality(ids) : ~c[i]
  <2> HIDE DEF n
  <2> QED
    BY <1>1, ClosedFlags
<1>3. new = OpenFlags(flags, ids)
  BY DEF OpenFlags
<1> HIDE DEF a, c, n
<1>4. /\ new \in Seq(BOOLEAN)
      /\ Len(new) = Len(a) + Len(flags) + Len(c)
      /\ \A i \in 1 .. Len(a) : new[i] = a[i]
      /\ \A i \in 1 .. Len(flags) : new[Len(a) + i] = flags[i]
      /\ \A i \in 1 .. Len(c) : new[Len(a) + Len(flags) + i] = c[i]
  <2>1. PICK x \in Seq(BOOLEAN), z \in Seq(BOOLEAN) : x = a /\ z = c
    BY <1>2
  <2>2. /\ x \o flags \o z \in Seq(BOOLEAN)
        /\ Len(x \o flags \o z) = Len(x) + Len(flags) + Len(z)
        /\ \A i \in 1 .. Len(x) : (x \o flags \o z)[i] = x[i]
        /\ \A i \in 1 .. Len(flags) : (x \o flags \o z)[Len(x) + i] = flags[i]
        /\ \A i \in 1 .. Len(z) : (x \o flags \o z)[Len(x) + Len(flags) + i] = z[i]
    BY ThreeParts
  <2> QED
    BY <2>1, <2>2
<1> HIDE DEF new
<1>5. DOMAIN new = 1 .. Len(a) + Len(flags) + Len(c) /\ DOMAIN flags = 1 .. Len(flags)
  BY <1>4, LenProperties
<1>6. ASSUME NEW i \in DOMAIN new, new[i]
      PROVE  \E j \in DOMAIN flags : i = n + j /\ flags[j]
  <2>1. /\ Len(a) \in Nat /\ Len(flags) \in Nat /\ Len(c) \in Nat
        /\ i \in 1 .. Len(a) + Len(flags) + Len(c)
    BY <1>1, <1>2, <1>5
  <2>2. \/ i \in 1 .. Len(a)
        \/ \E j \in 1 .. Len(flags) : i = Len(a) + j
        \/ \E j \in 1 .. Len(c) : i = Len(a) + Len(flags) + j
    <3>1. PICK la \in Nat, lf \in Nat, lc \in Nat :
             la = Len(a) /\ lf = Len(flags) /\ lc = Len(c)
      BY <2>1
    <3>2. i \in 1 .. la + lf + lc
      BY <2>1, <3>1
    <3>3. \A k \in 1 .. la + lf + lc : \/ k \in 1 .. la
                                       \/ \E j \in 1 .. lf : k = la + j
                                       \/ \E j \in 1 .. lc : k = la + lf + j
      BY ThreePlaces
    <3> QED
      BY <3>1, <3>2, <3>3
  <2>3. i \notin 1 .. Len(a)
    BY <1>2, <1>4, <1>6
  <2>4. ASSUME NEW j \in 1 .. Len(c), i = Len(a) + Len(flags) + j
        PROVE  FALSE
    BY <1>2, <1>4, <1>6, <2>4
  <2>5. PICK j \in 1 .. Len(flags) : i = Len(a) + j
    BY <2>2, <2>3, <2>4
  <2>6. flags[j]
    BY <1>4, <1>6, <2>5
  <2> QED
    BY <1>2, <1>5, <2>5, <2>6
<1> QED
  BY <1>1, <1>2, <1>3, <1>4, <1>6 DEF n

\* A page whose listeners are called with a change of the documents.
LEMMA PageHears ==
  ASSUME NEW p, NEW call \in Callbacks, NEW fdocs, NEW rdocs, NEW fdocs2, NEW rdocs2,
         own \subseteq Feels, PageSound(p, fdocs, rdocs),
         Tells(Live(fdocs), call, "feels", Live(fdocs2)),
         \A f \in Feels : fdocs[f] = "gone" => fdocs2[f] = "gone",
         (call.collection = "feels" /\ call.type = "removed")
            => \A f \in call.ids : fdocs2[f] = "gone",
         Tells(Live(rdocs), call, "reactions", Live(rdocs2))
  PROVE  PageSound([p EXCEPT !.queue = Append(p.queue, call)], fdocs2, rdocs2)
<1> DEFINE queue == Append(p.queue, call)
           q == [p EXCEPT !.queue = queue]
<1>1. p \in Pages /\ p.queue \in Seq(Callbacks)
  BY PageTypes DEF PageSound
<1>2. queue \in Seq(Callbacks)
  BY <1>1, AppendElements
<1>3. /\ FeelsSound(queue, p.feelsArray, fdocs2)
      /\ ReactionsSound(queue, p.reactionsArray, rdocs2)
  BY <1>1, FeelsHeard, ReactionsHeard DEF PageSound
<1> HIDE DEF queue
<1>4. /\ q \in Pages
      /\ q.queue = queue /\ q.feelsArray = p.feelsArray /\ q.reactNibOpen = p.reactNibOpen
      /\ q.reactionsArray = p.reactionsArray /\ q.listeners = p.listeners
      /\ q.shown = p.shown /\ q.reloading = p.reloading
  BY <1>1, <1>2 DEF Pages
<1> HIDE DEF q
<1>5. TableSound(q)
  BY <1>4 DEF PageSound, TableSound, OpenSections
<1>6. PageSound(q, fdocs2, rdocs2)
  BY <1>3, <1>4, <1>5 DEF PageSound
<1> QED
  BY <1>6 DEF q, queue

\* A page that appears for the first time.
LEMMA NewPageSound ==
  ASSUME NEW fdocs, NEW rdocs, own \subseteq Feels
  PROVE  PageSound(Appeared(NewPage, fdocs, rdocs), fdocs, rdocs)
<1> DEFINE queue == <<Callback("feels", "added", Live(fdocs)),
                      Callback("reactions", "added", Live(rdocs))>>
           q == Appeared(NewPage, fdocs, rdocs)
<1>1. /\ queue \in Seq(Callbacks)
      /\ \E told : LeadsTo(told, queue, "feels", fdocs) /\ told[0] = {}
      /\ \E told : LeadsTo(told, queue, "reactions", rdocs) /\ told[0] = {}
      /\ DOMAIN queue = 1 .. 2
  BY FirstCalls
<1>2. queue[1].type = "added" /\ queue[2].type = "added"
  BY DEF Callback
<1>3. <<>> \o queue = queue
  BY <1>1, ConcatEmptySeq
<1> HIDE DEF queue
<1>4. <<>> \in Seq(Feels) /\ <<>> \in Seq(BOOLEAN) /\ <<>> \in Seq(Callbacks)
      /\ Len(<<>>) = 0 /\ DOMAIN <<>> = {}
  BY EmptyElements
<1>5. PICK n : n = NewPage
  OBVIOUS
<1>6. /\ n \in Pages
      /\ n.listenToFeels = TRUE /\ n.listeners = 0 /\ n.queue = <<>>
      /\ n.feelsArray = <<>> /\ n.reactNibOpen = <<>> /\ n.reactionsArray = <<>>
      /\ n.shown = 0 /\ n.reloading = FALSE
  BY <1>4, <1>5 DEF NewPage, Pages, None
<1>7. /\ q \in Pages
      /\ q.queue = queue /\ q.listeners = 1
      /\ q.feelsArray = <<>> /\ q.reactNibOpen = <<>> /\ q.reactionsArray = <<>>
      /\ q.shown = 0
  <2>1. PICK r : r = [n EXCEPT !.listeners = 1, !.queue = queue]
    OBVIOUS
  <2>2. Registered(n, fdocs, rdocs) = r
    <3>1. Registered(n, fdocs, rdocs) = [n EXCEPT !.listeners = n.listeners + 1, !.queue = n.queue \o queue]
      BY DEF Registered, queue
    <3> QED
      BY <1>3, <1>6, <2>1, <3>1
  <2>3. /\ r \in Pages
        /\ r.queue = queue /\ r.listeners = 1
        /\ r.feelsArray = <<>> /\ r.reactNibOpen = <<>> /\ r.reactionsArray = <<>>
        /\ r.shown = 0
    BY <1>1, <1>6, <2>1 DEF Pages
  <2>4. q = [r EXCEPT !.shown = 0, !.reloading = FALSE]
    <3>1. q = [Registered(n, fdocs, rdocs) EXCEPT !.shown = Len(n.feelsArray), !.reloading = FALSE]
      BY <1>5, <1>6 DEF Appeared
    <3> QED
      BY <1>4, <1>6, <2>2, <3>1
  <2> HIDE DEF q
  <2> QED
    BY <2>3, <2>4 DEF Pages
<1> HIDE DEF q
<1>8. TableSound(q)
  BY <1>4, <1>7 DEF TableSound, OpenSections
<1>9. Cardinality({}) = 0
  BY FS_EmptySet
<1>10. Shows(<<>>, {}, fdocs)
  BY <1>4, <1>9 DEF Shows, OnceIf
<1>11. RemovedAreGone(queue, fdocs)
  <2>1. \A i \in DOMAIN queue : i = 1 \/ i = 2
    BY <1>1
  <2> QED
    BY <1>2, <2>1 DEF RemovedAreGone
<1>12. FeelsSound(queue, <<>>, fdocs)
  BY <1>1, <1>10, <1>11 DEF FeelsSound
<1>13. ReactionsSound(queue, <<>>, rdocs)
  BY <1>1, <1>4, <1>9 DEF ReactionsSound
<1>14. PageSound(q, fdocs, rdocs)
  BY <1>7, <1>8, <1>12, <1>13 DEF PageSound
<1> QED
  BY <1>14 DEF q

\* A page that has taken a call and holds what it says.
LEMMA DeliveredPage ==
  ASSUME NEW p \in Pages, p.queue # <<>>
  PROVE  /\ Delivered(p) \in Pages
         /\ Delivered(p).queue = Tail(p.queue) /\ Delivered(p).reloading = TRUE
         /\ Delivered(p).feelsArray = p.feelsArray /\ Delivered(p).reactNibOpen = p.reactNibOpen
         /\ Delivered(p).reactionsArray = p.reactionsArray
         /\ Delivered(p).listeners = p.listeners /\ Delivered(p).shown = p.shown
         /\ Delivered(p).currentReact = p.currentReact
         /\ Delivered(p).listenToFeels = p.listenToFeels
<1> DEFINE queue == Tail(p.queue)
<1>1. queue \in Seq(Callbacks)
  BY PageTypes, TailElements
<1> HIDE DEF queue
<1>2. Delivered(p) = [p EXCEPT !.queue = queue, !.reloading = TRUE]
  BY DEF Delivered, queue
<1>3. \A q : q = [p EXCEPT !.queue = queue, !.reloading = TRUE] =>
         /\ q \in Pages
         /\ q.queue = queue /\ q.reloading = TRUE
         /\ q.feelsArray = p.feelsArray /\ q.reactNibOpen = p.reactNibOpen
         /\ q.reactionsArray = p.reactionsArray
         /\ q.listeners = p.listeners /\ q.shown = p.shown
         /\ q.currentReact = p.currentReact
         /\ q.listenToFeels = p.listenToFeels
  BY <1>1 DEF Pages
<1> QED
  BY <1>2, <1>3 DEF queue

\* A page that has sound parts and a reload queued is sound.
LEMMA SoundParts ==
  ASSUME NEW q \in Pages, NEW fdocs, NEW rdocs, q.listeners = 1, q.reloading = TRUE,
         Len(q.feelsArray) = Len(q.reactNibOpen), \A i, j \in OpenSections(q) : i = j,
         FeelsSound(q.queue, q.feelsArray, fdocs), ReactionsSound(q.queue, q.reactionsArray, rdocs)
  PROVE  PageSound(q, fdocs, rdocs)
  BY DEF PageSound, TableSound

\* The feels listener leaves a sound page, whatever it is called with.
LEMMA FeelsDelivered ==
  ASSUME NEW k, NEW p, p = pages[k], own \subseteq Feels, PageSound(p, feelsDoc, reactsDoc),
         p.queue # <<>>, DeliverFeels(k, Head(p.queue))
  PROVE  /\ crash' = crash
         /\ \E q : /\ pages' = [pages EXCEPT ![k] = q]
                   /\ PageSound(q, feelsDoc, reactsDoc)
                   /\ q.listenToFeels = p.listenToFeels
<1>1. /\ p \in Pages /\ TableSound(p)
      /\ FeelsSound(p.queue, p.feelsArray, feelsDoc)
      /\ ReactionsSound(p.queue, p.reactionsArray, reactsDoc)
  BY DEF PageSound
<1>2. /\ p.queue \in Seq(Callbacks) /\ p.feelsArray \in Seq(Feels)
      /\ p.reactNibOpen \in Seq(BOOLEAN) /\ p.reactionsArray \in Seq(Feels)
  BY <1>1, PageTypes
<1>3. PICK call : call = Head(p.queue)
  OBVIOUS
<1>4. call \in Callbacks /\ call.collection = "feels"
  BY <1>2, <1>3, TailElements DEF DeliverFeels
<1>5. PICK d : d = Delivered(p)
  OBVIOUS
<1>6. /\ d \in Pages
      /\ d.queue = Tail(p.queue) /\ d.reloading = TRUE
      /\ d.feelsArray = p.feelsArray /\ d.reactNibOpen = p.reactNibOpen
      /\ d.reactionsArray = p.reactionsArray
      /\ d.listeners = p.listeners /\ d.listenToFeels = p.listenToFeels
  BY <1>1, <1>5, DeliveredPage
<1>7. ReactionsSound(Tail(p.queue), p.reactionsArray, reactsDoc)
  <2>1. call.collection # "reactions"
    BY <1>4
  <2> QED
    BY <1>1, <1>2, <1>3, <2>1, ReactionsTaken
<1>8. /\ d.listeners = 1
      /\ Len(p.feelsArray) = Len(p.reactNibOpen)
      /\ \A i, j \in DOMAIN p.reactNibOpen : p.reactNibOpen[i] /\ p.reactNibOpen[j] => i = j
  BY <1>1, <1>6 DEF TableSound, OpenSections
<1>9. ASSUME call.type = "added"
      PROVE  /\ crash' = crash
             /\ \E q : /\ pages' = [pages EXCEPT ![k] = q]
                       /\ PageSound(q, feelsDoc, reactsDoc)
                       /\ q.listenToFeels = p.listenToFeels
  <2>1. PICK list, flags : list = ListedFeels(p.feelsArray, call.ids) /\ flags = OpenFlags(p.reactNibOpen, call.ids)
    OBVIOUS
  <2>2. PICK q : q = [d EXCEPT !.feelsArray = list, !.reactNibOpen = flags]
    OBVIOUS
  <2>3. crash' = crash /\ pages' = [pages EXCEPT ![k] = q]
    <3>1. /\ crash' = crash
          /\ pages' = [pages EXCEPT ![k] =
                         [d EXCEPT !.feelsArray = ListedFeels(d.feelsArray, call.ids),
                                   !.reactNibOpen = OpenFlags(d.reactNibOpen, call.ids)]]
      BY <1>3, <1>5, <1>9 DEF DeliverFeels
    <3> QED
      BY <1>6, <2>1, <2>2, <3>1
  <2>4. call.ids \in SUBSET Feels
    BY <1>4 DEF Callbacks
  <2>5. list \in Seq(Feels) /\ Len(list) = Cardinality(call.ids \ own) + Len(p.feelsArray) + Cardinality(call.ids)
    BY <1>2, <2>1, <2>4, ListedFeelsElements
  <2>6. /\ flags \in Seq(BOOLEAN)
        /\ Len(flags) = Cardinality(call.ids \ own) + Len(p.reactNibOpen) + Cardinality(call.ids)
        /\ \A i \in DOMAIN flags : flags[i] =>
              \E j \in DOMAIN p.reactNibOpen : i = Cardinality(call.ids \ own) + j /\ p.reactNibOpen[j]
    BY <1>2, <2>1, <2>4, OpenFlagsElements
  <2>7. FeelsSound(Tail(p.queue), list, feelsDoc)
    BY <1>1, <1>2, <1>3, <1>4, <1>9, <2>1, FeelsTaken
  <2>8. /\ q \in Pages
        /\ q.feelsArray = list /\ q.reactNibOpen = flags
        /\ q.queue = d.queue /\ q.reactionsArray = d.reactionsArray /\ q.listeners = d.listeners
        /\ q.reloading = d.reloading /\ q.listenToFeels = d.listenToFeels
    BY <1>6, <2>2, <2>5, <2>6 DEF Pages
  <2>9. \A i, j \in OpenSections(q) : i = j
    BY <1>8, <2>6, <2>8 DEF OpenSections
  <2>10. Len(q.feelsArray) = Len(q.reactNibOpen)
    BY <1>8, <2>5, <2>6, <2>8
  <2>11. PageSound(q, feelsDoc, reactsDoc)
    BY <1>6, <1>7, <1>8, <2>7, <2>8, <2>9, <2>10, SoundParts
  <2> QED
    BY <1>6, <2>3, <2>8, <2>11
<1>10. ASSUME call.type = "removed"
       PROVE  /\ crash' = crash
              /\ \E q : /\ pages' = [pages EXCEPT ![k] = q]
                        /\ PageSound(q, feelsDoc, reactsDoc)
                        /\ q.listenToFeels = p.listenToFeels
  <2>1. /\ (call.ids \subseteq own) => p.feelsArray # <<>>
        /\ FeelsSound(Tail(p.queue), IF call.ids \subseteq own THEN Tail(p.feelsArray) ELSE p.feelsArray, feelsDoc)
    BY <1>1, <1>2, <1>3, <1>4, <1>10, FeelsTaken
  <2>2. crash' = crash /\ pages' = [pages EXCEPT ![k] = FeelsRemoved(d, call.ids)]
    BY <1>3, <1>4, <1>5, <1>6, <1>10, <2>1 DEF DeliverFeels
  <2>3. CASE call.ids \subseteq own
    <3>1. PICK q : q = [d EXCEPT !.feelsArray = Tail(p.feelsArray), !.reactNibOpen = Tail(p.reactNibOpen)]
      OBVIOUS
    <3>2. pages' = [pages EXCEPT ![k] = q]
      BY <1>6, <2>2, <2>3, <3>1 DEF FeelsRemoved
    <3>3. Len(p.feelsArray) \in Nat /\ Len(p.feelsArray) >= 1 /\ p.reactNibOpen # <<>>
      BY <1>2, <1>8, <2>1, <2>3, TailElements, EmptyElements, LenProperties
    <3>4. /\ Tail(p.feelsArray) \in Seq(Feels)
          /\ Len(Tail(p.feelsArray)) = Len(p.feelsArray) - 1
      BY <1>2, <2>1, <2>3, TailElements
    <3>5. /\ Tail(p.reactNibOpen) \in Seq(BOOLEAN)
          /\ Len(Tail(p.reactNibOpen)) = Len(p.reactNibOpen) - 1
          /\ \A i \in 1 .. Len(p.reactNibOpen) - 1 : Tail(p.reactNibOpen)[i] = p.reactNibOpen[i + 1]
      BY <1>2, <3>3, TailElements
    <3>6. /\ q \in Pages
          /\ q.feelsArray = Tail(p.feelsArray) /\ q.reactNibOpen = Tail(p.reactNibOpen)
          /\ q.queue = d.queue /\ q.reactionsArray = d.reactionsArray /\ q.listeners = d.listeners
          /\ q.reloading = d.reloading /\ q.listenToFeels = d.listenToFeels
      BY <1>6, <3>1, <3>4, <3>5 DEF Pages
    <3>7. \A i, j \in OpenSections(q) : i = j
      <4>1. SUFFICES ASSUME NEW i \in DOMAIN q.reactNibOpen, NEW j \in DOMAIN q.reactNibOpen,
                            q.reactNibOpen[i], q.reactNibOpen[j]
                     PROVE  i = j
        BY DEF OpenSections
      <4>2. Len(p.reactNibOpen) \in Nat /\ DOMAIN p.reactNibOpen = 1 .. Len(p.reactNibOpen)
        BY <1>2, LenProperties
      <4>3. DOMAIN q.reactNibOpen = 1 .. Len(p.reactNibOpen) - 1
        BY <3>5, <3>6, LenProperties
      <4>4. i + 1 \in DOMAIN p.reactNibOpen /\ j + 1 \in DOMAIN p.reactNibOpen
        BY <4>2, <4>3
      <4>5. p.reactNibOpen[i + 1] /\ p.reactNibOpen[j + 1]
        BY <3>5, <3>6, <4>1, <4>3
      <4>6. i + 1 = j + 1
        BY <1>8, <4>4, <4>5
      <4> QED
        BY <4>3, <4>6
    <3>8. PageSound(q, feelsDoc, reactsDoc)
      <4>1. FeelsSound(Tail(p.queue), Tail(p.feelsArray), feelsDoc)
        BY <2>1, <2>3
      <4>2. Len(q.feelsArray) = Len(q.reactNibOpen)
        BY <1>8, <3>4, <3>5, <3>6
      <4> QED
        BY <1>6, <1>7, <1>8, <3>6, <3>7, <4>1, <4>2, SoundParts
    <3> QED
      BY <1>6, <2>2, <3>2, <3>6, <3>8
  <2>4. CASE ~(call.ids \subseteq own)
    <3>1. pages' = [pages EXCEPT ![k] = d]
      BY <2>2, <2>4 DEF FeelsRemoved
    <3>2. FeelsSound(Tail(p.queue), p.feelsArray, feelsDoc)
      BY <2>1, <2>4
    <3>3. \A i, j \in OpenSections(d) : i = j
      BY <1>6, <1>8 DEF OpenSections
    <3>4. PageSound(d, feelsDoc, reactsDoc)
      BY <1>6, <1>7, <1>8, <3>2, <3>3, SoundParts
    <3> QED
      BY <1>6, <2>2, <3>1, <3>4
  <2> QED
    BY <2>3, <2>4
<1>11. call.type = "added" \/ call.type = "removed"
  BY <1>3, <1>5 DEF DeliverFeels
<1> QED
  BY <1>9, <1>10, <1>11

\* The reactions listener leaves a sound page or stops the app, but never
\* because it finds its array empty.
LEMMA ReactsDelivered ==
  ASSUME NEW k, NEW p, p = pages[k], own \subseteq Feels, PageSound(p, feelsDoc, reactsDoc),
         p.queue # <<>>, DeliverReacts(k, Head(p.queue))
  PROVE  \/ crash' = "currentReact" /\ pages' = pages
         \/ /\ crash' = crash
            /\ \E q : /\ pages' = [pages EXCEPT ![k] = q]
                      /\ PageSound(q, feelsDoc, reactsDoc)
                      /\ q.listenToFeels = p.listenToFeels
<1>1. /\ p \in Pages /\ TableSound(p)
      /\ FeelsSound(p.queue, p.feelsArray, feelsDoc)
      /\ ReactionsSound(p.queue, p.reactionsArray, reactsDoc)
  BY DEF PageSound
<1>2. /\ p.queue \in Seq(Callbacks) /\ p.feelsArray \in Seq(Feels)
      /\ p.reactNibOpen \in Seq(BOOLEAN) /\ p.reactionsArray \in Seq(Feels)
  BY <1>1, PageTypes
<1>3. PICK call : call = Head(p.queue)
  OBVIOUS
<1>4. call \in Callbacks /\ call.collection = "reactions"
  BY <1>2, <1>3, TailElements DEF DeliverReacts
<1>5. call.ids \in SUBSET Feels
  BY <1>4 DEF Callbacks
<1>6. PICK d : d = Delivered(p)
  OBVIOUS
<1>7. /\ d \in Pages
      /\ d.queue = Tail(p.queue) /\ d.reloading = TRUE
      /\ d.feelsArray = p.feelsArray /\ d.reactNibOpen = p.reactNibOpen
      /\ d.reactionsArray = p.reactionsArray
      /\ d.listeners = p.listeners /\ d.listenToFeels = p.listenToFeels
  BY <1>1, <1>6, DeliveredPage
<1>8. FeelsSound(Tail(p.queue), p.feelsArray, feelsDoc)
  <2>1. call.collection # "feels"
    BY <1>4
  <2> QED
    BY <1>1, <1>2, <1>3, <2>1, FeelsTaken
<1>9. ASSUME NEW list \in Seq(Feels), ReactionsSound(Tail(p.queue), list, reactsDoc),
             pages' = [pages EXCEPT ![k] = [d EXCEPT !.reactionsArray = list]]
      PROVE  \E q : /\ pages' = [pages EXCEPT ![k] = q]
                    /\ PageSound(q, feelsDoc, reactsDoc)
                    /\ q.listenToFeels = p.listenToFeels
  <2>1. PICK q : q = [d EXCEPT !.reactionsArray = list]
    OBVIOUS
  <2>2. /\ q \in Pages
        /\ q.reactionsArray = list
        /\ q.queue = d.queue /\ q.feelsArray = d.feelsArray /\ q.reactNibOpen = d.reactNibOpen
        /\ q.listeners = d.listeners /\ q.reloading = d.reloading
        /\ q.listenToFeels = d.listenToFeels
    BY <1>7, <2>1 DEF Pages
  <2>3. /\ q.listeners = 1 /\ Len(q.feelsArray) = Len(q.reactNibOpen)
        /\ \A i, j \in OpenSections(q) : i = j
    BY <1>1, <1>7, <2>2 DEF TableSound, OpenSections
  <2>4. PageSound(q, feelsDoc, reactsDoc)
    BY <1>7, <1>8, <1>9, <2>2, <2>3, SoundParts
  <2> QED
    BY <1>7, <1>9, <2>1, <2>2, <2>4
<1>10. ASSUME call.type = "added"
       PROVE  /\ crash' = crash
              /\ \E q : /\ pages' = [pages EXCEPT ![k] = q]
                        /\ PageSound(q, feelsDoc, reactsDoc)
                        /\ q.listenToFeels = p.listenToFeels
  <2>1. PICK list : list = p.reactionsArray \o Newest(call.ids)
    OBVIOUS
  <2>2. list \in Seq(Feels)
    <3>1. Newest(call.ids) \in Seq(call.ids)
      BY <1>5, NewestList
    <3>2. Newest(call.ids) \in Seq(Feels)
      BY <1>5, <3>1
    <3> QED
      BY <1>2, <2>1, <3>2, ConcatProperties
  <2>3. ReactionsSound(Tail(p.queue), list, reactsDoc)
    BY <1>1, <1>2, <1>3, <1>4, <1>10, <2>1, ReactionsTaken
  <2>4. /\ crash' = crash
        /\ pages' = [pages EXCEPT ![k] = [d EXCEPT !.reactionsArray = d.reactionsArray \o Newest(call.ids)]]
    BY <1>3, <1>6, <1>10 DEF DeliverReacts
  <2> QED
    BY <1>7, <1>9, <2>1, <2>2, <2>3, <2>4
<1>11. ASSUME call.type = "modified"
       PROVE  \/ crash' = "currentReact" /\ pages' = pages
              \/ /\ crash' = crash
                 /\ \E q : /\ pages' = [pages EXCEPT ![k] = q]
                           /\ PageSound(q, feelsDoc, reactsDoc)
                           /\ q.listenToFeels = p.listenToFeels
  <2>1. CASE d.currentReact \in DOMAIN d.reactionsArray
    <3>1. PICK f \in call.ids :
             pages' = [pages EXCEPT ![k] = [d EXCEPT !.reactionsArray[d.currentReact] = f]]
      BY <1>3, <1>6, <1>11, <2>1 DEF DeliverReacts
    <3>2. crash' = crash
      BY <1>3, <1>6, <1>11, <2>1 DEF DeliverReacts
    <3>3. PICK list : list = [p.reactionsArray EXCEPT ![d.currentReact] = f]
      OBVIOUS
    <3>4. list \in Seq(Feels) /\ Len(list) = Len(p.reactionsArray)
      <4>1. DOMAIN p.reactionsArray = 1 .. Len(p.reactionsArray) /\ Len(p.reactionsArray) \in Nat
        BY <1>2, LenProperties
      <4>2. p.reactionsArray \in [1 .. Len(p.reactionsArray) -> Feels] /\ f \in Feels
        BY <1>2, <1>5, SeqDef, LenProperties, ElementOfSeq
      <4>3. list \in [1 .. Len(p.reactionsArray) -> Feels]
        BY <3>3, <4>2
      <4> QED
        BY <4>1, <4>3, SeqDef, LenProperties
    <3>5. ReactionsSound(Tail(p.queue), list, reactsDoc)
      BY <1>1, <1>2, <1>3, <1>11, <3>4, ReactionsTaken
    <3>6. pages' = [pages EXCEPT ![k] = [d EXCEPT !.reactionsArray = list]]
      BY <1>7, <3>1, <3>3
    <3> QED
      BY <1>9, <3>2, <3>4, <3>5, <3>6
  <2>2. CASE d.currentReact \notin DOMAIN d.reactionsArray
    BY <1>3, <1>6, <1>11, <2>2 DEF DeliverReacts
  <2> QED
    BY <2>1, <2>2
<1>12. ASSUME call.type = "removed"
       PROVE  /\ crash' = crash
              /\ \E q : /\ pages' = [pages EXCEPT ![k] = q]
                        /\ PageSound(q, feelsDoc, reactsDoc)
                        /\ q.listenToFeels = p.listenToFeels
  <2>1. /\ p.reactionsArray # <<>>
        /\ ReactionsSound(Tail(p.queue), Tail(p.reactionsArray), reactsDoc)
    BY <1>1, <1>2, <1>3, <1>4, <1>12, ReactionsTaken
  <2>2. /\ crash' = crash
        /\ pages' = [pages EXCEPT ![k] = [d EXCEPT !.reactionsArray = Tail(d.reactionsArray)]]
    BY <1>3, <1>6, <1>7, <1>12, <2>1 DEF DeliverReacts
  <2>3. Tail(p.reactionsArray) \in Seq(Feels)
    BY <1>2, <2>1, TailElements
  <2> QED
    BY <1>7, <1>9, <2>1, <2>2, <2>3
<1>13. call.type \in {"added", "modified", "removed"}
  BY <1>3, <1>6 DEF DeliverReacts
<1> QED
  BY <1>10, <1>11, <1>12, <1>13

\* Laying out the rows brings the table up to date, or stops the app.
LEMMA LaidOut ==
  ASSUME NEW p \in Pages, NEW fdocs, NEW rdocs, p.listeners = 1,
         Len(p.feelsArray) = Len(p.reactNibOpen), \A i, j \in OpenSections(p) : i = j,
         FeelsSound(p.queue, p.feelsArray, fdocs), ReactionsSound(p.queue, p.reactionsArray, rdocs),
         LayOut(p)
  PROVE  \/ crash' = "noReactions" /\ pages' = pages
         \/ /\ crash' = crash
            /\ \E q : /\ pages' = [pages EXCEPT ![Len(pages)] = q]
                      /\ PageSound(q, fdocs, rdocs)
<1>1. /\ p.feelsArray \in Seq(Feels) /\ p.reactNibOpen \in Seq(BOOLEAN)
      /\ p.reactionsArray \in Seq(Feels)
  BY PageTypes
<1>2. Len(p.feelsArray) \in Nat
  BY <1>1, LenProperties
<1>3. PICK q : q = [p EXCEPT !.shown = Len(p.feelsArray), !.reloading = FALSE, !.bound = None]
  OBVIOUS
<1>4. /\ q \in Pages
      /\ q.shown = Len(q.feelsArray) /\ q.feelsArray = p.feelsArray /\ q.reactNibOpen = p.reactNibOpen
      /\ q.reactionsArray = p.reactionsArray /\ q.listeners = p.listeners /\ q.queue = p.queue
  BY <1>2, <1>3 DEF Pages
<1>5. PageSound(q, fdocs, rdocs)
  BY <1>4 DEF PageSound, TableSound, OpenSections
<1>6. ASSUME NEW i \in OpenSections(p), i \in DOMAIN p.reactionsArray
      PROVE  PageSound([q EXCEPT !.currentReact = i, !.bound = p.reactionsArray[i]], fdocs, rdocs)
  <2>1. PICK r : r = [q EXCEPT !.currentReact = i, !.bound = p.reactionsArray[i]]
    OBVIOUS
  <2>2. i \in Nat /\ p.reactionsArray[i] \in Feels
    BY <1>1, <1>6, LenProperties, ElementOfSeq
  <2>3. /\ r \in Pages
        /\ r.shown = q.shown /\ r.feelsArray = q.feelsArray /\ r.reactNibOpen = q.reactNibOpen
        /\ r.reactionsArray = q.reactionsArray /\ r.listeners = q.listeners /\ r.queue = q.queue
        /\ r.reloading = q.reloading
    BY <1>4, <2>1, <2>2 DEF Pages
  <2>4. PageSound(r, fdocs, rdocs)
    BY <1>4, <1>5, <2>3 DEF PageSound, TableSound, OpenSections
  <2> QED
    BY <2>1, <2>4
<1>7. CASE pages' = [pages EXCEPT ![Len(pages)] = q] /\ UNCHANGED crash
  BY <1>5, <1>7
<1>8. ASSUME NEW i \in OpenSections(p),
             IF i \in DOMAIN p.reactionsArray
             THEN /\ pages' = [pages EXCEPT ![Len(pages)] =
                        [q EXCEPT !.currentReact = i, !.bound = p.reactionsArray[i]]]
                  /\ UNCHANGED crash
             ELSE crash' = "noReactions" /\ UNCHANGED pages
      PROVE  \/ crash' = "noReactions" /\ pages' = pages
             \/ /\ crash' = crash
                /\ \E r : /\ pages' = [pages EXCEPT ![Len(pages)] = r]
                          /\ PageSound(r, fdocs, rdocs)
  BY <1>6, <1>8
<1> QED
  BY <1>3, <1>7, <1>8 DEF LayOut

\* A page that is covered, and one that comes back.
LEMMA CoveredPage ==
  ASSUME NEW p, NEW fdocs, NEW rdocs, PageSound(p, fdocs, rdocs)
  PROVE  PageSound(Disappeared(p), fdocs, rdocs) /\ ~Disappeared(p).listenToFeels
<1>1. PICK q : q = Disappeared(p)
  OBVIOUS
<1>2. q = [p EXCEPT !.listenToFeels = FALSE, !.bound = None]
  BY <1>1 DEF Disappeared
<1>3. /\ q \in Pages /\ q.listenToFeels = FALSE
      /\ q.shown = p.shown /\ q.feelsArray = p.feelsArray /\ q.reactNibOpen = p.reactNibOpen
      /\ q.reactionsArray = p.reactionsArray /\ q.listeners = p.listeners /\ q.queue = p.queue
      /\ q.reloading = p.reloading
  BY <1>2 DEF PageSound, Pages
<1>4. PageSound(q, fdocs, rdocs)
  BY <1>3 DEF PageSound, TableSound, OpenSections
<1> QED
  BY <1>1, <1>3, <1>4

LEMMA PageBack ==
  ASSUME NEW p, NEW fdocs, NEW rdocs, PageSound(p, fdocs, rdocs), ~p.listenToFeels
  PROVE  PageSound(Appeared(p, fdocs, rdocs), fdocs, rdocs)
<1>1. PICK q : q = Appeared(p, fdocs, rdocs)
  OBVIOUS
<1>2. q = [p EXCEPT !.shown = Len(p.feelsArray), !.reloading = FALSE]
  BY <1>1 DEF Appeared
<1>3. p \in Pages /\ Len(p.feelsArray) \in Nat
  BY PageTypes, LenProperties DEF PageSound
<1>4. /\ q \in Pages
      /\ q.shown = Len(p.feelsArray) /\ q.feelsArray = p.feelsArray /\ q.reactNibOpen = p.reactNibOpen
      /\ q.reactionsArray = p.reactionsArray /\ q.listeners = p.listeners /\ q.queue = p.queue
  BY <1>2, <1>3 DEF Pages
<1>5. PageSound(q, fdocs, rdocs)
  BY <1>4 DEF PageSound, TableSound, OpenSections
<1> QED
  BY <1>1, <1>5

-----------------------------------------------------------------------------
(* Lemmas about the pages together. *)

\* Whose feels they are never changes, so a page is sound before as after.
LEMMA SameOwner ==
  ASSUME own' = own, \A k \in DOMAIN pages' : PageSound(pages'[k], feelsDoc', reactsDoc')
  PROVE  PagesSound'
  BY DEF PagesSound, PageSound, FeelsSound, Shows, OwnKept, OnceIf

\* One page changes.
LEMMA OnePageChanged ==
  ASSUME pages \in Seq(Pages), NEW k \in DOMAIN pages, NEW q, PagesSound,
         PageSound(q, feelsDoc, reactsDoc), pages' = [pages EXCEPT ![k] = q],
         UNCHANGED <<own, feelsDoc, reactsDoc>>
  PROVE  /\ pages' \in Seq(Pages) /\ PagesSound'
         /\ Len(pages') = Len(pages) /\ DOMAIN pages' = DOMAIN pages
         /\ pages'[k] = q
         /\ \A j \in DOMAIN pages : j # k => pages'[j] = pages[j]
<1>1. /\ DOMAIN pages = 1 .. Len(pages) /\ Len(pages) \in Nat
      /\ pages \in [1 .. Len(pages) -> Pages]
  BY LenProperties, SeqDef
<1>2. q \in Pages
  BY DEF PageSound
<1>3. /\ pages' \in [1 .. Len(pages) -> Pages]
      /\ pages'[k] = q
      /\ \A j \in DOMAIN pages : j # k => pages'[j] = pages[j]
  BY <1>1, <1>2
<1>4. pages' \in Seq(Pages) /\ Len(pages') = Len(pages) /\ DOMAIN pages' = DOMAIN pages
  BY <1>1, <1>3, SeqDef, LenProperties
<1>5. \A j \in DOMAIN pages' : PageSound(pages'[j], feelsDoc', reactsDoc')
  BY <1>3, <1>4 DEF PagesSound
<1> QED
  BY <1>3, <1>4, <1>5, SameOwner

\* All of them are called with a change.
LEMMA AllHear ==
  ASSUME NEW pgs \in Seq(Pages), NEW call \in Callbacks,
         NEW fdocs, NEW rdocs, NEW fdocs2, NEW rdocs2, own \subseteq Feels,
         \A k \in DOMAIN pgs : PageSound(pgs[k], fdocs, rdocs),
         Tells(Live(fdocs), call, "feels", Live(fdocs2)),
         \A f \in Feels : fdocs[f] = "gone" => fdocs2[f] = "gone",
         (call.collection = "feels" /\ call.type = "removed")
            => \A f \in call.ids : fdocs2[f] = "gone",
         Tells(Live(rdocs), call, "reactions", Live(rdocs2))
  PROVE  /\ Raise(pgs, call) \in Seq(Pages)
         /\ Len(Raise(pgs, call)) = Len(pgs)
         /\ DOMAIN Raise(pgs, call) = DOMAIN pgs
         /\ \A k \in DOMAIN pgs :
               /\ Raise(pgs, call)[k].listenToFeels = pgs[k].listenToFeels
               /\ PageSound(Raise(pgs, call)[k], fdocs2, rdocs2)
<1>1. DOMAIN pgs = 1 .. Len(pgs) /\ Len(pgs) \in Nat
  BY LenProperties
<1>2. ASSUME NEW k \in DOMAIN pgs
      PROVE  Raise(pgs, call)[k] = [pgs[k] EXCEPT !.queue = Append(pgs[k].queue, call)]
  <2>1. pgs[k].listeners = 1 /\ pgs[k].queue \in Seq(Callbacks)
    BY PageTypes DEF PageSound, TableSound
  <2>2. Raise(pgs, call)[k]
          = [pgs[k] EXCEPT !.queue = pgs[k].queue \o [i \in 1 .. pgs[k].listeners |-> call]]
    BY DEF Raise
  <2>3. [i \in 1 .. 1 |-> call] = <<call>>
    OBVIOUS
  <2>4. pgs[k].queue \o <<call>> = Append(pgs[k].queue, call)
    BY <2>1, AppendIsConcat
  <2> QED
    BY <2>1, <2>2, <2>3, <2>4
<1>3. \A k \in DOMAIN pgs : PageSound([pgs[k] EXCEPT !.queue = Append(pgs[k].queue, call)], fdocs2, rdocs2)
  BY PageHears
<1>4. \A k \in DOMAIN pgs : PageSound(Raise(pgs, call)[k], fdocs2, rdocs2)
  BY <1>2, <1>3
<1>5. Raise(pgs, call) \in [1 .. Len(pgs) -> Pages]
  <2>1. \A k \in DOMAIN pgs : Raise(pgs, call)[k] \in Pages
    BY <1>4 DEF PageSound
  <2>2. Raise(pgs, call) = [k \in 1 .. Len(pgs) |-> Raise(pgs, call)[k]]
    BY <1>1 DEF Raise
  <2> QED
    BY <1>1, <2>1, <2>2
<1>6. \A k \in DOMAIN pgs : Raise(pgs, call)[k].listenToFeels = pgs[k].listenToFeels
  <2>1. \A k \in DOMAIN pgs : pgs[k] \in Pages
    BY ElementOfSeq
  <2> QED
    BY <1>2, <2>1 DEF Pages
<1> QED
  BY <1>1, <1>4, <1>5, <1>6, SeqDef, LenProperties

\* A page is pushed on top.
LEMMA PagePushed ==
  ASSUME NEW pgs \in Seq(Pages), NEW q, NEW fdocs, NEW rdocs,
         \A k \in DOMAIN pgs : PageSound(pgs[k], fdocs, rdocs), PageSound(q, fdocs, rdocs)
  PROVE  /\ Append(pgs, q) \in Seq(Pages) \ {<<>>}
         /\ Len(Append(pgs, q)) = Len(pgs) + 1
         /\ \A k \in DOMAIN pgs : Append(pgs, q)[k] = pgs[k]
         /\ \A k \in DOMAIN Append(pgs, q) : PageSound(Append(pgs, q)[k], fdocs, rdocs)
<1>1. q \in Pages
  BY DEF PageSound
<1>2. /\ Append(pgs, q) \in Seq(Pages) /\ Append(pgs, q) # <<>>
      /\ Len(Append(pgs, q)) = Len(pgs) + 1
      /\ DOMAIN Append(pgs, q) = 1 .. Len(pgs) + 1
      /\ \A k \in 1 .. Len(pgs) : Append(pgs, q)[k] = pgs[k]
      /\ Append(pgs, q)[Len(pgs) + 1] = q
  BY <1>1, AppendElements
<1>3. DOMAIN pgs = 1 .. Len(pgs) /\ Len(pgs) \in Nat
  BY LenProperties
<1>4. ASSUME NEW k \in DOMAIN Append(pgs, q)
      PROVE  PageSound(Append(pgs, q)[k], fdocs, rdocs)
  <2>1. k \in DOMAIN pgs \/ k = Len(pgs) + 1
    BY <1>2, <1>3
  <2> QED
    BY <1>2, <1>3, <2>1
<1> QED
  BY <1>2, <1>3, <1>4

\* What the calls say of a document that is written or removed.
LEMMA TellsAdded ==
  ASSUME NEW docs \in [Feels -> DocStates], NEW f \in Feels, docs[f] # "live",
         NEW collection \in {"feels", "reactions"}
  PROVE  LET call == Callback(collection, "added", {f}) IN
         /\ call \in Callbacks
         /\ call.collection = collection /\ call.type = "added" /\ call.ids = {f}
         /\ Tells(Live(docs), call, collection, Live([docs EXCEPT ![f] = "live"]))
<1>1. PICK call : call = Callback(collection, "added", {f})
  OBVIOUS
<1>2. call \in Callbacks /\ call.collection = collection /\ call.type = "added" /\ call.ids = {f}
  BY <1>1 DEF Callback, Callbacks
<1>3. /\ Live([docs EXCEPT ![f] = "live"]) = Live(docs) \cup {f}
      /\ {f} \cap Live(docs) = {}
  BY DEF Live
<1>4. Tells(Live(docs), call, collection, Live([docs EXCEPT ![f] = "live"]))
  BY <1>2, <1>3 DEF Tells
<1> QED
  BY <1>1, <1>2, <1>4

LEMMA TellsRemoved ==
  ASSUME NEW docs \in [Feels -> DocStates], NEW f \in Feels, docs[f] = "live",
         NEW collection \in {"feels", "reactions"}
  PROVE  LET call == Callback(collection, "removed", {f}) IN
         /\ call \in Callbacks
         /\ call.collection = collection /\ call.type = "removed" /\ call.ids = {f}
         /\ Tells(Live(docs), call, collection, Live([docs EXCEPT ![f] = "gone"]))
<1>1. PICK call : call = Callback(collection, "removed", {f})
  OBVIOUS
<1>2. call \in Callbacks /\ call.collection = collection /\ call.type = "removed" /\ call.ids = {f}
  BY <1>1 DEF Callback, Callbacks
<1>3. /\ Live([docs EXCEPT ![f] = "gone"]) = Live(docs) \ {f}
      /\ f \in Live(docs)
  BY DEF Live
<1>4. Tells(Live(docs), call, collection, Live([docs EXCEPT ![f] = "gone"]))
  BY <1>2, <1>3 DEF Tells
<1> QED
  BY <1>1, <1>2, <1>4

\* ... and of one that is not.
LEMMA TellsNothing ==
  ASSUME NEW docs, NEW call, NEW collection,
         call.collection # collection \/ call.type = "modified"
  PROVE  Tells(Live(docs), call, collection, Live(docs))
  BY DEF Tells

-----------------------------------------------------------------------------
(* Lemmas about the pages of trashcans. *)

LEMMA OneContentsChanged ==
  ASSUME contents \in Seq(Contents), NEW k \in DOMAIN contents, NEW c \in Contents,
         TrashcanRowsExist, c.shown <= Len(c.feelsArray), contents' = [contents EXCEPT ![k] = c]
  PROVE  /\ contents' \in Seq(Contents) /\ TrashcanRowsExist'
         /\ Len(contents') = Len(contents) /\ DOMAIN contents' = DOMAIN contents
         /\ contents'[k] = c
         /\ \A j \in DOMAIN contents : j # k => contents'[j] = contents[j]
<1>1. /\ DOMAIN contents = 1 .. Len(contents) /\ Len(contents) \in Nat
      /\ contents \in [1 .. Len(contents) -> Contents]
  BY LenProperties, SeqDef
<1>2. /\ contents' \in [1 .. Len(contents) -> Contents]
      /\ contents'[k] = c
      /\ \A j \in DOMAIN contents : j # k => contents'[j] = contents[j]
  BY <1>1
<1>3. contents' \in Seq(Contents) /\ Len(contents') = Len(contents) /\ DOMAIN contents' = DOMAIN contents
  BY <1>1, <1>2, SeqDef, LenProperties
<1>4. TrashcanRowsExist'
  BY <1>2, <1>3 DEF TrashcanRowsExist
<1> QED
  BY <1>2, <1>3, <1>4

\* The top one lists what it should after a call about feels that are new.
LEMMA ContentsHear ==
  ASSUME contents \in Seq(Contents), TrashcanRowsExist, NEW call \in Callbacks,
         contents' = RaiseContents(contents, call)
  PROVE  /\ contents' \in Seq(Contents) /\ TrashcanRowsExist'
         /\ Len(contents') = Len(contents) /\ DOMAIN contents' = DOMAIN contents
         /\ \A k \in DOMAIN contents :
               /\ contents'[k].trashcan = contents[k].trashcan
               /\ contents'[k].feelsArray = contents[k].feelsArray
               /\ contents'[k].queue \in {contents[k].queue, Append(contents[k].queue, call)}
               /\ (call.collection = "feels" /\ call.type = "added")
                     => contents'[k].queue = Append(contents[k].queue, call)
               /\ (call.collection = "feels" /\ call.type # "added")
                     => contents'[k].queue = contents[k].queue
<1>1. /\ DOMAIN contents = 1 .. Len(contents) /\ Len(contents) \in Nat
      /\ \A k \in DOMAIN contents : contents[k] \in Contents
  BY LenProperties, ElementOfSeq
<1>2. ASSUME NEW k \in DOMAIN contents
      PROVE  /\ contents'[k] \in Contents
             /\ contents'[k].trashcan = contents[k].trashcan
             /\ contents'[k].feelsArray = contents[k].feelsArray
             /\ contents'[k].shown = contents[k].shown
             /\ contents'[k].queue \in {contents[k].queue, Append(contents[k].queue, call)}
             /\ (call.collection = "feels" /\ call.type = "added")
                   => contents'[k].queue = Append(contents[k].queue, call)
             /\ (call.collection = "feels" /\ call.type # "added")
                   => contents'[k].queue = contents[k].queue
  <2>1. PICK c : c = contents[k]
    OBVIOUS
  <2>2. c \in Contents /\ c.queue \in Seq(Callbacks)
    BY <1>1, <2>1 DEF Contents
  <2>3. PICK queue : queue = Append(c.queue, call)
    OBVIOUS
  <2>4. queue \in Seq(Callbacks)
    BY <2>2, <2>3, AppendElements
  <2>5. CASE <<call.collection, call.type>> \in {<<"feels", "added">>, <<"reactions", "modified">>}
    <3>1. contents'[k] = [c EXCEPT !.queue = queue]
      BY <2>1, <2>3, <2>5 DEF RaiseContents
    <3>2. ~(call.collection = "feels" /\ call.type # "added")
      BY <2>5
    <3>3. /\ contents'[k] \in Contents /\ contents'[k].trashcan = c.trashcan
          /\ contents'[k].feelsArray = c.feelsArray /\ contents'[k].shown = c.shown
          /\ contents'[k].queue = queue
      BY <2>2, <2>4, <3>1 DEF Contents
    <3> QED
      BY <2>1, <2>3, <3>2, <3>3
  <2>6. CASE <<call.collection, call.type>> \notin {<<"feels", "added">>, <<"reactions", "modified">>}
    <3>1. contents'[k] = c
      BY <2>1, <2>6 DEF RaiseContents
    <3>2. ~(call.collection = "feels" /\ call.type = "added")
      BY <2>6
    <3> QED
      BY <2>1, <2>2, <3>1, <3>2
  <2> QED
    BY <2>5, <2>6
<1>3. contents' \in [1 .. Len(contents) -> Contents]
  <2>1. contents' = [k \in 1 .. Len(contents) |-> contents'[k]]
    BY <1>1 DEF RaiseContents
  <2> QED
    BY <1>1, <1>2, <2>1
<1>4. contents' \in Seq(Contents) /\ Len(contents') = Len(contents) /\ DOMAIN contents' = DOMAIN contents
  BY <1>1, <1>3, SeqDef, LenProperties
<1>5. TrashcanRowsExist'
  BY <1>2, <1>4 DEF TrashcanRowsExist
<1> QED
  BY <1>2, <1>4, <1>5

\* A page lists what it should after a call that tells of feels that are new.
LEMMA ListsOwnHears ==
  ASSUME NEW c, NEW c2, NEW docs, NEW docs2, NEW f, NEW call \in Callbacks,
         c.queue \in Seq(Callbacks), ListsOwn(c, docs, f),
         c2.trashcan = c.trashcan, c2.feelsArray = c.feelsArray,
         c2.queue = Append(c.queue, call),
         (call.collection = "feels" /\ f \in call.ids) => docs[f] = "none" /\ docs2[f] # "none",
         ~(call.collection = "feels" /\ f \in call.ids) => (docs2[f] = "live" => docs[f] = "live"),
         docs[f] # "none" => docs2[f] # "none"
  PROVE  ListsOwn(c2, docs2, f)
<1> DEFINE n == Len(c.queue)
           Pending(i) == c2.queue[i].collection = "feels" /\ f \in c2.queue[i].ids
<1>1. /\ n \in Nat
      /\ DOMAIN c.queue = 1 .. n
      /\ DOMAIN c2.queue = 1 .. n + 1
      /\ \A i \in 1 .. n : c2.queue[i] = c.queue[i]
      /\ c2.queue[n + 1] = call
  BY AppendElements, LenProperties
<1> HIDE DEF n
<1>2. ASSUME NEW i \in DOMAIN c2.queue, Pending(i)
      PROVE  /\ docs2[f] # "none" /\ \A j \in DOMAIN c.feelsArray : c.feelsArray[j] # f
             /\ \A j \in DOMAIN c2.queue : Pending(j) => i = j
  <2>1. CASE call.collection = "feels" /\ f \in call.ids
    <3>1. docs[f] = "none" /\ docs2[f] # "none"
      BY <2>1
    <3>2. \A j \in DOMAIN c2.queue : Pending(j) => j = n + 1
      <4>1. ASSUME NEW j \in DOMAIN c2.queue, Pending(j), j # n + 1
            PROVE  FALSE
        <5>1. j \in DOMAIN c.queue /\ c.queue[j] = c2.queue[j]
          BY <1>1, <4>1
        <5>2. docs[f] # "none"
          BY <4>1, <5>1 DEF ListsOwn
        <5> QED
          BY <3>1, <5>2
      <4> QED
        BY <4>1
    <3>3. \A j \in DOMAIN c.feelsArray : c.feelsArray[j] # f
      BY <3>1 DEF ListsOwn
    <3> QED
      BY <1>2, <3>1, <3>2, <3>3
  <2>2. CASE ~(call.collection = "feels" /\ f \in call.ids)
    <3>1. \A j \in DOMAIN c2.queue : Pending(j) => j \in DOMAIN c.queue /\ c.queue[j] = c2.queue[j]
      BY <1>1, <2>2
    <3>2. i \in DOMAIN c.queue /\ c.queue[i] = c2.queue[i]
      BY <1>2, <3>1
    <3>3. docs[f] # "none" /\ \A j \in DOMAIN c.feelsArray : c.feelsArray[j] # f
      BY <1>2, <3>2 DEF ListsOwn
    <3>4. \A j \in DOMAIN c2.queue : Pending(j) => i = j
      BY <1>2, <3>1, <3>2 DEF ListsOwn
    <3> QED
      BY <3>3, <3>4
  <2> QED
    BY <2>1, <2>2
<1>3. \A j \in DOMAIN c.feelsArray : c.feelsArray[j] = f => docs2[f] # "none" /\ f \in own \cap c.trashcan
  BY DEF ListsOwn
<1>4. ASSUME docs2[f] = "live", f \in own \cap c.trashcan
      PROVE  \/ \E j \in DOMAIN c.feelsArray : c.feelsArray[j] = f
             \/ \E i \in DOMAIN c2.queue : Pending(i)
  <2>1. CASE call.collection = "feels" /\ f \in call.ids
    <3>1. n + 1 \in DOMAIN c2.queue /\ Pending(n + 1)
      BY <1>1, <2>1
    <3> QED
      BY <3>1
  <2>2. CASE ~(call.collection = "feels" /\ f \in call.ids)
    <3>1. docs[f] = "live"
      BY <1>4, <2>2
    <3>2. ASSUME NEW i \in DOMAIN c.queue, c.queue[i].collection = "feels" /\ f \in c.queue[i].ids
          PROVE  i \in DOMAIN c2.queue /\ Pending(i)
      BY <1>1, <3>2
    <3> QED
      BY <1>4, <3>1, <3>2 DEF ListsOwn
  <2> QED
    BY <2>1, <2>2
<1>5. \A i, j \in DOMAIN c.feelsArray : c.feelsArray[i] = f /\ c.feelsArray[j] = f => i = j
  BY DEF ListsOwn
<1> QED
  BY <1>2, <1>3, <1>4, <1>5 DEF ListsOwn

\* ... and after a removal that it is not told of.
LEMMA ListsOwnKept ==
  ASSUME NEW c, NEW c2, NEW docs, NEW docs2, NEW f, ListsOwn(c, docs, f),
         c2.trashcan = c.trashcan, c2.feelsArray = c.feelsArray, c2.queue = c.queue,
         docs2[f] = "live" => docs[f] = "live", docs[f] # "none" => docs2[f] # "none"
  PROVE  ListsOwn(c2, docs2, f)
  BY DEF ListsOwn

\* The feels a call brings are listed, those of the user and the trashcan.
LEMMA ListsOwnTaken ==
  ASSUME NEW c \in Contents, c.queue # <<>>, NEW docs, NEW f \in Feels, ListsOwn(c, docs, f),
         own \subseteq Feels,
         Head(c.queue).collection = "feels", NEW c2, c2.trashcan = c.trashcan,
         c2.queue = Tail(c.queue),
         c2.feelsArray = c.feelsArray \o Newest(Kept(c, Head(c.queue).ids))
  PROVE  ListsOwn(c2, docs, f)
<1> DEFINE n == Len(c.queue)
           Pending(q, i) == q[i].collection = "feels" /\ f \in q[i].ids
<1>1. c.queue \in Seq(Callbacks) /\ c.feelsArray \in Seq(Feels) /\ c.trashcan \in SUBSET Feels
  BY DEF Contents
<1>2. /\ n \in Nat /\ n >= 1
      /\ DOMAIN c.queue = 1 .. n
      /\ DOMAIN c2.queue = 1 .. n - 1
      /\ \A i \in 1 .. n - 1 : c2.queue[i] = c.queue[i + 1]
      /\ Head(c.queue) = c.queue[1]
  BY <1>1, TailElements, LenProperties
<1>3. PICK call : call = Head(c.queue)
  OBVIOUS
<1>4. PICK new : new = Newest(Kept(c, call.ids))
  OBVIOUS
<1>5. Kept(c, call.ids) \in SUBSET Feels
  BY <1>1 DEF Kept
<1>6. /\ new \in Seq(Feels)
      /\ DOMAIN new = 1 .. Len(new) /\ Len(new) \in Nat
      /\ \A i \in DOMAIN new : new[i] \in Kept(c, call.ids)
      /\ \A i, j \in DOMAIN new : new[i] = new[j] => i = j
      /\ \A g \in Kept(c, call.ids) : \E i \in DOMAIN new : new[i] = g
  <2>1. /\ new \in Seq(Kept(c, call.ids))
        /\ Len(new) = Cardinality(Kept(c, call.ids))
        /\ \A i, j \in 1 .. Cardinality(Kept(c, call.ids)) : new[i] = new[j] => i = j
        /\ \A g \in Kept(c, call.ids) : \E i \in 1 .. Cardinality(Kept(c, call.ids)) : new[i] = g
    BY <1>4, <1>5, NewestList
  <2>2. new \in Seq(Feels)
    BY <1>5, <2>1
  <2>3. DOMAIN new = 1 .. Len(new) /\ Len(new) \in Nat
    BY <2>1, LenProperties
  <2>4. \A i \in DOMAIN new : new[i] \in Kept(c, call.ids)
    BY <2>1, <2>3, ElementOfSeq
  <2> QED
    BY <2>1, <2>2, <2>3, <2>4
<1> HIDE DEF n
<1>7. /\ DOMAIN c2.feelsArray = 1 .. Len(c.feelsArray) + Len(new)
      /\ Len(c.feelsArray) \in Nat
      /\ DOMAIN c.feelsArray = 1 .. Len(c.feelsArray)
      /\ \A i \in 1 .. Len(c.feelsArray) + Len(new) : c2.feelsArray[i] =
            IF i <= Len(c.feelsArray) THEN c.feelsArray[i] ELSE new[i - Len(c.feelsArray)]
  <2>1. c2.feelsArray = c.feelsArray \o new
    BY <1>3, <1>4
  <2>2. PICK old : old = c.feelsArray
    OBVIOUS
  <2>3. old \in Seq(Feels) /\ new \in Seq(Feels)
    BY <1>1, <1>6, <2>2
  <2>4. /\ old \o new \in Seq(Feels)
        /\ Len(old \o new) = Len(old) + Len(new)
        /\ \A i \in 1 .. Len(old) + Len(new) : (old \o new)[i] =
              IF i <= Len(old) THEN old[i] ELSE new[i - Len(old)]
    BY <2>3, ConcatProperties
  <2>5. DOMAIN (old \o new) = 1 .. Len(old) + Len(new) /\ DOMAIN old = 1 .. Len(old) /\ Len(old) \in Nat
    BY <2>3, <2>4, LenProperties
  <2> QED
    BY <2>1, <2>2, <2>4, <2>5
<1>8. 1 \in DOMAIN c.queue /\ call = c.queue[1] /\ call.collection = "feels"
  BY <1>2, <1>3
<1>9. f \in call.ids => /\ docs[f] # "none"
                        /\ \A j \in DOMAIN c.feelsArray : c.feelsArray[j] # f
                        /\ \A i \in DOMAIN c.queue : Pending(c.queue, i) => i = 1
  BY <1>8 DEF ListsOwn
<1>10. \A i \in DOMAIN c2.queue : i + 1 \in DOMAIN c.queue /\ i + 1 # 1 /\ c2.queue[i] = c.queue[i + 1]
  BY <1>2
<1>11. \A i \in DOMAIN c2.queue : Pending(c2.queue, i) => f \notin call.ids /\ Pending(c.queue, i + 1)
  BY <1>9, <1>10
<1>12. ASSUME NEW i \in DOMAIN c2.feelsArray, c2.feelsArray[i] = f
       PROVE  \/ /\ i \in DOMAIN c.feelsArray /\ c.feelsArray[i] = f
                 /\ f \notin call.ids
              \/ /\ i - Len(c.feelsArray) \in DOMAIN new /\ new[i - Len(c.feelsArray)] = f
                 /\ f \in call.ids /\ f \in own \cap c.trashcan
  <2>1. CASE i <= Len(c.feelsArray)
    <3>1. i \in DOMAIN c.feelsArray /\ c.feelsArray[i] = f
      BY <1>7, <1>12, <2>1
    <3> QED
      BY <1>9, <3>1
  <2>2. CASE ~(i <= Len(c.feelsArray))
    <3>1. i - Len(c.feelsArray) \in DOMAIN new /\ new[i - Len(c.feelsArray)] = f
      <4>1. Len(new) \in Nat /\ DOMAIN new = 1 .. Len(new)
        BY <1>6
      <4>2. i \in 1 .. Len(c.feelsArray) + Len(new) /\ Len(c.feelsArray) \in Nat
        BY <1>7
      <4>3. i - Len(c.feelsArray) \in DOMAIN new
        BY <2>2, <4>1, <4>2
      <4>4. c2.feelsArray[i] = new[i - Len(c.feelsArray)]
        BY <1>7, <2>2, <4>2
      <4> QED
        BY <1>12, <4>3, <4>4
    <3>2. f \in Kept(c, call.ids)
      BY <1>6, <3>1
    <3> QED
      BY <3>1, <3>2 DEF Kept
  <2> QED
    BY <2>1, <2>2
<1>13. ASSUME NEW i \in DOMAIN c2.feelsArray, NEW j \in DOMAIN c2.feelsArray,
              c2.feelsArray[i] = f, c2.feelsArray[j] = f
       PROVE  i = j
  <2>1. CASE f \in call.ids
    <3>1. /\ i - Len(c.feelsArray) \in DOMAIN new /\ new[i - Len(c.feelsArray)] = f
          /\ j - Len(c.feelsArray) \in DOMAIN new /\ new[j - Len(c.feelsArray)] = f
      BY <1>12, <1>13, <2>1
    <3>2. PICK x \in DOMAIN new, y \in DOMAIN new :
             /\ x = i - Len(c.feelsArray) /\ new[x] = f
             /\ y = j - Len(c.feelsArray) /\ new[y] = f
      BY <3>1
    <3>3. x = y
      BY <1>6, <3>2
    <3>4. i \in Int /\ j \in Int /\ Len(c.feelsArray) \in Nat
      BY <1>7
    <3> QED
      BY <3>2, <3>3, <3>4
  <2>2. CASE f \notin call.ids
    BY <1>12, <1>13, <2>2 DEF ListsOwn
  <2> QED
    BY <2>1, <2>2
<1>14. ASSUME NEW i \in DOMAIN c2.queue, NEW j \in DOMAIN c2.queue, Pending(c2.queue, i), Pending(c2.queue, j)
       PROVE  i = j
  <2>1. i + 1 = j + 1
    BY <1>10, <1>11, <1>14 DEF ListsOwn
  <2> QED
    BY <1>2, <2>1
<1>15. ASSUME NEW i \in DOMAIN c2.queue, Pending(c2.queue, i)
       PROVE  docs[f] # "none" /\ \A j \in DOMAIN c2.feelsArray : c2.feelsArray[j] # f
  <2>1. f \notin call.ids /\ i + 1 \in DOMAIN c.queue /\ Pending(c.queue, i + 1)
    BY <1>10, <1>11, <1>15
  <2>2. docs[f] # "none" /\ \A j \in DOMAIN c.feelsArray : c.feelsArray[j] # f
    BY <2>1 DEF ListsOwn
  <2> QED
    BY <1>12, <2>1, <2>2
<1>16. ASSUME NEW j \in DOMAIN c2.feelsArray, c2.feelsArray[j] = f
       PROVE  docs[f] # "none" /\ f \in own \cap c.trashcan
  BY <1>9, <1>12, <1>16 DEF ListsOwn
<1>17. ASSUME docs[f] = "live", f \in own \cap c.trashcan
       PROVE  \/ \E j \in DOMAIN c2.feelsArray : c2.feelsArray[j] = f
              \/ \E i \in DOMAIN c2.queue : Pending(c2.queue, i)
  <2>1. CASE f \in call.ids
    <3>1. PICK i \in DOMAIN new : new[i] = f
      BY <1>6, <1>17, <2>1 DEF Kept
    <3>2. Len(c.feelsArray) + i \in DOMAIN c2.feelsArray /\ c2.feelsArray[Len(c.feelsArray) + i] = new[i]
      <4>1. /\ Len(c.feelsArray) + i \in 1 .. Len(c.feelsArray) + Len(new)
            /\ ~(Len(c.feelsArray) + i <= Len(c.feelsArray))
            /\ (Len(c.feelsArray) + i) - Len(c.feelsArray) = i
        BY <1>6, <1>7
      <4> QED
        BY <1>7, <4>1
    <3> QED
      BY <3>1, <3>2
  <2>2. CASE f \notin call.ids
    <3>1. ASSUME NEW j \in DOMAIN c.feelsArray, c.feelsArray[j] = f
          PROVE  j \in DOMAIN c2.feelsArray /\ c2.feelsArray[j] = f
      <4>1. Len(new) \in Nat /\ Len(c.feelsArray) \in Nat /\ j \in 1 .. Len(c.feelsArray)
        BY <1>6, <1>7
      <4>2. j \in 1 .. Len(c.feelsArray) + Len(new) /\ j <= Len(c.feelsArray)
        BY <4>1
      <4> QED
        BY <1>7, <3>1, <4>2
    <3>2. ASSUME NEW i \in DOMAIN c.queue, Pending(c.queue, i)
          PROVE  i - 1 \in DOMAIN c2.queue /\ Pending(c2.queue, i - 1)
      <4>1. i # 1
        BY <1>8, <2>2, <3>2
      <4>2. i - 1 \in 1 .. n - 1 /\ (i - 1) + 1 = i
        BY <1>2, <4>1
      <4> QED
        BY <1>2, <3>2, <4>2
    <3> QED
      BY <1>17, <3>1, <3>2 DEF ListsOwn
  <2> QED
    BY <2>1, <2>2
<1> QED
  BY <1>13, <1>14, <1>15, <1>16, <1>17 DEF ListsOwn

\* The page of an open trashcan lists what it should after a change of the
\* documents that its page was told of, or that only takes feels away.
LEMMA OpenTrashcanHears ==
  ASSUME contents \in Seq(Contents), TrashcanRowsExist, NEW call \in Callbacks,
         contents' = RaiseContents(contents, call), OpenTrashcanSound,
         own' = own, screen' = screen,
         \A f \in Feels : feelsDoc[f] # "none" => feelsDoc'[f] # "none",
         (call.collection = "feels" /\ call.type = "added")
            => \A f \in call.ids : feelsDoc[f] = "none" /\ feelsDoc'[f] # "none",
         \A f \in Feels : (feelsDoc'[f] = "live" /\ feelsDoc[f] # "live")
            => call.collection = "feels" /\ call.type = "added" /\ f \in call.ids
  PROVE  OpenTrashcanSound'
<1>0. CASE screen # "trashcan"
  BY <1>0 DEF OpenTrashcanSound
<1> SUFFICES ASSUME screen = "trashcan"
             PROVE  OpenTrashcanSound'
  BY <1>0
<1>1. contents # <<>> /\ \A f \in Feels : ListsOwn(contents[Len(contents)], feelsDoc, f)
  BY DEF OpenTrashcanSound
<1>2. /\ contents' \in Seq(Contents)
      /\ Len(contents') = Len(contents)
      /\ \A k \in DOMAIN contents :
            /\ contents'[k].trashcan = contents[k].trashcan
            /\ contents'[k].feelsArray = contents[k].feelsArray
            /\ contents'[k].queue \in {contents[k].queue, Append(contents[k].queue, call)}
            /\ (call.collection = "feels" /\ call.type = "added")
                  => contents'[k].queue = Append(contents[k].queue, call)
            /\ (call.collection = "feels" /\ call.type # "added")
                  => contents'[k].queue = contents[k].queue
  BY ContentsHear
<1>3. Len(contents) \in DOMAIN contents /\ contents' # <<>>
  BY <1>1, <1>2, EmptyElements, LenProperties
<1>4. PICK c : c = contents[Len(contents)]
  OBVIOUS
<1>5. PICK c2 : c2 = contents'[Len(contents)]
  OBVIOUS
<1>6. c \in Contents
  BY <1>3, <1>4, ElementOfSeq
<1>7. c.queue \in Seq(Callbacks)
  BY <1>6 DEF Contents
<1>8. /\ c2.trashcan = c.trashcan /\ c2.feelsArray = c.feelsArray
      /\ c2.queue \in {c.queue, Append(c.queue, call)}
      /\ (call.collection = "feels" /\ call.type = "added") => c2.queue = Append(c.queue, call)
      /\ (call.collection = "feels" /\ call.type # "added") => c2.queue = c.queue
  BY <1>2, <1>3, <1>4, <1>5
<1>9. ASSUME NEW f \in Feels
      PROVE  ListsOwn(c2, feelsDoc', f)
  <2>1. ListsOwn(c, feelsDoc, f)
    BY <1>1, <1>4
  <2>2. CASE c2.queue = Append(c.queue, call)
    <3>1. CASE call.collection = "feels" /\ call.type # "added"
      <4>1. c2.queue = c.queue
        BY <1>8, <3>1
      <4>2. feelsDoc'[f] = "live" => feelsDoc[f] = "live"
        BY <3>1
      <4> QED
        BY <1>8, <2>1, <4>1, <4>2, ListsOwnKept
    <3>2. CASE ~(call.collection = "feels" /\ call.type # "added")
      BY <1>7, <1>8, <2>1, <2>2, <3>2, ListsOwnHears
    <3> QED
      BY <3>1, <3>2
  <2>3. CASE c2.queue # Append(c.queue, call)
    <3>1. c2.queue = c.queue
      BY <1>8, <2>3
    <3>2. feelsDoc'[f] = "live" => feelsDoc[f] = "live"
      BY <1>8, <2>3
    <3> QED
      BY <1>8, <2>1, <3>1, <3>2, ListsOwnKept
  <2> QED
    BY <2>2, <2>3
<1>10. contents'[Len(contents')] = c2
  BY <1>2, <1>5
<1> QED
  BY <1>3, <1>9, <1>10 DEF OpenTrashcanSound, ListsOwn

-----------------------------------------------------------------------------
(* Lemmas about the kinds of steps. *)

\* There is a page on top.
LEMMA TopPage ==
  ASSUME TypeOK
  PROVE  Len(pages) \in DOMAIN pages /\ Top \in Pages
<1>1. pages \in Seq(Pages) /\ pages # <<>>
  BY DEF TypeOK
<1>2. Len(pages) \in DOMAIN pages
  BY <1>1, EmptyElements, LenProperties
<1> QED
  BY <1>1, <1>2, ElementOfSeq DEF Top

\* The app stops, at a place that is not a removal.
LEMMA AppStops ==
  ASSUME IInv, UNCHANGED <<setting, own, feelsDoc, reactsDoc, pages, contents, screen, reacts>>,
         crash' \in {"currentReact", "noReactions", "staleTable", "longPress",
                     "contentsReact", "topController"}
  PROVE  IInv'
<1>1. TypeOK' /\ NothingRemovedFromEmpty'
  BY DEF IInv, TypeOK, NothingRemovedFromEmpty
<1>2. PagesSound'
  BY SameOwner DEF IInv, PagesSound
<1>3. AwayIsRegistered' /\ FeelsHaveReactions' /\ TrashcanRowsExist'
  BY DEF IInv, AwayIsRegistered, Top, FeelsHaveReactions, Live, TrashcanRowsExist
<1>4. OpenTrashcanSound'
  BY DEF IInv, OpenTrashcanSound, ListsOwn
<1> QED
  BY <1>1, <1>2, <1>3, <1>4 DEF IInv

\* One page changes, and perhaps what covers the window.
LEMMA PageStep ==
  ASSUME IInv, NEW k \in DOMAIN pages, NEW q, PageSound(q, feelsDoc, reactsDoc),
         pages' = [pages EXCEPT ![k] = q],
         UNCHANGED <<setting, own, feelsDoc, reactsDoc, contents, reacts, crash>>,
         screen' \in Screens, screen' = "trashcan" => screen = "trashcan",
         \/ screen' \in {"feed", "composer"}
         \/ screen' = screen /\ q.listenToFeels = pages[k].listenToFeels
         \/ k = Len(pages) /\ ~q.listenToFeels
  PROVE  IInv'
<1>1. pages \in Seq(Pages) /\ pages # <<>> /\ Len(pages) \in DOMAIN pages
  BY TopPage DEF IInv, TypeOK
<1>2. /\ pages' \in Seq(Pages) /\ PagesSound'
      /\ Len(pages') = Len(pages) /\ DOMAIN pages' = DOMAIN pages
      /\ pages'[k] = q
      /\ \A j \in DOMAIN pages : j # k => pages'[j] = pages[j]
  BY <1>1, OnePageChanged DEF IInv
<1>3. pages' # <<>>
  BY <1>1, <1>2, EmptyElements, LenProperties
<1>4. TypeOK' /\ NothingRemovedFromEmpty'
  BY <1>2, <1>3 DEF IInv, TypeOK, NothingRemovedFromEmpty
<1>5. AwayIsRegistered'
  <2>1. CASE k = Len(pages)
    BY <1>2, <2>1 DEF IInv, AwayIsRegistered, Top
  <2>2. CASE k # Len(pages)
    BY <1>1, <1>2, <2>2 DEF IInv, AwayIsRegistered, Top
  <2> QED
    BY <2>1, <2>2
<1>6. FeelsHaveReactions' /\ TrashcanRowsExist'
  BY DEF IInv, FeelsHaveReactions, Live, TrashcanRowsExist
<1>7. OpenTrashcanSound'
  BY DEF IInv, OpenTrashcanSound, ListsOwn
<1> QED
  BY <1>2, <1>4, <1>5, <1>6, <1>7 DEF IInv

\* The pages of trashcans change, and perhaps one is opened or left.
LEMMA ContentsStep ==
  ASSUME IInv, contents' \in Seq(Contents), TrashcanRowsExist', OpenTrashcanSound',
         UNCHANGED <<setting, own, feelsDoc, reactsDoc, pages, reacts, crash>>,
         screen' \in Screens,
         screen' \in {"away", "trashcan"} => screen \in {"away", "trashcan"}
  PROVE  IInv'
<1>1. TypeOK' /\ NothingRemovedFromEmpty'
  BY DEF IInv, TypeOK, NothingRemovedFromEmpty
<1>2. PagesSound'
  BY SameOwner DEF IInv, PagesSound
<1>3. AwayIsRegistered' /\ FeelsHaveReactions'
  BY DEF IInv, AwayIsRegistered, Top, FeelsHaveReactions, Live
<1> QED
  BY <1>1, <1>2, <1>3 DEF IInv

\* All pages hear of a change of the documents.
LEMMA HeardStep ==
  ASSUME IInv, NEW call \in Callbacks, pages' = Raise(pages, call),
         UNCHANGED <<setting, own, screen, crash>>,
         contents' = RaiseContents(contents, call) \/ contents' = contents,
         feelsDoc' \in [Feels -> DocStates], reactsDoc' \in [Feels -> DocStates],
         reacts' \in 0 .. setting.reacts,
         Tells(Live(feelsDoc), call, "feels", Live(feelsDoc')),
         \A f \in Feels : feelsDoc[f] = "gone" => feelsDoc'[f] = "gone",
         (call.collection = "feels" /\ call.type = "removed")
            => \A f \in call.ids : feelsDoc'[f] = "gone",
         Tells(Live(reactsDoc), call, "reactions", Live(reactsDoc')),
         FeelsHaveReactions', OpenTrashcanSound'
  PROVE  IInv'
<1>1. pages \in Seq(Pages) /\ pages # <<>> /\ Len(pages) \in DOMAIN pages
  BY TopPage DEF IInv, TypeOK
<1>2. /\ pages' \in Seq(Pages)
      /\ Len(pages') = Len(pages) /\ DOMAIN pages' = DOMAIN pages
      /\ \A k \in DOMAIN pages :
            /\ pages'[k].listenToFeels = pages[k].listenToFeels
            /\ PageSound(pages'[k], feelsDoc', reactsDoc')
  <2>1. own \subseteq Feels /\ \A k \in DOMAIN pages : PageSound(pages[k], feelsDoc, reactsDoc)
    BY DEF IInv, TypeOK, PagesSound
  <2>2. PICK fdocs, rdocs : fdocs = feelsDoc' /\ rdocs = reactsDoc'
    OBVIOUS
  <2>3. /\ Tells(Live(feelsDoc), call, "feels", Live(fdocs))
        /\ \A f \in Feels : feelsDoc[f] = "gone" => fdocs[f] = "gone"
        /\ (call.collection = "feels" /\ call.type = "removed")
              => \A f \in call.ids : fdocs[f] = "gone"
        /\ Tells(Live(reactsDoc), call, "reactions", Live(rdocs))
    BY <2>2
  <2>4. /\ Raise(pages, call) \in Seq(Pages)
        /\ Len(Raise(pages, call)) = Len(pages)
        /\ DOMAIN Raise(pages, call) = DOMAIN pages
        /\ \A k \in DOMAIN pages :
              /\ Raise(pages, call)[k].listenToFeels = pages[k].listenToFeels
              /\ PageSound(Raise(pages, call)[k], fdocs, rdocs)
    BY <1>1, <2>1, <2>3, AllHear
  <2> QED
    BY <2>2, <2>4
<1>3. PagesSound'
  BY <1>2, SameOwner
<1>4. pages' # <<>>
  BY <1>1, <1>2, EmptyElements, LenProperties
<1>5. contents' \in Seq(Contents) /\ TrashcanRowsExist'
  <2>1. contents \in Seq(Contents) /\ TrashcanRowsExist
    BY DEF IInv, TypeOK
  <2>2. CASE contents' = RaiseContents(contents, call)
    BY <2>1, <2>2, ContentsHear
  <2>3. CASE contents' = contents
    BY <2>1, <2>3 DEF TrashcanRowsExist
  <2> QED
    BY <2>2, <2>3
<1>6. TypeOK' /\ NothingRemovedFromEmpty'
  BY <1>2, <1>4, <1>5 DEF IInv, TypeOK, NothingRemovedFromEmpty
<1>7. AwayIsRegistered'
  BY <1>1, <1>2 DEF IInv, AwayIsRegistered, Top
<1> QED
  BY <1>3, <1>5, <1>6, <1>7 DEF IInv

-----------------------------------------------------------------------------
(* One lemma per action. *)

\* Toggling a section opens no second one.
LEMMA ToggledFlags ==
  ASSUME NEW flags \in Seq(BOOLEAN), NEW i
  PROVE  /\ Toggled(flags, i) \in Seq(BOOLEAN) /\ Len(Toggled(flags, i)) = Len(flags)
         /\ \A j \in DOMAIN Toggled(flags, i) : Toggled(flags, i)[j] => j = i
<1>1. DOMAIN flags = 1 .. Len(flags) /\ Len(flags) \in Nat
  BY LenProperties
<1>2. Toggled(flags, i) \in [1 .. Len(flags) -> BOOLEAN]
  BY <1>1 DEF Toggled
<1>3. Toggled(flags, i) \in Seq(BOOLEAN) /\ Len(Toggled(flags, i)) = Len(flags)
  BY <1>1, <1>2, SeqDef, LenProperties
<1>4. \A j \in DOMAIN Toggled(flags, i) : Toggled(flags, i)[j] => j = i
  BY DEF Toggled
<1> QED
  BY <1>3, <1>4

LEMMA DeliverStep ==
  ASSUME IInv, NEW k, Deliver(k)
  PROVE  IInv'
<1>1. k \in DOMAIN pages /\ pages[k].queue # <<>>
  BY DEF Deliver
<1>2. PICK p : p = pages[k]
  OBVIOUS
<1>3. own \subseteq Feels /\ PageSound(p, feelsDoc, reactsDoc) /\ p.queue # <<>>
  BY <1>1, <1>2 DEF IInv, TypeOK, PagesSound
<1>4. screen \in Screens
  BY DEF IInv, TypeOK
<1>5. UNCHANGED <<setting, own, feelsDoc, reactsDoc, contents, screen, reacts>>
  BY DEF Deliver
<1>6. CASE DeliverFeels(k, Head(p.queue))
  <2>1. /\ crash' = crash
        /\ \E q : /\ pages' = [pages EXCEPT ![k] = q]
                  /\ PageSound(q, feelsDoc, reactsDoc)
                  /\ q.listenToFeels = p.listenToFeels
    BY <1>2, <1>3, <1>6, FeelsDelivered
  <2> QED
    BY <1>1, <1>2, <1>4, <1>5, <2>1, PageStep
<1>7. CASE DeliverReacts(k, Head(p.queue))
  <2>1. \/ crash' = "currentReact" /\ pages' = pages
        \/ /\ crash' = crash
           /\ \E q : /\ pages' = [pages EXCEPT ![k] = q]
                     /\ PageSound(q, feelsDoc, reactsDoc)
                     /\ q.listenToFeels = p.listenToFeels
    BY <1>2, <1>3, <1>7, ReactsDelivered
  <2>2. CASE crash' = "currentReact" /\ pages' = pages
    BY <1>5, <2>2, AppStops
  <2>3. CASE /\ crash' = crash
             /\ \E q : /\ pages' = [pages EXCEPT ![k] = q]
                       /\ PageSound(q, feelsDoc, reactsDoc)
                       /\ q.listenToFeels = p.listenToFeels
    BY <1>1, <1>2, <1>4, <1>5, <2>3, PageStep
  <2> QED
    BY <2>1, <2>2, <2>3
<1> QED
  BY <1>2, <1>6, <1>7 DEF Deliver

\* The table is laid out, from the arrays or from toggled ones.
LEMMA LayOutStep ==
  ASSUME IInv, screen = "feed", NEW p \in Pages, p.listeners = 1,
         Len(p.feelsArray) = Len(p.reactNibOpen), \A i, j \in OpenSections(p) : i = j,
         p.queue = Top.queue, p.feelsArray = Top.feelsArray,
         p.reactionsArray = Top.reactionsArray, LayOut(p),
         UNCHANGED <<setting, own, feelsDoc, reactsDoc, contents, screen, reacts>>
  PROVE  IInv'
<1>1. Len(pages) \in DOMAIN pages
  BY TopPage DEF IInv
<1>2. PageSound(Top, feelsDoc, reactsDoc)
  BY <1>1 DEF IInv, PagesSound, Top
<1>3. \/ crash' = "noReactions" /\ pages' = pages
      \/ /\ crash' = crash
         /\ \E q : /\ pages' = [pages EXCEPT ![Len(pages)] = q]
                   /\ PageSound(q, feelsDoc, reactsDoc)
  BY <1>2, LaidOut DEF PageSound
<1>4. CASE crash' = "noReactions" /\ pages' = pages
  BY <1>4, AppStops
<1>5. CASE /\ crash' = crash
           /\ \E q : /\ pages' = [pages EXCEPT ![Len(pages)] = q]
                     /\ PageSound(q, feelsDoc, reactsDoc)
  <2>1. screen' = "feed" /\ screen' \in Screens
    BY DEF Screens
  <2> QED
    BY <1>1, <1>5, <2>1, PageStep
<1> QED
  BY <1>3, <1>4, <1>5

LEMMA TopLaidOut ==
  ASSUME IInv, screen = "feed", LayOut(Top),
         UNCHANGED <<setting, own, feelsDoc, reactsDoc, contents, screen, reacts>>
  PROVE  IInv'
<1>1. Len(pages) \in DOMAIN pages /\ Top \in Pages
  BY TopPage DEF IInv
<1>2. PageSound(Top, feelsDoc, reactsDoc)
  BY <1>1 DEF IInv, PagesSound, Top
<1> QED
  BY <1>1, <1>2, LayOutStep DEF PageSound, TableSound

LEMMA ReloadStep ==
  ASSUME IInv, Reload
  PROVE  IInv'
  BY TopLaidOut DEF Reload, OnFeed

LEMMA ScrollStep ==
  ASSUME IInv, Scroll
  PROVE  IInv'
<1>1. CASE Top.shown > Len(Top.feelsArray)
  BY <1>1, AppStops DEF Scroll
<1>2. CASE ~(Top.shown > Len(Top.feelsArray))
  BY <1>2, TopLaidOut DEF Scroll, OnFeed
<1> QED
  BY <1>1, <1>2

LEMMA SelectStep ==
  ASSUME IInv, NEW i, Select(i)
  PROVE  IInv'
<1>1. CASE Top.shown # Len(Top.feelsArray)
  BY <1>1, AppStops DEF Select
<1>2. CASE Top.shown = Len(Top.feelsArray)
  <2>1. Len(pages) \in DOMAIN pages
    BY TopPage DEF IInv
  <2>2. PICK p : p = Top
    OBVIOUS
  <2>3. p \in Pages /\ p.listeners = 1 /\ Len(p.feelsArray) = Len(p.reactNibOpen)
    BY <2>1, <2>2 DEF IInv, PagesSound, Top, PageSound, TableSound
  <2>4. PICK flags : flags = Toggled(p.reactNibOpen, i)
    OBVIOUS
  <2>5. /\ flags \in Seq(BOOLEAN) /\ Len(flags) = Len(p.reactNibOpen)
        /\ \A j \in DOMAIN flags : flags[j] => j = i
    BY <2>3, <2>4, PageTypes, ToggledFlags
  <2>6. PICK q : q = [p EXCEPT !.reactNibOpen = flags]
    OBVIOUS
  <2>7. /\ q \in Pages /\ q.listeners = p.listeners /\ q.queue = p.queue
        /\ q.feelsArray = p.feelsArray /\ q.reactNibOpen = flags
        /\ q.reactionsArray = p.reactionsArray
    BY <2>3, <2>5, <2>6 DEF Pages
  <2>8. \A j, m \in OpenSections(q) : j = m
    BY <2>5, <2>7 DEF OpenSections
  <2>9. LayOut(q)
    BY <1>2, <2>2, <2>4, <2>6 DEF Select
  <2> QED
    BY <2>2, <2>3, <2>5, <2>7, <2>8, <2>9, LayOutStep DEF Select, OnFeed
<1> QED
  BY <1>1, <1>2

\* A reactions document is written: every page hears of it.
LEMMA WriteReactionsStep ==
  ASSUME IInv, NEW f \in Feels, WriteReactions(f),
         UNCHANGED <<setting, own, feelsDoc, screen, crash>>
  PROVE  IInv'
<1>1. /\ reactsDoc \in [Feels -> DocStates] /\ feelsDoc \in [Feels -> DocStates]
      /\ contents \in Seq(Contents) /\ TrashcanRowsExist /\ OpenTrashcanSound
  BY DEF IInv, TypeOK
<1>2. PICK type : type = IF reactsDoc[f] = "live" THEN "modified" ELSE "added"
  OBVIOUS
<1>3. PICK call : call = Callback("reactions", type, {f})
  OBVIOUS
<1>4. call \in Callbacks /\ call.collection = "reactions" /\ call.type = type
  BY <1>2, <1>3 DEF Callback, Callbacks
<1>5. /\ pages' = Raise(pages, call) /\ contents' = RaiseContents(contents, call)
      /\ reactsDoc' = [reactsDoc EXCEPT ![f] = "live"]
  BY <1>2, <1>3 DEF WriteReactions
<1>6. reacts' \in 0 .. setting.reacts
  <2>1. reacts \in 0 .. setting.reacts /\ setting.reacts \in Nat
    BY FeedAssumption DEF IInv, TypeOK
  <2>2. reacts < setting.reacts /\ reacts' = reacts + 1
    BY DEF WriteReactions
  <2> QED
    BY <2>1, <2>2
<1>7. feelsDoc' \in [Feels -> DocStates] /\ reactsDoc' \in [Feels -> DocStates]
  BY <1>1, <1>5 DEF DocStates
<1>8. Tells(Live(feelsDoc), call, "feels", Live(feelsDoc'))
  BY <1>4, TellsNothing
<1>9. Tells(Live(reactsDoc), call, "reactions", Live(reactsDoc'))
  <2>1. CASE reactsDoc[f] = "live"
    <3>1. reactsDoc' = reactsDoc /\ type = "modified"
      BY <1>1, <1>2, <1>5, <2>1
    <3> QED
      BY <1>4, <3>1, TellsNothing
  <2>2. CASE reactsDoc[f] # "live"
    <3>1. type = "added"
      BY <1>2, <2>2
    <3> QED
      BY <1>1, <1>3, <1>5, <2>2, <3>1, TellsAdded
  <2> QED
    BY <2>1, <2>2
<1>10. FeelsHaveReactions'
  <2>1. Live(feelsDoc') = Live(feelsDoc) /\ Live(reactsDoc) \subseteq Live(reactsDoc')
    BY <1>1, <1>5 DEF Live
  <2> QED
    BY <2>1 DEF IInv, FeelsHaveReactions
<1>11. OpenTrashcanSound'
  BY <1>1, <1>4, <1>5, OpenTrashcanHears
<1> QED
  BY <1>4, <1>5, <1>6, <1>7, <1>8, <1>9, <1>10, <1>11, HeardStep

LEMMA TapReactStep ==
  ASSUME IInv, TapReact
  PROVE  IInv'
<1>1. Top.bound \in Feels
  BY TopPage, PageTypes DEF IInv, TapReact, None
<1> QED
  BY <1>1, WriteReactionsStep DEF TapReact

LEMMA OtherReactsStep ==
  ASSUME IInv, NEW f \in Feels, OtherReacts(f)
  PROVE  IInv'
  BY WriteReactionsStep DEF OtherReacts

LEMMA LongPressStep ==
  ASSUME IInv, LongPress
  PROVE  IInv'
<1>1. Len(pages) \in DOMAIN pages
  BY TopPage DEF IInv
<1>2. CASE crash' = "longPress"
  <2>1. UNCHANGED <<setting, own, feelsDoc, reactsDoc, pages, contents, screen, reacts>>
    BY <1>2 DEF LongPress, OnFeed
  <2> QED
    BY <1>2, <2>1, AppStops
<1>3. CASE crash' # "longPress"
  <2>1. PICK q : q = Disappeared(pages[Len(pages)])
    OBVIOUS
  <2>2. /\ pages' = [pages EXCEPT ![Len(pages)] = q] /\ screen' = "away" /\ screen = "feed"
        /\ UNCHANGED <<setting, own, feelsDoc, reactsDoc, contents, reacts, crash>>
    BY <1>3, <2>1 DEF LongPress, OnFeed
  <2>3. PageSound(q, feelsDoc, reactsDoc) /\ ~q.listenToFeels
    BY <1>1, <2>1, CoveredPage DEF IInv, PagesSound
  <2>4. screen' \in Screens /\ screen' # "trashcan"
    BY <2>2 DEF Screens
  <2> QED
    BY <1>1, <2>2, <2>3, <2>4, PageStep
<1> QED
  BY <1>2, <1>3

LEMMA LeaveStep ==
  ASSUME IInv, NEW to \in {"composer", "away"}, Leave(to)
  PROVE  IInv'
<1>1. Len(pages) \in DOMAIN pages
  BY TopPage DEF IInv
<1>2. PICK q : q = Disappeared(pages[Len(pages)])
  OBVIOUS
<1>3. /\ pages' = [pages EXCEPT ![Len(pages)] = q] /\ screen' = to
      /\ UNCHANGED <<setting, own, feelsDoc, reactsDoc, contents, reacts, crash>>
  BY <1>2 DEF Leave
<1>4. PageSound(q, feelsDoc, reactsDoc) /\ ~q.listenToFeels
  BY <1>1, <1>2, CoveredPage DEF IInv, PagesSound
<1>5. screen' \in Screens /\ screen' # "trashcan"
  BY <1>3 DEF Screens
<1> QED
  BY <1>1, <1>3, <1>4, <1>5, PageStep

LEMMA ComeBackStep ==
  ASSUME IInv, ComeBack
  PROVE  IInv'
<1>1. Len(pages) \in DOMAIN pages
  BY TopPage DEF IInv
<1>2. PICK p : p = pages[Len(pages)]
  OBVIOUS
<1>3. PICK q : q = Appeared(p, feelsDoc, reactsDoc)
  OBVIOUS
<1>4. /\ pages' = [pages EXCEPT ![Len(pages)] = q] /\ screen' = "feed" /\ screen = "away"
      /\ UNCHANGED <<setting, own, feelsDoc, reactsDoc, contents, reacts, crash>>
  BY <1>2, <1>3 DEF ComeBack
<1>5. PageSound(p, feelsDoc, reactsDoc) /\ ~p.listenToFeels
  BY <1>1, <1>2, <1>4 DEF IInv, PagesSound, AwayIsRegistered, Top
<1>6. PageSound(q, feelsDoc, reactsDoc)
  BY <1>3, <1>5, PageBack
<1>7. screen' \in Screens /\ screen' # "trashcan"
  BY <1>4 DEF Screens
<1> QED
  BY <1>1, <1>4, <1>6, <1>7, PageStep

LEMMA BackFromComposerStep ==
  ASSUME IInv, BackFromComposer
  PROVE  IInv'
<1>1. pages \in Seq(Pages) /\ own \subseteq Feels /\ \A k \in DOMAIN pages : PageSound(pages[k], feelsDoc, reactsDoc)
  BY DEF IInv, TypeOK, PagesSound
<1>2. PICK q : q = Appeared(NewPage, feelsDoc, reactsDoc)
  OBVIOUS
<1>3. /\ pages' = Append(pages, q) /\ screen' = "feed"
      /\ UNCHANGED <<setting, own, feelsDoc, reactsDoc, contents, reacts, crash>>
  BY <1>2 DEF BackFromComposer
<1>4. PageSound(q, feelsDoc, reactsDoc)
  BY <1>1, <1>2, NewPageSound
<1>5. pages' \in Seq(Pages) \ {<<>>} /\ \A k \in DOMAIN pages' : PageSound(pages'[k], feelsDoc, reactsDoc)
  BY <1>1, <1>3, <1>4, PagePushed
<1>6. PagesSound'
  BY <1>3, <1>5, SameOwner
<1>7. TypeOK' /\ NothingRemovedFromEmpty'
  BY <1>3, <1>5 DEF IInv, TypeOK, Screens, NothingRemovedFromEmpty
<1>8. AwayIsRegistered' /\ FeelsHaveReactions' /\ TrashcanRowsExist' /\ OpenTrashcanSound'
  BY <1>3 DEF IInv, AwayIsRegistered, FeelsHaveReactions, Live, TrashcanRowsExist, OpenTrashcanSound
<1> QED
  BY <1>3, <1>6, <1>7, <1>8 DEF IInv

LEMMA RelaunchStep ==
  ASSUME IInv, Relaunch
  PROVE  IInv'
<1>1. PICK q : q = Appeared(NewPage, feelsDoc, reactsDoc)
  OBVIOUS
<1>2. /\ pages' = <<q>> /\ screen' = "feed" /\ contents' = <<>> /\ crash' = ""
      /\ UNCHANGED <<setting, own, feelsDoc, reactsDoc, reacts>>
  BY <1>1 DEF Relaunch
<1>3. PageSound(q, feelsDoc, reactsDoc) /\ q \in Pages
  BY <1>1, NewPageSound DEF IInv, TypeOK, PageSound
<1>4. <<q>> \in Seq(Pages) \ {<<>>} /\ \A k \in DOMAIN <<q>> : <<q>>[k] = q
  BY <1>3
<1>5. PagesSound'
  <2>1. \A k \in DOMAIN pages' : PageSound(pages'[k], feelsDoc', reactsDoc')
    BY <1>2, <1>3, <1>4
  <2> QED
    BY <1>2, <2>1, SameOwner
<1>6. contents' \in Seq(Contents) /\ DOMAIN contents' = {}
  BY <1>2, EmptyElements
<1>7. TypeOK' /\ NothingRemovedFromEmpty' /\ TrashcanRowsExist'
  BY <1>2, <1>4, <1>6 DEF IInv, TypeOK, Screens, NothingRemovedFromEmpty, TrashcanRowsExist
<1>8. AwayIsRegistered' /\ FeelsHaveReactions' /\ OpenTrashcanSound'
  BY <1>2 DEF IInv, AwayIsRegistered, FeelsHaveReactions, Live, OpenTrashcanSound
<1> QED
  BY <1>2, <1>5, <1>7, <1>8 DEF IInv

\* Two changes one after the other are heard by all pages.
LEMMA BothHeard ==
  ASSUME NEW pgs \in Seq(Pages), NEW first \in Callbacks, NEW second \in Callbacks,
         NEW fdocs, NEW rdocs, NEW fdocs2, NEW rdocs2, own \subseteq Feels,
         \A k \in DOMAIN pgs : PageSound(pgs[k], fdocs, rdocs),
         first.collection = "feels", second.collection = "reactions",
         Tells(Live(fdocs), first, "feels", Live(fdocs2)),
         \A f \in Feels : fdocs[f] = "gone" => fdocs2[f] = "gone",
         first.type = "removed" => \A f \in first.ids : fdocs2[f] = "gone",
         Tells(Live(rdocs), second, "reactions", Live(rdocs2))
  PROVE  LET both == Raise(Raise(pgs, first), second) IN
         /\ both \in Seq(Pages)
         /\ Len(both) = Len(pgs)
         /\ DOMAIN both = DOMAIN pgs
         /\ \A k \in DOMAIN pgs : /\ both[k].listenToFeels = pgs[k].listenToFeels
                                  /\ PageSound(both[k], fdocs2, rdocs2)
<1>1. PICK told : told = Raise(pgs, first)
  OBVIOUS
<1>2. Tells(Live(rdocs), first, "reactions", Live(rdocs)) /\ Tells(Live(fdocs2), second, "feels", Live(fdocs2))
  BY TellsNothing
<1>3. /\ told \in Seq(Pages)
      /\ Len(told) = Len(pgs)
      /\ DOMAIN told = DOMAIN pgs
      /\ \A k \in DOMAIN pgs : /\ told[k].listenToFeels = pgs[k].listenToFeels
                               /\ PageSound(told[k], fdocs2, rdocs)
  BY <1>1, <1>2, AllHear
<1>4. PICK both : both = Raise(told, second)
  OBVIOUS
<1>5. /\ both \in Seq(Pages)
      /\ Len(both) = Len(told)
      /\ DOMAIN both = DOMAIN told
      /\ \A k \in DOMAIN told : /\ both[k].listenToFeels = told[k].listenToFeels
                                /\ PageSound(both[k], fdocs2, rdocs2)
  <2>1. \A f \in Feels : fdocs2[f] = "gone" => fdocs2[f] = "gone"
    OBVIOUS
  <2>2. ~(second.collection = "feels" /\ second.type = "removed")
    OBVIOUS
  <2>3. \A k \in DOMAIN told : PageSound(told[k], fdocs2, rdocs)
    BY <1>3
  <2> QED
    BY <1>2, <1>3, <1>4, <2>1, <2>2, <2>3, AllHear
<1>6. both = Raise(Raise(pgs, first), second)
  BY <1>1, <1>4
<1> QED
  BY <1>3, <1>5, <1>6

LEMMA DumpFeelsStep ==
  ASSUME IInv, NEW f \in Feels, DumpFeels(f)
  PROVE  IInv'
<1>1. /\ pages \in Seq(Pages) /\ own \subseteq Feels
      /\ \A k \in DOMAIN pages : PageSound(pages[k], feelsDoc, reactsDoc)
      /\ feelsDoc \in [Feels -> DocStates] /\ reactsDoc \in [Feels -> DocStates]
      /\ contents \in Seq(Contents) /\ TrashcanRowsExist
  BY DEF IInv, TypeOK, PagesSound
<1>2. feelsDoc[f] = "none" /\ reactsDoc[f] = "none"
  BY DEF DumpFeels
<1>3. PICK fdocs, rdocs : /\ fdocs = [feelsDoc EXCEPT ![f] = "live"]
                          /\ rdocs = [reactsDoc EXCEPT ![f] = "live"]
  OBVIOUS
<1>4. PICK first, second : /\ first = Callback("feels", "added", {f})
                           /\ second = Callback("reactions", "added", {f})
  OBVIOUS
<1>5. PICK both : both = Raise(Raise(pages, first), second)
  OBVIOUS
<1>6. PICK q : q = Appeared(NewPage, fdocs, rdocs)
  OBVIOUS
<1>7. /\ feelsDoc' = fdocs /\ reactsDoc' = rdocs /\ pages' = Append(both, q)
      /\ contents' = RaiseContents(contents, first) /\ screen' = "feed"
      /\ UNCHANGED <<setting, own, crash, reacts>>
  BY <1>3, <1>4, <1>5, <1>6 DEF DumpFeels
<1>8. /\ first \in Callbacks /\ first.collection = "feels" /\ first.type = "added"
      /\ second \in Callbacks /\ second.collection = "reactions"
  BY <1>4 DEF Callback, Callbacks
<1>9. /\ fdocs \in [Feels -> DocStates] /\ rdocs \in [Feels -> DocStates]
      /\ \A g \in Feels : feelsDoc[g] = "gone" => fdocs[g] = "gone"
  BY <1>1, <1>2, <1>3 DEF DocStates
<1>10. /\ Tells(Live(feelsDoc), first, "feels", Live(fdocs))
       /\ Tells(Live(reactsDoc), second, "reactions", Live(rdocs))
  BY <1>1, <1>2, <1>3, <1>4, TellsAdded
<1>11. both \in Seq(Pages) /\ \A k \in DOMAIN both : PageSound(both[k], fdocs, rdocs)
  BY <1>1, <1>5, <1>8, <1>9, <1>10, BothHeard
<1>12. PageSound(q, fdocs, rdocs)
  BY <1>1, <1>6, NewPageSound
<1>13. pages' \in Seq(Pages) \ {<<>>} /\ \A k \in DOMAIN pages' : PageSound(pages'[k], fdocs, rdocs)
  BY <1>7, <1>11, <1>12, PagePushed
<1>14. PagesSound'
  BY <1>7, <1>13, SameOwner
<1>15. contents' \in Seq(Contents) /\ TrashcanRowsExist'
  BY <1>1, <1>7, <1>8, ContentsHear
<1>16. TypeOK' /\ NothingRemovedFromEmpty'
  BY <1>7, <1>9, <1>13, <1>15 DEF IInv, TypeOK, Screens, NothingRemovedFromEmpty
<1>17. AwayIsRegistered' /\ OpenTrashcanSound'
  BY <1>7 DEF AwayIsRegistered, OpenTrashcanSound
<1>18. FeelsHaveReactions'
  BY <1>1, <1>3, <1>7 DEF IInv, FeelsHaveReactions, Live
<1> QED
  BY <1>7, <1>14, <1>15, <1>16, <1>17, <1>18 DEF IInv

LEMMA DeleteFeelsStep ==
  ASSUME IInv, NEW f \in Feels, DeleteFeels(f)
  PROVE  IInv'
<1>1. /\ pages \in Seq(Pages) /\ pages # <<>> /\ own \subseteq Feels
      /\ \A k \in DOMAIN pages : PageSound(pages[k], feelsDoc, reactsDoc)
      /\ feelsDoc \in [Feels -> DocStates] /\ reactsDoc \in [Feels -> DocStates]
  BY DEF IInv, TypeOK, PagesSound
<1>2. feelsDoc[f] = "live" /\ screen = "away"
  BY DEF DeleteFeels
<1>3. PICK fdocs, rdocs : /\ fdocs = [feelsDoc EXCEPT ![f] = "gone"]
                          /\ rdocs = [reactsDoc EXCEPT ![f] = "gone"]
  OBVIOUS
<1>4. PICK first, second : /\ first = Callback("feels", "removed", {f})
                           /\ second = Callback("reactions", "removed", {f})
  OBVIOUS
<1>5. /\ feelsDoc' = fdocs /\ reactsDoc' = rdocs
      /\ pages' = IF reactsDoc[f] = "live" THEN Raise(Raise(pages, first), second)
                                           ELSE Raise(pages, first)
      /\ UNCHANGED <<setting, own, contents, screen, crash, reacts>>
  BY <1>3, <1>4 DEF DeleteFeels
<1>6. /\ first \in Callbacks /\ first.collection = "feels" /\ first.type = "removed" /\ first.ids = {f}
      /\ second \in Callbacks /\ second.collection = "reactions"
  BY <1>4 DEF Callback, Callbacks
<1>7. /\ fdocs \in [Feels -> DocStates] /\ rdocs \in [Feels -> DocStates]
      /\ \A g \in Feels : feelsDoc[g] = "gone" => fdocs[g] = "gone"
      /\ \A g \in first.ids : fdocs[g] = "gone"
  BY <1>1, <1>3, <1>6 DEF DocStates
<1>8. Tells(Live(feelsDoc), first, "feels", Live(fdocs))
  BY <1>1, <1>2, <1>3, <1>4, TellsRemoved
<1>9. /\ pages' \in Seq(Pages) /\ Len(pages') = Len(pages) /\ DOMAIN pages' = DOMAIN pages
      /\ \A k \in DOMAIN pages : /\ pages'[k].listenToFeels = pages[k].listenToFeels
                                 /\ PageSound(pages'[k], fdocs, rdocs)
  <2>1. CASE reactsDoc[f] = "live"
    <3>1. Tells(Live(reactsDoc), second, "reactions", Live(rdocs))
      BY <1>1, <1>3, <1>4, <2>1, TellsRemoved
    <3>2. PICK both : both = Raise(Raise(pages, first), second)
      OBVIOUS
    <3>3. /\ both \in Seq(Pages) /\ Len(both) = Len(pages) /\ DOMAIN both = DOMAIN pages
          /\ \A k \in DOMAIN pages : /\ both[k].listenToFeels = pages[k].listenToFeels
                                     /\ PageSound(both[k], fdocs, rdocs)
      BY <1>1, <1>6, <1>7, <1>8, <3>1, <3>2, BothHeard
    <3>4. pages' = both
      BY <1>5, <2>1, <3>2
    <3> QED
      BY <3>3, <3>4
  <2>2. CASE reactsDoc[f] # "live"
    <3>1. Live(rdocs) = Live(reactsDoc)
      BY <1>1, <1>3, <2>2 DEF Live
    <3>2. Tells(Live(reactsDoc), first, "reactions", Live(rdocs))
      BY <1>6, <3>1 DEF Tells
    <3>3. PICK told : told = Raise(pages, first)
      OBVIOUS
    <3>4. /\ told \in Seq(Pages) /\ Len(told) = Len(pages) /\ DOMAIN told = DOMAIN pages
          /\ \A k \in DOMAIN pages : /\ told[k].listenToFeels = pages[k].listenToFeels
                                     /\ PageSound(told[k], fdocs, rdocs)
      BY <1>1, <1>6, <1>7, <1>8, <3>2, <3>3, AllHear
    <3>5. pages' = told
      BY <1>5, <2>2, <3>3
    <3> QED
      BY <3>4, <3>5
  <2> QED
    BY <2>1, <2>2
<1>10. PagesSound'
  BY <1>5, <1>9, SameOwner
<1>11. Len(pages) \in DOMAIN pages /\ pages' # <<>>
  BY <1>1, <1>9, EmptyElements, LenProperties
<1>12. TypeOK' /\ NothingRemovedFromEmpty' /\ TrashcanRowsExist'
  BY <1>5, <1>7, <1>9, <1>11 DEF IInv, TypeOK, NothingRemovedFromEmpty, TrashcanRowsExist
<1>13. AwayIsRegistered' /\ OpenTrashcanSound'
  BY <1>2, <1>5, <1>9, <1>11 DEF IInv, AwayIsRegistered, Top, OpenTrashcanSound
<1>14. FeelsHaveReactions'
  BY <1>1, <1>3, <1>5 DEF IInv, FeelsHaveReactions, Live
<1> QED
  BY <1>5, <1>10, <1>12, <1>13, <1>14 DEF IInv

LEMMA FeelsSyncedStep ==
  ASSUME IInv, NEW f \in Feels, FeelsSynced(f)
  PROVE  IInv'
<1>1. /\ feelsDoc \in [Feels -> DocStates] /\ reactsDoc \in [Feels -> DocStates]
      /\ contents \in Seq(Contents) /\ TrashcanRowsExist /\ OpenTrashcanSound
      /\ reacts \in 0 .. setting.reacts /\ ~setting.alone /\ feelsDoc[f] # "gone"
  BY DEF IInv, TypeOK, FeelsSynced
<1>2. PICK type : type = IF feelsDoc[f] = "none" THEN "added" ELSE "removed"
  OBVIOUS
<1>3. PICK call : call = Callback("feels", type, {f})
  OBVIOUS
<1>4. call \in Callbacks /\ call.collection = "feels" /\ call.type = type /\ call.ids = {f}
  BY <1>2, <1>3 DEF Callback, Callbacks
<1>5. /\ pages' = Raise(pages, call) /\ contents' = RaiseContents(contents, call)
      /\ feelsDoc' = [feelsDoc EXCEPT ![f] = NextState(feelsDoc[f])]
      /\ UNCHANGED <<setting, own, reactsDoc, screen, crash, reacts>>
  BY <1>2, <1>3 DEF FeelsSynced
<1>6. \/ feelsDoc[f] = "none" /\ type = "added" /\ feelsDoc' = [feelsDoc EXCEPT ![f] = "live"]
      \/ feelsDoc[f] = "live" /\ type = "removed" /\ feelsDoc' = [feelsDoc EXCEPT ![f] = "gone"]
  BY <1>1, <1>2, <1>5 DEF NextState, DocStates
<1>7. feelsDoc' \in [Feels -> DocStates] /\ reactsDoc' \in [Feels -> DocStates]
      /\ reacts' \in 0 .. setting.reacts
  BY <1>1, <1>5, <1>6 DEF DocStates
<1>8. Tells(Live(feelsDoc), call, "feels", Live(feelsDoc'))
  <2>1. CASE feelsDoc[f] = "none" /\ type = "added" /\ feelsDoc' = [feelsDoc EXCEPT ![f] = "live"]
    <3>1. feelsDoc[f] # "live"
      BY <2>1
    <3> QED
      BY <1>1, <1>3, <2>1, <3>1, TellsAdded
  <2>2. CASE feelsDoc[f] = "live" /\ type = "removed" /\ feelsDoc' = [feelsDoc EXCEPT ![f] = "gone"]
    BY <1>1, <1>3, <2>2, TellsRemoved
  <2> QED
    BY <1>6, <2>1, <2>2
<1>9. Tells(Live(reactsDoc), call, "reactions", Live(reactsDoc'))
  BY <1>4, <1>5, TellsNothing
<1>10. /\ \A g \in Feels : feelsDoc[g] = "gone" => feelsDoc'[g] = "gone"
       /\ \A g \in Feels : feelsDoc[g] # "none" => feelsDoc'[g] # "none"
       /\ (call.collection = "feels" /\ call.type = "removed")
             => \A g \in call.ids : feelsDoc'[g] = "gone"
       /\ (call.collection = "feels" /\ call.type = "added")
             => \A g \in call.ids : feelsDoc[g] = "none" /\ feelsDoc'[g] # "none"
       /\ \A g \in Feels : (feelsDoc'[g] = "live" /\ feelsDoc[g] # "live")
             => call.collection = "feels" /\ call.type = "added" /\ g \in call.ids
  BY <1>1, <1>4, <1>6
<1>11. FeelsHaveReactions'
  BY <1>1, <1>5 DEF FeelsHaveReactions
<1>12. OpenTrashcanSound'
  BY <1>1, <1>4, <1>5, <1>10, OpenTrashcanHears
<1> QED
  BY <1>4, <1>5, <1>7, <1>8, <1>9, <1>10, <1>11, <1>12, HeardStep

LEMMA ReactionsSyncedStep ==
  ASSUME IInv, NEW f \in Feels, ReactionsSynced(f)
  PROVE  IInv'
<1>1. /\ feelsDoc \in [Feels -> DocStates] /\ reactsDoc \in [Feels -> DocStates]
      /\ reacts \in 0 .. setting.reacts /\ ~setting.alone /\ reactsDoc[f] # "gone"
  BY DEF IInv, TypeOK, ReactionsSynced
<1>2. PICK type : type = IF reactsDoc[f] = "none" THEN "added" ELSE "removed"
  OBVIOUS
<1>3. PICK call : call = Callback("reactions", type, {f})
  OBVIOUS
<1>4. call \in Callbacks /\ call.collection = "reactions" /\ call.type = type
  BY <1>2, <1>3 DEF Callback, Callbacks
<1>5. /\ pages' = Raise(pages, call)
      /\ reactsDoc' = [reactsDoc EXCEPT ![f] = NextState(reactsDoc[f])]
      /\ UNCHANGED <<setting, own, feelsDoc, contents, screen, crash, reacts>>
  BY <1>2, <1>3 DEF ReactionsSynced
<1>6. \/ reactsDoc[f] = "none" /\ type = "added" /\ reactsDoc' = [reactsDoc EXCEPT ![f] = "live"]
      \/ reactsDoc[f] = "live" /\ type = "removed" /\ reactsDoc' = [reactsDoc EXCEPT ![f] = "gone"]
  BY <1>1, <1>2, <1>5 DEF NextState, DocStates
<1>7. feelsDoc' \in [Feels -> DocStates] /\ reactsDoc' \in [Feels -> DocStates]
      /\ reacts' \in 0 .. setting.reacts
  BY <1>1, <1>5, <1>6 DEF DocStates
<1>8. Tells(Live(reactsDoc), call, "reactions", Live(reactsDoc'))
  <2>1. CASE reactsDoc[f] = "none" /\ type = "added" /\ reactsDoc' = [reactsDoc EXCEPT ![f] = "live"]
    <3>1. reactsDoc[f] # "live"
      BY <2>1
    <3> QED
      BY <1>1, <1>3, <2>1, <3>1, TellsAdded
  <2>2. CASE reactsDoc[f] = "live" /\ type = "removed" /\ reactsDoc' = [reactsDoc EXCEPT ![f] = "gone"]
    BY <1>1, <1>3, <2>2, TellsRemoved
  <2> QED
    BY <1>6, <2>1, <2>2
<1>9. Tells(Live(feelsDoc), call, "feels", Live(feelsDoc'))
  BY <1>4, <1>5, TellsNothing
<1>10. FeelsHaveReactions'
  BY <1>1, <1>5 DEF FeelsHaveReactions
<1>11. OpenTrashcanSound'
  BY <1>5 DEF IInv, OpenTrashcanSound, ListsOwn
<1> QED
  BY <1>4, <1>5, <1>7, <1>8, <1>9, <1>10, <1>11, HeardStep

LEMMA DeliverContentsStep ==
  ASSUME IInv, NEW k, DeliverContents(k)
  PROVE  IInv'
<1>1. /\ k \in DOMAIN contents /\ contents[k].queue # <<>>
      /\ UNCHANGED <<setting, own, feelsDoc, reactsDoc, pages, screen, reacts>>
  BY DEF DeliverContents
<1>2. PICK c : c = contents[k]
  OBVIOUS
<1>3. PICK call : call = Head(c.queue)
  OBVIOUS
<1>4. CASE call.collection # "feels"
  <2>1. crash' = "contentsReact" /\ contents' = contents
    BY <1>2, <1>3, <1>4 DEF DeliverContents
  <2> QED
    BY <1>1, <2>1, AppStops
<1>5. CASE call.collection = "feels"
  <2>1. contents \in Seq(Contents) /\ TrashcanRowsExist /\ OpenTrashcanSound /\ own \subseteq Feels
    BY DEF IInv, TypeOK
  <2>2. c \in Contents /\ c.shown <= Len(c.feelsArray)
    BY <1>1, <1>2, <2>1, ElementOfSeq DEF TrashcanRowsExist
  <2>3. /\ c.queue \in Seq(Callbacks) /\ c.queue # <<>> /\ c.feelsArray \in Seq(Feels)
        /\ c.shown \in Nat /\ c.trashcan \in SUBSET Feels
    BY <1>1, <1>2, <2>2 DEF Contents
  <2>4. PICK new : new = Newest(Kept(c, call.ids))
    OBVIOUS
  <2>5. new \in Seq(Feels)
    <3>1. Kept(c, call.ids) \in SUBSET Feels
      BY <2>3 DEF Kept
    <3>2. new \in Seq(Kept(c, call.ids))
      BY <2>4, <3>1, NewestList
    <3> QED
      BY <3>1, <3>2
  <2>6. PICK queue, list : queue = Tail(c.queue) /\ list = c.feelsArray \o new
    OBVIOUS
  <2>7. queue \in Seq(Callbacks)
    BY <2>3, <2>6, TailElements
  <2>8. list \in Seq(Feels) /\ Len(list) >= Len(c.feelsArray)
    <3>1. PICK old : old = c.feelsArray
      OBVIOUS
    <3>2. old \in Seq(Feels) /\ old \o new \in Seq(Feels) /\ Len(old \o new) = Len(old) + Len(new)
      BY <2>3, <2>5, <3>1, ConcatProperties
    <3>3. Len(old) \in Nat /\ Len(new) \in Nat
      BY <2>5, <3>2, LenProperties
    <3> QED
      BY <2>6, <3>1, <3>2, <3>3
  <2>9. PICK c2 : c2 = [c EXCEPT !.queue = queue, !.feelsArray = list]
    OBVIOUS
  <2>10. /\ c2 \in Contents /\ c2.queue = queue /\ c2.feelsArray = list
         /\ c2.trashcan = c.trashcan /\ c2.shown = c.shown
    BY <2>2, <2>7, <2>8, <2>9 DEF Contents
  <2>11. contents' = [contents EXCEPT ![k] = c2] /\ crash' = crash
    <3>1. contents' = [contents EXCEPT ![k].queue = Tail(@),
                         ![k].feelsArray = @ \o Newest(Kept(contents[k], call.ids))] /\ crash' = crash
      BY <1>2, <1>3, <1>5 DEF DeliverContents
    <3> QED
      BY <1>1, <1>2, <2>1, <2>4, <2>6, <2>9, <3>1
  <2>12. c2.shown <= Len(c2.feelsArray)
    <3>1. Len(c.feelsArray) \in Nat /\ Len(list) \in Nat
      BY <2>3, <2>8, LenProperties
    <3> QED
      BY <2>2, <2>3, <2>8, <2>10, <3>1
  <2>13. /\ contents' \in Seq(Contents) /\ TrashcanRowsExist'
         /\ Len(contents') = Len(contents) /\ DOMAIN contents' = DOMAIN contents
         /\ contents'[k] = c2
         /\ \A j \in DOMAIN contents : j # k => contents'[j] = contents[j]
    BY <1>1, <2>1, <2>10, <2>11, <2>12, OneContentsChanged
  <2>14. \A f \in Feels : ListsOwn(c, feelsDoc, f) => ListsOwn(c2, feelsDoc, f)
    <3>1. c2.feelsArray = c.feelsArray \o Newest(Kept(c, Head(c.queue).ids)) /\ c2.queue = Tail(c.queue)
      BY <1>3, <2>4, <2>6, <2>10
    <3> QED
      BY <1>3, <1>5, <2>1, <2>2, <2>3, <2>10, <3>1, ListsOwnTaken
  <2>15. OpenTrashcanSound'
    <3>1. CASE screen # "trashcan"
      BY <1>1, <3>1 DEF OpenTrashcanSound
    <3>2. CASE screen = "trashcan"
      <4>1. contents # <<>> /\ \A f \in Feels : ListsOwn(contents[Len(contents)], feelsDoc, f)
        BY <2>1, <3>2 DEF OpenTrashcanSound
      <4>2. Len(contents) \in DOMAIN contents /\ contents' # <<>>
        BY <2>1, <2>13, <4>1, EmptyElements, LenProperties
      <4>3. \A f \in Feels : ListsOwn(contents'[Len(contents)], feelsDoc, f)
        <5>1. CASE k = Len(contents)
          BY <1>2, <2>13, <2>14, <4>1, <5>1
        <5>2. CASE k # Len(contents)
          BY <2>13, <4>1, <4>2, <5>2
        <5> QED
          BY <5>1, <5>2
      <4>4. \A f \in Feels : ListsOwn(contents'[Len(contents')], feelsDoc, f)
        BY <2>13, <4>3
      <4> QED
        BY <1>1, <4>2, <4>4 DEF OpenTrashcanSound, ListsOwn
    <3> QED
      BY <3>1, <3>2
  <2>16. screen' \in Screens
    BY <1>1 DEF IInv, TypeOK
  <2> QED
    BY <1>1, <2>11, <2>13, <2>15, <2>16, ContentsStep
<1> QED
  BY <1>4, <1>5

\* A new page of a trashcan has been told of nothing.
LEMMA OpenTrashcanStep ==
  ASSUME IInv, NEW S, OpenTrashcan(S)
  PROVE  IInv'
<1>1. /\ contents \in Seq(Contents) /\ TrashcanRowsExist /\ own \subseteq Feels
      /\ setting \in Settings /\ feelsDoc \in [Feels -> DocStates]
  BY DEF IInv, TypeOK
<1>2. PICK c : c = NewContents(S)
  OBVIOUS
<1>3. /\ contents' = Append(contents, c) /\ screen' = "trashcan" /\ screen = "away"
      /\ S \in setting.trashcans
      /\ UNCHANGED <<setting, own, feelsDoc, reactsDoc, pages, crash, reacts>>
  BY <1>2 DEF OpenTrashcan
<1>4. S \in SUBSET Feels
  BY <1>1, <1>3, FeedAssumption DEF Feels
<1>5. PICK call : call = Callback("feels", "added", Live(feelsDoc))
  OBVIOUS
<1>6. call \in Callbacks /\ call.collection = "feels" /\ call.ids = Live(feelsDoc)
  BY <1>5 DEF Callback, Callbacks, Live
<1>7. <<call>> \in Seq(Callbacks) /\ DOMAIN <<call>> = {1} /\ <<call>>[1] = call
  BY <1>6
<1>8. c = [trashcan |-> S, queue |-> <<call>>, feelsArray |-> <<>>, shown |-> 0]
  BY <1>2, <1>5 DEF NewContents
<1>9. <<>> \in Seq(Feels) /\ Len(<<>>) = 0
  BY EmptyElements
<1>10. /\ c \in Contents /\ c.queue = <<call>> /\ c.feelsArray = <<>> /\ c.shown = 0
       /\ c.trashcan = S
  BY <1>4, <1>7, <1>8, <1>9 DEF Contents
<1>11. ASSUME NEW f \in Feels
       PROVE  ListsOwn(c, feelsDoc, f)
  <2>1. DOMAIN c.feelsArray = {}
    BY <1>10, EmptyElements
  <2>2. f \in Live(feelsDoc) <=> feelsDoc[f] = "live"
    BY DEF Live
  <2>3. DOMAIN c.queue = {1} /\ c.queue[1] = call
    BY <1>7, <1>10
  <2> QED
    BY <1>6, <2>1, <2>2, <2>3 DEF ListsOwn
<1>12. /\ contents' \in Seq(Contents) /\ Len(contents') = Len(contents) + 1
       /\ DOMAIN contents' = 1 .. Len(contents) + 1
       /\ \A k \in 1 .. Len(contents) : contents'[k] = contents[k]
       /\ contents'[Len(contents) + 1] = c
  BY <1>1, <1>3, <1>10, AppendElements
<1>13. DOMAIN contents = 1 .. Len(contents) /\ Len(contents) \in Nat
  BY <1>1, LenProperties
<1>14. ASSUME NEW k \in DOMAIN contents'
       PROVE  contents'[k].shown <= Len(contents'[k].feelsArray)
  <2>1. CASE k = Len(contents) + 1
    BY <1>9, <1>10, <1>12, <2>1
  <2>2. CASE k # Len(contents) + 1
    <3>1. k \in DOMAIN contents /\ contents'[k] = contents[k]
      BY <1>12, <1>13, <2>2
    <3> QED
      BY <1>1, <3>1 DEF TrashcanRowsExist
  <2> QED
    BY <2>1, <2>2
<1>15. TrashcanRowsExist'
  BY <1>14 DEF TrashcanRowsExist
<1>16. OpenTrashcanSound'
  <2>1. contents'[Len(contents')] = c
    BY <1>12
  <2>2. contents' # <<>>
    BY <1>12, <1>13, EmptyElements
  <2> QED
    BY <1>3, <1>11, <2>1, <2>2 DEF OpenTrashcanSound, ListsOwn
<1>17. screen' \in Screens
  BY <1>3 DEF Screens
<1> QED
  BY <1>3, <1>12, <1>15, <1>16, <1>17, ContentsStep

LEMMA ReloadContentsStep ==
  ASSUME IInv, ReloadContents
  PROVE  IInv'
<1>1. /\ contents \in Seq(Contents) /\ TrashcanRowsExist /\ OpenTrashcanSound
      /\ screen = "trashcan" /\ contents # <<>>
  BY DEF IInv, TypeOK, ReloadContents, OpenTrashcanSound
<1>2. Len(contents) \in DOMAIN contents
  BY <1>1, EmptyElements, LenProperties
<1>3. PICK c : c = contents[Len(contents)]
  OBVIOUS
<1>4. c \in Contents
  BY <1>1, <1>2, <1>3, ElementOfSeq
<1>5. Len(c.feelsArray) \in Nat
  BY <1>4, LenProperties DEF Contents
<1>6. PICK c2 : c2 = [c EXCEPT !.shown = Len(c.feelsArray)]
  OBVIOUS
<1>7. /\ c2 \in Contents /\ c2.queue = c.queue /\ c2.feelsArray = c.feelsArray
      /\ c2.trashcan = c.trashcan /\ c2.shown = Len(c.feelsArray)
  BY <1>4, <1>5, <1>6 DEF Contents
<1>8. /\ contents' = [contents EXCEPT ![Len(contents)] = c2]
      /\ UNCHANGED <<setting, own, feelsDoc, reactsDoc, pages, screen, crash, reacts>>
  BY <1>2, <1>3, <1>6 DEF ReloadContents
<1>9. c2.shown <= Len(c2.feelsArray)
  BY <1>5, <1>7
<1>10. /\ contents' \in Seq(Contents) /\ TrashcanRowsExist'
       /\ Len(contents') = Len(contents)
       /\ contents'[Len(contents)] = c2
  BY <1>1, <1>2, <1>7, <1>8, <1>9, OneContentsChanged
<1>11. ASSUME NEW f \in Feels
       PROVE  ListsOwn(c2, feelsDoc, f)
  BY <1>1, <1>3, <1>7, ListsOwnKept DEF OpenTrashcanSound
<1>12. OpenTrashcanSound'
  <2>1. contents'[Len(contents')] = c2
    BY <1>10
  <2>2. contents' # <<>>
    BY <1>2, <1>10, EmptyElements, LenProperties
  <2> QED
    BY <1>8, <1>11, <2>1, <2>2 DEF OpenTrashcanSound, ListsOwn
<1> QED
  BY <1>1, <1>8, <1>10, <1>12, ContentsStep DEF IInv, TypeOK

LEMMA CloseTrashcanStep ==
  ASSUME IInv, CloseTrashcan
  PROVE  IInv'
<1>1. /\ contents \in Seq(Contents) /\ TrashcanRowsExist /\ OpenTrashcanSound
      /\ screen = "trashcan" /\ contents # <<>>
  BY DEF IInv, TypeOK, CloseTrashcan, OpenTrashcanSound
<1>2. Len(contents) \in DOMAIN contents
  BY <1>1, EmptyElements, LenProperties
<1>3. PICK c : c = contents[Len(contents)]
  OBVIOUS
<1>4. c \in Contents
  BY <1>1, <1>2, <1>3, ElementOfSeq
<1>5. PICK c2 : c2 = Emptied(c)
  OBVIOUS
<1>6. <<>> \in Seq(Feels) /\ Len(<<>>) = 0
  BY EmptyElements
<1>7. c2 \in Contents /\ c2.feelsArray = <<>> /\ c2.shown = 0
  BY <1>4, <1>5, <1>6 DEF Contents, Emptied
<1>8. /\ contents' = [contents EXCEPT ![Len(contents)] = c2] /\ screen' = "away"
      /\ UNCHANGED <<setting, own, feelsDoc, reactsDoc, pages, crash, reacts>>
  BY <1>3, <1>5 DEF CloseTrashcan
<1>9. contents' \in Seq(Contents) /\ TrashcanRowsExist'
  <2>1. c2.shown <= Len(c2.feelsArray)
    BY <1>6, <1>7
  <2> QED
    BY <1>1, <1>2, <1>7, <1>8, <2>1, OneContentsChanged
<1>10. OpenTrashcanSound' /\ screen' \in Screens
  BY <1>8 DEF OpenTrashcanSound, Screens
<1> QED
  BY <1>1, <1>8, <1>9, <1>10, ContentsStep

LEMMA TapTabStep ==
  ASSUME IInv, TapTab
  PROVE  IInv'
  BY AppStops DEF TapTab

-----------------------------------------------------------------------------
(* The invariant. *)

LEMMA InitIInv == Init => IInv
<1> SUFFICES ASSUME Init
             PROVE  IInv
  OBVIOUS
<1>1. own \subseteq Feels /\ setting \in Settings /\ own = setting.mine
      /\ reacts \in 0 .. setting.reacts
  <2>1. setting \in Settings /\ own = setting.mine /\ reacts = 0
    BY DEF Init
  <2>2. setting.mine \subseteq Feels /\ setting.reacts \in Nat
    BY <2>1, FeedAssumption DEF Feels
  <2> QED
    BY <2>1, <2>2
<1>2. feelsDoc \in [Feels -> DocStates] /\ reactsDoc = feelsDoc
  BY DEF Init, DocStates
<1>3. PICK q : q = Appeared(NewPage, feelsDoc, reactsDoc)
  OBVIOUS
<1>4. PageSound(q, feelsDoc, reactsDoc) /\ q \in Pages
  BY <1>1, <1>3, NewPageSound DEF PageSound
<1>5. <<q>> \in Seq(Pages) \ {<<>>} /\ \A k \in DOMAIN <<q>> : <<q>>[k] = q
  BY <1>4
<1>6. pages = <<q>>
  BY <1>3 DEF Init
<1>7. PagesSound
  BY <1>4, <1>5, <1>6 DEF PagesSound
<1>8. contents \in Seq(Contents) /\ DOMAIN contents = {}
  BY EmptyElements DEF Init
<1>9. TypeOK /\ NothingRemovedFromEmpty /\ TrashcanRowsExist
  BY <1>1, <1>2, <1>5, <1>6, <1>8 DEF Init, TypeOK, Screens, NothingRemovedFromEmpty, TrashcanRowsExist
<1>10. AwayIsRegistered /\ FeelsHaveReactions /\ OpenTrashcanSound
  BY <1>2 DEF Init, AwayIsRegistered, FeelsHaveReactions, OpenTrashcanSound
<1> QED
  BY <1>1, <1>7, <1>9, <1>10 DEF IInv

LEMMA StutterStep ==
  ASSUME IInv, UNCHANGED vars
  PROVE  IInv'
<1>1. TypeOK' /\ NothingRemovedFromEmpty' /\ TrashcanRowsExist'
  BY DEF vars, IInv, TypeOK, NothingRemovedFromEmpty, TrashcanRowsExist
<1>2. PagesSound'
  BY SameOwner DEF vars, IInv, PagesSound
<1>3. AwayIsRegistered' /\ FeelsHaveReactions' /\ OpenTrashcanSound'
  BY DEF vars, IInv, AwayIsRegistered, Top, FeelsHaveReactions, Live, OpenTrashcanSound, ListsOwn
<1> QED
  BY <1>1, <1>2, <1>3 DEF vars, IInv

LEMMA NextIInv == IInv /\ [Next]_vars => IInv'
<1> SUFFICES ASSUME IInv, [Next]_vars
             PROVE  IInv'
  OBVIOUS
<1>1. CASE \E k \in 1 .. MaxPages : Deliver(k)
  BY <1>1, DeliverStep
<1>2. CASE \E k \in 1 .. MaxContents : DeliverContents(k)
  BY <1>2, DeliverContentsStep
<1>3. CASE Reload \/ Scroll \/ \E i \in 1 .. 2 * NumFeels : Select(i)
  BY <1>3, ReloadStep, ScrollStep, SelectStep
<1>4. CASE TapReact \/ LongPress
  BY <1>4, TapReactStep, LongPressStep
<1>5. CASE (\E to \in {"composer", "away"} : Leave(to)) \/ ComeBack \/ BackFromComposer
  BY <1>5, LeaveStep, ComeBackStep, BackFromComposerStep
<1>6. CASE \E f \in Feels : DumpFeels(f) \/ DeleteFeels(f)
  BY <1>6, DumpFeelsStep, DeleteFeelsStep
<1>7. CASE (\E S \in SUBSET Feels : OpenTrashcan(S)) \/ ReloadContents \/ CloseTrashcan \/ TapTab
  BY <1>7, OpenTrashcanStep, ReloadContentsStep, CloseTrashcanStep, TapTabStep
<1>8. CASE Relaunch
  BY <1>8, RelaunchStep
<1>9. CASE \E f \in Feels : FeelsSynced(f) \/ ReactionsSynced(f) \/ OtherReacts(f)
  BY <1>9, FeelsSyncedStep, ReactionsSyncedStep, OtherReactsStep
<1>10. CASE UNCHANGED vars
  BY <1>10, StutterStep
<1> QED
  BY <1>1, <1>2, <1>3, <1>4, <1>5, <1>6, <1>7, <1>8, <1>9, <1>10 DEF Next

\* The arrays, the calls that wait and the documents are in step in every
\* reachable state.
THEOREM Invariance == Spec => []IInv
  BY InitIInv, NextIInv, PTL DEF Spec

\* FeedViewController's variables keep their types, on every page.
THEOREM TypeCorrect == Spec => []TypeOK
<1>1. IInv => TypeOK
  BY DEF IInv
<1> QED
  BY <1>1, Invariance, PTL

\* No removal at index 0 finds an array empty, however snapshots of the two
\* collections interleave with pages that start late.
THEOREM RemovalsFindEntries == Spec => []NothingRemovedFromEmpty
<1>1. IInv => NothingRemovedFromEmpty
  BY DEF IInv
<1> QED
  BY <1>1, Invariance, PTL

\* The rows of the page of a trashcan are in its array.
THEOREM TrashcanRows == Spec => []TrashcanRowsExist
<1>1. IInv => TrashcanRowsExist
  BY DEF IInv
<1> QED
  BY <1>1, Invariance, PTL

\* The table has the sections of its arrays or a reload is queued.
THEOREM TableCatchesUp == Spec => []TableLagsOnlyUntilReload
<1>1. IInv => TableLagsOnlyUntilReload
  BY DEF IInv, PagesSound, PageSound, TableSound, TableLagsOnlyUntilReload
<1> QED
  BY <1>1, Invariance, PTL

-----------------------------------------------------------------------------
(* What a page that has caught up shows. *)

\* With no call of its collection waiting, a page was told of all there is.
LEMMA NothingUntold ==
  ASSUME NEW queue \in Seq(Callbacks), NEW collection, NEW docs, NEW told,
         LeadsTo(told, queue, collection, docs),
         \A i \in DOMAIN queue : queue[i].collection # collection
  PROVE  told[0] = Live(docs)
<1> DEFINE n == Len(queue)
           S == {i \in 0 .. n : told[i] = Live(docs)}
<1>1. n \in Nat /\ DOMAIN queue = 1 .. n
  BY LenProperties
<1>2. \A i \in 1 .. n : told[i] = told[i - 1]
  BY <1>1 DEF LeadsTo, Tells
<1>3. told[n] = Live(docs)
  BY DEF LeadsTo
<1> HIDE DEF n
<1>4. S \in SUBSET Nat /\ S # {}
  BY <1>1, <1>3
<1> HIDE DEF S
<1>5. PICK m \in S : \A i \in S : m <= i
  BY <1>4, LeastOf
<1>6. m \in 0 .. n /\ told[m] = Live(docs)
  BY DEF S
<1>7. CASE m = 0
  BY <1>6, <1>7
<1>8. CASE m # 0
  <2>1. m \in 1 .. n /\ m - 1 \in 0 .. n /\ ~(m <= m - 1)
    BY <1>1, <1>6, <1>8
  <2>2. m - 1 \in S
    BY <1>2, <1>6, <2>1 DEF S
  <2> QED
    BY <1>5, <2>1, <2>2
<1> QED
  BY <1>7, <1>8

\* Counting what is listed at most once.
LEMMA ListedOnce ==
  ASSUME NEW f, NEW list, \A i, j \in DOMAIN list : list[i] = f /\ list[j] = f => i = j
  PROVE  /\ (\E i \in DOMAIN list : list[i] = f) => Occurrences(f, list) = 1
         /\ ~(\E i \in DOMAIN list : list[i] = f) => Occurrences(f, list) = 0
<1> DEFINE places == {i \in DOMAIN list : list[i] = f}
<1>1. ASSUME NEW i \in DOMAIN list, list[i] = f
      PROVE  Occurrences(f, list) = 1
  <2>1. places = {i}
    BY <1>1
  <2> QED
    BY <2>1, FS_Singleton DEF Occurrences
<1>2. ASSUME ~(\E i \in DOMAIN list : list[i] = f)
      PROVE  Occurrences(f, list) = 0
  <2>1. places = {}
    BY <1>2
  <2> QED
    BY <2>1, FS_EmptySet DEF Occurrences
<1> QED
  BY <1>1, <1>2

\* The feels and their flags are as many, and one section is open at most.
THEOREM FlagsFollowFeels == Spec => []ArraysParallel
<1>1. ASSUME IInv
      PROVE  ArraysParallel
  <2>1. SUFFICES ASSUME NEW k \in DOMAIN pages
                 PROVE  /\ Len(pages[k].feelsArray) = Len(pages[k].reactNibOpen)
                        /\ Cardinality(OpenSections(pages[k])) <= 1
    BY DEF ArraysParallel
  <2>2. PICK open : open = OpenSections(pages[k])
    OBVIOUS
  <2>3. Len(pages[k].feelsArray) = Len(pages[k].reactNibOpen) /\ \A i, j \in open : i = j
    BY <1>1, <2>1, <2>2 DEF IInv, PagesSound, PageSound, TableSound
  <2>4. open = {} \/ \E i \in open : open = {i}
    BY <2>3
  <2>5. Cardinality(open) = 0 \/ Cardinality(open) = 1
    BY <2>4, FS_EmptySet, FS_Singleton
  <2> QED
    BY <2>2, <2>3, <2>5
<1> QED
  BY <1>1, Invariance, PTL

\* As long as nothing of the user's was removed, a page that has caught up
\* shows his own feels once each.
THEOREM OwnFeelsOnce == Spec => []OwnFeelsShownOnce
<1>1. ASSUME IInv
      PROVE  OwnFeelsShownOnce
  <2>1. SUFFICES ASSUME \A g \in own : feelsDoc[g] # "gone",
                        NEW k \in DOMAIN pages, Waiting(k, "feels") = {}, NEW f \in own
                 PROVE  Occurrences(f, pages[k].feelsArray) = IF feelsDoc[f] = "live" THEN 1 ELSE 0
    BY DEF OwnFeelsShownOnce
  <2>2. PICK p : p = pages[k]
    OBVIOUS
  <2>3. p \in Pages /\ FeelsSound(p.queue, p.feelsArray, feelsDoc) /\ f \in Feels
    BY <1>1, <2>1, <2>2 DEF IInv, TypeOK, PagesSound, PageSound
  <2>4. PICK told : LeadsTo(told, p.queue, "feels", feelsDoc) /\ Shows(p.feelsArray, told[0], feelsDoc)
    BY <2>3 DEF FeelsSound
  <2>5. \A i \in DOMAIN p.queue : p.queue[i].collection # "feels"
    BY <2>1, <2>2 DEF Waiting
  <2>6. told[0] = Live(feelsDoc)
    BY <2>3, <2>4, <2>5, PageTypes, NothingUntold
  <2>7. OnceIf(f \in Live(feelsDoc), f, p.feelsArray)
    BY <2>1, <2>4, <2>6 DEF Shows, OwnKept
  <2>8. f \in Live(feelsDoc) <=> feelsDoc[f] = "live"
    BY <2>3 DEF Live
  <2>9. PICK list : list = p.feelsArray
    OBVIOUS
  <2>10. /\ feelsDoc[f] = "live" <=> \E i \in DOMAIN list : list[i] = f
         /\ \A i, j \in DOMAIN list : list[i] = f /\ list[j] = f => i = j
    BY <2>7, <2>8, <2>9 DEF OnceIf
  <2>11. Occurrences(f, list) = IF feelsDoc[f] = "live" THEN 1 ELSE 0
    BY <2>10, ListedOnce
  <2> QED
    BY <2>2, <2>9, <2>11
<1> QED
  BY <1>1, Invariance, PTL

\* Where no one else writes and all feels are the user's, a page that has
\* caught up has as many reactions as feels.  (Feels of others have two
\* entries in the one array and one in the other.)
THEOREM SectionsHaveReactions ==
  (\A s \in Settings : s.alone => s.mine = Feels) => (Spec => []EverySectionHasReactions)
<1> SUFFICES ASSUME \A s \in Settings : s.alone => s.mine = Feels
             PROVE  Spec => []EverySectionHasReactions
  OBVIOUS
<1>1. ASSUME IInv
      PROVE  EverySectionHasReactions
  <2>1. SUFFICES ASSUME setting.alone, \A f \in Feels : reactsDoc[f] = "live" => feelsDoc[f] = "live",
                        NEW k \in DOMAIN pages, pages[k].queue = <<>>
                 PROVE  Len(pages[k].reactionsArray) = Len(pages[k].feelsArray)
    BY DEF EverySectionHasReactions
  <2>2. PICK p : p = pages[k]
    OBVIOUS
  <2>3. /\ p \in Pages /\ FeelsSound(p.queue, p.feelsArray, feelsDoc)
        /\ ReactionsSound(p.queue, p.reactionsArray, reactsDoc)
    BY <1>1, <2>1, <2>2 DEF IInv, PagesSound, PageSound
  <2>4. own = Feels
    BY <1>1, <2>1 DEF IInv, TypeOK
  <2>5. DOMAIN p.queue = {}
    BY <2>1, <2>2, EmptyElements
  <2>6. PICK told : LeadsTo(told, p.queue, "feels", feelsDoc) /\ Shows(p.feelsArray, told[0], feelsDoc)
    BY <2>3 DEF FeelsSound
  <2>7. PICK heard : /\ LeadsTo(heard, p.queue, "reactions", reactsDoc)
                     /\ Cardinality(heard[0]) = Len(p.reactionsArray)
    BY <2>3 DEF ReactionsSound
  <2>8. told[0] = Live(feelsDoc) /\ heard[0] = Live(reactsDoc)
    BY <2>3, <2>5, <2>6, <2>7, PageTypes, NothingUntold
  <2>9. Live(feelsDoc) = Live(reactsDoc)
    BY <1>1, <2>1 DEF IInv, FeelsHaveReactions, Live
  <2>10. Cardinality(told[0]) = Len(p.feelsArray)
    BY <2>4, <2>6 DEF Shows
  <2> QED
    BY <2>2, <2>7, <2>8, <2>9, <2>10
<1> QED
  BY <1>1, Invariance, PTL

\* The page of a trashcan that is open and has caught up lists the user's
\* feels in it that exist, each once, and nobody else's.
THEOREM TrashcanListsOwn == Spec => []TrashcanListsOwnFeels
<1>1. ASSUME IInv
      PROVE  TrashcanListsOwnFeels
  <2>1. PICK c : c = contents[Len(contents)]
    OBVIOUS
  <2>2. ASSUME screen = "trashcan",
               \A i \in DOMAIN c.queue : c.queue[i].collection # "feels", NEW f \in Feels
        PROVE  Occurrences(f, c.feelsArray) \in
                 IF f \in own \cap c.trashcan
                 THEN CASE feelsDoc[f] = "none" -> {0}
                        [] feelsDoc[f] = "live" -> {1}
                        [] OTHER -> {0, 1}
                 ELSE {0}
    <3>1. ListsOwn(c, feelsDoc, f)
      BY <1>1, <2>1, <2>2 DEF IInv, OpenTrashcanSound
    <3>2. PICK list : list = c.feelsArray
      OBVIOUS
    <3>3. /\ \A i, j \in DOMAIN list : list[i] = f /\ list[j] = f => i = j
          /\ \A i \in DOMAIN list : list[i] = f => feelsDoc[f] # "none" /\ f \in own \cap c.trashcan
          /\ (feelsDoc[f] = "live" /\ f \in own \cap c.trashcan) => \E i \in DOMAIN list : list[i] = f
      BY <2>2, <3>1, <3>2 DEF ListsOwn
    <3>4. /\ (\E i \in DOMAIN list : list[i] = f) => Occurrences(f, list) = 1
          /\ ~(\E i \in DOMAIN list : list[i] = f) => Occurrences(f, list) = 0
      BY <3>3, ListedOnce
    <3>5. CASE \E i \in DOMAIN list : list[i] = f
      BY <3>2, <3>3, <3>4, <3>5
    <3>6. CASE ~(\E i \in DOMAIN list : list[i] = f)
      BY <3>2, <3>3, <3>4, <3>6
    <3> QED
      BY <3>5, <3>6
  <2> QED
    BY <2>1, <2>2 DEF TrashcanListsOwnFeels
<1> QED
  BY <1>1, Invariance, PTL

-----------------------------------------------------------------------------
(* What a step does to the open section and to the noted one. *)

\* A snapshot of feels shifts the flags as it shifts the feels.
LEMMA FeelsKeepOpen ==
  ASSUME IInv, NEW k \in DOMAIN pages, pages[k].queue # <<>>,
         DeliverFeels(k, Head(pages[k].queue))
  PROVE  OpenFeels(pages'[k]) \subseteq OpenFeels(pages[k])
<1>1. PICK p : p = pages[k]
  OBVIOUS
<1>2. p \in Pages /\ Len(p.feelsArray) = Len(p.reactNibOpen) /\ own \subseteq Feels
  BY <1>1 DEF IInv, TypeOK, PagesSound, PageSound, TableSound
<1>3. /\ p.queue \in Seq(Callbacks) /\ p.feelsArray \in Seq(Feels)
      /\ p.reactNibOpen \in Seq(BOOLEAN)
  BY <1>2, PageTypes
<1>4. PICK d : d = Delivered(p)
  OBVIOUS
<1>5. d \in Pages /\ d.feelsArray = p.feelsArray /\ d.reactNibOpen = p.reactNibOpen
  BY <1>1, <1>2, <1>4, DeliveredPage
<1>6. PICK call : call = Head(p.queue)
  OBVIOUS
<1>7. call \in Callbacks
  BY <1>1, <1>3, <1>6, TailElements
<1>8. DOMAIN p.reactNibOpen = 1 .. Len(p.feelsArray) /\ Len(p.feelsArray) \in Nat
  BY <1>2, <1>3, LenProperties
<1>9. ASSUME NEW q, pages' = [pages EXCEPT ![k] = q],
             \A i \in OpenSections(q) : \E j \in DOMAIN p.reactNibOpen :
                p.reactNibOpen[j] /\ q.feelsArray[i] = p.feelsArray[j]
      PROVE  OpenFeels(pages'[k]) \subseteq OpenFeels(pages[k])
  <2>1. pages'[k] = q
    BY <1>9
  <2>2. OpenFeels(q) \subseteq OpenFeels(p)
    BY <1>9 DEF OpenFeels, OpenSections
  <2> QED
    BY <1>1, <2>1, <2>2
<1>10. CASE call.type = "added"
  <2>1. PICK list, flags : /\ list = ListedFeels(p.feelsArray, call.ids)
                           /\ flags = OpenFlags(p.reactNibOpen, call.ids)
    OBVIOUS
  <2>2. PICK q : q = [d EXCEPT !.feelsArray = list, !.reactNibOpen = flags]
    OBVIOUS
  <2>3. pages' = [pages EXCEPT ![k] = q]
    <3>1. pages' = [pages EXCEPT ![k] =
                      [d EXCEPT !.feelsArray = ListedFeels(d.feelsArray, call.ids),
                                !.reactNibOpen = OpenFlags(d.reactNibOpen, call.ids)]]
      BY <1>1, <1>4, <1>6, <1>10 DEF DeliverFeels
    <3> QED
      BY <1>5, <2>1, <2>2, <3>1
  <2>4. call.ids \in SUBSET Feels
    BY <1>7 DEF Callbacks
  <2>5. \A i \in 1 .. Len(p.feelsArray) : list[Cardinality(call.ids \ own) + i] = p.feelsArray[i]
    BY <1>2, <1>3, <2>1, <2>4, ListedFeelsElements
  <2>6. \A i \in DOMAIN flags : flags[i] =>
           \E j \in DOMAIN p.reactNibOpen : i = Cardinality(call.ids \ own) + j /\ p.reactNibOpen[j]
    BY <1>3, <2>1, <2>4, OpenFlagsElements
  <2>7. q.feelsArray = list /\ q.reactNibOpen = flags
    BY <1>5, <2>2 DEF Pages
  <2>8. \A i \in OpenSections(q) : \E j \in DOMAIN p.reactNibOpen :
           p.reactNibOpen[j] /\ q.feelsArray[i] = p.feelsArray[j]
    <3>1. TAKE i \in OpenSections(q)
    <3>2. PICK j \in DOMAIN p.reactNibOpen : i = Cardinality(call.ids \ own) + j /\ p.reactNibOpen[j]
      BY <2>6, <2>7 DEF OpenSections
    <3>3. list[i] = p.feelsArray[j]
      BY <1>8, <2>5, <3>2
    <3> QED
      BY <2>7, <3>2, <3>3
  <2> QED
    BY <1>9, <2>3, <2>8
<1>11. CASE call.type = "removed" /\ call.ids \subseteq own /\ p.feelsArray # <<>>
  <2>1. PICK q : q = [d EXCEPT !.feelsArray = Tail(p.feelsArray), !.reactNibOpen = Tail(p.reactNibOpen)]
    OBVIOUS
  <2>2. pages' = [pages EXCEPT ![k] = q]
    <3>1. pages' = [pages EXCEPT ![k] = FeelsRemoved(d, call.ids)]
      BY <1>1, <1>4, <1>5, <1>6, <1>11 DEF DeliverFeels
    <3> QED
      BY <1>5, <1>11, <2>1, <3>1 DEF FeelsRemoved
  <2>3. q.feelsArray = Tail(p.feelsArray) /\ q.reactNibOpen = Tail(p.reactNibOpen)
    BY <1>5, <2>1 DEF Pages
  <2>4. p.reactNibOpen # <<>>
    BY <1>2, <1>3, <1>11, EmptyElements
  <2>5. \A i \in 1 .. Len(p.feelsArray) - 1 : Tail(p.feelsArray)[i] = p.feelsArray[i + 1]
    BY <1>3, <1>11, TailElements
  <2>6. /\ DOMAIN Tail(p.reactNibOpen) = 1 .. Len(p.reactNibOpen) - 1
        /\ \A i \in 1 .. Len(p.reactNibOpen) - 1 : Tail(p.reactNibOpen)[i] = p.reactNibOpen[i + 1]
    BY <1>3, <2>4, TailElements, LenProperties
  <2>7. \A i \in OpenSections(q) : \E j \in DOMAIN p.reactNibOpen :
           p.reactNibOpen[j] /\ q.feelsArray[i] = p.feelsArray[j]
    <3>1. TAKE i \in OpenSections(q)
    <3>2. i \in 1 .. Len(p.feelsArray) - 1 /\ q.reactNibOpen[i]
      BY <1>2, <2>3, <2>6 DEF OpenSections
    <3>3. i + 1 \in DOMAIN p.reactNibOpen
      BY <1>8, <3>2
    <3>4. p.reactNibOpen[i + 1] /\ q.feelsArray[i] = p.feelsArray[i + 1]
      BY <1>2, <2>3, <2>5, <2>6, <3>2
    <3> QED
      BY <3>3, <3>4
  <2> QED
    BY <1>9, <2>2, <2>7
<1>12. CASE call.type = "removed" /\ call.ids \subseteq own /\ p.feelsArray = <<>>
  <2>1. pages' = pages
    BY <1>1, <1>4, <1>5, <1>6, <1>12 DEF DeliverFeels
  <2> QED
    BY <2>1
<1>13. CASE call.type = "removed" /\ ~(call.ids \subseteq own)
  <2>1. pages' = [pages EXCEPT ![k] = d]
    BY <1>1, <1>4, <1>6, <1>13 DEF DeliverFeels, FeelsRemoved
  <2>2. \A i \in OpenSections(d) : \E j \in DOMAIN p.reactNibOpen :
           p.reactNibOpen[j] /\ d.feelsArray[i] = p.feelsArray[j]
    BY <1>5 DEF OpenSections
  <2> QED
    BY <1>9, <2>1, <2>2
<1>14. call.type \in {"added", "removed"}
  BY <1>1, <1>6 DEF DeliverFeels
<1> QED
  BY <1>10, <1>11, <1>12, <1>13, <1>14

\* One of reactions leaves both alone.
LEMMA ReactsKeepOpen ==
  ASSUME IInv, NEW k \in DOMAIN pages, pages[k].queue # <<>>,
         DeliverReacts(k, Head(pages[k].queue))
  PROVE  OpenFeels(pages'[k]) \subseteq OpenFeels(pages[k])
<1>1. PICK p : p = pages[k]
  OBVIOUS
<1>2. PICK d : d = Delivered(p)
  OBVIOUS
<1>3. p \in Pages /\ d \in Pages /\ d.feelsArray = p.feelsArray /\ d.reactNibOpen = p.reactNibOpen
  BY <1>1, <1>2, DeliveredPage DEF IInv, PagesSound, PageSound
<1>4. \/ pages' = pages
      \/ \E list : pages' = [pages EXCEPT ![k] = [d EXCEPT !.reactionsArray = list]]
  <2>1. PICK call : call = Head(p.queue)
    OBVIOUS
  <2>2. CASE call.type = "added"
    BY <1>1, <1>2, <2>1, <2>2 DEF DeliverReacts
  <2>3. CASE call.type = "modified"
    <3>1. CASE d.currentReact \in DOMAIN d.reactionsArray
      <4>1. PICK f : pages' = [pages EXCEPT ![k] = [d EXCEPT !.reactionsArray[d.currentReact] = f]]
        BY <1>1, <1>2, <2>1, <2>3, <3>1 DEF DeliverReacts
      <4>2. pages' = [pages EXCEPT ![k] =
                       [d EXCEPT !.reactionsArray = [d.reactionsArray EXCEPT ![d.currentReact] = f]]]
        BY <1>3, <4>1
      <4> QED
        BY <4>2
    <3>2. CASE d.currentReact \notin DOMAIN d.reactionsArray
      BY <1>1, <1>2, <2>1, <2>3, <3>2 DEF DeliverReacts
    <3> QED
      BY <3>1, <3>2
  <2>4. CASE call.type = "removed"
    BY <1>1, <1>2, <2>1, <2>4 DEF DeliverReacts
  <2> QED
    BY <1>1, <2>1, <2>2, <2>3, <2>4 DEF DeliverReacts
<1>5. ASSUME NEW list, pages' = [pages EXCEPT ![k] = [d EXCEPT !.reactionsArray = list]]
      PROVE  OpenFeels(pages'[k]) \subseteq OpenFeels(pages[k])
  <2>1. PICK q : q = [d EXCEPT !.reactionsArray = list]
    OBVIOUS
  <2>2. q.feelsArray = p.feelsArray /\ q.reactNibOpen = p.reactNibOpen
    BY <1>3, <2>1 DEF Pages
  <2>3. pages'[k] = q
    BY <1>5, <2>1
  <2>4. OpenFeels(q) = OpenFeels(p)
    BY <2>2 DEF OpenFeels, OpenSections
  <2> QED
    BY <1>1, <2>3, <2>4
<1> QED
  BY <1>4, <1>5

\* When a snapshot shifts the arrays, no section opens by itself and the one
\* that is open still is that of the same feels.
THEOREM OpenSectionStays == Spec => OpenSectionFollowsFeels
<1>1. ASSUME IInv, NEW k \in DOMAIN pages, Deliver(k)
      PROVE  OpenFeels(pages'[k]) \subseteq OpenFeels(pages[k])
  BY <1>1, FeelsKeepOpen, ReactsKeepOpen DEF Deliver
<1>2. IInv /\ [Next]_vars
        => [\A k \in DOMAIN pages : Deliver(k) => OpenFeels(pages'[k]) \subseteq OpenFeels(pages[k])]_vars
  BY <1>1
<1> QED
  BY <1>2, Invariance, PTL DEF Spec, OpenSectionFollowsFeels

\* Arrays that keep the places they have keep the noted one.
LEMMA NotedKept ==
  ASSUME NEW p, NEW q, Noted(p), q.currentReact = p.currentReact,
         DOMAIN p.reactNibOpen \subseteq DOMAIN q.reactNibOpen,
         DOMAIN p.reactionsArray \subseteq DOMAIN q.reactionsArray
  PROVE  Noted(q)
  BY DEF Noted

\* Only a removal takes the noted section away from a page that is told.
LEMMA DeliverKeepsNoted ==
  ASSUME IInv, NEW k \in DOMAIN pages, pages[k].queue # <<>>,
         DeliverFeels(k, Head(pages[k].queue)) \/ DeliverReacts(k, Head(pages[k].queue)),
         Head(pages[k].queue).type # "removed", Noted(pages[k])
  PROVE  Noted(pages'[k])
<1>1. PICK p : p = pages[k]
  OBVIOUS
<1>2. p \in Pages /\ p.queue # <<>> /\ own \subseteq Feels
  BY <1>1 DEF IInv, TypeOK, PagesSound, PageSound
<1>3. /\ p.queue \in Seq(Callbacks) /\ p.feelsArray \in Seq(Feels)
      /\ p.reactNibOpen \in Seq(BOOLEAN) /\ p.reactionsArray \in Seq(Feels)
  BY <1>2, PageTypes
<1>4. PICK call : call = Head(p.queue)
  OBVIOUS
<1>5. call \in Callbacks /\ call.ids \in SUBSET Feels
  <2>1. call \in Callbacks
    BY <1>2, <1>3, <1>4, TailElements
  <2> QED
    BY <2>1 DEF Callbacks
<1>6. PICK d : d = Delivered(p)
  OBVIOUS
<1>7. /\ d \in Pages /\ d.feelsArray = p.feelsArray /\ d.reactNibOpen = p.reactNibOpen
      /\ d.reactionsArray = p.reactionsArray /\ d.currentReact = p.currentReact
  BY <1>2, <1>6, DeliveredPage
<1>8. Cardinality(call.ids) \in Nat /\ Cardinality(call.ids \ own) \in Nat
  BY <1>5, FeelsFinite
<1>9. ASSUME NEW q, pages' = [pages EXCEPT ![k] = q], q.currentReact = p.currentReact,
             DOMAIN p.reactNibOpen \subseteq DOMAIN q.reactNibOpen,
             DOMAIN p.reactionsArray \subseteq DOMAIN q.reactionsArray
      PROVE  Noted(pages'[k])
  <2>1. pages'[k] = q
    BY <1>9
  <2> QED
    BY <1>1, <1>9, <2>1, NotedKept
<1>10. CASE DeliverFeels(k, Head(pages[k].queue))
  <2>1. PICK list, flags : /\ list = ListedFeels(p.feelsArray, call.ids)
                           /\ flags = OpenFlags(p.reactNibOpen, call.ids)
    OBVIOUS
  <2>2. PICK q : q = [d EXCEPT !.feelsArray = list, !.reactNibOpen = flags]
    OBVIOUS
  <2>3. pages' = [pages EXCEPT ![k] = q]
    <3>1. pages' = [pages EXCEPT ![k] =
                      [d EXCEPT !.feelsArray = ListedFeels(d.feelsArray, call.ids),
                                !.reactNibOpen = OpenFlags(d.reactNibOpen, call.ids)]]
      BY <1>1, <1>4, <1>6, <1>10 DEF DeliverFeels
    <3> QED
      BY <1>7, <2>1, <2>2, <3>1
  <2>4. flags \in Seq(BOOLEAN)
        /\ Len(flags) = Cardinality(call.ids \ own) + Len(p.reactNibOpen) + Cardinality(call.ids)
    BY <1>3, <1>5, <2>1, OpenFlagsElements
  <2>5. DOMAIN p.reactNibOpen \subseteq DOMAIN flags
    <3>1. DOMAIN p.reactNibOpen = 1 .. Len(p.reactNibOpen) /\ DOMAIN flags = 1 .. Len(flags)
          /\ Len(p.reactNibOpen) \in Nat
      BY <1>3, <2>4, LenProperties
    <3> QED
      BY <1>8, <2>4, <3>1
  <2>6. q.currentReact = p.currentReact /\ q.reactNibOpen = flags /\ q.reactionsArray = p.reactionsArray
    BY <1>7, <2>2 DEF Pages
  <2> QED
    BY <1>9, <2>3, <2>5, <2>6
<1>11. ASSUME NEW list, pages' = [pages EXCEPT ![k] = [d EXCEPT !.reactionsArray = list]],
              DOMAIN p.reactionsArray \subseteq DOMAIN list
       PROVE  Noted(pages'[k])
  <2>1. PICK q : q = [d EXCEPT !.reactionsArray = list]
    OBVIOUS
  <2>2. q.currentReact = p.currentReact /\ q.reactNibOpen = p.reactNibOpen /\ q.reactionsArray = list
    BY <1>7, <2>1 DEF Pages
  <2> QED
    BY <1>9, <1>11, <2>1, <2>2
<1>12. CASE DeliverReacts(k, Head(pages[k].queue)) /\ call.type = "added"
  <2>1. PICK new : new = Newest(call.ids)
    OBVIOUS
  <2>2. new \in Seq(call.ids)
    BY <1>5, <2>1, NewestList
  <2>3. new \in Seq(Feels)
    BY <1>5, <2>2
  <2>4. PICK old : old = p.reactionsArray
    OBVIOUS
  <2>5. DOMAIN old \subseteq DOMAIN (old \o new)
    <3>1. old \in Seq(Feels) /\ old \o new \in Seq(Feels) /\ Len(old \o new) = Len(old) + Len(new)
      BY <1>3, <2>3, <2>4, ConcatProperties
    <3>2. /\ DOMAIN old = 1 .. Len(old) /\ DOMAIN (old \o new) = 1 .. Len(old \o new)
          /\ Len(old) \in Nat /\ Len(new) \in Nat
      BY <2>3, <3>1, LenProperties
    <3> QED
      BY <3>1, <3>2
  <2>6. pages' = [pages EXCEPT ![k] = [d EXCEPT !.reactionsArray = d.reactionsArray \o Newest(call.ids)]]
    BY <1>1, <1>4, <1>6, <1>12 DEF DeliverReacts
  <2> QED
    BY <1>7, <1>11, <2>1, <2>4, <2>5, <2>6
<1>13. CASE DeliverReacts(k, Head(pages[k].queue)) /\ call.type = "modified"
  <2>1. CASE d.currentReact \in DOMAIN d.reactionsArray
    <3>1. PICK f : pages' = [pages EXCEPT ![k] = [d EXCEPT !.reactionsArray[d.currentReact] = f]]
      BY <1>1, <1>4, <1>6, <1>13, <2>1 DEF DeliverReacts
    <3>2. pages' = [pages EXCEPT ![k] =
                     [d EXCEPT !.reactionsArray = [d.reactionsArray EXCEPT ![d.currentReact] = f]]]
      BY <1>7, <3>1
    <3>3. DOMAIN [d.reactionsArray EXCEPT ![d.currentReact] = f] = DOMAIN p.reactionsArray
      BY <1>7
    <3> QED
      BY <1>11, <3>2, <3>3
  <2>2. CASE d.currentReact \notin DOMAIN d.reactionsArray
    BY <1>1, <1>4, <1>6, <1>13, <2>2 DEF DeliverReacts
  <2> QED
    BY <2>1, <2>2
<1> QED
  BY <1>1, <1>4, <1>5, <1>10, <1>12, <1>13 DEF Callbacks

\* Laying out notes a section that has its rows.
LEMMA LayOutKeepsNoted ==
  ASSUME IInv, NEW p \in Pages, LayOut(p), p.currentReact = Top.currentReact,
         DOMAIN p.reactNibOpen = DOMAIN Top.reactNibOpen, p.reactionsArray = Top.reactionsArray,
         NEW k \in DOMAIN pages, Noted(pages[k])
  PROVE  Noted(pages'[k])
<1>1. PICK q : q = [p EXCEPT !.shown = Len(p.feelsArray), !.reloading = FALSE, !.bound = None]
  OBVIOUS
<1>2. /\ q.currentReact = p.currentReact /\ q.reactNibOpen = p.reactNibOpen
      /\ q.reactionsArray = p.reactionsArray
  BY <1>1 DEF Pages
<1>3. CASE pages' = pages
  BY <1>3
<1>4. CASE pages' = [pages EXCEPT ![Len(pages)] = q]
  <2>1. CASE k = Len(pages)
    BY <1>2, <1>4, <2>1, NotedKept DEF Top
  <2>2. CASE k # Len(pages)
    BY <1>4, <2>2
  <2> QED
    BY <2>1, <2>2
<1>5. ASSUME NEW i \in OpenSections(p), i \in DOMAIN p.reactionsArray,
             pages' = [pages EXCEPT ![Len(pages)] =
                         [q EXCEPT !.currentReact = i, !.bound = p.reactionsArray[i]]]
      PROVE  Noted(pages'[k])
  <2>1. PICK r : r = [q EXCEPT !.currentReact = i, !.bound = p.reactionsArray[i]]
    OBVIOUS
  <2>2. /\ r.currentReact = i /\ r.reactNibOpen = p.reactNibOpen
        /\ r.reactionsArray = p.reactionsArray
    BY <1>1, <2>1 DEF Pages
  <2>3. Noted(r)
    BY <1>5, <2>2 DEF Noted, OpenSections
  <2>4. CASE k = Len(pages)
    BY <1>5, <2>1, <2>3, <2>4
  <2>5. CASE k # Len(pages)
    BY <1>5, <2>5
  <2> QED
    BY <2>4, <2>5
<1> QED
  BY <1>1, <1>3, <1>4, <1>5 DEF LayOut

\* Hearing of a change touches nothing but the queue.
LEMMA RaiseKeepsNoted ==
  ASSUME NEW pgs \in Seq(Pages), NEW call \in Callbacks
  PROVE  /\ Raise(pgs, call) \in Seq(Pages)
         /\ DOMAIN Raise(pgs, call) = DOMAIN pgs
         /\ \A k \in DOMAIN pgs : Noted(pgs[k]) => Noted(Raise(pgs, call)[k])
<1>1. DOMAIN pgs = 1 .. Len(pgs) /\ Len(pgs) \in Nat
  BY LenProperties
<1>2. ASSUME NEW k \in DOMAIN pgs
      PROVE  /\ Raise(pgs, call)[k] \in Pages
             /\ Noted(pgs[k]) => Noted(Raise(pgs, call)[k])
  <2>1. PICK p : p = pgs[k]
    OBVIOUS
  <2>2. p \in Pages
    BY <2>1, ElementOfSeq
  <2>3. p.listeners \in Nat /\ p.queue \in Seq(Callbacks)
    BY <2>2, PageTypes
  <2>4. PICK calls : calls = [i \in 1 .. p.listeners |-> call]
    OBVIOUS
  <2>5. calls \in Seq(Callbacks)
    <3>1. PICK n \in Nat : n = p.listeners
      BY <2>3
    <3>2. calls \in [1 .. n -> Callbacks]
      BY <2>4, <3>1
    <3> QED
      BY <3>2
  <2>6. PICK queue : queue = p.queue \o calls
    OBVIOUS
  <2>7. queue \in Seq(Callbacks)
    BY <2>3, <2>5, <2>6, ConcatProperties
  <2>8. PICK q : q = [p EXCEPT !.queue = queue]
    OBVIOUS
  <2>9. /\ q \in Pages /\ q.currentReact = p.currentReact /\ q.reactNibOpen = p.reactNibOpen
        /\ q.reactionsArray = p.reactionsArray
    BY <2>2, <2>7, <2>8 DEF Pages
  <2>10. Raise(pgs, call)[k] = q
    BY <2>1, <2>4, <2>6, <2>8 DEF Raise
  <2>11. Noted(p) => Noted(q)
    BY <2>9, NotedKept
  <2> QED
    BY <2>1, <2>9, <2>10, <2>11
<1>3. Raise(pgs, call) \in [1 .. Len(pgs) -> Pages]
  <2>1. Raise(pgs, call) = [k \in 1 .. Len(pgs) |-> Raise(pgs, call)[k]]
    BY <1>1 DEF Raise
  <2> QED
    BY <1>1, <1>2, <2>1
<1> QED
  BY <1>1, <1>2, <1>3, SeqDef, LenProperties

\* A page that is covered or comes back keeps the section it noted.
LEMMA TopKeepsNoted ==
  ASSUME TypeOK, NEW q, pages' = [pages EXCEPT ![Len(pages)] = q],
         \/ q = Disappeared(Top)
         \/ q = Appeared(Top, feelsDoc, reactsDoc),
         NEW k \in DOMAIN pages, Noted(pages[k])
  PROVE  Noted(pages'[k])
<1>1. Top \in Pages
  BY TopPage
<1>2. PICK p : p = Top
  OBVIOUS
<1>3. /\ q.currentReact = p.currentReact /\ q.reactNibOpen = p.reactNibOpen
      /\ q.reactionsArray = p.reactionsArray
  <2>1. CASE q = Disappeared(Top)
    BY <1>1, <1>2, <2>1 DEF Disappeared, Pages
  <2>2. CASE q = Appeared(Top, feelsDoc, reactsDoc)
    <3>1. PICK r : r = IF p.listenToFeels THEN Registered(p, feelsDoc, reactsDoc) ELSE p
      OBVIOUS
    <3>2. q = [r EXCEPT !.shown = Len(p.feelsArray), !.reloading = FALSE]
      BY <1>2, <2>2, <3>1 DEF Appeared
    <3>3. PICK calls : calls = p.queue \o <<Callback("feels", "added", Live(feelsDoc)),
                                            Callback("reactions", "added", Live(reactsDoc))>>
      OBVIOUS
    <3>4. r = [p EXCEPT !.listeners = p.listeners + 1, !.queue = calls] \/ r = p
      BY <3>1, <3>3 DEF Registered
    <3> QED
      BY <1>1, <1>2, <3>2, <3>4 DEF Pages
  <2> QED
    BY <2>1, <2>2
<1>4. CASE k = Len(pages)
  BY <1>2, <1>3, <1>4, NotedKept DEF Top
<1>5. CASE k # Len(pages)
  BY <1>5
<1> QED
  BY <1>4, <1>5

\* The section noted for the long press stays within the arrays of its page
\* until a removal takes it away.
THEOREM NotedSectionStays == Spec => NotedSectionLostOnlyToRemovals
<1>1. ASSUME IInv, [Next]_vars, NEW k \in DOMAIN pages \cap DOMAIN pages', Noted(pages[k])
      PROVE  Noted(pages'[k]) \/ (Deliver(k) /\ Head(pages[k].queue).type = "removed")
  <2>1. pages \in Seq(Pages) /\ TypeOK /\ k \in DOMAIN pages /\ k \in DOMAIN pages'
        /\ Top \in Pages
    BY <1>1, TopPage DEF IInv, TypeOK
  <2>2. ASSUME NEW j, Deliver(j)
        PROVE  Noted(pages'[k]) \/ (Deliver(k) /\ Head(pages[k].queue).type = "removed")
    <3>1. CASE j = k /\ Head(pages[k].queue).type = "removed"
      BY <2>2, <3>1
    <3>2. CASE j = k /\ Head(pages[k].queue).type # "removed"
      BY <1>1, <2>1, <2>2, <3>2, DeliverKeepsNoted DEF Deliver
    <3>3. CASE j # k
      <4>1. \/ pages' = pages
            \/ \E q : pages' = [pages EXCEPT ![j] = q]
        BY <2>2 DEF Deliver, DeliverFeels, DeliverReacts
      <4> QED
        BY <1>1, <2>1, <3>3, <4>1
    <3> QED
      BY <3>1, <3>2, <3>3
  <2>3. ASSUME UNCHANGED pages
        PROVE  Noted(pages'[k])
    BY <1>1, <2>3
  <2>4. ASSUME LayOut(Top)
        PROVE  Noted(pages'[k])
    BY <1>1, <2>1, <2>4, LayOutKeepsNoted
  <2>5. CASE Reload
    BY <2>4, <2>5 DEF Reload
  <2>6. CASE Scroll
    BY <2>3, <2>4, <2>6 DEF Scroll
  <2>7. ASSUME NEW i, Select(i)
        PROVE  Noted(pages'[k])
    <3>1. CASE UNCHANGED pages
      BY <2>3, <3>1
    <3>2. CASE ~UNCHANGED pages
      <4>1. PICK p : p = Top
        OBVIOUS
      <4>2. p \in Pages /\ p.reactNibOpen \in Seq(BOOLEAN)
        BY <2>1, <4>1, PageTypes
      <4>3. PICK flags : flags = Toggled(p.reactNibOpen, i)
        OBVIOUS
      <4>4. flags \in Seq(BOOLEAN) /\ Len(flags) = Len(p.reactNibOpen)
        BY <4>2, <4>3, ToggledFlags
      <4>5. DOMAIN flags = DOMAIN p.reactNibOpen
        BY <4>2, <4>4, LenProperties
      <4>6. PICK q : q = [p EXCEPT !.reactNibOpen = flags]
        OBVIOUS
      <4>7. /\ q \in Pages /\ q.reactNibOpen = flags /\ q.currentReact = p.currentReact
            /\ q.reactionsArray = p.reactionsArray
        BY <4>2, <4>4, <4>6 DEF Pages
      <4>8. LayOut(q)
        BY <2>7, <3>2, <4>1, <4>3, <4>6 DEF Select
      <4> QED
        BY <1>1, <2>1, <4>1, <4>5, <4>7, <4>8, LayOutKeepsNoted
    <3> QED
      BY <3>1, <3>2
  <2>8. ASSUME NEW f \in Feels, WriteReactions(f)
        PROVE  Noted(pages'[k])
    <3>1. PICK call : call = Callback("reactions", IF reactsDoc[f] = "live" THEN "modified" ELSE "added", {f})
      OBVIOUS
    <3>2. call \in Callbacks /\ pages' = Raise(pages, call)
      BY <2>8, <3>1 DEF WriteReactions, Callback, Callbacks
    <3> QED
      BY <1>1, <2>1, <3>2, RaiseKeepsNoted
  <2>9. CASE TapReact
    <3>1. Top.bound \in Feels
      BY <2>1, <2>9, PageTypes DEF TapReact, None
    <3> QED
      BY <2>8, <2>9, <3>1 DEF TapReact
  <2>10. CASE LongPress
    <3>1. CASE UNCHANGED pages
      BY <2>3, <3>1
    <3>2. CASE ~UNCHANGED pages
      <4>1. pages' = [pages EXCEPT ![Len(pages)] = Disappeared(pages[Len(pages)])]
        BY <2>10, <3>2 DEF LongPress
      <4> QED
        BY <1>1, <2>1, <4>1, TopKeepsNoted DEF Top
    <3> QED
      BY <3>1, <3>2
  <2>11. ASSUME NEW to, Leave(to)
         PROVE  Noted(pages'[k])
    <3>1. pages' = [pages EXCEPT ![Len(pages)] = Disappeared(pages[Len(pages)])]
      BY <2>11 DEF Leave
    <3> QED
      BY <1>1, <2>1, <3>1, TopKeepsNoted DEF Top
  <2>12. CASE ComeBack
    <3>1. pages' = [pages EXCEPT ![Len(pages)] = Appeared(pages[Len(pages)], feelsDoc, reactsDoc)]
      BY <2>12 DEF ComeBack
    <3> QED
      BY <1>1, <2>1, <3>1, TopKeepsNoted DEF Top
  <2>13. \A pgs \in Seq(Pages) : \A q : k \in DOMAIN pgs => Append(pgs, q)[k] = pgs[k]
    <3>1. TAKE pgs \in Seq(Pages)
    <3> TAKE q
    <3>2. \A j \in 1 .. Len(pgs) : Append(pgs, q)[j] = pgs[j]
      OBVIOUS
    <3> QED
      BY <3>2, LenProperties
  <2>14. CASE BackFromComposer
    BY <1>1, <2>1, <2>13, <2>14 DEF BackFromComposer
  <2>15. ASSUME NEW f \in Feels, NEW type \in {"added", "removed"}
         PROVE  LET told == Raise(pages, Callback("feels", type, {f}))
                    both == Raise(told, Callback("reactions", type, {f}))
                IN  /\ told \in Seq(Pages) /\ k \in DOMAIN told /\ Noted(told[k])
                    /\ both \in Seq(Pages) /\ k \in DOMAIN both /\ Noted(both[k])
    <3>1. PICK first, second : /\ first = Callback("feels", type, {f})
                               /\ second = Callback("reactions", type, {f})
      OBVIOUS
    <3>2. first \in Callbacks /\ second \in Callbacks
      BY <3>1 DEF Callback, Callbacks
    <3>3. PICK told : told = Raise(pages, first)
      OBVIOUS
    <3>4. told \in Seq(Pages) /\ k \in DOMAIN told /\ Noted(told[k])
      BY <1>1, <2>1, <3>2, <3>3, RaiseKeepsNoted
    <3>5. PICK both : both = Raise(told, second)
      OBVIOUS
    <3>6. both \in Seq(Pages) /\ k \in DOMAIN both /\ Noted(both[k])
      BY <3>2, <3>4, <3>5, RaiseKeepsNoted
    <3> QED
      BY <3>1, <3>3, <3>4, <3>5, <3>6
  <2>16. ASSUME NEW f \in Feels, DumpFeels(f)
         PROVE  Noted(pages'[k])
    <3>1. PICK both : both = Raise(Raise(pages, Callback("feels", "added", {f})),
                                   Callback("reactions", "added", {f}))
      OBVIOUS
    <3>2. both \in Seq(Pages) /\ k \in DOMAIN both /\ Noted(both[k])
      BY <2>15, <3>1
    <3>3. \E q : pages' = Append(both, q)
      BY <2>16, <3>1 DEF DumpFeels
    <3> QED
      BY <2>13, <3>2, <3>3
  <2>17. ASSUME NEW f \in Feels, DeleteFeels(f)
         PROVE  Noted(pages'[k])
    <3>1. PICK told, both : /\ told = Raise(pages, Callback("feels", "removed", {f}))
                            /\ both = Raise(told, Callback("reactions", "removed", {f}))
      OBVIOUS
    <3>2. Noted(told[k]) /\ Noted(both[k])
      BY <2>15, <3>1
    <3>3. pages' = both \/ pages' = told
      BY <2>17, <3>1 DEF DeleteFeels
    <3> QED
      BY <3>2, <3>3
  <2>18. CASE Relaunch
    <3>1. PICK q : q = Appeared(NewPage, feelsDoc, reactsDoc)
      OBVIOUS
    <3>2. pages' = <<q>>
      BY <2>18, <3>1 DEF Relaunch
    <3>3. k = 1 /\ pages'[k] = q
      BY <2>1, <3>2
    <3>4. q.currentReact = None
      BY <3>1 DEF Appeared, NewPage, Registered
    <3> QED
      BY <3>3, <3>4 DEF Noted
  <2>19. ASSUME NEW f \in Feels, FeelsSynced(f)
         PROVE  Noted(pages'[k])
    <3>1. PICK call : call = Callback("feels", IF feelsDoc[f] = "none" THEN "added" ELSE "removed", {f})
      OBVIOUS
    <3>2. call \in Callbacks /\ pages' = Raise(pages, call)
      BY <2>19, <3>1 DEF FeelsSynced, Callback, Callbacks
    <3> QED
      BY <1>1, <2>1, <3>2, RaiseKeepsNoted
  <2>20. ASSUME NEW f \in Feels, ReactionsSynced(f)
         PROVE  Noted(pages'[k])
    <3>1. PICK call : call = Callback("reactions", IF reactsDoc[f] = "none" THEN "added" ELSE "removed", {f})
      OBVIOUS
    <3>2. call \in Callbacks /\ pages' = Raise(pages, call)
      BY <2>20, <3>1 DEF ReactionsSynced, Callback, Callbacks
    <3> QED
      BY <1>1, <2>1, <3>2, RaiseKeepsNoted
  <2>21. ASSUME NEW f \in Feels, OtherReacts(f)
         PROVE  Noted(pages'[k])
    BY <2>8, <2>21 DEF OtherReacts
  <2>22. (\E j : DeliverContents(j)) \/ (\E S : OpenTrashcan(S)) \/ ReloadContents
           \/ CloseTrashcan \/ TapTab \/ UNCHANGED vars => UNCHANGED pages
    BY DEF DeliverContents, OpenTrashcan, ReloadContents, CloseTrashcan, TapTab, vars
  <2> QED
    BY <1>1, <2>2, <2>3, <2>5, <2>6, <2>7, <2>9, <2>10, <2>11, <2>12, <2>14, <2>16, <2>17,
       <2>18, <2>19, <2>20, <2>21, <2>22 DEF Next
<1>2. IInv /\ [Next]_vars
        => [\A k \in DOMAIN pages \cap DOMAIN pages' :
              Noted(pages[k]) => \/ Noted(pages'[k])
                                 \/ /\ Deliver(k)
                                    /\ Head(pages[k].queue).type = "removed"]_vars
  BY <1>1
<1> QED
  BY <1>2, Invariance, PTL DEF Spec, NotedSectionLostOnlyToRemovals
=============================================================================

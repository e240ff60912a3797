--------------------------------- MODULE Sync ---------------------------------
(***************************************************************************)
(* What the app relies on from Cloud Firestore, with no stream, batch      *)
(* number or acknowledgement in sight.                                     *)
(*                                                                         *)
(* The server is a log of writes.  A device shows the documents as of some *)
(* position of the log, with the writes of the signed-in user that it does *)
(* not yet know to be in there laid over them.  A user's writes enter the  *)
(* log in the order he made them, possibly more than once; a write may     *)
(* leave the queue only when the device's copy of the document is as new   *)
(* as the write, unless the server refuses it, the queue is reopened, or   *)
(* it updates a document the device does not have.                         *)
(***************************************************************************)
EXTENDS Integers, Sequences

CONSTANTS
  Keys,     \* names of documents
  Kinds,    \* of writes: "update" and "delete" among them
  Users,    \* who may be signed in
  Values,   \* what this device writes
  Elsewhere \* what the writes of other devices stand for, not in Values

VARIABLES
  log,    \* the writes committed, [key, kind, value]
  user,   \* who is signed in
  queue,  \* per user, his writes: [key, kind, value, at], at 0 if not known committed
  seen    \* per document, the position of the write the device has of it, or 0

vars == <<log, user, queue, seen>>

Positions(k) == {0} \cup {i \in DOMAIN log : log[i].key = k}

\* Whether there is a document at a position of the log.
HasDocument(position) == position # 0 /\ log[position].kind # "delete"

Uncommitted(q) == [i \in DOMAIN q |-> [q[i] EXCEPT !.at = 0]]

Init ==
  /\ log = <<>>
  /\ user \in Users
  /\ queue = [u \in Users |-> <<>>]
  /\ seen = [k \in Keys |-> 0]

\* The signed-in user sets, updates or deletes a document.
Write(k, kind, value) ==
  /\ queue' = [queue EXCEPT ![user] =
                 Append(@, [key |-> k, kind |-> kind, value |-> value, at |-> 0])]
  /\ UNCHANGED <<log, user, seen>>

\* The server commits the first of his writes not known to be committed; an
\* update, only of a document that was the last time set.
Commit(i) ==
  LET q == queue[user]
  IN  /\ \A j \in DOMAIN q : q[j].at = 0 <=> j >= i
      /\ q[i].kind = "update" =>
            \E p \in Positions(q[i].key) : /\ HasDocument(p)
                                           /\ \A r \in Positions(q[i].key) : r <= p
      /\ log' = Append(log, [key |-> q[i].key, kind |-> q[i].kind, value |-> q[i].value])
      /\ queue' = [queue EXCEPT ![user][i].at = Len(log')]
      /\ UNCHANGED <<user, seen>>

\* The device never hears that the writes after the n-th were committed, and
\* will send them again.
Forget(n) ==
  /\ queue' = [queue EXCEPT ![user] =
                 SubSeq(@, 1, n) \o Uncommitted(SubSeq(@, n + 1, Len(@)))]
  /\ UNCHANGED <<log, user, seen>>

\* The server refuses the first write it has not committed.
Reject(i) ==
  LET q == queue[user]
  IN  /\ \A j \in DOMAIN q : q[j].at = 0 <=> j >= i
      /\ queue' = [queue EXCEPT ![user] = SubSeq(@, 1, i - 1) \o SubSeq(@, i + 1, Len(@))]
      /\ UNCHANGED <<log, user, seen>>

\* The device learns of the log: documents only get newer, and the first n
\* writes leave the queue, every one of them in a document by now, but for
\* updates of a document the device does not have.
Hear(n) ==
  LET q == queue[user]
  IN  /\ \A k \in Keys : seen'[k] >= seen[k] /\ seen'[k] \in Positions(k)
      /\ seen' = [k \in Keys |-> seen'[k]]
      /\ \A i \in 1 .. n :
            /\ q[i].at # 0
            /\ \/ seen'[q[i].key] >= q[i].at
               \/ q[i].kind = "update" /\ ~HasDocument(seen'[q[i].key])
      /\ queue' = [queue EXCEPT ![user] = SubSeq(@, n + 1, Len(@))]
      /\ UNCHANGED <<log, user>>

\* Another device writes a document.
WriteElsewhere(k, kind) ==
  /\ log' = Append(log, [key |-> k, kind |-> kind, value |-> Elsewhere])
  /\ UNCHANGED <<user, queue, seen>>

\* The app is started again or another user signs in: of the writes known to
\* be committed the first n are given up, and the others are sent again.
\* Until the device hears of the log, it may not show what it gave up.
Reopen(u, n) ==
  LET q == queue[user]
  IN  /\ \A i \in 1 .. n : q[i].at # 0
      /\ queue' = [queue EXCEPT ![user] = Uncommitted(SubSeq(@, n + 1, Len(@)))]
      /\ user' = u
      /\ UNCHANGED <<log, seen>>

Next ==
  \/ \E k \in Keys, kind \in Kinds, value \in Values : Write(k, kind, value)
  \/ \E i \in DOMAIN queue[user] : Commit(i) \/ Reject(i)
  \/ \E n \in 0 .. Len(queue[user]) : Forget(n) \/ Hear(n)
  \/ \E k \in Keys, kind \in Kinds : WriteElsewhere(k, kind)
  \/ \E u \in Users, n \in 0 .. Len(queue[user]) : Reopen(u, n)

Spec == Init /\ [][Next]_vars
=============================================================================

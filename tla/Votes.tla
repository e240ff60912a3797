-------------------------------- MODULE Votes --------------------------------
(***************************************************************************)
(* What the reactions promise, whatever the devices do: on each feels a    *)
(* user has at most one recorded react, it is one he chose there himself,  *)
(* and a write leaves its author with a react.  What is NOT promised is    *)
(* that a recorded react lasts: a write records the reacts of all users as *)
(* its author's device last knew them, and may bring back an earlier one   *)
(* or drop it.                                                             *)
(***************************************************************************)
CONSTANTS Users, Feels, Reacts, NoReact

VARIABLES
  vote,  \* the react recorded for each user on each feels, or NoReact
  ever   \* the reacts each user ever chose on each feels

Init ==
  /\ vote = [f \in Feels |-> [u \in Users |-> NoReact]]
  /\ ever = [u \in Users |-> [f \in Feels |-> {}]]

Choose(u, f, r) ==
  /\ ever' = [ever EXCEPT ![u][f] = @ \cup {r}]
  /\ UNCHANGED vote

Record(author, f) ==
  /\ \E ballot \in [Users -> Reacts \cup {NoReact}] :
        /\ \A u \in Users : ballot[u] # NoReact => ballot[u] \in ever[u][f]
        /\ ballot[author] # NoReact
        /\ vote' = [vote EXCEPT ![f] = ballot]
  /\ UNCHANGED ever

Next ==
  \E u \in Users, f \in Feels :
     \/ \E r \in Reacts : Choose(u, f, r)
     \/ Record(u, f)

Spec == Init /\ [][Next]_<<vote, ever>>
=============================================================================

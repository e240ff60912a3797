-------------------------------- MODULE MCFeed --------------------------------
(***************************************************************************)
(* Feed for TLC, in small settings explored side by side.                  *)
(***************************************************************************)
EXTENDS Feed

\* Others dump, delete and react, one page listens.
Shared == [mine |-> {1}, alone |-> FALSE, pages |-> 1, trashcans |-> {}, reacts |-> 1, queue |-> 1]

\* Others dump and delete, and their calls wait behind one another.
Crowded == [Shared EXCEPT !.mine = {2}, !.reacts = 0, !.queue = 2]

\* The user goes to the composer and back: two pages listen.
Pushed == [mine |-> Feels, alone |-> TRUE, pages |-> 2, trashcans |-> {}, reacts |-> 0, queue |-> 2]

\* The user looks into a trashcan, reacting to feels of his own.
LookedAlone == [Pushed EXCEPT !.pages = 1, !.trashcans = {Feels}, !.reacts = 1]

\* He does so while others dump into a trashcan of the same name.
Looked == [LookedAlone EXCEPT !.mine = {2}, !.alone = FALSE, !.reacts = 0, !.queue = 1]

MCSettings == {Shared, Crowded, Pushed, LookedAlone, Looked}

\* One feels of somebody else.
Rows == {[Shared EXCEPT !.mine = {}, !.reacts = 0]}
=============================================================================

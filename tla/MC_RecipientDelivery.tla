----------------------- MODULE MC_RecipientDelivery -----------------------
(***************************************************************************)
(* Small instances of RecipientDelivery, one recipient of several events,  *)
(* and of ContentRouting, several recipients of one event.                 *)
(***************************************************************************)
EXTENDS RecipientDelivery, ContentRouting, TLC

VARIABLE machine

\* Two versions of a video, one of which mentions the recipient; either may be
\* the edit.  Another event.
SomeEvents ==
  {[coordinate |-> "first", version |-> 0, type |-> "mention"],
   [coordinate |-> "first", version |-> 1, type |-> "bell"],
   [coordinate |-> "post", version |-> 0, type |-> "other"]}

\* A video that mentions its author and a watcher, a comment that names an account
\* twice, and a reaction; watchers on two pages, the author among them.
Comment == [kind |-> "comment", author |-> "creator", tagged |-> <<"fan", "friend", "fan">>]
Reaction == [kind |-> "reaction", author |-> "creator", tagged |-> <<"fan", "fan">>]
Video == [kind |-> "video", author |-> "creator", tagged |-> <<"fan", "creator">>]

SomePosts == {Comment, Reaction, Video}
SomePages == << <<"fan", "friend", "creator">>, <<"other">> >>

\* Bounds: the other event meets no video; one replica shuts down at a time.  Two
\* handlers meet one worker, who can read the pages, and for a video find no name; or
\* after one handling two workers, who are not stopped, and the name is found.
Scenarios ==
  /\ published \in SUBSET {e \in Event : e.type # "other"} \cup {{e} : e \in Event}
  /\ Cardinality(stopping) <= 1
  /\ machine = "handlings" =>
       /\ \E w \in Worker : round[w] = Resting /\ w \notin stopping
       /\ \A w \in Worker : round[w].error # "unread"
       /\ event.kind = "video" => \A r \in Handler \cup Worker :
            round[r].copy \in {"none", "short and content", "short"}
  /\ machine = "pages" =>
       /\ stopping = {}
       /\ \E h \in Handler : round[h] = Resting /\ result[h] = Pending
       /\ enqueued => \A h \in Handler : round[h] = Resting
       /\ \A r \in Handler \cup Worker : round[r].copy \in {"none", "whole", "name"}

BothInit ==
  /\ machine \in {"recipient", "handlings", "pages"}
  /\ Init
  /\ RoutingInit
  /\ machine = "recipient" => event = Comment
  /\ machine = "pages" => event = Video

BothNext ==
  /\ UNCHANGED machine
  /\ \/ machine = "recipient" /\ Next /\ UNCHANGED routingVars
     \/ machine # "recipient" /\ RoutingNext /\ UNCHANGED recipientVars

BothSpec == BothInit /\ [][BothNext]_<<machine, recipientVars, routingVars>>

Symmetry == Permutations(Task) \cup Permutations(Handler) \cup Permutations(Worker)
=============================================================================

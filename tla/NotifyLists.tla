---------------------------- MODULE NotifyLists ----------------------------
(***************************************************************************)
(* Notify lists ("bells"): the creators whose posts a subscriber watches   *)
(* (handle_notify_list_update in src/src/event_handler.rs and              *)
(* replace_notify_subscriptions in src/src/redis_store.rs).                *)
(*                                                                         *)
(* The subscriber publishes replacement lists; relays deliver them in any  *)
(* order, again and again, to every replica, and no claim keeps replicas   *)
(* apart.  One Redis script compares the list with the stored stamp and    *)
(* then moves the two indexes of the relation creator by creator.  Redis   *)
(* runs it alone, but when it dies the writes it has made stay.            *)
(*                                                                         *)
(* The subscriber is fixed: its scripts touch its own list and its own     *)
(* membership in the sets of watchers.                                     *)
(***************************************************************************)
EXTENDS Integers, Sequences, FiniteSets

CONSTANTS
  Creator,       \* accounts other than the subscriber
  Subscriber,
  List,          \* the lists the subscriber publishes: date, id, tagged accounts
  MaxCreators,   \* notify_list_max_creators
  MaxFaults      \* bound on scripts that die and entries that are lost

ASSUME NotifyAssumption ==
  /\ List \subseteq [at : Nat, id : Nat, tags : Seq(Creator \cup {Subscriber})]
  /\ \A l, m \in List : l.at = m.at /\ l.id = m.id => l = m
  /\ {Subscriber, "whole"} \cap Creator = {}
  /\ MaxCreators \in Nat
  /\ MaxFaults \in Nat

VARIABLES
  published,   \* lists that relays have
  subs,        \* notify_subs:{subscriber}: the creators on the list
  watchers,    \* the creators c with the subscriber in notify_watchers:{c}
  stamp,       \* notify_subs_ts:{subscriber}
  script,      \* the script that is running
  faults       \* faults so far

notifyVars == <<published, subs, watchers, stamp, script, faults>>

Unstamped == [at |-> -1]
Bare(l) == [at |-> l.at]
NoScript == [phase |-> "idle"]
Whole == "whole"

Fault ==
  /\ faults < MaxFaults
  /\ faults' = faults + 1

-----------------------------------------------------------------------------
(* The list an event stands for: the distinct accounts it tags but its     *)
(* author, in the order of the tags, up to the cap.                        *)

TaggedBefore(l, i) == {l.tags[j] : j \in 1..(i - 1)} \ {Subscriber}

Collected(l) ==
  {l.tags[i] : i \in {j \in DOMAIN l.tags :
                        /\ l.tags[j] # Subscriber
                        /\ Cardinality(TaggedBefore(l, j)) < MaxCreators}}

-----------------------------------------------------------------------------
(* The guard.  A tie goes to the lower id; a stamp of an earlier build is  *)
(* bare, a date without an id, and wins every tie.                         *)

\* Mutant: an exact replay is rejected.
WinsTieAnew(l) == stamp # Bare(l) /\ l.id < stamp.id

WinsTie(l) == stamp # Bare(l) /\ l.id <= stamp.id

Supersedes(l) ==
  /\ stamp.at <= l.at
  /\ stamp.at = l.at => WinsTie(l)

-----------------------------------------------------------------------------
(* The script                                                              *)

PublishList(l) ==
  /\ l \notin published
  /\ published' = published \cup {l}
  /\ UNCHANGED <<subs, watchers, stamp, script, faults>>

Replace(l) ==
  /\ l \in published
  /\ script = NoScript
  /\ Supersedes(l)
  /\ script' = [phase |-> "drop", list |-> l, todo |-> subs \ Collected(l), half |-> Whole]
  /\ UNCHANGED <<published, subs, watchers, stamp, faults>>

\* Mutant: a creator is added to the reverse index first.
ReverseFirstAlways(phase) == TRUE

\* Which of a creator's two entries the script writes first.
ReverseFirst(phase) == phase = "drop"

\* notify_watchers:{c} and notify_subs:{subscriber}
WriteReverse(c) ==
  /\ watchers' = IF script.phase = "drop" THEN watchers \ {c} ELSE watchers \cup {c}
  /\ UNCHANGED subs

WriteForward(c) ==
  /\ subs' = IF script.phase = "drop" THEN subs \ {c} ELSE subs \cup {c}
  /\ UNCHANGED watchers

FirstWrite(c) ==
  /\ script # NoScript
  /\ c \in script.todo
  /\ script.half = Whole
  /\ IF ReverseFirst(script.phase) THEN WriteReverse(c) ELSE WriteForward(c)
  /\ script' = [script EXCEPT !.half = c]
  /\ UNCHANGED <<published, stamp, faults>>

SecondWrite(c) ==
  /\ script # NoScript
  /\ c \in script.todo
  /\ script.half = c
  /\ IF ReverseFirst(script.phase) THEN WriteForward(c) ELSE WriteReverse(c)
  /\ script' = [script EXCEPT !.half = Whole, !.todo = script.todo \ {c}]
  /\ UNCHANGED <<published, stamp, faults>>

\* Every creator of the list is added, also those that are listed already.
StartAdding ==
  /\ script # NoScript
  /\ script.phase = "drop"
  /\ script.todo = {}
  /\ script' = [script EXCEPT !.phase = "add", !.todo = Collected(script.list)]
  /\ UNCHANGED <<published, subs, watchers, stamp, faults>>

Stamp ==
  /\ script # NoScript
  /\ script.phase = "add"
  /\ script.todo = {}
  /\ stamp' = [at |-> script.list.at, id |-> script.list.id]
  /\ script' = NoScript
  /\ UNCHANGED <<published, subs, watchers, faults>>

-----------------------------------------------------------------------------
(* Faults                                                                  *)

Die ==
  /\ script # NoScript
  /\ Fault
  /\ script' = NoScript
  /\ UNCHANGED <<published, subs, watchers, stamp>>

\* Redis loses an entry of the reverse index while the list survives.
LoseWatcher(c) ==
  /\ script = NoScript
  /\ c \in watchers
  /\ Fault
  /\ watchers' = watchers \ {c}
  /\ UNCHANGED <<published, subs, stamp, script>>

-----------------------------------------------------------------------------
\* Nothing was applied yet, or a list was applied by an earlier build.
ListsInit ==
  /\ published = {}
  /\ script = NoScript
  /\ faults = 0
  /\ \/ stamp = Unstamped /\ subs = {}
     \/ \E l \in List : stamp = Bare(l) /\ subs = Collected(l)
  /\ watchers = subs

ScriptStep ==
  \/ \E c \in Creator : FirstWrite(c) \/ SecondWrite(c)
  \/ StartAdding
  \/ Stamp

ListsNext ==
  \/ \E l \in List : PublishList(l) \/ Replace(l)
  \/ ScriptStep
  \/ Die
  \/ \E c \in Creator : LoseWatcher(c)

ListsSpec == ListsInit /\ [][ListsNext]_notifyVars

\* The subscriber publishes its lists, Redis goes on with a script, and every
\* start asks the relays for the stored lists, however old (notify lists are
\* exempt from the replay horizon).
ListsFairness ==
  /\ WF_notifyVars(ScriptStep)
  /\ \A l \in List : WF_notifyVars(PublishList(l)) /\ SF_notifyVars(Replace(l))

-----------------------------------------------------------------------------
(* Properties *)

ScriptState ==
  {NoScript} \cup [phase : {"drop", "add"}, list : List, todo : SUBSET Creator,
               half : Creator \cup {Whole}]

ListsTypeOK ==
  /\ published \in SUBSET List
  /\ subs \in SUBSET Creator
  /\ watchers \in SUBSET Creator
  /\ stamp \in {Unstamped} \cup [at : Nat] \cup [at : Nat, id : Nat]
  /\ script \in ScriptState
  /\ faults \in 0..MaxFaults

\* Whoever is in a creator's set of watchers has that creator on its list, at
\* every step of a script and wherever one died: removals are computed from the
\* list, so a watcher that is not listed could never be removed and would get
\* pushes for a creator it unbelled (redis_store.rs:870-889).
WatchersAreListed == watchers \subseteq subs

\* The list that NIP-01 retains: the latest, and of several the lowest id.
IsRetained(l) ==
  \A m \in List : m.at < l.at \/ (m.at = l.at /\ l.id <= m.id)

Converged(l) ==
  \/ subs = Collected(l) /\ watchers = Collected(l)
  \/ stamp = Bare(l)
=============================================================================

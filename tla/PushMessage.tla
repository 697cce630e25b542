---------------------------- MODULE PushMessage ----------------------------
(***************************************************************************)
(* What a push says of the event that caused it (create_fcm_payload and    *)
(* coalesce_target in src/src/event_handler.rs, immediate_delivery in      *)
(* src/src/notification_delivery.rs) and what is made of it for the two    *)
(* platforms (build_apns_config and build_android_config in                *)
(* src/src/fcm_sender.rs).  All operators are pure.                        *)
(*                                                                         *)
(* An event is a record of its kind, its id, its author, its own           *)
(* coordinate (a video's, if it has a d-tag) and its reference tags in     *)
(* order, whose value may be missing: upper case names the root of a       *)
(* thread, lower case the parent or the post acted upon.  Wording is left  *)
(* out: a title stands for the type of notification that chose it.         *)
(***************************************************************************)
EXTENDS Integers, Sequences, SequencesExt

CONSTANTS
  Coordinate,  \* well-formed coordinates kind:pubkey:d-tag
  None         \* no such field

-----------------------------------------------------------------------------
(* What an event refers to                                                 *)

Named(e, name) == {i \in DOMAIN e.tags : e.tags[i].name = name}
Has(e, name) == Named(e, name) # {}
First(e, name) == e.tags[Min(Named(e, name))].value

\* parse_coordinate: a malformed one is none.
Parsed(value) == IF value \in Coordinate THEN value ELSE None

\* referenced_event_id: the root of the thread before the parent.
ReferencedEvent(e) ==
  CASE Has(e, "E") -> First(e, "E")
    [] ~Has(e, "E") /\ Has(e, "e") -> First(e, "e")
    [] OTHER -> None

\* referenced_coordinate: a malformed root does not give way to the parent.
ReferencedCoordinate(e) ==
  CASE Has(e, "A") -> Parsed(First(e, "A"))
    [] ~Has(e, "A") /\ Has(e, "a") -> Parsed(First(e, "a"))
    [] OTHER -> None

\* insert_trigger_reference_fields: a video refers to itself.
References(e) ==
  IF e.kind = "video" THEN [event |-> e.id, address |-> e.own]
  ELSE [event |-> ReferencedEvent(e), address |-> ReferencedCoordinate(e)]

DirectAddress(e) == IF Has(e, "a") THEN Parsed(First(e, "a")) ELSE None

\* Mutant: a reaction is grouped with the first event it names.
DirectEventFirst(e) == IF Has(e, "e") THEN First(e, "e") ELSE None

\* A reaction that copies the tags of its thread names the reacted event last; a
\* tag without a value is passed over.
DirectEvent(e) ==
  LET valued == {i \in Named(e, "e") : e.tags[i].value # None}
  IN IF valued = {} THEN None ELSE e.tags[Max(valued)].value

\* coalesce_target: the key of the digest that a like or repost joins.
GroupKey(e) ==
  LET choices == <<DirectAddress(e), DirectEvent(e), ReferencedCoordinate(e),
                   ReferencedEvent(e)>>
      found == {i \in DOMAIN choices : choices[i] # None}
  IN IF found = {} THEN None ELSE choices[Min(found)]

-----------------------------------------------------------------------------
(* The payload                                                             *)

\* create_direct_message_payload: nothing of the sender or of the content.
DirectMessagePayload(e) ==
  [type |-> "dm", title |-> "dm", sender |-> None,
   references |-> [event |-> None, address |-> None],
   collapse |-> None, prefetch |-> FALSE, now |-> FALSE]

\* create_fcm_payload; only a reaction past a digest has a collapse key.
Payload(e, type, collapse) ==
  IF type = "dm" THEN DirectMessagePayload(e)
  ELSE [type |-> type, title |-> type, sender |-> e.author, references |-> References(e),
        collapse |-> collapse, prefetch |-> FALSE, now |-> FALSE]

PublicContent == {"like", "comment", "mention", "repost", "newPost"}

\* Mutant: every push warms the app up.
PrefetchesAll(payload) == TRUE

Prefetches(payload) == payload.type \in PublicContent

\* immediate_delivery
Immediate(payload) == [payload EXCEPT !.prefetch = Prefetches(payload), !.now = TRUE]

-----------------------------------------------------------------------------
(* The message for each platform                                           *)

Visible(payload) == payload.title # None

\* build_apns_config: a banner of the system, with a warm-up for what asks for
\* one; without a title a silent wake.
Apns(payload) ==
  [push |-> IF Visible(payload) THEN "alert" ELSE "background",
   priority |-> IF Visible(payload) THEN 10 ELSE 5,
   wakes |-> Visible(payload) => payload.prefetch,
   expires |-> payload.now,
   collapse |-> payload.collapse]

\* build_android_config: high priority only for what will be seen.
Android(payload) ==
  IF ~Visible(payload) /\ payload.collapse = None THEN None
  ELSE [priority |-> IF Visible(payload) THEN "high" ELSE "normal",
        expires |-> payload.now,
        collapse |-> payload.collapse]

Message(payload) == [data |-> payload, apns |-> Apns(payload), android |-> Android(payload)]
=============================================================================

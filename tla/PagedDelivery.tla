---------------------------- MODULE PagedDelivery ----------------------------
(***************************************************************************)
(* What the fan-out promises about a video's pages of watchers, with no    *)
(* queue, no workers and no leases: a page is attempted while the video is *)
(* young and only after every page before it is settled, and it is         *)
(* abandoned only when MaxAttempts attempts at it have failed.             *)
(***************************************************************************)
EXTENDS Integers

CONSTANTS Video, LastPage, MaxAttempts

VARIABLES
  announced,  \* videos to be fanned out
  expired,    \* those whose lifetime is over
  delivered,  \* pages delivered, per video
  attempts,   \* failed attempts at each page, counted up to MaxAttempts
  abandoned   \* pages given up, per video

pagedVars == <<announced, expired, delivered, attempts, abandoned>>

Pages == 0..LastPage

\* The scan of v has got as far as page p.
Reached(v, p) ==
  v \in announced /\ \A q \in Pages : q < p => q \in delivered[v] \cup abandoned[v]

Announce(v) ==
  /\ announced' = announced \cup {v}
  /\ UNCHANGED <<expired, delivered, attempts, abandoned>>

Deliver(v, p) ==
  /\ Reached(v, p) /\ v \notin expired
  /\ delivered' = [delivered EXCEPT ![v] = @ \cup {p}]
  /\ UNCHANGED <<announced, expired, attempts, abandoned>>

Fail(v, p) ==
  /\ Reached(v, p) /\ v \notin expired
  /\ attempts[v][p] < MaxAttempts
  /\ attempts' = [attempts EXCEPT ![v][p] = @ + 1]
  /\ UNCHANGED <<announced, expired, delivered, abandoned>>

Abandon(v, p) ==
  /\ Reached(v, p)
  /\ attempts[v][p] = MaxAttempts
  /\ abandoned' = [abandoned EXCEPT ![v] = @ \cup {p}]
  /\ UNCHANGED <<announced, expired, delivered, attempts>>

Lapse(v) ==
  /\ v \in announced
  /\ expired' = expired \cup {v}
  /\ UNCHANGED <<announced, delivered, attempts, abandoned>>

PagedInit ==
  /\ announced = {} /\ expired = {}
  /\ delivered = [v \in Video |-> {}]
  /\ attempts = [v \in Video |-> [p \in Pages |-> 0]]
  /\ abandoned = [v \in Video |-> {}]

PagedNext ==
  \E v \in Video :
    \/ Announce(v) \/ Lapse(v)
    \/ \E p \in Pages : Deliver(v, p) \/ Fail(v, p) \/ Abandon(v, p)

PagedSpec == PagedInit /\ [][PagedNext]_pagedVars
=============================================================================

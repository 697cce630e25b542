------------------------------ MODULE Activity ------------------------------
(***************************************************************************)
(* Foreground presence and visit generations of one account                *)
(* (src/src/activity.rs).                                                  *)
(*                                                                         *)
(* Each app session of the account numbers its reports (sequence) and its  *)
(* foreground transitions (visit).  Reports travel over the network, so    *)
(* they can be lost, duplicated, delayed and reordered; record_activity is *)
(* one Redis script, hence one action.  A report that raises a session's   *)
(* visit allocates a fresh generation and refills the absence allowance.   *)
(* generation_for_work binds a notification, at its first attempt, to the  *)
(* generation current then, so that a retry cannot adopt a later visit.    *)
(*                                                                         *)
(* Time is the Redis clock in abstract units.  A key whose expiry is       *)
(* reached disappears as the clock reaches it, which is what every reader  *)
(* of these keys observes.                                                 *)
(***************************************************************************)
EXTENDS Integers, FiniteSets

CONSTANTS
  Session,      \* app sessions that report for the account
  Work,         \* notification identities addressed to the account
  PresenceTTL,  \* PRESENCE_TTL_SECS: a foreground report holds this long
  SessionTTL,   \* SESSION_TTL_SECS: retention of a session's ordering state
  StateTTL,     \* STATE_TTL_SECS: retention of the account's activity state
  WorkTTL,      \* retention of a work's bound generation
  MaxSessions,  \* MAX_SESSIONS_PER_ACCOUNT
  MaxSequence,  \* bound on the reports one session issues
  MaxNow        \* bound on the clock

ASSUME LifetimesAssumption ==
  /\ PresenceTTL \in Nat \ {0}
  /\ SessionTTL \in Nat \ {0}
  /\ StateTTL \in Nat
  /\ WorkTTL \in Nat \ {0}
  /\ PresenceTTL <= SessionTTL
  /\ SessionTTL < StateTTL

ASSUME BoundsAssumption ==
  /\ MaxSessions \in Nat \ {0}
  /\ MaxSequence \in Nat
  /\ MaxNow \in Nat

VARIABLES
  now,            \* the Redis clock
  registered,     \* user_tokens:{account} exists
  history,        \* the states each session reports, by sequence number
  session,        \* notification_activity_session:{account}:{session}
  presence,       \* notification_active:{account}: expiry per session, 0 if absent
  account,        \* notification_activity:{account}
  visitSequence,  \* notification_visit_sequence, relative to its seed
  marker          \* notification_work_generation:{account}:{work}

activityVars == <<now, registered, history, session, presence, account,
                  visitSequence, marker>>

-----------------------------------------------------------------------------
(* State *)

ActivityState == {"foreground", "background"}

NoSession == [sequence |-> 0, visit |-> 0, state |-> "background", expires |-> 0]
NoAccount == [generation |-> 0, used |-> 0, reported |-> FALSE, expires |-> 0]
NoMarker  == [generation |-> 0, expires |-> 0]

\* Some session is in the foreground: every script prunes entries that are
\* due before it counts them, and due entries are gone as the clock moves.
Active == \E s \in Session : presence[s] # 0

LiveSessions == {s \in Session : session[s].expires # 0}

-----------------------------------------------------------------------------
(* The app.  A session numbers its reports; a report repeats the visit of  *)
(* the one before it (a heartbeat, or leaving the foreground) unless it    *)
(* enters the foreground.  The network may deliver any report of a session *)
(* at any time, in any order, more than once or never.                     *)

Sequence == 1..MaxSequence

Histories == {h \in [Sequence -> ActivityState] :
                1 \in Sequence => h[1] = "foreground"}

Opens(s, n) ==
  history[s][n] = "foreground" /\ (n > 1 => history[s][n - 1] = "background")

VisitOf(s, n) == Cardinality({i \in 1..n : Opens(s, i)})

-----------------------------------------------------------------------------
(* record_activity.  A report that arrives for an account without tokens,  *)
(* out of order, or for a session beyond the bound changes nothing.        *)

Admissible(s, n) ==
  /\ registered
  /\ n > session[s].sequence
  /\ VisitOf(s, n) >= session[s].visit
  /\ s \in LiveSessions \/ Cardinality(LiveSessions) < MaxSessions

\* Mutant: a session's first visit does not count.
NewVisitLate(s, n) == VisitOf(s, n) > session[s].visit + 1

NewVisit(s, n) == VisitOf(s, n) > session[s].visit

\* Mutant: the account's own generation is counted up.
NextGenerationLocal == account.generation + 1

\* INCR of the visit sequence, which never expires.
NextGeneration == visitSequence + 1

\* Mutant: leaving the foreground waits for the presence to expire.
PresenceAfterKept(s, n) ==
  IF history[s][n] = "foreground" THEN now + PresenceTTL ELSE presence[s]

PresenceAfter(s, n) ==
  IF history[s][n] = "foreground" THEN now + PresenceTTL ELSE 0

RecordActivity(s, n) ==
  /\ Admissible(s, n)
  /\ session' = [session EXCEPT ![s] =
                   [sequence |-> n, visit |-> VisitOf(s, n),
                    state |-> history[s][n], expires |-> now + SessionTTL]]
  /\ presence' = [presence EXCEPT ![s] = PresenceAfter(s, n)]
  /\ visitSequence' = IF NewVisit(s, n) THEN NextGeneration ELSE visitSequence
  /\ account' = [generation |-> IF NewVisit(s, n) THEN visitSequence' ELSE account.generation,
                 used       |-> IF NewVisit(s, n) THEN 0 ELSE account.used,
                 reported   |-> TRUE,
                 expires    |-> now + StateTTL]
  /\ UNCHANGED <<now, registered, history, marker>>

-----------------------------------------------------------------------------
(* generation_for_work.  Only a registered account gets a marker, and only *)
(* a registered account without a generation is given one.                 *)

NeedsGeneration == registered /\ account.generation = 0

CurrentGeneration == IF NeedsGeneration THEN NextGeneration ELSE account.generation

\* Mutant: a retry adopts the current generation.
WorkGenerationCurrent(w) == CurrentGeneration

WorkGeneration(w) ==
  IF marker[w].expires # 0 THEN marker[w].generation ELSE CurrentGeneration

GenerationForWork(w) ==
  /\ visitSequence' = IF NeedsGeneration THEN NextGeneration ELSE visitSequence
  /\ account' = IF NeedsGeneration
                THEN [account EXCEPT
                        !.generation = visitSequence',
                        !.expires = IF account.expires = 0 THEN now + StateTTL
                                    ELSE account.expires]
                ELSE account
  /\ marker' = IF registered
               THEN [marker EXCEPT ![w] = [generation |-> WorkGeneration(w),
                                           expires    |-> now + WorkTTL]]
               ELSE marker
  /\ UNCHANGED <<now, registered, history, session, presence>>

-----------------------------------------------------------------------------
(* The environment: devices come and go, and time passes.                  *)

SetRegistered(r) ==
  /\ registered # r
  /\ registered' = r
  /\ UNCHANGED <<now, history, session, presence, account, visitSequence, marker>>

Tick ==
  /\ now < MaxNow
  /\ now' = now + 1
  /\ session' = [s \in Session |->
                   IF session[s].expires <= now' THEN NoSession ELSE session[s]]
  /\ presence' = [s \in Session |->
                   IF presence[s] <= now' THEN 0 ELSE presence[s]]
  /\ account' = IF account.expires <= now' THEN NoAccount ELSE account
  /\ marker' = [w \in Work |->
                   IF marker[w].expires <= now' THEN NoMarker ELSE marker[w]]
  /\ UNCHANGED <<registered, history, visitSequence>>

-----------------------------------------------------------------------------
ActivityInit ==
  /\ now = 1
  /\ registered = TRUE
  /\ history \in [Session -> Histories]
  /\ session = [s \in Session |-> NoSession]
  /\ presence = [s \in Session |-> 0]
  /\ account = NoAccount
  /\ visitSequence = 0
  /\ marker = [w \in Work |-> NoMarker]

\* The steps that the account's devices and the clock take.
AccountNext ==
  \/ \E s \in Session, n \in Sequence : RecordActivity(s, n)
  \/ \E r \in BOOLEAN : SetRegistered(r)
  \/ Tick

ActivityNext ==
  \/ AccountNext
  \/ \E w \in Work : GenerationForWork(w)

ActivitySpec == ActivityInit /\ [][ActivityNext]_activityVars

-----------------------------------------------------------------------------
(* Properties *)

ActivityTypeOK ==
  /\ now \in Nat \ {0}
  /\ registered \in BOOLEAN
  /\ history \in [Session -> Histories]
  /\ session \in [Session -> [sequence : Nat, visit : Nat,
                              state : ActivityState, expires : Nat]]
  /\ presence \in [Session -> Nat]
  /\ account \in [generation : Nat, used : Nat, reported : BOOLEAN, expires : Nat]
  /\ visitSequence \in Nat
  /\ marker \in [Work -> [generation : Nat, expires : Nat]]

\* The account's activity state outlives every session's ordering state: while
\* some session would count its next report as a heartbeat, the account still
\* has its generation and still knows that it reports.  Otherwise a heartbeat
\* would revive a reporting account with no visit and an empty allowance count
\* (record_activity renews both retentions, activity.rs:77 and :101).
SessionsHaveAccount ==
  \A s \in LiveSessions : /\ account.reported
                          /\ account.generation # 0
                          /\ account.expires > session[s].expires

\* Presence follows the newest report applied: a session is present only if
\* that report was a foreground one, whatever older reports arrive after it
\* (the sequence and visit checks, activity.rs:64-67).
PresenceFollowsNewest ==
  \A s \in Session : presence[s] # 0 =>
    session[s].sequence # 0 /\ history[s][session[s].sequence] = "foreground"

\* What is stored of an account and of its sessions follows the reports: both of
\* the above.
StateFollowsReports == SessionsHaveAccount /\ PresenceFollowsNewest

\* A generation is never handed out twice, not even after the account's state
\* has expired: a marker always carries a generation at most the account's
\* current one, and an older one never becomes current again.
GenerationIsNew ==
  account'.generation \notin {0, account.generation}
    => \A w \in Work : marker[w].expires # 0 => marker[w].generation < account'.generation

GenerationsNeverReused == [][GenerationIsNew]_activityVars
=============================================================================

--------------------------- MODULE TokenRegistry ---------------------------
(***************************************************************************)
(* The registry of device tokens (src/src/redis_store.rs: registration,    *)
(* removal, activity, sweep; src/src/cleanup_service.rs).                  *)
(*                                                                         *)
(* Redis keeps a set of tokens per account, the owner of each token, the   *)
(* time of its last activity, and its time zone.  Every write to them is   *)
(* one transaction, but each transaction is built from what an earlier     *)
(* command read: between the two, other workers write.  Workers are the    *)
(* event handlers, delivery tasks and campaign pollers of all replicas;    *)
(* each replica also sweeps.                                               *)
(*                                                                         *)
(* Activity is stamped with the replica's own clock, which may lag by up   *)
(* to Skew.  A stamp of 0 stands for a token that is not tracked.          *)
(***************************************************************************)
EXTENDS Integers, FiniteSets

CONSTANTS
  Account,   \* accounts that register devices
  Token,     \* device tokens
  Worker,    \* tasks that register, remove and push
  Sweeper,   \* cleanup tasks
  MaxAge,    \* token_max_age_days
  Skew,      \* how far a replica's clock may lag
  MaxNow     \* bound on the clock

ASSUME RegistryAssumption ==
  /\ MaxAge \in Nat
  /\ Skew \in Nat
  /\ Skew < MaxAge
  /\ MaxNow \in Nat
  /\ "nobody" \notin Account

VARIABLES
  now,         \* the time
  userTokens,  \* user_tokens:{account}
  owner,       \* token_to_pubkey
  lastSeen,    \* stale_tokens
  zoned,       \* tokens with a time zone: token_timezone_offsets and _names
  worker,      \* the operation each worker is in
  sweep,       \* the sweep each sweeper is in
  activity,    \* history: latest registration of, or recorded delivery to, each token
  overtaken    \* history: tokens written to on the strength of an outdated read

registryVars == <<now, userTokens, owner, lastSeen, zoned, worker, sweep, activity,
                  overtaken>>

Nobody == "nobody"
Untracked == 0
Idle == [step |-> "idle"]

Doing(w, step) == worker[w].step = step
Sweeping(s, step) == sweep[s].step = step

\* What a replica's clock may show.
Clock == (now - Skew)..now

-----------------------------------------------------------------------------
(* add_or_update_token_with_timezone_name: the owner is read first, then   *)
(* one transaction moves the token.                                        *)

BeginRegister(w, a, t) ==
  /\ worker[w] = Idle
  /\ worker' = [worker EXCEPT ![w] =
                  [step |-> "register", account |-> a, token |-> t, owner |-> owner[t]]]
  /\ UNCHANGED <<now, userTokens, owner, lastSeen, zoned, sweep, activity, overtaken>>

Moved(t, from, to) ==
  [a \in Account |-> IF a = to THEN userTokens[a] \cup {t}
                     ELSE IF a = from THEN userTokens[a] \ {t}
                     ELSE userTokens[a]]

Register(w) ==
  LET a == worker[w].account
      t == worker[w].token
      from == worker[w].owner
  IN /\ Doing(w, "register")
     /\ userTokens' = Moved(t, from, a)
     /\ owner' = [owner EXCEPT ![t] = a]
     /\ \E stamp \in Clock : lastSeen' = [lastSeen EXCEPT ![t] = stamp]
     /\ zoned' \in {zoned \cup {t}, zoned \ {t}}
     /\ activity' = [activity EXCEPT ![t] = now]
     /\ overtaken' = IF owner[t] \in {Nobody, from, a} THEN overtaken
                     ELSE overtaken \cup {t}
     /\ worker' = [worker EXCEPT ![w] = Idle]
     /\ UNCHANGED <<now, sweep>>

-----------------------------------------------------------------------------
(* remove_token, for a deregistration or for a token the provider refused:  *)
(* only if the owner it reads is the account it removes for.                *)

BeginRemove(w, a, t) ==
  /\ \/ worker[w] = Idle
     \/ Doing(w, "rejected") /\ worker[w].account = a /\ worker[w].token = t
  /\ worker' = [worker EXCEPT ![w] =
                  IF owner[t] = a THEN [step |-> "remove", account |-> a, token |-> t]
                  ELSE Idle]
  /\ UNCHANGED <<now, userTokens, owner, lastSeen, zoned, sweep, activity, overtaken>>

Remove(w) ==
  LET a == worker[w].account
      t == worker[w].token
  IN /\ Doing(w, "remove")
     /\ userTokens' = [userTokens EXCEPT ![a] = @ \ {t}]
     /\ owner' = [owner EXCEPT ![t] = Nobody]
     /\ lastSeen' = [lastSeen EXCEPT ![t] = Untracked]
     /\ zoned' = zoned \ {t}
     /\ overtaken' = IF owner[t] \in {Nobody, a} THEN overtaken ELSE overtaken \cup {t}
     /\ worker' = [worker EXCEPT ![w] = Idle]
     /\ UNCHANGED <<now, sweep, activity>>

-----------------------------------------------------------------------------
(* A push: the account's tokens are read, the provider answers for each,    *)
(* a delivery refreshes the token and a refusal removes it.                 *)

ReadDevice(w, a, t) ==
  /\ worker[w] = Idle
  /\ t \in userTokens[a]
  /\ worker' = [worker EXCEPT ![w] = [step |-> "push", account |-> a, token |-> t]]
  /\ UNCHANGED <<now, userTokens, owner, lastSeen, zoned, sweep, activity, overtaken>>

Deliver(w) ==
  /\ Doing(w, "push")
  /\ worker' = [worker EXCEPT ![w].step = "delivered"]
  /\ UNCHANGED <<now, userTokens, owner, lastSeen, zoned, sweep, activity, overtaken>>

Reject(w) ==
  /\ Doing(w, "push")
  /\ worker' = [worker EXCEPT ![w].step = "rejected"]
  /\ UNCHANGED <<now, userTokens, owner, lastSeen, zoned, sweep, activity, overtaken>>

\* Mutants: without XX; with NX.
RefreshedAnyway(t, stamp) == IF lastSeen[t] > stamp THEN lastSeen[t] ELSE stamp
RefreshedNew(t, stamp) == IF lastSeen[t] = Untracked THEN stamp ELSE lastSeen[t]

\* refresh_token_activity: ZADD XX GT
Refreshed(t, stamp) ==
  IF lastSeen[t] = Untracked \/ lastSeen[t] > stamp THEN lastSeen[t] ELSE stamp

Refresh(w) ==
  LET t == worker[w].token
  IN /\ Doing(w, "delivered")
     /\ \E stamp \in Clock : lastSeen' = [lastSeen EXCEPT ![t] = Refreshed(t, stamp)]
     /\ activity' = [activity EXCEPT ![t] = now]
     /\ worker' = [worker EXCEPT ![w] = Idle]
     /\ UNCHANGED <<now, userTokens, owner, zoned, sweep, overtaken>>

\* The task is cancelled, dies, or loses Redis.
Abandon(w) ==
  /\ worker[w] # Idle
  /\ worker' = [worker EXCEPT ![w] = Idle]
  /\ UNCHANGED <<now, userTokens, owner, lastSeen, zoned, sweep, activity, overtaken>>

-----------------------------------------------------------------------------
(* cleanup_stale_tokens: tokens up to the cutoff are listed, their owners   *)
(* are read, then one transaction removes them.                             *)

\* Mutant: the window is subtracted twice.
StaleLate(cutoff) == {t \in Token : lastSeen[t] # Untracked /\ lastSeen[t] <= cutoff - MaxAge}

Stale(cutoff) == {t \in Token : lastSeen[t] # Untracked /\ lastSeen[t] <= cutoff}

Scan(s) ==
  /\ sweep[s] = Idle
  /\ \E clock \in Clock :
       LET cutoff == clock - MaxAge
       IN /\ Stale(cutoff) # {}
          /\ sweep' = [sweep EXCEPT ![s] =
                         [step |-> "scanned", cutoff |-> cutoff, found |-> Stale(cutoff),
                          owners |-> [t \in Token |-> Nobody]]]
  /\ UNCHANGED <<now, userTokens, owner, lastSeen, zoned, worker, activity, overtaken>>

ReadOwners(s) ==
  /\ Sweeping(s, "scanned")
  /\ sweep' = [sweep EXCEPT
                 ![s].step = "read",
                 ![s].owners = [t \in Token |-> IF t \in sweep[s].found THEN owner[t]
                                                ELSE Nobody]]
  /\ UNCHANGED <<now, userTokens, owner, lastSeen, zoned, worker, activity, overtaken>>

Sweep(s) ==
  LET found == sweep[s].found
      owners == sweep[s].owners
      cutoff == sweep[s].cutoff
  IN /\ Sweeping(s, "read")
     /\ lastSeen' = [t \in Token |-> IF lastSeen[t] <= cutoff THEN Untracked ELSE lastSeen[t]]
     /\ owner' = [t \in Token |-> IF t \in found THEN Nobody ELSE owner[t]]
     /\ zoned' = zoned \ found
     /\ userTokens' = [a \in Account |-> userTokens[a] \ {t \in found : owners[t] = a}]
     /\ overtaken' = overtaken \cup {t \in found : lastSeen[t] > cutoff}
     /\ sweep' = [sweep EXCEPT ![s] = Idle]
     /\ UNCHANGED <<now, worker, activity>>

AbandonSweep(s) ==
  /\ sweep[s] # Idle
  /\ sweep' = [sweep EXCEPT ![s] = Idle]
  /\ UNCHANGED <<now, userTokens, owner, lastSeen, zoned, worker, activity, overtaken>>

-----------------------------------------------------------------------------
Tick ==
  /\ now < MaxNow
  /\ now' = now + 1
  /\ UNCHANGED <<userTokens, owner, lastSeen, zoned, worker, sweep, activity, overtaken>>

Init ==
  /\ now = Skew + 1
  /\ userTokens = [a \in Account |-> {}]
  /\ owner = [t \in Token |-> Nobody]
  /\ lastSeen = [t \in Token |-> Untracked]
  /\ zoned = {}
  /\ worker = [w \in Worker |-> Idle]
  /\ sweep = [s \in Sweeper |-> Idle]
  /\ activity = [t \in Token |-> 0]
  /\ overtaken = {}

WorkerStep(w) ==
  \/ \E a \in Account, t \in Token : \/ BeginRegister(w, a, t)
                                     \/ BeginRemove(w, a, t)
                                     \/ ReadDevice(w, a, t)
  \/ Register(w)
  \/ Remove(w)
  \/ Deliver(w)
  \/ Reject(w)
  \/ Refresh(w)
  \/ Abandon(w)

SweepStep(s) == Scan(s) \/ ReadOwners(s) \/ Sweep(s)

Next ==
  \/ \E w \in Worker : WorkerStep(w)
  \/ \E s \in Sweeper : SweepStep(s) \/ AbandonSweep(s)
  \/ Tick

Spec == Init /\ [][Next]_registryVars

\* The clock moves, and a cleanup task runs its sweep again and again; not every
\* one of them is cut short.
Fairness ==
  /\ WF_registryVars(Tick)
  /\ \A s \in Sweeper : /\ WF_registryVars(Scan(s))
                        /\ SF_registryVars(ReadOwners(s))
                        /\ SF_registryVars(Sweep(s))

FairSpec == Spec /\ Fairness

-----------------------------------------------------------------------------
(* Properties *)

Owner == Account \cup {Nobody}

Operation ==
  {Idle}
    \cup [step : {"register"}, account : Account, token : Token, owner : Owner]
    \cup [step : {"remove", "push", "delivered", "rejected"},
          account : Account, token : Token]

SweepState ==
  {Idle} \cup [step : {"scanned", "read"}, cutoff : Int, found : SUBSET Token,
               owners : [Token -> Owner]]

TypeOK ==
  /\ now \in Nat
  /\ userTokens \in [Account -> SUBSET Token]
  /\ owner \in [Token -> Owner]
  /\ lastSeen \in [Token -> Nat]
  /\ zoned \in SUBSET Token
  /\ worker \in [Worker -> Operation]
  /\ sweep \in [Sweeper -> SweepState]
  /\ activity \in [Token -> Nat]
  /\ overtaken \in SUBSET Token

\* Whatever overtakes what, a token that has an owner is in that owner's set, so it
\* gets the owner's pushes, and is tracked, so that the sweep will come to it
\* (the transactions of redis_store.rs:208-247 and 276-284).
OwnedIsComplete ==
  \A t \in Token : owner[t] # Nobody =>
    t \in userTokens[owner[t]] /\ lastSeen[t] # Untracked

\* The indexes agree on every token that no transaction wrote to on the strength
\* of an outdated read.  In particular a delivery that finishes after its token is
\* gone does not bring it back (the comment at redis_store.rs:314-318).
AgreeUnlessOvertaken ==
  \A t \in Token \ overtaken :
    /\ \A a \in Account : t \in userTokens[a] <=> owner[t] = a
    /\ lastSeen[t] # Untracked <=> owner[t] # Nobody
    /\ t \in zoned => owner[t] # Nobody

\* The indexes are as complete and as exact as reads before transactions allow.
RegistryConsistent == OwnedIsComplete /\ AgreeUnlessOvertaken

\* Someone asked for t to be removed from the account that owns it, or t has been
\* idle for as long as the clocks can tell.
Requested(t) ==
  \E w \in Worker : Doing(w, "remove") /\ worker[w].token = t /\ worker[w].account = owner[t]

Inactive(t) == activity[t] + MaxAge <= now + Skew

Unregisters(t) == owner[t] # Nobody /\ owner'[t] = Nobody

\* A registration is removed only by a request of its account, a refusal of the
\* provider, or after the inactivity window
\* (docs/nip-xx-push-notifications.md:89-95).
RemovedForAReason ==
  [][\A t \in Token : Unregisters(t) => Requested(t) \/ Inactive(t)]_registryVars

\* The same, but for tokens written to on the strength of an outdated read.
RemovedForAReasonUnlessOvertaken ==
  [][\A t \in Token : Unregisters(t) =>
       Requested(t) \/ Inactive(t) \/ t \in overtaken']_registryVars

\* An idle device is swept sooner or later, however slow the clocks are.
IdleIsSwept ==
  \A t \in Token :
    owner[t] # Nobody /\ lastSeen[t] + MaxAge + Skew <= now
      ~> owner[t] = Nobody \/ lastSeen[t] + MaxAge + Skew > now
=============================================================================

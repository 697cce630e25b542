-------------------------- MODULE RedisConnection --------------------------
(***************************************************************************)
(* The pool of connections to the Redis primary while the primary changes  *)
(* (src/src/redis_connection.rs, create_pool in src/src/redis_store.rs).   *)
(*                                                                         *)
(* Connections go to the node that the URL resolves to, which follows a    *)
(* change of the primary late.  A new connection, and an idle one about to *)
(* be used, is asked for its role, unless the server refuses the question; *)
(* one that gets a READONLY reply is dropped when it is returned.          *)
(***************************************************************************)
EXTENDS Integers

CONSTANTS
  Conn,          \* slots of the pool: connection_pool_size
  Node,          \* nodes of the Redis deployment
  MaxFailovers   \* bound on changes of the primary

VARIABLES
  primary,    \* external: the primary
  address,    \* external: where the URL leads
  answersRole,\* external: whether the server answers ROLE
  failovers,  \* external: changes of the primary so far
  conn        \* the pooled connections

poolVars == <<primary, address, answersRole, failovers, conn>>

\* What is in a slot: nothing, a connection that rests, or one in use.  "saw" is
\* the connection's own mark; the others are history: whether writes on it were
\* refused, and whether the primary changed since it was last checked out.
Free == [state |-> "free"]
Connected(state, node) ==
  [state |-> state, node |-> node, saw |-> FALSE, refused |-> FALSE, changed |-> FALSE]

\* ensure_primary: where ROLE is refused any node answers the PING.
EnsurePrimary(node) == answersRole => node = primary

-----------------------------------------------------------------------------
\* connect, for a caller that finds no resting connection; a replica is refused.
Connect(c) ==
  /\ conn[c] = Free
  /\ EnsurePrimary(address)
  /\ conn' = [conn EXCEPT ![c] = Connected("used", address)]
  /\ UNCHANGED <<primary, address, answersRole, failovers>>

\* Checkout: is_valid, or the connection is dropped.
CheckOut(c) ==
  /\ conn[c].state = "idle"
  /\ conn' = [conn EXCEPT ![c] =
       IF EnsurePrimary(conn[c].node) THEN [@ EXCEPT !.state = "used", !.changed = FALSE]
       ELSE Free]
  /\ UNCHANGED <<primary, address, answersRole, failovers>>

\* A write's reply: alone, or one of a pipeline's, or nested in that of an EXEC.
Reply == {"single", "pipelined", "nested"}

\* Mutant: errors within the reply of a transaction are overlooked.
ShowsReadOnlyOutside(reply) == reply # "nested"

\* value_is_read_only, error_is_read_only
ShowsReadOnly(reply) == reply \in Reply

\* A write: the primary takes it, any other node refuses it.
Write(c) ==
  /\ conn[c].state = "used"
  /\ conn[c].node # primary
  /\ \E reply \in Reply :
       conn' = [conn EXCEPT ![c].saw = @ \/ ShowsReadOnly(reply), ![c].refused = TRUE]
  /\ UNCHANGED <<primary, address, answersRole, failovers>>

\* Returned; has_broken drops a connection that saw a refusal.
CheckIn(c) ==
  /\ conn[c].state = "used"
  /\ conn' = [conn EXCEPT ![c] = IF conn[c].saw THEN Free ELSE [@ EXCEPT !.state = "idle"]]
  /\ UNCHANGED <<primary, address, answersRole, failovers>>

\* The pool drops what is idle or old.
Recycle(c) ==
  /\ conn[c].state = "idle"
  /\ conn' = [conn EXCEPT ![c] = Free]
  /\ UNCHANGED <<primary, address, answersRole, failovers>>

-----------------------------------------------------------------------------
Failover ==
  /\ failovers < MaxFailovers
  /\ failovers' = failovers + 1
  /\ primary' \in Node \ {primary}
  /\ conn' = [c \in Conn |-> IF conn[c].state = "used" THEN [conn[c] EXCEPT !.changed = TRUE]
                             ELSE conn[c]]
  /\ UNCHANGED <<address, answersRole>>

\* The URL leads to the primary again.
Resolve ==
  /\ address # primary
  /\ address' = primary
  /\ UNCHANGED <<primary, answersRole, failovers, conn>>

PoolInit ==
  /\ primary \in Node
  /\ address = primary
  /\ answersRole \in BOOLEAN
  /\ failovers = 0
  /\ conn = [c \in Conn |-> Free]

PoolStep(c) == Connect(c) \/ CheckOut(c) \/ Write(c) \/ CheckIn(c) \/ Recycle(c)

PoolNext == Failover \/ Resolve \/ \E c \in Conn : PoolStep(c)

\* The URL follows the primary, and what is borrowed is returned.
PoolFairness == WF_poolVars(Resolve) /\ \A c \in Conn : WF_poolVars(CheckIn(c))

PoolSpec == PoolInit /\ [][PoolNext]_poolVars /\ PoolFairness

-----------------------------------------------------------------------------
(* Properties *)

PoolTypeOK ==
  /\ primary \in Node
  /\ address \in Node
  /\ answersRole \in BOOLEAN
  /\ failovers \in 0..MaxFailovers
  /\ \A c \in Conn : conn[c].state \in {"free", "idle", "used"}

\* A node that is no longer the primary costs each user of a connection the writes
\* of one checkout: a connection whose writes were refused is not handed out
\* again, even where roles cannot be asked for; where they can, the primary must
\* have changed under the user's hands (redis_connection.rs:3-18).
RefusedOnce ==
  \A c \in Conn :
    /\ conn[c].state = "idle" => ~conn[c].refused
    /\ conn[c].state = "used" /\ conn[c].refused /\ answersRole => conn[c].changed

\* No step breaks that, and once the primary stays no write is refused for long.
WritesRecover ==
  [][RefusedOnce']_poolVars /\ <>[](\A c \in Conn : conn[c].state = "used" => ~conn[c].refused)
=============================================================================

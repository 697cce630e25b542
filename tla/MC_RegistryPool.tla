-------------------------- MODULE MC_RegistryPool --------------------------
(***************************************************************************)
(* Small instances of TokenRegistry, transactions over the pool's          *)
(* connections, and of RedisConnection, the pool itself.  Tokens never     *)
(* meet in an action, so one token is enough.                              *)
(***************************************************************************)
EXTENDS TokenRegistry, RedisConnection

VARIABLE machine

Registry == machine = "registry"
Pool == machine = "pool"

BothInit ==
  /\ machine \in {"registry", "pool"}
  /\ Init
  /\ PoolInit
  /\ Registry => answersRole /\ primary = CHOOSE n \in Node : TRUE

BothNext ==
  /\ UNCHANGED machine
  /\ \/ Registry /\ Next /\ UNCHANGED poolVars
     \/ Pool /\ PoolNext /\ UNCHANGED registryVars

\* The fairness of TokenRegistry and of RedisConnection.
BothFairness ==
  /\ WF_registryVars(Registry /\ Tick)
  /\ \A s \in Sweeper : /\ WF_registryVars(Registry /\ Scan(s))
                        /\ SF_registryVars(Registry /\ ReadOwners(s))
                        /\ SF_registryVars(Registry /\ Sweep(s))
  /\ WF_poolVars(Pool /\ Resolve)
  /\ \A c \in Conn : WF_poolVars(Pool /\ CheckIn(c))

BothSpec == BothInit /\ [][BothNext]_<<machine, registryVars, poolVars>> /\ BothFairness
=============================================================================

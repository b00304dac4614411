--------------------------- MODULE VersionedStore ---------------------------
(***************************************************************************)
(* What the secret store promises its callers: each accepted call, a batch *)
(* of any size included, takes effect at one moment; versions of a secret  *)
(* are only ever added, one after the other; a consumer that fetches an    *)
(* environment gets all of it as it is at one moment, under a version that *)
(* is not newer.                                                           *)
(***************************************************************************)
EXTENDS Naturals

CONSTANTS
  Envs, \* environments
  Keys  \* keys of secrets

VARIABLES
  rows,    \* of each secret: live, and its current version (0 before its first)
  history, \* of each secret: its versions, with val, and exp, the version its author saw (0: any)
  config,  \* of each environment: the version of its configuration
  held     \* of each environment: what its consumer holds

storeVars == <<rows, history, config, held>>

Slots == Envs \X Keys

\* The configuration of environment e.
Image(e) == [k \in {k \in Keys : rows[<<e, k>>].live} |-> history[<<e, k>>][rows[<<e, k>>].cur].val]

\* A secret's versions are 1 .. current, each written over the version its author saw.
WellKept(s) ==
  /\ DOMAIN history[s] = 1 .. rows[s].cur
  /\ \A v \in DOMAIN history[s] : history[s][v].exp \in {0, v - 1}

StoreInit ==
  /\ \A s \in Slots : WellKept(s)
  /\ \A e \in Envs : ~held[e].has

\* A call takes effect: old versions stay, and a configuration that changes
\* changes its version, which never goes back.
Transact ==
  /\ \A s \in Slots : WellKept(s)'
  /\ \A s \in Slots : \A v \in DOMAIN history[s] : v \in DOMAIN history'[s] /\ history'[s][v] = history[s][v]
  /\ \A e \in Envs : config'[e] >= config[e] /\ (config'[e] = config[e] => Image(e)' = Image(e))
  /\ UNCHANGED held

\* The consumer of e fetches its configuration.
Fetch(e) ==
  /\ \E v \in 0 .. config[e] : held' = [held EXCEPT ![e] = [has |-> TRUE, ver |-> v, body |-> Image(e)]]
  /\ UNCHANGED <<rows, history, config>>

StoreNext == Transact \/ \E e \in Envs : Fetch(e)

StoreSpec == StoreInit /\ [][StoreNext]_storeVars
=============================================================================

--------------------------- MODULE StoreRefinement --------------------------
(***************************************************************************)
(* SecretSystem, statement by statement and with its locks, crashes and    *)
(* two-statement fetches, implements VersionedStore: the committed tables  *)
(* are the store, and nothing else of the state shows.                     *)
(***************************************************************************)
EXTENDS SecretInvariant

Store == INSTANCE VersionedStore WITH
  rows    <- [s \in Slots |-> [live |-> Live(secrets[s]), cur |-> secrets[s].cur]],
  history <- versions,
  config  <- [e \in Envs |-> envs[e].ver],
  held    <- cache

\* Every step of the statements is invisible, or is the one moment at which a
\* whole call or a whole fetch takes effect (withOrg, runtimeConfig).
ImplementsStore == Store!StoreSpec
=============================================================================

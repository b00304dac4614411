--------------------------- MODULE MCSecretSystem ---------------------------
(* Small instances of SecretSystem for TLC. *)
EXTENDS StoreRefinement, TLC

CONSTANTS t1, t2, t3

OneEnv   == {1}
TwoEnvs  == {1, 2}
OneKey   == {1}
TwoKeys  == {1, 2}

\* The secrets that exist at the start.
FirstKey     == {<<1, 1>>}
NoSecret     == {}
SourceFull   == {<<1, 1>>, <<1, 2>>}
Overlapping  == {<<1, 1>>, <<2, 1>>, <<2, 2>>}

FirstEnv  == {1}
SecondEnv == {2}

TwoTxns   == {t1, t2}
ThreeTxns == {t1, t2, t3}
Symmetry == Permutations(Txns)
=============================================================================

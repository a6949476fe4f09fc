-------------------------- MODULE MCIncrementalTree --------------------------
(* IncrementalTree with two leaf hashes.                                    *)
EXTENDS IncrementalTree

const_LeafValues == {<<1>>, <<2>>}
=============================================================================

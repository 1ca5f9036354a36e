--------------------------- MODULE MCAtomicKeyspace ---------------------------
(***************************************************************************)
(* AtomicKeyspace on the instance of MCSharedKeyspace, with the argument   *)
(* lists CommandHandler wants: one key, one value, no options to SET.      *)
(* The reply is left out of the fingerprint, as there.                     *)
(***************************************************************************)
EXTENDS MCSharedKeyspace, AtomicKeyspace

OneKeyLists   == {<<k>> : k \in TwoKeys}
OneValueLists == {<<v>> : v \in Values}
NoOptions     == {<<>>}

(* Threads are interchangeable, and keys are                              *)
ThreadsAndKeys == Permutations(MCThreads) \cup Permutations(TwoKeys)

withoutReplies == <<withoutReply, shown>>
===============================================================================

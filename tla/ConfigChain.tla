----------------------------- MODULE ConfigChain -----------------------------
(***************************************************************************)
(* A configuration and its base configurations: a sequence of files, the   *)
(* bases first, and how a setting is resolved over them                    *)
(* (configvalidation.go).                                                  *)
(***************************************************************************)
EXTENDS Integers, Sequences

\* Mutation: the first file of the chain that has a value wins.
LastSetFirst(chain, field, unset) ==
    LET set == {i \in 1..Len(chain) : chain[i][field] # unset}
    IN IF set = {} THEN unset ELSE chain[CHOOSE i \in set : \A j \in set : i <= j][field]

\* The value of the last file of the chain that has one.
LastSet(chain, field, unset) ==
    LET set == {i \in 1..Len(chain) : chain[i][field] # unset}
    IN IF set = {} THEN unset ELSE chain[CHOOSE i \in set : \A j \in set : j <= i][field]

AnyFile(chain, P(_)) == \E i \in 1..Len(chain) : P(chain[i])

mergeKernelCommandLine(chain) ==
    LET merged[i \in 0..Len(chain)] == IF i = 0 THEN <<>> ELSE merged[i - 1] \o chain[i].extra
    IN merged[Len(chain)]

\* What the first n files of the chain, applied one after the other, make of base.
Applied(chain, n, base, Apply(_, _)) ==
    LET applied[i \in 0..Len(chain)] == IF i = 0 THEN base ELSE Apply(chain[i], applied[i - 1])
    IN applied[n]

mergeAdditionalFiles(chain) == UNION {chain[i].files : i \in 1..Len(chain)}
=============================================================================

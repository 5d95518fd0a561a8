-------------------------- MODULE MCCodeStateCache --------------------------
(* TLC instances of CodeStateCache.                                        *)
EXTENDS CodeStateCache, TLC

\* Processes are interchangeable, and so are keys.
Symmetry == Permutations(Procs) \cup Permutations(Keys)

\* What a file that no name and no descriptor refers to once held is lost:
\* OpenTmp truncates it before any use.
LiveData ==
    <<json, tmp, [i \in Inodes |-> IF Free(i) THEN EmptyFile ELSE data[i]],
      order, stale, local, evict, faults>>

=============================================================================

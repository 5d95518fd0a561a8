----------------------------- MODULE MCCheckRun -----------------------------
(* TLC instances of CheckRun.                                              *)
EXTENDS CheckRun

CONSTANTS c1, c2

Request(b, c, br, cr, fetch, nocache, timeout, sensor, strict) ==
    [source |-> [base |-> b, cand |-> c], rev |-> [base |-> br, cand |-> cr],
     fetch |-> fetch, nocache |-> nocache, timeout |-> timeout,
     sensor |-> sensor, strict |-> strict]

\* Local, CI and pre-commit command lines, with and without the options that
\* change where a CodeState comes from.
Lines ==
    {Request("commit", "commit", None, None, TRUE, FALSE, FALSE, TRUE, TRUE),
     Request("commit", "commit", "main", "HEAD", FALSE, FALSE, TRUE, FALSE, FALSE),
     Request("commit", "working-tree", None, None, FALSE, FALSE, FALSE, FALSE, FALSE),
     Request("commit", "staged-index", None, None, FALSE, FALSE, FALSE, FALSE, TRUE),
     Request("working-tree", "commit", "HEAD", None, FALSE, TRUE, FALSE, FALSE, FALSE)}

\* What a CI job runs: the pushed commit against main, fetched or not.
CiLine == {Request("commit", "commit", None, None, f, FALSE, FALSE, FALSE, FALSE) :
              f \in BOOLEAN}

SameSource ==
    {Request(s, s, None, None, FALSE, FALSE, FALSE, FALSE, FALSE) :
        s \in {"working-tree", "staged-index"}}

\* A clone of main at c1, with and without a remote-tracking ref.
Clones ==
    {[r \in Refs |-> IF r = "master" THEN None ELSE c1],
     [r \in Refs |-> IF r \in {"HEAD", "main"} THEN c1 ELSE None],
     [r \in Refs |-> IF r = "HEAD" THEN c1 ELSE None]}

\* One clone, up to date.
Clone == {[r \in Refs |-> IF r = "master" THEN None ELSE c1]}

=============================================================================

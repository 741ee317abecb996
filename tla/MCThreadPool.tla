---- MODULE MCThreadPool ----
EXTENDS ThreadPool, TLC
Symmetry == Permutations(Submitter) \union Permutations(Worker)
            \union Permutations(Task)
====

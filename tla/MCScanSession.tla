--------------------------- MODULE MCScanSession ----------------------------

EXTENDS ScanSession, TLC

\* Two scans over two paths while the disk changes once, and three over one (a
\* row is superseded by one whose session is cut short, and the third scan
\* recovers the stub); with --force over one path two runs while the disk
\* changes, and three.
mcScans ==
  {[modes |-> {"scan"}, force |-> FALSE, paths |-> Path, sessions |-> 2, changes |-> 1]} \cup
  {[modes |-> {"scan"}, force |-> FALSE, paths |-> {p}, sessions |-> 3, changes |-> 1] :
      p \in Path} \cup
  {[modes |-> {"scan"}, force |-> TRUE, paths |-> {p}, sessions |-> n, changes |-> 3 - n] :
      p \in Path, n \in 2..3}

\* Two runs of `voom process`, with or without backups over two paths, and
\* either kind over one.
mcProcesses ==
  {[modes |-> {m}, force |-> FALSE, paths |-> Path, sessions |-> 2, changes |-> 0] :
      m \in {"process", "no_backup"}} \cup
  {[modes |-> {"process", "no_backup"}, force |-> FALSE, paths |-> {p}, sessions |-> 2,
    changes |-> 1] : p \in Path}

Symmetry == Permutations(FileId) \cup Permutations(Hash) \cup Permutations(Path)
=============================================================================

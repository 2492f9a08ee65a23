------------------------------ MODULE MCWalgen ------------------------------
(* Two pages, so that a page may be touched on main below the fork, at it,    *)
(* above it only, or never; record sizes keep their order.  The directory is  *)
(* empty, or holds an older workload with more branches than this one.        *)
EXTENDS Walgen

MCPages      == {0, 1}
MCDeltaSizes == {1, 2}

OldImage(end) == [lsn |-> end, page |-> 0, size |-> 3, kind |-> "FULL_PAGE"]
OldBranch(n)  == [fork_lsn |-> 3, wal_file |-> 1 + n, records |-> 0, head_lsn |-> 3]

MCOldWorkloads ==
  {[files |-> <<>>, plan |-> NoPlan],
   [files |-> <<<<OldImage(3)>>, <<>>, <<>>, <<>>>>,
    plan |-> [present |-> TRUE,
              main |-> [fork_lsn |-> 0, wal_file |-> 1, records |-> 1, head_lsn |-> 3],
              branches |-> <<OldBranch(1), OldBranch(2), OldBranch(3)>>]]}
=============================================================================

------------------------------ MODULE MCConsole -----------------------------
(* One administrator, two tokens, pages of one entry, a recorder of two.    *)
EXTENDS Console

Setting(v, s, pages, n, t, r, l) ==
  [view |-> v, storage |-> s, routes |-> pages, entries |-> n, time |-> t,
   reads |-> r, loads |-> l]

\* Lists that are paged through and filtered (in the third, more is recorded
\* between two pages than a page holds), and sign-ins that overlap.
MCSettings ==
  {Setting("requests", "memory", {"list"}, 3, 1, 3, 1),
   Setting("requests", "sqlite", {"list"}, 3, 0, 3, 1),
   Setting("requests", "sqlite", {"list"}, 5, 0, 2, 1),
   Setting("health", "memory", {"list", "home"}, 2, 1, 2, 1),
   Setting("audit", "memory", {"list"}, 2, 0, 2, 2),
   Setting("audit", "sqlite", {"list", "home"}, 2, 0, 2, 1),
   Setting("audit", "memory", {"list", "usage"}, 1, 0, 1, 3)}
=============================================================================

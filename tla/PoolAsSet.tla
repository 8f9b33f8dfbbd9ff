----------------------------- MODULE PoolAsSet ------------------------------
(***************************************************************************)
(* The connection pool as its clients see it: the mapping under which      *)
(* ConnectionPool implements the set of sessions of SessionPool.           *)
(***************************************************************************)
EXTENDS ConnectionPool

\* The call as its client sees it: return_session() lasts until it has notified.
CallOf(c) == IF pc[c] \in {"return", "append", "notify"} THEN "return" ELSE op[c]

Set == INSTANCE SessionPool WITH
    call <- [c \in Clients |-> CallOf(c)], own <- [c \in Clients |-> hand[c]],
    free <- Pooled

\* Seen through its calls, without mutex, condition variable and threads of its own,
\* the pool is a set of open sessions: every call takes or gives its session at one
\* instant, never the session of another, and one that fails takes nothing; not_found
\* is said of an empty pool only, although the list is looked at and changed by many.
ImplementsSet == Set!PoolSpec

=============================================================================

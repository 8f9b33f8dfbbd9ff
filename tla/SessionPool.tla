---------------------------- MODULE SessionPool -----------------------------
(***************************************************************************)
(* What a connection pool promises its clients: a set of open sessions     *)
(* from which one call takes a session and to which another gives it back, *)
(* each at one instant between its beginning and its end, whatever the     *)
(* other threads do.  There is no mutex, no condition variable and no      *)
(* thread of the pool here: sessions arrive and leave by themselves.       *)
(* ConnectionPool implements this module.                                  *)
(***************************************************************************)
CONSTANTS
    Clients,        \* threads that use the pool
    Sessions,       \* identities of connected streams
    NoSession       \* a null unique_ptr

VARIABLES
    call,       \* the call a client is in, "none" outside
    ec,         \* the error_code variable each client passes to its calls
    own,        \* the session a client owns
    closed,     \* sessions whose is_open() is false
    free,       \* the sessions in the pool
    life        \* "up", "stopping" in the destructor, or "gone"

poolVars == <<call, ec, own, closed, free, life>>

Getters == {"get", "try"}

PoolInit ==
    /\ call = [c \in Clients |-> "none"] /\ ec = [c \in Clients |-> "ok"]
    /\ own = [c \in Clients |-> NoSession]
    /\ closed = {} /\ free = {} /\ life = "up"

(***************************************************************************)
(* Calls of the clients                                                    *)
(***************************************************************************)
\* Who asks for a session has none; who gives one back has one that is open.
Begin(c, o) ==
    /\ life = "up" /\ call[c] = "none"
    /\ o \in Getters => own[c] = NoSession
    /\ o = "return" => own[c] # NoSession /\ own[c] \notin closed
    /\ call' = [call EXCEPT ![c] = o]
    /\ UNCHANGED <<ec, own, closed, free, life>>

\* A session goes from the pool to one client.
Take(c) ==
    /\ call[c] \in Getters
    /\ \E s \in free : own' = [own EXCEPT ![c] = s] /\ free' = free \ {s}
    /\ call' = [call EXCEPT ![c] = "none"]
    /\ UNCHANGED <<ec, closed, life>>

\* is_connected() is true of a pool that has a session.
Probe(c) ==
    /\ call[c] = "is_connected" /\ free # {}
    /\ call' = [call EXCEPT ![c] = "none"]
    /\ UNCHANGED <<ec, own, closed, free, life>>

\* A call that fails takes nothing; not_found is said of an empty pool only.
Fail(c, e) ==
    /\ call[c] \notin {"none", "return"}
    /\ e = "timed_out" \/ (e = "not_found" /\ free = {})
    /\ ec' = [ec EXCEPT ![c] = e]
    /\ call' = [call EXCEPT ![c] = "none"]
    /\ UNCHANGED <<own, closed, free, life>>

\* return_session() moves the session into the pool, at most once.
Put(c) ==
    /\ call[c] = "return" /\ own[c] # NoSession
    /\ own' = [own EXCEPT ![c] = NoSession] /\ free' = free \cup {own[c]}
    /\ UNCHANGED <<call, ec, closed, life>>

\* If it could not, the session stays with the client.
Return(c) ==
    /\ call[c] = "return"
    /\ call' = [call EXCEPT ![c] = "none"]
    /\ UNCHANGED <<ec, own, closed, free, life>>

\* Outside the pool a client destroys its session, or a deadline closes it.
Drop(c) ==
    /\ call[c] = "none" /\ own[c] # NoSession
    /\ \/ own' = [own EXCEPT ![c] = NoSession] /\ closed' = closed \ {own[c]}
       \/ UNCHANGED own /\ closed' = closed \cup {own[c]}
    /\ UNCHANGED <<call, ec, free, life>>

(***************************************************************************)
(* The pool by itself                                                      *)
(***************************************************************************)
\* A new session is nobody's, and open.
Arrive ==
    /\ life # "gone"
    /\ \E s \in Sessions \ (free \cup closed) :
         (\A c \in Clients : own[c] # s) /\ free' = free \cup {s}
    /\ UNCHANGED <<call, ec, own, closed, life>>

Evict ==
    /\ \E s \in free : free' = free \ {s}
    /\ UNCHANGED <<call, ec, own, closed, life>>

\* The destructor is called when no call is in progress; the sessions in the pool
\* die with it.
End ==
    /\ \A c \in Clients : call[c] = "none"
    /\ \/ life = "up" /\ life' = "stopping" /\ UNCHANGED free
       \/ life = "stopping" /\ life' = "gone" /\ free' = {}
    /\ UNCHANGED <<call, ec, own, closed>>

PoolNext ==
    \/ \E c \in Clients :
         \/ \E o \in Getters \cup {"is_connected", "return"} : Begin(c, o)
         \/ Take(c) \/ Probe(c) \/ Put(c) \/ Return(c) \/ Drop(c)
         \/ \E e \in {"timed_out", "not_found"} : Fail(c, e)
    \/ Arrive \/ Evict \/ End

PoolSpec == PoolInit /\ [][PoolNext]_poolVars

=============================================================================

----------------------------- MODULE Connector ------------------------------
(***************************************************************************)
(* base_connector (connector/connector.hpp, connector/impl/connector.ipp): *)
(* threads that call new_session(), the background thread that runs        *)
(* resolve_routine(), and the thread that destroys the connector.          *)
(*                                                                         *)
(* Who holds resolve_done_mutex_ and resolve_needed_mutex_ follows from    *)
(* the control of the threads (DoneLocked, NeededLocked).                  *)
(* endpoints_mutex_ and resolve_error_mutex_ only protect single copies,   *)
(* which are single steps here.                                            *)
(***************************************************************************)
EXTENDS Integers, FiniteSets

CONSTANTS
    Callers,        \* threads that call new_session(): clients or a pool's adders
    Endpoints       \* addresses the name may resolve to

ASSUME ConnectorAssumption == IsFiniteSet(Callers) /\ Endpoints # {}

VARIABLES
    pc,             \* where each caller is
    ec,             \* the error_code variable each caller passes
    expired,        \* callers whose deadline has passed
    peers,          \* each caller's copy of the endpoints
    result,         \* what each caller's last call returned
    endpoints,      \* endpoints_
    resolve_done,
    resolve_needed,
    resolve_error,
    resolver,       \* where resolve_routine() is
    found,          \* new_endpoints of resolve_routine()
    life,           \* "up" while resolving_thread_running_, "stopping" in the destructor
    dns,            \* the addresses the name has now, where the servers listen
    owed            \* history: some caller asked for endpoints after the last
                    \* resolution had started

callerVars == <<pc, ec, expired, peers, result>>
resolverVars == <<resolver, found, endpoints, resolve_done, resolve_error>>
vars == <<callerVars, resolverVars, resolve_needed, life, dns, owed>>

HoldsDone == {"check", "last"}
\* Mutant: the mutex is released while the name is resolved.
HoldsNeeded_Released == {"check", "last", "store"}

HoldsNeeded == {"check", "last", "resolve", "answered", "store"}

DoneLocked == resolver = "set_done" \/ \E c \in Callers : pc[c] \in HoldsDone
NeededLocked == resolver \in HoldsNeeded \/ \E c \in Callers : pc[c] = "set_needed"

Init ==
    /\ pc = [c \in Callers |-> "idle"]
    /\ ec = [c \in Callers |-> "ok"]
    /\ expired = {}
    /\ peers = [c \in Callers |-> {}]
    /\ result = [c \in Callers |-> "none"]
    /\ endpoints = {}
    /\ resolve_done = FALSE
    /\ resolve_needed = TRUE
    /\ resolve_error = "ok"
    /\ resolver = "top"
    /\ found = {}
    /\ life = "up"
    /\ dns \in (SUBSET Endpoints) \ {{}}
    /\ owed = FALSE

(***************************************************************************)
(* new_session()                                                           *)
(***************************************************************************)
Goto(c, label) == pc' = [pc EXCEPT ![c] = label]

\* The caller passes its error_code as its last call left it, or a fresh one
\* (the overload that throws always does).
NewSession(c) ==
    /\ life = "up" /\ pc[c] = "idle"
    /\ \E e \in {ec[c], "ok"} : ec' = [ec EXCEPT ![c] = e]
    /\ result' = [result EXCEPT ![c] = "none"]
    /\ Goto(c, "lock")
    /\ UNCHANGED <<expired, peers, resolverVars, resolve_needed, life, dns, owed>>

\* The deadline passes.
Deadline(c) ==
    /\ pc[c] # "idle" /\ c \notin expired
    /\ expired' = expired \cup {c}
    /\ UNCHANGED <<pc, ec, peers, result, resolverVars, resolve_needed, life, dns, owed>>

\* Mutant: the next call starts with the deadline of this one.
Return_KeepsDeadline(c, r, e) ==
    /\ result' = [result EXCEPT ![c] = r]
    /\ ec' = [ec EXCEPT ![c] = e]
    /\ UNCHANGED expired
    /\ peers' = [peers EXCEPT ![c] = {}]
    /\ Goto(c, "idle")

Return(c, r, e) ==
    /\ result' = [result EXCEPT ![c] = r]
    /\ ec' = [ec EXCEPT ![c] = e]
    /\ expired' = expired \ {c}
    /\ peers' = [peers EXCEPT ![c] = {}]
    /\ Goto(c, "idle")

\* Mutant: only an error of the resolver is reported.
GiveUp_NoTimeout(c) ==
    /\ Return(c, "null", resolve_error)
    /\ UNCHANGED <<resolverVars, resolve_needed, life, dns, owed>>

\* The endpoints did not come in time: the error of the last resolution, if
\* it had one, or timed_out.
GiveUp(c) ==
    /\ Return(c, "null", IF resolve_error # "ok" THEN resolve_error ELSE "timed_out")
    /\ UNCHANGED <<resolverVars, resolve_needed, life, dns, owed>>

LockDone(c) ==
    /\ pc[c] = "lock" /\ ~DoneLocked
    /\ Goto(c, "check")
    /\ UNCHANGED <<ec, expired, peers, result, resolverVars, resolve_needed, life, dns, owed>>

LockDoneTimeout(c) ==
    /\ pc[c] = "lock" /\ DoneLocked /\ c \in expired
    /\ GiveUp(c)

Resolved(c) ==
    /\ pc[c] \in HoldsDone /\ resolve_done
    /\ Goto(c, "endpoints")
    /\ UNCHANGED <<ec, expired, peers, result, resolverVars, resolve_needed, life, dns, owed>>

Sleep(c) ==
    /\ pc[c] = "check" /\ ~resolve_done
    /\ Goto(c, "sleep")
    /\ UNCHANGED <<ec, expired, peers, result, resolverVars, resolve_needed, life, dns, owed>>

\* resolve_done_cv_ wakes up on the deadline or spuriously; the predicate is
\* then evaluated for the last time, or the loop goes on.
Wake(c) ==
    /\ pc[c] = "sleep"
    /\ Goto(c, IF c \in expired THEN "expired" ELSE "woken")
    /\ UNCHANGED <<ec, expired, peers, result, resolverVars, resolve_needed, life, dns, owed>>

\* Mutant: the wait goes on after the deadline.
Relock_Forever(c) ==
    /\ pc[c] \in {"woken", "expired"} /\ ~DoneLocked
    /\ Goto(c, "check")
    /\ UNCHANGED <<ec, expired, peers, result, resolverVars, resolve_needed, life, dns, owed>>

Relock(c) ==
    /\ pc[c] \in {"woken", "expired"} /\ ~DoneLocked
    /\ Goto(c, IF pc[c] = "expired" THEN "last" ELSE "check")
    /\ UNCHANGED <<ec, expired, peers, result, resolverVars, resolve_needed, life, dns, owed>>

NotResolved(c) == pc[c] = "last" /\ ~resolve_done /\ GiveUp(c)

GetEndpoints(c) ==
    /\ pc[c] = "endpoints"
    /\ peers' = [peers EXCEPT ![c] = endpoints]
    /\ Goto(c, "connect")
    /\ UNCHANGED <<ec, expired, result, resolverVars, resolve_needed, life, dns, owed>>

\* connect_until() on the first of the shuffled endpoints.
Connected(c) ==
    /\ pc[c] = "connect" /\ peers[c] \cap dns # {} /\ c \notin expired
    /\ Return(c, "session", ec[c])
    /\ UNCHANGED <<resolverVars, resolve_needed, life, dns, owed>>

\* The loop stops at the first failure; the other endpoints are not tried.  A timeout
\* may be the deadline's or the kernel's own.
\* Without endpoints the error is the caller's own, or the resolver's.
NotConnected(c) ==
    /\ pc[c] = "connect"
    /\ \E e \in {"refused", "timed_out"} :
         ec' = [ec EXCEPT ![c] = IF peers[c] # {} THEN e
                                 ELSE IF @ # "ok" THEN @ ELSE resolve_error]
    /\ Goto(c, "request")
    /\ UNCHANGED <<expired, peers, result, resolverVars, resolve_needed, life, dns, owed>>

\* notify_resolve_needed(): the lock has no deadline.
LockRequest(c) ==
    /\ pc[c] = "request" /\ ~NeededLocked
    /\ Goto(c, "set_needed")
    /\ UNCHANGED <<ec, expired, peers, result, resolverVars, resolve_needed, life, dns, owed>>

\* Mutant: a notification without the flag.
SetNeeded_NoFlag(c) ==
    /\ pc[c] = "set_needed"
    /\ owed' = TRUE
    /\ Goto(c, "notify")
    /\ UNCHANGED <<ec, expired, peers, result, resolverVars, resolve_needed, life, dns>>

SetNeeded(c) ==
    /\ pc[c] = "set_needed"
    /\ resolve_needed' = TRUE /\ owed' = TRUE
    /\ Goto(c, "notify")
    /\ UNCHANGED <<ec, expired, peers, result, resolverVars, life, dns>>

NotifyNeeded(c) ==
    /\ pc[c] = "notify"
    /\ resolver' = IF resolver = "sleep" THEN "woken" ELSE resolver
    /\ Return(c, "null", ec[c])
    /\ UNCHANGED <<found, endpoints, resolve_done, resolve_error, resolve_needed, life, dns, owed>>

(***************************************************************************)
(* resolve_routine()                                                       *)
(***************************************************************************)
ResolverGoto(label) ==
    /\ resolver' = label
    /\ UNCHANGED <<callerVars, found, endpoints, resolve_done, resolve_error, life, dns>>

\* Mutant: resolving_thread_running_ is not tested.
Top_Forever ==
    /\ resolver = "top"
    /\ ResolverGoto("lock")
    /\ UNCHANGED <<resolve_needed, owed>>

Top ==
    /\ resolver = "top"
    /\ ResolverGoto(IF life = "up" THEN "lock" ELSE "done")
    /\ UNCHANGED <<resolve_needed, owed>>

LockNeeded ==
    /\ resolver = "lock" /\ ~NeededLocked
    /\ ResolverGoto("check")
    /\ UNCHANGED <<resolve_needed, owed>>

LockNeededTimeout ==
    /\ resolver = "lock" /\ NeededLocked
    /\ ResolverGoto("top")
    /\ UNCHANGED <<resolve_needed, owed>>

StartResolve ==
    /\ resolver \in {"check", "last"} /\ resolve_needed
    /\ ResolverGoto("resolve")
    /\ owed' = FALSE
    /\ UNCHANGED resolve_needed

WaitNeeded ==
    /\ resolver = "check" /\ ~resolve_needed
    /\ ResolverGoto("sleep")
    /\ UNCHANGED <<resolve_needed, owed>>

\* After 100ms, or spuriously.
WakeResolver(label) ==
    /\ resolver = "sleep"
    /\ ResolverGoto(label)
    /\ UNCHANGED <<resolve_needed, owed>>

RelockNeeded ==
    /\ resolver \in {"woken", "expired"} /\ ~NeededLocked
    /\ ResolverGoto(IF resolver = "expired" THEN "last" ELSE "check")
    /\ UNCHANGED <<resolve_needed, owed>>

NotNeeded ==
    /\ resolver = "last" /\ ~resolve_needed
    /\ ResolverGoto("top")
    /\ UNCHANGED <<resolve_needed, owed>>

\* The name server's answer, which may be out of date when it is stored.
Answer ==
    /\ resolver = "resolve"
    /\ resolver' = "answered" /\ found' = dns
    /\ UNCHANGED <<callerVars, endpoints, resolve_done, resolve_error, resolve_needed, life, dns, owed>>

\* Mutant: an error is announced like an answer.
ResolveFails_Announces ==
    /\ resolver = "resolve"
    /\ resolver' = "announce" /\ resolve_error' = "resolve_failed"
    /\ UNCHANGED <<callerVars, found, endpoints, resolve_done, resolve_needed, life, dns, owed>>

\* An error or a timeout: recorded, the mutex released; a pause follows.
ResolveFails ==
    /\ resolver = "resolve"
    /\ resolver' = "pause" /\ resolve_error' = "resolve_failed"
    /\ UNCHANGED <<callerVars, found, endpoints, resolve_done, resolve_needed, life, dns, owed>>

Pause ==
    /\ resolver = "pause"
    /\ ResolverGoto("top")
    /\ UNCHANGED <<resolve_needed, owed>>

ClearError ==
    /\ resolver = "answered"
    /\ resolver' = "store" /\ resolve_error' = "ok"
    /\ UNCHANGED <<callerVars, found, endpoints, resolve_done, resolve_needed, life, dns, owed>>

\* Mutant: the first endpoints are kept.
UpdateEndpoints_Once ==
    /\ resolver = "store"
    /\ resolve_needed' = FALSE
    /\ endpoints' = (IF endpoints = {} THEN found ELSE endpoints) /\ found' = {}
    /\ resolver' = "announce"
    /\ UNCHANGED <<callerVars, resolve_done, resolve_error, life, dns, owed>>

UpdateEndpoints ==
    /\ resolver = "store"
    /\ resolve_needed' = FALSE
    /\ endpoints' = found /\ found' = {}
    /\ resolver' = "announce"
    /\ UNCHANGED <<callerVars, resolve_done, resolve_error, life, dns, owed>>

\* notify_resolve_done()
LockToAnnounce ==
    /\ resolver = "announce" /\ ~DoneLocked
    /\ ResolverGoto("set_done")
    /\ UNCHANGED <<resolve_needed, owed>>

SetDone ==
    /\ resolver = "set_done"
    /\ resolve_done' = TRUE
    /\ resolver' = "notify"
    /\ UNCHANGED <<callerVars, found, endpoints, resolve_error, resolve_needed, life, dns, owed>>

NotifyDone ==
    /\ resolver = "notify"
    /\ pc' = [c \in Callers |-> IF pc[c] = "sleep" THEN "woken" ELSE pc[c]]
    /\ resolver' = "top"
    /\ UNCHANGED <<ec, expired, peers, result, found, endpoints, resolve_done,
                   resolve_error, resolve_needed, life, dns, owed>>

(***************************************************************************)
(* The destructor and the world outside                                    *)
(***************************************************************************)
Destroy ==
    /\ life = "up" /\ \A c \in Callers : pc[c] = "idle"
    /\ life' = "stopping"
    /\ UNCHANGED <<callerVars, resolverVars, resolve_needed, dns, owed>>

Destroyed ==
    /\ life = "stopping" /\ resolver = "done"
    /\ life' = "gone"
    /\ UNCHANGED <<callerVars, resolverVars, resolve_needed, dns, owed>>

\* Nothing is left to do.
Gone == life = "gone" /\ UNCHANGED vars

\* The servers move.
Move ==
    /\ life = "up"
    /\ dns' \in (SUBSET Endpoints) \ {{}, dns}
    /\ UNCHANGED <<callerVars, resolverVars, resolve_needed, life, owed>>

-----------------------------------------------------------------------------
CallerStep(c) ==
    \/ LockDone(c) \/ LockDoneTimeout(c) \/ Resolved(c) \/ Sleep(c) \/ Wake(c)
    \/ Relock(c) \/ NotResolved(c) \/ GetEndpoints(c) \/ Connected(c)
    \/ NotConnected(c) \/ LockRequest(c) \/ SetNeeded(c) \/ NotifyNeeded(c)

ResolverStep ==
    \/ Top \/ LockNeeded \/ LockNeededTimeout \/ StartResolve \/ WaitNeeded
    \/ WakeResolver("expired") \/ WakeResolver("woken") \/ RelockNeeded \/ NotNeeded
    \/ Pause \/ ClearError \/ UpdateEndpoints \/ LockToAnnounce \/ SetDone \/ NotifyDone

Next ==
    \/ \E c \in Callers : NewSession(c) \/ Deadline(c) \/ CallerStep(c)
    \/ ResolverStep \/ Answer \/ ResolveFails
    \/ Destroy \/ Destroyed \/ Gone \/ Move

Spec == Init /\ [][Next]_vars

(***************************************************************************)
(* Fairness: threads are scheduled, deadlines pass, a thread that waits    *)
(* for a mutex gets it when it is released again and again, and the timed  *)
(* attempts of the resolver's thread do not all fail; its wait_for() has   *)
(* an end in spite of spurious wake-ups.                                   *)
(***************************************************************************)
Scheduling ==
    /\ \A c \in Callers :
         /\ WF_vars(Deadline(c)) /\ WF_vars(CallerStep(c))
         /\ SF_vars(LockDone(c)) /\ SF_vars(Relock(c)) /\ SF_vars(LockRequest(c))
    /\ WF_vars(ResolverStep) /\ SF_vars(WakeResolver("expired"))
    /\ SF_vars(RelockNeeded) /\ SF_vars(LockToAnnounce)
    /\ <>[][~LockNeededTimeout]_vars \/ []<><<LockNeeded>>_vars
    /\ WF_vars(Destroyed)

\* resolve() has a timeout and returns.
ResolveReturns == WF_vars(Answer \/ ResolveFails)

FairSpec == Spec /\ Scheduling /\ ResolveReturns

-----------------------------------------------------------------------------
Labels == {"idle", "lock", "check", "last", "sleep", "woken", "expired",
           "endpoints", "connect", "request", "set_needed", "notify"}

Errors == {"ok", "timed_out", "refused", "resolve_failed"}

TypeOK ==
    /\ pc \in [Callers -> Labels]
    /\ ec \in [Callers -> Errors]
    /\ expired \subseteq {c \in Callers : pc[c] # "idle"}
    /\ peers \in [Callers -> SUBSET Endpoints]
    /\ result \in [Callers -> {"none", "session", "null"}]
    /\ endpoints \subseteq Endpoints /\ found \subseteq Endpoints
    /\ resolve_done \in BOOLEAN /\ resolve_needed \in BOOLEAN /\ owed \in BOOLEAN
    /\ resolve_error \in {"ok", "resolve_failed"}
    /\ resolver \in {"top", "lock", "check", "last", "sleep", "woken", "expired",
                     "resolve", "answered", "store", "announce", "set_done",
                     "notify", "pause", "done"}
    /\ life \in {"up", "stopping", "gone"}
    /\ dns \in (SUBSET Endpoints) \ {{}}

\* A call that returns nullptr says why, although the error is read from the
\* resolver's thread, from the connection attempt or left as the caller passed
\* it: the branch of the throwing overload for a null session without an error
\* is never taken.
NullHasError == \A c \in Callers : result[c] = "null" => ec[c] # "ok"

\* A caller that gets past the wait has an endpoint to connect to: resolve_done_
\* is announced after the endpoints are stored and never withdrawn.
EndpointsReady == \A c \in Callers : pc[c] = "connect" => peers[c] # {}

\* A request for new endpoints is never lost: the resolution that clears
\* resolve_needed_ started after the request.  (The resolver keeps the mutex
\* from the test of the flag to its reset, name resolution included.)
RequestKept == owed => resolve_needed

\* A request is eventually followed by a resolution, unless the connector is
\* being destroyed.
RequestServed == owed ~> (~owed \/ life # "up")

\* Every call of new_session() returns.
CallReturns == \A c \in Callers : pc[c] # "idle" ~> pc[c] = "idle"

\* If the servers stop moving, name resolution works now and then and callers
\* keep failing to connect, the connector learns where the servers are.
EndpointsCatchUp ==
    (/\ <>[][dns' = dns]_vars
     /\ SF_vars(Answer)
     /\ []<>(\E c \in Callers : pc[c] = "request"))
    => <>[](endpoints = dns)

\* The destructor returns once the resolver's thread has noticed the flag.
DestructorReturns == life = "stopping" ~> life = "gone"

=============================================================================

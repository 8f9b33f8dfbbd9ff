-------------------------- MODULE ConnectorProofs ---------------------------
(***************************************************************************)
(* For any number of callers and addresses: no request for a resolution is *)
(* lost, no caller is let past the wait without endpoints, and no call     *)
(* returns nullptr without an error.                                       *)
(***************************************************************************)
EXTENDS Connector, TLAPS

\* resolve_needed_mutex_ has one owner: nobody sets the flag while the resolver's
\* thread holds it, from the test of the flag to its reset.
Exclusive == resolver \in HoldsNeeded => \A c \in Callers : pc[c] # "set_needed"

\* The resolution under way serves all the requests there are.
Served == resolver \in {"resolve", "answered", "store"} => ~ owed

\* There are endpoints before resolve_done_ says so.
Stored ==
    /\ resolver \in {"answered", "store"} => found # {}
    /\ resolver \in {"announce", "set_done"} => endpoints # {}
    /\ resolve_done => endpoints # {}
    /\ \A c \in Callers : pc[c] = "endpoints" => resolve_done

\* A caller that asks for a resolution has failed to connect.
Explained ==
    \A c \in Callers : pc[c] \in {"request", "set_needed", "notify"} => ec[c] # "ok"

\* The inductive invariant.
ConnectorInv ==
    /\ TypeOK
    /\ Exclusive /\ Served /\ RequestKept
    /\ Stored /\ EndpointsReady
    /\ Explained /\ NullHasError

(***************************************************************************)
(* Types                                                                   *)
(***************************************************************************)
\* A caller in a call goes on to a label l of the call.
LEMMA GotoType ==
    ASSUME TypeOK, NEW c \in Callers, NEW l \in Labels \ {"idle"}, Goto(c, l),
           UNCHANGED <<expired, peers, result, resolverVars, life, dns>>,
           ec' \in [Callers -> Errors], resolve_needed' \in BOOLEAN, owed' \in BOOLEAN
    PROVE  TypeOK'
  BY DEF TypeOK, Goto, resolverVars

\* A call returns.
LEMMA ReturnType ==
    ASSUME TypeOK, NEW c \in Callers, NEW r \in {"session", "null"}, NEW e \in Errors,
           Return(c, r, e), UNCHANGED <<found, endpoints, resolve_done, resolve_error>>,
           resolver' \in {resolver, "woken"}, UNCHANGED <<resolve_needed, life, dns, owed>>
    PROVE  TypeOK'
  BY DEF TypeOK, Return, Goto, Labels

\* Every step of a caller keeps the types.
LEMMA CallerType ==
    ASSUME TypeOK, NEW c \in Callers, NewSession(c) \/ Deadline(c) \/ CallerStep(c)
    PROVE  TypeOK'
  <1>1. CASE NewSession(c)
    BY <1>1 DEF NewSession, TypeOK, Goto, Labels, Errors, resolverVars
  <1>2. CASE Deadline(c)
    BY <1>2 DEF Deadline, TypeOK, resolverVars
  <1>3. CASE LockDone(c) \/ Resolved(c) \/ Sleep(c) \/ Wake(c) \/ Relock(c) \/ LockRequest(c)
    <2>1. /\ \E l \in Labels \ {"idle"} : Goto(c, l)
          /\ UNCHANGED <<ec, expired, peers, result, resolverVars, resolve_needed, life, dns, owed>>
      BY <1>3 DEF LockDone, Resolved, Sleep, Wake, Relock, LockRequest, Labels
    <2>2. ec' \in [Callers -> Errors] /\ resolve_needed' \in BOOLEAN /\ owed' \in BOOLEAN
      BY <2>1 DEF TypeOK
    <2>3. QED
      BY <2>1, <2>2, GotoType
  <1>4. CASE GetEndpoints(c)
    BY <1>4 DEF GetEndpoints, TypeOK, Goto, Labels, resolverVars
  <1>5. CASE NotConnected(c)
    <2>1. ec' \in [Callers -> Errors]
      BY <1>5 DEF NotConnected, TypeOK, Errors
    <2>2. "request" \in Labels \ {"idle"}
      BY DEF Labels
    <2>3. QED
      BY <1>5, <2>1, <2>2, GotoType DEF NotConnected, TypeOK
  <1>6. CASE SetNeeded(c)
    <2>1. resolve_needed' = TRUE /\ owed' = TRUE
      BY <1>6 DEF SetNeeded
    <2>2. resolve_needed' \in BOOLEAN /\ owed' \in BOOLEAN
      BY <2>1, Zenon
    <2>3. "notify" \in Labels \ {"idle"}
      BY DEF Labels
    <2>4. QED
      BY <1>6, <2>2, <2>3, GotoType DEF SetNeeded, TypeOK
  <1>7. CASE LockDoneTimeout(c) \/ NotResolved(c)
    <2>1. GiveUp(c)
      BY <1>7 DEF LockDoneTimeout, NotResolved
    <2>2. PICK e \in Errors : Return(c, "null", e)
      BY <2>1 DEF GiveUp, TypeOK, Errors
    <2>3. QED
      BY <2>1, <2>2, ReturnType DEF GiveUp, resolverVars
  <1>8. CASE Connected(c)
    <2>1. ec[c] \in Errors
      BY DEF TypeOK
    <2>2. QED
      BY <1>8, <2>1, ReturnType DEF Connected, resolverVars
  <1>9. CASE NotifyNeeded(c)
    <2>1. ec[c] \in Errors
      BY DEF TypeOK
    <2>2. QED
      BY <1>9, <2>1, ReturnType DEF NotifyNeeded
  <1>10. QED
    BY <1>1, <1>2, <1>3, <1>4, <1>5, <1>6, <1>7, <1>8, <1>9 DEF CallerStep

\* Every other step does, too.
LEMMA ResolverType ==
    ASSUME TypeOK,
           ResolverStep \/ Answer \/ ResolveFails \/ Destroy \/ Destroyed \/ Move \/ UNCHANGED vars
    PROVE  TypeOK'
  <1>1. CASE UNCHANGED <<resolve_needed, owed>> /\ \E l \in {"top", "lock", "check", "last", "sleep",
                  "woken", "expired", "set_done", "done"} : ResolverGoto(l)
    BY <1>1 DEF ResolverGoto, TypeOK, callerVars
  <1>2. CASE \/ Top \/ LockNeeded \/ LockNeededTimeout \/ WaitNeeded \/ WakeResolver("expired")
             \/ WakeResolver("woken") \/ RelockNeeded \/ NotNeeded \/ Pause \/ LockToAnnounce
    BY <1>1, <1>2 DEF Top, LockNeeded, LockNeededTimeout, WaitNeeded, WakeResolver, RelockNeeded,
                      NotNeeded, Pause, LockToAnnounce
  <1>3. CASE StartResolve
    <2>1. owed' = FALSE
      BY <1>3 DEF StartResolve
    <2>2. owed' \in BOOLEAN
      BY <2>1, Zenon
    <2>3. QED
      BY <1>3, <2>2 DEF StartResolve, ResolverGoto, TypeOK, callerVars
  <1>4. CASE ClearError \/ Answer \/ ResolveFails
    BY <1>4 DEF ClearError, Answer, ResolveFails, TypeOK, callerVars
  <1>5. CASE UpdateEndpoints
    <2>1. resolve_needed' = FALSE
      BY <1>5 DEF UpdateEndpoints
    <2>2. resolve_needed' \in BOOLEAN
      BY <2>1, Zenon
    <2>3. QED
      BY <1>5, <2>2 DEF UpdateEndpoints, TypeOK, callerVars
  <1>6. CASE SetDone
    <2>1. resolve_done' = TRUE
      BY <1>6 DEF SetDone
    <2>2. resolve_done' \in BOOLEAN
      BY <2>1, Zenon
    <2>3. QED
      BY <1>6, <2>2 DEF SetDone, TypeOK, callerVars
  <1>7. CASE NotifyDone
    BY <1>7 DEF NotifyDone, TypeOK, Labels
  <1>8. CASE Destroy \/ Destroyed \/ Move \/ UNCHANGED vars
    BY <1>8 DEF Destroy, Destroyed, Move, vars, TypeOK, callerVars, resolverVars
  <1>9. QED
    BY <1>2, <1>3, <1>4, <1>5, <1>6, <1>7, <1>8 DEF ResolverStep

(***************************************************************************)
(* The invariant                                                           *)
(***************************************************************************)
\* The first caller finds no endpoints and the resolver is to fetch them.
LEMMA ConnectorInit == Init => ConnectorInv
  <1> SUFFICES ASSUME Init PROVE ConnectorInv
    OBVIOUS
  <1>1. resolve_done \in BOOLEAN /\ resolve_needed \in BOOLEAN /\ owed \in BOOLEAN
    BY Zenon DEF Init
  <1>2. TypeOK
    BY <1>1 DEF Init, TypeOK, Labels, Errors
  <1>3. ~ owed /\ ~ resolve_done
    BY DEF Init
  <1>4. QED
    BY <1>2, <1>3
       DEF Init, ConnectorInv, Exclusive, HoldsNeeded, Served, RequestKept, Stored, EndpointsReady,
           Explained, NullHasError

\* A caller goes on; what it disturbs is named in the last five assumptions.
LEMMA GotoInv ==
    ASSUME ConnectorInv, TypeOK', NEW c \in Callers, NEW l \in Labels, Goto(c, l),
           UNCHANGED <<ec, expired, peers, result, resolverVars, resolve_needed, owed>>,
           l = "set_needed" => ~ NeededLocked,
           l = "endpoints" => resolve_done,
           l \in {"request", "notify"} => pc[c] \in {"request", "set_needed", "notify"},
           l = "set_needed" => pc[c] = "request",
           l # "connect"
    PROVE  ConnectorInv'
  <1>1. \A x \in Callers : pc'[x] = IF x = c THEN l ELSE pc[x]
    BY DEF Goto, ConnectorInv, TypeOK
  <1>2. Exclusive' /\ Served' /\ RequestKept'
    BY <1>1 DEF ConnectorInv, Exclusive, Served, RequestKept, NeededLocked, HoldsNeeded, resolverVars
  <1>3. Stored' /\ EndpointsReady'
    BY <1>1 DEF ConnectorInv, Stored, EndpointsReady, resolverVars
  <1>4. Explained' /\ NullHasError'
    BY <1>1 DEF ConnectorInv, Explained, NullHasError
  <1>5. QED
    BY <1>2, <1>3, <1>4 DEF ConnectorInv

\* A call returns, with an error if it returns nothing.
LEMMA ReturnInv ==
    ASSUME ConnectorInv, TypeOK', NEW c \in Callers, NEW r, NEW e, Return(c, r, e),
           r = "null" => e # "ok",
           UNCHANGED <<found, endpoints, resolve_done, resolve_needed, owed>>,
           resolver' = resolver \/ (resolver = "sleep" /\ resolver' = "woken")
    PROVE  ConnectorInv'
  <1>1. /\ \A x \in Callers : pc'[x] = IF x = c THEN "idle" ELSE pc[x]
        /\ \A x \in Callers : ec'[x] = IF x = c THEN e ELSE ec[x]
        /\ \A x \in Callers : result'[x] = IF x = c THEN r ELSE result[x]
        /\ \A x \in Callers : peers'[x] = IF x = c THEN {} ELSE peers[x]
    BY DEF Return, Goto, ConnectorInv, TypeOK
  <1>2. Exclusive' /\ Served' /\ RequestKept'
    BY <1>1 DEF ConnectorInv, Exclusive, Served, RequestKept, HoldsNeeded
  <1>3. Stored' /\ EndpointsReady'
    BY <1>1 DEF ConnectorInv, Stored, EndpointsReady
  <1>4. Explained' /\ NullHasError'
    BY <1>1 DEF ConnectorInv, Explained, NullHasError
  <1>5. QED
    BY <1>2, <1>3, <1>4 DEF ConnectorInv

\* Every step of a caller keeps the invariant.
LEMMA CallerInv ==
    ASSUME ConnectorInv, NEW c \in Callers, NewSession(c) \/ Deadline(c) \/ CallerStep(c)
    PROVE  ConnectorInv'
  <1>0. TypeOK /\ TypeOK'
    BY CallerType DEF ConnectorInv
  <1>1. CASE NewSession(c)
    <2>1. /\ \A x \in Callers : pc'[x] = IF x = c THEN "lock" ELSE pc[x]
          /\ \A x \in Callers : result'[x] = IF x = c THEN "none" ELSE result[x]
          /\ \A x \in Callers : x # c => ec'[x] = ec[x]
          /\ UNCHANGED <<peers, resolverVars, resolve_needed, owed>>
      BY <1>0, <1>1 DEF NewSession, Goto, TypeOK
    <2>2. Exclusive' /\ Served' /\ RequestKept'
      BY <2>1 DEF ConnectorInv, Exclusive, Served, RequestKept, HoldsNeeded, resolverVars
    <2>3. Stored' /\ EndpointsReady'
      BY <2>1 DEF ConnectorInv, Stored, EndpointsReady, resolverVars
    <2>4. Explained' /\ NullHasError'
      BY <2>1 DEF ConnectorInv, Explained, NullHasError
    <2>5. QED
      BY <1>0, <2>2, <2>3, <2>4 DEF ConnectorInv
  <1>2. CASE Deadline(c)
    BY <1>0, <1>2 DEF Deadline, ConnectorInv, Exclusive, HoldsNeeded, Served, RequestKept, Stored,
                      EndpointsReady, Explained, NullHasError, resolverVars
  <1>3. CASE LockDone(c) \/ Sleep(c) \/ Wake(c) \/ Relock(c)
    <2>1. /\ \E l \in {"check", "sleep", "expired", "woken", "last"} : Goto(c, l)
          /\ UNCHANGED <<ec, expired, peers, result, resolverVars, resolve_needed, owed>>
      BY <1>3 DEF LockDone, Sleep, Wake, Relock
    <2>2. QED
      BY <1>0, <2>1, GotoInv DEF Labels
  <1>4. CASE Resolved(c)
    BY <1>0, <1>4, GotoInv DEF Resolved, Labels
  <1>5. CASE GetEndpoints(c)
    <2>1. endpoints # {}
      BY <1>5 DEF GetEndpoints, ConnectorInv, Stored
    <2>2. /\ \A x \in Callers : pc'[x] = IF x = c THEN "connect" ELSE pc[x]
          /\ \A x \in Callers : peers'[x] = IF x = c THEN endpoints ELSE peers[x]
          /\ UNCHANGED <<ec, result, resolverVars, resolve_needed, owed>>
      BY <1>0, <1>5 DEF GetEndpoints, Goto, TypeOK
    <2>3. Exclusive' /\ Served' /\ RequestKept'
      BY <2>2 DEF ConnectorInv, Exclusive, Served, RequestKept, HoldsNeeded, resolverVars
    <2>4. Stored' /\ EndpointsReady'
      BY <2>1, <2>2 DEF ConnectorInv, Stored, EndpointsReady, resolverVars
    <2>5. Explained' /\ NullHasError'
      BY <2>2 DEF ConnectorInv, Explained, NullHasError
    <2>6. QED
      BY <1>0, <2>3, <2>4, <2>5 DEF ConnectorInv
  <1>6. CASE NotConnected(c)
    <2>1. peers[c] # {}
      BY <1>6 DEF NotConnected, ConnectorInv, EndpointsReady
    <2>2. /\ \A x \in Callers : pc'[x] = IF x = c THEN "request" ELSE pc[x]
          /\ \A x \in Callers : x # c => ec'[x] = ec[x]
          /\ ec'[c] # "ok"
          /\ UNCHANGED <<peers, result, resolverVars, resolve_needed, owed>>
      BY <1>0, <1>6, <2>1 DEF NotConnected, Goto, TypeOK
    <2>3. Exclusive' /\ Served' /\ RequestKept'
      BY <2>2 DEF ConnectorInv, Exclusive, Served, RequestKept, HoldsNeeded, resolverVars
    <2>4. Stored' /\ EndpointsReady'
      BY <2>2 DEF ConnectorInv, Stored, EndpointsReady, resolverVars
    <2>5. Explained' /\ NullHasError'
      BY <2>2 DEF ConnectorInv, Explained, NullHasError
    <2>6. QED
      BY <1>0, <2>3, <2>4, <2>5 DEF ConnectorInv
  <1>7. CASE LockRequest(c)
    BY <1>0, <1>7, GotoInv DEF LockRequest, Labels
  <1>8. CASE SetNeeded(c)
    <2>1. resolver \notin HoldsNeeded
      BY <1>8 DEF SetNeeded, ConnectorInv, Exclusive
    <2>2. /\ \A x \in Callers : pc'[x] = IF x = c THEN "notify" ELSE pc[x]
          /\ pc[c] = "set_needed" /\ resolve_needed'
          /\ UNCHANGED <<ec, peers, result, resolverVars>>
      BY <1>0, <1>8 DEF SetNeeded, Goto, TypeOK
    <2>3. Exclusive' /\ Served' /\ RequestKept'
      BY <2>1, <2>2 DEF ConnectorInv, Exclusive, Served, RequestKept, HoldsNeeded, resolverVars
    <2>4. Stored' /\ EndpointsReady'
      BY <2>2 DEF ConnectorInv, Stored, EndpointsReady, resolverVars
    <2>5. Explained' /\ NullHasError'
      BY <2>2 DEF ConnectorInv, Explained, NullHasError
    <2>6. QED
      BY <1>0, <2>3, <2>4, <2>5 DEF ConnectorInv
  <1>9. CASE LockDoneTimeout(c) \/ NotResolved(c)
    <2>1. GiveUp(c)
      BY <1>9 DEF LockDoneTimeout, NotResolved
    <2>2. PICK e : e # "ok" /\ Return(c, "null", e)
      BY <2>1 DEF GiveUp
    <2>3. QED
      BY <1>0, <2>1, <2>2, ReturnInv DEF GiveUp, resolverVars
  <1>10. CASE Connected(c)
    BY <1>0, <1>10, ReturnInv DEF Connected, resolverVars
  <1>11. CASE NotifyNeeded(c)
    <2>1. ec[c] # "ok"
      BY <1>11 DEF NotifyNeeded, ConnectorInv, Explained
    <2>2. QED
      BY <1>0, <1>11, <2>1, ReturnInv DEF NotifyNeeded
  <1>12. QED
    BY <1>1, <1>2, <1>3, <1>4, <1>5, <1>6, <1>7, <1>8, <1>9, <1>10, <1>11 DEF CallerStep

\* So does every step of the resolver's thread, of the destructor and of the servers.
LEMMA ResolverInv ==
    ASSUME ConnectorInv,
           ResolverStep \/ Answer \/ ResolveFails \/ Destroy \/ Destroyed \/ Move \/ UNCHANGED vars
    PROVE  ConnectorInv'
  <1>0. TypeOK /\ TypeOK'
    BY ResolverType DEF ConnectorInv
  <1>1. CASE \/ Top \/ LockNeededTimeout \/ WaitNeeded \/ WakeResolver("expired")
             \/ WakeResolver("woken") \/ NotNeeded \/ Pause
    <2>1. /\ resolver' \notin HoldsNeeded \cup {"announce", "set_done"}
          /\ UNCHANGED <<callerVars, found, endpoints, resolve_done, resolve_needed, owed>>
      BY <1>1 DEF Top, LockNeededTimeout, WaitNeeded, WakeResolver, NotNeeded, Pause, ResolverGoto,
                  HoldsNeeded
    <2>2. QED
      BY <1>0, <2>1 DEF ConnectorInv, Exclusive, HoldsNeeded, Served, RequestKept, Stored,
                        EndpointsReady, Explained, NullHasError, callerVars
  <1>2. CASE LockNeeded \/ RelockNeeded
    <2>1. /\ ~ NeededLocked /\ resolver' \in {"check", "last"}
          /\ UNCHANGED <<callerVars, found, endpoints, resolve_done, resolve_needed, owed>>
      BY <1>2 DEF LockNeeded, RelockNeeded, ResolverGoto
    <2>2. QED
      BY <1>0, <2>1 DEF ConnectorInv, Exclusive, NeededLocked, Served, RequestKept, Stored,
                        EndpointsReady, Explained, NullHasError, callerVars
  <1>3. CASE StartResolve
    BY <1>0, <1>3 DEF StartResolve, ResolverGoto, ConnectorInv, Exclusive, HoldsNeeded, Served,
                      RequestKept, Stored, EndpointsReady, Explained, NullHasError, callerVars
  <1>4. CASE ClearError
    BY <1>0, <1>4 DEF ClearError, ConnectorInv, Exclusive, HoldsNeeded, Served,
                      RequestKept, Stored, EndpointsReady, Explained, NullHasError, callerVars
  <1>5. CASE Answer
    <2>1. dns # {}
      BY <1>0 DEF TypeOK
    <2>2. QED
      BY <1>0, <1>5, <2>1 DEF Answer, ConnectorInv, Exclusive, HoldsNeeded, Served,
                      RequestKept, Stored, EndpointsReady, Explained, NullHasError, callerVars
  <1>6. CASE ResolveFails
    BY <1>0, <1>6 DEF ResolveFails, ConnectorInv, Exclusive, HoldsNeeded, Served,
                      RequestKept, Stored, EndpointsReady, Explained, NullHasError, callerVars
  <1>7. CASE UpdateEndpoints
    BY <1>0, <1>7 DEF UpdateEndpoints, ConnectorInv, Exclusive, HoldsNeeded, Served,
                      RequestKept, Stored, EndpointsReady, Explained, NullHasError, callerVars
  <1>8. CASE LockToAnnounce \/ SetDone
    BY <1>0, <1>8 DEF LockToAnnounce, SetDone, ResolverGoto, ConnectorInv, Exclusive, HoldsNeeded,
                      Served, RequestKept, Stored, EndpointsReady, Explained, NullHasError, callerVars
  <1>9. CASE NotifyDone
    <2>1. \A x \in Callers : pc'[x] = IF pc[x] = "sleep" THEN "woken" ELSE pc[x]
      BY <1>9 DEF NotifyDone
    <2>2. QED
      BY <1>0, <1>9, <2>1 DEF NotifyDone, ConnectorInv, Exclusive, HoldsNeeded, Served,
                      RequestKept, Stored, EndpointsReady, Explained, NullHasError
  <1>10. CASE Destroy \/ Destroyed \/ Move \/ UNCHANGED vars
    BY <1>0, <1>10 DEF Destroy, Destroyed, Move, vars, callerVars, resolverVars, ConnectorInv,
                       Exclusive, HoldsNeeded, Served, RequestKept, Stored, EndpointsReady,
                       Explained, NullHasError
  <1>11. QED
    BY <1>1, <1>2, <1>3, <1>4, <1>5, <1>6, <1>7, <1>8, <1>9, <1>10 DEF ResolverStep

(***************************************************************************)
(* The theorems                                                            *)
(***************************************************************************)
\* The invariant holds in every state, whatever the callers, the resolver's thread,
\* the name server and the servers do.
THEOREM ConnectorInvariant == Spec => []ConnectorInv
  <1>1. ConnectorInv /\ [Next]_vars => ConnectorInv'
    BY CallerInv, ResolverInv DEF Next, Gone
  <1>2. QED
    BY <1>1, ConnectorInit, PTL DEF Spec

\* The types of the connector's variables.
THEOREM ConnectorTypes == Spec => []TypeOK
  BY ConnectorInvariant, PTL DEF ConnectorInv

\* resolve_routine() never clears a request that came after its resolution had begun.
THEOREM RequestsKept == Spec => []RequestKept
  BY ConnectorInvariant, PTL DEF ConnectorInv

\* No caller connects without endpoints.
THEOREM EndpointsThere == Spec => []EndpointsReady
  BY ConnectorInvariant, PTL DEF ConnectorInv

\* No call of new_session() returns nullptr without an error.
THEOREM NullExplained == Spec => []NullHasError
  BY ConnectorInvariant, PTL DEF ConnectorInv

=============================================================================

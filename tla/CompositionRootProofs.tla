-------------------------- MODULE CompositionRootProofs --------------------------
(***************************************************************************)
(* Proofs about the two cached factories, for any number of requests that  *)
(* race at startup or come later.                                          *)
(***************************************************************************)
EXTENDS CompositionRoot, TLAPS

\* Where a request has been given its audit log, and its detector.
HasLog == {"get_duplicate_detector", "build_detector", "serve", "audit", "done"}

HasDetector == {"serve", "audit", "done"}

\* The log is cached before anything is given out, and the detector after it.
CacheInv ==
    /\ \A r \in Requests : pc[r] \in HasLog => log[r] \in Requests /\ cachedLog # None
    /\ \A r \in Requests : pc[r] \in HasDetector => detector[r] \in Requests
    /\ \A r \in Requests : pc[r] \notin HasDetector => detector[r] = None
    /\ \A r \in Requests : pc[r] = "idle" => ~late[r]
    /\ \A r \in Requests : pc[r] # "idle" => identity[r] \in Identities
    /\ cachedDetector # None => cachedLog # None

\* A request that comes after the detector was cached never misses.
LateInv ==
    \A r \in Requests : late[r] =>
        /\ cachedDetector # None
        /\ pc[r] \notin {"build_audit_log", "build_detector"}
        /\ pc[r] \in HasLog => log[r] = cachedLog
        /\ pc[r] \in HasDetector => detector[r] = cachedDetector
        /\ pc[r] = "done" => r \in records[cachedLog]

\* A detector says "new" once about an identity, and has registered it then.
VerdictInv ==
    /\ \A r \in Requests : verdict[r] = "new" =>
           pc[r] \in {"audit", "done"} /\ identity[r] \in seen[detector[r]]
    /\ \A q, r \in Requests :
           /\ verdict[q] = "new" /\ verdict[r] = "new"
           /\ detector[q] = detector[r] /\ identity[q] = identity[r]
           => q = r

IInv == TypeOK /\ CacheInv /\ LateInv /\ VerdictInv

LEMMA InitIInv == Init => IInv
BY NoneAssumption
   DEF Init, IInv, TypeOK, Locations, CacheInv, LateInv, VerdictInv, HasLog, HasDetector

LEMMA NextIInv == IInv /\ [Next]_vars => IInv'
<1> SUFFICES ASSUME IInv, [Next]_vars PROVE IInv'
  OBVIOUS
<1> USE NoneAssumption DEF IInv, TypeOK, Locations, From
<1>1. ASSUME NEW r \in Requests, Arrive(r) PROVE IInv'
  <2>1. TypeOK'
    BY <1>1 DEF Arrive
  <2>2. CacheInv' /\ LateInv'
    BY <1>1 DEF Arrive, CacheInv, LateInv, HasLog, HasDetector
  <2>3. VerdictInv'
    BY <1>1 DEF Arrive, VerdictInv
  <2> QED
    BY <2>1, <2>2, <2>3
<1>2. ASSUME NEW r \in Requests, HitAuditLog(r) PROVE IInv'
  <2>1. TypeOK'
    BY <1>2 DEF HitAuditLog
  <2>2. CacheInv' /\ LateInv'
    BY <1>2 DEF HitAuditLog, CacheInv, LateInv, HasLog, HasDetector
  <2>3. VerdictInv'
    BY <1>2 DEF HitAuditLog, VerdictInv
  <2> QED
    BY <2>1, <2>2, <2>3
<1>3. ASSUME NEW r \in Requests, MissAuditLog(r) PROVE IInv'
  <2>1. TypeOK'
    BY <1>3 DEF MissAuditLog
  <2>2. CacheInv' /\ LateInv'
    BY <1>3 DEF MissAuditLog, CacheInv, LateInv, HasLog, HasDetector
  <2>3. VerdictInv'
    BY <1>3 DEF MissAuditLog, VerdictInv
  <2> QED
    BY <2>1, <2>2, <2>3
<1>4. ASSUME NEW r \in Requests, BuildAuditLog(r) PROVE IInv'
  <2>1. TypeOK'
    BY <1>4 DEF BuildAuditLog, Filled
  <2>2. CacheInv' /\ LateInv'
    BY <1>4 DEF BuildAuditLog, Filled, CacheInv, LateInv, HasLog, HasDetector
  <2>3. VerdictInv'
    BY <1>4 DEF BuildAuditLog, VerdictInv
  <2> QED
    BY <2>1, <2>2, <2>3
<1>5. ASSUME NEW r \in Requests, HitDetector(r) PROVE IInv'
  <2>1. TypeOK'
    BY <1>5 DEF HitDetector
  <2>2. CacheInv' /\ LateInv'
    BY <1>5 DEF HitDetector, CacheInv, LateInv, HasLog, HasDetector
  <2>3. VerdictInv'
    BY <1>5 DEF HitDetector, VerdictInv
  <2> QED
    BY <2>1, <2>2, <2>3
<1>6. ASSUME NEW r \in Requests, MissDetector(r) PROVE IInv'
  <2>1. TypeOK'
    BY <1>6 DEF MissDetector
  <2>2. CacheInv' /\ LateInv'
    BY <1>6 DEF MissDetector, CacheInv, LateInv, HasLog, HasDetector
  <2>3. VerdictInv'
    BY <1>6 DEF MissDetector, VerdictInv
  <2> QED
    BY <2>1, <2>2, <2>3
<1>7. ASSUME NEW r \in Requests, BuildDetector(r) PROVE IInv'
  <2>1. TypeOK'
    BY <1>7 DEF BuildDetector, Filled
  <2>2. CacheInv' /\ LateInv'
    BY <1>7 DEF BuildDetector, Filled, CacheInv, LateInv, HasLog, HasDetector
  <2>3. VerdictInv'
    BY <1>7 DEF BuildDetector, VerdictInv
  <2> QED
    BY <2>1, <2>2, <2>3
<1>8. ASSUME NEW r \in Requests, CheckDuplicate(r) PROVE IInv'
  <2>1. detector[r] \in Requests /\ identity[r] \in Identities
    BY <1>8 DEF CheckDuplicate, CacheInv, HasDetector
  <2>2. TypeOK'
    BY <1>8, <2>1 DEF CheckDuplicate
  <2>3. CacheInv' /\ LateInv'
    BY <1>8 DEF CheckDuplicate, CacheInv, LateInv, HasLog, HasDetector
  <2>4. VerdictInv'
    BY <1>8, <2>1 DEF CheckDuplicate, VerdictInv, CacheInv, HasDetector
  <2> QED
    BY <2>2, <2>3, <2>4
<1>9. ASSUME NEW r \in Requests, RecordResult(r) PROVE IInv'
  <2>1. log[r] \in Requests
    BY <1>9 DEF RecordResult, CacheInv, HasLog
  <2>2. TypeOK'
    BY <1>9, <2>1 DEF RecordResult
  <2>3. CacheInv' /\ LateInv'
    BY <1>9, <2>1 DEF RecordResult, CacheInv, LateInv, HasLog, HasDetector
  <2>4. VerdictInv'
    BY <1>9 DEF RecordResult, VerdictInv
  <2> QED
    BY <2>2, <2>3, <2>4
<1>10. CASE UNCHANGED vars
  BY <1>10 DEF vars, CacheInv, LateInv, VerdictInv
<1> QED
  BY <1>1, <1>2, <1>3, <1>4, <1>5, <1>6, <1>7, <1>8, <1>9, <1>10 DEF Next, Step, Quiescent

\* The invariant of the two caches.
THEOREM CacheInvariant == Spec => []IInv
<1> QED
  BY InitIInv, NextIInv, PTL DEF Spec

\* The variables have their types, in every state.
THEOREM RootTypes == Spec => []TypeOK
<1>1. IInv => TypeOK
  BY DEF IInv
<1> QED
  BY <1>1, CacheInvariant, PTL

\* However many requests race at startup, a request that comes later shares
\* its "new" with no other that was given the cached detector.
THEOREM FingerprintsPersistAfterStartup == Spec => []OneNewAfterStartup
<1>1. IInv => OneNewAfterStartup
  <2> SUFFICES ASSUME IInv, NEW q \in Requests, NEW r \in Requests,
                      late[r], verdict[r] = "new", verdict[q] = "new",
                      identity[q] = identity[r], late[q] \/ detector[q] = cachedDetector
               PROVE  q = r
    BY DEF OneNewAfterStartup
  <2>1. pc[q] \in HasDetector /\ pc[r] \in HasDetector
    BY DEF IInv, VerdictInv, HasDetector
  <2>2. detector[r] = cachedDetector /\ detector[q] = cachedDetector
    BY <2>1 DEF IInv, LateInv
  <2> QED
    BY <2>2 DEF IInv, VerdictInv
<1> QED
  BY <1>1, CacheInvariant, PTL

\* And the records of all the requests that come later are in one log.
THEOREM OneLogAfterStartup == Spec => []LateRecordsTogether
<1>1. IInv => LateRecordsTogether
  BY DEF IInv, CacheInv, LateInv, HasLog, LateRecordsTogether
<1> QED
  BY <1>1, CacheInvariant, PTL

\* No step replaces an object once it is cached.
THEOREM CacheIsStable == Spec => CacheNeverReplaced
<1>1. [Next]_vars =>
        [/\ cachedLog # None => cachedLog' = cachedLog
         /\ cachedDetector # None => cachedDetector' = cachedDetector]_vars
  BY DEF vars, Next, Step, Quiescent, Arrive, HitAuditLog, MissAuditLog, BuildAuditLog, HitDetector,
         MissDetector, BuildDetector, CheckDuplicate, RecordResult, Filled
<1> QED
  BY <1>1, PTL DEF Spec, CacheNeverReplaced
=============================================================================

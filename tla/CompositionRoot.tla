----------------------------- MODULE CompositionRoot -----------------------------
(***************************************************************************)
(* How the API assembles the service of each request (api/dependencies.py: *)
(* 47-70).  The audit log and the duplicate detector are meant to be one   *)
(* per process: their factories are cached by functools.lru_cache, which   *)
(* holds no lock while the factory runs.  Of the calls that miss at once   *)
(* the first to finish fills the cache; the others keep the object they    *)
(* have built.  A request then uses the two objects it was given.          *)
(***************************************************************************)
EXTENDS Values, FiniteSets

CONSTANTS
    Requests,     \* requests, each one thread of the pool
    Identities    \* the fingerprints of the invoices they carry

ASSUME NoneAssumption == None \notin Requests \cup Identities \cup {"new", "duplicate"}

\* An object is named by the request whose call built it.
VARIABLES
    cachedLog,       \* what get_audit_log has cached, or None
    cachedDetector,  \* what get_duplicate_detector has cached, or None
    pc,              \* request -> where it is
    log,             \* request -> the audit log of its service
    detector,        \* request -> the duplicate detector of its service
    identity,        \* request -> the fingerprint of its invoice
    seen,            \* detector -> the fingerprints it has registered
    verdict,         \* request -> "new" or "duplicate", None before
    records,         \* audit log -> the requests it has a record of
    late             \* history: the detector was cached when the request came

vars == <<cachedLog, cachedDetector, pc, log, detector, identity, seen, verdict,
          records, late>>

Init ==
    /\ cachedLog = None
    /\ cachedDetector = None
    /\ pc = [r \in Requests |-> "idle"]
    /\ log = [r \in Requests |-> None]
    /\ detector = [r \in Requests |-> None]
    /\ identity = [r \in Requests |-> None]
    /\ seen = [d \in Requests |-> {}]
    /\ verdict = [r \in Requests |-> None]
    /\ records = [l \in Requests |-> {}]
    /\ late = [r \in Requests |-> FALSE]

From(r, here, there) == pc[r] = here /\ pc' = [pc EXCEPT ![r] = there]

Arrive(r) ==
    /\ From(r, "idle", "get_audit_log")
    /\ \E i \in Identities : identity' = [identity EXCEPT ![r] = i]
    /\ late' = [late EXCEPT ![r] = cachedDetector # None]
    /\ UNCHANGED <<cachedLog, cachedDetector, log, detector, seen, verdict, records>>

\* Slip: the audit log is not cached.
OwnAuditLog(r) ==
    /\ From(r, "get_audit_log", "get_duplicate_detector")
    /\ cachedLog # None
    /\ log' = [log EXCEPT ![r] = r]
    /\ UNCHANGED <<cachedLog, cachedDetector, detector, identity, seen, verdict, records, late>>

\* A cached factory is called: the cached object, or a miss.
HitAuditLog(r) ==
    /\ From(r, "get_audit_log", "get_duplicate_detector")
    /\ cachedLog # None
    /\ log' = [log EXCEPT ![r] = cachedLog]
    /\ UNCHANGED <<cachedLog, cachedDetector, detector, identity, seen, verdict, records, late>>

MissAuditLog(r) ==
    /\ From(r, "get_audit_log", "build_audit_log")
    /\ cachedLog = None
    /\ UNCHANGED <<cachedLog, cachedDetector, log, detector, identity, seen, verdict,
                   records, late>>

\* What the cache holds once a call that missed has built its object.
Filled(cached, built) == IF cached = None THEN built ELSE cached

BuildAuditLog(r) ==
    /\ From(r, "build_audit_log", "get_duplicate_detector")
    /\ log' = [log EXCEPT ![r] = r]
    /\ cachedLog' = Filled(cachedLog, r)
    /\ UNCHANGED <<cachedDetector, detector, identity, seen, verdict, records, late>>

\* Slip: the detector is not cached.
OwnDetector(r) ==
    /\ From(r, "get_duplicate_detector", "serve")
    /\ cachedDetector # None
    /\ detector' = [detector EXCEPT ![r] = r]
    /\ UNCHANGED <<cachedLog, cachedDetector, log, identity, seen, verdict, records, late>>

HitDetector(r) ==
    /\ From(r, "get_duplicate_detector", "serve")
    /\ cachedDetector # None
    /\ detector' = [detector EXCEPT ![r] = cachedDetector]
    /\ UNCHANGED <<cachedLog, cachedDetector, log, identity, seen, verdict, records, late>>

MissDetector(r) ==
    /\ From(r, "get_duplicate_detector", "build_detector")
    /\ cachedDetector = None
    /\ UNCHANGED <<cachedLog, cachedDetector, log, detector, identity, seen, verdict,
                   records, late>>

BuildDetector(r) ==
    /\ From(r, "build_detector", "serve")
    /\ detector' = [detector EXCEPT ![r] = r]
    /\ cachedDetector' = Filled(cachedDetector, r)
    /\ UNCHANGED <<cachedLog, log, identity, seen, verdict, records, late>>

\* The service asks its detector about the invoice.
CheckDuplicate(r) ==
    LET known == seen[detector[r]] IN
    /\ From(r, "serve", "audit")
    /\ verdict' = [verdict EXCEPT ![r] = IF identity[r] \in known THEN "duplicate" ELSE "new"]
    /\ seen' = [seen EXCEPT ![detector[r]] = known \cup {identity[r]}]
    /\ UNCHANGED <<cachedLog, cachedDetector, log, detector, identity, records, late>>

\* The service records its result in its audit log.
RecordResult(r) ==
    /\ From(r, "audit", "done")
    /\ records' = [records EXCEPT ![log[r]] = @ \cup {r}]
    /\ UNCHANGED <<cachedLog, cachedDetector, log, detector, identity, seen, verdict, late>>

Step(r) ==
    \/ HitAuditLog(r) \/ MissAuditLog(r) \/ BuildAuditLog(r)
    \/ HitDetector(r) \/ MissDetector(r) \/ BuildDetector(r)
    \/ CheckDuplicate(r) \/ RecordResult(r)

Quiescent == (\A r \in Requests : pc[r] = "done") /\ UNCHANGED vars

Next == (\E r \in Requests : Arrive(r) \/ Step(r)) \/ Quiescent

Spec == Init /\ [][Next]_vars
-----------------------------------------------------------------------------
Locations == {"idle", "get_audit_log", "build_audit_log", "get_duplicate_detector",
              "build_detector", "serve", "audit", "done"}

TypeOK ==
    /\ {cachedLog, cachedDetector} \subseteq Requests \cup {None}
    /\ pc \in [Requests -> Locations]
    /\ log \in [Requests -> Requests \cup {None}]
    /\ detector \in [Requests -> Requests \cup {None}]
    /\ identity \in [Requests -> Identities \cup {None}]
    /\ seen \in [Requests -> SUBSET Identities]
    /\ verdict \in [Requests -> {"new", "duplicate", None}]
    /\ records \in [Requests -> SUBSET Requests]
    /\ late \in [Requests -> BOOLEAN]

\* "A singleton so invoice fingerprints persist across requests" holds from
\* the first time the detector is cached: a request that comes later and is
\* told that its invoice is new shares that answer with no other request that
\* was given the cached detector, and none that comes later is ever given
\* another one.
OneNewAfterStartup ==
    \A q, r \in Requests :
        /\ late[r] /\ verdict[r] = "new" /\ verdict[q] = "new"
        /\ identity[q] = identity[r]
        /\ late[q] \/ detector[q] = cachedDetector
        => q = r

\* The records of the requests that come later are all in one log, the cached
\* one: by then the log is cached too, since it is built before the detector.
LateRecordsTogether ==
    \A r \in Requests : late[r] /\ pc[r] = "done" =>
        cachedLog # None /\ r \in records[cachedLog]

\* An object that is cached is the one every later caller gets: it is never
\* replaced, whatever the order in which racing calls finish.
CacheNeverReplaced ==
    [][/\ cachedLog # None => cachedLog' = cachedLog
       /\ cachedDetector # None => cachedDetector' = cachedDetector]_vars
=============================================================================

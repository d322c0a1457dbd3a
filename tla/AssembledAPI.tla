------------------------------ MODULE AssembledAPI ------------------------------
(***************************************************************************)
(* The API as it is deployed: both endpoints over one reconciliation       *)
(* service, whose duplicate detector is the in-memory one behind a lock    *)
(* (api/dependencies.py:63-70).  The call of the detector, one step in     *)
(* Endpoints, is made of the adapter's own steps, so that requests wait    *)
(* for the lock in the middle of reconcile.                                *)
(*                                                                         *)
(* The variables of the API change with the step of the adapter that       *)
(* decides, and the thread does nothing more for its request before the    *)
(* call has returned.  That the requests share one detector, whichever     *)
(* thread is first to ask for it, is the subject of CompositionRoot.       *)
(***************************************************************************)
EXTENDS Endpoints

VARIABLES
    lock,      \* the detector's lock: the request whose thread holds it, or None
    step,      \* request -> where its thread is in check_and_register
    found,     \* request -> what the dictionary read found
    verdict    \* request -> the value check_and_register returned

inside == <<lock, step, found, verdict>>
assembledVars == <<allVars, inside>>

Adapter == INSTANCE InMemoryDuplicateDetector WITH
    pc <- step, original <- found, answer <- verdict

AssembledInit == APIInit /\ detector = "sound" /\ Adapter!Init

\* The first thing reconcile does with an invoice is to call the detector.
CallDetector(r) ==
    /\ step[r] = "idle"
    /\ step' = [step EXCEPT ![r] = "enter"]
    /\ UNCHANGED <<lock, found, verdict>>

CallWithJson(r) == SubmitJson(r) /\ CallDetector(r)
CallWithReading(r) == HandOver(r) /\ CallDetector(r)

\* What the API does without the detector.
Receive(r) == ReceiveDocuments(r) /\ UNCHANGED inside
TurnDown(r) == Refuse(r) /\ UNCHANGED inside

\* The steps of the call that the other requests do not see.
EnterLock(r) == Adapter!Acquire(r) /\ UNCHANGED allVars
LookUp(r) == Adapter!Get(r) /\ UNCHANGED allVars
LeaveLock(r) == Adapter!Release(r) /\ UNCHANGED allVars

\* What deciding means to the service.
TakeAnswer(r) ==
    /\ From(r, "detect", "match")
    /\ checked' = [checked EXCEPT ![r] = TRUE]
    /\ original' = [original EXCEPT ![r] = found[r]]
    /\ UNCHANGED <<detector, store, candidates, result, auditId, api>>

\* Slip: an original that is found is looked up again.
DecideOrLookAgain(r) ==
    \/ Adapter!FindOriginalAgain(r) /\ UNCHANGED allVars
    \/ Adapter!Register(r) /\ TakeAnswer(r)

\* The invoice is found to be a duplicate, or is registered as new.
Decide(r) == (Adapter!FindOriginal(r) \/ Adapter!Register(r)) /\ TakeAnswer(r)

\* The rest of reconcile, once check_and_register has returned.
Resume(r) ==
    /\ step[r] = "returned"
    /\ Serve(r)
    /\ UNCHANGED inside

InThread(r) ==
    \/ CallWithReading(r) \/ TurnDown(r)
    \/ EnterLock(r) \/ LookUp(r) \/ Decide(r) \/ LeaveLock(r)
    \/ Resume(r)

AssembledNext ==
    \/ \E r \in Requests : CallWithJson(r) \/ Receive(r) \/ InThread(r)
    \/ AllAnswered /\ UNCHANGED inside

AssembledSpec == AssembledInit /\ [][AssembledNext]_assembledVars

\* A thread that has a request keeps running whenever it can.  The lock need
\* not be fair: a thread takes it once.
AssembledFairSpec == AssembledSpec /\ \A r \in Requests : WF_assembledVars(InThread(r))
-----------------------------------------------------------------------------
\* A thread is inside check_and_register exactly while its request waits for
\* the answer or has just got it.
AssembledTypeOK ==
    /\ lock \in Requests \cup {None}
    /\ step \in [Requests -> Adapter!Locations]
    /\ found \in [Requests -> Texts \cup {None}]
    /\ verdict \in [Requests -> Texts \cup {None}]
    /\ \A r \in Requests :
           /\ step[r] = "idle" <=> pc[r] = "idle"
           /\ step[r] \in {"enter", "get", "branch"} <=> pc[r] = "detect"

\* With a lock taken and released on the way, and requests waiting for it, the
\* API is still the one of Endpoints, where a call of the detector is one step
\* (services/reconciliation.py:168-176, in_memory.py:69-81).
ImplementsAPI == APISpec

\* The service keeps to the detector's protocol: nothing but its own steps
\* touches its dictionary, and a request calls it once, with the one invoice
\* that its thread works on.
KeepsToTheAdapter == Adapter!Spec

\* What the service goes on with is what the call of its own thread returned,
\* however the calls of the others interleaved with it.
AnswersReachTheirCaller ==
    \A r \in Requests : step[r] = "returned" => verdict[r] = original[r]
=============================================================================

--------------------------------- MODULE AuditLog ---------------------------------
(***************************************************************************)
(* What the audit-log port promises (ports/audit.py): record persists a    *)
(* result under a new id and gives the id back; nothing that was recorded  *)
(* ever changes or goes away.                                              *)
(***************************************************************************)

CONSTANTS
    Writers,      \* calls of record, each made once
    AuditIds,     \* ids a record may get
    None          \* Python's None

VARIABLES
    submission,   \* writer -> the result it wants recorded
    records,      \* the log: a function from ids in use to results
    receipt       \* writer -> the id it got back, or None

vars == <<submission, records, receipt>>

Init ==
    /\ DOMAIN submission = Writers
    /\ records = [a \in {} |-> None]
    /\ receipt = [w \in Writers |-> None]

\* A writer that has no receipt yet makes up or changes its result.
Submit(w) ==
    /\ receipt[w] = None
    /\ submission' = [submission EXCEPT ![w] = submission'[w]]
    /\ UNCHANGED <<records, receipt>>

\* The writer's result is persisted under an id that was free.
Record(w) ==
    /\ receipt[w] = None
    /\ \E a \in AuditIds \ DOMAIN records :
           /\ receipt' = [receipt EXCEPT ![w] = a]
           /\ records' = [b \in DOMAIN records \cup {a} |->
                             IF b = a THEN submission[w] ELSE records[b]]
    /\ UNCHANGED submission

Next == \E w \in Writers : Submit(w) \/ Record(w)

Spec == Init /\ [][Next]_vars
=============================================================================

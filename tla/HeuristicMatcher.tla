---------------------------- MODULE HeuristicMatcher ----------------------------
(***************************************************************************)
(* The heuristic matcher (adapters/matching/heuristic.py) step by step:    *)
(* the guard on an empty list, the loop that keeps the best candidate so   *)
(* far, the comparison with the threshold.  It computes Matching!Match.    *)
(***************************************************************************)
EXTENDS Matching

CONSTANTS
    Invoices,        \* the invoices to match
    CandidateLists   \* the lists of contracts they may be matched against

ASSUME InvoicesAssumption == \A i \in Invoices : i.vendor_name \in Vendors
ASSUME CandidatesAssumption ==
    \A cs \in CandidateLists :
        /\ Len(cs) \in Nat
        /\ DOMAIN cs = 1 .. Len(cs)
        /\ \A k \in DOMAIN cs : /\ cs[k].vendor_name \in Vendors
                                /\ cs[k].contract_id # None

ASSUME NoneAssumption == None \notin Nat

VARIABLES
    pc,           \* "start", "loop", "decided" or "raised"
    invoice,      \* the arguments of match
    candidates,
    next,         \* position of the candidate the loop looks at next
    best,         \* position of the best candidate so far, or None
    best_score,
    result        \* the MatchResult returned, or None

vars == <<pc, invoice, candidates, next, best, best_score, result>>

Init ==
    /\ pc = "start"
    /\ invoice \in Invoices
    /\ candidates \in CandidateLists
    /\ next = 1
    /\ best = None
    /\ best_score = 0
    /\ result = None

\* NoCandidateContractsError.
RaiseNoCandidates ==
    /\ pc = "start"
    /\ candidates = <<>>
    /\ pc' = "raised"
    /\ UNCHANGED <<invoice, candidates, next, best, best_score, result>>

Begin ==
    /\ pc = "start"
    /\ candidates # <<>>
    /\ pc' = "loop"
    /\ UNCHANGED <<invoice, candidates, next, best, best_score, result>>

\* Slip: the last of equal candidates wins.
BetterOrEqual(score) == score >= best_score

Better(score) == score > best_score

\* One turn of the loop.
Consider ==
    LET score == Score(invoice, candidates[next]) IN
    /\ pc = "loop"
    /\ next <= Len(candidates)
    /\ next' = next + 1
    /\ \/ /\ Better(score)
          /\ best' = next
          /\ best_score' = score
       \/ /\ ~Better(score)
          /\ UNCHANGED <<best, best_score>>
    /\ UNCHANGED <<pc, invoice, candidates, result>>

BelowThreshold == best_score < MatchAccept

Decide ==
    /\ pc = "loop"
    /\ next > Len(candidates)
    /\ result' = IF best = None \/ BelowThreshold
                 THEN Unmatched(best_score)
                 ELSE Matched(candidates[best], best_score)
    /\ pc' = "decided"
    /\ UNCHANGED <<invoice, candidates, next, best, best_score>>

Next == RaiseNoCandidates \/ Begin \/ Consider \/ Decide

Spec == Init /\ [][Next]_vars
-----------------------------------------------------------------------------
TypeOK ==
    /\ pc \in {"start", "loop", "decided", "raised"}
    /\ invoice \in Invoices
    /\ candidates \in CandidateLists
    /\ next \in 1 .. Len(candidates) + 1
    /\ best \in DOMAIN candidates \cup {None}
    /\ best_score \in 0 .. One

\* match returns the contract the port promises, or none: of the candidates
\* with the highest similarity the first, however they are ordered, and no
\* contract when that similarity is zero or below the threshold
\* (heuristic.py:69-98).
ReturnsTheMatch == pc = "decided" => result = Match(invoice, candidates)

\* An invoice is left unmatched only when every candidate is below the
\* acceptance threshold or entirely dissimilar: none that would clear the
\* threshold is passed over.
UnmatchedOnlyIfAllBelow ==
    pc = "decided" /\ ~IsMatched(result) =>
        \A k \in DOMAIN candidates :
            \/ Score(invoice, candidates[k]) < MatchAccept
            \/ Score(invoice, candidates[k]) = 0
=============================================================================

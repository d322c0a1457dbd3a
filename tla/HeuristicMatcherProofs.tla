------------------------- MODULE HeuristicMatcherProofs -------------------------
(***************************************************************************)
(* The matcher's loop computes Matching!Match, for lists of any length and *)
(* any similarity: the invariant of the loop and the theorem that follows. *)
(***************************************************************************)
EXTENDS HeuristicMatcher, TLAPS

ScoreAt(k) == Score(invoice, candidates[k])

\* best is the first of the candidates seen so far that scores highest, None
\* while all of them score zero.
LoopInv ==
    /\ best = None =>
           best_score = 0 /\ \A j \in 1 .. next - 1 : ScoreAt(j) = 0
    /\ best # None =>
           /\ best \in 1 .. next - 1
           /\ best_score = ScoreAt(best)
           /\ best_score > 0
           /\ \A j \in 1 .. next - 1 : ScoreAt(j) <= best_score
           /\ \A j \in 1 .. best - 1 : ScoreAt(j) < best_score

IInv ==
    /\ TypeOK
    /\ pc = "loop" => candidates # <<>>
    /\ LoopInv
    /\ ReturnsTheMatch

LEMMA OneType == One \in Nat
BY DEF One

LEMMA ScoreType ==
    ASSUME NEW i \in Invoices, NEW cs \in CandidateLists, NEW k \in DOMAIN cs
    PROVE  Score(i, cs[k]) \in 0 .. One
<1>1. i.vendor_name \in Vendors /\ cs[k].vendor_name \in Vendors
  BY InvoicesAssumption, CandidatesAssumption
<1>2. Ratio[<<i.vendor_name, cs[k].vendor_name>>] \in 0 .. One
  BY <1>1, RatioAssumption
<1> QED
  BY <1>2, OneType DEF Score, Similarity

IsFirstBest(i, cs, k) ==
    /\ \A j \in DOMAIN cs : Score(i, cs[j]) <= Score(i, cs[k])
    /\ \A j \in 1 .. k - 1 : Score(i, cs[j]) < Score(i, cs[k])

\* There is at most one first best candidate, so the one that is found is it.
LEMMA BestIsUnique ==
    ASSUME NEW i \in Invoices, NEW cs \in CandidateLists,
           NEW k \in DOMAIN cs, IsFirstBest(i, cs, k)
    PROVE  Best(i, cs) = k
<1>1. DOMAIN cs = 1 .. Len(cs) /\ Len(cs) \in Nat
  BY CandidatesAssumption
<1>2. \A m \in DOMAIN cs : Score(i, cs[m]) \in 0 .. One
  BY ScoreType
<1>3. ASSUME NEW m \in DOMAIN cs, IsFirstBest(i, cs, m) PROVE m = k
  <2>1. CASE m < k
    <3>1. m \in 1 .. k - 1
      BY <1>1, <2>1
    <3>2. Score(i, cs[m]) < Score(i, cs[k]) /\ Score(i, cs[k]) <= Score(i, cs[m])
      BY <1>3, <3>1 DEF IsFirstBest
    <3> QED
      BY <1>2, <3>2, OneType
  <2>2. CASE k < m
    <3>1. k \in 1 .. m - 1
      BY <1>1, <2>2
    <3>2. Score(i, cs[k]) < Score(i, cs[m]) /\ Score(i, cs[m]) <= Score(i, cs[k])
      BY <1>3, <3>1 DEF IsFirstBest
    <3> QED
      BY <1>2, <3>2, OneType
  <2> QED
    BY <1>1, <2>1, <2>2
<1>4. Best(i, cs) = CHOOSE m \in DOMAIN cs : IsFirstBest(i, cs, m)
  BY DEF Best, IsFirstBest
<1> QED
  BY <1>3, <1>4

LEMMA InitIInv == Init => IInv
<1> SUFFICES ASSUME Init PROVE IInv
  OBVIOUS
<1>1. Len(candidates) \in Nat
  BY CandidatesAssumption DEF Init
<1> QED
  BY <1>1, OneType DEF Init, IInv, TypeOK, LoopInv, ReturnsTheMatch

LEMMA NextIInv == IInv /\ [Next]_vars => IInv'
<1> SUFFICES ASSUME IInv, [Next]_vars PROVE IInv'
  OBVIOUS
<1> USE NoneAssumption, OneType
<1>0. Len(candidates) \in Nat /\ DOMAIN candidates = 1 .. Len(candidates)
  BY CandidatesAssumption DEF IInv, TypeOK
<1>1. CASE RaiseNoCandidates
  BY <1>1 DEF RaiseNoCandidates, IInv, TypeOK, LoopInv, ScoreAt, ReturnsTheMatch
<1>2. CASE Begin
  BY <1>2 DEF Begin, IInv, TypeOK, LoopInv, ScoreAt, ReturnsTheMatch
<1>3. CASE Consider
  <2>1. next \in DOMAIN candidates /\ ScoreAt(next) \in 0 .. One
    BY <1>0, <1>3, ScoreType DEF Consider, IInv, TypeOK, ScoreAt
  <2>2. TypeOK' /\ (pc = "loop" => candidates # <<>>)' /\ ReturnsTheMatch'
    BY <1>0, <1>3, <2>1 DEF Consider, Better, IInv, TypeOK, ScoreAt, ReturnsTheMatch
  <2>3. \A j \in 1 .. next : ScoreAt(j) \in 0 .. One
    BY <1>0, <2>1, ScoreType DEF IInv, TypeOK, ScoreAt
  <2>4. CASE Better(ScoreAt(next))
    <3>1. best' = next /\ best_score' = ScoreAt(next) /\ next' = next + 1
      BY <1>3, <2>4 DEF Consider, ScoreAt
    <3>2. \A j \in 1 .. next - 1 : ScoreAt(j) < ScoreAt(next)
      BY <2>1, <2>3, <2>4 DEF Better, IInv, TypeOK, LoopInv
    <3>3. ScoreAt(next) > 0 /\ next \in Nat /\ next # 0
      BY <1>0, <2>1, <2>4 DEF Better, IInv, TypeOK
    <3>4. LoopInv'
      <4>1. \A j \in 1 .. next : Score(invoice', candidates'[j]) <= best_score'
        <5>1. \A j \in 1 .. next : ScoreAt(j) <= ScoreAt(next)
          BY <2>1, <2>3, <3>2, <3>3
        <5> QED
          BY <1>3, <3>1, <5>1 DEF Consider, ScoreAt
      <4>2. \A j \in 1 .. best' - 1 : Score(invoice', candidates'[j]) < best_score'
        BY <1>3, <3>1, <3>2 DEF Consider, ScoreAt
      <4>3. /\ best' # None /\ best' \in 1 .. next' - 1
            /\ best_score' = Score(invoice', candidates'[best']) /\ best_score' > 0
        BY <1>3, <3>1, <3>3 DEF Consider, ScoreAt
      <4> QED
        BY <3>1, <3>3, <4>1, <4>2, <4>3 DEF LoopInv, ScoreAt
    <3> QED
      BY <2>2, <3>4 DEF IInv
  <2>5. CASE ~Better(ScoreAt(next))
    <3>1. best' = best /\ best_score' = best_score /\ next' = next + 1
      BY <1>3, <2>5 DEF Consider, ScoreAt
    <3>2. UNCHANGED <<invoice, candidates>>
      BY <1>3 DEF Consider
    <3>3. ScoreAt(next) <= best_score /\ next \in Nat
      BY <1>0, <2>1, <2>5 DEF Better, IInv, TypeOK
    <3>4. CASE best = None
      <4>1. \A j \in 1 .. next : ScoreAt(j) = 0
        BY <2>1, <3>3, <3>4 DEF IInv, LoopInv
      <4>2. LoopInv'
        BY <3>1, <3>2, <3>3, <3>4, <4>1 DEF IInv, LoopInv, ScoreAt
      <4> QED
        BY <2>2, <4>2 DEF IInv
    <3>5. CASE best # None
      <4>1. \A j \in 1 .. next : ScoreAt(j) <= best_score
        BY <3>3, <3>5 DEF IInv, LoopInv
      <4>2. LoopInv'
        BY <3>1, <3>2, <3>3, <3>5, <4>1 DEF IInv, LoopInv, ScoreAt
      <4> QED
        BY <2>2, <4>2 DEF IInv
    <3> QED
      BY <3>4, <3>5
  <2> QED
    BY <2>4, <2>5
<1>4. CASE Decide
  <2>1. next = Len(candidates) + 1 /\ 1 \in DOMAIN candidates
    <3>1. candidates # <<>> /\ next > Len(candidates)
      BY <1>4 DEF Decide, IInv
    <3>2. Len(candidates) # 0
      BY <1>0, <3>1, CandidatesAssumption DEF IInv, TypeOK
    <3> QED
      BY <1>0, <3>1, <3>2 DEF IInv, TypeOK
  <2>2. (result = Match(invoice, candidates))'
    <3>1. CASE best = None
      <4>1. \A j \in DOMAIN candidates : ScoreAt(j) = 0
        BY <1>0, <2>1, <3>1 DEF IInv, LoopInv
      <4>2. Best(invoice, candidates) = 1
        BY <2>1, <4>1, BestIsUnique DEF IsFirstBest, ScoreAt, IInv, TypeOK
      <4> QED
        BY <1>4, <2>1, <3>1, <4>1, <4>2 DEF Decide, Match, ScoreAt, IInv, LoopInv
    <3>2. CASE best # None
      <4>1. /\ best \in DOMAIN candidates
            /\ best_score = ScoreAt(best)
            /\ best_score > 0
            /\ IsFirstBest(invoice, candidates, best)
        BY <1>0, <2>1, <3>2 DEF IInv, TypeOK, LoopInv, IsFirstBest, ScoreAt
      <4>2. Best(invoice, candidates) = best
        BY <4>1, BestIsUnique DEF IInv, TypeOK
      <4> QED
        BY <1>4, <3>2, <4>1, <4>2
           DEF Decide, BelowThreshold, Match, ScoreAt, IInv, TypeOK
    <3> QED
      BY <3>1, <3>2
  <2> QED
    BY <1>4, <2>2 DEF Decide, IInv, TypeOK, LoopInv, ScoreAt, ReturnsTheMatch
<1>5. CASE UNCHANGED vars
  BY <1>5 DEF vars, IInv, TypeOK, LoopInv, ScoreAt, ReturnsTheMatch
<1> QED
  BY <1>1, <1>2, <1>3, <1>4, <1>5 DEF Next

\* For lists of any length the loop returns what the port promises: the first
\* of the most similar candidates, or none if it is not similar enough.
THEOREM LoopComputesMatch == Spec => []ReturnsTheMatch
<1>1. IInv => ReturnsTheMatch
  BY DEF IInv
<1> QED
  BY <1>1, InitIInv, NextIInv, PTL DEF Spec

\* The variables have their types, in every state.
THEOREM MatcherTypes == Spec => []TypeOK
<1>1. IInv => TypeOK
  BY DEF IInv
<1> QED
  BY <1>1, InitIInv, NextIInv, PTL DEF Spec

\* The loop has seen every candidate when it decides, and the contract it
\* returns, if any, is the best of them.
DecidedInv ==
    pc = "decided" =>
        /\ next > Len(candidates)
        /\ IsMatched(result) \/ best = None \/ BelowThreshold

LEMMA DecidedStep == IInv /\ DecidedInv /\ [Next]_vars => DecidedInv'
<1> SUFFICES ASSUME IInv, DecidedInv, [Next]_vars PROVE DecidedInv'
  OBVIOUS
<1>1. CASE RaiseNoCandidates \/ Begin \/ Consider
  BY <1>1 DEF RaiseNoCandidates, Begin, Consider, DecidedInv
<1>2. CASE Decide
  <2>1. /\ next > Len(candidates) /\ UNCHANGED <<candidates, next, best, best_score>>
        /\ result' = IF best = None \/ BelowThreshold
                     THEN Unmatched(best_score)
                     ELSE Matched(candidates[best], best_score)
    BY <1>2 DEF Decide
  <2>2. CASE best = None \/ BelowThreshold
    BY <2>1, <2>2 DEF DecidedInv, BelowThreshold
  <2>3. CASE ~(best = None \/ BelowThreshold)
    <3>1. candidates[best].contract_id # None
      BY <2>3, CandidatesAssumption DEF IInv, TypeOK
    <3>2. IsMatched(result')
      BY <2>1, <2>3, <3>1 DEF Matched, IsMatched
    <3> QED
      BY <2>1, <3>2 DEF DecidedInv, IsMatched
  <2> QED
    BY <2>2, <2>3
<1>3. CASE UNCHANGED vars
  BY <1>3 DEF vars, DecidedInv, IsMatched, BelowThreshold
<1> QED
  BY <1>1, <1>2, <1>3 DEF Next

\* For lists of any length, no candidate that reaches the threshold is passed
\* over in favour of no contract at all.
THEOREM NonePassedOver == Spec => []UnmatchedOnlyIfAllBelow
<1>1. Init => DecidedInv
  BY DEF Init, DecidedInv
<1>2. IInv /\ DecidedInv => UnmatchedOnlyIfAllBelow
  <2> SUFFICES ASSUME IInv, DecidedInv, pc = "decided", ~IsMatched(result),
                      NEW k \in DOMAIN candidates
               PROVE  ScoreAt(k) < MatchAccept \/ ScoreAt(k) = 0
    BY DEF UnmatchedOnlyIfAllBelow, ScoreAt
  <2>1. k \in 1 .. next - 1 /\ ScoreAt(k) \in 0 .. One
    BY CandidatesAssumption, ScoreType DEF IInv, TypeOK, DecidedInv, ScoreAt
  <2>2. CASE best = None
    BY <2>1, <2>2 DEF IInv, LoopInv
  <2>3. CASE best # None /\ BelowThreshold
    <3>1. ScoreAt(k) <= best_score /\ best_score < MatchAccept
      BY <2>1, <2>3 DEF IInv, LoopInv, BelowThreshold
    <3> QED
      BY <2>1, <3>1, MatchAcceptAssumption, OneType DEF IInv, TypeOK
  <2> QED
    BY <2>2, <2>3 DEF DecidedInv
<1> QED
  BY <1>1, <1>2, InitIInv, NextIInv, DecidedStep, PTL DEF Spec
=============================================================================

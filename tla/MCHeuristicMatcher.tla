--------------------------- MODULE MCHeuristicMatcher ---------------------------
(***************************************************************************)
(* One invoice vendor against every list of up to four contracts, their    *)
(* vendors chosen for the scores 0, just below the threshold, the          *)
(* threshold, above it, a reordered name the library scores 1, and the     *)
(* same name in another spelling; two contracts of one vendor make ties.   *)
(***************************************************************************)
EXTENDS HeuristicMatcher, TLC

MCVendors == {"acme ltd", "Acme Ltd ", "ltd acme", "acme", "acne co", "axle", "zzz"}

MCLowered == "Acme Ltd " :> "acme ltd" @@ [v \in MCVendors |-> v]

MCSimilarTo == "Acme Ltd " :> 6000 @@ "acme ltd" :> 10000 @@ "ltd acme" :> 10000 @@
               "acme" :> 8000 @@ "acne co" :> 7500 @@ "axle" :> 7499 @@ "zzz" :> 0

MCRatio == [p \in MCVendors \X MCVendors |-> MCSimilarTo[p[2]]]

MCInvoices == {[vendor_name |-> "acme ltd"]}

MCContracts ==
    {[contract_id |-> 1, vendor_name |-> "ltd acme"],
     [contract_id |-> 2, vendor_name |-> "Acme Ltd "],
     [contract_id |-> 3, vendor_name |-> "acme"],
     [contract_id |-> 4, vendor_name |-> "acme"],
     [contract_id |-> 5, vendor_name |-> "acne co"],
     [contract_id |-> 6, vendor_name |-> "axle"],
     [contract_id |-> 7, vendor_name |-> "zzz"]}

MCCandidateLists == UNION {[1 .. n -> MCContracts] : n \in 0 .. 4}
=============================================================================

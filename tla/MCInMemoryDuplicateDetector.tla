---------------------- MODULE MCInMemoryDuplicateDetector ----------------------
(***************************************************************************)
(* Three threads, two vendors (one printed in two ways) and two invoice    *)
(* ids: the same invoice in two spellings, another invoice of that vendor, *)
(* and one of another vendor under the same id.                            *)
(***************************************************************************)
EXTENDS InMemoryDuplicateDetector, TLC

MCTexts == {"Acme", " ACME", "Bolt", "INV-1", "inv-1 ", "INV-2"}

MCFolded == " ACME" :> "Acme" @@ "inv-1 " :> "INV-1" @@ [t \in MCTexts |-> t]

Printed(vendor, id) == [vendor_name |-> vendor, invoice_id |-> id]

MCInvoices == {Printed("Acme", "INV-1"), Printed(" ACME", "inv-1 "),
               Printed("Acme", "INV-2"), Printed("Bolt", "INV-1")}
=============================================================================

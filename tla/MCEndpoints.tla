------------------------------ MODULE MCEndpoints ------------------------------
(***************************************************************************)
(* The invoices and contracts of MCPipeline as JSON, and as documents: one *)
(* that the layout tier reads, the same invoice scanned in another         *)
(* spelling, and one that only a model reads, which may print the vendor   *)
(* in two ways, the currency wrongly, a total that is not on the document, *)
(* or a figure that is no number.  Contract documents: in lower case, two  *)
(* of them, one that cannot be read.                                       *)
(***************************************************************************)
EXTENDS Endpoints, MCPipeline

MCCurrencyOrder == <<"INR", "USD">>

Row(total) == [line |-> 1, sku |-> "A", quantity |-> 1, unit_rate |-> 100,
               line_total |-> total, symbol |-> "INR"]

LineTable == [columns |-> RequiredColumns, rows |-> <<Row(100)>>]

NoLabels == [f \in RequiredHeader |-> None]
Labels(vendor, id) ==
    [invoice_id |-> id, vendor |-> vendor, date |-> 3, currency |-> "inr"]

Text(length, above, tables) ==
    [text |-> length, letterhead |-> "Acme", above |-> above, below |-> NoLabels,
     tables |-> tables, written |-> None,
     words |-> {"A", "INV-1", "inv-1"}, numbers |-> {100}]

Chaotic == Text(30, NoLabels, <<>>)

Digital == [decodes |-> TRUE, native |-> Text(30, Labels("Acme", "INV-1"), <<LineTable>>), ocr |-> None]
Scanned == [decodes |-> TRUE, native |-> Text(3, NoLabels, <<>>),
            ocr |-> Text(30, Labels("ACME ", "inv-1"), <<LineTable>>)]
Messy == [decodes |-> TRUE, native |-> Chaotic, ocr |-> None]

MCInvoiceDocuments == {Digital, Scanned, Messy}

Answer(vendor, currency, total) ==
    [invoice_id |-> "INV-1", vendor_name |-> vendor, invoice_date |-> 3,
     currency |-> currency, line_items |-> <<Row(total)>>]

MCAnswers == {None, Answer("Acme", "inr", 100), Answer("Acme Co", "inr", 100),
              Answer("Acme", "USD", 100), Answer("Acme", "inr", 101),
              Answer("Acme", "inr", Junk)}

ContractText(id, vendor, rate, currency) ==
    [text |-> 30, columns |-> ContractColumns,
     rows |-> <<[sku |-> "A", unit_rate |-> rate,
                 volume_discounts |-> {[min_quantity |-> 10, discount_pct |-> 10]}]>>,
     labels |-> <<[key |-> "contract-id", value |-> id], [key |-> "vendor", value |-> vendor],
                  [key |-> "valid-from", value |-> 1], [key |-> "valid-to", value |-> 5],
                  [key |-> "currency", value |-> currency]>>]

Paper(text) == [decodes |-> TRUE, native |-> text, ocr |-> None]
AcmePaper == Paper(ContractText("C1", "Acme", 100, "inr"))
AcmeCoPaper == Paper(ContractText("C4", "Acme Co", 100, "INR"))
UnpricedPaper == Paper(ContractText("C3", "Acme", Junk, "INR"))

MCContractLists == {<<AcmeCoPaper, AcmePaper>>, <<AcmePaper, UnpricedPaper>>}

MCSettings == {[enable_ocr |-> TRUE, enable_llm |-> TRUE],
               [enable_ocr |-> FALSE, enable_llm |-> FALSE]}

MCReadInvoices ==
    UNION {InvoicesIn(s, Parse(s.enable_ocr, d)) : s \in MCSettings, d \in MCInvoiceDocuments}

MCReadLists ==
    {cs \in {ContractsOf(s, docs) : s \in MCSettings, docs \in MCContractLists} : None \notin Range(cs)}

MCAllContracts == MCContracts \cup UNION {Range(cs) : cs \in MCReadLists}
MCAllLists == MCCandidateLists \cup MCReadLists

MCAllInvoices == MCInvoices \cup MCReadInvoices

\* Each of the four invoices with a list of contracts that tells it from the
\* others: the right one alone or behind a weaker one, none, only the weaker.
MCJsonRequests ==
    {<<Right, <<Acme>>>>, <<Right, <<>>>>, <<Resent, <<AcmeCo, Acme>>>>,
     <<Lookalike, <<AcmeCo, Acme>>>>, <<Lookalike, <<AcmeCo>>>>, <<Foreign, <<Acme>>>>}
=============================================================================

---------------------------- MODULE MCDocumentIntake ----------------------------
(***************************************************************************)
(* Invoice documents: one every tier can read, one whose fields stand      *)
(* below the table (only the layout tier reads it, with the vendor from    *)
(* the letterhead and the currency from the amounts), one without a        *)
(* recovered table, one only a model can read, one whose line is not       *)
(* numbered, scans with and without a short text layer, one without text,  *)
(* one that is not base64.                                                 *)
(***************************************************************************)
EXTENDS DocumentIntake, TLC

MCUpper == "INR" :> "INR" @@ "USD" :> "USD" @@ "inr" :> "INR"
MCCurrencyOrder == <<"INR", "USD">>

Row(line, total) == [line |-> line, sku |-> "A", quantity |-> 1, unit_rate |-> 10000,
                     line_total |-> total, symbol |-> "INR"]

Table(rows) == [columns |-> RequiredColumns, rows |-> rows]
Rates == [columns |-> {"sku", "qty", "unit_rate"}, rows |-> <<>>]
Totals == [columns |-> {"qty", "line_total"}, rows |-> <<Row(1, 10000)>>]

NoLabels == [f \in RequiredHeader |-> None]
Labels == [invoice_id |-> "INV-1", vendor |-> "Acme", date |-> 1, currency |-> "inr"]
IdAndDate == [Labels EXCEPT !["vendor"] = None, !["currency"] = None]

Text(above, below, tables, written) ==
    [text |-> 30, letterhead |-> "Acme", above |-> above, below |-> below,
     tables |-> tables, written |-> written,
     words |-> {"A", "INV-1"}, numbers |-> {100, 10000}]

Plain == Text(Labels, NoLabels, <<>>, Table(<<Row(1, 10000)>>))
Digital == [Plain EXCEPT !.tables = <<Totals, Table(<<Row(1, 10000)>>)>>]
Below == Text(NoLabels, IdAndDate, <<Table(<<Row(1, 10000)>>)>>,
              Table(<<Row(1, 10000), None, None>>))
Misread == [Plain EXCEPT !.written = Table(<<Row(1, 10000), Row(2, Junk)>>)]
Unnumbered == [Plain EXCEPT !.written = Table(<<Row(Junk, 10000)>>)]
Chaotic == [Plain EXCEPT !.written = None, !.tables = <<Rates>>]
Undated == [Digital EXCEPT !.above = [Labels EXCEPT !["date"] = Junk]]
Blank == [Text(NoLabels, NoLabels, <<>>, None) EXCEPT
             !.text = 0, !.letterhead = None, !.words = {}, !.numbers = {}]
Stamp == [Chaotic EXCEPT !.text = 5]
Blurred == [Chaotic EXCEPT !.text = 4]

Document(native, ocr) == [decodes |-> TRUE, native |-> native, ocr |-> ocr]
NotBase64 == [decodes |-> FALSE, native |-> None, ocr |-> None]

MCInvoiceDocuments ==
    {Document(Digital, None), Document(Below, Plain), Document(Plain, None), Document(Unnumbered, None),
     Document(Chaotic, None), Document(Undated, None), Document(None, Plain),
     Document(None, None), Document(Blank, Misread), Document(Stamp, Plain),
     Document(Stamp, Blurred), Document(Stamp, None), Document(Blank, Blank), NotBase64}

Answer(day, sku, total) ==
    [invoice_id |-> "INV-1", vendor_name |-> "Acme", invoice_date |-> day,
     currency |-> "inr",
     line_items |-> <<[line |-> 1, sku |-> sku, quantity |-> 1, unit_rate |-> 10000,
                       line_total |-> total]>>]

MCAnswers ==
    {None, Answer(1, "A", 10000), Answer(1, "A", 12000), Answer(1, "B", 10000),
     Answer(Junk, "A", 10000), Answer(1, "A", Junk),
     [Answer(1, "A", 10000) EXCEPT !.line_items = <<>>],
     [Answer(1, "A", 10000) EXCEPT !.line_items[1].line = Junk],
     [Answer(1, "A", Junk) EXCEPT !.line_items[1].line = Junk],
     [Answer(1, "A", 10000) EXCEPT !.invoice_id = "INV-9"]}

Rate(rate, discounts) == [sku |-> "A", unit_rate |-> rate, volume_discounts |-> discounts]

\* The label of a field a contract names twice stands last.
ContractText(id, from, currency, rows) ==
    [text |-> 30, columns |-> ContractColumns, rows |-> rows,
     labels |-> <<[key |-> "contract-id", value |-> "draft"],
                  [key |-> "contract-id", value |-> id], [key |-> "vendor", value |-> "Acme"],
                  [key |-> "valid-from", value |-> from], [key |-> "valid-to", value |-> 5],
                  [key |-> "currency", value |-> currency]>>]

First == Document(ContractText("C1", 1, "INR", <<Rate(10000, {})>>), None)
Second == Document(ContractText("C2", 1, "inr", <<Rate(9000, {})>>), None)
Scanned == Document(None, ContractText("C3", 1, "INR", <<Rate(8000, {})>>))
Reversed == Document(ContractText("C4", 6, "INR", <<Rate(10000, {})>>), None)
Unpriced == Document(ContractText("C5", 1, "INR", <<Rate(10000, {}), Rate(Junk, {})>>), None)
Unnamed == Document(ContractText(None, 1, "INR", <<Rate(10000, {})>>), None)
Garbled == Document(ContractText("C6", 1, "INR", <<Rate(10000, Junk)>>), None)

MCContractLists == {<<>>, <<First>>, <<First, Second>>, <<Second, Scanned>>,
                    <<First, Reversed>>, <<Unpriced, First>>, <<First, NotBase64>>,
                    <<Unnamed>>, <<Garbled>>}
=============================================================================

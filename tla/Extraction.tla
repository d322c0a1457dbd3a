------------------------------- MODULE Extraction -------------------------------
(***************************************************************************)
(* What the extractors make of a parsed document (adapters/extraction/):   *)
(* the layout-aware and the text tier for invoices, the check of an LLM's  *)
(* answer, the contract extractor.  Each returns None where the code       *)
(* raises its extraction error, and else the domain object the rules judge *)
(* (module Checks).                                                        *)
(*                                                                         *)
(* Of a parsed invoice the model keeps: the length of its text, its first  *)
(* line, the labelled fields above and below the table, the tables that    *)
(* were recovered, the table as it stands in the text, and the set of the  *)
(* words and that of the numbers printed.  Of a contract it keeps the      *)
(* labelled lines and the rate-card table.                                 *)
(***************************************************************************)
EXTENDS Currency, Sequences, FiniteSets, SequencesExt

CONSTANTS
    Junk,           \* text that is no number and no date
    CurrencyOrder   \* the currencies in the order detect_currency tries them

ASSUME CurrencyOrderAssumption == CurrencyOrder \in Seq(DOMAIN Upper)

RequiredColumns == {"line", "sku", "description", "qty", "unit_rate", "line_total"}

RequiredHeader == {"invoice_id", "vendor", "date", "currency"}

\* A row that is too short to hold every column is None.  A line number is
\* positive or Junk, what int() refuses.
FiguresParse(row) == Junk \notin {row.quantity, row.unit_rate, row.line_total}

RowParses(row) == row # None /\ row.line # Junk /\ FiguresParse(row)

\* A quantity and two amounts as numbers on paper, in one unit that suits both.
Numbers(quantity, unit_rate, line_total) ==
    {100 * Cent * quantity, Piece * unit_rate, Piece * line_total}

\* The parsers copy what they recover: a table's row and a labelled id hold words
\* and numbers of the document, a labelled currency is some code.
CopiedRow(row, doc) ==
    RowParses(row) =>
        /\ row.sku \in doc.words
        /\ Numbers(row.quantity, row.unit_rate, row.line_total) \subseteq doc.numbers

CopiedInvoice(doc) ==
    /\ \A fields \in {doc.above, doc.below} :
           /\ fields["invoice_id"] \in doc.words \cup {None}
           /\ fields["currency"] \in DOMAIN Upper \cup {None}
    /\ doc.tables \in Seq(Range(doc.tables))
    /\ \A table \in Range(doc.tables) \cup ({doc.written} \ {None}) :
           \A k \in DOMAIN table.rows : CopiedRow(table.rows[k], doc)

\* A line-item table is recognised by three of its column names.
IsTable(table) == Cardinality(table.columns \cap RequiredColumns) >= 3

Readable(table) ==
    /\ RequiredColumns \subseteq table.columns
    /\ table.rows # <<>>
    /\ \A k \in DOMAIN table.rows : RowParses(table.rows[k])

LineItem(row, currency) ==
    [line_no |-> row.line, sku |-> row.sku, quantity |-> row.quantity,
     unit_rate |-> Money(row.unit_rate, currency),
     line_total |-> Money(row.line_total, currency)]

InvoiceFrom(invoice_id, vendor, day, currency, rows) ==
    [invoice_id |-> invoice_id, vendor_name |-> vendor, invoice_date |-> day,
     currency |-> Upper[currency],
     line_items |-> [k \in DOMAIN rows |-> LineItem(rows[k], currency)]]

\* The first currency of the order whose symbol stands by an amount, or None.
Inferred(rows) ==
    LET symbols == {rows[k].symbol : k \in {j \in DOMAIN rows : rows[j] # None}}
        first == SelectInSeq(CurrencyOrder, LAMBDA c : c \in symbols)
    IN IF first = 0 THEN None ELSE CurrencyOrder[first]

\* The fields labelled anywhere in the text, the first label of a field first.
Labelled(doc) ==
    [f \in RequiredHeader |-> IF doc.above[f] # None THEN doc.above[f] ELSE doc.below[f]]

IsDate(day) == day \notin {None, Junk}

\* The tables recovered, the currency inferred and the first line taken for
\* the vendor where there is no label.
LayoutAware(doc) ==
    LET first == SelectInSeq(doc.tables, IsTable)
        table == doc.tables[first]
        header == Labelled(doc)
        currency == IF header["currency"] # None
                    THEN header["currency"] ELSE Inferred(table.rows)
        vendor == IF header["vendor"] # None THEN header["vendor"] ELSE doc.letterhead
    IN IF /\ first # 0
          /\ Readable(table)
          /\ None \notin {currency, vendor, header["invoice_id"]}
          /\ IsDate(header["date"])
       THEN InvoiceFrom(header["invoice_id"], vendor, header["date"], currency,
                        table.rows)
       ELSE None

\* The table in the text and the fields above it, every one of them labelled.
RuleBased(doc) ==
    LET header == doc.above IN
    IF /\ doc.written # None
       /\ IsTable(doc.written)
       /\ \A f \in RequiredHeader : header[f] # None
       /\ Readable(doc.written)
       /\ IsDate(header["date"])
    THEN InvoiceFrom(header["invoice_id"], header["vendor"], header["date"],
                     header["currency"], doc.written.rows)
    ELSE None
-----------------------------------------------------------------------------
\* A figure that is no number: Decimal raises InvalidOperation, which is no
\* ValueError and is not caught.  A line number that is none raises a
\* ValueError before the figures of its line are looked at.
Escapes(answer) ==
    answer # None /\ \E k \in DOMAIN answer.line_items :
        /\ ~FiguresParse(answer.line_items[k])
        /\ \A j \in 1 .. k : answer.line_items[j].line # Junk

Figures(line) == Numbers(line.quantity, line.unit_rate.amount, line.line_total.amount)

\* Slip: the totals are not looked up in the source.
VerifyAllButTotals(inv, doc) ==
    /\ inv.invoice_id \in doc.words
    /\ \A k \in DOMAIN inv.line_items :
           LET line == inv.line_items[k]
           IN line.sku \in doc.words
              /\ {100 * Cent * line.quantity, Piece * line.unit_rate.amount}
                      \subseteq doc.numbers

\* The figures, the SKUs and the invoice id stand in the source; the vendor,
\* the date and the currency are not looked up.
VerifyGrounded(inv, doc) ==
    /\ inv.invoice_id \in doc.words
    /\ \A k \in DOMAIN inv.line_items :
           /\ inv.line_items[k].sku \in doc.words
           /\ Figures(inv.line_items[k]) \subseteq doc.numbers

\* The invoice built from an answer, None when it is no invoice (no JSON
\* object, a missing key, an invalid line number or date) or not grounded.
FromAnswer(answer, doc) ==
    LET inv == InvoiceFrom(answer.invoice_id, answer.vendor_name, answer.invoice_date,
                           answer.currency, answer.line_items)
    IN IF /\ answer # None
          /\ \A k \in DOMAIN answer.line_items : answer.line_items[k].line # Junk
          /\ IsDate(answer.invoice_date)
          /\ VerifyGrounded(inv, doc)
       THEN inv
       ELSE None
-----------------------------------------------------------------------------
ContractKeys == {"contract-id", "vendor", "valid-from", "valid-to", "currency"}

ContractColumns == {"sku", "description", "unit-rate"}

\* The field a contract's header gives a key: that of the last line so
\* labelled, None without one.
Field(doc, key) ==
    LET last == SelectLastInSeq(doc.labels, LAMBDA line : line.key = key)
    IN IF last = 0 THEN None ELSE doc.labels[last].value

CopiedContract(doc) ==
    /\ doc.labels \in Seq(Range(doc.labels))
    /\ \A line \in Range(doc.labels) : line.key = "currency" => line.value \in DOMAIN Upper

\* A row with its cells, a number for a rate and a number on each side of the
\* colon of every discount.
RateCardParses(row) ==
    row # None /\ row.unit_rate # Junk /\ row.volume_discounts # Junk

RateCardEntry(row, currency) ==
    [sku |-> row.sku, unit_rate |-> Money(row.unit_rate, currency),
     volume_discounts |-> row.volume_discounts]

ReadableContract(doc) ==
    /\ \A key \in ContractKeys : Field(doc, key) # None
    /\ ContractColumns \subseteq doc.columns
    /\ doc.rows # <<>>
    /\ \A k \in DOMAIN doc.rows : RateCardParses(doc.rows[k])
    /\ IsDate(Field(doc, "valid-from")) /\ IsDate(Field(doc, "valid-to"))
    /\ Field(doc, "valid-from") <= Field(doc, "valid-to")

ContractIn(doc, currency) ==
    [contract_id |-> Field(doc, "contract-id"), vendor_name |-> Field(doc, "vendor"),
     valid_from |-> Field(doc, "valid-from"), valid_to |-> Field(doc, "valid-to"),
     currency |-> currency,
     rate_cards |-> [k \in DOMAIN doc.rows |-> RateCardEntry(doc.rows[k], currency)]]

\* Slip: the currency keeps the case it is printed in.
ContractAsPrinted(doc) ==
    IF ReadableContract(doc) THEN ContractIn(doc, Field(doc, "currency")) ELSE None

\* The contract in a parsed contract document: header fields, a rate-card
\* table with its three columns and a row, a term that does not end before it
\* starts.
ContractFrom(doc) ==
    IF ReadableContract(doc) THEN ContractIn(doc, Upper[Field(doc, "currency")]) ELSE None
=============================================================================

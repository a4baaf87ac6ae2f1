----------------------------- MODULE ImportFile -----------------------------
(***************************************************************************)
(* The rows of an imported product sheet (ProductsImportService.parseCsv   *)
(* and csvRecords). A text is a sequence of characters, a sheet a sequence *)
(* of records below its header, a record a sequence of fields.             *)
(*                                                                         *)
(*   sheet    what the spreadsheet held                                    *)
(*   ending   whether its last record was saved with a line end            *)
(*   rows     what the import reads of it                                  *)
(***************************************************************************)
EXTENDS Naturals, Sequences, SequencesExt

CONSTANTS Sheet, Character, Comma, Quote, Newline, Return, Unread

ASSUME MarkAssumption ==
    \A x, y \in 1..4 : <<Comma, Quote, Newline, Return>>[x] = <<Comma, Quote, Newline, Return>>[y]
                       => x = y

(* No character but the line ends is blank. A record has at least a cell.  *)
ASSUME SheetAssumption ==
    /\ {Comma, Quote, Newline, Return} \subseteq Character
    /\ Sheet \subseteq Seq(Seq(Seq(Character)) \ {<<>>})

VARIABLES sheet, ending, rows

importVars == <<sheet, ending, rows>>

-----------------------------------------------------------------------------
(* The reader. A state is what csvRecords holds between two characters; a  *)
(* quote inside quotes is "doubt" until the next character tells whether   *)
(* it stands for itself or ends them.                                      *)

Fresh == [rows |-> <<>>, row |-> <<>>, field |-> <<>>, mode |-> "plain"]

Trimmed(field) == IF field # <<>> /\ Last(field) = Return THEN Front(field) ELSE field

EndField(s) == [s EXCEPT !.row = Append(@, s.field), !.field = <<>>]

EndRow(s) == [s EXCEPT !.rows = Append(@, Append(s.row, Trimmed(s.field))),
                       !.row = <<>>, !.field = <<>>]

Plain(s, char) ==
    CASE char = Quote /\ s.field = <<>> -> [s EXCEPT !.mode = "quoted"]
      [] char = Comma -> EndField(s)
      [] char = Newline -> EndRow(s)
      [] OTHER -> [s EXCEPT !.field = Append(@, char)]

(* A reader for which every quote ends the cell.                           *)
TakeSingle(s, char) ==
    IF s.mode = "plain" THEN Plain(s, char)
    ELSE IF char = Quote THEN [s EXCEPT !.mode = "plain"] ELSE [s EXCEPT !.field = Append(@, char)]

Take(s, char) ==
    CASE s.mode = "plain" -> Plain(s, char)
      [] s.mode = "quoted" -> IF char = Quote THEN [s EXCEPT !.mode = "doubt"]
                              ELSE [s EXCEPT !.field = Append(@, char)]
      [] s.mode = "doubt" -> IF char = Quote
                             THEN [s EXCEPT !.mode = "quoted", !.field = Append(@, Quote)]
                             ELSE Plain([s EXCEPT !.mode = "plain"], char)

(* An unterminated quote is an error, here no record at all.               *)
CsvRecords(text) ==
    LET s == FoldLeft(Take, Fresh, text)
    IN  IF s.mode = "quoted" THEN <<>>
        ELSE IF s.field # <<>> \/ s.row # <<>> THEN EndRow(s).rows ELSE s.rows

(* trim() takes line ends for blanks.                                      *)
Blank(field) == \A i \in DOMAIN field : field[i] \in {Newline, Return}

Contentful(record) == \E i \in DOMAIN record : ~Blank(record[i])

Concat(texts) == FoldLeft(LAMBDA text, more : text \o more, <<>>, texts)

Filled(records) ==
    Concat([i \in DOMAIN records |-> IF Contentful(records[i]) THEN <<records[i]>> ELSE <<>>])

(* The records under the header; those without content are skipped.        *)
ParseCsv(text) == Filled(CsvRecords(text))

-----------------------------------------------------------------------------
(* How a spreadsheet program saves a sheet, and the import of the file.    *)

Doubled(field) ==
    Concat([i \in DOMAIN field |-> IF field[i] = Quote THEN <<Quote, Quote>> ELSE <<field[i]>>])

Saved(field) ==
    IF \E i \in DOMAIN field : field[i] \in {Comma, Quote, Newline, Return}
    THEN <<Quote>> \o Doubled(field) \o <<Quote>> ELSE field

Joined(texts, mark) ==
    Concat([i \in DOMAIN texts |-> IF i = 1 THEN texts[i] ELSE <<mark>> \o texts[i]])

Line(record) == Joined([i \in DOMAIN record |-> Saved(record[i])], Comma)

Text == Joined([i \in DOMAIN sheet |-> Line(sheet[i])], Newline)
        \o IF ending THEN <<Newline>> ELSE <<>>

ImportInit == sheet \in Sheet /\ ending \in BOOLEAN /\ rows = Unread

Import == rows = Unread /\ rows' = ParseCsv(Text) /\ UNCHANGED <<sheet, ending>>

ImportSpec == ImportInit /\ [][Import]_importVars

-----------------------------------------------------------------------------
(* Properties.                                                             *)

(* A sheet reads back as it was saved, whatever commas, quotes and line    *)
(* ends its cells hold and whether or not its last line is ended, except   *)
(* for a carriage return that ends the last cell of a record, which is     *)
(* taken for half of a line end also inside quotes.                        *)
SheetReadsBack ==
    rows # Unread =>
        \/ rows = Filled(sheet)
        \/ \E i \in DOMAIN sheet : Trimmed(Last(sheet[i])) # Last(sheet[i])

=============================================================================

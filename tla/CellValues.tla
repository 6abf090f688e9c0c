------------------------------ MODULE CellValues ------------------------------
(***************************************************************************)
(* What a cell of a result becomes: the server sends text, or nothing for  *)
(* NULL; map_field_type and the typed getters (lib/src/seekdb.c) and       *)
(* Cursor::get_value (python/src/bindings.cpp) make a Python object of it. *)
(*                                                                         *)
(* A text is a record of what it says; `wide` tells that it has more       *)
(* characters than the buffer of a numeric getter (ZEROFILL pads to 255).  *)
(***************************************************************************)
EXTENDS Integers

CONSTANTS
  Bits,        \* of an integer (64 in the code)
  MicroDigits  \* digits of a full fraction of a second (6 in the code)

ASSUME WidthsAssumption == Bits \in Nat \ {0} /\ MicroDigits \in Nat \ {0}

IntegerTypes == {"TINY", "SHORT", "LONG", "LONGLONG", "INT24", "YEAR"}
TextTypes == {"VARCHAR", "VAR_STRING", "STRING", "BLOB", "JSON", "TIME", "BIT"}
FieldTypes == IntegerTypes \cup TextTypes \cup
  {"FLOAT", "DOUBLE", "DECIMAL", "NEWDECIMAL", "DATE", "DATETIME", "TIMESTAMP", "NULL"}
Fields == [type : FieldTypes, unsigned : BOOLEAN]

int64_t == -(2 ^ (Bits - 1)) .. 2 ^ (Bits - 1) - 1
uint64_t == 0 .. 2 ^ Bits - 1

-----------------------------------------------------------------------------
(* The server's side: the texts it sends for a field.  An integer is a      *)
(* number, a time of day is a class and the number after the point.         *)

Texts(kind, classes, numbers, digits, wide) ==
  [kind : {kind}, class : classes, number : numbers, digits : digits, wide : wide]
Says(kind, classes) == Texts(kind, classes, {0}, {0}, {FALSE})
Counts(numbers) == Texts("integer", {"number"}, numbers, {0}, BOOLEAN)
Moments == {t \in Texts("time", {"day", "zero"}, 0 .. 10 ^ MicroDigits - 1, 0..MicroDigits,
                        {FALSE}) : t.number < 10 ^ t.digits}

Sent(f) ==
  Says("null", {"null"}) \cup
  CASE f.type \in IntegerTypes -> Counts(IF f.unsigned THEN uint64_t ELSE int64_t)
    [] f.type \in {"FLOAT", "DOUBLE"} ->
         Texts("real", {"zero", "normal", "subnormal"}, {0}, {0}, BOOLEAN)
    [] f.type \in {"DECIMAL", "NEWDECIMAL"} -> Says("decimal", {"exact"})
    [] f.type = "DATE" -> Says("date", {"day", "zero"})
    [] f.type \in {"DATETIME", "TIMESTAMP"} -> Moments
    [] f.type = "NULL" -> {}
    [] OTHER -> Says("text", {"utf8", "binary"})

-----------------------------------------------------------------------------
(* libseekdb                                                               *)

map_field_type_Signed(f) ==
  CASE f.type \in IntegerTypes -> "INT64"
    [] f.type \in {"FLOAT", "DOUBLE"} -> "FLOAT"
    [] f.type \in {"DECIMAL", "NEWDECIMAL"} -> "DECIMAL"
    [] f.type \in {"DATE", "DATETIME", "TIMESTAMP", "NULL"} -> f.type
    [] OTHER -> "VARCHAR"

map_field_type(f) ==
  CASE f.type \in IntegerTypes -> IF f.unsigned THEN "UINT64" ELSE "INT64"
    [] f.type \in {"FLOAT", "DOUBLE"} -> "FLOAT"
    [] f.type \in {"DECIMAL", "NEWDECIMAL"} -> "DECIMAL"
    [] f.type \in {"DATE", "DATETIME", "TIMESTAMP", "NULL"} -> f.type
    [] OTHER -> "VARCHAR"

Error == [rc |-> "INTERNAL_ERROR", class |-> "", number |-> 0]
Value(class, number) == [rc |-> "SUCCESS", class |-> class, number |-> number]

\* build_row asks for the columns of the current row only: the guards on the index and on
\* the row do not matter here. The getters answer zero for NULL and refuse a text that their buffer cannot hold;
\* strtoll refuses what an int64_t cannot hold, strtoull takes a small enough negative
\* number modulo 2^Bits, and strtod may refuse a subnormal one.
get_int64(cell) ==
  IF cell.kind = "null" THEN Value("number", 0)
  ELSE IF cell.wide \/ cell.number \notin int64_t THEN Error
  ELSE Value("number", cell.number)

get_uint64(cell) ==
  IF cell.kind = "null" THEN Value("number", 0)
  ELSE IF cell.wide \/ cell.number >= 2 ^ Bits \/ -cell.number >= 2 ^ Bits THEN Error
  ELSE Value("number", cell.number % 2 ^ Bits)

get_float(cell) ==
  IF cell.kind = "null" THEN {Value("zero", 0)}
  ELSE IF cell.wide THEN {Error}
  ELSE {Value(cell.class, 0)} \cup (IF cell.class = "subnormal" THEN {Error} ELSE {})

get_str(cell) == [is_null |-> cell.kind = "null", data |-> cell]

-----------------------------------------------------------------------------
(* Cursor::get_value                                                       *)

Object(py, class, number) == [py |-> py, class |-> class, number |-> number]
None == Object("None", "", 0)
Raised == Object("exception", "", 0)
Checked(py, result) ==
  IF result = Error THEN Raised ELSE Object(py, result.class, result.number)

date(text) == IF text.class = "zero" THEN Raised ELSE Object("date", text.class, 0)

\* datetime takes what follows the point as a count of microseconds, whatever its digits.
datetime(text) ==
  IF text.class = "zero" THEN Raised ELSE Object("datetime", text.class, text.number)

str(text) == IF text.class = "binary" THEN Raised ELSE Object("str", text.class, 0)

get_value_Unprobed(f, cell) ==
  LET t == map_field_type(f) IN
  CASE t = "NULL" -> {None}
    [] t = "INT64" -> {Checked("int", get_int64(cell))}
    [] t = "UINT64" -> {Checked("int", get_uint64(cell))}
    [] t = "FLOAT" -> {Checked("float", r) : r \in get_float(cell)}
    [] OTHER -> {None}

\* The typed getters would answer zero for NULL: the text is asked for first.
get_value(f, cell) ==
  LET t == map_field_type(f)
      probe == get_str(cell) IN
  IF probe.is_null THEN {None}
  ELSE CASE t = "NULL" -> {None}
         [] t = "INT64" -> {Checked("int", get_int64(cell))}
         [] t = "UINT64" -> {Checked("int", get_uint64(cell))}
         [] t = "FLOAT" -> {Checked("float", r) : r \in get_float(cell)}
         [] t = "DECIMAL" -> {Object("Decimal", probe.data.class, 0)}
         [] t = "DATE" -> {date(probe.data)}
         [] t \in {"DATETIME", "TIMESTAMP"} -> {datetime(probe.data)}
         [] t = "VARCHAR" -> {str(probe.data)}

-----------------------------------------------------------------------------
(* The reference: what the cell says.                                      *)

Class == [integer |-> "int", real |-> "float", decimal |-> "Decimal", date |-> "date",
          time |-> "datetime", text |-> "str"]

Meaning(cell) ==
  IF cell.kind = "null" THEN None
  ELSE Object(Class[cell.kind], cell.class,
              cell.number * (IF cell.kind = "time" THEN 10 ^ (MicroDigits - cell.digits) ELSE 1))

\* Cells without a Python object: padded numbers, what strtod calls out of range, dates
\* that do not exist and bytes that are no UTF-8.
Unrepresentable(cell) ==
  \/ cell.wide \/ cell.class \in {"subnormal", "binary"}
  \/ cell.class = "zero" /\ cell.kind \in {"date", "time"}

\* A fraction of a second that was declared shorter than microseconds.
ShortFraction(cell) ==
  cell.kind = "time" /\ cell.class = "day" /\ cell.number # 0 /\ cell.digits < MicroDigits

\* A cell becomes the Python object of the value it says, or raises if there is none: NULL
\* is None and never a zero, and no integer of the full signed or unsigned range is
\* wrapped, clamped or refused (map_field_type, get_int64, get_uint64, get_value).  Short
\* fractions are the exception: see the README.
CellsFaithful ==
  \A f \in Fields : \A cell \in Sent(f) :
    \/ get_value(f, cell) = {Meaning(cell)}
    \/ Unrepresentable(cell) /\ get_value(f, cell) \subseteq {Meaning(cell), Raised}
    \/ ShortFraction(cell)
=============================================================================

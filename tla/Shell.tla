--------------------------------- MODULE Shell ---------------------------------
(***************************************************************************)
(* The command line client (lib/src/seekdb_cli.c): lines are read into a   *)
(* buffer of fixed size and collected until one ends with a semicolon.     *)
(* The text is over two letters, a space, the semicolon and the newline,   *)
(* and the two letters one after the other stand for quit: a buffer may be *)
(* full inside any word, that one included.                                *)
(***************************************************************************)
EXTENDS Integers, Sequences, SequencesExt

CONSTANTS
  BufSize,   \* of read_line (4096 in the code), with the terminator
  MaxTyped   \* bound: characters of the input

Characters == {"q", "t", " ", ";", "\n"}
Quit == <<"q", "t">>

VARIABLES
  typed,     \* the whole input
  read,      \* how many of its characters were read
  query,     \* the statement collected so far
  executed,  \* history: the statements given to seekdb_query
  pc,        \* "prompt", "quit" or "eof"
  cuts       \* history: where the buffer was full before the line ended

vars == <<typed, read, query, executed, pc, cuts>>

Init ==
  /\ typed \in BoundedSeq(Characters, MaxTyped)
  /\ read = 0 /\ query = <<>> /\ executed = <<>> /\ pc = "prompt" /\ cuts = {}

IsSpace(c) == c \in {" ", "\n"}
Blank(line) == \A i \in 1..Len(line) : IsSpace(line[i])

\* fgets: up to a newline, the end or the size of the buffer; a newline at the end is
\* stripped.
LineEnd == CHOOSE n \in 1 .. Len(typed) - read :
             /\ \/ typed[read + n] = "\n" \/ read + n = Len(typed) \/ n = BufSize - 1
             /\ \A i \in 1 .. n - 1 : typed[read + i] # "\n"
             /\ n <= BufSize - 1

read_line ==
  LET line == SubSeq(typed, read + 1, read + LineEnd)
  IN  IF Last(line) = "\n" THEN Front(line) ELSE line

is_quit(line) ==
  \E n \in 0 .. Len(line) - 2 :
    Blank(SubSeq(line, 1, n)) /\ SubSeq(line, n + 1, n + 2) = Quit

buf_append_NoSpace(line) == query \o line
buf_append(line) == IF query = <<>> THEN line ELSE query \o <<" ">> \o line

\* The query without what follows its last word or semicolon.
Trimmed(s) ==
  SubSeq(s, 1, CHOOSE n \in 0..Len(s) : /\ n = 0 \/ ~IsSpace(s[n])
                                        /\ \A i \in n + 1 .. Len(s) : IsSpace(s[i]))

Collect(line) ==
  LET whole == Trimmed(buf_append(line)) IN
  IF Last(whole) = ";"
  THEN executed' = Append(executed, Front(whole)) /\ query' = <<>>
  ELSE query' = buf_append(line) /\ UNCHANGED executed

\* A line: skipped when it is blank, the end when it says so between two statements.
Line ==
  /\ pc = "prompt" /\ read < Len(typed)
  /\ read' = read + LineEnd
  /\ cuts' = cuts \cup {n \in {read + LineEnd} : n # Len(typed) /\ typed[n] # "\n"}
  /\ LET line == read_line IN
     IF Blank(line) THEN UNCHANGED <<query, executed, pc>>
     ELSE IF query = <<>> /\ is_quit(line) THEN pc' = "quit" /\ UNCHANGED <<query, executed>>
     ELSE Collect(line) /\ UNCHANGED pc
  /\ UNCHANGED typed

EndOfInput ==
  /\ pc = "prompt" /\ read = Len(typed)
  /\ pc' = "eof"
  /\ UNCHANGED <<typed, read, query, executed, cuts>>

Next == Line \/ EndOfInput

Spec == Init /\ [][Next]_vars

-----------------------------------------------------------------------------
\* What a text says: its characters that are not space, each with whether it begins a
\* word, behind space or at a place of breaks.
Letter(s, n, breaks) ==
  <<s[n], IF n = 1 \/ IsSpace(s[n - 1]) \/ n - 1 \in breaks THEN "begins" ELSE "goes on">>
Words(s, breaks) ==
  LET words[n \in 0..Len(s)] ==
        IF n = 0 THEN <<>>
        ELSE IF IsSpace(s[n]) THEN words[n - 1]
        ELSE Append(words[n - 1], Letter(s, n, breaks))
  IN  words[Len(s)]

\* The statements given to seekdb_query, and the one collected behind them.
Given == FlattenSeq([i \in 1..Len(executed) |-> executed[i] \o <<";", " ">>]) \o query

\* What was typed is executed or still collected, in order and once: only the line that
\* ends the session is not.  No two words become one, and a word, or a string, is broken
\* in two only where a full buffer cut its line, which is nowhere but behind BufSize - 1
\* characters of one line.  How much space stands between two words is not compared, and
\* what one line holds may be several statements: the code sends them as one.
TypedIsExecuted ==
  LET seen  == Words(SubSeq(typed, 1, read), cuts)
      given == Words(Given, {})
  IN  /\ IF pc = "quit" THEN IsPrefix(given, seen) /\ query = <<>> ELSE given = seen
      /\ \A n \in cuts : \A i \in n - (BufSize - 2) .. n :
           i \in 1..Len(typed) /\ typed[i] # "\n" /\ (i # n => i \notin cuts)

\* The comment of read_line: "Lines longer than 4 KiB are truncated".  Then nothing that
\* follows the buffer's size in its line reaches a statement.
LineStart(i) == CHOOSE n \in 0 .. i - 1 : /\ n = 0 \/ typed[n] = "\n"
                                          /\ \A j \in n + 1 .. i - 1 : typed[j] # "\n"
Within == [i \in 1..Len(typed) |->
             IF i <= read /\ i - LineStart(i) < BufSize THEN typed[i] ELSE " "]
LongLinesTruncated == pc # "quit" => Words(Given, {}) = Words(Within, {})
=============================================================================

---------------------------- MODULE DriverConnection ----------------------------
(***************************************************************************)
(* Connections, statements and results: seekdb_connect, seekdb_query and   *)
(* seekdb_result_next (lib/src/seekdb.c) under the Connection and Cursor   *)
(* objects of Python (python/src/bindings.cpp).  A connection is used by   *)
(* one thread at a time, so a call of a Python method is one step; calls   *)
(* on the cursors of a connection come in any order.                       *)
(***************************************************************************)
EXTENDS Integers, Sequences

CONSTANTS
  Connections,   \* Connection objects, reused when they are gone
  Cursors,       \* Cursor objects, reused likewise
  Results,       \* addresses of results, reused too; one per cursor is enough
  Null,
  MaxRows        \* bound: rows of a statement

NoSet == -1   \* an INSERT or a DDL statement: mysql_res is NULL

\* A result: the connection it points at, its rows and how many of them were read.
SeekdbResultImpl == [conn : Connections, rows : {NoSet} \cup 0..MaxRows, pos : 0..MaxRows]

ASSUME RowsAssumption == MaxRows \in Nat
ASSUME NullAssumption == Null \notin Connections \cup Results \cup SeekdbResultImpl

VARIABLES
  named,     \* the application holds the Connection
  c_,        \* the Connection has a SeekdbConnection
  allocated, \* ... which is allocated
  asked,     \* the autocommit mode asked for
  session,   \* the server's side: "none", "lost", or its autocommit mode
  errno,     \* does mysql_errno tell of a failure?
  conn_,     \* the Connection a cursor shares, or Null when there is no cursor
  result_,   \* the cursor's SeekdbResult, or Null
  heap,      \* the allocated results, Null at addresses without one
  fetched,   \* history: the rows a cursor gave since its last execute
  missed,    \* history: a conversion raised since then
  answer     \* history: what seekdb_result_next last answered the cursor

connection == <<named, c_, allocated, asked, session>>
history == <<fetched, missed, answer>>
vars == <<connection, errno, conn_, result_, heap, history>>

live == {r \in Results : heap[r] # Null}
Modes == {"auto", "manual"}

Init ==
  /\ named = [c \in Connections |-> FALSE]
  /\ c_ = [c \in Connections |-> FALSE]
  /\ allocated = [c \in Connections |-> FALSE]
  /\ asked = [c \in Connections |-> "auto"]
  /\ session = [c \in Connections |-> "none"]
  /\ errno = [c \in Connections |-> FALSE]
  /\ conn_ = [k \in Cursors |-> Null]
  /\ result_ = [k \in Cursors |-> Null]
  /\ heap = [r \in Results |-> Null]
  /\ fetched = [k \in Cursors |-> <<>>]
  /\ missed = [k \in Cursors |-> FALSE]
  /\ answer = [k \in Cursors |-> "none"]

\* The Connection object exists while the application or a cursor shares it.
Shared(c) == named[c] \/ \E k \in Cursors : conn_[k] = c

-----------------------------------------------------------------------------
(* Connecting                                                              *)

\* The outcomes of seekdb_connect: out_connection is set unless an allocation failed,
\* also when the server or SET autocommit=0 answered with an error.
NoMemory == [rc |-> "INTERNAL_ERROR", out |-> FALSE, session |-> "none"]
Unreachable == [rc |-> "INTERNAL_ERROR", out |-> TRUE, session |-> "none"]
Opened(mode) == [rc |-> "SUCCESS", out |-> TRUE, session |-> mode]

SetFails == [rc |-> "INTERNAL_ERROR", out |-> TRUE, session |-> "auto"]

seekdb_connect(mode) ==
  {NoMemory, Unreachable, Opened(mode)} \cup (IF mode = "manual" THEN {SetFails} ELSE {})

StillAllocated_Always(outcome) == outcome.out

\* connect closes a connection that came with an error, after reading its message.
StillAllocated(outcome) == outcome.out /\ outcome.rc = "SUCCESS"

Connect(c) ==
  /\ ~Shared(c) /\ \A r \in live : heap[r].conn # c
  /\ \E mode \in Modes : \E outcome \in seekdb_connect(mode) :
       LET ok == outcome.rc = "SUCCESS" IN
       /\ named' = [named EXCEPT ![c] = ok]
       /\ c_' = [c_ EXCEPT ![c] = ok]
       /\ allocated' = [allocated EXCEPT ![c] = StillAllocated(outcome)]
       /\ asked' = [asked EXCEPT ![c] = mode]
       /\ session' = [session EXCEPT ![c] = IF ok THEN outcome.session ELSE "none"]
  /\ UNCHANGED <<errno, conn_, result_, heap, history>>

-----------------------------------------------------------------------------
(* Closing: Connection::reset, by the application or by the last owner.     *)

Reset(c) ==
  /\ c_' = [c_ EXCEPT ![c] = FALSE]
  /\ allocated' = [allocated EXCEPT ![c] = IF c_[c] THEN FALSE ELSE @]   \* seekdb_disconnect
  /\ session' = [session EXCEPT ![c] = IF c_[c] THEN "none" ELSE @]
  /\ errno' = [errno EXCEPT ![c] = IF c_[c] THEN FALSE ELSE @]

Close(c) ==
  /\ named[c]
  /\ Reset(c)
  /\ UNCHANGED <<named, asked, conn_, result_, heap, history>>

Drop_IgnoresCursors(c) ==
  /\ named[c]
  /\ named' = [named EXCEPT ![c] = FALSE]
  /\ Reset(c)
  /\ UNCHANGED <<asked, conn_, result_, heap, history>>

\* The application forgets the Connection; a cursor may still share it.
Drop(c) ==
  /\ named[c]
  /\ named' = [named EXCEPT ![c] = FALSE]
  /\ IF \E k \in Cursors : conn_[k] = c
     THEN UNCHANGED <<c_, allocated, session, errno>>
     ELSE Reset(c)
  /\ UNCHANGED <<asked, conn_, result_, heap, history>>

cursor(c, k) ==
  /\ named[c]
  /\ conn_[k] = Null
  /\ conn_' = [conn_ EXCEPT ![k] = c]
  /\ UNCHANGED <<connection, errno, result_, heap, history>>

\* free_result, and the history of the cursor that goes with the result.
Freed(k) == [r \in Results |-> IF r = result_[k] THEN Null ELSE heap[r]]

Forget(k) ==
  /\ fetched' = [fetched EXCEPT ![k] = <<>>]
  /\ missed' = [missed EXCEPT ![k] = FALSE]
  /\ answer' = [answer EXCEPT ![k] = "none"]

CursorClose(k) ==
  /\ conn_[k] # Null
  /\ result_' = [result_ EXCEPT ![k] = Null]
  /\ heap' = Freed(k)
  /\ Forget(k)
  /\ UNCHANGED <<connection, errno, conn_>>

\* ~Cursor: the result first, then its share of the Connection.
CursorDrop(k) ==
  /\ conn_[k] # Null
  /\ result_' = [result_ EXCEPT ![k] = Null]
  /\ heap' = Freed(k)
  /\ conn_' = [conn_ EXCEPT ![k] = Null]
  /\ LET c == conn_[k] IN
     IF named[c] \/ \E other \in Cursors \ {k} : conn_[other] = c
     THEN UNCHANGED <<c_, allocated, session, errno>>
     ELSE Reset(c)
  /\ Forget(k)
  /\ UNCHANGED <<named, asked>>

-----------------------------------------------------------------------------
(* Statements                                                              *)

Usable(c) == session[c] \in Modes

\* mysql_real_query clears or sets the error of the connection.
run_simple(c) ==
  /\ named[c] /\ c_[c]
  /\ \E failure \in BOOLEAN :
       /\ ~Usable(c) => failure
       /\ errno' = [errno EXCEPT ![c] = failure]
  /\ UNCHANGED <<connection, conn_, result_, heap, history>>

\* seekdb_query without a result: the statement or reading its rows failed, or, with no
\* error on the connection, the result object could not be allocated.
QueryFails(k) ==
  /\ conn_[k] # Null /\ c_[conn_[k]]
  /\ \E failure \in BOOLEAN :
       /\ ~Usable(conn_[k]) => failure
       /\ errno' = [errno EXCEPT ![conn_[k]] = failure]
  /\ result_' = [result_ EXCEPT ![k] = Null]
  /\ heap' = Freed(k)
  /\ Forget(k)
  /\ UNCHANGED <<connection, conn_>>

\* execute frees the cursor's result, and seekdb_query stores the new one.
Query(k) ==
  /\ conn_[k] # Null /\ c_[conn_[k]] /\ Usable(conn_[k])
  /\ \E n \in {NoSet} \cup 0..MaxRows, r \in Results :
       /\ Freed(k)[r] = Null
       /\ result_' = [result_ EXCEPT ![k] = r]
       /\ heap' = [Freed(k) EXCEPT ![r] = [conn |-> conn_[k], rows |-> n, pos |-> 0]]
  /\ errno' = [errno EXCEPT ![conn_[k]] = FALSE]
  /\ Forget(k)
  /\ UNCHANGED <<connection, conn_>>

-----------------------------------------------------------------------------
(* Rows                                                                    *)

\* seekdb_result_next when mysql_fetch_row has no row: mysql_errno decides, and of a
\* connection that is gone it may say anything.
EndAnswers(res) ==
  IF res.rows = NoSet THEN {"INTERNAL_ERROR"}
  ELSE IF ~allocated[res.conn] THEN {"NO_MORE_ROWS", "INTERNAL_ERROR"}
  ELSE IF errno[res.conn] THEN {"INTERNAL_ERROR"} ELSE {"NO_MORE_ROWS"}

NextAnswers_ErrnoFirst(res) ==
  IF ~errno[res.conn] /\ res.pos < res.rows THEN {"SUCCESS"} ELSE EndAnswers(res)

\* The rows are stored on the client: a row is there whatever became of the connection.
NextAnswers(res) == IF res.pos < res.rows THEN {"SUCCESS"} ELSE EndAnswers(res)

\* fetchone: a row whose conversion raises is spent.
fetchone(k) ==
  /\ result_[k] # Null
  /\ LET r == result_[k] IN
     \E code \in NextAnswers(heap[r]) :
       /\ answer' = [answer EXCEPT ![k] = code]
       /\ \/ /\ code = "SUCCESS"
             /\ heap' = [heap EXCEPT ![r].pos = @ + 1]
             /\ \/ /\ fetched' = [fetched EXCEPT ![k] = Append(@, heap[r].pos + 1)]
                   /\ UNCHANGED missed
                \/ missed' = [missed EXCEPT ![k] = TRUE] /\ UNCHANGED fetched
          \/ code # "SUCCESS" /\ UNCHANGED <<heap, fetched, missed>>
  /\ UNCHANGED <<connection, errno, conn_, result_>>

\* fetchall gives all that is left, or raises at a row and gives none of them.
fetchall(k) ==
  /\ result_[k] # Null
  /\ LET r == result_[k]
         res == heap[r]
         more == "SUCCESS" \in NextAnswers(res)
         left == IF more THEN [i \in 1..res.rows - res.pos |-> res.pos + i] ELSE <<>>
     IN \/ /\ \E i \in 1..Len(left) : heap' = [heap EXCEPT ![r].pos = left[i]]
           /\ missed' = [missed EXCEPT ![k] = TRUE]
           /\ answer' = [answer EXCEPT ![k] = "SUCCESS"]
           /\ UNCHANGED fetched
        \/ /\ heap' = [heap EXCEPT ![r].pos = IF more THEN res.rows ELSE @]
           /\ fetched' = [fetched EXCEPT ![k] = @ \o left]
           /\ \E code \in EndAnswers(res) : answer' = [answer EXCEPT ![k] = code]
           /\ UNCHANGED missed
  /\ UNCHANGED <<connection, errno, conn_, result_>>

\* The server stops: every session is lost, which shows at the next statement.
ServerStops ==
  /\ \E c \in Connections : Usable(c)
  /\ session' = [c \in Connections |-> IF Usable(c) THEN "lost" ELSE session[c]]
  /\ UNCHANGED <<named, c_, allocated, asked, errno, conn_, result_, heap, history>>

Next ==
  \/ ServerStops
  \/ \E c \in Connections : Connect(c) \/ Close(c) \/ Drop(c) \/ run_simple(c)
  \/ \E c \in Connections, k \in Cursors : cursor(c, k)
  \/ \E k \in Cursors :
       CursorClose(k) \/ CursorDrop(k) \/ QueryFails(k) \/ Query(k) \/ fetchone(k) \/ fetchall(k)

Spec == Init /\ [][Next]_vars

-----------------------------------------------------------------------------
TypeOK ==
  /\ named \in [Connections -> BOOLEAN]
  /\ c_ \in [Connections -> BOOLEAN]
  /\ allocated \in [Connections -> BOOLEAN]
  /\ asked \in [Connections -> Modes]
  /\ session \in [Connections -> Modes \cup {"none", "lost"}]
  /\ errno \in [Connections -> BOOLEAN]
  /\ conn_ \in [Cursors -> Connections \cup {Null}]
  /\ result_ \in [Cursors -> Results \cup {Null}]
  /\ heap \in [Results -> SeekdbResultImpl \cup {Null}]
  /\ fetched \in [Cursors -> Seq(1..MaxRows)]
  /\ missed \in [Cursors -> BOOLEAN]
  /\ answer \in [Cursors -> {"none", "SUCCESS", "NO_MORE_ROWS", "INTERNAL_ERROR"}]

\* Nothing is lost: every allocated connection belongs to a Connection that somebody
\* shares, and every allocated result to the cursor that shows it.
NothingLost ==
  /\ \A c \in Connections : allocated[c] <=> c_[c] /\ Shared(c)
  /\ \A r \in Results : r \in live <=> \E k \in Cursors : result_[k] = r
  /\ \A k, other \in Cursors : result_[k] = result_[other] => result_[k] = Null \/ k = other

\* A connection the application got works in the mode it asked for (until a statement
\* of its own changes it), whichever step of seekdb_connect failed.
ModeAsAsked == \A c \in Connections : c_[c] => session[c] \in {asked[c], "lost"}

\* A cursor gives the rows of its last statement in order and none twice; once the end
\* is answered all of them have been given, except what a raised conversion spent.
\* Failures of other statements, and the end of the connection, cost no row.
RowsDelivered ==
  \A k \in Cursors :
    /\ \A i, j \in 1..Len(fetched[k]) : i < j => fetched[k][i] < fetched[k][j]
    /\ answer[k] \in {"NO_MORE_ROWS", "INTERNAL_ERROR"} /\ ~missed[k] =>
         fetched[k] = [i \in 1..heap[result_[k]].rows |-> i]

\* Objects that merely go out of use never free the connection under a result; only
\* the application's own close can.
OwnersKeepConnection ==
  [][\A r \in live : LET c == heap[r].conn IN
       heap'[r] = heap[r] /\ allocated[c] /\ ~allocated'[c] => Close(c)]_vars

\* A cursor "keeps connection alive while cursor uses it".
CursorKeepsConnection == \A r \in live : allocated[heap[r].conn]
=============================================================================

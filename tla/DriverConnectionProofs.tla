------------------------- MODULE DriverConnectionProofs -------------------------
(***************************************************************************)
(* DriverConnection for any number of connections and cursors: nothing is  *)
(* lost, modes are as asked, owners keep the connection, rows are given    *)
(* once and in order, and cells become the values they say.                *)
(***************************************************************************)
EXTENDS MCDriverConnection, SequenceTheorems, TLAPS

\* A cursor's result is live and points at the connection the cursor shares.
ResultInv ==
  \A k \in Cursors : result_[k] # Null =>
    /\ conn_[k] # Null
    /\ result_[k] \in live
    /\ heap[result_[k]].conn = conn_[k]

IInv == TypeOK /\ NothingLost /\ ModeAsAsked /\ ResultInv

\* Every live result is shown by exactly one cursor.
HeapInv ==
  /\ \A r \in Results : r \in live <=> \E k \in Cursors : result_[k] = r
  /\ \A k, other \in Cursors : result_[k] = result_[other] => result_[k] = Null \/ k = other

\* Every allocated connection has an owner.
SharedInv == \A c \in Connections : allocated[c] <=> c_[c] /\ Shared(c)

-----------------------------------------------------------------------------
\* Moving the position of a live result keeps what the heap is and points at.
LEMMA MoveStep ==
  ASSUME TypeOK, NEW r \in Results, heap[r] # Null, NEW n \in 0..MaxRows,
         heap' = [heap EXCEPT ![r].pos = n]
  PROVE  /\ heap' \in [Results -> SeekdbResultImpl \cup {Null}]
         /\ \A x \in Results : heap'[x] # Null <=> heap[x] # Null
         /\ \A x \in Results : heap[x] # Null => heap'[x].conn = heap[x].conn
<1>1. heap[r] \in SeekdbResultImpl BY DEF TypeOK
<1>2. [heap[r] EXCEPT !.pos = n] \in SeekdbResultImpl
  BY <1>1 DEF SeekdbResultImpl
<1>3. [heap[r] EXCEPT !.pos = n].conn = heap[r].conn
  BY <1>1 DEF SeekdbResultImpl
<1>4. heap' = [heap EXCEPT ![r] = [heap[r] EXCEPT !.pos = n]] OBVIOUS
<1>5. Null \notin SeekdbResultImpl BY NullAssumption
<1> HIDE DEF SeekdbResultImpl
<1> QED BY <1>2, <1>3, <1>4, <1>5 DEF TypeOK

\* Fetching moves the position of the cursor's result.
LEMMA FetchStep ==
  ASSUME TypeOK, ResultInv, NEW k \in Cursors, fetchone(k) \/ fetchall(k)
  PROVE  /\ result_[k] \in Results /\ heap[result_[k]] # Null
         /\ heap' \in [Results -> SeekdbResultImpl \cup {Null}]
         /\ \A x \in Results : heap'[x] # Null <=> heap[x] # Null
         /\ \A x \in Results : heap[x] # Null => heap'[x].conn = heap[x].conn
<1> DEFINE r == result_[k]
           more == "SUCCESS" \in NextAnswers(heap[r])
<1>1. r \in Results /\ heap[r] # Null
  BY NullAssumption DEF fetchone, fetchall, ResultInv, live, TypeOK
<1>2. heap[r].pos \in 0..MaxRows /\ heap[r].rows \in {NoSet} \cup 0..MaxRows
  BY <1>1 DEF TypeOK, SeekdbResultImpl
<1>3. more => heap[r].pos < heap[r].rows
  BY DEF NextAnswers, EndAnswers
<1>4. UNCHANGED heap \/ \E n \in 0..MaxRows : heap' = [heap EXCEPT ![r].pos = n]
  <2>1. CASE fetchone(k)
    <3>1. UNCHANGED heap \/ (more /\ heap' = [heap EXCEPT ![r].pos = heap[r].pos + 1])
      BY <2>1 DEF fetchone
    <3>2. more => heap[r].pos + 1 \in 0..MaxRows BY <1>2, <1>3, RowsAssumption DEF NoSet
    <3> HIDE DEF more
    <3> QED BY <3>1, <3>2
  <2>2. CASE fetchall(k)
    <3> DEFINE left == IF more THEN [i \in 1..heap[r].rows - heap[r].pos |-> heap[r].pos + i]
                       ELSE <<>>
    <3>1. \/ \E i \in 1..Len(left) : heap' = [heap EXCEPT ![r].pos = left[i]]
          \/ heap' = [heap EXCEPT ![r].pos = IF more THEN heap[r].rows ELSE heap[r].pos]
      BY <2>2 DEF fetchall
    <3>2. CASE more
      <4>1. heap[r].rows - heap[r].pos \in Nat /\ heap[r].rows \in 0..MaxRows
        BY <1>2, <1>3, <3>2, RowsAssumption DEF NoSet
      <4>2. \A i \in 1..Len(left) : left[i] \in 0..MaxRows
        BY <1>2, <3>2, <4>1, RowsAssumption
      <4>3. (IF more THEN heap[r].rows ELSE heap[r].pos) = heap[r].rows BY <3>2
      <4> HIDE DEF left, more
      <4> QED BY <3>1, <4>1, <4>2, <4>3
    <3>3. CASE ~more
      <4>1. Len(left) = 0 BY <3>3
      <4>2. (IF more THEN heap[r].rows ELSE heap[r].pos) = heap[r].pos BY <3>3
      <4> HIDE DEF left, more
      <4> QED BY <1>2, <3>1, <4>1, <4>2
    <3> QED BY <3>2, <3>3
  <2> QED BY <2>1, <2>2
<1>5. CASE UNCHANGED heap BY <1>1, <1>5 DEF TypeOK
<1>6. ASSUME NEW n \in 0..MaxRows, heap' = [heap EXCEPT ![r].pos = n]
      PROVE  /\ heap' \in [Results -> SeekdbResultImpl \cup {Null}]
             /\ \A x \in Results : heap'[x] # Null <=> heap[x] # Null
             /\ \A x \in Results : heap[x] # Null => heap'[x].conn = heap[x].conn
  BY <1>1, <1>6, MoveStep
<1> QED BY <1>1, <1>4, <1>5, <1>6

\* Closing a connection keeps the types.
LEMMA ResetTypes ==
  ASSUME TypeOK, NEW c \in Connections, Reset(c)
  PROVE  /\ c_' \in [Connections -> BOOLEAN]
         /\ allocated' \in [Connections -> BOOLEAN]
         /\ session' \in [Connections -> Modes \cup {"none", "lost"}]
         /\ errno' \in [Connections -> BOOLEAN]
<1> QED BY DEF TypeOK, Reset

\* Every step keeps the types.
LEMMA TypeStep ==
  ASSUME TypeOK, ResultInv, [Next]_vars
  PROVE  TypeOK'
<1> USE NullAssumption, RowsAssumption DEF TypeOK, connection, history, live, Modes,
  NoSet, SeekdbResultImpl
<1>1. CASE ServerStops
  BY <1>1 DEF ServerStops, Usable
<1>2. ASSUME NEW c \in Connections, Connect(c) PROVE TypeOK'
  BY <1>2 DEF Connect, seekdb_connect, NoMemory, Unreachable, Opened, SetFails,
      StillAllocated
<1>3. ASSUME NEW c \in Connections, Close(c) PROVE TypeOK'
  BY <1>3 DEF Close, Reset
<1>4. ASSUME NEW c \in Connections, Drop(c) PROVE TypeOK'
  <2>1. /\ c_' \in [Connections -> BOOLEAN] /\ allocated' \in [Connections -> BOOLEAN]
        /\ session' \in [Connections -> Modes \cup {"none", "lost"}]
        /\ errno' \in [Connections -> BOOLEAN]
    <3>1. CASE Reset(c) BY <3>1, ResetTypes
    <3>2. CASE UNCHANGED <<c_, allocated, session, errno>> BY <3>2
    <3> QED BY <1>4, <3>1, <3>2 DEF Drop
  <2> QED BY <1>4, <2>1 DEF Drop
<1>5. ASSUME NEW c \in Connections, run_simple(c) PROVE TypeOK'
  BY <1>5 DEF run_simple, Usable
<1>6. ASSUME NEW c \in Connections, NEW k \in Cursors, cursor(c, k) PROVE TypeOK'
  BY <1>6 DEF cursor
<1>7. ASSUME NEW k \in Cursors, CursorClose(k) PROVE TypeOK'
  BY <1>7 DEF CursorClose, Freed, Forget
<1>8. ASSUME NEW k \in Cursors, CursorDrop(k) PROVE TypeOK'
  <2>1. conn_[k] \in Connections BY <1>8 DEF CursorDrop
  <2>2. /\ c_' \in [Connections -> BOOLEAN] /\ allocated' \in [Connections -> BOOLEAN]
        /\ session' \in [Connections -> Modes \cup {"none", "lost"}]
        /\ errno' \in [Connections -> BOOLEAN]
    <3>1. CASE Reset(conn_[k]) BY <2>1, <3>1, ResetTypes
    <3>2. CASE UNCHANGED <<c_, allocated, session, errno>> BY <3>2
    <3> QED BY <1>8, <3>1, <3>2 DEF CursorDrop
  <2> HIDE DEF SeekdbResultImpl
  <2> QED BY <1>8, <2>2 DEF CursorDrop, Freed, Forget
<1>9. ASSUME NEW k \in Cursors, QueryFails(k) PROVE TypeOK'
  BY <1>9 DEF QueryFails, Freed, Forget, Usable
<1>10. ASSUME NEW k \in Cursors, Query(k) PROVE TypeOK'
  BY <1>10 DEF Query, Freed, Forget, Usable
<1>11. ASSUME NEW k \in Cursors, fetchone(k) PROVE TypeOK'
  <2>1. result_[k] \in Results /\ heap[result_[k]] # Null BY <1>11, FetchStep
  <2>2. heap[result_[k]].pos \in 0..MaxRows /\ heap[result_[k]].rows \in {NoSet} \cup 0..MaxRows
    BY <2>1
  <2>3. heap' \in [Results -> SeekdbResultImpl \cup {Null}] BY <1>11, FetchStep
  <2>4. answer' \in [Cursors -> {"none", "SUCCESS", "NO_MORE_ROWS", "INTERNAL_ERROR"}]
    BY <1>11 DEF fetchone, NextAnswers, EndAnswers
  <2>5. missed' \in [Cursors -> BOOLEAN] BY <1>11 DEF fetchone
  <2>6. fetched' \in [Cursors -> Seq(1..MaxRows)]
    <3>1. CASE UNCHANGED fetched BY <3>1
    <3> DEFINE s == Append(fetched[k], heap[result_[k]].pos + 1)
    <3>2. CASE "SUCCESS" \in NextAnswers(heap[result_[k]]) /\ fetched' = [fetched EXCEPT ![k] = s]
      <4>1. heap[result_[k]].pos + 1 \in 1..MaxRows
        BY <2>2, <3>2 DEF NextAnswers, EndAnswers
      <4>2. s \in Seq(1..MaxRows) BY <4>1
      <4> HIDE DEF s
      <4> QED BY <3>2, <4>2
    <3>3. \/ UNCHANGED fetched
          \/ "SUCCESS" \in NextAnswers(heap[result_[k]]) /\ fetched' = [fetched EXCEPT ![k] = s]
      BY <1>11 DEF fetchone
    <3> QED BY <3>1, <3>2, <3>3
  <2> QED BY <1>11, <2>3, <2>4, <2>5, <2>6 DEF fetchone
<1>12. ASSUME NEW k \in Cursors, fetchall(k) PROVE TypeOK'
  <2>1. result_[k] \in Results /\ heap[result_[k]] # Null BY <1>12, FetchStep
  <2>2. heap[result_[k]].pos \in 0..MaxRows /\ heap[result_[k]].rows \in {NoSet} \cup 0..MaxRows
    BY <2>1
  <2>3. heap' \in [Results -> SeekdbResultImpl \cup {Null}] BY <1>12, FetchStep
  <2>4. answer' \in [Cursors -> {"none", "SUCCESS", "NO_MORE_ROWS", "INTERNAL_ERROR"}]
    BY <1>12 DEF fetchall, NextAnswers, EndAnswers
  <2>5. missed' \in [Cursors -> BOOLEAN] BY <1>12 DEF fetchall
  <2>6. fetched' \in [Cursors -> Seq(1..MaxRows)]
    <3> DEFINE more == "SUCCESS" \in NextAnswers(heap[result_[k]])
               left == IF more
                       THEN [i \in 1..heap[result_[k]].rows - heap[result_[k]].pos |->
                               heap[result_[k]].pos + i]
                       ELSE <<>>
               s == fetched[k] \o left
    <3>1. CASE UNCHANGED fetched BY <3>1
    <3>2. CASE fetched' = [fetched EXCEPT ![k] = s]
      <4>1. left \in Seq(1..MaxRows)
        <5>1. CASE more
          <6>1. heap[result_[k]].rows - heap[result_[k]].pos \in Nat
            BY <2>2, <5>1 DEF NextAnswers, EndAnswers
          <6>2. left \in [1..heap[result_[k]].rows - heap[result_[k]].pos -> 1..MaxRows]
            BY <2>2, <5>1, <6>1
          <6> DEFINE n == heap[result_[k]].rows - heap[result_[k]].pos
          <6>3. n \in Nat /\ left \in [1..n -> 1..MaxRows] BY <6>1, <6>2
          <6> HIDE DEF left, n
          <6>4. left \in UNION {[1..m -> 1..MaxRows] : m \in Nat} BY <6>3
          <6> QED BY <6>4, SeqDef, Zenon
        <5>2. CASE ~more BY <5>2
        <5> QED BY <5>1, <5>2
      <4> HIDE DEF left
      <4>2. s \in Seq(1..MaxRows) BY <4>1
      <4> HIDE DEF s
      <4> QED BY <3>2, <4>2
    <3>3. UNCHANGED fetched \/ fetched' = [fetched EXCEPT ![k] = s]
      BY <1>12 DEF fetchall
    <3> QED BY <3>1, <3>2, <3>3
  <2> QED BY <1>12, <2>3, <2>4, <2>5, <2>6 DEF fetchall
<1>13. CASE UNCHANGED vars BY <1>13 DEF vars
<1> QED BY <1>1, <1>2, <1>3, <1>4, <1>5, <1>6, <1>7, <1>8, <1>9, <1>10, <1>11, <1>12,
  <1>13 DEF Next

\* Every step keeps the owners of an allocated connection.
LEMMA SharedStep ==
  ASSUME TypeOK, SharedInv, [Next]_vars
  PROVE  SharedInv'
<1> USE NullAssumption, RowsAssumption DEF TypeOK, SharedInv, Shared, connection,
  history, live, Modes, NoSet, SeekdbResultImpl
<1>1. CASE ServerStops
  BY <1>1 DEF ServerStops, Usable
<1>2. ASSUME NEW c \in Connections, Connect(c) PROVE SharedInv'
  BY <1>2 DEF Connect, seekdb_connect, NoMemory, Unreachable, Opened, SetFails,
      StillAllocated
<1>3. ASSUME NEW c \in Connections, Close(c) PROVE SharedInv'
  BY <1>3 DEF Close, Reset
<1>4. ASSUME NEW c \in Connections, Drop(c) PROVE SharedInv'
  <2>1. \A d \in Connections : d # c => (Shared(d)' <=> Shared(d)) BY <1>4 DEF Drop
  <2>2. CASE \E k \in Cursors : conn_[k] = c
    <3>1. Shared(c) /\ Shared(c)' BY <1>4, <2>2 DEF Drop
    <3> QED BY <1>4, <2>1, <2>2, <3>1 DEF Drop
  <2>3. CASE ~\E k \in Cursors : conn_[k] = c
    <3>1. Reset(c) BY <1>4, <2>3 DEF Drop
    <3> QED BY <2>1, <3>1 DEF Reset
  <2> QED BY <2>2, <2>3
<1>5. ASSUME NEW c \in Connections, run_simple(c) PROVE SharedInv'
  BY <1>5 DEF run_simple, Usable
<1>6. ASSUME NEW c \in Connections, NEW k \in Cursors, cursor(c, k) PROVE SharedInv'
  BY <1>6 DEF cursor
<1>7. ASSUME NEW k \in Cursors, CursorClose(k) PROVE SharedInv'
  BY <1>7 DEF CursorClose, Freed, Forget
<1>8. ASSUME NEW k \in Cursors, CursorDrop(k) PROVE SharedInv'
  <2>1. named' = named /\ conn_' = [conn_ EXCEPT ![k] = Null] /\ conn_[k] # Null
    BY <1>8 DEF CursorDrop
  <2>2. CASE named[conn_[k]] \/ \E other \in Cursors \ {k} : conn_[other] = conn_[k]
    <3>1. \A c \in Connections : Shared(c)' <=> Shared(c) BY <2>1, <2>2
    <3> QED BY <1>8, <2>2, <3>1 DEF CursorDrop
  <2>3. CASE ~(named[conn_[k]] \/ \E other \in Cursors \ {k} : conn_[other] = conn_[k])
    <3>1. \A c \in Connections : c # conn_[k] => (Shared(c)' <=> Shared(c)) BY <2>1
    <3>2. Reset(conn_[k]) BY <1>8, <2>3 DEF CursorDrop
    <3>3. conn_[k] \in Connections BY <2>1
    <3> QED BY <3>1, <3>2, <3>3 DEF Reset
  <2> QED BY <2>2, <2>3
<1>9. ASSUME NEW k \in Cursors, QueryFails(k) PROVE SharedInv'
  BY <1>9 DEF QueryFails, Freed, Forget, Usable
<1>10. ASSUME NEW k \in Cursors, Query(k) PROVE SharedInv'
  BY <1>10 DEF Query, Freed, Forget, Usable
<1>11. ASSUME NEW k \in Cursors, fetchone(k) PROVE SharedInv'
  BY <1>11 DEF fetchone, NextAnswers, EndAnswers
<1>12. ASSUME NEW k \in Cursors, fetchall(k) PROVE SharedInv'
  BY <1>12 DEF fetchall, NextAnswers, EndAnswers
<1>13. CASE UNCHANGED vars BY <1>13 DEF vars
<1> QED BY <1>1, <1>2, <1>3, <1>4, <1>5, <1>6, <1>7, <1>8, <1>9, <1>10, <1>11, <1>12,
  <1>13 DEF Next

\* Every step keeps a result with its one cursor.
LEMMA ResultStep ==
  ASSUME TypeOK, HeapInv, ResultInv, [Next]_vars
  PROVE  HeapInv' /\ ResultInv'
<1> USE NullAssumption, RowsAssumption DEF TypeOK, HeapInv, ResultInv, connection,
  history, live, Modes, NoSet, SeekdbResultImpl
<1>1. CASE ServerStops
  BY <1>1 DEF ServerStops, Usable
<1>2. ASSUME NEW c \in Connections, Connect(c) PROVE HeapInv' /\ ResultInv'
  BY <1>2 DEF Connect, seekdb_connect, NoMemory, Unreachable, Opened, SetFails,
      StillAllocated
<1>3. ASSUME NEW c \in Connections, Close(c) PROVE HeapInv' /\ ResultInv'
  BY <1>3 DEF Close, Reset
<1>4. ASSUME NEW c \in Connections, Drop(c) PROVE HeapInv' /\ ResultInv'
  BY <1>4 DEF Drop, Reset
<1>5. ASSUME NEW c \in Connections, run_simple(c) PROVE HeapInv' /\ ResultInv'
  BY <1>5 DEF run_simple, Usable
<1>6. ASSUME NEW c \in Connections, NEW k \in Cursors, cursor(c,
  k) PROVE HeapInv' /\ ResultInv'
  BY <1>6 DEF cursor
<1>7. ASSUME NEW k \in Cursors, CursorClose(k) PROVE HeapInv' /\ ResultInv'
  BY <1>7 DEF CursorClose, Freed, Forget
<1>8. ASSUME NEW k \in Cursors, CursorDrop(k) PROVE HeapInv' /\ ResultInv'
  BY <1>8 DEF CursorDrop, Freed, Forget, Reset
<1>9. ASSUME NEW k \in Cursors, QueryFails(k) PROVE HeapInv' /\ ResultInv'
  BY <1>9 DEF QueryFails, Freed, Forget, Usable
<1>10. ASSUME NEW k \in Cursors, Query(k) PROVE HeapInv' /\ ResultInv'
  <2>1. PICK n \in {NoSet} \cup 0..MaxRows, r \in Results :
          /\ Freed(k)[r] = Null
          /\ result_' = [result_ EXCEPT ![k] = r]
          /\ heap' = [Freed(k) EXCEPT ![r] = [conn |-> conn_[k], rows |-> n, pos |-> 0]]
    BY <1>10 DEF Query
  <2>2. /\ result_'[k] = r
        /\ \A other \in Cursors : other # k => result_'[other] = result_[other]
    BY <2>1
  <2>3. /\ heap'[r] = [conn |-> conn_[k], rows |-> n, pos |-> 0]
        /\ \A x \in Results : x # r => heap'[x] = IF x = result_[k] THEN Null ELSE heap[x]
    BY <2>1 DEF Freed
  <2>4. heap'[r] # Null
    <3>1. heap'[r] \in SeekdbResultImpl
      BY <1>10, <2>3, NullAssumption DEF Query
    <3> HIDE DEF SeekdbResultImpl
    <3> QED BY <3>1, NullAssumption
  <2>5. \A other \in Cursors : result_[other] = r => other = k
    BY <2>1, NullAssumption DEF Freed
  <2>6. conn_' = conn_ /\ conn_[k] # Null BY <1>10 DEF Query
  <2> HIDE DEF SeekdbResultImpl, TypeOK
  <2>7. ASSUME NEW x \in Results
        PROVE  heap'[x] # Null <=> \E other \in Cursors : result_'[other] = x
    <3>1. CASE x = r BY <2>2, <2>4, <3>1
    <3>2. CASE x # r /\ x = result_[k]
      <4>1. heap'[x] = Null BY <2>3, <3>2
      <4>2. \A other \in Cursors : result_'[other] # x
        BY <2>2, <3>2, NullAssumption DEF HeapInv
      <4> QED BY <4>1, <4>2
    <3>3. CASE x # r /\ x # result_[k]
      <4>1. heap'[x] = heap[x] BY <2>3, <3>3
      <4>2. (\E other \in Cursors : result_[other] = x) <=> \E other \in Cursors : result_'[other] = x
        BY <2>2, <3>3
      <4> QED BY <4>1, <4>2 DEF HeapInv
    <3> QED BY <3>1, <3>2, <3>3
  <2>8. ASSUME NEW i \in Cursors, NEW j \in Cursors, result_'[i] = result_'[j]
        PROVE  result_'[i] = Null \/ i = j
    <3>1. CASE i = k BY <2>2, <2>5, <2>8, <3>1
    <3>2. CASE j = k BY <2>2, <2>5, <2>8, <3>2
    <3>3. CASE i # k /\ j # k BY <2>2, <2>8, <3>3 DEF HeapInv
    <3> QED BY <3>1, <3>2, <3>3
  <2>9. ResultInv'
    <3> SUFFICES ASSUME NEW i \in Cursors, result_'[i] # Null
                 PROVE  conn_'[i] # Null /\ result_'[i] \in live' /\ heap'[result_'[i]].conn = conn_'[i]
      OBVIOUS
    <3>1. CASE i = k BY <2>2, <2>3, <2>4, <2>6, <3>1
    <3>2. CASE i # k BY <2>2, <2>3, <2>5, <2>6, <3>2
    <3> QED BY <3>1, <3>2
  <2> QED BY <2>7, <2>8, <2>9
<1>11. ASSUME NEW k \in Cursors, fetchone(k) PROVE HeapInv' /\ ResultInv'
  <2>1. /\ heap' \in [Results -> SeekdbResultImpl \cup {Null}]
        /\ \A x \in Results : heap'[x] # Null <=> heap[x] # Null
        /\ \A x \in Results : heap[x] # Null => heap'[x].conn = heap[x].conn
    BY <1>11, FetchStep
  <2> HIDE DEF SeekdbResultImpl
  <2> QED BY <1>11, <2>1 DEF fetchone
<1>12. ASSUME NEW k \in Cursors, fetchall(k) PROVE HeapInv' /\ ResultInv'
  <2>1. /\ heap' \in [Results -> SeekdbResultImpl \cup {Null}]
        /\ \A x \in Results : heap'[x] # Null <=> heap[x] # Null
        /\ \A x \in Results : heap[x] # Null => heap'[x].conn = heap[x].conn
    BY <1>12, FetchStep
  <2> HIDE DEF SeekdbResultImpl
  <2> QED BY <1>12, <2>1 DEF fetchall
<1>13. CASE UNCHANGED vars BY <1>13 DEF vars
<1> QED BY <1>1, <1>2, <1>3, <1>4, <1>5, <1>6, <1>7, <1>8, <1>9, <1>10, <1>11, <1>12,
  <1>13 DEF Next

\* Every step keeps the modes.
LEMMA ModeStep ==
  ASSUME TypeOK, ModeAsAsked, [Next]_vars
  PROVE  ModeAsAsked'
<1>a. /\ c_ \in [Connections -> BOOLEAN]
      /\ asked \in [Connections -> Modes]
      /\ session \in [Connections -> Modes \cup {"none", "lost"}]
  BY DEF TypeOK
<1>b. ASSUME UNCHANGED connection PROVE ModeAsAsked'
  BY <1>b DEF ModeAsAsked, connection
<1>c. ASSUME NEW c \in Connections, Reset(c), UNCHANGED asked PROVE ModeAsAsked'
  BY <1>a, <1>c DEF ModeAsAsked, Reset
<1>d. ASSUME UNCHANGED <<c_, asked, session>> PROVE ModeAsAsked'
  BY <1>d DEF ModeAsAsked
<1>1. CASE ServerStops
  BY <1>1, <1>a DEF ServerStops, ModeAsAsked
<1>2. ASSUME NEW c \in Connections, Connect(c) PROVE ModeAsAsked'
  <2>1. PICK mode \in Modes : \E outcome \in seekdb_connect(mode) :
          /\ c_' = [c_ EXCEPT ![c] = outcome.rc = "SUCCESS"]
          /\ asked' = [asked EXCEPT ![c] = mode]
          /\ session' = [session EXCEPT ![c] =
               IF outcome.rc = "SUCCESS" THEN outcome.session ELSE "none"]
    BY <1>2 DEF Connect
  <2>2. PICK outcome \in seekdb_connect(mode) :
          /\ c_' = [c_ EXCEPT ![c] = outcome.rc = "SUCCESS"]
          /\ session' = [session EXCEPT ![c] =
               IF outcome.rc = "SUCCESS" THEN outcome.session ELSE "none"]
    BY <2>1
  <2>3. outcome.rc = "SUCCESS" => outcome.session = mode
    BY DEF seekdb_connect, NoMemory, Unreachable, Opened, SetFails
  <2>4. c_'[c] => outcome.rc = "SUCCESS" BY <1>a, <2>2
  <2> QED BY <1>a, <2>1, <2>2, <2>3, <2>4 DEF ModeAsAsked
<1>3. ASSUME NEW c \in Connections, Close(c) PROVE ModeAsAsked'
  BY <1>3, <1>c DEF Close
<1>4. ASSUME NEW c \in Connections, Drop(c) PROVE ModeAsAsked'
  BY <1>4, <1>c, <1>d DEF Drop
<1>5. ASSUME NEW c \in Connections, run_simple(c) PROVE ModeAsAsked'
  BY <1>5, <1>b DEF run_simple
<1>6. ASSUME NEW c \in Connections, NEW k \in Cursors, cursor(c, k) PROVE ModeAsAsked'
  BY <1>6, <1>b DEF cursor
<1>7. ASSUME NEW k \in Cursors, CursorClose(k) PROVE ModeAsAsked'
  BY <1>7, <1>b DEF CursorClose
<1>8. ASSUME NEW k \in Cursors, CursorDrop(k) PROVE ModeAsAsked'
  <2>1. conn_[k] \in Connections
    BY <1>8 DEF CursorDrop, TypeOK
  <2> QED BY <1>8, <1>c, <1>d, <2>1 DEF CursorDrop
<1>9. ASSUME NEW k \in Cursors, QueryFails(k) PROVE ModeAsAsked'
  BY <1>9, <1>b DEF QueryFails
<1>10. ASSUME NEW k \in Cursors, Query(k) PROVE ModeAsAsked'
  BY <1>10, <1>b DEF Query
<1>11. ASSUME NEW k \in Cursors, fetchone(k) PROVE ModeAsAsked'
  BY <1>11, <1>b DEF fetchone
<1>12. ASSUME NEW k \in Cursors, fetchall(k) PROVE ModeAsAsked'
  BY <1>12, <1>b DEF fetchall
<1>13. CASE UNCHANGED vars BY <1>13, <1>b DEF vars
<1> QED BY <1>1, <1>2, <1>3, <1>4, <1>5, <1>6, <1>7, <1>8, <1>9, <1>10, <1>11, <1>12,
  <1>13 DEF Next

\* The initial states satisfy the invariant.
LEMMA InitInv == Init => IInv
<1> SUFFICES ASSUME Init PROVE IInv OBVIOUS
<1>1. TypeOK
  <2>1. <<>> \in Seq(1..MaxRows) OBVIOUS
  <2> QED BY <2>1 DEF Init, TypeOK, Modes
<1>2. NothingLost BY NullAssumption DEF Init, NothingLost, Shared, live
<1>3. ModeAsAsked BY DEF Init, ModeAsAsked
<1>4. ResultInv BY DEF Init, ResultInv
<1> QED BY <1>1, <1>2, <1>3, <1>4 DEF IInv

\* Every step keeps the invariant.
LEMMA StepInv == IInv /\ [Next]_vars => IInv'
<1> SUFFICES ASSUME IInv, [Next]_vars PROVE IInv' OBVIOUS
<1>1. TypeOK /\ SharedInv /\ HeapInv /\ ModeAsAsked /\ ResultInv
  BY DEF IInv, NothingLost, SharedInv, HeapInv
<1>2. TypeOK' BY <1>1, TypeStep
<1>3. SharedInv' BY <1>1, SharedStep
<1>4. HeapInv' /\ ResultInv' BY <1>1, ResultStep
<1>5. ModeAsAsked' BY <1>1, ModeStep
<1>6. NothingLost' BY <1>3, <1>4 DEF NothingLost, SharedInv, HeapInv
<1> QED BY <1>2, <1>4, <1>5, <1>6 DEF IInv

\* The inductive invariant holds in every reachable state.
THEOREM ConnectionInvariant == Spec => []IInv
<1> QED BY InitInv, StepInv, PTL DEF Spec

\* Every reachable state is of the types the module declares.
THEOREM ConnectionTypes == Spec => []TypeOK
<1>1. IInv => TypeOK BY DEF IInv
<1> QED BY <1>1, ConnectionInvariant, PTL

\* No connection and no result is ever lost, or shown by two cursors.
THEOREM NoLoss == Spec => []NothingLost
<1>1. IInv => NothingLost BY DEF IInv
<1> QED BY <1>1, ConnectionInvariant, PTL

\* Whatever failed in seekdb_connect, the application has the mode it asked for.
THEOREM AskedModes == Spec => []ModeAsAsked
<1>1. IInv => ModeAsAsked BY DEF IInv
<1> QED BY <1>1, ConnectionInvariant, PTL

\* A connection under a live result is freed only by the application's close.
LEMMA OwnersStep ==
  ASSUME TypeOK, HeapInv, ResultInv, [Next]_vars, NEW r \in live,
         heap'[r] = heap[r], allocated[heap[r].conn], ~allocated'[heap[r].conn]
  PROVE  Close(heap[r].conn)
<1> USE NullAssumption
<1> DEFINE d == heap[r].conn
<1>1. PICK owner \in Cursors : result_[owner] = r BY DEF HeapInv, live
<1>2. conn_[owner] = d /\ d \in Connections /\ heap[r] # Null
  BY <1>1 DEF ResultInv, TypeOK, live
<1>3. ASSUME NEW c \in Connections, Reset(c) PROVE c = d
  BY <1>2, <1>3 DEF Reset, TypeOK
<1>4. allocated' # allocated BY <1>2
<1>5. CASE ServerStops BY <1>4, <1>5 DEF ServerStops
<1>6. ASSUME NEW c \in Connections, Connect(c) PROVE FALSE
  <2>1. c # d BY <1>6 DEF Connect, live
  <2>2. \E x : allocated' = [allocated EXCEPT ![c] = x] BY <1>6 DEF Connect
  <2> QED BY <1>2, <2>1, <2>2 DEF TypeOK
<1>7. ASSUME NEW c \in Connections, Close(c) PROVE Close(d)
  BY <1>3, <1>7 DEF Close
<1>8. ASSUME NEW c \in Connections, Drop(c) PROVE FALSE
  <2>1. CASE \E k \in Cursors : conn_[k] = c BY <1>4, <1>8, <2>1 DEF Drop
  <2>2. CASE ~\E k \in Cursors : conn_[k] = c
    <3>1. c = d BY <1>3, <1>8, <2>2 DEF Drop
    <3> QED BY <1>2, <2>2, <3>1
  <2> QED BY <2>1, <2>2
<1>9. ASSUME NEW k \in Cursors, CursorDrop(k) PROVE FALSE
  <2>1. k # owner
    <3>1. heap' = Freed(k) BY <1>9 DEF CursorDrop
    <3> QED BY <1>1, <1>2, <3>1 DEF Freed, live
  <2>2. CASE named[conn_[k]] \/ \E other \in Cursors \ {k} : conn_[other] = conn_[k]
    BY <1>4, <1>9, <2>2 DEF CursorDrop
  <2>3. CASE ~(named[conn_[k]] \/ \E other \in Cursors \ {k} : conn_[other] = conn_[k])
    <3>1. conn_[k] \in Connections BY <1>9 DEF CursorDrop, TypeOK
    <3>2. Reset(conn_[k]) BY <1>9, <2>3 DEF CursorDrop
    <3>3. conn_[k] = d BY <1>3, <3>1, <3>2
    <3> QED BY <1>2, <2>1, <2>3, <3>3
  <2> QED BY <2>2, <2>3
<1>10. ASSUME NEW c \in Connections, NEW k \in Cursors, cursor(c, k) PROVE FALSE
  BY <1>4, <1>10 DEF cursor, connection
<1>11. ASSUME NEW k \in Cursors,
              CursorClose(k) \/ QueryFails(k) \/ Query(k) \/ fetchone(k) \/ fetchall(k)
       PROVE  FALSE
  BY <1>4, <1>11 DEF CursorClose, QueryFails, Query, fetchone, fetchall, connection
<1>12. ASSUME NEW c \in Connections, run_simple(c) PROVE FALSE
  BY <1>4, <1>12 DEF run_simple, connection
<1>13. CASE UNCHANGED vars BY <1>4, <1>13 DEF vars, connection
<1> QED BY <1>5, <1>6, <1>7, <1>8, <1>9, <1>10, <1>11, <1>12, <1>13 DEF Next

\* Objects that go out of use never free the connection under a result.
THEOREM OwnersKeep == Spec => OwnersKeepConnection
<1>1. IInv /\ [Next]_vars =>
        [\A r \in live : LET c == heap[r].conn IN
           heap'[r] = heap[r] /\ allocated[c] /\ ~allocated'[c] => Close(c)]_vars
  BY OwnersStep DEF IInv, NothingLost, HeapInv
<1> QED BY <1>1, ConnectionInvariant, PTL DEF Spec, OwnersKeepConnection

-----------------------------------------------------------------------------
\* What a cursor has given are rows its result has passed, in order, and all of them
\* unless a conversion raised; it has answered an end only after the last row.
Ended == {"NO_MORE_ROWS", "INTERNAL_ERROR"}

Delivered(given, all, code, res) ==
  /\ res.pos = 0 \/ res.pos <= res.rows
  /\ code \in Ended => res.pos >= res.rows
  /\ \A i \in 1..Len(given) : given[i] <= res.pos
  /\ \A i, j \in 1..Len(given) : i < j => given[i] < given[j]
  /\ all => Len(given) = res.pos /\ \A i \in 1..Len(given) : given[i] = i

RowOf(k) ==
  /\ result_[k] = Null => fetched[k] = <<>> /\ answer[k] = "none"
  /\ result_[k] # Null => Delivered(fetched[k], ~missed[k], answer[k], heap[result_[k]])

RowInv == \A k \in Cursors : RowOf(k)

\* One more row is given.
LEMMA OneMore ==
  ASSUME NEW given \in Seq(1..MaxRows), NEW all \in BOOLEAN, NEW code, NEW res \in SeekdbResultImpl,
         Delivered(given, all, code, res), res.pos < res.rows,
         NEW next, next = [res EXCEPT !.pos = res.pos + 1]
  PROVE  /\ Delivered(Append(given, res.pos + 1), all, "SUCCESS", next)
         /\ Delivered(given, FALSE, "SUCCESS", next)
<1>1. res.pos \in Nat /\ res.rows \in Int /\ next.pos = res.pos + 1 /\ next.rows = res.rows
  BY RowsAssumption DEF SeekdbResultImpl, NoSet
<1>2. /\ Len(Append(given, res.pos + 1)) = Len(given) + 1 /\ Len(given) \in Nat
      /\ \A i \in 1..Len(given) : Append(given, res.pos + 1)[i] = given[i] /\ given[i] \in Nat
      /\ Append(given, res.pos + 1)[Len(given) + 1] = res.pos + 1
  BY RowsAssumption, <1>1
<1> DEFINE more == Append(given, res.pos + 1)
<1> HIDE DEF more, SeekdbResultImpl
<1> QED BY <1>1, <1>2 DEF Delivered, Ended, more

\* All that is left is given.
LEMMA AllMore ==
  ASSUME NEW given \in Seq(1..MaxRows), NEW all \in BOOLEAN, NEW code, NEW res \in SeekdbResultImpl,
         Delivered(given, all, code, res), res.pos < res.rows,
         NEW next, next = [res EXCEPT !.pos = res.rows], NEW last
  PROVE  Delivered(given \o [i \in 1..res.rows - res.pos |-> res.pos + i], all, last, next)
<1> DEFINE left == [i \in 1..res.rows - res.pos |-> res.pos + i]
           more == given \o left
<1>1. res.pos \in Nat /\ res.rows \in Nat /\ next.pos = res.rows /\ next.rows = res.rows
      /\ res.rows - res.pos \in Nat
  BY RowsAssumption DEF SeekdbResultImpl, NoSet
<1>2. left \in Seq(Nat) /\ Len(left) = res.rows - res.pos
  <2>1. left \in [1..res.rows - res.pos -> Nat] BY <1>1
  <2> DEFINE n == res.rows - res.pos
  <2>2. n \in Nat /\ left \in [1..n -> Nat] BY <1>1, <2>1
  <2>4. DOMAIN left = 1..n OBVIOUS
  <2> HIDE DEF left, n
  <2>3. left \in UNION {[1..m -> Nat] : m \in Nat} BY <2>2
  <2>5. left \in Seq(Nat) BY <2>3, SeqDef, Zenon
  <2>6. Len(left) = n BY <2>2, <2>4, <2>5, LenProperties
  <2> QED BY <2>5, <2>6 DEF n
<1>3. \A i \in 1..Len(left) : left[i] = res.pos + i BY <1>1, <1>2
<1>4. given \in Seq(Nat) /\ Len(given) \in Nat /\ \A i \in 1..Len(given) : given[i] \in Nat
  BY RowsAssumption
<1> HIDE DEF left
<1>5. /\ Len(more) = Len(given) + Len(left)
      /\ \A i \in 1..Len(more) : more[i] = IF i <= Len(given) THEN given[i] ELSE left[i - Len(given)]
  <2>1. /\ Len(given \o left) = Len(given) + Len(left)
        /\ \A i \in 1..Len(given) + Len(left) :
             (given \o left)[i] = IF i <= Len(given) THEN given[i] ELSE left[i - Len(given)]
    <3>1. given \in Seq(Nat) /\ left \in Seq(Nat) BY <1>2, <1>4
    <3> QED BY <3>1, ConcatProperties, Zenon
  <2> QED BY <2>1
<1>6. ASSUME NEW i \in 1..Len(more), i > Len(given) PROVE more[i] = res.pos + (i - Len(given))
  <2>1. i - Len(given) \in 1..Len(left) BY <1>1, <1>2, <1>4, <1>5, <1>6
  <2>2. more[i] = left[i - Len(given)] BY <1>4, <1>5, <1>6
  <2> QED BY <1>3, <2>1, <2>2
<1>7. ASSUME NEW i \in 1..Len(more), i <= Len(given) PROVE i \in 1..Len(given) /\ more[i] = given[i]
  BY <1>4, <1>5, <1>7
<1> HIDE DEF more, SeekdbResultImpl
<1>8. Len(more) = Len(given) + (res.rows - res.pos) BY <1>2, <1>5
<1>9. \A i \in 1..Len(given) : given[i] <= res.pos BY DEF Delivered
<1>10. \A i, j \in 1..Len(given) : i < j => given[i] < given[j] BY DEF Delivered
<1>11. \A i \in 1..Len(more) : more[i] <= res.rows
  <2> SUFFICES ASSUME NEW i \in 1..Len(more) PROVE more[i] <= res.rows OBVIOUS
  <2>1. CASE i <= Len(given)
    <3>1. i \in 1..Len(given) /\ more[i] = given[i] BY <1>7, <2>1
    <3>2. given[i] <= res.pos /\ given[i] \in Nat BY <1>4, <1>9, <3>1
    <3> QED BY <1>1, <3>1, <3>2
  <2>2. CASE i > Len(given)
    <3>1. more[i] = res.pos + (i - Len(given)) BY <1>6, <2>2
    <3>2. i - Len(given) <= res.rows - res.pos BY <1>1, <1>4, <1>8
    <3> QED BY <1>1, <1>4, <3>1, <3>2
  <2> QED BY <1>4, <2>1, <2>2
<1>12. \A i, j \in 1..Len(more) : i < j => more[i] < more[j]
  <2> SUFFICES ASSUME NEW i \in 1..Len(more), NEW j \in 1..Len(more), i < j
               PROVE  more[i] < more[j]
    OBVIOUS
  <2>1. CASE j <= Len(given)
    <3>1. i <= Len(given) BY <1>4, <1>1, <1>8, <2>1
    <3>2. i \in 1..Len(given) /\ j \in 1..Len(given) /\ more[i] = given[i] /\ more[j] = given[j]
      BY <1>7, <2>1, <3>1
    <3> QED BY <1>10, <3>2
  <2>2. CASE j > Len(given) /\ i <= Len(given)
    <3>1. i \in 1..Len(given) /\ more[i] = given[i] BY <1>7, <2>2
    <3>2. given[i] <= res.pos /\ given[i] \in Nat BY <1>4, <1>9, <3>1
    <3>3. more[j] = res.pos + (j - Len(given)) BY <1>6, <2>2
    <3> QED BY <1>1, <1>4, <1>8, <2>2, <3>1, <3>2, <3>3
  <2>3. CASE j > Len(given) /\ i > Len(given)
    <3>1. more[j] = res.pos + (j - Len(given)) /\ more[i] = res.pos + (i - Len(given))
      BY <1>6, <2>3
    <3> QED BY <1>1, <1>4, <1>8, <3>1
  <2> QED BY <1>1, <1>4, <1>8, <2>1, <2>2, <2>3
<1>13. all => Len(more) = res.rows /\ \A i \in 1..Len(more) : more[i] = i
  <2> SUFFICES ASSUME all PROVE Len(more) = res.rows /\ \A i \in 1..Len(more) : more[i] = i
    OBVIOUS
  <2>1. Len(given) = res.pos /\ \A i \in 1..Len(given) : given[i] = i BY DEF Delivered
  <2>2. Len(more) = res.rows BY <1>1, <1>8, <2>1
  <2>3. ASSUME NEW i \in 1..Len(more) PROVE more[i] = i
    <3>1. CASE i <= Len(given) BY <1>7, <2>1, <3>1
    <3>2. CASE i > Len(given)
      <4>1. more[i] = res.pos + (i - Len(given)) BY <1>6, <3>2
      <4> QED BY <1>1, <2>1, <2>2, <4>1
    <3> QED BY <1>4, <2>2, <1>1, <3>1, <3>2
  <2> QED BY <2>2, <2>3
<1>14. next.pos = res.rows /\ res.rows <= next.rows BY <1>1
<1> QED BY <1>1, <1>11, <1>12, <1>13, <1>14 DEF Delivered, more, left

\* Every cursor's rows are kept by every step.
LEMMA RowStep ==
  ASSUME TypeOK, HeapInv, ResultInv, RowInv, [Next]_vars
  PROVE  RowInv'
<1>a. ASSUME NEW k \in Cursors, result_'[k] = result_[k],
             result_[k] # Null => heap'[result_[k]] = heap[result_[k]],
             fetched'[k] = fetched[k], missed'[k] = missed[k], answer'[k] = answer[k]
      PROVE  RowOf(k)'
  <2>1. RowOf(k) BY DEF RowInv
  <2> QED BY <1>a, <2>1 DEF RowOf, Delivered
<1>b. ASSUME UNCHANGED <<result_, heap, history>> PROVE RowInv'
  BY <1>a, <1>b DEF RowInv, history
<1>c. ASSUME NEW k \in Cursors, result_' = [result_ EXCEPT ![k] = Null], heap' = Freed(k), Forget(k)
      PROVE  RowInv'
  <2>1. RowOf(k)' BY <1>c DEF RowOf, Forget, TypeOK
  <2>2. ASSUME NEW other \in Cursors, other # k PROVE RowOf(other)'
    <3>1. result_'[other] = result_[other] BY <1>c, <2>2 DEF TypeOK
    <3>2. result_[other] # Null => result_[other] \in Results /\ result_[other] # result_[k]
      BY <2>2 DEF HeapInv, TypeOK
    <3>3. result_[other] # Null => heap'[result_[other]] = heap[result_[other]]
      BY <1>c, <3>2 DEF Freed
    <3>4. fetched'[other] = fetched[other] /\ missed'[other] = missed[other]
          /\ answer'[other] = answer[other]
      BY <1>c, <2>2 DEF Forget, TypeOK
    <3> QED BY <1>a, <3>1, <3>3, <3>4
  <2> QED BY <2>1, <2>2 DEF RowInv
<1>1. CASE ServerStops
  BY <1>1, <1>b DEF ServerStops
<1>2. ASSUME NEW c \in Connections, Connect(c) \/ Close(c) \/ Drop(c) \/ run_simple(c) PROVE RowInv'
  BY <1>2, <1>b DEF Connect, Close, Drop, run_simple
<1>3. ASSUME NEW c \in Connections, NEW k \in Cursors, cursor(c, k) PROVE RowInv'
  BY <1>3, <1>b DEF cursor
<1>4. ASSUME NEW k \in Cursors, CursorClose(k) \/ CursorDrop(k) \/ QueryFails(k) PROVE RowInv'
  BY <1>4, <1>c DEF CursorClose, CursorDrop, QueryFails
<1>5. ASSUME NEW k \in Cursors, Query(k) PROVE RowInv'
  <2>1. PICK n \in {NoSet} \cup 0..MaxRows, r \in Results :
          /\ Freed(k)[r] = Null
          /\ result_' = [result_ EXCEPT ![k] = r]
          /\ heap' = [Freed(k) EXCEPT ![r] = [conn |-> conn_[k], rows |-> n, pos |-> 0]]
    BY <1>5 DEF Query
  <2>2. Forget(k) BY <1>5 DEF Query
  <2>3. RowOf(k)'
    <3>1. result_'[k] = r /\ heap'[r] = [conn |-> conn_[k], rows |-> n, pos |-> 0]
      BY <2>1 DEF Freed, TypeOK
    <3>2. fetched'[k] = <<>> /\ missed'[k] = FALSE /\ answer'[k] = "none"
      BY <2>2 DEF Forget, TypeOK
    <3>3. r # Null BY NullAssumption
    <3> QED BY <3>1, <3>2, <3>3 DEF RowOf, Delivered, Ended
  <2>4. ASSUME NEW other \in Cursors, other # k PROVE RowOf(other)'
    <3>1. result_'[other] = result_[other] BY <2>1, <2>4 DEF TypeOK
    <3>2. result_[other] # Null =>
            result_[other] \in Results /\ result_[other] # result_[k] /\ heap[result_[other]] # Null
      BY <2>4 DEF HeapInv, ResultInv, live, TypeOK
    <3>3. result_[other] # Null => result_[other] # r
      BY <2>1, <3>2 DEF Freed
    <3>4. result_[other] # Null => heap'[result_[other]] = heap[result_[other]]
      BY <2>1, <3>2, <3>3 DEF Freed
    <3>5. fetched'[other] = fetched[other] /\ missed'[other] = missed[other]
          /\ answer'[other] = answer[other]
      BY <2>2, <2>4 DEF Forget, TypeOK
    <3> QED BY <1>a, <3>1, <3>4, <3>5
  <2> QED BY <2>3, <2>4 DEF RowInv
<1>6. ASSUME NEW k \in Cursors, fetchone(k) \/ fetchall(k) PROVE RowInv'
  <2> DEFINE r == result_[k]
             res == heap[r]
             more == "SUCCESS" \in NextAnswers(res)
             left == IF more THEN [i \in 1..res.rows - res.pos |-> res.pos + i] ELSE <<>>
  <2>1. r \in Results /\ res # Null /\ r # Null
    BY <1>6, FetchStep, NullAssumption
  <2>2. res \in SeekdbResultImpl BY <2>1 DEF TypeOK
  <2>3. res.pos \in Nat /\ res.rows \in Int
    BY <2>2, RowsAssumption DEF SeekdbResultImpl, NoSet
  <2>4. /\ more <=> res.pos < res.rows
        /\ ~more => res.pos >= res.rows
        /\ "SUCCESS" \notin EndAnswers(res)
        /\ \A code \in NextAnswers(res) : code # "SUCCESS" => ~more
    BY <2>3 DEF NextAnswers, EndAnswers
  <2>5. Delivered(fetched[k], ~missed[k], answer[k], res)
    BY <2>1 DEF RowInv, RowOf
  <2>6. fetched[k] \in Seq(1..MaxRows) /\ missed[k] \in BOOLEAN BY DEF TypeOK
  <2>7. ASSUME NEW other \in Cursors, other # k,
               UNCHANGED heap \/ \E n : heap' = [heap EXCEPT ![r] = n]
        PROVE  RowOf(other)'
    <3>1. result_' = result_ /\ fetched'[other] = fetched[other] /\ missed'[other] = missed[other]
          /\ answer'[other] = answer[other]
      BY <1>6, <2>7 DEF fetchone, fetchall, TypeOK
    <3>2. result_[other] # Null => result_[other] \in Results /\ result_[other] # r
      BY <2>7 DEF HeapInv, TypeOK
    <3>3. result_[other] # Null => heap'[result_[other]] = heap[result_[other]]
      BY <2>7, <3>2 DEF TypeOK
    <3> QED BY <1>a, <3>1, <3>3
  <2> HIDE DEF more, left, res
  <2>8. ASSUME Delivered(fetched'[k], ~missed'[k], answer'[k], heap'[r]), result_'[k] = r
        PROVE  RowOf(k)'
    BY <2>1, <2>8 DEF RowOf
  <2>9. result_' = result_ BY <1>6 DEF fetchone, fetchall
  <2>10. ASSUME NEW next, heap' = [heap EXCEPT ![r] = next],
                Delivered(fetched'[k], ~missed'[k], answer'[k], next)
         PROVE  RowInv'
    <3>1. heap'[r] = next BY <2>1, <2>10 DEF TypeOK
    <3>2. RowOf(k)' BY <2>8, <2>9, <2>10, <3>1
    <3>3. \E n : heap' = [heap EXCEPT ![r] = n] BY <2>10
    <3> QED BY <2>7, <3>2, <3>3 DEF RowInv
  <2>11. CASE fetchone(k)
    <3>1. PICK code \in NextAnswers(res) :
            /\ answer' = [answer EXCEPT ![k] = code]
            /\ \/ /\ code = "SUCCESS"
                  /\ heap' = [heap EXCEPT ![r].pos = @ + 1]
                  /\ \/ /\ fetched' = [fetched EXCEPT ![k] = Append(@, heap[r].pos + 1)]
                        /\ UNCHANGED missed
                     \/ missed' = [missed EXCEPT ![k] = TRUE] /\ UNCHANGED fetched
               \/ code # "SUCCESS" /\ UNCHANGED <<heap, fetched, missed>>
      BY <2>11 DEF fetchone, res
    <3>2. answer'[k] = code BY <3>1 DEF TypeOK
    <3>3. CASE code = "SUCCESS"
      <4> DEFINE next == [res EXCEPT !.pos = res.pos + 1]
      <4>1. heap' = [heap EXCEPT ![r] = next] BY <3>1, <3>3 DEF res
      <4>2. /\ Delivered(Append(fetched[k], res.pos + 1), ~missed[k], "SUCCESS", next)
            /\ Delivered(fetched[k], FALSE, "SUCCESS", next)
        <5>1. more BY <3>1, <3>3 DEF more
        <5> QED BY <2>2, <2>4, <2>5, <2>6, <5>1, OneMore
      <4>3. \/ fetched'[k] = Append(fetched[k], res.pos + 1) /\ missed'[k] = missed[k]
            \/ fetched'[k] = fetched[k] /\ missed'[k] = TRUE
        BY <3>1, <3>3 DEF TypeOK, res
      <4> HIDE DEF next
      <4>4. CASE fetched'[k] = Append(fetched[k], res.pos + 1) /\ missed'[k] = missed[k]
        <5>1. Delivered(fetched'[k], ~missed'[k], answer'[k], next) BY <3>2, <3>3, <4>2, <4>4
        <5> QED BY <2>10, <4>1, <5>1
      <4>5. CASE fetched'[k] = fetched[k] /\ missed'[k] = TRUE
        <5>1. Delivered(fetched'[k], ~missed'[k], answer'[k], next) BY <3>2, <3>3, <4>2, <4>5
        <5> QED BY <2>10, <4>1, <5>1
      <4> QED BY <4>3, <4>4, <4>5
    <3>4. CASE code # "SUCCESS"
      <4>1. UNCHANGED <<heap, fetched, missed>> BY <3>1, <3>4
      <4>2. Delivered(fetched[k], ~missed[k], code, res)
        BY <2>4, <2>5, <3>1, <3>4 DEF Delivered
      <4>3. RowOf(k)' BY <2>8, <2>9, <3>2, <4>1, <4>2 DEF res
      <4> QED BY <2>7, <4>1, <4>3 DEF RowInv
    <3> QED BY <3>3, <3>4
  <2>12. CASE fetchall(k)
    <3>1. \/ /\ \E i \in 1..Len(left) : heap' = [heap EXCEPT ![r].pos = left[i]]
             /\ missed' = [missed EXCEPT ![k] = TRUE]
             /\ answer' = [answer EXCEPT ![k] = "SUCCESS"]
             /\ UNCHANGED fetched
          \/ /\ heap' = [heap EXCEPT ![r].pos = IF more THEN res.rows ELSE @]
             /\ fetched' = [fetched EXCEPT ![k] = @ \o left]
             /\ \E code \in EndAnswers(res) : answer' = [answer EXCEPT ![k] = code]
             /\ UNCHANGED missed
      BY <2>12 DEF fetchall, res, more, left
    <3>2. CASE /\ \E i \in 1..Len(left) : heap' = [heap EXCEPT ![r].pos = left[i]]
               /\ missed' = [missed EXCEPT ![k] = TRUE]
               /\ answer' = [answer EXCEPT ![k] = "SUCCESS"]
               /\ UNCHANGED fetched
      <4>1. PICK i \in 1..Len(left) : heap' = [heap EXCEPT ![r].pos = left[i]] BY <3>2
      <4>2. more BY <4>1 DEF left
      <4>3. res.rows - res.pos \in Nat BY <2>3, <2>4, <4>2
      <4>4. left = [j \in 1..res.rows - res.pos |-> res.pos + j] BY <4>2 DEF left
      <4>5. left[i] = res.pos + i /\ i \in 1..res.rows - res.pos BY <4>1, <4>3, <4>4
      <4> DEFINE next == [res EXCEPT !.pos = left[i]]
      <4>6. heap' = [heap EXCEPT ![r] = next] BY <4>1 DEF res
      <4>7. next.pos = res.pos + i /\ next.rows = res.rows BY <2>2, <4>5 DEF SeekdbResultImpl
      <4>8. fetched'[k] = fetched[k] /\ missed'[k] = TRUE /\ answer'[k] = "SUCCESS"
        BY <3>2 DEF TypeOK
      <4>9. \A j \in 1..Len(fetched[k]) : fetched[k][j] \in Nat
        BY <2>6, RowsAssumption
      <4> HIDE DEF next
      <4>10. Delivered(fetched[k], FALSE, "SUCCESS", next)
        BY <2>3, <2>5, <4>5, <4>7, <4>9 DEF Delivered, Ended
      <4> QED BY <2>10, <4>6, <4>8, <4>10
    <3>3. CASE /\ heap' = [heap EXCEPT ![r].pos = IF more THEN res.rows ELSE @]
               /\ fetched' = [fetched EXCEPT ![k] = @ \o left]
               /\ \E code \in EndAnswers(res) : answer' = [answer EXCEPT ![k] = code]
               /\ UNCHANGED missed
      <4>1. fetched'[k] = fetched[k] \o left /\ missed'[k] = missed[k] BY <3>3 DEF TypeOK
      <4>2. CASE more
        <5> DEFINE next == [res EXCEPT !.pos = res.rows]
        <5>1. heap' = [heap EXCEPT ![r] = next] BY <3>3, <4>2 DEF res
        <5>2. Delivered(fetched[k] \o [i \in 1..res.rows - res.pos |-> res.pos + i], ~missed[k], answer'[k], next)
          BY <2>2, <2>4, <2>5, <2>6, <4>2, AllMore
        <5>3. left = [i \in 1..res.rows - res.pos |-> res.pos + i] BY <4>2 DEF left
        <5> HIDE DEF next
        <5> QED BY <2>10, <4>1, <5>1, <5>2, <5>3
      <4>3. CASE ~more
        <5>1. left = <<>> BY <4>3 DEF left
        <5>2. fetched'[k] = fetched[k] BY <2>6, <4>1, <5>1, ConcatEmptySeq
        <5>3. heap' = [heap EXCEPT ![r] = res]
          <6>1. [res EXCEPT !.pos = res.pos] = res BY <2>2 DEF SeekdbResultImpl
          <6> QED BY <3>3, <4>3, <6>1 DEF res
        <5>4. Delivered(fetched[k], ~missed[k], answer'[k], res)
          BY <2>4, <2>5, <4>3 DEF Delivered
        <5> QED BY <2>10, <4>1, <5>2, <5>3, <5>4
      <4> QED BY <4>2, <4>3
    <3> QED BY <3>1, <3>2, <3>3
  <2> QED BY <1>6, <2>11, <2>12
<1>7. CASE UNCHANGED vars
  BY <1>7, <1>b DEF vars
<1> QED BY <1>1, <1>2, <1>3, <1>4, <1>5, <1>6, <1>7 DEF Next

\* Nothing has been given yet.
LEMMA RowInit == Init => RowInv
BY DEF Init, RowInv, RowOf

\* A cursor gives the rows of its statement in order, each once, and answers the end only
\* after all of them: whatever other statements, conversions and closes do meanwhile.
THEOREM DeliveredRows == Spec => []RowsDelivered
<1>1. IInv /\ RowInv => RowsDelivered
  <2> SUFFICES ASSUME IInv, RowInv, NEW k \in Cursors
               PROVE  /\ \A i, j \in 1..Len(fetched[k]) : i < j => fetched[k][i] < fetched[k][j]
                      /\ answer[k] \in {"NO_MORE_ROWS", "INTERNAL_ERROR"} /\ ~missed[k] =>
                           fetched[k] = [i \in 1..heap[result_[k]].rows |-> i]
    BY DEF RowsDelivered
  <2>1. fetched[k] \in Seq(1..MaxRows) BY DEF IInv, TypeOK
  <2>2. CASE result_[k] = Null
    BY <2>2 DEF RowInv, RowOf
  <2>3. CASE result_[k] # Null
    <3> DEFINE res == heap[result_[k]]
    <3>1. Delivered(fetched[k], ~missed[k], answer[k], res) BY <2>3 DEF RowInv, RowOf
    <3>2. res \in SeekdbResultImpl
      BY <2>3 DEF IInv, ResultInv, live, TypeOK
    <3>3. res.pos \in Nat /\ res.rows \in Int BY <3>2, RowsAssumption DEF SeekdbResultImpl, NoSet
    <3> HIDE DEF res
    <3>4. ASSUME answer[k] \in {"NO_MORE_ROWS", "INTERNAL_ERROR"}, ~missed[k]
          PROVE  fetched[k] = [i \in 1..res.rows |-> i]
      <4>1. res.pos >= res.rows /\ (res.pos = 0 \/ res.pos <= res.rows)
        BY <3>1, <3>4 DEF Delivered, Ended
      <4>2. Len(fetched[k]) = res.pos /\ \A i \in 1..Len(fetched[k]) : fetched[k][i] = i
        BY <3>1, <3>4 DEF Delivered
      <4>3. 1..res.pos = 1..res.rows BY <3>3, <4>1
      <4>4. fetched[k] = [i \in 1..Len(fetched[k]) |-> fetched[k][i]] BY <2>1
      <4> QED BY <4>2, <4>3, <4>4
    <3> QED BY <3>1, <3>4 DEF Delivered, res
  <2> QED BY <2>2, <2>3
<1>2. IInv /\ RowInv /\ [Next]_vars => RowInv'
  BY RowStep DEF IInv, NothingLost, HeapInv
<1> QED BY <1>1, <1>2, RowInit, ConnectionInvariant, PTL DEF Spec

-----------------------------------------------------------------------------
(* The values of the cells                                                 *)

\* What a cell says is read off the record that stands for it.
LEMMA TextFields ==
  ASSUME NEW kind, NEW classes, NEW numbers, NEW digits, NEW wide,
         NEW t \in Texts(kind, classes, numbers, digits, wide)
  PROVE  /\ t.kind = kind /\ t.class \in classes /\ t.number \in numbers
         /\ t.digits \in digits /\ t.wide \in wide
BY DEF Texts

\* NULL is None, whatever the type of its field.
LEMMA NullCell ==
  ASSUME NEW f, NEW cell \in Says("null", {"null"})
  PROVE  get_value(f, cell) = {Meaning(cell)}
<1>1. cell.kind = "null"
  BY TextFields DEF Says
<1>2. get_str(cell).is_null
  BY <1>1 DEF get_str
<1> QED
  BY <1>1, <1>2 DEF get_value, Meaning

\* A number of the field's type passes its getter unchanged: nothing is wrapped or refused.
LEMMA IntegerCell ==
  ASSUME NEW f \in Fields, f.type \in IntegerTypes,
         NEW cell \in Counts(IF f.unsigned THEN uint64_t ELSE int64_t)
  PROVE  \/ get_value(f, cell) = {Meaning(cell)}
         \/ cell.wide /\ get_value(f, cell) = {Raised}
<1> DEFINE n == cell.number
<1>1. /\ cell.kind = "integer" /\ cell.class = "number" /\ cell.wide \in BOOLEAN
      /\ n \in IF f.unsigned THEN uint64_t ELSE int64_t
  BY TextFields DEF Counts
<1>2. 2 ^ Bits \in Int /\ 2 ^ (Bits - 1) \in Int
  BY WidthsAssumption
<1>3. n \in Int
  BY <1>1, <1>2 DEF uint64_t, int64_t
<1>4. Meaning(cell) = Object("int", "number", n)
  BY <1>1, <1>3 DEF Meaning, Class
<1>5. ~get_str(cell).is_null
  BY <1>1 DEF get_str
<1>R. /\ Checked("int", Error) = Raised
      /\ Checked("int", Value("number", n)) = Object("int", "number", n)
  BY DEF Checked, Error, Value, Raised
<1>6. CASE f.unsigned
  <2>1. map_field_type(f) = "UINT64"
    BY <1>6 DEF map_field_type, IntegerTypes
  <2>2. get_value(f, cell) = {Checked("int", get_uint64(cell))}
    BY <1>5, <2>1 DEF get_value
  <2>3. n >= 0 /\ n < 2 ^ Bits
    BY <1>1, <1>2, <1>6 DEF uint64_t
  <2>4. ~(n >= 2 ^ Bits) /\ ~(-n >= 2 ^ Bits) /\ n % 2 ^ Bits = n
    BY <1>2, <1>3, <2>3
  <2>5. get_uint64(cell) = IF cell.wide THEN Error ELSE Value("number", n)
    BY <1>1, <2>4 DEF get_uint64
  <2> QED
    <3>1. CASE cell.wide
      BY <1>R, <2>2, <2>5, <3>1
    <3>2. CASE ~cell.wide
      BY <1>4, <1>R, <2>2, <2>5, <3>2
    <3> QED
      BY <1>1, <3>1, <3>2
<1>7. CASE ~f.unsigned
  <2>1. map_field_type(f) = "INT64"
    BY <1>7 DEF map_field_type, IntegerTypes
  <2>2. get_value(f, cell) = {Checked("int", get_int64(cell))}
    BY <1>5, <2>1 DEF get_value
  <2>3. get_int64(cell) = IF cell.wide THEN Error ELSE Value("number", n)
    BY <1>1, <1>7 DEF get_int64
  <2> QED
    <3>1. CASE cell.wide
      BY <1>R, <2>2, <2>3, <3>1
    <3>2. CASE ~cell.wide
      BY <1>4, <1>R, <2>2, <2>3, <3>2
    <3> QED
      BY <1>1, <3>1, <3>2
<1> QED
  BY <1>6, <1>7

\* A real is what strtod reads, except one it may call out of range.
LEMMA RealCell ==
  ASSUME NEW f \in Fields, f.type \in {"FLOAT", "DOUBLE"},
         NEW cell \in Texts("real", {"zero", "normal", "subnormal"}, {0}, {0}, BOOLEAN)
  PROVE  \/ get_value(f, cell) = {Meaning(cell)}
         \/ cell.wide /\ get_value(f, cell) = {Raised}
         \/ cell.class = "subnormal" /\ get_value(f, cell) = {Meaning(cell), Raised}
<1>1. /\ cell.kind = "real" /\ cell.class \in {"zero", "normal", "subnormal"}
      /\ cell.number = 0 /\ cell.wide \in BOOLEAN
  BY TextFields
<1>2. map_field_type(f) = "FLOAT"
  BY DEF map_field_type, IntegerTypes
<1>3. get_value(f, cell) = {Checked("float", r) : r \in get_float(cell)}
  BY <1>1, <1>2 DEF get_value, get_str
<1>4. Meaning(cell) = Object("float", cell.class, 0)
  BY <1>1 DEF Meaning, Class
<1>5. Checked("float", Value(cell.class, 0)) = Meaning(cell) /\ Checked("float", Error) = Raised
  BY <1>4 DEF Checked, Error, Value
<1>6. CASE cell.wide
  BY <1>1, <1>3, <1>5, <1>6 DEF get_float
<1>7. CASE ~cell.wide /\ cell.class = "subnormal"
  BY <1>1, <1>3, <1>5, <1>7 DEF get_float
<1>8. CASE ~cell.wide /\ cell.class # "subnormal"
  BY <1>1, <1>3, <1>5, <1>8 DEF get_float
<1> QED
  BY <1>6, <1>7, <1>8

\* A moment keeps its microseconds; a shorter fraction than those is the exception.
LEMMA MomentCell ==
  ASSUME NEW f \in Fields, f.type \in {"DATETIME", "TIMESTAMP"}, NEW cell \in Moments
  PROVE  \/ get_value(f, cell) = {Meaning(cell)}
         \/ cell.class = "zero" /\ cell.kind = "time" /\ get_value(f, cell) = {Raised}
         \/ ShortFraction(cell)
<1>1. /\ cell.kind = "time" /\ cell.class \in {"day", "zero"}
      /\ cell.number \in 0 .. 10 ^ MicroDigits - 1 /\ cell.digits \in 0..MicroDigits
  <2> DEFINE numbers == 0 .. 10 ^ MicroDigits - 1
             digits == 0..MicroDigits
  <2>1. cell \in Texts("time", {"day", "zero"}, numbers, digits, {FALSE})
    BY DEF Moments
  <2> HIDE DEF numbers, digits
  <2>2. /\ cell.kind = "time" /\ cell.class \in {"day", "zero"}
        /\ cell.number \in numbers /\ cell.digits \in digits
    BY <2>1, TextFields
  <2> QED
    BY <2>2 DEF numbers, digits
<1>2. map_field_type(f) = f.type
  BY DEF map_field_type, IntegerTypes
<1>3. get_value(f, cell) = {datetime(cell)}
  BY <1>1, <1>2 DEF get_value, get_str
<1>4. CASE cell.class = "zero"
  BY <1>1, <1>3, <1>4 DEF datetime
<1>5. CASE cell.class = "day" /\ ~ShortFraction(cell)
  <2> DEFINE unit == 10 ^ (MicroDigits - cell.digits)
  <2>1. cell.digits \in Int /\ MicroDigits - cell.digits \in Nat /\ unit \in Int
    BY <1>1, WidthsAssumption
  <2>2. cell.number \in Int
    BY <1>1
  <2>3. cell.number * unit = cell.number
    <3>1. CASE cell.number = 0
      BY <2>1, <3>1
    <3>2. CASE cell.number # 0
      <4>1. MicroDigits - cell.digits = 0
        BY <1>1, <1>5, <3>2, WidthsAssumption DEF ShortFraction
      <4>2. unit = 1
        <5>1. 10 ^ 0 = 1
          OBVIOUS
        <5> QED
          BY <4>1, <5>1
      <4> QED
        BY <2>2, <4>2
    <3> QED
      BY <3>1, <3>2
  <2> QED
    BY <1>1, <1>3, <1>5, <2>3 DEF datetime, Meaning, Class
<1> QED
  BY <1>1, <1>4, <1>5

\* Decimals, dates and texts are made from the text itself, if there is such an object.
LEMMA OtherCell ==
  ASSUME NEW f \in Fields,
         NEW cell,
         \/ f.type \in {"DECIMAL", "NEWDECIMAL"} /\ cell \in Says("decimal", {"exact"})
         \/ f.type = "DATE" /\ cell \in Says("date", {"day", "zero"})
         \/ f.type \in TextTypes /\ cell \in Says("text", {"utf8", "binary"})
  PROVE  \/ get_value(f, cell) = {Meaning(cell)}
         \/ Unrepresentable(cell) /\ get_value(f, cell) = {Raised}
<1>1. CASE f.type \in {"DECIMAL", "NEWDECIMAL"} /\ cell \in Says("decimal", {"exact"})
  <2>1. cell.kind = "decimal" /\ cell.class = "exact" /\ cell.number = 0
    BY <1>1, TextFields DEF Says
  <2>2. map_field_type(f) = "DECIMAL"
    BY <1>1 DEF map_field_type, IntegerTypes
  <2> QED
    <3>1. get_value(f, cell) = {Object("Decimal", cell.class, 0)}
      BY <2>1, <2>2 DEF get_value, get_str
    <3>2. Meaning(cell) = Object("Decimal", cell.class, 0)
      BY <2>1 DEF Meaning, Class
    <3> QED
      BY <3>1, <3>2
<1>2. CASE f.type = "DATE" /\ cell \in Says("date", {"day", "zero"})
  <2>1. cell.kind = "date" /\ cell.class \in {"day", "zero"} /\ cell.number = 0
    BY <1>2, TextFields DEF Says
  <2>2. map_field_type(f) = "DATE"
    BY <1>2 DEF map_field_type, IntegerTypes
  <2>3. get_value(f, cell) = {date(cell)}
    BY <2>1, <2>2 DEF get_value, get_str
  <2> QED
    BY <2>1, <2>3 DEF date, Meaning, Class, Unrepresentable
<1>3. CASE f.type \in TextTypes /\ cell \in Says("text", {"utf8", "binary"})
  <2>1. cell.kind = "text" /\ cell.class \in {"utf8", "binary"} /\ cell.number = 0
    BY <1>3, TextFields DEF Says
  <2>2. map_field_type(f) = "VARCHAR"
    BY <1>3 DEF map_field_type, IntegerTypes, TextTypes
  <2>3. get_value(f, cell) = {str(cell)}
    BY <2>1, <2>2 DEF get_value, get_str
  <2> QED
    BY <2>1, <2>3 DEF str, Meaning, Class, Unrepresentable
<1> QED
  BY <1>1, <1>2, <1>3

\* Every cell a server can send, at any width of integers and fractions.
LEMMA EveryCell == CellsFaithful
<1> SUFFICES ASSUME NEW f \in Fields, NEW cell \in Sent(f)
             PROVE  \/ get_value(f, cell) = {Meaning(cell)}
                    \/ Unrepresentable(cell) /\ get_value(f, cell) \subseteq {Meaning(cell), Raised}
                    \/ ShortFraction(cell)
  BY DEF CellsFaithful
<1>0. f.type \in FieldTypes
  BY DEF Fields
<1>1. CASE cell \in Says("null", {"null"})
  BY <1>1, NullCell
<1>2. CASE cell \notin Says("null", {"null"})
  <2>1. CASE f.type \in IntegerTypes
    <3>1. cell \in Counts(IF f.unsigned THEN uint64_t ELSE int64_t)
      BY <1>2, <2>1 DEF Sent, IntegerTypes
    <3> QED
      BY <2>1, <3>1, IntegerCell DEF Unrepresentable
  <2>2. CASE f.type \in {"FLOAT", "DOUBLE"}
    <3>1. cell \in Texts("real", {"zero", "normal", "subnormal"}, {0}, {0}, BOOLEAN)
      BY <1>2, <2>2 DEF Sent, IntegerTypes
    <3> QED
      BY <2>2, <3>1, RealCell DEF Unrepresentable
  <2>3. CASE f.type \in {"DATETIME", "TIMESTAMP"}
    <3>1. cell \in Moments
      BY <1>2, <2>3 DEF Sent, IntegerTypes
    <3> QED
      BY <2>3, <3>1, MomentCell DEF Unrepresentable
  <2>4. CASE f.type \in {"DECIMAL", "NEWDECIMAL"}
    <3>1. cell \in Says("decimal", {"exact"})
      BY <1>2, <2>4 DEF Sent, IntegerTypes
    <3> QED
      BY <2>4, <3>1, OtherCell
  <2>5. CASE f.type = "DATE"
    <3>1. cell \in Says("date", {"day", "zero"})
      BY <1>2, <2>5 DEF Sent, IntegerTypes
    <3> QED
      BY <2>5, <3>1, OtherCell
  <2>6. CASE f.type \in TextTypes
    <3>1. cell \in Says("text", {"utf8", "binary"})
      BY <1>2, <2>6 DEF Sent, IntegerTypes, TextTypes
    <3> QED
      BY <2>6, <3>1, OtherCell
  <2>7. f.type # "NULL"
    BY <1>2 DEF Sent, IntegerTypes
  <2> QED
    BY <1>0, <2>1, <2>2, <2>3, <2>4, <2>5, <2>6, <2>7 DEF FieldTypes
<1> QED
  BY <1>1, <1>2

\* What any cursor delivered are the values its cells said, for integers and fractions of
\* any width (map_field_type, the typed getters, Cursor::get_value).
THEOREM FaithfulValues == Spec => []ValuesFaithful
<1>1. ValuesFaithful
  BY EveryCell DEF ValuesFaithful
<1> QED
  BY <1>1, PTL
=============================================================================

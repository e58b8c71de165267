--------------------------- MODULE DbWriteProofs ---------------------------
(***************************************************************************)
(* Proofs about DbWrite for every set of children, nodes and dates and any *)
(* number of records, documents and failures: a document is committed as a *)
(* whole or not at all, and the files tell exactly what was committed.     *)
(***************************************************************************)
EXTENDS DbWrite, TLAPS

LEMMA Steps == ASSUME [Next]_vars
               PROVE  \/ Get \/ AddXmlRecord \/ AddBroken
                      \/ NothingToExecute \/ SelectRealwork \/ UpdateRow \/ BeginInsert
                      \/ InsertRow \/ Commit \/ Publish
                      \/ ExecuteFails \/ ExecuteBroken \/ CommitBroken
                      \/ Reconnect \/ LogonFails \/ Kill
                      \/ UNCHANGED vars
BY DEF Next, Thread, AllDone

-----------------------------------------------------------------------------
(* The types, in the parts the steps change.                               *)
InputType == /\ rec \in Content \cup {EndFlag} /\ hasCstNo \in BOOLEAN
             /\ records \in 0..MaxRecords /\ batches \in 0..MaxBatches
             /\ records = 0 \/ batches < MaxBatches

ControlType == /\ pc \in {"get", "run", "update", "insert", "publish", "reconnect"}
               /\ up \in BOOLEAN /\ m_skip \in BOOLEAN /\ term \in BOOLEAN /\ cut \in BOOLEAN
               /\ times \in 0..RetryNumber /\ faults \in 0..MaxFaults
               /\ pc = "reconnect" => times >= 1

DataType == /\ m_xmlMap \in [Children -> Work \cup Cancel \cup {None}]
            /\ m_dbMap \in [Children -> Row \cup {None}]
            /\ table \in [Children -> Row \cup {None}]
            /\ session \in [Children -> Row \cup {None}]
            /\ todo \subseteq Children

(* What the loops have still to do, and what a commit will bring about.    *)
Want(c) == IF m_xmlMap[c] = None \/ Cancelled(c) THEN None ELSE RowOf(m_xmlMap[c])

(* The transaction as far as the loops have come: every row of the table   *)
(* is replaced by what the buffer wants of it, then the new ones are added.*)
Stored == {c \in Children : m_dbMap[c] # None}

Loops ==
    /\ pc \in {"update", "insert"} => m_dbMap = table
    /\ pc = "update" =>
          /\ todo \subseteq Stored
          /\ \A c \in Children : session[c] = IF c \in Stored \ todo THEN Want(c) ELSE m_dbMap[c]
          /\ file = UNION {LinesOf(c) : c \in Stored \ todo}
    /\ pc = "insert" =>
          /\ \A c \in todo : m_xmlMap[c] # None /\ ~Cancelled(c)
          /\ \A c \in Children : session[c] = IF c \in todo THEN None ELSE Want(c)
          /\ file = UNION {LinesOf(c) : c \in Stored}

(* The transaction is closed but while a document is executed.             *)
Closed == /\ pc \in {"get", "run", "reconnect", "publish"} => session = table
          /\ pc \in {"get", "run", "reconnect"} => file = {}
          /\ pc \in {"update", "insert", "publish"} => rec.end
          /\ pc = "reconnect" \/ pc = "run" => rec.end \/ records > 0
          /\ pc = "get" /\ records = 0 => m_xmlMap = Empty /\ m_dbMap = Empty

LEMMA NextControlType == ControlType /\ [Next]_vars => ControlType'
<1> SUFFICES ASSUME ControlType, [Next]_vars PROVE ControlType'
  OBVIOUS
<1> USE DbWriteAssumption DEF ControlType, input, conn, csv
<1>1. CASE Get \/ AddXmlRecord \/ NothingToExecute \/ SelectRealwork \/ UpdateRow \/ BeginInsert
  BY <1>1 DEF Get, AddXmlRecord, NothingToExecute, SelectRealwork, UpdateRow, BeginInsert
<1>2. CASE InsertRow \/ Commit \/ Publish \/ Reconnect
  <2>1. /\ pc' \in {"insert", "publish", "get", "run"} /\ up' \in BOOLEAN
        /\ UNCHANGED <<m_skip, term, cut, times, faults>>
    BY <1>2 DEF InsertRow, Commit, Publish, Reconnect
  <2>2. m_skip' \in BOOLEAN /\ term' \in BOOLEAN /\ cut' \in BOOLEAN
    BY <2>1
  <2>3. times' \in 0..RetryNumber /\ faults' \in 0..MaxFaults
    BY <2>1
  <2>4. /\ pc' \in {"get", "run", "update", "insert", "publish", "reconnect"}
        /\ up' \in BOOLEAN /\ pc' # "reconnect"
    BY <2>1
  <2>5. QED BY <2>2, <2>3, <2>4
<1>3. CASE AddBroken \/ ExecuteBroken \/ ExecuteFails \/ CommitBroken
  <2>1. /\ faults' \in 0..MaxFaults /\ times' \in 0..RetryNumber /\ pc' \in {"get", "reconnect"}
        /\ pc' = "reconnect" => times' >= 1
    BY <1>3 DEF AddBroken, ExecuteBroken, ExecuteFails, CommitBroken, Broken, Fault
  <2>2. up' \in BOOLEAN /\ cut' \in BOOLEAN
    BY <1>3 DEF AddBroken, ExecuteBroken, ExecuteFails, CommitBroken, Broken
  <2>3. m_skip' \in BOOLEAN /\ term' \in BOOLEAN
    BY <1>3 DEF AddBroken, ExecuteBroken, ExecuteFails, CommitBroken
  <2>4. pc' \in {"get", "run", "update", "insert", "publish", "reconnect"}
    BY <2>1
  <2>5. QED BY <2>1, <2>2, <2>3, <2>4
<1>4. CASE LogonFails
  <2>1. times' = times - 1 /\ times >= 1 /\ UNCHANGED <<up, cut, faults>>
    BY <1>4 DEF LogonFails
  <2>2. CASE Exhausted
    BY <1>4, <2>1, <2>2 DEF LogonFails, Exhausted, GiveUp
  <2>3. CASE ~Exhausted
    BY <1>4, <2>1, <2>3 DEF LogonFails, Exhausted
  <2>4. QED BY <2>2, <2>3
<1>5. CASE Kill
  <2>1. pc' = "get" /\ faults' \in 0..MaxFaults /\ times' = RetryNumber
    BY <1>5 DEF Kill, Fault
  <2>2. up' \in BOOLEAN /\ m_skip' \in BOOLEAN /\ term' \in BOOLEAN /\ cut' \in BOOLEAN
    BY <1>5 DEF Kill
  <2>3. QED BY <2>1, <2>2
<1>6. CASE UNCHANGED vars
  BY <1>6 DEF vars
<1>7. QED BY Steps, <1>1, <1>2, <1>3, <1>4, <1>5, <1>6

LEMMA NextInputType == InputType /\ Closed /\ [Next]_vars => InputType'
<1> SUFFICES ASSUME InputType, Closed, [Next]_vars PROVE InputType'
  OBVIOUS
<1> USE DbWriteAssumption DEF InputType, input, conn, csv
<1>1. CASE Get
  <2>1. rec' \in Content \cup {EndFlag} /\ hasCstNo' = hasCstNo
    BY <1>1 DEF Get
  <2>2. /\ records' \in 0..MaxRecords /\ batches' \in 0..MaxBatches
        /\ records' = 0 \/ batches' < MaxBatches
    BY <1>1 DEF Get
  <2>3. QED BY <2>1, <2>2
<1>2. CASE AddXmlRecord
  <2>1. hasCstNo' \in BOOLEAN
    <3>1. EndFlag.end = TRUE
      BY DEF EndFlag
    <3>2. ~rec.end
      BY <1>2 DEF AddXmlRecord
    <3>3. rec \in Content
      BY <3>1, <3>2
    <3>4. rec.hasCstNo \in BOOLEAN
      BY <3>3 DEF Content
    <3>5. hasCstNo' \in {hasCstNo, rec.hasCstNo}
      BY <1>2 DEF AddXmlRecord
    <3>6. QED BY <3>4, <3>5
  <2>2. QED BY <1>2, <2>1 DEF AddXmlRecord
<1>3. CASE AddBroken
  BY <1>3 DEF AddBroken
<1>4. CASE Kill
  <2>1. records' = 0 /\ batches' = batches + (IF records = 0 THEN 0 ELSE 1)
    BY <1>4 DEF Kill
  <2>2. batches' \in 0..MaxBatches
    BY <2>1
  <2>3. rec' \in Content \cup {EndFlag} /\ hasCstNo' \in BOOLEAN
    BY <1>4 DEF Kill
  <2>4. QED BY <2>1, <2>2, <2>3
<1>5. CASE UNCHANGED <<rec, hasCstNo, records, batches>>
  BY <1>5
<1>6. QED
  <2>1. Get \/ AddXmlRecord \/ AddBroken \/ Kill \/ UNCHANGED <<rec, hasCstNo, records, batches>>
    BY Steps DEF NothingToExecute, SelectRealwork, UpdateRow, BeginInsert, InsertRow, Commit,
                 Publish, ExecuteFails, ExecuteBroken, CommitBroken, Reconnect, LogonFails, vars
  <2>2. QED BY <2>1, <1>1, <1>2, <1>3, <1>4, <1>5

-----------------------------------------------------------------------------
LEMMA Records ==
    /\ \A r \in Work \cup Cancel : RowOf(r) \in Row
    /\ Empty \in [Children -> Work \cup Cancel \cup {None}]
    /\ Empty \in [Children -> Row \cup {None}]
    /\ None \notin Row
    /\ \A r \in Content : r.end = FALSE /\ r.child \in Children /\ r.data \in Work \cup Cancel
    /\ EndFlag.end = TRUE
<1>1. \A r \in Work \cup Cancel : RowOf(r) \in Row
  BY DEF Work, Cancel, Row, RowOf, Date
<1>2. None \notin Row
  BY DbWriteAssumption DEF Row, Date
<1>3. \A r \in Content : r.end = FALSE /\ r.child \in Children /\ r.data \in Work \cup Cancel
  BY DEF Content
<1>4. QED BY <1>1, <1>2, <1>3 DEF Empty, EndFlag

LEMMA NextDataType == DataType /\ InputType /\ Loops /\ [Next]_vars => DataType'
<1> SUFFICES ASSUME DataType, InputType, Loops, [Next]_vars PROVE DataType'
  OBVIOUS
<1> DEFINE MapType == [Children -> Work \cup Cancel \cup {None}]
           TableType == [Children -> Row \cup {None}]
<1>0. m_xmlMap \in MapType /\ m_dbMap \in TableType /\ table \in TableType
      /\ session \in TableType /\ todo \subseteq Children
      /\ Empty \in MapType /\ Empty \in TableType
  BY Records DEF DataType
<1>a. \A c \in Children : m_xmlMap[c] # None => RowOf(m_xmlMap[c]) \in Row
  BY <1>0, Records
<1>b. \A c \in Children : [session EXCEPT ![c] = None] \in TableType
  BY <1>0
<1>c. \A c \in Children : m_xmlMap[c] # None => [session EXCEPT ![c] = RowOf(m_xmlMap[c])] \in TableType
  BY <1>0, <1>a
<1>d. MapType = [Children -> Work \cup Cancel \cup {None}] /\ TableType = [Children -> Row \cup {None}]
  OBVIOUS
<1> HIDE DEF MapType, TableType
<1> SUFFICES /\ m_xmlMap' \in MapType /\ m_dbMap' \in TableType /\ table' \in TableType
             /\ session' \in TableType /\ todo' \subseteq Children
  BY <1>d DEF DataType
<1> USE DEF input, conn, csv
<1>1. CASE AddXmlRecord
  <2>1. ASSUME rec \in Content PROVE MapInsert \in MapType
    BY <1>0, <1>d, <2>1, Records DEF MapInsert
  <2>2. rec \in Content
    BY <1>1, Records DEF AddXmlRecord, InputType
  <2>3. m_xmlMap' \in {m_xmlMap, MapInsert} /\ UNCHANGED <<m_dbMap, table, session, todo>>
    BY <1>1 DEF AddXmlRecord
  <2>4. QED BY <1>0, <2>1, <2>2, <2>3
<1>2. CASE UpdateRow \/ InsertRow
  <2>1. UNCHANGED <<m_xmlMap, m_dbMap, table>> /\ todo' \subseteq todo
    BY <1>2 DEF UpdateRow, InsertRow
  <2>2. session' \in TableType
    <3>1. CASE UpdateRow
      <4>1. PICK c \in Children : session' = Merged(c)
        BY <1>0, <3>1 DEF UpdateRow
      <4>2. QED BY <1>b, <1>c, <4>1 DEF Merged
    <3>2. CASE InsertRow
      <4>1. PICK c \in Children : /\ session' = [session EXCEPT ![c] = RowOf(m_xmlMap[c])]
                                  /\ m_xmlMap[c] # None
        BY <1>0, <3>2 DEF InsertRow, Loops
      <4>2. QED BY <1>c, <4>1
    <3>3. QED BY <1>2, <3>1, <3>2
  <2>3. QED BY <1>0, <2>1, <2>2
<1>3. CASE Get \/ AddBroken \/ Publish \/ NothingToExecute \/ SelectRealwork \/ BeginInsert
  <2>1. /\ m_xmlMap' \in {m_xmlMap, Empty} /\ m_dbMap' \in {m_dbMap, Empty, session}
        /\ table' = table /\ session' \in {session, table} /\ todo' \subseteq todo \cup Children
    BY <1>3 DEF Get, AddBroken, Broken, Publish, NothingToExecute, SelectRealwork, BeginInsert,
                ClearRecords
  <2>2. QED BY <1>0, <2>1
<1>4. CASE Commit \/ CommitBroken \/ ExecuteFails \/ ExecuteBroken
  <2>1. /\ m_xmlMap' \in {m_xmlMap, Empty} /\ m_dbMap' \in {m_dbMap, Empty}
        /\ table' \in {table, session} /\ session' \in {session, table} /\ todo' \subseteq todo
    BY <1>4 DEF Commit, CommitBroken, ExecuteFails, ExecuteBroken, Broken, Rollback, TakeEffect,
                ClearRecords
  <2>2. QED BY <1>0, <2>1
<1>5. CASE Kill
  <2>1. /\ m_xmlMap' = Empty /\ m_dbMap' = Empty /\ table' = table /\ session' = table
        /\ todo' = {}
    BY <1>5 DEF Kill
  <2>2. QED BY <1>0, <2>1
<1>6. CASE UNCHANGED <<m_xmlMap, m_dbMap, table, session, todo>>
  BY <1>0, <1>6
<1>7. QED
  <2>1. \/ UNCHANGED <<m_xmlMap, m_dbMap, table, session, todo>>
        \/ Get \/ AddXmlRecord \/ AddBroken \/ NothingToExecute \/ SelectRealwork \/ UpdateRow
        \/ BeginInsert \/ InsertRow \/ Commit \/ Publish \/ ExecuteFails \/ ExecuteBroken
        \/ CommitBroken \/ Kill
    BY Steps DEF Reconnect, LogonFails, vars
  <2>2. QED BY <2>1, <1>1, <1>2, <1>3, <1>4, <1>5, <1>6

(* The steps that leave the loops and the transaction as they are.         *)
LEMMA NextClosed == Closed /\ Loops /\ DataType /\ InputType /\ [Next]_vars => Closed'
<1> SUFFICES ASSUME Closed, Loops, DataType, InputType, [Next]_vars PROVE Closed'
  OBVIOUS
<1> USE DEF input, conn, csv
<1>0. Closed /\ EndFlag.end = TRUE /\ records \in Nat
  BY Records, DbWriteAssumption DEF InputType
<1>1. CASE Get
  <2>1. /\ pc' = "run" /\ UNCHANGED <<session, table, file>> /\ pc = "get"
        /\ records' > 0 \/ rec' = EndFlag
    BY <1>0, <1>1 DEF Get
  <2>2. QED BY <1>0, <2>1 DEF Closed
<1>2. CASE AddXmlRecord
  <2>1. /\ pc = "run" /\ ~rec.end /\ pc' = "get" /\ UNCHANGED <<session, table, file, records>>
    BY <1>2 DEF AddXmlRecord
  <2>2. QED BY <1>0, <2>1 DEF Closed
<1>3. CASE AddBroken
  BY <1>0, <1>3 DEF AddBroken, Broken, Closed
<1>4. CASE NothingToExecute \/ Publish
  BY <1>0, <1>4 DEF NothingToExecute, Publish, Rename, ClearRecords, Closed
<1>5. CASE SelectRealwork \/ BeginInsert \/ UpdateRow \/ InsertRow
  BY <1>0, <1>5 DEF SelectRealwork, BeginInsert, UpdateRow, InsertRow, Closed
<1>6. CASE Commit
  BY <1>0, <1>6 DEF Commit, TakeEffect, Closed
<1>7. CASE ExecuteFails
  BY <1>0, <1>7 DEF ExecuteFails, Rollback, ClearRecords, Closed
<1>8. CASE ExecuteBroken
  <2>1. rec.end
    BY <1>0, <1>8 DEF ExecuteBroken, Executing, Closed
  <2>2. QED BY <1>0, <1>8, <2>1 DEF ExecuteBroken, Broken, Closed
<1>9. CASE CommitBroken
  BY <1>0, <1>9 DEF CommitBroken, TakeEffect, Closed
<1>10. CASE Reconnect \/ LogonFails
  BY <1>0, <1>10 DEF Reconnect, LogonFails, Closed
<1>11. CASE Kill
  BY <1>11 DEF Kill, Closed
<1>12. CASE UNCHANGED vars
  BY <1>0, <1>12 DEF vars, Closed
<1>13. QED
  BY Steps, <1>1, <1>2, <1>3, <1>4, <1>5, <1>6, <1>7, <1>8, <1>9, <1>10, <1>11, <1>12

LEMMA NextLoops == Closed /\ Loops /\ DataType /\ [Next]_vars => Loops'
<1> SUFFICES ASSUME Closed, Loops, DataType, [Next]_vars PROVE Loops'
  OBVIOUS
<1> USE DEF input, conn, csv
<1>0. /\ session \in [Children -> Row \cup {None}] /\ m_dbMap \in [Children -> Row \cup {None}]
      /\ todo \subseteq Children
  BY DEF DataType
<1>1. CASE pc' \notin {"update", "insert"}
  BY <1>1 DEF Loops
<1>2. CASE SelectRealwork
  <2>1. /\ pc = "run" /\ pc' = "update" /\ m_dbMap' = session /\ UNCHANGED <<session, table, file>>
        /\ todo' = {c \in Children : session[c] # None}
    BY <1>2 DEF SelectRealwork
  <2>2. session = table /\ file = {} /\ todo' = Stored'
    BY <2>1 DEF Closed, Stored
  <2>3. UNION {LinesOf(c)' : c \in (Stored \ todo)'} = {}
    BY <2>2
  <2>4. QED BY <2>1, <2>2, <2>3 DEF Loops
<1>3. CASE UpdateRow
  <2>1. PICK c \in todo : session' = Merged(c) /\ file' = file \cup LinesOf(c) /\ todo' = todo \ {c}
    BY <1>3 DEF UpdateRow
  <2>2. UNCHANGED <<pc, m_xmlMap, m_dbMap, table>> /\ pc = "update"
    BY <1>3 DEF UpdateRow
  <2>3. /\ \A d : Want(d)' = Want(d) /\ LinesOf(d)' = LinesOf(d)
        /\ Stored' = Stored
    BY <2>2 DEF Want, Cancelled, LinesOf, Stored
  <2>4. c \in Children /\ session' = [session EXCEPT ![c] = Want(c)]
    BY <1>0, <2>1 DEF Merged, Want
  <2>5. (Stored \ todo)' = (Stored \ todo) \cup {c} /\ todo \subseteq Stored
    BY <2>1, <2>2, <2>3 DEF Loops
  <2>6. \A d \in Children : session'[d] = IF d \in (Stored \ todo)' THEN Want(d) ELSE m_dbMap[d]
    BY <1>0, <2>2, <2>4, <2>5 DEF Loops
  <2>7. file' = UNION {LinesOf(d) : d \in (Stored \ todo)'}
    BY <2>1, <2>2, <2>5 DEF Loops
  <2>8. QED BY <2>1, <2>2, <2>3, <2>5, <2>6, <2>7 DEF Loops
<1>4. CASE BeginInsert
  <2>1. /\ pc = "update" /\ todo = {} /\ pc' = "insert"
        /\ todo' = {c \in Children : m_xmlMap[c] # None /\ ~Cancelled(c) /\ m_dbMap[c] = None}
        /\ UNCHANGED <<m_xmlMap, m_dbMap, table, session, file>>
    BY <1>4 DEF BeginInsert
  <2>2. /\ \A d : Want(d)' = Want(d) /\ LinesOf(d)' = LinesOf(d) /\ (Cancelled(d)' <=> Cancelled(d))
        /\ Stored' = Stored
    BY <2>1 DEF Want, Cancelled, LinesOf, Stored
  <2>3. \A d \in Children : session[d] = IF d \in todo' THEN None ELSE Want(d)
    BY <2>1 DEF Loops, Stored, Want
  <2>4. file = UNION {LinesOf(d) : d \in Stored}
    BY <2>1 DEF Loops
  <2>5. QED BY <2>1, <2>2, <2>3, <2>4 DEF Loops
<1>5. CASE InsertRow
  <2>1. PICK c \in todo : session' = [session EXCEPT ![c] = RowOf(m_xmlMap[c])] /\ todo' = todo \ {c}
    BY <1>5 DEF InsertRow
  <2>2. UNCHANGED <<pc, m_xmlMap, m_dbMap, table, file>> /\ pc = "insert"
    BY <1>5 DEF InsertRow
  <2>3. /\ \A d : Want(d)' = Want(d) /\ LinesOf(d)' = LinesOf(d) /\ (Cancelled(d)' <=> Cancelled(d))
        /\ Stored' = Stored
    BY <2>2 DEF Want, Cancelled, LinesOf, Stored
  <2>4. c \in Children /\ RowOf(m_xmlMap[c]) = Want(c)
    BY <1>0, <2>1, <2>2 DEF Loops, Want
  <2>5. \A d \in Children : session'[d] = IF d \in todo' THEN None ELSE Want(d)
    BY <1>0, <2>1, <2>2, <2>4 DEF Loops
  <2>6. QED BY <2>1, <2>2, <2>3, <2>5 DEF Loops
<1>6. CASE UNCHANGED vars
  <2>1. /\ \A d : Want(d)' = Want(d) /\ LinesOf(d)' = LinesOf(d) /\ (Cancelled(d)' <=> Cancelled(d))
        /\ Stored' = Stored
    BY <1>6 DEF Want, Cancelled, LinesOf, Stored, vars
  <2>2. QED BY <1>6, <2>1 DEF Loops, vars
<1>7. QED
  <2>1. \/ pc' \notin {"update", "insert"}
        \/ SelectRealwork \/ UpdateRow \/ BeginInsert \/ InsertRow \/ UNCHANGED vars
    BY Steps DEF Get, AddXmlRecord, AddBroken, NothingToExecute, Commit, Publish, ExecuteFails,
                 ExecuteBroken, CommitBroken, Reconnect, LogonFails, Kill
  <2>2. QED BY <2>1, <1>1, <1>2, <1>3, <1>4, <1>5, <1>6

-----------------------------------------------------------------------------
(* What the files owe to the committed documents.                          *)
LineType == [child : Children, eDate : EndDates \cup {"start"}]

Owes == /\ pc = "publish" => file \subseteq owed
        /\ ~cut => IF pc = "publish" THEN owed \subseteq file ELSE owed = {}

FileType == file \subseteq LineType /\ owed \subseteq LineType

LEMMA LinesTyped ==
    ASSUME DataType
    PROVE  /\ \A c \in Stored : LinesOf(c) \subseteq LineType
           /\ Ended(table, session) \subseteq LineType
<1>1. \A c \in Stored : LinesOf(c) \subseteq LineType
  <2>1. SUFFICES ASSUME NEW c \in Stored, m_xmlMap[c] # None
                 PROVE m_xmlMap[c].eDate # Open => m_xmlMap[c].eDate \in EndDates
    BY DEF LinesOf, Line, LineType, Stored
  <2>2. m_xmlMap[c] \in Work \cup Cancel
    BY <2>1 DEF DataType, Stored
  <2>3. m_xmlMap[c].eDate \in Date
    BY <2>2 DEF Work, Cancel, Date
  <2>4. QED BY <2>3 DEF Date
<1>2. Ended(table, session) \subseteq LineType
  <2>1. \A c \in Children : session[c] # None => session[c].eDate \in Date
    BY DEF DataType, Row
  <2>2. QED BY <2>1 DEF Ended, Line, LineType, Date
<1>3. QED BY <1>1, <1>2

(* When the last row is done the file holds exactly the lines of the works *)
(* that the commit will end.                                               *)
LEMMA EndedIsFile ==
    ASSUME DataType, Loops, pc = "insert", todo = {}
    PROVE  Ended(table, session) = file
<1>1. /\ m_dbMap = table /\ \A c \in Children : session[c] = Want(c)
      /\ file = UNION {LinesOf(c) : c \in Stored}
  BY DEF Loops
<1>2. \A c \in Children : m_xmlMap[c] # None => m_xmlMap[c].dated \in BOOLEAN /\ RowOf(m_xmlMap[c]) # None
                          /\ RowOf(m_xmlMap[c]).node = m_xmlMap[c].node
                          /\ RowOf(m_xmlMap[c]).eDate = m_xmlMap[c].eDate
  <2>1. \A c \in Children : m_xmlMap[c] # None => m_xmlMap[c] \in Work \cup Cancel
    BY DEF DataType
  <2>2. \A r \in Work \cup Cancel : r.dated \in BOOLEAN /\ RowOf(r) # None
    BY Records DEF Work, Cancel
  <2>3. QED BY <2>1, <2>2 DEF RowOf
<1> DEFINE E == {d \in Children : /\ table[d] # None /\ session[d] # None
                                  /\ session[d].node = table[d].node
                                  /\ session[d].eDate \notin {Open, table[d].eDate}}
           S == {d \in Children : /\ table[d] # None /\ table[d].eDate = Open /\ session[d] = None
                                  /\ Cancelled(d) /\ m_xmlMap[d].node = table[d].node}
<1>3. Ended(table, session) = {Line(c, session[c].eDate) : c \in E} \cup {Line(c, "start") : c \in S}
  BY DEF Ended
<1>4. ASSUME NEW c \in E PROVE c \in Stored /\ LinesOf(c) = {Line(c, session[c].eDate)}
  <2>1. m_xmlMap[c] # None /\ ~Cancelled(c) /\ session[c] = RowOf(m_xmlMap[c])
    BY <1>1, <1>4 DEF Want
  <2>2. QED BY <1>1, <1>2, <1>4, <2>1 DEF LinesOf, Stored
<1>5. ASSUME NEW c \in S PROVE c \in Stored /\ LinesOf(c) = {Line(c, "start")}
  BY <1>1, <1>5 DEF LinesOf, Stored, Cancelled
<1>6. ASSUME NEW c \in Stored, LinesOf(c) # {} PROVE c \in E \cup S
  <2>1. /\ c \in Children /\ table[c] # None
        /\ m_xmlMap[c] # None /\ m_xmlMap[c].node = table[c].node
        /\ \/ Cancelled(c) /\ table[c].eDate = Open
           \/ ~Cancelled(c) /\ m_xmlMap[c].eDate \notin {Open, table[c].eDate}
    BY <1>1, <1>6 DEF LinesOf, Stored
  <2>2. CASE Cancelled(c)
    BY <1>1, <2>1, <2>2 DEF Want
  <2>3. CASE ~Cancelled(c)
    BY <1>1, <1>2, <2>1, <2>3 DEF Want
  <2>4. QED BY <2>2, <2>3
<1> HIDE DEF E, S
<1>7. QED BY <1>1, <1>3, <1>4, <1>5, <1>6

LEMMA NextOwes ==
    FileType /\ Owes /\ Closed /\ Loops /\ DataType /\ ControlType /\ [Next]_vars
       => FileType' /\ Owes'
<1> SUFFICES ASSUME FileType, Owes, Closed, Loops, DataType, ControlType, [Next]_vars
             PROVE  FileType' /\ Owes'
  OBVIOUS
<1> USE DEF input, conn, csv
<1>0. FileType /\ Owes /\ cut \in BOOLEAN
  BY DEF ControlType
<1>1. CASE UNCHANGED <<file, owed, cut>> /\ pc # "publish" /\ pc' # "publish"
  BY <1>0, <1>1 DEF FileType, Owes
<1>2. CASE UpdateRow
  <2>1. PICK c \in Stored : file' = file \cup LinesOf(c)
    BY <1>2 DEF UpdateRow, Loops
  <2>2. pc = "update" /\ pc' = "update" /\ UNCHANGED <<owed, cut>>
    BY <1>2 DEF UpdateRow
  <2>3. FileType'
    BY <1>0, <2>1, <2>2, LinesTyped DEF FileType
  <2>4. QED BY <1>0, <2>2, <2>3 DEF Owes
<1>3. CASE Commit
  <2>1. pc = "insert" /\ todo = {} /\ pc' = "publish" /\ UNCHANGED <<file, cut>>
        /\ owed' = owed \cup Ended(table, session)
    BY <1>3 DEF Commit, TakeEffect
  <2>2. owed' = owed \cup file
    BY <2>1, EndedIsFile
  <2>3. QED BY <1>0, <2>1, <2>2 DEF FileType, Owes
<1>4. CASE CommitBroken
  <2>1. pc = "insert" /\ pc' = "reconnect" /\ file' = {} /\ cut' = (cut \/ owed' # {})
        /\ owed' = owed \cup Ended(table, session)
    BY <1>4 DEF CommitBroken, TakeEffect
  <2>2. owed' \subseteq LineType
    BY <1>0, <2>1, LinesTyped DEF FileType
  <2>3. QED BY <2>1, <2>2 DEF FileType, Owes
<1>5. CASE Publish
  <2>1. pc = "publish" /\ pc' = "get" /\ cut' = cut /\ owed' = owed \ file /\ file' = {}
    BY <1>5 DEF Publish, Rename
  <2>2. QED BY <1>0, <2>1 DEF FileType, Owes
<1>6. CASE ExecuteFails \/ ExecuteBroken
  <2>1. pc \in {"run", "update", "insert"} /\ pc' \in {"get", "reconnect"} /\ file' = {}
        /\ UNCHANGED <<owed, cut>>
    BY <1>6 DEF ExecuteFails, ExecuteBroken, Executing
  <2>2. QED BY <1>0, <2>1 DEF FileType, Owes
<1>7. CASE Kill
  <2>1. pc' = "get" /\ file' = {} /\ owed' = owed /\ cut' = (cut \/ owed # {})
    BY <1>7 DEF Kill
  <2>2. QED BY <1>0, <2>1 DEF FileType, Owes
<1>8. CASE UNCHANGED <<pc, file, owed, cut>>
  BY <1>0, <1>8 DEF FileType, Owes
<1>9. QED
  <2>1. \/ UNCHANGED <<file, owed, cut>> /\ pc # "publish" /\ pc' # "publish"
        \/ UNCHANGED <<pc, file, owed, cut>>
        \/ UpdateRow \/ Commit \/ CommitBroken \/ Publish \/ ExecuteFails \/ ExecuteBroken \/ Kill
    BY Steps DEF Get, AddXmlRecord, AddBroken, NothingToExecute, SelectRealwork, BeginInsert,
                 InsertRow, Reconnect, LogonFails, vars
  <2>2. QED BY <2>1, <1>1, <1>2, <1>3, <1>4, <1>5, <1>6, <1>7, <1>8

-----------------------------------------------------------------------------
IInv == /\ InputType /\ ControlType /\ DataType /\ FileType
        /\ Closed /\ Loops /\ Owes

LEMMA InitIInv == Init => IInv
<1> SUFFICES ASSUME Init PROVE IInv
  OBVIOUS
<1>1. InputType
  <2>1. rec \in Content \cup {EndFlag}
    BY DEF Init
  <2>2. hasCstNo \in BOOLEAN
    BY DEF Init
  <2>3. records = 0 /\ batches = 0
    BY DEF Init
  <2>4. /\ records \in 0..MaxRecords /\ batches \in 0..MaxBatches
        /\ records = 0 \/ batches < MaxBatches
    BY <2>3, DbWriteAssumption
  <2>5. QED BY <2>1, <2>2, <2>4 DEF InputType
<1>2. ControlType
  <2>1. up \in BOOLEAN /\ m_skip \in BOOLEAN /\ term \in BOOLEAN /\ cut \in BOOLEAN
    BY DEF Init
  <2>2. QED BY <2>1, DbWriteAssumption DEF Init, ControlType
<1>3. DataType
  BY Records DEF Init, DataType
<1>4. FileType /\ Closed /\ Loops /\ Owes
  BY DEF Init, FileType, Closed, Loops, Owes
<1>5. QED BY <1>1, <1>2, <1>3, <1>4 DEF IInv

LEMMA NextIInv == IInv /\ [Next]_vars => IInv'
BY NextInputType, NextControlType, NextDataType, NextClosed, NextLoops, NextOwes DEF IInv

(* The thread's variables and the table stay in their types.               *)
THEOREM TypeCorrect == Spec => []TypeOK
<1>1. IInv => TypeOK
  BY DEF IInv, InputType, ControlType, DataType, FileType, LineType, TypeOK
<1>2. QED BY <1>1, InitIInv, NextIInv, PTL DEF Spec

(* Nothing of a document is left for the next one.                         *)
THEOREM NothingStaysOpen == Spec => []NothingLeftOpen
<1>1. IInv => NothingLeftOpen
  BY DEF IInv, Closed, NothingLeftOpen
<1>2. QED BY <1>1, InitIInv, NextIInv, PTL DEF Spec

(* Every work that a committed document ended is in a file.                *)
THEOREM NoResultIsMissing == Spec => []ResultsArePublished
<1>1. IInv => ResultsArePublished
  BY DEF IInv, Owes, ResultsArePublished
<1>2. QED BY <1>1, InitIInv, NextIInv, PTL DEF Spec

(* A commit makes the table what the document says, as a whole.            *)
THEOREM DocumentsAreCommittedWhole == Spec => CommitsTheDocument
<1> DEFINE A == table' # table =>
                   table' = [c \in Children |->
                               IF m_xmlMap[c] = None \/ Cancelled(c) THEN None
                               ELSE RowOf(m_xmlMap[c])]
<1>1. ASSUME IInv, [Next]_vars PROVE A
  <2>1. SUFFICES ASSUME table' # table PROVE table' = [c \in Children |-> Want(c)]
    BY DEF Want
  <2>2. Commit \/ CommitBroken
    BY <1>1, <2>1, Steps DEF Get, AddXmlRecord, AddBroken, NothingToExecute, SelectRealwork,
       UpdateRow, BeginInsert, InsertRow, Publish, ExecuteFails, ExecuteBroken, Reconnect,
       LogonFails, Kill, vars
  <2>3. table' = session /\ pc = "insert" /\ todo = {}
    BY <2>2 DEF Commit, CommitBroken, TakeEffect
  <2>4. session \in [Children -> Row \cup {None}] /\ \A c \in Children : session[c] = Want(c)
    BY <1>1, <2>3 DEF IInv, DataType, Loops
  <2>5. QED BY <2>3, <2>4
<1>2. QED BY <1>1, InitIInv, NextIInv, PTL DEF Spec, CommitsTheDocument

(* No file tells of what was not committed, or twice.                      *)
THEOREM FilesTellTheTruth == Spec => PublishesOnlyOwed
<1>1. ASSUME IInv, [Next]_vars PROVE published' # published => file \subseteq owed
  <2>1. published' # published => Publish
    BY <1>1, Steps DEF Get, AddXmlRecord, AddBroken, NothingToExecute, SelectRealwork,
       UpdateRow, BeginInsert, InsertRow, Commit, ExecuteFails, ExecuteBroken, CommitBroken,
       Reconnect, LogonFails, Kill, vars, csv
  <2>2. QED BY <1>1, <2>1 DEF Publish, IInv, Owes
<1>2. QED BY <1>1, InitIInv, NextIInv, PTL DEF Spec, PublishesOnlyOwed
=============================================================================

------------------------------ MODULE DbWrite ------------------------------
(***************************************************************************)
(* The DB thread of the receive process (DBWrite.cxx, WRecord::Run): it    *)
(* buffers the records of one construction, merges them into the rows of   *)
(* the REALWORK table in one transaction, and publishes a CSV file of the  *)
(* works that ended, while statements fail and the connection breaks.      *)
(*                                                                         *)
(* One construction number is modelled: every statement is restricted to   *)
(* the rows of one.  (Left out: a document whose records differ in it; the *)
(* buffer has only the child as its key.)  A work is a child number.  Of its row and its record  *)
(* the node and the actual end date matter (Open: no end date yet); every  *)
(* row has an actual start date, because only such records are inserted    *)
(* and FillRealworkRecord rejects an end date without a start date.  The   *)
(* loops that open, rename or remove the CSV file retry until they can.    *)
(***************************************************************************)
EXTENDS Naturals, Sequences, FiniteSets

CONSTANTS Children,     \* child numbers
          Nodes,        \* node ids
          EndDates,     \* actual end dates
          Open,         \* the empty end date
          None,         \* no row, no record
          RetryNumber,  \* RTWORK_DB_RETRY_NUMBER
          MaxFaults,    \* bound: failing statements and kills
          MaxRecords,   \* bound: records of a document
          MaxBatches    \* bound: documents

ASSUME DbWriteAssumption ==
    /\ RetryNumber \in Nat \ {0} /\ MaxFaults \in Nat
    /\ MaxRecords \in Nat /\ MaxBatches \in Nat
    /\ Open \notin EndDates /\ IsFiniteSet(Children)
    /\ None \notin [node : Nodes, eDate : EndDates \cup {Open}]

VARIABLES pc,          \* the step of WRecord::Run the thread is at
          rec,         \* the record being run
          m_xmlMap, m_dbMap,
          hasCstNo,    \* m_cstRecord has a construction number
          todo,        \* children a loop of ExecuteRecords has still to see
          table,       \* the committed rows
          session,     \* the rows as the open transaction sees them
          up,          \* the connection is open
          m_skip,
          term,        \* MY_TERM_SIG was sent to the main thread
          times,       \* log-ons left in ReconnectDB
          file,        \* lines of the temporary file; {}: not opened
          published,   \* history: the CSV files, each the set of its lines
          owed,        \* history: the lines of the last transition of table
          cut,         \* history: the connection broke during a commit that
                       \*   took effect, or the process was killed after one
          faults, records, batches

input == <<records, batches>>
conn  == <<session, up, faults>>
csv   == <<file, published, owed, cut>>
vars  == <<pc, rec, m_xmlMap, m_dbMap, hasCstNo, todo, table, conn, m_skip, term, times,
           csv, input>>

Date == EndDates \cup {Open}
Row == [node : Nodes, eDate : Date]

(* The records FillRealworkRecord accepts: with dates, or without any (the *)
(* work is cancelled).                                                     *)
Work == [node : Nodes, eDate : Date, dated : {TRUE}]
Cancel == [node : Nodes, eDate : {Open}, dated : {FALSE}]
Empty == [c \in Children |-> None]

Content == [end : {FALSE}, child : Children, data : Work \cup Cancel, hasCstNo : BOOLEAN]
EndFlag == [end |-> TRUE]

RowOf(r) == [node |-> r.node, eDate |-> r.eDate]
Line(c, eDate) == [child |-> c, eDate |-> eDate]

Init == /\ pc = "get" /\ rec = EndFlag /\ todo = {}
        /\ m_xmlMap = Empty /\ m_dbMap = Empty /\ hasCstNo = FALSE
        /\ table \in [Children -> Row \cup {None}] /\ session = table
        /\ up = TRUE /\ m_skip = FALSE /\ term = FALSE /\ times = RetryNumber
        /\ file = {} /\ published = <<>> /\ owed = {} /\ cut = FALSE
        /\ faults = 0 /\ records = 0 /\ batches = 0

-----------------------------------------------------------------------------
(* A statement that fails.  With the connection gone the server rolls the  *)
(* transaction back and IsOpened() is false: DBConnectException.           *)
Fault == faults < MaxFaults /\ faults' = faults + 1

(* On a closed connection every statement fails.                           *)
Broken == /\ IF up THEN Fault ELSE UNCHANGED faults
          /\ up' = FALSE
          /\ session' = table

(* RWTPtrSlist hands the records over in the order they were put.          *)
Get == /\ pc = "get"
       /\ \/ /\ records < MaxRecords /\ batches < MaxBatches
             /\ rec' \in Content
             /\ records' = records + 1 /\ UNCHANGED batches
          \/ /\ records > 0
             /\ rec' = EndFlag
             /\ records' = 0 /\ batches' = batches + 1
       /\ pc' = "run"
       /\ UNCHANGED <<m_xmlMap, m_dbMap, hasCstNo, todo, table, conn, m_skip, term, times,
                      csv>>

NeverSkips == FALSE                          \* mutant: m_skip is not tested
Skips == m_skip

-----------------------------------------------------------------------------
(* AddXmlRecord.                                                           *)

(* std::map::insert leaves an earlier record of the child alone.           *)
MapInsert == IF m_xmlMap[rec.child] = None
             THEN [m_xmlMap EXCEPT ![rec.child] = rec.data]
             ELSE m_xmlMap

(* The record is rejected, or a database error makes it so.                *)
AddXmlRecord ==
    /\ pc = "run" /\ ~rec.end
    /\ IF Skips
       THEN UNCHANGED <<hasCstNo, m_xmlMap>>
       ELSE /\ hasCstNo' = rec.hasCstNo
            /\ m_xmlMap' \in {m_xmlMap} \cup (IF rec.hasCstNo THEN {MapInsert} ELSE {})
    /\ pc' = "get"
    /\ UNCHANGED <<rec, m_dbMap, todo, table, conn, m_skip, term, times, csv, input>>

AddBroken == /\ pc = "run" /\ ~rec.end /\ ~Skips /\ rec.hasCstNo
             /\ hasCstNo' = TRUE
             /\ Broken
             /\ pc' = "reconnect" /\ times' = RetryNumber
             /\ UNCHANGED <<rec, m_xmlMap, m_dbMap, todo, table, m_skip, term, csv, input>>

-----------------------------------------------------------------------------
(* ExecuteRecords.                                                         *)

ClearRecords == m_xmlMap' = Empty /\ m_dbMap' = Empty

(* Nothing is done for a document without construction number, nor once    *)
(* the retries were exhausted.                                             *)
NothingToExecute ==
    /\ pc = "run" /\ rec.end /\ (Skips \/ ~hasCstNo)
    /\ ClearRecords
    /\ pc' = "get"
    /\ UNCHANGED <<rec, hasCstNo, todo, table, conn, m_skip, term, times, csv, input>>

SelectRealwork ==
    /\ pc = "run" /\ rec.end /\ ~Skips /\ hasCstNo /\ up
    /\ m_dbMap' = session
    /\ todo' = {c \in Children : session[c] # None}
    /\ pc' = "update"
    /\ UNCHANGED <<rec, m_xmlMap, hasCstNo, table, conn, m_skip, term, times, csv, input>>

(* "is cancel record", "is normal record" and "not in buffer", one row of  *)
(* the table at a time.                                                    *)
Cancelled(c) == m_xmlMap[c] # None /\ ~m_xmlMap[c].dated

DeleteCancelledOnly(c) ==                    \* mutant: rows not in the buffer stay
    IF m_xmlMap[c] = None THEN session
    ELSE IF Cancelled(c) THEN [session EXCEPT ![c] = None]
    ELSE [session EXCEPT ![c] = RowOf(m_xmlMap[c])]
Merged(c) ==
    IF m_xmlMap[c] = None \/ Cancelled(c) THEN [session EXCEPT ![c] = None]
    ELSE [session EXCEPT ![c] = RowOf(m_xmlMap[c])]

LinesOfAnyEnd(c) ==                          \* mutant: an unchanged end date is written
    IF m_xmlMap[c] # None /\ m_xmlMap[c].dated /\ m_xmlMap[c].eDate # Open
    THEN {Line(c, m_xmlMap[c].eDate)} ELSE {}
LinesOf(c) ==
    IF m_xmlMap[c] = None \/ m_xmlMap[c].node # m_dbMap[c].node THEN {}
    ELSE IF Cancelled(c)
    THEN IF m_dbMap[c].eDate = Open THEN {Line(c, "start")} ELSE {}
    ELSE IF m_xmlMap[c].eDate \notin {Open, m_dbMap[c].eDate}
         THEN {Line(c, m_xmlMap[c].eDate)} ELSE {}

UpdateRow == /\ pc = "update"
             /\ \E c \in todo : /\ session' = Merged(c)
                                /\ file' = file \cup LinesOf(c)
                                /\ todo' = todo \ {c}
             /\ UNCHANGED <<pc, rec, m_xmlMap, m_dbMap, hasCstNo, table, up, faults, m_skip,
                            term, times, published, owed, cut, input>>

BeginInsert == /\ pc = "update" /\ todo = {}
               /\ pc' = "insert"
               /\ todo' = {c \in Children : /\ m_xmlMap[c] # None /\ ~Cancelled(c)
                                            /\ m_dbMap[c] = None}
               /\ UNCHANGED <<rec, m_xmlMap, m_dbMap, hasCstNo, table, conn, m_skip, term,
                              times, csv, input>>

InsertRow == /\ pc = "insert"
             /\ \E c \in todo : /\ session' = [session EXCEPT ![c] = RowOf(m_xmlMap[c])]
                                /\ todo' = todo \ {c}
             /\ UNCHANGED <<pc, rec, m_xmlMap, m_dbMap, hasCstNo, table, up, faults, m_skip,
                            term, times, csv, input>>

(* History: the lines a file owes to the transition from t to u: works at  *)
(* the same node whose end date is new, and open works that were cancelled.*)
Ended(t, u) ==
    {Line(c, u[c].eDate) : c \in {d \in Children :
        /\ t[d] # None /\ u[d] # None
        /\ u[d].node = t[d].node /\ u[d].eDate \notin {Open, t[d].eDate}}}
    \cup
    {Line(c, "start") : c \in {d \in Children :
        /\ t[d] # None /\ t[d].eDate = Open /\ u[d] = None
        /\ Cancelled(d) /\ m_xmlMap[d].node = t[d].node}}

TakeEffect == table' = session /\ owed' = owed \cup Ended(table, session)

Commit == /\ pc = "insert" /\ todo = {}
          /\ TakeEffect
          /\ pc' = "publish"
          /\ UNCHANGED <<rec, m_xmlMap, m_dbMap, hasCstNo, todo, conn, m_skip, term, times,
                         file, published, cut, input>>

DropFile == UNCHANGED <<file, published, owed>>   \* mutant: the rename is skipped
Rename == IF file = {} THEN UNCHANGED <<file, published, owed>>
          ELSE /\ published' = Append(published, file)
               /\ owed' = owed \ file
               /\ file' = {}

(* WriteEnd(true), the return, ClearRecords.                               *)
Publish == /\ pc = "publish"
           /\ Rename
           /\ ClearRecords
           /\ pc' = "get"
           /\ UNCHANGED <<rec, hasCstNo, todo, table, conn, m_skip, term, times, cut, input>>

Executing == \/ pc = "run" /\ rec.end /\ ~Skips /\ hasCstNo
             \/ pc = "update" /\ todo # {}
             \/ pc = "insert"

NoRollback == UNCHANGED session              \* mutant: the transaction stays open
Rollback == session' = table

(* otl_exception with an open connection: the document is given up.        *)
ExecuteFails == /\ Executing /\ up /\ Fault
                /\ Rollback
                /\ file' = {}
                /\ ClearRecords
                /\ pc' = "get" /\ todo' = {}
                /\ UNCHANGED <<rec, hasCstNo, table, up, m_skip, term, times, published,
                               owed, cut, input>>

(* DBConnectException: the statement had no effect.                        *)
ExecuteBroken == /\ Executing /\ Broken
                 /\ file' = {}
                 /\ pc' = "reconnect" /\ times' = RetryNumber /\ todo' = {}
                 /\ UNCHANGED <<rec, m_xmlMap, m_dbMap, hasCstNo, table, m_skip, term,
                                published, owed, cut, input>>

(* The connection breaks after the server committed: the thread cannot     *)
(* tell it from the step above.                                            *)
CommitBroken == /\ pc = "insert" /\ todo = {} /\ Fault
                /\ TakeEffect
                /\ cut' = (cut \/ owed' # {})
                /\ up' = FALSE /\ UNCHANGED session
                /\ file' = {}
                /\ pc' = "reconnect" /\ times' = RetryNumber
                /\ UNCHANGED <<rec, m_xmlMap, m_dbMap, hasCstNo, todo, m_skip, term,
                               published, input>>

-----------------------------------------------------------------------------
(* ReconnectDB.                                                            *)

Reconnect == /\ pc = "reconnect"
             /\ up' = TRUE
             /\ pc' = "run"
             /\ UNCHANGED <<rec, m_xmlMap, m_dbMap, hasCstNo, todo, table, session, faults,
                            m_skip, term, times, csv, input>>

Exhausted == times - 1 <= 0

GiveUp == m_skip' = TRUE

(* After the last try main is sent SIGTERM and everything is skipped.      *)
LogonFails == /\ pc = "reconnect"
              /\ times' = times - 1
              /\ IF Exhausted
                 THEN GiveUp /\ term' = TRUE /\ pc' = "run"
                 ELSE UNCHANGED <<m_skip, term, pc>>
              /\ UNCHANGED <<rec, m_xmlMap, m_dbMap, hasCstNo, todo, table, conn, csv,
                             input>>

(* The process is killed and started again.                                *)
Kill == /\ (pc # "get" \/ records > 0) /\ Fault
        /\ pc' = "get" /\ rec' = EndFlag /\ todo' = {}
        /\ m_xmlMap' = Empty /\ m_dbMap' = Empty /\ hasCstNo' = FALSE
        /\ session' = table /\ up' = TRUE /\ m_skip' = FALSE /\ term' = FALSE
        /\ times' = RetryNumber /\ file' = {}
        /\ cut' = (cut \/ owed # {})
        /\ records' = 0 /\ batches' = batches + (IF records = 0 THEN 0 ELSE 1)
        /\ UNCHANGED <<table, published, owed>>

Thread == \/ AddXmlRecord \/ AddBroken
          \/ NothingToExecute \/ SelectRealwork \/ UpdateRow \/ BeginInsert \/ InsertRow
          \/ Commit \/ Publish
          \/ ExecuteFails \/ ExecuteBroken \/ CommitBroken
          \/ Reconnect \/ LogonFails

AllDone == pc = "get" /\ records = 0 /\ batches = MaxBatches /\ UNCHANGED vars

Next == Get \/ Thread \/ Kill \/ AllDone

Spec == Init /\ [][Next]_vars

(* The thread runs; a record of the document that has begun arrives.       *)
FairSpec == Spec /\ WF_vars(Thread)

-----------------------------------------------------------------------------
TypeOK == /\ pc \in {"get", "run", "update", "insert", "publish", "reconnect"}
          /\ rec \in Content \cup {EndFlag}
          /\ m_xmlMap \in [Children -> Work \cup Cancel \cup {None}]
          /\ m_dbMap \in [Children -> Row \cup {None}]
          /\ hasCstNo \in BOOLEAN
          /\ todo \subseteq Children
          /\ table \in [Children -> Row \cup {None}]
          /\ session \in [Children -> Row \cup {None}]
          /\ up \in BOOLEAN /\ m_skip \in BOOLEAN /\ term \in BOOLEAN
          /\ times \in 0..RetryNumber
          /\ file \subseteq [child : Children, eDate : EndDates \cup {"start"}]
          /\ owed \subseteq [child : Children, eDate : EndDates \cup {"start"}]
          /\ cut \in BOOLEAN
          /\ faults \in 0..MaxFaults
          /\ records \in 0..MaxRecords /\ batches \in 0..MaxBatches

(* Between two documents nothing of a transaction is left: what the next   *)
(* commit writes is its own document only, whatever failed before          *)
(* (DBWrite.cxx:257, WRecord.cxx:43).                                      *)
NothingLeftOpen ==
    pc = "get" => /\ session = table /\ file = {}
                  /\ records = 0 => m_xmlMap = Empty /\ m_dbMap = Empty

(* The lines in the result files are those of the works that the committed *)
(* documents ended: none is missing when a document is done, unless the    *)
(* connection broke in a commit that took effect or the process was killed *)
(* between the commit and the rename (DBWrite.cxx:238-239).                *)
ResultsArePublished == pc = "get" /\ ~cut => owed = {}

(* The table changes from one document to the next only by whole           *)
(* documents: a commit makes it exactly the works the buffer holds with    *)
(* dates, whatever was retried before (DBWrite.cxx:186-238).               *)
CommitsTheDocument ==
    [][table' # table =>
          table' = [c \in Children |->
                      IF m_xmlMap[c] = None \/ Cancelled(c) THEN None
                      ELSE RowOf(m_xmlMap[c])]]_vars

(* A file holds only lines that a commit has made true and that no earlier *)
(* file has reported: an attempt that was rolled back publishes nothing,   *)
(* and a retry after a commit that took effect reports nothing twice.      *)
PublishesOnlyOwed == [][published' # published => file \subseteq owed]_vars

(* The thread comes back for the next record although the database may     *)
(* stay down for good: the retries of WRecord.cxx:42 and 47 end with       *)
(* m_skip.                                                                 *)
RecordReturns == pc # "get" ~> pc = "get"
=============================================================================

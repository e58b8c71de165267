------------------------------ MODULE Receiver ------------------------------
(***************************************************************************)
(* The receive process (src/realworking/src/receive): the main thread that *)
(* accepts the one client, reads its requests and shuts the process down   *)
(* on SIGTERM; the Work thread that parses documents, hands their records  *)
(* to the DB thread and answers; the HC thread that answers health checks; *)
(* the DB thread that executes the records of one document as one batch.   *)
(*                                                                         *)
(* The queues between them are closable FIFO channels (module Channel,     *)
(* which WQueue implements).  The HCCheck thread is module HcCheck; its    *)
(* Notify never blocks and its join always returns, so it is left out.     *)
(* Signals are taken by main.  One delivered while it blocks in a system   *)
(* call interrupts that call; delivered anywhere else it only sets its     *)
(* flag.                                                                   *)
(***************************************************************************)
EXTENDS Naturals, Sequences, FiniteSets

CONSTANTS DbMax,        \* RTWORK_WRITE_DB_BUFF_SIZE, the DB queue's m_max
          MaxRecords,   \* bound: records of one document
          MaxWork,      \* bound: work messages the peer sends
          MaxConns,     \* bound: connections; the last one is not closed
          MaxSigterm,   \* bound: SIGTERMs sent to the process
          AcceptFails   \* whether accept() may fail other than by EINTR

ASSUME ReceiverAssumption ==
    /\ DbMax \in Nat \ {0} /\ MaxRecords \in Nat \ {0}
    /\ MaxWork \in Nat /\ MaxConns \in Nat \ {0} /\ MaxSigterm \in Nat
    /\ AcceptFails \in BOOLEAN

VARIABLES
    mpc, part, head, xmlBuff,          \* main: where it is, what it is reading
    peer, inbox, eof, sent, conn,      \* the client and the connection
    m_connected, m_start, mutex,       \* WSocket, and who holds its m_mutex
    term, stop, sigterms,              \* the signal flags, the SIGTERMs sent
    wq, wclosed, wpc, wdoc, wrec,      \* the Work thread and its queue
    hq, hclosed, hpc,                  \* the HC thread and its queue
    dq, dclosed, dpc, dbuf,            \* the DB thread, its queue and record buffer
    servfd, threw                      \* who owns descriptor m_serv_fd; history:
                                       \* main left Connect or ReadWork by an
                                       \* exception, the Work thread not ended

main == <<mpc, part, head, xmlBuff>>
wire == <<peer, inbox, eof, sent, conn>>
sock == <<m_connected, m_start, mutex>>
sig  == <<term, stop, sigterms>>
work == <<wq, wclosed, wpc, wdoc, wrec>>
hc   == <<hq, hclosed, hpc>>
db   == <<dq, dclosed, dpc, dbuf>>
rest == <<servfd, threw>>
vars == <<main, wire, sock, sig, work, hc, db, rest>>

(* handle id and reply kind of a head: without data a health check (or any *)
(* unknown request, which is answered the same way), the end of a document *)
(* or nothing of these; with data a fragment that is continued, the last   *)
(* one, or anything else.  A head that is cut by the end of the connection *)
(* is filled with zeros, and is one of these again.                        *)
WithData == {"cont", "end", "odd"}
Kind == {"hc", "fin", "void"} \cup WithData
Fragment == [conn : 1..MaxConns, no : 1..MaxWork, cut : BOOLEAN]
NoRecords == [n |-> 0, i |-> 0]

Init ==
    /\ mpc = "connect" /\ part = "head" /\ head = "hc" /\ xmlBuff = <<>>
    /\ peer = "off" /\ inbox = <<>> /\ eof = FALSE /\ sent = 0 /\ conn = 0
    /\ m_connected = FALSE /\ m_start = FALSE /\ mutex = "free"
    /\ term = 0 /\ stop = 0 /\ sigterms = 0
    /\ wq = <<>> /\ wclosed = FALSE /\ wpc = "get" /\ wdoc = <<>> /\ wrec = NoRecords
    /\ hq = 0 /\ hclosed = FALSE /\ hpc = "get"
    /\ dq = <<>> /\ dclosed = FALSE /\ dpc = "get" /\ dbuf = <<>>
    /\ servfd = "listen" /\ threw = FALSE

-----------------------------------------------------------------------------
(* The client.                                                             *)

PeerConnect == /\ peer = "off" /\ servfd = "listen" /\ conn < MaxConns
               /\ peer' = "pending"
               /\ UNCHANGED <<main, inbox, eof, sent, conn, sock, sig, work, hc, db, rest>>

(* The head of a message; its data may follow later, or never.             *)
PeerOwesData == \/ inbox # <<>> /\ inbox[Len(inbox)].kind \in WithData
                \/ inbox = <<>> /\ part = "data"

PeerHead == /\ peer = "on" /\ ~eof /\ sent < MaxWork /\ ~PeerOwesData
            /\ \E k \in Kind \ {"hc"} :
                  inbox' = Append(inbox, [kind |-> k, no |-> sent + 1])
            /\ sent' = sent + 1
            /\ UNCHANGED <<main, peer, eof, conn, sock, sig, work, hc, db, rest>>

PeerData == /\ peer = "on" /\ ~eof /\ PeerOwesData
            /\ inbox' = Append(inbox, [kind |-> "data", no |-> sent])
            /\ UNCHANGED <<main, peer, eof, sent, conn, sock, sig, work, hc, db, rest>>

(* Bound: the client sends a health check when the last one is answered.   *)
PeerHc == /\ peer = "on" /\ ~eof /\ ~PeerOwesData
          /\ inbox = <<>> /\ hq = 0 /\ hpc = "get"
          /\ inbox' = <<[kind |-> "hc", no |-> 0]>>
          /\ UNCHANGED <<main, peer, eof, sent, conn, sock, sig, work, hc, db, rest>>

(* The connection ends, possibly with a part of the data that were due.    *)
PeerClose == /\ peer = "on" /\ ~eof /\ conn < MaxConns
             /\ eof' = TRUE
             /\ \/ UNCHANGED inbox
                \/ PeerOwesData /\ inbox' = Append(inbox, [kind |-> "cut", no |-> sent])
             /\ UNCHANGED <<main, peer, sent, conn, sock, sig, work, hc, db, rest>>

-----------------------------------------------------------------------------
(* Signals.                                                                *)

(* The blocking call main is in returns with EINTR: select always, accept  *)
(* and a read that waits for the rest of a message if the handler was not  *)
(* installed with SA_RESTART.  The sa_flags of both handlers are not       *)
(* initialised.                                                            *)
Interrupt == CASE mpc \in {"select", "blind"}     -> mpc' = "selectEintr"
               [] mpc = "accept"                  -> mpc' \in {mpc, "acceptEintr"}
               [] mpc = "read" /\ inbox # <<>>    -> mpc' \in {mpc, "readEintr"}
               [] OTHER                           -> UNCHANGED mpc

(* signal_handler for SIGTERM, sent by the operator or by ReconnectDB.     *)
Sigterm == /\ sigterms < MaxSigterm /\ mpc # "exited"
           /\ sigterms' = sigterms + 1
           /\ term' = IF term = 0 THEN 1 ELSE term
           /\ Interrupt
           /\ UNCHANGED <<part, head, xmlBuff, wire, sock, stop, work, hc, db, rest>>

-----------------------------------------------------------------------------
(* Main: CheckSignal, Connect, Disconnect and ReadWork.                    *)

WorkIsEnd == wpc \in {"ending", "ended"}

(* Disconnect without its mutex, under which no reply is being written.    *)
DropConnection == /\ m_connected' = FALSE
                  /\ peer' = IF m_connected THEN "off" ELSE peer
                  /\ inbox' = IF m_connected THEN <<>> ELSE inbox
                  /\ eof' = IF m_connected THEN FALSE ELSE eof
                  /\ UNCHANGED <<sent, conn, m_start, mutex>>

DisconnectUnlocked == DropConnection         \* mutant: m_mutex is not taken
Disconnect == mutex = "free" /\ DropConnection

CancelForgotten == UNCHANGED wclosed         \* mutant: no Cancel
CancelWork == wclosed' = TRUE                \* (WApp::m_pWorkThread)->Cancel()

(* CheckSignal; "go" is where main continues when it does not throw.       *)
CheckSignal(from, go) ==
    /\ mpc = from
    /\ \/ /\ term = 1
          /\ term' = 2 /\ CancelWork
          /\ mpc' = go
          /\ UNCHANGED <<stop, wire, sock, wq, wpc, wdoc, wrec>>
       \/ /\ term # 1 /\ WorkIsEnd
          /\ stop' = 2
          /\ Disconnect
          /\ mpc' = "cancelHc"
          /\ UNCHANGED <<term, work>>
       \/ /\ term # 1 /\ ~WorkIsEnd
          /\ mpc' = go
          /\ UNCHANGED <<term, stop, wire, sock, work>>
    /\ UNCHANGED <<part, head, xmlBuff, sigterms, hc, db, rest>>

CloseServ == servfd' = "none"

(* Connect when SIGTERM was seen: the listening socket is closed and the   *)
(* Work thread cancelled before main waits for it.                         *)
InterruptConnect == /\ CloseServ
                    /\ CancelWork
                    /\ mpc' = "joinWork"
                    /\ UNCHANGED <<part, head, xmlBuff, wire, sock, sig,
                                   wq, wpc, wdoc, wrec, hc, db, threw>>

Goto(from, to) == /\ mpc = from /\ mpc' = to
                  /\ UNCHANGED <<part, head, xmlBuff, wire, sock, sig, work, hc, db, rest>>

ConnectTest == \/ mpc = "connect" /\ term = 1 /\ InterruptConnect
               \/ term # 1 /\ Goto("connect", "toAccept")

(* A signal that arrives between a test of its flag and the system call    *)
(* that follows does not interrupt the call.  Select has no timeout, and   *)
(* FD_SET(-1) is undefined: unconnected it may fail at once, or watch      *)
(* nothing and wait for a signal.                                          *)
EnterCall == \/ Goto("toAccept", "accept")
             \/ m_connected /\ Goto("toSelect", "select")
             \/ ~m_connected /\ (Goto("toSelect", "broken") \/ Goto("toSelect", "blind"))

Accept == /\ mpc = "accept" /\ peer = "pending"
          /\ peer' = "on" /\ conn' = conn + 1 /\ inbox' = <<>> /\ eof' = FALSE
          /\ mpc' = IF m_start THEN "readn" ELSE "readWork"
          /\ m_start' = TRUE /\ m_connected' = TRUE
          /\ part' = "head"
          /\ UNCHANGED <<head, xmlBuff, sent, mutex, sig, work, hc, db, rest>>

(* EINTR: only an unprocessed SIGTERM ends Connect; otherwise it returns   *)
(* unconnected, with m_conn_fd = -1, and ReadWork goes on.                 *)
AcceptInterrupted == \/ mpc = "acceptEintr" /\ term = 1 /\ InterruptConnect
                     \/ term # 1 /\ Goto("acceptEintr", "readn")

(* Any other error: Connect throws without having cancelled the Work thread.*)
AcceptError == /\ AcceptFails /\ mpc = "accept"
               /\ CloseServ
               /\ threw' = TRUE
               /\ mpc' = "cancelHc"
               /\ UNCHANGED <<part, head, xmlBuff, wire, sock, sig, work, hc, db>>

JoinNothing == TRUE                          \* mutant: a thread is not joined
WorkJoined == wpc = "ended"
DbJoined == dpc = "ended"

JoinWork == WorkJoined /\ Goto("joinWork", "cancelHc")

SelectReady == (inbox # <<>> \/ eof) /\ Goto("select", "read")

Notify(doc) == wq' = IF wclosed THEN wq ELSE Append(wq, doc)
NotifyHc == hq' = IF hclosed THEN hq ELSE hq + 1

(* End of file where a head or its data should begin.                      *)
ReadEof == inbox = <<>> /\ Goto("read", "broken")

(* End of file after the first byte of a head: the length made of it may   *)
(* be negative, new[] throws and main leaves ReadWork.                     *)
BadLength == /\ mpc = "read" /\ part = "head" /\ inbox = <<>>
             /\ threw' = TRUE
             /\ mpc' = "cancelHc"
             /\ UNCHANGED <<part, head, xmlBuff, wire, sock, sig, work, hc, db, servfd>>

(* A head without data, or a head whose data is read next: it is kept      *)
(* until then.                                                             *)
ReadHead ==
    /\ mpc = "read" /\ part = "head" /\ inbox # <<>>
    /\ mpc' = "readn"
    /\ inbox' = Tail(inbox)
    /\ LET k == Head(inbox).kind IN
          /\ head' = IF k \in WithData THEN k ELSE "hc"
          /\ part' = IF k \in WithData THEN "data" ELSE "head"
          /\ IF k = "fin" THEN Notify(xmlBuff) /\ xmlBuff' = <<>>
                          ELSE UNCHANGED <<wq, xmlBuff>>
          /\ IF k = "hc" THEN NotifyHc ELSE UNCHANGED hq
    /\ UNCHANGED <<peer, eof, sent, conn, sock, sig, wclosed, wpc, wdoc, wrec,
                   hclosed, hpc, db, rest>>

(* What is missing of data that were cut is not missed.                    *)
ReadData ==
    /\ mpc = "read" /\ part = "data" /\ inbox # <<>>
    /\ mpc' = "readn" /\ part' = "head" /\ head' = "hc"
    /\ inbox' = Tail(inbox)
    /\ LET chunk == Head(inbox)
           whole == Append(xmlBuff, [conn |-> conn, no |-> chunk.no, cut |-> chunk.kind = "cut"])
       IN \/ head = "end"  /\ Notify(whole) /\ xmlBuff' = <<>> /\ UNCHANGED hq
          \/ head = "cont" /\ xmlBuff' = whole /\ UNCHANGED <<wq, hq>>
          \/ head = "odd"  /\ (NotifyHc \/ UNCHANGED hq) /\ UNCHANGED <<wq, xmlBuff>>
    /\ UNCHANGED <<peer, eof, sent, conn, sock, sig, wclosed, wpc, wdoc, wrec,
                   hclosed, hpc, db, rest>>

KeepBuffer == UNCHANGED xmlBuff              \* mutant: xmlBuff="" forgotten
ClearBuffer == xmlBuff' = <<>>

(* A read that failed: Disconnect, forget the fragments, Connect again.    *)
Broken == /\ mpc = "broken"
          /\ Disconnect
          /\ ClearBuffer
          /\ mpc' = "connect" /\ part' = "head" /\ head' = "hc"
          /\ UNCHANGED <<sig, work, hc, db, rest>>

-----------------------------------------------------------------------------
(* Main: the end of main().  The catch after the first Connect and the     *)
(* path after ReadWork differ by the second server.Close().                *)

CancelHc == /\ mpc = "cancelHc"
            /\ hclosed' = TRUE
            /\ mpc' = "joinHc"
            /\ UNCHANGED <<part, head, xmlBuff, wire, sock, sig, work, hq, hpc, db, rest>>

JoinHc == hpc = "ended" /\ Goto("joinHc", IF m_start THEN "close" ELSE "cancelDb")

CloseListening == /\ mpc = "close"
                  /\ CloseServ
                  /\ mpc' = "cancelDb"
                  /\ UNCHANGED <<part, head, xmlBuff, wire, sock, sig, work, hc, db,
                                 threw>>

CancelDb == /\ mpc = "cancelDb"
            /\ dclosed' = TRUE
            /\ mpc' = "joinDb"
            /\ UNCHANGED <<part, head, xmlBuff, wire, sock, sig, work, hc, dq, dpc, dbuf,
                           rest>>

(* The threads are deleted and the process exits.                          *)
JoinDb == DbJoined /\ Goto("joinDb", "exited")

Main == \/ ConnectTest \/ EnterCall \/ Accept \/ AcceptInterrupted \/ AcceptError
        \/ CheckSignal("readWork", "readn")
        \/ CheckSignal("readn", "toSelect")
        \/ CheckSignal("selectEintr", "toSelect")
        \/ CheckSignal("readEintr", "read")
        \/ SelectReady \/ ReadEof \/ BadLength \/ ReadHead \/ ReadData \/ Broken
        \/ JoinWork \/ CancelHc \/ JoinHc \/ CloseListening \/ CancelDb \/ JoinDb

-----------------------------------------------------------------------------
(* The Work thread: OnExecute running WSaxXml::Run.                        *)

Alive == mpc # "exited"

WorkGet == /\ Alive /\ wpc = "get"
           /\ \/ /\ wq # <<>>
                 /\ wdoc' = Head(wq) /\ wq' = Tail(wq) /\ wpc' = "parse"
              \/ /\ wq = <<>> /\ wclosed
                 /\ wpc' = "ending" /\ UNCHANGED <<wdoc, wq>>
           /\ UNCHANGED <<main, wire, sock, sig, wclosed, wrec, hc, db, rest>>

(* The document is parsed only while connected.                            *)
WorkParse == /\ Alive /\ wpc = "parse"
             /\ wpc' = IF m_connected THEN "endDocument" ELSE "reply"
             /\ UNCHANGED <<main, wire, sock, sig, wq, wclosed, wdoc, wrec, hc, db, rest>>

(* A malformed document yields no record, a good one its records if the    *)
(* connection still stands at endDocument.                                 *)
EndDocument ==
    /\ Alive /\ wpc = "endDocument"
    /\ \/ /\ wpc' = "reply" /\ UNCHANGED wrec
       \/ /\ m_connected /\ wdoc # <<>>
          /\ \E n \in 1..MaxRecords : wrec' = [n |-> n, i |-> 1]
          /\ wpc' = "notify"
    /\ UNCHANGED <<main, wire, sock, sig, wq, wclosed, wdoc, hc, db, rest>>

DbRoom == Len(dq) < DbMax

(* The records 1..n, then the end flag n + 1.  Put refuses once the queue  *)
(* is closed; otherwise it waits for room, and inserts even if the queue   *)
(* has been closed meanwhile.                                              *)
NextRecord == IF wrec.i <= wrec.n
              THEN wrec' = [wrec EXCEPT !.i = @ + 1] /\ wpc' = "notify"
              ELSE wrec' = NoRecords /\ wpc' = "reply"

NotifyRecord ==
    /\ Alive /\ wpc = "notify"
    /\ IF dclosed THEN NextRecord ELSE wpc' = "put" /\ UNCHANGED wrec
    /\ UNCHANGED <<main, wire, sock, sig, wq, wclosed, wdoc, hc, db, rest>>

PutRecord ==
    /\ Alive /\ wpc = "put" /\ DbRoom
    /\ dq' = Append(dq, [doc |-> wdoc, i |-> wrec.i, n |-> wrec.n])
    /\ NextRecord
    /\ UNCHANGED <<main, wire, sock, sig, wq, wclosed, wdoc, hc, dclosed, dpc, dbuf, rest>>

(* WriteResponse: the socket's mutex is held while the reply is written.   *)
(* The document is not looked at any more.                                 *)
WorkReply == /\ Alive /\ wpc = "reply" /\ mutex = "free"
             /\ IF m_connected THEN mutex' = "work" /\ wpc' = "write"
                               ELSE wpc' = "get" /\ UNCHANGED mutex
             /\ wdoc' = <<>>
             /\ UNCHANGED <<main, wire, m_connected, m_start, sig, wq, wclosed, wrec,
                            hc, db, rest>>

WorkWritten == /\ Alive /\ wpc = "write"
               /\ mutex' = "free" /\ wpc' = "get"
               /\ UNCHANGED <<main, wire, m_connected, m_start, sig, wq, wclosed, wdoc, wrec,
                              hc, db, rest>>

(* m_end is set; BeforeEnd sends SIGRTMIN to main once SIGTERM was seen.   *)
BeforeEnd == /\ Alive /\ wpc = "ending"
             /\ wpc' = "ended"
             /\ IF term # 0 /\ m_start
                THEN stop' = (IF stop = 0 THEN 1 ELSE stop) /\ Interrupt
                ELSE UNCHANGED <<stop, mpc>>
             /\ UNCHANGED <<part, head, xmlBuff, wire, sock, term, sigterms,
                            wq, wclosed, wdoc, wrec, hc, db, rest>>

Work == \/ WorkGet \/ WorkParse \/ EndDocument \/ NotifyRecord \/ PutRecord
        \/ WorkReply \/ WorkWritten \/ BeforeEnd

-----------------------------------------------------------------------------
(* The HC thread: OnExecute running WHead::Run.                            *)

HcGet == /\ Alive /\ hpc = "get"
         /\ \/ hq > 0 /\ hq' = hq - 1 /\ hpc' = "reply"
            \/ hq = 0 /\ hclosed /\ hpc' = "ended" /\ UNCHANGED hq
         /\ UNCHANGED <<main, wire, sock, sig, work, hclosed, db, rest>>

HcReply == /\ Alive /\ hpc = "reply" /\ mutex = "free"
           /\ IF m_connected THEN mutex' = "hc" /\ hpc' = "write"
                             ELSE hpc' = "get" /\ UNCHANGED mutex
           /\ UNCHANGED <<main, wire, m_connected, m_start, sig, work, hq, hclosed, db, rest>>

HcWritten == /\ Alive /\ hpc = "write"
             /\ mutex' = "free" /\ hpc' = "get"
             /\ UNCHANGED <<main, wire, m_connected, m_start, sig, work, hq, hclosed, db, rest>>

Hc == HcGet \/ HcReply \/ HcWritten

-----------------------------------------------------------------------------
(* The DB thread: OnExecute running WRecord::Run.                          *)

DbGet == /\ Alive /\ dpc = "get"
         /\ \/ /\ dq # <<>> /\ Head(dq).i <= Head(dq).n        \* AddXmlRecord
               /\ dbuf' = Append(dbuf, Head(dq)) /\ dq' = Tail(dq) /\ UNCHANGED dpc
            \/ /\ dq # <<>> /\ Head(dq).i > Head(dq).n         \* the end flag
               /\ dpc' = "execute" /\ dq' = Tail(dq) /\ UNCHANGED dbuf
            \/ /\ dq = <<>> /\ dclosed
               /\ dpc' = "ended" /\ UNCHANGED <<dq, dbuf>>
         /\ UNCHANGED <<main, wire, sock, sig, work, hc, dclosed, rest>>

(* ExecuteRecords opens the CSV file; open() returns the lowest free       *)
(* descriptor, which may be the number of the closed listening socket.     *)
DbExecute == /\ Alive /\ dpc = "execute"
             /\ dpc' = "file"
             /\ servfd' = IF servfd = "none" THEN "csv" ELSE servfd
             /\ UNCHANGED <<main, wire, sock, sig, work, hc, dq, dclosed, dbuf, threw>>

KeepRecords == UNCHANGED dbuf                \* mutant: no ClearRecords
ClearRecords == dbuf' = <<>>

(* The file is closed and renamed; ClearRecords empties the buffer.        *)
DbDone == /\ Alive /\ dpc = "file"
          /\ dpc' = "get" /\ ClearRecords
          /\ servfd' = IF servfd = "csv" THEN "none" ELSE servfd
          /\ UNCHANGED <<main, wire, sock, sig, work, hc, dq, dclosed, threw>>

Db == DbGet \/ DbExecute \/ DbDone

-----------------------------------------------------------------------------
(* Main waits without a connection for a signal that was sent before it    *)
(* began to wait.                                                          *)
Deaf == mpc = "blind" /\ wpc = "ended"

(* Nothing more need happen.                                               *)
AtRest == (mpc = "exited" \/ Deaf) /\ UNCHANGED vars

Next == \/ PeerConnect \/ PeerHead \/ PeerData \/ PeerHc \/ PeerClose
        \/ Sigterm
        \/ Main \/ Work \/ Hc \/ Db
        \/ AtRest

Spec == Init /\ [][Next]_vars

(* The threads run and system calls return; the client reads its replies,  *)
(* connects again when it is cut off, sends its health checks (the process *)
(* raises an alarm when they stay away) and finishes what it began to send.*)
(* The Work thread gets m_mutex in the end: the HC thread takes it once in *)
(* a health check and leaves it free in between.                           *)
Fairness == /\ WF_vars(Main) /\ WF_vars(Work) /\ WF_vars(Hc) /\ WF_vars(Db)
            /\ SF_vars(WorkReply)
            /\ WF_vars(PeerConnect) /\ WF_vars(PeerHc) /\ WF_vars(PeerData)

FairSpec == Spec /\ Fairness

-----------------------------------------------------------------------------
MainPc == {"connect", "toAccept", "accept", "acceptEintr", "readWork", "readn",
           "toSelect", "select", "blind", "selectEintr", "read", "readEintr",
           "broken", "joinWork",
           "cancelHc", "joinHc", "close", "cancelDb", "joinDb", "exited"}
Document == Seq(Fragment)
Record == [doc : Document, i : 1..(MaxRecords + 1), n : 1..MaxRecords]

TypeOK ==
    /\ mpc \in MainPc /\ part \in {"head", "data"} /\ head \in Kind
    /\ xmlBuff \in Document
    /\ peer \in {"off", "pending", "on"} /\ eof \in BOOLEAN
    /\ inbox \in Seq([kind : Kind \cup {"data", "cut"}, no : 0..MaxWork])
    /\ sent \in 0..MaxWork /\ conn \in 0..MaxConns
    /\ m_connected \in BOOLEAN /\ m_start \in BOOLEAN /\ mutex \in {"free", "work", "hc"}
    /\ term \in 0..2 /\ stop \in 0..2 /\ sigterms \in 0..MaxSigterm
    /\ wq \in Seq(Document) /\ wclosed \in BOOLEAN /\ wdoc \in Document
    /\ wpc \in {"get", "parse", "endDocument", "notify", "put", "reply", "write",
               "ending", "ended"}
    /\ wrec \in [n : 0..MaxRecords, i : 0..(MaxRecords + 1)]
    /\ hq \in Nat /\ hclosed \in BOOLEAN /\ hpc \in {"get", "reply", "write", "ended"}
    /\ dq \in Seq(Record) /\ Len(dq) <= DbMax /\ dclosed \in BOOLEAN
    /\ dpc \in {"get", "execute", "file", "ended"} /\ dbuf \in Seq(Record)
    /\ servfd \in {"listen", "none", "csv"} /\ threw \in BOOLEAN

(* Main assembles a document from the fragments of one connection, in the  *)
(* order they were sent: what was buffered when a connection broke is never*)
(* glued to what the next one brings, and nothing is glued to a fragment   *)
(* that was cut, whatever read failed and whatever signal interrupted the  *)
(* reconnect (WSocket.cxx:262-268, 347, 398).                              *)
DocumentsOfOneConnection ==
    \A d \in {xmlBuff, wdoc} \cup {wq[k] : k \in DOMAIN wq} :
        \A i, j \in DOMAIN d : i < j => /\ d[i].conn = d[j].conn /\ d[i].no < d[j].no
                                       /\ ~d[i].cut

(* A reply is written only to a connection that is still open: main cannot *)
(* close the descriptor under a thread that is writing (WSocket.cxx:203,   *)
(* 453).                                                                   *)
RepliesOnOpenConnection ==
    /\ mutex # "free" => m_connected
    /\ wpc = "write" <=> mutex = "work"
    /\ hpc = "write" <=> mutex = "hc"

(* A batch the DB thread executes holds all the records of one document    *)
(* and nothing else, also when the queue was closed while the Work thread  *)
(* was notifying (WSaxXml.cxx:345-354, WRecord.cxx:40-48).                 *)
BatchesAreWhole ==
    dpc \in {"execute", "file"} =>
        /\ dbuf # <<>>
        /\ Len(dbuf) = dbuf[1].n
        /\ \A k \in DOMAIN dbuf : dbuf[k] = [dbuf[1] EXCEPT !.i = k]

(* However the process ends, requests have been answered and the HC and DB *)
(* thread have ended.  On SIGTERM it ends only after everything it accepted*)
(* was done: no document waits to be parsed, no record to be executed or   *)
(* was refused by the DB queue on the way.  Not so after an exception that *)
(* leaves the Work thread running (WSocket.cxx:129-134).  The Work thread  *)
(* may still be in BeforeEnd: main only tests its m_end flag               *)
(* (Main.cxx:141-161).                                                     *)
DrainedAtExit ==
    /\ mpc = "exited" => hq = 0 /\ hpc = "ended" /\ dpc = "ended"
    /\ ~threw =>
        /\ mpc = "exited" => wq = <<>> /\ dq = <<>> /\ dbuf = <<>> /\ WorkIsEnd
        /\ dclosed => wpc \notin {"notify", "put"}

(* SIGTERM ends the process in whatever state it arrives, but for one way  *)
(* to become deaf: a second SIGTERM makes Connect return unconnected, the  *)
(* signal of the Work thread comes between its test and select, and select,*)
(* given FD_SET(-1), waits (WSocket.cxx:116-128, 227-229).                 *)
TermEndsTheProcess == term # 0 ~> mpc = "exited" \/ Deaf

(* server.Close() "close listening socket" (Main.cxx:150): the descriptor  *)
(* it closes is not one that the DB thread has opened meanwhile.           *)
ClosesNoOtherFile == mpc = "close" => servfd # "csv"
=============================================================================

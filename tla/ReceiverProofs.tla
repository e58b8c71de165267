--------------------------- MODULE ReceiverProofs ---------------------------
(***************************************************************************)
(* Proofs about Receiver for every queue size, number of records, messages *)
(* and connections: no reply goes to a closed connection, a batch is one   *)
(* whole document, and the process ends only when all it accepted is done. *)
(***************************************************************************)
EXTENDS Receiver, TLAPS


LEMMA Steps == ASSUME [Next]_vars
               PROVE  \/ PeerConnect \/ PeerHead \/ PeerData \/ PeerHc \/ PeerClose
                      \/ Sigterm
                      \/ ConnectTest \/ EnterCall \/ Accept \/ AcceptInterrupted \/ AcceptError
                      \/ CheckSignal("readWork", "readn")
                      \/ CheckSignal("readn", "toSelect")
                      \/ CheckSignal("selectEintr", "toSelect") \/ CheckSignal("readEintr", "read")
                      \/ CheckSignal("readEintr", "read")
                      \/ SelectReady \/ ReadEof \/ BadLength \/ ReadHead \/ ReadData \/ Broken
                      \/ JoinWork \/ CancelHc \/ JoinHc \/ CloseListening \/ CancelDb \/ JoinDb
                      \/ Work \/ Hc \/ Db
                      \/ UNCHANGED vars
BY DEF Next, Main, AtRest

-----------------------------------------------------------------------------
(* m_mutex is held exactly by the thread that writes, and only while the   *)
(* connection is open.                                                     *)
Locked == RepliesOnOpenConnection /\ mutex \in {"free", "work", "hc"}

LEMMA NextLocked == Locked /\ [Next]_vars => Locked'
<1> SUFFICES ASSUME Locked, [Next]_vars PROVE Locked'
  OBVIOUS
<1> USE DEF Locked, RepliesOnOpenConnection, main, wire, sock, sig, work, hc, db, rest
<1>1. CASE UNCHANGED <<m_connected, mutex, wpc, hpc>>
  BY <1>1
(* Main opens and closes the connection.                                   *)
<1>2. CASE \/ Accept \/ Broken \/ CheckSignal("readWork", "readn")
           \/ CheckSignal("readn", "toSelect") \/ CheckSignal("selectEintr", "toSelect")
           \/ CheckSignal("readEintr", "read")
  <2>1. UNCHANGED <<mutex, wpc, hpc>>
    BY <1>2 DEF Accept, Broken, CheckSignal, Disconnect, DropConnection
  <2>2. m_connected' \in {TRUE, m_connected} \/ mutex = "free"
    BY <1>2 DEF Accept, Broken, CheckSignal, Disconnect
  <2>3. QED BY <2>1, <2>2
<1>3. CASE Work
  <2>1. CASE WorkGet \/ WorkParse \/ EndDocument \/ NotifyRecord \/ PutRecord
          \/ BeforeEnd
    <3>1. wpc # "write" /\ wpc' # "write" /\ UNCHANGED <<m_connected, mutex, hpc>>
      BY <2>1 DEF WorkGet, WorkParse, EndDocument, NotifyRecord, PutRecord, NextRecord, BeforeEnd
    <3>2. QED BY <3>1
  <2>2. CASE WorkReply \/ WorkWritten
    BY <2>2 DEF WorkReply, WorkWritten
  <2>3. QED BY <1>3, <2>1, <2>2 DEF Work
<1>4. CASE Hc
  BY <1>4 DEF Hc, HcGet, HcReply, HcWritten
<1>5. QED
  <2>1. \/ UNCHANGED <<m_connected, mutex, wpc, hpc>>
        \/ Accept \/ Broken \/ CheckSignal("readWork", "readn")
        \/ CheckSignal("readn", "toSelect") \/ CheckSignal("selectEintr", "toSelect")
        \/ CheckSignal("readEintr", "read") \/ Work \/ Hc
    BY Steps DEF vars, PeerConnect, PeerHead, PeerData, PeerHc, PeerClose, Sigterm,
         ConnectTest, EnterCall, AcceptInterrupted, AcceptError, InterruptConnect, CancelWork,
         Goto, SelectReady, ReadEof, BadLength, ReadHead, ReadData, JoinWork, CancelHc,
         JoinHc, CloseListening, CancelDb, JoinDb, Db, DbGet, DbExecute, DbDone
  <2>2. QED BY <2>1, <1>1, <1>2, <1>3, <1>4

(* No reply is written to a connection that main has closed.               *)
THEOREM RepliesReachTheClient == Spec => []RepliesOnOpenConnection
<1>1. Init => Locked
  BY DEF Init, Locked, RepliesOnOpenConnection
<1>2. Locked => RepliesOnOpenConnection
  BY DEF Locked
<1>3. QED BY <1>1, <1>2, NextLocked, PTL DEF Spec

-----------------------------------------------------------------------------
(* The order of the shutdown.                                              *)
AfterWork == {"cancelHc", "joinHc", "close", "cancelDb", "joinDb", "exited"}

ShutDown ==
    /\ WorkIsEnd => wclosed /\ wq = <<>>
    /\ mpc \in AfterWork /\ ~threw => WorkIsEnd
    /\ hpc = "ended" => hclosed /\ hq = 0
    /\ mpc \in {"close", "cancelDb", "joinDb", "exited"} => hpc = "ended"
    /\ dclosed <=> mpc \in {"joinDb", "exited"}
    /\ dpc = "ended" => dclosed /\ (~threw => dq = <<>>)
    /\ mpc = "exited" => dpc = "ended"

LEMMA NextShutDown == ShutDown /\ [Next]_vars => ShutDown'
<1> SUFFICES ASSUME ShutDown, [Next]_vars PROVE ShutDown'
  OBVIOUS
<1> USE DEF ShutDown, WorkIsEnd, AfterWork, main, wire, sock, sig, work, hc, db, rest
<1>1. CASE PeerConnect \/ PeerHead \/ PeerData \/ PeerHc \/ PeerClose \/ UNCHANGED vars
  BY <1>1 DEF PeerConnect, PeerHead, PeerData, PeerHc, PeerClose, vars
<1>2. CASE Sigterm
  BY <1>2 DEF Sigterm, Interrupt
<1>3. CASE ConnectTest \/ EnterCall \/ Accept \/ AcceptInterrupted \/ AcceptError
  BY <1>3 DEF ConnectTest, EnterCall, Accept, AcceptInterrupted, AcceptError, InterruptConnect,
              CancelWork, Goto
<1>4. CASE \/ CheckSignal("readWork", "readn") \/ CheckSignal("readn", "toSelect")
           \/ CheckSignal("selectEintr", "toSelect") \/ CheckSignal("readEintr", "read")
  BY <1>4 DEF CheckSignal, CancelWork
<1>5. CASE SelectReady \/ ReadEof \/ BadLength \/ Broken
  BY <1>5 DEF SelectReady, ReadEof, BadLength, Broken, Goto
<1>6. CASE ReadHead \/ ReadData
  <2>1. /\ mpc = "read" /\ mpc' = "readn" /\ (wclosed => UNCHANGED wq) /\ (hclosed => UNCHANGED hq)
        /\ UNCHANGED <<wclosed, wpc, hclosed, hpc, dq, dclosed, dpc, threw>>
    BY <1>6 DEF ReadHead, ReadData, Notify, NotifyHc
  <2>2. QED BY <2>1
<1>7. CASE JoinWork \/ CancelHc \/ JoinHc \/ CloseListening \/ CancelDb \/ JoinDb
  BY <1>7 DEF JoinWork, CancelHc, JoinHc, CloseListening, CancelDb, JoinDb, Goto, WorkJoined,
              DbJoined
<1>8. CASE Work
  BY <1>8 DEF Work, WorkGet, WorkParse, EndDocument, NotifyRecord, PutRecord, NextRecord,
              WorkReply, WorkWritten,
              BeforeEnd, Interrupt
<1>9. CASE Hc
  BY <1>9 DEF Hc, HcGet, HcReply, HcWritten
<1>10. CASE Db
  BY <1>10 DEF Db, DbGet, DbExecute, DbDone
<1>11. QED
  BY Steps, <1>1, <1>2, <1>3, <1>4, <1>5, <1>6, <1>7, <1>8, <1>9, <1>10

-----------------------------------------------------------------------------
(* What is still to be read has the number of a message that was sent; a   *)
(* health check is sent only when nothing else is on its way.              *)
Wire == /\ part = "data" => sent >= 1
        /\ inbox # <<>> \/ peer = "on" => conn >= 1
        /\ peer = "pending" => conn < MaxConns
        /\ \A k \in 1..Len(inbox) : /\ inbox[k].no <= sent
                                    /\ inbox[k].kind # "hc" => inbox[k].no >= 1
                                    /\ inbox[k].kind = "hc" => k = 1 /\ part = "head"

Data == {"data", "cut"}
Message == [kind : Kind \cup Data, no : 0..MaxWork]

Handing == wpc \in {"notify", "put"} => wrec.n >= 1 /\ wrec.i \in 1..(wrec.n + 1)

(* The type of each component's variables.                                 *)
PcType == /\ mpc \in MainPc
          /\ wpc \in {"get", "parse", "endDocument", "notify", "put", "reply", "write",
                      "ending", "ended"}
          /\ hpc \in {"get", "reply", "write", "ended"}
          /\ dpc \in {"get", "execute", "file", "ended"}

FlagType == /\ part \in {"head", "data"} /\ head \in Kind
            /\ m_connected \in BOOLEAN /\ m_start \in BOOLEAN
            /\ term \in 0..2 /\ stop \in 0..2 /\ sigterms \in 0..MaxSigterm
            /\ servfd \in {"listen", "none", "csv"} /\ threw \in BOOLEAN
            /\ hq \in Nat /\ hclosed \in BOOLEAN
            /\ wclosed \in BOOLEAN /\ dclosed \in BOOLEAN

WireType == /\ peer \in {"off", "pending", "on"} /\ eof \in BOOLEAN
            /\ inbox \in Seq(Message)
            /\ sent \in 0..MaxWork /\ conn \in 0..MaxConns

DocType == xmlBuff \in Document /\ wq \in Seq(Document) /\ wdoc \in Document

DbType == /\ wrec \in [n : 0..MaxRecords, i : 0..(MaxRecords + 1)]
          /\ dq \in Seq(Record) /\ Len(dq) <= DbMax /\ dbuf \in Seq(Record)

LEMMA TypeParts == TypeOK <=> PcType /\ FlagType /\ WireType /\ DocType /\ DbType
                              /\ mutex \in {"free", "work", "hc"}
BY DEF TypeOK, PcType, FlagType, WireType, DocType, DbType, Message, Data

LEMMA NextPcType == PcType /\ [Next]_vars => PcType'
<1> SUFFICES ASSUME PcType, [Next]_vars PROVE PcType'
  OBVIOUS
<1> USE DEF PcType, main, wire, sock, sig, work, hc, db, rest
<1>1. CASE PeerConnect \/ PeerHead \/ PeerData \/ PeerHc \/ PeerClose \/ UNCHANGED vars
  BY <1>1 DEF PeerConnect, PeerHead, PeerData, PeerHc, PeerClose, vars
<1>2. CASE Sigterm
  BY <1>2 DEF Sigterm, Interrupt, MainPc
<1>3. CASE ConnectTest \/ EnterCall \/ Accept \/ AcceptInterrupted \/ AcceptError
  <2>1. mpc' \in {"joinWork", "toAccept", "accept", "select", "broken", "blind", "readn",
                  "readWork", "cancelHc"}
        /\ UNCHANGED <<wpc, hpc, dpc>>
    BY <1>3 DEF ConnectTest, EnterCall, Accept, AcceptInterrupted, AcceptError, InterruptConnect,
                Goto
  <2>2. QED BY <2>1 DEF MainPc
<1>4. CASE \/ CheckSignal("readWork", "readn") \/ CheckSignal("readn", "toSelect")
           \/ CheckSignal("selectEintr", "toSelect") \/ CheckSignal("readEintr", "read")
  <2>1. mpc' \in {"readn", "toSelect", "read", "cancelHc"} /\ UNCHANGED <<wpc, hpc, dpc>>
    BY <1>4 DEF CheckSignal
  <2>2. QED BY <2>1 DEF MainPc
<1>5. CASE SelectReady \/ ReadEof \/ BadLength \/ Broken \/ ReadHead \/ ReadData
  <2>1. mpc' \in {"read", "broken", "connect", "readn", "cancelHc"} /\ UNCHANGED <<wpc, hpc, dpc>>
    BY <1>5 DEF SelectReady, ReadEof, BadLength, Broken, ReadHead, ReadData, Goto
  <2>2. QED BY <2>1 DEF MainPc
<1>6. CASE JoinWork \/ CancelHc \/ JoinHc \/ CloseListening \/ CancelDb \/ JoinDb
  <2>1. mpc' \in {"cancelHc", "joinHc", "close", "cancelDb", "joinDb", "exited"}
        /\ UNCHANGED <<wpc, hpc, dpc>>
    BY <1>6 DEF JoinWork, CancelHc, JoinHc, CloseListening, CancelDb, JoinDb, Goto
  <2>2. QED BY <2>1 DEF MainPc
<1>7. CASE Work
  BY <1>7 DEF Work, WorkGet, WorkParse, EndDocument, NotifyRecord, PutRecord, NextRecord,
              WorkReply, WorkWritten,
              BeforeEnd, Interrupt, MainPc
<1>8. CASE Hc \/ Db
  BY <1>8 DEF Hc, HcGet, HcReply, HcWritten, Db, DbGet, DbExecute, DbDone
<1>9. QED
  BY Steps, <1>1, <1>2, <1>3, <1>4, <1>5, <1>6, <1>7, <1>8

LEMMA NextFlagType == FlagType /\ [Next]_vars => FlagType'
<1> SUFFICES ASSUME FlagType, [Next]_vars PROVE FlagType'
  OBVIOUS
<1> USE ReceiverAssumption DEF FlagType, main, wire, sock, sig, work, hc, db, rest
<1>1. CASE PeerConnect \/ PeerHead \/ PeerData \/ PeerHc \/ PeerClose \/ UNCHANGED vars
  BY <1>1 DEF PeerConnect, PeerHead, PeerData, PeerHc, PeerClose, vars
<1>2. CASE Sigterm
  BY <1>2 DEF Sigterm
<1>3. CASE ConnectTest \/ EnterCall \/ Accept \/ AcceptInterrupted \/ AcceptError
  <2>1. /\ part' \in {part, "head"} /\ servfd' \in {servfd, "none"}
        /\ UNCHANGED <<head, sig, hc, dclosed>>
    BY <1>3 DEF ConnectTest, EnterCall, Accept, AcceptInterrupted, AcceptError, InterruptConnect,
                CloseServ, Goto
  <2>2. /\ m_connected' \in BOOLEAN /\ m_start' \in BOOLEAN /\ wclosed' \in BOOLEAN
        /\ threw' \in BOOLEAN
    BY <1>3 DEF ConnectTest, EnterCall, Accept, AcceptInterrupted, AcceptError, InterruptConnect,
                CancelWork, Goto
  <2>3. QED BY <2>1, <2>2
<1>4. CASE \/ CheckSignal("readWork", "readn") \/ CheckSignal("readn", "toSelect")
           \/ CheckSignal("selectEintr", "toSelect") \/ CheckSignal("readEintr", "read")
  <2>1. /\ term' \in {term, 2} /\ stop' \in {stop, 2} /\ wclosed' \in BOOLEAN
        /\ m_connected' \in BOOLEAN
        /\ UNCHANGED <<part, head, m_start, sigterms, servfd, threw, hq, hclosed,
                       dclosed>>
    BY <1>4 DEF CheckSignal, CancelWork, Disconnect, DropConnection
  <2>2. QED BY <2>1
<1>5. CASE SelectReady \/ ReadEof \/ BadLength \/ Broken
  <2>1. "hc" \in Kind
    BY DEF Kind
  <2>2. CASE SelectReady \/ ReadEof \/ BadLength
    <3>1. CASE SelectReady
      BY <3>1 DEF SelectReady, Goto
    <3>2. CASE ReadEof
      BY <3>2 DEF ReadEof, Goto
    <3>3. CASE BadLength
      BY <3>3 DEF BadLength
    <3>4. QED BY <2>2, <3>1, <3>2, <3>3
  <2>3. CASE Broken
    <3>1. /\ part' = "head" /\ head' = "hc" /\ m_connected' = FALSE
          /\ UNCHANGED <<m_start, sig, work, hc, db, rest>>
      BY <2>3 DEF Broken, Disconnect, DropConnection
    <3>2. QED BY <2>1, <3>1
  <2>4. QED BY <1>5, <2>2, <2>3
<1>6. CASE ReadHead
  <2>1. head' \in Kind /\ part' \in {"head", "data"} /\ hq' \in Nat
    BY <1>6 DEF ReadHead, NotifyHc, Kind
  <2>2. QED BY <2>1, <1>6 DEF ReadHead
<1>7. CASE ReadData
  <2>1. head' \in Kind /\ part' = "head" /\ hq' \in Nat
    BY <1>7 DEF ReadData, NotifyHc, Kind
  <2>2. QED BY <2>1, <1>7 DEF ReadData
<1>8. CASE JoinWork \/ CancelHc \/ JoinHc \/ CloseListening \/ CancelDb \/ JoinDb
  <2>1. /\ servfd' \in {servfd, "none"} /\ hclosed' \in BOOLEAN /\ dclosed' \in BOOLEAN
        /\ UNCHANGED <<part, head, m_connected, m_start, sig, threw, hq, wclosed>>
    BY <1>8 DEF JoinWork, CancelHc, JoinHc, CloseListening, CancelDb, JoinDb, Goto, CloseServ
  <2>2. QED BY <2>1
<1>9. CASE Work
  BY <1>9 DEF Work, WorkGet, WorkParse, EndDocument, NotifyRecord, PutRecord, NextRecord,
              WorkReply, WorkWritten,
              BeforeEnd
<1>10. CASE Hc
  BY <1>10 DEF Hc, HcGet, HcReply, HcWritten
<1>11. CASE Db
  BY <1>11 DEF Db, DbGet, DbExecute, DbDone
<1>12. QED
  BY Steps, <1>1, <1>2, <1>3, <1>4, <1>5, <1>6, <1>7, <1>8, <1>9, <1>10, <1>11

LEMMA NextWire == FlagType /\ WireType /\ Wire /\ [Next]_vars => WireType' /\ Wire'
<1> SUFFICES ASSUME FlagType, WireType, Wire, [Next]_vars PROVE WireType' /\ Wire'
  OBVIOUS
<1>0. /\ part \in {"head", "data"} /\ MaxWork \in Nat /\ MaxConns \in Nat
      /\ sent \in 0..MaxWork /\ conn \in 0..MaxConns /\ inbox \in Seq(Message)
      /\ Len(inbox) \in Nat /\ \A k \in 1..Len(inbox) : inbox[k] \in Message
      /\ <<>> \in Seq(Message)
  BY ReceiverAssumption DEF FlagType, WireType
<1> USE DEF main, wire, sock, sig, work, hc, db, rest
<1>1. CASE UNCHANGED <<part, wire>>
  BY <1>1 DEF WireType, Wire
<1>2. CASE PeerConnect \/ (PeerClose /\ UNCHANGED inbox)
  <2>1. /\ UNCHANGED <<part, inbox, sent, conn>> /\ eof' \in BOOLEAN
        /\ peer' = peer \/ (peer' = "pending" /\ conn < MaxConns)
    BY <1>2 DEF PeerConnect, PeerClose, WireType
  <2>2. Wire'
    BY <2>1 DEF Wire
  <2>3. QED BY <2>1, <2>2 DEF WireType
(* A message is appended.                                                  *)
<1>3. CASE PeerHead \/ PeerData \/ PeerHc \/ (PeerClose /\ inbox' # inbox)
  <2>1. PICK m \in Message : /\ inbox' = Append(inbox, m)
                             /\ m.no <= sent' /\ (m.kind # "hc" => m.no >= 1)
                             /\ m.kind = "hc" => inbox = <<>> /\ part = "head"
    <3>1. CASE PeerHead
      <4>1. PICK k \in Kind \ {"hc"} : inbox' = Append(inbox, [kind |-> k, no |-> sent + 1])
        BY <3>1 DEF PeerHead
      <4>2. sent' = sent + 1 /\ sent + 1 \in 0..MaxWork
        BY <3>1, <1>0 DEF PeerHead
      <4>3. [kind |-> k, no |-> sent + 1] \in Message
        BY <4>2 DEF Message
      <4>4. QED BY <4>1, <4>2, <4>3, <1>0
    <3>2. CASE PeerData \/ (PeerClose /\ inbox' # inbox)
      <4>1. PICK k \in Data : inbox' = Append(inbox, [kind |-> k, no |-> sent]) /\ sent' = sent
        BY <3>2 DEF PeerData, PeerClose, Data
      <4>2. sent >= 1
        <5>1. CASE part = "data"
          BY <5>1 DEF Wire
        <5>2. CASE inbox # <<>> /\ inbox[Len(inbox)].kind \in WithData
          <6>1. Len(inbox) \in 1..Len(inbox)
            BY <5>2, <1>0
          <6>2. inbox[Len(inbox)].no >= 1 /\ inbox[Len(inbox)].no <= sent
            BY <5>2, <6>1 DEF Wire, WithData
          <6>3. inbox[Len(inbox)].no \in Nat
            BY <6>1, <1>0 DEF Message
          <6>4. QED BY <6>2, <6>3, <1>0
        <5>3. QED BY <3>2, <5>1, <5>2 DEF PeerData, PeerClose, PeerOwesData
      <4>3. [kind |-> k, no |-> sent] \in Message
        BY <1>0 DEF Message
      <4>4. QED BY <4>1, <4>2, <4>3, <1>0 DEF Data
    <3>3. CASE PeerHc
      <4>1. inbox = <<>> /\ part = "head" /\ inbox' = Append(inbox, [kind |-> "hc", no |-> 0])
            /\ sent' = sent
        BY <3>3, <1>0 DEF PeerHc, PeerOwesData
      <4>2. [kind |-> "hc", no |-> 0] \in Message
        BY <1>0 DEF Message, Kind
      <4>3. QED BY <4>1, <4>2, <1>0
    <3>4. QED BY <1>3, <3>1, <3>2, <3>3
  <2>2. /\ inbox' \in Seq(Message) /\ Len(inbox') = Len(inbox) + 1 /\ inbox'[Len(inbox) + 1] = m
        /\ \A k \in 1..Len(inbox) : inbox'[k] = inbox[k]
        /\ \A k \in 1..(Len(inbox) + 1) : k = Len(inbox) + 1 \/ k \in 1..Len(inbox)
    BY <2>1, <1>0
  <2>3. /\ sent' \in {sent, sent + 1} /\ sent' \in 0..MaxWork /\ conn >= 1 /\ peer = "on"
        /\ eof' \in BOOLEAN /\ UNCHANGED <<part, peer, conn>>
    <3>1. peer = "on" /\ sent' \in {sent, sent + 1} /\ (sent' # sent => sent < MaxWork)
          /\ eof' \in BOOLEAN /\ UNCHANGED <<part, peer, conn>>
      BY <1>3 DEF PeerHead, PeerData, PeerHc, PeerClose, WireType
    <3>2. conn >= 1
      BY <3>1 DEF Wire
    <3>3. sent' \in 0..MaxWork
      BY <1>0, <3>1
    <3>4. QED BY <3>1, <3>2, <3>3
  <2>4. WireType'
    BY <2>2, <2>3 DEF WireType
  <2>5. ASSUME NEW k \in 1..Len(inbox')
        PROVE  /\ inbox'[k].no <= sent'
               /\ inbox'[k].kind # "hc" => inbox'[k].no >= 1
               /\ inbox'[k].kind = "hc" => k = 1 /\ part' = "head"
    <3>1. CASE k = Len(inbox) + 1
      <4>1. inbox'[k] = m
        BY <2>2, <3>1
      <4>2. m.kind = "hc" => Len(inbox) = 0 /\ part' = "head"
        BY <2>1, <2>3, <1>0
      <4>3. QED BY <2>1, <3>1, <4>1, <4>2
    <3>2. CASE k \in 1..Len(inbox)
      <4>1. inbox'[k] = inbox[k]
        BY <3>2, <2>2
      <4>2. inbox[k].no \in Nat
        <5>1. inbox[k] \in Message
          BY <3>2, <1>0
        <5>2. QED BY <5>1 DEF Message
      <4>3. /\ inbox[k].no <= sent
            /\ inbox[k].kind # "hc" => inbox[k].no >= 1
            /\ inbox[k].kind = "hc" => k = 1 /\ part = "head"
        BY <3>2, <1>0 DEF Wire
      <4>4. inbox[k].no <= sent'
        <5>1. sent \in Nat
          BY <1>0
        <5>2. QED BY <2>3, <4>2, <4>3, <5>1
      <4>5. QED BY <2>3, <4>1, <4>3, <4>4, Zenon
    <3>3. QED BY <2>2, <3>1, <3>2
  <2>6. QED BY <2>3, <2>4, <2>5, <1>0 DEF Wire
(* What is read is taken from the front.                                   *)
<1>4. CASE ReadHead \/ ReadData
  <2>1. inbox # <<>> /\ inbox' = Tail(inbox) /\ UNCHANGED <<peer, eof, sent, conn>>
    BY <1>4 DEF ReadHead, ReadData
  <2>2. /\ inbox' \in Seq(Message) /\ Len(inbox') = Len(inbox) - 1
        /\ \A k \in 1..Len(inbox') : /\ inbox'[k] = inbox[k + 1]
                                     /\ k + 1 \in 1..Len(inbox) /\ k + 1 # 1
        /\ 1 \in 1..Len(inbox) /\ Head(inbox) = inbox[1]
    BY <2>1, <1>0
  <2>3. part' = "data" => sent >= 1
    <3>1. ASSUME part' = "data" PROVE inbox[1].kind # "hc"
      BY <3>1, <1>4, <2>2 DEF ReadHead, ReadData, WithData
    <3>2. ASSUME part' = "data" PROVE inbox[1].no >= 1 /\ inbox[1].no <= sent
      BY <3>1, <3>2, <2>2 DEF Wire
    <3>3. inbox[1].no \in Nat
      BY <2>2, <1>0 DEF Message
    <3>4. QED BY <3>2, <3>3, <1>0
  <2>4. \A k \in 1..Len(inbox') : inbox'[k].kind # "hc"
    BY <2>2 DEF Wire
  <2>5. QED BY <2>1, <2>2, <2>3, <2>4 DEF Wire, WireType
(* A connection is opened or closed: nothing is in it.                     *)
<1>5. CASE \/ Accept \/ Broken \/ CheckSignal("readWork", "readn")
           \/ CheckSignal("readn", "toSelect") \/ CheckSignal("selectEintr", "toSelect")
           \/ CheckSignal("readEintr", "read")
  <2>1. CASE Accept
    <3>1. conn' \in 0..MaxConns /\ conn' >= 1
      BY <2>1, <1>0 DEF Accept, Wire
    <3>2. inbox' = <<>> /\ part' = "head" /\ peer' = "on" /\ eof' = FALSE /\ sent' = sent
      BY <2>1 DEF Accept
    <3>3. 1..Len(inbox') = {} /\ conn' \in Nat /\ inbox' \in Seq(Message)
      BY <3>1, <3>2, <1>0
    <3>4. Wire'
      BY <3>1, <3>2, <3>3 DEF Wire
    <3>5. QED BY <3>1, <3>2, <3>3, <3>4, <1>0 DEF WireType
  <2>2. CASE ~Accept
    <3>1. part' \in {"head", part} /\ UNCHANGED <<sent, conn>>
          /\ ((inbox' = <<>> /\ peer' = "off" /\ eof' = FALSE) \/ UNCHANGED <<inbox, peer, eof>>)
      BY <1>5, <2>2 DEF Broken, CheckSignal, Disconnect, DropConnection
    <3>2. inbox' \in {inbox, <<>>} /\ peer' \in {peer, "off"} /\ eof' \in BOOLEAN
      BY <3>1 DEF WireType
    <3>3. Wire'
      <4>1. CASE inbox' = <<>>
        BY <4>1, <3>1, <3>2, <1>0 DEF Wire
      <4>2. CASE inbox' = inbox
        BY <4>2, <3>1, <3>2, <1>0 DEF Wire
      <4>3. QED BY <3>2, <4>1, <4>2
    <3>4. QED BY <3>1, <3>2, <3>3, <1>0 DEF WireType
  <2>3. QED BY <2>1, <2>2
<1>6. QED
  <2>1. \/ UNCHANGED <<part, wire>> \/ PeerConnect \/ PeerClose \/ PeerHead \/ PeerData \/ PeerHc
        \/ ReadHead \/ ReadData
        \/ Accept \/ Broken \/ CheckSignal("readWork", "readn")
        \/ CheckSignal("readn", "toSelect") \/ CheckSignal("selectEintr", "toSelect")
        \/ CheckSignal("readEintr", "read")
    BY Steps DEF vars, Sigterm, ConnectTest, EnterCall, AcceptInterrupted, AcceptError,
         InterruptConnect, Goto, SelectReady, ReadEof, BadLength, JoinWork, CancelHc,
         JoinHc, CloseListening, CancelDb, JoinDb, Work, WorkGet, WorkParse, EndDocument,
         NotifyRecord, PutRecord, NextRecord, WorkReply, WorkWritten, BeforeEnd, Hc, HcGet,
         HcReply, HcWritten,
         Db, DbGet, DbExecute, DbDone
  <2>2. QED BY <2>1, <1>1, <1>2, <1>3, <1>4, <1>5

LEMMA NextDocType ==
    DocType /\ FlagType /\ WireType /\ Wire /\ [Next]_vars => DocType'
<1> SUFFICES ASSUME DocType, FlagType, WireType, Wire, [Next]_vars PROVE DocType'
  OBVIOUS
<1>0. /\ xmlBuff \in Document /\ wq \in Seq(Document) /\ wdoc \in Document
      /\ <<>> \in Document
  BY DEF DocType, Document
<1> USE DEF DocType, main, wire, sock, sig, work, hc, db, rest
<1>1. CASE UNCHANGED <<xmlBuff, wq, wdoc>>
  BY <1>1
<1>2. CASE ReadHead \/ ReadData
  <2>1. CASE ReadHead
    <3>1. wq' \in {wq, Append(wq, xmlBuff)} /\ xmlBuff' \in {xmlBuff, <<>>} /\ wdoc' = wdoc
      BY <2>1 DEF ReadHead, Notify
    <3>2. wq' \in Seq(Document)
      BY <1>0, <3>1
    <3>3. QED BY <1>0, <3>1, <3>2
  <2>2. CASE ReadData
    <3> DEFINE f == [conn |-> conn, no |-> Head(inbox).no, cut |-> Head(inbox).kind = "cut"]
               whole == Append(xmlBuff, f)
    <3>1. f \in Fragment
      <4>1. inbox[1].kind # "hc" /\ Head(inbox) = inbox[1] /\ 1 \in 1..Len(inbox)
            /\ inbox[1] \in Message /\ conn >= 1
        BY <2>2 DEF ReadData, Wire, WireType
      <4>2. inbox[1].no \in 1..MaxWork /\ conn \in 1..MaxConns
        BY <4>1, ReceiverAssumption DEF Wire, WireType, Message
      <4>3. QED BY <4>1, <4>2 DEF Fragment
    <3>2. whole \in Document
      BY <1>0, <3>1 DEF Document
    <3>3. wdoc' = wdoc /\ xmlBuff' \in {xmlBuff, whole, <<>>} /\ wq' \in {wq, Append(wq, whole)}
      BY <2>2 DEF ReadData, Notify
    <3> HIDE DEF whole
    <3>4. wq' \in Seq(Document)
      BY <1>0, <3>2, <3>3
    <3>5. QED BY <1>0, <3>2, <3>3, <3>4
  <2>3. QED BY <1>2, <2>1, <2>2
<1>3. CASE Broken
  BY <1>0, <1>3 DEF Broken, ClearBuffer
<1>4. CASE WorkGet \/ WorkReply
  BY <1>0, <1>4 DEF WorkGet, WorkReply
<1>5. QED
  <2>1. UNCHANGED <<xmlBuff, wq, wdoc>> \/ ReadHead \/ ReadData \/ Broken \/ WorkGet \/ WorkReply
    BY Steps DEF vars, PeerConnect, PeerHead, PeerData, PeerHc, PeerClose, Sigterm, ConnectTest,
         EnterCall, Accept, AcceptInterrupted, AcceptError, InterruptConnect, CheckSignal, Goto,
         SelectReady, ReadEof, BadLength, JoinWork, CancelHc, JoinHc, CloseListening, CancelDb,
         JoinDb, Work, WorkParse, EndDocument, NotifyRecord, PutRecord, NextRecord, WorkWritten,
         BeforeEnd,
         Hc, HcGet, HcReply, HcWritten, Db, DbGet, DbExecute, DbDone
  <2>2. QED BY <2>1, <1>1, <1>2, <1>3, <1>4

LEMMA NextDbType ==
    DbType /\ Handing /\ DocType /\ FlagType /\ [Next]_vars => DbType' /\ Handing'
<1> SUFFICES ASSUME DbType, Handing, DocType, FlagType, [Next]_vars PROVE DbType' /\ Handing'
  OBVIOUS
<1>0. /\ MaxRecords \in Nat \ {0} /\ DbMax \in Nat
      /\ dq \in Seq(Record) /\ Len(dq) <= DbMax /\ dbuf \in Seq(Record) /\ <<>> \in Seq(Record)
      /\ wrec \in [n : 0..MaxRecords, i : 0..(MaxRecords + 1)] /\ wdoc \in Document
      /\ wrec.n \in 0..MaxRecords /\ wrec.i \in 0..(MaxRecords + 1)
  BY ReceiverAssumption DEF DbType, DocType
<1> USE DEF main, wire, sock, sig, work, hc, db, rest
<1>1. CASE UNCHANGED <<wpc, wrec, dq, dbuf>>
  BY <1>1 DEF DbType, Handing
<1>2. CASE WorkGet \/ WorkParse \/ WorkReply \/ WorkWritten \/ BeforeEnd
  <2>1. wpc' \notin {"notify", "put"} /\ UNCHANGED <<wrec, dq, dbuf>>
    BY <1>2 DEF WorkGet, WorkParse, WorkReply, WorkWritten, BeforeEnd
  <2>2. QED BY <2>1 DEF DbType, Handing
<1>3. CASE EndDocument
  <2>1. UNCHANGED <<dq, dbuf>>
    BY <1>3 DEF EndDocument
  <2>2. \/ wpc' \notin {"notify", "put"} /\ wrec' = wrec
        \/ \E n \in 1..MaxRecords : wrec' = [n |-> n, i |-> 1]
    BY <1>3 DEF EndDocument
  <2>3. QED BY <1>0, <2>1, <2>2 DEF DbType, Handing
<1>4. CASE NotifyRecord \/ PutRecord
  <2>1. /\ wpc \in {"notify", "put"} /\ wrec.n >= 1 /\ wrec.i \in 1..(wrec.n + 1)
        /\ dbuf' = dbuf
    BY <1>4 DEF NotifyRecord, PutRecord, Handing
  <2>2. dq' \in Seq(Record) /\ Len(dq') <= DbMax
    <3> DEFINE r == [doc |-> wdoc, i |-> wrec.i, n |-> wrec.n]
    <3>1. r \in Record
      <4>1. wrec.i \in 1..(MaxRecords + 1) /\ wrec.n \in 1..MaxRecords /\ wdoc \in Document
        BY <1>0, <2>1
      <4>2. QED BY <4>1 DEF Record
    <3>2. dq' = dq \/ (dq' = Append(dq, r) /\ Len(dq) < DbMax)
      BY <1>4 DEF NotifyRecord, PutRecord, DbRoom
    <3> HIDE DEF r
    <3>3. dq \in Seq(Record) /\ Len(dq) <= DbMax /\ DbMax \in Nat
      BY <1>0
    <3>4. QED BY <3>1, <3>2, <3>3
  <2>3. wrec' \in [n : 0..MaxRecords, i : 0..(MaxRecords + 1)] /\ Handing'
    <3>0. CASE ~NextRecord
      BY <1>0, <1>4, <2>1, <3>0 DEF NotifyRecord, PutRecord, Handing
    <3>1. CASE NextRecord /\ wrec.i <= wrec.n
      <4>1. wrec' = [wrec EXCEPT !.i = @ + 1]
        BY <3>1 DEF NextRecord
      <4>2. wrec' = [n |-> wrec.n, i |-> wrec.i + 1]
        BY <1>0, <4>1
      <4>3. QED BY <1>0, <2>1, <3>1, <4>2 DEF Handing
    <3>2. CASE NextRecord /\ ~(wrec.i <= wrec.n)
      <4>1. wrec' = NoRecords /\ wpc' = "reply"
        BY <3>2 DEF NextRecord
      <4>2. QED BY <1>0, <4>1 DEF NoRecords, Handing
    <3>3. QED BY <3>0, <3>1, <3>2
  <2>4. QED BY <1>0, <2>1, <2>2, <2>3 DEF DbType
<1>5. CASE Db
  <2>1. UNCHANGED <<wpc, wrec>>
    BY <1>5 DEF Db, DbGet, DbExecute, DbDone
  <2>2. dq' \in Seq(Record) /\ Len(dq') <= DbMax /\ dbuf' \in Seq(Record)
    <3>1. \/ UNCHANGED dq /\ dbuf' \in {dbuf, <<>>}
          \/ dq # <<>> /\ dq' = Tail(dq) /\ dbuf' \in {dbuf, Append(dbuf, Head(dq))}
      BY <1>5 DEF Db, DbGet, DbExecute, DbDone, ClearRecords
    <3>2. dq # <<>> => Tail(dq) \in Seq(Record) /\ Len(Tail(dq)) <= DbMax
                       /\ Append(dbuf, Head(dq)) \in Seq(Record)
      BY <1>0
    <3>3. QED BY <1>0, <3>1, <3>2
  <2>3. QED BY <2>1, <2>2 DEF DbType, Handing
<1>6. QED
  <2>1. UNCHANGED <<wpc, wrec, dq, dbuf>> \/ Work \/ Db
    BY Steps DEF vars, PeerConnect, PeerHead, PeerData, PeerHc, PeerClose, Sigterm, ConnectTest,
         EnterCall, Accept, AcceptInterrupted, AcceptError, InterruptConnect, CheckSignal, Goto,
         CancelWork, SelectReady, ReadEof, BadLength, ReadHead, ReadData, Broken, JoinWork,
         CancelHc, JoinHc, CloseListening, CancelDb, JoinDb, Hc, HcGet, HcReply, HcWritten
  <2>2. QED BY <2>1, <1>1, <1>2, <1>3, <1>4, <1>5 DEF Work

Types == PcType /\ FlagType /\ WireType /\ Wire /\ DocType /\ DbType /\ Handing /\ Locked

LEMMA InitTypes == Init => Types
<1> SUFFICES ASSUME Init PROVE Types
  OBVIOUS
<1>0. /\ \A S : <<>> \in Seq(S)
      /\ Len(<<>>) = 0
      /\ 0 \in 0..MaxWork /\ 0 \in 0..MaxConns /\ 0 \in 0..MaxSigterm /\ 0 <= DbMax
      /\ NoRecords \in [n : 0..MaxRecords, i : 0..(MaxRecords + 1)]
  BY ReceiverAssumption DEF NoRecords
<1>1. PcType
  BY DEF Init, PcType, MainPc
<1>2. FlagType
  <2>1. "hc" \in Kind
    BY DEF Kind
  <2>2. /\ part = "head" /\ head = "hc" /\ term = 0 /\ stop = 0 /\ sigterms = 0
        /\ servfd = "listen" /\ hq = 0
    BY DEF Init
  <2>3. /\ m_connected \in BOOLEAN /\ m_start \in BOOLEAN /\ threw \in BOOLEAN
        /\ hclosed \in BOOLEAN /\ wclosed \in BOOLEAN /\ dclosed \in BOOLEAN
    BY DEF Init
  <2>4. QED BY <1>0, <2>1, <2>2, <2>3 DEF FlagType
<1>3. WireType /\ Wire
  <2>1. inbox = <<>> /\ 1..Len(inbox) = {} /\ peer = "off" /\ part = "head"
        /\ eof = FALSE /\ sent = 0 /\ conn = 0
    BY DEF Init
  <2>2. WireType
    BY <1>0, <2>1 DEF WireType
  <2>3. QED BY <2>1, <2>2 DEF Wire
<1>4. DocType /\ DbType
  BY <1>0 DEF Init, DocType, DbType, Document
<1>5. Handing /\ Locked
  BY DEF Init, Handing, Locked, RepliesOnOpenConnection
<1>6. QED BY <1>1, <1>2, <1>3, <1>4, <1>5 DEF Types

LEMMA NextTypes == Types /\ [Next]_vars => Types'
BY NextPcType, NextFlagType, NextWire, NextDocType, NextDbType, NextLocked DEF Types

(* The threads, their queues and the connection stay in their types, and   *)
(* the DB queue within its size.                                           *)
THEOREM TypeCorrect == Spec => []TypeOK
<1>1. Types => TypeOK
  BY TypeParts DEF Types, Locked
<1>2. QED BY <1>1, InitTypes, NextTypes, PTL DEF Spec

-----------------------------------------------------------------------------
(* The records of a document follow one another from the Work thread's     *)
(* loop through the DB queue into the buffer of the DB thread, the end flag*)
(* after the last.                                                         *)
Follows(r, s) == IF r.i <= r.n THEN s.doc = r.doc /\ s.n = r.n /\ s.i = r.i + 1
                               ELSE s.i = 1

(* The record put last of those not yet executed.                          *)
LastPut(r) == IF dq # <<>> THEN r = dq[Len(dq)]
              ELSE dpc \in {"get", "ended"} /\ dbuf # <<>> /\ r = dbuf[Len(dbuf)]

Buffered == /\ \A k \in 1..Len(dbuf) : /\ dbuf[k].doc = dbuf[1].doc /\ dbuf[k].n = dbuf[1].n
                                       /\ dbuf[k].i = k /\ k <= dbuf[k].n
            /\ dpc \in {"execute", "file"} => dbuf # <<>> /\ Len(dbuf) = dbuf[1].n
            /\ dpc = "ended" /\ ~threw => dbuf = <<>>

Queued == /\ \A k \in 1..Len(dq) : dq[k].i <= dq[k].n + 1
          /\ \A k \in 1..(Len(dq) - 1) : Follows(dq[k], dq[k + 1])
          /\ dq # <<>> => IF dpc \in {"get", "ended"} /\ dbuf # <<>>
                          THEN Follows(dbuf[Len(dbuf)], dq[1])
                          ELSE dq[1].i = 1

(* The document the Work thread is at, until it finds the queue closed.    *)
Handed == ~dclosed \/ ~threw \/ wpc = "put" =>
             IF wpc \in {"notify", "put"} /\ wrec.i > 1
             THEN \E r \in Record : /\ LastPut(r)
                                    /\ r.doc = wdoc /\ r.n = wrec.n /\ r.i = wrec.i - 1
             ELSE \A r \in Record : LastPut(r) => r.i > r.n

BInv == Types /\ ShutDown /\ Buffered /\ Queued /\ Handed

(* The Work thread puts a record.                                          *)
LEMMA PutBatches == ASSUME BInv, PutRecord PROVE Buffered' /\ Queued' /\ Handed'
<1> DEFINE r0 == [doc |-> wdoc, i |-> wrec.i, n |-> wrec.n]
<1>0. /\ wpc = "put" /\ UNCHANGED <<dbuf, dpc, dclosed, threw, wdoc>>
      /\ dq \in Seq(Record) /\ dbuf \in Seq(Record) /\ Len(dq) \in Nat /\ Len(dbuf) \in Nat
      /\ wrec.n \in 1..MaxRecords /\ wrec.i \in 1..(wrec.n + 1) /\ MaxRecords \in Nat
      /\ wrec \in [n : 0..MaxRecords, i : 0..(MaxRecords + 1)]
  <2>1. wpc = "put" /\ UNCHANGED <<dbuf, dpc, dclosed, threw, wdoc>>
    BY DEF PutRecord, main, wire, sock, sig, work, hc, db, rest
  <2>2. dq \in Seq(Record) /\ dbuf \in Seq(Record)
        /\ wrec \in [n : 0..MaxRecords, i : 0..(MaxRecords + 1)]
    BY DEF BInv, Types, DbType
  <2>3. wrec.n >= 1 /\ wrec.i \in 1..(wrec.n + 1)
    BY <2>1 DEF BInv, Types, Handing
  <2>4. QED BY <2>1, <2>2, <2>3, ReceiverAssumption
<1>a. r0 \in Record
  BY <1>0 DEF Record, BInv, Types, DocType
<1>b. r0.doc = wdoc /\ r0.i = wrec.i /\ r0.n = wrec.n
  OBVIOUS
<1>c. /\ wrec.i <= wrec.n => wpc' = "notify" /\ wrec'.i = wrec.i + 1 /\ wrec'.n = wrec.n
      /\ ~(wrec.i <= wrec.n) => wpc' = "reply"
  BY <1>0 DEF PutRecord, NextRecord
<1>d. dq' = Append(dq, r0)
  BY DEF PutRecord
<1> HIDE DEF r0
<1>1. /\ dq' \in Seq(Record) /\ Len(dq') = Len(dq) + 1 /\ dq'[Len(dq) + 1] = r0
      /\ \A k \in 1..Len(dq) : dq'[k] = dq[k]
      /\ dq' # <<>>
  <2>1. dq' = Append(dq, r0)
    BY <1>d
  <2>2. PICK q \in Seq(Record) : q = dq
    BY <1>0
  <2>3. /\ Append(q, r0) \in Seq(Record) /\ Len(Append(q, r0)) = Len(q) + 1
        /\ Append(q, r0)[Len(q) + 1] = r0
        /\ \A k \in 1..Len(q) : Append(q, r0)[k] = q[k]
    BY <1>a
  <2>4. Append(q, r0) # <<>>
    BY <2>3
  <2>5. QED BY <2>1, <2>2, <2>3, <2>4
<1>2. \A r \in Record : LastPut(r) => Follows(r, r0)
  <2>1. CASE wrec.i > 1
    <3>1. PICK r \in Record : /\ LastPut(r)
                              /\ r.doc = wdoc /\ r.n = wrec.n /\ r.i = wrec.i - 1
      BY <1>0, <2>1 DEF BInv, Handed
    <3>2. Follows(r, r0)
      BY <1>0, <1>b, <2>1, <3>1 DEF Follows
    <3>3. QED BY <3>1, <3>2 DEF LastPut
  <2>2. CASE ~(wrec.i > 1)
    <3>1. r0.i = 1
      BY <1>0, <1>b, <2>2
    <3>2. \A r \in Record : LastPut(r) => r.i > r.n
      BY <1>0, <2>2 DEF BInv, Handed
    <3>3. \A r \in Record : r.i \in Nat /\ r.n \in Nat
      BY ReceiverAssumption DEF Record
    <3>4. QED BY <3>1, <3>2, <3>3 DEF Follows
  <2>3. QED BY <2>1, <2>2
<1>3. (\A r \in Record : ~LastPut(r)) => r0.i = 1
  BY <1>0, <1>b DEF BInv, Handed
<1>4. Queued'
  <2>1. ASSUME NEW k \in 1..Len(dq') PROVE dq'[k].i <= dq'[k].n + 1
    <3>1. CASE k = Len(dq) + 1
      BY <3>1, <1>1, <1>0, <1>b
    <3>2. CASE k \in 1..Len(dq)
      BY <3>2, <1>1 DEF BInv, Queued
    <3>3. QED BY <1>0, <1>1, <3>1, <3>2
  <2>2. ASSUME NEW k \in 1..(Len(dq') - 1) PROVE Follows(dq'[k], dq'[k + 1])
    <3>1. CASE k = Len(dq)
      <4>1. LastPut(dq[k]) /\ dq[k] \in Record /\ dq'[k] = dq[k] /\ dq'[k + 1] = r0
        BY <3>1, <1>0, <1>1 DEF LastPut
      <4>2. QED BY <4>1, <1>2
    <3>2. CASE k \in 1..(Len(dq) - 1)
      <4>1. dq'[k] = dq[k] /\ dq'[k + 1] = dq[k + 1]
        BY <3>2, <1>0, <1>1
      <4>2. QED BY <3>2, <4>1 DEF BInv, Queued
    <3>3. QED BY <1>0, <1>1, <3>1, <3>2
  <2>3. IF dpc \in {"get", "ended"} /\ dbuf # <<>>
        THEN Follows(dbuf[Len(dbuf)], dq'[1]) ELSE dq'[1].i = 1
    <3>1. CASE dq # <<>>
      <4>1. dq'[1] = dq[1]
        BY <3>1, <1>0, <1>1
      <4>2. QED BY <3>1, <4>1 DEF BInv, Queued
    <3>2. CASE dq = <<>>
      <4>1. dq'[1] = r0
        BY <3>2, <1>1
      <4>2. CASE dpc \in {"get", "ended"} /\ dbuf # <<>>
        <5>1. LastPut(dbuf[Len(dbuf)]) /\ dbuf[Len(dbuf)] \in Record
          BY <3>2, <4>2, <1>0 DEF LastPut
        <5>2. QED BY <4>1, <4>2, <5>1, <1>2
      <4>3. CASE ~(dpc \in {"get", "ended"} /\ dbuf # <<>>)
        BY <3>2, <4>1, <4>3, <1>3 DEF LastPut
      <4>4. QED BY <4>2, <4>3
    <3>3. QED BY <3>1, <3>2
  <2>4. QED BY <1>0, <2>1, <2>2, <2>3 DEF Queued
<1>5. \A r : LastPut(r)' <=> r = r0
  BY <1>1 DEF LastPut
<1>6. Handed'
  <2>1. CASE wrec.i <= wrec.n
    <3>1. wpc' = "notify" /\ wrec'.i = wrec.i + 1 /\ wrec'.n = wrec.n
      BY <1>c, <2>1
    <3>2. r0.doc = wdoc' /\ r0.n = wrec'.n /\ r0.i = wrec'.i - 1 /\ wrec'.i > 1
      BY <1>0, <1>b, <3>1
    <3>3. QED BY <1>a, <1>5, <3>1, <3>2 DEF Handed
  <2>2. CASE ~(wrec.i <= wrec.n)
    <3>1. wpc' = "reply" /\ r0.i > r0.n
      BY <1>0, <1>b, <1>c, <2>2
    <3>2. QED BY <1>5, <3>1 DEF Handed
  <2>3. QED BY <2>1, <2>2
<1>7. QED BY <1>0, <1>4, <1>6 DEF BInv, Buffered

(* The DB thread takes a record, or the end flag, or executes.             *)
LEMMA TakeBatches == ASSUME BInv, Db PROVE Buffered' /\ Queued' /\ Handed'
<1>0. /\ UNCHANGED <<wpc, wdoc, wrec, dclosed, threw>>
      /\ dq \in Seq(Record) /\ dbuf \in Seq(Record) /\ Len(dq) \in Nat /\ Len(dbuf) \in Nat
      /\ \A r \in Record : r.i \in Nat /\ r.n \in Nat \ {0}
  <2>1. UNCHANGED <<wpc, wdoc, wrec, dclosed, threw>>
    BY DEF Db, DbGet, DbExecute, DbDone, main, wire, sock, sig, work, hc, db, rest
  <2>2. dq \in Seq(Record) /\ dbuf \in Seq(Record)
    BY DEF BInv, Types, DbType
  <2>3. \A r \in Record : r.i \in Nat /\ r.n \in Nat \ {0}
    BY ReceiverAssumption DEF Record
  <2>4. QED BY <2>1, <2>2, <2>3
<1>a. Buffered /\ Queued /\ Handed
  BY DEF BInv
<1>1. CASE DbExecute
  <2>1. dpc = "execute" /\ dpc' = "file" /\ UNCHANGED <<dq, dbuf>>
    BY <1>1 DEF DbExecute, main, wire, sock, sig, work, hc, db, rest
  <2>2. QED BY <1>0, <1>a, <2>1 DEF Buffered, Queued, Handed, LastPut
<1>2. CASE DbDone
  <2>1. dpc = "file" /\ dpc' = "get" /\ dbuf' = <<>> /\ dq' = dq
    BY <1>2 DEF DbDone, ClearRecords, main, wire, sock, sig, work, hc, db, rest
  <2>2. Buffered'
    BY <2>1 DEF Buffered
  <2>3. Queued'
    BY <1>a, <2>1 DEF Queued
  <2>4. \A r : LastPut(r)' <=> LastPut(r)
    BY <2>1 DEF LastPut
  <2>5. QED BY <1>0, <1>a, <2>2, <2>3, <2>4 DEF Handed
<1>3. CASE DbGet /\ dpc' = "ended"
  <2>1. dq = <<>> /\ dclosed /\ dpc = "get" /\ UNCHANGED <<dq, dbuf>>
    BY <1>3 DEF DbGet, main, wire, sock, sig, work, hc, db, rest
  <2>2. ~threw => dbuf = <<>>
    <3>1. SUFFICES ASSUME ~threw, dbuf # <<>> PROVE FALSE
      OBVIOUS
    <3>2. wpc \notin {"notify", "put"}
      BY <2>1, <3>1 DEF BInv, ShutDown, AfterWork, WorkIsEnd
    <3>3. dbuf[Len(dbuf)] \in Record /\ LastPut(dbuf[Len(dbuf)]) /\ Len(dbuf) \in 1..Len(dbuf)
      BY <1>0, <2>1, <3>1 DEF LastPut
    <3>4. dbuf[Len(dbuf)].i > dbuf[Len(dbuf)].n
      BY <1>a, <3>1, <3>2, <3>3 DEF Handed
    <3>5. dbuf[Len(dbuf)].i <= dbuf[Len(dbuf)].n
      BY <1>a, <3>3 DEF Buffered
    <3>6. QED BY <1>0, <3>3, <3>4, <3>5
  <2>3. Buffered'
    BY <1>0, <1>a, <1>3, <2>1, <2>2 DEF Buffered
  <2>4. Queued'
    BY <1>a, <2>1 DEF Queued
  <2>5. \A r : LastPut(r)' <=> LastPut(r)
    BY <1>3, <2>1 DEF LastPut
  <2>6. QED BY <1>0, <1>a, <2>1, <2>3, <2>4, <2>5 DEF Handed
<1>4. CASE DbGet /\ dpc' # "ended"
  <2>1. /\ dpc = "get" /\ dq # <<>> /\ dq' = Tail(dq) /\ Head(dq) = dq[1]
        /\ \/ dq[1].i <= dq[1].n /\ dbuf' = Append(dbuf, dq[1]) /\ dpc' = "get"
           \/ dq[1].i > dq[1].n /\ dbuf' = dbuf /\ dpc' = "execute"
    BY <1>4 DEF DbGet, main, wire, sock, sig, work, hc, db, rest
  <2>2. PICK r1 \in Record : r1 = dq[1] /\ Len(dq) >= 1
    BY <1>0, <2>1
  <2>3. /\ dq' \in Seq(Record) /\ Len(dq') = Len(dq) - 1
        /\ \A k \in 1..Len(dq') : dq'[k] = dq[k + 1]
    BY <1>0, <2>1, <2>2
  <2>4. \A k \in 1..(Len(dq') - 1) : Follows(dq'[k], dq'[k + 1])
    <3>1. ASSUME NEW k \in 1..(Len(dq') - 1) PROVE Follows(dq'[k], dq'[k + 1])
      <4>1. dq'[k] = dq[k + 1] /\ dq'[k + 1] = dq[k + 2] /\ k + 1 \in 1..(Len(dq) - 1)
            /\ (k + 1) + 1 = k + 2
        BY <1>0, <2>3
      <4>2. Follows(dq[k + 1], dq[(k + 1) + 1])
        BY <1>a, <4>1 DEF Queued
      <4>3. QED BY <4>1, <4>2
    <3>2. QED BY <3>1
  <2>5. /\ \A k \in 1..Len(dq') : dq'[k].i <= dq'[k].n + 1
        /\ dq' # <<>> => dq'[1] = dq[2] /\ Follows(r1, dq'[1])
    <3>1. \A k \in 1..Len(dq') : k + 1 \in 1..Len(dq)
      BY <1>0, <2>3
    <3>2. dq' # <<>> => 1 \in 1..(Len(dq) - 1) /\ 1 \in 1..Len(dq') /\ 1 + 1 = 2
      BY <1>0, <2>3
    <3>3. \A k \in 1..Len(dq') : dq'[k].i <= dq'[k].n + 1
      BY <1>a, <2>3, <3>1 DEF Queued
    <3>4. dq' # <<>> => dq'[1] = dq[2] /\ Follows(dq[1], dq[1 + 1])
      BY <1>a, <2>3, <3>2 DEF Queued
    <3>5. QED BY <2>2, <3>2, <3>3, <3>4
  (* Who was put last: it stays, unless it is taken.                         *)
  <2>6. dq' # <<>> => dq'[Len(dq')] = dq[Len(dq)]
    BY <1>0, <2>3
  <2>7. dq' = <<>> => Len(dq) = 1 /\ LastPut(r1)
    <3>1. dq' = <<>> => Len(dq) = 1
      BY <1>0, <2>3
    <3>2. QED BY <2>1, <2>2, <3>1 DEF LastPut
  <2>8. CASE r1.i <= r1.n
    <3>1. dbuf' = Append(dbuf, r1) /\ dpc' = "get"
      BY <1>0, <2>1, <2>2, <2>8
    <3>2. /\ dbuf' \in Seq(Record) /\ Len(dbuf') = Len(dbuf) + 1 /\ dbuf'[Len(dbuf) + 1] = r1
          /\ \A k \in 1..Len(dbuf) : dbuf'[k] = dbuf[k]
      BY <1>0, <2>2, <3>1
    <3>3. /\ r1.i = Len(dbuf) + 1
          /\ dbuf # <<>> => r1.doc = dbuf[1].doc /\ r1.n = dbuf[1].n
      <4>1. CASE dbuf = <<>>
        BY <1>0, <1>a, <2>1, <2>2, <4>1 DEF Queued
      <4>2. CASE dbuf # <<>>
        <5>1. Len(dbuf) \in 1..Len(dbuf) /\ dbuf[Len(dbuf)] \in Record
          BY <1>0, <4>2
        <5>2. Follows(dbuf[Len(dbuf)], r1)
          BY <1>a, <2>1, <2>2, <4>2 DEF Queued
        <5>3. /\ dbuf[Len(dbuf)].doc = dbuf[1].doc /\ dbuf[Len(dbuf)].n = dbuf[1].n
              /\ dbuf[Len(dbuf)].i = Len(dbuf) /\ Len(dbuf) <= dbuf[Len(dbuf)].n
          BY <1>a, <5>1 DEF Buffered
        <5>4. QED BY <5>1, <5>2, <5>3 DEF Follows
      <4>3. QED BY <4>1, <4>2
    <3>4. ASSUME NEW k \in 1..Len(dbuf')
          PROVE  /\ dbuf'[k].doc = dbuf'[1].doc /\ dbuf'[k].n = dbuf'[1].n
                 /\ dbuf'[k].i = k /\ k <= dbuf'[k].n
      <4>1. CASE k = Len(dbuf) + 1
        <5>1. dbuf'[k] = r1 /\ r1.i = k /\ k <= r1.n
          BY <2>2, <2>8, <3>2, <3>3, <4>1
        <5>2. r1.doc = dbuf'[1].doc /\ r1.n = dbuf'[1].n
          <6>1. CASE dbuf = <<>>
            BY <3>2, <6>1
          <6>2. CASE dbuf # <<>>
            <7>1. dbuf'[1] = dbuf[1]
              BY <1>0, <3>2, <6>2
            <7>2. QED BY <3>3, <6>2, <7>1
          <6>3. QED BY <6>1, <6>2
        <5>3. QED BY <5>1, <5>2
      <4>2. CASE k \in 1..Len(dbuf)
        <5>1. dbuf'[k] = dbuf[k] /\ dbuf'[1] = dbuf[1]
          BY <1>0, <3>2, <4>2
        <5>2. QED BY <1>a, <4>2, <5>1 DEF Buffered
      <4>3. QED BY <1>0, <3>2, <4>1, <4>2
    <3>5. Buffered'
      BY <3>1, <3>4 DEF Buffered
    <3>6. dbuf' # <<>> /\ dbuf'[Len(dbuf')] = r1
      BY <1>0, <3>2
    <3>7. Queued'
      <4>1. dq' # <<>> => Follows(dbuf'[Len(dbuf')], dq'[1])
        BY <2>5, <3>6
      <4>2. QED BY <2>4, <2>5, <3>1, <3>6, <4>1 DEF Queued
    <3>8. \A r : LastPut(r)' <=> LastPut(r)
      BY <2>1, <2>2, <2>6, <2>7, <3>1, <3>6 DEF LastPut
    <3>9. QED BY <1>0, <1>a, <3>5, <3>7, <3>8 DEF Handed
  <2>9. CASE ~(r1.i <= r1.n)
    <3>1. dbuf' = dbuf /\ dpc' = "execute"
      BY <2>1, <2>2, <2>9
    <3>2. dbuf # <<>> /\ Len(dbuf) = dbuf[1].n
      <4>1. ASSUME dbuf = <<>> PROVE FALSE
        <5>1. r1.i = 1
          BY <1>a, <2>1, <2>2, <4>1 DEF Queued
        <5>2. QED BY <1>0, <2>9, <5>1
      <4>2. Len(dbuf) \in 1..Len(dbuf) /\ dbuf[Len(dbuf)] \in Record
        BY <1>0, <4>1
      <4>3. Follows(dbuf[Len(dbuf)], r1)
        BY <1>a, <2>1, <2>2, <4>1 DEF Queued
      <4>4. /\ dbuf[Len(dbuf)].n = dbuf[1].n
            /\ dbuf[Len(dbuf)].i = Len(dbuf) /\ Len(dbuf) <= dbuf[Len(dbuf)].n
        BY <1>a, <4>2 DEF Buffered
      <4>5. QED BY <1>0, <2>9, <4>1, <4>2, <4>3, <4>4 DEF Follows
    <3>3. Buffered'
      BY <1>a, <3>1, <3>2 DEF Buffered
    <3>4. dq' # <<>> => dq'[1].i = 1
      BY <2>5, <2>9 DEF Follows
    <3>5. Queued'
      BY <2>4, <2>5, <3>1, <3>4 DEF Queued
    <3>6. Handed'
      <4>1. CASE dq' # <<>>
        <5>1. \A r : LastPut(r)' <=> LastPut(r)
          BY <2>1, <2>6, <4>1 DEF LastPut
        <5>2. QED BY <1>0, <1>a, <5>1 DEF Handed
      <4>2. CASE dq' = <<>>
        <5>1. \A r : ~LastPut(r)'
          BY <3>1, <4>2 DEF LastPut
        <5>2. (~dclosed \/ ~threw \/ wpc = "put") => ~(wpc \in {"notify", "put"} /\ wrec.i > 1)
          <6>1. SUFFICES ASSUME ~dclosed \/ ~threw \/ wpc = "put", wpc \in {"notify", "put"},
                                wrec.i > 1
                         PROVE FALSE
            OBVIOUS
          <6>2. PICK r \in Record : LastPut(r) /\ r.n = wrec.n /\ r.i = wrec.i - 1
            BY <1>a, <6>1 DEF Handed
          <6>3. r = r1
            BY <2>1, <2>2, <2>7, <4>2, <6>2 DEF LastPut
          <6>4. wrec.i \in 1..(wrec.n + 1)
            BY <6>1 DEF BInv, Types, Handing
          <6>5. QED BY <1>0, <2>9, <6>2, <6>3, <6>4
        <5>3. QED BY <1>0, <5>1, <5>2 DEF Handed
      <4>3. QED BY <4>1, <4>2
    <3>7. QED BY <3>3, <3>5, <3>6
  <2>10. QED BY <2>8, <2>9
<1>5. QED BY <1>1, <1>2, <1>3, <1>4 DEF Db

LEMMA NextBInv == BInv /\ [Next]_vars => BInv'
<1> SUFFICES ASSUME BInv, [Next]_vars PROVE BInv'
  OBVIOUS
<1>0. Types' /\ ShutDown' /\ Buffered /\ Queued /\ Handed /\ FlagType
  BY NextTypes, NextShutDown DEF BInv, Types
<1> USE DEF main, wire, sock, sig, work, hc, db, rest
<1>1. CASE UNCHANGED <<wpc, wrec, wdoc, db, threw>>
  BY <1>0, <1>1 DEF BInv, Buffered, Queued, Handed, LastPut
<1>2. CASE AcceptError \/ BadLength
  <2>1. UNCHANGED <<wpc, wrec, wdoc, db>> /\ threw' = TRUE
    BY <1>2 DEF AcceptError, BadLength
  <2>2. \A r : LastPut(r)' <=> LastPut(r)
    BY <2>1 DEF LastPut
  <2>3. QED BY <1>0, <2>1, <2>2 DEF BInv, Buffered, Queued, Handed
<1>3. CASE CancelDb
  <2>1. UNCHANGED <<wpc, wrec, wdoc, dq, dbuf, dpc, threw>> /\ dclosed' = TRUE
        /\ mpc = "cancelDb"
    BY <1>3 DEF CancelDb
  <2>2. ~dclosed
    BY <2>1 DEF BInv, ShutDown
  <2>3. \A r : LastPut(r)' <=> LastPut(r)
    BY <2>1 DEF LastPut
  <2>4. QED BY <1>0, <2>1, <2>2, <2>3 DEF BInv, Buffered, Queued, Handed
<1>4. CASE WorkGet \/ WorkParse \/ EndDocument \/ WorkReply \/ WorkWritten \/ BeforeEnd
  <2>1. /\ wpc \notin {"notify", "put"} /\ wpc' # "put" /\ UNCHANGED <<db, threw>>
        /\ wpc' = "notify" => wrec'.i = 1
    BY <1>4 DEF WorkGet, WorkParse, EndDocument, WorkReply, WorkWritten, BeforeEnd
  <2>2. \A r : LastPut(r)' <=> LastPut(r)
    BY <2>1 DEF LastPut
  <2>3. QED BY <1>0, <2>1, <2>2 DEF BInv, Buffered, Queued, Handed
<1>5. CASE PutRecord \/ Db
  BY <1>0, <1>5, PutBatches, TakeBatches DEF BInv
(* The Work thread finds the DB queue open, or closed: then main left by an*)
(* exception.                                                              *)
<1>6. CASE NotifyRecord
  <2>1. wpc = "notify" /\ UNCHANGED <<wdoc, db, threw>>
    BY <1>6 DEF NotifyRecord
  <2>2. \A r : LastPut(r)' <=> LastPut(r)
    BY <2>1 DEF LastPut
  <2>3. Buffered' /\ Queued'
    BY <1>0, <2>1 DEF Buffered, Queued
  <2>4. Handed'
    <3>1. CASE ~dclosed
      <4>1. wpc' = "put" /\ wrec' = wrec
        BY <1>6, <3>1 DEF NotifyRecord
      <4>2. QED BY <1>0, <2>1, <2>2, <3>1, <4>1 DEF Handed
    <3>2. CASE dclosed
      <4>1. threw
        BY <2>1, <3>2 DEF BInv, ShutDown, AfterWork, WorkIsEnd
      <4>2. wpc' # "put"
        BY <1>6, <3>2 DEF NotifyRecord, NextRecord
      <4>3. QED BY <2>1, <3>2, <4>1, <4>2 DEF Handed
    <3>3. QED BY <3>1, <3>2
  <2>5. QED BY <1>0, <2>3, <2>4 DEF BInv
<1>7. QED
  <2>1. \/ UNCHANGED <<wpc, wrec, wdoc, db, threw>> \/ AcceptError \/ BadLength
        \/ CancelDb \/ Work \/ Db
    BY Steps DEF vars, PeerConnect, PeerHead, PeerData, PeerHc, PeerClose, Sigterm, ConnectTest,
         EnterCall, Accept, AcceptInterrupted, InterruptConnect, CheckSignal, Goto,
         CancelWork, SelectReady, ReadEof, ReadHead, ReadData, Broken, JoinWork,
         CancelHc, JoinHc, CloseListening, JoinDb, Hc, HcGet, HcReply, HcWritten
  <2>2. QED BY <2>1, <1>1, <1>2, <1>3, <1>4, <1>5, <1>6 DEF Work

LEMMA InitBInv == Init => BInv
<1> SUFFICES ASSUME Init PROVE BInv
  OBVIOUS
<1>1. dq = <<>> /\ dbuf = <<>> /\ dpc = "get" /\ wpc = "get" /\ 1..Len(dq) = {}
      /\ 1..Len(dbuf) = {} /\ 1..(Len(dq) - 1) = {}
  BY DEF Init
<1>2. Buffered /\ Queued /\ Handed
  BY <1>1 DEF Buffered, Queued, Handed, LastPut
<1>3. ShutDown
  BY DEF Init, ShutDown, WorkIsEnd, AfterWork
<1>4. QED BY <1>2, <1>3, InitTypes DEF BInv

(* A batch is executed only when it holds all the records of one document. *)
THEOREM BatchesHoldOneDocument == Spec => []BatchesAreWhole
<1>1. ASSUME BInv PROVE BatchesAreWhole
  <2>1. SUFFICES ASSUME dpc \in {"execute", "file"} PROVE /\ dbuf # <<>> /\ Len(dbuf) = dbuf[1].n
            /\ \A k \in DOMAIN dbuf : dbuf[k] = [dbuf[1] EXCEPT !.i = k]
    BY DEF BatchesAreWhole
  <2>2. Buffered /\ dbuf \in Seq(Record)
    BY <1>1 DEF BInv, Types, DbType
  <2>3. ASSUME NEW k \in DOMAIN dbuf PROVE dbuf[k] = [dbuf[1] EXCEPT !.i = k]
    <3>1. k \in 1..Len(dbuf) /\ 1 \in 1..Len(dbuf)
      BY <2>2
    <3>2. PICK r \in Record, s \in Record : r = dbuf[1] /\ s = dbuf[k]
      BY <2>2, <3>1
    <3>3. s.doc = r.doc /\ s.n = r.n /\ s.i = k
      BY <2>2, <3>1, <3>2 DEF Buffered
    <3>4. s = [r EXCEPT !.i = k]
      BY <3>3 DEF Record
    <3>5. QED BY <3>2, <3>4
  <2>4. QED BY <2>1, <2>2, <2>3 DEF Buffered
<1>2. QED BY <1>1, InitBInv, NextBInv, PTL DEF Spec

(* The process ends only when everything it accepted has been done.        *)
THEOREM NothingIsLeftAtExit == Spec => []DrainedAtExit
<1>1. BInv => DrainedAtExit
  BY DEF BInv, ShutDown, AfterWork, WorkIsEnd, Buffered, DrainedAtExit
<1>2. QED BY <1>1, InitBInv, NextBInv, PTL DEF Spec

-----------------------------------------------------------------------------
(* The fragments of one connection, in the order they were sent.           *)
InSequence(d) == \A i, j \in DOMAIN d : i < j => /\ d[i].conn = d[j].conn /\ d[i].no < d[j].no
                                                 /\ ~d[i].cut

(* Data follows its head on the wire.                                      *)
HeadsAndData ==
    /\ part = "data" /\ inbox # <<>> => inbox[1].kind \in Data
    /\ \A k \in 1..(Len(inbox) - 1) : inbox[k].kind \in WithData => inbox[k + 1].kind \in Data

(* What is still to come is newer than what came, and data still owed is   *)
(* the newest.                                                             *)
Newer ==
    /\ \A i \in 1..Len(xmlBuff) : xmlBuff[i].no <= sent
    /\ \A j, k \in 1..Len(inbox) :
          j < k /\ inbox[j].kind \in Data /\ inbox[k].kind \in Data => inbox[j].no < inbox[k].no
    /\ \A i \in 1..Len(xmlBuff), k \in 1..Len(inbox) :
          inbox[k].kind \in Data => xmlBuff[i].no < inbox[k].no
    /\ PeerOwesData => /\ \A k \in 1..Len(inbox) : inbox[k].kind \in Data => inbox[k].no < sent
                       /\ \A i \in 1..Len(xmlBuff) : xmlBuff[i].no < sent

(* Data that were cut are the last of their connection.                    *)
CutIsLast ==
    /\ \A k \in 1..Len(inbox) : inbox[k].kind = "cut" => k = Len(inbox) /\ eof
    /\ \A i \in 1..Len(xmlBuff) :
          xmlBuff[i].cut => i = Len(xmlBuff) /\ inbox = <<>> /\ (eof \/ peer # "on")

Buffer == /\ InSequence(xmlBuff)
          /\ \A i \in 1..Len(xmlBuff) : xmlBuff[i].conn = conn
          /\ mpc \in {"connect", "toAccept", "accept", "acceptEintr"} => xmlBuff = <<>>

Passed == InSequence(wdoc) /\ \A k \in 1..Len(wq) : InSequence(wq[k])

DInv == Types /\ HeadsAndData /\ Newer /\ CutIsLast /\ Buffer /\ Passed

LEMMA Numbers ==
    ASSUME DInv
    PROVE  /\ sent \in Nat /\ conn \in Nat /\ inbox \in Seq(Message) /\ Len(inbox) \in Nat
           /\ \A k \in 1..Len(inbox) : inbox[k].no \in Nat /\ inbox[k].no <= sent
           /\ xmlBuff \in Seq(Fragment) /\ Len(xmlBuff) \in Nat
           /\ \A i \in 1..Len(xmlBuff) : xmlBuff[i].no \in Nat
           /\ wq \in Seq(Document) /\ Len(wq) \in Nat
           /\ part \in {"head", "data"}
<1>1. /\ sent \in Nat /\ conn \in Nat /\ inbox \in Seq(Message) /\ wq \in Seq(Document)
      /\ xmlBuff \in Seq(Fragment) /\ part \in {"head", "data"}
  BY ReceiverAssumption DEF DInv, Types, WireType, DocType, Document, FlagType
<1>2. \A m \in Message : m.no \in Nat
  BY ReceiverAssumption DEF Message
<1>3. \A f \in Fragment : f.no \in Nat
  BY DEF Fragment
<1>4. \A k \in 1..Len(inbox) : inbox[k].no <= sent
  BY DEF DInv, Types, Wire
<1>5. QED BY <1>1, <1>2, <1>3, <1>4

(* The client sends.                                                       *)
LEMMA SendKeeps ==
    ASSUME DInv, PeerHead \/ PeerData \/ PeerHc \/ (PeerClose /\ inbox' # inbox)
    PROVE  HeadsAndData' /\ Newer' /\ CutIsLast'
<1>0. HeadsAndData /\ Newer /\ CutIsLast
  BY DEF DInv
<1>1. PICK m : /\ inbox' = Append(inbox, m) /\ m \in Message
               /\ \/ m.kind \in Data /\ m.no = sent /\ sent' = sent /\ PeerOwesData
                  \/ /\ m.kind \notin Data /\ sent' \in {sent, sent + 1} /\ ~PeerOwesData
                     /\ m.kind \in WithData => sent' = sent + 1
               /\ m.kind = "cut" => eof'
  <2>1. CASE PeerHead
    <3>1. PICK k \in Kind \ {"hc"} : inbox' = Append(inbox, [kind |-> k, no |-> sent + 1])
      BY <2>1 DEF PeerHead
    <3>2. sent' = sent + 1 /\ ~PeerOwesData /\ sent + 1 \in 0..MaxWork
      BY <2>1, Numbers, ReceiverAssumption DEF PeerHead
    <3>3. k \notin Data
      BY DEF Kind, WithData, Data
    <3>4. QED BY <3>1, <3>2, <3>3 DEF Message, Data
  <2>2. CASE PeerData \/ (PeerClose /\ inbox' # inbox)
    <3>1. PICK k \in Data : /\ inbox' = Append(inbox, [kind |-> k, no |-> sent])
                            /\ sent' = sent /\ PeerOwesData /\ (k = "cut" => eof')
      BY <2>2 DEF PeerData, PeerClose, Data
    <3>2. sent \in 0..MaxWork
      BY DEF DInv, Types, WireType
    <3>3. QED BY <3>1, <3>2 DEF Message
  <2>3. CASE PeerHc
    <3>1. inbox' = Append(inbox, [kind |-> "hc", no |-> 0]) /\ sent' = sent /\ ~PeerOwesData
      BY <2>3 DEF PeerHc
    <3>2. [kind |-> "hc", no |-> 0] \in Message /\ "hc" \notin WithData \cup Data
      BY ReceiverAssumption DEF Message, Kind, WithData, Data
    <3>3. QED BY <3>1, <3>2 DEF Data
  <2>4. QED BY <2>1, <2>2, <2>3
<1>2. UNCHANGED <<part, xmlBuff>> /\ Data \cap WithData = {} /\ peer = "on" /\ ~eof
  BY DEF PeerHead, PeerData, PeerHc, PeerClose, main, WithData, Data
<1>3. PICK n \in Nat : n = Len(inbox)
  BY Numbers
<1>4. /\ Len(inbox') = n + 1 /\ inbox'[n + 1] = m
      /\ \A k \in 1..n : inbox'[k] = inbox[k]
      /\ \A k \in 1..(n + 1) : k = n + 1 \/ k \in 1..n
      /\ inbox' # <<>>
  <2>1. PICK q \in Seq(Message) : q = inbox
    BY Numbers
  <2>2. /\ Append(q, m) \in Seq(Message) /\ Len(Append(q, m)) = n + 1 /\ Append(q, m)[n + 1] = m
        /\ \A k \in 1..n : Append(q, m)[k] = q[k]
    BY <1>1, <1>3, <2>1
  <2>3. Append(q, m) # <<>>
    BY <1>3, <2>2
  <2>4. QED BY <1>1, <1>3, <2>1, <2>2, <2>3
<1>5. HeadsAndData'
  <2>1. part' = "data" => inbox'[1].kind \in Data
    <3>1. CASE n = 0
      <4>1. inbox = <<>> /\ inbox'[1] = m
        <5>1. Len(inbox) = 0 /\ inbox \in Seq(Message)
          BY <1>3, <3>1, Numbers
        <5>2. inbox = <<>>
          BY <5>1
        <5>3. QED BY <1>4, <3>1, <5>2
      <4>2. QED BY <1>1, <1>2, <4>1 DEF PeerOwesData
    <3>2. CASE n # 0
      BY <1>0, <1>2, <1>3, <1>4, <3>2, Numbers DEF HeadsAndData
    <3>3. QED BY <3>1, <3>2
  <2>2. ASSUME NEW k \in 1..(Len(inbox') - 1), inbox'[k].kind \in WithData
        PROVE  inbox'[k + 1].kind \in Data
    <3>1. CASE k = n
      <4>1. inbox[n].kind \in WithData /\ inbox # <<>>
        BY <1>3, <1>4, <2>2, <3>1, Numbers
      <4>2. QED BY <1>1, <1>3, <1>4, <3>1, <4>1 DEF PeerOwesData
    <3>2. CASE k # n
      <4>1. k \in 1..(n - 1) /\ k + 1 \in 1..n /\ k \in 1..n
        BY <1>3, <1>4, <3>2
      <4>2. QED BY <1>0, <1>3, <1>4, <2>2, <4>1 DEF HeadsAndData
    <3>3. QED BY <3>1, <3>2
  <2>3. QED BY <2>1, <2>2 DEF HeadsAndData
<1>6. PeerOwesData' => sent' = sent + 1 /\ m.kind \notin Data
  BY <1>1, <1>2, <1>4 DEF PeerOwesData
<1>7. sent' \in Nat /\ sent' >= sent
  BY <1>1, Numbers
<1>8. Newer'
  <2>1. \A i \in 1..Len(xmlBuff) : xmlBuff[i].no <= sent'
    BY <1>0, <1>7, Numbers DEF Newer
  <2>2. ASSUME NEW j \in 1..(n + 1), NEW k \in 1..(n + 1), j < k,
               inbox'[j].kind \in Data, inbox'[k].kind \in Data
        PROVE  inbox'[j].no < inbox'[k].no
    <3>1. CASE k = n + 1
      <4>1. j \in 1..n /\ inbox'[j] = inbox[j] /\ inbox'[k] = m
        BY <1>3, <1>4, <2>2, <3>1
      <4>2. PeerOwesData /\ m.no = sent
        BY <1>1, <2>2, <4>1
      <4>3. QED BY <1>0, <1>3, <2>2, <4>1, <4>2 DEF Newer
    <3>2. CASE k \in 1..n
      <4>1. j \in 1..n
        BY <1>3, <2>2, <3>2
      <4>2. QED BY <1>0, <1>3, <1>4, <2>2, <3>2, <4>1 DEF Newer
    <3>3. QED BY <1>4, <3>1, <3>2
  <2>3. ASSUME NEW i \in 1..Len(xmlBuff), NEW k \in 1..(n + 1), inbox'[k].kind \in Data
        PROVE  xmlBuff[i].no < inbox'[k].no
    <3>1. CASE k = n + 1
      BY <1>0, <1>1, <1>4, <2>3, <3>1 DEF Newer
    <3>2. CASE k \in 1..n
      BY <1>0, <1>3, <1>4, <2>3, <3>2 DEF Newer
    <3>3. QED BY <1>4, <3>1, <3>2
  <2>4. ASSUME PeerOwesData', NEW k \in 1..(n + 1), inbox'[k].kind \in Data
        PROVE  inbox'[k].no < sent'
    <3>1. k \in 1..n
      BY <1>4, <1>6, <2>4
    <3>2. inbox'[k] = inbox[k] /\ inbox[k].no \in Nat /\ inbox[k].no <= sent
      BY <1>3, <1>4, <3>1, Numbers
    <3>3. QED BY <1>6, <2>4, <3>2, Numbers
  <2>5. ASSUME PeerOwesData', NEW i \in 1..Len(xmlBuff) PROVE xmlBuff[i].no < sent'
    BY <1>0, <1>6, <2>5, Numbers DEF Newer
  <2>6. QED BY <1>2, <1>4, <2>1, <2>2, <2>3, <2>4, <2>5 DEF Newer
(* Nothing was cut before: the connection stood until now.                 *)
<1>9. CutIsLast'
  <2>1. \A k \in 1..n : inbox[k].kind # "cut"
    BY <1>0, <1>2, <1>3 DEF CutIsLast
  <2>2. \A i \in 1..Len(xmlBuff) : ~xmlBuff[i].cut
    BY <1>0, <1>2 DEF CutIsLast
  <2>3. \A k \in 1..Len(inbox') : inbox'[k].kind = "cut" => k = Len(inbox') /\ eof'
    BY <1>1, <1>4, <2>1
  <2>4. QED BY <1>2, <2>2, <2>3 DEF CutIsLast
<1>10. QED BY <1>5, <1>8, <1>9

(* Main reads.                                                             *)
LEMMA ReadKeeps ==
    ASSUME DInv, ReadHead \/ ReadData
    PROVE  HeadsAndData' /\ Newer' /\ CutIsLast' /\ Buffer' /\ Passed'
<1>0. HeadsAndData /\ Newer /\ CutIsLast /\ Buffer /\ Passed
  BY DEF DInv
<1>1. /\ inbox # <<>> /\ inbox' = Tail(inbox) /\ UNCHANGED <<peer, eof, sent, conn, wdoc>>
      /\ mpc' = "readn"
  BY DEF ReadHead, ReadData
<1>2. PICK n \in Nat : n = Len(inbox)
  BY Numbers
<1>3. /\ n >= 1 /\ Len(inbox') = n - 1 /\ Head(inbox) = inbox[1]
      /\ \A k \in 1..Len(inbox') : inbox'[k] = inbox[k + 1] /\ k + 1 \in 1..n /\ 1 < k + 1
  BY <1>1, <1>2, Numbers
<1>4. inbox' # <<>> => inbox'[Len(inbox')] = inbox[n] /\ n > 1 /\ inbox'[1] = inbox[2]
  BY <1>1, <1>2, <1>3, Numbers
<1>5. inbox' = <<>> => n = 1
  BY <1>3
<1>6. PeerOwesData' => PeerOwesData
  <2>1. CASE inbox' # <<>>
    BY <1>1, <1>2, <1>4, <2>1 DEF PeerOwesData
  <2>2. CASE inbox' = <<>>
    <3>1. SUFFICES ASSUME part' = "data" PROVE inbox[n].kind \in WithData
      BY <1>1, <1>2, <2>2 DEF PeerOwesData
    <3>2. inbox[1].kind \in WithData
      BY <1>3, <3>1 DEF ReadHead, ReadData
    <3>3. QED BY <1>5, <2>2, <3>2
  <2>3. QED BY <2>1, <2>2
<1>7. HeadsAndData'
  <2>1. ASSUME part' = "data", inbox' # <<>> PROVE inbox'[1].kind \in Data
    <3>1. inbox[1].kind \in WithData
      BY <1>3, <2>1 DEF ReadHead, ReadData
    <3>2. inbox[1 + 1].kind \in Data /\ 1 + 1 = 2
      BY <1>0, <1>2, <1>4, <2>1, <3>1 DEF HeadsAndData
    <3>3. QED BY <1>4, <2>1, <3>2
  <2>2. ASSUME NEW k \in 1..(Len(inbox') - 1), inbox'[k].kind \in WithData
        PROVE  inbox'[k + 1].kind \in Data
    <3>1. inbox'[k] = inbox[k + 1] /\ inbox'[k + 1] = inbox[(k + 1) + 1] /\ k + 1 \in 1..(n - 1)
      BY <1>2, <1>3
    <3>2. QED BY <1>0, <1>2, <2>2, <3>1 DEF HeadsAndData
  <2>3. QED BY <2>1, <2>2 DEF HeadsAndData
(* The buffer afterwards, or the document passed on.                       *)
<1> DEFINE f == [conn |-> conn, no |-> inbox[1].no, cut |-> inbox[1].kind = "cut"]
           whole == IF part = "data" THEN Append(xmlBuff, f) ELSE xmlBuff
           Fits(e) == /\ e.conn = conn /\ e.no <= sent /\ (PeerOwesData' => e.no < sent)
                      /\ \A k \in 1..Len(inbox') : inbox'[k].kind \in Data => e.no < inbox'[k].no
<1>8. xmlBuff' \in {xmlBuff, whole, <<>>} /\ wq' \in {wq, Append(wq, whole)}
  <2>1. CASE ReadHead
    <3>1. part = "head" /\ xmlBuff' \in {xmlBuff, <<>>} /\ wq' \in {wq, Append(wq, xmlBuff)}
      BY <2>1 DEF ReadHead, Notify
    <3>2. QED BY <3>1
  <2>2. CASE ReadData
    <3>1. part = "data" /\ whole = Append(xmlBuff, f)
      BY <1>3, <2>2 DEF ReadData
    <3> HIDE DEF whole
    <3>2. QED BY <2>2, <3>1 DEF ReadData, Notify
  <2>3. QED BY <2>1, <2>2
<1>9. ASSUME NEW i \in 1..Len(xmlBuff) PROVE Fits(xmlBuff[i])
  <2>1. xmlBuff[i].conn = conn /\ xmlBuff[i].no <= sent
    BY <1>0 DEF Newer, Buffer
  <2>2. PeerOwesData' => xmlBuff[i].no < sent
    BY <1>0, <1>6 DEF Newer
  <2>3. \A k \in 1..Len(inbox') : inbox'[k].kind \in Data => xmlBuff[i].no < inbox'[k].no
    BY <1>0, <1>2, <1>3 DEF Newer
  <2>4. QED BY <2>1, <2>2, <2>3
<1>10. ASSUME part = "data" PROVE Fits(f) /\ \A i \in 1..Len(xmlBuff) : xmlBuff[i].no < f.no
  <2>1. inbox[1].kind \in Data /\ f.no = inbox[1].no /\ f.conn = conn /\ 1 \in 1..n
    BY <1>0, <1>1, <1>3, <1>10 DEF HeadsAndData
  <2>2. f.no <= sent
    BY <1>2, <2>1, Numbers
  <2>3. PeerOwesData' => f.no < sent
    BY <1>0, <1>2, <1>6, <2>1 DEF Newer
  <2>4. \A k \in 1..Len(inbox') : inbox'[k].kind \in Data => f.no < inbox'[k].no
    BY <1>0, <1>2, <1>3, <2>1 DEF Newer
  <2>5. \A i \in 1..Len(xmlBuff) : xmlBuff[i].no < f.no
    BY <1>0, <1>2, <2>1 DEF Newer
  <2> HIDE DEF f
  <2>6. QED BY <2>1, <2>2, <2>3, <2>4, <2>5
<1> HIDE DEF Fits
<1>11. /\ InSequence(whole) /\ \A i \in 1..Len(whole) : Fits(whole[i])
       /\ InSequence(xmlBuff)
  <2>1. CASE part # "data"
    BY <1>0, <1>9, <2>1 DEF Buffer
  <2>2. CASE part = "data"
    <3>1. PICK m \in Nat : m = Len(xmlBuff) /\ DOMAIN xmlBuff = 1..m
      BY Numbers
    <3>2. PICK g : g = f
      OBVIOUS
    <3>3. /\ whole = Append(xmlBuff, g) /\ g.conn = conn
      BY <2>2, <3>2
    <3> HIDE DEF f, whole
    <3>4. /\ Len(whole) = m + 1 /\ DOMAIN whole = 1..(m + 1) /\ whole[m + 1] = g
          /\ \A i \in 1..m : whole[i] = xmlBuff[i]
      BY <3>1, <3>3, Numbers
    <3>5. \A i \in 1..Len(whole) : Fits(whole[i])
      BY <1>9, <1>10, <2>2, <3>1, <3>2, <3>4
    <3>6. ASSUME NEW i \in 1..(m + 1), NEW j \in 1..(m + 1), i < j
          PROVE  whole[i].conn = whole[j].conn /\ whole[i].no < whole[j].no /\ ~whole[i].cut
      <4>1. i \in 1..m /\ ~xmlBuff[i].cut
        BY <1>0, <1>1, <3>1, <3>6 DEF CutIsLast
      <4>2. CASE j = m + 1
        <5>1. whole[i] = xmlBuff[i] /\ whole[j] = g /\ xmlBuff[i].conn = conn
          BY <1>0, <3>1, <3>4, <4>1, <4>2 DEF Buffer
        <5>2. QED BY <1>10, <2>2, <3>1, <3>2, <3>3, <4>1, <5>1
      <4>3. CASE j \in 1..m
        BY <1>0, <3>1, <3>4, <3>6, <4>1, <4>3 DEF Buffer, InSequence
      <4>4. QED BY <3>1, <4>2, <4>3
    <3>7. InSequence(whole)
      BY <3>4, <3>6 DEF InSequence
    <3>8. QED BY <1>0, <3>5, <3>7 DEF Buffer
  <2>3. QED BY <2>1, <2>2
<1> HIDE DEF whole
<1>12. InSequence(<<>>) /\ 1..Len(<<>>) = {}
  BY DEF InSequence
<1>13. InSequence(xmlBuff') /\ \A i \in 1..Len(xmlBuff') : Fits(xmlBuff'[i])
  BY <1>8, <1>9, <1>11, <1>12
<1>14. Buffer'
  BY <1>1, <1>13 DEF Buffer, Fits
<1>15. Newer'
  <2>1. \A j, k \in 1..Len(inbox') :
          j < k /\ inbox'[j].kind \in Data /\ inbox'[k].kind \in Data => inbox'[j].no < inbox'[k].no
    <3>1. ASSUME NEW j \in 1..Len(inbox'), NEW k \in 1..Len(inbox'), j < k,
                 inbox'[j].kind \in Data, inbox'[k].kind \in Data
          PROVE  inbox'[j].no < inbox'[k].no
      <4>1. /\ inbox'[j] = inbox[j + 1] /\ inbox'[k] = inbox[k + 1] /\ j + 1 < k + 1
            /\ j + 1 \in 1..n /\ k + 1 \in 1..n
        BY <1>3, <3>1
      <4>2. QED BY <1>0, <1>2, <3>1, <4>1 DEF Newer
    <3>2. QED BY <3>1
  <2>2. PeerOwesData' => \A k \in 1..Len(inbox') : inbox'[k].kind \in Data => inbox'[k].no < sent
    BY <1>0, <1>2, <1>3, <1>6 DEF Newer
  <2>3. QED BY <1>1, <1>13, <2>1, <2>2 DEF Newer, Fits
<1>16. Passed'
  <2>1. \A k \in 1..Len(wq') : InSequence(wq'[k])
    <3>1. CASE wq' = wq
      BY <1>0, <3>1 DEF Passed
    <3>2. CASE wq' = Append(wq, whole)
      <4>1. PICK m \in Nat : m = Len(wq)
        BY Numbers
      <4>2. Len(wq') = m + 1 /\ wq'[m + 1] = whole /\ \A k \in 1..m : wq'[k] = wq[k]
        BY <3>2, <4>1, Numbers
      <4>3. \A k \in 1..(m + 1) : k = m + 1 \/ k \in 1..m
        BY <4>1
      <4>4. QED BY <1>0, <1>11, <4>1, <4>2, <4>3 DEF Passed
    <3>3. QED BY <1>8, <3>1, <3>2
  <2>2. QED BY <1>0, <1>1, <2>1 DEF Passed
<1>17. CutIsLast'
  <2>1. ASSUME NEW k \in 1..Len(inbox'), inbox'[k].kind = "cut"
        PROVE  k = Len(inbox') /\ eof'
    BY <1>0, <1>1, <1>2, <1>3, <2>1 DEF CutIsLast
  <2>2. ASSUME NEW i \in 1..Len(xmlBuff'), xmlBuff'[i].cut
        PROVE  i = Len(xmlBuff') /\ inbox' = <<>> /\ (eof' \/ peer' # "on")
    <3>1. xmlBuff' = whole /\ part = "data"
      BY <1>0, <1>1, <1>8, <1>12, <2>2 DEF CutIsLast, whole
    <3>2. PICK m \in Nat : m = Len(xmlBuff)
      BY Numbers
    <3>3. PICK g : g = f
      OBVIOUS
    <3>4. whole = Append(xmlBuff, g) /\ (g.cut => inbox[1].kind = "cut")
      BY <3>1, <3>3 DEF whole
    <3>5. Len(whole) = m + 1 /\ whole[m + 1] = g /\ \A l \in 1..m : whole[l] = xmlBuff[l]
      BY <3>2, <3>4, Numbers
    <3>6. i = m + 1 /\ g.cut
      BY <1>0, <1>1, <2>2, <3>1, <3>2, <3>5 DEF CutIsLast
    <3>7. n = 1 /\ eof
      BY <1>0, <1>2, <1>3, <3>4, <3>6 DEF CutIsLast
    <3>8. inbox' = <<>>
      BY <1>3, <1>4, <3>7
    <3>9. QED BY <1>1, <3>1, <3>5, <3>6, <3>7, <3>8
  <2>3. QED BY <2>1, <2>2 DEF CutIsLast
<1>18. QED BY <1>7, <1>14, <1>15, <1>16, <1>17

LEMMA NextDInv == DInv /\ [Next]_vars => DInv'
<1> SUFFICES ASSUME DInv, [Next]_vars PROVE DInv'
  OBVIOUS
<1>0. Types' /\ HeadsAndData /\ Newer /\ CutIsLast /\ Buffer /\ Passed
  BY NextTypes DEF DInv
<1> DEFINE NothingMoves ==
           /\ UNCHANGED <<part, inbox, sent, xmlBuff, conn, wdoc, wq>>
           /\ (eof => eof') /\ peer' \in {peer, "off", "pending"}
           /\ mpc' \in {"connect", "toAccept", "accept", "acceptEintr"}
                 => mpc \in {"connect", "toAccept", "accept", "acceptEintr"}
<1> USE DEF main, wire, sock, sig, work, hc, db, rest
<1>1. CASE ReadHead \/ ReadData
  BY <1>0, <1>1, ReadKeeps DEF DInv
<1>2. CASE PeerHead \/ PeerData \/ PeerHc \/ (PeerClose /\ inbox' # inbox)
  <2>1. UNCHANGED <<mpc, xmlBuff, conn, wdoc, wq>>
    BY <1>2 DEF PeerHead, PeerData, PeerHc, PeerClose
  <2>2. Buffer' /\ Passed'
    BY <1>0, <2>1 DEF Buffer, Passed
  <2>3. QED BY <1>0, <1>2, <2>2, SendKeeps DEF DInv
(* Nothing is read or sent.                                                *)
<1>3. CASE NothingMoves
  <2>1. CutIsLast'
    BY <1>0, <1>3 DEF CutIsLast
  <2>2. HeadsAndData' /\ Newer' /\ Buffer' /\ Passed'
    BY <1>0, <1>3 DEF HeadsAndData, Newer, Buffer, Passed, PeerOwesData
  <2>3. QED BY <1>0, <2>1, <2>2 DEF DInv
(* The connection is dropped while main waits for the end of the data.     *)
<1>4. CASE \/ CheckSignal("readWork", "readn") \/ CheckSignal("readn", "toSelect")
           \/ CheckSignal("selectEintr", "toSelect") \/ CheckSignal("readEintr", "read")
  <2>1. /\ UNCHANGED <<part, sent, xmlBuff, conn, wdoc, wq>>
        /\ \/ UNCHANGED <<inbox, peer, eof>>
           \/ inbox' = <<>> /\ peer' = "off"
        /\ mpc' \in {"readn", "toSelect", "read", "cancelHc"}
    BY <1>4 DEF CheckSignal, CancelWork, Disconnect, DropConnection
  <2>2. CASE UNCHANGED <<inbox, peer, eof>>
    BY <1>3, <2>1, <2>2
  <2>3. CASE inbox' = <<>> /\ peer' = "off"
    <3>1. 1..Len(inbox') = {} /\ 1..(Len(inbox') - 1) = {}
      BY <2>3
    <3>2. PeerOwesData' => \A i \in 1..Len(xmlBuff) : xmlBuff[i].no < sent
      <4>1. ASSUME PeerOwesData', NEW i \in 1..Len(xmlBuff) PROVE xmlBuff[i].no < sent
        <5>1. CASE inbox = <<>>
          BY <1>0, <2>1, <2>3, <4>1, <5>1 DEF PeerOwesData, Newer
        <5>2. CASE inbox # <<>>
          <6>1. 1 \in 1..Len(inbox) /\ inbox[1].kind \in Data
            BY <1>0, <2>1, <2>3, <4>1, <5>2, Numbers DEF PeerOwesData, HeadsAndData
          <6>2. xmlBuff[i].no < inbox[1].no
            BY <1>0, <6>1 DEF Newer
          <6>3. QED BY <6>1, <6>2, Numbers
        <5>3. QED BY <5>1, <5>2
      <4>2. QED BY <4>1
    <3>3. HeadsAndData' /\ Newer'
      BY <1>0, <2>1, <2>3, <3>1, <3>2 DEF HeadsAndData, Newer
    <3>4. CutIsLast'
      BY <1>0, <2>1, <2>3, <3>1 DEF CutIsLast
    <3>5. QED BY <1>0, <2>1, <3>3, <3>4 DEF DInv, Buffer, Passed
  <2>4. QED BY <2>1, <2>2, <2>3
<1>5. CASE Broken
  <2>1. /\ xmlBuff' = <<>> /\ part' = "head"
        /\ UNCHANGED <<inbox, eof>> \/ inbox' = <<>>
        /\ UNCHANGED <<sent, conn, wdoc, wq>>
    BY <1>5 DEF Broken, ClearBuffer, Disconnect, DropConnection
  <2>2. 1..Len(xmlBuff') = {} /\ InSequence(xmlBuff')
    BY <2>1 DEF InSequence
  <2>3. Buffer' /\ Passed'
    BY <1>0, <2>1, <2>2 DEF Buffer, Passed
  <2>4. HeadsAndData' /\ Newer'
    <3>1. CASE inbox' = inbox
      <4>1. PeerOwesData' => PeerOwesData
        BY <2>1, <3>1 DEF PeerOwesData
      <4>2. QED BY <1>0, <2>1, <2>2, <3>1, <4>1 DEF HeadsAndData, Newer
    <3>2. CASE inbox' = <<>>
      <4>1. 1..Len(inbox') = {} /\ 1..(Len(inbox') - 1) = {} /\ ~PeerOwesData'
        BY <2>1, <3>2 DEF PeerOwesData
      <4>2. QED BY <2>1, <2>2, <4>1 DEF HeadsAndData, Newer
    <3>3. QED BY <2>1, <3>1, <3>2
  <2>5. CutIsLast'
    BY <1>0, <2>1, <2>2 DEF CutIsLast
  <2>6. QED BY <1>0, <2>3, <2>4, <2>5 DEF DInv
<1>6. CASE Accept
  <2>1. /\ xmlBuff = <<>> /\ inbox' = <<>> /\ part' = "head"
        /\ UNCHANGED <<sent, xmlBuff, wdoc, wq>>
    BY <1>0, <1>6 DEF Accept, Buffer
  <2>2. /\ 1..Len(xmlBuff') = {} /\ 1..Len(inbox') = {} /\ 1..(Len(inbox') - 1) = {}
        /\ ~PeerOwesData'
    BY <2>1 DEF PeerOwesData
  <2>3. HeadsAndData' /\ Newer'
    BY <2>1, <2>2 DEF HeadsAndData, Newer
  <2>4. Buffer' /\ Passed'
    BY <1>0, <2>1, <2>2 DEF Buffer, Passed
  <2>5. CutIsLast'
    BY <2>2 DEF CutIsLast
  <2>6. QED BY <1>0, <2>3, <2>4, <2>5 DEF DInv
<1>7. CASE WorkGet \/ WorkReply
  <2>1. UNCHANGED <<mpc, part, inbox, peer, eof, sent, xmlBuff, conn>>
    BY <1>7 DEF WorkGet, WorkReply
  <2>2. Passed'
    <3>1. CASE wdoc' = <<>> /\ wq' = wq
      BY <1>0, <3>1 DEF Passed, InSequence
    <3>2. CASE wdoc' = wdoc /\ wq' = wq
      BY <1>0, <3>2 DEF Passed
    <3>3. CASE wq # <<>> /\ wdoc' = Head(wq) /\ wq' = Tail(wq)
      <4>1. /\ wdoc' = wq[1] /\ 1 \in 1..Len(wq)
            /\ \A k \in 1..Len(wq') : wq'[k] = wq[k + 1] /\ k + 1 \in 1..Len(wq)
        BY <3>3, Numbers
      <4>2. QED BY <1>0, <4>1 DEF Passed
    <3>4. QED BY <1>7, <3>1, <3>2, <3>3 DEF WorkGet, WorkReply
  <2>3. HeadsAndData' /\ Newer' /\ CutIsLast' /\ Buffer'
    BY <1>0, <2>1 DEF HeadsAndData, Newer, CutIsLast, Buffer, PeerOwesData
  <2>4. QED BY <1>0, <2>2, <2>3 DEF DInv
<1>8. QED
  <2>1. ASSUME PeerConnect \/ PeerClose \/ Sigterm \/ UNCHANGED vars
        PROVE  NothingMoves \/ (PeerClose /\ inbox' # inbox)
    BY <2>1 DEF vars, PeerConnect, PeerClose, Sigterm, Interrupt
  <2>2. ASSUME \/ ConnectTest \/ EnterCall \/ AcceptInterrupted \/ AcceptError
               \/ SelectReady \/ ReadEof \/ BadLength
        PROVE  NothingMoves
    BY <2>2 DEF ConnectTest, EnterCall, AcceptInterrupted, AcceptError, InterruptConnect, Goto,
                CancelWork, SelectReady, ReadEof, BadLength
  <2>3. ASSUME JoinWork \/ CancelHc \/ JoinHc \/ CloseListening \/ CancelDb \/ JoinDb
        PROVE  NothingMoves
    BY <2>3 DEF JoinWork, CancelHc, JoinHc, CloseListening, CancelDb, JoinDb, Goto
  <2>4. ASSUME Work PROVE NothingMoves \/ WorkGet \/ WorkReply
    BY <2>4 DEF Work, WorkParse, EndDocument, NotifyRecord, PutRecord, NextRecord, WorkWritten,
                BeforeEnd, Interrupt
  <2>5. ASSUME Hc \/ Db PROVE NothingMoves
    BY <2>5 DEF Hc, HcGet, HcReply, HcWritten, Db, DbGet, DbExecute, DbDone
  <2> HIDE DEF NothingMoves
  <2>6. QED
    BY Steps, <1>1, <1>2, <1>3, <1>4, <1>5, <1>6, <1>7, <2>1, <2>2, <2>3, <2>4, <2>5

(* No document mixes the fragments of two connections, or loses their order.*)
THEOREM DocumentsAreOfOneConnection == Spec => []DocumentsOfOneConnection
<1>1. Init => DInv
  <2>1. SUFFICES ASSUME Init PROVE HeadsAndData /\ Newer /\ CutIsLast /\ Buffer /\ Passed
    BY InitTypes DEF DInv
  <2>2. /\ inbox = <<>> /\ xmlBuff = <<>> /\ wq = <<>> /\ wdoc = <<>> /\ part = "head"
        /\ 1..Len(inbox) = {} /\ 1..(Len(inbox) - 1) = {} /\ 1..Len(xmlBuff) = {}
        /\ 1..Len(wq) = {}
    BY <2>1 DEF Init
  <2>3. InSequence(<<>>)
    BY DEF InSequence
  <2>4. QED BY <2>2, <2>3 DEF HeadsAndData, Newer, CutIsLast, Buffer, Passed, PeerOwesData
<1>2. DInv => DocumentsOfOneConnection
  <2>1. SUFFICES ASSUME DInv, NEW d \in {xmlBuff, wdoc} \cup {wq[k] : k \in DOMAIN wq}
                 PROVE InSequence(d)
    BY DEF DocumentsOfOneConnection, InSequence
  <2>2. DOMAIN wq = 1..Len(wq)
    BY <2>1, Numbers
  <2>3. QED BY <2>1, <2>2 DEF DInv, Buffer, Passed
<1>3. QED BY <1>1, <1>2, NextDInv, PTL DEF Spec
=============================================================================

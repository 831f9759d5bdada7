------------------------ MODULE WsInvariant_proofs -------------------------
(***************************************************************************)
(* The inductive invariant of the connection: which goroutine owns it and  *)
(* which key its frames carry.  The theorems are in WsClient_proofs.       *)
(***************************************************************************)
EXTENDS WsClient, TLAPS

-----------------------------------------------------------------------------
(* Where Run has no connection. *)
Idle == {"top", "dial", "backoff", "exit"}

(* Where a readLoop has not yet given its connection up, and where it has  *)
(* not yet closed connDone.                                                *)
Reading == {"read", "decode", "ack", "cmd", "queue", "close"}
Serving == Reading \cup {"unset"}

(* The types, in parts. *)
RunTypes ==
  /\ run \in RunPcs
  /\ {conn, connDone, sendCh, encrypted} \subseteq Conns \cup {None}
  /\ done \in BOOLEAN /\ mainPc \in {"up", "closing", "down"}
  /\ clientPub \in BOOLEAN /\ storePub \in BOOLEAN
  /\ keyX \in [kind : {"ack", "nack"}, from : Conns] \cup {None}
  /\ calm \in BOOLEAN
ReadTypes == rd \in [Conns -> ReadPcs] /\ hold \in [Conns -> Inbound \cup {None}]
WriteTypes ==
  /\ wr \in [Conns -> {"off", "top", "select", "write"}]
  /\ item \in [Conns -> Frames \cup {None}] /\ from \in [Conns -> Conns \cup {None}]
SendTypes ==
  /\ queue \in [Conns -> Seq(Frames)] /\ closes \in [Conns -> Nat]
  /\ out \in [Senders -> [ch : Conns, frame : Frames] \cup {None}]
NetTypes ==
  /\ socket \in [Conns -> {"open", "broken", "closed"}]
  /\ inbox \in [Conns -> Seq(Inbound)]
  /\ cen \in [Conns -> {"hello", "owed", "sealed", "refused"}]
  /\ got \subseteq Conns

(* A readLoop past its read has a frame, and on its way to the             *)
(* key-exchange channel an answer.                                         *)
Held ==
  \A k \in Conns :
    /\ rd[k] = "decode" => hold[k] \in Inbound
    /\ rd[k] = "ack" => hold[k] \in Inbound /\ hold[k].kind \in {"ack", "nack"}

(* Only the connection Run works on has a readLoop, is in c.conn and       *)
(* c.connDone, and has a socket that is not closed.                        *)
Owned ==
  /\ run \notin Idle => sendCh # None
  /\ \A k \in Conns : rd[k] # "off" => run \notin Idle /\ k = sendCh
  /\ conn # None => conn = sendCh /\ rd[conn] \in Serving
  /\ connDone # None => connDone = sendCh /\ rd[connDone] \in Serving
  /\ \A k \in Conns : socket[k] # "closed" => rd[k] \in Serving \cup {"shut"}

(* connDone is open until the readLoop closes it. *)
Closes ==
  \A k \in Conns : closes[k] <= 1 /\ (rd[k] \in Reading => closes[k] = 0)

(* A key, and an answer to a key message, belong to that connection. *)
Keyed ==
  /\ run \in {"dial", "backoff"} => encrypted = None
  /\ run \notin Idle => encrypted \in {None, sendCh}
  /\ run \notin Idle \cup {"keyX"} => keyX = None \/ keyX.from = sendCh

(* A frame is in clear or sealed for the connection whose channel it goes  *)
(* through, and the writeLoop of the current connection takes from its     *)
(* own.                                                                    *)
Sealed ==
  /\ \A s \in Senders : out[s] # None => out[s].frame.key \in {None, out[s].ch}
  /\ \A k \in Conns :
       /\ \A i \in 1 .. Len(queue[k]) : queue[k][i].key \in {None, k}
       /\ wr[k] = "write" => item[k] \in Frames /\ item[k].key \in {None, from[k]}
       /\ wr[k] \in {"select", "write"} => from[k] # None /\ (k = sendCh => from[k] = k)
       /\ wr[k] # "off" => sendCh # None

IInv ==
  /\ RunTypes /\ ReadTypes /\ WriteTypes /\ SendTypes /\ NetTypes
  /\ Held /\ Owned /\ Closes /\ Keyed /\ Sealed

-----------------------------------------------------------------------------
(* A channel's buffer after a send: what it held, then the frame. *)
Longer(r, q, x) ==
  \A i \in 1 .. Len(r) :
    \/ i \in 1 .. Len(q) /\ r[i] = q[i]
    \/ i = Len(q) + 1 /\ r[i] = x

(* Append makes such a buffer. *)
LEMMA Appended ==
  ASSUME NEW S, NEW q \in Seq(S), NEW x \in S
  PROVE  Append(q, x) \in Seq(S) /\ Longer(Append(q, x), q, x)
<1>1. /\ Append(q, x) \in Seq(S) /\ Len(q) \in Nat /\ Len(Append(q, x)) = Len(q) + 1
      /\ Append(q, x)[Len(q) + 1] = x
  BY SMTT(30)
<1>2. \A i \in 1 .. Len(q) : Append(q, x)[i] = q[i]
  BY SMTT(30)
<1>3. \A i \in 1 .. Len(q) + 1 : i \in 1 .. Len(q) \/ i = Len(q) + 1
  BY <1>1, SMTT(30)
<1> QED
  BY <1>1, <1>2, <1>3, ZenonT(30) DEF Longer

(* Only these steps touch a readLoop or connDone. *)
LEMMA ReaderFrame ==
  ASSUME [Next]_vars
  PROVE  \/ UNCHANGED <<rd, hold, closes>>
         \/ \E k \in Conns : connect(k) \/ readLoop(k)
         \/ WaitRead
  BY ZenonT(30)
  DEF Next, RunStep, writeLoop, vars, reader, RunTop, connectErr, Backoff,
      MakeKeyExchange, KeyQueue, handleKeyAckPayload, KeyTimeout, KeyFail,
      RequestSync, SyncQueue, WriteSelect, WriteTake, WriteReturn, WriteMessage,
      WriteError, Heartbeat, HeartbeatQueue, Close, CloseSocket, CenterAck,
      CenterCommand, Break, CalmDown

(* Every step keeps Held. *)
LEMMA HeldStep ==
  ASSUME ReadTypes, NetTypes, Held, [Next]_vars
  PROVE  Held'
<1>1. ASSUME NEW k, NEW p \in ReadPcs \ {"decode", "ack"}, rd' = [rd EXCEPT ![k] = p],
             \A j \in Conns : j # k => hold'[j] = hold[j]
      PROVE  Held'
  BY <1>1, Zenon DEF ReadTypes, Held
<1>2. CASE UNCHANGED <<rd, hold, closes>>
  BY <1>2, Zenon DEF Held
<1>3. CASE WaitRead
  BY <1>1, <1>3, Zenon DEF WaitRead, ReadPcs
<1>4. ASSUME NEW k \in Conns, connect(k)
      PROVE  Held'
  BY <1>1, <1>4, Zenon DEF connect, ReadPcs
<1>5. ASSUME NEW k \in Conns, ReadMessage(k)
      PROVE  Held'
  <2>1. Head(inbox[k]) \in Inbound
    BY <1>5 DEF NetTypes, ReadMessage
  <2> QED
    BY <1>5, <2>1, Zenon DEF ReadTypes, Held, ReadMessage
<1>6. ASSUME NEW k \in Conns, Decode(k)
      PROVE  Held'
  <2>1. hold[k] \in Inbound
    BY <1>6, Zenon DEF Held, Decode
  <2>2. hold[k].kind \in {"ack", "nack", "cmd"}
    BY <2>1, Zenon DEF Inbound
  <2> QED
    BY <1>6, <2>1, <2>2, Zenon DEF ReadTypes, Held, Decode
<1>7. ASSUME NEW k \in Conns, handleKeyAck(k) \/ sendResponse(k)
      PROVE  Held'
  <2>1. \E p \in {"read", "queue"} : rd' = [rd EXCEPT ![k] = p]
    BY <1>7, Zenon DEF handleKeyAck, sendResponse
  <2>2. \A j \in Conns : j # k => hold'[j] = hold[j]
    BY <1>7, Zenon DEF ReadTypes, handleKeyAck, sendResponse
  <2> QED
    BY <1>1, <2>1, <2>2, Zenon DEF ReadPcs
<1>8. ASSUME NEW k \in Conns,
             \/ ResponseQueue(k) \/ ReadError(k) \/ CloseConnDone(k)
             \/ UnsetConn(k) \/ CloseConn(k)
      PROVE  Held'
  <2>1. /\ \E p \in {"read", "unset", "close", "shut", "done"} :
             rd' = [rd EXCEPT ![k] = p]
        /\ hold' = hold
    BY <1>8, Zenon DEF ResponseQueue, ReadError, CloseConnDone, UnsetConn, CloseConn
  <2> QED
    BY <1>1, <2>1, Zenon DEF ReadPcs
<1> QED
  BY <1>2, <1>3, <1>4, <1>5, <1>6, <1>7, <1>8, ReaderFrame, Zenon DEF readLoop

(* Every step keeps Closes: connect finds no connDone to close. *)
LEMMA ClosesStep ==
  ASSUME RunTypes, ReadTypes, SendTypes, Owned, Closes, [Next]_vars
  PROVE  Closes'
<1>1. CASE UNCHANGED <<rd, hold, closes>>
  BY <1>1, Zenon DEF Closes
<1>2. CASE WaitRead
  BY <1>2, Zenon DEF ReadTypes, Closes, Reading, WaitRead
<1>3. ASSUME NEW k \in Conns, connect(k)
      PROVE  Closes'
  <2>1. connDone = None
    BY <1>3, Zenon DEF RunTypes, Owned, Serving, Reading, Idle, connect
  <2> QED
    BY WsAssumption, <1>3, <2>1 DEF ReadTypes, SendTypes, Closes, Reading, connect
<1>4. ASSUME NEW k \in Conns,
             \/ ReadMessage(k) \/ Decode(k) \/ handleKeyAck(k) \/ sendResponse(k)
             \/ ResponseQueue(k)
      PROVE  Closes'
  <2>1. /\ rd[k] \in Reading /\ closes' = closes
        /\ \E p \in Reading : rd' = [rd EXCEPT ![k] = p]
    BY <1>4, Zenon
    DEF ReadMessage, Decode, handleKeyAck, sendResponse, ResponseQueue, Reading
  <2> QED
    BY <2>1, Zenon DEF ReadTypes, Closes
<1>5. ASSUME NEW k \in Conns,
             ReadError(k) \/ CloseConnDone(k) \/ UnsetConn(k) \/ CloseConn(k)
      PROVE  Closes'
  BY <1>5 DEF ReadTypes, SendTypes, Closes, Reading, ReadError, CloseConnDone,
     UnsetConn, CloseConn
<1> QED
  BY <1>1, <1>2, <1>3, <1>4, <1>5, ReaderFrame, Zenon DEF readLoop

(* Every step keeps Owned: Run dials only after its readLoop is done. *)
LEMMA OwnedStep ==
  ASSUME RunTypes, ReadTypes, NetTypes, Owned, [Next]_vars
  PROVE  Owned'
<1>1. ASSUME run' = run \/ (run \in Idle /\ run' \in Idle)
                        \/ (run \notin Idle /\ run' \notin Idle),
             UNCHANGED <<sendCh, rd, conn, connDone>>,
             \A k \in Conns : socket'[k] # "closed" => socket[k] # "closed"
      PROVE  Owned'
  BY <1>1, Zenon DEF Owned
<1>2. ASSUME NEW k \in Conns, NEW p \in Serving, rd[k] \in Serving,
             rd' = [rd EXCEPT ![k] = p],
             UNCHANGED <<run, sendCh, conn, connDone, socket>>
      PROVE  Owned'
  BY <1>2, ZenonT(30) DEF ReadTypes, Owned, Serving, Reading
<1>3. CASE RunTop \/ connectErr \/ Backoff
  BY <1>1, <1>3, Zenon DEF RunTop, connectErr, Backoff, Idle, client, reader, net
<1>4. CASE \E k \in Conns : connect(k)
  BY WsAssumption, <1>4
  DEF RunTypes, ReadTypes, NetTypes, Owned, Idle, Serving, Reading, connect
<1>5. CASE MakeKeyExchange \/ KeyQueue \/ handleKeyAckPayload \/ KeyTimeout
           \/ RequestSync \/ SyncQueue
  <2>1. run \notin Idle /\ run' \notin Idle
    BY <1>5, Zenon DEF MakeKeyExchange, KeyQueue, handleKeyAckPayload, KeyTimeout,
       RequestSync, SyncQueue, Idle
  <2>2. UNCHANGED <<sendCh, rd, conn, connDone, socket>>
    BY <1>5, Zenon DEF MakeKeyExchange, KeyQueue, handleKeyAckPayload, KeyTimeout,
       RequestSync, SyncQueue, client, reader, net
  <2> QED
    BY <1>1, <2>1, <2>2, Zenon
<1>6. CASE KeyFail
  BY <1>1, <1>6, Zenon DEF NetTypes, KeyFail, Idle, client, reader
<1>7. CASE WaitRead
  BY WsAssumption, <1>7, Zenon DEF RunTypes, ReadTypes, Owned, Idle, Serving, Reading,
     WaitRead, client, net
<1>8. ASSUME NEW k \in Conns,
             \/ ReadMessage(k) \/ Decode(k) \/ handleKeyAck(k) \/ sendResponse(k)
             \/ ResponseQueue(k) \/ ReadError(k) \/ CloseConnDone(k)
      PROVE  Owned'
  <2>1. rd[k] \in Serving /\ \E p \in Serving : rd' = [rd EXCEPT ![k] = p]
    BY <1>8, Zenon DEF ReadMessage, Decode, handleKeyAck, sendResponse, ResponseQueue,
       ReadError, CloseConnDone, Serving, Reading
  <2>2. UNCHANGED <<run, sendCh, conn, connDone, socket>>
    BY <1>8, Zenon DEF ReadMessage, Decode, handleKeyAck, sendResponse, ResponseQueue,
       ReadError, CloseConnDone, client, net
  <2> QED
    BY <1>2, <2>1, <2>2, Zenon
<1>9. CASE \E k \in Conns : UnsetConn(k)
  BY WsAssumption, <1>9
  DEF RunTypes, ReadTypes, Owned, Idle, Serving, Reading, net, UnsetConn
<1>10. CASE \E k \in Conns : CloseConn(k)
  BY WsAssumption, <1>10
  DEF RunTypes, ReadTypes, NetTypes, Owned, Serving, Reading, client, CloseConn
<1>11. CASE CloseSocket
  BY <1>1, <1>11, Zenon DEF NetTypes, CloseSocket, client, reader
<1>12. CASE \E k \in Conns : Break(k)
  BY <1>1, <1>12, Zenon DEF NetTypes, Break, client, reader
<1>13. CASE UNCHANGED <<run, sendCh, rd, conn, connDone, socket>>
  BY <1>1, <1>13, Zenon
<1> QED
  BY <1>3, <1>4, <1>5, <1>6, <1>7, <1>8, <1>9, <1>10, <1>11, <1>12, <1>13, ZenonT(30)
  DEF Next, RunStep, readLoop, writeLoop, vars, client, reader, net,
      WriteSelect, WriteTake, WriteReturn, WriteMessage, WriteError, Heartbeat,
      HeartbeatQueue, Close, CenterAck, CenterCommand, CalmDown

(* Only these steps touch what Keyed is about. *)
LEMMA KeyedFrame ==
  ASSUME [Next]_vars
  PROVE  \/ UNCHANGED <<run, encrypted, sendCh, keyX>>
         \/ RunStep
         \/ \E k \in Conns : handleKeyAck(k)
<1>1. ASSUME NEW k \in Conns, readLoop(k)
      PROVE  UNCHANGED <<run, encrypted, sendCh, keyX>> \/ handleKeyAck(k)
  BY <1>1, Zenon
  DEF readLoop, client, keys, ReadMessage, Decode, sendResponse, ResponseQueue,
      ReadError, CloseConnDone, UnsetConn, CloseConn
<1>2. ASSUME NEW k \in Conns, writeLoop(k)
      PROVE  UNCHANGED <<run, encrypted, sendCh, keyX>>
  BY <1>2, Zenon
  DEF writeLoop, client, keys, WriteSelect, WriteTake, WriteReturn, WriteMessage,
      WriteError
<1> QED
  BY <1>1, <1>2, Zenon
  DEF Next, vars, client, keys, Heartbeat, HeartbeatQueue, Close, CloseSocket,
      CenterAck, CenterCommand, Break, CalmDown

(* Every step keeps Keyed. *)
LEMMA KeyedStep ==
  ASSUME RunTypes, Owned, Keyed, [Next]_vars
  PROVE  Keyed'
<1>1. CASE UNCHANGED <<run, encrypted, sendCh, keyX>>
  BY <1>1, Zenon DEF Keyed
<1>2. CASE RunTop
  BY <1>2, Zenon DEF Keyed, Idle, keys, RunTop
<1>3. CASE \E k \in Conns : connect(k)
  BY <1>3, Zenon DEF Keyed, Idle, connect
<1>4. CASE connectErr \/ Backoff
  BY <1>4, Zenon DEF Keyed, Idle, client, connectErr, Backoff
<1>5. CASE MakeKeyExchange
  BY <1>5, Zenon DEF Keyed, Idle, client, MakeKeyExchange
<1>6. CASE handleKeyAckPayload
  BY <1>6, Zenon DEF RunTypes, Keyed, Idle, handleKeyAckPayload
<1>7. CASE KeyQueue \/ KeyTimeout \/ KeyFail \/ RequestSync \/ SyncQueue
  <2>1. run \notin Idle \cup {"keyX"} /\ run' \notin Idle \cup {"keyX"}
    BY <1>7, Zenon DEF KeyQueue, KeyTimeout, KeyFail, RequestSync, SyncQueue, Idle
  <2>2. UNCHANGED <<sendCh, encrypted, keyX>>
    BY <1>7, Zenon DEF KeyQueue, KeyTimeout, KeyFail, RequestSync, SyncQueue, client, keys
  <2> QED
    BY <2>1, <2>2, Zenon DEF Keyed, Idle
<1>8. CASE WaitRead
  BY <1>8, Zenon DEF Keyed, Idle, client, WaitRead
<1>9. CASE \E k \in Conns : handleKeyAck(k)
  BY <1>9 DEF Keyed, Owned, client, handleKeyAck
<1> QED
  BY <1>1, <1>2, <1>3, <1>4, <1>5, <1>6, <1>7, <1>8, <1>9, KeyedFrame, Zenon DEF RunStep

(* Send keeps Sealed: the key it seals with is that of the connection whose *)
(* channel it has chosen.                                                   *)
LEMMA SendSealed ==
  ASSUME RunTypes, SendTypes, Owned, Keyed, Sealed,
         NEW s \in Senders, NEW kind \in Kinds, SendLock(s, kind),
         UNCHANGED <<sendCh, queue, wr, item, from>>
  PROVE  Sealed'
<1>1. sendCh \in Conns /\ run \notin Idle
  BY Zenon DEF RunTypes, Owned, SendLock, Serving, Reading
<1>2. encrypted \in {None, sendCh}
  BY <1>1, Zenon DEF Keyed
<1>3. \A t \in Senders : out'[t] # None => out'[t].frame.key \in {None, out'[t].ch}
  BY <1>2, ZenonT(30) DEF SendTypes, Sealed, SendLock
<1> QED
  BY <1>3, Zenon DEF Sealed

(* Queueing keeps it. *)
LEMMA QueueSealed ==
  ASSUME SendTypes, Sealed, NEW s \in Senders, SendQueue(s),
         UNCHANGED <<sendCh, wr, item, from>>
  PROVE  Sealed'
<1>1. out[s].ch \in Conns /\ out[s].frame \in Frames
  BY Zenon DEF SendTypes, SendQueue
<1>2. \A t \in Senders : out'[t] # None => out'[t] = out[t] /\ out[t] # None
  BY Zenon DEF SendTypes, SendQueue
<1>3. ASSUME NEW k \in Conns, NEW i \in 1 .. Len(queue'[k])
      PROVE  queue'[k][i].key \in {None, k}
  <2>1. CASE queue' = queue
    BY <1>3, <2>1, Zenon DEF Sealed
  <2>2. CASE queue' = [queue EXCEPT ![out[s].ch] = Append(@, out[s].frame)]
    <3>1. CASE k # out[s].ch
      BY <1>3, <2>2, <3>1, Zenon DEF SendTypes, Sealed
    <3>2. CASE k = out[s].ch
      <4>1. queue[k] \in Seq(Frames) /\ queue'[k] = Append(queue[k], out[s].frame)
        BY <2>2, <3>2, Zenon DEF SendTypes
      <4>2. Longer(queue'[k], queue[k], out[s].frame)
        BY <1>1, <4>1, Appended, ZenonT(30)
      <4>3. \/ i \in 1 .. Len(queue[k]) /\ queue'[k][i] = queue[k][i]
            \/ queue'[k][i] = out[s].frame
        BY <1>3, <4>2, ZenonT(30) DEF Longer
      <4> QED
        BY <3>2, <4>3, <1>1, ZenonT(30) DEF Sealed, SendQueue
    <3> QED
      BY <3>1, <3>2, Zenon
  <2> QED
    BY <2>1, <2>2, Zenon DEF SendQueue
<1> QED
  BY <1>2, <1>3, Zenon DEF Sealed

(* A writer that ends, or is done with its frame, holds none. *)
LEMMA WriterSealed ==
  ASSUME WriteTypes, Sealed, NEW k \in Conns, wr[k] # "off",
         wr' = [wr EXCEPT ![k] = "off"] \/ wr' = [wr EXCEPT ![k] = "top"],
         item' = item \/ item' = [item EXCEPT ![k] = None],
         from' = [from EXCEPT ![k] = None], UNCHANGED <<sendCh, queue, out>>
  PROVE  Sealed'
<1>1. wr'[k] \in {"off", "top"} /\ sendCh # None
  BY ZenonT(30) DEF WriteTypes, Sealed
<1>2. ASSUME NEW j \in Conns, j # k
      PROVE  wr'[j] = wr[j] /\ item'[j] = item[j] /\ from'[j] = from[j]
  BY <1>2, Zenon DEF WriteTypes
<1>3. ASSUME NEW j \in Conns
      PROVE  /\ wr'[j] = "write" => item'[j] \in Frames /\ item'[j].key \in {None, from'[j]}
             /\ wr'[j] \in {"select", "write"} =>
                  from'[j] # None /\ (j = sendCh => from'[j] = j)
  <2>1. CASE j = k
    BY <1>1, <2>1, Zenon
  <2>2. CASE j # k
    BY <1>2, <2>2, ZenonT(30) DEF Sealed
  <2> QED
    BY <2>1, <2>2, Zenon
<1> QED
  BY <1>1, <1>3, Zenon DEF Sealed

(* Every step keeps Sealed. *)
LEMMA SealedStep ==
  ASSUME RunTypes, WriteTypes, SendTypes, Owned, Keyed, Sealed, [Next]_vars
  PROVE  Sealed'
<1>1. CASE UNCHANGED <<sendCh, out, queue, wr, item, from>>
  BY <1>1, ZenonT(30) DEF Sealed
<1>2. CASE \E k \in Conns : connect(k)
  BY WsAssumption, <1>2 DEF RunTypes, WriteTypes, SendTypes, Sealed, Frames,
     Owned, client, writer, connect, Free
<1>3. CASE MakeKeyExchange
  BY <1>3, SendSealed, <1>1, Zenon DEF MakeKeyExchange, Kinds, Senders, client, writer
<1>4. CASE KeyQueue
  BY <1>4, QueueSealed, Zenon DEF KeyQueue, Senders, client, writer
<1>5. CASE RequestSync
  BY <1>5, SendSealed, <1>1, Zenon DEF RequestSync, Kinds, Senders, client, writer
<1>6. CASE SyncQueue
  BY <1>6, QueueSealed, Zenon DEF SyncQueue, Senders, client, writer
<1>7. CASE \E k \in Conns : sendResponse(k)
  BY <1>7, SendSealed, <1>1, Zenon DEF sendResponse, Kinds, Senders, client, writer
<1>8. CASE \E k \in Conns : ResponseQueue(k)
  BY <1>8, QueueSealed, Zenon DEF ResponseQueue, Senders, client, writer
<1>9. CASE \E k \in Conns : WriteSelect(k)
  BY WsAssumption, <1>9, SMTT(30) DEF RunTypes, WriteTypes, SendTypes, Sealed, Frames,
     Owned, client, writer, WriteSelect
<1>10. CASE \E k \in Conns : WriteTake(k)
  <2> PICK k \in Conns : WriteTake(k)
    BY <1>10, Zenon
  <2>1. from[k] \in Conns
    BY DEF WriteTypes, Sealed, WriteTake
  <2>2. /\ queue[from[k]] \in Seq(Frames) /\ queue[from[k]] # <<>>
        /\ \A i \in 1 .. Len(queue[from[k]]) : queue[from[k]][i].key \in {None, from[k]}
    BY <2>1, ZenonT(30) DEF WriteTypes, SendTypes, Sealed, WriteTake
  <2>3. item'[k] \in Frames /\ item'[k].key \in {None, from[k]}
    BY <2>2 DEF WriteTypes, WriteTake
  <2>4. ASSUME NEW j \in Conns, NEW i \in 1 .. Len(queue'[j])
        PROVE  queue'[j][i].key \in {None, j}
    <3>1. CASE j # from[k]
      BY <2>4, <3>1, ZenonT(30) DEF RunTypes, WriteTypes, SendTypes, Sealed, WriteTake
    <3>2. CASE j = from[k]
      <4>1. queue'[j] = Tail(queue[j])
        BY <2>1, <3>2, Zenon DEF SendTypes, WriteTake
      <4> QED
        BY <2>2, <2>4, <3>2, <4>1
    <3> QED
      BY <3>1, <3>2, Zenon
  <2>5. ASSUME NEW j \in Conns, wr'[j] = "write"
        PROVE  item'[j] \in Frames /\ item'[j].key \in {None, from'[j]}
    BY <2>3, <2>5, ZenonT(30) DEF WriteTypes, Sealed, WriteTake
  <2>6. ASSUME NEW j \in Conns
        PROVE  /\ wr'[j] \in {"select", "write"} =>
                    from'[j] # None /\ (j = sendCh' => from'[j] = j)
               /\ wr'[j] # "off" => sendCh' # None
    BY ZenonT(30) DEF WriteTypes, Sealed, WriteTake, client
  <2>7. out' = out
    BY Zenon DEF WriteTake
  <2> QED
    BY <2>4, <2>5, <2>6, <2>7, Zenon DEF Sealed
<1>11. CASE \E k \in Conns : WriteReturn(k)
  BY <1>11, WriterSealed, Zenon DEF WriteReturn, client
<1>12. CASE \E k \in Conns : WriteMessage(k)
  BY <1>12, WriterSealed, Zenon DEF WriteMessage, client
<1>13. CASE \E k \in Conns : WriteError(k)
  BY <1>13, WriterSealed, Zenon DEF WriteError, client
<1>14. CASE Heartbeat
  BY <1>14, SendSealed, <1>1, Zenon DEF Heartbeat, Kinds, Senders, client, writer
<1>15. CASE HeartbeatQueue
  BY <1>15, QueueSealed, Zenon DEF HeartbeatQueue, Senders, client, writer
<1> QED
  BY <1>1, <1>2, <1>3, <1>4, <1>5, <1>6, <1>7, <1>8, <1>9, <1>10, <1>11, <1>12,
     <1>13, <1>14, <1>15, ZenonT(90)
  DEF Next, RunStep, readLoop, writeLoop, vars, client, keys, reader, writer,
      net, RunTop, connectErr, Backoff, handleKeyAckPayload, KeyTimeout,
      KeyFail, WaitRead, ReadMessage, Decode, handleKeyAck, ReadError,
      CloseConnDone, UnsetConn, CloseConn, Close, CloseSocket, CenterAck,
      CenterCommand, Break, CalmDown, Deliver, KeyXHasRoom

(* What Send and the network put into a channel has its type. *)
LEMMA LockTypes ==
  ASSUME RunTypes, SendTypes, Owned,
         NEW s \in Senders, NEW kind \in Kinds, SendLock(s, kind)
  PROVE  out' \in [Senders -> [ch : Conns, frame : Frames] \cup {None}]
<1>1. sendCh \in Conns
  BY Zenon DEF RunTypes, Owned, SendLock
<1>2. [kind |-> kind, key |-> encrypted] \in Frames
  BY Zenon DEF RunTypes, SendTypes, Frames
<1> QED
  BY <1>1, <1>2, Zenon DEF RunTypes, SendTypes, SendLock

(* The same for queueing. *)
LEMMA QueueTypes ==
  ASSUME SendTypes, NEW s \in Senders, SendQueue(s)
  PROVE  /\ out' \in [Senders -> [ch : Conns, frame : Frames] \cup {None}]
         /\ queue' \in [Conns -> Seq(Frames)]
<1>1. out[s].ch \in Conns /\ out[s].frame \in Frames
  BY Zenon DEF SendTypes, SendQueue
<1>2. Append(queue[out[s].ch], out[s].frame) \in Seq(Frames)
  BY <1>1, Appended, ZenonT(30) DEF SendTypes
<1>3. queue' \in [Conns -> Seq(Frames)]
  BY <1>1, <1>2, Zenon DEF SendTypes, SendQueue
<1>4. out' \in [Senders -> [ch : Conns, frame : Frames] \cup {None}]
  BY Zenon DEF SendTypes, SendQueue
<1> QED
  BY <1>3, <1>4, Zenon

(* The same for the inbox. *)
LEMMA Delivered ==
  ASSUME NetTypes, NEW k \in Conns, NEW f \in Inbound, Deliver(k, f)
  PROVE  inbox' \in [Conns -> Seq(Inbound)]
<1>1. Append(inbox[k], f) \in Seq(Inbound)
  BY Appended, Zenon DEF NetTypes
<1> QED
  BY <1>1, Zenon DEF NetTypes, Deliver

(* Every step keeps the types: of what Run and main use, ... *)
LEMMA RunTypesStep ==
  ASSUME RunTypes, ReadTypes, Held, [Next]_vars
  PROVE  RunTypes'
<1>1. ASSUME NEW r \in RunPcs, run' = r,
             UNCHANGED <<client, keys, done, mainPc, calm>>
      PROVE  RunTypes'
  BY <1>1, Zenon DEF RunTypes, client, keys
<1>2. CASE UNCHANGED <<run, client, keys, done, mainPc, calm>>
  BY <1>1, <1>2, Zenon DEF RunTypes
<1>3. CASE RunTop
  BY <1>3, Zenon DEF RunTypes, RunPcs, keys, RunTop
<1>4. CASE \E k \in Conns : connect(k)
  BY <1>4, ZenonT(30) DEF RunTypes, RunPcs, keys, connect
<1>5. CASE connectErr \/ Backoff \/ KeyQueue \/ KeyTimeout \/ KeyFail \/ RequestSync
           \/ SyncQueue \/ WaitRead
  <2>1. run' \in RunPcs
    BY <1>5, Zenon DEF connectErr, Backoff, KeyQueue, KeyTimeout, KeyFail, RequestSync,
       SyncQueue, WaitRead, RunPcs
  <2>2. UNCHANGED <<client, keys, done, mainPc, calm>>
    BY <1>5, Zenon DEF connectErr, Backoff, KeyQueue, KeyTimeout, KeyFail,
       RequestSync, SyncQueue, WaitRead
  <2> QED
    BY <1>1, <2>1, <2>2, Zenon
<1>6. CASE MakeKeyExchange
  BY <1>6, Zenon DEF RunTypes, RunPcs, client, MakeKeyExchange
<1>7. CASE handleKeyAckPayload
  BY <1>7, ZenonT(30) DEF RunTypes, RunPcs, handleKeyAckPayload
<1>8. CASE \E k \in Conns : handleKeyAck(k)
  BY <1>8 DEF RunTypes, Held, client, handleKeyAck
<1>9. CASE \E k \in Conns : UnsetConn(k)
  BY <1>9, Zenon DEF RunTypes, keys, UnsetConn
<1>10. CASE Close
  BY <1>10, Zenon DEF RunTypes, client, keys, Close
<1>11. CASE CloseSocket
  BY <1>11, Zenon DEF RunTypes, client, keys, CloseSocket
<1>12. CASE CalmDown
  BY <1>12, Zenon DEF RunTypes, client, keys, CalmDown
<1> QED
  BY <1>2, <1>3, <1>4, <1>5, <1>6, <1>7, <1>8, <1>9, <1>10, <1>11, <1>12, ZenonT(120)
  DEF Next, RunStep, readLoop, writeLoop, vars, client, keys,
      ReadMessage, Decode, sendResponse, ResponseQueue, ReadError,
      CloseConnDone, CloseConn, WriteSelect, WriteTake, WriteReturn,
      WriteMessage, WriteError, Heartbeat, HeartbeatQueue, CenterAck,
      CenterCommand, Break

(* ... of the readLoops, ... *)
LEMMA ReadTypesStep ==
  ASSUME ReadTypes, NetTypes, [Next]_vars
  PROVE  ReadTypes'
<1>1. CASE UNCHANGED <<rd, hold, closes>>
  BY <1>1, Zenon DEF ReadTypes
<1>2. CASE WaitRead
  BY <1>2, Zenon DEF ReadTypes, ReadPcs, WaitRead
<1>3. ASSUME NEW k \in Conns, connect(k)
      PROVE  ReadTypes'
  BY <1>3, Zenon DEF ReadTypes, ReadPcs, connect
<1>4. ASSUME NEW k \in Conns, ReadMessage(k)
      PROVE  ReadTypes'
  BY <1>4 DEF ReadTypes, NetTypes, ReadPcs, ReadMessage
<1>5. ASSUME NEW k \in Conns, Decode(k) \/ handleKeyAck(k) \/ sendResponse(k)
      PROVE  ReadTypes'
  <2>1. \E p \in ReadPcs : rd' = [rd EXCEPT ![k] = p]
    BY <1>5, Zenon DEF Decode, handleKeyAck, sendResponse, ReadPcs
  <2>2. hold' = hold \/ hold' = [hold EXCEPT ![k] = None]
    BY <1>5, Zenon DEF Decode, handleKeyAck, sendResponse
  <2> QED
    BY <2>1, <2>2, Zenon DEF ReadTypes
<1>6. ASSUME NEW k \in Conns,
             \/ ResponseQueue(k) \/ ReadError(k) \/ CloseConnDone(k)
             \/ UnsetConn(k) \/ CloseConn(k)
      PROVE  ReadTypes'
  <2>1. hold' = hold /\ \E p \in ReadPcs : rd' = [rd EXCEPT ![k] = p]
    BY <1>6, Zenon
    DEF ResponseQueue, ReadError, CloseConnDone, UnsetConn, CloseConn, ReadPcs
  <2> QED
    BY <2>1, Zenon DEF ReadTypes
<1> QED
  BY <1>1, <1>2, <1>3, <1>4, <1>5, <1>6, ReaderFrame, Zenon DEF readLoop

(* ... of the writeLoops, ... *)
LEMMA WriteTypesStep ==
  ASSUME RunTypes, WriteTypes, SendTypes, Sealed, [Next]_vars
  PROVE  WriteTypes'
<1>1. CASE UNCHANGED <<wr, item, from>>
  BY <1>1, Zenon DEF RunTypes, SendTypes, WriteTypes
<1>2. CASE \E k \in Conns : connect(k)
  BY <1>2, ZenonT(30) DEF RunTypes, SendTypes, WriteTypes, writer, connect, Free
<1>3. CASE \E k \in Conns : WriteSelect(k)
  BY <1>3 DEF RunTypes, SendTypes, WriteTypes, writer, WriteSelect
<1>4. CASE \E k \in Conns : WriteTake(k)
  <2> PICK k \in Conns : WriteTake(k)
    BY <1>4, Zenon
  <2>1. from[k] \in Conns
    BY DEF WriteTypes, Sealed, WriteTake
  <2>2. Head(queue[from[k]]) \in Frames
    BY <2>1 DEF WriteTypes, SendTypes, WriteTake
  <2> QED
    BY <2>2, Zenon DEF RunTypes, SendTypes, WriteTypes, WriteTake
<1>5. CASE \E k \in Conns : WriteReturn(k)
  BY <1>5, Zenon DEF RunTypes, SendTypes, WriteTypes, writer, WriteReturn
<1>6. CASE \E k \in Conns : WriteMessage(k)
  BY <1>6, Zenon DEF RunTypes, SendTypes, WriteTypes, writer, WriteMessage, Receive
<1>7. CASE \E k \in Conns : WriteError(k)
  BY <1>7, Zenon DEF RunTypes, SendTypes, WriteTypes, writer, WriteError
<1> QED
  BY <1>1, <1>2, <1>3, <1>4, <1>5, <1>6, <1>7, ZenonT(30)
  DEF Next, RunStep, readLoop, writeLoop, vars, client, keys, reader, writer,
      net, RunTop, connectErr, Backoff, MakeKeyExchange, KeyQueue,
      handleKeyAckPayload, KeyTimeout, KeyFail, RequestSync, SyncQueue,
      WaitRead, ReadMessage, Decode, handleKeyAck, sendResponse, ResponseQueue,
      ReadError, CloseConnDone, UnsetConn, CloseConn, Heartbeat, HeartbeatQueue,
      Close, CloseSocket, CenterAck, CenterCommand, Break, CalmDown, Deliver,
      KeyXHasRoom, SendLock, SendQueue

(* ... of the channels, ... *)
LEMMA SendTypesStep ==
  ASSUME RunTypes, WriteTypes, SendTypes, Owned, Sealed, [Next]_vars
  PROVE  SendTypes'
<1>1. CASE UNCHANGED <<queue, closes, out>>
  BY <1>1, Zenon DEF RunTypes, WriteTypes, SendTypes
<1>2. CASE \E k \in Conns : connect(k)
  BY <1>2 DEF RunTypes, WriteTypes, SendTypes, connect, Free
<1>3. CASE MakeKeyExchange
  BY <1>3, LockTypes, Zenon DEF RunTypes, WriteTypes, SendTypes, MakeKeyExchange,
     Kinds, Senders
<1>4. CASE KeyQueue
  BY <1>4, QueueTypes, Zenon DEF RunTypes, WriteTypes, SendTypes, KeyQueue, Senders
<1>5. CASE RequestSync
  BY <1>5, LockTypes, Zenon DEF RunTypes, WriteTypes, SendTypes, RequestSync, Kinds,
     Senders
<1>6. CASE SyncQueue
  BY <1>6, QueueTypes, Zenon DEF RunTypes, WriteTypes, SendTypes, SyncQueue, Senders
<1>7. CASE \E k \in Conns : sendResponse(k)
  BY <1>7, LockTypes, Zenon DEF RunTypes, WriteTypes, SendTypes, sendResponse, Kinds,
     Senders
<1>8. CASE \E k \in Conns : ResponseQueue(k)
  BY <1>8, QueueTypes, Zenon DEF RunTypes, WriteTypes, SendTypes, ResponseQueue,
     Senders
<1>9. CASE \E k \in Conns : CloseConnDone(k)
  <2> PICK k \in Conns : CloseConnDone(k)
    BY <1>9
  <2>1. closes[k] + 1 \in Nat
    BY SMTT(30) DEF SendTypes
  <2> QED
    BY <2>1, ZenonT(30) DEF RunTypes, WriteTypes, SendTypes, CloseConnDone
<1>10. CASE \E k \in Conns : WriteTake(k)
  <2> PICK k \in Conns : WriteTake(k)
    BY <1>10, Zenon
  <2>1. from[k] \in Conns
    BY DEF WriteTypes, Sealed, WriteTake
  <2>2. Tail(queue[from[k]]) \in Seq(Frames)
    BY <2>1 DEF WriteTypes, SendTypes, WriteTake
  <2> QED
    BY <2>1, <2>2, Zenon DEF RunTypes, WriteTypes, SendTypes, WriteTake
<1>11. CASE Heartbeat
  BY <1>11, LockTypes, Zenon DEF RunTypes, WriteTypes, SendTypes, Heartbeat, Kinds,
     Senders
<1>12. CASE HeartbeatQueue
  BY <1>12, QueueTypes, Zenon DEF RunTypes, WriteTypes, SendTypes, HeartbeatQueue,
     Senders
<1> QED
  BY <1>1, <1>2, <1>3, <1>4, <1>5, <1>6, <1>7, <1>8, <1>9, <1>10, <1>11, <1>12,
     ZenonT(30)
  DEF Next, RunStep, readLoop, writeLoop, vars, client, keys, reader, writer,
      net, RunTop, connectErr, Backoff, handleKeyAckPayload, KeyTimeout,
      KeyFail, WaitRead, ReadMessage, Decode, handleKeyAck, ReadError,
      UnsetConn, CloseConn, WriteSelect, WriteReturn, WriteMessage, WriteError,
      Close, CloseSocket, CenterAck, CenterCommand, Break, CalmDown, Deliver,
      KeyXHasRoom, Receive

(* ... and of the network. *)
LEMMA NetTypesStep ==
  ASSUME RunTypes, NetTypes, [Next]_vars
  PROVE  NetTypes'
<1>1. CASE UNCHANGED <<socket, inbox, cen, got>>
  BY <1>1, Zenon DEF RunTypes, NetTypes
<1>2. CASE \E k \in Conns : connect(k)
  BY <1>2, ZenonT(30) DEF RunTypes, NetTypes, net, connect, Free
<1>3. CASE KeyFail
  BY <1>3, Zenon DEF RunTypes, NetTypes, net, KeyFail
<1>4. CASE \E k \in Conns : ReadMessage(k)
  <2> PICK k \in Conns : ReadMessage(k)
    BY <1>4, Zenon
  <2>1. Tail(inbox[k]) \in Seq(Inbound)
    BY DEF NetTypes, ReadMessage
  <2> QED
    BY <2>1, Zenon DEF RunTypes, NetTypes, ReadMessage
<1>5. CASE \E k \in Conns : CloseConn(k)
  BY <1>5 DEF RunTypes, NetTypes, net, CloseConn
<1>6. CASE \E k \in Conns : WriteMessage(k)
  <2> PICK k \in Conns : WriteMessage(k)
    BY <1>6, Zenon
  <2>1. /\ got' \subseteq got \cup {k}
        /\ cen' = cen \/ cen' = [cen EXCEPT ![k] = "owed"]
    BY Zenon DEF WriteMessage, Receive
  <2> QED
    BY <2>1, Zenon DEF RunTypes, NetTypes, WriteMessage
<1>7. CASE CloseSocket
  BY <1>7, Zenon DEF RunTypes, NetTypes, net, CloseSocket
<1>8. CASE \E k \in Conns : CenterAck(k)
  <2> PICK k \in Conns : CenterAck(k)
    BY <1>8, Zenon
  <2>1. \/ cen' = [cen EXCEPT ![k] = "sealed"]
        \/ cen' = [cen EXCEPT ![k] = "refused"]
    BY Zenon DEF CenterAck
  <2>2. PICK f \in Inbound : Deliver(k, f)
    BY Zenon DEF CenterAck, Inbound
  <2>3. inbox' \in [Conns -> Seq(Inbound)]
    BY <2>2, Delivered, Zenon
  <2> QED
    BY <2>1, <2>3, Zenon DEF RunTypes, NetTypes, CenterAck
<1>9. CASE \E k \in Conns : CenterCommand(k)
  <2> PICK k \in Conns : CenterCommand(k)
    BY <1>9, Zenon
  <2>1. PICK f \in Inbound : Deliver(k, f)
    BY Zenon DEF CenterCommand, Inbound
  <2>2. inbox' \in [Conns -> Seq(Inbound)]
    BY <2>1, Delivered, Zenon
  <2> QED
    BY <2>2, Zenon DEF RunTypes, NetTypes, CenterCommand
<1>10. CASE \E k \in Conns : Break(k)
  BY <1>10, Zenon DEF RunTypes, NetTypes, net, Break
<1> QED
  BY <1>1, <1>2, <1>3, <1>4, <1>5, <1>6, <1>7, <1>8, <1>9, <1>10, ZenonT(120)
  DEF Next, RunStep, readLoop, writeLoop, vars, client, keys, reader, writer,
      net, RunTop, connectErr, Backoff, MakeKeyExchange, KeyQueue,
      handleKeyAckPayload, KeyTimeout, RequestSync, SyncQueue, WaitRead, Decode,
      handleKeyAck, sendResponse, ResponseQueue, ReadError, CloseConnDone,
      UnsetConn, WriteSelect, WriteTake, WriteReturn, WriteError, Heartbeat,
      HeartbeatQueue, Close, CalmDown, KeyXHasRoom, SendLock, SendQueue

(* The invariant holds at the start, ... *)
LEMMA InvInit == Init => IInv
<1> SUFFICES ASSUME Init PROVE IInv
  BY Zenon
<1>1. RunTypes /\ ReadTypes
  BY Zenon DEF Init, RunTypes, ReadTypes, RunPcs, ReadPcs
<1>2. WriteTypes /\ NetTypes
  BY DEF Init, WriteTypes, NetTypes
<1>3. SendTypes
  BY DEF Init, SendTypes
<1>4. Held /\ Owned /\ Closes /\ Keyed
  BY WsAssumption DEF Init, Held, Owned, Closes, Keyed, Idle, Reading, Serving
<1>5. Sealed
  BY WsAssumption DEF Init, Sealed
<1> QED
  BY <1>1, <1>2, <1>3, <1>4, <1>5, Zenon DEF IInv

(* ... and every step keeps it. *)
LEMMA InvStep == IInv /\ [Next]_vars => IInv'
<1> SUFFICES ASSUME IInv, [Next]_vars PROVE IInv'
  BY Zenon
<1>1. /\ RunTypes /\ ReadTypes /\ WriteTypes /\ SendTypes /\ NetTypes
      /\ Held /\ Owned /\ Closes /\ Keyed /\ Sealed
  BY Zenon DEF IInv
<1> QED
  BY Zenon, <1>1, RunTypesStep, ReadTypesStep, WriteTypesStep, SendTypesStep,
     NetTypesStep,
     HeldStep, OwnedStep, ClosesStep, KeyedStep, SealedStep DEF IInv
=============================================================================

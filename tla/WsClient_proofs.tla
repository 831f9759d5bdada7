-------------------------- MODULE WsClient_proofs --------------------------
(***************************************************************************)
(* Theorems about the connection, for any number of connections, any       *)
(* buffers and any faults.                                                 *)
(***************************************************************************)
EXTENDS WsInvariant_proofs

-----------------------------------------------------------------------------
(* The key message of the current connection exists once: still to be      *)
(* sent, encoded, queued, taken by its writeLoop, or received by the       *)
(* center.                                                                 *)
KeyEncoded(k) == out["run"] # None /\ out["run"].ch = k /\ out["run"].frame.kind = "key"
KeyQueued(k) == \E i \in 1 .. Len(queue[k]) : queue[k][i].kind = "key"
KeyTaken(k) == wr[k] = "write" /\ item[k].kind = "key"

Asked ==
  /\ \A s \in Senders : out[s] # None /\ out[s].frame.kind = "key" => s = "run"
  /\ \A k \in Conns :
       /\ cen[k] # "hello" => rd[k] \in Serving \cup {"shut"}
       /\ k = sendCh =>
            /\ run = "keyX" \/ cen[k] # "hello" =>
                 ~KeyEncoded(k) /\ ~KeyQueued(k) /\ ~KeyTaken(k)
            /\ run = "keyX" => cen[k] = "hello"
            /\ KeyEncoded(k) => ~KeyQueued(k) /\ ~KeyTaken(k)
            /\ KeyQueued(k) => ~KeyTaken(k)
            /\ \A i, j \in 1 .. Len(queue[k]) :
                 queue[k][i].kind = "key" /\ queue[k][j].kind = "key" => i = j

(* So does the answer: on its way, read, or in the key-exchange channel    *)
(* that Run made for this connection.                                      *)
AnswerComing(k) == \E i \in 1 .. Len(inbox[k]) : inbox[k][i].kind # "cmd"
AnswerRead(k) == rd[k] \in {"decode", "ack"} /\ hold[k].kind # "cmd"
AnswerGiven == run # "keyX" /\ keyX # None

Answered ==
  \A k \in Conns :
    /\ rd[k] \in {"off", "done"} => inbox[k] = <<>>
    /\ \A i, j \in 1 .. Len(inbox[k]) :
         inbox[k][i].kind # "cmd" /\ inbox[k][j].kind # "cmd" => i = j
    /\ AnswerComing(k) => ~AnswerRead(k)
    /\ AnswerComing(k) \/ AnswerRead(k) => ~AnswerGiven
    /\ rd[k] \in Serving \cup {"shut"} /\ cen[k] \in {"hello", "owed"} =>
         ~AnswerComing(k) /\ ~AnswerRead(k) /\ ~AnswerGiven

(* A step that adds no key message, and tells the center of none, keeps    *)
(* Asked.                                                                  *)
LEMMA AskedKept ==
  ASSUME Asked, UNCHANGED <<sendCh, queue>>,
         run' = run \/ run' # "keyX",
         \A s \in Senders :
           out'[s] # None /\ out'[s].frame.kind = "key" => out'[s] = out[s],
         \A k \in Conns : wr'[k] = "write" => wr[k] = "write" /\ item'[k] = item[k],
         \A k \in Conns : cen'[k] # "hello" =>
           cen[k] # "hello" /\ rd'[k] \in Serving \cup {"shut"}
  PROVE  Asked'
<1>1. \A k \in Conns : /\ KeyEncoded(k)' => KeyEncoded(k)
                       /\ KeyQueued(k)' => KeyQueued(k)
                       /\ KeyTaken(k)' => KeyTaken(k)
  BY Zenon DEF KeyEncoded, KeyQueued, KeyTaken, Senders
<1>2. \A s \in Senders : out'[s] # None /\ out'[s].frame.kind = "key" => s = "run"
  BY ZenonT(30) DEF Asked
<1> QED
  BY <1>1, <1>2 DEF Asked

(* Neither does queueing: the message moves from the sender to the queue,  *)
(* or is dropped.                                                          *)
LEMMA AskedQueue ==
  ASSUME SendTypes, Asked, NEW s \in Senders, SendQueue(s),
         run' = run \/ run' # "keyX", UNCHANGED <<sendCh, wr, item, cen>>,
         \A k \in Conns :
           rd[k] \in Serving \cup {"shut"} => rd'[k] \in Serving \cup {"shut"}
  PROVE  Asked'
<1>1. /\ out[s] # None /\ out[s].ch \in Conns /\ out[s].frame \in Frames
      /\ out[s].frame.kind = "key" => s = "run"
  BY Zenon DEF SendTypes, SendQueue, Asked
<1>2. out'[s] = None /\ \A t \in Senders : t # s => out'[t] = out[t]
  BY Zenon DEF SendTypes, SendQueue
<1>3. ASSUME NEW k \in Conns, NEW i \in 1 .. Len(queue'[k]), queue'[k][i].kind = "key"
      PROVE  \/ i \in 1 .. Len(queue[k]) /\ queue'[k][i] = queue[k][i]
             \/ i = Len(queue[k]) + 1 /\ s = "run" /\ KeyEncoded(k)
  <2>1. CASE queue'[k] = queue[k]
    BY <1>3, <2>1, Zenon
  <2>2. CASE k = out[s].ch /\ queue'[k] = Append(queue[k], out[s].frame)
    <3>1. queue[k] \in Seq(Frames)
      BY Zenon DEF SendTypes
    <3>2. Longer(queue'[k], queue[k], out[s].frame)
      BY <1>1, <2>2, <3>1, Appended, ZenonT(30)
    <3>3. \/ i \in 1 .. Len(queue[k]) /\ queue'[k][i] = queue[k][i]
          \/ i = Len(queue[k]) + 1 /\ queue'[k][i] = out[s].frame
      BY <1>3, <3>2, ZenonT(30) DEF Longer
    <3> QED
      BY <1>1, <1>3, <2>2, <3>3, Zenon DEF KeyEncoded
  <2> QED
    BY <1>1, <2>1, <2>2, Zenon DEF SendTypes, SendQueue
<1>4. ASSUME NEW k \in Conns
      PROVE  /\ KeyTaken(k)' <=> KeyTaken(k)
             /\ KeyEncoded(k)' => KeyEncoded(k) /\ s # "run"
             /\ KeyQueued(k)' => KeyQueued(k) \/ (s = "run" /\ KeyEncoded(k))
  <2>1. KeyTaken(k)' <=> KeyTaken(k)
    BY Zenon DEF KeyTaken
  <2>2. KeyEncoded(k)' => KeyEncoded(k) /\ s # "run"
    BY <1>2, Zenon DEF KeyEncoded, Senders
  <2>3. KeyQueued(k)' => KeyQueued(k) \/ (s = "run" /\ KeyEncoded(k))
    BY <1>3, Zenon DEF KeyQueued
  <2> QED
    BY <2>1, <2>2, <2>3, Zenon
<1>5. \A t \in Senders : out'[t] # None /\ out'[t].frame.kind = "key" => t = "run"
  BY <1>2, Zenon DEF Asked
<1>6. ASSUME NEW k \in Conns, k = sendCh
      PROVE  \A i, j \in 1 .. Len(queue'[k]) :
               queue'[k][i].kind = "key" /\ queue'[k][j].kind = "key" => i = j
  <2>1. KeyEncoded(k) => ~KeyQueued(k)
    BY <1>6, Zenon DEF Asked
  <2> QED
    BY <1>3, <1>6, <2>1, SMTT(30) DEF Asked, KeyQueued
<1>7. ASSUME NEW k \in Conns, k = sendCh
      PROVE  /\ run' = "keyX" \/ cen[k] # "hello" =>
                  ~KeyEncoded(k)' /\ ~KeyQueued(k)' /\ ~KeyTaken(k)'
             /\ run' = "keyX" => cen[k] = "hello"
             /\ KeyEncoded(k)' => ~KeyQueued(k)' /\ ~KeyTaken(k)'
             /\ KeyQueued(k)' => ~KeyTaken(k)'
  BY <1>4, <1>7, Zenon DEF Asked
<1> QED
  BY <1>5, <1>6, <1>7, Zenon DEF Asked

(* Every step keeps Asked: Run makes the key message once per connection,  *)
(* from there it only moves on.                                            *)
LEMMA AskedStep ==
  ASSUME RunTypes, ReadTypes, WriteTypes, SendTypes, NetTypes,
         Owned, Sealed, Asked, [Next]_vars
  PROVE  Asked'
<1>1. CASE /\ UNCHANGED <<sendCh, queue, out, wr, item, cen, rd>>
           /\ run' = run \/ run' # "keyX"
  BY <1>1, AskedKept, Zenon DEF Asked
<1>2. CASE \E k \in Conns : connect(k)
  <2> PICK k \in Conns : connect(k)
    BY <1>2, Zenon
  <2>1. cen[k] = "hello" /\ sendCh' = k /\ UNCHANGED <<cen, out>>
    BY Zenon DEF connect, Free, Asked, Serving, Reading
  <2>2. ~KeyEncoded(k)' /\ ~KeyQueued(k)' /\ ~KeyTaken(k)'
    BY DEF WriteTypes, SendTypes, connect, Free, KeyEncoded, KeyQueued,
       KeyTaken, Senders
  <2>3. \A j \in Conns : cen[j] # "hello" => rd'[j] \in Serving \cup {"shut"}
    BY <2>1, Zenon DEF ReadTypes, NetTypes, Asked, connect
  <2>4. queue'[k] = <<>>
    BY Zenon DEF SendTypes, connect
  <2> QED
    BY <2>1, <2>2, <2>3, <2>4 DEF Asked
<1>3. CASE MakeKeyExchange
  <2>1. CASE UNCHANGED out
    BY <1>3, <2>1, <1>1, Zenon DEF MakeKeyExchange, client, reader, writer, net
  <2>2. CASE SendLock("run", "key") /\ run' = "keyQueue"
    <3>1. UNCHANGED <<sendCh, queue, wr, item, cen, rd>>
      BY <1>3, Zenon DEF MakeKeyExchange, client, reader, writer, net
    <3>2. \A s \in Senders : s # "run" => out'[s] = out[s]
      BY <2>2, Zenon DEF SendTypes, SendLock
    <3>3. \A k \in Conns : /\ KeyQueued(k)' <=> KeyQueued(k)
                           /\ KeyTaken(k)' <=> KeyTaken(k)
      BY <3>1, Zenon DEF KeyQueued, KeyTaken
    <3>4. run = "keyX" /\ run' # "keyX"
      BY <1>3, <2>2, Zenon DEF MakeKeyExchange
    <3> QED
      BY <3>1, <3>2, <3>3, <3>4, ZenonT(30) DEF Asked
  <2> QED
    BY <1>3, <2>1, <2>2, Zenon DEF MakeKeyExchange
<1>4. ASSUME NEW s \in Senders, NEW kind \in Kinds \ {"key"}, SendLock(s, kind),
             UNCHANGED <<sendCh, queue, wr, item, cen>>, run' = run \/ run' # "keyX",
             \A k \in Conns :
               rd[k] \in Serving \cup {"shut"} => rd'[k] \in Serving \cup {"shut"}
      PROVE  Asked'
  <2>1. \A t \in Senders : out'[t] = out[t] \/ out'[t].frame.kind = kind
    BY <1>4, Zenon DEF SendTypes, SendLock
  <2>2. \A k \in Conns : cen'[k] # "hello" =>
          cen[k] # "hello" /\ rd'[k] \in Serving \cup {"shut"}
    BY <1>4, Zenon DEF Asked
  <2> QED
    BY <1>4, <2>1, <2>2, AskedKept, Zenon
<1>5. ASSUME NEW k \in Conns, NEW p \in Serving \cup {"shut"},
             rd[k] \in Serving, rd' = [rd EXCEPT ![k] = p]
      PROVE  \A j \in Conns :
               rd[j] \in Serving \cup {"shut"} => rd'[j] \in Serving \cup {"shut"}
  BY <1>5, Zenon DEF ReadTypes
<1>6. ASSUME NEW k \in Conns, NEW p \in Serving \cup {"shut"},
             rd[k] \in Serving, rd' = [rd EXCEPT ![k] = p],
             UNCHANGED <<run, sendCh, queue, out, wr, item, cen>>
      PROVE  Asked'
  BY <1>5, <1>6, AskedKept, Zenon DEF Asked
<1>7. CASE KeyQueue
  BY <1>7, AskedQueue, Zenon DEF KeyQueue, Senders, client, reader, writer, net
<1>8. CASE RequestSync
  BY <1>8, <1>1, <1>4, Zenon DEF RequestSync, Kinds, Senders, client, reader, writer,
     net
<1>9. CASE SyncQueue
  BY <1>9, AskedQueue, Zenon DEF SyncQueue, Senders, client, reader, writer, net
<1>10. CASE WaitRead
  <2>1. sendCh \in Conns
    BY <1>10, Zenon DEF RunTypes, Owned, Idle, WaitRead
  <2>2. \A k \in Conns : cen[k] # "hello" => rd'[k] \in Serving \cup {"shut"}
    BY <1>10, <2>1, Zenon DEF ReadTypes, NetTypes, Asked, Serving, Reading, WaitRead
  <2> QED
    BY <1>10, <2>2, AskedKept, Zenon DEF WaitRead, client, writer, net
<1>11. CASE \E k \in Conns : ReadMessage(k) \/ Decode(k) \/ handleKeyAck(k)
  BY <1>11, <1>6, ZenonT(30) DEF ReadMessage, Decode, handleKeyAck, Serving, Reading,
     client, writer, net
<1>12. CASE \E k \in Conns : sendResponse(k)
  <2> PICK k \in Conns : sendResponse(k)
    BY <1>12, Zenon
  <2>1. PICK p \in Serving : rd' = [rd EXCEPT ![k] = p]
    BY Zenon DEF sendResponse, Serving, Reading
  <2>2. rd[k] \in Serving
    BY Zenon DEF sendResponse, Serving, Reading
  <2>3. CASE SendLock("read", "response")
    BY <1>4, <1>5, <2>1, <2>2, <2>3, Zenon DEF sendResponse, Kinds, Senders, client,
       writer, net
  <2>4. CASE UNCHANGED out
    BY <1>6, <2>1, <2>2, <2>4, Zenon DEF sendResponse, client, writer, net
  <2> QED
    BY <2>3, <2>4, Zenon DEF sendResponse
<1>13. CASE \E k \in Conns : ResponseQueue(k)
  <2> PICK k \in Conns : ResponseQueue(k)
    BY <1>13, Zenon
  <2>1. \A j \in Conns :
          rd[j] \in Serving \cup {"shut"} => rd'[j] \in Serving \cup {"shut"}
    BY <1>5, Zenon DEF ResponseQueue, Serving, Reading
  <2> QED
    BY <2>1, AskedQueue, Zenon DEF ResponseQueue, Senders, client, writer, net
<1>14. CASE \E k \in Conns : ReadError(k) \/ CloseConnDone(k) \/ UnsetConn(k)
  BY <1>14, <1>6, Zenon DEF ReadError, CloseConnDone, UnsetConn, Serving, Reading,
     client, writer, net
<1>15. CASE \E k \in Conns : CloseConn(k)
  <2> PICK k \in Conns : CloseConn(k)
    BY <1>15, Zenon
  <2>1. \A j \in Conns : cen'[j] # "hello" =>
          cen[j] # "hello" /\ rd'[j] \in Serving \cup {"shut"}
    BY Zenon DEF ReadTypes, NetTypes, Asked, CloseConn
  <2> QED
    BY <2>1, AskedKept, Zenon DEF CloseConn, client, writer
<1>16. CASE \E k \in Conns : WriteSelect(k) \/ WriteReturn(k) \/ WriteError(k)
  <2> PICK k \in Conns : WriteSelect(k) \/ WriteReturn(k) \/ WriteError(k)
    BY <1>16, Zenon
  <2>1. \A j \in Conns : wr'[j] = "write" => wr[j] = "write" /\ item'[j] = item[j]
    BY Zenon DEF WriteTypes, WriteSelect, WriteReturn, WriteError
  <2>2. UNCHANGED <<sendCh, run, queue, out, cen, rd>>
    BY Zenon DEF WriteSelect, WriteReturn, WriteError, client, reader, net
  <2> QED
    BY <2>1, <2>2, AskedKept, Zenon DEF Asked
<1>17. CASE \E k \in Conns : WriteTake(k)
  <2> PICK k \in Conns : WriteTake(k)
    BY <1>17, Zenon
  <2>1. from[k] \in Conns /\ (k = sendCh => from[k] = k)
    BY DEF WriteTypes, Sealed, WriteTake
  <2>2. queue[from[k]] \in Seq(Frames) /\ queue[from[k]] # <<>>
    BY <2>1, Zenon DEF WriteTypes, SendTypes, WriteTake
  <2>3. ASSUME NEW j \in Conns, NEW i \in 1 .. Len(queue'[j])
        PROVE  \/ j # from[k] /\ i \in 1 .. Len(queue[j]) /\ queue'[j][i] = queue[j][i]
               \/ /\ j = from[k]
                  /\ i + 1 \in 2 .. Len(queue[j]) /\ queue'[j][i] = queue[j][i + 1]
    <3>1. CASE j # from[k]
      BY <2>3, <3>1, Zenon DEF RunTypes, ReadTypes, WriteTypes, SendTypes, NetTypes,
         WriteTake
    <3>2. CASE j = from[k]
      <4>1. queue'[j] = Tail(queue[j])
        BY <2>1, <3>2, Zenon DEF SendTypes, WriteTake
      <4> QED
        BY <2>2, <2>3, <3>2, <4>1
    <3> QED
      BY <3>1, <3>2, Zenon
  <2>4. item'[k] = queue[from[k]][1] /\ 1 \in 1 .. Len(queue[from[k]])
    BY <2>2 DEF WriteTypes, SendTypes, WriteTake
  <2>5. \A j \in Conns : j # k => wr'[j] = wr[j] /\ item'[j] = item[j]
    BY Zenon DEF WriteTypes, WriteTake
  <2>6. ASSUME NEW j \in Conns, j = sendCh
        PROVE  /\ KeyEncoded(j)' <=> KeyEncoded(j)
               /\ KeyQueued(j)' => KeyQueued(j)
               /\ KeyTaken(j)' => KeyTaken(j) \/ (KeyQueued(j) /\ ~KeyQueued(j)')
    <3>1. KeyEncoded(j)' <=> KeyEncoded(j)
      BY Zenon DEF KeyEncoded, WriteTake
    <3>2. KeyQueued(j)' => KeyQueued(j)
      <4> SUFFICES ASSUME NEW i \in 1 .. Len(queue'[j]), queue'[j][i].kind = "key"
                   PROVE  KeyQueued(j)
        BY Zenon DEF KeyQueued
      <4>1. CASE i \in 1 .. Len(queue[j]) /\ queue'[j][i] = queue[j][i]
        BY <4>1, Zenon DEF KeyQueued
      <4>2. CASE i + 1 \in 2 .. Len(queue[j]) /\ queue'[j][i] = queue[j][i + 1]
        <5>1. i + 1 \in 1 .. Len(queue[j])
          BY <4>2
        <5> QED
          BY <4>2, <5>1, Zenon DEF KeyQueued
      <4> QED
        BY <2>3, <4>1, <4>2, Zenon
    <3>3. ASSUME KeyTaken(j)', j = k
          PROVE  KeyQueued(j) /\ ~KeyQueued(j)'
      <4>1. from[k] = j /\ queue[j][1].kind = "key" /\ 1 \in 1 .. Len(queue[j])
        BY <2>1, <2>4, <2>6, <3>3, Zenon DEF KeyTaken
      <4>2. ASSUME NEW i \in 1 .. Len(queue'[j]), queue'[j][i].kind = "key"
            PROVE  FALSE
        <5>1. i + 1 \in 2 .. Len(queue[j]) /\ queue[j][i + 1].kind = "key"
          BY <2>3, <4>1, <4>2, Zenon
        <5>2. i + 1 \in 1 .. Len(queue[j]) /\ i + 1 # 1
          BY <5>1
        <5> QED
          BY <2>6, <4>1, <5>1, <5>2, Zenon DEF Asked
      <4> QED
        BY <4>1, <4>2, Zenon DEF KeyQueued
    <3>4. ASSUME KeyTaken(j)', j # k
          PROVE  KeyTaken(j)
      BY <2>5, <3>4, Zenon DEF KeyTaken
    <3> QED
      BY <3>1, <3>2, <3>3, <3>4, Zenon
  <2>7. ASSUME NEW j \in Conns, j = sendCh,
               NEW i \in 1 .. Len(queue'[j]), NEW h \in 1 .. Len(queue'[j]),
               queue'[j][i].kind = "key", queue'[j][h].kind = "key"
        PROVE  i = h
    <3>1. CASE j # from[k]
      <4>1. /\ i \in 1 .. Len(queue[j]) /\ queue[j][i].kind = "key"
            /\ h \in 1 .. Len(queue[j]) /\ queue[j][h].kind = "key"
        BY <2>3, <2>7, <3>1, Zenon
      <4> QED
        BY <2>7, <4>1, Zenon DEF Asked
    <3>2. CASE j = from[k]
      <4>a. /\ i + 1 \in 2 .. Len(queue[j]) /\ queue[j][i + 1].kind = "key"
            /\ h + 1 \in 2 .. Len(queue[j]) /\ queue[j][h + 1].kind = "key"
        BY <2>3, <2>7, <3>2, Zenon
      <4>b. i + 1 \in 1 .. Len(queue[j]) /\ h + 1 \in 1 .. Len(queue[j])
        BY <4>a
      <4>c. i + 1 = h + 1
        BY <2>7, <4>a, <4>b, Zenon DEF Asked
      <4> QED
        BY <4>c
    <3> QED
      BY <3>1, <3>2, Zenon
  <2>8. UNCHANGED <<sendCh, run, out, cen, rd>>
    BY Zenon DEF WriteTake, client, reader, net
  <2>9. ASSUME NEW j \in Conns, j = sendCh
        PROVE  /\ run = "keyX" \/ cen[j] # "hello" =>
                    ~KeyEncoded(j)' /\ ~KeyQueued(j)' /\ ~KeyTaken(j)'
               /\ KeyEncoded(j)' => ~KeyQueued(j)' /\ ~KeyTaken(j)'
               /\ KeyQueued(j)' => ~KeyTaken(j)'
    BY <2>6, <2>9, Zenon DEF Asked
  <2> QED
    BY <2>7, <2>8, <2>9, Zenon DEF Asked
<1>18. CASE \E k \in Conns : WriteMessage(k)
  <2> PICK k \in Conns : WriteMessage(k)
    BY <1>18, Zenon
  <2>1. UNCHANGED <<sendCh, run, queue, out, rd>>
    BY Zenon DEF WriteMessage, client, reader
  <2>2. wr'[k] = "top" /\ \A j \in Conns : j # k => wr'[j] = wr[j] /\ item'[j] = item[j]
    BY Zenon DEF WriteTypes, WriteMessage
  <2>3. CASE cen' = cen
    BY <2>1, <2>2, <2>3, AskedKept, ZenonT(30) DEF Asked
  <2>4. CASE /\ cen' = [cen EXCEPT ![k] = "owed"]
             /\ socket[k] = "open" /\ item[k].kind = "key"
    <3>1. rd[k] \in Serving \cup {"shut"} /\ k = sendCh
      BY <2>4, Zenon DEF Owned, Serving, Reading
    <3>2. KeyTaken(k)
      BY <2>4, Zenon DEF KeyTaken, WriteMessage
    <3>3. run # "keyX" /\ ~KeyEncoded(k) /\ ~KeyQueued(k)
      BY <3>1, <3>2, Zenon DEF Asked
    <3>4. ~KeyEncoded(k)' /\ ~KeyQueued(k)' /\ ~KeyTaken(k)'
      BY <2>1, <2>2, <3>3, Zenon DEF KeyEncoded, KeyQueued, KeyTaken
    <3>5. \A j \in Conns : cen'[j] # "hello" => rd'[j] \in Serving \cup {"shut"}
      BY <2>1, <2>4, <3>1, Zenon DEF ReadTypes, NetTypes, Asked
    <3> QED
      BY <2>1, <3>1, <3>3, <3>4, <3>5, ZenonT(30) DEF Asked
  <2> QED
    BY <2>3, <2>4, Zenon DEF WriteMessage, Receive
<1>19. CASE Heartbeat
  BY <1>19, <1>4, Zenon DEF Heartbeat, Kinds, Senders, client, reader, writer, net
<1>20. CASE HeartbeatQueue
  BY <1>20, AskedQueue, Zenon DEF HeartbeatQueue, Senders, client, reader, writer, net
<1>21. CASE \E k \in Conns : CenterAck(k)
  <2> PICK k \in Conns : CenterAck(k)
    BY <1>21, Zenon
  <2>1. \A j \in Conns : cen'[j] # "hello" => cen[j] # "hello"
    BY Zenon DEF NetTypes, CenterAck
  <2>2. UNCHANGED <<sendCh, run, queue, out, wr, item, rd>>
    BY Zenon DEF CenterAck, client, reader, writer
  <2> QED
    BY <2>1, <2>2, AskedKept, Zenon DEF Asked
<1> QED
  BY <1>1, <1>2, <1>3, <1>7, <1>8, <1>9, <1>10, <1>11, <1>12, <1>13, <1>14,
     <1>15, <1>16, <1>17, <1>18, <1>19, <1>20, <1>21, ZenonT(30)
  DEF Next, RunStep, readLoop, writeLoop, vars, client, keys, reader, writer,
      net, RunTop, connectErr, Backoff, handleKeyAckPayload, KeyTimeout,
      KeyFail, Close, CloseSocket, CenterCommand, Break, CalmDown, Deliver

(* A step that adds no answer, and forgets none the center has given, keeps *)
(* Answered.                                                                *)
LEMMA AnsweredKept ==
  ASSUME Answered, AnswerGiven' => AnswerGiven,
         \A k \in Conns :
           /\ inbox'[k] = inbox[k] \/ inbox'[k] = <<>>
           /\ AnswerRead(k)' => AnswerRead(k)
           /\ rd'[k] \in {"off", "done"} => rd[k] \in {"off", "done"} \/ inbox'[k] = <<>>
           /\ rd'[k] \in Serving \cup {"shut"} /\ cen'[k] \in {"hello", "owed"} =>
                rd[k] \in Serving \cup {"shut"} /\ cen[k] \in {"hello", "owed"}
  PROVE  Answered'
<1>1. \A k \in Conns : AnswerComing(k)' => AnswerComing(k)
  BY DEF AnswerComing
<1>2. ASSUME NEW k \in Conns
      PROVE  /\ rd'[k] \in {"off", "done"} => inbox'[k] = <<>>
             /\ \A i, j \in 1 .. Len(inbox'[k]) :
                  inbox'[k][i].kind # "cmd" /\ inbox'[k][j].kind # "cmd" => i = j
  BY DEF Answered
<1>3. ASSUME NEW k \in Conns
      PROVE  /\ AnswerComing(k)' => ~AnswerRead(k)'
             /\ AnswerComing(k)' \/ AnswerRead(k)' => ~AnswerGiven'
             /\ rd'[k] \in Serving \cup {"shut"} /\ cen'[k] \in {"hello", "owed"} =>
                  ~AnswerComing(k)' /\ ~AnswerRead(k)' /\ ~AnswerGiven'
  BY <1>1, Zenon DEF Answered
<1> QED
  BY <1>2, <1>3, Zenon DEF Answered

(* Every step keeps Answered. *)
LEMMA AnsweredStep ==
  ASSUME RunTypes, ReadTypes, NetTypes, Held, Owned, Asked, Answered, [Next]_vars
  PROVE  Answered'
<1>1. CASE /\ UNCHANGED <<rd, hold, inbox, cen>>
           /\ AnswerGiven' => AnswerGiven
  BY <1>1, AnsweredKept, Zenon DEF AnswerRead
<1>2. CASE UNCHANGED <<run, keyX, rd, hold, inbox, cen>>
  BY <1>1, <1>2, Zenon DEF AnswerGiven
<1>3. CASE RunTop \/ connectErr \/ Backoff \/ KeyTimeout \/ KeyFail \/ KeyQueue
           \/ RequestSync \/ SyncQueue
  <2>1. run # "keyX" /\ UNCHANGED <<keyX, rd, hold, inbox, cen>>
    BY <1>3, Zenon DEF RunTop, connectErr, Backoff, KeyTimeout, KeyFail, KeyQueue,
       RequestSync, SyncQueue, keys, reader, net
  <2> QED
    BY <1>1, <2>1, Zenon DEF AnswerGiven
<1>4. CASE MakeKeyExchange \/ handleKeyAckPayload
  <2>1. keyX' = None /\ UNCHANGED <<rd, hold, inbox, cen>>
    BY <1>4, Zenon DEF MakeKeyExchange, handleKeyAckPayload, reader, net
  <2> QED
    BY <1>1, <2>1, Zenon DEF AnswerGiven
<1>5. CASE \E k \in Conns : connect(k)
  <2> PICK k \in Conns : connect(k)
    BY <1>5, Zenon
  <2>1. ~AnswerGiven' /\ UNCHANGED <<hold, inbox, cen>>
    BY Zenon DEF AnswerGiven, connect
  <2>2. \A j \in Conns : inbox[j] = <<>>
    BY Zenon DEF Owned, Idle, Answered, connect
  <2>3. \A j \in Conns : rd'[j] \notin {"decode", "ack"}
    BY Zenon DEF ReadTypes, Owned, Idle, connect
  <2>4. \A j \in Conns : ~AnswerComing(j)' /\ ~AnswerRead(j)'
    BY <2>1, <2>2, <2>3 DEF AnswerComing, AnswerRead
  <2> QED
    BY <2>1, <2>2, <2>4, ZenonT(30) DEF Answered
<1>6. CASE WaitRead
  <2>1. sendCh \in Conns
    BY <1>6, Zenon DEF RunTypes, Owned, Idle, WaitRead
  <2>2. rd[sendCh] = "done" /\ rd' = [rd EXCEPT ![sendCh] = "off"]
    BY <1>6, Zenon DEF WaitRead
  <2>3. UNCHANGED <<hold, inbox, cen>> /\ (AnswerGiven' => AnswerGiven)
    BY <1>6, Zenon DEF WaitRead, keys, net, AnswerGiven
  <2>4. \A k \in Conns : rd'[k] = rd[k] \/ (rd[k] = "done" /\ rd'[k] = "off")
    BY <2>1, <2>2, Zenon DEF ReadTypes
  <2> QED
    BY <2>3, <2>4, AnsweredKept, Zenon DEF AnswerRead, Serving, Reading
<1>7. CASE \E k \in Conns : ReadMessage(k)
  <2> PICK k \in Conns : ReadMessage(k)
    BY <1>7, Zenon
  <2>1. /\ rd[k] = "read" /\ rd'[k] = "decode" /\ hold'[k] = inbox[k][1]
        /\ 1 \in 1 .. Len(inbox[k]) /\ inbox'[k] = Tail(inbox[k])
        /\ inbox[k] \in Seq(Inbound) /\ inbox[k] # <<>>
    BY DEF ReadTypes, NetTypes, ReadMessage
  <2>2. \A j \in Conns :
          j # k => rd'[j] = rd[j] /\ hold'[j] = hold[j] /\ inbox'[j] = inbox[j]
    BY Zenon DEF ReadTypes, NetTypes, ReadMessage
  <2>3. UNCHANGED cen /\ (AnswerGiven' <=> AnswerGiven)
    BY Zenon DEF ReadMessage, keys, AnswerGiven
  <2>4. \A i \in 1 .. Len(inbox'[k]) :
          i + 1 \in 1 .. Len(inbox[k]) /\ i + 1 # 1 /\ inbox'[k][i] = inbox[k][i + 1]
    BY <2>1
  <2>5. /\ AnswerComing(k)' => AnswerComing(k)
        /\ AnswerRead(k)' => AnswerComing(k)
    BY <2>1, <2>4, Zenon DEF AnswerComing, AnswerRead
  <2>6. AnswerRead(k)' => ~AnswerComing(k)'
    BY <2>1, <2>4 DEF Answered, AnswerComing, AnswerRead
  <2>7. \A i, j \in 1 .. Len(inbox'[k]) :
          inbox'[k][i].kind # "cmd" /\ inbox'[k][j].kind # "cmd" => i = j
    <3> SUFFICES ASSUME NEW i \in 1 .. Len(inbox'[k]), NEW j \in 1 .. Len(inbox'[k]),
                        inbox'[k][i].kind # "cmd", inbox'[k][j].kind # "cmd"
                 PROVE  i = j
      OBVIOUS
    <3>1. /\ i + 1 \in 1 .. Len(inbox[k]) /\ inbox[k][i + 1].kind # "cmd"
          /\ j + 1 \in 1 .. Len(inbox[k]) /\ inbox[k][j + 1].kind # "cmd"
      BY <2>4, Zenon
    <3>2. i + 1 = j + 1
      BY <3>1, Zenon DEF Answered
    <3> QED
      BY <3>2
  <2>8. ASSUME NEW j \in Conns, j # k
        PROVE  /\ AnswerComing(j)' <=> AnswerComing(j)
               /\ AnswerRead(j)' <=> AnswerRead(j)
    BY <2>2, <2>8, Zenon DEF AnswerComing, AnswerRead
  <2>9. rd[k] \in Serving \cup {"shut"}
    BY <2>1, Zenon DEF Serving, Reading
  <2>10. ASSUME NEW j \in Conns
         PROVE  /\ rd'[j] \in {"off", "done"} => inbox'[j] = <<>>
                /\ \A i, h \in 1 .. Len(inbox'[j]) :
                     inbox'[j][i].kind # "cmd" /\ inbox'[j][h].kind # "cmd" => i = h
    <3>1. CASE j = k
      BY <2>1, <2>7, <3>1, Zenon
    <3>2. CASE j # k
      <4>1. inbox'[j] = inbox[j] /\ rd'[j] = rd[j]
        BY <2>2, <3>2, Zenon
      <4> QED
        BY <4>1 DEF Answered
    <3> QED
      BY <3>1, <3>2, Zenon
  <2>11. ASSUME NEW j \in Conns
         PROVE  /\ AnswerComing(j)' => ~AnswerRead(j)'
                /\ AnswerComing(j)' \/ AnswerRead(j)' => ~AnswerGiven'
                /\ rd'[j] \in Serving \cup {"shut"} /\ cen'[j] \in {"hello", "owed"} =>
                     ~AnswerComing(j)' /\ ~AnswerRead(j)' /\ ~AnswerGiven'
    <3>1. CASE j = k
      BY <2>3, <2>5, <2>6, <2>9, <3>1, Zenon DEF Answered
    <3>2. CASE j # k
      BY <2>2, <2>3, <2>8, <3>2, Zenon DEF Answered
    <3> QED
      BY <3>1, <3>2, Zenon
  <2> QED
    BY <2>10, <2>11, Zenon DEF Answered
<1>8. ASSUME NEW k \in Conns, NEW p \in Serving \cup {"shut"},
             rd[k] \in Serving, rd' = [rd EXCEPT ![k] = p],
             AnswerRead(k)' => AnswerRead(k),
             \A j \in Conns : j # k => hold'[j] = hold[j],
             UNCHANGED <<run, keyX, inbox, cen>>
      PROVE  Answered'
  <2>1. \A j \in Conns : j # k => rd'[j] = rd[j]
    BY <1>8, Zenon DEF ReadTypes
  <2>2. rd'[k] = p
    BY <1>8, Zenon DEF ReadTypes
  <2>3. AnswerGiven' => AnswerGiven
    BY <1>8, Zenon DEF AnswerGiven
  <2>4. \A j \in Conns : AnswerRead(j)' => AnswerRead(j)
    BY <1>8, <2>1, Zenon DEF AnswerRead
  <2> QED
    BY <1>8, <2>1, <2>2, <2>3, <2>4, AnsweredKept, Zenon DEF Serving, Reading
<1>9. CASE \E k \in Conns : Decode(k)
  <2> PICK k \in Conns : Decode(k)
    BY <1>9, Zenon
  <2>1. PICK p \in {"read", "cmd", "ack"} :
          /\ rd' = [rd EXCEPT ![k] = p]
          /\ p = "ack" => hold[k].kind # "cmd" /\ hold' = hold
    BY Zenon DEF Decode
  <2>2. AnswerRead(k)' => AnswerRead(k)
    BY <2>1, Zenon DEF ReadTypes, AnswerRead, Decode
  <2> QED
    BY <1>8, <2>1, <2>2, Zenon DEF RunTypes, ReadTypes, NetTypes, Decode, Serving,
       Reading, keys, net
<1>10. CASE \E k \in Conns : handleKeyAck(k)
  <2> PICK k \in Conns : handleKeyAck(k)
    BY <1>10, Zenon
  <2>1. rd[k] = "ack" /\ rd'[k] = "read" /\ UNCHANGED <<run, inbox, cen>>
    BY Zenon DEF ReadTypes, NetTypes, handleKeyAck, net
  <2>2. \A j \in Conns : j # k => rd[j] = "off" /\ rd'[j] = "off"
    BY <2>1, Zenon DEF ReadTypes, Owned, handleKeyAck
  <2>3. AnswerRead(k)
    BY <2>1, Zenon DEF Held, AnswerRead
  <2>4. ~AnswerComing(k) /\ cen[k] \notin {"hello", "owed"}
    BY <2>1, <2>3, Zenon DEF Answered, Serving, Reading
  <2>5. \A j \in Conns : ~AnswerComing(j)' /\ ~AnswerRead(j)'
    BY <2>1, <2>2, <2>4 DEF Answered, AnswerComing, AnswerRead
  <2> QED
    BY <2>1, <2>2, <2>4, <2>5, ZenonT(30) DEF Answered, Serving, Reading
<1>11. CASE \E k \in Conns : sendResponse(k)
  <2> PICK k \in Conns : sendResponse(k)
    BY <1>11, Zenon
  <2>1. PICK p \in {"queue", "read"} : rd' = [rd EXCEPT ![k] = p]
    BY Zenon DEF sendResponse
  <2>2. ~AnswerRead(k)'
    BY <2>1, Zenon DEF ReadTypes, AnswerRead
  <2> QED
    BY <1>8, <2>1, <2>2, Zenon DEF RunTypes, ReadTypes, NetTypes, sendResponse,
       Serving, Reading, keys, net
<1>12. CASE \E k \in Conns : \/ ResponseQueue(k) \/ ReadError(k)
                             \/ CloseConnDone(k) \/ UnsetConn(k)
  <2> PICK k \in Conns : \/ ResponseQueue(k) \/ ReadError(k)
                         \/ CloseConnDone(k) \/ UnsetConn(k)
    BY <1>12, Zenon
  <2>1. PICK p \in {"read", "unset", "close", "shut"} : rd' = [rd EXCEPT ![k] = p]
    BY Zenon DEF ResponseQueue, ReadError, CloseConnDone, UnsetConn
  <2>2. rd[k] \in Serving /\ UNCHANGED <<run, keyX, hold, inbox, cen>>
    BY Zenon DEF ResponseQueue, ReadError, CloseConnDone, UnsetConn, Serving, Reading,
       keys, net
  <2>3. ~AnswerRead(k)'
    BY <2>1, Zenon DEF ReadTypes, AnswerRead
  <2> QED
    BY <1>8, <2>1, <2>2, <2>3, Zenon DEF Serving, Reading
<1>13. CASE \E k \in Conns : CloseConn(k)
  <2> PICK k \in Conns : CloseConn(k)
    BY <1>13, Zenon
  <2>1. /\ rd'[k] = "done" /\ inbox'[k] = <<>>
        /\ \A j \in Conns : j # k => /\ rd'[j] = rd[j] /\ inbox'[j] = inbox[j]
                                     /\ cen'[j] = cen[j]
    BY Zenon DEF ReadTypes, NetTypes, CloseConn
  <2>2. (AnswerGiven' => AnswerGiven) /\ UNCHANGED hold
    BY Zenon DEF AnswerGiven, CloseConn, keys
  <2>3. \A j \in Conns : AnswerRead(j)' => AnswerRead(j)
    BY <2>1, <2>2, Zenon DEF AnswerRead
  <2> QED
    BY <2>1, <2>2, <2>3, AnsweredKept, Zenon DEF Serving, Reading
<1>14. CASE \E k \in Conns : WriteMessage(k)
  <2> PICK k \in Conns : WriteMessage(k)
    BY <1>14, Zenon
  <2>1. UNCHANGED <<run, keyX, rd, hold, inbox>>
    BY Zenon DEF WriteMessage, keys, reader
  <2>2. CASE cen' = cen
    BY <1>2, <2>1, <2>2, Zenon
  <2>3. CASE /\ cen' = [cen EXCEPT ![k] = "owed"]
             /\ socket[k] = "open" /\ item[k].kind = "key"
    <3>1. k = sendCh
      BY <2>3, Zenon DEF Owned, Serving, Reading
    <3>2. cen[k] = "hello"
      BY <2>3, <3>1, Zenon DEF Asked, KeyTaken, WriteMessage
    <3>3. \A j \in Conns : cen'[j] \in {"hello", "owed"} => cen[j] \in {"hello", "owed"}
      BY <2>3, <3>2, Zenon DEF NetTypes
    <3> QED
      BY <2>1, <3>3, AnsweredKept, Zenon DEF AnswerGiven, AnswerRead
  <2> QED
    BY <2>2, <2>3, Zenon DEF WriteMessage, Receive
<1>15. ASSUME NEW k \in Conns, NEW f \in Inbound, Deliver(k, f),
              UNCHANGED <<run, keyX, rd, hold>>,
              \A j \in Conns :
                cen'[j] \in {"hello", "owed"} => cen[j] \in {"hello", "owed"},
              f.kind # "cmd" => cen[k] = "owed" /\ cen'[k] \notin {"hello", "owed"},
              f.kind = "cmd" => cen[k] = "sealed"
       PROVE  Answered'
  <2>1. /\ inbox[k] \in Seq(Inbound) /\ inbox'[k] = Append(inbox[k], f)
        /\ \A j \in Conns : j # k => inbox'[j] = inbox[j]
    BY <1>15, Zenon DEF NetTypes, Deliver
  <2>2. rd[k] \in Serving \cup {"shut"}
    BY <1>15, Zenon DEF Owned, Deliver
  <2>3. ASSUME NEW i \in 1 .. Len(inbox'[k]), inbox'[k][i].kind # "cmd"
        PROVE  \/ i \in 1 .. Len(inbox[k]) /\ inbox'[k][i] = inbox[k][i]
               \/ i = Len(inbox[k]) + 1 /\ f.kind # "cmd"
    <3>1. Longer(inbox'[k], inbox[k], f)
      BY <1>15, <2>1, Appended, ZenonT(30)
    <3> QED
      BY <2>3, <3>1, ZenonT(30) DEF Longer
  <2>4. /\ AnswerGiven' <=> AnswerGiven
        /\ \A j \in Conns : AnswerRead(j)' <=> AnswerRead(j)
    BY <1>15, Zenon DEF AnswerGiven, AnswerRead
  <2>5. f.kind # "cmd" => ~AnswerComing(k) /\ ~AnswerRead(k) /\ ~AnswerGiven
    BY <1>15, <2>2, Zenon DEF Answered
  <2>6. AnswerComing(k)' => AnswerComing(k) \/ f.kind # "cmd"
    BY <2>3, Zenon DEF AnswerComing
  <2>7. ASSUME NEW i \in 1 .. Len(inbox'[k]), NEW j \in 1 .. Len(inbox'[k]),
               inbox'[k][i].kind # "cmd", inbox'[k][j].kind # "cmd"
        PROVE  i = j
    <3>1. CASE f.kind = "cmd"
      <4>1. /\ i \in 1 .. Len(inbox[k]) /\ inbox[k][i].kind # "cmd"
            /\ j \in 1 .. Len(inbox[k]) /\ inbox[k][j].kind # "cmd"
        BY <2>3, <2>7, <3>1, Zenon
      <4> QED
        BY <4>1, Zenon DEF Answered
    <3>2. CASE f.kind # "cmd"
      BY <2>3, <2>5, <2>7, <3>2, Zenon DEF AnswerComing
    <3> QED
      BY <3>1, <3>2, Zenon
  <2>8. ASSUME NEW j \in Conns, j # k
        PROVE  /\ inbox'[j] = inbox[j] /\ rd'[j] = rd[j]
               /\ AnswerComing(j)' <=> AnswerComing(j)
    BY <1>15, <2>1, <2>8, Zenon DEF AnswerComing
  <2>9. ASSUME NEW j \in Conns
        PROVE  /\ rd'[j] \in {"off", "done"} => inbox'[j] = <<>>
               /\ \A i, h \in 1 .. Len(inbox'[j]) :
                    inbox'[j][i].kind # "cmd" /\ inbox'[j][h].kind # "cmd" => i = h
    <3>1. CASE j = k
      BY <1>15, <2>2, <2>7, <3>1, Zenon DEF Serving, Reading
    <3>2. CASE j # k
      BY <2>8, <3>2 DEF Answered
    <3> QED
      BY <3>1, <3>2, Zenon
  <2>10. ASSUME NEW j \in Conns
         PROVE  /\ AnswerComing(j)' => ~AnswerRead(j)'
                /\ AnswerComing(j)' \/ AnswerRead(j)' => ~AnswerGiven'
                /\ rd'[j] \in Serving \cup {"shut"} /\ cen'[j] \in {"hello", "owed"} =>
                     ~AnswerComing(j)' /\ ~AnswerRead(j)' /\ ~AnswerGiven'
    <3>1. CASE j = k
      BY <1>15, <2>4, <2>5, <2>6, <3>1, Zenon DEF Answered
    <3>2. CASE j # k
      BY <1>15, <2>4, <2>8, <3>2, Zenon DEF Answered
    <3> QED
      BY <3>1, <3>2, Zenon
  <2> QED
    BY <2>9, <2>10, Zenon DEF Answered
<1>16. CASE \E k \in Conns : CenterAck(k)
  <2> PICK k \in Conns : CenterAck(k)
    BY <1>16, Zenon
  <2>1. PICK f \in Inbound : Deliver(k, f) /\ f.kind # "cmd"
    BY ZenonT(30) DEF CenterAck, Inbound
  <2>2. cen[k] = "owed" /\ UNCHANGED <<run, keyX, rd, hold>>
    BY Zenon DEF CenterAck, keys, reader
  <2>3. /\ cen'[k] \notin {"hello", "owed"}
        /\ \A j \in Conns : cen'[j] \in {"hello", "owed"} => cen[j] \in {"hello", "owed"}
    BY Zenon DEF NetTypes, CenterAck
  <2> QED
    BY <1>15, <2>1, <2>2, <2>3, Zenon
<1>17. CASE \E k \in Conns : CenterCommand(k)
  <2> PICK k \in Conns : CenterCommand(k)
    BY <1>17, Zenon
  <2>1. PICK f \in Inbound : Deliver(k, f) /\ f.kind = "cmd"
    BY DEF CenterCommand, Inbound
  <2>2. cen[k] = "sealed" /\ UNCHANGED <<run, keyX, rd, hold, cen>>
    BY Zenon DEF CenterCommand, keys, reader
  <2> QED
    BY <1>15, <2>1, <2>2, Zenon
<1> QED
  BY <1>2, <1>3, <1>4, <1>5, <1>6, <1>7, <1>9, <1>10, <1>11, <1>12, <1>13,
     <1>14, <1>16, <1>17, ZenonT(30)
  DEF Next, RunStep, readLoop, writeLoop, vars, keys, reader, writer, net,
      WriteSelect, WriteTake, WriteReturn, WriteError, Heartbeat, HeartbeatQueue,
      Close, CloseSocket, Break, CalmDown

-----------------------------------------------------------------------------
(* The invariant holds in every behaviour: whatever the network, the       *)
(* center and main do, and however the goroutines interleave.              *)
THEOREM ConnectionInvariant == Spec => [](IInv /\ Asked /\ Answered)
<1>1. Init => IInv /\ Asked /\ Answered
  <2> SUFFICES ASSUME Init PROVE Asked /\ Answered
    BY InvInit, Zenon
  <2>1. Asked
    BY WsAssumption, Zenon DEF Init, Asked
  <2>2. Answered
    <3>1. ~AnswerGiven /\ \A k \in Conns : ~AnswerComing(k) /\ ~AnswerRead(k)
      BY DEF Init, AnswerComing, AnswerRead, AnswerGiven
    <3>2. ASSUME NEW k \in Conns
          PROVE  /\ rd[k] \in {"off", "done"} => inbox[k] = <<>>
                 /\ \A i, j \in 1 .. Len(inbox[k]) :
                      inbox[k][i].kind # "cmd" /\ inbox[k][j].kind # "cmd" => i = j
      BY DEF Init
    <3> QED
      BY <3>1, <3>2, Zenon DEF Answered
  <2> QED
    BY <2>1, <2>2, Zenon
<1>2. IInv /\ Asked /\ Answered /\ [Next]_vars => (IInv /\ Asked /\ Answered)'
  BY InvStep, AskedStep, AnsweredStep, Zenon DEF IInv
<1> QED
  BY <1>1, <1>2, PTL DEF Spec

(* The variables of the client keep their types. *)
THEOREM ConnectionTypes == Spec => []TypeOK
<1>1. IInv => TypeOK
  BY Zenon DEF IInv, TypeOK, RunTypes, ReadTypes, WriteTypes, SendTypes, NetTypes
<1> QED
  BY <1>1, ConnectionInvariant, PTL

(* At most one readLoop runs: Run waits for readDone before it dials.      *)
THEOREM OneReader == Spec => []SingleReader
<1>1. IInv => SingleReader
  BY Zenon DEF IInv, Owned, SingleReader
<1> QED
  BY <1>1, ConnectionInvariant, PTL

(* connDone is closed at most once, by readLoop; connect, which may close  *)
(* it too, never finds one to close.                                       *)
THEOREM ConnDoneClosedOnce == Spec => []ClosedOnce
<1>1. IInv => ClosedOnce
  BY Zenon DEF IInv, Closes, ClosedOnce
<1> QED
  BY <1>1, ConnectionInvariant, PTL

(* Send seals with the key of the connection it finds in c.conn, and a     *)
(* frame that reaches an open socket was sealed for that connection.       *)
THEOREM KeysStay == Spec => []SessionKey
<1>1. ASSUME IInv PROVE SessionKey
  <2>1. conn # None => encrypted \in {None, conn}
    BY <1>1, Zenon DEF IInv, RunTypes, Owned, Keyed, Serving, Reading
  <2>2. ASSUME NEW k \in Conns, wr[k] = "write", socket[k] = "open"
        PROVE  item[k].key \in {None, k}
    <3>1. k = sendCh
      BY <1>1, <2>2, Zenon DEF IInv, Owned, Serving, Reading
    <3> QED
      BY <1>1, <2>2, <3>1, Zenon DEF IInv, Sealed
  <2> QED
    BY <2>1, <2>2, Zenon DEF SessionKey
<1> QED
  BY <1>1, ConnectionInvariant, PTL

(* readLoop never blocks on the key-exchange channel: the center's one     *)
(* answer to the one key message of a connection finds the channel empty,  *)
(* in time or late.                                                        *)
THEOREM KeyAnswerFits == Spec => []NeverStuck
<1>1. ASSUME IInv, Asked, Answered PROVE NeverStuck
  <2> SUFFICES ASSUME NEW k \in Conns, rd[k] = "ack"
               PROVE  keyX = None
    BY Zenon DEF NeverStuck, KeyXHasRoom
  <2>1. AnswerRead(k)
    BY <1>1, Zenon DEF IInv, Held, AnswerRead
  <2>2. k = sendCh
    BY <1>1, Zenon DEF IInv, Owned
  <2>3. run # "keyX"
    BY <1>1, <2>1, <2>2, Zenon DEF Asked, Answered, Serving, Reading
  <2> QED
    BY <1>1, <2>1, <2>3, Zenon DEF Answered, AnswerGiven
<1> QED
  BY <1>1, ConnectionInvariant, PTL
-----------------------------------------------------------------------------
(* What the center can read.  A frame travels once Send has encoded it     *)
(* until it is written, and arrives once the center has sent it until its  *)
(* handler is called.                                                      *)
Travels(f) ==
  \/ \E s \in Senders : out[s] # None /\ out[s].frame = f
  \/ \E k \in Conns : \E i \in 1 .. Len(queue[k]) : queue[k][i] = f
  \/ \E k \in Conns : wr[k] = "write" /\ item[k] = f

Arrives(k, f) ==
  \/ \E i \in 1 .. Len(inbox[k]) : inbox[k][i] = f
  \/ rd[k] \in {"decode", "ack"} /\ hold[k] = f

(* Encryption is on when Run requests a sync and while a command is        *)
(* handled, commands come sealed, and so requests and responses travel     *)
(* sealed.                                                                 *)
Ciphered ==
  /\ run = "onConnect" => encrypted # None
  /\ \A k \in Conns : rd[k] = "cmd" => encrypted # None
  /\ \A k \in Conns : \A f \in Inbound : Arrives(k, f) /\ f.kind = "cmd" => f.key # None
  /\ \A f \in Frames : Travels(f) /\ f.kind \in {"sync", "response"} => f.key # None

(* While a connection lives, whatever shows the agent that its key message *)
(* was accepted has the center's word for it.                              *)
Accepted(k) ==
  \/ encrypted = k
  \/ AnswerGiven /\ keyX.kind = "ack"
  \/ \E f \in Inbound : Arrives(k, f) /\ f.kind = "ack"
  \/ \E f \in Frames : Travels(f) /\ f.key = k

Agreed ==
  \A k \in Conns : rd[k] \in Serving \cup {"shut"} /\ Accepted(k) => cen[k] = "sealed"

(* Queueing makes nothing travel that did not. *)
LEMMA QueueTravels ==
  ASSUME SendTypes, NEW s \in Senders, SendQueue(s), UNCHANGED <<wr, item>>,
         NEW f, Travels(f)'
  PROVE  Travels(f)
<1>1. out[s] # None /\ out[s].ch \in Conns /\ out[s].frame \in Frames
  BY Zenon DEF SendTypes, SendQueue
<1>2. ASSUME NEW t \in Senders, out'[t] # None, out'[t].frame = f PROVE Travels(f)
  BY <1>2, Zenon DEF SendTypes, SendQueue, Travels
<1>3. ASSUME NEW k \in Conns, NEW i \in 1 .. Len(queue'[k]), queue'[k][i] = f
      PROVE  Travels(f)
  <2>1. CASE queue'[k] = queue[k]
    BY <1>3, <2>1, Zenon DEF Travels
  <2>2. CASE k = out[s].ch /\ queue'[k] = Append(queue[k], out[s].frame)
    <3>1. queue[k] \in Seq(Frames)
      BY Zenon DEF SendTypes
    <3>2. Longer(queue'[k], queue[k], out[s].frame)
      BY <1>1, <2>2, <3>1, Appended, Zenon
    <3>3. \/ i \in 1 .. Len(queue[k]) /\ queue'[k][i] = queue[k][i]
          \/ queue'[k][i] = out[s].frame
      BY <1>3, <3>2, Zenon DEF Longer
    <3> QED
      BY <1>1, <1>3, <3>3, Zenon DEF Travels
  <2> QED
    BY <1>1, <2>1, <2>2, Zenon DEF SendTypes, SendQueue
<1>4. ASSUME NEW k \in Conns, wr'[k] = "write", item'[k] = f PROVE Travels(f)
  BY <1>4, Zenon DEF Travels
<1> QED
  BY <1>2, <1>3, <1>4, Zenon DEF Travels

(* Send adds the frame it encodes. *)
LEMMA LockTravels ==
  ASSUME SendTypes, NEW s \in Senders, NEW kind, SendLock(s, kind),
         UNCHANGED <<queue, wr, item>>, NEW f, Travels(f)'
  PROVE  Travels(f) \/ (conn # None /\ f.kind = kind /\ f.key = encrypted)
<1>1. \A t \in Senders :
        \/ out'[t] = out[t]
        \/ out'[t].frame = [kind |-> kind, key |-> encrypted] /\ conn # None
  BY Zenon DEF SendTypes, SendLock
<1>2. [kind |-> kind, key |-> encrypted].kind = kind
      /\ [kind |-> kind, key |-> encrypted].key = encrypted
  BY Zenon
<1> QED
  BY <1>1, <1>2, Zenon DEF Travels

(* What travels after a step did so before, or was just encoded: a sync    *)
(* request by Run after the key exchange, a response by a readLoop that    *)
(* handled a command.                                                      *)
LEMMA TravelStep ==
  ASSUME WriteTypes, SendTypes, Sealed, [Next]_vars, NEW f, Travels(f)'
  PROVE  \/ Travels(f)
         \/ /\ conn # None /\ f.key = encrypted
            /\ f.kind = "sync" => run = "onConnect"
            /\ f.kind = "response" => \E k \in Conns : rd[k] = "cmd"
<1> DEFINE Encoded == /\ conn # None /\ f.key = encrypted
                      /\ f.kind = "sync" => run = "onConnect"
                      /\ f.kind = "response" => \E k \in Conns : rd[k] = "cmd"
<1> SUFFICES Travels(f) \/ Encoded
  BY Zenon
<1>1. CASE UNCHANGED <<out, queue, wr, item>>
  BY <1>1, Zenon DEF Travels
<1>2. CASE \E k \in Conns : connect(k)
  <2> PICK k \in Conns : connect(k)
    BY <1>2, Zenon
  <2>1. /\ UNCHANGED <<out, item>> /\ queue'[k] = <<>> /\ wr'[k] = "top"
        /\ \A j \in Conns : j # k => queue'[j] = queue[j] /\ wr'[j] = wr[j]
    BY Zenon DEF connect, WriteTypes, SendTypes
  <2>2. ASSUME NEW i \in 1 .. Len(queue'[k]) PROVE FALSE
    BY <2>1, <2>2
  <2> QED
    BY <2>1, <2>2, ZenonT(30) DEF Travels
<1>3. CASE MakeKeyExchange
  <2>1. CASE UNCHANGED out
    BY <1>1, <1>3, <2>1, Zenon DEF MakeKeyExchange, writer
  <2>2. CASE SendLock("run", "key")
    <3>1. Travels(f) \/ (conn # None /\ f.kind = "key" /\ f.key = encrypted)
      BY <1>3, <2>2, LockTravels, Zenon DEF MakeKeyExchange, writer, Senders
    <3> QED
      BY <3>1
  <2> QED
    BY <1>3, <2>1, <2>2, Zenon DEF MakeKeyExchange
<1>4. CASE RequestSync
  <2>1. CASE UNCHANGED out
    BY <1>1, <1>4, <2>1, Zenon DEF RequestSync, writer
  <2>2. CASE SendLock("run", "sync")
    <3>1. Travels(f) \/ (conn # None /\ f.kind = "sync" /\ f.key = encrypted)
      BY <1>4, <2>2, LockTravels, Zenon DEF RequestSync, writer, Senders
    <3> QED
      BY <1>4, <3>1 DEF RequestSync
  <2> QED
    BY <1>4, <2>1, <2>2, Zenon DEF RequestSync
<1>5. CASE \E k \in Conns : sendResponse(k)
  <2> PICK k \in Conns : sendResponse(k)
    BY <1>5, Zenon
  <2>1. CASE UNCHANGED out
    BY <1>1, <2>1, Zenon DEF sendResponse, writer
  <2>2. CASE SendLock("read", "response")
    <3>1. Travels(f) \/ (conn # None /\ f.kind = "response" /\ f.key = encrypted)
      BY <2>2, LockTravels, Zenon DEF sendResponse, writer, Senders
    <3> QED
      BY <3>1 DEF sendResponse
  <2> QED
    BY <2>1, <2>2, Zenon DEF sendResponse
<1>6. CASE Heartbeat
  <2>1. Travels(f) \/ (conn # None /\ f.kind = "heartbeat" /\ f.key = encrypted)
    BY <1>6, LockTravels, Zenon DEF Heartbeat, writer, Senders
  <2> QED
    BY <2>1
<1>7. CASE KeyQueue \/ SyncQueue \/ HeartbeatQueue \/ \E k \in Conns : ResponseQueue(k)
  <2>1. \E s \in Senders : SendQueue(s)
    BY <1>7, Zenon DEF KeyQueue, SyncQueue, HeartbeatQueue, ResponseQueue, Senders
  <2>2. UNCHANGED <<wr, item>>
    BY <1>7, Zenon DEF KeyQueue, SyncQueue, HeartbeatQueue, ResponseQueue, writer
  <2> QED
    BY <2>1, <2>2, QueueTravels, Zenon
<1>8. CASE \E k \in Conns : WriteTake(k)
  <2> PICK k \in Conns : WriteTake(k)
    BY <1>8, Zenon
  <2>1. from[k] \in Conns
    <3>1. wr[k] = "select" /\ from[k] \in Conns \cup {None}
      BY Zenon DEF WriteTypes, WriteTake
    <3>2. from[k] # None
      BY <3>1, Zenon DEF Sealed
    <3> QED
      BY <3>1, <3>2, Zenon
  <2>2. queue[from[k]] \in Seq(Frames) /\ queue[from[k]] # <<>>
    BY <2>1, Zenon DEF SendTypes, WriteTake
  <2>3. item'[k] = queue[from[k]][1] /\ 1 \in 1 .. Len(queue[from[k]])
    BY <2>2 DEF WriteTypes, WriteTake
  <2>4. \A j \in Conns : j # k => wr'[j] = wr[j] /\ item'[j] = item[j]
    BY Zenon DEF WriteTypes, WriteTake
  <2>5. \A i \in 1 .. Len(Tail(queue[from[k]])) :
          /\ i + 1 \in 1 .. Len(queue[from[k]])
          /\ Tail(queue[from[k]])[i] = queue[from[k]][i + 1]
    BY <2>2
  <2>6. /\ queue'[from[k]] = Tail(queue[from[k]])
        /\ \A j \in Conns : j # from[k] => queue'[j] = queue[j]
    BY <2>1, Zenon DEF SendTypes, WriteTake
  <2>7. ASSUME NEW j \in Conns, NEW i \in 1 .. Len(queue'[j]), queue'[j][i] = f
        PROVE  Travels(f)
    <3>1. CASE j = from[k]
      BY <2>1, <2>5, <2>6, <2>7, <3>1, ZenonT(30) DEF Travels
    <3>2. CASE j # from[k]
      BY <2>6, <2>7, <3>2, Zenon DEF Travels
    <3> QED
      BY <3>1, <3>2, Zenon
  <2>8. ASSUME NEW j \in Conns, wr'[j] = "write", item'[j] = f
        PROVE  Travels(f)
    <3>1. CASE j = k
      BY <2>1, <2>3, <2>8, <3>1, Zenon DEF Travels
    <3>2. CASE j # k
      BY <2>4, <2>8, <3>2, Zenon DEF Travels
    <3> QED
      BY <3>1, <3>2, Zenon
  <2>9. out' = out
    BY Zenon DEF WriteTake
  <2> QED
    BY <2>7, <2>8, <2>9, Zenon DEF Travels
<1>9. CASE \E k \in Conns :
             WriteSelect(k) \/ WriteReturn(k) \/ WriteMessage(k) \/ WriteError(k)
  <2>1. UNCHANGED <<out, queue>>
    BY <1>9, Zenon DEF WriteSelect, WriteReturn, WriteMessage, WriteError
  <2>2. \A j \in Conns : wr'[j] = "write" => wr[j] = "write" /\ item'[j] = item[j]
    BY <1>9, ZenonT(30) DEF WriteTypes, WriteSelect, WriteReturn, WriteMessage, WriteError
  <2> QED
    BY <2>1, <2>2, Zenon DEF Travels
<1> QED
  BY <1>1, <1>2, <1>3, <1>4, <1>5, <1>6, <1>7, <1>8, <1>9, ZenonT(60)
  DEF Next, RunStep, readLoop, writeLoop, vars, writer, RunTop, connectErr, Backoff,
      handleKeyAckPayload, KeyTimeout, KeyFail, WaitRead, ReadMessage, Decode,
      handleKeyAck, ReadError, CloseConnDone, UnsetConn, CloseConn, Close,
      CloseSocket, CenterAck, CenterCommand, Break, CalmDown

(* What arrives was on its way, or the center has just sent it: an answer  *)
(* to the key message in clear, a command sealed.                          *)
LEMMA ArrivalStep ==
  ASSUME ReadTypes, NetTypes, Held, [Next]_vars,
         NEW k \in Conns, NEW f, Arrives(k, f)'
  PROVE  \/ Arrives(k, f)
         \/ f.kind = "nack"
         \/ f.kind = "ack" /\ cen'[k] = "sealed"
         \/ f.kind = "cmd" /\ f.key = k
<1> DEFINE Sent == \/ f.kind = "nack"
                   \/ f.kind = "ack" /\ cen'[k] = "sealed"
                   \/ f.kind = "cmd" /\ f.key = k
<1> SUFFICES Arrives(k, f) \/ Sent
  BY Zenon
<1>1. CASE /\ inbox'[k] = inbox[k] \/ inbox'[k] = <<>>
           /\ rd'[k] \in {"decode", "ack"} => rd[k] \in {"decode", "ack"} /\ hold'[k] = hold[k]
  <2>1. ASSUME inbox'[k] = <<>>, NEW i \in 1 .. Len(inbox'[k]) PROVE FALSE
    BY <2>1
  <2> QED
    BY <1>1, <2>1, Zenon DEF Arrives
<1>2. CASE UNCHANGED <<rd, hold, inbox>>
  BY <1>1, <1>2, Zenon
<1>3. ASSUME NEW j \in Conns, ReadMessage(j) PROVE Arrives(k, f)
  <2>1. CASE j # k
    <3>1. rd'[k] = rd[k] /\ hold'[k] = hold[k] /\ inbox'[k] = inbox[k]
      BY <1>3, <2>1, Zenon DEF ReadTypes, NetTypes, ReadMessage
    <3> QED
      BY <3>1, Zenon DEF Arrives
  <2>2. CASE j = k
    <3>1. /\ inbox[k] \in Seq(Inbound) /\ inbox[k] # <<>>
          /\ hold'[k] = Head(inbox[k]) /\ inbox'[k] = Tail(inbox[k])
      BY <1>3, <2>2, Zenon DEF ReadTypes, NetTypes, ReadMessage
    <3>2. hold'[k] = inbox[k][1] /\ 1 \in 1 .. Len(inbox[k])
      BY <3>1
    <3>3. \A i \in 1 .. Len(inbox'[k]) :
            i + 1 \in 1 .. Len(inbox[k]) /\ inbox'[k][i] = inbox[k][i + 1]
      BY <3>1
    <3> QED
      BY <3>2, <3>3, Zenon DEF Arrives
  <2> QED
    BY <2>1, <2>2, Zenon
<1>4. ASSUME NEW j \in Conns, Decode(j) PROVE Arrives(k, f)
  BY <1>4, Zenon DEF ReadTypes, Decode, net, Arrives
<1>5. ASSUME NEW j \in Conns,
             \/ handleKeyAck(j) \/ sendResponse(j) \/ ResponseQueue(j) \/ ReadError(j)
             \/ CloseConnDone(j) \/ UnsetConn(j)
      PROVE  Arrives(k, f)
  <2>1. inbox' = inbox /\ (hold' = hold \/ hold' = [hold EXCEPT ![j] = None])
    BY <1>5, Zenon DEF handleKeyAck, sendResponse, ResponseQueue, ReadError,
       CloseConnDone, UnsetConn, net
  <2>2. \E p \in {"read", "queue", "close", "unset", "shut"} : rd' = [rd EXCEPT ![j] = p]
    BY <1>5, Zenon DEF handleKeyAck, sendResponse, ResponseQueue, ReadError,
       CloseConnDone, UnsetConn
  <2>3. rd'[k] \in {"decode", "ack"} => rd[k] \in {"decode", "ack"} /\ hold'[k] = hold[k]
    BY <2>1, <2>2, Zenon DEF ReadTypes
  <2> QED
    BY <2>1, <2>3, Zenon DEF Arrives
<1>6. ASSUME NEW j \in Conns, CloseConn(j) PROVE Arrives(k, f)
  <2>1. /\ inbox'[k] = inbox[k] \/ inbox'[k] = <<>>
        /\ rd'[k] \in {"decode", "ack"} => rd[k] \in {"decode", "ack"}
        /\ hold' = hold
    BY <1>6, Zenon DEF ReadTypes, NetTypes, CloseConn
  <2>2. ASSUME inbox'[k] = <<>>, NEW i \in 1 .. Len(inbox'[k]) PROVE FALSE
    BY <2>2
  <2> QED
    BY <2>1, <2>2, Zenon DEF Arrives
<1>7. ASSUME WaitRead \/ \E j \in Conns : connect(j) PROVE Arrives(k, f)
  <2>1. /\ UNCHANGED <<hold, inbox>>
        /\ \E j : rd' = [rd EXCEPT ![j] = "off"] \/ rd' = [rd EXCEPT ![j] = "read"]
    BY <1>7, Zenon DEF WaitRead, connect, net
  <2>2. rd'[k] \in {"decode", "ack"} => rd'[k] = rd[k]
    BY <2>1, Zenon DEF ReadTypes
  <2> QED
    BY <2>1, <2>2, Zenon DEF Arrives
<1>8. ASSUME NEW j \in Conns, NEW g \in Inbound, Deliver(j, g), UNCHANGED <<rd, hold>>
      PROVE  Arrives(k, f) \/ (j = k /\ f = g)
  <2>1. CASE j # k
    BY <1>8, <2>1, Zenon DEF NetTypes, Deliver, Arrives
  <2>2. CASE j = k
    <3>1. inbox[k] \in Seq(Inbound) /\ inbox'[k] = Append(inbox[k], g)
      BY <1>8, <2>2, Zenon DEF NetTypes, Deliver
    <3>2. Longer(inbox'[k], inbox[k], g)
      BY <1>8, <3>1, Appended, Zenon
    <3> QED
      BY <1>8, <2>2, <3>2, Zenon DEF Longer, Arrives
  <2> QED
    BY <2>1, <2>2, Zenon
<1>9. ASSUME NEW j \in Conns, CenterAck(j) PROVE Arrives(k, f) \/ Sent
  <2>1. UNCHANGED <<rd, hold>>
    BY <1>9, Zenon DEF CenterAck, reader
  <2>2. CASE /\ Deliver(j, [kind |-> "ack", key |-> None])
             /\ cen' = [cen EXCEPT ![j] = "sealed"]
    <3>1. [kind |-> "ack", key |-> None] \in Inbound
      BY Zenon DEF Inbound
    <3>2. Arrives(k, f) \/ (j = k /\ f = [kind |-> "ack", key |-> None])
      BY <1>8, <2>1, <2>2, <3>1, Zenon
    <3>3. cen'[j] = "sealed"
      BY <2>2, Zenon DEF NetTypes
    <3> QED
      BY <3>2, <3>3
  <2>3. CASE Deliver(j, [kind |-> "nack", key |-> None])
    <3>1. [kind |-> "nack", key |-> None] \in Inbound
      BY Zenon DEF Inbound
    <3>2. Arrives(k, f) \/ f = [kind |-> "nack", key |-> None]
      BY <1>8, <2>1, <2>3, <3>1, Zenon
    <3> QED
      BY <3>2
  <2> QED
    BY <1>9, <2>2, <2>3, Zenon DEF CenterAck
<1>10. ASSUME NEW j \in Conns, CenterCommand(j) PROVE Arrives(k, f) \/ Sent
  <2>1. UNCHANGED <<rd, hold>> /\ Deliver(j, [kind |-> "cmd", key |-> j])
    BY <1>10, Zenon DEF CenterCommand, reader
  <2>2. [kind |-> "cmd", key |-> j] \in Inbound
    BY Zenon DEF Inbound
  <2>3. Arrives(k, f) \/ (j = k /\ f = [kind |-> "cmd", key |-> j])
    BY <1>8, <2>1, <2>2, Zenon
  <2> QED
    BY <2>3
<1> QED
  BY <1>2, <1>3, <1>4, <1>5, <1>6, <1>7, <1>9, <1>10, ZenonT(60)
  DEF Next, RunStep, readLoop, writeLoop, vars, reader, net, RunTop, connectErr, Backoff,
      MakeKeyExchange, KeyQueue, handleKeyAckPayload, KeyTimeout, KeyFail, RequestSync,
      SyncQueue, WriteSelect, WriteTake, WriteReturn, WriteMessage, WriteError,
      Heartbeat, HeartbeatQueue, Close, CloseSocket, Break, CalmDown
(* The session key changes in two places: Run forgets it while there is no *)
(* connection, and takes the one the center has agreed to.                 *)
LEMMA KeyStep ==
  ASSUME [Next]_vars
  PROVE  \/ encrypted' = encrypted /\ (run' = "onConnect" => run = "onConnect")
         \/ run = "top" /\ run' # "onConnect" /\ UNCHANGED rd
         \/ /\ AnswerGiven /\ keyX.kind = "ack" /\ encrypted' = keyX.from
<1>1. CASE UNCHANGED <<run, encrypted, sendCh, keyX>>
  BY <1>1, Zenon
<1>2. CASE RunTop
  BY <1>2, Zenon DEF RunTop, reader
<1>3. CASE handleKeyAckPayload
  BY <1>3, Zenon DEF handleKeyAckPayload, AnswerGiven
<1>4. CASE connectErr \/ Backoff \/ MakeKeyExchange \/ KeyQueue \/ KeyTimeout \/ KeyFail
           \/ RequestSync \/ SyncQueue \/ WaitRead \/ \E k \in Conns : connect(k)
  BY <1>4, ZenonT(30) DEF connectErr, Backoff, MakeKeyExchange, KeyQueue, KeyTimeout,
     KeyFail, RequestSync, SyncQueue, WaitRead, connect, client
<1>5. CASE \E k \in Conns : handleKeyAck(k)
  BY <1>5, Zenon DEF handleKeyAck, client
<1> QED
  BY <1>1, <1>2, <1>3, <1>4, <1>5, KeyedFrame, Zenon DEF RunStep

(* A command's handler is called from Decode only. *)
LEMMA CommandStep ==
  ASSUME ReadTypes, [Next]_vars, NEW k \in Conns, rd'[k] = "cmd"
  PROVE  \/ rd[k] = "cmd"
         \/ rd[k] = "decode" /\ hold[k].kind = "cmd" /\ hold[k].key = encrypted
<1>1. CASE UNCHANGED rd
  BY <1>1, Zenon
<1>2. ASSUME NEW j \in Conns, Decode(j)
      PROVE  \/ rd[k] = "cmd"
             \/ rd[k] = "decode" /\ hold[k].kind = "cmd" /\ hold[k].key = encrypted
  <2>1. j # k => rd'[k] = rd[k]
    BY <1>2, Zenon DEF ReadTypes, Decode
  <2>2. j = k => rd'[k] = IF hold[k].key = encrypted
                          THEN IF hold[k].kind = "cmd" THEN "cmd" ELSE "ack"
                          ELSE "read"
    BY <1>2, Zenon DEF ReadTypes, Decode
  <2>3. rd[j] = "decode"
    BY <1>2, Zenon DEF Decode
  <2> QED
    BY <2>1, <2>2, <2>3
<1>3. ASSUME NEW j, NEW p \in {"off", "read", "decode", "queue", "close", "unset", "shut", "done"},
             rd' = [rd EXCEPT ![j] = p]
      PROVE  rd[k] = "cmd"
  BY <1>3, Zenon DEF ReadTypes
<1>4. ASSUME NEW j \in Conns, readLoop(j), ~Decode(j)
      PROVE  \E p \in {"off", "read", "decode", "queue", "close", "unset", "shut", "done"} :
               rd' = [rd EXCEPT ![j] = p]
  BY <1>4, Zenon DEF readLoop, ReadMessage, handleKeyAck, sendResponse, ResponseQueue,
     ReadError, CloseConnDone, UnsetConn, CloseConn
<1>5. CASE WaitRead
  BY <1>3, <1>5, Zenon DEF WaitRead
<1>6. CASE \E j \in Conns : connect(j)
  BY <1>3, <1>6, Zenon DEF connect
<1> QED
  BY <1>1, <1>2, <1>3, <1>4, <1>5, <1>6, ReaderFrame, Zenon

(* Every step keeps Ciphered. *)
LEMMA CipheredStep ==
  ASSUME IInv, Ciphered, [Next]_vars
  PROVE  Ciphered'
<1>1. None \notin Conns
  BY WsAssumption, Zenon
<1>2. AnswerGiven => keyX.from \in Conns
  BY Zenon DEF IInv, RunTypes, AnswerGiven
<1>3. run = "top" => \A k \in Conns : rd[k] = "off"
  BY Zenon DEF IInv, Owned, Idle
<1>4. run' = "onConnect" => encrypted' # None
  BY <1>1, <1>2, KeyStep, Zenon DEF Ciphered
<1>5. ASSUME NEW k \in Conns, rd'[k] = "cmd" PROVE encrypted' # None
  <2>1. CASE rd[k] = "cmd"
    BY <1>1, <1>2, <1>3, <2>1, KeyStep, Zenon DEF Ciphered
  <2>2. CASE rd[k] = "decode" /\ hold[k].kind = "cmd" /\ hold[k].key = encrypted
    <3>1. hold[k] \in Inbound /\ Arrives(k, hold[k])
      BY <2>2, Zenon DEF IInv, Held, Arrives
    <3>2. encrypted # None
      BY <2>2, <3>1, Zenon DEF Ciphered
    <3> QED
      BY <1>1, <1>2, <1>3, <2>2, <3>2, KeyStep, Zenon
  <2> QED
    BY <1>5, <2>1, <2>2, CommandStep, Zenon DEF IInv
<1>6. ASSUME NEW k \in Conns, NEW f \in Inbound, Arrives(k, f)', f.kind = "cmd"
      PROVE  f.key # None
  <2>1. \/ Arrives(k, f)
        \/ f.kind = "nack"
        \/ f.kind = "ack" /\ cen'[k] = "sealed"
        \/ f.kind = "cmd" /\ f.key = k
    BY <1>6, ArrivalStep, Zenon DEF IInv
  <2>2. Arrives(k, f) \/ f.key = k
    BY <1>6, <2>1
  <2> QED
    BY <1>1, <1>6, <2>2, Zenon DEF Ciphered
<1>7. ASSUME NEW f \in Frames, Travels(f)', f.kind \in {"sync", "response"}
      PROVE  f.key # None
  <2>1. \/ Travels(f)
        \/ /\ f.key = encrypted
           /\ f.kind = "sync" => run = "onConnect"
           /\ f.kind = "response" => \E k \in Conns : rd[k] = "cmd"
    BY <1>7, TravelStep, Zenon DEF IInv
  <2> QED
    BY <1>7, <2>1, Zenon DEF Ciphered
<1> QED
  BY <1>4, <1>5, <1>6, <1>7, Zenon DEF Ciphered

(* Only connect brings a connection to life. *)
LEMMA LiveStep ==
  ASSUME ReadTypes, [Next]_vars, NEW k \in Conns, rd'[k] \in Serving \cup {"shut"}
  PROVE  rd[k] \in Serving \cup {"shut"} \/ connect(k)
<1>1. CASE UNCHANGED rd
  BY <1>1, Zenon
<1>2. CASE WaitRead
  <2>1. rd'[k] = rd[k] \/ rd'[k] = "off"
    BY <1>2, Zenon DEF ReadTypes, WaitRead
  <2> QED
    BY <2>1, Zenon DEF Serving, Reading
<1>3. ASSUME NEW j \in Conns, connect(j), j # k PROVE rd'[k] = rd[k]
  BY <1>3, Zenon DEF ReadTypes, connect
<1>4. ASSUME NEW j \in Conns, readLoop(j) PROVE rd[k] \in Serving \cup {"shut"}
  <2>1. rd[j] \in Serving \cup {"shut"}
    BY <1>4, Zenon DEF readLoop, ReadMessage, Decode, handleKeyAck, sendResponse,
       ResponseQueue, ReadError, CloseConnDone, UnsetConn, CloseConn, Serving, Reading
  <2>2. \E p : rd' = [rd EXCEPT ![j] = p]
    BY <1>4, Zenon DEF readLoop, ReadMessage, Decode, handleKeyAck, sendResponse,
       ResponseQueue, ReadError, CloseConnDone, UnsetConn, CloseConn
  <2>3. j # k => rd'[k] = rd[k]
    BY <2>2, Zenon DEF ReadTypes
  <2> QED
    BY <2>1, <2>3, Zenon
<1> QED
  BY <1>1, <1>2, <1>3, <1>4, ReaderFrame, Zenon

(* The center does not go back on its word while the connection lives: the *)
(* key message that would restart the handshake is never sent twice.       *)
LEMMA WordKept ==
  ASSUME ReadTypes, NetTypes, Owned, Asked, [Next]_vars,
         NEW k \in Conns, rd'[k] \in Serving \cup {"shut"}, cen[k] = "sealed"
  PROVE  cen'[k] = "sealed"
<1>1. CASE UNCHANGED cen
  BY <1>1, Zenon
<1>2. ASSUME NEW j \in Conns, CloseConn(j) PROVE cen'[k] = "sealed"
  <2>1. j # k
    BY <1>2, Zenon DEF ReadTypes, CloseConn, Serving, Reading
  <2> QED
    BY <1>2, <2>1, Zenon DEF NetTypes, CloseConn
<1>3. ASSUME NEW j \in Conns, WriteMessage(j) PROVE cen'[k] = "sealed"
  <2>1. CASE socket[j] # "open" \/ item[j].kind # "key"
    BY <1>1, <1>3, <2>1, Zenon DEF WriteMessage, Receive
  <2>2. CASE socket[j] = "open" /\ item[j].kind = "key"
    <3>1. j = sendCh /\ KeyTaken(j)
      BY <1>3, <2>2, Zenon DEF Owned, Serving, Reading, KeyTaken, WriteMessage
    <3>2. j # k
      BY <3>1, Zenon DEF Asked
    <3> QED
      BY <1>3, <2>2, <3>2, Zenon DEF NetTypes, WriteMessage, Receive
  <2> QED
    BY <2>1, <2>2, Zenon
<1>4. ASSUME NEW j \in Conns, CenterAck(j) PROVE cen'[k] = "sealed"
  <2>1. j # k
    BY <1>4, Zenon DEF CenterAck
  <2> QED
    BY <1>4, <2>1, Zenon DEF NetTypes, CenterAck
<1> QED
  BY <1>1, <1>2, <1>3, <1>4, ZenonT(60)
  DEF Next, RunStep, readLoop, writeLoop, vars, net, RunTop, connect, connectErr,
      Backoff, MakeKeyExchange, KeyQueue, handleKeyAckPayload, KeyTimeout, KeyFail,
      RequestSync, SyncQueue, WaitRead, ReadMessage, Decode, handleKeyAck,
      sendResponse, ResponseQueue, ReadError, CloseConnDone, UnsetConn, WriteSelect,
      WriteTake, WriteReturn, WriteError, Heartbeat, HeartbeatQueue, Close,
      CloseSocket, CenterCommand, Break, CalmDown

(* A new connection starts from nothing: no key, no answer, no frame of an *)
(* earlier one.                                                            *)
LEMMA FreshConnection ==
  ASSUME IInv, Answered, NEW k \in Conns, connect(k)
  PROVE  ~Accepted(k)'
<1>1. None \notin Conns
  BY WsAssumption, Zenon
<1>2. encrypted' # k
  BY <1>1, Zenon DEF IInv, Keyed, connect
<1>3. ~AnswerGiven'
  BY Zenon DEF AnswerGiven, connect
<1>4. ASSUME NEW f, Arrives(k, f)' PROVE FALSE
  <2>1. inbox'[k] = <<>> /\ rd'[k] = "read"
    BY Zenon DEF IInv, ReadTypes, Answered, connect, Free
  <2>2. \A i \in 1 .. Len(inbox'[k]) : FALSE
    BY <2>1
  <2> QED
    BY <1>4, <2>1, <2>2, Zenon DEF Arrives
<1>5. ASSUME NEW f, Travels(f)', f.key = k PROVE FALSE
  <2>1. \A s \in Senders : out'[s] # None => out'[s].frame.key # k
    <3>1. out' = out /\ \A s \in Senders : out[s] # None => out[s].ch # k
      BY Zenon DEF connect, Free
    <3>2. \A s \in Senders : out[s] # None => out[s].frame.key \in {None, out[s].ch}
      BY Zenon DEF IInv, Sealed
    <3>3. ASSUME NEW s \in Senders, out[s] # None PROVE out[s].frame.key # k
      BY <1>1, <3>1, <3>2, <3>3, Zenon
    <3> QED
      BY <3>1, <3>3, Zenon
  <2>2. \A i \in 1 .. Len(queue'[k]) : FALSE
    <3>1. queue'[k] = <<>>
      BY Zenon DEF IInv, SendTypes, connect
    <3> QED
      BY <3>1
  <2>3. \A j \in Conns : j # k => \A i \in 1 .. Len(queue'[j]) : queue'[j][i].key # k
    <3>1. \A j \in Conns : j # k => queue'[j] = queue[j]
      BY Zenon DEF IInv, SendTypes, connect
    <3>2. \A j \in Conns : \A i \in 1 .. Len(queue[j]) : queue[j][i].key \in {None, j}
      BY Zenon DEF IInv, Sealed
    <3>3. ASSUME NEW j \in Conns, j # k, NEW i \in 1 .. Len(queue[j])
          PROVE  queue[j][i].key # k
      BY <1>1, <3>2, <3>3, Zenon
    <3> QED
      BY <3>1, <3>3, Zenon
  <2>4. \A j \in Conns : wr'[j] = "write" => item'[j].key # k
    <3>1. \A j \in Conns : wr'[j] = "write" => wr[j] = "write" /\ item'[j] = item[j]
      BY Zenon DEF IInv, WriteTypes, connect
    <3>2. \A j \in Conns : wr[j] = "write" => item[j].key \in {None, from[j]} /\ from[j] # k
      BY Zenon DEF IInv, Sealed, connect, Free
    <3> QED
      BY <1>1, <3>1, <3>2, Zenon
  <2> QED
    BY <1>5, <2>1, <2>2, <2>3, <2>4, Zenon DEF Travels
<1> QED
  BY <1>2, <1>3, <1>4, <1>5, Zenon DEF Accepted

(* Nothing shows acceptance that the center did not show before, or has    *)
(* not just given.                                                         *)
LEMMA AcceptedStep ==
  ASSUME IInv, [Next]_vars, NEW k \in Conns, rd[k] \in Serving \cup {"shut"}, Accepted(k)'
  PROVE  Accepted(k) \/ cen'[k] = "sealed"
<1>1. None \notin Conns
  BY WsAssumption, Zenon
<1>2. rd[k] # "off" /\ k = sendCh /\ run \notin Idle
  BY Zenon DEF IInv, Owned, Serving, Reading
<1>3. CASE encrypted' = k
  BY <1>2, <1>3, KeyStep, Zenon DEF Idle, Accepted
<1>4. CASE AnswerGiven' /\ keyX'.kind = "ack"
  <2>1. CASE AnswerGiven /\ keyX' = keyX
    BY <1>4, <2>1, Zenon DEF Accepted
  <2>2. CASE \E j \in Conns : handleKeyAck(j)
    <3> PICK j \in Conns : handleKeyAck(j)
      BY <2>2, Zenon
    <3>1. rd[j] = "ack" /\ keyX' = [kind |-> hold[j].kind, from |-> j]
      BY Zenon DEF handleKeyAck
    <3>2. j = k /\ hold[j] \in Inbound
      BY <1>2, <3>1, Zenon DEF IInv, Owned, Held
    <3>3. hold[j].kind = "ack"
      BY <1>4, <3>1
    <3> QED
      BY <3>1, <3>2, <3>3, Zenon DEF Arrives, Accepted
  <2>3. CASE UNCHANGED <<run, encrypted, sendCh, keyX>>
    BY <1>4, <2>1, <2>3, Zenon DEF AnswerGiven
  <2>4. CASE RunStep
    <3>1. keyX' = None \/ run' = "keyX" \/ (run # "keyX" /\ keyX' = keyX)
      BY <2>4, ZenonT(30) DEF RunStep, RunTop, connect, connectErr, Backoff,
         MakeKeyExchange, KeyQueue, handleKeyAckPayload, KeyTimeout, KeyFail,
         RequestSync, SyncQueue, WaitRead, keys
    <3> QED
      BY <1>4, <2>1, <3>1, Zenon DEF AnswerGiven
  <2> QED
    BY <2>2, <2>3, <2>4, KeyedFrame, Zenon
<1>5. ASSUME NEW f \in Inbound, Arrives(k, f)', f.kind = "ack"
      PROVE  Accepted(k) \/ cen'[k] = "sealed"
  <2>1. \/ Arrives(k, f)
        \/ f.kind = "nack"
        \/ f.kind = "ack" /\ cen'[k] = "sealed"
        \/ f.kind = "cmd" /\ f.key = k
    BY <1>5, ArrivalStep, Zenon DEF IInv
  <2>2. Arrives(k, f) \/ cen'[k] = "sealed"
    BY <1>5, <2>1
  <2> QED
    BY <1>5, <2>2, Zenon DEF Accepted
<1>6. ASSUME NEW f \in Frames, Travels(f)', f.key = k PROVE Accepted(k)
  <2>1. Travels(f) \/ f.key = encrypted
    BY <1>6, TravelStep, Zenon DEF IInv
  <2> QED
    BY <1>6, <2>1, Zenon DEF Accepted
<1> QED
  BY <1>3, <1>4, <1>5, <1>6, Zenon DEF Accepted

(* Every step keeps Agreed. *)
LEMMA AgreedStep ==
  ASSUME IInv, Asked, Answered, Agreed, [Next]_vars
  PROVE  Agreed'
<1> SUFFICES ASSUME NEW k \in Conns, rd'[k] \in Serving \cup {"shut"}, Accepted(k)'
             PROVE  cen'[k] = "sealed"
  BY Zenon DEF Agreed
<1>1. rd[k] \in Serving \cup {"shut"}
  BY LiveStep, FreshConnection, Zenon DEF IInv
<1>2. Accepted(k) \/ cen'[k] = "sealed"
  BY <1>1, AcceptedStep, Zenon
<1>3. Accepted(k) => cen[k] = "sealed"
  BY <1>1, Zenon DEF Agreed
<1> QED
  BY <1>2, <1>3, WordKept, Zenon DEF IInv

(* The sync request and the responses go out encrypted, with the key of    *)
(* the connection they are written to, and the center has accepted that    *)
(* key before it reads them.                                               *)
THEOREM TrafficSealed == Spec => []SealedTraffic
<1>1. Init => Ciphered /\ Agreed
  <2> SUFFICES ASSUME Init PROVE Ciphered /\ Agreed
    BY Zenon
  <2>1. \A k \in Conns : rd[k] = "off" /\ wr[k] = "off" /\ queue[k] = <<>> /\ inbox[k] = <<>>
    BY Zenon DEF Init
  <2>2. \A i \in 1 .. Len(<<>>) : FALSE
    OBVIOUS
  <2>3. (\A f : ~Travels(f)) /\ \A k \in Conns : \A f : ~Arrives(k, f)
    BY <2>1, <2>2, Zenon DEF Init, Travels, Arrives
  <2> QED
    BY <2>1, <2>3, Zenon DEF Init, Ciphered, Agreed, Serving, Reading
<1>2. IInv /\ Asked /\ Answered /\ Ciphered /\ Agreed /\ [Next]_vars
        => (Ciphered /\ Agreed)'
  BY CipheredStep, AgreedStep, Zenon
<1>3. ASSUME IInv, Ciphered, Agreed PROVE SealedTraffic
  <2> SUFFICES ASSUME NEW k \in Conns, wr[k] = "write", socket[k] = "open",
                      item[k].kind \in {"sync", "response"}
               PROVE  item[k].key = k /\ cen[k] = "sealed"
    BY Zenon DEF SealedTraffic
  <2>1. k = sendCh /\ rd[k] \in Serving \cup {"shut"}
    BY <1>3, Zenon DEF IInv, Owned, Serving, Reading
  <2>2. item[k] \in Frames /\ item[k].key \in {None, k}
    BY <1>3, <2>1, Zenon DEF IInv, Sealed
  <2>3. Travels(item[k])
    BY Zenon DEF Travels
  <2>4. item[k].key = k
    BY <1>3, <2>2, <2>3, Zenon DEF Ciphered
  <2>5. Accepted(k)
    BY <2>2, <2>3, <2>4, Zenon DEF Accepted
  <2> QED
    BY <1>3, <2>1, <2>4, <2>5, Zenon DEF Agreed
<1> QED
  BY <1>1, <1>2, <1>3, ConnectionInvariant, PTL DEF Spec
=============================================================================

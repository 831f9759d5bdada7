------------------------------ MODULE WsClient ------------------------------
(***************************************************************************)
(* The agent's connection to the center: ws.Client (internal/ws/client.go) *)
(* with the key exchange the handler runs over it                          *)
(* (internal/handler/handler.go), the sync request made on every connect   *)
(* and the heartbeat of the metrics collector.                             *)
(*                                                                         *)
(* The processes are the goroutines: Run, one readLoop and one writeLoop   *)
(* per connection, the collector, and main, which calls Close.  A step is  *)
(* what a goroutine does between two points where another can interfere: a *)
(* section under c.mu, an operation on a Go channel or on the socket.      *)
(*                                                                         *)
(* Abstractions:                                                           *)
(*  - connections are recycled: Dial takes a free one, so Conns bounds the *)
(*    connections in use at a time and not the number of reconnects;       *)
(*  - a session key is the connection it was negotiated on;                *)
(*  - time is left out: a timer may fire whenever it is running, but once  *)
(*    the network is calm only when what it waits for is not coming;       *)
(*  - a successful ping changes nothing, so only a failed one is a step.   *)
(* The center and the network are external: what this code relies on.      *)
(***************************************************************************)
EXTENDS Naturals, Sequences

CONSTANTS
  Conns,      \* connections
  None,       \* Go's nil
  BufCap,     \* capacity of sendCh (256 in the code)
  InboxCap,   \* frames on their way to the agent
  FaultKinds  \* what may go wrong in this instance

ASSUME WsAssumption ==
  /\ None \notin Conns
  /\ BufCap \in Nat \ {0} /\ InboxCap \in Nat \ {0}

Kinds == {"key", "sync", "heartbeat", "response"}
Senders == {"run", "read", "collect"}
Frames == [kind : Kinds, key : Conns \cup {None}]
Inbound == [kind : {"ack", "nack", "cmd"}, key : Conns \cup {None}]

VARIABLES
  run,       \* Run: where it is
  conn,      \* c.conn
  connDone,  \* c.connDone
  sendCh,    \* c.sendCh, and the connection Run works on
  encrypted, \* c.encrypted and c.aead: the key in use, or None
  done,      \* c.done is closed
  mainPc,    \* main: "up", "closing" (between the two halves of Close), "down"
  clientPub, \* c.serverPub is set
  storePub,  \* the store has the server key
  keyX,      \* the buffered message of h.pendingKeyX, or None
  rd,        \* readLoop of each connection
  hold,      \* the frame it has read
  wr,        \* writeLoop of each connection
  item,      \* the frame it is writing
  from,      \* the channel its select waits on
  queue,     \* contents of each connection's sendCh
  closes,    \* how often each connection's connDone was closed
  out,       \* a Send between its locked part and its enqueue
  socket,    \* each connection's socket: "open", "broken" or "closed"
  inbox,     \* frames the center sent, not read yet
  cen,       \* the center's view of the handshake
  got,       \* connections on which the center received the sync request
  calm       \* nothing fails any more

client == <<conn, connDone, sendCh, encrypted>>
keys == <<clientPub, storePub, keyX>>
reader == <<rd, hold>>
writer == <<wr, item, from>>
net == <<socket, inbox, cen, got>>
vars == <<run, conn, connDone, sendCh, encrypted, done, mainPc, clientPub, storePub,
          keyX, rd, hold, wr, item, from, queue, closes, out, socket, inbox, cen,
          got, calm>>

Fault(k) == k \in FaultKinds /\ ~calm

(* The agent starts with or without the server key in its store. *)
Init ==
  /\ run = "top" /\ conn = None /\ connDone = None
  /\ sendCh = None /\ encrypted = None
  /\ done = FALSE /\ mainPc = "up"
  /\ storePub \in BOOLEAN /\ clientPub = storePub
  /\ keyX = None
  /\ rd = [k \in Conns |-> "off"] /\ hold = [k \in Conns |-> None]
  /\ wr = [k \in Conns |-> "off"] /\ item = [k \in Conns |-> None]
  /\ from = [k \in Conns |-> None]
  /\ queue = [k \in Conns |-> <<>>] /\ closes = [k \in Conns |-> 0]
  /\ out = [s \in Senders |-> None]
  /\ socket = [k \in Conns |-> "closed"] /\ inbox = [k \in Conns |-> <<>>]
  /\ cen = [k \in Conns |-> "hello"] /\ got = {}
  /\ calm = FALSE

-----------------------------------------------------------------------------
(* Seeded fault: no check for a connection. *)
SendLockUnchecked(s, kind) ==
  out' = [out EXCEPT ![s] = [ch |-> sendCh,
                             frame |-> [kind |-> kind, key |-> encrypted]]]

(* Send.  The frame is encoded, and the channel chosen, under c.mu; it is  *)
(* queued after the lock is released, unless the buffer is full.           *)
SendLock(s, kind) ==
  /\ conn # None
  /\ out' = [out EXCEPT ![s] = [ch |-> sendCh,
                                frame |-> [kind |-> kind, key |-> encrypted]]]

Full(s) == Len(queue[out[s].ch]) >= BufCap

SendQueue(s) ==
  /\ out[s] # None
  /\ queue' = IF Full(s) THEN queue
              ELSE [queue EXCEPT ![out[s].ch] = Append(@, out[s].frame)]
  /\ out' = [out EXCEPT ![s] = None]

-----------------------------------------------------------------------------
(* Run. *)

(* Seeded fault: the last session's key is kept. *)
RunTopKeepingKey ==
  /\ run = "top"
  /\ run' = IF done THEN "exit" ELSE "dial"
  /\ UNCHANGED <<client, done, mainPc, keys, reader, writer, queue, closes, out, net, calm>>

(* Seeded fault: c.done is not looked at. *)
RunTopForever ==
  /\ run = "top"
  /\ run' = "dial" /\ encrypted' = None
  /\ UNCHANGED <<conn, connDone, sendCh, done, mainPc, keys, reader, writer, queue,
                 closes, out, net, calm>>

RunTop ==
  /\ run = "top"
  /\ IF done
     THEN run' = "exit" /\ UNCHANGED encrypted
     ELSE run' = "dial" /\ encrypted' = None
  /\ UNCHANGED <<conn, connDone, sendCh, done, mainPc, keys, reader, writer, queue,
                 closes, out, net, calm>>

Free(k) ==
  /\ rd[k] = "off" /\ wr[k] = "off" /\ connDone # k
  /\ \A s \in Senders : out[s] # None => out[s].ch # k
  /\ \A j \in Conns : wr[j] # "off" => from[j] # k

connect(k) ==
  /\ run = "dial" /\ Free(k)
  /\ run' = "keyX"
  /\ closes' = [j \in Conns |-> IF j = k THEN 0
                                ELSE IF j = connDone THEN closes[j] + 1
                                ELSE closes[j]]
  /\ conn' = k /\ connDone' = k /\ sendCh' = k
  /\ queue' = [queue EXCEPT ![k] = <<>>]
  /\ wr' = [wr EXCEPT ![k] = "top"]
  /\ rd' = [rd EXCEPT ![k] = "read"]
  /\ socket' = [socket EXCEPT ![k] = "open"]
  /\ UNCHANGED <<encrypted, done, mainPc, keys, hold, item, from, out,
                 inbox, cen, got, calm>>

connectErr ==
  /\ run = "dial" /\ Fault("dial")
  /\ run' = "backoff"
  /\ UNCHANGED <<client, done, mainPc, keys, reader, writer, queue, closes, out, net, calm>>

Backoff ==
  /\ run = "backoff"
  /\ run' \in {"top"} \cup (IF done THEN {"exit"} ELSE {})
  /\ UNCHANGED <<client, done, mainPc, keys, reader, writer, queue, closes, out, net, calm>>

(* The key exchange: a fresh channel for the answer, then key.init or, if  *)
(* the client knows the server key, key.auth with the key of the store.    *)
MakeKeyExchange ==
  /\ run = "keyX"
  /\ keyX' = None
  /\ \/ /\ (clientPub => storePub) /\ SendLock("run", "key")
        /\ run' = "keyQueue"
     \/ /\ (clientPub /\ ~storePub) \/ conn = None
        /\ run' = "keyFail" /\ UNCHANGED out
  /\ UNCHANGED <<client, done, mainPc, clientPub, storePub, reader, writer, queue,
                 closes, net, calm>>

KeyQueue ==
  /\ run = "keyQueue"
  /\ run' = IF Full("run") THEN "keyFail" ELSE "keyWait"
  /\ SendQueue("run")
  /\ UNCHANGED <<client, done, mainPc, keys, reader, writer, closes, net, calm>>

(* Seeded fault: encryption is not switched on. *)
handleKeyAckPayloadClear ==
  /\ run = "keyWait" /\ keyX # None
  /\ keyX' = None
  /\ run' = IF keyX.kind = "ack" THEN "onConnect" ELSE "keyFail"
  /\ UNCHANGED <<client, done, mainPc, clientPub, storePub, reader, writer, queue,
                 closes, out, net, calm>>

handleKeyAckPayload ==
  /\ run = "keyWait" /\ keyX # None
  /\ keyX' = None
  /\ \/ /\ keyX.kind = "ack"
        /\ run' = "onConnect"
        /\ clientPub' = TRUE
        /\ storePub' \in {TRUE} \cup (IF Fault("store") THEN {storePub} ELSE {})
        /\ encrypted' = keyX.from
     \/ /\ keyX.kind = "nack"
        /\ run' = "keyFail"
        /\ UNCHANGED <<clientPub, storePub, encrypted>>
  /\ UNCHANGED <<conn, connDone, sendCh, done, mainPc, reader, writer, queue, closes,
                 out, net, calm>>

(* Fifteen seconds without an answer.  On a calm network that means none   *)
(* will come.                                                              *)
AckComing(k) ==
  \/ keyX # None \/ rd[k] = "ack"
  \/ hold[k] # None /\ hold[k].kind # "cmd"
  \/ \E i \in 1..Len(inbox[k]) : inbox[k][i].kind # "cmd"
  \/ socket[k] = "open" /\ cen[k] = "owed"
  \/ /\ socket[k] = "open" /\ wr[k] # "off"
     /\ \/ item[k] # None /\ item[k].kind = "key"
        \/ \E i \in 1..Len(queue[k]) : queue[k][i].kind = "key"

KeyTimeout ==
  /\ run = "keyWait"
  /\ Fault("late") \/ ~AckComing(sendCh)
  /\ run' = "keyFail"
  /\ UNCHANGED <<client, done, mainPc, keys, reader, writer, queue, closes, out, net, calm>>

(* Seeded fault: the connection is left open. *)
KeyFailOpen ==
  /\ run = "keyFail"
  /\ run' = "waitRead"
  /\ UNCHANGED <<client, done, mainPc, keys, reader, writer, queue, closes, out, net, calm>>

KeyFail ==
  /\ run = "keyFail"
  /\ socket' = IF conn = None THEN socket ELSE [socket EXCEPT ![conn] = "closed"]
  /\ run' = "waitRead"
  /\ UNCHANGED <<client, done, mainPc, keys, reader, writer, queue, closes, out,
                 inbox, cen, got, calm>>

(* onConnect: RequestSync, whose error is ignored. *)
RequestSync ==
  /\ run = "onConnect"
  /\ \/ SendLock("run", "sync") /\ run' = "syncQueue"
     \/ conn = None /\ run' = "waitRead" /\ UNCHANGED out
  /\ UNCHANGED <<client, done, mainPc, keys, reader, writer, queue, closes, net, calm>>

SyncQueue ==
  /\ run = "syncQueue"
  /\ SendQueue("run")
  /\ run' = "waitRead"
  /\ UNCHANGED <<client, done, mainPc, keys, reader, writer, closes, net, calm>>

(* Seeded fault: Run does not wait for readDone. *)
WaitReadNot ==
  /\ run = "waitRead"
  /\ run' = "top"
  /\ UNCHANGED <<client, done, mainPc, keys, reader, writer, queue, closes, out, net, calm>>

WaitRead ==
  /\ run = "waitRead"
  /\ rd[sendCh] = "done"
  /\ rd' = [rd EXCEPT ![sendCh] = "off"]
  /\ run' = "top"
  /\ UNCHANGED <<client, done, mainPc, keys, hold, writer, queue, closes,
                 out, net, calm>>
-----------------------------------------------------------------------------
(* readLoop. *)
ReadMessage(k) ==
  /\ rd[k] = "read" /\ inbox[k] # <<>>
  /\ hold' = [hold EXCEPT ![k] = Head(inbox[k])]
  /\ inbox' = [inbox EXCEPT ![k] = Tail(@)]
  /\ rd' = [rd EXCEPT ![k] = "decode"]
  /\ UNCHANGED <<run, client, done, mainPc, keys, writer, queue, closes,
                 out, socket, cen, got, calm>>

(* A sealed frame before encryption is on, or a clear one after, is        *)
(* dropped; anything else goes to its handler.                             *)
Decode(k) ==
  /\ rd[k] = "decode"
  /\ IF hold[k].key = encrypted
     THEN /\ rd' = [rd EXCEPT ![k] = IF hold[k].kind = "cmd" THEN "cmd" ELSE "ack"]
          /\ UNCHANGED hold
     ELSE /\ rd' = [rd EXCEPT ![k] = "read"]
          /\ hold' = [hold EXCEPT ![k] = None]
  /\ UNCHANGED <<run, client, done, mainPc, keys, writer, queue, closes, out, net, calm>>

(* Seeded fault: a channel without a buffer. *)
KeyXWaiting == run = "keyWait" /\ keyX = None

(* handleKeyInitAck, handleKeyAuthAck: ch <- msg, on a channel of capacity *)
(* one.                                                                    *)
KeyXHasRoom == keyX = None

handleKeyAck(k) ==
  /\ rd[k] = "ack" /\ KeyXHasRoom
  /\ keyX' = [kind |-> hold[k].kind, from |-> k]
  /\ rd' = [rd EXCEPT ![k] = "read"]
  /\ hold' = [hold EXCEPT ![k] = None]
  /\ UNCHANGED <<run, client, done, mainPc, clientPub, storePub, writer,
                 queue, closes, out, net, calm>>

(* Any other command ends in a response. *)
sendResponse(k) ==
  /\ rd[k] = "cmd"
  /\ hold' = [hold EXCEPT ![k] = None]
  /\ \/ SendLock("read", "response") /\ rd' = [rd EXCEPT ![k] = "queue"]
     \/ conn = None /\ rd' = [rd EXCEPT ![k] = "read"] /\ UNCHANGED out
  /\ UNCHANGED <<run, client, done, mainPc, keys, writer, queue, closes, net, calm>>

ResponseQueue(k) ==
  /\ rd[k] = "queue"
  /\ SendQueue("read")
  /\ rd' = [rd EXCEPT ![k] = "read"]
  /\ UNCHANGED <<run, client, done, mainPc, keys, hold, writer, closes, net, calm>>

(* The socket fails, was closed, or stays silent for 90 seconds; without a *)
(* writeLoop there are no pings, so no pongs.                              *)
ReadError(k) ==
  /\ rd[k] = "read"
  /\ socket[k] # "open" \/ (wr[k] = "off" /\ inbox[k] = <<>>)
  /\ rd' = [rd EXCEPT ![k] = IF closes[k] > 0 THEN "unset" ELSE "close"]
  /\ UNCHANGED <<run, client, done, mainPc, keys, hold, writer, queue,
                 closes, out, net, calm>>

CloseConnDone(k) ==
  /\ rd[k] = "close"
  /\ closes' = [closes EXCEPT ![k] = @ + 1]
  /\ rd' = [rd EXCEPT ![k] = "unset"]
  /\ UNCHANGED <<run, client, done, mainPc, keys, hold, writer, queue, out, net, calm>>

(* Seeded fault: c.connDone still refers to the closed channel. *)
UnsetConnOnly(k) ==
  /\ rd[k] = "unset"
  /\ conn' = None
  /\ rd' = [rd EXCEPT ![k] = "shut"]
  /\ UNCHANGED <<run, connDone, sendCh, encrypted, done, mainPc, keys, hold,
                 writer, queue, closes, out, net, calm>>

UnsetConn(k) ==
  /\ rd[k] = "unset"
  /\ connDone' = IF connDone = k THEN None ELSE connDone
  /\ conn' = None
  /\ rd' = [rd EXCEPT ![k] = "shut"]
  /\ UNCHANGED <<run, sendCh, encrypted, done, mainPc, keys, hold, writer,
                 queue, closes, out, net, calm>>

CloseConn(k) ==
  /\ rd[k] = "shut"
  /\ socket' = [socket EXCEPT ![k] = "closed"]
  /\ inbox' = [inbox EXCEPT ![k] = <<>>]
  /\ cen' = [cen EXCEPT ![k] = "hello"]
  /\ got' = got \ {k}
  /\ rd' = [rd EXCEPT ![k] = "done"]
  /\ UNCHANGED <<run, client, done, mainPc, keys, hold, writer, queue, closes, out, calm>>

-----------------------------------------------------------------------------
(* writeLoop.  Each round reads c.sendCh without the lock, and then        *)
(* selects.                                                                *)
WriteSelect(k) ==
  /\ wr[k] = "top"
  /\ from' = [from EXCEPT ![k] = sendCh]
  /\ wr' = [wr EXCEPT ![k] = "select"]
  /\ UNCHANGED <<run, client, done, mainPc, keys, reader, item, queue, closes, out, net, calm>>

WriteTake(k) ==
  /\ wr[k] = "select" /\ queue[from[k]] # <<>>
  /\ item' = [item EXCEPT ![k] = Head(queue[from[k]])]
  /\ queue' = [queue EXCEPT ![from[k]] = Tail(@)]
  /\ wr' = [wr EXCEPT ![k] = "write"]
  /\ UNCHANGED <<run, client, done, mainPc, keys, reader, from, closes, out, net, calm>>

(* connDone or done is closed, or a ping fails. *)
WriteReturn(k) ==
  /\ wr[k] = "select"
  /\ closes[k] > 0 \/ done \/ socket[k] # "open"
  /\ wr' = [wr EXCEPT ![k] = "off"]
  /\ from' = [from EXCEPT ![k] = None]
  /\ UNCHANGED <<run, client, done, mainPc, keys, reader, item, queue, closes, out, net, calm>>

Receive(k, f) ==
  /\ got' = IF f.kind = "sync" THEN got \cup {k} ELSE got
  /\ cen' = IF f.kind = "key" THEN [cen EXCEPT ![k] = "owed"] ELSE cen

(* A frame written to a broken socket may still look sent. *)
WriteMessage(k) ==
  /\ wr[k] = "write"
  /\ socket[k] # "closed"
  /\ IF socket[k] = "open" THEN Receive(k, item[k]) ELSE UNCHANGED <<got, cen>>
  /\ wr' = [wr EXCEPT ![k] = "top"]
  /\ item' = [item EXCEPT ![k] = None]
  /\ from' = [from EXCEPT ![k] = None]
  /\ UNCHANGED <<run, client, done, mainPc, keys, reader, queue, closes, out,
                 socket, inbox, calm>>

(* A write error ends the loop and nothing else. *)
WriteError(k) ==
  /\ wr[k] = "write"
  /\ socket[k] # "open" \/ Fault("write")
  /\ wr' = [wr EXCEPT ![k] = "off"]
  /\ item' = [item EXCEPT ![k] = None]
  /\ from' = [from EXCEPT ![k] = None]
  /\ UNCHANGED <<run, client, done, mainPc, keys, reader, queue, closes, out, net, calm>>

-----------------------------------------------------------------------------
(* The collector's heartbeat, often enough to meet the handshake and too   *)
(* seldom to fill the buffer of a connection that is being written.        *)
Heartbeat ==
  /\ "heartbeat" \in FaultKinds
  /\ out["collect"] = None
  /\ SendLock("collect", "heartbeat")
  /\ \A k \in Conns \cap {sendCh} :
       \A i \in 1..Len(queue[k]) : queue[k][i].kind # "heartbeat"
  /\ UNCHANGED <<run, client, done, mainPc, keys, reader, writer, queue, closes, net, calm>>

HeartbeatQueue ==
  /\ SendQueue("collect")
  /\ UNCHANGED <<run, client, done, mainPc, keys, reader, writer, closes, net, calm>>

(* main: Close, in two steps. *)
Close ==
  /\ mainPc = "up" /\ "close" \in FaultKinds
  /\ done' = TRUE /\ mainPc' = "closing"
  /\ UNCHANGED <<run, client, keys, reader, writer, queue, closes, out, net, calm>>

CloseSocket ==
  /\ mainPc = "closing"
  /\ mainPc' = "down"
  /\ socket' = IF conn = None THEN socket ELSE [socket EXCEPT ![conn] = "closed"]
  /\ UNCHANGED <<run, client, done, keys, reader, writer, queue, closes, out, inbox,
                 cen, got, calm>>

-----------------------------------------------------------------------------
(* The center and the network.  Once the agent has closed a connection the *)
(* center has forgotten it (CloseConn).                                    *)
Deliver(k, f) ==
  /\ socket[k] = "open" /\ Len(inbox[k]) < InboxCap
  /\ inbox' = [inbox EXCEPT ![k] = Append(@, f)]

CenterAck(k) ==
  /\ cen[k] = "owed"
  /\ \/ Deliver(k, [kind |-> "ack", key |-> None]) /\ cen' = [cen EXCEPT ![k] = "sealed"]
     \/ /\ Fault("nack")
        /\ Deliver(k, [kind |-> "nack", key |-> None])
        /\ cen' = [cen EXCEPT ![k] = "refused"]
  /\ UNCHANGED <<run, client, done, mainPc, keys, reader, writer, queue, closes, out,
                 socket, got, calm>>

CenterCommand(k) ==
  /\ Fault("command") /\ cen[k] = "sealed"
  /\ Deliver(k, [kind |-> "cmd", key |-> k])
  /\ UNCHANGED <<run, client, done, mainPc, keys, reader, writer, queue, closes, out,
                 socket, cen, got, calm>>

Break(k) ==
  /\ Fault("break") /\ socket[k] = "open"
  /\ socket' = [socket EXCEPT ![k] = "broken"]
  /\ UNCHANGED <<run, client, done, mainPc, keys, reader, writer, queue, closes, out,
                 inbox, cen, got, calm>>

CalmDown ==
  /\ ~calm /\ "calm" \in FaultKinds
  /\ calm' = TRUE
  /\ UNCHANGED <<run, client, done, mainPc, keys, reader, writer, queue, closes, out, net>>

-----------------------------------------------------------------------------
RunStep ==
  \/ RunTop \/ (\E k \in Conns : connect(k)) \/ connectErr \/ Backoff
  \/ MakeKeyExchange \/ KeyQueue \/ handleKeyAckPayload \/ KeyTimeout \/ KeyFail
  \/ RequestSync \/ SyncQueue \/ WaitRead

readLoop(k) ==
  \/ ReadMessage(k) \/ Decode(k) \/ handleKeyAck(k) \/ sendResponse(k)
  \/ ResponseQueue(k) \/ ReadError(k) \/ CloseConnDone(k) \/ UnsetConn(k) \/ CloseConn(k)

writeLoop(k) ==
  WriteSelect(k) \/ WriteTake(k) \/ WriteReturn(k) \/ WriteMessage(k) \/ WriteError(k)

Next ==
  \/ RunStep
  \/ \E k \in Conns : readLoop(k) \/ writeLoop(k)
  \/ Heartbeat \/ HeartbeatQueue
  \/ Close \/ CloseSocket
  \/ \E k \in Conns : CenterAck(k) \/ CenterCommand(k) \/ Break(k)
  \/ CalmDown

Spec == Init /\ [][Next]_vars

(* Goroutines that can run do, a Close that has begun ends, and the center *)
(* answers a key message on a connection that stays up.  Go's select picks *)
(* at random among the cases that are ready, so a writeLoop that is told   *)
(* to return again and again does.                                         *)
FairSpec ==
  /\ Spec
  /\ WF_vars(RunStep) /\ WF_vars(HeartbeatQueue) /\ WF_vars(CloseSocket)
  /\ \A k \in Conns : WF_vars(readLoop(k)) /\ WF_vars(writeLoop(k)) /\ WF_vars(CenterAck(k))
  /\ \A k \in Conns : SF_vars(WriteReturn(k))

-----------------------------------------------------------------------------
(* Type correctness. *)
RunPcs == {"top", "dial", "backoff", "keyX", "keyQueue", "keyWait", "keyFail",
           "onConnect", "syncQueue", "waitRead", "exit"}
ReadPcs == {"off", "read", "decode", "ack", "cmd", "queue", "close", "unset", "shut", "done"}

TypeOK ==
  /\ run \in RunPcs
  /\ {conn, connDone, sendCh, encrypted} \subseteq Conns \cup {None}
  /\ done \in BOOLEAN /\ mainPc \in {"up", "closing", "down"}
  /\ clientPub \in BOOLEAN /\ storePub \in BOOLEAN
  /\ keyX \in [kind : {"ack", "nack"}, from : Conns] \cup {None}
  /\ rd \in [Conns -> ReadPcs] /\ hold \in [Conns -> Inbound \cup {None}]
  /\ wr \in [Conns -> {"off", "top", "select", "write"}]
  /\ item \in [Conns -> Frames \cup {None}] /\ from \in [Conns -> Conns \cup {None}]
  /\ queue \in [Conns -> Seq(Frames)] /\ closes \in [Conns -> Nat]
  /\ out \in [Senders -> [ch : Conns, frame : Frames] \cup {None}]
  /\ socket \in [Conns -> {"open", "broken", "closed"}]
  /\ inbox \in [Conns -> Seq(Inbound)]
  /\ cen \in [Conns -> {"hello", "owed", "sealed", "refused"}]
  /\ got \subseteq Conns
  /\ calm \in BOOLEAN

(* A session key never outlives its connection: whatever connection Send   *)
(* finds in c.conn, the key it seals with was negotiated on that one, and  *)
(* a frame that reaches an open socket was encoded for it, although        *)
(* encoding, queueing and writing happen on three goroutines and a slow    *)
(* writeLoop may pick from its successor's channel.                        *)
SessionKey ==
  /\ conn # None => encrypted \in {None, conn}
  /\ \A k \in Conns :
       wr[k] = "write" /\ socket[k] = "open" => item[k].key \in {None, k}

(* The center can read what it is asked and answered: a sync request or a  *)
(* response that reaches an open socket is sealed, with the key of that    *)
(* connection, and the center has finished its half of the key exchange.   *)
(* Run switches encryption on, Run and readLoop encode and queue, and a    *)
(* writeLoop writes, possibly after the connection was replaced.           *)
SealedTraffic ==
  \A k \in Conns :
    wr[k] = "write" /\ socket[k] = "open" /\ item[k].kind \in {"sync", "response"}
      => item[k].key = k /\ cen[k] = "sealed"

(* connDone is closed at most once (a second close panics), although both  *)
(* connect and readLoop may close it.                                      *)
ClosedOnce == \A k \in Conns : closes[k] <= 1

(* Run waits for readDone before it dials again, so at most one readLoop,  *)
(* and hence at most one command handler, is ever running.                 *)
SingleReader ==
  \A j, k \in Conns : rd[j] \notin {"off", "done"} /\ rd[k] \notin {"off", "done"} => j = k

(* A center that answers each key message once never makes readLoop wait   *)
(* on the key-exchange channel: it has room even for an answer that comes  *)
(* after the fifteen seconds.  (A readLoop stuck there would keep Run      *)
(* waiting for readDone, and the agent disconnected, for good.)            *)
NeverStuck == \A k \in Conns : rd[k] = "ack" => KeyXHasRoom

(* On every (re)connect the agent runs the key exchange and then requests  *)
(* a peers.sync: once the network is calm, an agent that is not shut down  *)
(* ends up, and stays, on a connection on which the center got one.        *)
Synced == conn # None /\ socket[conn] = "open" /\ conn \in got

SyncRequested == calm ~> ([]Synced \/ done)

(* After Close, Run returns once the center has nothing more to say, even  *)
(* if Close fell into a dial and the new connection escaped it.            *)
RunReturns == done /\ calm ~> run = "exit"
=============================================================================

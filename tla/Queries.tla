------------------------------- MODULE Queries -------------------------------
(***************************************************************************)
(* The messages that change nothing on the node: status.request,           *)
(* bird.details, peers.import, the network diagnostics, bird.enable,       *)
(* bird.disable and agent.resume, from HandleMessage to the answer.        *)
(*                                                                         *)
(* A behaviour is the life of one message: the handlers keep nothing       *)
(* between two.  Each external command may fail.  What the handler reads   *)
(* is part of the request: the node's peerings, the lines birdc prints, or *)
(* the addresses a name resolves to.                                       *)
(***************************************************************************)
EXTENDS ImportPeers, BirdOutput, NetworkTarget

CONSTANT Requests  \* the messages, each with its type and what it meets

VARIABLES
  req,     \* the message
  pc,      \* the handler's next call
  target,  \* the address a command is run against: none, or one
  answers  \* what was sent with the message's id

queryVars == <<req, pc, target, answers>>

Probes == {"network.ping", "network.trace", "network.mtr"}
Known == Probes \cup {"status.request", "bird.details", "peers.import",
                      "network.bgp_route", "bird.enable", "bird.disable",
                      "agent.resume"}

(* A name resolves to addresses; peerings of a node do not share names,    *)
(* and other files of its BIRD directory are no peers; times are of a day. *)
ASSUME RequestsAssumption == \A r \in Requests :
  /\ r.type \in Probes =>
       r.ips \in Seq(Address) /\ r.n \in Int /\ r.probes \in Seq(STRING)
  /\ r.type = "peers.import" =>
       /\ Distinct(r.node) /\ \A f \in r.foreign : ~f.parses
       /\ IsFiniteSet(ConfsOf(r.node)) /\ IsFiniteSet(FilesOf(r.node) \cup r.foreign)
  /\ r.type \in {"status.request", "bird.details"} =>
       r.protocols \in Seq(Protocols) /\ r.now \in 0 .. Day - 1

Init ==
  /\ req \in Requests
  /\ pc = "received" /\ target = <<>> /\ answers = <<>>

Error == [ok |-> FALSE]

(* sendResponse, or a Send of the handler's own, whose error is ignored;   *)
(* then it returns.                                                        *)
Reply(a) ==
  /\ answers' = Append(answers, a)
  /\ pc' = "done"
  /\ UNCHANGED <<req, target>>

Call(l) == pc' = l /\ UNCHANGED <<req, target, answers>>

(* The switch of HandleMessage; a message of another type is only logged. *)
HandleMessage ==
  /\ pc = "received"
  /\ Call(IF req.type \in Known THEN "first" ELSE "done")

-----------------------------------------------------------------------------
handleStatusRequest ==
  /\ req.type = "status.request"
  /\ \/ pc = "first" /\ (Reply(Error) \/ Call("second"))
     \/ /\ pc = "second"
        /\ \/ Reply(Error)
           \/ Reply([ok |-> TRUE, states |-> GetPeerStates(Table(req.protocols, req.now))])

handleBirdDetailsCommand ==
  /\ req.type = "bird.details" /\ pc = "first"
  /\ \/ Reply(Error)
     \/ Reply([ok |-> TRUE,
               details |-> GetPeerDetails(Output(req.protocols, req.now), req.now)])

(* wg.ScanPeers, then bird.ScanPeers and the matching. *)
handlePeersImportCommand ==
  /\ req.type = "peers.import"
  /\ \/ pc = "first" /\ (Reply(Error) \/ Call("second"))
     \/ /\ pc = "second"
        /\ \/ Reply(Error)
           \/ \E confs \in Orders(ConfsOf(req.node)),
                 files \in Orders(FilesOf(req.node) \cup req.foreign) :
                Reply([ok |-> TRUE,
                       peers |-> Import(WgScanPeers(confs), BirdScanPeers(files),
                                        req.tracked)])

(* bird.disable and bird.enable: the protocol of the message, or else that *)
(* of the peer in the store ("" if it is not there); then birdc.           *)
protoName == IF req.proto # "" THEN req.proto ELSE req.stored

SwitchProtocol(p) == Reply(Error) \/ Reply([ok |-> TRUE, proto |-> p])

BirdControl ==
  /\ pc = "first"
  /\ IF req.bad \/ protoName = "" THEN Reply(Error) ELSE SwitchProtocol(protoName)

handleBirdDisable == req.type = "bird.disable" /\ BirdControl
handleBirdEnable == req.type = "bird.enable" /\ BirdControl

handleAgentResume ==
  /\ req.type = "agent.resume" /\ pc = "first"
  /\ Reply([ok |-> TRUE])

-----------------------------------------------------------------------------
(* The network diagnostics: the target is resolved and pinned, then a      *)
(* command is run against it.                                              *)
Resolve ==
  /\ pc = "first"
  /\ LET resolved == resolveAndValidate(req.ips)
     IN IF req.bad \/ resolved = <<>> THEN Reply(Error)
        ELSE /\ target' = resolved /\ pc' = "second"
             /\ UNCHANGED <<req, answers>>

handleNetworkPing ==
  /\ req.type = "network.ping"
  /\ \/ Resolve
     \/ /\ pc = "second"
        /\ Reply(Error) \/ Reply([ok |-> TRUE, limit |-> Clamp(req.n, 4, 20)])

handleNetworkTrace ==
  /\ req.type = "network.trace"
  /\ \/ Resolve
     \/ /\ pc = "second"
        /\ \/ Reply(Error)
           \/ Reply([ok |-> TRUE, limit |-> Clamp(req.n, 30, 64),
                     hop |-> HopIP(TraceLine(req.probes))])

(* mtr is tried a second time, for a report in plain text. *)
Report == Reply([ok |-> TRUE, limit |-> Clamp(req.n, 5, 10)])

(* Seeded fault: the error of the first attempt is sent as well. *)
handleNetworkMTRTwice ==
  /\ req.type = "network.mtr"
  /\ \/ Resolve
     \/ /\ pc = "second" /\ pc' = "fallback"
        /\ answers' = Append(answers, Error)
        /\ UNCHANGED <<req, target>>
     \/ pc = "fallback" /\ (Reply(Error) \/ Report)

handleNetworkMTR ==
  /\ req.type = "network.mtr"
  /\ \/ Resolve
     \/ pc = "second" /\ (Report \/ Call("fallback"))
     \/ pc = "fallback" /\ (Reply(Error) \/ Report)

(* A literal address or prefix, and no host name. *)
ShowRoute == Reply(Error) \/ Reply([ok |-> TRUE])

handleBirdRoute ==
  /\ req.type = "network.bgp_route" /\ pc = "first"
  /\ IF req.bad \/ ~req.literal THEN Reply(Error) ELSE ShowRoute

Next ==
  \/ HandleMessage
  \/ handleStatusRequest \/ handleBirdDetailsCommand \/ handlePeersImportCommand
  \/ handleBirdDisable \/ handleBirdEnable \/ handleAgentResume
  \/ handleNetworkPing \/ handleNetworkTrace \/ handleNetworkMTR
  \/ handleBirdRoute

Spec == Init /\ [][Next]_queryVars

-----------------------------------------------------------------------------
(* Type correctness, with the maximum docs/protocol.md gives for each      *)
(* diagnostic.                                                             *)
MaxLimit ==
  [t \in Probes |-> CASE t = "network.ping" -> 20 [] t = "network.trace" -> 64 [] OTHER -> 10]

TypeOK ==
  /\ pc \in {"received", "first", "second", "fallback", "done"}
  /\ Len(target) <= 1
  /\ req.type \in Probes /\ answers # <<>> /\ answers[1].ok =>
       answers[1].limit \in 1 .. MaxLimit[req.type]

Answered(t) == req.type = t /\ pc = "done" /\ answers[1].ok

(* HandleMessage leaves no query without an answer and answers none twice: *)
(* whichever of the external commands fail, and through mtr's second       *)
(* attempt, exactly one message with the query's id is handed to Send.     *)
(* Send may still drop it (its error is ignored), and no handler repeats.  *)
AnsweredOnce == pc = "done" => Len(answers) = IF req.type \in Known THEN 1 ELSE 0

(* handlePeersImportCommand returns the peerings of the node that are not  *)
(* tracked, each with its own ASN, interface and BIRD file, and nothing    *)
(* else: one with a live interface in one entry, however many BIRD files   *)
(* it has and whatever interface they name; another in one entry for each  *)
(* of its files.  Provided that the name or the comment of a live          *)
(* interface's config tells its ASN where no BIRD file names it.           *)
ImportExact ==
  Answered("peers.import") /\ (\A p \in req.node : WellNamed(p)) =>
    ExactlyDue(answers[1].peers, req.node, req.tracked)

(* GetPeerDetails reports every BGP protocol once, with all its channels'  *)
(* routes and its uptime, across midnight and over days.  Other protocols' *)
(* routes are counted to the BGP protocol before them, so these must come  *)
(* first.  GetPeerStates reports the BGP protocols with an Info column, in *)
(* the same words.                                                         *)
DetailsExact ==
  LET ps == req.protocols
      bgp == {i \in DOMAIN ps : ps[i].bgp}
      listed == {i \in DOMAIN ps : ps[i].bgp /\ ps[i].info # NoInfo}
  IN /\ Answered("bird.details") /\ OthersFirst(ps) =>
          LET out == answers[1].details
          IN \E at \in Numbered(Len(out), bgp) : \A k \in DOMAIN out :
               DetailFits(out[k], ps[at[k]])
     /\ Answered("status.request") =>
          LET out == answers[1].states
          IN \E at \in Numbered(Len(out), listed) : \A k \in DOMAIN out :
               out[k] = [name |-> ps[at[k]].name, state |-> ps[at[k]].info]

(* The network diagnostics run a command against a permitted address       *)
(* only, one that the target is or resolves to, and refuse no target that  *)
(* has one.                                                                *)
TargetPermitted ==
  req.type \in Probes =>
    /\ target # <<>> => target[1] \in Range(req.ips) /\ Permitted(target[1])
    /\ pc = "done" /\ target = <<>> /\ ~req.bad =>
         \A i \in DOMAIN req.ips : ~Permitted(req.ips[i])

(* parseTracerouteOutput gives each hop the address of the router that     *)
(* answered last, whatever names, times and stars are on the line.         *)
HopExact == Answered("network.trace") => answers[1].hop = LastHop(req.probes)
==============================================================================

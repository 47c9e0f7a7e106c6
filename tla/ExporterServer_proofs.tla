----------------------- MODULE ExporterServer_proofs -----------------------
(***************************************************************************)
(* Proofs about ExporterServer: what its readers and its writer make of    *)
(* texts, then the invariant of the process, with one lemma per action,    *)
(* and what follows from it.                                               *)
(***************************************************************************)
EXTENDS ExporterServer, MetricsText_proofs

-----------------------------------------------------------------------------
(* The texts in the file, and what read_file has of them.                  *)

LEMMA TextLengths == \A d \in Written : Len(Texts[d]) \in Nat /\ IsText(Texts[d])
<1> SUFFICES ASSUME NEW d \in Written PROVE Len(Texts[d]) \in Nat /\ IsText(Texts[d])
  OBVIOUS
<1>1. Texts[d] = DocumentText(Documented[d])
  BY DEF Texts
<1> QED  BY <1>1, DocumentIsText, TextLength

\* What read_file has so far is a text again, whatever parts of which documents
\* it consists of.
Parts == [doc : Written, from : Nat, to : Nat]

LEMMA ContentsAreText ==
  ASSUME NEW parts \in Seq(Parts)
  PROVE  IsText(Text(parts))
<1> DEFINE piece(k) == SubSeq(Texts[parts[k].doc], parts[k].from + 1, parts[k].to)
           P == {piece(k) : k \in DOMAIN parts}
           pieces == [k \in DOMAIN parts |-> piece(k)]
<1>1. ASSUME NEW k \in DOMAIN parts PROVE IsText(piece(k))
  <2> DEFINE t == Texts[parts[k].doc]
             T == {t[i] : i \in Int}
  <2> HIDE DEF t
  <2>1. parts[k].from + 1 \in Int /\ parts[k].to \in Int
    <3>1. parts[k] \in Parts
      OBVIOUS
    <3> QED  BY <3>1 DEF Parts
  <2>2. ASSUME NEW i \in parts[k].from + 1 .. parts[k].to PROVE t[i] \in T
    <3>1. i \in Int
      BY <2>1
    <3> QED  BY <3>1
  <2> HIDE DEF T
  <2>3. piece(k) \in Seq(T)
    BY <2>1, <2>2, SubSeqProperties DEF t
  <2> QED  BY <2>3 DEF IsText
<1>2. pieces \in Seq(P)
  OBVIOUS
<1>3. \A t \in P : IsText(t)
  BY <1>1
<1> HIDE DEF P, pieces
<1>4. IsText(FlattenSeq(pieces))
  BY <1>2, <1>3, FlattenIsText
<1> QED  BY <1>4 DEF Text, pieces

-----------------------------------------------------------------------------
(* The invariant.                                                          *)

Steps == {"arguments", "listen", "publish", "test", "accept", "failed", "throw",
          "recv", "open", "read", "parse", "close", "finish", "shut", "forget",
          "exited"}
HandlerSteps == {"flag", "test", "close", "reset"}
Handlers == [signal : Signals, at : HandlerSteps]

\* The steps of main that have a client, and those of its loop.
Session == {"recv", "open", "read", "parse", "close"}
Loop == {"test", "accept", "failed"} \cup Session

ControlTypes ==
    /\ pc \in Steps
    /\ once \in BOOLEAN /\ stop_requested \in BOOLEAN
    /\ signals \in 0 .. MaxSignals
    /\ exit \subseteq {0, 2}
    /\ exit = {} <=> pc # "exited"

DescriptorTypes ==
    /\ descriptors \in [Descriptors -> {"free", "listener", "client", "file"}]
    /\ server \in Descriptors \cup {-1}
    /\ client \in Descriptors \cup {-1}
    /\ listening_socket \in Descriptors \cup {-1}

ClientTypes ==
    /\ peer \in [Peers -> {"away", "connected", "sent", "gone"}]
    /\ request \in [Peers -> AllRequests]
    /\ answer \in [Peers -> {0, 200, 400, 404, 405, 503}]
    /\ served \subseteq Peers

FileTypes ==
    /\ writer \in BOOLEAN /\ writes \in 0 .. MaxWrites
    /\ file \in [doc : Written, length : Nat]
    /\ file.length <= Len(Texts[file.doc])
    /\ contents \in Seq(Parts)
    /\ AtMostOne(reading)

HandlerAt(steps) == \E k \in DOMAIN handlers : handlers[k].at \in steps

HandlersInv ==
    /\ handlers \in Seq(Handlers)
    /\ Len(handlers) <= 2
    /\ Len(handlers) = 2 => handlers[1].signal # handlers[2].signal

\* When a handler may run, when there is a client, and how the process ends.
ProcessInv ==
    /\ once => pc \in {"open", "read", "parse", "exited"} /\ ~stop_requested
    /\ once \/ pc \in {"arguments", "exited"} => handlers = <<>>
    /\ pc = "arguments" => ~stop_requested
    /\ HandlerAt({"test", "close", "reset"}) => stop_requested
    /\ (pc \in Session /\ ~once) <=> (served # {})
    /\ served = {} \/ \E p \in Peers : served = {p}
    /\ pc \in {"finish", "shut", "forget"} => stop_requested

\* What each descriptor is open on, and who believes what of it.
DescriptorInv ==
    /\ once \/ pc \in {"arguments", "listen"} => server = -1
    /\ ~once /\ pc \in Loop \cup {"publish", "finish", "shut", "forget"} => server \in Descriptors
    /\ listening_socket \in {-1, server}
    /\ pc = "publish" => listening_socket = -1 /\ descriptors[server] = "listener"
    /\ client # -1 <=> served # {}
    /\ client # -1 => descriptors[client] = "client"
    /\ \A d \in Descriptors :
         /\ descriptors[d] = "client" => d = client
         /\ descriptors[d] = "listener" => d = server
         /\ descriptors[d] = "file" => pc = "read"
    /\ pc = "read" => \E d \in Descriptors : descriptors[d] = "file"
    /\ \A d, e \in Descriptors : descriptors[d] = "file" /\ descriptors[e] = "file" => d = e

\* The listener is open until a handler or main closes it, and its number is
\* nobody else's until main goes on.
ListenerInv ==
    /\ ~once /\ pc \in Loop \cup {"finish"} =>
         IF listening_socket = -1 THEN stop_requested
         ELSE descriptors[server] = "listener" \/ HandlerAt({"reset"})
    /\ listening_socket # -1 \/ HandlerAt({"close", "reset"}) =>
         server \in Descriptors /\ descriptors[server] \in {"listener", "free"}

QueueInv ==
    /\ backlog \in Seq(Peers)
    /\ \A j, k \in DOMAIN backlog : backlog[j] = backlog[k] => j = k
    /\ \A k \in DOMAIN backlog : backlog[k] \notin served /\ peer[backlog[k]] # "away"
    /\ \A p \in served : peer[p] # "away"
    /\ \A p \in Peers : peer[p] = "sent" => request[p] # "silent"

\* The clients whose request main has looked at.
Received == {p \in Peers : /\ peer[p] # "away"
                           /\ \A k \in DOMAIN backlog : backlog[k] # p
                           /\ ~(p \in served /\ pc = "recv")}

CountInv ==
    /\ scrapes \in Nat /\ failures \in Nat
    /\ failures <= scrapes
    /\ pc \in {"open", "read", "parse"} /\ (\E p \in served : request[p] = "metrics") =>
         failures < scrapes
    /\ scrapes <= Cardinality(Received)

ServerInv ==
    /\ ControlTypes /\ DescriptorTypes /\ ClientTypes /\ FileTypes
    /\ HandlersInv /\ ProcessInv /\ DescriptorInv /\ ListenerInv /\ QueueInv /\ CountInv

\* What a step of a handler leaves alone.
HandlerFrame ==
    UNCHANGED <<pc, once, server, client, signals, peerVars, served, fileVars,
                readVars, counters, exit>>

LEMMA ReceivedKept ==
  ASSUME CountInv, scrapes' = scrapes, Received \subseteq Received'
  PROVE  scrapes' <= Cardinality(Received')
<1>1. Received' \in SUBSET Peers
  BY DEF Received
<1>2. IsFiniteSet(Received') /\ Cardinality(Received') \in Nat
  BY <1>1, ExporterServerAssumption, FS_Subset, FS_CardinalityType
<1>3. Cardinality(Received) <= Cardinality(Received') /\ Cardinality(Received) \in Nat
  BY <1>2, FS_Subset, FS_CardinalityType
<1> QED  BY <1>2, <1>3 DEF CountInv

LEMMA HandlersMove ==
  ASSUME handlers \in Seq(Handlers), handlers # <<>>, NEW at \in HandlerSteps,
         handlers' = [handlers EXCEPT ![1].at = at]
  PROVE  /\ handlers' \in Seq(Handlers) /\ Len(handlers') = Len(handlers)
         /\ handlers'[1].at = at
         /\ \A k \in DOMAIN handlers : handlers'[k].signal = handlers[k].signal
         /\ \A k \in DOMAIN handlers : k # 1 => handlers'[k] = handlers[k]
<1>1. 1 \in DOMAIN handlers /\ handlers[1] \in Handlers
  OBVIOUS
<1>2. [handlers[1] EXCEPT !.at = at] \in Handlers
  BY <1>1 DEF Handlers
<1> QED  BY <1>1, <1>2 DEF Handlers

LEMMA HandlersShrink ==
  ASSUME handlers \in Seq(Handlers), handlers # <<>>, handlers' = Tail(handlers)
  PROVE  /\ handlers' \in Seq(Handlers) /\ Len(handlers') = Len(handlers) - 1
         /\ \A k \in DOMAIN handlers' : handlers'[k] = handlers[k + 1] /\ k + 1 \in DOMAIN handlers
         /\ Len(handlers) <= 2 => Len(handlers') <= 2 /\ Len(handlers') # 2
OBVIOUS

LEMMA HandlersGrow ==
  ASSUME handlers \in Seq(Handlers), NEW h \in Handlers, handlers' = <<h>> \o handlers
  PROVE  /\ handlers' \in Seq(Handlers) /\ Len(handlers') = Len(handlers) + 1
         /\ handlers'[1] = h
         /\ \A k \in DOMAIN handlers : k + 1 \in DOMAIN handlers' /\ handlers'[k + 1] = handlers[k]
         /\ \A k \in DOMAIN handlers' : k # 1 => k - 1 \in DOMAIN handlers /\ handlers'[k] = handlers[k - 1]
         /\ Len(handlers) <= 2 => Len(handlers) < 2 \/ Len(handlers) = 2
<1>1. Len(handlers) \in Nat
  OBVIOUS
<1>2. \A n \in Nat : n <= 2 => n < 2 \/ n = 2
  OBVIOUS
<1>3. Len(handlers) <= 2 => Len(handlers) < 2 \/ Len(handlers) = 2
  BY <1>1, <1>2, Zenon
<1> QED  BY <1>3

LEMMA SomeDescriptorIsFree ==
  ASSUME \E d \in Descriptors : descriptors[d] = "free"
  PROVE  LowestFree \in Descriptors /\ descriptors[LowestFree] = "free"
<1> DEFINE S == {d \in Descriptors : descriptors[d] = "free"}
<1>1. S \in SUBSET Nat /\ S # {}
  BY DEF Descriptors
<1>2. \E m \in S : \A k \in S : m <= k
  BY <1>1, LeastNumber
<1> QED  BY <1>2 DEF LowestFree

LEMMA ArgumentsKeeps ==
  ASSUME ServerInv, Arguments
  PROVE  ServerInv'
<1> USE DEF Arguments, Main, Exits, Lives, signalVars, peerVars, fileVars,
     readVars, counters, HandlerAt
<1>1. ControlTypes'
  BY DEF ServerInv, ControlTypes, Steps
<1>2. DescriptorTypes'
  BY DEF ServerInv, DescriptorTypes
<1>3. ClientTypes'
  BY DEF ServerInv, ClientTypes
<1>4. FileTypes'
  BY DEF ServerInv, FileTypes
<1>5. HandlersInv'
  BY DEF ServerInv, HandlersInv
<1>6. ProcessInv'
  BY DEF ServerInv, ControlTypes, DescriptorTypes, ClientTypes, Steps, HandlersInv,
     ProcessInv, DescriptorInv, ListenerInv, Session, Loop
<1>7. DescriptorInv'
  BY DEF ServerInv, ControlTypes, DescriptorTypes, Steps, Descriptors, ProcessInv,
     DescriptorInv, HandlersInv, ListenerInv, Session, Loop
<1>8. ListenerInv'
  BY DEF ServerInv, ControlTypes, DescriptorTypes, Steps, Descriptors, HandlersInv,
     ProcessInv, DescriptorInv, ListenerInv, Session, Loop
<1>9. QueueInv'
  BY DEF ServerInv, ControlTypes, ClientTypes, ProcessInv, QueueInv, Session
<1>10. CountInv'
  <2>1. Received \subseteq Received' /\ scrapes' = scrapes
    BY DEF ServerInv, ControlTypes, ClientTypes, ProcessInv, QueueInv, Received,
       Session
  <2>2. scrapes' <= Cardinality(Received')
    BY <2>1, ReceivedKept DEF ServerInv
  <2> QED  BY <2>1, <2>2 DEF ServerInv, ControlTypes, ProcessInv, CountInv, Session
<1> QED  BY <1>1, <1>2, <1>3, <1>4, <1>5, <1>6, <1>7, <1>8, <1>9, <1>10
     DEF ServerInv

LEMMA ListenKeeps ==
  ASSUME ServerInv, Listen
  PROVE  ServerInv'
<1> USE DEF Listen, Opened, Main, Exits, Lives, signalVars, peerVars, fileVars,
     readVars, counters, HandlerAt
<1>0. LowestFree \in Descriptors /\ descriptors[LowestFree] = "free"
  <2>1. \E d \in Descriptors : descriptors[d] = "free"
    BY DEF ServerInv, ControlTypes, DescriptorTypes, DescriptorInv, ProcessInv,
       Descriptors, Session
  <2> QED  BY <2>1, SomeDescriptorIsFree
<1> HIDE DEF LowestFree
<1>1. ControlTypes'
  BY <1>0 DEF ServerInv, ControlTypes, Steps
<1>2. DescriptorTypes'
  BY <1>0 DEF ServerInv, DescriptorTypes
<1>3. ClientTypes'
  BY <1>0 DEF ServerInv, ClientTypes
<1>4. FileTypes'
  BY <1>0 DEF ServerInv, FileTypes
<1>5. HandlersInv'
  BY <1>0 DEF ServerInv, HandlersInv
<1>6. ProcessInv'
  BY <1>0
     DEF ServerInv, ControlTypes, DescriptorTypes, ClientTypes, Steps, HandlersInv,
        ProcessInv, DescriptorInv, ListenerInv, Session, Loop
<1>7. DescriptorInv'
  BY <1>0
     DEF ServerInv, ControlTypes, DescriptorTypes, Steps, Descriptors, ProcessInv,
        DescriptorInv, HandlersInv, ListenerInv, Session, Loop
<1>8. ListenerInv'
  BY <1>0
     DEF ServerInv, ControlTypes, DescriptorTypes, Steps, Descriptors, HandlersInv,
        ProcessInv, DescriptorInv, ListenerInv, Session, Loop
<1>9. QueueInv'
  BY <1>0 DEF ServerInv, ControlTypes, ClientTypes, ProcessInv, QueueInv, Session
<1>10. CountInv'
  <2>1. Received \subseteq Received' /\ scrapes' = scrapes
    BY DEF ServerInv, ControlTypes, ClientTypes, ProcessInv, QueueInv, Received,
       Session
  <2>2. scrapes' <= Cardinality(Received')
    BY <2>1, ReceivedKept DEF ServerInv
  <2> QED  BY <2>1, <2>2 DEF ServerInv, ControlTypes, ProcessInv, CountInv, Session
<1> QED  BY <1>1, <1>2, <1>3, <1>4, <1>5, <1>6, <1>7, <1>8, <1>9, <1>10
     DEF ServerInv

LEMMA PublishListenerKeeps ==
  ASSUME ServerInv, PublishListener
  PROVE  ServerInv'
<1> USE DEF PublishListener, Main, Exits, Lives, signalVars, peerVars, fileVars,
     readVars, counters, HandlerAt
<1>1. ControlTypes'
  BY DEF ServerInv, ControlTypes, Steps
<1>2. DescriptorTypes'
  BY DEF ServerInv, DescriptorTypes
<1>3. ClientTypes'
  BY DEF ServerInv, ClientTypes
<1>4. FileTypes'
  BY DEF ServerInv, FileTypes
<1>5. HandlersInv'
  BY DEF ServerInv, HandlersInv
<1>6. ProcessInv'
  BY DEF ServerInv, ControlTypes, DescriptorTypes, ClientTypes, Steps, HandlersInv,
     ProcessInv, DescriptorInv, ListenerInv, Session, Loop
<1>7. DescriptorInv'
  BY DEF ServerInv, ControlTypes, DescriptorTypes, Steps, Descriptors, ProcessInv,
     DescriptorInv, HandlersInv, ListenerInv, Session, Loop
<1>8. ListenerInv'
  BY DEF ServerInv, ControlTypes, DescriptorTypes, Steps, Descriptors, HandlersInv,
     ProcessInv, DescriptorInv, ListenerInv, Session, Loop
<1>9. QueueInv'
  BY DEF ServerInv, ControlTypes, ClientTypes, ProcessInv, QueueInv, Session
<1>10. CountInv'
  BY DEF ServerInv, ControlTypes, ClientTypes, ProcessInv, QueueInv, CountInv,
     Session, Received
<1> QED  BY <1>1, <1>2, <1>3, <1>4, <1>5, <1>6, <1>7, <1>8, <1>9, <1>10
     DEF ServerInv

LEMMA TestStopKeeps ==
  ASSUME ServerInv, TestStop
  PROVE  ServerInv'
<1> USE DEF TestStop, Main, Exits, Lives, signalVars, peerVars, fileVars, readVars,
     counters, HandlerAt
<1>1. ControlTypes'
  BY DEF ServerInv, ControlTypes, Steps
<1>2. DescriptorTypes'
  BY DEF ServerInv, DescriptorTypes
<1>3. ClientTypes'
  BY DEF ServerInv, ClientTypes
<1>4. FileTypes'
  BY DEF ServerInv, FileTypes
<1>5. HandlersInv'
  BY DEF ServerInv, HandlersInv
<1>6. ProcessInv'
  BY DEF ServerInv, ControlTypes, DescriptorTypes, ClientTypes, Steps, HandlersInv,
     ProcessInv, DescriptorInv, ListenerInv, Session, Loop
<1>7. DescriptorInv'
  BY DEF ServerInv, ControlTypes, DescriptorTypes, Steps, Descriptors, ProcessInv,
     DescriptorInv, HandlersInv, ListenerInv, Session, Loop
<1>8. ListenerInv'
  BY DEF ServerInv, ControlTypes, DescriptorTypes, Steps, Descriptors, HandlersInv,
     ProcessInv, DescriptorInv, ListenerInv, Session, Loop
<1>9. QueueInv'
  BY DEF ServerInv, ControlTypes, ClientTypes, ProcessInv, QueueInv, Session
<1>10. CountInv'
  BY DEF ServerInv, ControlTypes, ClientTypes, ProcessInv, QueueInv, CountInv,
     Session, Received
<1> QED  BY <1>1, <1>2, <1>3, <1>4, <1>5, <1>6, <1>7, <1>8, <1>9, <1>10
     DEF ServerInv

LEMMA AcceptKeeps ==
  ASSUME ServerInv, Accept
  PROVE  ServerInv'
<1> USE DEF Accept, Opened, Main, Exits, Lives, signalVars, peerVars, fileVars,
     readVars, counters, HandlerAt
<1>0. LowestFree \in Descriptors /\ descriptors[LowestFree] = "free"
  <2>1. \E d \in Descriptors : descriptors[d] = "free"
    BY DEF ServerInv, ControlTypes, DescriptorTypes, DescriptorInv, ProcessInv,
       Descriptors, Session
  <2> QED  BY <2>1, SomeDescriptorIsFree
<1> HIDE DEF LowestFree
<1>1. ControlTypes'
  BY <1>0 DEF ServerInv, ControlTypes, Steps
<1>2. DescriptorTypes'
  BY <1>0 DEF ServerInv, DescriptorTypes
<1>3. ClientTypes'
  <2>1. Head(backlog) \in Peers
    BY DEF ServerInv, QueueInv
  <2> QED  BY <2>1 DEF ServerInv, ClientTypes
<1>4. FileTypes'
  BY <1>0 DEF ServerInv, FileTypes
<1>5. HandlersInv'
  BY <1>0 DEF ServerInv, HandlersInv
<1>6. ProcessInv'
  <2>1. Head(backlog) \in Peers
    BY DEF ServerInv, QueueInv
  <2> QED  BY <2>1
       DEF ServerInv, ControlTypes, ClientTypes, Steps, HandlersInv, ProcessInv,
          Session
<1>7. DescriptorInv'
  BY <1>0
     DEF ServerInv, ControlTypes, DescriptorTypes, Steps, Descriptors, ProcessInv,
        DescriptorInv, HandlersInv, ListenerInv, Session, Loop
<1>8. ListenerInv'
  BY <1>0
     DEF ServerInv, ControlTypes, DescriptorTypes, Steps, Descriptors, HandlersInv,
        ProcessInv, DescriptorInv, ListenerInv, Session, Loop
<1>9. QueueInv'
  BY <1>0 DEF ServerInv, ControlTypes, ClientTypes, ProcessInv, QueueInv, Session
<1>10. CountInv'
  <2>1. Received \subseteq Received' /\ scrapes' = scrapes
    BY DEF ServerInv, ControlTypes, ClientTypes, ProcessInv, QueueInv, Received,
       Session
  <2>2. scrapes' <= Cardinality(Received')
    BY <2>1, ReceivedKept DEF ServerInv
  <2> QED  BY <2>1, <2>2 DEF ServerInv, ControlTypes, ProcessInv, CountInv, Session
<1> QED  BY <1>1, <1>2, <1>3, <1>4, <1>5, <1>6, <1>7, <1>8, <1>9, <1>10
     DEF ServerInv

LEMMA AcceptFailsKeeps ==
  ASSUME ServerInv, AcceptFails
  PROVE  ServerInv'
<1> USE DEF AcceptFails, Main, Exits, Lives, signalVars, peerVars,
     fileVars, readVars, counters, HandlerAt
<1>1. ControlTypes'
  BY DEF ServerInv, ControlTypes, Steps
<1>2. DescriptorTypes'
  BY DEF ServerInv, DescriptorTypes
<1>3. ClientTypes'
  BY DEF ServerInv, ClientTypes
<1>4. FileTypes'
  BY DEF ServerInv, FileTypes
<1>5. HandlersInv'
  BY DEF ServerInv, HandlersInv
<1>6. ProcessInv'
  BY DEF ServerInv, ControlTypes, DescriptorTypes, ClientTypes, Steps, HandlersInv,
     ProcessInv, DescriptorInv, ListenerInv, Session, Loop
<1>7. DescriptorInv'
  BY DEF ServerInv, ControlTypes, DescriptorTypes, Steps, Descriptors, ProcessInv,
     DescriptorInv, HandlersInv, ListenerInv, Session, Loop
<1>8. ListenerInv'
  BY DEF ServerInv, ControlTypes, DescriptorTypes, Steps, Descriptors, HandlersInv,
     ProcessInv, DescriptorInv, ListenerInv, Session, Loop
<1>9. QueueInv'
  BY DEF ServerInv, ControlTypes, ClientTypes, ProcessInv, QueueInv, Session
<1>10. CountInv'
  <2>1. Received \subseteq Received' /\ scrapes' = scrapes
    BY DEF ServerInv, ControlTypes, ClientTypes, ProcessInv, QueueInv, Received,
       Session
  <2>2. scrapes' <= Cardinality(Received')
    BY <2>1, ReceivedKept DEF ServerInv
  <2> QED  BY <2>1, <2>2 DEF ServerInv, ControlTypes, ProcessInv, CountInv, Session
<1> QED  BY <1>1, <1>2, <1>3, <1>4, <1>5, <1>6, <1>7, <1>8, <1>9, <1>10
     DEF ServerInv

LEMMA TestAcceptErrorKeeps ==
  ASSUME ServerInv, TestAcceptError
  PROVE  ServerInv'
<1> USE DEF TestAcceptError, OnAcceptError, Main, Exits, Lives, signalVars, peerVars, fileVars, readVars,
     counters, HandlerAt
<1>1. ControlTypes'
  BY DEF ServerInv, ControlTypes, Steps
<1>2. DescriptorTypes'
  BY DEF ServerInv, DescriptorTypes
<1>3. ClientTypes'
  BY DEF ServerInv, ClientTypes
<1>4. FileTypes'
  BY DEF ServerInv, FileTypes
<1>5. HandlersInv'
  BY DEF ServerInv, HandlersInv
<1>6. ProcessInv'
  BY DEF ServerInv, ControlTypes, DescriptorTypes, ClientTypes, Steps, HandlersInv,
     ProcessInv, DescriptorInv, ListenerInv, Session, Loop
<1>7. DescriptorInv'
  BY DEF ServerInv, ControlTypes, DescriptorTypes, Steps, Descriptors, ProcessInv,
     DescriptorInv, HandlersInv, ListenerInv, Session, Loop
<1>8. ListenerInv'
  BY DEF ServerInv, ControlTypes, DescriptorTypes, Steps, Descriptors, HandlersInv,
     ProcessInv, DescriptorInv, ListenerInv, Session, Loop
<1>9. QueueInv'
  BY DEF ServerInv, ControlTypes, ClientTypes, ProcessInv, QueueInv, Session
<1>10. CountInv'
  BY DEF ServerInv, ControlTypes, ClientTypes, ProcessInv, QueueInv, CountInv,
     Session, Received
<1> QED  BY <1>1, <1>2, <1>3, <1>4, <1>5, <1>6, <1>7, <1>8, <1>9, <1>10
     DEF ServerInv

LEMMA ExitOnErrorKeeps ==
  ASSUME ServerInv, ExitOnError
  PROVE  ServerInv'
<1> USE DEF ExitOnError, Main, Exits, Lives, signalVars, peerVars, fileVars, readVars,
     counters, HandlerAt
<1>1. ControlTypes'
  BY DEF ServerInv, ControlTypes, Steps
<1>2. DescriptorTypes'
  BY DEF ServerInv, DescriptorTypes
<1>3. ClientTypes'
  BY DEF ServerInv, ClientTypes
<1>4. FileTypes'
  BY DEF ServerInv, FileTypes
<1>5. HandlersInv'
  BY DEF ServerInv, HandlersInv
<1>6. ProcessInv'
  BY DEF ServerInv, ControlTypes, DescriptorTypes, ClientTypes, Steps, HandlersInv,
     ProcessInv, DescriptorInv, ListenerInv, Session, Loop
<1>7. DescriptorInv'
  BY DEF ServerInv, ControlTypes, DescriptorTypes, Steps, Descriptors, ProcessInv,
     DescriptorInv, HandlersInv, ListenerInv, Session, Loop
<1>8. ListenerInv'
  BY DEF ServerInv, ControlTypes, DescriptorTypes, Steps, Descriptors, HandlersInv,
     ProcessInv, DescriptorInv, ListenerInv, Session, Loop
<1>9. QueueInv'
  BY DEF ServerInv, ControlTypes, ClientTypes, ProcessInv, QueueInv, Session
<1>10. CountInv'
  BY DEF ServerInv, ControlTypes, ClientTypes, ProcessInv, QueueInv, CountInv,
     Session, Received
<1> QED  BY <1>1, <1>2, <1>3, <1>4, <1>5, <1>6, <1>7, <1>8, <1>9, <1>10
     DEF ServerInv

LEMMA ReceiveKeeps ==
  ASSUME ServerInv, Receive
  PROVE  ServerInv'
<1> USE DEF Receive, AfterFirstPart, Status, Scraped, Main, Exits, Lives,
     signalVars, peerVars, fileVars, readVars, counters, HandlerAt
<1>1. ControlTypes'
  BY DEF ServerInv, ControlTypes, Steps
<1>2. DescriptorTypes'
  BY DEF ServerInv, DescriptorTypes
<1>3. ClientTypes'
  <2>1. PICK p \in served :
          \/ peer[p] = "gone" /\ pc' = "close" /\ UNCHANGED <<answer, scrapes>>
          \/ /\ peer[p] = "sent" /\ pc' = AfterFirstPart(request[p])
             /\ answer' = IF pc' = "close" THEN [answer EXCEPT ![p] = Status(request[p])]
                          ELSE answer
    OBVIOUS
  <2>2. CASE peer[p] = "gone" /\ pc' = "close" /\ UNCHANGED <<answer, scrapes>>
    BY <2>2 DEF ServerInv, ClientTypes
  <2>3. CASE /\ peer[p] = "sent" /\ pc' = AfterFirstPart(request[p])
             /\ answer' = IF pc' = "close" THEN [answer EXCEPT ![p] = Status(request[p])]
                          ELSE answer
    <3>1. p \in Peers /\ request[p] \in AllRequests /\ request[p] # "silent"
      BY <2>3 DEF ServerInv, ClientTypes, QueueInv
    <3>2. request[p] \notin {"readyz", "metrics"} =>
            Status(request[p]) \in {0, 200, 400, 404, 405, 503}
      BY <3>1 DEF AllRequests, Paths
    <3>3. answer' \in [Peers -> {0, 200, 400, 404, 405, 503}] /\ pc' \in {"open", "close"}
      <4> HIDE DEF Status
      <4> QED  BY <2>3, <3>1, <3>2 DEF ServerInv, ClientTypes
    <3> HIDE DEF Status
    <3> QED  BY <3>3 DEF ServerInv, ClientTypes
  <2> QED  BY <2>1, <2>2, <2>3
<1>4. FileTypes'
  BY DEF ServerInv, FileTypes
<1>5. HandlersInv'
  BY DEF ServerInv, HandlersInv
<1>6. ProcessInv'
  BY DEF ServerInv, ControlTypes, DescriptorTypes, ClientTypes, Steps, HandlersInv,
     ProcessInv, DescriptorInv, ListenerInv, Session, Loop
<1>7. DescriptorInv'
  BY DEF ServerInv, ControlTypes, DescriptorTypes, Steps, Descriptors, ProcessInv,
     DescriptorInv, HandlersInv, ListenerInv, Session, Loop
<1>8. ListenerInv'
  BY DEF ServerInv, ControlTypes, DescriptorTypes, Steps, Descriptors, HandlersInv,
     ProcessInv, DescriptorInv, ListenerInv, Session, Loop
<1>9. QueueInv'
  BY DEF ServerInv, ControlTypes, ClientTypes, ProcessInv, QueueInv, Session
<1>10. CountInv'
  <2>1. PICK p \in served :
          \/ peer[p] = "gone" /\ pc' = "close" /\ UNCHANGED <<answer, scrapes>>
          \/ peer[p] = "sent" /\ pc' = AfterFirstPart(request[p]) /\ scrapes' = Scraped(p)
    OBVIOUS
  <2>2. pc = "recv" /\ pc' # "recv" /\ p \in Peers
    BY <2>1 DEF ServerInv, ClientTypes
  <2>3. p \notin Received /\ Received \subseteq Peers
    BY <2>1, <2>2 DEF Received
  <2>4. Received \cup {p} \subseteq Received' /\ Received' \subseteq Peers
    BY <2>1, <2>2 DEF ServerInv, ClientTypes, QueueInv, Received
  <2>5. IsFiniteSet(Received') /\ IsFiniteSet(Received \cup {p}) /\ IsFiniteSet(Received)
    BY <2>2, <2>3, <2>4, ExporterServerAssumption, FS_Subset
  <2>6. Cardinality(Received \cup {p}) = Cardinality(Received) + 1
    BY <2>3, <2>5, FS_AddElement
  <2>7. Cardinality(Received \cup {p}) <= Cardinality(Received')
    BY <2>4, <2>5, FS_Subset
  <2>8. Cardinality(Received) \in Nat /\ Cardinality(Received') \in Nat
    BY <2>5, FS_CardinalityType
  <2>9. served = {p}
    BY <2>1 DEF ServerInv, ProcessInv
  <2>10. scrapes \in Nat /\ failures \in Nat /\ failures <= scrapes /\ scrapes <= Cardinality(Received)
    BY DEF ServerInv, CountInv
  <2>11. scrapes' = scrapes \/ scrapes' = scrapes + 1
    BY <2>1
  <2>12. scrapes' \in Nat /\ failures' \in Nat /\ failures' <= scrapes' /\ scrapes' <= Cardinality(Received')
    BY <2>6, <2>7, <2>8, <2>10, <2>11
  <2>13. pc' \in {"open", "read", "parse"} /\ request[p] = "metrics" => failures' < scrapes'
    BY <2>1, <2>10
  <2> QED  BY <2>9, <2>12, <2>13 DEF CountInv
<1> QED  BY <1>1, <1>2, <1>3, <1>4, <1>5, <1>6, <1>7, <1>8, <1>9, <1>10
     DEF ServerInv

LEMMA OpenFileKeeps ==
  ASSUME ServerInv, OpenFile
  PROVE  ServerInv'
<1> USE DEF OpenFile, Opened, Main, Exits, Lives, signalVars, peerVars, fileVars,
     readVars, counters, HandlerAt
<1>0. LowestFree \in Descriptors /\ descriptors[LowestFree] = "free"
  <2>1. \E d \in Descriptors : descriptors[d] = "free"
    BY DEF ServerInv, ControlTypes, DescriptorTypes, DescriptorInv, ProcessInv,
       Descriptors, Session
  <2> QED  BY <2>1, SomeDescriptorIsFree
<1> HIDE DEF LowestFree
<1>1. ControlTypes'
  BY <1>0 DEF ServerInv, ControlTypes, Steps
<1>2. DescriptorTypes'
  BY <1>0 DEF ServerInv, DescriptorTypes
<1>3. ClientTypes'
  BY <1>0 DEF ServerInv, ClientTypes
<1>4. FileTypes'
  BY <1>0 DEF ServerInv, FileTypes
<1>5. HandlersInv'
  BY <1>0 DEF ServerInv, HandlersInv
<1>6. ProcessInv'
  BY <1>0
     DEF ServerInv, ControlTypes, DescriptorTypes, ClientTypes, Steps, HandlersInv,
        ProcessInv, DescriptorInv, ListenerInv, Session, Loop
<1>7. DescriptorInv'
  BY <1>0
     DEF ServerInv, ControlTypes, DescriptorTypes, Steps, Descriptors, ProcessInv,
        DescriptorInv, HandlersInv, ListenerInv, Session, Loop
<1>8. ListenerInv'
  BY <1>0
     DEF ServerInv, ControlTypes, DescriptorTypes, Steps, Descriptors, HandlersInv,
        ProcessInv, DescriptorInv, ListenerInv, Session, Loop
<1>9. QueueInv'
  BY <1>0 DEF ServerInv, ControlTypes, ClientTypes, ProcessInv, QueueInv, Session
<1>10. CountInv'
  BY <1>0
     DEF ServerInv, ControlTypes, ClientTypes, ProcessInv, QueueInv, CountInv,
        Session, Received
<1> QED  BY <1>1, <1>2, <1>3, <1>4, <1>5, <1>6, <1>7, <1>8, <1>9, <1>10
     DEF ServerInv

LEMMA ReadMoreKeeps ==
  ASSUME ServerInv, ReadMore
  PROVE  ServerInv'
<1> USE DEF ReadMore, Offset, Main, Exits, Lives, signalVars, peerVars, fileVars,
     readVars, counters, HandlerAt
<1>1. ControlTypes'
  BY DEF ServerInv, ControlTypes, Steps
<1>2. DescriptorTypes'
  BY DEF ServerInv, DescriptorTypes
<1>3. ClientTypes'
  BY DEF ServerInv, ClientTypes
<1>4. FileTypes'
  <2>1. Offset \in Nat
    <3>1. CASE contents = <<>>
      BY <3>1
    <3>2. CASE contents # <<>>
      <4>1. contents \in Seq(Parts)
        BY DEF ServerInv, FileTypes
      <4>2. Last(contents) \in Parts
        BY <3>2, <4>1 DEF Last
      <4> QED  BY <3>2, <4>2 DEF Parts
    <3> QED  BY <3>1, <3>2
  <2> HIDE DEF Offset
  <2>2. [doc |-> file.doc, from |-> Offset, to |-> file.length] \in Parts
    BY <2>1 DEF ServerInv, FileTypes, Parts
  <2>3. contents' \in Seq(Parts)
    BY <2>2 DEF ServerInv, FileTypes
  <2> QED  BY <2>3 DEF ServerInv, FileTypes
<1>5. HandlersInv'
  BY DEF ServerInv, HandlersInv
<1>6. ProcessInv'
  BY DEF ServerInv, ControlTypes, DescriptorTypes, ClientTypes, Steps, HandlersInv,
     ProcessInv, DescriptorInv, ListenerInv, Session, Loop
<1>7. DescriptorInv'
  BY DEF ServerInv, ControlTypes, DescriptorTypes, Steps, Descriptors, ProcessInv,
     DescriptorInv, HandlersInv, ListenerInv, Session, Loop
<1>8. ListenerInv'
  BY DEF ServerInv, ControlTypes, DescriptorTypes, Steps, Descriptors, HandlersInv,
     ProcessInv, DescriptorInv, ListenerInv, Session, Loop
<1>9. QueueInv'
  BY DEF ServerInv, ControlTypes, ClientTypes, ProcessInv, QueueInv, Session
<1>10. CountInv'
  BY DEF ServerInv, ControlTypes, ClientTypes, ProcessInv, QueueInv, CountInv,
     Session, Received
<1> QED  BY <1>1, <1>2, <1>3, <1>4, <1>5, <1>6, <1>7, <1>8, <1>9, <1>10
     DEF ServerInv

LEMMA ReadEndsKeeps ==
  ASSUME ServerInv, ReadEnds
  PROVE  ServerInv'
<1> USE DEF ReadEnds, Closed, Main, Exits, Lives, signalVars, peerVars, fileVars,
     readVars, counters, HandlerAt
<1>1. ControlTypes'
  BY DEF ServerInv, ControlTypes, Steps
<1>2. DescriptorTypes'
  BY DEF ServerInv, DescriptorTypes
<1>3. ClientTypes'
  BY DEF ServerInv, ClientTypes
<1>4. FileTypes'
  <2>1. reading' = ParseSnapshot(Text(contents))
    OBVIOUS
  <2>2. AtMostOne(reading')
    BY <2>1, ContentsAreText, SnapshotIsOne DEF ServerInv, FileTypes
  <2>3. AtMostOne(reading)'
    BY <2>2 DEF AtMostOne
  <2> QED  BY <2>3 DEF ServerInv, FileTypes
<1>5. HandlersInv'
  BY DEF ServerInv, HandlersInv
<1>6. ProcessInv'
  BY DEF ServerInv, ControlTypes, DescriptorTypes, ClientTypes, Steps, HandlersInv,
     ProcessInv, DescriptorInv, ListenerInv, Session, Loop
<1>7. DescriptorInv'
  BY DEF ServerInv, ControlTypes, DescriptorTypes, Steps, Descriptors, ProcessInv,
     DescriptorInv, HandlersInv, ListenerInv, Session, Loop
<1>8. ListenerInv'
  BY DEF ServerInv, ControlTypes, DescriptorTypes, Steps, Descriptors, HandlersInv,
     ProcessInv, DescriptorInv, ListenerInv, Session, Loop
<1>9. QueueInv'
  BY DEF ServerInv, ControlTypes, ClientTypes, ProcessInv, QueueInv, Session
<1>10. CountInv'
  BY DEF ServerInv, ControlTypes, ClientTypes, ProcessInv, QueueInv, CountInv,
     Session, Received
<1> QED  BY <1>1, <1>2, <1>3, <1>4, <1>5, <1>6, <1>7, <1>8, <1>9, <1>10
     DEF ServerInv

LEMMA AnswerKeeps ==
  ASSUME ServerInv, Answer
  PROVE  ServerInv'
<1> USE DEF Answer, Main, Exits, Lives, signalVars, peerVars, fileVars, readVars,
     counters, HandlerAt
<1>1. ControlTypes'
  <2>1. CASE once
    <3>1. pc' = "exited" /\ (exit' = {0} \/ exit' = {2})
      BY <2>1
    <3> QED  BY <3>1 DEF ServerInv, ControlTypes, Steps
  <2>2. CASE ~once
    <3>1. pc' = "close" /\ exit' = exit /\ pc = "parse"
      BY <2>2
    <3> QED  BY <3>1 DEF ServerInv, ControlTypes, Steps
  <2> QED  BY <2>1, <2>2
<1>2. DescriptorTypes'
  BY DEF ServerInv, DescriptorTypes
<1>3. ClientTypes'
  BY DEF ServerInv, ClientTypes
<1>4. FileTypes'
  <2>1. AtMostOne(reading)'
    BY DEF AtMostOne
  <2>2. contents' \in Seq(Parts)
    OBVIOUS
  <2> QED  BY <2>1, <2>2 DEF ServerInv, FileTypes
<1>5. HandlersInv'
  BY DEF ServerInv, HandlersInv
<1>6. ProcessInv'
  BY DEF ServerInv, ControlTypes, DescriptorTypes, ClientTypes, Steps, HandlersInv,
     ProcessInv, DescriptorInv, ListenerInv, Session, Loop
<1>7. DescriptorInv'
  BY DEF ServerInv, ControlTypes, DescriptorTypes, Steps, Descriptors, ProcessInv,
     DescriptorInv, HandlersInv, ListenerInv, Session, Loop
<1>8. ListenerInv'
  BY DEF ServerInv, ControlTypes, DescriptorTypes, Steps, Descriptors, HandlersInv,
     ProcessInv, DescriptorInv, ListenerInv, Session, Loop
<1>9. QueueInv'
  BY DEF ServerInv, ControlTypes, ClientTypes, ProcessInv, QueueInv, Session
<1>10. CountInv'
  <2>1. Received \subseteq Received' /\ scrapes' = scrapes
    BY DEF ServerInv, ControlTypes, ClientTypes, ProcessInv, QueueInv, Received,
       Session
  <2>2. scrapes' <= Cardinality(Received')
    BY <2>1, ReceivedKept DEF ServerInv
  <2> QED  BY <2>1, <2>2 DEF ServerInv, ControlTypes, ProcessInv, CountInv, Session
<1> QED  BY <1>1, <1>2, <1>3, <1>4, <1>5, <1>6, <1>7, <1>8, <1>9, <1>10
     DEF ServerInv

LEMMA CloseClientKeeps ==
  ASSUME ServerInv, CloseClient
  PROVE  ServerInv'
<1> USE DEF CloseClient, Closed, Main, Exits, Lives, signalVars, peerVars,
     fileVars, readVars, counters, HandlerAt
<1>1. ControlTypes'
  BY DEF ServerInv, ControlTypes, Steps
<1>2. DescriptorTypes'
  BY DEF ServerInv, DescriptorTypes
<1>3. ClientTypes'
  BY DEF ServerInv, ClientTypes
<1>4. FileTypes'
  BY DEF ServerInv, FileTypes
<1>5. HandlersInv'
  BY DEF ServerInv, HandlersInv
<1>6. ProcessInv'
  BY DEF ServerInv, ControlTypes, DescriptorTypes, ClientTypes, Steps, HandlersInv,
     ProcessInv, DescriptorInv, ListenerInv, Session, Loop
<1>7. DescriptorInv'
  BY DEF ServerInv, ControlTypes, DescriptorTypes, Steps, Descriptors, ProcessInv,
     DescriptorInv, HandlersInv, ListenerInv, Session, Loop
<1>8. ListenerInv'
  BY DEF ServerInv, ControlTypes, DescriptorTypes, Steps, Descriptors, HandlersInv,
     ProcessInv, DescriptorInv, ListenerInv, Session, Loop
<1>9. QueueInv'
  BY DEF ServerInv, ControlTypes, ClientTypes, ProcessInv, QueueInv, Session
<1>10. CountInv'
  <2>1. Received \subseteq Received' /\ scrapes' = scrapes
    BY DEF ServerInv, ControlTypes, ClientTypes, ProcessInv, QueueInv, Received,
       Session
  <2>2. scrapes' <= Cardinality(Received')
    BY <2>1, ReceivedKept DEF ServerInv
  <2> QED  BY <2>1, <2>2 DEF ServerInv, ControlTypes, ProcessInv, CountInv, Session
<1> QED  BY <1>1, <1>2, <1>3, <1>4, <1>5, <1>6, <1>7, <1>8, <1>9, <1>10
     DEF ServerInv

LEMMA FinishKeeps ==
  ASSUME ServerInv, Finish
  PROVE  ServerInv'
<1> USE DEF Finish, Main, Exits, Lives, signalVars, peerVars, fileVars,
     readVars, counters, HandlerAt
<1>1. ControlTypes'
  BY DEF ServerInv, ControlTypes, Steps
<1>2. DescriptorTypes'
  BY DEF ServerInv, DescriptorTypes
<1>3. ClientTypes'
  BY DEF ServerInv, ClientTypes
<1>4. FileTypes'
  BY DEF ServerInv, FileTypes
<1>5. HandlersInv'
  BY DEF ServerInv, HandlersInv
<1>6. ProcessInv'
  <2>1. {0} # {2}
    OBVIOUS
  <2> QED  BY <2>1
       DEF ServerInv, ControlTypes, Steps, HandlersInv, ProcessInv, Session
<1>7. DescriptorInv'
  BY DEF ServerInv, ControlTypes, DescriptorTypes, Steps, Descriptors, ProcessInv,
     DescriptorInv, HandlersInv, ListenerInv, Session, Loop
<1>8. ListenerInv'
  BY DEF ServerInv, ControlTypes, DescriptorTypes, Steps, Descriptors, HandlersInv,
     ProcessInv, DescriptorInv, ListenerInv, Session, Loop
<1>9. QueueInv'
  BY DEF ServerInv, ControlTypes, ClientTypes, ProcessInv, QueueInv, Session
<1>10. CountInv'
  <2>1. Received \subseteq Received' /\ scrapes' = scrapes
    BY DEF ServerInv, ControlTypes, ClientTypes, ProcessInv, QueueInv, Received,
       Session
  <2>2. scrapes' <= Cardinality(Received')
    BY <2>1, ReceivedKept DEF ServerInv
  <2> QED  BY <2>1, <2>2 DEF ServerInv, ControlTypes, ProcessInv, CountInv, Session
<1> QED  BY <1>1, <1>2, <1>3, <1>4, <1>5, <1>6, <1>7, <1>8, <1>9, <1>10
     DEF ServerInv

LEMMA CloseServerKeeps ==
  ASSUME ServerInv, CloseServer
  PROVE  ServerInv'
<1> USE DEF CloseServer, Closed, Main, Exits, Lives, signalVars, peerVars, fileVars,
     readVars, counters, HandlerAt
<1>1. ControlTypes'
  BY DEF ServerInv, ControlTypes, Steps
<1>2. DescriptorTypes'
  BY DEF ServerInv, DescriptorTypes
<1>3. ClientTypes'
  BY DEF ServerInv, ClientTypes
<1>4. FileTypes'
  BY DEF ServerInv, FileTypes
<1>5. HandlersInv'
  BY DEF ServerInv, HandlersInv
<1>6. ProcessInv'
  <2>1. {0} # {2}
    OBVIOUS
  <2> QED  BY <2>1
       DEF ServerInv, ControlTypes, Steps, HandlersInv, ProcessInv, Session
<1>7. DescriptorInv'
  BY DEF ServerInv, ControlTypes, DescriptorTypes, Steps, Descriptors, ProcessInv,
     DescriptorInv, HandlersInv, ListenerInv, Session, Loop
<1>8. ListenerInv'
  BY DEF ServerInv, ControlTypes, DescriptorTypes, Steps, Descriptors, HandlersInv,
     ProcessInv, DescriptorInv, ListenerInv, Session, Loop
<1>9. QueueInv'
  BY DEF ServerInv, ControlTypes, ClientTypes, ProcessInv, QueueInv, Session
<1>10. CountInv'
  <2>1. Received \subseteq Received' /\ scrapes' = scrapes
    BY DEF ServerInv, ControlTypes, ClientTypes, ProcessInv, QueueInv, Received,
       Session
  <2>2. scrapes' <= Cardinality(Received')
    BY <2>1, ReceivedKept DEF ServerInv
  <2> QED  BY <2>1, <2>2 DEF ServerInv, ControlTypes, ProcessInv, CountInv, Session
<1> QED  BY <1>1, <1>2, <1>3, <1>4, <1>5, <1>6, <1>7, <1>8, <1>9, <1>10
     DEF ServerInv

LEMMA ForgetKeeps ==
  ASSUME ServerInv, Forget
  PROVE  ServerInv'
<1> USE DEF Forget, Main, Exits, Lives, signalVars, peerVars, fileVars, readVars,
     counters, HandlerAt
<1>1. ControlTypes'
  BY DEF ServerInv, ControlTypes, Steps
<1>2. DescriptorTypes'
  BY DEF ServerInv, DescriptorTypes
<1>3. ClientTypes'
  BY DEF ServerInv, ClientTypes
<1>4. FileTypes'
  BY DEF ServerInv, FileTypes
<1>5. HandlersInv'
  BY DEF ServerInv, HandlersInv
<1>6. ProcessInv'
  <2>1. {0} # {2}
    OBVIOUS
  <2> QED  BY <2>1
       DEF ServerInv, ControlTypes, Steps, HandlersInv, ProcessInv, Session
<1>7. DescriptorInv'
  BY DEF ServerInv, ControlTypes, DescriptorTypes, Steps, Descriptors, ProcessInv,
     DescriptorInv, HandlersInv, ListenerInv, Session, Loop
<1>8. ListenerInv'
  BY DEF ServerInv, ControlTypes, DescriptorTypes, Steps, Descriptors, HandlersInv,
     ProcessInv, DescriptorInv, ListenerInv, Session, Loop
<1>9. QueueInv'
  BY DEF ServerInv, ControlTypes, ClientTypes, ProcessInv, QueueInv, Session
<1>10. CountInv'
  BY DEF ServerInv, ControlTypes, ClientTypes, ProcessInv, QueueInv, CountInv,
     Session, Received
<1> QED  BY <1>1, <1>2, <1>3, <1>4, <1>5, <1>6, <1>7, <1>8, <1>9, <1>10
     DEF ServerInv

LEMMA DeliverKeeps ==
  ASSUME ServerInv, Deliver
  PROVE  ServerInv'
<1> USE DEF Deliver, Serving, Main, Exits, Lives, signalVars, peerVars, fileVars,
     readVars, counters, HandlerAt
<1>1. ControlTypes'
  BY ExporterServerAssumption DEF ServerInv, ControlTypes, Steps
<1>2. DescriptorTypes'
  BY DEF ServerInv, DescriptorTypes
<1>3. ClientTypes'
  BY DEF ServerInv, ClientTypes
<1>4. FileTypes'
  BY DEF ServerInv, FileTypes
<1>5. HandlersInv'
  <2>1. PICK s \in Signals :
          /\ \A k \in DOMAIN handlers : handlers[k].signal # s
          /\ handlers' = <<[signal |-> s, at |-> "flag"]>> \o handlers
    OBVIOUS
  <2>2. /\ handlers \in Seq(Handlers) /\ Len(handlers) <= 2
        /\ (Len(handlers) = 2 => handlers[1].signal # handlers[2].signal)
    BY DEF ServerInv, HandlersInv
  <2>3. [signal |-> s, at |-> "flag"] \in Handlers
    BY DEF Handlers, HandlerSteps
  <2>4. /\ handlers' \in Seq(Handlers) /\ Len(handlers') = Len(handlers) + 1
        /\ handlers'[1] = [signal |-> s, at |-> "flag"]
        /\ \A k \in DOMAIN handlers : handlers'[k + 1] = handlers[k]
    BY <2>1, <2>2, <2>3, HandlersGrow
  <2>5. Len(handlers) < 2
    <3>0. Len(handlers) < 2 \/ Len(handlers) = 2
      BY <2>1, <2>2, <2>3, HandlersGrow
    <3> SUFFICES ASSUME Len(handlers) = 2 PROVE FALSE
      BY <3>0
    <3>1. 1 \in DOMAIN handlers /\ 2 \in DOMAIN handlers
      BY <2>2
    <3>3. handlers[1] \in Handlers /\ handlers[2] \in Handlers
      BY <2>2, <3>1
    <3>2. handlers[1].signal \in Signals /\ handlers[2].signal \in Signals
      BY <3>3 DEF Handlers
    <3> QED  BY <2>1, <2>2, <3>1, <3>2 DEF Signals
  <2>6. Len(handlers) = 1 => handlers'[2].signal # s
    BY <2>1, <2>2, <2>4
  <2> QED  BY <2>2, <2>4, <2>5, <2>6 DEF HandlersInv
<1>6. ProcessInv'
  BY DEF ServerInv, ControlTypes, DescriptorTypes, ClientTypes, Steps, HandlersInv,
     ProcessInv, DescriptorInv, ListenerInv, Session, Loop
<1>7. DescriptorInv'
  BY DEF ServerInv, ControlTypes, DescriptorTypes, Steps, Descriptors, ProcessInv,
     DescriptorInv, HandlersInv, ListenerInv, Session, Loop
<1>8. ListenerInv'
  <2>1. PICK s \in Signals : handlers' = <<[signal |-> s, at |-> "flag"]>> \o handlers
    OBVIOUS
  <2>2. [signal |-> s, at |-> "flag"] \in Handlers
    BY DEF Handlers, HandlerSteps
  <2>3. handlers \in Seq(Handlers)
    BY DEF ServerInv, HandlersInv
  <2>4. \A k \in DOMAIN handlers : k + 1 \in DOMAIN handlers' /\ handlers'[k + 1] = handlers[k]
    BY <2>1, <2>2, <2>3, HandlersGrow
  <2>5. \A k \in DOMAIN handlers' : k # 1 => k - 1 \in DOMAIN handlers /\ handlers'[k] = handlers[k - 1]
    BY <2>1, <2>2, <2>3, HandlersGrow
  <2>6. handlers'[1].at = "flag"
    BY <2>1, <2>2, <2>3, HandlersGrow
  <2>7. HandlerAt({"reset"}) <=> HandlerAt({"reset"})'
    BY <2>4, <2>5, <2>6
  <2>8. HandlerAt({"close", "reset"}) <=> HandlerAt({"close", "reset"})'
    BY <2>4, <2>5, <2>6
  <2> HIDE DEF HandlerAt
  <2> QED  BY <2>7, <2>8 DEF ServerInv, ListenerInv
<1>9. QueueInv'
  BY DEF ServerInv, ControlTypes, ClientTypes, ProcessInv, QueueInv, Session
<1>10. CountInv'
  BY DEF ServerInv, ControlTypes, ClientTypes, ProcessInv, QueueInv, CountInv,
     Session, Received
<1> QED  BY <1>1, <1>2, <1>3, <1>4, <1>5, <1>6, <1>7, <1>8, <1>9, <1>10
     DEF ServerInv

LEMMA RequestStopKeeps ==
  ASSUME ServerInv, RequestStop, HandlerFrame
  PROVE  ServerInv'
<1> USE DEF RequestStop, Handler, HandlerGoto, Main, Exits, Lives, signalVars,
     peerVars, fileVars, readVars, counters, HandlerAt, HandlerFrame
<1>1. ControlTypes'
  BY DEF ServerInv, ControlTypes, Steps
<1>2. DescriptorTypes'
  BY DEF ServerInv, DescriptorTypes
<1>3. ClientTypes'
  BY DEF ServerInv, ClientTypes
<1>4. FileTypes'
  BY DEF ServerInv, FileTypes
<1>5. HandlersInv'
  <2>1. /\ handlers \in Seq(Handlers) /\ Len(handlers) <= 2
        /\ (Len(handlers) = 2 => handlers[1].signal # handlers[2].signal)
    BY DEF ServerInv, HandlersInv
  <2>2. "test" \in HandlerSteps
    BY DEF HandlerSteps
  <2>3. /\ handlers' \in Seq(Handlers) /\ Len(handlers') = Len(handlers)
        /\ \A k \in DOMAIN handlers : handlers'[k].signal = handlers[k].signal
    BY <2>1, <2>2, HandlersMove
  <2> QED  BY <2>1, <2>3 DEF HandlersInv
<1>6. ProcessInv'
  BY SMTT(30)
  DEF ServerInv, ControlTypes, DescriptorTypes, ClientTypes, Steps, HandlersInv,
     ProcessInv, DescriptorInv, ListenerInv, Session, Loop
<1>7. DescriptorInv'
  BY DEF ServerInv, ControlTypes, DescriptorTypes, Steps, Descriptors, ProcessInv,
     DescriptorInv, HandlersInv, ListenerInv, Session, Loop
<1>8. ListenerInv'
  BY DEF ServerInv, ControlTypes, DescriptorTypes, Steps, Descriptors, HandlersInv,
     ProcessInv, DescriptorInv, ListenerInv, Session, Loop
<1>9. QueueInv'
  BY DEF ServerInv, ControlTypes, ClientTypes, ProcessInv, QueueInv, Session
<1>10. CountInv'
  BY DEF ServerInv, ControlTypes, ClientTypes, ProcessInv, QueueInv, CountInv,
     Session, Received
<1> QED  BY <1>1, <1>2, <1>3, <1>4, <1>5, <1>6, <1>7, <1>8, <1>9, <1>10
     DEF ServerInv

LEMMA TestListenerKeeps ==
  ASSUME ServerInv, TestListener, HandlerFrame
  PROVE  ServerInv'
<1> USE DEF TestListener, Handler, HandlerGoto, HandlerReturns, Main, Exits, Lives,
     signalVars, peerVars, fileVars, readVars, counters, HandlerAt, HandlerFrame
<1>1. ControlTypes'
  BY DEF ServerInv, ControlTypes, Steps
<1>2. DescriptorTypes'
  BY DEF ServerInv, DescriptorTypes
<1>3. ClientTypes'
  BY DEF ServerInv, ClientTypes
<1>4. FileTypes'
  BY DEF ServerInv, FileTypes
<1>5. HandlersInv'
  <2>1. CASE listening_socket >= 0
    <3>1. /\ handlers \in Seq(Handlers) /\ Len(handlers) <= 2
          /\ (Len(handlers) = 2 => handlers[1].signal # handlers[2].signal)
      BY DEF ServerInv, HandlersInv
    <3>2. "close" \in HandlerSteps
      BY DEF HandlerSteps
    <3>3. /\ handlers' \in Seq(Handlers) /\ Len(handlers') = Len(handlers)
          /\ \A k \in DOMAIN handlers : handlers'[k].signal = handlers[k].signal
      BY <3>1, <3>2, <2>1, HandlersMove
    <3> QED  BY <3>1, <3>3 DEF HandlersInv
  <2>2. CASE ~(listening_socket >= 0)
    <3>1. handlers \in Seq(Handlers) /\ Len(handlers) <= 2 /\ Len(handlers) \in Nat
      BY DEF ServerInv, HandlersInv
    <3>2. handlers' \in Seq(Handlers) /\ Len(handlers') <= 2 /\ Len(handlers') # 2
      BY <3>1, <2>2, HandlersShrink
    <3> QED  BY <3>2 DEF HandlersInv
  <2> QED  BY <2>1, <2>2
<1>6. ProcessInv'
  BY DEF ServerInv, ControlTypes, DescriptorTypes, ClientTypes, Steps, HandlersInv,
     ProcessInv, DescriptorInv, ListenerInv, Session, Loop
<1>7. DescriptorInv'
  BY DEF ServerInv, ControlTypes, DescriptorTypes, Steps, Descriptors, ProcessInv,
     DescriptorInv, HandlersInv, ListenerInv, Session, Loop
<1>8. ListenerInv'
  <2>1. handlers \in Seq(Handlers) /\ 1 \in DOMAIN handlers /\ handlers[1].at = "test"
    BY DEF ServerInv, HandlersInv
  <2>2. CASE listening_socket >= 0
    <3>1. "close" \in HandlerSteps
      BY DEF HandlerSteps
    <3>2. /\ DOMAIN handlers' = DOMAIN handlers /\ handlers'[1].at = "close"
          /\ \A k \in DOMAIN handlers : k # 1 => handlers'[k] = handlers[k]
      BY <2>1, <2>2, <3>1, HandlersMove
    <3>3. HandlerAt({"reset"}) <=> HandlerAt({"reset"})'
      BY <2>1, <3>2
    <3> HIDE DEF HandlerAt
    <3> QED  BY <2>2, <3>3 DEF ServerInv, ListenerInv
  <2>3. CASE ~(listening_socket >= 0)
    <3>1. listening_socket = -1
      BY <2>3 DEF ServerInv, DescriptorTypes, Descriptors
    <3>2. /\ Len(handlers') = Len(handlers) - 1
          /\ \A k \in DOMAIN handlers' : handlers'[k] = handlers[k + 1] /\ k + 1 \in DOMAIN handlers
      BY <2>1, <2>3, HandlersShrink
    <3>3. HandlerAt({"close", "reset"})' => HandlerAt({"close", "reset"})
      BY <3>2
    <3> HIDE DEF HandlerAt
    <3> QED  BY <3>1, <3>3 DEF ServerInv, ListenerInv
  <2> QED  BY <2>2, <2>3
<1>9. QueueInv'
  BY DEF ServerInv, ControlTypes, ClientTypes, ProcessInv, QueueInv, Session
<1>10. CountInv'
  BY DEF ServerInv, ControlTypes, ClientTypes, ProcessInv, QueueInv, CountInv,
     Session, Received
<1> QED  BY <1>1, <1>2, <1>3, <1>4, <1>5, <1>6, <1>7, <1>8, <1>9, <1>10
     DEF ServerInv

LEMMA CloseListenerKeeps ==
  ASSUME ServerInv, CloseListener, HandlerFrame
  PROVE  ServerInv'
<1> USE DEF CloseListener, ListenerClosed, Closed, Handler, HandlerGoto, Main,
     Exits, Lives, signalVars, peerVars, fileVars, readVars, counters, HandlerAt,
     HandlerFrame
<1>1. ControlTypes'
  BY DEF ServerInv, ControlTypes, Steps
<1>2. DescriptorTypes'
  BY DEF ServerInv, DescriptorTypes
<1>3. ClientTypes'
  BY DEF ServerInv, ClientTypes
<1>4. FileTypes'
  BY DEF ServerInv, FileTypes
<1>5. HandlersInv'
  <2>1. /\ handlers \in Seq(Handlers) /\ Len(handlers) <= 2
        /\ (Len(handlers) = 2 => handlers[1].signal # handlers[2].signal)
    BY DEF ServerInv, HandlersInv
  <2>2. "reset" \in HandlerSteps
    BY DEF HandlerSteps
  <2>3. /\ handlers' \in Seq(Handlers) /\ Len(handlers') = Len(handlers)
        /\ \A k \in DOMAIN handlers : handlers'[k].signal = handlers[k].signal
    BY <2>1, <2>2, HandlersMove
  <2> QED  BY <2>1, <2>3 DEF HandlersInv
<1>6. ProcessInv'
  BY DEF ServerInv, ControlTypes, DescriptorTypes, ClientTypes, Steps, HandlersInv,
     ProcessInv, DescriptorInv, ListenerInv, Session, Loop
<1>7. DescriptorInv'
  BY DEF ServerInv, ControlTypes, DescriptorTypes, Steps, Descriptors, ProcessInv,
     DescriptorInv, HandlersInv, ListenerInv, Session, Loop
<1>8. ListenerInv'
  BY DEF ServerInv, ControlTypes, DescriptorTypes, Steps, Descriptors, HandlersInv,
     ProcessInv, DescriptorInv, ListenerInv, Session, Loop
<1>9. QueueInv'
  BY DEF ServerInv, ControlTypes, ClientTypes, ProcessInv, QueueInv, Session
<1>10. CountInv'
  BY DEF ServerInv, ControlTypes, ClientTypes, ProcessInv, QueueInv, CountInv,
     Session, Received
<1> QED  BY <1>1, <1>2, <1>3, <1>4, <1>5, <1>6, <1>7, <1>8, <1>9, <1>10
     DEF ServerInv

LEMMA ResetListenerKeeps ==
  ASSUME ServerInv, ResetListener, HandlerFrame
  PROVE  ServerInv'
<1> USE DEF ResetListener, Handler, HandlerReturns, NoListener, Main, Exits, Lives,
     signalVars, peerVars, fileVars, readVars, counters, HandlerAt, HandlerFrame
<1>1. ControlTypes'
  BY DEF ServerInv, ControlTypes, Steps
<1>2. DescriptorTypes'
  BY DEF ServerInv, DescriptorTypes
<1>3. ClientTypes'
  BY DEF ServerInv, ClientTypes
<1>4. FileTypes'
  BY DEF ServerInv, FileTypes
<1>5. HandlersInv'
  <2>1. handlers \in Seq(Handlers) /\ Len(handlers) <= 2 /\ Len(handlers) \in Nat
    BY DEF ServerInv, HandlersInv
  <2>2. handlers' \in Seq(Handlers) /\ Len(handlers') <= 2 /\ Len(handlers') # 2
    BY <2>1, HandlersShrink
  <2> QED  BY <2>2 DEF HandlersInv
<1>6. ProcessInv'
  BY DEF ServerInv, ControlTypes, DescriptorTypes, ClientTypes, Steps, HandlersInv,
     ProcessInv, DescriptorInv, ListenerInv, Session, Loop
<1>7. DescriptorInv'
  BY DEF ServerInv, ControlTypes, DescriptorTypes, Steps, Descriptors, ProcessInv,
     DescriptorInv, HandlersInv, ListenerInv, Session, Loop
<1>8. ListenerInv'
  <2>1. handlers \in Seq(Handlers) /\ 1 \in DOMAIN handlers /\ handlers[1].at = "reset"
    BY DEF ServerInv, HandlersInv
  <2>2. /\ Len(handlers') = Len(handlers) - 1
        /\ \A k \in DOMAIN handlers' : handlers'[k] = handlers[k + 1] /\ k + 1 \in DOMAIN handlers
    BY <2>1, HandlersShrink
  <2>3. HandlerAt({"close", "reset"})' => HandlerAt({"close", "reset"})
    BY <2>2
  <2> HIDE DEF HandlerAt
  <2>4. HandlerAt({"test", "close", "reset"})
    <3>1. handlers[1].at \in {"test", "close", "reset"}
      BY <2>1
    <3>2. \E k \in DOMAIN handlers : handlers[k].at \in {"test", "close", "reset"}
      BY <2>1, <3>1
    <3> QED  BY <3>2 DEF HandlerAt
  <2> HIDE DEF HandlerAt
  <2> QED  BY <2>3, <2>4 DEF ServerInv, ListenerInv, ProcessInv
<1>9. QueueInv'
  BY DEF ServerInv, ControlTypes, ClientTypes, ProcessInv, QueueInv, Session
<1>10. CountInv'
  BY DEF ServerInv, ControlTypes, ClientTypes, ProcessInv, QueueInv, CountInv,
     Session, Received
<1> QED  BY <1>1, <1>2, <1>3, <1>4, <1>5, <1>6, <1>7, <1>8, <1>9, <1>10
     DEF ServerInv

LEMMA PeerStepKeeps ==
  ASSUME ServerInv, NEW p \in Peers, PeerStep(p)
  PROVE  ServerInv'
<1> USE DEF Main, Exits, Lives, signalVars, peerVars, fileVars, readVars, counters,
     HandlerAt, PeerStep, Connect, Send, Leave
<1>1. ControlTypes'
  BY DEF ServerInv, ControlTypes, Steps
<1>2. DescriptorTypes'
  BY DEF ServerInv, DescriptorTypes
<1>3. ClientTypes'
  BY DEF ServerInv, ClientTypes
<1>4. FileTypes'
  BY DEF ServerInv, FileTypes
<1>5. HandlersInv'
  BY DEF ServerInv, HandlersInv
<1>6. ProcessInv'
  BY DEF ServerInv, ControlTypes, DescriptorTypes, ClientTypes, Steps, HandlersInv,
     ProcessInv, DescriptorInv, ListenerInv, Session, Loop
<1>7. DescriptorInv'
  BY DEF ServerInv, ControlTypes, DescriptorTypes, Steps, Descriptors, ProcessInv,
     DescriptorInv, HandlersInv, ListenerInv, Session, Loop
<1>8. ListenerInv'
  BY DEF ServerInv, ControlTypes, DescriptorTypes, Steps, Descriptors, HandlersInv,
     ProcessInv, DescriptorInv, ListenerInv, Session, Loop
<1>9. QueueInv'
  <2>1. CASE Connect(p)
    <3>1. \A k \in DOMAIN backlog : backlog[k] # p
      BY <2>1 DEF ServerInv, QueueInv
    <3>2. p \notin served
      BY <2>1 DEF ServerInv, QueueInv
    <3> QED  BY <2>1, <3>1, <3>2 DEF ServerInv, ClientTypes, QueueInv
  <2>2. CASE Send(p)
    BY <2>2 DEF ServerInv, ClientTypes, QueueInv
  <2>3. CASE Leave(p)
    BY <2>3 DEF ServerInv, ClientTypes, QueueInv
  <2> QED  BY <2>1, <2>2, <2>3
<1>10. CountInv'
  <2>1. Received \subseteq Received'
    <3>1. CASE Connect(p)
      <4>1. backlog \in Seq(Peers)
        BY DEF ServerInv, QueueInv
      <4>2. \A k \in DOMAIN backlog' : backlog'[k] = p \/ (k \in DOMAIN backlog /\ backlog'[k] = backlog[k])
        BY <3>1, <4>1
      <4> QED  BY <3>1, <4>2 DEF ServerInv, ClientTypes, Received
    <3>2. CASE Send(p)
      BY <3>2 DEF ServerInv, ClientTypes, Received
    <3>3. CASE Leave(p)
      BY <3>3 DEF ServerInv, ClientTypes, Received
    <3> QED  BY <3>1, <3>2, <3>3
  <2>2. scrapes' <= Cardinality(Received')
    BY <2>1, ReceivedKept DEF ServerInv
  <2> QED  BY <2>2 DEF ServerInv, ClientTypes, ProcessInv, CountInv, Session
<1> QED  BY <1>1, <1>2, <1>3, <1>4, <1>5, <1>6, <1>7, <1>8, <1>9, <1>10
     DEF ServerInv

LEMMA WriterStepKeeps ==
  ASSUME ServerInv, WriterStep
  PROVE  ServerInv'
<1> USE DEF WriterStep, Main, Exits, Lives, signalVars, peerVars, fileVars,
     readVars, counters, HandlerAt, Truncate, Extend, WriteEnds, WriteStops
<1>1. ControlTypes'
  BY DEF ServerInv, ControlTypes, Steps
<1>2. DescriptorTypes'
  BY DEF ServerInv, DescriptorTypes
<1>3. ClientTypes'
  BY DEF ServerInv, ClientTypes
<1>4. FileTypes'
  <2>1. file \in [doc : Written, length : Nat] /\ file.length <= Len(Texts[file.doc])
    BY DEF ServerInv, FileTypes
  <2>2. file' \in [doc : Written, length : Nat] /\ file'.length <= Len(Texts[file'.doc])
    <3>1. CASE Truncate
      BY <3>1, TextLengths
    <3>2. CASE Extend
      <4>1. PICK n \in Cuts(file.doc) : file' = [file EXCEPT !.length = n]
        BY <3>2
      <4>2. n \in 1 .. Len(Texts[file.doc]) - 1
        BY <2>1, <4>1, ExporterServerAssumption
      <4> QED  BY <2>1, <4>1, <4>2, TextLengths
    <3>3. CASE WriteEnds
      BY <2>1, <3>3, TextLengths
    <3>4. CASE WriteStops
      BY <2>1, <3>4
    <3> QED  BY <3>1, <3>2, <3>3, <3>4
  <2>3. writes' \in 0 .. MaxWrites /\ writer' \in BOOLEAN
    <3>1. writes' = writes \/ (writes < MaxWrites /\ writes' = writes + 1)
      OBVIOUS
    <3>2. writes \in 0 .. MaxWrites /\ MaxWrites \in Nat
      BY ExporterServerAssumption DEF ServerInv, FileTypes
    <3>3. writer' \in BOOLEAN
      BY DEF ServerInv, FileTypes
    <3> QED  BY <3>1, <3>2, <3>3
  <2> QED  BY <2>2, <2>3 DEF ServerInv, FileTypes
<1>5. HandlersInv'
  BY DEF ServerInv, HandlersInv
<1>6. ProcessInv'
  BY DEF ServerInv, ControlTypes, DescriptorTypes, ClientTypes, Steps, HandlersInv,
     ProcessInv, DescriptorInv, ListenerInv, Session, Loop
<1>7. DescriptorInv'
  BY DEF ServerInv, ControlTypes, DescriptorTypes, Steps, Descriptors, ProcessInv,
     DescriptorInv, HandlersInv, ListenerInv, Session, Loop
<1>8. ListenerInv'
  BY DEF ServerInv, ControlTypes, DescriptorTypes, Steps, Descriptors, HandlersInv,
     ProcessInv, DescriptorInv, ListenerInv, Session, Loop
<1>9. QueueInv'
  BY DEF ServerInv, ControlTypes, ClientTypes, ProcessInv, QueueInv, Session
<1>10. CountInv'
  BY DEF ServerInv, ControlTypes, ClientTypes, ProcessInv, QueueInv, CountInv,
     Session, Received
<1> QED  BY <1>1, <1>2, <1>3, <1>4, <1>5, <1>6, <1>7, <1>8, <1>9, <1>10
     DEF ServerInv

LEMMA StutterKeeps ==
  ASSUME ServerInv, UNCHANGED vars
  PROVE  ServerInv'
<1> USE DEF vars, signalVars, peerVars, fileVars, readVars, counters
<1>1. ControlTypes' /\ DescriptorTypes' /\ ClientTypes' /\ FileTypes'
  BY DEF ServerInv, ControlTypes, DescriptorTypes, ClientTypes, FileTypes, AtMostOne
<1>2. HandlersInv' /\ ProcessInv' /\ DescriptorInv' /\ ListenerInv'
  BY DEF ServerInv, HandlersInv, ProcessInv, DescriptorInv, ListenerInv, HandlerAt
<1>3. QueueInv' /\ CountInv'
  BY DEF ServerInv, QueueInv, CountInv, Received
<1> QED  BY <1>1, <1>2, <1>3 DEF ServerInv

LEMMA InitServerInv ==
  ASSUME Init
  PROVE  ServerInv
<1> USE DEF Init
<1>1. ControlTypes /\ DescriptorTypes /\ ClientTypes /\ FileTypes
  <2>1. request \in [Peers -> AllRequests]
    OBVIOUS
  <2>2. file \in [doc : Written, length : Nat] /\ file.length <= Len(Texts[file.doc])
    <3>1. PICK d \in Written : \E n \in {0, Len(Texts[d])} : file = [doc |-> d, length |-> n]
      OBVIOUS
    <3>2. PICK n \in {0, Len(Texts[d])} : file = [doc |-> d, length |-> n]
      BY <3>1
    <3>3. Len(Texts[d]) \in Nat
      BY TextLengths
    <3> QED  BY <3>2, <3>3
  <2>3. contents \in Seq(Parts) /\ AtMostOne(reading)
    BY DEF AtMostOne
  <2>4. signals \in 0 .. MaxSignals /\ writes \in 0 .. MaxWrites
    BY ExporterServerAssumption
  <2>5. /\ peer \in [Peers -> {"away", "connected", "sent", "gone"}]
        /\ answer \in [Peers -> {0, 200, 400, 404, 405, 503}]
    OBVIOUS
  <2>6. descriptors \in [Descriptors -> {"free", "listener", "client", "file"}]
    OBVIOUS
  <2> QED  BY <2>1, <2>2, <2>3, <2>4, <2>5, <2>6 
     DEF ControlTypes, DescriptorTypes, ClientTypes, FileTypes, Steps
<1>2. HandlersInv /\ ProcessInv /\ ListenerInv
  BY DEF HandlersInv, ProcessInv, ListenerInv, HandlerAt, Session, Loop
<1>3. DescriptorInv
  BY DEF DescriptorInv, Loop, Session
<1>4. QueueInv
  BY DEF QueueInv
<1>5. CountInv
  <2>1. Received = {}
    BY DEF Received
  <2> QED  BY <2>1, FS_EmptySet DEF CountInv
<1> QED  BY <1>1, <1>2, <1>3, <1>4, <1>5 DEF ServerInv

LEMMA MainStepKeeps ==
  ASSUME ServerInv, MainStep
  PROVE  ServerInv'
<1>1. CASE Arguments \/ Listen \/ PublishListener \/ TestStop \/ Accept
  BY <1>1, ArgumentsKeeps, ListenKeeps, PublishListenerKeeps, TestStopKeeps,
     AcceptKeeps
<1>2. CASE AcceptOnClosed \/ TestAcceptError \/ ExitOnError
  BY <1>2, AcceptFailsKeeps, TestAcceptErrorKeeps, ExitOnErrorKeeps DEF AcceptOnClosed
<1>3. CASE Receive \/ OpenFile \/ ReadMore \/ ReadEnds \/ Answer
  BY <1>3, ReceiveKeeps, OpenFileKeeps, ReadMoreKeeps, ReadEndsKeeps, AnswerKeeps
<1>4. CASE CloseClient \/ Finish \/ CloseServer \/ Forget
  BY <1>4, CloseClientKeeps, FinishKeeps, CloseServerKeeps, ForgetKeeps
<1> QED  BY <1>1, <1>2, <1>3, <1>4 DEF MainStep

LEMMA HandlerStepKeeps ==
  ASSUME ServerInv, HandlerStep
  PROVE  ServerInv'
<1>1. HandlerFrame
  BY DEF HandlerStep, HandlerFrame
<1>2. CASE RequestStop
  BY <1>1, <1>2, RequestStopKeeps
<1>3. CASE TestListener
  BY <1>1, <1>3, TestListenerKeeps
<1>4. CASE CloseListener
  BY <1>1, <1>4, CloseListenerKeeps
<1>5. CASE ResetListener
  BY <1>1, <1>5, ResetListenerKeeps
<1> QED  BY <1>2, <1>3, <1>4, <1>5 DEF HandlerStep

LEMMA NextKeeps ==
  ASSUME ServerInv, [Next]_vars
  PROVE  ServerInv'
<1>1. CASE MainStep \/ HandlerStep
  BY <1>1, MainStepKeeps, HandlerStepKeeps
<1>2. CASE AcceptFails \/ Deliver \/ WriterStep
  BY <1>2, AcceptFailsKeeps, DeliverKeeps, WriterStepKeeps
<1>3. ASSUME NEW p \in Peers, PeerStep(p) PROVE ServerInv'
  BY <1>3, PeerStepKeeps
<1>4. CASE UNCHANGED vars \/ Exited
  BY <1>4, StutterKeeps DEF Exited
<1> QED  BY <1>1, <1>2, <1>3, <1>4 DEF Next

\* The invariant holds of every behaviour of the exporter, whatever the clients
\* ask, the benchmarks write and whenever the signals come.
THEOREM ServerInvariant == Spec => []ServerInv
<1>1. Init => ServerInv
  BY InitServerInv
<1>2. ServerInv /\ [Next]_vars => ServerInv'
  BY NextKeeps
<1> QED  BY <1>1, <1>2, PTL DEF Spec

-----------------------------------------------------------------------------
(* What follows from it.                                                   *)

\* Every variable of the exporter has its type: no more scrapes than clients,
\* no more failures than scrapes, at most one client and one snapshot at a time,
\* at most two handlers, and an exit code of 0 or 2 at the end and not before.
THEOREM TypeCorrect == Spec => []TypeOK
<1>1. ServerInv => TypeOK
  <2> SUFFICES ASSUME ServerInv PROVE TypeOK
    OBVIOUS
  <2>1. /\ ControlTypes /\ DescriptorTypes /\ ClientTypes /\ FileTypes
        /\ HandlersInv /\ ProcessInv /\ QueueInv /\ CountInv
    BY DEF ServerInv
  <2>2. Cardinality(served) <= 1
    <3>1. AtMostOne(served)
      BY <2>1 DEF ProcessInv, AtMostOne
    <3> QED  BY <3>1, AtMostOneIsCounted
  <2>3. Cardinality(reading) <= 1
    BY <2>1, AtMostOneIsCounted DEF FileTypes
  <2>4. scrapes <= Cardinality(Peers)
    <3>1. Received \in SUBSET Peers
      BY DEF Received
    <3>2. Cardinality(Received) <= Cardinality(Peers)
      BY <3>1, ExporterServerAssumption, FS_Subset
    <3>3. Cardinality(Received) \in Nat /\ Cardinality(Peers) \in Nat
      BY <3>1, ExporterServerAssumption, FS_Subset, FS_CardinalityType
    <3> QED  BY <2>1, <3>2, <3>3 DEF CountInv
  <2>5. \A k \in DOMAIN handlers :
          handlers[k].signal \in Signals /\ handlers[k].at \in {"flag", "test", "close", "reset"}
    <3>1. \A k \in DOMAIN handlers : handlers[k] \in Handlers
      BY <2>1 DEF HandlersInv
    <3> QED  BY <3>1 DEF Handlers, HandlerSteps
  <2>6. \A k \in DOMAIN backlog : backlog[k] \in Peers \ served
    BY <2>1 DEF QueueInv
  <2>7. file.doc \in Written /\ file.length \in 0 .. Len(Texts[file.doc])
    BY <2>1, TextLengths DEF FileTypes
  <2> QED
    BY <2>1, <2>2, <2>3, <2>4, <2>5, <2>6, <2>7, SMTT(30)
    DEF TypeOK, ControlTypes, DescriptorTypes, ClientTypes, FileTypes, Steps,
        HandlersInv, CountInv
<1> QED  BY <1>1, ServerInvariant, PTL

\* A stop closes the listener and nothing else, however the handlers of the two
\* signals interleave with each other and with main: what main has open stays
\* open until main closes it, though descriptors are reused at once.
THEOREM ListenerOnly == Spec => []StopClosesTheListenerOnly
<1>1. ServerInv => StopClosesTheListenerOnly
  <2> SUFFICES ASSUME ServerInv PROVE StopClosesTheListenerOnly
    OBVIOUS
  <2> USE DEF ServerInv, DescriptorTypes
  <2>1. served # {} => descriptors[client] = "client"
    BY DEF DescriptorInv
  <2>2. pc = "read" => \E d \in Descriptors : descriptors[d] = "file"
    BY DEF DescriptorInv
  <2>3. ASSUME Handler("close") PROVE HandlerAt({"close", "reset"})
    <3>1. 1 \in DOMAIN handlers /\ handlers[1].at = "close"
      BY <2>3 DEF Handler, HandlersInv
    <3>2. \E k \in DOMAIN handlers : handlers[k].at \in {"close", "reset"}
      BY <3>1
    <3> QED  BY <3>2 DEF HandlerAt
  <2>4. ASSUME NEW d \in {server, listening_socket} \ {-1}, Handler("close") \/ pc = "shut"
        PROVE  descriptors[d] \in {"listener", "free"}
    <3>1. d = server
      BY DEF DescriptorInv
    <3>2. CASE Handler("close")
      BY <2>3, <3>1, <3>2 DEF ListenerInv
    <3>3. CASE pc = "shut"
      BY <3>1, <3>3 DEF DescriptorInv, ProcessInv, Session
    <3> QED  BY <2>4, <3>2, <3>3
  <2> QED  BY <2>1, <2>2, <2>4 DEF StopClosesTheListenerOnly
<1> QED  BY <1>1, ServerInvariant, PTL

\* What holds from the moment a stop is under way: main will see it.
StopSeen ==
    /\ server # -1 /\ stop_requested
    /\ pc # "throw" /\ exit # {2}

\* The listener is closed by a handler that has recorded the stop before, or by
\* main after it has seen it.
LEMMA StopIsOnRecord ==
  ASSUME ServerInv, StopUnderWay
  PROVE  StopSeen
<1>1. server # -1 /\ pc \notin {"throw", "exited", "arguments", "listen"} /\ ~once
  BY DEF StopUnderWay, ServerInv, DescriptorInv
<1>2. exit = {}
  BY <1>1 DEF ServerInv, ControlTypes
<1>3. {} # {2}
  OBVIOUS
<1>4. stop_requested
  <2>1. CASE pc \in {"finish", "shut", "forget"}
    BY <2>1 DEF ServerInv, ProcessInv
  <2>2. CASE pc = "publish"
    BY <2>2 DEF StopUnderWay, ServerInv, DescriptorInv
  <2>3. CASE pc \in Loop
    <3>1. HandlerAt({"reset"}) => stop_requested
      BY DEF ServerInv, ProcessInv, HandlerAt
    <3> QED  BY <1>1, <2>3, <3>1 DEF StopUnderWay, ServerInv, ListenerInv
  <2> QED  BY <1>1, <2>1, <2>2, <2>3 DEF ServerInv, ControlTypes, Steps, Loop, Session
<1> QED  BY <1>1, <1>2, <1>3, <1>4 DEF StopSeen

\* No step forgets the stop: the failure of accept is judged after it.
LEMMA StopStaysSeen ==
  ASSUME ServerInv, StopSeen, [Next]_vars
  PROVE  StopSeen'
<1>. USE DEF StopSeen
<1>1. pc \notin {"arguments", "listen"} /\ ~once /\ {0} # {2}
  BY DEF ServerInv, DescriptorInv
<1>2. CASE MainStep
  <2>1. CASE PublishListener \/ TestStop \/ Accept \/ AcceptOnClosed \/ TestAcceptError
    BY <1>2, <2>1 DEF PublishListener, TestStop, Accept, AcceptOnClosed, AcceptFails,
       TestAcceptError, OnAcceptError, Main, Lives, signalVars
  <2>2. CASE Receive \/ OpenFile \/ ReadMore \/ ReadEnds
    BY <2>2 DEF Receive, AfterFirstPart, OpenFile, ReadMore, ReadEnds, Main, Lives,
       signalVars
  <2>3. CASE Answer \/ CloseClient
    BY <1>1, <2>3 DEF Answer, CloseClient, Main, Lives, signalVars
  <2>4. CASE Finish \/ CloseServer \/ Forget
    BY <1>1, <2>4 DEF Finish, CloseServer, Forget, Main, Lives, Exits, signalVars
  <2>5. ~Arguments /\ ~Listen /\ ~ExitOnError
    BY <1>1 DEF Arguments, Listen, ExitOnError, Main
  <2> QED  BY <1>2, <2>1, <2>2, <2>3, <2>4, <2>5 DEF MainStep
<1>3. CASE AcceptFails \/ Deliver \/ WriterStep
  BY <1>3 DEF AcceptFails, Deliver, WriterStep, Main, Lives, signalVars
<1>4. CASE HandlerStep
  BY <1>4 DEF HandlerStep, RequestStop, TestListener, CloseListener, ResetListener
<1>5. ASSUME NEW p \in Peers, PeerStep(p) PROVE StopSeen'
  BY <1>5 DEF PeerStep, signalVars
<1>6. CASE UNCHANGED vars \/ Exited
  BY <1>6 DEF Exited, vars, signalVars
<1> QED  BY <1>2, <1>3, <1>4, <1>5, <1>6 DEF Next

\* Once a stop is on record or its handler has closed the listener, the process
\* never ends with the code of a failure, whenever accept fails: only a failure
\* that main has judged before still counts.
THEOREM NoFailure == Spec => StopIsNoFailure
<1>1. ServerInv /\ StopUnderWay => StopSeen
  BY StopIsOnRecord
<1>2. ServerInv /\ StopSeen /\ [Next]_vars => StopSeen'
  BY StopStaysSeen
<1>3. StopSeen => exit # {2}
  BY DEF StopSeen
<1> QED  BY <1>1, <1>2, <1>3, ServerInvariant, PTL DEF Spec, StopIsNoFailure
-----------------------------------------------------------------------------
(* What a read that overlaps writes has of the documents.                  *)

Piece(part) == SubSeq(Texts[part.doc], part.from + 1, part.to)

LEMMA PieceIsText ==
  ASSUME NEW part \in Parts
  PROVE  IsText(Piece(part))
<1> DEFINE t == Texts[part.doc]
           T == {t[i] : i \in Int}
<1>1. part.from + 1 \in Int /\ part.to \in Int
  BY DEF Parts
<1> HIDE DEF t
<1>2. \A i \in part.from + 1 .. part.to : t[i] \in T
  BY <1>1
<1> HIDE DEF T
<1>3. Piece(part) \in Seq(T)
  BY <1>1, <1>2, SubSeqProperties DEF t, Piece
<1> QED  BY <1>3 DEF IsText

LEMMA TextOfNone == Text(<<>>) = <<>>
<1>1. [k \in DOMAIN <<>> |-> Piece(<<>>[k])] = <<>>
  OBVIOUS
<1>2. Text(<<>>) = FlattenSeq([k \in DOMAIN <<>> |-> Piece(<<>>[k])])
  BY DEF Text, Piece
<1> QED  BY <1>1, <1>2, FlattenOfNone

LEMMA TextOfMore ==
  ASSUME NEW parts \in Seq(Parts), NEW part \in Parts
  PROVE  Text(Append(parts, part)) = Text(parts) \o Piece(part)
<1> DEFINE S == {Piece(p) : p \in Parts}
           pieces == [k \in DOMAIN parts |-> Piece(parts[k])]
           more == Append(parts, part)
<1>1. pieces \in Seq(S) /\ Piece(part) \in S
  OBVIOUS
<1>2. \A t \in S : IsText(t)
  BY PieceIsText
<1>3. [k \in DOMAIN more |-> Piece(more[k])] = Append(pieces, Piece(part))
  OBVIOUS
<1>4. Text(more) = FlattenSeq([k \in DOMAIN more |-> Piece(more[k])])
  BY DEF Text, Piece
<1>5. Text(parts) = FlattenSeq(pieces)
  BY DEF Text, Piece
<1> HIDE DEF S, pieces
<1>6. FlattenSeq(Append(pieces, Piece(part))) = FlattenSeq(pieces) \o Piece(part)
  BY <1>1, <1>2, FlattenOfMore
<1> QED  BY <1>3, <1>4, <1>5, <1>6

LEMMA TextOfOne ==
  ASSUME NEW part \in Parts
  PROVE  Text(<<part>>) = Piece(part)
<1>1. Text(Append(<<>>, part)) = Text(<<>>) \o Piece(part)
  <2>1. <<>> \in Seq(Parts)
    OBVIOUS
  <2> QED  BY <2>1, TextOfMore
<1>2. Append(<<>>, part) = <<part>>
  OBVIOUS
<1> QED  BY <1>1, <1>2, TextOfNone, PieceIsText, ConcatOfNone

LEMMA AllOfIt ==
  ASSUME NEW t, IsText(t)
  PROVE  SubSeq(t, 1, Len(t)) = t
<1>1. PICK T : t \in Seq(T)
  BY DEF IsText
<1> QED  BY <1>1, SubSeqFull

LEMMA Adjacent ==
  ASSUME NEW t, IsText(t), NEW k \in Nat, NEW n \in Nat, k <= n, n <= Len(t)
  PROVE  SubSeq(t, 1, k) \o SubSeq(t, k + 1, n) = SubSeq(t, 1, n)
<1>1. PICK T : t \in Seq(T)
  BY DEF IsText
<1>2. Len(t) \in Nat
  BY TextLength
<1>3. 1 \in 1 .. Len(t) + 1 /\ k \in 1 - 1 .. Len(t) /\ n \in k .. Len(t)
  BY <1>2
<1> QED  BY <1>1, <1>3, ConcatAdjacentSubSeq

\* A text that begins with another.
Extends(t, whole) == \E g : IsText(g) /\ t = whole \o g

\* While it is shorter than the document it began with, what read_file has is
\* the start of that document, which is also the one in the file as long as
\* more is read; from then on it begins with all of it.
Continued ==
    LET whole == Texts[contents[1].doc]
    IN IF Offset < Len(whole)
       THEN /\ Text(contents) = SubSeq(whole, 1, Offset)
            /\ pc = "read" => file.doc = contents[1].doc
       ELSE Extends(Text(contents), whole)

StreamInv ==
    /\ contents # <<>> => pc \in {"read", "parse"} /\ contents[1].from = 0
    /\ contents # <<>> /\ ~split => Continued
    /\ pc = "parse" => reading = ParseSnapshot(Text(contents))

LEMMA ReadMoreStreams ==
  ASSUME ServerInv, StreamInv, ReadMore
  PROVE  StreamInv'
<1> DEFINE part == [doc |-> file.doc, from |-> Offset, to |-> file.length]
           t == Texts[file.doc]
<1>1. /\ contents \in Seq(Parts) /\ file.doc \in Written /\ file.length \in Nat
      /\ file.length <= Len(t)
  BY DEF ServerInv, FileTypes
<1>2. Offset \in Nat
  <2>1. CASE contents = <<>>
    BY <2>1 DEF Offset
  <2>2. CASE contents # <<>>
    <3>1. Last(contents) = contents[Len(contents)] /\ contents[Len(contents)] \in Parts
      BY <1>1, <2>2 DEF Last
    <3> QED  BY <2>2, <3>1 DEF Offset, Parts
  <2> QED  BY <2>1, <2>2
<1>3. part \in Parts
  BY <1>1, <1>2 DEF Parts
<1>4. /\ pc = "read" /\ pc' = "read" /\ Offset < file.length
      /\ contents' = Append(contents, part)
      /\ file' = file /\ split' = split
  BY <1>1, <1>2 DEF ReadMore, Main, fileVars
<1>5. contents' # <<>> /\ contents'[1] = IF contents = <<>> THEN part ELSE contents[1]
  BY <1>1, <1>3, <1>4
<1>6. Offset' = file.length
  BY <1>1, <1>3, <1>4, <1>5 DEF Offset, Last
<1>7. IsText(t) /\ Len(t) \in Nat /\ IsText(Piece(part))
  BY <1>1, <1>3, TextLengths, PieceIsText
<1>8. Text(contents') = Text(contents) \o Piece(part)
  BY <1>1, <1>3, <1>4, TextOfMore
<1>9. Piece(part) = SubSeq(t, Offset + 1, file.length)
  BY DEF Piece
<1>10. ASSUME contents'[1].doc = file.doc, Text(contents') = SubSeq(t, 1, file.length)
       PROVE  Continued'
  <2>1. CASE file.length < Len(t)
    BY <1>4, <1>6, <1>10, <2>1 DEF Continued
  <2>2. CASE file.length = Len(t)
    <3>1. Text(contents') = t \o <<>>
      BY <1>7, <1>10, <2>2, AllOfIt, ConcatOfNone
    <3>2. Extends(Text(contents'), t)
      BY <3>1, EmptyIsText DEF Extends
    <3> QED  BY <1>4, <1>6, <1>7, <1>10, <2>2, <3>2 DEF Continued
  <2> QED  BY <1>1, <1>7, <2>1, <2>2
<1>11. ASSUME ~split PROVE Continued'
  <2>1. CASE contents = <<>>
    <3>1. Offset = 0 /\ contents'[1].doc = file.doc
      BY <1>5, <2>1 DEF Offset
    <3>2. Text(contents') = SubSeq(t, 1, file.length)
      <4>1. Text(contents') = <<>> \o Piece(part)
        BY <1>8, <2>1, TextOfNone
      <4>2. <<>> \o Piece(part) = Piece(part)
        BY <1>7, ConcatOfNone
      <4>3. Offset + 1 = 1
        BY <3>1
      <4> QED  BY <1>9, <4>1, <4>2, <4>3
    <3> QED  BY <1>10, <3>1, <3>2
  <2>2. CASE contents # <<>>
    <3> DEFINE whole == Texts[contents[1].doc]
    <3>1. Continued /\ contents'[1] = contents[1]
      BY <1>5, <1>11, <2>2 DEF StreamInv
    <3>2. contents[1].doc \in Written
      <4>1. contents[1] \in Parts
        BY <1>1, <2>2
      <4> QED  BY <4>1 DEF Parts
    <3>3. IsText(whole) /\ Len(whole) \in Nat
      BY <3>2, TextLengths
    <3>4. CASE Offset < Len(whole)
      <4>1. file.doc = contents[1].doc /\ Text(contents) = SubSeq(t, 1, Offset)
        BY <1>4, <3>1, <3>4 DEF Continued
      <4>2. SubSeq(t, 1, Offset) \o SubSeq(t, Offset + 1, file.length)
              = SubSeq(t, 1, file.length)
        <5>1. Offset <= file.length
          BY <1>1, <1>2, <1>4
        <5> HIDE DEF t
        <5> QED  BY <1>1, <1>2, <1>7, <5>1, Adjacent
      <4> QED  BY <1>8, <1>9, <1>10, <3>1, <4>1, <4>2
    <3>5. CASE ~(Offset < Len(whole))
      <4>1. PICK g : IsText(g) /\ Text(contents) = whole \o g
        BY <3>1, <3>5 DEF Continued, Extends
      <4>2. Text(contents') = whole \o (g \o Piece(part)) /\ IsText(g \o Piece(part))
        <5> HIDE DEF whole, part
        <5>1. Text(contents') = (whole \o g) \o Piece(part)
          BY <1>8, <4>1
        <5>2. (whole \o g) \o Piece(part) = whole \o (g \o Piece(part))
          BY <1>7, <3>3, <4>1, ConcatAssociates
        <5>3. IsText(g \o Piece(part))
          BY <1>7, <4>1, ConcatIsText
        <5> QED  BY <5>1, <5>2, <5>3
      <4>3. Extends(Text(contents'), whole)
        BY <4>2 DEF Extends
      <4>4. ~(Offset' < Len(whole))
        BY <1>1, <1>2, <1>4, <1>6, <3>3, <3>5
      <4> QED  BY <3>1, <4>3, <4>4 DEF Continued
    <3> QED  BY <3>4, <3>5
  <2> QED  BY <2>1, <2>2
<1>12. contents'[1].from = 0
  BY <1>5 DEF Offset, StreamInv
<1> QED  BY <1>4, <1>11, <1>12 DEF StreamInv

LEMMA WriterStreams ==
  ASSUME ServerInv, StreamInv, WriterStep
  PROVE  StreamInv'
<1>1. pc' = pc /\ contents' = contents /\ reading' = reading
  BY DEF WriterStep
<1>2. Offset' = Offset
  BY <1>1 DEF Offset
<1>3. ASSUME contents # <<>>, ~split' PROVE Continued'
  <2>1. CASE Truncate
    <3>1. ~split /\ ~HalfRead
      BY <1>3, <2>1 DEF Truncate
    <3>2. Continued
      BY <1>3, <3>1 DEF StreamInv
    <3> QED  BY <1>1, <1>2, <1>3, <3>1, <3>2 DEF Continued, HalfRead
  <2>2. CASE Extend \/ WriteEnds \/ WriteStops
    <3>1. file \in [doc : Written, length : Nat]
      BY DEF ServerInv, FileTypes
    <3>2. split' = split /\ file'.doc = file.doc
      BY <2>2, <3>1 DEF Extend, WriteEnds, WriteStops
    <3>3. Continued
      BY <1>3, <3>2 DEF StreamInv
    <3> QED  BY <1>1, <1>2, <3>2, <3>3 DEF Continued
  <2> QED  BY <2>1, <2>2 DEF WriterStep
<1> QED  BY <1>1, <1>3 DEF StreamInv

\* The steps that leave what was read and the file as they are.
LEMMA OthersStream ==
  ASSUME StreamInv, UNCHANGED <<fileVars, readVars>>,
         pc' = pc \/ (pc \notin {"read", "parse"} /\ pc' # "parse")
  PROVE  StreamInv'
<1>1. /\ contents' = contents /\ reading' = reading /\ split' = split /\ file' = file
      /\ Offset' = Offset
  BY DEF fileVars, readVars, Offset
<1>2. contents # <<>> => pc' = pc
  BY DEF StreamInv
<1>3. contents # <<>> /\ Continued => Continued'
  BY <1>1, <1>2 DEF Continued
<1> QED  BY <1>1, <1>2, <1>3 DEF StreamInv

LEMMA MainStreams ==
  ASSUME ServerInv, StreamInv, MainStep
  PROVE  StreamInv'
<1>1. CASE Arguments \/ Listen \/ PublishListener \/ TestStop
  <2>1. UNCHANGED <<fileVars, readVars>> /\ pc \notin {"read", "parse"} /\ pc' # "parse"
    BY <1>1 DEF Arguments, Listen, PublishListener, TestStop, Main
  <2> QED  BY <2>1, OthersStream
<1>2. CASE Accept \/ AcceptOnClosed \/ TestAcceptError \/ ExitOnError \/ Receive
  <2>1. UNCHANGED <<fileVars, readVars>> /\ pc \notin {"read", "parse"} /\ pc' # "parse"
    BY <1>2 DEF Accept, AcceptOnClosed, AcceptFails, TestAcceptError, OnAcceptError,
       ExitOnError, Receive, AfterFirstPart, Main
  <2> QED  BY <2>1, OthersStream
<1>3. CASE CloseClient \/ Finish \/ CloseServer \/ Forget
  <2>1. UNCHANGED <<fileVars, readVars>> /\ pc \notin {"read", "parse"} /\ pc' # "parse"
    BY <1>3 DEF CloseClient, Finish, CloseServer, Forget, Main
  <2> QED  BY <2>1, OthersStream
<1>4. CASE OpenFile
  BY <1>4 DEF OpenFile, Main, StreamInv
<1>5. CASE ReadMore
  BY <1>5, ReadMoreStreams
<1>6. CASE ReadEnds
  <2>1. /\ pc = "read" /\ pc' = "parse" /\ contents' = contents /\ split' = split
        /\ file' = file /\ reading' = ParseSnapshot(Text(contents))
    BY <1>6 DEF ReadEnds, Main, fileVars
  <2>2. Offset' = Offset
    BY <2>1 DEF Offset
  <2>3. Continued => Continued'
    BY <2>1, <2>2 DEF Continued
  <2> QED  BY <2>1, <2>3 DEF StreamInv
<1>7. CASE Answer
  BY <1>7 DEF Answer, Main, StreamInv
<1> QED  BY <1>1, <1>2, <1>3, <1>4, <1>5, <1>6, <1>7 DEF MainStep

LEMMA NextStreams ==
  ASSUME ServerInv, StreamInv, [Next]_vars
  PROVE  StreamInv'
<1>1. CASE MainStep
  BY <1>1, MainStreams
<1>2. CASE WriterStep
  BY <1>2, WriterStreams
<1>3. CASE AcceptFails
  <2>1. UNCHANGED <<fileVars, readVars>> /\ pc \notin {"read", "parse"} /\ pc' # "parse"
    BY <1>3 DEF AcceptFails, Main
  <2> QED  BY <2>1, OthersStream
<1>4. CASE Deliver \/ HandlerStep
  <2>1. UNCHANGED <<fileVars, readVars>> /\ pc' = pc
    BY <1>4 DEF Deliver, HandlerStep
  <2> QED  BY <2>1, OthersStream
<1>5. ASSUME NEW p \in Peers, PeerStep(p) PROVE StreamInv'
  <2>1. UNCHANGED <<fileVars, readVars>> /\ pc' = pc
    BY <1>5 DEF PeerStep
  <2> QED  BY <2>1, OthersStream
<1>6. CASE UNCHANGED vars \/ Exited
  <2>1. UNCHANGED <<fileVars, readVars>> /\ pc' = pc
    BY <1>6 DEF Exited, vars
  <2> QED  BY <2>1, OthersStream
<1> QED  BY <1>1, <1>2, <1>3, <1>4, <1>5, <1>6 DEF Next

THEOREM StreamInvariant == Spec => [](ServerInv /\ StreamInv)
<1>1. Init => ServerInv /\ StreamInv
  <2>1. Init => StreamInv
    BY DEF Init, StreamInv
  <2> QED  BY <2>1, InitServerInv
<1>2. ServerInv /\ StreamInv /\ [Next]_vars => (ServerInv /\ StreamInv)'
  BY NextKeeps, NextStreams
<1> QED  BY <1>1, <1>2, PTL DEF Spec
\* What the parts add up to: nothing yet, less than the document it began
\* with, or that document and perhaps more.
LEMMA StreamCases ==
  ASSUME ServerInv, StreamInv, ~split, contents # <<>>
  PROVE  /\ 1 \in DOMAIN contents /\ contents[1].doc \in Written
         /\ LET doc == Documented[contents[1].doc]
                t == Text(contents)
            IN \/ StartOf(t, DocumentText(doc)) /\ Len(t) < Len(DocumentText(doc))
               \/ t = DocumentText(doc)
               \/ \E g : IsText(g) /\ g # <<>> /\ t = DocumentText(doc) \o g
<1> DEFINE whole == Texts[contents[1].doc]
           t == Text(contents)
<1>1. 1 \in DOMAIN contents /\ contents[1].doc \in Written
  <2>1. contents \in Seq(Parts)
    BY DEF ServerInv, FileTypes
  <2>2. 1 \in DOMAIN contents /\ contents[1] \in Parts
    BY <2>1
  <2> QED  BY <2>2 DEF Parts
<1>2. whole = DocumentText(Documented[contents[1].doc])
  BY <1>1 DEF Texts
<1>3. IsText(whole) /\ Len(whole) \in Nat
  BY <1>1, TextLengths
<1>4. Continued
  BY DEF StreamInv
<1>5. Offset \in Nat
  <2>1. contents \in Seq(Parts)
    BY DEF ServerInv, FileTypes
  <2>2. Last(contents) = contents[Len(contents)] /\ contents[Len(contents)] \in Parts
    BY <2>1 DEF Last
  <2> QED  BY <2>2 DEF Offset, Parts
<1>6. CASE Offset < Len(whole)
  <2>1. t = SubSeq(whole, 1, Offset)
    BY <1>4, <1>6 DEF Continued
  <2> HIDE DEF whole
  <2>2. /\ IsText(SubSeq(whole, 1, Offset)) /\ Len(SubSeq(whole, 1, Offset)) = Offset - 1 + 1
        /\ \A i \in 1 .. Offset - 1 + 1 : SubSeq(whole, 1, Offset)[i] = whole[1 + i - 1]
    <3>1. 1 \in Nat /\ 1 <= 1 /\ 1 <= Offset + 1 /\ Offset <= Len(whole)
      BY <1>3, <1>5, <1>6
    <3> QED  BY <1>3, <1>5, <3>1, SubSeqIndex
  <2>3. Offset - 1 + 1 = Offset /\ \A i \in 1 .. Offset : 1 + i - 1 = i
    BY <1>5
  <2>4. IsText(t) /\ Len(t) = Offset /\ \A i \in 1 .. Offset : t[i] = whole[i]
    BY <2>1, <2>2, <2>3
  <2>5. StartOf(t, whole) /\ Len(t) < Len(whole)
    BY <1>3, <1>5, <1>6, <2>4 DEF StartOf
  <2> QED  BY <1>1, <1>2, <2>5
<1>7. CASE ~(Offset < Len(whole))
  <2>1. PICK g : IsText(g) /\ t = whole \o g
    BY <1>4, <1>7 DEF Continued, Extends
  <2>2. g = <<>> => t = whole
    BY <1>3, <2>1, ConcatOfNone
  <2> QED  BY <1>1, <1>2, <2>1, <2>2
<1> QED  BY <1>6, <1>7

\* A read that overlaps writes in place is refused or is one document's, the
\* one it began with, unless another took its place when it was half read:
\* however the reads of read_file and the writes of the benchmarks interleave.
THEOREM TornRead == Spec => []TornReadIsRefused
<1>1. ServerInv /\ StreamInv => TornReadIsRefused
  <2> SUFFICES ASSUME ServerInv, StreamInv, pc = "parse", ~split, NEW r \in reading
               PROVE  \E k \in DOMAIN contents : r \in Reading(Documented[contents[k].doc])
    BY DEF TornReadIsRefused
  <2>1. r \in ParseSnapshot(Text(contents))
    BY DEF StreamInv
  <2>2. contents # <<>>
    BY <2>1, TextOfNone, SnapshotOfNothing
  <2> DEFINE doc == Documented[contents[1].doc]
             t == Text(contents)
  <2>3. /\ 1 \in DOMAIN contents /\ contents[1].doc \in Written
        /\ \/ StartOf(t, DocumentText(doc)) /\ Len(t) < Len(DocumentText(doc))
           \/ t = DocumentText(doc)
           \/ \E g : IsText(g) /\ g # <<>> /\ t = DocumentText(doc) \o g
    BY <2>2, StreamCases
  <2>4. WellFormed(doc)
    BY <2>3, ExporterServerAssumption
  <2> HIDE DEF doc, t
  <2>5. r \in ParseSnapshot(t)
    BY <2>1 DEF t
  <2>6. r \in Reading(doc)
    <3>1. CASE StartOf(t, DocumentText(doc))
      BY <2>4, <2>5, <3>1, SnapshotOfStart
    <3>2. CASE t = DocumentText(doc)
      <4>1. IsText(<<>>) /\ DocumentText(doc) \o <<>> = DocumentText(doc)
        BY EmptyIsText, DocumentIsText, ConcatOfNone
      <4>2. ParseSnapshot(DocumentText(doc) \o <<>>) = Reading(doc)
        BY <2>4, <4>1, SnapshotOfDocument
      <4> QED  BY <2>5, <3>2, <4>1, <4>2
    <3>3. CASE \E g : IsText(g) /\ g # <<>> /\ t = DocumentText(doc) \o g
      <4>1. PICK g : IsText(g) /\ t = DocumentText(doc) \o g
        BY <3>3
      <4>2. ParseSnapshot(DocumentText(doc) \o g) = Reading(doc)
        BY <2>4, <4>1, SnapshotOfDocument
      <4> QED  BY <2>5, <4>1, <4>2
    <3> QED  BY <2>3, <3>1, <3>2, <3>3
  <2> QED  BY <2>3, <2>6 DEF doc
<1> QED  BY <1>1, StreamInvariant, PTL
\* The exporter's search by name and the comparator's walk through the members
\* both find in a whole document what format_metrics_json put there, whatever
\* the strings in it are; of one read while it was written, the comparator
\* accepts no more than what is one document.
THEOREM ReadersRead == Spec => []ReadersReadTheDocument
<1>1. ServerInv /\ StreamInv => ReadersReadTheDocument
  <2> SUFFICES ASSUME ServerInv, StreamInv, pc = "parse", NEW scope \in {"e2e", "device"}
               PROVE
    LET compared == ReadMetrics(Text(contents), scope, "p99")
        whole == {k \in DOMAIN contents : k = 1 /\ contents[k].to = Len(Texts[contents[k].doc])}
    IN IF Len(contents) = 1 /\ whole # {}
       THEN /\ reading = Reading(Documented[contents[1].doc])
            /\ compared = ParseMetrics({Documented[contents[1].doc]}, scope, "p99")
       ELSE ~split => \A c \in compared : \E k \in DOMAIN contents :
                c \in ParseMetrics({Documented[contents[k].doc]}, scope, "p99")
    BY DEF ReadersReadTheDocument
  <2> DEFINE doc == Documented[contents[1].doc]
             t == Text(contents)
             compared == ReadMetrics(t, scope, "p99")
             whole == {k \in DOMAIN contents : k = 1 /\ contents[k].to = Len(Texts[contents[k].doc])}
  <2>1. contents \in Seq(Parts) /\ reading = ParseSnapshot(t)
    BY DEF ServerInv, FileTypes, StreamInv
  <2>2. ASSUME Len(contents) = 1, whole # {}
        PROVE  reading = Reading(doc) /\ compared = ParseMetrics({doc}, scope, "p99")
    <3> DEFINE part == contents[1]
    <3>1. /\ contents = <<part>> /\ part \in Parts /\ part.to = Len(Texts[part.doc])
          /\ part.from = 0
      BY <2>1, <2>2 DEF StreamInv
    <3>2. part.doc \in Written
      BY <3>1 DEF Parts
    <3>3. Texts[part.doc] = DocumentText(doc) /\ WellFormed(doc)
      BY <3>2, ExporterServerAssumption DEF Texts
    <3>4. t = Piece(part)
      BY <3>1, TextOfOne
    <3>5. IsText(DocumentText(doc))
      BY DocumentIsText
    <3> HIDE DEF part, doc
    <3>6. Piece(part) = SubSeq(DocumentText(doc), 1, Len(DocumentText(doc)))
      <4>1. part.from + 1 = 1
        BY <3>1
      <4> QED  BY <3>1, <3>3, <4>1 DEF Piece
    <3>7. t = DocumentText(doc)
      BY <3>4, <3>5, <3>6, AllOfIt
    <3>8. ParseSnapshot(DocumentText(doc) \o <<>>) = Reading(doc)
      BY <3>3, EmptyIsText, SnapshotOfDocument
    <3>9. DocumentText(doc) \o <<>> = DocumentText(doc)
      BY <3>5, ConcatOfNone
    <3>10. ReadMetrics(DocumentText(doc), scope, "p99") = ParseMetrics({doc}, scope, "p99")
      BY <3>3, MetricsOfDocument
    <3> HIDE DEF t
    <3> QED  BY <2>1, <3>7, <3>8, <3>9, <3>10
  <2>3. ASSUME ~split, NEW c \in compared
        PROVE  1 \in DOMAIN contents /\ c \in ParseMetrics({doc}, scope, "p99")
    <3>1. RootObject(t) # {}
      BY <2>3, MetricsOfNoRoot
    <3>2. contents # <<>>
      BY <3>1, TextOfNone, RootOfNothing
    <3>3. /\ 1 \in DOMAIN contents /\ contents[1].doc \in Written
          /\ \/ StartOf(t, DocumentText(doc)) /\ Len(t) < Len(DocumentText(doc))
             \/ t = DocumentText(doc)
             \/ \E g : IsText(g) /\ g # <<>> /\ t = DocumentText(doc) \o g
      BY <2>3, <3>2, StreamCases
    <3>4. WellFormed(doc)
      BY <3>3, ExporterServerAssumption
    <3> HIDE DEF t, doc
    <3>5. ~(StartOf(t, DocumentText(doc)) /\ Len(t) < Len(DocumentText(doc)))
      BY <3>1, RootOfStart
    <3>6. ~(\E g : IsText(g) /\ g # <<>> /\ t = DocumentText(doc) \o g)
      BY <3>1, RootOfMore
    <3>7. t = DocumentText(doc)
      BY <3>3, <3>5, <3>6
    <3>8. ReadMetrics(DocumentText(doc), scope, "p99") = ParseMetrics({doc}, scope, "p99")
      BY <3>4, MetricsOfDocument
    <3> QED  BY <2>3, <3>3, <3>7, <3>8
  <2> HIDE DEF whole, compared
  <2>4. CASE Len(contents) = 1 /\ whole # {}
    BY <2>2, <2>4 DEF whole, compared
  <2>5. CASE ~(Len(contents) = 1 /\ whole # {})
    BY <2>3, <2>5 DEF whole, compared
  <2> QED  BY <2>4, <2>5
<1> QED  BY <1>1, StreamInvariant, PTL
=============================================================================

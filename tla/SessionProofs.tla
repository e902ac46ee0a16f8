--------------------------- MODULE SessionProofs ---------------------------
(***************************************************************************)
(* Theorems about Session, for any number of clients and games.            *)
(***************************************************************************)
EXTENDS Session, SequenceTheorems, FiniteSetTheorems, TLAPS

(* All that was ever written for a client, read or not.                    *)
Stream(c) == told[c] \o toClient[c]

(* The first two packets of a stream: an answer that is true.              *)
Opens(c, p, q) ==
  \/ /\ c \notin current
     /\ p = "DISCONNECT" /\ q = "BAD_VERSION"
  \/ /\ c \in current /\ answer[c] = {[ok |-> FALSE, game |-> {}]}
     /\ p = "DISCONNECT" /\ q = "NO_GAMES"
  \/ /\ c \in current
     /\ \E g \in Games : /\ answer[c] = {[ok |-> TRUE, game |-> {g}]}
                         /\ p = "START_GAME" /\ q = g

StreamsOpen ==
  \A c \in Clients :
    \/ Stream(c) = <<>>
    \/ Len(Stream(c)) >= 2 /\ Opens(c, Stream(c)[1], Stream(c)[2])

(* What a client has read of its stream when it is in some phase. *)
ReadSoFar ==
  \A c \in Clients :
    /\ proc[c] \in {"off", "sending", "command"} => told[c] = <<>>
    /\ proc[c] = "reason" => told[c] = <<"DISCONNECT">>
    /\ proc[c] = "game" => told[c] = <<"START_GAME">>
    /\ Len(told[c]) <= 2
    /\ proc[c] = "aborted" => ~ up

---------------------------------------------------------------------------
LEMMA ReadOn ==
  ASSUME NEW S, NEW t \in Seq(S), NEW s \in Seq(S), s # <<>>
  PROVE  Append(t, Head(s)) \o Tail(s) = t \o s
<1>1. /\ Append(t, Head(s)) \in Seq(S) /\ Tail(s) \in Seq(S)
      /\ Len(Tail(s)) = Len(s) - 1 /\ Len(Append(t, Head(s))) = Len(t) + 1
      /\ Len(s) \in Nat \ {0} /\ Len(t) \in Nat
  BY HeadTailProperties, EmptySeq, LenProperties
<1> DEFINE l == Append(t, Head(s)) \o Tail(s)
           r == t \o s
<1>2. /\ l \in Seq(S) /\ Len(l) = Len(t) + Len(s)
      /\ \A i \in 1..Len(t) + Len(s) :
           l[i] = IF i <= Len(t) + 1 THEN Append(t, Head(s))[i] ELSE Tail(s)[i - Len(t) - 1]
  BY <1>1, ConcatProperties
<1>3. /\ r \in Seq(S) /\ Len(r) = Len(t) + Len(s)
      /\ \A i \in 1..Len(t) + Len(s) : r[i] = IF i <= Len(t) THEN t[i] ELSE s[i - Len(t)]
  BY <1>1, ConcatProperties
<1>4. \A i \in 1..Len(t) + Len(s) : l[i] = r[i]
  <2> SUFFICES ASSUME NEW i \in 1..Len(t) + Len(s)
               PROVE  l[i] = r[i]
    OBVIOUS
  <2>1. CASE i <= Len(t)
    BY <1>1, <1>2, <1>3, <2>1
  <2>2. CASE i = Len(t) + 1
    BY <1>1, <1>2, <1>3, <2>2
  <2>3. CASE i > Len(t) + 1
    BY <1>1, <1>2, <1>3, <2>3, HeadTailProperties
  <2> QED
    BY <1>1, <2>1, <2>2, <2>3
<1> QED
  BY <1>2, <1>3, <1>4, SeqEqual

---------------------------------------------------------------------------
(* Typing. *)

(* Every client that is not served yet still finds an id. *)
Room == nextId + Cardinality(Clients \ Served) <= MaxIds

(* A client in the backlog has connected and is not accepted yet. *)
Waiting ==
  \A c \in Clients :
    /\ c \in backlog => pending[c] = "none" /\ proc[c] # "off"
    /\ proc[c] = "off" => pending[c] = "none"

TypeInv == TypeOK /\ Room /\ Waiting

LEMMA TypeInit == Init => TypeInv
<1> SUFFICES ASSUME Init PROVE TypeInv
  OBVIOUS
<1>1. Clients \ Served = Clients
  BY DEF Served, Init
<1>2. Cardinality(Clients) \in Nat
  BY SessionAssumption, FS_CardinalityType
<1>3. Room /\ nextId \in 1..MaxIds
  <2>1. nextId = 1
    BY DEF Init
  <2>2. MaxIds \in Nat /\ MaxIds > Cardinality(Clients)
    BY SessionAssumption
  <2> QED
    BY <1>1, <1>2, <2>1, <2>2 DEF Room
<1>4. conns \in [0..Acceptor -> {{}} \cup {{c} : c \in Clients}]
  <2>1. Acceptor = 0 /\ 0..0 = {0}
    BY DEF Acceptor, Init
  <2> QED
    BY <2>1 DEF Init
<1>5. TypeOK
  BY <1>3, <1>4, EmptySeq DEF TypeOK, Init, Ended
<1>6. Waiting
  BY DEF Waiting, Init
<1> QED
  BY <1>3, <1>5, <1>6 DEF TypeInv

(* A client's steps leave the server alone. *)
LEMMA ClientTyping ==
  ASSUME TypeInv, NEW c \in Clients, Connect(c) \/ Killed(c) \/ ClientStep(c)
  PROVE  TypeInv'
<1>1. /\ UNCHANGED <<up, nextId, conns, pending, answer, current>>
      /\ Room' /\ Served' = Served
  BY DEF TypeInv, Room, Served, Connect, Killed, ClientStep, HandshakeWritten, ReadFails, server,
         ReadPregameCommand, ReadPregameDisconnectReason, ReadStartGame, Read
<1>2. CASE Connect(c)
  <2>1. <<"size", "handshake">> \in Seq({"size", "handshake"})
    OBVIOUS
  <2>2. TypeOK'
    BY <1>1, <1>2, <2>1, ZenonT(30) DEF Connect, TypeInv, TypeOK, Ended, Acceptor
  <2>3. Waiting'
    BY <1>1, <1>2 DEF Connect, TypeInv, TypeOK, Waiting
  <2> QED
    BY <1>1, <2>2, <2>3 DEF TypeInv
<1>3. CASE HandshakeWritten(c) \/ ReadFails(c) \/ Killed(c)
  <2>1. TypeOK'
    BY <1>1, <1>3 DEF HandshakeWritten, ReadFails, Killed, TypeInv, TypeOK, Ended, Acceptor
  <2>2. Waiting'
    BY <1>1, <1>3 DEF HandshakeWritten, ReadFails, Killed, TypeInv, TypeOK, Waiting
  <2> QED
    BY <1>1, <2>1, <2>2 DEF TypeInv
<1>4. CASE ReadPregameCommand(c) \/ ReadPregameDisconnectReason(c) \/ ReadStartGame(c)
  <2>1. /\ proc[c] # "off" /\ toClient[c] # <<>>
        /\ told' = [told EXCEPT ![c] = Append(@, Head(toClient[c]))]
        /\ toClient' = [toClient EXCEPT ![c] = Tail(@)]
        /\ UNCHANGED <<backlog, toServer>>
    BY <1>4 DEF ReadPregameCommand, ReadPregameDisconnectReason, ReadStartGame, Read
  <2>2. \E phase \in {"reason", "game", "aborted", "exited"} : proc' = [proc EXCEPT ![c] = phase]
    BY <1>4 DEF ReadPregameCommand, ReadPregameDisconnectReason, ReadStartGame, Read,
                AfterCommand, AfterLast
  <2>3. proc' \in [Clients -> {"off", "sending", "command", "reason", "game"} \cup Ended]
    BY <2>2 DEF TypeInv, TypeOK, Ended
  <2>4. toClient' \in [Clients -> Seq(Packets)] /\ told' \in [Clients -> Seq(Packets)]
    <3>1. Head(toClient[c]) \in Packets /\ Tail(toClient[c]) \in Seq(Packets)
      BY <2>1, HeadTailProperties DEF TypeInv, TypeOK
    <3>2. Append(told[c], Head(toClient[c])) \in Seq(Packets)
      BY <3>1 DEF TypeInv, TypeOK
    <3> QED
      BY <2>1, <3>1, <3>2 DEF TypeInv, TypeOK
  <2>5. TypeOK'
    BY <1>1, <2>1, <2>3, <2>4 DEF TypeInv, TypeOK, Acceptor
  <2>6. Waiting'
    BY <1>1, <2>1, <2>2 DEF TypeInv, TypeOK, Waiting
  <2> QED
    BY <1>1, <2>5, <2>6 DEF TypeInv
<1> QED
  BY <1>2, <1>3, <1>4 DEF ClientStep

(* An accept, of a client or not, makes one more connection. *)
LEMMA AcceptTyping ==
  ASSUME TypeInv, (\E c \in Clients : HandleAccept(c)) \/ HandleAcceptError
  PROVE  TypeInv'
<1> DEFINE unserved == Clients \ Served
<1>1. IsFiniteSet(unserved) /\ Cardinality(unserved) \in Nat
  BY SessionAssumption, FS_Subset, FS_CardinalityType
<1>2. /\ nextId \in Nat \ {0} /\ nextId + 1 \in Nat \ {0}
      /\ nextId' = nextId + 1 /\ Acceptor' = nextId /\ Acceptor \in Nat
      /\ UNCHANGED <<up, answer, toServer, toClient, current, proc, told>>
  BY DEF TypeInv, TypeOK, HandleAccept, HandleAcceptError, StartAccept, Acceptor, client
<1>3. nextId' \in 1..MaxIds /\ Room'
  <2>1. ASSUME NEW c \in Clients, HandleAccept(c)
        PROVE  nextId' \in 1..MaxIds /\ Room'
    <3>1. c \in unserved /\ (Clients \ Served)' = unserved \ {c}
      BY <2>1 DEF HandleAccept, Served, TypeInv, TypeOK, Waiting
    <3>2. Cardinality(unserved \ {c}) = Cardinality(unserved) - 1
      BY <1>1, <3>1, FS_RemoveElement
    <3>3. IsFiniteSet(unserved \ {c}) /\ Cardinality(unserved \ {c}) \in Nat
      BY <1>1, FS_RemoveElement, FS_CardinalityType
    <3> QED
      BY <1>1, <1>2, <3>1, <3>2, <3>3, SessionAssumption DEF TypeInv, Room
  <2>2. CASE HandleAcceptError
    <3>1. (Clients \ Served)' = unserved
      BY <2>2 DEF HandleAcceptError, Served
    <3>2. nextId + Cardinality(unserved) < MaxIds
      BY <2>2 DEF HandleAcceptError
    <3> QED
      BY <1>1, <1>2, <3>1, <3>2, SessionAssumption DEF Room
  <2> QED
    BY <2>1, <2>2
<1>4. conns' \in [0..Acceptor' -> {{}} \cup {{d} : d \in Clients}]
  <2>1. \A id \in 0..nextId : id # nextId => id \in 0..Acceptor
    BY <1>2 DEF Acceptor
  <2>2. conns \in [0..Acceptor -> {{}} \cup {{d} : d \in Clients}]
    BY DEF TypeInv, TypeOK
  <2>3. ASSUME NEW c \in Clients
        PROVE  [conns EXCEPT ![Acceptor] = {c}] \in [0..Acceptor -> {{}} \cup {{d} : d \in Clients}]
    BY <2>2
  <2>4. ASSUME NEW c \in Clients, HandleAccept(c)
        PROVE  conns' \in [0..Acceptor' -> {{}} \cup {{d} : d \in Clients}]
    BY <1>2, <2>1, <2>3, <2>4 DEF HandleAccept, StartAccept
  <2>5. CASE HandleAcceptError
    BY <1>2, <2>1, <2>2, <2>5 DEF HandleAcceptError, StartAccept
  <2> QED
    BY <2>4, <2>5
<1>5. TypeOK'
  BY <1>2, <1>3, <1>4 DEF TypeInv, TypeOK, HandleAccept, HandleAcceptError
<1>6. Waiting'
  BY <1>2 DEF TypeInv, TypeOK, Waiting, HandleAccept, HandleAcceptError
<1> QED
  BY <1>3, <1>5, <1>6 DEF TypeInv

(* What is written for a client is a sequence of packets. *)
LEMMA Written ==
  ASSUME NEW c \in Clients, NEW s \in Seq(Packets), TypeOK
  PROVE  toClient[c] \o s \in Seq(Packets)
  BY ConcatProperties DEF TypeOK

LEMMA DisconnectTyped ==
  ASSUME NEW r \in Reasons
  PROVE  Disconnect(r) \in Seq(Packets)
<1>1. "DISCONNECT" \in Packets /\ r \in Packets
  BY DEF Packets
<1> QED
  BY <1>1 DEF Disconnect

LEMMA ScheduleTyping ==
  ASSUME TypeInv, NEW c \in Clients, ReadHandshake(c)
  PROVE  TypeInv'
<1> DEFINE buffer == IF c \in current THEN <<>> ELSE Disconnect("BAD_VERSION")
<1>1. PICK a \in Answers : ScheduleGame(c, buffer, a)
  BY DEF ReadHandshake
<1>2. buffer \in Seq(Packets)
  BY DisconnectTyped DEF Reasons
<1>3. /\ UNCHANGED <<nextId, conns, backlog, current, proc, told>>
      /\ toServer' = [toServer EXCEPT ![c] = Tail(@)]
      /\ toServer[c] # <<>> /\ pending[c] = "handshake"
  BY DEF ReadHandshake, client
<1>4. toServer' \in [Clients -> Seq({"size", "handshake"})]
  BY <1>3, HeadTailProperties DEF TypeInv, TypeOK
<1>5. answer' \in [Clients -> SUBSET Answers]
  BY <1>1 DEF ScheduleGame, TypeInv, TypeOK
<1>6. CASE a.game = {}
  <2>1. toClient' \in [Clients -> Seq(Packets)]
    <3>1. buffer \o Disconnect("NO_GAMES") \in Seq(Packets)
      BY <1>2, DisconnectTyped, ConcatProperties DEF Reasons
    <3>2. toClient[c] \o buffer \in Seq(Packets)
      BY <1>2, Written DEF TypeInv
    <3>3. (toClient[c] \o buffer) \o (buffer \o Disconnect("NO_GAMES")) \in Seq(Packets)
      BY <3>1, <3>2, ConcatProperties
    <3> QED
      BY <1>1, <1>6, <3>2, <3>3 DEF ScheduleGame, TypeInv, TypeOK
  <2>2. up' = FALSE /\ UNCHANGED pending
    BY <1>1, <1>6 DEF ScheduleGame, Fall
  <2>3. TypeOK'
    BY <1>3, <1>4, <1>5, <2>1, <2>2 DEF TypeInv, TypeOK, Acceptor
  <2> QED
    BY <1>3, <2>2, <2>3 DEF TypeInv, Room, Waiting, Served
<1>7. CASE a.game # {}
  <2>1. PICK g \in a.game :
          /\ toClient' = [toClient EXCEPT ![c] = @ \o buffer \o buffer \o <<"START_GAME", g>>]
          /\ pending' = [pending EXCEPT ![c] = IF buffer = <<>> THEN "game" ELSE "disconnect"]
          /\ UNCHANGED up
    BY <1>1, <1>7 DEF ScheduleGame
  <2>2. g \in Games
    BY DEF Answers
  <2>3. toClient' \in [Clients -> Seq(Packets)]
    <3>1. toClient[c] \o buffer \in Seq(Packets)
      BY <1>2, Written DEF TypeInv
    <3>2. toClient[c] \o buffer \o buffer \in Seq(Packets)
      BY <1>2, <3>1, ConcatProperties
    <3>3. <<"START_GAME", g>> \in Seq(Packets)
      BY <2>2 DEF Packets
    <3>4. toClient[c] \o buffer \o buffer \o <<"START_GAME", g>> \in Seq(Packets)
      BY <3>2, <3>3, ConcatProperties
    <3> QED
      BY <2>1, <3>4 DEF TypeInv, TypeOK
  <2>4. TypeOK'
    BY <1>3, <1>4, <1>5, <2>1, <2>3 DEF TypeInv, TypeOK, Acceptor
  <2>5. Served' = Served
    BY <1>3, <2>1 DEF Served, TypeInv, TypeOK
  <2>6. Waiting'
    BY <1>3, <2>1 DEF TypeInv, TypeOK, Waiting
  <2> QED
    BY <1>3, <2>4, <2>5, <2>6 DEF TypeInv, Room
<1> QED
  BY <1>6, <1>7

(* The other handlers of the server. *)
LEMMA HandlerTyping ==
  ASSUME TypeInv, NEW c \in Clients,
         ReadHandshakeSize(c) \/ DisconnectWritten(c) \/ GameWritten(c) \/ OperationFails(c)
  PROVE  TypeInv'
<1>1. /\ UNCHANGED <<nextId, conns, backlog, answer, toClient, current, proc, told>>
      /\ up' \in BOOLEAN
  BY DEF ReadHandshakeSize, DisconnectWritten, GameWritten, OperationFails, client, Fall, TypeInv, TypeOK
<1>2. toServer' \in [Clients -> Seq({"size", "handshake"})]
  <2>1. CASE ReadHandshakeSize(c)
    <3>1. Tail(toServer[c]) \in Seq({"size", "handshake"})
      BY <2>1, HeadTailProperties DEF ReadHandshakeSize, TypeInv, TypeOK
    <3> QED
      BY <2>1, <3>1 DEF ReadHandshakeSize, TypeInv, TypeOK
  <2>2. CASE ~ ReadHandshakeSize(c)
    BY <2>2 DEF DisconnectWritten, GameWritten, OperationFails, TypeInv, TypeOK
  <2> QED
    BY <2>1, <2>2
<1>3. \/ UNCHANGED pending
      \/ /\ pending[c] # "none"
         /\ \E phase \in {"handshake", "status"} : pending' = [pending EXCEPT ![c] = phase]
  BY DEF ReadHandshakeSize, DisconnectWritten, GameWritten, OperationFails
<1>4. Served' = Served
  BY <1>3 DEF Served, TypeInv, TypeOK
<1>5. TypeOK'
  BY <1>1, <1>2, <1>3 DEF TypeInv, TypeOK, Acceptor
<1>6. Waiting'
  BY <1>1, <1>3 DEF TypeInv, TypeOK, Waiting
<1> QED
  BY <1>1, <1>4, <1>5, <1>6 DEF TypeInv, Room

LEMMA TypeStep == TypeInv /\ [Next]_vars => TypeInv'
<1> SUFFICES ASSUME TypeInv, [Next]_vars PROVE TypeInv'
  OBVIOUS
<1>1. CASE UNCHANGED vars
  BY <1>1 DEF vars, TypeInv, TypeOK, Room, Waiting, Served, Acceptor
<1>2. CASE \E c \in Clients : Connect(c) \/ Killed(c) \/ ClientStep(c)
  BY <1>2, ClientTyping
<1>3. ASSUME NEW c \in Clients, ServerStep(c)
      PROVE  TypeInv'
  BY <1>3, AcceptTyping, ScheduleTyping, HandlerTyping DEF ServerStep
<1>4. CASE HandleAcceptError
  BY <1>4, AcceptTyping
<1> QED
  BY <1>1, <1>2, <1>3, <1>4 DEF Next

---------------------------------------------------------------------------
(* Connections. *)

ConnsOf(c) == {id \in DOMAIN conns : c \in conns[id]}

(* ConnectionsHeld without cardinalities, the server running or not. *)
Held ==
  /\ conns[Acceptor] = {}
  /\ \A c \in Clients : IF c \in Served THEN \E id : ConnsOf(c) = {id} ELSE ConnsOf(c) = {}

Accepts == (\E c \in Clients : HandleAccept(c)) \/ HandleAcceptError

(* Only accepts make connections or begin to serve a client. *)
LEMMA Steady ==
  ASSUME TypeInv, [Next]_vars, ~ Accepts
  PROVE  UNCHANGED <<nextId, conns>> /\ Served' = Served
<1>1. CASE UNCHANGED vars
  BY <1>1 DEF vars, Served
<1>2. ASSUME NEW c \in Clients, Connect(c) \/ Killed(c) \/ ClientStep(c)
      PROVE  UNCHANGED <<nextId, conns>> /\ Served' = Served
  BY <1>2 DEF Served, Connect, Killed, ClientStep, HandshakeWritten, ReadFails, server,
              ReadPregameCommand, ReadPregameDisconnectReason, ReadStartGame, Read
<1>3. ASSUME NEW c \in Clients, ReadHandshake(c)
      PROVE  UNCHANGED <<nextId, conns>> /\ Served' = Served
  <2>1. pending[c] = "handshake" /\ UNCHANGED <<nextId, conns>>
    BY <1>3 DEF ReadHandshake
  <2>2. \/ UNCHANGED pending
        \/ \E phase \in {"game", "disconnect"} : pending' = [pending EXCEPT ![c] = phase]
    BY <1>3 DEF ReadHandshake, ScheduleGame
  <2> QED
    BY <2>1, <2>2 DEF Served, TypeInv, TypeOK
<1>4. ASSUME NEW c \in Clients,
             ReadHandshakeSize(c) \/ DisconnectWritten(c) \/ GameWritten(c) \/ OperationFails(c)
      PROVE  UNCHANGED <<nextId, conns>> /\ Served' = Served
  BY <1>4 DEF Served, TypeInv, TypeOK, ReadHandshakeSize, DisconnectWritten, GameWritten, OperationFails
<1> QED
  BY <1>1, <1>2, <1>3, <1>4 DEF Next, ServerStep, Accepts

LEMMA HeldInit == Init => Held
<1> SUFFICES ASSUME Init PROVE Held
  OBVIOUS
<1>1. Acceptor = 0 /\ DOMAIN conns = {0} /\ conns[0] = {}
  BY DEF Init, Acceptor
<1>2. Served = {}
  BY DEF Init, Served
<1> QED
  BY <1>1, <1>2 DEF Held, ConnsOf

LEMMA HeldStep ==
  ASSUME TypeInv, Held, [Next]_vars
  PROVE  Held'
<1>1. /\ nextId \in Nat \ {0} /\ Acceptor \in 0..Acceptor /\ nextId \notin 0..Acceptor
      /\ 0..nextId = 0..Acceptor \cup {nextId}
      /\ DOMAIN conns = 0..Acceptor
  BY DEF TypeInv, TypeOK, Acceptor
<1>2. ASSUME NEW c \in Clients, HandleAccept(c)
      PROVE  Held'
  <2>1. /\ conns' = [id \in 0..nextId |-> IF id = nextId THEN {} ELSE [conns EXCEPT ![Acceptor] = {c}][id]]
        /\ Acceptor' = nextId
    BY <1>1, <1>2 DEF HandleAccept, StartAccept, Acceptor
  <2>2. /\ DOMAIN conns' = 0..nextId /\ conns'[nextId] = {} /\ conns'[Acceptor] = {c}
        /\ \A id \in 0..Acceptor : id # Acceptor => conns'[id] = conns[id]
    BY <1>1, <2>1
  <2>3. c \notin Served /\ Served' = Served \cup {c}
    BY <1>2 DEF HandleAccept, Served, TypeInv, TypeOK, Waiting
  <2>4. ConnsOf(c)' = {Acceptor}
    BY <1>1, <2>2, <2>3 DEF ConnsOf, Held
  <2>5. ASSUME NEW d \in Clients, d # c
        PROVE  ConnsOf(d)' = ConnsOf(d)
    BY <1>1, <2>2, <2>5 DEF ConnsOf, Held
  <2> QED
    BY <2>1, <2>2, <2>3, <2>4, <2>5 DEF Held
<1>3. CASE HandleAcceptError
  <2>1. /\ conns' = [id \in 0..nextId |-> IF id = nextId THEN {} ELSE conns[id]]
        /\ Acceptor' = nextId /\ Served' = Served
    BY <1>1, <1>3 DEF HandleAcceptError, StartAccept, Acceptor, Served
  <2>2. /\ DOMAIN conns' = 0..nextId /\ conns'[nextId] = {}
        /\ \A id \in 0..Acceptor : conns'[id] = conns[id]
    BY <1>1, <2>1
  <2>3. \A d \in Clients : ConnsOf(d)' = ConnsOf(d)
    BY <1>1, <2>2 DEF ConnsOf
  <2> QED
    BY <2>1, <2>2, <2>3 DEF Held
<1>4. CASE ~ Accepts
  BY <1>4, Steady DEF Held, ConnsOf, Acceptor
<1> QED
  BY <1>2, <1>3, <1>4 DEF Accepts

---------------------------------------------------------------------------
(* Streams. *)

(* Nothing is written for a client before its game is scheduled. *)
Unanswered ==
  \A c \in Clients :
    up /\ pending[c] \in {"none", "size", "handshake"} =>
      answer[c] = {} /\ told[c] = <<>> /\ toClient[c] = <<>>

(* The write of a disconnect is under way for clients of a wrong version only: *)
(* NO_GAMES ends the server before it is.                                      *)
Turned == \A c \in Clients : pending[c] = "disconnect" => c \notin current

StreamInv == Unanswered /\ StreamsOpen /\ ReadSoFar /\ Turned

LEMMA StreamInit == Init => StreamInv
<1> SUFFICES ASSUME Init PROVE StreamInv
  OBVIOUS
<1>1. ASSUME NEW c \in Clients
      PROVE  Stream(c) = <<>>
  BY DEF Init, Stream
<1>2. StreamsOpen
  BY <1>1 DEF StreamsOpen
<1>3. ReadSoFar
  <2>1. \A c \in Clients : proc[c] = "off" /\ told[c] = <<>> /\ Len(told[c]) = 0
    BY DEF Init
  <2> QED
    BY <2>1 DEF ReadSoFar
<1>4. Unanswered /\ Turned
  BY DEF Unanswered, Turned, Init
<1> QED
  BY <1>2, <1>3, <1>4 DEF StreamInv

(* A step that does not touch what is written and read. *)
LEMMA StreamsUntouched ==
  ASSUME StreamsOpen, UNCHANGED <<told, toClient, answer, current>>
  PROVE  StreamsOpen'
  BY DEF StreamsOpen, Stream, Opens

(* A client reads its next packet: the stream stays what it is. *)
LEMMA ReadStep ==
  ASSUME TypeInv, StreamInv, NEW c \in Clients,
         ReadPregameCommand(c) \/ ReadPregameDisconnectReason(c) \/ ReadStartGame(c)
  PROVE  StreamInv'
<1> DEFINE p == Head(toClient[c])
<1>1. /\ toClient[c] # <<>> /\ told[c] \in Seq(Packets) /\ toClient[c] \in Seq(Packets)
      /\ told' = [told EXCEPT ![c] = Append(@, p)]
      /\ toClient' = [toClient EXCEPT ![c] = Tail(@)]
      /\ UNCHANGED <<up, pending, answer, current>>
  BY DEF ReadPregameCommand, ReadPregameDisconnectReason, ReadStartGame, Read, server, TypeInv, TypeOK
<1>2. \A d \in Clients : Stream(d)' = Stream(d)
  <2>1. told'[c] \o toClient'[c] = told[c] \o toClient[c]
    BY <1>1, ReadOn DEF TypeInv, TypeOK
  <2>2. \A d \in Clients : d # c => told'[d] = told[d] /\ toClient'[d] = toClient[d]
    BY <1>1 DEF TypeInv, TypeOK
  <2> QED
    BY <2>1, <2>2 DEF Stream
<1>3. StreamsOpen'
  BY <1>1, <1>2 DEF StreamInv, StreamsOpen, Opens
<1>4. Unanswered'
  BY <1>1 DEF StreamInv, Unanswered, TypeInv, TypeOK
<1>5. Turned'
  BY <1>1 DEF StreamInv, Turned
<1>6. /\ \A d \in Clients : d # c => told'[d] = told[d] /\ proc'[d] = proc[d]
      /\ told'[c] = Append(told[c], p)
  BY <1>1 DEF ReadPregameCommand, ReadPregameDisconnectReason, ReadStartGame, Read, TypeInv, TypeOK
<1>7. ReadSoFar'
  <2>1. CASE ReadPregameCommand(c)
    <3>1. told[c] = <<>> /\ proc'[c] = AfterCommand(p)
      BY <2>1 DEF ReadPregameCommand, Read, StreamInv, ReadSoFar, TypeInv, TypeOK
    <3>2. Stream(c) = toClient[c] /\ Stream(c)[1] = p
      BY <1>1, <3>1, ConcatEmptySeq DEF Stream
    <3>3. p \in {"DISCONNECT", "START_GAME"}
      BY <1>1, <3>2 DEF StreamInv, StreamsOpen, Opens
    <3>4. told'[c] = <<p>> /\ Len(told'[c]) = 1
      BY <1>6, <3>1
    <3>5. \/ p = "DISCONNECT" /\ proc'[c] = "reason"
          \/ p = "START_GAME" /\ proc'[c] = "game"
      BY <3>1, <3>3 DEF AfterCommand
    <3> QED
      BY <1>1, <1>6, <3>4, <3>5 DEF StreamInv, ReadSoFar
  <2>2. CASE ReadPregameDisconnectReason(c) \/ ReadStartGame(c)
    <3>1. told[c] \in {<<"DISCONNECT">>, <<"START_GAME">>} /\ proc'[c] = "exited"
      BY <2>2 DEF ReadPregameDisconnectReason, ReadStartGame, Read, AfterLast,
                  StreamInv, ReadSoFar, TypeInv, TypeOK
    <3>2. Len(told[c]) = 1
      BY <3>1
    <3>3. Len(told'[c]) = 2
      BY <1>1, <1>6, <3>2, HeadTailProperties, SMTT(30)
    <3> QED
      BY <1>1, <1>6, <3>1, <3>3 DEF StreamInv, ReadSoFar
  <2> QED
    BY <2>1, <2>2
<1> QED
  BY <1>3, <1>4, <1>5, <1>7 DEF StreamInv

LEMMA Front ==
  ASSUME NEW S, NEW p \in S, NEW q \in S, NEW s \in Seq(S)
  PROVE  /\ <<p, q>> \o s \in Seq(S) /\ Len(<<p, q>> \o s) >= 2
         /\ (<<p, q>> \o s)[1] = p /\ (<<p, q>> \o s)[2] = q
<1>1. <<p, q>> \in Seq(S) /\ Len(<<p, q>>) = 2
  OBVIOUS
<1> QED
  BY <1>1, ConcatProperties, LenProperties

(* The answer of scheduleGame, in one write or two. *)
LEMMA ScheduleStep ==
  ASSUME TypeInv, StreamInv, NEW c \in Clients, ReadHandshake(c)
  PROVE  StreamInv'
<1> DEFINE buffer == IF c \in current THEN <<>> ELSE Disconnect("BAD_VERSION")
<1>1. PICK a \in Answers : ScheduleGame(c, buffer, a)
  BY DEF ReadHandshake
<1>2. /\ UNCHANGED <<current, proc, told>>
      /\ answer' = [answer EXCEPT ![c] = {a}] /\ answer'[c] = {a}
      /\ told[c] = <<>> /\ toClient[c] = <<>> /\ pending[c] = "handshake" /\ up
  <2>1. answer' = [answer EXCEPT ![c] = {a}] /\ c \in DOMAIN answer
    BY <1>1 DEF ScheduleGame, TypeInv, TypeOK
  <2> QED
    BY <2>1 DEF ReadHandshake, client, StreamInv, Unanswered
<1>3. \A d \in Clients : d # c => /\ toClient'[d] = toClient[d] /\ answer'[d] = answer[d]
                                  /\ pending'[d] = pending[d]
  <2>1. CASE a.game = {}
    BY <1>1, <2>1 DEF ScheduleGame, TypeInv, TypeOK
  <2>2. CASE a.game # {}
    BY <1>1, <2>2 DEF ScheduleGame, TypeInv, TypeOK
  <2> QED
    BY <2>1, <2>2
<1>4. /\ a.game = {} => up' = FALSE /\ UNCHANGED pending
      /\ a.game # {} => /\ UNCHANGED up
                        /\ pending'[c] = IF c \in current THEN "game" ELSE "disconnect"
  <2>1. buffer = <<>> <=> c \in current
    BY DEF Disconnect
  <2> QED
    BY <1>1, <2>1 DEF ScheduleGame, Fall, TypeInv, TypeOK
<1>5. Turned'
  BY <1>2, <1>3, <1>4 DEF StreamInv, Turned
<1>6. Unanswered'
  BY <1>2, <1>3, <1>4 DEF StreamInv, Unanswered
<1>7. ReadSoFar'
  BY <1>2, <1>4 DEF StreamInv, ReadSoFar
<1>8. Stream(c)' = toClient'[c]
  <2>1. toClient'[c] \in Seq(Packets) /\ told'[c] = <<>>
    BY <1>2, ScheduleTyping DEF TypeInv, TypeOK
  <2> QED
    BY <2>1, ConcatEmptySeq DEF Stream
<1>9. \/ Stream(c)' = <<>>
      \/ Len(Stream(c)') >= 2 /\ Opens(c, Stream(c)[1], Stream(c)[2])'
  <2> DEFINE turn == <<"DISCONNECT", "BAD_VERSION">>
             none == <<"DISCONNECT", "NO_GAMES">>
  <2>1. turn \in Seq(Packets) /\ none \in Seq(Packets) /\ <<>> \in Seq(Packets)
    BY EmptySeq DEF Packets, Reasons
  <2>2. ASSUME NEW s \in Seq(Packets), toClient'[c] = turn \o s, c \notin current
        PROVE  Len(Stream(c)') >= 2 /\ Opens(c, Stream(c)[1], Stream(c)[2])'
    <3>1. Len(turn \o s) >= 2 /\ (turn \o s)[1] = "DISCONNECT" /\ (turn \o s)[2] = "BAD_VERSION"
      BY Front DEF Packets, Reasons
    <3> QED
      BY <1>2, <1>8, <2>2, <3>1 DEF Opens
  <2>3. CASE a.game = {}
    <3>1. toClient'[c] = IF a.ok THEN <<>> \o buffer ELSE (<<>> \o buffer) \o (buffer \o none)
      BY <1>1, <1>2, <2>3 DEF ScheduleGame, Disconnect, TypeInv, TypeOK
    <3>2. CASE c \in current
      <4>1. toClient'[c] = IF a.ok THEN <<>> ELSE none
        BY <2>1, <3>1, <3>2, ConcatEmptySeq
      <4>2. CASE a.ok
        BY <1>8, <4>1, <4>2
      <4>3. CASE ~ a.ok
        <5>1. a = [ok |-> FALSE, game |-> {}]
          BY <2>3, <4>3 DEF Answers
        <5>2. Len(none) = 2 /\ none[1] = "DISCONNECT" /\ none[2] = "NO_GAMES"
          OBVIOUS
        <5> QED
          BY <1>2, <1>8, <3>2, <4>1, <4>3, <5>1, <5>2 DEF Opens
      <4> QED
        BY <4>2, <4>3
    <3>3. CASE c \notin current
      <4>1. toClient'[c] = IF a.ok THEN turn \o <<>> ELSE turn \o (turn \o none)
        BY <2>1, <3>1, <3>3, ConcatEmptySeq DEF Disconnect
      <4>2. turn \o none \in Seq(Packets)
        BY <2>1, ConcatProperties
      <4> QED
        BY <2>1, <2>2, <3>3, <4>1, <4>2
    <3> QED
      BY <3>2, <3>3
  <2>4. ASSUME NEW g \in Games, a.game = {g}
        PROVE  Len(Stream(c)') >= 2 /\ Opens(c, Stream(c)[1], Stream(c)[2])'
    <3> DEFINE start == <<"START_GAME", g>>
    <3>1. start \in Seq(Packets) /\ Len(start) = 2 /\ start[1] = "START_GAME" /\ start[2] = g
      BY DEF Packets
    <3>2. toClient'[c] = ((<<>> \o buffer) \o buffer) \o start
      BY <1>1, <1>2, <2>4 DEF ScheduleGame, TypeInv, TypeOK
    <3>3. CASE c \in current
      <4>1. toClient'[c] = start
        BY <2>1, <3>1, <3>2, <3>3, ConcatEmptySeq
      <4>2. a = [ok |-> TRUE, game |-> {g}]
        BY <2>4 DEF Answers
      <4> QED
        BY <1>2, <1>8, <3>1, <3>3, <4>1, <4>2 DEF Opens
    <3>4. CASE c \notin current
      <4>1. toClient'[c] = (turn \o turn) \o start
        BY <2>1, <3>2, <3>4, ConcatEmptySeq DEF Disconnect
      <4>2. toClient'[c] = turn \o (turn \o start) /\ turn \o start \in Seq(Packets)
        BY <2>1, <3>1, <4>1, ConcatAssociative, ConcatProperties
      <4> QED
        BY <2>2, <3>4, <4>2
    <3> QED
      BY <3>3, <3>4
  <2> QED
    BY <2>3, <2>4 DEF Answers
<1>10. StreamsOpen'
  <2>1. ASSUME NEW d \in Clients, d # c
        PROVE  /\ Stream(d)' = Stream(d)
               /\ Opens(d, Stream(d)[1], Stream(d)[2])' <=> Opens(d, Stream(d)[1], Stream(d)[2])
    BY <1>2, <1>3, <2>1 DEF Stream, Opens
  <2> QED
    BY <1>9, <2>1 DEF StreamInv, StreamsOpen
<1> QED
  BY <1>5, <1>6, <1>7, <1>10 DEF StreamInv

LEMMA StreamStep ==
  ASSUME TypeInv, StreamInv, [Next]_vars
  PROVE  StreamInv'
<1>1. CASE UNCHANGED vars
  BY <1>1 DEF vars, StreamInv, Unanswered, StreamsOpen, Stream, Opens, ReadSoFar, Turned
<1>2. ASSUME NEW c \in Clients, Connect(c) \/ Killed(c) \/ HandshakeWritten(c) \/ ReadFails(c)
      PROVE  StreamInv'
  <2>1. UNCHANGED <<up, pending, answer, current, toClient, told>>
    BY <1>2 DEF Connect, Killed, HandshakeWritten, ReadFails, server
  <2>2. ReadSoFar'
    <3>1. \A d \in Clients : d # c => proc'[d] = proc[d]
      BY <1>2 DEF Connect, Killed, HandshakeWritten, ReadFails, TypeInv, TypeOK
    <3>2. \/ proc[c] = "off" /\ proc'[c] \in {"sending", "exited"}
          \/ proc[c] = "sending" /\ proc'[c] = "command"
          \/ proc'[c] = "killed"
          \/ ~ up /\ proc'[c] = "aborted"
      BY <1>2 DEF Connect, Killed, HandshakeWritten, ReadFails, TypeInv, TypeOK
    <3> QED
      BY <2>1, <3>1, <3>2 DEF StreamInv, ReadSoFar
  <2> QED
    BY <2>1, <2>2, StreamsUntouched DEF StreamInv, Unanswered, Turned
<1>3. ASSUME NEW c \in Clients,
             ReadPregameCommand(c) \/ ReadPregameDisconnectReason(c) \/ ReadStartGame(c)
      PROVE  StreamInv'
  BY <1>3, ReadStep
<1>4. ASSUME NEW c \in Clients, ReadHandshake(c)
      PROVE  StreamInv'
  BY <1>4, ScheduleStep
<1>5. ASSUME NEW c \in Clients,
             \/ HandleAccept(c) \/ ReadHandshakeSize(c)
             \/ DisconnectWritten(c) \/ GameWritten(c) \/ OperationFails(c)
      PROVE  StreamInv'
  <2>1. UNCHANGED <<answer, current, proc, toClient, told>> /\ (up' => up)
    BY <1>5 DEF HandleAccept, ReadHandshakeSize, DisconnectWritten, GameWritten, OperationFails,
                client, Fall, TypeInv, TypeOK
  <2>2. \A d \in Clients : d # c => pending'[d] = pending[d]
    BY <1>5 DEF HandleAccept, ReadHandshakeSize, DisconnectWritten, GameWritten, OperationFails,
                TypeInv, TypeOK
  <2>3. \/ pending'[c] = pending[c]
        \/ pending[c] \in {"none", "size"} /\ pending'[c] \in {"size", "handshake"}
        \/ pending'[c] = "status"
    BY <1>5 DEF HandleAccept, ReadHandshakeSize, DisconnectWritten, GameWritten, OperationFails,
                TypeInv, TypeOK, Waiting
  <2>4. Unanswered' /\ Turned'
    BY <2>1, <2>2, <2>3 DEF StreamInv, Unanswered, Turned
  <2> QED
    BY <2>1, <2>4, StreamsUntouched DEF StreamInv, ReadSoFar
<1>6. CASE HandleAcceptError
  BY <1>6, StreamsUntouched DEF HandleAcceptError, client, StreamInv, Unanswered, Turned, ReadSoFar
<1> QED
  BY <1>1, <1>2, <1>3, <1>4, <1>5, <1>6 DEF Next, ClientStep, ServerStep

---------------------------------------------------------------------------
(* The theorems. *)

(* The server falls only for a reason a served client gives it.            *)
LEMMA FallStep ==
  ASSUME TypeInv, StreamInv, FallsOnlyWithClient, [Next]_vars
  PROVE  FallsOnlyWithClient'
<1> DEFINE Reason(c) == \/ Gone(c)
                        \/ c \notin current
                        \/ \E a \in answer[c] : a.game = {}
<1>1. ASSUME NEW c \in Clients, c \in Served
      PROVE  c \in Served'
  <2>1. CASE Accepts
    BY <1>1, <2>1 DEF Accepts, HandleAccept, HandleAcceptError, Served, TypeInv, TypeOK
  <2> QED
    BY <1>1, <2>1, Steady
<1>2. ASSUME NEW c \in Clients, Gone(c)
      PROVE  Gone(c)'
  BY <1>2 DEF Next, vars, Gone, Ended, Connect, Killed, ClientStep, HandshakeWritten, ReadFails,
              ReadPregameCommand, ReadPregameDisconnectReason, ReadStartGame, Read, ServerStep,
              HandleAccept, ReadHandshakeSize, ReadHandshake, DisconnectWritten, GameWritten,
              OperationFails, HandleAcceptError, client, TypeInv, TypeOK
<1>3. CASE ~ up
  <2>1. \A c \in Clients : answer'[c] = answer[c] /\ (c \in current' <=> c \in current)
    BY <1>3 DEF Next, vars, server, client, Connect, Killed, ClientStep, HandshakeWritten, ReadFails,
              ReadPregameCommand, ReadPregameDisconnectReason, ReadStartGame, Read, ServerStep,
              HandleAccept, ReadHandshakeSize, ReadHandshake, DisconnectWritten, GameWritten,
              OperationFails, HandleAcceptError
  <2>2. PICK c \in Served : Reason(c)
    BY <1>3 DEF FallsOnlyWithClient
  <2>3. c \in Served' /\ Reason(c)'
    BY <1>1, <1>2, <2>1, <2>2 DEF Served
  <2> QED
    BY <2>3 DEF FallsOnlyWithClient
<1>4. CASE up /\ ~ up'
  <2>1. PICK c \in Clients :
          \/ OperationFails(c)
          \/ DisconnectWritten(c)
          \/ ReadHandshake(c)
    BY <1>4 DEF Next, vars, server, client, Connect, Killed, ClientStep, HandshakeWritten, ReadFails,
              ReadPregameCommand, ReadPregameDisconnectReason, ReadStartGame, Read, ServerStep,
              HandleAccept, ReadHandshakeSize, GameWritten, HandleAcceptError
  <2>2. c \in Served /\ c \in Served'
    BY <1>1, <2>1 DEF Served, OperationFails, DisconnectWritten, ReadHandshake
  <2>3. Reason(c)'
    <3>1. CASE OperationFails(c)
      BY <1>2, <3>1 DEF OperationFails
    <3>2. CASE DisconnectWritten(c)
      BY <3>2 DEF DisconnectWritten, client, StreamInv, Turned
    <3>3. CASE ReadHandshake(c)
      <4>1. PICK a \in Answers : a.game = {} /\ answer' = [answer EXCEPT ![c] = {a}]
        BY <1>4, <3>3 DEF ReadHandshake, ScheduleGame
      <4>2. a \in answer'[c]
        BY <4>1 DEF TypeInv, TypeOK
      <4> QED
        BY <4>1, <4>2
    <3> QED
      BY <2>1, <3>1, <3>2, <3>3
  <2> QED
    BY <2>2, <2>3 DEF FallsOnlyWithClient
<1> QED
  BY <1>3, <1>4 DEF FallsOnlyWithClient

(* What holds in every reachable state. *)
SessionInv == TypeInv /\ Held /\ StreamInv /\ FallsOnlyWithClient

LEMMA SessionStart == Init => SessionInv
  BY TypeInit, HeldInit, StreamInit DEF SessionInv, FallsOnlyWithClient, Init

LEMMA SessionStep == SessionInv /\ [Next]_vars => SessionInv'
  BY TypeStep, HeldStep, StreamStep, FallStep DEF SessionInv

(* The invariant of all sessions, in every reachable state. *)
THEOREM SessionInvariance == Spec => []SessionInv
  BY SessionStart, SessionStep, PTL DEF Spec

(* The variables keep their shape; the bound on connections is never the   *)
(* reason why a client is not accepted.                                    *)
THEOREM SessionTypeCorrect == Spec => []TypeOK
<1>1. SessionInv => TypeOK
  BY DEF SessionInv, TypeInv
<1> QED
  BY <1>1, SessionInvariance, PTL

(* conns holds one connection for each client that is being served, and    *)
(* one for the next.                                                       *)
THEOREM ConnectionsCorrect == Spec => []ConnectionsHeld
<1>1. SessionInv => ConnectionsHeld
  <2> SUFFICES ASSUME SessionInv PROVE ConnectionsHeld
    OBVIOUS
  <2>1. ASSUME NEW c \in Clients
        PROVE  Cardinality(ConnsOf(c)) = IF c \in Served THEN 1 ELSE 0
    BY FS_Singleton, FS_EmptySet DEF SessionInv, Held
  <2> QED
    BY <2>1 DEF SessionInv, Held, ConnectionsHeld, ConnsOf
<1> QED
  BY <1>1, SessionInvariance, PTL

(* A sequence of one element or two, followed by another. *)
LEMMA Beginning ==
  ASSUME NEW S, NEW t \in Seq(S), NEW s \in Seq(S), t # <<>>, Len(t) <= 2
  PROVE  /\ t \o s # <<>>
         /\ Len(t \o s) >= 2 => (t \o s)[1] \in S /\ (t \o s)[2] \in S
         /\ t = <<(t \o s)[1]>> \/ t = <<(t \o s)[1], (t \o s)[2]>>
<1> DEFINE w == t \o s
<1>1. Len(t) \in Nat /\ Len(s) \in Nat
  BY LenProperties
<1>2. Len(t) \in {1, 2}
  <2>1. Len(t) \in Nat \ {0}
    BY EmptySeq
  <2>2. \A n \in Nat \ {0} : n <= 2 => n \in {1, 2}
    OBVIOUS
  <2> QED
    BY <2>1, <2>2
<1>3. /\ w \in Seq(S) /\ Len(w) = Len(t) + Len(s)
      /\ \A i \in 1..Len(t) + Len(s) : w[i] = IF i <= Len(t) THEN t[i] ELSE s[i - Len(t)]
  BY ConcatProperties
<1>4. w # <<>>
  <2>1. Len(w) # 0
    BY <1>1, <1>2, <1>3
  <2> QED
    BY <2>1
<1>5. ASSUME Len(w) >= 2
      PROVE  w[1] \in S /\ w[2] \in S
  <2>1. 1 \in 1..Len(w) /\ 2 \in 1..Len(w)
    BY <1>1, <1>3, <1>5
  <2> QED
    BY <1>3, <2>1, ElementOfSeq
<1>6. CASE Len(t) = 1
  <2>1. w[1] = t[1]
    BY <1>1, <1>3, <1>6
  <2>2. <<t[1]>> \in Seq(S) /\ Len(<<t[1]>>) = 1 /\ <<t[1]>>[1] = t[1]
    BY <1>6, ElementOfSeq
  <2>3. t = <<t[1]>>
    BY <1>6, <2>2, SeqEqual
  <2> QED
    BY <1>4, <1>5, <2>1, <2>3
<1>7. CASE Len(t) = 2
  <2>1. w[1] = t[1] /\ w[2] = t[2]
    BY <1>1, <1>3, <1>7
  <2>2. t[1] \in S /\ t[2] \in S
    <3>1. 1 \in 1..Len(t) /\ 2 \in 1..Len(t)
      BY <1>7
    <3> QED
      BY <3>1, ElementOfSeq
  <2>3. /\ <<t[1], t[2]>> \in Seq(S) /\ Len(<<t[1], t[2]>>) = 2
        /\ <<t[1], t[2]>>[1] = t[1] /\ <<t[1], t[2]>>[2] = t[2]
    BY <2>2
  <2>4. t = <<t[1], t[2]>>
    BY <1>7, <2>3, SeqEqual
  <2> QED
    BY <1>4, <1>5, <2>1, <2>4
<1> QED
  BY <1>2, <1>6, <1>7

(* What a client has read begins its stream. *)
LEMMA ToldBegins ==
  ASSUME SessionInv, NEW c \in Clients
  PROVE  \/ told[c] = <<>>
         \/ \E p, q \in Packets : Opens(c, p, q) /\ told[c] \in {<<p>>, <<p, q>>}
<1>1. told[c] \in Seq(Packets) /\ toClient[c] \in Seq(Packets) /\ Len(told[c]) <= 2
  BY DEF SessionInv, TypeInv, TypeOK, StreamInv, ReadSoFar
<1>2. CASE told[c] # <<>>
  <2>1. /\ Stream(c) # <<>>
        /\ Len(Stream(c)) >= 2 => Stream(c)[1] \in Packets /\ Stream(c)[2] \in Packets
        /\ told[c] = <<Stream(c)[1]>> \/ told[c] = <<Stream(c)[1], Stream(c)[2]>>
    BY <1>1, <1>2, Beginning DEF Stream
  <2>2. Len(Stream(c)) >= 2 /\ Opens(c, Stream(c)[1], Stream(c)[2])
    BY <2>1 DEF SessionInv, StreamInv, StreamsOpen
  <2> QED
    BY <2>1, <2>2
<1> QED
  BY <1>2

(* No client ever meets a packet of another kind than it waits for.        *)
THEOREM PacketsUnderstood == Spec => []ClientsUnderstand
<1>1. SessionInv => ClientsUnderstand
  <2> SUFFICES ASSUME SessionInv, NEW c \in Clients
               PROVE  /\ told[c] \in {<<>>, <<"DISCONNECT">>, <<"START_GAME">>}
                                     \cup {<<"DISCONNECT", r>> : r \in Reasons}
                                     \cup {<<"START_GAME", g>> : g \in Games}
                      /\ proc[c] = "aborted" => ~ up
    BY DEF ClientsUnderstand
  <2>1. proc[c] = "aborted" => ~ up
    BY DEF SessionInv, StreamInv, ReadSoFar
  <2> QED
    BY <2>1, ToldBegins DEF Opens, Reasons
<1> QED
  BY <1>1, SessionInvariance, PTL

(* Clients of either version are told the truth, however the two writes of *)
(* a connection overlap.                                                   *)
THEOREM TruthTold == Spec => []ToldTheTruth
<1>1. SessionInv => ToldTheTruth
  <2> SUFFICES ASSUME SessionInv, NEW c \in Clients
               PROVE  /\ c \notin current =>
                           told[c] \in {<<>>, <<"DISCONNECT">>, <<"DISCONNECT", "BAD_VERSION">>}
                      /\ told[c] = <<"DISCONNECT", "BAD_VERSION">> => c \notin current
                      /\ told[c] = <<"DISCONNECT", "NO_GAMES">> =>
                           answer[c] = {[ok |-> FALSE, game |-> {}]}
                      /\ \A g \in Games : told[c] = <<"START_GAME", g>> =>
                           answer[c] = {[ok |-> TRUE, game |-> {g}]}
    BY DEF ToldTheTruth
  <2>1. CASE told[c] = <<>>
    BY <2>1
  <2>2. ASSUME NEW p \in Packets, NEW q \in Packets, Opens(c, p, q), told[c] = <<p>>
        PROVE  /\ Len(told[c]) = 1
               /\ c \notin current => p = "DISCONNECT"
    BY <2>2 DEF Opens
  <2>3. ASSUME NEW p \in Packets, NEW q \in Packets, Opens(c, p, q), told[c] = <<p, q>>
        PROVE  /\ c \notin current <=> p = "DISCONNECT" /\ q = "BAD_VERSION"
               /\ p = "DISCONNECT" /\ q = "NO_GAMES" => answer[c] = {[ok |-> FALSE, game |-> {}]}
               /\ \A g \in Games : p = "START_GAME" /\ q = g => answer[c] = {[ok |-> TRUE, game |-> {g}]}
    BY <2>3 DEF Opens
  <2> QED
    BY <2>1, <2>2, <2>3, ToldBegins
<1> QED
  BY <1>1, SessionInvariance, PTL

(* A server serving clients that stay, are of its version and have games   *)
(* does not fall.                                                          *)
THEOREM FallExplained == Spec => []FallsOnlyWithClient
  BY SessionInvariance, PTL DEF SessionInv

===========================================================================

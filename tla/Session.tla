------------------------------ MODULE Session ------------------------------
(***************************************************************************)
(* The server's connections (Server.cpp, Connection.cpp) and the clients   *)
(* (Client.cpp) they talk to, from connect to the end of the session.      *)
(*                                                                         *)
(* The server is one thread in io_service::run: each completion handler is *)
(* one step, and so is each handler of a client.  Asserts are compiled in  *)
(* (CMakeLists.txt sets no build type), and every handler asserts that its *)
(* operation succeeded: a failure, like a null Game, ends the process.     *)
(*                                                                         *)
(* The stream from the server is a sequence of packets, each read exactly. *)
(* Once an end is gone its stream may be cut anywhere (a reset discards    *)
(* what is not read yet).  What generateGame answers is left open here.    *)
(***************************************************************************)
EXTENDS Integers, Sequences, FiniteSets, Functions

CONSTANTS
  Clients,  \* client processes, each of which connects once
  Games,    \* games generateGame may fill in
  MaxIds    \* bound on the connections created, failed accepts included

ASSUME SessionAssumption ==
  /\ IsFiniteSet(Clients)
  /\ MaxIds \in Nat /\ MaxIds > Cardinality(Clients)

VARIABLES
  up,        \* the server process is running
  nextId,    \* Server::nextId
  conns,     \* Server::conns: id |-> {the client accepted}, {} if none
  backlog,   \* clients connected and not accepted yet (kernel)
  pending,   \* client |-> its connection's next completion: a phase
  answer,    \* client |-> what generateGame returned for it, if asked
  current,   \* clients of the version the server asks for
  proc,      \* client |-> phase of the client process
  toServer,  \* client |-> packets sent and not read
  toClient,  \* client |-> packets sent and not read
  told       \* client |-> packets the client has read

server == <<up, nextId, conns, pending, answer>>
vars == <<up, nextId, conns, backlog, pending, answer, current, proc, toServer, toClient, told>>

Reasons == {"BAD_VERSION", "NO_GAMES"}
Packets == {"DISCONNECT", "START_GAME"} \cup Reasons \cup Games

(* What generateGame can come back with: a game, no game, or true without  *)
(* a game (the fall-through of generateNewMatchup).                        *)
Answers == [ok : {TRUE}, game : {{g} : g \in Games} \cup {{}}]
             \cup [ok : {FALSE}, game : {{}}]

(* Phases of a client process in which its socket is closed. *)
Ended == {"exited", "aborted", "killed"}
Gone(c) == proc[c] \in Ended

Served == {c \in Clients : pending[c] # "none"}

---------------------------------------------------------------------------
(* The client process. *)

(* The constructor: connect, and start to write the handshake.  When the   *)
(* server is down connect throws and main returns.                         *)
Connect(c) ==
  /\ proc[c] = "off"
  /\ \/ /\ up
        /\ proc' = [proc EXCEPT ![c] = "sending"]
        /\ backlog' = backlog \cup {c}
        /\ toServer' = [toServer EXCEPT ![c] = <<"size", "handshake">>]
     \/ /\ ~ up
        /\ proc' = [proc EXCEPT ![c] = "exited"]
        /\ UNCHANGED <<backlog, toServer>>
  /\ UNCHANGED <<server, current, toClient, told>>

(* waitPregameCmdFn. *)
HandshakeWritten(c) ==
  /\ proc[c] = "sending"
  /\ \/ proc' = [proc EXCEPT ![c] = "command"]
     \/ ~ up /\ proc' = [proc EXCEPT ![c] = "aborted"]
  /\ UNCHANGED <<server, current, backlog, toServer, toClient, told>>

(* A read of one packet completes and its handler moves on to a phase; the *)
(* default case of readPregameCommand is an assert.                        *)
Read(c, phase, next(_)) ==
  /\ proc[c] = phase
  /\ toClient[c] # <<>>
  /\ proc' = [proc EXCEPT ![c] = next(Head(toClient[c]))]
  /\ told' = [told EXCEPT ![c] = Append(@, Head(toClient[c]))]
  /\ toClient' = [toClient EXCEPT ![c] = Tail(@)]
  /\ UNCHANGED <<server, current, backlog, toServer>>

AfterCommand(p) ==
  CASE p = "DISCONNECT" -> "reason"
    [] p = "START_GAME" -> "game"
    [] OTHER            -> "aborted"

ReadPregameCommand(c) == Read(c, "command", AfterCommand)

(* Mistake: the client waits for another command. *)
AfterLastStays(p) == "command"

(* Neither of the last handlers schedules work: run returns, and main.     *)
AfterLast(p) == "exited"

ReadPregameDisconnectReason(c) == Read(c, "reason", AfterLast)
ReadStartGame(c) == Read(c, "game", AfterLast)

(* The error_code asserts of the reads, once the server is gone. *)
ReadFails(c) ==
  /\ ~ up
  /\ proc[c] \in {"command", "reason", "game"}
  /\ proc' = [proc EXCEPT ![c] = "aborted"]
  /\ UNCHANGED <<server, current, backlog, toServer, toClient, told>>

(* The user, or the machine, ends a client. *)
Killed(c) ==
  /\ proc[c] \in {"sending", "command", "reason", "game"}
  /\ proc' = [proc EXCEPT ![c] = "killed"]
  /\ UNCHANGED <<server, current, backlog, toServer, toClient, told>>

---------------------------------------------------------------------------
(* The server process. *)

client == <<current, proc, told>>

Fall == up' = FALSE

(* Mistakes: the connection is not put into conns, or under the last id.   *)
StartAcceptUnlisted(old) ==
  /\ nextId' = nextId + 1
  /\ conns' = old

StartAcceptSameId(old) ==
  /\ UNCHANGED nextId
  /\ conns' = [old EXCEPT ![nextId - 1] = {}]

(* startAccept: a new connection under the next id, waiting for a client. *)
StartAccept(old) ==
  /\ nextId' = nextId + 1
  /\ conns' = [id \in 0..nextId |-> IF id = nextId THEN {} ELSE old[id]]

Acceptor == nextId - 1

(* handleAccept, with and without an error. *)
HandleAccept(c) ==
  /\ up /\ c \in backlog
  /\ backlog' = backlog \ {c}
  /\ pending' = [pending EXCEPT ![c] = "size"]
  /\ StartAccept([conns EXCEPT ![Acceptor] = {c}])
  /\ UNCHANGED <<up, answer, toServer, toClient, client>>

HandleAcceptError ==
  /\ up /\ nextId + Cardinality(Clients \ Served) < MaxIds
  /\ StartAccept(conns)
  /\ UNCHANGED <<up, backlog, pending, answer, toServer, toClient, client>>

(* The error_code and byteCount asserts of a connection's operation: the   *)
(* client is gone.                                                         *)
OperationFails(c) ==
  /\ up /\ Gone(c)
  /\ pending[c] \in {"size", "handshake", "game", "status"}
  /\ Fall
  /\ UNCHANGED <<nextId, conns, backlog, pending, answer, toServer, toClient, client>>

(* readHandshakeSizeFn. *)
ReadHandshakeSize(c) ==
  /\ up /\ pending[c] = "size"
  /\ toServer[c] # <<>>
  /\ toServer' = [toServer EXCEPT ![c] = Tail(@)]
  /\ pending' = [pending EXCEPT ![c] = "handshake"]
  /\ UNCHANGED <<up, nextId, conns, backlog, answer, toClient, client>>

(* Mistake: the packets are put into the buffer the other way round. *)
DisconnectSwapped(reason) == <<reason, "DISCONNECT">>

(* What sendPregameDisconnect puts into the buffer and starts to write; it *)
(* is still there when the next packets are.                               *)
Disconnect(reason) == <<"DISCONNECT", reason>>

(* scheduleGame, with what the buffer still holds.  NO_GAMES is sent and   *)
(* sendStartGame is called all the same: it reads through the null         *)
(* pointers of the empty Game.  With a game, the whole buffer is written   *)
(* (again), and of two writes the first to complete is the disconnect.     *)
ScheduleGame(c, buffer, a) ==
  LET sent == IF a.ok THEN buffer ELSE buffer \o Disconnect("NO_GAMES")
  IN /\ answer' = [answer EXCEPT ![c] = {a}]
     /\ \/ /\ a.game = {}
           /\ toClient' = [toClient EXCEPT ![c] =
                             IF a.ok THEN @ \o buffer ELSE @ \o buffer \o sent]
           /\ Fall
           /\ UNCHANGED pending
        \/ \E g \in a.game :
             /\ toClient' = [toClient EXCEPT ![c] = @ \o buffer \o buffer \o <<"START_GAME", g>>]
             /\ pending' = [pending EXCEPT ![c] = IF buffer = <<>> THEN "game" ELSE "disconnect"]
             /\ UNCHANGED up

(* Mistake: the version is not looked at. *)
ReadHandshakeOnly(c) ==
  /\ up /\ pending[c] = "handshake"
  /\ toServer[c] # <<>>
  /\ toServer' = [toServer EXCEPT ![c] = Tail(@)]
  /\ \E a \in Answers : ScheduleGame(c, <<>>, a)
  /\ UNCHANGED <<nextId, conns, backlog, client>>

(* readHandshakeFn, readHandshake: a wrong version is answered, and a game *)
(* is scheduled whatever the version.                                      *)
ReadHandshake(c) ==
  /\ up /\ pending[c] = "handshake"
  /\ toServer[c] # <<>>
  /\ toServer' = [toServer EXCEPT ![c] = Tail(@)]
  /\ \E a \in Answers :
       ScheduleGame(c, IF c \in current THEN <<>> ELSE Disconnect("BAD_VERSION"), a)
  /\ UNCHANGED <<nextId, conns, backlog, client>>

(* destroyConnectionFn: the two bytes written are not                      *)
(* PregameCommandPacket::size(), and the assert says they are.             *)
DisconnectWritten(c) ==
  /\ up /\ pending[c] = "disconnect"
  /\ Fall
  /\ UNCHANGED <<nextId, conns, backlog, pending, answer, toServer, toClient, client>>

(* Mistake: the written bytes are miscounted here too. *)
GameMiscounted(c) ==
  /\ up /\ pending[c] = "game"
  /\ Fall
  /\ UNCHANGED <<nextId, conns, backlog, pending, answer, toServer, toClient, client>>

(* waitReadStatusFn.  No client sends a status: readGameStatus is never    *)
(* reached.                                                                *)
GameWritten(c) ==
  /\ up /\ pending[c] = "game"
  /\ pending' = [pending EXCEPT ![c] = "status"]
  /\ UNCHANGED <<up, nextId, conns, backlog, answer, toServer, toClient, client>>

---------------------------------------------------------------------------
Init ==
  /\ up = TRUE
  /\ nextId = 1 /\ conns = [id \in {0} |-> {}]
  /\ backlog = {}
  /\ pending = [c \in Clients |-> "none"]
  /\ answer = [c \in Clients |-> {}]
  /\ current \in SUBSET Clients
  /\ proc = [c \in Clients |-> "off"]
  /\ toServer = [c \in Clients |-> <<>>]
  /\ toClient = [c \in Clients |-> <<>>]
  /\ told = [c \in Clients |-> <<>>]

ClientStep(c) ==
  \/ HandshakeWritten(c)
  \/ ReadPregameCommand(c)
  \/ ReadPregameDisconnectReason(c)
  \/ ReadStartGame(c)
  \/ ReadFails(c)

ServerStep(c) ==
  \/ HandleAccept(c)
  \/ ReadHandshakeSize(c)
  \/ ReadHandshake(c)
  \/ DisconnectWritten(c)
  \/ GameWritten(c)
  \/ OperationFails(c)

Next ==
  \/ \E c \in Clients : Connect(c) \/ Killed(c)
  \/ \E c \in Clients : ClientStep(c)
  \/ \E c \in Clients : ServerStep(c)
  \/ HandleAcceptError

(* io_service::run runs every handler that is ready, on both sides. *)
Fairness == \A c \in Clients : WF_vars(ClientStep(c)) /\ WF_vars(ServerStep(c))

Spec == Init /\ [][Next]_vars /\ Fairness

---------------------------------------------------------------------------
(* Properties. *)

(* Every variable keeps its shape, within the bound on the connections.    *)
TypeOK ==
  /\ up \in BOOLEAN
  /\ nextId \in 1..MaxIds
  /\ conns \in [0..Acceptor -> {{}} \cup {{c} : c \in Clients}]
  /\ backlog \subseteq Clients /\ current \subseteq Clients
  /\ pending \in [Clients -> {"none", "size", "handshake", "disconnect", "game", "status"}]
  /\ answer \in [Clients -> SUBSET Answers]
  /\ proc \in [Clients -> {"off", "sending", "command", "reason", "game"} \cup Ended]
  /\ toServer \in [Clients -> Seq({"size", "handshake"})]
  /\ toClient \in [Clients -> Seq(Packets)] /\ told \in [Clients -> Seq(Packets)]

(* Although two writes of a connection overlap and the second repeats the  *)
(* first's bytes, a client never takes a packet for one of another kind:   *)
(* it reads a command and its argument, and its assert on bad commands     *)
(* (Client.cpp line 106) is never the one that ends it.                    *)
ClientsUnderstand ==
  \A c \in Clients :
    /\ told[c] \in {<<>>, <<"DISCONNECT">>, <<"START_GAME">>}
                   \cup {<<"DISCONNECT", r>> : r \in Reasons}
                   \cup {<<"START_GAME", g>> : g \in Games}
    /\ proc[c] = "aborted" => ~ up

(* What a client is told is true: the game it plays is the one generated   *)
(* for it, NO_GAMES means none was, BAD_VERSION that its version is wrong; *)
(* and a client of the wrong version is told nothing else.                 *)
ToldTheTruth ==
  \A c \in Clients :
    /\ c \notin current =>
         told[c] \in {<<>>, <<"DISCONNECT">>, <<"DISCONNECT", "BAD_VERSION">>}
    /\ told[c] = <<"DISCONNECT", "BAD_VERSION">> => c \notin current
    /\ told[c] = <<"DISCONNECT", "NO_GAMES">> => answer[c] = {[ok |-> FALSE, game |-> {}]}
    /\ \A g \in Games : told[c] = <<"START_GAME", g>> => answer[c] = {[ok |-> TRUE, game |-> {g}]}

(* While the server runs, every operation under way is that of a           *)
(* connection it holds, one per client, and one more connection is there   *)
(* for the next client: no accept error and no session ever uses it up.    *)
ConnectionsHeld ==
  up => /\ conns[Acceptor] = {}
        /\ \A c \in Clients : Cardinality({id \in DOMAIN conns : c \in conns[id]})
                             = IF c \in Served THEN 1 ELSE 0

(* The server does not fall without a client that is gone, of the wrong    *)
(* version or without a game: clients that are served well do not bring it *)
(* down, in any order of their steps.                                      *)
FallsOnlyWithClient ==
  up \/ \E c \in Served : \/ Gone(c)
                          \/ c \notin current
                          \/ \E a \in answer[c] : a.game = {}

(* A client that got through to the server does not hang: it is told how   *)
(* it stands, or the server falls and it notices.                          *)
EveryClientEnds == \A c \in Clients : proc[c] = "sending" ~> Gone(c)

---------------------------------------------------------------------------
(* What the sources say of it and it does not do.                          *)
(* "If we don't [find a game] that means there are no games for it, so we  *)
(* might as well disconnect it" (Connection.cpp lines 76 and 77): lack of  *)
(* games ends a session, not the server.                                   *)
SurvivesLackOfGames ==
  up \/ \E c \in Served : \/ Gone(c)
                          \/ c \notin current
                          \/ \E a \in answer[c] : a.ok /\ a.game = {}

===========================================================================

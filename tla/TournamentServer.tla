-------------------------- MODULE TournamentServer --------------------------
(***************************************************************************)
(* The whole of a tournament: the sessions of module Session, served by    *)
(* the GameGenerator that Server owns (Server::gen), to which a connection *)
(* passes what its client announced in the handshake.  Nothing in the      *)
(* sources calls notifySuccess or notifyFail.                              *)
(*                                                                         *)
(* With up to two maps, and nothing reported, no assert of generateGame    *)
(* can fail (NeverAborted), so a handshake always brings an answer.        *)
(***************************************************************************)
EXTENDS GameGenerator

CONSTANTS
  Clients,  \* client processes, each of which connects once
  MaxIds    \* bound on the connections created

ASSUME ServerAssumption ==
  /\ IsFiniteSet(Clients)
  /\ MaxIds \in Nat /\ MaxIds > Cardinality(Clients)
  /\ Len(Maps) <= 2

(* The state of the sessions, as in module Session. *)
VARIABLES
  up, nextId, conns, backlog, pending, answer, current, proc, toServer, toClient, told,
  offer     \* client |-> the bots and maps it has files of

S == INSTANCE Session

generator == <<active, finished, finishedBots, reply, aborted, outstanding, played>>
all == <<S!vars, generator, offer>>

---------------------------------------------------------------------------
(* Mistakes: another connection's sets are passed, or the game the last    *)
(* client was given is sent.                                               *)
ReadHandshakeOfOther(c) ==
  /\ S!ReadHandshake(c)
  /\ \E d \in Clients : GenerateGame(offer[d])
  /\ answer'[c] = {reply'}
  /\ UNCHANGED offer

ReadHandshakeStale(c) ==
  /\ S!ReadHandshake(c)
  /\ GenerateGame(offer[c])
  /\ answer'[c] = {reply}
  /\ UNCHANGED offer

(* Connection::scheduleGame: the generator is asked with the sets of this  *)
(* connection, and what it returns and fills in is what is sent.           *)
ReadHandshake(c) ==
  /\ up /\ pending[c] = "handshake"
  /\ GenerateGame(offer[c])
  /\ answer' = [answer EXCEPT ![c] = {reply'}]
  /\ S!ReadHandshake(c)
  /\ UNCHANGED offer

(* Every other handler leaves the generator alone. *)
Elsewhere(step) == step /\ UNCHANGED <<generator, offer>>

ClientStep(c) == Elsewhere(S!ClientStep(c))

ServerStep(c) ==
  \/ ReadHandshake(c)
  \/ Elsewhere(\/ S!HandleAccept(c)
               \/ S!ReadHandshakeSize(c)
               \/ S!DisconnectWritten(c)
               \/ S!GameWritten(c)
               \/ S!OperationFails(c))

ServerInit == S!Init /\ Init /\ offer \in [Clients -> Offers]

ServerNext ==
  \/ \E c \in Clients : Elsewhere(S!Connect(c) \/ S!Killed(c))
  \/ \E c \in Clients : ClientStep(c)
  \/ \E c \in Clients : ServerStep(c)
  \/ Elsewhere(S!HandleAcceptError)

ServerSpec ==
  /\ ServerInit /\ [][ServerNext]_all
  /\ \A c \in Clients : WF_all(ClientStep(c)) /\ WF_all(ServerStep(c))

---------------------------------------------------------------------------
(* Properties. *)

(* Every variable keeps its shape; those of the sessions are in Session's  *)
(* own type invariant.                                                     *)
ServerTypeOK ==
  /\ TypeOK
  /\ offer \in [Clients -> Offers]
  /\ \A c \in Clients : answer[c] \subseteq S!Answers

(* No sequence of handshakes makes an assert of the generator fail.        *)
NeverAborted == aborted = "no"

(* The games generated for a client, and the clients told to play a game. *)
GameOf(c) == UNION {a.game : a \in answer[c]}

Holders(g) == {c \in Clients : g \in GameOf(c)}

Playing(g) ==
  {c \in Clients : Len(told[c]) = 2 /\ told[c][1] = "START_GAME" /\ told[c][2] = g}

(* A client starts a game only if it has the files for it, whichever       *)
(* clients shook hands in between.                                         *)
OwnersPlay ==
  \A g \in Games : \A c \in Playing(g) :
    {g.bot0, g.bot1} \subseteq Range(offer[c].bots) /\ g.map \in Range(offer[c].maps)

(* The generator counts as out exactly the games connections were given,   *)
(* among them those of clients that died, and of clients of the wrong      *)
(* version, which are never told of theirs: none comes back.               *)
GamesAccounted ==
  \A g \in Games : outstanding[g] = Cardinality(Holders(g)) /\ played[g] = 0

(* What the connections hold is a tournament in the sense of Tournament,   *)
(* as long as only two clients have come: lookups miss nothing yet.        *)
Stock == INSTANCE Tournament WITH
  Bots <- Range(Bots), Maps <- Range(Maps),
  Offers <- {[bots |-> Range(o.bots), maps |-> Range(o.maps)] : o \in Offers},
  played <- [g \in Games |-> 0],
  outstanding <- [g \in Games |-> Cardinality(Holders(g))]


(* A client that has the server's files under names that sort alike: with  *)
(* other names, what it has in common with the server is not found.        *)
Sound(c) ==
  c \in current /\ offer[c] = [bots |-> Bots, maps |-> Maps] /\ proc[c] # "killed"

(* Among clients that have everything in the server's order, are of its    *)
(* version and are not killed, and while there are enough games, each one  *)
(* that gets through is told a game, or it is too late: another client     *)
(* was told its game, returned, and the failing read of its status took    *)
(* the server with it (Connection.cpp line 123).                           *)
SoundClientsPlay ==
  \A c \in Clients :
    proc[c] = "sending" ~>
      \/ \E g \in Games : c \in Playing(g)
      \/ ~ up /\ \E d \in Clients \ {c}, g \in Games : d \in Playing(g) /\ proc[d] = "exited"
      \/ \E d \in Clients : ~ Sound(d)
      \/ Cardinality(Clients) > NumGames * Cardinality(Games)

===========================================================================

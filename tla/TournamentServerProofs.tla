----------------------- MODULE TournamentServerProofs -----------------------
(***************************************************************************)
(* Theorems about TournamentServer, for any clients and up to three bots   *)
(* and two maps, over the containers of the build.  The sessions keep the  *)
(* invariant of SessionProofs and the generator that of                    *)
(* GameGeneratorProofs, whose lemmas are used as they are; what joins the  *)
(* two is what each connection was given (HeldByOwners, GamesAccounted).   *)
(***************************************************************************)
EXTENDS TournamentServer, GameGeneratorProofs, FiniteSetTheorems

SP == INSTANCE SessionProofs

Fits(c, g) == Owns(offer[c], g)

(* A connection is given only games its client has the files for. *)
HeldByOwners == \A c \in Clients : \A g \in GameOf(c) : Fits(c, g)

ServerInv ==
  /\ SP!SessionInv
  /\ IInv
  /\ offer \in [Clients -> Offers]
  /\ HeldByOwners
  /\ GamesAccounted
  /\ NeverAborted

---------------------------------------------------------------------------
(* The sessions: every step is one of module Session. *)

LEMMA SessionsStart == S!Init => SP!SessionInv
<1>1. SP!SessionAssumption
  BY ServerAssumption DEF SP!SessionAssumption, SP!IsFiniteSet, IsFiniteSet, SP!Cardinality, Cardinality
<1>2. S!Init => SP!Init
  BY DEF S!Init, SP!Init
<1> QED
  BY <1>1, <1>2, SP!SessionStart

LEMMA SessionsStep ==
  ASSUME SP!SessionInv, [ServerNext]_all
  PROVE  SP!SessionInv'
<1>1. SP!SessionAssumption
  BY ServerAssumption DEF SP!SessionAssumption, SP!IsFiniteSet, IsFiniteSet, SP!Cardinality, Cardinality
<1>2. ASSUME NEW c \in Clients
      PROVE  /\ S!Connect(c) => SP!Connect(c)
             /\ S!Killed(c) => SP!Killed(c)
             /\ S!ClientStep(c) => SP!ClientStep(c)
  BY DEF S!Connect, SP!Connect, S!Killed, SP!Killed, S!server, SP!server,
         S!ClientStep, SP!ClientStep, S!HandshakeWritten, SP!HandshakeWritten,
         S!ReadPregameCommand, SP!ReadPregameCommand,
         S!ReadPregameDisconnectReason, SP!ReadPregameDisconnectReason,
         S!ReadStartGame, SP!ReadStartGame, S!ReadFails, SP!ReadFails,
         S!Read, SP!Read, S!AfterCommand, SP!AfterCommand, S!AfterLast, SP!AfterLast
<1>3. /\ \A c \in Clients : S!HandleAccept(c) => SP!HandleAccept(c)
      /\ S!HandleAcceptError => SP!HandleAcceptError
  BY DEF S!HandleAccept, SP!HandleAccept, S!HandleAcceptError, SP!HandleAcceptError,
         S!StartAccept, SP!StartAccept, S!Acceptor, SP!Acceptor, S!Served, SP!Served,
         S!client, SP!client, S!Cardinality, SP!Cardinality
<1>4. ASSUME NEW c \in Clients
      PROVE  /\ S!ReadHandshakeSize(c) => SP!ReadHandshakeSize(c)
             /\ S!DisconnectWritten(c) => SP!DisconnectWritten(c)
             /\ S!GameWritten(c) => SP!GameWritten(c)
             /\ S!OperationFails(c) => SP!OperationFails(c)
  BY DEF S!ReadHandshakeSize, SP!ReadHandshakeSize, S!DisconnectWritten, SP!DisconnectWritten,
         S!GameWritten, SP!GameWritten, S!OperationFails, SP!OperationFails,
         S!Fall, SP!Fall, S!Gone, SP!Gone, S!Ended, SP!Ended, S!client, SP!client
<1>5. ASSUME NEW c \in Clients
      PROVE  S!ReadHandshake(c) => SP!ReadHandshake(c)
  BY DEF S!ReadHandshake, SP!ReadHandshake, S!ScheduleGame, SP!ScheduleGame,
         S!Answers, SP!Answers, S!Disconnect, SP!Disconnect, S!Fall, SP!Fall, S!client, SP!client
<1>6. UNCHANGED all => UNCHANGED SP!vars
  BY DEF all, S!vars, SP!vars
<1>7. ServerNext => SP!Next
  BY <1>2, <1>3, <1>4, <1>5 DEF ServerNext, ClientStep, ServerStep, ReadHandshake, Elsewhere,
     SP!Next, SP!ServerStep
<1> QED
  BY <1>1, <1>6, <1>7, SP!SessionStep

---------------------------------------------------------------------------
(* What a step does to the games. *)

(* Only a handshake changes what anyone was given. *)
LEMMA NothingGiven ==
  ASSUME [ServerNext]_all, ~ \E c \in Clients : ReadHandshake(c)
  PROVE  UNCHANGED <<generator, offer, answer>>
<1>1. UNCHANGED all => UNCHANGED <<generator, offer, answer>>
  BY DEF all, S!vars
<1>2. ServerNext => UNCHANGED <<generator, offer>>
  BY DEF ServerNext, ClientStep, ServerStep, Elsewhere
<1>3. ASSUME NEW c \in Clients,
             S!Connect(c) \/ S!Killed(c) \/ S!ClientStep(c)
      PROVE  UNCHANGED answer
  BY <1>3 DEF S!Connect, S!Killed, S!server, S!ClientStep, S!HandshakeWritten, S!ReadPregameCommand,
         S!ReadPregameDisconnectReason, S!ReadStartGame, S!ReadFails, S!Read
<1>4. ASSUME NEW c \in Clients,
             S!HandleAccept(c) \/ S!ReadHandshakeSize(c) \/ S!DisconnectWritten(c)
               \/ S!GameWritten(c) \/ S!OperationFails(c)
      PROVE  UNCHANGED answer
  BY <1>4 DEF S!HandleAccept, S!ReadHandshakeSize, S!DisconnectWritten, S!GameWritten, S!OperationFails
<1>5. S!HandleAcceptError => UNCHANGED answer
  BY DEF S!HandleAcceptError
<1> QED
  BY <1>1, <1>2, <1>3, <1>4, <1>5 DEF ServerNext, ClientStep, ServerStep, Elsewhere

(* With two maps no matchup has three counters, which is what it takes for *)
(* set_difference to leave a map that is being played on.                  *)
LEMMA NoThirdCounter ==
  ASSUME NEW cs \in CounterMaps
  PROVE  Len(cs) # 3
<1> SUFFICES ASSUME Len(cs) = 3 PROVE FALSE
  OBVIOUS
<1>1. \A i \in 1..3 : cs[i].first \in Range(Maps)
  BY CountersCounted
<1>2. \A i, j \in 1..3 : cs[i].first = cs[j].first => i = j
  BY CountersCounted
<1>3. \A m \in Range(Maps) : m = Maps[1] \/ m = Maps[2]
  <2> DEFINE n == Len(Maps)
  <2>1. n \in 0..3 /\ n <= 2 /\ DOMAIN Maps = 1..n
    BY ConstantsTyped, ServerAssumption
  <2> HIDE DEF n
  <2>2. \A i \in 1..n : i = 1 \/ i = 2
    BY <2>1
  <2> QED
    BY <2>1, <2>2 DEF Range
<1> DEFINE a == cs[1].first
           b == cs[2].first
           c == cs[3].first
<1>4. a \in Range(Maps) /\ b \in Range(Maps) /\ c \in Range(Maps)
  BY <1>1
<1>5. a # b /\ a # c /\ b # c
  BY <1>2
<1> HIDE DEF a, b, c
<1> QED
  BY <1>3, <1>4, <1>5

(* A handshake: nothing is given, or one game the client has the files for *)
(* leaves for it; it had none before.  No assert fails. *)
LEMMA Handshake ==
  ASSUME ServerInv, NEW c \in Clients, ReadHandshake(c)
  PROVE  /\ IInv' /\ offer' = offer /\ GameOf(c) = {} /\ NeverAborted'
         /\ \A d \in Clients \ {c} : GameOf(d)' = GameOf(d)
         /\ \/ UNCHANGED outstanding /\ GameOf(c)' = {}
            \/ \E g \in Games : /\ GameOf(c)' = {g} /\ Fits(c, g)
                                /\ outstanding' = [outstanding EXCEPT ![g] = @ + 1]
         /\ UNCHANGED played
<1>1. /\ offer[c] \in Offers /\ GenerateGame(offer[c]) /\ offer' = offer
      /\ S!ReadHandshake(c) /\ aborted = "no" /\ UNCHANGED played
  BY DEF ServerInv, ReadHandshake, GenerateGame
<1>2. answer[c] = {} /\ answer \in [Clients -> SUBSET SP!Answers]
  BY <1>1 DEF ServerInv, SP!SessionInv, SP!StreamInv, SP!Unanswered, SP!TypeInv, SP!TypeOK, S!ReadHandshake
<1>3. answer' = [answer EXCEPT ![c] = {reply'}]
  BY DEF ReadHandshake
<1>4. /\ \A d \in Clients \ {c} : GameOf(d)' = GameOf(d)
      /\ GameOf(c) = {} /\ GameOf(c)' = reply'.game
  BY <1>2, <1>3 DEF GameOf
<1>5. IInv' /\ Outcome(offer[c])
  BY <1>1, GenerateGameStep DEF ServerInv
<1>6. CASE \E ok \in BOOLEAN : Return(ok)
  BY <1>1, <1>4, <1>5, <1>6 DEF Return, NeverAborted
<1>7. ASSUME AssertFails("active") PROVE FALSE
  <2>1. AbortsExplained' /\ Typed' /\ aborted' = "active"
    BY <1>5, <1>7 DEF IInv, AssertFails
  <2>2. PICK p \in Matchups : Has(active', p) /\ Len(At(active', p)) = 3
    BY <2>1 DEF AbortsExplained
  <2>3. active' = active
    BY <1>7 DEF AssertFails
  <2>4. At(active, p) \in CounterMaps
    BY <2>2, <2>3, ActiveTyped DEF ServerInv, IInv
  <2> QED
    BY <2>2, <2>3, <2>4, NoThirdCounter
<1>8. ASSUME NEW p \in Matchups, NEW m \in Range(Maps), HandOut(p, m), m \in Range(offer[c].maps),
             p[1] \in Range(offer[c].bots), p[2] \in Range(offer[c].bots)
      PROVE  NeverAborted' /\ \E g \in Games : /\ GameOf(c)' = {g} /\ Fits(c, g)
                                              /\ outstanding' = [outstanding EXCEPT ![g] = @ + 1]
  <2> DEFINE g == GameOn(p, m)
  <2>1. g \in Games /\ g.bot0 = p[1] /\ g.bot1 = p[2] /\ g.map = m
    BY GamesOf DEF GameOn
  <2>2. /\ reply' = [ok |-> TRUE, game |-> {g}]
        /\ outstanding' = [outstanding EXCEPT ![g] = @ + 1]
        /\ NeverAborted'
    BY <1>1, <1>8 DEF HandOut, NeverAborted
  <2>3. GameOf(c)' = {g}
    BY <1>4, <2>2
  <2>4. Fits(c, g)
    BY <1>8, <2>1 DEF Fits, Owns
  <2> QED
    BY <2>1, <2>2, <2>3, <2>4
<1> QED
  BY <1>1, <1>4, <1>5, <1>6, <1>7, <1>8 DEF Outcome

---------------------------------------------------------------------------
(* The whole. *)

LEMMA ServerStart == ServerInit => ServerInv
<1> SUFFICES ASSUME ServerInit PROVE ServerInv
  OBVIOUS
<1>1. SP!SessionInv /\ IInv /\ offer \in [Clients -> Offers]
  BY SessionsStart, InitInv DEF ServerInit
<1>2. \A c \in Clients : GameOf(c) = {}
  BY DEF ServerInit, S!Init, GameOf
<1>3. GamesAccounted
  <2>1. \A g \in Games : Holders(g) = {}
    BY <1>2 DEF Holders
  <2> QED
    BY <2>1, FS_EmptySet DEF GamesAccounted, ServerInit, Init
<1> QED
  BY <1>1, <1>2, <1>3 DEF ServerInv, HeldByOwners, NeverAborted, ServerInit, Init

LEMMA ServerStepKeeps == ServerInv /\ [ServerNext]_all => ServerInv'
<1> SUFFICES ASSUME ServerInv, [ServerNext]_all PROVE ServerInv'
  OBVIOUS
<1>1. SP!SessionInv'
  BY SessionsStep DEF ServerInv
<1>2. CASE ~ \E c \in Clients : ReadHandshake(c)
  <2>1. UNCHANGED <<generator, offer, answer>>
    BY <1>2, NothingGiven
  <2>2. IInv'
    BY <2>1, StepInv DEF ServerInv, generator, vars
  <2>3. \A c \in Clients : GameOf(c)' = GameOf(c)
    BY <2>1 DEF GameOf
  <2>4. HeldByOwners'
    BY <2>1, <2>3 DEF ServerInv, HeldByOwners, Fits
  <2>5. GamesAccounted'
    BY <2>1, <2>3 DEF ServerInv, GamesAccounted, Holders, generator
  <2> QED
    BY <1>1, <2>1, <2>2, <2>4, <2>5 DEF ServerInv, NeverAborted, generator
<1>3. ASSUME NEW c \in Clients, ReadHandshake(c)
      PROVE  ServerInv'
  <2>1. /\ IInv' /\ offer' = offer /\ GameOf(c) = {} /\ UNCHANGED played /\ NeverAborted'
        /\ \A d \in Clients \ {c} : GameOf(d)' = GameOf(d)
    BY <1>3, Handshake
  <2>2. CASE UNCHANGED outstanding /\ GameOf(c)' = {}
    <3>1. \A d \in Clients : GameOf(d)' = GameOf(d)
      BY <2>1, <2>2
    <3>2. HeldByOwners' /\ GamesAccounted'
      BY <2>1, <2>2, <3>1 DEF ServerInv, HeldByOwners, Fits, GamesAccounted, Holders
    <3> QED
      BY <1>1, <2>1, <3>2 DEF ServerInv
  <2>3. ASSUME NEW g \in Games, GameOf(c)' = {g}, Fits(c, g),
               outstanding' = [outstanding EXCEPT ![g] = @ + 1]
        PROVE  ServerInv'
    <3>1. HeldByOwners'
      BY <2>1, <2>3 DEF ServerInv, HeldByOwners, Fits
    <3>2. /\ Holders(g)' = Holders(g) \cup {c} /\ c \notin Holders(g)
          /\ \A h \in Games \ {g} : Holders(h)' = Holders(h)
      BY <2>1, <2>3 DEF Holders
    <3>3. IsFiniteSet(Holders(g))
      BY ServerAssumption, FS_Subset DEF Holders
    <3>4. Cardinality(Holders(g)') = Cardinality(Holders(g)) + 1
      BY <3>2, <3>3, FS_AddElement
    <3>5. \A h \in Games : outstanding'[h] = Cardinality(Holders(h)')
      BY <2>3, <3>2, <3>4 DEF ServerInv, GamesAccounted, IInv, Typed
    <3>6. GamesAccounted'
      BY <2>1, <3>5 DEF ServerInv, GamesAccounted
    <3> QED
      BY <1>1, <2>1, <3>1, <3>6 DEF ServerInv
  <2> QED
    BY <1>3, <2>2, <2>3, Handshake
<1> QED
  BY <1>2, <1>3

(* The invariant of the whole server, in every reachable state. *)
THEOREM ServerInvariance == ServerSpec => []ServerInv
  BY ServerStart, ServerStepKeeps, PTL DEF ServerSpec

(* Server, sessions and generator keep their shape. *)
THEOREM ServerTypeCorrect == ServerSpec => []ServerTypeOK
<1>1. ServerInv => ServerTypeOK
  BY TypedMeansTypeOK DEF ServerInv, ServerTypeOK, SP!SessionInv, SP!TypeInv, SP!TypeOK, SP!Answers, S!Answers
<1> QED
  BY <1>1, ServerInvariance, PTL

(* No sequence of handshakes makes an assert of generateGame fail, with up *)
(* to three bots and two maps and whatever the clients announce.           *)
THEOREM NoAssertFails == ServerSpec => []NeverAborted
  BY ServerInvariance, PTL DEF ServerInv

(* The generator's books and what the connections were given agree. *)
THEOREM BooksCorrect == ServerSpec => []GamesAccounted
  BY ServerInvariance, PTL DEF ServerInv

(* A client that is told a game holds it. *)
LEMMA PlayersHold ==
  ASSUME ServerInv, NEW g \in Games
  PROVE  Playing(g) \subseteq Holders(g)
<1> SUFFICES ASSUME NEW c \in Playing(g)
             PROVE  g \in GameOf(c)
  BY DEF Playing, Holders
<1>1. SP!SessionAssumption
  BY ServerAssumption DEF SP!SessionAssumption, SP!IsFiniteSet, IsFiniteSet, SP!Cardinality, Cardinality
<1>2. c \in Clients /\ Len(told[c]) = 2 /\ told[c][1] = "START_GAME" /\ told[c][2] = g
  BY DEF Playing
<1>3. PICK p, q : SP!Opens(c, p, q) /\ told[c] \in {<<p>>, <<p, q>>}
  <2>1. \/ told[c] = <<>>
        \/ \E p, q \in SP!Packets : SP!Opens(c, p, q) /\ told[c] \in {<<p>>, <<p, q>>}
    BY <1>1, <1>2, SP!ToldBegins DEF ServerInv
  <2> QED
    BY <1>2, <2>1
<1>4. told[c] = <<p, q>> /\ p = "START_GAME" /\ q = g
  BY <1>2, <1>3
<1>5. answer[c] = {[ok |-> TRUE, game |-> {g}]}
  BY <1>3, <1>4 DEF SP!Opens
<1> QED
  BY <1>5 DEF GameOf

(* Whoever starts a game has the files for it. *)
THEOREM PlayersOwn == ServerSpec => []OwnersPlay
<1>1. ServerInv => OwnersPlay
  <2> SUFFICES ASSUME ServerInv, NEW g \in Games, NEW c \in Playing(g)
               PROVE  Fits(c, g)
    BY DEF OwnersPlay, Fits, Owns
  <2>1. c \in Holders(g)
    BY PlayersHold
  <2> QED
    BY <2>1 DEF ServerInv, HeldByOwners, Holders
<1> QED
  BY <1>1, ServerInvariance, PTL

=============================================================================

----------------------------- MODULE LinkSetup ------------------------------
(***************************************************************************)
(* How the front end and the masters find each other (FrontEndLink.cpp,    *)
(* MasterLink.cpp, and the Start functions of FE_TCP.cpp, Master_TCP.cpp   *)
(* and NetLink.cpp).                                                       *)
(*                                                                         *)
(* The front end makes a link for each master, every link with an acceptor *)
(* on a port of its own: link i on First + i.  A master tries the ports    *)
(* one after the other, over and over, until a connect succeeds.           *)
(*                                                                         *)
(* A connect succeeds as soon as the port is open: the system of the front *)
(* end completes it and keeps it in the backlog of the acceptor until it   *)
(* is accepted.  Closing the acceptor resets what its backlog still holds. *)
(*                                                                         *)
(* An end is a link of the front end or the link of a master.  Both work   *)
(* alike: a handler, run by the io_service, sets _connectionMade and then  *)
(* the socket, and the thread that called Start waits for _connectionMade  *)
(* to start the receiver thread, which uses the socket.                    *)
(***************************************************************************)
EXTENDS Integers, Sequences

CONSTANTS
  Masters,  \* the master processes
  FrontEnd, \* the front end process
  Links,    \* _masters_count, the same at the front end and the masters
  First     \* the first port

ASSUME LinkSetupAssumption ==
  /\ FrontEnd \notin Masters
  /\ Links \in Nat \ {0}
  /\ First \in Nat
  /\ Masters \cap Int = {}
  /\ "none" \notin Masters

VARIABLES
  main,      \* where FE_TCP::Start is: off, create, run, wait or started
  next,      \* the link it is about to create or waits for
  running,   \* whether the io_service of the front end runs
  acceptor,  \* by link: none, open or closed
  backlog,   \* by link: connections that are not accepted yet
  peer,      \* by link: the master it has accepted
  search,    \* by master: off, connecting, refused or connected
  port,      \* by master: _port_num
  count,     \* by master: _NumberOfConnections
  handler,   \* by end: none, ready to be called, made or done
  receiver,  \* by end: its receiver thread, none, spawned, listening or broken
  reset,     \* the masters whose connection was reset by the front end
  crashed    \* the processes that have terminated

feVars == <<main, next, running, acceptor, backlog, peer>>
masterVars == <<search, port, count>>
vars == <<feVars, masterVars, handler, receiver, reset, crashed>>

Link == 0 .. Links - 1
Ends == Link \cup Masters

(* What is accepted by no link yet. *)
None == "none"

ProcessOf(e) == IF e \in Masters THEN e ELSE FrontEnd
Alive(e) == ProcessOf(e) \notin crashed

Init ==
  /\ main = "off"
  /\ next = 0
  /\ running = FALSE
  /\ acceptor = [i \in Link |-> "none"]
  /\ backlog = [i \in Link |-> <<>>]
  /\ peer = [i \in Link |-> None]
  /\ search = [m \in Masters |-> "off"]
  /\ port = [m \in Masters |-> First]
  /\ count = [m \in Masters |-> 0]
  /\ handler = [e \in Ends |-> "none"]
  /\ receiver = [e \in Ends |-> "none"]
  /\ reset = {}
  /\ crashed = {}

-----------------------------------------------------------------------------
(* The thread of the front end that calls Start. *)

StartFrontEnd ==
  /\ main = "off"
  /\ main' = "create"
  /\ UNCHANGED <<next, running, acceptor, backlog, peer, masterVars, handler,
                 receiver, reset, crashed>>

(* Mutant of AfterCreate: the thread that runs the io_service is forgotten. *)
WaitAtOnce == "wait"

AfterCreate == "run"

(* CreateMultipleLinks_ToMASTERS, one round: the constructor of the link     *)
(* opens its port and ConnectToMaster asks for one connection.               *)
CreateFrontEndLink ==
  /\ Alive(FrontEnd)
  /\ main = "create"
  /\ acceptor' = [acceptor EXCEPT ![next] = "open"]
  /\ next' = (next + 1) % Links
  /\ main' = IF next' = 0 THEN AfterCreate ELSE "create"
  /\ UNCHANGED <<running, backlog, peer, masterVars, handler, receiver, reset, crashed>>

RunFrontEnd ==
  /\ Alive(FrontEnd)
  /\ main = "run"
  /\ running' = TRUE
  /\ main' = "wait"
  /\ UNCHANGED <<next, acceptor, backlog, peer, masterVars, handler, receiver,
                 reset, crashed>>

(* WaitForConnections sees _connectionMade and the receiver is spawned. *)
WaitForConnections(e) ==
  /\ Alive(e)
  /\ receiver[e] = "none"
  /\ handler[e] \in {"made", "done"}
  /\ receiver' = [receiver EXCEPT ![e] = "spawned"]

(* StartReceivingTags or StartReceivingObjects, for one link after another. *)
StartReceivingFrom ==
  /\ main = "wait"
  /\ WaitForConnections(next)
  /\ next' = (next + 1) % Links
  /\ main' = IF next' = 0 THEN "started" ELSE "wait"
  /\ UNCHANGED <<running, acceptor, backlog, peer, masterVars, handler, reset, crashed>>

-----------------------------------------------------------------------------
(* The connections of the front end. *)

(* The system accepts the one connection asked for; the handler can be run. *)
Accept(i) ==
  /\ Alive(FrontEnd)
  /\ acceptor[i] = "open"
  /\ peer[i] = None
  /\ backlog[i] # <<>>
  /\ peer' = [peer EXCEPT ![i] = Head(backlog[i])]
  /\ backlog' = [backlog EXCEPT ![i] = Tail(@)]
  /\ handler' = [handler EXCEPT ![i] = "ready"]
  /\ UNCHANGED <<main, next, running, acceptor, masterVars, receiver, reset, crashed>>

(* The connections that end with the front end. *)
Connected == {m \in Masters : search[m] = "connected"}

(* FrontEndLink::Handle_IfConnected, as far as _connectionMade.  Asking for  *)
(* the remote endpoint may throw if the master has gone.  One thread runs    *)
(* the handlers of all the links, each to its end.                           *)
FrontEndConnectionMade(i) ==
  /\ Alive(FrontEnd)
  /\ running
  /\ handler[i] = "ready"
  /\ \A j \in Link : handler[j] # "made"
  /\ \/ /\ handler' = [handler EXCEPT ![i] = "made"]
        /\ UNCHANGED <<reset, crashed>>
     \/ /\ peer[i] \in crashed
        /\ crashed' = crashed \cup {FrontEnd}
        /\ reset' = reset \cup Connected
        /\ UNCHANGED handler
  /\ UNCHANGED <<feVars, masterVars, receiver>>

(* The rest of it: the socket is set and the acceptor closed, which resets   *)
(* the connections that were not accepted.                                   *)
FrontEndSetSocket(i) ==
  /\ Alive(FrontEnd)
  /\ handler[i] = "made"
  /\ handler' = [handler EXCEPT ![i] = "done"]
  /\ acceptor' = [acceptor EXCEPT ![i] = "closed"]
  /\ reset' = reset \cup {backlog[i][k] : k \in 1 .. Len(backlog[i])}
  /\ backlog' = [backlog EXCEPT ![i] = <<>>]
  /\ UNCHANGED <<main, next, running, peer, masterVars, receiver, crashed>>

-----------------------------------------------------------------------------
(* A master. *)

(* Start: ConnectToFrontEnd, and the thread that runs the io_service. *)
StartMaster(m) ==
  /\ search[m] = "off"
  /\ search' = [search EXCEPT ![m] = "connecting"]
  /\ UNCHANGED <<feVars, port, count, handler, receiver, reset, crashed>>

StartReceivingAt(m) ==
  /\ WaitForConnections(m)
  /\ UNCHANGED <<feVars, masterVars, handler, reset, crashed>>

Open(p) ==
  /\ Alive(FrontEnd)
  /\ p - First \in Link
  /\ acceptor[p - First] = "open"

(* The connect comes to an end, with or without a connection. *)
Connect(m) ==
  /\ Alive(m)
  /\ search[m] = "connecting"
  /\ IF Open(port[m])
     THEN /\ search' = [search EXCEPT ![m] = "connected"]
          /\ backlog' = [backlog EXCEPT ![port[m] - First] = Append(@, m)]
          /\ handler' = [handler EXCEPT ![m] = "ready"]
     ELSE /\ search' = [search EXCEPT ![m] = "refused"]
          /\ UNCHANGED <<backlog, handler>>
  /\ UNCHANGED <<main, next, running, acceptor, peer, port, count, receiver,
                 reset, crashed>>

(* _max_port_number, as computed by the constructor and ConnectToFrontEnd. *)
MaxPort == First + Links

(* Mutant of NextPort: the search does not begin again at the first port. *)
NextPortNoWrap(m) == IF port[m] = MaxPort THEN MaxPort ELSE port[m] + 1

NextPort(m) == IF port[m] = MaxPort THEN First ELSE port[m] + 1

(* Mutant of LooksOn: off by one, the search goes on with a connection. *)
LooksOnWithOne(n) == n <= 1

(* The condition at the end of MasterLink::Handle_IfConnected. *)
LooksOn(n) == n < 1

(* Handle_IfConnected with an error: the next port is tried. *)
ConnectionRefused(m) ==
  /\ Alive(m)
  /\ search[m] = "refused"
  /\ LooksOn(count[m])
  /\ port' = [port EXCEPT ![m] = NextPort(m)]
  /\ search' = [search EXCEPT ![m] = "connecting"]
  /\ UNCHANGED <<feVars, count, handler, receiver, reset, crashed>>

(* Handle_IfConnected without an error, as far as _connectionMade. *)
MasterConnectionMade(m) ==
  /\ Alive(m)
  /\ handler[m] = "ready"
  /\ handler' = [handler EXCEPT ![m] = "made"]
  /\ UNCHANGED <<feVars, masterVars, receiver, reset, crashed>>

(* The rest of it.  Asking for the remote endpoint throws, in the thread of  *)
(* the io_service, if the connection is known to have been reset.            *)
MasterSetSocket(m) ==
  /\ Alive(m)
  /\ handler[m] = "made"
  /\ \/ /\ count' = [count EXCEPT ![m] = @ + 1]
        /\ IF LooksOn(count'[m])
           THEN /\ port' = [port EXCEPT ![m] = NextPort(m)]
                /\ search' = [search EXCEPT ![m] = "connecting"]
                /\ handler' = [handler EXCEPT ![m] = "none"]
           ELSE /\ handler' = [handler EXCEPT ![m] = "done"]
                /\ UNCHANGED <<port, search>>
        /\ UNCHANGED crashed
     \/ /\ m \in reset
        /\ crashed' = crashed \cup {m}
        /\ UNCHANGED <<masterVars, handler>>
  /\ UNCHANGED <<feVars, receiver, reset>>

-----------------------------------------------------------------------------
(* The receiver thread of an end begins to use the socket; without one its   *)
(* process terminates, and the front end takes its connections with it.      *)
StartReceiver(e) ==
  /\ Alive(e)
  /\ receiver[e] = "spawned"
  /\ IF handler[e] = "done"
     THEN /\ receiver' = [receiver EXCEPT ![e] = "listening"]
          /\ UNCHANGED <<reset, crashed>>
     ELSE /\ receiver' = [receiver EXCEPT ![e] = "broken"]
          /\ crashed' = crashed \cup {ProcessOf(e)}
          /\ reset' = IF e \in Link THEN reset \cup Connected ELSE reset
  /\ UNCHANGED <<feVars, masterVars, handler>>

FrontEndStep ==
  \/ CreateFrontEndLink \/ RunFrontEnd \/ StartReceivingFrom
  \/ \E i \in Link :
       Accept(i) \/ FrontEndConnectionMade(i) \/ FrontEndSetSocket(i) \/ StartReceiver(i)

MasterStep(m) ==
  \/ Connect(m) \/ ConnectionRefused(m)
  \/ MasterConnectionMade(m) \/ MasterSetSocket(m)
  \/ StartReceivingAt(m) \/ StartReceiver(m)

Next ==
  \/ StartFrontEnd
  \/ FrontEndStep
  \/ \E m \in Masters : StartMaster(m) \/ MasterStep(m)

Spec == Init /\ [][Next]_vars

(* Threads run on and connects come to an end; the processes are started.    *)
FairSpec ==
  /\ Spec
  /\ WF_vars(StartFrontEnd)
  /\ WF_vars(CreateFrontEndLink)
  /\ WF_vars(RunFrontEnd)
  /\ WF_vars(StartReceivingFrom)
  /\ \A i \in Link :
       /\ WF_vars(Accept(i))
       /\ WF_vars(FrontEndConnectionMade(i))
       /\ WF_vars(FrontEndSetSocket(i))
  /\ \A e \in Ends : WF_vars(StartReceiver(e))
  /\ \A m \in Masters :
       /\ WF_vars(StartMaster(m))
       /\ WF_vars(Connect(m))
       /\ WF_vars(ConnectionRefused(m))
       /\ WF_vars(MasterConnectionMade(m))
       /\ WF_vars(MasterSetSocket(m))
       /\ WF_vars(StartReceivingAt(m))

-----------------------------------------------------------------------------
(* The types of the variables; a master stays within its range of ports and  *)
(* has at most one connection.                                               *)
TypeOK ==
  /\ main \in {"off", "create", "run", "wait", "started"}
  /\ next \in Link
  /\ running \in BOOLEAN
  /\ acceptor \in [Link -> {"none", "open", "closed"}]
  /\ backlog \in [Link -> Seq(Masters)]
  /\ peer \in [Link -> Masters \cup {None}]
  /\ search \in [Masters -> {"off", "connecting", "refused", "connected"}]
  /\ port \in [Masters -> First .. MaxPort]
  /\ count \in [Masters -> 0 .. 1]
  /\ handler \in [Ends -> {"none", "ready", "made", "done"}]
  /\ receiver \in [Ends -> {"none", "spawned", "listening", "broken"}]
  /\ reset \subseteq Masters
  /\ crashed \subseteq Masters \cup {FrontEnd}

(* The two ends agree: a master that a link has accepted is connected at the *)
(* port of that link, its connection is not one of those that were reset,    *)
(* and no other link has accepted it or has it waiting in its backlog.       *)
LinksAgree ==
  \A i \in Link :
    peer[i] # None /\ FrontEnd \notin crashed =>
      /\ search[peer[i]] = "connected"
      /\ port[peer[i]] = First + i
      /\ peer[i] \notin reset
      /\ \A j \in Link :
           /\ j # i => peer[j] # peer[i]
           /\ \A k \in 1 .. Len(backlog[j]) : backlog[j][k] # peer[i]

(* With no more masters than links every search comes to an end: a link that *)
(* has lost its port has taken a master, so one port stays open for the      *)
(* masters that are still looking, and the ports are tried in turn.          *)
SearchEnds ==
  \A m \in Masters :
    []<>(search[m] = "connected" \/ FrontEnd \in crashed)

(* The Start of the front end returns: every link gets a master and the     *)
(* handlers that end its waits are run.  Only a master that was reset, and   *)
(* so does not go on to a link that is still waiting, can keep it from that. *)
StartReturns == <>(main = "started" \/ FrontEnd \in crashed \/ reset # {})
=============================================================================

-------------------------- MODULE LinkSetupProofs ---------------------------
(***************************************************************************)
(* Theorems about LinkSetup for every set of masters and number of links.  *)
(***************************************************************************)
EXTENDS LinkSetup, SequenceTheorems, TLAPS

(* A master has counted its connection once its handler is done, and one     *)
(* that is not connected has neither a handler nor a connection to reset.    *)
MastersInv ==
  \A m \in Masters :
    /\ count[m] = IF handler[m] = "done" THEN 1 ELSE 0
    /\ search[m] # "connected" => handler[m] = "none" /\ m \notin reset

(* The master is connected at the port of the link, and not reset. *)
OfLink(m, i) == search[m] = "connected" /\ port[m] = First + i /\ m \notin reset

(* The connections a link has in its hands, waiting or accepted, are all     *)
(* made at its port, and are different ones.                                 *)
HeldBy(i) ==
  /\ peer[i] # None => OfLink(peer[i], i)
  /\ \A k \in 1 .. Len(backlog[i]) :
       /\ OfLink(backlog[i][k], i)
       /\ backlog[i][k] # peer[i]
       /\ \A l \in 1 .. Len(backlog[i]) : k # l => backlog[i][k] # backlog[i][l]

HeldInv == FrontEnd \notin crashed => \A i \in Link : HeldBy(i)

SetupInv == TypeOK /\ MastersInv /\ HeldInv

(* Links are counted modulo their number, and a master is no link.           *)
LEMMA NextLink ==
  /\ \A i \in Link : (i + 1) % Links \in Link
  /\ Link \cap Masters = {} /\ Link \subseteq Int /\ 0 \in Link
<1>1. \A a \in Nat, b \in Nat \ {0} : a % b \in 0 .. b - 1
  OBVIOUS
<1>2. Links \in Nat \ {0} /\ Masters \cap Int = {}
  BY LinkSetupAssumption
<1>3. \A i \in Link : i + 1 \in Nat
  BY <1>2 DEF Link
<1> QED
  BY <1>1, <1>2, <1>3 DEF Link

(* A port the search tries next is within the range.                         *)
LEMMA PortsTried == ASSUME TypeOK, NEW m \in Masters PROVE NextPort(m) \in First .. MaxPort
BY LinkSetupAssumption DEF TypeOK, NextPort, MaxPort

(* The first connection of a backlog is taken from it.                       *)
LEMMA TakeFirst ==
  ASSUME NEW S, NEW s \in Seq(S), s # <<>>
  PROVE  /\ Head(s) = s[1] /\ Head(s) \in S /\ 1 \in 1 .. Len(s)
         /\ Tail(s) \in Seq(S)
         /\ \A k \in 1 .. Len(Tail(s)) : k + 1 \in 1 .. Len(s) /\ k + 1 # 1 /\ Tail(s)[k] = s[k + 1]
<1>1. /\ Head(s) \in S /\ Tail(s) \in Seq(S) /\ Len(Tail(s)) = Len(s) - 1
      /\ \A k \in 1 .. Len(Tail(s)) : Tail(s)[k] = s[k + 1]
  BY HeadTailProperties
<1>2. Len(s) \in Nat \ {0} /\ Head(s) = s[1]
  BY EmptySeq
<1> QED
  BY <1>1, <1>2

-----------------------------------------------------------------------------
(* Nothing has begun: no link, no master, no socket. *)
LEMMA InitSetup == Init => SetupInv
<1> SUFFICES ASSUME Init PROVE SetupInv
  OBVIOUS
<1>0. <<>> \in Seq(Masters) /\ Len(<<>>) = 0
  BY EmptySeq
<1>1. TypeOK
  <2>1. First \in First .. MaxPort /\ 0 \in 0 .. 1 /\ 0 \in Link
    BY NextLink, LinkSetupAssumption DEF MaxPort
  <2>2. /\ main \in {"off", "create", "run", "wait", "started"}
        /\ next \in Link /\ running \in BOOLEAN
        /\ acceptor \in [Link -> {"none", "open", "closed"}]
        /\ backlog \in [Link -> Seq(Masters)]
        /\ peer \in [Link -> Masters \cup {None}]
    BY <1>0, <2>1 DEF Init
  <2>3. /\ search \in [Masters -> {"off", "connecting", "refused", "connected"}]
        /\ port \in [Masters -> First .. MaxPort]
        /\ count \in [Masters -> 0 .. 1]
        /\ handler \in [Ends -> {"none", "ready", "made", "done"}]
        /\ receiver \in [Ends -> {"none", "spawned", "listening", "broken"}]
        /\ reset \subseteq Masters /\ crashed \subseteq Masters \cup {FrontEnd}
    BY <2>1 DEF Init
  <2> QED
    BY <2>2, <2>3 DEF TypeOK
<1>2. MastersInv
  BY DEF Init, MastersInv, Ends
<1>3. HeldInv
  BY <1>0 DEF Init, HeldInv, HeldBy
<1> QED
  BY <1>1, <1>2, <1>3 DEF SetupInv

(* A step of the front end keeps the types. *)
LEMMA FrontEndTypes ==
  ASSUME TypeOK, FrontEndStep
  PROVE  TypeOK'
<1>1. CASE CreateFrontEndLink
  BY <1>1, NextLink DEF CreateFrontEndLink, TypeOK, masterVars, AfterCreate
<1>2. CASE RunFrontEnd
  BY <1>2 DEF RunFrontEnd, TypeOK, masterVars
<1>3. CASE StartReceivingFrom
  BY <1>3, NextLink DEF StartReceivingFrom, WaitForConnections, TypeOK, masterVars, Ends
<1>4. ASSUME NEW i \in Link, Accept(i) PROVE TypeOK'
  <2>1. backlog[i] \in Seq(Masters) /\ backlog[i] # <<>>
    BY <1>4 DEF Accept, TypeOK
  <2>2. Head(backlog[i]) \in Masters /\ Tail(backlog[i]) \in Seq(Masters)
    BY <2>1, TakeFirst
  <2> QED
    BY <1>4, <2>2 DEF Accept, TypeOK, masterVars, Ends
<1>5. ASSUME NEW i \in Link, FrontEndConnectionMade(i) PROVE TypeOK'
  BY <1>5 DEF FrontEndConnectionMade, TypeOK, feVars, masterVars, Ends, Connected
<1>6. ASSUME NEW i \in Link, FrontEndSetSocket(i) PROVE TypeOK'
  <2>1. {backlog[i][k] : k \in 1 .. Len(backlog[i])} \subseteq Masters
    <3>1. backlog[i] \in Seq(Masters)
      BY DEF TypeOK
    <3> QED
      BY <3>1, ElementOfSeq
  <2>2. <<>> \in Seq(Masters)
    BY EmptySeq
  <2>3. reset' \subseteq Masters
    BY <1>6, <2>1 DEF FrontEndSetSocket, TypeOK
  <2> QED
    BY <1>6, <2>2, <2>3 DEF FrontEndSetSocket, TypeOK, masterVars, Ends
<1>7. ASSUME NEW i \in Link, StartReceiver(i) PROVE TypeOK'
  BY ZenonT(40), <1>7, NextLink DEF StartReceiver, TypeOK, feVars, masterVars, Ends, Connected, ProcessOf
<1> QED
  BY <1>1, <1>2, <1>3, <1>4, <1>5, <1>6, <1>7 DEF FrontEndStep

(* What MasterSetSocket does: with a connection the search does not go on.   *)
LEMMA SocketSet ==
  ASSUME TypeOK, MastersInv, NEW m \in Masters, MasterSetSocket(m)
  PROVE  /\ handler[m] = "made"
         /\ UNCHANGED <<feVars, search, port, receiver, reset>>
         /\ \/ /\ count' = [count EXCEPT ![m] = 1]
               /\ handler' = [handler EXCEPT ![m] = "done"]
               /\ UNCHANGED crashed
            \/ /\ crashed' = crashed \cup {m}
               /\ UNCHANGED <<count, handler>>
<1>1. count[m] = 0 /\ handler[m] = "made"
  BY DEF MasterSetSocket, MastersInv
<1>2. CASE count' = [count EXCEPT ![m] = @ + 1]
  <2>1. count'[m] = 1 /\ count' = [count EXCEPT ![m] = 1]
    BY <1>1, <1>2 DEF TypeOK
  <2>2. ~LooksOn(count'[m])
    BY <2>1 DEF LooksOn
  <2> QED
    BY <1>1, <2>1, <2>2 DEF MasterSetSocket, masterVars
<1>3. CASE count' # [count EXCEPT ![m] = @ + 1]
  BY <1>1, <1>3 DEF MasterSetSocket, masterVars
<1> QED
  BY <1>2, <1>3

(* A step of a master keeps the types. *)
LEMMA MasterTypes ==
  ASSUME TypeOK, MastersInv, NEW m \in Masters, StartMaster(m) \/ MasterStep(m)
  PROVE  TypeOK'
<1>0. m \in Ends
  BY DEF Ends
<1>1. CASE StartMaster(m)
  BY <1>1 DEF StartMaster, TypeOK, feVars
<1>2. CASE Connect(m)
  <2>1. CASE Open(port[m])
    <3>1. port[m] - First \in Link
      BY <2>1 DEF Open
    <3>2. Append(backlog[port[m] - First], m) \in Seq(Masters)
      BY <3>1, AppendProperties DEF TypeOK
    <3> QED
      BY <1>0, <1>2, <2>1, <3>1, <3>2 DEF Connect, TypeOK
  <2>2. CASE ~Open(port[m])
    BY <1>2, <2>2 DEF Connect, TypeOK
  <2> QED
    BY <2>1, <2>2
<1>3. CASE ConnectionRefused(m)
  BY <1>3, PortsTried DEF ConnectionRefused, TypeOK, feVars
<1>4. CASE MasterConnectionMade(m)
  BY <1>0, <1>4 DEF MasterConnectionMade, TypeOK, feVars, masterVars
<1>5. CASE MasterSetSocket(m)
  <2>1. /\ UNCHANGED <<main, next, running, acceptor, backlog, peer, receiver, reset, search, port>>
        /\ crashed' = crashed \/ crashed' = crashed \cup {m}
        /\ count' = count \/ count' = [count EXCEPT ![m] = 1]
        /\ handler' = handler \/ handler' = [handler EXCEPT ![m] = "done"]
    BY <1>5, SocketSet DEF feVars
  <2>2. count' \in [Masters -> 0 .. 1]
    BY SMTT(30), <2>1 DEF TypeOK
  <2> QED
    BY <1>0, <2>1, <2>2 DEF TypeOK
<1>6. CASE StartReceivingAt(m)
  BY <1>0, <1>6 DEF StartReceivingAt, WaitForConnections, TypeOK, feVars, masterVars
<1>7. CASE StartReceiver(m)
  BY <1>0, <1>7 DEF StartReceiver, TypeOK, feVars, masterVars, Connected, ProcessOf
<1> QED
  BY <1>1, <1>2, <1>3, <1>4, <1>5, <1>6, <1>7 DEF MasterStep

-----------------------------------------------------------------------------
(* A step keeps what a master has counted, and the connections it has: the   *)
(* front end resets those that are held by the link it closes, or all.       *)
LEMMA MastersStep ==
  ASSUME SetupInv, [Next]_vars
  PROVE  MastersInv'
<1>i. TypeOK /\ MastersInv /\ HeldInv
  BY DEF SetupInv
<1>t. Link \cap Masters = {} /\ handler \in [Ends -> {"none", "ready", "made", "done"}]
  BY <1>i, NextLink DEF TypeOK
<1>s. ASSUME UNCHANGED <<count, search>>,
             \A m \in Masters : handler'[m] = handler[m],
             \A m \in Masters : m \in reset' => m \in reset \/ search[m] = "connected"
      PROVE  MastersInv'
  BY <1>i, <1>s DEF MastersInv
<1>1. CASE UNCHANGED vars
  BY <1>1, <1>s DEF vars, masterVars
<1>2. CASE StartFrontEnd \/ CreateFrontEndLink \/ RunFrontEnd \/ StartReceivingFrom
  <2>1. UNCHANGED <<count, search, handler, reset>>
    BY <1>2 DEF StartFrontEnd, CreateFrontEndLink, RunFrontEnd, StartReceivingFrom, masterVars
  <2> QED
    BY <2>1, <1>s
<1>3. ASSUME NEW i \in Link, Accept(i) PROVE MastersInv'
  <2>1. \A m \in Masters : handler'[m] = handler[m]
    BY <1>3, <1>t DEF Accept, Ends
  <2> QED
    BY <1>3, <2>1, <1>s DEF Accept, masterVars
<1>4. ASSUME NEW i \in Link, FrontEndConnectionMade(i) PROVE MastersInv'
  <2>1. \A m \in Masters : handler'[m] = handler[m]
    BY <1>4, <1>t DEF FrontEndConnectionMade, Ends
  <2>2. UNCHANGED <<count, search>> /\ reset' \subseteq reset \cup Connected
    BY <1>4 DEF FrontEndConnectionMade, masterVars
  <2> QED
    BY <2>1, <2>2, <1>s DEF Connected
<1>5. ASSUME NEW i \in Link, FrontEndSetSocket(i) PROVE MastersInv'
  <2>1. /\ \A m \in Masters : handler'[m] = handler[m]
        /\ UNCHANGED <<count, search>>
    BY <1>5, <1>t DEF FrontEndSetSocket, masterVars, Ends
  <2>2. \A k \in 1 .. Len(backlog[i]) : search[backlog[i][k]] = "connected"
    BY <1>5, <1>i DEF FrontEndSetSocket, HeldInv, HeldBy, OfLink, Alive, ProcessOf
  <2>3. reset' = reset \cup {backlog[i][k] : k \in 1 .. Len(backlog[i])}
    BY <1>5 DEF FrontEndSetSocket
  <2> QED
    BY <2>1, <2>2, <2>3, <1>s
<1>6. ASSUME NEW e \in Ends, StartReceiver(e) PROVE MastersInv'
  <2>1. UNCHANGED <<count, search, handler>> /\ reset' \subseteq reset \cup Connected
    BY <1>6 DEF StartReceiver, masterVars
  <2> QED
    BY <2>1, <1>s DEF Connected
<1>7. ASSUME NEW m \in Masters, StartMaster(m) \/ ConnectionRefused(m) PROVE MastersInv'
  <2>1. /\ UNCHANGED <<count, handler, reset>> /\ search[m] # "connected"
        /\ search' = [search EXCEPT ![m] = "connecting"]
    BY <1>7 DEF StartMaster, ConnectionRefused, feVars
  <2> QED
    BY <2>1, <1>i DEF MastersInv, TypeOK
<1>8. ASSUME NEW m \in Masters, Connect(m) PROVE MastersInv'
  <2>1. /\ UNCHANGED <<count, reset>> /\ search[m] = "connecting"
        /\ \/ search' = [search EXCEPT ![m] = "connected"] /\ handler' = [handler EXCEPT ![m] = "ready"]
           \/ search' = [search EXCEPT ![m] = "refused"] /\ UNCHANGED handler
    BY <1>8 DEF Connect
  <2> QED
    BY <2>1, <1>i DEF MastersInv, TypeOK, Ends
<1>9. ASSUME NEW m \in Masters, MasterConnectionMade(m) PROVE MastersInv'
  <2>1. /\ UNCHANGED <<count, search, reset>> /\ handler[m] = "ready"
        /\ handler' = [handler EXCEPT ![m] = "made"]
    BY <1>9 DEF MasterConnectionMade, masterVars
  <2> QED
    BY <2>1, <1>i DEF MastersInv, TypeOK, Ends
<1>10. ASSUME NEW m \in Masters, MasterSetSocket(m) PROVE MastersInv'
  <2>1. /\ UNCHANGED <<search, reset>> /\ handler[m] = "made"
        /\ \/ count' = [count EXCEPT ![m] = 1] /\ handler' = [handler EXCEPT ![m] = "done"]
           \/ UNCHANGED <<count, handler>>
    BY <1>10, <1>i, SocketSet
  <2> QED
    BY <2>1, <1>i DEF MastersInv, TypeOK, Ends
<1>11. ASSUME NEW m \in Masters, StartReceivingAt(m) PROVE MastersInv'
  BY <1>11, <1>s DEF StartReceivingAt, masterVars
<1> QED
  BY <1>1, <1>2, <1>3, <1>4, <1>5, <1>6, <1>7, <1>8, <1>9, <1>10, <1>11
  DEF Next, FrontEndStep, MasterStep, Ends

(* A step keeps what the links hold: a connection enters the backlog of the  *)
(* link whose port the master is at, and is reset only when it is given up.  *)
LEMMA HeldStep ==
  ASSUME SetupInv, [Next]_vars
  PROVE  HeldInv'
<1>i. TypeOK /\ MastersInv /\ HeldInv
  BY DEF SetupInv
<1>t. Link \cap Masters = {}
  BY NextLink
<1>s. ASSUME UNCHANGED <<backlog, peer, search, port, reset>>, crashed \subseteq crashed'
      PROVE  HeldInv'
  BY <1>i, <1>s DEF HeldInv, HeldBy, OfLink
<1>d. ASSUME FrontEnd \in crashed' PROVE HeldInv'
  BY <1>d DEF HeldInv
<1>m. ASSUME NEW m \in Masters, search[m] # "connected", UNCHANGED <<backlog, peer, reset, crashed>>,
             \A n \in Masters : n # m => search'[n] = search[n] /\ port'[n] = port[n]
      PROVE  HeldInv'
  <2> SUFFICES ASSUME FrontEnd \notin crashed, NEW i \in Link PROVE HeldBy(i)'
    BY <1>m DEF HeldInv
  <2>1. HeldBy(i)
    BY <1>i DEF HeldInv
  <2>2. \A n \in Masters : OfLink(n, i) => n # m /\ OfLink(n, i)'
    BY <1>m DEF OfLink
  <2>3. /\ \A k \in 1 .. Len(backlog[i]) : backlog[i][k] \in Masters
        /\ peer[i] # None => peer[i] \in Masters
    BY <1>i, ElementOfSeq DEF TypeOK
  <2> QED
    BY <1>m, <2>1, <2>2, <2>3 DEF HeldBy
<1>1. CASE UNCHANGED vars
  BY <1>1, <1>s DEF vars, feVars, masterVars
<1>2. CASE StartFrontEnd \/ CreateFrontEndLink \/ RunFrontEnd \/ StartReceivingFrom
  <2>1. UNCHANGED <<backlog, peer, search, port, reset, crashed>>
    BY <1>2 DEF StartFrontEnd, CreateFrontEndLink, RunFrontEnd, StartReceivingFrom, masterVars
  <2> QED
    BY <2>1, <1>s
<1>3. ASSUME NEW i \in Link, Accept(i) PROVE HeldInv'
  <2>1. backlog[i] \in Seq(Masters) /\ backlog[i] # <<>> /\ FrontEnd \notin crashed
    BY <1>3, <1>i, <1>t DEF Accept, TypeOK, Alive, ProcessOf
  <2>2. /\ UNCHANGED <<search, port, reset, crashed>>
        /\ peer' = [peer EXCEPT ![i] = Head(backlog[i])]
        /\ backlog' = [backlog EXCEPT ![i] = Tail(@)]
    BY <1>3 DEF Accept, masterVars
  <2>3. HeldBy(i)'
    <3>1. peer'[i] = backlog[i][1] /\ backlog'[i] = Tail(backlog[i])
      BY <1>i, <2>1, <2>2, TakeFirst DEF TypeOK
    <3>2. \A k \in 1 .. Len(Tail(backlog[i])) :
            k + 1 \in 1 .. Len(backlog[i]) /\ k + 1 # 1 /\ Tail(backlog[i])[k] = backlog[i][k + 1]
      BY <2>1, TakeFirst
    <3>3. 1 \in 1 .. Len(backlog[i])
      BY <2>1, TakeFirst
    <3>4. /\ \A k \in 1 .. Len(backlog[i]) : OfLink(backlog[i][k], i)
          /\ \A k, l \in 1 .. Len(backlog[i]) : k # l => backlog[i][k] # backlog[i][l]
      BY <1>i, <2>1 DEF HeldInv, HeldBy
    <3>5. \A n \in Masters : OfLink(n, i)' <=> OfLink(n, i)
      BY <2>2 DEF OfLink
    <3>6. \A k \in 1 .. Len(backlog[i]) : backlog[i][k] \in Masters
      BY <2>1, ElementOfSeq
    <3>7. \A k, l \in 1 .. Len(Tail(backlog[i])) : k # l => k + 1 # l + 1
      OBVIOUS
    <3>8. OfLink(peer[i], i)'
      BY <3>1, <3>3, <3>4, <3>5, <3>6, <2>2 DEF OfLink
    <3> QED
      BY <3>1, <3>2, <3>3, <3>4, <3>5, <3>6, <3>7, <3>8 DEF HeldBy
  <2>4. ASSUME NEW j \in Link, j # i PROVE HeldBy(j)'
    <3>1. HeldBy(j) /\ peer'[j] = peer[j] /\ backlog'[j] = backlog[j]
      BY <1>i, <2>1, <2>2, <2>4 DEF HeldInv, TypeOK
    <3> QED
      BY <2>2, <3>1 DEF HeldBy, OfLink
  <2> QED
    BY <2>3, <2>4 DEF HeldInv
<1>4. ASSUME NEW i \in Link, FrontEndConnectionMade(i) PROVE HeldInv'
  <2>1. CASE crashed' = crashed \cup {FrontEnd}
    BY <2>1, <1>d
  <2>2. CASE UNCHANGED <<reset, crashed>>
    BY <1>4, <2>2, <1>s DEF FrontEndConnectionMade, feVars, masterVars
  <2> QED
    BY <1>4, <2>1, <2>2 DEF FrontEndConnectionMade
<1>5. ASSUME NEW i \in Link, FrontEndSetSocket(i) PROVE HeldInv'
  <2>1. FrontEnd \notin crashed /\ UNCHANGED <<search, port, peer, crashed>>
        /\ reset' = reset \cup {backlog[i][k] : k \in 1 .. Len(backlog[i])}
        /\ backlog' = [backlog EXCEPT ![i] = <<>>]
    BY <1>5, <1>t DEF FrontEndSetSocket, Alive, ProcessOf, masterVars
  <2>2. \A j \in Link : HeldBy(j)
    BY <1>i, <2>1 DEF HeldInv
  <2>3. ASSUME NEW j \in Link PROVE HeldBy(j)'
    <3>1. peer[j] # None => OfLink(peer[j], j)'
      <4> SUFFICES ASSUME peer[j] # None PROVE OfLink(peer[j], j)'
        OBVIOUS
      <4>1. OfLink(peer[j], j)
        BY <2>2 DEF HeldBy
      <4>2. \A k \in 1 .. Len(backlog[i]) : backlog[i][k] # peer[j]
        <5>1. CASE j = i
          BY <2>2, <5>1 DEF HeldBy
        <5>2. CASE j # i
          <6>1. First + i # First + j
            BY <5>2, NextLink, LinkSetupAssumption
          <6> QED
            BY <2>2, <4>1, <6>1 DEF HeldBy, OfLink
        <5> QED
          BY <5>1, <5>2
      <4> QED
        BY <2>1, <4>1, <4>2 DEF OfLink
    <3>2. CASE j = i
      <4>1. Len(backlog'[j]) = 0
        BY <1>i, <2>1, <3>2, EmptySeq DEF TypeOK
      <4> QED
        BY <2>1, <3>1, <4>1 DEF HeldBy
    <3>3. CASE j # i
      <4>1. backlog'[j] = backlog[j] /\ First + i # First + j
        BY <1>i, <2>1, <3>3, NextLink, LinkSetupAssumption DEF TypeOK
      <4>2. \A k \in 1 .. Len(backlog[j]) : OfLink(backlog[j][k], j)'
        BY <2>1, <2>2, <4>1 DEF HeldBy, OfLink
      <4>3. HeldBy(j)
        BY <2>2
      <4> QED
        BY <2>1, <3>1, <4>1, <4>2, <4>3 DEF HeldBy, OfLink
    <3> QED
      BY <3>2, <3>3
  <2> QED
    BY <2>3 DEF HeldInv
<1>6. ASSUME NEW e \in Ends, StartReceiver(e) PROVE HeldInv'
  <2>1. UNCHANGED <<backlog, peer, search, port>> /\ crashed \subseteq crashed'
    BY <1>6 DEF StartReceiver, feVars, masterVars
  <2>2. UNCHANGED reset \/ FrontEnd \in crashed'
    BY <1>6, <1>t DEF StartReceiver, ProcessOf
  <2> QED
    BY <2>1, <2>2, <1>s, <1>d
<1>7. ASSUME NEW m \in Masters, StartMaster(m) \/ ConnectionRefused(m) PROVE HeldInv'
  <2>1. /\ search[m] # "connected" /\ UNCHANGED <<backlog, peer, reset, crashed>>
        /\ \A n \in Masters : n # m => search'[n] = search[n] /\ port'[n] = port[n]
    BY <1>7, <1>i DEF StartMaster, ConnectionRefused, feVars, TypeOK
  <2> QED
    BY <2>1, <1>m
<1>8. ASSUME NEW m \in Masters, Connect(m) PROVE HeldInv'
  <2>1. search[m] # "connected" /\ UNCHANGED <<peer, port, reset, crashed>>
        /\ \A n \in Masters : n # m => search'[n] = search[n]
    BY <1>8, <1>i DEF Connect, TypeOK
  <2>2. CASE ~Open(port[m])
    <3>1. UNCHANGED backlog
      BY <1>8, <2>2 DEF Connect
    <3> QED
      BY <2>1, <3>1, <1>m
  <2>3. CASE Open(port[m])
    <3>1. PICK i \in Link : i = port[m] - First /\ port[m] = First + i
      <4>1. port[m] \in Int /\ First \in Int
        BY <1>i, LinkSetupAssumption DEF TypeOK, MaxPort
      <4> QED
        BY <2>3, <4>1 DEF Open
    <3>2. backlog' = [backlog EXCEPT ![i] = Append(@, m)] /\ search'[m] = "connected"
      BY <1>8, <2>3, <1>i, <3>1 DEF Connect, TypeOK
    <3>3. FrontEnd \notin crashed
      BY <2>3 DEF Open, Alive, ProcessOf, LinkSetupAssumption
    <3>4. \A j \in Link : HeldBy(j)
      BY <1>i, <3>3 DEF HeldInv
    <3>5. \A n \in Masters, j \in Link : OfLink(n, j) => n # m /\ OfLink(n, j)'
      BY <2>1 DEF OfLink
    <3>6. /\ \A j \in Link : \A k \in 1 .. Len(backlog[j]) : backlog[j][k] \in Masters
          /\ \A j \in Link : peer[j] # None => peer[j] \in Masters
      BY <1>i, ElementOfSeq DEF TypeOK
    <3>7. OfLink(m, i)'
      BY <1>i, <2>1, <3>1, <3>2 DEF OfLink, MastersInv
    <3>8. m # None
      BY LinkSetupAssumption DEF None
    <3>9. ASSUME NEW j \in Link, j # i PROVE HeldBy(j)'
      <4>1. backlog'[j] = backlog[j] /\ peer'[j] = peer[j] /\ HeldBy(j)
        BY <1>i, <2>1, <3>2, <3>4, <3>9 DEF TypeOK
      <4> QED
        BY <2>1, <4>1, <3>5, <3>6 DEF HeldBy
    <3>10. HeldBy(i)'
      <4>1. PICK s \in Seq(Masters) : s = backlog[i] /\ backlog'[i] = Append(s, m)
        BY <1>i, <3>1, <3>2 DEF TypeOK
      <4>2. /\ Len(s) \in Nat /\ Len(Append(s, m)) = Len(s) + 1
            /\ \A k \in 1 .. Len(s) : Append(s, m)[k] = s[k]
            /\ Append(s, m)[Len(s) + 1] = m
        BY <4>1, AppendProperties, LenProperties
      <4>3. /\ \A k \in 1 .. Len(s) : OfLink(s[k], i)' /\ s[k] # peer[i] /\ s[k] # m
            /\ \A k, l \in 1 .. Len(s) : k # l => s[k] # s[l]
            /\ peer[i] # None => OfLink(peer[i], i)' /\ peer[i] # m
        <5>0. HeldBy(i) /\ \A k \in 1 .. Len(s) : s[k] \in Masters
          BY <3>4, <3>6, <4>1
        <5>1. /\ \A k \in 1 .. Len(s) : s[k] \in Masters /\ OfLink(s[k], i) /\ s[k] # peer[i]
              /\ \A k, l \in 1 .. Len(s) : k # l => s[k] # s[l]
              /\ peer[i] # None => OfLink(peer[i], i) /\ peer[i] \in Masters
          BY <3>6, <4>1, <5>0 DEF HeldBy
        <5>2. peer[i] # None => OfLink(peer[i], i)' /\ peer[i] # m
          BY <2>1, <3>5, <5>1 DEF OfLink
        <5> QED
          BY <3>1, <3>5, <5>1, <5>2
      <4>4. peer[i] # m /\ peer'[i] = peer[i]
        BY <2>1, <3>8, <4>3
      <4>5. \A k \in 1 .. Len(s) + 1 : k \in 1 .. Len(s) \/ k = Len(s) + 1
        BY <4>2
      <4>6. \A k \in 1 .. Len(Append(s, m)) :
              /\ OfLink(Append(s, m)[k], i)'
              /\ Append(s, m)[k] # peer[i]
              /\ \A l \in 1 .. Len(Append(s, m)) : k # l => Append(s, m)[k] # Append(s, m)[l]
        <5>1. \A k \in 1 .. Len(s) + 1 : Append(s, m)[k] = IF k \in 1 .. Len(s) THEN s[k] ELSE m
          BY <4>2, <4>5
        <5>2. \A k \in 1 .. Len(s) + 1 : Append(s, m)[k] # peer[i] /\ OfLink(Append(s, m)[k], i)'
          BY <3>7, <4>3, <4>4, <5>1
        <5>3. \A k, l \in 1 .. Len(s) + 1 : k # l => Append(s, m)[k] # Append(s, m)[l]
          BY <4>2, <4>3, <4>5, <5>1
        <5> QED
          BY <4>2, <5>2, <5>3
      <4>7. peer'[i] # None => OfLink(peer[i], i)'
        BY <4>3, <4>4
      <4>8. \A k \in 1 .. Len(backlog'[i]) : OfLink(backlog[i][k], i)'
        BY <4>1, <4>6 DEF OfLink
      <4>9. \A k \in 1 .. Len(backlog'[i]) :
              /\ backlog'[i][k] # peer'[i]
              /\ \A l \in 1 .. Len(backlog'[i]) : k # l => backlog'[i][k] # backlog'[i][l]
        BY <4>1, <4>4, <4>6
      <4> QED
        BY <4>7, <4>8, <4>9 DEF HeldBy
    <3> QED
      BY <3>9, <3>10 DEF HeldInv
  <2> QED
    BY <2>2, <2>3
<1>9. ASSUME NEW m \in Masters, MasterConnectionMade(m) \/ StartReceivingAt(m) PROVE HeldInv'
  BY <1>9, <1>s DEF MasterConnectionMade, StartReceivingAt, feVars, masterVars
<1>10. ASSUME NEW m \in Masters, MasterSetSocket(m) PROVE HeldInv'
  <2>1. UNCHANGED <<backlog, peer, search, port, reset>> /\ crashed \subseteq crashed'
    BY <1>10, <1>i, SocketSet DEF feVars
  <2> QED
    BY <2>1, <1>s
<1> QED
  BY <1>1, <1>2, <1>3, <1>4, <1>5, <1>6, <1>7, <1>8, <1>9, <1>10
  DEF Next, FrontEndStep, MasterStep, Ends

(* Every handler of the front end and of the masters keeps the invariant. *)
LEMMA NextSetup == SetupInv /\ [Next]_vars => SetupInv'
<1> SUFFICES ASSUME SetupInv, [Next]_vars PROVE SetupInv'
  OBVIOUS
<1>1. TypeOK'
  <2>1. TypeOK /\ MastersInv
    BY DEF SetupInv
  <2>2. CASE UNCHANGED vars
    BY <2>1, <2>2 DEF vars, feVars, masterVars, TypeOK
  <2>3. CASE StartFrontEnd
    BY <2>1, <2>3 DEF StartFrontEnd, masterVars, TypeOK
  <2> QED
    BY <2>1, <2>2, <2>3, FrontEndTypes, MasterTypes DEF Next
<1> QED
  BY <1>1, MastersStep, HeldStep DEF SetupInv

-----------------------------------------------------------------------------
(* The strengthened invariant of the setup (FrontEndLink.cpp:13-34, MasterLink.cpp:13-40) holds throughout. *)
THEOREM SetupInvariant == Spec => []SetupInv
BY InitSetup, NextSetup, PTL DEF Spec

(* The variables keep their types, whatever the number of masters and links: *)
(* a search stays within the ports of the links and the one behind them, and *)
(* a master never gets a second connection.                                  *)
THEOREM TypeCorrect == Spec => []TypeOK
<1>1. SetupInv => TypeOK
  BY DEF SetupInv
<1> QED
  BY <1>1, SetupInvariant, PTL

(* The two ends agree, for every number of masters and links: what a link    *)
(* has accepted is a connection its master has made to it and still has, and *)
(* no other link holds it.                                                   *)
THEOREM LinksAgreeHolds == Spec => []LinksAgree
<1>1. SetupInv => LinksAgree
  <2> SUFFICES ASSUME SetupInv, NEW i \in Link, peer[i] # None, FrontEnd \notin crashed
               PROVE  /\ OfLink(peer[i], i)
                      /\ \A j \in Link :
                           /\ j # i => peer[j] # peer[i]
                           /\ \A k \in 1 .. Len(backlog[j]) : backlog[j][k] # peer[i]
    BY DEF LinksAgree, OfLink
  <2>1. \A j \in Link : HeldBy(j)
    BY DEF SetupInv, HeldInv
  <2>2. ASSUME NEW j \in Link, j # i
        PROVE  peer[j] # peer[i] /\ \A k \in 1 .. Len(backlog[j]) : backlog[j][k] # peer[i]
    <3>1. First + i # First + j
      BY <2>2, NextLink, LinkSetupAssumption
    <3> QED
      BY <2>1, <3>1 DEF HeldBy, OfLink
  <2> QED
    BY <2>1, <2>2 DEF HeldBy
<1> QED
  BY <1>1, SetupInvariant, PTL
=============================================================================

-------------------------- MODULE AddrWatcherProofs --------------------------
(***************************************************************************)
(* Proofs about AddrWatcher: no notification is lost between the permit    *)
(* and the set, and the one-shot watch of a connection stays in place      *)
(* until the move it is for is reported, although the gateway and the      *)
(* watcher only meet through a command channel.                            *)
(***************************************************************************)
EXTENDS AddrWatcher, SequenceTheorems, TLAPS

-----------------------------------------------------------------------------
(***************************************************************************)
(* The inductive invariant                                                 *)
(***************************************************************************)

\* The place of p's commands in the channel.
IsFor(p, i) == i \in DOMAIN cnc /\ cnc[i].peer = p
IsFirst(p, i) == IsFor(p, i) /\ \A j \in DOMAIN cnc : IsFor(p, j) => i <= j
IsLast(p, i) == IsFor(p, i) /\ \A j \in DOMAIN cnc : IsFor(p, j) => j <= i
Follows(p, i, j) ==
  /\ IsFor(p, i) /\ IsFor(p, j) /\ i < j
  /\ \A k \in DOMAIN cnc : IsFor(p, k) => k <= i \/ j <= k

\* An attempt is made only for a peer without a connection, and a peer's
\* addresses never pass the highest one it has had.
AddressesKnown ==
  \A p \in Peers :
    /\ dialing[p] # Nowhere => connected[p] = Nowhere
    /\ dialing[p] <= last_addr[p]
    /\ connected[p] <= last_addr[p]
    /\ advertised[p] <= last_addr[p]

\* The commands of a peer alternate: the watcher meets no entry when it
\* registers a connection.
CommandsAlternate ==
  \A p \in Peers, i \in DOMAIN cnc :
    /\ IsFirst(p, i) /\ cnc[i].kind = "register" => peers_to_watch_map[p] = Nowhere
    /\ \A j \in DOMAIN cnc : Follows(p, i, j) /\ cnc[j].kind = "register" => cnc[i].kind = "deregister"

\* The last command of a peer tells the watcher where the peer is connected.
LastCommandIsCurrent ==
  \A p \in Peers, i \in DOMAIN cnc : IsLast(p, i) =>
    IF connected[p] = Nowhere THEN cnc[i].kind = "deregister"
    ELSE cnc[i].kind = "register" /\ cnc[i].addr = connected[p]

\* What the watcher knows of p once it has read every command.
WatchInForce(p) ==
  IF connected[p] = Nowhere THEN peers_to_watch_map[p] = Nowhere
  ELSE \/ peers_to_watch_map[p] = connected[p]
       \/ p \in canceled
       \/ p \in changes /\ connected[p] # advertised[p]

\* What is true of the watches as long as nothing disturbed them.
Undisturbed ==
  /\ AddressesKnown
  /\ CommandsAlternate
  /\ LastCommandIsCurrent
  /\ \A p \in Peers : Settled(p) => WatchInForce(p)

WatchInv ==
  /\ ChangesAnnounced
  /\ disturbed \/ Undisturbed
-----------------------------------------------------------------------------
(***************************************************************************)
(* The command channel                                                     *)
(***************************************************************************)

\* Addresses are numbers.
LEMMA AddressTypes ==
  ASSUME TypeOK, NEW p \in Peers
  PROVE  /\ last_addr[p] \in Nat \ {0} /\ dialing[p] \in Nat
         /\ connected[p] \in Nat /\ advertised[p] \in Nat
<1>1. \A n \in Addrs : n \in Nat /\ n # 0
  BY ConstantsAssumption DEF Addrs
<1>2. last_addr[p] \in Addrs
  BY DEF TypeOK
<1>3. /\ dialing[p] \in Addrs \cup {Nowhere}
      /\ connected[p] \in Addrs \cup {Nowhere}
      /\ advertised[p] \in Addrs \cup {Nowhere}
  BY DEF TypeOK
<1>4. QED BY <1>1, <1>2, <1>3 DEF Nowhere

\* A command sent goes behind the others.
LEMMA Sending ==
  ASSUME cnc \in Seq(Command), NEW command \in Command, cnc' = Append(cnc, command)
  PROVE  /\ Len(cnc) \in Nat /\ DOMAIN cnc = 1..Len(cnc) /\ DOMAIN cnc' = 1..Len(cnc) + 1
         /\ \A i \in DOMAIN cnc : cnc'[i] = cnc[i]
         /\ cnc'[Len(cnc) + 1] = command
         /\ cnc' \in Seq(Command)
BY AppendProperties, LenProperties

\* A command read was the first.
LEMMA Reading ==
  ASSUME cnc \in Seq(Command), cnc # <<>>, cnc' = Tail(cnc)
  PROVE  /\ Len(cnc) \in Nat \ {0} /\ DOMAIN cnc = 1..Len(cnc) /\ DOMAIN cnc' = 1..Len(cnc) - 1
         /\ \A i \in DOMAIN cnc' : cnc'[i] = cnc[i + 1]
         /\ Head(cnc) = cnc[1] /\ Head(cnc) \in Command
         /\ cnc' \in Seq(Command)
<1>1. Len(cnc) \in Nat /\ DOMAIN cnc = 1..Len(cnc) /\ Len(cnc) # 0
  BY EmptySeq, LenProperties
<1>2. /\ Head(cnc) = cnc[1] /\ Head(cnc) \in Command
      /\ Tail(cnc) \in Seq(Command)
      /\ Len(Tail(cnc)) = Len(cnc) - 1
      /\ \A i \in 1..Len(Tail(cnc)) : Tail(cnc)[i] = cnc[i + 1]
  BY <1>1, HeadTailProperties
<1>3. DOMAIN cnc' = 1..Len(cnc) - 1
  BY <1>2, LenProperties
<1>4. QED BY <1>1, <1>2, <1>3

-----------------------------------------------------------------------------
(***************************************************************************)
(* Types and notifications                                                 *)
(***************************************************************************)

LEMMA InitWatchInv == Init => WatchInv
<1> SUFFICES ASSUME Init PROVE WatchInv
  OBVIOUS
<1>1. TypeOK
  <2>1. 1 \in Addrs
    BY ConstantsAssumption DEF Addrs
  <2>2. \A n \in Addrs \cup {Nowhere} : [p \in Peers |-> n] \in [Peers -> Addrs \cup {Nowhere}]
    OBVIOUS
  <2>3. \A n \in Addrs : [p \in Peers |-> n] \in [Peers -> Addrs]
    OBVIOUS
  <2>4. cnc \in Seq(Command)
    BY DEF Init
  <2>5. QED BY <2>1, <2>2, <2>3, <2>4, Zenon DEF Init, TypeOK
<1>2. DOMAIN cnc = {}
  BY DEF Init
<1>3. \A p \in Peers : dialing[p] = 0 /\ connected[p] = 0 /\ advertised[p] = 1 /\ last_addr[p] = 1
                       /\ peers_to_watch_map[p] = 0
  BY DEF Init, Nowhere
<1>4. AddressesKnown
  BY <1>3 DEF AddressesKnown, Nowhere
<1>5. QED
  BY <1>1, <1>2, <1>3, <1>4 DEF Init, WatchInv, ChangesAnnounced, CommandsAlternate,
     LastCommandIsCurrent, WatchInForce, Undisturbed, Nowhere

LEMMA NextType ==
  ASSUME TypeOK, [Next]_vars
  PROVE  TypeOK'
<1> USE ConstantsAssumption DEF Addrs, Nowhere
<1>1. ASSUME NEW p \in Peers, NEW addr \in Addrs \cup {Nowhere}, Moves(p, addr) PROVE TypeOK'
  BY <1>1 DEF Moves, TypeOK, gatewayVars, watcherVars
<1>2. ASSUME NEW p \in Peers, Dial(p) \/ DialFails(p) PROVE TypeOK'
  BY <1>2 DEF Dial, DialFails, TypeOK, historyVars, watcherVars
<1>3. ASSUME NEW p \in Peers, Install(p) PROVE TypeOK'
  <2>1. RegisterWatch(p) \in Command
    BY DEF RegisterWatch, Command, TypeOK
  <2>2. cnc' \in Seq(Command)
    BY <1>3, <2>1, Sending DEF Install, TypeOK
  <2>3. QED BY <1>3, <2>2 DEF Install, TypeOK, historyVars, watcherVars
<1>4. ASSUME NEW p \in Peers, WorkerEnds(p) PROVE TypeOK'
  <2>1. DeregisterWatch(p) \in Command
    BY DEF DeregisterWatch, Command
  <2>2. cnc' \in Seq(Command)
    BY <1>4, <2>1, Sending DEF WorkerEnds, TypeOK
  <2>3. QED BY <1>4, <2>2 DEF WorkerEnds, TypeOK, historyVars, watcherVars
<1>5. ASSUME Notified \/ HandleRemotePeerAddrChange PROVE TypeOK'
  BY <1>5 DEF Notified, HandleRemotePeerAddrChange, Collected, TypeOK, historyVars
<1>6. ASSUME UpdateIdentity PROVE TypeOK'
  BY <1>6 DEF UpdateIdentity, TypeOK, watcherVars
<1>7. ASSUME HandleCnc PROVE TypeOK'
  <2>1. cnc' \in Seq(Command) /\ Head(cnc) \in Command
    BY <1>7, Reading DEF HandleCnc, TypeOK
  <2>2. Head(cnc).peer \in Peers /\ Head(cnc).addr \in Addrs \cup {Nowhere}
    BY <2>1 DEF Command
  <2>3. QED BY <1>7, <2>1, <2>2 DEF HandleCnc, Watch, TypeOK, historyVars, gatewayVars
<1>8. ASSUME UpdatePeersToWatch PROVE TypeOK'
  BY <1>8 DEF UpdatePeersToWatch, Reported, TypeOK, historyVars, gatewayVars
<1>9. ASSUME UNCHANGED vars PROVE TypeOK'
  BY <1>9 DEF vars, TypeOK
<1>10. QED BY <1>1, <1>2, <1>3, <1>4, <1>5, <1>6, <1>7, <1>8, <1>9 DEF Next

LEMMA NextChangesAnnounced ==
  ASSUME ChangesAnnounced, [Next]_vars
  PROVE  ChangesAnnounced'
<1>1. TypeOK'
  BY NextType DEF ChangesAnnounced
<1>2. (changes # {} => notify \/ collecting)'
  BY DEF ChangesAnnounced, TypeOK, Next, vars, Moves, Dial, DialFails, Install, WorkerEnds, Notified,
         HandleRemotePeerAddrChange, Collected, UpdateIdentity, HandleCnc, UpdatePeersToWatch,
         gatewayVars, watcherVars, historyVars
<1>3. QED BY <1>1, <1>2 DEF ChangesAnnounced

-----------------------------------------------------------------------------
(***************************************************************************)
(* The watch                                                               *)
(***************************************************************************)

\* A step that sends and reads no command and leaves the watcher's entries
\* alone leaves the order of the commands alone.
LEMMA SameCommands ==
  ASSUME UNCHANGED cnc
  PROVE  /\ \A p \in Peers : Settled(p)' <=> Settled(p)
         /\ \A p \in Peers, i \in DOMAIN cnc :
              /\ IsFirst(p, i)' <=> IsFirst(p, i)
              /\ IsLast(p, i)' <=> IsLast(p, i)
              /\ \A j \in DOMAIN cnc : Follows(p, i, j)' <=> Follows(p, i, j)
BY DEF Settled, IsFor, IsFirst, IsLast, Follows

\* Peers that move.  An address a peer has left is below its highest one and
\* does not come back, so a move already reported stays one.
LEMMA MovesKeepsWatch ==
  ASSUME TypeOK, Undisturbed, NEW q \in Peers, NEW addr \in Addrs \cup {Nowhere}, Moves(q, addr), ~disturbed'
  PROVE  Undisturbed'
<1>1. /\ UNCHANGED <<dialing, connected, canceled, cnc, peers_to_watch_map, changes>>
      /\ addr \notin 1..last_addr[q]
      /\ \A p \in Peers : p # q => advertised'[p] = advertised[p] /\ last_addr'[p] = last_addr[p]
      /\ advertised'[q] = addr
      /\ last_addr'[q] = IF addr > last_addr[q] THEN addr ELSE last_addr[q]
  BY DEF Moves, TypeOK, gatewayVars, watcherVars
<1>a. /\ addr \in Nat /\ addr <= last_addr'[q] /\ last_addr[q] <= last_addr'[q]
      /\ \A p \in Peers : /\ last_addr[p] \in Nat /\ last_addr'[p] \in Nat /\ dialing[p] \in Nat
                           /\ connected[p] \in Nat /\ advertised[p] \in Nat
  BY <1>1, AddressTypes, ConstantsAssumption DEF Addrs, Nowhere
<1>2. AddressesKnown'
  BY <1>1, <1>a DEF Undisturbed, AddressesKnown, Nowhere
<1>3. CommandsAlternate' /\ LastCommandIsCurrent'
  BY <1>1, SameCommands DEF Undisturbed, CommandsAlternate, LastCommandIsCurrent
<1>4. ASSUME NEW p \in Peers, Settled(p)' PROVE WatchInForce(p)'
  <2>1. Settled(p) /\ WatchInForce(p)
    BY <1>1, <1>4, SameCommands DEF Undisturbed
  <2>2. connected[p] # Nowhere => connected[p] \in 1..last_addr[p]
    BY <1>a DEF Undisturbed, AddressesKnown, Nowhere
  <2>3. connected[p] # Nowhere /\ connected[p] # advertised[p] => connected[p] # advertised'[p]
    BY <1>1, <2>2
  <2>4. QED BY <1>1, <2>1, <2>3 DEF WatchInForce
<1>5. QED BY <1>2, <1>3, <1>4 DEF Undisturbed

LEMMA DialKeepsWatch ==
  ASSUME TypeOK, Undisturbed, NEW q \in Peers, Dial(q) \/ DialFails(q)
  PROVE  Undisturbed'
<1>1. /\ UNCHANGED <<advertised, last_addr, connected, canceled, cnc, peers_to_watch_map, changes>>
      /\ \A p \in Peers : p # q => dialing'[p] = dialing[p]
      /\ dialing'[q] = Nowhere \/ (connected[q] = Nowhere /\ dialing'[q] = advertised[q])
  <2>1. CASE Dial(q)
    BY <2>1 DEF Dial, TypeOK, historyVars, watcherVars
  <2>2. CASE DialFails(q)
    <3>1. dialing' = [dialing EXCEPT ![q] = Nowhere] /\ dialing \in [Peers -> Addrs \cup {Nowhere}]
      BY <2>2 DEF DialFails, TypeOK
    <3>2. dialing'[q] = Nowhere /\ \A p \in Peers : p # q => dialing'[p] = dialing[p]
      BY <3>1
    <3>3. UNCHANGED <<advertised, last_addr, connected, canceled, cnc, peers_to_watch_map, changes>>
      BY <2>2 DEF DialFails, historyVars, watcherVars
    <3>4. QED BY <3>2, <3>3
  <2>3. QED BY <2>1, <2>2
<1>2. AddressesKnown'
  BY <1>1, AddressTypes DEF Undisturbed, AddressesKnown, Nowhere
<1>3. CommandsAlternate' /\ LastCommandIsCurrent'
  BY <1>1, SameCommands DEF Undisturbed, CommandsAlternate, LastCommandIsCurrent
<1>4. \A p \in Peers : Settled(p)' => WatchInForce(p)'
  BY <1>1, SameCommands DEF Undisturbed, WatchInForce
<1>5. QED BY <1>2, <1>3, <1>4 DEF Undisturbed

LEMMA CollectKeepsWatch ==
  ASSUME TypeOK, Undisturbed, Notified \/ HandleRemotePeerAddrChange
  PROVE  Undisturbed'
<1>1. /\ UNCHANGED <<advertised, last_addr, dialing, connected, cnc, peers_to_watch_map>>
      /\ canceled \subseteq canceled'
      /\ \A p \in Peers : p \in changes /\ connected[p] # Nowhere /\ connected[p] # advertised[p] =>
           p \in changes' \/ p \in canceled'
  BY DEF Notified, HandleRemotePeerAddrChange, Collected, Moved, historyVars, TypeOK
<1>2. AddressesKnown'
  BY <1>1 DEF Undisturbed, AddressesKnown
<1>3. CommandsAlternate' /\ LastCommandIsCurrent'
  BY <1>1, SameCommands DEF Undisturbed, CommandsAlternate, LastCommandIsCurrent
<1>4. \A p \in Peers : Settled(p)' => WatchInForce(p)'
  BY <1>1, SameCommands DEF Undisturbed, WatchInForce
<1>5. QED BY <1>2, <1>3, <1>4 DEF Undisturbed

LEMMA ReportKeepsWatch ==
  ASSUME TypeOK, Undisturbed, UpdatePeersToWatch
  PROVE  Undisturbed'
<1>1. /\ UNCHANGED <<advertised, last_addr, dialing, connected, canceled, cnc>>
      /\ changes \subseteq changes'
      /\ \A p \in Peers :
           \/ peers_to_watch_map'[p] = peers_to_watch_map[p]
           \/ /\ peers_to_watch_map'[p] = Nowhere /\ p \in changes'
              /\ peers_to_watch_map[p] # advertised[p]
  BY DEF UpdatePeersToWatch, Reported, historyVars, gatewayVars, TypeOK
<1>2. AddressesKnown'
  BY <1>1 DEF Undisturbed, AddressesKnown
<1>3. CommandsAlternate' /\ LastCommandIsCurrent'
  BY <1>1, SameCommands DEF Undisturbed, CommandsAlternate, LastCommandIsCurrent
<1>4. \A p \in Peers : Settled(p)' => WatchInForce(p)'
  BY <1>1, SameCommands DEF Undisturbed, WatchInForce
<1>5. QED BY <1>2, <1>3, <1>4 DEF Undisturbed

\* A connection is installed, or its worker ends: a command is sent that says
\* so, and the commands of the peer alternate.
LEMMA SendKeepsWatch ==
  ASSUME TypeOK, Undisturbed, NEW q \in Peers, Install(q) \/ WorkerEnds(q)
  PROVE  Undisturbed'
<1>0. PICK n : n = Len(cnc) + 1
  OBVIOUS
<1>1. PICK command \in Command :
        /\ UNCHANGED <<advertised, last_addr, peers_to_watch_map, changes>>
        /\ \A p \in Peers : p # q => dialing'[p] = dialing[p] /\ connected'[p] = connected[p]
        /\ \A p \in Peers : p # q /\ p \in canceled => p \in canceled'
        /\ cnc' = Append(cnc, command)
        /\ command.peer = q
        /\ \/ /\ command.kind = "register" /\ command.addr = dialing[q]
              /\ connected'[q] = dialing[q] /\ dialing[q] # Nowhere /\ dialing'[q] = Nowhere
           \/ /\ command.kind = "deregister" /\ connected[q] # Nowhere
              /\ connected'[q] = Nowhere /\ dialing'[q] = dialing[q]
  <2>1. CASE Install(q)
    <3>1. RegisterWatch(q) \in Command
      BY DEF RegisterWatch, Command, TypeOK
    <3>2. QED BY <2>1, <3>1 DEF Install, RegisterWatch, TypeOK, historyVars, watcherVars
  <2>2. CASE WorkerEnds(q)
    <3>1. DeregisterWatch(q) \in Command
      BY DEF DeregisterWatch, Command
    <3>2. QED BY <2>2, <3>1 DEF WorkerEnds, DeregisterWatch, TypeOK, historyVars, watcherVars
  <2>3. QED BY <2>1, <2>2
<1>3. /\ n \in Nat \ {0} /\ DOMAIN cnc = 1..n - 1 /\ DOMAIN cnc' = 1..n
      /\ \A i \in DOMAIN cnc : cnc'[i] = cnc[i]
      /\ cnc'[n] = command
  BY <1>0, <1>1, Sending DEF TypeOK
<1>4. AddressesKnown'
  <2>1. ASSUME NEW p \in Peers
        PROVE  /\ dialing'[p] # Nowhere => connected'[p] = Nowhere
               /\ dialing'[p] <= last_addr'[p]
               /\ connected'[p] <= last_addr'[p]
               /\ advertised'[p] <= last_addr'[p]
    BY <1>1, AddressTypes DEF Undisturbed, AddressesKnown, Nowhere
  <2>2. QED BY <2>1 DEF AddressesKnown
<1>5. ASSUME NEW p \in Peers, NEW i \in DOMAIN cnc
      PROVE  IsFor(p, i)' <=> IsFor(p, i)
  BY <1>3 DEF IsFor
<1>a. ASSUME NEW p \in Peers PROVE IsFor(p, n)' <=> p = q
  BY <1>1, <1>3 DEF IsFor
<1>6. ASSUME NEW p \in Peers, NEW i \in DOMAIN cnc', IsFirst(p, i)', cnc'[i].kind = "register"
      PROVE  peers_to_watch_map'[p] = Nowhere
  <2>1. CASE i \in DOMAIN cnc
    <3>1. IsFirst(p, i)
      BY <1>3, <1>5, <1>6, <2>1 DEF IsFirst
    <3>2. QED BY <1>1, <1>3, <1>6, <2>1, <3>1 DEF Undisturbed, CommandsAlternate
  <2>2. CASE i = n
    <3>1. p = q
      BY <1>6, <1>a, <2>2 DEF IsFirst
    <3>2. ASSUME NEW j \in DOMAIN cnc PROVE ~IsFor(p, j)
      BY <1>3, <1>5, <1>6, <2>2, <3>2 DEF IsFirst
    <3>3. Settled(p)
      BY <3>2 DEF Settled, IsFor
    <3>4. connected[p] = Nowhere
      BY <1>1, <1>3, <1>6, <2>2, <3>1 DEF Undisturbed, AddressesKnown
    <3>5. QED BY <1>1, <3>3, <3>4 DEF Undisturbed, WatchInForce
  <2>3. QED BY <1>3, <2>1, <2>2
<1>7. ASSUME NEW p \in Peers, NEW i \in DOMAIN cnc', NEW j \in DOMAIN cnc',
             Follows(p, i, j)', cnc'[j].kind = "register"
      PROVE  cnc'[i].kind = "deregister"
  <2>1. i < j /\ i \in DOMAIN cnc
    BY <1>3, <1>7 DEF Follows
  <2>2. CASE j \in DOMAIN cnc
    <3>1. Follows(p, i, j)
      BY <1>3, <1>5, <1>7, <2>1, <2>2 DEF Follows
    <3>2. QED BY <1>3, <1>7, <2>1, <2>2, <3>1 DEF Undisturbed, CommandsAlternate
  <2>3. CASE j = n
    <3>1. p = q
      BY <1>7, <1>a, <2>3 DEF Follows
    <3>2. IsLast(p, i)
      BY <1>3, <1>5, <1>7, <2>1, <2>3 DEF Follows, IsLast
    <3>3. connected[p] = Nowhere
      BY <1>1, <1>3, <1>7, <2>3, <3>1 DEF Undisturbed, AddressesKnown
    <3>4. QED BY <1>3, <2>1, <3>2, <3>3 DEF Undisturbed, LastCommandIsCurrent
  <2>4. QED BY <1>3, <2>2, <2>3
<1>8. ASSUME NEW p \in Peers, NEW i \in DOMAIN cnc', IsLast(p, i)'
      PROVE  IF connected'[p] = Nowhere THEN cnc'[i].kind = "deregister"
             ELSE cnc'[i].kind = "register" /\ cnc'[i].addr = connected'[p]
  <2>1. CASE p = q
    <3>1. i = n
      BY <1>3, <1>8, <1>a, <2>1 DEF IsLast
    <3>2. QED BY <1>1, <1>3, <2>1, <3>1
  <2>2. CASE p # q
    <3>1. i \in DOMAIN cnc
      BY <1>3, <1>8, <1>a, <2>2 DEF IsLast
    <3>2. IsLast(p, i)
      BY <1>3, <1>5, <1>8, <2>2, <3>1 DEF IsLast
    <3>3. QED BY <1>1, <1>3, <2>2, <3>1, <3>2 DEF Undisturbed, LastCommandIsCurrent
  <2>3. QED BY <2>1, <2>2
<1>9. ASSUME NEW p \in Peers, Settled(p)' PROVE WatchInForce(p)'
  <2>1. p # q
    BY <1>1, <1>3, <1>9 DEF Settled
  <2>2. Settled(p)
    BY <1>3, <1>9 DEF Settled
  <2>3. QED BY <1>1, <2>1, <2>2 DEF Undisturbed, WatchInForce
<1>10. QED BY <1>4, <1>6, <1>7, <1>8, <1>9 DEF Undisturbed, CommandsAlternate, LastCommandIsCurrent

\* The watcher reads a command: the first one of its peer.
LEMMA ReadKeepsWatch ==
  ASSUME TypeOK, Undisturbed, HandleCnc
  PROVE  Undisturbed'
<1>0. PICK q : q = cnc[1].peer
  OBVIOUS
<1>1. /\ Len(cnc) \in Nat \ {0} /\ DOMAIN cnc = 1..Len(cnc) /\ DOMAIN cnc' = 1..Len(cnc) - 1
      /\ \A i \in DOMAIN cnc' : cnc'[i] = cnc[i + 1]
      /\ Head(cnc) = cnc[1] /\ Head(cnc) \in Command
  BY Reading DEF HandleCnc, TypeOK
<1>2. q \in Peers /\ cnc[1].kind \in {"register", "deregister"}
  BY <1>0, <1>1 DEF Command
<1>3. /\ UNCHANGED <<advertised, last_addr, dialing, connected, canceled, changes>>
      /\ \A p \in Peers : p # q => peers_to_watch_map'[p] = peers_to_watch_map[p]
      /\ cnc[1].kind = "register" /\ peers_to_watch_map[q] = Nowhere =>
           peers_to_watch_map'[q] = cnc[1].addr
      /\ cnc[1].kind = "deregister" => peers_to_watch_map'[q] = Nowhere
  BY <1>0, <1>1, <1>2 DEF HandleCnc, Watch, TypeOK, historyVars, gatewayVars
<1>4. IsFirst(q, 1)
  BY <1>0, <1>1 DEF IsFirst, IsFor
<1>5. cnc[1].kind = "register" => peers_to_watch_map'[q] = cnc[1].addr
  BY <1>1, <1>2, <1>3, <1>4 DEF Undisturbed, CommandsAlternate
<1>6. \A p \in Peers, i \in DOMAIN cnc' : i + 1 \in DOMAIN cnc /\ (IsFor(p, i)' <=> IsFor(p, i + 1))
  BY <1>1 DEF IsFor
<1>7. \A p \in Peers, i \in DOMAIN cnc : IsFor(p, i) => (i = 1 /\ p = q) \/ (i - 1 \in DOMAIN cnc' /\ IsFor(p, i - 1)')
  <2> SUFFICES ASSUME NEW p \in Peers, NEW i \in DOMAIN cnc, IsFor(p, i)
               PROVE  (i = 1 /\ p = q) \/ (i - 1 \in DOMAIN cnc' /\ IsFor(p, i - 1)')
    OBVIOUS
  <2>0. i = 1 => p = q
    BY <1>0 DEF IsFor
  <2> SUFFICES ASSUME i # 1 PROVE i - 1 \in DOMAIN cnc' /\ IsFor(p, i - 1)'
    BY <2>0
  <2>1. i - 1 \in DOMAIN cnc' /\ (i - 1) + 1 = i
    BY <1>1
  <2>2. cnc'[i - 1] = cnc[i]
    BY <1>1, <2>1
  <2>3. QED BY <2>1, <2>2 DEF IsFor
<1>8. AddressesKnown'
  BY <1>3 DEF Undisturbed, AddressesKnown
<1>9. ASSUME NEW p \in Peers, NEW i \in DOMAIN cnc', IsFirst(p, i)', cnc'[i].kind = "register"
      PROVE  peers_to_watch_map'[p] = Nowhere
  <2>1. cnc[i + 1].kind = "register" /\ IsFor(p, i + 1)
    BY <1>1, <1>6, <1>9 DEF IsFirst
  <2>2. CASE p = q
    <3>1. Follows(p, 1, i + 1)
      BY <1>1, <1>4, <1>6, <1>7, <1>9, <2>1, <2>2 DEF Follows, IsFirst
    <3>2. cnc[1].kind = "deregister"
      BY <1>1, <1>6, <2>1, <3>1 DEF Undisturbed, CommandsAlternate
    <3>3. QED BY <1>3, <2>2, <3>2
  <2>3. CASE p # q
    <3>1. IsFirst(p, i + 1)
      BY <1>1, <1>6, <1>7, <1>9, <2>1, <2>3 DEF IsFirst
    <3>2. QED BY <1>3, <1>6, <2>1, <2>3, <3>1 DEF Undisturbed, CommandsAlternate
  <2>4. QED BY <2>2, <2>3
<1>10. ASSUME NEW p \in Peers, NEW i \in DOMAIN cnc', NEW j \in DOMAIN cnc',
              Follows(p, i, j)', cnc'[j].kind = "register"
       PROVE  cnc'[i].kind = "deregister"
  <2>1. Follows(p, i + 1, j + 1)
    BY <1>1, <1>6, <1>7, <1>10 DEF Follows
  <2>2. QED BY <1>1, <1>6, <1>10, <2>1 DEF Undisturbed, CommandsAlternate
<1>11. ASSUME NEW p \in Peers, NEW i \in DOMAIN cnc', IsLast(p, i)'
       PROVE  IF connected'[p] = Nowhere THEN cnc'[i].kind = "deregister"
              ELSE cnc'[i].kind = "register" /\ cnc'[i].addr = connected'[p]
  <2>1. IsLast(p, i + 1)
    BY <1>1, <1>6, <1>7, <1>11 DEF IsLast
  <2>2. QED BY <1>1, <1>3, <1>6, <2>1 DEF Undisturbed, LastCommandIsCurrent
<1>12. ASSUME NEW p \in Peers, Settled(p)' PROVE WatchInForce(p)'
  <2>1. \A i \in DOMAIN cnc' : ~IsFor(p, i)'
    BY <1>12 DEF Settled, IsFor
  <2>2. CASE p = q
    <3>1. IsLast(p, 1)
      BY <1>1, <1>4, <1>7, <2>1, <2>2 DEF IsLast, IsFirst
    <3>2. IF connected[p] = Nowhere THEN cnc[1].kind = "deregister"
          ELSE cnc[1].kind = "register" /\ cnc[1].addr = connected[p]
      BY <1>1, <3>1 DEF Undisturbed, LastCommandIsCurrent
    <3>3. QED BY <1>3, <1>5, <2>2, <3>2 DEF WatchInForce
  <2>3. CASE p # q
    <3>1. Settled(p)
      BY <1>7, <2>1, <2>3 DEF Settled, IsFor
    <3>2. QED BY <1>3, <2>3, <3>1 DEF Undisturbed, WatchInForce
  <2>4. QED BY <2>2, <2>3
<1>13. QED BY <1>8, <1>9, <1>10, <1>11, <1>12 DEF Undisturbed, CommandsAlternate, LastCommandIsCurrent

-----------------------------------------------------------------------------
LEMMA NextWatchInv ==
  ASSUME WatchInv, [Next]_vars
  PROVE  WatchInv'
<1>1. ChangesAnnounced'
  BY NextChangesAnnounced DEF WatchInv
<1>2. TypeOK
  BY DEF WatchInv, ChangesAnnounced
<1>3. CASE disturbed'
  BY <1>1, <1>3 DEF WatchInv
<1>4. CASE ~disturbed'
  <2>1. ~disturbed /\ ~UpdateIdentity
    BY <1>2, <1>4 DEF TypeOK, Next, vars, Moves, Dial, DialFails, Install, WorkerEnds, Notified,
       HandleRemotePeerAddrChange, UpdateIdentity, HandleCnc, UpdatePeersToWatch, historyVars
  <2>2. Undisturbed
    BY <2>1 DEF WatchInv
  <2>3. CASE UNCHANGED vars
    <3>1. UNCHANGED <<cnc, dialing, connected, advertised, last_addr, canceled, changes, peers_to_watch_map>>
      BY <2>3 DEF vars
    <3>2. AddressesKnown'
      BY <2>2, <3>1 DEF Undisturbed, AddressesKnown
    <3>3. CommandsAlternate' /\ LastCommandIsCurrent'
      BY <2>2, <3>1, SameCommands DEF Undisturbed, CommandsAlternate, LastCommandIsCurrent
    <3>4. \A p \in Peers : Settled(p)' => WatchInForce(p)'
      BY <2>2, <3>1, SameCommands DEF Undisturbed, WatchInForce
    <3>5. Undisturbed'
      BY <3>2, <3>3, <3>4 DEF Undisturbed
    <3>6. QED BY <1>1, <3>5 DEF WatchInv
  <2>4. CASE Next
    <3>1. Undisturbed'
      BY <1>2, <1>4, <2>1, <2>2, <2>4, MovesKeepsWatch, DialKeepsWatch, CollectKeepsWatch,
         ReportKeepsWatch, SendKeepsWatch, ReadKeepsWatch DEF Next
    <3>2. QED BY <1>1, <3>1 DEF WatchInv
  <2>5. QED BY <2>3, <2>4
<1>5. QED BY <1>3, <1>4

\* The invariant of the watcher, the gateway and the channel between them
\* holds for any peers and addresses.
THEOREM WatcherInvariant == Spec => []WatchInv
BY InitWatchInv, NextWatchInv, PTL DEF Spec

\* notified() loses no notification although it takes the permit and the set
\* one after the other.
THEOREM NoNotificationLost == Spec => []ChangesAnnounced
<1>1. WatchInv => ChangesAnnounced
  BY DEF WatchInv
<1>2. QED BY <1>1, WatcherInvariant, PTL

\* The one-shot watch of a connection is in place until the move it is for is
\* reported, whatever commands, reports and lookups cross.
THEOREM NoMoveMissed == Spec => []WatchedOrReported
<1>1. WatchInv => WatchedOrReported
  BY DEF WatchInv, Undisturbed, WatchInForce, WatchedOrReported
<1>2. QED BY <1>1, WatcherInvariant, PTL

=============================================================================

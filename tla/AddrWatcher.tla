---------------------------- MODULE AddrWatcher ----------------------------
(***************************************************************************)
(* RemotePeerAddrWatcher of the QUIC gateway                               *)
(* (apps/jet/src/quic_client/core.rs) and the two sides it sits between:   *)
(* the gateway loop, which registers the address of each connection it     *)
(* installs and cancels the worker of a peer that moved, and the service   *)
(* that says where a peer is advertised.                                   *)
(*                                                                         *)
(* The watcher's event loop is a task of its own: commands reach it        *)
(* through an unbounded channel, its findings are left in a shared set     *)
(* with a Notify permit.  An address is a number; 0 means that the peer is *)
(* advertised nowhere.                                                     *)
(***************************************************************************)
EXTENDS Naturals, Sequences, FiniteSets

CONSTANTS
  Peers,
  MaxAddr,            \* bound: addresses are 1..MaxAddr
  MaxCommands         \* bound: commands in the channel when one is registered

ASSUME ConstantsAssumption ==
  /\ MaxAddr \in Nat \ {0}
  /\ MaxCommands \in Nat

Addrs == 1..MaxAddr
Nowhere == 0

VARIABLES
  advertised,          \* get_quic_dest_addr, per peer
  last_addr,           \* the highest address each peer has had
  dialing,             \* address a connecting task dials, per peer
  connected,           \* handle.remote_peer_addr, per peer (Nowhere: no worker)
  canceled,            \* peers whose worker has a cancel permit
  cnc,                 \* command channel of the watcher
  peers_to_watch_map,  \* address watched per peer (Nowhere: no entry)
  changes,             \* the shared set of changed peers
  notify,              \* the permit of the shared Notify
  collecting,          \* notified() has the permit and not yet the changes
  disturbed            \* history: a peer was back at a former address, or the
                       \* identity was updated

vars == <<advertised, last_addr, dialing, connected, canceled, cnc,
          peers_to_watch_map, changes, notify, collecting, disturbed>>

gatewayVars == <<dialing, connected, canceled, collecting>>
historyVars == <<last_addr, disturbed>>
watcherVars == <<peers_to_watch_map, changes, notify>>

Command == [kind : {"register", "deregister"}, peer : Peers, addr : Addrs \cup {Nowhere}]

TypeOK ==
  /\ advertised \in [Peers -> Addrs \cup {Nowhere}]
  /\ last_addr \in [Peers -> Addrs]
  /\ dialing \in [Peers -> Addrs \cup {Nowhere}]
  /\ connected \in [Peers -> Addrs \cup {Nowhere}]
  /\ canceled \in SUBSET Peers
  /\ cnc \in Seq(Command)
  /\ peers_to_watch_map \in [Peers -> Addrs \cup {Nowhere}]
  /\ changes \in SUBSET Peers
  /\ notify \in BOOLEAN
  /\ collecting \in BOOLEAN
  /\ disturbed \in BOOLEAN

Init ==
  /\ advertised = [p \in Peers |-> 1]
  /\ last_addr = [p \in Peers |-> 1]
  /\ dialing = [p \in Peers |-> Nowhere]
  /\ connected = [p \in Peers |-> Nowhere]
  /\ canceled = {}
  /\ cnc = <<>>
  /\ peers_to_watch_map = [p \in Peers |-> Nowhere]
  /\ changes = {}
  /\ notify = FALSE
  /\ collecting = FALSE
  /\ disturbed = FALSE

-----------------------------------------------------------------------------
\* The advertised address of p changes, or p leaves the cluster's contact info.
Moves(p, addr) ==
  /\ addr # advertised[p]
  /\ disturbed' = (disturbed \/ addr \in 1..last_addr[p])
  /\ advertised' = [advertised EXCEPT ![p] = addr]
  /\ last_addr' = [last_addr EXCEPT ![p] = IF addr > @ THEN addr ELSE @]
  /\ UNCHANGED <<gatewayVars, cnc, watcherVars>>

(***************************************************************************)
(* The gateway.                                                            *)
(***************************************************************************)

\* ConnectingTask::run looks the address up; without one it fails at once.
Dial(p) ==
  /\ connected[p] = Nowhere
  /\ dialing[p] = Nowhere
  /\ advertised[p] # Nowhere
  /\ dialing' = [dialing EXCEPT ![p] = advertised[p]]
  /\ UNCHANGED <<advertised, historyVars, connected, canceled, cnc, watcherVars, collecting>>

DialFails(p) ==
  /\ dialing[p] # Nowhere
  /\ dialing' = [dialing EXCEPT ![p] = Nowhere]
  /\ UNCHANGED <<advertised, historyVars, connected, canceled, cnc, watcherVars, collecting>>

\* Mutant: the watch is registered with the address advertised by now.
RegisterAdvertised(p) == [kind |-> "register", peer |-> p, addr |-> advertised[p]]

\* register_watch(p, conn.remote_address()).
RegisterWatch(p) == [kind |-> "register", peer |-> p, addr |-> dialing[p]]

\* handle_connecting_result, Ok(conn).
Install(p) ==
  /\ ~collecting
  /\ Len(cnc) < MaxCommands
  /\ dialing[p] # Nowhere
  /\ cnc' = Append(cnc, RegisterWatch(p))
  /\ connected' = [connected EXCEPT ![p] = dialing[p]]
  /\ dialing' = [dialing EXCEPT ![p] = Nowhere]
  /\ canceled' = canceled \ {p}
  /\ UNCHANGED <<advertised, historyVars, watcherVars, collecting>>

\* forget(p).
DeregisterWatch(p) == [kind |-> "deregister", peer |-> p, addr |-> Nowhere]

\* handle_worker_result: the worker was cancelled or lost its connection.
WorkerEnds(p) ==
  /\ ~collecting
  /\ connected[p] # Nowhere
  /\ cnc' = Append(cnc, DeregisterWatch(p))
  /\ connected' = [connected EXCEPT ![p] = Nowhere]
  /\ canceled' = canceled \ {p}
  /\ UNCHANGED <<advertised, historyVars, dialing, watcherVars, collecting>>

\* handle_remote_peer_addr_change: the peer is elsewhere, or nowhere.
Moved(p) == connected[p] # advertised[p]

\* Mutant: try_lock, and the permit is gone when the set is locked.
NotifiedTrying ==
  /\ notify
  /\ ~collecting
  /\ notify' = FALSE
  /\ collecting' \in BOOLEAN
  /\ UNCHANGED <<advertised, historyVars, dialing, connected, canceled, cnc,
                 peers_to_watch_map, changes>>

\* notified() gets the permit; the watcher may report more before it locks the
\* set.  Nothing between the two awaits, so the loop does nothing else.
Notified ==
  /\ notify
  /\ ~collecting
  /\ notify' = FALSE
  /\ collecting' = TRUE
  /\ UNCHANGED <<advertised, historyVars, dialing, connected, canceled, cnc,
                 peers_to_watch_map, changes>>

\* Mutant: changes of peers without a worker are left for a later call.
CollectedConnected == {p \in changes : connected[p] # Nowhere}

\* mem::take of the whole set.
Collected == changes

\* The rest of notified(), and handle_remote_peer_addr_change.
HandleRemotePeerAddrChange ==
  /\ collecting
  /\ collecting' = FALSE
  /\ changes' = changes \ Collected
  /\ canceled' = canceled \cup {p \in Collected : connected[p] # Nowhere /\ Moved(p)}
  /\ UNCHANGED <<advertised, historyVars, dialing, connected, cnc,
                 peers_to_watch_map, notify>>

\* update_identity: attempts are aborted, handles dropped, watches kept.
UpdateIdentity ==
  /\ ~collecting
  /\ disturbed' = TRUE
  /\ dialing' = [p \in Peers |-> Nowhere]
  /\ connected' = [p \in Peers |-> Nowhere]
  /\ canceled' = {}
  /\ UNCHANGED <<advertised, last_addr, cnc, watcherVars, collecting>>

(***************************************************************************)
(* The watcher's event loop.                                               *)
(***************************************************************************)

\* entry(p).or_insert(addr): a watch that is there keeps its address.
Watch(p, addr) ==
  [peers_to_watch_map EXCEPT ![p] = IF @ = Nowhere THEN addr ELSE @]

\* handle_cnc.
HandleCnc ==
  /\ cnc # <<>>
  /\ LET command == Head(cnc)
     IN peers_to_watch_map' =
          IF command.kind = "register" THEN Watch(command.peer, command.addr)
          ELSE [peers_to_watch_map EXCEPT ![command.peer] = Nowhere]
  /\ cnc' = Tail(cnc)
  /\ UNCHANGED <<advertised, historyVars, gatewayVars, changes, notify>>

\* guard.insert for every changed peer.
Reported(diff) == changes \cup diff

\* update_peers_to_watch: report every watched peer that moved, and stop
\* watching it.
UpdatePeersToWatch ==
  LET diff == {p \in Peers : /\ peers_to_watch_map[p] # Nowhere
                             /\ peers_to_watch_map[p] # advertised[p]}
  IN /\ diff # {}
     /\ changes' = Reported(diff)
     /\ peers_to_watch_map' = [p \in Peers |-> IF p \in diff THEN Nowhere
                                               ELSE peers_to_watch_map[p]]
     /\ notify' = TRUE
     /\ UNCHANGED <<advertised, historyVars, gatewayVars, cnc>>

-----------------------------------------------------------------------------
Next ==
  \/ \E p \in Peers, addr \in Addrs \cup {Nowhere} : Moves(p, addr)
  \/ \E p \in Peers : Dial(p) \/ DialFails(p) \/ Install(p) \/ WorkerEnds(p)
  \/ Notified
  \/ HandleRemotePeerAddrChange
  \/ UpdateIdentity
  \/ HandleCnc
  \/ UpdatePeersToWatch

Spec == Init /\ [][Next]_vars

\* The watcher task runs (its interval ticks for ever), the gateway loop takes
\* notifications, and a worker with a cancel permit stops.
Fairness ==
  /\ WF_vars(HandleCnc)
  /\ WF_vars(UpdatePeersToWatch)
  /\ WF_vars(Notified)
  /\ WF_vars(HandleRemotePeerAddrChange)
  /\ \A p \in Peers : WF_vars(p \in canceled /\ WorkerEnds(p))

FairSpec == Spec /\ Fairness

-----------------------------------------------------------------------------
\* No command for p is under way to the watcher.
Settled(p) == \A i \in DOMAIN cnc : cnc[i].peer # p

\* One-shot watches do not lose a move: once the watcher has seen the commands
\* of a connection, the connection's own address is watched, or a change is
\* reported and not collected yet, or the worker is cancelled.  (Not so after
\* an identity update, or when a peer is back at a former address: the watch of
\* the former connection then stands in for the new one.)
WatchedOrReported ==
  \A p \in Peers : connected[p] # Nowhere /\ Settled(p) =>
    \/ disturbed
    \/ peers_to_watch_map[p] = connected[p]
    \/ p \in changes
    \/ p \in canceled

\* notified() loses no notification although the permit and the set are read
\* one after the other: a reported change is always still to be collected
\* (and the state is well-typed).
ChangesAnnounced == TypeOK /\ (changes # {} => notify \/ collecting)

\* A connection to an address the peer has left does not stay: the worker is
\* ended, or the peer is back at that address (or the watch was disturbed).
StaleConnectionEnds ==
  \A p \in Peers :
    connected[p] \notin {Nowhere, advertised[p]}
      ~> connected[p] \in {Nowhere, advertised[p]} \/ disturbed

=============================================================================

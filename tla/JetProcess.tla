----------------------------- MODULE JetProcess -----------------------------
(***************************************************************************)
(* The jet process around the QUIC gateway: the group that changes the     *)
(* identity of its members at a barrier (identity.rs, rpc.rs), the         *)
(* jet-gateway listener with its authenticated session and its handler     *)
(* tasks (jet_gateway.rs, grpc_jet.rs, pubkey_challenger.rs), the Lewis    *)
(* client (grpc_lewis.rs), and run_jet, which stops everything when the    *)
(* first task ends.                                                        *)
(*                                                                         *)
(* Transactions and events are numbers.  The gateway is modelled by what   *)
(* it does with the identity (QuicGateway has the rest), the jet-gateway   *)
(* service by its store of one-time tokens.  Time is nondeterminism.       *)
(***************************************************************************)
EXTENDS Naturals, Sequences, FiniteSets, SequencesExt

CONSTANTS
  Callers,               \* admin RPC calls
  Identities,            \* keypairs
  Initial,               \* config.identity.keypair
  Expected,              \* config.identity.expected: a set, empty for None
  MaxSubscribeAttempts,  \* config.maximum_subscribe_attempts
  MaxSendTransactions,   \* MAX_SEND_TRANSACTIONS
  MaxQuickDisconnects,   \* MAX_QUICK_DISCONNECTS
  BatchSize,             \* config.batch_size_threshold
  BufferSize,            \* config.event_buffer_size
  MaxReconnectAttempts,  \* config.max_reconnect_attempts
  MaxConnects,           \* bound: one-time tokens asked for
  MaxTxs,                \* bound: transactions received from the jet-gateway
  MaxEvents,             \* bound: events reported
  MaxFaults              \* bound: panics and signals

ASSUME ProcessAssumption ==
  /\ IsFiniteSet(Callers) /\ Initial \in Identities
  /\ Expected \subseteq Identities /\ Cardinality(Expected) <= 1
  /\ {MaxSubscribeAttempts, MaxSendTransactions, MaxQuickDisconnects, BatchSize, BufferSize,
      MaxReconnectAttempts} \subseteq Nat \ {0}
  /\ {MaxConnects, MaxTxs, MaxEvents, MaxFaults} \subseteq Nat

VARIABLES
  group,     \* JetIdentitySyncGroup, and who holds the mutex around it
  call,      \* the admin calls
  barrier,   \* of each call: how many wait there, and its size
  gateway,   \* the QUIC gateway: identity, state, commands
  listener,  \* the jet-gateway listener: identity, state, commands
  session,   \* grpc_subscribe
  store,     \* InMemoryTokenStore of the jet-gateway service
  tx,        \* transactions received
  lewis,     \* LewisEventHandler and run_lewis_client
  process,   \* run_jet
  faults

vars == <<group, call, barrier, gateway, listener, session, store, tx, lewis, process, faults>>

identityState == <<group, call, barrier, gateway>>
sessionState == <<session, store, tx>>

Members == {"quic gateway", "jet-gateway listener"}

\* A call, or none.
Holder == {{}} \cup {{c} : c \in Callers}

Command == [identity : Identities, at : Callers]

Member == [identity : Identities, pc : {"run", "barrier", "ended"}, at : Holder,
           queue : Seq(Command)]

Token == [pubkey : Identities, n : 1..MaxConnects]

Session == [pc : {"idle", "auth", "open", "cooling"},
            token : {{}} \cup {{t} : t \in Token},
            failed : 0..(MaxSubscribeAttempts - 1),       \* consecutive_failed_connects
            quick : 0..(MaxQuickDisconnects - 1),         \* quick_disconnects
            n : 0..MaxConnects]

NoSession(n) == [pc |-> "idle", token |-> {}, failed |-> 0, quick |-> 0, n |-> n]

\* A call that is not under way has no locals.
Frame(pc) == [pc |-> pc, identity |-> Initial, taken |-> {}, todo |-> {}]

TypeOK ==
  /\ group \in [identity : Identities, watcher : Identities, members : {{}, Members},
                lock : Holder]
  /\ call \in [Callers -> [pc : {"idle", "lock", "pausing", "waiting", "done", "lost"},
                           identity : Identities, taken : {{}, Members}, todo : SUBSET Members]]
  /\ barrier \in [Callers -> [size : Nat, arrived : Nat]]
  /\ gateway \in Member /\ listener \in Member
  /\ session \in Session
  /\ store \in [tokens : SUBSET Token, claimed : SUBSET Token]
  /\ tx \in [1..MaxTxs -> {"none", "running", "finished", "panicked", "over"}]
  /\ lewis \in [pc : {"connecting", "stream", "draining", "ended"}, attempt : 0..MaxReconnectAttempts,
                n : 0..MaxEvents, queue : Seq(1..MaxEvents), batch : Seq(1..MaxEvents),
                sent : Seq(1..MaxEvents)]
  /\ Len(lewis.queue) <= BufferSize /\ Len(lewis.batch) < BatchSize
  /\ process \in {"running", "stopping", "exited"}
  /\ faults \in 0..MaxFaults

Init ==
  /\ group = [identity |-> Initial, watcher |-> Initial, members |-> Members, lock |-> {}]
  /\ call = [c \in Callers |-> Frame("idle")]
  /\ barrier = [c \in Callers |-> [size |-> 0, arrived |-> 0]]
  /\ gateway = [identity |-> Initial, pc |-> "run", at |-> {}, queue |-> <<>>]
  /\ listener = gateway
  /\ session = NoSession(0)
  /\ store = [tokens |-> {}, claimed |-> {}]
  /\ tx = [t \in 1..MaxTxs |-> "none"]
  /\ lewis = [pc |-> "connecting", attempt |-> 0, n |-> 0, queue |-> <<>>, batch |-> <<>>,
              sent |-> <<>>]
  /\ process = "running"
  /\ faults = 0

FaultHappens == faults < MaxFaults /\ faults' = faults + 1

-----------------------------------------------------------------------------
(***************************************************************************)
(* Identity                                                                *)
(***************************************************************************)

callFrame == <<gateway, listener, sessionState, lewis, process, faults>>

\* setIdentity and setIdentityFromBytes (set_keypair), and resetIdentity, which
\* takes a new keypair and is not restricted to the allowed one.
Call(c, id, reset) ==
  /\ process = "running" /\ call[c].pc = "idle"
  /\ LET allowed == reset \/ Expected \subseteq {id}
     IN call' = [call EXCEPT ![c] = IF allowed THEN [@ EXCEPT !.pc = "lock", !.identity = id]
                                              ELSE Frame("done")]
  /\ UNCHANGED <<group, barrier, callFrame>>

\* Mutant: the caller is not counted.
BarrierSizeMembers(members) == Cardinality(members)

\* Mutant: the group waits for one more.
BarrierSizeExtra(members) == Cardinality(members) + 2

\* Barrier::new(member_cnt + 1).
BarrierSize(members) == Cardinality(members) + 1

\* The mutex is locked; sync_identity takes the members.
Acquire(c) ==
  /\ call[c].pc = "lock" /\ group.lock = {}
  /\ group' = [group EXCEPT !.lock = {c}, !.members = {}]
  /\ barrier' = [barrier EXCEPT ![c].size = BarrierSize(group.members)]
  /\ call' = [call EXCEPT ![c].pc = "pausing", ![c].taken = group.members,
                           ![c].todo = group.members]
  /\ UNCHANGED callFrame

Received(member, c) == [member EXCEPT !.queue = Append(@, [identity |-> call[c].identity, at |-> c])]

\* The future of the call ends early: the mutex is free again, the members it
\* took are lost, and who waits at its barrier waits on.
CallLost(c) ==
  /\ call' = [call EXCEPT ![c] = Frame("lost")]
  /\ group' = [group EXCEPT !.lock = @ \ {c}]

\* The RPC server drops the future of a call whose client went away.
CallDropped(c) ==
  /\ call[c].pc \in {"lock", "pausing", "waiting"} /\ FaultHappens
  /\ CallLost(c)
  /\ UNCHANGED <<barrier, gateway, listener, sessionState, lewis, process>>

\* pause_for_identity_update of the next member, which panics when its task is
\* gone.
PauseMember(c, m) ==
  /\ call[c].pc = "pausing" /\ m \in call[c].todo
  /\ m = "jet-gateway listener" => "quic gateway" \notin call[c].todo
  /\ LET target == IF m = "quic gateway" THEN gateway ELSE listener
     IN IF target.pc = "ended"
          THEN CallLost(c) /\ UNCHANGED <<gateway, listener>>
          ELSE /\ call' = [call EXCEPT ![c].todo = @ \ {m}]
               /\ gateway' = IF m = "quic gateway" THEN Received(gateway, c) ELSE gateway
               /\ listener' = IF m = "quic gateway" THEN listener ELSE Received(listener, c)
               /\ UNCHANGED group
  /\ UNCHANGED <<barrier, sessionState, lewis, process, faults>>

Arrives(c) == barrier' = [barrier EXCEPT ![c].arrived = @ + 1]

Released(c) == barrier[c].arrived >= barrier[c].size

\* Mutant: a member does not wait for the others.
LeavesAtOnce(member) == TRUE

\* A member leaves the barrier when everyone is there.
Leaves(member) == \A c \in member.at : Released(c)

Resumed(member) == [member EXCEPT !.pc = "run", !.at = {}]

\* Every member has its command: the caller waits at the barrier.
CallerWaits(c) ==
  /\ call[c].pc = "pausing" /\ call[c].todo = {}
  /\ call' = [call EXCEPT ![c].pc = "waiting"]
  /\ Arrives(c)
  /\ UNCHANGED <<group, callFrame>>

\* The identity is set, observers are told and the members put back.
CallReturns(c) ==
  /\ call[c].pc = "waiting" /\ Released(c)
  /\ call' = [call EXCEPT ![c] = Frame("done")]
  /\ group' = [identity |-> call[c].identity, watcher |-> call[c].identity, lock |-> {},
               members |-> call[c].taken]
  /\ UNCHANGED <<barrier, callFrame>>

\* update_identity_sync of the gateway: it lets go of its workers and waits.  New
\* connections are made under the new identity; the workers it has let go of
\* drain what they hold under the old one, also past the barrier, which is
\* QuicGateway's matter: `identity` is the one it connects with.
GatewayTakes ==
  /\ gateway.pc = "run" /\ gateway.queue # <<>>
  /\ LET command == Head(gateway.queue)
     IN /\ gateway' = [identity |-> command.identity, pc |-> "barrier", at |-> {command.at},
                       queue |-> Tail(gateway.queue)]
        /\ Arrives(command.at)
  /\ UNCHANGED <<group, call, listener, sessionState, lewis, process, faults>>

GatewayResumes ==
  /\ gateway.pc = "barrier" /\ Leaves(gateway)
  /\ gateway' = Resumed(gateway)
  /\ UNCHANGED <<group, call, barrier, listener, sessionState, lewis, process, faults>>

\* The gateway's sources of transactions are gone (the RPC server and the
\* listener), or it panics.
GatewayEnds ==
  /\ \/ gateway.pc = "run" /\ process = "stopping" /\ listener.pc = "ended" /\ UNCHANGED faults
     \/ gateway.pc # "ended" /\ FaultHappens
  /\ gateway' = [gateway EXCEPT !.pc = "ended", !.queue = <<>>]
  /\ UNCHANGED <<group, call, barrier, listener, sessionState, lewis, process>>

-----------------------------------------------------------------------------
(***************************************************************************)
(* Jet-gateway listener                                                    *)
(***************************************************************************)

\* Mutant: the session goes on under the old identity.
SessionKept == /\ UNCHANGED <<session, tx>>

\* The future of grpc_subscribe is dropped with its JoinSet.
SessionDropped ==
  /\ session' = NoSession(session.n)
  /\ tx' = [t \in 1..MaxTxs |-> IF tx[t] = "none" THEN "none" ELSE "over"]

ListenerTakes ==
  /\ listener.pc = "run" /\ listener.queue # <<>>
  /\ LET command == Head(listener.queue)
     IN /\ listener' = [identity |-> command.identity, pc |-> "barrier", at |-> {command.at},
                        queue |-> Tail(listener.queue)]
        /\ Arrives(command.at)
  /\ SessionDropped
  /\ UNCHANGED <<group, call, gateway, store, lewis, process, faults>>

ListenerResumes ==
  /\ listener.pc = "barrier" /\ Leaves(listener)
  /\ listener' = Resumed(listener)
  /\ UNCHANGED <<identityState, sessionState, lewis, process, faults>>

ListenerEnds == listener' = [listener EXCEPT !.pc = "ended", !.queue = <<>>]

\* The cancellation token is only looked at in the select!, not at the barrier.
ListenerCancelled ==
  /\ listener.pc = "run" /\ process = "stopping"
  /\ ListenerEnds /\ SessionDropped
  /\ UNCHANGED <<identityState, store, lewis, process, faults>>

\* grpc_subscribe runs under the expected identity only.
Subscribes == listener.pc = "run" /\ Expected \subseteq {listener.identity}

sessionFrame == <<identityState, lewis, process>>

\* The start of the loop: five seconds after the last connection its quick
\* disconnections are forgotten.
StillQuick == {0, session.quick}

\* create_challenge: what the service signed, with the key that is to answer.
CreateChallenge(pubkey) == [pubkey_to_verify |-> pubkey]

\* verify_answer, for a challenge that is the service's own and not too old: an
\* answer signed by the key that was challenged gets a token.  The token is for
\* the key that the request names, which is not compared with the challenged one.
VerifyAnswer(pubkey_to_verify, challenge, signer) ==
  IF signer = challenge.pubkey_to_verify
    THEN {[pubkey |-> pubkey_to_verify, n |-> session.n + 1]}
    ELSE {}

\* generate_new: the store forgets the tokens that expired.
GenerateNew(token) ==
  \E valid \in SUBSET store.tokens : store' = [store EXCEPT !.tokens = valid \cup {token}]

\* get_jet_gw_subscribe_auth_token: the listener asks for a challenge, signs it
\* and sends the answer, all with its own key.
Authenticated ==
  /\ Subscribes /\ session.pc = "idle" /\ session.n < MaxConnects
  /\ LET key == listener.identity
     IN \E token \in VerifyAnswer(key, CreateChallenge(key), key), quick \in StillQuick :
          /\ GenerateNew(token)
          /\ session' = [session EXCEPT !.pc = "auth", !.token = {token}, !.n = @ + 1, !.quick = quick]
  /\ UNCHANGED <<sessionFrame, listener, tx, faults>>

\* Mutant: the token stays valid.
ClaimKeepingToken(t) == [store EXCEPT !.claimed = @ \cup {t}]

\* claim: a token is used up.
Claim(t) == [tokens |-> store.tokens \ {t}, claimed |-> store.claimed \cup {t}]

\* subscribe with the token succeeds: the service has claimed it.
GrpcSubscribeJetGw(t) == t \in store.tokens /\ store' = Claim(t)

\* grpc_connect returns the first endpoint that could be connected to; the
\* others are given up.
Connected ==
  /\ Subscribes /\ session.pc = "auth"
  /\ \E t \in session.token : GrpcSubscribeJetGw(t)
  /\ session' = [session EXCEPT !.pc = "open", !.failed = 0]
  /\ UNCHANGED <<sessionFrame, listener, tx, faults>>

\* Mutant: one attempt too many.
TooManyFailuresLate(n) == n > MaxSubscribeAttempts

\* consecutive_failed_connects >= max_resubscribe_attempts.
TooManyFailures(n) == n >= MaxSubscribeAttempts

\* What a failure leaves of the token: it was not used; it was claimed and what
\* follows in grpc_subscribe_jet_gw failed; or it had expired, and claim threw it
\* away.
TokenOfFailure ==
  \/ UNCHANGED store
  \/ \E t \in session.token : \/ GrpcSubscribeJetGw(t)
                              \/ store' = [store EXCEPT !.tokens = @ \ {t}]

\* No endpoint could be connected to: the next attempt, or the panic that ends
\* the listener.  An answer that verify_answer refuses, a token that expired, or
\* an error about features, which panics at once, come here too.
ConnectFails ==
  /\ Subscribes /\ session.pc \in {"idle", "auth"} /\ session.n < MaxConnects
  /\ \/ /\ ~TooManyFailures(session.failed + 1)
        /\ \E quick \in StillQuick :
             session' = [session EXCEPT !.pc = "idle", !.token = {}, !.failed = @ + 1, !.n = @ + 1,
                                        !.quick = quick]
        /\ UNCHANGED <<listener, tx, faults>>
     \/ /\ TooManyFailures(session.failed + 1)
        /\ ListenerEnds /\ SessionDropped /\ UNCHANGED faults
     \/ FaultHappens /\ ListenerEnds /\ SessionDropped
  /\ TokenOfFailure
  /\ UNCHANGED sessionFrame

InTasks == {t \in 1..MaxTxs : tx[t] \in {"running", "finished", "panicked"}}

\* Mutant: tasks that have finished are not counted although not joined.
HasRoomIfFinished == Cardinality({t \in InTasks : tx[t] = "running"}) < MaxSendTransactions

\* tasks.len() < MAX_SEND_TRANSACTIONS.
HasRoom == Cardinality(InTasks) < MaxSendTransactions

\* A transaction arrives on the stream and a task is spawned for it.
Receive(t) ==
  /\ Subscribes /\ session.pc = "open" /\ HasRoom
  /\ tx[t] = "none" /\ \A u \in 1..(t - 1) : tx[u] # "none"
  /\ tx' = [tx EXCEPT ![t] = "running"]
  /\ UNCHANGED <<sessionFrame, listener, session, store, faults>>

\* handle_versioned_transaction refuses the transaction or puts it on the
\* scheduler's channel; it panics when that is closed.
HandleVersionedTransaction(t) ==
  \/ tx' = [tx EXCEPT ![t] = "finished"] /\ UNCHANGED faults
  \/ tx' = [tx EXCEPT ![t] = "panicked"] /\ FaultHappens

\* The task runs, without an await, also while the listener reconnects: a
\* payload that cannot be decoded is reported, others are handed on.
Handle(t) ==
  /\ tx[t] = "running"
  /\ HandleVersionedTransaction(t)
  /\ UNCHANGED <<sessionFrame, listener, session, store>>

\* join_next in the loop of an open session; a panic is passed on.
JoinTask(t) ==
  /\ Subscribes /\ session.pc = "open" /\ tx[t] \in {"finished", "panicked"}
  /\ IF tx[t] = "panicked"
       THEN ListenerEnds /\ SessionDropped
       ELSE tx' = [tx EXCEPT ![t] = "over"] /\ UNCHANGED <<listener, session>>
  /\ UNCHANGED <<sessionFrame, store, faults>>

\* The stream ends or fails, within two seconds or later; after the third time
\* that it was quick the loop waits.
StreamEnds(quickly) ==
  /\ Subscribes /\ session.pc = "open"
  /\ LET quick == IF quickly THEN session.quick + 1 ELSE session.quick
     IN session' = [session EXCEPT
          !.pc = IF quick >= MaxQuickDisconnects THEN "cooling" ELSE "idle",
          !.token = {}, !.quick = IF quick >= MaxQuickDisconnects THEN 0 ELSE quick]
  /\ UNCHANGED <<sessionFrame, listener, store, tx, faults>>

CooledDown ==
  /\ Subscribes /\ session.pc = "cooling"
  /\ session' = [session EXCEPT !.pc = "idle"]
  /\ UNCHANGED <<sessionFrame, listener, store, tx, faults>>

-----------------------------------------------------------------------------
(***************************************************************************)
(* Lewis                                                                   *)
(***************************************************************************)

lewisFrame == <<identityState, listener, sessionState, process, faults>>

\* emit: dropped when the buffer is full or the client gone.
Emit ==
  /\ process = "running" /\ lewis.n < MaxEvents
  /\ lewis' = [lewis EXCEPT !.n = @ + 1,
       !.queue = IF Len(@) < BufferSize /\ lewis.pc # "ended" THEN Append(@, lewis.n + 1) ELSE @]
  /\ UNCHANGED lewisFrame

\* connect_and_stream returned an error: the batch is gone with it.
StreamFailed(l) ==
  [l EXCEPT !.attempt = @ + 1, !.batch = <<>>,
            !.pc = IF lewis.attempt + 1 >= MaxReconnectAttempts THEN "draining" ELSE "connecting"]

Ended(l) == [l EXCEPT !.pc = "ended", !.batch = <<>>, !.queue = <<>>]

\* run_lewis_client connects, gives up, or finds itself cancelled.
LewisConnects ==
  /\ lewis.pc = "connecting"
  /\ \/ lewis' = [lewis EXCEPT !.pc = "stream"]
     \/ lewis' = StreamFailed(lewis)
     \/ process = "stopping" /\ lewis' = Ended(lewis)
  /\ UNCHANGED lewisFrame

\* Mutant: the batch is not drained.
BatchSentKept(l) == [l EXCEPT !.sent = @ \o l.batch]

\* send_batch drains the batch into the stream.
BatchSent(l) == [l EXCEPT !.sent = @ \o l.batch, !.batch = <<>>]

\* send_batch, with what follows its success, or a failure after some of the
\* batch.
SendBatch(l, after) ==
  \/ lewis' = after
  \/ \E k \in 0..(Len(l.batch) - 1) :
       lewis' = StreamFailed([l EXCEPT !.sent = @ \o SubSeq(l.batch, 1, k)])

LewisRecv ==
  /\ lewis.pc = "stream" /\ lewis.queue # <<>>
  /\ LET l == [lewis EXCEPT !.queue = Tail(@), !.batch = Append(@, Head(lewis.queue))]
     IN IF Len(l.batch) >= BatchSize THEN SendBatch(l, BatchSent(l)) ELSE lewis' = l
  /\ UNCHANGED lewisFrame

LewisFlush ==
  /\ lewis.pc = "stream" /\ lewis.batch # <<>>
  /\ SendBatch(lewis, BatchSent(lewis))
  /\ UNCHANGED lewisFrame

\* The stream is over: the server has answered, the stream's time is up or the
\* client was cancelled.  What is batched is sent; unless an error comes back,
\* run_lewis_client returns Ok.
LewisCompletes ==
  /\ lewis.pc = "stream"
  /\ \E after \in {Ended(BatchSent(lewis)), StreamFailed(BatchSent(lewis))} :
       SendBatch(lewis, after)
  /\ UNCHANGED lewisFrame

\* The stream fails.
LewisFails ==
  /\ lewis.pc = "stream"
  /\ lewis' = StreamFailed(lewis)
  /\ UNCHANGED lewisFrame

\* After too many attempts events are dropped until their senders are gone.
LewisDrains ==
  /\ lewis.pc = "draining"
  /\ \/ lewis.queue # <<>> /\ lewis' = [lewis EXCEPT !.queue = Tail(@)]
     \/ lewis.queue = <<>> /\ process = "stopping" /\ listener.pc = "ended" /\ lewis' = Ended(lewis)
  /\ UNCHANGED lewisFrame

-----------------------------------------------------------------------------
(***************************************************************************)
(* run_jet                                                                 *)
(***************************************************************************)

SomeTaskEnded == "ended" \in {gateway.pc, listener.pc, lewis.pc}

\* The first task of the group ends, or a signal comes: all are cancelled and
\* the RPC servers shut down.
StopsProcess ==
  /\ process = "running"
  /\ \/ SomeTaskEnded /\ UNCHANGED faults
     \/ FaultHappens
  /\ process' = "stopping"
  /\ UNCHANGED <<identityState, listener, sessionState, lewis>>

\* Every task has ended, or the ten seconds are over and the rest is aborted.
Exits ==
  /\ process = "stopping"
  /\ process' = "exited"
  /\ gateway' = [gateway EXCEPT !.pc = "ended", !.queue = <<>>]
  /\ ListenerEnds /\ SessionDropped
  /\ lewis' = Ended(lewis)
  /\ UNCHANGED <<group, call, barrier, store, faults>>

-----------------------------------------------------------------------------
Steps ==
  \/ \E c \in Callers : \/ \E id \in Identities, reset \in BOOLEAN : Call(c, id, reset)
                        \/ Acquire(c) \/ CallerWaits(c) \/ CallReturns(c) \/ CallDropped(c)
                        \/ \E m \in Members : PauseMember(c, m)
  \/ GatewayTakes \/ GatewayResumes \/ GatewayEnds
  \/ ListenerTakes \/ ListenerResumes \/ ListenerCancelled
  \/ Authenticated \/ Connected \/ ConnectFails \/ CooledDown
  \/ \E t \in 1..MaxTxs : Receive(t) \/ Handle(t) \/ JoinTask(t)
  \/ \E quickly \in BOOLEAN : StreamEnds(quickly)
  \/ Emit \/ LewisConnects \/ LewisRecv \/ LewisFlush \/ LewisCompletes \/ LewisFails \/ LewisDrains
  \/ StopsProcess \/ Exits

Next == process # "exited" /\ Steps

\* Tokio polls ready tasks; a select! takes a branch that stays ready in the
\* end; the deadline of the shutdown passes.
Fairness ==
  /\ \A c \in Callers : WF_vars(Next /\ (Acquire(c) \/ CallerWaits(c) \/ CallReturns(c)
                                           \/ \E m \in Members : PauseMember(c, m)))
  /\ WF_vars(Next /\ (GatewayTakes \/ GatewayResumes))
  /\ WF_vars(Next /\ (ListenerTakes \/ ListenerResumes))
  /\ WF_vars(Next /\ SomeTaskEnded /\ StopsProcess) /\ WF_vars(Next /\ Exits)

Spec == Init /\ [][Next]_vars /\ Fairness
-----------------------------------------------------------------------------
(***************************************************************************)
(* Properties                                                              *)
(***************************************************************************)

\* The gateway and the jet-gateway listener never run under different
\* identities at the same time, whatever happens to the call that changes it
\* (the barrier of sync_identity).
OneIdentity ==
  {gateway.pc, listener.pc} = {"run"} => gateway.identity = listener.identity

\* Between calls, the identity that getIdentity and the watcher report is the
\* one the gateway and the listener work under, unless a call was cut short or
\* a task has ended (sync_identity sets it behind the barrier).
IdentityAgrees ==
  /\ group.lock = {} /\ "ended" \notin {gateway.pc, listener.pc}
  /\ \A c \in Callers : call[c].pc # "lost"
  => /\ {gateway.identity, listener.identity, group.watcher} = {group.identity}
     /\ group.members = Members

\* Calls that change the identity, one after the other or cut short, leave no
\* two parts of the process working under different ones (sync_identity).
IdentityConsistent == OneIdentity /\ IdentityAgrees

\* A subscription to the jet-gateway is that of the listener's present identity,
\* and of the expected one when the configuration names one: none survives a
\* change of identity (the select! of spawn_jet_gw_listener).
SessionIdentity ==
  session.pc \in {"auth", "open"} =>
    \A t \in session.token : t.pubkey = listener.identity /\ Expected \subseteq {t.pubkey}

\* A one-time token that was used is not valid again, however often the client
\* reconnects (claim).
TokenSingleUse == store.claimed \cap store.tokens = {}

\* The transactions handed to tasks and not yet joined never exceed the limit,
\* also when tasks are left over from an earlier connection.
WithinLimit == Cardinality(InTasks) <= MaxSendTransactions

\* Reconnections, changes of identity and tasks left over from earlier
\* connections break neither the authentication of the jet-gateway subscription
\* nor the limit on its tasks (grpc_subscribe, claim).
SessionSound == TypeOK /\ SessionIdentity /\ TokenSingleUse /\ WithinLimit

\* Events reach Lewis in the order they were emitted and none of them twice,
\* whatever batches and connections are lost (send_batch, run_lewis_client).
EventsInOrder ==
  LET all == lewis.sent \o lewis.batch \o lewis.queue
  IN \A i, j \in 1..Len(all) : i < j => all[i] < all[j]

\* A gateway paused for a change of identity resumes, unless the process ends or
\* the call that paused it is cut short.
PausedResumes ==
  gateway.pc = "barrier" ~>
    gateway.pc # "barrier" \/ process = "exited" \/ \E c \in gateway.at : call[c].pc = "lost"
=============================================================================

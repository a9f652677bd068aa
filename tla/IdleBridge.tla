------------------------------ MODULE IdleBridge ------------------------------
(***************************************************************************)
(* The idle bridge: idlebridge/bridge.py serves the D-Bus inhibition API,  *)
(* and IdleBridgeReceiver.qml, in the shell, owns the one Wayland          *)
(* inhibitor, kept while the count it was last told is not zero.  The      *)
(* bridge tells the shell, over a Unix socket, how many requests there     *)
(* are; a call is answered when the shell has acknowledged the snapshot    *)
(* that contains its effect.                                               *)
(*                                                                         *)
(* Abstractions.  Every handler of the bridge runs alone in its main loop, *)
(* so that each is one action, the calls of advance() included.  At most   *)
(* one snapshot is in flight on a connection.  The generation of a frame   *)
(* is that of its connection.  "cancelled" is has_owner being false: a     *)
(* unique name never comes back.  The labels of a request change nothing.  *)
(* The calls are numbered as they come, and the queue, first come, first   *)
(* served, is the set of those that wait.                                  *)
(***************************************************************************)
EXTENDS Integers, FiniteSets

CONSTANTS
    Clients,        \* callers, by their unique D-Bus name
    NoClient,       \* the owner of a cookie that is not in use
    MaxRequests,    \* MAX_REQUESTS, also the largest count the shell accepts
    MaxQueue,       \* MAX_QUEUE
    MaxCookie,      \* the largest cookie (2^32 - 1 in the code)
    MaxCalls,       \* bound on D-Bus calls
    MaxConns,       \* bound on connections to the shell
    MaxFaults       \* bound on failed writes, bridge crashes and shell reloads

ASSUME IdleAssumption ==
    /\ NoClient \notin Clients
    /\ {MaxRequests, MaxQueue, MaxCookie, MaxCalls, MaxConns} \subseteq Nat
    /\ MaxFaults \in Nat

VARIABLES
    client,     \* each caller: "alive", "dying" (NameOwnerChanged due), "gone"
    held,       \* cookies each living caller was given and has not released
    known,      \* history: every cookie each caller was given
    stale,      \* history: cookies given by a bridge that has died since
    calls,      \* calls made
    answered,   \* calls that have had their answer
    bridge,     \* the bridge's memory
    counter,    \* durable: the last cookie number
    links,      \* the connections between bridge and shell
    conns,      \* connections made
    shell,      \* the receiver: its socket, last sequence and displayed count
    faults      \* what is left of MaxFaults

callerVars == <<client, held, known, stale, calls>>
ivars == <<callerVars, answered, bridge, counter, links, conns, shell,
           faults>>

Cookies == 1..MaxCookie
NoOp == [kind |-> "none", sender |-> NoClient, cookie |-> 0, call |-> 0]
Operations == [kind : {"add", "remove"}, sender : Clients,
               cookie : 0..MaxCookie, call : 1..MaxCalls]
NoFrame == [sequence |-> 0, count |-> 0]

\* Mistake: the counter is read as the next cookie, not as the last one.
NextCookieIsLast == IF counter = 0 THEN 1 ELSE counter

NextCookie == counter + 1

\* A bridge that has just started, or one that is not running.
Blank(running) ==
    [running |-> running, requests |-> [k \in Cookies |-> NoClient],
     queue |-> {}, current |-> NoOp, dirty |-> FALSE, conn |-> 0,
     ready |-> FALSE, awaiting |-> 0, sequence |-> 0, next |-> NextCookie]


Live(requests) == {k \in Cookies : requests[k] # NoClient}
Count(requests) == Cardinality(Live(requests))
Pending == (1..calls) \ answered

IdleTypeOK ==
    /\ client \in [Clients -> {"alive", "dying", "gone"}]
    /\ held \in [Clients -> SUBSET Cookies]
    /\ known \in [Clients -> SUBSET Cookies]
    /\ stale \subseteq Cookies
    /\ calls \in 0..MaxCalls /\ answered \subseteq 1..calls
    /\ bridge \in [running : BOOLEAN, requests : [Cookies -> Clients \cup {NoClient}],
                   queue : SUBSET Operations,
                   current : Operations \cup {NoOp}, dirty : BOOLEAN,
                   conn : 0..MaxConns, ready : BOOLEAN, awaiting : Nat,
                   sequence : Nat, next : Nat]
    /\ Cardinality(bridge.queue) <= MaxQueue
    /\ counter \in 0..MaxCookie
    /\ conns \in 0..MaxConns
    /\ links \in [1..MaxConns -> [state : {"unused", "waiting", "open", "cut"},
                                  frame : [sequence : Nat, count : Nat],
                                  ack : Nat]]
    /\ shell \in [up : BOOLEAN, socket : 0..MaxConns, sequence : Nat, count : Nat]
    /\ faults \in 0..MaxFaults

Init ==
    /\ client = [c \in Clients |-> "alive"]
    /\ held = [c \in Clients |-> {}] /\ known = [c \in Clients |-> {}]
    /\ stale = {}
    /\ calls = 0 /\ answered = {}
    /\ counter = 0
    /\ bridge = Blank(TRUE)
    /\ links = [e \in 1..MaxConns |->
                  [state |-> "unused", frame |-> NoFrame, ack |-> 0]]
    /\ conns = 0
    /\ shell = [up |-> TRUE, socket |-> 0, sequence |-> 0, count |-> 0]
    /\ faults = MaxFaults

Fault == faults > 0 /\ faults' = faults - 1
HasOwner(c) == client[c] = "alive"

-----------------------------------------------------------------------------
\* advance: what every handler of the bridge ends with.  Its operand b is the
\* memory the handler has prepared, done the calls it has answered.

\* Mistake: the snapshot is counted before the operation it announces.
SnapshotBefore(b, e) ==
    /\ bridge' = [b EXCEPT !.conn = e, !.sequence = @ + 1,
                           !.awaiting = b.sequence + 1]
    /\ links' = [links EXCEPT ![e] =
                   [state |-> IF @.state = "unused" THEN "waiting" ELSE @.state,
                    frame |-> [sequence |-> b.sequence + 1,
                               count |-> Count(bridge.requests)],
                    ack |-> 0]]

Snapshot(b, e) ==
    /\ bridge' = [b EXCEPT !.conn = e, !.sequence = @ + 1,
                           !.awaiting = b.sequence + 1]
    /\ links' = [links EXCEPT ![e] =
                   [state |-> IF @.state = "unused" THEN "waiting" ELSE @.state,
                    frame |-> [sequence |-> b.sequence + 1,
                               count |-> Count(b.requests)],
                    ack |-> 0]]

\* Mistake: the capacity is left to the check made when the call came.
RefusedUncounted(b, op, next) ==
    \/ ~HasOwner(op.sender)
    \/ op.kind = "add" /\ next > MaxCookie
    \/ op.kind = "remove" /\ b.requests[op.cookie] # op.sender

\* Mistake: the cookies are believed not to run out.
RefusedForever(b, op, next) ==
    \/ ~HasOwner(op.sender)
    \/ op.kind = "add" /\ Count(b.requests) >= MaxRequests
    \/ op.kind = "remove" /\ b.requests[op.cookie] # op.sender

Refused(b, op, next) ==
    \/ ~HasOwner(op.sender)
    \/ op.kind = "add" /\ (Count(b.requests) >= MaxRequests \/ next > MaxCookie)
    \/ op.kind = "remove" /\ b.requests[op.cookie] # op.sender

\* The queue is popped up to op, the first operation that takes effect, if any
\* does; the ones before are answered at once.  The cookie of the one that is
\* unsaved, when one is, could not be persisted, or its directory not synced.
Before(b, op) == {o \in b.queue : op = NoOp \/ o.call < op.call}

Pop(b, op, unsaved) ==
    LET NextAt(o) == IF unsaved # NoOp /\ unsaved.call < o.call THEN b.next + 1 ELSE b.next
        next == IF unsaved # NoOp THEN b.next + 1 ELSE b.next
        cookie == IF op.kind = "add" THEN next ELSE op.cookie
        rest == [b EXCEPT !.queue = @ \ (Before(b, op) \cup {op}),
                          !.next = IF op.kind = "add" THEN next + 1 ELSE next]
    IN /\ \A o \in Before(b, op) : o = unsaved \/ Refused(b, o, NextAt(o))
       /\ IF unsaved = NoOp THEN UNCHANGED faults
          ELSE unsaved.kind = "add" /\ ~Refused(b, unsaved, b.next) /\ Fault
       /\ counter' \in IF op.kind = "add" THEN {cookie}
                       ELSE IF unsaved = NoOp THEN {counter} ELSE {counter, b.next}
       /\ IF op = NoOp
          THEN bridge' = rest /\ links' = [links EXCEPT ![b.conn].ack = 0]
          ELSE /\ ~Refused(b, op, next)
               /\ Snapshot([rest EXCEPT
                     !.current = [op EXCEPT !.cookie = cookie],
                     !.requests[cookie] = IF op.kind = "add" THEN op.sender
                                          ELSE NoClient], b.conn)

Advance(b, done) ==
    IF b.current # NoOp \/ b.awaiting # 0 \/ ~b.ready
    THEN /\ bridge' = b /\ answered' = answered \cup done
         /\ UNCHANGED <<links, counter, faults>>
    ELSE IF b.dirty
    THEN /\ Snapshot([b EXCEPT !.dirty = FALSE], b.conn)
         /\ answered' = answered \cup done
         /\ UNCHANGED <<counter, faults>>
    ELSE \E op \in b.queue \cup {NoOp} : \E unsaved \in Before(b, op) \cup {NoOp} :
            /\ Pop(b, op, unsaved)
            /\ answered' = answered \cup done \cup {o.call : o \in Before(b, op)}

-----------------------------------------------------------------------------
\* D-Bus: the calls, and the callers that disconnect.

\* A call, from a caller that may have disconnected since it made it.
Called(c) ==
    /\ bridge.running /\ client[c] # "gone"
    /\ calls < MaxCalls /\ calls' = calls + 1

Answer == /\ answered' = answered \cup {calls + 1}
          /\ UNCHANGED <<links, counter, faults>>

Enqueue(op) ==
    Advance([bridge EXCEPT !.queue = @ \cup {op}], {})

Inhibit(c) ==
    /\ Called(c)
    /\ IF \/ ~bridge.ready
          \/ Cardinality(bridge.queue) >= MaxQueue
          \/ Count(bridge.requests) >= MaxRequests
       THEN Answer /\ UNCHANGED bridge
       ELSE Enqueue([kind |-> "add", sender |-> c, cookie |-> 0,
                     call |-> calls + 1])
    /\ UNCHANGED <<client, held, known, stale, conns, shell>>

\* A caller releases a cookie it was given, perhaps again, perhaps by a bridge
\* that has died.
UnInhibit(c, k) ==
    /\ Called(c) /\ k \in known[c]
    /\ held' = [held EXCEPT ![c] = @ \ {k}]
    /\ IF bridge.requests[k] # c THEN Answer /\ UNCHANGED bridge
       ELSE IF ~bridge.ready
       THEN /\ Answer
            /\ bridge' = [bridge EXCEPT !.requests[k] = NoClient, !.dirty = TRUE]
       ELSE IF Cardinality(bridge.queue) >= MaxQueue
       THEN Answer /\ UNCHANGED bridge
       ELSE Enqueue([kind |-> "remove", sender |-> c, cookie |-> k,
                     call |-> calls + 1])
    /\ UNCHANGED <<client, known, stale, conns, shell>>

\* A caller leaves the bus.
Leave(c) ==
    /\ client[c] = "alive"
    /\ client' = [client EXCEPT ![c] = IF bridge.running THEN "dying" ELSE "gone"]
    /\ held' = [held EXCEPT ![c] = {}]
    /\ UNCHANGED <<known, stale, calls, answered, bridge, counter,
                   links, conns, shell, faults>>

\* Mistake: a departed caller's requests are forgotten without a new snapshot.
DepartedQuietly(c) ==
    [bridge EXCEPT
       !.requests = [k \in Cookies |-> IF @[k] = c THEN NoClient ELSE @[k]],
       !.queue = {op \in @ : op.sender # c}]

Departed(c) ==
    [bridge EXCEPT
       !.requests = [k \in Cookies |-> IF @[k] = c THEN NoClient ELSE @[k]],
       !.queue = {op \in @ : op.sender # c},
       !.dirty = @ \/ \E k \in Cookies : bridge.requests[k] = c]

NameOwnerChanged(c) ==
    /\ bridge.running /\ client[c] = "dying"
    /\ client' = [client EXCEPT ![c] = "gone"]
    /\ Advance(Departed(c), {op.call : op \in {o \in bridge.queue : o.sender = c}})
    /\ UNCHANGED <<held, known, stale, calls, conns, shell>>

-----------------------------------------------------------------------------
\* The socket, at the bridge's end.

Connect ==
    /\ bridge.running /\ bridge.conn = 0
    /\ shell.up /\ conns < MaxConns
    /\ conns' = conns + 1
    /\ Snapshot([bridge EXCEPT !.ready = FALSE], conns + 1)
    /\ UNCHANGED <<callerVars, answered, counter, shell, faults>>

\* The operation in progress is rolled back, the queued ones are refused.
RolledBack(op) ==
    CASE op.kind = "add" -> [bridge.requests EXCEPT ![op.cookie] = NoClient]
      [] op.kind = "remove" /\ HasOwner(op.sender) ->
            [bridge.requests EXCEPT ![op.cookie] = op.sender]
      [] OTHER -> bridge.requests

Unacknowledged == {bridge.current} \cup bridge.queue

\* Mistake: the queued calls are dropped without an answer.
DisconnectUnanswered ==
    /\ bridge' = [bridge EXCEPT !.conn = 0, !.ready = FALSE, !.awaiting = 0,
                                !.requests = RolledBack(bridge.current),
                                !.current = NoOp, !.queue = {},
                                !.dirty = FALSE]
    /\ answered' = answered \cup ({bridge.current.call} \ {0})
    /\ UNCHANGED <<links, counter, faults>>

Disconnect ==
    /\ bridge' = [bridge EXCEPT !.conn = 0, !.ready = FALSE, !.awaiting = 0,
                                !.requests = RolledBack(bridge.current),
                                !.current = NoOp, !.queue = {},
                                !.dirty = FALSE]
    /\ answered' = answered \cup ({op.call : op \in Unacknowledged} \ {0})
    /\ UNCHANGED <<links, counter, faults>>

\* Mistake: only a call's snapshot has a deadline.
AckTimeoutOfCalls ==
    /\ bridge.awaiting # 0 /\ bridge.current # NoOp
    /\ Disconnect
    /\ UNCHANGED <<callerVars, conns, shell>>

AckTimeout ==
    /\ bridge.awaiting # 0
    /\ Disconnect
    /\ UNCHANGED <<callerVars, conns, shell>>

HangUp ==
    /\ bridge.conn # 0 /\ links[bridge.conn].state = "cut"
    /\ Disconnect
    /\ UNCHANGED <<callerVars, conns, shell>>

\* on_frame: the current operation is answered and the queue goes on.
Acknowledge ==
    LET op == bridge.current
        b == [bridge EXCEPT !.awaiting = 0, !.current = NoOp]
        lost == op # NoOp /\ ~HasOwner(op.sender)
    IN /\ bridge.conn # 0 /\ links[bridge.conn].ack # 0
       /\ IF links[bridge.conn].ack # bridge.awaiting
          THEN Disconnect /\ UNCHANGED callerVars
          ELSE /\ CASE op = NoOp -> Advance([b EXCEPT !.ready = TRUE], {})
                    [] lost /\ op.kind = "add" ->
                          Advance([b EXCEPT !.requests[op.cookie] = NoClient,
                                            !.dirty = TRUE], {op.call})
                    [] OTHER -> Advance(b, {op.call})
               /\ IF op.kind = "add" /\ ~lost
                  THEN /\ held' = [held EXCEPT ![op.sender] = @ \cup {op.cookie}]
                       /\ known' = [known EXCEPT ![op.sender] = @ \cup {op.cookie}]
                  ELSE UNCHANGED <<held, known>>
               /\ UNCHANGED <<client, stale, calls>>
       /\ UNCHANGED <<conns, shell>>

\* The bridge is killed; the bus answers its callers.  Its socket is closed.
BridgeDies ==
    /\ bridge.running /\ Fault
    /\ bridge' = Blank(FALSE)
    /\ answered' = 1..calls
    /\ client' = [c \in Clients |-> IF client[c] = "dying" THEN "gone" ELSE client[c]]
    /\ held' = [c \in Clients |-> {}]
    /\ stale' = stale \cup UNION {known[c] : c \in Clients}
    /\ UNCHANGED <<known, calls, counter, links, conns, shell>>

BridgeStarts ==
    /\ ~bridge.running
    /\ bridge' = Blank(TRUE)
    /\ UNCHANGED <<callerVars, answered, counter, links, conns, shell,
                   faults>>

-----------------------------------------------------------------------------
\* The shell's end: IdleBridgeReceiver.

ShellFrame == UNCHANGED <<callerVars, answered, bridge, counter, conns>>
Cut(e) == [links EXCEPT ![e].state = "cut", ![e].frame = NoFrame, ![e].ack = 0]
Cleared == [shell EXCEPT !.socket = 0, !.sequence = 0, !.count = 0]

\* onConnectedChanged: a new connection replaces the current one.
Accept(e) ==
    /\ shell.up /\ links[e].state = "waiting"
    /\ \A d \in 1..(e - 1) : links[d].state # "waiting"
    /\ links' = [d \in 1..MaxConns |->
                   IF d = e THEN [links[d] EXCEPT !.state = "open"]
                   ELSE IF d = shell.socket THEN Cut(d)[d] ELSE links[d]]
    /\ shell' = [Cleared EXCEPT !.socket = e]
    /\ ShellFrame /\ UNCHANGED faults

\* receive: the frame is applied and acknowledged, or the socket is closed.
Receive(e) ==
    LET frame == links[e].frame IN
    /\ links[e].state = "open" /\ frame # NoFrame
    /\ IF frame.sequence <= shell.sequence \/ frame.count > MaxRequests
       THEN links' = Cut(e) /\ shell' = Cleared
       ELSE /\ shell' = [shell EXCEPT !.sequence = frame.sequence,
                                      !.count = frame.count]
            /\ links' = [links EXCEPT ![e].frame = NoFrame,
                                      ![e].ack = frame.sequence]
    /\ ShellFrame /\ UNCHANGED faults

\* The bridge has closed its end: what it had written is read first.
EndOfFile(e) ==
    /\ links[e].state = "open" /\ links[e].frame = NoFrame
    /\ bridge.conn # e
    /\ links' = Cut(e) /\ shell' = Cleared
    /\ ShellFrame /\ UNCHANGED faults

\* The configuration is reloaded: its server and its connections are closed,
\* and the new one listens only a moment later.
Reload ==
    /\ shell.up /\ Fault
    /\ links' = [e \in 1..MaxConns |->
                   IF links[e].state \in {"waiting", "open"} THEN Cut(e)[e]
                   ELSE links[e]]
    /\ shell' = [Cleared EXCEPT !.up = FALSE]
    /\ ShellFrame

Listen ==
    /\ ~shell.up
    /\ shell' = [shell EXCEPT !.up = TRUE]
    /\ ShellFrame /\ UNCHANGED <<links, faults>>

-----------------------------------------------------------------------------
Caller ==
    \E c \in Clients :
        Inhibit(c) \/ (\E k \in Cookies : UnInhibit(c, k)) \/ Leave(c)
SocketStep == AckTimeout \/ HangUp \/ Acknowledge
BridgeStep == SocketStep \/ Connect \/ \E c \in Clients : NameOwnerChanged(c)
ShellStep ==
    \/ (\E e \in 1..MaxConns : Accept(e) \/ Receive(e) \/ EndOfFile(e))
    \/ Listen
Next == Caller \/ BridgeStep \/ ShellStep \/ BridgeDies \/ BridgeStarts \/ Reload

\* The main loop of a running bridge is scheduled, its timer and its socket are
\* served; nothing is assumed of the callers or of the shell.
Spec == Init /\ [][Next]_ivars /\ WF_ivars(SocketStep)

-----------------------------------------------------------------------------
\* Correctness.

\* An inhibition that its living caller was granted, and has not released, is
\* counted by the shell as soon as it has applied a snapshot of a connection:
\* the screen cannot go idle under it. (bridge.py, on_frame before the reply)
HeldIsShown ==
    shell.socket # 0 /\ shell.sequence > 0 =>
        shell.count >= Cardinality(UNION {held[c] : c \in Clients})

\* When no snapshot is awaited the shell displays exactly the requests, none of
\* which belongs to a caller whose departure the bridge has been told of.
SettledIsExact ==
    bridge.ready /\ bridge.awaiting = 0 /\ links[bridge.conn].state = "open" =>
        /\ shell.socket = bridge.conn
        /\ shell.count = Count(bridge.requests)
        /\ \A k \in Live(bridge.requests) : client[bridge.requests[k]] # "gone"

\* Every call without an answer is in the queue or in progress, whatever ended
\* the connection it was waiting on.
NoLostCall ==
    Pending = {op.call : op \in Unacknowledged} \ {0}

\* A cookie given by a bridge that has died is never given again: releasing it
\* late cannot release the request of another caller. (bridge.py 66-69)
StaleNeverLive == \A k \in stale : bridge.requests[k] = NoClient

\* The bridge never announces more requests than the shell accepts, which would
\* close the connection again and again.
FramesAccepted ==
    \A e \in 1..MaxConns : links[e].frame.count <= MaxRequests

\* Every call is answered, even by a shell that never acknowledges.
Answered == \A i \in 1..MaxCalls : (i \in Pending) ~> (i \in answered)

\* "never retain an orphan merely because QuickShell is down" (bridge.py 174): a
\* release refused because the shell is unavailable still releases.
NoOrphan ==
    [][\A op \in Unacknowledged :
          op.kind = "remove" /\ bridge.conn # 0 /\ bridge'.conn = 0 =>
              bridge'.requests[op.cookie] = NoClient]_ivars
=============================================================================

-------------------------- MODULE IdleBridgeProofs --------------------------
(***************************************************************************)
(* The idle bridge: what the screen is told is what is held, for any       *)
(* number of callers, requests, connections, crashes and reloads.          *)
(***************************************************************************)
EXTENDS IdleBridge, FiniteSetTheorems, TLAPS

Bridges == [running : BOOLEAN, requests : [Cookies -> Clients \cup {NoClient}],
            queue : SUBSET Operations, current : Operations \cup {NoOp}, dirty : BOOLEAN,
            conn : 0..MaxConns, ready : BOOLEAN, awaiting : Nat, sequence : Nat, next : Nat]
Frames == [sequence : Nat, count : Nat]
Links == [1..MaxConns -> [state : {"unused", "waiting", "open", "cut"},
                          frame : Frames, ack : Nat]]
Shells == [up : BOOLEAN, socket : 0..MaxConns, sequence : Nat, count : Nat]
Statuses == {"alive", "dying", "gone"}

\* The cookies that are held, and the one that is about to be.
Holding(hd) == UNION {hd[c] : c \in Clients}
Granting(b) == IF b.current.kind = "add" THEN {b.current.cookie} ELSE {}
\* The requests that the shell may have to be told of.
Restorable(b) ==
    Live(b.requests) \cup IF b.current.kind = "remove" THEN {b.current.cookie} ELSE {}

\* The memory of the bridge: b, the callers' status, what they hold, what
\* they were ever given, what a dead bridge gave, and the counter on disk.
Memory(b, cl, hd, kn, st, n) ==
    /\ b \in Bridges /\ cl \in [Clients -> Statuses]
    /\ hd \in [Clients -> SUBSET Cookies] /\ kn \in [Clients -> SUBSET Cookies]
    /\ n \in 0..MaxCookie /\ n < b.next
    /\ st \subseteq 1..n /\ \A c \in Clients : kn[c] \subseteq 1..n
    /\ ~b.running => b.conn = 0 /\ \A k \in Cookies : b.requests[k] = NoClient
    /\ b.conn = 0 => ~b.ready /\ b.awaiting = 0
    /\ ~b.ready => b.current = NoOp /\ b.queue = {}
    /\ IsFiniteSet(b.queue) /\ Cardinality(b.queue) <= MaxQueue
    /\ Cardinality(Restorable(b)) <= MaxRequests
    /\ \A k \in st : b.requests[k] = NoClient
    /\ \A k \in Live(b.requests) : cl[b.requests[k]] # "gone"
    /\ \A c \in Clients :
         /\ cl[c] # "alive" => hd[c] = {}
         /\ \A k \in hd[c] : k \in kn[c] /\ b.requests[k] = c
    /\ \A op \in b.queue :
         op.kind = "remove" => op.cookie \in kn[op.sender] \ hd[op.sender]
    /\ b.current.kind = "add" =>
         /\ b.current.cookie \in 1..n
         /\ \A c \in Clients : b.current.cookie \notin kn[c]
         /\ cl[b.current.sender] = "alive" => b.requests[b.current.cookie] = b.current.sender
    /\ b.current.kind = "remove" =>
         /\ b.current.cookie \in Cookies \ st
         /\ b.requests[b.current.cookie] = NoClient

\* The calls made, and those answered.
Ledger(b, made, done) ==
    /\ made \in 0..MaxCalls /\ done \subseteq 1..made
    /\ (1..made) \ done = {op.call : op \in b.queue \cup {b.current}} \ {0}
    /\ \A op \in b.queue : op.call # b.current.call /\ \A o \in b.queue : o.call = op.call => o = op

\* What is between the bridge and the shell, after s connections.
Wire(hd, ln, sh, s) ==
    /\ ln \in Links /\ sh \in Shells /\ s \in 0..MaxConns
    /\ \A e \in 1..MaxConns :
         /\ ln[e].state = "unused" <=> e > s
         /\ ln[e].state = "open" <=> sh.socket = e
         /\ e < sh.socket => ln[e].state = "cut"
         /\ ln[e].ack # 0 => ln[e].state = "open" /\ ln[e].frame = NoFrame /\ sh.sequence > 0
         /\ ln[e].state = "waiting" => ln[e].frame # NoFrame
         /\ ln[e].frame.count <= MaxRequests
         /\ ln[e].state \in {"waiting", "open"} /\ ln[e].frame # NoFrame =>
              ln[e].frame.count >= Cardinality(Holding(hd))
    /\ sh.socket # 0 /\ sh.sequence > 0 => sh.count >= Cardinality(Holding(hd))

\* What the shell has been told, or is about to be, over the connection of b.
Told(b, hd, ln, sh, s) ==
    /\ b.conn \in {0, s}
    /\ b.conn # 0 =>
         /\ ln[b.conn].state \in {"waiting", "open"} /\ ln[b.conn].frame # NoFrame =>
              /\ b.awaiting # 0
              /\ ln[b.conn].frame.count >= Cardinality(Holding(hd) \cup Granting(b))
              /\ b.dirty \/ ln[b.conn].frame.count = Count(b.requests)
         /\ ln[b.conn].ack # 0 =>
              sh.count >= Cardinality(Holding(hd) \cup Granting(b))
         /\ ln[b.conn].ack # 0 \/ (ln[b.conn].state = "open" /\ b.awaiting = 0 /\ b.ready) =>
              b.dirty \/ sh.count = Count(b.requests)

\* What advance() leaves: nothing is left to do, or a snapshot is awaited.
Advanced(b) ==
    /\ b.awaiting = 0 => b.current = NoOp
    /\ b.awaiting = 0 /\ b.ready => ~b.dirty /\ b.queue = {}

IdleInv ==
    /\ Memory(bridge, client, held, known, stale, counter)
    /\ Ledger(bridge, calls, answered)
    /\ Wire(held, links, shell, conns)
    /\ Told(bridge, held, links, shell, conns)
    /\ Advanced(bridge) /\ faults \in 0..MaxFaults

-----------------------------------------------------------------------------
(* Cookies are counted. *)

\* A part of a finite set is not larger.
LEMMA Smaller ==
  ASSUME NEW T, IsFiniteSet(T), NEW S \in SUBSET T
  PROVE  /\ IsFiniteSet(S) /\ Cardinality(S) \in Nat /\ Cardinality(T) \in Nat
         /\ Cardinality(S) <= Cardinality(T)
BY FS_Subset, FS_CardinalityType

\* There are finitely many cookies.
LEMMA CookiesFinite ==
  /\ IsFiniteSet(Cookies)
  /\ \A S \in SUBSET Cookies : IsFiniteSet(S) /\ Cardinality(S) \in Nat
  /\ \A S, T \in SUBSET Cookies : S \subseteq T => Cardinality(S) <= Cardinality(T)
<1>1. MaxCookie \in Int /\ 1 \in Int
  BY IdleAssumption
<1>2. IsFiniteSet(Cookies)
  BY <1>1, FS_Interval DEF Cookies
<1>3. ASSUME NEW S \in SUBSET Cookies PROVE IsFiniteSet(S) /\ Cardinality(S) \in Nat
  BY <1>2, Smaller
<1>4. ASSUME NEW S \in SUBSET Cookies, NEW T \in SUBSET Cookies, S \subseteq T
      PROVE  Cardinality(S) <= Cardinality(T)
  <2>1. IsFiniteSet(T) /\ S \in SUBSET T
    BY <1>3, <1>4
  <2> QED
    BY <2>1, Smaller
<1> QED
  BY <1>2, <1>3, <1>4

\* What is held, about to be, or counted are cookies.
LEMMA HoldingCookies ==
  ASSUME NEW hd \in [Clients -> SUBSET Cookies] PROVE Holding(hd) \in SUBSET Cookies
BY DEF Holding

\* So are the live requests.
LEMMA CountNat ==
  ASSUME NEW r \in [Cookies -> Clients \cup {NoClient}]
  PROVE  Live(r) \in SUBSET Cookies /\ Count(r) \in Nat /\ Count(r) = Cardinality(Live(r))
<1>1. Live(r) \in SUBSET Cookies
  BY DEF Live
<1> QED
  BY <1>1, CookiesFinite DEF Count

-----------------------------------------------------------------------------
(* A snapshot. *)

\* What a snapshot does to the bridge and to its link.
LEMMA Snapshots ==
  ASSUME NEW b \in Bridges, NEW e \in 1..MaxConns, links \in Links, Snapshot(b, e)
  PROVE  /\ bridge' \in Bridges /\ bridge'.requests = b.requests /\ bridge'.queue = b.queue
         /\ bridge'.current = b.current /\ bridge'.dirty = b.dirty /\ bridge'.ready = b.ready
         /\ bridge'.running = b.running /\ bridge'.next = b.next
         /\ bridge'.conn = e /\ bridge'.awaiting # 0
         /\ links' \in Links /\ \A d \in 1..MaxConns : d # e => links'[d] = links[d]
         /\ links'[e].ack = 0 /\ links'[e].frame # NoFrame
         /\ links'[e].frame.count = Count(b.requests)
         /\ links'[e].state = IF links[e].state = "unused" THEN "waiting" ELSE links[e].state
<1> DEFINE count == Count(b.requests)
           state == IF links[e].state = "unused" THEN "waiting" ELSE links[e].state
<1>1. count \in Nat
  BY CountNat DEF Bridges
<1>2. state \in {"unused", "waiting", "open", "cut"}
  BY DEF Links
<1>3. PICK n \in Nat : n = b.sequence + 1
  BY DEF Bridges
<1>4. n # 0
  BY <1>3 DEF Bridges
<1>5. bridge' = [b EXCEPT !.conn = e, !.sequence = n, !.awaiting = n]
  BY <1>3 DEF Snapshot
<1>6. e \in 0..MaxConns
  BY IdleAssumption
<1>7. /\ bridge' \in Bridges /\ bridge'.requests = b.requests /\ bridge'.queue = b.queue
      /\ bridge'.current = b.current /\ bridge'.dirty = b.dirty /\ bridge'.ready = b.ready
      /\ bridge'.running = b.running /\ bridge'.next = b.next
      /\ bridge'.conn = e /\ bridge'.awaiting = n
  BY <1>5, <1>6 DEF Bridges
<1> DEFINE frame == [sequence |-> n, count |-> count]
<1>8. links' = [links EXCEPT ![e] = [state |-> state, frame |-> frame, ack |-> 0]]
  BY <1>3 DEF Snapshot
<1> HIDE DEF count, state
<1>9. frame \in Frames /\ frame # NoFrame /\ frame.count = count
  BY <1>1, <1>4 DEF Frames, NoFrame
<1> HIDE DEF frame
<1>10. links' \in Links /\ links'[e].state = state /\ links'[e].frame = frame /\ links'[e].ack = 0
       /\ \A d \in 1..MaxConns : d # e => links'[d] = links[d]
  BY <1>2, <1>8, <1>9 DEF Links
<1> QED
  BY <1>4, <1>7, <1>9, <1>10 DEF count, state

\* A snapshot of everything that is held tells the shell enough.
LEMMA SnapshotTells ==
  ASSUME NEW b \in Bridges, NEW hd \in [Clients -> SUBSET Cookies], NEW s, NEW s0,
         Wire(hd, links, shell, s0), s \in 0..MaxConns, s # 0,
         s = s0 \/ (s = s0 + 1 /\ shell.socket # s),
         Snapshot(b, s), Holding(hd) \cup Granting(b) \subseteq Live(b.requests),
         Count(b.requests) <= MaxRequests
  PROVE  Wire(hd, links', shell, s) /\ Told(bridge', hd, links', shell, s)
<1>1. links \in Links /\ shell \in Shells /\ s0 \in 0..MaxConns /\ s \in 1..MaxConns
      /\ MaxConns \in Nat
  BY IdleAssumption DEF Wire
<1>2. /\ bridge' \in Bridges /\ bridge'.requests = b.requests
      /\ bridge'.current = b.current /\ bridge'.dirty = b.dirty /\ bridge'.ready = b.ready
      /\ bridge'.conn = s /\ bridge'.awaiting # 0
      /\ links' \in Links /\ \A d \in 1..MaxConns : d # s => links'[d] = links[d]
      /\ links'[s].ack = 0 /\ links'[s].frame # NoFrame
      /\ links'[s].frame.count = Count(b.requests)
      /\ links'[s].state = IF links[s].state = "unused" THEN "waiting" ELSE links[s].state
  BY <1>1, Snapshots
<1>3. /\ Count(b.requests) >= Cardinality(Holding(hd))
      /\ Count(b.requests) >= Cardinality(Holding(hd) \cup Granting(b))
  <2>1. Live(b.requests) \in SUBSET Cookies /\ Count(b.requests) = Cardinality(Live(b.requests))
        /\ Count(b.requests) \in Nat
    BY CountNat DEF Bridges
  <2>2. /\ Holding(hd) \in SUBSET Cookies /\ Holding(hd) \cup Granting(b) \in SUBSET Cookies
        /\ Holding(hd) \subseteq Live(b.requests)
    BY <2>1
  <2>3. /\ Cardinality(Holding(hd)) <= Cardinality(Live(b.requests))
        /\ Cardinality(Holding(hd) \cup Granting(b)) <= Cardinality(Live(b.requests))
    BY <2>1, <2>2, CookiesFinite
  <2>4. /\ Cardinality(Holding(hd)) \in Nat /\ Cardinality(Holding(hd) \cup Granting(b)) \in Nat
    BY <2>2, CookiesFinite
  <2> QED
    BY <2>1, <2>3, <2>4
<1>4. Granting(bridge') = Granting(b)
  BY <1>2 DEF Granting
<1>5. Told(bridge', hd, links', shell, s)
  BY <1>1, <1>2, <1>3, <1>4 DEF Told
<1>6. ASSUME NEW e \in 1..MaxConns
      PROVE  /\ links'[e].state = "unused" <=> e > s
             /\ links'[e].state = "open" <=> shell.socket = e
             /\ e < shell.socket => links'[e].state = "cut"
             /\ links'[e].ack # 0 =>
                  links'[e].state = "open" /\ links'[e].frame = NoFrame /\ shell.sequence > 0
             /\ links'[e].state = "waiting" => links'[e].frame # NoFrame
             /\ links'[e].frame.count <= MaxRequests
             /\ links'[e].state \in {"waiting", "open"} /\ links'[e].frame # NoFrame =>
                  links'[e].frame.count >= Cardinality(Holding(hd))
  <2>1. CASE e # s
    <3>1. links'[e] = links[e] /\ (e > s <=> e > s0)
      BY <1>1, <1>2, <2>1
    <3> QED
      BY <3>1 DEF Wire
  <2>2. CASE e = s
    <3>1. /\ links[s].state = "unused" <=> s > s0
          /\ links[s].state = "open" <=> shell.socket = s
          /\ s < shell.socket => links[s].state = "cut"
      BY <1>1 DEF Wire
    <3> QED
      BY <1>1, <1>2, <1>3, <2>2, <3>1 DEF Shells
  <2> QED
    BY <2>1, <2>2
<1>7. Wire(hd, links', shell, s)
  BY <1>1, <1>2, <1>6 DEF Wire
<1> QED
  BY <1>5, <1>7

-----------------------------------------------------------------------------
(* advance: the queue is popped. *)

\* The first operation that takes effect, what it makes of the memory, and
\* the counter that is durable before anything else is done.
Effect(b, op, next, cookie) ==
    [b EXCEPT !.queue = @ \ (Before(b, op) \cup {op}), !.next = next,
              !.current = [op EXCEPT !.cookie = cookie],
              !.requests = [@ EXCEPT ![cookie] = IF op.kind = "add" THEN op.sender ELSE NoClient]]

\* A call is one operation, and an operation that is none is the only NoOp.
LEMMA OperationShape ==
  /\ \A op \in Operations : /\ op # NoOp /\ op.kind \in {"add", "remove"} /\ op.sender \in Clients
                            /\ op.cookie \in 0..MaxCookie /\ op.call \in 1..MaxCalls /\ op.call # 0
                            /\ op.sender # NoClient
  /\ NoOp.kind = "none" /\ NoOp.call = 0 /\ NoOp.cookie = 0
BY IdleAssumption DEF Operations, NoOp

\* The numbers of a pop: the cookies that are used up were persisted first.
LEMMA Numbers ==
  ASSUME NEW b \in Bridges, NEW cl, NEW hd, NEW kn, NEW op \in b.queue \cup {NoOp},
         NEW unsaved \in Before(b, op) \cup {NoOp}, faults \in 0..MaxFaults,
         Memory(b, cl, hd, kn, stale, counter), Pop(b, op, unsaved)
  PROVE  \E next, last, cookie \in Nat :
           /\ faults' \in 0..MaxFaults /\ counter' \in 0..MaxCookie /\ counter <= counter'
           /\ counter' < last /\ next > counter
           /\ ~Refused(b, op, next) \/ op = NoOp
           /\ cookie = (IF op.kind = "add" THEN next ELSE op.cookie)
           /\ op.kind = "add" => counter' = next /\ last = next + 1
           /\ op = NoOp =>
                /\ bridge' = [b EXCEPT !.queue = @ \ (Before(b, op) \cup {op}), !.next = last]
                /\ links' = [links EXCEPT ![b.conn].ack = 0]
           /\ op # NoOp => Snapshot(Effect(b, op, last, cookie), b.conn)
<1> DEFINE next == IF unsaved # NoOp THEN b.next + 1 ELSE b.next
           last == IF op.kind = "add" THEN next + 1 ELSE next
           cookie == IF op.kind = "add" THEN next ELSE op.cookie
<1>1. b.next \in Nat /\ counter \in 0..MaxCookie /\ counter < b.next /\ MaxCookie \in Nat
      /\ MaxFaults \in Nat
  BY IdleAssumption DEF Memory, Bridges
<1>2. next \in Nat /\ last \in Nat /\ next > counter
  BY <1>1
<1>3. op = NoOp => op.kind # "add"
  BY OperationShape
<1>4. ~Refused(b, op, next) \/ op = NoOp
  BY DEF Pop
<1>5. op.kind = "add" => next <= MaxCookie
  BY <1>1, <1>2, <1>3, <1>4 DEF Refused
<1>6. op.kind = "add" => counter' = next
  BY DEF Pop
<1>7. /\ unsaved = NoOp => faults' = faults
      /\ unsaved # NoOp => faults > 0 /\ faults' = faults - 1
      /\ unsaved # NoOp => unsaved.kind = "add" /\ ~Refused(b, unsaved, b.next)
  BY DEF Pop, Fault
<1>8. faults' \in 0..MaxFaults
  BY <1>1, <1>7
<1>9. unsaved # NoOp => b.next <= MaxCookie
  BY <1>1, <1>7 DEF Refused
<1>10. op.kind # "add" => counter' \in IF unsaved = NoOp THEN {counter} ELSE {counter, b.next}
  BY DEF Pop
<1>11. counter' \in 0..MaxCookie /\ counter <= counter' /\ counter' < last
  <2>1. CASE op.kind = "add"
    BY <1>1, <1>2, <1>5, <1>6, <2>1
  <2>2. CASE op.kind # "add" /\ unsaved = NoOp
    BY <1>1, <1>10, <2>2
  <2>3. CASE op.kind # "add" /\ unsaved # NoOp
    BY <1>1, <1>9, <1>10, <2>3
  <2> QED
    BY <2>1, <2>2, <2>3
<1>12. op = NoOp => /\ bridge' = [b EXCEPT !.queue = @ \ (Before(b, op) \cup {op}), !.next = last]
                    /\ links' = [links EXCEPT ![b.conn].ack = 0]
  BY DEF Pop
<1>13. op # NoOp => Snapshot(Effect(b, op, last, cookie), b.conn)
  <2>1. SUFFICES ASSUME op # NoOp PROVE Snapshot(Effect(b, op, last, cookie), b.conn)
    OBVIOUS
  <2> DEFINE rest == [b EXCEPT !.queue = @ \ (Before(b, op) \cup {op}), !.next = last]
  <2>2. Snapshot([rest EXCEPT !.current = [op EXCEPT !.cookie = cookie],
                     !.requests[cookie] = IF op.kind = "add" THEN op.sender
                                          ELSE NoClient], b.conn)
    BY <2>1 DEF Pop
  <2>3. [rest EXCEPT !.current = [op EXCEPT !.cookie = cookie],
                     !.requests[cookie] = IF op.kind = "add" THEN op.sender ELSE NoClient]
        = Effect(b, op, last, cookie)
    <3> HIDE DEF last, cookie
    <3> QED
      BY DEF Effect, Bridges
  <2> QED
    BY <2>2, <2>3
<1>14. op.kind = "add" => last = next + 1
  OBVIOUS
<1>15. cookie = (IF op.kind = "add" THEN next ELSE op.cookie)
  OBVIOUS
<1>16. cookie \in Nat
  <2>1. op \in Operations \cup {NoOp}
    BY DEF Bridges
  <2> QED
    BY <1>2, <2>1, OperationShape, IdleAssumption
<1> HIDE DEF next, last, cookie
<1> QED
  BY <1>2, <1>4, <1>6, <1>8, <1>11, <1>12, <1>13, <1>14, <1>15, <1>16

\* A memory that differs in nothing but what the frames say is as good.
LEMMA SameMemory ==
  ASSUME NEW b, NEW b2 \in Bridges, NEW cl, NEW hd, NEW kn, NEW st, NEW n,
         Memory(b, cl, hd, kn, st, n), b2.running = b.running, b2.requests = b.requests,
         b2.queue = b.queue, b2.current = b.current, b2.ready = b.ready, b2.next = b.next,
         b2.running \/ b2.conn = 0, b2.conn = 0 => b.conn = 0 /\ b2.awaiting = 0
  PROVE  Memory(b2, cl, hd, kn, st, n)
<1>1. Restorable(b2) = Restorable(b)
  BY DEF Restorable
<1> QED
  BY <1>1 DEF Memory

\* An operation takes effect, with the cookie, the next one and the counter.
Takes(b, cl, op, next, last, cookie, n, m) ==
    /\ b \in Bridges /\ op \in b.queue /\ b.ready /\ b.current = NoOp
    /\ next \in Nat /\ last \in Nat /\ m \in 0..MaxCookie
    /\ \A c \in Clients : cl[c] = "alive" <=> client[c] = "alive"
    /\ n <= m /\ m < last /\ next > n /\ ~Refused(b, op, next)
    /\ cookie = (IF op.kind = "add" THEN next ELSE op.cookie)
    /\ op.kind = "add" => m = next

\* The memory after an operation took effect, and what is announced with it.
LEMMA EffectFits ==
  ASSUME NEW b, NEW cl, NEW hd, NEW kn, NEW st, NEW op, NEW next, NEW last, NEW cookie, NEW n,
         NEW m, NEW b2, b2 = Effect(b, op, last, cookie),
         Takes(b, cl, op, next, last, cookie, n, m), Memory(b, cl, hd, kn, st, n)
  PROVE  /\ Memory(b2, cl, hd, kn, st, m)
         /\ b2.queue = b.queue \ (Before(b, op) \cup {op})
         /\ b2.current.call = op.call /\ b2.current # NoOp
         /\ b2.conn = b.conn /\ b2.dirty = b.dirty /\ b2.ready = b.ready
         /\ Holding(hd) \cup Granting(b2) \subseteq Live(b2.requests)
         /\ Count(b2.requests) <= MaxRequests
<1>0. /\ b \in Bridges /\ op \in b.queue /\ b.ready /\ b.current = NoOp
      /\ next \in Nat /\ last \in Nat /\ m \in 0..MaxCookie
      /\ \A c \in Clients : cl[c] = "alive" <=> client[c] = "alive"
      /\ n <= m /\ m < last /\ next > n /\ ~Refused(b, op, next)
      /\ cookie = (IF op.kind = "add" THEN next ELSE op.cookie)
      /\ op.kind = "add" => m = next
  BY DEF Takes
<1> USE <1>0
<1> DEFINE owner == IF op.kind = "add" THEN op.sender ELSE NoClient
           requests == [b.requests EXCEPT ![cookie] = owner]
           current == [op EXCEPT !.cookie = cookie]
           queue == b.queue \ (Before(b, op) \cup {op})
<1>1. /\ op \in Operations /\ b.queue \subseteq Operations
      /\ op.kind \in {"add", "remove"} /\ op.sender \in Clients /\ op.sender # NoClient
      /\ b.requests \in [Cookies -> Clients \cup {NoClient}]
      /\ NoClient \notin Clients /\ MaxCookie \in Nat /\ MaxRequests \in Nat
  BY OperationShape, IdleAssumption DEF Bridges
<1>2. /\ cl \in [Clients -> Statuses] /\ hd \in [Clients -> SUBSET Cookies]
      /\ kn \in [Clients -> SUBSET Cookies] /\ n \in 0..MaxCookie
      /\ st \subseteq 1..n /\ \A c \in Clients : kn[c] \subseteq 1..n
      /\ \A c \in Clients : \A k \in hd[c] : k \in kn[c] /\ b.requests[k] = c
      /\ \A k \in st : b.requests[k] = NoClient
      /\ \A k \in Live(b.requests) : cl[b.requests[k]] # "gone"
      /\ Cardinality(Restorable(b)) <= MaxRequests /\ Cardinality(b.queue) <= MaxQueue
  BY DEF Memory
<1>3. cl[op.sender] = "alive"
  BY <1>1 DEF Refused, HasOwner
<1>4. /\ op.kind = "add" => next <= MaxCookie /\ ~(Count(b.requests) >= MaxRequests)
      /\ op.kind = "remove" => b.requests[op.cookie] = op.sender
                               /\ op.cookie \in kn[op.sender] \ hd[op.sender]
  BY <1>1 DEF Refused, Memory
<1>5. cookie \in Cookies
  <2>1. CASE op.kind = "add"
    BY <1>1, <1>2, <1>4, <2>1 DEF Cookies
  <2>2. CASE op.kind = "remove"
    BY <1>1, <1>2, <1>4, <2>2
  <2> QED
    BY <1>1, <2>1, <2>2
<1>6. owner \in Clients \cup {NoClient} /\ (owner = NoClient <=> op.kind = "remove")
  BY <1>1
<1> HIDE DEF owner
<1>7. /\ requests \in [Cookies -> Clients \cup {NoClient}] /\ requests[cookie] = owner
      /\ \A k \in Cookies : k # cookie => requests[k] = b.requests[k]
  BY <1>1, <1>5, <1>6
<1>8. /\ current \in Operations /\ current.kind = op.kind /\ current.sender = op.sender
      /\ current.cookie = cookie /\ current.call = op.call
  <2>1. cookie \in 0..MaxCookie
    BY <1>1, <1>5 DEF Cookies
  <2> QED
    BY <1>1, <2>1 DEF Operations
<1>9. current # NoOp
  BY <1>8, OperationShape
<1>10. queue \in SUBSET Operations /\ queue \subseteq b.queue
  BY <1>1
<1>11. b2 = [b EXCEPT !.queue = queue, !.next = last, !.current = current, !.requests = requests]
  BY DEF Effect, owner
<1> HIDE DEF requests, current, queue
<1>12. /\ b2 \in Bridges /\ b2.queue = queue /\ b2.next = last /\ b2.current = current
       /\ b2.requests = requests /\ b2.running = b.running /\ b2.dirty = b.dirty
       /\ b2.conn = b.conn /\ b2.ready = b.ready /\ b2.awaiting = b.awaiting
  <2>1. current \in Operations \cup {NoOp}
    BY <1>8
  <2>2. PICK b1 \in Bridges : b1 = [b EXCEPT !.queue = queue, !.next = last]
    BY <1>10 DEF Bridges
  <2>3. b2 = [b1 EXCEPT !.current = current, !.requests = requests]
    BY <1>11, <2>2 DEF Bridges
  <2>4. /\ b1.queue = queue /\ b1.next = last /\ b1.running = b.running /\ b1.dirty = b.dirty
        /\ b1.conn = b.conn /\ b1.ready = b.ready /\ b1.awaiting = b.awaiting
    BY <2>2 DEF Bridges
  <2> QED
    BY <1>7, <2>1, <2>3, <2>4 DEF Bridges
<1>13. Live(b.requests) \in SUBSET Cookies /\ Live(requests) \in SUBSET Cookies
       /\ Count(b.requests) \in Nat /\ Count(requests) \in Nat
       /\ Count(b.requests) = Cardinality(Live(b.requests))
       /\ Count(requests) = Cardinality(Live(requests))
  BY <1>1, <1>7, CountNat
<1>14. IsFiniteSet(queue) /\ Cardinality(queue) <= MaxQueue
  <2>1. IsFiniteSet(b.queue) /\ Cardinality(b.queue) <= MaxQueue /\ MaxQueue \in Nat
    BY IdleAssumption DEF Memory
  <2> QED
    BY <1>10, <2>1, Smaller
<1>15. \A o \in queue : o.kind = "remove" => o.cookie \in kn[o.sender] \ hd[o.sender]
  BY <1>10 DEF Memory
<1>16. Holding(hd) \subseteq Live(b.requests)
  BY <1>1, <1>2 DEF Holding, Live
<1>17. /\ b.running /\ b.conn # 0 /\ m < last
       /\ \A c \in Clients : cl[c] # "alive" => hd[c] = {}
       /\ st \subseteq 1..m /\ \A c \in Clients : kn[c] \subseteq 1..m
  <2>1. /\ ~b.running => b.conn = 0
        /\ b.conn = 0 => ~b.ready
        /\ \A c \in Clients : cl[c] # "alive" => hd[c] = {}
    BY DEF Memory
  <2> QED
    BY <1>2, <2>1
<1>18. CASE op.kind = "add"
  <2>1. cookie = next /\ owner = op.sender /\ m = next /\ cookie \in 1..m
    BY <1>1, <1>2, <1>18 DEF owner
  <2>2. /\ cookie \notin st /\ \A c \in Clients : cookie \notin kn[c] /\ cookie \notin hd[c]
    BY <1>2, <2>1
  <2>3. Live(requests) = Live(b.requests) \cup {cookie}
    BY <1>1, <1>5, <1>7, <2>1 DEF Live
  <2>4. Count(requests) <= MaxRequests
    <3>1. IsFiniteSet(Live(b.requests))
      BY <1>13, CookiesFinite
    <3>2. Cardinality(Live(b.requests) \cup {cookie})
             = IF cookie \in Live(b.requests) THEN Cardinality(Live(b.requests))
               ELSE Cardinality(Live(b.requests)) + 1
      BY <3>1, FS_AddElement
    <3> QED
      BY <1>1, <1>4, <1>13, <1>18, <2>3, <3>2
  <2>5. Restorable(b2) = Live(requests) /\ Granting(b2) = {cookie}
    BY <1>8, <1>12, <1>18 DEF Restorable, Granting
  <2>6. \A k \in Live(requests) : cl[requests[k]] # "gone"
    BY <1>2, <1>3, <1>5, <1>7, <2>1, <2>3, <1>13
  <2>7. \A k \in st : requests[k] = NoClient
    BY <1>1, <1>2, <1>7, <2>2 DEF Cookies
  <2>8. \A c \in Clients : \A k \in hd[c] : k \in kn[c] /\ requests[k] = c
    BY <1>2, <1>7, <2>2
  <2>9. Memory(b2, cl, hd, kn, st, m)
    <3>1. /\ b2.current.kind = "add" =>
              /\ b2.current.cookie \in 1..m
              /\ \A c \in Clients : b2.current.cookie \notin kn[c]
              /\ cl[b2.current.sender] = "alive" =>
                   b2.requests[b2.current.cookie] = b2.current.sender
          /\ b2.current.kind = "remove" =>
              /\ b2.current.cookie \in Cookies \ st
              /\ b2.requests[b2.current.cookie] = NoClient
      BY <1>5, <1>7, <1>8, <1>12, <1>18, <2>1, <2>2
    <3>2. Cardinality(Restorable(b2)) <= MaxRequests
      BY <1>13, <2>4, <2>5
    <3>3. /\ \A k \in st : b2.requests[k] = NoClient
          /\ \A k \in Live(b2.requests) : cl[b2.requests[k]] # "gone"
          /\ \A c \in Clients :
               /\ cl[c] # "alive" => hd[c] = {}
               /\ \A k \in hd[c] : k \in kn[c] /\ b2.requests[k] = c
      BY <1>12, <1>17, <2>6, <2>7, <2>8
    <3>4. /\ \A o \in b2.queue : o.kind = "remove" => o.cookie \in kn[o.sender] \ hd[o.sender]
          /\ IsFiniteSet(b2.queue) /\ Cardinality(b2.queue) <= MaxQueue
      BY <1>12, <1>14, <1>15
    <3>5. b2.running /\ b2.conn # 0 /\ b2.ready
      BY <1>12, <1>17
    <3>6. m < b2.next
      BY <1>12, <1>17
    <3> QED
      BY <1>2, <1>12, <1>17, <3>1, <3>2, <3>3, <3>4, <3>5, <3>6 DEF Memory
  <2> QED
    BY <1>8, <1>9, <1>12, <1>16, <2>3, <2>4, <2>5, <2>9 DEF queue
<1>19. CASE op.kind = "remove"
  <2>1. cookie = op.cookie /\ owner = NoClient /\ b.requests[cookie] = op.sender
    BY <1>4, <1>19 DEF owner
  <2>2. /\ cookie \notin st /\ \A c \in Clients : cookie \notin hd[c]
    BY <1>1, <1>2, <1>4, <1>19, <2>1
  <2>3. Live(requests) \cup {cookie} = Live(b.requests)
    BY <1>1, <1>5, <1>7, <2>1 DEF Live
  <2>4. Count(requests) <= MaxRequests /\ Cardinality(Live(b.requests)) <= MaxRequests
    <3>1. IsFiniteSet(Live(b.requests)) /\ Live(requests) \in SUBSET Live(b.requests)
      BY <1>13, <2>3, CookiesFinite
    <3>2. Count(requests) <= Count(b.requests)
      BY <1>13, <3>1, Smaller
    <3>3. Restorable(b) = Live(b.requests)
      BY OperationShape DEF Restorable
    <3> QED
      BY <1>1, <1>2, <1>13, <3>2, <3>3
  <2>5. Restorable(b2) = Live(b.requests) /\ Granting(b2) = {}
    BY <1>8, <1>12, <1>19, <2>3 DEF Restorable, Granting
  <2>6. \A k \in Live(requests) : cl[requests[k]] # "gone"
    BY <1>2, <1>5, <1>7, <2>1, <2>3, <1>13 DEF Live
  <2>7. \A k \in st : requests[k] = NoClient
    BY <1>1, <1>2, <1>7, <2>2 DEF Cookies
  <2>8. \A c \in Clients : \A k \in hd[c] : k \in kn[c] /\ requests[k] = c
    BY <1>2, <1>7, <2>2
  <2>9. Memory(b2, cl, hd, kn, st, m)
    <3>1. /\ b2.current.kind = "add" =>
              /\ b2.current.cookie \in 1..m
              /\ \A c \in Clients : b2.current.cookie \notin kn[c]
              /\ cl[b2.current.sender] = "alive" =>
                   b2.requests[b2.current.cookie] = b2.current.sender
          /\ b2.current.kind = "remove" =>
              /\ b2.current.cookie \in Cookies \ st
              /\ b2.requests[b2.current.cookie] = NoClient
      BY <1>5, <1>7, <1>8, <1>12, <1>19, <2>1, <2>2
    <3>2. Cardinality(Restorable(b2)) <= MaxRequests
      BY <1>13, <2>4, <2>5
    <3>3. /\ \A k \in st : b2.requests[k] = NoClient
          /\ \A k \in Live(b2.requests) : cl[b2.requests[k]] # "gone"
          /\ \A c \in Clients :
               /\ cl[c] # "alive" => hd[c] = {}
               /\ \A k \in hd[c] : k \in kn[c] /\ b2.requests[k] = c
      BY <1>12, <1>17, <2>6, <2>7, <2>8
    <3>4. /\ \A o \in b2.queue : o.kind = "remove" => o.cookie \in kn[o.sender] \ hd[o.sender]
          /\ IsFiniteSet(b2.queue) /\ Cardinality(b2.queue) <= MaxQueue
      BY <1>12, <1>14, <1>15
    <3>5. b2.running /\ b2.conn # 0 /\ b2.ready
      BY <1>12, <1>17
    <3>6. m < b2.next
      BY <1>12, <1>17
    <3> QED
      BY <1>2, <1>12, <1>17, <3>1, <3>2, <3>3, <3>4, <3>5, <3>6 DEF Memory
  <2>10. Holding(hd) \subseteq Live(requests)
    BY <1>16, <2>2, <2>3 DEF Holding
  <2> QED
    BY <1>8, <1>9, <1>12, <2>4, <2>5, <2>9, <2>10 DEF queue
<1> QED
  BY <1>1, <1>18, <1>19

\* The calls in the queue are answered in its order: what is popped is what
\* came before the operation that took effect.
LEMMA LedgerPopped ==
  ASSUME NEW b \in Bridges, NEW b2, NEW made, NEW done, NEW op \in b.queue \cup {NoOp},
         Ledger(b, made, done), b.current = NoOp,
         b2.queue = b.queue \ (Before(b, op) \cup {op}), b2.current.call = op.call
  PROVE  Ledger(b2, made, done \cup {o.call : o \in Before(b, op)})
<1> DEFINE popped == {o.call : o \in Before(b, op)}
<1>1. /\ b.queue \subseteq Operations /\ op \in Operations \cup {NoOp} /\ NoOp.call = 0
      /\ \A o \in b.queue : o.call # 0
  BY OperationShape DEF Bridges
<1>2. /\ made \in 0..MaxCalls /\ done \subseteq 1..made
      /\ (1..made) \ done = {o.call : o \in b.queue \cup {NoOp}} \ {0}
      /\ \A o, p \in b.queue : p.call = o.call => p = o
  BY DEF Ledger
<1>3. Before(b, op) \subseteq b.queue
  BY DEF Before
<1>4. (1..made) \ done = {o.call : o \in b.queue}
  BY <1>1, <1>2
<1>5. popped \subseteq (1..made) \ done
  BY <1>3, <1>4
<1>6. (1..made) \ (done \cup popped) = {o.call : o \in b.queue \ Before(b, op)}
  BY <1>2, <1>3, <1>4
<1>7. {o.call : o \in b.queue \ Before(b, op)} = ({o.call : o \in b2.queue} \cup {op.call}) \ {0}
  <2>1. CASE op = NoOp
    BY <1>1, <2>1
  <2>2. CASE op \in b.queue /\ op # NoOp
    <3>1. op \notin Before(b, op)
      BY <1>1, <2>2, OperationShape DEF Before
    <3>2. b.queue \ Before(b, op) = b2.queue \cup {op}
      BY <2>2, <3>1
    <3> QED
      BY <1>1, <2>2, <3>2
  <2> QED
    BY <2>1, <2>2
<1>8. {o.call : o \in b2.queue \cup {b2.current}} = {o.call : o \in b2.queue} \cup {op.call}
  OBVIOUS
<1>9. ASSUME NEW o \in b2.queue
      PROVE  o.call # b2.current.call /\ \A p \in b2.queue : p.call = o.call => p = o
  BY <1>1, <1>2
<1> QED
  BY <1>2, <1>5, <1>6, <1>7, <1>8, <1>9 DEF Ledger

\* advance() keeps what a handler has prepared for it.
LEMMA AdvanceKeeps ==
  ASSUME NEW b, NEW done, NEW cl, NEW hd, NEW kn, NEW made,
         \A c \in Clients : cl[c] = "alive" <=> client[c] = "alive",
         Memory(b, cl, hd, kn, stale, counter), Ledger(b, made, answered \cup done),
         Wire(hd, links, shell, conns), Told(b, hd, links, shell, conns),
         b.awaiting = 0 => b.current = NoOp, faults \in 0..MaxFaults, Advance(b, done)
  PROVE  /\ Memory(bridge', cl, hd, kn, stale, counter') /\ Ledger(bridge', made, answered')
         /\ Wire(hd, links', shell, conns) /\ Told(bridge', hd, links', shell, conns)
         /\ Advanced(bridge') /\ faults' \in 0..MaxFaults
<1>1. b \in Bridges /\ hd \in [Clients -> SUBSET Cookies]
  BY DEF Memory
<1>2. links \in Links /\ conns \in 0..MaxConns
  BY DEF Wire
<1>3. CASE b.current # NoOp \/ b.awaiting # 0 \/ ~b.ready
  <2>1. /\ bridge' = b /\ answered' = answered \cup done
        /\ links' = links /\ counter' = counter /\ faults' = faults
    BY <1>3 DEF Advance
  <2>2. Advanced(b)
    BY <1>3 DEF Advanced
  <2> QED
    BY <2>1, <2>2
<1>4. ASSUME ~(b.current # NoOp \/ b.awaiting # 0 \/ ~b.ready)
      PROVE  /\ b.current = NoOp /\ b.awaiting = 0 /\ b.ready /\ b.running
             /\ b.conn = conns /\ conns # 0 /\ conns \in 1..MaxConns
             /\ Granting(b) = {} /\ Holding(hd) \subseteq Live(b.requests)
             /\ Count(b.requests) <= MaxRequests
  <2>1. b.current = NoOp /\ b.awaiting = 0 /\ b.ready
    BY <1>4
  <2>2. b.running /\ b.conn = conns /\ conns # 0 /\ conns \in 1..MaxConns
    BY <1>1, <1>2, <2>1, IdleAssumption DEF Memory, Told, Bridges
  <2>3. Granting(b) = {} /\ Restorable(b) = Live(b.requests)
    BY <2>1, OperationShape DEF Granting, Restorable
  <2>4. Holding(hd) \subseteq Live(b.requests)
    BY <1>1, IdleAssumption DEF Memory, Holding, Live
  <2>5. Count(b.requests) <= MaxRequests
    BY <2>3 DEF Memory, Count
  <2> QED
    BY <2>1, <2>2, <2>3, <2>4, <2>5
<1>5. CASE ~(b.current # NoOp \/ b.awaiting # 0 \/ ~b.ready) /\ b.dirty
  <2> DEFINE b2 == [b EXCEPT !.dirty = FALSE]
  <2>1. Snapshot(b2, conns) /\ answered' = answered \cup done
        /\ counter' = counter /\ faults' = faults
    BY <1>4, <1>5 DEF Advance
  <2>2. PICK on \in BOOLEAN : on = FALSE
    BY Zenon
  <2>3. b2 = [b EXCEPT !.dirty = on]
    BY <2>2
  <2> HIDE DEF b2
  <2>4. /\ b2 \in Bridges /\ b2.requests = b.requests /\ b2.queue = b.queue
        /\ b2.current = b.current /\ b2.ready = b.ready /\ b2.running = b.running
        /\ b2.next = b.next
    BY <1>1, <2>3 DEF Bridges
  <2>5. Granting(b2) = {}
    BY <1>4, <1>5, <2>4 DEF Granting
  <2>6. Wire(hd, links', shell, conns) /\ Told(bridge', hd, links', shell, conns)
    BY <1>1, <1>2, <1>4, <1>5, <2>1, <2>4, <2>5, SnapshotTells
  <2>7. /\ bridge' \in Bridges /\ bridge'.requests = b.requests /\ bridge'.queue = b.queue
        /\ bridge'.current = b.current /\ bridge'.ready = b.ready /\ bridge'.running = b.running
        /\ bridge'.next = b.next /\ bridge'.conn = conns /\ bridge'.awaiting # 0
    BY <1>2, <1>4, <1>5, <2>1, <2>4, Snapshots
  <2>8. Memory(bridge', cl, hd, kn, stale, counter')
    BY <1>4, <1>5, <2>1, <2>7, SameMemory
  <2>9. Ledger(bridge', made, answered')
    BY <2>1, <2>7 DEF Ledger
  <2>10. Advanced(bridge')
    BY <2>7 DEF Advanced
  <2> QED
    BY <2>1, <2>6, <2>8, <2>9, <2>10
<1>6. CASE ~(b.current # NoOp \/ b.awaiting # 0 \/ ~b.ready) /\ ~b.dirty
  <2>1. PICK op \in b.queue \cup {NoOp} : \E unsaved \in Before(b, op) \cup {NoOp} :
            /\ Pop(b, op, unsaved)
            /\ answered' = answered \cup done \cup {o.call : o \in Before(b, op)}
    BY <1>6 DEF Advance
  <2>2. PICK unsaved \in Before(b, op) \cup {NoOp} :
            /\ Pop(b, op, unsaved)
            /\ answered' = answered \cup done \cup {o.call : o \in Before(b, op)}
    BY <2>1
  <2>3. PICK next, last, cookie \in Nat :
           /\ faults' \in 0..MaxFaults /\ counter' \in 0..MaxCookie /\ counter <= counter'
           /\ counter' < last /\ next > counter
           /\ ~Refused(b, op, next) \/ op = NoOp
           /\ cookie = (IF op.kind = "add" THEN next ELSE op.cookie)
           /\ op.kind = "add" => counter' = next /\ last = next + 1
           /\ op = NoOp =>
                /\ bridge' = [b EXCEPT !.queue = @ \ (Before(b, op) \cup {op}), !.next = last]
                /\ links' = [links EXCEPT ![b.conn].ack = 0]
           /\ op # NoOp => Snapshot(Effect(b, op, last, cookie), b.conn)
    BY <1>1, <2>2, Numbers
  <2>4. CASE op = NoOp
    <3>1. bridge' = [b EXCEPT !.queue = {}, !.next = last]
      <4>1. b.queue \ (Before(b, op) \cup {op}) = {}
        BY <2>4 DEF Before
      <4> QED
        BY <2>3, <2>4, <4>1
    <3>2. /\ bridge' \in Bridges /\ bridge'.requests = b.requests /\ bridge'.queue = {}
          /\ bridge'.current = b.current /\ bridge'.ready = b.ready /\ bridge'.running = b.running
          /\ bridge'.next = last /\ bridge'.conn = b.conn /\ bridge'.awaiting = b.awaiting
          /\ bridge'.dirty = b.dirty
      BY <1>1, <3>1 DEF Bridges
    <3>3. Restorable(bridge') = Restorable(b)
      BY <3>2 DEF Restorable
    <3>4. IsFiniteSet({}) /\ Cardinality({}) = 0 /\ MaxQueue \in Nat
      BY FS_EmptySet, IdleAssumption
    <3>5. \A c \in Clients : kn[c] \subseteq 1..counter'
      BY <2>3 DEF Memory
    <3>6. stale \subseteq 1..counter'
      BY <2>3 DEF Memory
    <3>7. Memory(bridge', cl, hd, kn, stale, counter')
      BY <1>4, <1>6, <2>3, <3>2, <3>3, <3>4, <3>5, <3>6, OperationShape DEF Memory
    <3>8. Ledger(bridge', made, answered')
      <4>1. bridge'.queue = b.queue \ (Before(b, op) \cup {op}) /\ bridge'.current.call = op.call
        BY <1>4, <1>6, <2>4, <3>2 DEF Before
      <4> QED
        BY <1>1, <1>4, <1>6, <2>2, <4>1, LedgerPopped
    <3>9. /\ links' \in Links /\ \A e \in 1..MaxConns : links'[e].state = links[e].state
                                                        /\ links'[e].frame = links[e].frame
          /\ \A e \in 1..MaxConns : e # conns => links'[e].ack = links[e].ack
          /\ links'[conns].ack = 0
      <4>1. links' = [links EXCEPT ![conns] = [@ EXCEPT !.ack = 0]]
        BY <1>4, <1>6, <2>3, <2>4
      <4> QED
        BY <1>2, <1>4, <1>6, <4>1 DEF Links
    <3>10. Wire(hd, links', shell, conns)
      BY <1>2, <1>4, <1>6, <3>9 DEF Wire
    <3>11. Told(bridge', hd, links', shell, conns)
      <4>1. Granting(bridge') = Granting(b)
        BY <3>2 DEF Granting
      <4> QED
        BY <1>4, <1>6, <3>2, <3>9, <4>1 DEF Told
    <3>12. Advanced(bridge')
      BY <1>4, <1>6, <3>2 DEF Advanced
    <3> QED
      BY <2>3, <3>7, <3>8, <3>10, <3>11, <3>12
  <2>5. CASE op # NoOp
    <3> DEFINE b2 == Effect(b, op, last, cookie)
    <3>1. Snapshot(b2, conns)
      BY <1>4, <1>6, <2>3, <2>5
    <3> HIDE DEF b2
    <3>2. op \in b.queue /\ ~Refused(b, op, next)
      BY <2>3, <2>5
    <3>3. /\ Memory(b2, cl, hd, kn, stale, counter')
          /\ b2.queue = b.queue \ (Before(b, op) \cup {op})
          /\ b2.current.call = op.call /\ b2.current # NoOp
          /\ b2.conn = b.conn /\ b2.dirty = b.dirty /\ b2.ready = b.ready
          /\ Holding(hd) \cup Granting(b2) \subseteq Live(b2.requests)
          /\ Count(b2.requests) <= MaxRequests
      <4>1. b2 = Effect(b, op, last, cookie)
        BY DEF b2
      <4>2. PICK n \in 0..MaxCookie : n = counter
        BY DEF Memory
      <4>3. PICK m \in 0..MaxCookie : m = counter'
        BY <2>3
      <4>4. PICK st : st = stale
        OBVIOUS
      <4>5. Memory(b, cl, hd, kn, st, n)
        BY <4>2, <4>4
      <4>6. /\ n <= m /\ m < last /\ next > n
            /\ op.kind = "add" => m = next
            /\ cookie = (IF op.kind = "add" THEN next ELSE op.cookie)
        BY <2>3, <4>2, <4>3
      <4>7. /\ Memory(b2, cl, hd, kn, st, m)
            /\ b2.queue = b.queue \ (Before(b, op) \cup {op})
            /\ b2.current.call = op.call /\ b2.current # NoOp
            /\ b2.conn = b.conn /\ b2.dirty = b.dirty /\ b2.ready = b.ready
            /\ Holding(hd) \cup Granting(b2) \subseteq Live(b2.requests)
            /\ Count(b2.requests) <= MaxRequests
        <5>1. Takes(b, cl, op, next, last, cookie, n, m)
          BY <1>1, <1>4, <1>6, <3>2, <4>6 DEF Takes
        <5> QED
          BY <4>1, <4>5, <5>1, EffectFits
      <4> QED
        BY <4>3, <4>4, <4>7
    <3>4. b2 \in Bridges
      BY <3>3 DEF Memory
    <3>5. Wire(hd, links', shell, conns) /\ Told(bridge', hd, links', shell, conns)
      BY <1>1, <1>2, <1>4, <1>6, <3>1, <3>3, <3>4, SnapshotTells
    <3>6. /\ bridge' \in Bridges /\ bridge'.requests = b2.requests /\ bridge'.queue = b2.queue
          /\ bridge'.current = b2.current /\ bridge'.ready = b2.ready
          /\ bridge'.running = b2.running
          /\ bridge'.next = b2.next /\ bridge'.conn = conns /\ bridge'.awaiting # 0
      BY <1>2, <1>4, <1>6, <3>1, <3>4, Snapshots
    <3>7. Memory(bridge', cl, hd, kn, stale, counter')
      <4>1. b2.running
        BY <1>4, <1>6, <3>3, <3>4 DEF Memory
      <4> QED
        BY <1>4, <1>6, <3>3, <3>6, <4>1, SameMemory
    <3>8. Ledger(bridge', made, answered')
      BY <1>1, <1>4, <1>6, <2>2, <3>3, <3>6, LedgerPopped
    <3>9. Advanced(bridge')
      BY <3>6 DEF Advanced
    <3> QED
      BY <2>3, <3>5, <3>7, <3>8, <3>9
  <2> QED
    BY <2>4, <2>5
<1> QED
  BY <1>3, <1>5, <1>6

-----------------------------------------------------------------------------
(* The callers. *)

\* Releasing, or losing, what was held takes nothing from the memory, nor
\* from what the shell was told.
LEMMA HeldShrinks ==
  ASSUME NEW b, NEW cl, NEW hd, NEW kn, NEW st, NEW n, NEW ln, NEW sh, NEW s,
         NEW hd2 \in [Clients -> SUBSET Cookies], \A c \in Clients : hd2[c] \subseteq hd[c],
         hd \in [Clients -> SUBSET Cookies]
  PROVE  /\ Memory(b, cl, hd, kn, st, n) => Memory(b, cl, hd2, kn, st, n)
         /\ Wire(hd, ln, sh, s) => Wire(hd2, ln, sh, s)
         /\ Wire(hd, ln, sh, s) /\ Told(b, hd, ln, sh, s) /\ b \in Bridges
              => Told(b, hd2, ln, sh, s)
<1>1. ASSUME Memory(b, cl, hd, kn, st, n) PROVE Memory(b, cl, hd2, kn, st, n)
  <2>1. \A op \in b.queue : op.kind = "remove" => op.cookie \in kn[op.sender] \ hd2[op.sender]
    <3>1. \A op \in b.queue : op.sender \in Clients
      BY <1>1, OperationShape DEF Memory, Bridges
    <3> QED
      BY <1>1, <3>1 DEF Memory
  <2>2. \A c \in Clients :
          /\ cl[c] # "alive" => hd2[c] = {}
          /\ \A k \in hd2[c] : k \in kn[c] /\ b.requests[k] = c
    BY <1>1 DEF Memory
  <2> QED
    BY <1>1, <2>1, <2>2 DEF Memory
<1>2. /\ Holding(hd2) \subseteq Holding(hd)
      /\ Holding(hd) \in SUBSET Cookies /\ Holding(hd2) \in SUBSET Cookies
  BY HoldingCookies DEF Holding
<1>3. /\ Cardinality(Holding(hd2)) <= Cardinality(Holding(hd))
      /\ Cardinality(Holding(hd2)) \in Nat /\ Cardinality(Holding(hd)) \in Nat
  BY <1>2, CookiesFinite
<1>4. ASSUME Wire(hd, ln, sh, s) PROVE Wire(hd2, ln, sh, s)
  <2>1. sh.count \in Nat /\ \A e \in 1..MaxConns : ln[e].frame.count \in Nat
    BY <1>4 DEF Wire, Links, Frames, Shells
  <2> QED
    BY <1>3, <1>4, <2>1 DEF Wire
<1>5. ASSUME Wire(hd, ln, sh, s), Told(b, hd, ln, sh, s), b \in Bridges
      PROVE  Told(b, hd2, ln, sh, s)
  <2>1. sh.count \in Nat /\ \A e \in 1..MaxConns : ln[e].frame.count \in Nat
    BY <1>5 DEF Wire, Links, Frames, Shells
  <2>2. Granting(b) \subseteq Nat
    <3>1. b.current \in Operations \cup {NoOp}
      BY <1>5 DEF Bridges
    <3> QED
      BY <3>1, OperationShape, IdleAssumption DEF Granting
  <2>3. /\ Cardinality(Holding(hd2) \cup Granting(b)) <= Cardinality(Holding(hd) \cup Granting(b))
        /\ Cardinality(Holding(hd2) \cup Granting(b)) \in Nat
        /\ Cardinality(Holding(hd) \cup Granting(b)) \in Nat
    <3>1. IsFiniteSet(Granting(b))
      BY FS_Singleton, FS_EmptySet DEF Granting
    <3>2. IsFiniteSet(Holding(hd) \cup Granting(b))
      BY <1>2, <3>1, CookiesFinite, FS_Union
    <3> QED
      BY <1>2, <3>2, Smaller
  <2>4. b.conn # 0 => b.conn \in 1..MaxConns
    BY <1>5, IdleAssumption DEF Bridges
  <2> QED
    BY <1>5, <2>1, <2>3, <2>4 DEF Told
<1> QED
  BY <1>1, <1>4, <1>5

\* A call that is answered at once.
LEMMA LedgerAnswered ==
  ASSUME NEW b, NEW made, NEW done, Ledger(b, made, done), made < MaxCalls
  PROVE  Ledger(b, made + 1, done \cup {made + 1})
<1>1. made \in Nat /\ made + 1 \in 0..MaxCalls
  BY IdleAssumption DEF Ledger
<1>2. (1..(made + 1)) \ (done \cup {made + 1}) = (1..made) \ done
  BY <1>1 DEF Ledger
<1>3. done \cup {made + 1} \subseteq 1..(made + 1)
  BY <1>1 DEF Ledger
<1> QED
  BY <1>1, <1>2, <1>3 DEF Ledger

\* A call that is queued.
LEMMA LedgerQueued ==
  ASSUME NEW b, NEW b2, NEW made, NEW done, NEW op, Ledger(b, made, done), made < MaxCalls,
         op.call = made + 1, b2.queue = b.queue \cup {op}, b2.current = b.current,
         b \in Bridges
  PROVE  Ledger(b2, made + 1, done)
<1>1. made \in Nat /\ made + 1 \in 0..MaxCalls /\ MaxCalls \in Nat
  BY IdleAssumption DEF Ledger
<1>2. \A o \in b.queue \cup {b.current} : o.call \in Nat /\ o.call <= made
  <2>1. \A o \in b.queue \cup {b.current} : o.call = 0 \/ o.call \in (1..made) \ done
    BY DEF Ledger
  <2> QED
    BY <1>1, <2>1
<1>3. (1..(made + 1)) \ done = ((1..made) \ done) \cup {made + 1}
  BY <1>1 DEF Ledger
<1>4. {o.call : o \in b2.queue \cup {b2.current}} = {o.call : o \in b.queue \cup {b.current}} \cup {made + 1}
  OBVIOUS
<1>5. (1..(made + 1)) \ done = {o.call : o \in b2.queue \cup {b2.current}} \ {0}
  BY <1>1, <1>3, <1>4 DEF Ledger
<1>6. ASSUME NEW o \in b2.queue
      PROVE  o.call # b2.current.call /\ \A p \in b2.queue : p.call = o.call => p = o
  <2>1. CASE o \in b.queue
    BY <1>1, <1>2, <2>1 DEF Ledger
  <2>2. CASE o = op
    BY <1>1, <1>2, <2>2
  <2> QED
    BY <2>1, <2>2
<1>7. done \subseteq 1..(made + 1)
  BY <1>1 DEF Ledger
<1> QED
  BY <1>1, <1>5, <1>6, <1>7 DEF Ledger

\* What an operation must be to join the queue.
Queueable(op, hd, kn) ==
    /\ op \in Operations /\ op.call = calls + 1 /\ calls < MaxCalls /\ calls' = calls + 1
    /\ bridge.ready /\ Cardinality(bridge.queue) < MaxQueue
    /\ op.kind = "remove" => op.cookie \in kn[op.sender] \ hd[op.sender]

\* It does so, and the queue goes on when nothing is awaited.
LEMMA EnqueueKeeps ==
  ASSUME NEW op, NEW hd, Queueable(op, hd, known), Enqueue(op),
         Memory(bridge, client, hd, known, stale, counter), Ledger(bridge, calls, answered),
         Wire(hd, links, shell, conns), Told(bridge, hd, links, shell, conns),
         Advanced(bridge), faults \in 0..MaxFaults
  PROVE  /\ Memory(bridge', client, hd, known, stale, counter') /\ Ledger(bridge', calls', answered')
         /\ Wire(hd, links', shell, conns) /\ Told(bridge', hd, links', shell, conns)
         /\ Advanced(bridge') /\ faults' \in 0..MaxFaults
<1> DEFINE b == [bridge EXCEPT !.queue = @ \cup {op}]
<1>0. bridge \in Bridges
  BY DEF Memory
<1>1. op \in Operations /\ op.call = calls + 1 /\ calls < MaxCalls /\ bridge.ready
      /\ Cardinality(bridge.queue) < MaxQueue
  BY DEF Queueable
<1>2. op.kind = "remove" => op.cookie \in known[op.sender] \ hd[op.sender]
  BY DEF Queueable
<1>3. /\ b \in Bridges /\ b.queue = bridge.queue \cup {op} /\ b.requests = bridge.requests
      /\ b.current = bridge.current /\ b.conn = bridge.conn /\ b.ready = bridge.ready
      /\ b.awaiting = bridge.awaiting /\ b.dirty = bridge.dirty /\ b.running = bridge.running
      /\ b.next = bridge.next
  BY <1>0, <1>1 DEF Bridges
<1>4. Advance(b, {})
  BY DEF Enqueue
<1> HIDE DEF b
<1>5. IsFiniteSet(b.queue) /\ Cardinality(b.queue) <= MaxQueue
  <2>1. IsFiniteSet(bridge.queue)
    BY DEF Memory
  <2>2. /\ IsFiniteSet(bridge.queue \cup {op}) /\ Cardinality(bridge.queue) \in Nat
        /\ Cardinality(bridge.queue \cup {op}) =
             IF op \in bridge.queue THEN Cardinality(bridge.queue)
             ELSE Cardinality(bridge.queue) + 1
    BY <2>1, FS_AddElement, FS_CardinalityType
  <2> QED
    BY <1>1, <1>3, <2>2, IdleAssumption
<1>6. Memory(b, client, hd, known, stale, counter)
  <2>1. Restorable(b) = Restorable(bridge)
    BY <1>3 DEF Restorable
  <2>2. \A o \in b.queue : o.kind = "remove" => o.cookie \in known[o.sender] \ hd[o.sender]
    BY <1>2, <1>3 DEF Memory
  <2>3. b.ready
    BY <1>1, <1>3
  <2> QED
    BY <1>3, <1>5, <2>1, <2>2, <2>3 DEF Memory
<1>7. Ledger(b, calls + 1, answered)
  BY <1>0, <1>1, <1>3, LedgerQueued
<1>8. Told(b, hd, links, shell, conns)
  <2>1. Granting(b) = Granting(bridge)
    BY <1>3 DEF Granting
  <2> QED
    BY <1>3, <2>1 DEF Told
<1>9. b.awaiting = 0 => b.current = NoOp
  BY <1>3 DEF Advanced
<1>10. PICK done : done = {}
  OBVIOUS
<1>11. PICK made : made = calls + 1
  OBVIOUS
<1>12. Ledger(b, made, answered \cup done) /\ Advance(b, done)
  BY <1>4, <1>7, <1>10, <1>11
<1>13. PICK cl, kn : cl = client /\ kn = known
  OBVIOUS
<1>14. PICK bb : bb = b
  OBVIOUS
<1>15. /\ Memory(bridge', cl, hd, kn, stale, counter') /\ Ledger(bridge', made, answered')
       /\ Wire(hd, links', shell, conns) /\ Told(bridge', hd, links', shell, conns)
       /\ Advanced(bridge') /\ faults' \in 0..MaxFaults
  <2>1. /\ Memory(bb, cl, hd, kn, stale, counter) /\ Ledger(bb, made, answered \cup done)
        /\ Told(bb, hd, links, shell, conns) /\ (bb.awaiting = 0 => bb.current = NoOp)
        /\ Advance(bb, done)
    BY <1>6, <1>8, <1>9, <1>12, <1>13, <1>14
  <2>2. \A c \in Clients : cl[c] = "alive" <=> client[c] = "alive"
    BY <1>13
  <2> QED
    BY <2>1, <2>2, AdvanceKeeps
<1>16. made = calls'
  BY <1>11 DEF Queueable
<1> QED
  BY <1>13, <1>15, <1>16

\* Inhibit.
LEMMA InhibitKeeps ==
  ASSUME IdleInv, NEW c \in Clients, Inhibit(c)
  PROVE  IdleInv'
<1>1. UNCHANGED <<client, held, known, stale, conns, shell>>
      /\ calls < MaxCalls /\ calls' = calls + 1
  BY DEF Inhibit, Called
<1>2. /\ Memory(bridge, client, held, known, stale, counter) /\ Ledger(bridge, calls, answered)
      /\ Wire(held, links, shell, conns) /\ Told(bridge, held, links, shell, conns)
      /\ Advanced(bridge) /\ faults \in 0..MaxFaults
  BY DEF IdleInv
<1>3. calls \in Nat /\ calls + 1 \in 1..MaxCalls
  BY <1>1, <1>2, IdleAssumption DEF Ledger
<1>4. CASE Answer /\ UNCHANGED bridge
  <2>1. Ledger(bridge, calls + 1, answered \cup {calls + 1})
    BY <1>1, <1>2, LedgerAnswered
  <2> QED
    BY <1>1, <1>2, <1>4, <2>1 DEF IdleInv, Answer
<1>5. CASE ~(\/ ~bridge.ready
             \/ Cardinality(bridge.queue) >= MaxQueue
             \/ Count(bridge.requests) >= MaxRequests)
  <2>1. PICK op : op = [kind |-> "add", sender |-> c, cookie |-> 0, call |-> calls + 1]
    OBVIOUS
  <2>2. Enqueue(op)
    BY <1>5, <2>1 DEF Inhibit
  <2>3. op \in Operations /\ op.call = calls + 1 /\ op.kind = "add"
    BY <1>3, <2>1, IdleAssumption DEF Operations
  <2>4. IsFiniteSet(bridge.queue) /\ MaxQueue \in Nat
    BY <1>2, IdleAssumption DEF Memory
  <2>5. Cardinality(bridge.queue) < MaxQueue
    BY <1>5, <2>4, FS_CardinalityType
  <2>6. PICK hd : hd = held
    OBVIOUS
  <2>7. Queueable(op, hd, known)
    BY <1>1, <1>5, <2>3, <2>5 DEF Queueable
  <2>8. /\ Memory(bridge', client, hd, known, stale, counter') /\ Ledger(bridge', calls', answered')
        /\ Wire(hd, links', shell, conns) /\ Told(bridge', hd, links', shell, conns)
        /\ Advanced(bridge') /\ faults' \in 0..MaxFaults
    BY <1>2, <2>2, <2>6, <2>7, EnqueueKeeps
  <2> QED
    BY <1>1, <2>6, <2>8 DEF IdleInv
<1> QED
  BY <1>4, <1>5 DEF Inhibit

\* b2, with the callers as cl2, is b but for requests that nobody holds and
\* for operations that are over.
Lesser(b, b2, cl, cl2, hd) ==
    /\ b2 \in Bridges /\ b2.running = b.running /\ b2.conn = b.conn /\ b2.next = b.next
    /\ b2.conn = 0 => b2.awaiting = 0 /\ ~b2.ready
    /\ b2.queue \subseteq b.queue /\ b2.current \in {b.current, NoOp}
    /\ ~b2.ready => ~b.ready
    /\ cl2 \in [Clients -> Statuses]
    /\ \A c \in Clients : cl2[c] = "alive" <=> cl[c] = "alive"
    /\ \A k \in Live(b2.requests) : b2.requests[k] = b.requests[k] /\ cl2[b2.requests[k]] # "gone"
    /\ \A c \in Clients : \A k \in hd[c] : k \in Live(b2.requests)
    /\ b2.current.kind = "add" /\ cl[b2.current.sender] = "alive" =>
         b2.requests[b2.current.cookie] = b.requests[b2.current.cookie]

\* It is as good a memory.
LEMMA MemoryShrinks ==
  ASSUME NEW b, NEW b2, NEW cl, NEW cl2, NEW hd, NEW kn, NEW st, NEW n,
         Memory(b, cl, hd, kn, st, n), Lesser(b, b2, cl, cl2, hd)
  PROVE  Memory(b2, cl2, hd, kn, st, n)
<1>1. b \in Bridges /\ b2 \in Bridges
      /\ b2.requests \in [Cookies -> Clients \cup {NoClient}] /\ NoOp.kind = "none"
      /\ b2.current \in {b.current, NoOp} /\ b2.current \in Operations \cup {NoOp}
  BY OperationShape DEF Memory, Lesser, Bridges
<1>2. \A k \in Cookies : k \notin Live(b2.requests) => b2.requests[k] = NoClient
  BY <1>1 DEF Live
<1>3. Live(b2.requests) \subseteq Live(b.requests)
  BY <1>1 DEF Lesser, Live
<1>4. /\ Restorable(b2) \subseteq Restorable(b) /\ IsFiniteSet(Restorable(b))
  <2>1. Live(b.requests) \in SUBSET Cookies
    BY DEF Live
  <2>2. IsFiniteSet(Live(b.requests))
    BY <2>1, CookiesFinite
  <2>3. IsFiniteSet({b.current.cookie}) /\ IsFiniteSet({})
    BY FS_Singleton, FS_EmptySet
  <2>4. IsFiniteSet(Restorable(b))
    BY <2>2, <2>3, FS_Union DEF Restorable
  <2>5. Restorable(b2) \subseteq Restorable(b)
    BY <1>1, <1>3 DEF Restorable
  <2> QED
    BY <2>4, <2>5
<1>5. Cardinality(Restorable(b2)) <= MaxRequests
  <2>1. Cardinality(Restorable(b)) <= MaxRequests /\ MaxRequests \in Nat
    BY IdleAssumption DEF Memory
  <2> QED
    BY <1>4, <2>1, Smaller
<1>6. IsFiniteSet(b2.queue) /\ Cardinality(b2.queue) <= MaxQueue
  <2>1. IsFiniteSet(b.queue) /\ Cardinality(b.queue) <= MaxQueue /\ MaxQueue \in Nat
    BY IdleAssumption DEF Memory
  <2>2. b2.queue \in SUBSET b.queue
    BY DEF Lesser
  <2> QED
    BY <2>1, <2>2, Smaller
<1>7. ~b2.ready => b2.current = NoOp /\ b2.queue = {}
  BY DEF Memory, Lesser
<1>8. /\ \A k \in st : b2.requests[k] = NoClient
      /\ \A k \in Live(b2.requests) : cl2[b2.requests[k]] # "gone"
  <2>1. st \subseteq Cookies
    BY IdleAssumption DEF Memory, Cookies
  <2> QED
    BY <1>2, <2>1 DEF Memory, Lesser
<1>9. \A c \in Clients :
        /\ cl2[c] # "alive" => hd[c] = {}
        /\ \A k \in hd[c] : k \in kn[c] /\ b2.requests[k] = c
  BY DEF Memory, Lesser
<1>10. \A op \in b2.queue : op.kind = "remove" => op.cookie \in kn[op.sender] \ hd[op.sender]
  BY DEF Memory, Lesser
<1>11. b2.current.kind = "add" =>
         /\ b2.current.cookie \in 1..n
         /\ \A c \in Clients : b2.current.cookie \notin kn[c]
         /\ cl2[b2.current.sender] = "alive" =>
              b2.requests[b2.current.cookie] = b2.current.sender
  <2>1. SUFFICES ASSUME b2.current.kind = "add"
        PROVE  /\ b2.current.cookie \in 1..n
               /\ \A c \in Clients : b2.current.cookie \notin kn[c]
               /\ cl2[b2.current.sender] = "alive" =>
                    b2.requests[b2.current.cookie] = b2.current.sender
    OBVIOUS
  <2>2. b2.current = b.current /\ b.current.kind = "add" /\ b2.current.sender \in Clients
    BY <1>1, <2>1, OperationShape
  <2> QED
    BY <2>1, <2>2 DEF Memory, Lesser
<1>12. b2.current.kind = "remove" =>
         /\ b2.current.cookie \in Cookies \ st
         /\ b2.requests[b2.current.cookie] = NoClient
  <2>1. SUFFICES ASSUME b2.current.kind = "remove"
        PROVE  /\ b2.current.cookie \in Cookies \ st
               /\ b2.requests[b2.current.cookie] = NoClient
    OBVIOUS
  <2>2. b2.current = b.current
    BY <1>1, <2>1
  <2>3. b.current.cookie \in Cookies \ st /\ b.requests[b.current.cookie] = NoClient
    BY <2>1, <2>2 DEF Memory
  <2>4. b.current.cookie \notin Live(b2.requests)
    BY <1>3, <2>3 DEF Live
  <2> QED
    BY <1>2, <2>2, <2>3, <2>4
<1>13. ~b2.running => b2.conn = 0 /\ \A k \in Cookies : b2.requests[k] = NoClient
  <2>1. ~b.running => b.conn = 0 /\ \A k \in Cookies : b.requests[k] = NoClient
    BY DEF Memory
  <2> QED
    BY <1>2, <1>3, <2>1 DEF Lesser, Live
<1>14. /\ hd \in [Clients -> SUBSET Cookies] /\ kn \in [Clients -> SUBSET Cookies]
       /\ n \in 0..MaxCookie /\ n < b2.next /\ cl2 \in [Clients -> Statuses]
       /\ st \subseteq 1..n /\ \A c \in Clients : kn[c] \subseteq 1..n
       /\ b2.conn = 0 => ~b2.ready /\ b2.awaiting = 0
  BY DEF Memory, Lesser
<1> QED
  BY <1>1, <1>5, <1>6, <1>7, <1>8, <1>9, <1>10, <1>11, <1>12, <1>13, <1>14 DEF Memory

\* UnInhibit.
LEMMA UnInhibitKeeps ==
  ASSUME IdleInv, NEW c \in Clients, NEW k \in Cookies, UnInhibit(c, k)
  PROVE  IdleInv'
<1>1. /\ UNCHANGED <<client, known, stale, conns, shell>> /\ k \in known[c]
      /\ calls < MaxCalls /\ calls' = calls + 1 /\ held' = [held EXCEPT ![c] = @ \ {k}]
  BY DEF UnInhibit, Called
<1>2. /\ Memory(bridge, client, held, known, stale, counter) /\ Ledger(bridge, calls, answered)
      /\ Wire(held, links, shell, conns) /\ Told(bridge, held, links, shell, conns)
      /\ Advanced(bridge) /\ faults \in 0..MaxFaults /\ bridge \in Bridges
      /\ held \in [Clients -> SUBSET Cookies]
  BY DEF IdleInv, Memory
<1>3. PICK hd : hd = held'
  OBVIOUS
<1>4. /\ hd \in [Clients -> SUBSET Cookies] /\ \A d \in Clients : hd[d] \subseteq held[d]
      /\ k \notin hd[c]
  BY <1>1, <1>2, <1>3
<1>5. /\ Memory(bridge, client, hd, known, stale, counter)
      /\ Wire(hd, links, shell, conns) /\ Told(bridge, hd, links, shell, conns)
  BY <1>2, <1>4, HeldShrinks
<1>6. Ledger(bridge, calls + 1, answered \cup {calls + 1})
  BY <1>1, <1>2, LedgerAnswered
<1>7. CASE Answer /\ UNCHANGED bridge
  BY <1>1, <1>2, <1>3, <1>5, <1>6, <1>7 DEF IdleInv, Answer
<1>8. CASE /\ bridge.requests[k] = c /\ ~bridge.ready /\ Answer
           /\ bridge' = [bridge EXCEPT !.requests[k] = NoClient, !.dirty = TRUE]
  <2>1. PICK on \in BOOLEAN : on = TRUE
    BY Zenon
  <2> DEFINE requests == [bridge.requests EXCEPT ![k] = NoClient]
  <2>2. bridge' = [bridge EXCEPT !.requests = requests, !.dirty = on]
    BY <1>8, <2>1
  <2>3. /\ requests \in [Cookies -> Clients \cup {NoClient}] /\ requests[k] = NoClient
        /\ \A j \in Cookies : j # k => requests[j] = bridge.requests[j]
    BY <1>2 DEF Bridges
  <2> HIDE DEF requests
  <2>4. /\ bridge' \in Bridges /\ bridge'.requests = requests /\ bridge'.dirty = on
        /\ bridge'.queue = bridge.queue /\ bridge'.current = bridge.current
        /\ bridge'.conn = bridge.conn /\ bridge'.ready = bridge.ready
        /\ bridge'.awaiting = bridge.awaiting /\ bridge'.running = bridge.running
        /\ bridge'.next = bridge.next
    BY <1>2, <2>2, <2>3 DEF Bridges
  <2>5. Lesser(bridge, bridge', client, client, hd)
    <3>1. \A j \in Live(requests) : j # k /\ j \in Cookies /\ requests[j] = bridge.requests[j]
                                    /\ j \in Live(bridge.requests)
      BY <2>3 DEF Live
    <3>2. \A d \in Clients : \A j \in hd[d] : j \in Live(requests)
      <4>1. SUFFICES ASSUME NEW d \in Clients, NEW j \in hd[d] PROVE j \in Live(requests)
        OBVIOUS
      <4>2. j \in Cookies /\ bridge.requests[j] = d
        BY <1>4, <1>5 DEF Memory
      <4>3. j # k
        BY <1>4, <1>8, <4>2
      <4> QED
        BY <2>3, <4>2, <4>3, IdleAssumption DEF Live
    <3>3. bridge.current.kind # "add"
      BY <1>2, <1>8, OperationShape DEF Memory
    <3> QED
      BY <1>5, <2>4, <3>1, <3>2, <3>3 DEF Lesser, Memory
  <2>6. PICK b2 : b2 = bridge'
    OBVIOUS
  <2>7. Memory(bridge', client, hd, known, stale, counter)
    <3>1. Lesser(bridge, b2, client, client, hd)
      BY <2>5, <2>6
    <3>2. Memory(b2, client, hd, known, stale, counter)
      BY <1>5, <3>1, MemoryShrinks
    <3> QED
      BY <2>6, <3>2
  <2>8. Told(bridge', hd, links, shell, conns)
    <3>1. Granting(bridge') = Granting(bridge)
      BY <2>4 DEF Granting
    <3> QED
      BY <1>5, <2>1, <2>4, <3>1 DEF Told
  <2>9. Ledger(bridge', calls', answered')
    BY <1>1, <1>6, <1>8, <2>4 DEF Ledger, Answer
  <2>10. Advanced(bridge')
    BY <1>2, <1>8, <2>4 DEF Advanced
  <2> QED
    BY <1>1, <1>2, <1>3, <1>5, <1>8, <2>7, <2>8, <2>9, <2>10 DEF IdleInv, Answer
<1>9. CASE /\ bridge.requests[k] = c /\ bridge.ready
           /\ ~(Cardinality(bridge.queue) >= MaxQueue)
           /\ Enqueue([kind |-> "remove", sender |-> c, cookie |-> k, call |-> calls + 1])
  <2>1. PICK op : op = [kind |-> "remove", sender |-> c, cookie |-> k, call |-> calls + 1]
    OBVIOUS
  <2>2. calls + 1 \in 1..MaxCalls /\ k \in 0..MaxCookie
    BY <1>1, <1>2, IdleAssumption DEF Ledger, Cookies
  <2>3. /\ op \in Operations /\ op.call = calls + 1 /\ op.kind = "remove"
        /\ op.sender = c /\ op.cookie = k
    BY <2>1, <2>2, IdleAssumption DEF Operations
  <2>4. IsFiniteSet(bridge.queue) /\ MaxQueue \in Nat
    BY <1>2, IdleAssumption DEF Memory
  <2>5. Cardinality(bridge.queue) < MaxQueue
    BY <1>9, <2>4, FS_CardinalityType
  <2>6. Queueable(op, hd, known)
    BY <1>1, <1>4, <1>9, <2>3, <2>5 DEF Queueable
  <2>7. /\ Memory(bridge', client, hd, known, stale, counter') /\ Ledger(bridge', calls', answered')
        /\ Wire(hd, links', shell, conns) /\ Told(bridge', hd, links', shell, conns)
        /\ Advanced(bridge') /\ faults' \in 0..MaxFaults
    BY <1>2, <1>5, <1>9, <2>1, <2>6, EnqueueKeeps
  <2> QED
    BY <1>1, <1>3, <2>7 DEF IdleInv
<1> QED
  BY <1>7, <1>8, <1>9 DEF UnInhibit

\* A caller that leaves the bus.
LEMMA LeaveKeeps ==
  ASSUME IdleInv, NEW c \in Clients, Leave(c)
  PROVE  IdleInv'
<1>1. /\ client[c] = "alive"
      /\ client' = [client EXCEPT ![c] = IF bridge.running THEN "dying" ELSE "gone"]
      /\ held' = [held EXCEPT ![c] = {}]
      /\ UNCHANGED <<known, stale, calls, answered, bridge, counter, links, conns, shell, faults>>
  BY DEF Leave
<1>2. /\ Memory(bridge, client, held, known, stale, counter) /\ Ledger(bridge, calls, answered)
      /\ Wire(held, links, shell, conns) /\ Told(bridge, held, links, shell, conns)
      /\ Advanced(bridge) /\ faults \in 0..MaxFaults /\ bridge \in Bridges
      /\ held \in [Clients -> SUBSET Cookies] /\ client \in [Clients -> Statuses]
  BY DEF IdleInv, Memory
<1>3. PICK hd, cl : hd = held' /\ cl = client'
  OBVIOUS
<1>4. /\ hd \in [Clients -> SUBSET Cookies] /\ \A d \in Clients : hd[d] \subseteq held[d]
      /\ hd[c] = {}
  BY <1>1, <1>2, <1>3
<1>5. /\ Memory(bridge, client, hd, known, stale, counter)
      /\ Wire(hd, links, shell, conns) /\ Told(bridge, hd, links, shell, conns)
  BY <1>2, <1>4, HeldShrinks
<1>6. /\ cl \in [Clients -> Statuses] /\ \A d \in Clients : d # c => cl[d] = client[d]
      /\ cl[c] = IF bridge.running THEN "dying" ELSE "gone"
  BY <1>1, <1>2, <1>3 DEF Statuses
<1>7. Memory(bridge, cl, hd, known, stale, counter)
  <2>1. \A k \in Live(bridge.requests) : cl[bridge.requests[k]] # "gone"
    <3>1. CASE bridge.running
      <4>1. \A k \in Live(bridge.requests) :
              bridge.requests[k] \in Clients /\ client[bridge.requests[k]] # "gone"
        BY <1>2 DEF Memory, Live, Bridges
      <4> QED
        BY <1>6, <3>1, <4>1
    <3>2. CASE ~bridge.running
      BY <1>2, <3>2 DEF Memory, Live
    <3> QED
      BY <3>1, <3>2
  <2>2. \A d \in Clients :
         /\ cl[d] # "alive" => hd[d] = {}
         /\ \A k \in hd[d] : k \in known[d] /\ bridge.requests[k] = d
    BY <1>4, <1>5, <1>6 DEF Memory
  <2>3. bridge.current.kind = "add" /\ cl[bridge.current.sender] = "alive" =>
          bridge.requests[bridge.current.cookie] = bridge.current.sender
    <3>1. bridge.current.kind = "add" => bridge.current.sender \in Clients
      BY <1>2, OperationShape DEF Bridges
    <3> QED
      BY <1>2, <1>6, <3>1 DEF Memory
  <2> QED
    BY <1>5, <1>6, <2>1, <2>2, <2>3 DEF Memory
<1> QED
  BY <1>1, <1>2, <1>3, <1>5, <1>7 DEF IdleInv

\* A caller is known to be gone: its requests and its operations go with it.
LEMMA NameOwnerChangedKeeps ==
  ASSUME IdleInv, NEW c \in Clients, NameOwnerChanged(c)
  PROVE  IdleInv'
<1> DEFINE mine == {op.call : op \in {o \in bridge.queue : o.sender = c}}
           requests == [k \in Cookies |-> IF bridge.requests[k] = c THEN NoClient
                                          ELSE bridge.requests[k]]
           queue == {op \in bridge.queue : op.sender # c}
           dirty == bridge.dirty \/ \E k \in Cookies : bridge.requests[k] = c
<1>1. /\ client[c] = "dying" /\ client' = [client EXCEPT ![c] = "gone"]
      /\ Advance(Departed(c), mine)
      /\ UNCHANGED <<held, known, stale, calls, conns, shell>>
  BY DEF NameOwnerChanged
<1>2. /\ Memory(bridge, client, held, known, stale, counter) /\ Ledger(bridge, calls, answered)
      /\ Wire(held, links, shell, conns) /\ Told(bridge, held, links, shell, conns)
      /\ Advanced(bridge) /\ faults \in 0..MaxFaults /\ bridge \in Bridges
      /\ held \in [Clients -> SUBSET Cookies] /\ client \in [Clients -> Statuses]
  BY DEF IdleInv, Memory
<1>3. PICK hd, cl, kn, made, done : hd = held /\ cl = client' /\ kn = known /\ made = calls
                                    /\ done = mine
  OBVIOUS
<1>4. cl \in [Clients -> Statuses] /\ cl[c] = "gone"
      /\ \A d \in Clients : d # c => cl[d] = client[d]
  BY <1>1, <1>2, <1>3 DEF Statuses
<1>5. requests \in [Cookies -> Clients \cup {NoClient}]
      /\ \A k \in Cookies : requests[k] = IF bridge.requests[k] = c THEN NoClient
                                          ELSE bridge.requests[k]
  BY <1>2 DEF Bridges
<1>6. queue \subseteq bridge.queue /\ queue \subseteq Operations
  BY <1>2 DEF Bridges
<1>7. PICK on \in BOOLEAN : on = dirty
  <2>1. dirty \in BOOLEAN
    BY <1>2, Zenon DEF Bridges
  <2> QED
    BY <2>1
<1>8. PICK b : b = Departed(c)
  OBVIOUS
<1>9. b = [bridge EXCEPT !.requests = requests, !.queue = queue, !.dirty = on]
  BY <1>7, <1>8 DEF Departed
<1> HIDE DEF requests, queue
<1>10. /\ b \in Bridges /\ b.requests = requests /\ b.queue = queue /\ b.dirty = on
       /\ b.current = bridge.current /\ b.conn = bridge.conn /\ b.ready = bridge.ready
       /\ b.awaiting = bridge.awaiting /\ b.running = bridge.running /\ b.next = bridge.next
  BY <1>2, <1>5, <1>6, <1>9 DEF Bridges
<1>11. c # NoClient
  BY IdleAssumption
<1>12. \A k \in Live(requests) : /\ k \in Cookies /\ requests[k] = bridge.requests[k]
                                 /\ k \in Live(bridge.requests) /\ bridge.requests[k] # c
                                 /\ bridge.requests[k] \in Clients
  BY <1>2, <1>5 DEF Live, Bridges
<1>13. Lesser(bridge, b, client, cl, hd)
  <2>1. \A d \in Clients : \A k \in hd[d] : k \in Live(requests)
    <3>1. SUFFICES ASSUME NEW d \in Clients, NEW k \in hd[d] PROVE k \in Live(requests)
      OBVIOUS
    <3>2. d # c /\ bridge.requests[k] = d /\ k \in Cookies
      BY <1>1, <1>2, <1>3 DEF Memory
    <3> QED
      BY <1>5, <3>2, IdleAssumption DEF Live
  <2>2. \A k \in Live(requests) : cl[requests[k]] # "gone"
    BY <1>2, <1>4, <1>12 DEF Memory
  <2>3. bridge.current.kind = "add" /\ client[bridge.current.sender] = "alive" =>
          requests[bridge.current.cookie] = bridge.requests[bridge.current.cookie]
    <3>1. SUFFICES ASSUME bridge.current.kind = "add", client[bridge.current.sender] = "alive"
          PROVE  requests[bridge.current.cookie] = bridge.requests[bridge.current.cookie]
      OBVIOUS
    <3>2. bridge.current.cookie \in 1..counter /\ counter \in 0..MaxCookie
          /\ bridge.requests[bridge.current.cookie] = bridge.current.sender
      BY <1>2, <3>1 DEF Memory
    <3>3. bridge.current.cookie \in Cookies
      BY <3>2, IdleAssumption DEF Cookies
    <3> QED
      BY <1>1, <1>5, <3>1, <3>2, <3>3
  <2>4. \A d \in Clients : cl[d] = "alive" <=> client[d] = "alive"
    BY <1>1, <1>4
  <2>5. bridge.conn = 0 => bridge.awaiting = 0 /\ ~bridge.ready
    BY <1>2 DEF Memory
  <2> QED
    BY <1>4, <1>6, <1>10, <1>12, <2>1, <2>2, <2>3, <2>4, <2>5 DEF Lesser
<1>14. Memory(b, cl, hd, kn, stale, counter)
  <2>1. Memory(bridge, client, hd, kn, stale, counter)
    BY <1>2, <1>3
  <2> QED
    BY <1>13, <2>1, MemoryShrinks
<1>15. Ledger(b, made, answered \cup done)
  <2>1. /\ calls \in 0..MaxCalls /\ answered \subseteq 1..calls
        /\ (1..calls) \ answered = {op.call : op \in bridge.queue \cup {bridge.current}} \ {0}
        /\ \A op \in bridge.queue : op.call # bridge.current.call
             /\ \A o \in bridge.queue : o.call = op.call => o = op
    BY <1>2 DEF Ledger
  <2>2. \A op \in bridge.queue : op.call # 0
    BY <1>2, OperationShape DEF Bridges
  <2>3. mine \subseteq (1..calls) \ answered
    BY <2>1, <2>2
  <2>4. (1..calls) \ (answered \cup mine)
          = {op.call : op \in queue \cup {bridge.current}} \ {0}
    BY <2>1, <2>2 DEF queue
  <2>5. \A op \in queue : op.call # bridge.current.call
             /\ \A o \in queue : o.call = op.call => o = op
    BY <1>6, <2>1
  <2> HIDE DEF mine
  <2> QED
    BY <1>3, <1>10, <2>1, <2>3, <2>4, <2>5 DEF Ledger
<1>16. Told(b, hd, links, shell, conns)
  <2>1. Granting(b) = Granting(bridge)
    BY <1>10 DEF Granting
  <2>2. on \/ (bridge.dirty = FALSE /\ requests = bridge.requests)
    <3>1. CASE \E k \in Cookies : bridge.requests[k] = c
      BY <1>7, <3>1
    <3>2. CASE ~\E k \in Cookies : bridge.requests[k] = c
      <4>1. requests = bridge.requests
        BY <1>2, <1>5, <3>2 DEF Bridges
      <4>2. bridge.dirty \in BOOLEAN
        BY <1>2 DEF Bridges
      <4>3. on = bridge.dirty
        BY <1>7, <3>2, <4>2, Zenon
      <4> QED
        BY <4>1, <4>2, <4>3
    <3> QED
      BY <3>1, <3>2
  <2> QED
    BY <1>2, <1>3, <1>10, <2>1, <2>2 DEF Told
<1>17. /\ Memory(bridge', cl, hd, kn, stale, counter') /\ Ledger(bridge', made, answered')
       /\ Wire(hd, links', shell, conns) /\ Told(bridge', hd, links', shell, conns)
       /\ Advanced(bridge') /\ faults' \in 0..MaxFaults
  <2>1. \A d \in Clients : cl[d] = "alive" <=> client[d] = "alive"
    BY <1>1, <1>4
  <2>2. Wire(hd, links, shell, conns) /\ Advance(b, done) /\ faults \in 0..MaxFaults
    BY <1>1, <1>2, <1>3, <1>8
  <2>3. b.awaiting = 0 => b.current = NoOp
    BY <1>2, <1>10 DEF Advanced
  <2> QED
    BY <1>14, <1>15, <1>16, <2>1, <2>2, <2>3, AdvanceKeeps
<1> QED
  BY <1>1, <1>3, <1>17 DEF IdleInv

-----------------------------------------------------------------------------
(* The socket, at the bridge's end. *)

\* A connection is made, and told what there is.
LEMMA ConnectKeeps ==
  ASSUME IdleInv, Connect
  PROVE  IdleInv'
<1>1. /\ bridge.running /\ bridge.conn = 0 /\ conns < MaxConns /\ conns' = conns + 1
      /\ Snapshot([bridge EXCEPT !.ready = FALSE], conns + 1)
      /\ UNCHANGED <<callerVars, answered, counter, shell, faults>>
  BY DEF Connect
<1>2. /\ Memory(bridge, client, held, known, stale, counter) /\ Ledger(bridge, calls, answered)
      /\ Wire(held, links, shell, conns) /\ faults \in 0..MaxFaults /\ bridge \in Bridges
      /\ held \in [Clients -> SUBSET Cookies] /\ conns \in 0..MaxConns /\ links \in Links
  BY DEF IdleInv, Memory, Wire
<1>3. /\ bridge.ready = FALSE /\ bridge.current = NoOp
  BY <1>1, <1>2 DEF Memory, Bridges
<1>4. [bridge EXCEPT !.ready = FALSE] = bridge
  BY <1>2, <1>3 DEF Bridges
<1>5. PICK s : s = conns + 1
  OBVIOUS
<1>6. s \in 1..MaxConns /\ s \in 0..MaxConns /\ s # 0 /\ shell.socket # s
  BY <1>1, <1>2, <1>5, IdleAssumption DEF Wire
<1>7. Snapshot(bridge, s)
  BY <1>1, <1>4, <1>5
<1>8. /\ Granting(bridge) = {} /\ Holding(held) \subseteq Live(bridge.requests)
      /\ Count(bridge.requests) <= MaxRequests
  <2>1. Granting(bridge) = {} /\ Restorable(bridge) = Live(bridge.requests)
    BY <1>3, OperationShape DEF Granting, Restorable
  <2>2. Holding(held) \subseteq Live(bridge.requests)
    BY <1>2, IdleAssumption DEF Memory, Holding, Live
  <2> QED
    BY <1>2, <2>1, <2>2 DEF Memory, Count
<1>9. /\ Wire(held, links', shell, s) /\ Told(bridge', held, links', shell, s)
  BY <1>2, <1>5, <1>6, <1>7, <1>8, SnapshotTells
<1>10. /\ bridge' \in Bridges /\ bridge'.requests = bridge.requests /\ bridge'.queue = bridge.queue
       /\ bridge'.current = bridge.current /\ bridge'.ready = bridge.ready
       /\ bridge'.running = bridge.running
       /\ bridge'.next = bridge.next /\ bridge'.conn = s /\ bridge'.awaiting # 0
  BY <1>2, <1>6, <1>7, Snapshots
<1>11. Memory(bridge', client, held, known, stale, counter)
  BY <1>1, <1>2, <1>6, <1>10, SameMemory
<1>12. Ledger(bridge', calls, answered)
  BY <1>2, <1>10 DEF Ledger
<1>13. Advanced(bridge')
  BY <1>10 DEF Advanced
<1> QED
  BY <1>1, <1>2, <1>5, <1>9, <1>11, <1>12, <1>13 DEF IdleInv, callerVars

\* A connection is given up: what was not acknowledged is undone, every call
\* has its answer.
LEMMA DisconnectKeeps ==
  ASSUME IdleInv, Disconnect, UNCHANGED <<callerVars, conns, shell>>
  PROVE  IdleInv'
<1>1. /\ bridge' = [bridge EXCEPT !.conn = 0, !.ready = FALSE, !.awaiting = 0,
                                  !.requests = RolledBack(bridge.current),
                                  !.current = NoOp, !.queue = {}, !.dirty = FALSE]
      /\ answered' = answered \cup ({op.call : op \in Unacknowledged} \ {0})
      /\ UNCHANGED <<links, counter, faults, client, held, known, stale, calls, conns, shell>>
  BY DEF Disconnect, callerVars
<1>2. /\ Memory(bridge, client, held, known, stale, counter) /\ Ledger(bridge, calls, answered)
      /\ Wire(held, links, shell, conns) /\ faults \in 0..MaxFaults /\ bridge \in Bridges
      /\ held \in [Clients -> SUBSET Cookies] /\ conns \in 0..MaxConns /\ links \in Links
      /\ bridge.current \in Operations \cup {NoOp}
      /\ bridge.requests \in [Cookies -> Clients \cup {NoClient}]
  BY DEF IdleInv, Memory, Wire, Bridges
<1>3. PICK requests : requests = RolledBack(bridge.current)
  OBVIOUS
<1>4. /\ requests \in [Cookies -> Clients \cup {NoClient}]
      /\ \A k \in Live(requests) : k \in Restorable(bridge) /\ client[requests[k]] # "gone"
      /\ \A k \in stale : requests[k] = NoClient
      /\ \A c \in Clients : \A k \in held[c] : requests[k] = c
      /\ ~bridge.running => \A k \in Cookies : requests[k] = NoClient
  <2>1. CASE bridge.current.kind = "add"
    <3>1. requests = [bridge.requests EXCEPT ![bridge.current.cookie] = NoClient]
      BY <1>3, <2>1 DEF RolledBack
    <3>2. \A c \in Clients : bridge.current.cookie \notin known[c]
      BY <1>2, <2>1 DEF Memory
    <3>3. requests \in [Cookies -> Clients \cup {NoClient}]
      BY <1>2, <3>1
    <3>4. \A k \in Live(requests) : k \in Live(bridge.requests) /\ requests[k] = bridge.requests[k]
      BY <1>2, <3>1 DEF Live
    <3>5. \A c \in Clients : \A k \in held[c] : requests[k] = c
      BY <1>2, <3>1, <3>2 DEF Memory
    <3>6. stale \subseteq Cookies
      BY <1>2, IdleAssumption DEF Memory, Cookies
    <3>7. \A k \in stale : requests[k] = NoClient
      BY <1>2, <3>1, <3>6 DEF Memory
    <3>8. ~bridge.running => \A k \in Cookies : requests[k] = NoClient
      BY <1>2, <3>1 DEF Memory
    <3> QED
      BY <1>2, <3>3, <3>4, <3>5, <3>7, <3>8 DEF Restorable, Memory
  <2>2. CASE bridge.current.kind = "remove" /\ client[bridge.current.sender] = "alive"
    <3>1. requests = [bridge.requests EXCEPT ![bridge.current.cookie] = bridge.current.sender]
      BY <1>3, <2>2 DEF RolledBack, HasOwner
    <3>2. bridge.current.cookie \in Cookies \ stale
          /\ bridge.requests[bridge.current.cookie] = NoClient /\ bridge.running
      BY <1>2, <2>2, OperationShape DEF Memory
    <3>3. bridge.current.sender \in Clients
      BY <1>2, <2>2, OperationShape
    <3>4. requests \in [Cookies -> Clients \cup {NoClient}]
      BY <1>2, <3>1, <3>3
    <3>5. \A k \in Cookies : k # bridge.current.cookie => requests[k] = bridge.requests[k]
      BY <1>2, <3>1
    <3>6. requests[bridge.current.cookie] = bridge.current.sender
      BY <1>2, <3>1, <3>2
    <3>7. \A k \in Live(requests) : k \in Restorable(bridge) /\ client[requests[k]] # "gone"
      BY <1>2, <2>2, <3>2, <3>5, <3>6 DEF Live, Restorable, Memory
    <3>8. \A c \in Clients : \A k \in held[c] : requests[k] = c
      BY <1>2, <3>2, <3>5, IdleAssumption DEF Memory
    <3>9. stale \subseteq Cookies
      BY <1>2, IdleAssumption DEF Memory, Cookies
    <3>10. \A k \in stale : requests[k] = NoClient
      BY <1>2, <3>2, <3>5, <3>9 DEF Memory
    <3> QED
      BY <3>2, <3>4, <3>7, <3>8, <3>10
  <2>3. CASE ~(bridge.current.kind = "add")
             /\ ~(bridge.current.kind = "remove" /\ client[bridge.current.sender] = "alive")
    <3>1. requests = bridge.requests
      BY <1>3, <2>3 DEF RolledBack, HasOwner
    <3> QED
      BY <1>2, <3>1 DEF Memory, Restorable
  <2> QED
    BY <2>1, <2>2, <2>3
<1>5. PICK off \in BOOLEAN : off = FALSE
  BY Zenon
<1>6. bridge' = [bridge EXCEPT !.conn = 0, !.ready = off, !.awaiting = 0, !.requests = requests,
                               !.current = NoOp, !.queue = {}, !.dirty = off]
  BY <1>1, <1>3, <1>5
<1>7. /\ bridge' \in Bridges /\ bridge'.requests = requests /\ bridge'.queue = {}
      /\ bridge'.current = NoOp /\ bridge'.conn = 0 /\ bridge'.ready = off
      /\ bridge'.awaiting = 0 /\ bridge'.running = bridge.running /\ bridge'.next = bridge.next
  <2>0. PICK none \in 0..MaxConns : none = 0
    BY IdleAssumption
  <2>1. PICK b1 \in Bridges : b1 = [bridge EXCEPT !.conn = 0, !.ready = off, !.awaiting = 0]
    <3>1. [bridge EXCEPT !.conn = none, !.ready = off, !.awaiting = none] \in Bridges
      BY <1>2, <2>0 DEF Bridges
    <3> QED
      BY <2>0, <3>1
  <2>2. b1.conn = 0 /\ b1.ready = off /\ b1.awaiting = 0 /\ b1.running = bridge.running
        /\ b1.next = bridge.next
    BY <1>2, <2>1 DEF Bridges
  <2>3. bridge' = [b1 EXCEPT !.requests = requests, !.current = NoOp, !.queue = {}, !.dirty = off]
    BY <1>2, <1>6, <2>1 DEF Bridges
  <2> QED
    BY <1>4, <2>1, <2>2, <2>3 DEF Bridges
<1>8. Restorable(bridge') = Live(requests)
  BY <1>7, OperationShape DEF Restorable
<1>9. Cardinality(Live(requests)) <= MaxRequests
  <2>1. Live(bridge.requests) \in SUBSET Cookies
    BY DEF Live
  <2>2. IsFiniteSet(Live(bridge.requests))
    BY <2>1, CookiesFinite
  <2>3. IsFiniteSet({bridge.current.cookie}) /\ IsFiniteSet({})
    BY FS_Singleton, FS_EmptySet
  <2>4. IsFiniteSet(Restorable(bridge))
    BY <2>2, <2>3, FS_Union DEF Restorable
  <2>5. Cardinality(Restorable(bridge)) <= MaxRequests /\ MaxRequests \in Nat
    BY <1>2, IdleAssumption DEF Memory
  <2>6. Live(requests) \in SUBSET Restorable(bridge)
    BY <1>4
  <2> QED
    BY <2>4, <2>5, <2>6, Smaller
<1>10. IsFiniteSet({}) /\ Cardinality({}) = 0 /\ MaxQueue \in Nat
  BY FS_EmptySet, IdleAssumption
<1>11. Memory(bridge', client, held, known, stale, counter)
  BY <1>2, <1>4, <1>5, <1>7, <1>8, <1>9, <1>10, OperationShape DEF Memory
<1>12. Ledger(bridge', calls, answered')
  <2>1. /\ calls \in 0..MaxCalls /\ answered \subseteq 1..calls
        /\ (1..calls) \ answered = {op.call : op \in Unacknowledged} \ {0}
    BY <1>2 DEF Ledger, Unacknowledged
  <2>2. answered' = 1..calls
    BY <1>1, <2>1
  <2>3. {op.call : op \in bridge'.queue \cup {bridge'.current}} \ {0} = {}
    BY <1>7, OperationShape
  <2> QED
    BY <1>7, <2>1, <2>2, <2>3 DEF Ledger
<1>13. Told(bridge', held, links, shell, conns)
  BY <1>7 DEF Told
<1>14. Advanced(bridge')
  BY <1>5, <1>7 DEF Advanced
<1> QED
  BY <1>1, <1>2, <1>11, <1>12, <1>13, <1>14 DEF IdleInv

\* When a snapshot is acknowledged nothing else is under way.
LEMMA AcknowledgedAlone ==
  ASSUME IdleInv, bridge.conn # 0, links[bridge.conn].ack # 0
  PROVE  /\ bridge.conn = conns /\ bridge.conn \in 1..MaxConns
         /\ shell.socket = bridge.conn /\ shell.sequence > 0
         /\ shell.count >= Cardinality(Holding(held) \cup Granting(bridge))
         /\ bridge.dirty \/ shell.count = Count(bridge.requests)
         /\ \A e \in 1..MaxConns :
              links[e].state \in {"waiting", "open"} => links[e].frame = NoFrame
<1>1. /\ bridge.conn = conns /\ bridge.conn \in 1..MaxConns /\ conns \in Nat
      /\ shell.socket \in 0..MaxConns /\ MaxConns \in Nat
  <2>1. bridge.conn \in 0..MaxConns /\ conns \in 0..MaxConns /\ bridge.conn \in {0, conns}
        /\ shell.socket \in 0..MaxConns
    BY DEF IdleInv, Memory, Wire, Told, Bridges, Shells
  <2> QED
    BY <2>1, IdleAssumption
<1>2. /\ links[bridge.conn].state = "open" /\ links[bridge.conn].frame = NoFrame
      /\ shell.sequence > 0 /\ shell.socket = bridge.conn
  BY <1>1 DEF IdleInv, Wire
<1>3. /\ shell.count >= Cardinality(Holding(held) \cup Granting(bridge))
      /\ bridge.dirty \/ shell.count = Count(bridge.requests)
  BY DEF IdleInv, Told
<1>4. ASSUME NEW e \in 1..MaxConns, links[e].state \in {"waiting", "open"}
      PROVE  links[e].frame = NoFrame
  <2>1. CASE e > conns
    BY <1>4, <2>1 DEF IdleInv, Wire
  <2>2. CASE e = conns
    BY <1>1, <1>2, <2>2
  <2>3. CASE e < conns
    BY <1>1, <1>2, <1>4, <2>3 DEF IdleInv, Wire
  <2> QED
    BY <1>1, <2>1, <2>2, <2>3
<1> QED
  BY <1>1, <1>2, <1>3, <1>4

\* b is the bridge after an acknowledgement, before advance(): nothing is in
\* progress, and its requests are those the shell shows, or it knows better.
Acknowledged(b) ==
    /\ b \in Bridges /\ b.awaiting = 0 /\ b.current = NoOp /\ b.conn = bridge.conn
    /\ b.queue = bridge.queue /\ b.next = bridge.next /\ b.running = bridge.running
    /\ bridge.ready => b.ready
    /\ b.dirty \/ (b.requests = bridge.requests /\ b.dirty = bridge.dirty)
    /\ \A k \in Live(b.requests) : k \in Cookies /\ b.requests[k] = bridge.requests[k]
    /\ \A c \in Clients : \A k \in held[c] : b.requests[k] = c

\* The operation in progress is over: it was granted, or there is nothing to grant.
LEMMA AcknowledgedKeeps ==
  ASSUME IdleInv, bridge.conn # 0, links[bridge.conn].ack # 0, NEW b, NEW done, NEW hd, NEW kn,
         Acknowledged(b), Advance(b, done), done = {bridge.current.call} \ {0},
         hd \in [Clients -> SUBSET Cookies], kn \in [Clients -> SUBSET Cookies],
         \/ hd = held /\ kn = known
         \/ /\ bridge.current.kind = "add" /\ client[bridge.current.sender] = "alive"
            /\ b.requests = bridge.requests
            /\ \A c \in Clients : c # bridge.current.sender => hd[c] = held[c] /\ kn[c] = known[c]
            /\ hd[bridge.current.sender] = held[bridge.current.sender] \cup {bridge.current.cookie}
            /\ kn[bridge.current.sender] = known[bridge.current.sender] \cup {bridge.current.cookie}
  PROVE  /\ Memory(bridge', client, hd, kn, stale, counter') /\ Ledger(bridge', calls, answered')
         /\ Wire(hd, links', shell, conns) /\ Told(bridge', hd, links', shell, conns)
         /\ Advanced(bridge') /\ faults' \in 0..MaxFaults
<1>1. /\ Memory(bridge, client, held, known, stale, counter) /\ Ledger(bridge, calls, answered)
      /\ Wire(held, links, shell, conns) /\ Told(bridge, held, links, shell, conns)
      /\ faults \in 0..MaxFaults /\ bridge \in Bridges
      /\ held \in [Clients -> SUBSET Cookies] /\ known \in [Clients -> SUBSET Cookies]
  BY DEF IdleInv, Memory
<1>2. /\ bridge.conn = conns /\ bridge.conn \in 1..MaxConns
      /\ shell.socket = bridge.conn /\ shell.sequence > 0
      /\ shell.count >= Cardinality(Holding(held) \cup Granting(bridge))
      /\ bridge.dirty \/ shell.count = Count(bridge.requests)
      /\ \A e \in 1..MaxConns :
           links[e].state \in {"waiting", "open"} => links[e].frame = NoFrame
  BY AcknowledgedAlone
<1>3. /\ b \in Bridges /\ b.awaiting = 0 /\ b.current = NoOp /\ b.conn = bridge.conn
      /\ b.queue = bridge.queue /\ b.next = bridge.next /\ b.running = bridge.running
      /\ bridge.ready => b.ready
      /\ b.dirty \/ (b.requests = bridge.requests /\ b.dirty = bridge.dirty)
      /\ \A k \in Live(b.requests) : k \in Cookies /\ b.requests[k] = bridge.requests[k]
      /\ \A c \in Clients : \A k \in held[c] : b.requests[k] = c
  BY DEF Acknowledged
<1>4. /\ Granting(b) = {} /\ Restorable(b) = Live(b.requests)
  BY <1>3, OperationShape DEF Granting, Restorable
<1>5. Live(b.requests) \subseteq Live(bridge.requests)
  BY <1>3 DEF Live
<1>6. Memory(b, client, held, known, stale, counter)
  <2>1. /\ \A c \in Clients : client[c] = "alive" <=> client[c] = "alive"
        /\ client \in [Clients -> Statuses]
    BY <1>1 DEF Memory
  <2>2. \A k \in Live(b.requests) :
          b.requests[k] = bridge.requests[k] /\ client[b.requests[k]] # "gone"
    BY <1>1, <1>3, <1>5 DEF Memory
  <2>3. \A c \in Clients : \A k \in held[c] : k \in Live(b.requests)
    BY <1>1, <1>3, IdleAssumption DEF Live
  <2>4. Lesser(bridge, b, client, client, held)
    BY <1>2, <1>3, <2>1, <2>2, <2>3, OperationShape DEF Lesser
  <2> QED
    BY <1>1, <2>4, MemoryShrinks
<1>7. Holding(hd) \subseteq Holding(held) \cup Granting(bridge)
  BY DEF Holding, Granting
<1>8. /\ Cardinality(Holding(hd)) <= shell.count /\ Cardinality(Holding(hd)) \in Nat
  <2>1. IsFiniteSet(Granting(bridge)) /\ IsFiniteSet(Holding(held))
    BY <1>1, HoldingCookies, CookiesFinite, FS_Singleton, FS_EmptySet DEF Granting
  <2>2. IsFiniteSet(Holding(held) \cup Granting(bridge))
    BY <2>1, FS_Union
  <2>3. /\ Cardinality(Holding(hd)) <= Cardinality(Holding(held) \cup Granting(bridge))
        /\ Cardinality(Holding(hd)) \in Nat
        /\ Cardinality(Holding(held) \cup Granting(bridge)) \in Nat
    BY <1>7, <2>2, Smaller
  <2>4. shell.count \in Nat
    BY <1>1 DEF Wire, Shells
  <2> QED
    BY <1>2, <2>3, <2>4
<1>9. Memory(b, client, hd, kn, stale, counter)
  <2>1. CASE hd = held /\ kn = known
    BY <1>6, <2>1
  <2>2. CASE /\ bridge.current.kind = "add" /\ client[bridge.current.sender] = "alive"
             /\ b.requests = bridge.requests
             /\ \A c \in Clients : c # bridge.current.sender =>
                  hd[c] = held[c] /\ kn[c] = known[c]
             /\ hd[bridge.current.sender]
                  = held[bridge.current.sender] \cup {bridge.current.cookie}
             /\ kn[bridge.current.sender]
                  = known[bridge.current.sender] \cup {bridge.current.cookie}
    <3>1. /\ bridge.current.cookie \in 1..counter
          /\ \A c \in Clients : bridge.current.cookie \notin known[c]
          /\ b.requests[bridge.current.cookie] = bridge.current.sender
          /\ bridge.current.sender \in Clients
      <4>1. bridge.current \in Operations \cup {NoOp}
        BY <1>1 DEF Bridges
      <4> QED
        BY <1>1, <2>2, <4>1, OperationShape DEF Memory
    <3>2. \A c \in Clients : kn[c] \subseteq 1..counter
      BY <1>1, <2>2, <3>1 DEF Memory
    <3>3. \A c \in Clients :
            /\ client[c] # "alive" => hd[c] = {}
            /\ \A k \in hd[c] : k \in kn[c] /\ b.requests[k] = c
      BY <1>6, <2>2, <3>1 DEF Memory
    <3>4. \A op \in b.queue : op.kind = "remove" => op.cookie \in kn[op.sender] \ hd[op.sender]
      <4>1. SUFFICES ASSUME NEW op \in b.queue, op.kind = "remove"
            PROVE  op.cookie \in kn[op.sender] \ hd[op.sender]
        OBVIOUS
      <4>2. op.sender \in Clients
        BY <1>3, OperationShape DEF Bridges
      <4>3. op.cookie \in known[op.sender] \ held[op.sender]
        BY <1>6, <4>1 DEF Memory
      <4>4. op.cookie # bridge.current.cookie
        BY <3>1, <4>2, <4>3
      <4> QED
        BY <2>2, <4>2, <4>3, <4>4
    <3> QED
      BY <1>3, <1>6, <3>2, <3>3, <3>4, OperationShape DEF Memory
  <2> QED
    BY <2>1, <2>2
<1>10. Wire(hd, links, shell, conns)
  BY <1>1, <1>2, <1>8 DEF Wire
<1>11. Told(b, hd, links, shell, conns)
  BY <1>2, <1>3, <1>4, <1>8 DEF Told
<1>12. Ledger(b, calls, answered \cup done)
  <2>1. /\ calls \in 0..MaxCalls /\ answered \subseteq 1..calls
        /\ (1..calls) \ answered = {op.call : op \in bridge.queue \cup {bridge.current}} \ {0}
        /\ \A op \in bridge.queue : op.call # bridge.current.call
             /\ \A o \in bridge.queue : o.call = op.call => o = op
    BY <1>1 DEF Ledger
  <2>2. \A op \in bridge.queue : op.call # 0
    BY <1>1, OperationShape DEF Bridges
  <2>3. (1..calls) \ (answered \cup done) = {op.call : op \in bridge.queue}
    BY <2>1, <2>2
  <2>4. {op.call : op \in b.queue \cup {b.current}} \ {0} = {op.call : op \in bridge.queue}
    BY <1>3, <2>2, OperationShape
  <2>5. answered \cup done \subseteq 1..calls
    <3>1. \A i \in done : i \in (1..calls) \ answered
      BY <2>1
    <3> QED
      BY <2>1, <3>1
  <2>6. \A op \in b.queue : op.call # b.current.call
             /\ \A o \in b.queue : o.call = op.call => o = op
    BY <1>3, <2>1, <2>2, OperationShape
  <2> QED
    BY <2>1, <2>3, <2>4, <2>5, <2>6 DEF Ledger
<1>13. PICK cl, made : cl = client /\ made = calls
  OBVIOUS
<1>14. /\ Memory(bridge', cl, hd, kn, stale, counter') /\ Ledger(bridge', made, answered')
       /\ Wire(hd, links', shell, conns) /\ Told(bridge', hd, links', shell, conns)
       /\ Advanced(bridge') /\ faults' \in 0..MaxFaults
  <2>1. \A c \in Clients : cl[c] = "alive" <=> client[c] = "alive"
    BY <1>13
  <2>2. /\ Memory(b, cl, hd, kn, stale, counter) /\ Ledger(b, made, answered \cup done)
        /\ (b.awaiting = 0 => b.current = NoOp)
    BY <1>3, <1>9, <1>12, <1>13
  <2> QED
    BY <1>1, <1>10, <1>11, <2>1, <2>2, AdvanceKeeps
<1> QED
  BY <1>13, <1>14

\* An acknowledgement answers the operation in progress.
LEMMA AcknowledgeKeeps ==
  ASSUME IdleInv, Acknowledge
  PROVE  IdleInv'
<1> DEFINE op == bridge.current
           b0 == [bridge EXCEPT !.awaiting = 0, !.current = NoOp]
           lost == op # NoOp /\ ~HasOwner(op.sender)
<1>1. bridge.conn # 0 /\ links[bridge.conn].ack # 0 /\ UNCHANGED <<conns, shell>>
  BY DEF Acknowledge
<1>2. CASE links[bridge.conn].ack # bridge.awaiting
  BY <1>1, <1>2, DisconnectKeeps DEF Acknowledge
<1>3. CASE links[bridge.conn].ack = bridge.awaiting
  <2>1. /\ bridge \in Bridges /\ op \in Operations \cup {NoOp}
        /\ held \in [Clients -> SUBSET Cookies] /\ known \in [Clients -> SUBSET Cookies]
        /\ \A c \in Clients : \A k \in held[c] : k \in known[c] /\ bridge.requests[k] = c
        /\ bridge.requests \in [Cookies -> Clients \cup {NoClient}] /\ bridge.dirty \in BOOLEAN
        /\ ~bridge.ready => op = NoOp
    BY DEF IdleInv, Memory, Bridges
  <2>2. UNCHANGED <<client, stale, calls>>
    BY <1>3 DEF Acknowledge
  <2>3. PICK none \in Nat : none = 0
    OBVIOUS
  <2>4. b0 = [bridge EXCEPT !.awaiting = none, !.current = NoOp]
    BY <2>3
  <2>5. /\ b0 \in Bridges /\ b0.awaiting = 0 /\ b0.current = NoOp /\ b0.conn = bridge.conn
        /\ b0.queue = bridge.queue /\ b0.next = bridge.next /\ b0.running = bridge.running
        /\ b0.ready = bridge.ready /\ b0.requests = bridge.requests /\ b0.dirty = bridge.dirty
    BY <2>1, <2>3 DEF Bridges
  <2>6. \A k \in Live(bridge.requests) : k \in Cookies
    BY DEF Live
  <2>7. PICK hd, kn : hd = held' /\ kn = known'
    OBVIOUS
  <2>8. PICK done : done = {op.call} \ {0}
    OBVIOUS
  <2>9. op # NoOp => op \in Operations /\ op.call # 0 /\ done = {op.call}
    BY <2>1, <2>8, OperationShape
  <2>10. CASE op = NoOp
    <3>1. UNCHANGED <<held, known>> /\ Advance([b0 EXCEPT !.ready = TRUE], {})
      BY <1>3, <2>10, OperationShape DEF Acknowledge
    <3>2. PICK on \in BOOLEAN : on = TRUE
      BY Zenon
    <3>3. PICK b : b = [b0 EXCEPT !.ready = on]
      OBVIOUS
    <3>4. Advance(b, done)
      BY <2>8, <2>10, <3>1, <3>2, <3>3, OperationShape
    <3> HIDE DEF b0
    <3>5. Acknowledged(b)
      <4>1. /\ b \in Bridges /\ b.awaiting = 0 /\ b.current = NoOp /\ b.conn = bridge.conn
            /\ b.queue = bridge.queue /\ b.next = bridge.next /\ b.running = bridge.running
            /\ b.ready = on /\ b.requests = bridge.requests /\ b.dirty = bridge.dirty
        BY <2>5, <3>3 DEF Bridges
      <4> QED
        BY <2>1, <2>6, <3>2, <4>1 DEF Acknowledged
    <3>6. hd = held /\ kn = known
      BY <2>7, <3>1
    <3>7. /\ Memory(bridge', client, hd, kn, stale, counter') /\ Ledger(bridge', calls, answered')
          /\ Wire(hd, links', shell, conns) /\ Told(bridge', hd, links', shell, conns)
          /\ Advanced(bridge') /\ faults' \in 0..MaxFaults
      BY <1>1, <2>1, <2>8, <3>4, <3>5, <3>6, AcknowledgedKeeps
    <3> QED
      BY <1>1, <2>2, <2>7, <3>7 DEF IdleInv
  <2>11. CASE lost /\ op.kind = "add"
    <3>1. /\ UNCHANGED <<held, known>>
          /\ Advance([b0 EXCEPT !.requests[op.cookie] = NoClient, !.dirty = TRUE], {op.call})
      BY <1>3, <2>11 DEF Acknowledge
    <3>2. PICK on \in BOOLEAN : on = TRUE
      BY Zenon
    <3>3. PICK requests : requests = [bridge.requests EXCEPT ![op.cookie] = NoClient]
      OBVIOUS
    <3>4. PICK b : b = [b0 EXCEPT !.requests = requests, !.dirty = on]
      OBVIOUS
    <3>5. [b0 EXCEPT !.requests[op.cookie] = NoClient, !.dirty = TRUE] = b
      BY <2>1, <2>4, <3>2, <3>3, <3>4 DEF Bridges
    <3>6. Advance(b, done)
      BY <2>9, <2>11, <3>1, <3>5
    <3> HIDE DEF b0
    <3>7. Acknowledged(b)
      <4>1. /\ requests \in [Cookies -> Clients \cup {NoClient}]
            /\ \A k \in Live(requests) : k \in Cookies /\ requests[k] = bridge.requests[k]
        BY <2>1, <3>3 DEF Live
      <4>2. /\ b \in Bridges /\ b.awaiting = 0 /\ b.current = NoOp /\ b.conn = bridge.conn
            /\ b.queue = bridge.queue /\ b.next = bridge.next /\ b.running = bridge.running
            /\ b.ready = bridge.ready /\ b.requests = requests /\ b.dirty = on
        BY <2>5, <3>4, <4>1 DEF Bridges
      <4>3. \A c \in Clients : \A k \in held[c] : requests[k] = c
        <5>1. \A c \in Clients : op.cookie \notin known[c]
          BY <2>11 DEF IdleInv, Memory
        <5> QED
          BY <2>1, <3>3, <5>1
      <4> QED
        BY <2>1, <3>2, <4>1, <4>2, <4>3 DEF Acknowledged
    <3>8. hd = held /\ kn = known
      BY <2>7, <3>1
    <3>9. /\ Memory(bridge', client, hd, kn, stale, counter') /\ Ledger(bridge', calls, answered')
          /\ Wire(hd, links', shell, conns) /\ Told(bridge', hd, links', shell, conns)
          /\ Advanced(bridge') /\ faults' \in 0..MaxFaults
      BY <1>1, <2>1, <2>8, <3>6, <3>7, <3>8, AcknowledgedKeeps
    <3> QED
      BY <1>1, <2>2, <2>7, <3>9 DEF IdleInv
  <2>12. CASE op # NoOp /\ ~(lost /\ op.kind = "add")
    <3>1. Advance(b0, {op.call})
      BY <1>3, <2>12 DEF Acknowledge
    <3>2. PICK b : b = b0
      OBVIOUS
    <3>3. Advance(b, done)
      BY <2>9, <2>12, <3>1, <3>2
    <3> HIDE DEF b0
    <3>4. Acknowledged(b)
      BY <2>1, <2>5, <2>6, <3>2 DEF Acknowledged
    <3>5. CASE op.kind = "add" /\ ~lost
      <4>1. /\ held' = [held EXCEPT ![op.sender] = @ \cup {op.cookie}]
            /\ known' = [known EXCEPT ![op.sender] = @ \cup {op.cookie}]
        BY <1>3, <3>5 DEF Acknowledge
      <4>2. op.sender \in Clients /\ client[op.sender] = "alive"
        BY <2>9, <2>12, <3>5, OperationShape DEF HasOwner
      <4>3. op.cookie \in Cookies
        <5>1. op.cookie \in 1..counter /\ counter \in 0..MaxCookie
          BY <3>5 DEF IdleInv, Memory
        <5> QED
          BY <5>1, IdleAssumption DEF Cookies
      <4>4. /\ hd \in [Clients -> SUBSET Cookies] /\ kn \in [Clients -> SUBSET Cookies]
            /\ \A c \in Clients : c # op.sender => hd[c] = held[c] /\ kn[c] = known[c]
            /\ hd[op.sender] = held[op.sender] \cup {op.cookie}
            /\ kn[op.sender] = known[op.sender] \cup {op.cookie}
        BY <2>1, <2>7, <4>1, <4>2, <4>3
      <4>5. b.requests = bridge.requests
        BY <2>5, <3>2
      <4>6. /\ Memory(bridge', client, hd, kn, stale, counter')
            /\ Ledger(bridge', calls, answered')
            /\ Wire(hd, links', shell, conns) /\ Told(bridge', hd, links', shell, conns)
            /\ Advanced(bridge') /\ faults' \in 0..MaxFaults
        BY <1>1, <2>8, <3>3, <3>4, <3>5, <4>2, <4>4, <4>5, AcknowledgedKeeps
      <4> QED
        BY <1>1, <2>2, <2>7, <4>6 DEF IdleInv
    <3>6. CASE ~(op.kind = "add" /\ ~lost)
      <4>1. hd = held /\ kn = known
        BY <1>3, <2>7, <3>6 DEF Acknowledge
      <4>2. /\ Memory(bridge', client, hd, kn, stale, counter')
            /\ Ledger(bridge', calls, answered')
            /\ Wire(hd, links', shell, conns) /\ Told(bridge', hd, links', shell, conns)
            /\ Advanced(bridge') /\ faults' \in 0..MaxFaults
        BY <1>1, <2>1, <2>8, <3>3, <3>4, <4>1, AcknowledgedKeeps
      <4> QED
        BY <1>1, <2>2, <2>7, <4>2 DEF IdleInv
    <3> QED
      BY <3>5, <3>6
  <2> QED
    BY <2>10, <2>11, <2>12
<1> QED
  BY <1>2, <1>3

-----------------------------------------------------------------------------
(* The bridge dies and comes back. *)

\* Nothing is held, and nothing is a request, any longer.
LEMMA BridgeDiesKeeps ==
  ASSUME IdleInv, BridgeDies
  PROVE  IdleInv'
<1>1. /\ bridge' = Blank(FALSE) /\ answered' = 1..calls
      /\ client' = [c \in Clients |-> IF client[c] = "dying" THEN "gone" ELSE client[c]]
      /\ held' = [c \in Clients |-> {}]
      /\ stale' = stale \cup UNION {known[c] : c \in Clients}
      /\ UNCHANGED <<known, calls, counter, links, conns, shell>>
      /\ faults > 0 /\ faults' = faults - 1
  BY DEF BridgeDies, Fault
<1>2. /\ Memory(bridge, client, held, known, stale, counter) /\ Ledger(bridge, calls, answered)
      /\ Wire(held, links, shell, conns) /\ faults \in 0..MaxFaults
      /\ held \in [Clients -> SUBSET Cookies] /\ client \in [Clients -> Statuses]
      /\ counter \in 0..MaxCookie
  BY DEF IdleInv, Memory
<1>3. /\ bridge' \in Bridges /\ bridge'.running = FALSE /\ bridge'.conn = 0
      /\ bridge'.ready = FALSE /\ bridge'.awaiting = 0 /\ bridge'.current = NoOp
      /\ bridge'.queue = {} /\ bridge'.next = counter + 1
      /\ \A k \in Cookies : bridge'.requests[k] = NoClient
  BY <1>1, <1>2, IdleAssumption DEF Blank, NextCookie, Bridges
<1>4. PICK hd, cl, st : hd = held' /\ cl = client' /\ st = stale'
  OBVIOUS
<1>5. /\ hd \in [Clients -> SUBSET Cookies] /\ \A c \in Clients : hd[c] = {}
      /\ cl \in [Clients -> Statuses]
  BY <1>1, <1>2, <1>4 DEF Statuses
<1>6. Wire(hd, links, shell, conns)
  BY <1>2, <1>5, HeldShrinks
<1>7. st \subseteq 1..counter
  <2>1. stale \subseteq 1..counter /\ \A c \in Clients : known[c] \subseteq 1..counter
    BY <1>2 DEF Memory
  <2>2. \A k \in st : k \in stale \/ \E c \in Clients : k \in known[c]
    BY <1>1, <1>4
  <2> QED
    BY <2>1, <2>2
<1>8. Live(bridge'.requests) = {} /\ Restorable(bridge') = {}
  BY <1>3, OperationShape DEF Live, Restorable
<1>9. IsFiniteSet({}) /\ Cardinality({}) = 0 /\ MaxQueue \in Nat /\ MaxRequests \in Nat
  BY FS_EmptySet, IdleAssumption
<1>10. st \subseteq Cookies
  BY <1>2, <1>7, IdleAssumption DEF Cookies
<1>11. Memory(bridge', cl, hd, known, st, counter)
  <2>1. /\ known \in [Clients -> SUBSET Cookies] /\ \A c \in Clients : known[c] \subseteq 1..counter
    BY <1>2 DEF Memory
  <2> QED
    BY <1>2, <1>3, <1>5, <1>7, <1>8, <1>9, <1>10, <2>1, OperationShape DEF Memory
<1>12. Ledger(bridge', calls, answered')
  <2>1. {op.call : op \in bridge'.queue \cup {bridge'.current}} \ {0} = {}
    BY <1>3, OperationShape
  <2> QED
    BY <1>1, <1>2, <1>3, <2>1 DEF Ledger
<1>13. Told(bridge', hd, links, shell, conns) /\ Advanced(bridge')
  BY <1>3 DEF Told, Advanced
<1>14. faults' \in 0..MaxFaults
  BY <1>1, <1>2, IdleAssumption
<1> QED
  BY <1>1, <1>4, <1>6, <1>11, <1>12, <1>13, <1>14 DEF IdleInv

\* A new bridge knows the counter and nothing else.
LEMMA BridgeStartsKeeps ==
  ASSUME IdleInv, BridgeStarts
  PROVE  IdleInv'
<1>1. /\ ~bridge.running /\ bridge' = Blank(TRUE)
      /\ UNCHANGED <<client, held, known, stale, calls, answered, counter, links, conns, shell,
                     faults>>
  BY DEF BridgeStarts, callerVars
<1>2. /\ Memory(bridge, client, held, known, stale, counter) /\ Ledger(bridge, calls, answered)
      /\ Wire(held, links, shell, conns) /\ faults \in 0..MaxFaults /\ counter \in 0..MaxCookie
  BY DEF IdleInv, Memory
<1>3. /\ bridge.queue = {} /\ bridge.current = NoOp
      /\ \A k \in Cookies : bridge.requests[k] = NoClient
  BY <1>1, <1>2 DEF Memory
<1>4. /\ bridge' \in Bridges /\ bridge'.running = TRUE /\ bridge'.conn = 0
      /\ bridge'.ready = FALSE /\ bridge'.awaiting = 0 /\ bridge'.current = NoOp
      /\ bridge'.queue = {} /\ bridge'.next = counter + 1
      /\ \A k \in Cookies : bridge'.requests[k] = NoClient
  BY <1>1, <1>2, IdleAssumption DEF Blank, NextCookie, Bridges
<1>5. Live(bridge'.requests) = {} /\ Restorable(bridge') = {}
  BY <1>4, OperationShape DEF Live, Restorable
<1>6. IsFiniteSet({}) /\ Cardinality({}) = 0 /\ MaxQueue \in Nat /\ MaxRequests \in Nat
  BY FS_EmptySet, IdleAssumption
<1>7. \A c \in Clients : \A k \in held[c] : k \in known[c] /\ bridge'.requests[k] = c
  <2>1. \A c \in Clients : held[c] = {}
    BY <1>2, <1>3, IdleAssumption DEF Memory
  <2> QED
    BY <2>1
<1>8. \A k \in stale : bridge'.requests[k] = NoClient
  <2>1. stale \subseteq Cookies
    BY <1>2, IdleAssumption DEF Memory, Cookies
  <2> QED
    BY <1>4, <2>1
<1>9. Memory(bridge', client, held, known, stale, counter)
  BY <1>2, <1>4, <1>5, <1>6, <1>7, <1>8, OperationShape DEF Memory
<1>10. Ledger(bridge', calls, answered)
  BY <1>2, <1>3, <1>4 DEF Ledger
<1>11. Told(bridge', held, links, shell, conns) /\ Advanced(bridge')
  BY <1>4 DEF Told, Advanced
<1> QED
  BY <1>1, <1>2, <1>9, <1>10, <1>11 DEF IdleInv

-----------------------------------------------------------------------------
(* The shell's end. *)

\* The shell touches nothing but its own end: what is to be shown of it.
LEMMA ShellFrames ==
  ASSUME IdleInv, ShellFrame, faults' \in 0..MaxFaults,
         Wire(held, links', shell', conns), Told(bridge, held, links', shell', conns)
  PROVE  IdleInv'
BY DEF IdleInv, ShellFrame, callerVars

\* What the shell needs to know of the wire.
LEMMA WireShape ==
  ASSUME IdleInv
  PROVE  /\ links \in Links /\ shell \in Shells /\ conns \in 0..MaxConns /\ MaxConns \in Nat
         /\ bridge.conn \in {0, conns} /\ (bridge.conn # 0 => bridge.conn \in 1..MaxConns)
         /\ \A e \in 1..MaxConns :
              /\ links[e].state \in {"unused", "waiting", "open", "cut"}
              /\ links[e].frame.count \in Nat /\ links[e].frame.sequence \in Nat
              /\ links[e].ack \in Nat
              /\ links[e].state = "unused" <=> e > conns
              /\ links[e].state = "open" <=> shell.socket = e
              /\ e < shell.socket => links[e].state = "cut"
              /\ links[e].ack # 0 =>
                   links[e].state = "open" /\ links[e].frame = NoFrame /\ shell.sequence > 0
              /\ links[e].state = "waiting" => links[e].frame # NoFrame
              /\ links[e].frame.count <= MaxRequests
              /\ links[e].state \in {"waiting", "open"} /\ links[e].frame # NoFrame =>
                   links[e].frame.count >= Cardinality(Holding(held))
<1>1. /\ links \in Links /\ shell \in Shells /\ conns \in 0..MaxConns /\ MaxConns \in Nat
      /\ bridge.conn \in {0, conns} /\ (bridge.conn # 0 => bridge.conn \in 1..MaxConns)
  BY IdleAssumption DEF IdleInv, Wire, Told
<1>2. \A e \in 1..MaxConns :
        /\ links[e].state \in {"unused", "waiting", "open", "cut"}
        /\ links[e].frame.count \in Nat /\ links[e].frame.sequence \in Nat /\ links[e].ack \in Nat
  BY <1>1 DEF Links, Frames
<1> QED
  BY <1>1, <1>2 DEF IdleInv, Wire

\* What a closed end looks like.
LEMMA CutShape ==
  ASSUME IdleInv, NEW e \in 1..MaxConns, NEW closed,
         closed = [links[e] EXCEPT !.state = "cut", !.frame = NoFrame, !.ack = 0]
  PROVE  /\ closed \in [state : {"unused", "waiting", "open", "cut"}, frame : Frames, ack : Nat]
         /\ closed.state = "cut" /\ closed.frame = NoFrame /\ closed.ack = 0
<1>1. links[e] \in [state : {"unused", "waiting", "open", "cut"}, frame : Frames, ack : Nat]
  BY WireShape DEF Links
<1>2. NoFrame \in Frames
  BY DEF NoFrame, Frames
<1>3. PICK none \in Nat : none = 0
  OBVIOUS
<1>4. PICK frame \in Frames : frame = NoFrame
  BY <1>2
<1>5. closed = [links[e] EXCEPT !.state = "cut", !.frame = frame, !.ack = none]
  BY <1>3, <1>4
<1> QED
  BY <1>1, <1>3, <1>4, <1>5

\* A socket that is closed says nothing more.
LEMMA CutKeeps ==
  ASSUME IdleInv, NEW e \in 1..MaxConns, links[e].state = "open",
         links' = Cut(e), shell' = Cleared, ShellFrame, UNCHANGED faults
  PROVE  IdleInv'
<1>1. links' = [links EXCEPT ![e] = [@ EXCEPT !.state = "cut", !.frame = NoFrame, !.ack = 0]]
  BY DEF Cut
<1>2. NoFrame \in Frames /\ NoFrame.count = 0
  BY DEF NoFrame, Frames
<1>3. /\ links' \in Links /\ \A d \in 1..MaxConns : d # e => links'[d] = links[d]
      /\ links'[e].state = "cut" /\ links'[e].frame = NoFrame /\ links'[e].ack = 0
  <2>1. PICK closed : closed = [links[e] EXCEPT !.state = "cut", !.frame = NoFrame, !.ack = 0]
    OBVIOUS
  <2>2. /\ closed \in [state : {"unused", "waiting", "open", "cut"}, frame : Frames, ack : Nat]
        /\ closed.state = "cut" /\ closed.frame = NoFrame /\ closed.ack = 0
    BY <1>2, <2>1, CutShape
  <2>3. links' = [links EXCEPT ![e] = closed]
    BY <1>1, <2>1
  <2> QED
    BY <2>2, <2>3, WireShape DEF Links
<1>4. PICK none \in 0..MaxConns : none = 0
  BY WireShape
<1>5. shell' = [shell EXCEPT !.socket = none, !.sequence = none, !.count = none]
  BY <1>4 DEF Cleared
<1>6. shell' \in Shells /\ shell'.socket = 0 /\ shell'.sequence = 0
  <2>1. none \in Nat /\ shell \in Shells
    BY <1>4, WireShape
  <2> QED
    BY <1>4, <1>5, <2>1 DEF Shells
<1>7. MaxRequests \in Nat
  BY IdleAssumption
<1>8. shell.socket = e
  BY WireShape
<1>9. Wire(held, links', shell', conns)
  BY <1>2, <1>3, <1>6, <1>7, <1>8, WireShape DEF Wire
<1>10. Told(bridge, held, links', shell', conns)
  <2>1. Told(bridge, held, links, shell, conns)
    BY DEF IdleInv
  <2>2. CASE bridge.conn = e
    BY <1>3, <2>2, WireShape DEF Told
  <2>3. CASE bridge.conn # e
    BY <1>3, <1>8, <2>1, <2>3, WireShape DEF Told
  <2> QED
    BY <2>2, <2>3
<1>11. faults' \in 0..MaxFaults
  BY DEF IdleInv
<1> QED
  BY <1>9, <1>10, <1>11, ShellFrames

\* A connection is accepted in the place of the current one.
LEMMA AcceptKeeps ==
  ASSUME IdleInv, NEW e \in 1..MaxConns, Accept(e)
  PROVE  IdleInv'
<1>1. /\ links[e].state = "waiting"
      /\ \A d \in 1..(e - 1) : links[d].state # "waiting"
      /\ links' = [d \in 1..MaxConns |->
                     IF d = e THEN [links[d] EXCEPT !.state = "open"]
                     ELSE IF d = shell.socket THEN Cut(d)[d] ELSE links[d]]
      /\ shell' = [Cleared EXCEPT !.socket = e]
      /\ ShellFrame /\ UNCHANGED faults
  BY DEF Accept
<1>2. NoFrame \in Frames /\ NoFrame.count = 0 /\ MaxRequests \in Nat
  BY IdleAssumption DEF NoFrame, Frames
<1>3. \A d \in 1..MaxConns :
        Cut(d)[d] = [links[d] EXCEPT !.state = "cut", !.frame = NoFrame, !.ack = 0]
  BY WireShape DEF Cut, Links
<1>4. links' \in Links
  <2>1. \A d \in 1..MaxConns : links'[d] \in [state : {"unused", "waiting", "open", "cut"},
                                               frame : Frames, ack : Nat]
    <3>1. SUFFICES ASSUME NEW d \in 1..MaxConns
          PROVE  links'[d] \in [state : {"unused", "waiting", "open", "cut"},
                                frame : Frames, ack : Nat]
      OBVIOUS
    <3>2. links[d] \in [state : {"unused", "waiting", "open", "cut"}, frame : Frames, ack : Nat]
      BY WireShape DEF Links
    <3>3. Cut(d)[d] \in [state : {"unused", "waiting", "open", "cut"}, frame : Frames, ack : Nat]
      BY <1>3, CutShape
    <3>4. [links[d] EXCEPT !.state = "open"]
            \in [state : {"unused", "waiting", "open", "cut"}, frame : Frames, ack : Nat]
      BY <3>2
    <3> QED
      BY <1>1, <3>2, <3>3, <3>4
  <2> QED
    BY <1>1, <2>1 DEF Links
<1>5. /\ links'[e].state = "open" /\ links'[e].frame = links[e].frame /\ links'[e].ack = links[e].ack
      /\ \A d \in 1..MaxConns : d # e /\ d # shell.socket => links'[d] = links[d]
      /\ \A d \in 1..MaxConns : d # e /\ d = shell.socket =>
           links'[d].state = "cut" /\ links'[d].frame = NoFrame /\ links'[d].ack = 0
  <2>1. \A d \in 1..MaxConns : links[d] \in [state : {"unused", "waiting", "open", "cut"},
                                              frame : Frames, ack : Nat]
    BY WireShape DEF Links
  <2>2. links'[e] = [links[e] EXCEPT !.state = "open"]
    BY <1>1
  <2>3. links'[e].state = "open" /\ links'[e].frame = links[e].frame /\ links'[e].ack = links[e].ack
    BY <2>1, <2>2
  <2>4. ASSUME NEW d \in 1..MaxConns, d # e, d # shell.socket PROVE links'[d] = links[d]
    BY <1>1, <2>4
  <2>5. ASSUME NEW d \in 1..MaxConns, d # e, d = shell.socket
        PROVE  links'[d].state = "cut" /\ links'[d].frame = NoFrame /\ links'[d].ack = 0
    <3>1. links'[d] = [links[d] EXCEPT !.state = "cut", !.frame = NoFrame, !.ack = 0]
      BY <1>1, <1>3, <2>5
    <3> QED
      BY <2>1, <3>1
  <2> QED
    BY <2>3, <2>4, <2>5
<1>6. PICK none \in 0..MaxConns : none = 0
  BY WireShape
<1>7. PICK s \in 0..MaxConns : s = e
  BY WireShape
<1>8. shell' = [shell EXCEPT !.socket = s, !.sequence = none, !.count = none]
  BY <1>1, <1>6, <1>7, WireShape DEF Cleared, Shells
<1>9. shell' \in Shells /\ shell'.socket = e /\ shell'.sequence = 0
  BY <1>6, <1>7, <1>8, WireShape DEF Shells
<1>10. shell.socket # e /\ links[e].ack = 0 /\ links[e].frame # NoFrame
  BY <1>1, WireShape
<1>11. ASSUME NEW d \in 1..MaxConns
       PROVE  /\ links'[d].state = "unused" <=> d > conns
              /\ links'[d].state = "open" <=> shell'.socket = d
              /\ d < shell'.socket => links'[d].state = "cut"
              /\ links'[d].ack = 0
              /\ links'[d].state = "waiting" => links'[d].frame # NoFrame
              /\ links'[d].frame.count <= MaxRequests
              /\ links'[d].state \in {"waiting", "open"} /\ links'[d].frame # NoFrame =>
                   links'[d].frame.count >= Cardinality(Holding(held))
  <2>1. CASE d = e
    BY <1>1, <1>5, <1>9, <1>10, <2>1, WireShape
  <2>2. CASE d # e /\ d = shell.socket
    BY <1>2, <1>5, <1>9, <2>2, WireShape
  <2>3. CASE d # e /\ d # shell.socket
    <3>1. links'[d] = links[d] /\ links[d].state # "open" /\ links[d].ack = 0
      BY <1>5, <2>3, WireShape
    <3>2. d < e => links[d].state = "cut"
      <4>1. d < e => d \in 1..(e - 1) /\ d <= conns
        BY <1>1, WireShape
      <4> QED
        BY <1>1, <3>1, <4>1, WireShape
    <3> QED
      BY <1>9, <2>3, <3>1, <3>2, WireShape
  <2> QED
    BY <2>1, <2>2, <2>3
<1>12. Wire(held, links', shell', conns)
  BY <1>4, <1>9, <1>11, WireShape DEF Wire
<1>13. Told(bridge, held, links', shell', conns)
  <2>1. Told(bridge, held, links, shell, conns)
    BY DEF IdleInv
  <2>2. CASE bridge.conn = 0
    BY <2>2 DEF Told
  <2>3. CASE bridge.conn = e
    BY <1>1, <1>5, <1>10, <2>1, <2>3 DEF Told
  <2>4. CASE bridge.conn # 0 /\ bridge.conn # e
    <3>1. bridge.conn \in 1..MaxConns /\ bridge.conn = conns /\ e <= conns
      BY <1>1, <2>4, WireShape
    <3>2. bridge.conn # shell.socket
      BY <1>1, <2>4, <3>1, WireShape
    <3>3. /\ links'[bridge.conn] = links[bridge.conn] /\ links[bridge.conn].state # "open"
          /\ links[bridge.conn].ack = 0
      BY <1>5, <2>4, <3>1, <3>2, WireShape
    <3> QED
      BY <2>1, <3>3 DEF Told
  <2> QED
    BY <2>2, <2>3, <2>4
<1>14. faults' \in 0..MaxFaults
  BY <1>1 DEF IdleInv
<1> QED
  BY <1>1, <1>12, <1>13, <1>14, ShellFrames

\* A frame is applied, or its connection closed.
LEMMA ReceiveKeeps ==
  ASSUME IdleInv, NEW e \in 1..MaxConns, Receive(e)
  PROVE  IdleInv'
<1> DEFINE frame == links[e].frame
<1>1. links[e].state = "open" /\ frame # NoFrame /\ ShellFrame /\ UNCHANGED faults
  BY DEF Receive
<1>2. CASE frame.sequence <= shell.sequence \/ frame.count > MaxRequests
  BY <1>1, <1>2, CutKeeps DEF Receive
<1>3. CASE ~(frame.sequence <= shell.sequence \/ frame.count > MaxRequests)
  <2>1. /\ shell' = [shell EXCEPT !.sequence = frame.sequence, !.count = frame.count]
        /\ links' = [links EXCEPT ![e] = [@ EXCEPT !.frame = NoFrame, !.ack = frame.sequence]]
    BY <1>3 DEF Receive
  <2>2. NoFrame \in Frames /\ NoFrame.count = 0 /\ MaxRequests \in Nat
    BY IdleAssumption DEF NoFrame, Frames
  <2>3. frame.sequence \in Nat /\ frame.count \in Nat
    BY WireShape
  <2>4. /\ shell' \in Shells /\ shell'.socket = shell.socket
        /\ shell'.sequence = frame.sequence /\ shell'.count = frame.count
    BY <2>1, <2>3, WireShape DEF Shells
  <2>5. frame.sequence > 0 /\ shell.socket = e
    BY <1>1, <1>3, <2>3, WireShape DEF Shells
  <2>6. /\ links' \in Links /\ \A d \in 1..MaxConns : d # e => links'[d] = links[d]
        /\ links'[e].state = "open" /\ links'[e].frame = NoFrame /\ links'[e].ack = frame.sequence
    BY <1>1, <2>1, <2>2, <2>3, WireShape DEF Links
  <2>7. frame.count >= Cardinality(Holding(held))
    BY <1>1, WireShape
  <2>8. \A d \in 1..MaxConns : d # e => links[d].ack = 0
    BY <2>5, WireShape
  <2>9. Wire(held, links', shell', conns)
    BY <1>1, <2>2, <2>3, <2>4, <2>5, <2>6, <2>7, <2>8, WireShape DEF Wire
  <2>10. Told(bridge, held, links', shell', conns)
    <3>1. Told(bridge, held, links, shell, conns)
      BY DEF IdleInv
    <3>2. CASE bridge.conn = e
      BY <1>1, <2>4, <2>6, <3>1, <3>2 DEF Told
    <3>3. CASE bridge.conn # e
      BY <2>4, <2>5, <2>6, <2>8, <3>1, <3>3, WireShape DEF Told
    <3> QED
      BY <3>2, <3>3
  <2>11. faults' \in 0..MaxFaults
    BY <1>1 DEF IdleInv
  <2> QED
    BY <1>1, <2>9, <2>10, <2>11, ShellFrames
<1> QED
  BY <1>2, <1>3

\* The configuration is reloaded.
LEMMA ReloadKeeps ==
  ASSUME IdleInv, Reload
  PROVE  IdleInv'
<1>1. /\ links' = [e \in 1..MaxConns |->
                     IF links[e].state \in {"waiting", "open"} THEN Cut(e)[e] ELSE links[e]]
      /\ shell' = [Cleared EXCEPT !.up = FALSE] /\ ShellFrame
      /\ faults > 0 /\ faults' = faults - 1
  BY DEF Reload, Fault
<1>2. NoFrame \in Frames /\ NoFrame.count = 0 /\ MaxRequests \in Nat
  BY IdleAssumption DEF NoFrame, Frames
<1>3. \A d \in 1..MaxConns :
        Cut(d)[d] = [links[d] EXCEPT !.state = "cut", !.frame = NoFrame, !.ack = 0]
  BY WireShape DEF Cut, Links
<1>4. links' \in Links
  <2>1. \A d \in 1..MaxConns : links'[d] \in [state : {"unused", "waiting", "open", "cut"},
                                               frame : Frames, ack : Nat]
    <3>1. SUFFICES ASSUME NEW d \in 1..MaxConns
          PROVE  links'[d] \in [state : {"unused", "waiting", "open", "cut"},
                                frame : Frames, ack : Nat]
      OBVIOUS
    <3>2. links[d] \in [state : {"unused", "waiting", "open", "cut"}, frame : Frames, ack : Nat]
      BY WireShape DEF Links
    <3>3. Cut(d)[d] \in [state : {"unused", "waiting", "open", "cut"}, frame : Frames, ack : Nat]
      BY <1>3, CutShape
    <3> QED
      BY <1>1, <3>2, <3>3
  <2> QED
    BY <1>1, <2>1 DEF Links
<1>5. ASSUME NEW d \in 1..MaxConns
      PROVE  /\ links'[d].state = "unused" <=> d > conns
             /\ links'[d].state \notin {"open", "waiting"} /\ links'[d].ack = 0
             /\ links'[d].frame.count <= MaxRequests
  <2>1. CASE links[d].state \in {"waiting", "open"}
    <3>1. links'[d].state = "cut" /\ links'[d].frame = NoFrame /\ links'[d].ack = 0
      BY <1>1, <1>3, <2>1, WireShape DEF Links
    <3> QED
      BY <1>2, <2>1, <3>1, WireShape
  <2>2. CASE links[d].state \notin {"waiting", "open"}
    BY <1>1, <2>2, WireShape
  <2> QED
    BY <2>1, <2>2
<1>6. PICK none \in 0..MaxConns : none = 0
  BY WireShape
<1>7. PICK off \in BOOLEAN : off = FALSE
  BY Zenon
<1>8. shell' = [shell EXCEPT !.up = off, !.socket = none, !.sequence = none, !.count = none]
  BY <1>1, <1>6, <1>7, WireShape DEF Cleared, Shells
<1>9. shell' \in Shells /\ shell'.socket = 0
  BY <1>6, <1>7, <1>8, WireShape DEF Shells
<1>10. Wire(held, links', shell', conns)
  BY <1>4, <1>5, <1>9, WireShape DEF Wire
<1>11. Told(bridge, held, links', shell', conns)
  BY <1>5, WireShape DEF Told
<1>12. faults' \in 0..MaxFaults
  BY <1>1, IdleAssumption DEF IdleInv
<1> QED
  BY <1>1, <1>10, <1>11, <1>12, ShellFrames

\* The new configuration listens.
LEMMA ListenKeeps ==
  ASSUME IdleInv, Listen
  PROVE  IdleInv'
<1>1. shell' = [shell EXCEPT !.up = TRUE] /\ ShellFrame /\ UNCHANGED <<links, faults>>
  BY DEF Listen
<1>2. PICK on \in BOOLEAN : on = TRUE
  BY Zenon
<1>3. shell' = [shell EXCEPT !.up = on]
  BY <1>1, <1>2
<1>4. /\ shell' \in Shells /\ shell'.socket = shell.socket /\ shell'.sequence = shell.sequence
      /\ shell'.count = shell.count
  BY <1>3, WireShape DEF Shells
<1>5. Wire(held, links, shell', conns) /\ Told(bridge, held, links, shell', conns)
  BY <1>4 DEF IdleInv, Wire, Told
<1> QED
  BY <1>1, <1>5, ShellFrames DEF IdleInv

-----------------------------------------------------------------------------
(* The theorems. *)

\* The bridge starts with nothing.
LEMMA IdleInvInit == Init => IdleInv
<1> SUFFICES ASSUME Init PROVE IdleInv
  OBVIOUS
<1>1. /\ bridge \in Bridges /\ bridge.running = TRUE /\ bridge.conn = 0
      /\ bridge.ready = FALSE /\ bridge.awaiting = 0 /\ bridge.current = NoOp
      /\ bridge.queue = {} /\ bridge.next = 1
      /\ \A k \in Cookies : bridge.requests[k] = NoClient
  BY IdleAssumption DEF Init, Blank, NextCookie, Bridges
<1>2. Live(bridge.requests) = {} /\ Restorable(bridge) = {}
  BY <1>1, OperationShape DEF Live, Restorable
<1>3. IsFiniteSet({}) /\ Cardinality({}) = 0 /\ MaxQueue \in Nat /\ MaxRequests \in Nat
      /\ MaxCookie \in Nat /\ MaxCalls \in Nat /\ MaxConns \in Nat /\ MaxFaults \in Nat
  BY FS_EmptySet, IdleAssumption
<1>4. Memory(bridge, client, held, known, stale, counter)
  <2>1. /\ client \in [Clients -> Statuses] /\ held \in [Clients -> SUBSET Cookies]
        /\ known \in [Clients -> SUBSET Cookies] /\ counter = 0 /\ stale = {}
        /\ \A c \in Clients : held[c] = {} /\ known[c] = {}
    BY DEF Init, Statuses
  <2> QED
    BY <1>1, <1>2, <1>3, <2>1, OperationShape DEF Memory
<1>5. Ledger(bridge, calls, answered)
  <2>1. {op.call : op \in bridge.queue \cup {bridge.current}} \ {0} = {}
    BY <1>1, OperationShape
  <2>2. calls = 0 /\ answered = {} /\ 1..0 = {}
    BY DEF Init
  <2> QED
    BY <1>1, <1>3, <2>1, <2>2 DEF Ledger
<1>6. NoFrame \in Frames /\ NoFrame.count = 0
  BY DEF NoFrame, Frames
<1>7. /\ links \in Links
      /\ \A e \in 1..MaxConns : links[e].state = "unused" /\ links[e].frame = NoFrame
                                /\ links[e].ack = 0
  BY <1>6 DEF Init, Links
<1>8. shell \in Shells /\ shell.socket = 0 /\ conns = 0
  BY <1>3 DEF Init, Shells
<1>9. Wire(held, links, shell, conns)
  BY <1>3, <1>6, <1>7, <1>8 DEF Wire
<1>10. Told(bridge, held, links, shell, conns) /\ Advanced(bridge)
  BY <1>1 DEF Told, Advanced
<1>11. faults \in 0..MaxFaults
  BY <1>3 DEF Init
<1> QED
  BY <1>4, <1>5, <1>9, <1>10, <1>11 DEF IdleInv

\* Every step keeps the invariant.
LEMMA IdleInvStep == IdleInv /\ [Next]_ivars => IdleInv'
<1> SUFFICES ASSUME IdleInv, [Next]_ivars PROVE IdleInv'
  OBVIOUS
<1>1. CASE UNCHANGED ivars
  BY <1>1 DEF ivars, callerVars, IdleInv
<1>2. CASE Caller
  BY <1>2, InhibitKeeps, UnInhibitKeeps, LeaveKeeps DEF Caller
<1>3. ASSUME NEW c \in Clients, NameOwnerChanged(c) PROVE IdleInv'
  BY <1>3, NameOwnerChangedKeeps
<1>4. CASE SocketStep
  <2>1. CASE AckTimeout
    BY <2>1, DisconnectKeeps DEF AckTimeout
  <2>2. CASE HangUp
    BY <2>2, DisconnectKeeps DEF HangUp
  <2> QED
    BY <1>4, <2>1, <2>2, AcknowledgeKeeps DEF SocketStep
<1>5. CASE BridgeStep
  BY <1>3, <1>4, <1>5, ConnectKeeps DEF BridgeStep
<1>6. CASE ShellStep
  <2>1. ASSUME NEW e \in 1..MaxConns, EndOfFile(e) PROVE IdleInv'
    BY <2>1, CutKeeps DEF EndOfFile
  <2> QED
    BY <1>6, <2>1, AcceptKeeps, ReceiveKeeps, ListenKeeps DEF ShellStep
<1> QED
  BY <1>1, <1>2, <1>5, <1>6, BridgeDiesKeeps, BridgeStartsKeeps, ReloadKeeps DEF Next

\* The memory of the bridge, the ledger of the calls, the wire between the
\* bridge and the shell and what was told over it agree in every state.
THEOREM BridgeHolds == Spec => []IdleInv
<1>1. Init => IdleInv
  BY IdleInvInit
<1>2. IdleInv /\ [Next]_ivars => IdleInv'
  BY IdleInvStep
<1> QED
  BY <1>1, <1>2, PTL DEF Spec

\* The variables have their types; the queue keeps within its limit.
THEOREM IdleTypesHold == Spec => []IdleTypeOK
<1>1. IdleInv => IdleTypeOK
  <2> SUFFICES ASSUME IdleInv PROVE IdleTypeOK
    OBVIOUS
  <2>1. /\ client \in [Clients -> {"alive", "dying", "gone"}]
        /\ held \in [Clients -> SUBSET Cookies] /\ known \in [Clients -> SUBSET Cookies]
        /\ stale \subseteq Cookies /\ counter \in 0..MaxCookie
        /\ Cardinality(bridge.queue) <= MaxQueue
    BY IdleAssumption DEF IdleInv, Memory, Statuses, Cookies
  <2>2. bridge \in Bridges
    BY DEF IdleInv, Memory
  <2>3. calls \in 0..MaxCalls /\ answered \subseteq 1..calls /\ faults \in 0..MaxFaults
    BY DEF IdleInv, Ledger
  <2>4. links \in Links /\ shell \in Shells /\ conns \in 0..MaxConns
    BY DEF IdleInv, Wire
  <2> QED
    BY <2>1, <2>2, <2>3, <2>4 DEF IdleTypeOK, Bridges, Links, Shells, Frames
<1> QED
  BY <1>1, BridgeHolds, PTL

\* An inhibition that was granted, and not released, is counted by the shell
\* whenever it has applied a snapshot of its connection: the screen cannot go
\* idle under it.
THEOREM HeldIsCounted == Spec => []HeldIsShown
<1>1. IdleInv => HeldIsShown
  BY DEF IdleInv, Wire, HeldIsShown, Holding
<1> QED
  BY <1>1, BridgeHolds, PTL

\* When no snapshot is awaited the shell shows exactly the requests, and none
\* of them is of a caller that is known to be gone.
THEOREM SettledIsTold == Spec => []SettledIsExact
<1>1. IdleInv => SettledIsExact
  <2> SUFFICES ASSUME IdleInv, bridge.ready, bridge.awaiting = 0,
                      links[bridge.conn].state = "open"
               PROVE  /\ shell.socket = bridge.conn
                      /\ shell.count = Count(bridge.requests)
                      /\ \A k \in Live(bridge.requests) : client[bridge.requests[k]] # "gone"
    BY DEF SettledIsExact
  <2>1. bridge.conn # 0 /\ bridge.conn \in 1..MaxConns
    BY WireShape DEF IdleInv, Memory
  <2>2. ~bridge.dirty
    BY DEF IdleInv, Advanced
  <2> QED
    BY <2>1, <2>2, WireShape DEF IdleInv, Memory, Told
<1> QED
  BY <1>1, BridgeHolds, PTL

\* A call that has no answer is in the queue or in progress, whatever ended
\* the connection it was waiting on.
THEOREM CallsAreKept == Spec => []NoLostCall
<1>1. IdleInv => NoLostCall
  <2> SUFFICES ASSUME IdleInv PROVE NoLostCall
    OBVIOUS
  <2>1. Unacknowledged = bridge.queue \cup {bridge.current}
    BY DEF Unacknowledged
  <2> QED
    BY <2>1 DEF IdleInv, Ledger, NoLostCall, Pending
<1> QED
  BY <1>1, BridgeHolds, PTL

\* A cookie given by a bridge that has died is never given again.
THEOREM StaleStaysDead == Spec => []StaleNeverLive
<1>1. IdleInv => StaleNeverLive
  BY DEF IdleInv, Memory, StaleNeverLive
<1> QED
  BY <1>1, BridgeHolds, PTL

\* No frame announces more requests than the shell accepts.
THEOREM FramesFit == Spec => []FramesAccepted
<1>1. IdleInv => FramesAccepted
  BY DEF IdleInv, Wire, FramesAccepted
<1> QED
  BY <1>1, BridgeHolds, PTL
=============================================================================

----------------------------- MODULE Connections -----------------------------
(***************************************************************************)
(* The connections between nodes that all run P2P (net/p2p.cpp): dialling, *)
(* accepting, the version handshake, the address book, bans, time-outs and *)
(* restarts.  What the nodes say once connected is module BlockSync.       *)
(*                                                                         *)
(* Each node has one IP and listens on one address there, so a node stands *)
(* for both; Silent are addresses nobody listens on.  The steps of one     *)
(* turn of P2P::loop are actions: events of sockets, which may mark a peer *)
(* for disconnection, then the queues or the maintenance, and the reaping  *)
(* of marked peers that ends the turn.  Time is abstract: a time-out, a    *)
(* back-off or a ban may be over at any moment its condition allows.       *)
(***************************************************************************)
EXTENDS Naturals, Sequences, FiniteSets, FiniteSetsExt

CONSTANTS
    Nodes, Silent,   \* listening nodes; addresses that never answer
    Seeds, OldBans,  \* peers.txt and bans.txt of each node at the start
    Slots,           \* bound: connections that exist at the same time
    MaxOutbound, MaxInbound,
    MaxAddrs,        \* size of the address book (5000)
    MaxAttempts,     \* bound: attempts are counted up to here
    MaxRestarts,     \* bound: restarts of a node
    MaxEvents,       \* bound: discoveries, commands, saves, stops and faults
    MaxDials,        \* bound: connections each node dials
    NoConn

ASSUME ConnectionsAssumption ==
    /\ Nodes \intersect Silent = {}
    /\ Seeds \in [Nodes -> SUBSET (Nodes \union Silent)]
    /\ OldBans \in [Nodes -> SUBSET (Nodes \union Silent)]
    /\ MaxOutbound \in Nat /\ MaxInbound \in Nat /\ MaxAddrs \in Nat \ {0}
    /\ MaxAttempts \in Nat \ {0} /\ MaxRestarts \in Nat /\ MaxEvents \in Nat /\ MaxDials \in [Nodes -> Nat]
    /\ IsFiniteSet(Slots) /\ IsFiniteSet(Nodes) /\ IsFiniteSet(Silent)

Addrs == Nodes \union Silent
Sides == {"out", "in"}
Other(d) == IF d = "out" THEN "in" ELSE "out"

EndStates == {"none", "connecting", "backlog", "open", "version", "active"}
AddrInfo == [ok : BOOLEAN, attempts : 0..MaxAttempts, manual : BOOLEAN]
Messages == [type : {"version", "verack", "getaddr"}]
            \union [type : {"addr"}, addrs : SUBSET Addrs]

\* A connection: the two ends' states, what is on the way to each, and the ends
\* that are marked for disconnection.
Connection == [from : Nodes, to : Addrs, manual : BOOLEAN, inc : [Sides -> 0..MaxRestarts],
               st : [Sides -> EndStates], queue : [Sides -> Seq(Messages)], closing : SUBSET Sides]

ASSUME NoConnAssumption == NoConn \notin Connection

VARIABLES
    up, inc,                \* running_; how often the node was started (its nonce_)
    book,                   \* addrs_: address -> [ok, attempts, manual]
    votes, selfAddrs,       \* external_votes_ for the own address; self_addrs_
    banned, reasons,        \* IPs banned now; IPs with an entry in ban_reason_
    peersFile, bansFile,    \* peers.txt; bans.txt, the entries in force
    ordered,                \* history: the operator's bans in force
    conn,                   \* the connections, both ends
    dials, events           \* counters for the bounds

nodeVars == <<book, votes, selfAddrs, banned, reasons, ordered>>
files == <<peersFile, bansFile>>
vars == <<up, inc, nodeVars, files, conn, dials, events>>

(***************************************************************************)
(* Ends of connections                                                     *)
(***************************************************************************)
Node(c, d) == IF d = "out" THEN c.from ELSE c.to
Nonce(c, d) == <<Node(c, d), c.inc[d]>>
Has(s, d) == conn[s] # NoConn /\ conn[s].st[d] # "none"
EndsOf(n) == {e \in Slots \X Sides : Has(e[1], e[2]) /\ Node(conn[e[1]], e[2]) = n
                                     /\ conn[e[1]].st[e[2]] # "backlog"}
Outbound(n) == {e \in EndsOf(n) : e[2] = "out"}
GotVersion(c, d) == c.st[d] \in {"version", "active"}

Mark(c, d) == [c EXCEPT !.closing = @ \union {d}]
Send(c, d, msgs) == IF c.st[Other(d)] = "none" THEN c
                    ELSE [c EXCEPT !.queue[Other(d)] = @ \o msgs]

\* A closed end: what was on its way to it is lost.
Closed(c, d) == [c EXCEPT !.st[d] = "none", !.queue[d] = <<>>, !.closing = @ \ {d}]
ClosedAll(c, ds) == IF ds = {} THEN c
                    ELSE IF ds = Sides THEN Closed(Closed(c, "in"), "out")
                    ELSE Closed(c, CHOOSE d \in ds : TRUE)
OrNone(c) == IF c.st = [d \in Sides |-> "none"] THEN NoConn ELSE c

\* The end of a turn of the loop at node n.
Reaped(cs, n) ==
    [s \in Slots |->
        IF cs[s] = NoConn THEN NoConn
        ELSE OrNone(ClosedAll(cs[s], {d \in cs[s].closing : Node(cs[s], d) = n}))]

(***************************************************************************)
(* The address book                                                        *)
(***************************************************************************)
External(n) == votes[n] >= 2
NewInfo == [ok |-> FALSE, attempts |-> 0, manual |-> FALSE]
Info(bk, a) == IF a \in DOMAIN bk THEN bk[a] ELSE NewInfo
Put(bk, a, info) == [x \in DOMAIN bk \union {a} |-> IF x = a THEN info ELSE bk[x]]
Forget(bk, a) == [x \in DOMAIN bk \ {a} |-> bk[x]]
Worst(bk) == CHOOSE a \in DOMAIN bk : \A x \in DOMAIN bk : bk[x].attempts <= bk[a].attempts

AddAddr(bk, isExternal, a, manual) ==
    IF isExternal THEN bk
    ELSE LET new == Put(bk, a, [Info(bk, a) EXCEPT !.manual = @ \/ manual])
         IN IF Cardinality(DOMAIN new) > MaxAddrs /\ ~ new[Worst(new)].manual
            THEN Forget(new, Worst(new)) ELSE new

AddAll(bk, n, as) ==
    FoldSet(LAMBDA a, acc : AddAddr(acc, a = n /\ External(n), a, FALSE), bk, as)

\* peers.txt: addresses tried often and never with success are left out.
Saved(bk) == [a \in {x \in DOMAIN bk : bk[x].attempts < MaxAttempts \/ bk[x].ok} |-> bk[a].ok]

\* The address book read from peers.txt by a process that knows no address of
\* its own yet: every entry comes back, the node's own among them.  save_addrs
\* writes at most 2000 entries, so the limit of the book is not met here.
Loaded(file) == [a \in DOMAIN file |-> [NewInfo EXCEPT !.ok = file[a]]]

(***************************************************************************)
(* Dialling (connect_to)                                                   *)
(***************************************************************************)
Dialled(n, a, manual) ==
    [from |-> n, to |-> a, manual |-> manual,
     inc |-> [d \in Sides |-> inc[n]],
     st |-> [out |-> "connecting", in |-> "none"],
     queue |-> [d \in Sides |-> <<>>], closing |-> {}]

\* No second outbound connection to an address; only addnode overrides a ban.
MayDial(n, a, manual) ==
    /\ \A e \in Outbound(n) : conn[e[1]].to # a
    /\ manual \/ a \notin banned[n]

Tried(bk, a, manual) ==
    Put(bk, a, [Info(bk, a) EXCEPT !.attempts = Min({MaxAttempts, @ + 1}), !.manual = @ \/ manual])

Free == {s \in Slots : conn[s] = NoConn}

CanDial(n) == Free # {} /\ dials[n] < MaxDials[n]
CountDial(n) == dials' = [dials EXCEPT ![n] = @ + 1]

\* The connections after node n has dialled a.
WithDial(n, a, manual) ==
    [conn EXCEPT ![CHOOSE s \in Free : TRUE] = Dialled(n, a, manual)]

(***************************************************************************)
(* Events of sockets                                                       *)
(***************************************************************************)
Init ==
    /\ up = [n \in Nodes |-> TRUE]
    /\ inc = [n \in Nodes |-> 0]
    /\ book = [n \in Nodes |-> [a \in Seeds[n] |-> NewInfo]]
    /\ votes = [n \in Nodes |-> 0]
    /\ selfAddrs = [n \in Nodes |-> {}]
    /\ banned = OldBans /\ reasons = OldBans /\ bansFile = OldBans /\ ordered = OldBans
    /\ peersFile = [n \in Nodes |-> [a \in Seeds[n] |-> FALSE]]
    /\ conn = [s \in Slots |-> NoConn]
    /\ dials = [n \in Nodes |-> 0]
    /\ events = 0

UseEvent == events < MaxEvents /\ events' = events + 1

\* An end that is read: handshaken or not, and not marked.
Live(s, d) == /\ Has(s, d)
              /\ conn[s].st[d] \notin {"connecting", "backlog"}
              /\ d \notin conn[s].closing

\* on_connected: our version, with our nonce and the address we see the peer at.
Hello == <<[type |-> "version"]>>

\* POLLOUT on a connecting socket: the other kernel has completed the connection.
Connected(s) ==
    /\ Has(s, "out") /\ conn[s].st["out"] = "connecting" /\ "out" \notin conn[s].closing
    /\ LET c == conn[s] IN
       /\ c.to \in Nodes /\ up[c.to]
       /\ conn' = [conn EXCEPT ![s] = [c EXCEPT
              !.st = [out |-> "open", in |-> "backlog"], !.inc["in"] = inc[c.to],
              !.queue["in"] = Hello]]
    /\ UNCHANGED <<up, inc, nodeVars, files, events, dials>>

\* POLLERR on a connecting socket.
Refused(s) ==
    /\ Has(s, "out") /\ conn[s].st["out"] = "connecting" /\ "out" \notin conn[s].closing
    /\ conn[s].to \notin {n \in Nodes : up[n]}
    /\ conn' = [conn EXCEPT ![s] = Mark(@, "out")]
    /\ UNCHANGED <<up, inc, nodeVars, files, events, dials>>

\* Forgets the bans.
AdmitsUnchecked(n, ip) == Cardinality(EndsOf(n) \ Outbound(n)) < MaxInbound
Admits(n, ip) == ip \notin banned[n] /\ Cardinality(EndsOf(n) \ Outbound(n)) < MaxInbound

AcceptInbound(s) ==
    /\ Has(s, "in") /\ conn[s].st["in"] = "backlog"
    /\ conn' = [conn EXCEPT ![s] = IF Admits(@.to, @.from) THEN [@ EXCEPT !.st["in"] = "open"]
                                   ELSE OrNone(Closed(@, "in"))]
    /\ UNCHANGED <<up, inc, nodeVars, files, events, dials>>

\* The next message for an end, with the rest of the stream left to read.
Reads(s, d, type) == Live(s, d) /\ conn[s].queue[d] # <<>> /\ Head(conn[s].queue[d]).type = type
Read(s, d) == [conn[s] EXCEPT !.queue[d] = Tail(@)]

\* Looks only at connections whose handshake is complete.
IsDuplicateActive(n, s, d) ==
    \E e \in EndsOf(n) \ {<<s, d>>} :
        /\ conn[e[1]].st[e[2]] = "active"
        /\ Nonce(conn[e[1]], Other(e[2])) = Nonce(conn[s], Other(d))

\* Another connection of node n with the same node at its other end.
IsDuplicate(n, s, d) ==
    \E e \in EndsOf(n) \ {<<s, d>>} :
        /\ GotVersion(conn[e[1]], e[2])
        /\ Nonce(conn[e[1]], Other(e[2])) = Nonce(conn[s], Other(d))

\* Forgets to compare the nonce with our own.
IsSelfNever(s) == FALSE
IsSelf(s) == Nonce(conn[s], "in") = Nonce(conn[s], "out")

VersionFromSelf(n, s, d) ==
    /\ IsSelf(s)
    /\ selfAddrs' = [selfAddrs EXCEPT ![n] = IF d = "out" THEN @ \union {n} ELSE @]
    /\ book' = [book EXCEPT ![n] = IF d = "out" THEN Forget(@, n) ELSE @]
    /\ conn' = [conn EXCEPT ![s] = Mark(Read(s, d), d)]
    /\ UNCHANGED votes

VersionFromKnown(n, s, d) ==
    /\ ~ IsSelf(s) /\ IsDuplicate(n, s, d)
    /\ conn' = [conn EXCEPT ![s] = Mark(Read(s, d), d)]
    /\ UNCHANGED <<book, votes, selfAddrs>>

\* learned_external: the address the peer sees us at, believed on the second vote.
VersionTaken(n, s, d) ==
    LET c == [Read(s, d) EXCEPT !.st[d] = "version"]
        added == IF d = "in" THEN AddAddr(book[n], FALSE, c.from, FALSE) ELSE book[n]
        reply == IF d = "in" THEN Hello \o <<[type |-> "verack"]>> ELSE <<[type |-> "verack"]>>
    IN /\ ~ IsSelf(s) /\ ~ IsDuplicate(n, s, d)
       /\ votes' = [votes EXCEPT ![n] = Min({2, @ + 1})]
       /\ book' = [book EXCEPT ![n] = IF votes[n] = 1 THEN Forget(added, n) ELSE added]
       /\ conn' = [conn EXCEPT ![s] = Send(c, d, reply)]
       /\ UNCHANGED selfAddrs

OnVersion(s, d) ==
    /\ Reads(s, d, "version")
    /\ LET n == Node(conn[s], d) IN
         VersionFromSelf(n, s, d) \/ VersionFromKnown(n, s, d) \/ VersionTaken(n, s, d)
    /\ UNCHANGED <<up, inc, banned, reasons, ordered, files, events, dials>>

\* The own address is told when it is known and somebody has come in by it.
OnVerack(s, d) ==
    /\ Reads(s, d, "verack")
    /\ LET n == Node(conn[s], d)
           c == [Read(s, d) EXCEPT !.st[d] = "active"]
           ask == IF d = "out" THEN <<[type |-> "getaddr"]>> ELSE <<>>
           tell == IF External(n) /\ EndsOf(n) # Outbound(n)
                   THEN <<[type |-> "addr", addrs |-> {n}]>> ELSE <<>>
       IN /\ conn' = [conn EXCEPT ![s] = Send(c, d, ask \o tell)]
          /\ book' = [book EXCEPT ![n] =
                 IF d = "out" THEN Put(@, c.to, [Info(@, c.to) EXCEPT !.ok = TRUE, !.attempts = 0])
                 ELSE @]
    /\ UNCHANGED <<up, inc, votes, selfAddrs, banned, reasons, ordered, files, events, dials>>

OnGetAddr(s, d) ==
    /\ Reads(s, d, "getaddr")
    /\ LET bk == book[Node(conn[s], d)] IN
         conn' = [conn EXCEPT ![s] = Send(Read(s, d), d,
                     <<[type |-> "addr", addrs |-> {a \in DOMAIN bk : bk[a].ok}]>>)]
    /\ UNCHANGED <<up, inc, nodeVars, files, events, dials>>

OnAddr(s, d) ==
    /\ Reads(s, d, "addr")
    /\ LET n == Node(conn[s], d) IN
         book' = [book EXCEPT ![n] = AddAll(@, n, Head(conn[s].queue[d]).addrs)]
    /\ conn' = [conn EXCEPT ![s] = Read(s, d)]
    /\ UNCHANGED <<up, inc, votes, selfAddrs, banned, reasons, ordered, files, events, dials>>

\* recv or send fails: the other end is closed, or the network cut the connection.
ConnectionLost(s, d) ==
    /\ Live(s, d)
    /\ IF Has(s, Other(d)) THEN UseEvent ELSE UNCHANGED events
    /\ conn' = [conn EXCEPT ![s] = Mark(@, d)]
    /\ UNCHANGED <<up, inc, nodeVars, files, dials>>

\* A message that cannot be decoded, or an invalid block or header.
Misbehaves(s, d) ==
    /\ Live(s, d) /\ Has(s, Other(d)) /\ UseEvent
    /\ LET n == Node(conn[s], d) IN
         banned' = [banned EXCEPT ![n] =
             IF conn[s].manual /\ d = "out" THEN @ ELSE @ \union {Node(conn[s], Other(d))}]
    /\ conn' = [conn EXCEPT ![s] = Mark(@, d)]
    /\ UNCHANGED <<up, inc, book, votes, selfAddrs, reasons, ordered, files, dials>>

\* on_peer of the DHT; a node found on the LAN is dialled too if it is new.
Found(n, a, lan) ==
    /\ up[n] /\ UseEvent
    /\ LET added == AddAddr(book[n], a = n /\ External(n), a, FALSE)
           dial == lan /\ a # n /\ a \notin DOMAIN book[n] /\ MayDial(n, a, FALSE)
       IN /\ IF dial THEN CanDial(n) /\ CountDial(n) ELSE UNCHANGED dials
          /\ book' = [book EXCEPT ![n] = IF dial THEN Tried(added, a, FALSE) ELSE added]
          /\ conn' = IF dial THEN WithDial(n, a, FALSE) ELSE conn
    /\ UNCHANGED <<up, inc, votes, selfAddrs, banned, reasons, ordered, files>>

(***************************************************************************)
(* The end of a turn: commands from other threads, maintenance, reaping    *)
(***************************************************************************)
QueueAddNode(n, a) ==
    /\ up[n] /\ UseEvent
    /\ LET added == AddAddr(book[n], a = n /\ External(n), a, TRUE)
           dial == MayDial(n, a, TRUE)
       IN /\ IF dial THEN CanDial(n) /\ CountDial(n) ELSE UNCHANGED dials
          /\ book' = [book EXCEPT ![n] = IF dial THEN Tried(added, a, TRUE) ELSE added]
          /\ conn' = Reaped(IF dial THEN WithDial(n, a, TRUE) ELSE conn, n)
    /\ UNCHANGED <<up, inc, votes, selfAddrs, banned, reasons, ordered, files>>

\* The connections with the disconnect flag set at some ends.
MarkedEnds(ends) ==
    [s \in Slots |-> IF conn[s] = NoConn THEN NoConn
        ELSE [conn[s] EXCEPT !.closing = @ \union {d \in Sides : <<s, d>> \in ends}]]

QueueDisconnect(n, s, d) ==
    /\ up[n] /\ Live(s, d) /\ Node(conn[s], d) = n /\ UseEvent
    /\ conn' = Reaped(MarkedEnds({<<s, d>>}), n)
    /\ UNCHANGED <<up, inc, nodeVars, files, dials>>

\* The bans that have a reason are kept.
SaveBans(n) == bansFile' = [bansFile EXCEPT ![n] = banned'[n] \intersect reasons'[n]]

\* An operator's ban also ends the connections with the IP.
QueueBan(n, ip) ==
    /\ up[n] /\ UseEvent
    /\ banned' = [banned EXCEPT ![n] = @ \union {ip}]
    /\ reasons' = [reasons EXCEPT ![n] = @ \union {ip}]
    /\ ordered' = [ordered EXCEPT ![n] = @ \union {ip}]
    /\ SaveBans(n)
    /\ conn' = Reaped(MarkedEnds({e \in EndsOf(n) : Node(conn[e[1]], Other(e[2])) = ip}), n)
    /\ UNCHANGED <<up, inc, book, votes, selfAddrs, peersFile, dials>>

QueueUnban(n, ip) ==
    /\ up[n] /\ ip \in banned[n] /\ UseEvent
    /\ banned' = [banned EXCEPT ![n] = @ \ {ip}]
    /\ reasons' = [reasons EXCEPT ![n] = @ \ {ip}]
    /\ ordered' = [ordered EXCEPT ![n] = @ \ {ip}]
    /\ SaveBans(n)
    /\ conn' = Reaped(conn, n)
    /\ UNCHANGED <<up, inc, book, votes, selfAddrs, peersFile, dials>>

\* Forgets connections whose other end is gone.
MayTimeOutUnfinished(s, d) == conn[s].st[d] # "active"

\* 10 s for a connection, 30 s for a handshake, 5 min without a message, which
\* pings exclude as long as both ends are there.
MayTimeOut(s, d) == conn[s].st[d] # "active" \/ ~ Has(s, Other(d))

\* The other side may still answer; then a time-out takes a slow network.
MayProgress(s, d) ==
    \/ Has(s, Other(d))
    \/ conn[s].st[d] = "connecting" /\ conn[s].to \in {n \in Nodes : up[n]}

\* The end of a turn without commands or maintenance.
Reap(n) ==
    /\ up[n] /\ \E e \in EndsOf(n) : e[2] \in conn[e[1]].closing
    /\ conn' = Reaped(conn, n)
    /\ UNCHANGED <<up, inc, nodeVars, files, events, dials>>

LateEnds(n) == {e \in EndsOf(n) : e[2] \notin conn[e[1]].closing /\ MayTimeOut(e[1], e[2])}

TimeOut(n, e) ==
    /\ e \in LateEnds(n)
    /\ IF MayProgress(e[1], e[2]) THEN UseEvent ELSE UNCHANGED events
    /\ conn' = Reaped(MarkedEnds({e}), n)
    /\ UNCHANGED <<up, inc, nodeVars, files, dials>>

\* A manual node whose connection was lost is dialled again after 15 s.
Redial(n, a) ==
    /\ up[n] /\ a \in DOMAIN book[n] /\ book[n][a].manual
    /\ MayDial(n, a, TRUE) /\ CanDial(n) /\ CountDial(n)
    /\ book' = [book EXCEPT ![n] = Tried(@, a, TRUE)]
    /\ conn' = Reaped(WithDial(n, a, TRUE), n)
    /\ UNCHANGED <<up, inc, votes, selfAddrs, banned, reasons, ordered, files, events>>

\* A known address whose back-off is over is dialled for a free outbound slot.
DialKnown(n, a) ==
    /\ up[n] /\ a \in DOMAIN book[n] /\ ~ book[n][a].manual
    /\ ~ (a = n /\ External(n)) /\ a \notin selfAddrs[n]
    /\ Cardinality({e \in Outbound(n) : "out" \notin conn[e[1]].closing}) < MaxOutbound
    /\ MayDial(n, a, FALSE) /\ CanDial(n) /\ CountDial(n)
    /\ book' = [book EXCEPT ![n] = Tried(@, a, FALSE)]
    /\ conn' = Reaped(WithDial(n, a, FALSE), n)
    /\ UNCHANGED <<up, inc, votes, selfAddrs, banned, reasons, ordered, files, events>>

\* save_addrs, every five minutes.
SaveAddrs(n) ==
    /\ up[n] /\ peersFile[n] # Saved(book[n]) /\ UseEvent
    /\ peersFile' = [peersFile EXCEPT ![n] = Saved(book[n])]
    /\ conn' = Reaped(conn, n)
    /\ UNCHANGED <<up, inc, nodeVars, bansFile, dials>>

\* An IP is no longer banned, and its entry in bans.txt would not be loaded; its
\* reason stays.
BanExpires(n, ip) ==
    /\ ip \in banned[n] /\ UseEvent
    /\ banned' = [banned EXCEPT ![n] = @ \ {ip}]
    /\ bansFile' = [bansFile EXCEPT ![n] = @ \ {ip}]
    /\ ordered' = [ordered EXCEPT ![n] = @ \ {ip}]
    /\ UNCHANGED <<up, inc, book, votes, selfAddrs, reasons, peersFile, conn, dials>>

(***************************************************************************)
(* Stopping and starting                                                   *)
(***************************************************************************)
Halt(n) ==
    /\ up[n] /\ inc[n] < MaxRestarts /\ UseEvent
    /\ up' = [up EXCEPT ![n] = FALSE]
    /\ conn' = [s \in Slots |-> IF conn[s] = NoConn THEN NoConn
                  ELSE OrNone(ClosedAll(conn[s], {d \in Sides : Node(conn[s], d) = n}))]
    /\ UNCHANGED <<inc, nodeVars, bansFile, dials>>

Stop(n) == Halt(n) /\ peersFile' = [peersFile EXCEPT ![n] = Saved(book[n])]
Crash(n) == Halt(n) /\ UNCHANGED peersFile

LoadBans(n) ==
    /\ banned' = [banned EXCEPT ![n] = bansFile[n]]
    /\ reasons' = [reasons EXCEPT ![n] = bansFile[n]]

\* load_addrs and load_bans; a new nonce.
Start(n) ==
    /\ ~ up[n]
    /\ up' = [up EXCEPT ![n] = TRUE]
    /\ inc' = [inc EXCEPT ![n] = @ + 1]
    /\ book' = [book EXCEPT ![n] = Loaded(peersFile[n])]
    /\ votes' = [votes EXCEPT ![n] = 0]
    /\ selfAddrs' = [selfAddrs EXCEPT ![n] = {}]
    /\ LoadBans(n)
    /\ UNCHANGED <<ordered, files, conn, events, dials>>

(***************************************************************************)
(* The specification                                                       *)
(***************************************************************************)
Handle(s, d) == OnVersion(s, d) \/ OnVerack(s, d) \/ OnGetAddr(s, d) \/ OnAddr(s, d)

Next ==
    \/ \E s \in Slots : Connected(s) \/ Refused(s) \/ AcceptInbound(s)
    \/ \E s \in Slots, d \in Sides : Handle(s, d) \/ ConnectionLost(s, d) \/ Misbehaves(s, d)
    \/ \E n \in Nodes :
          \/ Reap(n) \/ SaveAddrs(n) \/ Stop(n) \/ Crash(n) \/ Start(n)
          \/ \E s \in Slots, d \in Sides : TimeOut(n, <<s, d>>) \/ QueueDisconnect(n, s, d)
          \/ \E a \in Addrs : \/ Redial(n, a) \/ DialKnown(n, a) \/ QueueAddNode(n, a)
                              \/ QueueBan(n, a) \/ QueueUnban(n, a) \/ BanExpires(n, a)
                              \/ \E lan \in BOOLEAN : Found(n, a, lan)

Spec == Init /\ [][Next]_vars

\* The loop turns, sockets that are ready are served, and time passes.
Fairness ==
    /\ \A n \in Nodes : WF_vars(Reap(n))
    /\ \A s \in Slots : WF_vars(Connected(s) \/ Refused(s) \/ AcceptInbound(s))
    /\ \A s \in Slots, d \in Sides : WF_vars(Handle(s, d)) /\ WF_vars(\E n \in Nodes : TimeOut(n, <<s, d>>))

FairSpec == Spec /\ Fairness

(***************************************************************************)
(* Properties                                                              *)
(***************************************************************************)
\* The shape of the state; a node has at most max_inbound inbound connections.
TypeOK ==
    /\ up \in [Nodes -> BOOLEAN] /\ inc \in [Nodes -> 0..MaxRestarts]
    /\ DOMAIN book = Nodes /\ DOMAIN peersFile = Nodes
    /\ \A n \in Nodes : DOMAIN book[n] \subseteq Addrs /\ \A a \in DOMAIN book[n] : book[n][a] \in AddrInfo
    /\ \A n \in Nodes : DOMAIN peersFile[n] \subseteq Addrs
    /\ votes \in [Nodes -> 0..2] /\ selfAddrs \in [Nodes -> SUBSET Addrs]
    /\ {banned, reasons, bansFile, ordered} \subseteq [Nodes -> SUBSET Addrs]
    /\ conn \in [Slots -> Connection \union {NoConn}]
    /\ \A n \in Nodes : Cardinality(EndsOf(n) \ Outbound(n)) <= MaxInbound
    /\ dials \in [Nodes -> Nat] /\ \A n \in Nodes : dials[n] <= MaxDials[n]
    /\ events \in 0..MaxEvents

\* A node never talks to the same node over two connections, however the two
\* were dialled and whichever messages crossed (p2p.cpp:326).
OneLink ==
    /\ TypeOK
    /\ \A n \in Nodes : \A e, f \in EndsOf(n) :
        /\ e # f
        /\ GotVersion(conn[e[1]], e[2]) /\ GotVersion(conn[f[1]], f[2])
        /\ e[2] \notin conn[e[1]].closing /\ f[2] \notin conn[f[1]].closing
        => Nonce(conn[e[1]], Other(e[2])) # Nonce(conn[f[1]], Other(f[2]))

\* An address counts as good, is saved as good and is given to others as good
\* only if another node answers there: not an unreachable one, not the node's
\* own (p2p.cpp:319, :344, :380).  A restart may bring the own address back, with
\* the last_ok it was saved with (p2p.cpp:143), so it must never have had one.
GoodMeansReached ==
    \A n \in Nodes :
        /\ \A a \in DOMAIN book[n] : book[n][a].ok => a \in Nodes \ {n}
        /\ \A a \in DOMAIN peersFile[n] : peersFile[n][a] => a \in Nodes \ {n}

\* While an operator's ban of an IP is in force no connection with it exists, in
\* either direction, but those the operator asked for with addnode; also after a
\* restart and while connections were being set up (p2p.cpp:176, :204, :757).
\* Nor can it be cut short by an automatic ban of an hour (p2p.cpp:292).
BannedStayOut ==
    \A n \in Nodes :
        /\ ordered[n] \subseteq banned[n] \intersect bansFile[n]
        /\ \A e \in EndsOf(n) :
             LET c == conn[e[1]] IN
             Node(c, Other(e[2])) \in ordered[n] /\ e[2] \notin c.closing => e[2] = "out" /\ c.manual

\* "short automatic bans aren't kept" in bans.txt (p2p.cpp:1050).
OnlyOrderedKept == \A n \in Nodes : bansFile[n] \subseteq ordered[n]

\* No slot is held for ever by a connection one of whose ends is gone or never
\* completes the handshake: refused, duplicate, crashed or lost (p2p.cpp:807-812).
Settled(s) == conn[s] = NoConn \/ conn[s].st = [d \in Sides |-> "active"]
HandshakesEnd == \A s \in Slots : []<>Settled(s)
====

---------------------------- MODULE RadioProofs ----------------------------
(***************************************************************************)
(* Proofs about the radio server, for any number of clients for whom its   *)
(* table has room.  Good says when the process's data are in order; every  *)
(* function of lib/main.cpp, lib/modem.cpp, lib/server.cpp and             *)
(* libwebsockets that is modelled has a lemma (its name and "Is") saying   *)
(* that it keeps them so, and what else it does.  The two loops, over the  *)
(* frames read (Reads) and over the statuses written (Writes), are         *)
(* recursive functions: what is true of their first value and kept by a    *)
(* step is true of all, since a set of naturals has a least element.       *)
(***************************************************************************)
EXTENDS Radio, FiniteSetTheorems, WellFoundedInduction, TLAPS

(***************************************************************************)
(* The invariant.  Each part is stated of a record of the process's data,  *)
(* or of one of its fields, so that it can be followed through a call.     *)
(***************************************************************************)

Sockets == Clients \cup {Listener}
PollEntry == [fd : Sockets \cup {Whitebox}, events : Events, revents : Events]
LwsEntry == [fd : Sockets, events : Events]
Wsi == [state : {"none", "http", "established", "returned close", "flushing"},
        truncated : BOOLEAN, ping_pending : BOOLEAN, pending_timeout : BOOLEAN,
        unusable : BOOLEAN, open : BOOLEAN, buffers : Int]
Process == [fds : Seq(PollEntry), websocket_contexts : Seq(BOOLEAN), lws : Seq(LwsEntry),
            position : [Sockets -> Nat], wsi : [Clients -> Wsi], full : SUBSET Clients,
            started : BOOLEAN, txing : BOOLEAN, rxing : BOOLEAN,
            chip : {"off", "tx", "rx"}, aborted : BOOLEAN]

(* The polled table has one entry for each descriptor of T, of its kind.   *)
Polled(fds, contexts, T) ==
  /\ \A k \in DOMAIN fds : fds[k].fd \in T
  /\ \A d \in T : \E k \in DOMAIN fds : fds[k].fd = d
  /\ \A j, k \in DOMAIN fds : fds[j].fd = fds[k].fd => j = k
  /\ Len(contexts) = Len(fds)
  /\ \A k \in DOMAIN fds : contexts[k] <=> fds[k].fd # Whitebox

(* The table of libwebsockets and the positions in it are inverse.         *)
Held(lws, position, S) ==
  /\ \A d \in S : position[d] \in 1 .. Len(lws) /\ lws[position[d]].fd = d
  /\ \A k \in 1 .. Len(lws) : lws[k].fd \in S /\ position[lws[k].fd] = k
  /\ \A d \in Sockets \ S : position[d] = 0

(* What is polled of a socket is what libwebsockets asked for.             *)
Mirrored(fds, lws, position, S) ==
  \A e \in ToSet(fds) : e.fd \in S => e.events = lws[position[e.fd]].events

(* S are the sockets in the tables.                                        *)
Tables(p, S) ==
  /\ p \in Process /\ S \subseteq Sockets /\ Listener \in S
  /\ Polled(p.fds, p.websocket_contexts, S \cup (IF p.started THEN {Whitebox} ELSE {}))
  /\ Held(p.lws, p.position, S)
  /\ Mirrored(p.fds, p.lws, p.position, S)

(* d is polled for writing.                                                *)
Asked(fds, d) == \E e \in ToSet(fds) : e.fd = d /\ "out" \in e.events

(* A session has something to send.                                        *)
Pending(w) == \/ w.open /\ w.buffers > 0
              \/ w.truncated
              \/ w.ping_pending /\ w.state = "established"

(* A descriptor without a connection has no session, and a connection that *)
(* is not upgraded nothing to send.                                        *)
Shape(w) ==
  /\ w.buffers >= 0
  /\ w.state = "none" => w = NoWsi
  /\ w.state = "http" => ~w.truncated /\ ~w.open /\ w.buffers = 0 /\ ~w.ping_pending

Session(p, c) == Shape(p.wsi[c]) /\ (Pending(p.wsi[c]) => Asked(p.fds, c))

(* The chip is on only while the whitebox is watched, and that only while  *)
(* somebody is there.                                                      *)
Modem(p) ==
  /\ p.started <=> p.txing \/ p.rxing
  /\ p.chip # "off" => p.started
  /\ p.started => \E c \in Clients : p.wsi[c].open

Present(p) == {c \in Clients : p.wsi[c].state # "none"} \cup {Listener}

Good(p) ==
  /\ Tables(p, Present(p))
  /\ \A c \in Clients : Session(p, c)
  /\ Modem(p) /\ ~p.aborted

(* The sockets and what was sent over them fit the sessions; the statuses  *)
(* queued and the frames that may ask for more are bounded together.       *)
Frames == {"transmit", "receive", "set", "close", "ping", "close frame"}

Line(c) ==
  LET w == proc.wsi[c]
  IN  /\ sock[c] \in {"idle", "connecting"} <=> w.state = "none"
      /\ w.state = "none" => input[c] = <<>>
      /\ w.state = "http" => input[c] \in {<<>>, <<"upgrade">>, <<"get">>}
      /\ w.state \notin {"none", "http"} =>
           /\ input[c] \in Seq(Frames)
           /\ w.buffers + Len(input[c]) + left.frames <= MaxFrames + 1

Loop ==
  /\ loop \in [phase : {"poll", "for"}, i : Nat \ {0}, serviced : Nat, status : Nat]
  /\ loop.serviced <= loop.status
  /\ loop.phase = "for" => Turn(proc, loop) # 0

IInv ==
  /\ Good(proc)
  /\ Loop
  /\ sock \in [Clients -> {"idle", "connecting", "up", "fin", "rst"}]
  /\ DOMAIN input = Clients
  /\ left \in [frames : 0 .. MaxFrames, connects : Nat]
  /\ \A c \in Clients : Line(c)

----------------------------------------------------------------------------
(* Sequences *)

(* A set of naturals that is not empty has a least element.                *)
LEMMA LeastNat ==
  ASSUME NEW T, T \subseteq Nat, T # {} PROVE \E m \in T : \A k \in T : m <= k
<1>1. \E x \in T : \A y \in T : ~(<<y, x>> \in OpToRel(<, Nat))
  BY WFMin, NatLessThanWellFounded, Zenon
<1>2. \A y, x \in T : y < x => <<y, x>> \in OpToRel(<, Nat)
  BY Zenon DEF OpToRel
<1>3. \E x \in T : \A y \in T : ~(y < x)
  BY <1>1, <1>2, Zenon
<1> QED BY <1>3, SMT

(* The entry of a descriptor that has one entry.                           *)
LEMMA FirstEntryIs ==
  ASSUME NEW s \in Seq(PollEntry), NEW k \in DOMAIN s,
         \A j \in DOMAIN s : s[j].fd = s[k].fd => j = k
  PROVE  FirstEntry(s, s[k].fd) = k
<1> DEFINE at == {i \in DOMAIN s : s[i].fd = s[k].fd}
<1>1. at = {k}
  OBVIOUS
<1>2. k \in Nat
  OBVIOUS
<1>3. Min({k}) = k
  BY <1>2 DEF Min
<1> QED BY <1>1, <1>3 DEF FirstEntry

(* A hole filled with the last entry.                                      *)
Filled(E, s, i, r) ==
  /\ r \in Seq(E)
  /\ Len(r) = Len(s) - 1
  /\ \A k \in 1 .. Len(s) - 1 : r[k] = IF k = i THEN s[Len(s)] ELSE s[k]

(* What WithLastInPlace makes of a sequence.                               *)
LEMMA WithLastInPlaceIs ==
  ASSUME NEW E, NEW s \in Seq(E), NEW i \in DOMAIN s
  PROVE  Filled(E, s, i, WithLastInPlace(s, i))
<1> DEFINE r == [s EXCEPT ![i] = Last(s)]
<1>1. Len(s) \in Nat /\ Len(s) >= 1 /\ s[Len(s)] \in E /\ i \in 1 .. Len(s)
  OBVIOUS
<1>2. Last(s) = s[Len(s)]
  BY DEF Last
<1>3. r \in Seq(E) /\ Len(r) = Len(s)
  BY <1>1, <1>2
<1>4. \A k \in 1 .. Len(s) : r[k] = IF k = i THEN s[Len(s)] ELSE s[k]
  BY <1>1, <1>2
<1>5. WithLastInPlace(s, i) = SubSeq(r, 1, Len(s) - 1)
  BY <1>3 DEF WithLastInPlace, Front
<1> HIDE DEF r
<1> QED BY <1>1, <1>3, <1>4, <1>5 DEF Filled

----------------------------------------------------------------------------
(* The polled table: lib/main.cpp *)

(* The entry of a descriptor in the table.                                 *)
LEMMA EntryOf ==
  ASSUME NEW p \in Process, NEW T, NEW d \in T, Polled(p.fds, p.websocket_contexts, T)
  PROVE  /\ FirstEntry(p.fds, d) \in DOMAIN p.fds
         /\ FirstEntry(p.fds, d) # 0
         /\ p.fds[FirstEntry(p.fds, d)].fd = d
         /\ \A j \in DOMAIN p.fds : p.fds[j].fd = d => j = FirstEntry(p.fds, d)
<1>1. p.fds \in Seq(PollEntry)
  BY DEF Process
<1>2. PICK k \in DOMAIN p.fds : p.fds[k].fd = d
  BY DEF Polled
<1>3. \A j \in DOMAIN p.fds : p.fds[j].fd = p.fds[k].fd => j = k
  BY DEF Polled
<1>4. FirstEntry(p.fds, d) = k
  BY <1>1, <1>2, <1>3, FirstEntryIs
<1>5. k # 0
  BY <1>1
<1> QED BY <1>2, <1>3, <1>4, <1>5

(* An entry goes; the others stay, one of them elsewhere.                  *)
PollEnded(p, d, T, q) ==
  /\ q \in Process
  /\ q = [p EXCEPT !.fds = q.fds, !.websocket_contexts = q.websocket_contexts]
  /\ Polled(q.fds, q.websocket_contexts, T \ {d})
  /\ ToSet(q.fds) = {e \in ToSet(p.fds) : e.fd # d}

(* What poll_end_fd does to a table that has the descriptor.               *)
LEMMA poll_end_fdIs ==
  ASSUME NEW p \in Process, NEW T, NEW d \in T, Polled(p.fds, p.websocket_contexts, T)
  PROVE  PollEnded(p, d, T, poll_end_fd(p, d))
<1> DEFINE i == FirstEntry(p.fds, d)
           n == Len(p.fds)
           f == WithLastInPlace(p.fds, i)
           w == WithLastInPlace(p.websocket_contexts, i)
           q == [p EXCEPT !.fds = f, !.websocket_contexts = w]
<1>1. /\ i \in DOMAIN p.fds /\ i # 0 /\ p.fds[i].fd = d
      /\ \A j \in DOMAIN p.fds : p.fds[j].fd = d => j = i
  BY EntryOf
<1>2. p.fds \in Seq(PollEntry) /\ p.websocket_contexts \in Seq(BOOLEAN)
  BY DEF Process
<1>3. n \in Nat /\ i \in 1 .. n /\ DOMAIN p.fds = 1 .. n /\ Len(p.websocket_contexts) = n
      /\ DOMAIN p.websocket_contexts = 1 .. n
  BY <1>1, <1>2 DEF Polled
<1>4. poll_end_fd(p, d) = q
  BY <1>1 DEF poll_end_fd
<1>5. f \in Seq(PollEntry) /\ Len(f) = n - 1
      /\ \A k \in 1 .. n - 1 : f[k] = IF k = i THEN p.fds[n] ELSE p.fds[k]
  <2> HIDE DEF i
  <2>1. i \in DOMAIN p.fds
    BY <1>3
  <2>2. Filled(PollEntry, p.fds, i, f)
    BY <1>2, <2>1, WithLastInPlaceIs, Zenon
  <2> HIDE DEF f
  <2> QED BY <2>2, Zenon DEF Filled
<1>6. w \in Seq(BOOLEAN) /\ Len(w) = n - 1
      /\ \A k \in 1 .. n - 1 : w[k] = IF k = i THEN p.websocket_contexts[n]
                                               ELSE p.websocket_contexts[k]
  <2> HIDE DEF i
  <2>1. i \in DOMAIN p.websocket_contexts /\ Len(p.websocket_contexts) = n
    BY <1>3
  <2>2. Filled(BOOLEAN, p.websocket_contexts, i, w)
    BY <1>2, <2>1, WithLastInPlaceIs, Zenon
  <2> HIDE DEF w, n
  <2> QED BY <2>1, <2>2, Zenon DEF Filled
<1> HIDE DEF i, f, w
<1>7. q \in Process /\ q.fds = f /\ q.websocket_contexts = w
  BY <1>5, <1>6 DEF Process
<1>8. q = [p EXCEPT !.fds = q.fds, !.websocket_contexts = q.websocket_contexts]
  BY <1>7 DEF Process
<1>9. DOMAIN f = 1 .. n - 1
  BY <1>5
<1>10. Polled(f, w, T \ {d})
  <2>1. ASSUME NEW k \in DOMAIN f PROVE f[k].fd \in T \ {d} /\ (w[k] <=> f[k].fd # Whitebox)
    <3>1. \A j \in 1 .. n : /\ p.fds[j].fd \in T
                            /\ p.websocket_contexts[j] <=> p.fds[j].fd # Whitebox
      BY <1>3 DEF Polled
    <3>2. CASE k = i
      <4>1. f[k] = p.fds[n] /\ w[k] = p.websocket_contexts[n] /\ n \in 1 .. n /\ n # i
        BY <1>3, <1>5, <1>6, <1>9, <3>2
      <4>2. p.fds[n].fd # d
        BY <1>1, <1>3, <4>1
      <4> QED BY <3>1, <4>1, <4>2
    <3>3. CASE k # i
      <4>1. f[k] = p.fds[k] /\ w[k] = p.websocket_contexts[k] /\ k \in 1 .. n
        BY <1>3, <1>5, <1>6, <1>9, <3>3
      <4>2. p.fds[k].fd # d
        BY <1>1, <1>3, <3>3, <4>1
      <4> QED BY <3>1, <4>1, <4>2
    <3> QED BY <3>2, <3>3
  <2>2. ASSUME NEW e \in T \ {d} PROVE \E k \in DOMAIN f : f[k].fd = e
    <3>1. PICK k \in 1 .. n : p.fds[k].fd = e
      BY <1>3 DEF Polled
    <3>2. k # i
      BY <1>1, <3>1
    <3>3. CASE k = n
      <4>1. i \in DOMAIN f /\ f[i] = p.fds[n]
        BY <1>3, <1>5, <1>9, <3>2, <3>3
      <4> QED BY <3>1, <3>3, <4>1
    <3>4. CASE k # n
      <4>1. k \in DOMAIN f /\ f[k] = p.fds[k]
        BY <1>3, <1>5, <1>9, <3>2, <3>4
      <4> QED BY <3>1, <4>1
    <3> QED BY <3>3, <3>4
  <2>3. ASSUME NEW j \in DOMAIN f, NEW k \in DOMAIN f, f[j].fd = f[k].fd PROVE j = k
    <3>1. \A l, m \in 1 .. n : p.fds[l].fd = p.fds[m].fd => l = m
      BY <1>3 DEF Polled
    <3>2. j \in 1 .. n - 1 /\ k \in 1 .. n - 1
      BY <1>9
    <3> HIDE DEF n
    <3>3. CASE j = i /\ k # i
      <4>1. f[j] = p.fds[n] /\ f[k] = p.fds[k] /\ n # k /\ n \in 1 .. n /\ k \in 1 .. n
        BY <1>3, <1>5, <3>2, <3>3
      <4> QED BY <2>3, <3>1, <4>1
    <3>4. CASE j # i /\ k = i
      <4>1. f[k] = p.fds[n] /\ f[j] = p.fds[j] /\ n # j /\ n \in 1 .. n /\ j \in 1 .. n
        BY <1>3, <1>5, <3>2, <3>4
      <4> QED BY <2>3, <3>1, <4>1
    <3>5. CASE j # i /\ k # i
      <4>1. f[k] = p.fds[k] /\ f[j] = p.fds[j] /\ k \in 1 .. n /\ j \in 1 .. n
        BY <1>3, <1>5, <3>2, <3>5
      <4> QED BY <2>3, <3>1, <4>1
    <3> QED BY <3>3, <3>4, <3>5
  <2>4. Len(w) = Len(f)
    BY <1>5, <1>6
  <2> QED BY <2>1, <2>2, <2>3, <2>4 DEF Polled
<1>11. ToSet(f) = {e \in ToSet(p.fds) : e.fd # d}
  <2>1. ASSUME NEW e \in ToSet(f) PROVE e \in ToSet(p.fds) /\ e.fd # d
    <3>1. PICK k \in DOMAIN f : e = f[k]
      BY DEF ToSet
    <3>2. e.fd # d
      BY <1>10, <3>1 DEF Polled
    <3>3. \E j \in DOMAIN p.fds : e = p.fds[j]
      BY <1>3, <1>5, <1>9, <3>1
    <3> QED BY <3>2, <3>3 DEF ToSet
  <2>2. ASSUME NEW e \in ToSet(p.fds), e.fd # d PROVE e \in ToSet(f)
    <3>1. PICK k \in DOMAIN p.fds : e = p.fds[k]
      BY DEF ToSet
    <3>2. k # i
      BY <1>1, <2>2, <3>1
    <3>3. CASE k = n
      <4>1. i \in DOMAIN f /\ f[i] = p.fds[n]
        BY <1>3, <1>5, <1>9, <3>2, <3>3
      <4> QED BY <3>1, <3>3, <4>1 DEF ToSet
    <3>4. CASE k # n
      <4>1. k \in DOMAIN f /\ f[k] = p.fds[k]
        BY <1>3, <1>5, <1>9, <3>1, <3>2, <3>4
      <4> QED BY <3>1, <4>1 DEF ToSet
    <3> QED BY <3>3, <3>4
  <2> QED BY <2>1, <2>2
<1> HIDE DEF q
<1> QED BY <1>4, <1>7, <1>8, <1>10, <1>11 DEF PollEnded

(* A new entry behind the others.                                          *)
PollStarted(p, d, ev, T, q) ==
  /\ q \in Process
  /\ q = [p EXCEPT !.fds = q.fds, !.websocket_contexts = q.websocket_contexts]
  /\ Polled(q.fds, q.websocket_contexts, T \cup {d})
  /\ ToSet(q.fds) = ToSet(p.fds) \cup {[fd |-> d, events |-> ev, revents |-> {}]}
  /\ Len(q.fds) = Len(p.fds) + 1
  /\ \A k \in DOMAIN p.fds : q.fds[k] = p.fds[k]

(* What poll_start_fd does to a table that has room.                       *)
LEMMA poll_start_fdIs ==
  ASSUME NEW p \in Process, NEW T, NEW d \in (Sockets \cup {Whitebox}) \ T,
         NEW ev \in Events, Len(p.fds) < MaxFds,
         Polled(p.fds, p.websocket_contexts, T)
  PROVE  PollStarted(p, d, ev, T, poll_start_fd(p, d, ev, d # Whitebox))
<1> DEFINE n == Len(p.fds)
           x == [fd |-> d, events |-> ev, revents |-> {}]
           f == Append(p.fds, x)
           w == Append(p.websocket_contexts, d # Whitebox)
           q == [p EXCEPT !.fds = f, !.websocket_contexts = w]
<1>1. p.fds \in Seq(PollEntry) /\ p.websocket_contexts \in Seq(BOOLEAN)
  BY DEF Process
<1>2. n \in Nat /\ DOMAIN p.fds = 1 .. n /\ Len(p.websocket_contexts) = n
  BY <1>1 DEF Polled
<1>3. poll_start_fd(p, d, ev, d # Whitebox) = q
  BY <1>2, MaxFdsAssumption DEF poll_start_fd
<1>4. x \in PollEntry /\ x.fd = d
  BY DEF PollEntry, Events
<1>5. f \in Seq(PollEntry) /\ Len(f) = n + 1 /\ f[n + 1] = x /\ DOMAIN f = 1 .. n + 1
      /\ \A k \in 1 .. n : f[k] = p.fds[k]
  <2> HIDE DEF x
  <2> QED BY <1>1, <1>4
<1>6. w \in Seq(BOOLEAN) /\ Len(w) = n + 1 /\ w[n + 1] = (d # Whitebox)
      /\ \A k \in 1 .. n : w[k] = p.websocket_contexts[k]
  <2> DEFINE b == (d # Whitebox)
  <2>1. b \in BOOLEAN
    OBVIOUS
  <2> HIDE DEF b
  <2>2. Append(p.websocket_contexts, b) \in Seq(BOOLEAN)
        /\ Len(Append(p.websocket_contexts, b)) = n + 1
        /\ Append(p.websocket_contexts, b)[n + 1] = b
        /\ \A k \in 1 .. n : Append(p.websocket_contexts, b)[k] = p.websocket_contexts[k]
    BY <1>1, <1>2, <2>1
  <2> QED BY <2>2 DEF b
<1> HIDE DEF x, f, w
<1>7. q \in Process /\ q.fds = f /\ q.websocket_contexts = w
  BY <1>5, <1>6 DEF Process
<1>8. q = [p EXCEPT !.fds = q.fds, !.websocket_contexts = q.websocket_contexts]
  BY <1>7 DEF Process
<1>9. Polled(f, w, T \cup {d})
  <2>1. ASSUME NEW k \in DOMAIN f PROVE f[k].fd \in T \cup {d} /\ (w[k] <=> f[k].fd # Whitebox)
    <3>1. CASE k = n + 1
      BY <1>4, <1>5, <1>6, <3>1
    <3>2. CASE k \in 1 .. n
      BY <1>2, <1>5, <1>6, <3>2 DEF Polled
    <3> QED BY <1>2, <1>5, <3>1, <3>2
  <2>2. ASSUME NEW e \in T \cup {d} PROVE \E k \in DOMAIN f : f[k].fd = e
    <3>1. CASE e \in T
      BY <1>2, <1>5, <3>1 DEF Polled
    <3>2. CASE e = d
      BY <1>2, <1>4, <1>5, <3>2
    <3> QED BY <3>1, <3>2
  <2>3. ASSUME NEW j \in DOMAIN f, NEW k \in DOMAIN f, f[j].fd = f[k].fd PROVE j = k
    <3>1. \A l, m \in 1 .. n : p.fds[l].fd = p.fds[m].fd => l = m
      BY <1>2 DEF Polled
    <3>2. \A l \in 1 .. n : f[l].fd # d
      BY <1>2, <1>5 DEF Polled
    <3>3. f[n + 1].fd = d
      BY <1>4, <1>5
    <3> HIDE DEF n
    <3> QED BY <1>2, <1>5, <2>3, <3>1, <3>2, <3>3
  <2>4. Len(w) = Len(f)
    BY <1>5, <1>6
  <2> QED BY <2>1, <2>2, <2>3, <2>4 DEF Polled
<1>10. ToSet(f) = ToSet(p.fds) \cup {x}
  BY <1>2, <1>5 DEF ToSet
<1> HIDE DEF q
<1> QED BY <1>2, <1>3, <1>5, <1>7, <1>8, <1>9, <1>10 DEF x, PollStarted

(* The events of one entry change.                                         *)
PollChanged(p, d, ev, T, q) ==
  /\ q \in Process
  /\ q = [p EXCEPT !.fds = q.fds]
  /\ Polled(q.fds, q.websocket_contexts, T)
  /\ \A e \in ToSet(q.fds) : IF e.fd = d THEN e.events = ev ELSE e \in ToSet(p.fds)
  /\ \A e \in ToSet(p.fds) : e.fd # d => e \in ToSet(q.fds)
  /\ \E e \in ToSet(q.fds) : e.fd = d

(* What poll_change_fd does to a table that has the descriptor.            *)
LEMMA poll_change_fdIs ==
  ASSUME NEW p \in Process, NEW T, NEW d \in T, NEW ev \in Events,
         Polled(p.fds, p.websocket_contexts, T)
  PROVE  PollChanged(p, d, ev, T, poll_change_fd(p, d, ev))
<1> DEFINE i == FirstEntry(p.fds, d)
           f == [p.fds EXCEPT ![i].events = ev]
           q == [p EXCEPT !.fds[i].events = ev]
<1>1. /\ i \in DOMAIN p.fds /\ i # 0 /\ p.fds[i].fd = d
      /\ \A j \in DOMAIN p.fds : p.fds[j].fd = d => j = i
  BY EntryOf
<1>2. p.fds \in Seq(PollEntry)
  BY DEF Process
<1>3. poll_change_fd(p, d, ev) = q
  BY <1>1 DEF poll_change_fd
<1> HIDE DEF i
<1>4. p.fds[i] \in PollEntry
  BY <1>1, <1>2
<1>5. [p.fds[i] EXCEPT !.events = ev] \in PollEntry
  BY <1>4 DEF PollEntry
<1>6. f \in Seq(PollEntry) /\ DOMAIN f = DOMAIN p.fds /\ Len(f) = Len(p.fds)
  BY <1>1, <1>2, <1>5
<1>7. f[i].fd = d /\ f[i].events = ev
  BY <1>1, <1>4 DEF PollEntry
<1>8. \A k \in DOMAIN f : k # i => f[k] = p.fds[k]
  BY <1>6
<1>9. q \in Process /\ q.fds = f /\ q = [p EXCEPT !.fds = f]
      /\ q.websocket_contexts = p.websocket_contexts
  BY <1>6 DEF Process
<1> HIDE DEF f, q
<1>10. \A k \in DOMAIN f : f[k].fd = p.fds[k].fd
  BY <1>1, <1>7, <1>8
<1>11. Polled(f, p.websocket_contexts, T)
  BY <1>6, <1>10 DEF Polled
<1>12. ASSUME NEW e \in ToSet(f) PROVE IF e.fd = d THEN e.events = ev ELSE e \in ToSet(p.fds)
  <2>1. PICK k \in DOMAIN f : e = f[k]
    BY DEF ToSet
  <2>2. CASE k = i
    BY <1>7, <2>1, <2>2
  <2>3. CASE k # i
    BY <1>1, <1>6, <1>8, <2>1, <2>3 DEF ToSet
  <2> QED BY <2>2, <2>3
<1>13. ASSUME NEW e \in ToSet(p.fds), e.fd # d PROVE e \in ToSet(f)
  <2>1. PICK k \in DOMAIN f : e = p.fds[k]
    BY <1>6 DEF ToSet
  <2>2. k # i
    BY <1>1, <1>13, <2>1
  <2> QED BY <1>8, <2>1, <2>2 DEF ToSet
<1>14. \E e \in ToSet(f) : e.fd = d
  BY <1>1, <1>6, <1>7 DEF ToSet
<1> QED BY <1>3, <1>9, <1>11, <1>12, <1>13, <1>14 DEF PollChanged

----------------------------------------------------------------------------
(* The table of libwebsockets: pollfd.c *)

(* What a call leaves alone that only touches the tables.                  *)
SameRest(p, q) ==
  /\ q.wsi = p.wsi /\ q.full = p.full /\ q.started = p.started /\ q.txing = p.txing
  /\ q.rxing = p.rxing /\ q.chip = p.chip /\ q.aborted = p.aborted

Watched(p) == IF p.started THEN {Whitebox} ELSE {}

(* The events asked for of one socket change, in both tables.              *)
LwsChanged(p, d, or, S, q) ==
  /\ Tables(q, S) /\ SameRest(p, q)
  /\ \A c \in Sockets : c # d /\ Asked(p.fds, c) => Asked(q.fds, c)
  /\ "out" \in or => Asked(q.fds, d)

(* What lws_change_pollfd does for a socket in the tables.                 *)
LEMMA lws_change_pollfdIs ==
  ASSUME NEW p, NEW S, NEW d \in S, NEW and, NEW or \in Events, Tables(p, S)
  PROVE  LwsChanged(p, d, or, S, lws_change_pollfd(p, d, and, or))
<1> DEFINE m == p.position[d]
           ev == (p.lws[m].events \ and) \cup or
           l == [p.lws EXCEPT ![m].events = ev]
           r == [p EXCEPT !.lws[m].events = ev]
           T == S \cup Watched(p)
           q == poll_change_fd(r, d, ev)
<1>1. /\ p \in Process /\ S \subseteq Sockets /\ Listener \in S
      /\ Polled(p.fds, p.websocket_contexts, T)
      /\ Held(p.lws, p.position, S)
      /\ Mirrored(p.fds, p.lws, p.position, S)
  BY DEF Tables, Watched
<1>2. p.lws \in Seq(LwsEntry) /\ p.position \in [Sockets -> Nat]
  BY <1>1 DEF Process
<1>3. m \in 1 .. Len(p.lws) /\ p.lws[m].fd = d /\ m # 0 /\ DOMAIN p.lws = 1 .. Len(p.lws)
  BY <1>1, <1>2 DEF Held
<1>4. lws_change_pollfd(p, d, and, or) = q
  BY <1>3 DEF lws_change_pollfd
<1> HIDE DEF m
<1>5. p.lws[m] \in LwsEntry
  BY <1>2, <1>3
<1>6. ev \in Events
  BY <1>5 DEF LwsEntry, Events
<1> HIDE DEF ev
<1>7. [p.lws[m] EXCEPT !.events = ev] \in LwsEntry
  BY <1>5, <1>6 DEF LwsEntry
<1>8. l \in Seq(LwsEntry) /\ Len(l) = Len(p.lws)
  BY <1>2, <1>3, <1>7
<1>9. l[m].fd = d /\ l[m].events = ev /\ \A k \in 1 .. Len(p.lws) : k # m => l[k] = p.lws[k]
  BY <1>2, <1>3, <1>5 DEF LwsEntry
<1>10. r \in Process /\ r = [p EXCEPT !.lws = l]
  BY <1>1, <1>8 DEF Process
<1>11. r.fds = p.fds /\ r.websocket_contexts = p.websocket_contexts /\ r.lws = l
       /\ r.position = p.position /\ SameRest(p, r)
  BY <1>1, <1>10 DEF Process, SameRest
<1> HIDE DEF l, r
<1>12. Held(l, p.position, S)
  BY <1>1, <1>3, <1>8, <1>9 DEF Held
<1>13. d \in T /\ Polled(r.fds, r.websocket_contexts, T)
  BY <1>1, <1>11
<1>14. /\ q \in Process
       /\ q = [r EXCEPT !.fds = q.fds]
       /\ Polled(q.fds, q.websocket_contexts, T)
       /\ \A e \in ToSet(q.fds) : IF e.fd = d THEN e.events = ev ELSE e \in ToSet(r.fds)
       /\ \A e \in ToSet(r.fds) : e.fd # d => e \in ToSet(q.fds)
       /\ \E e \in ToSet(q.fds) : e.fd = d
  <2> HIDE DEF T
  <2>1. PollChanged(r, d, ev, T, q)
    BY <1>6, <1>10, <1>13, poll_change_fdIs, Zenon
  <2> HIDE DEF q
  <2> QED BY <2>1 DEF PollChanged
<1> HIDE DEF q
<1>15. q.lws = l /\ q.position = p.position /\ SameRest(p, q)
  BY <1>10, <1>11, <1>14 DEF Process, SameRest
<1>16. Mirrored(q.fds, l, p.position, S)
  <2> SUFFICES ASSUME NEW e \in ToSet(q.fds), e.fd \in S
               PROVE  e.events = l[p.position[e.fd]].events
    BY DEF Mirrored
  <2>1. CASE e.fd = d
    BY <1>9, <1>14, <2>1 DEF m
  <2>2. CASE e.fd # d
    <3>1. e \in ToSet(p.fds)
      BY <1>11, <1>14, <2>2
    <3>2. e.events = p.lws[p.position[e.fd]].events
      BY <1>1, <3>1 DEF Mirrored
    <3>3. p.position[e.fd] \in 1 .. Len(p.lws) /\ p.position[e.fd] # m
      BY <1>1, <1>3, <2>2 DEF Held
    <3> QED BY <1>9, <3>2, <3>3
  <2> QED BY <2>1, <2>2
<1>17. Tables(q, S)
  <2>1. T = S \cup Watched(q)
    BY <1>15 DEF Watched, SameRest
  <2> QED BY <1>1, <1>12, <1>14, <1>15, <1>16, <2>1 DEF Tables, Watched
<1>18. \A c \in Sockets : c # d /\ Asked(p.fds, c) => Asked(q.fds, c)
  BY <1>11, <1>14 DEF Asked
<1>19. "out" \in or => Asked(q.fds, d)
  BY <1>14 DEF Asked, ev
<1> QED BY <1>4, <1>15, <1>17, <1>18, <1>19 DEF LwsChanged

----------------------------------------------------------------------------
(* Room in the tables *)

(* lib/main.cpp allocates max_fd_count = 1024 entries; that many clients   *)
(* are never there at once.                                                *)
Room == IsFiniteSet(Clients) /\ MaxFds >= Cardinality(Clients) + 2

(* Entries of different descriptors are at most as many as descriptors.    *)
LEMMA EntriesBound ==
  ASSUME NEW E, NEW s \in Seq(E), NEW T, IsFiniteSet(T),
         \A k \in DOMAIN s : s[k].fd \in T,
         \A j, k \in DOMAIN s : s[j].fd = s[k].fd => j = k
  PROVE  Len(s) <= Cardinality(T)
<1> DEFINE n == Len(s)
           f == [k \in 1 .. n |-> s[k].fd]
<1>1. n \in Nat /\ DOMAIN s = 1 .. n
  OBVIOUS
<1>2. f \in [1 .. n -> T]
  BY <1>1
<1>3. f \in Injection(1 .. n, T)
  BY <1>1, <1>2 DEF Injection, IsInjective
<1>4. Cardinality(1 .. n) = n
  <2> HIDE DEF n
  <2> QED BY <1>1, FS_Interval
<1> HIDE DEF f, n
<1>5. Cardinality(1 .. n) <= Cardinality(T)
  BY <1>3, FS_Injection, Zenon
<1> QED BY <1>4, <1>5 DEF n

(* A table that lacks one of the descriptors has room for it.              *)
LEMMA TableHasRoom ==
  ASSUME Room, NEW p \in Process, NEW T, NEW d \in (Sockets \cup {Whitebox}) \ T,
         T \subseteq Sockets \cup {Whitebox}, Polled(p.fds, p.websocket_contexts, T)
  PROVE  Len(p.fds) < MaxFds
<1> DEFINE n == Cardinality(Clients)
           U == (Clients \cup {Listener}) \cup {Whitebox}
<1>1. IsFiniteSet(Clients) /\ n \in Nat /\ MaxFds >= n + 2 /\ MaxFds \in Nat
  BY FS_CardinalityType, MaxFdsAssumption DEF Room
<1>2. IsFiniteSet(Clients \cup {Listener}) /\ Cardinality(Clients \cup {Listener}) = n + 1
  BY <1>1, FS_AddElement, FdsAssumption
<1>3. Whitebox \notin Clients \cup {Listener}
  BY FdsAssumption
<1>4. IsFiniteSet(U) /\ Cardinality(U) = (n + 1) + 1
  BY <1>2, <1>3, FS_AddElement
<1>5. d \in U /\ U = Sockets \cup {Whitebox}
  BY DEF Sockets
<1>6. IsFiniteSet(U \ {d}) /\ Cardinality(U \ {d}) = ((n + 1) + 1) - 1
  <2> HIDE DEF U
  <2> QED BY <1>4, <1>5, FS_RemoveElement
<1>7. T \subseteq U \ {d}
  BY <1>5
<1>8. Len(p.fds) <= Cardinality(U \ {d})
  <2>1. p.fds \in Seq(PollEntry)
    BY DEF Process
  <2>2. \A k \in DOMAIN p.fds : p.fds[k].fd \in U \ {d}
    BY <1>7 DEF Polled
  <2>3. \A j, k \in DOMAIN p.fds : p.fds[j].fd = p.fds[k].fd => j = k
    BY DEF Polled
  <2> HIDE DEF U
  <2> QED BY <1>6, <2>1, <2>2, <2>3, EntriesBound, Zenon
<1>9. Len(p.fds) \in Nat
  BY DEF Process
<1> HIDE DEF U, n
<1> QED BY <1>1, <1>6, <1>8, <1>9

(* A connection comes.                                                     *)
Inserted(p, d, S, q) ==
  /\ Tables(q, S \cup {d}) /\ SameRest(p, q)
  /\ \A c \in Sockets : Asked(p.fds, c) => Asked(q.fds, c)
  /\ \A k \in DOMAIN p.fds : k \in DOMAIN q.fds /\ q.fds[k] = p.fds[k]

(* What insert_wsi_socket_into_fds does for a socket not in the tables.    *)
LEMMA insert_wsi_socket_into_fdsIs ==
  ASSUME Room, NEW p, NEW S, NEW d \in Sockets \ S, Tables(p, S)
  PROVE  Inserted(p, d, S, insert_wsi_socket_into_fds(p, d))
<1> DEFINE n == Len(p.lws)
           x == [fd |-> d, events |-> {"in"}]
           l == Append(p.lws, x)
           pos == [p.position EXCEPT ![d] = n + 1]
           r == [p EXCEPT !.lws = l, !.position[d] = n + 1]
           T == S \cup Watched(p)
           q == poll_start_fd(r, d, {"in"}, d # Whitebox)
<1>1. /\ p \in Process /\ S \subseteq Sockets /\ Listener \in S
      /\ Polled(p.fds, p.websocket_contexts, T)
      /\ Held(p.lws, p.position, S)
      /\ Mirrored(p.fds, p.lws, p.position, S)
  BY DEF Tables, Watched
<1>2. p.lws \in Seq(LwsEntry) /\ p.position \in [Sockets -> Nat] /\ n \in Nat
      /\ DOMAIN p.lws = 1 .. n
  BY <1>1 DEF Process
<1>3. d # Whitebox /\ Whitebox \notin Sockets /\ d \in Sockets
  BY FdsAssumption DEF Sockets
<1>4. insert_wsi_socket_into_fds(p, d) = q
  <2>1. (d # Whitebox) = TRUE
    BY <1>3
  <2> QED BY <2>1 DEF insert_wsi_socket_into_fds
<1>5. x \in LwsEntry /\ x.fd = d /\ x.events = {"in"}
  BY <1>3 DEF LwsEntry, Events
<1>6. l \in Seq(LwsEntry) /\ Len(l) = n + 1 /\ l[n + 1] = x
      /\ \A k \in 1 .. n : l[k] = p.lws[k]
  <2> HIDE DEF x
  <2> QED BY <1>2, <1>5
<1>7. pos \in [Sockets -> Nat] /\ pos[d] = n + 1
      /\ \A c \in Sockets : c # d => pos[c] = p.position[c]
  BY <1>2, <1>3
<1>8. r \in Process /\ r.fds = p.fds /\ r.websocket_contexts = p.websocket_contexts
      /\ r.lws = l /\ r.position = pos /\ SameRest(p, r)
  <2> HIDE DEF l
  <2> QED BY <1>1, <1>6, <1>7 DEF Process, SameRest
<1> HIDE DEF x, l, pos, r
<1>9. Held(l, pos, S \cup {d})
  <2>1. ASSUME NEW c \in S \cup {d} PROVE pos[c] \in 1 .. Len(l) /\ l[pos[c]].fd = c
    <3>1. CASE c = d
      BY <1>2, <1>5, <1>6, <1>7, <3>1
    <3>2. CASE c # d
      <4>1. c \in S /\ p.position[c] \in 1 .. n /\ p.lws[p.position[c]].fd = c
        BY <1>1, <3>2 DEF Held
      <4>2. pos[c] = p.position[c]
        BY <1>1, <1>7, <3>2, <4>1
      <4> QED BY <1>2, <1>6, <4>1, <4>2
    <3> QED BY <3>1, <3>2
  <2>2. ASSUME NEW k \in 1 .. Len(l) PROVE l[k].fd \in S \cup {d} /\ pos[l[k].fd] = k
    <3>1. CASE k = n + 1
      BY <1>5, <1>6, <1>7, <3>1
    <3>2. CASE k \in 1 .. n
      <4>1. l[k] = p.lws[k] /\ p.lws[k].fd \in S /\ p.position[p.lws[k].fd] = k
        BY <1>1, <1>6, <3>2 DEF Held
      <4>2. p.lws[k].fd # d /\ p.lws[k].fd \in Sockets
        BY <1>1, <4>1
      <4> QED BY <1>7, <4>1, <4>2
    <3> QED BY <1>2, <1>6, <3>1, <3>2
  <2>3. ASSUME NEW c \in Sockets \ (S \cup {d}) PROVE pos[c] = 0
    BY <1>1, <1>7 DEF Held
  <2> QED BY <2>1, <2>2, <2>3 DEF Held
<1>10. d \in (Sockets \cup {Whitebox}) \ T /\ T \subseteq Sockets \cup {Whitebox}
  BY <1>1, <1>3 DEF Watched
<1>11. Len(r.fds) < MaxFds /\ Polled(r.fds, r.websocket_contexts, T)
  <2> HIDE DEF T
  <2> QED BY <1>1, <1>8, <1>10, TableHasRoom
<1>12. PollStarted(r, d, {"in"}, T, q)
  <2>1. {"in"} \in Events
    BY DEF Events
  <2> HIDE DEF T
  <2> QED BY <1>8, <1>10, <1>11, <2>1, poll_start_fdIs, Zenon
<1> HIDE DEF q
<1>13. /\ q \in Process /\ q.lws = l /\ q.position = pos /\ SameRest(p, q)
       /\ Polled(q.fds, q.websocket_contexts, T \cup {d})
       /\ ToSet(q.fds) = ToSet(p.fds) \cup {[fd |-> d, events |-> {"in"}, revents |-> {}]}
       /\ Len(q.fds) = Len(p.fds) + 1
       /\ \A k \in DOMAIN p.fds : q.fds[k] = p.fds[k]
  <2> HIDE DEF T
  <2> QED BY <1>8, <1>12 DEF PollStarted, SameRest, Process
<1>14. Mirrored(q.fds, l, pos, S \cup {d})
  <2> SUFFICES ASSUME NEW e \in ToSet(q.fds), e.fd \in S \cup {d}
               PROVE  e.events = l[pos[e.fd]].events
    BY DEF Mirrored
  <2>1. CASE e.fd = d
    <3>1. \A k \in DOMAIN p.fds : p.fds[k].fd # d
      BY <1>1, <1>10 DEF Polled
    <3>2. e \notin ToSet(p.fds)
      BY <2>1, <3>1 DEF ToSet
    <3>3. e.events = {"in"}
      BY <1>13, <3>2
    <3> QED BY <1>5, <1>6, <1>7, <2>1, <3>3
  <2>2. CASE e.fd # d
    <3>1. e \in ToSet(p.fds) /\ e.fd \in S
      BY <1>13, <2>2
    <3>2. e.events = p.lws[p.position[e.fd]].events
      BY <1>1, <3>1 DEF Mirrored
    <3>3. p.position[e.fd] \in 1 .. n /\ pos[e.fd] = p.position[e.fd]
      BY <1>1, <1>7, <2>2, <3>1 DEF Held
    <3> QED BY <1>6, <3>2, <3>3
  <2> QED BY <2>1, <2>2
<1>15. Tables(q, S \cup {d})
  <2>1. T \cup {d} = (S \cup {d}) \cup Watched(q)
    BY <1>13 DEF Watched, SameRest
  <2>2. S \cup {d} \subseteq Sockets /\ Listener \in S \cup {d}
    BY <1>1, <1>3
  <2> HIDE DEF T
  <2> QED BY <1>9, <1>13, <1>14, <2>1, <2>2 DEF Tables, Watched
<1>16. \A c \in Sockets : Asked(p.fds, c) => Asked(q.fds, c)
  BY <1>13 DEF Asked
<1>17. \A k \in DOMAIN p.fds : k \in DOMAIN q.fds /\ q.fds[k] = p.fds[k]
  <2>1. p.fds \in Seq(PollEntry) /\ q.fds \in Seq(PollEntry)
    BY <1>1, <1>13 DEF Process
  <2> QED BY <1>13, <2>1
<1> QED BY <1>4, <1>13, <1>15, <1>16, <1>17 DEF Inserted

(* A connection goes.                                                      *)
Removed(p, d, S, q) ==
  /\ Tables(q, S \ {d}) /\ SameRest(p, q)
  /\ \A c \in Sockets : c # d /\ Asked(p.fds, c) => Asked(q.fds, c)

(* What remove_wsi_socket_from_fds does for a socket in the tables.        *)
LEMMA remove_wsi_socket_from_fdsIs ==
  ASSUME NEW p, NEW S, NEW d \in S, d # Listener, Tables(p, S)
  PROVE  Removed(p, d, S, remove_wsi_socket_from_fds(p, d))
<1> DEFINE n == Len(p.lws)
           m == p.position[d]
           z == Last(p.lws).fd
           l == WithLastInPlace(p.lws, m)
           pos == [p.position EXCEPT ![z] = m, ![d] = 0]
           r == [p EXCEPT !.lws = l, !.position = pos]
           T == S \cup Watched(p)
           q == poll_end_fd(r, d)
<1>1. /\ p \in Process /\ S \subseteq Sockets /\ Listener \in S
      /\ Polled(p.fds, p.websocket_contexts, T)
      /\ Held(p.lws, p.position, S)
      /\ Mirrored(p.fds, p.lws, p.position, S)
  BY DEF Tables, Watched
<1>2. p.lws \in Seq(LwsEntry) /\ p.position \in [Sockets -> Nat] /\ n \in Nat
      /\ DOMAIN p.lws = 1 .. n
  BY <1>1 DEF Process
<1>3. d # Whitebox /\ d \in Sockets
  BY <1>1, FdsAssumption DEF Sockets
<1>4. m \in 1 .. n /\ p.lws[m].fd = d
  BY <1>1 DEF Held
<1>5. remove_wsi_socket_from_fds(p, d) = q
  BY DEF remove_wsi_socket_from_fds
<1>6. n \in 1 .. n /\ z = p.lws[n].fd /\ z \in S /\ z \in Sockets /\ p.position[z] = n
  <2>1. n \in 1 .. n
    BY <1>2, <1>4
  <2>2. z = p.lws[n].fd
    BY DEF Last
  <2> HIDE DEF z
  <2> QED BY <1>1, <2>1, <2>2 DEF Held
<1> HIDE DEF z, m
<1>7. l \in Seq(LwsEntry) /\ Len(l) = n - 1
      /\ \A k \in 1 .. n - 1 : l[k] = IF k = m THEN p.lws[n] ELSE p.lws[k]
  <2>1. m \in DOMAIN p.lws
    BY <1>2, <1>4
  <2>2. Filled(LwsEntry, p.lws, m, l)
    BY <1>2, <2>1, WithLastInPlaceIs, Zenon
  <2> HIDE DEF l
  <2> QED BY <2>2, Zenon DEF Filled
<1>8. pos \in [Sockets -> Nat] /\ pos[d] = 0 /\ (z # d => pos[z] = m)
      /\ \A c \in Sockets : c # d /\ c # z => pos[c] = p.position[c]
  BY <1>2, <1>3, <1>4, <1>6
<1> HIDE DEF l, pos
<1>9. r \in Process /\ r.fds = p.fds /\ r.websocket_contexts = p.websocket_contexts
      /\ r.lws = l /\ r.position = pos /\ SameRest(p, r)
  BY <1>1, <1>7, <1>8 DEF Process, SameRest
<1> HIDE DEF r
<1>10. ASSUME NEW c \in S \ {d}
       PROVE  /\ pos[c] \in 1 .. n - 1 /\ l[pos[c]].fd = c
              /\ l[pos[c]] = p.lws[p.position[c]]
  <2>1. p.position[c] \in 1 .. n /\ p.lws[p.position[c]].fd = c /\ c \in Sockets
    BY <1>1 DEF Held
  <2>2. p.position[c] # m
    BY <1>4, <2>1
  <2>3. CASE c = z
    <3>1. pos[c] = m /\ p.position[c] = n
      BY <1>6, <1>8, <2>3
    <3>2. m \in 1 .. n - 1
      BY <1>2, <1>4, <2>2, <3>1
    <3>3. l[m] = p.lws[n]
      BY <1>7, <3>2
    <3> QED BY <2>1, <3>1, <3>2, <3>3
  <2>4. CASE c # z
    <3>1. pos[c] = p.position[c]
      BY <1>8, <2>1, <2>4
    <3>2. p.position[c] # n
      BY <1>6, <2>1, <2>4
    <3>3. p.position[c] \in 1 .. n - 1
      BY <1>2, <2>1, <3>2
    <3>4. l[p.position[c]] = p.lws[p.position[c]]
      BY <1>7, <2>2, <3>3
    <3> QED BY <2>1, <3>1, <3>3, <3>4
  <2> QED BY <2>3, <2>4
<1>11. Held(l, pos, S \ {d})
  <2>1. ASSUME NEW c \in S \ {d} PROVE pos[c] \in 1 .. Len(l) /\ l[pos[c]].fd = c
    BY <1>7, <1>10
  <2>2. ASSUME NEW k \in 1 .. Len(l) PROVE l[k].fd \in S \ {d} /\ pos[l[k].fd] = k
    <3>1. k \in 1 .. n - 1 /\ k \in 1 .. n /\ k # n
      BY <1>2, <1>7
    <3>2. \A j \in 1 .. n : p.lws[j].fd \in S /\ p.position[p.lws[j].fd] = j
      BY <1>1 DEF Held
    <3>3. CASE k = m
      <4>1. l[k].fd = z
        BY <1>6, <1>7, <3>1, <3>3
      <4>2. z # d
        BY <1>4, <1>6, <3>1, <3>2, <3>3
      <4> QED BY <1>6, <1>8, <3>3, <4>1, <4>2
    <3>4. CASE k # m
      <4>1. l[k] = p.lws[k]
        BY <1>7, <3>1, <3>4
      <4>2. p.lws[k].fd # d
        BY <1>4, <3>1, <3>2, <3>4
      <4>3. p.lws[k].fd # z
        BY <1>6, <3>1, <3>2
      <4>4. p.lws[k].fd \in S /\ p.lws[k].fd \in Sockets /\ p.position[p.lws[k].fd] = k
        BY <1>1, <3>1, <3>2
      <4> QED BY <1>8, <4>1, <4>2, <4>3, <4>4
    <3> QED BY <3>3, <3>4
  <2>3. ASSUME NEW c \in Sockets \ (S \ {d}) PROVE pos[c] = 0
    <3>1. CASE c = d
      BY <1>8, <3>1
    <3>2. CASE c # d
      <4>1. c \in Sockets \ S /\ p.position[c] = 0
        BY <1>1, <3>2 DEF Held
      <4> QED BY <1>6, <1>8, <3>2, <4>1
    <3> QED BY <3>1, <3>2
  <2> QED BY <2>1, <2>2, <2>3 DEF Held
<1>12. PollEnded(r, d, T, q)
  <2>1. d \in T /\ Polled(r.fds, r.websocket_contexts, T)
    BY <1>1, <1>9
  <2> HIDE DEF T
  <2> QED BY <1>9, <2>1, poll_end_fdIs, Zenon
<1> HIDE DEF q
<1>13. /\ q \in Process /\ q.lws = l /\ q.position = pos /\ SameRest(p, q)
       /\ Polled(q.fds, q.websocket_contexts, T \ {d})
       /\ ToSet(q.fds) = {e \in ToSet(p.fds) : e.fd # d}
  <2> HIDE DEF T
  <2> QED BY <1>9, <1>12 DEF PollEnded, SameRest, Process
<1>14. Mirrored(q.fds, l, pos, S \ {d})
  <2> SUFFICES ASSUME NEW e \in ToSet(q.fds), e.fd \in S \ {d}
               PROVE  e.events = l[pos[e.fd]].events
    BY DEF Mirrored
  <2>1. e \in ToSet(p.fds) /\ e.events = p.lws[p.position[e.fd]].events
    BY <1>1, <1>13 DEF Mirrored
  <2>2. l[pos[e.fd]] = p.lws[p.position[e.fd]]
    BY <1>10
  <2> QED BY <2>1, <2>2
<1>15. Tables(q, S \ {d})
  <2>1. T \ {d} = (S \ {d}) \cup Watched(q)
    BY <1>3, <1>13 DEF Watched, SameRest
  <2>2. S \ {d} \subseteq Sockets /\ Listener \in S \ {d}
    BY <1>1
  <2> HIDE DEF T
  <2> QED BY <1>11, <1>13, <1>14, <2>1, <2>2 DEF Tables, Watched
<1>16. \A c \in Sockets : c # d /\ Asked(p.fds, c) => Asked(q.fds, c)
  BY <1>13 DEF Asked
<1> QED BY <1>5, <1>13, <1>15, <1>16 DEF Removed

(* The tables do not see the rest of the data.                             *)
LEMMA TablesFrame ==
  ASSUME NEW p, NEW S, Tables(p, S), NEW q \in Process,
         q.fds = p.fds, q.websocket_contexts = p.websocket_contexts, q.lws = p.lws,
         q.position = p.position, q.started = p.started
  PROVE  Tables(q, S)
BY DEF Tables

----------------------------------------------------------------------------
(* The modem: lib/modem.cpp *)

(* A call of the modem leaves the sessions alone, and what is asked of     *)
(* their sockets.                                                          *)
ModemCall(p, S, q) ==
  /\ Tables(q, S)
  /\ q.wsi = p.wsi /\ q.full = p.full /\ q.aborted = p.aborted
  /\ \A c \in Sockets : Asked(p.fds, c) => Asked(q.fds, c)

(* The whitebox is in the table after Watch, with room for it.             *)
LEMMA WatchIs ==
  ASSUME Room, NEW p, NEW S, Tables(p, S), NEW ev \in Events
  PROVE  LET q == Watch(p, ev)
         IN  /\ ModemCall(p, S, q)
             /\ q.started /\ q.txing = p.txing /\ q.rxing = p.rxing /\ q.chip = p.chip
<1> DEFINE q == Watch(p, ev)
<1>1. /\ p \in Process /\ S \subseteq Sockets /\ Listener \in S
      /\ Polled(p.fds, p.websocket_contexts, S \cup Watched(p))
      /\ Held(p.lws, p.position, S)
      /\ Mirrored(p.fds, p.lws, p.position, S)
  BY DEF Tables, Watched
<1>2. Whitebox \notin Sockets
  BY FdsAssumption DEF Sockets
<1>3. CASE p.started
  <2>1. q = poll_change_fd(p, Whitebox, ev)
    BY <1>3 DEF Watch
  <2>2. Whitebox \in S \cup Watched(p)
    BY <1>3 DEF Watched
  <2>3. PollChanged(p, Whitebox, ev, S \cup Watched(p), q)
    BY <1>1, <2>1, <2>2, poll_change_fdIs
  <2> HIDE DEF q
  <2>4. /\ q \in Process /\ q.lws = p.lws /\ q.position = p.position /\ SameRest(p, q)
        /\ Polled(q.fds, q.websocket_contexts, S \cup Watched(p))
        /\ \A e \in ToSet(q.fds) : e.fd # Whitebox => e \in ToSet(p.fds)
        /\ \A e \in ToSet(p.fds) : e.fd # Whitebox => e \in ToSet(q.fds)
    BY <1>1, <2>3 DEF PollChanged, SameRest, Process
  <2>5. Mirrored(q.fds, q.lws, q.position, S)
    BY <1>1, <1>2, <2>4 DEF Mirrored
  <2>6. S \cup Watched(p) = S \cup Watched(q)
    BY <2>4 DEF Watched, SameRest
  <2>7. Tables(q, S)
    BY <1>1, <2>4, <2>5, <2>6 DEF Tables, Watched
  <2>8. \A c \in Sockets : Asked(p.fds, c) => Asked(q.fds, c)
    BY <1>2, <2>4 DEF Asked
  <2> QED BY <1>3, <2>4, <2>7, <2>8 DEF ModemCall, SameRest, q
<1>4. CASE ~p.started
  <2> DEFINE r == [p EXCEPT !.started = TRUE]
  <2>1. q = poll_start_fd(r, Whitebox, ev, Whitebox # Whitebox)
    <3>1. (Whitebox # Whitebox) = FALSE
      OBVIOUS
    <3> QED BY <1>4, <3>1 DEF Watch
  <2>2. /\ r \in Process /\ r.fds = p.fds /\ r.websocket_contexts = p.websocket_contexts
        /\ r.lws = p.lws /\ r.position = p.position /\ r.started = TRUE
        /\ r.wsi = p.wsi /\ r.full = p.full /\ r.aborted = p.aborted
        /\ r.txing = p.txing /\ r.rxing = p.rxing /\ r.chip = p.chip
    BY <1>1 DEF Process
  <2> HIDE DEF r
  <2>3. S \cup Watched(p) = S
    BY <1>4 DEF Watched
  <2>4. Polled(p.fds, p.websocket_contexts, S)
    BY <1>1, <2>3
  <2>5. Len(r.fds) < MaxFds /\ Polled(r.fds, r.websocket_contexts, S)
    BY <1>1, <1>2, <2>2, <2>4, TableHasRoom
  <2>6. PollStarted(r, Whitebox, ev, S, q)
    <3>1. Whitebox \in (Sockets \cup {Whitebox}) \ S
      BY <1>1, <1>2
    <3> QED BY <2>1, <2>2, <2>5, <3>1, poll_start_fdIs, Zenon
  <2> HIDE DEF q
  <2>7. /\ q \in Process /\ q.lws = p.lws /\ q.position = p.position /\ q.started = TRUE
        /\ q.wsi = p.wsi /\ q.full = p.full /\ q.aborted = p.aborted
        /\ q.txing = p.txing /\ q.rxing = p.rxing /\ q.chip = p.chip
        /\ Polled(q.fds, q.websocket_contexts, S \cup {Whitebox})
        /\ ToSet(q.fds) = ToSet(p.fds) \cup {[fd |-> Whitebox, events |-> ev, revents |-> {}]}
    <3>1. /\ q \in Process
          /\ q = [r EXCEPT !.fds = q.fds, !.websocket_contexts = q.websocket_contexts]
          /\ Polled(q.fds, q.websocket_contexts, S \cup {Whitebox})
          /\ ToSet(q.fds) = ToSet(r.fds) \cup {[fd |-> Whitebox, events |-> ev, revents |-> {}]}
      BY <2>6, Zenon DEF PollStarted
    <3>2. /\ q.lws = r.lws /\ q.position = r.position /\ q.started = r.started
          /\ q.wsi = r.wsi /\ q.full = r.full /\ q.aborted = r.aborted
          /\ q.txing = r.txing /\ q.rxing = r.rxing /\ q.chip = r.chip
      BY <2>2, <3>1 DEF Process
    <3> QED BY <2>2, <3>1, <3>2, Zenon
  <2>8. Mirrored(q.fds, q.lws, q.position, S)
    BY <1>1, <1>2, <2>7 DEF Mirrored
  <2>9. Tables(q, S)
    BY <1>1, <2>7, <2>8 DEF Tables
  <2>10. \A c \in Sockets : Asked(p.fds, c) => Asked(q.fds, c)
    BY <2>7 DEF Asked
  <2> QED BY <2>7, <2>9, <2>10 DEF ModemCall, q
<1> QED BY <1>3, <1>4

(* After transmit the whitebox is watched.                                 *)
LEMMA modem_transmitIs ==
  ASSUME Room, NEW p, NEW S, Tables(p, S), NEW ok \in BOOLEAN
  PROVE  LET q == modem_transmit(p, ok)
         IN  ModemCall(p, S, q) /\ q.started /\ q.txing
<1> DEFINE r == [whitebox_tx([p EXCEPT !.rxing = FALSE], ok) EXCEPT !.txing = TRUE]
           q == Watch(r, {"out", "err"})
<1>1. p \in Process /\ modem_transmit(p, ok) = q
  BY DEF Tables, modem_transmit
<1>2. /\ r \in Process /\ r.fds = p.fds /\ r.websocket_contexts = p.websocket_contexts
      /\ r.lws = p.lws /\ r.position = p.position /\ r.started = p.started
      /\ r.wsi = p.wsi /\ r.full = p.full /\ r.aborted = p.aborted /\ r.txing = TRUE
  BY <1>1 DEF Process, whitebox_tx
<1> HIDE DEF r
<1>3. Tables(r, S)
  BY <1>2, TablesFrame
<1>4. {"out", "err"} \in Events
  BY DEF Events
<1>5. ModemCall(r, S, q) /\ q.started /\ q.txing = r.txing
  BY <1>3, <1>4, WatchIs
<1> HIDE DEF q
<1> QED BY <1>1, <1>2, <1>5 DEF ModemCall

(* After receive the whitebox is watched.                                  *)
LEMMA modem_receiveIs ==
  ASSUME Room, NEW p, NEW S, Tables(p, S), NEW ok \in BOOLEAN
  PROVE  LET q == modem_receive(p, ok)
         IN  ModemCall(p, S, q) /\ q.started /\ q.rxing
<1> DEFINE r == whitebox_rx([p EXCEPT !.txing = FALSE], ok)
           w == Watch(r, {"in", "err"})
           q == [w EXCEPT !.rxing = TRUE]
<1>1. p \in Process /\ modem_receive(p, ok) = q
  BY DEF Tables, modem_receive
<1>2. /\ r \in Process /\ r.fds = p.fds /\ r.websocket_contexts = p.websocket_contexts
      /\ r.lws = p.lws /\ r.position = p.position /\ r.started = p.started
      /\ r.wsi = p.wsi /\ r.full = p.full /\ r.aborted = p.aborted
  BY <1>1 DEF Process, whitebox_rx
<1> HIDE DEF r
<1>3. Tables(r, S)
  BY <1>2, TablesFrame
<1>4. {"in", "err"} \in Events
  BY DEF Events
<1>5. ModemCall(r, S, w) /\ w.started
  BY <1>3, <1>4, WatchIs
<1> HIDE DEF w
<1>6. /\ q \in Process /\ q.fds = w.fds /\ q.websocket_contexts = w.websocket_contexts
      /\ q.lws = w.lws /\ q.position = w.position /\ q.started = w.started
      /\ q.wsi = w.wsi /\ q.full = w.full /\ q.aborted = w.aborted /\ q.rxing = TRUE
  BY <1>5 DEF ModemCall, Tables, Process
<1> HIDE DEF q
<1>7. Tables(q, S)
  BY <1>5, <1>6, TablesFrame DEF ModemCall
<1> QED BY <1>1, <1>2, <1>5, <1>6, <1>7 DEF ModemCall

(* After standby nothing runs.                                             *)
LEMMA modem_standbyIs ==
  ASSUME NEW p, NEW S, Tables(p, S)
  PROVE  LET q == modem_standby(p)
         IN  /\ ModemCall(p, S, q) /\ ~q.started /\ ~q.txing /\ ~q.rxing
             /\ q.chip = IF p.txing \/ p.rxing THEN "off" ELSE p.chip
<1> DEFINE s == IF p.txing \/ p.rxing THEN whitebox_standby(p) ELSE p
           r == IF p.started THEN poll_end_fd(s, Whitebox) ELSE s
           q == [r EXCEPT !.started = FALSE, !.txing = FALSE, !.rxing = FALSE]
<1>1. /\ p \in Process /\ S \subseteq Sockets /\ Listener \in S
      /\ Polled(p.fds, p.websocket_contexts, S \cup Watched(p))
      /\ Held(p.lws, p.position, S)
      /\ Mirrored(p.fds, p.lws, p.position, S)
  BY DEF Tables, Watched
<1>2. Whitebox \notin Sockets /\ modem_standby(p) = q
  BY FdsAssumption DEF Sockets, modem_standby
<1>3. /\ s \in Process /\ s.fds = p.fds /\ s.websocket_contexts = p.websocket_contexts
      /\ s.lws = p.lws /\ s.position = p.position /\ s.started = p.started
      /\ s.wsi = p.wsi /\ s.full = p.full /\ s.aborted = p.aborted
      /\ s.chip = IF p.txing \/ p.rxing THEN "off" ELSE p.chip
  BY <1>1 DEF Process, whitebox_standby
<1> HIDE DEF s
<1>4. /\ r \in Process /\ r.lws = p.lws /\ r.position = p.position
      /\ r.wsi = p.wsi /\ r.full = p.full /\ r.aborted = p.aborted /\ r.chip = s.chip
      /\ Polled(r.fds, r.websocket_contexts, S)
      /\ ToSet(r.fds) = {e \in ToSet(p.fds) : e.fd # Whitebox}
  <2>1. CASE p.started
    <3>1. Whitebox \in S \cup Watched(p) /\ (S \cup Watched(p)) \ {Whitebox} = S
      BY <1>1, <1>2, <2>1 DEF Watched
    <3>2. Polled(s.fds, s.websocket_contexts, S \cup Watched(p))
      BY <1>1, <1>3
    <3>3. PollEnded(s, Whitebox, S \cup Watched(p), r)
      BY <1>3, <2>1, <3>1, <3>2, poll_end_fdIs
    <3> HIDE DEF r
    <3> QED BY <1>3, <3>1, <3>3 DEF PollEnded, Process
  <2>2. CASE ~p.started
    <3>1. S \cup Watched(p) = S /\ r = s
      BY <2>2 DEF Watched
    <3>2. \A e \in ToSet(p.fds) : e.fd # Whitebox
      BY <1>1, <1>2, <3>1 DEF Polled, ToSet
    <3> QED BY <1>1, <1>3, <3>1, <3>2
  <2> QED BY <2>1, <2>2
<1> HIDE DEF r
<1>5. /\ q \in Process /\ q.fds = r.fds /\ q.websocket_contexts = r.websocket_contexts
      /\ q.lws = p.lws /\ q.position = p.position /\ q.chip = r.chip
      /\ q.wsi = p.wsi /\ q.full = p.full /\ q.aborted = p.aborted
      /\ q.started = FALSE /\ q.txing = FALSE /\ q.rxing = FALSE
  BY <1>4 DEF Process
<1> HIDE DEF q
<1>6. Mirrored(q.fds, q.lws, q.position, S)
  BY <1>1, <1>4, <1>5 DEF Mirrored
<1>7. Tables(q, S)
  <2>1. S \cup (IF q.started THEN {Whitebox} ELSE {}) = S
    BY <1>5
  <2> QED BY <1>1, <1>4, <1>5, <1>6, <2>1 DEF Tables
<1>8. \A c \in Sockets : Asked(p.fds, c) => Asked(q.fds, c)
  BY <1>2, <1>4, <1>5 DEF Asked
<1> QED BY <1>2, <1>3, <1>4, <1>5, <1>7, <1>8 DEF ModemCall

(* Recovering tunes the chip for what was going on.                        *)
LEMMA modem_recoverIs ==
  ASSUME NEW p, NEW S, Tables(p, S), NEW ok \in BOOLEAN
  PROVE  LET q == modem_recover(p, ok)
         IN  /\ ModemCall(p, S, q) /\ q.fds = p.fds
             /\ q.websocket_contexts = p.websocket_contexts
             /\ q.started = p.started /\ q.txing = p.txing /\ q.rxing = p.rxing
             /\ q.chip # "off" => p.txing \/ p.rxing
<1> DEFINE q == modem_recover(p, ok)
<1>1. p \in Process
  BY DEF Tables
<1>2. /\ q \in Process /\ q.fds = p.fds /\ q.websocket_contexts = p.websocket_contexts
      /\ q.lws = p.lws /\ q.position = p.position /\ q.started = p.started
      /\ q.wsi = p.wsi /\ q.full = p.full /\ q.aborted = p.aborted
      /\ q.txing = p.txing /\ q.rxing = p.rxing
      /\ q.chip # "off" => p.txing \/ p.rxing
  BY <1>1 DEF Process, modem_recover, whitebox_reset, whitebox_tx, whitebox_rx
<1> HIDE DEF q
<1>3. Tables(q, S)
  BY <1>2, TablesFrame
<1> QED BY <1>2, <1>3 DEF ModemCall, q

----------------------------------------------------------------------------
(* Sessions *)

SameModem(p, q) ==
  q.started = p.started /\ q.txing = p.txing /\ q.rxing = p.rxing /\ q.chip = p.chip

SameTables(p, q) ==
  /\ q.fds = p.fds /\ q.websocket_contexts = p.websocket_contexts
  /\ q.lws = p.lws /\ q.position = p.position

(* A call for c leaves the other sessions alone, and what they asked for.  *)
Others(p, c, q) ==
  /\ \A d \in Clients \ {c} : q.wsi[d] = p.wsi[d]
  /\ \A d \in Sockets \ {c} : Asked(p.fds, d) => Asked(q.fds, d)

(* Only the session of c is another.                                       *)
Updated(p, c, w, q) ==
  /\ q \in Process /\ SameTables(p, q) /\ SameModem(p, q)
  /\ q.full = p.full /\ q.aborted = p.aborted
  /\ q.wsi[c] = w /\ \A d \in Clients \ {c} : q.wsi[d] = p.wsi[d]

(* An assignment to the session of c.                                      *)
LEMMA WsiUpdate ==
  ASSUME NEW p \in Process, NEW c \in Clients, NEW w \in Wsi
  PROVE  Updated(p, c, w, [p EXCEPT !.wsi[c] = w])
<1> DEFINE q == [p EXCEPT !.wsi[c] = w]
           f == [p.wsi EXCEPT ![c] = w]
<1>1. f \in [Clients -> Wsi] /\ f[c] = w /\ \A d \in Clients \ {c} : f[d] = p.wsi[d]
  BY DEF Process
<1>2. q = [p EXCEPT !.wsi = f]
  BY DEF Process
<1> HIDE DEF f
<1>3. q \in Process /\ q.wsi = f
  BY <1>1, <1>2 DEF Process
<1>4. SameTables(p, q) /\ SameModem(p, q) /\ q.full = p.full /\ q.aborted = p.aborted
  BY DEF Process, SameTables, SameModem
<1> QED BY <1>1, <1>3, <1>4 DEF Updated

(* The tables and the other sessions through such an assignment.           *)
LEMMA UpdatedKeeps ==
  ASSUME NEW p, NEW S, Tables(p, S), NEW c \in Clients, NEW w, NEW q, Updated(p, c, w, q)
  PROVE  Tables(q, S) /\ Others(p, c, q)
BY TablesFrame DEF Updated, SameTables, SameModem, Others

(* The connections there are after a call for one of them.                 *)
LEMMA PresentKept ==
  ASSUME NEW p, NEW c \in Clients, NEW q,
         \A d \in Clients \ {c} : q.wsi[d] = p.wsi[d],
         q.wsi[c].state = "none" <=> p.wsi[c].state = "none"
  PROVE  Present(q) = Present(p)
BY DEF Present

(* The modem does not mind a session that stays open.                      *)
LEMMA ModemKept ==
  ASSUME NEW p, Modem(p), NEW c \in Clients, NEW q, SameModem(p, q),
         \A d \in Clients \ {c} : q.wsi[d] = p.wsi[d],
         p.wsi[c].open => q.wsi[c].open
  PROVE  Modem(q)
BY DEF Modem, SameModem

(* What is to be shown of a call for c.                                    *)
LEMMA StillGood ==
  ASSUME NEW p, Good(p), NEW c \in Clients, NEW q, Tables(q, Present(q)), Others(p, c, q),
         Session(q, c), Modem(q), ~q.aborted
  PROVE  Good(q)
<1>1. ASSUME NEW d \in Clients PROVE Session(q, d)
  <2>1. CASE d = c
    BY <2>1
  <2>2. CASE d # c
    BY <2>2 DEF Good, Session, Others, Sockets
  <2> QED BY <2>1, <2>2
<1> QED BY <1>1 DEF Good

(* The facts a connection's call starts from.                              *)
LEMMA GoodFacts ==
  ASSUME NEW p, Good(p), NEW c \in Clients
  PROVE  /\ p \in Process /\ p.wsi[c] \in Wsi /\ c \in Sockets
         /\ Tables(p, Present(p)) /\ Session(p, c) /\ Modem(p) /\ p.aborted = FALSE
         /\ p.wsi[c].state # "none" => c \in Present(p)
         /\ c # Listener
<1>1. p \in Process
  BY DEF Good, Tables
<1>2. p.wsi[c] \in Wsi /\ p.aborted \in BOOLEAN
  BY <1>1 DEF Process
<1> QED BY <1>1, <1>2, FdsAssumption DEF Good, Present, Sockets

----------------------------------------------------------------------------
(* Sending *)

(* The session of c goes on, whatever its sends come to: bytes that are    *)
(* kept are asked for.                                                     *)
Along(p, c, S, q) ==
  /\ Tables(q, S) /\ Others(p, c, q) /\ SameModem(p, q)
  /\ Asked(p.fds, c) => Asked(q.fds, c)
  /\ q.wsi[c].state = p.wsi[c].state
  /\ q.wsi[c].ping_pending = p.wsi[c].ping_pending
  /\ q.wsi[c].pending_timeout = p.wsi[c].pending_timeout
  /\ q.wsi[c].open = p.wsi[c].open
  /\ q.wsi[c].truncated => p.wsi[c].truncated \/ Asked(q.fds, c)

(* Going along twice is going along.                                       *)
LEMMA AlongAgain ==
  ASSUME NEW p, NEW c \in Clients, NEW S, NEW q, NEW r, Along(p, c, S, q), Along(q, c, S, r)
  PROVE  Along(p, c, S, r)
BY DEF Along, Others, SameModem

(* Asking to be called when the socket is writable.                        *)
LEMMA OnWritable ==
  ASSUME NEW p, NEW S, NEW c \in Clients, c \in S, Tables(p, S)
  PROVE  LET q == libwebsocket_callback_on_writable(p, c)
         IN  /\ Along(p, c, S, q) /\ Asked(q.fds, c)
             /\ q.wsi = p.wsi /\ q.full = p.full /\ q.aborted = p.aborted
<1> DEFINE q == libwebsocket_callback_on_writable(p, c)
<1>1. {"out"} \in Events
  BY DEF Events
<1>2. LwsChanged(p, c, {"out"}, S, q)
  BY <1>1, lws_change_pollfdIs DEF libwebsocket_callback_on_writable
<1> HIDE DEF q
<1> QED BY <1>2 DEF LwsChanged, Along, Others, SameModem, SameRest, q

(* A send goes along; it aborts only on bytes still kept.                  *)
LEMMA lws_issue_rawIs ==
  ASSUME NEW p, NEW S, NEW c \in Clients, c \in S, Tables(p, S), NEW how
  PROVE  LET q == lws_issue_raw(p, c, how)
         IN  /\ Along(p, c, S, q)
             /\ q.wsi[c].buffers = p.wsi[c].buffers
             /\ ~p.wsi[c].truncated => q.aborted = p.aborted
<1> DEFINE w == p.wsi[c]
           q == lws_issue_raw(p, c, how)
           f == IF how = "whole" THEN p.full \ {c} ELSE p.full \cup {c}
           r == [p EXCEPT !.full = f]
<1>1. p \in Process /\ w \in Wsi
  BY DEF Tables, Process
<1>2. f \in SUBSET Clients
  BY <1>1 DEF Process
<1>3. r \in Process /\ SameTables(p, r) /\ SameModem(p, r) /\ r.wsi = p.wsi
      /\ r.aborted = p.aborted
  <2> HIDE DEF f
  <2> QED BY <1>1, <1>2 DEF Process, SameTables, SameModem
<1>4. Tables(r, S)
  BY <1>3, TablesFrame DEF SameTables, SameModem
<1>5. CASE w.truncated
  <2>1. q = [p EXCEPT !.aborted = TRUE]
    BY <1>5 DEF lws_issue_raw
  <2>2. q \in Process /\ SameTables(p, q) /\ SameModem(p, q) /\ q.wsi = p.wsi
    BY <1>1, <2>1 DEF Process, SameTables, SameModem
  <2> HIDE DEF q
  <2>3. Tables(q, S)
    BY <2>2, TablesFrame DEF SameTables, SameModem
  <2> QED BY <1>5, <2>2, <2>3 DEF Along, Others, SameTables, q
<1>6. CASE ~w.truncated /\ (how = "error" \/ w.unusable)
  <2> DEFINE v == [w EXCEPT !.unusable = TRUE]
  <2>1. v \in Wsi
    BY <1>1 DEF Wsi
  <2>2. q = [p EXCEPT !.wsi[c] = v]
    BY <1>6 DEF lws_issue_raw
  <2>3. v.state = w.state /\ v.ping_pending = w.ping_pending /\ v.open = w.open
        /\ v.pending_timeout = w.pending_timeout /\ v.truncated = w.truncated
        /\ v.buffers = w.buffers
    BY <1>1 DEF Wsi
  <2> HIDE DEF v, q
  <2>4. Updated(p, c, v, q)
    BY <1>1, <2>1, <2>2, WsiUpdate
  <2>5. Tables(q, S) /\ Others(p, c, q)
    BY <2>4, UpdatedKeeps
  <2> QED BY <1>6, <2>3, <2>4, <2>5 DEF Along, Updated, SameTables, q
<1>7. CASE ~w.truncated /\ how = "again" /\ ~w.unusable
  <2> DEFINE v == [w EXCEPT !.truncated = TRUE]
             u == [r EXCEPT !.wsi[c] = v]
  <2>1. v \in Wsi
    BY <1>1 DEF Wsi
  <2>2. q = libwebsocket_callback_on_writable(u, c)
    <3>1. [r EXCEPT !.wsi[c].truncated = TRUE] = [r EXCEPT !.wsi[c] = [r.wsi[c] EXCEPT !.truncated = TRUE]]
      BY <1>3 DEF Process
    <3>2. u = [r EXCEPT !.wsi[c].truncated = TRUE]
      BY <1>3, <3>1
    <3>3. q = libwebsocket_callback_on_writable([r EXCEPT !.wsi[c].truncated = TRUE], c)
      BY <1>7 DEF lws_issue_raw
    <3> HIDE DEF u, r
    <3> QED BY <3>2, <3>3
  <2>3. v.state = w.state /\ v.ping_pending = w.ping_pending /\ v.open = w.open
        /\ v.pending_timeout = w.pending_timeout /\ v.buffers = w.buffers
    BY <1>1 DEF Wsi
  <2> HIDE DEF v, r
  <2>4. Updated(r, c, v, u)
    BY <1>3, <2>1, WsiUpdate
  <2> HIDE DEF u
  <2>5. Tables(u, S) /\ Others(r, c, u)
    BY <1>4, <2>4, UpdatedKeeps
  <2>6. /\ Along(u, c, S, q) /\ Asked(q.fds, c)
        /\ q.wsi = u.wsi /\ q.full = u.full /\ q.aborted = u.aborted
    BY <2>2, <2>5, OnWritable
  <2> HIDE DEF q
  <2> QED BY <1>3, <1>7, <2>3, <2>4, <2>5, <2>6
          DEF Along, Others, Updated, SameTables, SameModem, q
<1>8. CASE ~w.truncated /\ ~(how = "error" \/ w.unusable) /\ ~(how = "again")
  <2>1. q = r
    BY <1>8 DEF lws_issue_raw
  <2> HIDE DEF r, q
  <2> QED BY <1>3, <1>4, <1>8, <2>1 DEF Along, Others, SameTables, q
<1> QED BY <1>5, <1>6, <1>7, <1>8

----------------------------------------------------------------------------
(* Loops.  A recursive function is CHOOSE f : f = F(f): that there is such *)
(* an f, and that it stays within a set X its steps do not leave, is shown *)
(* once for the loop that writes and once for the one that reads.          *)

(* Induction up to n, by the least number that is missing.                 *)
LEMMA Upwards ==
  ASSUME NEW n \in Nat, NEW S, 0 \in S, \A k \in 1 .. n : k - 1 \in S => k \in S
  PROVE  \A k \in 0 .. n : k \in S
<1> DEFINE T == {k \in 0 .. n : k \notin S}
<1> SUFFICES ASSUME T # {} PROVE FALSE
  OBVIOUS
<1>1. PICK m \in T : \A k \in T : m <= k
  <2>1. T \subseteq Nat
    OBVIOUS
  <2> HIDE DEF T
  <2> QED BY <2>1, LeastNat, Zenon
<1>2. m \in 1 .. n /\ m - 1 \in 0 .. n /\ m \notin S
  OBVIOUS
<1>3. m - 1 \notin T
  BY <1>1, <1>2
<1> QED BY <1>2, <1>3

(* r runs through X from p, by the steps of g.                             *)
IsRun(X, p, n, g, r) ==
  /\ r \in [0 .. n -> X]
  /\ r[0] = p
  /\ \A k \in 1 .. n : r[k] = g[k][r[k - 1]]

(* There is such a run.                                                    *)
LEMMA RunExists ==
  ASSUME NEW X, NEW p \in X, NEW n \in Nat, NEW g \in [1 .. n -> [X -> X]]
  PROVE  \E r : IsRun(X, p, n, g, r)
<1> DEFINE Run(m, r) == r[0] = p /\ \A k \in 1 .. m : r[k] = g[k][r[k - 1]]
           S == {m \in 0 .. n : \E r \in [0 .. m -> X] : Run(m, r)}
<1>1. 0 \in S
  <2> DEFINE r == [k \in 0 .. 0 |-> p]
  <2>1. r \in [0 .. 0 -> X] /\ Run(0, r)
    OBVIOUS
  <2> HIDE DEF r, Run
  <2>2. \E q \in [0 .. 0 -> X] : Run(0, q)
    BY <2>1, Zenon
  <2>3. 0 \in 0 .. n
    OBVIOUS
  <2> QED BY <2>2, <2>3, Zenon
<1>2. ASSUME NEW m \in 1 .. n, m - 1 \in S PROVE m \in S
  <2>1. PICK r \in [0 .. m - 1 -> X] : Run(m - 1, r)
    BY <1>2
  <2> DEFINE q == [k \in 0 .. m |-> IF k = m THEN g[m][r[m - 1]] ELSE r[k]]
  <2>2. g[m][r[m - 1]] \in X
    OBVIOUS
  <2>3. q \in [0 .. m -> X]
    BY <2>2
  <2>4. Run(m, q)
    <3>1. q[0] = p
      BY <2>1
    <3>2. ASSUME NEW k \in 1 .. m PROVE q[k] = g[k][q[k - 1]]
      <4>1. CASE k = m
        <5>1. q[m] = g[m][r[m - 1]]
          OBVIOUS
        <5>2. q[m - 1] = r[m - 1]
          OBVIOUS
        <5> HIDE DEF q
        <5> QED BY <4>1, <5>1, <5>2, Zenon
      <4>2. CASE k # m
        BY <2>1, <4>2
      <4> QED BY <4>1, <4>2
    <3> QED BY <3>1, <3>2
  <2> HIDE DEF q, Run
  <2>5. \E f \in [0 .. m -> X] : Run(m, f)
    BY <2>3, <2>4, Zenon
  <2>6. m \in 0 .. n
    OBVIOUS
  <2> QED BY <2>5, <2>6, Zenon
<1>3. n \in S
  <2> HIDE DEF S
  <2>1. \A k \in 1 .. n : k - 1 \in S => k \in S
    BY <1>2
  <2>2. \A k \in 0 .. n : k \in S
    BY <1>1, <2>1, Upwards, Zenon
  <2>3. n \in 0 .. n
    OBVIOUS
  <2> QED BY <2>2, <2>3, Zenon
<1>4. PICK r \in [0 .. n -> X] : Run(n, r)
  BY <1>3
<1>5. IsRun(X, p, n, g, r)
  BY <1>4 DEF IsRun
<1> QED BY <1>5

(* One turn of the loop that writes.                                       *)
LEMMA WriteOneIs ==
  ASSUME NEW p, NEW S, NEW c \in Clients, c \in S, Tables(p, S), NEW how
  PROVE  LET q == WriteOne(p, c, how)
         IN  /\ Along(p, c, S, q)
             /\ q.wsi[c].buffers = p.wsi[c].buffers - 1
             /\ ~p.wsi[c].truncated => q.aborted = p.aborted
<1> DEFINE r == libwebsocket_write(p, c, how)
           v == [r.wsi[c] EXCEPT !.buffers = @ - 1]
           q == WriteOne(p, c, how)
<1>1. /\ Along(p, c, S, r) /\ r.wsi[c].buffers = p.wsi[c].buffers
      /\ ~p.wsi[c].truncated => r.aborted = p.aborted
  <2>1. CASE p.wsi[c].state # "established"
    BY <2>1 DEF libwebsocket_write, Along, Others, SameModem
  <2>2. CASE p.wsi[c].state = "established"
    BY <2>2, lws_issue_rawIs DEF libwebsocket_write
  <2> QED BY <2>1, <2>2
<1> HIDE DEF r
<1>2. r \in Process /\ r.wsi[c] \in Wsi /\ Tables(r, S)
  BY <1>1 DEF Along, Tables, Process
<1>3. v \in Wsi /\ v.state = r.wsi[c].state /\ v.ping_pending = r.wsi[c].ping_pending
      /\ v.open = r.wsi[c].open /\ v.pending_timeout = r.wsi[c].pending_timeout
      /\ v.truncated = r.wsi[c].truncated /\ v.buffers = r.wsi[c].buffers - 1
  <2> DEFINE u == r.wsi[c]
             b == u.buffers - 1
  <2>1. u \in Wsi /\ b \in Int /\ v = [u EXCEPT !.buffers = b]
    <3>1. u \in Wsi
      BY <1>2
    <3>2. u.buffers \in Int
      BY <3>1 DEF Wsi
    <3>3. b \in Int
      BY <3>2
    <3>4. v = [u EXCEPT !.buffers = b]
      BY <3>1 DEF Wsi
    <3> QED BY <3>1, <3>3, <3>4
  <2> HIDE DEF b, v
  <2>2. v \in Wsi
    BY <2>1 DEF Wsi
  <2>3. v.state = u.state /\ v.ping_pending = u.ping_pending /\ v.open = u.open
        /\ v.pending_timeout = u.pending_timeout /\ v.truncated = u.truncated /\ v.buffers = b
    BY <2>1 DEF Wsi
  <2> QED BY <2>2, <2>3 DEF b
<1>4. q = [r EXCEPT !.wsi[c] = v]
  BY DEF WriteOne, r
<1> HIDE DEF v, q
<1>5. Updated(r, c, v, q)
  BY <1>2, <1>3, <1>4, WsiUpdate
<1>6. Tables(q, S) /\ Others(r, c, q)
  BY <1>2, <1>5, UpdatedKeeps
<1>7. Along(r, c, S, q)
  BY <1>3, <1>5, <1>6 DEF Along, Updated, SameTables
<1>8. Along(p, c, S, q)
  BY <1>1, <1>7, AlongAgain
<1> QED BY <1>1, <1>3, <1>5, <1>8 DEF Updated, q

(* The loop that writes, turn by turn.                                     *)
LEMMA WritesIs ==
  ASSUME NEW p, NEW S, NEW c \in Clients, c \in S, Tables(p, S), NEW Y, NEW hows \in Seq(Y)
  PROVE  /\ Writes(p, c, hows)[0] = p
         /\ \A k \in 0 .. Len(hows) : Along(p, c, S, Writes(p, c, hows)[k])
         /\ \A k \in 1 .. Len(hows) :
              Writes(p, c, hows)[k] = WriteOne(Writes(p, c, hows)[k - 1], c, hows[k])
<1> DEFINE X == {q \in Process : Along(p, c, S, q)}
           n == Len(hows)
           F(r) == [k \in 0 .. n |-> IF k = 0 THEN p ELSE WriteOne(r[k - 1], c, hows[k])]
           g == [k \in 1 .. n |-> [x \in X |-> WriteOne(x, c, hows[k])]]
           f == Writes(p, c, hows)
<1>1. n \in Nat
  OBVIOUS
<1>2. p \in X
  BY DEF Along, Others, SameModem, Tables
<1>3. \A x \in X : \A how : WriteOne(x, c, how) \in X
  <2> SUFFICES ASSUME NEW x \in X, NEW how PROVE WriteOne(x, c, how) \in X
    OBVIOUS
  <2>1. Along(x, c, S, WriteOne(x, c, how))
    BY WriteOneIs DEF Along
  <2>2. Along(p, c, S, WriteOne(x, c, how))
    BY <2>1, AlongAgain
  <2> QED BY <2>2 DEF Along, Tables
<1> HIDE DEF X
<1>4. g \in [1 .. n -> [X -> X]]
  BY <1>3
<1>5. PICK r : IsRun(X, p, n, g, r)
  <2> HIDE DEF g, n
  <2> QED BY <1>1, <1>2, <1>4, RunExists, Zenon
<1>6. r = F(r)
  <2>1. \A k \in 1 .. n : r[k] = WriteOne(r[k - 1], c, hows[k])
    <3> SUFFICES ASSUME NEW k \in 1 .. n PROVE r[k] = WriteOne(r[k - 1], c, hows[k])
      OBVIOUS
    <3>1. r[k - 1] \in X /\ r[k] = g[k][r[k - 1]]
      <4> HIDE DEF g
      <4> QED BY <1>1, <1>5 DEF IsRun
    <3>2. \A x \in X : g[k][x] = WriteOne(x, c, hows[k])
      OBVIOUS
    <3> HIDE DEF g, n
    <3> QED BY <3>1, <3>2
  <2> HIDE DEF g
  <2> QED BY <1>1, <1>5, <2>1 DEF IsRun
<1>7. f = CHOOSE h : h = F(h)
  BY DEF Writes
<1>8. f = F(f)
  <2> HIDE DEF F, f
  <2> QED BY <1>6, <1>7
<1> HIDE DEF f
<1>9. f[0] = p /\ \A k \in 1 .. n : f[k] = WriteOne(f[k - 1], c, hows[k])
  <2>1. \A k \in 0 .. n : F(f)[k] = IF k = 0 THEN p ELSE WriteOne(f[k - 1], c, hows[k])
    OBVIOUS
  <2> HIDE DEF F
  <2>2. \A k \in 0 .. n : f[k] = IF k = 0 THEN p ELSE WriteOne(f[k - 1], c, hows[k])
    BY <1>8, <2>1, Zenon
  <2> HIDE DEF n
  <2> QED BY <1>1, <2>2
<1>10. \A k \in 0 .. n : f[k] \in X
  <2> DEFINE I == {j \in 0 .. n : f[j] \in X}
  <2>1. 0 \in I
    BY <1>1, <1>2, <1>9
  <2>2. \A k \in 1 .. n : k - 1 \in I => k \in I
    BY <1>1, <1>3, <1>9
  <2>3. \A k \in 0 .. n : k \in I
    <3> HIDE DEF I, n
    <3> QED BY <1>1, <2>1, <2>2, Upwards, Zenon
  <2> QED BY <2>3
<1> QED BY <1>9, <1>10 DEF f, X

(* SERVER_WRITEABLE writes as long as it may: it never writes on bytes     *)
(* still kept, takes no more from the queue than there is, and asks to be  *)
(* called again for what is left.                                          *)
LEMMA ServerWriteableIs ==
  ASSUME NEW p, NEW S, NEW c \in Clients, c \in S, Tables(p, S),
         p.aborted = FALSE, ~p.wsi[c].truncated, p.wsi[c].buffers \in Nat,
         NEW Y, NEW hows \in Seq(Y), Outcomes(p, c, hows)
  PROVE  LET q == ServerWriteable(p, c, hows)
         IN  /\ Along(p, c, S, q) /\ q.aborted = FALSE
             /\ q.wsi[c].buffers \in 0 .. p.wsi[c].buffers
             /\ q.wsi[c].open /\ q.wsi[c].buffers > 0 => Asked(q.fds, c)
<1> DEFINE n == Len(hows)
           b == p.wsi[c].buffers
           f == Writes(p, c, hows)
           r == WriteOut(p, c, hows)
           q == ServerWriteable(p, c, hows)
<1>1. n \in Nat
  OBVIOUS
<1>2. /\ f[0] = p
      /\ \A k \in 0 .. n : Along(p, c, S, f[k])
      /\ \A k \in 1 .. n : f[k] = WriteOne(f[k - 1], c, hows[k])
  BY WritesIs
<1>3. n > 0 => b > 0 /\ \A k \in 1 .. n - 1 : ~f[k].wsi[c].truncated /\ f[k].wsi[c].buffers # 0
  <2> SUFFICES ASSUME n > 0
               PROVE  b > 0 /\ \A k \in 1 .. n - 1 :
                                 ~f[k].wsi[c].truncated /\ f[k].wsi[c].buffers # 0
    OBVIOUS
  <2>1. hows # <<>>
    OBVIOUS
  <2>2. b # 0 /\ \A k \in 1 .. n : WritingStops(f[k], c) <=> k = n
    BY <2>1 DEF Outcomes
  <2> HIDE DEF f, n, b
  <2>3. \A k \in 1 .. n - 1 : k \in 1 .. n /\ k # n
    BY <1>1
  <2>4. \A k \in 1 .. n - 1 : ~WritingStops(f[k], c)
    BY <2>2, <2>3
  <2> QED BY <2>2, <2>4 DEF WritingStops, lws_send_pipe_choked, b
<1>4. \A k \in 0 .. n : f[k].aborted = FALSE /\ f[k].wsi[c].buffers = b - k
  <2> DEFINE I == {k \in 0 .. n : f[k].aborted = FALSE /\ f[k].wsi[c].buffers = b - k}
  <2>1. 0 \in I
    BY <1>1, <1>2
  <2>2. ASSUME NEW k \in 1 .. n, k - 1 \in I PROVE k \in I
    <3>1. k - 1 \in 0 .. n /\ Tables(f[k - 1], S)
      BY <1>1, <1>2 DEF Along
    <3>2. ~f[k - 1].wsi[c].truncated
      <4>1. CASE k = 1
        BY <1>2, <4>1
      <4>2. CASE k # 1
        <5>1. k - 1 \in 1 .. n - 1 /\ n > 0
          BY <1>1, <4>2
        <5> HIDE DEF f, n
        <5> QED BY <1>3, <5>1
      <4> QED BY <4>1, <4>2
    <3>3. f[k - 1].aborted = FALSE /\ f[k - 1].wsi[c].buffers = b - (k - 1)
      BY <2>2
    <3>4. f[k].aborted = f[k - 1].aborted /\ f[k].wsi[c].buffers = f[k - 1].wsi[c].buffers - 1
      <4> HIDE DEF f
      <4> QED BY <1>2, <3>1, <3>2, WriteOneIs
    <3> HIDE DEF f
    <3> QED BY <1>1, <3>3, <3>4
  <2>3. \A k \in 0 .. n : k \in I
    <3> HIDE DEF I, n
    <3>1. \A k \in 1 .. n : k - 1 \in I => k \in I
      BY <2>2
    <3> QED BY <1>1, <2>1, <3>1, Upwards, Zenon
  <2> HIDE DEF f
  <2> QED BY <2>3
<1>5. n <= b
  <2> SUFFICES ASSUME n > b PROVE FALSE
    BY <1>1
  <2> HIDE DEF f, n
  <2>1. b \in 1 .. n - 1 /\ b \in 0 .. n
    BY <1>1, <1>3
  <2>2. f[b].wsi[c].buffers # 0 /\ f[b].wsi[c].buffers = b - b
    <3> HIDE DEF b
    <3> QED BY <1>1, <1>3, <1>4, <2>1
  <2> QED BY <2>2
<1>6. /\ Along(p, c, S, r) /\ r.aborted = FALSE
      /\ r.wsi[c].buffers = b - n
  <2>1. n \in 0 .. n /\ r = f[n]
    BY <1>1 DEF WriteOut
  <2> HIDE DEF f, n, r
  <2> QED BY <1>2, <1>4, <2>1
<1>7. r.wsi[c].buffers \in 0 .. b
  <2> HIDE DEF r, n
  <2> QED BY <1>1, <1>5, <1>6
<1>8. CASE r.wsi[c].open /\ r.wsi[c].buffers > 0
  <2>1. q = libwebsocket_callback_on_writable(r, c)
    BY <1>8 DEF ServerWriteable
  <2> HIDE DEF r, q
  <2>2. Tables(r, S)
    BY <1>6 DEF Along
  <2>3. Along(r, c, S, q) /\ Asked(q.fds, c) /\ q.wsi = r.wsi /\ q.aborted = r.aborted
    BY <2>1, <2>2, OnWritable
  <2>4. Along(p, c, S, q)
    BY <1>6, <2>3, AlongAgain
  <2> QED BY <1>6, <1>7, <2>3, <2>4 DEF q
<1>9. CASE ~(r.wsi[c].open /\ r.wsi[c].buffers > 0)
  <2>1. q = r
    BY <1>9 DEF ServerWriteable
  <2> HIDE DEF r, q
  <2> QED BY <1>6, <1>7, <1>9, <2>1 DEF q
<1> QED BY <1>8, <1>9

----------------------------------------------------------------------------
(* The callbacks of lib/server.cpp *)

(* A session may change as long as what it has to send is asked for.       *)
LEMMA GoodUpdate ==
  ASSUME NEW p, Good(p), NEW c \in Clients, NEW w \in Wsi,
         w.state = "none" <=> p.wsi[c].state = "none",
         Shape(w), Pending(w) => Asked(p.fds, c), p.wsi[c].open => w.open
  PROVE  LET q == [p EXCEPT !.wsi[c] = w]
         IN  Good(q) /\ Updated(p, c, w, q)
<1> DEFINE q == [p EXCEPT !.wsi[c] = w]
<1>1. p \in Process /\ Tables(p, Present(p)) /\ Modem(p) /\ p.aborted = FALSE
  BY GoodFacts
<1>2. Updated(p, c, w, q)
  BY <1>1, WsiUpdate
<1> HIDE DEF q
<1>3. Tables(q, Present(p)) /\ Others(p, c, q)
  BY <1>1, <1>2, UpdatedKeeps
<1>4. Present(q) = Present(p)
  BY <1>2, PresentKept DEF Updated
<1>5. Modem(q)
  BY <1>1, <1>2, ModemKept DEF Updated
<1>6. Session(q, c)
  BY <1>2 DEF Session, Updated, SameTables
<1>7. Good(q)
  BY <1>1, <1>2, <1>3, <1>4, <1>5, <1>6, StillGood DEF Updated
<1> QED BY <1>2, <1>7 DEF q

(* The other sessions are as they were.                                    *)
Apart(p, c, q) == \A d \in Clients \ {c} : q.wsi[d] = p.wsi[d]

(* A session of c changes, and asks to be called when it may write.        *)
LEMMA AskGood ==
  ASSUME NEW p, Good(p), NEW c \in Clients, NEW w \in Wsi, Shape(w),
         p.wsi[c].state # "none", w.state # "none", p.wsi[c].open => w.open
  PROVE  LET q == libwebsocket_callback_on_writable([p EXCEPT !.wsi[c] = w], c)
         IN  Good(q) /\ Apart(p, c, q) /\ q.wsi[c] = w
<1> DEFINE r == [p EXCEPT !.wsi[c] = w]
           q == libwebsocket_callback_on_writable(r, c)
<1>1. /\ p \in Process /\ Tables(p, Present(p)) /\ Modem(p)
      /\ p.aborted = FALSE /\ c \in Present(p)
  BY GoodFacts
<1>2. Updated(p, c, w, r)
  BY <1>1, WsiUpdate
<1> HIDE DEF r
<1>3. Tables(r, Present(p)) /\ Others(p, c, r)
  BY <1>1, <1>2, UpdatedKeeps
<1>4. /\ Along(r, c, Present(p), q) /\ Asked(q.fds, c)
      /\ q.wsi = r.wsi /\ q.aborted = r.aborted
  BY <1>1, <1>3, OnWritable
<1> HIDE DEF q
<1>5. q.wsi[c] = w /\ Apart(p, c, q) /\ q.aborted = FALSE
  BY <1>1, <1>2, <1>4 DEF Updated, Apart
<1>6. Present(q) = Present(p)
  BY <1>5, PresentKept DEF Apart
<1>7. Others(p, c, q)
  BY <1>3, <1>4 DEF Others, Along
<1>8. Modem(q)
  <2>1. SameModem(p, q)
    BY <1>2, <1>4 DEF Updated, Along, SameModem
  <2> QED BY <1>1, <1>5, <2>1, ModemKept DEF Apart
<1>9. Session(q, c)
  BY <1>4, <1>5 DEF Session
<1>10. Good(q)
  <2>1. Tables(q, Present(q))
    BY <1>4, <1>6 DEF Along
  <2> QED BY <1>5, <1>7, <1>8, <1>9, <2>1, StillGood
<1> QED BY <1>5, <1>10 DEF q, r

(* A status is queued and asked for.                                       *)
LEMMA send_statusIs ==
  ASSUME NEW p, Good(p), NEW c \in Clients, p.wsi[c].state \notin {"none", "http"}
  PROVE  LET q == send_status(p, c)
         IN  /\ Good(q) /\ Apart(p, c, q)
             /\ q.wsi[c].state = p.wsi[c].state
             /\ q.wsi[c].open = p.wsi[c].open
             /\ q.wsi[c].buffers = p.wsi[c].buffers + 1
<1> DEFINE v == p.wsi[c]
           b == v.buffers + 1
           w == [v EXCEPT !.buffers = b]
           r == [p EXCEPT !.wsi[c] = w]
           q == libwebsocket_callback_on_writable(r, c)
<1>1. p \in Process /\ v \in Wsi /\ Session(p, c)
  BY GoodFacts
<1>2. v.buffers \in Int /\ v.buffers >= 0
  BY <1>1 DEF Wsi, Session, Shape
<1>3. b \in Int /\ b >= 0
  BY <1>2
<1>4. send_status(p, c) = q
  <2>1. r = [p EXCEPT !.wsi[c].buffers = @ + 1]
    BY <1>1 DEF Process
  <2> HIDE DEF r
  <2> QED BY <2>1 DEF send_status, server_data_out
<1> HIDE DEF b
<1>5. w \in Wsi /\ w.state = v.state /\ w.open = v.open /\ w.buffers = b
  BY <1>1, <1>3 DEF Wsi
<1> HIDE DEF w
<1>6. Shape(w)
  BY <1>3, <1>5 DEF Shape
<1>7. Good(q) /\ Apart(p, c, q) /\ q.wsi[c] = w
  BY <1>5, <1>6, AskGood
<1> QED BY <1>4, <1>5, <1>7 DEF b

(* A call of the modem for an open session.                                *)
LEMMA ModemCallGood ==
  ASSUME NEW p, Good(p), NEW c \in Clients, NEW q, ModemCall(p, Present(p), q), Modem(q)
  PROVE  Good(q)
<1>1. p \in Process /\ Session(p, c) /\ p.aborted = FALSE
  BY GoodFacts
<1>2. Present(q) = Present(p)
  BY DEF ModemCall, Present
<1>3. Others(p, c, q) /\ Session(q, c) /\ ~q.aborted
  BY <1>1 DEF ModemCall, Others, Session, Sockets
<1> QED BY <1>2, <1>3, StillGood DEF ModemCall

(* A command that ends the session puts the modem in standby.              *)
LEMMA EndIs ==
  ASSUME NEW p, Good(p), NEW c \in Clients, p.wsi[c].state \notin {"none", "http"}
  PROVE  LET q == modem_standby(Ended(p, c))
         IN  /\ Good(q) /\ Apart(p, c, q)
             /\ q.wsi[c].state = p.wsi[c].state
             /\ q.wsi[c].open = FALSE
             /\ q.wsi[c].buffers = 0
<1> DEFINE v == p.wsi[c]
           w == [v EXCEPT !.open = FALSE, !.buffers = 0]
           r == [p EXCEPT !.wsi[c] = w]
           q == modem_standby(r)
<1>1. /\ p \in Process /\ v \in Wsi /\ Tables(p, Present(p)) /\ Session(p, c) /\ Modem(p)
      /\ p.aborted = FALSE /\ c \in Present(p)
  BY GoodFacts
<1>2. modem_standby(Ended(p, c)) = q
  <2>1. r = Ended(p, c)
    BY <1>1 DEF Process, Ended
  <2> HIDE DEF r
  <2> QED BY <2>1
<1>3. w \in Wsi /\ w.state = v.state /\ w.open = FALSE /\ w.buffers = 0
      /\ w.truncated = v.truncated /\ w.ping_pending = v.ping_pending
  <2>1. v \in Wsi
    BY <1>1
  <2> HIDE DEF v
  <2>2. w \in Wsi
    <3> DEFINE u == [v EXCEPT !.open = FALSE]
    <3>1. u \in Wsi
      BY <2>1 DEF Wsi
    <3> HIDE DEF u
    <3>2. \A z \in Int : [u EXCEPT !.buffers = z] \in Wsi
      BY <3>1 DEF Wsi
    <3>3. [u EXCEPT !.buffers = 0] \in Wsi
      BY <3>2
    <3> QED BY <3>3 DEF u
  <2>3. w.state = v.state /\ w.open = FALSE /\ w.buffers = 0
        /\ w.truncated = v.truncated /\ w.ping_pending = v.ping_pending
    BY <2>1 DEF Wsi
  <2> QED BY <2>2, <2>3
<1> HIDE DEF w
<1>4. Updated(p, c, w, r)
  BY <1>1, <1>3, WsiUpdate
<1> HIDE DEF r
<1>5. Tables(r, Present(p)) /\ Others(p, c, r)
  BY <1>1, <1>4, UpdatedKeeps
<1>6. /\ ModemCall(r, Present(p), q) /\ ~q.started /\ ~q.txing /\ ~q.rxing
      /\ q.chip = IF r.txing \/ r.rxing THEN "off" ELSE r.chip
  BY <1>5, modem_standbyIs
<1> HIDE DEF q
<1>7. q.wsi[c] = w /\ Apart(p, c, q) /\ q.aborted = FALSE
  BY <1>1, <1>4, <1>6 DEF Updated, Apart, ModemCall
<1>8. Present(q) = Present(p)
  BY <1>3, <1>7, PresentKept DEF Apart
<1>9. Others(p, c, q)
  BY <1>4, <1>5, <1>6 DEF Others, ModemCall
<1>10. Modem(q)
  BY <1>1, <1>4, <1>6 DEF Modem, Updated, SameModem
<1>11. Session(q, c)
  <2>1. Asked(p.fds, c) => Asked(q.fds, c)
    BY <1>4, <1>6 DEF Updated, SameTables, ModemCall, Sockets
  <2> QED BY <1>1, <1>3, <1>7, <2>1 DEF Session, Shape, Pending
<1>12. Good(q)
  <2>1. Tables(q, Present(q))
    BY <1>6, <1>8 DEF ModemCall
  <2> QED BY <1>7, <1>9, <1>10, <1>11, <2>1, StillGood
<1> QED BY <1>2, <1>3, <1>7, <1>12

(* A command of an open session.                                           *)
LEMMA commandIs ==
  ASSUME Room, NEW p, Good(p), NEW c \in Clients, p.wsi[c].open, NEW ok \in BOOLEAN,
         NEW cmd \in {"transmit", "receive", "set", "close"}
  PROVE  LET q == command(p, c, cmd, ok)
         IN  /\ Good(q) /\ Apart(p, c, q)
             /\ q.wsi[c].state = p.wsi[c].state
             /\ q.wsi[c].buffers <= p.wsi[c].buffers + 1
<1> DEFINE q == command(p, c, cmd, ok)
<1>1. /\ p \in Process /\ p.wsi[c] \in Wsi /\ Tables(p, Present(p)) /\ Session(p, c)
      /\ Modem(p) /\ p.aborted = FALSE
  BY GoodFacts
<1>2. p.wsi[c].state \notin {"none", "http"} /\ p.wsi[c].buffers \in Nat
  <2>1. ~NoWsi.open
    BY DEF NoWsi
  <2>2. p.wsi[c].buffers \in Int
    BY <1>1 DEF Wsi
  <2> QED BY <1>1, <2>1, <2>2 DEF Session, Shape
<1>3. ASSUME NEW r, ModemCall(p, Present(p), r), Modem(r), q = send_status(r, c)
      PROVE  /\ Good(q) /\ Apart(p, c, q)
             /\ q.wsi[c].state = p.wsi[c].state
             /\ q.wsi[c].buffers <= p.wsi[c].buffers + 1
  <2>1. Good(r) /\ r.wsi = p.wsi
    BY <1>3, ModemCallGood DEF ModemCall
  <2>2. /\ Good(q) /\ Apart(r, c, q)
        /\ q.wsi[c].state = r.wsi[c].state
        /\ q.wsi[c].buffers = r.wsi[c].buffers + 1
    <3> HIDE DEF q
    <3> QED BY <1>2, <1>3, <2>1, send_statusIs
  <2> HIDE DEF q
  <2> QED BY <1>2, <2>1, <2>2 DEF Apart
<1>4. CASE cmd = "transmit"
  <2> DEFINE r == modem_transmit(p, ok)
  <2>1. q = send_status(r, c)
    BY <1>4 DEF command
  <2>2. ModemCall(p, Present(p), r) /\ r.started /\ r.txing
    BY <1>1, modem_transmitIs
  <2> HIDE DEF r, q
  <2>3. Modem(r)
    BY <2>2 DEF ModemCall, Modem
  <2> QED BY <1>3, <2>1, <2>2, <2>3 DEF q
<1>5. CASE cmd = "receive"
  <2> DEFINE r == modem_receive(p, ok)
  <2>1. q = send_status(r, c)
    BY <1>5 DEF command
  <2>2. ModemCall(p, Present(p), r) /\ r.started /\ r.rxing
    BY <1>1, modem_receiveIs
  <2> HIDE DEF r, q
  <2>3. Modem(r)
    BY <2>2 DEF ModemCall, Modem
  <2> QED BY <1>3, <2>1, <2>2, <2>3 DEF q
<1>6. CASE cmd = "set"
  <2>1. q = send_status(p, c)
    BY <1>6 DEF command, modem_set_frequency
  <2>2. ModemCall(p, Present(p), p)
    BY <1>1 DEF ModemCall
  <2> HIDE DEF q
  <2> QED BY <1>1, <1>3, <2>1, <2>2 DEF q
<1>7. CASE cmd = "close"
  <2>1. q = modem_standby(Ended(p, c))
    BY <1>7 DEF command
  <2>2. /\ Good(q) /\ Apart(p, c, q)
        /\ q.wsi[c].state = p.wsi[c].state /\ q.wsi[c].buffers = 0
    <3> HIDE DEF q
    <3> QED BY <1>2, <2>1, EndIs
  <2> HIDE DEF q
  <2> QED BY <1>2, <2>2 DEF q
<1> QED BY <1>4, <1>5, <1>6, <1>7

----------------------------------------------------------------------------
(* The session of a socket: libwebsockets.c, parsers.c, handshake.c        *)

(* No session is a session.                                                *)
LEMMA NoWsiType == NoWsi \in Wsi /\ NoWsi.state = "none" /\ ~NoWsi.open /\ Shape(NoWsi)
                   /\ ~Pending(NoWsi) /\ NoWsi.buffers = 0 /\ ~NoWsi.unusable
                   /\ ~NoWsi.pending_timeout
BY DEF NoWsi, Wsi, Shape, Pending

(* A close leaves no session, or puts it off for bytes still kept.         *)
ClosedOrFlushing(p, c, q) ==
  \/ q.wsi[c] = NoWsi
  \/ /\ q.wsi[c].state = "flushing" /\ q.wsi[c].buffers = p.wsi[c].buffers
     /\ p.wsi[c].state # "http" /\ ~p.wsi[c].unusable

(* Closing a connection keeps everything in order.                         *)
LEMMA CloseIs ==
  ASSUME NEW p, Good(p), NEW c \in Clients, p.wsi[c].state # "none"
  PROVE  LET q == libwebsocket_close_and_free_session(p, c)
         IN  Good(q) /\ Apart(p, c, q) /\ ClosedOrFlushing(p, c, q)
<1> DEFINE v == p.wsi[c]
           S == Present(p)
           a == remove_wsi_socket_from_fds(p, c)
           r == IF v.state = "http" THEN a ELSE Closed(a, c)
           q == libwebsocket_close_and_free_session(p, c)
<1>1. /\ p \in Process /\ v \in Wsi /\ Tables(p, S) /\ Session(p, c) /\ Modem(p)
      /\ p.aborted = FALSE /\ c \in S /\ c # Listener /\ c \in Sockets
  BY GoodFacts
<1>2. CASE v.truncated /\ ~v.unusable
  <2>1. v.state # "http" /\ Asked(p.fds, c)
    BY <1>1, <1>2 DEF Session, Shape, Pending
  <2>2. CASE v.state = "flushing"
    <3>1. q = libwebsocket_callback_on_writable(p, c)
      BY <1>2, <2>2 DEF libwebsocket_close_and_free_session
    <3>2. [p EXCEPT !.wsi[c] = v] = p
      BY <1>1 DEF Process
    <3>3. Good(q) /\ Apart(p, c, q) /\ q.wsi[c] = v
      <4>1. Shape(v)
        BY <1>1 DEF Session
      <4> HIDE DEF q
      <4>2. q = libwebsocket_callback_on_writable([p EXCEPT !.wsi[c] = v], c)
        BY <3>1, <3>2
      <4> QED BY <1>1, <4>1, <4>2, AskGood
    <3> HIDE DEF q
    <3> QED BY <1>2, <2>2, <3>3 DEF ClosedOrFlushing, q
  <2>3. CASE v.state # "flushing"
    <3> DEFINE w == [v EXCEPT !.state = "flushing", !.pending_timeout = TRUE]
    <3>1. q = [p EXCEPT !.wsi[c] = w]
      <4>1. [p EXCEPT !.wsi[c].state = "flushing", !.wsi[c].pending_timeout = TRUE]
              = [p EXCEPT !.wsi[c] = w]
        BY <1>1 DEF Process
      <4>2. q = [p EXCEPT !.wsi[c].state = "flushing", !.wsi[c].pending_timeout = TRUE]
        BY <1>2, <2>3 DEF libwebsocket_close_and_free_session
      <4> QED BY <4>1, <4>2
    <3>2. w \in Wsi /\ w.state = "flushing" /\ w.open = v.open /\ w.buffers = v.buffers
      BY <1>1 DEF Wsi
    <3> HIDE DEF w
    <3>3. Shape(w)
      BY <1>1, <3>2 DEF Session, Shape
    <3>4. Good(q) /\ Updated(p, c, w, q)
      <4> HIDE DEF q
      <4> QED BY <2>1, <3>1, <3>2, <3>3, GoodUpdate
    <3> HIDE DEF q
    <3> QED BY <1>2, <2>1, <3>2, <3>4 DEF ClosedOrFlushing, Updated, Apart, q
  <2> QED BY <2>2, <2>3
<1>3. CASE ~(v.truncated /\ ~v.unusable)
  <2>1. Removed(p, c, S, a)
    BY <1>1, remove_wsi_socket_from_fdsIs
  <2> HIDE DEF a
  <2>2. /\ Tables(r, S \ {c}) /\ Others(p, c, r) /\ r.aborted = FALSE
        /\ r.started \/ r.txing \/ r.rxing \/ r.chip # "off" => SameModem(p, r) /\ ~v.open
    <3>1. CASE v.state = "http" \/ ~v.open
      <4>1. ~v.open /\ r = a
        BY <1>1, <2>1, <3>1 DEF Session, Shape, Closed, Removed, SameRest
      <4> QED BY <1>1, <2>1, <4>1 DEF Removed, SameRest, SameModem, Others
    <3>2. CASE v.state # "http" /\ v.open
      <4> DEFINE w == [v EXCEPT !.open = FALSE, !.buffers = 0]
                 u == [a EXCEPT !.wsi[c] = w]
      <4>1. a \in Process /\ a.wsi = p.wsi /\ Tables(a, S \ {c})
        BY <2>1 DEF Removed, SameRest, Tables
      <4>2. r = modem_standby(u)
        <5>1. Ended(a, c) = [a EXCEPT !.wsi[c] = [a.wsi[c] EXCEPT !.open = FALSE, !.buffers = 0]]
          BY <4>1 DEF Ended, Process
        <5>2. Ended(a, c) = u
          BY <4>1, <5>1
        <5> HIDE DEF u
        <5> QED BY <3>2, <4>1, <5>2 DEF Closed
      <4>3. w \in Wsi
        <5> DEFINE x == [v EXCEPT !.open = FALSE]
        <5>1. x \in Wsi
          BY <1>1 DEF Wsi
        <5> HIDE DEF x
        <5>2. \A z \in Int : [x EXCEPT !.buffers = z] \in Wsi
          BY <5>1 DEF Wsi
        <5>3. [x EXCEPT !.buffers = 0] \in Wsi
          BY <5>2
        <5> QED BY <5>3 DEF x
      <4> HIDE DEF w
      <4>4. Updated(a, c, w, u)
        BY <4>1, <4>3, WsiUpdate
      <4> HIDE DEF u
      <4>5. Tables(u, S \ {c}) /\ Others(a, c, u)
        BY <4>1, <4>4, UpdatedKeeps
      <4>6. /\ ModemCall(u, S \ {c}, r) /\ ~r.started /\ ~r.txing /\ ~r.rxing
            /\ r.chip = IF u.txing \/ u.rxing THEN "off" ELSE u.chip
        <5> HIDE DEF r
        <5> QED BY <4>2, <4>5, modem_standbyIs
      <4> HIDE DEF r
      <4>7. Others(p, c, r)
        BY <2>1, <4>5, <4>6 DEF Removed, SameRest, Others, ModemCall
      <4>8. r.chip = "off"
        BY <1>1, <2>1, <4>4, <4>6 DEF Modem, Removed, SameRest, Updated, SameModem
      <4>9. r.aborted = FALSE
        BY <1>1, <2>1, <4>4, <4>6 DEF Removed, SameRest, Updated, ModemCall
      <4> QED BY <4>6, <4>7, <4>8, <4>9 DEF ModemCall
    <3> QED BY <3>1, <3>2
  <2>3. q = [r EXCEPT !.wsi[c] = NoWsi, !.full = @ \ {c}]
    BY <1>3 DEF libwebsocket_close_and_free_session, a
  <2> HIDE DEF r, q
  <2> DEFINE u == [r EXCEPT !.wsi[c] = NoWsi]
  <2>4. r \in Process
    BY <2>2 DEF Tables
  <2>5. Updated(r, c, NoWsi, u)
    BY <2>4, NoWsiType, WsiUpdate
  <2>6. q = [u EXCEPT !.full = u.full \ {c}]
    BY <2>3, <2>4 DEF Process
  <2> HIDE DEF u
  <2>7. q \in Process /\ SameTables(u, q) /\ SameModem(u, q) /\ q.wsi = u.wsi
        /\ q.aborted = u.aborted
    BY <2>5, <2>6 DEF Updated, Process, SameTables, SameModem
  <2>8. /\ q.wsi[c] = NoWsi /\ Apart(p, c, q) /\ q.aborted = FALSE
        /\ SameTables(r, q) /\ SameModem(r, q)
    BY <2>2, <2>5, <2>7 DEF Others, Apart, Updated, SameTables, SameModem
  <2>9. Tables(q, S \ {c}) /\ Others(p, c, q)
    <3>1. Tables(q, S \ {c})
      BY <2>2, <2>7, <2>8, TablesFrame DEF SameTables, SameModem
    <3> QED BY <2>2, <2>8, <3>1 DEF Others, Apart, SameTables
  <2>10. Present(q) = S \ {c}
    BY <1>1, <2>8, NoWsiType DEF Present, Apart
  <2>11. Modem(q)
    <3>1. CASE r.started \/ r.txing \/ r.rxing \/ r.chip # "off"
      <4>1. SameModem(p, q) /\ ~v.open
        BY <2>2, <2>8, <3>1 DEF SameModem
      <4> QED BY <1>1, <2>8, <4>1, ModemKept DEF Apart
    <3>2. CASE ~(r.started \/ r.txing \/ r.rxing \/ r.chip # "off")
      BY <2>8, <3>2 DEF Modem, SameModem
    <3> QED BY <3>1, <3>2
  <2>12. Session(q, c)
    BY <2>8, NoWsiType DEF Session
  <2>13. Good(q)
    BY <2>8, <2>9, <2>10, <2>11, <2>12, StillGood
  <2> QED BY <2>8, <2>13 DEF ClosedOrFlushing, q
<1> QED BY <1>2, <1>3

(* What has been read so far: the process in order, c not closed yet.      *)
Reading(p, c, r) ==
  /\ r \in [p : Process, bail : BOOLEAN]
  /\ Good(r.p) /\ Apart(p, c, r.p)
  /\ r.p.wsi[c].state \in {"established", "returned close"}

(* One frame read.                                                         *)
LEMMA libwebsocket_rx_smIs ==
  ASSUME Room, NEW p, NEW c \in Clients, NEW r, Reading(p, c, r),
         NEW frame \in Frames, NEW ok \in BOOLEAN
  PROVE  LET q == libwebsocket_rx_sm(r, c, frame, ok)
         IN  Reading(p, c, q) /\ q.p.wsi[c].buffers <= r.p.wsi[c].buffers + 1
<1> DEFINE t == r.p
           v == t.wsi[c]
           ping(s) == libwebsocket_callback_on_writable([s EXCEPT !.wsi[c].ping_pending = TRUE], c)
           q == libwebsocket_rx_sm(r, c, frame, ok)
<1>1. /\ r \in [p : Process, bail : BOOLEAN] /\ Good(r.p) /\ Apart(p, c, r.p)
      /\ v.state \in {"established", "returned close"}
  BY DEF Reading
<1>2. r.p \in Process /\ v \in Wsi /\ Session(r.p, c) /\ v.buffers >= 0
      /\ v.buffers <= v.buffers + 1
  <2>1. r.p \in Process /\ v \in Wsi /\ Session(r.p, c)
    BY <1>1, GoodFacts
  <2> HIDE DEF v
  <2>2. v.buffers \in Int
    BY <2>1 DEF Wsi
  <2> QED BY <2>1, <2>2 DEF Session, Shape, v
<1>3. ASSUME NEW s, Good(s), Apart(r.p, c, s),
             s.wsi[c].state \in {"established", "returned close"},
             s.wsi[c].buffers <= v.buffers + 1,
             q = [r EXCEPT !.p = s] \/ (q = [r EXCEPT !.bail = TRUE] /\ s = r.p)
      PROVE  Reading(p, c, q) /\ q.p.wsi[c].buffers <= r.p.wsi[c].buffers + 1
  <2>1. s \in Process
    BY <1>3 DEF Good, Tables
  <2>2. q \in [p : Process, bail : BOOLEAN] /\ q.p = s
    <3> HIDE DEF q
    <3> QED BY <1>1, <1>3, <2>1
  <2> HIDE DEF q
  <2> QED BY <1>1, <1>3, <2>2 DEF Reading, Apart
<1>4. ASSUME NEW w \in Wsi, Shape(w), w.state \in {"established", "returned close"},
             v.open => w.open, w.buffers = v.buffers,
             q = [r EXCEPT !.p = libwebsocket_callback_on_writable([r.p EXCEPT !.wsi[c] = w], c)]
      PROVE  Reading(p, c, q) /\ q.p.wsi[c].buffers <= r.p.wsi[c].buffers + 1
  <2> DEFINE s == libwebsocket_callback_on_writable([r.p EXCEPT !.wsi[c] = w], c)
  <2>1. Good(s) /\ Apart(r.p, c, s) /\ s.wsi[c] = w
    <3>1. Good(t) /\ t.wsi[c].state # "none" /\ w.state # "none" /\ (t.wsi[c].open => w.open)
      BY <1>1, <1>4
    <3>2. LET u == libwebsocket_callback_on_writable([t EXCEPT !.wsi[c] = w], c)
          IN  Good(u) /\ Apart(t, c, u) /\ u.wsi[c] = w
      <4>1. w \in Wsi /\ Shape(w)
        BY <1>4
      <4> HIDE DEF t, q
      <4> QED BY <3>1, <4>1, AskGood
    <3> QED BY <3>2, Zenon
  <2>2. q = [r EXCEPT !.p = s]
    <3> HIDE DEF q
    <3> QED BY <1>4
  <2> HIDE DEF s, q
  <2>3. s.wsi[c].buffers <= v.buffers + 1
    <3>1. s.wsi[c].buffers = v.buffers
      BY <1>4, <2>1
    <3> HIDE DEF v
    <3> QED BY <1>2, <3>1
  <2> QED BY <1>3, <1>4, <2>1, <2>2, <2>3 DEF q
<1>5. CASE r.bail
  <2>1. q = r
    BY <1>5 DEF libwebsocket_rx_sm
  <2> HIDE DEF q
  <2> QED BY <1>2, <2>1 DEF q
<1>6. CASE ~r.bail /\ frame = "close frame" /\ v.state = "returned close"
  <2>1. q = [r EXCEPT !.bail = TRUE]
    BY <1>6 DEF libwebsocket_rx_sm
  <2> HIDE DEF q
  <2>2. q \in [p : Process, bail : BOOLEAN] /\ q.p = r.p
    BY <1>1, <2>1
  <2>3. Reading(p, c, q)
    BY <1>1, <2>2 DEF Reading
  <2>4. q.p.wsi[c].buffers <= r.p.wsi[c].buffers + 1
    BY <1>2, <2>2, Zenon
  <2> QED BY <2>3, <2>4 DEF q
<1>7. CASE ~r.bail /\ frame = "close frame" /\ v.state # "returned close"
  <2> DEFINE w == [v EXCEPT !.state = "returned close", !.ping_pending = TRUE]
  <2>1. q = [r EXCEPT !.p = ping([r.p EXCEPT !.wsi[c].state = "returned close"])]
    BY <1>7 DEF libwebsocket_rx_sm
  <2>2. [[r.p EXCEPT !.wsi[c].state = "returned close"] EXCEPT !.wsi[c].ping_pending = TRUE]
          = [r.p EXCEPT !.wsi[c] = w]
    BY <1>2 DEF Process
  <2>3. q = [r EXCEPT !.p = libwebsocket_callback_on_writable([r.p EXCEPT !.wsi[c] = w], c)]
    <3> HIDE DEF q, w
    <3> QED BY <2>1, <2>2
  <2>4. w \in Wsi /\ w.state = "returned close" /\ w.open = v.open /\ w.buffers = v.buffers
    BY <1>2 DEF Wsi
  <2> HIDE DEF w, q
  <2>5. Shape(w)
    BY <1>2, <2>4 DEF Shape
  <2> QED BY <1>4, <2>3, <2>4, <2>5 DEF q
<1>8. CASE ~r.bail /\ frame = "ping"
  <2>1. CASE v.ping_pending
    <3>1. q = [r EXCEPT !.p = r.p]
      BY <1>8, <2>1 DEF libwebsocket_rx_sm
    <3> HIDE DEF q
    <3>2. q \in [p : Process, bail : BOOLEAN] /\ q.p = r.p
      BY <1>1, <1>2, <3>1
    <3>3. Reading(p, c, q)
      BY <1>1, <3>2 DEF Reading
    <3>4. q.p.wsi[c].buffers <= r.p.wsi[c].buffers + 1
      BY <1>2, <3>2, Zenon
    <3> QED BY <3>3, <3>4 DEF q
  <2>2. CASE ~v.ping_pending
    <3> DEFINE w == [v EXCEPT !.ping_pending = TRUE]
    <3>1. q = [r EXCEPT !.p = ping(r.p)]
      BY <1>8, <2>2 DEF libwebsocket_rx_sm
    <3>2. [r.p EXCEPT !.wsi[c].ping_pending = TRUE] = [r.p EXCEPT !.wsi[c] = w]
      BY <1>2 DEF Process
    <3>3. q = [r EXCEPT !.p = libwebsocket_callback_on_writable([r.p EXCEPT !.wsi[c] = w], c)]
      <4> HIDE DEF q, w
      <4> QED BY <3>1, <3>2
    <3>4. w \in Wsi /\ w.state = v.state /\ w.open = v.open /\ w.buffers = v.buffers
      BY <1>2 DEF Wsi
    <3> HIDE DEF w, q
    <3>5. Shape(w)
      BY <1>1, <1>2, <3>4 DEF Shape
    <3> QED BY <1>1, <1>4, <3>3, <3>4, <3>5 DEF q
  <2> QED BY <2>1, <2>2
<1>9. CASE ~r.bail /\ frame \notin {"ping", "close frame"}
  <2>1. CASE v.open
    <3> DEFINE s == command(r.p, c, frame, ok)
    <3>1. q = [r EXCEPT !.p = s]
      BY <1>9, <2>1 DEF libwebsocket_rx_sm
    <3>2. frame \in {"transmit", "receive", "set", "close"}
      BY <1>9 DEF Frames
    <3>3. Good(s) /\ Apart(r.p, c, s) /\ s.wsi[c].state = v.state
          /\ s.wsi[c].buffers <= v.buffers + 1
      <4>1. Good(t) /\ t.wsi[c].open
        BY <1>1, <2>1
      <4>2. LET u == command(t, c, frame, ok)
            IN  Good(u) /\ Apart(t, c, u) /\ u.wsi[c].state = t.wsi[c].state
                /\ u.wsi[c].buffers <= t.wsi[c].buffers + 1
        <5> HIDE DEF t
        <5> QED BY <3>2, <4>1, commandIs
      <4> QED BY <4>2, Zenon
    <3> HIDE DEF s, q
    <3> QED BY <1>1, <1>3, <3>1, <3>3 DEF q
  <2>2. CASE ~v.open
    <3>1. q = [r EXCEPT !.p = r.p]
      BY <1>9, <2>2 DEF libwebsocket_rx_sm
    <3> HIDE DEF q
    <3>2. q \in [p : Process, bail : BOOLEAN] /\ q.p = r.p
      BY <1>1, <1>2, <3>1
    <3>3. Reading(p, c, q)
      BY <1>1, <3>2 DEF Reading
    <3>4. q.p.wsi[c].buffers <= r.p.wsi[c].buffers + 1
      BY <1>2, <3>2, Zenon
    <3> QED BY <3>3, <3>4 DEF q
  <2> QED BY <2>1, <2>2
<1> QED BY <1>5, <1>6, <1>7, <1>8, <1>9

(* The loop that reads, to its end: a status at most for each frame.       *)
LEMMA ReadsIs ==
  ASSUME Room, NEW p, Good(p), NEW c \in Clients, p.wsi[c].state = "established",
         NEW frames \in Seq(Frames), NEW ok \in BOOLEAN
  PROVE  LET r == Reads(p, c, frames, ok)[Len(frames)]
         IN  Reading(p, c, r) /\ r.p.wsi[c].buffers <= p.wsi[c].buffers + Len(frames)
<1> DEFINE X == {q \in [p : Process, bail : BOOLEAN] : Reading(p, c, q)}
           n == Len(frames)
           x0 == [p |-> p, bail |-> FALSE]
           F(r) == [k \in 0 .. n |-> IF k = 0 THEN [p |-> p, bail |-> FALSE]
                                     ELSE libwebsocket_rx_sm(r[k - 1], c, frames[k], ok)]
           g == [k \in 1 .. n |-> [x \in X |-> libwebsocket_rx_sm(x, c, frames[k], ok)]]
           f == Reads(p, c, frames, ok)
<1>1. n \in Nat /\ \A k \in 1 .. n : frames[k] \in Frames
  OBVIOUS
<1>2. p \in Process /\ p.wsi[c] \in Wsi
  BY GoodFacts
<1>3. x0 \in X
  BY <1>2 DEF Reading, Apart
<1>4. \A x \in X : \A k \in 1 .. n : libwebsocket_rx_sm(x, c, frames[k], ok) \in X
  <2> SUFFICES ASSUME NEW x \in X, NEW k \in 1 .. n
               PROVE  libwebsocket_rx_sm(x, c, frames[k], ok) \in X
    OBVIOUS
  <2>1. Reading(p, c, libwebsocket_rx_sm(x, c, frames[k], ok))
    BY <1>1, libwebsocket_rx_smIs
  <2> QED BY <2>1 DEF Reading
<1>5. \A x \in X : x.p.wsi[c].buffers \in Int
  <2> SUFFICES ASSUME NEW x \in X PROVE x.p.wsi[c].buffers \in Int
    OBVIOUS
  <2>1. x.p.wsi[c] \in Wsi
    BY GoodFacts DEF Reading
  <2> QED BY <2>1 DEF Wsi
<1>6. \A x \in X : \A k \in 1 .. n :
        libwebsocket_rx_sm(x, c, frames[k], ok).p.wsi[c].buffers <= x.p.wsi[c].buffers + 1
  BY <1>1, libwebsocket_rx_smIs
<1>7. \A x \in X : Reading(p, c, x)
  OBVIOUS
<1> HIDE DEF X
<1>8. g \in [1 .. n -> [X -> X]]
  BY <1>4
<1>9. PICK r : IsRun(X, x0, n, g, r)
  <2> HIDE DEF g, n, x0
  <2> QED BY <1>1, <1>3, <1>8, RunExists, Zenon
<1>10. r = F(r)
  <2>1. \A k \in 1 .. n : r[k] = libwebsocket_rx_sm(r[k - 1], c, frames[k], ok)
    <3> SUFFICES ASSUME NEW k \in 1 .. n
                 PROVE  r[k] = libwebsocket_rx_sm(r[k - 1], c, frames[k], ok)
      OBVIOUS
    <3>1. r[k - 1] \in X /\ r[k] = g[k][r[k - 1]]
      <4> HIDE DEF g, x0
      <4> QED BY <1>1, <1>9 DEF IsRun
    <3>2. \A x \in X : g[k][x] = libwebsocket_rx_sm(x, c, frames[k], ok)
      OBVIOUS
    <3> HIDE DEF g, n
    <3> QED BY <3>1, <3>2
  <2>2. r[0] = [p |-> p, bail |-> FALSE]
    BY <1>9 DEF IsRun
  <2> HIDE DEF g, x0
  <2> QED BY <1>1, <1>9, <2>1, <2>2 DEF IsRun
<1>11. f = CHOOSE h : h = F(h)
  BY DEF Reads
<1>12. f = F(f)
  <2> HIDE DEF F, f
  <2> QED BY <1>10, <1>11
<1> HIDE DEF f
<1>13. f[0] = x0 /\ \A k \in 1 .. n : f[k] = libwebsocket_rx_sm(f[k - 1], c, frames[k], ok)
  <2>1. \A k \in 0 .. n : F(f)[k] = IF k = 0 THEN [p |-> p, bail |-> FALSE]
                                    ELSE libwebsocket_rx_sm(f[k - 1], c, frames[k], ok)
    OBVIOUS
  <2> HIDE DEF F
  <2>2. \A k \in 0 .. n : f[k] = IF k = 0 THEN [p |-> p, bail |-> FALSE]
                                 ELSE libwebsocket_rx_sm(f[k - 1], c, frames[k], ok)
    BY <1>12, <2>1, Zenon
  <2>3. f[0] = x0
    <3>1. 0 \in 0 .. n
      BY <1>1
    <3> HIDE DEF n
    <3> QED BY <2>2, <3>1, Zenon
  <2>4. \A k \in 1 .. n : k \in 0 .. n /\ k # 0
    BY <1>1
  <2> HIDE DEF n
  <2>5. \A k \in 1 .. n : f[k] = libwebsocket_rx_sm(f[k - 1], c, frames[k], ok)
    BY <2>2, <2>4, Zenon
  <2> QED BY <2>3, <2>5
<1>14. \A k \in 0 .. n : f[k] \in X /\ f[k].p.wsi[c].buffers <= p.wsi[c].buffers + k
  <2> DEFINE I == {j \in 0 .. n : f[j] \in X /\ f[j].p.wsi[c].buffers <= p.wsi[c].buffers + j}
  <2>0. p.wsi[c].buffers \in Int
    BY <1>2 DEF Wsi
  <2>1. 0 \in I
    BY <1>1, <1>3, <1>13, <2>0
  <2>2. ASSUME NEW k \in 1 .. n, k - 1 \in I PROVE k \in I
    <3>1. f[k - 1] \in X /\ f[k - 1].p.wsi[c].buffers <= p.wsi[c].buffers + (k - 1)
      BY <2>2
    <3>2. f[k] \in X /\ f[k].p.wsi[c].buffers <= f[k - 1].p.wsi[c].buffers + 1
      BY <1>4, <1>6, <1>13, <3>1
    <3>3. f[k].p.wsi[c].buffers \in Int /\ f[k - 1].p.wsi[c].buffers \in Int
      BY <1>5, <3>1, <3>2
    <3>4. f[k].p.wsi[c].buffers <= p.wsi[c].buffers + k
      <4> DEFINE x == f[k].p.wsi[c].buffers
                 y == f[k - 1].p.wsi[c].buffers
                 z == p.wsi[c].buffers
      <4>1. x <= y + 1 /\ y <= z + (k - 1) /\ x \in Int /\ y \in Int /\ z \in Int
        BY <2>0, <3>1, <3>2, <3>3, Zenon
      <4>2. k \in Int
        BY <1>1
      <4> HIDE DEF x, y, z
      <4>3. x <= z + k
        BY <4>1, <4>2
      <4> QED BY <4>3, Zenon DEF x, z
    <3> QED BY <1>1, <3>2, <3>4
  <2>3. \A k \in 0 .. n : k \in I
    <3> HIDE DEF I, n
    <3>1. \A k \in 1 .. n : k - 1 \in I => k \in I
      BY <2>2
    <3> QED BY <1>1, <2>1, <3>1, Upwards, Zenon
  <2> QED BY <2>3
<1>15. n \in 0 .. n
  BY <1>1
<1> HIDE DEF n
<1> QED BY <1>7, <1>14, <1>15 DEF f, n

(* How far a call for c that read n frames may change its session: a       *)
(* status at most for each, and one when it is established.                *)
Within(p, c, n, q) ==
  /\ q.wsi[c].state = "http" => p.wsi[c].state = "http"
  /\ q.wsi[c].state \notin {"none", "http"} =>
       IF p.wsi[c].state = "http" THEN q.wsi[c].buffers <= 1 /\ n = 1
       ELSE p.wsi[c].state # "none" /\ q.wsi[c].buffers <= p.wsi[c].buffers + n

(* A close is within any bound.                                            *)
LEMMA CloseWithin ==
  ASSUME NEW p, Good(p), NEW c \in Clients, NEW r, p.wsi[c].state # "none",
         ClosedOrFlushing(p, c, r), NEW n \in Nat
  PROVE  Within(p, c, n, r)
<1>1. p.wsi[c].buffers \in Int
  BY GoodFacts DEF Wsi
<1> QED BY <1>1, NoWsiType DEF ClosedOrFlushing, Within

(* What was read of a socket.                                              *)
LEMMA libwebsocket_readIs ==
  ASSUME Room, NEW p, Good(p), NEW c \in Clients, p.wsi[c].state # "none",
         NEW frames, NEW ok \in BOOLEAN,
         p.wsi[c].state = "http" => frames \in {<<"upgrade">>, <<"get">>},
         p.wsi[c].state # "http" => frames \in Seq(Frames)
  PROVE  LET q == libwebsocket_read(p, c, frames, ok)
         IN  Good(q) /\ Apart(p, c, q) /\ Within(p, c, Len(frames), q)
<1> DEFINE v == p.wsi[c]
           q == libwebsocket_read(p, c, frames, ok)
<1>1. /\ p \in Process /\ v \in Wsi /\ Tables(p, Present(p)) /\ Session(p, c) /\ Modem(p)
      /\ p.aborted = FALSE
  BY GoodFacts
<1>2. v.buffers \in Int /\ v.buffers >= 0
  <2>1. v \in Wsi
    BY <1>1
  <2>2. v.buffers \in Int
    BY <2>1 DEF Wsi
  <2> QED BY <1>1, <2>2 DEF Session, Shape
<1>3. Len(frames) \in Nat
  <2>1. CASE v.state = "http"
    BY <2>1
  <2>2. CASE v.state # "http"
    BY <2>2
  <2> QED BY <2>1, <2>2
<1>4. CASE v.state = "established"
  <2> DEFINE r == Reads(p, c, frames, ok)[Len(frames)]
             s == r.p
  <2>1. q = IF r.bail THEN libwebsocket_close_and_free_session(s, c) ELSE s
    BY <1>4 DEF libwebsocket_read
  <2>2. Reading(p, c, r) /\ r.p.wsi[c].buffers <= v.buffers + Len(frames)
    BY <1>4, ReadsIs
  <2> HIDE DEF r
  <2>3. Good(s) /\ Apart(p, c, s) /\ s.wsi[c].state \in {"established", "returned close"}
        /\ s.wsi[c].buffers <= v.buffers + Len(frames)
    BY <2>2 DEF Reading
  <2> HIDE DEF s, q
  <2>4. Within(p, c, Len(frames), s)
    BY <1>4, <2>3 DEF Within
  <2>5. CASE r.bail
    <3>1. Good(q) /\ Apart(s, c, q) /\ ClosedOrFlushing(s, c, q)
      BY <2>1, <2>3, <2>5, CloseIs
    <3>2. Within(p, c, Len(frames), q)
      BY <1>4, <2>3, <3>1, NoWsiType DEF Within, ClosedOrFlushing
    <3> QED BY <2>3, <3>1, <3>2 DEF Apart, q
  <2>6. CASE ~r.bail
    BY <2>1, <2>3, <2>4, <2>6 DEF q
  <2> QED BY <2>5, <2>6
<1>5. CASE v.state = "http" /\ Head(frames) = "upgrade"
  <2> DEFINE w == [v EXCEPT !.pending_timeout = FALSE, !.state = "established", !.open = TRUE]
             r == [p EXCEPT !.wsi[c] = w]
  <2>1. q = send_status(r, c)
    <3> DEFINE h == [[p EXCEPT !.wsi[c].pending_timeout = FALSE] EXCEPT !.wsi[c].state = "established"]
    <3>1. [h EXCEPT !.wsi[c].open = TRUE] = r
      BY <1>1 DEF Process
    <3>2. q = Established(h, c)
      BY <1>5 DEF libwebsocket_read
    <3> HIDE DEF h, r
    <3> QED BY <3>1, <3>2 DEF Established
  <2>2. w \in Wsi /\ w.state = "established" /\ w.open = TRUE /\ w.buffers = v.buffers
        /\ w.truncated = v.truncated /\ w.ping_pending = v.ping_pending
    BY <1>1 DEF Wsi
  <2> HIDE DEF w
  <2>3. Shape(w) /\ ~Pending(w) /\ w.buffers = 0
    BY <1>1, <1>5, <2>2 DEF Session, Shape, Pending
  <2>4. Good(r) /\ Updated(p, c, w, r)
    BY <1>5, <2>2, <2>3, GoodUpdate
  <2> HIDE DEF r, q
  <2>5. r.wsi[c] = w /\ Apart(p, c, r)
    BY <2>4 DEF Updated, Apart
  <2>6. Good(q) /\ Apart(r, c, q) /\ q.wsi[c].state = r.wsi[c].state
        /\ q.wsi[c].buffers = r.wsi[c].buffers + 1
    BY <2>1, <2>2, <2>4, <2>5, send_statusIs
  <2>7. Len(frames) = 1
    BY <1>5
  <2>8. Within(p, c, Len(frames), q)
    BY <1>5, <2>2, <2>3, <2>5, <2>6, <2>7 DEF Within
  <2> QED BY <2>5, <2>6, <2>8 DEF Apart, q
<1>6. CASE v.state = "http" /\ Head(frames) # "upgrade"
  <2>1. CASE ok
    <3> DEFINE w == [v EXCEPT !.pending_timeout = FALSE]
               r == [p EXCEPT !.wsi[c] = w]
    <3>1. q = r
      <4>1. [p EXCEPT !.wsi[c].pending_timeout = FALSE] = r
        BY <1>1 DEF Process
      <4>2. q = [p EXCEPT !.wsi[c].pending_timeout = FALSE]
        BY <1>6, <2>1 DEF libwebsocket_read
      <4> QED BY <4>1, <4>2
    <3>2. w \in Wsi /\ w.state = v.state /\ w.open = v.open /\ w.buffers = v.buffers
          /\ w.truncated = v.truncated /\ w.ping_pending = v.ping_pending
      BY <1>1 DEF Wsi
    <3> HIDE DEF w
    <3>3. Shape(w) /\ ~Pending(w)
      BY <1>1, <1>6, <3>2 DEF Session, Shape, Pending
    <3>4. Good(r) /\ Updated(p, c, w, r)
      BY <1>6, <3>2, <3>3, GoodUpdate
    <3> HIDE DEF r, q
    <3> QED BY <1>6, <3>1, <3>2, <3>4 DEF Updated, Apart, Within, q
  <2>2. CASE ~ok
    <3>1. q = libwebsocket_close_and_free_session(p, c)
      BY <1>6, <2>2 DEF libwebsocket_read
    <3> HIDE DEF q
    <3>2. Good(q) /\ Apart(p, c, q) /\ ClosedOrFlushing(p, c, q)
      BY <3>1, CloseIs
    <3> QED BY <1>3, <3>2, CloseWithin DEF q
  <2> QED BY <2>1, <2>2
<1>7. CASE v.state \notin {"established", "http"}
  <2>1. q = p
    BY <1>7 DEF libwebsocket_read
  <2>2. Within(p, c, Len(frames), p)
    BY <1>2, <1>3, <1>7 DEF Within
  <2> HIDE DEF q
  <2> QED BY <2>1, <2>2 DEF Apart, q
<1> QED BY <1>4, <1>5, <1>6, <1>7

----------------------------------------------------------------------------
(* Serving a socket: service.c, server.c *)

(* A session that goes on as it was.                                       *)
LEMMA GoodSame ==
  ASSUME NEW p, Good(p), NEW c \in Clients, NEW q, Tables(q, Present(p)), Others(p, c, q),
         SameModem(p, q), q.wsi[c].state = p.wsi[c].state, q.wsi[c].open = p.wsi[c].open,
         Session(q, c), ~q.aborted
  PROVE  Good(q) /\ Apart(p, c, q)
<1>1. Present(q) = Present(p)
  BY PresentKept DEF Others
<1>2. Modem(q)
  BY ModemKept DEF Good, Others
<1>3. Good(q)
  BY <1>1, <1>2, StillGood
<1> QED BY <1>3 DEF Others, Apart

(* What may be sent: the sends are a sequence, and the loop that writes    *)
(* starts and stops where it should.                                       *)
LEMMA PossibleSendsIs ==
  ASSUME NEW p, NEW c \in Clients, p.wsi[c].buffers \in Nat, NEW hows \in PossibleSends(p, c)
  PROVE  \/ p.wsi[c].truncated
         \/ p.wsi[c].ping_pending /\ p.wsi[c].state = "established"
         \/ /\ hows \in Seq(Sends \cup {"error", "whole"})
            /\ Outcomes(lws_change_pollfd(p, c, {"out"}, {}), c, hows)
<1> DEFINE how == IF sock[c] = "rst" THEN {"error"} ELSE IF c \in Slow THEN Sends ELSE {"whole"}
           Y == Sends \cup {"error", "whole"}
<1>1. SUFFICES ASSUME ~p.wsi[c].truncated,
                      ~(p.wsi[c].ping_pending /\ p.wsi[c].state = "established")
               PROVE  hows \in Seq(Y) /\ Outcomes(lws_change_pollfd(p, c, {"out"}, {}), c, hows)
  OBVIOUS
<1>2. hows \in {s \in UNION {[1 .. n -> how] : n \in 0 .. p.wsi[c].buffers} :
                  Outcomes(lws_change_pollfd(p, c, {"out"}, {}), c, s)}
  BY <1>1 DEF PossibleSends
<1>3. PICK n \in 0 .. p.wsi[c].buffers : hows \in [1 .. n -> how]
  <2> HIDE DEF how
  <2> QED BY <1>2
<1>4. how \subseteq Y
  OBVIOUS
<1> HIDE DEF how, Y
<1>5. hows \in Seq(Y)
  <2>1. n \in Nat
    OBVIOUS
  <2> QED BY <1>3, <1>4, <2>1
<1> QED BY <1>2, <1>5

(* POLLOUT of a session: nothing that is left to send is forgotten.        *)
LEMMA lws_handle_POLLOUT_eventIs ==
  ASSUME NEW p, Good(p), NEW c \in Clients, p.wsi[c].state \notin {"none", "http"},
         NEW hows \in PossibleSends(p, c)
  PROVE  LET o == lws_handle_POLLOUT_event(p, c, hows)
         IN  /\ Good(o.p) /\ Apart(p, c, o.p)
             /\ o.p.wsi[c].state = p.wsi[c].state
             /\ o.p.wsi[c].buffers <= p.wsi[c].buffers
<1> DEFINE v == p.wsi[c]
           S == Present(p)
           how == hows[1]
           q == lws_handle_POLLOUT_event(p, c, hows).p
<1>1. /\ p \in Process /\ v \in Wsi /\ Tables(p, S) /\ Session(p, c) /\ Modem(p)
      /\ p.aborted = FALSE /\ c \in S /\ c \in Sockets
  BY GoodFacts
<1>2. v.buffers \in Int /\ v.buffers >= 0 /\ v.buffers \in Nat /\ v.buffers <= v.buffers
  <2>1. v \in Wsi /\ Session(p, c)
    BY <1>1
  <2>2. v.buffers >= 0
    BY <2>1 DEF Session, Shape
  <2> HIDE DEF v
  <2>3. v.buffers \in Int
    BY <2>1 DEF Wsi
  <2> QED BY <2>2, <2>3
<1>3. CASE v.truncated /\ how = "error"
  <2> DEFINE w == [v EXCEPT !.unusable = TRUE]
  <2>1. q = [p EXCEPT !.wsi[c] = w]
    <3>1. [p EXCEPT !.wsi[c].unusable = TRUE] = [p EXCEPT !.wsi[c] = w]
      BY <1>1 DEF Process
    <3>2. q = [p EXCEPT !.wsi[c].unusable = TRUE]
      BY <1>3 DEF lws_handle_POLLOUT_event
    <3> QED BY <3>1, <3>2
  <2>2. w \in Wsi /\ w.state = v.state /\ w.open = v.open /\ w.buffers = v.buffers
        /\ w.truncated = v.truncated /\ w.ping_pending = v.ping_pending
    BY <1>1 DEF Wsi
  <2> HIDE DEF w, q
  <2>3. Shape(w) /\ (Pending(w) => Asked(p.fds, c))
    BY <1>1, <2>2 DEF Session, Shape, Pending
  <2>4. Good(q) /\ Updated(p, c, w, q)
    BY <2>1, <2>2, <2>3, GoodUpdate
  <2> QED BY <1>2, <2>2, <2>4 DEF Updated, Apart, q
<1>4. CASE v.truncated /\ how # "error"
  <2> DEFINE w == [v EXCEPT !.truncated = (how = "again")]
             f == IF how = "whole" THEN p.full \ {c} ELSE p.full \cup {c}
             r == [p EXCEPT !.full = f]
  <2>1. q = libwebsocket_callback_on_writable([r EXCEPT !.wsi[c] = w], c)
    <3>1. [p EXCEPT !.wsi[c].truncated = how = "again", !.full = f] = [r EXCEPT !.wsi[c] = w]
      <4> HIDE DEF f
      <4> QED BY <1>1 DEF Process
    <3>2. q = libwebsocket_callback_on_writable(
                [p EXCEPT !.wsi[c].truncated = how = "again", !.full = f], c)
      BY <1>4 DEF lws_handle_POLLOUT_event, IssueTruncated
    <3> HIDE DEF r, f, w, how
    <3> QED BY <3>1, <3>2
  <2>2. f \in SUBSET Clients
    BY <1>1 DEF Process
  <2> HIDE DEF f
  <2>3. r \in Process /\ SameTables(p, r) /\ SameModem(p, r) /\ r.wsi = p.wsi
        /\ r.aborted = p.aborted
    BY <1>1, <2>2 DEF Process, SameTables, SameModem
  <2> HIDE DEF r
  <2>4. Good(r)
    <3>1. Tables(r, S)
      BY <1>1, <2>3, TablesFrame DEF SameTables, SameModem
    <3>2. Others(p, c, r) /\ Session(r, c) /\ ~r.aborted
      BY <1>1, <2>3 DEF Others, Session, SameTables
    <3> QED BY <2>3, <3>1, <3>2, GoodSame
  <2>5. w \in Wsi /\ w.state = v.state /\ w.open = v.open /\ w.buffers = v.buffers
    <3>1. (how = "again") \in BOOLEAN
      OBVIOUS
    <3>2. \A b \in BOOLEAN : LET u == [v EXCEPT !.truncated = b]
                             IN  u \in Wsi /\ u.state = v.state /\ u.open = v.open
                                 /\ u.buffers = v.buffers
      BY <1>1 DEF Wsi
    <3> HIDE DEF how
    <3> QED BY <3>1, <3>2
  <2> HIDE DEF w
  <2>6. Shape(w)
    BY <1>2, <2>5 DEF Shape
  <2>7. Good(q) /\ Apart(r, c, q) /\ q.wsi[c] = w
    <3> HIDE DEF q
    <3> QED BY <2>1, <2>3, <2>4, <2>5, <2>6, AskGood
  <2> HIDE DEF q
  <2> QED BY <1>2, <2>3, <2>5, <2>7 DEF Apart, q
<1>5. CASE ~v.truncated /\ v.state = "established" /\ v.ping_pending
  <2> DEFINE r == lws_issue_raw(p, c, how)
             w == [r.wsi[c] EXCEPT !.ping_pending = FALSE]
  <2>1. q = [r EXCEPT !.wsi[c].ping_pending = FALSE]
    BY <1>5 DEF lws_handle_POLLOUT_event
  <2>2. Along(p, c, S, r) /\ r.wsi[c].buffers = v.buffers /\ r.aborted = FALSE
    BY <1>1, <1>5, lws_issue_rawIs
  <2> HIDE DEF r
  <2>3. r \in Process /\ r.wsi[c] \in Wsi /\ Tables(r, S)
    BY <2>2 DEF Along, Tables, Process
  <2>4. q = [r EXCEPT !.wsi[c] = w]
    <3>1. [r EXCEPT !.wsi[c].ping_pending = FALSE] = [r EXCEPT !.wsi[c] = w]
      BY <2>3 DEF Process
    <3> QED BY <2>1, <3>1
  <2>5. w \in Wsi /\ w.state = r.wsi[c].state /\ w.open = r.wsi[c].open
        /\ w.buffers = r.wsi[c].buffers /\ w.truncated = r.wsi[c].truncated
        /\ w.ping_pending = FALSE
    BY <2>3 DEF Wsi
  <2> HIDE DEF w, q
  <2>6. Updated(r, c, w, q)
    BY <2>3, <2>4, <2>5, WsiUpdate
  <2>7. Tables(q, S) /\ Others(r, c, q)
    BY <2>3, <2>6, UpdatedKeeps
  <2>8. Others(p, c, q) /\ SameModem(p, q) /\ q.wsi[c] = w /\ ~q.aborted
        /\ w.state = v.state /\ w.open = v.open /\ w.buffers = v.buffers
    BY <2>2, <2>5, <2>6, <2>7 DEF Others, Along, SameModem, Updated
  <2>9. Session(q, c)
    <3>1. Shape(w)
      BY <1>2, <1>5, <2>8 DEF Shape
    <3>2. q.fds = r.fds /\ Asked(r.fds, c)
      BY <1>1, <1>5, <2>2, <2>6 DEF Updated, SameTables, Along, Session, Pending
    <3> QED BY <2>8, <3>1, <3>2 DEF Session
  <2>10. Good(q) /\ Apart(p, c, q)
    BY <2>7, <2>8, <2>9, GoodSame
  <2> QED BY <1>2, <2>8, <2>10 DEF q
<1>6. CASE ~v.truncated /\ ~(v.state = "established" /\ v.ping_pending)
  <2> DEFINE r == lws_change_pollfd(p, c, {"out"}, {})
             Y == Sends \cup {"error", "whole"}
  <2>1. q = ServerWriteable(r, c, hows)
    BY <1>6 DEF lws_handle_POLLOUT_event
  <2>2. hows \in Seq(Y) /\ Outcomes(r, c, hows)
    BY <1>2, <1>6, PossibleSendsIs
  <2>3. LwsChanged(p, c, {}, S, r)
    <3>1. {} \in Events
      BY DEF Events
    <3> QED BY <1>1, <3>1, lws_change_pollfdIs
  <2> HIDE DEF r, Y
  <2>4. Tables(r, S) /\ r.wsi = p.wsi /\ r.aborted = FALSE /\ SameModem(p, r) /\ Others(p, c, r)
    BY <1>1, <2>3 DEF LwsChanged, SameRest, SameModem, Others
  <2>5. /\ Along(r, c, S, q) /\ q.aborted = FALSE
        /\ q.wsi[c].buffers \in 0 .. v.buffers
        /\ q.wsi[c].open /\ q.wsi[c].buffers > 0 => Asked(q.fds, c)
    <3>1. ~r.wsi[c].truncated /\ r.wsi[c].buffers \in Nat /\ r.wsi[c].buffers = v.buffers
      BY <1>2, <1>6, <2>4
    <3> HIDE DEF q, v
    <3> QED BY <1>1, <2>1, <2>2, <2>4, <3>1, ServerWriteableIs
  <2> HIDE DEF q
  <2>6. q.wsi[c].buffers >= 0 /\ q.wsi[c].buffers <= v.buffers
    BY <1>2, <2>5
  <2>7. Others(p, c, q) /\ SameModem(p, q) /\ Tables(q, S)
        /\ q.wsi[c].state = v.state /\ q.wsi[c].open = v.open
    BY <2>4, <2>5 DEF Others, Along, SameModem
  <2>8. Session(q, c)
    <3>1. Shape(q.wsi[c])
      BY <2>6, <2>7 DEF Shape
    <3>2. q.wsi[c].truncated => Asked(q.fds, c)
      BY <1>6, <2>4, <2>5 DEF Along
    <3>3. ~(q.wsi[c].ping_pending /\ q.wsi[c].state = "established")
      BY <1>6, <2>4, <2>5 DEF Along
    <3> QED BY <2>5, <3>1, <3>2, <3>3 DEF Session, Pending
  <2>9. Good(q) /\ Apart(p, c, q)
    BY <2>5, <2>7, <2>8, GoodSame
  <2> QED BY <2>6, <2>7, <2>9 DEF q
<1> QED BY <1>3, <1>4, <1>5, <1>6

(* A connection is accepted: it has an entry and nothing to send.          *)
LEMMA AcceptIs ==
  ASSUME Room, NEW p, Good(p), NEW c \in Clients, p.wsi[c].state = "none"
  PROVE  LET q == Accept(p, c)
         IN  /\ Good(q) /\ Apart(p, c, q)
             /\ q.wsi[c].state = "http" /\ ~q.wsi[c].unusable
             /\ \A k \in DOMAIN p.fds : k \in DOMAIN q.fds /\ q.fds[k] = p.fds[k]
<1> DEFINE w == [NoWsi EXCEPT !.state = "http", !.pending_timeout = TRUE]
           S == Present(p)
           r == [p EXCEPT !.wsi[c] = w]
           q == insert_wsi_socket_into_fds(r, c)
<1>1. /\ p \in Process /\ Tables(p, S) /\ Session(p, c) /\ Modem(p)
      /\ p.aborted = FALSE /\ c # Listener /\ c \in Sockets
  BY GoodFacts
<1>2. c \notin S
  BY <1>1 DEF Present
<1>3. Accept(p, c) = q
  <2>1. c # Nobody
    BY FdsAssumption
  <2> QED BY <2>1 DEF Accept
<1>4. w \in Wsi /\ w.state = "http" /\ ~w.open /\ ~w.unusable /\ Shape(w) /\ ~Pending(w)
  <2>1. NoWsi \in Wsi /\ ~NoWsi.open /\ ~NoWsi.unusable /\ NoWsi.buffers = 0
        /\ ~NoWsi.truncated /\ ~NoWsi.ping_pending
    BY NoWsiType DEF NoWsi
  <2>2. w \in Wsi
    BY <2>1 DEF Wsi
  <2>3. w.state = "http" /\ w.open = NoWsi.open /\ w.unusable = NoWsi.unusable
        /\ w.buffers = NoWsi.buffers /\ w.truncated = NoWsi.truncated
        /\ w.ping_pending = NoWsi.ping_pending
    BY <2>1 DEF Wsi
  <2> HIDE DEF w
  <2> QED BY <2>1, <2>2, <2>3 DEF Shape, Pending
<1> HIDE DEF w
<1>5. Updated(p, c, w, r)
  BY <1>1, <1>4, WsiUpdate
<1> HIDE DEF r
<1>6. Tables(r, S) /\ Others(p, c, r)
  BY <1>1, <1>5, UpdatedKeeps
<1>7. Inserted(r, c, S, q)
  BY <1>1, <1>2, <1>6, insert_wsi_socket_into_fdsIs
<1> HIDE DEF q
<1>8. q.wsi[c] = w /\ Apart(p, c, q) /\ q.aborted = FALSE /\ SameModem(p, q)
      /\ Others(p, c, q) /\ Tables(q, S \cup {c})
  BY <1>1, <1>5, <1>6, <1>7 DEF Inserted, SameRest, Updated, Apart, SameModem, Others
<1>9. Present(q) = S \cup {c}
  BY <1>4, <1>8 DEF Present, Apart
<1>10. Modem(q)
  <2>1. ~p.wsi[c].open
    BY <1>1, NoWsiType DEF Session, Shape
  <2> QED BY <1>1, <1>8, <2>1, ModemKept DEF Apart
<1>11. Session(q, c)
  BY <1>4, <1>8 DEF Session
<1>12. Good(q)
  BY <1>8, <1>9, <1>10, <1>11, StillGood
<1>13. \A k \in DOMAIN p.fds : k \in DOMAIN q.fds /\ q.fds[k] = p.fds[k]
  BY <1>5, <1>7 DEF Inserted, Updated, SameTables
<1> QED BY <1>3, <1>4, <1>8, <1>12, <1>13

(* What poll reports is no part of the order.                              *)
LEMMA ReventsGood ==
  ASSUME NEW p, Good(p), NEW f \in Seq(PollEntry), Len(f) = Len(p.fds),
         \A k \in DOMAIN f : f[k].fd = p.fds[k].fd /\ f[k].events = p.fds[k].events
  PROVE  LET q == [p EXCEPT !.fds = f]
         IN  Good(q) /\ q.wsi = p.wsi /\ q.fds = f /\ q.websocket_contexts = p.websocket_contexts
<1> DEFINE q == [p EXCEPT !.fds = f]
           S == Present(p)
<1>1. p \in Process /\ Tables(p, S) /\ Modem(p) /\ ~p.aborted /\ \A c \in Clients : Session(p, c)
  BY DEF Good, Tables
<1>2. q \in Process /\ q.fds = f /\ q.websocket_contexts = p.websocket_contexts
      /\ q.lws = p.lws /\ q.position = p.position /\ SameRest(p, q)
  BY <1>1 DEF Process, SameRest
<1> HIDE DEF q
<1>3. p.fds \in Seq(PollEntry) /\ DOMAIN f = DOMAIN p.fds
  BY <1>1 DEF Process
<1>4. \A T : Polled(p.fds, p.websocket_contexts, T) => Polled(f, p.websocket_contexts, T)
  BY <1>3 DEF Polled
<1>5. \A e \in ToSet(f) : \E d \in ToSet(p.fds) : e.fd = d.fd /\ e.events = d.events
  BY <1>3 DEF ToSet
<1>6. \A d \in ToSet(p.fds) : \E e \in ToSet(f) : e.fd = d.fd /\ e.events = d.events
  BY <1>3 DEF ToSet
<1>7. Mirrored(f, p.lws, p.position, S)
  <2>1. Mirrored(p.fds, p.lws, p.position, S)
    BY <1>1 DEF Tables
  <2> QED BY <1>5, <2>1 DEF Mirrored
<1>8. \A d : Asked(p.fds, d) => Asked(f, d)
  BY <1>6 DEF Asked
<1>9. Present(q) = S
  BY <1>2 DEF Present, SameRest
<1>10. Tables(q, S)
  BY <1>1, <1>2, <1>4, <1>7 DEF Tables, SameRest
<1>11. \A c \in Clients : Session(q, c)
  BY <1>1, <1>2, <1>8 DEF Session, SameRest
<1>12. Modem(q) /\ ~q.aborted
  BY <1>1, <1>2 DEF Modem, SameRest
<1>13. Good(q)
  BY <1>9, <1>10, <1>11, <1>12 DEF Good
<1> QED BY <1>2, <1>13 DEF q, SameRest

(* An entry that is handled.                                               *)
LEMMA HandledIs ==
  ASSUME NEW p, Good(p), NEW i \in Nat \ {0}
  PROVE  Good(Handled(p, i)) /\ Handled(p, i).wsi = p.wsi
<1>1. p \in Process /\ p.fds \in Seq(PollEntry)
  BY DEF Good, Tables, Process
<1>2. CASE i > Len(p.fds)
  BY <1>2 DEF Handled
<1>3. CASE ~(i > Len(p.fds))
  <2> DEFINE e == [p.fds[i] EXCEPT !.revents = {}]
             f == [p.fds EXCEPT ![i] = e]
  <2>1. i \in DOMAIN p.fds
    BY <1>1, <1>3
  <2>2. p.fds[i] \in PollEntry
    BY <1>1, <2>1
  <2>3. e \in PollEntry /\ e.fd = p.fds[i].fd /\ e.events = p.fds[i].events
    BY <2>2 DEF PollEntry, Events
  <2>4. Handled(p, i) = [p EXCEPT !.fds = f]
    BY <1>1, <1>3 DEF Handled, Process
  <2> HIDE DEF e
  <2>5. f \in Seq(PollEntry) /\ Len(f) = Len(p.fds)
        /\ \A k \in DOMAIN f : f[k].fd = p.fds[k].fd /\ f[k].events = p.fds[k].events
    BY <1>1, <2>1, <2>3
  <2> HIDE DEF f
  <2> QED BY <2>4, <2>5, ReventsGood
<1> QED BY <1>2, <1>3

(* The socket of a client fills up or has room again.                      *)
LEMMA FullGood ==
  ASSUME NEW p, Good(p), NEW f \in SUBSET Clients
  PROVE  LET q == [p EXCEPT !.full = f]
         IN  Good(q) /\ q.wsi = p.wsi /\ q.fds = p.fds
             /\ q.websocket_contexts = p.websocket_contexts
<1> DEFINE q == [p EXCEPT !.full = f]
<1>1. p \in Process /\ Tables(p, Present(p)) /\ Modem(p) /\ ~p.aborted
      /\ \A c \in Clients : Session(p, c)
  BY DEF Good, Tables
<1>2. q \in Process /\ SameTables(p, q) /\ SameModem(p, q) /\ q.wsi = p.wsi
      /\ q.aborted = p.aborted
  BY <1>1 DEF Process, SameTables, SameModem
<1> HIDE DEF q
<1>3. Tables(q, Present(p))
  BY <1>1, <1>2, TablesFrame DEF SameTables, SameModem
<1>4. Present(q) = Present(p)
  BY <1>2 DEF Present
<1>5. Modem(q) /\ \A c \in Clients : Session(q, c)
  BY <1>1, <1>2 DEF Modem, SameModem, Session, SameTables
<1>6. Good(q)
  BY <1>1, <1>2, <1>3, <1>4, <1>5 DEF Good
<1> QED BY <1>2, <1>6 DEF q, SameTables

(* A connection whose time is up is closed, whatever it had to send.       *)
LEMMA TimedOutIs ==
  ASSUME NEW p, Good(p), NEW x \in Clients, p.wsi[x].pending_timeout
  PROVE  LET q == TimedOut(p, x)
         IN  Good(q) /\ Apart(p, x, q) /\ q.wsi[x] = NoWsi /\ p.wsi[x].state # "none"
<1> DEFINE v == p.wsi[x]
           w == [v EXCEPT !.unusable = TRUE]
           r == [p EXCEPT !.wsi[x] = w]
           q == libwebsocket_close_and_free_session(r, x)
<1>1. p \in Process /\ v \in Wsi /\ Session(p, x)
  BY GoodFacts
<1>2. v.state # "none"
  BY <1>1, NoWsiType DEF Session, Shape
<1>3. TimedOut(p, x) = q
  <2>1. x # Nobody
    BY FdsAssumption
  <2>2. [p EXCEPT !.wsi[x].unusable = TRUE] = r
    BY <1>1 DEF Process
  <2> HIDE DEF r
  <2> QED BY <2>1, <2>2 DEF TimedOut
<1>4. w \in Wsi /\ w.state = v.state /\ w.open = v.open /\ w.buffers = v.buffers
      /\ w.truncated = v.truncated /\ w.ping_pending = v.ping_pending /\ w.unusable = TRUE
  BY <1>1 DEF Wsi
<1> HIDE DEF w
<1>5. Shape(w) /\ (Pending(w) => Asked(p.fds, x))
  BY <1>1, <1>2, <1>4 DEF Session, Shape, Pending
<1>6. Good(r) /\ Updated(p, x, w, r)
  BY <1>2, <1>4, <1>5, GoodUpdate
<1> HIDE DEF r
<1>7. r.wsi[x] = w /\ Apart(p, x, r)
  BY <1>6 DEF Updated, Apart
<1>8. Good(q) /\ Apart(r, x, q) /\ ClosedOrFlushing(r, x, q)
  BY <1>2, <1>4, <1>6, <1>7, CloseIs
<1> HIDE DEF q
<1> QED BY <1>2, <1>3, <1>4, <1>7, <1>8 DEF ClosedOrFlushing, Apart

(* Serving a socket: POLLOUT, then POLLIN.                                 *)
LEMMA ServeSocketIs ==
  ASSUME Room, NEW p, Good(p), NEW c \in Clients, p.wsi[c].state # "none",
         NEW i \in Nat \ {0}, NEW hows \in PossibleSends(p, c), NEW ok \in BOOLEAN,
         p.wsi[c].state = "http" => input[c] \in {<<>>, <<"upgrade">>, <<"get">>},
         p.wsi[c].state # "http" => input[c] \in Seq(Frames)
  PROVE  LET q == ServeSocket(p, c, i, hows, ok)
         IN  /\ Good(q) /\ Apart(p, c, q)
             /\ Within(p, c, IF "in" \in p.fds[i].revents THEN Len(input[c]) ELSE 0, q)
<1> DEFINE v == p.wsi[c]
           ev == p.fds[i].revents
           out == IF "out" \in ev /\ v.state # "http"
                  THEN lws_handle_POLLOUT_event(p, c, hows) ELSE [p |-> p, close |-> FALSE]
           o == out.p
           eof == sock[c] = "rst" \/ input[c] = <<>>
           n == IF "in" \in ev THEN Len(input[c]) ELSE 0
           q == ServeSocket(p, c, i, hows, ok)
<1>1. v.buffers \in Int /\ v.buffers <= v.buffers /\ v.buffers >= 0
  <2>1. v \in Wsi /\ Session(p, c)
    BY GoodFacts
  <2>2. v.buffers >= 0
    BY <2>1 DEF Session, Shape
  <2> HIDE DEF v
  <2>3. v.buffers \in Int
    BY <2>1 DEF Wsi
  <2> QED BY <2>2, <2>3
<1>2. n \in Nat
  <2>1. CASE v.state = "http"
    BY <2>1
  <2>2. CASE v.state # "http"
    BY <2>2
  <2> QED BY <2>1, <2>2
<1>3. Good(o) /\ Apart(p, c, o) /\ o.wsi[c].state = v.state /\ o.wsi[c].buffers <= v.buffers
  <2>1. CASE "out" \in ev /\ v.state # "http"
    <3>1. o = lws_handle_POLLOUT_event(p, c, hows).p
      BY <2>1
    <3> HIDE DEF o, ev
    <3> QED BY <2>1, <3>1, lws_handle_POLLOUT_eventIs
  <2>2. CASE ~("out" \in ev /\ v.state # "http")
    <3>1. o = p
      BY <2>2
    <3> HIDE DEF o
    <3> QED BY <1>1, <3>1 DEF Apart
  <2> QED BY <2>1, <2>2
<1>4. o.wsi[c].buffers \in Int
  <2> HIDE DEF o
  <2> QED BY <1>3, GoodFacts DEF Wsi
<1>5. ASSUME NEW s, Good(s), Apart(o, c, s), Within(o, c, n, s)
      PROVE  Good(s) /\ Apart(p, c, s) /\ Within(p, c, n, s)
  <2> HIDE DEF o, n
  <2>1. Within(p, c, n, s)
    <3>1. s.wsi[c].buffers \in Int
      BY <1>5, GoodFacts DEF Wsi
    <3>2. s.wsi[c].buffers <= o.wsi[c].buffers + n => s.wsi[c].buffers <= v.buffers + n
      BY <1>1, <1>2, <1>3, <1>4, <3>1
    <3> HIDE DEF v
    <3> QED BY <1>3, <1>5, <3>2 DEF Within, v
  <2> QED BY <1>3, <1>5, <2>1 DEF Apart
<1>6. ASSUME NEW s, s = libwebsocket_close_and_free_session(o, c)
      PROVE  Good(s) /\ Apart(o, c, s) /\ Within(o, c, n, s)
  <2> HIDE DEF o, n
  <2>1. Good(s) /\ Apart(o, c, s) /\ ClosedOrFlushing(o, c, s)
    BY <1>3, <1>6, CloseIs
  <2> QED BY <1>2, <1>3, <2>1, CloseWithin
<1>7. ASSUME NEW s, NEW t, Good(s), Apart(o, c, s), Within(o, c, n, s), t = Handled(s, i)
      PROVE  Good(t) /\ Apart(o, c, t) /\ Within(o, c, n, t)
  <2>1. Good(t) /\ t.wsi = s.wsi
    BY <1>7, HandledIs
  <2> HIDE DEF o, n
  <2> QED BY <1>7, <2>1 DEF Apart, Within
<1>8. CASE out.close
  <2>1. q = libwebsocket_close_and_free_session(o, c)
    BY <1>8 DEF ServeSocket
  <2> HIDE DEF o, q, n
  <2> QED BY <1>5, <1>6, <2>1 DEF q, n
<1>9. CASE ~out.close /\ "in" \notin ev
  <2>1. q = Handled(o, i)
    BY <1>9 DEF ServeSocket
  <2> HIDE DEF o, q, n
  <2>2. Apart(o, c, o) /\ Within(o, c, n, o)
    <3>1. o.wsi[c].buffers <= o.wsi[c].buffers + n
      BY <1>2, <1>4
    <3> QED BY <1>3, <3>1 DEF Apart, Within
  <2> QED BY <1>3, <1>5, <1>7, <2>1, <2>2 DEF q, n
<1>10. CASE ~out.close /\ "in" \in ev /\ eof
  <2> DEFINE s == libwebsocket_close_and_free_session(o, c)
  <2>1. q = IF v.state = "http" THEN Handled(s, i) ELSE s
    BY <1>10 DEF ServeSocket
  <2> HIDE DEF o, q, n
  <2>2. Good(s) /\ Apart(o, c, s) /\ Within(o, c, n, s)
    BY <1>6
  <2> HIDE DEF s
  <2>3. Good(q) /\ Apart(o, c, q) /\ Within(o, c, n, q)
    BY <1>7, <2>1, <2>2
  <2> QED BY <1>5, <2>3 DEF q, n
<1>11. CASE ~out.close /\ "in" \in ev /\ ~eof
  <2> DEFINE s == libwebsocket_read(o, c, input[c], ok)
  <2>1. q = Handled(s, i)
    BY <1>11 DEF ServeSocket
  <2>2. n = Len(input[c])
    BY <1>11
  <2>3. /\ v.state = "http" => input[c] \in {<<"upgrade">>, <<"get">>}
        /\ v.state # "http" => input[c] \in Seq(Frames)
    BY <1>11
  <2> HIDE DEF o, q, n
  <2>4. Good(s) /\ Apart(o, c, s) /\ Within(o, c, n, s)
    BY <1>3, <2>2, <2>3, libwebsocket_readIs
  <2> HIDE DEF s
  <2>5. Good(q) /\ Apart(o, c, q) /\ Within(o, c, n, q)
    BY <1>7, <2>1, <2>4
  <2> QED BY <1>5, <2>5 DEF q, n
<1> QED BY <1>8, <1>9, <1>10, <1>11

----------------------------------------------------------------------------
(* transfer_loop of lib/main.cpp *)

(* The entry whose turn it is, is one of the table.                        *)
LEMMA TurnIs ==
  ASSUME NEW p, Good(p), NEW l, l.i \in Nat \ {0}, Turn(p, l) # 0
  PROVE  Turn(p, l) \in DOMAIN p.fds /\ Turn(p, l) \in Nat \ {0} /\ l.serviced # l.status
<1> DEFINE served(e) == e.fd = Whitebox \/ p.websocket_contexts[FirstEntry(p.fds, e.fd)]
           next == {k \in l.i .. Len(p.fds) : p.fds[k].revents # {} /\ served(p.fds[k])}
<1>1. l.serviced # l.status /\ next # {} /\ Turn(p, l) = Min(next)
  BY DEF Turn
<1>2. p.fds \in Seq(PollEntry)
  BY DEF Good, Tables, Process
<1>3. next \subseteq 1 .. Len(p.fds) /\ next \subseteq Nat
  BY <1>2
<1> HIDE DEF next
<1>4. \E m \in next : \A k \in next : m <= k
  BY <1>1, <1>3, LeastNat
<1>5. Min(next) \in next
  BY <1>4 DEF Min
<1>6. DOMAIN p.fds = 1 .. Len(p.fds) /\ Len(p.fds) \in Nat
  BY <1>2
<1>7. Turn(p, l) \in 1 .. Len(p.fds)
  BY <1>1, <1>3, <1>5
<1>8. Turn(p, l) \in Nat \ {0}
  BY <1>6, <1>7
<1> QED BY <1>1, <1>6, <1>7, <1>8

(* A round starts with an entry to serve.                                  *)
LEMMA TurnStarts ==
  ASSUME NEW p, Good(p), NEW l, l.i = 1, l.serviced # l.status,
         NEW k \in DOMAIN p.fds, p.fds[k].revents # {}
  PROVE  Turn(p, l) # 0
<1> DEFINE served(e) == e.fd = Whitebox \/ p.websocket_contexts[FirstEntry(p.fds, e.fd)]
           next == {j \in l.i .. Len(p.fds) : p.fds[j].revents # {} /\ served(p.fds[j])}
<1>1. p.fds \in Seq(PollEntry) /\ p \in Process
  BY DEF Good, Tables, Process
<1>2. served(p.fds[k])
  <2>1. PICK T : Polled(p.fds, p.websocket_contexts, T)
    BY DEF Good, Tables
  <2>2. FirstEntry(p.fds, p.fds[k].fd) = k
    BY <1>1, <2>1, FirstEntryIs DEF Polled
  <2> QED BY <2>1, <2>2 DEF Polled
<1>3. k \in next
  <2> HIDE DEF served
  <2> QED BY <1>1, <1>2
<1>4. next \subseteq 1 .. Len(p.fds) /\ next \subseteq Nat \ {0}
  BY <1>1
<1>5. Turn(p, l) = IF l.serviced = l.status \/ next = {} THEN 0 ELSE Min(next)
  BY DEF Turn
<1> HIDE DEF next
<1>6. \E m \in next : \A j \in next : m <= j
  BY <1>3, <1>4, LeastNat
<1>7. Min(next) \in next
  BY <1>6 DEF Min
<1> QED BY <1>3, <1>4, <1>5, <1>7

(* New entries for the old ones.                                           *)
LEMMA EntriesAgain ==
  ASSUME NEW s \in Seq(PollEntry), NEW f, f = [k \in DOMAIN s |-> f[k]],
         \A k \in DOMAIN s : f[k] \in PollEntry
  PROVE  f \in Seq(PollEntry) /\ Len(f) = Len(s) /\ DOMAIN f = DOMAIN s
<1> DEFINE n == Len(s)
<1>1. n \in Nat /\ DOMAIN s = 1 .. n
  OBVIOUS
<1>2. f \in [1 .. n -> PollEntry] /\ DOMAIN f = 1 .. n
  BY <1>1, Zenon
<1> HIDE DEF n
<1>3. f \in Seq(PollEntry) /\ Len(f) = n
  BY <1>1, <1>2
<1> QED BY <1>1, <1>2, <1>3 DEF n

(* The for loop goes on, or back to poll, with the process in order.       *)
LEMMA GoOnIs ==
  ASSUME Loop, Good(proc), loop.phase = "for", NEW p, Good(p), NEW i \in Nat \ {0}, GoOn(p, i)
  PROVE  Good(proc') /\ proc'.wsi = p.wsi /\ Loop'
<1> DEFINE l == [loop EXCEPT !.i = i + 1, !.serviced = @ + 1]
<1>1. /\ loop \in [phase : {"poll", "for"}, i : Nat \ {0}, serviced : Nat, status : Nat]
      /\ loop.serviced <= loop.status /\ Turn(proc, loop) # 0
  BY DEF Loop
<1>2. loop.serviced # loop.status /\ loop.i \in Nat \ {0}
  BY <1>1, TurnIs
<1>3. l \in [phase : {"poll", "for"}, i : Nat \ {0}, serviced : Nat, status : Nat]
      /\ l.serviced <= l.status
  <2> DEFINE a == i + 1
             b == loop.serviced + 1
  <2>1. loop.serviced \in Nat /\ loop.status \in Nat
    BY <1>1
  <2>2. a \in Nat \ {0} /\ b \in Nat /\ b <= loop.status
    <3>1. loop.serviced <= loop.status
      BY <1>1
    <3>2. i \in Nat
      OBVIOUS
    <3> QED BY <1>2, <2>1, <3>1, <3>2
  <2>3. l = [loop EXCEPT !.i = a, !.serviced = b]
    BY <1>1
  <2> HIDE DEF a, b, l
  <2>4. l \in [phase : {"poll", "for"}, i : Nat \ {0}, serviced : Nat, status : Nat]
        /\ l.serviced = b /\ l.status = loop.status
    BY <1>1, <2>2, <2>3
  <2> QED BY <2>2, <2>4
<1>4. CASE Turn(p, l) # 0
  <2>1. loop' = l /\ proc' = p
    BY <1>4 DEF GoOn
  <2> HIDE DEF l
  <2> QED BY <1>3, <1>4, <2>1 DEF Loop
<1>5. CASE ~(Turn(p, l) # 0)
  <2> DEFINE f == [k \in DOMAIN p.fds |-> [p.fds[k] EXCEPT !.revents = {}]]
  <2>1. loop' = AtPoll /\ proc' = [p EXCEPT !.fds = f]
    BY <1>5 DEF GoOn
  <2>2. p.fds \in Seq(PollEntry)
    BY DEF Good, Tables, Process
  <2>3. \A k \in DOMAIN p.fds :
          LET e == [p.fds[k] EXCEPT !.revents = {}]
          IN  e \in PollEntry /\ e.fd = p.fds[k].fd /\ e.events = p.fds[k].events
    <3> SUFFICES ASSUME NEW k \in DOMAIN p.fds
                 PROVE  LET e == [p.fds[k] EXCEPT !.revents = {}]
                        IN  e \in PollEntry /\ e.fd = p.fds[k].fd /\ e.events = p.fds[k].events
      OBVIOUS
    <3>1. p.fds[k] \in PollEntry
      BY <2>2
    <3> QED BY <3>1 DEF PollEntry, Events
  <2>4. f \in Seq(PollEntry) /\ Len(f) = Len(p.fds)
        /\ \A k \in DOMAIN f : f[k].fd = p.fds[k].fd /\ f[k].events = p.fds[k].events
    <3>1. f = [k \in DOMAIN p.fds |-> f[k]]
      BY Zenon
    <3>2. \A k \in DOMAIN p.fds : f[k] \in PollEntry /\ f[k].fd = p.fds[k].fd
                                  /\ f[k].events = p.fds[k].events
      BY <2>3
    <3> HIDE DEF f
    <3>3. f \in Seq(PollEntry) /\ Len(f) = Len(p.fds) /\ DOMAIN f = DOMAIN p.fds
      BY <2>2, <3>1, <3>2, EntriesAgain, Zenon
    <3> QED BY <3>2, <3>3
  <2> HIDE DEF f, l
  <2>5. Good(proc') /\ proc'.wsi = p.wsi
    BY <2>1, <2>4, ReventsGood
  <2>6. Loop'
    BY <2>1 DEF Loop, AtPoll
  <2> QED BY <2>5, <2>6
<1> QED BY <1>4, <1>5

(* The length of a queue is a number.                                      *)
LEMMA BuffersType ==
  ASSUME NEW p, Good(p), NEW c \in Clients PROVE p.wsi[c].buffers \in Int
BY GoodFacts DEF Wsi

(* What a turn may have done to a connection.                              *)
Step(p, d, read) ==
  \/ p.wsi[d].state = "none"
  \/ /\ p.wsi[d].state = "http" /\ ~p.wsi[d].unusable
     /\ proc.wsi[d].state = "none" /\ sock[d] = "connecting"
  \/ /\ p.wsi[d].state # "none" /\ proc.wsi[d].state # "none"
     /\ Within(proc, d, IF d = read THEN Len(input[d]) ELSE 0, p)

(* A turn ends with the lines fitting the sessions.                        *)
LEMMA SettleIs ==
  ASSUME IInv, loop.phase = "for", NEW p, Good(p), NEW i \in Nat \ {0},
         NEW read, \A d \in Clients : Step(p, d, read), Settle(p, i, read)
  PROVE  IInv'
<1>1. Good(proc') /\ proc'.wsi = p.wsi /\ Loop'
  <2>1. GoOn(p, i) /\ Loop /\ Good(proc)
    BY DEF IInv, Settle
  <2> QED BY <2>1, GoOnIs
<1>2. left' = left /\ left \in [frames : 0 .. MaxFrames, connects : Nat]
  BY DEF Settle, IInv
<1>3. /\ DOMAIN sock' = Clients /\ DOMAIN input' = Clients
      /\ \A d \in Clients :
           /\ sock'[d] = IF p.wsi[d].unusable THEN "rst"
                         ELSE IF p.wsi[d].state = "none" /\ proc.wsi[d].state # "none" THEN "idle"
                         ELSE IF p.wsi[d].state # "none" /\ sock[d] = "connecting" THEN "up"
                         ELSE sock[d]
           /\ input'[d] = IF p.wsi[d].state = "none" \/ d = read THEN <<>> ELSE input[d]
  BY DEF Settle
<1>4. sock' \in [Clients -> {"idle", "connecting", "up", "fin", "rst"}]
  <2>1. sock \in [Clients -> {"idle", "connecting", "up", "fin", "rst"}]
    BY DEF IInv
  <2>2. \A d \in Clients : sock'[d] \in {"idle", "connecting", "up", "fin", "rst"}
    BY <1>3, <2>1
  <2>3. sock' = [d \in Clients |-> sock'[d]]
    BY DEF Settle
  <2> QED BY <2>2, <2>3
<1>5. ASSUME NEW d \in Clients PROVE Line(d)'
  <2> DEFINE w == p.wsi[d]
             v == proc.wsi[d]
  <2>1. Line(d) /\ Step(p, d, read)
    BY DEF IInv
  <2>2. proc'.wsi[d] = w
    BY <1>1
  <2>3. /\ w.state = "none" => ~w.unusable /\ w.buffers = 0
        /\ w.buffers \in Int /\ w.buffers >= 0 /\ v.buffers \in Int /\ v.buffers >= 0
    <3>1. w \in Wsi /\ v \in Wsi /\ Session(p, d) /\ Session(proc, d)
      BY GoodFacts DEF IInv
    <3>2. NoWsi.unusable = FALSE /\ NoWsi.buffers = 0
      BY DEF NoWsi
    <3>3. w.state = "none" => ~w.unusable /\ w.buffers = 0
      BY <3>1, <3>2 DEF Session, Shape
    <3>4. w.buffers >= 0 /\ v.buffers >= 0
      BY <3>1 DEF Session, Shape
    <3> HIDE DEF w, v
    <3>6. w.buffers \in Int /\ v.buffers \in Int
      BY BuffersType DEF IInv, w, v
    <3> QED BY <3>3, <3>4, <3>6, Zenon
  <2>4. sock'[d] = IF w.unusable THEN "rst"
                   ELSE IF w.state = "none" /\ v.state # "none" THEN "idle"
                   ELSE IF w.state # "none" /\ sock[d] = "connecting" THEN "up"
                   ELSE sock[d]
    BY <1>3
  <2>5. input'[d] = IF w.state = "none" \/ d = read THEN <<>> ELSE input[d]
    BY <1>3
  <2>6. MaxFrames \in Nat /\ left.frames \in 0 .. MaxFrames
    BY <1>2, BoundsAssumption
  <2>7. /\ sock[d] \in {"idle", "connecting"} <=> v.state = "none"
        /\ v.state = "none" => input[d] = <<>>
        /\ v.state = "http" => input[d] \in {<<>>, <<"upgrade">>, <<"get">>}
        /\ v.state \notin {"none", "http"} =>
             /\ input[d] \in Seq(Frames)
             /\ v.buffers + Len(input[d]) + left.frames <= MaxFrames + 1
    BY <2>1 DEF Line
  <2>8. SUFFICES /\ sock'[d] \in {"idle", "connecting"} <=> w.state = "none"
                 /\ w.state = "none" => input'[d] = <<>>
                 /\ w.state = "http" => input'[d] \in {<<>>, <<"upgrade">>, <<"get">>}
                 /\ w.state \notin {"none", "http"} =>
                      /\ input'[d] \in Seq(Frames)
                      /\ w.buffers + Len(input'[d]) + left.frames <= MaxFrames + 1
    BY <1>2, <2>2 DEF Line
  <2> HIDE DEF w, v
  <2>9. CASE w.state = "none"
    BY <2>3, <2>4, <2>5, <2>7, <2>9
  <2>10. CASE w.state = "http" /\ ~w.unusable /\ v.state = "none" /\ sock[d] = "connecting"
    BY <2>4, <2>5, <2>7, <2>10
  <2>11. CASE w.state # "none" /\ v.state # "none"
              /\ Within(proc, d, IF d = read THEN Len(input[d]) ELSE 0, p)
    <3>1. /\ w.state = "http" => v.state = "http"
          /\ w.state \notin {"none", "http"} =>
               IF v.state = "http" THEN w.buffers <= 1 /\ d = read
               ELSE w.buffers <= v.buffers + (IF d = read THEN Len(input[d]) ELSE 0)
      <4> USE DEF w, v
      <4>1. (IF d = read THEN Len(input[d]) ELSE 0) = 1 => d = read
        OBVIOUS
      <4> QED BY <2>11, <4>1 DEF Within
    <3>2. sock'[d] \notin {"idle", "connecting"}
      BY <2>4, <2>7, <2>11
    <3>3. CASE w.state = "http"
      BY <2>5, <2>7, <3>1, <3>2, <3>3
    <3>4. CASE w.state # "http" /\ v.state = "http"
      <4>1. input'[d] = <<>> /\ w.buffers <= 1
        BY <2>5, <2>11, <3>1, <3>4
      <4>2. Len(input'[d]) = 0 /\ input'[d] \in Seq(Frames)
        BY <4>1
      <4>3. w.buffers + 0 + left.frames <= MaxFrames + 1
        <5> DEFINE a == w.buffers
                   m == left.frames
        <5>1. m \in Nat /\ m <= MaxFrames /\ MaxFrames \in Nat
          BY <2>6
        <5>2. a \in Int /\ a <= 1
          BY <2>3, <4>1
        <5> HIDE DEF a, m
        <5>3. a + 0 + m <= MaxFrames + 1
          BY <5>1, <5>2
        <5> QED BY <5>3 DEF a, m
      <4> QED BY <2>11, <3>2, <3>4, <4>2, <4>3
    <3>5. CASE w.state # "http" /\ v.state # "http"
      <4>1. /\ w.buffers <= v.buffers + (IF d = read THEN Len(input[d]) ELSE 0)
            /\ input[d] \in Seq(Frames)
            /\ v.buffers + Len(input[d]) + left.frames <= MaxFrames + 1
        BY <2>7, <2>11, <3>1, <3>5
      <4> DEFINE n == Len(input[d])
                 m == left.frames
                 a == w.buffers
                 b == v.buffers
      <4>2. /\ n \in Nat /\ m \in Nat /\ a \in Nat /\ b \in Nat /\ MaxFrames \in Nat
            /\ b + n + m <= MaxFrames + 1
            /\ d = read => a <= b + n
            /\ d # read => a <= b
        <5>1. n \in Nat /\ m \in Nat /\ MaxFrames \in Nat
          BY <2>6, <4>1
        <5>2. a \in Nat /\ b \in Nat
          <6> HIDE DEF a, b
          <6>1. a \in Int /\ a >= 0 /\ b \in Int /\ b >= 0
            BY <2>3 DEF a, b
          <6> QED BY <6>1
        <5>3. d = read => a <= b + n
          BY <4>1
        <5>4. d # read => a <= b + 0
          BY <4>1
        <5>5. b + n + m <= MaxFrames + 1
          BY <4>1
        <5> HIDE DEF a, b, n, m
        <5> QED BY <5>1, <5>2, <5>3, <5>4, <5>5
      <4>3. CASE d = read
        <5>1. input'[d] = <<>>
          BY <2>5, <4>3
        <5>2. Len(input'[d]) = 0 /\ input'[d] \in Seq(Frames)
          BY <5>1
        <5>3. a + 0 + m <= MaxFrames + 1
          <6> HIDE DEF a, b, n, m
          <6> QED BY <4>2, <4>3
        <5> QED BY <2>11, <3>2, <3>5, <5>2, <5>3
      <4>4. CASE d # read
        <5>1. input'[d] = input[d]
          BY <2>5, <2>11, <4>4
        <5>2. a + n + m <= MaxFrames + 1
          <6> HIDE DEF a, b, n, m
          <6> QED BY <4>2, <4>4
        <5> QED BY <2>11, <3>2, <3>5, <4>1, <5>1, <5>2
      <4> QED BY <4>3, <4>4
    <3> QED BY <3>3, <3>4, <3>5
  <2> QED BY <2>1, <2>9, <2>10, <2>11 DEF Step, w, v
<1> QED BY <1>1, <1>2, <1>3, <1>4, <1>5 DEF IInv

----------------------------------------------------------------------------
(* The steps *)

(* The server starts in order.                                             *)
LEMMA InitIs == Init => IInv
<1> SUFFICES ASSUME Init PROVE IInv
  OBVIOUS
<1> DEFINE e == [fd |-> Listener, events |-> {"in"}, revents |-> {}]
           x == [fd |-> Listener, events |-> {"in"}]
           f == <<e>>
           l == <<x>>
           t == <<TRUE>>
           pos == [d \in Sockets |-> IF d = Listener THEN 1 ELSE 0]
           w == [c \in Clients |-> NoWsi]
<1>1. proc = [fds |-> f, websocket_contexts |-> t, lws |-> l, position |-> pos, wsi |-> w,
              full |-> {}, started |-> FALSE, txing |-> FALSE, rxing |-> FALSE,
              chip |-> "off", aborted |-> FALSE]
  BY DEF Init, Sockets
<1>2. e \in PollEntry /\ e.fd = Listener /\ e.events = {"in"}
  BY DEF PollEntry, Events, Sockets
<1>3. x \in LwsEntry /\ x.fd = Listener /\ x.events = {"in"}
  BY DEF LwsEntry, Events, Sockets
<1>4. Listener \in Sockets /\ Listener # Whitebox /\ Listener \notin Clients
  BY FdsAssumption DEF Sockets
<1>5. pos \in [Sockets -> Nat] /\ pos[Listener] = 1 /\ \A d \in Sockets \ {Listener} : pos[d] = 0
  BY <1>4
<1>6. w \in [Clients -> Wsi] /\ \A c \in Clients : w[c] = NoWsi
  BY NoWsiType
<1> HIDE DEF e, x, pos, w
<1>7. f \in Seq(PollEntry) /\ Len(f) = 1 /\ DOMAIN f = {1} /\ f[1] = e /\ ToSet(f) = {e}
  BY <1>2 DEF ToSet
<1>8. l \in Seq(LwsEntry) /\ Len(l) = 1 /\ l[1] = x
  BY <1>3
<1>9. t \in Seq(BOOLEAN) /\ Len(t) = 1 /\ t[1] = TRUE
  OBVIOUS
<1> HIDE DEF f, l, t
<1>10. /\ proc \in Process /\ proc.fds = f /\ proc.websocket_contexts = t /\ proc.lws = l
       /\ proc.position = pos /\ proc.wsi = w /\ ~proc.started /\ ~proc.txing /\ ~proc.rxing
       /\ proc.chip = "off" /\ ~proc.aborted
  BY <1>1, <1>5, <1>6, <1>7, <1>8, <1>9 DEF Process
<1>11. Present(proc) = {Listener}
  BY <1>6, <1>10, NoWsiType DEF Present
<1>12. Polled(f, t, {Listener})
  BY <1>2, <1>4, <1>7, <1>9 DEF Polled
<1>13. Held(l, pos, {Listener})
  <2>1. 1 .. Len(l) = {1}
    BY <1>8
  <2> QED BY <1>3, <1>5, <1>8, <2>1 DEF Held
<1>14. Mirrored(f, l, pos, {Listener})
  BY <1>2, <1>3, <1>5, <1>7, <1>8 DEF Mirrored
<1>15. Good(proc)
  <2>1. Tables(proc, {Listener})
    BY <1>4, <1>10, <1>12, <1>13, <1>14 DEF Tables
  <2>2. ASSUME NEW c \in Clients PROVE Session(proc, c)
    <3>1. ~Pending(NoWsi)
      BY DEF Pending, NoWsi
    <3> QED BY <1>6, <1>10, <3>1, NoWsiType DEF Session
  <2>3. Modem(proc)
    BY <1>10 DEF Modem
  <2> QED BY <1>10, <1>11, <2>1, <2>2, <2>3 DEF Good
<1>16. Loop
  BY DEF Init, Loop
<1>17. left \in [frames : 0 .. MaxFrames, connects : Nat]
  <2>1. MaxFrames \in 0 .. MaxFrames /\ MaxConnects \in Nat
    BY BoundsAssumption
  <2> QED BY <2>1 DEF Init
<1>18. \A c \in Clients : Line(c)
  BY <1>6, <1>10, NoWsiType DEF Line, Init
<1> QED BY <1>15, <1>16, <1>17, <1>18 DEF IInv, Init

(* The lines and the sessions are as they were.                            *)
LEMMA LinesKept ==
  ASSUME IInv, Good(proc'), Loop', proc'.wsi = proc.wsi, UNCHANGED <<sock, input, left>>
  PROVE  IInv'
BY DEF IInv, Line

(* What poll reports.                                                      *)
LEMMA PollIs ==
  ASSUME IInv, NEW w \in Whiteboxes, Poll(w)
  PROVE  IInv'
<1> DEFINE s == proc.fds
           f == [k \in DOMAIN s |-> [s[k] EXCEPT !.revents = Ready(s[k], w)]]
           Z == {k \in DOMAIN f : f[k].revents # {}}
           n == Cardinality(Z)
<1>1. Good(proc) /\ s \in Seq(PollEntry)
  BY DEF IInv, Good, Tables, Process
<1>2. /\ n > 0 /\ proc' = [proc EXCEPT !.fds = f]
      /\ loop' = [phase |-> "for", i |-> 1, serviced |-> 0, status |-> n]
      /\ UNCHANGED <<sock, input, left>>
  BY DEF Poll
<1>3. ASSUME NEW k \in DOMAIN s
      PROVE  f[k] \in PollEntry /\ f[k].fd = s[k].fd /\ f[k].events = s[k].events
  <2> DEFINE v == Ready(s[k], w)
  <2>1. s[k] \in PollEntry
    BY <1>1
  <2>2. v \in Events
    <3>1. s[k].events \in Events
      BY <2>1 DEF PollEntry
    <3>2. CASE s[k].fd = Listener
      <4>1. v = IF Waiting = {} THEN {} ELSE {"in"}
        BY <3>2, FdsAssumption DEF Ready
      <4> HIDE DEF v
      <4> QED BY <4>1 DEF Events
    <3>3. CASE s[k].fd # Listener /\ s[k].fd = Whitebox
      <4>1. v = w
        BY <3>3 DEF Ready
      <4> HIDE DEF v
      <4> QED BY <4>1 DEF Events, Whiteboxes
    <3>4. CASE s[k].fd # Listener /\ s[k].fd # Whitebox
      <4>1. v \subseteq s[k].events
        BY <3>4 DEF Ready
      <4> HIDE DEF v
      <4> QED BY <3>1, <4>1 DEF Events
    <3> QED BY <3>2, <3>3, <3>4
  <2>3. f[k] = [s[k] EXCEPT !.revents = v]
    OBVIOUS
  <2> HIDE DEF f, v
  <2> QED BY <2>1, <2>2, <2>3 DEF PollEntry
<1>4. f = [k \in DOMAIN s |-> f[k]]
  BY Zenon
<1> HIDE DEF f
<1>5. f \in Seq(PollEntry) /\ Len(f) = Len(s) /\ DOMAIN f = DOMAIN s
  BY <1>1, <1>3, <1>4, EntriesAgain, Zenon
<1>6. /\ Good(proc') /\ proc'.wsi = proc.wsi /\ proc'.fds = f
  BY <1>1, <1>2, <1>3, <1>5, ReventsGood
<1>7. n \in Nat /\ Z # {}
  <2> DEFINE m == Len(f)
  <2>1. m \in Nat /\ DOMAIN f = 1 .. m
    BY <1>5
  <2> HIDE DEF m
  <2>5. IsFiniteSet(1 .. m)
    BY <2>1, FS_Interval
  <2>2. IsFiniteSet(Z)
    BY <2>1, <2>5, FS_Subset, Zenon
  <2> HIDE DEF Z
  <2>3. n \in Nat
    BY <2>2, FS_CardinalityType
  <2>4. Cardinality({}) = 0
    BY FS_EmptySet
  <2> QED BY <1>2, <2>3, <2>4
<1>8. PICK k \in DOMAIN f : f[k].revents # {}
  BY <1>7
<1>9. Loop'
  <2> HIDE DEF n
  <2>1. /\ loop' \in [phase : {"poll", "for"}, i : Nat \ {0}, serviced : Nat, status : Nat]
        /\ loop'.i = 1 /\ loop'.serviced = 0 /\ loop'.status = n
    BY <1>2, <1>7
  <2>2. loop'.serviced # loop'.status /\ loop'.serviced <= loop'.status
    BY <1>2, <1>7, <2>1
  <2>3. Turn(proc', loop') # 0
    BY <1>6, <1>8, <2>1, <2>2, TurnStarts
  <2> QED BY <2>1, <2>2, <2>3 DEF Loop
<1> QED BY <1>2, <1>6, <1>9, LinesKept

(* The turn of the whitebox.                                               *)
LEMMA ServeWhiteboxIs ==
  ASSUME IInv, ServeWhitebox
  PROVE  IInv'
<1> DEFINE i == Turn(proc, loop)
<1>1. Good(proc) /\ Loop /\ loop.phase = "for" /\ UNCHANGED <<sock, input, left>>
  BY DEF IInv, ServeWhitebox
<1>2. loop.i \in Nat \ {0} /\ i # 0
  BY <1>1 DEF Loop
<1>3. i \in Nat \ {0}
  <2> HIDE DEF i
  <2> QED BY <1>1, <1>2, TurnIs DEF i
<1>4. PICK ok \in BOOLEAN :
        GoOn(IF "err" \in proc.fds[i].revents THEN modem_recover(proc, ok) ELSE proc, i)
  BY DEF ServeWhitebox
<1> DEFINE q == modem_recover(proc, ok)
           p == IF "err" \in proc.fds[i].revents THEN q ELSE proc
<1>5. Good(q) /\ q.wsi = proc.wsi
  <2>1. Tables(proc, Present(proc)) /\ Modem(proc) /\ ~proc.aborted
        /\ \A c \in Clients : Session(proc, c)
    BY <1>1 DEF Good
  <2>2. /\ ModemCall(proc, Present(proc), q)
        /\ q.started = proc.started /\ q.txing = proc.txing /\ q.rxing = proc.rxing
        /\ q.chip # "off" => proc.txing \/ proc.rxing
    BY <2>1, modem_recoverIs
  <2> HIDE DEF q
  <2>3. Present(q) = Present(proc) /\ q.wsi = proc.wsi
    BY <2>2 DEF ModemCall, Present
  <2>4. Modem(q) /\ ~q.aborted
    BY <2>1, <2>2 DEF Modem, ModemCall
  <2>5. ASSUME NEW c \in Clients PROVE Session(q, c)
    BY <2>1, <2>2 DEF ModemCall, Session, Sockets
  <2> QED BY <2>2, <2>3, <2>4, <2>5 DEF Good, ModemCall
<1> HIDE DEF q
<1>6. Good(p) /\ p.wsi = proc.wsi
  BY <1>1, <1>5
<1>7. GoOn(p, i)
  BY <1>4 DEF q
<1> HIDE DEF p, i
<1>8. Good(proc') /\ proc'.wsi = p.wsi /\ Loop'
  BY <1>1, <1>3, <1>6, <1>7, GoOnIs
<1> QED BY <1>1, <1>6, <1>8, LinesKept

(* A turn that leaves a connection alone.                                  *)
LEMMA StepSame ==
  ASSUME Good(proc), NEW p, NEW d \in Clients, NEW read, d # read, p.wsi[d] = proc.wsi[d]
  PROVE  Step(p, d, read)
<1>1. proc.wsi[d].buffers \in Int
  BY BuffersType
<1>2. proc.wsi[d].buffers <= proc.wsi[d].buffers + 0
  BY <1>1
<1> QED BY <1>2 DEF Step, Within

(* Before a socket is looked at, one may have timed out and another come.  *)
LEMMA BeforeServing ==
  ASSUME Room, IInv, NEW x \in Clients \cup {Nobody}, x \in Expiring(proc),
         NEW a \in Waiting \cup {Nobody}, NEW p, p = TimedOut(proc, x), NEW r, r = Accept(p, a)
  PROVE  /\ Good(p) /\ Good(r)
         /\ \A k \in DOMAIN p.fds : k \in DOMAIN r.fds /\ r.fds[k] = p.fds[k]
         /\ \A d \in Clients : p.wsi[d].state # "none" =>
              p.wsi[d] = proc.wsi[d] /\ r.wsi[d] = proc.wsi[d]
         /\ \A d \in Clients : \A read : d # read => Step(p, d, read) /\ Step(r, d, read)
<1>1. Good(proc)
  BY DEF IInv
<1>2. /\ Good(p)
      /\ \A d \in Clients : \/ p.wsi[d] = proc.wsi[d]
                            \/ p.wsi[d].state = "none" /\ proc.wsi[d].state # "none"
  <2>1. CASE x = Nobody
    BY <1>1, <2>1 DEF TimedOut
  <2>2. CASE x # Nobody
    <3>1. x \in Clients /\ proc.wsi[x].pending_timeout
      BY <2>2 DEF Expiring
    <3>2. Good(p) /\ Apart(proc, x, p) /\ p.wsi[x] = NoWsi /\ proc.wsi[x].state # "none"
      BY <1>1, <3>1, TimedOutIs
    <3> QED BY <3>2, NoWsiType DEF Apart
  <2> QED BY <2>1, <2>2
<1>3. ASSUME NEW d \in Clients, NEW read, d # read PROVE Step(p, d, read)
  <2>1. CASE p.wsi[d] = proc.wsi[d]
    BY <1>1, <1>3, <2>1, StepSame
  <2>2. CASE p.wsi[d].state = "none"
    BY <2>2 DEF Step
  <2> QED BY <1>2, <2>1, <2>2
<1>4. CASE a = Nobody
  <2>1. r = p
    BY <1>4 DEF Accept
  <2> QED BY <1>2, <1>3, <2>1
<1>5. CASE a # Nobody
  <2>1. a \in Clients /\ sock[a] = "connecting"
    BY <1>5 DEF Waiting
  <2>2. proc.wsi[a].state = "none"
    BY <2>1 DEF IInv, Line
  <2>3. p.wsi[a].state = "none"
    BY <1>2, <2>1, <2>2
  <2>4. /\ Good(r) /\ Apart(p, a, r) /\ r.wsi[a].state = "http" /\ ~r.wsi[a].unusable
        /\ \A k \in DOMAIN p.fds : k \in DOMAIN r.fds /\ r.fds[k] = p.fds[k]
    BY <1>2, <2>1, <2>3, AcceptIs
  <2>5. ASSUME NEW d \in Clients, NEW read, d # read PROVE Step(r, d, read)
    <3>1. CASE d = a
      BY <2>1, <2>2, <2>4, <3>1 DEF Step
    <3>2. CASE d # a
      <4>1. r.wsi[d] = p.wsi[d]
        BY <2>4, <3>2 DEF Apart
      <4> QED BY <1>3, <2>5, <4>1 DEF Step, Within
    <3> QED BY <3>1, <3>2
  <2>6. ASSUME NEW d \in Clients, p.wsi[d].state # "none"
        PROVE  p.wsi[d] = proc.wsi[d] /\ r.wsi[d] = proc.wsi[d]
    BY <1>2, <2>3, <2>4, <2>6 DEF Apart
  <2> QED BY <1>2, <1>3, <2>4, <2>5, <2>6
<1> QED BY <1>4, <1>5

(* The turn of a socket.                                                   *)
LEMMA ServeIs ==
  ASSUME Room, IInv, NEW x \in Clients \cup {Nobody}, NEW a \in Clients \cup {Nobody},
         Serve(x, a)
  PROVE  IInv'
<1> DEFINE i == Turn(proc, loop)
           p == TimedOut(proc, x)
           c == p.fds[i].fd
           r == Accept(p, a)
<1>1. /\ loop.phase = "for" /\ x \in Expiring(proc)
      /\ \/ a = Nobody /\ Settle(p, i, Nobody)
         \/ /\ a \in Waiting \cup {Nobody}
            /\ Settle(Handled(r, i), i, Nobody)
         \/ /\ i <= Len(p.fds) /\ c \in Clients
            /\ a \in Waiting \cup {Nobody}
            /\ \E hows \in PossibleSends(r, c), ok \in BOOLEAN :
                 Settle(ServeSocket(r, c, i, hows, ok), i,
                        IF "in" \in p.fds[i].revents THEN c ELSE Nobody)
  BY DEF Serve
<1> HIDE DEF p, r, c
<1>2. i \in Nat \ {0}
  <2>1. Good(proc) /\ loop.i \in Nat \ {0} /\ i # 0
    BY <1>1 DEF IInv, Loop
  <2> HIDE DEF i
  <2> QED BY <2>1, TurnIs DEF i
<1> HIDE DEF i
<1>3. a \in Waiting \cup {Nobody}
  BY <1>1
<1>4. /\ Good(p) /\ Good(r)
      /\ \A k \in DOMAIN p.fds : k \in DOMAIN r.fds /\ r.fds[k] = p.fds[k]
      /\ \A d \in Clients : p.wsi[d].state # "none" =>
           p.wsi[d] = proc.wsi[d] /\ r.wsi[d] = proc.wsi[d]
      /\ \A d \in Clients : \A read : d # read => Step(p, d, read) /\ Step(r, d, read)
  BY <1>1, <1>3, BeforeServing DEF p, r
<1>5. Nobody \notin Clients
  BY FdsAssumption
<1>6. CASE Settle(p, i, Nobody)
  BY <1>1, <1>2, <1>4, <1>5, <1>6, SettleIs
<1>7. CASE Settle(Handled(r, i), i, Nobody)
  <2>1. Good(Handled(r, i)) /\ Handled(r, i).wsi = r.wsi
    BY <1>2, <1>4, HandledIs
  <2>2. ASSUME NEW d \in Clients PROVE Step(Handled(r, i), d, Nobody)
    <3>1. Step(r, d, Nobody)
      BY <1>4, <1>5, Zenon
    <3> QED BY <2>1, <3>1 DEF Step, Within
  <2> QED BY <1>1, <1>2, <1>7, <2>1, <2>2, SettleIs
<1>8. CASE /\ i <= Len(p.fds) /\ c \in Clients
           /\ \E hows \in PossibleSends(r, c), ok \in BOOLEAN :
                Settle(ServeSocket(r, c, i, hows, ok), i,
                       IF "in" \in p.fds[i].revents THEN c ELSE Nobody)
  <2> DEFINE read == IF "in" \in p.fds[i].revents THEN c ELSE Nobody
             n == IF "in" \in r.fds[i].revents THEN Len(input[c]) ELSE 0
  <2>1. PICK hows \in PossibleSends(r, c), ok \in BOOLEAN :
          Settle(ServeSocket(r, c, i, hows, ok), i, read)
    BY <1>8
  <2> DEFINE q == ServeSocket(r, c, i, hows, ok)
  <2>2. i \in DOMAIN p.fds
    <3>1. p.fds \in Seq(PollEntry)
      BY <1>4 DEF Good, Tables, Process
    <3> QED BY <1>2, <1>8, <3>1
  <2>3. p.wsi[c].state # "none"
    <3>1. c \in Present(p) \cup {Whitebox}
      BY <1>4, <2>2 DEF Good, Tables, Polled, c
    <3> QED BY <1>8, <3>1, FdsAssumption DEF Present
  <2>4. r.wsi[c] = proc.wsi[c] /\ proc.wsi[c].state # "none" /\ r.fds[i] = p.fds[i]
    BY <1>4, <1>8, <2>2, <2>3
  <2>5. /\ r.wsi[c].state = "http" => input[c] \in {<<>>, <<"upgrade">>, <<"get">>}
        /\ r.wsi[c].state # "http" => input[c] \in Seq(Frames)
    <3>1. Line(c)
      BY <1>8 DEF IInv
    <3> QED BY <2>4, <3>1 DEF Line
  <2>6. Good(q) /\ Apart(r, c, q) /\ Within(r, c, n, q)
    BY <1>2, <1>4, <1>8, <2>4, <2>5, ServeSocketIs
  <2>7. n = (IF c = read THEN Len(input[c]) ELSE 0)
    BY <1>5, <1>8, <2>4
  <2>8. ASSUME NEW d \in Clients, d # c PROVE d # read
    BY <1>5, <2>8
  <2>9. Settle(q, i, read)
    BY <2>1
  <2> HIDE DEF q, read, n
  <2>10. ASSUME NEW d \in Clients PROVE Step(q, d, read)
    <3>1. CASE d = c
      BY <2>4, <2>6, <2>7, <3>1 DEF Step, Within
    <3>2. CASE d # c
      <4>1. q.wsi[d] = r.wsi[d] /\ Step(r, d, read)
        BY <1>4, <2>6, <2>8, <3>2 DEF Apart
      <4> QED BY <4>1 DEF Step, Within
    <3> QED BY <3>1, <3>2
  <2> QED BY <1>1, <1>2, <2>6, <2>9, <2>10, SettleIs
<1> QED BY <1>1, <1>6, <1>7, <1>8

(* A client connects.                                                      *)
LEMMA ConnectIs ==
  ASSUME IInv, NEW c \in Clients, Connect(c)
  PROVE  IInv'
<1> DEFINE m == left.connects - 1
<1>1. /\ sock[c] = "idle" /\ sock' = [sock EXCEPT ![c] = "connecting"]
      /\ left.connects > 0 /\ left' = [left EXCEPT !.connects = m]
      /\ UNCHANGED <<proc, loop, input>>
      /\ sock \in [Clients -> {"idle", "connecting", "up", "fin", "rst"}]
      /\ left \in [frames : 0 .. MaxFrames, connects : Nat]
  BY DEF Connect, IInv
<1>2. m \in Nat
  BY <1>1
<1> HIDE DEF m
<1>3. left' \in [frames : 0 .. MaxFrames, connects : Nat] /\ left'.frames = left.frames
  BY <1>1, <1>2
<1>4. sock' \in [Clients -> {"idle", "connecting", "up", "fin", "rst"}]
      /\ \A d \in Clients : sock'[d] \in {"idle", "connecting"} <=> sock[d] \in {"idle", "connecting"}
  BY <1>1
<1>5. \A d \in Clients : Line(d)'
  BY <1>1, <1>3, <1>4 DEF IInv, Line
<1>6. Good(proc)' /\ Loop'
  BY <1>1 DEF IInv, Loop, Good, Tables
<1> QED BY <1>1, <1>3, <1>4, <1>5, <1>6 DEF IInv

(* A client sends: a request, or a frame out of what the bound leaves.     *)
LEMMA SendIs ==
  ASSUME IInv, NEW c \in Clients, Send(c)
  PROVE  IInv'
<1>1. /\ UNCHANGED <<proc, loop, sock>>
      /\ left \in [frames : 0 .. MaxFrames, connects : Nat] /\ DOMAIN input = Clients
      /\ \A d \in Clients : Line(d)
  BY DEF Send, IInv
<1>2. Good(proc)' /\ Loop' /\ sock' \in [Clients -> {"idle", "connecting", "up", "fin", "rst"}]
  BY <1>1 DEF IInv, Loop, Good, Tables
<1>3. CASE /\ proc.wsi[c].state = "http"
           /\ \E h \in {"upgrade", "get"} : input' = [input EXCEPT ![c] = <<h>>]
           /\ UNCHANGED left
  <2>1. DOMAIN input' = Clients /\ input'[c] \in {<<"upgrade">>, <<"get">>}
        /\ \A d \in Clients \ {c} : input'[d] = input[d]
    BY <1>1, <1>3
  <2>2. ASSUME NEW d \in Clients PROVE Line(d)'
    <3>1. CASE d = c
      BY <1>1, <1>3, <2>1, <3>1 DEF Line
    <3>2. CASE d # c
      BY <1>1, <1>3, <2>1, <3>2 DEF Line
    <3> QED BY <3>1, <3>2
  <2> QED BY <1>1, <1>2, <1>3, <2>1, <2>2 DEF IInv
<1>4. CASE /\ proc.wsi[c].state = "established"
           /\ left.frames > 0 /\ left' = [left EXCEPT !.frames = @ - 1]
           /\ \E h \in Says[c] : input' = [input EXCEPT ![c] = Append(@, h)]
  <2> DEFINE m == left.frames - 1
  <2>1. m \in 0 .. MaxFrames /\ m \in Nat /\ left.frames = m + 1
    BY <1>1, <1>4, BoundsAssumption
  <2>2. left' = [left EXCEPT !.frames = m]
    BY <1>4
  <2> HIDE DEF m
  <2>3. left' \in [frames : 0 .. MaxFrames, connects : Nat] /\ left'.frames = m
    BY <1>1, <2>1, <2>2
  <2>4. PICK h \in Says[c] : input' = [input EXCEPT ![c] = Append(input[c], h)]
    BY <1>4
  <2>5. h \in Frames
    BY SaysAssumption DEF Frames
  <2>6. DOMAIN input' = Clients /\ input'[c] = Append(input[c], h)
        /\ \A d \in Clients \ {c} : input'[d] = input[d]
    BY <1>1, <2>4
  <2>7. ASSUME NEW d \in Clients PROVE Line(d)'
    <3> DEFINE w == proc.wsi[d]
               b == w.buffers
    <3>1. b \in Int /\ MaxFrames \in Nat
      BY BuffersType, BoundsAssumption DEF IInv
    <3>2. /\ sock[d] \in {"idle", "connecting"} <=> w.state = "none"
          /\ w.state = "none" => input[d] = <<>>
          /\ w.state = "http" => input[d] \in {<<>>, <<"upgrade">>, <<"get">>}
          /\ w.state \notin {"none", "http"} =>
               /\ input[d] \in Seq(Frames)
               /\ b + Len(input[d]) + (m + 1) <= MaxFrames + 1
      BY <1>1, <2>1 DEF Line
    <3>3. SUFFICES /\ w.state = "none" => input'[d] = <<>>
                   /\ w.state = "http" => input'[d] \in {<<>>, <<"upgrade">>, <<"get">>}
                   /\ w.state \notin {"none", "http"} =>
                        /\ input'[d] \in Seq(Frames)
                        /\ b + Len(input'[d]) + m <= MaxFrames + 1
      BY <1>1, <2>3, <3>2 DEF Line
    <3> DEFINE n == Len(input[d])
    <3>4. CASE d = c
      <4>1. w.state = "established"
        BY <1>4, <3>4
      <4>2. input[d] \in Seq(Frames) /\ input'[d] = Append(input[d], h)
        BY <2>6, <3>2, <3>4, <4>1
      <4>3. n \in Nat /\ input'[d] \in Seq(Frames) /\ Len(input'[d]) = n + 1
        BY <2>5, <4>2
      <4>4. b + n + (m + 1) <= MaxFrames + 1
        BY <3>2, <4>1
      <4> HIDE DEF n, b
      <4>5. b + (n + 1) + m <= MaxFrames + 1
        BY <2>1, <3>1, <4>3, <4>4
      <4> HIDE DEF w
      <4> QED BY <4>1, <4>3, <4>5
    <3>5. CASE d # c
      <4>1. input'[d] = input[d]
        BY <2>6, <3>5
      <4>2. ASSUME w.state \notin {"none", "http"} PROVE b + n + m <= MaxFrames + 1
        <5>1. b + n + (m + 1) <= MaxFrames + 1 /\ n \in Nat
          BY <3>2, <4>2
        <5> HIDE DEF n, b
        <5> QED BY <2>1, <3>1, <5>1
      <4> HIDE DEF w
      <4> QED BY <3>2, <4>1, <4>2
    <3> QED BY <3>4, <3>5
  <2> QED BY <1>1, <1>2, <2>3, <2>6, <2>7 DEF IInv
<1> QED BY <1>3, <1>4 DEF Send

(* The socket of a client has room again, or breaks, while the thread      *)
(* polls.                                                                  *)
LEMMA AtPollIs ==
  ASSUME IInv, loop.phase = "poll", UNCHANGED <<loop, input, left>>,
         NEW c \in Clients, proc' = [proc EXCEPT !.full = @ \ {c}] \/ proc' = proc,
         sock' \in [Clients -> {"idle", "connecting", "up", "fin", "rst"}],
         \A d \in Clients : sock'[d] \in {"idle", "connecting"} <=> sock[d] \in {"idle", "connecting"}
  PROVE  IInv'
<1>1. Good(proc) /\ proc.full \in SUBSET Clients
  BY DEF IInv, Good, Tables, Process
<1> DEFINE f == proc.full \ {c}
           q == [proc EXCEPT !.full = f]
<1>2. f \in SUBSET Clients
  BY <1>1
<1>3. proc' = q \/ proc' = proc
  OBVIOUS
<1> HIDE DEF f
<1>4. Good(q) /\ q.wsi = proc.wsi
  BY <1>1, <1>2, FullGood
<1> HIDE DEF q
<1>5. Good(proc') /\ proc'.wsi = proc.wsi
  BY <1>1, <1>3, <1>4
<1>6. Loop'
  BY DEF IInv, Loop
<1>7. \A d \in Clients : Line(d)'
  BY <1>5 DEF IInv, Line
<1> QED BY <1>5, <1>6, <1>7 DEF IInv

(* Every step keeps the server in order.                                   *)
LEMMA NextIs ==
  ASSUME Room, IInv, [Next]_vars
  PROVE  IInv'
<1>1. CASE \E w \in Whiteboxes : Poll(w)
  BY <1>1, PollIs
<1>2. CASE \E x, a \in Clients \cup {Nobody} : Serve(x, a)
  BY <1>2, ServeIs
<1>3. CASE ServeWhitebox
  BY <1>3, ServeWhiteboxIs
<1>4. ASSUME NEW c \in Clients, Connect(c) PROVE IInv'
  BY <1>4, ConnectIs
<1>5. ASSUME NEW c \in Clients, Send(c) PROVE IInv'
  BY <1>5, SendIs
<1>6. ASSUME NEW c \in Clients, HangUp(c) PROVE IInv'
  <2>1. sock \in [Clients -> {"idle", "connecting", "up", "fin", "rst"}]
    BY DEF IInv
  <2>2. sock[c] = "up" /\ (sock' = [sock EXCEPT ![c] = "fin"] \/ sock' = [sock EXCEPT ![c] = "rst"])
    BY <1>6 DEF HangUp
  <2>3. sock' \in [Clients -> {"idle", "connecting", "up", "fin", "rst"}]
        /\ \A d \in Clients : sock'[d] \in {"idle", "connecting"} <=> sock[d] \in {"idle", "connecting"}
    BY <2>1, <2>2
  <2>4. loop.phase = "poll" /\ UNCHANGED <<loop, input, left>>
        /\ (proc' = [proc EXCEPT !.full = @ \ {c}] \/ proc' = proc)
    BY <1>6 DEF HangUp
  <2> QED BY <2>3, <2>4, AtPollIs
<1>7. ASSUME NEW c \in Clients, Drain(c) PROVE IInv'
  <2>1. sock \in [Clients -> {"idle", "connecting", "up", "fin", "rst"}]
    BY DEF IInv
  <2>2. loop.phase = "poll" /\ UNCHANGED <<loop, sock, input, left>>
        /\ proc' = [proc EXCEPT !.full = @ \ {c}]
    BY <1>7 DEF Drain
  <2> QED BY <2>1, <2>2, AtPollIs
<1>8. CASE UNCHANGED vars
  <2>1. UNCHANGED <<proc, loop, sock, input, left>>
    BY <1>8 DEF vars
  <2>2. Good(proc') /\ Loop'
    BY <2>1 DEF IInv, Loop
  <2> QED BY <2>1, <2>2, LinesKept
<1> QED BY <1>1, <1>2, <1>3, <1>4, <1>5, <1>6, <1>7, <1>8 DEF Next

----------------------------------------------------------------------------
(* What follows *)

(* The queue of a session never holds more than the greeting and the       *)
(* answers to the frames sent.                                             *)
LEMMA BuffersBound ==
  ASSUME IInv, NEW c \in Clients
  PROVE  proc.wsi[c].buffers \in 0 .. MaxFrames + 1
<1> DEFINE w == proc.wsi[c]
           b == w.buffers
           n == Len(input[c])
           m == left.frames
<1>1. Session(proc, c) /\ Line(c) /\ left \in [frames : 0 .. MaxFrames, connects : Nat]
  BY GoodFacts DEF IInv
<1>2. b \in Int /\ b >= 0 /\ MaxFrames \in Nat
  BY <1>1, BuffersType, BoundsAssumption DEF IInv, Session, Shape
<1>3. m \in Nat
  BY <1>1, <1>2
<1>4. CASE w.state \in {"none", "http"}
  <2>1. NoWsi.buffers = 0
    BY DEF NoWsi
  <2>2. b = 0
    BY <1>1, <1>4, <2>1 DEF Session, Shape
  <2> HIDE DEF b
  <2> QED BY <1>2, <2>2 DEF b
<1>5. CASE w.state \notin {"none", "http"}
  <2>1. n \in Nat /\ b + n + m <= MaxFrames + 1
    BY <1>1, <1>5 DEF Line
  <2> HIDE DEF b, n, m
  <2>2. b \in 0 .. MaxFrames + 1
    BY <1>2, <1>3, <2>1
  <2> QED BY <2>2 DEF b
<1> QED BY <1>4, <1>5

(* The types.                                                              *)
LEMMA IInvType ==
  ASSUME IInv
  PROVE  TypeOK
<1> DEFINE B == 0 .. MaxFrames + 1
           W == [state : {"none", "http", "established", "returned close", "flushing"},
                 truncated : BOOLEAN, ping_pending : BOOLEAN, pending_timeout : BOOLEAN,
                 unusable : BOOLEAN, open : BOOLEAN, buffers : B]
<1>1. proc \in Process
  BY DEF IInv, Good, Tables
<1>2. \A k \in DOMAIN proc.fds :
        proc.fds[k] \in [fd : Clients \cup {Listener, Whitebox}, events : Events, revents : Events]
  <2>1. proc.fds \in Seq(PollEntry)
    BY <1>1 DEF Process
  <2>2. \A k \in DOMAIN proc.fds : proc.fds[k] \in PollEntry
    BY <2>1
  <2>3. Sockets \cup {Whitebox} = Clients \cup {Listener, Whitebox}
    BY DEF Sockets
  <2> QED BY <2>2, <2>3, Zenon DEF PollEntry
<1>3. proc.wsi \in [Clients -> W]
  <2>1. proc.wsi \in [Clients -> Wsi]
    BY <1>1 DEF Process
  <2>2. ASSUME NEW c \in Clients PROVE proc.wsi[c] \in W
    <3>1. proc.wsi[c] \in Wsi /\ proc.wsi[c].buffers \in B
      BY <2>1, BuffersBound
    <3> HIDE DEF B
    <3> QED BY <3>1 DEF Wsi
  <2> HIDE DEF W
  <2> QED BY <2>1, <2>2
<1>4. proc.chip \in {"off", "tx", "rx"}
  BY <1>1 DEF Process
<1> HIDE DEF B
<1> QED BY <1>2, <1>3, <1>4 DEF TypeOK, IInv, Loop, B

(* The tables.                                                             *)
LEMMA IInvTables ==
  ASSUME Room, IInv
  PROVE  TablesAgree
<1> DEFINE T == Live \cup {Listener} \cup (IF proc.started THEN {Whitebox} ELSE {})
           n == Len(proc.lws)
<1>1. Present(proc) = Live \cup {Listener}
  BY DEF Present, Live
<1>2. /\ proc \in Process /\ Polled(proc.fds, proc.websocket_contexts, T)
      /\ Held(proc.lws, proc.position, Live \cup {Listener})
      /\ Mirrored(proc.fds, proc.lws, proc.position, Live \cup {Listener})
  BY <1>1 DEF IInv, Good, Tables
<1>3. {proc.fds[k].fd : k \in DOMAIN proc.fds} = T
  <2> HIDE DEF T
  <2> QED BY <1>2 DEF Polled
<1>4. n = Cardinality(Live) + 1
  <2> DEFINE S == Live \cup {Listener}
             f == [k \in 1 .. n |-> proc.lws[k].fd]
  <2>1. n \in Nat
    BY <1>2 DEF Process
  <2>2. /\ \A k \in 1 .. n : proc.lws[k].fd \in S /\ proc.position[proc.lws[k].fd] = k
        /\ \A d \in S : \E k \in 1 .. n : proc.lws[k].fd = d
    BY <1>2 DEF Held
  <2> HIDE DEF S, n
  <2>3. f \in [1 .. n -> S] /\ \A k \in 1 .. n : f[k] = proc.lws[k].fd
    BY <2>2
  <2> HIDE DEF f
  <2>4. f \in Bijection(1 .. n, S)
    <3>1. \A j, k \in 1 .. n : f[j] = f[k] => j = k
      BY <2>2, <2>3
    <3>2. \A d \in S : \E k \in 1 .. n : f[k] = d
      BY <2>2, <2>3
    <3> QED BY <2>3, <3>1, <3>2, Zenon DEF Bijection, Injection, IsInjective, Surjection
  <2>5. Cardinality(S) = n
    <3>1. ExistsBijection(1 .. n, S)
      BY <2>4 DEF ExistsBijection
    <3> QED BY <2>1, <3>1, FS_CountingElements
  <2>6. IsFiniteSet(Live) /\ Listener \notin Live
    BY FS_Subset, FdsAssumption DEF Room, Live
  <2>7. Cardinality(S) = Cardinality(Live) + 1
    BY <2>6, FS_AddElement DEF S
  <2> QED BY <2>5, <2>7 DEF n
<1>5. ASSUME NEW c \in Live
      PROVE  /\ proc.lws[proc.position[c]].fd = c
             /\ proc.lws[proc.position[c]].events = proc.fds[FirstEntry(proc.fds, c)].events
  <2>1. proc.lws[proc.position[c]].fd = c
    BY <1>2 DEF Held
  <2>2. c \in T
    OBVIOUS
  <2> HIDE DEF T
  <2>3. FirstEntry(proc.fds, c) \in DOMAIN proc.fds
        /\ proc.fds[FirstEntry(proc.fds, c)].fd = c
    BY <1>2, <2>2, EntryOf, Zenon
  <2>4. proc.fds[FirstEntry(proc.fds, c)] \in ToSet(proc.fds)
    BY <2>3 DEF ToSet
  <2> QED BY <1>2, <2>1, <2>3, <2>4 DEF Mirrored
<1>6. /\ \A j, k \in DOMAIN proc.fds : proc.fds[j].fd = proc.fds[k].fd => j = k
      /\ Len(proc.websocket_contexts) = Len(proc.fds)
      /\ \A k \in DOMAIN proc.fds : proc.websocket_contexts[k] <=> proc.fds[k].fd # Whitebox
  <2> HIDE DEF T
  <2> QED BY <1>2 DEF Polled
<1> QED BY <1>3, <1>4, <1>5, <1>6 DEF TablesAgree

(* What is pending is polled.                                              *)
LEMMA IInvPending ==
  ASSUME IInv
  PROVE  PendingIsPolled
<1> SUFFICES ASSUME NEW c \in Live, Pending(proc.wsi[c])
             PROVE  "out" \in proc.fds[FirstEntry(proc.fds, c)].events
  BY DEF PendingIsPolled, Pending
<1>1. c \in Clients /\ c \in Present(proc)
  BY DEF Live, Present
<1> DEFINE T == Present(proc) \cup (IF proc.started THEN {Whitebox} ELSE {})
<1>2. proc \in Process /\ Polled(proc.fds, proc.websocket_contexts, T) /\ c \in T
  BY <1>1 DEF IInv, Good, Tables
<1> HIDE DEF T
<1>3. Asked(proc.fds, c)
  BY <1>1 DEF IInv, Good, Session
<1>4. PICK k \in DOMAIN proc.fds : proc.fds[k].fd = c /\ "out" \in proc.fds[k].events
  BY <1>3 DEF Asked, ToSet
<1>5. k = FirstEntry(proc.fds, c)
  BY <1>2, <1>4, EntryOf, Zenon
<1> QED BY <1>4, <1>5

(***************************************************************************)
(* The theorems.  They are about any number of clients for whom the table  *)
(* of transfer_loop has room; without it poll_start_fd drops a socket, and *)
(* TablesAgree and NeverAborts fail.                                       *)
(***************************************************************************)

(* The invariant is kept by every turn of transfer_loop, whatever a call   *)
(* of libwebsocket_service_fd runs through, and by everything the clients  *)
(* and the network do.                                                     *)
THEOREM Invariant == ASSUME Room PROVE Spec => []IInv
<1>1. Init => IInv
  BY InitIs
<1>2. IInv /\ [Next]_vars => IInv'
  BY NextIs
<1> QED BY <1>1, <1>2, PTL DEF Spec

(* The data of the server stay within their types; in particular the queue *)
(* of statuses of a client holds at most one per frame that was sent and   *)
(* one more, though a status is queued in one callback and sent in another.*)
THEOREM TypeCorrect == ASSUME Room PROVE Spec => []TypeOK
<1>1. IInv => TypeOK
  BY IInvType
<1>2. Spec => []IInv
  BY Invariant
<1> QED BY <1>1, <1>2, PTL

(* The tables of transfer_loop and of libwebsockets agree however sockets  *)
(* come and go, though both fill a hole with their last entry while one of *)
(* them is walked.                                                         *)
THEOREM TablesStayTogether == ASSUME Room PROVE Spec => []TablesAgree
<1>1. IInv => TablesAgree
  BY IInvTables
<1>2. Spec => []IInv
  BY Invariant
<1> QED BY <1>1, <1>2, PTL

(* Neither the exit of poll_change_fd nor the assert of lws_issue_raw is   *)
(* reached: nothing is sent while bytes of an earlier frame are kept.      *)
THEOREM ServerNeverAborts == ASSUME Room PROVE Spec => []NeverAborts
<1>1. IInv => NeverAborts
  BY DEF IInv, Good, NeverAborts
<1>2. Spec => []IInv
  BY Invariant
<1> QED BY <1>1, <1>2, PTL

(* Whoever has something to send is polled for writing, though             *)
(* lws_handle_POLLOUT_event turns POLLOUT off before it calls the user.    *)
THEOREM NothingPendingForgotten == ASSUME Room PROVE Spec => []PendingIsPolled
<1>1. IInv => PendingIsPolled
  BY IInvPending
<1>2. Spec => []IInv
  BY Invariant
<1> QED BY <1>1, <1>2, PTL

(* The modem is in standby when the last session has ended, whichever of   *)
(* the ways it ended.                                                      *)
THEOREM QuietAlone == ASSUME Room PROVE Spec => []QuietWhenAlone
<1>1. IInv => QuietWhenAlone
  BY DEF IInv, Good, Modem, QuietWhenAlone
<1>2. Spec => []IInv
  BY Invariant
<1> QED BY <1>1, <1>2, PTL
=============================================================================

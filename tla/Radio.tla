------------------------------- MODULE Radio -------------------------------
(***************************************************************************)
(* The radio server: one thread, lib/main.cpp's transfer_loop, which polls *)
(* the listening socket, the clients' sockets and the whitebox, and serves *)
(* what is ready; libwebsockets' service of a socket (service.c, output.c, *)
(* handshake.c, parsers.c, libwebsockets.c: accept, upgrade, frames, ping, *)
(* truncated sends, close, timeouts); the callbacks of lib/server.cpp and  *)
(* lib/radio.cpp that turn a client's frames into calls of the modem.      *)
(*                                                                         *)
(* The process's data are one record, proc, because one call of            *)
(* libwebsocket_service_fd runs through all of them.  The clients and the  *)
(* network run beside it.  A descriptor is reused once it is closed.       *)
(*                                                                         *)
(* send() takes everything, everything and the socket is full then, a      *)
(* part or nothing (EAGAIN, "again"), or fails; a full socket is writable  *)
(* once the client reads.  truncated says that truncated_send_len > 0.  A  *)
(* queue of WriteBuffers is its length: what a status says and how frames  *)
(* are coded are left out, and so are the audio samples, which change none *)
(* of this state.                                                          *)
(***************************************************************************)
EXTENDS ModemOps, FiniteSets, TLC

CONSTANTS Clients,    \* descriptors of the clients' sockets
          Listener,   \* context->listen_service_fd
          Nobody,     \* no client
          MaxInput,   \* bound: frames a client sends ahead of the server
          MaxFrames,  \* bound: frames sent in all
          MaxConnects,\* bound: connections made in all
          Slow,       \* bound: the clients whose sockets fill up or break under a send
          Says        \* bound: the frames each client sends

ASSUME FdsAssumption == /\ Listener \notin Clients /\ Whitebox \notin Clients
                        /\ Nobody \notin Clients /\ Listener # Whitebox
ASSUME BoundsAssumption == /\ {MaxInput, MaxFrames, MaxConnects} \subseteq Nat
                           /\ Slow \subseteq Clients
ASSUME SaysAssumption ==
  Says \in [Clients -> SUBSET {"transmit", "receive", "set", "close", "ping", "close frame"}]

VARIABLES proc,   \* the data of the process
          loop,   \* the locals of transfer_loop: phase, i, serviced, status
          sock,   \* the sockets: "idle", "connecting", "up", "fin" or "rst" by the client
          input,  \* what a client has sent and the server has not read
          left    \* what the bounds still allow: frames and connections

vars == <<proc, loop, sock, input, left>>

Sends == {"whole", "filled", "again", "error"}

NoWsi == [state |-> "none", truncated |-> FALSE, ping_pending |-> FALSE,
          pending_timeout |-> FALSE, unusable |-> FALSE, open |-> FALSE, buffers |-> 0]

Init ==
  /\ proc = [fds |-> <<[fd |-> Listener, events |-> {"in"}, revents |-> {}]>>,
             websocket_contexts |-> <<TRUE>>,
             lws |-> <<[fd |-> Listener, events |-> {"in"}]>>,
             position |-> [d \in Clients \cup {Listener} |-> IF d = Listener THEN 1 ELSE 0],
             wsi |-> [c \in Clients |-> NoWsi], full |-> {},
             started |-> FALSE, txing |-> FALSE, rxing |-> FALSE,
             chip |-> "off", aborted |-> FALSE]
  /\ loop = [phase |-> "poll", i |-> 1, serviced |-> 0, status |-> 0]
  /\ sock = [c \in Clients |-> "idle"]
  /\ input = [c \in Clients |-> <<>>]
  /\ left = [frames |-> MaxFrames, connects |-> MaxConnects]

----------------------------------------------------------------------------
(* Sending: libwebsockets/lib/output.c *)

(* Bytes left over are kept for later only if send() took none.  After a  *)
(* part the caller is expected to come back with the rest, and does not:   *)
(* as far as this state goes the frame is sent, "filled".                  *)
lws_issue_raw(p, c, how) ==
  LET w == p.wsi[c]
      q == [p EXCEPT !.full = IF how = "whole" THEN @ \ {c} ELSE @ \cup {c}]
  IN  CASE w.truncated -> [p EXCEPT !.aborted = TRUE]   \* assert(0)
        [] ~w.truncated /\ (how = "error" \/ w.unusable) -> [p EXCEPT !.wsi[c].unusable = TRUE]
        [] ~w.truncated /\ how = "again" /\ ~w.unusable ->
             libwebsocket_callback_on_writable([q EXCEPT !.wsi[c].truncated = TRUE], c)
        [] OTHER -> q

(* The same for bytes kept from before, which go first: some are left      *)
(* ("again") or none.                                                      *)
IssueTruncated(p, c, how) ==
  libwebsocket_callback_on_writable(
    [p EXCEPT !.wsi[c].truncated = how = "again",
              !.full = IF how = "whole" THEN @ \ {c} ELSE @ \cup {c}], c)

(* A data frame.  (That a part leaves inside_frame set, so that the next   *)
(* frame goes out without a header of its own, is left out.)               *)
libwebsocket_write(p, c, how) ==
  IF p.wsi[c].state # "established" THEN p ELSE lws_issue_raw(p, c, how)

----------------------------------------------------------------------------
(* The callbacks of lib/server.cpp *)

server_data_out(p, c) ==
  libwebsocket_callback_on_writable([p EXCEPT !.wsi[c].buffers = @ + 1], c)

(* A deliberate slip: the status is queued twice.                          *)
StatusTwice(p, c) == server_data_out(server_data_out(p, c), c)

send_status(p, c) == server_data_out(p, c)

Established(p, c) == send_status([p EXCEPT !.wsi[c].open = TRUE], c)

(* The user's data of a session that has ended.  (What is left of the      *)
(* write queue is never freed, and never read again either.)               *)
Ended(p, c) == [p EXCEPT !.wsi[c].open = FALSE, !.wsi[c].buffers = 0]

Closed(p, c) == IF p.wsi[c].open THEN modem_standby(Ended(p, c)) ELSE p

(* A command in a text frame.  close ends the session; its 1 is not        *)
(* negative, so libwebsockets goes on.                                     *)
command(p, c, cmd, ok) ==
  CASE cmd = "transmit" -> send_status(modem_transmit(p, ok), c)
    [] cmd = "receive"  -> send_status(modem_receive(p, ok), c)
    [] cmd = "set"      -> send_status(modem_set_frequency(p), c)
    [] cmd = "close"    -> modem_standby(Ended(p, c))

lws_send_pipe_choked(p, c) == p.wsi[c].truncated \/ c \in p.full

(* A deliberate slip: the queue is written out without looking.            *)
StopsWhenEmpty(p, c) == p.wsi[c].buffers = 0

(* The loop of SERVER_WRITEABLE ends.                                      *)
WritingStops(p, c) == p.wsi[c].buffers = 0 \/ lws_send_pipe_choked(p, c)

WriteOne(p, c, how) == [libwebsocket_write(p, c, how) EXCEPT !.wsi[c].buffers = @ - 1]

(* SERVER_WRITEABLE, the sends of its loop going as hows says: before its  *)
(* first send, after each, and at its end.                                 *)
Writes(p, c, hows) ==
  LET after[k \in 0 .. Len(hows)] ==
        IF k = 0 THEN p ELSE WriteOne(after[k - 1], c, hows[k])
  IN  after
WriteOut(p, c, hows) == Writes(p, c, hows)[Len(hows)]

Outcomes(p, c, hows) ==
  IF ~p.wsi[c].open \/ p.wsi[c].buffers = 0 THEN hows = <<>>
  ELSE /\ hows # <<>>
       /\ \A k \in 1 .. Len(hows) :
            WritingStops(Writes(p, c, hows)[k], c) <=> k = Len(hows)

(* A deliberate slip: nobody asks to be called again.                      *)
WriteableForgets(p, c, hows) == WriteOut(p, c, hows)

ServerWriteable(p, c, hows) ==
  LET q == WriteOut(p, c, hows)
  IN  IF q.wsi[c].open /\ q.wsi[c].buffers > 0
      THEN libwebsocket_callback_on_writable(q, c) ELSE q

----------------------------------------------------------------------------
(* The session of a socket: libwebsockets.c, parsers.c, handshake.c        *)

(* A deliberate slip: the flush before a close has no timeout.             *)
CloseWithoutTimeout(p, c) ==
  LET w == p.wsi[c]
      q == remove_wsi_socket_from_fds(p, c)
      r == IF w.state = "http" THEN q ELSE Closed(q, c)
  IN  IF w.truncated /\ ~w.unusable
      THEN libwebsocket_callback_on_writable([p EXCEPT !.wsi[c].state = "flushing"], c)
      ELSE [r EXCEPT !.wsi[c] = NoWsi, !.full = @ \ {c}]

(* Bytes kept from a truncated send put the close off: the state becomes   *)
(* FLUSHING_STORED_SEND_BEFORE_CLOSE, with a timeout, and the user is told *)
(* later.                                                                  *)
libwebsocket_close_and_free_session(p, c) ==
  LET w == p.wsi[c]
      q == remove_wsi_socket_from_fds(p, c)
      r == IF w.state = "http" THEN q ELSE Closed(q, c)
  IN  IF w.truncated /\ ~w.unusable
      THEN IF w.state = "flushing" THEN libwebsocket_callback_on_writable(p, c)
           ELSE [p EXCEPT !.wsi[c].state = "flushing", !.wsi[c].pending_timeout = TRUE]
      ELSE [r EXCEPT !.wsi[c] = NoWsi, !.full = @ \ {c}]

(* The end of a frame in libwebsocket_rx_sm: a close frame is to be        *)
(* answered as a ping is, and a second one is fatal.                       *)
libwebsocket_rx_sm(r, c, frame, ok) ==
  LET w == r.p.wsi[c]
      ping(p) == libwebsocket_callback_on_writable([p EXCEPT !.wsi[c].ping_pending = TRUE], c)
  IN  IF r.bail THEN r
      ELSE CASE frame = "close frame" /\ w.state = "returned close" -> [r EXCEPT !.bail = TRUE]
             [] frame = "close frame" /\ w.state # "returned close" ->
                  [r EXCEPT !.p = ping([@ EXCEPT !.wsi[c].state = "returned close"])]
             [] frame = "ping" -> [r EXCEPT !.p = IF w.ping_pending THEN @ ELSE ping(@)]
             [] frame \notin {"ping", "close frame"} ->
                  [r EXCEPT !.p = IF w.open THEN command(@, c, frame, ok) ELSE @]

(* The frames that were read, one after the other.                         *)
Reads(p, c, frames, ok) ==
  LET after[k \in 0 .. Len(frames)] ==
        IF k = 0 THEN [p |-> p, bail |-> FALSE]
        ELSE libwebsocket_rx_sm(after[k - 1], c, frames[k], ok)
  IN  after

(* An HTTP request other than an upgrade leaves the connection open if ok. *)
(* Outside HTTP and ESTABLISHED what was read is dropped.                  *)
libwebsocket_read(p, c, frames, ok) ==
  LET r == Reads(p, c, frames, ok)[Len(frames)]
      http == [p EXCEPT !.wsi[c].pending_timeout = FALSE]
  IN  CASE p.wsi[c].state = "established" ->
             IF r.bail THEN libwebsocket_close_and_free_session(r.p, c) ELSE r.p
        [] p.wsi[c].state = "http" /\ Head(frames) = "upgrade" ->
             Established([http EXCEPT !.wsi[c].state = "established"], c)
        [] p.wsi[c].state = "http" /\ Head(frames) # "upgrade" ->
             IF ok THEN http ELSE libwebsocket_close_and_free_session(p, c)
        [] OTHER -> p

----------------------------------------------------------------------------
(* Serving a socket: service.c, server.c *)

(* The sends that serving c may try, in order; the loop of                 *)
(* SERVER_WRITEABLE starts with POLLOUT turned off.                        *)
PossibleSends(p, c) ==
  LET how == IF sock[c] = "rst" THEN {"error"} ELSE IF c \in Slow THEN Sends ELSE {"whole"}
      off == lws_change_pollfd(p, c, {"out"}, {})
  IN  IF \/ p.wsi[c].truncated
         \/ p.wsi[c].ping_pending /\ p.wsi[c].state = "established"
      THEN {<<h>> : h \in how}
      ELSE {s \in UNION {[1 .. n -> how] : n \in 0 .. p.wsi[c].buffers} : Outcomes(off, c, s)}

(* Truncated sends first, then a pong, then the user, after POLLOUT is     *)
(* turned off.  An answer to a close frame would have to be in state       *)
(* ESTABLISHED, which the close frame has ended: it is never sent.         *)
lws_handle_POLLOUT_event(p, c, hows) ==
  LET w == p.wsi[c]
      flushed == IssueTruncated(p, c, hows[1])
      off == lws_change_pollfd(p, c, {"out"}, {})
  IN  IF w.truncated
      THEN IF hows[1] = "error" THEN [p |-> [p EXCEPT !.wsi[c].unusable = TRUE], close |-> TRUE]
           ELSE [p |-> flushed, close |-> w.state = "flushing"
                                          /\ ~flushed.wsi[c].truncated]
      ELSE IF w.state = "established" /\ w.ping_pending
           THEN [p |-> [lws_issue_raw(p, c, hows[1]) EXCEPT !.wsi[c].ping_pending = FALSE],
                 close |-> hows[1] = "error"]
      ELSE [p |-> ServerWriteable(off, c, hows), close |-> FALSE]

(* accept: the new connection gets an entry and a timeout.                 *)
Accept(p, c) ==
  IF c = Nobody THEN p
  ELSE insert_wsi_socket_into_fds(
         [p EXCEPT !.wsi[c] = [NoWsi EXCEPT !.state = "http", !.pending_timeout = TRUE]], c)

(* "handled": revents of the entry that is at i by now.                    *)
Handled(p, i) == IF i > Len(p.fds) THEN p ELSE [p EXCEPT !.fds[i].revents = {}]

(* POLLOUT, then POLLIN, on the socket of c, at i of the table.            *)
ServeSocket(p, c, i, hows, ok) ==
  LET ev == p.fds[i].revents
      out == IF "out" \in ev /\ p.wsi[c].state # "http"
             THEN lws_handle_POLLOUT_event(p, c, hows) ELSE [p |-> p, close |-> FALSE]
      eof == sock[c] = "rst" \/ input[c] = <<>>
  IN  CASE out.close -> libwebsocket_close_and_free_session(out.p, c)
        [] ~out.close /\ "in" \notin ev -> Handled(out.p, i)
        [] ~out.close /\ "in" \in ev /\ eof ->
             LET q == libwebsocket_close_and_free_session(out.p, c)
             IN  IF p.wsi[c].state = "http" THEN Handled(q, i) ELSE q
        [] ~out.close /\ "in" \in ev /\ ~eof ->
             Handled(libwebsocket_read(out.p, c, input[c], ok), i)

(* The once a second scan may close a socket whose time is up, x, before   *)
(* the one it came for is looked at: the table may have moved under i.     *)
TimedOut(p, x) ==
  IF x = Nobody THEN p
  ELSE libwebsocket_close_and_free_session([p EXCEPT !.wsi[x].unusable = TRUE], x)

Expiring(p) == {Nobody} \cup {x \in Clients : p.wsi[x].pending_timeout}
Waiting == {a \in Clients : sock[a] = "connecting"}

----------------------------------------------------------------------------
(* transfer_loop of lib/main.cpp *)

AtPoll == [phase |-> "poll", i |-> 1, serviced |-> 0, status |-> 0]

(* The entry the for loop stops at next, 0 for none.                       *)
Turn(p, l) ==
  LET served(e) == e.fd = Whitebox \/ p.websocket_contexts[FirstEntry(p.fds, e.fd)]
      next == {i \in l.i .. Len(p.fds) : p.fds[i].revents # {} /\ served(p.fds[i])}
  IN  IF l.serviced = l.status \/ next = {} THEN 0 ELSE Min(next)

(* The for loop goes on behind entry i, or back to poll, which overwrites  *)
(* every revents.                                                          *)
GoOn(p, i) ==
  LET l == [loop EXCEPT !.i = i + 1, !.serviced = @ + 1]
  IN  IF Turn(p, l) # 0 THEN loop' = l /\ proc' = p
      ELSE /\ loop' = AtPoll
           /\ proc' = [p EXCEPT !.fds = [k \in DOMAIN @ |-> [@[k] EXCEPT !.revents = {}]]]

Ready(e, w) ==
  CASE e.fd = Listener -> IF Waiting = {} THEN {} ELSE {"in"}
    [] e.fd = Whitebox -> w
    [] OTHER -> e.events \cap ((IF input[e.fd] # <<>> \/ sock[e.fd] \in {"fin", "rst"}
                                THEN {"in"} ELSE {})
                               \cup (IF e.fd \notin proc.full THEN {"out"} ELSE {}))

(* POLLIN of the whitebox is not served: the call of modem_read is         *)
(* commented out.                                                          *)
Whiteboxes == SUBSET {"out", "err"}

(* poll returns; w is what the whitebox has ready.                         *)
Poll(w) ==
  LET fds == [k \in DOMAIN proc.fds |->
                [proc.fds[k] EXCEPT !.revents = Ready(proc.fds[k], w)]]
      n == Cardinality({k \in DOMAIN fds : fds[k].revents # {}})
  IN  /\ loop.phase = "poll" /\ n > 0
      /\ \/ w = {}
         \/ \E k \in DOMAIN fds : fds[k].fd = Whitebox /\ w \subseteq fds[k].events
      /\ proc' = [proc EXCEPT !.fds = fds]
      /\ loop' = [phase |-> "for", i |-> 1, serviced |-> 0, status |-> n]
      /\ UNCHANGED <<sock, input, left>>

Settle(p, i, read) ==
  /\ GoOn(p, i)
  /\ sock' = [d \in Clients |->
                IF p.wsi[d].unusable THEN "rst"
                ELSE IF p.wsi[d].state = "none" /\ proc.wsi[d].state # "none" THEN "idle"
                ELSE IF p.wsi[d].state # "none" /\ sock[d] = "connecting" THEN "up"
                ELSE sock[d]]
  /\ input' = [d \in Clients |->
                 IF p.wsi[d].state = "none" \/ d = read THEN <<>> ELSE input[d]]
  /\ UNCHANGED left

(* The turn of a socket.  x times out first; a waits to be accepted, and   *)
(* is when the listening socket is served, or now and then with another.   *)
Serve(x, a) ==
  LET i == Turn(proc, loop)
      p == TimedOut(proc, x)
      c == p.fds[i].fd
  IN  /\ loop.phase = "for" /\ proc.websocket_contexts[i]
      /\ x \in Expiring(proc)
      /\ \/ /\ x # Nobody /\ (x = proc.fds[i].fd \/ i > Len(p.fds))
            /\ a = Nobody
            /\ Settle(p, i, Nobody)
         \/ /\ x # proc.fds[i].fd /\ i <= Len(p.fds) /\ c = Listener
            /\ a \in IF Waiting = {} THEN {Nobody} ELSE Waiting
            /\ Settle(Handled(Accept(p, a), i), i, Nobody)
         \/ /\ x # proc.fds[i].fd /\ i <= Len(p.fds) /\ c \in Clients
            /\ a \in Waiting \cup {Nobody}
            /\ \E hows \in PossibleSends(Accept(p, a), c), ok \in BOOLEAN :
                 Settle(ServeSocket(Accept(p, a), c, i, hows, ok), i,
                        IF "in" \in p.fds[i].revents THEN c ELSE Nobody)

(* The turn of the whitebox.                                               *)
ServeWhitebox ==
  LET i == Turn(proc, loop)
  IN  /\ loop.phase = "for" /\ ~proc.websocket_contexts[i]
      /\ \E ok \in BOOLEAN :
           GoOn(IF "err" \in proc.fds[i].revents THEN modem_recover(proc, ok) ELSE proc, i)
      /\ UNCHANGED <<sock, input, left>>

----------------------------------------------------------------------------
(* The clients and the network.  What arrives while the for loop runs is   *)
(* seen by the next poll, or read with what was there before, as if it had *)
(* come earlier: it is taken while the thread is at poll.  A connection    *)
(* that breaks meanwhile shows as an error of a send.                      *)

Connect(c) ==
  /\ loop.phase = "poll" /\ sock[c] = "idle"
  /\ left.connects > 0 /\ left' = [left EXCEPT !.connects = @ - 1]
  /\ sock' = [sock EXCEPT ![c] = "connecting"]
  /\ UNCHANGED <<proc, loop, input>>

Send(c) ==
  /\ loop.phase = "poll" /\ sock[c] = "up" /\ Len(input[c]) < MaxInput
  /\ \/ /\ proc.wsi[c].state = "http" /\ input[c] = <<>>
        /\ \E h \in {"upgrade", "get"} : input' = [input EXCEPT ![c] = <<h>>]
        /\ UNCHANGED left
     \/ /\ proc.wsi[c].state = "established"
        /\ left.frames > 0 /\ left' = [left EXCEPT !.frames = @ - 1]
        /\ \E h \in Says[c] : input' = [input EXCEPT ![c] = Append(@, h)]
  /\ UNCHANGED <<proc, loop, sock>>

HangUp(c) ==
  /\ loop.phase = "poll" /\ sock[c] = "up"
  /\ \/ sock' = [sock EXCEPT ![c] = "fin"] /\ UNCHANGED proc
     \/ sock' = [sock EXCEPT ![c] = "rst"] /\ proc' = [proc EXCEPT !.full = @ \ {c}]
  /\ UNCHANGED <<loop, input, left>>

Drain(c) ==
  /\ loop.phase = "poll" /\ c \in proc.full
  /\ proc' = [proc EXCEPT !.full = @ \ {c}]
  /\ UNCHANGED <<loop, sock, input, left>>

Next ==
  \/ \E w \in Whiteboxes : Poll(w)
  \/ \E x, a \in Clients \cup {Nobody} : Serve(x, a)
  \/ ServeWhitebox
  \/ \E c \in Clients : Connect(c) \/ Send(c) \/ HangUp(c) \/ Drain(c)

Spec == Init /\ [][Next]_vars

SomethingReady == \E k \in DOMAIN proc.fds : Ready(proc.fds[k], {}) # {}
ServingASocket == loop.phase = "for" /\ proc.websocket_contexts[Turn(proc, loop)]

(* The thread runs: poll returns when a socket is ready, WF_vars(Poll({})),*)
(* and the for loop comes to its end, WF_vars(ServeWhitebox \/ \E x, a :   *)
(* Serve(x, a)).  Seconds go by: a timeout is up some day if sockets keep  *)
(* being served, which is when libwebsockets looks at the clock,           *)
(* SF_vars(\E a : Serve(c, a)).  All three are in state predicates here:   *)
(* ENABLED of Serve is too much for TLC.                                   *)
FairSpec ==
  /\ Spec
  /\ []<>~(loop.phase = "poll" /\ SomethingReady)
  /\ []<>(loop.phase = "poll")
  /\ \A c \in Clients : <>[]~ServingASocket \/ []<>~proc.wsi[c].pending_timeout

----------------------------------------------------------------------------
(* Properties *)

Events == SUBSET {"in", "out", "err"}

(* The data of the server stay within their types.                         *)
TypeOK ==
  /\ \A k \in DOMAIN proc.fds :
       proc.fds[k] \in [fd : Clients \cup {Listener, Whitebox}, events : Events, revents : Events]
  /\ proc.wsi \in [Clients -> [state : {"none", "http", "established", "returned close", "flushing"},
                               truncated : BOOLEAN, ping_pending : BOOLEAN, pending_timeout : BOOLEAN,
                               unusable : BOOLEAN, open : BOOLEAN, buffers : 0 .. MaxFrames + 1]]
  /\ proc.chip \in {"off", "tx", "rx"}
  /\ loop.serviced <= loop.status
  /\ sock \in [Clients -> {"idle", "connecting", "up", "fin", "rst"}]

Live == {c \in Clients : proc.wsi[c].state # "none"}

(* The two tables agree however sockets come and go while one of them is   *)
(* walked: every live connection, the listening socket and, while it is    *)
(* started, the whitebox are in the polled table exactly once, each with   *)
(* its own kind in websocket_contexts; and libwebsockets' position of a    *)
(* connection is that of its own entry, with the events that are polled.   *)
TablesAgree ==
  LET entry(fd) == proc.fds[FirstEntry(proc.fds, fd)]
  IN  /\ {proc.fds[k].fd : k \in DOMAIN proc.fds}
           = Live \cup {Listener} \cup (IF proc.started THEN {Whitebox} ELSE {})
      /\ \A j, k \in DOMAIN proc.fds : proc.fds[j].fd = proc.fds[k].fd => j = k
      /\ Len(proc.websocket_contexts) = Len(proc.fds)
      /\ \A k \in DOMAIN proc.fds : proc.websocket_contexts[k] <=> proc.fds[k].fd # Whitebox
      /\ Len(proc.lws) = Cardinality(Live) + 1
      /\ \A c \in Live : /\ proc.lws[proc.position[c]].fd = c
                         /\ proc.lws[proc.position[c]].events = entry(c).events

(* Neither exit(-1) of poll_change_fd (a descriptor it does not find) nor  *)
(* the assert of lws_issue_raw (a new frame while one is truncated) is     *)
(* ever reached.                                                           *)
NeverAborts == ~proc.aborted

(* The one shot of POLLOUT loses nothing: a client with a status in its    *)
(* queue, bytes kept from a truncated send or a pong to be sent is polled  *)
(* for writing.                                                            *)
PendingIsPolled ==
  \A c \in Live :
    LET w == proc.wsi[c]
    IN  \/ w.open /\ w.buffers > 0
        \/ w.truncated
        \/ w.ping_pending /\ w.state = "established"
        => "out" \in proc.fds[FirstEntry(proc.fds, c)].events

(* When no session is open any more, however the last one ended (a close   *)
(* command, a hang up, an error, a timeout), the modem is in standby: the  *)
(* chip is off and the whitebox is not polled.                             *)
QuietWhenAlone ==
  (\A c \in Clients : ~proc.wsi[c].open)
    => proc.chip = "off" /\ ~proc.started /\ ~proc.txing /\ ~proc.rxing

(* A client that is gone is let go of: its socket is closed and its session*)
(* ended, though entries of the polled table move and are passed over in   *)
(* the round in which another is removed, and though unsent bytes put the  *)
(* close off.                                                              *)
GoneIsClosed == \A c \in Clients : sock[c] \in {"fin", "rst"} ~> sock[c] = "idle"
=============================================================================

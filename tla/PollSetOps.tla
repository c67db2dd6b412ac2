----------------------------- MODULE PollSetOps -----------------------------
(***************************************************************************)
(* The two tables of file descriptors the radio server keeps: fds and      *)
(* websocket_contexts of lib/main.cpp, which transfer_loop polls, and      *)
(* libwebsockets' own context->fds with the position_in_fds_table of every *)
(* connection (libwebsockets/lib/pollfd.c), mirrored into the first by the *)
(* ADD, CHANGE_MODE and DEL callbacks of lib/server.cpp.  Both tables fill *)
(* a hole with their last entry.                                           *)
(*                                                                         *)
(* An operator takes the record p of the tables (and whatever else the     *)
(* process keeps) and returns it changed.  Positions count from 1; 0 is    *)
(* "no position".                                                          *)
(***************************************************************************)
EXTENDS Integers, Sequences, SequencesExt

CONSTANT MaxFds   \* max_fd_count, the entries of fds
ASSUME MaxFdsAssumption == MaxFds \in Nat

(* Entry i goes, and the last one takes its place.                         *)
WithLastInPlace(s, i) == Front([s EXCEPT ![i] = Last(s)])

FirstEntry(s, fd) ==
  LET at == {i \in DOMAIN s : s[i].fd = fd} IN IF at = {} THEN 0 ELSE Min(at)

----------------------------------------------------------------------------
(* lib/main.cpp *)

(* A full table takes no more; nobody is told.                             *)
poll_start_fd(p, fd, events, websocket) ==
  IF Len(p.fds) >= MaxFds THEN p
  ELSE [p EXCEPT !.fds = Append(@, [fd |-> fd, events |-> events, revents |-> {}]),
                 !.websocket_contexts = Append(@, websocket)]

(* A descriptor that is not in the table ends the process: exit(-1).       *)
poll_change_fd(p, fd, events) ==
  LET i == FirstEntry(p.fds, fd)
  IN  IF i = 0 THEN [p EXCEPT !.aborted = TRUE]
      ELSE [p EXCEPT !.fds[i].events = events]

(* A deliberate slip: the parallel array is only shortened.                *)
EndKeepsContexts(p, fd) ==
  LET i == FirstEntry(p.fds, fd)
  IN  IF i = 0 THEN p
      ELSE [p EXCEPT !.fds = WithLastInPlace(@, i),
                     !.websocket_contexts = Front(@)]

poll_end_fd(p, fd) ==
  LET i == FirstEntry(p.fds, fd)
  IN  IF i = 0 THEN p
      ELSE [p EXCEPT !.fds = WithLastInPlace(@, i),
                     !.websocket_contexts = WithLastInPlace(@, i)]

----------------------------------------------------------------------------
(* libwebsockets/lib/pollfd.c and the callbacks it makes                   *)

insert_wsi_socket_into_fds(p, fd) ==
  LET q == [p EXCEPT !.lws = Append(@, [fd |-> fd, events |-> {"in"}]),
                     !.position[fd] = Len(p.lws) + 1]
  IN  poll_start_fd(q, fd, {"in"}, TRUE)

remove_wsi_socket_from_fds(p, fd) ==
  LET m == p.position[fd]
      q == [p EXCEPT !.lws = WithLastInPlace(@, m),
                     !.position = [@ EXCEPT ![Last(p.lws).fd] = m, ![fd] = 0]]
  IN  poll_end_fd(q, fd)

lws_change_pollfd(p, fd, and, or) ==
  LET m == p.position[fd]
      events == (p.lws[m].events \ and) \cup or
  IN  IF m = 0 THEN p
      ELSE poll_change_fd([p EXCEPT !.lws[m].events = events], fd, events)

libwebsocket_callback_on_writable(p, fd) == lws_change_pollfd(p, fd, {}, {"out"})
=============================================================================

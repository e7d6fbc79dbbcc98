------------------------------ MODULE PortQueue ------------------------------
(***************************************************************************)
(* server/port-queue.c, server/ports.h: the table of connected clients.    *)
(*                                                                         *)
(* Three pieces of state written by different functions describe the same  *)
(* clients: the linked list pq (newest first), the descriptor set fds->ps  *)
(* that select() watches, and the counter monitorcount.  The actions here  *)
(* are everything the server does to the three; PQSpec is what the table   *)
(* promises to the rest of the server, which the module Server implements. *)
(***************************************************************************)
EXTENDS Integers, Sequences, FiniteSets, SequencesExt, Selection

CONSTANTS
    Fd,         \* descriptors the process may be given
    Conn,       \* TCP connections; one stands for its peer address and port
    NoConn,     \* the all-zero sockaddr_in of a static that was never filled
    User,       \* user names (those strcasecmp tells apart), the empty one too
    NoUser,     \* the NULL userid of a client whose host answers no ident
    MaxPorts    \* list nodes malloc() still grants

ASSUME PortQueueAssumption ==
    /\ Fd \subseteq Nat /\ IsFiniteSet(Fd)
    /\ NoConn \notin Conn
    /\ NoUser \notin User
    /\ MaxPorts \in Nat

VARIABLES
    pq,             \* the list, as the sequence of its port_t
    ps,             \* fds->ps
    monitorcount

pqvars == <<pq, ps, monitorcount>>

Port ==
    [fd : Fd \cup {NoFd}, conn : Conn \cup {NoConn},
     flag : SUBSET {"READ", "WRITE", "MONITOR"}, userid : User \cup {NoUser}]

Monitored == {k \in DOMAIN pq : "MONITOR" \in pq[k].flag}

(* FLAG_READ is always granted, FLAG_WRITE only to an authenticated user.  *)
Rights(full) == IF full THEN {"READ", "WRITE"} ELSE {"READ"}
-------------------------------------------------------------------------------
(* port_server_init and the globals of port-queue.c and fifo-server.c.     *)
PQInit ==
    /\ pq = <<>>
    /\ ps = EmptyFds
    /\ monitorcount = 0

(* port_enqueue returns 0 when malloc() does.                              *)
MallocFails == Len(pq) >= MaxPorts

(* port_enqueue with the comparison for the new maximum turned round.      *)
port_enqueue_minfd(p) ==
    /\ pq' = Cons(p, pq)
    /\ ps' = [ps EXCEPT !.fullcount = @ + 1, !.full = @ \cup {p.fd},
                        !.maxfd = IF p.fd < @ THEN p.fd ELSE @]
    /\ UNCHANGED monitorcount

(* The fd of p is NoFd when accept() failed.  FD_SET(-1) then sets a bit   *)
(* that no scan up to maxfd reaches (bit 63 on the 64-bit builds, Fd being *)
(* the descriptors below it); NoFd stands for that bit.                    *)
port_enqueue(p) ==
    /\ pq' = Cons(p, pq)
    /\ ps' = [ps EXCEPT !.fullcount = @ + 1, !.full = @ \cup {p.fd},
                        !.maxfd = IF p.fd > @ THEN p.fd ELSE @]
    /\ UNCHANGED monitorcount

(* A close_port that forgets that the port was a monitor.                  *)
close_port_count(p) ==
    /\ pq' = RemoveFirst(pq, p)
    /\ LET cleared == [ps EXCEPT !.fullcount = @ - 1, !.full = @ \ {p.fd}]
       IN  ps' = [cleared EXCEPT !.maxfd = adjust_maxfd(cleared, p.fd)]
    /\ UNCHANGED monitorcount

(* The list node to unlink is found by comparing the whole port_t; close() *)
(* of the descriptor is left to the caller's openfds.                      *)
close_port(p) ==
    IF p.fd \in ps.full
    THEN /\ monitorcount' = monitorcount - (IF "MONITOR" \in p.flag THEN 1 ELSE 0)
         /\ pq' = RemoveFirst(pq, p)
         /\ LET cleared == [ps EXCEPT !.fullcount = @ - 1, !.full = @ \ {p.fd}]
            IN  ps' = [cleared EXCEPT !.maxfd = adjust_maxfd(cleared, p.fd)]
    ELSE UNCHANGED pqvars

(* parse_incoming, "monitor ...": subscribe the k-th client.               *)
MonitorOn(k) ==
    IF "MONITOR" \in pq[k].flag
    THEN UNCHANGED pqvars
    ELSE /\ pq' = [pq EXCEPT ![k].flag = @ \cup {"MONITOR"}]
         /\ monitorcount' = monitorcount + 1
         /\ UNCHANGED ps

(* MonitorOff without the test that the port is a monitor at all.          *)
MonitorOff_unguarded(k) ==
    /\ pq' = [pq EXCEPT ![k].flag = @ \ {"MONITOR"}]
    /\ monitorcount' = monitorcount - 1
    /\ UNCHANGED ps

(* parse_incoming, "monitor off": unsubscribe it.                          *)
MonitorOff(k) ==
    IF "MONITOR" \in pq[k].flag
    THEN /\ pq' = [pq EXCEPT ![k].flag = @ \ {"MONITOR"}]
         /\ monitorcount' = monitorcount - 1
         /\ UNCHANGED ps
    ELSE UNCHANGED pqvars

(* reauthenticate_users: full is the set of positions auth_check accepts.  *)
reauthenticate_users(full) ==
    /\ pq' = [k \in DOMAIN pq |->
                [pq[k] EXCEPT !.flag = (@ \ {"READ", "WRITE"}) \cup Rights(k \in full)]]
    /\ UNCHANGED <<ps, monitorcount>>

(* The share of demux_fds in fds->ps.                                      *)
SelectPorts(visited) ==
    /\ ps' = demux_fds(ps, visited)
    /\ UNCHANGED <<pq, monitorcount>>
-------------------------------------------------------------------------------
(* The table on its own.  What it relies on: a descriptor that enters it   *)
(* is one the kernel handed out and so not in it, no new client is a       *)
(* monitor, and only clients with a descriptor are read from and closed.   *)
NewPort(p) ==
    /\ "MONITOR" \notin p.flag
    /\ \A k \in DOMAIN pq : pq[k].fd = p.fd => p.fd = NoFd

PQNext ==
    \/ \E full \in SUBSET DOMAIN pq : reauthenticate_users(full)
    \/ \E k \in DOMAIN pq :
          /\ pq[k].fd # NoFd
          /\ close_port(pq[k]) \/ MonitorOn(k) \/ MonitorOff(k)
    \/ \E visited \in SUBSET Fd : SelectPorts(visited)
    \/ ~ MallocFails /\ \E p \in Port : NewPort(p) /\ port_enqueue(p)

(* The port queue on its own, the specification the whole server refines:  *)
(* every step of the server is one operation of the table, or leaves it.   *)
PQSpec == PQInit /\ [][PQNext]_pqvars
-------------------------------------------------------------------------------
PQTypeOK ==
    /\ pq \in Seq(Port)
    /\ ps \in ThreadFds(Fd)
    /\ monitorcount \in Nat

(* No two clients share a descriptor, and one without never subscribes.    *)
DistinctFds ==
    \A j, k \in DOMAIN pq :
        /\ pq[j].fd = pq[k].fd => j = k \/ pq[j].fd = NoFd
        /\ pq[j].fd = NoFd => "MONITOR" \notin pq[j].flag

(* select() is asked about exactly the clients in the list: none is left   *)
(* out, by a missing bit or by a bound too low, and no closed one is in.   *)
WatchedExactly ==
    /\ ps.full = {pq[k].fd : k \in DOMAIN pq}
    /\ ps.fullcount = Len(pq)
    /\ ps.maxfd \in ps.full \cup {NoFd}
    /\ \A f \in ps.full : f <= ps.maxfd

(* monitorcount, which parse_incoming, close_port and nobody else keep,    *)
(* counts the subscribed clients: fifo_server stops after that many and    *)
(* closes the pipe at 0.                                                   *)
MonitorsCounted == monitorcount = Cardinality({pq[k].fd : k \in Monitored})

(* The list, the watched set and the counter describe the same clients     *)
(* after any sequence of connects, commands, hang-ups, failed accepts and  *)
(* reloads.                                                                *)
PortTable == DistinctFds /\ WatchedExactly /\ MonitorsCounted
===============================================================================

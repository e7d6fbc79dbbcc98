------------------------------ MODULE MCServer -------------------------------
(* Instances of Server for TLC.                                            *)
EXTENDS Server

CONSTANTS c1, c2, c3, alice

(* Descriptors: 0 to 2 stay with the process it was started from, 3 and 4  *)
(* are the listening socket and the control FIFO.                          *)
ManyFds == 5..10
FewFds == 5..7

(* The bits of an address; all clients are at one address, or each has one *)
(* of its own.                                                             *)
TwoBits == {1, 2}
OneHost == [c \in Conn \cup {NoConn} |-> IF c = NoConn THEN {} ELSE {1}]
OwnHosts == [c \in Conn \cup {NoConn} |-> CASE c = c1 -> {1} [] c = c2 -> {2} [] OTHER -> {}]

(* An ident host that knows the user, and one that does not.               *)
AliceReply == <<"ports", "USERID", "OTHER", alice>>
ErrorReply == <<"ports", "ERROR", "NO-USER">>
Known == {AliceReply}
KnownOrNot == {AliceReply, ErrorReply}
Users == {<<alice>>, <<>>}

(* Alice from everywhere, from the network of one bit, from another one,   *)
(* and a line without a netmask.                                           *)
AliceAnywhere == <<<<alice, {}, {}>>>>
AliceNear == <<BlankLine, <<alice, {1, 2}, {1}>>>>
AliceFar == <<<<alice, {2}, {2}>>>>
NoNetmask == <<<<alice, {1}>>>>

AnyConf == {AliceNear, AliceFar, NoNetmask}
ReadableConf == {AliceAnywhere, AliceFar}
OneConf == {AliceAnywhere}

(* The uninitialised count of demux_fds: 0, or below what an interrupted   *)
(* select() returns.                                                       *)
BelowToo == {-2, 0}

(* Sound where the configurations of the instance treat connections alike. *)
ConnSymmetry == Permutations(Conn)
-------------------------------------------------------------------------------
(* Later initial states, for runs about what follows: every connection has *)
(* been admitted as alice, some have subscribed, and diald has opened the  *)
(* pipe.  read_conf, Connect, Accept, ... DialdAttach lead to them; bounds *)
(* on what clients and diald do count from there.                          *)
Listed(order, subscribed) ==
    [k \in DOMAIN order |->
        [fd |-> 5 + Len(order) - k, conn |-> order[k], userid |-> <<alice>>,
         flag |-> Rights(TRUE) \cup IF order[k] \in subscribed THEN {"MONITOR"} ELSE {}]]

PipeFd == 5 + Cardinality(Conn)

Watching(F) == [EmptyFds EXCEPT !.fullcount = Cardinality(F), !.full = F, !.maxfd = Max(F)]

SubscribedInit ==
    /\ \E order \in SetToSeqs(Conn), subscribed \in SUBSET Conn \ {{}} :
          /\ pq = Listed(order, subscribed)
          /\ monitorcount = Cardinality(subscribed)
    /\ LET portfds == {pq[k].fd : k \in DOMAIN pq} IN
       /\ ps = Watching(portfds)
       /\ files = [f \in Fd |-> IF f \in portfds THEN (CHOOSE p \in ToSet(pq) : p.fd = f).conn
                               ELSE IF f = PipeFd THEN "pipe" ELSE "free"]
    /\ client = [c \in Conn |-> "up"]
    /\ inbox = [c \in Conn |-> <<>>]
    /\ sent = [c \in Conn |-> 0]
    /\ stalled = {}
    /\ backlog = <<>>
    /\ diald = TRUE
    /\ pipe = [writer |-> "open", q |-> <<>>]
    /\ written = 0
    /\ got = [c \in Conn |-> <<>>]
    /\ pc = "select"
    /\ pd = Watching({ListenFd})
    /\ fs = Watching({PipeFd})
    /\ controlfd = ControlFd
    /\ curr = 0 /\ i = 0
    /\ s_in = NoClient(pq[1].conn)
    /\ monitorfd = PipeFd /\ line = <<>> /\ openFailed = FALSE /\ epipe = FALSE
    /\ aq = Configured(AliceAnywhere) /\ conf = AliceAnywhere /\ race = "none" /\ hups = 0 /\ stale = {}
    /\ s_ident = NoFd
    /\ ident = [c \in Conn \cup {NoConn} |-> IF c = NoConn THEN <<>> ELSE AliceReply]
    /\ served = {} /\ misled = FALSE

SubscribedSpec == SubscribedInit /\ [][Next]_vars
===============================================================================

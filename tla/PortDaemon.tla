----------------------------- MODULE PortDaemon ------------------------------
(***************************************************************************)
(* server/port-daemon.c: admitting one client, from accept() over the      *)
(* ident query and the authentication to its entry in the port queue.      *)
(***************************************************************************)
EXTENDS Authenticate

CONSTANT Idents     \* answers of ident hosts: the fields of their first line

VARIABLES
    s_ident,        \* descriptor of the ident query
    ident           \* history: connection |-> the answer for it, <<>> if none

daemonvars == <<s_ident, ident>>

DaemonTypeOK ==
    /\ s_ident \in Fd \cup {NoFd}
    /\ ident \in [Conn \cup {NoConn} -> Idents \cup {<<>>}]

DaemonInit == s_ident = NoFd /\ ident = [c \in Conn \cup {NoConn} |-> <<>>]

(* reap_userid, clean_userid: what follows the third colon, nothing when   *)
(* there are fewer.                                                        *)
reap_userid(answer) == SubSeq(answer, 4, Len(answer))

ASSUME PortDaemonAssumption ==
    \A a \in Idents : a \in Seq(ToSet(a)) /\ reap_userid(a) \in User

(* accept() and the socket() for ident.  When accept() fails the code goes *)
(* on with descriptor -1 and the address of the client before.             *)
Accept ==
    /\ pc = "accept"
    /\ LET f == Alloc(files)
           c == IF f = NoFd THEN s_in.conn ELSE Head(backlog)
           table == Install(files, f, c)
           id == Alloc(table)
       IN  /\ f = NoFd \/ backlog # <<>>
           /\ s_in' = [NoClient(c) EXCEPT !.fd = f]
           /\ backlog' = IF f = NoFd THEN backlog ELSE Tail(backlog)
           /\ s_ident' = id
           /\ files' = Install(table, id, "ident")
    /\ Goto("connect")
    /\ UNCHANGED <<pqvars, clientvars, dialdvars, got, pd, fs, controlfd,
                   ident, fifovars, authvars>>

(* connect() to the client's ident fails: read-only, no name, and s_ident  *)
(* is not closed.                                                          *)
IdentRefused ==
    /\ pc = "connect"
    /\ s_in' = [s_in EXCEPT !.flag = {"READ"}, !.userid = NoUser]
    /\ s_ident' = NoFd
    /\ Goto("enqueue")
    /\ UNCHANGED <<pqvars, worldvars, pd, fs, controlfd, ident, fifovars, authvars>>

IdentConnected ==
    /\ pc = "connect" /\ s_ident # NoFd
    /\ Goto("reply")
    /\ UNCHANGED <<pqvars, worldvars, pd, fs, controlfd, s_in, daemonvars,
                   fifovars, authvars>>

(* The blocking read() of the answer.                                      *)
IdentReply ==
    /\ pc = "reply"
    /\ \E answer \in Idents :
          /\ s_in' = [s_in EXCEPT !.userid = reap_userid(answer)]
          /\ ident' = [ident EXCEPT ![s_in.conn] = answer]
    /\ files' = Install(files, s_ident, "free")
    /\ s_ident' = NoFd
    /\ Goto("auth")
    /\ UNCHANGED <<pqvars, backlog, clientvars, dialdvars, got,
                   pd, fs, controlfd, fifovars, authvars>>

(* What auth_check can return.  When a reload came while it was walking    *)
(* the list it may have finished with the old entries, or walk freed ones. *)
Verdict ==
    IF race = "none" THEN {auth_check(aq, s_in.userid, s_in.conn)} ELSE BOOLEAN

Greet ==
    /\ pc = "auth"
    /\ race' = "none"
    /\ \/ \E full \in Verdict :
             /\ s_in' = [s_in EXCEPT !.flag = Rights(full)]
             /\ Goto("enqueue")
       \/ race = "freed" /\ Goto("crashed") /\ UNCHANGED s_in
    /\ UNCHANGED <<pqvars, kernelvars, clientvars, dialdvars, got,
                   pd, fs, controlfd, daemonvars, fifovars, aq, conf, hups, stale>>

Enqueue ==
    /\ pc = "enqueue"
    /\ IF MallocFails
       THEN Close(s_in.fd) /\ UNCHANGED pqvars
       ELSE port_enqueue(s_in) /\ UNCHANGED <<files, client, inbox>>
    /\ s_in' = NoClient(s_in.conn)
    /\ Goto(AfterDaemon(ps, fs))
    /\ UNCHANGED <<backlog, sent, stalled, dialdvars, got, pd, fs, controlfd,
                   daemonvars, fifovars, authvars>>

DaemonStep ==
    Accept \/ IdentRefused \/ IdentConnected \/ Greet \/ Enqueue
===============================================================================

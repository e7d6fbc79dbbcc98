------------------------------- MODULE Process -------------------------------
(***************************************************************************)
(* server/diald-top-server.c: the one process.  pc is where it is; the     *)
(* steps of a module are named by the system call they end in, because a   *)
(* client, diald or the SIGHUP handler can only come in between.           *)
(***************************************************************************)
EXTENDS World

CONSTANTS
    ListenFd,
    ControlFd,
    MayKill     \* does anyone send SIGINT or SIGTERM?

ASSUME ProcessAssumption ==
    /\ ListenFd \in Nat \ Fd /\ ControlFd \in Nat \ Fd /\ ListenFd # ControlFd
    /\ MayKill \in BOOLEAN

VARIABLES
    pc,
    pd,         \* fds->pd
    fs,         \* fds->fs
    controlfd,
    curr,       \* position in pq of the running loop over it, 0 outside one
    i,          \* that loop's counter
    s_in        \* the static of port-daemon.c: the client being admitted

procvars == <<pc, pd, fs, controlfd, curr, i, s_in>>

Dead == {"exited", "crashed"}

Daemon == {"accept", "connect", "reply", "auth", "enqueue"}

Booting == {"boot", "detached", "bound", "conf"}

PC == {"select", "eintr", "ports", "control", "fifo", "fread", "fwrite"}
        \cup Booting \cup Daemon \cup Dead

ProcessTypeOK ==
    /\ pc \in PC
    /\ pd \in ThreadFds(Fd \cup {ListenFd})
    /\ fs \in ThreadFds(Fd)
    /\ controlfd \in {ControlFd, NoFd}
    /\ curr \in Nat /\ i \in Nat
    /\ s_in \in Port

(* Of the static s_in only the address outlives port_daemon.               *)
NoClient(conn) == [fd |-> NoFd, conn |-> conn, flag |-> {}, userid |-> NoUser]

ProcessInit ==
    /\ pc = "boot"
    /\ pd = EmptyFds
    /\ fs = EmptyFds
    /\ controlfd = NoFd
    /\ curr = 0 /\ i = 0
    /\ s_in = NoClient(NoConn)

(* The body of main's while (1): which part runs next.                     *)
AfterPorts(f) == IF f.selcount # 0 THEN "fifo" ELSE "select"
AfterDaemon(p, f) == IF p.selcount # 0 THEN "ports" ELSE AfterPorts(f)
AfterSelect(d, p, f) == IF d.selcount # 0 THEN "accept" ELSE AfterDaemon(p, f)

(* Entering a part sets up its loop over pq.                               *)
Goto(where) ==
    /\ pc' = where
    /\ curr' = IF where = "ports" THEN 1 ELSE 0
    /\ i' = 0

(* sigint: SIGINT and SIGTERM end the process wherever it is.              *)
sigint ==
    /\ MayKill
    /\ pc \notin Dead
    /\ Goto("exited")
    /\ UNCHANGED <<pd, fs, controlfd, s_in>>
===============================================================================

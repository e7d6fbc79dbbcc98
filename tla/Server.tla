------------------------------- MODULE Server --------------------------------
(***************************************************************************)
(* diald-top-server: the select() loop of main, port_server with the       *)
(* clients' commands, and the parts of the other modules put together.     *)
(***************************************************************************)
EXTENDS PortDaemon

CONSTANT
    CountGarbage    \* values the uninitialised count of demux_fds may have

ASSUME ServerAssumption == CountGarbage \subseteq Int

VARIABLES
    served,     \* history: descriptors port_server has read this round
    misled      \* history: select() was interrupted, and demux_fds took
                \* descriptors from what it had been given all the same

vars == <<pqvars, worldvars, procvars, fifovars, authvars, daemonvars, served, misled>>

(* Type invariant of the whole server: every variable of the program, of   *)
(* the processes around it and of the history.                             *)
TypeOK ==
    /\ PQTypeOK /\ WorldTypeOK /\ ProcessTypeOK /\ FifoTypeOK /\ AuthTypeOK
    /\ DaemonTypeOK
    /\ served \subseteq Fd /\ misled \in BOOLEAN

Init ==
    /\ PQInit /\ WorldInit /\ ProcessInit /\ FifoInit /\ AuthInit /\ DaemonInit
    /\ served = {} /\ misled = FALSE
-------------------------------------------------------------------------------
(* main up to its loop.  fork() or setsid() may fail; the parent's exit is *)
(* not that of the server.                                                 *)
detach_process ==
    /\ pc = "boot"
    /\ Goto("detached") \/ Goto("exited")
    /\ UNCHANGED <<pqvars, worldvars, pd, fs, controlfd, s_in, fifovars, authvars,
                   daemonvars, served, misled>>

(* Port 1313 may be taken; from here on clients can connect.               *)
port_daemon_init ==
    /\ pc = "detached"
    /\ \/ Goto("exited") /\ UNCHANGED pd
       \/ /\ Goto("bound")
          /\ pd' = [EmptyFds EXCEPT !.fullcount = 1, !.full = {ListenFd}, !.maxfd = ListenFd]
    /\ UNCHANGED <<pqvars, worldvars, fs, controlfd, s_in, fifovars, authvars,
                   daemonvars, served, misled>>

(* open() of the control FIFO fails when there is none, and waits for      *)
(* diald to have it open.                                                  *)
fifo_server_init ==
    /\ pc = "bound"
    /\ \/ controlfd' = NoFd
       \/ controlfd' = ControlFd /\ diald
    /\ Goto("conf")
    /\ UNCHANGED <<pqvars, worldvars, pd, fs, s_in, fifovars, authvars, daemonvars,
                   served, misled>>

(* The first read_conf; SIGHUP is ignored up to here.                      *)
read_conf ==
    /\ pc = "conf"
    /\ \E file \in ConfFiles :
          IF ParseFails(Opened(file))
          THEN Goto("exited") /\ UNCHANGED <<aq, conf>>
          ELSE Goto("select") /\ aq' = Configured(Opened(file)) /\ conf' = Opened(file)
    /\ UNCHANGED <<pqvars, worldvars, pd, fs, controlfd, s_in, fifovars, race, hups,
                   stale, daemonvars, served, misled>>

(* What select() finds readable among the descriptors it is given.         *)
Ready ==
    {f \in mux_fds(pd, ps, fs).full :
        \/ f = ListenFd /\ backlog # <<>>
        \/ f # ListenFd /\ files[f] = "pipe" /\ (pipe.q # <<>> \/ pipe.writer = "eof")
        \/ f # ListenFd /\ files[f] \in Conn /\ Readable(files[f])}

(* demux_fds, and the tests of main that follow it.                        *)
Demux(ready, selcount) ==
    /\ \E count \in CountGarbage :
          LET seen == Demuxed(ready, selcount, mux_fds(pd, ps, fs).maxfd, count)
          IN  /\ SelectPorts(seen)
              /\ pd' = demux_fds(pd, seen)
              /\ fs' = demux_fds(fs, seen)
              /\ misled' = (selcount < 0 /\ seen # {})
    /\ Goto(AfterSelect(pd', ps', fs'))
    /\ UNCHANGED <<worldvars, controlfd, s_in, fifovars, authvars, daemonvars, served>>

do_select ==
    /\ pc = "select" /\ Ready # {}
    /\ Demux(Ready, Cardinality(Ready))

(* select() returns -1 after a signal and leaves its argument as it was.   *)
SelectInterrupted ==
    /\ pc = "eintr"
    /\ Demux(mux_fds(pd, ps, fs).full, -1)
-------------------------------------------------------------------------------
(* Commands are recognised by their first bytes.  "monitor off" without a  *)
(* carriage return is a "monitor " with something after it.                *)
Subscribes(l) == l \in {"monitor on", "monitor off"}
Unsubscribes(l) == l = "monitor off CR"

(* parse_incoming for the k-th port, given the line its chunk starts with; *)
(* what follows the first line in the chunk is not looked at.              *)
parse_incoming(k, l) ==
    /\ CASE Unsubscribes(l) ->
              /\ MonitorOff(k)
              /\ UNCHANGED <<files, pipe, fs, monitorfd, openFailed, client>>
         [] Subscribes(l) ->
              /\ MonitorOn(k)
              /\ IF "MONITOR" \notin pq[k].flag /\ fs.fullcount = 0
                 THEN monitor_open
                 ELSE UNCHANGED <<files, pipe, fs, monitorfd, openFailed>>
              /\ UNCHANGED client
         [] l = "close" ->
              /\ ClosePort(pq[k])
              /\ UNCHANGED <<pipe, fs, monitorfd, openFailed>>
         [] OTHER ->
              UNCHANGED <<pqvars, files, pipe, fs, monitorfd, openFailed, client>>
    /\ pc' = IF l = "force" /\ "WRITE" \in pq[k].flag THEN "control" ELSE "ports"

(* port_server's loop: the next port select() reported, and whether there  *)
(* is one still.  A port that is closed makes place for its successor.     *)
Selected == {k \in DOMAIN pq : k >= curr /\ pq[k].fd \in ps.sel}
Serving == Selected # {} /\ i < ps.selcount

(* The line is refused, and the answer has to wait for room.               *)
AnswerWaits(k) ==
    LET c == files[pq[k].fd] IN
    /\ inbox[c] # <<>> /\ Head(inbox[c]) = "force" /\ "WRITE" \notin pq[k].flag
    /\ ~ Writable(c)

(* The loop variable after a port was closed: stepping on skips one.       *)
AfterClosed_skip(k) == k + 1

AfterClosed(k) == k

PortRead ==
    /\ pc = "ports" /\ Serving
    /\ LET k == Min(Selected)
           c == files[pq[k].fd]
       IN  /\ Readable(c) /\ ~ AnswerWaits(k)
           /\ IF inbox[c] = <<>>
              THEN /\ ClosePort(pq[k])
                   /\ UNCHANGED <<pc, pipe, fs, monitorfd, openFailed>>
              ELSE /\ parse_incoming(k, Head(inbox[c]))
                   /\ inbox' = [inbox EXCEPT ![c] = <<>>]
           /\ curr' = IF Len(pq') < Len(pq) THEN AfterClosed(k) ELSE k + 1
           /\ served' = served \cup {pq[k].fd}
    /\ i' = i + 1
    /\ UNCHANGED <<backlog, sent, stalled, diald, written, got, pd, controlfd, s_in,
                   line, epipe, authvars, daemonvars, misled>>

(* write() of the chunk to the control FIFO, from the port just read.      *)
ControlWrite ==
    /\ pc = "control"
    /\ pc' = "ports"
    /\ UNCHANGED <<pqvars, worldvars, pd, fs, controlfd, curr, i, s_in, fifovars,
                   authvars, daemonvars, served, misled>>

PortsDone ==
    /\ pc = "ports" /\ ~ Serving
    /\ Goto(AfterPorts(fs))
    /\ served' = {}
    /\ UNCHANGED <<pqvars, worldvars, pd, fs, controlfd, s_in, fifovars,
                   authvars, daemonvars, misled>>
-------------------------------------------------------------------------------
ServerStep ==
    \/ detach_process
    \/ port_daemon_init
    \/ read_conf
    \/ do_select
    \/ SelectInterrupted
    \/ PortRead
    \/ ControlWrite
    \/ PortsDone
    \/ DaemonStep /\ UNCHANGED <<served, misled>>
    \/ FifoStep /\ UNCHANGED <<authvars, daemonvars, served, misled>>

Signal ==
    \/ Reload /\ UNCHANGED <<daemonvars, served, misled>>
    \/ sigint /\ UNCHANGED <<pqvars, worldvars, fifovars, authvars, daemonvars, served, misled>>

Environment ==
    /\ pc \notin Dead \cup {"boot", "detached"}
    /\ WorldStep
    /\ UNCHANGED <<pqvars, procvars, fifovars, authvars, daemonvars, served, misled>>

(* The ident host answers, or closes the connection.                       *)
IdentAnswered == IdentReply /\ UNCHANGED <<served, misled>>

Next == ServerStep \/ fifo_server_init \/ IdentAnswered \/ Signal \/ Environment

Spec == Init /\ [][Next]_vars

(* The process is never denied the processor, and a write() that waits for *)
(* room goes through once there is some, for however short a time.         *)
(* Nothing is assumed of the clients, of their ident hosts or of diald.    *)
FairSpec == Spec /\ SF_vars(ServerStep)
-------------------------------------------------------------------------------
(* The descriptor table and the server's idea of it agree: every listed    *)
(* client's descriptor is its own connection, never one that was closed    *)
(* and handed out again; every connection the process holds belongs to a   *)
(* listed client or the one being admitted; the pipe is open and watched   *)
(* exactly while monitorfd says so.                                        *)
FdOwnership ==
    /\ \A k \in DOMAIN pq : pq[k].fd # NoFd => files[pq[k].fd] = pq[k].conn
    /\ s_in.fd # NoFd => files[s_in.fd] = s_in.conn /\ s_in.fd \notin ps.full
    /\ \A f \in Fd : /\ files[f] \in Conn => f \in ps.full \cup {s_in.fd}
                     /\ files[f] = "pipe" <=> f = monitorfd
                     /\ f \in fs.full <=> f = monitorfd

(* Everything the server reads from without waiting for select() again is  *)
(* still readable: nothing done earlier in the round (a client admitted, a *)
(* port closed and its descriptor reused) makes what select() reported     *)
(* untrue, so accept() and read() never block the single process.  Except  *)
(* when a signal interrupted select() and the uninitialised count let      *)
(* demux_fds take what select() was asked about for what it reported.      *)
ReadsDontBlock ==
    ~ misled =>
        /\ pc = "accept" => backlog # <<>> \/ FreeFds(files) = {}
        /\ pc = "ports" => \A k \in Selected : Readable(files[pq[k].fd])

(* port_server unlinks ports from the list it is walking; it still reads   *)
(* every port select() reported exactly once.                              *)
ServedOnce ==
    pc = "ports" => /\ Cardinality(served) = i
                    /\ Serving \/ served = ps.sel

(* Somebody is subscribed and there is no monitor pipe: only because it    *)
(* could not be opened.                                                    *)
SubscribedHasPipe == monitorcount > 0 /\ monitorfd = NoFd => openFailed

(* What the configuration in force grants, said without the server's own   *)
(* tables: the client's host names a user, and a line of the file has that *)
(* user and agrees with the client's address in every bit of the netmask.  *)
Entitled(c) ==
    /\ conf # NoConf /\ Len(ident[c]) = 4 /\ ident[c][2] = "USERID"
    /\ \E k \in DOMAIN conf :
          /\ conf[k] # BlankLine /\ conf[k][1] = ident[c][4]
          /\ \A b \in conf[k][3] : b \in Address[c] <=> b \in conf[k][2]

(* A line is passed on to diald only if it comes from a client that is     *)
(* entitled to it, whatever descriptors, list nodes and reloads came in    *)
(* between; except for a client that a reload overtook while it was being  *)
(* admitted.                                                               *)
CommandsAuthorised ==
    [][pc = "ports" /\ pc' = "control" =>
         LET c == files[pq[curr' - 1].fd] IN c \in stale \/ Entitled(c)]_vars

(* The k-th client's rights are what the configuration in force says.      *)
UpToDate(k) == "WRITE" \in pq[k].flag <=> Entitled(pq[k].conn)

(* Every connected client's rights follow the configuration in force: the  *)
(* promise of a reload, "reauthenticate all connected clients".            *)
AllReauthenticated ==
    pc \notin Dead => \A k \in DOMAIN pq : pq[k].fd # NoFd => UpToDate(k)

(* They do, except for a client that a reload overtook between the start   *)
(* of its auth_check and its port_enqueue.                                 *)
RightsCurrent ==
    pc \notin Dead =>
        \A k \in DOMAIN pq : pq[k].fd # NoFd /\ pq[k].conn \notin stale => UpToDate(k)

(* When fifo_server has been through the list, every subscriber has what   *)
(* it read from the pipe.                                                  *)
FarmedOut ==
    pc = "fwrite" /\ ~ Fanning =>
        \A k \in Monitored : client[pq[k].conn] = "up" => IsSuffix(line, got[pq[k].conn])

(* So it is as long as no write has failed with EPIPE, and no client sees  *)
(* a message twice or out of order.                                        *)
FanoutExact ==
    \/ epipe
    \/ /\ FarmedOut
       /\ \A c \in Conn : \A m, n \in DOMAIN got[c] : m < n => got[c][m] < got[c][n]

(* SIGHUP makes the server "reread its configuration without quitting".    *)
ReloadKeepsRunning == [][hups' # hups => pc' \notin Dead]_vars
-------------------------------------------------------------------------------
(* The one process waits for somebody else: for diald to open the control  *)
(* FIFO, for an ident host that does not answer, or for a client that does *)
(* not read, in the fan-out or when it is refused a command.               *)
Blocked ==
    \/ pc = "bound"
    \/ pc = "reply"
    \/ pc = "fwrite" /\ Fanning /\ ~ Writable(files[pq[Min(NextMonitor)].fd])
    \/ pc = "ports" /\ Serving /\ AnswerWaits(Min(Selected))

(* A client that hangs up, wherever it is in the server, is noticed and    *)
(* its connection is closed, unless somebody blocks the server for good.   *)
HungUpReaped ==
    \/ <>[]Blocked
    \/ \A c \in Conn : client[c] = "down" ~> client[c] = "closed" \/ pc \in Dead

(* A client that connects gets its entry in the port queue, with the same  *)
(* exception.                                                              *)
Admitted ==
    \/ <>[]Blocked
    \/ \A c \in Conn : client[c] = "up" ~> c \in PortConns(DOMAIN pq)
                                          \/ client[c] = "closed" \/ pc \in Dead

(* What diald writes is read, or the pipe is closed, with the same         *)
(* exception: diald does not block on a full monitor FIFO.                 *)
PipeDrained ==
    <>[]Blocked \/ (pipe.q # <<>> ~> pipe.q = <<>> \/ pc \in Dead)
===============================================================================

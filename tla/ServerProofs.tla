----------------------------- MODULE ServerProofs -----------------------------
(***************************************************************************)
(* The server implements the port queue, and its idea of its descriptors   *)
(* is the kernel's, for any number of clients, descriptors, users, lines,  *)
(* messages and reloads.                                                   *)
(***************************************************************************)
EXTENDS Server, PortQueueProofs

(* The descriptor of a client that is not there is no descriptor.          *)
LEMMA NoFdFacts == NoFd \notin Fd /\ NoFd \in Int /\ \A f \in Fd : f \in Nat
  BY PortQueueAssumption DEF NoFd

(* What the descriptor table may say of a descriptor.                      *)
What == Conn \cup {"ident", "pipe", "free"}

(* A connection is none of the other things a descriptor may be.           *)
LEMMA ConnNoMark ==
    /\ "free" \notin Conn /\ "ident" \notin Conn /\ "pipe" \notin Conn
    /\ "free" # "ident" /\ "free" # "pipe" /\ "ident" # "pipe"
<1>1. Conn \cap {"ident", "pipe", "free"} = {}
  BY WorldAssumption
<1> QED
  BY <1>1

(* The kernel hands out a free descriptor, or none when there is none.     *)
LEMMA AllocProperties ==
    ASSUME NEW table \in [Fd -> What]
    PROVE  /\ Alloc(table) \in Fd \cup {NoFd}
           /\ Alloc(table) # NoFd => Alloc(table) \in Fd /\ table[Alloc(table)] = "free"
           /\ Alloc(table) = NoFd => \A f \in Fd : table[f] # "free"
<1> DEFINE S == FreeFds(table)
<1>1. S \in SUBSET Nat /\ S \subseteq Fd /\ \A f \in Fd : f \in S <=> table[f] = "free"
  BY NoFdFacts DEF FreeFds
<1>2. CASE S = {}
  BY <1>1, <1>2 DEF Alloc
<1>3. CASE S # {}
  <2>1. Min(S) \in S
    <3> HIDE DEF S
    <3> QED
      BY <1>1, <1>3, MinExists
  <2>2. Alloc(table) = Min(S)
    BY <1>3 DEF Alloc
  <2> HIDE DEF S
  <2> QED
    BY <1>1, <2>1, <2>2, NoFdFacts
<1> QED
  BY <1>2, <1>3

(* One entry of the table changes, none for a call that failed.            *)
LEMMA InstallProperties ==
    ASSUME NEW table \in [Fd -> What], NEW f \in Fd \cup {NoFd}, NEW what \in What
    PROVE  /\ Install(table, f, what) \in [Fd -> What]
           /\ \A g \in Fd : Install(table, f, what)[g] = IF g = f THEN what ELSE table[g]
  BY NoFdFacts DEF Install

(* The steps of the clients and of diald keep the types of the world, and  *)
(* touch neither the descriptor table nor what the clients were sent.      *)
LEMMA WorldStepTypes ==
    ASSUME WorldTypeOK, WorldStep
    PROVE  WorldTypeOK' /\ files' = files /\ got' = got
<1> USE DEF kernelvars, clientvars, dialdvars
<1>0. Line \subseteq Lines /\ MaxSend \in Nat /\ MaxChunk \in Nat
  BY WorldAssumption
<1>1. ASSUME NEW c \in Conn, Connect(c) PROVE WorldTypeOK' /\ files' = files /\ got' = got
  BY <1>1 DEF Connect, WorldTypeOK
<1>2. ASSUME NEW c \in Conn, Hangup(c) PROVE WorldTypeOK' /\ files' = files /\ got' = got
  BY <1>2 DEF Hangup, WorldTypeOK
<1>3. ASSUME NEW c \in Conn, Stall(c) PROVE WorldTypeOK' /\ files' = files /\ got' = got
  BY <1>3 DEF Stall, WorldTypeOK
<1>4. ASSUME NEW c \in Conn, ReadOn(c) PROVE WorldTypeOK' /\ files' = files /\ got' = got
  BY <1>4 DEF ReadOn, WorldTypeOK
<1>5. ASSUME NEW c \in Conn, NEW l \in Line, Send(c, l)
      PROVE  WorldTypeOK' /\ files' = files /\ got' = got
  BY <1>0, <1>5 DEF Send, WorldTypeOK
<1>6. CASE DialdAttach
  BY <1>6 DEF DialdAttach, WorldTypeOK
<1>7. CASE DialdWrite
  <2>1. written + 1 \in 1..MaxChunk /\ written + 1 \in 0..MaxChunk
    BY <1>0, <1>7 DEF DialdWrite, WorldTypeOK
  <2>2. pipe' \in [writer : {"none", "asked", "open", "eof"}, q : Seq(1..MaxChunk)]
    <3> DEFINE C == 1..MaxChunk
    <3>1. pipe \in [writer : {"none", "asked", "open", "eof"}, q : Seq(C)] /\ written + 1 \in C
      BY <2>1 DEF WorldTypeOK
    <3>2. pipe' = [pipe EXCEPT !.q = Append(@, written + 1)]
      BY <1>7 DEF DialdWrite
    <3> HIDE DEF C
    <3>3. Append(pipe.q, written + 1) \in Seq(C)
      BY <3>1
    <3>4. pipe' \in [writer : {"none", "asked", "open", "eof"}, q : Seq(C)]
      BY <3>1, <3>2, <3>3
    <3> QED
      BY <3>4 DEF C
  <2> QED
    BY <2>1, <2>2, <1>7 DEF DialdWrite, WorldTypeOK
<1>8. CASE DialdExit
  BY <1>8 DEF DialdExit, WorldTypeOK
<1> QED
  BY <1>1, <1>2, <1>3, <1>4, <1>5, <1>6, <1>7, <1>8 DEF WorldStep
-------------------------------------------------------------------------------
(* Where in port_daemon the static s_in has the client's descriptor.       *)
Admitting == {"connect", "reply", "auth", "enqueue"}

(* A listed client's descriptor is its connection.                         *)
PortsOwned ==
    \A k \in DOMAIN pq : pq[k].fd # NoFd => pq[k].conn \in Conn /\ files[pq[k].fd] = pq[k].conn

(* So is that of the client being admitted, which is not listed yet; it is *)
(* in port_daemon's hands only while that runs.                            *)
AdmittedOwned ==
    /\ "MONITOR" \notin s_in.flag
    /\ s_in.fd # NoFd => /\ pc \in Admitting \cup Dead
                         /\ s_in.conn \in Conn /\ files[s_in.fd] = s_in.conn
                         /\ s_in.fd \notin ps.full

(* Nothing else is a connection, and the monitor pipe is where monitorfd   *)
(* and fds->fs say it is.                                                  *)
RestOwned ==
    /\ s_ident # NoFd => files[s_ident] = "ident"
    /\ \A f \in Fd : files[f] \in Conn => f \in ps.full \cup {s_in.fd}
    /\ \A f \in Fd : files[f] = "pipe" <=> f = monitorfd
    /\ fs.full = {monitorfd} \ {NoFd}
    /\ fs.fullcount = IF monitorfd = NoFd THEN 0 ELSE 1

Owned == PortsOwned /\ AdmittedOwned /\ RestOwned

Surroundings ==
    /\ WorldTypeOK /\ ProcessTypeOK /\ FifoTypeOK /\ AuthTypeOK /\ DaemonTypeOK
    /\ served \subseteq Fd

(* The inductive invariant of the server.  What FdOwnership adds to the    *)
(* port table is inductive only with the places in the program at which    *)
(* the two statics of port_daemon hold a descriptor.                       *)
ServerInv == PQInv /\ Surroundings /\ Owned

(* What most steps leave alone: whose the descriptors are.                 *)
LEMMA OwnedFrame ==
    ASSUME Owned,
           DOMAIN pq' = DOMAIN pq,
           \A k \in DOMAIN pq : pq'[k].fd = pq[k].fd /\ pq'[k].conn = pq[k].conn,
           ps'.full = ps.full,
           UNCHANGED <<files, monitorfd>>,
           s_ident' \in {s_ident, NoFd},
           fs'.full = fs.full, fs'.fullcount = fs.fullcount,
           s_in'.fd = s_in.fd, s_in'.conn = s_in.conn, "MONITOR" \notin s_in'.flag,
           s_in.fd # NoFd => pc' \in Admitting \cup Dead
    PROVE  Owned'
<1>1. PortsOwned'
  BY DEF Owned, PortsOwned
<1>2. AdmittedOwned'
  BY DEF Owned, AdmittedOwned
<1>3. RestOwned'
  BY DEF Owned, RestOwned
<1> QED
  BY <1>1, <1>2, <1>3 DEF Owned

(* The types of what a step does not assign.                               *)
LEMMA WorldFrame == WorldTypeOK /\ UNCHANGED worldvars => WorldTypeOK'
  BY DEF WorldTypeOK, worldvars, kernelvars, clientvars, dialdvars

(* Likewise for fifo_server's variables.                                   *)
LEMMA FifoFrame == FifoTypeOK /\ UNCHANGED fifovars => FifoTypeOK'
  BY DEF FifoTypeOK, fifovars

(* Likewise for the configuration and the list aq.                         *)
LEMMA AuthFrame == AuthTypeOK /\ UNCHANGED authvars => AuthTypeOK'
  BY DEF AuthTypeOK, authvars

(* Likewise for port_daemon's variables.                                   *)
LEMMA DaemonFrame == DaemonTypeOK /\ UNCHANGED daemonvars => DaemonTypeOK'
  BY DEF DaemonTypeOK, daemonvars

(* Entering a part of the program.                                         *)
LEMMA GotoTypes ==
    ASSUME NEW where \in PC, Goto(where)
    PROVE  pc' = where /\ pc' \in PC /\ curr' \in Nat /\ i' \in Nat
  BY DEF Goto
-------------------------------------------------------------------------------
(* What every step of the server has to do: keep the types and whose the   *)
(* descriptors are, and be a step of the port queue or leave it alone.     *)
Conforms == Surroundings' /\ Owned' /\ [PQNext]_pqvars

(* A step that leaves the port queue, the descriptors, the clients and the *)
(* statics alone and goes on to a place outside port_daemon's inside.      *)
LEMMA QuietStep ==
    ASSUME ServerInv, UNCHANGED <<pqvars, files, monitorfd, s_in, s_ident>>,
           fs'.full = fs.full, fs'.fullcount = fs.fullcount,
           s_in.fd # NoFd => pc' \in Admitting \cup Dead
    PROVE  Owned' /\ [PQNext]_pqvars
<1>1. Owned'
  BY OwnedFrame DEF ServerInv, pqvars, Owned, AdmittedOwned
<1> QED
  BY <1>1

(* A file that parses yields entries of auth_data_t.                       *)
LEMMA ConfigurationTypes ==
    ASSUME NEW file \in ConfFiles
    PROVE  /\ Opened(file) \in ConfFiles \cup {NoConf}
           /\ ~ ParseFails(Opened(file)) => Configured(Opened(file)) \in SUBSET Entry
<1> DEFINE o == Opened(file)
<1>1. o \in ConfFiles \cup {NoConf}
  BY DEF Opened
<1> HIDE DEF o
<1>2. ASSUME ~ ParseFails(o), o # NoConf PROVE Configured(o) \in SUBSET Entry
  <2> SUFFICES ASSUME NEW k \in DOMAIN o, o[k] # BlankLine PROVE auth_add(o[k]) \in Entry
    BY <1>2 DEF Configured
  <2>1. o[k] \in Name \X (SUBSET Bit) \X (SUBSET Bit)
    BY <1>2 DEF ParseFails, EntryLine
  <2>2. o[k][1] \in Name /\ o[k][2] \subseteq Bit /\ o[k][3] \subseteq Bit
    BY <2>1
  <2>3. <<o[k][1]>> \in User
    BY <2>2, AuthenticateAssumption
  <2> QED
    BY <2>2, <2>3 DEF auth_add, Entry
<1>3. o = NoConf => Configured(o) \in SUBSET Entry
  BY DEF Configured
<1>4. /\ o \in ConfFiles \cup {NoConf}
      /\ ~ ParseFails(o) => Configured(o) \in SUBSET Entry
  BY <1>1, <1>2, <1>3
<1> QED
  BY <1>4 DEF o

(* main up to its loop.                                                    *)
LEMMA BootStep ==
    ASSUME ServerInv,
           detach_process \/ port_daemon_init \/ fifo_server_init \/ read_conf
    PROVE  Conforms
<1> USE DEF ServerInv, Surroundings
<1>0. s_in.fd = NoFd
  BY DEF Owned, AdmittedOwned, Admitting, Dead, detach_process, port_daemon_init,
         fifo_server_init, read_conf
<1>1. CASE detach_process
  <2>1. ProcessTypeOK'
    BY <1>1, GotoTypes DEF detach_process, ProcessTypeOK, PC, Booting, Dead
  <2> QED
    BY <1>0, <1>1, <2>1, QuietStep, WorldFrame, FifoFrame, AuthFrame, DaemonFrame
    DEF detach_process, Conforms, fifovars, worldvars, kernelvars, daemonvars
<1>2. CASE port_daemon_init
  <2>1. ProcessTypeOK'
    <3>1. pd' \in ThreadFds(Fd \cup {ListenFd})
      <4> DEFINE bound == [EmptyFds EXCEPT !.fullcount = 1, !.full = {ListenFd},
                                           !.maxfd = ListenFd]
                 F == Fd \cup {ListenFd}
      <4>1. EmptyFds \in ThreadFds(F) /\ 1 \in Nat /\ {ListenFd} \in SUBSET (F \cup {NoFd})
            /\ ListenFd \in F
        BY DEF EmptyFds, ThreadFds
      <4>2. bound \in ThreadFds(F)
        <5> HIDE DEF F
        <5> QED
          BY <4>1 DEF ThreadFds
      <4>3. pd' = pd \/ pd' = bound
        BY <1>2 DEF port_daemon_init
      <4> HIDE DEF bound
      <4> QED
        BY <4>2, <4>3 DEF ProcessTypeOK
    <3> QED
      BY <1>2, <3>1, GotoTypes DEF port_daemon_init, ProcessTypeOK, PC, Booting, Dead
  <2> QED
    BY <1>0, <1>2, <2>1, QuietStep, WorldFrame, FifoFrame, AuthFrame, DaemonFrame
    DEF port_daemon_init, Conforms, fifovars, worldvars, kernelvars, daemonvars
<1>3. CASE fifo_server_init
  <2>1. ProcessTypeOK'
    BY <1>3, GotoTypes DEF fifo_server_init, ProcessTypeOK, PC, Booting
  <2> QED
    BY <1>0, <1>3, <2>1, QuietStep, WorldFrame, FifoFrame, AuthFrame, DaemonFrame
    DEF fifo_server_init, Conforms, fifovars, worldvars, kernelvars, daemonvars
<1>4. CASE read_conf
  <2>1. ProcessTypeOK'
    <3>1. PICK where \in {"exited", "select"} : Goto(where)
      BY <1>4 DEF read_conf
    <3> QED
      BY <1>4, <3>1, GotoTypes DEF read_conf, ProcessTypeOK, PC, Dead
  <2>2. AuthTypeOK'
    <3>1. PICK file \in ConfFiles :
            \/ UNCHANGED <<aq, conf>>
            \/ /\ ~ ParseFails(Opened(file))
               /\ aq' = Configured(Opened(file)) /\ conf' = Opened(file)
      BY <1>4 DEF read_conf
    <3> QED
      BY <1>4, <3>1, ConfigurationTypes DEF read_conf, AuthTypeOK
  <2> QED
    BY <1>0, <1>4, <2>1, <2>2, QuietStep, WorldFrame, FifoFrame, DaemonFrame
    DEF read_conf, Conforms, fifovars, worldvars, kernelvars, daemonvars
<1> QED
  BY <1>1, <1>2, <1>3, <1>4

(* demux_fds keeps what is watched and reports some of it.                 *)
LEMMA DemuxTypes ==
    ASSUME NEW F, IsFiniteSet(F), NEW t \in ThreadFds(F), NEW visited, NoFd \notin visited
    PROVE  /\ demux_fds(t, visited) \in ThreadFds(F)
           /\ demux_fds(t, visited).full = t.full
           /\ demux_fds(t, visited).fullcount = t.fullcount
           /\ demux_fds(t, visited).sel = visited \cap t.full
           /\ demux_fds(t, visited).selcount = Cardinality(visited \cap t.full)
<1>1. t.full \subseteq F \cup {NoFd}
  BY DEF ThreadFds
<1>2. visited \cap t.full \in SUBSET F
  BY <1>1
<1>3. Cardinality(visited \cap t.full) \in Nat
  BY <1>2, FS_Subset, FS_CardinalityType
<1> QED
  BY <1>2, <1>3 DEF demux_fds, ThreadFds

(* select() is given descriptors of the process only.                      *)
LEMMA MuxTypes ==
    ASSUME PQTypeOK, ProcessTypeOK
    PROVE  mux_fds(pd, ps, fs).full \subseteq Fd \cup {ListenFd}
<1>1. /\ pd.full \subseteq (Fd \cup {ListenFd}) \cup {NoFd}
      /\ ps.full \subseteq Fd \cup {NoFd} /\ fs.full \subseteq Fd \cup {NoFd}
  BY DEF PQTypeOK, ProcessTypeOK, ThreadFds
<1>2. ~ (0 <= NoFd)
  BY DEF NoFd
<1>3. mux_fds(pd, ps, fs).full = Scanned(pd) \cup Scanned(ps) \cup Scanned(fs)
  BY DEF mux_fds
<1> QED
  BY <1>1, <1>2, <1>3 DEF Scanned

(* select() and demux_fds, whatever count starts from.                     *)
LEMMA DemuxStep ==
    ASSUME ServerInv, pc \in {"select", "eintr"},
           NEW ready \in SUBSET mux_fds(pd, ps, fs).full, NEW selcount, Demux(ready, selcount)
    PROVE  Conforms
<1> USE DEF ServerInv, Surroundings, PQInv
<1>1. PICK seen \in SUBSET ready :
         /\ SelectPorts(seen)
         /\ pd' = demux_fds(pd, seen) /\ fs' = demux_fds(fs, seen)
  <2>1. PICK count \in CountGarbage :
           LET seen == Demuxed(ready, selcount, mux_fds(pd, ps, fs).maxfd, count)
           IN  /\ SelectPorts(seen)
               /\ pd' = demux_fds(pd, seen) /\ fs' = demux_fds(fs, seen)
    BY DEF Demux
  <2>2. Demuxed(ready, selcount, mux_fds(pd, ps, fs).maxfd, count) \in SUBSET ready
    BY DEF Demuxed
  <2> QED
    BY <2>1, <2>2, Zenon
<1>2. seen \subseteq Fd \cup {ListenFd} /\ NoFd \notin seen
  BY <1>1, MuxTypes, NoFdFacts, ProcessAssumption DEF NoFd
<1>3. pq' = pq /\ ps' = demux_fds(ps, seen) /\ monitorcount' = monitorcount
  BY <1>1 DEF SelectPorts
<1>4. \E visited \in SUBSET Fd : SelectPorts(visited)
  <2>1. ps.full \subseteq Fd \cup {NoFd}
    BY DEF PQTypeOK, ThreadFds
  <2>2. seen \cap ps.full = (seen \cap Fd) \cap ps.full
    BY <1>2, <2>1
  <2>3. demux_fds(ps, seen) = demux_fds(ps, seen \cap Fd)
    BY <2>2 DEF demux_fds
  <2>4. seen \cap Fd \in SUBSET Fd
    OBVIOUS
  <2> QED
    BY <1>3, <2>3, <2>4 DEF SelectPorts
<1>5. pd' \in ThreadFds(Fd \cup {ListenFd})
  <2> DEFINE F == Fd \cup {ListenFd}
  <2>1. IsFiniteSet(F)
    BY PortQueueAssumption, FS_AddElement
  <2>2. pd \in ThreadFds(F)
    BY DEF ProcessTypeOK
  <2> HIDE DEF F
  <2>3. pd' \in ThreadFds(F)
    BY <2>1, <2>2, <1>1, <1>2, DemuxTypes
  <2> QED
    BY <2>3 DEF F
<1>6. fs' \in ThreadFds(Fd) /\ fs'.full = fs.full /\ fs'.fullcount = fs.fullcount
  <2>1. IsFiniteSet(Fd) /\ fs \in ThreadFds(Fd) /\ NoFd \notin seen
    BY <1>2, PortQueueAssumption DEF ProcessTypeOK
  <2>2. demux_fds(fs, seen) \in ThreadFds(Fd)
    BY <2>1, DemuxTypes
  <2>3. demux_fds(fs, seen).full = fs.full /\ demux_fds(fs, seen).fullcount = fs.fullcount
    BY <2>1 DEF demux_fds, ThreadFds
  <2> QED
    BY <1>1, <2>2, <2>3
<1>7. ps'.full = ps.full
  BY <1>2, <1>3, DemuxTypes, PortQueueAssumption DEF PQTypeOK
<1>8. Goto(AfterSelect(pd', ps', fs')) /\ AfterSelect(pd', ps', fs') \in PC
  BY DEF Demux, AfterSelect, AfterDaemon, AfterPorts, PC, Daemon
<1>9. ProcessTypeOK'
  BY <1>5, <1>6, <1>8, GotoTypes DEF Demux, ProcessTypeOK
<1>10. s_in.fd = NoFd
  BY DEF Owned, AdmittedOwned, Admitting, Dead
<1>11. Owned'
  BY <1>3, <1>6, <1>7, <1>10, OwnedFrame
  DEF Demux, worldvars, kernelvars, fifovars, daemonvars, Owned, AdmittedOwned
<1>12. Surroundings'
  BY <1>9, WorldFrame, FifoFrame, AuthFrame, DaemonFrame DEF Demux
<1> QED
  BY <1>4, <1>11, <1>12 DEF Conforms, PQNext

(* The two ways select() returns.                                          *)
LEMMA SelectStep ==
    ASSUME ServerInv, do_select \/ SelectInterrupted
    PROVE  Conforms
<1>1. CASE do_select
  <2>1. Ready \in SUBSET mux_fds(pd, ps, fs).full
    BY DEF Ready
  <2> QED
    BY <1>1, <2>1, DemuxStep DEF do_select
<1>2. CASE SelectInterrupted
  BY <1>2, DemuxStep DEF SelectInterrupted
<1> QED
  BY <1>1, <1>2

(* The end of port_server, and its write() to the control FIFO.            *)
LEMMA PortsEndStep ==
    ASSUME ServerInv, ControlWrite \/ PortsDone
    PROVE  Conforms
<1> USE DEF ServerInv, Surroundings
<1>0. s_in.fd = NoFd
  BY DEF Owned, AdmittedOwned, Admitting, Dead, ControlWrite, PortsDone
<1>1. CASE ControlWrite
  <2>1. ProcessTypeOK'
    BY <1>1 DEF ControlWrite, ProcessTypeOK, PC
  <2> QED
    BY <1>0, <1>1, <2>1, QuietStep, WorldFrame, FifoFrame, AuthFrame, DaemonFrame
    DEF ControlWrite, Conforms, fifovars, worldvars, kernelvars, daemonvars
<1>2. CASE PortsDone
  <2>1. ProcessTypeOK'
    <3>1. AfterPorts(fs) \in PC
      BY DEF AfterPorts, PC
    <3> QED
      BY <1>2, <3>1, GotoTypes DEF PortsDone, ProcessTypeOK
  <2> QED
    BY <1>0, <1>2, <2>1, QuietStep, WorldFrame, FifoFrame, AuthFrame, DaemonFrame
    DEF PortsDone, Conforms, fifovars, worldvars, kernelvars, daemonvars
<1> QED
  BY <1>1, <1>2

(* The clients, diald and the network.                                     *)
LEMMA EnvironmentStep ==
    ASSUME ServerInv, Environment
    PROVE  Conforms
<1> USE DEF ServerInv, Surroundings
<1>1. WorldTypeOK' /\ files' = files
  BY WorldStepTypes DEF Environment
<1>2. ProcessTypeOK'
  BY DEF Environment, procvars, ProcessTypeOK
<1> QED
  BY <1>1, <1>2, QuietStep, FifoFrame, AuthFrame, DaemonFrame
  DEF Environment, Conforms, procvars, fifovars, daemonvars, Owned, AdmittedOwned

(* SIGINT and SIGTERM.                                                     *)
LEMMA KillStep ==
    ASSUME ServerInv, sigint,
           UNCHANGED <<pqvars, worldvars, fifovars, authvars, daemonvars, served>>
    PROVE  Conforms
<1> USE DEF ServerInv, Surroundings
<1>1. ProcessTypeOK' /\ pc' \in Dead
  BY GotoTypes DEF sigint, ProcessTypeOK, PC, Dead
<1> QED
  BY <1>1, QuietStep, WorldFrame, FifoFrame, AuthFrame, DaemonFrame
  DEF sigint, Conforms, fifovars, worldvars, kernelvars, daemonvars

(* The SIGHUP handler, wherever it comes in.                               *)
LEMMA ReloadStep ==
    ASSUME ServerInv, Reload, UNCHANGED <<daemonvars, served>>
    PROVE  Conforms
<1> USE DEF ServerInv, Surroundings
<1>1. PICK file \in ConfFiles : reread_conf(Opened(file))
  BY DEF Reload
<1> DEFINE queue == Configured(Opened(file))
<1>2. /\ hups < MaxHup /\ hups' = hups + 1 /\ pc \notin Dead \cup Booting
      /\ \/ Goto("exited") /\ UNCHANGED <<pqvars, aq, conf, race, stale>>
         \/ /\ ~ ParseFails(Opened(file)) /\ aq' = queue /\ conf' = Opened(file)
            /\ race' \in {"none", "late", "freed"}
            /\ \/ Goto("crashed") /\ UNCHANGED <<pqvars, stale>>
               \/ /\ reauthenticate_users(Accepted(queue))
                  /\ stale' = (stale \ PortConns(DOMAIN pq)) \cup Unlisted
                  /\ pc' = pc \/ (pc = "select" /\ pc' = "eintr")
                  /\ UNCHANGED <<curr, i>>
  <2>1. race \in {"none", "late", "freed"}
    BY DEF AuthTypeOK
  <2> QED
    BY <1>1, <2>1 DEF reread_conf
<1>3. UNCHANGED <<pd, fs, controlfd, s_in, files, monitorfd, s_ident>>
  BY DEF Reload, kernelvars, fifovars, daemonvars
<1>4. /\ pc' \in PC /\ curr' \in Nat /\ i' \in Nat
      /\ s_in.fd # NoFd => pc' \in Admitting \cup Dead
  BY <1>2, GotoTypes DEF ProcessTypeOK, PC, Dead, Owned, AdmittedOwned, Admitting
<1>5. ProcessTypeOK'
  BY <1>3, <1>4 DEF ProcessTypeOK
<1>6. Unlisted \subseteq Conn
  BY DEF Unlisted, Owned, AdmittedOwned
<1>7. AuthTypeOK'
  <2>1. hups' \in 0..MaxHup
    BY <1>2, AuthenticateAssumption DEF AuthTypeOK
  <2>2. aq' \in SUBSET Entry /\ conf' \in ConfFiles \cup {NoConf}
    BY <1>2, ConfigurationTypes DEF AuthTypeOK
  <2>3. race' \in {"none", "late", "freed"} /\ stale' \subseteq Conn
    BY <1>2, <1>6 DEF AuthTypeOK
  <2> QED
    BY <2>1, <2>2, <2>3 DEF AuthTypeOK
<1>8. WorldTypeOK' /\ FifoTypeOK' /\ DaemonTypeOK'
  BY WorldFrame, FifoFrame, DaemonFrame DEF Reload, worldvars
<1>9. CASE UNCHANGED pqvars
  BY <1>3, <1>4, <1>5, <1>7, <1>8, <1>9, QuietStep DEF Conforms
<1>10. CASE reauthenticate_users(Accepted(queue))
  <2>1. Accepted(queue) \in SUBSET DOMAIN pq
    BY DEF Accepted
  <2> DEFINE full == Accepted(queue)
  <2> HIDE DEF full
  <2>2. /\ DOMAIN pq' = DOMAIN pq /\ ps' = ps
        /\ \A k \in DOMAIN pq : pq'[k].fd = pq[k].fd /\ pq'[k].conn = pq[k].conn
    <3>1. pq' = [k \in DOMAIN pq |->
                   [pq[k] EXCEPT !.flag = (@ \ {"READ", "WRITE"}) \cup Rights(k \in full)]]
      BY <1>10 DEF reauthenticate_users, full
    <3>2. \A k \in DOMAIN pq : pq[k] \in Port
      BY LenProperties, ElementOfSeq DEF PQInv, PQTypeOK
    <3>3. ps' = ps
      BY <1>10 DEF reauthenticate_users
    <3> QED
      BY <3>1, <3>2, <3>3 DEF Port
  <2>3. Owned'
    BY <1>3, <1>4, <2>2, OwnedFrame DEF Owned, AdmittedOwned
  <2>4. PQNext
    BY <1>10, <2>1 DEF PQNext
  <2> QED
    BY <1>5, <1>7, <1>8, <2>3, <2>4 DEF Conforms
<1> QED
  BY <1>2, <1>9, <1>10
-------------------------------------------------------------------------------
(* close() keeps the types and frees one descriptor.                       *)
LEMMA CloseProperties ==
    ASSUME WorldTypeOK, NEW f \in Fd \cup {NoFd}, Close(f)
    PROVE  /\ files' \in [Fd -> What]
           /\ \A g \in Fd : files'[g] = IF g = f THEN "free" ELSE files[g]
           /\ client' \in [Conn -> {"idle", "up", "down", "closed"}]
           /\ inbox' \in [Conn -> Seq(Lines)]
<1>1. files \in [Fd -> What] /\ files' = Install(files, f, "free") /\ "free" \in What
  BY DEF WorldTypeOK, What, Close
<1>2. /\ files' \in [Fd -> What]
      /\ \A g \in Fd : files'[g] = IF g = f THEN "free" ELSE files[g]
  BY <1>1, InstallProperties
<1>3. /\ client' \in [Conn -> {"idle", "up", "down", "closed"}]
      /\ inbox' \in [Conn -> Seq(Lines)]
  <2> DEFINE Q == Seq(Lines)
             none == <<>>
  <2>1. /\ inbox \in [Conn -> Q] /\ none \in Q
        /\ client \in [Conn -> {"idle", "up", "down", "closed"}]
    BY DEF WorldTypeOK
  <2>2. \/ /\ client' = [client EXCEPT ![files[f]] = "closed"]
           /\ inbox' = [inbox EXCEPT ![files[f]] = none]
        \/ UNCHANGED <<client, inbox>>
    BY DEF Close
  <2> HIDE DEF Q, none
  <2>3. inbox' \in [Conn -> Q]
    BY <2>1, <2>2
  <2>4. client' \in [Conn -> {"idle", "up", "down", "closed"}]
    BY <2>1, <2>2
  <2> QED
    BY <2>3, <2>4 DEF Q
<1> QED
  BY <1>2, <1>3

(* close_port with its close(): a step of the port queue that takes the    *)
(* descriptor and its owner away together.                                 *)
LEMMA ClosePortProperties ==
    ASSUME ServerInv, NEW k \in DOMAIN pq, pq[k].fd # NoFd, ClosePort(pq[k]),
           UNCHANGED <<s_in, s_ident, monitorfd, fs>>, s_in.fd = NoFd
    PROVE  /\ Owned' /\ PQNext
           /\ files' \in [Fd -> What]
           /\ client' \in [Conn -> {"idle", "up", "down", "closed"}]
           /\ inbox' \in [Conn -> Seq(Lines)]
<1> DEFINE p == pq[k]
<1> USE DEF ServerInv
<1>1. close_port(p)
  BY DEF ClosePort
<1>2. PQNext
  BY <1>1 DEF PQNext
<1>3. /\ p.fd \in Fd /\ p.fd \in ps.full
      /\ Len(pq) \in Nat /\ DOMAIN pq = 1..Len(pq) /\ DOMAIN pq' = 1..(Len(pq) - 1)
      /\ \A j \in 1..(Len(pq) - 1) : pq'[j] = IF j < k THEN pq[j] ELSE pq[j + 1]
      /\ ps'.full = ps.full \ {p.fd}
  <2>1. pq \in Seq(Port)
    BY DEF PQInv, PQTypeOK
  <2> QED
    BY <1>1, <2>1, CloseShape, LenProperties
<1>4. Close(p.fd)
  BY <1>3 DEF ClosePort
<1>5. /\ files' \in [Fd -> What]
      /\ \A g \in Fd : files'[g] = IF g = p.fd THEN "free" ELSE files[g]
      /\ client' \in [Conn -> {"idle", "up", "down", "closed"}]
      /\ inbox' \in [Conn -> Seq(Lines)]
  BY <1>3, <1>4, CloseProperties DEF Surroundings
<1>6. \A j \in DOMAIN pq' : \E l \in DOMAIN pq : l # k /\ pq'[j] = pq[l]
  <2> SUFFICES ASSUME NEW j \in DOMAIN pq'
               PROVE  \E l \in DOMAIN pq : l # k /\ pq'[j] = pq[l]
    OBVIOUS
  <2>1. CASE j < k
    BY <2>1, <1>3
  <2>2. CASE ~ (j < k)
    <3>1. j + 1 \in DOMAIN pq /\ j + 1 # k /\ pq'[j] = pq[j + 1]
      BY <2>2, <1>3
    <3> QED
      BY <3>1
  <2> QED
    BY <2>1, <2>2
<1>7. PortsOwned'
  <2> SUFFICES ASSUME NEW j \in DOMAIN pq', pq'[j].fd # NoFd
               PROVE  pq'[j].conn \in Conn /\ files'[pq'[j].fd] = pq'[j].conn
    BY DEF PortsOwned
  <2>1. PICK l \in DOMAIN pq : l # k /\ pq'[j] = pq[l]
    BY <1>6
  <2>2. pq[l].fd # p.fd
    BY <2>1 DEF PQInv, PortTable, DistinctFds
  <2>3. pq[l].fd \in Fd
    <3>1. pq[l] \in Port
      BY LenProperties, ElementOfSeq DEF PQInv, PQTypeOK
    <3> QED
      BY <3>1, <2>1 DEF Port
  <2> QED
    BY <1>5, <2>1, <2>2, <2>3 DEF Owned, PortsOwned
<1>8. AdmittedOwned'
  BY DEF Owned, AdmittedOwned
<1>9. files[p.fd] \in Conn
  BY DEF Owned, PortsOwned
<1>10. RestOwned'
  <2>1. s_ident' # NoFd => files'[s_ident'] = "ident"
    BY <1>3, <1>5, <1>9, ConnNoMark DEF Owned, RestOwned, Surroundings, DaemonTypeOK
  <2>2. \A f \in Fd : files'[f] \in Conn => f \in ps'.full \cup {s_in'.fd}
    BY <1>3, <1>5, ConnNoMark DEF Owned, RestOwned
  <2>3. \A f \in Fd : files'[f] = "pipe" <=> f = monitorfd'
    BY <1>3, <1>5, <1>9, ConnNoMark DEF Owned, RestOwned
  <2> QED
    BY <2>1, <2>2, <2>3 DEF Owned, RestOwned
<1> QED
  BY <1>2, <1>5, <1>7, <1>8, <1>10 DEF Owned

(* Opening and closing the monitor pipe takes and frees one descriptor and *)
(* fds->fs follows.                                                        *)
LEMMA PipeProperties ==
    ASSUME ServerInv, monitor_open \/ monitor_close,
           DOMAIN pq' = DOMAIN pq,
           \A k \in DOMAIN pq : pq'[k].fd = pq[k].fd /\ pq'[k].conn = pq[k].conn,
           ps'.full = ps.full, UNCHANGED <<s_in, s_ident>>, s_in.fd = NoFd
    PROVE  /\ Owned'
           /\ files' \in [Fd -> What]
           /\ pipe' \in [writer : {"none", "asked", "open", "eof"}, q : Seq(1..MaxChunk)]
           /\ fs' \in ThreadFds(Fd)
           /\ monitorfd' \in Fd \cup {NoFd} /\ openFailed' \in BOOLEAN
<1> USE DEF ServerInv, Surroundings
<1> DEFINE Pipe == [writer : {"none", "asked", "open", "eof"}, q : Seq(1..MaxChunk)]
<1>1. /\ files \in [Fd -> What] /\ pipe \in Pipe /\ fs \in ThreadFds(Fd)
      /\ monitorfd \in Fd \cup {NoFd} /\ openFailed \in BOOLEAN
  BY DEF WorldTypeOK, What, ProcessTypeOK, FifoTypeOK
<1>2. AskDiald \in Pipe /\ NoPipe \in Pipe
  BY DEF AskDiald, NoPipe
<1>3. \A k \in DOMAIN pq : pq[k].fd \in Fd \cup {NoFd}
  <2>1. \A k \in DOMAIN pq : pq[k] \in Port
    BY LenProperties, ElementOfSeq DEF PQInv, PQTypeOK
  <2> QED
    BY <2>1 DEF Port
<1>4. AdmittedOwned'
  BY DEF Owned, AdmittedOwned
<1> HIDE DEF Pipe
<1>5. CASE UNCHANGED <<files, pipe, fs, monitorfd, openFailed>>
  <2>1. Owned'
    BY <1>5, OwnedFrame DEF Owned, AdmittedOwned
  <2> QED
    BY <1>1, <1>5, <2>1 DEF Pipe
<1>6. CASE monitor_open /\ monitorfd = NoFd
  <2> DEFINE opened == Alloc(files)
  <2>1. /\ opened \in Fd \cup {NoFd}
        /\ opened # NoFd => opened \in Fd /\ files[opened] = "free"
    BY <1>1, AllocProperties
  <2> HIDE DEF opened
  <2>2. /\ files' = Install(files, opened, "pipe") /\ monitorfd' = opened
        /\ IF opened = NoFd THEN UNCHANGED <<pipe, fs>> ELSE pipe' = AskDiald
    BY <1>6 DEF monitor_open, opened
  <2>3. /\ files' \in [Fd -> What]
        /\ \A g \in Fd : files'[g] = IF g = opened THEN "pipe" ELSE files[g]
    <3>1. "pipe" \in What
      BY DEF What
    <3> QED
      BY <1>1, <2>1, <2>2, <3>1, NoFdFacts DEF Install
  <2>4. /\ fs' \in ThreadFds(Fd) /\ fs'.full = {opened} \ {NoFd}
        /\ fs'.fullcount = IF opened = NoFd THEN 0 ELSE 1
    <3>1. CASE opened = NoFd
      BY <3>1, <1>1, <1>6, <2>2 DEF Owned, RestOwned
    <3>2. CASE opened # NoFd
      <4>1. fs' = [fs EXCEPT !.fullcount = 1, !.full = {opened}, !.maxfd = opened]
        BY <1>6, <3>2 DEF monitor_open, opened
      <4>2. fs \in ThreadFds(Fd) /\ opened \in Fd
        BY <1>1, <2>1, <3>2
      <4>3. fs' = [fullcount |-> 1, full |-> {opened}, maxfd |-> opened,
                   selcount |-> fs.selcount, sel |-> fs.sel]
        BY <4>1, <4>2 DEF ThreadFds
      <4> QED
        BY <3>2, <4>2, <4>3 DEF ThreadFds
    <3> QED
      BY <3>1, <3>2
  <2>5. pipe' \in Pipe /\ openFailed' \in BOOLEAN
    <3>1. openFailed' = (opened = NoFd)
      BY <1>6 DEF monitor_open, opened
    <3> QED
      BY <1>1, <1>2, <2>2, <3>1
  <2>6. PortsOwned'
    BY <1>3, <2>1, <2>3, ConnNoMark DEF Owned, PortsOwned
  <2>7. RestOwned'
    <3>1. s_ident' # NoFd => files'[s_ident'] = "ident"
      BY <2>1, <2>3, ConnNoMark DEF Owned, RestOwned, DaemonTypeOK
    <3>2. \A g \in Fd : files'[g] \in Conn => g \in ps'.full \cup {s_in'.fd}
      BY <2>3, ConnNoMark DEF Owned, RestOwned
    <3>3. \A g \in Fd : files'[g] = "pipe" <=> g = monitorfd'
      BY <1>6, <2>2, <2>3, NoFdFacts DEF Owned, RestOwned
    <3> QED
      BY <2>2, <2>4, <3>1, <3>2, <3>3 DEF RestOwned
  <2> QED
    BY <1>4, <2>1, <2>2, <2>3, <2>4, <2>5, <2>6, <2>7 DEF Owned, Pipe
<1>7. CASE monitor_close /\ monitorfd # NoFd
  <2>1. /\ files' = Install(files, monitorfd, "free") /\ pipe' = NoPipe
        /\ monitorfd' = NoFd /\ openFailed' = FALSE /\ fs' = EmptyFds
    BY <1>7 DEF monitor_close
  <2>2. /\ files' \in [Fd -> What]
        /\ \A g \in Fd : files'[g] = IF g = monitorfd THEN "free" ELSE files[g]
    <3>1. "free" \in What
      BY DEF What
    <3> QED
      BY <1>1, <2>1, <3>1, InstallProperties
  <2>3. files[monitorfd] = "pipe" /\ monitorfd \in Fd
    BY <1>1, <1>7 DEF Owned, RestOwned
  <2>4. /\ fs' \in ThreadFds(Fd) /\ fs'.full = {NoFd} \ {NoFd} /\ fs'.fullcount = 0
    BY <2>1 DEF ThreadFds, EmptyFds
  <2>5. PortsOwned'
    BY <1>3, <2>2, <2>3, ConnNoMark DEF Owned, PortsOwned
  <2>6. RestOwned'
    <3>1. s_ident' # NoFd => files'[s_ident'] = "ident"
      BY <2>2, <2>3, ConnNoMark DEF Owned, RestOwned, DaemonTypeOK
    <3>2. \A g \in Fd : files'[g] \in Conn => g \in ps'.full \cup {s_in'.fd}
      BY <2>2, ConnNoMark DEF Owned, RestOwned
    <3>3. \A g \in Fd : files'[g] = "pipe" <=> g = monitorfd'
      BY <2>1, <2>2, <2>3, NoFdFacts, ConnNoMark DEF Owned, RestOwned
    <3> QED
      BY <2>1, <2>4, <3>1, <3>2, <3>3 DEF RestOwned
  <2> QED
    BY <1>2, <1>4, <2>1, <2>2, <2>4, <2>5, <2>6 DEF Owned, Pipe
<1> QED
  BY <1>5, <1>6, <1>7 DEF monitor_open, monitor_close
-------------------------------------------------------------------------------
(* accept() and the socket() for ident: two descriptors that were free.    *)
LEMMA AcceptStep ==
    ASSUME ServerInv, Accept, UNCHANGED served
    PROVE  Conforms
<1> USE DEF ServerInv, Surroundings
<1> DEFINE accepted == Alloc(files)
           peer == IF accepted = NoFd THEN s_in.conn ELSE Head(backlog)
           table == Install(files, accepted, peer)
           asked == Alloc(table)
<1>1. /\ accepted = NoFd \/ backlog # <<>>
      /\ s_in' = [NoClient(peer) EXCEPT !.fd = accepted]
      /\ backlog' = IF accepted = NoFd THEN backlog ELSE Tail(backlog)
      /\ s_ident' = asked
      /\ files' = Install(table, asked, "ident")
      /\ pc = "accept" /\ Goto("connect")
      /\ UNCHANGED <<pqvars, clientvars, dialdvars, got, pd, fs, controlfd, ident,
                     fifovars, authvars>>
  BY DEF Accept
<1>2. files \in [Fd -> What] /\ backlog \in Seq(Conn) /\ s_in \in Port /\ fs \in ThreadFds(Fd)
  BY DEF WorldTypeOK, What, ProcessTypeOK
<1>3. s_in.fd = NoFd /\ s_in.conn \in Conn \cup {NoConn}
  BY <1>1, <1>2 DEF Owned, AdmittedOwned, Admitting, Dead, Port
<1>4. /\ accepted \in Fd \cup {NoFd}
      /\ accepted # NoFd => accepted \in Fd /\ files[accepted] = "free"
  BY <1>2, AllocProperties
<1> HIDE DEF accepted
<1>5. /\ accepted # NoFd => peer \in Conn
      /\ peer \in Conn \cup {NoConn}
  BY <1>1, <1>2, <1>3
<1> HIDE DEF peer
<1>6. /\ table \in [Fd -> What]
      /\ \A g \in Fd : table[g] = IF g = accepted THEN peer ELSE files[g]
  <2>1. CASE accepted = NoFd
    BY <2>1, <1>2, NoFdFacts DEF Install
  <2>2. CASE accepted # NoFd
    BY <2>2, <1>2, <1>4, <1>5 DEF Install, What
  <2> QED
    BY <2>1, <2>2
<1> HIDE DEF table
<1>7. /\ asked \in Fd \cup {NoFd}
      /\ asked # NoFd => asked \in Fd /\ table[asked] = "free"
  BY <1>6, AllocProperties
<1> HIDE DEF asked
<1>8. /\ files' \in [Fd -> What]
      /\ \A g \in Fd : files'[g] = IF g = asked THEN "ident" ELSE table[g]
  BY <1>1, <1>6, <1>7, NoFdFacts DEF Install, What
<1>9. asked # NoFd => asked # accepted /\ files[asked] = "free"
  BY <1>5, <1>6, <1>7, ConnNoMark
<1>10. /\ s_in'.fd = accepted /\ s_in'.conn = peer /\ s_in'.flag = {} /\ s_in' \in Port
  BY <1>1, <1>4, <1>5 DEF NoClient, Port
<1>11. PortsOwned'
  <2>1. \A k \in DOMAIN pq : pq[k].fd \in Fd \cup {NoFd}
    <3>1. \A k \in DOMAIN pq : pq[k] \in Port
      BY LenProperties, ElementOfSeq DEF PQInv, PQTypeOK
    <3> QED
      BY <3>1 DEF Port
  <2>2. pq' = pq
    BY <1>1 DEF pqvars
  <2>3. \A k \in DOMAIN pq : pq[k].fd # NoFd => pq[k].fd # accepted /\ pq[k].fd # asked
    BY <2>1, <1>4, <1>9, ConnNoMark DEF Owned, PortsOwned
  <2> QED
    BY <2>1, <2>2, <2>3, <1>6, <1>8 DEF Owned, PortsOwned
<1>12. AdmittedOwned'
  <2>1. accepted # NoFd => accepted \notin ps.full
    <3>1. SUFFICES ASSUME accepted # NoFd, accepted \in ps.full PROVE FALSE
      OBVIOUS
    <3>2. PICK k \in DOMAIN pq : pq[k].fd = accepted
      BY <3>1 DEF PQInv, PortTable, WatchedExactly
    <3> QED
      BY <3>1, <3>2, <1>4, ConnNoMark DEF Owned, PortsOwned
  <2>2. accepted # NoFd => files'[accepted] = peer
    BY <1>4, <1>6, <1>8, <1>9
  <2>3. ps' = ps /\ pc' = "connect"
    BY <1>1 DEF pqvars, Goto
  <2> QED
    BY <2>1, <2>2, <2>3, <1>5, <1>10 DEF AdmittedOwned, Admitting
<1>13. RestOwned'
  <2>1. s_ident' # NoFd => files'[s_ident'] = "ident"
    BY <1>1, <1>7, <1>8
  <2>2. \A g \in Fd : files'[g] \in Conn => g \in ps'.full \cup {s_in'.fd}
    <3>1. ps' = ps
      BY <1>1 DEF pqvars
    <3> QED
      BY <3>1, <1>3, <1>6, <1>8, <1>10, NoFdFacts, ConnNoMark DEF Owned, RestOwned
  <2>3. \A g \in Fd : files'[g] = "pipe" <=> g = monitorfd
    <3>1. \A g \in Fd : files[g] = "pipe" <=> g = monitorfd
      BY DEF Owned, RestOwned
    <3>2. ASSUME NEW g \in Fd PROVE files'[g] = "pipe" <=> files[g] = "pipe"
      <4>1. CASE g = asked
        BY <4>1, <1>8, <1>9, ConnNoMark, NoFdFacts
      <4>2. CASE g # asked /\ g = accepted
        BY <4>2, <1>4, <1>5, <1>6, <1>8, ConnNoMark, NoFdFacts
      <4>3. CASE g # asked /\ g # accepted
        BY <4>3, <1>6, <1>8
      <4> QED
        BY <4>1, <4>2, <4>3
    <3> QED
      BY <3>1, <3>2
  <2>4. monitorfd' = monitorfd /\ fs' = fs
    BY <1>1 DEF fifovars
  <2> QED
    BY <2>1, <2>2, <2>3, <2>4 DEF Owned, RestOwned
<1>14. WorldTypeOK'
  <2>1. backlog' \in Seq(Conn)
    BY <1>1, <1>2
  <2>2. files' \in [Fd -> Conn \cup {"ident", "pipe", "free"}]
    BY <1>8 DEF What
  <2> QED
    BY <2>1, <2>2, <1>1 DEF WorldTypeOK, clientvars, dialdvars
<1>15. ProcessTypeOK'
  <2>1. "connect" \in PC
    BY DEF PC, Daemon
  <2>2. pc' \in PC /\ curr' \in Nat /\ i' \in Nat
    BY <2>1, <1>1, GotoTypes
  <2> QED
    BY <2>2, <1>1, <1>10 DEF ProcessTypeOK
<1>16. DaemonTypeOK'
  BY <1>1, <1>7 DEF DaemonTypeOK
<1>17. FifoTypeOK' /\ AuthTypeOK' /\ UNCHANGED pqvars
  BY <1>1, FifoFrame, AuthFrame
<1> QED
  BY <1>11, <1>12, <1>13, <1>14, <1>15, <1>16, <1>17 DEF Conforms, Owned

(* The ident query, without an answer.                                     *)
LEMMA IdentStep ==
    ASSUME ServerInv, IdentRefused \/ IdentConnected \/ Greet, UNCHANGED served
    PROVE  Conforms
<1> USE DEF ServerInv, Surroundings
<1>1. /\ UNCHANGED <<pqvars, worldvars, pd, fs, controlfd, ident, fifovars, aq, conf, hups, stale>>
      /\ race' \in {race, "none"} /\ s_ident' \in {s_ident, NoFd}
      /\ \E where \in Admitting \cup Dead : Goto(where)
  <2>1. CASE IdentRefused
    BY <2>1 DEF IdentRefused, Admitting, authvars
  <2>2. CASE IdentConnected
    BY <2>2 DEF IdentConnected, Admitting, authvars, daemonvars
  <2>3. CASE Greet
    BY <2>3 DEF Greet, Admitting, Dead, authvars, daemonvars, worldvars
  <2> QED
    BY <2>1, <2>2, <2>3
<1>2. s_in \in Port
  BY DEF ProcessTypeOK
<1>3. /\ s_in' \in Port /\ s_in'.fd = s_in.fd /\ s_in'.conn = s_in.conn
      /\ "MONITOR" \notin s_in'.flag
  <2>1. CASE IdentRefused
    BY <1>2, <2>1 DEF IdentRefused, Port
  <2>2. CASE IdentConnected
    BY <1>2, <2>2 DEF IdentConnected, Owned, AdmittedOwned
  <2>3. CASE Greet
    <3>1. CASE UNCHANGED s_in
      BY <1>2, <3>1 DEF Owned, AdmittedOwned
    <3>2. CASE \E full \in Verdict : s_in' = [s_in EXCEPT !.flag = Rights(full)]
      BY <1>2, <3>2 DEF Rights, Port
    <3> QED
      BY <2>3, <3>1, <3>2 DEF Greet
  <2> QED
    BY <2>1, <2>2, <2>3
<1>4. pc' \in Admitting \cup Dead /\ pc' \in PC /\ curr' \in Nat /\ i' \in Nat
  BY <1>1, GotoTypes DEF Admitting, PC, Daemon
<1>5. ProcessTypeOK'
  BY <1>1, <1>3, <1>4 DEF ProcessTypeOK
<1>6. Owned'
  BY <1>1, <1>3, <1>4, OwnedFrame DEF pqvars, worldvars, kernelvars, fifovars
<1>7. DaemonTypeOK' /\ AuthTypeOK'
  BY <1>1 DEF DaemonTypeOK, AuthTypeOK
<1> QED
  BY <1>1, <1>5, <1>6, <1>7, WorldFrame, FifoFrame DEF Conforms

(* The answer of the ident host: its descriptor is closed, and only that.  *)
LEMMA ReplyStep ==
    ASSUME ServerInv, IdentReply, UNCHANGED served
    PROVE  Conforms
<1> USE DEF ServerInv, Surroundings
<1>1. PICK answer \in Idents :
         /\ s_in' = [s_in EXCEPT !.userid = reap_userid(answer)]
         /\ ident' = [ident EXCEPT ![s_in.conn] = answer]
  BY DEF IdentReply
<1>2. /\ files \in [Fd -> What] /\ s_ident \in Fd \cup {NoFd} /\ s_in \in Port
      /\ ident \in [Conn \cup {NoConn} -> Idents \cup {<<>>}]
  BY DEF WorldTypeOK, What, ProcessTypeOK, DaemonTypeOK
<1>3. /\ files' \in [Fd -> What]
      /\ \A g \in Fd : files'[g] = IF g = s_ident THEN "free" ELSE files[g]
  <2>1. files' = Install(files, s_ident, "free")
    BY DEF IdentReply
  <2> QED
    BY <2>1, <1>2, NoFdFacts DEF Install, What
<1>4. /\ s_in' \in Port /\ s_in'.fd = s_in.fd /\ s_in'.conn = s_in.conn /\ s_in'.flag = s_in.flag
  BY <1>1, <1>2, PortDaemonAssumption DEF Port
<1>5. /\ UNCHANGED <<pq, ps, monitorcount, monitorfd, fs>> /\ s_ident' = NoFd
      /\ pc' = "auth" /\ pc' \in PC /\ curr' \in Nat /\ i' \in Nat
  BY DEF IdentReply, pqvars, fifovars, Goto, PC, Daemon
<1>6. s_ident # NoFd => files[s_ident] = "ident"
  BY DEF Owned, RestOwned
<1>7. PortsOwned'
  <2>1. \A k \in DOMAIN pq : pq[k].fd \in Fd \cup {NoFd}
    <3>1. \A k \in DOMAIN pq : pq[k] \in Port
      BY LenProperties, ElementOfSeq DEF PQInv, PQTypeOK
    <3> QED
      BY <3>1 DEF Port
  <2> QED
    BY <2>1, <1>2, <1>3, <1>5, <1>6, ConnNoMark DEF Owned, PortsOwned
<1>8. AdmittedOwned'
  <2>1. s_in.fd \in Fd \cup {NoFd}
    BY <1>2 DEF Port
  <2> QED
    BY <2>1, <1>2, <1>3, <1>4, <1>5, <1>6, ConnNoMark DEF Owned, AdmittedOwned, Admitting
<1>9. RestOwned'
  <2>1. \A g \in Fd : files'[g] \in Conn => g \in ps'.full \cup {s_in'.fd}
    BY <1>3, <1>4, <1>5, ConnNoMark DEF Owned, RestOwned
  <2>2. \A g \in Fd : files'[g] = "pipe" <=> g = monitorfd'
    BY <1>3, <1>5, <1>6, ConnNoMark, NoFdFacts DEF Owned, RestOwned
  <2> QED
    BY <2>1, <2>2, <1>5 DEF Owned, RestOwned
<1>10. WorldTypeOK'
  <2>1. files' \in [Fd -> Conn \cup {"ident", "pipe", "free"}]
    BY <1>3 DEF What
  <2> QED
    BY <2>1 DEF IdentReply, WorldTypeOK, clientvars, dialdvars
<1>11. ProcessTypeOK'
  BY <1>4, <1>5 DEF IdentReply, ProcessTypeOK
<1>12. DaemonTypeOK'
  <2>1. ident' \in [Conn \cup {NoConn} -> Idents \cup {<<>>}]
    BY <1>1, <1>2
  <2> QED
    BY <2>1, <1>5 DEF DaemonTypeOK
<1>13. FifoTypeOK' /\ AuthTypeOK'
  BY FifoFrame, AuthFrame DEF IdentReply
<1> QED
  BY <1>5, <1>7, <1>8, <1>9, <1>10, <1>11, <1>12, <1>13 DEF Conforms, Owned, pqvars

(* port_enqueue: the new client's descriptor is in no other entry.         *)
LEMMA EnqueueStep ==
    ASSUME ServerInv, Enqueue, UNCHANGED served
    PROVE  Conforms
<1> USE DEF ServerInv, Surroundings
<1>1. /\ s_in' = NoClient(s_in.conn) /\ Goto(AfterDaemon(ps, fs))
      /\ UNCHANGED <<backlog, sent, stalled, dialdvars, got, pd, fs, controlfd,
                     daemonvars, fifovars, authvars>>
  BY DEF Enqueue
<1>2. s_in \in Port /\ s_in.fd \in Fd \cup {NoFd} /\ s_in.conn \in Conn \cup {NoConn}
  BY DEF ProcessTypeOK, Port
<1>3. s_in' \in Port /\ s_in'.fd = NoFd /\ s_in'.flag = {}
  BY <1>1, <1>2 DEF NoClient, Port
<1>4. ProcessTypeOK'
  <2>1. AfterDaemon(ps, fs) \in PC
    BY DEF AfterDaemon, AfterPorts, PC
  <2>2. pc' \in PC /\ curr' \in Nat /\ i' \in Nat
    BY <2>1, <1>1, GotoTypes
  <2> QED
    BY <2>2, <1>1, <1>3 DEF ProcessTypeOK
<1>5. AdmittedOwned'
  BY <1>3 DEF AdmittedOwned
<1>6. FifoTypeOK' /\ AuthTypeOK' /\ DaemonTypeOK'
  BY <1>1, FifoFrame, AuthFrame, DaemonFrame
<1>7. monitorfd' = monitorfd /\ s_ident' = s_ident /\ fs' = fs
  BY <1>1 DEF fifovars, daemonvars
<1>8. \A k \in DOMAIN pq : pq[k].fd \in Fd \cup {NoFd}
  <2>1. \A k \in DOMAIN pq : pq[k] \in Port
    BY LenProperties, ElementOfSeq DEF PQInv, PQTypeOK
  <2> QED
    BY <2>1 DEF Port
<1>9. CASE MallocFails
  <2>1. Close(s_in.fd) /\ UNCHANGED <<pq, ps, monitorcount>>
    BY <1>9 DEF Enqueue, pqvars
  <2>2. /\ files' \in [Fd -> What]
        /\ \A g \in Fd : files'[g] = IF g = s_in.fd THEN "free" ELSE files[g]
        /\ client' \in [Conn -> {"idle", "up", "down", "closed"}]
        /\ inbox' \in [Conn -> Seq(Lines)]
    BY <1>2, <2>1, CloseProperties
  <2>3. WorldTypeOK'
    BY <2>2, <1>1 DEF WorldTypeOK, What, dialdvars
  <2>4. \A k \in DOMAIN pq : pq[k].fd # NoFd => pq[k].fd # s_in.fd
    BY DEF Owned, AdmittedOwned, PQInv, PortTable, WatchedExactly
  <2>5. PortsOwned'
    BY <1>8, <2>1, <2>2, <2>4 DEF Owned, PortsOwned
  <2>6. s_in.fd # NoFd => files[s_in.fd] \in Conn
    BY DEF Owned, AdmittedOwned
  <2>7. RestOwned'
    <3>1. s_ident' # NoFd => files'[s_ident'] = "ident"
      BY <1>2, <1>7, <2>2, <2>6, ConnNoMark DEF Owned, RestOwned, DaemonTypeOK
    <3>2. \A g \in Fd : files'[g] \in Conn => g \in ps'.full \cup {s_in'.fd}
      BY <2>1, <2>2, ConnNoMark DEF Owned, RestOwned
    <3>3. \A g \in Fd : files'[g] = "pipe" <=> g = monitorfd'
      BY <1>7, <2>2, <2>6, ConnNoMark, NoFdFacts DEF Owned, RestOwned
    <3> QED
      BY <1>7, <3>1, <3>2, <3>3 DEF Owned, RestOwned
  <2> QED
    BY <1>4, <1>5, <1>6, <2>1, <2>3, <2>5, <2>7 DEF Conforms, Owned, pqvars
<1>10. CASE ~ MallocFails
  <2>1. port_enqueue(s_in) /\ UNCHANGED <<files, client, inbox>>
    BY <1>10 DEF Enqueue
  <2>2. WorldTypeOK'
    BY <2>1, <1>1 DEF WorldTypeOK, dialdvars
  <2>3. NewPort(s_in)
    BY DEF NewPort, Owned, AdmittedOwned, PQInv, PortTable, WatchedExactly
  <2>4. PQNext
    BY <1>2, <1>10, <2>1, <2>3 DEF PQNext
  <2>5. /\ Len(pq) \in Nat /\ DOMAIN pq = 1..Len(pq) /\ DOMAIN pq' = 1..(Len(pq) + 1)
        /\ pq'[1] = s_in /\ \A j \in 2..(Len(pq) + 1) : pq'[j] = pq[j - 1]
        /\ ps'.full = ps.full \cup {s_in.fd}
    <3>1. pq \in Seq(Port) /\ PQTypeOK
      BY DEF PQInv, PQTypeOK
    <3>2. Len(pq) \in Nat /\ DOMAIN pq = 1..Len(pq)
      BY <3>1, LenProperties
    <3> QED
      BY <3>1, <3>2, <1>2, <2>1, EnqueueShape
  <2>6. PortsOwned'
    <3> SUFFICES ASSUME NEW j \in DOMAIN pq', pq'[j].fd # NoFd
                 PROVE  pq'[j].conn \in Conn /\ files'[pq'[j].fd] = pq'[j].conn
      BY DEF PortsOwned
    <3>1. CASE j = 1
      BY <3>1, <2>1, <2>5 DEF Owned, AdmittedOwned
    <3>2. CASE j # 1
      <4>1. j \in 2..(Len(pq) + 1) /\ j - 1 \in DOMAIN pq
        BY <3>2, <2>5
      <4> QED
        BY <4>1, <2>1, <2>5 DEF Owned, PortsOwned
    <3> QED
      BY <3>1, <3>2
  <2>7. RestOwned'
    BY <1>7, <2>1, <2>5 DEF Owned, RestOwned
  <2> QED
    BY <1>4, <1>5, <1>6, <2>2, <2>4, <2>6, <2>7 DEF Conforms, Owned
<1> QED
  BY <1>9, <1>10
-------------------------------------------------------------------------------
(* fifo_server's first test, and the pipe it may close.                    *)
LEMMA FifoEnterStep ==
    ASSUME ServerInv, FifoEnter, UNCHANGED <<authvars, daemonvars, served>>
    PROVE  Conforms
<1> USE DEF ServerInv, Surroundings
<1>1. /\ UNCHANGED <<pqvars, backlog, clientvars, diald, written, got,
                     pd, controlfd, s_in, line, epipe>>
      /\ \/ monitor_close
         \/ UNCHANGED <<files, pipe, fs, monitorfd, openFailed>>
      /\ pc = "fifo" /\ pc' \in PC /\ curr' \in Nat /\ i' \in Nat
  <2>1. PICK where \in {"select", "fread"} : Goto(where)
    BY DEF FifoEnter
  <2>2. pc' \in PC /\ curr' \in Nat /\ i' \in Nat
    BY <2>1, GotoTypes DEF PC
  <2> QED
    BY <2>2 DEF FifoEnter
<1>2. s_in.fd = NoFd
  BY <1>1 DEF Owned, AdmittedOwned, Admitting, Dead
<1>3. /\ Owned' /\ files' \in [Fd -> What]
      /\ pipe' \in [writer : {"none", "asked", "open", "eof"}, q : Seq(1..MaxChunk)]
      /\ fs' \in ThreadFds(Fd) /\ monitorfd' \in Fd \cup {NoFd} /\ openFailed' \in BOOLEAN
  <2>1. CASE monitor_close
    BY <1>1, <1>2, <2>1, PipeProperties DEF pqvars, daemonvars
  <2>2. CASE UNCHANGED <<files, pipe, fs, monitorfd, openFailed>>
    <3>1. Owned'
      BY <1>1, <1>2, <2>2, QuietStep DEF daemonvars
    <3> QED
      BY <2>2, <3>1 DEF WorldTypeOK, What, ProcessTypeOK, FifoTypeOK
  <2> QED
    BY <1>1, <2>1, <2>2
<1>4. WorldTypeOK'
  <2>1. files' \in [Fd -> Conn \cup {"ident", "pipe", "free"}]
    BY <1>3 DEF What
  <2> QED
    BY <1>1, <1>3, <2>1 DEF WorldTypeOK, clientvars
<1>5. ProcessTypeOK'
  BY <1>1, <1>3 DEF ProcessTypeOK
<1>6. FifoTypeOK'
  BY <1>1, <1>3 DEF FifoTypeOK
<1> QED
  BY <1>1, <1>3, <1>4, <1>5, <1>6, AuthFrame, DaemonFrame DEF Conforms

(* read() of the pipe, and the end of a fan-out.                           *)
LEMMA FifoLoopStep ==
    ASSUME ServerInv, FifoRead \/ FifoRoundEnd, UNCHANGED <<authvars, daemonvars, served>>
    PROVE  Conforms
<1> USE DEF ServerInv, Surroundings
<1> DEFINE C == 1..MaxChunk
<1>1. /\ pipe \in [writer : {"none", "asked", "open", "eof"}, q : Seq(C)] /\ line \in Seq(C)
  BY DEF WorldTypeOK, FifoTypeOK
<1>2. /\ UNCHANGED <<pqvars, kernelvars, clientvars, diald, written, got,
                     pd, fs, controlfd, s_in, monitorfd, openFailed, epipe>>
      /\ pc \in {"fread", "fwrite"} /\ pc' \in PC /\ curr' \in Nat /\ i' \in Nat
  <2>1. CASE FifoRead
    <3>1. Goto("select") \/ (pc' = "fwrite" /\ curr' = 1 /\ i' = 0)
      BY <2>1 DEF FifoRead
    <3>2. pc' \in PC /\ curr' \in Nat /\ i' \in Nat
      BY <3>1, GotoTypes DEF PC
    <3> QED
      BY <2>1, <3>2 DEF FifoRead
  <2>2. CASE FifoRoundEnd
    <3>1. PICK where \in {"select", "fread"} : Goto(where)
      BY <2>2 DEF FifoRoundEnd
    <3>2. pc' \in PC /\ curr' \in Nat /\ i' \in Nat
      BY <3>1, GotoTypes DEF PC
    <3> QED
      BY <2>2, <3>2 DEF FifoRoundEnd, worldvars, dialdvars
  <2> QED
    BY <2>1, <2>2
<1> HIDE DEF C
<1>3. /\ pipe' \in [writer : {"none", "asked", "open", "eof"}, q : Seq(C)] /\ line' \in Seq(C)
  <2>1. CASE UNCHANGED <<pipe, line>>
    BY <1>1, <2>1
  <2>2. CASE pipe' = pipe /\ line' = <<>>
    BY <1>1, <2>2
  <2>3. CASE \E n \in 1..Len(pipe.q) :
                /\ line' = SubSeq(pipe.q, 1, n)
                /\ pipe' = [pipe EXCEPT !.q = SubSeq(@, n + 1, Len(@))]
    <3>1. PICK n \in 1..Len(pipe.q) :
                /\ line' = SubSeq(pipe.q, 1, n)
                /\ pipe' = [pipe EXCEPT !.q = SubSeq(@, n + 1, Len(@))]
      BY <2>3
    <3>2. pipe.q \in Seq(C) /\ Len(pipe.q) \in Nat
      BY <1>1, LenProperties
    <3>3. SubSeq(pipe.q, 1, n) \in Seq(C) /\ SubSeq(pipe.q, n + 1, Len(pipe.q)) \in Seq(C)
      BY <3>2
    <3> QED
      BY <1>1, <3>1, <3>3
  <2> QED
    BY <2>1, <2>2, <2>3 DEF FifoRead, FifoRoundEnd, worldvars, dialdvars
<1>4. s_in.fd = NoFd
  BY <1>2 DEF Owned, AdmittedOwned, Admitting, Dead
<1>5. Owned' /\ [PQNext]_pqvars
  BY <1>2, <1>4, QuietStep DEF kernelvars, daemonvars
<1>6. ProcessTypeOK'
  BY <1>2 DEF ProcessTypeOK
<1>7. WorldTypeOK'
  BY <1>2, <1>3 DEF WorldTypeOK, kernelvars, clientvars, C
<1>8. FifoTypeOK'
  BY <1>2, <1>3 DEF FifoTypeOK, C
<1> QED
  BY <1>5, <1>6, <1>7, <1>8, AuthFrame, DaemonFrame DEF Conforms

(* The subscriber the fan-out comes to next is one with a descriptor.      *)
LEMMA NextMonitorFacts ==
    ASSUME PQInv, NextMonitor # {}
    PROVE  /\ Min(NextMonitor) \in NextMonitor /\ Min(NextMonitor) \in DOMAIN pq
           /\ \A k \in NextMonitor : Min(NextMonitor) <= k
           /\ pq[Min(NextMonitor)].fd # NoFd
<1>1. DOMAIN pq \subseteq Nat
  <2>1. pq \in Seq(Port)
    BY DEF PQInv, PQTypeOK
  <2>2. Len(pq) \in Nat /\ DOMAIN pq = 1..Len(pq)
    BY <2>1, LenProperties
  <2> QED
    BY <2>2
<1>2. NextMonitor \in SUBSET Nat /\ NextMonitor \subseteq DOMAIN pq
  BY <1>1 DEF NextMonitor, Monitored
<1>3. Min(NextMonitor) \in NextMonitor /\ \A k \in NextMonitor : Min(NextMonitor) <= k
  BY <1>2, MinExists
<1>4. \A k \in NextMonitor : pq[k].fd # NoFd
  BY DEF NextMonitor, Monitored, PQInv, PortTable, DistinctFds
<1> QED
  BY <1>2, <1>3, <1>4

(* A message to a subscriber, and a subscriber closed for EPIPE.           *)
LEMMA FifoWriteStep ==
    ASSUME ServerInv, FifoWrite, UNCHANGED <<authvars, daemonvars, served>>
    PROVE  Conforms
<1> USE DEF ServerInv, Surroundings
<1> DEFINE k == Min(NextMonitor)
           c == files[pq[k].fd]
<1>1. /\ pc = "fwrite" /\ NextMonitor # {} /\ i' = i + 1
      /\ UNCHANGED <<backlog, sent, stalled, dialdvars, pc, pd, fs, controlfd, s_in,
                     monitorfd, line, openFailed>>
      /\ \/ /\ got' = IF client[c] = "up" THEN [got EXCEPT ![c] = @ \o line] ELSE got
            /\ curr' = FifoSent(k)
            /\ UNCHANGED <<pqvars, files, client, inbox, epipe>>
         \/ /\ ClosePort(pq[k]) /\ curr' = 1 /\ epipe' = TRUE /\ UNCHANGED got
  BY DEF FifoWrite, Fanning
<1>2. k \in DOMAIN pq /\ pq[k].fd # NoFd /\ k \in Nat
  <2>1. k \in DOMAIN pq /\ pq[k].fd # NoFd
    BY <1>1, NextMonitorFacts
  <2>2. Len(pq) \in Nat /\ DOMAIN pq = 1..Len(pq)
    BY LenProperties DEF PQInv, PQTypeOK
  <2> QED
    BY <2>1, <2>2
<1> HIDE DEF k
<1>3. c \in Conn
  BY <1>2 DEF Owned, PortsOwned
<1> HIDE DEF c
<1>4. s_in.fd = NoFd
  BY <1>1 DEF Owned, AdmittedOwned, Admitting, Dead
<1>5. curr' \in Nat
  BY <1>1, <1>2 DEF FifoSent
<1>6. ProcessTypeOK'
  BY <1>1, <1>5 DEF ProcessTypeOK
<1>7. CASE /\ got' = IF client[c] = "up" THEN [got EXCEPT ![c] = @ \o line] ELSE got
           /\ UNCHANGED <<pqvars, files, client, inbox, epipe>>
  <2> DEFINE Q == Seq(1..MaxChunk)
  <2>1. got \in [Conn -> Q] /\ line \in Q
    BY DEF WorldTypeOK, FifoTypeOK
  <2>2. got[c] \o line \in Q
    <3>1. got[c] \in Q
      BY <1>3, <2>1
    <3> QED
      BY <2>1, <3>1
  <2> HIDE DEF Q
  <2>3. got' \in [Conn -> Q]
    BY <1>7, <2>1, <2>2
  <2>4. WorldTypeOK'
    BY <1>1, <1>7, <2>3 DEF WorldTypeOK, dialdvars, Q
  <2>5. FifoTypeOK'
    BY <1>1, <1>7 DEF FifoTypeOK
  <2>6. Owned' /\ [PQNext]_pqvars
    BY <1>1, <1>4, <1>7, QuietStep DEF daemonvars
  <2> QED
    BY <1>6, <2>4, <2>5, <2>6, AuthFrame, DaemonFrame DEF Conforms
<1>8. CASE ClosePort(pq[k]) /\ epipe' = TRUE /\ UNCHANGED got
  <2>1. /\ Owned' /\ PQNext /\ files' \in [Fd -> What]
        /\ client' \in [Conn -> {"idle", "up", "down", "closed"}]
        /\ inbox' \in [Conn -> Seq(Lines)]
    BY <1>1, <1>2, <1>4, <1>8, ClosePortProperties DEF daemonvars
  <2>2. WorldTypeOK'
    BY <1>1, <1>8, <2>1 DEF WorldTypeOK, dialdvars, What
  <2>3. FifoTypeOK'
    BY <1>1, <1>8 DEF FifoTypeOK
  <2> QED
    BY <1>6, <2>1, <2>2, <2>3, AuthFrame, DaemonFrame DEF Conforms
<1> QED
  BY <1>1, <1>7, <1>8

(* The port port_server comes to next is one with a descriptor.            *)
LEMMA SelectedFacts ==
    ASSUME PQInv, Selected # {}
    PROVE  /\ Min(Selected) \in Selected /\ Min(Selected) \in DOMAIN pq /\ Min(Selected) \in Nat
           /\ \A k \in Selected : Min(Selected) <= k
           /\ pq[Min(Selected)].fd # NoFd /\ pq[Min(Selected)].fd \in Fd
<1>1. DOMAIN pq \subseteq Nat
  <2>1. pq \in Seq(Port)
    BY DEF PQInv, PQTypeOK
  <2>2. Len(pq) \in Nat /\ DOMAIN pq = 1..Len(pq)
    BY <2>1, LenProperties
  <2> QED
    BY <2>2
<1>2. Selected \in SUBSET Nat /\ Selected \subseteq DOMAIN pq
  BY <1>1 DEF Selected
<1>3. Min(Selected) \in Selected /\ \A k \in Selected : Min(Selected) <= k
  BY <1>2, MinExists
<1>4. \A k \in Selected : pq[k].fd # NoFd /\ pq[k].fd \in Fd
  <2>1. ps.sel \subseteq Fd
    BY DEF PQInv, PQTypeOK, ThreadFds
  <2> QED
    BY <2>1, NoFdFacts DEF Selected
<1> QED
  BY <1>2, <1>3, <1>4

(* What a subscription or its end changes in the list.                     *)
LEMMA MonitorShape ==
    ASSUME PQInv, NEW k \in DOMAIN pq, MonitorOn(k) \/ MonitorOff(k)
    PROVE  /\ DOMAIN pq' = DOMAIN pq /\ Len(pq') = Len(pq) /\ ps' = ps
           /\ \A j \in DOMAIN pq :
                 /\ pq'[j].fd = pq[j].fd /\ pq'[j].conn = pq[j].conn
                 /\ pq'[j].userid = pq[j].userid
                 /\ "WRITE" \in pq'[j].flag <=> "WRITE" \in pq[j].flag
           /\ \A j \in DOMAIN pq \ {k} : pq'[j] = pq[j]
<1>1. /\ pq \in Seq(Port) /\ Len(pq) \in Nat /\ DOMAIN pq = 1..Len(pq)
      /\ \A j \in DOMAIN pq : pq[j] \in Port
  BY LenProperties, ElementOfSeq DEF PQInv, PQTypeOK
<1>2. PICK flag : /\ pq' = pq \/ pq' = [pq EXCEPT ![k].flag = flag]
                  /\ "WRITE" \in flag <=> "WRITE" \in pq[k].flag
  <2>1. CASE MonitorOn(k)
    <3>1. pq' = pq \/ pq' = [pq EXCEPT ![k].flag = pq[k].flag \cup {"MONITOR"}]
      BY <2>1 DEF MonitorOn, pqvars
    <3> QED
      BY <3>1
  <2>2. CASE MonitorOff(k)
    <3>1. pq' = pq \/ pq' = [pq EXCEPT ![k].flag = pq[k].flag \ {"MONITOR"}]
      BY <2>2 DEF MonitorOff, pqvars
    <3> QED
      BY <3>1
  <2> QED
    BY <2>1, <2>2
<1>3. ps' = ps
  BY DEF MonitorOn, MonitorOff, pqvars
<1>4. CASE pq' = pq
  BY <1>3, <1>4
<1>5. CASE pq' = [pq EXCEPT ![k].flag = flag]
  <2>1. /\ DOMAIN pq' = DOMAIN pq /\ pq'[k] = [pq[k] EXCEPT !.flag = flag]
        /\ \A j \in DOMAIN pq \ {k} : pq'[j] = pq[j]
    BY <1>1, <1>5
  <2>2. Len(pq') = Len(pq)
    <3>1. DOMAIN pq' = 1..Len(pq)
      BY <1>1, <2>1
    <3> QED
      BY <1>1, <1>5, <3>1
  <2>3. /\ pq'[k].fd = pq[k].fd /\ pq'[k].conn = pq[k].conn /\ pq'[k].userid = pq[k].userid
        /\ pq'[k].flag = flag
    BY <1>1, <2>1 DEF Port
  <2> QED
    BY <1>2, <1>3, <2>1, <2>2, <2>3
<1> QED
  BY <1>2, <1>4, <1>5

(* What port_server does with the next port: it closes it, or reads a line *)
(* and goes on to the one after it.                                        *)
Closing(k) ==
    /\ ClosePort(pq[k]) /\ pc' = "ports" /\ curr' = k
    /\ UNCHANGED <<pipe, fs, monitorfd, openFailed>>

Staying(k) ==
    /\ curr' = k + 1 /\ pc' \in {"ports", "control"}
    /\ inbox' = [inbox EXCEPT ![pq[k].conn] = <<>>] /\ UNCHANGED client
    /\ pc' = "control" => "WRITE" \in pq[k].flag /\ UNCHANGED pqvars
    /\ \/ MonitorOff(k) /\ UNCHANGED <<files, pipe, fs, monitorfd, openFailed>>
       \/ /\ MonitorOn(k)
          /\ IF "MONITOR" \notin pq[k].flag /\ fs.fullcount = 0
             THEN monitor_open
             ELSE UNCHANGED <<files, pipe, fs, monitorfd, openFailed>>
       \/ UNCHANGED <<pqvars, files, pipe, fs, monitorfd, openFailed>>

(* Every PortRead is one of the two, for a port whose descriptor is its    *)
(* own connection.                                                         *)
LEMMA PortReadCases ==
    ASSUME ServerInv, PortRead, NEW k, k = Min(Selected)
    PROVE  /\ pc = "ports" /\ Serving /\ s_in.fd = NoFd
           /\ k \in Selected /\ k \in DOMAIN pq /\ k \in Nat /\ \A j \in Selected : k <= j
           /\ pq[k].fd \in Fd /\ pq[k].fd # NoFd
           /\ pq[k].conn \in Conn /\ files[pq[k].fd] = pq[k].conn
           /\ served' = served \cup {pq[k].fd} /\ i' = i + 1
           /\ UNCHANGED <<backlog, sent, stalled, diald, written, got, pd, controlfd, s_in,
                          line, epipe, authvars, daemonvars>>
           /\ Closing(k) \/ Staying(k)
<1> USE DEF ServerInv
<1> DEFINE c == files[pq[k].fd]
<1>1. /\ pc = "ports" /\ Selected # {} /\ Serving
      /\ served' = served \cup {pq[k].fd} /\ i' = i + 1
      /\ curr' = IF Len(pq') < Len(pq) THEN k ELSE k + 1
      /\ UNCHANGED <<backlog, sent, stalled, diald, written, got, pd, controlfd, s_in,
                     line, epipe, authvars, daemonvars>>
  BY DEF PortRead, Serving, AfterClosed
<1>2. \/ /\ inbox[c] = <<>> /\ ClosePort(pq[k])
         /\ UNCHANGED <<pc, pipe, fs, monitorfd, openFailed>>
      \/ /\ inbox[c] # <<>> /\ parse_incoming(k, Head(inbox[c]))
         /\ inbox' = [inbox EXCEPT ![c] = <<>>]
  BY DEF PortRead
<1>3. /\ k \in Selected /\ k \in DOMAIN pq /\ k \in Nat /\ \A j \in Selected : k <= j
      /\ pq[k].fd # NoFd /\ pq[k].fd \in Fd
  BY <1>1, SelectedFacts
<1>4. pq[k].conn \in Conn /\ c = pq[k].conn
  BY <1>3 DEF Owned, PortsOwned
<1>5. s_in.fd = NoFd
  BY <1>1 DEF Owned, AdmittedOwned, Admitting, Dead
<1>6. ClosePort(pq[k]) => curr' = k
  <2>1. SUFFICES ASSUME ClosePort(pq[k]) PROVE curr' = k
    OBVIOUS
  <2>2. close_port(pq[k])
    BY <2>1 DEF ClosePort
  <2>3. Len(pq') = Len(pq) - 1 /\ Len(pq) \in Nat
    BY <1>3, <2>2, CloseShape, LenProperties DEF PQInv, PQTypeOK
  <2> QED
    BY <1>1, <2>3
<1>7. (MonitorOn(k) \/ MonitorOff(k) \/ UNCHANGED pqvars) => curr' = k + 1
  <2>1. SUFFICES ASSUME MonitorOn(k) \/ MonitorOff(k) \/ UNCHANGED pqvars PROVE Len(pq') = Len(pq)
    BY <1>1, LenProperties DEF PQInv, PQTypeOK
  <2> QED
    BY <1>3, <2>1, MonitorShape DEF pqvars
<1>8. Closing(k) \/ Staying(k)
  <2>1. CASE inbox[c] = <<>>
    BY <2>1, <1>1, <1>2, <1>6 DEF Closing
  <2>2. CASE inbox[c] # <<>>
    <3> DEFINE l == Head(inbox[c])
    <3>1. parse_incoming(k, l) /\ inbox' = [inbox EXCEPT ![pq[k].conn] = <<>>]
      BY <2>2, <1>2, <1>4
    <3> HIDE DEF l
    <3>2. pc' = IF l = "force" /\ "WRITE" \in pq[k].flag THEN "control" ELSE "ports"
      BY <3>1 DEF parse_incoming
    <3>3. CASE l = "monitor off CR"
      <4>1. MonitorOff(k) /\ UNCHANGED <<files, pipe, fs, monitorfd, openFailed, client>>
        BY <3>1, <3>3 DEF parse_incoming, Unsubscribes, Subscribes
      <4> QED
        BY <3>1, <3>2, <3>3, <4>1, <1>7 DEF Staying
    <3>4. CASE l \in {"monitor on", "monitor off"}
      <4>1. /\ MonitorOn(k) /\ UNCHANGED client
            /\ IF "MONITOR" \notin pq[k].flag /\ fs.fullcount = 0
               THEN monitor_open
               ELSE UNCHANGED <<files, pipe, fs, monitorfd, openFailed>>
        BY <3>1, <3>4 DEF parse_incoming, Unsubscribes, Subscribes
      <4>2. pc' = "ports"
        BY <3>2, <3>4
      <4> QED
        BY <3>1, <4>1, <4>2, <1>7 DEF Staying
    <3>5. CASE l = "close"
      <4>1. ClosePort(pq[k]) /\ UNCHANGED <<pipe, fs, monitorfd, openFailed>>
        BY <3>1, <3>5 DEF parse_incoming, Unsubscribes, Subscribes
      <4> QED
        BY <3>2, <3>5, <4>1, <1>6 DEF Closing
    <3>6. CASE l \notin {"monitor off CR", "monitor on", "monitor off", "close"}
      <4>1. UNCHANGED <<pqvars, files, pipe, fs, monitorfd, openFailed, client>>
        BY <3>1, <3>6 DEF parse_incoming, Unsubscribes, Subscribes
      <4> QED
        BY <3>1, <3>2, <4>1, <1>7 DEF Staying
    <3> QED
      BY <3>3, <3>4, <3>5, <3>6
  <2> QED
    BY <2>1, <2>2
<1> QED
  BY <1>1, <1>3, <1>4, <1>5, <1>8

(* port_server's turn of its loop.                                         *)
LEMMA PortReadStep ==
    ASSUME ServerInv, PortRead
    PROVE  Conforms
<1> USE DEF ServerInv, Surroundings
<1> DEFINE k == Min(Selected)
<1>1. /\ pc = "ports" /\ s_in.fd = NoFd
      /\ k \in DOMAIN pq /\ k \in Nat /\ pq[k].fd \in Fd /\ pq[k].fd # NoFd
      /\ pq[k].conn \in Conn
      /\ served' = served \cup {pq[k].fd} /\ i' = i + 1
      /\ UNCHANGED <<backlog, sent, stalled, diald, written, got, pd, controlfd, s_in,
                     line, epipe, authvars, daemonvars>>
      /\ Closing(k) \/ Staying(k)
  BY PortReadCases
<1> HIDE DEF k
<1>2. served' \subseteq Fd /\ i' \in Nat /\ curr' \in Nat /\ pc' \in PC
  BY <1>1 DEF ProcessTypeOK, Closing, Staying, PC
<1>3. AuthTypeOK' /\ DaemonTypeOK'
  BY <1>1, AuthFrame, DaemonFrame
<1>4. CASE Closing(k)
  <2>1. /\ Owned' /\ PQNext /\ files' \in [Fd -> What]
        /\ client' \in [Conn -> {"idle", "up", "down", "closed"}]
        /\ inbox' \in [Conn -> Seq(Lines)]
    BY <1>1, <1>4, ClosePortProperties DEF Closing, daemonvars
  <2>2. WorldTypeOK'
    BY <1>1, <1>4, <2>1 DEF WorldTypeOK, What, Closing
  <2>3. ProcessTypeOK'
    BY <1>1, <1>2, <1>4 DEF ProcessTypeOK, Closing
  <2>4. FifoTypeOK'
    BY <1>1, <1>4 DEF FifoTypeOK, Closing
  <2> QED
    BY <1>2, <1>3, <2>1, <2>2, <2>3, <2>4 DEF Conforms
<1>5. CASE Staying(k)
  <2>1. /\ DOMAIN pq' = DOMAIN pq /\ ps' = ps
        /\ \A j \in DOMAIN pq : pq'[j].fd = pq[j].fd /\ pq'[j].conn = pq[j].conn
    BY <1>1, <1>5, MonitorShape DEF Staying, pqvars
  <2>2. [PQNext]_pqvars
    BY <1>1, <1>5 DEF Staying, PQNext
  <2>3. /\ Owned' /\ files' \in [Fd -> What]
        /\ pipe' \in [writer : {"none", "asked", "open", "eof"}, q : Seq(1..MaxChunk)]
        /\ fs' \in ThreadFds(Fd) /\ monitorfd' \in Fd \cup {NoFd} /\ openFailed' \in BOOLEAN
    <3>1. CASE monitor_open
      BY <1>1, <2>1, <3>1, PipeProperties DEF daemonvars
    <3>2. CASE UNCHANGED <<files, pipe, fs, monitorfd, openFailed>>
      <4>1. Owned'
        BY <1>1, <2>1, <3>2, OwnedFrame DEF Owned, AdmittedOwned, daemonvars
      <4> QED
        BY <3>2, <4>1 DEF WorldTypeOK, What, ProcessTypeOK, FifoTypeOK
    <3> QED
      BY <1>5, <3>1, <3>2 DEF Staying
  <2>4. inbox' \in [Conn -> Seq(Lines)] /\ client' = client
    <3> DEFINE Q == Seq(Lines)
               none == <<>>
    <3>1. inbox \in [Conn -> Q] /\ none \in Q
      BY DEF WorldTypeOK
    <3>2. inbox' = [inbox EXCEPT ![pq[k].conn] = none] /\ client' = client
      BY <1>5 DEF Staying
    <3> HIDE DEF Q, none
    <3>3. inbox' \in [Conn -> Q]
      BY <3>1, <3>2
    <3> QED
      BY <3>2, <3>3 DEF Q
  <2>5. WorldTypeOK'
    <3>1. files' \in [Fd -> Conn \cup {"ident", "pipe", "free"}]
      BY <2>3 DEF What
    <3> QED
      BY <1>1, <2>3, <2>4, <3>1 DEF WorldTypeOK
  <2>6. ProcessTypeOK'
    BY <1>1, <1>2, <2>3 DEF ProcessTypeOK
  <2>7. FifoTypeOK'
    BY <1>1, <2>3 DEF FifoTypeOK
  <2> QED
    BY <1>2, <1>3, <2>2, <2>3, <2>5, <2>6, <2>7 DEF Conforms
<1> QED
  BY <1>1, <1>4, <1>5
-------------------------------------------------------------------------------
(* A fresh server holds nothing.                                           *)
LEMMA ServerInit == Init => ServerInv
<1> SUFFICES ASSUME Init PROVE ServerInv
  OBVIOUS
<1>1. PQInv
  BY InitInv DEF Init
<1>2. WorldTypeOK
  BY WorldAssumption DEF Init, WorldInit, WorldTypeOK, NoPipe
<1>3. ProcessTypeOK
  BY DEF Init, ProcessInit, ProcessTypeOK, PC, Booting, EmptyFds, ThreadFds, NoClient, Port
<1>4. FifoTypeOK /\ AuthTypeOK /\ DaemonTypeOK /\ served \subseteq Fd
  <2>1. FifoTypeOK
    <3>1. openFailed \in BOOLEAN /\ epipe \in BOOLEAN
      BY DEF Init, FifoInit
    <3>2. monitorfd \in Fd \cup {NoFd} /\ line \in Seq(1..MaxChunk)
      BY DEF Init, FifoInit
    <3> QED
      BY <3>1, <3>2 DEF FifoTypeOK
  <2>2. AuthTypeOK
    BY AuthenticateAssumption DEF Init, AuthInit, AuthTypeOK
  <2>3. DaemonTypeOK /\ served \subseteq Fd
    BY DEF Init, DaemonInit, DaemonTypeOK
  <2> QED
    BY <2>1, <2>2, <2>3
<1>5. /\ DOMAIN pq = {} /\ s_in.fd = NoFd /\ s_in.flag = {} /\ monitorfd = NoFd
      /\ s_ident = NoFd /\ fs.full = {} /\ fs.fullcount = 0
      /\ \A f \in Fd : files[f] = "free"
  BY DEF Init, PQInit, WorldInit, ProcessInit, FifoInit, DaemonInit, EmptyFds, NoClient
<1>6. Owned
  BY <1>5, ConnNoMark, NoFdFacts DEF Owned, PortsOwned, AdmittedOwned, RestOwned
<1> QED
  BY <1>1, <1>2, <1>3, <1>4, <1>6 DEF ServerInv, Surroundings

(* Every step does what a step of the server has to do.                    *)
LEMMA ServerStepConforms ==
    ASSUME ServerInv, Next
    PROVE  Conforms
<1>1. CASE detach_process \/ port_daemon_init \/ fifo_server_init \/ read_conf
  BY <1>1, BootStep
<1>2. CASE do_select \/ SelectInterrupted
  BY <1>2, SelectStep
<1>3. CASE PortRead
  BY <1>3, PortReadStep
<1>4. CASE ControlWrite \/ PortsDone
  BY <1>4, PortsEndStep
<1>5. CASE DaemonStep /\ UNCHANGED served
  BY <1>5, AcceptStep, IdentStep, EnqueueStep DEF DaemonStep
<1>6. CASE FifoStep /\ UNCHANGED <<authvars, daemonvars, served>>
  BY <1>6, FifoEnterStep, FifoLoopStep, FifoWriteStep DEF FifoStep
<1>7. CASE IdentAnswered
  BY <1>7, ReplyStep DEF IdentAnswered
<1>8. CASE Signal
  BY <1>8, ReloadStep, KillStep DEF Signal
<1>9. CASE Environment
  BY <1>9, EnvironmentStep
<1> QED
  BY <1>1, <1>2, <1>3, <1>4, <1>5, <1>6, <1>7, <1>8, <1>9 DEF Next, ServerStep

(* The invariant is inductive, and every step refines the port queue.      *)
LEMMA ServerNext == ServerInv /\ [Next]_vars => ServerInv' /\ [PQNext]_pqvars
<1> SUFFICES ASSUME ServerInv, [Next]_vars PROVE ServerInv' /\ [PQNext]_pqvars
  OBVIOUS
<1>1. CASE Next
  <2>1. Surroundings' /\ Owned' /\ [PQNext]_pqvars
    BY <1>1, ServerStepConforms DEF Conforms
  <2>2. PQInv'
    BY <2>1, NextInv DEF ServerInv
  <2> QED
    BY <2>1, <2>2 DEF ServerInv
<1>2. CASE UNCHANGED vars
  <2>1. UNCHANGED pqvars /\ UNCHANGED worldvars /\ UNCHANGED procvars /\ UNCHANGED fifovars
        /\ UNCHANGED authvars /\ UNCHANGED daemonvars /\ served' = served
    BY <1>2 DEF vars
  <2>2. PQInv'
    BY <2>1, NextInv DEF ServerInv
  <2>3. Owned'
    BY <2>1, QuietStep
    DEF ServerInv, worldvars, kernelvars, procvars, fifovars, daemonvars, Owned, AdmittedOwned
  <2>4. Surroundings'
    <3>1. ProcessTypeOK'
      BY <2>1 DEF ServerInv, Surroundings, ProcessTypeOK, procvars
    <3> QED
      BY <2>1, <3>1, WorldFrame, FifoFrame, AuthFrame, DaemonFrame DEF ServerInv, Surroundings
  <2> QED
    BY <2>1, <2>2, <2>3, <2>4 DEF ServerInv
<1> QED
  BY <1>1, <1>2

(* The inductive invariant holds in every state of the server.             *)
THEOREM ServerInvariance == Spec => []ServerInv
<1> QED
  BY ServerInit, ServerNext, PTL DEF Spec

(* Only select() decides whether demux_fds is misled.                      *)
LEMMA MisledKept ==
    ASSUME [Next]_vars, ~ do_select, ~ SelectInterrupted
    PROVE  misled' = misled
BY DEF Next, vars, ServerStep, IdentAnswered, Signal, Environment, detach_process,
       port_daemon_init, fifo_server_init, read_conf, PortRead, ControlWrite, PortsDone

(* Its value is a truth value.                                             *)
MisledTypeOK == misled \in BOOLEAN

LEMMA MisledType == MisledTypeOK /\ [Next]_vars => MisledTypeOK'
<1> SUFFICES ASSUME misled \in BOOLEAN, [Next]_vars PROVE misled' \in BOOLEAN
  BY DEF MisledTypeOK
<1>1. CASE do_select \/ SelectInterrupted
  BY <1>1, Zenon DEF do_select, SelectInterrupted, Demux
<1>2. CASE ~ do_select /\ ~ SelectInterrupted
  BY <1>2, MisledKept
<1> QED
  BY <1>1, <1>2

(* Every variable of the server keeps its type, whatever its clients, the  *)
(* ident hosts, diald and the administrator do.                            *)
THEOREM ServerTypeCorrect == Spec => []TypeOK
<1>1. ServerInv /\ MisledTypeOK => TypeOK
  BY DEF ServerInv, PQInv, Surroundings, TypeOK, MisledTypeOK
<1>2. Init => MisledTypeOK
  BY DEF Init, MisledTypeOK
<1> QED
  BY <1>1, <1>2, MisledType, ServerInvariance, PTL DEF Spec

(* The server uses the port table only as its operations allow: every step *)
(* of main, port_daemon, port_server, fifo_server and of the signal        *)
(* handlers is one operation of the port queue, or leaves it as it is.     *)
THEOREM ServerImplementsPortQueue == Spec => PQSpec
<1>1. Init => PQInit
  BY DEF Init
<1> QED
  BY <1>1, ServerInvariance, ServerNext, PTL DEF Spec, PQSpec

(* So the list, the watched set and the subscriber count agree in every    *)
(* state of the server.                                                    *)
THEOREM ServerTableConsistent == Spec => []PortTable
<1> QED
  BY ServerImplementsPortQueue, TableConsistent, PTL

(* The kernel's descriptor table and the server's idea of it agree: a      *)
(* descriptor that is closed and handed out again never ends up with the   *)
(* wrong client, and no connection is forgotten.                           *)
THEOREM DescriptorsOwned == Spec => []FdOwnership
<1>1. ServerInv => FdOwnership
  <2> SUFFICES ASSUME ServerInv PROVE FdOwnership
    OBVIOUS
  <2>1. \A f \in Fd : f \in fs.full <=> f = monitorfd
    BY NoFdFacts DEF ServerInv, Owned, RestOwned
  <2> QED
    BY <2>1 DEF ServerInv, Owned, PortsOwned, AdmittedOwned, RestOwned, FdOwnership
<1> QED
  BY <1>1, ServerInvariance, PTL
===============================================================================

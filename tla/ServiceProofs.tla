---------------------------- MODULE ServiceProofs -----------------------------
(***************************************************************************)
(* What the server does for its clients: every port that select() reports  *)
(* is read once and without waiting, a subscription has its pipe, the      *)
(* rights are those of the configuration, and the fan-out leaves nobody    *)
(* out.  Each part has its own inductive invariant on top of the one of    *)
(* ServerProofs.                                                           *)
(***************************************************************************)
EXTENDS ServerProofs

(* The list as a sequence of port_t with numbered positions.               *)
LEMMA ListFacts ==
    ASSUME PQInv
    PROVE  /\ pq \in Seq(Port) /\ Len(pq) \in Nat /\ DOMAIN pq = 1..Len(pq)
           /\ \A k \in DOMAIN pq : k \in Nat /\ pq[k] \in Port
           /\ \A k \in DOMAIN pq : pq[k].fd \in Fd \cup {NoFd}
           /\ \A k \in DOMAIN pq : pq[k].fd \in ps.full
           /\ ps.sel \subseteq Fd /\ ps.full \subseteq Fd \cup {NoFd}
<1>1. /\ pq \in Seq(Port) /\ Len(pq) \in Nat /\ DOMAIN pq = 1..Len(pq)
      /\ \A k \in DOMAIN pq : pq[k] \in Port
  BY LenProperties, ElementOfSeq DEF PQInv, PQTypeOK
<1>2. \A k \in DOMAIN pq : pq[k].fd \in Fd \cup {NoFd}
  BY <1>1 DEF Port
<1>3. \A k \in DOMAIN pq : pq[k].fd \in ps.full
  BY DEF PQInv, PortTable, WatchedExactly
<1>4. ps.sel \subseteq Fd /\ ps.full \subseteq Fd \cup {NoFd}
  BY DEF PQInv, PQTypeOK, ThreadFds
<1> QED
  BY <1>1, <1>2, <1>3, <1>4
-------------------------------------------------------------------------------
(* port_server's walk.  What it has read and what it has still before it   *)
(* are together, and without overlap, what select() reported.              *)
PortsWalk ==
    /\ curr > 0
    /\ Cardinality(served) = i
    /\ ps.sel = served \cup {pq[k].fd : k \in Selected}
    /\ \A k \in Selected : pq[k].fd \notin served

InPorts == {"ports", "control"}

(* The inductive invariant for ServedOnce: until port_server starts, what  *)
(* select() reported for it stays in the list.                             *)
Walk ==
    /\ pd.full \subseteq {ListenFd}
    /\ ps.selcount = Cardinality(ps.sel)
    /\ pc \in Daemon => ps.sel \subseteq ps.full
    /\ pc \in InPorts => PortsWalk
    /\ pc \notin InPorts \cup Dead => served = {}

(* What most steps leave alone.                                            *)
LEMMA WalkFrame ==
    ASSUME Walk, pd'.full = pd.full, ps'.sel = ps.sel, ps'.selcount = ps.selcount,
           ps'.full = ps.full, DOMAIN pq' = DOMAIN pq,
           \A k \in DOMAIN pq : pq'[k].fd = pq[k].fd,
           served' = served,
           \/ pc \in InPorts /\ pc' \in InPorts /\ UNCHANGED <<curr, i>>
           \/ pc' \in Dead
           \/ /\ pc \notin InPorts \cup Dead /\ pc' \notin InPorts
              /\ pc' \in Daemon => pc \in Daemon
    PROVE  Walk'
<1>1. /\ (pd.full \subseteq {ListenFd})' /\ (ps.selcount = Cardinality(ps.sel))'
      /\ (pc \in Daemon => ps.sel \subseteq ps.full)'
      /\ (pc \notin InPorts \cup Dead => served = {})'
  BY DEF Walk, InPorts, Dead, Daemon
<1>2. ASSUME pc' \in InPorts PROVE PortsWalk'
  <2>1. pc \in InPorts /\ UNCHANGED <<curr, i>> /\ PortsWalk
    BY <1>2 DEF InPorts, Dead, Walk
  <2>2. Selected' = Selected
    BY <2>1 DEF Selected
  <2>3. {pq'[k].fd : k \in Selected} = {pq[k].fd : k \in Selected}
    BY DEF Selected
  <2> QED
    BY <2>1, <2>2, <2>3 DEF PortsWalk, Selected
<1> QED
  BY <1>1, <1>2 DEF Walk

(* port_server starts with everything select() reported before it.         *)
LEMMA WalkStarts ==
    ASSUME PQInv', ps'.sel \subseteq ps'.full, curr' = 1, i' = 0, served' = {}
    PROVE  PortsWalk'
<1>1. Cardinality(served') = 0
  BY FS_EmptySet
<1>2. ASSUME NEW f \in ps'.sel PROVE \E k \in Selected' : f = pq'[k].fd
  <2>1. PICK k \in DOMAIN pq' : f = pq'[k].fd
    BY DEF PQInv, PortTable, WatchedExactly
  <2>2. k >= 1
    BY ListFacts
  <2> QED
    BY <2>1, <2>2, <1>2 DEF Selected
<1>3. ps'.sel = {pq'[k].fd : k \in Selected'}
  BY <1>2 DEF Selected
<1> QED
  BY <1>1, <1>3 DEF PortsWalk

(* select() reports to port_server, or something else comes first.         *)
LEMMA WalkDemux ==
    ASSUME ServerInv, ServerInv', Walk, pc \in {"select", "eintr"},
           NEW ready \in SUBSET mux_fds(pd, ps, fs).full, NEW selcount, Demux(ready, selcount)
    PROVE  Walk'
<1> USE DEF ServerInv, Surroundings
<1>1. PICK seen \in SUBSET ready :
         /\ SelectPorts(seen)
         /\ pd' = demux_fds(pd, seen) /\ fs' = demux_fds(fs, seen)
  <2>1. PICK count \in CountGarbage :
           LET seen == Demuxed(ready, selcount, mux_fds(pd, ps, fs).maxfd, count)
           IN  /\ SelectPorts(seen)
               /\ pd' = demux_fds(pd, seen) /\ fs' = demux_fds(fs, seen)
    BY DEF Demux
  <2>2. Demuxed(ready, selcount, mux_fds(pd, ps, fs).maxfd, count) \in SUBSET ready
    BY DEF Demuxed
  <2> QED
    BY <2>1, <2>2, Zenon
<1>2. /\ ps'.sel = seen \cap ps.full /\ ps'.full = ps.full
      /\ ps'.selcount = Cardinality(seen \cap ps.full)
  BY <1>1 DEF SelectPorts, demux_fds, PQInv, PQTypeOK, ThreadFds
<1>3. pd'.full = pd.full
  BY <1>1 DEF demux_fds, ProcessTypeOK, ThreadFds
<1>4. /\ pc' = AfterSelect(pd', ps', fs') /\ (pc' = "ports" => curr' = 1) /\ i' = 0
      /\ served' = served
  BY DEF Demux, Goto
<1>5. pc' \notin Dead /\ pc' # "control"
  BY <1>4 DEF AfterSelect, AfterDaemon, AfterPorts, Dead
<1>6. served' = {}
  BY <1>4 DEF Walk, InPorts, Dead
<1>7. pc' \in InPorts => PortsWalk'
  BY <1>2, <1>4, <1>5, <1>6, WalkStarts DEF InPorts
<1> QED
  BY <1>2, <1>3, <1>6, <1>7 DEF Walk

(* One turn of port_server's loop.                                         *)
LEMMA WalkRead ==
    ASSUME ServerInv, ServerInv', Walk, PortRead
    PROVE  Walk'
<1> USE DEF ServerInv
<1> DEFINE k == Min(Selected)
<1>1. /\ pc = "ports" /\ k \in Selected /\ k \in DOMAIN pq /\ k \in Nat
      /\ \A j \in Selected : k <= j
      /\ pq[k].fd \in Fd /\ pq[k].fd # NoFd
      /\ served' = served \cup {pq[k].fd} /\ i' = i + 1 /\ pd' = pd
      /\ Closing(k) \/ Staying(k)
  BY PortReadCases
<1> HIDE DEF k
<1>2. PortsWalk
  BY <1>1 DEF Walk, InPorts
<1>3. Cardinality(served') = i'
  <2>1. IsFiniteSet(served) /\ pq[k].fd \notin served
    BY <1>1, <1>2, PortQueueAssumption, FS_Subset DEF Surroundings, PortsWalk
  <2> QED
    BY <1>1, <1>2, <2>1, FS_AddElement DEF PortsWalk
<1>4. \A j \in Selected : pq[j].fd = pq[k].fd => j = k
  BY <1>1 DEF Selected, PQInv, PortTable, DistinctFds
<1>5. /\ ps'.sel = ps.sel /\ ps'.selcount = ps.selcount /\ pc' \in InPorts /\ curr' > 0
      /\ {pq'[j].fd : j \in Selected'} = {pq[j].fd : j \in Selected \ {k}}
  <2>1. CASE Closing(k)
    <3>1. /\ close_port(pq[k]) /\ curr' = k /\ pc' = "ports"
      BY <2>1 DEF Closing, ClosePort
    <3>2. /\ Len(pq) \in Nat /\ DOMAIN pq = 1..Len(pq) /\ DOMAIN pq' = 1..(Len(pq) - 1)
          /\ \A j \in 1..(Len(pq) - 1) : pq'[j] = IF j < k THEN pq[j] ELSE pq[j + 1]
          /\ ps'.sel = ps.sel /\ ps'.selcount = ps.selcount
      BY <1>1, <3>1, CloseShape, ListFacts
    <3>3. Selected' = {j \in DOMAIN pq' : j >= k /\ pq'[j].fd \in ps.sel}
      BY <3>1, <3>2 DEF Selected
    <3>4. ASSUME NEW j \in Selected' PROVE j + 1 \in Selected \ {k} /\ pq'[j] = pq[j + 1]
      <4>1. j \in 1..(Len(pq) - 1) /\ ~ (j < k) /\ pq'[j].fd \in ps.sel
        BY <1>1, <3>2, <3>3, <3>4
      <4>2. pq'[j] = pq[j + 1] /\ j + 1 \in DOMAIN pq /\ j + 1 > k
        BY <1>1, <3>2, <4>1
      <4>3. j + 1 >= curr
        BY <1>1, <4>1, <4>2 DEF Selected, Surroundings, ProcessTypeOK
      <4> QED
        BY <1>1, <4>1, <4>2, <4>3 DEF Selected
    <3>5. ASSUME NEW j \in Selected \ {k} PROVE j - 1 \in Selected' /\ pq'[j - 1] = pq[j]
      <4>1. j \in DOMAIN pq /\ pq[j].fd \in ps.sel /\ k <= j /\ j # k
        BY <1>1, <3>5 DEF Selected
      <4>2. j - 1 \in 1..(Len(pq) - 1) /\ ~ (j - 1 < k) /\ (j - 1) + 1 = j
        BY <1>1, <3>2, <4>1
      <4>3. pq'[j - 1] = pq[j]
        BY <3>2, <4>2
      <4> QED
        BY <1>1, <3>2, <3>3, <4>1, <4>2, <4>3
    <3>6. ASSUME NEW x \in {pq'[j].fd : j \in Selected'} PROVE x \in {pq[j].fd : j \in Selected \ {k}}
      BY <3>4, <3>6
    <3>7. ASSUME NEW x \in {pq[j].fd : j \in Selected \ {k}} PROVE x \in {pq'[j].fd : j \in Selected'}
      BY <3>5, <3>7
    <3>8. curr' > 0
      BY <1>1, <3>1, <3>2
    <3> QED
      BY <3>1, <3>2, <3>6, <3>7, <3>8 DEF InPorts
  <2>2. CASE Staying(k)
    <3>1. curr' = k + 1 /\ pc' \in InPorts
      BY <2>2 DEF Staying, InPorts
    <3>2. /\ DOMAIN pq' = DOMAIN pq /\ ps' = ps
          /\ \A j \in DOMAIN pq : pq'[j].fd = pq[j].fd
      BY <1>1, <2>2, MonitorShape DEF Staying, pqvars
    <3>3. Selected' = Selected \ {k}
      <4>1. \A j \in DOMAIN pq : j \in Nat
        BY ListFacts
      <4>2. Selected' = {j \in DOMAIN pq : j >= k + 1 /\ pq[j].fd \in ps.sel}
        BY <3>1, <3>2 DEF Selected
      <4>3. \A j \in DOMAIN pq : j >= k + 1 => j >= curr
        BY <1>1, <4>1 DEF Selected, Surroundings, ProcessTypeOK
      <4>4. \A j \in Selected : j = k \/ j >= k + 1
        BY <1>1, <4>1 DEF Selected
      <4>5. \A j \in Nat : j >= k + 1 => j # k
        BY <1>1
      <4> QED
        BY <4>1, <4>2, <4>3, <4>4, <4>5 DEF Selected
    <3>4. {pq'[j].fd : j \in Selected \ {k}} = {pq[j].fd : j \in Selected \ {k}}
      BY <3>2 DEF Selected
    <3>5. curr' > 0
      BY <1>1, <3>1
    <3>6. {pq'[j].fd : j \in Selected'} = {pq[j].fd : j \in Selected \ {k}}
      BY <3>3, <3>4
    <3> QED
      BY <3>1, <3>2, <3>5, <3>6
  <2> QED
    BY <1>1, <2>1, <2>2
<1>6. ps'.sel = served' \cup {pq'[j].fd : j \in Selected'}
  <2>1. ps.sel = served \cup {pq[j].fd : j \in Selected}
    BY <1>2 DEF PortsWalk
  <2>2. {pq[j].fd : j \in Selected} = {pq[k].fd} \cup {pq[j].fd : j \in Selected \ {k}}
    BY <1>1
  <2> QED
    BY <1>1, <1>5, <2>1, <2>2
<1>7. \A j \in Selected' : pq'[j].fd \notin served'
  <2> SUFFICES ASSUME NEW j \in Selected' PROVE pq'[j].fd \notin served'
    OBVIOUS
  <2>1. PICK l \in Selected \ {k} : pq'[j].fd = pq[l].fd
    BY <1>5
  <2> QED
    BY <1>1, <1>2, <1>4, <2>1 DEF PortsWalk
<1>8. PortsWalk'
  BY <1>3, <1>5, <1>6, <1>7 DEF PortsWalk
<1> QED
  BY <1>1, <1>5, <1>8 DEF Walk, InPorts, Daemon, Dead

(* What a reload changes in the list: FLAG_READ and FLAG_WRITE.            *)
LEMMA ReauthenticateShape ==
    ASSUME PQInv, NEW full, reauthenticate_users(full)
    PROVE  /\ DOMAIN pq' = DOMAIN pq /\ ps' = ps /\ monitorcount' = monitorcount
           /\ \A k \in DOMAIN pq :
                 /\ pq'[k].fd = pq[k].fd /\ pq'[k].conn = pq[k].conn
                 /\ pq'[k].userid = pq[k].userid
                 /\ "MONITOR" \in pq'[k].flag <=> "MONITOR" \in pq[k].flag
                 /\ "WRITE" \in pq'[k].flag <=> k \in full
<1> DEFINE flag(k) == (pq[k].flag \ {"READ", "WRITE"}) \cup Rights(k \in full)
<1>1. /\ pq' = [k \in DOMAIN pq |-> [pq[k] EXCEPT !.flag = flag(k)]]
      /\ ps' = ps /\ monitorcount' = monitorcount
  BY DEF reauthenticate_users
<1>2. ASSUME NEW k \in DOMAIN pq
      PROVE  /\ "MONITOR" \in flag(k) <=> "MONITOR" \in pq[k].flag
             /\ "WRITE" \in flag(k) <=> k \in full
  BY DEF Rights
<1> HIDE DEF flag
<1>3. ASSUME NEW k \in DOMAIN pq
      PROVE  /\ pq'[k].fd = pq[k].fd /\ pq'[k].conn = pq[k].conn
             /\ pq'[k].userid = pq[k].userid /\ pq'[k].flag = flag(k)
  <2>1. pq'[k] = [pq[k] EXCEPT !.flag = flag(k)] /\ pq[k] \in Port
    BY <1>1, ListFacts
  <2> QED
    BY <2>1 DEF Port
<1> QED
  BY <1>1, <1>2, <1>3

(* What the SIGHUP handler does, without the parsing.                      *)
LEMMA ReloadCases ==
    ASSUME Reload
    PROVE  /\ UNCHANGED <<kernelvars, clientvars, dialdvars, got, pd, fs, controlfd, s_in, fifovars>>
           /\ pc \notin Dead
           /\ \/ pc' \in Dead /\ UNCHANGED pqvars
              \/ \E file \in ConfFiles :
                    /\ ~ ParseFails(Opened(file)) /\ ~ NullUserid(Configured(Opened(file)))
                    /\ aq' = Configured(Opened(file)) /\ conf' = Opened(file)
                    /\ race' = IF pc # "auth" THEN race ELSE IF aq # {} THEN "freed" ELSE "late"
                    /\ reauthenticate_users(Accepted(Configured(Opened(file))))
                    /\ stale' = (stale \ PortConns(DOMAIN pq)) \cup Unlisted
                    /\ UNCHANGED <<curr, i>>
                    /\ pc' = pc \/ (pc = "select" /\ pc' = "eintr")
<1>1. /\ UNCHANGED <<kernelvars, clientvars, dialdvars, got, pd, fs, controlfd, s_in, fifovars>>
      /\ \E file \in ConfFiles : reread_conf(Opened(file))
  BY DEF Reload
<1>2. PICK file \in ConfFiles : reread_conf(Opened(file))
  BY <1>1
<1>3. CASE ParseFails(Opened(file))
  BY <1>1, <1>2, <1>3 DEF reread_conf, Goto, Dead
<1>4. CASE ~ ParseFails(Opened(file)) /\ NullUserid(Configured(Opened(file)))
  BY <1>1, <1>2, <1>4 DEF reread_conf, Goto, Dead
<1>5. CASE ~ ParseFails(Opened(file)) /\ ~ NullUserid(Configured(Opened(file)))
  BY <1>1, <1>2, <1>5 DEF reread_conf
<1> QED
  BY <1>3, <1>4, <1>5

(* Steps outside the two parts of the loop the walk is about.              *)
LEMMA WalkOutside ==
    ASSUME Walk, pd'.full \subseteq {ListenFd}, ps'.sel = ps.sel, ps'.selcount = ps.selcount,
           pc' \notin InPorts \cup Daemon, pc' \in Dead \/ served' = {}
    PROVE  Walk'
  BY DEF Walk

(* Every step keeps the walk.                                              *)
LEMMA WalkNext ==
    ASSUME ServerInv, ServerInv', Walk, [Next]_vars
    PROVE  Walk'
<1> USE DEF ServerInv
<1>1. CASE detach_process \/ port_daemon_init \/ fifo_server_init \/ read_conf
  <2>1. /\ pd'.full \subseteq {ListenFd} /\ UNCHANGED pqvars /\ served' = served
        /\ pc \in Booting /\ pc' \in Booting \cup {"exited", "select"}
    BY <1>1 DEF detach_process, port_daemon_init, fifo_server_init, read_conf, Goto, Booting,
                EmptyFds, Walk
  <2>2. served = {}
    BY <2>1 DEF Walk, InPorts, Dead, Booting
  <2> QED
    BY <2>1, <2>2, WalkOutside DEF pqvars, Booting, InPorts, Daemon
<1>2. CASE do_select
  <2>1. Ready \in SUBSET mux_fds(pd, ps, fs).full
    BY DEF Ready
  <2> QED
    BY <1>2, <2>1, WalkDemux DEF do_select
<1>3. CASE SelectInterrupted
  BY <1>3, WalkDemux DEF SelectInterrupted
<1>4. CASE PortRead
  BY <1>4, WalkRead
<1>5. CASE ControlWrite
  BY <1>5, WalkFrame DEF ControlWrite, pqvars, InPorts
<1>6. CASE PortsDone
  <2>1. /\ pc' \in {"fifo", "select"} /\ served' = {} /\ pd' = pd /\ ps' = ps
    BY <1>6 DEF PortsDone, Goto, AfterPorts, pqvars
  <2> QED
    BY <2>1, WalkOutside DEF Walk, InPorts, Daemon
<1>7. CASE (Accept \/ IdentRefused \/ IdentConnected \/ Greet \/ IdentReply) /\ UNCHANGED served
  <2>1. /\ pc \in Daemon /\ pc' \in Daemon \cup Dead /\ pd' = pd /\ UNCHANGED pqvars
    BY <1>7 DEF Accept, IdentRefused, IdentConnected, Greet, IdentReply, Goto, Daemon, Dead
  <2> QED
    BY <1>7, <2>1, WalkFrame DEF pqvars, Daemon, InPorts, Dead
<1>8. CASE Enqueue /\ UNCHANGED served
  <2>1. /\ pc = "enqueue" /\ pd' = pd /\ Goto(AfterDaemon(ps, fs))
    BY <1>8 DEF Enqueue
  <2>2. /\ ps'.sel = ps.sel /\ ps'.selcount = ps.selcount /\ ps.full \subseteq ps'.full
    <3>1. CASE MallocFails
      BY <1>8, <3>1 DEF Enqueue, pqvars
    <3>2. CASE ~ MallocFails
      <4>1. port_enqueue(s_in) /\ s_in \in Port
        BY <1>8, <3>2 DEF Enqueue, Surroundings, ProcessTypeOK
      <4>2. ps'.full = ps.full \cup {s_in.fd} /\ ps'.sel = ps.sel /\ ps'.selcount = ps.selcount
        BY <4>1, EnqueueShape DEF PQInv
      <4> QED
        BY <4>2
    <3> QED
      BY <3>1, <3>2
  <2>3. served' = {} /\ ps'.sel \subseteq ps'.full
    BY <1>8, <2>1, <2>2 DEF Walk, Daemon, InPorts, Dead
  <2>4. CASE pc' = "ports"
    <3>1. curr' = 1 /\ i' = 0
      BY <2>1, <2>4 DEF Goto
    <3>2. PortsWalk'
      BY <2>3, <3>1, WalkStarts
    <3> QED
      BY <2>1, <2>2, <2>3, <2>4, <3>2 DEF Walk, InPorts, Daemon
  <2>5. CASE pc' # "ports"
    <3>1. pc' \in {"fifo", "select"}
      BY <2>1, <2>5 DEF Goto, AfterDaemon, AfterPorts
    <3> QED
      BY <2>1, <2>2, <2>3, <3>1, WalkOutside DEF Walk, InPorts, Daemon
  <2> QED
    BY <2>4, <2>5
<1>9. CASE FifoStep /\ UNCHANGED <<authvars, daemonvars, served>>
  <2>1. /\ pc \in {"fifo", "fread", "fwrite"} /\ pc' \in {"fread", "fwrite", "select"} /\ pd' = pd
    BY <1>9 DEF FifoStep, FifoEnter, FifoRead, FifoWrite, FifoRoundEnd, Goto
  <2>2. ps'.sel = ps.sel /\ ps'.selcount = ps.selcount
    <3>1. CASE FifoWrite
      <4>1. NextMonitor # {} /\ (UNCHANGED pqvars \/ ClosePort(pq[Min(NextMonitor)]))
        BY <3>1 DEF FifoWrite, Fanning
      <4>2. CASE UNCHANGED pqvars
        BY <4>2 DEF pqvars
      <4>3. CASE ClosePort(pq[Min(NextMonitor)])
        <5> DEFINE k == Min(NextMonitor)
        <5>1. k \in DOMAIN pq /\ pq[k].fd # NoFd /\ close_port(pq[k])
          BY <4>1, <4>3, NextMonitorFacts DEF ClosePort
        <5> HIDE DEF k
        <5> QED
          BY <5>1, CloseShape
      <4> QED
        BY <4>1, <4>2, <4>3
    <3>2. CASE FifoEnter \/ FifoRead \/ FifoRoundEnd
      BY <3>2 DEF FifoEnter, FifoRead, FifoRoundEnd, pqvars
    <3> QED
      BY <1>9, <3>1, <3>2 DEF FifoStep
  <2> QED
    BY <1>9, <2>1, <2>2, WalkOutside DEF Walk, InPorts, Daemon, Dead
<1>10. CASE Reload /\ UNCHANGED <<daemonvars, served>>
  <2>1. pd' = pd /\ pc \notin Dead
    BY <1>10, ReloadCases
  <2>2. CASE pc' \in Dead /\ UNCHANGED pqvars
    BY <1>10, <2>1, <2>2, WalkFrame DEF pqvars
  <2>3. CASE \E full : /\ reauthenticate_users(full) /\ UNCHANGED <<curr, i>>
                       /\ pc' = pc \/ (pc = "select" /\ pc' = "eintr")
    <3>1. /\ DOMAIN pq' = DOMAIN pq /\ ps' = ps
          /\ \A k \in DOMAIN pq : pq'[k].fd = pq[k].fd
      BY <2>3, ReauthenticateShape
    <3> QED
      BY <1>10, <2>1, <2>3, <3>1, WalkFrame DEF InPorts, Daemon
  <2> QED
    BY <1>10, <2>2, <2>3, ReloadCases
<1>11. CASE sigint /\ UNCHANGED <<pqvars, worldvars, fifovars, authvars, daemonvars, served>>
  BY <1>11, WalkFrame DEF sigint, Goto, Dead, pqvars
<1>12. CASE Environment \/ UNCHANGED vars
  <2>1. UNCHANGED <<pqvars, procvars, served>>
    BY <1>12 DEF Environment, vars
  <2>2. UNCHANGED <<pq, ps, pd, pc, curr, i, served>>
    BY <2>1 DEF pqvars, procvars
  <2> QED
    BY <2>2 DEF Walk, PortsWalk, Selected
<1> QED
  BY <1>1, <1>2, <1>3, <1>4, <1>5, <1>6, <1>7, <1>8, <1>9, <1>10, <1>11, <1>12
  DEF Next, ServerStep, DaemonStep, IdentAnswered, Signal

(* Before the loop nothing was reported and nothing read.                  *)
LEMMA WalkInit == Init => Walk
<1> SUFFICES ASSUME Init PROVE Walk
  OBVIOUS
<1>1. pc = "boot" /\ served = {} /\ pd.full = {} /\ ps.sel = {} /\ ps.selcount = 0
  BY DEF Init, ProcessInit, PQInit, EmptyFds
<1>2. Cardinality(ps.sel) = 0
  BY <1>1, FS_EmptySet
<1> QED
  BY <1>1, <1>2 DEF Walk, InPorts, Daemon

(* The walk's invariant holds in every state.                              *)
THEOREM WalkInvariance == Spec => []Walk
<1>1. ServerInv /\ ServerInv' /\ Walk /\ [Next]_vars => Walk'
  BY WalkNext
<1> QED
  BY <1>1, WalkInit, ServerInvariance, PTL DEF Spec

(* port_server unlinks ports from the list it is walking and still reads   *)
(* every port select() reported, each exactly once, for every number of    *)
(* ports and every choice of those that are closed on the way.             *)
THEOREM EveryPortServedOnce == Spec => []ServedOnce
<1>1. ServerInv /\ Walk => ServedOnce
  <2> SUFFICES ASSUME ServerInv, Walk, pc = "ports"
               PROVE  Cardinality(served) = i /\ (Serving \/ served = ps.sel)
    BY DEF ServedOnce
  <2>1. PortsWalk /\ ps.selcount = Cardinality(ps.sel)
    BY DEF Walk, InPorts
  <2>2. CASE Selected = {}
    BY <2>1, <2>2 DEF PortsWalk
  <2>3. CASE ~ (i < ps.selcount)
    <3>1. ps.sel \in SUBSET Fd /\ served \subseteq ps.sel
      BY <2>1, ListFacts DEF PortsWalk, ServerInv
    <3>2. IsFiniteSet(ps.sel)
      BY <3>1, PortQueueAssumption, FS_Subset
    <3>3. IsFiniteSet(served) /\ Cardinality(served) \in Nat /\ Cardinality(ps.sel) \in Nat
      BY <3>1, <3>2, FS_Subset, FS_CardinalityType
    <3>4. /\ Cardinality(served) <= Cardinality(ps.sel)
          /\ Cardinality(ps.sel) = Cardinality(served) => ps.sel = served
      BY <3>1, <3>2, FS_Subset
    <3> QED
      BY <2>1, <2>3, <3>3, <3>4 DEF PortsWalk
  <2> QED
    BY <2>1, <2>2, <2>3 DEF PortsWalk, Serving
<1> QED
  BY <1>1, ServerInvariance, WalkInvariance, PTL
-------------------------------------------------------------------------------
(* A subscription opens the pipe if there is none, and the pipe is closed  *)
(* only when nobody is subscribed.                                         *)
LEMMA PipeNext ==
    ASSUME ServerInv, SubscribedHasPipe, [Next]_vars
    PROVE  SubscribedHasPipe'
<1> USE DEF ServerInv
<1>0. monitorcount \in Nat /\ (fs.fullcount = 0 <=> monitorfd = NoFd)
  BY DEF PQInv, PQTypeOK, Owned, RestOwned
<1>1. CASE UNCHANGED <<monitorcount, monitorfd, openFailed>>
  BY <1>1 DEF SubscribedHasPipe
<1>2. CASE PortRead
  <2> DEFINE k == Min(Selected)
  <2>1. k \in DOMAIN pq /\ pq[k].fd # NoFd /\ (Closing(k) \/ Staying(k))
    BY <1>2, PortReadCases
  <2> HIDE DEF k
  <2>2. CASE monitorcount' <= monitorcount /\ UNCHANGED <<monitorfd, openFailed>>
    <3>1. monitorcount' > 0 /\ monitorcount' \in Int => monitorcount > 0
      BY <1>0, <2>2
    <3>2. monitorcount' \in Int
      BY <1>0, <2>1 DEF Closing, ClosePort, close_port, Staying, MonitorOn, MonitorOff, pqvars
    <3> QED
      BY <2>2, <3>1, <3>2 DEF SubscribedHasPipe
  <2>3. CASE Closing(k)
    <3>1. monitorcount' <= monitorcount /\ UNCHANGED <<monitorfd, openFailed>>
      BY <1>0, <2>3 DEF Closing, ClosePort, close_port, pqvars
    <3> QED
      BY <2>2, <3>1
  <2>4. CASE MonitorOff(k) /\ UNCHANGED <<monitorfd, openFailed>>
    <3>1. monitorcount' <= monitorcount
      BY <1>0, <2>4 DEF MonitorOff, pqvars
    <3> QED
      BY <2>2, <2>4, <3>1
  <2>5. CASE UNCHANGED <<pqvars, monitorfd, openFailed>>
    BY <1>1, <2>5 DEF pqvars
  <2>6. CASE /\ MonitorOn(k)
             /\ IF "MONITOR" \notin pq[k].flag /\ fs.fullcount = 0
                THEN monitor_open
                ELSE UNCHANGED <<files, pipe, fs, monitorfd, openFailed>>
    <3>1. CASE "MONITOR" \in pq[k].flag
      BY <2>5, <2>6, <3>1 DEF MonitorOn
    <3>2. CASE "MONITOR" \notin pq[k].flag /\ fs.fullcount # 0
      BY <1>0, <2>6, <3>2 DEF SubscribedHasPipe
    <3>3. CASE "MONITOR" \notin pq[k].flag /\ fs.fullcount = 0
      <4>1. monitor_open /\ monitorfd = NoFd
        BY <1>0, <2>6, <3>3
      <4>2. openFailed' = (monitorfd' = NoFd)
        BY <4>1 DEF monitor_open
      <4> QED
        BY <4>2 DEF SubscribedHasPipe
    <3> QED
      BY <3>1, <3>2, <3>3
  <2> QED
    BY <2>1, <2>3, <2>4, <2>5, <2>6 DEF Staying
<1>3. CASE FifoEnter
  <2>1. CASE ps.fullcount = 0 \/ monitorcount = 0
    <3>1. ps.fullcount = 0 => monitorcount = 0
      <4>1. SUFFICES ASSUME ps.fullcount = 0 PROVE monitorcount = 0
        OBVIOUS
      <4>2. Len(pq) = 0 /\ DOMAIN pq = 1..Len(pq)
        BY <4>1, ListFacts DEF PQInv, PortTable, WatchedExactly
      <4>3. Monitored = {}
        BY <4>2 DEF Monitored
      <4>4. {pq[k].fd : k \in Monitored} = {}
        BY <4>3
      <4> QED
        BY <4>4, FS_EmptySet DEF PQInv, PortTable, MonitorsCounted
    <3>2. monitorcount' = 0
      BY <1>3, <2>1, <3>1 DEF FifoEnter, pqvars
    <3> QED
      BY <3>2 DEF SubscribedHasPipe
  <2>2. CASE ~ (ps.fullcount = 0 \/ monitorcount = 0)
    BY <1>1, <1>3, <2>2 DEF FifoEnter, pqvars
  <2> QED
    BY <2>1, <2>2
<1>4. CASE FifoWrite
  <2>1. UNCHANGED <<monitorfd, openFailed>> /\ (UNCHANGED pqvars \/ ClosePort(pq[Min(NextMonitor)]))
    BY <1>4 DEF FifoWrite
  <2>2. monitorcount' \in Int /\ monitorcount' <= monitorcount
    BY <1>0, <2>1 DEF ClosePort, close_port, pqvars
  <2>3. monitorcount' > 0 => monitorcount > 0
    BY <1>0, <2>2
  <2> QED
    BY <2>1, <2>3 DEF SubscribedHasPipe
<1>5. CASE Reload
  <2>1. UNCHANGED <<monitorfd, openFailed>> /\ monitorcount' = monitorcount
    BY <1>5, ReloadCases DEF fifovars, pqvars, reauthenticate_users
  <2> QED
    BY <1>1, <2>1
<1>6. CASE do_select \/ SelectInterrupted
  <2>1. UNCHANGED <<monitorfd, openFailed>> /\ monitorcount' = monitorcount
    BY <1>6 DEF do_select, SelectInterrupted, Demux, SelectPorts, fifovars
  <2> QED
    BY <1>1, <2>1
<1>7. CASE Enqueue
  <2>1. UNCHANGED <<monitorfd, openFailed>> /\ monitorcount' = monitorcount
    BY <1>7 DEF Enqueue, port_enqueue, fifovars, pqvars
  <2> QED
    BY <1>1, <2>1
<1>8. CASE detach_process \/ port_daemon_init \/ fifo_server_init \/ read_conf \/ ControlWrite
            \/ PortsDone
  BY <1>1, <1>8 DEF detach_process, port_daemon_init, fifo_server_init, read_conf, ControlWrite,
                    PortsDone, pqvars, fifovars
<1>9. CASE Accept \/ IdentRefused \/ IdentConnected \/ Greet \/ IdentReply
  BY <1>1, <1>9 DEF Accept, IdentRefused, IdentConnected, Greet, IdentReply, pqvars, fifovars
<1>10. CASE FifoRead \/ FifoRoundEnd
  BY <1>1, <1>10 DEF FifoRead, FifoRoundEnd, pqvars
<1>11. CASE UNCHANGED <<pqvars, fifovars>>
  BY <1>1, <1>11 DEF pqvars, fifovars
<1> QED
  BY <1>2, <1>3, <1>4, <1>5, <1>6, <1>7, <1>8, <1>9, <1>10, <1>11
  DEF Next, ServerStep, DaemonStep, FifoStep, IdentAnswered, Signal, Environment, vars

(* While anybody is subscribed there is a monitor pipe, unless the last    *)
(* open() of one failed.                                                   *)
THEOREM SubscribersHavePipe == Spec => []SubscribedHasPipe
<1>1. Init => SubscribedHasPipe
  BY DEF Init, PQInit, SubscribedHasPipe
<1>2. ServerInv /\ SubscribedHasPipe /\ [Next]_vars => SubscribedHasPipe'
  BY PipeNext
<1> QED
  BY <1>1, <1>2, ServerInvariance, PTL DEF Spec
-------------------------------------------------------------------------------
(* Connections.  One waits in the listen queue or is one descriptor, never *)
(* both and never two, and it has been asked for.                          *)
Separate ==
    /\ \A m, n \in DOMAIN backlog : backlog[m] = backlog[n] => m = n
    /\ \A m \in DOMAIN backlog : /\ client[backlog[m]] # "idle"
                                 /\ \A f \in Fd : files[f] # backlog[m]
    /\ \A f \in Fd : files[f] \in Conn => client[files[f]] # "idle"
    /\ \A f, g \in Fd : files[f] \in Conn /\ files[f] = files[g] => f = g

(* No connection comes in and no descriptor becomes one.                   *)
Shrinks ==
    /\ backlog' = backlog
    /\ \A f \in Fd : files'[f] \in Conn => files'[f] = files[f]
    /\ \A c \in Conn : client'[c] = "idle" => client[c] = "idle"

(* Such a step keeps the connections apart.                                *)
LEMMA ShrinksSeparate ==
    ASSUME WorldTypeOK, Separate, Shrinks
    PROVE  Separate'
<1>1. \A m \in DOMAIN backlog : backlog[m] \in Conn
  <2>1. backlog \in Seq(Conn)
    BY DEF WorldTypeOK
  <2> QED
    BY <2>1, LenProperties, ElementOfSeq
<1>2. \A f \in Fd : files[f] \in What
  BY DEF WorldTypeOK, What
<1> QED
  BY <1>1, <1>2 DEF Separate, Shrinks

(* close() of one connection.                                              *)
LEMMA CloseEffect ==
    ASSUME WorldTypeOK, NEW f \in Fd \cup {NoFd}, Close(f)
    PROVE  /\ \A g \in Fd : files'[g] = IF g = f THEN "free" ELSE files[g]
           /\ \A c \in Conn : client'[c] = "idle" => client[c] = "idle"
           /\ \A c \in Conn : (f = NoFd \/ files[f] # c) =>
                                 inbox'[c] = inbox[c] /\ client'[c] = client[c]
<1>1. \A g \in Fd : files'[g] = IF g = f THEN "free" ELSE files[g]
  BY CloseProperties
<1>2. client \in [Conn -> {"idle", "up", "down", "closed"}] /\ inbox \in [Conn -> Seq(Lines)]
  BY DEF WorldTypeOK
<1>3. CASE f # NoFd /\ files[f] \in Conn
  <2>1. /\ client' = [client EXCEPT ![files[f]] = "closed"]
        /\ inbox' = [inbox EXCEPT ![files[f]] = <<>>]
    BY <1>3 DEF Close
  <2>2. \A c \in Conn : client'[c] = IF c = files[f] THEN "closed" ELSE client[c]
    BY <1>2, <2>1
  <2>3. \A c \in Conn : c # files[f] => inbox'[c] = inbox[c]
    BY <1>2, <2>1
  <2> QED
    BY <1>1, <1>3, <2>2, <2>3
<1>4. CASE ~ (f # NoFd /\ files[f] \in Conn)
  BY <1>1, <1>4 DEF Close
<1> QED
  BY <1>3, <1>4

(* close_port's effect on descriptors and connections.                     *)
LEMMA ClosePortEffect ==
    ASSUME ServerInv, NEW k \in DOMAIN pq, pq[k].fd # NoFd, ClosePort(pq[k])
    PROVE  /\ \A g \in Fd : files'[g] = IF g = pq[k].fd THEN "free" ELSE files[g]
           /\ \A c \in Conn : client'[c] = "idle" => client[c] = "idle"
           /\ \A c \in Conn : c # pq[k].conn => inbox'[c] = inbox[c] /\ client'[c] = client[c]
<1>1. /\ pq[k].fd \in Fd /\ files[pq[k].fd] = pq[k].conn /\ Close(pq[k].fd)
  <2>1. pq[k].fd \in Fd /\ pq[k].fd \in ps.full
    BY ListFacts DEF ServerInv
  <2> QED
    BY <2>1 DEF ServerInv, Owned, PortsOwned, ClosePort
<1> QED
  BY <1>1, CloseEffect DEF ServerInv, Surroundings

(* The monitor pipe is opened on a free descriptor and closed as a pipe:   *)
(* no connection is concerned.                                             *)
LEMMA PipeEffect ==
    ASSUME ServerInv, monitor_open \/ monitor_close
    PROVE  /\ \A f \in Fd : files'[f] \in Conn => files'[f] = files[f]
           /\ \A f \in Fd : files[f] \in Conn => files'[f] = files[f]
<1>1. files \in [Fd -> What] /\ monitorfd \in Fd \cup {NoFd}
  BY DEF ServerInv, Surroundings, WorldTypeOK, What, FifoTypeOK
<1>2. CASE files' = files
  BY <1>2
<1>3. CASE files' = Install(files, Alloc(files), "pipe")
  <2> DEFINE opened == Alloc(files)
  <2>1. /\ opened \in Fd \cup {NoFd}
        /\ opened # NoFd => opened \in Fd /\ files[opened] = "free"
    BY <1>1, AllocProperties
  <2> HIDE DEF opened
  <2>2. \A g \in Fd : files'[g] = IF g = opened THEN "pipe" ELSE files[g]
    BY <1>1, <1>3, <2>1, NoFdFacts DEF Install, opened
  <2> QED
    BY <2>1, <2>2, ConnNoMark, NoFdFacts
<1>4. CASE files' = Install(files, monitorfd, "free") /\ monitorfd # NoFd
  <2>1. \A g \in Fd : files'[g] = IF g = monitorfd THEN "free" ELSE files[g]
    BY <1>1, <1>4, NoFdFacts DEF Install
  <2>2. files[monitorfd] = "pipe"
    BY <1>1, <1>4 DEF ServerInv, Owned, RestOwned
  <2> QED
    BY <2>1, <2>2, ConnNoMark
<1> QED
  BY <1>2, <1>3, <1>4 DEF monitor_open, monitor_close

(* The clients and diald: what has arrived stays, a hang-up is not undone, *)
(* and a connection enters the queue only as a new one.                    *)
LEMMA WorldEffect ==
    ASSUME WorldTypeOK, WorldStep
    PROVE  /\ \A c \in Conn : Readable(c) => inbox'[c] # <<>> \/ client'[c] = "down"
           /\ \/ Shrinks
              \/ \E c \in Conn : Connect(c)
           /\ backlog # <<>> => backlog' # <<>>
<1> USE DEF kernelvars, clientvars, dialdvars
<1>1. ASSUME NEW c \in Conn, Connect(c)
      PROVE  /\ \A d \in Conn : Readable(d) => inbox'[d] # <<>> \/ client'[d] = "down"
             /\ backlog # <<>> => backlog' # <<>>
  <2>1. \A d \in Conn : inbox'[d] = inbox[d] /\ (client[d] = "down" => client'[d] = "down")
    BY <1>1 DEF Connect, WorldTypeOK
  <2>2. backlog' = Append(backlog, c) /\ backlog \in Seq(Conn)
    BY <1>1 DEF Connect, WorldTypeOK
  <2>3. backlog' # <<>>
    BY <2>2
  <2> QED
    BY <2>1, <2>3 DEF Readable
<1>2. ASSUME NEW c \in Conn, Hangup(c)
      PROVE  /\ \A d \in Conn : Readable(d) => inbox'[d] # <<>> \/ client'[d] = "down"
             /\ Shrinks
  BY <1>2 DEF Hangup, WorldTypeOK, Readable, Shrinks
<1>3. ASSUME NEW c \in Conn, NEW l \in Line, Send(c, l)
      PROVE  /\ \A d \in Conn : Readable(d) => inbox'[d] # <<>> \/ client'[d] = "down"
             /\ Shrinks
  <2>1. client' = client /\ inbox' = [inbox EXCEPT ![c] = Append(inbox[c], l)]
    BY <1>3 DEF Send
  <2>2. inbox \in [Conn -> Seq(Lines)] /\ l \in Lines
    BY WorldAssumption DEF WorldTypeOK
  <2>3. Append(inbox[c], l) # <<>>
    <3>1. inbox[c] \in Seq(Lines)
      BY <2>2
    <3> QED
      BY <2>2, <3>1
  <2>4. \A d \in Conn : inbox[d] # <<>> => inbox'[d] # <<>>
    <3> DEFINE longer == Append(inbox[c], l)
               none == <<>>
    <3>1. inbox' = [inbox EXCEPT ![c] = longer] /\ longer # none /\ DOMAIN inbox = Conn
      BY <2>1, <2>2, <2>3
    <3> HIDE DEF longer, none
    <3>2. \A d \in Conn : inbox[d] # none => inbox'[d] # none
      BY <3>1
    <3> QED
      BY <3>2 DEF none
  <2> QED
    BY <1>3, <2>1, <2>4 DEF Readable, Shrinks, Send
<1>4. ASSUME UNCHANGED <<kernelvars, client, inbox>>
      PROVE  /\ \A d \in Conn : Readable(d) => inbox'[d] # <<>> \/ client'[d] = "down"
             /\ Shrinks
  BY <1>4 DEF Readable, Shrinks
<1>5. Shrinks => (backlog # <<>> => backlog' # <<>>)
  BY DEF Shrinks
<1>6. ASSUME NEW c \in Conn, Stall(c) \/ ReadOn(c) PROVE UNCHANGED <<kernelvars, client, inbox>>
  BY <1>6 DEF Stall, ReadOn
<1>7. ASSUME DialdAttach \/ DialdWrite \/ DialdExit PROVE UNCHANGED <<kernelvars, client, inbox>>
  BY <1>7 DEF DialdAttach, DialdWrite, DialdExit
<1> QED
  BY <1>1, <1>2, <1>3, <1>4, <1>5, <1>6, <1>7 DEF WorldStep

(* accept() takes the first connection out of the queue and puts it where  *)
(* nothing was; the descriptor of the ident query is none.                 *)
LEMMA AcceptEffect ==
    ASSUME ServerInv, Accept
    PROVE  /\ UNCHANGED <<client, inbox>>
           /\ \A g \in Fd : files[g] \in Conn => files'[g] = files[g]
           /\ \/ /\ backlog' = backlog
                 /\ \A g \in Fd : files'[g] \in Conn => files'[g] = files[g]
              \/ \E f \in Fd :
                    /\ backlog # <<>> /\ backlog' = Tail(backlog)
                    /\ files'[f] = Head(backlog) /\ s_in'.fd = f
                    /\ \A g \in Fd \ {f} : files'[g] \in Conn => files'[g] = files[g]
<1> USE DEF ServerInv, Surroundings
<1> DEFINE f == Alloc(files)
           c == IF f = NoFd THEN s_in.conn ELSE Head(backlog)
           table == Install(files, f, c)
           id == Alloc(table)
<1>1. /\ f = NoFd \/ backlog # <<>>
      /\ s_in' = [NoClient(c) EXCEPT !.fd = f]
      /\ backlog' = IF f = NoFd THEN backlog ELSE Tail(backlog)
      /\ files' = Install(table, id, "ident")
      /\ UNCHANGED <<client, inbox>>
  BY DEF Accept, clientvars
<1>2. files \in [Fd -> What] /\ backlog \in Seq(Conn)
  BY DEF WorldTypeOK, What
<1>3. /\ f \in Fd \cup {NoFd}
      /\ f # NoFd => f \in Fd /\ files[f] = "free"
  BY <1>2, AllocProperties
<1>4. f # NoFd => c \in Conn /\ c = Head(backlog)
  BY <1>1, <1>2
<1>5. s_in'.fd = f
  BY <1>1 DEF NoClient
<1> HIDE DEF f, c
<1>6. /\ table \in [Fd -> What]
      /\ \A g \in Fd : table[g] = IF g = f THEN c ELSE files[g]
  BY <1>2, <1>3, <1>4, NoFdFacts DEF Install, What
<1> HIDE DEF table
<1>7. id \in Fd \cup {NoFd} /\ (id # NoFd => id \in Fd /\ table[id] = "free")
  BY <1>6, AllocProperties
<1> HIDE DEF id
<1>8. \A g \in Fd : files'[g] = IF g = id THEN "ident" ELSE table[g]
  BY <1>1, <1>6, <1>7, NoFdFacts DEF Install
<1>9. \A g \in Fd : files[g] \in Conn => files'[g] = files[g]
  BY <1>3, <1>6, <1>7, <1>8, ConnNoMark, NoFdFacts
<1>10. \A g \in Fd \ {f} : files'[g] \in Conn => files'[g] = files[g]
  BY <1>6, <1>8, ConnNoMark
<1>11. CASE f = NoFd
  BY <1>1, <1>9, <1>10, <1>11, NoFdFacts
<1>12. CASE f # NoFd
  <2>1. files'[f] = Head(backlog)
    BY <1>3, <1>4, <1>6, <1>7, <1>8, <1>12, ConnNoMark
  <2> QED
    BY <1>1, <1>3, <1>5, <1>9, <1>10, <1>12, <2>1
<1> QED
  BY <1>11, <1>12

(* The queue without its first connection.                                 *)
LEMMA TailFacts ==
    ASSUME NEW S, NEW q \in Seq(S), q # <<>>
    PROVE  /\ Tail(q) \in Seq(S) /\ DOMAIN Tail(q) = 1..(Len(q) - 1)
           /\ Len(q) \in Nat \ {0} /\ DOMAIN q = 1..Len(q) /\ Head(q) = q[1] /\ 1 \in DOMAIN q
           /\ \A m \in DOMAIN Tail(q) : m + 1 \in DOMAIN q /\ Tail(q)[m] = q[m + 1]
<1>1. Len(q) \in Nat /\ DOMAIN q = 1..Len(q) /\ Len(q) # 0
  BY EmptySeq, LenProperties
<1>2. Tail(q) \in Seq(S) /\ Len(Tail(q)) = Len(q) - 1 /\ Head(q) = q[1]
      /\ \A m \in 1..(Len(q) - 1) : Tail(q)[m] = q[m + 1]
  BY HeadTailProperties
<1>3. DOMAIN Tail(q) = 1..(Len(q) - 1)
  BY <1>2, LenProperties
<1> QED
  BY <1>1, <1>2, <1>3

(* port_server's turn: of the connections only the one it reads is touched.*)
LEMMA ReadEffect ==
    ASSUME ServerInv, PortRead
    PROVE  /\ Shrinks
           /\ Min(Selected) \in DOMAIN pq /\ pq[Min(Selected)].fd \in Fd
           /\ \A f \in Fd : files[f] \in Conn /\ f # pq[Min(Selected)].fd => files'[f] = files[f]
           /\ \A c \in Conn : c # pq[Min(Selected)].conn =>
                                 inbox'[c] = inbox[c] /\ client'[c] = client[c]
<1> USE DEF ServerInv
<1> DEFINE k == Min(Selected)
<1>1. /\ k \in DOMAIN pq /\ pq[k].fd \in Fd /\ pq[k].fd # NoFd /\ backlog' = backlog
      /\ Closing(k) \/ Staying(k)
  BY PortReadCases
<1> HIDE DEF k
<1>2. CASE Closing(k)
  <2>1. ClosePort(pq[k])
    BY <1>2 DEF Closing
  <2>2. /\ \A g \in Fd : files'[g] = IF g = pq[k].fd THEN "free" ELSE files[g]
        /\ \A c \in Conn : client'[c] = "idle" => client[c] = "idle"
        /\ \A c \in Conn : c # pq[k].conn => inbox'[c] = inbox[c] /\ client'[c] = client[c]
    BY <1>1, <2>1, ClosePortEffect
  <2> QED
    BY <1>1, <2>2, ConnNoMark DEF Shrinks, k
<1>3. CASE Staying(k)
  <2>1. client' = client /\ \A c \in Conn : c # pq[k].conn => inbox'[c] = inbox[c]
    <3>1. inbox' = [inbox EXCEPT ![pq[k].conn] = <<>>] /\ client' = client
      BY <1>3 DEF Staying
    <3>2. inbox \in [Conn -> Seq(Lines)]
      BY DEF Surroundings, WorldTypeOK
    <3> QED
      BY <3>1, <3>2
  <2>2. \A f \in Fd : (files'[f] \in Conn \/ files[f] \in Conn) => files'[f] = files[f]
    <3>1. files' = files \/ monitor_open
      BY <1>3 DEF Staying
    <3> QED
      BY <3>1, PipeEffect
  <2> QED
    BY <1>1, <2>1, <2>2 DEF Shrinks, k
<1> QED
  BY <1>1, <1>2, <1>3

(* Every step keeps the connections apart.                                 *)
LEMMA SeparateNext ==
    ASSUME ServerInv, Separate, [Next]_vars
    PROVE  Separate'
<1> USE DEF ServerInv, Surroundings
<1>1. CASE Shrinks
  BY <1>1, ShrinksSeparate
<1>2. CASE UNCHANGED <<kernelvars, client>>
  BY <1>1, <1>2 DEF Shrinks, kernelvars
<1>3. CASE PortRead
  BY <1>1, <1>3, ReadEffect
<1>4. CASE Accept
  <2>1. backlog \in Seq(Conn)
    BY DEF WorldTypeOK
  <2>2. CASE backlog' = backlog /\ \A g \in Fd : files'[g] \in Conn => files'[g] = files[g]
    BY <1>1, <1>4, <2>2, AcceptEffect DEF Shrinks
  <2>3. ASSUME NEW f \in Fd, backlog # <<>>, backlog' = Tail(backlog), files'[f] = Head(backlog),
               \A g \in Fd \ {f} : files'[g] \in Conn => files'[g] = files[g]
        PROVE  Separate'
    <3>1. /\ files'[f] = backlog[1] /\ 1 \in DOMAIN backlog /\ client' = client
          /\ \A m \in DOMAIN backlog : m \in Nat /\ backlog[m] \in Conn
          /\ \A m \in DOMAIN backlog' : m \in Nat \ {0} /\ m + 1 \in DOMAIN backlog
                                           /\ backlog'[m] = backlog[m + 1]
      <4>1. \A m \in DOMAIN backlog : backlog[m] \in Conn
        BY <2>1, LenProperties, ElementOfSeq
      <4> QED
        BY <1>4, <2>1, <2>3, <4>1, TailFacts, AcceptEffect
    <3>2. \A m, n \in DOMAIN backlog' : backlog'[m] = backlog'[n] => m = n
      BY <3>1 DEF Separate
    <3>3. \A m \in DOMAIN backlog' : client'[backlog'[m]] # "idle"
      BY <3>1 DEF Separate
    <3>4. \A m \in DOMAIN backlog', g \in Fd : files'[g] # backlog'[m]
      <4> SUFFICES ASSUME NEW m \in DOMAIN backlog', NEW g \in Fd PROVE files'[g] # backlog'[m]
        OBVIOUS
      <4>1. m + 1 # 1
        BY <3>1
      <4> QED
        BY <2>3, <3>1, <4>1 DEF Separate
    <3>5. \A g \in Fd : files'[g] \in Conn => client'[files'[g]] # "idle"
      BY <2>3, <3>1 DEF Separate
    <3>6. \A g, h \in Fd : files'[g] \in Conn /\ files'[g] = files'[h] => g = h
      BY <2>3, <3>1 DEF Separate
    <3> QED
      BY <3>2, <3>3, <3>4, <3>5, <3>6 DEF Separate
  <2> QED
    BY <1>4, <2>2, <2>3, AcceptEffect
<1>5. CASE IdentReply
  <2>1. /\ files' = Install(files, s_ident, "free") /\ backlog' = backlog /\ client' = client
        /\ files \in [Fd -> What] /\ s_ident \in Fd \cup {NoFd} /\ "free" \in What
    BY <1>5 DEF IdentReply, clientvars, WorldTypeOK, DaemonTypeOK, What
  <2>2. \A g \in Fd : files'[g] = IF g = s_ident THEN "free" ELSE files[g]
    BY <2>1, NoFdFacts DEF Install
  <2> QED
    BY <1>1, <2>1, <2>2, ConnNoMark DEF Shrinks
<1>6. CASE Enqueue
  <2>1. backlog' = backlog /\ (Close(s_in.fd) \/ UNCHANGED <<files, client>>)
    BY <1>6 DEF Enqueue
  <2>2. CASE Close(s_in.fd)
    <3>1. s_in.fd \in Fd \cup {NoFd}
      BY DEF ProcessTypeOK, Port
    <3> QED
      BY <1>1, <2>1, <2>2, <3>1, CloseEffect, ConnNoMark DEF Shrinks
  <2> QED
    BY <1>2, <2>1, <2>2 DEF kernelvars
<1>7. CASE FifoEnter
  <2>1. backlog' = backlog /\ client' = client /\ (monitor_close \/ files' = files)
    BY <1>7 DEF FifoEnter, clientvars
  <2> QED
    BY <1>1, <2>1, PipeEffect DEF Shrinks
<1>8. CASE FifoWrite
  <2>1. /\ backlog' = backlog /\ NextMonitor # {}
        /\ UNCHANGED <<files, client>> \/ ClosePort(pq[Min(NextMonitor)])
    BY <1>8 DEF FifoWrite, Fanning
  <2>2. CASE ClosePort(pq[Min(NextMonitor)])
    <3> DEFINE k == Min(NextMonitor)
    <3>1. k \in DOMAIN pq /\ pq[k].fd # NoFd /\ ClosePort(pq[k])
      BY <2>1, <2>2, NextMonitorFacts
    <3> HIDE DEF k
    <3> QED
      BY <1>1, <2>1, <3>1, ClosePortEffect, ConnNoMark DEF Shrinks
  <2> QED
    BY <1>2, <2>1, <2>2 DEF kernelvars
<1>9. CASE Environment
  <2>1. CASE Shrinks
    BY <1>1, <2>1
  <2>2. ASSUME NEW c \in Conn, Connect(c) PROVE Separate'
    <3>1. /\ client[c] = "idle" /\ client' = [client EXCEPT ![c] = "up"] /\ files' = files
          /\ backlog' = Append(backlog, c)
          /\ client \in [Conn -> {"idle", "up", "down", "closed"}] /\ backlog \in Seq(Conn)
      BY <2>2 DEF Connect, WorldTypeOK
    <3>2. \A d \in Conn : client'[d] = IF d = c THEN "up" ELSE client[d]
      BY <3>1
    <3>3. /\ DOMAIN backlog = 1..Len(backlog) /\ Len(backlog) \in Nat
          /\ DOMAIN backlog' = 1..(Len(backlog) + 1)
          /\ \A m \in DOMAIN backlog : backlog'[m] = backlog[m] /\ backlog[m] \in Conn
          /\ backlog'[Len(backlog) + 1] = c
      <4>1. /\ DOMAIN backlog = 1..Len(backlog) /\ Len(backlog) \in Nat
            /\ \A m \in DOMAIN backlog : backlog[m] \in Conn
        BY <3>1, LenProperties, ElementOfSeq
      <4> QED
        BY <3>1, <4>1, AppendProperties
    <3>4. \A m \in DOMAIN backlog' : m \in DOMAIN backlog \/ m = Len(backlog) + 1
      BY <3>3
    <3>5. \A m \in DOMAIN backlog : backlog[m] # c
      BY <3>1 DEF Separate
    <3>6. \A f \in Fd : files[f] # c
      BY <3>1 DEF Separate
    <3>7. \A m, n \in DOMAIN backlog' : backlog'[m] = backlog'[n] => m = n
      BY <3>3, <3>4, <3>5 DEF Separate
    <3>8. \A m \in DOMAIN backlog' : /\ client'[backlog'[m]] # "idle"
                                     /\ \A f \in Fd : files'[f] # backlog'[m]
      BY <3>1, <3>2, <3>3, <3>4, <3>5, <3>6 DEF Separate
    <3>9. \A f \in Fd : files'[f] \in Conn => client'[files'[f]] # "idle"
      BY <3>1, <3>2 DEF Separate
    <3> QED
      BY <3>1, <3>7, <3>8, <3>9 DEF Separate
  <2> QED
    BY <1>9, <2>1, <2>2, WorldEffect DEF Environment
<1>10. CASE Reload
  BY <1>2, <1>10, ReloadCases DEF clientvars
<1>11. CASE detach_process \/ port_daemon_init \/ fifo_server_init \/ read_conf \/ do_select
             \/ SelectInterrupted \/ ControlWrite \/ PortsDone
  BY <1>2, <1>11 DEF detach_process, port_daemon_init, fifo_server_init, read_conf, do_select,
                     SelectInterrupted, Demux, ControlWrite, PortsDone, worldvars, clientvars
<1>12. CASE IdentRefused \/ IdentConnected \/ Greet \/ FifoRead \/ FifoRoundEnd
  BY <1>2, <1>12 DEF IdentRefused, IdentConnected, Greet, FifoRead, FifoRoundEnd, worldvars,
                     clientvars
<1>13. CASE UNCHANGED worldvars
  BY <1>2, <1>13 DEF worldvars, clientvars
<1> QED
  BY <1>3, <1>4, <1>5, <1>6, <1>7, <1>8, <1>9, <1>10, <1>11, <1>12, <1>13
  DEF Next, ServerStep, DaemonStep, FifoStep, IdentAnswered, Signal, vars

(* Connections stay apart in every state.                                  *)
LEMMA SeparateInvariance == Spec => []Separate
<1>1. Init => Separate
  BY ConnNoMark DEF Init, WorldInit, Separate
<1>2. ServerInv /\ Separate /\ [Next]_vars => Separate'
  BY SeparateNext
<1> QED
  BY <1>1, <1>2, ServerInvariance, PTL DEF Spec
-------------------------------------------------------------------------------
(* The inductive invariant for ReadsDontBlock: between select() and the    *)
(* end of port_server, what was reported and is not yet served can still   *)
(* be read, and the connection accept() was promised is still there.       *)
Reported ==
    /\ pc = "accept" => backlog # <<>>
    /\ pc \in Daemon \cup InPorts => \A f \in ps.sel \ served : Readable(files[f])

(* What is not yet served belongs to listed clients.                       *)
LEMMA UnservedListed ==
    ASSUME ServerInv, Walk, pc \in Daemon \cup InPorts, NEW f \in ps.sel \ served
    PROVE  /\ f \in Fd /\ f \in ps.full /\ files[f] \in Conn
           /\ \E k \in DOMAIN pq : pq[k].fd = f /\ pq[k].conn = files[f]
<1> USE DEF ServerInv
<1>1. f \in Fd /\ f # NoFd
  BY ListFacts, NoFdFacts
<1>2. PICK k \in DOMAIN pq : pq[k].fd = f
  <2>1. CASE pc \in Daemon
    BY <2>1 DEF Walk, PQInv, PortTable, WatchedExactly
  <2>2. CASE pc \in InPorts
    BY <2>2 DEF Walk, PortsWalk, Selected
  <2> QED
    BY <2>1, <2>2
<1> QED
  BY <1>1, <1>2, ListFacts DEF Owned, PortsOwned

(* A step that leaves the unserved connections as they are.                *)
LEMMA ReportedFrame ==
    ASSUME ServerInv, Walk, Reported,
           pc \in Daemon \cup InPorts, pc' # "accept", ps'.sel = ps.sel, served \subseteq served',
           \A f \in ps.sel \ served' :
              files[f] \in Conn => /\ files'[f] = files[f]
                                   /\ inbox'[files[f]] = inbox[files[f]]
                                   /\ client'[files[f]] = client[files[f]]
    PROVE  Reported'
<1>1. SUFFICES ASSUME NEW f \in ps.sel \ served' PROVE Readable(files[f])'
  BY DEF Reported
<1>2. f \in ps.sel \ served
  BY <1>1
<1>3. files[f] \in Conn /\ Readable(files[f])
  BY <1>2, UnservedListed DEF Reported
<1> QED
  BY <1>1, <1>3 DEF Readable

(* After select() has returned with what it found ready.                   *)
LEMMA ReportedSelect ==
    ASSUME ServerInv, Walk, do_select
    PROVE  Reported'
<1> USE DEF ServerInv, Surroundings
<1>1. PICK seen \in SUBSET Ready :
         /\ SelectPorts(seen)
         /\ pd' = demux_fds(pd, seen) /\ fs' = demux_fds(fs, seen)
  <2> DEFINE visited(count) == Demuxed(Ready, Cardinality(Ready), mux_fds(pd, ps, fs).maxfd, count)
  <2>1. PICK count \in CountGarbage :
           /\ SelectPorts(visited(count))
           /\ pd' = demux_fds(pd, visited(count)) /\ fs' = demux_fds(fs, visited(count))
    BY DEF do_select, Demux
  <2>2. visited(count) \in SUBSET Ready
    BY DEF Demuxed
  <2> HIDE DEF visited
  <2> QED
    BY <2>1, <2>2, Zenon
<1>2. /\ ps'.sel = seen \cap ps.full
      /\ pd'.selcount = Cardinality(seen \cap pd.full)
  BY <1>1 DEF SelectPorts, demux_fds, PQInv, PQTypeOK, ProcessTypeOK, ThreadFds
<1>3. UNCHANGED <<worldvars, served>> /\ pc' = AfterSelect(pd', ps', fs')
  BY DEF do_select, Demux, Goto
<1>4. UNCHANGED <<files, backlog, inbox, client>>
  BY <1>3 DEF worldvars, kernelvars, clientvars
<1>5. ASSUME pc' = "accept" PROVE backlog # <<>>
  <2>1. pd'.selcount # 0
    BY <1>3, <1>5 DEF AfterSelect, AfterDaemon, AfterPorts
  <2>2. seen \cap pd.full # {}
    BY <1>2, <2>1, FS_EmptySet
  <2>3. ListenFd \in Ready
    BY <2>2 DEF Walk
  <2> QED
    BY <2>3 DEF Ready
<1>6. ASSUME NEW f \in ps'.sel PROVE Readable(files[f])
  <2>1. f \in ps.full /\ f \in Ready /\ f # ListenFd /\ f # NoFd /\ f \in Fd
    <3>1. f \in ps.full /\ f \in Ready /\ f \in mux_fds(pd, ps, fs).full
      BY <1>2, <1>6 DEF Ready
    <3>2. f \in Fd
      BY <3>1, MuxTypes, ListFacts, NoFdFacts, ProcessAssumption DEF PQInv, NoFd
    <3> QED
      BY <3>1, <3>2, NoFdFacts, ProcessAssumption
  <2>2. PICK k \in DOMAIN pq : pq[k].fd = f
    BY <2>1 DEF PQInv, PortTable, WatchedExactly
  <2>3. files[f] \in Conn
    BY <2>1, <2>2 DEF Owned, PortsOwned
  <2> QED
    BY <2>1, <2>3, ConnNoMark DEF Ready
<1> QED
  BY <1>4, <1>5, <1>6 DEF Reported, Readable

(* After a signal: unless demux_fds is misled it visits nothing.           *)
LEMMA ReportedInterrupted ==
    ASSUME ServerInv, Walk, SelectInterrupted, ~ misled'
    PROVE  Reported'
<1> USE DEF ServerInv, Surroundings
<1> DEFINE all == mux_fds(pd, ps, fs).full
           top == mux_fds(pd, ps, fs).maxfd
<1>1. PICK count \in CountGarbage :
         /\ SelectPorts(Demuxed(all, -1, top, count))
         /\ pd' = demux_fds(pd, Demuxed(all, -1, top, count))
         /\ misled' = (-1 < 0 /\ Demuxed(all, -1, top, count) # {})
  BY DEF SelectInterrupted, Demux
<1>3. pc' = AfterSelect(pd', ps', fs')
  BY DEF SelectInterrupted, Demux, Goto
<1> HIDE DEF all, top
<1>4. Demuxed(all, -1, top, count) = {}
  <2>1. -1 < 0
    OBVIOUS
  <2> QED
    BY <1>1, <2>1, Zenon
<1>5. ps'.sel = {} /\ pd'.selcount = 0
  BY <1>1, <1>4, FS_EmptySet DEF SelectPorts, demux_fds, PQInv, PQTypeOK, ProcessTypeOK, ThreadFds
<1> QED
  BY <1>3, <1>5 DEF Reported, AfterSelect, AfterDaemon, AfterPorts

(* Every other step keeps what was reported readable.                      *)
LEMMA ReportedStep ==
    ASSUME ServerInv, ServerInv', Walk, Walk', Separate, Reported, [Next]_vars,
           ~ do_select, ~ SelectInterrupted
    PROVE  Reported'
<1> USE DEF ServerInv, Surroundings
<1>1. CASE pc' \notin Daemon \cup InPorts
  BY <1>1 DEF Reported, Daemon
<1>3. CASE PortRead
  <2> DEFINE k == Min(Selected)
  <2>1. /\ pc = "ports" /\ k \in Selected /\ k \in DOMAIN pq /\ pq[k].fd \in Fd /\ pq[k].fd # NoFd
        /\ pq[k].conn \in Conn /\ files[pq[k].fd] = pq[k].conn
        /\ served' = served \cup {pq[k].fd} /\ (Closing(k) \/ Staying(k))
    BY <1>3, PortReadCases
  <2>2. /\ \A f \in Fd : files[f] \in Conn /\ f # pq[k].fd => files'[f] = files[f]
        /\ \A c \in Conn : c # pq[k].conn => inbox'[c] = inbox[c] /\ client'[c] = client[c]
    BY <1>3, ReadEffect
  <2> HIDE DEF k
  <2>3. ps'.sel = ps.sel
    <3>1. CASE Closing(k)
      BY <2>1, <3>1, CloseShape DEF Closing, ClosePort
    <3>2. CASE Staying(k)
      BY <2>1, <3>2, MonitorShape DEF Staying, pqvars
    <3> QED
      BY <2>1, <3>1, <3>2
  <2>4. ASSUME NEW f \in ps.sel \ served', files[f] \in Conn
        PROVE  /\ files'[f] = files[f] /\ inbox'[files[f]] = inbox[files[f]]
               /\ client'[files[f]] = client[files[f]]
    <3>1. f \in Fd /\ f # pq[k].fd
      BY <2>1, <2>4, ListFacts
    <3>2. files[f] # pq[k].conn
      BY <2>1, <2>4, <3>1 DEF Separate
    <3> QED
      BY <2>2, <2>4, <3>1, <3>2
  <2>5. pc' # "accept"
    BY <2>1 DEF Closing, Staying
  <2> QED
    BY <2>1, <2>3, <2>4, <2>5, ReportedFrame DEF InPorts
<1>4. CASE (Accept \/ IdentRefused \/ IdentConnected \/ Greet \/ IdentReply) /\ UNCHANGED served
  <2>1. /\ pc \in Daemon /\ pc' # "accept" /\ ps' = ps /\ UNCHANGED <<client, inbox, served>>
    BY <1>4 DEF Accept, IdentRefused, IdentConnected, Greet, IdentReply, Goto, Daemon, pqvars,
                worldvars, clientvars
  <2>2. \A f \in Fd : files[f] \in Conn => files'[f] = files[f]
    <3>1. CASE Accept
      BY <3>1, AcceptEffect
    <3>2. CASE IdentReply
      <4>1. /\ files' = Install(files, s_ident, "free") /\ files \in [Fd -> What]
            /\ s_ident \in Fd \cup {NoFd} /\ (s_ident # NoFd => files[s_ident] = "ident")
        BY <3>2 DEF IdentReply, WorldTypeOK, DaemonTypeOK, What, Owned, RestOwned, AdmittedOwned
      <4> QED
        BY <4>1, NoFdFacts, ConnNoMark DEF Install
    <3>3. CASE IdentRefused \/ IdentConnected \/ Greet
      BY <3>3 DEF IdentRefused, IdentConnected, Greet, worldvars, kernelvars
    <3> QED
      BY <1>4, <3>1, <3>2, <3>3
  <2>3. \A f \in ps.sel : f \in Fd
    BY ListFacts
  <2> QED
    BY <2>1, <2>2, <2>3, ReportedFrame
<1>5. CASE Enqueue /\ UNCHANGED served
  <2>1. /\ pc = "enqueue" /\ pc' # "accept" /\ s_in.fd \in Fd \cup {NoFd}
    BY <1>5 DEF Enqueue, Goto, AfterDaemon, AfterPorts, ProcessTypeOK, Port
  <2>2. CASE MallocFails
    <3>1. Close(s_in.fd) /\ ps' = ps
      BY <1>5, <2>2 DEF Enqueue, pqvars
    <3>2. ASSUME NEW f \in ps.sel \ served', files[f] \in Conn
          PROVE  /\ files'[f] = files[f] /\ inbox'[files[f]] = inbox[files[f]]
                 /\ client'[files[f]] = client[files[f]]
      <4>1. f \in Fd /\ f \in ps.full
        BY <1>5, <2>1, <3>2, UnservedListed DEF Daemon
      <4>2. f # s_in.fd
        BY <4>1, NoFdFacts DEF Owned, AdmittedOwned
      <4>3. s_in.fd = NoFd \/ files[s_in.fd] # files[f]
        BY <2>1, <3>2, <4>1, <4>2 DEF Separate
      <4> QED
        BY <2>1, <3>1, <3>2, <4>1, <4>2, <4>3, CloseEffect
    <3> QED
      BY <1>5, <2>1, <3>1, <3>2, ReportedFrame DEF Daemon
  <2>3. CASE ~ MallocFails
    <3>1. port_enqueue(s_in) /\ s_in \in Port /\ UNCHANGED <<files, client, inbox>>
      BY <1>5, <2>3 DEF Enqueue, ProcessTypeOK
    <3>2. ps'.sel = ps.sel
      BY <3>1, EnqueueShape DEF PQInv
    <3> QED
      BY <1>5, <2>1, <3>1, <3>2, ReportedFrame DEF Daemon
  <2> QED
    BY <2>2, <2>3
<1>6. CASE ControlWrite
  BY <1>6, ReportedFrame DEF ControlWrite, InPorts, pqvars, worldvars, kernelvars, clientvars
<1>7. CASE Reload /\ UNCHANGED <<daemonvars, served>>
  <2>1. UNCHANGED <<files, backlog, client, inbox, served>>
    BY <1>7, ReloadCases DEF kernelvars, clientvars
  <2>2. CASE pc' = pc /\ ps' = ps
    BY <2>1, <2>2 DEF Reported, Readable
  <2>3. CASE pc' = "eintr" \/ pc' \in Dead
    BY <1>1, <2>3 DEF Daemon, InPorts, Dead
  <2> QED
    BY <1>7, <2>2, <2>3, ReloadCases DEF reauthenticate_users
<1>8. CASE Environment
  <2>1. WorldStep /\ UNCHANGED <<pc, ps, served>>
    BY <1>8 DEF Environment, procvars, pqvars
  <2>2. files' = files
    BY <2>1, WorldStepTypes
  <2>3. /\ \A c \in Conn : Readable(c) => inbox'[c] # <<>> \/ client'[c] = "down"
        /\ backlog # <<>> => backlog' # <<>>
    BY <2>1, WorldEffect
  <2>4. ASSUME pc \in Daemon \cup InPorts, NEW f \in ps.sel \ served
        PROVE  inbox'[files[f]] # <<>> \/ client'[files[f]] = "down"
    BY <2>3, <2>4, UnservedListed DEF Reported
  <2> QED
    BY <2>1, <2>2, <2>3, <2>4 DEF Reported, Readable
<1>9. CASE UNCHANGED vars
  <2>1. UNCHANGED <<pc, ps, served, files, backlog, client, inbox>>
    BY <1>9 DEF vars, pqvars, procvars, worldvars, kernelvars, clientvars
  <2> QED
    BY <2>1 DEF Reported, Readable
<1>10. CASE detach_process \/ port_daemon_init \/ fifo_server_init \/ read_conf \/ PortsDone \/ sigint
  BY <1>1, <1>10 DEF detach_process, port_daemon_init, fifo_server_init, read_conf, PortsDone, sigint,
                     Goto, AfterPorts, Daemon, InPorts
<1>11. CASE FifoStep
  BY <1>1, <1>11 DEF FifoStep, FifoEnter, FifoRead, FifoWrite, FifoRoundEnd, Goto, Daemon, InPorts
<1> QED
  BY <1>3, <1>4, <1>5, <1>6, <1>7, <1>8, <1>9, <1>10, <1>11
  DEF Next, ServerStep, DaemonStep, IdentAnswered, Signal

(* Unless demux_fds is misled, what it hands out can be read.              *)
LEMMA ReportedNext ==
    ASSUME ServerInv, ServerInv', Walk, Walk', Separate, ~ misled => Reported, [Next]_vars,
           ~ misled'
    PROVE  Reported'
<1>1. CASE do_select
  BY <1>1, ReportedSelect
<1>2. CASE SelectInterrupted
  BY <1>2, ReportedInterrupted
<1>3. CASE ~ do_select /\ ~ SelectInterrupted
  BY <1>3, MisledKept, ReportedStep
<1> QED
  BY <1>1, <1>2, <1>3

(* Nothing the server does or meets between select() and the read() or     *)
(* accept() makes what select() reported untrue, for every number of       *)
(* clients and descriptors, wherever the signals come and whatever value   *)
(* the uninitialised count has; what an interrupted select() leaves in its *)
(* argument is not what it reported, and excepted.                         *)
THEOREM ReadsNeverBlock == Spec => []ReadsDontBlock
<1> DEFINE Inv == ~ misled => Reported
<1>1. Init => Inv
  BY DEF Init, ProcessInit, Reported, Daemon, InPorts
<1>2. ServerInv /\ ServerInv' /\ Walk /\ Walk' /\ Separate /\ Inv /\ [Next]_vars => Inv'
  BY ReportedNext
<1>3. Walk /\ Inv => ReadsDontBlock
  <2> SUFFICES ASSUME Walk, Reported, pc = "ports", NEW k \in Selected
               PROVE  Readable(files[pq[k].fd])
    BY DEF Reported, ReadsDontBlock
  <2>1. pq[k].fd \in ps.sel \ served
    BY DEF Walk, PortsWalk, InPorts, Selected
  <2> QED
    BY <2>1 DEF Reported, InPorts
<1> QED
  BY <1>1, <1>2, <1>3, ServerInvariance, WalkInvariance, SeparateInvariance, PTL DEF Spec
-------------------------------------------------------------------------------
(* Rights.  What the ident host told of a client, if it was asked, is what *)
(* the server keeps as its userid.                                         *)
Identified(p) ==
    \/ p.userid = NoUser /\ ident[p.conn] = <<>>
    \/ ident[p.conn] \in Idents /\ p.userid = reap_userid(ident[p.conn])

(* Ident hosts that keep to RFC 1413: an answer with a fourth field is of  *)
(* the type USERID.  reap_userid does not look at the type.                *)
IdentHostsConform == \A a \in Idents : Len(a) = 4 => a[2] = "USERID"

(* What a file grants to a client of which the ident host says answer.     *)
Granted(file, answer, c) ==
    /\ file # NoConf /\ Len(answer) = 4 /\ answer[2] = "USERID"
    /\ \E k \in DOMAIN file :
          /\ file[k] # BlankLine /\ file[k][1] = answer[4]
          /\ \A b \in file[k][3] : b \in Address[c] <=> b \in file[k][2]

(* The name after the third colon is one word exactly if there are four    *)
(* fields, and it is the fourth.                                           *)
LEMMA ReapedName ==
    ASSUME NEW a \in Idents, NEW n
    PROVE  reap_userid(a) = <<n>> <=> Len(a) = 4 /\ a[4] = n
<1> DEFINE S == ToSet(a)
<1>1. a \in Seq(S)
  BY PortDaemonAssumption
<1> HIDE DEF S
<1>2. Len(a) \in Nat /\ DOMAIN a = 1..Len(a)
  BY <1>1
<1> DEFINE r == SubSeq(a, 4, Len(a))
<1>3. /\ Len(r) = IF 4 <= Len(a) THEN Len(a) - 4 + 1 ELSE 0
      /\ \A j \in 1..(Len(a) - 4 + 1) : r[j] = a[4 + j - 1]
      /\ r \in Seq(S)
  <2>1. CASE 4 <= Len(a)
    <3>1. \A j \in 4..Len(a) : a[j] \in S
      BY <1>1, <1>2, ElementOfSeq
    <3> QED
      BY <1>1, <1>2, <2>1, <3>1, SubSeqProperties
  <2>2. CASE ~ (4 <= Len(a))
    BY <1>1, <1>2, <2>2, SubSeqProperties
  <2> QED
    BY <2>1, <2>2
<1> HIDE DEF r
<1>4. ASSUME r = <<n>> PROVE Len(a) = 4 /\ a[4] = n
  <2>1. Len(r) = 1 /\ r[1] = n
    BY <1>4
  <2>2. Len(a) = 4
    <3>1. Len(r) = IF 4 <= Len(a) THEN Len(a) - 4 + 1 ELSE 0
      BY <1>3
    <3>2. Len(r) = 1
      BY <2>1
    <3>3. \A x \in Nat : (IF 4 <= x THEN x - 4 + 1 ELSE 0) = 1 => x = 4
      OBVIOUS
    <3> DEFINE x == Len(a)
    <3>4. x \in Nat /\ (IF 4 <= x THEN x - 4 + 1 ELSE 0) = 1
      BY <1>2, <3>1, <3>2, Zenon
    <3> HIDE DEF x
    <3>5. x = 4
      BY <3>3, <3>4
    <3> QED
      BY <3>5 DEF x
  <2>3. r[1] = a[4]
    BY <1>3, <2>2
  <2> QED
    BY <2>1, <2>2, <2>3
<1>5. ASSUME Len(a) = 4, a[4] = n PROVE r = <<n>>
  <2>1. Len(r) = 1 /\ r[1] = n
    BY <1>3, <1>5
  <2>2. n \in S /\ <<n>> \in Seq(S)
    <3>1. n \in S
      <4>1. 4 \in 1..Len(a)
        BY <1>5
      <4> QED
        BY <1>1, <1>5, <4>1, ElementOfSeq
    <3> QED
      BY <3>1
  <2>3. Len(<<n>>) = 1 /\ <<n>>[1] = n
    OBVIOUS
  <2>4. \A j \in 1..Len(r) : r[j] = <<n>>[j]
    BY <2>1, <2>3
  <2> QED
    BY <1>3, <2>1, <2>2, <2>3, <2>4, SeqEqual
<1> QED
  BY <1>4, <1>5 DEF reap_userid, r

(* The address agrees with an entry: the code's comparison of the masked   *)
(* addresses, and bit by bit.                                              *)
LEMMA MaskedAddress ==
    ASSUME NEW x, NEW ip, NEW mask
    PROVE  x \cap mask = ip \cap mask <=> \A b \in mask : b \in x <=> b \in ip
<1>1. ASSUME x \cap mask = ip \cap mask, NEW b \in mask PROVE b \in x <=> b \in ip
  BY <1>1
<1>2. ASSUME \A b \in mask : b \in x <=> b \in ip PROVE x \cap mask = ip \cap mask
  BY <1>2
<1> QED
  BY <1>1, <1>2

(* auth_check over the list the grammar builds from a file is what the     *)
(* file grants.                                                            *)
LEMMA CheckGrants ==
    ASSUME NEW file, ~ ParseFails(file), NEW a \in Idents, NEW c, IdentHostsConform
    PROVE  auth_check(Configured(file), reap_userid(a), c) <=> Granted(file, a, c)
<1>1. CASE file = NoConf
  BY <1>1 DEF auth_check, Configured, Granted
<1>2. CASE file # NoConf
  <2> DEFINE agrees(k) == auth_add(file[k]).userid = reap_userid(a)
                            /\ Address[c] \cap auth_add(file[k]).netmask = auth_add(file[k]).ip
             granted(k) == /\ file[k][1] = a[4]
                           /\ \A b \in file[k][3] : b \in Address[c] <=> b \in file[k][2]
  <2>1. auth_check(Configured(file), reap_userid(a), c)
          <=> \E k \in DOMAIN file : file[k] # BlankLine /\ agrees(k)
    BY <1>2 DEF auth_check, Configured
  <2>2. ASSUME NEW k \in DOMAIN file
        PROVE  agrees(k) <=> Len(a) = 4 /\ granted(k)
    <3>1. /\ auth_add(file[k]).userid = <<file[k][1]>> /\ auth_add(file[k]).netmask = file[k][3]
          /\ auth_add(file[k]).ip = file[k][2] \cap file[k][3]
      BY DEF auth_add
    <3>2. reap_userid(a) = <<file[k][1]>> <=> Len(a) = 4 /\ a[4] = file[k][1]
      BY ReapedName
    <3>3. Address[c] \cap file[k][3] = file[k][2] \cap file[k][3]
            <=> \A b \in file[k][3] : b \in Address[c] <=> b \in file[k][2]
      BY MaskedAddress
    <3> QED
      BY <3>1, <3>2, <3>3
  <2>3. Granted(file, a, c)
          <=> Len(a) = 4 /\ \E k \in DOMAIN file : file[k] # BlankLine /\ granted(k)
    BY <1>2 DEF Granted, IdentHostsConform
  <2> HIDE DEF agrees, granted
  <2> QED
    BY <2>1, <2>2, <2>3
<1> QED
  BY <1>1, <1>2

(* No ident host has been asked about a client before it is accepted.      *)
Fresh ==
    /\ \A c \in Conn : client[c] = "idle" => ident[c] = <<>>
    /\ \A m \in DOMAIN backlog : ident[backlog[m]] = <<>>

(* Listed clients: none before the configuration was read; the rights are  *)
(* those of the file unless a reload has passed the client by.             *)
ListedRights ==
    /\ pc \in Booting => pq = <<>>
    /\ \A k \in DOMAIN pq : pq[k].fd # NoFd =>
          Identified(pq[k]) /\ (pq[k].conn \in stale \/ UpToDate(k))

(* The client being admitted.  An ident host is only asked about a client  *)
(* that accept() returned: without a descriptor there is none for ident.   *)
AdmittedRights ==
    /\ race # "none" => pc = "auth"
    /\ pc = "reply" \/ (pc = "connect" /\ s_ident # NoFd) => s_in.fd # NoFd
    /\ s_in.fd # NoFd =>
          /\ pc \in {"connect", "reply"} => ident[s_in.conn] = <<>>
          /\ pc \in {"auth", "enqueue"} => Identified(s_in)
          /\ pc = "auth" /\ race # "none" => s_in.conn \in stale
          /\ pc = "enqueue" => \/ s_in.conn \in stale
                               \/ "WRITE" \in s_in.flag <=> Entitled(s_in.conn)

(* The list of entries is that of the file last read.                      *)
InForce == aq = Configured(conf) /\ ~ ParseFails(conf)

(* The inductive invariant for RightsCurrent and CommandsAuthorised.       *)
Authorised == pc \notin Dead => InForce /\ Fresh /\ ListedRights /\ AdmittedRights

(* auth_check of a client whose ident is known.                            *)
LEMMA CheckedRights ==
    ASSUME IdentHostsConform, NEW file \in ConfFiles \cup {NoConf}, ~ ParseFails(file),
           NEW p \in Port, Identified(p)
    PROVE  auth_check(Configured(file), p.userid, p.conn) <=> Granted(file, ident[p.conn], p.conn)
<1>1. CASE p.userid = NoUser /\ ident[p.conn] = <<>>
  <2>1. Configured(file) \in SUBSET Entry
    <3>1. CASE file = NoConf
      BY <3>1 DEF Configured
    <3>2. CASE file # NoConf
      <4> SUFFICES ASSUME NEW k \in DOMAIN file, file[k] # BlankLine PROVE auth_add(file[k]) \in Entry
        BY <3>2 DEF Configured
      <4>1. file[k] \in Name \X (SUBSET Bit) \X (SUBSET Bit)
        BY <3>2 DEF ParseFails, EntryLine
      <4>2. file[k][1] \in Name /\ file[k][2] \subseteq Bit /\ file[k][3] \subseteq Bit
        BY <4>1
      <4>3. <<file[k][1]>> \in User
        BY <4>2, AuthenticateAssumption
      <4> QED
        BY <4>2, <4>3 DEF auth_add, Entry
    <3> QED
      BY <3>1, <3>2
  <2>2. ~ auth_check(Configured(file), NoUser, p.conn)
    BY <2>1, PortQueueAssumption DEF auth_check, Entry
  <2>3. ~ Granted(file, <<>>, p.conn)
    BY DEF Granted
  <2> QED
    BY <1>1, <2>2, <2>3
<1>2. CASE ident[p.conn] \in Idents /\ p.userid = reap_userid(ident[p.conn])
  BY <1>2, CheckGrants
<1> QED
  BY <1>1, <1>2 DEF Identified

(* Every client listed after a step was listed before, with its rights.    *)
Inherited ==
    \A k \in DOMAIN pq' : pq'[k].fd # NoFd =>
        \E j \in DOMAIN pq :
            /\ pq[j].fd = pq'[k].fd /\ pq[j].conn = pq'[k].conn /\ pq[j].userid = pq'[k].userid
            /\ "WRITE" \in pq[j].flag <=> "WRITE" \in pq'[k].flag

(* The listed clients, when neither the file nor the answers change.       *)
LEMMA ListedFrame ==
    ASSUME ListedRights, UNCHANGED <<conf, stale, ident>>, Inherited,
           pc' \in Booting => pc \in Booting /\ pq' = pq
    PROVE  ListedRights'
<1>1. ASSUME NEW k \in DOMAIN pq', pq'[k].fd # NoFd
      PROVE  Identified(pq[k])' /\ (pq[k].conn \in stale \/ UpToDate(k))'
  <2>1. PICK j \in DOMAIN pq :
            /\ pq[j].fd = pq'[k].fd /\ pq[j].conn = pq'[k].conn /\ pq[j].userid = pq'[k].userid
            /\ "WRITE" \in pq[j].flag <=> "WRITE" \in pq'[k].flag
    BY <1>1 DEF Inherited
  <2>2. Identified(pq[j]) /\ (pq[j].conn \in stale \/ UpToDate(j))
    BY <1>1, <2>1 DEF ListedRights
  <2>3. Identified(pq[k])'
    BY <2>1, <2>2 DEF Identified
  <2>4. UpToDate(j) => UpToDate(k)'
    BY <2>1 DEF UpToDate, Entitled
  <2> QED
    BY <2>1, <2>2, <2>3, <2>4
<1> QED
  BY <1>1 DEF ListedRights

(* The client being admitted, when no step of port_daemon is taken.        *)
LEMMA AdmittedFrame ==
    ASSUME AdmittedRights, UNCHANGED <<conf, stale, ident, race>>,
           UNCHANGED <<pc, s_in, s_ident>> \/ (pc # "auth" /\ pc' \notin Admitting)
    PROVE  AdmittedRights'
<1>1. CASE UNCHANGED <<pc, s_in, s_ident>>
  BY <1>1 DEF AdmittedRights, Identified, Entitled
<1>2. CASE pc # "auth" /\ pc' \notin Admitting
  BY <1>2 DEF AdmittedRights, Admitting
<1> QED
  BY <1>1, <1>2

(* The connections that are not yet accepted.                              *)
LEMMA FreshFrame ==
    ASSUME Fresh, ident' = ident,
           \A c \in Conn : client'[c] = "idle" => client[c] = "idle",
           \A m \in DOMAIN backlog' : \/ \E n \in DOMAIN backlog : backlog'[m] = backlog[n]
                                      \/ backlog'[m] \in Conn /\ client[backlog'[m]] = "idle"
    PROVE  Fresh'
  BY DEF Fresh

(* A step that is none of the admission or of the configuration.           *)
LEMMA RightsFrame ==
    ASSUME Authorised, pc \notin Dead, UNCHANGED <<aq, conf, race, stale, ident>>, Inherited,
           pc' \in Booting => pc \in Booting /\ pq' = pq,
           \A c \in Conn : client'[c] = "idle" => client[c] = "idle", backlog' = backlog,
           UNCHANGED <<pc, s_in, s_ident>> \/ (pc # "auth" /\ pc' \notin Admitting)
    PROVE  Authorised'
<1>1. InForce'
  BY DEF Authorised, InForce
<1>2. ListedRights'
  BY ListedFrame DEF Authorised
<1>3. AdmittedRights'
  BY AdmittedFrame DEF Authorised
<1>4. Fresh'
  BY FreshFrame DEF Authorised
<1> QED
  BY <1>1, <1>2, <1>3, <1>4 DEF Authorised

(* Closing a port leaves the others as they are.                           *)
LEMMA CloseInherits ==
    ASSUME PQInv, NEW k \in DOMAIN pq, pq[k].fd # NoFd, close_port(pq[k])
    PROVE  Inherited
<1>1. /\ DOMAIN pq' = 1..(Len(pq) - 1) /\ DOMAIN pq = 1..Len(pq) /\ Len(pq) \in Nat
      /\ \A j \in 1..(Len(pq) - 1) : pq'[j] = IF j < k THEN pq[j] ELSE pq[j + 1]
  BY CloseShape, ListFacts
<1>2. \A j \in DOMAIN pq' : \E n \in DOMAIN pq : pq'[j] = pq[n]
  <2> SUFFICES ASSUME NEW j \in DOMAIN pq' PROVE \E n \in DOMAIN pq : pq'[j] = pq[n]
    OBVIOUS
  <2>1. j \in DOMAIN pq /\ j + 1 \in DOMAIN pq
    BY <1>1
  <2> QED
    BY <1>1, <2>1
<1> QED
  BY <1>2 DEF Inherited

(* The first read_conf: nobody is listed yet.                              *)
LEMMA RightsConfigured ==
    ASSUME ServerInv, Authorised, read_conf
    PROVE  Authorised'
<1>1. PICK file \in ConfFiles :
         IF ParseFails(Opened(file))
         THEN Goto("exited") /\ UNCHANGED <<aq, conf>>
         ELSE Goto("select") /\ aq' = Configured(Opened(file)) /\ conf' = Opened(file)
  BY DEF read_conf
<1>2. /\ pc = "conf" /\ UNCHANGED <<pq, race, stale, ident, s_in, s_ident, client, backlog>>
  BY DEF read_conf, pqvars, worldvars, kernelvars, clientvars, daemonvars
<1>3. CASE ParseFails(Opened(file))
  BY <1>1, <1>3 DEF Goto, Authorised, Dead
<1>4. CASE ~ ParseFails(Opened(file))
  <2>1. pc' = "select" /\ aq' = Configured(conf') /\ ~ ParseFails(conf')
    BY <1>1, <1>4 DEF Goto
  <2>2. ParseFails(conf)' <=> ParseFails(conf')
    BY DEF ParseFails
  <2>3. pq = <<>> /\ Fresh /\ race = "none"
    BY <1>2 DEF Authorised, ListedRights, AdmittedRights, Booting, Dead
  <2>4. ListedRights'
    BY <1>2, <2>1, <2>3 DEF ListedRights, Booting
  <2>5. AdmittedRights' /\ Fresh'
    BY <1>2, <2>1, <2>3 DEF AdmittedRights, Fresh
  <2> QED
    BY <2>1, <2>2, <2>4, <2>5 DEF Authorised, InForce, Configured
<1> QED
  BY <1>3, <1>4

(* A reload gives every listed client the rights of the new file, and      *)
(* passes by the one that is being admitted.                               *)
LEMMA RightsReloaded ==
    ASSUME ServerInv, Authorised, Reload, UNCHANGED daemonvars, IdentHostsConform
    PROVE  Authorised'
<1> USE DEF ServerInv
<1>1. /\ UNCHANGED <<s_in, s_ident, ident, client, backlog>> /\ pc \notin Dead
  BY ReloadCases DEF daemonvars, clientvars, kernelvars
<1>2. CASE pc' \in Dead
  BY <1>2 DEF Authorised
<1>3. ASSUME NEW file \in ConfFiles,
             ~ ParseFails(Opened(file)),
             aq' = Configured(Opened(file)), conf' = Opened(file),
             race' = IF pc # "auth" THEN race ELSE IF aq # {} THEN "freed" ELSE "late",
             reauthenticate_users(Accepted(Configured(Opened(file)))),
             stale' = (stale \ PortConns(DOMAIN pq)) \cup Unlisted,
             pc' = pc \/ (pc = "select" /\ pc' = "eintr")
      PROVE  Authorised'
  <2> DEFINE o == Opened(file)
             full == Accepted(Configured(o))
  <2>1. o \in ConfFiles \cup {NoConf} /\ ~ ParseFails(o) /\ conf' = o /\ aq' = Configured(o)
    BY <1>3, ConfigurationTypes
  <2>2. /\ DOMAIN pq' = DOMAIN pq
        /\ \A k \in DOMAIN pq :
              /\ pq'[k].fd = pq[k].fd /\ pq'[k].conn = pq[k].conn /\ pq'[k].userid = pq[k].userid
              /\ "WRITE" \in pq'[k].flag <=> k \in full
    BY <1>3, ReauthenticateShape
  <2>3. \A k \in DOMAIN pq : k \in full <=> auth_check(Configured(o), pq[k].userid, pq[k].conn)
    BY DEF Accepted
  <2> HIDE DEF o, full
  <2>4. InForce'
    BY <2>1 DEF InForce, ParseFails, Configured
  <2>5. Fresh'
    BY <1>1 DEF Authorised, Fresh
  <2>6. ASSUME NEW k \in DOMAIN pq', pq'[k].fd # NoFd
        PROVE  Identified(pq[k])' /\ UpToDate(k)'
    <3>1. pq[k].fd # NoFd /\ Identified(pq[k]) /\ pq[k] \in Port /\ k \in DOMAIN pq
      BY <1>1, <2>2, <2>6, ListFacts DEF Authorised, ListedRights
    <3>2. Identified(pq[k])'
      BY <1>1, <2>2, <3>1 DEF Identified
    <3>3. "WRITE" \in pq'[k].flag <=> Granted(o, ident[pq[k].conn], pq[k].conn)
      <4>1. auth_check(Configured(o), pq[k].userid, pq[k].conn)
              <=> Granted(o, ident[pq[k].conn], pq[k].conn)
        BY <2>1, <3>1, CheckedRights
      <4> QED
        BY <2>2, <2>3, <3>1, <4>1
    <3>4. UpToDate(k)' <=> ("WRITE" \in pq'[k].flag <=> Granted(conf', ident'[pq'[k].conn], pq'[k].conn))
      BY DEF UpToDate, Entitled, Granted
    <3> QED
      BY <1>1, <2>1, <2>2, <3>1, <3>2, <3>3, <3>4
  <2>7. pc' \in Booting => pq' = <<>>
    <3>1. SUFFICES ASSUME pc' \in Booting PROVE pq' = <<>>
      OBVIOUS
    <3>2. pq = <<>>
      BY <1>1, <1>3, <3>1 DEF Authorised, ListedRights, Booting
    <3>3. DOMAIN pq = {} /\ pq' = [k \in DOMAIN pq |-> pq'[k]]
      BY <1>3, <3>2 DEF reauthenticate_users
    <3> QED
      BY <3>2, <3>3
  <2>8. ListedRights'
    BY <2>6, <2>7 DEF ListedRights
  <2>9. AdmittedRights'
    <3>1. pc \in {"auth", "enqueue"} /\ s_in.fd # NoFd => s_in.conn \in stale'
      BY <1>3 DEF Unlisted
    <3>2. AdmittedRights
      BY <1>1 DEF Authorised
    <3>3. race' # "none" => pc = "auth" /\ pc' = "auth"
      BY <1>3, <3>2 DEF AdmittedRights
    <3>4. s_in.fd # NoFd /\ pc' \in {"auth", "enqueue"} => Identified(s_in)'
      BY <1>1, <1>3, <3>2 DEF AdmittedRights, Identified
    <3> QED
      BY <1>1, <1>3, <3>1, <3>2, <3>3, <3>4 DEF AdmittedRights
  <2> QED
    BY <2>4, <2>5, <2>8, <2>9 DEF Authorised
<1> QED
  BY <1>2, <1>3, ReloadCases

(* accept() and what connect() and the ident host may do.                  *)
LEMMA RightsAsked ==
    ASSUME ServerInv, Separate, Authorised, Accept \/ IdentRefused \/ IdentConnected
    PROVE  Authorised'
<1> USE DEF ServerInv, Surroundings
<1>1. /\ pc \notin Dead /\ pc \in {"accept", "connect"}
      /\ UNCHANGED <<pq, aq, conf, race, stale, ident, client>>
      /\ pc' \in {"connect", "reply", "enqueue"}
  BY DEF Accept, IdentRefused, IdentConnected, Dead, pqvars, authvars, clientvars, worldvars,
         daemonvars, Goto
<1>2. InForce /\ Fresh /\ ListedRights /\ AdmittedRights /\ race = "none"
  BY <1>1 DEF Authorised, AdmittedRights
<1>3. InForce'
  BY <1>1, <1>2 DEF InForce
<1>4. Inherited
  BY <1>1 DEF Inherited
<1>5. ListedRights'
  BY <1>1, <1>2, <1>4, ListedFrame DEF Booting
<1>6. CASE Accept
  <2>1. pc' = "connect"
    BY <1>6 DEF Accept, Goto
  <2>2. CASE s_in'.fd = NoFd
    <3>1. backlog' = backlog
      BY <1>6, <2>2, AcceptEffect, NoFdFacts
    <3>2. s_ident' = NoFd
      <4> DEFINE f == Alloc(files)
      <4>1. f = s_in'.fd
        BY <1>6 DEF Accept, NoClient
      <4>2. s_ident' = Alloc(Install(files, f, IF f = NoFd THEN s_in.conn ELSE Head(backlog)))
        BY <1>6 DEF Accept
      <4> HIDE DEF f
      <4>3. s_ident' = Alloc(files)
        BY <2>2, <4>1, <4>2 DEF Install
      <4> QED
        BY <2>2, <4>1, <4>3 DEF f
    <3>3. Fresh'
      BY <1>1, <1>2, <3>1 DEF Fresh
    <3>4. AdmittedRights'
      BY <1>1, <1>2, <2>1, <2>2, <3>2 DEF AdmittedRights
    <3> QED
      BY <1>3, <1>5, <3>3, <3>4 DEF Authorised
  <2>3. CASE s_in'.fd # NoFd
    <3>1. backlog # <<>> /\ backlog' = Tail(backlog) /\ s_in'.conn = Head(backlog)
      <4> DEFINE f == Alloc(files)
                 c == IF f = NoFd THEN s_in.conn ELSE Head(backlog)
      <4>1. /\ s_in' = [NoClient(c) EXCEPT !.fd = f]
            /\ f = NoFd \/ backlog # <<>>
            /\ backlog' = IF f = NoFd THEN backlog ELSE Tail(backlog)
        BY <1>6 DEF Accept
      <4> HIDE DEF f
      <4>2. s_in'.fd = f /\ s_in'.conn = c
        BY <4>1 DEF NoClient
      <4> QED
        BY <2>3, <4>1, <4>2
    <3>2. backlog \in Seq(Conn)
      BY DEF WorldTypeOK
    <3>3. /\ Head(backlog) = backlog[1] /\ 1 \in DOMAIN backlog
          /\ \A m \in DOMAIN backlog' : m + 1 \in DOMAIN backlog /\ backlog'[m] = backlog[m + 1]
      BY <3>1, <3>2, TailFacts
    <3>4. Fresh'
      BY <1>1, <1>2, <3>3 DEF Fresh
    <3>5. ident'[s_in'.conn] = <<>>
      BY <1>1, <1>2, <3>1, <3>3 DEF Fresh
    <3>6. AdmittedRights'
      BY <1>1, <1>2, <2>1, <2>3, <3>5 DEF AdmittedRights
    <3> QED
      BY <1>3, <1>5, <3>4, <3>6 DEF Authorised
  <2> QED
    BY <2>2, <2>3
<1>7. CASE IdentRefused
  <2>1. /\ s_in' = [s_in EXCEPT !.flag = {"READ"}, !.userid = NoUser] /\ pc = "connect"
        /\ pc' = "enqueue" /\ backlog' = backlog /\ s_in \in Port
    BY <1>7 DEF IdentRefused, Goto, worldvars, kernelvars, ProcessTypeOK
  <2>2. s_in'.fd = s_in.fd /\ s_in'.conn = s_in.conn /\ s_in'.userid = NoUser /\ s_in'.flag = {"READ"}
    BY <2>1 DEF Port
  <2>3. Fresh'
    BY <1>1, <1>2, <2>1 DEF Fresh
  <2>4. ASSUME s_in.fd # NoFd
        PROVE  Identified(s_in)' /\ ~ Entitled(s_in.conn)' /\ "WRITE" \notin s_in'.flag
    <3>1. ident[s_in.conn] = <<>>
      BY <1>2, <2>1, <2>4 DEF AdmittedRights
    <3>2. ident'[s_in'.conn] = <<>>
      BY <1>1, <2>2, <3>1
    <3> QED
      BY <2>2, <3>2 DEF Identified, Entitled
  <2>5. AdmittedRights'
    BY <1>1, <1>2, <2>1, <2>2, <2>4 DEF AdmittedRights
  <2> QED
    BY <1>3, <1>5, <2>3, <2>5 DEF Authorised
<1>8. CASE IdentConnected
  <2>1. /\ UNCHANGED <<s_in, s_ident, backlog>> /\ pc = "connect" /\ pc' = "reply" /\ s_ident # NoFd
    BY <1>8 DEF IdentConnected, Goto, worldvars, kernelvars, daemonvars
  <2>2. Fresh' /\ AdmittedRights'
    BY <1>1, <1>2, <2>1 DEF Fresh, AdmittedRights
  <2> QED
    BY <1>3, <1>5, <2>2 DEF Authorised
<1> QED
  BY <1>6, <1>7, <1>8

(* The ident host's answer is that of the client being admitted, and of    *)
(* nobody else.                                                            *)
LEMMA RightsAnswered ==
    ASSUME ServerInv, Separate, Authorised, IdentReply
    PROVE  Authorised'
<1> USE DEF ServerInv, Surroundings
<1>1. PICK answer \in Idents :
         /\ s_in' = [s_in EXCEPT !.userid = reap_userid(answer)]
         /\ ident' = [ident EXCEPT ![s_in.conn] = answer]
  BY DEF IdentReply
<1>2. /\ pc = "reply" /\ pc' = "auth" /\ UNCHANGED <<pq, aq, conf, race, stale, client, backlog>>
  BY DEF IdentReply, Goto, pqvars, authvars, clientvars
<1>3. InForce /\ Fresh /\ ListedRights /\ AdmittedRights /\ race = "none" /\ s_in.fd # NoFd
  BY <1>2 DEF Authorised, AdmittedRights, Dead
<1>4. /\ s_in.conn \in Conn /\ files[s_in.fd] = s_in.conn /\ s_in.fd \notin ps.full /\ s_in.fd \in Fd
  BY <1>3 DEF Owned, AdmittedOwned, ProcessTypeOK, Port
<1>5. s_in'.fd = s_in.fd /\ s_in'.conn = s_in.conn /\ s_in'.userid = reap_userid(answer)
  BY <1>1 DEF ProcessTypeOK, Port
<1>6. /\ ident'[s_in.conn] = answer
      /\ \A c \in Conn : c # s_in.conn => ident'[c] = ident[c]
  BY <1>1, <1>4 DEF DaemonTypeOK
<1>7. \A k \in DOMAIN pq : pq[k].fd # NoFd => pq[k].conn \in Conn /\ pq[k].conn # s_in.conn
  BY <1>4, ListFacts DEF Owned, PortsOwned, Separate
<1>8. \A m \in DOMAIN backlog : backlog[m] \in Conn /\ backlog[m] # s_in.conn
  <2>1. backlog \in Seq(Conn)
    BY DEF WorldTypeOK
  <2>2. \A m \in DOMAIN backlog : backlog[m] \in Conn
    BY <2>1, LenProperties, ElementOfSeq
  <2> QED
    BY <1>4, <2>2 DEF Separate
<1>9. InForce'
  BY <1>2, <1>3 DEF InForce
<1>10. Fresh'
  <2>1. client[s_in.conn] # "idle"
    BY <1>4 DEF Separate
  <2> QED
    BY <1>2, <1>3, <1>6, <1>8, <2>1 DEF Fresh
<1>11. ListedRights'
  <2>1. ASSUME NEW k \in DOMAIN pq, pq[k].fd # NoFd
        PROVE  /\ Identified(pq[k])' <=> Identified(pq[k])
               /\ UpToDate(k)' <=> UpToDate(k)
    <3>1. ident'[pq[k].conn] = ident[pq[k].conn]
      BY <1>6, <1>7, <2>1
    <3> QED
      BY <1>2, <3>1 DEF Identified, UpToDate, Entitled
  <2> QED
    BY <1>2, <1>3, <2>1 DEF ListedRights, Booting
<1>12. AdmittedRights'
  <2>1. Identified(s_in)'
    BY <1>5, <1>6 DEF Identified
  <2> QED
    BY <1>2, <1>3, <2>1 DEF AdmittedRights
<1> QED
  BY <1>9, <1>10, <1>11, <1>12 DEF Authorised

(* auth_check decides by the list in force; one that a reload overtook may *)
(* decide anything, and its client is then among the stale.                *)
LEMMA RightsChecked ==
    ASSUME ServerInv, Authorised, Greet, IdentHostsConform
    PROVE  Authorised'
<1> USE DEF ServerInv, Surroundings
<1>1. /\ pc = "auth" /\ race' = "none"
      /\ UNCHANGED <<pq, aq, conf, stale, client, backlog, s_ident, ident>>
      /\ \/ /\ pc' = "enqueue"
            /\ \E full \in Verdict : s_in' = [s_in EXCEPT !.flag = Rights(full)]
         \/ pc' = "crashed"
  BY DEF Greet, Goto, pqvars, kernelvars, clientvars, daemonvars
<1>2. CASE pc' = "crashed"
  BY <1>2 DEF Authorised, Dead
<1>3. CASE pc' = "enqueue" /\ \E full \in Verdict : s_in' = [s_in EXCEPT !.flag = Rights(full)]
  <2>1. PICK full \in Verdict : s_in' = [s_in EXCEPT !.flag = Rights(full)]
    BY <1>3
  <2>2. InForce /\ Fresh /\ ListedRights /\ AdmittedRights
    BY <1>1 DEF Authorised, Dead
  <2>3. /\ s_in'.fd = s_in.fd /\ s_in'.conn = s_in.conn /\ s_in'.userid = s_in.userid
        /\ s_in'.flag = Rights(full) /\ s_in \in Port
    BY <2>1 DEF ProcessTypeOK, Port
  <2>4. InForce' /\ Fresh'
    BY <1>1, <2>2 DEF InForce, Fresh
  <2>5. ListedRights'
    <3>1. Inherited
      BY <1>1 DEF Inherited
    <3> QED
      BY <1>1, <1>3, <2>2, <3>1, ListedFrame DEF Booting
  <2>6. ASSUME s_in.fd # NoFd
        PROVE  /\ Identified(s_in)'
               /\ s_in.conn \in stale \/ ("WRITE" \in s_in'.flag <=> Entitled(s_in.conn)')
    <3>1. Identified(s_in) /\ (race # "none" => s_in.conn \in stale)
      BY <1>1, <2>2, <2>6 DEF AdmittedRights
    <3>2. Identified(s_in)'
      BY <1>1, <2>3, <3>1 DEF Identified
    <3>3. CASE race # "none"
      BY <3>1, <3>2, <3>3
    <3>4. CASE race = "none"
      <4>1. full = auth_check(Configured(conf), s_in.userid, s_in.conn)
        BY <2>2, <3>4 DEF Verdict, InForce
      <4>2. conf \in ConfFiles \cup {NoConf} /\ ~ ParseFails(conf)
        BY <2>2 DEF AuthTypeOK, InForce
      <4>3. full <=> Granted(conf, ident[s_in.conn], s_in.conn)
        BY <2>3, <3>1, <4>1, <4>2, CheckedRights
      <4>4. "WRITE" \in s_in'.flag <=> full
        BY <2>3 DEF Rights
      <4>5. Entitled(s_in.conn)' <=> Granted(conf, ident[s_in.conn], s_in.conn)
        BY <1>1, <2>3 DEF Entitled, Granted
      <4> QED
        BY <3>2, <4>3, <4>4, <4>5
    <3> QED
      BY <3>3, <3>4
  <2>7. AdmittedRights'
    BY <1>1, <1>3, <2>3, <2>6 DEF AdmittedRights
  <2> QED
    BY <2>4, <2>5, <2>7 DEF Authorised
<1> QED
  BY <1>1, <1>2, <1>3

(* port_enqueue: the client is listed with the rights it was given.        *)
LEMMA RightsListed ==
    ASSUME ServerInv, Authorised, Enqueue
    PROVE  Authorised'
<1> USE DEF ServerInv, Surroundings
<1>1. /\ pc = "enqueue" /\ pc' \in {"ports", "fifo", "select"}
      /\ UNCHANGED <<aq, conf, race, stale, ident, s_ident, backlog>>
  BY DEF Enqueue, Goto, AfterDaemon, AfterPorts, authvars, daemonvars
<1>2. InForce /\ Fresh /\ ListedRights /\ AdmittedRights
  BY <1>1 DEF Authorised, Dead
<1>3. \A c \in Conn : client'[c] = "idle" => client[c] = "idle"
  <2>1. s_in.fd \in Fd \cup {NoFd} /\ (Close(s_in.fd) \/ client' = client)
    BY DEF Enqueue, ProcessTypeOK, Port
  <2> QED
    BY <2>1, CloseEffect
<1>4. InForce' /\ Fresh' /\ AdmittedRights'
  BY <1>1, <1>2, <1>3 DEF InForce, Fresh, AdmittedRights
<1>5. CASE MallocFails
  <2>1. pq' = pq
    BY <1>5 DEF Enqueue, pqvars
  <2>2. Inherited
    BY <2>1 DEF Inherited
  <2> QED
    BY <1>1, <1>2, <1>4, <2>2, ListedFrame DEF Authorised, Booting
<1>6. CASE ~ MallocFails
  <2>1. port_enqueue(s_in) /\ s_in \in Port
    BY <1>6 DEF Enqueue, ProcessTypeOK
  <2>2. /\ Len(pq) \in Nat /\ DOMAIN pq = 1..Len(pq) /\ DOMAIN pq' = 1..(Len(pq) + 1)
        /\ pq'[1] = s_in /\ \A j \in 2..(Len(pq) + 1) : pq'[j] = pq[j - 1]
    BY <2>1, EnqueueShape, ListFacts DEF PQInv
  <2>3. ASSUME NEW k \in DOMAIN pq', pq'[k].fd # NoFd
        PROVE  Identified(pq[k])' /\ (pq[k].conn \in stale \/ UpToDate(k))'
    <3>1. CASE k = 1
      <4>1. /\ Identified(s_in)
            /\ s_in.conn \in stale \/ ("WRITE" \in s_in.flag <=> Entitled(s_in.conn))
        BY <1>1, <1>2, <2>2, <2>3, <3>1 DEF AdmittedRights
      <4>2. pq'[k] = s_in
        BY <2>2, <3>1
      <4>3. Identified(pq[k])'
        BY <1>1, <4>1, <4>2 DEF Identified
      <4>4. UpToDate(k)' <=> ("WRITE" \in s_in.flag <=> Entitled(s_in.conn))
        BY <1>1, <4>2 DEF UpToDate, Entitled
      <4> QED
        BY <1>1, <4>1, <4>2, <4>3, <4>4
    <3>2. CASE k # 1
      <4>1. k - 1 \in DOMAIN pq /\ pq'[k] = pq[k - 1]
        BY <2>2, <3>2
      <4>2. Identified(pq[k - 1]) /\ (pq[k - 1].conn \in stale \/ UpToDate(k - 1))
        BY <1>2, <2>3, <4>1 DEF ListedRights
      <4>3. Identified(pq[k])'
        BY <1>1, <4>1, <4>2 DEF Identified
      <4>4. UpToDate(k)' <=> UpToDate(k - 1)
        BY <1>1, <4>1 DEF UpToDate, Entitled
      <4> QED
        BY <1>1, <4>1, <4>2, <4>3, <4>4
    <3> QED
      BY <3>1, <3>2
  <2>4. ListedRights'
    BY <1>1, <2>3 DEF ListedRights, Booting
  <2> QED
    BY <1>4, <2>4 DEF Authorised
<1> QED
  BY <1>5, <1>6

(* The commands, the fan-out and the rest of the world.                    *)
LEMMA RightsKept ==
    ASSUME ServerInv, Authorised, PortRead \/ (FifoWrite /\ UNCHANGED <<authvars, daemonvars>>)
    PROVE  Authorised'
<1> USE DEF ServerInv
<1>1. CASE PortRead
  <2> DEFINE k == Min(Selected)
  <2>1. /\ pc = "ports" /\ k \in DOMAIN pq /\ pq[k].fd # NoFd
        /\ UNCHANGED <<authvars, daemonvars>>
        /\ Closing(k) \/ Staying(k)
    BY <1>1, PortReadCases
  <2>2. backlog' = backlog /\ \A c \in Conn : client'[c] = "idle" => client[c] = "idle"
    BY <1>1, ReadEffect DEF Shrinks
  <2> HIDE DEF k
  <2>3. Inherited
    <3>1. CASE Closing(k)
      BY <2>1, <3>1, CloseInherits DEF Closing, ClosePort
    <3>2. CASE Staying(k)
      <4>1. /\ DOMAIN pq' = DOMAIN pq
            /\ \A j \in DOMAIN pq :
                  /\ pq'[j].fd = pq[j].fd /\ pq'[j].conn = pq[j].conn
                  /\ pq'[j].userid = pq[j].userid
                  /\ "WRITE" \in pq'[j].flag <=> "WRITE" \in pq[j].flag
        BY <2>1, <3>2, MonitorShape DEF Staying, pqvars
      <4> QED
        BY <4>1 DEF Inherited
    <3> QED
      BY <2>1, <3>1, <3>2
  <2>4. pc' \in InPorts
    BY <2>1 DEF Closing, Staying, InPorts
  <2> QED
    BY <2>1, <2>2, <2>3, <2>4, RightsFrame DEF authvars, daemonvars, InPorts, Booting, Dead, Admitting
<1>2. CASE FifoWrite /\ UNCHANGED <<authvars, daemonvars>>
  <2>1. /\ pc = "fwrite" /\ pc' = "fwrite" /\ UNCHANGED <<backlog, aq, conf, race, stale, ident>>
        /\ NextMonitor # {}
        /\ UNCHANGED <<pqvars, client>> \/ ClosePort(pq[Min(NextMonitor)])
    BY <1>2 DEF FifoWrite, Fanning, authvars, daemonvars
  <2>2. Inherited /\ \A c \in Conn : client'[c] = "idle" => client[c] = "idle"
    <3>1. CASE UNCHANGED <<pqvars, client>>
      BY <3>1 DEF Inherited, pqvars
    <3>2. CASE ClosePort(pq[Min(NextMonitor)])
      <4> DEFINE k == Min(NextMonitor)
      <4>1. k \in DOMAIN pq /\ pq[k].fd # NoFd /\ ClosePort(pq[k])
        BY <2>1, <3>2, NextMonitorFacts
      <4> HIDE DEF k
      <4> QED
        BY <4>1, ClosePortEffect, CloseInherits DEF ClosePort
    <3> QED
      BY <2>1, <3>1, <3>2
  <2> QED
    BY <2>1, <2>2, RightsFrame DEF Booting, Dead, Admitting
<1> QED
  BY <1>1, <1>2

(* A client connects: nobody has asked about it yet.                       *)
LEMMA RightsOutside ==
    ASSUME ServerInv, Authorised, Environment
    PROVE  Authorised'
<1> USE DEF ServerInv, Surroundings
<1>1. /\ WorldStep /\ pc \notin Dead
      /\ UNCHANGED <<pq, pc, s_in, s_ident, aq, conf, race, stale, ident>>
  BY DEF Environment, pqvars, procvars, authvars, daemonvars
<1>2. Inherited
  BY <1>1 DEF Inherited
<1>3. CASE Shrinks
  BY <1>1, <1>2, <1>3, RightsFrame DEF Shrinks
<1>4. ASSUME NEW c \in Conn, Connect(c) PROVE Authorised'
  <2>1. InForce' /\ ListedRights' /\ AdmittedRights'
    BY <1>1, <1>2, ListedFrame, AdmittedFrame DEF Authorised, InForce
  <2>2. /\ client[c] = "idle" /\ client' = [client EXCEPT ![c] = "up"]
        /\ backlog' = Append(backlog, c) /\ backlog \in Seq(Conn)
        /\ client \in [Conn -> {"idle", "up", "down", "closed"}]
    BY <1>4 DEF Connect, WorldTypeOK
  <2>3. \A d \in Conn : client'[d] = "idle" => client[d] = "idle"
    BY <2>2
  <2>4. /\ DOMAIN backlog' = 1..(Len(backlog) + 1) /\ DOMAIN backlog = 1..Len(backlog)
        /\ Len(backlog) \in Nat
        /\ \A m \in DOMAIN backlog : backlog'[m] = backlog[m]
        /\ backlog'[Len(backlog) + 1] = c
    <3>1. DOMAIN backlog = 1..Len(backlog) /\ Len(backlog) \in Nat
      BY <2>2, LenProperties
    <3> QED
      BY <2>2, <3>1, AppendProperties
  <2>5. \A m \in DOMAIN backlog' : m \in DOMAIN backlog \/ backlog'[m] = c
    BY <2>4
  <2>6. Fresh'
    BY <1>1, <2>2, <2>3, <2>4, <2>5, FreshFrame DEF Authorised
  <2> QED
    BY <2>1, <2>6 DEF Authorised
<1> QED
  BY <1>1, <1>3, <1>4, WorldEffect

(* Every step keeps the rights.                                            *)
LEMMA AuthorisedNext ==
    ASSUME ServerInv, Separate, Authorised, [Next]_vars, IdentHostsConform
    PROVE  Authorised'
<1> USE DEF ServerInv
<1>1. CASE /\ pc \notin Dead /\ UNCHANGED <<aq, conf, race, stale, ident, pq, client, backlog>>
           /\ pc' \in Booting => pc \in Booting
           /\ UNCHANGED <<pc, s_in, s_ident>> \/ (pc # "auth" /\ pc' \notin Admitting)
  BY <1>1, RightsFrame DEF Inherited
<1>2. CASE detach_process \/ port_daemon_init \/ fifo_server_init
  BY <1>1, <1>2 DEF detach_process, port_daemon_init, fifo_server_init, Goto, Booting, Dead, Admitting,
                    pqvars, worldvars, kernelvars, clientvars, authvars, daemonvars
<1>3. CASE do_select \/ SelectInterrupted
  <2>1. /\ pc \in {"select", "eintr"} /\ pc' \in {"accept", "ports", "fifo", "select"}
        /\ UNCHANGED <<pq, worldvars, authvars, daemonvars>>
    BY <1>3 DEF do_select, SelectInterrupted, Demux, SelectPorts, Goto, AfterSelect, AfterDaemon,
                AfterPorts
  <2> QED
    BY <1>1, <2>1 DEF Dead, Booting, Admitting, worldvars, kernelvars, clientvars, authvars, daemonvars
<1>4. CASE ControlWrite \/ PortsDone
  BY <1>1, <1>4 DEF ControlWrite, PortsDone, Goto, AfterPorts, Booting, Dead, Admitting,
                    pqvars, worldvars, kernelvars, clientvars, authvars, daemonvars
<1>5. CASE (FifoEnter \/ FifoRead \/ FifoRoundEnd) /\ UNCHANGED <<authvars, daemonvars>>
  BY <1>1, <1>5 DEF FifoEnter, FifoRead, FifoRoundEnd, Goto, Booting, Dead, Admitting,
                    pqvars, worldvars, kernelvars, clientvars, authvars, daemonvars
<1>6. CASE sigint
  BY <1>6 DEF sigint, Goto, Dead, Authorised
<1>7. CASE UNCHANGED vars
  <2>1. UNCHANGED <<pc, s_in, s_ident, aq, conf, race, stale, ident, pq, client, backlog>>
    BY <1>7 DEF vars, pqvars, procvars, worldvars, kernelvars, clientvars, authvars, daemonvars
  <2>2. CASE pc \in Dead
    BY <2>1, <2>2 DEF Authorised
  <2> QED
    BY <1>1, <2>1, <2>2
<1>8. CASE read_conf
  BY <1>8, RightsConfigured
<1>9. CASE Reload /\ UNCHANGED daemonvars
  BY <1>9, RightsReloaded
<1>10. CASE Accept \/ IdentRefused \/ IdentConnected
  BY <1>10, RightsAsked
<1>11. CASE IdentReply
  BY <1>11, RightsAnswered
<1>12. CASE Greet
  BY <1>12, RightsChecked
<1>13. CASE Enqueue
  BY <1>13, RightsListed
<1>14. CASE PortRead \/ (FifoWrite /\ UNCHANGED <<authvars, daemonvars>>)
  BY <1>14, RightsKept
<1>15. CASE Environment
  BY <1>15, RightsOutside
<1> QED
  BY <1>2, <1>3, <1>4, <1>5, <1>6, <1>7, <1>8, <1>9, <1>10, <1>11, <1>12, <1>13, <1>14, <1>15
  DEF Next, ServerStep, DaemonStep, FifoStep, IdentAnswered, Signal

(* The invariant about rights holds in every state.                        *)
THEOREM RightsInvariance ==
    ASSUME IdentHostsConform
    PROVE  Spec => []Authorised
<1>1. Init => Authorised
  <2> SUFFICES ASSUME Init PROVE Authorised
    OBVIOUS
  <2>1. /\ pc = "boot" /\ pq = <<>> /\ aq = {} /\ conf = NoConf /\ race = "none" /\ s_in.fd = NoFd
        /\ s_ident = NoFd /\ backlog = <<>>
    BY DEF Init, ProcessInit, PQInit, AuthInit, DaemonInit, WorldInit, NoClient
  <2>2. Fresh
    BY <2>1 DEF Init, DaemonInit, Fresh
  <2> QED
    BY <2>1, <2>2 DEF Authorised, InForce, Configured, ParseFails, ListedRights, AdmittedRights
<1>2. ServerInv /\ Separate /\ Authorised /\ [Next]_vars => Authorised'
  BY AuthorisedNext
<1> QED
  BY <1>1, <1>2, ServerInvariance, SeparateInvariance, PTL DEF Spec

(* Whatever connects, hangs up, is admitted without a descriptor or is     *)
(* reloaded, in whichever order: a client whose admission no reload        *)
(* overtook has the rights the file in force gives it.                     *)
THEOREM RightsAlwaysCurrent ==
    ASSUME IdentHostsConform
    PROVE  Spec => []RightsCurrent
<1>1. Authorised => RightsCurrent
  BY DEF Authorised, ListedRights, RightsCurrent
<1> QED
  BY <1>1, RightsInvariance, PTL

(* A line reaches diald only from a client that the file in force entitles *)
(* to it, or one whose admission a reload overtook.                        *)
THEOREM OnlyAuthorisedCommands ==
    ASSUME IdentHostsConform
    PROVE  Spec => CommandsAuthorised
<1>1. ASSUME ServerInv, Authorised, [Next]_vars, pc = "ports", pc' = "control"
      PROVE  LET c == files[pq[curr' - 1].fd] IN c \in stale \/ Entitled(c)
  <2>1. PortRead
    <3>1. CASE Next
      <4>1. ~ (detach_process \/ port_daemon_init \/ fifo_server_init \/ read_conf \/ do_select
               \/ SelectInterrupted \/ ControlWrite \/ PortsDone \/ DaemonStep \/ FifoStep \/ IdentReply)
        BY <1>1 DEF detach_process, port_daemon_init, fifo_server_init, read_conf, do_select,
               SelectInterrupted, ControlWrite, PortsDone, Goto, AfterPorts, DaemonStep, Accept,
               IdentRefused, IdentConnected, Greet, Enqueue, FifoStep, FifoEnter, FifoRead, FifoWrite,
               FifoRoundEnd, IdentReply
      <4>2. ~ (Reload \/ sigint)
        BY <1>1, ReloadCases DEF sigint, Goto, Dead
      <4>3. ~ Environment
        BY <1>1 DEF Environment, procvars
      <4> QED
        BY <3>1, <4>1, <4>2, <4>3 DEF Next, ServerStep, IdentAnswered, Signal
    <3>2. CASE UNCHANGED vars
      BY <1>1, <3>2 DEF vars, procvars
    <3> QED
      BY <1>1, <3>1, <3>2
  <2> DEFINE k == Min(Selected)
  <2>2. /\ k \in DOMAIN pq /\ k \in Nat /\ pq[k].fd # NoFd /\ files[pq[k].fd] = pq[k].conn
        /\ Closing(k) \/ Staying(k)
    BY <1>1, <2>1, PortReadCases
  <2> HIDE DEF k
  <2>3. curr' = k + 1 /\ "WRITE" \in pq[k].flag
    BY <1>1, <2>2 DEF Closing, Staying
  <2>4. curr' - 1 = k
    BY <2>2, <2>3
  <2>5. pq[k].conn \in stale \/ UpToDate(k)
    BY <1>1, <2>2 DEF Authorised, ListedRights, Dead
  <2> QED
    BY <2>2, <2>3, <2>4, <2>5 DEF UpToDate
<1>2. ServerInv /\ Authorised /\ [Next]_vars
        => [pc = "ports" /\ pc' = "control" =>
              LET c == files[pq[curr' - 1].fd] IN c \in stale \/ Entitled(c)]_vars
  BY <1>1
<1> QED
  BY <1>2, ServerInvariance, RightsInvariance, PTL DEF Spec, CommandsAuthorised
-------------------------------------------------------------------------------
(* The fan-out.  Messages are numbered as diald writes them: what has been *)
(* read from the pipe comes before what is in it, and what a client has    *)
(* been sent before what it will be.                                       *)
Ordered ==
    /\ Increasing(pipe.q) /\ Below(pipe.q, written)
    /\ Increasing(line) /\ Precede(line, pipe.q) /\ Below(line, written)
    /\ \A c \in Conn : Increasing(got[c]) /\ Precede(got[c], pipe.q) /\ Below(got[c], written)

(* The subscribers fifo_server's loop has passed.                          *)
Done == {k \in Monitored : k < curr}

(* They have the line, if they are still there; the others do not have it  *)
(* yet; and i counts those that have been passed.                          *)
FanWalk ==
    /\ curr > 0
    /\ i = Cardinality({pq[k].fd : k \in Done})
    /\ \A k \in Done : client[pq[k].conn] = "up" => IsSuffix(line, got[pq[k].conn])
    /\ \A k \in Monitored \ Done : Precede(got[pq[k].conn], line)

(* The inductive invariant for FanoutExact, for as long as no write() has  *)
(* failed: a failed one sets the loop back to the head of the list.        *)
Fan == Ordered /\ (pc = "fwrite" => FanWalk)

(* The types behind it.                                                    *)
LEMMA MessageTypes ==
    ASSUME WorldTypeOK, FifoTypeOK
    PROVE  /\ 1..MaxChunk \in SUBSET Int /\ written \in 0..MaxChunk /\ MaxChunk \in Nat
           /\ pipe.q \in Seq(1..MaxChunk) /\ line \in Seq(1..MaxChunk)
           /\ \A c \in Conn : got[c] \in Seq(1..MaxChunk)
<1> DEFINE Q == Seq(1..MaxChunk)
<1>1. /\ pipe \in [writer : {"none", "asked", "open", "eof"}, q : Q] /\ line \in Q /\ got \in [Conn -> Q]
      /\ written \in 0..MaxChunk
  BY DEF WorldTypeOK, FifoTypeOK
<1> HIDE DEF Q
<1>2. pipe.q \in Q /\ \A c \in Conn : got[c] \in Q
  BY <1>1
<1> QED
  BY <1>1, <1>2, WorldAssumption DEF Q

(* A subscriber has a connection that nobody else has.                     *)
LEMMA SubscriberConn ==
    ASSUME ServerInv, Separate, NEW k \in Monitored
    PROVE  /\ k \in DOMAIN pq /\ k \in Nat \ {0} /\ pq[k].fd \in Fd /\ pq[k].conn \in Conn
           /\ files[pq[k].fd] = pq[k].conn /\ client[pq[k].conn] # "idle"
           /\ \A j \in Monitored : (pq[j].conn = pq[k].conn \/ pq[j].fd = pq[k].fd) => j = k
<1> USE DEF ServerInv
<1>1. \A j \in Monitored : /\ j \in DOMAIN pq /\ pq[j].fd # NoFd /\ pq[j].fd \in Fd
                           /\ pq[j].conn \in Conn /\ files[pq[j].fd] = pq[j].conn
  <2> SUFFICES ASSUME NEW j \in Monitored
               PROVE  /\ j \in DOMAIN pq /\ pq[j].fd # NoFd /\ pq[j].fd \in Fd
                      /\ pq[j].conn \in Conn /\ files[pq[j].fd] = pq[j].conn
    OBVIOUS
  <2>1. j \in DOMAIN pq /\ "MONITOR" \in pq[j].flag
    BY DEF Monitored
  <2>2. pq[j].fd # NoFd
    BY <2>1 DEF PQInv, PortTable, DistinctFds
  <2> QED
    BY <2>1, <2>2, ListFacts DEF Owned, PortsOwned
<1>2. \A j \in Monitored : pq[j].fd = pq[k].fd => j = k
  BY <1>1 DEF PQInv, PortTable, DistinctFds
<1>3. \A j \in Monitored : pq[j].conn = pq[k].conn => pq[j].fd = pq[k].fd
  BY <1>1 DEF Separate
<1>4. client[pq[k].conn] # "idle"
  BY <1>1 DEF Separate
<1>5. k \in Nat \ {0}
  BY <1>1, ListFacts
<1> QED
  BY <1>1, <1>2, <1>3, <1>4, <1>5

(* The pipe is as it was, or empty.                                        *)
LEMMA OrderedFrame ==
    ASSUME Ordered, UNCHANGED <<line, got, written>>, pipe'.q = pipe.q \/ pipe'.q = <<>>
    PROVE  Ordered'
<1>1. CASE pipe'.q = pipe.q
  BY <1>1 DEF Ordered
<1>2. CASE pipe'.q = <<>>
  BY <1>2, OrderedEmpty DEF Ordered
<1> QED
  BY <1>1, <1>2

(* The loop stands still.                                                  *)
LEMMA FanWalkFrame ==
    ASSUME FanWalk, UNCHANGED <<curr, i, line, got>>, DOMAIN pq' = DOMAIN pq,
           \A k \in DOMAIN pq : /\ pq'[k].fd = pq[k].fd /\ pq'[k].conn = pq[k].conn
                                /\ "MONITOR" \in pq'[k].flag <=> "MONITOR" \in pq[k].flag,
           \A k \in Monitored : client'[pq[k].conn] = "up" => client[pq[k].conn] = "up"
    PROVE  FanWalk'
<1>1. Monitored' = Monitored /\ Monitored \subseteq DOMAIN pq
  BY DEF Monitored
<1>2. Done' = Done /\ Done \subseteq Monitored
  BY <1>1 DEF Done
<1>3. {pq'[k].fd : k \in Done} = {pq[k].fd : k \in Done}
  BY <1>1, <1>2
<1> QED
  BY <1>1, <1>2, <1>3 DEF FanWalk

(* Nobody who was gone comes back on the same connection.                  *)
LEMMA WorldUp ==
    ASSUME WorldTypeOK, WorldStep
    PROVE  \A c \in Conn : client'[c] = "up" => client[c] \in {"up", "idle"}
<1> USE DEF clientvars
<1>1. client \in [Conn -> {"idle", "up", "down", "closed"}]
  BY DEF WorldTypeOK
<1>2. ASSUME NEW c \in Conn, Connect(c) \/ Hangup(c) PROVE \A d \in Conn : client'[d] = "up" => client[d] \in {"up", "idle"}
  BY <1>1, <1>2 DEF Connect, Hangup
<1>3. ASSUME NEW c \in Conn, NEW l \in Line, Stall(c) \/ ReadOn(c) \/ Send(c, l) PROVE client' = client
  BY <1>3 DEF Stall, ReadOn, Send
<1>4. ASSUME DialdAttach \/ DialdWrite \/ DialdExit PROVE client' = client
  BY <1>4 DEF DialdAttach, DialdWrite, DialdExit
<1>5. ASSUME NEW c \in Conn, Stall(c) \/ ReadOn(c) PROVE client' = client
  BY <1>5 DEF Stall, ReadOn
<1> QED
  BY <1>2, <1>3, <1>4, <1>5 DEF WorldStep

(* The clients and diald.                                                  *)
LEMMA OrderedWorld ==
    ASSUME WorldTypeOK, FifoTypeOK, Ordered, WorldStep, line' = line
    PROVE  Ordered'
<1> USE DEF dialdvars
<1>1. got' = got
  BY WorldStepTypes
<1>2. CASE UNCHANGED <<written, pipe>>
  BY <1>1, <1>2, OrderedFrame
<1>3. ASSUME NEW c \in Conn, Connect(c) \/ Hangup(c) \/ Stall(c) \/ ReadOn(c) PROVE UNCHANGED <<written, pipe>>
  BY <1>3 DEF Connect, Hangup, Stall, ReadOn
<1>4. ASSUME NEW c \in Conn, NEW l \in Line, Send(c, l) PROVE UNCHANGED <<written, pipe>>
  BY <1>4 DEF Send
<1>5. CASE DialdAttach \/ DialdExit
  <2> DEFINE Q == Seq(1..MaxChunk)
  <2>1. pipe \in [writer : {"none", "asked", "open", "eof"}, q : Q]
    BY DEF WorldTypeOK
  <2> HIDE DEF Q
  <2>2. \E w : pipe' = [pipe EXCEPT !.writer = w]
    BY <1>5 DEF DialdAttach, DialdExit
  <2>3. pipe'.q = pipe.q
    BY <2>1, <2>2
  <2>4. written' = written
    BY <1>5 DEF DialdAttach, DialdExit
  <2> QED
    BY <1>1, <2>3, <2>4, OrderedFrame
<1>6. CASE DialdWrite
  <2> DEFINE C == 1..MaxChunk
             Q == Seq(C)
  <2>1. /\ C \in SUBSET Int /\ pipe.q \in Q /\ line \in Q /\ \A c \in Conn : got[c] \in Q
        /\ written \in Int /\ written + 1 \in C
    <3>1. written < MaxChunk
      BY <1>6 DEF DialdWrite
    <3> QED
      BY <3>1, MessageTypes
  <2>2. pipe'.q = Append(pipe.q, written + 1) /\ written' = written + 1
    <3>1. pipe' = [pipe EXCEPT !.q = Append(pipe.q, written + 1)] /\ written' = written + 1
      BY <1>6 DEF DialdWrite
    <3>2. pipe \in [writer : {"none", "asked", "open", "eof"}, q : Q]
      BY DEF WorldTypeOK
    <3> HIDE DEF Q
    <3> QED
      BY <3>1, <3>2
  <2> HIDE DEF C
  <2>3. /\ Increasing(pipe'.q) /\ Below(pipe'.q, written')
        /\ \A g : g \in Seq(C) /\ Precede(g, pipe.q) /\ Below(g, written) => Precede(g, pipe'.q)
    BY <2>1, <2>2, OrderedAppend DEF Ordered
  <2>4. \A g : g \in Seq(C) /\ Below(g, written) => Below(g, written')
    <3> SUFFICES ASSUME NEW g \in Seq(C), Below(g, written), NEW m \in DOMAIN g PROVE g[m] <= written'
      BY DEF Below
    <3>1. g[m] \in Int /\ g[m] <= written
      BY <2>1, LenProperties, ElementOfSeq DEF Below
    <3> QED
      BY <2>1, <2>2, <3>1
  <2> QED
    BY <1>1, <2>1, <2>2, <2>3, <2>4 DEF Ordered
<1> QED
  BY <1>2, <1>3, <1>4, <1>5, <1>6 DEF WorldStep

(* read() of the pipe: what it returns comes before what it leaves.        *)
LEMMA FanReads ==
    ASSUME ServerInv, Separate, Fan, FifoRead
    PROVE  Fan'
<1> USE DEF ServerInv, Surroundings
<1>1. UNCHANGED <<pq, client, got, written>> /\ pc = "fread"
  BY DEF FifoRead, pqvars, clientvars
<1>2. CASE pipe.q = <<>>
  <2>1. pc' = "select" /\ UNCHANGED <<pipe, line>>
    BY <1>2 DEF FifoRead, Goto
  <2> QED
    BY <1>1, <2>1, OrderedFrame DEF Fan
<1>3. CASE pipe.q # <<>>
  <2> DEFINE C == 1..MaxChunk
             Q == Seq(C)
             q == pipe.q
  <2>1. PICK n \in 1..Len(q) :
           /\ line' = SubSeq(q, 1, n)
           /\ pipe' = [pipe EXCEPT !.q = SubSeq(q, n + 1, Len(q))]
           /\ pc' = "fwrite" /\ curr' = 1 /\ i' = 0
    BY <1>3 DEF FifoRead
  <2>2. pipe'.q = SubSeq(q, n + 1, Len(q))
    <3>1. pipe \in [writer : {"none", "asked", "open", "eof"}, q : Q]
      BY DEF WorldTypeOK
    <3> HIDE DEF Q, q
    <3> QED
      BY <2>1, <3>1
  <2>3. C \in SUBSET Int /\ q \in Seq(C) /\ Increasing(q) /\ Below(q, written)
    BY MessageTypes DEF Fan, Ordered
  <2> HIDE DEF C, q
  <2>4. /\ Increasing(line') /\ Increasing(pipe'.q) /\ Precede(line', pipe'.q)
        /\ \A g : Precede(g, q) => Precede(g, line') /\ Precede(g, pipe'.q)
        /\ \A w : Below(q, w) => Below(line', w) /\ Below(pipe'.q, w)
    BY <2>1, <2>2, <2>3, OrderedSplit
  <2>5. \A c \in Conn : Increasing(got[c]) /\ Precede(got[c], q) /\ Below(got[c], written)
    BY DEF Fan, Ordered, q
  <2>6. Ordered'
    BY <1>1, <2>3, <2>4, <2>5 DEF Ordered
  <2>7. Monitored' = Monitored /\ \A k \in Monitored : k \in Nat \ {0} /\ pq[k].conn \in Conn
    BY <1>1, SubscriberConn DEF Monitored
  <2>8. Done' = {}
    BY <2>1, <2>7 DEF Done
  <2>9. FanWalk'
    <3>1. Cardinality({pq'[k].fd : k \in Done'}) = 0
      BY <2>8, FS_EmptySet
    <3>2. \A k \in Monitored : Precede(got[pq[k].conn], line')
      BY <2>4, <2>5, <2>7
    <3> QED
      BY <1>1, <2>1, <2>7, <2>8, <3>1, <3>2 DEF FanWalk
  <2> QED
    BY <2>6, <2>9 DEF Fan
<1> QED
  BY <1>2, <1>3

(* One write() that does not fail: the next subscriber has the line.       *)
LEMMA FanSends ==
    ASSUME ServerInv, Separate, Fan, FifoWrite, UNCHANGED <<pqvars, client>>,
           NextMonitor # {}, curr' = FifoSent(Min(NextMonitor)),
           got' = IF client[files[pq[Min(NextMonitor)].fd]] = "up"
                  THEN [got EXCEPT ![files[pq[Min(NextMonitor)].fd]] = @ \o line] ELSE got
    PROVE  Fan'
<1> USE DEF ServerInv, Surroundings
<1> DEFINE k == Min(NextMonitor)
           c == pq[k].conn
           C == 1..MaxChunk
<1>1. /\ k \in NextMonitor /\ k \in Monitored /\ k >= curr /\ \A j \in NextMonitor : k <= j
  BY NextMonitorFacts DEF NextMonitor
<1>2. /\ k \in Nat /\ c \in Conn /\ files[pq[k].fd] = c /\ pq[k].fd \in Fd
      /\ \A j \in Monitored : (pq[j].conn = c \/ pq[j].fd = pq[k].fd) => j = k
      /\ \A j \in Monitored : j \in Nat /\ pq[j].conn \in Conn /\ pq[j].fd \in Fd
  BY <1>1, SubscriberConn
<1>3. /\ pc = "fwrite" /\ pc' = "fwrite" /\ i' = i + 1 /\ curr' = k + 1 /\ UNCHANGED <<pipe, line, written, pq>>
      /\ got' = IF client[c] = "up" THEN [got EXCEPT ![c] = got[c] \o line] ELSE got
  BY <1>2 DEF FifoWrite, FifoSent, dialdvars, pqvars
<1>4. FanWalk /\ Ordered
  BY <1>3 DEF Fan
<1>5. /\ C \in SUBSET Int /\ line \in Seq(C) /\ \A d \in Conn : got[d] \in Seq(C)
  BY MessageTypes
<1>6. curr \in Nat /\ DOMAIN got = Conn
  BY DEF ProcessTypeOK, WorldTypeOK
<1> HIDE DEF k, C
<1>7. k \notin Done /\ Precede(got[c], line)
  <2>1. k \notin Done
    BY <1>1, <1>2, <1>6 DEF Done
  <2> QED
    BY <1>1, <1>4, <2>1 DEF FanWalk
<1>8. /\ \A d \in Conn : d # c => got'[d] = got[d]
      /\ client[c] = "up" => got'[c] = got[c] \o line
      /\ client[c] # "up" => got'[c] = got[c]
  BY <1>2, <1>3, <1>6
<1>9. Ordered'
  <2>1. /\ Increasing(got[c] \o line) /\ Precede(got[c] \o line, pipe.q) /\ Below(got[c] \o line, written)
    <3>1. /\ Increasing(got[c]) /\ Increasing(line) /\ Precede(got[c], line) /\ got[c] \in Seq(C)
          /\ Precede(got[c], pipe.q) /\ Precede(line, pipe.q)
          /\ Below(got[c], written) /\ Below(line, written)
      BY <1>2, <1>4, <1>5, <1>7 DEF Ordered
    <3> QED
      BY <1>5, <3>1, OrderedConcat
  <2>2. \A d \in Conn : Increasing(got'[d]) /\ Precede(got'[d], pipe.q) /\ Below(got'[d], written)
    BY <1>4, <1>8, <2>1 DEF Ordered
  <2> QED
    BY <1>3, <1>4, <2>2 DEF Ordered
<1>10. Monitored' = Monitored
  BY <1>3 DEF Monitored
<1>11. Done' = Done \cup {k} /\ Done \subseteq Monitored
  <2>1. \A j \in Monitored : j < k + 1 <=> j < curr \/ j = k
    <3> SUFFICES ASSUME NEW j \in Monitored PROVE j < k + 1 <=> j < curr \/ j = k
      OBVIOUS
    <3>1. j \in Nat /\ (j >= curr => k <= j)
      BY <1>1, <1>2 DEF NextMonitor
    <3> QED
      BY <1>1, <1>2, <1>6, <3>1
  <2> QED
    BY <1>1, <1>3, <1>10, <2>1 DEF Done
<1>12. i' = Cardinality({pq'[j].fd : j \in Done'})
  <2> DEFINE F == {pq[j].fd : j \in Done}
  <2>1. F \in SUBSET Fd /\ pq[k].fd \notin F
    BY <1>2, <1>7, <1>11
  <2>2. {pq'[j].fd : j \in Done'} = F \cup {pq[k].fd}
    BY <1>3, <1>11
  <2>3. IsFiniteSet(F) /\ i = Cardinality(F)
    BY <1>4, <2>1, PortQueueAssumption, FS_Subset DEF FanWalk
  <2> HIDE DEF F
  <2> QED
    BY <1>3, <2>1, <2>2, <2>3, FS_AddElement
<1>13. \A j \in Done' : client'[pq'[j].conn] = "up" => IsSuffix(line', got'[pq'[j].conn])
  <2> SUFFICES ASSUME NEW j \in Done', client[pq[j].conn] = "up"
               PROVE  IsSuffix(line, got'[pq[j].conn])
    BY <1>3
  <2>1. CASE j = k
    <3>1. got'[c] = got[c] \o line
      BY <1>8, <2>1
    <3>2. got[c] \in Seq(C) /\ line \in Seq(C)
      BY <1>2, <1>5
    <3>3. IsSuffix(line, got[c] \o line)
      BY <3>2, SuffixConcat
    <3> QED
      BY <2>1, <3>1, <3>3
  <2>2. CASE j \in Done /\ j # k
    <3>1. pq[j].conn # c /\ pq[j].conn \in Conn
      BY <1>2, <1>11, <2>2
    <3> QED
      BY <1>4, <1>8, <2>2, <3>1 DEF FanWalk
  <2> QED
    BY <1>11, <2>1, <2>2
<1>14. \A j \in Monitored' \ Done' : Precede(got'[pq'[j].conn], line')
  <2> SUFFICES ASSUME NEW j \in Monitored \ Done, j # k PROVE Precede(got'[pq[j].conn], line)
    BY <1>3, <1>10, <1>11
  <2>1. got'[pq[j].conn] = got[pq[j].conn]
    BY <1>2, <1>8
  <2> QED
    BY <1>4, <2>1 DEF FanWalk
<1>15. curr' > 0
  BY <1>2, <1>3
<1>16. FanWalk'
  BY <1>12, <1>13, <1>14, <1>15 DEF FanWalk
<1> QED
  BY <1>9, <1>16 DEF Fan

(* Every step keeps the fan-out exact until a write() fails.               *)
LEMMA FanNext ==
    ASSUME ServerInv, Separate, Fan, [Next]_vars
    PROVE  epipe' \/ Fan'
<1> USE DEF ServerInv, Surroundings
<1>1. CASE UNCHANGED <<pipe, line, got, written>> /\ pc' # "fwrite"
  BY <1>1, OrderedFrame DEF Fan
<1>2. CASE (monitor_open \/ monitor_close) /\ UNCHANGED <<line, got, written>> /\ pc' # "fwrite"
  <2>1. pipe' = pipe \/ pipe' = AskDiald \/ pipe' = NoPipe
    BY <1>2 DEF monitor_open, monitor_close
  <2>2. AskDiald.q = <<>> /\ NoPipe.q = <<>>
    BY DEF AskDiald, NoPipe
  <2>3. pipe'.q = pipe.q \/ pipe'.q = <<>>
    BY <2>1, <2>2
  <2> QED
    BY <1>2, <2>3, OrderedFrame DEF Fan
<1>3. CASE PortRead
  <2> DEFINE k == Min(Selected)
  <2>1. UNCHANGED <<line, got, written>> /\ (Closing(k) \/ Staying(k))
    BY <1>3, PortReadCases
  <2> HIDE DEF k
  <2>2. pc' # "fwrite" /\ (pipe' = pipe \/ monitor_open)
    BY <2>1 DEF Closing, Staying
  <2> QED
    BY <1>1, <1>2, <2>1, <2>2
<1>4. CASE FifoEnter
  <2>1. /\ UNCHANGED <<line, got, written>> /\ pc' # "fwrite" /\ (pipe' = pipe \/ monitor_close)
    BY <1>4 DEF FifoEnter, Goto
  <2> QED
    BY <1>1, <1>2, <2>1
<1>5. CASE FifoRead
  BY <1>5, FanReads
<1>6. CASE FifoWrite
  <2>1. \/ epipe' = TRUE
        \/ /\ UNCHANGED <<pqvars, client>> /\ NextMonitor # {} /\ curr' = FifoSent(Min(NextMonitor))
           /\ got' = IF client[files[pq[Min(NextMonitor)].fd]] = "up"
                     THEN [got EXCEPT ![files[pq[Min(NextMonitor)].fd]] = @ \o line] ELSE got
    BY <1>6 DEF FifoWrite, Fanning
  <2> QED
    BY <1>6, <2>1, FanSends
<1>7. CASE FifoRoundEnd
  <2>1. /\ UNCHANGED <<pipe, got, written>> /\ pc' # "fwrite" /\ line' = <<>>
    BY <1>7 DEF FifoRoundEnd, Goto, worldvars, dialdvars
  <2>2. Ordered'
    BY <2>1, OrderedEmpty DEF Fan, Ordered
  <2> QED
    BY <2>1, <2>2 DEF Fan
<1>8. CASE Reload
  <2>1. UNCHANGED <<pipe, line, got, written, client>>
    BY <1>8, ReloadCases DEF dialdvars, clientvars, fifovars
  <2>2. CASE pc' # "fwrite"
    BY <1>1, <2>1, <2>2
  <2>3. CASE pc' = "fwrite"
    <3>1. pc = "fwrite" /\ UNCHANGED <<curr, i>> /\ \E full : reauthenticate_users(full)
      BY <1>8, <2>3, ReloadCases DEF Dead
    <3>2. /\ DOMAIN pq' = DOMAIN pq
          /\ \A k \in DOMAIN pq : /\ pq'[k].fd = pq[k].fd /\ pq'[k].conn = pq[k].conn
                                  /\ "MONITOR" \in pq'[k].flag <=> "MONITOR" \in pq[k].flag
      BY <3>1, ReauthenticateShape
    <3>3. FanWalk'
      BY <2>1, <3>1, <3>2, FanWalkFrame DEF Fan
    <3> QED
      BY <2>1, <3>3, OrderedFrame DEF Fan
  <2> QED
    BY <2>2, <2>3
<1>9. CASE Environment
  <2>1. WorldStep /\ UNCHANGED <<pq, pc, curr, i, line>>
    BY <1>9 DEF Environment, pqvars, procvars, fifovars
  <2>2. Ordered' /\ got' = got
    BY <2>1, OrderedWorld, WorldStepTypes DEF Fan
  <2>3. \A k \in Monitored : client'[pq[k].conn] = "up" => client[pq[k].conn] = "up"
    BY <2>1, WorldUp, SubscriberConn
  <2>4. FanWalk => FanWalk'
    BY <2>1, <2>2, <2>3, FanWalkFrame
  <2> QED
    BY <2>1, <2>2, <2>4 DEF Fan
<1>10. CASE UNCHANGED vars
  <2>1. UNCHANGED <<pipe, line, got, written, pq, client, curr, i, pc>>
    BY <1>10 DEF vars, worldvars, dialdvars, clientvars, fifovars, pqvars, procvars
  <2>2. FanWalk => FanWalk'
    BY <2>1, FanWalkFrame
  <2> QED
    BY <2>1, <2>2, OrderedFrame DEF Fan
<1>11. CASE detach_process \/ port_daemon_init \/ fifo_server_init \/ read_conf \/ ControlWrite
             \/ PortsDone
  BY <1>1, <1>11 DEF detach_process, port_daemon_init, fifo_server_init, read_conf, ControlWrite,
                     PortsDone, Goto, AfterPorts, worldvars, dialdvars, fifovars
<1>12. CASE do_select \/ SelectInterrupted
  BY <1>1, <1>12 DEF do_select, SelectInterrupted, Demux, Goto, AfterSelect, AfterDaemon, AfterPorts,
                     worldvars, dialdvars, fifovars
<1>13. CASE DaemonStep \/ IdentReply
  BY <1>1, <1>13 DEF DaemonStep, Accept, IdentRefused, IdentConnected, Greet, Enqueue, IdentReply, Goto,
                     AfterDaemon, AfterPorts, worldvars, dialdvars, fifovars
<1>14. CASE sigint /\ UNCHANGED <<worldvars, fifovars>>
  BY <1>1, <1>14 DEF sigint, Goto, worldvars, dialdvars, fifovars
<1> QED
  BY <1>3, <1>4, <1>5, <1>6, <1>7, <1>8, <1>9, <1>10, <1>11, <1>12, <1>13, <1>14
  DEF Next, ServerStep, FifoStep, IdentAnswered, Signal

(* A write() that has failed is never forgotten.                           *)
LEMMA EpipeStays ==
    ASSUME [Next]_vars, epipe
    PROVE  epipe'
<1>1. CASE FifoWrite
  BY <1>1 DEF FifoWrite
<1>2. CASE FifoEnter \/ FifoRead \/ FifoRoundEnd \/ PortRead \/ Reload \/ UNCHANGED fifovars
  BY <1>2 DEF FifoEnter, FifoRead, FifoRoundEnd, PortRead, Reload, fifovars
<1>3. CASE detach_process \/ port_daemon_init \/ fifo_server_init \/ read_conf \/ ControlWrite
            \/ PortsDone \/ do_select \/ SelectInterrupted
  BY <1>2, <1>3 DEF detach_process, port_daemon_init, fifo_server_init, read_conf, ControlWrite,
                    PortsDone, do_select, SelectInterrupted, Demux
<1>4. CASE DaemonStep \/ IdentReply
  BY <1>2, <1>4 DEF DaemonStep, Accept, IdentRefused, IdentConnected, Greet, Enqueue, IdentReply
<1> QED
  BY <1>1, <1>2, <1>3, <1>4 DEF Next, ServerStep, FifoStep, IdentAnswered, Signal, Environment, vars

(* When fifo_server has been through its list every subscriber has what it *)
(* read from the pipe, and no client is ever sent a message twice or out   *)
(* of order, for every number of clients, messages and ways to cut them    *)
(* into reads; until a write() fails.                                      *)
THEOREM FanoutAlwaysExact == Spec => []FanoutExact
<1>1. Init => Fan
  <2> SUFFICES ASSUME Init PROVE Fan
    OBVIOUS
  <2>1. /\ pipe.q = <<>> /\ line = <<>> /\ pc = "boot"
        /\ \A c \in Conn : got[c] = <<>>
    BY DEF Init, WorldInit, FifoInit, ProcessInit, NoPipe
  <2> QED
    BY <2>1, OrderedEmpty DEF Fan, Ordered
<1>2. ServerInv /\ Separate /\ (epipe \/ Fan) /\ [Next]_vars => (epipe \/ Fan)'
  BY FanNext, EpipeStays
<1>3. ServerInv /\ Separate /\ Fan => FanoutExact
  <2> SUFFICES ASSUME ServerInv, Separate, Fan PROVE FanoutExact
    OBVIOUS
  <2>1. \A c \in Conn : \A m, n \in DOMAIN got[c] : m < n => got[c][m] < got[c][n]
    BY DEF Fan, Ordered, Increasing
  <2>2. ASSUME pc = "fwrite", ~ Fanning, NEW k \in Monitored, client[pq[k].conn] = "up"
        PROVE  IsSuffix(line, got[pq[k].conn])
    <3> DEFINE F == {pq[j].fd : j \in Done}
               G == {pq[j].fd : j \in Monitored}
    <3>1. FanWalk /\ i = Cardinality(F) /\ monitorcount = Cardinality(G)
      BY <2>2 DEF Fan, FanWalk, ServerInv, PQInv, PortTable, MonitorsCounted
    <3>2. F \subseteq G /\ G \in SUBSET Fd
      BY SubscriberConn DEF Done
    <3>3. k \in Done
      <4>1. CASE NextMonitor = {}
        <5>1. ~ (k >= curr) /\ k \in Nat /\ curr \in Nat
          BY <4>1, SubscriberConn DEF NextMonitor, ServerInv, Surroundings, ProcessTypeOK
        <5> QED
          BY <5>1 DEF Done
      <4>2. CASE ~ (i < monitorcount)
        <5> HIDE DEF F, G
        <5>1. IsFiniteSet(G) /\ IsFiniteSet(F)
          BY <3>2, PortQueueAssumption, FS_Subset
        <5>2. /\ Cardinality(F) \in Nat /\ Cardinality(G) \in Nat
              /\ Cardinality(F) <= Cardinality(G)
              /\ Cardinality(G) = Cardinality(F) => G = F
          BY <3>2, <5>1, FS_Subset, FS_CardinalityType
        <5>3. G = F
          BY <3>1, <4>2, <5>2
        <5>4. PICK j \in Done : pq[j].fd = pq[k].fd
          BY <5>3 DEF F, G
        <5> QED
          BY <5>4, SubscriberConn DEF Done
      <4> QED
        BY <2>2, <4>1, <4>2 DEF Fanning
    <3> QED
      BY <2>2, <3>1, <3>3 DEF FanWalk
  <2> QED
    BY <2>1, <2>2 DEF FanoutExact, FarmedOut
<1>4. epipe => FanoutExact
  BY DEF FanoutExact
<1> QED
  BY <1>1, <1>2, <1>3, <1>4, ServerInvariance, SeparateInvariance, PTL DEF Spec
===============================================================================

--------------------------- MODULE PortQueueProofs ---------------------------
(***************************************************************************)
(* The port queue keeps its three views of the connected clients           *)
(* consistent, for any number of descriptors, connections and users.       *)
(***************************************************************************)
EXTENDS PortQueue, SequenceFacts

(* adjust_maxfd restores the bound after currfd was taken out of the set.  *)
LEMMA AdjustBounds ==
    ASSUME NEW t, NEW currfd \in Int,
           t.full \subseteq Nat \cup {NoFd}, t.maxfd \in Int,
           currfd \notin t.full,
           t.maxfd \in t.full \cup {currfd, NoFd},
           \A f \in t.full : f <= t.maxfd
    PROVE  /\ adjust_maxfd(t, currfd) \in t.full \cup {NoFd}
           /\ \A f \in t.full : f <= adjust_maxfd(t, currfd)
<1>1. CASE t.maxfd # currfd
  BY <1>1 DEF adjust_maxfd
<1>2. CASE t.maxfd = currfd
  <2> DEFINE S == Scanned(t) \cup {NoFd}
             m == IF t.maxfd >= NoFd THEN t.maxfd ELSE NoFd
  <2>1. adjust_maxfd(t, currfd) = Max(S)
    BY <1>2 DEF adjust_maxfd
  <2>2. S \in SUBSET Int /\ S # {} /\ m \in Int /\ \A x \in S : x <= m
    BY DEF Scanned, NoFd
  <2>3. Max(S) \in S /\ \A x \in S : x <= Max(S)
    <3> HIDE DEF S, m
    <3> QED
      BY <2>2, MaxExists
  <2>4. t.full \subseteq S /\ S \subseteq t.full \cup {NoFd}
    BY DEF Scanned, NoFd
  <2> QED
    BY <2>1, <2>3, <2>4
<1> QED
  BY <1>1, <1>2
-------------------------------------------------------------------------------
(* The inductive invariant.  The type of monitorcount needs the counting:  *)
(* only a subscriber makes it go down.                                     *)
PQInv == PQTypeOK /\ PortTable

PortFds(q) == {q[k].fd : k \in DOMAIN q}

MonitorFds(q) == {q[k].fd : k \in {j \in DOMAIN q : "MONITOR" \in q[j].flag}}

(* The subscribers' descriptors are a finite set.                          *)
LEMMA MonitorFdsFinite ==
    ASSUME NEW q \in Seq(Port)
    PROVE  IsFiniteSet(MonitorFds(q)) /\ Cardinality(MonitorFds(q)) \in Nat
<1>1. IsFiniteSet(Fd \cup {NoFd})
  BY PortQueueAssumption, FS_AddElement
<1>2. MonitorFds(q) \in SUBSET (Fd \cup {NoFd})
  <2>1. \A k \in DOMAIN q : q[k] \in Port
    BY ElementOfSeq, LenProperties
  <2>2. \A r \in Port : r.fd \in Fd \cup {NoFd}
    BY DEF Port
  <2> QED
    BY <2>1, <2>2 DEF MonitorFds
<1>3. IsFiniteSet(MonitorFds(q))
  BY <1>1, <1>2, FS_Subset
<1> QED
  BY <1>3, FS_CardinalityType

(* port_init and fifo_init leave an empty, consistent table.              *)
LEMMA InitInv == PQInit => PQInv
<1> SUFFICES ASSUME PQInit PROVE PQInv
  OBVIOUS
<1>1. pq = <<>> /\ DOMAIN pq = {} /\ Len(pq) = 0
  BY DEF PQInit
<1>2. PQTypeOK
  BY DEF PQInit, PQTypeOK, EmptyFds, ThreadFds
<1>3. DistinctFds
  BY <1>1 DEF DistinctFds
<1>4. WatchedExactly
  BY <1>1 DEF PQInit, WatchedExactly, EmptyFds
<1>5. {pq[k].fd : k \in Monitored} = {}
  BY <1>1 DEF Monitored
<1>6. MonitorsCounted
  BY <1>5, FS_EmptySet DEF MonitorsCounted, PQInit
<1> QED
  BY <1>2, <1>3, <1>4, <1>6 DEF PQInv, PortTable

(* A new client is the new head of the list.                               *)
LEMMA EnqueueShape ==
    ASSUME PQTypeOK, NEW p \in Port, port_enqueue(p)
    PROVE  /\ pq' \in Seq(Port) /\ Len(pq') = Len(pq) + 1 /\ DOMAIN pq' = 1..(Len(pq) + 1)
           /\ pq'[1] = p /\ \A j \in 2..(Len(pq) + 1) : pq'[j] = pq[j - 1]
           /\ ps'.full = ps.full \cup {p.fd}
           /\ ps'.sel = ps.sel /\ ps'.selcount = ps.selcount
<1>1. /\ pq \in Seq(Port) /\ Len(pq) \in Nat /\ DOMAIN pq = 1..Len(pq)
      /\ \A j \in 1..Len(pq) : pq[j] \in Port
      /\ pq' = Cons(p, pq)
  BY LenProperties, ElementOfSeq DEF port_enqueue, PQTypeOK
<1>2. /\ pq' \in Seq(Port) /\ Len(pq') = Len(pq) + 1
      /\ pq'[1] = p /\ \A j \in 2..(Len(pq) + 1) : pq'[j] = pq[j - 1]
  <2>1. \A S : \A s \in Seq(S) : \A e \in S :
           /\ Cons(e, s) \in Seq(S)
           /\ Len(Cons(e, s)) = Len(s) + 1
           /\ Cons(e, s)[1] = e
           /\ \A j \in 2..(Len(s) + 1) : Cons(e, s)[j] = s[j - 1]
    BY ConsProperties, Zenon
  <2> QED
    BY <2>1, <1>1, ZenonT(60)
<1>3. DOMAIN pq' = 1..Len(pq')
  BY <1>2, LenProperties
<1>4. ps'.full = ps.full \cup {p.fd} /\ ps'.sel = ps.sel /\ ps'.selcount = ps.selcount
  BY DEF port_enqueue, PQTypeOK, ThreadFds
<1> QED
  BY <1>2, <1>3, <1>4

(* A new client keeps the invariant: its descriptor is new.                *)
LEMMA EnqueueInv ==
    ASSUME PQInv, NEW p \in Port, NewPort(p), port_enqueue(p)
    PROVE  PQInv'
<1> USE DEF PQInv, PortTable
<1>1. /\ pq \in Seq(Port) /\ Len(pq) \in Nat /\ DOMAIN pq = 1..Len(pq)
      /\ \A j \in 1..Len(pq) : pq[j] \in Port
  BY LenProperties, ElementOfSeq DEF PQTypeOK
<1>2. /\ pq' \in Seq(Port) /\ Len(pq') = Len(pq) + 1 /\ DOMAIN pq' = 1..(Len(pq) + 1)
      /\ pq'[1] = p /\ \A j \in 2..(Len(pq) + 1) : pq'[j] = pq[j - 1]
  BY EnqueueShape
<1>3. \A j \in DOMAIN pq' : j = 1 \/ (j - 1 \in DOMAIN pq /\ pq'[j] = pq[j - 1])
  <2> SUFFICES ASSUME NEW j \in DOMAIN pq', j # 1
               PROVE  j - 1 \in DOMAIN pq /\ pq'[j] = pq[j - 1]
    OBVIOUS
  <2>1. j - 1 \in 1..Len(pq) /\ j \in 2..(Len(pq) + 1)
    BY <1>1, <1>2
  <2> QED
    BY <2>1, <1>1, <1>2
<1>4. 1 \in DOMAIN pq' /\ \A j \in DOMAIN pq : j + 1 \in DOMAIN pq' /\ pq'[j + 1] = pq[j]
  <2> SUFFICES ASSUME NEW j \in DOMAIN pq
               PROVE  j + 1 \in DOMAIN pq' /\ pq'[j + 1] = pq[j]
    BY <1>1, <1>2
  <2>1. j + 1 \in 2..(Len(pq) + 1) /\ (j + 1) - 1 = j
    BY <1>1
  <2> QED
    BY <2>1, <1>1, <1>2
<1>5. /\ ps' = [ps EXCEPT !.fullcount = @ + 1, !.full = @ \cup {p.fd},
                          !.maxfd = IF p.fd > @ THEN p.fd ELSE @]
      /\ monitorcount' = monitorcount /\ ps \in ThreadFds(Fd)
      /\ p.fd \in Fd \cup {NoFd} /\ "MONITOR" \notin p.flag
  BY DEF port_enqueue, NewPort, Port, PQTypeOK
<1>6. PQTypeOK'
  <2>1. /\ ps'.fullcount \in Nat /\ ps'.full \subseteq Fd \cup {NoFd}
        /\ ps'.maxfd \in Fd \cup {NoFd} /\ ps'.selcount \in Nat /\ ps'.sel \subseteq Fd
    BY <1>5 DEF ThreadFds
  <2>2. ps' \in ThreadFds(Fd)
    BY <2>1, <1>5 DEF ThreadFds
  <2> QED
    BY <2>2, <1>2, <1>5 DEF PQTypeOK
<1>7. DistinctFds'
  <2>1. \A k \in DOMAIN pq : pq[k].fd = p.fd => p.fd = NoFd
    BY DEF NewPort
  <2> SUFFICES ASSUME NEW j \in DOMAIN pq', NEW k \in DOMAIN pq'
               PROVE  /\ pq'[j].fd = pq'[k].fd => j = k \/ pq'[j].fd = NoFd
                      /\ pq'[j].fd = NoFd => "MONITOR" \notin pq'[j].flag
    BY DEF DistinctFds
  <2>2. CASE j = 1
    BY <2>1, <2>2, <1>2, <1>3, <1>5
  <2>3. CASE j # 1 /\ k = 1
    BY <2>1, <2>3, <1>2, <1>3 DEF DistinctFds
  <2>4. CASE j # 1 /\ k # 1
    <3>1. j - 1 \in DOMAIN pq /\ pq'[j] = pq[j - 1] /\ k - 1 \in DOMAIN pq /\ pq'[k] = pq[k - 1]
      BY <2>4, <1>3
    <3>2. j - 1 = k - 1 => j = k
      BY <1>2
    <3> QED
      BY <3>1, <3>2 DEF DistinctFds
  <2> QED
    BY <2>2, <2>3, <2>4
<1>8. PortFds(pq') = PortFds(pq) \cup {p.fd}
  <2>1. ASSUME NEW f \in PortFds(pq') PROVE f \in PortFds(pq) \cup {p.fd}
    BY <2>1, <1>2, <1>3 DEF PortFds
  <2>2. ASSUME NEW f \in PortFds(pq) PROVE f \in PortFds(pq')
    BY <2>2, <1>4 DEF PortFds
  <2>3. p.fd \in PortFds(pq')
    BY <1>2, <1>4 DEF PortFds
  <2> QED
    BY <2>1, <2>2, <2>3
<1>9. WatchedExactly'
  <2>1. /\ ps'.full = ps.full \cup {p.fd} /\ ps'.fullcount = ps.fullcount + 1
        /\ ps'.maxfd = IF p.fd > ps.maxfd THEN p.fd ELSE ps.maxfd
    BY <1>5 DEF ThreadFds
  <2>2. ps.maxfd \in Int /\ p.fd \in Int /\ ps.full \subseteq Int
    BY <1>5, PortQueueAssumption DEF ThreadFds, NoFd
  <2>3. ps.full = PortFds(pq)
    BY DEF WatchedExactly, PortFds
  <2>4. ps'.full = PortFds(pq')
    BY <2>1, <2>3, <1>8
  <2>5. ps'.maxfd \in ps'.full \cup {NoFd}
    BY <2>1 DEF WatchedExactly
  <2>6. \A f \in ps'.full : f <= ps'.maxfd
    <3>1. \A f \in ps.full : f <= ps.maxfd
      BY DEF WatchedExactly
    <3> QED
      BY <3>1, <2>1, <2>2
  <2>7. ps'.fullcount = Len(pq')
    BY <2>1, <1>2 DEF WatchedExactly
  <2> QED
    BY <2>4, <2>5, <2>6, <2>7 DEF WatchedExactly, PortFds
<1>10. MonitorFds(pq') = MonitorFds(pq)
  BY <1>2, <1>3, <1>4, <1>5 DEF MonitorFds
<1>11. MonitorsCounted'
  BY <1>5, <1>10 DEF MonitorsCounted, MonitorFds, Monitored
<1> QED
  BY <1>6, <1>7, <1>9, <1>11

(* A client that is closed is the only one the list loses.                 *)
LEMMA CloseShape ==
    ASSUME PQInv, NEW k \in DOMAIN pq, pq[k].fd # NoFd, close_port(pq[k])
    PROVE  /\ pq[k].fd \in Fd /\ pq[k].fd \in ps.full
           /\ pq' \in Seq(Port) /\ Len(pq') = Len(pq) - 1 /\ DOMAIN pq' = 1..(Len(pq) - 1)
           /\ \A j \in 1..(Len(pq) - 1) : pq'[j] = IF j < k THEN pq[j] ELSE pq[j + 1]
           /\ ps'.full = ps.full \ {pq[k].fd}
           /\ ps'.sel = ps.sel /\ ps'.selcount = ps.selcount
<1> DEFINE p == pq[k]
<1> USE DEF PQInv, PortTable
<1>1. /\ pq \in Seq(Port) /\ Len(pq) \in Nat /\ DOMAIN pq = 1..Len(pq)
      /\ \A j \in 1..Len(pq) : pq[j] \in Port
      /\ ps \in ThreadFds(Fd)
  BY LenProperties, ElementOfSeq DEF PQTypeOK
<1>2. p.fd \in Fd
  <2>1. p \in Port
    BY <1>1
  <2> QED
    BY <2>1 DEF Port
<1>3. p.fd \in ps.full
  BY DEF WatchedExactly
<1>4. pq' = RemoveAt(pq, k)
  <2>1. \A j \in 1..Len(pq) : pq[j] = pq[k] => j = k
    BY <1>1 DEF DistinctFds
  <2>2. pq' = RemoveFirst(pq, p)
    BY <1>3 DEF close_port
  <2> QED
    BY <2>1, <2>2, <1>1, RemoveFirstUnique
<1>5. /\ pq' \in Seq(Port) /\ Len(pq') = Len(pq) - 1
      /\ \A j \in 1..(Len(pq) - 1) : pq'[j] = IF j < k THEN pq[j] ELSE pq[j + 1]
  BY <1>1, <1>4, RemoveAtProperties
<1>6. DOMAIN pq' = 1..Len(pq')
  BY <1>5, LenProperties
<1>7. ps'.full = ps.full \ {p.fd} /\ ps'.sel = ps.sel /\ ps'.selcount = ps.selcount
  BY <1>1, <1>3 DEF close_port, ThreadFds
<1> QED
  BY <1>2, <1>3, <1>5, <1>6, <1>7

(* A closed client leaves all three views at once.                         *)
LEMMA CloseInv ==
    ASSUME PQInv, NEW k \in DOMAIN pq, pq[k].fd # NoFd, close_port(pq[k])
    PROVE  PQInv'
<1> DEFINE p == pq[k]
           cleared == [ps EXCEPT !.fullcount = @ - 1, !.full = @ \ {p.fd}]
<1> USE DEF PQInv, PortTable
<1>1. /\ pq \in Seq(Port) /\ Len(pq) \in Nat /\ DOMAIN pq = 1..Len(pq)
      /\ \A j \in 1..Len(pq) : pq[j] \in Port
      /\ ps \in ThreadFds(Fd) /\ monitorcount \in Nat
  BY LenProperties, ElementOfSeq DEF PQTypeOK
<1>2. p.fd \in Fd /\ p.fd \in Int /\ p.fd \in ps.full /\ ps.fullcount = Len(pq)
  <2>1. p \in Port
    BY <1>1
  <2>2. p.fd \in Fd
    BY <2>1 DEF Port
  <2>3. p.fd \in ps.full /\ ps.fullcount = Len(pq)
    BY DEF WatchedExactly
  <2>4. \A f \in Fd : f \in Int
    BY PortQueueAssumption
  <2>5. p.fd \in Int
    BY <2>2, <2>4
  <2> QED
    BY <2>2, <2>3, <2>5
<1>3. /\ pq' = RemoveFirst(pq, p)
      /\ ps' = [cleared EXCEPT !.maxfd = adjust_maxfd(cleared, p.fd)]
      /\ monitorcount' = monitorcount - (IF "MONITOR" \in p.flag THEN 1 ELSE 0)
  BY <1>2 DEF close_port
<1>4. \A j \in DOMAIN pq : pq[j].fd = p.fd => j = k
  BY DEF DistinctFds
<1>6. /\ pq' \in Seq(Port) /\ Len(pq') = Len(pq) - 1 /\ DOMAIN pq' = 1..(Len(pq) - 1)
      /\ \A j \in 1..(Len(pq) - 1) : pq'[j] = IF j < k THEN pq[j] ELSE pq[j + 1]
  BY CloseShape
<1> DEFINE old(j) == IF j < k THEN j ELSE j + 1
           new(j) == IF j < k THEN j ELSE j - 1
<1>7. \A j \in DOMAIN pq' : old(j) \in DOMAIN pq /\ old(j) # k /\ pq'[j] = pq[old(j)]
  BY <1>1, <1>6
<1>8. ASSUME NEW j \in DOMAIN pq, j # k
      PROVE  new(j) \in DOMAIN pq' /\ pq'[new(j)] = pq[j]
  <2>1. CASE j < k
    BY <2>1, <1>1, <1>6
  <2>2. CASE ~ (j < k)
    <3>1. j - 1 \in 1..(Len(pq) - 1) /\ ~ (j - 1 < k) /\ (j - 1) + 1 = j
      BY <2>2, <1>1, <1>8
    <3> QED
      BY <2>2, <3>1, <1>6
  <2> QED
    BY <2>1, <2>2
<1>9. \A j, l \in DOMAIN pq' : old(j) = old(l) => j = l
  BY <1>1, <1>6
<1> HIDE DEF old, new
<1>10. DistinctFds'
  <2> SUFFICES ASSUME NEW j \in DOMAIN pq', NEW l \in DOMAIN pq'
               PROVE  /\ pq'[j].fd = pq'[l].fd => j = l \/ pq'[j].fd = NoFd
                      /\ pq'[j].fd = NoFd => "MONITOR" \notin pq'[j].flag
    BY DEF DistinctFds
  <2> QED
    BY <1>7, <1>9 DEF DistinctFds
<1>11. PortFds(pq') = PortFds(pq) \ {p.fd}
  <2>1. ASSUME NEW f \in PortFds(pq') PROVE f \in PortFds(pq) \ {p.fd}
    BY <2>1, <1>4, <1>7 DEF PortFds
  <2>2. ASSUME NEW f \in PortFds(pq) \ {p.fd} PROVE f \in PortFds(pq')
    BY <2>2, <1>8 DEF PortFds
  <2> QED
    BY <2>1, <2>2
<1>12. MonitorFds(pq') = MonitorFds(pq) \ {p.fd}
  <2>1. ASSUME NEW f \in MonitorFds(pq') PROVE f \in MonitorFds(pq) \ {p.fd}
    BY <2>1, <1>4, <1>7 DEF MonitorFds
  <2>2. ASSUME NEW f \in MonitorFds(pq) \ {p.fd} PROVE f \in MonitorFds(pq')
    BY <2>2, <1>8 DEF MonitorFds
  <2> QED
    BY <2>1, <2>2
<1>13. /\ cleared.full = ps.full \ {p.fd} /\ cleared.maxfd = ps.maxfd
       /\ ps'.full = cleared.full /\ ps'.fullcount = ps.fullcount - 1
       /\ ps'.maxfd = adjust_maxfd(cleared, p.fd)
       /\ ps'.selcount = ps.selcount /\ ps'.sel = ps.sel
       /\ ps' = [fullcount |-> ps'.fullcount, full |-> ps'.full, maxfd |-> ps'.maxfd,
                 selcount |-> ps'.selcount, sel |-> ps'.sel]
  BY <1>1, <1>3 DEF ThreadFds
<1>14. /\ ps'.maxfd \in ps'.full \cup {NoFd}
       /\ \A f \in ps'.full : f <= ps'.maxfd
  <2>1. /\ ps.full \subseteq Nat \cup {NoFd} /\ ps.maxfd \in Int
        /\ ps.maxfd \in ps.full \cup {NoFd} /\ \A f \in ps.full : f <= ps.maxfd
    <3>a. (\A f \in Fd : f \in Nat) /\ NoFd \in Int
      BY PortQueueAssumption DEF NoFd
    <3>b. ps.full \subseteq Fd \cup {NoFd} /\ ps.maxfd \in Fd \cup {NoFd}
      BY <1>1 DEF ThreadFds
    <3>1. ps.full \subseteq Nat \cup {NoFd} /\ ps.maxfd \in Int
      BY <3>a, <3>b
    <3>2. ps.maxfd \in ps.full \cup {NoFd} /\ \A f \in ps.full : f <= ps.maxfd
      BY DEF WatchedExactly
    <3> QED
      BY <3>1, <3>2
  <2>2. /\ cleared.full \subseteq Nat \cup {NoFd} /\ cleared.maxfd \in Int
        /\ p.fd \notin cleared.full
        /\ cleared.maxfd \in cleared.full \cup {p.fd, NoFd}
        /\ \A f \in cleared.full : f <= cleared.maxfd
    BY <2>1, <1>13
  <2> HIDE DEF cleared, p
  <2>3. /\ adjust_maxfd(cleared, p.fd) \in cleared.full \cup {NoFd}
        /\ \A f \in cleared.full : f <= adjust_maxfd(cleared, p.fd)
    BY <2>2, <1>2, AdjustBounds
  <2> QED
    BY <2>3, <1>13
<1>15. WatchedExactly'
  <2>1. ps'.full = PortFds(pq')
    BY <1>11, <1>13 DEF WatchedExactly, PortFds
  <2>2. ps'.fullcount = Len(pq')
    BY <1>2, <1>6, <1>13
  <2> QED
    BY <2>1, <2>2, <1>14 DEF WatchedExactly, PortFds
<1>16. p.fd \in MonitorFds(pq) <=> "MONITOR" \in p.flag
  BY <1>4 DEF MonitorFds
<1>17. monitorcount' \in Nat /\ monitorcount' = Cardinality(MonitorFds(pq'))
  <2>1. IsFiniteSet(MonitorFds(pq)) /\ monitorcount = Cardinality(MonitorFds(pq))
    BY <1>1, MonitorFdsFinite DEF MonitorsCounted, MonitorFds, Monitored
  <2>2. Cardinality(MonitorFds(pq')) =
           IF p.fd \in MonitorFds(pq) THEN monitorcount - 1 ELSE monitorcount
    BY <2>1, <1>12, FS_RemoveElement
  <2>3. Cardinality(MonitorFds(pq')) \in Nat
    BY <1>6, MonitorFdsFinite
  <2>4. monitorcount' = Cardinality(MonitorFds(pq'))
    BY <2>2, <1>1, <1>3, <1>16
  <2> QED
    BY <2>3, <2>4
<1>18. PQTypeOK'
  <2>1. /\ ps'.fullcount \in Nat /\ ps'.full \subseteq Fd \cup {NoFd}
        /\ ps'.maxfd \in Fd \cup {NoFd} /\ ps'.selcount \in Nat /\ ps'.sel \subseteq Fd
    BY <1>1, <1>2, <1>13, <1>14 DEF ThreadFds
  <2>2. ps' \in ThreadFds(Fd)
    BY <2>1, <1>13 DEF ThreadFds
  <2> QED
    BY <2>2, <1>6, <1>17 DEF PQTypeOK
<1> QED
  BY <1>10, <1>15, <1>17, <1>18 DEF MonitorsCounted, MonitorFds, Monitored

(* A step that keeps the list's order and descriptors, and the watched     *)
(* set, only has to account for the subscribers.                           *)
LEMMA SameClientsInv ==
    ASSUME PQInv, pq' \in Seq(Port), DOMAIN pq' = DOMAIN pq,
           \A j \in DOMAIN pq : pq'[j].fd = pq[j].fd,
           \A j \in DOMAIN pq : pq[j].fd = NoFd => "MONITOR" \notin pq'[j].flag,
           ps' \in ThreadFds(Fd), ps'.fullcount = ps.fullcount,
           ps'.full = ps.full, ps'.maxfd = ps.maxfd,
           monitorcount' = Cardinality(MonitorFds(pq'))
    PROVE  PQInv'
<1> USE DEF PQInv, PortTable
<1>1. PQTypeOK'
  BY MonitorFdsFinite DEF PQTypeOK
<1>2. DistinctFds'
  BY DEF DistinctFds
<1>3. WatchedExactly'
  <2>1. Len(pq') = Len(pq)
    <3>1. pq \in Seq(Port)
      BY DEF PQTypeOK
    <3>2. Len(pq) \in Nat /\ DOMAIN pq = 1..Len(pq) /\ Len(pq') \in Nat /\ DOMAIN pq' = 1..Len(pq')
      BY <3>1, LenProperties
    <3> QED
      BY <3>2
  <2>2. PortFds(pq') = PortFds(pq)
    BY DEF PortFds
  <2> QED
    BY <2>1, <2>2 DEF WatchedExactly, PortFds
<1> QED
  BY <1>1, <1>2, <1>3 DEF MonitorsCounted, MonitorFds, Monitored

(* "monitor" raises monitorcount and the flag of one entry together.      *)
LEMMA MonitorOnInv ==
    ASSUME PQInv, NEW k \in DOMAIN pq, pq[k].fd # NoFd, MonitorOn(k)
    PROVE  PQInv'
<1>1. CASE "MONITOR" \in pq[k].flag
  BY <1>1 DEF MonitorOn, pqvars, PQInv, PQTypeOK, PortTable, DistinctFds,
              WatchedExactly, MonitorsCounted, Monitored
<1>2. CASE "MONITOR" \notin pq[k].flag
  <2> DEFINE flag == pq[k].flag \cup {"MONITOR"}
  <2>1. pq \in Seq(Port) /\ ps \in ThreadFds(Fd) /\ DistinctFds
    BY DEF PQInv, PQTypeOK, PortTable
  <2>2. flag \in SUBSET {"READ", "WRITE", "MONITOR"}
    <3>1. pq[k] \in Port
      BY <2>1, LenProperties, ElementOfSeq
    <3> QED
      BY <3>1 DEF Port
  <2>3. /\ pq' = [pq EXCEPT ![k].flag = flag]
        /\ monitorcount' = monitorcount + 1 /\ ps' = ps
    BY <1>2 DEF MonitorOn
  <2> HIDE DEF flag
  <2>4. /\ pq' \in Seq(Port) /\ DOMAIN pq' = DOMAIN pq
        /\ \A j \in DOMAIN pq : pq'[j].fd = pq[j].fd
        /\ pq'[k].flag = flag
        /\ \A j \in DOMAIN pq \ {k} : pq'[j] = pq[j]
    <3>1. /\ Len(pq) \in Nat /\ DOMAIN pq = 1..Len(pq) /\ pq \in [1..Len(pq) -> Port]
          /\ \A j \in DOMAIN pq : pq[j] \in Port
      BY <2>1, LenProperties
    <3>2. /\ DOMAIN pq' = DOMAIN pq /\ pq'[k] = [pq[k] EXCEPT !.flag = flag]
          /\ \A j \in DOMAIN pq \ {k} : pq'[j] = pq[j]
      BY <3>1, <2>3
    <3>3. pq'[k] \in Port /\ pq'[k].fd = pq[k].fd /\ pq'[k].flag = flag
      BY <3>1, <3>2, <2>2 DEF Port
    <3>4. pq' \in [1..Len(pq) -> Port]
      BY <3>1, <3>2, <3>3, <2>3
    <3>5. pq' \in Seq(Port)
      BY <3>4, <3>1
    <3> QED
      BY <3>2, <3>3, <3>5
  <2>5. "MONITOR" \in flag
    BY DEF flag
  <2>6. MonitorFds(pq') = MonitorFds(pq) \cup {pq[k].fd} /\ pq[k].fd \notin MonitorFds(pq)
    <3>1. ASSUME NEW f \in MonitorFds(pq') PROVE f \in MonitorFds(pq) \cup {pq[k].fd}
      BY <3>1, <2>4 DEF MonitorFds
    <3>2. ASSUME NEW f \in MonitorFds(pq) PROVE f \in MonitorFds(pq')
      BY <3>2, <2>4, <1>2 DEF MonitorFds
    <3>3. pq[k].fd \in MonitorFds(pq')
      BY <2>4, <2>5 DEF MonitorFds
    <3>4. pq[k].fd \notin MonitorFds(pq)
      BY <2>1, <1>2 DEF MonitorFds, DistinctFds
    <3> QED
      BY <3>1, <3>2, <3>3, <3>4
  <2>7. monitorcount = Cardinality(MonitorFds(pq)) /\ IsFiniteSet(MonitorFds(pq))
    BY <2>1, MonitorFdsFinite DEF PQInv, PortTable, MonitorsCounted, MonitorFds, Monitored
  <2>8. monitorcount' = Cardinality(MonitorFds(pq'))
    BY <2>3, <2>6, <2>7, FS_AddElement
  <2>9. \A j \in DOMAIN pq : pq[j].fd = NoFd => "MONITOR" \notin pq'[j].flag
    BY <2>1, <2>4 DEF DistinctFds
  <2> QED
    BY <2>1, <2>3, <2>4, <2>8, <2>9, SameClientsInv
<1> QED
  BY <1>1, <1>2

(* "monitor off" lowers both together, and only for a set flag.           *)
LEMMA MonitorOffInv ==
    ASSUME PQInv, NEW k \in DOMAIN pq, pq[k].fd # NoFd, MonitorOff(k)
    PROVE  PQInv'
<1>1. CASE "MONITOR" \notin pq[k].flag
  BY <1>1 DEF MonitorOff, pqvars, PQInv, PQTypeOK, PortTable, DistinctFds,
              WatchedExactly, MonitorsCounted, Monitored
<1>2. CASE "MONITOR" \in pq[k].flag
  <2> DEFINE flag == pq[k].flag \ {"MONITOR"}
  <2>1. pq \in Seq(Port) /\ ps \in ThreadFds(Fd) /\ DistinctFds
    BY DEF PQInv, PQTypeOK, PortTable
  <2>2. flag \in SUBSET {"READ", "WRITE", "MONITOR"}
    <3>1. pq[k] \in Port
      BY <2>1, LenProperties, ElementOfSeq
    <3> QED
      BY <3>1 DEF Port
  <2>3. /\ pq' = [pq EXCEPT ![k].flag = flag]
        /\ monitorcount' = monitorcount - 1 /\ ps' = ps
    BY <1>2 DEF MonitorOff
  <2> HIDE DEF flag
  <2>4. /\ pq' \in Seq(Port) /\ DOMAIN pq' = DOMAIN pq
        /\ \A j \in DOMAIN pq : pq'[j].fd = pq[j].fd
        /\ pq'[k].flag = flag
        /\ \A j \in DOMAIN pq \ {k} : pq'[j] = pq[j]
    <3>1. /\ Len(pq) \in Nat /\ DOMAIN pq = 1..Len(pq) /\ pq \in [1..Len(pq) -> Port]
          /\ \A j \in DOMAIN pq : pq[j] \in Port
      BY <2>1, LenProperties
    <3>2. /\ DOMAIN pq' = DOMAIN pq /\ pq'[k] = [pq[k] EXCEPT !.flag = flag]
          /\ \A j \in DOMAIN pq \ {k} : pq'[j] = pq[j]
      BY <3>1, <2>3
    <3>3. pq'[k] \in Port /\ pq'[k].fd = pq[k].fd /\ pq'[k].flag = flag
      BY <3>1, <3>2, <2>2 DEF Port
    <3>4. pq' \in [1..Len(pq) -> Port]
      BY <3>1, <3>2, <3>3, <2>3
    <3>5. pq' \in Seq(Port)
      BY <3>4, <3>1
    <3> QED
      BY <3>2, <3>3, <3>5
  <2>5. "MONITOR" \notin flag
    BY DEF flag
  <2>6. MonitorFds(pq') = MonitorFds(pq) \ {pq[k].fd} /\ pq[k].fd \in MonitorFds(pq)
    <3>0. \A j \in DOMAIN pq : pq[j].fd = pq[k].fd => j = k
      BY <2>1 DEF DistinctFds
    <3>1. ASSUME NEW f \in MonitorFds(pq') PROVE f \in MonitorFds(pq) \ {pq[k].fd}
      BY <3>0, <3>1, <2>4, <2>5 DEF MonitorFds
    <3>2. ASSUME NEW f \in MonitorFds(pq) \ {pq[k].fd} PROVE f \in MonitorFds(pq')
      BY <3>2, <2>4 DEF MonitorFds
    <3>3. pq[k].fd \in MonitorFds(pq)
      BY <1>2 DEF MonitorFds
    <3> QED
      BY <3>1, <3>2, <3>3
  <2>7. monitorcount = Cardinality(MonitorFds(pq)) /\ IsFiniteSet(MonitorFds(pq))
    BY <2>1, MonitorFdsFinite DEF PQInv, PortTable, MonitorsCounted, MonitorFds, Monitored
  <2>8. monitorcount' = Cardinality(MonitorFds(pq'))
    BY <2>3, <2>6, <2>7, FS_RemoveElement
  <2>9. \A j \in DOMAIN pq : pq[j].fd = NoFd => "MONITOR" \notin pq'[j].flag
    BY <2>1, <2>4, <2>5 DEF DistinctFds
  <2> QED
    BY <2>1, <2>3, <2>4, <2>8, <2>9, SameClientsInv
<1> QED
  BY <1>1, <1>2

(* A reload changes rights only: FLAG_MONITOR and the counter stay.        *)
LEMMA ReauthenticateInv ==
    ASSUME PQInv, NEW full \in SUBSET DOMAIN pq, reauthenticate_users(full)
    PROVE  PQInv'
<1> DEFINE flag(k) == (pq[k].flag \ {"READ", "WRITE"}) \cup Rights(k \in full)
<1>1. /\ pq \in Seq(Port) /\ Len(pq) \in Nat /\ DOMAIN pq = 1..Len(pq)
      /\ \A k \in DOMAIN pq : pq[k] \in Port
      /\ ps \in ThreadFds(Fd) /\ DistinctFds
  BY LenProperties, ElementOfSeq DEF PQInv, PQTypeOK, PortTable
<1>2. /\ pq' = [k \in DOMAIN pq |-> [pq[k] EXCEPT !.flag = flag(k)]]
      /\ ps' = ps /\ monitorcount' = monitorcount
  BY DEF reauthenticate_users
<1>3. \A k \in DOMAIN pq : /\ flag(k) \in SUBSET {"READ", "WRITE", "MONITOR"}
                           /\ "MONITOR" \in flag(k) <=> "MONITOR" \in pq[k].flag
  BY <1>1 DEF Rights, Port
<1> HIDE DEF flag
<1>4. DOMAIN pq' = DOMAIN pq
  BY <1>2
<1>5. ASSUME NEW k \in DOMAIN pq
      PROVE  /\ pq'[k] \in Port /\ pq'[k].fd = pq[k].fd
             /\ "MONITOR" \in pq'[k].flag <=> "MONITOR" \in pq[k].flag
  <2>1. pq'[k] = [pq[k] EXCEPT !.flag = flag(k)] /\ pq[k] \in Port
    BY <1>1, <1>2
  <2> QED
    BY <2>1, <1>3 DEF Port
<1>6. pq' \in Seq(Port)
  <2>1. pq' \in [1..Len(pq) -> Port]
    BY <1>1, <1>2, <1>5
  <2> QED
    BY <2>1, <1>1
<1>7. MonitorFds(pq') = MonitorFds(pq)
  <2>1. ASSUME NEW f \in MonitorFds(pq') PROVE f \in MonitorFds(pq)
    BY <2>1, <1>4, <1>5 DEF MonitorFds
  <2>2. ASSUME NEW f \in MonitorFds(pq) PROVE f \in MonitorFds(pq')
    BY <2>2, <1>4, <1>5 DEF MonitorFds
  <2> QED
    BY <2>1, <2>2
<1>8. monitorcount' = Cardinality(MonitorFds(pq'))
  BY <1>2, <1>7 DEF PQInv, PortTable, MonitorsCounted, MonitorFds, Monitored
<1>9. \A j \in DOMAIN pq : pq[j].fd = NoFd => "MONITOR" \notin pq'[j].flag
  BY <1>1, <1>5 DEF DistinctFds
<1> QED
  BY <1>1, <1>2, <1>4, <1>5, <1>6, <1>8, <1>9, SameClientsInv

(* selectloop changes the two working sets only.                          *)
LEMMA SelectInv ==
    ASSUME PQInv, NEW visited \in SUBSET Fd, SelectPorts(visited)
    PROVE  PQInv'
<1>1. pq' = pq /\ monitorcount' = monitorcount /\ ps' = demux_fds(ps, visited)
  BY DEF SelectPorts
<1>2. pq \in Seq(Port) /\ ps \in ThreadFds(Fd) /\ DistinctFds
  BY DEF PQInv, PQTypeOK, PortTable
<1>3. Cardinality(visited \cap ps.full) \in Nat
  <2>1. visited \cap ps.full \in SUBSET Fd
    OBVIOUS
  <2>2. IsFiniteSet(visited \cap ps.full)
    BY <2>1, PortQueueAssumption, FS_Subset
  <2> QED
    BY <2>2, FS_CardinalityType
<1>4. /\ ps' \in ThreadFds(Fd) /\ ps'.fullcount = ps.fullcount
      /\ ps'.full = ps.full /\ ps'.maxfd = ps.maxfd
  BY <1>1, <1>2, <1>3 DEF demux_fds, ThreadFds
<1>5. monitorcount' = Cardinality(MonitorFds(pq'))
  BY <1>1 DEF PQInv, PortTable, MonitorsCounted, MonitorFds, Monitored
<1> QED
  BY <1>1, <1>2, <1>4, <1>5, SameClientsInv DEF DistinctFds

(* Every operation on the queue keeps the invariant.                       *)
LEMMA NextInv == PQInv /\ [PQNext]_pqvars => PQInv'
<1> SUFFICES ASSUME PQInv, [PQNext]_pqvars PROVE PQInv'
  OBVIOUS
<1>1. CASE UNCHANGED pqvars
  BY <1>1 DEF pqvars, PQInv, PQTypeOK, PortTable, DistinctFds,
              WatchedExactly, MonitorsCounted, Monitored
<1>2. CASE \E p \in Port : NewPort(p) /\ ~ MallocFails /\ port_enqueue(p)
  BY <1>2, EnqueueInv
<1>3. CASE \E k \in DOMAIN pq : pq[k].fd # NoFd /\ close_port(pq[k])
  BY <1>3, CloseInv
<1>4. CASE \E k \in DOMAIN pq : pq[k].fd # NoFd /\ MonitorOn(k)
  BY <1>4, MonitorOnInv
<1>5. CASE \E k \in DOMAIN pq : pq[k].fd # NoFd /\ MonitorOff(k)
  BY <1>5, MonitorOffInv
<1>6. CASE \E full \in SUBSET DOMAIN pq : reauthenticate_users(full)
  BY <1>6, ReauthenticateInv
<1>7. CASE \E visited \in SUBSET Fd : SelectPorts(visited)
  BY <1>7, SelectInv
<1> QED
  BY <1>1, <1>2, <1>3, <1>4, <1>5, <1>6, <1>7 DEF PQNext

(* The inductive invariant holds in every state of the port queue.         *)
THEOREM Invariance == PQSpec => []PQInv
<1> QED
  BY InitInv, NextInv, PTL DEF PQSpec

(* port_t, fds->ps and monitorcount keep their types; in particular        *)
(* monitorcount, which any client makes go up and down, is never negative. *)
THEOREM PQTypeCorrect == PQSpec => []PQTypeOK
<1>1. PQInv => PQTypeOK
  BY DEF PQInv
<1> QED
  BY <1>1, Invariance, PTL

(* The list, the set select() watches and the number of subscribers agree  *)
(* after every sequence of connects, commands, hang-ups and reloads, for   *)
(* every number of clients and descriptors.                                *)
THEOREM TableConsistent == PQSpec => []PortTable
<1>1. PQInv => PortTable
  BY DEF PQInv
<1> QED
  BY <1>1, Invariance, PTL
===============================================================================

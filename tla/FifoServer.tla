----------------------------- MODULE FifoServer ------------------------------
(***************************************************************************)
(* server/fifo-server.c: the monitor pipe from diald and its fan-out to    *)
(* the clients that subscribed.                                            *)
(***************************************************************************)
EXTENDS Process

VARIABLES
    monitorfd,
    line,           \* the messages the last read() of the pipe returned
    openFailed,     \* history: the last open() of a monitor pipe failed
    epipe           \* history: a write to a subscriber has failed with EPIPE

fifovars == <<monitorfd, line, openFailed, epipe>>

FifoTypeOK ==
    /\ monitorfd \in Fd \cup {NoFd}
    /\ line \in Seq(1..MaxChunk)
    /\ openFailed \in BOOLEAN
    /\ epipe \in BOOLEAN

FifoInit ==
    /\ monitorfd = NoFd
    /\ line = <<>>
    /\ openFailed = FALSE
    /\ epipe = FALSE
-------------------------------------------------------------------------------
(* diald, if it can be reached, will open the FIFO it is told of.          *)
AskDiald == [writer |-> IF diald /\ controlfd # NoFd THEN "asked" ELSE "none",
             q |-> <<>>]

(* A monitor_open that forgets the maxfd of fds->fs.                       *)
monitor_open_nomax ==
    LET f == Alloc(files) IN
    IF monitorfd # NoFd \/ f = NoFd
    THEN UNCHANGED <<files, pipe, fs, monitorfd, openFailed>>
    ELSE /\ files' = Install(files, f, "pipe")
         /\ monitorfd' = f
         /\ openFailed' = FALSE
         /\ pipe' = AskDiald
         /\ fs' = [fs EXCEPT !.fullcount = 1, !.full = {f}]

(* monitor_open; the open() fails when the process is out of descriptors.  *)
monitor_open ==
    LET f == Alloc(files) IN
    IF monitorfd # NoFd
    THEN UNCHANGED <<files, pipe, fs, monitorfd, openFailed>>
    ELSE /\ files' = Install(files, f, "pipe")
         /\ monitorfd' = f
         /\ openFailed' = (f = NoFd)
         /\ IF f = NoFd
            THEN UNCHANGED <<pipe, fs>>
            ELSE /\ pipe' = AskDiald
                 /\ fs' = [fs EXCEPT !.fullcount = 1, !.full = {f}, !.maxfd = f]

(* A monitor_close that leaves the descriptor in fds->fs.                  *)
monitor_close_watched ==
    /\ files' = Install(files, monitorfd, "free")
    /\ pipe' = NoPipe
    /\ monitorfd' = NoFd
    /\ openFailed' = FALSE
    /\ UNCHANGED fs

monitor_close ==
    IF monitorfd = NoFd
    THEN UNCHANGED <<files, pipe, fs, monitorfd, openFailed>>
    ELSE /\ files' = Install(files, monitorfd, "free")
         /\ pipe' = NoPipe
         /\ monitorfd' = NoFd
         /\ openFailed' = FALSE
         /\ fs' = EmptyFds

(* fifo_server's first test: nobody is left to send to.                    *)
FifoEnter ==
    /\ pc = "fifo"
    /\ IF ps.fullcount = 0 \/ monitorcount = 0
       THEN monitor_close /\ Goto("select")
       ELSE Goto("fread") /\ UNCHANGED <<files, pipe, fs, monitorfd, openFailed>>
    /\ UNCHANGED <<pqvars, backlog, clientvars, diald, written, got,
                   pd, controlfd, s_in, line, epipe>>

(* read() of at most 1000 bytes: some of what the pipe holds, or nothing   *)
(* (EAGAIN, or the end of file once diald is gone), which ends the loop.   *)
FifoRead ==
    /\ pc = "fread"
    /\ IF pipe.q = <<>>
       THEN Goto("select") /\ UNCHANGED <<pipe, line>>
       ELSE \E n \in 1..Len(pipe.q) :
              /\ line' = SubSeq(pipe.q, 1, n)
              /\ pipe' = [pipe EXCEPT !.q = SubSeq(@, n + 1, Len(@))]
              /\ pc' = "fwrite" /\ curr' = 1 /\ i' = 0
    /\ UNCHANGED <<pqvars, kernelvars, clientvars, diald, written, got,
                   pd, fs, controlfd, s_in, monitorfd, openFailed, epipe>>

(* The loop condition, and where the loop finds its next subscriber.       *)
NextMonitor == {k \in Monitored : k >= curr}

Fanning == NextMonitor # {} /\ i < monitorcount

(* The end of the loop over pq, and the test of the do-while around it.    *)
FifoRoundEnd ==
    /\ pc = "fwrite" /\ ~ Fanning
    /\ Goto(IF monitorcount # 0 THEN "fread" ELSE "select")
    /\ line' = <<>>
    /\ UNCHANGED <<pqvars, worldvars, pd, fs, controlfd, s_in,
                   monitorfd, openFailed, epipe>>

(* A fan-out that steps back to the head of the list after every write.    *)
FifoSent_again(k) == IF i = 0 THEN k ELSE k + 1

(* Where the loop goes on after a write that did not fail.                 *)
FifoSent(k) == k + 1

(* write() to a subscriber, which waits while the peer reads nothing and   *)
(* has no room left.  One whose peer has hung up accepts the data          *)
(* or fails with EPIPE; the port is then closed, and because prev is       *)
(* always NULL the loop starts again at the head of the list, while i      *)
(* counts on and monitorcount is one less.                                 *)
FifoWrite ==
    /\ pc = "fwrite" /\ Fanning
    /\ LET k == Min(NextMonitor)
           c == files[pq[k].fd]
       IN  /\ Writable(c)
           /\ \/ /\ got' = IF client[c] = "up" THEN [got EXCEPT ![c] = @ \o line] ELSE got
                 /\ curr' = FifoSent(k)
                 /\ UNCHANGED <<pqvars, files, client, inbox, epipe>>
              \/ /\ client[c] = "down"
                 /\ ClosePort(pq[k])
                 /\ curr' = 1
                 /\ epipe' = TRUE
                 /\ UNCHANGED got
    /\ i' = i + 1
    /\ UNCHANGED <<backlog, sent, stalled, dialdvars, pc, pd, fs, controlfd, s_in, monitorfd, line, openFailed>>

FifoStep == FifoEnter \/ FifoRead \/ FifoWrite \/ FifoRoundEnd
===============================================================================

------------------------------ MODULE Selection ------------------------------
(***************************************************************************)
(* server/selection.c and server/fds.h: the descriptor sets behind the one *)
(* select() of diald-top-server.                                           *)
(*                                                                         *)
(* Each of the three parts of the server (port daemon pd, port server ps,  *)
(* FIFO server fs) owns a thread_fds_t: the descriptors it wants watched   *)
(* (full, fullcount, maxfd) and the ones the last select() reported (sel,  *)
(* selcount).  mux_fds merges the three into one set before select(),      *)
(* demux_fds hands the ready ones back to their owners.                    *)
(***************************************************************************)
EXTENDS Integers, FiniteSets, FiniteSetsExt

NoFd == -1

ThreadFds(F) ==
    [fullcount : Nat, full : SUBSET (F \cup {NoFd}), maxfd : F \cup {NoFd},
     selcount : Nat, sel : SUBSET F]

EmptyFds ==
    [fullcount |-> 0, full |-> {}, maxfd |-> NoFd, selcount |-> 0, sel |-> {}]

(* The loop "for (i = 0; i <= maxfd; i++) if (FD_ISSET(i, &full))".        *)
Scanned(t) == {f \in t.full : 0 <= f /\ f <= t.maxfd}

(* The new maxfd once currfd has been taken out of t.full.                 *)
adjust_maxfd(t, currfd) ==
    IF t.maxfd # currfd THEN t.maxfd ELSE Max(Scanned(t) \cup {NoFd})

(* The set and the bound given to select().                                *)
mux_fds(pd, ps, fs) ==
    [full  |-> Scanned(pd) \cup Scanned(ps) \cup Scanned(fs),
     maxfd |-> Max({NoFd, pd.maxfd, ps.maxfd, fs.maxfd})]

(* The loop with "i < maxfd" for its bound.                                *)
Demuxed_below(ready, selcount, maxfd, count) ==
    {f \in ready : f < maxfd /\ count + Cardinality({g \in ready : g < f}) < selcount}

(* What the loop of demux_fds visits: the set bits in ascending order, for *)
(* as long as count < selcount.  The local count is never initialised: its *)
(* first value is the parameter count.                                     *)
Demuxed(ready, selcount, maxfd, count) ==
    {f \in ready : f <= maxfd /\ count + Cardinality({g \in ready : g < f}) < selcount}

(* demux_fds without its FD_ZEROs: what an earlier round left in sel stays.*)
demux_fds_nozero(t, visited) ==
    [t EXCEPT !.sel = @ \cup (visited \cap t.full),
              !.selcount = Cardinality(visited \cap t.full)]

(* One owner's share of the visited descriptors.                           *)
demux_fds(t, visited) ==
    [t EXCEPT !.sel = visited \cap t.full,
              !.selcount = Cardinality(visited \cap t.full)]
===============================================================================

-------------------------------- MODULE World --------------------------------
(***************************************************************************)
(* What diald-top-server runs in, modelled from how server/*.c uses it:    *)
(* the descriptor table of the process, its TCP connections and the remote *)
(* clients behind them, and diald with the two FIFOs to and from it.       *)
(***************************************************************************)
EXTENDS PortQueue

CONSTANTS
    MaxSend,    \* lines one client sends
    MaxChunk,   \* messages diald writes to the monitor FIFO
    Line,       \* the lines the clients of this instance send
    MayStall    \* connections whose clients may stop reading

Lines == {"monitor on", "monitor off", "monitor off CR", "close", "force"}

ASSUME WorldAssumption ==
    /\ MaxSend \in Nat /\ MaxChunk \in Nat
    /\ Line \subseteq Lines
    /\ MayStall \subseteq Conn
    /\ Conn \cap {"ident", "pipe", "free"} = {}

VARIABLES
    files,      \* descriptor |-> the connection it is, "ident", "pipe", "free"
    client,     \* connection |-> "idle", "up", "down" (hung up), "closed" (by us)
    inbox,      \* connection |-> lines that have arrived and are not read yet
    sent,       \* connection |-> how many lines it has sent
    stalled,    \* connections with a full socket buffer, nobody reading
    backlog,    \* connections accept() has not returned yet
    diald,      \* is diald there to read the control FIFO?
    pipe,       \* the monitor FIFO: its writer, and what it holds
    written,    \* messages diald has written
    got         \* connection |-> the messages it was sent, in order

kernelvars == <<files, backlog>>
clientvars == <<client, inbox, sent, stalled>>
dialdvars == <<diald, pipe, written>>
worldvars == <<kernelvars, clientvars, dialdvars, got>>

NoPipe == [writer |-> "none", q |-> <<>>]

WorldTypeOK ==
    /\ files \in [Fd -> Conn \cup {"ident", "pipe", "free"}]
    /\ client \in [Conn -> {"idle", "up", "down", "closed"}]
    /\ inbox \in [Conn -> Seq(Lines)]
    /\ sent \in [Conn -> 0..MaxSend]
    /\ stalled \subseteq Conn
    /\ backlog \in Seq(Conn)
    /\ diald \in BOOLEAN
    /\ pipe \in [writer : {"none", "asked", "open", "eof"}, q : Seq(1..MaxChunk)]
    /\ written \in 0..MaxChunk
    /\ got \in [Conn -> Seq(1..MaxChunk)]

WorldInit ==
    /\ files = [f \in Fd |-> "free"]
    /\ client = [c \in Conn |-> "idle"]
    /\ inbox = [c \in Conn |-> <<>>]
    /\ sent = [c \in Conn |-> 0]
    /\ stalled = {}
    /\ backlog = <<>>
    /\ diald = TRUE
    /\ pipe = NoPipe
    /\ written = 0
    /\ got = [c \in Conn |-> <<>>]
-------------------------------------------------------------------------------
(* Descriptors: the kernel hands out the lowest free one, -1 (EMFILE) when *)
(* there is none.                                                          *)
FreeFds(table) == {f \in Fd : table[f] = "free"}

Alloc(table) == IF FreeFds(table) = {} THEN NoFd ELSE Min(FreeFds(table))

Install(table, f, what) == IF f = NoFd THEN table ELSE [table EXCEPT ![f] = what]

(* close(): the peer of a connection sees the end of it, and what it had   *)
(* sent is discarded.                                                      *)
Close(f) ==
    /\ files' = Install(files, f, "free")
    /\ IF f # NoFd /\ files[f] \in Conn
       THEN /\ client' = [client EXCEPT ![files[f]] = "closed"]
            /\ inbox' = [inbox EXCEPT ![files[f]] = <<>>]
       ELSE UNCHANGED <<client, inbox>>

(* close_port with the close() in it.                                      *)
ClosePort(p) ==
    /\ close_port(p)
    /\ IF p.fd \in ps.full THEN Close(p.fd) ELSE UNCHANGED <<files, client, inbox>>

(* read() returns at once: there is data, or the peer has hung up.         *)
Readable(c) == inbox[c] # <<>> \/ client[c] = "down"

(* write() returns at once: there is room, or an error to report.          *)
Writable(c) == c \notin stalled \/ client[c] # "up"
-------------------------------------------------------------------------------
(* The remote clients.  A line is sent with one write(); lines that arrive *)
(* before the server reads are returned by the same read().                *)
Connect(c) ==
    /\ client[c] = "idle"
    /\ client' = [client EXCEPT ![c] = "up"]
    /\ backlog' = Append(backlog, c)
    /\ UNCHANGED <<files, inbox, sent, stalled, dialdvars, got>>

Send(c, l) ==
    /\ client[c] = "up" /\ sent[c] < MaxSend
    /\ sent' = [sent EXCEPT ![c] = @ + 1]
    /\ inbox' = [inbox EXCEPT ![c] = Append(@, l)]
    /\ UNCHANGED <<kernelvars, client, stalled, dialdvars, got>>

Hangup(c) ==
    /\ client[c] = "up"
    /\ client' = [client EXCEPT ![c] = "down"]
    /\ stalled' = stalled \ {c}
    /\ UNCHANGED <<kernelvars, inbox, sent, dialdvars, got>>

(* A listed client stops reading what it is sent, messages of diald or     *)
(* refusals, until its socket buffers are full; perhaps it reads on later. *)
Stall(c) ==
    /\ c \in MayStall /\ client[c] = "up" /\ \E k \in DOMAIN pq : pq[k].conn = c
    /\ stalled' = stalled \cup {c}
    /\ UNCHANGED <<kernelvars, client, inbox, sent, dialdvars, got>>

ReadOn(c) ==
    /\ c \in stalled
    /\ stalled' = stalled \ {c}
    /\ UNCHANGED <<kernelvars, client, inbox, sent, dialdvars, got>>

(* diald opens the FIFO it was told of, writes messages to it, and exits.  *)
DialdAttach ==
    /\ diald /\ pipe.writer = "asked"
    /\ pipe' = [pipe EXCEPT !.writer = "open"]
    /\ UNCHANGED <<kernelvars, clientvars, diald, written, got>>

DialdWrite ==
    /\ pipe.writer = "open" /\ written < MaxChunk
    /\ written' = written + 1
    /\ pipe' = [pipe EXCEPT !.q = Append(@, written + 1)]
    /\ UNCHANGED <<kernelvars, clientvars, diald, got>>

DialdExit ==
    /\ diald
    /\ diald' = FALSE
    /\ pipe' = [pipe EXCEPT !.writer = CASE @ = "open" -> "eof"
                                         [] @ = "asked" -> "none"
                                         [] OTHER -> @]
    /\ UNCHANGED <<kernelvars, clientvars, written, got>>

WorldStep ==
    \/ \E c \in Conn :
          \/ Connect(c) \/ Hangup(c) \/ Stall(c) \/ ReadOn(c)
          \/ \E l \in Line : Send(c, l)
    \/ DialdAttach
    \/ DialdWrite
    \/ DialdExit
===============================================================================

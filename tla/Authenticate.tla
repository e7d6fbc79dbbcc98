---------------------------- MODULE Authenticate -----------------------------
(***************************************************************************)
(* server/authenticate.c and conffile.y: who may send commands to diald,   *)
(* and the SIGHUP handler that reads the configuration again.  The handler *)
(* runs to its end wherever it comes in: the rest of the server stands     *)
(* still, and SIGHUP is ignored meanwhile.                                 *)
(***************************************************************************)
EXTENDS FifoServer

CONSTANTS
    Name,       \* words that may be a user name in the file
    Bit,        \* the bits of an address
    Address,    \* connection |-> the address of its client, a set of bits
    ConfFiles,  \* what the configuration file may hold: sequences of lines ...
    NoConf,     \* ... or no file that can be opened
    MaxHup      \* SIGHUPs sent

(* The grammar's two kinds of line, as tokens.  Anything else, a last line *)
(* without its newline too, is a syntax error.                             *)
BlankLine == <<>>
EntryLine == Name \X (SUBSET Bit) \X (SUBSET Bit)

(* auth_data_t; a user name is the sequence of its parts between colons.   *)
Entry == [userid : User, ip : SUBSET Bit, netmask : SUBSET Bit]

ASSUME AuthenticateAssumption ==
    /\ \A n \in Name : <<n>> \in User
    /\ Address \in [Conn \cup {NoConn} -> SUBSET Bit] /\ Address[NoConn] = {}
    /\ MaxHup \in Nat

VARIABLES
    aq,         \* the parsed entries
    conf,       \* history: the file they are from
    race,       \* a reload came while auth_check was walking aq
    hups,
    stale       \* history: clients a reload met after their auth_check began
                \* and before port_enqueue, and no reload since

authvars == <<aq, conf, race, hups, stale>>

AuthTypeOK ==
    /\ aq \in SUBSET Entry
    /\ conf \in ConfFiles \cup {NoConf}
    /\ race \in {"none", "late", "freed"}
    /\ hups \in 0..MaxHup
    /\ stale \subseteq Conn

AuthInit ==
    /\ aq = {}
    /\ conf = NoConf
    /\ race = "none"
    /\ hups = 0
    /\ stale = {}
-------------------------------------------------------------------------------
(* auth_add without the "& netmask".                                       *)
auth_add_whole(l) == [userid |-> <<l[1]>>, ip |-> l[2], netmask |-> l[3]]

auth_add(l) == [userid |-> <<l[1]>>, ip |-> l[2] \cap l[3], netmask |-> l[3]]

auth_check(queue, userid, conn) ==
    \E e \in queue : e.userid = userid /\ Address[conn] \cap e.netmask = e.ip

(* read_conf opens the file, for which it needs a descriptor.              *)
Opened(file) == IF FreeFds(files) = {} THEN NoConf ELSE file

(* yyparse(): the file has a line, and all of them are as they should be;  *)
(* yyerror() ends the process otherwise.                                   *)
ParseFails(file) ==
    file # NoConf /\ (file = <<>> \/ \E k \in DOMAIN file : file[k] \notin EntryLine \cup {BlankLine})

(* A file that is not opened leaves the list as it is: empty.              *)
Configured(file) ==
    IF file = NoConf THEN {}
    ELSE {auth_add(file[k]) : k \in {k \in DOMAIN file : file[k] # BlankLine}}

(* auth_check hands the NULL userid of a client without ident to           *)
(* strcasecmp() as soon as there is an entry to compare it with.           *)
NullUserid(queue) == queue # {} /\ \E k \in DOMAIN pq : pq[k].userid = NoUser

Accepted(queue) == {k \in DOMAIN pq : auth_check(queue, pq[k].userid, pq[k].conn)}

PortConns(K) == {pq[k].conn : k \in {k \in K : pq[k].fd # NoFd}}

(* The client in port_daemon's hands, past the start of its auth_check.    *)
Unlisted == IF pc \in {"auth", "enqueue"} /\ s_in.fd # NoFd THEN {s_in.conn} ELSE {}

(* A reload that brings in the new file and leaves the clients as they are.*)
reread_conf_only(file) ==
    /\ pc \notin Dead \cup Booting /\ hups < MaxHup
    /\ hups' = hups + 1
    /\ ~ ParseFails(file)
    /\ aq' = Configured(file) /\ conf' = file
    /\ UNCHANGED <<pqvars, race, stale, pc, curr, i>>

(* A reload whose reauthenticate_users sets the whole flag of a port, with *)
(* "=" where the code has "&=" and "|=", and so ends its subscription.     *)
reread_conf_assign(file) ==
    /\ pc \notin Dead \cup Booting /\ hups < MaxHup
    /\ hups' = hups + 1
    /\ LET queue == Configured(file) IN
       /\ ~ ParseFails(file) /\ ~ NullUserid(queue)
       /\ aq' = queue /\ conf' = file
       /\ pq' = [k \in DOMAIN pq |-> [pq[k] EXCEPT !.flag = Rights(k \in Accepted(queue))]]
    /\ UNCHANGED <<ps, monitorcount, race, stale, pc, curr, i>>

reread_conf(file) ==
    /\ pc \notin Dead \cup Booting /\ hups < MaxHup
    /\ hups' = hups + 1
    /\ IF ParseFails(file)
       THEN Goto("exited") /\ UNCHANGED <<pqvars, aq, conf, race, stale>>
       ELSE LET queue == Configured(file) IN
            /\ aq' = queue /\ conf' = file
            /\ race' = IF pc # "auth" THEN race ELSE IF aq # {} THEN "freed" ELSE "late"
            /\ IF NullUserid(queue)
               THEN Goto("crashed") /\ UNCHANGED <<pqvars, stale>>
               ELSE /\ reauthenticate_users(Accepted(queue))
                    /\ stale' = (stale \ PortConns(DOMAIN pq)) \cup Unlisted
                    /\ \/ UNCHANGED <<pc, curr, i>>
                       \/ pc = "select" /\ pc' = "eintr" /\ UNCHANGED <<curr, i>>

(* The handler tells every client; no SIGHUP comes while one of them is    *)
(* stalled (a bound: the handler would wait for it).                       *)
Reload ==
    /\ \A k \in DOMAIN pq : pq[k].fd # NoFd => Writable(pq[k].conn)
    /\ \E file \in ConfFiles : reread_conf(Opened(file))
    /\ UNCHANGED <<kernelvars, clientvars, dialdvars, got, pd, fs, controlfd, s_in, fifovars>>
===============================================================================

------------------------------- MODULE Display -------------------------------
(***************************************************************************)
(* client/parser.c, client/resolve.c and the buffers of client/screen.c:   *)
(* what diald-top knows about the link and the packets diald has queued,   *)
(* and what each message of the monitor FIFO does to it.                   *)
(***************************************************************************)
EXTENDS Integers, SequencesExt

CONSTANTS
    HEAD_LINES,         \* lines above the packet list
    MAXBUFS,            \* length of the array scrbuff
    MAX_QUERY_LOAD,
    HOSTREC_EXPIRE,
    Addr,               \* addresses of packets
    Packet,             \* the packets of this instance: pairs of addresses
    hash,               \* address |-> the chain of the host table it is in
    Answers,            \* what DNS may say, see Names
    LinkStates,         \* the states diald reports, "UP" among them
    Loads,              \* <<transmitted, received>> totals it reports
    Height              \* lines the terminal may have

(* What DNS says of an address: a name in the local domain, one that has   *)
(* the local domain somewhere else in it, one without it, or no name.  It  *)
(* may also be unable to tell.                                             *)
Names == {"local", "lookalike", "foreign", "not found"}

ASSUME DisplayAssumption ==
    /\ HEAD_LINES \in Nat /\ MAXBUFS \in Nat
    /\ MAX_QUERY_LOAD \in Nat /\ HOSTREC_EXPIRE \in Nat
    /\ hash \in [Addr -> Nat]
    /\ Answers \subseteq Names \cup {"try again"}
    /\ Loads \subseteq Nat \X Nat
    /\ Packet \subseteq Addr \X Addr
    /\ Height \subseteq Nat

VARIABLES
    LINES,          \* height ncurses goes by
    numbuff,        \* length of the part of scrbuff that is allocated
    scrbuff,        \* the lines of the packet list, from index 0
    wild,           \* history: an index outside of scrbuff has been used
    count,          \* packets in the queue as far as it has been read
    curr_state,
    rxload, txload, \* the last three of each, newest last
    hosthash,       \* the chains of host records
    now,            \* time of the last QUEUE message
    numeric, trunc_local_hosts,
    last_state,     \* history: the last state diald reported
    listed,         \* history: the packets since the last QUEUE message
    lost,           \* history: how many of them a resize wiped out
    said            \* history: address |-> the last thing DNS said of it

bufvars == <<LINES, numbuff, scrbuff, wild>>
loadvars == <<rxload, txload>>
hostvars == <<hosthash, said>>
optvars == <<numeric, trunc_local_hosts>>
queuevars == <<now, count, listed, lost>>
dispvars == <<bufvars, curr_state, last_state, loadvars, hostvars, optvars, queuevars>>

(* How an address is shown: as it is, by the name of its host, or by what  *)
(* is in front of the local domain in that name.                           *)
Form == {"number", "name", "short"}

Hostrec == [addr : Addr, name : Form, trunc : Form, time_resolved : Nat]

(* A line of the list, with the form of both addresses.                    *)
Blank == <<>>
Row == [packet : Packet, shown : Form \X Form]

Unknown == "unknown"

(* curr_state before diald has reported one: the empty string.             *)
NoState == "none"

DisplayTypeOK ==
    /\ LINES \in Nat /\ numbuff \in 0..MAXBUFS
    /\ DOMAIN scrbuff = 0..numbuff - 1
    /\ \A k \in DOMAIN scrbuff : scrbuff[k] = Blank \/ scrbuff[k] \in Row
    /\ wild \in BOOLEAN
    /\ count \in Nat
    /\ curr_state \in LinkStates \cup {NoState}
    /\ rxload \in [1..3 -> Nat] /\ txload \in [1..3 -> Nat]
    /\ hosthash \in [Range(hash) -> Seq(Hostrec)]
    /\ now \in Nat
    /\ numeric \in BOOLEAN /\ trunc_local_hosts \in BOOLEAN
    /\ last_state \in LinkStates \cup {NoState}
    /\ listed \in Seq(Packet)
    /\ lost \in Nat
    /\ said \in [Addr -> Names \cup {Unknown}]
-------------------------------------------------------------------------------
(* How many lines screen_init would allocate if it left out the header.    *)
Buffers_list(h) == Min({h - HEAD_LINES, MAXBUFS})

(* "numbuff <= lines && numbuff < MAXBUFS", counted from 0.                *)
Buffers(h) == Min({h + 1, MAXBUFS})

(* screen_init on a terminal of h lines: empty lines, and no link state.   *)
screen_init(h) ==
    /\ LINES' = h
    /\ numbuff' = Buffers(h)
    /\ scrbuff' = [k \in 0..Buffers(h) - 1 |-> Blank]
    /\ curr_state' = NoState

(* The globals, and screen_init when the program starts.                   *)
DisplayInit(h) ==
    /\ LINES = h
    /\ numbuff = Buffers(h)
    /\ scrbuff = [k \in 0..Buffers(h) - 1 |-> Blank] /\ wild = FALSE
    /\ curr_state = NoState /\ last_state = NoState
    /\ rxload = <<0, 0, 0>> /\ txload = <<0, 0, 0>>
    /\ hosthash = [b \in Range(hash) |-> <<>>]
    /\ said = [a \in Addr |-> Unknown]
    /\ now = 0 /\ count = 0 /\ listed = <<>> /\ lost = 0

(* do_screen_resize without the refresh() that looks at the size.          *)
do_screen_resize_norefresh(h) ==
    /\ screen_init(LINES)
    /\ UNCHANGED wild
    /\ lost' = count
    /\ UNCHANGED <<last_state, loadvars, hostvars, optvars, now, count, listed>>

(* do_screen_resize; the refresh() in it makes ncurses look at the size.   *)
(* Its loop of free() begins at the index numbuff itself.                  *)
do_screen_resize(h) ==
    /\ wild' = (wild \/ numbuff >= MAXBUFS)
    /\ screen_init(h)
    /\ lost' = count
    /\ UNCHANGED <<last_state, loadvars, hostvars, optvars, now, count, listed>>
-------------------------------------------------------------------------------
(* The test for a low load.  The last summand of the second line is the    *)
(* received load, not the transmitted one.                                 *)
Idle ==
    /\ rxload[1] + rxload[2] + rxload[3] < MAX_QUERY_LOAD
    /\ txload[1] + txload[2] + rxload[3] < MAX_QUERY_LOAD

(* probetab that looks at the head of the chain only.                      *)
probetab_head(table, a) == {k \in DOMAIN table[hash[a]] : k = 1 /\ table[hash[a]][k].addr = a}

(* probetab: where in its chain the address is.                            *)
probetab(table, a) == {k \in DOMAIN table[hash[a]] : table[hash[a]][k].addr = a}

Rec(table, a) == table[hash[a]][Min(probetab(table, a))]

(* truncate_hostname: strstr() finds the local domain wherever it is, and  *)
(* the name ends one character before it.                                  *)
HasDomain == {"local", "lookalike"}
truncate_hostname(answer) ==
    IF answer = "not found" THEN "number" ELSE IF answer \in HasDomain THEN "short" ELSE "name"

(* The record of an answer.                                                *)
Answered(a, answer) ==
    [addr |-> a,
     name |-> IF answer = "not found" THEN "number" ELSE "name",
     trunc |-> truncate_hostname(answer),
     time_resolved |-> now]

(* gettab, and what is assigned to the record it returns: the one there    *)
(* is, or a new one at the head of the chain.                              *)
gettab(table, a, answer) ==
    LET k == probetab(table, a) IN
    [table EXCEPT ![hash[a]] = IF k = {} THEN Cons(Answered(a, answer), @)
                               ELSE [@ EXCEPT ![Min(k)] = Answered(a, answer)]]

(* Asks without the test of the link.                                      *)
Asks_anystate(table, a) ==
    /\ ~ numeric
    /\ probetab(table, a) = {} \/ now - Rec(table, a).time_resolved > HOSTREC_EXPIRE
    /\ Idle

Asks(table, a) ==
    /\ ~ numeric
    /\ probetab(table, a) = {} \/ now - Rec(table, a).time_resolved > HOSTREC_EXPIRE
    /\ curr_state = "UP"
    /\ Idle

(* The two names of a record, and the number of an address without one.    *)
Shown(table, a) ==
    IF numeric \/ probetab(table, a) = {} THEN "number"
    ELSE IF trunc_local_hosts THEN Rec(table, a).trunc ELSE Rec(table, a).name

(* A resolve that files a temporary failure of DNS like an answer.         *)
resolve_again(table, a, answer) ==
    IF Asks(table, a)
    THEN LET filed == gettab(table, a, IF answer = "try again" THEN "foreign" ELSE answer)
         IN  [table |-> filed, shown |-> IF answer = "try again" THEN "number" ELSE Shown(filed, a)]
    ELSE [table |-> table, shown |-> Shown(table, a)]

(* resolve: the host table after it, and the form it returns.  When DNS    *)
(* is unable to tell the number is returned, an older name or not.         *)
resolve(table, a, answer) ==
    IF Asks(table, a)
    THEN IF answer = "try again"
         THEN [table |-> table, shown |-> "number"]
         ELSE LET filed == gettab(table, a, answer)
              IN  [table |-> filed, shown |-> Shown(filed, a)]
    ELSE [table |-> table, shown |-> Shown(table, a)]

(* What DNS has said after such a call.                                    *)
Said(table, a, answer, before) ==
    IF Asks(table, a) /\ answer # "try again" THEN [before EXCEPT ![a] = answer] ELSE before
-------------------------------------------------------------------------------
(* The messages.  STATUS, INTERFACE and MESSAGE only write to the window.  *)
do_state(s) ==
    /\ curr_state' = s
    /\ last_state' = s
    /\ UNCHANGED <<bufvars, loadvars, hostvars, optvars, queuevars>>

do_load(l) ==
    /\ txload' = <<txload[2], txload[3], l[1]>>
    /\ rxload' = <<rxload[2], rxload[3], l[2]>>
    /\ UNCHANGED <<bufvars, curr_state, last_state, hostvars, optvars, queuevars>>

(* A do_queue that leaves the lines of the queue before in the buffers.    *)
do_queue_keep(time) ==
    /\ now' = time
    /\ count' = 0
    /\ listed' = <<>> /\ lost' = 0
    /\ UNCHANGED <<bufvars, curr_state, last_state, loadvars, hostvars, optvars>>

do_queue(time) ==
    /\ now' = time
    /\ count' = 0
    /\ scrbuff' = [k \in DOMAIN scrbuff |-> Blank]
    /\ listed' = <<>> /\ lost' = 0
    /\ UNCHANGED <<LINES, numbuff, wild, curr_state, last_state, loadvars, hostvars, optvars>>

(* Packets past the end of the list are counted and not shown.  Which of   *)
(* the two addresses is resolved first is the compiler's choice.  Nothing  *)
(* keeps the index inside scrbuff on a terminal that is tall enough.       *)
do_packet(p, answer1, answer2) ==
    /\ IF count <= LINES - HEAD_LINES
       THEN \E order \in {<<1, 2>>, <<2, 1>>} :
              LET answer == <<answer1, answer2>>
                  x == order[1]
                  y == order[2]
                  first == resolve(hosthash, p[x], answer[x])
                  second == resolve(first.table, p[y], answer[y])
                  row == [packet |-> p,
                          shown |-> IF x = 1 THEN <<first.shown, second.shown>>
                                    ELSE <<second.shown, first.shown>>]
              IN  /\ scrbuff' = [k \in DOMAIN scrbuff |-> IF k = count THEN row ELSE scrbuff[k]]
                  /\ wild' = (wild \/ count \notin DOMAIN scrbuff)
                  /\ hosthash' = second.table
                  /\ said' = Said(first.table, p[y], answer[y],
                                  Said(hosthash, p[x], answer[x], said))
       ELSE UNCHANGED <<scrbuff, wild, hostvars>>
    /\ count' = count + 1
    /\ listed' = Append(listed, p)
    /\ UNCHANGED <<LINES, numbuff, curr_state, last_state, loadvars, optvars, now, lost>>

(* The keys n and l.                                                       *)
toggle_numeric ==
    /\ numeric' = ~ numeric
    /\ UNCHANGED <<bufvars, curr_state, last_state, loadvars, hostvars, trunc_local_hosts, queuevars>>

toggle_trunc ==
    /\ trunc_local_hosts' = ~ trunc_local_hosts
    /\ UNCHANGED <<bufvars, curr_state, last_state, loadvars, hostvars, numeric, queuevars>>

(* The display on its own: the messages of diald, a new size and the two   *)
(* keys, in any order.                                                     *)
DisplayNext ==
    \/ \E s \in LinkStates : do_state(s)
    \/ \E l \in Loads : do_load(l)
    \/ \E time \in Nat : do_queue(time)
    \/ \E p \in Packet, a1, a2 \in Answers : do_packet(p, a1, a2)
    \/ \E h \in Height : do_screen_resize(h)
    \/ toggle_numeric \/ toggle_trunc

DisplaySpec ==
    /\ \E h \in Height : DisplayInit(h)
    /\ numeric \in BOOLEAN /\ trunc_local_hosts \in BOOLEAN
    /\ [][DisplayNext]_dispvars
-------------------------------------------------------------------------------
(* No step uses an index outside of scrbuff unless the terminal is as high *)
(* as the array is long: not do_packet, which writes up to LINES -         *)
(* HEAD_LINES with a count that no resize resets, and not the free() of    *)
(* do_screen_resize at numbuff.  LINES and numbuff must move together.  On *)
(* higher terminals both happen: nothing limits LINES.                     *)
RowsContained == [][wild' # wild => LINES >= MAXBUFS - 1]_dispvars

(* The list is the queue diald sent last: its packets in their order, one  *)
(* to a line, as far as they fit, and nothing of the queue before.  What a *)
(* resize wiped out stays blank until the next queue.                      *)
ListingFaithful ==
    /\ count = Len(listed)
    /\ \A k \in DOMAIN scrbuff :
          IF lost <= k /\ k < count /\ k <= LINES - HEAD_LINES
          THEN scrbuff[k] # Blank /\ scrbuff[k].packet = listed[k + 1]
          ELSE scrbuff[k] = Blank

(* The form that agrees with what DNS said; a number always does.          *)
Agrees(form, name) ==
    \/ form = "number"
    \/ form = "name" /\ name \in Names \ {"not found"} /\ (trunc_local_hosts => name \notin HasDomain)
    \/ form = "short" /\ name \in HasDomain /\ trunc_local_hosts

(* A line of the list names a host only as DNS named it when it was asked  *)
(* last, and that name is cut exactly if cutting is on and the local       *)
(* domain is in it, at the end or not, whatever expired, collided or       *)
(* failed in between.                                                      *)
NamesCurrent ==
    [][count' = count + 1 /\ scrbuff' # scrbuff =>
         \A j \in 1..2 : Agrees(scrbuff'[count].shown[j], said'[scrbuff'[count].packet[j]])]_dispvars

(* DNS is asked only while the link is up as far as diald has said, not    *)
(* as far as the screen remembers: a query over a link that is down would  *)
(* make diald dial.                                                        *)
QueriesWhenUp ==
    [][said' # said => last_state = "UP"]_dispvars

(* The host table has every address DNS has told about once, in the chain  *)
(* it is looked for in, and no other.                                      *)
HostsOnce ==
    /\ \A a \in Addr : Cardinality(probetab(hosthash, a)) = IF said[a] = Unknown THEN 0 ELSE 1
    /\ \A b \in DOMAIN hosthash : \A k \in DOMAIN hosthash[b] : hash[hosthash[b][k].addr] = b
===============================================================================

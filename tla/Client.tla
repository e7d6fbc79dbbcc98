------------------------------- MODULE Client --------------------------------
(***************************************************************************)
(* diald-top: client/diald-top.c, pipe.c, the keyboard of screen.c and the *)
(* way monitor.l and monitor.y take messages from the monitor FIFO.  The   *)
(* steps end where the process can wait or a signal makes a difference.    *)
(***************************************************************************)
EXTENDS Display

CONSTANTS
    MaxPipe,        \* messages the monitor FIFO (or the socket) and the
                    \* scanner's buffer hold
    MaxPackets,     \* packets in one queue of diald's
    MaxKeys,        \* keys typed ahead
    PressAt,        \* where the client is when the user presses a key
    ResizeAt,       \* where it is when the terminal gets another size
    MaxClock,
    Keys,           \* keys the user presses
    Words,          \* lines the user types at the command prompt
    HelpRows,       \* lines the help needs to fit on one page
    Options,        \* whether -n and -l are given
    MayExit,        \* may diald exit?
    KillAt,         \* where the client is when it is sent SIGINT, ...
    Messages        \* the kinds of message diald sends

NoCommand == <<>>

(* The table cmd of pipe.c, a word as the sequence of its parts.           *)
cmd == <<<<"up">>, <<"down">>, <<"force">>, <<"un", "force">>, <<"block">>,
         <<"un", "block">>, <<"quit">>, <<"delay", "ed-quit">>, <<"reset">>>>

Message ==
    [type : {"STATE"}, state : LinkStates] \cup [type : {"LOAD"}, load : Loads]
    \cup [type : {"PACKET"}, packet : Packet]
    \cup [type : {"QUEUE", "END", "OTHER"}]

ASSUME ClientAssumption ==
    /\ MaxPipe \in Nat /\ MaxPackets \in Nat /\ MaxKeys \in Nat
    /\ MaxClock \in Nat /\ HelpRows \in Nat /\ MayExit \in BOOLEAN
    /\ Options \subseteq BOOLEAN \X BOOLEAN
    /\ Keys \subseteq {"q", "h", "c", "n", "l", "^R"}
    /\ Words \subseteq Seq(STRING)
    /\ Messages \subseteq {"STATE", "LOAD", "QUEUE", "OTHER"}

VARIABLES
    pc,
    in,             \* what select() in main reported, while the keyboard is
                    \* dealt with: "keys", "fifo"
    quit,
    help,           \* pages of help still to be left with a key
    tries,          \* yyparse() calls of this read_fifo that have returned
    inqueue,        \* yyparse() is between QUEUE and END QUEUE
    buf,            \* messages in the scanner's buffer
    yacc_block, yacc_eof,
    resize_event_p,
    overrun,        \* history: a SIGWINCH came between the last resize and
                    \* the reset of the flag
    typed, told,    \* history: the command typed and the one written, until
                    \* the program reads on
    screen, fifo,   \* is the terminal in curses mode? is there a FIFO file?
    atexit,         \* what exit() calls
    keys,           \* the keyboard's queue
    height,         \* of the terminal
    clock,
    link            \* the monitor FIFO: messages in it, its writer's place

mainvars == <<pc, in, quit, help>>
scanvars == <<tries, inqueue, buf, yacc_block, yacc_eof>>
cmdvars == <<typed, told>>
filevars == <<screen, fifo, atexit>>
outvars == <<keys, height, clock, link>>
vars == <<mainvars, scanvars, resize_event_p, overrun, cmdvars, filevars, outvars, dispvars>>

Dead == {"exited", "killed", "crashed"}

(* Places where the user has to do something first.                        *)
Asking == {"help", "command"}

PC == {"init", "open", "wait", "loop", "keyboard", "parse", "accept", "redraw",
       "reset", "draw"} \cup Asking \cup Dead

(* Program, terminal, server and history, without the display.             *)
ProgramTypeOK ==
    /\ pc \in PC /\ in \subseteq {"keys", "fifo"} /\ quit \in BOOLEAN
    /\ help \in 0..2 /\ tries \in 0..3
    /\ inqueue \in BOOLEAN /\ buf \in Seq(Message)
    /\ yacc_block \in BOOLEAN /\ yacc_eof \in BOOLEAN
    /\ resize_event_p \in BOOLEAN /\ overrun \in BOOLEAN
    /\ typed \in Words \cup {NoCommand} /\ told \in ToSet(cmd) \cup {NoCommand}
    /\ screen \in BOOLEAN /\ fifo \in BOOLEAN
    /\ atexit \subseteq {"close_screen", "close_fifo"}
    /\ keys \in Seq(Keys) /\ height \in Height /\ clock \in 0..MaxClock
    /\ link \in [q : Seq(Message), writer : {"none", "open", "gone"}, queue : -1..MaxPackets]

(* Type invariant of the client.                                           *)
ClientTypeOK == DisplayTypeOK /\ ProgramTypeOK

NoQueue == -1

(* The options -n and -l; -q is a matter of Monitor, and -r is init_fifo's *)
(* choice.  The others do not come back, or change no more than file names.*)
read_command_line == \E o \in Options : numeric = o[1] /\ trunc_local_hosts = o[2]

(* main up to init_fifo: screen_init, and close_screen for the exit.       *)
Init ==
    /\ read_command_line
    /\ pc = "init" /\ in = {} /\ quit = FALSE /\ help = 0
    /\ tries = 0 /\ inqueue = FALSE /\ buf = <<>>
    /\ yacc_block = FALSE /\ yacc_eof = FALSE
    /\ resize_event_p = FALSE /\ overrun = FALSE
    /\ typed = NoCommand /\ told = NoCommand
    /\ screen = TRUE /\ fifo = FALSE /\ atexit = {"close_screen"}
    /\ keys = <<>> /\ clock = 0
    /\ link = [q |-> <<>>, writer |-> "none", queue |-> NoQueue]
    /\ \E h \in Height : height = h /\ DisplayInit(h)

(* exit().                                                                 *)
Exit ==
    /\ pc' = "exited"
    /\ fifo' = (fifo /\ "close_fifo" \notin atexit)
    /\ screen' = (screen /\ "close_screen" \notin atexit)
    /\ UNCHANGED atexit
-------------------------------------------------------------------------------
(* The rest of main before its loop, with close_fifo never registered.     *)
EnterLoop_noexit == pc' = "loop" /\ UNCHANGED atexit

(* The rest of main before its loop.                                       *)
EnterLoop == pc' = "loop" /\ atexit' = atexit \cup {"close_fifo"}

(* init_fifo over TCP ("-r"), where "monitor on" is all there is to say,   *)
(* or as far as the open() of the control FIFO.  It exits when there is no *)
(* server or no control FIFO.                                              *)
init_fifo ==
    /\ pc = "init"
    /\ \/ Exit /\ UNCHANGED link
       \/ EnterLoop /\ link' = [link EXCEPT !.writer = "open"] /\ UNCHANGED <<screen, fifo>>
       \/ pc' = "open" /\ UNCHANGED <<filevars, link>>
    /\ UNCHANGED <<in, quit, help, scanvars, resize_event_p, overrun, cmdvars,
                   keys, height, clock, dispvars>>

(* That open() waits until someone has the control FIFO open for reading,  *)
(* which may be never.  Then init_fifo makes a FIFO of its own, or exits   *)
(* because it cannot, and asks diald to write there.                       *)
OpenControl ==
    /\ pc = "open"
    /\ \/ Exit /\ UNCHANGED link
       \/ /\ pc' = "wait" /\ fifo' = TRUE
          /\ \E w \in {"open", "none"} : link' = [link EXCEPT !.writer = w]
          /\ UNCHANGED <<screen, atexit>>
    /\ UNCHANGED <<in, quit, help, scanvars, resize_event_p, overrun, cmdvars,
                   keys, height, clock, dispvars>>

(* The select() of init_fifo: diald has written, or five seconds are over  *)
(* (or a signal ended it).                                                 *)
WaitForDiald ==
    /\ pc = "wait"
    /\ \/ (link.q # <<>> \/ link.writer = "gone") /\ EnterLoop /\ UNCHANGED <<screen, fifo>>
       \/ Exit
    /\ UNCHANGED <<in, quit, help, scanvars, resize_event_p, overrun, cmdvars,
                   outvars, dispvars>>

Readable ==
    {x \in {"keys", "fifo"} : IF x = "keys" THEN keys # <<>>
                              ELSE link.q # <<>> \/ link.writer = "gone"}

Forget == typed' = NoCommand /\ told' = NoCommand

(* The head of main's loop.                                                *)
Select ==
    /\ pc = "loop"
    /\ IF quit
       THEN Exit /\ UNCHANGED <<in, quit>>
       ELSE /\ Readable # {}
            /\ in' = IF "keys" \in Readable THEN Readable ELSE {}
            /\ pc' = IF "keys" \in Readable THEN "keyboard" ELSE "parse"
            /\ UNCHANGED <<quit, filevars>>
    /\ yacc_eof' = FALSE
    /\ Forget
    /\ UNCHANGED <<help, tries, inqueue, buf, yacc_block, resize_event_p, overrun,
                   outvars, dispvars>>

(* An exceptional condition on the socket: the program ends at the next    *)
(* test of the loop.                                                       *)
SelectError ==
    /\ pc = "loop"
    /\ quit' = TRUE
    /\ UNCHANGED <<pc, in, help, scanvars, resize_event_p, overrun, cmdvars, filevars,
                   outvars, dispvars>>

(* A main that looks at the FIFO only when there was no key.               *)
AfterKeys_else == "loop"

(* After parse_keyboard.                                                   *)
AfterKeys == IF "fifo" \in in THEN "parse" ELSE "loop"

parse_keyboard ==
    /\ pc = "keyboard"
    /\ LET key == Head(keys) IN
       /\ quit' = (quit \/ key = "q")
       /\ help' = IF key # "h" THEN 0 ELSE IF LINES - HEAD_LINES >= HelpRows THEN 1 ELSE 2
       /\ CASE key = "h" -> pc' = "help" /\ UNCHANGED in
            [] key = "c" -> pc' = "command" /\ UNCHANGED in
            [] OTHER -> pc' = AfterKeys /\ in' = {}
       /\ CASE key = "n" -> toggle_numeric
            [] key = "l" -> toggle_trunc
            [] OTHER -> UNCHANGED dispvars
    /\ keys' = Tail(keys)
    /\ UNCHANGED <<scanvars, resize_event_p, overrun, cmdvars, filevars,
                   height, clock, link>>

(* helpscreen waits for a key on each page.                                *)
helpscreen ==
    /\ pc = "help" /\ keys # <<>>
    /\ keys' = Tail(keys)
    /\ help' = help - 1
    /\ IF help = 1 THEN pc' = AfterKeys /\ in' = {} ELSE UNCHANGED <<pc, in>>
    /\ UNCHANGED <<quit, scanvars, resize_event_p, overrun, cmdvars, filevars,
                   height, clock, link, dispvars>>

(* The commands the help screen and the manual page list.                  *)
show_help_commands ==
    {<<"up">>, <<"down">>, <<"force">>, <<"un", "force">>, <<"block">>,
     <<"un", "block">>, <<"quit">>, <<"delay", "-quit">>}

(* validate_command that takes any abbreviation of a command.              *)
validate_command_abbrev(word) ==
    LET fits == {k \in DOMAIN cmd : IsPrefix(word, cmd[k])}
    IN  IF fits = {} THEN NoCommand ELSE cmd[Min(fits)]

(* The first command of the table that the line begins with.               *)
validate_command(word) ==
    LET fits == {k \in DOMAIN cmd : IsPrefix(cmd[k], word)}
    IN  IF fits = {} THEN NoCommand ELSE cmd[Min(fits)]

(* get_command, validate_command and fifo_command, which writes nothing    *)
(* when the line is empty.                                                 *)
get_command(word) ==
    /\ pc = "command"
    /\ typed' = word
    /\ told' = validate_command(word)
    /\ pc' = AfterKeys /\ in' = {}
    /\ UNCHANGED <<quit, help, scanvars, resize_event_p, overrun, filevars,
                   outvars, dispvars>>
-------------------------------------------------------------------------------
(* A rule for LOAD without its YYACCEPT.                                   *)
Accepts_noload(m) == m.type \in {"STATE", "OTHER", "END"} /\ keys # <<>>

(* Does yyparse() return after message m?  After LOAD always, after the    *)
(* other complete messages when lex_testkey finds a key.                   *)
Accepts(m) ==
    \/ m.type = "LOAD"
    \/ m.type \in {"STATE", "OTHER", "END"} /\ keys # <<>>

(* The action of the grammar rule for m.                                   *)
Apply(m) ==
    CASE m.type = "STATE" -> do_state(m.state)
      [] m.type = "LOAD" -> do_load(m.load)
      [] m.type = "QUEUE" -> do_queue(clock)
      [] m.type = "PACKET" -> \E a1, a2 \in Answers : do_packet(m.packet, a1, a2)
      [] OTHER -> UNCHANGED dispvars

Parse ==
    /\ pc = "parse" /\ buf # <<>>
    /\ buf' = Tail(buf)
    /\ Apply(Head(buf))
    /\ inqueue' = CASE Head(buf).type = "QUEUE" -> TRUE
                    [] Head(buf).type = "END" -> FALSE
                    [] OTHER -> inqueue
    /\ pc' = IF Accepts(Head(buf)) THEN "accept" ELSE "parse"
    /\ Forget
    /\ UNCHANGED <<in, quit, help, tries, yacc_block, yacc_eof, resize_event_p, overrun,
                   filevars, outvars>>

(* yy_nolog_input: a read() of some of what is there, half a second        *)
(* without any, or the end of the file.  Between QUEUE and END QUEUE the   *)
(* grammar takes the pause for a packet and goes on.                       *)
yy_nolog_input ==
    /\ pc = "parse" /\ buf = <<>>
    /\ \/ \E n \in 1..Len(link.q) :
            /\ buf' = SubSeq(link.q, 1, n)
            /\ link' = [link EXCEPT !.q = SubSeq(@, n + 1, Len(@))]
            /\ yacc_block' = FALSE
            /\ UNCHANGED <<pc, yacc_eof, inqueue>>
       \/ /\ link.q = <<>> /\ link.writer = "open"
          /\ yacc_block' = TRUE
          /\ pc' = IF inqueue THEN "parse" ELSE "accept"
          /\ UNCHANGED <<buf, link, yacc_eof, inqueue>>
       \/ /\ link.q = <<>> /\ link.writer = "gone"
          /\ yacc_block' = FALSE /\ yacc_eof' = TRUE /\ inqueue' = FALSE
          /\ pc' = "accept"
          /\ UNCHANGED <<buf, link>>
    /\ Forget
    /\ UNCHANGED <<in, quit, help, tries, resize_event_p, overrun, filevars,
                   keys, height, clock, dispvars>>

(* read_fifo with one yyparse() too many.                                  *)
read_fifo_five ==
    /\ pc = "accept"
    /\ \/ /\ ~ yacc_block /\ tries < 4
          /\ tries' = tries + 1
          /\ pc' = "parse"
          /\ UNCHANGED filevars
       \/ /\ yacc_block \/ tries >= 4
          /\ tries' = 0
          /\ IF yacc_eof THEN Exit ELSE pc' = "redraw" /\ UNCHANGED filevars
    /\ UNCHANGED <<in, quit, help, inqueue, buf, yacc_block, yacc_eof, resize_event_p,
                   overrun, cmdvars, outvars, dispvars>>

(* The do-while of read_fifo around yyparse(), and its return of -1.       *)
read_fifo ==
    /\ pc = "accept"
    /\ \/ /\ ~ yacc_block /\ tries < 3
          /\ tries' = tries + 1
          /\ pc' = "parse"
          /\ UNCHANGED filevars
       \/ /\ yacc_block \/ tries >= 3
          /\ tries' = 0
          /\ IF yacc_eof THEN Exit ELSE pc' = "redraw" /\ UNCHANGED filevars
    /\ UNCHANGED <<in, quit, help, inqueue, buf, yacc_block, yacc_eof, resize_event_p,
                   overrun, cmdvars, outvars, dispvars>>

(* "if (resize_event_p) { do_screen_resize(); resize_event_p = 0; }"       *)
RedrawResize ==
    /\ pc = "redraw"
    /\ IF resize_event_p
       THEN do_screen_resize(height) /\ pc' = "reset" /\ overrun' = FALSE
       ELSE UNCHANGED <<dispvars, overrun>> /\ pc' = "draw"
    /\ UNCHANGED <<in, quit, help, scanvars, resize_event_p, cmdvars, filevars, outvars>>

RedrawReset ==
    /\ pc = "reset"
    /\ resize_event_p' = FALSE
    /\ pc' = "draw"
    /\ UNCHANGED <<in, quit, help, scanvars, overrun, cmdvars, filevars, outvars, dispvars>>

(* do_state(curr_state), the list, and update_screen.                      *)
Draw ==
    /\ pc = "draw"
    /\ pc' = "loop"
    /\ UNCHANGED <<in, quit, help, scanvars, resize_event_p, overrun, cmdvars, filevars,
                   outvars, dispvars>>
-------------------------------------------------------------------------------
(* SIGINT, SIGTERM and SIGHUP.  Before main installs handlesig they kill.  *)
handlesig ==
    /\ pc \in KillAt \ Dead
    /\ IF pc \in {"init", "open", "wait"}
       THEN pc' = "killed" /\ UNCHANGED filevars
       ELSE Exit
    /\ UNCHANGED <<in, quit, help, scanvars, resize_event_p, overrun, cmdvars, outvars,
                   dispvars>>

(* The terminal gets another size, and handlesig_winch runs.               *)
handlesig_winch(h) ==
    /\ pc \in ResizeAt \ ({"init", "open", "wait"} \cup Dead)
    /\ h # height /\ height' = h
    /\ resize_event_p' = TRUE
    /\ overrun' = (overrun \/ pc = "reset")
    /\ UNCHANGED <<mainvars, scanvars, cmdvars, filevars, keys, clock, link, dispvars>>

(* What an index outside of scrbuff may come to, at once or later; the     *)
(* client may as well go on, if nothing it needs was there.                *)
Crash ==
    /\ wild /\ pc \notin Dead
    /\ pc' = "crashed"
    /\ UNCHANGED <<in, quit, help, scanvars, resize_event_p, overrun, cmdvars, filevars,
                   outvars, dispvars>>

(* The user.                                                               *)
Press(k) ==
    /\ pc \in PressAt /\ Len(keys) < MaxKeys
    /\ keys' = Append(keys, k)
    /\ UNCHANGED <<mainvars, scanvars, resize_event_p, overrun, cmdvars, filevars,
                   height, clock, link, dispvars>>

Tick ==
    /\ clock < MaxClock
    /\ clock' = clock + 1
    /\ UNCHANGED <<mainvars, scanvars, resize_event_p, overrun, cmdvars, filevars,
                   keys, height, link, dispvars>>

(* diald: whole messages, a queue as QUEUE, its packets and END QUEUE.  A  *)
(* queue begins when nothing else is on its way (a bound).                 *)
NextMessages ==
    {m \in Message :
        IF link.queue = NoQueue
        THEN m.type \in Messages /\ (m.type = "QUEUE" => link.q = <<>> /\ buf = <<>>)
        ELSE m.type = "END" \/ (m.type = "PACKET" /\ link.queue < MaxPackets)}

DialdWrite(types) ==
    /\ pc \notin Dead
    /\ link.writer = "open" /\ Len(link.q) + Len(buf) < MaxPipe
    /\ \E m \in NextMessages :
          /\ m.type \in types
          /\ link' = [link EXCEPT !.q = Append(@, m),
                                  !.queue = CASE m.type = "QUEUE" -> 0
                                              [] m.type = "PACKET" -> @ + 1
                                              [] m.type = "END" -> NoQueue
                                              [] OTHER -> @]
    /\ UNCHANGED <<mainvars, scanvars, resize_event_p, overrun, cmdvars, filevars,
                   keys, height, clock, dispvars>>

DialdExit ==
    /\ MayExit /\ pc \notin Dead /\ link.writer = "open"
    /\ link' = [link EXCEPT !.writer = "gone"]
    /\ UNCHANGED <<mainvars, scanvars, resize_event_p, overrun, cmdvars, filevars,
                   keys, height, clock, dispvars>>

ClientStep ==
    \/ init_fifo \/ WaitForDiald
    \/ Select \/ parse_keyboard \/ helpscreen
    \/ Parse \/ yy_nolog_input \/ read_fifo
    \/ RedrawResize \/ RedrawReset \/ Draw

Environment ==
    \/ OpenControl
    \/ Crash
    \/ handlesig
    \/ \E h \in Height : handlesig_winch(h)
    \/ \E k \in Keys : Press(k)
    \/ \E word \in Words : get_command(word)
    \/ Tick
    \/ SelectError
    \/ DialdExit

AnyType == Messages \cup {"PACKET", "END"}

Next == ClientStep \/ DialdWrite(AnyType) \/ Environment

Spec == Init /\ [][Next]_vars

(* The client is not denied the processor.  diald finishes what it began   *)
(* and writes a LOAD every second, whatever else it has to say.            *)
FairSpec ==
    /\ Spec
    /\ WF_vars(ClientStep)
    /\ WF_vars(DialdWrite(AnyType))
    /\ SF_vars(DialdWrite({"LOAD"}))
-------------------------------------------------------------------------------
(* What diald is sent is what the user typed, or the command it begins     *)
(* with; a command of the table is never taken for another one.            *)
CommandsFaithful ==
    /\ IsPrefix(told, typed)
    /\ typed \in ToSet(cmd) => told = typed

(* A command the user is told of is one that diald is sent.                *)
HelpTrue == typed \in show_help_commands => told = typed

(* exit() on whatever path restores the terminal, and a client that has    *)
(* displayed anything leaves no FIFO behind.                               *)
CleanExit ==
    pc = "exited" => /\ ~ screen
                     /\ fifo => last_state = NoState /\ listed = <<>>

(* The messages the scanner has read ahead are all parsed in the end,      *)
(* although main waits for new ones before it looks at them again.         *)
BufferDrained == buf # <<>> ~> buf = <<>> \/ pc \in Dead \cup Asking

(* A key is looked at in the end, even when it comes within a queue,       *)
(* unless diald-top hangs at its start because diald has never opened the  *)
(* control FIFO (INSTALL, "Strange behaviours" 1).                         *)
KeySeen ==
    \/ <>[](pc = "open")
    \/ keys # <<>> ~> pc \in {"keyboard"} \cup Dead \cup Asking

(* The new size of the terminal reaches the display, except when its       *)
(* SIGWINCH falls between do_screen_resize and the reset of the flag.      *)
ResizeNoticed ==
    LINES # height ~> LINES = height \/ overrun \/ pc \in Dead \cup Asking
===============================================================================

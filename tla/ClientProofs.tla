----------------------------- MODULE ClientProofs -----------------------------
(***************************************************************************)
(* The main loop of diald-top: its display is the one of DisplayProofs,    *)
(* and what it types to diald and leaves behind is right on every path.    *)
(***************************************************************************)
EXTENDS Client, DisplayProofs

-------------------------------------------------------------------------------
(* A sequence is a prefix of another one that has its elements in front.   *)
LEMMA PrefixElements ==
    ASSUME NEW S, NEW s \in Seq(S), NEW t \in Seq(S)
    PROVE  /\ IsPrefix(s, t) => /\ Len(s) <= Len(t)
                                /\ \A j \in 1..Len(s) : s[j] = t[j]
           /\ IsPrefix(s, s) /\ IsPrefix(<<>>, s)
<1>1. /\ Len(s) \in Nat /\ Len(t) \in Nat
      /\ \A j \in 1..Len(s) : s[j] \in S
      /\ \A j \in 1..Len(t) : t[j] \in S
  BY LenProperties, ElementOfSeq
<1>2. ASSUME IsPrefix(s, t)
      PROVE  Len(s) <= Len(t) /\ \A j \in 1..Len(s) : s[j] = t[j]
  <2>1. Len(s) <= Len(t) /\ SubSeq(s, 1, Len(s)) = SubSeq(t, 1, Len(s))
    BY <1>2 DEF IsPrefix
  <2>2. \A j \in 1..Len(s) : SubSeq(s, 1, Len(s))[j] = s[j] /\ SubSeq(t, 1, Len(s))[j] = t[j]
    BY <1>1, <2>1, SubSeqProperties
  <2> QED
    BY <2>1, <2>2
<1>3. IsPrefix(s, s)
  BY <1>1 DEF IsPrefix
<1>4. IsPrefix(<<>>, s)
  <2>1. <<>> \in Seq(S) /\ Len(<<>>) = 0
    OBVIOUS
  <2>2. SubSeq(<<>>, 1, 0) = <<>> /\ SubSeq(s, 1, 0) = <<>>
    BY SubSeqEmpty
  <2> QED
    BY <1>1, <2>1, <2>2 DEF IsPrefix
<1> QED
  BY <1>2, <1>3, <1>4

(* The parts a line of the user can have, the entries' own among them.     *)
Part == STRING \cup {"up", "down", "force", "un", "block", "quit", "delay", "ed-quit", "reset"}

(* The entries of the table are sequences, none of them empty.             *)
LEMMA CmdEntries ==
    /\ DOMAIN cmd = 1..9
    /\ \A k \in 1..9 : cmd[k] \in Seq(Part) /\ cmd[k] # NoCommand
    /\ ToSet(cmd) = {cmd[k] : k \in 1..9}
<1>1. DOMAIN cmd = 1..9
  BY DEF cmd
<1>2. \A k \in 1..9 : \E x, y \in Part : cmd[k] = <<x>> \/ cmd[k] = <<x, y>>
  BY DEF cmd, Part
<1>3. \A x, y \in Part : /\ <<x>> \in Seq(Part) /\ <<x, y>> \in Seq(Part)
                        /\ <<x>> # NoCommand /\ <<x, y>> # NoCommand
  BY DEF NoCommand
<1> QED
  BY <1>1, <1>2, <1>3 DEF ToSet

(* No entry of the table is the beginning of another one.                  *)
LEMMA CmdPrefixFree ==
    ASSUME NEW j \in 1..9, NEW k \in 1..9, IsPrefix(cmd[j], cmd[k])
    PROVE  j = k
<1>1. /\ Len(cmd[j]) <= Len(cmd[k])
      /\ \A i \in 1..Len(cmd[j]) : cmd[j][i] = cmd[k][i]
  <2>1. \A S : \A s, t \in Seq(S) : IsPrefix(s, t) => /\ Len(s) <= Len(t)
                                                    /\ \A i \in 1..Len(s) : s[i] = t[i]
    <3> SUFFICES ASSUME NEW S, NEW s \in Seq(S), NEW t \in Seq(S), IsPrefix(s, t)
                 PROVE  Len(s) <= Len(t) /\ \A i \in 1..Len(s) : s[i] = t[i]
      OBVIOUS
    <3> QED
      BY PrefixElements
  <2>2. cmd[j] \in Seq(Part) /\ cmd[k] \in Seq(Part)
    BY CmdEntries
  <2> QED
    BY <2>1, <2>2, Zenon
<1>2. /\ Len(cmd[j]) \in 1..2 
      /\ Len(cmd[j]) = 2 => j \in {4, 6, 8}
  BY DEF cmd
<1>3. cmd[j][1] = cmd[k][1] /\ (j \in {4, 6, 8} => cmd[j][2] = cmd[k][2])
  BY <1>1, <1>2 DEF cmd
<1> QED
  BY <1>3 DEF cmd

(* validate_command: the entry found begins the line, and a line that is   *)
(* an entry is found as itself.                                            *)
LEMMA ValidateFaithful ==
    ASSUME NEW word \in Seq(Part)
    PROVE  /\ validate_command(word) \in ToSet(cmd) \cup {NoCommand}
           /\ IsPrefix(validate_command(word), word)
           /\ word \in ToSet(cmd) => validate_command(word) = word
<1> DEFINE fits == {k \in DOMAIN cmd : IsPrefix(cmd[k], word)}
<1>1. validate_command(word) = IF fits = {} THEN NoCommand ELSE cmd[Min(fits)]
  BY DEF validate_command
<1>2. CASE fits = {}
  <2>1. IsPrefix(NoCommand, word)
    BY PrefixElements DEF NoCommand
  <2>2. word \notin ToSet(cmd)
    BY <1>2, CmdEntries, PrefixElements
  <2> QED
    BY <1>1, <1>2, <2>1, <2>2
<1>3. CASE fits # {}
  <2>1. Min(fits) \in 1..9 /\ IsPrefix(cmd[Min(fits)], word)
    <3>1. fits \in SUBSET Nat
      BY CmdEntries, SMTT(60)
    <3>2. Min(fits) \in fits
      <4> HIDE DEF fits
      <4> QED
        BY <1>3, <3>1, MinExists
    <3> QED
      BY <3>2, CmdEntries
  <2>2. word \in ToSet(cmd) => cmd[Min(fits)] = word
    BY <2>1, CmdEntries, CmdPrefixFree
  <2> QED
    BY <1>1, <1>3, <2>1, <2>2, CmdEntries
<1> QED
  BY <1>2, <1>3
-------------------------------------------------------------------------------
(* A page of the help is on the screen, and a key is there to be parsed.   *)
Awaited ==
    /\ pc = "help" => help # 0
    /\ pc = "keyboard" => keys # <<>>

(* What exit() calls where, and that nothing is displayed before the loop. *)
Exits ==
    /\ "close_screen" \in atexit
    /\ pc \notin {"init", "open", "wait"} \cup Dead => "close_fifo" \in atexit
    /\ pc \in {"init", "open", "wait"} => last_state = NoState /\ listed = <<>>

(* The inductive invariant of main's loop.                                 *)
ClientInv == ProgramTypeOK /\ Awaited /\ Exits /\ CleanExit /\ CommandsFaithful

(* What the user types is a sequence of parts.                             *)
LEMMA WordParts == \A word \in Words : word \in Seq(Part)
<1>1. STRING \subseteq Part
  BY DEF Part
<1>2. \A word \in Words : word \in Seq(STRING)
  BY ClientAssumption
<1> QED
  BY <1>1, <1>2, SeqMonotonic

(* The program reads on: nothing has been typed or told.                   *)
LEMMA ForgetFaithful == Forget => CommandsFaithful'
<1>1. <<>> \in Seq(Part)
  OBVIOUS
<1>2. IsPrefix(NoCommand, NoCommand) /\ NoCommand \notin ToSet(cmd)
  BY <1>1, PrefixElements, CmdEntries DEF NoCommand
<1> QED
  BY <1>2 DEF Forget, CommandsFaithful

(* init_fifo goes on to the loop or to the open(), or gives up.            *)
LEMMA ClientInitFifoInv ==
    ASSUME ClientInv, init_fifo
    PROVE  ClientInv'
<1> USE DEF ClientInv
<1>1. ProgramTypeOK'
  <2>1. /\ link' \in [q : Seq(Message), writer : {"none", "open", "gone"}, queue : -1..MaxPackets]
        /\ screen' \in BOOLEAN /\ fifo' \in BOOLEAN /\ pc' \in {"exited", "loop", "open"}
        /\ atexit' \subseteq {"close_screen", "close_fifo"}
    BY DEF ProgramTypeOK, init_fifo, Exit, EnterLoop, filevars
  <2> QED
    BY <2>1 DEF ProgramTypeOK, init_fifo, scanvars, cmdvars, PC, Asking, Dead
<1>2. Awaited'
  BY DEF Awaited, ProgramTypeOK, init_fifo, Exit, EnterLoop, mainvars, scanvars, cmdvars, filevars, outvars
<1>3. UNCHANGED <<last_state, listed>>
  BY DEF init_fifo, Exit, EnterLoop, dispvars, queuevars
<1>4. Exits'
  BY <1>3 DEF Exits, Dead, init_fifo, Exit, EnterLoop, mainvars, scanvars, cmdvars, filevars, outvars
<1>5. CleanExit'
  BY <1>3 DEF Exits, CleanExit, Dead, init_fifo, Exit, EnterLoop, mainvars, scanvars, cmdvars, filevars, outvars
<1>6. CommandsFaithful'
  BY DEF CommandsFaithful, init_fifo, Exit, EnterLoop, mainvars, scanvars, cmdvars, filevars, outvars
<1> QED
  BY <1>1, <1>2, <1>4, <1>5, <1>6

(* The open() of the control FIFO ends with the wait or with exit().       *)
LEMMA ClientOpenInv ==
    ASSUME ClientInv, OpenControl
    PROVE  ClientInv'
<1> USE DEF ClientInv
<1>1. ProgramTypeOK'
  <2>1. /\ link' \in [q : Seq(Message), writer : {"none", "open", "gone"}, queue : -1..MaxPackets]
        /\ screen' \in BOOLEAN /\ fifo' \in BOOLEAN /\ pc' \in {"exited", "wait"}
        /\ atexit' \subseteq {"close_screen", "close_fifo"}
    BY DEF ProgramTypeOK, OpenControl, Exit
  <2> QED
    BY <2>1 DEF ProgramTypeOK, OpenControl, scanvars, cmdvars, PC, Asking, Dead
<1>2. Awaited'
  BY DEF Awaited, ProgramTypeOK, OpenControl, Exit, mainvars, scanvars, cmdvars, filevars, outvars
<1>3. UNCHANGED <<last_state, listed>>
  BY DEF OpenControl, Exit, dispvars, queuevars
<1>4. Exits'
  BY <1>3 DEF Exits, Dead, OpenControl, Exit, mainvars, scanvars, cmdvars, filevars, outvars
<1>5. CleanExit'
  BY <1>3 DEF Exits, CleanExit, Dead, OpenControl, Exit, mainvars, scanvars, cmdvars, filevars, outvars
<1>6. CommandsFaithful'
  BY DEF CommandsFaithful, OpenControl, Exit, mainvars, scanvars, cmdvars, filevars, outvars
<1> QED
  BY <1>1, <1>2, <1>4, <1>5, <1>6

(* The wait for diald ends with the loop or with exit().                   *)
LEMMA ClientWaitInv ==
    ASSUME ClientInv, WaitForDiald
    PROVE  ClientInv'
<1> USE DEF ClientInv
<1>1. ProgramTypeOK'
  <2>1. /\ pc' \in {"loop", "exited"} /\ screen' \in BOOLEAN /\ fifo' \in BOOLEAN
        /\ atexit' \subseteq {"close_screen", "close_fifo"}
    BY DEF ProgramTypeOK, WaitForDiald, Exit, EnterLoop
  <2> QED
    BY <2>1 DEF ProgramTypeOK, WaitForDiald, scanvars, cmdvars, outvars, PC, Asking, Dead
<1>2. Awaited'
  BY DEF Awaited, ProgramTypeOK, WaitForDiald, Exit, EnterLoop, mainvars, scanvars, cmdvars, filevars, outvars
<1>3. UNCHANGED <<last_state, listed>>
  BY DEF WaitForDiald, Exit, EnterLoop, dispvars, queuevars
<1>4. Exits'
  BY <1>3 DEF Exits, Dead, WaitForDiald, Exit, EnterLoop, mainvars, scanvars, cmdvars, filevars, outvars
<1>5. CleanExit'
  BY <1>3 DEF Exits, CleanExit, Dead, WaitForDiald, Exit, EnterLoop, mainvars, scanvars, cmdvars, filevars, outvars
<1>6. CommandsFaithful'
  BY DEF CommandsFaithful, WaitForDiald, Exit, EnterLoop, mainvars, scanvars, cmdvars, filevars, outvars
<1> QED
  BY <1>1, <1>2, <1>4, <1>5, <1>6

(* The head of the loop: exit(), or what select() reports.                 *)
LEMMA ClientSelectInv ==
    ASSUME ClientInv, Select
    PROVE  ClientInv'
<1> USE DEF ClientInv
<1>1. ProgramTypeOK'
  <2>1. /\ pc' \in {"exited", "keyboard", "parse"} /\ in' \subseteq {"keys", "fifo"}
        /\ screen' \in BOOLEAN /\ fifo' \in BOOLEAN
        /\ atexit' \subseteq {"close_screen", "close_fifo"}
    BY DEF ProgramTypeOK, Select, Exit, Readable, filevars
  <2>2. quit' = quit
    BY DEF Select
  <2> QED
    BY <2>1, <2>2 DEF ProgramTypeOK, Select, Forget, outvars, PC, Asking, Dead
<1>2. Awaited'
  BY DEF Awaited, ProgramTypeOK, Select, Exit, Readable, Forget, mainvars, scanvars, cmdvars, filevars, outvars
<1>3. UNCHANGED <<last_state, listed>>
  BY DEF Select, Exit, Readable, Forget, dispvars, queuevars
<1>4. Exits'
  BY <1>3 DEF Exits, Dead, Select, Exit, Readable, Forget, mainvars, scanvars, cmdvars, filevars, outvars
<1>5. CleanExit'
  BY <1>3 DEF Exits, CleanExit, Dead, Select, Exit, Readable, Forget, mainvars, scanvars, cmdvars, filevars, outvars
<1>6. CommandsFaithful'
  BY ForgetFaithful DEF Select, Exit, Readable, Forget, mainvars, scanvars, cmdvars, filevars, outvars
<1> QED
  BY <1>1, <1>2, <1>4, <1>5, <1>6

(* A key; the help has a page to be left then.                             *)
LEMMA ClientKeyboardInv ==
    ASSUME ClientInv, parse_keyboard
    PROVE  ClientInv'
<1> USE DEF ClientInv
<1>1. ProgramTypeOK'
  <2>1. keys' \in Seq(Keys)
    BY HeadTailProperties DEF ProgramTypeOK, Awaited, parse_keyboard
  <2>2. /\ pc' \in {"help", "command", "parse", "loop"} /\ in' \subseteq {"keys", "fifo"}
        /\ help' \in 0..2 /\ quit' \in BOOLEAN
    BY DEF ProgramTypeOK, parse_keyboard, AfterKeys
  <2> QED
    BY <2>1, <2>2 DEF ProgramTypeOK, parse_keyboard, scanvars, cmdvars, filevars, PC, Asking, Dead
<1>2. Awaited'
  BY DEF Awaited, ProgramTypeOK, parse_keyboard, AfterKeys, mainvars, scanvars, cmdvars, filevars, outvars
<1>4. Exits'
  BY DEF Exits, Dead, parse_keyboard, AfterKeys, mainvars, scanvars, cmdvars, filevars, outvars
<1>5. CleanExit'
  BY DEF Exits, CleanExit, Dead, parse_keyboard, AfterKeys, mainvars, scanvars, cmdvars, filevars, outvars
<1>6. CommandsFaithful'
  BY DEF CommandsFaithful, parse_keyboard, AfterKeys, mainvars, scanvars, cmdvars, filevars, outvars
<1> QED
  BY <1>1, <1>2, <1>4, <1>5, <1>6

(* A page of the help is left.                                             *)
LEMMA ClientHelpInv ==
    ASSUME ClientInv, helpscreen
    PROVE  ClientInv'
<1> USE DEF ClientInv
<1>1. ProgramTypeOK'
  <2>1. keys' \in Seq(Keys)
    BY HeadTailProperties DEF ProgramTypeOK, helpscreen
  <2>2. help' \in 0..2
    BY DEF ProgramTypeOK, Awaited, helpscreen
  <2>3. pc' \in {"help", "parse", "loop"} /\ in' \subseteq {"keys", "fifo"}
    BY DEF ProgramTypeOK, helpscreen, AfterKeys
  <2> QED
    BY <2>1, <2>2, <2>3
       DEF ProgramTypeOK, helpscreen, scanvars, cmdvars, filevars, PC, Asking, Dead
<1>2. Awaited'
  BY DEF Awaited, ProgramTypeOK, helpscreen, AfterKeys, mainvars, scanvars, cmdvars, filevars, outvars
<1>3. UNCHANGED <<last_state, listed>>
  BY DEF helpscreen, AfterKeys, dispvars, queuevars
<1>4. Exits'
  BY <1>3 DEF Exits, Dead, helpscreen, AfterKeys, mainvars, scanvars, cmdvars, filevars, outvars
<1>5. CleanExit'
  BY <1>3 DEF Exits, CleanExit, Dead, helpscreen, AfterKeys, mainvars, scanvars, cmdvars, filevars, outvars
<1>6. CommandsFaithful'
  BY DEF CommandsFaithful, helpscreen, AfterKeys, mainvars, scanvars, cmdvars, filevars, outvars
<1> QED
  BY <1>1, <1>2, <1>4, <1>5, <1>6

(* A message is parsed.                                                    *)
LEMMA ClientParseInv ==
    ASSUME ClientInv, Parse
    PROVE  ClientInv'
<1> USE DEF ClientInv
<1>1. ProgramTypeOK'
  <2>1. buf' \in Seq(Message)
    BY HeadTailProperties DEF ProgramTypeOK, Parse
  <2>2. inqueue' \in BOOLEAN /\ pc' \in {"accept", "parse"}
    BY DEF ProgramTypeOK, Parse
  <2> QED
    BY <2>1, <2>2 DEF ProgramTypeOK, Parse, Forget, filevars, outvars, PC, Asking, Dead
<1>2. Awaited'
  BY DEF Awaited, ProgramTypeOK, Parse, Forget, mainvars, scanvars, cmdvars, filevars, outvars
<1>4. Exits'
  BY DEF Exits, Dead, Parse, Forget, mainvars, scanvars, cmdvars, filevars, outvars
<1>5. CleanExit'
  BY DEF Exits, CleanExit, Dead, Parse, Forget, mainvars, scanvars, cmdvars, filevars, outvars
<1>6. CommandsFaithful'
  BY ForgetFaithful DEF Parse, Forget, mainvars, scanvars, cmdvars, filevars, outvars
<1> QED
  BY <1>1, <1>2, <1>4, <1>5, <1>6

(* The scanner reads, pauses, or finds the end of the file.                *)
LEMMA ClientInputInv ==
    ASSUME ClientInv, yy_nolog_input
    PROVE  ClientInv'
<1> USE DEF ClientInv
<1>1. ProgramTypeOK'
  <2>1. /\ buf' \in Seq(Message)
        /\ link' \in [q : Seq(Message), writer : {"none", "open", "gone"}, queue : -1..MaxPackets]
    <3>1. CASE buf' = buf /\ link' = link
      BY <3>1 DEF ProgramTypeOK
    <3>2. CASE \E n \in 1..Len(link.q) :
                  /\ buf' = SubSeq(link.q, 1, n)
                  /\ link' = [link EXCEPT !.q = SubSeq(@, n + 1, Len(@))]
      <4>1. PICK n \in 1..Len(link.q) :
                  /\ buf' = SubSeq(link.q, 1, n)
                  /\ link' = [link EXCEPT !.q = SubSeq(@, n + 1, Len(@))]
        BY <3>2
      <4>2. link.q \in Seq(Message)
        BY DEF ProgramTypeOK
      <4>3. Len(link.q) \in Nat /\ \A j \in 1..Len(link.q) : link.q[j] \in Message
        BY <4>2, LenProperties, ElementOfSeq
      <4>4. SubSeq(link.q, 1, n) \in Seq(Message)
        <5>1. 1 \in Int /\ n \in Int /\ \A j \in 1..n : link.q[j] \in Message
          BY <4>3
        <5> QED
          BY <5>1, SubSeqProperties
      <4>5. SubSeq(link.q, n + 1, Len(link.q)) \in Seq(Message)
        <5>1. n + 1 \in Int /\ Len(link.q) \in Int
              /\ \A j \in (n + 1)..Len(link.q) : link.q[j] \in Message
          BY <4>3
        <5> QED
          BY <5>1, SubSeqProperties
      <4> QED
        BY <4>1, <4>4, <4>5 DEF ProgramTypeOK
    <3> QED
      BY <3>1, <3>2 DEF yy_nolog_input
  <2>2. /\ pc' \in {"accept", "parse"} /\ yacc_block' \in BOOLEAN /\ yacc_eof' \in BOOLEAN
        /\ inqueue' \in BOOLEAN
    BY DEF ProgramTypeOK, yy_nolog_input
  <2> QED
    BY <2>1, <2>2 DEF ProgramTypeOK, yy_nolog_input, Forget, filevars, PC, Asking, Dead
<1>2. Awaited'
  BY DEF Awaited, ProgramTypeOK, yy_nolog_input, Forget, mainvars, scanvars, cmdvars, filevars, outvars
<1>3. UNCHANGED <<last_state, listed>>
  BY DEF yy_nolog_input, Forget, dispvars, queuevars
<1>4. Exits'
  BY <1>3 DEF Exits, Dead, yy_nolog_input, Forget, mainvars, scanvars, cmdvars, filevars, outvars
<1>5. CleanExit'
  BY <1>3 DEF Exits, CleanExit, Dead, yy_nolog_input, Forget, mainvars, scanvars, cmdvars, filevars, outvars
<1>6. CommandsFaithful'
  BY ForgetFaithful DEF yy_nolog_input, Forget, mainvars, scanvars, cmdvars, filevars, outvars
<1> QED
  BY <1>1, <1>2, <1>4, <1>5, <1>6

(* read_fifo calls yyparse again, returns, or lets main exit().            *)
LEMMA ClientReadFifoInv ==
    ASSUME ClientInv, read_fifo
    PROVE  ClientInv'
<1> USE DEF ClientInv
<1>1. ProgramTypeOK'
  <2>1. /\ pc' \in {"parse", "redraw", "exited"} /\ screen' \in BOOLEAN /\ fifo' \in BOOLEAN
        /\ atexit' = atexit
    BY DEF ProgramTypeOK, read_fifo, Exit, filevars
  <2>2. tries' \in 0..3
    BY DEF ProgramTypeOK, read_fifo
  <2> QED
    BY <2>1, <2>2 DEF ProgramTypeOK, read_fifo, cmdvars, outvars, PC, Asking, Dead
<1>2. Awaited'
  BY DEF Awaited, ProgramTypeOK, read_fifo, Exit, mainvars, scanvars, cmdvars, filevars, outvars
<1>3. UNCHANGED <<last_state, listed>>
  BY DEF read_fifo, Exit, dispvars, queuevars
<1>4. Exits'
  BY <1>3 DEF Exits, Dead, read_fifo, Exit, mainvars, scanvars, cmdvars, filevars, outvars
<1>5. CleanExit'
  BY <1>3 DEF Exits, CleanExit, Dead, read_fifo, Exit, mainvars, scanvars, cmdvars, filevars, outvars
<1>6. CommandsFaithful'
  BY DEF CommandsFaithful, read_fifo, Exit, mainvars, scanvars, cmdvars, filevars, outvars
<1> QED
  BY <1>1, <1>2, <1>4, <1>5, <1>6

(* do_screen_resize, when the flag is set.                                 *)
LEMMA ClientRedrawInv ==
    ASSUME ClientInv, RedrawResize
    PROVE  ClientInv'
<1> USE DEF ClientInv
<1>1. ProgramTypeOK'
  <2>1. pc' \in {"reset", "draw"} /\ overrun' \in BOOLEAN
    BY DEF ProgramTypeOK, RedrawResize
  <2>2. /\ UNCHANGED <<in, quit, help, resize_event_p>>
        /\ UNCHANGED scanvars /\ UNCHANGED cmdvars /\ UNCHANGED filevars /\ UNCHANGED outvars
    BY DEF RedrawResize
  <2> QED
    BY <2>1, <2>2 DEF ProgramTypeOK, scanvars, cmdvars, filevars, outvars, PC, Asking, Dead
<1>2. Awaited'
  BY DEF Awaited, ProgramTypeOK, RedrawResize, mainvars, scanvars, cmdvars, filevars, outvars
<1>4. Exits'
  BY DEF Exits, Dead, RedrawResize, mainvars, scanvars, cmdvars, filevars, outvars
<1>5. CleanExit'
  BY DEF Exits, CleanExit, Dead, RedrawResize, mainvars, scanvars, cmdvars, filevars, outvars
<1>6. CommandsFaithful'
  BY DEF CommandsFaithful, RedrawResize, mainvars, scanvars, cmdvars, filevars, outvars
<1> QED
  BY <1>1, <1>2, <1>4, <1>5, <1>6

(* The flag is reset.                                                      *)
LEMMA ClientResetInv ==
    ASSUME ClientInv, RedrawReset
    PROVE  ClientInv'
<1> USE DEF ClientInv
<1>1. ProgramTypeOK'
  <2>1. pc' = "draw" /\ resize_event_p' \in BOOLEAN
    BY DEF RedrawReset
  <2>2. /\ UNCHANGED <<in, quit, help, overrun>>
        /\ UNCHANGED scanvars /\ UNCHANGED cmdvars /\ UNCHANGED filevars /\ UNCHANGED outvars
    BY DEF RedrawReset
  <2> QED
    BY <2>1, <2>2 DEF ProgramTypeOK, scanvars, cmdvars, filevars, outvars, PC, Asking, Dead
<1>2. Awaited'
  BY DEF Awaited, ProgramTypeOK, RedrawReset, mainvars, scanvars, cmdvars, filevars, outvars
<1>3. UNCHANGED <<last_state, listed>>
  BY DEF RedrawReset, dispvars, queuevars
<1>4. Exits'
  BY <1>3 DEF Exits, Dead, RedrawReset, mainvars, scanvars, cmdvars, filevars, outvars
<1>5. CleanExit'
  BY <1>3 DEF Exits, CleanExit, Dead, RedrawReset, mainvars, scanvars, cmdvars, filevars, outvars
<1>6. CommandsFaithful'
  BY DEF CommandsFaithful, RedrawReset, mainvars, scanvars, cmdvars, filevars, outvars
<1> QED
  BY <1>1, <1>2, <1>4, <1>5, <1>6

(* The screen is drawn.                                                    *)
LEMMA ClientDrawInv ==
    ASSUME ClientInv, Draw
    PROVE  ClientInv'
<1> USE DEF ClientInv
<1>1. ProgramTypeOK'
  BY ClientAssumption DEF ProgramTypeOK, Draw, mainvars, scanvars, cmdvars, filevars, outvars, PC, Asking, Dead
<1>2. Awaited'
  BY DEF Awaited, ProgramTypeOK, Draw, mainvars, scanvars, cmdvars, filevars, outvars
<1>3. UNCHANGED <<last_state, listed>>
  BY DEF Draw, dispvars, queuevars
<1>4. Exits'
  BY <1>3 DEF Exits, Dead, Draw, mainvars, scanvars, cmdvars, filevars, outvars
<1>5. CleanExit'
  BY <1>3 DEF Exits, CleanExit, Dead, Draw, mainvars, scanvars, cmdvars, filevars, outvars
<1>6. CommandsFaithful'
  BY DEF CommandsFaithful, Draw, mainvars, scanvars, cmdvars, filevars, outvars
<1> QED
  BY <1>1, <1>2, <1>4, <1>5, <1>6

(* A signal that ends the program.                                         *)
LEMMA ClientSigInv ==
    ASSUME ClientInv, handlesig
    PROVE  ClientInv'
<1> USE DEF ClientInv
<1>1. ProgramTypeOK'
  <2>1. /\ pc' \in {"killed", "exited"} /\ screen' \in BOOLEAN /\ fifo' \in BOOLEAN
        /\ atexit' = atexit
    BY DEF ProgramTypeOK, handlesig, Exit, filevars
  <2> QED
    BY <2>1 DEF ProgramTypeOK, handlesig, scanvars, cmdvars, outvars, PC, Asking, Dead
<1>2. Awaited'
  BY DEF Awaited, ProgramTypeOK, handlesig, Exit, mainvars, scanvars, cmdvars, filevars, outvars
<1>3. UNCHANGED <<last_state, listed>>
  BY DEF handlesig, Exit, dispvars, queuevars
<1>4. Exits'
  BY <1>3 DEF Exits, Dead, handlesig, Exit, mainvars, scanvars, cmdvars, filevars, outvars
<1>5. CleanExit'
  BY <1>3 DEF Exits, CleanExit, Dead, handlesig, Exit, mainvars, scanvars, cmdvars, filevars, outvars
<1>6. CommandsFaithful'
  BY DEF CommandsFaithful, handlesig, Exit, mainvars, scanvars, cmdvars, filevars, outvars
<1> QED
  BY <1>1, <1>2, <1>4, <1>5, <1>6

(* What an index outside of scrbuff has done ends the program.             *)
LEMMA ClientCrashInv ==
    ASSUME ClientInv, Crash
    PROVE  ClientInv'
<1> USE DEF ClientInv
<1>1. ProgramTypeOK'
  BY DEF ProgramTypeOK, Crash, scanvars, cmdvars, filevars, outvars, PC, Asking, Dead
<1>2. Awaited'
  BY DEF Awaited, Crash
<1>3. UNCHANGED <<last_state, listed>>
  BY DEF Crash, dispvars, queuevars
<1>4. Exits'
  BY <1>3 DEF Exits, Dead, Crash, filevars
<1>5. CleanExit'
  BY DEF CleanExit, Crash
<1>6. CommandsFaithful'
  BY DEF CommandsFaithful, Crash, cmdvars
<1> QED
  BY <1>1, <1>2, <1>4, <1>5, <1>6

(* The terminal gets another size.                                         *)
LEMMA ClientWinchInv ==
    ASSUME ClientInv, \E h \in Height : handlesig_winch(h)
    PROVE  ClientInv'
<1> USE DEF ClientInv
<1>1. ProgramTypeOK'
  BY ClientAssumption DEF ProgramTypeOK, handlesig_winch, mainvars, scanvars, cmdvars, filevars, outvars, PC, Asking, Dead
<1>2. Awaited'
  BY DEF Awaited, ProgramTypeOK, handlesig_winch, mainvars, scanvars, cmdvars, filevars, outvars
<1>3. UNCHANGED <<last_state, listed>>
  BY DEF handlesig_winch, dispvars, queuevars
<1>4. Exits'
  BY <1>3 DEF Exits, Dead, handlesig_winch, mainvars, scanvars, cmdvars, filevars, outvars
<1>5. CleanExit'
  BY <1>3 DEF Exits, CleanExit, Dead, handlesig_winch, mainvars, scanvars, cmdvars, filevars, outvars
<1>6. CommandsFaithful'
  BY DEF CommandsFaithful, handlesig_winch, mainvars, scanvars, cmdvars, filevars, outvars
<1> QED
  BY <1>1, <1>2, <1>4, <1>5, <1>6

(* A key is pressed.                                                       *)
LEMMA ClientPressInv ==
    ASSUME ClientInv, \E k \in Keys : Press(k)
    PROVE  ClientInv'
<1> USE DEF ClientInv
<1>1. ProgramTypeOK'
  <2>1. keys' \in Seq(Keys)
    BY AppendProperties DEF ProgramTypeOK, Press
  <2> QED
    BY <2>1 DEF ProgramTypeOK, Press, mainvars, scanvars, cmdvars, filevars
<1>2. Awaited'
  BY DEF Awaited, ProgramTypeOK, Press, mainvars, scanvars, cmdvars, filevars, outvars
<1>3. UNCHANGED <<last_state, listed>>
  BY DEF Press, dispvars, queuevars
<1>4. Exits'
  BY <1>3 DEF Exits, Dead, Press, mainvars, scanvars, cmdvars, filevars, outvars
<1>5. CleanExit'
  BY <1>3 DEF Exits, CleanExit, Dead, Press, mainvars, scanvars, cmdvars, filevars, outvars
<1>6. CommandsFaithful'
  BY DEF CommandsFaithful, Press, mainvars, scanvars, cmdvars, filevars, outvars
<1> QED
  BY <1>1, <1>2, <1>4, <1>5, <1>6

(* The command prompt.                                                     *)
LEMMA ClientCommandInv ==
    ASSUME ClientInv, \E word \in Words : get_command(word)
    PROVE  ClientInv'
<1> USE DEF ClientInv
<1>1. ProgramTypeOK'
  <2>1. PICK word \in Words : get_command(word)
    OBVIOUS
  <2>2. typed' \in Words /\ told' \in ToSet(cmd) \cup {NoCommand}
    BY <2>1, WordParts, ValidateFaithful DEF get_command
  <2>3. pc' \in {"parse", "loop"} /\ in' = {}
    BY <2>1 DEF get_command, AfterKeys
  <2> QED
    BY <2>1, <2>2, <2>3 DEF ProgramTypeOK, get_command, scanvars, filevars, outvars, PC, Asking, Dead
<1>2. Awaited'
  BY DEF Awaited, ProgramTypeOK, get_command, AfterKeys, mainvars, scanvars, cmdvars, filevars, outvars
<1>3. UNCHANGED <<last_state, listed>>
  BY DEF get_command, AfterKeys, dispvars, queuevars
<1>4. Exits'
  BY <1>3 DEF Exits, Dead, get_command, AfterKeys, mainvars, scanvars, cmdvars, filevars, outvars
<1>5. CleanExit'
  BY <1>3 DEF Exits, CleanExit, Dead, get_command, AfterKeys, mainvars, scanvars, cmdvars, filevars, outvars
<1>6. CommandsFaithful'
  BY WordParts, ValidateFaithful DEF CommandsFaithful, get_command
<1> QED
  BY <1>1, <1>2, <1>4, <1>5, <1>6

(* Time passes.                                                            *)
LEMMA ClientTickInv ==
    ASSUME ClientInv, Tick
    PROVE  ClientInv'
<1> USE DEF ClientInv
<1>1. ProgramTypeOK'
  BY ClientAssumption DEF ProgramTypeOK, Tick, mainvars, scanvars, cmdvars, filevars, outvars, PC, Asking, Dead
<1>2. Awaited'
  BY DEF Awaited, ProgramTypeOK, Tick, mainvars, scanvars, cmdvars, filevars, outvars
<1>3. UNCHANGED <<last_state, listed>>
  BY DEF Tick, dispvars, queuevars
<1>4. Exits'
  BY <1>3 DEF Exits, Dead, Tick, mainvars, scanvars, cmdvars, filevars, outvars
<1>5. CleanExit'
  BY <1>3 DEF Exits, CleanExit, Dead, Tick, mainvars, scanvars, cmdvars, filevars, outvars
<1>6. CommandsFaithful'
  BY DEF CommandsFaithful, Tick, mainvars, scanvars, cmdvars, filevars, outvars
<1> QED
  BY <1>1, <1>2, <1>4, <1>5, <1>6

(* An exceptional condition on the socket.                                 *)
LEMMA ClientErrorInv ==
    ASSUME ClientInv, SelectError
    PROVE  ClientInv'
<1> USE DEF ClientInv
<1>1. ProgramTypeOK'
  BY ClientAssumption DEF ProgramTypeOK, SelectError, mainvars, scanvars, cmdvars, filevars, outvars, PC, Asking, Dead
<1>2. Awaited'
  BY DEF Awaited, ProgramTypeOK, SelectError, mainvars, scanvars, cmdvars, filevars, outvars
<1>3. UNCHANGED <<last_state, listed>>
  BY DEF SelectError, dispvars, queuevars
<1>4. Exits'
  BY <1>3 DEF Exits, Dead, SelectError, mainvars, scanvars, cmdvars, filevars, outvars
<1>5. CleanExit'
  BY <1>3 DEF Exits, CleanExit, Dead, SelectError, mainvars, scanvars, cmdvars, filevars, outvars
<1>6. CommandsFaithful'
  BY DEF CommandsFaithful, SelectError, mainvars, scanvars, cmdvars, filevars, outvars
<1> QED
  BY <1>1, <1>2, <1>4, <1>5, <1>6

(* diald writes a message.                                                 *)
LEMMA ClientWriteInv ==
    ASSUME ClientInv, DialdWrite(AnyType)
    PROVE  ClientInv'
<1> USE DEF ClientInv
<1>1. ProgramTypeOK'
  <2>1. PICK m \in NextMessages :
           link' = [link EXCEPT !.q = Append(@, m),
                                !.queue = CASE m.type = "QUEUE" -> 0
                                            [] m.type = "PACKET" -> @ + 1
                                            [] m.type = "END" -> NoQueue
                                            [] OTHER -> @]
    BY DEF DialdWrite
  <2>2. m \in Message /\ (m.type = "PACKET" => link.queue # NoQueue /\ link.queue < MaxPackets)
    BY ClientAssumption DEF NextMessages
  <2>3. /\ link.q \in Seq(Message) /\ link.queue \in -1..MaxPackets /\ MaxPackets \in Nat
        /\ link.writer \in {"none", "open", "gone"}
        /\ link = [q |-> link.q, writer |-> link.writer, queue |-> link.queue]
    BY ClientAssumption DEF ProgramTypeOK
  <2>4. Append(link.q, m) \in Seq(Message)
    BY <2>2, <2>3, AppendProperties
  <2>5. /\ link'.q = Append(link.q, m) /\ link'.writer = link.writer
        /\ link' = [q |-> link'.q, writer |-> link'.writer, queue |-> link'.queue]
    BY <2>1, <2>3
  <2>7. link'.queue \in -1..MaxPackets
    <3>1. link'.queue = CASE m.type = "QUEUE" -> 0
                          [] m.type = "PACKET" -> link.queue + 1
                          [] m.type = "END" -> NoQueue
                          [] OTHER -> link.queue
      BY <2>1, <2>3
    <3>2. NoQueue \in -1..MaxPackets /\ 0 \in -1..MaxPackets
      BY <2>3 DEF NoQueue
    <3>3. m.type = "PACKET" => link.queue + 1 \in -1..MaxPackets
      BY <2>2, <2>3
    <3> QED
      BY <3>1, <3>2, <3>3, <2>3
  <2>6. link' \in [q : Seq(Message), writer : {"none", "open", "gone"}, queue : -1..MaxPackets]
    BY <2>3, <2>4, <2>5, <2>7
  <2> QED
    BY <2>6 DEF ProgramTypeOK, DialdWrite, mainvars, scanvars, cmdvars, filevars
<1>2. Awaited'
  BY DEF Awaited, ProgramTypeOK, DialdWrite, mainvars, scanvars, cmdvars, filevars, outvars
<1>3. UNCHANGED <<last_state, listed>>
  BY DEF DialdWrite, dispvars, queuevars
<1>4. Exits'
  BY <1>3 DEF Exits, Dead, DialdWrite, mainvars, scanvars, cmdvars, filevars, outvars
<1>5. CleanExit'
  BY <1>3 DEF Exits, CleanExit, Dead, DialdWrite, mainvars, scanvars, cmdvars, filevars, outvars
<1>6. CommandsFaithful'
  BY DEF CommandsFaithful, DialdWrite, mainvars, scanvars, cmdvars, filevars, outvars
<1> QED
  BY <1>1, <1>2, <1>4, <1>5, <1>6

(* diald exits.                                                            *)
LEMMA ClientLeaveInv ==
    ASSUME ClientInv, DialdExit
    PROVE  ClientInv'
<1> USE DEF ClientInv
<1>1. ProgramTypeOK'
  <2>1. link' \in [q : Seq(Message), writer : {"none", "open", "gone"}, queue : -1..MaxPackets]
    BY DEF ProgramTypeOK, DialdExit
  <2> QED
    BY <2>1 DEF ProgramTypeOK, DialdExit, mainvars, scanvars, cmdvars, filevars
<1>2. Awaited'
  BY DEF Awaited, ProgramTypeOK, DialdExit, mainvars, scanvars, cmdvars, filevars, outvars
<1>3. UNCHANGED <<last_state, listed>>
  BY DEF DialdExit, dispvars, queuevars
<1>4. Exits'
  BY <1>3 DEF Exits, Dead, DialdExit, mainvars, scanvars, cmdvars, filevars, outvars
<1>5. CleanExit'
  BY <1>3 DEF Exits, CleanExit, Dead, DialdExit, mainvars, scanvars, cmdvars, filevars, outvars
<1>6. CommandsFaithful'
  BY DEF CommandsFaithful, DialdExit, mainvars, scanvars, cmdvars, filevars, outvars
<1> QED
  BY <1>1, <1>2, <1>4, <1>5, <1>6

(* main up to init_fifo establishes the invariant.                         *)
LEMMA ClientInitInv == Init => ClientInv /\ numeric \in BOOLEAN /\ trunc_local_hosts \in BOOLEAN
<1> SUFFICES ASSUME Init PROVE ClientInv /\ numeric \in BOOLEAN /\ trunc_local_hosts \in BOOLEAN
  OBVIOUS
<1>1. numeric \in BOOLEAN /\ trunc_local_hosts \in BOOLEAN
  <2>1. PICK o \in Options : numeric = o[1] /\ trunc_local_hosts = o[2]
    BY DEF Init, read_command_line
  <2> QED
    BY <2>1, ClientAssumption
<1>2. ProgramTypeOK
  <2>1. <<>> \in Seq(Message) /\ <<>> \in Seq(Keys)
    OBVIOUS
  <2>2. link \in [q : Seq(Message), writer : {"none", "open", "gone"}, queue : -1..MaxPackets]
    <3>1. NoQueue \in -1..MaxPackets
      BY ClientAssumption DEF NoQueue
    <3> QED
      BY <2>1, <3>1 DEF Init
  <2>3. height \in Height /\ clock \in 0..MaxClock /\ keys \in Seq(Keys) /\ buf \in Seq(Message)
    BY <2>1, ClientAssumption DEF Init
  <2>4. /\ quit \in BOOLEAN /\ inqueue \in BOOLEAN /\ yacc_block \in BOOLEAN
        /\ yacc_eof \in BOOLEAN /\ resize_event_p \in BOOLEAN /\ overrun \in BOOLEAN
        /\ screen \in BOOLEAN /\ fifo \in BOOLEAN
    BY DEF Init
  <2>5. /\ pc \in PC /\ in \subseteq {"keys", "fifo"} /\ help \in 0..2 /\ tries \in 0..3
        /\ atexit \subseteq {"close_screen", "close_fifo"}
    BY DEF Init, PC
  <2>6. typed \in Words \cup {NoCommand} /\ told \in ToSet(cmd) \cup {NoCommand}
    BY DEF Init
  <2> QED
    BY <2>2, <2>3, <2>4, <2>5, <2>6 DEF ProgramTypeOK
<1>3. Awaited
  BY DEF Awaited, Init
<1>4. Exits /\ CleanExit
  BY DEF Exits, CleanExit, Init, DisplayInit
<1>5. CommandsFaithful
  <2>1. <<>> \in Seq(Part)
    OBVIOUS
  <2>2. IsPrefix(NoCommand, NoCommand) /\ NoCommand \notin ToSet(cmd)
    BY <2>1, PrefixElements, CmdEntries DEF NoCommand
  <2> QED
    BY <2>2 DEF Init, CommandsFaithful
<1> QED
  BY <1>1, <1>2, <1>3, <1>4, <1>5 DEF ClientInv

(* Every step of the client, of its user and of diald keeps it.            *)
LEMMA ClientNextInv == ClientInv /\ [Next]_vars => ClientInv'
<1> SUFFICES ASSUME ClientInv, [Next]_vars PROVE ClientInv'
  OBVIOUS
<1>1. CASE ClientStep
  BY <1>1, ClientInitFifoInv, ClientWaitInv, ClientSelectInv, ClientKeyboardInv, ClientHelpInv,
     ClientParseInv, ClientInputInv, ClientReadFifoInv, ClientRedrawInv, ClientResetInv,
     ClientDrawInv DEF ClientStep
<1>2. CASE DialdWrite(AnyType)
  BY <1>2, ClientWriteInv
<1>3. CASE Environment
  BY <1>3, ClientOpenInv, ClientCrashInv, ClientSigInv, ClientWinchInv, ClientPressInv, ClientCommandInv, ClientTickInv,
     ClientErrorInv, ClientLeaveInv DEF Environment
<1>4. CASE UNCHANGED vars
  <2>1. /\ UNCHANGED <<pc, in, quit, help, tries, inqueue, buf, yacc_block, yacc_eof>>
        /\ UNCHANGED <<resize_event_p, overrun, typed, told, screen, fifo, atexit>>
        /\ UNCHANGED <<keys, height, clock, link, last_state, listed>>
    BY <1>4 DEF vars, mainvars, scanvars, cmdvars, filevars, outvars, dispvars, queuevars
  <2>2. ProgramTypeOK'
    BY <2>1 DEF ClientInv, ProgramTypeOK
  <2> QED
    BY <2>1, <2>2 DEF ClientInv, Awaited, Exits, CleanExit, CommandsFaithful
<1> QED
  BY <1>1, <1>2, <1>3, <1>4 DEF Next

(* The inductive invariant of the client holds in every behaviour.         *)
THEOREM ClientInvariance == Spec => []ClientInv
BY ClientInitInv, ClientNextInv, PTL DEF Spec

(* On every path that calls exit() the terminal is restored, and no FIFO   *)
(* stays behind once anything has been displayed.                          *)
THEOREM ExitsClean == Spec => []CleanExit
<1>1. ClientInv => CleanExit
  BY DEF ClientInv
<1> QED
  BY <1>1, ClientInvariance, PTL

(* With the nine commands of its table validate_command sends diald what   *)
(* was typed or its beginning, and a command of the table as itself, for   *)
(* any line the user may type: no entry of cmd begins another one.         *)
THEOREM CommandsSentFaithfully == Spec => []CommandsFaithful
<1>1. ClientInv => CommandsFaithful
  BY DEF ClientInv
<1> QED
  BY <1>1, ClientInvariance, PTL
-------------------------------------------------------------------------------
(* A message that is parsed does one thing to the display.                 *)
LEMMA ApplyStep ==
    ASSUME ClientInv, Parse
    PROVE  [DisplayNext]_dispvars
<1> DEFINE m == Head(buf)
<1>1. m \in Message
  BY HeadTailProperties DEF ClientInv, ProgramTypeOK, Parse
<1>2. clock \in Nat
  BY ClientAssumption DEF ClientInv, ProgramTypeOK
<1>3. Apply(m)
  BY DEF Parse
<1> HIDE DEF m
<1>4. CASE m.type = "STATE"
  <2>1. m.state \in LinkStates
    BY <1>1, <1>4 DEF Message
  <2> QED
    BY <1>3, <1>4, <2>1 DEF Apply, DisplayNext
<1>5. CASE m.type = "LOAD"
  <2>1. m.load \in Loads
    BY <1>1, <1>5 DEF Message
  <2> QED
    BY <1>3, <1>5, <2>1 DEF Apply, DisplayNext
<1>6. CASE m.type = "QUEUE"
  BY <1>2, <1>3, <1>6 DEF Apply, DisplayNext
<1>7. CASE m.type = "PACKET"
  <2>1. m.packet \in Packet
    BY <1>1, <1>7 DEF Message
  <2> QED
    BY <1>3, <1>7, <2>1 DEF Apply, DisplayNext
<1>8. CASE m.type \notin {"STATE", "LOAD", "QUEUE", "PACKET"}
  BY <1>3, <1>8 DEF Apply
<1> QED
  BY <1>4, <1>5, <1>6, <1>7, <1>8

(* Every step of the client is one of its display, or leaves it alone.     *)
LEMMA ClientDisplayStep == ClientInv /\ [Next]_vars => [DisplayNext]_dispvars
<1> SUFFICES ASSUME ClientInv, [Next]_vars PROVE [DisplayNext]_dispvars
  OBVIOUS
<1>1. CASE Parse
  BY <1>1, ApplyStep
<1>2. CASE parse_keyboard
  BY <1>2 DEF parse_keyboard, DisplayNext
<1>3. CASE RedrawResize
  <2>1. height \in Height
    BY DEF ClientInv, ProgramTypeOK
  <2> QED
    BY <1>3, <2>1 DEF RedrawResize, DisplayNext
<1>4. CASE init_fifo \/ WaitForDiald \/ Select \/ helpscreen \/ yy_nolog_input \/ read_fifo
           \/ RedrawReset \/ Draw
  BY <1>4 DEF init_fifo, WaitForDiald, Select, helpscreen, yy_nolog_input, read_fifo,
              RedrawReset, Draw
<1>5. CASE DialdWrite(AnyType) \/ Environment
  BY <1>5 DEF DialdWrite, Environment, OpenControl, Crash, handlesig, handlesig_winch, Press, get_command, Tick,
              SelectError, DialdExit
<1>6. CASE UNCHANGED vars
  BY <1>6 DEF vars
<1> QED
  BY <1>1, <1>2, <1>3, <1>4, <1>5, <1>6 DEF Next, ClientStep

(* The client implements the display on its own: whatever keys, signals,   *)
(* pauses and hang-ups come in between, parser.c sees one of its calls at  *)
(* a time.                                                                 *)
THEOREM ClientImplementsDisplay == Spec => DisplaySpec
<1>1. Init => (\E h \in Height : DisplayInit(h)) /\ numeric \in BOOLEAN /\ trunc_local_hosts \in BOOLEAN
  BY ClientInitInv DEF Init
<1> QED
  BY <1>1, ClientInvariance, ClientDisplayStep, PTL DEF Spec, DisplaySpec

(* Type correctness of the whole client.                                   *)
THEOREM ClientTypeCorrect == Spec => []ClientTypeOK
<1>1. ClientInv /\ DisplayInv => ClientTypeOK
  BY DEF ClientInv, DisplayInv, ClientTypeOK
<1> QED
  BY <1>1, ClientInvariance, ClientImplementsDisplay, DisplayInvariance, PTL

(* What the display promises holds in the client: an index is outside its  *)
(* array only on a terminal as high as the array is long, the list is      *)
(* diald's queue, each host is filed once, names are as DNS and the cut at *)
(* the local domain make them, and DNS is asked over an open link only.    *)
THEOREM ClientDisplays ==
    Spec => [](ListingFaithful /\ HostsOnce) /\ RowsContained /\ NamesCurrent /\ QueriesWhenUp
BY ClientImplementsDisplay, RowsAlwaysContained, ListingCorrect, HostsFiledOnce,
   NamesAlwaysCurrent, QueriesOnlyWhenUp, PTL
===============================================================================

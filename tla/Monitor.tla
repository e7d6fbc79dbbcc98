------------------------------- MODULE Monitor -------------------------------
(***************************************************************************)
(* client/monitor.l and monitor.y: from the bytes of the monitor FIFO or   *)
(* of the server's socket to the calls of do_state, do_load, do_queue, ... *)
(* The input is the tokens the scanner makes of it.  diald sends whole     *)
(* messages; on the way they may stop for half a second anywhere, inside a *)
(* word too, which the scanner reports as _WOULDBLOCK, and a server writes *)
(* messages of its own between two pieces of them.                         *)
(***************************************************************************)
EXTENDS Integers, Sequences, SequencesExt

CONSTANTS
    Kinds,      \* the messages diald sends in this instance
    MaxFaults   \* pauses and messages of the server that come inside others

VARIABLES
    cur,        \* diald's message being received ...
    rest,       \* ... what is left of it, as tokens ...
    spliced,    \* ... and of a message of the server that goes in front
    queueing,   \* in a queue of diald: "no", "begun" (nothing since QUEUE) or "yes"
    ctx,        \* the parser: its stack
    yyerrstatus,
    yyin,       \* "open", or "quit" after the exit() of yyerror
    bol,        \* the scanner is at the beginning of a line
    quit_if_parse_error,
    returned,   \* yyparse() has just returned to read_fifo
    seen,       \* history: what became of cur
    hit,        \* history: cur was damaged, or is one of Unreadable
    spoilt,     \* history: a queue was damaged and no END QUEUE came since
    faults

linevars == <<cur, rest, spliced, queueing>>
parservars == <<ctx, yyerrstatus, yyin, bol, quit_if_parse_error, returned>>
histvars == <<seen, hit, spoilt, faults>>
vars == <<linevars, parservars, histvars>>
-------------------------------------------------------------------------------
(* n lines of one token each.                                              *)
Lines(n, token) == [j \in 1..2 * n |-> IF j % 2 = 1 THEN token ELSE "_NEWLINE"]

(* The right-hand sides, down to tokens.  STATENAME is the message STATE,  *)
(* NPACKET a packet of a protocol without a name, TIME the stray time of   *)
(* the rule belch.                                                         *)
Rule ==
    [STATUS    |-> Lines(1, "_STATUS") \o Lines(6, "_NUM") \o Lines(3, "_TIME"),
     LOAD      |-> Lines(1, "_LOAD") \o Lines(2, "_NUM"),
     INTERFACE |-> Lines(1, "_INTERFACE") \o Lines(1, "_STRING") \o Lines(2, "_IP"),
     STATENAME |-> Lines(1, "_STATE") \o Lines(1, "_STRING"),
     MESSAGE   |-> Lines(1, "_MESSAGE") \o Lines(1, "_STRING"),
     QUEUE     |-> Lines(1, "_QUEUE"),
     PACKET    |-> <<"_STRING", "_IP", "_PORT", "_IP", "_PORT", "_TIME", "_NEWLINE">>,
     NPACKET   |-> <<"_NUM", "_IP", "_PORT", "_IP", "_PORT", "_TIME", "_NEWLINE">>,
     END       |-> Lines(1, "_ENDQUEUE"),
     TIME      |-> Lines(1, "_TIME")]

(* The scanner's tokens for a message.  PORT does not match "/0", which    *)
(* becomes a string: the message ZPACKET.                                  *)
Tokens(m) ==
    IF m = "ZPACKET"
    THEN <<"_STRING", "_IP", "_STRING", "_IP", "_PORT", "_TIME", "_NEWLINE">>
    ELSE Rule[m]

(* Messages the grammar has no rule for.                                   *)
Unreadable == {"ZPACKET"}

(* Messages printed with something they do not say: for a protocol without *)
(* a name, packet prints the pointer $2 of the address instead of $1.      *)
Misprinted == {"NPACKET"}

InQueue == {"PACKET", "NPACKET", "ZPACKET", "END"}
OfQueue == InQueue \cup {"QUEUE", "STATUS"}

Token == {"_WOULDBLOCK"} \cup UNION {Range(Rule[r]) : r \in DOMAIN Rule}

Kind == (DOMAIN Rule \ {"TIME"}) \cup {"ZPACKET"}

ASSUME MonitorAssumption == Kinds \subseteq Kind /\ MaxFaults \in Nat

(* What the scanner returns for the two halves of a token with a pause in  *)
(* between.  After the pause it is at the beginning of a line; a part of   *)
(* a message's text is echoed and not returned.                            *)
Halves(token) ==
    CASE token = "_NEWLINE" -> {}
      [] token = "_STRING" ->
            IF cur = "MESSAGE" THEN {<<<<>>, <<"_STRING">>>>}
            ELSE {<<<<"_STRING">>, <<"_STRING">>>>, <<<<"_STRING">>, <<"_NUM">>>>}
      [] token = "_NUM" -> {<<<<"_NUM">>, <<"_NUM">>>>}
      [] token = "_PORT" -> {<<<<"_STRING">>, <<"_NUM">>>>, <<<<"_PORT">>, <<"_NUM">>>>}
      [] token = "_IP" -> {<<<<"_NUM">>, <<"_STRING">>>>, <<<<"_IP">>, <<"_NUM">>>>}
      [] token = "_TIME" -> {<<<<"_NUM">>, <<"_STRING">>>>, <<<<"_NUM", "_STRING">>, <<"_NUM">>>>}
      [] token = "_ENDQUEUE" -> {<<<<"_STRING">>, <<"_STRING">>>>, <<<<"_STRING">>, <<"_QUEUE">>>>}
      [] OTHER -> {<<<<"_STRING">>, <<"_STRING">>>>}

(* A message of the server, where the scanner is: MESSAGE is a keyword at  *)
(* the beginning of a line only, and not where the text of one is due.     *)
ServerTokens ==
    IF bol /\ ~ (cur = "MESSAGE" /\ rest = Lines(1, "_STRING"))
    THEN Rule["MESSAGE"] ELSE Lines(2, "_STRING")
-------------------------------------------------------------------------------
(* The parser's stack: which list it is in ("skip" is "queue error"), the  *)
(* rule begun there with the number of its tokens, and whose tokens those  *)
(* are.                                                                    *)
Level == {"top", "queue", "packets", "skip"}
NoRule == "none"
At(level) == [level |-> level, rule |-> NoRule, k |-> 0, from |-> {}]

(* A grammar that does not know INTERFACE.                                 *)
Startable_nointerface ==
    [top     |-> {"STATUS", "LOAD", "STATENAME", "MESSAGE", "QUEUE", "TIME"},
     queue   |-> {"STATUS", "PACKET", "NPACKET", "END"},
     packets |-> {"PACKET", "NPACKET", "END"},
     skip    |-> {"END"}]

(* A grammar whose queue ends with END QUEUE only.                         *)
Startable_nostatus ==
    [top     |-> {"STATUS", "LOAD", "INTERFACE", "STATENAME", "MESSAGE", "QUEUE", "TIME"},
     queue   |-> {"PACKET", "NPACKET", "END"},
     packets |-> {"PACKET", "NPACKET", "END"},
     skip    |-> {"END"}]

(* The rules whose first token is shifted in each list.                    *)
Startable ==
    [top     |-> {"STATUS", "LOAD", "INTERFACE", "STATENAME", "MESSAGE", "QUEUE", "TIME"},
     queue   |-> {"STATUS", "PACKET", "NPACKET", "END"},
     packets |-> {"PACKET", "NPACKET", "END"},
     skip    |-> {"END"}]

Started(level, token) == {r \in Startable[level] : Rule[r][1] = token}

Due(c) == Rule[c.rule][c.k + 1]

(* The rule string: _STRING | string _STRING.                              *)
Repeats(c, token) ==
    c.rule # NoRule /\ token = "_STRING" /\ Rule[c.rule][c.k] = "_STRING"

(* No syntax error: at the top every token is a blurb's first or a belch,  *)
(* a pause is a packet in a queue and a time in any message.               *)
Acceptable(c, token) ==
    IF c.rule = NoRule
    THEN c.level \in {"top", "skip"} \/ token = "_WOULDBLOCK" \/ Started(c.level, token) # {}
    ELSE token = Due(c) \/ Repeats(c, token) \/ (token = "_WOULDBLOCK" /\ Due(c) = "_TIME")

(* Error recovery that waits for END QUEUE wherever it is.                 *)
Recovered_deep(c) == At("skip")

(* Error recovery: the stack is popped to "queue error" or to the start.   *)
Recovered(c) == At(IF c.level = "top" THEN "top" ELSE "skip")

(* YYACCEPT of the rule time.                                              *)
GivesUp(c, token) == token = "_WOULDBLOCK" /\ (c.rule # NoRule \/ c.level = "top")

(* Where the parser is after the last token of a rule.                     *)
After(rule) ==
    At(CASE rule = "QUEUE" -> "queue" [] rule \in {"PACKET", "NPACKET"} -> "packets"
         [] OTHER -> "top")

Completes(c, token) ==
    c.rule # NoRule /\ token = Due(c) /\ c.k + 1 = Len(Rule[c.rule])

(* The stack after an acceptable token.  A STATUS may take the place of    *)
(* the packets: it ends the queue with its first line.                     *)
Shift(c, token, owner) ==
    IF GivesUp(c, token) THEN At("top")
    ELSE IF Completes(c, token) THEN After(c.rule)
    ELSE IF c.rule # NoRule
         THEN [c EXCEPT !.k = IF token = Due(c) THEN @ + 1 ELSE @,
                        !.from = @ \cup {owner},
                        !.level = IF c.rule = "STATUS" THEN "top" ELSE @]
    ELSE IF Started(c.level, token) # {}
         THEN [c EXCEPT !.rule = CHOOSE r \in Started(c.level, token) : TRUE,
                        !.k = 1, !.from = {owner}]
    ELSE IF c.level = "queue" THEN At("packets") ELSE c

(* yyerrstatus counted down below zero.                                    *)
Errstatus_below(base, c, token) ==
    IF GivesUp(c, token) THEN 0
    ELSE IF c.level = "skip" /\ c.rule = NoRule /\ token # "_ENDQUEUE" THEN base
    ELSE base - 1

(* yyerrstatus after a token: three tokens without another error and an    *)
(* error is reported again.                                                *)
Errstatus(base, c, token) ==
    IF GivesUp(c, token) \/ base = 0 THEN 0
    ELSE IF c.level = "skip" /\ c.rule = NoRule /\ token # "_ENDQUEUE" THEN base
    ELSE base - 1

(* What is shown of a message whose rule was that message, nothing else.   *)
Outcome(m) == IF m \in Misprinted THEN "garbled" ELSE "done"

(* What the call at the end of a rule makes of diald's message.            *)
Called(c, owner) ==
    LET from == c.from \cup {owner} IN
    IF c.rule = "TIME" \/ (c.rule = "MESSAGE" /\ from = {"server"}) THEN seen
    ELSE IF c.rule = cur /\ from = {"diald"} /\ seen = "coming" THEN Outcome(cur)
    ELSE "garbled"

(* LOAD returning for a key only, like the others.                         *)
Returns_key(c, token, key) ==
    \/ GivesUp(c, token)
    \/ Completes(c, token) /\ key /\ After(c.rule).level = "top" /\ c.rule # "TIME"

(* YYACCEPT: a complete message makes yyparse return when lex_testkey      *)
(* finds a key, LOAD always.                                               *)
Returns(c, token, key) ==
    \/ GivesUp(c, token)
    \/ Completes(c, token) /\ c.rule = "LOAD"
    \/ Completes(c, token) /\ key /\ After(c.rule).level = "top" /\ c.rule # "TIME"

(* yyparse() with the next token.  With -q an error ends the program,      *)
(* unless it was a pause.                                                  *)
Parse(token, owner) ==
    LET error == ~ Acceptable(ctx, token)
        c == IF error THEN Recovered(ctx) ELSE ctx
    IN  /\ yyin = "open"
        /\ ctx' = Shift(c, token, owner)
        /\ yyerrstatus' = Errstatus(IF error THEN 3 ELSE yyerrstatus, c, token)
        /\ yyin' = IF error /\ yyerrstatus = 0 /\ token # "_WOULDBLOCK" /\ quit_if_parse_error
                   THEN "quit" ELSE "open"
        /\ seen' = IF Completes(c, token) THEN Called(c, owner) ELSE seen
        /\ \E key \in BOOLEAN : returned' = Returns(c, token, key)
        /\ bol' = (token \in {"_NEWLINE", "_WOULDBLOCK"})
        /\ UNCHANGED quit_if_parse_error
-------------------------------------------------------------------------------
MonitorInit ==
    /\ cur \in Kinds /\ rest = <<>> /\ spliced = <<>> /\ queueing = "no"
    /\ ctx = At("top") /\ yyerrstatus = 0 /\ yyin = "open" /\ bol = TRUE
    /\ quit_if_parse_error \in BOOLEAN /\ returned = FALSE
    /\ seen = Outcome(cur) /\ hit = FALSE /\ spoilt = FALSE /\ faults = 0

(* yylex(): the next token, of the server's message first.                 *)
Lex ==
    /\ IF spliced # <<>>
       THEN /\ Parse(Head(spliced), "server")
            /\ spliced' = Tail(spliced)
            /\ UNCHANGED rest
       ELSE /\ rest # <<>>
            /\ Parse(Head(rest), "diald")
            /\ rest' = Tail(rest)
            /\ UNCHANGED spliced
    /\ UNCHANGED <<cur, queueing, hit, spoilt, faults>>

Boundary == rest = <<>> /\ spliced = <<>>

(* select() finds nothing for half a second, between two messages.         *)
Idle ==
    /\ Boundary
    /\ Parse("_WOULDBLOCK", "diald")
    /\ queueing' = IF queueing = "begun" THEN "yes" ELSE queueing
    /\ UNCHANGED <<cur, rest, spliced, hit, spoilt, faults>>

(* diald's next message.  Packets and END QUEUE come in a queue only; a    *)
(* STATUS may come in the place of the packets, at once, and ends it.      *)
Write(m) ==
    /\ Boundary
    /\ IF queueing = "no" THEN m \notin InQueue
       ELSE m \in InQueue \/ (m = "STATUS" /\ queueing = "begun")
    /\ cur' = m /\ rest' = Tokens(m) /\ seen' = "coming"
    /\ queueing' = CASE m = "QUEUE" -> "begun" [] m \in InQueue \ {"END"} -> "yes" [] OTHER -> "no"
    /\ hit' = (m \in Unreadable)
    /\ spoilt' = IF cur = "END" /\ ~hit THEN FALSE ELSE spoilt \/ (hit /\ cur \in OfQueue)
    /\ ctx' = IF ctx.rule = NoRule THEN ctx ELSE [ctx EXCEPT !.from = @ \cup {"old"}]
    /\ UNCHANGED <<spliced, yyerrstatus, yyin, bol, quit_if_parse_error, returned, faults>>

Fault ==
    /\ faults < MaxFaults
    /\ faults' = faults + 1
    /\ UNCHANGED <<cur, queueing, parservars, seen>>

(* The pause comes inside a message, between two tokens, or before the     *)
(* STATUS that has to follow QUEUE at once (a pause there is an empty line *)
(* of the queue to the grammar, and ends what STATUS may take the place    *)
(* of) ...                                                                 *)
Pause ==
    /\ rest # <<>> /\ spliced = <<>>
    /\ rest # Tokens(cur) \/ cur = "STATUS"
    /\ rest' = <<"_WOULDBLOCK">> \o rest
    /\ hit' = TRUE
    /\ Fault
    /\ UNCHANGED <<spliced, spoilt>>

(* ... or inside one.                                                      *)
Cut ==
    /\ rest # <<>> /\ spliced = <<>>
    /\ \E h \in Halves(Head(rest)) :
          rest' = h[1] \o <<"_WOULDBLOCK">> \o h[2] \o Tail(rest)
    /\ hit' = TRUE
    /\ Fault
    /\ UNCHANGED <<spliced, spoilt>>

(* A message of the server's own: harmless between two messages of diald,  *)
(* unless they are of a queue.                                             *)
Splice ==
    /\ spliced = <<>>
    /\ spliced' = ServerTokens
    /\ hit' = (hit \/ rest # <<>>)
    /\ spoilt' = (spoilt \/ queueing # "no")
    /\ Fault
    /\ UNCHANGED rest

MonitorNext == Lex \/ Idle \/ (\E m \in Kinds : Write(m)) \/ Pause \/ Cut \/ Splice

MonitorSpec == MonitorInit /\ [][MonitorNext]_vars

(* diald reports the load and the queue again and again and ends a queue   *)
(* it has begun; the program goes on reading.                              *)
FairMonitorSpec ==
    /\ MonitorSpec
    /\ WF_vars(Lex)
    /\ SF_vars(Write("QUEUE")) /\ SF_vars(Write("END")) /\ SF_vars(Write("LOAD"))
-------------------------------------------------------------------------------
(* The values of the variables; a rule is left when its last token is in.  *)
MonitorTypeOK ==
    /\ cur \in Kinds /\ rest \in Seq(Token) /\ spliced \in Seq(Token)
    /\ queueing \in {"no", "begun", "yes"} /\ bol \in BOOLEAN /\ returned \in BOOLEAN
    /\ ctx \in [level : Level, rule : DOMAIN Rule \cup {NoRule}, k : Nat,
               from : SUBSET {"diald", "server", "old"}]
    /\ IF ctx.rule = NoRule THEN ctx.k = 0 ELSE ctx.k \in 1..Len(Rule[ctx.rule]) - 1
    /\ yyerrstatus \in 0..3 /\ yyin \in {"open", "quit"}
    /\ quit_if_parse_error \in BOOLEAN /\ hit \in BOOLEAN /\ spoilt \in BOOLEAN
    /\ seen \in {"coming", "done", "garbled"} /\ faults \in 0..MaxFaults

Hurt == hit \/ spoilt

(* Every message that arrives whole, and in a whole queue if it is of one, *)
(* is shown exactly once and as what it is (the parser implements Feed),   *)
(* with two exceptions the code makes: a packet of a protocol without a    *)
(* name is printed with a pointer in its place, and one with the port 0    *)
(* is read as damage is.                                                   *)
FeedImpl == INSTANCE Feed WITH msg <- cur, shown <- seen, damaged <- Hurt

MessagesShown == FeedImpl!FeedSpec

(* Damage ends with the message it hit, or with the next END QUEUE that    *)
(* arrives whole: between messages the parser is where diald is.           *)
Resynchronised ==
    Boundary /\ yyin = "open" /\ ~spoilt /\ (hit => cur \notin OfQueue) =>
        /\ ctx.rule = NoRule
        /\ ctx.level = [no |-> "top", begun |-> "queue", yes |-> "packets"][queueing]

(* -q ends the program only for a message that came in pieces, or spliced, *)
(* or with the port 0, or for the rest of the queue such a one was in.     *)
QuitOnDamage == yyin = "quit" => Hurt

(* yyparse() comes back to read_fifo, which shows the packets and looks at *)
(* a new screen size, again and again: no damage keeps it in a queue.      *)
Released == []<>(returned \/ yyin = "quit")
===============================================================================

----------------------------- MODULE MonitorProofs ----------------------------
(***************************************************************************)
(* Scanner and parser of the monitor, for any number of pauses and of      *)
(* messages of the server's inside diald's: first the grammar and the      *)
(* steps of the parser, then the invariant, then that every action keeps   *)
(* it.  What is known of the parser depends on the damage: after none it   *)
(* is where diald is (Whole), in an END QUEUE without damage it finds back *)
(* from anywhere (EndWhole), and in a damaged message that is not of a     *)
(* queue it is at the top, where the rest of the message cannot begin      *)
(* another one (TopSync).                                                  *)
(***************************************************************************)
EXTENDS Monitor, SequenceTheorems, TLAPS

(* Two lines of a message, written out.                                    *)
LEMMA TwoTwo ==
    ASSUME NEW t, NEW u, NEW v, NEW w
    PROVE  <<t, u>> \o <<v, w>> = <<t, u, v, w>>
<1> DEFINE S == {t, u, v, w}
           a == <<t, u>>
           b == <<v, w>>
           c == a \o b
<1>1. a \in Seq(S) /\ b \in Seq(S) /\ Len(a) = 2 /\ Len(b) = 2
  OBVIOUS
<1>2. /\ a[1] = t /\ a[2] = u
      /\ b[1] = v /\ b[2] = w
  OBVIOUS
<1> HIDE DEF S, a, b
<1>3. c \in Seq(S)
  BY <1>1, ConcatProperties
<1>4. Len(c) = Len(a) + Len(b)
  BY <1>1, ConcatProperties
<1>5. \A j \in 1..Len(a) + Len(b) : c[j] = IF j <= Len(a) THEN a[j] ELSE b[j - Len(a)]
  BY <1>1, ConcatProperties
<1>6. \A j \in 1..2 + 2 : c[j] = IF j <= 2 THEN a[j] ELSE b[j - 2]
  BY <1>1, <1>5
<1> HIDE DEF c
<1>7. /\ Len(c) = 4
      /\ c[1] = t /\ c[2] = u /\ c[3] = v /\ c[4] = w
  BY <1>1, <1>2, <1>4, <1>6
<1>8. c = <<t, u, v, w>>
  BY <1>3, <1>7
<1> QED
  BY <1>8 DEF c, a, b

(* Three lines.                                                            *)
LEMMA TwoFour ==
    ASSUME NEW t, NEW u, NEW v, NEW w, NEW x, NEW y
    PROVE  <<t, u>> \o <<v, w, x, y>> = <<t, u, v, w, x, y>>
<1> DEFINE S == {t, u, v, w, x, y}
           a == <<t, u>>
           b == <<v, w, x, y>>
           c == a \o b
<1>1. a \in Seq(S) /\ b \in Seq(S) /\ Len(a) = 2 /\ Len(b) = 4
  OBVIOUS
<1>2. /\ a[1] = t /\ a[2] = u
      /\ b[1] = v /\ b[2] = w /\ b[3] = x /\ b[4] = y
  OBVIOUS
<1> HIDE DEF S, a, b
<1>3. c \in Seq(S)
  BY <1>1, ConcatProperties
<1>4. Len(c) = Len(a) + Len(b)
  BY <1>1, ConcatProperties
<1>5. \A j \in 1..Len(a) + Len(b) : c[j] = IF j <= Len(a) THEN a[j] ELSE b[j - Len(a)]
  BY <1>1, ConcatProperties
<1>6. \A j \in 1..2 + 4 : c[j] = IF j <= 2 THEN a[j] ELSE b[j - 2]
  BY <1>1, <1>5
<1> HIDE DEF c
<1>7. /\ Len(c) = 6
      /\ c[1] = t /\ c[2] = u /\ c[3] = v /\ c[4] = w /\ c[5] = x /\ c[6] = y
  BY <1>1, <1>2, <1>4, <1>6
<1>8. c = <<t, u, v, w, x, y>>
  BY <1>3, <1>7
<1> QED
  BY <1>8 DEF c, a, b

(* Four lines.                                                             *)
LEMMA FourFour ==
    ASSUME NEW t, NEW u, NEW v, NEW w, NEW x, NEW y, NEW z, NEW k
    PROVE  <<t, u, v, w>> \o <<x, y, z, k>> = <<t, u, v, w, x, y, z, k>>
<1> DEFINE S == {t, u, v, w, x, y, z, k}
           a == <<t, u, v, w>>
           b == <<x, y, z, k>>
           c == a \o b
<1>1. a \in Seq(S) /\ b \in Seq(S) /\ Len(a) = 4 /\ Len(b) = 4
  OBVIOUS
<1>2. /\ a[1] = t /\ a[2] = u /\ a[3] = v /\ a[4] = w
      /\ b[1] = x /\ b[2] = y /\ b[3] = z /\ b[4] = k
  OBVIOUS
<1> HIDE DEF S, a, b
<1>3. c \in Seq(S)
  BY <1>1, ConcatProperties
<1>4. Len(c) = Len(a) + Len(b)
  BY <1>1, ConcatProperties
<1>5. \A j \in 1..Len(a) + Len(b) : c[j] = IF j <= Len(a) THEN a[j] ELSE b[j - Len(a)]
  BY <1>1, ConcatProperties
<1>6. \A j \in 1..4 + 4 : c[j] = IF j <= 4 THEN a[j] ELSE b[j - 4]
  BY <1>1, <1>5
<1> HIDE DEF c
<1>7. /\ Len(c) = 8
      /\ c[1] = t /\ c[2] = u /\ c[3] = v /\ c[4] = w /\ c[5] = x /\ c[6] = y /\ c[7] = z /\ c[8] = k
  BY <1>1, <1>2, <1>4, <1>6
<1>8. c = <<t, u, v, w, x, y, z, k>>
  BY <1>3, <1>7
<1> QED
  BY <1>8 DEF c, a, b

(* The right-hand sides but STATUS, written out.                           *)
LEMMA ShortRules ==
    /\ Rule["LOAD"] = <<"_LOAD", "_NEWLINE", "_NUM", "_NEWLINE", "_NUM", "_NEWLINE">>
    /\ Rule["INTERFACE"] = <<"_INTERFACE", "_NEWLINE", "_STRING", "_NEWLINE",
                             "_IP", "_NEWLINE", "_IP", "_NEWLINE">>
    /\ Rule["STATENAME"] = <<"_STATE", "_NEWLINE", "_STRING", "_NEWLINE">>
    /\ Rule["MESSAGE"] = <<"_MESSAGE", "_NEWLINE", "_STRING", "_NEWLINE">>
    /\ Rule["QUEUE"] = <<"_QUEUE", "_NEWLINE">>
    /\ Rule["PACKET"] = <<"_STRING", "_IP", "_PORT", "_IP", "_PORT", "_TIME", "_NEWLINE">>
    /\ Rule["NPACKET"] = <<"_NUM", "_IP", "_PORT", "_IP", "_PORT", "_TIME", "_NEWLINE">>
    /\ Rule["END"] = <<"_ENDQUEUE", "_NEWLINE">>
    /\ Rule["TIME"] = <<"_TIME", "_NEWLINE">>
    /\ Lines(2, "_STRING") = <<"_STRING", "_NEWLINE", "_STRING", "_NEWLINE">>
<1>1. \A t : Lines(1, t) = <<t, "_NEWLINE">>
  BY DEF Lines
<1>2. \A t : Lines(2, t) = <<t, "_NEWLINE", t, "_NEWLINE">>
  BY DEF Lines
<1>3. /\ Rule["LOAD"] = Lines(1, "_LOAD") \o Lines(2, "_NUM")
      /\ Rule["INTERFACE"] = (Lines(1, "_INTERFACE") \o Lines(1, "_STRING")) \o Lines(2, "_IP")
      /\ Rule["STATENAME"] = Lines(1, "_STATE") \o Lines(1, "_STRING")
      /\ Rule["MESSAGE"] = Lines(1, "_MESSAGE") \o Lines(1, "_STRING")
      /\ Rule["QUEUE"] = Lines(1, "_QUEUE")
      /\ Rule["END"] = Lines(1, "_ENDQUEUE")
      /\ Rule["TIME"] = Lines(1, "_TIME")
  BY DEF Rule
<1>4. /\ Rule["PACKET"] = <<"_STRING", "_IP", "_PORT", "_IP", "_PORT", "_TIME", "_NEWLINE">>
      /\ Rule["NPACKET"] = <<"_NUM", "_IP", "_PORT", "_IP", "_PORT", "_TIME", "_NEWLINE">>
  BY DEF Rule
<1>5. \A t, u : Lines(1, t) \o Lines(1, u) = <<t, "_NEWLINE", u, "_NEWLINE">>
  <2>1. \A t, u, v : <<t, v>> \o <<u, v>> = <<t, v, u, v>>
    BY TwoTwo
  <2> QED
    BY <1>1, <2>1
<1>6. Rule["LOAD"] = <<"_LOAD", "_NEWLINE", "_NUM", "_NEWLINE", "_NUM", "_NEWLINE">>
  <2>1. \A t, u, v : <<t, v>> \o <<u, v, u, v>> = <<t, v, u, v, u, v>>
    BY TwoFour
  <2>2. Lines(1, "_LOAD") = <<"_LOAD", "_NEWLINE">>
    BY <1>1
  <2>3. Lines(2, "_NUM") = <<"_NUM", "_NEWLINE", "_NUM", "_NEWLINE">>
    BY <1>2
  <2> QED
    BY <1>3, <2>1, <2>2, <2>3
<1>7. Rule["INTERFACE"] = <<"_INTERFACE", "_NEWLINE", "_STRING", "_NEWLINE",
                            "_IP", "_NEWLINE", "_IP", "_NEWLINE">>
  <2>1. \A t, u, v, w : <<t, v, w, v>> \o <<u, v, u, v>> = <<t, v, w, v, u, v, u, v>>
    BY FourFour
  <2>2. Lines(1, "_INTERFACE") \o Lines(1, "_STRING") = <<"_INTERFACE", "_NEWLINE", "_STRING", "_NEWLINE">>
    BY <1>5
  <2>3. Lines(2, "_IP") = <<"_IP", "_NEWLINE", "_IP", "_NEWLINE">>
    BY <1>2
  <2> QED
    BY <1>3, <2>1, <2>2, <2>3
<1> QED
  BY <1>1, <1>2, <1>3, <1>4, <1>5, <1>6, <1>7

(* STATUS is twenty tokens, of which the first says so.                    *)
LEMMA StatusRule ==
    /\ Rule["STATUS"] \in Seq({"_STATUS", "_NUM", "_TIME", "_NEWLINE"})
    /\ Len(Rule["STATUS"]) = 20
    /\ Rule["STATUS"][1] = "_STATUS" /\ Rule["STATUS"][3] = "_NUM"
    /\ \A j \in 2..20 : Rule["STATUS"][j] \in {"_NUM", "_TIME", "_NEWLINE"}
<1> DEFINE S == {"_STATUS", "_NUM", "_TIME", "_NEWLINE"}
           U == {"_NUM", "_TIME", "_NEWLINE"}
           a == Lines(1, "_STATUS")
           b == Lines(6, "_NUM")
           c == Lines(3, "_TIME")
           d == a \o b
           r == d \o c
<1>1. Rule["STATUS"] = r
  BY DEF Rule
<1>2. a \in Seq(S) /\ b \in Seq(S) /\ c \in Seq(S) /\ Len(a) = 2 /\ Len(b) = 12 /\ Len(c) = 6
  BY DEF Lines
<1>3. /\ a[1] = "_STATUS" /\ a[2] \in U
      /\ b[1] = "_NUM" /\ \A j \in 1..12 : b[j] \in U
      /\ \A j \in 1..6 : c[j] \in U
  BY DEF Lines
<1> HIDE DEF S, U, a, b, c
<1>4. d \in Seq(S)
  BY <1>2, ConcatProperties
<1>5. Len(d) = Len(a) + Len(b)
  BY <1>2, ConcatProperties
<1>6. \A j \in 1..Len(a) + Len(b) : d[j] = IF j <= Len(a) THEN a[j] ELSE b[j - Len(a)]
  BY <1>2, ConcatProperties
<1>71. \A j \in 1..2 + 12 : d[j] = IF j <= 2 THEN a[j] ELSE b[j - 2]
  BY <1>2, <1>6
<1>7. Len(d) = 14 /\ \A j \in 1..14 : d[j] = IF j <= 2 THEN a[j] ELSE b[j - 2]
  <2>1. Len(d) = 14
    BY <1>2, <1>5
  <2>2. ASSUME NEW j \in 1..14 PROVE j \in 1..2 + 12
    OBVIOUS
  <2> QED
    BY <1>71, <2>1, <2>2
<1> HIDE DEF d
<1>8. r \in Seq(S)
  BY <1>2, <1>4, ConcatProperties
<1>9. Len(r) = Len(d) + Len(c)
  BY <1>2, <1>4, ConcatProperties
<1>10. \A j \in 1..Len(d) + Len(c) : r[j] = IF j <= Len(d) THEN d[j] ELSE c[j - Len(d)]
  BY <1>2, <1>4, ConcatProperties
<1>111. \A j \in 1..14 + 6 : r[j] = IF j <= 14 THEN d[j] ELSE c[j - 14]
  BY <1>2, <1>7, <1>10
<1>11. Len(r) = 20 /\ \A j \in 1..20 : r[j] = IF j <= 14 THEN d[j] ELSE c[j - 14]
  <2>1. Len(r) = 20
    BY <1>2, <1>7, <1>9
  <2>2. ASSUME NEW j \in 1..20 PROVE j \in 1..14 + 6
    OBVIOUS
  <2> QED
    BY <1>111, <2>1, <2>2
<1> HIDE DEF r
<1>12. r[1] = "_STATUS" /\ r[3] = "_NUM"
  BY <1>3, <1>7, <1>11
<1>13. \A j \in 2..20 : r[j] \in U
  <2> SUFFICES ASSUME NEW j \in 2..20 PROVE r[j] \in U
    OBVIOUS
  <2>1. CASE j = 2
    BY <2>1, <1>3, <1>7, <1>11
  <2>2. CASE j \in 3..14
    <3>1. r[j] = b[j - 2] /\ j - 2 \in 1..12
      BY <2>2, <1>7, <1>11
    <3> QED
      BY <3>1, <1>3
  <2>3. CASE j \in 15..20
    <3>1. r[j] = c[j - 14] /\ j - 14 \in 1..6
      BY <2>3, <1>11
    <3> QED
      BY <3>1, <1>3
  <2> QED
    BY <2>1, <2>2, <2>3
<1> QED
  BY <1>1, <1>8, <1>11, <1>12, <1>13 DEF S, U

-------------------------------------------------------------------------------
RuleNames == {"STATUS", "LOAD", "INTERFACE", "STATENAME", "MESSAGE", "QUEUE", "PACKET",
              "NPACKET", "END", "TIME"}

(* Tokens that begin a message, and those that do not.                     *)
Keywords == {"_STATUS", "_LOAD", "_INTERFACE", "_STATE", "_MESSAGE", "_QUEUE", "_ENDQUEUE"}
Values == {"_NUM", "_STRING", "_IP", "_PORT", "_TIME", "_NEWLINE"}

(* The rules of the grammar.                                               *)
LEMMA RuleDomain == DOMAIN Rule = RuleNames
  BY DEF Rule, RuleNames

(* A right-hand side has at least two tokens; after the first one there    *)
(* are neither keywords nor pauses.                                        *)
LEMMA RuleShape ==
    ASSUME NEW m \in RuleNames
    PROVE  /\ Rule[m] \in Seq(Keywords \cup Values)
           /\ Len(Rule[m]) \in Nat /\ Len(Rule[m]) >= 2
           /\ Rule[m][1] \in Keywords \cup Values
           /\ \A j \in 2..Len(Rule[m]) : Rule[m][j] \in Values
<1>1. CASE m = "STATUS"
  <2>1. Rule["STATUS"] \in Seq(Keywords \cup Values)
    <3> DEFINE S == {"_STATUS", "_NUM", "_TIME", "_NEWLINE"}
               T == Keywords \cup Values
               r == Rule["STATUS"]
    <3>1. S \subseteq T
      BY DEF Keywords, Values
    <3>2. r \in Seq(S)
      BY StatusRule
    <3> HIDE DEF S, T, r
    <3>3. r \in Seq(T)
      BY <3>1, <3>2, SeqMonotonic
    <3> QED
      BY <3>3 DEF r, T
  <2>2. Rule["STATUS"][1] \in Keywords \cup Values
    BY StatusRule DEF Keywords
  <2>3. \A j \in 2..20 : Rule["STATUS"][j] \in Values
    BY StatusRule DEF Values
  <2> QED
    BY <1>1, <2>1, <2>2, <2>3, StatusRule
<1>2. CASE m = "LOAD"
  BY <1>2, ShortRules DEF Keywords, Values
<1>3. CASE m = "INTERFACE"
  BY <1>3, ShortRules DEF Keywords, Values
<1>4. CASE m = "STATENAME"
  BY <1>4, ShortRules DEF Keywords, Values
<1>5. CASE m = "MESSAGE"
  BY <1>5, ShortRules DEF Keywords, Values
<1>6. CASE m = "QUEUE"
  BY <1>6, ShortRules DEF Keywords, Values
<1>7. CASE m = "PACKET"
  BY <1>7, ShortRules DEF Keywords, Values
<1>8. CASE m = "NPACKET"
  BY <1>8, ShortRules DEF Keywords, Values
<1>9. CASE m = "END"
  BY <1>9, ShortRules DEF Keywords, Values
<1>10. CASE m = "TIME"
  BY <1>10, ShortRules DEF Keywords, Values
<1> QED
  BY <1>1, <1>2, <1>3, <1>4, <1>5, <1>6, <1>7, <1>8, <1>9, <1>10 DEF RuleNames

(* The tokens rules begin with.                                            *)
LEMMA Firsts ==
    /\ Rule["STATUS"][1] = "_STATUS" /\ Rule["LOAD"][1] = "_LOAD"
    /\ Rule["INTERFACE"][1] = "_INTERFACE" /\ Rule["STATENAME"][1] = "_STATE"
    /\ Rule["MESSAGE"][1] = "_MESSAGE" /\ Rule["QUEUE"][1] = "_QUEUE"
    /\ Rule["PACKET"][1] = "_STRING" /\ Rule["NPACKET"][1] = "_NUM"
    /\ Rule["END"][1] = "_ENDQUEUE" /\ Rule["TIME"][1] = "_TIME"
  BY ShortRules, StatusRule

(* The tokens of the scanner.                                              *)
LEMMA TokenValues == Token = Keywords \cup Values \cup {"_WOULDBLOCK"}
<1> DEFINE All == UNION {Range(Rule[r]) : r \in DOMAIN Rule}
<1>1. All \subseteq Keywords \cup Values
  <2> SUFFICES ASSUME NEW r \in RuleNames, NEW x \in DOMAIN Rule[r]
               PROVE  Rule[r][x] \in Keywords \cup Values
    BY RuleDomain DEF Range
  <2> QED
    BY RuleShape, LenProperties, ElementOfSeq
<1>2. \A r \in RuleNames : \A x \in DOMAIN Rule[r] : Rule[r][x] \in All
  BY RuleDomain DEF Range
<1>3. \A r \in RuleNames : \A x \in 1..Len(Rule[r]) : Rule[r][x] \in All
  <2> HIDE DEF All
  <2> QED
    BY <1>2, RuleShape, LenProperties
<1> HIDE DEF All
<1>4. \A r \in RuleNames : Rule[r][1] \in All
  BY <1>3, RuleShape
<1>5. Keywords \subseteq All /\ "_STRING" \in All /\ "_NUM" \in All /\ "_TIME" \in All
  BY <1>4, Firsts DEF Keywords, RuleNames
<1>6. "_IP" \in All /\ "_PORT" \in All /\ "_NEWLINE" \in All
  <2>1. Rule["PACKET"][2] = "_IP" /\ Rule["PACKET"][3] = "_PORT" /\ Rule["QUEUE"][2] = "_NEWLINE"
    BY ShortRules
  <2>2. Len(Rule["PACKET"]) = 7 /\ Len(Rule["QUEUE"]) = 2
    BY ShortRules
  <2> QED
    BY <1>3, <2>1, <2>2 DEF RuleNames
<1>7. Token = All \cup {"_WOULDBLOCK"}
  BY DEF Token, All
<1> QED
  BY <1>1, <1>5, <1>6, <1>7 DEF Values

(* What is left of a rule loses its first token.                           *)
LEMMA RuleTail ==
    ASSUME NEW m \in RuleNames, NEW k \in 0..Len(Rule[m]) - 1
    PROVE  /\ SubSeq(Rule[m], k + 1, Len(Rule[m])) \in Seq(Token)
           /\ SubSeq(Rule[m], k + 1, Len(Rule[m])) # <<>>
           /\ Len(SubSeq(Rule[m], k + 1, Len(Rule[m]))) = Len(Rule[m]) - k
           /\ Head(SubSeq(Rule[m], k + 1, Len(Rule[m]))) = Rule[m][k + 1]
           /\ Tail(SubSeq(Rule[m], k + 1, Len(Rule[m]))) = SubSeq(Rule[m], (k + 1) + 1, Len(Rule[m]))
           /\ Tail(SubSeq(Rule[m], k + 1, Len(Rule[m]))) = <<>> <=> k + 1 = Len(Rule[m])
<1> DEFINE s == Rule[m]
           n == Len(s)
           t == SubSeq(s, k + 1, n)
<1>1. s \in Seq(Token) /\ n \in Nat /\ n >= 2 /\ \A j \in 1..n : s[j] \in Token
  <2>1. s \in Seq(Token)
    BY RuleShape, TokenValues, SeqMonotonic
  <2> QED
    BY <2>1, RuleShape, ElementOfSeq
<1> HIDE DEF s, n
<1>2. k + 1 \in 1..n
  <2>1. \A x \in Nat : \A y \in 0..x - 1 : y + 1 \in 1..x
    OBVIOUS
  <2>2. k \in 0..n - 1
    BY DEF n, s
  <2> QED
    BY <2>1, <2>2, <1>1
<1>3. t \in Seq(Token) /\ Len(t) = n - (k + 1) + 1
  BY <1>1, <1>2, SubSeqProperties
<1>4. Len(t) = n - k /\ n - k >= 1
  BY <1>1, <1>2, <1>3
<1>5. t # <<>>
  <2>1. Len(<<>>) = 0
    BY EmptySeq
  <2> HIDE DEF t
  <2>2. Len(t) # 0
    BY <1>4
  <2> QED
    BY <2>1, <2>2
<1>6. Head(t) = s[k + 1] /\ Tail(t) = SubSeq(s, (k + 1) + 1, n)
  BY <1>1, <1>2, HeadTailOfSubSeq, n = Len(s) DEF n
<1>7. Len(Tail(t)) = Len(t) - 1 /\ Tail(t) \in Seq(Token)
  BY <1>3, <1>5, HeadTailProperties
<1>8. Tail(t) = <<>> <=> Len(Tail(t)) = 0
  BY <1>7, EmptySeq
<1>9. Tail(t) = <<>> <=> k + 1 = n
  BY <1>1, <1>2, <1>4, <1>7, <1>8
<1> QED
  BY <1>3, <1>4, <1>5, <1>6, <1>9 DEF t, n, s

-------------------------------------------------------------------------------
(* What the parser starts in each list.                                    *)
StartLevels(m) ==
    CASE m = "STATUS" -> {"top", "queue"}
      [] m \in {"PACKET", "NPACKET", "END"} -> {"queue", "packets"}
      [] OTHER -> {"top"}

Owners == {"diald", "server", "old"}

Stack == [level : Level, rule : RuleNames \cup {NoRule}, k : Nat, from : SUBSET Owners]

(* The parser's stack: nothing is begun, or a rule of the list is.         *)
Begun(c) ==
    /\ c.rule = NoRule => c.k = 0
    /\ c.rule # NoRule => c.rule \in RuleNames /\ c.rule \in Startable[c.level]
                          /\ c.k \in 1..Len(Rule[c.rule]) - 1

(* A message of diald's starts its own rule and no other one where it is   *)
(* expected.                                                               *)
LEMMA StartsOwn ==
    ASSUME NEW m \in RuleNames \ {"TIME"}, NEW level \in StartLevels(m)
    PROVE  level \in Level /\ m \in Startable[level] /\ Started(level, Rule[m][1]) = {m}
<1>1. level \in Level /\ m \in Startable[level]
  BY DEF Level, StartLevels, Startable, RuleNames
<1>2. \A r \in Startable[level] : Rule[r][1] = Rule[m][1] => r = m
  BY Firsts DEF StartLevels, Startable, RuleNames
<1> QED
  BY <1>1, <1>2 DEF Started

(* What starts nothing, and END QUEUE, which starts its rule in every list *)
(* that has one.                                                           *)
LEMMA StartsNothing ==
    /\ \A t \in Values \ {"_TIME"} : Started("top", t) = {}
    /\ \A level \in Level : Started(level, "_WOULDBLOCK") = {}
    /\ \A level \in Level : Started(level, "_ENDQUEUE") = IF level = "top" THEN {} ELSE {"END"}
    /\ Started("top", "_MESSAGE") = {"MESSAGE"}
<1>1. \A t \in Values \ {"_TIME"} : \A r \in Startable["top"] : Rule[r][1] # t
  BY Firsts DEF Values, Startable
<1>2. \A level \in Level : \A r \in Startable[level] : Rule[r][1] # "_WOULDBLOCK"
  BY Firsts DEF Level, Startable
<1>3. \A r \in Startable["top"] : Rule[r][1] # "_ENDQUEUE"
  BY Firsts DEF Startable
<1>4. \A level \in Level \ {"top"} : \A r \in Startable[level] : Rule[r][1] = "_ENDQUEUE" <=> r = "END"
  BY Firsts DEF Level, Startable
<1>5. \A level \in Level \ {"top"} : "END" \in Startable[level]
  BY DEF Level, Startable
<1>6. "MESSAGE" \in Startable["top"] /\ \A r \in Startable["top"] : Rule[r][1] = "_MESSAGE" <=> r = "MESSAGE"
  BY Firsts DEF Startable
<1> QED
  BY <1>1, <1>2, <1>3, <1>4, <1>5, <1>6 DEF Started

(* The rules that can be begun in a list.                                  *)
LEMMA StartableRules ==
    /\ \A level \in Level : Startable[level] \subseteq RuleNames
    /\ Startable["top"] = {"STATUS", "LOAD", "INTERFACE", "STATENAME", "MESSAGE", "QUEUE", "TIME"}
    /\ Startable["skip"] = {"END"}
    /\ "STATUS" \in Startable["top"]
    /\ \A r \in RuleNames : r # NoRule
  BY DEF Startable, Level, RuleNames, NoRule

(* The token that a rule waits for.                                        *)
LEMMA DueToken ==
    ASSUME NEW c \in Stack, Begun(c), c.rule # NoRule
    PROVE  /\ c.rule \in RuleNames /\ c.k \in 1..Len(Rule[c.rule]) - 1
           /\ Due(c) = Rule[c.rule][c.k + 1]
           /\ Due(c) \in Values
           /\ Rule[c.rule][c.k] \in Keywords \cup Values
<1>1. c.rule \in RuleNames /\ c.k \in 1..Len(Rule[c.rule]) - 1
  BY DEF Begun
<1> DEFINE n == Len(Rule[c.rule])
           k == c.k
<1>2. n \in Nat /\ k \in 1..n - 1
  BY <1>1, RuleShape
<1> HIDE DEF n, k
<1>3. k + 1 \in 2..n /\ (k = 1 \/ k \in 2..n)
  BY <1>2
<1>4. Rule[c.rule][k + 1] \in Values /\ Rule[c.rule][k] \in Keywords \cup Values
  BY <1>1, <1>3, RuleShape DEF n
<1> QED
  BY <1>1, <1>4 DEF Due, k

(* The next token of a rule.                                               *)
LEMMA ShiftDue ==
    ASSUME NEW c \in Stack, Begun(c), c.rule # NoRule, NEW owner \in Owners
    PROVE  /\ Acceptable(c, Due(c))
           /\ Completes(c, Due(c)) <=> c.k + 1 = Len(Rule[c.rule])
           /\ ~ GivesUp(c, Due(c))
           /\ Completes(c, Due(c)) => Shift(c, Due(c), owner) = After(c.rule)
           /\ ~ Completes(c, Due(c)) =>
                 Shift(c, Due(c), owner) =
                   [level |-> IF c.rule = "STATUS" THEN "top" ELSE c.level, rule |-> c.rule,
                    k |-> c.k + 1, from |-> c.from \cup {owner}]
<1>1. Due(c) # "_WOULDBLOCK"
  BY DueToken DEF Values
<1>2. ~ GivesUp(c, Due(c))
  BY <1>1 DEF GivesUp
<1>3. Acceptable(c, Due(c))
  BY DEF Acceptable
<1>4. Completes(c, Due(c)) <=> c.k + 1 = Len(Rule[c.rule])
  BY DEF Completes
<1> DEFINE x == c.k + 1
           y == c.from \cup {owner}
           z == IF c.rule = "STATUS" THEN "top" ELSE c.level
<1>5. [c EXCEPT !.k = x, !.from = y, !.level = z]
        = [level |-> z, rule |-> c.rule, k |-> x, from |-> y]
  <2> HIDE DEF x, y, z
  <2> DEFINE F == {"level", "rule", "k", "from"}
             d == [c EXCEPT !.k = x, !.from = y, !.level = z]
  <2>1. d = [f \in F |-> d[f]] /\ d.level = z /\ d.rule = c.rule /\ d.k = x /\ d.from = y
    BY DEF Stack
  <2> HIDE DEF d
  <2>2. d = [level |-> z, rule |-> c.rule, k |-> x, from |-> y]
    BY <2>1
  <2> QED
    BY <2>2 DEF d
<1>6. Shift(c, Due(c), owner) = IF Completes(c, Due(c)) THEN After(c.rule)
        ELSE [c EXCEPT !.k = c.k + 1, !.from = c.from \cup {owner},
                       !.level = IF c.rule = "STATUS" THEN "top" ELSE c.level]
  BY <1>2 DEF Shift
<1> QED
  BY <1>2, <1>3, <1>4, <1>5, <1>6

(* The first token of a rule.                                              *)
LEMMA ShiftFirst ==
    ASSUME NEW c \in Stack, c.rule = NoRule, NEW owner \in Owners, NEW token \in Token,
           token # "_WOULDBLOCK", Started(c.level, token) # {}
    PROVE  /\ Acceptable(c, token) /\ ~ GivesUp(c, token) /\ ~ Completes(c, token)
           /\ \E r \in Started(c.level, token) :
                 Shift(c, token, owner) = [level |-> c.level, rule |-> r, k |-> 1, from |-> {owner}]
<1>1. ~ GivesUp(c, token) /\ ~ Completes(c, token)
  BY DEF GivesUp, Completes
<1>2. Acceptable(c, token)
  BY DEF Acceptable
<1> DEFINE r == CHOOSE m \in Started(c.level, token) : TRUE
           x == 1
           y == {owner}
<1>3. r \in Started(c.level, token)
  OBVIOUS
<1>4. Shift(c, token, owner) = [c EXCEPT !.rule = r, !.k = x, !.from = y]
  BY <1>1 DEF Shift
<1> HIDE DEF r, x, y
<1> DEFINE F == {"level", "rule", "k", "from"}
           d == [c EXCEPT !.rule = r, !.k = x, !.from = y]
<1>5. d = [f \in F |-> d[f]] /\ d.level = c.level /\ d.rule = r /\ d.k = x /\ d.from = y
  BY DEF Stack
<1>6. Shift(c, token, owner) = d
  BY <1>4
<1> HIDE DEF d
<1>7. d = [level |-> c.level, rule |-> r, k |-> x, from |-> y]
  BY <1>5
<1> QED
  BY <1>1, <1>2, <1>3, <1>6, <1>7 DEF x, y

(* Nothing is begun and nothing starts.                                    *)
LEMMA ShiftNothing ==
    ASSUME NEW c \in Stack, c.rule = NoRule, NEW owner, NEW token,
           ~ GivesUp(c, token), Started(c.level, token) = {}
    PROVE  /\ Shift(c, token, owner) = IF c.level = "queue" THEN At("packets") ELSE c
           /\ ~ Completes(c, token)
  BY DEF Shift, Completes

(* A further word of a string.                                             *)
LEMMA ShiftRepeat ==
    ASSUME NEW c \in Stack, Begun(c), NEW owner \in Owners, NEW token,
           Repeats(c, token), token # Due(c)
    PROVE  /\ ~ GivesUp(c, token) /\ ~ Completes(c, token)
           /\ Shift(c, token, owner) =
                 [level |-> IF c.rule = "STATUS" THEN "top" ELSE c.level, rule |-> c.rule,
                  k |-> c.k, from |-> c.from \cup {owner}]
<1>1. c.rule # NoRule /\ ~ GivesUp(c, token) /\ ~ Completes(c, token)
  BY DEF Repeats, GivesUp, Completes
<1> DEFINE x == c.k
           y == c.from \cup {owner}
           z == IF c.rule = "STATUS" THEN "top" ELSE c.level
<1>2. Shift(c, token, owner) = [c EXCEPT !.k = x, !.from = y, !.level = z]
  BY <1>1 DEF Shift
<1> HIDE DEF x, y, z
<1> DEFINE F == {"level", "rule", "k", "from"}
           d == [c EXCEPT !.k = x, !.from = y, !.level = z]
<1>3. d = [f \in F |-> d[f]] /\ d.level = z /\ d.rule = c.rule /\ d.k = x /\ d.from = y
  BY DEF Stack
<1>4. Shift(c, token, owner) = d
  BY <1>2
<1> HIDE DEF d
<1>5. d = [level |-> z, rule |-> c.rule, k |-> x, from |-> y]
  BY <1>3
<1> QED
  BY <1>1, <1>4, <1>5 DEF x, y, z

-------------------------------------------------------------------------------
(* The lists as places of the stack.                                       *)
LEMMA AtFields ==
    ASSUME NEW level \in Level
    PROVE  /\ At(level) \in Stack /\ Begun(At(level))
           /\ At(level).level = level /\ At(level).rule = NoRule /\ At(level).k = 0
  BY DEF At, Stack, Begun

(* Where the parser is after a rule.                                       *)
LEMMA AfterFields ==
    ASSUME NEW r \in RuleNames
    PROVE  /\ \E level \in Level : After(r) = At(level)
           /\ r = "QUEUE" => After(r) = At("queue")
           /\ r \in {"PACKET", "NPACKET"} => After(r) = At("packets")
           /\ r \notin {"QUEUE", "PACKET", "NPACKET"} => After(r) = At("top")
  BY DEF After, Level

(* Every shift leaves a stack.                                             *)
LEMMA ShiftStack ==
    ASSUME NEW c \in Stack, Begun(c), NEW owner \in Owners, NEW token \in Token,
           Acceptable(c, token)
    PROVE  Shift(c, token, owner) \in Stack /\ Begun(Shift(c, token, owner))
<1> DEFINE d == Shift(c, token, owner)
<1>1. CASE GivesUp(c, token)
  <2>1. d = At("top")
    BY <1>1 DEF Shift
  <2> QED
    BY <2>1, AtFields DEF Level
<1>2. CASE ~ GivesUp(c, token) /\ c.rule # NoRule
  <2>1. c.rule \in RuleNames /\ c.k \in 1..Len(Rule[c.rule]) - 1 /\ c.k \in Nat
        /\ Len(Rule[c.rule]) \in Nat /\ c.rule \in Startable[c.level] /\ c.level \in Level
        /\ c.from \in SUBSET Owners
    BY <1>2, RuleShape DEF Begun, Stack
  <2> DEFINE z == IF c.rule = "STATUS" THEN "top" ELSE c.level
  <2>2. z \in Level /\ c.rule \in Startable[z]
    BY <2>1, StartableRules DEF Level
  <2>3. CASE token = Due(c) /\ Completes(c, token)
    <3>1. d = After(c.rule)
      BY <1>2, <2>3, ShiftDue
    <3> QED
      BY <2>1, <3>1, AfterFields, AtFields
  <2>4. CASE token = Due(c) /\ ~ Completes(c, token)
    <3>1. d = [level |-> z, rule |-> c.rule, k |-> c.k + 1, from |-> c.from \cup {owner}]
      BY <1>2, <2>4, ShiftDue
    <3>2. c.k + 1 # Len(Rule[c.rule])
      BY <1>2, <2>4, ShiftDue
    <3>3. c.k + 1 \in Nat /\ c.k + 1 \in 1..Len(Rule[c.rule]) - 1
      <4> DEFINE n == Len(Rule[c.rule])
                 k == c.k
      <4>1. n \in Nat /\ k \in 1..n - 1 /\ k + 1 # n
        BY <2>1, <3>2
      <4> HIDE DEF n, k
      <4>2. k + 1 \in Nat /\ k + 1 \in 1..n - 1
        BY <4>1
      <4> QED
        BY <4>2 DEF n, k
    <3>4. c.from \cup {owner} \in SUBSET Owners
      BY <2>1
    <3>5. d.level = z /\ d.rule = c.rule /\ d.k = c.k + 1
      BY <3>1
    <3>6. d \in Stack
      BY <2>1, <2>2, <3>1, <3>3, <3>4 DEF Stack
    <3> QED
      BY <2>1, <2>2, <3>3, <3>5, <3>6 DEF Begun
  <2>5. CASE token # Due(c)
    <3>1. Repeats(c, token)
      BY <1>2, <2>5 DEF Acceptable, GivesUp
    <3>2. d = [level |-> z, rule |-> c.rule, k |-> c.k, from |-> c.from \cup {owner}]
      BY <2>5, <3>1, ShiftRepeat
    <3>3. c.from \cup {owner} \in SUBSET Owners
      BY <2>1
    <3>4. d \in Stack /\ d.level = z /\ d.rule = c.rule /\ d.k = c.k
      BY <2>1, <2>2, <3>2, <3>3 DEF Stack
    <3> QED
      BY <2>1, <2>2, <3>4 DEF Begun
  <2> QED
    BY <2>3, <2>4, <2>5
<1>3. CASE ~ GivesUp(c, token) /\ c.rule = NoRule
  <2>1. CASE Started(c.level, token) = {}
    <3>1. d = IF c.level = "queue" THEN At("packets") ELSE c
      BY <1>3, <2>1, ShiftNothing
    <3> QED
      BY <3>1, AtFields DEF Level
  <2>2. CASE Started(c.level, token) # {}
    <3>1. c.level \in Level
      BY DEF Stack
    <3>2. token # "_WOULDBLOCK"
      BY <2>2, <3>1, StartsNothing
    <3>3. PICK r \in Started(c.level, token) :
             d = [level |-> c.level, rule |-> r, k |-> 1, from |-> {owner}]
      BY <1>3, <2>2, <3>2, ShiftFirst
    <3>4. r \in RuleNames /\ r \in Startable[c.level]
      BY <3>1, <3>3, StartableRules DEF Started
    <3>5. 1 \in 1..Len(Rule[r]) - 1
      BY <3>4, RuleShape
    <3>6. d \in Stack /\ d.level = c.level /\ d.rule = r /\ d.k = 1
      BY <3>1, <3>3, <3>4 DEF Stack
    <3>7. d.rule # NoRule
      BY <3>4, <3>6, StartableRules
    <3> QED
      BY <3>4, <3>5, <3>6, <3>7 DEF Begun
  <2> QED
    BY <2>1, <2>2
<1> QED
  BY <1>1, <1>2, <1>3

(* What the recovery from an error goes on with accepts everything.        *)
LEMMA RecoveredFields ==
    ASSUME NEW c \in Stack, NEW token
    PROVE  /\ Recovered(c) = At(IF c.level = "top" THEN "top" ELSE "skip")
           /\ Recovered(c) \in Stack /\ Begun(Recovered(c))
           /\ Acceptable(Recovered(c), token) /\ ~ Completes(Recovered(c), token)
<1>1. /\ Recovered(c) = At(IF c.level = "top" THEN "top" ELSE "skip")
      /\ (IF c.level = "top" THEN "top" ELSE "skip") \in {"top", "skip"}
      /\ {"top", "skip"} \subseteq Level
  BY DEF Recovered, Level
<1>2. \A level \in {"top", "skip"} : Acceptable(At(level), token) /\ ~ Completes(At(level), token)
  BY <1>1, AtFields DEF Acceptable, Completes
<1> QED
  BY <1>1, <1>2, AtFields

(* The types after a token.                                                *)
LEMMA ParseTypes ==
    ASSUME ctx \in Stack, Begun(ctx), yyerrstatus \in 0..3, seen \in {"coming", "done", "garbled"},
           quit_if_parse_error \in BOOLEAN,
           NEW token \in Token, NEW owner \in Owners, Parse(token, owner)
    PROVE  /\ ctx' \in Stack /\ Begun(ctx') /\ yyerrstatus' \in 0..3 /\ yyin' \in {"open", "quit"}
           /\ seen' \in {"coming", "done", "garbled"} /\ returned' \in BOOLEAN /\ bol' \in BOOLEAN
           /\ quit_if_parse_error' \in BOOLEAN
<1> DEFINE c == IF ~ Acceptable(ctx, token) THEN Recovered(ctx) ELSE ctx
           base == IF ~ Acceptable(ctx, token) THEN 3 ELSE yyerrstatus
<1>1. ctx' = Shift(c, token, owner) /\ yyerrstatus' = Errstatus(base, c, token)
  BY DEF Parse
<1>2. c \in Stack /\ Begun(c) /\ Acceptable(c, token)
  BY RecoveredFields
<1>3. ctx' \in Stack /\ Begun(ctx')
  <2> HIDE DEF c
  <2> QED
    BY <1>1, <1>2, ShiftStack
<1>4. yyerrstatus' \in 0..3
  <2>1. base \in 0..3
    OBVIOUS
  <2> HIDE DEF base, c
  <2>2. yyerrstatus' = 0 \/ yyerrstatus' = base \/ (base # 0 /\ yyerrstatus' = base - 1)
    BY <1>1 DEF Errstatus
  <2> QED
    BY <2>1, <2>2
<1>5. seen' \in {"coming", "done", "garbled"}
  BY DEF Parse, Called, Outcome
<1>6. returned' \in BOOLEAN
  BY DEF Parse, Returns
<1>7. bol' \in BOOLEAN /\ quit_if_parse_error' \in BOOLEAN
  BY DEF Parse
<1>8. yyin' \in {"open", "quit"}
  BY DEF Parse
<1> QED
  BY <1>3, <1>4, <1>5, <1>6, <1>7, <1>8

-------------------------------------------------------------------------------
(* Tokens that begin nothing at the top, and what is left of a message     *)
(* there once it is damaged.                                               *)
Harmless == {"_NUM", "_STRING", "_IP", "_PORT", "_NEWLINE", "_WOULDBLOCK"}
Harm(s) == s \in Seq(Harmless)
Paused(s) == \E j \in 1..Len(s) : s[j] = "_WOULDBLOCK"

(* The tokens s are what the rule m, begun, still waits for.               *)
Following(m, s) == ctx.rule = m /\ s = SubSeq(Rule[m], ctx.k + 1, Len(Rule[m]))

AtTop == ctx.rule = NoRule /\ ctx.level = "top"

(* Between two messages that are not of a queue, perhaps in a message of   *)
(* the server's.                                                           *)
Quiet ==
    \/ AtTop /\ (spliced = Rule["MESSAGE"] \/ Harm(spliced))
    \/ ctx.level = "top" /\ Following("MESSAGE", spliced) /\ ctx.from = {"server"}

Texts == {"INTERFACE", "STATENAME", "MESSAGE"}

(* In a message of the server's that has come inside one of diald's.       *)
ServerPart ==
    \/ spliced = Rule["MESSAGE"]
    \/ spliced = Lines(2, "_STRING")
    \/ Following("MESSAGE", spliced)
    \/ /\ spliced = <<"_NEWLINE", "_STRING", "_NEWLINE">>
       /\ ctx.rule = NoRule \/ (ctx.rule \in Texts /\ ctx.k = 3)
    \/ /\ spliced = <<"_STRING", "_NEWLINE">>
       /\ ctx.rule = NoRule \/ (ctx.rule = "INTERFACE" /\ ctx.k = 4)
    \/ spliced = <<"_NEWLINE">> /\ ctx.rule = NoRule

Unread == rest = Tokens(cur) \/ Harm(rest)

(* In a message that is not of a queue, whatever damage it has.            *)
TopSync ==
    /\ ctx.level = "top"
    /\ \/ ServerPart /\ Unread
       \/ spliced = <<>> /\ ctx.rule = NoRule /\ Unread
       \/ spliced = <<>> /\ Following(cur, rest)
       \/ spliced = <<>> /\ ctx.rule = cur /\ Harm(rest) /\ Paused(rest)

Lev == [no |-> "top", begun |-> "queue", yes |-> "packets"]

Queueing(m) ==
    CASE m = "QUEUE" -> "begun"
      [] m \in InQueue \ {"END"} -> "yes"
      [] OTHER -> "no"

(* In a message without damage, or after it.                               *)
Whole ==
    \/ /\ rest # <<>> /\ rest = Tokens(cur) /\ spliced = <<>>
       /\ ctx.rule = NoRule /\ ctx.level \in StartLevels(cur)
    \/ /\ rest # <<>> /\ spliced = <<>>
       /\ Following(cur, rest) /\ ctx.from = {"diald"}
    \/ rest = <<>> /\ queueing = "no" /\ Quiet
    \/ /\ rest = <<>> /\ queueing # "no" /\ spliced = <<>>
       /\ ctx.rule = NoRule /\ ctx.level = Lev[queueing]

(* In an END QUEUE without damage, wherever the parser was before it.      *)
EndWhole ==
    \/ rest = Rule["END"] /\ spliced = <<>>
    \/ rest = <<"_NEWLINE">> /\ spliced = <<>> /\ (ctx.rule = "END" \/ AtTop)
    \/ rest = <<>> /\ Quiet

(* Where diald is in a queue.                                              *)
QueueFacts ==
    /\ queueing # "no" => cur \in {"QUEUE", "PACKET", "NPACKET", "ZPACKET"}
    /\ rest # <<>> => queueing = Queueing(cur)
    /\ spliced # <<>> /\ ~spoilt => queueing = "no"
    /\ rest # <<>> /\ cur = "ZPACKET" => hit

(* The damage is of a queue, and no END QUEUE has repaired it.             *)
Bad == (spoilt /\ (cur # "END" \/ hit)) \/ (hit /\ cur \in OfQueue)

InSync ==
    /\ ~spoilt /\ cur \notin OfQueue => TopSync
    /\ ~hit /\ ~spoilt => Whole
    /\ cur = "END" /\ ~hit => EndWhole

Progress == ~Hurt => seen = IF rest = <<>> THEN Outcome(cur) ELSE "coming"

QuitFacts == yyin = "quit" => Hurt /\ (Boundary => Bad)

Parsing == yyin = "open" => InSync

MInv == QueueFacts /\ Parsing /\ Progress /\ QuitFacts

-------------------------------------------------------------------------------
(* yyparse() with a token the parser accepts.                              *)
LEMMA ParseAccepted ==
    ASSUME NEW token, NEW owner, Parse(token, owner), Acceptable(ctx, token)
    PROVE  /\ yyin' = "open" /\ ctx' = Shift(ctx, token, owner)
           /\ seen' = IF Completes(ctx, token) THEN Called(ctx, owner) ELSE seen
  BY DEF Parse

(* ... and with one it does not accept.                                    *)
LEMMA ParseRefused ==
    ASSUME ctx \in Stack, NEW token, NEW owner, Parse(token, owner), ~ Acceptable(ctx, token)
    PROVE  /\ ctx' = Shift(Recovered(ctx), token, owner)
           /\ seen' = seen
           /\ token = "_WOULDBLOCK" => yyin' = "open"
<1>1. ~ Completes(Recovered(ctx), token)
  BY RecoveredFields
<1> QED
  BY <1>1 DEF Parse

(* The token the rule waits for.                                           *)
LEMMA ParseDue ==
    ASSUME ctx \in Stack, Begun(ctx), ctx.rule # NoRule,
           NEW owner \in Owners, NEW token, token = Due(ctx), Parse(token, owner)
    PROVE  /\ yyin' = "open"
           /\ IF ctx.k + 1 = Len(Rule[ctx.rule])
              THEN ctx' = After(ctx.rule) /\ seen' = Called(ctx, owner)
              ELSE /\ ctx' = [level |-> IF ctx.rule = "STATUS" THEN "top" ELSE ctx.level,
                              rule |-> ctx.rule, k |-> ctx.k + 1, from |-> ctx.from \cup {owner}]
                   /\ seen' = seen
<1>1. /\ Acceptable(ctx, Due(ctx))
      /\ Completes(ctx, Due(ctx)) <=> ctx.k + 1 = Len(Rule[ctx.rule])
      /\ Completes(ctx, Due(ctx)) => Shift(ctx, Due(ctx), owner) = After(ctx.rule)
      /\ ~ Completes(ctx, Due(ctx)) =>
            Shift(ctx, Due(ctx), owner) =
              [level |-> IF ctx.rule = "STATUS" THEN "top" ELSE ctx.level, rule |-> ctx.rule,
               k |-> ctx.k + 1, from |-> ctx.from \cup {owner}]
  BY ShiftDue
<1>2. /\ yyin' = "open" /\ ctx' = Shift(ctx, Due(ctx), owner)
      /\ seen' = IF Completes(ctx, Due(ctx)) THEN Called(ctx, owner) ELSE seen
  BY <1>1, ParseAccepted
<1> QED
  BY <1>1, <1>2

(* The first token of a rule.                                              *)
LEMMA ParseFirst ==
    ASSUME ctx \in Stack, ctx.rule = NoRule, NEW owner \in Owners, NEW token \in Token,
           token # "_WOULDBLOCK", NEW r, Started(ctx.level, token) = {r}, Parse(token, owner)
    PROVE  /\ yyin' = "open" /\ seen' = seen
           /\ ctx' = [level |-> ctx.level, rule |-> r, k |-> 1, from |-> {owner}]
<1>1. /\ Acceptable(ctx, token) /\ ~ Completes(ctx, token)
      /\ \E m \in Started(ctx.level, token) :
            Shift(ctx, token, owner) = [level |-> ctx.level, rule |-> m, k |-> 1, from |-> {owner}]
  BY ShiftFirst
<1>2. Shift(ctx, token, owner) = [level |-> ctx.level, rule |-> r, k |-> 1, from |-> {owner}]
  BY <1>1
<1> QED
  BY <1>1, <1>2, ParseAccepted

(* At the top nothing comes of a token that begins nothing.                *)
LEMMA ShiftTop ==
    ASSUME NEW c \in Stack, c.rule = NoRule, c.level = "top", NEW owner, NEW token \in Harmless
    PROVE  /\ Acceptable(c, token) /\ ~ Completes(c, token)
           /\ Shift(c, token, owner).rule = NoRule /\ Shift(c, token, owner).level = "top"
<1>1. Acceptable(c, token) /\ ~ Completes(c, token)
  BY DEF Acceptable, Completes
<1>2. CASE token = "_WOULDBLOCK"
  <2>1. Shift(c, token, owner) = At("top")
    BY <1>2 DEF Shift, GivesUp
  <2> QED
    BY <1>1, <2>1, AtFields DEF Level
<1>3. CASE token # "_WOULDBLOCK"
  <2>1. Started("top", token) = {} /\ ~ GivesUp(c, token)
    BY <1>3, StartsNothing DEF Harmless, Values, GivesUp
  <2>2. Shift(c, token, owner) = c
    BY <2>1, ShiftNothing
  <2> QED
    BY <1>1, <2>2
<1> QED
  BY <1>2, <1>3

(* ... and nothing happens.                                                *)
LEMMA ParseNothing ==
    ASSUME ctx \in Stack, AtTop, NEW owner, NEW token \in Harmless, Parse(token, owner)
    PROVE  yyin' = "open" /\ seen' = seen /\ AtTop'
<1>1. /\ Acceptable(ctx, token) /\ ~ Completes(ctx, token)
      /\ Shift(ctx, token, owner).rule = NoRule /\ Shift(ctx, token, owner).level = "top"
  BY ShiftTop DEF AtTop
<1> QED
  BY <1>1, ParseAccepted DEF AtTop

(* A harmless token in a message at the top: the message goes on, or it    *)
(* ends, or the parser gives it up.                                        *)
LEMMA ParseHarmless ==
    ASSUME ctx \in Stack, Begun(ctx), ctx.rule # NoRule, ctx.level = "top",
           NEW owner \in Owners, NEW token \in Harmless, Parse(token, owner)
    PROVE  \/ AtTop'
           \/ /\ token = Due(ctx) /\ ctx.k + 1 = Len(Rule[ctx.rule])
              /\ ctx' = After(ctx.rule)
           \/ /\ ctx'.level = "top" /\ ctx'.rule = ctx.rule /\ token # "_WOULDBLOCK"
              /\ \/ token = Due(ctx) /\ ctx'.k = ctx.k + 1
                 \/ Repeats(ctx, token) /\ ctx'.k = ctx.k
<1>1. CASE ~ Acceptable(ctx, token)
  <2> DEFINE c == Recovered(ctx)
  <2>1. c = At("top") /\ ctx' = Shift(c, token, owner)
    BY <1>1, ParseRefused, RecoveredFields
  <2>2. c \in Stack /\ c.rule = NoRule /\ c.level = "top"
    BY <2>1, AtFields DEF Level
  <2> HIDE DEF c
  <2>3. Shift(c, token, owner).rule = NoRule /\ Shift(c, token, owner).level = "top"
    BY <2>2, ShiftTop
  <2> QED
    BY <2>1, <2>3 DEF AtTop
<1>2. CASE token = Due(ctx)
  <2>1. token # "_WOULDBLOCK"
    BY <1>2, DueToken DEF Values
  <2>2. CASE ctx.k + 1 = Len(Rule[ctx.rule])
    BY <1>2, <2>2, ParseDue
  <2>3. CASE ctx.k + 1 # Len(Rule[ctx.rule])
    <3>1. ctx' = [level |-> IF ctx.rule = "STATUS" THEN "top" ELSE ctx.level,
                  rule |-> ctx.rule, k |-> ctx.k + 1, from |-> ctx.from \cup {owner}]
      BY <1>2, <2>3, ParseDue
    <3> QED
      BY <1>2, <2>1, <3>1
  <2> QED
    BY <2>2, <2>3
<1>3. CASE Acceptable(ctx, token) /\ token # Due(ctx) /\ token = "_WOULDBLOCK"
  <2>1. ctx' = At("top")
    BY <1>3, ParseAccepted DEF Shift, GivesUp
  <2> QED
    BY <2>1, AtFields DEF AtTop, Level
<1>4. CASE Acceptable(ctx, token) /\ token # Due(ctx) /\ token # "_WOULDBLOCK"
  <2>1. Repeats(ctx, token)
    BY <1>4 DEF Acceptable
  <2>2. Shift(ctx, token, owner) =
          [level |-> IF ctx.rule = "STATUS" THEN "top" ELSE ctx.level, rule |-> ctx.rule,
           k |-> ctx.k, from |-> ctx.from \cup {owner}]
    BY <1>4, <2>1, ShiftRepeat
  <2>3. ctx' = Shift(ctx, token, owner)
    BY <1>4, ParseAccepted
  <2>4. ctx'.level = "top" /\ ctx'.rule = ctx.rule /\ ctx'.k = ctx.k
    BY <2>2, <2>3
  <2> QED
    BY <1>4, <2>1, <2>4
<1> QED
  BY <1>1, <1>2, <1>3, <1>4

(* A keyword inside a message is an error: at the top it begins a message  *)
(* of its own.                                                             *)
LEMMA ParseKeyword ==
    ASSUME ctx \in Stack, Begun(ctx), ctx.rule # NoRule, NEW owner \in Owners,
           NEW token \in Keywords, Parse(token, owner)
    PROVE  /\ ctx' = Shift(Recovered(ctx), token, owner) /\ seen' = seen
<1>1. token # Due(ctx) /\ token # "_WOULDBLOCK" /\ token # "_STRING"
  BY DueToken DEF Keywords, Values
<1>2. ~ Acceptable(ctx, token)
  BY <1>1 DEF Acceptable, Repeats
<1> QED
  BY <1>2, ParseRefused

-------------------------------------------------------------------------------
(* Short messages by their first token.                                    *)
LEMMA ShortTails ==
    /\ \A t : Head(<<t>>) = t /\ Tail(<<t>>) = <<>>
    /\ \A t, u : Head(<<t, u>>) = t /\ Tail(<<t, u>>) = <<u>>
    /\ \A t, u, v : Head(<<t, u, v>>) = t /\ Tail(<<t, u, v>>) = <<u, v>>
    /\ \A t, u, v, w : Head(<<t, u, v, w>>) = t /\ Tail(<<t, u, v, w>>) = <<u, v, w>>
  OBVIOUS

(* A rule and its first token.                                             *)
LEMMA RuleHead ==
    ASSUME NEW m \in RuleNames
    PROVE  /\ Rule[m] # <<>> /\ Rule[m] \in Seq(Token)
           /\ Head(Rule[m]) = Rule[m][1] /\ Rule[m][1] \in Token
           /\ Tail(Rule[m]) = SubSeq(Rule[m], 1 + 1, Len(Rule[m])) /\ Tail(Rule[m]) # <<>>
           /\ 1 \in 1..Len(Rule[m]) - 1
<1> DEFINE s == Rule[m]
<1>1. s \in Seq(Token) /\ Len(s) \in Nat /\ Len(s) >= 2 /\ s[1] \in Token
  <2>1. s \in Seq(Token)
    BY RuleShape, TokenValues, SeqMonotonic
  <2> QED
    BY <2>1, RuleShape, TokenValues
<1> HIDE DEF s
<1>2. s # <<>>
  BY <1>1, EmptySeq
<1>3. Head(s) = s[1] /\ Tail(s) = SubSeq(s, 2, Len(s)) /\ Len(Tail(s)) = Len(s) - 1
  BY <1>1, <1>2, HeadTailProperties
<1>4. Tail(s) # <<>>
  <2>1. Len(Tail(s)) # 0
    BY <1>1, <1>3
  <2> QED
    BY <2>1, EmptySeq
<1>5. 1 \in 1..Len(s) - 1 /\ 1 + 1 = 2
  BY <1>1
<1> QED
  BY <1>1, <1>2, <1>3, <1>4, <1>5 DEF s

(* The tokens of a harmless message.                                       *)
LEMMA HarmTail ==
    ASSUME NEW s, Harm(s), s # <<>>
    PROVE  /\ Head(s) \in Harmless /\ Harm(Tail(s))
           /\ Paused(s) /\ Head(s) # "_WOULDBLOCK" => Paused(Tail(s))
<1>1. s \in Seq(Harmless) /\ Len(s) \in Nat /\ Len(s) # 0
  BY EmptySeq, LenProperties DEF Harm
<1>2. Head(s) = s[1] /\ Tail(s) \in Seq(Harmless) /\ Len(Tail(s)) = Len(s) - 1
      /\ \A i \in 1..Len(Tail(s)) : Tail(s)[i] = s[i + 1]
  BY <1>1, HeadTailProperties DEF Harm
<1>3. s[1] \in Harmless
  BY <1>1, ElementOfSeq
<1>4. ASSUME Paused(s), Head(s) # "_WOULDBLOCK" PROVE Paused(Tail(s))
  <2>1. PICK j \in 1..Len(s) : s[j] = "_WOULDBLOCK"
    BY <1>4 DEF Paused
  <2>2. j # 1
    BY <1>2, <1>4, <2>1
  <2> DEFINE i == j - 1
  <2>3. i \in 1..Len(Tail(s)) /\ j = i + 1
    BY <1>1, <1>2, <2>1, <2>2
  <2> HIDE DEF i
  <2>4. Tail(s)[i] = "_WOULDBLOCK"
    BY <1>2, <2>1, <2>3
  <2> QED
    BY <2>3, <2>4 DEF Paused
<1> QED
  BY <1>2, <1>3, <1>4 DEF Harm

(* Nothing left is harmless, and no pause.                                 *)
LEMMA HarmEmpty == Harm(<<>>) /\ ~ Paused(<<>>)
  BY EmptySeq DEF Harm, Paused

(* The rules of the top that have a string have it in the third place.     *)
LEMMA StringPlaces ==
    ASSUME NEW r \in Startable["top"], NEW j \in 1..Len(Rule[r]), Rule[r][j] = "_STRING"
    PROVE  r \in Texts /\ j = 3
<1>1. r \in {"STATUS", "LOAD", "INTERFACE", "STATENAME", "MESSAGE", "QUEUE", "TIME"}
  BY StartableRules
<1>2. CASE r = "STATUS"
  <2>1. j \in 1..20 /\ (j = 1 \/ j \in 2..20)
    BY <1>2, StatusRule
  <2>2. Rule["STATUS"][j] \in {"_STATUS", "_NUM", "_TIME", "_NEWLINE"}
    BY <2>1, StatusRule
  <2> QED
    BY <1>2, <2>2
<1>3. CASE r = "LOAD"
  BY <1>3, ShortRules
<1>4. CASE r = "INTERFACE"
  BY <1>4, ShortRules DEF Texts
<1>5. CASE r = "STATENAME"
  BY <1>5, ShortRules DEF Texts
<1>6. CASE r = "MESSAGE"
  BY <1>6, ShortRules DEF Texts
<1>7. CASE r \in {"QUEUE", "TIME"}
  BY <1>7, ShortRules
<1> QED
  BY <1>1, <1>2, <1>3, <1>4, <1>5, <1>6, <1>7

(* What waits for the next token of a rule, by the length of what is left. *)
LEMMA FollowingHead ==
    ASSUME ctx \in Stack, Begun(ctx), NEW m \in RuleNames, NEW s, Following(m, s)
    PROVE  /\ ctx.rule # NoRule /\ ctx.rule = m /\ s # <<>> /\ s \in Seq(Token)
           /\ Head(s) = Due(ctx) /\ Head(s) \in Values
           /\ Tail(s) = SubSeq(Rule[m], (ctx.k + 1) + 1, Len(Rule[m]))
           /\ Tail(s) = <<>> <=> ctx.k + 1 = Len(Rule[m])
<1>1. ctx.rule # NoRule /\ ctx.rule = m
  BY StartableRules DEF Following
<1>2. ctx.k \in 1..Len(Rule[m]) - 1
  BY <1>1 DEF Begun
<1>3. ctx.k \in 0..Len(Rule[m]) - 1
  BY <1>2
<1> DEFINE k == ctx.k
<1>4. k \in 0..Len(Rule[m]) - 1 /\ s = SubSeq(Rule[m], k + 1, Len(Rule[m]))
  BY <1>3 DEF Following
<1> HIDE DEF k
<1>5. /\ s \in Seq(Token) /\ s # <<>>
      /\ Head(s) = Rule[m][k + 1]
      /\ Tail(s) = SubSeq(Rule[m], (k + 1) + 1, Len(Rule[m]))
      /\ Tail(s) = <<>> <=> k + 1 = Len(Rule[m])
  BY <1>4, RuleTail
<1>6. Due(ctx) = Rule[m][k + 1] /\ Due(ctx) \in Values
  BY <1>1, DueToken DEF k, Due
<1> QED
  BY <1>1, <1>5, <1>6 DEF k

(* Going on with a message.                                                *)
LEMMA FollowingStep ==
    ASSUME ctx \in Stack, Begun(ctx), NEW m \in RuleNames, NEW s, Following(m, s),
           NEW owner \in Owners, Parse(Head(s), owner)
    PROVE  /\ yyin' = "open"
           /\ IF Tail(s) = <<>>
              THEN ctx' = After(m) /\ seen' = Called(ctx, owner)
              ELSE /\ ctx'.level = (IF m = "STATUS" THEN "top" ELSE ctx.level)
                   /\ ctx'.rule = m /\ ctx'.k = ctx.k + 1 /\ ctx'.from = ctx.from \cup {owner}
                   /\ Tail(s) = SubSeq(Rule[m], ctx'.k + 1, Len(Rule[m]))
                   /\ seen' = seen
<1>1. /\ ctx.rule # NoRule /\ ctx.rule = m /\ Head(s) = Due(ctx)
      /\ Tail(s) = SubSeq(Rule[m], (ctx.k + 1) + 1, Len(Rule[m]))
      /\ Tail(s) = <<>> <=> ctx.k + 1 = Len(Rule[m])
  BY FollowingHead
<1>2. /\ yyin' = "open"
      /\ IF ctx.k + 1 = Len(Rule[ctx.rule])
         THEN ctx' = After(ctx.rule) /\ seen' = Called(ctx, owner)
         ELSE /\ ctx' = [level |-> IF ctx.rule = "STATUS" THEN "top" ELSE ctx.level,
                         rule |-> ctx.rule, k |-> ctx.k + 1, from |-> ctx.from \cup {owner}]
              /\ seen' = seen
  BY <1>1, ParseDue
<1>3. CASE Tail(s) = <<>>
  BY <1>1, <1>2, <1>3
<1>4. CASE Tail(s) # <<>>
  <2>1. /\ ctx' = [level |-> IF m = "STATUS" THEN "top" ELSE ctx.level,
                   rule |-> m, k |-> ctx.k + 1, from |-> ctx.from \cup {owner}]
        /\ seen' = seen
    BY <1>1, <1>2, <1>4
  <2>2. /\ ctx'.level = (IF m = "STATUS" THEN "top" ELSE ctx.level)
        /\ ctx'.rule = m /\ ctx'.k = ctx.k + 1 /\ ctx'.from = ctx.from \cup {owner}
    BY <2>1
  <2>3. Tail(s) = SubSeq(Rule[m], ctx'.k + 1, Len(Rule[m]))
    BY <1>1, <2>2
  <2> QED
    BY <1>2, <1>4, <2>1, <2>2, <2>3
<1> QED
  BY <1>3, <1>4

(* Starting a message where it is expected.                                *)
LEMMA OwnStep ==
    ASSUME ctx \in Stack, ctx.rule = NoRule, NEW m \in RuleNames \ {"TIME"},
           ctx.level \in StartLevels(m), NEW owner \in Owners, Parse(Head(Rule[m]), owner)
    PROVE  /\ yyin' = "open" /\ seen' = seen
           /\ ctx' = [level |-> ctx.level, rule |-> m, k |-> 1, from |-> {owner}]
           /\ Tail(Rule[m]) = SubSeq(Rule[m], ctx'.k + 1, Len(Rule[m])) /\ Tail(Rule[m]) # <<>>
<1> DEFINE token == Head(Rule[m])
<1>1. token = Rule[m][1] /\ token \in Token
  BY RuleHead
<1>2. Started(ctx.level, token) = {m} /\ ctx.level \in Level
  BY <1>1, StartsOwn
<1>3. token # "_WOULDBLOCK"
  BY <1>2, StartsNothing
<1>4. Parse(token, owner)
  OBVIOUS
<1> HIDE DEF token
<1>5. /\ yyin' = "open" /\ seen' = seen
      /\ ctx' = [level |-> ctx.level, rule |-> m, k |-> 1, from |-> {owner}]
  BY <1>1, <1>2, <1>3, <1>4, ParseFirst
<1>6. Tail(Rule[m]) = SubSeq(Rule[m], 1 + 1, Len(Rule[m])) /\ Tail(Rule[m]) # <<>>
  BY RuleHead
<1>7. ctx'.k = 1
  BY <1>5
<1> QED
  BY <1>5, <1>6, <1>7

(* MESSAGE at the top of a list, whatever was begun there.                 *)
LEMMA MessageStep ==
    ASSUME ctx \in Stack, Begun(ctx), ctx.level = "top", Parse("_MESSAGE", "server")
    PROVE  /\ seen' = seen
           /\ ctx.rule = NoRule => yyin' = "open"
           /\ ctx' = [level |-> "top", rule |-> "MESSAGE", k |-> 1, from |-> {"server"}]
<1>1. Started("top", "_MESSAGE") = {"MESSAGE"}
  BY StartsNothing
<1>2. "_MESSAGE" \in Keywords /\ "_MESSAGE" \in Token /\ "_MESSAGE" # "_WOULDBLOCK" /\ "server" \in Owners
  BY TokenValues DEF Keywords, Owners
<1>3. CASE ctx.rule = NoRule
  BY <1>1, <1>2, <1>3, ParseFirst
<1>4. CASE ctx.rule # NoRule
  <2> DEFINE c == Recovered(ctx)
             token == "_MESSAGE"
             owner == "server"
  <2>1. ctx' = Shift(c, token, owner) /\ seen' = seen
    BY <1>2, <1>4, ParseKeyword
  <2>2. c = At("top")
    BY RecoveredFields
  <2>3. c \in Stack /\ c.rule = NoRule /\ c.level = "top"
    BY <2>2, AtFields DEF Level
  <2>4. token \in Token /\ owner \in Owners /\ token # "_WOULDBLOCK"
        /\ Started("top", token) = {"MESSAGE"}
    BY <1>1, <1>2
  <2> HIDE DEF c, token, owner
  <2>5. \E r \in Started(c.level, token) :
           Shift(c, token, owner) = [level |-> c.level, rule |-> r, k |-> 1, from |-> {owner}]
    BY <2>3, <2>4, ShiftFirst
  <2>6. Shift(c, token, owner) = [level |-> "top", rule |-> "MESSAGE", k |-> 1, from |-> {owner}]
    BY <2>3, <2>4, <2>5
  <2>7. ctx' = [level |-> "top", rule |-> "MESSAGE", k |-> 1, from |-> {owner}]
    BY <2>1, <2>6
  <2> QED
    BY <1>4, <2>1, <2>7 DEF owner
<1> QED
  BY <1>3, <1>4

-------------------------------------------------------------------------------
(* A message of the server's between two of diald's is read as one.        *)
LEMMA QuietStep ==
    ASSUME ctx \in Stack, Begun(ctx), Quiet, spliced # <<>>,
           Parse(Head(spliced), "server"), spliced' = Tail(spliced)
    PROVE  Quiet' /\ yyin' = "open" /\ seen' = seen
<1>1. "server" \in Owners /\ "MESSAGE" \in RuleNames
  BY DEF Owners, RuleNames
<1>2. CASE AtTop /\ spliced = Rule["MESSAGE"]
  <2>1. "MESSAGE" \in RuleNames \ {"TIME"} /\ ctx.level \in StartLevels("MESSAGE")
        /\ ctx.rule = NoRule /\ ctx.level = "top"
    BY <1>1, <1>2 DEF AtTop, StartLevels
  <2>2. Parse(Head(Rule["MESSAGE"]), "server")
    BY <1>2
  <2>3. /\ yyin' = "open" /\ seen' = seen
        /\ ctx' = [level |-> ctx.level, rule |-> "MESSAGE", k |-> 1, from |-> {"server"}]
        /\ Tail(Rule["MESSAGE"]) = SubSeq(Rule["MESSAGE"], ctx'.k + 1, Len(Rule["MESSAGE"]))
    BY <1>1, <2>1, <2>2, OwnStep
  <2>4. ctx'.level = "top" /\ ctx'.rule = "MESSAGE" /\ ctx'.from = {"server"}
    BY <2>1, <2>3
  <2>5. spliced' = Tail(Rule["MESSAGE"])
    BY <1>2
  <2> QED
    BY <2>3, <2>4, <2>5 DEF Quiet, Following
<1>3. CASE AtTop /\ Harm(spliced)
  <2>1. Head(spliced) \in Harmless /\ Harm(Tail(spliced))
    BY <1>3, HarmTail
  <2>2. yyin' = "open" /\ seen' = seen /\ AtTop'
    BY <1>3, <2>1, ParseNothing
  <2>3. Harm(spliced)'
    BY <2>1 DEF Harm
  <2> QED
    BY <2>2, <2>3 DEF Quiet
<1>4. CASE ctx.level = "top" /\ Following("MESSAGE", spliced) /\ ctx.from = {"server"}
  <2>1. /\ yyin' = "open"
        /\ IF Tail(spliced) = <<>>
           THEN ctx' = After("MESSAGE") /\ seen' = Called(ctx, "server")
           ELSE /\ ctx'.level = (IF "MESSAGE" = "STATUS" THEN "top" ELSE ctx.level)
                /\ ctx'.rule = "MESSAGE" /\ ctx'.k = ctx.k + 1 /\ ctx'.from = ctx.from \cup {"server"}
                /\ Tail(spliced) = SubSeq(Rule["MESSAGE"], ctx'.k + 1, Len(Rule["MESSAGE"]))
                /\ seen' = seen
    BY <1>1, <1>4, FollowingStep
  <2>2. CASE Tail(spliced) = <<>>
    <3>1. ctx' = At("top")
      BY <1>1, <2>1, <2>2, AfterFields
    <3>2. AtTop'
      BY <3>1, AtFields DEF AtTop, Level
    <3>3. ctx.rule = "MESSAGE"
      BY <1>4 DEF Following
    <3>4. seen' = seen
      BY <1>4, <2>1, <2>2, <3>3 DEF Called
    <3>5. Harm(spliced)'
      BY <2>2, HarmEmpty DEF Harm
    <3> QED
      BY <2>1, <3>2, <3>4, <3>5 DEF Quiet
  <2>3. CASE Tail(spliced) # <<>>
    <3>1. ctx'.level = "top" /\ ctx'.rule = "MESSAGE" /\ ctx'.from = {"server"}
          /\ spliced' = SubSeq(Rule["MESSAGE"], ctx'.k + 1, Len(Rule["MESSAGE"])) /\ seen' = seen
      BY <1>4, <2>1, <2>3
    <3> QED
      BY <2>1, <3>1 DEF Quiet, Following
  <2> QED
    BY <2>2, <2>3
<1> QED
  BY <1>2, <1>3, <1>4 DEF Quiet

(* A pause between two messages.                                           *)
LEMMA QuietPause ==
    ASSUME ctx \in Stack, Begun(ctx), Quiet, spliced = <<>>
    PROVE  AtTop
<1>1. ~ Following("MESSAGE", spliced)
  BY FollowingHead DEF RuleNames
<1> QED
  BY <1>1 DEF Quiet

(* A message of the server's inside one of diald's.                        *)
LEMMA TopServer ==
    ASSUME ctx \in Stack, Begun(ctx), ctx.level = "top", ServerPart,
           Parse(Head(spliced), "server"), spliced' = Tail(spliced)
    PROVE  /\ ctx'.level = "top"
           /\ ServerPart' \/ (spliced' = <<>> /\ ctx'.rule = NoRule)
           /\ Tail(spliced) = <<>> => yyin' = "open"
<1>1. "server" \in Owners /\ "MESSAGE" \in RuleNames
      /\ "_STRING" \in Harmless /\ "_NEWLINE" \in Harmless /\ NoRule \notin Texts
  BY DEF Owners, RuleNames, Harmless, NoRule, Texts
<1>2. CASE spliced = Rule["MESSAGE"]
  <2>1. Head(spliced) = "_MESSAGE" /\ Tail(spliced) # <<>>
        /\ Tail(spliced) = SubSeq(Rule["MESSAGE"], 1 + 1, Len(Rule["MESSAGE"]))
    BY <1>1, <1>2, RuleHead, Firsts
  <2>2. ctx' = [level |-> "top", rule |-> "MESSAGE", k |-> 1, from |-> {"server"}]
    BY <2>1, MessageStep
  <2>3. ctx'.level = "top" /\ ctx'.rule = "MESSAGE" /\ ctx'.k = 1
    BY <2>2
  <2>4. spliced' = SubSeq(Rule["MESSAGE"], ctx'.k + 1, Len(Rule["MESSAGE"]))
    BY <2>1, <2>3
  <2> QED
    BY <2>1, <2>3, <2>4 DEF ServerPart, Following
<1>3. CASE Following("MESSAGE", spliced)
  <2>1. /\ yyin' = "open"
        /\ IF Tail(spliced) = <<>>
           THEN ctx' = After("MESSAGE")
           ELSE /\ ctx'.level = (IF "MESSAGE" = "STATUS" THEN "top" ELSE ctx.level)
                /\ ctx'.rule = "MESSAGE"
                /\ Tail(spliced) = SubSeq(Rule["MESSAGE"], ctx'.k + 1, Len(Rule["MESSAGE"]))
    BY <1>1, <1>3, FollowingStep
  <2>2. CASE Tail(spliced) = <<>>
    <3>1. ctx' = At("top")
      BY <1>1, <2>1, <2>2, AfterFields
    <3> QED
      BY <2>1, <2>2, <3>1, AtFields DEF Level
  <2>3. CASE Tail(spliced) # <<>>
    <3>1. ctx'.level = "top" /\ ctx'.rule = "MESSAGE"
          /\ spliced' = SubSeq(Rule["MESSAGE"], ctx'.k + 1, Len(Rule["MESSAGE"]))
      BY <2>1, <2>3
    <3> QED
      BY <2>3, <3>1 DEF ServerPart, Following
  <2> QED
    BY <2>2, <2>3
<1>4. ASSUME ctx.rule # NoRule
      PROVE  /\ ctx.rule \in Startable["top"] /\ ctx.rule \in RuleNames
             /\ ctx.k \in 1..Len(Rule[ctx.rule]) /\ ctx.k + 1 \in 1..Len(Rule[ctx.rule])
             /\ Due(ctx) = Rule[ctx.rule][ctx.k + 1] /\ ctx.k \in Nat
  <2>1. ctx.rule \in Startable["top"] /\ ctx.rule \in RuleNames /\ ctx.k \in 1..Len(Rule[ctx.rule]) - 1
    BY <1>4 DEF Begun
  <2>2. Len(Rule[ctx.rule]) \in Nat
    BY <2>1, RuleShape
  <2> DEFINE n == Len(Rule[ctx.rule])
             k == ctx.k
  <2>3. n \in Nat /\ k \in 1..n - 1
    BY <2>1, <2>2
  <2> HIDE DEF n, k
  <2>4. k \in 1..n /\ k + 1 \in 1..n /\ k \in Nat
    BY <2>3
  <2> QED
    BY <2>1, <2>4 DEF Due, n, k
<1>5. ASSUME Head(spliced) \in {"_STRING", "_NEWLINE"}, ctx.rule = NoRule
      PROVE  AtTop' /\ yyin' = "open"
  <2> DEFINE token == Head(spliced)
  <2>1. token \in Harmless /\ AtTop
    BY <1>1, <1>5 DEF AtTop
  <2>2. Parse(token, "server")
    OBVIOUS
  <2> HIDE DEF token
  <2> QED
    BY <2>1, <2>2, ParseNothing
<1>6. ASSUME Head(spliced) \in {"_STRING", "_NEWLINE"}, ctx.rule # NoRule
      PROVE  \/ AtTop'
             \/ /\ Head(spliced) = Due(ctx) /\ ctx.k + 1 = Len(Rule[ctx.rule])
                /\ ctx' = After(ctx.rule)
             \/ /\ ctx'.level = "top" /\ ctx'.rule = ctx.rule
                /\ \/ Head(spliced) = Due(ctx) /\ ctx'.k = ctx.k + 1
                   \/ Repeats(ctx, Head(spliced)) /\ ctx'.k = ctx.k
  <2> DEFINE token == Head(spliced)
  <2>1. token \in Harmless
    BY <1>1, <1>6
  <2>2. Parse(token, "server")
    OBVIOUS
  <2> HIDE DEF token
  <2>3. \/ AtTop'
        \/ /\ token = Due(ctx) /\ ctx.k + 1 = Len(Rule[ctx.rule])
           /\ ctx' = After(ctx.rule)
        \/ /\ ctx'.level = "top" /\ ctx'.rule = ctx.rule
           /\ \/ token = Due(ctx) /\ ctx'.k = ctx.k + 1
              \/ Repeats(ctx, token) /\ ctx'.k = ctx.k
    BY <1>1, <1>6, <2>1, <2>2, ParseHarmless
  <2> QED
    BY <2>3 DEF token
<1>7. /\ Len(Rule["INTERFACE"]) = 8 /\ Len(Rule["STATENAME"]) = 4 /\ Len(Rule["MESSAGE"]) = 4
      /\ Rule["INTERFACE"][4] = "_NEWLINE" /\ Rule["INTERFACE"][5] = "_IP"
  BY ShortRules
<1>8. CASE spliced = Lines(2, "_STRING")
  <2>1. Head(spliced) = "_STRING" /\ Tail(spliced) = <<"_NEWLINE", "_STRING", "_NEWLINE">>
    <3>1. spliced = <<"_STRING", "_NEWLINE", "_STRING", "_NEWLINE">>
      BY <1>8, ShortRules
    <3> QED
      BY <3>1, ShortTails
  <2>2. Tail(spliced) # <<>>
    BY <2>1
  <2>3. CASE ctx.rule = NoRule
    BY <1>5, <2>1, <2>2, <2>3 DEF AtTop, ServerPart
  <2>4. CASE ctx.rule # NoRule
    <3>1. CASE AtTop'
      BY <2>1, <2>2, <3>1 DEF AtTop, ServerPart
    <3>2. CASE Head(spliced) = Due(ctx) /\ ctx.k + 1 = Len(Rule[ctx.rule])
      <4>1. ctx.rule \in Texts /\ ctx.k + 1 = 3
        BY <1>4, <2>1, <2>4, <3>2, StringPlaces
      <4>2. Len(Rule[ctx.rule]) \in {4, 8}
        BY <1>7, <4>1 DEF Texts
      <4>3. Len(Rule[ctx.rule]) = 3
        BY <3>2, <4>1
      <4> QED
        BY <4>2, <4>3
    <3>3. CASE ctx'.level = "top" /\ ctx'.rule = ctx.rule /\ Head(spliced) = Due(ctx) /\ ctx'.k = ctx.k + 1
      <4>1. ctx.rule \in Texts /\ ctx.k + 1 = 3
        BY <1>4, <2>1, <2>4, <3>3, StringPlaces
      <4>2. ctx'.rule \in Texts /\ ctx'.k = 3
        BY <3>3, <4>1
      <4> QED
        BY <2>1, <2>2, <3>3, <4>2 DEF ServerPart
    <3>4. CASE ctx'.level = "top" /\ ctx'.rule = ctx.rule /\ Repeats(ctx, Head(spliced)) /\ ctx'.k = ctx.k
      <4>1. Rule[ctx.rule][ctx.k] = "_STRING"
        BY <3>4 DEF Repeats
      <4>2. ctx.rule \in Texts /\ ctx.k = 3
        BY <1>4, <2>4, <4>1, StringPlaces
      <4> QED
        BY <2>1, <2>2, <3>4, <4>2 DEF ServerPart
    <3> QED
      BY <1>6, <2>1, <2>4, <3>1, <3>2, <3>3, <3>4
  <2> QED
    BY <2>3, <2>4
<1>9. CASE /\ spliced = <<"_NEWLINE", "_STRING", "_NEWLINE">>
           /\ ctx.rule = NoRule \/ (ctx.rule \in Texts /\ ctx.k = 3)
  <2>1. Head(spliced) = "_NEWLINE" /\ Tail(spliced) = <<"_STRING", "_NEWLINE">>
    BY <1>9, ShortTails
  <2>2. Tail(spliced) # <<>>
    BY <2>1
  <2>3. CASE ctx.rule = NoRule
    BY <1>5, <2>1, <2>2, <2>3 DEF AtTop, ServerPart
  <2>4. CASE ctx.rule # NoRule
    <3>0. ctx.rule \in Texts /\ ctx.k = 3
      BY <1>9, <2>4
    <3>1. CASE AtTop'
      BY <2>1, <2>2, <3>1 DEF AtTop, ServerPart
    <3>2. CASE Head(spliced) = Due(ctx) /\ ctx.k + 1 = Len(Rule[ctx.rule]) /\ ctx' = After(ctx.rule)
      <4>1. ctx.rule \in RuleNames /\ ctx.rule \notin {"QUEUE", "PACKET", "NPACKET"}
        BY <3>0 DEF Texts, RuleNames
      <4>2. ctx' = At("top")
        BY <3>2, <4>1, AfterFields
      <4>3. AtTop'
        BY <4>2, AtFields DEF AtTop, Level
      <4> QED
        BY <3>1, <4>3
    <3>3. CASE /\ ctx'.level = "top" /\ ctx'.rule = ctx.rule /\ Head(spliced) = Due(ctx) /\ ctx'.k = ctx.k + 1
               /\ ctx.k + 1 # Len(Rule[ctx.rule])
      <4>1. ctx.rule = "INTERFACE"
        BY <1>7, <3>0, <3>3 DEF Texts
      <4>2. ctx'.rule = "INTERFACE" /\ ctx'.k = 4
        BY <3>0, <3>3, <4>1
      <4> QED
        BY <2>1, <2>2, <3>3, <4>2 DEF ServerPart
    <3>4. CASE Repeats(ctx, Head(spliced))
      BY <2>1, <3>4 DEF Repeats
    <3>5. CASE /\ ctx'.level = "top" /\ ctx'.rule = ctx.rule /\ Head(spliced) = Due(ctx)
               /\ ctx.k + 1 = Len(Rule[ctx.rule])
      <4>1. Parse(Due(ctx), "server")
        BY <3>5
      <4>2. ctx' = After(ctx.rule)
        BY <1>1, <2>4, <3>5, <4>1, ParseDue
      <4> QED
        BY <3>2, <3>5, <4>2
    <3> QED
      BY <1>6, <2>1, <2>4, <3>1, <3>2, <3>3, <3>4, <3>5
  <2> QED
    BY <2>3, <2>4
<1>10. CASE /\ spliced = <<"_STRING", "_NEWLINE">>
            /\ ctx.rule = NoRule \/ (ctx.rule = "INTERFACE" /\ ctx.k = 4)
  <2>1. Head(spliced) = "_STRING" /\ Tail(spliced) = <<"_NEWLINE">>
    BY <1>10, ShortTails
  <2>2. Tail(spliced) # <<>>
    BY <2>1
  <2>3. CASE ctx.rule = NoRule
    BY <1>5, <2>1, <2>2, <2>3 DEF AtTop, ServerPart
  <2>4. CASE ctx.rule # NoRule
    <3>1. ctx.rule = "INTERFACE" /\ ctx.k = 4
      BY <1>10, <2>4
    <3>2. Due(ctx) = "_IP"
      BY <1>4, <1>7, <2>4, <3>1
    <3>3. ~ Repeats(ctx, Head(spliced))
      BY <1>7, <3>1 DEF Repeats
    <3>4. AtTop'
      BY <1>6, <2>1, <2>4, <3>2, <3>3
    <3> QED
      BY <2>1, <2>2, <3>4 DEF AtTop, ServerPart
  <2> QED
    BY <2>3, <2>4
<1>11. CASE spliced = <<"_NEWLINE">> /\ ctx.rule = NoRule
  <2>1. Head(spliced) = "_NEWLINE" /\ Tail(spliced) = <<>>
    BY <1>11, ShortTails
  <2> QED
    BY <1>5, <1>11, <2>1 DEF AtTop
<1> QED
  BY <1>2, <1>3, <1>8, <1>9, <1>10, <1>11 DEF ServerPart

-------------------------------------------------------------------------------
TopKinds == {"LOAD", "INTERFACE", "STATENAME", "MESSAGE"}

(* The messages of diald.                                                  *)
LEMMA KindNames ==
    /\ Kind = (RuleNames \ {"TIME"}) \cup {"ZPACKET"}
    /\ Kind \ OfQueue = TopKinds /\ TopKinds \subseteq RuleNames \ {"TIME"}
    /\ \A m \in RuleNames \ {"TIME"} : Tokens(m) = Rule[m]
    /\ \A m \in TopKinds : "top" \in StartLevels(m)
    /\ \A m \in Kind \ {"ZPACKET"} : m \in RuleNames \ {"TIME"} /\ Tokens(m) = Rule[m]
<1>1. Kind = (RuleNames \ {"TIME"}) \cup {"ZPACKET"}
  BY RuleDomain DEF Kind
<1>2. Kind \ OfQueue = TopKinds /\ TopKinds \subseteq RuleNames \ {"TIME"}
  BY <1>1 DEF OfQueue, InQueue, TopKinds, RuleNames
<1>3. \A m \in RuleNames \ {"TIME"} : Tokens(m) = Rule[m]
  BY DEF Tokens, RuleNames
<1>4. \A m \in TopKinds : "top" \in StartLevels(m)
  BY DEF TopKinds, StartLevels
<1> QED
  BY <1>1, <1>2, <1>3, <1>4

(* The end of a message that is not of a queue is harmless.                *)
LEMMA PlainRules ==
    ASSUME NEW m \in TopKinds, NEW j \in 2..Len(Rule[m])
    PROVE  Rule[m][j] \in Harmless \ {"_WOULDBLOCK"}
<1>1. CASE m = "LOAD"
  BY <1>1, ShortRules DEF Harmless
<1>2. CASE m = "INTERFACE"
  BY <1>2, ShortRules DEF Harmless
<1>3. CASE m = "STATENAME"
  BY <1>3, ShortRules DEF Harmless
<1>4. CASE m = "MESSAGE"
  BY <1>4, ShortRules DEF Harmless
<1> QED
  BY <1>1, <1>2, <1>3, <1>4 DEF TopKinds

(* The rest of one of these after its first token.                         *)
LEMMA PlainTails ==
    ASSUME NEW m \in TopKinds, NEW k \in 1..Len(Rule[m]) - 1
    PROVE  Harm(SubSeq(Rule[m], k + 1, Len(Rule[m])))
<1> DEFINE n == Len(Rule[m])
           s == Rule[m]
           x == k + 1
<1>1. n \in Nat /\ k \in 1..n - 1
  BY KindNames, RuleShape
<1>2. \A j \in 2..n : s[j] \in Harmless
  BY PlainRules
<1> HIDE DEF n, s
<1>3. x \in Int /\ n \in Int /\ \A j \in x..n : j \in 2..n
  BY <1>1
<1> HIDE DEF x
<1>4. \A j \in x..n : s[j] \in Harmless
  BY <1>2, <1>3
<1>5. SubSeq(s, x, n) \in Seq(Harmless)
  BY <1>3, <1>4, SubSeqProperties
<1> QED
  BY <1>5 DEF Harm, n, s, x

(* What is left of one of these, once begun.                               *)
LEMMA FollowingHarm ==
    ASSUME ctx \in Stack, Begun(ctx), NEW m \in TopKinds, NEW s, Following(m, s)
    PROVE  Harm(s)
<1>1. ctx.rule # NoRule /\ ctx.rule = m /\ m \in RuleNames
  BY FollowingHead, KindNames
<1>2. ctx.k \in 1..Len(Rule[m]) - 1
  BY <1>1 DEF Begun
<1> DEFINE k == ctx.k
<1>3. k \in 1..Len(Rule[m]) - 1 /\ s = SubSeq(Rule[m], k + 1, Len(Rule[m]))
  BY <1>2 DEF Following
<1> HIDE DEF k
<1> QED
  BY <1>3, PlainTails

(* No rule of these waits for a time, the only token a pause can stand for.*)
LEMMA PlainDue ==
    ASSUME ctx \in Stack, Begun(ctx), ctx.rule \in TopKinds
    PROVE  /\ ctx.rule # NoRule
           /\ Due(ctx) # "_TIME"
<1>1. ctx.rule # NoRule /\ ctx.rule \in RuleNames
  BY KindNames, StartableRules
<1> DEFINE n == Len(Rule[ctx.rule])
           k == ctx.k
<1>2. n \in Nat /\ k \in 1..n - 1
  BY <1>1, RuleShape DEF Begun
<1> HIDE DEF n, k
<1>3. k + 1 \in 2..n
  BY <1>2
<1>4. Rule[ctx.rule][k + 1] \in Harmless
  BY <1>3, PlainRules DEF n
<1> QED
  BY <1>1, <1>4 DEF Due, k, Harmless

(* Inside a message of the server's some of it is still to come.           *)
LEMMA ServerPartSome ==
    ASSUME ctx \in Stack, Begun(ctx), ServerPart
    PROVE  spliced # <<>>
<1>1. Rule["MESSAGE"] # <<>> /\ Lines(2, "_STRING") # <<>>
  BY ShortRules
<1>2. ~ Following("MESSAGE", <<>>)
  BY FollowingHead DEF RuleNames
<1> QED
  BY <1>1, <1>2 DEF ServerPart

(* A token of a message that is not of a queue.                            *)
LEMMA TopDiald ==
    ASSUME ctx \in Stack, Begun(ctx), cur \in TopKinds, TopSync, spliced = <<>>, rest # <<>>,
           Parse(Head(rest), "diald"), rest' = Tail(rest), spliced' = <<>>, cur' = cur
    PROVE  TopSync' /\ (Tail(rest) = <<>> => yyin' = "open")
<1>0. cur \in RuleNames \ {"TIME"} /\ Tokens(cur) = Rule[cur] /\ "diald" \in Owners
      /\ "top" \in StartLevels(cur) /\ cur \in RuleNames
  BY KindNames DEF Owners
<1>1. CASE ctx.rule = NoRule /\ rest = Tokens(cur)
  <2>1. ctx.level \in StartLevels(cur) /\ ctx.level = "top"
    BY <1>0 DEF TopSync
  <2>2. Parse(Head(Rule[cur]), "diald") /\ rest' = Tail(Rule[cur])
    BY <1>0, <1>1
  <2>3. /\ ctx' = [level |-> ctx.level, rule |-> cur, k |-> 1, from |-> {"diald"}]
        /\ Tail(Rule[cur]) = SubSeq(Rule[cur], ctx'.k + 1, Len(Rule[cur]))
        /\ Tail(Rule[cur]) # <<>>
    BY <1>0, <1>1, <2>1, <2>2, OwnStep
  <2>4. ctx'.level = "top" /\ ctx'.rule = cur
    BY <2>1, <2>3
  <2>5. Following(cur, rest)'
    BY <2>2, <2>3, <2>4 DEF Following
  <2>6. Tail(rest) # <<>>
    BY <2>2, <2>3
  <2> QED
    BY <2>4, <2>5, <2>6 DEF TopSync
<1>2. CASE ctx.rule = NoRule /\ Harm(rest)
  <2>1. Head(rest) \in Harmless /\ Harm(Tail(rest))
    BY <1>2, HarmTail
  <2>2. AtTop
    BY <1>2 DEF AtTop, TopSync
  <2>3. yyin' = "open" /\ AtTop'
    BY <2>1, <2>2, ParseNothing
  <2>4. Harm(rest)'
    BY <2>1 DEF Harm
  <2> QED
    BY <2>3, <2>4 DEF TopSync, AtTop, Unread
<1>3. CASE Following(cur, rest)
  <2>1. /\ yyin' = "open"
        /\ IF Tail(rest) = <<>>
           THEN ctx' = After(cur)
           ELSE /\ ctx'.level = (IF cur = "STATUS" THEN "top" ELSE ctx.level)
                /\ ctx'.rule = cur
                /\ Tail(rest) = SubSeq(Rule[cur], ctx'.k + 1, Len(Rule[cur]))
    BY <1>0, <1>3, FollowingStep
  <2>2. CASE Tail(rest) = <<>>
    <3>1. ctx' = At("top")
      BY <1>0, <2>1, <2>2, AfterFields DEF TopKinds
    <3>2. ctx'.level = "top" /\ ctx'.rule = NoRule
      BY <3>1, AtFields DEF Level
    <3>3. Harm(rest)'
      BY <2>2, HarmEmpty DEF Harm
    <3> QED
      BY <2>1, <3>2, <3>3 DEF TopSync, Unread
  <2>3. CASE Tail(rest) # <<>>
    <3>1. ctx'.level = "top" /\ Following(cur, rest)'
      BY <2>1, <2>3 DEF Following, TopSync
    <3> QED
      BY <2>1, <3>1 DEF TopSync
  <2> QED
    BY <2>2, <2>3
<1>4. CASE ctx.rule = cur /\ Harm(rest) /\ Paused(rest)
  <2>1. /\ Head(rest) \in Harmless /\ Harm(Tail(rest))
        /\ Head(rest) # "_WOULDBLOCK" => Paused(Tail(rest))
    BY <1>4, HarmTail
  <2>2. ctx.rule # NoRule /\ Due(ctx) # "_TIME" /\ ctx.level = "top"
    BY <1>4, PlainDue DEF TopSync
  <2>3. \/ AtTop'
        \/ /\ Head(rest) = Due(ctx) /\ ctx.k + 1 = Len(Rule[ctx.rule])
           /\ ctx' = After(ctx.rule)
        \/ /\ ctx'.level = "top" /\ ctx'.rule = ctx.rule /\ Head(rest) # "_WOULDBLOCK"
    <3> DEFINE token == Head(rest)
    <3>1. token \in Harmless /\ Parse(token, "diald")
      BY <2>1
    <3> HIDE DEF token
    <3>2. \/ AtTop'
          \/ /\ token = Due(ctx) /\ ctx.k + 1 = Len(Rule[ctx.rule])
             /\ ctx' = After(ctx.rule)
          \/ /\ ctx'.level = "top" /\ ctx'.rule = ctx.rule /\ token # "_WOULDBLOCK"
      BY <1>0, <2>2, <3>1, ParseHarmless
    <3> QED
      BY <3>2 DEF token
  <2>4. Harm(rest)'
    BY <2>1 DEF Harm
  <2>5. ASSUME AtTop'
        PROVE  TopSync'
    <3>1. ctx'.level = "top" /\ ctx'.rule = NoRule
      BY <2>5 DEF AtTop
    <3>2. Unread'
      BY <2>4 DEF Unread
    <3> QED
      BY <3>1, <3>2 DEF TopSync
  <2>6. ASSUME ctx' = After(ctx.rule)
        PROVE  TopSync'
    <3>1. ctx' = At("top")
      BY <1>0, <1>4, <2>6, AfterFields DEF TopKinds
    <3>2. AtTop'
      BY <3>1, AtFields DEF Level, AtTop
    <3> QED
      BY <2>5, <3>2
  <2>7. ASSUME ctx'.level = "top" /\ ctx'.rule = ctx.rule /\ Head(rest) # "_WOULDBLOCK"
        PROVE  TopSync'
    <3>1. Paused(rest)'
      BY <2>1, <2>7 DEF Paused
    <3>2. ctx'.level = "top" /\ (ctx.rule = cur)' /\ spliced' = <<>>
      BY <1>4, <2>7
    <3> QED
      BY <2>4, <3>1, <3>2 DEF TopSync
  <2>8. TopSync'
    BY <2>3, <2>5, <2>6, <2>7
  <2>9. ASSUME Tail(rest) = <<>> PROVE yyin' = "open"
    <3>1. Head(rest) = "_WOULDBLOCK"
      BY <2>1, <2>9, HarmEmpty
    <3>2. CASE Acceptable(ctx, Head(rest))
      BY <3>2, ParseAccepted
    <3>3. CASE ~ Acceptable(ctx, Head(rest))
      BY <3>1, <3>3, ParseRefused
    <3> QED
      BY <3>2, <3>3
  <2> QED
    BY <2>8, <2>9
<1> QED
  <2>1. ~ ServerPart
    BY ServerPartSome
  <2> QED
    BY <1>1, <1>2, <1>3, <1>4, <2>1 DEF TopSync, Unread

-------------------------------------------------------------------------------
(* A token of a message that has come in whole so far.                     *)
LEMMA WholeDiald ==
    ASSUME ctx \in Stack, Begun(ctx), cur \in Kind \ {"ZPACKET"}, Whole, rest # <<>>,
           queueing = Queueing(cur), seen = "coming",
           Parse(Head(rest), "diald"), rest' = Tail(rest), spliced' = <<>>, cur' = cur,
           queueing' = queueing
    PROVE  /\ Whole' /\ yyin' = "open"
           /\ seen' = IF Tail(rest) = <<>> THEN Outcome(cur) ELSE "coming"
<1>0. cur \in RuleNames \ {"TIME"} /\ cur \in RuleNames /\ Tokens(cur) = Rule[cur] /\ "diald" \in Owners
      /\ {"diald"} # {"server"}
  BY KindNames DEF Owners
<1>1. CASE rest = Tokens(cur) /\ ctx.rule = NoRule /\ ctx.level \in StartLevels(cur)
  <2>1. Parse(Head(Rule[cur]), "diald") /\ rest' = Tail(Rule[cur])
    BY <1>0, <1>1
  <2>2. /\ yyin' = "open" /\ seen' = seen
        /\ ctx' = [level |-> ctx.level, rule |-> cur, k |-> 1, from |-> {"diald"}]
        /\ Tail(Rule[cur]) = SubSeq(Rule[cur], ctx'.k + 1, Len(Rule[cur])) /\ Tail(Rule[cur]) # <<>>
    BY <1>0, <1>1, <2>1, OwnStep
  <2>3. ctx'.rule = cur /\ ctx'.from = {"diald"}
    BY <2>2
  <2>4. rest' # <<>> /\ Following(cur, rest)'
    BY <2>1, <2>2, <2>3 DEF Following
  <2>5. Whole'
    BY <2>3, <2>4 DEF Whole
  <2>6. Tail(rest) # <<>>
    BY <2>1, <2>4
  <2> QED
    BY <2>2, <2>5, <2>6
<1>2. CASE Following(cur, rest) /\ ctx.from = {"diald"}
  <2>1. /\ yyin' = "open"
        /\ IF Tail(rest) = <<>>
           THEN ctx' = After(cur) /\ seen' = Called(ctx, "diald")
           ELSE /\ ctx'.level = (IF cur = "STATUS" THEN "top" ELSE ctx.level)
                /\ ctx'.rule = cur /\ ctx'.k = ctx.k + 1 /\ ctx'.from = ctx.from \cup {"diald"}
                /\ Tail(rest) = SubSeq(Rule[cur], ctx'.k + 1, Len(Rule[cur]))
                /\ seen' = seen
    BY <1>0, <1>2, FollowingStep
  <2>2. CASE Tail(rest) # <<>>
    <3>1. rest' # <<>> /\ Following(cur, rest)' /\ ctx'.from = {"diald"}
      BY <1>2, <2>1, <2>2 DEF Following
    <3>2. Whole'
      BY <3>1 DEF Whole
    <3> QED
      BY <2>1, <2>2, <3>2
  <2>3. CASE Tail(rest) = <<>>
    <3>1. ctx' = After(cur) /\ seen' = Called(ctx, "diald")
      BY <2>1, <2>3
    <3>2. ctx.rule = cur /\ ctx.from \cup {"diald"} = {"diald"}
      BY <1>2 DEF Following
    <3>3. seen' = Outcome(cur)
      BY <1>0, <3>1, <3>2 DEF Called
    <3>4. CASE cur = "QUEUE"
      <4>1. queueing = "begun" /\ ctx' = At("queue")
        <5>1. queueing = "begun"
          BY <3>4 DEF Queueing, InQueue
        <5>2. After(cur) = At("queue")
          BY <1>0, <3>4, AfterFields
        <5> QED
          BY <3>1, <5>1, <5>2
      <4>2. ctx'.rule = NoRule /\ ctx'.level = "queue"
        BY <4>1, AtFields DEF Level
      <4>3. Whole'
        BY <2>3, <4>1, <4>2 DEF Whole, Lev
      <4> QED
        BY <2>1, <2>3, <3>3, <4>3
    <3>5. CASE cur \in {"PACKET", "NPACKET"}
      <4>1. queueing = "yes" /\ ctx' = At("packets")
        BY <1>0, <3>1, <3>5, AfterFields DEF Queueing, InQueue
      <4>2. ctx'.rule = NoRule /\ ctx'.level = "packets"
        BY <4>1, AtFields DEF Level
      <4>3. Whole'
        BY <2>3, <4>1, <4>2 DEF Whole, Lev
      <4> QED
        BY <2>1, <2>3, <3>3, <4>3
    <3>6. CASE cur \notin {"QUEUE", "PACKET", "NPACKET"}
      <4>1. queueing = "no" /\ ctx' = At("top")
        BY <1>0, <3>1, <3>6, AfterFields DEF Queueing, InQueue
      <4>2. AtTop'
        BY <4>1, AtFields DEF Level, AtTop
      <4>3. Harm(spliced)'
        BY HarmEmpty DEF Harm
      <4>4. Whole'
        BY <2>3, <4>1, <4>2, <4>3 DEF Whole, Quiet
      <4> QED
        BY <2>1, <2>3, <3>3, <4>4
    <3> QED
      BY <3>4, <3>5, <3>6
  <2> QED
    BY <2>2, <2>3
<1> QED
  BY <1>1, <1>2 DEF Whole

(* A token of an END QUEUE that has come in whole, wherever the parser is. *)
LEMMA EndFirst ==
    ASSUME ctx \in Stack, Begun(ctx), Parse("_ENDQUEUE", "diald")
    PROVE  ctx'.rule = "END" \/ AtTop'
<1> DEFINE token == "_ENDQUEUE"
           owner == "diald"
<1>1. /\ token \in Keywords /\ token \in Token /\ token # "_WOULDBLOCK" /\ owner \in Owners
      /\ ctx.level \in Level
      /\ \A level \in Level : Started(level, token) = IF level = "top" THEN {} ELSE {"END"}
      /\ Parse(token, owner)
  BY TokenValues, StartsNothing DEF Keywords, Owners, Stack
<1> HIDE DEF token, owner
<1>2. ASSUME NEW c \in Stack, c.rule = NoRule
      PROVE  \/ Shift(c, token, owner).rule = "END"
             \/ Shift(c, token, owner).rule = NoRule /\ Shift(c, token, owner).level = "top"
  <2>1. c.level \in Level /\ ~ GivesUp(c, token)
    BY <1>1 DEF Stack, GivesUp
  <2>2. CASE c.level = "top"
    <3>1. Started(c.level, token) = {}
      BY <1>1, <2>1, <2>2
    <3>2. Shift(c, token, owner) = c
      BY <1>2, <2>1, <2>2, <3>1, ShiftNothing
    <3> QED
      BY <1>2, <2>2, <3>2
  <2>3. CASE c.level # "top"
    <3>1. Started(c.level, token) = {"END"}
      BY <1>1, <2>1, <2>3
    <3>2. \E r \in Started(c.level, token) :
             Shift(c, token, owner) = [level |-> c.level, rule |-> r, k |-> 1, from |-> {owner}]
      BY <1>1, <1>2, <3>1, ShiftFirst
    <3>3. Shift(c, token, owner) = [level |-> c.level, rule |-> "END", k |-> 1, from |-> {owner}]
      BY <3>1, <3>2
    <3> QED
      BY <3>3
  <2> QED
    BY <2>2, <2>3
<1>3. CASE ctx.rule = NoRule
  <2>1. Acceptable(ctx, token) \/ ~ Acceptable(ctx, token)
    OBVIOUS
  <2>2. CASE Acceptable(ctx, token)
    <3>1. ctx' = Shift(ctx, token, owner)
      BY <1>1, <2>2, ParseAccepted
    <3> QED
      BY <1>2, <1>3, <3>1 DEF AtTop
  <2>3. CASE ~ Acceptable(ctx, token)
    BY <1>1, <1>3, <2>3 DEF Acceptable
  <2> QED
    BY <2>2, <2>3
<1>4. CASE ctx.rule # NoRule
  <2> DEFINE c == Recovered(ctx)
  <2>1. ctx' = Shift(c, token, owner)
    BY <1>1, <1>4, ParseKeyword
  <2>2. /\ c \in Stack
        /\ c = At(IF ctx.level = "top" THEN "top" ELSE "skip")
    BY RecoveredFields
  <2>3. c.rule = NoRule
    BY <2>2, AtFields DEF Level
  <2> HIDE DEF c
  <2> QED
    BY <1>2, <2>1, <2>2, <2>3 DEF AtTop
<1> QED
  BY <1>3, <1>4

(* The two tokens of END QUEUE.                                            *)
LEMMA EndDiald ==
    ASSUME ctx \in Stack, Begun(ctx), EndWhole, rest # <<>>,
           Parse(Head(rest), "diald"), rest' = Tail(rest), spliced' = <<>>
    PROVE  EndWhole' /\ (Tail(rest) = <<>> => yyin' = "open")
<1>1. CASE rest = Rule["END"]
  <2>1. rest = <<"_ENDQUEUE", "_NEWLINE">>
    BY <1>1, ShortRules
  <2>2. Head(rest) = "_ENDQUEUE" /\ Tail(rest) = <<"_NEWLINE">> /\ Tail(rest) # <<>>
    BY <2>1, ShortTails
  <2>3. ctx'.rule = "END" \/ AtTop'
    BY <2>2, EndFirst
  <2> QED
    BY <2>2, <2>3 DEF EndWhole
<1>2. CASE rest = <<"_NEWLINE">> /\ (ctx.rule = "END" \/ AtTop)
  <2>1. Head(rest) = "_NEWLINE" /\ Tail(rest) = <<>> /\ Parse("_NEWLINE", "diald")
    BY <1>2, ShortTails
  <2>2. AtTop' /\ yyin' = "open"
    <3>1. CASE ctx.rule = "END"
      <4>1. ctx.rule # NoRule /\ "END" \in RuleNames /\ "diald" \in Owners
        BY <3>1, StartableRules DEF RuleNames, Owners
      <4>2. Rule["END"] = <<"_ENDQUEUE", "_NEWLINE">> /\ Len(Rule["END"]) = 2 /\ Rule["END"][2] = "_NEWLINE"
        BY ShortRules
      <4>3. ctx.k \in 1..Len(Rule["END"]) - 1
        BY <3>1, <4>1 DEF Begun
      <4>4. ctx.k \in 1..2 - 1
        BY <4>2, <4>3
      <4>5. ctx.k = 1
        BY <4>4
      <4>6. Due(ctx) = "_NEWLINE" /\ ctx.k + 1 = Len(Rule[ctx.rule])
        BY <3>1, <4>2, <4>5 DEF Due
      <4>7. yyin' = "open" /\ ctx' = After(ctx.rule)
        BY <2>1, <4>1, <4>6, ParseDue
      <4>8. ctx' = At("top")
        BY <3>1, <4>1, <4>7, AfterFields
      <4> QED
        BY <4>7, <4>8, AtFields DEF AtTop, Level
    <3>2. CASE AtTop
      BY <2>1, <3>2, ParseNothing DEF Harmless
    <3> QED
      BY <1>2, <3>1, <3>2
  <2>3. Harm(spliced)'
    BY HarmEmpty DEF Harm
  <2>4. Quiet'
    BY <2>2, <2>3 DEF Quiet
  <2> QED
    BY <2>1, <2>2, <2>4 DEF EndWhole
<1> QED
  BY <1>1, <1>2 DEF EndWhole

-------------------------------------------------------------------------------
(* The types of the variables, with what the parser can have begun.        *)
MTypes ==
    /\ cur \in Kinds /\ rest \in Seq(Token) /\ spliced \in Seq(Token)
    /\ queueing \in {"no", "begun", "yes"} /\ bol \in BOOLEAN /\ returned \in BOOLEAN
    /\ ctx \in Stack /\ Begun(ctx)
    /\ yyerrstatus \in 0..3 /\ yyin \in {"open", "quit"}
    /\ quit_if_parse_error \in BOOLEAN /\ hit \in BOOLEAN /\ spoilt \in BOOLEAN
    /\ seen \in {"coming", "done", "garbled"} /\ faults \in 0..MaxFaults

(* MTypes is the type invariant, and says a little more of the stack.      *)
LEMMA TypesImply == MTypes => MonitorTypeOK
<1> SUFFICES ASSUME MTypes PROVE MonitorTypeOK
  OBVIOUS
<1>1. /\ cur \in Kinds /\ rest \in Seq(Token) /\ spliced \in Seq(Token)
      /\ queueing \in {"no", "begun", "yes"} /\ bol \in BOOLEAN /\ returned \in BOOLEAN
      /\ yyerrstatus \in 0..3 /\ yyin \in {"open", "quit"}
      /\ quit_if_parse_error \in BOOLEAN /\ hit \in BOOLEAN /\ spoilt \in BOOLEAN
      /\ seen \in {"coming", "done", "garbled"} /\ faults \in 0..MaxFaults
  BY DEF MTypes
<1>2. ctx \in [level : Level, rule : DOMAIN Rule \cup {NoRule}, k : Nat,
               from : SUBSET {"diald", "server", "old"}]
  BY RuleDomain DEF MTypes, Stack, Owners
<1>3. IF ctx.rule = NoRule THEN ctx.k = 0 ELSE ctx.k \in 1..Len(Rule[ctx.rule]) - 1
  BY DEF MTypes, Begun
<1> QED
  BY <1>1, <1>2, <1>3 DEF MonitorTypeOK

(* Sequences of no, one and two elements.                                  *)
LEMMA ShortSeqs ==
    ASSUME NEW S
    PROVE  /\ <<>> \in Seq(S)
           /\ \A t \in S : <<t>> \in Seq(S)
           /\ \A t, u \in S : <<t, u>> \in Seq(S)
  OBVIOUS

(* The two halves of a token are tokens, and harmless ones but for those   *)
(* of END QUEUE.                                                           *)
LEMMA HalvesTokens ==
    ASSUME NEW token \in Token, NEW h \in Halves(token)
    PROVE  /\ h[1] \in Seq(Token) /\ h[2] \in Seq(Token)
           /\ token # "_ENDQUEUE" => h[1] \in Seq(Harmless) /\ h[2] \in Seq(Harmless)
<1>1. Harmless \subseteq Token /\ "_QUEUE" \in Token
  BY TokenValues DEF Harmless, Values, Keywords
<1>2. ASSUME h[1] \in Seq(Harmless), h[2] \in Seq(Harmless)
      PROVE  h[1] \in Seq(Token) /\ h[2] \in Seq(Token)
  <2> DEFINE a == h[1]
             b == h[2]
  <2>1. a \in Seq(Harmless) /\ b \in Seq(Harmless)
    BY <1>2
  <2> HIDE DEF a, b
  <2>2. a \in Seq(Token) /\ b \in Seq(Token)
    BY <1>1, <2>1, SeqMonotonic
  <2> QED
    BY <2>2 DEF a, b
<1>3. CASE token = "_NEWLINE"
  BY <1>3 DEF Halves
<1>4. CASE token = "_STRING"
  <2>1. h \in {<<<<>>, <<"_STRING">>>>, <<<<"_STRING">>, <<"_STRING">>>>, <<<<"_STRING">>, <<"_NUM">>>>}
    BY <1>4 DEF Halves
  <2>0. "_STRING" \in Harmless /\ "_NUM" \in Harmless
    BY DEF Harmless
  <2>2. h[1] \in Seq(Harmless) /\ h[2] \in Seq(Harmless)
    <3>1. CASE h = <<<<>>, <<"_STRING">>>>
      BY <3>1, <2>0, ShortSeqs
    <3>2. CASE h = <<<<"_STRING">>, <<"_STRING">>>>
      BY <3>2, <2>0, ShortSeqs
    <3>3. CASE h = <<<<"_STRING">>, <<"_NUM">>>>
      BY <3>3, <2>0, ShortSeqs
    <3> QED
      BY <2>1, <3>1, <3>2, <3>3
  <2> QED
    BY <1>2, <2>2
<1>5. CASE token = "_NUM"
  <2>1. h = <<<<"_NUM">>, <<"_NUM">>>>
    BY <1>5 DEF Halves
  <2>2. h[1] \in Seq(Harmless) /\ h[2] \in Seq(Harmless)
    BY <2>1 DEF Harmless
  <2> QED
    BY <1>2, <2>2
<1>6. CASE token = "_PORT"
  <2>1. h \in {<<<<"_STRING">>, <<"_NUM">>>>, <<<<"_PORT">>, <<"_NUM">>>>}
    BY <1>6 DEF Halves
  <2>2. h[1] \in Seq(Harmless) /\ h[2] \in Seq(Harmless)
    BY <2>1 DEF Harmless
  <2> QED
    BY <1>2, <2>2
<1>7. CASE token = "_IP"
  <2>1. h \in {<<<<"_NUM">>, <<"_STRING">>>>, <<<<"_IP">>, <<"_NUM">>>>}
    BY <1>7 DEF Halves
  <2>2. h[1] \in Seq(Harmless) /\ h[2] \in Seq(Harmless)
    BY <2>1 DEF Harmless
  <2> QED
    BY <1>2, <2>2
<1>8. CASE token = "_TIME"
  <2>1. h \in {<<<<"_NUM">>, <<"_STRING">>>>, <<<<"_NUM", "_STRING">>, <<"_NUM">>>>}
    BY <1>8 DEF Halves
  <2>0. "_STRING" \in Harmless /\ "_NUM" \in Harmless
    BY DEF Harmless
  <2>2. h[1] \in Seq(Harmless) /\ h[2] \in Seq(Harmless)
    <3>1. CASE h = <<<<"_NUM">>, <<"_STRING">>>>
      BY <3>1, <2>0, ShortSeqs
    <3>2. CASE h = <<<<"_NUM", "_STRING">>, <<"_NUM">>>>
      BY <3>2, <2>0, ShortSeqs
    <3> QED
      BY <2>1, <3>1, <3>2
  <2> QED
    BY <1>2, <2>2
<1>9. CASE token = "_ENDQUEUE"
  <2>1. h \in {<<<<"_STRING">>, <<"_STRING">>>>, <<<<"_STRING">>, <<"_QUEUE">>>>}
    BY <1>9 DEF Halves
  <2>2. "_STRING" \in Token
    BY <1>1 DEF Harmless
  <2>3. h[1] \in Seq(Token) /\ h[2] \in Seq(Token)
    BY <1>1, <2>1, <2>2
  <2> QED
    BY <1>9, <2>3
<1>10. CASE token \notin {"_NEWLINE", "_STRING", "_NUM", "_PORT", "_IP", "_TIME", "_ENDQUEUE"}
  <2>1. h = <<<<"_STRING">>, <<"_STRING">>>>
    BY <1>10 DEF Halves
  <2>2. h[1] \in Seq(Harmless) /\ h[2] \in Seq(Harmless)
    BY <2>1 DEF Harmless
  <2> QED
    BY <1>2, <2>2
<1> QED
  BY <1>3, <1>4, <1>5, <1>6, <1>7, <1>8, <1>9, <1>10

(* A pause in the middle of a message.                                     *)
LEMMA PausedConcat ==
    ASSUME NEW S, NEW a \in Seq(S), NEW b \in Seq(S), Paused(a) \/ Paused(b)
    PROVE  a \o b \in Seq(S) /\ Paused(a \o b)
<1> DEFINE c == a \o b
<1>1. c \in Seq(S)
  BY ConcatProperties
<1>2. Len(c) = Len(a) + Len(b) /\ Len(a) \in Nat /\ Len(b) \in Nat
  BY ConcatProperties, LenProperties
<1>3. \A j \in 1..Len(a) + Len(b) : c[j] = IF j <= Len(a) THEN a[j] ELSE b[j - Len(a)]
  BY ConcatProperties
<1> HIDE DEF c
<1>4. CASE Paused(a)
  <2>1. PICK j \in 1..Len(a) : a[j] = "_WOULDBLOCK"
    BY <1>4 DEF Paused
  <2>2. j \in 1..Len(a) + Len(b) /\ j <= Len(a)
    BY <1>2, <2>1
  <2>3. c[j] = "_WOULDBLOCK" /\ j \in 1..Len(c)
    BY <1>2, <1>3, <2>1, <2>2
  <2> QED
    BY <1>1, <2>3 DEF Paused, c
<1>5. CASE Paused(b)
  <2>1. PICK i \in 1..Len(b) : b[i] = "_WOULDBLOCK"
    BY <1>5 DEF Paused
  <2> DEFINE j == i + Len(a)
  <2>2. j \in 1..Len(a) + Len(b) /\ ~ (j <= Len(a)) /\ j - Len(a) = i
    BY <1>2, <2>1
  <2> HIDE DEF j
  <2>3. c[j] = "_WOULDBLOCK" /\ j \in 1..Len(c)
    BY <1>2, <1>3, <2>1, <2>2
  <2> QED
    BY <1>1, <2>3 DEF Paused, c
<1> QED
  BY <1>4, <1>5

(* The message with a pause in it, cut or not.                             *)
LEMMA CutSeq ==
    ASSUME NEW S, "_WOULDBLOCK" \in S, NEW a \in Seq(S), NEW b \in Seq(S), NEW t \in Seq(S)
    PROVE  /\ a \o <<"_WOULDBLOCK">> \o b \o t \in Seq(S)
           /\ Paused(a \o <<"_WOULDBLOCK">> \o b \o t)
           /\ <<"_WOULDBLOCK">> \o t \in Seq(S) /\ Paused(<<"_WOULDBLOCK">> \o t)
<1> DEFINE w == <<"_WOULDBLOCK">>
           x == a \o w
           y == x \o b
<1>1. w \in Seq(S) /\ Paused(w)
  BY DEF Paused
<1> HIDE DEF w
<1>2. x \in Seq(S) /\ Paused(x)
  BY <1>1, PausedConcat
<1> HIDE DEF x
<1>3. y \in Seq(S) /\ Paused(y)
  BY <1>2, PausedConcat
<1> HIDE DEF y
<1>4. y \o t \in Seq(S) /\ Paused(y \o t)
  BY <1>3, PausedConcat
<1>5. w \o t \in Seq(S) /\ Paused(w \o t)
  BY <1>1, PausedConcat
<1> QED
  BY <1>4, <1>5 DEF w, x, y

(* A message of the server's is one of these two.                          *)
LEMMA ServerTokensType == ServerTokens \in {Rule["MESSAGE"], Lines(2, "_STRING")} /\ ServerTokens \in Seq(Token)
<1>1. Rule["MESSAGE"] \in Seq(Token)
  BY RuleHead DEF RuleNames
<1>2. Lines(2, "_STRING") \in Seq(Token)
  <2>1. "_STRING" \in Token /\ "_NEWLINE" \in Token
    BY TokenValues DEF Values
  <2>2. <<"_STRING", "_NEWLINE", "_STRING", "_NEWLINE">> \in Seq(Token)
    BY <2>1
  <2> QED
    BY <2>2, ShortRules
<1> QED
  BY <1>1, <1>2 DEF ServerTokens

(* A message of diald is some tokens.                                      *)
LEMMA TokensType ==
    ASSUME NEW m \in Kind
    PROVE  Tokens(m) \in Seq(Token) /\ Tokens(m) # <<>>
<1>1. CASE m = "ZPACKET"
  <2>1. Tokens(m) = <<"_STRING", "_IP", "_STRING", "_IP", "_PORT", "_TIME", "_NEWLINE">>
    BY <1>1 DEF Tokens
  <2> QED
    BY <2>1, TokenValues DEF Values
<1>2. CASE m # "ZPACKET"
  <2>1. m \in RuleNames /\ Tokens(m) = Rule[m]
    BY <1>2, KindNames
  <2> QED
    BY <2>1, RuleHead
<1> QED
  BY <1>1, <1>2

(* What is left of a message becomes the tokens of an older one.           *)
LEMMA OldStack ==
    ASSUME NEW c \in Stack, Begun(c),
           NEW d, d = IF c.rule = NoRule THEN c ELSE [c EXCEPT !.from = @ \cup {"old"}]
    PROVE  /\ d \in Stack /\ Begun(d) /\ d.rule = c.rule /\ d.level = c.level /\ d.k = c.k
           /\ c.rule = NoRule => d = c
<1>1. CASE c.rule = NoRule
  BY <1>1
<1>2. CASE c.rule # NoRule
  <2> DEFINE x == c.from \cup {"old"}
             e == [c EXCEPT !.from = x]
  <2>1. x \in SUBSET Owners
    BY DEF Stack, Owners
  <2> HIDE DEF x
  <2>2. e \in Stack /\ e.rule = c.rule /\ e.level = c.level /\ e.k = c.k
    BY <2>1 DEF Stack
  <2>3. d = e
    BY <1>2 DEF x
  <2> HIDE DEF e
  <2>4. Begun(d)
    BY <2>2, <2>3 DEF Begun
  <2> QED
    BY <1>2, <2>2, <2>3, <2>4
<1> QED
  BY <1>1, <1>2

-------------------------------------------------------------------------------
(* The types at the start ...                                              *)
LEMMA InitTypes == MonitorInit => MTypes
<1> SUFFICES ASSUME MonitorInit PROVE MTypes
  OBVIOUS
<1>1. ctx \in Stack /\ Begun(ctx)
  BY AtFields DEF MonitorInit, Level
<1>2. rest \in Seq(Token) /\ spliced \in Seq(Token)
  BY EmptySeq DEF MonitorInit
<1>3. faults \in 0..MaxFaults /\ yyerrstatus \in 0..3
  BY MonitorAssumption DEF MonitorInit
<1>4. /\ cur \in Kinds /\ queueing \in {"no", "begun", "yes"} /\ bol \in BOOLEAN /\ returned \in BOOLEAN
      /\ yyin \in {"open", "quit"} /\ quit_if_parse_error \in BOOLEAN /\ hit \in BOOLEAN
      /\ spoilt \in BOOLEAN /\ seen \in {"coming", "done", "garbled"}
  BY DEF MonitorInit, Outcome
<1> QED
  BY <1>1, <1>2, <1>3, <1>4 DEF MTypes

(* The types after a token.                                                *)
LEMMA TokenTypes ==
    ASSUME MTypes, NEW token \in Token, NEW owner \in Owners, Parse(token, owner),
           cur' = cur, rest' \in Seq(Token), spliced' \in Seq(Token),
           queueing' \in {"no", "begun", "yes"}, hit' = hit, spoilt' = spoilt, faults' = faults
    PROVE  MTypes'
<1>1. /\ ctx' \in Stack /\ Begun(ctx') /\ yyerrstatus' \in 0..3 /\ yyin' \in {"open", "quit"}
      /\ seen' \in {"coming", "done", "garbled"} /\ returned' \in BOOLEAN /\ bol' \in BOOLEAN
      /\ quit_if_parse_error' \in BOOLEAN
  BY ParseTypes DEF MTypes
<1>2. Begun(ctx)'
  BY <1>1 DEF Begun
<1> QED
  BY <1>1, <1>2 DEF MTypes

(* ... and after every step.                                               *)
LEMMA NextTypes == MTypes /\ [MonitorNext]_vars => MTypes'
<1> SUFFICES ASSUME MTypes, [MonitorNext]_vars PROVE MTypes'
  OBVIOUS
<1>0. "_WOULDBLOCK" \in Token /\ "diald" \in Owners /\ "server" \in Owners
  BY TokenValues DEF Owners
<1>1. ASSUME Lex PROVE MTypes'
  <2>1. CASE spliced # <<>>
    <3>1. Head(spliced) \in Token /\ Tail(spliced) \in Seq(Token)
      BY <2>1, HeadTailProperties DEF MTypes
    <3>2. Parse(Head(spliced), "server") /\ spliced' = Tail(spliced) /\ rest' = rest
          /\ cur' = cur /\ queueing' = queueing /\ hit' = hit /\ spoilt' = spoilt /\ faults' = faults
      BY <1>1, <2>1 DEF Lex
    <3>3. spliced' \in Seq(Token) /\ rest' \in Seq(Token) /\ queueing' \in {"no", "begun", "yes"}
      BY <3>1, <3>2 DEF MTypes
    <3> QED
      BY <1>0, <3>1, <3>2, <3>3, TokenTypes
  <2>2. CASE spliced = <<>>
    <3>1. rest # <<>> /\ Parse(Head(rest), "diald") /\ rest' = Tail(rest) /\ spliced' = spliced
          /\ cur' = cur /\ queueing' = queueing /\ hit' = hit /\ spoilt' = spoilt /\ faults' = faults
      BY <1>1, <2>2 DEF Lex
    <3>2. Head(rest) \in Token /\ Tail(rest) \in Seq(Token)
      BY <3>1, HeadTailProperties DEF MTypes
    <3>3. spliced' \in Seq(Token) /\ rest' \in Seq(Token) /\ queueing' \in {"no", "begun", "yes"}
      BY <3>1, <3>2 DEF MTypes
    <3> QED
      BY <1>0, <3>1, <3>2, <3>3, TokenTypes
  <2> QED
    BY <2>1, <2>2
<1>2. ASSUME Idle PROVE MTypes'
  <2>1. Parse("_WOULDBLOCK", "diald") /\ spliced' = spliced /\ rest' = rest
        /\ cur' = cur /\ hit' = hit /\ spoilt' = spoilt /\ faults' = faults
        /\ queueing' = IF queueing = "begun" THEN "yes" ELSE queueing
    BY <1>2 DEF Idle
  <2>2. spliced' \in Seq(Token) /\ rest' \in Seq(Token) /\ queueing' \in {"no", "begun", "yes"}
    BY <2>1 DEF MTypes
  <2> QED
    BY <1>0, <2>1, <2>2, TokenTypes
<1>3. ASSUME NEW m \in Kinds, Write(m) PROVE MTypes'
  <2>1. rest' \in Seq(Token) /\ spliced' \in Seq(Token)
    BY <1>3, MonitorAssumption, TokensType DEF Write, MTypes
  <2>2. ctx' \in Stack /\ Begun(ctx)'
    <3>1. ctx' = IF ctx.rule = NoRule THEN ctx ELSE [ctx EXCEPT !.from = @ \cup {"old"}]
      BY <1>3 DEF Write
    <3>2. ctx' \in Stack /\ Begun(ctx')
      BY <3>1, OldStack DEF MTypes
    <3> QED
      BY <3>2 DEF Begun
  <2>3. queueing' \in {"no", "begun", "yes"}
    BY <1>3 DEF Write
  <2>4. hit' \in BOOLEAN
    BY <1>3 DEF Write
  <2>5. spoilt' \in BOOLEAN
    <3>1. spoilt' = FALSE \/ spoilt' = (spoilt \/ (hit /\ cur \in OfQueue))
      BY <1>3 DEF Write
    <3> QED
      BY <3>1
  <2>6. cur' \in Kinds /\ seen' \in {"coming", "done", "garbled"} /\ UNCHANGED <<yyerrstatus, yyin, bol, quit_if_parse_error, returned, faults>>
    BY <1>3 DEF Write
  <2> QED
    BY <2>1, <2>2, <2>3, <2>4, <2>5, <2>6 DEF MTypes
<1>4. ASSUME Fault, rest' \in Seq(Token), spliced' \in Seq(Token), hit' \in BOOLEAN, spoilt' \in BOOLEAN
      PROVE  MTypes'
  <2>1. faults' \in 0..MaxFaults
    BY <1>4, MonitorAssumption DEF Fault, MTypes
  <2>2. UNCHANGED <<cur, queueing, ctx, yyerrstatus, yyin, bol, quit_if_parse_error, returned, seen>>
    BY <1>4 DEF Fault, parservars
  <2>3. Begun(ctx)'
    BY <2>2 DEF Begun, MTypes
  <2> QED
    BY <1>4, <2>1, <2>2, <2>3 DEF MTypes
<1>5. ASSUME Pause PROVE MTypes'
  <2>1. <<"_WOULDBLOCK">> \o rest \in Seq(Token)
    BY <1>0, CutSeq DEF MTypes
  <2>2. Fault /\ rest' \in Seq(Token) /\ spliced' \in Seq(Token) /\ hit' \in BOOLEAN /\ spoilt' \in BOOLEAN
    BY <1>5, <2>1 DEF Pause, MTypes
  <2> QED
    BY <1>4, <2>2
<1>6. ASSUME Cut PROVE MTypes'
  <2>1. PICK h \in Halves(Head(rest)) : rest' = h[1] \o <<"_WOULDBLOCK">> \o h[2] \o Tail(rest)
    BY <1>6 DEF Cut
  <2>2. Head(rest) \in Token /\ Tail(rest) \in Seq(Token)
    BY <1>6, HeadTailProperties DEF Cut, MTypes
  <2> DEFINE a == h[1]
             b == h[2]
             t == Tail(rest)
  <2>3. a \in Seq(Token) /\ b \in Seq(Token) /\ t \in Seq(Token)
    BY <2>2, HalvesTokens
  <2>4. rest' = a \o <<"_WOULDBLOCK">> \o b \o t
    BY <2>1
  <2> HIDE DEF a, b, t
  <2>5. rest' \in Seq(Token)
    BY <1>0, <2>3, <2>4, CutSeq
  <2>6. Fault /\ spliced' \in Seq(Token) /\ hit' \in BOOLEAN /\ spoilt' \in BOOLEAN
    BY <1>6 DEF Cut, MTypes
  <2> QED
    BY <1>4, <2>5, <2>6
<1>7. ASSUME Splice PROVE MTypes'
  <2>1. spliced' \in Seq(Token) /\ rest' \in Seq(Token)
    BY <1>7, ServerTokensType DEF Splice, MTypes
  <2>2. hit' \in BOOLEAN /\ spoilt' \in BOOLEAN
    <3>1. hit' = (hit \/ rest # <<>>) /\ spoilt' = (spoilt \/ queueing # "no")
      BY <1>7 DEF Splice
    <3> QED
      BY <3>1
  <2> QED
    BY <1>4, <1>7, <2>1, <2>2 DEF Splice
<1>8. CASE UNCHANGED vars
  <2>1. UNCHANGED <<cur, rest, spliced, queueing, ctx, yyerrstatus, yyin, bol, quit_if_parse_error,
                    returned, seen, hit, spoilt, faults>>
    BY <1>8 DEF vars, linevars, parservars, histvars
  <2>2. Begun(ctx)'
    BY <2>1 DEF Begun, MTypes
  <2> QED
    BY <2>1, <2>2 DEF MTypes
<1> QED
  BY <1>1, <1>2, <1>3, <1>5, <1>6, <1>7, <1>8 DEF MonitorNext

-------------------------------------------------------------------------------
(* The invariant at the start.                                             *)
LEMMA InitInv == MonitorInit => MInv
<1> SUFFICES ASSUME MonitorInit PROVE MInv
  OBVIOUS
<1>1. AtTop /\ spliced = <<>> /\ rest = <<>> /\ queueing = "no" /\ spoilt = FALSE /\ hit = FALSE
      /\ seen = Outcome(cur) /\ yyin = "open"
  BY AtFields DEF MonitorInit, AtTop, Level
<1>2. Harm(spliced) /\ Harm(rest)
  BY <1>1, HarmEmpty
<1>3. TopSync
  BY <1>1, <1>2 DEF TopSync, AtTop, Unread
<1>4. Quiet
  BY <1>1, <1>2 DEF Quiet
<1>5. Whole /\ EndWhole
  BY <1>1, <1>4 DEF Whole, EndWhole
<1>6. QueueFacts
  BY <1>1 DEF QueueFacts
<1>7. Parsing
  BY <1>3, <1>5 DEF Parsing, InSync
<1>8. Progress /\ QuitFacts
  BY <1>1 DEF Progress, QuitFacts
<1> QED
  BY <1>6, <1>7, <1>8 DEF MInv

(* Between two messages the parser is where diald is, unless a queue was   *)
(* damaged and has not ended since.                                        *)
LEMMA AtBoundary ==
    ASSUME MTypes, QueueFacts, InSync, Boundary, ~ Bad
    PROVE  ctx.rule = NoRule /\ ctx.level = Lev[queueing] /\ (queueing = "no" => AtTop)
<1>1. ctx \in Stack /\ Begun(ctx) /\ cur \in Kind
  BY MonitorAssumption DEF MTypes
<1>2. rest = <<>> /\ spliced = <<>>
  BY DEF Boundary
<1>3. Quiet => AtTop
  BY <1>1, <1>2, QuietPause
<1>4. AtTop /\ queueing = "no" =>
        ctx.rule = NoRule /\ ctx.level = Lev[queueing] /\ (queueing = "no" => AtTop)
  BY DEF AtTop, Lev
<1>5. CASE cur = "END" /\ ~ hit
  <2>1. EndWhole
    BY <1>5 DEF InSync
  <2>2. Rule["END"] # <<>>
    BY ShortRules
  <2>3. Quiet
    BY <1>2, <2>1, <2>2 DEF EndWhole
  <2>4. queueing = "no"
    BY <1>5 DEF QueueFacts, MTypes
  <2> QED
    BY <1>3, <1>4, <2>3, <2>4
<1>6. CASE ~ spoilt /\ cur \notin OfQueue
  <2>1. TopSync /\ cur \in TopKinds
    BY <1>1, <1>6, KindNames DEF InSync
  <2>2. ~ ServerPart
    BY <1>1, <1>2, ServerPartSome
  <2>3. cur \in RuleNames
    BY <2>1, KindNames
  <2>4. ~ Following(cur, <<>>)
    BY <1>1, <2>3, FollowingHead
  <2>5. AtTop
    BY <1>2, <2>1, <2>2, <2>4, HarmEmpty DEF TopSync, AtTop
  <2>6. queueing = "no"
    BY <1>6 DEF QueueFacts, OfQueue, InQueue
  <2> QED
    BY <1>4, <2>5, <2>6
<1>7. CASE ~ spoilt /\ ~ hit
  <2>1. Whole
    BY <1>7 DEF InSync
  <2>2. CASE queueing = "no" /\ Quiet
    BY <1>3, <1>4, <2>2
  <2>3. CASE queueing # "no" /\ ctx.rule = NoRule /\ ctx.level = Lev[queueing]
    BY <2>3
  <2> QED
    BY <1>2, <2>1, <2>2, <2>3 DEF Whole
<1> QED
  BY <1>5, <1>6, <1>7 DEF Bad

(* diald's next message.                                                   *)
LEMMA WriteInv ==
    ASSUME MTypes, MInv, NEW m \in Kinds, Write(m)
    PROVE  MInv'
<1>1. /\ Boundary /\ rest = <<>> /\ spliced = <<>> /\ spliced' = <<>>
      /\ cur' = m /\ rest' = Tokens(m) /\ seen' = "coming" /\ yyin' = yyin
      /\ m \in Kind /\ Tokens(m) # <<>>
  BY MonitorAssumption, TokensType DEF Write, Boundary
<1>2. queueing' = Queueing(m)
  BY DEF Write, Queueing
<1>3. hit' = (m = "ZPACKET")
  BY DEF Write, Unreadable
<1>4. spoilt' <=> Bad
  BY DEF Write, Bad
<1>5. IF queueing = "no" THEN m \notin InQueue
      ELSE m \in InQueue \/ (m = "STATUS" /\ queueing = "begun")
  BY DEF Write
<1>6. queueing \in {"no", "begun", "yes"}
  BY DEF MTypes
<1>7. ASSUME yyin = "open", ~ Bad
      PROVE  ctx'.rule = NoRule /\ ctx'.level = Lev[queueing]
  <2>1. ctx.rule = NoRule /\ ctx.level = Lev[queueing]
    BY <1>1, <1>7, AtBoundary DEF MInv, Parsing
  <2>2. ctx' = ctx
    BY <2>1 DEF Write
  <2> QED
    BY <2>1, <2>2
<1>8. QueueFacts'
  <2>1. Queueing(m) # "no" => m \in {"QUEUE", "PACKET", "NPACKET", "ZPACKET"}
    BY DEF Queueing, InQueue
  <2> QED
    BY <1>1, <1>2, <1>3, <2>1 DEF QueueFacts
<1>9. ASSUME yyin = "open" PROVE InSync'
  <2>1. ASSUME ~ spoilt', cur' \notin OfQueue PROVE TopSync'
    <3>1. queueing = "no"
      BY <1>1, <1>5, <2>1 DEF OfQueue
    <3>2. ctx'.rule = NoRule /\ ctx'.level = "top"
      BY <1>4, <1>7, <1>9, <2>1, <3>1 DEF Lev
    <3>3. Unread'
      BY <1>1 DEF Unread
    <3> QED
      BY <1>1, <3>2, <3>3 DEF TopSync
  <2>2. ASSUME ~ hit', ~ spoilt' PROVE Whole'
    <3>1. m # "ZPACKET"
      BY <1>3, <2>2
    <3>2. ctx'.rule = NoRule /\ ctx'.level = Lev[queueing]
      BY <1>4, <1>7, <1>9, <2>2
    <3>3. Lev[queueing] \in StartLevels(m)
      <4>1. CASE queueing = "no"
        BY <1>5, <4>1 DEF Lev, StartLevels, InQueue
      <4>2. CASE queueing = "begun"
        <5>1. m \in {"PACKET", "NPACKET", "END", "STATUS"}
          BY <1>5, <3>1, <4>2 DEF InQueue
        <5> QED
          BY <4>2, <5>1 DEF Lev, StartLevels
      <4>3. CASE queueing = "yes"
        <5>1. m \in {"PACKET", "NPACKET", "END"}
          BY <1>5, <3>1, <4>3 DEF InQueue
        <5> QED
          BY <4>3, <5>1 DEF Lev, StartLevels
      <4> QED
        BY <1>6, <4>1, <4>2, <4>3
    <3>4. rest' # <<>> /\ (rest = Tokens(cur))' /\ (ctx.level \in StartLevels(cur))'
      BY <1>1, <3>2, <3>3
    <3> QED
      BY <1>1, <3>2, <3>4 DEF Whole
  <2>3. ASSUME cur' = "END" PROVE EndWhole'
    <3>1. rest' = Rule["END"]
      BY <1>1, <2>3 DEF Tokens
    <3> QED
      BY <1>1, <3>1 DEF EndWhole
  <2> QED
    BY <2>1, <2>2, <2>3 DEF InSync
<1>10. Parsing'
  BY <1>1, <1>9 DEF Parsing
<1>11. Progress'
  BY <1>1 DEF Progress
<1>12. QuitFacts'
  <2>1. ASSUME yyin' = "quit" PROVE Hurt' /\ ~ Boundary'
    <3>1. Bad
      BY <1>1, <2>1 DEF MInv, QuitFacts
    <3> QED
      BY <1>1, <1>4, <3>1 DEF Hurt, Boundary
  <2> QED
    BY <2>1 DEF QuitFacts
<1> QED
  BY <1>8, <1>10, <1>11, <1>12 DEF MInv

(* What of a message that is not of a queue is still to come.              *)
LEMMA TopRest ==
    ASSUME MTypes, TopSync, spliced = <<>>, cur \in TopKinds
    PROVE  /\ (ctx.rule = NoRule /\ Unread) \/ (ctx.rule = cur /\ Harm(rest))
           /\ Unread
<1>1. ctx \in Stack /\ Begun(ctx)
  BY DEF MTypes
<1>2. ~ ServerPart
  BY <1>1, ServerPartSome
<1>3. Following(cur, rest) => Harm(rest) /\ ctx.rule = cur
  BY <1>1, FollowingHarm DEF Following
<1> QED
  BY <1>2, <1>3 DEF TopSync, Unread

(* Damage to a message.                                                    *)
LEMMA DamageInv ==
    ASSUME MTypes, MInv, Fault, rest # <<>>, spliced = <<>>, spliced' = <<>>, hit' = TRUE,
           spoilt' = spoilt, rest' # <<>>,
           yyin = "open" /\ ~ spoilt /\ cur \notin OfQueue => Harm(rest') /\ Paused(rest')
    PROVE  MInv'
<1>1. UNCHANGED <<cur, queueing, ctx, yyin, seen>>
  BY DEF Fault, parservars
<1>2. QueueFacts'
  BY <1>1 DEF QueueFacts, MInv
<1>3. ASSUME yyin = "open", ~ spoilt, cur \notin OfQueue PROVE TopSync'
  <2>1. TopSync /\ cur \in TopKinds
    BY <1>3, MonitorAssumption, KindNames DEF MInv, Parsing, InSync, MTypes
  <2>2. ctx.level = "top" /\ (ctx.rule = NoRule \/ ctx.rule = cur)
    BY <2>1, TopRest DEF TopSync
  <2>3. Harm(rest)' /\ Paused(rest)'
    BY <1>3 DEF Harm, Paused
  <2> QED
    BY <1>1, <2>2, <2>3 DEF TopSync, Unread
<1>4. Parsing'
  BY <1>1, <1>3 DEF Parsing, InSync
<1>5. Progress' /\ QuitFacts'
  BY DEF Progress, QuitFacts, Hurt, Boundary
<1> QED
  BY <1>2, <1>4, <1>5 DEF MInv

(* ... by a pause between two of its tokens ...                            *)
LEMMA PauseInv ==
    ASSUME MTypes, MInv, Pause
    PROVE  MInv'
<1>1. Fault /\ rest # <<>> /\ spliced = <<>> /\ spliced' = <<>> /\ hit' = TRUE /\ spoilt' = spoilt
      /\ rest' = <<"_WOULDBLOCK">> \o rest /\ (rest # Tokens(cur) \/ cur = "STATUS")
  BY DEF Pause
<1>2. Paused(rest')
  BY <1>1, TokenValues, CutSeq DEF MTypes
<1>3. rest' # <<>>
  BY <1>2, HarmEmpty
<1>4. ASSUME yyin = "open", ~ spoilt, cur \notin OfQueue PROVE Harm(rest')
  <2>1. TopSync /\ cur \in TopKinds
    BY <1>4, MonitorAssumption, KindNames DEF MInv, Parsing, InSync, MTypes
  <2>2. cur # "STATUS"
    BY <1>4 DEF OfQueue
  <2>3. Harm(rest)
    BY <1>1, <2>1, <2>2, TopRest DEF Unread
  <2>4. "_WOULDBLOCK" \in Harmless
    BY DEF Harmless
  <2> QED
    BY <1>1, <2>3, <2>4, CutSeq DEF Harm
<1> QED
  BY <1>1, <1>2, <1>3, <1>4, DamageInv

(* ... or inside one.                                                      *)
LEMMA CutInv ==
    ASSUME MTypes, MInv, Cut
    PROVE  MInv'
<1>1. Fault /\ rest # <<>> /\ spliced = <<>> /\ spliced' = <<>> /\ hit' = TRUE /\ spoilt' = spoilt
  BY DEF Cut
<1>2. PICK h \in Halves(Head(rest)) : rest' = h[1] \o <<"_WOULDBLOCK">> \o h[2] \o Tail(rest)
  BY DEF Cut
<1> DEFINE a == h[1]
           b == h[2]
           t == Tail(rest)
<1>3. Head(rest) \in Token /\ t \in Seq(Token)
  BY <1>1, HeadTailProperties DEF MTypes
<1>4. a \in Seq(Token) /\ b \in Seq(Token)
      /\ (Head(rest) # "_ENDQUEUE" => a \in Seq(Harmless) /\ b \in Seq(Harmless))
  BY <1>3, HalvesTokens
<1>5. rest' = a \o <<"_WOULDBLOCK">> \o b \o t
  BY <1>2
<1> HIDE DEF a, b, t
<1>6. Paused(rest')
  BY <1>3, <1>4, <1>5, TokenValues, CutSeq
<1>7. rest' # <<>>
  BY <1>6, HarmEmpty
<1>8. ASSUME yyin = "open", ~ spoilt, cur \notin OfQueue PROVE Harm(rest')
  <2>1. TopSync /\ cur \in TopKinds
    BY <1>8, MonitorAssumption, KindNames DEF MInv, Parsing, InSync, MTypes
  <2>2. Head(rest) # "_ENDQUEUE" /\ t \in Seq(Harmless)
    <3>1. CASE Harm(rest)
      <4>1. Head(rest) \in Harmless /\ Harm(Tail(rest))
        BY <1>1, <3>1, HarmTail
      <4> QED
        BY <4>1 DEF Harmless, Harm, t
    <3>2. CASE rest = Tokens(cur)
      <4>1. cur \in RuleNames /\ rest = Rule[cur]
        BY <2>1, <3>2, KindNames
      <4>2. Head(rest) = Rule[cur][1] /\ Tail(rest) = SubSeq(Rule[cur], 1 + 1, Len(Rule[cur]))
            /\ 1 \in 1..Len(Rule[cur]) - 1
        BY <4>1, RuleHead
      <4>3. Head(rest) # "_ENDQUEUE"
        BY <2>1, <4>2, Firsts DEF TopKinds
      <4>4. Harm(Tail(rest))
        BY <2>1, <4>2, PlainTails
      <4> QED
        BY <4>3, <4>4 DEF Harm, t
    <3> QED
      BY <1>1, <2>1, <3>1, <3>2, TopRest DEF Unread
  <2>3. "_WOULDBLOCK" \in Harmless
    BY DEF Harmless
  <2> QED
    BY <1>4, <1>5, <2>2, <2>3, CutSeq DEF Harm
<1> QED
  BY <1>1, <1>6, <1>7, <1>8, DamageInv

(* A message of the server's own.                                          *)
LEMMA SpliceInv ==
    ASSUME MTypes, MInv, Splice
    PROVE  MInv'
<1>1. /\ spliced = <<>> /\ spliced' = ServerTokens /\ rest' = rest
      /\ hit' = (hit \/ rest # <<>>) /\ spoilt' = (spoilt \/ queueing # "no")
      /\ UNCHANGED <<cur, queueing, ctx, yyin, seen>>
  BY DEF Splice, Fault, parservars
<1>2. ctx \in Stack /\ Begun(ctx) /\ cur \in Kind
  BY MonitorAssumption DEF MTypes
<1>3. spliced' \in {Rule["MESSAGE"], Lines(2, "_STRING")} /\ spliced' # <<>>
  BY <1>1, ServerTokensType, ShortRules
<1>4. QueueFacts'
  BY <1>1 DEF QueueFacts, MInv
<1>5. ASSUME AtTop PROVE Quiet'
  <2>1. AtTop'
    BY <1>1, <1>5 DEF AtTop
  <2>2. Harm(Lines(2, "_STRING"))
    <3>1. "_STRING" \in Harmless /\ "_NEWLINE" \in Harmless
      BY DEF Harmless
    <3>2. <<"_STRING", "_NEWLINE", "_STRING", "_NEWLINE">> \in Seq(Harmless)
      BY <3>1
    <3> QED
      BY <3>2, ShortRules DEF Harm
  <2>3. spliced' = Rule["MESSAGE"] \/ Harm(spliced)'
    BY <1>3, <2>2 DEF Harm
  <2> QED
    BY <2>1, <2>3 DEF Quiet
<1>6. ASSUME Quiet PROVE Quiet'
  BY <1>1, <1>2, <1>5, <1>6, QuietPause
<1>7. ASSUME yyin = "open" PROVE InSync'
  <2>0. InSync
    BY <1>7 DEF MInv, Parsing
  <2>1. ASSUME ~ spoilt', cur' \notin OfQueue PROVE TopSync'
    <3>1. ~ spoilt /\ cur \notin OfQueue
      BY <1>1, <2>1
    <3>2. TopSync /\ cur \in TopKinds
      BY <1>2, <2>0, <3>1, KindNames DEF InSync
    <3>3. Unread
      BY <1>1, <3>2, TopRest
    <3>4. Unread'
      BY <1>1, <3>3 DEF Unread, Harm
    <3>5. ServerPart'
      BY <1>3 DEF ServerPart
    <3>6. ctx'.level = "top"
      BY <1>1, <3>2 DEF TopSync
    <3> QED
      BY <3>4, <3>5, <3>6 DEF TopSync
  <2>2. ASSUME ~ hit', ~ spoilt' PROVE Whole'
    <3>1. ~ hit /\ ~ spoilt /\ rest = <<>> /\ queueing = "no"
      BY <1>1, <2>2
    <3>2. Quiet
      BY <2>0, <3>1 DEF InSync, Whole
    <3> QED
      BY <1>1, <1>6, <3>1, <3>2 DEF Whole
  <2>3. ASSUME cur' = "END", ~ hit' PROVE EndWhole'
    <3>1. cur = "END" /\ ~ hit /\ rest = <<>>
      BY <1>1, <2>3
    <3>2. Rule["END"] # <<>>
      BY ShortRules
    <3>3. Quiet
      BY <2>0, <3>1, <3>2 DEF InSync, EndWhole
    <3> QED
      BY <1>1, <1>6, <3>1, <3>3 DEF EndWhole
  <2> QED
    BY <2>1, <2>2, <2>3 DEF InSync
<1>8. Parsing'
  BY <1>1, <1>7 DEF Parsing
<1>9. ASSUME Hurt PROVE Hurt'
  BY <1>1, <1>9 DEF Hurt
<1>10. Progress'
  BY <1>1, <1>9 DEF Progress, MInv
<1>11. QuitFacts'
  BY <1>1, <1>3, <1>9 DEF QuitFacts, Boundary, MInv
<1> QED
  BY <1>4, <1>8, <1>10, <1>11 DEF MInv

(* A pause between two messages.                                           *)
LEMMA IdleStep ==
    ASSUME ctx \in Stack, Begun(ctx), ctx.rule = NoRule, NEW q \in {"no", "begun", "yes"},
           ctx.level = Lev[q], Parse("_WOULDBLOCK", "diald")
    PROVE  /\ yyin' = "open" /\ seen' = seen /\ ctx'.rule = NoRule
           /\ ctx'.level = Lev[IF q = "begun" THEN "yes" ELSE q]
<1>1. CASE q = "no"
  <2>1. AtTop
    BY <1>1 DEF AtTop, Lev
  <2>2. yyin' = "open" /\ seen' = seen /\ AtTop'
    BY <2>1, ParseNothing DEF Harmless
  <2> QED
    BY <1>1, <2>2 DEF AtTop, Lev
<1>2. CASE q # "no"
  <2> DEFINE token == "_WOULDBLOCK"
  <2>1. ctx.level \in {"queue", "packets"} /\ ctx.level \in Level /\ ~ GivesUp(ctx, token)
        /\ Acceptable(ctx, token) /\ Parse(token, "diald")
    BY <1>2 DEF Lev, Level, GivesUp, Acceptable
  <2>2. Started(ctx.level, token) = {}
    BY <2>1, StartsNothing
  <2> HIDE DEF token
  <2>3. Shift(ctx, token, "diald") = (IF ctx.level = "queue" THEN At("packets") ELSE ctx)
        /\ ~ Completes(ctx, token)
    BY <2>1, <2>2, ShiftNothing
  <2>4. yyin' = "open" /\ seen' = seen /\ ctx' = IF ctx.level = "queue" THEN At("packets") ELSE ctx
    BY <2>1, <2>3, ParseAccepted
  <2>5. CASE q = "begun"
    <3>1. ctx' = At("packets")
      BY <2>4, <2>5 DEF Lev
    <3>2. ctx'.rule = NoRule /\ ctx'.level = "packets"
      BY <3>1, AtFields DEF Level
    <3> QED
      BY <2>4, <2>5, <3>2 DEF Lev
  <2>6. CASE q = "yes"
    <3>1. ctx' = ctx
      BY <2>4, <2>6 DEF Lev
    <3> QED
      BY <2>4, <2>6, <3>1
  <2> QED
    BY <1>2, <2>5, <2>6
<1> QED
  BY <1>1, <1>2

(* A pause never ends the program.                                         *)
LEMMA IdleOpen ==
    ASSUME ctx \in Stack, NEW owner, Parse("_WOULDBLOCK", owner)
    PROVE  yyin = "open" /\ yyin' = "open"
<1>1. yyin = "open"
  BY DEF Parse
<1> DEFINE token == "_WOULDBLOCK"
<1>2. Parse(token, owner) /\ token = "_WOULDBLOCK"
  OBVIOUS
<1> HIDE DEF token
<1>3. CASE Acceptable(ctx, token)
  BY <1>1, <1>2, <1>3, ParseAccepted
<1>4. CASE ~ Acceptable(ctx, token)
  BY <1>1, <1>2, <1>4, ParseRefused
<1> QED
  BY <1>1, <1>3, <1>4

(* ... keeps the invariant.                                                *)
LEMMA IdleInv ==
    ASSUME MTypes, MInv, Idle
    PROVE  MInv' /\ (~ Hurt => seen' = seen)
<1>1. /\ Boundary /\ rest = <<>> /\ spliced = <<>> /\ Parse("_WOULDBLOCK", "diald")
      /\ queueing' = (IF queueing = "begun" THEN "yes" ELSE queueing)
      /\ UNCHANGED <<cur, rest, spliced, hit, spoilt>>
  BY DEF Idle, Boundary
<1>2. ctx \in Stack /\ Begun(ctx) /\ queueing \in {"no", "begun", "yes"}
  BY DEF MTypes
<1>3. yyin = "open" /\ yyin' = "open"
  BY <1>1, <1>2, IdleOpen
<1>4. InSync /\ QueueFacts
  BY <1>3 DEF MInv, Parsing
<1>5. ASSUME ~ Bad
      PROVE  /\ seen' = seen /\ ctx'.rule = NoRule /\ ctx'.level = Lev[queueing']
             /\ queueing' = "no" => AtTop'
  <2>1. ctx.rule = NoRule /\ ctx.level = Lev[queueing]
    BY <1>1, <1>4, <1>5, AtBoundary
  <2>2. /\ seen' = seen /\ ctx'.rule = NoRule
        /\ ctx'.level = Lev[IF queueing = "begun" THEN "yes" ELSE queueing]
    BY <1>1, <1>2, <2>1, IdleStep
  <2>3. ctx'.level = Lev[queueing']
    BY <1>1, <2>2
  <2> QED
    BY <2>2, <2>3 DEF AtTop, Lev
<1>6. Harm(rest)' /\ Harm(spliced)'
  BY <1>1, HarmEmpty DEF Harm
<1>7. ASSUME ~ spoilt', cur' \notin OfQueue PROVE TopSync'
  <2>1. ~ Bad /\ queueing' = "no"
    BY <1>1, <1>4, <1>7 DEF Bad, QueueFacts, OfQueue, InQueue
  <2>2. AtTop'
    BY <1>5, <2>1
  <2> QED
    BY <1>1, <1>6, <2>2 DEF TopSync, AtTop, Unread
<1>8. ASSUME ~ hit', ~ spoilt' PROVE Whole'
  <2>1. ~ Bad
    BY <1>1, <1>8 DEF Bad
  <2>2. CASE queueing' = "no"
    BY <1>1, <1>5, <1>6, <2>1, <2>2 DEF Whole, Quiet
  <2>3. CASE queueing' # "no"
    BY <1>1, <1>5, <2>1, <2>3 DEF Whole
  <2> QED
    BY <2>2, <2>3
<1>9. ASSUME cur' = "END", ~ hit' PROVE EndWhole'
  <2>1. ~ Bad /\ queueing' = "no"
    BY <1>1, <1>4, <1>9 DEF Bad, QueueFacts
  <2> QED
    BY <1>1, <1>5, <1>6, <2>1 DEF EndWhole, Quiet
<1>10. QueueFacts'
  BY <1>1, <1>4 DEF QueueFacts
<1>11. Parsing'
  BY <1>7, <1>8, <1>9 DEF Parsing, InSync
<1>12. ~ Hurt => seen' = seen /\ ~ Hurt'
  BY <1>1, <1>5 DEF Hurt, Bad
<1>13. Progress'
  <2>1. ASSUME ~ Hurt' PROVE seen' = seen /\ ~ Hurt
    BY <1>1, <1>12, <2>1 DEF Hurt
  <2> QED
    BY <1>1, <2>1 DEF Progress, MInv
<1>14. QuitFacts'
  BY <1>3 DEF QuitFacts
<1> QED
  BY <1>10, <1>11, <1>12, <1>13, <1>14 DEF MInv

(* A token of the server's.                                                *)
LEMMA LexServerInv ==
    ASSUME MTypes, MInv, Lex, spliced # <<>>
    PROVE  MInv' /\ (~ Hurt => seen' = seen)
<1>1. /\ Parse(Head(spliced), "server") /\ spliced' = Tail(spliced)
      /\ UNCHANGED <<cur, rest, queueing, hit, spoilt>>
  BY DEF Lex
<1>2. ctx \in Stack /\ Begun(ctx) /\ cur \in Kind
  BY MonitorAssumption DEF MTypes
<1>3. yyin = "open" /\ InSync /\ QueueFacts
  BY <1>1 DEF MInv, Parsing, Parse
<1>4. Quiet => Quiet' /\ yyin' = "open" /\ seen' = seen
  BY <1>1, <1>2, QuietStep
<1>5. ASSUME ~ spoilt, cur \notin OfQueue
      PROVE  TopSync' /\ (Tail(spliced) = <<>> => yyin' = "open")
  <2>1. TopSync /\ cur \in TopKinds
    BY <1>2, <1>3, <1>5, KindNames DEF InSync
  <2>2. ctx.level = "top" /\ ServerPart /\ Unread
    BY <2>1 DEF TopSync
  <2>3. /\ ctx'.level = "top"
        /\ ServerPart' \/ (spliced' = <<>> /\ ctx'.rule = NoRule)
        /\ Tail(spliced) = <<>> => yyin' = "open"
    BY <1>1, <1>2, <2>2, TopServer
  <2>4. Unread'
    BY <1>1, <2>2 DEF Unread, Harm
  <2> QED
    BY <2>3, <2>4 DEF TopSync
<1>6. ASSUME ~ hit, ~ spoilt PROVE Whole' /\ yyin' = "open" /\ seen' = seen
  <2>1. rest = <<>> /\ queueing = "no" /\ Quiet
    BY <1>3, <1>6 DEF InSync, Whole
  <2> QED
    BY <1>1, <1>4, <2>1 DEF Whole
<1>7. ASSUME cur = "END", ~ hit PROVE EndWhole' /\ yyin' = "open"
  <2>1. rest = <<>> /\ Quiet
    BY <1>3, <1>7 DEF InSync, EndWhole
  <2> QED
    BY <1>1, <1>4, <2>1 DEF EndWhole
<1>8. QueueFacts'
  BY <1>1, <1>3 DEF QueueFacts
<1>9. Parsing'
  BY <1>1, <1>5, <1>6, <1>7 DEF Parsing, InSync
<1>10. ~ Hurt => seen' = seen
  BY <1>6 DEF Hurt
<1>11. Progress'
  BY <1>1, <1>10 DEF Progress, Hurt, MInv
<1>12. QuitFacts'
  <2>1. ASSUME yyin' = "quit" PROVE Hurt'
    BY <1>1, <1>6, <2>1 DEF Hurt
  <2>2. ASSUME yyin' = "quit", Boundary' PROVE Bad'
    <3>1. ~ (cur = "END" /\ ~ hit) /\ ~ (~ hit /\ ~ spoilt)
      BY <1>6, <1>7, <2>2
    <3>2. ~ (~ spoilt /\ cur \notin OfQueue)
      BY <1>1, <1>5, <2>2 DEF Boundary
    <3> QED
      BY <1>1, <3>1, <3>2 DEF Bad
  <2> QED
    BY <2>1, <2>2 DEF QuitFacts
<1> QED
  BY <1>8, <1>9, <1>10, <1>11, <1>12 DEF MInv

(* A token of diald's.                                                     *)
LEMMA LexDialdInv ==
    ASSUME MTypes, MInv, Lex, spliced = <<>>
    PROVE  MInv' /\ (~ Hurt => seen = "coming" /\ seen' \in {"coming", Outcome(cur)})
<1>1. /\ rest # <<>> /\ Parse(Head(rest), "diald") /\ rest' = Tail(rest) /\ spliced' = <<>>
      /\ UNCHANGED <<cur, queueing, hit, spoilt>>
  BY DEF Lex
<1>2. ctx \in Stack /\ Begun(ctx) /\ cur \in Kind
  BY MonitorAssumption DEF MTypes
<1>3. yyin = "open" /\ InSync /\ QueueFacts
  BY <1>1 DEF MInv, Parsing, Parse
<1>4. ASSUME ~ spoilt, cur \notin OfQueue
      PROVE  TopSync' /\ (Tail(rest) = <<>> => yyin' = "open")
  <2>1. TopSync /\ cur \in TopKinds
    BY <1>2, <1>3, <1>4, KindNames DEF InSync
  <2> QED
    BY <1>1, <1>2, <2>1, TopDiald
<1>5. ASSUME ~ hit, ~ spoilt
      PROVE  /\ Whole' /\ yyin' = "open" /\ seen = "coming"
             /\ seen' = IF Tail(rest) = <<>> THEN Outcome(cur) ELSE "coming"
  <2>1. Whole
    BY <1>3, <1>5 DEF InSync
  <2>2. cur \in Kind \ {"ZPACKET"} /\ queueing = Queueing(cur)
    BY <1>1, <1>2, <1>3, <1>5 DEF QueueFacts
  <2>3. seen = "coming"
    BY <1>1, <1>5 DEF MInv, Progress, Hurt
  <2> QED
    BY <1>1, <1>2, <2>1, <2>2, <2>3, WholeDiald
<1>6. ASSUME cur = "END", ~ hit PROVE EndWhole' /\ (Tail(rest) = <<>> => yyin' = "open")
  <2>1. EndWhole
    BY <1>3, <1>6 DEF InSync
  <2> QED
    BY <1>1, <1>2, <2>1, EndDiald
<1>7. QueueFacts'
  BY <1>1, <1>3 DEF QueueFacts
<1>8. Parsing'
  BY <1>1, <1>4, <1>5, <1>6 DEF Parsing, InSync
<1>9. Progress'
  BY <1>1, <1>5 DEF Progress, Hurt
<1>10. QuitFacts'
  <2>1. ASSUME yyin' = "quit" PROVE Hurt'
    BY <1>1, <1>5, <2>1 DEF Hurt
  <2>2. ASSUME yyin' = "quit", Boundary' PROVE Bad'
    <3>1. ~ (~ hit /\ ~ spoilt) /\ Tail(rest) = <<>>
      BY <1>1, <1>5, <2>2 DEF Boundary
    <3>2. ~ (cur = "END" /\ ~ hit) /\ ~ (~ spoilt /\ cur \notin OfQueue)
      BY <1>4, <1>6, <2>2, <3>1
    <3> QED
      BY <1>1, <3>1, <3>2 DEF Bad
  <2> QED
    BY <2>1, <2>2 DEF QuitFacts
<1>11. ~ Hurt => seen = "coming" /\ seen' \in {"coming", Outcome(cur)}
  BY <1>5 DEF Hurt
<1> QED
  BY <1>7, <1>8, <1>9, <1>10, <1>11 DEF MInv

(* Every step keeps the invariant.                                         *)
LEMMA NextInv == MTypes /\ MInv /\ [MonitorNext]_vars => MInv'
<1> SUFFICES ASSUME MTypes, MInv, [MonitorNext]_vars PROVE MInv'
  OBVIOUS
<1>1. CASE Lex
  BY <1>1, LexServerInv, LexDialdInv
<1>2. CASE Idle
  BY <1>2, IdleInv
<1>3. CASE \E m \in Kinds : Write(m)
  BY <1>3, WriteInv
<1>4. CASE Pause
  BY <1>4, PauseInv
<1>5. CASE Cut
  BY <1>5, CutInv
<1>6. CASE Splice
  BY <1>6, SpliceInv
<1>7. CASE UNCHANGED vars
  <2>1. UNCHANGED <<cur, rest, spliced, queueing, ctx, yyin, seen, hit, spoilt>>
    BY <1>7 DEF vars, linevars, parservars, histvars
  <2>2. QueueFacts' /\ Progress' /\ QuitFacts'
    BY <2>1 DEF MInv, QueueFacts, Progress, QuitFacts, Hurt, Boundary, Bad
  <2>3. Parsing'
    BY <2>1 DEF MInv, Parsing, InSync, TopSync, Whole, EndWhole, Quiet, AtTop, ServerPart,
                Following, Unread, Harm, Paused
  <2> QED
    BY <2>2, <2>3 DEF MInv
<1> QED
  BY <1>1, <1>2, <1>3, <1>4, <1>5, <1>6, <1>7 DEF MonitorNext

-------------------------------------------------------------------------------
(* What a token can make of diald's message.                               *)
LEMMA SeenSteps ==
    ASSUME NEW token, NEW owner, Parse(token, owner)
    PROVE  seen' = seen \/ seen' = "garbled" \/ (seen = "coming" /\ seen' = Outcome(cur))
  BY DEF Parse, Called

(* The start is one of the feed.                                           *)
LEMMA ShownInit == MonitorInit => FeedImpl!FeedInit
  BY MonitorAssumption DEF MonitorInit, FeedImpl!FeedInit, FeedImpl!Outcome, Outcome, Hurt

(* Every step of the monitor's is one of the feed or invisible there.      *)
LEMMA ShownNext == MTypes /\ MInv /\ [MonitorNext]_vars => [FeedImpl!FeedNext]_FeedImpl!feedvars
<1> SUFFICES ASSUME MTypes, MInv, [MonitorNext]_vars
             PROVE  FeedImpl!FeedNext \/ UNCHANGED FeedImpl!feedvars
  OBVIOUS
<1>0. UNCHANGED <<cur, seen, hit, spoilt>> => UNCHANGED FeedImpl!feedvars
  BY DEF FeedImpl!feedvars, Hurt
<1>1. ASSUME cur' = cur, hit' = hit, spoilt' = spoilt,
             seen' = seen \/ seen' = "garbled" \/ (seen = "coming" /\ seen' = Outcome(cur)),
             ~ Hurt => seen' = seen \/ (seen = "coming" /\ seen' = Outcome(cur))
      PROVE  FeedImpl!FeedNext \/ UNCHANGED FeedImpl!feedvars
  <2>1. Hurt' = Hurt
    BY <1>1 DEF Hurt
  <2>2. CASE seen' = seen
    BY <1>0, <1>1, <2>2
  <2>3. CASE seen' = "garbled" /\ Hurt
    <3>1. FeedImpl!Garble
      BY <1>1, <2>1, <2>3 DEF FeedImpl!Garble
    <3> QED
      BY <3>1 DEF FeedImpl!FeedNext
  <2>4. CASE seen = "coming" /\ seen' = Outcome(cur)
    <3>1. FeedImpl!Show
      BY <1>1, <2>1, <2>4 DEF FeedImpl!Show, FeedImpl!Outcome, Outcome
    <3> QED
      BY <3>1 DEF FeedImpl!FeedNext
  <2> QED
    BY <1>1, <2>2, <2>3, <2>4
<1>2. CASE Lex
  <2>1. cur' = cur /\ hit' = hit /\ spoilt' = spoilt
    BY <1>2 DEF Lex
  <2>2. seen' = seen \/ seen' = "garbled" \/ (seen = "coming" /\ seen' = Outcome(cur))
    BY <1>2, SeenSteps DEF Lex
  <2>3. ~ Hurt => seen' = seen \/ (seen = "coming" /\ seen' = Outcome(cur))
    BY <1>2, LexServerInv, LexDialdInv
  <2> QED
    BY <1>1, <2>1, <2>2, <2>3
<1>3. CASE Idle
  <2>1. cur' = cur /\ hit' = hit /\ spoilt' = spoilt
    BY <1>3 DEF Idle
  <2>2. seen' = seen \/ seen' = "garbled" \/ (seen = "coming" /\ seen' = Outcome(cur))
    BY <1>3, SeenSteps DEF Idle
  <2>3. ~ Hurt => seen' = seen \/ (seen = "coming" /\ seen' = Outcome(cur))
    BY <1>3, IdleInv
  <2> QED
    BY <1>1, <2>1, <2>2, <2>3
<1>4. ASSUME NEW m \in Kinds, Write(m) PROVE FeedImpl!FeedNext
  <2>1. m \in Kind /\ cur' = m /\ seen' = "coming" /\ rest = <<>>
    BY <1>4, MonitorAssumption DEF Write, Boundary
  <2>2. seen = FeedImpl!Outcome(cur) \/ Hurt
    BY <2>1 DEF MInv, Progress, FeedImpl!Outcome, Outcome
  <2>3. /\ Hurt' \in BOOLEAN
        /\ m \in Unreadable => Hurt'
        /\ Hurt' => Hurt \/ m \in Unreadable
    BY <1>4 DEF Write, Hurt
  <2>4. FeedImpl!Begin(m)
    BY <2>1, <2>2, <2>3 DEF FeedImpl!Begin
  <2> QED
    BY <2>1, <2>4 DEF FeedImpl!FeedNext
<1>5. ASSUME Fault, Hurt' PROVE FeedImpl!FeedNext
  <2>1. cur' = cur /\ seen' = seen /\ Hurt' = TRUE
    BY <1>5 DEF Fault, Hurt
  <2>2. FeedImpl!Damage
    BY <2>1 DEF FeedImpl!Damage
  <2> QED
    BY <2>2 DEF FeedImpl!FeedNext
<1>6. CASE Pause
  BY <1>5, <1>6 DEF Pause, Hurt
<1>7. CASE Cut
  BY <1>5, <1>7 DEF Cut, Hurt
<1>8. CASE Splice
  <2>1. CASE Hurt'
    BY <1>5, <1>8, <2>1 DEF Splice
  <2>2. CASE ~ Hurt'
    <3>1. Hurt' = FALSE /\ Hurt = FALSE
      BY <1>8, <2>2 DEF Splice, Hurt
    <3>2. cur' = cur /\ seen' = seen
      BY <1>8 DEF Splice, Fault
    <3> QED
      BY <3>1, <3>2 DEF FeedImpl!feedvars
  <2> QED
    BY <2>1, <2>2
<1>9. CASE UNCHANGED vars
  BY <1>0, <1>9 DEF vars, linevars, histvars
<1> QED
  BY <1>2, <1>3, <1>4, <1>6, <1>7, <1>8, <1>9 DEF MonitorNext

(* What always holds.                                                      *)
LEMMA MonitorInvariance == MonitorSpec => [](MTypes /\ MInv)
<1>1. MonitorInit => MTypes /\ MInv
  BY InitTypes, InitInv
<1>2. MTypes /\ MInv /\ [MonitorNext]_vars => (MTypes /\ MInv)'
  BY NextTypes, NextInv
<1> QED
  BY <1>1, <1>2, PTL DEF MonitorSpec

(* The variables keep their types and the parser's stack is always a       *)
(* place in a rule of the grammar's.                                       *)
THEOREM MonitorTypeCorrect == MonitorSpec => []MonitorTypeOK
  BY MonitorInvariance, TypesImply, PTL

(* However often the line is damaged, the parser of monitor.y is back where*)
(* diald is after the next message that is not of a queue, or after the    *)
(* next END QUEUE that arrives whole.                                      *)
THEOREM AlwaysResynchronised == MonitorSpec => []Resynchronised
<1>1. MTypes /\ MInv => Resynchronised
  <2> SUFFICES ASSUME MTypes, MInv, Boundary, yyin = "open", ~ spoilt, hit => cur \notin OfQueue
               PROVE  ctx.rule = NoRule /\ ctx.level = Lev[queueing]
    BY DEF Resynchronised, Lev
  <2>1. InSync /\ QueueFacts /\ ~ Bad
    BY DEF MInv, Parsing, Bad
  <2> QED
    BY <2>1, AtBoundary
<1> QED
  BY <1>1, MonitorInvariance, PTL

(* The program started with -q is ended by yyerror only for a message that *)
(* came in pieces, or spliced, or with the port 0, or for the rest of the  *)
(* queue such a one was in.                                                *)
THEOREM QuitsOnDamageOnly == MonitorSpec => []QuitOnDamage
<1>1. MInv => QuitOnDamage
  BY DEF MInv, QuitFacts, QuitOnDamage
<1> QED
  BY <1>1, MonitorInvariance, PTL

(* Scanner and parser implement the feed: what arrives undamaged is shown  *)
(* exactly once before the next message begins, and as what it is, but for *)
(* a packet of a protocol without a name (Misprinted); one with the port 0 *)
(* (Unreadable) counts as damage.                                          *)
THEOREM MonitorImplementsFeed == MonitorSpec => MessagesShown
  BY ShownInit, ShownNext, MonitorInvariance, PTL
     DEF MonitorSpec, MessagesShown, FeedImpl!FeedSpec
===============================================================================

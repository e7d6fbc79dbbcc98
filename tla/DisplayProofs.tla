---------------------------- MODULE DisplayProofs ----------------------------
(***************************************************************************)
(* What diald-top displays is right whatever the order of messages, keys   *)
(* and resizes, for any addresses, chains, answers of DNS and sizes.       *)
(***************************************************************************)
EXTENDS Display, SequenceFacts

(* What a record says when DNS has given name for its address.             *)
Filed(r, name) ==
    /\ r.name = IF name = "not found" THEN "number" ELSE "name"
    /\ r.trunc = truncate_hostname(name)

(* The host table and what DNS has said belong together: HostsOnce, and    *)
(* every record says what DNS said last.                                   *)
HostTable(table, names) ==
    /\ table \in [Range(hash) -> Seq(Hostrec)]
    /\ names \in [Addr -> Names \cup {Unknown}]
    /\ \A a \in Addr :
          IF names[a] = Unknown THEN probetab(table, a) = {}
          ELSE \E k \in DOMAIN table[hash[a]] : probetab(table, a) = {k}
    /\ \A b \in Range(hash) : \A k \in DOMAIN table[b] :
          /\ hash[table[b][k].addr] = b
          /\ names[table[b][k].addr] # Unknown
          /\ Filed(table[b][k], names[table[b][k].addr])

-------------------------------------------------------------------------------
(* A record that is filed is of the right type and says what DNS said.     *)
LEMMA AnsweredType ==
    ASSUME NEW a \in Addr, NEW answer \in Names, now \in Nat
    PROVE  /\ Answered(a, answer) \in Hostrec
           /\ Answered(a, answer).addr = a /\ Answered(a, answer).time_resolved = now
           /\ Filed(Answered(a, answer), answer)
BY DEF Answered, truncate_hostname, HasDomain, Hostrec, Form, Filed, Names

(* Chains and the records in them.                                         *)
LEMMA TableFacts ==
    ASSUME NEW table, NEW names, HostTable(table, names), NEW a \in Addr
    PROVE  /\ hash[a] \in Range(hash)
           /\ table[hash[a]] \in Seq(Hostrec)
           /\ DOMAIN table[hash[a]] = 1..Len(table[hash[a]])
           /\ Len(table[hash[a]]) \in Nat
           /\ \A k \in DOMAIN table[hash[a]] : table[hash[a]][k] \in Hostrec
<1>1. hash[a] \in Range(hash)
  BY DisplayAssumption DEF Range
<1>2. table[hash[a]] \in Seq(Hostrec)
  BY <1>1 DEF HostTable
<1> QED
  BY <1>1, <1>2, LenProperties, ElementOfSeq

(* gettab files an answer under its address: the record that was there is  *)
(* overwritten, a new one does not hide or double another.                 *)
LEMMA GettabFiles ==
    ASSUME NEW table, NEW names, HostTable(table, names), now \in Nat,
           NEW a \in Addr, NEW answer \in Names
    PROVE  /\ HostTable(gettab(table, a, answer), [names EXCEPT ![a] = answer])
           /\ Rec(gettab(table, a, answer), a) = Answered(a, answer)
           /\ probetab(gettab(table, a, answer), a) # {}
<1> DEFINE b0 == hash[a]
           c == table[b0]
           r == Answered(a, answer)
           t2 == gettab(table, a, answer)
           n2 == [names EXCEPT ![a] = answer]
<1>1. /\ b0 \in Range(hash) /\ c \in Seq(Hostrec) /\ DOMAIN c = 1..Len(c) /\ Len(c) \in Nat
      /\ \A k \in DOMAIN c : c[k] \in Hostrec
  BY TableFacts
<1>2. r \in Hostrec /\ r.addr = a /\ Filed(r, answer)
  BY AnsweredType
<1>3. /\ n2 \in [Addr -> Names \cup {Unknown}]
      /\ n2[a] = answer /\ n2[a] # Unknown
      /\ \A x \in Addr : x # a => n2[x] = names[x]
  BY DEF HostTable, Names, Unknown
<1>4. /\ table \in [Range(hash) -> Seq(Hostrec)]
      /\ \A b \in Range(hash) : \A k \in DOMAIN table[b] :
            /\ table[b][k] \in Hostrec
            /\ hash[table[b][k].addr] = b
            /\ names[table[b][k].addr] # Unknown
            /\ Filed(table[b][k], names[table[b][k].addr])
  <2>1. table \in [Range(hash) -> Seq(Hostrec)]
    BY DEF HostTable
  <2>2. \A b \in Range(hash) : \A k \in DOMAIN table[b] : table[b][k] \in Hostrec
    BY <2>1, LenProperties, ElementOfSeq
  <2> QED
    BY <2>1, <2>2 DEF HostTable
<1>5. \A x \in Addr : probetab(table, x) = {k \in DOMAIN table[hash[x]] : table[hash[x]][k].addr = x}
  BY DEF probetab
<1>6. \A x \in Addr : probetab(t2, x) = {k \in DOMAIN t2[hash[x]] : t2[hash[x]][k].addr = x}
  BY DEF probetab
<1>7. /\ Rec(t2, a) = t2[b0][Min(probetab(t2, a))]
      /\ Hostrec = [addr : Addr, name : Form, trunc : Form, time_resolved : Nat]
  BY DEF Rec, Hostrec
<1>8. \A x \in Addr : /\ hash[x] \in Range(hash)
                      /\ IF names[x] = Unknown THEN probetab(table, x) = {}
                         ELSE \E k \in DOMAIN table[hash[x]] : probetab(table, x) = {k}
  BY DisplayAssumption DEF HostTable, Range
<1>a. CASE probetab(table, a) = {}
  <2> DEFINE c2 == Cons(r, c)
  <2>1. t2 = [table EXCEPT ![b0] = c2]
    BY <1>a DEF gettab
  <2>2. /\ c2 \in Seq(Hostrec) /\ Len(c2) = Len(c) + 1 /\ c2[1] = r
        /\ \A j \in 2..(Len(c) + 1) : c2[j] = c[j - 1]
    <3> HIDE DEF c, r
    <3> QED
      BY <1>1, <1>2, ConsProperties
  <2>3. DOMAIN c2 = 1..(Len(c) + 1)
    BY <2>2, LenProperties
  <2>4. /\ t2 \in [Range(hash) -> Seq(Hostrec)] /\ t2[b0] = c2
        /\ \A b \in Range(hash) : b # b0 => t2[b] = table[b]
    BY <2>1, <2>2, <1>1, <1>4
  <2> HIDE DEF t2, c2, r, n2
  <2>5. \A j \in DOMAIN c2 : j = 1 \/ (j - 1 \in DOMAIN c /\ c2[j] = c[j - 1] /\ j = (j - 1) + 1)
    BY <2>2, <2>3, <1>1
  <2>6. \A j \in DOMAIN c : j + 1 \in DOMAIN c2 /\ c2[j + 1] = c[j]
    BY <2>2, <2>3, <1>1
  <2>7. probetab(t2, a) = {1}
    <3>1. 1 \in DOMAIN c2 /\ c2[1].addr = a
      BY <2>2, <2>3, <1>1, <1>2
    <3>2. \A j \in DOMAIN c2 : c2[j].addr = a => j = 1
      BY <2>5, <1>5, <1>a
    <3> QED
      BY <3>1, <3>2, <2>4, <1>6
  <2>8. ASSUME NEW x \in Addr
        PROVE  IF n2[x] = Unknown THEN probetab(t2, x) = {}
               ELSE \E k \in DOMAIN t2[hash[x]] : probetab(t2, x) = {k}
    <3>1. CASE x = a
      <4>1. 1 \in DOMAIN t2[b0]
        BY <2>3, <2>4, <1>1
      <4> QED
        BY <4>1, <3>1, <1>3, <2>7
    <3>2. CASE x # a /\ hash[x] # b0
      <4>1. t2[hash[x]] = table[hash[x]] /\ n2[x] = names[x]
        BY <3>2, <2>4, <1>3, <1>8
      <4>2. probetab(t2, x) = probetab(table, x)
        BY <4>1, <1>5, <1>6
      <4> QED
        BY <4>1, <4>2, <1>8
    <3>3. CASE x # a /\ hash[x] = b0
      <4>1. n2[x] = names[x]
        BY <3>3, <1>3
      <4>2. \A j \in DOMAIN c2 : j \in probetab(t2, x) <=> j - 1 \in probetab(table, x)
        <5>1. c2[1].addr # x /\ 0 \notin DOMAIN c
          BY <3>3, <2>2, <1>1, <1>2
        <5> SUFFICES ASSUME NEW j \in DOMAIN c2
                     PROVE  j \in probetab(t2, x) <=> j - 1 \in probetab(table, x)
          OBVIOUS
        <5>2. j \in probetab(t2, x) <=> c2[j].addr = x
          BY <3>3, <2>4, <1>6
        <5>3. j - 1 \in probetab(table, x) <=> j - 1 \in DOMAIN c /\ c[j - 1].addr = x
          BY <3>3, <1>5
        <5>4. CASE j = 1
          BY <5>1, <5>2, <5>3, <5>4
        <5>5. CASE j # 1
          BY <5>5, <5>2, <5>3, <2>5
        <5> QED
          BY <5>4, <5>5
      <4>3. /\ probetab(t2, x) \subseteq DOMAIN c2
            /\ probetab(table, x) \subseteq DOMAIN c
        BY <3>3, <2>4, <1>5, <1>6
      <4>4. CASE names[x] = Unknown
        BY <4>4, <4>1, <4>2, <4>3, <1>8
      <4>5. CASE names[x] # Unknown
        <5>1. PICK k \in DOMAIN c : probetab(table, x) = {k}
          BY <4>5, <1>8, <3>3
        <5>2. k + 1 \in DOMAIN c2 /\ (k + 1) - 1 = k
          BY <2>6, <1>1
        <5>3. \A j \in DOMAIN c2 : j - 1 = k <=> j = k + 1
          BY <2>3, <1>1
        <5>4. probetab(t2, x) = {k + 1}
          BY <5>1, <5>2, <5>3, <4>2, <4>3
        <5> QED
          BY <5>4, <5>2, <4>1, <4>5, <2>4, <3>3
      <4> QED
        BY <4>4, <4>5
    <3> QED
      BY <3>1, <3>2, <3>3
  <2>9. ASSUME NEW b \in Range(hash), NEW k \in DOMAIN t2[b]
        PROVE  /\ hash[t2[b][k].addr] = b /\ n2[t2[b][k].addr] # Unknown
               /\ Filed(t2[b][k], n2[t2[b][k].addr])
    <3>1. CASE b = b0 /\ k = 1
      BY <3>1, <2>4, <2>2, <1>2, <1>3
    <3>2. CASE b # b0
      <4>1. t2[b][k] = table[b][k] /\ k \in DOMAIN table[b]
        BY <3>2, <2>4
      <4>2. table[b][k].addr \in Addr /\ table[b][k].addr # a
        BY <4>1, <3>2, <1>4, <1>7
      <4> QED
        BY <4>1, <4>2, <1>3, <1>4
    <3>3. CASE b = b0 /\ k # 1
      <4>1. k - 1 \in DOMAIN c /\ t2[b][k] = c[k - 1]
        BY <3>3, <2>4, <2>5
      <4>2. c[k - 1].addr \in Addr /\ c[k - 1].addr # a
        BY <4>1, <1>1, <1>7, <1>5, <1>a
      <4> QED
        BY <4>1, <4>2, <1>3, <1>4, <1>1, <3>3
    <3> QED
      BY <3>1, <3>2, <3>3
  <2>10. HostTable(t2, n2)
    BY <2>4, <2>8, <2>9, <1>3 DEF HostTable
  <2>11. Rec(t2, a) = r
    <3>1. Min({1}) = 1
      BY DEF Min
    <3> QED
      BY <3>1, <2>7, <1>7, <2>4, <2>2
  <2> QED
    BY <2>7, <2>10, <2>11 DEF t2, n2, r
<1>b. CASE probetab(table, a) # {}
  <2>1. PICK k0 \in DOMAIN c : probetab(table, a) = {k0}
    BY <1>b, <1>8
  <2> DEFINE c2 == [c EXCEPT ![k0] = r]
  <2>2. t2 = [table EXCEPT ![b0] = c2]
    <3>1. Min({k0}) = k0
      BY <1>1 DEF Min
    <3> QED
      BY <1>b, <2>1, <3>1 DEF gettab
  <2>3. /\ c2 \in Seq(Hostrec) /\ DOMAIN c2 = DOMAIN c
        /\ \A j \in DOMAIN c : c2[j] = IF j = k0 THEN r ELSE c[j]
    <3> HIDE DEF c, r
    <3> QED
      BY <1>1, <1>2, <2>1, ExceptSeq
  <2>4. /\ t2 \in [Range(hash) -> Seq(Hostrec)] /\ t2[b0] = c2
        /\ \A b \in Range(hash) : b # b0 => t2[b] = table[b]
    <3> HIDE DEF t2, c2
    <3> QED
      BY <2>2, <2>3, <1>1, <1>4
  <2>5. c[k0].addr = a
    BY <2>1, <1>5
  <2> HIDE DEF t2, c2, r, n2
  <2>6. \A x \in Addr : /\ DOMAIN t2[hash[x]] = DOMAIN table[hash[x]]
                        /\ probetab(t2, x) = probetab(table, x)
    <3> SUFFICES ASSUME NEW x \in Addr
                 PROVE  /\ DOMAIN t2[hash[x]] = DOMAIN table[hash[x]]
                        /\ probetab(t2, x) = probetab(table, x)
      OBVIOUS
    <3>1. CASE hash[x] # b0
      <4>1. t2[hash[x]] = table[hash[x]]
        BY <3>1, <2>4, <1>8
      <4> QED
        BY <4>1 DEF probetab
    <3>2. CASE hash[x] = b0
      <4>1. \A j \in DOMAIN c : c2[j].addr = c[j].addr
        BY <2>3, <2>5, <1>2
      <4>2. DOMAIN t2[hash[x]] = DOMAIN table[hash[x]]
        BY <3>2, <2>3, <2>4
      <4>3. /\ probetab(t2, x) = {j \in DOMAIN c : c2[j].addr = x}
            /\ probetab(table, x) = {j \in DOMAIN c : c[j].addr = x}
        BY <3>2, <2>3, <2>4, <1>5, <1>6
      <4> QED
        BY <4>1, <4>2, <4>3
    <3> QED
      BY <3>1, <3>2
  <2>7. ASSUME NEW x \in Addr
        PROVE  IF n2[x] = Unknown THEN probetab(t2, x) = {}
               ELSE \E k \in DOMAIN t2[hash[x]] : probetab(t2, x) = {k}
    <3>1. CASE x = a
      BY <3>1, <2>6, <2>1, <1>3
    <3>2. CASE x # a
      BY <3>2, <2>6, <1>3, <1>8
    <3> QED
      BY <3>1, <3>2
  <2>8. ASSUME NEW b \in Range(hash), NEW k \in DOMAIN t2[b]
        PROVE  /\ hash[t2[b][k].addr] = b /\ n2[t2[b][k].addr] # Unknown
               /\ Filed(t2[b][k], n2[t2[b][k].addr])
    <3>1. CASE b = b0 /\ k = k0
      BY <3>1, <2>4, <2>3, <1>2, <1>3, <2>1
    <3>2. CASE b # b0
      <4>1. t2[b][k] = table[b][k] /\ k \in DOMAIN table[b]
        BY <3>2, <2>4
      <4>2. table[b][k].addr \in Addr /\ table[b][k].addr # a
        BY <4>1, <3>2, <1>4, <1>7
      <4> QED
        BY <4>1, <4>2, <1>3, <1>4
    <3>3. CASE b = b0 /\ k # k0
      <4>1. k \in DOMAIN c /\ t2[b][k] = c[k]
        BY <3>3, <2>4, <2>3
      <4>2. c[k].addr \in Addr /\ c[k].addr # a
        BY <4>1, <3>3, <1>1, <1>7, <1>5, <2>1
      <4> QED
        BY <4>1, <4>2, <1>3, <1>4, <1>1, <3>3
    <3> QED
      BY <3>1, <3>2, <3>3
  <2>9. HostTable(t2, n2)
    BY <2>4, <2>7, <2>8, <1>3 DEF HostTable
  <2>10. Rec(t2, a) = r
    <3>1. Min({k0}) = k0
      BY <1>1 DEF Min
    <3> QED
      BY <3>1, <2>6, <2>1, <1>7, <2>4, <2>3
  <2>11. probetab(t2, a) # {}
    BY <2>6, <2>1
  <2> QED
    BY <2>9, <2>10, <2>11 DEF t2, n2, r
<1> QED
  BY <1>a, <1>b

(* No address is asked for again in the second its answer was filed.       *)
LEMMA FreshNotAsked ==
    ASSUME NEW table, NEW a, now \in Nat, probetab(table, a) # {},
           Rec(table, a).time_resolved = now
    PROVE  ~ Asks(table, a)
<1>1. HOSTREC_EXPIRE \in Nat
  BY DisplayAssumption
<1>2. ~ (now - Rec(table, a).time_resolved > HOSTREC_EXPIRE)
  BY <1>1
<1> QED
  BY <1>2 DEF Asks

(* A record of the table is shown as DNS named its host last.              *)
LEMMA ShownAgrees ==
    ASSUME NEW table, NEW names, HostTable(table, names), NEW a \in Addr
    PROVE  Shown(table, a) \in Form /\ Agrees(Shown(table, a), names[a])
<1>1. CASE numeric \/ probetab(table, a) = {}
  <2>1. Shown(table, a) = "number"
    BY <1>1 DEF Shown
  <2> QED
    BY <2>1 DEF Form, Agrees
<1>2. CASE ~ numeric /\ probetab(table, a) # {}
  <2> DEFINE c == table[hash[a]]
  <2>1. PICK k \in DOMAIN c : probetab(table, a) = {k}
    BY <1>2 DEF HostTable
  <2>2. c[k].addr = a
    BY <2>1 DEF probetab
  <2>3. names[a] # Unknown /\ names[a] \in Names /\ Filed(c[k], names[a])
    <3>1. hash[a] \in Range(hash)
      BY TableFacts
    <3>2. names[a] # Unknown /\ Filed(c[k], names[a])
      BY <2>2, <3>1 DEF HostTable
    <3>3. names[a] \in Names \cup {Unknown}
      BY DEF HostTable
    <3> QED
      BY <3>2, <3>3
  <2>4. Rec(table, a) = c[k]
    <3>1. k \in Int
      BY TableFacts
    <3>2. Min({k}) = k
      BY <3>1 DEF Min
    <3> QED
      BY <2>1, <3>2 DEF Rec
  <2>5. Shown(table, a) = IF trunc_local_hosts THEN c[k].trunc ELSE c[k].name
    BY <1>2, <2>4 DEF Shown
  <2> QED
    BY <2>3, <2>5 DEF Filed, Agrees, truncate_hostname, HasDomain, Names, Form
<1> QED
  BY <1>1, <1>2

(* resolve keeps the table and what DNS said together, and returns a form  *)
(* that agrees with it.  When it has filed an answer it does not ask for   *)
(* the same address at once again, so what it returned stays true.         *)
LEMMA ResolveAgrees ==
    ASSUME NEW table, NEW names, HostTable(table, names), now \in Nat,
           NEW a \in Addr, NEW answer \in Answers
    PROVE  /\ HostTable(resolve(table, a, answer).table, Said(table, a, answer, names))
           /\ resolve(table, a, answer).shown \in Form
           /\ Agrees(resolve(table, a, answer).shown, Said(table, a, answer, names)[a])
           /\ \/ resolve(table, a, answer).shown = "number"
              \/ ~ Asks(resolve(table, a, answer).table, a)
           /\ \A x \in Addr \ {a} : Said(table, a, answer, names)[x] = names[x]
<1> DEFINE res == resolve(table, a, answer)
           n2 == Said(table, a, answer, names)
<1>1. CASE ~ Asks(table, a)
  <2>1. res.table = table /\ res.shown = Shown(table, a) /\ n2 = names
    BY <1>1 DEF resolve, Said
  <2> QED
    BY <2>1, <1>1, ShownAgrees
<1>2. CASE Asks(table, a) /\ answer = "try again"
  <2>1. res.table = table /\ res.shown = "number" /\ n2 = names
    BY <1>2 DEF resolve, Said
  <2> QED
    BY <2>1 DEF Form, Agrees
<1>3. CASE Asks(table, a) /\ answer # "try again"
  <2> DEFINE filed == gettab(table, a, answer)
  <2>1. answer \in Names
    BY <1>3, DisplayAssumption
  <2>2. /\ res.table = filed /\ res.shown = Shown(filed, a)
        /\ n2 = [names EXCEPT ![a] = answer]
    BY <1>3 DEF resolve, Said
  <2>3. /\ HostTable(filed, n2) /\ Rec(filed, a) = Answered(a, answer)
        /\ probetab(filed, a) # {}
    <3> HIDE DEF res, n2
    <3> QED
      BY <2>1, <2>2, GettabFiles
  <2>4. ~ Asks(filed, a)
    <3> HIDE DEF filed
    <3>1. Answered(a, answer).time_resolved = now
      BY <2>1, AnsweredType
    <3> QED
      BY <3>1, <2>3, FreshNotAsked
  <2>5. \A x \in Addr \ {a} : n2[x] = names[x]
    BY <2>2 DEF HostTable
  <2>6. Shown(filed, a) \in Form /\ Agrees(Shown(filed, a), n2[a])
    <3> HIDE DEF filed, n2
    <3> QED
      BY <2>3, ShownAgrees
  <2> HIDE DEF filed, n2, res
  <2>7. /\ HostTable(res.table, n2) /\ res.shown \in Form /\ Agrees(res.shown, n2[a])
        /\ ~ Asks(res.table, a)
    BY <2>2, <2>3, <2>4, <2>6
  <2> QED
    BY <2>5, <2>7 DEF res, n2
<1> QED
  BY <1>1, <1>2, <1>3

(* Both addresses of a packet, in whichever order: the second answer does  *)
(* not make the first line wrong, not even for the same address.           *)
LEMMA ResolveTwice ==
    ASSUME HostTable(hosthash, said), now \in Nat,
           NEW a \in Addr, NEW b \in Addr, NEW answera \in Answers, NEW answerb \in Answers,
           NEW first, first = resolve(hosthash, a, answera),
           NEW second, second = resolve(first.table, b, answerb),
           NEW names, names = Said(first.table, b, answerb, Said(hosthash, a, answera, said))
    PROVE  /\ HostTable(second.table, names)
           /\ first.shown \in Form /\ second.shown \in Form
           /\ Agrees(first.shown, names[a]) /\ Agrees(second.shown, names[b])
<1> DEFINE n1 == Said(hosthash, a, answera, said)
<1>1. /\ HostTable(first.table, n1) /\ first.shown \in Form /\ Agrees(first.shown, n1[a])
      /\ first.shown = "number" \/ ~ Asks(first.table, a)
  BY ResolveAgrees
<1> HIDE DEF n1
<1>2. /\ HostTable(second.table, names) /\ second.shown \in Form
      /\ Agrees(second.shown, names[b])
      /\ \A x \in Addr \ {b} : names[x] = n1[x]
  <2> DEFINE table == first.table
             res == resolve(table, b, answerb)
             n2 == Said(table, b, answerb, n1)
  <2>1. names = n2 /\ second = res
    BY DEF n1
  <2> HIDE DEF table
  <2>2. HostTable(table, n1)
    BY <1>1 DEF table
  <2>3. /\ HostTable(res.table, n2) /\ res.shown \in Form /\ Agrees(res.shown, n2[b])
        /\ \A x \in Addr \ {b} : n2[x] = n1[x]
    BY <2>2, ResolveAgrees
  <2> QED
    BY <2>1, <2>3
<1>3. Agrees(first.shown, names[a])
  <2>1. CASE first.shown = "number"
    BY <2>1 DEF Agrees
  <2>2. CASE a # b
    BY <2>2, <1>1, <1>2
  <2>3. CASE a = b /\ ~ Asks(first.table, a)
    BY <2>3, <1>1 DEF Said, n1
  <2> QED
    BY <2>1, <2>2, <2>3, <1>1
<1> QED
  BY <1>1, <1>2, <1>3
-------------------------------------------------------------------------------
(* The inductive invariant: what the theorems below state, and what the    *)
(* steps rely on.  numbuff follows LINES, the part a resize wiped out has  *)
(* been read, and curr_state is forgotten but never wrong.                 *)
DisplayInv ==
    /\ DisplayTypeOK
    /\ LINES \in Height /\ numbuff = Buffers(LINES)
    /\ scrbuff = [k \in DOMAIN scrbuff |-> scrbuff[k]]
    /\ lost <= count
    /\ ListingFaithful
    /\ HostTable(hosthash, said)
    /\ curr_state = NoState \/ curr_state = last_state

(* screen_init allocates a line more than the terminal has, unless that is *)
(* more than the array has place for.                                      *)
LEMMA BuffersFit ==
    ASSUME NEW h \in Height
    PROVE  /\ h \in Nat /\ MAXBUFS \in Nat /\ Buffers(h) \in 0..MAXBUFS
           /\ Buffers(h) = h + 1 \/ (Buffers(h) = MAXBUFS /\ MAXBUFS <= h + 1)
<1>1. h \in Nat /\ MAXBUFS \in Nat
  BY DisplayAssumption
<1>2. /\ Min({h + 1, MAXBUFS}) \in {h + 1, MAXBUFS}
      /\ \A x \in {h + 1, MAXBUFS} : Min({h + 1, MAXBUFS}) <= x
  <2>1. {h + 1, MAXBUFS} \in SUBSET Nat /\ {h + 1, MAXBUFS} # {}
    BY <1>1
  <2> QED
    BY <2>1, MinExists
<1> QED
  BY <1>1, <1>2 DEF Buffers

(* The program starts with an empty list and an empty table.               *)
LEMMA DisplayInitInv ==
    ASSUME NEW h \in Height, DisplayInit(h), numeric \in BOOLEAN, trunc_local_hosts \in BOOLEAN
    PROVE  DisplayInv
<1>1. h \in Nat /\ Buffers(h) \in 0..MAXBUFS
  BY BuffersFit
<1>2. /\ LINES = h /\ numbuff = Buffers(h) /\ wild = FALSE
      /\ scrbuff = [k \in DOMAIN scrbuff |-> scrbuff[k]]
      /\ DOMAIN scrbuff = 0..numbuff - 1 /\ \A k \in DOMAIN scrbuff : scrbuff[k] = Blank
      /\ count = 0 /\ listed = <<>> /\ lost = 0 /\ now = 0
      /\ curr_state \in LinkStates \cup {NoState} /\ curr_state = last_state
  BY <1>1 DEF DisplayInit
<1>3. HostTable(hosthash, said)
  <2>1. \A a \in Addr : hash[a] \in Range(hash)
    BY DisplayAssumption DEF Range
  <2>2. /\ hosthash \in [Range(hash) -> Seq(Hostrec)]
        /\ \A b \in Range(hash) : hosthash[b] = <<>>
    <3>1. hosthash = [b \in Range(hash) |-> <<>>]
      BY DEF DisplayInit
    <3>2. <<>> \in Seq(Hostrec)
      OBVIOUS
    <3> QED
      BY <3>1, <3>2
  <2>3. \A b \in Range(hash) : DOMAIN hosthash[b] = {}
    <3>1. DOMAIN <<>> = {}
      OBVIOUS
    <3> QED
      BY <2>2, <3>1
  <2>4. \A a \in Addr : probetab(hosthash, a) = {}
    BY <2>1, <2>3 DEF probetab
  <2>5. said \in [Addr -> Names \cup {Unknown}] /\ \A a \in Addr : said[a] = Unknown
    BY DEF DisplayInit
  <2> QED
    BY <2>2, <2>3, <2>4, <2>5 DEF HostTable
<1>4. DisplayTypeOK
  <2>1. rxload \in [1..3 -> Nat] /\ txload \in [1..3 -> Nat]
    BY DEF DisplayInit
  <2>2. listed \in Seq(Packet)
    BY <1>2
  <2> QED
    BY <1>1, <1>2, <1>3, <2>1, <2>2 DEF DisplayTypeOK, HostTable
<1>5. ListingFaithful
  <2>1. Len(listed) = 0
    BY <1>2
  <2>2. \A k \in DOMAIN scrbuff : scrbuff[k] = Blank /\ ~ (lost <= k /\ k < count)
    BY <1>1, <1>2
  <2> QED
    BY <1>2, <2>1, <2>2 DEF ListingFaithful
<1>6. lost <= count
  BY <1>2
<1> QED
  BY <1>2, <1>3, <1>4, <1>5, <1>6 DEF DisplayInv

(* The numbers of the invariant, and when an index is outside of scrbuff.  *)
LEMMA InvArithmetic ==
    ASSUME DisplayInv
    PROVE  /\ LINES \in Nat /\ HEAD_LINES \in Nat /\ count \in Nat /\ lost \in Nat
           /\ DOMAIN scrbuff = 0..numbuff - 1 /\ DOMAIN scrbuff \subseteq Nat
           /\ numbuff >= MAXBUFS => LINES >= MAXBUFS - 1
           /\ count <= LINES - HEAD_LINES /\ count \notin DOMAIN scrbuff => LINES >= MAXBUFS - 1
<1>1. /\ LINES \in Nat /\ MAXBUFS \in Nat /\ HEAD_LINES \in Nat
      /\ numbuff = LINES + 1 \/ (numbuff = MAXBUFS /\ MAXBUFS <= LINES + 1)
  BY BuffersFit, DisplayAssumption DEF DisplayInv
<1>2. /\ count \in Nat /\ lost \in Nat /\ DOMAIN scrbuff = 0..numbuff - 1
  BY DEF DisplayInv, DisplayTypeOK
<1> QED
  BY <1>1, <1>2

(* STATE, LOAD and the keys leave the list and the host table alone.       *)
LEMMA StateInv ==
    ASSUME DisplayInv, NEW s \in LinkStates, do_state(s)
    PROVE  DisplayInv'
<1>1. /\ UNCHANGED <<bufvars, loadvars, hostvars, optvars, queuevars>>
      /\ curr_state' = s /\ last_state' = s
  BY DEF do_state
<1>2. DisplayTypeOK'
  BY <1>1 DEF DisplayInv, DisplayTypeOK, bufvars, loadvars, hostvars, optvars, queuevars
<1>3. ListingFaithful'
  BY <1>1 DEF DisplayInv, ListingFaithful, bufvars, queuevars
<1>4. HostTable(hosthash, said)'
  BY <1>1 DEF DisplayInv, hostvars
<1> QED
  BY <1>1, <1>2, <1>3, <1>4 DEF DisplayInv, bufvars, queuevars

(* LOAD replaces the oldest of the last three.                             *)
LEMMA LoadInv ==
    ASSUME DisplayInv, NEW l \in Loads, do_load(l)
    PROVE  DisplayInv'
<1>1. UNCHANGED <<bufvars, curr_state, last_state, hostvars, optvars, queuevars>>
  BY DEF do_load
<1>2. rxload' \in [1..3 -> Nat] /\ txload' \in [1..3 -> Nat]
  <2>1. l[1] \in Nat /\ l[2] \in Nat
    BY DisplayAssumption
  <2>2. rxload[2] \in Nat /\ rxload[3] \in Nat /\ txload[2] \in Nat /\ txload[3] \in Nat
    BY DEF DisplayInv, DisplayTypeOK
  <2> QED
    BY <2>1, <2>2 DEF do_load
<1>3. DisplayTypeOK'
  BY <1>1, <1>2 DEF DisplayInv, DisplayTypeOK, bufvars, hostvars, optvars, queuevars
<1>4. ListingFaithful'
  BY <1>1 DEF DisplayInv, ListingFaithful, bufvars, queuevars
<1>5. HostTable(hosthash, said)'
  BY <1>1 DEF DisplayInv, hostvars
<1> QED
  BY <1>1, <1>3, <1>4, <1>5 DEF DisplayInv, bufvars, queuevars

(* The keys n and l only change how later lines are shown.                 *)
LEMMA ToggleInv ==
    ASSUME DisplayInv, toggle_numeric \/ toggle_trunc
    PROVE  DisplayInv'
<1>1. /\ UNCHANGED <<bufvars, curr_state, last_state, loadvars, hostvars, queuevars>>
      /\ numeric' \in BOOLEAN /\ trunc_local_hosts' \in BOOLEAN
  BY DEF toggle_numeric, toggle_trunc, DisplayInv, DisplayTypeOK
<1>2. DisplayTypeOK'
  BY <1>1 DEF DisplayInv, DisplayTypeOK, bufvars, loadvars, hostvars, queuevars
<1>3. ListingFaithful'
  BY <1>1 DEF DisplayInv, ListingFaithful, bufvars, queuevars
<1>4. HostTable(hosthash, said)'
  BY <1>1 DEF DisplayInv, hostvars
<1> QED
  BY <1>1, <1>2, <1>3, <1>4 DEF DisplayInv, bufvars, queuevars

(* QUEUE empties the list: no line of the queue before is left.            *)
LEMMA QueueInv ==
    ASSUME DisplayInv, NEW time \in Nat, do_queue(time)
    PROVE  DisplayInv'
<1>1. /\ UNCHANGED <<LINES, numbuff, wild, curr_state, last_state, loadvars, hostvars, optvars>>
      /\ scrbuff' = [k \in DOMAIN scrbuff' |-> scrbuff'[k]]
      /\ now' = time /\ count' = 0 /\ listed' = <<>> /\ lost' = 0
      /\ DOMAIN scrbuff' = DOMAIN scrbuff /\ \A k \in DOMAIN scrbuff' : scrbuff'[k] = Blank
  BY DEF do_queue
<1>2. DisplayTypeOK'
  <2>1. listed' \in Seq(Packet)
    BY <1>1
  <2> QED
    BY <1>1, <2>1 DEF DisplayInv, DisplayTypeOK, loadvars, hostvars, optvars
<1>3. ListingFaithful'
  <2>1. Len(listed') = 0
    BY <1>1
  <2>2. \A k \in DOMAIN scrbuff' : ~ (lost' <= k /\ k < count')
    BY <1>1 DEF DisplayInv, DisplayTypeOK
  <2> QED
    BY <1>1, <2>1, <2>2 DEF ListingFaithful
<1>4. HostTable(hosthash, said)'
  BY <1>1 DEF DisplayInv, hostvars
<1>5. lost' <= count'
  BY <1>1
<1> QED
  BY <1>1, <1>2, <1>3, <1>4, <1>5 DEF DisplayInv

(* A resize makes LINES and numbuff move together, and blanks what had     *)
(* been listed so far.                                                     *)
LEMMA ResizeInv ==
    ASSUME DisplayInv, NEW h \in Height, do_screen_resize(h)
    PROVE  DisplayInv'
<1>1. h \in Nat /\ Buffers(h) \in 0..MAXBUFS
  BY BuffersFit
<1>2. /\ UNCHANGED <<last_state, loadvars, hostvars, optvars, now, count, listed>>
      /\ LINES' = h /\ numbuff' = Buffers(h) /\ lost' = count /\ wild' \in BOOLEAN
      /\ scrbuff' = [k \in DOMAIN scrbuff' |-> scrbuff'[k]] 
      /\ curr_state' = NoState
      /\ DOMAIN scrbuff' = 0..numbuff' - 1
      /\ \A k \in DOMAIN scrbuff' : scrbuff'[k] = Blank
  BY <1>1 DEF do_screen_resize, screen_init, DisplayInv, DisplayTypeOK
<1>3. count \in Nat
  BY DEF DisplayInv, DisplayTypeOK
<1>4. DisplayTypeOK'
  BY <1>1, <1>2, <1>3 DEF DisplayInv, DisplayTypeOK, loadvars, hostvars, optvars
<1>5. ListingFaithful'
  <2>1. \A k \in DOMAIN scrbuff' : ~ (lost' <= k /\ k < count')
    BY <1>1, <1>2, <1>3
  <2>2. count' = Len(listed')
    BY <1>2 DEF DisplayInv, ListingFaithful
  <2> QED
    BY <1>2, <2>1, <2>2 DEF ListingFaithful
<1>6. HostTable(hosthash, said)'
  BY <1>2 DEF DisplayInv, hostvars
<1> QED
  BY <1>2, <1>3, <1>4, <1>5, <1>6 DEF DisplayInv

(* The list with the packet p in line count, if scrbuff has such a line.   *)
Written(p, s1, s2) ==
    [k \in DOMAIN scrbuff |-> IF k = count THEN [packet |-> p, shown |-> <<s1, s2>>] ELSE scrbuff[k]]

(* What PACKET does to the list and the host table: the line written, if   *)
(* there is one, has both forms as DNS named the hosts last.               *)
LEMMA PacketStep ==
    ASSUME DisplayInv, NEW p \in Packet, NEW a1 \in Answers, NEW a2 \in Answers,
           do_packet(p, a1, a2)
    PROVE  /\ UNCHANGED <<LINES, numbuff, curr_state, last_state, loadvars, optvars, now, lost>>
           /\ count' = count + 1 /\ listed' = Append(listed, p)
           /\ HostTable(hosthash', said')
           /\ IF count <= LINES - HEAD_LINES
              THEN /\ wild' = (wild \/ count \notin DOMAIN scrbuff)
                   /\ \E s1, s2 \in Form :
                         /\ scrbuff' = Written(p, s1, s2)
                         /\ Agrees(s1, said'[p[1]]) /\ Agrees(s2, said'[p[2]])
              ELSE scrbuff' = scrbuff /\ wild' = wild /\ said' = said
<1>1. /\ UNCHANGED <<LINES, numbuff, curr_state, last_state, loadvars, optvars, now, lost>>
      /\ count' = count + 1 /\ listed' = Append(listed, p)
  BY DEF do_packet
<1>2. p[1] \in Addr /\ p[2] \in Addr
  BY DisplayAssumption
<1>3. HostTable(hosthash, said) /\ now \in Nat
  BY DEF DisplayInv, DisplayTypeOK
<1>4. CASE count <= LINES - HEAD_LINES
  <2> DEFINE answer == <<a1, a2>>
             first(x) == resolve(hosthash, p[x], answer[x])
             second(x, y) == resolve(first(x).table, p[y], answer[y])
             names(x, y) == Said(first(x).table, p[y], answer[y],
                                 Said(hosthash, p[x], answer[x], said))
             row(x, y) == [packet |-> p,
                           shown |-> IF x = 1 THEN <<first(x).shown, second(x, y).shown>>
                                     ELSE <<second(x, y).shown, first(x).shown>>]
  <2>1. wild' = (wild \/ count \notin DOMAIN scrbuff)
    BY <1>4, Zenon DEF do_packet
  <2>2. PICK order \in {<<1, 2>>, <<2, 1>>} :
            /\ scrbuff' = [k \in DOMAIN scrbuff |-> IF k = count THEN row(order[1], order[2])
                                                                ELSE scrbuff[k]]
            /\ hosthash' = second(order[1], order[2]).table
            /\ said' = names(order[1], order[2])
    BY <1>4, Zenon DEF do_packet
  <2>3. ASSUME NEW x \in {1, 2}, NEW y \in {1, 2}
        PROVE  /\ HostTable(second(x, y).table, names(x, y))
               /\ first(x).shown \in Form /\ second(x, y).shown \in Form
               /\ Agrees(first(x).shown, names(x, y)[p[x]])
               /\ Agrees(second(x, y).shown, names(x, y)[p[y]])
    <3>1. p[x] \in Addr /\ p[y] \in Addr /\ answer[x] \in Answers /\ answer[y] \in Answers
      BY <1>2
    <3> HIDE DEF answer
    <3> QED
      BY <3>1, <1>3, ResolveTwice
  <2>6. /\ row(1, 2) = [packet |-> p, shown |-> <<first(1).shown, second(1, 2).shown>>]
        /\ row(2, 1) = [packet |-> p, shown |-> <<second(2, 1).shown, first(2).shown>>]
    BY DEF row
  <2> HIDE DEF first, second, names, answer, row
  <2>4. CASE order = <<1, 2>>
    <3>1. order[1] = 1 /\ order[2] = 2
      BY <2>4
    <3>2. /\ scrbuff' = Written(p, first(1).shown, second(1, 2).shown)
          /\ hosthash' = second(1, 2).table /\ said' = names(1, 2)
      BY <2>2, <2>6, <3>1 DEF Written
    <3> QED
      BY <1>1, <1>4, <2>1, <2>3, <3>2
  <2>5. CASE order = <<2, 1>>
    <3>1. order[1] = 2 /\ order[2] = 1
      BY <2>5
    <3>2. /\ scrbuff' = Written(p, second(2, 1).shown, first(2).shown)
          /\ hosthash' = second(2, 1).table /\ said' = names(2, 1)
      BY <2>2, <2>6, <3>1 DEF Written
    <3> QED
      BY <1>1, <1>4, <2>1, <2>3, <3>2
  <2> QED
    BY <2>4, <2>5
<1>5. CASE ~ (count <= LINES - HEAD_LINES)
  BY <1>1, <1>3, <1>5 DEF do_packet, hostvars
<1> QED
  BY <1>4, <1>5

(* PACKET adds a line for the packet that was sent, if there is place.     *)
LEMMA PacketInv ==
    ASSUME DisplayInv, NEW p \in Packet, NEW a1 \in Answers, NEW a2 \in Answers,
           do_packet(p, a1, a2)
    PROVE  DisplayInv'
<1>1. /\ UNCHANGED <<LINES, numbuff, curr_state, last_state, loadvars, optvars, now, lost>>
      /\ count' = count + 1 /\ listed' = Append(listed, p)
      /\ HostTable(hosthash', said')
  BY PacketStep
<1>2. /\ count \in Nat /\ lost \in Nat /\ LINES \in Nat /\ HEAD_LINES \in Nat
      /\ count = Len(listed) /\ listed \in Seq(Packet) /\ lost <= count
      /\ DOMAIN scrbuff = 0..numbuff - 1 /\ DOMAIN scrbuff \subseteq Nat
  BY InvArithmetic DEF DisplayInv, DisplayTypeOK, ListingFaithful
<1>3. /\ listed' \in Seq(Packet) /\ Len(listed') = count + 1
      /\ \A k \in 1..count : listed'[k] = listed[k]
      /\ listed'[count + 1] = p
  BY <1>1, <1>2, AppendProperties
<1>4. CASE count <= LINES - HEAD_LINES
  <2>1. PICK s1 \in Form, s2 \in Form : scrbuff' = Written(p, s1, s2)
    BY <1>4, PacketStep
  <2> DEFINE row == [packet |-> p, shown |-> <<s1, s2>>]
  <2>2. row \in Row /\ row.packet = p
    BY DEF Row
  <2>3. row # Blank
    <3>1. "packet" \in DOMAIN row /\ DOMAIN Blank = {}
      BY DEF Blank
    <3> HIDE DEF row
    <3> QED
      BY <3>1
  <2>4. /\ DOMAIN scrbuff' = DOMAIN scrbuff
        /\ \A k \in DOMAIN scrbuff : scrbuff'[k] = IF k = count THEN row ELSE scrbuff[k]
        /\ scrbuff' = [k \in DOMAIN scrbuff' |-> scrbuff'[k]]
        /\ wild' \in BOOLEAN
    BY <2>1, <1>4, PacketStep DEF Written, DisplayInv, DisplayTypeOK
  <2> HIDE DEF row
  <2>5. DisplayTypeOK'
    <3>1. \A k \in DOMAIN scrbuff' : scrbuff'[k] = Blank \/ scrbuff'[k] \in Row
      BY <2>2, <2>4 DEF DisplayInv, DisplayTypeOK
    <3>2. count' \in Nat
      BY <1>1, <1>2
    <3> QED
      BY <1>1, <1>3, <2>4, <3>1, <3>2 DEF DisplayInv, DisplayTypeOK, HostTable, loadvars, optvars
  <2>6. ASSUME NEW k \in DOMAIN scrbuff'
        PROVE  IF lost' <= k /\ k < count' /\ k <= LINES' - HEAD_LINES
               THEN scrbuff'[k] # Blank /\ scrbuff'[k].packet = listed'[k + 1]
               ELSE scrbuff'[k] = Blank
    <3>1. k \in Nat /\ lost' = lost /\ count' = count + 1 /\ LINES' = LINES
      BY <1>1, <1>2, <2>4
    <3>2. CASE k = count
      BY <3>1, <3>2, <1>2, <1>3, <1>4, <2>2, <2>3, <2>4
    <3>3. CASE k # count
      <4>1. scrbuff'[k] = scrbuff[k] /\ k \in DOMAIN scrbuff
        BY <3>3, <2>4
      <4>2. k < count' <=> k < count
        BY <3>1, <3>3, <1>2
      <4>3. k < count => listed'[k + 1] = listed[k + 1]
        BY <3>1, <1>2, <1>3
      <4> QED
        BY <3>1, <4>1, <4>2, <4>3 DEF DisplayInv, ListingFaithful
    <3> QED
      BY <3>2, <3>3
  <2>7. ListingFaithful'
    BY <2>6, <1>1, <1>3 DEF ListingFaithful
  <2> QED
    BY <1>1, <1>2, <2>4, <2>5, <2>7 DEF DisplayInv
<1>5. CASE ~ (count <= LINES - HEAD_LINES)
  <2>1. scrbuff' = scrbuff /\ wild' = wild /\ said' = said
    BY <1>5, PacketStep
  <2>2. DisplayTypeOK'
    <3>1. count' \in Nat
      BY <1>1, <1>2
    <3> QED
      BY <1>1, <1>3, <2>1, <3>1 DEF DisplayInv, DisplayTypeOK, HostTable, loadvars, optvars
  <2>3. ASSUME NEW k \in DOMAIN scrbuff'
        PROVE  IF lost' <= k /\ k < count' /\ k <= LINES' - HEAD_LINES
               THEN scrbuff'[k] # Blank /\ scrbuff'[k].packet = listed'[k + 1]
               ELSE scrbuff'[k] = Blank
    <3>1. k \in Nat /\ lost' = lost /\ count' = count + 1 /\ LINES' = LINES
      BY <1>1, <1>2, <2>1
    <3>2. k < count' /\ k <= LINES' - HEAD_LINES <=> k < count /\ k <= LINES - HEAD_LINES
      BY <3>1, <1>2, <1>5
    <3>3. k < count => listed'[k + 1] = listed[k + 1]
      BY <3>1, <1>2, <1>3
    <3> QED
      BY <3>1, <3>2, <3>3, <2>1 DEF DisplayInv, ListingFaithful
  <2>4. ListingFaithful'
    BY <2>3, <1>1, <1>3 DEF ListingFaithful
  <2> QED
    BY <1>1, <1>2, <2>1, <2>2, <2>4 DEF DisplayInv
<1> QED
  BY <1>4, <1>5
-------------------------------------------------------------------------------
(* Every step of the display keeps the invariant.                          *)
LEMMA DisplayNextInv == DisplayInv /\ [DisplayNext]_dispvars => DisplayInv'
<1> SUFFICES ASSUME DisplayInv, [DisplayNext]_dispvars
             PROVE  DisplayInv'
  OBVIOUS
<1>1. CASE \E s \in LinkStates : do_state(s)
  BY <1>1, StateInv
<1>2. CASE \E l \in Loads : do_load(l)
  BY <1>2, LoadInv
<1>3. CASE \E time \in Nat : do_queue(time)
  BY <1>3, QueueInv
<1>4. CASE \E p \in Packet, a1, a2 \in Answers : do_packet(p, a1, a2)
  BY <1>4, PacketInv
<1>5. CASE \E h \in Height : do_screen_resize(h)
  BY <1>5, ResizeInv
<1>6. CASE toggle_numeric \/ toggle_trunc
  BY <1>6, ToggleInv
<1>7. CASE UNCHANGED dispvars
  <2>1. UNCHANGED <<LINES, numbuff, scrbuff, wild, curr_state, last_state, rxload, txload, hosthash,
                    said, numeric, trunc_local_hosts, now, count, listed, lost>>
    BY <1>7 DEF dispvars, bufvars, loadvars, hostvars, optvars, queuevars
  <2>2. DisplayTypeOK'
    BY <2>1 DEF DisplayInv, DisplayTypeOK
  <2>3. ListingFaithful'
    BY <2>1 DEF DisplayInv, ListingFaithful
  <2>4. HostTable(hosthash, said)'
    BY <2>1 DEF DisplayInv
  <2> QED
    BY <2>1, <2>2, <2>3, <2>4 DEF DisplayInv
<1> QED
  BY <1>1, <1>2, <1>3, <1>4, <1>5, <1>6, <1>7 DEF DisplayNext

(* The invariant holds in every behaviour of the display.                  *)
THEOREM DisplayInvariance == DisplaySpec => []DisplayInv
<1>1. (\E h \in Height : DisplayInit(h)) /\ numeric \in BOOLEAN /\ trunc_local_hosts \in BOOLEAN
         => DisplayInv
  BY DisplayInitInv
<1> QED
  BY <1>1, DisplayNextInv, PTL DEF DisplaySpec

(* What a step does to wild, and where.                                    *)
LEMMA WildStep ==
    ASSUME DisplayInv, [DisplayNext]_dispvars, wild' # wild
    PROVE  LINES >= MAXBUFS - 1
<1>0. wild \in BOOLEAN /\ wild' # wild
  BY DEF DisplayInv, DisplayTypeOK
<1>1. CASE \E h \in Height : do_screen_resize(h)
  <2>1. wild' = (wild \/ numbuff >= MAXBUFS)
    BY <1>1 DEF do_screen_resize
  <2>2. numbuff >= MAXBUFS
    BY <2>1, <1>0, Zenon
  <2> QED
    BY <2>2, InvArithmetic
<1>2. CASE \E p \in Packet, a1, a2 \in Answers : do_packet(p, a1, a2)
  <2>1. IF count <= LINES - HEAD_LINES
        THEN wild' = (wild \/ count \notin DOMAIN scrbuff) ELSE wild' = wild
    BY <1>2, PacketStep
  <2>2. count <= LINES - HEAD_LINES /\ count \notin DOMAIN scrbuff
    BY <2>1, <1>0, Zenon
  <2> QED
    BY <2>2, InvArithmetic
<1> QED
  BY <1>0, <1>1, <1>2 DEF DisplayNext, dispvars, bufvars, do_state, do_load, do_queue,
                    toggle_numeric, toggle_trunc

(* No index do_packet or do_screen_resize forms is outside what screen.c   *)
(* has allocated, whatever packets and sizes follow each other, as long as *)
(* the terminal is not as high as the array is long.                       *)
THEOREM RowsAlwaysContained == DisplaySpec => RowsContained
<1>1. DisplayInv /\ [DisplayNext]_dispvars => [wild' # wild => LINES >= MAXBUFS - 1]_dispvars
  BY WildStep
<1> QED
  BY <1>1, DisplayInvariance, PTL DEF DisplaySpec, RowsContained

(* The list on the screen is the queue diald sent last, across any mix of  *)
(* QUEUE, PACKET and resizes.                                              *)
THEOREM ListingCorrect == DisplaySpec => []ListingFaithful
<1>1. DisplayInv => ListingFaithful
  BY DEF DisplayInv
<1> QED
  BY <1>1, DisplayInvariance, PTL

(* gettab and probetab keep one record per address DNS has told about, in  *)
(* the chain of its hash, whatever collides.                               *)
THEOREM HostsFiledOnce == DisplaySpec => []HostsOnce
<1>1. ASSUME DisplayInv PROVE HostsOnce
  <2>1. HostTable(hosthash, said)
    BY <1>1 DEF DisplayInv
  <2>2. ASSUME NEW a \in Addr
        PROVE  Cardinality(probetab(hosthash, a)) = IF said[a] = Unknown THEN 0 ELSE 1
    <3>1. CASE said[a] = Unknown
      BY <3>1, <2>1, FS_EmptySet DEF HostTable
    <3>2. CASE said[a] # Unknown
      <4>1. PICK k : probetab(hosthash, a) = {k}
        BY <3>2, <2>1 DEF HostTable
      <4> QED
        BY <4>1, <3>2, FS_Singleton
    <3> QED
      BY <3>1, <3>2
  <2>3. \A b \in DOMAIN hosthash : \A k \in DOMAIN hosthash[b] : hash[hosthash[b][k].addr] = b
    BY <2>1 DEF HostTable
  <2> QED
    BY <2>2, <2>3 DEF HostsOnce
<1> QED
  BY <1>1, DisplayInvariance, PTL

(* A line that is written names both hosts as DNS named them last: the     *)
(* answer for the second address does not overtake the first.              *)
LEMMA NamesStep ==
    ASSUME DisplayInv, [DisplayNext]_dispvars, count' = count + 1, scrbuff' # scrbuff
    PROVE  \A j \in 1..2 : Agrees(scrbuff'[count].shown[j], said'[scrbuff'[count].packet[j]])
<1>1. count \in Nat /\ count' # count /\ count' # 0
  BY InvArithmetic
<1>2. PICK p \in Packet, a1 \in Answers, a2 \in Answers : do_packet(p, a1, a2)
  BY <1>1 DEF DisplayNext, dispvars, queuevars, do_state, do_load, do_queue, do_screen_resize,
              toggle_numeric, toggle_trunc
<1>3. PICK s1 \in Form, s2 \in Form :
         /\ scrbuff' = Written(p, s1, s2)
         /\ Agrees(s1, said'[p[1]]) /\ Agrees(s2, said'[p[2]])
  BY <1>2, PacketStep
<1>4. count \in DOMAIN scrbuff
  <2>1. SUFFICES ASSUME count \notin DOMAIN scrbuff PROVE FALSE
    OBVIOUS
  <2>2. Written(p, s1, s2) = [k \in DOMAIN scrbuff |-> scrbuff[k]]
    BY <2>1 DEF Written
  <2> QED
    BY <2>2, <1>3 DEF DisplayInv
<1>5. scrbuff'[count].packet = p /\ scrbuff'[count].shown = <<s1, s2>>
  BY <1>3, <1>4 DEF Written
<1> QED
  BY <1>3, <1>5

(* NamesCurrent for every chain and every answer: expired, colliding or    *)
(* failed look-ups never put a name on the screen DNS has since changed.   *)
THEOREM NamesAlwaysCurrent == DisplaySpec => NamesCurrent
<1>1. DisplayInv /\ [DisplayNext]_dispvars
         => [count' = count + 1 /\ scrbuff' # scrbuff =>
               \A j \in 1..2 : Agrees(scrbuff'[count].shown[j],
                                     said'[scrbuff'[count].packet[j]])]_dispvars
  BY NamesStep
<1> QED
  BY <1>1, DisplayInvariance, PTL DEF DisplaySpec, NamesCurrent

(* DNS is asked in a step only if diald said last that the link is up.     *)
LEMMA QueryStep ==
    ASSUME DisplayInv, [DisplayNext]_dispvars, said' # said
    PROVE  last_state = "UP"
<1>1. PICK p \in Packet, a1 \in Answers, a2 \in Answers : do_packet(p, a1, a2)
  BY DEF DisplayNext, dispvars, hostvars, do_state, do_load, do_queue, do_screen_resize,
         toggle_numeric, toggle_trunc
<1>2. curr_state = "UP"
  <2>1. \A t, a, answer, before : Said(t, a, answer, before) # before => Asks(t, a)
    BY DEF Said
  <2>2. \A t, a : Asks(t, a) => curr_state = "UP"
    BY DEF Asks
  <2>3. \E t1, b1, c1, t2, b2, c2 : said' = Said(t1, b1, c1, Said(t2, b2, c2, said))
    <3>1. count <= LINES - HEAD_LINES
      BY <1>1 DEF do_packet, hostvars
    <3>2. PICK order \in {<<1, 2>>, <<2, 1>>} :
             said' = Said(resolve(hosthash, p[order[1]], <<a1, a2>>[order[1]]).table,
                          p[order[2]], <<a1, a2>>[order[2]],
                          Said(hosthash, p[order[1]], <<a1, a2>>[order[1]], said))
      BY <1>1, <3>1, Zenon DEF do_packet
    <3> QED
      BY <3>2, Zenon
  <2> QED
    BY <2>1, <2>2, <2>3
<1>3. "UP" # NoState
  BY DEF NoState
<1> QED
  BY <1>2, <1>3 DEF DisplayInv

(* resolve never asks DNS over a link diald has not reported up.           *)
THEOREM QueriesOnlyWhenUp == DisplaySpec => QueriesWhenUp
<1>1. DisplayInv /\ [DisplayNext]_dispvars => [said' # said => last_state = "UP"]_dispvars
  BY QueryStep
<1> QED
  BY <1>1, DisplayInvariance, PTL DEF DisplaySpec, QueriesWhenUp
===============================================================================

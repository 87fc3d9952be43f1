---------------------------- MODULE StartupProofs ----------------------------
(***************************************************************************)
(* Proofs about Startup: what a configuration file means, for files of any *)
(* length, any lines in any order, and any words.                          *)
(***************************************************************************)
EXTENDS Startup, WellFoundedInduction, TLAPS

-----------------------------------------------------------------------------
(* Induction, with sets in the place of predicates.                        *)

(* Every set of natural numbers has a least one.                           *)
LEMMA LeastNumber ==
  ASSUME NEW T, T \subseteq Nat, T # {}
  PROVE  \E m \in T : \A k \in T : m <= k
<1> DEFINE R == OpToRel(<, Nat)
<1>1. IsWellFoundedOn(R, Nat)
  BY NatLessThanWellFounded
<1>2. \A x, y \in Nat : x < y => <<x, y>> \in R
  BY DEF OpToRel
<1> HIDE DEF R
<1>3. PICK m \in T : \A y \in T : ~ (<<y, m>> \in R)
  BY <1>1, WFMin
<1>4. \A k \in T : ~ (k < m)
  BY <1>2, <1>3
<1> QED BY <1>3, <1>4

(* A set of numbers with 0, and with n + 1 whenever with n, has them all.  *)
LEMMA SetInduction ==
  ASSUME NEW S, 0 \in S, \A n \in Nat : n \in S => n + 1 \in S
  PROVE  Nat \subseteq S
<1> SUFFICES ASSUME Nat \ S # {} PROVE FALSE
  OBVIOUS
<1>1. PICK m \in Nat \ S : \A k \in Nat \ S : m <= k
  <2>1. Nat \ S \subseteq Nat
    OBVIOUS
  <2> QED BY <2>1, LeastNumber
<1>2. m # 0 /\ m - 1 \in Nat
  BY <1>1
<1>3. m - 1 \in S
  BY <1>1, <1>2
<1> QED BY <1>1, <1>2, <1>3

(* What Min returns.                                                       *)
LEMMA MinIsLeast ==
  ASSUME NEW T, T \subseteq Nat, T # {}
  PROVE  Min(T) \in T /\ \A k \in T : Min(T) <= k
  BY LeastNumber DEF Min

(* What Max returns.                                                       *)
LEMMA MaxIsGreatest ==
  ASSUME NEW n \in Nat, NEW T, T \subseteq 0 .. n, T # {}
  PROVE  Max(T) \in T /\ \A k \in T : k <= Max(T)
<1> DEFINE Below == {n - k : k \in T}
<1>1. \A k \in T : k \in Nat /\ n - k \in Nat
  OBVIOUS
<1>2. Below \subseteq Nat /\ Below # {}
  BY <1>1
<1>3. PICK m \in Below : \A b \in Below : m <= b
  BY <1>2, LeastNumber
<1>4. PICK x \in T : m = n - x
  BY <1>3
<1>5. \A k \in T : x >= k
  <2> SUFFICES ASSUME NEW k \in T PROVE x >= k
    OBVIOUS
  <2>1. n - x <= n - k
    BY <1>3, <1>4
  <2> QED BY <1>1, <2>1
<1> HIDE DEF Below
<1> QED BY <1>1, <1>5 DEF Max

-----------------------------------------------------------------------------
(* Parse reads one line after another.                                     *)

(* The function FoldLeft computes, on the sets of the first n lines.       *)
FoldsTo(g, n) ==
  g = [s \in SUBSET (1 .. n) |->
         IF s = {} THEN Unread
         ELSE ParseLine(g[s \ {Max(s)}], file[Max(s)])]

(* There is such a function: line n + 1 goes on top of the first n.        *)
LEMMA FoldExists == \A n \in Nat : \E g : FoldsTo(g, n)
<1> DEFINE S == {n \in Nat : \E g : FoldsTo(g, n)}
<1>1. 0 \in S
  <2> DEFINE g == [s \in SUBSET (1 .. 0) |-> Unread]
  <2>1. 1 .. 0 = {}
    OBVIOUS
  <2>2. \A s \in SUBSET (1 .. 0) : s = {}
    BY <2>1
  <2>3. FoldsTo(g, 0)
    BY <2>2 DEF FoldsTo
  <2> QED BY <2>3
<1>2. ASSUME NEW n \in Nat, n \in S PROVE n + 1 \in S
  <2>1. PICK g : FoldsTo(g, n)
    BY <1>2
  <2> DEFINE Fold(f, s) == IF s = {} THEN Unread
                           ELSE ParseLine(f[s \ {Max(s)}], file[Max(s)])
             h == [s \in SUBSET (1 .. n + 1) |->
                     IF s \subseteq 1 .. n THEN g[s]
                     ELSE ParseLine(g[s \ {n + 1}], file[n + 1])]
  <2>2. \A s \in SUBSET (1 .. n) : g[s] = Fold(g, s)
    BY <2>1 DEF FoldsTo
  <2>3. ASSUME NEW s \in SUBSET (1 .. n + 1) PROVE h[s] = Fold(h, s)
    <3>1. CASE s = {}
      <4>1. s \in SUBSET (1 .. n)
        BY <3>1
      <4> QED BY <2>2, <3>1, <4>1
    <3>2. CASE s # {} /\ s \subseteq 1 .. n
      <4> DEFINE t == s \ {Max(s)}
      <4>1. t \in SUBSET (1 .. n) /\ t \in SUBSET (1 .. n + 1)
        BY <3>2
      <4>2. h[t] = g[t] /\ h[s] = g[s]
        BY <3>2, <4>1
      <4> QED BY <2>2, <3>2, <4>2
    <3>3. CASE ~ (s \subseteq 1 .. n)
      <4>1. n + 1 \in s /\ s \subseteq 0 .. n + 1
        BY <3>3
      <4>2. Max(s) \in s /\ n + 1 <= Max(s)
        BY <4>1, MaxIsGreatest, n + 1 \in Nat
      <4> DEFINE m == Max(s)
      <4> HIDE DEF m
      <4>3. m = n + 1
        <5>1. m \in 0 .. n + 1 /\ n + 1 <= m
          BY <4>1, <4>2 DEF m
        <5> QED BY <5>1
      <4>4. s \ {n + 1} \in SUBSET (1 .. n) /\ s \ {n + 1} \in SUBSET (1 .. n + 1)
        OBVIOUS
      <4>5. h[s \ {n + 1}] = g[s \ {n + 1}]
        BY <4>4
      <4> QED BY <3>3, <4>1, <4>3, <4>5 DEF m
    <3> QED BY <3>1, <3>2, <3>3
  <2> HIDE DEF Fold
  <2>4. h = [s \in SUBSET (1 .. n + 1) |-> Fold(h, s)]
    BY <2>3
  <2> HIDE DEF h
  <2>5. FoldsTo(h, n + 1)
    BY <2>4 DEF FoldsTo, Fold
  <2> QED BY <2>5
<1> HIDE DEF S
<1>3. Nat \subseteq S
  BY <1>1, <1>2, SetInduction
<1> QED BY <1>3 DEF S

(* h[k] is what the parser knows after k lines.                            *)
Reads(h) ==
  /\ h[0] = Unread
  /\ \A k \in 1 .. Len(file) : h[k] = ParseLine(h[k - 1], file[k])
  /\ h[Len(file)] = Parse(file)

(* Parse is the last of such states.                                       *)
LEMMA ParseReads ==
  ASSUME file \in Seq(Line)
  PROVE  \E h : Reads(h)
<1> DEFINE n == Len(file)
           g == CHOOSE f : FoldsTo(f, n)
           h == [k \in 0 .. n |-> g[1 .. k]]
<1>1. n \in Nat /\ DOMAIN file = 1 .. n
  OBVIOUS
<1>2. FoldsTo(g, n)
  BY <1>1, FoldExists
<1>3. Parse(file) = g[1 .. n]
  <2>1. Parse(file) = (CHOOSE f : FoldsTo(f, n))[1 .. n]
    BY <1>1, Zenon DEF Parse, FoldLeft, MapThenFoldSet, FoldsTo
  <2> QED BY <2>1
<1> HIDE DEF g
<1>4. g[{}] = Unread
  <2>1. {} \in SUBSET (1 .. n)
    OBVIOUS
  <2> QED BY <1>2, <2>1 DEF FoldsTo
<1>5. ASSUME NEW k \in 1 .. n PROVE g[1 .. k] = ParseLine(g[1 .. (k - 1)], file[k])
  <2>1. 1 .. k \in SUBSET (1 .. n) /\ k \in 1 .. k /\ 1 .. k \subseteq 0 .. k
    BY <1>1
  <2>2. Max(1 .. k) \in 1 .. k /\ k <= Max(1 .. k)
    BY <1>1, <2>1, MaxIsGreatest, k \in Nat, 1 .. k # {}
  <2>3. Max(1 .. k) = k /\ (1 .. k) \ {k} = 1 .. (k - 1)
    BY <1>1, <2>2
  <2> QED BY <1>2, <2>1, <2>3 DEF FoldsTo
<1>6. h[0] = Unread
  <2>1. 1 .. 0 = {}
    OBVIOUS
  <2> QED BY <1>1, <1>4, <2>1
<1>7. \A k \in 1 .. n : h[k] = ParseLine(h[k - 1], file[k])
  BY <1>1, <1>5
<1>8. h[n] = Parse(file)
  BY <1>1, <1>3
<1> QED BY <1>6, <1>7, <1>8 DEF Reads

-----------------------------------------------------------------------------
(* What one line does to the parser.                                       *)

(* The values after `word` was added to the text of `key`.                 *)
Stored(values, key, word) ==
  [k \in DOMAIN values \cup {key} |->
     IF k = key
     THEN Joined(IF key \in DOMAIN values THEN values[key] ELSE <<>>, word)
     ELSE values[k]]

IsParsed(p) ==
  p = [section |-> p.section, prev |-> p.prev, error |-> p.error,
       lineno |-> p.lineno, values |-> p.values]

(* What ParseLine changes besides its counters, in each of its cases.      *)
LEMMA LineParsed ==
  ASSUME NEW p, IsParsed(p), NEW line \in Line
  PROVE  LET q == ParseLine(p, line)
         IN  /\ IsParsed(q)
             /\ Continues(p, line) =>
                  /\ q.section = p.section /\ q.prev = p.prev
                  /\ q.values = Stored(p.values, MakeKey(p.section, p.prev),
                                       line.text)
             /\ ~Continues(p, line) /\ line.kind = "section" =>
                  q.section = line.name /\ q.prev = "" /\ q.values = p.values
             /\ ~Continues(p, line) /\ line.kind = "pair" =>
                  /\ q.section = p.section /\ q.prev = line.name
                  /\ q.values = Stored(p.values, MakeKey(p.section, line.name),
                                       line.value)
             /\ ~Continues(p, line) /\ line.kind = "broken" =>
                  /\ q.section = p.section /\ q.prev = p.prev
                  /\ q.values = p.values
<1> DEFINE r == [p EXCEPT !.lineno = @ + 1]
<1>1. /\ IsParsed(r) /\ r.section = p.section /\ r.prev = p.prev
      /\ r.values = p.values
  BY DEF IsParsed
<1>2. Continues(r, line) <=> Continues(p, line)
  BY <1>1 DEF Continues
<1>3. line.kind \in {"section", "pair", "broken"}
  BY DEF Line
<1>4. ParseLine(p, line) =
        CASE Continues(r, line) -> ValueHandler(r, r.prev, line.text)
          [] ~Continues(r, line) /\ line.kind = "section" -> NewSection(r, line)
          [] ~Continues(r, line) /\ line.kind = "pair" ->
               [ValueHandler(r, line.name, line.value) EXCEPT !.prev = line.name]
          [] ~Continues(r, line) /\ line.kind = "broken" -> Failed(r)
  BY DEF ParseLine
<1> HIDE DEF r
<1>5. ASSUME NEW name, NEW word
      PROVE  LET v == ValueHandler(r, name, word)
             IN  /\ IsParsed(v) /\ v.section = p.section /\ v.prev = p.prev
                 /\ v.values = Stored(p.values, MakeKey(p.section, name), word)
  BY <1>1 DEF ValueHandler, Stored, IsParsed
<1>6. CASE Continues(p, line)
  BY <1>1, <1>2, <1>4, <1>5, <1>6
<1>7. CASE ~Continues(p, line) /\ line.kind = "section"
  BY <1>1, <1>2, <1>4, <1>7 DEF NewSection, IsParsed
<1>8. CASE ~Continues(p, line) /\ line.kind = "pair"
  <2> DEFINE v == ValueHandler(r, line.name, line.value)
  <2>1. ParseLine(p, line) = [v EXCEPT !.prev = line.name]
    BY <1>2, <1>4, <1>8
  <2>2. /\ IsParsed(v) /\ v.section = p.section
        /\ v.values = Stored(p.values, MakeKey(p.section, line.name), line.value)
    BY <1>5
  <2> HIDE DEF v
  <2> QED BY <1>8, <2>1, <2>2 DEF IsParsed
<1>9. CASE ~Continues(p, line) /\ line.kind = "broken"
  BY <1>1, <1>2, <1>4, <1>9 DEF Failed, IsParsed
<1> QED BY <1>3, <1>6, <1>7, <1>8, <1>9

-----------------------------------------------------------------------------
(* What a reader knows after k lines.                                      *)

(* An indented line that came next would be swallowed.                     *)
Open(k) ==
  \E j \in 1 .. k : /\ file[j].kind = "pair" /\ file[j].name # ""
                    /\ \A m \in j .. k : ~Ends(m)

(* The parser and the reader are of one opinion.                           *)
Agrees(p, k) ==
  /\ IsParsed(p)
  /\ p.section = SectionOf(k)
  /\ p.prev # "" <=> Open(k)
  /\ Open(k) => /\ {j \in Pairs : j <= k} # {}
                /\ p.prev = file[PairOf(k)].name
                /\ p.section = SectionOf(PairOf(k))

(* What the next line does to what a reader calls an open pair.            *)
LEMMA OpenMoves ==
  ASSUME file \in Seq(Line), NEW k \in Nat, k + 1 <= Len(file)
  PROVE  LET line == file[k + 1]
         IN  /\ Swallowed(k + 1) <=> line.indented /\ Open(k)
             /\ Swallowed(k + 1) => Open(k + 1)
             /\ ~Swallowed(k + 1) =>
                  /\ line.kind = "section" => ~Open(k + 1)
                  /\ line.kind = "pair" => (Open(k + 1) <=> line.name # "")
                  /\ line.kind = "broken" => (Open(k + 1) <=> Open(k))
<1>0. k + 1 \in 1 .. k + 1 /\ \A m \in k + 1 .. k + 1 : m = k + 1
  OBVIOUS
<1> DEFINE line == file[k + 1]
<1>1. line \in Line /\ k + 1 \in DOMAIN file
  OBVIOUS
<1>2. Swallowed(k + 1) <=> line.indented /\ Open(k)
  BY DEF Swallowed, Open
<1>3. ASSUME Open(k), ~Ends(k + 1) PROVE Open(k + 1)
  <2>1. PICK j \in 1 .. k : /\ file[j].kind = "pair" /\ file[j].name # ""
                            /\ \A m \in j .. k : ~Ends(m)
    BY <1>3 DEF Open
  <2>2. j \in 1 .. k + 1 /\ \A m \in j .. k + 1 : m \in j .. k \/ m = k + 1
    OBVIOUS
  <2>3. \A m \in j .. k + 1 : ~Ends(m)
    BY <1>3, <2>1, <2>2
  <2> QED BY <2>1, <2>2, <2>3 DEF Open
<1>4. ASSUME Open(k + 1)
      PROVE  /\ ~Ends(k + 1)
             /\ Open(k) \/ (line.kind = "pair" /\ line.name # "")
  <2>1. PICK j \in 1 .. k + 1 : /\ file[j].kind = "pair" /\ file[j].name # ""
                                /\ \A m \in j .. k + 1 : ~Ends(m)
    BY <1>4 DEF Open
  <2>2. k + 1 \in j .. k + 1 /\ (j = k + 1 \/ j \in 1 .. k)
    OBVIOUS
  <2>3. ~Ends(k + 1)
    BY <2>1, <2>2
  <2>4. CASE j = k + 1
    BY <2>1, <2>3, <2>4
  <2>5. CASE j \in 1 .. k
    <3>1. \A m \in j .. k : m \in j .. k + 1
      OBVIOUS
    <3> QED BY <2>1, <2>3, <2>5, <3>1 DEF Open
  <2> QED BY <2>2, <2>4, <2>5
<1>5. line.kind = "pair" /\ line.name # "" => Open(k + 1)
  <2> SUFFICES ASSUME line.kind = "pair", line.name # "" PROVE Open(k + 1)
    OBVIOUS
  <2>1. ~Ends(k + 1)
    BY DEF Ends
  <2> QED BY <1>0, <2>1 DEF Open
<1>6. Ends(k + 1) <=> /\ ~line.indented
                      /\ \/ line.kind = "section"
                         \/ line.kind = "pair" /\ line.name = ""
  BY DEF Ends
<1> HIDE DEF line
<1>7. Swallowed(k + 1) => Open(k + 1)
  BY <1>2, <1>3, <1>6
<1>8. ~Swallowed(k + 1) /\ line.kind = "section" => ~Open(k + 1)
  BY <1>2, <1>4, <1>6
<1>9. ~Swallowed(k + 1) /\ line.kind = "pair" => (Open(k + 1) <=> line.name # "")
  BY <1>2, <1>4, <1>5, <1>6
<1>10. ~Swallowed(k + 1) /\ line.kind = "broken" => (Open(k + 1) <=> Open(k))
  BY <1>3, <1>4, <1>6
<1> QED BY <1>2, <1>7, <1>8, <1>9, <1>10 DEF line

(* In which section a line is, and which pair it belongs to.               *)
LEMMA SectionMoves ==
  ASSUME file \in Seq(Line), NEW k \in Nat, k + 1 <= Len(file)
  PROVE  SectionOf(k + 1) =
           IF file[k + 1].kind = "section" /\ ~Swallowed(k + 1)
           THEN file[k + 1].name ELSE SectionOf(k)
<1> DEFINE Before(i) == {j \in 1 .. i : file[j].kind = "section" /\ ~Swallowed(j)}
<1>1. CASE ~ (file[k + 1].kind = "section" /\ ~Swallowed(k + 1))
  <2>1. Before(k + 1) = Before(k)
    BY <1>1
  <2> QED BY <1>1, <2>1 DEF SectionOf
<1>2. CASE file[k + 1].kind = "section" /\ ~Swallowed(k + 1)
  <2> DEFINE T == Before(k + 1)
             m == Max(T)
  <2>1. k + 1 \in T /\ T \subseteq 0 .. k + 1 /\ k + 1 \in Nat
    BY <1>2
  <2>2. m \in T /\ k + 1 <= m
    BY <2>1, MaxIsGreatest
  <2>3. m \in 0 .. k + 1
    BY <2>1, <2>2
  <2> HIDE DEF m
  <2>4. m = k + 1
    BY <2>2, <2>3
  <2>5. T # {}
    BY <2>1
  <2> QED BY <1>2, <2>4, <2>5 DEF SectionOf, m
<1> QED BY <1>1, <1>2

LEMMA PairMoves ==
  ASSUME file \in Seq(Line), NEW k \in Nat, k + 1 <= Len(file)
  PROVE  /\ k + 1 \in Pairs <=> file[k + 1].kind = "pair" /\ ~Swallowed(k + 1)
         /\ k + 1 \in Pairs => PairOf(k + 1) = k + 1
         /\ k + 1 \notin Pairs =>
              /\ PairOf(k + 1) = PairOf(k)
              /\ {j \in Pairs : j <= k + 1} = {j \in Pairs : j <= k}
<1>1. k + 1 \in DOMAIN file /\ Pairs \subseteq Nat
  BY DEF Pairs
<1>2. k + 1 \in Pairs <=> file[k + 1].kind = "pair" /\ ~Swallowed(k + 1)
  BY <1>1 DEF Pairs
<1>3. ASSUME k + 1 \in Pairs PROVE PairOf(k + 1) = k + 1
  <2> DEFINE T == {j \in Pairs : j <= k + 1}
             m == Max(T)
  <2>1. T \subseteq 0 .. k + 1
    <3> SUFFICES ASSUME NEW j \in Pairs, j <= k + 1 PROVE j \in 0 .. k + 1
      OBVIOUS
    <3>1. j \in Nat
      BY <1>1
    <3> QED BY <3>1
  <2>2. k + 1 \in T /\ k + 1 \in Nat
    BY <1>3
  <2>3. m \in T /\ k + 1 <= m
    BY <2>1, <2>2, MaxIsGreatest
  <2>4. m \in 0 .. k + 1
    BY <2>1, <2>3
  <2> HIDE DEF m
  <2>5. m = k + 1
    BY <2>3, <2>4
  <2> QED BY <2>5 DEF PairOf, m
<1>4. ASSUME k + 1 \notin Pairs
      PROVE  {j \in Pairs : j <= k + 1} = {j \in Pairs : j <= k}
  <2>1. ASSUME NEW j \in Pairs PROVE j <= k + 1 <=> j <= k
    <3>1. j \in Nat /\ j # k + 1
      BY <1>1, <1>4
    <3> QED BY <3>1
  <2> QED BY <2>1
<1>5. k + 1 \notin Pairs => PairOf(k + 1) = PairOf(k)
  BY <1>4 DEF PairOf
<1> QED BY <1>2, <1>3, <1>4, <1>5

(* The key a line speaks of, if it is a pair or belongs to one.            *)
KeyAt(i) == <<Lowered(SectionOf(PairOf(i))), Lowered(file[PairOf(i)].name)>>

(* They stay of one opinion, and the parser files the word of a line under *)
(* the key the reader finds it to belong to.                               *)
LEMMA LineAgrees ==
  ASSUME file \in Seq(Line), NEW k \in Nat, k + 1 <= Len(file),
         NEW p, Agrees(p, k)
  PROVE  LET q == ParseLine(p, file[k + 1])
         IN  /\ Agrees(q, k + 1)
             /\ k + 1 \in Pairs \/ Swallowed(k + 1) =>
                  q.values = Stored(p.values, KeyAt(k + 1), Word(k + 1))
             /\ ~ (k + 1 \in Pairs \/ Swallowed(k + 1)) => q.values = p.values
<1> DEFINE line == file[k + 1]
           q == ParseLine(p, line)
<1>1. line \in Line /\ k + 1 <= k + 1
  OBVIOUS
<1>2. Swallowed(k + 1) <=> line.indented /\ Open(k)
  BY OpenMoves
<1>3. Swallowed(k + 1) <=> Continues(p, line)
  BY <1>2 DEF Agrees, Continues
<1>4. IsParsed(p) /\ p.section = SectionOf(k) /\ (p.prev # "" <=> Open(k))
  BY DEF Agrees
<1>5. IsParsed(q)
  BY <1>1, <1>4, LineParsed
<1>6. CASE Swallowed(k + 1)
  <2>1. /\ q.section = p.section /\ q.prev = p.prev
        /\ q.values = Stored(p.values, MakeKey(p.section, p.prev), line.text)
    BY <1>1, <1>3, <1>4, <1>6, LineParsed
  <2>2. Open(k) /\ Open(k + 1)
    BY <1>2, <1>6, OpenMoves
  <2>3. /\ k + 1 \notin Pairs /\ PairOf(k + 1) = PairOf(k)
        /\ {j \in Pairs : j <= k + 1} = {j \in Pairs : j <= k}
    BY <1>6, PairMoves
  <2>4. SectionOf(k + 1) = SectionOf(k)
    BY <1>6, SectionMoves
  <2>5. /\ {j \in Pairs : j <= k} # {} /\ p.prev = file[PairOf(k)].name
        /\ p.section = SectionOf(PairOf(k))
    BY <2>2 DEF Agrees
  <2>6. Word(k + 1) = line.text /\ KeyAt(k + 1) = MakeKey(p.section, p.prev)
    BY <1>6, <2>3, <2>5 DEF Word, KeyAt, MakeKey
  <2> HIDE DEF q, line
  <2>7. Agrees(q, k + 1)
    BY <1>4, <1>5, <2>1, <2>2, <2>3, <2>4, <2>5 DEF Agrees
  <2> QED BY <1>6, <2>1, <2>6, <2>7 DEF q, line
<1>7. CASE ~Swallowed(k + 1) /\ line.kind = "pair"
  <2>1. /\ q.section = p.section /\ q.prev = line.name
        /\ q.values = Stored(p.values, MakeKey(p.section, line.name), line.value)
    BY <1>1, <1>3, <1>4, <1>7, LineParsed
  <2>2. Open(k + 1) <=> line.name # ""
    BY <1>7, OpenMoves
  <2>3. k + 1 \in Pairs /\ PairOf(k + 1) = k + 1
    BY <1>7, PairMoves
  <2>4. SectionOf(k + 1) = SectionOf(k)
    BY <1>7, SectionMoves
  <2>5. Word(k + 1) = line.value /\ KeyAt(k + 1) = MakeKey(p.section, line.name)
    BY <1>4, <1>7, <2>3, <2>4 DEF Word, KeyAt, MakeKey
  <2>6. {j \in Pairs : j <= k + 1} # {}
    BY <1>1, <2>3
  <2>7. q.prev = file[PairOf(k + 1)].name /\ q.section = SectionOf(PairOf(k + 1))
    BY <1>4, <2>1, <2>3, <2>4
  <2>8. q.section = SectionOf(k + 1)
    BY <1>4, <2>1, <2>4
  <2> HIDE DEF q, line
  <2>9. Agrees(q, k + 1)
    BY <1>5, <2>1, <2>2, <2>6, <2>7, <2>8 DEF Agrees
  <2> QED BY <2>1, <2>3, <2>5, <2>9 DEF q, line
<1>8. CASE ~Swallowed(k + 1) /\ line.kind = "section"
  <2>1. q.section = line.name /\ q.prev = "" /\ q.values = p.values
    BY <1>1, <1>3, <1>4, <1>8, LineParsed
  <2>2. ~Open(k + 1)
    BY <1>8, OpenMoves
  <2>3. k + 1 \notin Pairs
    BY <1>8, PairMoves
  <2>4. SectionOf(k + 1) = line.name
    BY <1>8, SectionMoves
  <2> HIDE DEF q, line
  <2>5. Agrees(q, k + 1)
    BY <1>5, <2>1, <2>2, <2>4 DEF Agrees
  <2> QED BY <1>8, <2>1, <2>3, <2>5 DEF q, line
<1>9. CASE ~Swallowed(k + 1) /\ line.kind = "broken"
  <2>1. q.section = p.section /\ q.prev = p.prev /\ q.values = p.values
    BY <1>1, <1>3, <1>4, <1>9, LineParsed
  <2>2. Open(k + 1) <=> Open(k)
    BY <1>9, OpenMoves
  <2>3. /\ k + 1 \notin Pairs /\ PairOf(k + 1) = PairOf(k)
        /\ {j \in Pairs : j <= k + 1} = {j \in Pairs : j <= k}
    BY <1>9, PairMoves
  <2>4. SectionOf(k + 1) = SectionOf(k)
    BY <1>9, SectionMoves
  <2>5. Open(k) => /\ {j \in Pairs : j <= k} # {}
                   /\ p.prev = file[PairOf(k)].name
                   /\ p.section = SectionOf(PairOf(k))
    BY DEF Agrees
  <2> HIDE DEF q, line
  <2>6. Agrees(q, k + 1)
    BY <1>4, <1>5, <2>1, <2>2, <2>3, <2>4, <2>5 DEF Agrees
  <2> QED BY <1>9, <2>1, <2>3, <2>6 DEF q, line
<1>10. line.kind \in {"section", "pair", "broken"}
  BY <1>1 DEF Line
<1> QED BY <1>6, <1>7, <1>8, <1>9, <1>10

-----------------------------------------------------------------------------
(* What a text tells of the words it was joined from.                      *)

(* `text` is what the lines `parts` make: nothing if they say nothing,     *)
(* and else it starts with the first word said and has no other just if no *)
(* part comes later.                                                       *)
TextOf(text, parts) ==
  /\ text \in Seq(STRING)
  /\ text = <<>> <=> \A i \in parts : Word(i) = ""
  /\ \A i \in parts :
       Word(i) # "" /\ (\A j \in parts : j < i => Word(j) = "") =>
         /\ Head(text) = Word(i)
         /\ Len(text) = 1 <=> \A j \in parts : j <= i

(* What an element more does to a sequence that has some.                  *)
LEMMA AppendToSome ==
  ASSUME NEW T, NEW seq \in Seq(T), seq # <<>>, NEW x \in T
  PROVE  /\ Append(seq, x) \in Seq(T) /\ Append(seq, x) # <<>>
         /\ Head(Append(seq, x)) = Head(seq)
         /\ Len(Append(seq, x)) # 1
<1>1. Len(seq) \in Nat /\ Len(seq) # 0 /\ Len(Append(seq, x)) = Len(seq) + 1
  OBVIOUS
<1>2. Append(seq, x) \in Seq(T) /\ Append(seq, x) # <<>>
  OBVIOUS
<1>3. Append(seq, x)[1] = seq[1]
  BY <1>1
<1>4. Head(Append(seq, x)) = Append(seq, x)[1] /\ Head(seq) = seq[1]
  BY <1>2
<1> QED BY <1>1, <1>2, <1>3, <1>4

(* One more line makes it the text of one part more.                       *)
LEMMA TextGrows ==
  ASSUME NEW k \in Nat, NEW parts, parts \subseteq 1 .. k, NEW text,
         TextOf(text, parts), Word(k + 1) \in STRING
  PROVE  TextOf(Joined(text, Word(k + 1)), parts \cup {k + 1})
<1> DEFINE word == Word(k + 1)
           all == parts \cup {k + 1}
<1>1. /\ text \in Seq(STRING)
      /\ text = <<>> <=> \A i \in parts : Word(i) = ""
  BY DEF TextOf
<1>2. \A j \in parts : j \in Nat /\ j < k + 1 /\ ~ (k + 1 <= j)
  OBVIOUS
<1>3. CASE text # <<>>
  <2>1. Joined(text, word) = Append(text, word)
    BY <1>3 DEF Joined
  <2>2. /\ Append(text, word) \in Seq(STRING) /\ Append(text, word) # <<>>
        /\ Head(Append(text, word)) = Head(text)
        /\ Len(Append(text, word)) # 1
    BY <1>1, <1>3, AppendToSome
  <2>3. PICK s \in parts : Word(s) # ""
    BY <1>1, <1>3
  <2>4. ASSUME NEW i \in all, Word(i) # "", \A j \in all : j < i => Word(j) = ""
        PROVE  Head(text) = Word(i) /\ ~ \A j \in all : j <= i
    <3>1. i # k + 1
      BY <1>2, <2>3, <2>4
    <3>2. i \in parts
      BY <3>1
    <3> QED BY <1>2, <2>4, <3>2 DEF TextOf
  <2> HIDE DEF word
  <2> QED BY <2>1, <2>2, <2>3, <2>4 DEF TextOf, word
<1>4. CASE text = <<>> /\ word = ""
  BY <1>1, <1>4 DEF Joined, TextOf
<1>5. CASE text = <<>> /\ word # ""
  <2>1. Joined(text, word) = <<word>>
    BY <1>5 DEF Joined
  <2>2. /\ <<word>> \in Seq(STRING) /\ <<word>> # <<>>
        /\ Head(<<word>>) = word /\ Len(<<word>>) = 1
    OBVIOUS
  <2>3. \A i \in all : Word(i) # "" => i = k + 1
    BY <1>1, <1>5
  <2>4. \A j \in all : j <= k + 1
    BY <1>2
  <2> HIDE DEF word
  <2> QED BY <1>5, <2>1, <2>2, <2>3, <2>4 DEF TextOf, word
<1> QED BY <1>3, <1>4, <1>5

(* The values tell of a key what its lines among the first k say.          *)
PartsUpTo(key, k) == {i \in PartsOf(key) : i <= k}

Tells(values, key, k) ==
  /\ key \in DOMAIN values <=> PartsUpTo(key, k) # {}
  /\ key \in DOMAIN values => TextOf(values[key], PartsUpTo(key, k))

(* And of the next line too, once it was read.                             *)
LEMMA LineTells ==
  ASSUME file \in Seq(Line), NEW k \in Nat, k + 1 <= Len(file),
         NEW p, Agrees(p, k), NEW key, Tells(p.values, key, k)
  PROVE  Tells(ParseLine(p, file[k + 1]).values, key, k + 1)
<1> DEFINE q == ParseLine(p, file[k + 1])
           Part == k + 1 \in Pairs \/ Swallowed(k + 1)
<1>1. /\ Part => q.values = Stored(p.values, KeyAt(k + 1), Word(k + 1))
      /\ ~Part => q.values = p.values
  BY LineAgrees
<1> HIDE DEF q
<1>2. k + 1 \in DOMAIN file /\ file[k + 1] \in Line
  OBVIOUS
<1>3. k + 1 \in PartsOf(key) <=> Part /\ key = KeyAt(k + 1)
  BY <1>2 DEF PartsOf, KeyAt
<1>4. PartsOf(key) \subseteq 1 .. Len(file)
  BY DEF PartsOf
<1>5. PartsUpTo(key, k) \subseteq 1 .. k
  <2> SUFFICES ASSUME NEW j \in PartsOf(key), j <= k PROVE j \in 1 .. k
    BY DEF PartsUpTo
  <2>1. j \in 1 .. Len(file)
    BY <1>4
  <2> QED BY <2>1
<1>6. \A j \in PartsOf(key) : j <= k + 1 <=> j <= k \/ j = k + 1
  <2> SUFFICES ASSUME NEW j \in PartsOf(key)
               PROVE  j <= k + 1 <=> j <= k \/ j = k + 1
    OBVIOUS
  <2>1. j \in 1 .. Len(file)
    BY <1>4
  <2> QED BY <2>1
<1>7. CASE Part /\ key = KeyAt(k + 1)
  <2> DEFINE text == IF key \in DOMAIN p.values THEN p.values[key] ELSE <<>>
  <2>1. PartsUpTo(key, k + 1) = PartsUpTo(key, k) \cup {k + 1}
    BY <1>3, <1>6, <1>7 DEF PartsUpTo
  <2>2. TextOf(text, PartsUpTo(key, k))
    <3>1. CASE key \in DOMAIN p.values
      BY <3>1 DEF Tells
    <3>2. CASE key \notin DOMAIN p.values
      <4>1. PartsUpTo(key, k) = {} /\ text = <<>>
        BY <3>2 DEF Tells
      <4>2. TextOf(<<>>, {})
        BY DEF TextOf
      <4> QED BY <4>1, <4>2
    <3> QED BY <3>1, <3>2
  <2>3. Word(k + 1) \in STRING
    BY <1>2 DEF Word, Line
  <2>4. /\ key \in DOMAIN q.values
        /\ q.values[key] = Joined(text, Word(k + 1))
    BY <1>1, <1>7 DEF Stored
  <2> HIDE DEF text
  <2>5. TextOf(q.values[key], PartsUpTo(key, k + 1))
    BY <1>5, <2>1, <2>2, <2>3, <2>4, TextGrows
  <2> QED BY <2>1, <2>4, <2>5 DEF Tells, q
<1>8. CASE ~ (Part /\ key = KeyAt(k + 1))
  <2>1. PartsUpTo(key, k + 1) = PartsUpTo(key, k)
    BY <1>3, <1>6, <1>8 DEF PartsUpTo
  <2>2. /\ key \in DOMAIN q.values <=> key \in DOMAIN p.values
        /\ key \in DOMAIN p.values => q.values[key] = p.values[key]
    BY <1>1, <1>8 DEF Stored
  <2> QED BY <2>1, <2>2 DEF Tells, q
<1> QED BY <1>7, <1>8

(* So the values Parse returns tell what the lines of the file say.        *)
THEOREM ParseTells ==
  ASSUME file \in Seq(Line), NEW key
  PROVE  LET values == Parse(file).values
         IN  /\ key \in DOMAIN values <=> PartsOf(key) # {}
             /\ key \in DOMAIN values => TextOf(values[key], PartsOf(key))
<1>1. PICK h : Reads(h)
  BY ParseReads
<1> DEFINE n == Len(file)
           S == {k \in Nat : k <= n => Agrees(h[k], k) /\ Tells(h[k].values, key, k)}
<1>2. n \in Nat /\ DOMAIN file = 1 .. n
  OBVIOUS
<1>3. 0 \in S
  <2>1. 1 .. 0 = {} /\ h[0] = Unread
    BY <1>1 DEF Reads
  <2>2. ~Open(0)
    BY <2>1 DEF Open
  <2>3. SectionOf(0) = ""
    BY <2>1 DEF SectionOf
  <2>4. /\ IsParsed(Unread) /\ Unread.section = "" /\ Unread.prev = ""
        /\ DOMAIN Unread.values = {}
    BY DEF Unread, IsParsed
  <2>5. PartsUpTo(key, 0) = {}
    <3> SUFFICES ASSUME NEW j \in PartsOf(key) PROVE ~ (j <= 0)
      BY DEF PartsUpTo
    <3>1. j \in 1 .. n
      BY <1>2 DEF PartsOf
    <3> QED BY <1>2, <3>1
  <2> QED BY <2>1, <2>2, <2>3, <2>4, <2>5 DEF Agrees, Tells
<1>4. ASSUME NEW k \in Nat, k \in S PROVE k + 1 \in S
  <2> SUFFICES ASSUME k + 1 <= n
               PROVE  Agrees(h[k + 1], k + 1) /\ Tells(h[k + 1].values, key, k + 1)
    OBVIOUS
  <2>1. k <= n /\ k + 1 \in 1 .. n /\ (k + 1) - 1 = k
    BY <1>2
  <2>2. Agrees(h[k], k) /\ Tells(h[k].values, key, k)
    BY <1>4, <2>1
  <2>3. h[k + 1] = ParseLine(h[k], file[k + 1])
    BY <1>1, <2>1 DEF Reads
  <2>4. Agrees(ParseLine(h[k], file[k + 1]), k + 1)
    BY <2>2, LineAgrees
  <2>5. Tells(ParseLine(h[k], file[k + 1]).values, key, k + 1)
    BY <2>2, LineTells
  <2> QED BY <2>3, <2>4, <2>5
<1> HIDE DEF S
<1>5. Nat \subseteq S
  BY <1>3, <1>4, SetInduction
<1>6. Tells(Parse(file).values, key, n)
  BY <1>1, <1>2, <1>5 DEF S, Reads
<1>7. PartsUpTo(key, n) = PartsOf(key)
  <2> SUFFICES ASSUME NEW j \in PartsOf(key) PROVE j <= n
    BY DEF PartsUpTo
  <2>1. j \in 1 .. n
    BY <1>2 DEF PartsOf
  <2> QED BY <1>2, <2>1
<1> QED BY <1>6, <1>7 DEF Tells

-----------------------------------------------------------------------------
(* What Load, GetIgnored and the tables make of the values.                *)

(* The order of the numbers of the lines.                                  *)
LEMMA LineOrder ==
  \A i, j \in Nat : /\ i <= i /\ ~ (i < i)
                    /\ i < j => i <= j /\ ~ (j < i)
                    /\ i <= j /\ i # j => i < j
                    /\ i < j <=> ~ (j <= i)
  OBVIOUS

(* A sequence of one element.                                              *)
LEMMA OneElement ==
  /\ \A w : /\ <<w>> # <<>> /\ Head(<<w>>) = w /\ Len(<<w>>) = 1
  /\ \A T : \A seq \in Seq(T) : Len(seq) = 1 => seq = <<Head(seq)>>
<1>1. \A w : /\ <<w>> # <<>> /\ Head(<<w>>) = w /\ Len(<<w>>) = 1
  OBVIOUS
<1>2. ASSUME NEW T, NEW seq \in Seq(T), Len(seq) = 1
      PROVE  seq = <<Head(seq)>>
  <2>1. seq = [i \in 1 .. 1 |-> seq[i]]
    BY <1>2
  <2>2. Head(seq) = seq[1]
    BY <1>2
  <2> QED BY <2>1, <2>2
<1> QED BY <1>1, <1>2

(* The least of the parts that say something starts the text.              *)
LEMMA FirstPart ==
  ASSUME NEW parts, parts \subseteq Nat, NEW text, TextOf(text, parts),
         text # <<>>
  PROVE  LET said == {i \in parts : Word(i) # ""}
         IN  /\ said # {} /\ Min(said) \in said
             /\ Head(text) = Word(Min(said))
             /\ \A j \in parts : j < Min(said) => Word(j) = ""
             /\ Len(text) = 1 <=> \A j \in parts : j <= Min(said)
<1> DEFINE said == {i \in parts : Word(i) # ""}
           m == Min(said)
<1>1. said # {} /\ said \subseteq Nat
  BY DEF TextOf
<1>2. m \in said /\ \A j \in said : m <= j
  BY <1>1, MinIsLeast
<1>3. m \in parts /\ Word(m) # "" /\ m \in Nat
  BY <1>2
<1> HIDE DEF m
<1>4. ASSUME NEW j \in parts, j < m PROVE Word(j) = ""
  <2>1. j \in Nat /\ ~ (m <= j)
    <3>1. j \in Nat
      OBVIOUS
    <3> QED BY <1>3, <1>4, <3>1, LineOrder, Zenon
  <2>2. j \notin said
    BY <1>2, <2>1
  <2> QED BY <2>2
<1>5. Head(text) = Word(m) /\ (Len(text) = 1 <=> \A j \in parts : j <= m)
  BY <1>3, <1>4 DEF TextOf
<1> QED BY <1>1, <1>2, <1>4, <1>5 DEF m

(* All other parts are before i and say nothing.                           *)
OnlyPart(parts, i) ==
  /\ i \in parts
  /\ \A j \in parts \ {i} : j < i /\ Word(j) = ""

(* The only word that is said of a key is its text.                        *)
LEMMA OnlyWordIsText ==
  ASSUME NEW parts, parts \subseteq Nat, NEW text, TextOf(text, parts),
         NEW i, OnlyPart(parts, i)
  PROVE  /\ Word(i) = "" => text = <<>>
         /\ Word(i) # "" => text = <<Word(i)>>
<1>0. i \in Nat /\ i \in parts
  BY DEF OnlyPart
<1>1. ASSUME NEW j \in parts
      PROVE  j <= i /\ (j < i => Word(j) = "")
  <2>1. CASE j = i
    BY <1>0, <2>1, LineOrder, Zenon
  <2>2. CASE j \in parts \ {i}
    <3>1. j \in Nat
      OBVIOUS
    <3>2. j < i /\ Word(j) = ""
      BY <2>2 DEF OnlyPart
    <3> QED BY <1>0, <3>1, <3>2, LineOrder, Zenon
  <2> QED BY <2>1, <2>2
<1>2. CASE Word(i) = ""
  <2>1. \A j \in parts : Word(j) = ""
    BY <1>2 DEF OnlyPart
  <2> QED BY <1>2, <2>1 DEF TextOf
<1>3. CASE Word(i) # ""
  <2>1. text \in Seq(STRING) /\ Head(text) = Word(i) /\ Len(text) = 1
    BY <1>0, <1>1, <1>3 DEF TextOf
  <2> QED BY <1>3, <2>1, OneElement
<1> QED BY <1>2, <1>3

(* A text of one word was said by one line.                                *)
LEMMA TextIsOnlyWord ==
  ASSUME NEW parts, parts \subseteq Nat, NEW text, TextOf(text, parts),
         Len(text) = 1
  PROVE  \E i : Head(text) = Word(i) /\ OnlyPart(parts, i)
<1> DEFINE m == Min({i \in parts : Word(i) # ""})
<1>1. text # <<>>
  OBVIOUS
<1>2. /\ m \in parts /\ Head(text) = Word(m)
      /\ \A j \in parts : j < m => Word(j) = ""
      /\ \A j \in parts : j <= m
  BY <1>1, FirstPart
<1> HIDE DEF m
<1>3. ASSUME NEW j \in parts \ {m} PROVE j < m
  <2>1. j \in Nat /\ m \in Nat /\ j <= m /\ j # m
    BY <1>2
  <2> QED BY <2>1
<1> QED BY <1>2, <1>3 DEF OnlyPart

(* The first word of the text of a key is the first word said of it.       *)
LEMMA FirstIsFirstWord ==
  ASSUME file \in Seq(Line), NEW key, key \in DOMAIN Parse(file).values
  PROVE  LET text == Parse(file).values[key]
         IN  /\ First(text) = FirstWord(key)
             /\ text = <<>> <=> FirstWord(key) = ""
<1> DEFINE text == Parse(file).values[key]
           said == {i \in PartsOf(key) : Word(i) # ""}
<1>1. TextOf(text, PartsOf(key))
  BY ParseTells
<1>2. PartsOf(key) \subseteq Nat
  BY DEF PartsOf
<1> HIDE DEF text
<1>3. CASE text = <<>>
  <2>1. said = {}
    BY <1>1, <1>3 DEF TextOf
  <2> QED BY <1>3, <2>1 DEF First, FirstWord, text
<1>4. CASE text # <<>>
  <2>1. said # {} /\ Min(said) \in said /\ Head(text) = Word(Min(said))
    BY <1>1, <1>2, <1>4, FirstPart
  <2> QED BY <1>4, <2>1 DEF First, FirstWord, text
<1> QED BY <1>3, <1>4

(* The settings: one word is what it says, none changes nothing.           *)
LEMMA LoadOverrides ==
  ASSUME file \in Seq(Line)
  PROVE  FileOverridesOptions
<1> DEFINE values == Parse(file).values
           loaded == Load(values, settings)
<1> SUFFICES ASSUME NEW s \in Settings
             PROVE  /\ PartsOf(KeyOf(s)) = {} => loaded[s] = settings[s]
                    /\ \A i \in DOMAIN file : OnlyWord(KeyOf(s), i) =>
                         CASE s \in Boolean ->
                                /\ Lowered(Word(i)) \in {"true", "yes", "on", "1"}
                                     => loaded[s] = TRUE
                                /\ Lowered(Word(i)) \in {"false", "no", "off", "0"}
                                     => loaded[s] = FALSE
                           [] s \in Integral ->
                                Word(i) \in DOMAIN Decimal
                                  => loaded[s] = Decimal[Word(i)]
                           [] OTHER ->
                                loaded[s] = IF Word(i) = "" THEN <<>>
                                            ELSE <<Word(i)>>
  BY DEF FileOverridesOptions
<1> DEFINE key == KeyOf(s)
<1>1. loaded[s] = IF s \in Integral THEN GetInteger(values, key, settings[s])
                  ELSE IF s \in Boolean THEN GetBoolean(values, key, settings[s])
                  ELSE Get(values, key, settings[s])
  BY DEF Load
<1>2. s \in Boolean => s \notin Integral
  BY DEF Boolean, Integral
<1>3. /\ key \in DOMAIN values <=> PartsOf(key) # {}
      /\ key \in DOMAIN values => TextOf(values[key], PartsOf(key))
  BY ParseTells
<1>4. PartsOf(key) \subseteq Nat
  BY DEF PartsOf
<1>5. "" \notin DOMAIN Lower /\ "" \notin DOMAIN Decimal
  BY WordAssumption
<1> HIDE DEF values, key, loaded
<1>6. ASSUME PartsOf(key) = {} PROVE loaded[s] = settings[s]
  <2>1. key \notin DOMAIN values
    BY <1>3, <1>6
  <2>2. /\ GetInteger(values, key, settings[s]) = settings[s]
        /\ Get(values, key, settings[s]) = settings[s]
    BY <1>5, <2>1 DEF GetInteger, Get, First
  <2>3. GetBoolean(values, key, settings[s]) = settings[s]
    <3>1. Get(values, key, <<>>) = <<>> /\ Len(<<>>) # 1
      BY <2>1 DEF Get
    <3> QED BY <3>1 DEF GetBoolean, Is
  <2> QED BY <1>1, <2>2, <2>3
<1>7. ASSUME NEW i \in DOMAIN file, OnlyWord(key, i)
      PROVE  /\ s \in Boolean =>
                  /\ Lowered(Word(i)) \in {"true", "yes", "on", "1"}
                       => loaded[s] = TRUE
                  /\ Lowered(Word(i)) \in {"false", "no", "off", "0"}
                       => loaded[s] = FALSE
             /\ s \in Integral /\ Word(i) \in DOMAIN Decimal =>
                  loaded[s] = Decimal[Word(i)]
             /\ s \notin Boolean \cup Integral =>
                  loaded[s] = IF Word(i) = "" THEN <<>> ELSE <<Word(i)>>
  <2> DEFINE text == values[key]
             word == Word(i)
  <2>1. OnlyPart(PartsOf(key), i)
    BY <1>7 DEF OnlyWord, OnlyPart
  <2>2. key \in DOMAIN values /\ text = IF word = "" THEN <<>> ELSE <<word>>
    <3>1. key \in DOMAIN values /\ TextOf(text, PartsOf(key))
      BY <1>3, <2>1 DEF OnlyPart
    <3> HIDE DEF text
    <3> QED BY <1>4, <2>1, <3>1, OnlyWordIsText
  <2> HIDE DEF text, word
  <2>3. First(text) = word
    BY <2>2, OneElement DEF First
  <2>4. ASSUME s \in Boolean
        PROVE  /\ Lowered(word) \in {"true", "yes", "on", "1"}
                    => loaded[s] = TRUE
               /\ Lowered(word) \in {"false", "no", "off", "0"}
                    => loaded[s] = FALSE
    <3>1. loaded[s] = GetBoolean(values, key, settings[s])
      BY <1>1, <1>2, <2>4
    <3>2. word # "" => \A words : Is(text, words) <=> Lowered(word) \in words
      BY <2>2, OneElement DEF Is
    <3>3. word = "" => Lowered(word) = ""
      BY <1>5 DEF Lowered
    <3>4. Get(values, key, <<>>) = text
      BY <2>2 DEF Get, text
    <3> QED BY <3>1, <3>2, <3>3, <3>4 DEF GetBoolean
  <2>5. s \in Integral /\ word \in DOMAIN Decimal => loaded[s] = Decimal[word]
    BY <1>1, <2>2, <2>3 DEF GetInteger, Get, text
  <2>6. s \notin Boolean \cup Integral =>
          loaded[s] = IF word = "" THEN <<>> ELSE <<word>>
    BY <1>1, <2>2 DEF Get, text
  <2> QED BY <2>4, <2>5, <2>6 DEF word
<1> QED BY <1>2, <1>6, <1>7 DEF key

(* The transmitters to ignore: those of which one line says so.            *)
LEMMA IgnoredAreWritten ==
  ASSUME file \in Seq(Line)
  PROVE  IgnoredAsWritten
<1> DEFINE values == Parse(file).values
           Yes == {"yes", "true", "1"}
           Key(n) == <<"ignore", n>>
           Says(n) == \E i \in DOMAIN file : /\ OnlyWord(Key(n), i)
                                             /\ Lowered(Word(i)) \in Yes
<1>1. ASSUME NEW p \in DOMAIN Spelled
      PROVE  Says(Spelled[p]) <=> /\ Key(Spelled[p]) \in DOMAIN values
                                  /\ Is(values[Key(Spelled[p])], Yes)
  <2> DEFINE key == Key(Spelled[p])
             parts == PartsOf(key)
  <2>1. /\ key \in DOMAIN values <=> parts # {}
        /\ key \in DOMAIN values => TextOf(values[key], parts)
    BY ParseTells
  <2>2. parts \subseteq Nat /\ parts \subseteq DOMAIN file
    BY DEF PartsOf
  <2> HIDE DEF values, key, parts
  <2>3. ASSUME Says(Spelled[p])
        PROVE  key \in DOMAIN values /\ Is(values[key], Yes)
    <3>1. PICK i \in DOMAIN file : OnlyWord(key, i) /\ Lowered(Word(i)) \in Yes
      BY <2>3 DEF key
    <3>2. OnlyPart(parts, i)
      BY <3>1 DEF OnlyWord, OnlyPart, parts
    <3>3. Word(i) # ""
      BY <3>1, WordAssumption DEF Lowered
    <3>4. key \in DOMAIN values /\ TextOf(values[key], parts)
      BY <2>1, <3>2 DEF OnlyPart
    <3>5. values[key] = <<Word(i)>>
      BY <2>2, <3>2, <3>3, <3>4, OnlyWordIsText
    <3> QED BY <3>1, <3>4, <3>5, OneElement DEF Is
  <2>4. ASSUME key \in DOMAIN values, Is(values[key], Yes)
        PROVE  Says(Spelled[p])
    <3>1. Len(values[key]) = 1 /\ Lowered(Head(values[key])) \in Yes
      BY <2>4 DEF Is
    <3>2. PICK i : Head(values[key]) = Word(i) /\ OnlyPart(parts, i)
      BY <2>1, <2>2, <2>4, <3>1, TextIsOnlyWord
    <3>3. OnlyWord(key, i) /\ i \in DOMAIN file
      BY <2>2, <3>2 DEF OnlyWord, OnlyPart, parts
    <3> QED BY <3>1, <3>2, <3>3 DEF key
  <2> QED BY <2>3, <2>4 DEF key
<1>2. GetIgnored(values) =
        {Id(Spelled[p]) : p \in {q \in DOMAIN Spelled :
           Key(Spelled[q]) \in DOMAIN values /\ Is(values[Key(Spelled[q])], Yes)}}
  BY DEF GetIgnored, NamesOf
<1> HIDE DEF values, Says, Key
<1>3. GetIgnored(values) = {Id(name) : name \in {n \in ToSet(Spelled) : Says(n)}}
  BY <1>1, <1>2 DEF ToSet
<1> QED BY <1>3 DEF IgnoredAsWritten, Id, values, Says, Key

(* The substitutes and names: of the spellings of an id the first counts.  *)
LEMMA FirstSpellings ==
  ASSUME file \in Seq(Line)
  PROVE  FirstSpellingCounts
<1> DEFINE values == Parse(file).values
           SpelledIn(section, id) ==
             {p \in DOMAIN Spelled : /\ PartsOf(<<section, Spelled[p]>>) # {}
                                     /\ Id(Spelled[p]) = id}
           Said(section, id) ==
             FirstWord(<<section, Spelled[Min(SpelledIn(section, id))]>>)
<1>1. ASSUME NEW section, NEW id
      PROVE  /\ id \in DOMAIN Table(values, section)
                  <=> SpelledIn(section, id) # {}
             /\ SpelledIn(section, id) # {} =>
                  LET text == Table(values, section)[id]
                  IN  /\ First(text) = Said(section, id)
                      /\ text = <<>> <=> Said(section, id) = ""
  <2> DEFINE names == NamesOf(values, section)
             places == SpelledIn(section, id)
  <2>1. \A p \in DOMAIN Spelled :
          <<section, Spelled[p]>> \in DOMAIN values
            <=> PartsOf(<<section, Spelled[p]>>) # {}
    BY ParseTells
  <2>2. {p \in names : Id(Spelled[p]) = id} = places
    BY <2>1 DEF NamesOf
  <2>3. id \in DOMAIN Table(values, section) <=> places # {}
    BY <2>2 DEF Table
  <2>4. ASSUME places # {}
        PROVE  LET text == Table(values, section)[id]
               IN  /\ First(text) = Said(section, id)
                   /\ text = <<>> <=> Said(section, id) = ""
    <3> DEFINE key == <<section, Spelled[Min(places)]>>
    <3>1. places \subseteq Nat
      <4>1. \A T : \A seq \in Seq(T) : DOMAIN seq \subseteq Nat
        OBVIOUS
      <4> QED BY <4>1, WordAssumption, Zenon
    <3>2. Min(places) \in places
      BY <2>4, <3>1, MinIsLeast
    <3>3. key \in DOMAIN values
      BY <2>1, <3>2
    <3>4. id \in {Id(Spelled[p]) : p \in names}
      BY <2>2, <2>4
    <3>5. Table(values, section)[id] = values[key]
      BY <2>2, <3>4 DEF Table, Counting
    <3> QED BY <3>3, <3>5, FirstIsFirstWord
  <2> QED BY <2>3, <2>4
<1> HIDE DEF values, SpelledIn, Said
<1>2. ASSUME NEW id, SpelledIn("substitute", id) # {}
      PROVE  GetSubstitutes(values)[id] = Id(Said("substitute", id))
  <2>1. /\ id \in DOMAIN Table(values, "substitute")
        /\ First(Table(values, "substitute")[id]) = Said("substitute", id)
    BY <1>1, <1>2
  <2> QED BY <2>1 DEF GetSubstitutes
<1>3. ASSUME NEW id
      PROVE  First(GetName(values, "temperature", id)) =
               IF SpelledIn("temperature", id) = {} THEN "standard"
               ELSE IF Said("temperature", id) = "" THEN "standard"
               ELSE Said("temperature", id)
  <2> DEFINE table == Table(values, "temperature")
  <2>1. /\ id \in DOMAIN table <=> SpelledIn("temperature", id) # {}
        /\ SpelledIn("temperature", id) # {} =>
             /\ First(table[id]) = Said("temperature", id)
             /\ table[id] = <<>> <=> Said("temperature", id) = ""
    BY <1>1
  <2>2. First(<<"standard">>) = "standard"
    BY DEF First
  <2>3. GetName(values, "temperature", id) =
          IF id \in DOMAIN table /\ table[id] # <<>> THEN table[id]
          ELSE <<"standard">>
    BY DEF GetName
  <2> HIDE DEF table
  <2> QED BY <2>1, <2>2, <2>3
<1> QED BY <1>2, <1>3 DEF FirstSpellingCounts, values, SpelledIn, Said
=============================================================================

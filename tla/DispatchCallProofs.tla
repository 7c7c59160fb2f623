------------------------ MODULE DispatchCallProofs ------------------------
(* Theorems about Dispatch: which handlers an event calls.                 *)
EXTENDS DispatchProofs, Iteration

-----------------------------------------------------------------------------
(* Dicts *)

KeysDiffer(d) == \A i, j \in DOMAIN d : d[i].key = d[j].key => i = j

\* The values a dict has after the first n of s: of those in S, the last for each key.
Values(s, S, n) ==
    {s[i] : i \in {j \in 1..n : s[j] \in S /\ \A k \in j + 1..n :
                        s[k] \in S => s[k].key # s[j].key}}

LEMMA PutFacts ==
    ASSUME NEW E, NEW d \in Seq(E), NEW x \in E, KeysDiffer(d)
    PROVE  /\ Put(d, x) \in Seq(E)
           /\ KeysDiffer(Put(d, x))
           /\ Entries(Put(d, x)) = {y \in Entries(d) : y.key # x.key} \cup {x}
<1>1. CASE \E i \in DOMAIN d : d[i].key = x.key
    <2>1. PICK k \in DOMAIN d : d[k].key = x.key
        BY <1>1
    <2> DEFINE new == [i \in DOMAIN d |-> IF d[i].key = x.key THEN x ELSE d[i]]
    <2>2. Put(d, x) = new
        BY <1>1 DEF Put
    <2>3. new \in Seq(E) /\ DOMAIN new = DOMAIN d /\ new[k] = x
        BY <2>1
    <2>4. KeysDiffer(new)
        BY <2>1 DEF KeysDiffer
    <2>5. Entries(new) = {y \in Entries(d) : y.key # x.key} \cup {x}
        BY <2>1, <2>3 DEF Entries
    <2> QED
        BY <2>2, <2>3, <2>4, <2>5
<1>2. CASE ~\E i \in DOMAIN d : d[i].key = x.key
    <2>1. Put(d, x) = Append(d, x)
        BY <1>2 DEF Put
    <2>2. /\ Append(d, x) \in Seq(E)
          /\ DOMAIN d = 1..Len(d) /\ DOMAIN Append(d, x) = 1..Len(d) + 1
          /\ \A i \in 1..Len(d) : Append(d, x)[i] = d[i]
          /\ Append(d, x)[Len(d) + 1] = x
        BY AppendProperties
    <2>3. KeysDiffer(Append(d, x))
        BY <1>2, <2>2 DEF KeysDiffer
    <2>4. Entries(Append(d, x)) = {y \in Entries(d) : y.key # x.key} \cup {x}
        BY <1>2, <2>2 DEF Entries
    <2> QED
        BY <2>1, <2>2, <2>3, <2>4
<1> QED
    BY <1>1, <1>2

LEMMA DictUnfolds ==
    ASSUME NEW E, NEW s \in Seq(E), NEW S
    PROVE  \E d : /\ d = [n \in 0..Len(s) |-> IF n = 0 THEN <<>>
                              ELSE IF s[n] \in S THEN Put(d[n - 1], s[n]) ELSE d[n - 1]]
                  /\ Dict(s, S) = d[Len(s)]
<1> DEFINE T == {d \in Seq(E) : KeysDiffer(d)}
           Next1(d, n) == IF s[n] \in S THEN Put(d, s[n]) ELSE d
           Step == [n \in 1..Len(s) |-> [d \in T |-> Next1(d, n)]]
           IsDict(d) == d = [n \in 0..Len(s) |-> IF n = 0 THEN <<>>
                              ELSE IF s[n] \in S THEN Put(d[n - 1], s[n]) ELSE d[n - 1]]
<1>1. Step \in [1..Len(s) -> [T -> T]]
    <2>1. ASSUME NEW n \in 1..Len(s), NEW d \in T PROVE Next1(d, n) \in T
        <3>1. s[n] \in E /\ d \in Seq(E) /\ KeysDiffer(d)
            OBVIOUS
        <3> QED
            BY <3>1, PutFacts
    <2> HIDE DEF Next1, T
    <2> QED
        BY <2>1
<1>2. <<>> \in T
    BY DEF KeysDiffer
<1>3. Len(s) \in Nat
    OBVIOUS
<1>4. \E g \in [0..Len(s) -> T] : Iterated(g, Step, <<>>, Len(s))
    <2>1. ASSUME NEW L \in Nat, NEW step \in [1..L -> [T -> T]], NEW base \in T
          PROVE  \E g \in [0..L -> T] : Iterated(g, step, base, L)
        <3> HIDE DEF T, IsDict
        <3> QED
            BY Iterates
    <2> HIDE DEF Step, T, IsDict, Next1
    <2> QED
        BY <1>1, <1>2, <1>3, <2>1
<1>5. PICK g \in [0..Len(s) -> T] : Iterated(g, Step, <<>>, Len(s))
    BY <1>4
<1>6. \A n \in 1..Len(s) : g[n] = IF s[n] \in S THEN Put(g[n - 1], s[n]) ELSE g[n - 1]
    <2> SUFFICES ASSUME NEW n \in 1..Len(s) PROVE g[n] = Next1(g[n - 1], n)
        OBVIOUS
    <2>1. g[n] = Step[n][g[n - 1]] /\ g[n - 1] \in T
        <3> HIDE DEF T, Step, Next1
        <3>1. n - 1 \in 0..Len(s)
            OBVIOUS
        <3> QED
            BY <3>1, <1>5 DEF Iterated
    <2> HIDE DEF T, Next1
    <2> QED
        BY <2>1
<1>7. IsDict(g)
    BY <1>5, <1>6 DEF Iterated
<1>8. Dict(s, S) = (CHOOSE d : IsDict(d))[Len(s)]
    BY DEF Dict
<1>9. IsDict(CHOOSE d : IsDict(d))
    <2> HIDE DEF IsDict
    <2> QED
        BY <1>7
<1> QED
    BY <1>8, <1>9

\* What a dict holds: of the entries put into it, the last one for each key.
THEOREM DictFacts ==
    ASSUME NEW E, NEW s \in Seq(E), NEW S
    PROVE  /\ Dict(s, S) \in Seq(E)
           /\ KeysDiffer(Dict(s, S))
           /\ Entries(Dict(s, S)) = Values(s, S, Len(s))
<1>1. PICK d : /\ d = [n \in 0..Len(s) |-> IF n = 0 THEN <<>>
                           ELSE IF s[n] \in S THEN Put(d[n - 1], s[n]) ELSE d[n - 1]]
               /\ Dict(s, S) = d[Len(s)]
    BY DictUnfolds
<1> DEFINE Good == {n \in Nat : n <= Len(s) =>
                        /\ d[n] \in Seq(E)
                        /\ KeysDiffer(d[n])
                        /\ Entries(d[n]) = Values(s, S, n)}
<1>2. 0 \in Good
    <2>1. d[0] = <<>>
        BY <1>1
    <2>2. Entries(<<>>) = {} /\ Values(s, S, 0) = {}
        BY DEF Entries, Values
    <2>3. KeysDiffer(<<>>) /\ <<>> \in Seq(E)
        BY DEF KeysDiffer
    <2> QED
        BY <2>1, <2>2, <2>3
<1>3. ASSUME NEW n \in Good PROVE n + 1 \in Good
    <2> SUFFICES ASSUME n + 1 <= Len(s)
                 PROVE  /\ d[n + 1] \in Seq(E)
                        /\ KeysDiffer(d[n + 1])
                        /\ Entries(d[n + 1]) = Values(s, S, n + 1)
        OBVIOUS
    <2>1. d[n + 1] = IF s[n + 1] \in S THEN Put(d[n], s[n + 1]) ELSE d[n]
        BY <1>1
    <2>2. d[n] \in Seq(E) /\ KeysDiffer(d[n]) /\ Entries(d[n]) = Values(s, S, n)
        OBVIOUS
    <2>3. CASE s[n + 1] \in S
        <3>1. Values(s, S, n + 1) = {y \in Values(s, S, n) : y.key # s[n + 1].key} \cup {s[n + 1]}
            <4> DEFINE Kept(m) == {j \in 1..m : s[j] \in S /\ \A k \in j + 1..m :
                                       s[k] \in S => s[k].key # s[j].key}
            <4>1. ASSUME NEW j \in 1..n
                  PROVE  j \in Kept(n + 1) <=> j \in Kept(n) /\ s[j].key # s[n + 1].key
                <5>1. \A k : k \in j + 1..n + 1 <=> k \in j + 1..n \/ k = n + 1
                    OBVIOUS
                <5>2. j \in 1..n + 1
                    OBVIOUS
                <5> QED
                    BY <2>3, <5>1, <5>2
            <4>2. n + 1 \in Kept(n + 1)
                BY <2>3
            <4>3. \A m \in Nat : Values(s, S, m) = {s[j] : j \in Kept(m)}
                BY DEF Values
            <4>4. n \in Nat /\ n + 1 \in Nat /\ Kept(n) \subseteq 1..n /\ Kept(n + 1) \subseteq 1..n \cup {n + 1}
                OBVIOUS
            <4>5. Kept(n + 1) = {j \in Kept(n) : s[j].key # s[n + 1].key} \cup {n + 1}
                <5> HIDE DEF Kept
                <5> QED
                    BY <4>1, <4>2, <4>4
            <4> HIDE DEF Kept, Good
            <4> QED
                BY <4>3, <4>4, <4>5
        <3>2. s[n + 1] \in E
            BY <2>3
        <3>3. /\ Put(d[n], s[n + 1]) \in Seq(E)
              /\ KeysDiffer(Put(d[n], s[n + 1]))
              /\ Entries(Put(d[n], s[n + 1]))
                    = {y \in Entries(d[n]) : y.key # s[n + 1].key} \cup {s[n + 1]}
            <4>1. ASSUME NEW c \in Seq(E), KeysDiffer(c), NEW x \in E
                  PROVE  /\ Put(c, x) \in Seq(E)
                         /\ KeysDiffer(Put(c, x))
                         /\ Entries(Put(c, x)) = {y \in Entries(c) : y.key # x.key} \cup {x}
                BY <4>1, PutFacts
            <4> HIDE DEF Good
            <4> QED
                BY <2>2, <3>2, <4>1
        <3> QED
            BY <2>1, <2>2, <2>3, <3>1, <3>3
    <2>4. CASE s[n + 1] \notin S
        <3>1. Values(s, S, n + 1) = Values(s, S, n)
            <4> DEFINE Kept(m) == {j \in 1..m : s[j] \in S /\ \A k \in j + 1..m :
                                       s[k] \in S => s[k].key # s[j].key}
            <4>1. ASSUME NEW j \in 1..n PROVE j \in Kept(n + 1) <=> j \in Kept(n)
                <5>1. \A k : k \in j + 1..n + 1 <=> k \in j + 1..n \/ k = n + 1
                    OBVIOUS
                <5> QED
                    BY <2>4, <5>1
            <4>2. n + 1 \notin Kept(n + 1)
                BY <2>4
            <4>3. \A m \in Nat : Values(s, S, m) = {s[j] : j \in Kept(m)}
                BY DEF Values
            <4>4. n \in Nat /\ n + 1 \in Nat /\ Kept(n) \subseteq 1..n /\ Kept(n + 1) \subseteq 1..n \cup {n + 1}
                OBVIOUS
            <4> HIDE DEF Kept, Good
            <4>5. Kept(n + 1) = Kept(n)
                BY <4>1, <4>2, <4>4
            <4> QED
                BY <4>3, <4>4, <4>5
        <3> QED
            BY <2>1, <2>2, <2>4, <3>1
    <2> QED
        BY <2>3, <2>4
<1>4. Good = Nat
    <2>1. Good \subseteq Nat
        OBVIOUS
    <2> HIDE DEF Good
    <2> QED
        BY <1>2, <1>3, <2>1, Induction
<1>5. Len(s) \in Good
    BY <1>4
<1> QED
    BY <1>1, <1>5

-----------------------------------------------------------------------------
(* Sequences of entries *)

LEMMA NextInterval == ASSUME NEW n \in Nat PROVE 1..n + 1 = 1..n \cup {n + 1}
    OBVIOUS

NoRepeats(s) == \A i, j \in DOMAIN s : s[i] = s[j] => i = j

LEMMA ConcatFacts ==
    ASSUME NEW E, NEW s \in Seq(E), NEW t \in Seq(E)
    PROVE  /\ s \o t \in Seq(E)
           /\ Entries(s \o t) = Entries(s) \cup Entries(t)
           /\ NoRepeats(s) /\ NoRepeats(t) /\ Entries(s) \cap Entries(t) = {} => NoRepeats(s \o t)
<1> DEFINE st == s \o t
<1>1. /\ st \in Seq(E) /\ DOMAIN st = 1..Len(s) + Len(t)
      /\ DOMAIN s = 1..Len(s) /\ DOMAIN t = 1..Len(t) /\ Len(s) \in Nat /\ Len(t) \in Nat
    BY ConcatProperties
<1>2. \A i \in 1..Len(s) + Len(t) : st[i] = IF i <= Len(s) THEN s[i] ELSE t[i - Len(s)]
    BY ConcatProperties
<1> HIDE DEF st
<1>3. \A i \in DOMAIN s : i \in DOMAIN st /\ st[i] = s[i]
    BY <1>1, <1>2
<1>4. \A i \in DOMAIN t : i + Len(s) \in DOMAIN st /\ st[i + Len(s)] = t[i]
    BY <1>1, <1>2
<1>5. \A i \in DOMAIN st : \/ i \in DOMAIN s /\ st[i] = s[i]
                           \/ i - Len(s) \in DOMAIN t /\ st[i] = t[i - Len(s)]
    BY <1>1, <1>2
<1>6. Entries(st) = Entries(s) \cup Entries(t)
    BY <1>3, <1>4, <1>5 DEF Entries
<1>7. ASSUME NoRepeats(s), NoRepeats(t), Entries(s) \cap Entries(t) = {},
             NEW i \in DOMAIN st, NEW j \in DOMAIN st, st[i] = st[j]
      PROVE  i = j
    <2>1. CASE i \in DOMAIN s /\ st[i] = s[i] /\ j \in DOMAIN s /\ st[j] = s[j]
        BY <1>7, <2>1 DEF NoRepeats
    <2>2. CASE i - Len(s) \in DOMAIN t /\ st[i] = t[i - Len(s)]
                    /\ j - Len(s) \in DOMAIN t /\ st[j] = t[j - Len(s)]
        <3>1. i - Len(s) = j - Len(s)
            BY <1>7, <2>2 DEF NoRepeats
        <3> QED
            BY <1>1, <3>1
    <2>3. ASSUME NEW a \in DOMAIN s, NEW b \in DOMAIN t PROVE s[a] # t[b]
        BY <1>7 DEF Entries
    <2> QED
        BY <1>5, <1>7, <2>1, <2>2, <2>3
<1> QED
    BY <1>1, <1>6, <1>7 DEF NoRepeats, st

LEMMA FlattenUnfolds ==
    ASSUME NEW E, NEW ss \in Seq(Seq(E))
    PROVE  \E g \in [0..Len(ss) -> Seq(E)] :
                /\ g[0] = <<>>
                /\ \A n \in 1..Len(ss) : g[n] = g[n - 1] \o ss[n]
                /\ FlattenSeq(ss) = g[Len(ss)]
<1> DEFINE T == Seq(E)
           Next1(d, n) == d \o ss[n]
           Step == [n \in 1..Len(ss) |-> [d \in T |-> Next1(d, n)]]
           IsFlat(f) == f = [i \in 1..Len(ss) |-> IF i = 1 THEN ss[i] ELSE f[i - 1] \o ss[i]]
<1>1. Step \in [1..Len(ss) -> [T -> T]]
    <2>1. ASSUME NEW n \in 1..Len(ss), NEW d \in T PROVE Next1(d, n) \in T
        BY ConcatProperties
    <2> HIDE DEF Next1, T
    <2> QED
        BY <2>1
<1>2. <<>> \in T
    OBVIOUS
<1>3. Len(ss) \in Nat
    OBVIOUS
<1>4. \E g \in [0..Len(ss) -> T] : Iterated(g, Step, <<>>, Len(ss))
    <2>1. ASSUME NEW L \in Nat, NEW step \in [1..L -> [T -> T]], NEW base \in T
          PROVE  \E g \in [0..L -> T] : Iterated(g, step, base, L)
        <3> HIDE DEF T, IsFlat
        <3> QED
            BY Iterates
    <2> HIDE DEF Step, T, IsFlat, Next1
    <2> QED
        BY <1>1, <1>2, <1>3, <2>1
<1>5. PICK g \in [0..Len(ss) -> T] : Iterated(g, Step, <<>>, Len(ss))
    BY <1>4
<1>6. \A n \in 1..Len(ss) : g[n] = g[n - 1] \o ss[n]
    <2> SUFFICES ASSUME NEW n \in 1..Len(ss) PROVE g[n] = Next1(g[n - 1], n)
        OBVIOUS
    <2>1. g[n] = Step[n][g[n - 1]] /\ g[n - 1] \in T
        <3> HIDE DEF T, Step, Next1
        <3>1. n - 1 \in 0..Len(ss)
            OBVIOUS
        <3> QED
            BY <3>1, <1>5 DEF Iterated
    <2> HIDE DEF T, Next1
    <2> QED
        BY <2>1
<1>7. g[0] = <<>>
    BY <1>5 DEF Iterated
<1>8. CASE Len(ss) = 0
    BY <1>6, <1>7, <1>8 DEF FlattenSeq
<1>9. CASE Len(ss) # 0
    <2> DEFINE h == [i \in 1..Len(ss) |-> g[i]]
    <2>0. 1 \in 1..Len(ss) /\ g[1] = ss[1]
        <3>1. 1 \in 1..Len(ss) /\ ss[1] \in Seq(E)
            BY <1>3, <1>9
        <3>2. g[1] = <<>> \o ss[1]
            <4>1. g[1] = g[1 - 1] \o ss[1]
                BY <1>6, <3>1, Zenon
            <4>2. 1 - 1 = 0
                OBVIOUS
            <4> QED
                BY <1>7, <4>1, <4>2, Zenon
        <3> QED
            BY <3>1, <3>2, ConcatEmptySeq
    <2>1. IsFlat(h)
        <3>2. ASSUME NEW i \in 1..Len(ss)
              PROVE  h[i] = IF i = 1 THEN ss[i] ELSE h[i - 1] \o ss[i]
            <4>1. CASE i = 1
                BY <2>0, <4>1
            <4>2. CASE i # 1
                <5>1. i - 1 \in 1..Len(ss) /\ h[i] = g[i] /\ h[i - 1] = g[i - 1]
                    BY <1>3, <4>2
                <5> QED
                    BY <1>6, <4>2, <5>1
            <4> QED
                BY <4>1, <4>2
        <3> QED
            BY <3>2
    <2>2. FlattenSeq(ss) = (CHOOSE f : IsFlat(f))[Len(ss)]
        BY <1>9 DEF FlattenSeq
    <2>3. IsFlat(CHOOSE f : IsFlat(f))
        <3> HIDE DEF IsFlat, h
        <3> QED
            BY <2>1
    <2> DEFINE flat == CHOOSE f : IsFlat(f)
    <2>4. flat = [i \in 1..Len(ss) |-> IF i = 1 THEN ss[i] ELSE flat[i - 1] \o ss[i]]
        BY <2>3
    <2> HIDE DEF flat
    <2> DEFINE Same == {n \in Nat : n + 1 <= Len(ss) => flat[n + 1] = g[n + 1]}
    <2>5. 0 \in Same
        BY <2>0, <2>4
    <2>6. ASSUME NEW n \in Same PROVE n + 1 \in Same
        <3>1. ASSUME NEW k \in 1..Len(ss), NEW j \in 1..Len(ss), j = k - 1, k # 1,
                     flat[j] = g[j]
              PROVE  flat[k] = g[k]
            <4>1. flat[k] = flat[k - 1] \o ss[k]
                BY <2>4, <3>1, Zenon
            <4>2. g[k] = g[k - 1] \o ss[k]
                BY <1>6, Zenon
            <4> QED
                BY <3>1, <4>1, <4>2, Zenon
        <3> HIDE DEF flat
        <3> QED
            BY <1>3, <3>1
    <2>7. Same = Nat
        <3>1. Same \subseteq Nat
            OBVIOUS
        <3> HIDE DEF Same
        <3> QED
            BY <2>5, <2>6, <3>1, Induction
    <2>8. flat[Len(ss)] = g[Len(ss)]
        <3>1. Len(ss) - 1 \in Nat /\ Len(ss) - 1 + 1 = Len(ss)
            BY <1>3, <1>9
        <3>2. Len(ss) - 1 \in Same
            BY <2>7, <3>1
        <3> QED
            BY <3>1, <3>2
    <2> QED
        BY <1>6, <1>7, <2>2, <2>8 DEF flat
<1> QED
    BY <1>8, <1>9

LEMMA FlattenFacts ==
    ASSUME NEW E, NEW ss \in Seq(Seq(E))
    PROVE  /\ FlattenSeq(ss) \in Seq(E)
           /\ Entries(FlattenSeq(ss)) = UNION {Entries(ss[i]) : i \in DOMAIN ss}
           /\ /\ \A i \in DOMAIN ss : NoRepeats(ss[i])
              /\ \A i, j \in DOMAIN ss : i # j => Entries(ss[i]) \cap Entries(ss[j]) = {}
              => NoRepeats(FlattenSeq(ss))
<1> DEFINE Apart == /\ \A i \in DOMAIN ss : NoRepeats(ss[i])
                    /\ \A i, j \in DOMAIN ss : i # j => Entries(ss[i]) \cap Entries(ss[j]) = {}
           Upto(n) == UNION {Entries(ss[i]) : i \in 1..n}
<1>1. PICK g \in [0..Len(ss) -> Seq(E)] :
                /\ g[0] = <<>>
                /\ \A n \in 1..Len(ss) : g[n] = g[n - 1] \o ss[n]
                /\ FlattenSeq(ss) = g[Len(ss)]
    BY FlattenUnfolds
<1> DEFINE Good == {n \in Nat : n <= Len(ss) =>
                        Entries(g[n]) = Upto(n) /\ (Apart => NoRepeats(g[n]))}
<1>2. 0 \in Good
    BY <1>1 DEF Entries, NoRepeats
<1>3. ASSUME NEW n \in Good PROVE n + 1 \in Good
    <2> SUFFICES ASSUME n + 1 <= Len(ss)
                 PROVE  Entries(g[n + 1]) = Upto(n + 1) /\ (Apart => NoRepeats(g[n + 1]))
        OBVIOUS
    <2>1. /\ n + 1 \in 1..Len(ss) /\ n \in 0..Len(ss) /\ ss[n + 1] \in Seq(E)
          /\ g[n] \in Seq(E) /\ Entries(g[n]) = Upto(n) /\ (Apart => NoRepeats(g[n]))
        OBVIOUS
    <2>2. g[n + 1] = g[n] \o ss[n + 1]
        <3>1. \A k \in 1..Len(ss), j \in 0..Len(ss) : j = k - 1 => g[k] = g[j] \o ss[k]
            BY <1>1, Zenon
        <3> HIDE DEF Good, Apart, Upto
        <3> QED
            BY <2>1, <3>1
    <2>3. Upto(n + 1) = Upto(n) \cup Entries(ss[n + 1])
        <3>1. 1..n + 1 = 1..n \cup {n + 1}
            <4>1. n \in Nat
                OBVIOUS
            <4> HIDE DEF Good
            <4> QED
                BY <4>1, NextInterval
        <3> HIDE DEF Good
        <3> QED
            BY <3>1
    <2>4. Apart => NoRepeats(ss[n + 1]) /\ Upto(n) \cap Entries(ss[n + 1]) = {}
        <3> SUFFICES ASSUME Apart
                     PROVE  NoRepeats(ss[n + 1]) /\ Upto(n) \cap Entries(ss[n + 1]) = {}
            OBVIOUS
        <3>1. \A i \in 1..n : i \in DOMAIN ss /\ n + 1 \in DOMAIN ss /\ i # n + 1
            BY <2>1
        <3>2. \A i \in 1..n : Entries(ss[i]) \cap Entries(ss[n + 1]) = {}
            BY <3>1
        <3> QED
            BY <2>1, <3>2
    <2>5. ASSUME NEW c \in Seq(E), NEW d \in Seq(E)
          PROVE  /\ Entries(c \o d) = Entries(c) \cup Entries(d)
                 /\ NoRepeats(c) /\ NoRepeats(d) /\ Entries(c) \cap Entries(d) = {}
                        => NoRepeats(c \o d)
        BY ConcatFacts
    <2> HIDE DEF Good, Apart, Upto
    <2> QED
        BY <2>1, <2>2, <2>3, <2>4, <2>5
<1>4. Good = Nat
    <2>1. Good \subseteq Nat
        OBVIOUS
    <2> HIDE DEF Good
    <2> QED
        BY <1>2, <1>3, <2>1, Induction
<1>5. Len(ss) \in Nat /\ DOMAIN ss = 1..Len(ss) /\ Len(ss) \in 0..Len(ss)
    OBVIOUS
<1>6. Entries(g[Len(ss)]) = Upto(Len(ss)) /\ (Apart => NoRepeats(g[Len(ss)]))
    <2> HIDE DEF Upto, Apart
    <2> QED
        BY <1>4, <1>5
<1>7. Upto(Len(ss)) = UNION {Entries(ss[i]) : i \in DOMAIN ss}
    BY <1>5, Zenon
<1> HIDE DEF Upto, Apart
<1>8. g[Len(ss)] \in Seq(E)
    BY <1>5
<1> QED
    BY <1>1, <1>6, <1>7, <1>8 DEF Apart

LEMMA NoKeyNoEntryTwice ==
    ASSUME NEW d, KeysDiffer(d)
    PROVE  NoRepeats(d)
BY DEF KeysDiffer, NoRepeats

\* Of a dict Picked takes what applies, each entry once.
LEMMA PickedFacts ==
    ASSUME NEW E, NEW d \in Seq(E), KeysDiffer(d), NEW r
    PROVE  /\ Picked(d, r) \in Seq(E)
           /\ NoRepeats(Picked(d, r))
           /\ Entries(Picked(d, r)) = {x \in Entries(d) : Applies(x.key, r)}
<1> DEFINE Due == {x \in Entries(d) : Applies(x.key, r)}
           A == {x \in Due : x.key = Star}
           B == {x \in Due : x.key # Star}
<1>1. ASSUME NEW S PROVE Values(d, S, Len(d)) = {x \in Entries(d) : x \in S}
    BY DEF Values, KeysDiffer, Entries
<1>2. ASSUME NEW S PROVE /\ Dict(d, S) \in Seq(E) /\ NoRepeats(Dict(d, S))
                         /\ Entries(Dict(d, S)) = {x \in Entries(d) : x \in S}
    BY <1>1, DictFacts, NoKeyNoEntryTwice
<1>3. Picked(d, r) = Dict(d, A) \o Dict(d, B)
    BY DEF Picked
<1>4. /\ {x \in Entries(d) : x \in A} \cap {x \in Entries(d) : x \in B} = {}
      /\ {x \in Entries(d) : x \in A} \cup {x \in Entries(d) : x \in B} = Due
    OBVIOUS
<1> HIDE DEF A, B
<1>5. /\ Dict(d, A) \o Dict(d, B) \in Seq(E)
      /\ NoRepeats(Dict(d, A) \o Dict(d, B))
      /\ Entries(Dict(d, A) \o Dict(d, B)) = Due
    BY <1>2, <1>4, ConcatFacts
<1> QED
    BY <1>3, <1>5

-----------------------------------------------------------------------------
(* The chains of an event *)

LEMMA ProgramFacts ==
    ASSUME NEW p \in Programs
    PROVE  /\ p.mro \in Seq(Entries(p.mro))
           /\ p.methods \in Seq(Entries(p.methods))
           /\ p.functions \in Seq(Entries(p.functions))
           /\ \A i, j \in DOMAIN p.mro : p.mro[i] = p.mro[j] => i = j
           /\ \A x, y \in Entries(p.methods) : x.handler = y.handler => x = y
           /\ \A x, y \in Entries(p.functions) :
                (x.handler = y.handler => x = y) /\ x.class = y.class
           /\ \A x \in Entries(p.methods), y \in Entries(p.functions) : x.handler # y.handler
<1>1. /\ p.mro \in Seq(Entries(p.mro))
      /\ p.methods \in Seq(Entries(p.methods))
      /\ p.functions \in Seq(Entries(p.functions))
    BY DispatchAssumption DEF DispatchAssumption
<1>2. \A i, j \in DOMAIN p.mro : p.mro[i] = p.mro[j] => i = j
    BY DispatchAssumption DEF DispatchAssumption
<1>3. \A x, y \in Entries(p.methods) : x.handler = y.handler => x = y
    <2>1. \A i, j \in DOMAIN p.methods : p.methods[i].handler = p.methods[j].handler => i = j
        BY DispatchAssumption DEF DispatchAssumption
    <2> QED
        BY <2>1 DEF Entries
<1>4. \A x, y \in Entries(p.functions) :
        (x.handler = y.handler => x = y) /\ x.class = y.class
    <2>1. \A i, j \in DOMAIN p.functions :
                /\ p.functions[i].handler = p.functions[j].handler => i = j
                /\ p.functions[i].class = p.functions[j].class
        BY DispatchAssumption DEF DispatchAssumption
    <2> QED
        BY <2>1 DEF Entries
<1>5. \A x \in Entries(p.methods), y \in Entries(p.functions) : x.handler # y.handler
    BY DispatchAssumption DEF DispatchAssumption
<1> QED
    BY <1>1, <1>2, <1>3, <1>4, <1>5

\* In a program with plain class names a class's table has the methods of the class.
LEMMA TableOfClass ==
    ASSUME NEW p \in Programs, WellNamed(p), NEW n \in DOMAIN p.mro, NEW i \in DOMAIN p.methods
    PROVE  Scope[p.methods[i].class] = Name[p.mro[n]] <=> p.methods[i].class = p.mro[n]
<1> DEFINE classes == ToSet(p.mro) \cup {p.methods[j].class : j \in DOMAIN p.methods}
<1>1. p.mro[n] \in classes /\ p.methods[i].class \in classes
    BY DEF ToSet
<1>2. \A c \in classes : Scope[c] = Name[c] /\ \A d \in classes \ {c} : Name[d] # Name[c]
    BY DEF WellNamed
<1> HIDE DEF classes
<1> QED
    BY <1>1, <1>2

LEMMA FoundFacts ==
    ASSUME NEW p \in Programs, NEW r
    PROVE  /\ Found(p, r) \in Seq(Seq(Entries(p.methods)))
           /\ DOMAIN Found(p, r) = DOMAIN p.mro
           /\ \A n \in DOMAIN p.mro : NoRepeats(Found(p, r)[n])
           /\ WellNamed(p) => \A n \in DOMAIN p.mro :
                Entries(Found(p, r)[n]) = {p.methods[i] : i \in Methods(p, r, n)}
<1> DEFINE E == Entries(p.methods)
           s == p.methods
           S(n) == {m \in E : Scope[m.class] = Name[p.mro[n]] /\ m.kind = r.kind}
<1>1. p.mro \in Seq(Entries(p.mro)) /\ s \in Seq(E)
    BY ProgramFacts
<1>2. \A n \in DOMAIN p.mro : Found(p, r)[n] = Picked(Dict(s, S(n)), r)
    BY DEF Found, ClassTable
<1>3. ASSUME NEW n \in DOMAIN p.mro
      PROVE  /\ Picked(Dict(s, S(n)), r) \in Seq(E)
             /\ NoRepeats(Picked(Dict(s, S(n)), r))
             /\ Entries(Picked(Dict(s, S(n)), r)) = {x \in Values(s, S(n), Len(s)) : Applies(x.key, r)}
    <2> HIDE DEF E, s, S
    <2>1. Dict(s, S(n)) \in Seq(E) /\ KeysDiffer(Dict(s, S(n)))
             /\ Entries(Dict(s, S(n))) = Values(s, S(n), Len(s))
        BY <1>1, DictFacts
    <2> QED
        BY <2>1, PickedFacts
<1>4. DOMAIN Found(p, r) = DOMAIN p.mro /\ DOMAIN p.mro = 1..Len(p.mro) /\ Len(p.mro) \in Nat
    BY <1>1 DEF Found
<1>5. Found(p, r) \in Seq(Seq(E))
    <2> DEFINE F(n) == Picked(ClassTable(p, Name[p.mro[n]], r.kind), r)
    <2>1. Found(p, r) = [n \in DOMAIN p.mro |-> F(n)]
        BY DEF Found
    <2> HIDE DEF F, E
    <2>2. \A n \in DOMAIN p.mro : F(n) \in Seq(E)
        BY <1>2, <1>3, <2>1
    <2> QED
        BY <1>4, <2>1, <2>2
<1>6. ASSUME WellNamed(p), NEW n \in DOMAIN p.mro
      PROVE  {x \in Values(s, S(n), Len(s)) : Applies(x.key, r)}
                = {s[i] : i \in Methods(p, r, n)}
    <2>1. DOMAIN s = 1..Len(s) /\ Len(s) \in Nat
        BY <1>1
    <2>2. \A i \in DOMAIN s : s[i] \in S(n) <=> s[i].class = p.mro[n] /\ s[i].kind = r.kind
        BY <1>6, TableOfClass DEF Entries
    <2>3. \A i \in DOMAIN s : i \in Methods(p, r, n)
                <=> /\ s[i].class = p.mro[n] /\ s[i].kind = r.kind /\ Applies(s[i].key, r)
                    /\ ~\E j \in DOMAIN s : j > i /\ s[j].class = s[i].class
                            /\ s[j].kind = s[i].kind /\ s[j].key = s[i].key
        BY DEF Methods, Wanted, Latest
    <2>4. Methods(p, r, n) \subseteq DOMAIN s
        BY DEF Methods, Wanted
    <2> HIDE DEF s, S
    <2>5. \A i \in DOMAIN s : i \in Methods(p, r, n)
                <=> /\ s[i] \in S(n) /\ Applies(s[i].key, r)
                    /\ \A k \in i + 1..Len(s) : s[k] \in S(n) => s[k].key # s[i].key
        BY <2>1, <2>2, <2>3
    <2> QED
        BY <2>1, <2>4, <2>5 DEF Values
<1> QED
    BY <1>2, <1>3, <1>4, <1>5, <1>6

LEMMA EmptyHasNoEntry ==
    ASSUME NEW E, NEW s \in Seq(E)
    PROVE  s = <<>> <=> Entries(s) = {}
<1>1. s # <<>> => 1 \in DOMAIN s
    OBVIOUS
<1> QED
    BY <1>1 DEF Entries

LEMMA MinFacts ==
    ASSUME NEW T \in SUBSET Nat, T # {}
    PROVE  Min(T) \in T /\ \A k \in T : Min(T) <= k
BY LeastNumber DEF Min

THEOREM ClassChainFacts ==
    ASSUME NEW p \in Programs, NEW r
    PROVE  /\ ClassChain(p, r) \in Seq(Entries(p.methods))
           /\ WellNamed(p) =>
                /\ NoRepeats(ClassChain(p, r))
                /\ {x.handler : x \in Entries(ClassChain(p, r))} = DueMethods(p, r)
<1> DEFINE E == Entries(p.methods)
           found == Found(p, r)
           has == {i \in DOMAIN p.mro : found[i] # <<>>}
           M(n) == Methods(p, r, n)
           Of1(n) == {p.methods[i] : i \in M(n)}
           first == {m \in DOMAIN p.mro : r.kind = "message" => \A k \in 1..m - 1 : M(k) = {}}
<1>1. /\ found \in Seq(Seq(E)) /\ DOMAIN found = DOMAIN p.mro
      /\ \A n \in DOMAIN p.mro : NoRepeats(found[n])
      /\ WellNamed(p) => \A n \in DOMAIN p.mro : Entries(found[n]) = Of1(n)
    BY FoundFacts
<1>2. DOMAIN p.mro = 1..Len(p.mro) /\ Len(p.mro) \in Nat
    BY ProgramFacts
<1>3. DueMethods(p, r) = {p.methods[i].handler : i \in UNION {M(n) : n \in first}}
    BY DEF DueMethods
<1>4. \A n \in DOMAIN p.mro : found[n] \in Seq(E)
    BY <1>1
<1>5. WellNamed(p) => \A n \in DOMAIN p.mro : n \in has <=> M(n) # {}
    <2> SUFFICES ASSUME WellNamed(p), NEW n \in DOMAIN p.mro PROVE n \in has <=> M(n) # {}
        OBVIOUS
    <2>1. found[n] = <<>> <=> Entries(found[n]) = {}
        BY <1>4, EmptyHasNoEntry
    <2>2. Entries(found[n]) = Of1(n)
        BY <1>1
    <2> QED
        BY <2>1, <2>2
<1>6. CASE r.kind = "message" /\ has # {}
    <2>1. ClassChain(p, r) = found[Min(has)]
        BY <1>6 DEF ClassChain
    <2>2. Min(has) \in has /\ \A k \in has : Min(has) <= k
        <3>1. has \subseteq Nat
            BY <1>2
        <3> HIDE DEF has
        <3> QED
            BY <1>6, <3>1, MinFacts
    <2>3. ASSUME WellNamed(p) PROVE UNION {M(n) : n \in first} = M(Min(has))
        <3> DEFINE m == Min(has)
        <3>1. m \in DOMAIN p.mro /\ m \in Nat /\ M(m) # {}
            <4>1. m \in has /\ m \in DOMAIN p.mro
                BY <2>2
            <4> HIDE DEF has, m, M
            <4> QED
                BY <1>2, <1>5, <2>3, <4>1
        <3>2. ASSUME NEW n \in DOMAIN p.mro, n < m PROVE M(n) = {}
            <4>1. n \notin has
                <5> HIDE DEF has
                <5> QED
                    BY <1>2, <2>2, <3>1, <3>2
            <4> QED
                BY <1>5, <2>3, <4>1
        <3> HIDE DEF has, m, M
        <3>3. m \in first
            BY <1>2, <3>1, <3>2
        <3>4. ASSUME NEW n \in first, n # m PROVE M(n) = {}
            <4>1. CASE n < m
                BY <3>2, <4>1
            <4>2. CASE n > m
                <5>1. m \in 1..n - 1
                    BY <1>2, <3>1, <4>2
                <5> QED
                    BY <1>6, <3>1, <3>4, <5>1
            <4> QED
                BY <1>2, <3>1, <3>4, <4>1, <4>2
        <3> HIDE DEF first
        <3> QED
            BY <3>3, <3>4 DEF m
    <2>4. WellNamed(p) => {x.handler : x \in Entries(found[Min(has)])} = DueMethods(p, r)
        <3> SUFFICES ASSUME WellNamed(p)
                     PROVE  {x.handler : x \in Entries(found[Min(has)])} = DueMethods(p, r)
            OBVIOUS
        <3>1. Min(has) \in DOMAIN p.mro
            BY <2>2
        <3>2. Entries(found[Min(has)]) = Of1(Min(has))
            <4> HIDE DEF found, has, Of1
            <4> QED
                BY <1>1, <3>1
        <3>3. DueMethods(p, r) = {p.methods[i].handler : i \in M(Min(has))}
            <4> HIDE DEF M, has, first
            <4> QED
                BY <1>3, <2>3
        <3> HIDE DEF found, has, M
        <3> QED
            BY <3>2, <3>3
    <2> QED
        BY <1>1, <1>4, <2>1, <2>2, <2>4
<1>7. CASE ~(r.kind = "message" /\ has # {})
    <2>1. ClassChain(p, r) = FlattenSeq(found)
        BY <1>7 DEF ClassChain
    <2>2. /\ FlattenSeq(found) \in Seq(E)
          /\ Entries(FlattenSeq(found)) = UNION {Entries(found[i]) : i \in DOMAIN found}
          /\ /\ \A i \in DOMAIN found : NoRepeats(found[i])
             /\ \A i, j \in DOMAIN found : i # j => Entries(found[i]) \cap Entries(found[j]) = {}
             => NoRepeats(FlattenSeq(found))
        <3> HIDE DEF E, found
        <3> QED
            BY <1>1, FlattenFacts
    <2>3. ASSUME WellNamed(p), NEW i \in DOMAIN p.mro, NEW j \in DOMAIN p.mro, i # j
          PROVE  Entries(found[i]) \cap Entries(found[j]) = {}
        <3>1. p.mro[i] # p.mro[j]
            BY <2>3, ProgramFacts
        <3>2. \A x \in Of1(i) : x.class = p.mro[i]
            BY DEF Methods
        <3>3. \A x \in Of1(j) : x.class = p.mro[j]
            BY DEF Methods
        <3>4. Entries(found[i]) = Of1(i) /\ Entries(found[j]) = Of1(j)
            BY <1>1, <2>3
        <3> HIDE DEF Of1, found
        <3> QED
            BY <3>1, <3>2, <3>3, <3>4
    <2>4. ASSUME WellNamed(p)
          PROVE  UNION {M(n) : n \in first} = UNION {M(n) : n \in DOMAIN p.mro}
        <3>1. CASE r.kind # "message"
            <4>1. first = DOMAIN p.mro
                BY <3>1
            <4> QED
                BY <4>1
        <3>2. CASE has = {}
            <4>1. \A n \in DOMAIN p.mro : M(n) = {}
                BY <1>5, <2>4, <3>2
            <4> HIDE DEF M
            <4> QED
                BY <4>1
        <3> QED
            BY <1>7, <3>1, <3>2
    <2>5. ASSUME WellNamed(p)
          PROVE  {x.handler : x \in Entries(FlattenSeq(found))} = DueMethods(p, r)
        <3>1. Entries(FlattenSeq(found)) = UNION {Of1(n) : n \in DOMAIN p.mro}
            BY <1>1, <2>2, <2>5
        <3> HIDE DEF M, first, found
        <3> QED
            BY <1>3, <2>4, <2>5, <3>1
    <2> QED
        BY <1>1, <2>1, <2>2, <2>3, <2>5
<1> QED
    BY <1>6, <1>7

\* The entries of the agent's own table and what applies of them.
LEMMA OwnFacts ==
    ASSUME NEW p \in Programs, NEW r
    PROVE  /\ Picked(OwnTable(p, r.kind), r) \in Seq(Entries(p.functions))
           /\ NoRepeats(Picked(OwnTable(p, r.kind), r))
           /\ {x.handler : x \in Entries(Picked(OwnTable(p, r.kind), r))} = DueFunctions(p, r)
<1> DEFINE s == p.functions
           E == Entries(s)
           S == {f \in E : f.kind = r.kind}
<1>1. s \in Seq(E) /\ \A x, y \in E : x.class = y.class
    BY ProgramFacts
<1>2. DOMAIN s = 1..Len(s) /\ Len(s) \in Nat
    BY <1>1
<1>3. OwnTable(p, r.kind) = Dict(s, S)
    BY DEF OwnTable
<1>4. Wanted(s, r) \subseteq DOMAIN s
    BY DEF Wanted
<1>5. \A i \in DOMAIN s : s[i] \in E
    BY DEF Entries
<1>6. \A i \in DOMAIN s : i \in Wanted(s, r)
                <=> /\ s[i].kind = r.kind /\ Applies(s[i].key, r)
                    /\ ~\E j \in DOMAIN s : j > i /\ s[j].class = s[i].class
                            /\ s[j].kind = s[i].kind /\ s[j].key = s[i].key
    BY DEF Wanted, Latest
<1>7. \A i \in DOMAIN s : s[i] \in S <=> s[i].kind = r.kind
    BY <1>5
<1>8. DueFunctions(p, r) = {s[i].handler : i \in Wanted(s, r)}
    BY DEF DueFunctions
<1> HIDE DEF s, S, E
<1>9. Dict(s, S) \in Seq(E) /\ KeysDiffer(Dict(s, S)) /\ Entries(Dict(s, S)) = Values(s, S, Len(s))
    BY <1>1, DictFacts
<1>10. \A i \in DOMAIN s : i \in Wanted(s, r)
                <=> /\ s[i] \in S /\ Applies(s[i].key, r)
                    /\ \A k \in i + 1..Len(s) : s[k] \in S => s[k].key # s[i].key
    BY <1>1, <1>2, <1>5, <1>6, <1>7
<1>11. {x \in Values(s, S, Len(s)) : Applies(x.key, r)} = {s[i] : i \in Wanted(s, r)}
    BY <1>2, <1>4, <1>10 DEF Values
<1>12. /\ Picked(Dict(s, S), r) \in Seq(E)
       /\ NoRepeats(Picked(Dict(s, S), r))
       /\ Entries(Picked(Dict(s, S), r)) = {x \in Entries(Dict(s, S)) : Applies(x.key, r)}
    BY <1>9, PickedFacts
<1>13. {x.handler : x \in Entries(Picked(Dict(s, S), r))} = DueFunctions(p, r)
    BY <1>8, <1>9, <1>11, <1>12
<1> QED
    BY <1>3, <1>12, <1>13 DEF s, E

\* What the decorators registered, and its handlers.
Decorated(p) == Entries(p.methods) \cup Entries(p.functions)
Handlers(p) == {x.handler : x \in Decorated(p)}

LEMMA ChainsFacts ==
    ASSUME NEW p \in Programs, NEW r
    PROVE  /\ DOMAIN Chains(p, r) \subseteq Nat /\ 1 \in DOMAIN Chains(p, r)
           /\ \A c \in DOMAIN Chains(p, r) : Chains(p, r)[c] \in Seq(Decorated(p))
           /\ \A c \in DOMAIN Chains(p, r) \ {1} : Len(Chains(p, r)[c]) = 1
           /\ {Chains(p, r)[c][1].handler : c \in DOMAIN Chains(p, r) \ {1}} = DueFunctions(p, r)
           /\ WellNamed(p) =>
                /\ {x.handler : x \in Entries(Chains(p, r)[1])} = DueMethods(p, r)
                /\ \A c, d \in DOMAIN Chains(p, r) :
                    \A i \in DOMAIN Chains(p, r)[c], j \in DOMAIN Chains(p, r)[d] :
                        Chains(p, r)[c][i].handler = Chains(p, r)[d][j].handler
                            => c = d /\ i = j
<1> DEFINE own == Picked(OwnTable(p, r.kind), r)
           class == ClassChain(p, r)
           C == Chains(p, r)
           E == Entries(p.methods)
           F == Entries(p.functions)
<1>1. own \in Seq(F) /\ NoRepeats(own) /\ {x.handler : x \in Entries(own)} = DueFunctions(p, r)
    BY OwnFacts
<1>2. /\ class \in Seq(E)
      /\ WellNamed(p) =>
            NoRepeats(class) /\ {x.handler : x \in Entries(class)} = DueMethods(p, r)
    BY ClassChainFacts
<1>3. C = [i \in 1..Len(own) + 1 |-> IF i = 1 THEN class ELSE <<own[i - 1]>>]
    BY DEF Chains
<1>4. /\ \A x, y \in E : x.handler = y.handler => x = y
      /\ \A x, y \in F : x.handler = y.handler => x = y
      /\ \A x \in E, y \in F : x.handler # y.handler
    BY ProgramFacts
<1> HIDE DEF own, class, C, E, F
<1>5. DOMAIN C = 1..Len(own) + 1 /\ Len(own) \in Nat /\ DOMAIN own = 1..Len(own)
    BY <1>1, <1>3
<1>6. C[1] = class /\ 1 \in DOMAIN C
    BY <1>3, <1>5
<1>7. \A c \in DOMAIN C \ {1} : /\ c - 1 \in DOMAIN own /\ own[c - 1] \in F
                                /\ C[c] = <<own[c - 1]>>
    BY <1>1, <1>3, <1>5
<1>8. \A c \in DOMAIN C : C[c] \in Seq(E \cup F)
    <2>1. class \in Seq(E \cup F)
        BY <1>2, SeqMonotonic
    <2>2. \A x \in F : <<x>> \in Seq(E \cup F)
        OBVIOUS
    <2> QED
        BY <1>6, <1>7, <2>1, <2>2
<1>9. \A c \in DOMAIN C \ {1} : Len(C[c]) = 1 /\ DOMAIN C[c] = {1} /\ C[c][1] = own[c - 1]
    BY <1>7
<1>10. {C[c][1].handler : c \in DOMAIN C \ {1}} = DueFunctions(p, r)
    <2>1. \A k \in DOMAIN own : k + 1 \in DOMAIN C \ {1} /\ C[k + 1][1] = own[k]
        BY <1>5, <1>9
    <2>2. {C[c][1] : c \in DOMAIN C \ {1}} = Entries(own)
        BY <1>7, <1>9, <2>1 DEF Entries
    <2>3. {C[c][1].handler : c \in DOMAIN C \ {1}} = {x.handler : x \in {C[c][1] : c \in DOMAIN C \ {1}}}
        OBVIOUS
    <2> QED
        BY <1>1, <2>2, <2>3
<1>11. ASSUME WellNamed(p), NEW c \in DOMAIN C, NEW d \in DOMAIN C,
              NEW i \in DOMAIN C[c], NEW j \in DOMAIN C[d],
              C[c][i].handler = C[d][j].handler
       PROVE  c = d /\ i = j
    <2>1. CASE c = 1 /\ d = 1
        <3>1. class[i] \in E /\ class[j] \in E
            BY <1>2, <1>6, <2>1
        <3> QED
            BY <1>2, <1>4, <1>6, <1>11, <2>1, <3>1 DEF NoRepeats
    <2>2. CASE c = 1 /\ d # 1
        <3>1. class[i] \in E /\ C[d][j] \in F
            BY <1>2, <1>6, <1>7, <1>9, <2>2
        <3> QED
            BY <1>4, <1>6, <1>11, <2>2, <3>1
    <2>3. CASE c # 1 /\ d = 1
        <3>1. C[c][i] \in F /\ class[j] \in E
            BY <1>2, <1>6, <1>7, <1>9, <2>3
        <3> QED
            BY <1>4, <1>6, <1>11, <2>3, <3>1
    <2>4. CASE c # 1 /\ d # 1
        <3>1. i = 1 /\ j = 1 /\ own[c - 1] = own[d - 1]
            BY <1>4, <1>7, <1>9, <1>11, <2>4
        <3>2. c - 1 = d - 1
            BY <1>1, <1>7, <2>4, <3>1 DEF NoRepeats
        <3> QED
            BY <1>5, <3>1, <3>2
    <2> QED
        BY <2>1, <2>2, <2>3, <2>4
<1> QED
    BY <1>2, <1>5, <1>6, <1>8, <1>9, <1>10, <1>11 DEF C, E, F, Decorated

-----------------------------------------------------------------------------
(* The calls of an event *)

\* The chains an event was given.
Plan(e) == IF Rejected(program, events[e]) THEN <<>> ELSE Chains(program, events[e])

AtWork(e, c) == \E t \in live : t.event = e /\ t.chain = c

\* The handlers s are those of a first part of a chain.
Begun(p, s, chain) ==
    /\ s \in Seq(Handlers(p))
    /\ Len(s) <= Len(chain)
    /\ \A i \in DOMAIN s : s[i] = chain[i].handler
    /\ chain # <<>> => s # <<>>

\* rest is a chain from the last handler called.
Left(p, rest, s, chain) ==
    /\ rest \in Seq(Decorated(p))
    /\ Len(s) + Len(rest) = Len(chain) + 1
    /\ \A i \in DOMAIN rest : rest[i] = chain[Len(s) + i - 1]

\* Every chain has been called up to where it is at work; one that is not at work
\* raised, was cancelled or has been called to its end.
CallInv ==
    /\ stopped \/ cut = {}
    /\ \A t, u \in live : t.event = u.event /\ t.chain = u.chain => t = u
    /\ \A e \in DOMAIN events : DOMAIN called[e] = DOMAIN Plan(e)
    /\ \A e \in DOMAIN events : \A c \in DOMAIN Plan(e) :
        /\ Begun(program, called[e][c], Plan(e)[c])
        /\ \/ AtWork(e, c)
           \/ <<e, c>> \in raised
           \/ e \in cut
           \/ Len(called[e][c]) = Len(Plan(e)[c])
    /\ \A t \in live :
        /\ t.chain \in DOMAIN Plan(t.event)
        /\ Left(program, t.rest, called[t.event][t.chain], Plan(t.event)[t.chain])

LEMMA PlanType ==
    ASSUME TypeOK, NEW e \in DOMAIN events, NEW c \in DOMAIN Plan(e)
    PROVE  Plan(e)[c] \in Seq(Decorated(program))
<1>1. program \in Programs
    BY DEF TypeOK
<1> QED
    BY <1>1, ChainsFacts DEF Plan

LEMMA CallInit == Init => CallInv
BY DEF Init, CallInv

\* A chain begins with the call of its first handler.
LEMMA FirstFacts ==
    ASSUME NEW p, NEW chain \in Seq(Decorated(p))
    PROVE  /\ Begun(p, First(chain), chain)
           /\ chain = <<>> => Len(First(chain)) = Len(chain)
           /\ chain # <<>> => Left(p, chain, First(chain), chain)
<1>1. CASE chain = <<>>
    BY <1>1 DEF First, Begun
<1>2. CASE chain # <<>>
    <2>1. First(chain) = <<chain[1].handler>> /\ chain[1] \in Decorated(p) /\ Len(chain) >= 1
        BY <1>2 DEF First
    <2>2. chain[1].handler \in Handlers(p)
        BY <2>1 DEF Handlers
    <2> QED
        BY <1>2, <2>1, <2>2 DEF Begun, Left
<1> QED
    BY <1>1, <1>2

LEMMA CallBegin ==
    ASSUME TypeOK, CallInv, NEW r \in Requests, Begin(r)
    PROVE  CallInv'
<1>0. PICK n : n = Len(events) + 1
    OBVIOUS
<1> DEFINE chains == IF Rejected(program, r) THEN <<>> ELSE Chains(program, r)
           firsts == [i \in DOMAIN chains |-> First(chains[i])]
           new == {[event |-> n, chain |-> i, rest |-> chains[i]] :
                        i \in {j \in DOMAIN chains : chains[j] # <<>>}}
<1>1. /\ called' = [f \in DOMAIN called \cup {n} |-> IF f = n THEN firsts ELSE called[f]]
      /\ live' = live \cup new
    BY <1>0 DEF Begin
<1>2. /\ events' \in Seq(Requests) /\ Len(events') = n /\ Len(events) \in Nat
      /\ events'[n] = r
      /\ \A e \in 1..Len(events) : events'[e] = events[e]
      /\ UNCHANGED <<program, raised, cut, stopped>>
    BY <1>0, BeginFacts
<1>3. /\ DOMAIN events = 1..Len(events) /\ DOMAIN events' = 1..n
      /\ DOMAIN called = 1..Len(events)
      /\ \A t \in live : t.event \in 1..Len(events)
      /\ program \in Programs
    BY <1>0, <1>2 DEF TypeOK
<1>4. \A i \in DOMAIN chains : chains[i] \in Seq(Decorated(program))
    <2>1. \A i \in DOMAIN Chains(program, r) : Chains(program, r)[i] \in Seq(Decorated(program))
        BY <1>3, ChainsFacts
    <2> QED
        BY <2>1
<1>5. Plan(n)' = chains
    BY <1>2 DEF Plan
<1>6. \A e \in 1..Len(events) : Plan(e)' = Plan(e)
    BY <1>2 DEF Plan
<1>7. \A i \in DOMAIN chains : firsts[i] = First(chains[i])
    OBVIOUS
<1>8. DOMAIN firsts = DOMAIN chains
    OBVIOUS
<1> HIDE DEF chains, firsts
<1>9. /\ \A t \in new : /\ t.event = n /\ t.chain \in DOMAIN chains
                        /\ t.rest = chains[t.chain] /\ t.rest # <<>>
      /\ \A t, u \in new : t.chain = u.chain => t = u
      /\ \A i \in DOMAIN chains : chains[i] = <<>> \/ \E t \in new : t.event = n /\ t.chain = i
    <2>1. ASSUME NEW i \in DOMAIN chains, chains[i] # <<>>
          PROVE  \E t \in new : t.event = n /\ t.chain = i
        <3>1. [event |-> n, chain |-> i, rest |-> chains[i]] \in new
            BY <2>1
        <3> QED
            BY <3>1
    <2> QED
        BY <2>1
<1> HIDE DEF new
<1>10. called'[n] = firsts /\ \A e \in 1..Len(events) : called'[e] = called[e] /\ e # n
    <2>1. n \in Nat /\ Len(events) \in Nat /\ n = Len(events) + 1
        BY <1>0, <1>2
    <2>2. n \in DOMAIN called \cup {n} /\ \A e \in 1..Len(events) : e \in DOMAIN called \cup {n} /\ e # n
        BY <1>3, <2>1
    <2>3. called'[n] = firsts
        BY <1>1, <2>2, Zenon
    <2>4. \A e \in 1..Len(events) : called'[e] = called[e]
        BY <1>1, <2>2, Zenon
    <2> QED
        BY <2>2, <2>3, <2>4
<1>11. \A t, u \in live' : t.event = u.event /\ t.chain = u.chain => t = u
    <2>1. live' = live \cup new
        BY <1>1
    <2>2. \A t \in live, u \in new : t.event # u.event
        BY <1>3, <1>9, <1>10
    <2>3. \A t, u \in live : t.event = u.event /\ t.chain = u.chain => t = u
        BY DEF CallInv
    <2>4. \A t, u \in new : t.chain = u.chain => t = u
        BY <1>9
    <2> QED
        BY <2>1, <2>2, <2>3, <2>4
<1>12. \A e \in DOMAIN events' : e = n \/ e \in 1..Len(events)
    BY <1>0, <1>2, <1>3
<1>13. \A e \in DOMAIN events' : DOMAIN called'[e] = DOMAIN Plan(e)'
    BY <1>3, <1>5, <1>6, <1>8, <1>10, <1>12 DEF CallInv
<1>14. ASSUME NEW e \in DOMAIN events', NEW c \in DOMAIN Plan(e)'
       PROVE  /\ Begun(program', called'[e][c], Plan(e)'[c])
              /\ \/ AtWork(e, c)'
                 \/ <<e, c>> \in raised'
                 \/ e \in cut'
                 \/ Len(called'[e][c]) = Len(Plan(e)'[c])
    <2>1. CASE e = n
        <3>1. called'[e][c] = First(chains[c]) /\ c \in DOMAIN chains /\ Plan(e)' = chains
            BY <1>5, <1>7, <1>10, <1>14, <2>1
        <3>2. chains[c] # <<>> => AtWork(e, c)'
            BY <1>1, <1>9, <2>1, <3>1 DEF AtWork
        <3>3. Begun(program, First(chains[c]), chains[c])
            BY <1>4, <3>1, FirstFacts
        <3>4. chains[c] = <<>> => Len(First(chains[c])) = Len(chains[c])
            BY <1>4, <3>1, FirstFacts
        <3> QED
            BY <1>2, <3>1, <3>2, <3>3, <3>4
    <2>2. CASE e \in 1..Len(events)
        <3>1. called'[e] = called[e] /\ Plan(e)' = Plan(e) /\ e \in DOMAIN events
            BY <1>3, <1>6, <1>10, <2>2
        <3>2. AtWork(e, c) => AtWork(e, c)'
            BY <1>1 DEF AtWork
        <3> QED
            BY <1>2, <1>14, <3>1, <3>2 DEF CallInv
    <2> QED
        BY <1>12, <2>1, <2>2
<1>15. ASSUME NEW t \in live'
       PROVE  /\ t.chain \in DOMAIN Plan(t.event)'
              /\ Left(program', t.rest, called'[t.event][t.chain], Plan(t.event)'[t.chain])
    <2>1. CASE t \in live
        BY <1>2, <1>3, <1>6, <1>10, <2>1 DEF CallInv
    <2>2. CASE t \in new
        <3>1. t.event = n /\ t.chain \in DOMAIN chains /\ t.rest = chains[t.chain] /\ t.rest # <<>>
            BY <1>9, <2>2
        <3>2. Left(program, t.rest, First(chains[t.chain]), chains[t.chain])
            BY <1>4, <3>1, FirstFacts
        <3> QED
            BY <1>2, <1>5, <1>7, <1>10, <3>1, <3>2
    <2> QED
        BY <1>1, <2>1, <2>2
<1> QED
    BY <1>2, <1>11, <1>13, <1>14, <1>15 DEF CallInv

\* A handler that returns ends the chain or hands over to the next.
LEMMA NextFacts ==
    ASSUME NEW p, NEW chain \in Seq(Decorated(p)), NEW s, NEW rest,
           Begun(p, s, chain), Left(p, rest, s, chain), rest # <<>>
    PROVE  /\ Tail(rest) = <<>> => Len(s) = Len(chain)
           /\ Tail(rest) # <<>> =>
                /\ Begun(p, Append(s, Head(Tail(rest)).handler), chain)
                /\ Left(p, Tail(rest), Append(s, Head(Tail(rest)).handler), chain)
<1> DEFINE next == Tail(rest)
           h == Head(next).handler
           D == Decorated(p)
<1>1. /\ rest \in Seq(D) /\ s \in Seq(Handlers(p)) /\ chain \in Seq(D)
      /\ Len(s) + Len(rest) = Len(chain) + 1
      /\ \A i \in DOMAIN rest : rest[i] = chain[Len(s) + i - 1]
      /\ \A i \in DOMAIN s : s[i] = chain[i].handler
    BY DEF Begun, Left
<1>2. /\ next \in Seq(D) /\ Len(next) = Len(rest) - 1
      /\ \A i \in 1..Len(next) : next[i] = rest[i + 1]
    BY <1>1, HeadTailProperties
<1>3. /\ DOMAIN rest = 1..Len(rest) /\ Len(rest) \in Nat /\ Len(s) \in Nat /\ DOMAIN s = 1..Len(s)
      /\ Len(chain) \in Nat /\ Len(next) \in Nat /\ DOMAIN next = 1..Len(next)
    BY <1>1, <1>2
<1>4. CASE next = <<>>
    BY <1>1, <1>2, <1>3, <1>4
<1>5. CASE next # <<>>
    <2>1. Len(next) >= 1 /\ Head(next) = next[1] /\ next[1] \in D
        BY <1>2, <1>3, <1>5
    <2> HIDE DEF next, D
    <2>2. h = chain[Len(s) + 1].handler /\ h \in Handlers(p)
        <3>1. 2 \in DOMAIN rest /\ rest[2] = chain[Len(s) + 1] /\ next[1] = rest[2]
            BY <1>1, <1>2, <1>3, <2>1
        <3> QED
            BY <2>1, <3>1 DEF Handlers, D
    <2> HIDE DEF h
    <2>3. /\ Append(s, h) \in Seq(Handlers(p)) /\ Append(s, h) # <<>>
          /\ Len(Append(s, h)) = Len(s) + 1 /\ DOMAIN Append(s, h) = 1..Len(s) + 1
          /\ \A i \in 1..Len(s) : Append(s, h)[i] = s[i]
          /\ Append(s, h)[Len(s) + 1] = h
        <3> HIDE DEF D
        <3>1. s \in Seq(Handlers(p))
            BY <1>1
        <3> QED
            BY <1>3, <2>2, <3>1, AppendProperties
    <2>4. Begun(p, Append(s, h), chain)
        BY <1>1, <1>2, <1>3, <2>1, <2>2, <2>3 DEF Begun
    <2>5. Left(p, next, Append(s, h), chain)
        <3>1. \A i \in DOMAIN next : i + 1 \in DOMAIN rest /\ next[i] = rest[i + 1]
            BY <1>2, <1>3
        <3>2. \A i \in DOMAIN next : next[i] = chain[Len(s) + 1 + i - 1]
            BY <1>1, <1>3, <3>1
        <3> QED
            BY <1>1, <1>2, <1>3, <2>3, <3>2 DEF Left, D
    <2> QED
        BY <1>5, <2>4, <2>5 DEF next, h
<1> QED
    BY <1>4, <1>5

LEMMA CallReturns ==
    ASSUME TypeOK, CallInv, NEW t \in live, HandlerReturns(t)
    PROVE  CallInv'
<1> DEFINE e == t.event
           c == t.chain
           next == Tail(t.rest)
           u == [t EXCEPT !.rest = next]
           s == called[e][c]
           chain == Plan(e)[c]
<1>1. /\ e \in DOMAIN events /\ c \in DOMAIN Plan(e) /\ chain \in Seq(Decorated(program))
      /\ t = [event |-> e, chain |-> c, rest |-> t.rest] /\ t.rest # <<>>
      /\ DOMAIN called = DOMAIN events
    BY PlanType DEF TypeOK, CallInv
<1>2. Begun(program, s, chain) /\ Left(program, t.rest, s, chain)
    BY <1>1 DEF CallInv
<1>3. UNCHANGED <<program, events, raised, cut, stopped>>
    BY DEF HandlerReturns
<1>4. \A f \in DOMAIN events : Plan(f)' = Plan(f)
    BY <1>3 DEF Plan
<1>5. CASE next = <<>>
    <2>1. live' = live \ {t} /\ called' = called
        BY <1>5 DEF HandlerReturns
    <2>2. Len(s) = Len(chain)
        BY <1>1, <1>2, <1>5, NextFacts
    <2>3. ASSUME NEW f \in DOMAIN events, NEW d \in DOMAIN Plan(f)
          PROVE  AtWork(f, d) => AtWork(f, d)' \/ (f = e /\ d = c)
        <3> SUFFICES ASSUME NEW v \in live, v.event = f, v.chain = d, v # t PROVE AtWork(f, d)'
            BY DEF AtWork
        <3> QED
            BY <2>1 DEF AtWork
    <2> HIDE DEF s, chain, next, u
    <2>4. ASSUME NEW f \in DOMAIN events, NEW d \in DOMAIN Plan(f)
          PROVE  \/ AtWork(f, d)' \/ <<f, d>> \in raised \/ f \in cut
                 \/ Len(called[f][d]) = Len(Plan(f)[d])
        <3>1. CASE f = e /\ d = c
            BY <2>2, <3>1 DEF s, chain
        <3>2. CASE ~(f = e /\ d = c)
            BY <2>3, <3>2 DEF CallInv
        <3> QED
            BY <3>1, <3>2
    <2> QED
        BY <1>1, <1>3, <1>4, <2>1, <2>4 DEF CallInv, TypeOK
<1>6. CASE next # <<>>
    <2> DEFINE h == Head(next).handler
    <2>1. live' = (live \ {t}) \cup {u} /\ called' = [called EXCEPT ![e][c] = Append(@, h)]
        BY <1>6 DEF HandlerReturns
    <2>2. Begun(program, Append(s, h), chain) /\ Left(program, next, Append(s, h), chain)
        BY <1>1, <1>2, <1>6, NextFacts
    <2>3. u.event = e /\ u.chain = c /\ u.rest = next
        BY <1>1
    <2> HIDE DEF s, chain, next, u, h
    <2>4. /\ called'[e][c] = Append(s, h)
          /\ \A f \in DOMAIN events : DOMAIN called'[f] = DOMAIN called[f]
          /\ \A f \in DOMAIN events : \A d \in DOMAIN Plan(f) :
                f # e \/ d # c => called'[f][d] = called[f][d]
        BY <1>1, <2>1 DEF CallInv, s
    <2>5. \A v \in live \ {t} : v.event # e \/ v.chain # c
        BY DEF CallInv
    <2>6. \A v, w \in live' : v.event = w.event /\ v.chain = w.chain => v = w
        BY <2>1, <2>3, <2>5 DEF CallInv
    <2>7. ASSUME NEW f \in DOMAIN events, NEW d \in DOMAIN Plan(f)
          PROVE  /\ Begun(program, called'[f][d], Plan(f)[d])
                 /\ \/ AtWork(f, d)' \/ <<f, d>> \in raised \/ f \in cut
                    \/ Len(called'[f][d]) = Len(Plan(f)[d])
        <3>1. CASE f = e /\ d = c
            <4>1. AtWork(e, c)'
                BY <2>1, <2>3 DEF AtWork
            <4> QED
                BY <2>2, <2>4, <3>1, <4>1 DEF chain
        <3>2. CASE f # e \/ d # c
            <4>1. AtWork(f, d) => AtWork(f, d)'
                BY <2>1, <3>2 DEF AtWork
            <4> QED
                BY <2>4, <3>2, <4>1 DEF CallInv
        <3> QED
            BY <3>1, <3>2
    <2>8. ASSUME NEW v \in live'
          PROVE  /\ v.chain \in DOMAIN Plan(v.event)
                 /\ Left(program, v.rest, called'[v.event][v.chain], Plan(v.event)[v.chain])
        <3>1. CASE v = u
            BY <1>1, <2>2, <2>3, <2>4, <3>1 DEF chain
        <3>2. CASE v \in live \ {t}
            <4>1. v.event \in DOMAIN events /\ v.chain \in DOMAIN Plan(v.event)
                BY <3>2 DEF TypeOK, CallInv
            <4>2. called'[v.event][v.chain] = called[v.event][v.chain]
                BY <2>4, <2>5, <3>2, <4>1
            <4> QED
                BY <3>2, <4>1, <4>2 DEF CallInv
        <3> QED
            BY <2>1, <3>1, <3>2
    <2>9. \A v \in live' : v.event \in DOMAIN events
        BY <1>1, <2>1, <2>3 DEF TypeOK
    <2> QED
        BY <1>3, <1>4, <2>4, <2>6, <2>7, <2>8, <2>9 DEF CallInv
<1> QED
    BY <1>5, <1>6

LEMMA CallStep == TypeOK /\ CallInv /\ [Next]_vars => CallInv'
<1> SUFFICES ASSUME TypeOK, CallInv, [Next]_vars PROVE CallInv'
    OBVIOUS
<1> DEFINE Same == UNCHANGED <<program, events, called>>
<1>1. ASSUME NEW r \in Requests, Begin(r) PROVE CallInv'
    BY <1>1, CallBegin
<1>2. ASSUME NEW t \in live, HandlerReturns(t) PROVE CallInv'
    BY <1>2, CallReturns
<1>3. ASSUME Same PROVE \A e \in DOMAIN events : Plan(e)' = Plan(e)
    BY <1>3 DEF Plan
<1>4. ASSUME NEW t \in live, HandlerRaises(t) PROVE CallInv'
    <2>1. /\ Same /\ cut' = cut /\ stopped' = stopped /\ live' = live \ {t}
          /\ raised' = raised \cup {<<t.event, t.chain>>}
        BY <1>4 DEF HandlerRaises
    <2>2. ASSUME NEW e, NEW c
          PROVE  AtWork(e, c) => AtWork(e, c)' \/ <<e, c>> \in raised'
        BY <2>1 DEF AtWork
    <2>3. \A t1 \in live : t1.event \in DOMAIN events
        BY DEF TypeOK
    <2> QED
        BY <1>3, <2>1, <2>2, <2>3 DEF CallInv
<1>5. ASSUME NEW e \in awaited, GatherReturns(e) PROVE CallInv'
    <2>1. Same /\ UNCHANGED <<live, raised, cut, stopped>>
        BY <1>5 DEF GatherReturns
    <2>3. \A t1 \in live : t1.event \in DOMAIN events
        BY DEF TypeOK
    <2> QED
        BY <1>3, <2>1, <2>3 DEF CallInv, AtWork
<1>6. CASE Stop
    <2>1. Same /\ raised' = raised
        BY <1>6 DEF Stop
    <2>2. ASSUME NEW e, NEW c
          PROVE  AtWork(e, c) => AtWork(e, c)' \/ e \in cut'
        BY <1>6 DEF Stop, AtWork
    <2>3. \A t1 \in live : t1.event \in DOMAIN events
        BY DEF TypeOK
    <2> QED
        BY <1>3, <1>6, <2>1, <2>2, <2>3 DEF CallInv, Stop
<1>7. CASE UNCHANGED vars
    <2>1. Same /\ UNCHANGED <<live, raised, cut, stopped>>
        BY <1>7 DEF vars
    <2>3. \A t1 \in live : t1.event \in DOMAIN events
        BY DEF TypeOK
    <2> QED
        BY <1>3, <2>1, <2>3 DEF CallInv, AtWork
<1> QED
    BY <1>1, <1>2, <1>4, <1>5, <1>6, <1>7 DEF Next, Receive, Run

THEOREM CallInvSafety == Spec => []CallInv
<1> QED
    BY TypeInit, TypeStep, CallInit, CallStep, PTL DEF Spec

LEMMA DueWhenCalled == TypeOK /\ CallInv => CallsWhatIsDue
<1> SUFFICES ASSUME TypeOK, CallInv, WellNamed(program),
                    NEW e \in DOMAIN events, ~Rejected(program, events[e])
             PROVE  /\ \A c, d \in DOMAIN called[e] :
                        \A i \in DOMAIN called[e][c], j \in DOMAIN called[e][d] :
                            called[e][c][i] = called[e][d][j] => c = d /\ i = j
                    /\ Calls(e) \subseteq DueMethods(program, events[e])
                                            \cup DueFunctions(program, events[e])
                    /\ DueFunctions(program, events[e]) \subseteq Calls(e)
                    /\ Of(e) = {} /\ e \notin cut /\ <<e, 1>> \notin raised =>
                            DueMethods(program, events[e]) \subseteq Calls(e)
    BY DEF CallsWhatIsDue
<1> DEFINE C == Chains(program, events[e])
           methods == DueMethods(program, events[e])
           functions == DueFunctions(program, events[e])
           s == called[e]
<1>1. Plan(e) = C
    BY DEF Plan
<1>2. program \in Programs
    BY DEF TypeOK
<1>3. /\ 1 \in DOMAIN C
      /\ \A c \in DOMAIN C : C[c] \in Seq(Decorated(program))
      /\ \A c \in DOMAIN C \ {1} : Len(C[c]) = 1
      /\ {C[c][1].handler : c \in DOMAIN C \ {1}} = functions
      /\ {x.handler : x \in Entries(C[1])} = methods
      /\ \A c, d \in DOMAIN C : \A i \in DOMAIN C[c], j \in DOMAIN C[d] :
            C[c][i].handler = C[d][j].handler => c = d /\ i = j
    BY <1>2, ChainsFacts
<1>4. /\ DOMAIN s = DOMAIN C
      /\ \A c \in DOMAIN C :
            /\ Begun(program, s[c], C[c])
            /\ AtWork(e, c) \/ <<e, c>> \in raised \/ e \in cut \/ Len(s[c]) = Len(C[c])
    BY <1>1 DEF CallInv
<1> HIDE DEF C, methods, functions, s
<1>5. ASSUME NEW c \in DOMAIN C
      PROVE  /\ DOMAIN s[c] = 1..Len(s[c]) /\ DOMAIN C[c] = 1..Len(C[c])
             /\ Len(s[c]) \in Nat /\ Len(C[c]) \in Nat /\ Len(s[c]) <= Len(C[c])
             /\ \A i \in DOMAIN s[c] : i \in DOMAIN C[c] /\ s[c][i] = C[c][i].handler
             /\ Len(C[c]) > 0 => Len(s[c]) > 0
    <2>1. C[c] \in Seq(Decorated(program)) /\ s[c] \in Seq(Handlers(program))
        BY <1>3, <1>4 DEF Begun
    <2>2. /\ Len(s[c]) <= Len(C[c]) /\ \A i \in DOMAIN s[c] : s[c][i] = C[c][i].handler
          /\ C[c] # <<>> => s[c] # <<>>
        BY <1>4 DEF Begun
    <2>3. /\ DOMAIN s[c] = 1..Len(s[c]) /\ DOMAIN C[c] = 1..Len(C[c])
          /\ Len(s[c]) \in Nat /\ Len(C[c]) \in Nat
        BY <2>1
    <2>4. (Len(C[c]) > 0 => C[c] # <<>>) /\ (s[c] # <<>> => Len(s[c]) > 0)
        BY <2>1
    <2> QED
        BY <2>2, <2>3, <2>4
<1>6. \A c, d \in DOMAIN s : \A i \in DOMAIN s[c], j \in DOMAIN s[d] :
            s[c][i] = s[d][j] => c = d /\ i = j
    <2> SUFFICES ASSUME NEW c \in DOMAIN C, NEW d \in DOMAIN C,
                        NEW i \in DOMAIN s[c], NEW j \in DOMAIN s[d], s[c][i] = s[d][j]
                 PROVE  c = d /\ i = j
        BY <1>4
    <2>1. i \in DOMAIN C[c] /\ j \in DOMAIN C[d] /\ C[c][i].handler = C[d][j].handler
        BY <1>5
    <2> QED
        BY <1>3, <2>1
<1>7. Calls(e) = UNION {Entries(s[c]) : c \in DOMAIN C}
    BY <1>4 DEF Calls, s
<1>8. Calls(e) \subseteq methods \cup functions
    <2> SUFFICES ASSUME NEW c \in DOMAIN C, NEW i \in DOMAIN s[c]
                 PROVE  s[c][i] \in methods \cup functions
        BY <1>7 DEF Entries
    <2>1. i \in DOMAIN C[c] /\ s[c][i] = C[c][i].handler
        BY <1>5
    <2>2. CASE c = 1
        BY <1>3, <2>1, <2>2 DEF Entries
    <2>3. CASE c # 1
        <3>1. i = 1
            BY <1>3, <1>5, <2>1, <2>3
        <3> QED
            BY <1>3, <2>1, <2>3, <3>1
    <2> QED
        BY <2>2, <2>3
<1>9. functions \subseteq Calls(e)
    <2> SUFFICES ASSUME NEW c \in DOMAIN C \ {1} PROVE C[c][1].handler \in Calls(e)
        BY <1>3
    <2>1. 1 \in DOMAIN s[c]
        BY <1>3, <1>5
    <2>2. s[c][1] = C[c][1].handler
        BY <1>5, <2>1
    <2> QED
        BY <1>7, <2>1, <2>2 DEF Entries
<1>10. ASSUME Of(e) = {}, e \notin cut, <<e, 1>> \notin raised
       PROVE  methods \subseteq Calls(e)
    <2>1. Len(s[1]) = Len(C[1])
        BY <1>3, <1>4, <1>10 DEF AtWork, Of
    <2>2. \A i \in DOMAIN C[1] : i \in DOMAIN s[1] /\ s[1][i] = C[1][i].handler
        BY <1>3, <1>5, <2>1
    <2> SUFFICES ASSUME NEW i \in DOMAIN C[1] PROVE C[1][i].handler \in Calls(e)
        BY <1>3 DEF Entries
    <2> QED
        BY <1>3, <1>7, <2>2 DEF Entries
<1> QED
    BY <1>6, <1>8, <1>9, <1>10 DEF methods, functions, s

\* In a program with plain class names every event calls the handlers that Python's
\* own lookup would give, no others and none twice, whatever is registered and
\* however the handlers of the events interleave, return and raise.
THEOREM CallSafety == Spec => []CallsWhatIsDue
<1> QED
    BY TypeSafety, CallInvSafety, DueWhenCalled, PTL

=============================================================================

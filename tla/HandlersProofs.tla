----------------------------- MODULE HandlersProofs ----------------------------
(***************************************************************************)
(* What the handlers of the compiler rest on, in three parts.  The first   *)
(* is what instructions do to the resources that are held, as a discipline *)
(* that every block keeps by itself: given what is held where the block    *)
(* begins, each instruction finds what it needs, and each branch finds     *)
(* what the block it goes to expects; emitting instructions keeps this.    *)
(* The second is the program as it grows under the hands of the compiler:  *)
(* which statements lie around a node, what is held where its blocks       *)
(* begin, and that what has been said of a node is not changed by those    *)
(* that follow it.  The third is the handlers as they begin, and those     *)
(* that are done at once: the stacks of the compiler mirror the handlers   *)
(* in progress, and the code written so far keeps the discipline.          *)
(***************************************************************************)
EXTENDS HeldResources, Integers, SequenceTheorems, FiniteSetTheorems, WellFoundedInduction, TLAPS

-----------------------------------------------------------------------------
(* The discipline of a block *)

Instructions(names) ==
  [op : {"br"}, to : SUBSET names]
  \cup [op : {"ret", "raise"}]
  \cup [op : {"eval", "call"}, what : names]
  \cup [op : {"acquire", "release"}, res : SUBSET names]

Named(names, c) ==
  /\ c = [b \in DOMAIN c |-> c[b]]
  /\ DOMAIN c \subseteq names
  /\ \A b \in DOMAIN c : c[b] \in Seq(Instructions(names))

(* Acquired and released by the instructions before the k-th.              *)
Acquired(i) == IF i.op = "acquire" THEN i.res ELSE {}
Released(i) == IF i.op = "release" THEN i.res ELSE {}
Gains(s, k) == UNION {Acquired(s[j]) : j \in 1..(k - 1)}
Drops(s, k) == UNION {Released(s[j]) : j \in 1..(k - 1)}

(* What is held before the k-th instruction, if m was held at first and    *)
(* nothing is acquired that has been released.                             *)
Before(m, s, k) == (m \cup Gains(s, k)) \ Drops(s, k)

(* A typing T says of each block what is held where it begins, of each     *)
(* node of the program what has to be held where it is evaluated, which    *)
(* blocks there are, and whether the program is tidy and all that it       *)
(* throws is caught by a clause.                                           *)
Ok(T, i, h, dropped) ==
  /\ i.op \in {"eval", "call"} => T.scope[i.what[1]] \subseteq h
  /\ i.op = "br" => \A t \in i.to : t \in T.blocks /\ T.held[t] \subseteq h
  /\ i.op = "acquire" => i.res \cap (h \cup dropped) = {}
  /\ T.tidy => /\ i.op \in {"call", "ret", "raise"} => h = {}
               /\ i.op = "br" => \A t \in i.to : h \subseteq T.held[t]

TypedSeq(T, m, s) == \A k \in DOMAIN s : Ok(T, s[k], Before(m, s, k), Drops(s, k))
TypedCode(T, c) == \A b \in DOMAIN c : TypedSeq(T, T.held[b], c[b])

WellBlocks(c) == \A b \in DOMAIN c : \A k \in 1..(Len(c[b]) - 1) : ~IsTerminator(c[b][k])

(* s is typed and leads from m to h, having released d.                    *)
Leads(T, m, s, h, d) ==
  /\ TypedSeq(T, m, s)
  /\ Before(m, s, Len(s) + 1) = h
  /\ Drops(s, Len(s) + 1) = d

-----------------------------------------------------------------------------
(* Sequences *)

LEMMA Joining ==
  ASSUME NEW S, NEW s \in Seq(S), NEW t \in Seq(S), NEW u \in Seq(S), NEW x \in S
  PROVE  /\ s \o (t \o u) = (s \o t) \o u
         /\ s \o <<>> = s /\ <<>> \o s = s
         /\ s \o <<x>> = Append(s, x)
         /\ s \o t \in Seq(S) /\ <<x>> \in Seq(S) /\ <<>> \in Seq(S)
<1>1. s \o (t \o u) = (s \o t) \o u
  BY ConcatAssociative, SMTT(60)
<1>2. s \o <<>> = s /\ <<>> \o s = s
  BY ConcatEmptySeq
<1>3. s \o <<x>> = Append(s, x)
  BY AppendIsConcat
<1>4. s \o t \in Seq(S)
  BY ConcatProperties
<1> QED BY <1>1, <1>2, <1>3, <1>4

LEMMA TopAndPop ==
  ASSUME NEW S, NEW s \in Seq(S), s # <<>>
  PROVE  /\ Len(s) \in Nat \ {0} /\ Top(s) = s[Len(s)] /\ Top(s) \in S
         /\ Pop(s) \in Seq(S) /\ Len(Pop(s)) = Len(s) - 1
         /\ \A i \in 1..(Len(s) - 1) : Pop(s)[i] = s[i]
         /\ s = Append(Pop(s), Top(s))
<1>1. Len(s) \in Nat \ {0}
  OBVIOUS
<1>2. Top(s) = s[Len(s)] /\ Top(s) \in S
  BY <1>1 DEF Top
<1>3. Pop(s) \in Seq(S) /\ Len(Pop(s)) = Len(s) - 1 /\ \A i \in 1..(Len(s) - 1) : Pop(s)[i] = s[i]
  <2> DEFINE n == Len(s) - 1
  <2>0. \A i \in 1..n : s[i] \in S
    <3> SUFFICES ASSUME NEW i \in 1..n PROVE s[i] \in S
      OBVIOUS
    <3>1. i \in 1..Len(s)
      BY <1>1
    <3> QED BY <3>1, ElementOfSeq
  <2>1. n \in Nat
    BY <1>1
  <2>2. Pop(s) = SubSeq(s, 1, n)
    BY DEF Pop
  <2> HIDE DEF n
  <2>3. /\ SubSeq(s, 1, n) \in Seq(S)
        /\ Len(SubSeq(s, 1, n)) = IF 1 <= n THEN n - 1 + 1 ELSE 0
        /\ \A i \in 1..(n - 1 + 1) : SubSeq(s, 1, n)[i] = s[1 + i - 1]
    BY <2>0, <2>1, SubSeqProperties
  <2>4. n - 1 + 1 = n /\ (\A i \in 1..n : 1 + i - 1 = i) /\ ((IF 1 <= n THEN n ELSE 0) = n)
    BY <2>1
  <2> QED BY <2>2, <2>3, <2>4 DEF n
<1>4. s = Append(Pop(s), Top(s))
  BY <1>1, <1>2, <1>3
<1> QED BY <1>1, <1>2, <1>3, <1>4

Elements(s) == {s[i] : i \in DOMAIN s}

(* Stacks of blocks in the order of their nodes.                           *)
Sorted(s) == \A i, j \in DOMAIN s : i < j => s[i][1] < s[j][1]
Increasing(s) == \A i, j \in DOMAIN s : i < j => s[i] < s[j]

LEMMA SortedPush ==
  ASSUME NEW S, NEW s \in Seq(S), NEW x \in S
  PROVE  /\ Append(s, x) \in Seq(S)
         /\ Elements(Append(s, x)) = Elements(s) \cup {x}
         /\ Top(Append(s, x)) = x /\ Pop(Append(s, x)) = s
         /\ Sorted(s) /\ (\A e \in Elements(s) : e[1] < x[1]) => Sorted(Append(s, x))
         /\ Increasing(s) /\ (\A e \in Elements(s) : e < x) => Increasing(Append(s, x))
<1> DEFINE t == Append(s, x)
<1>1. t \in Seq(S) /\ Len(t) = Len(s) + 1 /\ t[Len(s) + 1] = x /\ \A i \in 1..Len(s) : t[i] = s[i]
  OBVIOUS
<1>2. DOMAIN t = 1..(Len(s) + 1) /\ DOMAIN s = 1..Len(s) /\ Len(s) \in Nat
  BY <1>1
<1> HIDE DEF t
<1>3. Elements(t) = Elements(s) \cup {x}
  BY <1>1, <1>2 DEF Elements
<1>4. Top(t) = x
  BY <1>1, <1>2 DEF Top
<1>5. Pop(t) = s
  BY <1>1, <1>2 DEF Pop
<1>6. ASSUME Sorted(s), \A e \in Elements(s) : e[1] < x[1]
      PROVE  Sorted(t)
  BY <1>1, <1>2, <1>6 DEF Elements, Sorted
<1>7. ASSUME Increasing(s), \A e \in Elements(s) : e < x
      PROVE  Increasing(t)
  BY <1>1, <1>2, <1>7 DEF Elements, Increasing
<1> QED BY <1>1, <1>3, <1>4, <1>5, <1>6, <1>7 DEF t

LEMMA SortedPop ==
  ASSUME NEW S, NEW s \in Seq(S), s # <<>>
  PROVE  /\ Pop(s) \in Seq(S)
         /\ Top(s) \in Elements(s)
         /\ Elements(Pop(s)) \subseteq Elements(s)
         /\ Elements(s) = Elements(Pop(s)) \cup {Top(s)}
         /\ Sorted(s) => /\ Sorted(Pop(s))
                         /\ \A e \in Elements(Pop(s)) : e[1] < Top(s)[1]
         /\ Increasing(s) => /\ Increasing(Pop(s))
                             /\ \A e \in Elements(Pop(s)) : e < Top(s)
<1> DEFINE t == Pop(s)
<1>1. /\ t \in Seq(S) /\ Len(t) = Len(s) - 1 /\ \A i \in 1..(Len(s) - 1) : t[i] = s[i]
      /\ Len(s) \in Nat \ {0} /\ Top(s) = s[Len(s)]
  BY TopAndPop
<1>2. DOMAIN s = 1..Len(s) /\ DOMAIN t = 1..(Len(s) - 1)
  BY <1>1
<1> HIDE DEF t
<1>3. Elements(s) = Elements(t) \cup {Top(s)} /\ Top(s) \in Elements(s)
  BY <1>1, <1>2 DEF Elements
<1>4. ASSUME Sorted(s)
      PROVE  Sorted(t) /\ \A e \in Elements(t) : e[1] < Top(s)[1]
  BY <1>1, <1>2, <1>4, SMTT(60) DEF Sorted, Elements
<1>5. ASSUME Increasing(s)
      PROVE  Increasing(t) /\ \A e \in Elements(t) : e < Top(s)
  BY <1>1, <1>2, <1>5, SMTT(60) DEF Increasing, Elements
<1> QED BY <1>1, <1>3, <1>4, <1>5 DEF t

-----------------------------------------------------------------------------
(* Instructions one after the other *)

LEMMA Members ==
  ASSUME NEW s, NEW k, NEW r
  PROVE  /\ r \in Drops(s, k) <=> \E j \in 1..(k - 1) : r \in Released(s[j])
         /\ r \in Gains(s, k) <=> \E j \in 1..(k - 1) : r \in Acquired(s[j])
<1>1. r \in Drops(s, k) <=> \E j \in 1..(k - 1) : r \in Released(s[j])
  BY DEF Drops
<1>2. r \in Gains(s, k) <=> \E j \in 1..(k - 1) : r \in Acquired(s[j])
  BY DEF Gains
<1> QED BY <1>1, <1>2

LEMMA Appending ==
  ASSUME NEW S, NEW s \in Seq(S), NEW i \in S, NEW m, NEW T
  PROVE  /\ \A k \in 1..(Len(s) + 1) : /\ Drops(Append(s, i), k) = Drops(s, k)
                                       /\ Before(m, Append(s, i), k) = Before(m, s, k)
         /\ Drops(Append(s, i), Len(s) + 2)
              = Drops(s, Len(s) + 1) \cup (IF i.op = "release" THEN i.res ELSE {})
         /\ Before(m, Append(s, i), Len(s) + 2)
              = (Before(m, s, Len(s) + 1) \cup (IF i.op = "acquire" THEN i.res \ Drops(s, Len(s) + 1) ELSE {}))
                \ (IF i.op = "release" THEN i.res ELSE {})
<1> DEFINE t == Append(s, i)
           n == Len(s)
<1>1. /\ n \in Nat /\ Len(t) = n + 1 /\ t[n + 1] = i
      /\ \A k \in 1..n : t[k] = s[k]
  OBVIOUS
<1> HIDE DEF t, n
<1>2. ASSUME NEW k \in 1..(n + 1)
      PROVE  Gains(t, k) = Gains(s, k) /\ Drops(t, k) = Drops(s, k)
  <2>1. \A l \in 1..(k - 1) : t[l] = s[l]
    BY <1>1
  <2> QED BY <2>1 DEF Gains, Drops
<1>3. \A k \in 1..(n + 1) : Drops(t, k) = Drops(s, k) /\ Before(m, t, k) = Before(m, s, k)
  BY <1>2 DEF Before
<1>4. \A l \in 1..((n + 2) - 1) : IF l = n + 1 THEN t[l] = i ELSE l \in 1..((n + 1) - 1) /\ t[l] = s[l]
  BY <1>1
<1>5. n + 1 \in 1..((n + 2) - 1) /\ 1..((n + 1) - 1) \subseteq 1..((n + 2) - 1) /\ n + 1 \notin 1..((n + 1) - 1)
  BY <1>1
<1>6. Drops(t, n + 2) = Drops(s, n + 1) \cup (IF i.op = "release" THEN i.res ELSE {})
  <2> SUFFICES ASSUME NEW r
               PROVE  r \in Drops(t, n + 2) <=> r \in Drops(s, n + 1) \/ r \in Released(i)
    BY DEF Released
  <2>1. r \in Drops(t, n + 2) <=> \E j \in 1..((n + 2) - 1) : r \in Released(t[j])
    BY Members
  <2>2. r \in Drops(s, n + 1) <=> \E j \in 1..((n + 1) - 1) : r \in Released(s[j])
    BY Members
  <2> QED BY <1>1, <1>4, <1>5, <2>1, <2>2
<1>7. Gains(t, n + 2) = Gains(s, n + 1) \cup (IF i.op = "acquire" THEN i.res ELSE {})
  <2> SUFFICES ASSUME NEW r
               PROVE  r \in Gains(t, n + 2) <=> r \in Gains(s, n + 1) \/ r \in Acquired(i)
    BY DEF Acquired
  <2>1. r \in Gains(t, n + 2) <=> \E j \in 1..((n + 2) - 1) : r \in Acquired(t[j])
    BY Members
  <2>2. r \in Gains(s, n + 1) <=> \E j \in 1..((n + 1) - 1) : r \in Acquired(s[j])
    BY Members
  <2> QED BY <1>1, <1>4, <1>5, <2>1, <2>2
<1>8. i.op = "release" => i.op # "acquire"
  OBVIOUS
<1>9. Before(m, t, n + 2)
        = (Before(m, s, n + 1) \cup (IF i.op = "acquire" THEN i.res \ Drops(s, n + 1) ELSE {}))
          \ (IF i.op = "release" THEN i.res ELSE {})
  BY <1>6, <1>7, <1>8 DEF Before
<1> QED BY <1>3, <1>6, <1>9 DEF t, n

(* A sequence that is typed can be continued with an instruction that      *)
(* finds what it needs.                                                    *)
LEMMA Continuing ==
  ASSUME NEW S, NEW s \in Seq(S), NEW i \in S, NEW T, NEW m, NEW h, NEW d,
         Leads(T, m, s, h, d), Ok(T, i, h, d)
  PROVE  Leads(T, m, s \o <<i>>,
               IF i.op = "acquire" THEN h \cup i.res ELSE IF i.op = "release" THEN h \ i.res ELSE h,
               IF i.op = "release" THEN d \cup i.res ELSE d)
<1> DEFINE t == Append(s, i)
           n == Len(s)
<1>1. t = s \o <<i>>
  BY AppendIsConcat
<1>2. /\ n \in Nat /\ Len(t) = n + 1 /\ t[n + 1] = i /\ DOMAIN t = 1..(n + 1) /\ DOMAIN s = 1..n
      /\ \A k \in 1..n : t[k] = s[k]
  OBVIOUS
<1>3. /\ \A k \in 1..(n + 1) : Drops(t, k) = Drops(s, k) /\ Before(m, t, k) = Before(m, s, k)
      /\ Drops(t, n + 2) = Drops(s, n + 1) \cup (IF i.op = "release" THEN i.res ELSE {})
      /\ Before(m, t, n + 2)
           = (Before(m, s, n + 1) \cup (IF i.op = "acquire" THEN i.res \ Drops(s, n + 1) ELSE {}))
             \ (IF i.op = "release" THEN i.res ELSE {})
  BY Appending
<1>4. Before(m, s, n + 1) = h /\ Drops(s, n + 1) = d /\ TypedSeq(T, m, s)
  BY DEF Leads
<1> HIDE DEF t, n
<1>5. TypedSeq(T, m, t)
  <2> SUFFICES ASSUME NEW k \in 1..(n + 1)
               PROVE  Ok(T, t[k], Before(m, t, k), Drops(t, k))
    BY <1>2 DEF TypedSeq
  <2>1. CASE k = n + 1
    BY <1>2, <1>3, <1>4, <2>1
  <2>2. CASE k # n + 1
    <3>1. k \in 1..n
      BY <1>2, <2>2
    <3> QED BY <1>2, <1>3, <1>4, <3>1 DEF TypedSeq
  <2> QED BY <2>1, <2>2
<1>6. i.op = "acquire" => i.res \cap d = {}
  BY DEF Ok
<1>7. n + 1 + 1 = n + 2
  BY <1>2
<1> QED BY <1>1, <1>2, <1>3, <1>4, <1>5, <1>6, <1>7 DEF Leads

LEMMA Starting ==
  ASSUME NEW T, NEW m
  PROVE  Leads(T, m, <<>>, m, {})
<1>1. DOMAIN <<>> = {} /\ Len(<<>>) = 0 /\ 1..((0 + 1) - 1) = {}
  OBVIOUS
<1>2. Drops(<<>>, 0 + 1) = {} /\ Gains(<<>>, 0 + 1) = {}
  BY <1>1, Members
<1> QED BY <1>1, <1>2 DEF Leads, TypedSeq, Before

(* After any instructions that lead to h and d, s is typed and leads to h2 *)
(* and d2.                                                                 *)
Runs(names, T, s, h, d, h2, d2) ==
  /\ s \in Seq(Instructions(names))
  /\ \A m : \A p \in Seq(Instructions(names)) : Leads(T, m, p, h, d) => Leads(T, m, p \o s, h2, d2)

LEMMA RunOne ==
  ASSUME NEW names, NEW T, NEW h, NEW d, NEW i \in Instructions(names), Ok(T, i, h, d)
  PROVE  Runs(names, T, <<i>>, h, d,
              IF i.op = "acquire" THEN h \cup i.res ELSE IF i.op = "release" THEN h \ i.res ELSE h,
              IF i.op = "release" THEN d \cup i.res ELSE d)
<1> DEFINE h2 == IF i.op = "acquire" THEN h \cup i.res ELSE IF i.op = "release" THEN h \ i.res ELSE h
           d2 == IF i.op = "release" THEN d \cup i.res ELSE d
<1>1. <<i>> \in Seq(Instructions(names))
  OBVIOUS
<1>2. ASSUME NEW m, NEW p \in Seq(Instructions(names)), Leads(T, m, p, h, d)
      PROVE  Leads(T, m, p \o <<i>>, h2, d2)
  BY <1>2, Continuing
<1> HIDE DEF h2, d2
<1>3. Runs(names, T, <<i>>, h, d, h2, d2)
  BY <1>1, <1>2 DEF Runs
<1> QED BY <1>3 DEF h2, d2

LEMMA RunNothing ==
  ASSUME NEW names, NEW T, NEW h, NEW d
  PROVE  Runs(names, T, <<>>, h, d, h, d)
<1>1. \A p \in Seq(Instructions(names)) : p \o <<>> = p
  BY ConcatEmptySeq
<1>2. <<>> \in Seq(Instructions(names))
  BY EmptySeq
<1> QED BY <1>1, <1>2 DEF Runs

LEMMA RunBoth ==
  ASSUME NEW names, NEW T, NEW s, NEW t, NEW h, NEW d, NEW h1, NEW d1, NEW h2, NEW d2,
         Runs(names, T, s, h, d, h1, d1), Runs(names, T, t, h1, d1, h2, d2)
  PROVE  Runs(names, T, s \o t, h, d, h2, d2)
<1> DEFINE I == Instructions(names)
<1>1. s \in Seq(I) /\ t \in Seq(I)
  BY DEF Runs
<1> HIDE DEF I
<1>2. s \o t \in Seq(I)
  BY <1>1, ConcatProperties
<1>3. ASSUME NEW m, NEW p \in Seq(I), Leads(T, m, p, h, d)
      PROVE  Leads(T, m, p \o (s \o t), h2, d2)
  <2>1. Leads(T, m, p \o s, h1, d1)
    BY <1>3 DEF Runs, I
  <2>2. p \o s \in Seq(I)
    BY <1>1, ConcatProperties
  <2>3. Leads(T, m, (p \o s) \o t, h2, d2)
    BY <2>1, <2>2 DEF Runs, I
  <2>4. (p \o s) \o t = p \o (s \o t)
    BY <1>1, ConcatAssociative, SMTT(60)
  <2> QED BY <2>3, <2>4
<1> QED BY <1>2, <1>3 DEF Runs, I

LEMMA Evaluating ==
  ASSUME NEW names, NEW T, NEW h, NEW d, NEW x \in names, T.scope[x[1]] \subseteq h
  PROVE  Runs(names, T, <<Eval(x)>>, h, d, h, d)
<1>1. Eval(x) \in Instructions(names) /\ Eval(x).op = "eval" /\ Eval(x).what = x
  BY DEF Eval, Instructions
<1>2. Ok(T, Eval(x), h, d)
  BY <1>1 DEF Ok
<1> QED BY <1>1, <1>2, RunOne

LEMMA Calling ==
  ASSUME NEW names, NEW T, NEW h, NEW d, NEW x \in names, T.scope[x[1]] \subseteq h, T.tidy => h = {}
  PROVE  Runs(names, T, <<Call(x)>>, h, d, h, d)
<1>1. Call(x) \in Instructions(names) /\ Call(x).op = "call" /\ Call(x).what = x
  BY DEF Call, Instructions
<1>2. Ok(T, Call(x), h, d)
  BY <1>1 DEF Ok
<1> QED BY <1>1, <1>2, RunOne

(* What a block expects that is branched to with h.                        *)
Expects(T, t, h) == t \in T.blocks /\ T.held[t] \subseteq h /\ (T.tidy => h \subseteq T.held[t])

LEMMA Branching ==
  ASSUME NEW names, NEW T, NEW h, NEW d, NEW ts \in SUBSET names, \A t \in ts : Expects(T, t, h)
  PROVE  Runs(names, T, <<Br(ts)>>, h, d, h, d)
<1>1. Br(ts) \in Instructions(names) /\ Br(ts).op = "br" /\ Br(ts).to = ts
  BY DEF Br, Instructions
<1>2. Ok(T, Br(ts), h, d)
  BY <1>1 DEF Ok, Expects
<1> QED BY <1>1, <1>2, RunOne

LEMMA Leaving ==
  ASSUME NEW names, NEW T, NEW h, NEW d, T.tidy => h = {}
  PROVE  Runs(names, T, <<Ret>>, h, d, h, d) /\ Runs(names, T, <<Raise>>, h, d, h, d)
<1>1. /\ Ret \in Instructions(names) /\ Ret.op = "ret"
      /\ Raise \in Instructions(names) /\ Raise.op = "raise"
  BY DEF Ret, Raise, Instructions
<1>2. Ok(T, Ret, h, d) /\ Ok(T, Raise, h, d)
  BY <1>1 DEF Ok
<1>3. Runs(names, T, <<Ret>>, h, d, h, d)
  BY <1>1, <1>2, RunOne
<1>4. Runs(names, T, <<Raise>>, h, d, h, d)
  BY <1>1, <1>2, RunOne
<1> QED BY <1>3, <1>4

LEMMA Releasing ==
  ASSUME NEW names, NEW T, NEW h, NEW d, NEW rs \in SUBSET names
  PROVE  /\ Runs(names, T, <<Release(rs)>>, h, d, h \ rs, d \cup rs)
         /\ Runs(names, T, ReleaseAll(rs), h, d, h \ rs, d \cup rs)
<1>1. /\ Release(rs) \in Instructions(names) /\ Release(rs).op = "release" /\ Release(rs).res = rs
  BY DEF Release, Instructions
<1>2. Ok(T, Release(rs), h, d)
  BY <1>1 DEF Ok
<1>3. Runs(names, T, <<Release(rs)>>, h, d, h \ rs, d \cup rs)
  BY <1>1, <1>2, RunOne
<1>4. CASE rs = {}
  <2>1. ReleaseAll(rs) = <<>> /\ h \ rs = h /\ d \cup rs = d
    BY <1>4 DEF ReleaseAll
  <2> QED BY <1>3, <2>1, RunNothing
<1>5. CASE rs # {}
  BY <1>3, <1>5 DEF ReleaseAll
<1> QED BY <1>3, <1>4, <1>5

LEMMA Acquiring ==
  ASSUME NEW names, NEW T, NEW h, NEW d, NEW rs \in SUBSET names, rs \cap (h \cup d) = {}
  PROVE  Runs(names, T, AcquireAll(rs), h, d, h \cup rs, d)
<1> DEFINE i == [op |-> "acquire", res |-> rs]
<1>1. i \in Instructions(names) /\ i.op = "acquire" /\ i.res = rs
  BY DEF Instructions
<1>2. Ok(T, i, h, d)
  BY <1>1 DEF Ok
<1> HIDE DEF i
<1>3. Runs(names, T, <<i>>, h, d, h \cup rs, d)
  BY <1>1, <1>2, RunOne
<1>4. CASE rs = {}
  <2>1. AcquireAll(rs) = <<>> /\ h \cup rs = h
    BY <1>4 DEF AcquireAll
  <2> QED BY <2>1, RunNothing
<1>5. CASE rs # {}
  <2>1. AcquireAll(rs) = <<i>>
    BY <1>5 DEF AcquireAll, i
  <2> QED BY <1>3, <2>1
<1> QED BY <1>4, <1>5

(* One instruction after the other.                                        *)
LEMMA Pairs ==
  ASSUME NEW S, NEW x \in S, NEW y \in S
  PROVE  <<x, y>> = <<x>> \o <<y>>
<1>1. <<x>> \in Seq(S)
  OBVIOUS
<1>2. Append(<<x>>, y) = <<x, y>>
  <2> DEFINE t == Append(<<x>>, y)
             u == <<x, y>>
  <2>1. t \in Seq(S) /\ Len(t) = 2 /\ t[1] = x /\ t[2] = y
    BY <1>1
  <2>2. u \in Seq(S) /\ Len(u) = 2 /\ u[1] = x /\ u[2] = y
    OBVIOUS
  <2> HIDE DEF t, u
  <2>3. t = u
    BY <2>1, <2>2, SeqEqual
  <2> QED BY <2>3 DEF t, u
<1> QED BY <1>1, <1>2, AppendIsConcat

(* Releasing something before the terminator that nobody expects there.    *)
LEMMA Inserting ==
  ASSUME NEW names, NEW s \in Seq(Instructions(names)), s # <<>>, IsTerminator(Top(s)),
         NEW T, NEW m, TypedSeq(T, m, s), NEW rs \in SUBSET names,
         Top(s).op = "br" => \A t \in Top(s).to : T.held[t] \cap rs = {}
  PROVE  TypedSeq(T, m, Pop(s) \o ReleaseAll(rs) \o <<Top(s)>>)
<1> DEFINE p == Pop(s)
           i == Top(s)
           n == Len(p)
           h == Before(m, p, n + 1)
           d == Drops(p, n + 1)
<1>1. /\ p \in Seq(Instructions(names)) /\ i \in Instructions(names) /\ s = Append(p, i)
      /\ n \in Nat /\ Len(s) = n + 1 /\ DOMAIN s = 1..(n + 1) /\ DOMAIN p = 1..n
      /\ \A k \in 1..n : s[k] = p[k]
      /\ s[n + 1] = i
  BY TopAndPop, LenProperties, SMTT(60)
<1> HIDE DEF p, i, n
<1>2. \A k \in 1..(n + 1) : Drops(s, k) = Drops(p, k) /\ Before(m, s, k) = Before(m, p, k)
  <2>1. \A k \in 1..(Len(p) + 1) : /\ Drops(Append(p, i), k) = Drops(p, k)
                                    /\ Before(m, Append(p, i), k) = Before(m, p, k)
    BY <1>1, Appending, SMTT(60)
  <2> QED BY <1>1, <2>1 DEF n
<1>3. Ok(T, i, h, d) /\ Leads(T, m, p, h, d)
  BY <1>1, <1>2 DEF TypedSeq, Leads, n
<1> HIDE DEF h, d
<1>4. Leads(T, m, p \o ReleaseAll(rs), h \ rs, d \cup rs) /\ ReleaseAll(rs) \in Seq(Instructions(names))
  <2>1. Runs(names, T, ReleaseAll(rs), h, d, h \ rs, d \cup rs)
    BY Releasing
  <2> QED BY <1>1, <1>3, <2>1 DEF Runs
<1>5. Ok(T, i, h \ rs, d \cup rs)
  BY <1>3 DEF Ok, IsTerminator, i
<1>6. p \o ReleaseAll(rs) \in Seq(Instructions(names))
  BY <1>1, <1>4, ConcatProperties
<1>7. TypedSeq(T, m, (p \o ReleaseAll(rs)) \o <<i>>)
  BY <1>1, <1>4, <1>5, <1>6, Continuing DEF Leads
<1> QED BY <1>7 DEF p, i

-----------------------------------------------------------------------------
(* Code: a function from blocks to sequences of instructions *)

(* e is c with s written at the end of b.                                  *)
Extends(c, b, s, e) ==
  /\ DOMAIN e = DOMAIN c \cup {b}
  /\ \A x : Was(e, x) = IF x = b THEN Was(c, b) \o s ELSE Was(c, x)

LEMMA Adding ==
  ASSUME NEW names, NEW c, Named(names, c), NEW b \in names, NEW s \in Seq(Instructions(names))
  PROVE  /\ Named(names, c ++ In(b, s))
         /\ Extends(c, b, s, c ++ In(b, s))
         /\ Was(c, b) \in Seq(Instructions(names))
<1> DEFINE e == c ++ In(b, s)
           I == Instructions(names)
<1>1. DOMAIN In(b, s) = {b} /\ In(b, s)[b] = s
  BY DEF In
<1>2. DOMAIN e = DOMAIN c \cup {b}
  BY <1>1 DEF ++
<1>3. \A x \in DOMAIN e : e[x] = Was(c, x) \o Was(In(b, s), x)
  BY <1>1, <1>2 DEF ++
<1>4. e = [x \in DOMAIN e |-> e[x]]
  BY DEF ++
<1> HIDE DEF I, e
<1>5. \A x \in DOMAIN c : c[x] \in Seq(I)
  BY DEF Named, I
<1>6. <<>> \in Seq(I) /\ s \in Seq(I)
  BY EmptySeq DEF I
<1>7. \A x : Was(c, x) \in Seq(I)
  BY <1>5, <1>6 DEF Was
<1>8. \A x : Was(e, x) = IF x = b THEN Was(c, b) \o s ELSE Was(c, x)
  <2> SUFFICES ASSUME NEW x
               PROVE  Was(e, x) = IF x = b THEN Was(c, b) \o s ELSE Was(c, x)
    OBVIOUS
  <2>1. CASE x = b
    <3>1. Was(In(b, s), x) = s
      BY <1>1, <2>1 DEF Was
    <3> QED BY <1>2, <1>3, <2>1, <3>1 DEF Was
  <2>2. CASE x # b /\ x \in DOMAIN c
    <3>1. Was(In(b, s), x) = <<>>
      BY <1>1, <2>2 DEF Was
    <3>2. e[x] = Was(c, x) \o <<>>
      BY <1>2, <1>3, <2>2, <3>1
    <3>3. e[x] = Was(c, x)
      BY <1>7, <3>2, ConcatEmptySeq
    <3> QED BY <1>2, <2>2, <3>3 DEF Was
  <2>3. CASE x # b /\ x \notin DOMAIN c
    BY <1>2, <2>3 DEF Was
  <2> QED BY <2>1, <2>2, <2>3
<1>9. \A x \in DOMAIN e : e[x] \in Seq(I)
  <2> SUFFICES ASSUME NEW x \in DOMAIN e PROVE e[x] \in Seq(I)
    OBVIOUS
  <2>1. e[x] = Was(e, x)
    BY DEF Was
  <2>2. Was(c, b) \o s \in Seq(I)
    BY <1>6, <1>7, ConcatProperties
  <2> QED BY <1>7, <1>8, <2>1, <2>2
<1>10. Named(names, e)
  BY <1>2, <1>4, <1>9 DEF Named, I
<1> QED BY <1>2, <1>7, <1>8, <1>10 DEF e, I, Extends

(* Instructions after a terminator are never well placed again.            *)
LEMMA WellBefore ==
  ASSUME NEW names, NEW c, Named(names, c), NEW b \in names, NEW s \in Seq(Instructions(names)),
         WellBlocks(c ++ In(b, s))
  PROVE  /\ WellBlocks(c)
         /\ s # <<>> => b \notin DOMAIN c \/ ~Terminated(c, b)
<1> DEFINE e == c ++ In(b, s)
           I == Instructions(names)
<1>0. Extends(c, b, s, e) /\ Was(c, b) \in Seq(I)
  BY Adding
<1>1. /\ DOMAIN e = DOMAIN c \cup {b}
      /\ \A x : Was(e, x) = IF x = b THEN Was(c, b) \o s ELSE Was(c, x)
      /\ Was(c, b) \in Seq(I) /\ s \in Seq(I)
  BY <1>0 DEF Extends
<1>2. WellBlocks(e)
  OBVIOUS
<1>3. \A x \in DOMAIN c : c[x] \in Seq(I)
  BY DEF Named
<1> HIDE DEF e, I
<1>4. ASSUME NEW x \in DOMAIN c, x # b
      PROVE  e[x] = c[x]
  BY <1>1, <1>4 DEF Was
<1>5. ASSUME b \in DOMAIN c
      PROVE  /\ Len(e[b]) = Len(c[b]) + Len(s) /\ Len(c[b]) \in Nat /\ Len(s) \in Nat
             /\ \A k \in 1..Len(c[b]) : e[b][k] = c[b][k]
  <2>1. e[b] = c[b] \o s /\ c[b] \in Seq(I)
    BY <1>1, <1>3, <1>5 DEF Was
  <2> QED BY <1>1, <2>1, ConcatProperties, LenProperties
<1>6. WellBlocks(c)
  <2> SUFFICES ASSUME NEW x \in DOMAIN c, NEW k \in 1..(Len(c[x]) - 1)
               PROVE  ~IsTerminator(c[x][k])
    BY DEF WellBlocks
  <2>1. CASE x # b
    BY <1>1, <1>2, <1>4, <2>1 DEF WellBlocks
  <2>2. CASE x = b
    <3>1. k \in 1..(Len(e[b]) - 1) /\ k \in 1..Len(c[b])
      BY <1>5, <2>2
    <3> QED BY <1>1, <1>2, <1>5, <2>2, <3>1 DEF WellBlocks
  <2> QED BY <2>1, <2>2
<1>7. ASSUME s # <<>>, b \in DOMAIN c, Terminated(c, b)
      PROVE  FALSE
  <2>1. Len(c[b]) \in 1..(Len(e[b]) - 1)
    <3>1. Len(s) > 0
      BY <1>1, <1>7
    <3>2. c[b] # <<>> /\ c[b] \in Seq(I)
      BY <1>3, <1>7 DEF Terminated
    <3>3. Len(c[b]) > 0
      BY <3>2
    <3> QED BY <1>5, <1>7, <3>1, <3>3
  <2>2. IsTerminator(e[b][Len(c[b])])
    BY <1>5, <1>7, <2>1 DEF Terminated, Top
  <2> QED BY <1>1, <1>2, <2>1, <2>2 DEF WellBlocks
<1> QED BY <1>6, <1>7

(* Code that is named, and typed as far as it is worth it.                 *)
Written(names, T, c) == Named(names, c) /\ (T.caught /\ WellBlocks(c) => TypedCode(T, c))

LEMMA Writing ==
  ASSUME NEW names, NEW T, NEW c, Written(names, T, c), NEW b \in names,
         NEW s \in Seq(Instructions(names)),
         T.caught /\ WellBlocks(c ++ In(b, s)) => TypedSeq(T, T.held[b], Was(c, b) \o s)
  PROVE  Written(names, T, c ++ In(b, s))
<1> DEFINE e == c ++ In(b, s)
<1>0. Named(names, c)
  BY DEF Written
<1>1. Named(names, e) /\ Extends(c, b, s, e)
  BY <1>0, Adding
<1>2. ASSUME T.caught, WellBlocks(e)
      PROVE  TypedCode(T, e)
  <2>1. TypedCode(T, c)
    BY <1>0, <1>2, WellBefore DEF Written
  <2>2. TypedSeq(T, T.held[b], Was(c, b) \o s)
    BY <1>2
  <2> HIDE DEF e
  <2> SUFFICES ASSUME NEW x \in DOMAIN e
               PROVE  TypedSeq(T, T.held[x], e[x])
    BY DEF TypedCode
  <2>3. e[x] = IF x = b THEN Was(c, b) \o s ELSE c[x]
    BY <1>1 DEF Was, Extends
  <2> QED BY <1>1, <2>1, <2>2, <2>3 DEF TypedCode, Extends
<1> HIDE DEF e
<1>3. Written(names, T, e)
  BY <1>1, <1>2 DEF Written
<1> QED BY <1>3 DEF e

(* What is held at the end of s, and what has been released in it.         *)
After(m, s) == Before(m, s, Len(s) + 1)
Dropped(s) == Drops(s, Len(s) + 1)

LEMMA Ending ==
  ASSUME NEW T, NEW m, NEW s, TypedSeq(T, m, s)
  PROVE  Leads(T, m, s, After(m, s), Dropped(s))
BY DEF Leads, After, Dropped

(* Writing at the end of a block that has been begun.                      *)
Emitted(names, T, c, b, s, h, d, e) ==
  /\ Written(names, T, e) /\ Extends(c, b, s, e)
  /\ WellBlocks(e) => WellBlocks(c) /\ (s # <<>> => ~Terminated(c, b))
  /\ T.caught /\ WellBlocks(e) => After(T.held[b], e[b]) = h /\ Dropped(e[b]) = d

LEMMA Emitting ==
  ASSUME NEW names, NEW T, NEW c, Written(names, T, c), NEW b \in DOMAIN c,
         NEW s \in Seq(Instructions(names)), NEW h, NEW d,
         T.caught /\ WellBlocks(c) /\ (s # <<>> => ~Terminated(c, b)) =>
           Runs(names, T, s, After(T.held[b], c[b]), Dropped(c[b]), h, d)
  PROVE  Emitted(names, T, c, b, s, h, d, c ++ In(b, s))
<1> DEFINE e == c ++ In(b, s)
<1>0. Named(names, c) /\ b \in names /\ c[b] \in Seq(Instructions(names))
  BY DEF Written, Named
<1>1. Named(names, e) /\ Extends(c, b, s, e)
  BY <1>0, Adding
<1>2. WellBlocks(e) => WellBlocks(c) /\ (s # <<>> => ~Terminated(c, b))
  BY <1>0, WellBefore
<1>3. e[b] = c[b] \o s /\ Was(c, b) = c[b]
  BY <1>1 DEF Extends, Was
<1> HIDE DEF e
<1>4. ASSUME T.caught, WellBlocks(e)
      PROVE  Leads(T, T.held[b], c[b] \o s, h, d)
  <2>1. TypedSeq(T, T.held[b], c[b])
    BY <1>2, <1>4 DEF Written, TypedCode
  <2>2. Leads(T, T.held[b], c[b], After(T.held[b], c[b]), Dropped(c[b]))
    BY <2>1, Ending
  <2>3. Runs(names, T, s, After(T.held[b], c[b]), Dropped(c[b]), h, d)
    BY <1>2, <1>4
  <2> QED BY <1>0, <2>2, <2>3 DEF Runs
<1>5. Written(names, T, e)
  <2>1. T.caught /\ WellBlocks(e) => TypedSeq(T, T.held[b], Was(c, b) \o s)
    BY <1>3, <1>4 DEF Leads
  <2> QED BY <1>0, <2>1, Writing DEF e
<1>6. T.caught /\ WellBlocks(e) => After(T.held[b], e[b]) = h /\ Dropped(e[b]) = d
  BY <1>3, <1>4 DEF Leads, After, Dropped
<1> QED BY <1>1, <1>2, <1>5, <1>6 DEF e, Emitted

(* Writing a block that is empty.                                          *)
BlockFilled(names, T, c, b, s, h, d, e) ==
  /\ Written(names, T, e) /\ Extends(c, b, s, e) /\ b \in DOMAIN e /\ e[b] = s
  /\ T.caught => After(T.held[b], s) = h /\ Dropped(s) = d
  /\ WellBlocks(e) => WellBlocks(c)

LEMMA Filling ==
  ASSUME NEW names, NEW T, NEW c, Written(names, T, c), NEW b \in names, Was(c, b) = <<>>,
         NEW s, NEW h, NEW d,
         T.caught => Runs(names, T, s, T.held[b], {}, h, d),
         s \in Seq(Instructions(names))
  PROVE  BlockFilled(names, T, c, b, s, h, d, c ++ In(b, s))
<1> DEFINE e == c ++ In(b, s)
<1>0. Named(names, c)
  BY DEF Written
<1>1. Named(names, e) /\ Extends(c, b, s, e)
  BY <1>0, Adding
<1>2. Was(c, b) \o s = s
  BY ConcatEmptySeq
<1>3. T.caught => Leads(T, T.held[b], s, h, d)
  <2>1. Leads(T, T.held[b], <<>>, T.held[b], {})
    BY Starting
  <2>2. <<>> \in Seq(Instructions(names)) /\ <<>> \o s = s
    BY EmptySeq, ConcatEmptySeq
  <2> QED BY <2>1, <2>2 DEF Runs
<1>4. Written(names, T, e)
  <2>1. T.caught /\ WellBlocks(e) => TypedSeq(T, T.held[b], Was(c, b) \o s)
    BY <1>2, <1>3 DEF Leads
  <2> QED BY <2>1, Writing
<1>5. b \in DOMAIN e /\ e[b] = s
  <2> HIDE DEF e
  <2> QED BY <1>1, <1>2 DEF Extends, Was
<1>6. WellBlocks(e) => WellBlocks(c)
  BY <1>0, WellBefore
<1> HIDE DEF e
<1>7. T.caught => After(T.held[b], s) = h /\ Dropped(s) = d
  BY <1>3 DEF Leads, After, Dropped
<1> QED BY <1>1, <1>4, <1>5, <1>6, <1>7 DEF e, BlockFilled

(* Writing several blocks that are empty at once.                          *)
Fillable(names, T, c, new) ==
  /\ DOMAIN new \subseteq names
  /\ \A b \in DOMAIN new : Was(c, b) = <<>> /\ new[b] \in Seq(Instructions(names))
  /\ T.caught => \A b \in DOMAIN new : TypedSeq(T, T.held[b], new[b])
AllFilled(names, T, c, new, e) ==
  /\ Written(names, T, e) /\ DOMAIN e = DOMAIN c \cup DOMAIN new
  /\ \A x : Was(e, x) = IF x \in DOMAIN new THEN new[x] ELSE Was(c, x)
  /\ WellBlocks(e) => WellBlocks(c)

LEMMA FillingAll ==
  ASSUME NEW names, NEW T, NEW c, Written(names, T, c), NEW new, Fillable(names, T, c, new)
  PROVE  AllFilled(names, T, c, new, c ++ new)
<1> DEFINE e == c ++ new
           I == Instructions(names)
           B == DOMAIN new
<1>0. /\ B \subseteq names
      /\ \A x \in B : Was(c, x) = <<>> /\ new[x] \in Seq(I)
      /\ T.caught => \A x \in B : TypedSeq(T, T.held[x], new[x])
  BY DEF Fillable
<1>1. /\ Named(names, c)
      /\ T.caught /\ WellBlocks(c) => TypedCode(T, c)
  BY DEF Written
<1>2. DOMAIN new = B /\ \A x : Was(new, x) = IF x \in B THEN new[x] ELSE <<>>
  BY DEF Was
<1>3. DOMAIN e = DOMAIN c \cup B /\ e = [x \in DOMAIN e |-> e[x]]
  BY <1>2 DEF ++
<1>4. \A x \in DOMAIN e : e[x] = Was(c, x) \o Was(new, x)
  BY <1>2 DEF ++
<1> HIDE DEF e, I
<1>5. \A x : Was(c, x) \in Seq(I)
  <2>1. <<>> \in Seq(I)
    BY EmptySeq
  <2> QED BY <1>1, <2>1 DEF Named, Was, I
<1>6. \A x : Was(e, x) = IF x \in B THEN new[x] ELSE Was(c, x)
  <2> SUFFICES ASSUME NEW x
               PROVE  Was(e, x) = IF x \in B THEN new[x] ELSE Was(c, x)
    OBVIOUS
  <2>1. CASE x \in B
    <3>1. Was(c, x) = <<>> /\ Was(new, x) = new[x]
      BY <1>0, <1>2, <2>1
    <3>3. e[x] = <<>> \o new[x]
      BY <1>3, <1>4, <2>1, <3>1
    <3>2. e[x] = new[x]
      BY <1>0, <2>1, <3>3, ConcatEmptySeq
    <3> QED BY <1>3, <2>1, <3>2 DEF Was
  <2>2. CASE x \notin B /\ x \in DOMAIN c
    <3>1. e[x] = Was(c, x) \o <<>>
      BY <1>2, <1>3, <1>4, <2>2
    <3>2. e[x] = Was(c, x)
      BY <1>5, <3>1, ConcatEmptySeq
    <3> QED BY <1>3, <2>2, <3>2 DEF Was
  <2>3. CASE x \notin B /\ x \notin DOMAIN c
    BY <1>3, <2>3 DEF Was
  <2> QED BY <2>1, <2>2, <2>3
<1>7. Named(names, e)
  <2>1. \A x \in DOMAIN e : e[x] = Was(e, x)
    BY DEF Was
  <2>2. \A x \in DOMAIN e : e[x] \in Seq(I)
    BY <1>0, <1>5, <1>6, <2>1
  <2> QED BY <1>0, <1>1, <1>3, <2>2 DEF Named, I
<1>8. ASSUME WellBlocks(e)
      PROVE  WellBlocks(c)
  <2> SUFFICES ASSUME NEW x \in DOMAIN c, NEW k \in 1..(Len(c[x]) - 1)
               PROVE  ~IsTerminator(c[x][k])
    BY DEF WellBlocks
  <2>1. x \notin B
    <3>1. SUFFICES ASSUME x \in B PROVE FALSE
      OBVIOUS
    <3>2. c[x] = <<>>
      BY <1>0, <3>1 DEF Was
    <3>3. Len(c[x]) = 0
      BY <3>2
    <3> QED BY <3>3
  <2>2. e[x] = c[x]
    BY <1>3, <1>6, <2>1 DEF Was
  <2> QED BY <1>3, <1>8, <2>2 DEF WellBlocks
<1>9. ASSUME T.caught, WellBlocks(e)
      PROVE  TypedCode(T, e)
  <2> SUFFICES ASSUME NEW x \in DOMAIN e
               PROVE  TypedSeq(T, T.held[x], e[x])
    BY DEF TypedCode
  <2>1. e[x] = IF x \in B THEN new[x] ELSE c[x]
    BY <1>3, <1>6 DEF Was
  <2>2. TypedCode(T, c)
    BY <1>1, <1>8, <1>9
  <2> QED BY <1>0, <1>3, <1>9, <2>1, <2>2 DEF TypedCode
<1>10. Written(names, T, e)
  BY <1>7, <1>9 DEF Written
<1> QED BY <1>3, <1>6, <1>8, <1>10 DEF e, AllFilled

(* A branch to where what is held is expected, unless there is one.        *)
LEMMA Ended ==
  ASSUME NEW names, NEW T, NEW c, Written(names, T, c), NEW b \in DOMAIN c, NEW t \in names,
         T.caught /\ WellBlocks(c) /\ ~Terminated(c, b) => Expects(T, t, After(T.held[b], c[b]))
  PROVE  /\ Written(names, T, BrUnlessTerminated(c, b, t))
         /\ DOMAIN BrUnlessTerminated(c, b, t) = DOMAIN c
         /\ \A x : x # b => Was(BrUnlessTerminated(c, b, t), x) = Was(c, x)
         /\ WellBlocks(BrUnlessTerminated(c, b, t)) => WellBlocks(c)
<1> DEFINE h == After(T.held[b], c[b])
           d == Dropped(c[b])
<1>1. CASE Terminated(c, b)
  BY <1>1 DEF BrUnlessTerminated
<1>2. CASE ~Terminated(c, b)
  <2>1. BrUnlessTerminated(c, b, t) = c ++ In(b, <<Br({t})>>)
    BY <1>2 DEF BrUnlessTerminated
  <2>2. <<Br({t})>> \in Seq(Instructions(names))
    BY DEF Br, Instructions
  <2>3. T.caught /\ WellBlocks(c) => Runs(names, T, <<Br({t})>>, h, d, h, d)
    BY <1>2, Branching
  <2> DEFINE s == <<Br({t})>>
  <2>4. Emitted(names, T, c, b, s, h, d, c ++ In(b, s))
    <3>1. s \in Seq(Instructions(names))
      BY <2>2
    <3>2. T.caught /\ WellBlocks(c) /\ (s # <<>> => ~Terminated(c, b)) =>
            Runs(names, T, s, After(T.held[b], c[b]), Dropped(c[b]), h, d)
      BY <2>3
    <3> HIDE DEF s, h, d
    <3> QED BY <3>1, <3>2, Emitting
  <2>5. /\ Written(names, T, c ++ In(b, s))
        /\ Extends(c, b, s, c ++ In(b, s))
        /\ WellBlocks(c ++ In(b, s)) => WellBlocks(c)
    <3> HIDE DEF s, h, d
    <3> QED BY <2>4 DEF Emitted
  <2> QED BY <2>1, <2>5 DEF Extends
<1> QED BY <1>1, <1>2

(* A release of what the block a terminator goes to does not expect.       *)
LEMMA Inserted ==
  ASSUME NEW names, NEW T, NEW c, Written(names, T, c), NEW b \in DOMAIN c, Terminated(c, b),
         NEW rs \in SUBSET names,
         T.caught /\ WellBlocks(c) /\ Top(c[b]).op = "br" => \A t \in Top(c[b]).to : T.held[t] \cap rs = {}
  PROVE  /\ Written(names, T, BeforeTerminator(c, b, ReleaseAll(rs)))
         /\ DOMAIN BeforeTerminator(c, b, ReleaseAll(rs)) = DOMAIN c
         /\ \A x : x # b => Was(BeforeTerminator(c, b, ReleaseAll(rs)), x) = Was(c, x)
         /\ WellBlocks(BeforeTerminator(c, b, ReleaseAll(rs))) => WellBlocks(c)
<1> DEFINE e == BeforeTerminator(c, b, ReleaseAll(rs))
           I == Instructions(names)
           p == Pop(c[b])
           r == ReleaseAll(rs)
           i == Top(c[b])
<1>1. /\ c = [x \in DOMAIN c |-> c[x]] /\ DOMAIN c \subseteq names
      /\ \A x \in DOMAIN c : c[x] \in Seq(I)
      /\ T.caught /\ WellBlocks(c) => TypedCode(T, c)
  BY DEF Written, Named
<1>2. /\ c[b] \in Seq(I) /\ c[b] # <<>> /\ IsTerminator(i)
  BY <1>1 DEF Terminated
<1>3. DOMAIN e = DOMAIN c /\ e = [x \in DOMAIN e |-> e[x]]
  BY <1>1 DEF BeforeTerminator
<1>4. e[b] = p \o r \o <<i>> /\ \A x \in DOMAIN c : x # b => e[x] = c[x]
  BY <1>1 DEF BeforeTerminator
<1> HIDE DEF I
<1>5. /\ p \in Seq(I) /\ i \in I /\ Len(c[b]) \in Nat \ {0} /\ Len(p) = Len(c[b]) - 1
      /\ \A k \in 1..(Len(c[b]) - 1) : p[k] = c[b][k]
  BY <1>2, TopAndPop, SMTT(60)
<1>6. r \in Seq(I)
  BY Releasing DEF Runs, I
<1> HIDE DEF e, p, r, i
<1>7. p \o r \in Seq(I) /\ <<i>> \in Seq(I)
  BY <1>5, <1>6, ConcatProperties
<1>8. e[b] \in Seq(I)
  BY <1>4, <1>7, ConcatProperties
<1>9. Named(names, e)
  BY <1>1, <1>3, <1>4, <1>8 DEF Named, I
<1>10. ASSUME WellBlocks(e)
       PROVE  WellBlocks(c)
  <2> SUFFICES ASSUME NEW x \in DOMAIN c, NEW k \in 1..(Len(c[x]) - 1)
               PROVE  ~IsTerminator(c[x][k])
    BY DEF WellBlocks
  <2>1. CASE x # b
    BY <1>3, <1>4, <1>10, <2>1 DEF WellBlocks
  <2>2. CASE x = b
    <3>1. Len(p) \in Nat /\ k \in 1..Len(p) /\ p[k] = c[b][k]
      BY <1>5, <2>2
    <3>2. Len(p \o r) = Len(p) + Len(r) /\ Len(r) \in Nat /\ (p \o r)[k] = p[k]
      <4>1. Len(p \o r) = Len(p) + Len(r) /\ Len(r) \in Nat
        BY <1>5, <1>6, ConcatProperties, LenProperties
      <4>2. k \in 1..(Len(p) + Len(r)) /\ k <= Len(p)
        BY <3>1, <4>1
      <4> QED BY <1>5, <1>6, <4>1, <4>2, ConcatProperties
    <3>3. Len(e[b]) = Len(p \o r) + 1 /\ e[b][k] = (p \o r)[k]
      <4>1. Len(<<i>>) = 1 /\ k \in 1..Len(p \o r)
        BY <3>1, <3>2
      <4> QED BY <1>4, <1>7, <4>1, ConcatProperties
    <3>4. k \in 1..(Len(e[b]) - 1) /\ e[b][k] = c[b][k]
      BY <3>1, <3>2, <3>3
    <3> QED BY <1>3, <1>10, <2>2, <3>4 DEF WellBlocks
  <2> QED BY <2>1, <2>2
<1>11. ASSUME T.caught, WellBlocks(e)
       PROVE  TypedCode(T, e)
  <2>1. TypedCode(T, c) /\ WellBlocks(c)
    BY <1>1, <1>10, <1>11
  <2>2. TypedSeq(T, T.held[b], c[b])
    BY <2>1 DEF TypedCode
  <2>3. TypedSeq(T, T.held[b], p \o r \o <<i>>)
    BY <1>2, <1>11, <2>1, <2>2, Inserting DEF p, r, i, I
  <2> QED BY <1>3, <1>4, <2>1, <2>3 DEF TypedCode
<1>12. Written(names, T, e)
  BY <1>9, <1>11 DEF Written
<1> QED BY <1>3, <1>4, <1>10, <1>12 DEF e, Was

(* The program grows: what was expected still is.                          *)
LEMMA Retyping ==
  ASSUME NEW names, NEW larger, names \subseteq larger, NEW c, NEW T, NEW U, Written(names, T, c),
         T.blocks \subseteq U.blocks, \A b \in names : U.held[b] = T.held[b] /\ U.scope[b[1]] = T.scope[b[1]],
         U.tidy => T.tidy, U.caught => T.caught
  PROVE  Written(larger, U, c)
<1>1. \A i : i \in Instructions(names) => i \in Instructions(larger)
  BY DEF Instructions
<1>2. Named(names, c) /\ (U.caught /\ WellBlocks(c) => TypedCode(T, c))
  BY DEF Written
<1>3. Named(larger, c)
  <2>1. \A s : s \in Seq(Instructions(names)) => s \in Seq(Instructions(larger))
    BY <1>1
  <2> QED BY <1>2, <2>1 DEF Named
<1>4. ASSUME TypedCode(T, c)
      PROVE  TypedCode(U, c)
  <2> SUFFICES ASSUME NEW b \in DOMAIN c, NEW k \in DOMAIN c[b]
               PROVE  Ok(U, c[b][k], Before(U.held[b], c[b], k), Drops(c[b], k))
    BY DEF TypedCode, TypedSeq
  <2> DEFINE h == Before(U.held[b], c[b], k)
             d == Drops(c[b], k)
             i == c[b][k]
  <2>1. b \in names /\ c[b] \in Seq(Instructions(names)) /\ U.held[b] = T.held[b]
    BY <1>2 DEF Named
  <2>2. i \in Instructions(names)
    BY <2>1
  <2>3. Ok(T, i, h, d)
    BY <1>4, <2>1 DEF TypedCode, TypedSeq
  <2> HIDE DEF h, d, i
  <2>4. /\ i.op \in {"eval", "call"} => i.what \in names
        /\ i.op = "br" => i.to \subseteq names
    BY <2>2 DEF Instructions
  <2>5. Ok(U, i, h, d)
    BY <2>3, <2>4 DEF Ok
  <2> QED BY <2>5 DEF h, d, i
<1> QED BY <1>2, <1>3, <1>4 DEF Written

-----------------------------------------------------------------------------
(* Natural numbers *)

LEMMA Least ==
  ASSUME NEW S \in SUBSET Nat, S # {}
  PROVE  \E x \in S : \A y \in S : x <= y
<1> DEFINE T == {0..k : k \in S}
<1>1. IsWellFoundedOn(StrictSubsetOrdering(Nat), FiniteSubsetsOf(Nat))
  BY FS_StrictSubsetOrderingWellFounded
<1>2. T \subseteq FiniteSubsetsOf(Nat) /\ T # {}
  <2>1. \A k \in S : IsFiniteSet(0..k) /\ 0..k \in SUBSET Nat
    BY FS_Interval
  <2> QED BY <2>1 DEF FiniteSubsetsOf
<1>3. PICK s \in T : \A t \in T : <<t, s>> \notin StrictSubsetOrdering(Nat)
  BY <1>1, <1>2, WFMin
<1>4. PICK x \in S : s = 0..x
  BY <1>3
<1>5. ASSUME NEW y \in S, ~ (x <= y)
      PROVE  FALSE
  <2>1. 0..y \subseteq 0..x /\ x \in 0..x /\ x \notin 0..y
    BY <1>5
  <2>2. <<0..y, 0..x>> \in StrictSubsetOrdering(Nat)
    BY <2>1 DEF StrictSubsetOrdering
  <2> QED BY <2>2, <1>3, <1>4
<1> QED BY <1>5

LEMMA Greatest ==
  ASSUME NEW n \in Nat, NEW S \in SUBSET (0..n), S # {}
  PROVE  \E x \in S : \A y \in S : y <= x
<1> DEFINE T == {n - y : y \in S}
<1>1. \A y \in S : y \in Nat /\ y <= n /\ n - y \in Nat
  OBVIOUS
<1>2. PICK t \in T : \A u \in T : t <= u
  <2>1. T \in SUBSET Nat /\ T # {}
    BY <1>1
  <2> HIDE DEF T
  <2> QED BY <2>1, Least
<1>3. PICK x \in S : t = n - x
  BY <1>2
<1>4. \A y \in S : n - x <= n - y
  BY <1>2, <1>3
<1>5. \A y \in S : y <= x
  BY <1>1, <1>4
<1> QED BY <1>5

-----------------------------------------------------------------------------
(* What lies around a node *)

(* f collects v on the way from a node up.                                 *)
Collects(f, L, p, v) == f = [n \in 0..L |-> IF n = 0 THEN {} ELSE v[n] \cup f[p[n]]]

LEMMA Collecting ==
  ASSUME NEW L \in Nat, NEW p, NEW v, \A n \in 1..L : p[n] \in 0..(n - 1)
  PROVE  \E f : Collects(f, L, p, v)
<1> DEFINE Bad == {k \in 0..L : ~ \E f : Collects(f, k, p, v)}
<1>1. SUFFICES ASSUME Bad # {} PROVE FALSE
  OBVIOUS
<1>2. PICK x \in Bad : \A y \in Bad : x <= y
  <2>1. Bad \in SUBSET Nat
    OBVIOUS
  <2> HIDE DEF Bad
  <2> QED BY <1>1, <2>1, Least
<1>3. CASE x = 0
  <2>1. Collects([n \in 0..0 |-> {}], 0, p, v)
    BY DEF Collects
  <2> QED BY <1>2, <1>3, <2>1
<1>4. CASE x # 0
  <2>1. x - 1 \in 0..L /\ x - 1 \notin Bad /\ x \in 1..L
    BY <1>2, <1>4
  <2>2. PICK g : Collects(g, x - 1, p, v)
    BY <2>1
  <2> DEFINE f == [n \in 0..x |-> IF n = x THEN v[x] \cup g[p[x]] ELSE g[n]]
  <2>3. ASSUME NEW n \in 0..x
        PROVE  f[n] = IF n = 0 THEN {} ELSE v[n] \cup f[p[n]]
    <3>1. CASE n = x
      <4>1. p[x] \in 0..x /\ p[x] # x
        BY <2>1
      <4> QED BY <1>4, <3>1, <4>1
    <3>2. CASE n # x
      <4>1. n \in 0..(x - 1)
        BY <2>1, <3>2
      <4>2. g[n] = IF n = 0 THEN {} ELSE v[n] \cup g[p[n]]
        BY <2>2, <4>1 DEF Collects
      <4>3. n # 0 => p[n] \in 0..x /\ p[n] # x
        BY <2>1, <4>1
      <4> QED BY <3>2, <4>2, <4>3
    <3> QED BY <3>1, <3>2
  <2>4. Collects(f, x, p, v)
    BY <2>3 DEF Collects
  <2> QED BY <1>2, <2>4
<1> QED BY <1>3, <1>4

Climb(t) ==
  LET f[n \in 0..Len(t)] == IF n = 0 THEN {} ELSE {t[n].parent} \cup f[t[n].parent] IN f
Walk(t) ==
  LET f[n \in 0..Len(t)] == IF n = 0 THEN {} ELSE {<<t[n].parent, t[n].slot>>} \cup f[t[n].parent] IN f

LEMMA PathsAre == Ancestors = Climb(tree) /\ Source!Around = Walk(tree)
BY DEF Ancestors, Source!Around, Climb, Walk

LEMMA PathsWillBe == Ancestors' = Climb(tree') /\ (Source!Around)' = Walk(tree')
BY DEF Ancestors, Source!Around, Climb, Walk

(* Parents come before their children.                                     *)
Rooted(t) == Len(t) \in Nat /\ \A n \in 1..Len(t) : t[n].parent \in 0..(n - 1)

LEMMA Walking ==
  ASSUME NEW t, Rooted(t)
  PROVE  /\ Walk(t)[0] = {}
         /\ \A n \in 1..Len(t) : Walk(t)[n] = {<<t[n].parent, t[n].slot>>} \cup Walk(t)[t[n].parent]
<1> DEFINE p == [n \in 1..Len(t) |-> t[n].parent]
           v == [n \in 1..Len(t) |-> {<<t[n].parent, t[n].slot>>}]
           W(f) == f = [n \in 0..Len(t) |->
                         IF n = 0 THEN {} ELSE {<<t[n].parent, t[n].slot>>} \cup f[t[n].parent]]
<1>1. Len(t) \in Nat /\ \A n \in 1..Len(t) : p[n] \in 0..(n - 1)
  BY DEF Rooted
<1>2. PICK f : Collects(f, Len(t), p, v)
  <2> HIDE DEF p, v
  <2> QED BY <1>1, Collecting
<1>3. f = [n \in 0..Len(t) |-> IF n = 0 THEN {} ELSE {<<t[n].parent, t[n].slot>>} \cup f[t[n].parent]]
  <2>1. \A n \in 0..Len(t) : n # 0 => n \in 1..Len(t) /\ v[n] = {<<t[n].parent, t[n].slot>>} /\ p[n] = t[n].parent
    BY <1>1
  <2> HIDE DEF p, v
  <2> QED BY <1>2, <2>1 DEF Collects
<1>4. Walk(t) = [n \in 0..Len(t) |-> IF n = 0 THEN {} ELSE {<<t[n].parent, t[n].slot>>} \cup Walk(t)[t[n].parent]]
  BY <1>3 DEF Walk
<1> QED BY <1>1, <1>4, SMTT(60)

LEMMA Climbing ==
  ASSUME NEW t, Rooted(t)
  PROVE  /\ Climb(t)[0] = {}
         /\ \A n \in 1..Len(t) : Climb(t)[n] = {t[n].parent} \cup Climb(t)[t[n].parent]
<1> DEFINE p == [n \in 1..Len(t) |-> t[n].parent]
           v == [n \in 1..Len(t) |-> {t[n].parent}]
<1>1. Len(t) \in Nat /\ \A n \in 1..Len(t) : p[n] \in 0..(n - 1)
  BY DEF Rooted
<1>2. PICK f : Collects(f, Len(t), p, v)
  <2> HIDE DEF p, v
  <2> QED BY <1>1, Collecting
<1>3. f = [n \in 0..Len(t) |-> IF n = 0 THEN {} ELSE {t[n].parent} \cup f[t[n].parent]]
  <2>1. \A n \in 0..Len(t) : n # 0 => n \in 1..Len(t) /\ v[n] = {t[n].parent} /\ p[n] = t[n].parent
    BY <1>1
  <2> HIDE DEF p, v
  <2> QED BY <1>2, <2>1, SMTT(60) DEF Collects
<1>4. Climb(t) = [n \in 0..Len(t) |-> IF n = 0 THEN {} ELSE {t[n].parent} \cup Climb(t)[t[n].parent]]
  BY <1>3 DEF Climb
<1> QED BY <1>1, <1>4

(* The ancestors are the nodes on the way up.                              *)
LEMMA ClimbingIsWalking ==
  ASSUME NEW t, Rooted(t)
  PROVE  \A n \in 0..Len(t) : /\ Climb(t)[n] = {a[1] : a \in Walk(t)[n]}
                              /\ \A a \in Walk(t)[n] : a[1] \in 0..(n - 1)
<1> DEFINE Right(n) == Climb(t)[n] = {a[1] : a \in Walk(t)[n]} /\ \A a \in Walk(t)[n] : a[1] \in 0..(n - 1)
           Bad == {n \in 0..Len(t) : ~Right(n)}
<1>1. SUFFICES ASSUME Bad # {} PROVE FALSE
  OBVIOUS
<1>2. PICK x \in Bad : \A y \in Bad : x <= y
  <2>1. Bad \in SUBSET Nat
    OBVIOUS
  <2> HIDE DEF Bad
  <2> QED BY <1>1, <2>1, Least
<1>3. x \in 0..Len(t) /\ ~Right(x) /\ Len(t) \in Nat
  BY DEF Rooted
<1>4. CASE x = 0
  BY <1>3, <1>4, Walking, Climbing
<1>5. CASE x # 0
  <2> DEFINE q == t[x].parent
  <2>1. x \in 1..Len(t) /\ q \in 0..(x - 1)
    BY <1>3, <1>5 DEF Rooted
  <2>2. q \in 0..Len(t) /\ q \notin Bad
    BY <1>2, <1>3, <2>1
  <2>3. Right(q)
    BY <2>2
  <2>4. Climb(t)[x] = {q} \cup Climb(t)[q] /\ Walk(t)[x] = {<<q, t[x].slot>>} \cup Walk(t)[q]
    BY <2>1, Walking, Climbing
  <2> HIDE DEF q
  <2>5. Climb(t)[x] = {a[1] : a \in Walk(t)[x]}
    <3> DEFINE W == Walk(t)[q]
    <3>1. Climb(t)[q] = {a[1] : a \in W}
      BY <2>3
    <3> HIDE DEF W
    <3>2. ASSUME NEW y PROVE y \in {q} \cup {a[1] : a \in W} <=> y \in {a[1] : a \in {<<q, t[x].slot>>} \cup W}
      <4>1. <<q, t[x].slot>>[1] = q
        OBVIOUS
      <4> QED BY <4>1
    <3> QED BY <2>4, <3>1, <3>2 DEF W
  <2>6. \A a \in Walk(t)[x] : a[1] \in 0..(x - 1)
    BY <1>3, <2>1, <2>3, <2>4
  <2> QED BY <1>3, <2>5, <2>6
<1> QED BY <1>4, <1>5

(* Nodes that are added change nothing for those there are.                *)
LEMMA Growing ==
  ASSUME NEW t, NEW u, Rooted(t), Rooted(u), Len(t) <= Len(u),
         \A n \in 1..Len(t) : u[n].parent = t[n].parent /\ u[n].slot = t[n].slot
  PROVE  \A n \in 0..Len(t) : Walk(u)[n] = Walk(t)[n]
<1> DEFINE Bad == {n \in 0..Len(t) : Walk(u)[n] # Walk(t)[n]}
<1>1. SUFFICES ASSUME Bad # {} PROVE FALSE
  OBVIOUS
<1>2. PICK x \in Bad : \A y \in Bad : x <= y
  <2>1. Bad \in SUBSET Nat
    OBVIOUS
  <2> HIDE DEF Bad
  <2> QED BY <1>1, <2>1, Least
<1>3. x \in 0..Len(t) /\ Walk(u)[x] # Walk(t)[x] /\ Len(t) \in Nat /\ Len(u) \in Nat
  BY DEF Rooted
<1>4. CASE x = 0
  BY <1>3, <1>4, Walking
<1>5. CASE x # 0
  <2>1. x \in 1..Len(t) /\ x \in 1..Len(u) /\ t[x].parent \in 0..(x - 1)
    BY <1>3, <1>5 DEF Rooted
  <2>2. t[x].parent \in 0..Len(t) /\ t[x].parent \notin Bad
    BY <1>2, <1>3, <2>1, SMTT(60)
  <2>3. Walk(u)[t[x].parent] = Walk(t)[t[x].parent]
    BY <2>2
  <2>4. Walk(t)[x] = {<<t[x].parent, t[x].slot>>} \cup Walk(t)[t[x].parent]
    BY <2>1, Walking
  <2>5. Walk(u)[x] = {<<t[x].parent, t[x].slot>>} \cup Walk(u)[t[x].parent]
    BY <2>1, Walking
  <2> QED BY <1>3, <2>3, <2>4, <2>5
<1> QED BY <1>4, <1>5

-----------------------------------------------------------------------------
(* What the other modules say of the program, for any program t *)

Above(t, n) == Climb(t)[n] \ {0}
Path(t, n) == {a \in Walk(t)[n] : a[1] # 0}

Highest(S) == CHOOSE a \in S : \A b \in S : b <= a
Found(t, n, kinds) == {a \in Above(t, n) : t[a].kind \in kinds}
NearestIn(t, n, kinds) == Highest(Found(t, n, kinds))

Breakable == LoopKinds \cup {"switch"}

Keeps(t, a, slot) ==
  CASE t[a].kind \in {"function", "block"} /\ t[a].decl -> {Blk(a, "local")}
    [] t[a].kind = "for" /\ t[a].decl -> {Blk(a, "counter"), Blk(a, "copy")}
    [] t[a].kind \in {"forof", "forin"} -> {Blk(a, "element")}
    [] t[a].kind = "try" /\ slot = 2 ->
         {Blk(a, "caught")} \cup (IF "var" \in t[a].opts THEN {Blk(a, "e")} ELSE {})
    [] OTHER -> {}
Kept(t, S) == UNION {Keeps(t, a[1], a[2]) : a \in S}
ScopeIn(t, n) == Kept(t, Path(t, n))

LatchStaleIn(t, c) ==
  \E m \in 1..Len(t) : /\ t[m].kind \in LoopKinds /\ m < c /\ m \notin Climb(t)[c]
                       /\ NearestIn(t, c, LoopKinds) \in Climb(t)[m]
StrayIn(t, c) ==
  /\ t[NearestIn(t, c, LoopKinds)].kind # "for"
  /\ Found(t, c, {"for"}) # {} /\ t[NearestIn(t, c, {"for"})].decl
ExitStaleIn(t, b) ==
  \E m \in 1..Len(t) : /\ t[m].kind \in LeavesExit /\ m < b /\ m \notin Climb(t)[b]
                       /\ NearestIn(t, b, Breakable) \in Climb(t)[m]
ForeignIn(t, c) == "outer" \in t[1].opts /\ Found(t, c, {"for"}) = {}
MatchIn(t) ==
  \A n \in 1..Len(t) : /\ t[n].kind = "continue" => ~LatchStaleIn(t, n) /\ ~StrayIn(t, n) /\ ~ForeignIn(t, n)
                       /\ t[n].kind = "break" => ~ExitStaleIn(t, n)

CoveredIn(t, n) == \E a \in Path(t, n) : a[2] = 1 /\ t[a[1]].kind = "try"
Catching(t, n) == {a \in Path(t, n) : a[2] = 1 /\ t[a[1]].kind = "try" /\ "catch" \in t[a[1]].opts}
CatcherIn(t, n) == IF Catching(t, n) = {} THEN 0 ELSE Source!Innermost(Catching(t, n))[1]
UnwindsIn(t, n) == t[n].kind = "throw" \/ (t[n].kind = "call" /\ "known" \in t[n].opts)
TargetIn(t, n) ==
  CASE t[n].kind = "break" -> NearestIn(t, n, Breakable)
    [] t[n].kind = "continue" -> NearestIn(t, n, LoopKinds)
    [] UnwindsIn(t, n) /\ CoveredIn(t, n) -> CatcherIn(t, n)
    [] OTHER -> 0

Left(t, n) == {a \in Path(t, n) : TargetIn(t, n) = 0 \/ TargetIn(t, n) \in Climb(t)[a[1]]}
Owning(t, n) ==
  IF t[n].kind \in {"return", "throw"}
  THEN {a \in Left(t, n) : a[1] = t[n].parent /\ t[a[1]].kind \in {"block", "function"}}
  ELSE {}
ForgottenIn(t, n) == Kept(t, Left(t, n) \ Owning(t, n))

TidyIn(t) ==
  MatchIn(t) /\ \A n \in 1..Len(t) : t[n].kind \in JumpKinds \cup {"call"} => ForgottenIn(t, n) = {}

CaughtIn(t) == \A n \in 1..Len(t) : t[n].kind = "try" => "catch" \in t[n].opts

-----------------------------------------------------------------------------
(* The blocks of a program and what is held where they begin *)

Parts ==
  {"entry", "eval", "lhs", "rhs", "cond", "endTernary", "continue", "throw", "then", "else", "endif",
   "body", "latch", "exiting", "end", "start", "inc", "incrementor", "clause", "test", "switch",
   "try", "pad", "after", "local", "counter", "copy", "element", "caught", "e", "discriminant"}
NamesOf(t) == (1..Len(t)) \X Parts \X Nat

(* The blocks a handler makes.                                             *)
Made(t, n) ==
  CASE t[n].kind = "function" -> {Blk(n, "entry")}
    [] t[n].kind = "ternary" -> {Blk(n, "lhs"), Blk(n, "rhs"), Blk(n, "endTernary")}
    [] t[n].kind = "call" ->
         IF "known" \in t[n].opts /\ Found(t, n, {"try"}) # {} THEN {Blk(n, "continue")} ELSE {}
    [] t[n].kind = "throw" -> {Blk(n, "throw")}
    [] t[n].kind = "if" -> {Blk(n, "then"), Blk(n, "else"), Blk(n, "endif")}
    [] t[n].kind \in {"while", "do"} ->
         {Blk(n, "cond"), Blk(n, "body"), Blk(n, "latch"), Blk(n, "exiting"), Blk(n, "end")}
    [] t[n].kind = "for" ->
         {Blk(n, "body"), Blk(n, "latch"), Blk(n, "exiting"), Blk(n, "end")}
         \cup (IF t[n].decl THEN {Blk(n, "start")} ELSE {})
         \cup (IF "cond" \in t[n].opts THEN {Blk(n, "cond")} ELSE {})
         \cup (IF "inc" \in t[n].opts THEN {Blk(n, "inc")} ELSE {})
    [] t[n].kind \in {"forof", "forin"} ->
         {Blk(n, "cond"), Blk(n, "incrementor"), Blk(n, "body"), Blk(n, "latch"), Blk(n, "exiting"),
          Blk(n, "end")}
    [] t[n].kind = "switch" ->
         {Blk(n, "switch"), Blk(n, "exiting"), Blk(n, "end")}
         \cup {Clause(n, i) : i \in DOMAIN t[n].clauses}
         \cup {Test(n, i) : i \in Elements(Cases(t[n].clauses))}
    [] t[n].kind = "try" -> {Blk(n, "try"), Blk(n, "pad"), Blk(n, "after")}
    [] OTHER -> {}
BlocksOf(t) == UNION {Made(t, n) : n \in 1..Len(t)}

(* What a handler has acquired of its own where its blocks begin.          *)
OwnHeld(t, n, part) ==
  CASE t[n].kind = "for" /\ t[n].decl /\ part # "start" -> {Blk(n, "counter")}
    [] t[n].kind \in {"forof", "forin"} -> {Blk(n, "element")}
    [] OTHER -> {}
HeldIn(t, b) ==
  IF t[b[1]].kind = "throw" THEN ScopeIn(t, TargetIn(t, b[1])) ELSE ScopeIn(t, b[1]) \cup OwnHeld(t, b[1], b[2])

Typing(t) ==
  [held |-> [b \in NamesOf(t) |-> HeldIn(t, b)], scope |-> [n \in 1..Len(t) |-> ScopeIn(t, n)],
   blocks |-> BlocksOf(t), tidy |-> TidyIn(t), caught |-> CaughtIn(t)]

(* The blocks of a handler in progress that are still empty.               *)
Reserved(t, n, slot) ==
  CASE t[n].kind = "if" -> {Blk(n, "endif")} \cup (IF slot = 1 THEN {Blk(n, "else")} ELSE {})
    [] t[n].kind = "while" -> {Blk(n, "end")}
    [] t[n].kind = "do" -> {Blk(n, "cond"), Blk(n, "latch"), Blk(n, "exiting"), Blk(n, "end")}
    [] t[n].kind = "for" -> {Blk(n, "end")} \cup (IF "inc" \in t[n].opts THEN {Blk(n, "inc")} ELSE {})
    [] t[n].kind \in {"forof", "forin"} -> {Blk(n, "exiting"), Blk(n, "end")}
    [] t[n].kind = "switch" ->
         {Blk(n, "switch"), Blk(n, "end")}
         \cup {Clause(n, Ordered(t[n].clauses)[j]) :
                 j \in {l \in DOMAIN Ordered(t[n].clauses) :
                          \E k \in 1..(l - 1) : Ordered(t[n].clauses)[k] = slot}}
         \cup {Test(n, i) : i \in Elements(Cases(t[n].clauses))}
    [] t[n].kind = "try" -> {Blk(n, "after")}
    [] OTHER -> {}

-----------------------------------------------------------------------------
(* The program read so far, and the handlers in progress *)

NodeRecords ==
  [kind : Kinds, decl : BOOLEAN,
   opts : SUBSET {"cond", "inc", "tuple", "else", "catch", "var", "finally", "known", "effect", "outer"},
   clauses : Seq(Clauses), parent : Nat, slot : Nat]

Shaped(t) ==
  /\ t \in Seq(NodeRecords) /\ t # <<>> /\ t[1].parent = 0 /\ t[1].kind = "function"
  /\ \A n \in 1..Len(t) :
       /\ t[n].parent \in 0..(n - 1)
       /\ n # 1 => t[n].parent # 0 /\ t[n].kind # "function"
       /\ n # 1 /\ t[t[n].parent].kind = "try" => t[n].kind = "block"
       /\ t[n].kind = "switch" =>
            /\ t[n].clauses # <<>>
            /\ \A j, k \in Defaults(t[n].clauses) : j = k

Fits(t, n, slot) ==
  CASE t[n].kind = "if" -> slot \in {1, 2}
    [] t[n].kind = "try" -> slot = 1 \/ (slot = 2 /\ "catch" \in t[n].opts)
    [] t[n].kind = "switch" -> slot \in DOMAIN t[n].clauses
    [] OTHER -> slot = 1

Pair(frame) == <<frame.node, frame.slot>>
Opened(f) == {Pair(f[i]) : i \in DOMAIN f}

NestedAt(t, f, i) ==
  LET n == f[i].node
  IN /\ t[n].kind \notin LeafKinds /\ Fits(t, n, f[i].slot)
     /\ i > 1 => t[n].parent = f[i - 1].node /\ t[n].slot = f[i - 1].slot
     /\ \A j \in 1..(i - 1) : f[j].node < n
     /\ Path(t, n) = {Pair(f[j]) : j \in 1..(i - 1)}
     /\ \A m \in (n + 1)..Len(t) : n \in Climb(t)[m]
     /\ t[n].kind = "try" => \A m \in 1..Len(t) : t[m].parent = n => t[m].slot <= f[i].slot

Nested(t, f) ==
  /\ f \in Seq([node : 1..Len(t), slot : Nat]) /\ f # <<>> /\ f[1] = Frame(1, 1)
  /\ \A i \in DOMAIN f : NestedAt(t, f, i)

-----------------------------------------------------------------------------
(* They say the same of the program that is compiled *)

LEMMA KeepsAre == \A a, slot : KeptBy(a, slot) = Keeps(tree, a, slot)
BY DEF KeptBy, Keeps

LEMMA ScopesAre == \A n : InScope(n) = ScopeIn(tree, n)
<1> TAKE n
<1>1. InScope(n) = UNION {KeptBy(a[1], a[2]) : a \in Path(tree, n)}
  BY PathsAre DEF InScope, Path
<1>2. {KeptBy(a[1], a[2]) : a \in Path(tree, n)} = {Keeps(tree, a[1], a[2]) : a \in Path(tree, n)}
  BY KeepsAre
<1> QED BY <1>1, <1>2 DEF ScopeIn, Kept

LEMMA NearestAre ==
  \A n, kinds : /\ Nearest(n, kinds) = NearestIn(tree, n, kinds)
                /\ Within(n, kinds) <=> Found(tree, n, kinds) # {}
BY PathsAre DEF Nearest, Within, NearestIn, Highest, Found, Above

LEMMA MatchingIs == StacksMatch <=> MatchIn(tree)
<1>1. \A c : LatchIsStale(c) <=> LatchStaleIn(tree, c)
  BY PathsAre, NearestAre DEF LatchIsStale, LatchStaleIn, Inside, Nodes
<1>2. \A c : HandlerIsStray(c) <=> StrayIn(tree, c)
  BY NearestAre DEF HandlerIsStray, StrayIn
<1>3. \A b : ExitIsStale(b) <=> ExitStaleIn(tree, b)
  BY PathsAre, NearestAre DEF ExitIsStale, ExitStaleIn, Inside, Nodes, Breakable
<1>4. \A c : HandlerIsForeign(c) <=> ForeignIn(tree, c)
  BY NearestAre DEF HandlerIsForeign, ForeignIn
<1> QED BY <1>1, <1>2, <1>3, <1>4 DEF StacksMatch, MatchIn, OfKind, Nodes

LEMMA TargetsAre == \A n : TargetOf(n) = TargetIn(tree, n)
<1> TAKE n
<1>1. CoveredByTry(n) <=> CoveredIn(tree, n)
  BY PathsAre DEF CoveredByTry, CoveredIn, Path
<1>2. Source!CaughtBy(n)[1] = CatcherIn(tree, n)
  <2> DEFINE tries == {a \in Source!Around[n] : /\ a[1] # 0 /\ a[2] = 1
                                  /\ tree[a[1]].kind = "try" /\ "catch" \in tree[a[1]].opts}
  <2>1. Source!CaughtBy(n) = IF tries = {} THEN Source!Uncaught ELSE Source!P(Source!Innermost(tries)[1], "catch")
    BY DEF Source!CaughtBy
  <2>2. tries = Catching(tree, n)
    BY PathsAre DEF Catching, Path
  <2> HIDE DEF tries
  <2>3. Source!Uncaught[1] = 0 /\ Source!P(Source!Innermost(tries)[1], "catch")[1] = Source!Innermost(tries)[1]
    BY DEF Source!Uncaught, Source!P
  <2> QED BY <2>1, <2>2, <2>3 DEF CatcherIn
<1>3. Unwinds(n) <=> UnwindsIn(tree, n)
  BY DEF Unwinds, UnwindsIn
<1> QED BY <1>1, <1>2, <1>3, NearestAre DEF TargetOf, TargetIn, Breakable

LEMMA ForgottenAre == \A n : Forgotten(n) = ForgottenIn(tree, n)
<1> TAKE n
<1> DEFINE between == {a \in Source!Around[n] : a[1] # 0 /\ (TargetOf(n) = 0 \/ Inside(a[1], TargetOf(n)))}
           own == IF tree[n].kind \in {"return", "throw"}
             THEN {a \in between : a[1] = tree[n].parent /\ tree[a[1]].kind \in {"block", "function"}}
             ELSE {}
<1>1. between = Left(tree, n)
  BY PathsAre, TargetsAre DEF Left, Path, Inside
<1>2. Forgotten(n) = UNION {KeptBy(a[1], a[2]) : a \in between \ own}
  BY DEF Forgotten
<1>3. own = Owning(tree, n)
  BY <1>1 DEF Owning
<1> HIDE DEF between, own
<1>4. {KeptBy(a[1], a[2]) : a \in between \ own} = {Keeps(tree, a[1], a[2]) : a \in between \ own}
  BY KeepsAre
<1> QED BY <1>1, <1>2, <1>3, <1>4 DEF ForgottenIn, Kept

LEMMA TidyIs == Tidy <=> TidyIn(tree)
BY MatchingIs, ForgottenAre DEF Tidy, TidyIn, Nodes

-----------------------------------------------------------------------------
(* Nodes that are added change nothing that was said of those before them *)

LEMMA ShapedIsRooted ==
  ASSUME NEW t, Shaped(t)
  PROVE  Rooted(t) /\ Len(t) \in Nat \ {0} /\ 1 \in 1..Len(t)
<1>1. Len(t) \in Nat /\ Len(t) # 0
  BY DEF Shaped
<1> QED BY <1>1 DEF Shaped, Rooted

LEMMA Paths ==
  ASSUME NEW t, Shaped(t), NEW n \in 1..Len(t)
  PROVE  /\ Above(t, n) = {a[1] : a \in Path(t, n)}
         /\ \A a \in Path(t, n) : a[1] \in 1..(n - 1) /\ a[1] \in 1..Len(t)
         /\ Climb(t)[n] \subseteq 0..(n - 1)
         /\ Above(t, n) \subseteq 1..(n - 1)
<1>1. Rooted(t) /\ Len(t) \in Nat /\ n \in 0..Len(t)
  BY ShapedIsRooted
<1>2. Climb(t)[n] = {a[1] : a \in Walk(t)[n]} /\ \A a \in Walk(t)[n] : a[1] \in 0..(n - 1)
  BY <1>1, ClimbingIsWalking
<1>3. Above(t, n) = {a[1] : a \in Path(t, n)}
  BY <1>2 DEF Above, Path
<1>4. \A a \in Path(t, n) : a[1] \in 1..(n - 1) /\ a[1] \in 1..Len(t)
  BY <1>1, <1>2 DEF Path
<1> QED BY <1>2, <1>3, <1>4

Grows(t, u) ==
  /\ Shaped(t) /\ Shaped(u) /\ Len(t) <= Len(u)
  /\ \A n \in 1..Len(t) : u[n] = t[n]

LEMMA SamePaths ==
  ASSUME NEW t, NEW u, Grows(t, u), NEW n \in 1..Len(t)
  PROVE  /\ Path(u, n) = Path(t, n) /\ Climb(u)[n] = Climb(t)[n] /\ Above(u, n) = Above(t, n)
         /\ n \in 1..Len(u) /\ u[n] = t[n]
<1>1. Rooted(t) /\ Rooted(u) /\ Len(t) \in Nat /\ Len(u) \in Nat
  BY ShapedIsRooted DEF Grows
<1>2. n \in 0..Len(t) /\ n \in 0..Len(u) /\ n \in 1..Len(u)
  BY <1>1 DEF Grows
<1>3. Walk(u)[n] = Walk(t)[n]
  BY <1>1, <1>2, Growing DEF Grows
<1>4. Climb(u)[n] = Climb(t)[n]
  BY <1>1, <1>2, <1>3, ClimbingIsWalking
<1> QED BY <1>2, <1>3, <1>4 DEF Path, Above, Grows

LEMMA SameKept ==
  ASSUME NEW t, NEW u, Grows(t, u)
  PROVE  /\ \A a \in 1..Len(t) : \A slot : Keeps(u, a, slot) = Keeps(t, a, slot)
         /\ \A S : (\A a \in S : a[1] \in 1..Len(t)) => Kept(u, S) = Kept(t, S)
<1>1. \A a \in 1..Len(t) : \A slot : Keeps(u, a, slot) = Keeps(t, a, slot)
  BY DEF Keeps, Grows
<1>2. ASSUME NEW S, \A a \in S : a[1] \in 1..Len(t)
      PROVE  Kept(u, S) = Kept(t, S)
  <2>1. \A a \in S : Keeps(u, a[1], a[2]) = Keeps(t, a[1], a[2])
    BY <1>1, <1>2
  <2> QED BY <2>1 DEF Kept
<1> QED BY <1>1, <1>2

LEMMA SameScopes ==
  ASSUME NEW t, NEW u, Grows(t, u), NEW n \in 1..Len(t)
  PROVE  /\ ScopeIn(u, n) = ScopeIn(t, n)
         /\ \A kinds : Found(u, n, kinds) = Found(t, n, kinds) /\ NearestIn(u, n, kinds) = NearestIn(t, n, kinds)
<1>1. Shaped(t)
  BY DEF Grows
<1>2. Path(u, n) = Path(t, n) /\ Above(u, n) = Above(t, n)
  BY SamePaths
<1>3. ScopeIn(u, n) = ScopeIn(t, n)
  <2>1. \A a \in Path(t, n) : a[1] \in 1..Len(t)
    BY <1>1, Paths
  <2> QED BY <1>2, <2>1, SameKept DEF ScopeIn
<1>4. ASSUME NEW kinds
      PROVE  Found(u, n, kinds) = Found(t, n, kinds)
  <2>1. \A a \in Above(t, n) : a \in 1..Len(t)
    <3>1. Above(t, n) \subseteq 1..(n - 1) /\ Len(t) \in Nat
      BY <1>1, Paths, ShapedIsRooted
    <3> QED BY <3>1
  <2>2. \A a \in Above(t, n) : u[a] = t[a]
    BY <2>1 DEF Grows
  <2> QED BY <1>2, <2>2 DEF Found
<1>5. \A kinds : NearestIn(u, n, kinds) = NearestIn(t, n, kinds)
  BY <1>4 DEF NearestIn
<1> QED BY <1>3, <1>4, <1>5

LEMMA SameTargets ==
  ASSUME NEW t, NEW u, Grows(t, u), NEW n \in 1..Len(t)
  PROVE  TargetIn(u, n) = TargetIn(t, n) /\ ForgottenIn(u, n) = ForgottenIn(t, n)
<1>1. Shaped(t) /\ Path(u, n) = Path(t, n) /\ u[n] = t[n]
  BY SamePaths DEF Grows
<1>2. \A a \in Path(t, n) : a[1] \in 1..Len(t) /\ u[a[1]] = t[a[1]] /\ Climb(u)[a[1]] = Climb(t)[a[1]]
  <2>1. \A a \in Path(t, n) : a[1] \in 1..Len(t)
    BY <1>1, Paths
  <2> QED BY <2>1, SamePaths
<1>3. (CoveredIn(u, n) <=> CoveredIn(t, n)) /\ Catching(u, n) = Catching(t, n)
  BY <1>1, <1>2 DEF CoveredIn, Catching
<1>4. CatcherIn(u, n) = CatcherIn(t, n)
  BY <1>3 DEF CatcherIn
<1>5. UnwindsIn(u, n) <=> UnwindsIn(t, n)
  BY <1>1 DEF UnwindsIn
<1>6. TargetIn(u, n) = TargetIn(t, n)
  BY <1>1, <1>3, <1>4, <1>5, SameScopes DEF TargetIn
<1>7. Left(u, n) = Left(t, n)
  BY <1>1, <1>2, <1>6 DEF Left
<1>8. Owning(u, n) = Owning(t, n)
  BY <1>1, <1>2, <1>7 DEF Owning, Left
<1>9. \A a \in Left(t, n) \ Owning(t, n) : a[1] \in 1..Len(t)
  BY <1>2 DEF Left
<1> QED BY <1>6, <1>7, <1>8, <1>9, SameKept DEF ForgottenIn

LEMMA HighestIs ==
  ASSUME NEW n \in Nat, NEW S \in SUBSET (0..n), S # {}
  PROVE  /\ Highest(S) \in S /\ \A b \in S : b <= Highest(S)
         /\ \A a \in S : (\A b \in S : b <= a) => Highest(S) = a
<1>1. \E a \in S : \A b \in S : b <= a
  BY Greatest
<1>2. Highest(S) \in S /\ \A b \in S : b <= Highest(S)
  BY <1>1 DEF Highest
<1>3. ASSUME NEW a \in S, \A b \in S : b <= a
      PROVE  Highest(S) = a
  <2>1. Highest(S) <= a /\ a <= Highest(S) /\ a \in 0..n /\ Highest(S) \in 0..n
    BY <1>2, <1>3
  <2> HIDE DEF Highest
  <2> QED BY <2>1
<1> QED BY <1>2, <1>3

LEMMA InnermostIs ==
  ASSUME NEW n \in Nat, NEW S, S # {}, \A a \in S : a[1] \in 0..n
  PROVE  Source!Innermost(S) \in S /\ \A b \in S : b[1] <= Source!Innermost(S)[1]
<1> DEFINE F == {a[1] : a \in S}
<1>1. F \in SUBSET (0..n) /\ F # {}
  OBVIOUS
<1>2. PICK x \in F : \A y \in F : y <= x
  <2> HIDE DEF F
  <2> QED BY <1>1, Greatest
<1>3. PICK a \in S : x = a[1]
  BY <1>2
<1>4. \A b \in S : b[1] <= a[1]
  BY <1>2, <1>3
<1> QED BY <1>4 DEF Source!Innermost

LEMMA CatcherIs ==
  ASSUME NEW t, Shaped(t), NEW n \in 1..Len(t), Catching(t, n) # {}
  PROVE  \E a \in Catching(t, n) : CatcherIn(t, n) = a[1] /\ \A b \in Catching(t, n) : b[1] <= a[1]
<1>1. Catching(t, n) \subseteq Path(t, n)
  BY DEF Catching
<1>2. Len(t) \in Nat /\ \A a \in Catching(t, n) : a[1] \in 0..Len(t)
  BY <1>1, Paths, ShapedIsRooted
<1>3. /\ Source!Innermost(Catching(t, n)) \in Catching(t, n)
      /\ \A b \in Catching(t, n) : b[1] <= Source!Innermost(Catching(t, n))[1]
  BY <1>2, InnermostIs
<1> QED BY <1>3 DEF CatcherIn

(* Nothing lies around what is no node.                                    *)
LEMMA Nowhere ==
  ASSUME NEW t, Shaped(t)
  PROVE  Path(t, 0) = {} /\ ScopeIn(t, 0) = {} /\ Path(t, 1) = {} /\ ScopeIn(t, 1) = {}
<1>1. Rooted(t) /\ 1 \in 1..Len(t) /\ t[1].parent = 0
  BY ShapedIsRooted DEF Shaped
<1>2. Walk(t)[0] = {} /\ Walk(t)[1] = {<<t[1].parent, t[1].slot>>} \cup Walk(t)[t[1].parent]
  BY <1>1, Walking
<1>3. Path(t, 0) = {} /\ Path(t, 1) = {}
  BY <1>1, <1>2 DEF Path
<1> QED BY <1>3 DEF ScopeIn, Kept

LEMMA SameHeld ==
  ASSUME NEW t, NEW u, Grows(t, u), NEW b \in NamesOf(t)
  PROVE  HeldIn(u, b) = HeldIn(t, b)
<1> DEFINE n == b[1]
<1>1. n \in 1..Len(t) /\ Shaped(t) /\ Shaped(u)
  BY DEF NamesOf, Grows
<1>2. u[n] = t[n]
  BY <1>1 DEF Grows
<1>3. CASE t[n].kind = "throw"
  <2>1. TargetIn(t, n) = IF CoveredIn(t, n) THEN CatcherIn(t, n) ELSE 0
    BY <1>3 DEF TargetIn, UnwindsIn
  <2>2. TargetIn(t, n) = 0 \/ TargetIn(t, n) \in 1..Len(t)
    <3>1. CatcherIn(t, n) = 0 \/ CatcherIn(t, n) \in 1..Len(t)
      <4>1. CASE Catching(t, n) = {}
        BY <4>1 DEF CatcherIn
      <4>2. CASE Catching(t, n) # {}
        BY <1>1, <4>2, CatcherIs, Paths, SMTT(60) DEF Catching
      <4> QED BY <4>1, <4>2
    <3> QED BY <2>1, <3>1
  <2>3. ScopeIn(u, TargetIn(t, n)) = ScopeIn(t, TargetIn(t, n))
    BY <1>1, <2>2, Nowhere, SameScopes
  <2>4. TargetIn(u, n) = TargetIn(t, n)
    BY <1>1, SameTargets
  <2> QED BY <1>2, <1>3, <2>3, <2>4 DEF HeldIn
<1>4. CASE t[n].kind # "throw"
  <2>1. ScopeIn(u, n) = ScopeIn(t, n)
    BY <1>1, SameScopes
  <2>2. OwnHeld(u, n, b[2]) = OwnHeld(t, n, b[2])
    BY <1>2 DEF OwnHeld
  <2> QED BY <1>2, <1>4, <2>1, <2>2 DEF HeldIn
<1> QED BY <1>3, <1>4

LEMMA SameBlocks ==
  ASSUME NEW t, NEW u, Grows(t, u)
  PROVE  /\ \A n \in 1..Len(t) : Made(u, n) = Made(t, n) /\ \A slot : Reserved(u, n, slot) = Reserved(t, n, slot)
         /\ BlocksOf(t) \subseteq BlocksOf(u)
<1>1. ASSUME NEW n \in 1..Len(t)
      PROVE  Made(u, n) = Made(t, n) /\ \A slot : Reserved(u, n, slot) = Reserved(t, n, slot)
  <2>1. u[n] = t[n] /\ Found(u, n, {"try"}) = Found(t, n, {"try"})
    BY SamePaths, SameScopes
  <2>2. Made(u, n) = Made(t, n)
    BY <2>1 DEF Made
  <2>3. \A slot : Reserved(u, n, slot) = Reserved(t, n, slot)
    BY <2>1 DEF Reserved
  <2> QED BY <2>2, <2>3
<1>2. BlocksOf(t) \subseteq BlocksOf(u)
  <2>1. \A n \in 1..Len(t) : n \in 1..Len(u)
    BY SamePaths
  <2> QED BY <1>1, <2>1 DEF BlocksOf
<1> QED BY <1>1, <1>2

LEMMA SameMatching ==
  ASSUME NEW t, NEW u, Grows(t, u)
  PROVE  /\ MatchIn(u) => MatchIn(t)
         /\ TidyIn(u) => TidyIn(t)
         /\ CaughtIn(u) => CaughtIn(t)
<1>1. \A n \in 1..Len(t) : n \in 1..Len(u) /\ u[n] = t[n] /\ Climb(u)[n] = Climb(t)[n]
  BY SamePaths
<1>2. \A n \in 1..Len(t) : \A kinds : Found(u, n, kinds) = Found(t, n, kinds) /\ NearestIn(u, n, kinds) = NearestIn(t, n, kinds)
  BY SameScopes
<1>3. ASSUME NEW n \in 1..Len(t)
      PROVE  /\ LatchStaleIn(t, n) => LatchStaleIn(u, n)
             /\ ExitStaleIn(t, n) => ExitStaleIn(u, n)
             /\ ForeignIn(t, n) => ForeignIn(u, n)
  <2>1. u[1] = t[1]
    BY <1>1, ShapedIsRooted DEF Grows
  <2> QED BY <1>1, <1>2, <2>1 DEF LatchStaleIn, ExitStaleIn, ForeignIn
<1>4. ASSUME NEW n \in 1..Len(t), StrayIn(t, n), t[n].kind = "continue", MatchIn(u)
      PROVE  FALSE
  <2> DEFINE near == NearestIn(t, n, LoopKinds)
             for == NearestIn(t, n, {"for"})
  <2>1. Found(t, n, {"for"}) # {} /\ Found(t, n, LoopKinds) # {}
    BY <1>4 DEF StrayIn, Found, LoopKinds
  <2>2. Shaped(t) /\ Above(t, n) \subseteq 0..Len(t) /\ Len(t) \in Nat
    <3>1. Shaped(t) /\ Len(t) \in Nat
      BY ShapedIsRooted DEF Grows
    <3>2. Above(t, n) \subseteq 1..(n - 1)
      BY <3>1, Paths
    <3> QED BY <3>1, <3>2
  <2>3. near \in Found(t, n, LoopKinds) /\ for \in Found(t, n, {"for"})
    <3>1. Found(t, n, LoopKinds) \in SUBSET (0..Len(t)) /\ Found(t, n, {"for"}) \in SUBSET (0..Len(t))
      BY <2>2 DEF Found
    <3> QED BY <2>1, <2>2, <3>1, HighestIs DEF NearestIn
  <2>4. near \in 1..Len(t) /\ for \in 1..Len(t)
    BY <2>2, <2>3 DEF Found, Above
  <2>5. StrayIn(u, n)
    BY <1>1, <1>2, <1>4, <2>4 DEF StrayIn
  <2> QED BY <1>1, <1>4, <2>5 DEF MatchIn
<1>5. MatchIn(u) => MatchIn(t)
  BY <1>1, <1>3, <1>4 DEF MatchIn
<1>6. TidyIn(u) => TidyIn(t)
  BY <1>1, <1>5, SameTargets DEF TidyIn
<1>7. CaughtIn(u) => CaughtIn(t)
  BY <1>1 DEF CaughtIn
<1> QED BY <1>5, <1>6, <1>7

LEMMA Grown ==
  ASSUME NEW t, NEW u, Grows(t, u), NEW c, Written(NamesOf(t), Typing(t), c)
  PROVE  Written(NamesOf(u), Typing(u), c)
<1>1. NamesOf(t) \subseteq NamesOf(u)
  <2>1. \A n \in 1..Len(t) : n \in 1..Len(u)
    BY SamePaths
  <2> QED BY <2>1 DEF NamesOf
<1>2. \A b \in NamesOf(t) : /\ Typing(u).held[b] = Typing(t).held[b]
                            /\ Typing(u).scope[b[1]] = Typing(t).scope[b[1]]
  <2>1. ASSUME NEW b \in NamesOf(t)
        PROVE  /\ Typing(u).held[b] = Typing(t).held[b]
               /\ Typing(u).scope[b[1]] = Typing(t).scope[b[1]]
    <3>1. b \in NamesOf(u) /\ b[1] \in 1..Len(t) /\ b[1] \in 1..Len(u)
      BY <1>1, SamePaths DEF NamesOf
    <3>2. HeldIn(u, b) = HeldIn(t, b) /\ ScopeIn(u, b[1]) = ScopeIn(t, b[1])
      BY <3>1, SameHeld, SameScopes
    <3> QED BY <3>1, <3>2 DEF Typing
  <2> QED BY <2>1
<1>3. /\ Typing(t).blocks \subseteq Typing(u).blocks
      /\ Typing(u).tidy => Typing(t).tidy
      /\ Typing(u).caught => Typing(t).caught
  BY SameBlocks, SameMatching DEF Typing
<1> HIDE DEF Typing
<1> QED BY <1>1, <1>2, <1>3, Retyping

-----------------------------------------------------------------------------
(* The handlers in progress are the statements around what comes next *)

LEMMA Sequence ==
  ASSUME NEW S, NEW s \in Seq(S)
  PROVE  Len(s) \in Nat /\ DOMAIN s = 1..Len(s) /\ (\A i \in 1..Len(s) : s[i] \in S) /\ (s # <<>> => Len(s) # 0)
BY EmptySeq, LenProperties, ElementOfSeq

(* What Nested says of the set of the handlers, the innermost being that   *)
(* of n in its given slot.                                                 *)
Openings(t, O, n, slot) ==
  /\ <<n, slot>> \in O /\ <<1, 1>> \in O
  /\ \A o \in O :
       /\ o[1] \in 1..Len(t) /\ o[2] \in Nat /\ o = <<o[1], o[2]>> /\ o[1] <= n
       /\ \A p \in O : p[1] = o[1] => p = o
       /\ Path(t, o[1]) = {p \in O : p[1] < o[1]}
       /\ \A m \in (o[1] + 1)..Len(t) : o[1] \in Climb(t)[m]
       /\ t[o[1]].kind \notin LeafKinds /\ Fits(t, o[1], o[2])

LEMMA Frames ==
  ASSUME NEW t, NEW f, Shaped(t), Nested(t, f)
  PROVE  /\ Openings(t, Opened(f), Top(f).node, Top(f).slot)
         /\ Len(f) \in Nat \ {0} /\ Top(f) = f[Len(f)] /\ Top(f) \in [node : 1..Len(t), slot : Nat]
         /\ Top(f).node # 1 => Len(f) > 1
<1> DEFINE S == [node : 1..Len(t), slot : Nat]
<1>1. f \in Seq(S) /\ f # <<>> /\ f[1] = Frame(1, 1)
  BY DEF Nested
<1>2. Len(f) \in Nat \ {0} /\ Top(f) = f[Len(f)] /\ Top(f) \in S
  BY <1>1, TopAndPop
<1>3. DOMAIN f = 1..Len(f) /\ (\A i \in 1..Len(f) : f[i] \in S) /\ Len(t) \in Nat
  <2>1. Len(t) \in Nat
    BY ShapedIsRooted
  <2> HIDE DEF S
  <2> QED BY <1>1, <2>1, Sequence
<1>4. \A i, j \in DOMAIN f : (i < j => f[i].node < f[j].node) /\ f[i].node \in Nat
  <2>1. \A i \in DOMAIN f : f[i].node \in Nat
    BY <1>3
  <2>2. \A i, j \in DOMAIN f : i < j => i \in 1..(j - 1)
    BY <1>3
  <2> QED BY <2>1, <2>2 DEF Nested, NestedAt
<1>5. <<Top(f).node, Top(f).slot>> \in Opened(f) /\ <<1, 1>> \in Opened(f)
  <2>1. Len(f) \in DOMAIN f /\ 1 \in DOMAIN f
    BY <1>2, <1>3
  <2>2. Pair(f[1]) = <<1, 1>>
    BY <1>1 DEF Pair, Frame
  <2> QED BY <1>2, <2>1, <2>2 DEF Opened, Pair
<1>6. ASSUME NEW o \in Opened(f)
      PROVE  /\ o[1] \in 1..Len(t) /\ o[2] \in Nat /\ o = <<o[1], o[2]>> /\ o[1] <= Top(f).node
             /\ \A p \in Opened(f) : p[1] = o[1] => p = o
             /\ Path(t, o[1]) = {p \in Opened(f) : p[1] < o[1]}
             /\ \A m \in (o[1] + 1)..Len(t) : o[1] \in Climb(t)[m]
             /\ t[o[1]].kind \notin LeafKinds /\ Fits(t, o[1], o[2])
  <2>1. PICK i \in DOMAIN f : o = <<f[i].node, f[i].slot>>
    BY DEF Opened, Pair
  <2>2. o[1] = f[i].node /\ o[2] = f[i].slot /\ f[i] \in S
    BY <1>3, <2>1
  <2>3. o[1] <= Top(f).node
    <3>1. i \in 1..Len(f) /\ Len(f) \in DOMAIN f
      BY <1>2, <1>3
    <3>2. i = Len(f) \/ i < Len(f)
      BY <1>2, <3>1
    <3>3. i < Len(f) => f[i].node < f[Len(f)].node
      BY <1>4, <3>1
    <3>4. f[i].node \in Nat /\ f[Len(f)].node \in Nat
      BY <1>4, <3>1
    <3> QED BY <1>2, <2>2, <3>2, <3>3, <3>4
  <2>4. ASSUME NEW p \in Opened(f), p[1] = o[1]
        PROVE  p = o
    <3>1. PICK j \in DOMAIN f : p = <<f[j].node, f[j].slot>>
      BY DEF Opened, Pair
    <3>2. i \in Nat /\ j \in Nat /\ f[i].node = f[j].node /\ f[i].node \in Nat
      BY <1>3, <1>4, <2>2, <2>4, <3>1
    <3>3. ~ (i < j) /\ ~ (j < i)
      <4>1. (i < j => f[i].node < f[j].node) /\ (j < i => f[j].node < f[i].node)
        BY <1>4
      <4> QED BY <3>2, <4>1
    <3>4. i = j
      BY <3>2, <3>3
    <3> QED BY <2>1, <3>1, <3>4
  <2>5. Path(t, o[1]) = {p \in Opened(f) : p[1] < o[1]}
    <3>1. Path(t, o[1]) = {Pair(f[j]) : j \in 1..(i - 1)}
      BY <2>2 DEF Nested, NestedAt
    <3>2. ASSUME NEW j \in DOMAIN f
          PROVE  f[j].node < f[i].node <=> j \in 1..(i - 1)
      <4>1. (i < j => f[i].node < f[j].node) /\ (j < i => f[j].node < f[i].node)
        BY <1>4
      <4>2. i \in 1..Len(f) /\ j \in 1..Len(f) /\ Len(f) \in Nat /\ f[i].node \in Nat /\ f[j].node \in Nat
        BY <1>2, <1>3, <1>4
      <4> QED BY <4>1, <4>2
    <3>3. \A j \in 1..(i - 1) : j \in DOMAIN f
      BY <1>3
    <3>4. \A j : Pair(f[j])[1] = f[j].node
      BY DEF Pair
    <3> QED BY <2>2, <3>1, <3>2, <3>3, <3>4 DEF Opened
  <2>6. \A m \in (o[1] + 1)..Len(t) : o[1] \in Climb(t)[m]
    BY <2>2 DEF Nested, NestedAt
  <2>7. t[o[1]].kind \notin LeafKinds /\ Fits(t, o[1], o[2])
    BY <2>2 DEF Nested, NestedAt
  <2> QED BY <2>1, <2>2, <2>3, <2>4, <2>5, <2>6, <2>7
<1>7. Top(f).node # 1 => Len(f) > 1
  <2>1. Frame(1, 1).node = 1
    BY DEF Frame
  <2>2. Len(f) = 1 => Top(f) = f[1]
    BY <1>2
  <2> QED BY <1>1, <1>2, <2>1, <2>2
<1> QED BY <1>2, <1>5, <1>6, <1>7 DEF Openings

(* x is a statement that may stand where the innermost handler is.         *)
Belongs(t, f, x) ==
  /\ x \in NodeRecords /\ x.parent = Top(f).node /\ x.slot = Top(f).slot
  /\ x.kind # "function"
  /\ t[x.parent].kind = "try" => x.kind = "block"
  /\ x.kind = "switch" => x.clauses # <<>> /\ \A j, k \in Defaults(x.clauses) : j = k

LEMMA Added ==
  ASSUME NEW t, NEW f, Shaped(t), Nested(t, f), NEW x, Belongs(t, f, x), NEW u, u = Append(t, x)
  PROVE  /\ Grows(t, u) /\ Len(u) = Len(t) + 1 /\ u[Len(t) + 1] = x
         /\ Path(u, Len(t) + 1) = Opened(f)
         /\ Nested(u, f)
<1> DEFINE L == Len(t) + 1
           n == Top(f).node
<1>1. Len(t) \in Nat \ {0} /\ t \in Seq(NodeRecords) /\ x \in NodeRecords /\ L \in Nat /\ L # 1
  BY ShapedIsRooted DEF Shaped, Belongs
<1>2. Len(u) = L /\ u[L] = x /\ (\A i \in 1..Len(t) : u[i] = t[i]) /\ u \in Seq(NodeRecords) /\ u # <<>>
  <2> HIDE DEF NodeRecords
  <2> QED BY <1>1, AppendProperties
<1>3. Openings(t, Opened(f), n, Top(f).slot) /\ n \in 1..Len(t) /\ Top(f) = f[Len(f)] /\ Len(f) \in DOMAIN f
  <2>1. Len(f) \in Nat \ {0} /\ f \in Seq([node : 1..Len(t), slot : Nat])
    BY Frames DEF Nested
  <2>2. DOMAIN f = 1..Len(f)
    BY <2>1
  <2> QED BY <2>1, <2>2, Frames
<1>4. Shaped(u)
  <2>1. ASSUME NEW m \in 1..Len(u)
        PROVE  /\ u[m].parent \in 0..(m - 1)
               /\ m # 1 => u[m].parent # 0 /\ u[m].kind # "function"
               /\ m # 1 /\ u[u[m].parent].kind = "try" => u[m].kind = "block"
               /\ u[m].kind = "switch" =>
                    /\ u[m].clauses # <<>>
                    /\ \A j, k \in Defaults(u[m].clauses) : j = k
    <3>1. CASE m = L
      <4>1. x.parent = n /\ n \in 0..(L - 1) /\ n # 0
        BY <1>1, <1>3 DEF Belongs
      <4>2. u[n] = t[n]
        BY <1>2, <1>3
      <4> QED BY <1>2, <3>1, <4>1, <4>2 DEF Belongs
    <3>2. CASE m # L
      <4>1. m \in 1..Len(t) /\ u[m] = t[m]
        BY <1>1, <1>2, <3>2
      <4>2. /\ t[m].parent \in 0..(m - 1)
            /\ m # 1 => t[m].parent # 0 /\ t[m].kind # "function"
            /\ m # 1 /\ t[t[m].parent].kind = "try" => t[m].kind = "block"
            /\ t[m].kind = "switch" =>
                    /\ t[m].clauses # <<>>
                    /\ \A j, k \in Defaults(t[m].clauses) : j = k
        BY <4>1 DEF Shaped
      <4>3. m # 1 => t[m].parent \in 1..Len(t)
        BY <1>1, <4>1, <4>2
      <4>4. m # 1 => u[t[m].parent] = t[t[m].parent]
        BY <1>2, <4>3
      <4> QED BY <4>1, <4>2, <4>4
    <3> QED BY <3>1, <3>2
  <2>2. u[1] = t[1] /\ t[1].parent = 0 /\ t[1].kind = "function"
    BY <1>1, <1>2 DEF Shaped
  <2> QED BY <1>2, <2>1, <2>2 DEF Shaped
<1>5. Grows(t, u)
  BY <1>1, <1>2, <1>4 DEF Grows
<1>6. Path(u, L) = Opened(f) /\ Climb(u)[L] = {n} \cup Climb(t)[n]
  <2>1. Rooted(u) /\ L \in 1..Len(u)
    BY <1>1, <1>2, <1>4, ShapedIsRooted
  <2>2. Walk(u)[L] = {<<n, x.slot>>} \cup Walk(u)[n] /\ Climb(u)[L] = {n} \cup Climb(u)[n]
    <3>1. Walk(u)[L] = {<<u[L].parent, u[L].slot>>} \cup Walk(u)[u[L].parent]
      BY <2>1, Walking, ZenonT(60)
    <3>2. Climb(u)[L] = {u[L].parent} \cup Climb(u)[u[L].parent]
      BY <2>1, Climbing
    <3>3. u[L].parent = n /\ u[L].slot = x.slot
      BY <1>2 DEF Belongs
    <3> QED BY <3>1, <3>2, <3>3
  <2>3. Path(u, n) = Path(t, n) /\ Climb(u)[n] = Climb(t)[n]
    BY <1>3, <1>5, SamePaths
  <2>4. Path(u, L) = {<<n, Top(f).slot>>} \cup Path(t, n)
    <3>1. n # 0 /\ x.slot = Top(f).slot
      BY <1>3 DEF Belongs
    <3> QED BY <2>2, <2>3, <3>1 DEF Path
  <2>5. Opened(f) = {<<n, Top(f).slot>>} \cup Path(t, n)
    <3>1. /\ <<n, Top(f).slot>> \in Opened(f)
          /\ Path(t, n) = {p \in Opened(f) : p[1] < n}
          /\ \A o \in Opened(f) : o[1] \in 1..Len(t) /\ o[1] <= n /\ (o[1] = n => o = <<n, Top(f).slot>>)
      BY <1>3 DEF Openings
    <3>2. \A o \in Opened(f) : o = <<n, Top(f).slot>> \/ o[1] < n
      BY <1>1, <1>3, <3>1
    <3> QED BY <3>1, <3>2
  <2> QED BY <2>2, <2>3, <2>4, <2>5
<1>7. Nested(u, f)
  <2>1. f \in Seq([node : 1..Len(u), slot : Nat])
    <3>1. [node : 1..Len(t), slot : Nat] \subseteq [node : 1..Len(u), slot : Nat]
      BY <1>1, <1>2
    <3>2. f \in Seq([node : 1..Len(t), slot : Nat])
      BY DEF Nested
    <3> DEFINE S == [node : 1..Len(t), slot : Nat]
               T == [node : 1..Len(u), slot : Nat]
    <3>3. S \subseteq T /\ f \in Seq(S)
      BY <3>1, <3>2
    <3> HIDE DEF S, T
    <3>4. f \in Seq(T)
      BY <3>3
    <3> QED BY <3>4 DEF T
  <2>2. ASSUME NEW i \in DOMAIN f
        PROVE  /\ u[f[i].node].kind \notin LeafKinds /\ Fits(u, f[i].node, f[i].slot)
               /\ i > 1 => u[f[i].node].parent = f[i - 1].node /\ u[f[i].node].slot = f[i - 1].slot
               /\ \A j \in 1..(i - 1) : f[j].node < f[i].node
               /\ Path(u, f[i].node) = {Pair(f[j]) : j \in 1..(i - 1)}
               /\ \A m \in (f[i].node + 1)..Len(u) : f[i].node \in Climb(u)[m]
               /\ u[f[i].node].kind = "try" =>
                    \A m \in 1..Len(u) : u[m].parent = f[i].node => u[m].slot <= f[i].slot
    <3> DEFINE k == f[i].node
    <3>1. k \in 1..Len(t) /\ k <= n /\ <<k, f[i].slot>> \in Opened(f) /\ f[i].slot \in Nat
      <4>1. Pair(f[i]) \in Opened(f) /\ Pair(f[i])[1] = k /\ Pair(f[i])[2] = f[i].slot
        BY DEF Opened, Pair
      <4> QED BY <1>3, <4>1 DEF Openings, Pair
    <3>2. u[k] = t[k] /\ Path(u, k) = Path(t, k)
      BY <1>2, <1>5, <3>1, SamePaths
    <3>3. Fits(u, k, f[i].slot) <=> Fits(t, k, f[i].slot)
      BY <3>2 DEF Fits
    <3>4. ASSUME NEW m \in (k + 1)..Len(u)
          PROVE  k \in Climb(u)[m]
      <4>1. CASE m = L
        <5>1. k \in {n} \cup Climb(t)[n]
          <6>1. k = n \/ n \in (k + 1)..Len(t)
            <7>1. k \in Nat /\ n \in Nat /\ k <= n /\ n <= Len(t) /\ Len(t) \in Nat
              BY <1>1, <1>3, <3>1
            <7> HIDE DEF k, n
            <7> QED BY <7>1
          <6>2. n \in (k + 1)..Len(t) => k \in Climb(t)[n]
            BY <3>1, <1>3 DEF Openings
          <6> QED BY <6>1, <6>2
        <5> QED BY <1>6, <4>1, <5>1
      <4>2. CASE m # L
        <5>1. m \in (k + 1)..Len(t) /\ m \in 1..Len(t)
          BY <1>1, <1>2, <3>1, <4>2
        <5>2. k \in Climb(t)[m]
          BY <5>1 DEF Nested, NestedAt
        <5> QED BY <1>5, <5>1, <5>2, SamePaths
      <4> QED BY <4>1, <4>2
    <3>5. ASSUME u[k].kind = "try", NEW m \in 1..Len(u), u[m].parent = k
          PROVE  u[m].slot <= f[i].slot
      <4>1. CASE m = L
        <5>1. k = n /\ x.slot = Top(f).slot
          BY <1>2, <3>5, <4>1 DEF Belongs
        <5>2. <<k, f[i].slot>> = <<n, Top(f).slot>>
          BY <1>3, <3>1, <5>1 DEF Openings
        <5> QED BY <1>2, <3>1, <4>1, <5>1, <5>2
      <4>2. CASE m # L
        <5>1. m \in 1..Len(t) /\ u[m] = t[m]
          BY <1>1, <1>2, <4>2
        <5> QED BY <3>2, <3>5, <5>1 DEF Nested, NestedAt
      <4> QED BY <4>1, <4>2
    <3> QED BY <3>2, <3>3, <3>4, <3>5 DEF Nested, NestedAt
  <2> QED BY <2>1, <2>2 DEF Nested, NestedAt
<1> QED BY <1>2, <1>5, <1>6, <1>7

LEMMA Longer ==
  ASSUME NEW S, NEW s \in Seq(S), NEW x \in S
  PROVE  /\ Append(s, x) \in Seq(S) /\ Append(s, x) # <<>>
         /\ DOMAIN Append(s, x) = 1..(Len(s) + 1)
         /\ Append(s, x)[Len(s) + 1] = x /\ Top(Append(s, x)) = x
         /\ \A i \in 1..Len(s) : Append(s, x)[i] = s[i]
<1>1. /\ Append(s, x) \in Seq(S) /\ Append(s, x) # <<>> /\ Len(Append(s, x)) = Len(s) + 1
      /\ Append(s, x)[Len(s) + 1] = x
      /\ \A i \in 1..Len(s) : Append(s, x)[i] = s[i]
  BY AppendProperties
<1>2. DOMAIN Append(s, x) = 1..Len(Append(s, x))
  BY <1>1, Sequence
<1> QED BY <1>1, <1>2 DEF Top

LEMMA Shorter ==
  ASSUME NEW S, NEW s \in Seq(S), Len(s) > 1
  PROVE  /\ Pop(s) \in Seq(S) /\ Pop(s) # <<>> /\ Len(Pop(s)) = Len(s) - 1
         /\ DOMAIN Pop(s) = 1..(Len(s) - 1)
         /\ Top(Pop(s)) = s[Len(s) - 1]
         /\ \A i \in 1..(Len(s) - 1) : Pop(s)[i] = s[i]
<1>1. Len(s) \in Nat /\ s # <<>>
  BY Sequence
<1>2. /\ Pop(s) \in Seq(S) /\ Len(Pop(s)) = Len(s) - 1
      /\ \A i \in 1..(Len(s) - 1) : Pop(s)[i] = s[i]
  BY <1>1, TopAndPop
<1>3. DOMAIN Pop(s) = 1..Len(Pop(s))
  BY <1>2, Sequence
<1>4. Pop(s)[Len(s) - 1] = s[Len(s) - 1] /\ Len(Pop(s)) # 0
  BY <1>1, <1>2
<1> QED BY <1>2, <1>3, <1>4 DEF Top

(* What a handler's frame says depends on those before it only.            *)
LEMMA NestedSame ==
  ASSUME NEW t, NEW f, NEW g, NEW i \in Nat, \A j \in 1..i : g[j] = f[j], i # 0, NestedAt(t, f, i)
  PROVE  NestedAt(t, g, i)
<1>1. g[i] = f[i] /\ (i > 1 => g[i - 1] = f[i - 1]) /\ \A j \in 1..(i - 1) : g[j] = f[j]
  OBVIOUS
<1>2. {Pair(g[j]) : j \in 1..(i - 1)} = {Pair(f[j]) : j \in 1..(i - 1)}
  BY <1>1
<1> QED BY <1>1, <1>2 DEF NestedAt

(* A handler begins with the node that was added last.                     *)
LEMMA Entered ==
  ASSUME NEW t, NEW f, Shaped(t), Nested(t, f), NEW slot \in Nat,
         t[Len(t)].parent = Top(f).node, t[Len(t)].slot = Top(f).slot, Path(t, Len(t)) = Opened(f),
         \A o \in Opened(f) : o[1] < Len(t),
         t[Len(t)].kind \notin LeafKinds, Fits(t, Len(t), slot)
  PROVE  /\ Nested(t, Append(f, Frame(Len(t), slot)))
         /\ Opened(Append(f, Frame(Len(t), slot))) = Opened(f) \cup {<<Len(t), slot>>}
         /\ Top(Append(f, Frame(Len(t), slot))) = Frame(Len(t), slot)
<1> DEFINE L == Len(t)
           S == [node : 1..L, slot : Nat]
           F == Len(f)
           g == Append(f, Frame(L, slot))
<1>1. L \in Nat \ {0} /\ Frame(L, slot) \in S
  BY ShapedIsRooted DEF Frame
<1>2. f \in Seq(S) /\ f[1] = Frame(1, 1) /\ F \in Nat \ {0} /\ DOMAIN f = 1..F /\ Top(f) = f[F]
  <2>1. f \in Seq(S) /\ f # <<>> /\ f[1] = Frame(1, 1)
    BY DEF Nested
  <2> HIDE DEF S
  <2> QED BY <2>1, Sequence, TopAndPop
<1>3. /\ g \in Seq(S) /\ g # <<>> /\ g[F + 1] = Frame(L, slot) /\ DOMAIN g = 1..(F + 1)
      /\ Top(g) = Frame(L, slot) /\ \A i \in 1..F : g[i] = f[i]
  <2> HIDE DEF S
  <2> QED BY <1>1, <1>2, Longer
<1>4. F \in Nat \ {0} /\ DOMAIN f = 1..F /\ Top(f) = f[F] /\ f[1] = Frame(1, 1)
  BY <1>2
<1>5. g[F + 1] = Frame(L, slot) /\ DOMAIN g = 1..(F + 1) /\ \A i \in 1..F : g[i] = f[i]
  BY <1>3
<1>6. Frame(L, slot).node = L /\ Frame(L, slot).slot = slot /\ Pair(Frame(L, slot)) = <<L, slot>>
  BY DEF Frame, Pair
<1> HIDE DEF g, F
<1>7. {Pair(g[j]) : j \in 1..F} = Opened(f)
  BY <1>4, <1>5 DEF Opened
<1>8. Opened(g) = Opened(f) \cup {<<L, slot>>}
  <2>1. Opened(g) = {Pair(g[j]) : j \in 1..F} \cup {Pair(g[F + 1])}
    <3>1. 1..(F + 1) = (1..F) \cup {F + 1}
      BY <1>4
    <3> QED BY <1>5, <3>1 DEF Opened
  <2> QED BY <1>5, <1>6, <1>7, <2>1
<1>9. NestedAt(t, g, F + 1)
  <2>1. g[F + 1].node = L /\ g[F + 1].slot = slot /\ (F + 1) - 1 = F /\ g[F] = f[F]
    <3>1. F \in 1..F /\ (F + 1) - 1 = F
      BY <1>4
    <3> QED BY <1>5, <1>6, <3>1
  <2>2. \A j \in 1..F : g[j].node < L
    <3>1. \A j \in 1..F : Pair(f[j]) \in Opened(f) /\ Pair(f[j])[1] = f[j].node
      BY <1>4 DEF Opened, Pair
    <3> QED BY <1>5, <3>1
  <2>3. \A m \in (L + 1)..L : FALSE
    BY <1>1
  <2>4. \A m \in 1..L : t[m].parent # L
    <3>1. \A m \in 1..L : t[m].parent \in 0..(m - 1)
      BY DEF Shaped
    <3> QED BY <1>1, <3>1
  <2>5. t[L].parent = g[F].node /\ t[L].slot = g[F].slot /\ Path(t, L) = {Pair(g[j]) : j \in 1..F}
    BY <1>4, <1>7, <2>1
  <2> HIDE DEF L
  <2> QED BY <2>1, <2>2, <2>3, <2>4, <2>5 DEF NestedAt, L
<1>10. \A i \in 1..F : NestedAt(t, g, i)
  <2>1. ASSUME NEW i \in 1..F PROVE NestedAt(t, g, i)
    <3>1. i \in Nat /\ i # 0 /\ \A j \in 1..i : g[j] = f[j]
      BY <1>4, <1>5
    <3>2. NestedAt(t, f, i)
      BY <1>4 DEF Nested
    <3> QED BY <3>1, <3>2, NestedSame
  <2> QED BY <2>1
<1>11. \A i \in DOMAIN g : NestedAt(t, g, i)
  BY <1>4, <1>5, <1>9, <1>10
<1>12. g[1] = Frame(1, 1)
  BY <1>4, <1>5
<1> QED BY <1>3, <1>8, <1>11, <1>12 DEF Nested, g

(* A handler is left.                                                      *)
LEMMA Exited ==
  ASSUME NEW t, NEW f, Shaped(t), Nested(t, f), Top(f).node # 1
  PROVE  /\ Nested(t, Pop(f))
         /\ Opened(Pop(f)) = Opened(f) \ {<<Top(f).node, Top(f).slot>>}
         /\ Top(Pop(f)).node = t[Top(f).node].parent /\ Top(Pop(f)).slot = t[Top(f).node].slot
<1> DEFINE S == [node : 1..Len(t), slot : Nat]
           F == Len(f)
           g == Pop(f)
<1>1. f \in Seq(S) /\ f[1] = Frame(1, 1) /\ F \in Nat /\ F > 1 /\ DOMAIN f = 1..F /\ Top(f) = f[F]
  <2>1. f \in Seq(S) /\ f # <<>> /\ f[1] = Frame(1, 1)
    BY DEF Nested
  <2>2. F > 1
    BY Frames
  <2> HIDE DEF S
  <2> QED BY <2>1, <2>2, Sequence, TopAndPop
<1>2. /\ g \in Seq(S) /\ g # <<>> /\ DOMAIN g = 1..(F - 1) /\ Top(g) = f[F - 1]
      /\ \A i \in 1..(F - 1) : g[i] = f[i]
  <2> HIDE DEF S
  <2> QED BY <1>1, Shorter
<1>3. f[1] = Frame(1, 1) /\ F \in Nat /\ F > 1 /\ DOMAIN f = 1..F /\ Top(f) = f[F]
  BY <1>1
<1>4. DOMAIN g = 1..(F - 1) /\ Top(g) = f[F - 1] /\ \A i \in 1..(F - 1) : g[i] = f[i]
  BY <1>2
<1>5. \A i \in 1..F : NestedAt(t, f, i) /\ f[i].node \in Nat
  <2>1. \A i \in 1..F : f[i] \in S
    <3> HIDE DEF S
    <3> QED BY <1>1, Sequence
  <2>2. \A i \in 1..F : f[i].node \in Nat
    BY <2>1
  <2> QED BY <1>3, <2>2 DEF Nested
<1> HIDE DEF g, F
<1>6. Top(g).node = t[Top(f).node].parent /\ Top(g).slot = t[Top(f).node].slot
  <2>1. NestedAt(t, f, F) /\ F > 1
    BY <1>3, <1>5
  <2> QED BY <1>3, <1>4, <2>1 DEF NestedAt
<1>7. Opened(g) = Opened(f) \ {<<Top(f).node, Top(f).slot>>}
  <2>1. \A i \in 1..(F - 1) : f[i].node # f[F].node
    <3>1. NestedAt(t, f, F) /\ F \in 1..F
      BY <1>3, <1>5
    <3>2. \A i \in 1..(F - 1) : f[i].node < f[F].node
      BY <3>1 DEF NestedAt
    <3>3. \A i \in 1..(F - 1) : i \in 1..F
      BY <1>3
    <3> QED BY <1>5, <3>1, <3>2, <3>3
  <2>2. \A i \in 1..(F - 1) : Pair(f[i]) # Pair(f[F])
    BY <2>1 DEF Pair
  <2>3. Opened(f) = {Pair(f[i]) : i \in 1..(F - 1)} \cup {Pair(f[F])}
    <3>1. 1..F = (1..(F - 1)) \cup {F}
      BY <1>3
    <3> QED BY <1>3, <3>1 DEF Opened
  <2>4. Opened(g) = {Pair(f[i]) : i \in 1..(F - 1)}
    BY <1>4 DEF Opened
  <2>5. Pair(f[F]) = <<Top(f).node, Top(f).slot>>
    BY <1>3 DEF Pair
  <2> QED BY <2>2, <2>3, <2>4, <2>5
<1>8. \A i \in DOMAIN g : NestedAt(t, g, i)
  <2>1. ASSUME NEW i \in 1..(F - 1) PROVE NestedAt(t, g, i)
    <3>1. i \in Nat /\ i # 0 /\ i \in 1..F /\ \A j \in 1..i : g[j] = f[j]
      BY <1>3, <1>4
    <3> QED BY <1>5, <3>1, NestedSame
  <2> QED BY <1>4, <2>1
<1>9. g[1] = Frame(1, 1)
  <2>1. 1 \in 1..(F - 1)
    BY <1>3
  <2> QED BY <1>3, <1>4, <2>1
<1> QED BY <1>2, <1>6, <1>7, <1>8, <1>9 DEF Nested, g

(* A handler goes on to another slot.                                      *)
LEMMA Moved ==
  ASSUME NEW t, NEW f, Shaped(t), Nested(t, f), Top(f).node # 1, NEW slot \in Nat,
         Fits(t, Top(f).node, slot), t[Top(f).node].kind = "try" => Top(f).slot <= slot
  PROVE  /\ Nested(t, Append(Pop(f), Frame(Top(f).node, slot)))
         /\ Opened(Append(Pop(f), Frame(Top(f).node, slot)))
              = (Opened(f) \ {<<Top(f).node, Top(f).slot>>}) \cup {<<Top(f).node, slot>>}
         /\ Top(Append(Pop(f), Frame(Top(f).node, slot))) = Frame(Top(f).node, slot)
<1> DEFINE S == [node : 1..Len(t), slot : Nat]
           F == Len(f)
           n == Top(f).node
           p == Pop(f)
           x == Frame(n, slot)
           g == Append(p, x)
<1>1. f \in Seq(S) /\ F \in Nat /\ F > 1 /\ DOMAIN f = 1..F /\ Top(f) = f[F] /\ Frame(n, slot) \in S
  <2>1. f \in Seq(S) /\ f # <<>>
    BY DEF Nested
  <2>2. F > 1 /\ Top(f) \in S
    BY Frames
  <2>3. Frame(n, slot) \in S
    BY <2>2 DEF Frame
  <2> HIDE DEF S
  <2> QED BY <2>1, <2>2, <2>3, Sequence, TopAndPop
<1>2. /\ p \in Seq(S) /\ Len(p) = F - 1 /\ DOMAIN p = 1..(F - 1)
      /\ \A i \in 1..(F - 1) : p[i] = f[i]
  <2>1. f \in Seq(S) /\ F > 1
    BY <1>1
  <2> HIDE DEF S, g, n
  <2> QED BY <2>1, Shorter
<1>3. /\ g \in Seq(S) /\ g # <<>> /\ DOMAIN g = 1..(Len(p) + 1) /\ Top(g) = x
      /\ g[Len(p) + 1] = x /\ \A i \in 1..Len(p) : g[i] = p[i]
  <2>1. p \in Seq(S) /\ x \in S
    BY <1>1, <1>2
  <2> HIDE DEF S, p, n, x
  <2> QED BY <2>1, Longer
<1>4. F \in Nat /\ F > 1 /\ DOMAIN f = 1..F /\ Top(f) = f[F]
  BY <1>1
<1>5. DOMAIN p = 1..(F - 1) /\ \A i \in 1..(F - 1) : p[i] = f[i]
  BY <1>2
<1>6. DOMAIN g = 1..F /\ g[F] = Frame(n, slot) /\ \A i \in 1..(F - 1) : g[i] = f[i]
  <2>1. Len(p) = F - 1 /\ Len(p) + 1 = F
    BY <1>1, <1>2
  <2> QED BY <1>2, <1>3, <2>1
<1>7. Frame(n, slot).node = n /\ Frame(n, slot).slot = slot /\ Pair(Frame(n, slot)) = <<n, slot>>
  BY DEF Frame, Pair
<1>8. \A i \in 1..F : NestedAt(t, f, i)
  BY <1>4 DEF Nested
<1>9. Nested(t, p) /\ Opened(p) = Opened(f) \ {<<n, Top(f).slot>>}
  BY Exited
<1>10. f[F].slot \in Nat /\ \A m \in 1..Len(t) : t[m].slot \in Nat
  <2>1. Top(f).slot \in Nat
    BY Frames
  <2>2. t \in Seq(NodeRecords)
    BY DEF Shaped
  <2>3. \A m \in 1..Len(t) : t[m] \in NodeRecords
    BY <2>2, Sequence
  <2> QED BY <1>4, <2>1, <2>3 DEF NodeRecords
<1> HIDE DEF g, F, p, x
<1>11. Opened(g) = Opened(p) \cup {<<n, slot>>}
  <2>1. 1..F = (1..(F - 1)) \cup {F}
    BY <1>4
  <2>2. Opened(g) = {Pair(g[i]) : i \in 1..(F - 1)} \cup {Pair(g[F])}
    BY <1>6, <2>1 DEF Opened
  <2>3. Opened(p) = {Pair(g[i]) : i \in 1..(F - 1)}
    BY <1>5, <1>6 DEF Opened
  <2> QED BY <1>6, <1>7, <2>2, <2>3
<1>12. NestedAt(t, g, F)
  <2>1. NestedAt(t, f, F) /\ f[F].node = n
    BY <1>4, <1>8
  <2>2. g[F].node = n /\ g[F].slot = slot /\ (F - 1) \in 1..(F - 1) /\ g[F - 1] = f[F - 1]
    BY <1>4, <1>6, <1>7
  <2>3. {Pair(g[j]) : j \in 1..(F - 1)} = {Pair(f[j]) : j \in 1..(F - 1)}
    BY <1>6
  <2>4. t[n].kind = "try" => \A m \in 1..Len(t) : t[m].parent = n => t[m].slot <= slot
    <3>1. ASSUME t[n].kind = "try", NEW m \in 1..Len(t), t[m].parent = n PROVE t[m].slot <= slot
      <4>1. t[m].slot <= f[F].slot
        BY <2>1, <3>1 DEF NestedAt
      <4>2. f[F].slot <= slot
        BY <1>4, <3>1
      <4> HIDE DEF n
      <4> QED BY <1>10, <4>1, <4>2
    <3> QED BY <3>1
  <2> HIDE DEF n
  <2> QED BY <1>6, <2>1, <2>2, <2>3, <2>4 DEF NestedAt, n
<1>13. \A i \in 1..(F - 1) : NestedAt(t, g, i)
  <2>1. ASSUME NEW i \in 1..(F - 1) PROVE NestedAt(t, g, i)
    <3>1. i \in Nat /\ i # 0 /\ i \in 1..F /\ \A j \in 1..i : g[j] = f[j]
      BY <1>4, <1>6
    <3> QED BY <1>8, <3>1, NestedSame
  <2> QED BY <2>1
<1>14. \A i \in DOMAIN g : NestedAt(t, g, i)
  BY <1>4, <1>6, <1>12, <1>13
<1>15. g[1] = Frame(1, 1)
  <2>1. 1 \in 1..(F - 1) /\ f[1] = Frame(1, 1)
    BY <1>4 DEF Nested
  <2> QED BY <1>6, <2>1
<1> QED BY <1>3, <1>9, <1>11, <1>14, <1>15 DEF Nested, g, p, x

-----------------------------------------------------------------------------
(* What is kept around the statements in progress *)

LEMMA KeepsOwn ==
  ASSUME NEW t
  PROVE  /\ \A a, slot : \A r \in Keeps(t, a, slot) : r[1] = a /\ \E part \in Parts : r = Blk(a, part)
         /\ \A S : \A r \in Kept(t, S) : \E a \in S : r[1] = a[1] /\ r \in Keeps(t, a[1], a[2])
         /\ \A S : \A a \in S : Keeps(t, a[1], a[2]) \subseteq Kept(t, S)
<1>1. ASSUME NEW a, NEW slot, NEW r \in Keeps(t, a, slot)
      PROVE  r[1] = a /\ \E part \in Parts : r = Blk(a, part)
  <2>1. r \in {Blk(a, "local"), Blk(a, "counter"), Blk(a, "copy"), Blk(a, "element"), Blk(a, "caught"), Blk(a, "e")}
    BY <1>1 DEF Keeps
  <2> QED BY <2>1 DEF Blk, Parts
<1>2. \A S : \A r \in Kept(t, S) : \E a \in S : r[1] = a[1] /\ r \in Keeps(t, a[1], a[2])
  <2>1. \A S : \A r \in Kept(t, S) : \E a \in S : r \in Keeps(t, a[1], a[2])
    BY DEF Kept
  <2> QED BY <1>1, <2>1
<1>3. \A S : \A a \in S : Keeps(t, a[1], a[2]) \subseteq Kept(t, S)
  BY DEF Kept
<1> QED BY <1>1, <1>2, <1>3

LEMMA ScopeBelow ==
  ASSUME NEW t, Shaped(t), NEW n \in 0..Len(t)
  PROVE  /\ \A r \in ScopeIn(t, n) : r[1] \in 1..(n - 1)
         /\ ScopeIn(t, n) \subseteq NamesOf(t)
<1>1. Len(t) \in Nat
  BY ShapedIsRooted
<1>2. CASE n = 0
  BY <1>2, Nowhere
<1>3. CASE n # 0
  <2>1. n \in 1..Len(t)
    BY <1>1, <1>3
  <2>2. ASSUME NEW r \in ScopeIn(t, n)
        PROVE  r[1] \in 1..(n - 1) /\ r \in NamesOf(t)
    <3>1. PICK a \in Path(t, n) : r[1] = a[1] /\ r \in Keeps(t, a[1], a[2])
      BY KeepsOwn DEF ScopeIn
    <3>2. a[1] \in 1..(n - 1) /\ a[1] \in 1..Len(t)
      BY <2>1, Paths
    <3>3. PICK part \in Parts : r = Blk(a[1], part)
      BY <3>1, KeepsOwn
    <3> QED BY <3>1, <3>2, <3>3 DEF NamesOf, Blk
  <2> QED BY <2>2
<1> QED BY <1>2, <1>3

LEMMA HeldNames ==
  ASSUME NEW t, Shaped(t), NEW b \in NamesOf(t)
  PROVE  HeldIn(t, b) \subseteq NamesOf(t)
<1> DEFINE n == b[1]
<1>1. n \in 1..Len(t) /\ n \in 0..Len(t)
  BY ShapedIsRooted DEF NamesOf
<1>2. OwnHeld(t, n, b[2]) \subseteq NamesOf(t)
  BY <1>1 DEF OwnHeld, NamesOf, Blk, Parts
<1>3. CASE t[n].kind = "throw"
  <2>1. TargetIn(t, n) = IF CoveredIn(t, n) THEN CatcherIn(t, n) ELSE 0
    BY <1>3 DEF TargetIn, UnwindsIn
  <2>2. CatcherIn(t, n) \in 0..Len(t)
    <3>1. CASE Catching(t, n) = {}
      BY <1>1, <3>1 DEF CatcherIn
    <3>2. CASE Catching(t, n) # {}
      BY <1>1, <3>2, CatcherIs, Paths DEF Catching
    <3> QED BY <3>1, <3>2
  <2>3. TargetIn(t, n) \in 0..Len(t)
    BY <1>1, <2>1, <2>2
  <2> QED BY <1>3, <2>3, ScopeBelow DEF HeldIn
<1>4. CASE t[n].kind # "throw"
  BY <1>1, <1>2, <1>4, ScopeBelow DEF HeldIn
<1> QED BY <1>3, <1>4

(* Around a statement in progress lie those that were begun before.        *)
Older(O, n) == {p \in O : p[1] < n}
KeptByOlder(t, O) == \A o \in O : ScopeIn(t, o[1]) = Kept(t, Older(O, o[1]))
KeptInside(t, O, n, slot) ==
  Kept(t, O) = ScopeIn(t, n) \cup Keeps(t, n, slot) /\ ScopeIn(t, n) = Kept(t, O \ {<<n, slot>>})

LEMMA OpenScopes ==
  ASSUME NEW t, NEW O, NEW n, NEW slot, Openings(t, O, n, slot)
  PROVE  KeptByOlder(t, O) /\ KeptInside(t, O, n, slot)
<1>1. \A o \in O : ScopeIn(t, o[1]) = Kept(t, {p \in O : p[1] < o[1]}) /\ {p \in O : p[1] < o[1]} = Older(O, o[1])
  BY DEF Openings, ScopeIn, Older
<1>2. {p \in O : p[1] < n} = O \ {<<n, slot>>}
  <2>1. \A p \in O : p[1] \in Int /\ p[1] <= n /\ (p[1] = n => p = <<n, slot>>) /\ n \in Int
    BY DEF Openings
  <2> QED BY <2>1
<1>3. ScopeIn(t, n) = Kept(t, O \ {<<n, slot>>})
  BY <1>1, <1>2 DEF Openings
<1>4. Kept(t, O) = Kept(t, O \ {<<n, slot>>}) \cup Keeps(t, n, slot)
  <2>1. <<n, slot>> \in O
    BY DEF Openings
  <2> QED BY <2>1 DEF Kept
<1> QED BY <1>1, <1>3, <1>4 DEF KeptByOlder, KeptInside

-----------------------------------------------------------------------------
(* Where a jump goes from where the compiler stands *)

OpenIn(t, f, kinds) == {o[1] : o \in {p \in Opened(f) : t[p[1]].kind \in kinds}}
OpenTries(t, f) == {o[1] : o \in {p \in Opened(f) : t[p[1]].kind = "try" /\ p[2] = 1}}

Stands(t, f, x, u) == Shaped(t) /\ Nested(t, f) /\ Belongs(t, f, x) /\ u = Append(t, x)

LEMMA Standing ==
  ASSUME NEW t, NEW f, NEW x, NEW u, Stands(t, f, x, u), NEW L, L = Len(t) + 1
  PROVE  /\ Grows(t, u) /\ Nested(u, f) /\ Shaped(u) /\ Len(u) = L /\ L \in 1..Len(u) /\ u[L] = x
         /\ Openings(u, Opened(f), Top(f).node, Top(f).slot)
         /\ Path(u, L) = Opened(f) /\ Above(u, L) = {o[1] : o \in Opened(f)}
         /\ ScopeIn(u, L) = Kept(u, Opened(f))
         /\ \A kinds : Found(u, L, kinds) = OpenIn(u, f, kinds)
         /\ \A o \in Opened(f) : o[1] \in 1..(L - 1) /\ o[1] \in 1..Len(t) /\ u[o[1]] = t[o[1]]
<1>1. /\ Grows(t, u) /\ Len(u) = L /\ u[L] = x /\ Path(u, L) = Opened(f) /\ Nested(u, f)
  BY Added DEF Stands
<1>2. Shaped(t) /\ Shaped(u)
  BY <1>1 DEF Grows
<1>3. L \in 1..Len(u)
  BY <1>1, <1>2, ShapedIsRooted
<1>4. Above(u, L) = {o[1] : o \in Opened(f)}
  BY <1>1, <1>2, <1>3, Paths
<1>5. \A kinds : Found(u, L, kinds) = OpenIn(u, f, kinds)
  BY <1>4 DEF Found, OpenIn
<1>6. Openings(u, Opened(f), Top(f).node, Top(f).slot)
  BY <1>1, <1>2, Frames
<1>7. Openings(t, Opened(f), Top(f).node, Top(f).slot)
  BY <1>2, Frames DEF Stands
<1>8. \A o \in Opened(f) : o[1] \in 1..(L - 1) /\ o[1] \in 1..Len(t) /\ u[o[1]] = t[o[1]]
  <2>1. Len(t) \in Nat
    BY <1>2, ShapedIsRooted
  <2> QED BY <1>1, <1>7, <2>1 DEF Openings, Grows
<1> QED BY <1>1, <1>2, <1>3, <1>4, <1>5, <1>6, <1>8 DEF ScopeIn

LEMMA OpenNearest ==
  ASSUME NEW t, NEW f, NEW x, NEW u, Stands(t, f, x, u), NEW L, L = Len(t) + 1,
         NEW kinds, OpenIn(u, f, kinds) # {}
  PROVE  /\ NearestIn(u, L, kinds) \in OpenIn(u, f, kinds)
         /\ \A m \in OpenIn(u, f, kinds) : m <= NearestIn(u, L, kinds)
<1>1. Found(u, L, kinds) = OpenIn(u, f, kinds)
  BY Standing
<1>2. OpenIn(u, f, kinds) \in SUBSET (0..Len(t)) /\ Len(t) \in Nat
  <2>1. Len(t) \in Nat
    BY ShapedIsRooted DEF Stands
  <2>2. \A o \in Opened(f) : o[1] \in 0..Len(t)
    BY <2>1, Standing
  <2> QED BY <2>1, <2>2 DEF OpenIn
<1> QED BY <1>1, <1>2, HighestIs DEF NearestIn

LEMMA TargetCases ==
  ASSUME NEW u, NEW L
  PROVE  /\ u[L].kind = "break" => TargetIn(u, L) = NearestIn(u, L, Breakable)
         /\ u[L].kind = "continue" => TargetIn(u, L) = NearestIn(u, L, LoopKinds)
<1>1. ASSUME u[L].kind = "break" PROVE TargetIn(u, L) = NearestIn(u, L, Breakable)
  BY <1>1 DEF TargetIn, UnwindsIn
<1>2. ASSUME u[L].kind = "continue" PROVE TargetIn(u, L) = NearestIn(u, L, LoopKinds)
  BY <1>2 DEF TargetIn, UnwindsIn
<1> QED BY <1>1, <1>2

LEMMA BreakGoes ==
  ASSUME NEW t, NEW f, NEW x, NEW u, Stands(t, f, x, u), NEW L, L = Len(t) + 1,
         x.kind = "break", MatchIn(u), OpenIn(u, f, Breakable) # {}
  PROVE  \E N \in OpenIn(u, f, Breakable) :
           /\ TargetIn(u, L) = N
           /\ \A m \in OpenIn(u, f, Breakable) : m <= N
           /\ \A m \in 1..Len(u) : u[m].kind \in LeavesExit => m <= N
<1> DEFINE N == NearestIn(u, L, Breakable)
<1>1. N \in OpenIn(u, f, Breakable) /\ \A m \in OpenIn(u, f, Breakable) : m <= N
  BY OpenNearest
<1>2. /\ Shaped(u) /\ Len(u) = L /\ L \in 1..Len(u) /\ u[L] = x /\ Above(u, L) = {o[1] : o \in Opened(f)}
      /\ Openings(u, Opened(f), Top(f).node, Top(f).slot)
  BY Standing
<1>3. TargetIn(u, L) = N
  <2>1. u[L].kind = x.kind
    BY <1>2
  <2> QED BY <2>1, TargetCases
<1>4. ~ExitStaleIn(u, L)
  BY <1>2 DEF MatchIn
<1>5. ASSUME NEW m \in 1..Len(u), u[m].kind \in LeavesExit, ~(m <= N)
      PROVE  FALSE
  <2>1. PICK o \in Opened(f) : N = o[1]
    BY <1>1 DEF OpenIn
  <2>2. N \in 1..Len(u) /\ Len(u) \in Nat
    BY <1>2, <2>1, ShapedIsRooted DEF Openings
  <2>3. m \in (N + 1)..Len(u) /\ m < L
    <3>1. m # L
      BY <1>2, <1>5 DEF LeavesExit
    <3> HIDE DEF N
    <3> QED BY <1>2, <1>5, <2>2, <3>1
  <2>4. N \in Climb(u)[m]
    BY <1>2, <2>1, <2>3 DEF Openings
  <2>5. m \in Climb(u)[L]
    BY <1>4, <1>5, <2>3, <2>4 DEF ExitStaleIn
  <2>6. m \in Above(u, L)
    BY <1>5, <2>5 DEF Above
  <2>7. PICK p \in Opened(f) : m = p[1]
    BY <1>2, <2>6
  <2>8. m \in OpenIn(u, f, Breakable)
    <3>1. u[m].kind \notin LeafKinds
      BY <1>2, <2>7 DEF Openings
    <3>2. u[m].kind \in Breakable
      BY <1>5, <3>1 DEF LeavesExit, LeafKinds, Breakable
    <3> QED BY <2>7, <3>2 DEF OpenIn
  <2> QED BY <1>1, <1>5, <2>8
<1> QED BY <1>1, <1>3, <1>5

LEMMA ContinueGoes ==
  ASSUME NEW t, NEW f, NEW x, NEW u, Stands(t, f, x, u), NEW L, L = Len(t) + 1,
         x.kind = "continue", MatchIn(u), OpenIn(u, f, LoopKinds) # {}
  PROVE  \E N \in OpenIn(u, f, LoopKinds) :
           /\ TargetIn(u, L) = N
           /\ \A m \in 1..Len(u) : u[m].kind \in LoopKinds => m <= N
           /\ u[N].kind # "for" =>
                \A k \in OpenIn(u, f, {"for"}) :
                  (\A m \in OpenIn(u, f, {"for"}) : m <= k) => ~u[k].decl
           /\ OpenIn(u, f, {"for"}) = {} => "outer" \notin u[1].opts
<1> DEFINE N == NearestIn(u, L, LoopKinds)
<1>1. N \in OpenIn(u, f, LoopKinds) /\ \A m \in OpenIn(u, f, LoopKinds) : m <= N
  BY OpenNearest
<1>2. /\ Shaped(u) /\ Len(u) = L /\ L \in 1..Len(u) /\ u[L] = x /\ Above(u, L) = {o[1] : o \in Opened(f)}
      /\ Openings(u, Opened(f), Top(f).node, Top(f).slot)
      /\ \A kinds : Found(u, L, kinds) = OpenIn(u, f, kinds)
  BY Standing
<1>3. TargetIn(u, L) = N
  <2>1. u[L].kind = x.kind
    BY <1>2
  <2> QED BY <2>1, TargetCases
<1>4. ~LatchStaleIn(u, L) /\ ~StrayIn(u, L) /\ ~ForeignIn(u, L)
  BY <1>2 DEF MatchIn
<1>5. ASSUME NEW m \in 1..Len(u), u[m].kind \in LoopKinds, ~(m <= N)
      PROVE  FALSE
  <2>1. PICK o \in Opened(f) : N = o[1]
    BY <1>1 DEF OpenIn
  <2>2. N \in 1..Len(u) /\ Len(u) \in Nat
    BY <1>2, <2>1, ShapedIsRooted DEF Openings
  <2>3. m \in (N + 1)..Len(u) /\ m < L
    <3>1. m # L
      BY <1>2, <1>5 DEF LoopKinds
    <3> HIDE DEF N
    <3> QED BY <1>2, <1>5, <2>2, <3>1
  <2>4. N \in Climb(u)[m]
    BY <1>2, <2>1, <2>3 DEF Openings
  <2>5. m \in Climb(u)[L]
    BY <1>4, <1>5, <2>3, <2>4 DEF LatchStaleIn
  <2>6. m \in Above(u, L)
    BY <1>5, <2>5 DEF Above
  <2>7. PICK p \in Opened(f) : m = p[1]
    BY <1>2, <2>6
  <2>8. m \in OpenIn(u, f, LoopKinds)
    BY <1>5, <2>7 DEF OpenIn
  <2> QED BY <1>1, <1>5, <2>8
<1>6. ASSUME u[N].kind # "for", NEW k \in OpenIn(u, f, {"for"}),
             \A m \in OpenIn(u, f, {"for"}) : m <= k
      PROVE  ~u[k].decl
  <2>1. NearestIn(u, L, {"for"}) = k
    <3>1. OpenIn(u, f, {"for"}) \in SUBSET (0..Len(u)) /\ Len(u) \in Nat
      BY <1>2, ShapedIsRooted DEF OpenIn, Openings
    <3>2. Found(u, L, {"for"}) = OpenIn(u, f, {"for"})
      BY <1>2
    <3> QED BY <1>6, <3>1, <3>2, HighestIs DEF NearestIn
  <2>2. Found(u, L, {"for"}) # {}
    BY <1>2, <1>6
  <2> QED BY <1>4, <1>6, <2>1, <2>2 DEF StrayIn
<1>7. OpenIn(u, f, {"for"}) = {} => "outer" \notin u[1].opts
  BY <1>2, <1>4 DEF ForeignIn
<1> QED BY <1>1, <1>3, <1>5, <1>6, <1>7

LEMMA ExceptionGoes ==
  ASSUME NEW t, NEW f, NEW x, NEW u, Stands(t, f, x, u), NEW L, L = Len(t) + 1,
         x.kind = "throw" \/ (x.kind = "call" /\ "known" \in x.opts), CaughtIn(u)
  PROVE  /\ OpenTries(u, f) = {} => TargetIn(u, L) = 0
         /\ OpenTries(u, f) # {} => TargetIn(u, L) \in OpenTries(u, f)
                                    /\ \A m \in OpenTries(u, f) : m <= TargetIn(u, L)
<1>1. /\ Shaped(u) /\ Len(u) = L /\ L \in 1..Len(u) /\ u[L] = x /\ Path(u, L) = Opened(f)
      /\ \A o \in Opened(f) : o[1] \in 1..Len(u)
  <2>1. /\ Shaped(u) /\ Len(u) = L /\ L \in 1..Len(u) /\ u[L] = x /\ Path(u, L) = Opened(f)
        /\ Openings(u, Opened(f), Top(f).node, Top(f).slot)
    BY Standing
  <2> QED BY <2>1 DEF Openings
<1>2. TargetIn(u, L) = IF CoveredIn(u, L) THEN CatcherIn(u, L) ELSE 0
  BY <1>1 DEF TargetIn, UnwindsIn
<1>3. Catching(u, L) = {p \in Opened(f) : u[p[1]].kind = "try" /\ p[2] = 1}
  BY <1>1 DEF Catching, CaughtIn
<1>4. CoveredIn(u, L) <=> Catching(u, L) # {}
  BY <1>1, <1>3 DEF CoveredIn
<1>5. OpenTries(u, f) = {o[1] : o \in Catching(u, L)}
  BY <1>3 DEF OpenTries
<1>6. ASSUME Catching(u, L) # {}
      PROVE  CatcherIn(u, L) \in OpenTries(u, f) /\ \A m \in OpenTries(u, f) : m <= CatcherIn(u, L)
  <2>1. PICK a \in Catching(u, L) : CatcherIn(u, L) = a[1] /\ \A b \in Catching(u, L) : b[1] <= a[1]
    BY <1>1, <1>6, CatcherIs
  <2> QED BY <1>5, <2>1
<1> QED BY <1>2, <1>4, <1>5, <1>6

LEMMA GoesNowhere ==
  ASSUME NEW u, NEW L, u[L].kind \notin {"break", "continue"}, ~UnwindsIn(u, L)
  PROVE  TargetIn(u, L) = 0
BY DEF TargetIn

(* In a tidy program nothing is kept by the statements a jump leaves.      *)
LEMMA Forgetting ==
  ASSUME NEW t, NEW f, NEW x, NEW u, Stands(t, f, x, u), NEW L, L = Len(t) + 1,
         TidyIn(u), x.kind \in JumpKinds \cup {"call"},
         NEW o \in Opened(f),
         \/ TargetIn(u, L) = 0
         \/ (\E p \in Opened(f) : TargetIn(u, L) = p[1]) /\ o[1] > TargetIn(u, L),
         \/ x.kind \notin {"return", "throw"}
         \/ o[1] # Top(f).node
         \/ t[o[1]].kind \notin {"block", "function"}
  PROVE  Keeps(u, o[1], o[2]) = {}
<1>1. /\ Shaped(u) /\ Len(u) = L /\ L \in 1..Len(u) /\ u[L] = x /\ Path(u, L) = Opened(f)
      /\ Openings(u, Opened(f), Top(f).node, Top(f).slot)
      /\ \A p \in Opened(f) : p[1] \in 1..Len(u) /\ u[p[1]] = t[p[1]]
  <2>1. /\ Shaped(u) /\ Len(u) = L /\ L \in 1..Len(u) /\ u[L] = x /\ Path(u, L) = Opened(f)
        /\ Openings(u, Opened(f), Top(f).node, Top(f).slot)
        /\ \A p \in Opened(f) : u[p[1]] = t[p[1]]
    BY Standing
  <2> QED BY <2>1 DEF Openings
<1>2. o \in Left(u, L)
  <2>1. CASE TargetIn(u, L) = 0
    BY <1>1, <2>1 DEF Left
  <2>2. CASE TargetIn(u, L) # 0
    <3>1. PICK p \in Opened(f) : TargetIn(u, L) = p[1]
      BY <2>2
    <3>2. o[1] \in (p[1] + 1)..Len(u)
      BY <1>1, <2>2, <3>1
    <3>3. p[1] \in Climb(u)[o[1]]
      BY <1>1, <3>2 DEF Openings
    <3> QED BY <1>1, <3>1, <3>3 DEF Left
  <2> QED BY <2>1, <2>2
<1>3. o \notin Owning(u, L)
  BY <1>1 DEF Owning, Stands, Belongs
<1>4. ForgottenIn(u, L) = {}
  BY <1>1 DEF TidyIn
<1>5. Keeps(u, o[1], o[2]) \subseteq ForgottenIn(u, L)
  BY <1>2, <1>3, KeepsOwn DEF ForgottenIn
<1> QED BY <1>4, <1>5

-----------------------------------------------------------------------------
(* The stacks of the compiler *)

(* The topmost exiting blocks are those of the loops and switches in       *)
(* progress, as far down as no completed switch, and no function          *)
(* expression, has left one of its own.                                    *)
ExitsMatch(t, f, exits) ==
  /\ exits \in Seq(NamesOf(t)) /\ Sorted(exits)
  /\ \A n \in OpenIn(t, f, Breakable) :
       (\A m \in 1..Len(t) : t[m].kind \in LeavesExit /\ m > n => m \in OpenIn(t, f, Breakable)) =>
         {e \in Elements(exits) : e[1] >= n} = {Blk(m, "exiting") : m \in {k \in OpenIn(t, f, Breakable) : k >= n}}

LatchesMatch(t, ls) ==
  /\ ls \in Seq(NamesOf(t)) /\ Sorted(ls)
  /\ Elements(ls) = {Blk(n, "latch") : n \in {m \in 1..Len(t) : t[m].kind \in LoopKinds}}

BodyExitsMatch(t, f, bs) ==
  /\ bs \in Seq(1..Len(t)) /\ Increasing(bs)
  /\ Elements(bs) = OpenIn(t, f, {"for"})

(* Every landing pad on the stack is still empty.  One that is not of a    *)
(* try statement in progress is there because a try without a catch clause *)
(* has left its own.                                                       *)
PadsMatch(t, f, ps, c, b) ==
  /\ ps \in Seq(NamesOf(t)) /\ Sorted(ps)
  /\ \A p \in Elements(ps) : /\ p = Blk(p[1], "pad") /\ t[p[1]].kind = "try"
                            /\ p \in DOMAIN c /\ Was(c, p) = <<>> /\ p # b
  /\ \A n \in OpenTries(t, f) : Blk(n, "pad") \in Elements(ps)
  /\ CaughtIn(t) => \A p \in Elements(ps) : p[1] \in OpenTries(t, f)
  /\ \A n \in 1..Len(t) : t[n].kind = "try" /\ "catch" \notin t[n].opts /\ n \notin OpenTries(t, f) =>
       \E p \in Elements(ps) : p[1] \notin OpenTries(t, f)

Scoped(t, n) ==
  t[n].kind \in {"function", "block", "while", "do", "forof", "forin"} \/ (t[n].kind = "for" /\ t[n].decl)
ScopedIn(t, f) == {o[1] : o \in {p \in Opened(f) : Scoped(t, p[1])}}

(* What the scope of a statement releases. *)
Declared(t, n) ==
  CASE t[n].kind \in {"function", "block"} ->
         (IF t[n].decl THEN {Blk(n, "local")} ELSE {})
         \cup (IF n # 1 /\ t[t[n].parent].kind = "try" /\ t[n].slot = 2 /\ "var" \in t[t[n].parent].opts
               THEN {Blk(t[n].parent, "e")} ELSE {})
    [] t[n].kind = "for" -> {Blk(n, "copy")}
    [] t[n].kind = "forof" -> IF "tuple" \in t[n].opts THEN {} ELSE {Blk(n, "element")}
    [] t[n].kind = "forin" -> {Blk(n, "element")}
    [] OTHER -> {}

(* The scopes belong to statements in progress.  One that has already been *)
(* left by a return or a throw has only blocks inside it.                  *)
Good(t, c) == CaughtIn(t) /\ TidyIn(t) /\ WellBlocks(c)
Owns(t, f, ss, owner) ==
  /\ owner \in Seq(1..Len(t)) /\ Len(owner) = Len(ss) /\ Increasing(owner)
  /\ Elements(owner) = ScopedIn(t, f)
  /\ \A i \in 1..Len(ss) : ss[i].vals = Declared(t, owner[i])
NoFlags(ss) == \A i \in 1..Len(ss) : ss[i].isDeinitialized => ss[i].vals = {}
FlagsMatch(t, f, ss, owner) ==
  \A i \in 1..Len(ss) : ss[i].isDeinitialized /\ ss[i].vals # {} =>
    /\ t[owner[i]].kind \in {"function", "block"}
    /\ \A o \in Opened(f) : o[1] > owner[i] => t[o[1]].kind = "block"
ScopesMatch(t, f, ss, c, b) ==
  /\ ss \in Seq([vals : SUBSET NamesOf(t), isDeinitialized : BOOLEAN])
  /\ \E owner : /\ Owns(t, f, ss, owner)
                /\ Good(t, c) => NoFlags(ss) \/ (Terminated(c, b) /\ FlagsMatch(t, f, ss, owner))

-----------------------------------------------------------------------------
(* The code *)

Expected(t, f) == UNION {Reserved(t, o[1], o[2]) : o \in Opened(f)}

(* The blocks that are there, empty, since their handler began.            *)
Ahead(t, n) ==
  CASE t[n].kind = "if" -> {Blk(n, "else"), Blk(n, "endif")}
    [] t[n].kind \in {"do", "forof", "forin"} -> {Blk(n, "exiting"), Blk(n, "end")}
    [] t[n].kind = "switch" -> {Blk(n, "switch"), Blk(n, "end")} \cup {Clause(n, i) : i \in DOMAIN t[n].clauses}
    [] OTHER -> {}
AfterTry(t, o, c) == t[o[1]].kind = "try" /\ o[2] # 1 => Blk(o[1], "after") \in DOMAIN c
Built(t, f, c) == \A o \in Opened(f) : Ahead(t, o[1]) \subseteq DOMAIN c /\ AfterTry(t, o, c)

(* What is kept where the compiler stands: in a catch clause whose block   *)
(* has not begun not even the exception, after it the exception alone.     *)
Now(t, f) ==
  IF t[Top(f).node].kind = "try" /\ Top(f).slot = 2
  THEN ScopeIn(t, Top(f).node)
       \cup (IF \E m \in 1..Len(t) : t[m].parent = Top(f).node /\ t[m].slot = 2
             THEN {Blk(Top(f).node, "caught")} ELSE {})
  ELSE Kept(t, Opened(f))

PlaceIsRight(t, f, c, b) ==
  IF Terminated(c, b)
  THEN Top(c[b]).op = "br" => \A x \in Top(c[b]).to : x[1] \in OpenIn(t, f, Breakable \cup {"try"})
  ELSE /\ Now(t, f) \subseteq After(HeldIn(t, b), c[b])
       /\ TidyIn(t) => After(HeldIn(t, b), c[b]) \subseteq Now(t, f)

CatchBegins(t, f, c, b) ==
  t[Top(f).node].kind = "try" /\ Top(f).slot = 2
  /\ ~(\E m \in 1..Len(t) : t[m].parent = Top(f).node /\ t[m].slot = 2) =>
    b = Blk(Top(f).node, "pad") /\ c[b] = <<>>

CodeMatches(t, f, c, b) ==
  /\ Written(NamesOf(t), Typing(t), c)
  /\ b \in DOMAIN c
  /\ BlocksOf(t) \subseteq DOMAIN c \cup Expected(t, f)
  /\ Built(t, f, c)
  /\ \A x \in Expected(t, f) : x # b /\ Was(c, x) = <<>>
  /\ CaughtIn(t) => CatchBegins(t, f, c, b)
  /\ CaughtIn(t) /\ WellBlocks(c) => PlaceIsRight(t, f, c, b)

-----------------------------------------------------------------------------
(* Readings of the definitions *)

(* The parts of the typing of a program. *)
LEMMA TypingIs ==
  ASSUME NEW t
  PROVE  /\ Typing(t).blocks = BlocksOf(t) /\ Typing(t).tidy = TidyIn(t) /\ Typing(t).caught = CaughtIn(t)
         /\ \A b \in NamesOf(t) : Typing(t).held[b] = HeldIn(t, b)
         /\ \A n \in 1..Len(t) : Typing(t).scope[n] = ScopeIn(t, n)
BY DEF Typing

(* The names of the blocks. *)
LEMMA Names ==
  ASSUME NEW t, NEW n \in 1..Len(t), NEW part \in Parts, NEW i \in Nat
  PROVE  Part(n, part, i) \in NamesOf(t) /\ Blk(n, part) \in NamesOf(t)
BY DEF Part, Blk, NamesOf

(* Where a block other than that of a throw begins. *)
LEMMA HeldAre ==
  ASSUME NEW t, NEW n, t[n].kind # "throw", NEW part, NEW i
  PROVE  /\ HeldIn(t, Part(n, part, i)) = ScopeIn(t, n) \cup OwnHeld(t, n, part)
         /\ HeldIn(t, Blk(n, part)) = ScopeIn(t, n) \cup OwnHeld(t, n, part)
BY DEF HeldIn, Part, Blk

(* A block that the program has, and that is reached with what it expects. *)
LEMMA Reached ==
  ASSUME NEW t, NEW b \in NamesOf(t), b \in BlocksOf(t), NEW h,
         HeldIn(t, b) \subseteq h, TidyIn(t) => h \subseteq HeldIn(t, b)
  PROVE  Expects(Typing(t), b, h)
BY TypingIs DEF Expects

(* Only names of the program are held.                                     *)
LEMMA OnlyNames ==
  ASSUME NEW names, NEW s \in Seq(Instructions(names)), NEW m \in SUBSET names
  PROVE  After(m, s) \subseteq names /\ Dropped(s) \subseteq names
<1>1. \A j \in 1..Len(s) : Acquired(s[j]) \subseteq names /\ Released(s[j]) \subseteq names
  <2> SUFFICES ASSUME NEW j \in 1..Len(s) PROVE Acquired(s[j]) \subseteq names /\ Released(s[j]) \subseteq names
    OBVIOUS
  <2>1. s[j] \in Instructions(names)
    OBVIOUS
  <2> QED BY <2>1 DEF Instructions, Acquired, Released
<1>2. Len(s) \in Nat
  OBVIOUS
<1>3. (Len(s) + 1) - 1 = Len(s)
  BY <1>2
<1>4. Gains(s, Len(s) + 1) \subseteq names /\ Drops(s, Len(s) + 1) \subseteq names
  BY <1>1, <1>3, Members
<1> QED BY <1>4 DEF After, Dropped, Before

(* Where a block stands: what is held and released at its end.             *)
Held(t, c, b) == After(HeldIn(t, b), c[b])
Gone(c, b) == Dropped(c[b])

(* The names of what is held at the end of a block. *)
LEMMA HeldHere ==
  ASSUME NEW t, Shaped(t), NEW c, Named(NamesOf(t), c), NEW b \in DOMAIN c
  PROVE  /\ b \in NamesOf(t) /\ c[b] \in Seq(Instructions(NamesOf(t)))
         /\ Held(t, c, b) \subseteq NamesOf(t) /\ Gone(c, b) \subseteq NamesOf(t)
         /\ b[1] \in 1..Len(t)
<1>1. b \in NamesOf(t) /\ c[b] \in Seq(Instructions(NamesOf(t)))
  BY DEF Named
<1>2. HeldIn(t, b) \in SUBSET NamesOf(t)
  BY <1>1, HeldNames
<1>3. Held(t, c, b) \subseteq NamesOf(t) /\ Gone(c, b) \subseteq NamesOf(t)
  <2> DEFINE m == HeldIn(t, b)
  <2> DEFINE s == c[b]
  <2>1. m \in SUBSET NamesOf(t) /\ s \in Seq(Instructions(NamesOf(t)))
    BY <1>1, <1>2
  <2> HIDE DEF m, s
  <2>2. After(m, s) \subseteq NamesOf(t) /\ Dropped(s) \subseteq NamesOf(t)
    BY <2>1, OnlyNames
  <2> QED BY <2>2 DEF Held, Gone, m, s
<1> QED BY <1>1, <1>3 DEF NamesOf

(* A node that was not there before has no resources yet.                  *)
LEMMA NothingOf ==
  ASSUME NEW t, NEW S \in SUBSET NamesOf(t), NEW n \in Int, n \notin 1..Len(t), NEW part
  PROVE  Blk(n, part) \notin S
BY DEF Blk, NamesOf

(* The end of a block.                                                     *)
LEMMA EndOf ==
  ASSUME NEW S, NEW s \in Seq(S), NEW i \in S, NEW p \in Seq(S)
  PROVE  /\ p \o (s \o <<i>>) # <<>> /\ Top(p \o (s \o <<i>>)) = i
         /\ p \o <<i>> # <<>> /\ Top(p \o <<i>>) = i
<1>1. p \o (s \o <<i>>) = Append(p \o s, i) /\ p \o <<i>> = Append(p, i)
  <2>1. p \o (s \o <<i>>) = (p \o s) \o <<i>> /\ p \o <<i>> = Append(p, i) /\ p \o s \in Seq(S)
    BY Joining
  <2>2. (p \o s) \o <<i>> = Append(p \o s, i)
    <3> DEFINE q == p \o s
    <3> HIDE DEF q
    <3>1. q \in Seq(S)
      BY <2>1 DEF q
    <3>2. q \o <<i>> = Append(q, i)
      BY <3>1
    <3> QED BY <3>2 DEF q
  <2> QED BY <2>1, <2>2
<1>2. p \o s \in Seq(S)
  OBVIOUS
<1> DEFINE q == p \o s
<1> HIDE DEF q
<1>3. q \in Seq(S)
  BY <1>2 DEF q
<1>4. Append(q, i) # <<>> /\ Top(Append(q, i)) = i
  BY <1>3, Longer
<1>5. Append(p, i) # <<>> /\ Top(Append(p, i)) = i
  BY Longer
<1> QED BY <1>1, <1>4, <1>5 DEF q

-----------------------------------------------------------------------------
(* Writing code *)

(* Only b has been written to.                                             *)
Only(c, b, e) == DOMAIN c \subseteq DOMAIN e /\ \A x : x # b => Was(e, x) = Was(c, x)

(* Written at the end of the block where the compiler stands.              *)
Continued(u, c, b, s, h, d, e) ==
  /\ Written(NamesOf(u), Typing(u), e)
  /\ Only(c, b, e) /\ b \in DOMAIN e /\ DOMAIN e = DOMAIN c
  /\ e[b] = c[b] \o s /\ c[b] \in Seq(Instructions(NamesOf(u)))
  /\ WellBlocks(e) => WellBlocks(c) /\ (s # <<>> => ~Terminated(c, b))
  /\ CaughtIn(u) /\ WellBlocks(e) => Held(u, e, b) = h /\ Gone(e, b) = d

(* Instructions appended to the block in progress. *)
LEMMA Emits ==
  ASSUME NEW t, NEW u, Grows(t, u), NEW f, NEW c, NEW b, CodeMatches(t, f, c, b),
         NEW s \in Seq(Instructions(NamesOf(u))), NEW h, NEW d,
         CaughtIn(u) /\ WellBlocks(c) /\ (s # <<>> => ~Terminated(c, b)) =>
           Runs(NamesOf(u), Typing(u), s, Held(t, c, b), Gone(c, b), h, d)
  PROVE  Continued(u, c, b, s, h, d, c ++ In(b, s))
<1>1. Written(NamesOf(u), Typing(u), c) /\ b \in DOMAIN c
  BY Grown DEF CodeMatches
<1>2. b \in NamesOf(t) /\ b \in NamesOf(u)
  <2>1. b \in NamesOf(t)
    BY HeldHere DEF CodeMatches, Written, Grows
  <2>2. b \in NamesOf(u)
    BY <1>1 DEF Written, Named
  <2> QED BY <2>1, <2>2
<1>3. Typing(u).held[b] = HeldIn(t, b) /\ Typing(u).held[b] = HeldIn(u, b) /\ Typing(u).caught = CaughtIn(u)
  BY <1>2, TypingIs, SameHeld
<1>4. Typing(u).caught /\ WellBlocks(c) /\ (s # <<>> => ~Terminated(c, b)) =>
        Runs(NamesOf(u), Typing(u), s, After(Typing(u).held[b], c[b]), Dropped(c[b]), h, d)
  BY <1>3 DEF Held, Gone
<1> DEFINE e == c ++ In(b, s)
<1>5. /\ Written(NamesOf(u), Typing(u), e) /\ Extends(c, b, s, e)
      /\ WellBlocks(e) => WellBlocks(c) /\ (s # <<>> => ~Terminated(c, b))
      /\ Typing(u).caught /\ WellBlocks(e) =>
              After(Typing(u).held[b], e[b]) = h /\ Dropped(e[b]) = d
  <2> DEFINE T == Typing(u)
  <2> DEFINE names == NamesOf(u)
  <2>1. /\ Written(names, T, c) /\ b \in DOMAIN c /\ s \in Seq(Instructions(names))
        /\ T.caught /\ WellBlocks(c) /\ (s # <<>> => ~Terminated(c, b)) =>
             Runs(names, T, s, After(T.held[b], c[b]), Dropped(c[b]), h, d)
    BY <1>1, <1>4
  <2> HIDE DEF T, names
  <2>2. Emitted(names, T, c, b, s, h, d, c ++ In(b, s))
    BY <2>1, Emitting
  <2> QED BY <2>2 DEF T, names, Emitted
<1>6. Only(c, b, e) /\ b \in DOMAIN e /\ DOMAIN e = DOMAIN c
  BY <1>1, <1>5 DEF Extends, Only
<1>7. e[b] = c[b] \o s
  <2> HIDE DEF e
  <2> QED BY <1>1, <1>5, <1>6 DEF Extends, Was
<1>8. c[b] \in Seq(Instructions(NamesOf(u)))
  BY <1>1 DEF Written, Named
<1> HIDE DEF e
<1>9. CaughtIn(u) /\ WellBlocks(e) => Held(u, e, b) = h /\ Gone(e, b) = d
  BY <1>3, <1>5 DEF Held, Gone
<1> QED BY <1>5, <1>6, <1>7, <1>8, <1>9 DEF e, Continued

(* Written in blocks that were empty: those in F, the blocks in D are new  *)
(* or have been there.                                                     *)
Fills(t, c, F, D, e) ==
  /\ Written(NamesOf(t), Typing(t), e) /\ F \subseteq D
  /\ DOMAIN e = DOMAIN c \cup D
  /\ \A x : x \notin F => Was(e, x) = Was(c, x)
  /\ WellBlocks(e) => WellBlocks(c)

(* Nothing is written to new blocks yet. *)
LEMMA FillNone ==
  ASSUME NEW t, NEW c, Written(NamesOf(t), Typing(t), c)
  PROVE  Fills(t, c, {}, {}, c)
BY DEF Fills

FilledOne(t, c, F, D, b, s, e) ==
  /\ Fills(t, c, F \cup {b}, D \cup {b}, e) /\ e[b] = s
  /\ s = <<>> => Fills(t, c, F, D \cup {b}, e)

(* A block that is still empty is written. *)
LEMMA FillOne ==
  ASSUME NEW t, NEW c, NEW F, NEW D, NEW e, Fills(t, c, F, D, e),
         NEW b \in NamesOf(t), b \notin F, Was(c, b) = <<>>,
         NEW s \in Seq(Instructions(NamesOf(t))), NEW h, NEW d,
         CaughtIn(t) => Runs(NamesOf(t), Typing(t), s, HeldIn(t, b), {}, h, d)
  PROVE  FilledOne(t, c, F, D, b, s, e ++ In(b, s))
<1>1. Was(e, b) = <<>> /\ Written(NamesOf(t), Typing(t), e)
  BY DEF Fills
<1>2. Typing(t).caught => Runs(NamesOf(t), Typing(t), s, Typing(t).held[b], {}, h, d)
  BY TypingIs
<1> DEFINE g == e ++ In(b, s)
<1>3. /\ Written(NamesOf(t), Typing(t), g) /\ Extends(e, b, s, g)
      /\ b \in DOMAIN g /\ g[b] = s
      /\ WellBlocks(g) => WellBlocks(e)
  <2> DEFINE T == Typing(t)
  <2> DEFINE names == NamesOf(t)
  <2> DEFINE m == T.held[b]
  <2>1. /\ Written(names, T, e) /\ b \in names /\ Was(e, b) = <<>> /\ s \in Seq(Instructions(names))
        /\ T.caught => Runs(names, T, s, T.held[b], {}, h, d)
    BY <1>1, <1>2
  <2> HIDE DEF T, names
  <2>2. BlockFilled(names, T, e, b, s, h, d, e ++ In(b, s))
    BY <2>1, Filling
  <2> QED BY <2>2 DEF T, names, BlockFilled
<1> HIDE DEF g
<1>4. Fills(t, c, F \cup {b}, D \cup {b}, g)
  BY <1>3 DEF Fills, Extends
<1>5. ASSUME s = <<>> PROVE Fills(t, c, F, D \cup {b}, g)
  <2>1. Was(g, b) = Was(c, b)
    BY <1>3, <1>5 DEF Was
  <2> QED BY <1>3, <2>1 DEF Fills, Extends
<1> QED BY <1>3, <1>4, <1>5 DEF g, FilledOne

(* A block is added and stays empty. *)
LEMMA FillEmpty ==
  ASSUME NEW t, NEW c, NEW F, NEW D, NEW e, Fills(t, c, F, D, e),
         NEW b \in NamesOf(t), b \notin F, Was(c, b) = <<>>
  PROVE  Fills(t, c, F, D \cup {b}, e ++ In(b, <<>>)) /\ (e ++ In(b, <<>>))[b] = <<>>
<1>1. <<>> \in Seq(Instructions(NamesOf(t)))
  OBVIOUS
<1>2. Runs(NamesOf(t), Typing(t), <<>>, HeldIn(t, b), {}, HeldIn(t, b), {})
  BY RunNothing
<1> DEFINE s == <<>>
<1> DEFINE h == HeldIn(t, b)
<1>3. s \in Seq(Instructions(NamesOf(t))) /\ s = <<>>
      /\ (CaughtIn(t) => Runs(NamesOf(t), Typing(t), s, HeldIn(t, b), {}, h, {}))
  BY <1>1, <1>2
<1> HIDE DEF s, h
<1>4. FilledOne(t, c, F, D, b, s, e ++ In(b, s))
  BY <1>3, FillOne
<1> QED BY <1>3, <1>4 DEF FilledOne

(* A branch to blocks with the same held resources.                        *)
LEMMA RunBranch ==
  ASSUME NEW t, NEW h, NEW d, NEW ts \in SUBSET BlocksOf(t), ts \subseteq NamesOf(t),
         \A y \in ts : HeldIn(t, y) \subseteq h /\ (TidyIn(t) => h \subseteq HeldIn(t, y))
  PROVE  /\ Runs(NamesOf(t), Typing(t), <<Br(ts)>>, h, d, h, d)
         /\ <<Br(ts)>> \in Seq(Instructions(NamesOf(t)))
<1>1. \A y \in ts : Expects(Typing(t), y, h)
  BY Reached
<1>2. Runs(NamesOf(t), Typing(t), <<Br(ts)>>, h, d, h, d)
  BY <1>1, Branching
<1> QED BY <1>2 DEF Runs

(* The evaluation of an expression alone. *)
LEMMA RunEval ==
  ASSUME NEW t, NEW h, NEW d, NEW x \in NamesOf(t), ScopeIn(t, x[1]) \subseteq h
  PROVE  /\ Runs(NamesOf(t), Typing(t), <<Eval(x)>>, h, d, h, d)
         /\ <<Eval(x)>> \in Seq(Instructions(NamesOf(t)))
<1>1. Typing(t).scope[x[1]] \subseteq h
  BY TypingIs DEF NamesOf
<1>2. Runs(NamesOf(t), Typing(t), <<Eval(x)>>, h, d, h, d)
  BY <1>1, Evaluating
<1> QED BY <1>2 DEF Runs

(* An expression is evaluated and a branch taken. *)
LEMMA RunTest ==
  ASSUME NEW t, NEW h, NEW d, NEW x \in NamesOf(t), ScopeIn(t, x[1]) \subseteq h,
         NEW ts \in SUBSET BlocksOf(t), ts \subseteq NamesOf(t),
         \A y \in ts : HeldIn(t, y) \subseteq h /\ (TidyIn(t) => h \subseteq HeldIn(t, y))
  PROVE  /\ Runs(NamesOf(t), Typing(t), <<Eval(x), Br(ts)>>, h, d, h, d)
         /\ <<Eval(x), Br(ts)>> \in Seq(Instructions(NamesOf(t)))
         /\ <<Eval(x), Br(ts)>> = <<Eval(x)>> \o <<Br(ts)>>
<1>1. Runs(NamesOf(t), Typing(t), <<Eval(x)>>, h, d, h, d)
  BY RunEval
<1>2. Runs(NamesOf(t), Typing(t), <<Br(ts)>>, h, d, h, d)
  BY RunBranch
<1>3. Runs(NamesOf(t), Typing(t), <<Eval(x)>> \o <<Br(ts)>>, h, d, h, d)
  BY <1>1, <1>2, RunBoth
<1>4. Eval(x) \in Instructions(NamesOf(t)) /\ Br(ts) \in Instructions(NamesOf(t))
  BY DEF Eval, Br, Instructions
<1>5. <<Eval(x), Br(ts)>> = <<Eval(x)>> \o <<Br(ts)>>
  BY <1>4, Pairs
<1>6. Runs(NamesOf(t), Typing(t), <<Eval(x), Br(ts)>>, h, d, h, d)
  BY <1>3, <1>5
<1> QED BY <1>5, <1>6 DEF Runs

(* An empty block becomes a branch. *)
LEMMA FillBranch ==
  ASSUME NEW t, NEW c, NEW F, NEW D, NEW e, Fills(t, c, F, D, e),
         NEW b \in NamesOf(t), b \notin F, Was(c, b) = <<>>,
         NEW ts \in SUBSET BlocksOf(t), ts \subseteq NamesOf(t), \A y \in ts : HeldIn(t, y) = HeldIn(t, b)
  PROVE  Fills(t, c, F \cup {b}, D \cup {b}, e ++ In(b, <<Br(ts)>>))
<1>1. /\ Runs(NamesOf(t), Typing(t), <<Br(ts)>>, HeldIn(t, b), {}, HeldIn(t, b), {})
      /\ <<Br(ts)>> \in Seq(Instructions(NamesOf(t)))
  BY RunBranch
<1> QED BY <1>1, FillOne DEF FilledOne

(* An empty block becomes an evaluation and a branch. *)
LEMMA FillTest ==
  ASSUME NEW t, NEW c, NEW F, NEW D, NEW e, Fills(t, c, F, D, e),
         NEW b \in NamesOf(t), b \notin F, Was(c, b) = <<>>, ScopeIn(t, b[1]) \subseteq HeldIn(t, b),
         NEW ts \in SUBSET BlocksOf(t), ts \subseteq NamesOf(t), \A y \in ts : HeldIn(t, y) = HeldIn(t, b)
  PROVE  Fills(t, c, F \cup {b}, D \cup {b}, e ++ In(b, <<Eval(b), Br(ts)>>))
<1>1. /\ Runs(NamesOf(t), Typing(t), <<Eval(b), Br(ts)>>, HeldIn(t, b), {}, HeldIn(t, b), {})
      /\ <<Eval(b), Br(ts)>> \in Seq(Instructions(NamesOf(t)))
  BY RunTest
<1> QED BY <1>1, FillOne DEF FilledOne

-----------------------------------------------------------------------------
(* What a step of the compiler leaves alone *)

(* A step at b writes to b and the blocks of n, and goes on in b or a      *)
(* block of n, but it touches no landing pad that is on the stack.         *)
Touched(c, b, c2, b2, n) ==
  /\ DOMAIN c \subseteq DOMAIN c2 /\ b2 \in DOMAIN c2
  /\ \A y : y # b /\ (y[1] # n \/ y[2] = "pad") => Was(c2, y) = Was(c, y)
  /\ b2 = b \/ (b2[1] = n /\ b2[2] # "pad")

(* A step that writes to its block and to new ones touches nothing else. *)
LEMMA TouchedBy ==
  ASSUME NEW t, NEW c, NEW b, NEW e, Only(c, b, e), NEW F, NEW D, NEW c2, Fills(t, e, F, D, c2),
         NEW n, \A x \in F : x[1] = n /\ x[2] # "pad",
         NEW b2 \in DOMAIN c2, b2 = b \/ (b2[1] = n /\ b2[2] # "pad")
  PROVE  Touched(c, b, c2, b2, n)
BY DEF Only, Fills, Touched

(* The sets of the statements in progress, when a leaf is added.           *)
Alike(t, f, u, g) ==
  /\ \A kinds : OpenIn(u, g, kinds) = OpenIn(t, f, kinds)
  /\ OpenTries(u, g) = OpenTries(t, f) /\ ScopedIn(u, g) = ScopedIn(t, f) /\ Expected(u, g) = Expected(t, f)

(* A node that is added to the program leaves the sets of what is open as they are. *)
LEMMA SameSets ==
  ASSUME NEW t, NEW u, Grows(t, u), NEW f, Nested(t, f)
  PROVE  /\ Alike(t, f, u, f) /\ Kept(u, Opened(f)) = Kept(t, Opened(f))
         /\ \A o \in Opened(f) : o[1] \in 1..Len(t) /\ u[o[1]] = t[o[1]]
<1>1. \A o \in Opened(f) : o[1] \in 1..Len(t)
  BY Frames DEF Openings, Grows
<1>2. \A o \in Opened(f) : u[o[1]] = t[o[1]] /\ Reserved(u, o[1], o[2]) = Reserved(t, o[1], o[2])
  BY <1>1, SameBlocks DEF Grows
<1>3. \A kinds : OpenIn(u, f, kinds) = OpenIn(t, f, kinds)
  BY <1>2 DEF OpenIn
<1>4. OpenTries(u, f) = OpenTries(t, f) /\ ScopedIn(u, f) = ScopedIn(t, f)
  BY <1>2 DEF OpenTries, ScopedIn, Scoped
<1>5. Expected(u, f) = Expected(t, f)
  BY <1>2 DEF Expected
<1>6. Kept(u, Opened(f)) = Kept(t, Opened(f))
  BY <1>1, SameKept
<1> QED BY <1>1, <1>2, <1>3, <1>4, <1>5, <1>6 DEF Alike

(* What it is to be among the open nodes. *)
LEMMA Readings ==
  ASSUME NEW t, NEW f
  PROVE  /\ \A kinds : \A k : k \in OpenIn(t, f, kinds) <=> \E o \in Opened(f) : k = o[1] /\ t[o[1]].kind \in kinds
         /\ \A k : k \in OpenTries(t, f) <=> \E o \in Opened(f) : k = o[1] /\ t[o[1]].kind = "try" /\ o[2] = 1
         /\ \A k : k \in ScopedIn(t, f) <=> \E o \in Opened(f) : k = o[1] /\ Scoped(t, o[1])
         /\ \A x : x \in Expected(t, f) <=> \E o \in Opened(f) : x \in Reserved(t, o[1], o[2])
<1>1. \A kinds : \A k : k \in OpenIn(t, f, kinds) <=> \E o \in Opened(f) : k = o[1] /\ t[o[1]].kind \in kinds
  BY DEF OpenIn
<1>2. \A k : k \in OpenTries(t, f) <=> \E o \in Opened(f) : k = o[1] /\ t[o[1]].kind = "try" /\ o[2] = 1
  BY DEF OpenTries
<1>3. \A k : k \in ScopedIn(t, f) <=> \E o \in Opened(f) : k = o[1] /\ Scoped(t, o[1])
  BY DEF ScopedIn
<1>4. \A x : x \in Expected(t, f) <=> \E o \in Opened(f) : x \in Reserved(t, o[1], o[2])
  BY DEF Expected
<1> QED BY <1>1, <1>2, <1>3, <1>4

(* What it is to be kept by scopes. *)
LEMMA KeptReading ==
  ASSUME NEW t
  PROVE  \A S, x : x \in Kept(t, S) <=> \E a \in S : x \in Keeps(t, a[1], a[2])
BY DEF Kept

(* When a handler begins with the last node.                               *)
Enters(f, g, L, slot) == Opened(g) = Opened(f) \cup {<<L, slot>>}
Leaves(f, g, n, slot) == Opened(g) = Opened(f) \ {<<n, slot>>}
GoesOn(f, g, n, slot, next) == Opened(g) = (Opened(f) \ {<<n, slot>>}) \cup {<<n, next>>}

More(t, f, g, L, slot) ==
  /\ \A kinds : t[L].kind \in kinds => OpenIn(t, g, kinds) = OpenIn(t, f, kinds) \cup {L}
  /\ \A kinds : t[L].kind \notin kinds => OpenIn(t, g, kinds) = OpenIn(t, f, kinds)
  /\ t[L].kind = "try" /\ slot = 1 => OpenTries(t, g) = OpenTries(t, f) \cup {L}
  /\ t[L].kind # "try" => OpenTries(t, g) = OpenTries(t, f)
  /\ Scoped(t, L) => ScopedIn(t, g) = ScopedIn(t, f) \cup {L}
  /\ ~Scoped(t, L) => ScopedIn(t, g) = ScopedIn(t, f)
  /\ Expected(t, g) = Expected(t, f) \cup Reserved(t, L, slot)
  /\ Kept(t, Opened(g)) = Kept(t, Opened(f)) \cup Keeps(t, L, slot)

(* A handler begins: what is open afterwards. *)
LEMMA MoreSets ==
  ASSUME NEW t, NEW f, NEW g, NEW L, NEW slot, Enters(f, g, L, slot)
  PROVE  More(t, f, g, L, slot)
<1>0. \A o : o \in Opened(g) <=> o \in Opened(f) \/ o = <<L, slot>>
  BY DEF Enters
<1> DEFINE new == <<L, slot>>
<1>00. new[1] = L /\ new[2] = slot /\ \A o : o \in Opened(g) <=> o \in Opened(f) \/ o = new
  BY <1>0
<1> HIDE DEF new
<1>1. \A kinds : OpenIn(t, g, kinds) = OpenIn(t, f, kinds) \cup (IF t[L].kind \in kinds THEN {L} ELSE {})
  <2> TAKE kinds
  <2>1. \A k : k \in OpenIn(t, g, kinds) <=> \E o \in Opened(g) : k = o[1] /\ t[o[1]].kind \in kinds
    BY Readings
  <2>2. \A k : k \in OpenIn(t, f, kinds) <=> \E o \in Opened(f) : k = o[1] /\ t[o[1]].kind \in kinds
    BY Readings
  <2> QED BY <1>00, <2>1, <2>2
<1>2. OpenTries(t, g) = OpenTries(t, f) \cup (IF t[L].kind = "try" /\ slot = 1 THEN {L} ELSE {})
  BY <1>00, Readings
<1>3. ScopedIn(t, g) = ScopedIn(t, f) \cup (IF Scoped(t, L) THEN {L} ELSE {})
  BY <1>00, Readings
<1>4. Expected(t, g) = Expected(t, f) \cup Reserved(t, L, slot)
  BY <1>00, Readings
<1>5. Kept(t, Opened(g)) = Kept(t, Opened(f)) \cup Keeps(t, L, slot)
  BY <1>00, KeptReading
<1>6. /\ \A kinds : t[L].kind \in kinds => OpenIn(t, g, kinds) = OpenIn(t, f, kinds) \cup {L}
      /\ \A kinds : t[L].kind \notin kinds => OpenIn(t, g, kinds) = OpenIn(t, f, kinds)
  BY <1>1
<1>7. /\ t[L].kind = "try" /\ slot = 1 => OpenTries(t, g) = OpenTries(t, f) \cup {L}
      /\ t[L].kind # "try" => OpenTries(t, g) = OpenTries(t, f)
  BY <1>2
<1>8. /\ Scoped(t, L) => ScopedIn(t, g) = ScopedIn(t, f) \cup {L}
      /\ ~Scoped(t, L) => ScopedIn(t, g) = ScopedIn(t, f)
  BY <1>3
<1> QED BY <1>4, <1>5, <1>6, <1>7, <1>8 DEF More

(* When the innermost handler is left.                                     *)
Fewer(t, f, g, n, slot) ==
  /\ \A kinds : OpenIn(t, g, kinds) = OpenIn(t, f, kinds) \ {n}
  /\ OpenTries(t, g) = OpenTries(t, f) \ {n}
  /\ ScopedIn(t, g) = ScopedIn(t, f) \ {n}
  /\ Expected(t, f) = Expected(t, g) \cup Reserved(t, n, slot)
  /\ Kept(t, Opened(g)) = ScopeIn(t, n)
  /\ \A o \in Opened(g) : o \in Opened(f) /\ o[1] < n
  /\ <<n, slot>> \in Opened(f)
  /\ \A o \in Opened(f) : o[1] <= n /\ o[1] \in 1..Len(t) /\ (o[1] = n => o = <<n, slot>>)

(* A handler ends: what is open afterwards. *)
LEMMA FewerSets ==
  ASSUME NEW t, Shaped(t), NEW f, Nested(t, f), NEW g, NEW n, NEW slot, n = Top(f).node, slot = Top(f).slot,
         Leaves(f, g, n, slot)
  PROVE  Fewer(t, f, g, n, slot)
<1>1. Openings(t, Opened(f), n, slot)
  BY Frames
<1>2. /\ <<n, slot>> \in Opened(f)
      /\ \A o \in Opened(f) : o[1] <= n /\ o[1] \in 1..Len(t) /\ (o[1] = n => o = <<n, slot>>)
  BY <1>1 DEF Openings
<1>3. n \in 1..Len(t) /\ Len(t) \in Nat
  BY <1>2, ShapedIsRooted
<1>4. \A o \in Opened(g) : o \in Opened(f) /\ o[1] < n
  BY <1>2, <1>3 DEF Leaves
<1>5. \A o \in Opened(f) : o[1] # n <=> o \in Opened(g)
  BY <1>2 DEF Leaves
<1>6. \A kinds : OpenIn(t, g, kinds) = OpenIn(t, f, kinds) \ {n}
  BY <1>4, <1>5 DEF OpenIn
<1>7. OpenTries(t, g) = OpenTries(t, f) \ {n}
  BY <1>4, <1>5 DEF OpenTries
<1>8. ScopedIn(t, g) = ScopedIn(t, f) \ {n}
  BY <1>4, <1>5 DEF ScopedIn
<1>9. Expected(t, f) = Expected(t, g) \cup Reserved(t, n, slot)
  BY <1>2, <1>4, <1>5 DEF Expected
<1>10. Kept(t, Opened(g)) = ScopeIn(t, n)
  BY <1>1, OpenScopes DEF Leaves, KeptInside
<1> QED BY <1>2, <1>4, <1>6, <1>7, <1>8, <1>9, <1>10 DEF Fewer

(* When it goes on to another slot.                                        *)
Shifted(t, f, g, n, slot, next) ==
  /\ \A kinds : OpenIn(t, g, kinds) = OpenIn(t, f, kinds)
  /\ ScopedIn(t, g) = ScopedIn(t, f)
  /\ Kept(t, Opened(g)) = ScopeIn(t, n) \cup Keeps(t, n, next)
  /\ Kept(t, Opened(f)) = ScopeIn(t, n) \cup Keeps(t, n, slot)
  /\ <<n, next>> \in Opened(g)
  /\ t[n].kind # "try" => OpenTries(t, g) = OpenTries(t, f)
  /\ t[n].kind = "try" /\ next # 1 => OpenTries(t, g) = OpenTries(t, f) \ {n}

(* A handler goes on to another slot: what is open afterwards. *)
LEMMA MovedSets ==
  ASSUME NEW t, Shaped(t), NEW f, Nested(t, f), NEW g, NEW n, NEW slot, n = Top(f).node, slot = Top(f).slot,
         NEW next, GoesOn(f, g, n, slot, next)
  PROVE  Shifted(t, f, g, n, slot, next)
<1> DEFINE S == Opened(f) \ {<<n, slot>>}
<1>1. Openings(t, Opened(f), n, slot)
  BY Frames
<1>2. /\ <<n, slot>> \in Opened(f)
      /\ \A o \in S : o[1] # n /\ o \in Opened(f)
  BY <1>1 DEF Openings
<1>3. Opened(f) = S \cup {<<n, slot>>} /\ Opened(g) = S \cup {<<n, next>>}
  BY <1>2 DEF GoesOn
<1> DEFINE old == <<n, slot>>
<1> DEFINE new == <<n, next>>
<1>30. /\ \A o : o \in Opened(f) <=> o \in S \/ o = old
       /\ \A o : o \in Opened(g) <=> o \in S \/ o = new
       /\ old[1] = n /\ old[2] = slot /\ new[1] = n /\ new[2] = next
       /\ \A o \in S : o[1] # n
  BY <1>2, <1>3
<1> HIDE DEF S, old, new
<1>4. \A kinds : OpenIn(t, g, kinds) = OpenIn(t, f, kinds)
  <2> TAKE kinds
  <2>1. \A k : k \in OpenIn(t, g, kinds) <=> \E o \in Opened(g) : k = o[1] /\ t[o[1]].kind \in kinds
    BY Readings
  <2>2. \A k : k \in OpenIn(t, f, kinds) <=> \E o \in Opened(f) : k = o[1] /\ t[o[1]].kind \in kinds
    BY Readings
  <2>3. \A k : k \in OpenIn(t, g, kinds) <=> (\E o \in S : k = o[1] /\ t[o[1]].kind \in kinds) \/
        (k = n /\ t[n].kind \in kinds)
    BY <1>30, <2>1
  <2>4. \A k : k \in OpenIn(t, f, kinds) <=> (\E o \in S : k = o[1] /\ t[o[1]].kind \in kinds) \/
        (k = n /\ t[n].kind \in kinds)
    BY <1>30, <2>2
  <2> QED BY <2>3, <2>4
<1>5. ScopedIn(t, g) = ScopedIn(t, f)
  <2>1. \A k : k \in ScopedIn(t, g) <=> \E o \in Opened(g) : k = o[1] /\ Scoped(t, o[1])
    BY Readings
  <2>2. \A k : k \in ScopedIn(t, f) <=> \E o \in Opened(f) : k = o[1] /\ Scoped(t, o[1])
    BY Readings
  <2>3. \A k : k \in ScopedIn(t, g) <=> (\E o \in S : k = o[1] /\ Scoped(t, o[1])) \/ (k = n /\ Scoped(t, n))
    BY <1>30, <2>1
  <2>4. \A k : k \in ScopedIn(t, f) <=> (\E o \in S : k = o[1] /\ Scoped(t, o[1])) \/ (k = n /\ Scoped(t, n))
    BY <1>30, <2>2
  <2> QED BY <2>3, <2>4
<1>6. Kept(t, S) = ScopeIn(t, n)
  BY <1>1, OpenScopes DEF S, KeptInside
<1>7. Kept(t, Opened(g)) = Kept(t, S) \cup Keeps(t, n, next) /\ Kept(t, Opened(f)) = Kept(t, S) \cup Keeps(t, n, slot)
  BY <1>30, KeptReading
<1>8. t[n].kind # "try" => OpenTries(t, g) = OpenTries(t, f)
  <2>1. \A k : k \in OpenTries(t, g) <=> \E o \in Opened(g) : k = o[1] /\ t[o[1]].kind = "try" /\ o[2] = 1
    BY Readings
  <2>2. \A k : k \in OpenTries(t, f) <=> \E o \in Opened(f) : k = o[1] /\ t[o[1]].kind = "try" /\ o[2] = 1
    BY Readings
  <2>3. \A k : k \in OpenTries(t, g) <=> (\E o \in S : k = o[1] /\ t[o[1]].kind = "try" /\ o[2] = 1) \/
        (k = n /\ t[n].kind = "try" /\ next = 1)
    BY <1>30, <2>1
  <2>4. \A k : k \in OpenTries(t, f) <=> (\E o \in S : k = o[1] /\ t[o[1]].kind = "try" /\ o[2] = 1) \/
        (k = n /\ t[n].kind = "try" /\ slot = 1)
    BY <1>30, <2>2
  <2> QED BY <2>3, <2>4
<1>9. t[n].kind = "try" /\ next # 1 => OpenTries(t, g) = OpenTries(t, f) \ {n}
  BY <1>30, Readings
<1> QED BY <1>3, <1>4, <1>5, <1>6, <1>7, <1>8, <1>9 DEF Shifted

-----------------------------------------------------------------------------
(* The stacks, step by step *)

(* Popping keeps the type of a stack. *)
LEMMA PopAny ==
  ASSUME NEW S, NEW s \in Seq(S)
  PROVE  /\ Pop(s) \in Seq(S) /\ Elements(Pop(s)) \subseteq Elements(s)
         /\ Sorted(s) => Sorted(Pop(s))
         /\ Increasing(s) => Increasing(Pop(s))
<1>1. CASE s # <<>>
  BY <1>1, SortedPop
<1>2. CASE s = <<>>
  <2>1. Pop(s) = <<>>
    BY <1>2 DEF Pop
  <2>2. DOMAIN Pop(s) = {} /\ Pop(s) \in Seq(S)
    BY <2>1
  <2> QED BY <2>2 DEF Elements, Sorted, Increasing
<1> QED BY <1>1, <1>2

(* What is on a stack has a place in it. *)
LEMMA InElements ==
  ASSUME NEW S, NEW s \in Seq(S)
  PROVE  Elements(s) \subseteq S
BY DEF Elements

(* A larger program has all the names of a smaller one. *)
LEMMA NamesGrow ==
  ASSUME NEW t, NEW u, Grows(t, u)
  PROVE  /\ NamesOf(t) \subseteq NamesOf(u) /\ 1..Len(t) \subseteq 1..Len(u)
         /\ Len(t) \in Nat \ {0} /\ Len(u) \in Nat \ {0} /\ Len(t) <= Len(u)
         /\ \A s \in Seq(NamesOf(t)) : s \in Seq(NamesOf(u))
         /\ \A s \in Seq(1..Len(t)) : s \in Seq(1..Len(u))
<1>1. Len(t) \in Nat \ {0} /\ Len(u) \in Nat \ {0} /\ Len(t) <= Len(u)
  BY ShapedIsRooted DEF Grows
<1>2. 1..Len(t) \subseteq 1..Len(u)
  BY <1>1
<1>3. NamesOf(t) \subseteq NamesOf(u)
  BY <1>2 DEF NamesOf
<1>4. ASSUME NEW A, NEW B, A \subseteq B, NEW s \in Seq(A) PROVE s \in Seq(B)
  BY <1>4
<1> QED BY <1>1, <1>2, <1>3, <1>4

(* A step that opens and closes no loop or switch. *)
LEMMA ExitsKept ==
  ASSUME NEW t, NEW u, Grows(t, u), NEW f, NEW g, NEW exits, ExitsMatch(t, f, exits),
         OpenIn(u, g, Breakable) = OpenIn(t, f, Breakable),
         \A m \in 1..Len(u) : u[m].kind \in LeavesExit => m \in 1..Len(t)
  PROVE  ExitsMatch(u, g, exits)
<1>1. exits \in Seq(NamesOf(u)) /\ Sorted(exits)
  BY NamesGrow DEF ExitsMatch
<1>2. \A m \in 1..Len(t) : m \in 1..Len(u) /\ u[m] = t[m]
  BY NamesGrow DEF Grows
<1> QED BY <1>1, <1>2 DEF ExitsMatch

(* A loop or switch begins: its exiting block is pushed. *)
LEMMA ExitsPush ==
  ASSUME NEW t, NEW u, Grows(t, u), NEW L, L = Len(t) + 1, Len(u) = L, NEW f, NEW g, NEW exits,
         ExitsMatch(t, f, exits), OpenIn(t, f, Breakable) \subseteq 1..Len(t),
         OpenIn(u, g, Breakable) = OpenIn(t, f, Breakable) \cup {L}
  PROVE  ExitsMatch(u, g, Append(exits, Blk(L, "exiting")))
<1> DEFINE new == Append(exits, Blk(L, "exiting"))
<1>0. Len(t) \in Nat \ {0} /\ L \in 1..Len(u) /\ exits \in Seq(NamesOf(u)) /\ Sorted(exits)
      /\ \A m \in 1..Len(t) : m \in 1..Len(u) /\ u[m] = t[m] /\ m < L
  BY NamesGrow DEF ExitsMatch, Grows
<1>1. Blk(L, "exiting") \in NamesOf(u) /\ Blk(L, "exiting")[1] = L
  BY <1>0, Names DEF Blk, Parts
<1>2. \A e \in Elements(exits) : e[1] \in 1..Len(t) /\ e[1] < L
  <2>1. Elements(exits) \subseteq NamesOf(t)
    BY InElements DEF ExitsMatch
  <2> QED BY <1>0, <2>1 DEF NamesOf
<1>3. new \in Seq(NamesOf(u)) /\ Sorted(new) /\ Elements(new) = Elements(exits) \cup {Blk(L, "exiting")}
  BY <1>0, <1>1, <1>2, SortedPush
<1> HIDE DEF new
<1>4. ASSUME NEW n \in OpenIn(u, g, Breakable),
             \A m \in 1..Len(u) : u[m].kind \in LeavesExit /\ m > n => m \in OpenIn(u, g, Breakable)
      PROVE  {e \in Elements(new) : e[1] >= n} = {Blk(m, "exiting") : m \in {k \in OpenIn(u, g, Breakable) : k >= n}}
  <2>1. CASE n = L
    <3>1. {e \in Elements(new) : e[1] >= n} = {Blk(L, "exiting")}
      BY <1>0, <1>1, <1>2, <1>3, <2>1
    <3>2. {k \in OpenIn(u, g, Breakable) : k >= n} = {L}
      BY <1>0, <2>1
    <3> QED BY <3>1, <3>2
  <2>2. CASE n # L
    <3>1. n \in OpenIn(t, f, Breakable) /\ n \in 1..Len(t) /\ n <= L
      BY <1>0, <2>2
    <3>2. \A m \in 1..Len(t) : t[m].kind \in LeavesExit /\ m > n => m \in OpenIn(t, f, Breakable)
      BY <1>0, <1>4
    <3>3. {e \in Elements(exits) : e[1] >= n} = {Blk(m, "exiting") : m \in {k \in OpenIn(t, f, Breakable) : k >= n}}
      BY <3>1, <3>2 DEF ExitsMatch
    <3>4. {e \in Elements(new) : e[1] >= n} = {e \in Elements(exits) : e[1] >= n} \cup {Blk(L, "exiting")}
      BY <1>1, <1>3, <3>1
    <3>5. {k \in OpenIn(u, g, Breakable) : k >= n} = {k \in OpenIn(t, f, Breakable) : k >= n} \cup {L}
      BY <3>1
    <3> QED BY <3>3, <3>4, <3>5
  <2> QED BY <2>1, <2>2
<1> QED BY <1>3, <1>4 DEF new, ExitsMatch

(* A loop ends: its exiting block is on top, and popped. *)
LEMMA ExitsPop ==
  ASSUME NEW t, Shaped(t), NEW f, NEW g, NEW exits, ExitsMatch(t, f, exits), NEW n \in OpenIn(t, f, Breakable),
         OpenIn(t, f, Breakable) \subseteq 1..Len(t), \A m \in OpenIn(t, f, Breakable) : m <= n,
         OpenIn(t, g, Breakable) = OpenIn(t, f, Breakable) \ {n}
  PROVE  ExitsMatch(t, g, Pop(exits))
<1>0. Len(t) \in Nat /\ n \in 1..Len(t) /\ Elements(exits) \subseteq NamesOf(t)
  BY ShapedIsRooted, InElements DEF ExitsMatch
<1>1. Pop(exits) \in Seq(NamesOf(t)) /\ Sorted(Pop(exits)) /\ Elements(Pop(exits)) \subseteq Elements(exits)
  BY PopAny DEF ExitsMatch
<1>2. ASSUME NEW k \in OpenIn(t, g, Breakable),
             \A m \in 1..Len(t) : t[m].kind \in LeavesExit /\ m > k => m \in OpenIn(t, g, Breakable)
      PROVE  {e \in Elements(Pop(exits)) : e[1] >= k}
               = {Blk(m, "exiting") : m \in {j \in OpenIn(t, g, Breakable) : j >= k}}
  <2>1. k \in OpenIn(t, f, Breakable) /\ k # n /\ k \in 1..Len(t) /\ k < n
    BY <1>0
  <2>2. {e \in Elements(exits) : e[1] >= k} = {Blk(m, "exiting") : m \in {j \in OpenIn(t, f, Breakable) : j >= k}}
    BY <1>2, <2>1 DEF ExitsMatch
  <2>3. Blk(n, "exiting") \in Elements(exits) /\ Blk(n, "exiting")[1] = n
    BY <1>0, <2>1, <2>2 DEF Blk
  <2>4. exits # <<>>
    BY <2>3 DEF Elements
  <2>5. /\ Top(exits) \in Elements(exits) /\ Elements(exits) = Elements(Pop(exits)) \cup {Top(exits)}
        /\ \A e \in Elements(Pop(exits)) : e[1] < Top(exits)[1]
    BY <2>4, SortedPop DEF ExitsMatch
  <2>6. \A e \in Elements(exits) : e[1] \in 1..Len(t)
    BY <1>0 DEF NamesOf
  <2>7. Top(exits) = Blk(n, "exiting")
    <3>1. Top(exits)[1] >= n
      BY <1>0, <2>3, <2>5, <2>6
    <3>2. Top(exits) \in {e \in Elements(exits) : e[1] >= k}
      BY <1>0, <2>1, <2>5, <2>6, <3>1
    <3>3. PICK m \in OpenIn(t, f, Breakable) : m >= k /\ Top(exits) = Blk(m, "exiting")
      BY <2>2, <3>2
    <3>4. Top(exits)[1] = m
      BY <3>3 DEF Blk
    <3>5. m = n
      BY <1>0, <3>1, <3>4
    <3> QED BY <3>3, <3>5
  <2>8. {e \in Elements(Pop(exits)) : e[1] >= k} = {e \in Elements(exits) : e[1] >= k} \ {Blk(n, "exiting")}
    BY <1>0, <2>3, <2>5, <2>6, <2>7
  <2>9. {j \in OpenIn(t, g, Breakable) : j >= k} = {j \in OpenIn(t, f, Breakable) : j >= k} \ {n}
    OBVIOUS
  <2>10. \A m : Blk(m, "exiting") = Blk(n, "exiting") => m = n
    BY DEF Blk
  <2> QED BY <2>2, <2>8, <2>9, <2>10
<1> QED BY <1>1, <1>2 DEF ExitsMatch

(* The exiting block of a switch is left where it is: nothing is known of  *)
(* the stack below any more.                                               *)
LEMMA ExitsLeft ==
  ASSUME NEW t, Shaped(t), NEW f, NEW g, NEW exits, ExitsMatch(t, f, exits), NEW n \in OpenIn(t, f, Breakable),
         OpenIn(t, f, Breakable) \subseteq 1..Len(t), \A m \in OpenIn(t, f, Breakable) : m <= n,
         OpenIn(t, g, Breakable) = OpenIn(t, f, Breakable) \ {n}, t[n].kind = "switch"
  PROVE  ExitsMatch(t, g, exits)
<1>1. ASSUME NEW k \in OpenIn(t, g, Breakable) PROVE n \in 1..Len(t) /\ n > k
  BY ShapedIsRooted
<1> QED BY <1>1 DEF ExitsMatch, LeavesExit

(* A function expression leaves an exiting block: nothing is known of the  *)
(* stack below any more.                                                   *)
LEMMA ExitsCovered ==
  ASSUME NEW t, NEW u, Grows(t, u), NEW L, L = Len(t) + 1, Len(u) = L, NEW f, NEW g, NEW exits,
         ExitsMatch(t, f, exits), OpenIn(u, g, Breakable) \subseteq 1..Len(t), u[L].kind \in LeavesExit
  PROVE  ExitsMatch(u, g, Append(exits, Blk(L, "exiting")))
<1> DEFINE new == Append(exits, Blk(L, "exiting"))
<1>0. Len(t) \in Nat \ {0} /\ L \in 1..Len(u) /\ exits \in Seq(NamesOf(u)) /\ Sorted(exits)
      /\ \A m \in 1..Len(t) : m < L
  BY NamesGrow DEF ExitsMatch
<1>1. Blk(L, "exiting") \in NamesOf(u) /\ Blk(L, "exiting")[1] = L
  BY <1>0, Names DEF Blk, Parts
<1>2. \A e \in Elements(exits) : e[1] < L
  <2>1. Elements(exits) \subseteq NamesOf(t)
    BY InElements DEF ExitsMatch
  <2> QED BY <1>0, <2>1 DEF NamesOf
<1>3. new \in Seq(NamesOf(u)) /\ Sorted(new)
  BY <1>0, <1>1, <1>2, SortedPush
<1> HIDE DEF new
<1>4. ASSUME NEW n \in OpenIn(u, g, Breakable)
      PROVE  L > n /\ L \notin OpenIn(u, g, Breakable)
  BY <1>0
<1>5. ASSUME NEW n \in OpenIn(u, g, Breakable),
             \A m \in 1..Len(u) : u[m].kind \in LeavesExit /\ m > n => m \in OpenIn(u, g, Breakable)
      PROVE  FALSE
  BY <1>0, <1>4, <1>5
<1> QED BY <1>3, <1>5 DEF new, ExitsMatch

(* A step that adds no loop. *)
LEMMA LatchesKept ==
  ASSUME NEW t, NEW u, Grows(t, u), NEW ls, LatchesMatch(t, ls),
         \A m \in 1..Len(u) : u[m].kind \in LoopKinds => m \in 1..Len(t)
  PROVE  LatchesMatch(u, ls)
<1>1. ls \in Seq(NamesOf(u)) /\ Sorted(ls)
  BY NamesGrow DEF LatchesMatch
<1>2. \A m \in 1..Len(t) : m \in 1..Len(u) /\ u[m] = t[m]
  BY NamesGrow DEF Grows
<1>3. {m \in 1..Len(u) : u[m].kind \in LoopKinds} = {m \in 1..Len(t) : t[m].kind \in LoopKinds}
  BY <1>2
<1> QED BY <1>1, <1>3 DEF LatchesMatch

(* A loop begins: it adds its latch. *)
LEMMA LatchesPush ==
  ASSUME NEW t, NEW u, Grows(t, u), NEW L, L = Len(t) + 1, Len(u) = L, u[L].kind \in LoopKinds,
         NEW ls, LatchesMatch(t, ls)
  PROVE  LatchesMatch(u, Append(ls, Blk(L, "latch")))
<1> DEFINE new == Append(ls, Blk(L, "latch"))
<1>0. Len(t) \in Nat \ {0} /\ L \in 1..Len(u) /\ ls \in Seq(NamesOf(u)) /\ Sorted(ls)
      /\ \A m \in 1..Len(t) : m \in 1..Len(u) /\ u[m] = t[m] /\ m < L
  BY NamesGrow DEF LatchesMatch, Grows
<1>1. Blk(L, "latch") \in NamesOf(u) /\ Blk(L, "latch")[1] = L
  BY <1>0, Names DEF Blk, Parts
<1>2. \A e \in Elements(ls) : e[1] \in 1..Len(t) /\ e[1] < L
  <2>1. Elements(ls) \subseteq NamesOf(t)
    BY InElements DEF LatchesMatch
  <2> QED BY <1>0, <2>1 DEF NamesOf
<1>3. new \in Seq(NamesOf(u)) /\ Sorted(new) /\ Elements(new) = Elements(ls) \cup {Blk(L, "latch")}
  BY <1>0, <1>1, <1>2, SortedPush
<1> HIDE DEF new
<1>4. {m \in 1..Len(u) : u[m].kind \in LoopKinds} = {m \in 1..Len(t) : t[m].kind \in LoopKinds} \cup {L}
  <2>1. 1..Len(u) = (1..Len(t)) \cup {L}
    BY <1>0
  <2> QED BY <1>0, <2>1
<1>5. Elements(ls) = {Blk(n, "latch") : n \in {m \in 1..Len(t) : t[m].kind \in LoopKinds}}
  BY DEF LatchesMatch
<1> QED BY <1>3, <1>4, <1>5 DEF new, LatchesMatch

(* A step that opens and closes no for loop with a variable. *)
LEMMA BodyExitsKept ==
  ASSUME NEW t, NEW u, Grows(t, u), NEW f, NEW g, NEW bs, BodyExitsMatch(t, f, bs),
         OpenIn(u, g, {"for"}) = OpenIn(t, f, {"for"})
  PROVE  BodyExitsMatch(u, g, bs)
BY NamesGrow DEF BodyExitsMatch

(* A for loop begins: its handler of the end of the body is pushed. *)
LEMMA BodyExitsPush ==
  ASSUME NEW t, NEW u, Grows(t, u), NEW L, L = Len(t) + 1, Len(u) = L, NEW f, NEW g,
         NEW bs, BodyExitsMatch(t, f, bs), OpenIn(u, g, {"for"}) = OpenIn(t, f, {"for"}) \cup {L}
  PROVE  BodyExitsMatch(u, g, Append(bs, L))
<1>1. Len(t) \in Nat /\ L \in 1..Len(u) /\ bs \in Seq(1..Len(u)) /\ Increasing(bs)
  BY NamesGrow DEF BodyExitsMatch
<1>2. \A e \in Elements(bs) : e < L
  <2>1. Elements(bs) \subseteq 1..Len(t)
    BY InElements DEF BodyExitsMatch
  <2> QED BY <1>1, <2>1
<1>3. /\ Append(bs, L) \in Seq(1..Len(u)) /\ Increasing(Append(bs, L))
      /\ Elements(Append(bs, L)) = Elements(bs) \cup {L}
  BY <1>1, <1>2, SortedPush
<1> QED BY <1>3 DEF BodyExitsMatch

(* The top of a stack is the highest element.                              *)
LEMMA TopIs ==
  ASSUME NEW S, NEW s \in Seq(S), NEW x \in Elements(s)
  PROVE  /\ s # <<>>
         /\ Sorted(s) /\ (\A e \in Elements(s) : e[1] \in Nat /\ e[1] <= x[1]) => Top(s) = x
         /\ Increasing(s) /\ (\A e \in Elements(s) : e \in Nat /\ e <= x) => Top(s) = x
<1>1. s # <<>>
  BY DEF Elements
<1>2. /\ Top(s) \in Elements(s) /\ Elements(s) = Elements(Pop(s)) \cup {Top(s)}
      /\ Sorted(s) => \A e \in Elements(Pop(s)) : e[1] < Top(s)[1]
      /\ Increasing(s) => \A e \in Elements(Pop(s)) : e < Top(s)
  BY <1>1, SortedPop
<1>3. ASSUME Sorted(s), \A e \in Elements(s) : e[1] \in Nat /\ e[1] <= x[1], Top(s) # x PROVE FALSE
  <2>1. x[1] < Top(s)[1]
    BY <1>2, <1>3
  <2>2. Top(s)[1] \in Nat /\ Top(s)[1] <= x[1] /\ x[1] \in Nat
    BY <1>2, <1>3
  <2> QED BY <2>1, <2>2
<1>4. ASSUME Increasing(s), \A e \in Elements(s) : e \in Nat /\ e <= x, Top(s) # x PROVE FALSE
  <2>1. x < Top(s)
    BY <1>2, <1>4
  <2>2. Top(s) \in Nat /\ Top(s) <= x /\ x \in Nat
    BY <1>2, <1>4
  <2> QED BY <2>1, <2>2
<1> QED BY <1>1, <1>3, <1>4

(* In the body of a for loop its handler is the topmost. *)
LEMMA BodyExitsTop ==
  ASSUME NEW t, Shaped(t), NEW f, NEW bs, BodyExitsMatch(t, f, bs)
  PROVE  /\ bs = <<>> <=> OpenIn(t, f, {"for"}) = {}
         /\ \A k \in OpenIn(t, f, {"for"}) : (\A m \in OpenIn(t, f, {"for"}) : m <= k) => Top(bs) = k
         /\ bs # <<>> => /\ Top(bs) \in OpenIn(t, f, {"for"})
                         /\ \A m \in OpenIn(t, f, {"for"}) : m <= Top(bs)
<1>1. bs \in Seq(1..Len(t)) /\ Increasing(bs) /\ Elements(bs) = OpenIn(t, f, {"for"}) /\ Len(t) \in Nat
  BY ShapedIsRooted DEF BodyExitsMatch
<1>2. \A e \in Elements(bs) : e \in Nat
  BY <1>1, InElements
<1>3. bs = <<>> <=> Elements(bs) = {}
  <2>1. Len(bs) \in Nat
    BY <1>1
  <2>2. CASE bs = <<>>
    BY <2>2 DEF Elements
  <2>3. CASE bs # <<>>
    BY <1>1, <2>3, SortedPop
  <2> QED BY <2>2, <2>3
<1>4. \A k \in Elements(bs) : (\A m \in Elements(bs) : m <= k) => Top(bs) = k
  BY <1>1, <1>2, TopIs
<1>5. ASSUME bs # <<>>
      PROVE  Top(bs) \in Elements(bs) /\ \A m \in Elements(bs) : m <= Top(bs)
  <2>1. /\ Top(bs) \in Elements(bs) /\ Elements(bs) = Elements(Pop(bs)) \cup {Top(bs)}
        /\ \A e \in Elements(Pop(bs)) : e < Top(bs)
    BY <1>1, <1>5, SortedPop
  <2> QED BY <1>2, <2>1
<1> QED BY <1>1, <1>3, <1>4, <1>5

(* A for loop ends: its handler is popped. *)
LEMMA BodyExitsPop ==
  ASSUME NEW t, Shaped(t), NEW f, NEW g, NEW bs, BodyExitsMatch(t, f, bs), NEW n \in OpenIn(t, f, {"for"}),
         \A m \in OpenIn(t, f, {"for"}) : m <= n, OpenIn(t, g, {"for"}) = OpenIn(t, f, {"for"}) \ {n}
  PROVE  BodyExitsMatch(t, g, Pop(bs))
<1>1. bs \in Seq(1..Len(t)) /\ Increasing(bs) /\ Elements(bs) = OpenIn(t, f, {"for"}) /\ Len(t) \in Nat
  BY ShapedIsRooted DEF BodyExitsMatch
<1>2. Top(bs) = n /\ bs # <<>>
  BY BodyExitsTop
<1>3. /\ Pop(bs) \in Seq(1..Len(t)) /\ Increasing(Pop(bs))
      /\ Elements(bs) = Elements(Pop(bs)) \cup {n} /\ \A e \in Elements(Pop(bs)) : e < n
  BY <1>1, <1>2, SortedPop
<1>4. n \in Nat /\ n \notin Elements(Pop(bs))
  <2>1. n \in Nat
    BY <1>1, InElements
  <2> QED BY <1>3, <2>1
<1> QED BY <1>1, <1>3, <1>4 DEF BodyExitsMatch

(* A step that leaves the try statements in progress alone. *)
LEMMA PadsKept ==
  ASSUME NEW t, NEW u, Grows(t, u), NEW f, NEW g, NEW ps, NEW c, NEW b, PadsMatch(t, f, ps, c, b),
         NEW c2, NEW b2, NEW n, Touched(c, b, c2, b2, n), OpenTries(u, g) = OpenTries(t, f),
         \A m \in 1..Len(u) : u[m].kind = "try" => m \in 1..Len(t)
  PROVE  PadsMatch(u, g, ps, c2, b2)
<1>1. ps \in Seq(NamesOf(u)) /\ Sorted(ps)
  BY NamesGrow DEF PadsMatch
<1>2. \A m \in 1..Len(t) : m \in 1..Len(u) /\ u[m] = t[m]
  BY NamesGrow DEF Grows
<1>3. ASSUME NEW p \in Elements(ps)
      PROVE  /\ p = Blk(p[1], "pad") /\ u[p[1]].kind = "try"
             /\ p \in DOMAIN c2 /\ Was(c2, p) = <<>> /\ p # b2
  <2>1. p = Blk(p[1], "pad") /\ t[p[1]].kind = "try" /\ p \in DOMAIN c /\ Was(c, p) = <<>> /\ p # b
    BY DEF PadsMatch
  <2>2. p[1] \in 1..Len(t)
    BY InElements DEF PadsMatch, NamesOf
  <2>3. p[2] = "pad"
    BY <2>1 DEF Blk
  <2> QED BY <1>2, <2>1, <2>2, <2>3 DEF Touched
<1>4. CaughtIn(u) => CaughtIn(t)
  BY SameMatching
<1>5. ASSUME NEW m \in 1..Len(u), u[m].kind = "try", "catch" \notin u[m].opts, m \notin OpenTries(u, g)
      PROVE  \E p \in Elements(ps) : p[1] \notin OpenTries(u, g)
  BY <1>2, <1>5 DEF PadsMatch
<1>6. \A m \in OpenTries(u, g) : Blk(m, "pad") \in Elements(ps)
  BY DEF PadsMatch
<1>7. CaughtIn(u) => \A p \in Elements(ps) : p[1] \in OpenTries(u, g)
  BY <1>4 DEF PadsMatch
<1> QED BY <1>1, <1>3, <1>5, <1>6, <1>7 DEF PadsMatch

(* A try statement begins: its landing pad is pushed. *)
LEMMA PadsPush ==
  ASSUME NEW t, NEW u, Grows(t, u), NEW L, L = Len(t) + 1, Len(u) = L, u[L].kind = "try",
         NEW f, NEW g, NEW ps, NEW c, NEW b, PadsMatch(t, f, ps, c, b),
         NEW c2, NEW b2, Touched(c, b, c2, b2, L), OpenTries(u, g) = OpenTries(t, f) \cup {L},
         Blk(L, "pad") \in DOMAIN c2, Was(c2, Blk(L, "pad")) = <<>>, Blk(L, "pad") # b2
  PROVE  PadsMatch(u, g, Append(ps, Blk(L, "pad")), c2, b2)
<1> DEFINE pad == Blk(L, "pad")
<1> DEFINE new == Append(ps, pad)
<1>0. Len(t) \in Nat \ {0} /\ L \in 1..Len(u) /\ ps \in Seq(NamesOf(u)) /\ Sorted(ps)
      /\ \A m \in 1..Len(t) : m \in 1..Len(u) /\ u[m] = t[m] /\ m < L
  BY NamesGrow DEF PadsMatch, Grows
<1>1. pad \in NamesOf(u) /\ pad[1] = L
  BY <1>0, Names DEF Blk, Parts
<1>2. \A e \in Elements(ps) : e[1] \in 1..Len(t) /\ e[1] < L
  <2>1. Elements(ps) \subseteq NamesOf(t)
    BY InElements DEF PadsMatch
  <2> QED BY <1>0, <2>1 DEF NamesOf
<1> HIDE DEF pad
<1>3. new \in Seq(NamesOf(u)) /\ Sorted(new) /\ Elements(new) = Elements(ps) \cup {pad}
  BY <1>0, <1>1, <1>2, SortedPush
<1> HIDE DEF new
<1>4. ASSUME NEW p \in Elements(new)
      PROVE  /\ p = Blk(p[1], "pad") /\ u[p[1]].kind = "try"
             /\ p \in DOMAIN c2 /\ Was(c2, p) = <<>> /\ p # b2
  <2>1. CASE p \in Elements(ps)
    <3>1. p = Blk(p[1], "pad") /\ t[p[1]].kind = "try" /\ p \in DOMAIN c /\ Was(c, p) = <<>> /\ p # b
      BY <2>1 DEF PadsMatch
    <3>2. p[2] = "pad"
      BY <3>1 DEF Blk
    <3> QED BY <1>0, <1>2, <2>1, <3>1, <3>2 DEF Touched
  <2>2. CASE p = pad
    BY <1>1, <2>2 DEF pad
  <2> QED BY <1>3, <2>1, <2>2
<1>5. CaughtIn(u) => CaughtIn(t)
  BY SameMatching
<1>6. \A m \in OpenTries(u, g) : Blk(m, "pad") \in Elements(new)
  BY <1>3 DEF PadsMatch, pad
<1>7. CaughtIn(u) => \A p \in Elements(new) : p[1] \in OpenTries(u, g)
  BY <1>1, <1>3, <1>5 DEF PadsMatch
<1>8. ASSUME NEW m \in 1..Len(u), u[m].kind = "try", "catch" \notin u[m].opts, m \notin OpenTries(u, g)
      PROVE  \E p \in Elements(new) : p[1] \notin OpenTries(u, g)
  <2>1. m \in 1..Len(t)
    BY <1>0, <1>8
  <2>2. PICK p \in Elements(ps) : p[1] \notin OpenTries(t, f)
    BY <1>0, <1>8, <2>1 DEF PadsMatch
  <2>3. p[1] # L
    BY <1>0, <1>2
  <2> QED BY <1>3, <2>2, <2>3
<1> QED BY <1>3, <1>4, <1>6, <1>7, <1>8 DEF PadsMatch, new, pad

(* The pad of the innermost try statement, where all have a catch clause.  *)
LEMMA PadsTop ==
  ASSUME NEW t, Shaped(t), NEW f, NEW ps, NEW c, NEW b, PadsMatch(t, f, ps, c, b),
         OpenTries(t, f) \subseteq 1..Len(t), CaughtIn(t)
  PROVE  /\ ps = <<>> <=> OpenTries(t, f) = {}
         /\ \A k \in OpenTries(t, f) : (\A m \in OpenTries(t, f) : m <= k) => Top(ps) = Blk(k, "pad")
<1>1. ps \in Seq(NamesOf(t)) /\ Sorted(ps) /\ Len(t) \in Nat
      /\ (\A p \in Elements(ps) : p = Blk(p[1], "pad") /\ p[1] \in OpenTries(t, f))
      /\ \A n \in OpenTries(t, f) : Blk(n, "pad") \in Elements(ps)
  BY ShapedIsRooted DEF PadsMatch
<1>2. ps = <<>> <=> Elements(ps) = {}
  <2>1. CASE ps = <<>>
    BY <2>1 DEF Elements
  <2>2. CASE ps # <<>>
    BY <1>1, <2>2, SortedPop
  <2> QED BY <2>1, <2>2
<1>3. ASSUME NEW k \in OpenTries(t, f), \A m \in OpenTries(t, f) : m <= k
      PROVE  Top(ps) = Blk(k, "pad")
  <2>1. Blk(k, "pad")[1] = k
    BY DEF Blk
  <2>2. \A e \in Elements(ps) : e[1] \in Nat /\ e[1] <= k
    BY <1>1, <1>3
  <2> DEFINE x == Blk(k, "pad")
  <2>3. x \in Elements(ps) /\ \A e \in Elements(ps) : e[1] \in Nat /\ e[1] <= x[1]
    BY <1>1, <2>1, <2>2
  <2> HIDE DEF x
  <2>4. Top(ps) = x
    BY <1>1, <2>3, TopIs
  <2> QED BY <2>4 DEF x
<1> QED BY <1>1, <1>2, <1>3

(* The latch a continue goes to is that of its loop, if no loop inside it is complete. *)
LEMMA LatchesTop ==
  ASSUME NEW t, Shaped(t), NEW ls, LatchesMatch(t, ls), NEW k \in 1..Len(t), t[k].kind \in LoopKinds,
         \A m \in 1..Len(t) : t[m].kind \in LoopKinds => m <= k
  PROVE  Top(ls) = Blk(k, "latch")
<1> DEFINE x == Blk(k, "latch")
<1>1. ls \in Seq(NamesOf(t)) /\ Sorted(ls) /\ Len(t) \in Nat
      /\ Elements(ls) = {Blk(n, "latch") : n \in {m \in 1..Len(t) : t[m].kind \in LoopKinds}}
  BY ShapedIsRooted DEF LatchesMatch
<1>2. x \in Elements(ls) /\ x[1] = k
  BY <1>1 DEF Blk
<1>3. \A e \in Elements(ls) : e[1] \in Nat /\ e[1] <= x[1]
  BY <1>1, <1>2 DEF Blk
<1> HIDE DEF x
<1>4. Top(ls) = x
  BY <1>1, <1>2, <1>3, TopIs
<1> QED BY <1>4 DEF x

(* The block a break goes to is that of its statement, if nothing inside it has left one. *)
LEMMA ExitsTop ==
  ASSUME NEW t, Shaped(t), NEW f, NEW exits, ExitsMatch(t, f, exits), NEW k \in OpenIn(t, f, Breakable),
         OpenIn(t, f, Breakable) \subseteq 1..Len(t),
         \A m \in OpenIn(t, f, Breakable) : m <= k, \A m \in 1..Len(t) : t[m].kind \in LeavesExit => m <= k
  PROVE  Top(exits) = Blk(k, "exiting")
<1> DEFINE x == Blk(k, "exiting")
<1>0. Len(t) \in Nat /\ k \in 1..Len(t) /\ exits \in Seq(NamesOf(t)) /\ Sorted(exits) /\
      Elements(exits) \subseteq NamesOf(t)
  BY ShapedIsRooted, InElements DEF ExitsMatch
<1>1. \A m \in 1..Len(t) : t[m].kind \in LeavesExit /\ m > k => m \in OpenIn(t, f, Breakable)
  BY <1>0
<1>2. {e \in Elements(exits) : e[1] >= k} = {Blk(m, "exiting") : m \in {j \in OpenIn(t, f, Breakable) : j >= k}}
  BY <1>1 DEF ExitsMatch
<1>3. {j \in OpenIn(t, f, Breakable) : j >= k} = {k}
  BY <1>0
<1>4. {e \in Elements(exits) : e[1] >= k} = {x} /\ x[1] = k
  BY <1>2, <1>3 DEF Blk
<1> HIDE DEF x
<1>5. x \in Elements(exits) /\ \A e \in Elements(exits) : e[1] \in Nat /\ e[1] <= x[1]
  <2>1. \A e \in Elements(exits) : e[1] \in Nat
    BY <1>0 DEF NamesOf
  <2> QED BY <1>0, <1>4, <2>1
<1>6. Top(exits) = x
  BY <1>0, <1>5, TopIs
<1> QED BY <1>6 DEF x

-----------------------------------------------------------------------------
(* The scopes, step by step *)

ScopeRecords(t) == [vals : SUBSET NamesOf(t), isDeinitialized : BOOLEAN]

(* What a node declares, in a larger program. *)
LEMMA SameDeclared ==
  ASSUME NEW t, NEW u, Grows(t, u), NEW n \in 1..Len(t)
  PROVE  Declared(u, n) = Declared(t, n)
<1>1. u[n] = t[n]
  BY DEF Grows
<1>2. n # 1 => t[n].parent \in 1..Len(t)
  BY ShapedIsRooted DEF Grows, Shaped
<1>3. n # 1 => u[t[n].parent] = t[t[n].parent]
  BY <1>2 DEF Grows
<1> QED BY <1>1, <1>3 DEF Declared

(* The scopes on the stack, in a larger program. *)
LEMMA ScopesGrow ==
  ASSUME NEW t, NEW u, Grows(t, u), NEW ss \in Seq(ScopeRecords(t))
  PROVE  ss \in Seq(ScopeRecords(u))
<1>1. ScopeRecords(t) \subseteq ScopeRecords(u)
  BY NamesGrow DEF ScopeRecords
<1> QED BY <1>1

(* The owners of the scopes, in a larger program. *)
LEMMA OwnsGrow ==
  ASSUME NEW t, NEW u, Grows(t, u), NEW f, NEW g, NEW ss, NEW owner, Owns(t, f, ss, owner),
         ScopedIn(u, g) = ScopedIn(t, f)
  PROVE  Owns(u, g, ss, owner)
<1>1. owner \in Seq(1..Len(u))
  BY NamesGrow DEF Owns
<1>2. \A i \in 1..Len(ss) : owner[i] \in 1..Len(t)
  BY DEF Owns
<1>3. \A i \in 1..Len(ss) : Declared(u, owner[i]) = Declared(t, owner[i]) /\ u[owner[i]] = t[owner[i]]
  BY <1>2, SameDeclared DEF Grows
<1> QED BY <1>1, <1>2, <1>3 DEF Owns

(* Unless the compiler stands at the end of a block that has been left, no *)
(* scope has released anything.                                            *)
LEMMA NoFlagsHere ==
  ASSUME NEW t, Shaped(t), NEW f, Nested(t, f), NEW ss, NEW c, NEW b, ScopesMatch(t, f, ss, c, b),
         Good(t, c), ~Terminated(c, b) \/ t[Top(f).node].kind \notin {"function", "block"}
  PROVE  NoFlags(ss)
<1>1. PICK owner : /\ Owns(t, f, ss, owner)
                   /\ NoFlags(ss) \/ (Terminated(c, b) /\ FlagsMatch(t, f, ss, owner))
  BY DEF ScopesMatch
<1>2. SUFFICES ASSUME FlagsMatch(t, f, ss, owner), t[Top(f).node].kind \notin {"function", "block"},
                      NEW i \in 1..Len(ss), ss[i].isDeinitialized, ss[i].vals # {}
               PROVE  FALSE
  BY <1>1 DEF NoFlags
<1>3. /\ t[owner[i]].kind \in {"function", "block"}
      /\ \A o \in Opened(f) : o[1] > owner[i] => t[o[1]].kind = "block"
  BY <1>2 DEF FlagsMatch
<1>4. owner[i] \in ScopedIn(t, f)
  <2>1. i \in DOMAIN owner
    BY <1>1 DEF Owns
  <2> QED BY <1>1, <2>1 DEF Owns, Elements
<1>5. PICK p \in Opened(f) : owner[i] = p[1]
  BY <1>4, Readings
<1>6. <<Top(f).node, Top(f).slot>> \in Opened(f) /\ p[1] <= Top(f).node /\ p[1] \in 1..Len(t) /\
      Top(f).node \in 1..Len(t)
  BY Frames DEF Openings
<1>7. Top(f).node > owner[i]
  <2>1. Top(f).node # owner[i]
    BY <1>2, <1>3
  <2>2. Len(t) \in Nat
    BY ShapedIsRooted
  <2> QED BY <1>5, <1>6, <2>1, <2>2
<1> QED BY <1>2, <1>3, <1>6, <1>7

(* A step that opens and closes no scope. *)
LEMMA ScopesKept ==
  ASSUME NEW t, NEW u, Grows(t, u), NEW f, NEW g, NEW ss, NEW c, NEW b, ScopesMatch(t, f, ss, c, b),
         NEW c2, NEW b2, ScopedIn(u, g) = ScopedIn(t, f),
         Good(u, c2) => Good(t, c) /\ (NoFlags(ss) \/ (Opened(g) = Opened(f) /\
               (Terminated(c, b) => Terminated(c2, b2)))),
         \A o \in Opened(f) : u[o[1]] = t[o[1]]
  PROVE  ScopesMatch(u, g, ss, c2, b2)
<1>1. PICK owner : /\ Owns(t, f, ss, owner)
                   /\ Good(t, c) => NoFlags(ss) \/ (Terminated(c, b) /\ FlagsMatch(t, f, ss, owner))
  BY DEF ScopesMatch
<1>2. Owns(u, g, ss, owner) /\ \A i \in 1..Len(ss) : owner[i] \in 1..Len(t) /\ u[owner[i]] = t[owner[i]]
  <2>1. Owns(u, g, ss, owner)
    BY <1>1, OwnsGrow
  <2>2. \A i \in 1..Len(ss) : owner[i] \in 1..Len(t)
    BY <1>1 DEF Owns
  <2> QED BY <2>1, <2>2 DEF Grows
<1>3. Good(u, c2) => NoFlags(ss) \/ (Terminated(c2, b2) /\ FlagsMatch(u, g, ss, owner))
  BY <1>1, <1>2, SMTT(60) DEF FlagsMatch
<1>4. ss \in Seq([vals : SUBSET NamesOf(u), isDeinitialized : BOOLEAN])
  BY ScopesGrow DEF ScopesMatch, ScopeRecords
<1> QED BY <1>2, <1>3, <1>4 DEF ScopesMatch

(* A scope begins. *)
LEMMA ScopesPush ==
  ASSUME NEW t, NEW u, Grows(t, u), NEW L, L = Len(t) + 1, Len(u) = L, NEW f, Nested(t, f), NEW g, NEW slot,
         Enters(f, g, L, slot), Scoped(u, L), Declared(u, L) \subseteq NamesOf(u),
         NEW ss, NEW c, NEW b, ScopesMatch(t, f, ss, c, b), NEW c2, NEW b2,
         Good(u, c2) => /\ Good(t, c)
                        /\ NoFlags(ss) \/ (u[L].kind = "block" /\ (Terminated(c, b) => Terminated(c2, b2)))
  PROVE  ScopesMatch(u, g, Append(ss, Scope(Declared(u, L))), c2, b2)
<1> DEFINE sc == Scope(Declared(u, L))
<1> DEFINE new == Append(ss, sc)
<1>0. /\ Len(t) \in Nat \ {0} /\ L \in 1..Len(u) /\ \A n \in 1..Len(t) : n < L /\ n \in 1..Len(u)
      /\ ss \in Seq(ScopeRecords(u)) /\ Len(ss) \in Nat
  <2>1. ss \in Seq(ScopeRecords(u))
    BY ScopesGrow DEF ScopesMatch, ScopeRecords
  <2>2. Len(t) \in Nat \ {0} /\ L \in 1..Len(u) /\ \A n \in 1..Len(t) : n < L /\ n \in 1..Len(u)
    BY NamesGrow
  <2> QED BY <2>1, <2>2
<1>1. sc \in ScopeRecords(u) /\ sc.vals = Declared(u, L) /\ sc.isDeinitialized = FALSE
  BY DEF Scope, ScopeRecords
<1> HIDE DEF sc
<1>2. /\ new \in Seq(ScopeRecords(u)) /\ Len(new) = Len(ss) + 1 /\ new[Len(ss) + 1] = sc
      /\ \A i \in 1..Len(ss) : new[i] = ss[i]
  BY <1>0, <1>1
<1> HIDE DEF new
<1>3. PICK owner : /\ Owns(t, f, ss, owner)
                   /\ Good(t, c) => NoFlags(ss) \/ (Terminated(c, b) /\ FlagsMatch(t, f, ss, owner))
  BY DEF ScopesMatch
<1> DEFINE more == Append(owner, L)
<1>4. /\ Alike(t, f, u, f) /\ \A o \in Opened(f) : u[o[1]] = t[o[1]]
  BY SameSets
<1>5. Owns(u, f, ss, owner)
  BY <1>3, <1>4, OwnsGrow DEF Alike
<1>6. owner \in Seq(1..Len(u)) /\ Len(owner) = Len(ss) /\ \A i \in 1..Len(ss) : owner[i] \in 1..Len(t)
  BY <1>3, <1>5 DEF Owns
<1>7. \A e \in Elements(owner) : e < L
  BY <1>0, <1>6, SMTT(60) DEF Elements
<1>8. /\ more \in Seq(1..Len(u)) /\ Len(more) = Len(ss) + 1 /\ more[Len(ss) + 1] = L
      /\ \A i \in 1..Len(ss) : more[i] = owner[i]
  BY <1>0, <1>6
<1>9. Elements(more) = Elements(owner) \cup {L} /\ Increasing(more)
  <2>1. Increasing(owner)
    BY <1>3 DEF Owns
  <2>2. owner \in Seq(1..Len(u)) /\ L \in 1..Len(u)
    BY <1>0, <1>6
  <2>3. Elements(Append(owner, L)) = Elements(owner) \cup {L}
    BY <2>2, SortedPush
  <2>4. Increasing(Append(owner, L))
    BY <1>7, <2>1, <2>2, SortedPush
  <2> QED BY <2>3, <2>4
<1>10. ScopedIn(u, g) = ScopedIn(u, f) \cup {L}
  <2>1. More(u, f, g, L, slot)
    BY MoreSets
  <2> QED BY <2>1 DEF More
<1> HIDE DEF more
<1>11. \A i \in 1..(Len(ss) + 1) : i \in 1..Len(ss) \/ i = Len(ss) + 1
  BY <1>0
<1>12. Owns(u, g, new, more)
  <2>1. \A i \in 1..Len(new) : new[i].vals = Declared(u, more[i])
    BY <1>1, <1>2, <1>5, <1>8, <1>11 DEF Owns
  <2>2. Elements(more) = ScopedIn(u, g)
    BY <1>5, <1>9, <1>10 DEF Owns
  <2> QED BY <1>2, <1>8, <1>9, <2>1, <2>2 DEF Owns
<1>13. Good(u, c2) => NoFlags(new) \/ (Terminated(c2, b2) /\ FlagsMatch(u, g, new, more))
  <2>1. NoFlags(ss) => NoFlags(new)
    BY <1>1, <1>2, <1>11 DEF NoFlags
  <2>2. ASSUME u[L].kind = "block", FlagsMatch(t, f, ss, owner)
        PROVE  FlagsMatch(u, g, new, more)
    <3>1. SUFFICES ASSUME NEW i \in 1..Len(new), new[i].isDeinitialized, new[i].vals # {}
                   PROVE  /\ u[more[i]].kind \in {"function", "block"}
                          /\ \A o \in Opened(g) : o[1] > more[i] => u[o[1]].kind = "block"
      BY DEF FlagsMatch
    <3>2. i \in 1..Len(ss)
      BY <1>1, <1>2, <1>11, <3>1
    <3>3. /\ t[owner[i]].kind \in {"function", "block"}
          /\ \A o \in Opened(f) : o[1] > owner[i] => t[o[1]].kind = "block"
      BY <1>2, <2>2, <3>1, <3>2 DEF FlagsMatch
    <3>4. u[owner[i]] = t[owner[i]]
      BY <1>6, <3>2 DEF Grows
    <3>5. ASSUME NEW o \in Opened(g), o[1] > more[i] PROVE u[o[1]].kind = "block"
      <4>1. CASE o \in Opened(f)
        BY <1>4, <1>8, <3>2, <3>3, <3>5, <4>1
      <4>2. CASE o = <<L, slot>>
        BY <2>2, <4>2
      <4> QED BY <4>1, <4>2 DEF Enters
    <3> QED BY <1>8, <3>2, <3>3, <3>4, <3>5
  <2> QED BY <1>3, <2>1, <2>2
<1>14. new \in Seq([vals : SUBSET NamesOf(u), isDeinitialized : BOOLEAN])
  BY <1>2 DEF ScopeRecords
<1> QED BY <1>12, <1>13, <1>14 DEF ScopesMatch, new, sc

(* The innermost scope.                                                    *)
LEMMA ScopesTop ==
  ASSUME NEW t, Shaped(t), NEW f, NEW ss, NEW c, NEW b, ScopesMatch(t, f, ss, c, b),
         NEW n \in ScopedIn(t, f), \A m \in ScopedIn(t, f) : m <= n
  PROVE  /\ ss # <<>> /\ Len(ss) \in Nat \ {0} /\ Top(ss) = ss[Len(ss)]
         /\ Top(ss) \in ScopeRecords(t) /\ Top(ss).vals = Declared(t, n)
         /\ \A owner : Owns(t, f, ss, owner) => owner[Len(ss)] = n
<1>1. ASSUME NEW owner, Owns(t, f, ss, owner)
      PROVE  ss # <<>> /\ Len(ss) \in Nat \ {0} /\ owner[Len(ss)] = n /\ ss[Len(ss)].vals = Declared(t, n)
  <2>1. owner \in Seq(1..Len(t)) /\ Len(owner) = Len(ss) /\ Increasing(owner) /\ Elements(owner) = ScopedIn(t, f)
    BY <1>1 DEF Owns
  <2>2. owner # <<>> /\ Top(owner) = n
    <3>1. \A e \in Elements(owner) : e \in Nat /\ e <= n
      BY <2>1, InElements
    <3> QED BY <2>1, <3>1, TopIs
  <2>3. Len(owner) \in Nat \ {0} /\ Top(owner) = owner[Len(owner)]
    BY <2>1, <2>2, TopAndPop
  <2>4. Len(ss) \in 1..Len(ss)
    BY <2>1, <2>3
  <2>5. ss # <<>>
    BY <2>1, <2>3
  <2> QED BY <1>1, <2>1, <2>2, <2>3, <2>4, <2>5 DEF Owns
<1>2. PICK owner : Owns(t, f, ss, owner)
  BY DEF ScopesMatch
<1>3. ss \in Seq(ScopeRecords(t))
  BY DEF ScopesMatch, ScopeRecords
<1>4. Top(ss) = ss[Len(ss)] /\ Top(ss) \in ScopeRecords(t)
  BY <1>1, <1>2, <1>3, TopAndPop
<1> QED BY <1>1, <1>2, <1>4

(* A scope ends. *)
LEMMA ScopesPop ==
  ASSUME NEW t, Shaped(t), NEW f, Nested(t, f), NEW g, NEW n, NEW slot, n = Top(f).node, slot = Top(f).slot,
         Leaves(f, g, n, slot), Scoped(t, n),
         NEW ss, NEW c, NEW b, ScopesMatch(t, f, ss, c, b), NEW c2, NEW b2,
         Good(t, c2) => Good(t, c) /\ (NoFlags(ss) \/ (Terminated(c, b) => Terminated(c2, b2)))
  PROVE  ScopesMatch(t, g, Pop(ss), c2, b2)
<1>0. /\ ScopedIn(t, g) = ScopedIn(t, f) \ {n} /\ <<n, slot>> \in Opened(f)
      /\ \A o \in Opened(g) : o \in Opened(f)
      /\ \A o \in Opened(f) : o[1] <= n /\ o[1] \in 1..Len(t)
  <2>1. Fewer(t, f, g, n, slot)
    BY FewerSets
  <2> QED BY <2>1 DEF Fewer
<1>1. n \in ScopedIn(t, f) /\ \A m \in ScopedIn(t, f) : m <= n
  <2>1. \A m : m \in ScopedIn(t, f) <=> \E o \in Opened(f) : m = o[1] /\ Scoped(t, o[1])
    BY Readings
  <2> QED BY <1>0, <2>1
<1>2. PICK owner : /\ Owns(t, f, ss, owner)
                   /\ Good(t, c) => NoFlags(ss) \/ (Terminated(c, b) /\ FlagsMatch(t, f, ss, owner))
  BY DEF ScopesMatch
<1>3. ss \in Seq(ScopeRecords(t)) /\ ss # <<>> /\ owner[Len(ss)] = n
  <2>1. ss \in Seq(ScopeRecords(t))
    BY DEF ScopesMatch, ScopeRecords
  <2>2. ss # <<>> /\ \A any : Owns(t, f, ss, any) => any[Len(ss)] = n
    BY <1>1, ScopesTop
  <2> QED BY <1>2, <2>1, <2>2
<1>4. /\ Pop(ss) \in Seq(ScopeRecords(t)) /\ Len(ss) \in Nat \ {0} /\ Len(Pop(ss)) = Len(ss) - 1
      /\ \A i \in 1..(Len(ss) - 1) : Pop(ss)[i] = ss[i]
  BY <1>3, TopAndPop
<1>5. owner \in Seq(1..Len(t)) /\ Len(owner) = Len(ss) /\ Increasing(owner) /\ owner # <<>> /\
      Elements(owner) = ScopedIn(t, f)
  BY <1>2, <1>4 DEF Owns
<1>6. /\ Pop(owner) \in Seq(1..Len(t)) /\ Len(Pop(owner)) = Len(ss) - 1 /\ Top(owner) = n
      /\ \A i \in 1..(Len(ss) - 1) : Pop(owner)[i] = owner[i]
  <2>1. /\ Top(owner) = owner[Len(owner)] /\ Pop(owner) \in Seq(1..Len(t)) /\ Len(Pop(owner)) = Len(owner) - 1
        /\ \A i \in 1..(Len(owner) - 1) : Pop(owner)[i] = owner[i]
    BY <1>5, TopAndPop
  <2> QED BY <1>3, <1>5, <2>1
<1>7. /\ Increasing(Pop(owner)) /\ Elements(owner) = Elements(Pop(owner)) \cup {n}
      /\ \A e \in Elements(Pop(owner)) : e < n
  BY <1>5, <1>6, SortedPop
<1>8. Elements(Pop(owner)) = ScopedIn(t, g)
  <2>1. n \in Nat
    BY <1>1, <1>5, InElements
  <2>2. n \notin Elements(Pop(owner))
    BY <1>7, <2>1
  <2> QED BY <1>0, <1>5, <1>7, <2>2
<1>9. \A i \in 1..(Len(ss) - 1) : i \in 1..Len(ss)
  BY <1>4
<1>10. Owns(t, g, Pop(ss), Pop(owner))
  <2>1. \A i \in 1..Len(Pop(ss)) : Pop(ss)[i].vals = Declared(t, Pop(owner)[i])
    BY <1>2, <1>4, <1>6, <1>9 DEF Owns
  <2> QED BY <1>4, <1>6, <1>7, <1>8, <2>1 DEF Owns
<1>11. NoFlags(ss) => NoFlags(Pop(ss))
  BY <1>4, <1>9 DEF NoFlags
<1>12. FlagsMatch(t, f, ss, owner) => FlagsMatch(t, g, Pop(ss), Pop(owner))
  BY <1>0, <1>4, <1>6, <1>9, ZenonT(60) DEF FlagsMatch
<1>13. Good(t, c2) => NoFlags(Pop(ss)) \/ (Terminated(c2, b2) /\ FlagsMatch(t, g, Pop(ss), Pop(owner)))
  BY <1>2, <1>11, <1>12
<1> QED BY <1>4, <1>10, <1>13 DEF ScopesMatch, ScopeRecords

(* Every try statement in progress has a block around what stands inside.  *)
LEMMA BlockInside ==
  ASSUME NEW t, Shaped(t), NEW f, Nested(t, f), NEW k \in OpenTries(t, f), t[Top(f).node].kind # "try"
  PROVE  \E m \in ScopedIn(t, f) : m > k
<1>1. PICK i \in DOMAIN f : k = f[i].node /\ t[k].kind = "try"
  BY DEF OpenTries, Opened, Pair
<1>2. Len(f) \in Nat \ {0} /\ Top(f) = f[Len(f)] /\ DOMAIN f = 1..Len(f) /\ \A j \in 1..Len(f) : f[j].node \in 1..Len(t)
  <2>1. Len(f) \in Nat \ {0} /\ Top(f) = f[Len(f)]
    BY Frames
  <2>2. f \in Seq([node : 1..Len(t), slot : Nat])
    BY DEF Nested
  <2>3. DOMAIN f = 1..Len(f) /\ \A j \in 1..Len(f) : f[j] \in [node : 1..Len(t), slot : Nat]
    BY <2>2, Sequence
  <2> QED BY <2>1, <2>3
<1>3. i # Len(f)
  BY <1>1, <1>2
<1>4. i + 1 \in DOMAIN f /\ i + 1 > 1 /\ (i + 1) - 1 = i /\ i \in 1..((i + 1) - 1)
  BY <1>1, <1>2, <1>3
<1>5. NestedAt(t, f, i + 1)
  BY <1>4 DEF Nested
<1>6. t[f[i + 1].node].parent = k /\ k < f[i + 1].node
  BY <1>1, <1>4, <1>5 DEF NestedAt
<1>7. f[i + 1].node \in 1..Len(t)
  BY <1>2, <1>4
<1>8. k \in 1..Len(t)
  BY <1>1, <1>2
<1>9. f[i + 1].node # 1 /\ f[i + 1].node > k
  BY <1>6, <1>7, <1>8
<1>10. t[f[i + 1].node].kind = "block"
  BY <1>1, <1>6, <1>7, <1>9 DEF Shaped
<1>11. f[i + 1].node \in ScopedIn(t, f)
  <2>1. Pair(f[i + 1]) \in Opened(f) /\ Pair(f[i + 1])[1] = f[i + 1].node
    BY <1>4 DEF Opened, Pair
  <2>2. Scoped(t, Pair(f[i + 1])[1])
    BY <1>10, <2>1 DEF Scoped
  <2> QED BY <2>1, <2>2, Readings
<1> QED BY <1>9, <1>11

(* The innermost scope that declares something, where it is left for good  *)
(* by a return or a throw of a tidy program, is that of the block or       *)
(* function the statement stands in.                                       *)
LEMMA LeftScope ==
  ASSUME NEW t, NEW f, NEW x, NEW u, Stands(t, f, x, u), NEW L, L = Len(t) + 1,
         x.kind \in {"return", "throw"}, CaughtIn(u), TidyIn(u),
         NEW n \in ScopedIn(u, f), \A m \in ScopedIn(u, f) : m <= n, Declared(u, n) # {}
  PROVE  n = Top(f).node /\ u[n].kind \in {"function", "block"}
<1>0. /\ Grows(t, u) /\ Nested(u, f) /\ Shaped(u) /\ Len(u) = L /\ L \in 1..Len(u) /\ u[L] = x
      /\ Openings(u, Opened(f), Top(f).node, Top(f).slot)
      /\ \A o \in Opened(f) : o[1] \in 1..(L - 1) /\ o[1] \in 1..Len(t) /\ u[o[1]] = t[o[1]]
  BY Standing
<1>1. Len(u) \in Nat /\ L \in Nat
  BY <1>0
<1>2. PICK o \in Opened(f) : n = o[1] /\ Scoped(u, o[1])
  BY Readings
<1>3. u[Top(f).node].kind # "try"
  <2>1. <<Top(f).node, Top(f).slot>> \in Opened(f)
    BY <1>0 DEF Openings
  <2>2. u[Top(f).node] = t[Top(f).node]
    BY <1>0, <2>1
  <2> QED BY <2>2 DEF Stands, Belongs
<1>4. TargetIn(u, L) = 0 \/ TargetIn(u, L) \in OpenTries(u, f)
  <2>1. CASE x.kind = "return"
    BY <1>0, <2>1, GoesNowhere DEF UnwindsIn
  <2>2. CASE x.kind = "throw"
    BY <2>2, ExceptionGoes
  <2> QED BY <2>1, <2>2
<1>5. ASSUME TargetIn(u, L) # 0
      PROVE  /\ n > TargetIn(u, L)
             /\ \E p \in Opened(f) : TargetIn(u, L) = p[1] /\ u[p[1]].kind = "try" /\ p[2] = 1
  <2>1. TargetIn(u, L) \in OpenTries(u, f)
    BY <1>4, <1>5
  <2>2. PICK p \in Opened(f) : TargetIn(u, L) = p[1] /\ u[p[1]].kind = "try" /\ p[2] = 1
    BY <2>1, Readings
  <2>3. PICK m \in ScopedIn(u, f) : m > TargetIn(u, L)
    BY <1>0, <1>3, <2>1, BlockInside
  <2>4. PICK q \in Opened(f) : m = q[1]
    BY Readings
  <2>5. m <= n /\ m \in Nat /\ n \in Nat /\ TargetIn(u, L) \in Nat
    BY <1>0, <1>2, <2>2, <2>4
  <2> QED BY <2>2, <2>3, <2>5
<1>6. ASSUME NEW p \in Opened(f), p[1] # Top(f).node \/ u[p[1]].kind \notin {"block", "function"},
             TargetIn(u, L) = 0 \/ p[1] > TargetIn(u, L)
      PROVE  Keeps(u, p[1], p[2]) = {}
  <2>1. TargetIn(u, L) # 0 => \E q \in Opened(f) : TargetIn(u, L) = q[1]
    BY <1>5
  <2>2. x.kind \in JumpKinds \cup {"call"}
    BY DEF JumpKinds
  <2>3. p[1] # Top(f).node \/ t[p[1]].kind \notin {"block", "function"}
    BY <1>0, <1>6
  <2> QED BY <1>6, <2>1, <2>2, <2>3, Forgetting
<1>7. ~(n = Top(f).node /\ u[n].kind \in {"function", "block"}) => Keeps(u, o[1], o[2]) = {}
  BY <1>2, <1>5, <1>6
<1>8. SUFFICES ASSUME Keeps(u, o[1], o[2]) = {} PROVE FALSE
  BY <1>7
<1>9. /\ u[n].kind \in {"function", "block"} => ~u[n].decl
      /\ u[n].kind \notin {"for", "forof", "forin"}
  BY <1>2, <1>8 DEF Keeps, Scoped
<1>10. n # 1 /\ u[u[n].parent].kind = "try" /\ u[n].slot = 2
  BY <1>2, <1>9 DEF Declared, Scoped
<1> DEFINE p == <<u[n].parent, u[n].slot>>
<1>11. n \in 1..Len(u) /\ Rooted(u) /\ Path(u, n) = {q \in Opened(f) : q[1] < n}
  BY <1>0, <1>2, ShapedIsRooted DEF Openings
<1>12. Walk(u)[n] = {p} \cup Walk(u)[u[n].parent]
  BY <1>11, Walking
<1>13. u[n].parent \in 1..(n - 1) /\ u[n].parent \in 1..Len(u)
  <2>1. u[n].parent \in 0..(n - 1) /\ u[n].parent # 0
    BY <1>0, <1>10, <1>11 DEF Shaped
  <2> QED BY <1>1, <1>11, <2>1
<1>14. p \in Path(u, n)
  BY <1>12, <1>13 DEF Path
<1>15. p \in Opened(f) /\ p[1] = u[n].parent /\ p[2] = 2
  BY <1>10, <1>11, <1>14
<1>16. Keeps(u, p[1], p[2]) # {}
  BY <1>10, <1>15 DEF Keeps
<1>17. TargetIn(u, L) # 0 => p[1] > TargetIn(u, L)
  <2>1. SUFFICES ASSUME TargetIn(u, L) # 0 PROVE p[1] > TargetIn(u, L)
    OBVIOUS
  <2>2. PICK q \in Opened(f) : TargetIn(u, L) = q[1] /\ u[q[1]].kind = "try" /\ q[2] = 1
    BY <1>5, <2>1
  <2>3. q \in Path(u, n) /\ q # p
    BY <1>5, <1>11, <1>15, <2>1, <2>2
  <2>4. q \in Walk(u)[u[n].parent] /\ q[1] # 0
    BY <1>12, <2>3 DEF Path
  <2>5. q \in Path(u, u[n].parent)
    BY <2>4 DEF Path
  <2>6. q[1] \in 1..(u[n].parent - 1)
    BY <1>0, <1>13, <2>5, Paths
  <2> QED BY <1>1, <1>13, <1>15, <2>2, <2>6
<1>18. p[1] # Top(f).node
  BY <1>3, <1>10, <1>15
<1> QED BY <1>6, <1>15, <1>16, <1>17, <1>18

(* A return or a throw deinitializes the innermost scope. *)
LEMMA ScopesFlag ==
  ASSUME NEW t, NEW f, NEW x, NEW u, Stands(t, f, x, u), x.kind \in {"return", "throw"},
         NEW ss, NEW c, NEW b, ScopesMatch(t, f, ss, c, b), NEW c2, NEW b2,
         Good(u, c2) => Good(t, c) /\ NoFlags(ss) /\ Terminated(c2, b2)
  PROVE  ScopesMatch(u, f, Deinitialized(ss), c2, b2)
<1>0. /\ Grows(t, u) /\ Nested(u, f) /\ Shaped(u) /\ Nested(t, f)
      /\ Openings(u, Opened(f), Top(f).node, Top(f).slot)
  <2>1. /\ Grows(t, u) /\ Nested(u, f) /\ Shaped(u) /\ Openings(u, Opened(f), Top(f).node, Top(f).slot)
    BY Standing
  <2>2. Nested(t, f)
    BY DEF Stands
  <2> QED BY <2>1, <2>2
<1>1. ScopedIn(u, f) = ScopedIn(t, f)
  BY <1>0, SameSets DEF Alike
<1>2. PICK owner : Owns(t, f, ss, owner)
  BY DEF ScopesMatch
<1>3. Owns(u, f, ss, owner)
  BY <1>0, <1>1, <1>2, OwnsGrow
<1>4. ss \in Seq(ScopeRecords(u))
  BY <1>0, ScopesGrow DEF ScopesMatch, ScopeRecords
<1> DEFINE new == Deinitialized(ss)
<1>5. owner \in Seq(1..Len(u)) /\ Len(owner) = Len(ss) /\ Increasing(owner) /\ Elements(owner) = ScopedIn(u, f)
  BY <1>3 DEF Owns
<1>6. Len(ss) \in Nat \ {0}
  <2>1. u[1].kind = "function"
    BY <1>0 DEF Shaped
  <2>2. <<1, 1>> \in Opened(f) /\ <<1, 1>>[1] = 1
    BY <1>0 DEF Openings
  <2>3. 1 \in ScopedIn(u, f)
    BY <2>1, <2>2, Readings DEF Scoped
  <2>4. owner # <<>>
    BY <1>5, <2>3 DEF Elements
  <2> QED BY <1>4, <1>5, <2>4
<1>7. /\ new \in Seq(ScopeRecords(u)) /\ Len(new) = Len(ss)
      /\ \A i \in 1..Len(ss) : /\ new[i].vals = ss[i].vals
                               /\ new[i].isDeinitialized => i = Len(ss) \/ ss[i].isDeinitialized
  <2>0. DOMAIN ss = 1..Len(ss) /\ ss = [i \in 1..Len(ss) |-> ss[i]]
    BY <1>4
  <2>1. \A i \in 1..Len(ss) : ss[i] \in ScopeRecords(u)
    BY <1>4
  <2>2. /\ DOMAIN new = 1..Len(ss) /\ new = [i \in 1..Len(ss) |-> new[i]]
        /\ \A i \in 1..Len(ss) : new[i] = IF i = Len(ss) THEN [ss[i] EXCEPT !.isDeinitialized = TRUE] ELSE ss[i]
    BY <2>0 DEF Deinitialized
  <2>3. \A i \in 1..Len(ss) : new[i] \in ScopeRecords(u)
    BY <2>1, <2>2 DEF ScopeRecords
  <2>5. new \in Seq(ScopeRecords(u)) /\ Len(new) = Len(ss)
    <3> HIDE DEF new
    <3> QED BY <1>6, <2>2, <2>3
  <2>6. \A i \in 1..Len(ss) : /\ new[i].vals = ss[i].vals
                              /\ new[i].isDeinitialized => i = Len(ss) \/ ss[i].isDeinitialized
    BY <2>1, <2>2 DEF ScopeRecords
  <2> QED BY <2>5, <2>6
<1> HIDE DEF new
<1>8. Owns(u, f, new, owner)
  BY <1>3, <1>7 DEF Owns
<1>9. ASSUME Good(u, c2)
      PROVE  NoFlags(new) \/ (Terminated(c2, b2) /\ FlagsMatch(u, f, new, owner))
  <2>1. NoFlags(ss) /\ Terminated(c2, b2) /\ CaughtIn(u) /\ TidyIn(u)
    BY <1>9 DEF Good
  <2>2. SUFFICES ASSUME NEW i \in 1..Len(new), new[i].isDeinitialized, new[i].vals # {}
                 PROVE  /\ u[owner[i]].kind \in {"function", "block"}
                        /\ \A o \in Opened(f) : o[1] > owner[i] => u[o[1]].kind = "block"
    BY <2>1 DEF FlagsMatch
  <2>3. i = Len(ss)
    BY <1>7, <2>1, <2>2 DEF NoFlags
  <2> DEFINE n == owner[Len(ss)]
  <2>4. owner # <<>> /\ n = Top(owner)
    BY <1>5, <1>6 DEF Top
  <2>5. n \in ScopedIn(u, f) /\ \A m \in ScopedIn(u, f) : m <= n
    <3>1. /\ Top(owner) \in Elements(owner) /\ Elements(owner) = Elements(Pop(owner)) \cup {Top(owner)}
          /\ \A e \in Elements(Pop(owner)) : e < Top(owner)
      BY <1>5, <2>4, SortedPop
    <3>2. \A e \in Elements(owner) : e \in Nat
      BY <1>5, InElements
    <3> QED BY <1>5, <2>4, <3>1, <3>2
  <2>6. Declared(u, n) # {}
    BY <1>8, <2>2, <2>3 DEF Owns
  <2> HIDE DEF n
  <2>7. n = Top(f).node /\ u[n].kind \in {"function", "block"}
    BY <2>1, <2>5, <2>6, LeftScope
  <2>8. \A o \in Opened(f) : ~(o[1] > n)
    <3>1. \A o \in Opened(f) : o[1] <= n /\ o[1] \in Nat /\ n \in Nat
      <4>1. <<Top(f).node, Top(f).slot>> \in Opened(f)
        BY <1>0 DEF Openings
      <4>2. \A o \in Opened(f) : o[1] \in 1..Len(u) /\ o[1] <= Top(f).node
        BY <1>0 DEF Openings
      <4> QED BY <2>7, <4>1, <4>2
    <3> QED BY <3>1
  <2> QED BY <2>3, <2>7, <2>8 DEF n
<1> QED BY <1>7, <1>8, <1>9 DEF ScopesMatch, ScopeRecords, new

-----------------------------------------------------------------------------
(* Steps of the compiler *)

Stacked(t, f, ex, ls, bs, ps, c, b) ==
  /\ ExitsMatch(t, f, ex) /\ LatchesMatch(t, ls) /\ BodyExitsMatch(t, f, bs) /\ PadsMatch(t, f, ps, c, b)

Matches(t, f, ex, ls, bs, ps, ss, c, b) ==
  Stacked(t, f, ex, ls, bs, ps, c, b) /\ ScopesMatch(t, f, ss, c, b) /\ CodeMatches(t, f, c, b)

(* The reserved blocks of a handler are its own. *)
LEMMA ReservedOwn ==
  ASSUME NEW t, NEW n, NEW slot
  PROVE  \A x \in Reserved(t, n, slot) : x[1] = n /\ x[2] # "pad"
BY DEF Reserved, Blk, Clause, Test, Part

(* The blocks a handler makes are its own. *)
LEMMA MadeOwn ==
  ASSUME NEW t, NEW n
  PROVE  \A x \in Made(t, n) : x[1] = n
BY DEF Made, Blk, Clause, Test, Part

(* What is expected belongs to handlers in progress.                       *)
LEMMA ExpectedOwn ==
  ASSUME NEW t, NEW f, NEW x \in Expected(t, f)
  PROVE  x[2] # "pad" /\ \E o \in Opened(f) : x[1] = o[1]
<1>1. PICK o \in Opened(f) : x \in Reserved(t, o[1], o[2])
  BY Readings
<1> QED BY <1>1, ReservedOwn

(* The blocks of a program with one more node. *)
LEMMA BlocksMore ==
  ASSUME NEW t, NEW u, Grows(t, u), NEW L, L = Len(t) + 1, Len(u) = L
  PROVE  BlocksOf(u) = BlocksOf(t) \cup Made(u, L)
<1>1. \A n \in 1..Len(t) : Made(u, n) = Made(t, n)
  BY SameBlocks
<1>2. Len(t) \in Nat /\ 1..Len(u) = 1..Len(t) \cup {L}
  BY NamesGrow
<1> QED BY <1>1, <1>2 DEF BlocksOf

(* The blocks that the handlers in progress expect, after a step of the    *)
(* handler of n: those of others are not touched.                          *)
Settled(t, u, f, g, c2, b2, n, others, mine) ==
  /\ others \subseteq Expected(t, f) /\ \A x \in others : x[1] # n
  /\ Expected(u, g) \subseteq others \cup mine
  /\ \A x \in mine : x # b2 /\ Was(c2, x) = <<>>
  /\ BlocksOf(u) \subseteq BlocksOf(t) \cup DOMAIN c2 \cup Expected(u, g)
  /\ Expected(t, f) \subseteq DOMAIN c2 \cup Expected(u, g)

(* Blocks stay built. *)
LEMMA BuiltKept ==
  ASSUME NEW t, NEW u, NEW f, NEW g, NEW c, NEW b, NEW c2, NEW b2, NEW n, CodeMatches(t, f, c, b),
         Touched(c, b, c2, b2, n),
         \A o \in Opened(g) :
           (u[o[1]] = t[o[1]] /\ \E p \in Opened(f) : p[1] = o[1]) \/ Ahead(u, o[1]) \subseteq DOMAIN c2,
         \A o \in Opened(g) : (u[o[1]] = t[o[1]] /\ o \in Opened(f)) \/ AfterTry(u, o, c2)
  PROVE  Built(u, g, c2)
<1>1. Built(t, f, c) /\ DOMAIN c \subseteq DOMAIN c2
  BY DEF CodeMatches, Touched
<1>2. ASSUME NEW o \in Opened(g), u[o[1]] = t[o[1]], NEW p \in Opened(f), p[1] = o[1]
      PROVE  Ahead(u, o[1]) \subseteq DOMAIN c2
  <2>1. Ahead(t, p[1]) \subseteq DOMAIN c
    BY <1>1 DEF Built
  <2>2. Ahead(u, o[1]) = Ahead(t, o[1])
    BY <1>2 DEF Ahead
  <2> QED BY <1>1, <1>2, <2>1, <2>2
<1>3. ASSUME NEW o \in Opened(g), u[o[1]] = t[o[1]], o \in Opened(f)
      PROVE  AfterTry(u, o, c2)
  BY <1>1, <1>3 DEF Built, AfterTry
<1> QED BY <1>2, <1>3 DEF Built

(* Code that a step has appended to keeps what was said of it. *)
LEMMA CodeFrame ==
  ASSUME NEW t, NEW u, NEW f, NEW g, NEW c, NEW b, NEW c2, NEW b2, NEW n,
         CodeMatches(t, f, c, b), Written(NamesOf(u), Typing(u), c2), Touched(c, b, c2, b2, n), Built(u, g, c2),
         NEW others, NEW mine, Settled(t, u, f, g, c2, b2, n, others, mine),
         CaughtIn(u) => CatchBegins(u, g, c2, b2),
         CaughtIn(u) /\ WellBlocks(c2) => PlaceIsRight(u, g, c2, b2)
  PROVE  CodeMatches(u, g, c2, b2)
<1>1. b2 \in DOMAIN c2 /\ DOMAIN c \subseteq DOMAIN c2
  BY DEF Touched
<1>2. BlocksOf(u) \subseteq DOMAIN c2 \cup Expected(u, g)
  BY <1>1 DEF CodeMatches, Settled
<1>3. \A x \in others : x # b2 /\ Was(c2, x) = <<>>
  BY DEF Touched, CodeMatches, Settled
<1> QED BY <1>1, <1>2, <1>3 DEF CodeMatches, Settled

(* A leaf; one that is a function expression leaves an exiting block.      *)
ExitsOf(x, L, ex) == IF x.kind = "closure" THEN Append(ex, Blk(L, "exiting")) ELSE ex

LEMMA LeafStep ==
  ASSUME NEW t, NEW f, NEW x, NEW u, Stands(t, f, x, u), NEW L, L = Len(t) + 1, x.kind \in LeafKinds,
         NEW ex, NEW ls, NEW bs, NEW ps, NEW c, NEW b, Stacked(t, f, ex, ls, bs, ps, c, b), CodeMatches(t, f, c, b),
         NEW c2, NEW b2, Touched(c, b, c2, b2, L), Made(u, L) \subseteq DOMAIN c2,
         Written(NamesOf(u), Typing(u), c2),
         CaughtIn(u) /\ WellBlocks(c2) => PlaceIsRight(u, f, c2, b2)
  PROVE  Stacked(u, f, ExitsOf(x, L, ex), ls, bs, ps, c2, b2) /\ CodeMatches(u, f, c2, b2)
<1>1. /\ Grows(t, u) /\ Nested(u, f) /\ Shaped(u) /\ Len(u) = L /\ L \in 1..Len(u) /\ u[L] = x
      /\ \A o \in Opened(f) : o[1] \in 1..(L - 1) /\ o[1] \in 1..Len(t) /\ u[o[1]] = t[o[1]]
  BY Standing
<1>2. Nested(t, f) /\ Len(t) \in Nat
  <2>1. Nested(t, f)
    BY DEF Stands
  <2>2. Len(t) \in Nat
    BY <1>1, NamesGrow
  <2> QED BY <2>1, <2>2
<1>3. Alike(t, f, u, f)
  BY <1>1, <1>2, SameSets
<1>4. \A m \in 1..Len(u) : u[m].kind \notin LeafKinds => m \in 1..Len(t)
  BY <1>1, <1>2
<1>5. LeafKinds \cap ({"switch", "try"} \cup LoopKinds) = {}
  BY DEF LeafKinds, JumpKinds, LoopKinds
<1>6. ExitsMatch(u, f, ExitsOf(x, L, ex))
  <2>1. OpenIn(u, f, Breakable) = OpenIn(t, f, Breakable) /\ ExitsMatch(t, f, ex)
    BY <1>3 DEF Alike, Stacked
  <2>2. CASE x.kind = "closure"
    <3>1. OpenIn(u, f, Breakable) \subseteq 1..Len(t) /\ u[L].kind \in LeavesExit
      BY <1>1, <2>2 DEF OpenIn, LeavesExit
    <3>2. ExitsMatch(u, f, Append(ex, Blk(L, "exiting")))
      BY <1>1, <2>1, <3>1, ExitsCovered
    <3> QED BY <2>2, <3>2 DEF ExitsOf
  <2>3. CASE x.kind # "closure"
    <3>1. \A m \in 1..Len(u) : u[m].kind \in LeavesExit => m \in 1..Len(t)
      BY <1>1, <1>2, <1>4, <1>5, <2>3 DEF LeavesExit
    <3>2. ExitsMatch(u, f, ex)
      BY <1>1, <2>1, <3>1, ExitsKept
    <3> QED BY <2>3, <3>2 DEF ExitsOf
  <2> QED BY <2>2, <2>3
<1>7. LatchesMatch(u, ls)
  <2>1. \A m \in 1..Len(u) : u[m].kind \in LoopKinds => m \in 1..Len(t)
    BY <1>4, <1>5
  <2>2. LatchesMatch(t, ls)
    BY DEF Stacked
  <2> QED BY <1>1, <2>1, <2>2, LatchesKept
<1>8. BodyExitsMatch(u, f, bs)
  <2>1. OpenIn(u, f, {"for"}) = OpenIn(t, f, {"for"}) /\ BodyExitsMatch(t, f, bs)
    BY <1>3 DEF Alike, Stacked
  <2> QED BY <1>1, <2>1, BodyExitsKept
<1>9. PadsMatch(u, f, ps, c2, b2)
  <2>1. \A m \in 1..Len(u) : u[m].kind = "try" => m \in 1..Len(t)
    BY <1>4, <1>5
  <2>2. OpenTries(u, f) = OpenTries(t, f) /\ PadsMatch(t, f, ps, c, b)
    BY <1>3 DEF Alike, Stacked
  <2> QED BY <1>1, <2>1, <2>2, PadsKept
<1>10. CodeMatches(u, f, c2, b2)
  <2>1. \A y \in Expected(t, f) : y[1] # L
    <3> SUFFICES ASSUME NEW y \in Expected(t, f) PROVE y[1] # L
      OBVIOUS
    <3>1. PICK o \in Opened(f) : y[1] = o[1]
      BY ExpectedOwn
    <3>2. o[1] \in 1..(L - 1)
      BY <1>1
    <3> QED BY <1>2, <3>1, <3>2
  <2>2. Expected(u, f) = Expected(t, f)
    BY <1>3 DEF Alike
  <2>3. BlocksOf(u) \subseteq BlocksOf(t) \cup DOMAIN c2 \cup Expected(u, f)
    BY <1>1, BlocksMore
  <2>4. CatchBegins(u, f, c2, b2)
    <3>1. <<Top(f).node, Top(f).slot>> \in Opened(f)
      <4>1. Openings(u, Opened(f), Top(f).node, Top(f).slot)
        BY Standing
      <4> QED BY <4>1 DEF Openings
    <3>2. u[Top(f).node] = t[Top(f).node]
      BY <1>1, <3>1
    <3>3. t[Top(f).node].kind # "try"
      BY DEF Stands, Belongs, LeafKinds, JumpKinds
    <3> QED BY <3>2, <3>3 DEF CatchBegins
  <2>5. Expected(t, f) \subseteq DOMAIN c2 \cup Expected(u, f)
    BY <2>2
  <2>6. Settled(t, u, f, f, c2, b2, L, Expected(t, f), {})
    BY <2>1, <2>2, <2>3, <2>5 DEF Settled
  <2>7. Built(u, f, c2)
    BY <1>1, BuiltKept
  <2> QED BY <2>4, <2>6, <2>7, CodeFrame
<1> QED BY <1>6, <1>7, <1>8, <1>9, <1>10 DEF Stacked

(* What is kept where a leaf or a statement other than a block begins.     *)
LEMMA NowHere ==
  ASSUME NEW t, NEW f, NEW x, NEW u, Stands(t, f, x, u), NEW L, L = Len(t) + 1, x.kind # "block"
  PROVE  Now(t, f) = ScopeIn(u, L) /\ Now(u, f) = ScopeIn(u, L)
<1>1. /\ Grows(t, u) /\ ScopeIn(u, L) = Kept(u, Opened(f))
      /\ \A o \in Opened(f) : o[1] \in 1..(L - 1) /\ o[1] \in 1..Len(t) /\ u[o[1]] = t[o[1]]
  BY Standing
<1>2. <<Top(f).node, Top(f).slot>> \in Opened(f)
  <2>1. Openings(u, Opened(f), Top(f).node, Top(f).slot)
    BY Standing
  <2> QED BY <2>1 DEF Openings
<1>3. u[Top(f).node] = t[Top(f).node]
  BY <1>1, <1>2
<1>4. t[Top(f).node].kind # "try"
  BY DEF Stands, Belongs
<1>5. Kept(u, Opened(f)) = Kept(t, Opened(f))
  <2>1. Nested(t, f)
    BY DEF Stands
  <2> QED BY <1>1, <2>1, SameSets
<1> QED BY <1>1, <1>3, <1>4, <1>5 DEF Now

(* x is about to be added, and the stacks and the code are as they should  *)
(* be.                                                                     *)
Ready(t, f, x, u, L, ex, ls, bs, ps, ss, c, b) ==
  /\ Stands(t, f, x, u) /\ L = Len(t) + 1 /\ MatchIn(u)
  /\ Matches(t, f, ex, ls, bs, ps, ss, c, b)

(* What is held where a statement other than a block begins.               *)
HeldAs(u, L, h) == ScopeIn(u, L) \subseteq h /\ (TidyIn(u) => h \subseteq ScopeIn(u, L))

(* What the compiler knows where a statement begins. *)
LEMMA Begins ==
  ASSUME NEW t, NEW f, NEW x, NEW u, NEW L, NEW ex, NEW ls, NEW bs, NEW ps, NEW ss, NEW c, NEW b,
         Ready(t, f, x, u, L, ex, ls, bs, ps, ss, c, b), x.kind # "block"
  PROVE  /\ Grows(t, u) /\ Len(u) = L /\ L \in 1..Len(u) /\ u[L] = x /\ Shaped(t) /\ Shaped(u)
         /\ CodeMatches(t, f, c, b) /\ b \in DOMAIN c
         /\ CaughtIn(u) /\ WellBlocks(c) /\ ~Terminated(c, b) => HeldAs(u, L, Held(t, c, b))
<1>1. Grows(t, u) /\ Len(u) = L /\ L \in 1..Len(u) /\ u[L] = x /\ Shaped(u)
  <2>1. Stands(t, f, x, u) /\ L = Len(t) + 1
    BY DEF Ready
  <2> QED BY <2>1, Standing
<1>2. CodeMatches(t, f, c, b) /\ b \in DOMAIN c /\ Shaped(t)
  BY DEF Ready, Matches, CodeMatches, Stands
<1>3. ASSUME CaughtIn(u), WellBlocks(c), ~Terminated(c, b)
      PROVE  HeldAs(u, L, Held(t, c, b))
  <2>1. Now(t, f) = ScopeIn(u, L)
    <3>1. Stands(t, f, x, u) /\ L = Len(t) + 1
      BY DEF Ready
    <3> QED BY <3>1, NowHere
  <2>2. CaughtIn(t) /\ (TidyIn(u) => TidyIn(t))
    BY <1>1, <1>3, SameMatching
  <2>3. PlaceIsRight(t, f, c, b)
    BY <1>2, <1>3, <2>2 DEF CodeMatches
  <2> QED BY <1>3, <2>1, <2>2, <2>3 DEF PlaceIsRight, Held, HeldAs
<1> QED BY <1>1, <1>2, <1>3

(* A leaf leaves the scopes as they are. *)
LEMMA LeafScopes ==
  ASSUME NEW t, NEW f, NEW x, NEW u, Stands(t, f, x, u),
         NEW ss, NEW c, NEW b, ScopesMatch(t, f, ss, c, b), NEW c2, NEW b2,
         WellBlocks(c2) => WellBlocks(c) /\ ~Terminated(c, b)
  PROVE  ScopesMatch(u, f, ss, c2, b2)
<1>1. Grows(t, u) /\ \A o \in Opened(f) : u[o[1]] = t[o[1]]
  BY Standing
<1>2. Nested(t, f) /\ Shaped(t)
  BY DEF Stands
<1>3. ScopedIn(u, f) = ScopedIn(t, f)
  BY <1>1, <1>2, SameSets DEF Alike
<1>4. Good(u, c2) => Good(t, c) /\ ~Terminated(c, b)
  BY <1>1, SameMatching DEF Good
<1> QED BY <1>1, <1>3, <1>4, ScopesKept

(* The end of the block where the compiler stands, after s.                *)
LEMMA EndsWith ==
  ASSUME NEW u, NEW c, NEW b, NEW s, NEW h, NEW d, NEW e, Continued(u, c, b, s, h, d, e),
         NEW i \in Instructions(NamesOf(u)),
         s = <<i>> \/ \E p \in Seq(Instructions(NamesOf(u))) : s = p \o <<i>>
  PROVE  e[b] # <<>> /\ Top(e[b]) = i /\ (Terminated(e, b) <=> IsTerminator(i))
<1>1. c[b] \in Seq(Instructions(NamesOf(u))) /\ e[b] = c[b] \o s
  BY DEF Continued
<1>2. e[b] # <<>> /\ Top(e[b]) = i
  <2>1. CASE s = <<i>>
    BY <1>1, <2>1, EndOf
  <2>2. CASE \E p \in Seq(Instructions(NamesOf(u))) : s = p \o <<i>>
    BY <1>1, <2>2, EndOf
  <2> QED BY <2>1, <2>2
<1> QED BY <1>2 DEF Terminated

(* Instructions that go on in the same block.                              *)
LEMMA LeafStraight ==
  ASSUME NEW t, NEW f, NEW x, NEW u, NEW L, NEW ex, NEW ls, NEW bs, NEW ps, NEW ss, NEW c, NEW b,
         Ready(t, f, x, u, L, ex, ls, bs, ps, ss, c, b), x.kind \in LeafKinds, Made(u, L) = {},
         NEW s \in Seq(Instructions(NamesOf(u))), NEW i \in Instructions(NamesOf(u)), ~IsTerminator(i),
         s = <<i>> \/ \E p \in Seq(Instructions(NamesOf(u))) : s = p \o <<i>>,
         \A h, d : CaughtIn(u) /\ HeldAs(u, L, h) => Runs(NamesOf(u), Typing(u), s, h, d, h, d)
  PROVE  Matches(u, f, ExitsOf(x, L, ex), ls, bs, ps, ss, c ++ In(b, s), b)
<1> DEFINE e == c ++ In(b, s)
<1>0. x.kind # "block" /\ Stands(t, f, x, u) /\ L = Len(t) + 1
  BY DEF LeafKinds, JumpKinds, Ready
<1>1. /\ Grows(t, u) /\ CodeMatches(t, f, c, b)
      /\ CaughtIn(u) /\ WellBlocks(c) /\ ~Terminated(c, b) => HeldAs(u, L, Held(t, c, b))
  BY <1>0, Begins
<1>2. s # <<>>
  <2>1. CASE s = <<i>>
    BY <2>1
  <2>2. CASE \E p \in Seq(Instructions(NamesOf(u))) : s = p \o <<i>>
    BY <2>2
  <2> QED BY <2>1, <2>2
<1>3. Continued(u, c, b, s, Held(t, c, b), Gone(c, b), e)
  <2>1. CaughtIn(u) /\ WellBlocks(c) /\ (s # <<>> => ~Terminated(c, b)) =>
          Runs(NamesOf(u), Typing(u), s, Held(t, c, b), Gone(c, b), Held(t, c, b), Gone(c, b))
    BY <1>1, <1>2
  <2> QED BY <1>1, <2>1, Emits
<1> HIDE DEF e
<1>4. ~Terminated(e, b)
  BY <1>3, EndsWith
<1>5. /\ Written(NamesOf(u), Typing(u), e) /\ Only(c, b, e) /\ b \in DOMAIN e
      /\ WellBlocks(e) => WellBlocks(c) /\ ~Terminated(c, b)
      /\ CaughtIn(u) /\ WellBlocks(e) => Held(u, e, b) = Held(t, c, b)
  BY <1>2, <1>3 DEF Continued
<1>6. PlaceIsRight(u, f, e, b) \/ ~CaughtIn(u) \/ ~WellBlocks(e)
  <2>1. Now(u, f) = ScopeIn(u, L)
    BY <1>0, NowHere
  <2> QED BY <1>1, <1>4, <1>5, <2>1 DEF PlaceIsRight, HeldAs, Held
<1>7. Touched(c, b, e, b, L)
  BY <1>5 DEF Touched, Only
<1>8. Stacked(t, f, ex, ls, bs, ps, c, b) /\ ScopesMatch(t, f, ss, c, b)
  BY DEF Ready, Matches
<1>9. Stacked(u, f, ExitsOf(x, L, ex), ls, bs, ps, e, b) /\ CodeMatches(u, f, e, b)
  BY <1>0, <1>1, <1>5, <1>6, <1>7, <1>8, LeafStep
<1>10. ScopesMatch(u, f, ss, e, b)
  BY <1>0, <1>5, <1>8, LeafScopes
<1> QED BY <1>9, <1>10 DEF Matches, e

(* Evaluating an expression where its scope is held. *)
LEMMA EvalOf ==
  ASSUME NEW u, NEW L \in 1..Len(u), NEW part \in Parts, NEW h, NEW d, HeldAs(u, L, h)
  PROVE  /\ Runs(NamesOf(u), Typing(u), <<Eval(Blk(L, part))>>, h, d, h, d)
         /\ <<Eval(Blk(L, part))>> \in Seq(Instructions(NamesOf(u)))
<1>1. Blk(L, part) \in NamesOf(u) /\ Blk(L, part)[1] = L
  <2>1. Blk(L, part) \in NamesOf(u)
    BY Names
  <2> QED BY <2>1 DEF Blk
<1>2. ScopeIn(u, Blk(L, part)[1]) \subseteq h
  BY <1>1 DEF HeldAs
<1> QED BY <1>1, <1>2, RunEval

(* The instructions that evaluate are instructions of the program. *)
LEMMA EvalNamed ==
  ASSUME NEW names, NEW y \in names
  PROVE  /\ Eval(y) \in Instructions(names) /\ ~IsTerminator(Eval(y))
         /\ Call(y) \in Instructions(names) /\ ~IsTerminator(Call(y))
         /\ <<Eval(y)>> \in Seq(Instructions(names)) /\ <<Call(y)>> \in Seq(Instructions(names))
<1>1. Eval(y) \in Instructions(names) /\ Call(y) \in Instructions(names)
  BY DEF Eval, Call, Instructions
<1>2. ~IsTerminator(Eval(y)) /\ ~IsTerminator(Call(y))
  BY DEF Eval, Call, IsTerminator
<1> QED BY <1>1, <1>2

(* An expression, or a function expression, is compiled. *)
LEMMA ExpressionStep ==
  ASSUME NEW t, NEW f, NEW x, NEW u, NEW L, NEW ex, NEW ls, NEW bs, NEW ps, NEW ss, NEW c, NEW b,
         Ready(t, f, x, u, L, ex, ls, bs, ps, ss, c, b), x.kind \in {"expr", "closure"}
  PROVE  Matches(u, f, ExitsOf(x, L, ex), ls, bs, ps, ss, c ++ In(b, <<Eval(Blk(L, "eval"))>>), b)
<1>1. Len(u) = L /\ L \in 1..Len(u) /\ u[L] = x
  BY Begins
<1>2. x.kind \in LeafKinds /\ Made(u, L) = {}
  BY <1>1 DEF LeafKinds, Made
<1>3. Blk(L, "eval") \in NamesOf(u)
  BY <1>1, Names DEF Parts
<1>4. \A h, d : CaughtIn(u) /\ HeldAs(u, L, h) => Runs(NamesOf(u), Typing(u), <<Eval(Blk(L, "eval"))>>, h, d, h, d)
  BY <1>1, EvalOf DEF Parts
<1>5. Eval(Blk(L, "eval")) \in Instructions(NamesOf(u)) /\ ~IsTerminator(Eval(Blk(L, "eval")))
      /\ <<Eval(Blk(L, "eval"))>> \in Seq(Instructions(NamesOf(u)))
  BY <1>3, EvalNamed
<1> QED BY <1>2, <1>4, <1>5, LeafStraight

(* A logical operator is compiled: both operands are evaluated. *)
LEMMA LogicStep ==
  ASSUME NEW t, NEW f, NEW x, NEW u, NEW L, NEW ex, NEW ls, NEW bs, NEW ps, NEW ss, NEW c, NEW b,
         Ready(t, f, x, u, L, ex, ls, bs, ps, ss, c, b), x.kind = "logic"
  PROVE  Matches(u, f, ex, ls, bs, ps, ss, c ++ In(b, <<Eval(Blk(L, "lhs")), Eval(Blk(L, "rhs"))>>), b)
<1>1. Len(u) = L /\ L \in 1..Len(u) /\ u[L] = x
  BY Begins
<1>2. x.kind \in LeafKinds /\ Made(u, L) = {}
  BY <1>1 DEF LeafKinds, Made
<1> DEFINE i == Eval(Blk(L, "lhs"))  j == Eval(Blk(L, "rhs"))
<1>3. Blk(L, "lhs") \in NamesOf(u) /\ Blk(L, "rhs") \in NamesOf(u)
  BY <1>1, Names DEF Parts
<1>4. /\ i \in Instructions(NamesOf(u)) /\ j \in Instructions(NamesOf(u)) /\ ~IsTerminator(j)
      /\ <<i>> \in Seq(Instructions(NamesOf(u))) /\ <<j>> \in Seq(Instructions(NamesOf(u)))
  BY <1>3, EvalNamed
<1>5. <<i, j>> = <<i>> \o <<j>>
  BY <1>4, Pairs
<1>6. <<i, j>> \in Seq(Instructions(NamesOf(u)))
  BY <1>4
<1>7. \A h, d : CaughtIn(u) /\ HeldAs(u, L, h) => Runs(NamesOf(u), Typing(u), <<i, j>>, h, d, h, d)
  <2>1. SUFFICES ASSUME NEW h, NEW d, HeldAs(u, L, h)
                 PROVE  Runs(NamesOf(u), Typing(u), <<i, j>>, h, d, h, d)
    OBVIOUS
  <2>2. Runs(NamesOf(u), Typing(u), <<i>>, h, d, h, d) /\ Runs(NamesOf(u), Typing(u), <<j>>, h, d, h, d)
    BY <1>1, <2>1, EvalOf DEF Parts
  <2>3. Runs(NamesOf(u), Typing(u), <<i>> \o <<j>>, h, d, h, d)
    BY <2>2, RunBoth
  <2> QED BY <1>5, <2>3
<1> HIDE DEF i, j
<1>8. \E p \in Seq(Instructions(NamesOf(u))) : <<i, j>> = p \o <<j>>
  BY <1>4, <1>5
<1>9. Matches(u, f, ex, ls, bs, ps, ss, c ++ In(b, <<i, j>>), b)
  BY <1>2, <1>4, <1>6, <1>7, <1>8, LeafStraight DEF ExitsOf
<1> QED BY <1>9 DEF i, j

(* Where a jump leaves the function, or goes to a statement in progress,   *)
(* nothing is kept by the statements it leaves, if the program is tidy.    *)
LEMMA JumpClears ==
  ASSUME NEW t, NEW f, NEW x, NEW u, Stands(t, f, x, u), NEW L, L = Len(t) + 1, TidyIn(u),
         x.kind \in (JumpKinds \cup {"call"}) \ {"return", "throw"}
  PROVE  /\ TargetIn(u, L) = 0 => ScopeIn(u, L) = {}
         /\ \A o \in Opened(f) : TargetIn(u, L) = o[1] =>
              ScopeIn(u, L) = ScopeIn(u, o[1]) \cup Keeps(u, o[1], o[2])
<1>1. /\ Openings(u, Opened(f), Top(f).node, Top(f).slot) /\ ScopeIn(u, L) = Kept(u, Opened(f))
      /\ \A o \in Opened(f) : o[1] \in 1..(L - 1) /\ o[1] \in 1..Len(t) /\ u[o[1]] = t[o[1]]
  BY Standing
<1>2. x.kind \in JumpKinds \cup {"call"} /\ x.kind \notin {"return", "throw"}
  OBVIOUS
<1>3. ASSUME TargetIn(u, L) = 0 PROVE ScopeIn(u, L) = {}
  <2>1. \A o \in Opened(f) : Keeps(u, o[1], o[2]) = {}
    BY <1>2, <1>3, Forgetting
  <2>2. \A r : r \in Kept(u, Opened(f)) <=> \E o \in Opened(f) : r \in Keeps(u, o[1], o[2])
    BY KeptReading
  <2> QED BY <1>1, <2>1, <2>2
<1>4. ASSUME NEW o \in Opened(f), TargetIn(u, L) = o[1]
      PROVE  ScopeIn(u, L) = ScopeIn(u, o[1]) \cup Keeps(u, o[1], o[2])
  <2>1. ASSUME NEW p \in Opened(f), p[1] > o[1] PROVE Keeps(u, p[1], p[2]) = {}
    <3>1. (\E q \in Opened(f) : TargetIn(u, L) = q[1]) /\ p[1] > TargetIn(u, L)
      BY <1>4, <2>1
    <3> QED BY <1>2, <3>1, Forgetting
  <2>2. ScopeIn(u, o[1]) = Kept(u, Older(Opened(f), o[1]))
    <3>1. Openings(u, Opened(f), Top(f).node, Top(f).slot)
      BY <1>1
    <3>2. KeptByOlder(u, Opened(f))
      BY <3>1, OpenScopes
    <3> QED BY <3>2 DEF KeptByOlder
  <2>3. \A p \in Opened(f) : p = o \/ p[1] < o[1] \/ p[1] > o[1]
    <3>1. \A p \in Opened(f) : p[1] \in 1..Len(t) /\ o[1] \in 1..Len(t) /\ (p[1] = o[1] => p = o)
      BY <1>1 DEF Openings
    <3> QED BY <3>1
  <2>4. \A r : r \in ScopeIn(u, L) <=> r \in ScopeIn(u, o[1]) \/ r \in Keeps(u, o[1], o[2])
    <3>1. \A r : r \in Kept(u, Opened(f)) <=> \E p \in Opened(f) : r \in Keeps(u, p[1], p[2])
      BY KeptReading
    <3>2. \A r : r \in ScopeIn(u, o[1]) <=> \E p \in Opened(f) : p[1] < o[1] /\ r \in Keeps(u, p[1], p[2])
      <4>1. \A r : r \in Kept(u, Older(Opened(f), o[1]))
                     <=> \E p \in Older(Opened(f), o[1]) : r \in Keeps(u, p[1], p[2])
        BY KeptReading
      <4> QED BY <2>2, <4>1 DEF Older
    <3> QED BY <1>1, <2>1, <2>3, <3>1, <3>2
  <2> QED BY <2>4
<1> QED BY <1>3, <1>4

(* A call without a landing pad is compiled. *)
LEMMA CallStep ==
  ASSUME NEW t, NEW f, NEW x, NEW u, NEW L, NEW ex, NEW ls, NEW bs, NEW ps, NEW ss, NEW c, NEW b,
         Ready(t, f, x, u, L, ex, ls, bs, ps, ss, c, b), x.kind = "call",
         "known" \in x.opts => OpenIn(t, f, {"try"}) = {}
  PROVE  Matches(u, f, ex, ls, bs, ps, ss, c ++ In(b, <<Call(Blk(L, "eval"))>>), b)
<1>1. Len(u) = L /\ L \in 1..Len(u) /\ u[L] = x /\ Grows(t, u)
  BY Begins
<1>2. Stands(t, f, x, u) /\ L = Len(t) + 1 /\ Nested(t, f)
  BY DEF Ready, Stands
<1>3. Found(u, L, {"try"}) = OpenIn(t, f, {"try"}) /\ OpenTries(u, f) \subseteq OpenIn(t, f, {"try"})
  <2>1. \A kinds : Found(u, L, kinds) = OpenIn(u, f, kinds)
    BY <1>2, Standing
  <2>2. OpenIn(u, f, {"try"}) = OpenIn(t, f, {"try"})
    BY <1>1, <1>2, SameSets DEF Alike
  <2>3. OpenTries(u, f) \subseteq OpenIn(u, f, {"try"})
    BY DEF OpenTries, OpenIn
  <2> QED BY <2>1, <2>2, <2>3
<1>4. x.kind \in LeafKinds /\ Made(u, L) = {}
  BY <1>1, <1>3 DEF LeafKinds, Made
<1>5. Blk(L, "eval") \in NamesOf(u) /\ Blk(L, "eval")[1] = L
  <2>1. Blk(L, "eval") \in NamesOf(u)
    BY <1>1, Names DEF Parts
  <2> QED BY <2>1 DEF Blk
<1>6. CaughtIn(u) => TargetIn(u, L) = 0
  <2>1. CASE "known" \in x.opts
    BY <1>2, <1>3, <2>1, ExceptionGoes
  <2>2. CASE "known" \notin x.opts
    BY <1>1, <2>2, GoesNowhere DEF UnwindsIn
  <2> QED BY <2>1, <2>2
<1>7. CaughtIn(u) /\ TidyIn(u) => ScopeIn(u, L) = {}
  <2>1. x.kind \in (JumpKinds \cup {"call"}) \ {"return", "throw"}
    BY DEF JumpKinds
  <2> QED BY <1>2, <1>6, <2>1, JumpClears
<1>8. \A h, d : CaughtIn(u) /\ HeldAs(u, L, h) => Runs(NamesOf(u), Typing(u), <<Call(Blk(L, "eval"))>>, h, d, h, d)
  <2>1. SUFFICES ASSUME NEW h, NEW d, CaughtIn(u), HeldAs(u, L, h)
                 PROVE  Runs(NamesOf(u), Typing(u), <<Call(Blk(L, "eval"))>>, h, d, h, d)
    OBVIOUS
  <2>2. Typing(u).scope[Blk(L, "eval")[1]] \subseteq h /\ (Typing(u).tidy => h = {})
    <3>1. Typing(u).scope[L] = ScopeIn(u, L) /\ Typing(u).tidy = TidyIn(u)
      BY <1>1, TypingIs
    <3> QED BY <1>5, <1>7, <2>1, <3>1 DEF HeldAs
  <2> QED BY <1>5, <2>2, Calling
<1>9. Call(Blk(L, "eval")) \in Instructions(NamesOf(u)) /\ ~IsTerminator(Call(Blk(L, "eval")))
      /\ <<Call(Blk(L, "eval"))>> \in Seq(Instructions(NamesOf(u)))
  BY <1>5, EvalNamed
<1> QED BY <1>4, <1>8, <1>9, LeafStraight DEF ExitsOf

(* Instructions that end the block.                                        *)
Outward(u, f, i) == i.op = "br" => \A y \in i.to : y[1] \in OpenIn(u, f, Breakable \cup {"try"})
Stopped(u, f, ex, ls, bs, ps, c, b, e) ==
  /\ Stacked(u, f, ex, ls, bs, ps, e, b) /\ CodeMatches(u, f, e, b)
  /\ Terminated(e, b) /\ (WellBlocks(e) => WellBlocks(c) /\ ~Terminated(c, b))

(* A leaf whose last instruction is a terminator ends its block. *)
LEMMA LeafEnds ==
  ASSUME NEW t, NEW f, NEW x, NEW u, NEW L, NEW ex, NEW ls, NEW bs, NEW ps, NEW ss, NEW c, NEW b,
         Ready(t, f, x, u, L, ex, ls, bs, ps, ss, c, b), x.kind \in LeafKinds \ {"closure"}, Made(u, L) = {},
         NEW s \in Seq(Instructions(NamesOf(u))), NEW i \in Instructions(NamesOf(u)), IsTerminator(i),
         s = <<i>> \/ \E p \in Seq(Instructions(NamesOf(u))) : s = p \o <<i>>,
         NEW h, NEW d,
         CaughtIn(u) /\ WellBlocks(c) /\ ~Terminated(c, b) =>
           Runs(NamesOf(u), Typing(u), s, Held(t, c, b), Gone(c, b), h, d),
         Outward(u, f, i)
  PROVE  Stopped(u, f, ex, ls, bs, ps, c, b, c ++ In(b, s))
<1> DEFINE e == c ++ In(b, s)
<1>0. x.kind # "block" /\ Stands(t, f, x, u) /\ L = Len(t) + 1
  BY DEF LeafKinds, JumpKinds, Ready
<1>1. Grows(t, u) /\ CodeMatches(t, f, c, b)
  BY <1>0, Begins
<1>2. s # <<>>
  <2>1. CASE s = <<i>>
    BY <2>1
  <2>2. CASE \E p \in Seq(Instructions(NamesOf(u))) : s = p \o <<i>>
    BY <2>2
  <2> QED BY <2>1, <2>2
<1>3. Continued(u, c, b, s, h, d, e)
  <2>1. CaughtIn(u) /\ WellBlocks(c) /\ (s # <<>> => ~Terminated(c, b)) =>
          Runs(NamesOf(u), Typing(u), s, Held(t, c, b), Gone(c, b), h, d)
    BY <1>1, <1>2
  <2> QED BY <1>1, <2>1, Emits
<1> HIDE DEF e
<1>4. Terminated(e, b) /\ Top(e[b]) = i
  <2>1. Top(e[b]) = i /\ (Terminated(e, b) <=> IsTerminator(i))
    BY <1>3, EndsWith, SMTT(60)
  <2> QED BY <2>1
<1>5. /\ Written(NamesOf(u), Typing(u), e) /\ Only(c, b, e) /\ b \in DOMAIN e
      /\ WellBlocks(e) => WellBlocks(c) /\ ~Terminated(c, b)
  BY <1>2, <1>3 DEF Continued
<1>6. PlaceIsRight(u, f, e, b)
  BY <1>4 DEF PlaceIsRight, Outward
<1>7. Touched(c, b, e, b, L)
  BY <1>5 DEF Touched, Only
<1>8. Stacked(t, f, ex, ls, bs, ps, c, b)
  BY DEF Ready, Matches
<1>9. Stacked(u, f, ex, ls, bs, ps, e, b) /\ CodeMatches(u, f, e, b)
  BY <1>0, <1>1, <1>5, <1>6, <1>7, <1>8, LeafStep DEF ExitsOf
<1> QED BY <1>4, <1>5, <1>9 DEF e, Stopped

(* The handler of the end of the body of the innermost for loop.           *)
BodyExitOf(t, bs) ==
  IF bs = <<>> THEN IF "outer" \in t[1].opts THEN {Blk(0, "copy")} ELSE {}
  ELSE IF t[Top(bs)].decl THEN {Blk(Top(bs), "copy")} ELSE {}

(* Releasing names of the program. *)
LEMMA ReleaseNamed ==
  ASSUME NEW names, NEW rs \in SUBSET names
  PROVE  ReleaseAll(rs) \in Seq(Instructions(names)) /\ <<Release(rs)>> \in Seq(Instructions(names))
<1>1. Release(rs) \in Instructions(names)
  BY DEF Release, Instructions
<1> QED BY <1>1 DEF ReleaseAll

(* Branching to names of the program. *)
LEMMA BranchNamed ==
  ASSUME NEW names, NEW ts \in SUBSET names
  PROVE  Br(ts) \in Instructions(names) /\ IsTerminator(Br(ts)) /\ <<Br(ts)>> \in Seq(Instructions(names))
         /\ Br(ts).to = ts
<1>1. Br(ts) \in Instructions(names) /\ IsTerminator(Br(ts)) /\ Br(ts).to = ts
  BY DEF Br, Instructions, IsTerminator
<1> QED BY <1>1

(* What remains after rs is released is what y expects.                    *)
LEMMA ReleaseAndGo ==
  ASSUME NEW u, NEW h, NEW d, NEW rs \in SUBSET NamesOf(u), NEW y \in NamesOf(u), y \in BlocksOf(u),
         HeldIn(u, y) \subseteq h \ rs, TidyIn(u) => h \ rs \subseteq HeldIn(u, y)
  PROVE  Runs(NamesOf(u), Typing(u), ReleaseAll(rs) \o <<Br({y})>>, h, d, h \ rs, d \cup rs)
<1>1. Runs(NamesOf(u), Typing(u), ReleaseAll(rs), h, d, h \ rs, d \cup rs)
  BY Releasing
<1>2. Runs(NamesOf(u), Typing(u), <<Br({y})>>, h \ rs, d \cup rs, h \ rs, d \cup rs)
  <2>1. \A z \in {y} : HeldIn(u, z) \subseteq h \ rs /\ (TidyIn(u) => h \ rs \subseteq HeldIn(u, z))
    OBVIOUS
  <2>2. {y} \in SUBSET BlocksOf(u) /\ {y} \subseteq NamesOf(u)
    OBVIOUS
  <2> QED BY <2>1, <2>2, RunBranch
<1> QED BY <1>1, <1>2, RunBoth

Copies(t, n) == IF t[n].kind = "for" /\ t[n].decl THEN {Blk(n, "copy")} ELSE {}

(* What is held at the latch and the exiting block of a loop. *)
LEMMA LoopHeld ==
  ASSUME NEW u, Shaped(u), NEW n \in 1..Len(u), u[n].kind \in Breakable, NEW slot, NEW part \in {"exiting", "latch"}
  PROVE  HeldIn(u, Blk(n, part)) = (ScopeIn(u, n) \cup Keeps(u, n, slot)) \ Copies(u, n)
<1>1. u[n].kind # "throw"
  BY DEF Breakable, LoopKinds
<1>2. HeldIn(u, Blk(n, part)) = ScopeIn(u, n) \cup OwnHeld(u, n, part)
  BY <1>1, HeldAre
<1>3. OwnHeld(u, n, part) = Keeps(u, n, slot) \ Copies(u, n)
  <2>1. CASE u[n].kind = "for" /\ u[n].decl
    <3>1. OwnHeld(u, n, part) = {Blk(n, "counter")}
      BY <2>1 DEF OwnHeld
    <3>2. Keeps(u, n, slot) = {Blk(n, "counter"), Blk(n, "copy")} /\ Copies(u, n) = {Blk(n, "copy")}
      BY <2>1 DEF Keeps, Copies
    <3>3. Blk(n, "counter") # Blk(n, "copy")
      BY DEF Blk
    <3> QED BY <3>1, <3>2, <3>3
  <2>2. CASE u[n].kind \in {"forof", "forin"}
    BY <2>2 DEF OwnHeld, Keeps, Copies
  <2>3. CASE u[n].kind \in {"while", "do", "switch"} \/ (u[n].kind = "for" /\ ~u[n].decl)
    BY <2>3 DEF OwnHeld, Keeps, Copies
  <2> QED BY <2>1, <2>2, <2>3 DEF Breakable, LoopKinds
<1>4. ScopeIn(u, n) \cap Copies(u, n) = {}
  <2>1. \A r \in ScopeIn(u, n) : r[1] \in 1..(n - 1)
    BY ScopeBelow
  <2>2. \A r \in Copies(u, n) : r[1] = n
    BY DEF Copies, Blk
  <2>3. n \notin 1..(n - 1)
    OBVIOUS
  <2> QED BY <2>1, <2>2, <2>3
<1> QED BY <1>2, <1>3, <1>4

(* The scope of a statement has that of each statement around it. *)
LEMMA ScopeWithin ==
  ASSUME NEW t, NEW f, NEW x, NEW u, Stands(t, f, x, u), NEW L, L = Len(t) + 1, NEW o \in Opened(f)
  PROVE  ScopeIn(u, o[1]) \cup Keeps(u, o[1], o[2]) \subseteq ScopeIn(u, L)
<1>1. Openings(u, Opened(f), Top(f).node, Top(f).slot) /\ ScopeIn(u, L) = Kept(u, Opened(f))
  BY Standing
<1>2. ScopeIn(u, o[1]) = Kept(u, Older(Opened(f), o[1]))
  <2>1. KeptByOlder(u, Opened(f))
    BY <1>1, OpenScopes
  <2> QED BY <2>1 DEF KeptByOlder
<1>3. /\ \A r : r \in Kept(u, Older(Opened(f), o[1])) <=> \E p \in Older(Opened(f), o[1]) : r \in Keeps(u, p[1], p[2])
      /\ \A r : r \in Kept(u, Opened(f)) <=> \E p \in Opened(f) : r \in Keeps(u, p[1], p[2])
  BY KeptReading
<1>4. \A p \in Older(Opened(f), o[1]) : p \in Opened(f)
  BY DEF Older
<1> QED BY <1>1, <1>2, <1>3, <1>4

(* A jump to a loop or a switch in progress, after the copies of its       *)
(* counters have been released.                                            *)
LEMMA RunLeaving ==
  ASSUME NEW t, NEW f, NEW x, NEW u, Stands(t, f, x, u), NEW L, L = Len(t) + 1,
         x.kind \in {"break", "continue"}, NEW N \in OpenIn(u, f, Breakable), TargetIn(u, L) = N,
         NEW part \in {"exiting", "latch"}, Blk(N, part) \in BlocksOf(u), NEW h, NEW d, HeldAs(u, L, h)
  PROVE  Runs(NamesOf(u), Typing(u), ReleaseAll(Copies(u, N)) \o <<Br({Blk(N, part)})>>, h, d,
              h \ Copies(u, N), d \cup Copies(u, N))
<1>1. /\ Shaped(u) /\ Grows(t, u) /\ \A o \in Opened(f) : o[1] \in 1..Len(t)
  BY Standing
<1>2. PICK o \in Opened(f) : N = o[1] /\ u[o[1]].kind \in Breakable
  BY Readings, ZenonT(60)
<1>3. N \in 1..Len(u)
  <2>1. 1..Len(t) \subseteq 1..Len(u)
    BY <1>1, NamesGrow
  <2> QED BY <1>1, <1>2, <2>1
<1>4. HeldIn(u, Blk(N, part)) = (ScopeIn(u, N) \cup Keeps(u, N, o[2])) \ Copies(u, N)
  BY <1>1, <1>2, <1>3, LoopHeld
<1>5. ScopeIn(u, N) \cup Keeps(u, N, o[2]) \subseteq ScopeIn(u, L)
  BY <1>2, ScopeWithin
<1>6. TidyIn(u) => ScopeIn(u, L) = ScopeIn(u, N) \cup Keeps(u, N, o[2])
  <2>1. x.kind \in (JumpKinds \cup {"call"}) \ {"return", "throw"}
    BY DEF JumpKinds
  <2> QED BY <1>2, <2>1, JumpClears
<1>7. Blk(N, part) \in NamesOf(u) /\ Copies(u, N) \in SUBSET NamesOf(u)
  <2>1. \A q \in Parts : Blk(N, q) \in NamesOf(u)
    BY <1>3, Names
  <2>2. part \in Parts /\ "copy" \in Parts
    BY DEF Parts
  <2> QED BY <2>1, <2>2 DEF Copies
<1>8. HeldIn(u, Blk(N, part)) \subseteq h \ Copies(u, N)
  BY <1>4, <1>5 DEF HeldAs
<1>9. TidyIn(u) => h \ Copies(u, N) \subseteq HeldIn(u, Blk(N, part))
  BY <1>4, <1>6 DEF HeldAs
<1> QED BY <1>7, <1>8, <1>9, ReleaseAndGo

(* A break is compiled. *)
LEMMA BreakStep ==
  ASSUME NEW t, NEW f, NEW x, NEW u, NEW L, NEW ex, NEW ls, NEW bs, NEW ps, NEW ss, NEW c, NEW b,
         Ready(t, f, x, u, L, ex, ls, bs, ps, ss, c, b), x.kind = "break", OpenIn(t, f, Breakable) # {}
  PROVE  Matches(u, f, ex, ls, bs, ps, ss,
                 c ++ In(b, (IF t[Top(ex)[1]].kind = "for" THEN ReleaseAll(BodyExitOf(t, bs)) ELSE <<>>)
                            \o <<Br({Top(ex)})>>), b)
<1>1. Len(u) = L /\ L \in 1..Len(u) /\ u[L] = x /\ Grows(t, u) /\ Shaped(t) /\ Shaped(u)
      /\ (CaughtIn(u) /\ WellBlocks(c) /\ ~Terminated(c, b) => HeldAs(u, L, Held(t, c, b)))
  BY Begins
<1>2. Stands(t, f, x, u) /\ L = Len(t) + 1 /\ MatchIn(u) /\ Nested(t, f)
  BY DEF Ready, Stands
<1>3. /\ ExitsMatch(t, f, ex) /\ BodyExitsMatch(t, f, bs) /\ ScopesMatch(t, f, ss, c, b)
  BY DEF Ready, Matches, Stacked
<1>4. /\ \A kinds : OpenIn(u, f, kinds) = OpenIn(t, f, kinds)
      /\ \A o \in Opened(f) : o[1] \in 1..Len(t) /\ u[o[1]] = t[o[1]]
  BY <1>1, <1>2, SameSets DEF Alike
<1>5. PICK N \in OpenIn(u, f, Breakable) :
        /\ TargetIn(u, L) = N
        /\ \A m \in OpenIn(u, f, Breakable) : m <= N
        /\ \A m \in 1..Len(u) : u[m].kind \in LeavesExit => m <= N
  BY <1>2, <1>4, BreakGoes
<1>6. N \in 1..Len(t) /\ N \in 1..Len(u) /\ u[N] = t[N] /\ u[N].kind \in Breakable
      /\ OpenIn(u, f, Breakable) \subseteq 1..Len(t) /\ 1..Len(t) \subseteq 1..Len(u)
  <2>1. \A k \in OpenIn(u, f, Breakable) : \E o \in Opened(f) : k = o[1] /\ u[o[1]].kind \in Breakable
    BY Readings
  <2>2. 1..Len(t) \subseteq 1..Len(u)
    BY <1>1, NamesGrow
  <2> QED BY <1>4, <2>1, <2>2
<1>7. Top(ex) = Blk(N, "exiting")
  <2>1. \A m \in 1..Len(t) : t[m].kind \in LeavesExit => m <= N
    <3>1. \A m \in 1..Len(t) : u[m] = t[m]
      BY <1>1 DEF Grows
    <3> QED BY <1>5, <1>6, <3>1
  <2>2. N \in OpenIn(t, f, Breakable) /\ OpenIn(t, f, Breakable) \subseteq 1..Len(t)
        /\ \A m \in OpenIn(t, f, Breakable) : m <= N
    BY <1>4, <1>5, <1>6
  <2> QED BY <1>1, <1>3, <2>1, <2>2, ExitsTop
<1>8. (IF t[Top(ex)[1]].kind = "for" THEN ReleaseAll(BodyExitOf(t, bs)) ELSE <<>>) = ReleaseAll(Copies(u, N))
  <2>1. Top(ex)[1] = N
    BY <1>7 DEF Blk
  <2>2. CASE t[N].kind = "for"
    <3>1. N \in OpenIn(t, f, {"for"}) /\ \A m \in OpenIn(t, f, {"for"}) : m <= N
      <4>1. \A k : k \in OpenIn(t, f, {"for"}) <=> \E o \in Opened(f) : k = o[1] /\ t[o[1]].kind \in {"for"}
        BY Readings
      <4>2. \A k : k \in OpenIn(t, f, Breakable) <=> \E o \in Opened(f) : k = o[1] /\ t[o[1]].kind \in Breakable
        BY Readings
      <4>3. "for" \in Breakable
        BY DEF Breakable, LoopKinds
      <4> QED BY <1>4, <1>5, <2>2, <4>1, <4>2, <4>3
    <3>2. Top(bs) = N /\ bs # <<>>
      BY <1>1, <1>3, <3>1, BodyExitsTop
    <3> QED BY <1>6, <2>1, <2>2, <3>2 DEF BodyExitOf, Copies
  <2>3. CASE t[N].kind # "for"
    BY <1>6, <2>1, <2>3 DEF Copies, ReleaseAll
  <2> QED BY <2>2, <2>3
<1> DEFINE s == ReleaseAll(Copies(u, N)) \o <<Br({Blk(N, "exiting")})>>
           i == Br({Blk(N, "exiting")})
<1>9. Blk(N, "exiting") \in BlocksOf(u) /\ Blk(N, "exiting") \in NamesOf(u) /\ Copies(u, N) \in SUBSET NamesOf(u)
  <2>1. Blk(N, "exiting") \in NamesOf(u) /\ Blk(N, "copy") \in NamesOf(u)
    BY <1>6, Names DEF Parts
  <2>2. Blk(N, "exiting") \in Made(u, N)
    BY <1>6 DEF Made, Breakable, LoopKinds
  <2> QED BY <1>6, <2>1, <2>2 DEF BlocksOf, Copies
<1>10. i \in Instructions(NamesOf(u)) /\ IsTerminator(i) /\ <<i>> \in Seq(Instructions(NamesOf(u))) /\
      i.to = {Blk(N, "exiting")}
  BY <1>9, BranchNamed
<1>11. ReleaseAll(Copies(u, N)) \in Seq(Instructions(NamesOf(u))) /\ s \in Seq(Instructions(NamesOf(u)))
  <2>1. ReleaseAll(Copies(u, N)) \in Seq(Instructions(NamesOf(u)))
    BY <1>9, ReleaseNamed
  <2> QED BY <1>10, <2>1
<1>12. CaughtIn(u) /\ WellBlocks(c) /\ ~Terminated(c, b) =>
         Runs(NamesOf(u), Typing(u), s, Held(t, c, b), Gone(c, b),
              Held(t, c, b) \ Copies(u, N), Gone(c, b) \cup Copies(u, N))
  BY <1>1, <1>2, <1>5, <1>9, RunLeaving
<1>13. Outward(u, f, i)
  <2>1. Blk(N, "exiting")[1] = N
    BY DEF Blk
  <2>2. N \in OpenIn(u, f, Breakable \cup {"try"})
    BY <1>5 DEF OpenIn
  <2> QED BY <1>10, <2>1, <2>2 DEF Outward
<1>14. x.kind \in LeafKinds \ {"closure"} /\ Made(u, L) = {}
  BY <1>1 DEF LeafKinds, JumpKinds, Made
<1> HIDE DEF i
<1>15. s = <<i>> \/ \E p \in Seq(Instructions(NamesOf(u))) : s = p \o <<i>>
  BY <1>11 DEF i
<1> HIDE DEF s
<1>16. Stopped(u, f, ex, ls, bs, ps, c, b, c ++ In(b, s))
  BY <1>10, <1>11, <1>12, <1>13, <1>14, <1>15, LeafEnds
<1>17. ScopesMatch(u, f, ss, c ++ In(b, s), b)
  <2>1. WellBlocks(c ++ In(b, s)) => WellBlocks(c) /\ ~Terminated(c, b)
    BY <1>16 DEF Stopped
  <2> QED BY <1>2, <1>3, <2>1, LeafScopes
<1>18. Matches(u, f, ex, ls, bs, ps, ss, c ++ In(b, s), b)
  BY <1>16, <1>17 DEF Matches, Stopped
<1> QED BY <1>7, <1>8, <1>18 DEF s

(* A continue is compiled, with the handler of a for loop if there is one. *)
LEMMA ContinueStep ==
  ASSUME NEW t, NEW f, NEW x, NEW u, NEW L, NEW ex, NEW ls, NEW bs, NEW ps, NEW ss, NEW c, NEW b,
         Ready(t, f, x, u, L, ex, ls, bs, ps, ss, c, b), x.kind = "continue", OpenIn(t, f, LoopKinds) # {}
  PROVE  Matches(u, f, ex, ls, bs, ps, ss, c ++ In(b, ReleaseAll(BodyExitOf(t, bs)) \o <<Br({Top(ls)})>>), b)
<1>1. Len(u) = L /\ L \in 1..Len(u) /\ u[L] = x /\ Grows(t, u) /\ Shaped(t) /\ Shaped(u)
      /\ (CaughtIn(u) /\ WellBlocks(c) /\ ~Terminated(c, b) => HeldAs(u, L, Held(t, c, b)))
  BY Begins
<1>2. Stands(t, f, x, u) /\ L = Len(t) + 1 /\ MatchIn(u) /\ Nested(t, f)
  BY DEF Ready, Stands
<1>3. /\ LatchesMatch(t, ls) /\ BodyExitsMatch(t, f, bs) /\ ScopesMatch(t, f, ss, c, b)
  BY DEF Ready, Matches, Stacked
<1>4. /\ \A kinds : OpenIn(u, f, kinds) = OpenIn(t, f, kinds)
      /\ \A o \in Opened(f) : o[1] \in 1..Len(t) /\ u[o[1]] = t[o[1]]
  BY <1>1, <1>2, SameSets DEF Alike
<1>5. PICK N \in OpenIn(u, f, LoopKinds) :
        /\ TargetIn(u, L) = N
        /\ \A m \in 1..Len(u) : u[m].kind \in LoopKinds => m <= N
        /\ u[N].kind # "for" =>
             \A k \in OpenIn(u, f, {"for"}) : (\A m \in OpenIn(u, f, {"for"}) : m <= k) => ~u[k].decl
        /\ OpenIn(u, f, {"for"}) = {} => "outer" \notin u[1].opts
  BY <1>2, <1>4, ContinueGoes
<1>6. N \in 1..Len(t) /\ N \in 1..Len(u) /\ u[N] = t[N] /\ u[N].kind \in LoopKinds
      /\ 1..Len(t) \subseteq 1..Len(u) /\ \A m \in 1..Len(t) : u[m] = t[m]
  <2>1. \A k \in OpenIn(u, f, LoopKinds) : \E o \in Opened(f) : k = o[1] /\ u[o[1]].kind \in LoopKinds
    BY Readings
  <2>2. 1..Len(t) \subseteq 1..Len(u)
    BY <1>1, NamesGrow
  <2>3. \A m \in 1..Len(t) : u[m] = t[m]
    BY <1>1 DEF Grows
  <2> QED BY <1>4, <2>1, <2>2, <2>3
<1>7. Top(ls) = Blk(N, "latch")
  <2>1. t[N].kind \in LoopKinds /\ \A m \in 1..Len(t) : t[m].kind \in LoopKinds => m <= N
    BY <1>5, <1>6
  <2> QED BY <1>1, <1>3, <1>6, <2>1, LatchesTop
<1>8. BodyExitOf(t, bs) = Copies(u, N)
  <2>1. \A k : k \in OpenIn(t, f, {"for"}) <=> \E o \in Opened(f) : k = o[1] /\ t[o[1]].kind \in {"for"}
    BY Readings
  <2>2. \A k : k \in OpenIn(t, f, LoopKinds) <=> \E o \in Opened(f) : k = o[1] /\ t[o[1]].kind \in LoopKinds
    BY Readings
  <2>3. "for" \in LoopKinds
    BY DEF LoopKinds
  <2>4. CASE t[N].kind = "for"
    <3>1. N \in OpenIn(t, f, {"for"}) /\ \A m \in OpenIn(t, f, {"for"}) : m <= N
      BY <1>4, <1>5, <1>6, <2>1, <2>2, <2>3, <2>4, SMTT(60)
    <3>2. Top(bs) = N /\ bs # <<>>
      BY <1>1, <1>3, <3>1, BodyExitsTop
    <3> QED BY <1>6, <2>4, <3>2 DEF BodyExitOf, Copies
  <2>5. CASE t[N].kind # "for"
    <3>1. bs = <<>> \/ (Top(bs) \in OpenIn(t, f, {"for"}) /\ \A m \in OpenIn(t, f, {"for"}) : m <= Top(bs))
      BY <1>1, <1>3, BodyExitsTop
    <3>2. bs # <<>> => ~t[Top(bs)].decl
      <4>1. SUFFICES ASSUME bs # <<>> PROVE ~t[Top(bs)].decl
        OBVIOUS
      <4>2. ~u[Top(bs)].decl
        BY <1>4, <1>5, <1>6, <2>5, <3>1, <4>1
      <4>3. u[Top(bs)] = t[Top(bs)]
        BY <1>4, <2>1, <3>1, <4>1
      <4> QED BY <4>2, <4>3
    <3>3. bs = <<>> => "outer" \notin t[1].opts
      <4>1. u[1] = t[1]
        BY <1>1, <1>6, ShapedIsRooted
      <4>2. bs = <<>> => OpenIn(u, f, {"for"}) = {}
        BY <1>1, <1>3, <1>4, BodyExitsTop
      <4> QED BY <1>5, <4>1, <4>2
    <3> QED BY <1>6, <2>5, <3>2, <3>3 DEF BodyExitOf, Copies
  <2> QED BY <2>4, <2>5
<1> DEFINE s == ReleaseAll(Copies(u, N)) \o <<Br({Blk(N, "latch")})>>
           i == Br({Blk(N, "latch")})
<1>9. Blk(N, "latch") \in BlocksOf(u) /\ Blk(N, "latch") \in NamesOf(u) /\ Copies(u, N) \in SUBSET NamesOf(u)
  <2>1. Blk(N, "latch") \in NamesOf(u) /\ Blk(N, "copy") \in NamesOf(u)
    BY <1>6, Names DEF Parts
  <2>2. Blk(N, "latch") \in Made(u, N)
    BY <1>6 DEF Made, LoopKinds
  <2> QED BY <1>6, <2>1, <2>2 DEF BlocksOf, Copies
<1>10. i \in Instructions(NamesOf(u)) /\ IsTerminator(i) /\ <<i>> \in Seq(Instructions(NamesOf(u))) /\
      i.to = {Blk(N, "latch")}
  BY <1>9, BranchNamed
<1>11. ReleaseAll(Copies(u, N)) \in Seq(Instructions(NamesOf(u))) /\ s \in Seq(Instructions(NamesOf(u)))
  <2>1. ReleaseAll(Copies(u, N)) \in Seq(Instructions(NamesOf(u)))
    BY <1>9, ReleaseNamed
  <2> QED BY <1>10, <2>1
<1>12. N \in OpenIn(u, f, Breakable) /\ N \in OpenIn(u, f, Breakable \cup {"try"})
  BY <1>5 DEF OpenIn, Breakable
<1>13. CaughtIn(u) /\ WellBlocks(c) /\ ~Terminated(c, b) =>
         Runs(NamesOf(u), Typing(u), s, Held(t, c, b), Gone(c, b),
              Held(t, c, b) \ Copies(u, N), Gone(c, b) \cup Copies(u, N))
  BY <1>1, <1>2, <1>5, <1>9, <1>12, RunLeaving
<1>14. Outward(u, f, i)
  <2>1. Blk(N, "latch")[1] = N
    BY DEF Blk
  <2> QED BY <1>10, <1>12, <2>1 DEF Outward
<1>15. x.kind \in LeafKinds \ {"closure"} /\ Made(u, L) = {}
  BY <1>1 DEF LeafKinds, JumpKinds, Made
<1> HIDE DEF i
<1>16. s = <<i>> \/ \E p \in Seq(Instructions(NamesOf(u))) : s = p \o <<i>>
  BY <1>11 DEF i
<1> HIDE DEF s
<1>17. Stopped(u, f, ex, ls, bs, ps, c, b, c ++ In(b, s))
  BY <1>10, <1>11, <1>13, <1>14, <1>15, <1>16, LeafEnds
<1>18. ScopesMatch(u, f, ss, c ++ In(b, s), b)
  <2>1. WellBlocks(c ++ In(b, s)) => WellBlocks(c) /\ ~Terminated(c, b)
    BY <1>17 DEF Stopped
  <2> QED BY <1>2, <1>3, <2>1, LeafScopes
<1>19. Matches(u, f, ex, ls, bs, ps, ss, c ++ In(b, s), b)
  BY <1>17, <1>18 DEF Matches, Stopped
<1> QED BY <1>7, <1>8, <1>19 DEF s

(* The innermost of the handlers that have a scope.                        *)
InnerScope(t, f, n) == n \in ScopedIn(t, f) /\ \A m \in ScopedIn(t, f) : m <= n

(* The innermost scope is that of the nearest handler with one. *)
LEMMA InnermostScope ==
  ASSUME NEW t, NEW f, Shaped(t), Nested(t, f)
  PROVE  \E n : InnerScope(t, f, n)
<1>1. Openings(t, Opened(f), Top(f).node, Top(f).slot)
  BY Frames
<1>2. \A k : k \in ScopedIn(t, f) <=> \E o \in Opened(f) : k = o[1] /\ Scoped(t, o[1])
  BY Readings
<1>3. Len(t) \in Nat
  BY ShapedIsRooted
<1>4. ScopedIn(t, f) \in SUBSET (0..Len(t))
  BY <1>1, <1>2, <1>3 DEF Openings
<1>5. 1 \in ScopedIn(t, f)
  <2>1. t[1].kind = "function"
    BY DEF Shaped
  <2>2. <<1, 1>> \in Opened(f) /\ <<1, 1>>[1] = 1
    BY <1>1 DEF Openings
  <2> QED BY <1>2, <2>1, <2>2 DEF Scoped
<1>6. \E n \in ScopedIn(t, f) : \A m \in ScopedIn(t, f) : m <= n
  BY <1>3, <1>4, <1>5, Greatest
<1> QED BY <1>6 DEF InnerScope

(* What a return or a throw of a tidy program leaves belongs to the        *)
(* innermost scope.                                                        *)
LEMMA LeftKept ==
  ASSUME NEW t, NEW f, NEW x, NEW u, Stands(t, f, x, u), NEW L, L = Len(t) + 1, TidyIn(u),
         x.kind \in {"return", "throw"}, NEW n, InnerScope(u, f, n)
  PROVE  /\ TargetIn(u, L) = 0 => ScopeIn(u, L) \subseteq Declared(u, n)
         /\ \A o \in Opened(f) : TargetIn(u, L) = o[1] =>
              ScopeIn(u, L) \subseteq ScopeIn(u, o[1]) \cup Keeps(u, o[1], o[2]) \cup Declared(u, n)
<1>1. /\ Openings(u, Opened(f), Top(f).node, Top(f).slot) /\ ScopeIn(u, L) = Kept(u, Opened(f)) /\ Nested(u, f)
      /\ \A o \in Opened(f) : o[1] \in 1..(L - 1) /\ o[1] \in 1..Len(t) /\ u[o[1]] = t[o[1]]
  BY Standing
<1>2. x.kind \in JumpKinds \cup {"call"}
  BY DEF JumpKinds
<1>3. \A k : k \in ScopedIn(u, f) <=> \E o \in Opened(f) : k = o[1] /\ Scoped(u, o[1])
  BY Readings
<1>4. ASSUME NEW p \in Opened(f), NEW r \in Keeps(u, p[1], p[2]),
             TargetIn(u, L) = 0 \/ ((\E q \in Opened(f) : TargetIn(u, L) = q[1]) /\ p[1] > TargetIn(u, L))
      PROVE  r \in Declared(u, n)
  <2>1. p[1] = Top(f).node /\ t[p[1]].kind \in {"block", "function"}
    <3>1. SUFFICES ASSUME p[1] # Top(f).node \/ t[p[1]].kind \notin {"block", "function"} PROVE Keeps(u, p[1], p[2]) = {}
      BY <1>4
    <3> QED BY <1>2, <1>4, <3>1, Forgetting
  <2>2. u[p[1]].kind \in {"block", "function"}
    BY <1>1, <2>1
  <2>3. p[1] \in ScopedIn(u, f)
    BY <1>3, <2>2 DEF Scoped
  <2>4. n = p[1]
    <3>1. p[1] <= n
      BY <2>3 DEF InnerScope
    <3>2. PICK o \in Opened(f) : n = o[1]
      BY <1>3 DEF InnerScope
    <3>3. n <= p[1] /\ n \in 1..Len(t) /\ p[1] \in 1..Len(t)
      BY <1>1, <2>1, <3>2 DEF Openings
    <3> QED BY <3>1, <3>3
  <2>5. r = Blk(n, "local") /\ u[n].decl
    BY <1>4, <2>2, <2>4 DEF Keeps
  <2> QED BY <2>2, <2>4, <2>5 DEF Declared
<1>5. \A r : r \in ScopeIn(u, L) <=> \E p \in Opened(f) : r \in Keeps(u, p[1], p[2])
  <2>1. \A r : r \in Kept(u, Opened(f)) <=> \E p \in Opened(f) : r \in Keeps(u, p[1], p[2])
    BY KeptReading
  <2> QED BY <1>1, <2>1
<1>6. ASSUME TargetIn(u, L) = 0 PROVE ScopeIn(u, L) \subseteq Declared(u, n)
  BY <1>4, <1>5, <1>6
<1>7. ASSUME NEW o \in Opened(f), TargetIn(u, L) = o[1]
      PROVE  ScopeIn(u, L) \subseteq ScopeIn(u, o[1]) \cup Keeps(u, o[1], o[2]) \cup Declared(u, n)
  <2>1. SUFFICES ASSUME NEW p \in Opened(f), NEW r \in Keeps(u, p[1], p[2])
                 PROVE  r \in ScopeIn(u, o[1]) \/ r \in Keeps(u, o[1], o[2]) \/ r \in Declared(u, n)
    BY <1>5
  <2>2. p = o \/ p[1] < o[1] \/ p[1] > o[1]
    <3>1. p[1] \in 1..Len(t) /\ o[1] \in 1..Len(t) /\ (p[1] = o[1] => p = o)
      BY <1>1 DEF Openings
    <3> QED BY <3>1
  <2>3. CASE p = o
    BY <2>1, <2>3
  <2>4. CASE p[1] < o[1]
    <3>1. KeptByOlder(u, Opened(f))
      BY <1>1, OpenScopes
    <3>2. ScopeIn(u, o[1]) = Kept(u, Older(Opened(f), o[1]))
      BY <3>1 DEF KeptByOlder
    <3>3. p \in Older(Opened(f), o[1])
      BY <2>4 DEF Older
    <3> QED BY <2>1, <3>2, <3>3, KeptReading
  <2>5. CASE p[1] > o[1]
    BY <1>4, <1>7, <2>1, <2>5
  <2> QED BY <2>2, <2>3, <2>4, <2>5
<1> QED BY <1>6, <1>7

(* Nothing outside a try statement belongs to the innermost scope inside.  *)
LEMMA ThrownScope ==
  ASSUME NEW t, Shaped(t), NEW f, Nested(t, f), NEW k \in OpenTries(t, f), t[Top(f).node].kind # "try",
         NEW n, InnerScope(t, f, n)
  PROVE  ScopeIn(t, k) \cap Declared(t, n) = {}
<1>1. Openings(t, Opened(f), Top(f).node, Top(f).slot) /\ Len(t) \in Nat
  BY Frames, ShapedIsRooted
<1>2. PICK o \in Opened(f) : k = o[1] /\ t[o[1]].kind = "try" /\ o[2] = 1
  BY Readings
<1>3. PICK p \in Opened(f) : n = p[1] /\ Scoped(t, p[1])
  BY Readings DEF InnerScope
<1>4. k \in 1..Len(t) /\ n \in 1..Len(t) /\ Path(t, n) = {q \in Opened(f) : q[1] < n}
  BY <1>1, <1>2, <1>3 DEF Openings
<1>5. k < n
  <2>1. PICK m \in ScopedIn(t, f) : m > k
    BY BlockInside
  <2>2. m <= n
    BY <2>1 DEF InnerScope
  <2>3. m \in 1..Len(t)
    <3>1. \E q \in Opened(f) : m = q[1]
      BY Readings
    <3> QED BY <1>1, <3>1 DEF Openings
  <2> QED BY <1>4, <2>1, <2>2, <2>3
<1>6. t[n].parent >= k /\ t[n].parent \in Nat
  <2>1. o \in Path(t, n)
    BY <1>2, <1>4, <1>5
  <2>2. Walk(t)[n] = {<<t[n].parent, t[n].slot>>} \cup Walk(t)[t[n].parent] /\ t[n].parent \in 0..(n - 1)
    <3>1. Rooted(t)
      BY ShapedIsRooted
    <3> QED BY <1>4, <3>1, Walking DEF Rooted
  <2>3. o \in Walk(t)[n] /\ o[1] # 0
    BY <2>1 DEF Path
  <2>4. CASE o = <<t[n].parent, t[n].slot>>
    BY <1>2, <1>4, <2>2, <2>4
  <2>5. CASE o \in Walk(t)[t[n].parent]
    <3>1. o \in Path(t, t[n].parent)
      BY <2>3, <2>5 DEF Path
    <3>2. t[n].parent # 0
      <4>1. Path(t, 0) = {}
        BY Nowhere
      <4> QED BY <3>1, <4>1
    <3>3. t[n].parent \in 1..Len(t)
      BY <1>1, <1>4, <2>2, <3>2
    <3>4. o[1] \in 1..(t[n].parent - 1)
      BY <3>1, <3>3, Paths
    <3> QED BY <1>2, <3>3, <3>4
  <2> QED BY <2>2, <2>3, <2>4, <2>5
<1>7. \A r \in ScopeIn(t, k) : r[1] \in 1..(k - 1)
  <2>1. k \in 0..Len(t)
    BY <1>4
  <2> QED BY <2>1, ScopeBelow
<1>8. \A r \in Declared(t, n) : r[1] = n \/ r[1] = t[n].parent
  BY DEF Declared, Blk
<1> QED BY <1>4, <1>5, <1>6, <1>7, <1>8

(* What a scope declares are names of the program. *)
LEMMA DeclaredNames ==
  ASSUME NEW t, Shaped(t), NEW n \in 1..Len(t)
  PROVE  Declared(t, n) \in SUBSET NamesOf(t)
<1>1. n # 1 => t[n].parent \in 1..Len(t)
  <2>1. Len(t) \in Nat
    BY ShapedIsRooted
  <2>2. n # 1 => t[n].parent \in 0..(n - 1) /\ t[n].parent # 0
    BY DEF Shaped
  <2> QED BY <2>1, <2>2
<1>2. \A q \in Parts : Blk(n, q) \in NamesOf(t) /\ (n # 1 => Blk(t[n].parent, q) \in NamesOf(t))
  BY <1>1, Names
<1>3. {"local", "e", "copy", "element"} \subseteq Parts
  BY DEF Parts
<1> QED BY <1>2, <1>3 DEF Declared

(* What deinitialize() releases of the innermost scope. *)
LEMMA DeinitializeIs ==
  ASSUME NEW t, Shaped(t), NEW f, NEW ss, NEW c, NEW b, ScopesMatch(t, f, ss, c, b), NEW n, InnerScope(t, f, n)
  PROVE  \E rs \in SUBSET Declared(t, n) :
           /\ Deinitialize(Top(ss)) = ReleaseAll(rs) /\ rs \in SUBSET NamesOf(t)
           /\ NoFlags(ss) => rs = Declared(t, n)
<1>1. /\ ss # <<>> /\ Len(ss) \in Nat \ {0} /\ Top(ss) = ss[Len(ss)]
      /\ Top(ss) \in ScopeRecords(t) /\ Top(ss).vals = Declared(t, n)
  BY ScopesTop DEF InnerScope
<1>2. Declared(t, n) \in SUBSET NamesOf(t)
  BY <1>1 DEF ScopeRecords
<1>3. CASE Top(ss).isDeinitialized
  <2>1. Deinitialize(Top(ss)) = ReleaseAll({})
    BY <1>3 DEF Deinitialize, ReleaseAll
  <2>2. NoFlags(ss) => Top(ss).vals = {}
    BY <1>1, <1>3 DEF NoFlags
  <2>3. {} \in SUBSET Declared(t, n) /\ {} \in SUBSET NamesOf(t) /\ (NoFlags(ss) => {} = Declared(t, n))
    BY <1>1, <2>2
  <2> QED BY <2>1, <2>3
<1>4. CASE ~Top(ss).isDeinitialized
  <2>1. Deinitialize(Top(ss)) = ReleaseAll(Declared(t, n))
    BY <1>1, <1>4 DEF Deinitialize
  <2> QED BY <1>2, <2>1
<1> QED BY <1>3, <1>4

(* No scope has released anything where the compiler goes on.              *)
LEMMA NoFlagsLeaf ==
  ASSUME NEW t, NEW f, NEW x, NEW u, Stands(t, f, x, u), NEW ss, NEW c, NEW b, ScopesMatch(t, f, ss, c, b),
         CaughtIn(u), TidyIn(u), WellBlocks(c), ~Terminated(c, b)
  PROVE  NoFlags(ss) /\ Good(t, c)
<1>1. Grows(t, u)
  BY Standing
<1>2. Good(t, c)
  BY <1>1, SameMatching DEF Good
<1>3. Shaped(t) /\ Nested(t, f)
  BY DEF Stands
<1> QED BY <1>2, <1>3, NoFlagsHere

(* A deinitialized scope still matches. *)
LEMMA ScopesFlagged ==
  ASSUME NEW t, NEW f, NEW x, NEW u, Stands(t, f, x, u), x.kind \in {"return", "throw"},
         NEW ss, NEW c, NEW b, ScopesMatch(t, f, ss, c, b), NEW c2, NEW b2,
         WellBlocks(c2) => WellBlocks(c) /\ ~Terminated(c, b), CaughtIn(u) /\ WellBlocks(c2) => Terminated(c2, b2)
  PROVE  ScopesMatch(u, f, Deinitialized(ss), c2, b2)
<1>1. Good(u, c2) => Good(t, c) /\ NoFlags(ss) /\ Terminated(c2, b2)
  <2>1. SUFFICES ASSUME Good(u, c2) PROVE Good(t, c) /\ NoFlags(ss) /\ Terminated(c2, b2)
    OBVIOUS
  <2>2. CaughtIn(u) /\ TidyIn(u) /\ WellBlocks(c) /\ ~Terminated(c, b) /\ Terminated(c2, b2)
    BY <2>1 DEF Good
  <2> QED BY <2>2, NoFlagsLeaf
<1> QED BY <1>1, ScopesFlag

(* A return is compiled: the roots of its own scope are released. *)
LEMMA ReturnStep ==
  ASSUME NEW t, NEW f, NEW x, NEW u, NEW L, NEW ex, NEW ls, NEW bs, NEW ps, NEW ss, NEW c, NEW b,
         Ready(t, f, x, u, L, ex, ls, bs, ps, ss, c, b), x.kind = "return"
  PROVE  Matches(u, f, ex, ls, bs, ps, Deinitialized(ss),
                 c ++ In(b, <<Eval(Blk(L, "eval"))>>
                            \o (IF b[2] = "pad" THEN <<Release({Blk(b[1], "caught")})>> ELSE <<>>)
                            \o Deinitialize(Top(ss)) \o <<Ret>>), b)
<1>1. Len(u) = L /\ L \in 1..Len(u) /\ u[L] = x /\ Grows(t, u) /\ Shaped(t) /\ Shaped(u)
      /\ CodeMatches(t, f, c, b) /\ b \in DOMAIN c
      /\ (CaughtIn(u) /\ WellBlocks(c) /\ ~Terminated(c, b) => HeldAs(u, L, Held(t, c, b)))
  BY Begins
<1>2. Stands(t, f, x, u) /\ L = Len(t) + 1 /\ Nested(t, f) /\ ScopesMatch(t, f, ss, c, b)
  BY DEF Ready, Stands, Matches
<1>3. PICK n : InnerScope(t, f, n)
  BY <1>1, <1>2, InnermostScope
<1>4. PICK rs \in SUBSET Declared(t, n) :
        /\ Deinitialize(Top(ss)) = ReleaseAll(rs) /\ rs \in SUBSET NamesOf(t)
        /\ NoFlags(ss) => rs = Declared(t, n)
  BY <1>1, <1>2, <1>3, DeinitializeIs
<1> DEFINE names == NamesOf(u)
           T == Typing(u)
           ca == IF b[2] = "pad" THEN {Blk(b[1], "caught")} ELSE {}
           s1 == <<Eval(Blk(L, "eval"))>>
           s == s1 \o ReleaseAll(ca) \o ReleaseAll(rs) \o <<Ret>>
<1>5. (IF b[2] = "pad" THEN <<Release({Blk(b[1], "caught")})>> ELSE <<>>) = ReleaseAll(ca)
  BY DEF ReleaseAll
<1>6. NamesOf(t) \subseteq names
  BY <1>1, NamesGrow
<1>7. ca \in SUBSET names /\ rs \in SUBSET names
  <2>1. b[1] \in 1..Len(t)
    <3>1. Named(NamesOf(t), c)
      BY <1>1 DEF CodeMatches, Written
    <3> QED BY <1>1, <3>1, HeldHere
  <2>2. Blk(b[1], "caught") \in NamesOf(t)
    BY <2>1, Names DEF Parts
  <2> QED BY <1>4, <1>6, <2>2
<1>8. Ret \in Instructions(names) /\ IsTerminator(Ret) /\ Ret.op # "br"
  BY DEF Ret, Instructions, IsTerminator
<1>9. /\ s1 \in Seq(Instructions(names)) /\ ReleaseAll(ca) \in Seq(Instructions(names))
      /\ ReleaseAll(rs) \in Seq(Instructions(names)) /\ <<Ret>> \in Seq(Instructions(names))
  <2>1. Blk(L, "eval") \in names
    BY <1>1, Names DEF Parts
  <2>2. s1 \in Seq(Instructions(names))
    BY <2>1, EvalNamed
  <2>3. ReleaseAll(ca) \in Seq(Instructions(names)) /\ ReleaseAll(rs) \in Seq(Instructions(names))
    BY <1>7, ReleaseNamed
  <2> QED BY <1>8, <2>2, <2>3
<1>10. TidyIn(u) => ScopeIn(u, L) \subseteq Declared(t, n)
  <2>1. TargetIn(u, L) = 0
    BY <1>1, GoesNowhere DEF UnwindsIn
  <2>2. ScopedIn(u, f) = ScopedIn(t, f)
    BY <1>1, <1>2, SameSets DEF Alike
  <2>3. InnerScope(u, f, n)
    BY <1>3, <2>2 DEF InnerScope
  <2>4. TidyIn(u) => ScopeIn(u, L) \subseteq Declared(u, n)
    BY <1>2, <2>1, <2>3, LeftKept
  <2>5. n \in 1..Len(t)
    <3>1. \E o \in Opened(f) : n = o[1]
      BY <1>3, Readings DEF InnerScope
    <3>2. \A o \in Opened(f) : o[1] \in 1..Len(t)
      BY <1>2, Standing
    <3> QED BY <3>1, <3>2
  <2>6. Declared(u, n) = Declared(t, n)
    BY <1>1, <2>5, SameDeclared
  <2> QED BY <2>4, <2>6
<1> DEFINE h == Held(t, c, b)  d == Gone(c, b)
           h2 == (h \ ca) \ rs  d2 == (d \cup ca) \cup rs
<1>11. CaughtIn(u) /\ WellBlocks(c) /\ ~Terminated(c, b) => Runs(names, T, s, h, d, h2, d2)
  <2>1. SUFFICES ASSUME CaughtIn(u), WellBlocks(c), ~Terminated(c, b) PROVE Runs(names, T, s, h, d, h2, d2)
    OBVIOUS
  <2>2. Runs(names, T, s1, h, d, h, d)
    BY <1>1, <2>1, EvalOf DEF Parts
  <2>3. Runs(names, T, ReleaseAll(ca), h, d, h \ ca, d \cup ca)
    BY <1>7, Releasing
  <2>4. Runs(names, T, ReleaseAll(rs), h \ ca, d \cup ca, h2, d2)
    BY <1>7, Releasing
  <2>5. Runs(names, T, <<Ret>>, h2, d2, h2, d2)
    <3>1. TidyIn(u) => h2 = {}
      <4>1. SUFFICES ASSUME TidyIn(u) PROVE h2 = {}
        OBVIOUS
      <4>2. NoFlags(ss)
        BY <1>2, <2>1, <4>1, NoFlagsLeaf
      <4>3. rs = Declared(t, n) /\ h \subseteq Declared(t, n)
        BY <1>1, <1>4, <1>10, <2>1, <4>1, <4>2 DEF HeldAs
      <4> QED BY <4>3
    <3>2. T.tidy = TidyIn(u)
      BY TypingIs
    <3> QED BY <3>1, <3>2, Leaving
  <2> HIDE DEF s1, T, names, h2, d2, h, d, ca
  <2>6. Runs(names, T, s1 \o ReleaseAll(ca), h, d, h \ ca, d \cup ca)
    BY <2>2, <2>3, RunBoth
  <2>7. Runs(names, T, s1 \o ReleaseAll(ca) \o ReleaseAll(rs), h, d, h2, d2)
    BY <2>4, <2>6, RunBoth
  <2>8. Runs(names, T, s1 \o ReleaseAll(ca) \o ReleaseAll(rs) \o <<Ret>>, h, d, h2, d2)
    BY <2>5, <2>7, RunBoth
  <2> QED BY <2>8
<1>12. x.kind \in LeafKinds \ {"closure"} /\ Made(u, L) = {}
  BY <1>1 DEF LeafKinds, JumpKinds, Made
<1>13. s \in Seq(Instructions(names)) /\ \E p \in Seq(Instructions(names)) : s = p \o <<Ret>>
  <2>1. s1 \o ReleaseAll(ca) \o ReleaseAll(rs) \in Seq(Instructions(names))
    <3> HIDE DEF s1, ca, names
    <3> QED BY <1>9
  <2> DEFINE p == s1 \o ReleaseAll(ca) \o ReleaseAll(rs)
  <2> HIDE DEF s1, ca, names
  <2>2. p \o <<Ret>> \in Seq(Instructions(names))
    <3> HIDE DEF p
    <3>1. p \in Seq(Instructions(names))
      BY <2>1 DEF p
    <3> QED BY <1>9, <3>1
  <2>3. s = p \o <<Ret>>
    OBVIOUS
  <2> QED BY <2>1, <2>2, <2>3
<1>14. Outward(u, f, Ret)
  BY <1>8 DEF Outward
<1> HIDE DEF s
<1>15. Stopped(u, f, ex, ls, bs, ps, c, b, c ++ In(b, s))
  <2>1. s = <<Ret>> \/ \E p \in Seq(Instructions(NamesOf(u))) : s = p \o <<Ret>>
    BY <1>13
  <2> QED BY <1>8, <1>11, <1>12, <1>13, <1>14, <2>1, LeafEnds
<1>16. ScopesMatch(u, f, Deinitialized(ss), c ++ In(b, s), b)
  <2>1. (WellBlocks(c ++ In(b, s)) => WellBlocks(c) /\ ~Terminated(c, b)) /\ Terminated(c ++ In(b, s), b)
    BY <1>15 DEF Stopped
  <2> QED BY <1>2, <2>1, ScopesFlagged
<1>17. Matches(u, f, ex, ls, bs, ps, Deinitialized(ss), c ++ In(b, s), b)
  BY <1>15, <1>16 DEF Matches, Stopped
<1> QED BY <1>4, <1>5, <1>17 DEF s

-----------------------------------------------------------------------------
(* Steps that branch to blocks of their own *)

Owned(S, n) == \A y \in S : y[1] = n /\ y[2] # "pad"

(* The blocks of a new node are not there yet. *)
LEMMA Fresh ==
  ASSUME NEW t, NEW u, Grows(t, u), NEW L, L = Len(t) + 1, NEW f, NEW c, NEW b, CodeMatches(t, f, c, b),
         NEW s, NEW h, NEW d, NEW e, Continued(u, c, b, s, h, d, e)
  PROVE  /\ Fills(u, e, {}, {}, e) /\ Only(c, b, e) /\ b \in DOMAIN e
         /\ \A y : y[1] = L => y # b /\ y \notin DOMAIN e /\ Was(e, y) = <<>>
<1>1. Written(NamesOf(u), Typing(u), e) /\ Only(c, b, e) /\ b \in DOMAIN e /\ DOMAIN e = DOMAIN c
  BY DEF Continued
<1>2. Fills(u, e, {}, {}, e)
  BY <1>1, FillNone
<1>3. DOMAIN c \subseteq NamesOf(t)
  BY DEF CodeMatches, Written, Named
<1>4. L \notin 1..Len(t)
  BY NamesGrow
<1>5. \A y : y[1] = L => y \notin NamesOf(t)
  BY <1>4 DEF NamesOf
<1> QED BY <1>1, <1>2, <1>3, <1>5 DEF Was

(* An empty block that holds what is in scope is the place to write to. *)
LEMMA PlaceEmpty ==
  ASSUME NEW t, NEW f, NEW c, NEW b, c[b] = <<>>, HeldIn(t, b) = Now(t, f)
  PROVE  PlaceIsRight(t, f, c, b)
<1>1. ~Terminated(c, b)
  BY DEF Terminated
<1>2. After(HeldIn(t, b), c[b]) = HeldIn(t, b)
  <2>1. Leads(Typing(t), HeldIn(t, b), <<>>, HeldIn(t, b), {})
    BY Starting
  <2> QED BY <2>1 DEF Leads, After
<1> QED BY <1>1, <1>2 DEF PlaceIsRight

Branched(u, f, ex, ls, bs, ps, c, b, c2, b2) ==
  /\ Stacked(u, f, ex, ls, bs, ps, c2, b2) /\ CodeMatches(u, f, c2, b2)
  /\ WellBlocks(c2) => WellBlocks(c) /\ ~Terminated(c, b)

(* A leaf with blocks of its own goes on in one of them. *)
LEMMA LeafBranches ==
  ASSUME NEW t, NEW f, NEW x, NEW u, NEW L, NEW ex, NEW ls, NEW bs, NEW ps, NEW ss, NEW c, NEW b,
         Ready(t, f, x, u, L, ex, ls, bs, ps, ss, c, b), x.kind \in LeafKinds \ {"closure"},
         NEW s, s # <<>>, NEW h, NEW d, NEW e, Continued(u, c, b, s, h, d, e),
         NEW F, NEW D, NEW c2, Fills(u, e, F, D, c2), Owned(F, L), NEW b2 \in D, Owned({b2}, L), Made(u, L) \subseteq D,
         CaughtIn(u) /\ WellBlocks(c2) => PlaceIsRight(u, f, c2, b2)
  PROVE  Branched(u, f, ex, ls, bs, ps, c, b, c2, b2)
<1>1. Grows(t, u) /\ CodeMatches(t, f, c, b)
  BY Begins DEF LeafKinds, JumpKinds
<1>2. Stands(t, f, x, u) /\ L = Len(t) + 1 /\ Stacked(t, f, ex, ls, bs, ps, c, b)
  BY DEF Ready, Matches
<1>3. Only(c, b, e) /\ (WellBlocks(e) => WellBlocks(c) /\ ~Terminated(c, b))
  BY DEF Continued
<1>4. DOMAIN c2 = DOMAIN e \cup D /\ (WellBlocks(c2) => WellBlocks(e)) /\ Written(NamesOf(u), Typing(u), c2)
  BY DEF Fills
<1>5. Touched(c, b, c2, b2, L)
  <2>1. \A y \in F : y[1] = L /\ y[2] # "pad"
    BY DEF Owned
  <2>2. b2 \in DOMAIN c2 /\ b2[1] = L /\ b2[2] # "pad"
    BY <1>4 DEF Owned
  <2> QED BY <1>3, <2>1, <2>2, TouchedBy
<1>6. Stacked(u, f, ex, ls, bs, ps, c2, b2) /\ CodeMatches(u, f, c2, b2)
  <2>1. Made(u, L) \subseteq DOMAIN c2
    BY <1>4
  <2> QED BY <1>1, <1>2, <1>4, <1>5, <2>1, LeafStep DEF ExitsOf
<1> QED BY <1>3, <1>4, <1>6 DEF Branched

(* Such a leaf leaves the stacks as they are. *)
LEMMA BranchedMatches ==
  ASSUME NEW t, NEW f, NEW x, NEW u, NEW L, NEW ex, NEW ls, NEW bs, NEW ps, NEW ss, NEW c, NEW b,
         Ready(t, f, x, u, L, ex, ls, bs, ps, ss, c, b), NEW c2, NEW b2,
         Branched(u, f, ex, ls, bs, ps, c, b, c2, b2)
  PROVE  Matches(u, f, ex, ls, bs, ps, ss, c2, b2)
<1>1. Stands(t, f, x, u) /\ ScopesMatch(t, f, ss, c, b)
  BY DEF Ready, Matches
<1>2. WellBlocks(c2) => WellBlocks(c) /\ ~Terminated(c, b)
  BY DEF Branched
<1>3. ScopesMatch(u, f, ss, c2, b2)
  BY <1>1, <1>2, LeafScopes
<1> QED BY <1>3 DEF Branched, Matches

(* A statement begins with a branch, after its condition has been          *)
(* evaluated, to blocks that expect what is held there.                    *)
LEMMA FirstTest ==
  ASSUME NEW t, NEW f, NEW x, NEW u, NEW L, NEW ex, NEW ls, NEW bs, NEW ps, NEW ss, NEW c, NEW b,
         Ready(t, f, x, u, L, ex, ls, bs, ps, ss, c, b), x.kind # "block", NEW part \in Parts,
         NEW ts \in SUBSET BlocksOf(u), ts \subseteq NamesOf(u), \A y \in ts : HeldIn(u, y) = ScopeIn(u, L)
  PROVE  Continued(u, c, b, <<Eval(Blk(L, part)), Br(ts)>>, Held(t, c, b), Gone(c, b),
                   c ++ In(b, <<Eval(Blk(L, part)), Br(ts)>>))
<1>1. L \in 1..Len(u) /\ Grows(t, u) /\ CodeMatches(t, f, c, b)
      /\ (CaughtIn(u) /\ WellBlocks(c) /\ ~Terminated(c, b) => HeldAs(u, L, Held(t, c, b)))
  BY Begins
<1> DEFINE s == <<Eval(Blk(L, part)), Br(ts)>>
<1>2. Blk(L, part) \in NamesOf(u) /\ Blk(L, part)[1] = L
  <2>1. Blk(L, part) \in NamesOf(u)
    BY <1>1, Names
  <2> QED BY <2>1 DEF Blk
<1>3. \A h, d : HeldAs(u, L, h) => Runs(NamesOf(u), Typing(u), s, h, d, h, d)
  <2>1. SUFFICES ASSUME NEW h, NEW d, HeldAs(u, L, h) PROVE Runs(NamesOf(u), Typing(u), s, h, d, h, d)
    OBVIOUS
  <2>2. ScopeIn(u, Blk(L, part)[1]) \subseteq h /\ \A y \in ts : HeldIn(u, y) \subseteq h /\
        (TidyIn(u) => h \subseteq HeldIn(u, y))
    BY <1>2, <2>1 DEF HeldAs
  <2> QED BY <1>2, <2>2, RunTest
<1>4. s \in Seq(Instructions(NamesOf(u)))
  <2>1. Eval(Blk(L, part)) \in Instructions(NamesOf(u)) /\ Br(ts) \in Instructions(NamesOf(u))
    BY <1>2, EvalNamed, BranchNamed
  <2> QED BY <2>1
<1>5. s # <<>>
  OBVIOUS
<1> HIDE DEF s
<1>6. CaughtIn(u) /\ WellBlocks(c) /\ (s # <<>> => ~Terminated(c, b)) =>
        Runs(NamesOf(u), Typing(u), s, Held(t, c, b), Gone(c, b), Held(t, c, b), Gone(c, b))
  BY <1>1, <1>3, <1>5
<1>7. Continued(u, c, b, s, Held(t, c, b), Gone(c, b), c ++ In(b, s))
  BY <1>1, <1>4, <1>6, Emits
<1> QED BY <1>7 DEF s

(* A conditional expression is compiled. *)
LEMMA TernaryStep ==
  ASSUME NEW t, NEW f, NEW x, NEW u, NEW L, NEW ex, NEW ls, NEW bs, NEW ps, NEW ss, NEW c, NEW b,
         Ready(t, f, x, u, L, ex, ls, bs, ps, ss, c, b), x.kind = "ternary"
  PROVE  Matches(u, f, ex, ls, bs, ps, ss,
                 c ++ In(b, <<Eval(Blk(L, "cond")), Br({Blk(L, "lhs"), Blk(L, "rhs")})>>)
                   ++ In(Blk(L, "lhs"), <<Eval(Blk(L, "lhs")), Br({Blk(L, "endTernary")})>>)
                   ++ In(Blk(L, "rhs"), <<Eval(Blk(L, "rhs")), Br({Blk(L, "endTernary")})>>)
                   ++ In(Blk(L, "endTernary"), <<>>), Blk(L, "endTernary"))
<1> DEFINE lhs == Blk(L, "lhs")  rhs == Blk(L, "rhs")  end == Blk(L, "endTernary")
           s == <<Eval(Blk(L, "cond")), Br({lhs, rhs})>>
           e == c ++ In(b, s)
           c2 == e ++ In(lhs, <<Eval(lhs), Br({end})>>)
           c3 == c2 ++ In(rhs, <<Eval(rhs), Br({end})>>)
           c4 == c3 ++ In(end, <<>>)
<1>1. Len(u) = L /\ L \in 1..Len(u) /\ u[L] = x /\ Grows(t, u) /\ Shaped(u) /\ CodeMatches(t, f, c, b)
  BY Begins
<1>2. Stands(t, f, x, u) /\ L = Len(t) + 1
  BY DEF Ready
<1>3. {lhs, rhs, end} \subseteq NamesOf(u) /\ {lhs, rhs, end} \subseteq Made(u, L) /\ Made(u, L) = {lhs, rhs, end}
  <2>1. {lhs, rhs, end} \subseteq NamesOf(u)
    BY <1>1, Names DEF Parts
  <2>2. Made(u, L) = {lhs, rhs, end}
    BY <1>1 DEF Made
  <2> QED BY <2>1, <2>2
<1>4. {lhs, rhs, end} \subseteq BlocksOf(u)
  BY <1>1, <1>3 DEF BlocksOf
<1>5. HeldIn(u, lhs) = ScopeIn(u, L) /\ HeldIn(u, rhs) = ScopeIn(u, L) /\ HeldIn(u, end) = ScopeIn(u, L)
  <2>1. \A part : HeldIn(u, Blk(L, part)) = ScopeIn(u, L) \cup OwnHeld(u, L, part)
    BY <1>1, HeldAre
  <2>2. \A part : OwnHeld(u, L, part) = {}
    BY <1>1 DEF OwnHeld
  <2> QED BY <2>1, <2>2
<1>6. Continued(u, c, b, s, Held(t, c, b), Gone(c, b), e)
  <2>1. {lhs, rhs} \in SUBSET BlocksOf(u) /\ {lhs, rhs} \subseteq NamesOf(u) /\
        \A y \in {lhs, rhs} : HeldIn(u, y) = ScopeIn(u, L)
    BY <1>3, <1>4, <1>5
  <2>2. "cond" \in Parts
    BY DEF Parts
  <2> HIDE DEF lhs, rhs
  <2> QED BY <2>1, <2>2, FirstTest
<1>7. lhs[1] = L /\ rhs[1] = L /\ end[1] = L /\ lhs # rhs /\ lhs # end /\ rhs # end
      /\ lhs[2] # "pad" /\ rhs[2] # "pad" /\ end[2] # "pad"
  BY DEF Blk
<1> HIDE DEF lhs, rhs, end, s, e, c2, c3, c4
<1>8. Fills(u, e, {}, {}, e) /\ Was(e, lhs) = <<>> /\ Was(e, rhs) = <<>> /\ Was(e, end) = <<>>
  BY <1>1, <1>2, <1>6, <1>7, Fresh
<1>9. Fills(u, e, {lhs}, {lhs}, c2)
  <2>1. ScopeIn(u, lhs[1]) \subseteq HeldIn(u, lhs) /\ {end} \in SUBSET BlocksOf(u) /\ {end} \subseteq NamesOf(u)
        /\ \A y \in {end} : HeldIn(u, y) = HeldIn(u, lhs)
    BY <1>3, <1>4, <1>5, <1>7
  <2>2. lhs \notin {} /\ lhs \in NamesOf(u) /\ {} \cup {lhs} = {lhs}
    BY <1>3
  <2>3. Fills(u, e, {} \cup {lhs}, {} \cup {lhs}, c2)
    BY <1>8, <2>1, <2>2, FillTest DEF c2
  <2> QED BY <2>2, <2>3
<1>10. Fills(u, e, {lhs, rhs}, {lhs, rhs}, c3)
  <2>1. ScopeIn(u, rhs[1]) \subseteq HeldIn(u, rhs) /\ {end} \in SUBSET BlocksOf(u) /\ {end} \subseteq NamesOf(u)
        /\ \A y \in {end} : HeldIn(u, y) = HeldIn(u, rhs)
    BY <1>3, <1>4, <1>5, <1>7
  <2>2. rhs \notin {lhs} /\ rhs \in NamesOf(u) /\ {lhs} \cup {rhs} = {lhs, rhs}
    BY <1>3, <1>7
  <2>3. Fills(u, e, {lhs} \cup {rhs}, {lhs} \cup {rhs}, c3)
    BY <1>8, <1>9, <2>1, <2>2, FillTest DEF c3
  <2> QED BY <2>2, <2>3
<1>11. Fills(u, e, {lhs, rhs}, {lhs, rhs, end}, c4) /\ c4[end] = <<>>
  <2>1. end \notin {lhs, rhs} /\ end \in NamesOf(u) /\ {lhs, rhs} \cup {end} = {lhs, rhs, end}
    BY <1>3, <1>7
  <2>2. Fills(u, e, {lhs, rhs}, {lhs, rhs} \cup {end}, c4) /\ c4[end] = <<>>
    BY <1>8, <1>10, <2>1, FillEmpty DEF c4
  <2> QED BY <2>1, <2>2
<1>12. PlaceIsRight(u, f, c4, end)
  <2>1. Now(u, f) = ScopeIn(u, L)
    BY <1>2, NowHere
  <2> QED BY <1>5, <1>11, <2>1, PlaceEmpty
<1>13. Branched(u, f, ex, ls, bs, ps, c, b, c4, end)
  <2>1. Owned({lhs, rhs}, L) /\ Owned({end}, L) /\ end \in {lhs, rhs, end} /\ Made(u, L) \subseteq {lhs, rhs, end}
    BY <1>3, <1>7 DEF Owned
  <2>2. s # <<>>
    BY DEF s
  <2>3. x.kind \in LeafKinds \ {"closure"}
    BY DEF LeafKinds
  <2> QED BY <1>6, <1>11, <1>12, <2>1, <2>2, <2>3, LeafBranches
<1>14. Matches(u, f, ex, ls, bs, ps, ss, c4, end)
  BY <1>13, BranchedMatches
<1> QED BY <1>14 DEF c4, c3, c2, e, s, lhs, rhs, end

(* Where an exception goes if a landing pad is left for it.                *)
PadReached(u, f, ps, L, k) ==
  /\ k \in OpenTries(u, f) /\ TargetIn(u, L) = k /\ Top(ps) = Blk(k, "pad")
  /\ Blk(k, "pad") \in BlocksOf(u) /\ Blk(k, "pad") \in NamesOf(u)
  /\ HeldIn(u, Blk(k, "pad")) = ScopeIn(u, k)
  /\ <<k, 1>> \in Opened(f) /\ Keeps(u, k, 1) = {} /\ k \in OpenIn(u, f, Breakable \cup {"try"})

(* The topmost landing pad is that of the try statement that catches. *)
LEMMA PadTarget ==
  ASSUME NEW t, NEW f, NEW x, NEW u, NEW L, NEW ex, NEW ls, NEW bs, NEW ps, NEW ss, NEW c, NEW b,
         Ready(t, f, x, u, L, ex, ls, bs, ps, ss, c, b),
         x.kind = "throw" \/ (x.kind = "call" /\ "known" \in x.opts), CaughtIn(u), ps # <<>>
  PROVE  \E k : PadReached(u, f, ps, L, k)
<1>1. Grows(t, u) /\ Shaped(t) /\ Shaped(u)
  BY Begins
<1>2. Stands(t, f, x, u) /\ L = Len(t) + 1 /\ Nested(t, f) /\ PadsMatch(t, f, ps, c, b)
  BY DEF Ready, Stands, Matches, Stacked
<1>3. CaughtIn(t)
  BY <1>1, SameMatching
<1>4. OpenTries(u, f) = OpenTries(t, f) /\ \A o \in Opened(f) : o[1] \in 1..Len(t) /\ u[o[1]] = t[o[1]]
  BY <1>1, <1>2, SameSets DEF Alike
<1>5. \A k : k \in OpenTries(u, f) <=> \E o \in Opened(f) : k = o[1] /\ u[o[1]].kind = "try" /\ o[2] = 1
  BY Readings
<1>6. OpenTries(t, f) \subseteq 1..Len(t)
  BY <1>4, <1>5
<1>7. /\ ps = <<>> <=> OpenTries(t, f) = {}
      /\ \A k \in OpenTries(t, f) : (\A m \in OpenTries(t, f) : m <= k) => Top(ps) = Blk(k, "pad")
  BY <1>1, <1>2, <1>3, <1>6, PadsTop
<1>8. PICK k \in OpenTries(u, f) : TargetIn(u, L) = k /\ \A m \in OpenTries(u, f) : m <= k
  BY <1>2, <1>4, <1>7, ExceptionGoes
<1>9. Top(ps) = Blk(k, "pad")
  BY <1>4, <1>7, <1>8
<1>10. PICK o \in Opened(f) : k = o[1] /\ u[k].kind = "try" /\ o[2] = 1
  BY <1>5, <1>8
<1>11. k \in 1..Len(u) /\ Blk(k, "pad") \in NamesOf(u)
  <2>1. k \in 1..Len(t) /\ 1..Len(t) \subseteq 1..Len(u)
    BY <1>1, <1>4, <1>10, NamesGrow
  <2> QED BY <2>1, Names DEF Parts
<1>12. Blk(k, "pad") \in BlocksOf(u)
  <2>1. Blk(k, "pad") \in Made(u, k)
    BY <1>10 DEF Made
  <2> QED BY <1>11, <2>1 DEF BlocksOf
<1>13. HeldIn(u, Blk(k, "pad")) = ScopeIn(u, k)
  <2>1. HeldIn(u, Blk(k, "pad")) = ScopeIn(u, k) \cup OwnHeld(u, k, "pad")
    BY <1>10, HeldAre
  <2>2. OwnHeld(u, k, "pad") = {}
    BY <1>10 DEF OwnHeld
  <2> QED BY <2>1, <2>2
<1>14. <<k, 1>> \in Opened(f)
  <2>1. Openings(u, Opened(f), Top(f).node, Top(f).slot)
    BY <1>2, Standing
  <2>2. o = <<o[1], o[2]>>
    BY <2>1 DEF Openings
  <2> QED BY <1>10, <2>2
<1>15. Keeps(u, k, 1) = {}
  BY <1>10 DEF Keeps
<1>16. k \in OpenIn(u, f, Breakable \cup {"try"})
  BY <1>10 DEF OpenIn
<1> QED BY <1>8, <1>9, <1>11, <1>12, <1>13, <1>14, <1>15, <1>16 DEF PadReached

(* Outside any try statement it leaves the function.                       *)
LEMMA NoTryAround ==
  ASSUME NEW t, NEW f, NEW x, NEW u, NEW L, NEW ex, NEW ls, NEW bs, NEW ps, NEW ss, NEW c, NEW b,
         Ready(t, f, x, u, L, ex, ls, bs, ps, ss, c, b),
         x.kind = "throw" \/ (x.kind = "call" /\ "known" \in x.opts), CaughtIn(u), OpenIn(t, f, {"try"}) = {}
  PROVE  TargetIn(u, L) = 0
<1>1. Stands(t, f, x, u) /\ L = Len(t) + 1 /\ Nested(t, f) /\ Grows(t, u)
  BY Begins DEF Ready, Stands
<1>2. OpenTries(u, f) = OpenTries(t, f)
  BY <1>1, SameSets DEF Alike
<1>3. OpenTries(t, f) = {}
  BY DEF OpenTries, OpenIn
<1> QED BY <1>1, <1>2, <1>3, ExceptionGoes

(* A throw is compiled, in a try statement or outside. *)
LEMMA ThrowStep ==
  ASSUME NEW t, NEW f, NEW x, NEW u, NEW L, NEW ex, NEW ls, NEW bs, NEW ps, NEW ss, NEW c, NEW b,
         Ready(t, f, x, u, L, ex, ls, bs, ps, ss, c, b), x.kind = "throw",
         OpenIn(t, f, {"try"}) # {} => ps # <<>>
  PROVE  Matches(u, f, ex, ls, bs, ps, Deinitialized(ss),
                 c ++ In(b, <<Eval(Blk(L, "eval"))>> \o Deinitialize(Top(ss)) \o <<Br({Blk(L, "throw")})>>)
                   ++ In(Blk(L, "throw"), <<IF OpenIn(t, f, {"try"}) # {} THEN Br({Top(ps)}) ELSE Raise>>),
                 Blk(L, "throw"))
<1>1. Len(u) = L /\ L \in 1..Len(u) /\ u[L] = x /\ Grows(t, u) /\ Shaped(t) /\ Shaped(u)
      /\ CodeMatches(t, f, c, b) /\ b \in DOMAIN c
      /\ (CaughtIn(u) /\ WellBlocks(c) /\ ~Terminated(c, b) => HeldAs(u, L, Held(t, c, b)))
  BY Begins
<1>2. Stands(t, f, x, u) /\ L = Len(t) + 1 /\ Nested(t, f) /\ Nested(u, f) /\ ScopesMatch(t, f, ss, c, b)
      /\ PadsMatch(t, f, ps, c, b)
  BY Standing DEF Ready, Stands, Matches, Stacked
<1>3. PICK n : InnerScope(t, f, n)
  BY <1>1, <1>2, InnermostScope
<1>4. PICK rs \in SUBSET Declared(t, n) :
        /\ Deinitialize(Top(ss)) = ReleaseAll(rs) /\ rs \in SUBSET NamesOf(t)
        /\ NoFlags(ss) => rs = Declared(t, n)
  BY <1>1, <1>2, <1>3, DeinitializeIs
<1>5. /\ ScopedIn(u, f) = ScopedIn(t, f) /\ OpenTries(u, f) = OpenTries(t, f)
      /\ \A o \in Opened(f) : o[1] \in 1..Len(t) /\ u[o[1]] = t[o[1]]
  BY <1>1, <1>2, SameSets DEF Alike
<1>6. InnerScope(u, f, n) /\ Declared(u, n) = Declared(t, n)
  <2>1. InnerScope(u, f, n)
    BY <1>3, <1>5 DEF InnerScope
  <2>2. n \in 1..Len(t)
    <3>1. \E o \in Opened(f) : n = o[1]
      BY <1>3, Readings DEF InnerScope
    <3> QED BY <1>5, <3>1
  <2> QED BY <1>1, <2>1, <2>2, SameDeclared
<1>7. Top(f).node \in 1..Len(t) /\ u[Top(f).node].kind # "try"
  <2>1. <<Top(f).node, Top(f).slot>> \in Opened(f)
    BY <1>1, <1>2, Frames DEF Openings
  <2>2. Top(f).node \in 1..Len(t) /\ u[Top(f).node] = t[Top(f).node]
    BY <1>5, <2>1
  <2>3. t[Top(f).node].kind # "try"
    BY <1>2 DEF Stands, Belongs
  <2> QED BY <2>2, <2>3
<1> DEFINE names == NamesOf(u)
           T == Typing(u)
           block == Blk(L, "throw")
           s1 == <<Eval(Blk(L, "eval"))>>
           i == Br({block})
           s == s1 \o ReleaseAll(rs) \o <<i>>
           e == c ++ In(b, s)
           h == Held(t, c, b)  d == Gone(c, b)
           h2 == h \ rs  d2 == d \cup rs
           j == IF OpenIn(t, f, {"try"}) # {} THEN Br({Top(ps)}) ELSE Raise
           c2 == e ++ In(block, <<j>>)
<1>8. block \in names /\ Made(u, L) = {block} /\ block \in BlocksOf(u) /\ Blk(L, "eval") \in names
      /\ block[1] = L /\ block[2] # "pad"
  <2>1. block \in names /\ Blk(L, "eval") \in names
    BY <1>1, Names DEF Parts
  <2>2. Made(u, L) = {block}
    BY <1>1 DEF Made
  <2> QED BY <1>1, <2>1, <2>2 DEF BlocksOf, Blk
<1>9. HeldIn(u, block) = ScopeIn(u, TargetIn(u, L))
  BY <1>1 DEF HeldIn, Blk
<1>10. rs \in SUBSET names
  BY <1>1, <1>4, NamesGrow
<1>11. /\ s1 \in Seq(Instructions(names)) /\ ReleaseAll(rs) \in Seq(Instructions(names))
       /\ i \in Instructions(names) /\ <<i>> \in Seq(Instructions(names))
  <2>1. {block} \in SUBSET names
    BY <1>8
  <2>2. i \in Instructions(names) /\ <<i>> \in Seq(Instructions(names))
    BY <2>1, BranchNamed
  <2> HIDE DEF i
  <2> QED BY <1>8, <1>10, <2>2, EvalNamed, ReleaseNamed
<1>12. s \in Seq(Instructions(names)) /\ s # <<>>
  <2>1. s1 \o ReleaseAll(rs) \in Seq(Instructions(names))
    <3> HIDE DEF s1, names
    <3> QED BY <1>11
  <2> DEFINE p == s1 \o ReleaseAll(rs)
  <2>2. s = p \o <<i>>
    OBVIOUS
  <2> HIDE DEF i, names, p, s
  <2>3. p \o (<<>> \o <<i>>) # <<>> /\ p \o <<i>> # <<>>
    <3>1. p \in Seq(Instructions(names)) /\ <<>> \in Seq(Instructions(names))
      BY <2>1 DEF p
    <3> QED BY <1>11, <3>1, EndOf
  <2>4. p \o <<i>> \in Seq(Instructions(names))
    <3>1. p \in Seq(Instructions(names))
      BY <2>1 DEF p
    <3> QED BY <1>11, <3>1
  <2> QED BY <2>2, <2>3, <2>4
<1>13. ASSUME CaughtIn(u), WellBlocks(c), ~Terminated(c, b)
       PROVE  HeldIn(u, block) \subseteq h2 /\ (TidyIn(u) => h2 \subseteq HeldIn(u, block))
  <2>1. HeldAs(u, L, h)
    BY <1>1, <1>13
  <2>2. CASE TargetIn(u, L) = 0
    <3>1. HeldIn(u, block) = {}
      BY <1>1, <1>9, <2>2, Nowhere
    <3>2. TidyIn(u) => h2 = {}
      <4>1. SUFFICES ASSUME TidyIn(u) PROVE h2 = {}
        OBVIOUS
      <4>2. NoFlags(ss)
        BY <1>2, <1>13, <4>1, NoFlagsLeaf
      <4>3. ScopeIn(u, L) \subseteq Declared(u, n)
        BY <1>2, <1>6, <2>2, <4>1, LeftKept
      <4> QED BY <1>4, <1>6, <2>1, <4>1, <4>2, <4>3 DEF HeldAs
    <3> QED BY <3>1, <3>2
  <2>3. CASE TargetIn(u, L) # 0
    <3>1. OpenIn(t, f, {"try"}) # {}
      BY <1>13, <2>3, NoTryAround
    <3>2. PICK k : PadReached(u, f, ps, L, k)
      BY <1>13, <3>1, PadTarget
    <3>3. k \in OpenTries(u, f) /\ TargetIn(u, L) = k /\ <<k, 1>> \in Opened(f) /\ Keeps(u, k, 1) = {}
      BY <3>2 DEF PadReached
    <3>4. ScopeIn(u, k) \cap Declared(u, n) = {}
      BY <1>1, <1>2, <1>6, <1>7, <3>3, ThrownScope
    <3>5. ScopeIn(u, k) \subseteq ScopeIn(u, L)
      <4>1. ScopeIn(u, <<k, 1>>[1]) \cup Keeps(u, <<k, 1>>[1], <<k, 1>>[2]) \subseteq ScopeIn(u, L)
        BY <1>2, <3>3, ScopeWithin
      <4> QED BY <4>1
    <3>6. TidyIn(u) => h2 \subseteq ScopeIn(u, k)
      <4>1. SUFFICES ASSUME TidyIn(u) PROVE h2 \subseteq ScopeIn(u, k)
        OBVIOUS
      <4>2. NoFlags(ss)
        BY <1>2, <1>13, <4>1, NoFlagsLeaf
      <4>3. ScopeIn(u, L) \subseteq ScopeIn(u, k) \cup Declared(u, n)
        <5>1. \A o \in Opened(f) : TargetIn(u, L) = o[1] =>
                ScopeIn(u, L) \subseteq ScopeIn(u, o[1]) \cup Keeps(u, o[1], o[2]) \cup Declared(u, n)
          BY <1>2, <1>6, <4>1, LeftKept
        <5>2. TargetIn(u, L) = <<k, 1>>[1] =>
                ScopeIn(u, L) \subseteq ScopeIn(u, <<k, 1>>[1]) \cup Keeps(u, <<k, 1>>[1], <<k, 1>>[2]) \cup Declared(u, n)
          BY <3>3, <5>1
        <5> QED BY <3>3, <5>2
      <4> QED BY <1>4, <1>6, <2>1, <4>1, <4>2, <4>3 DEF HeldAs
    <3> QED BY <1>4, <1>6, <1>9, <2>1, <3>3, <3>4, <3>5, <3>6 DEF HeldAs
  <2> QED BY <2>2, <2>3
<1>14. CaughtIn(u) /\ WellBlocks(c) /\ ~Terminated(c, b) => Runs(names, T, s, h, d, h2, d2)
  <2>1. SUFFICES ASSUME CaughtIn(u), WellBlocks(c), ~Terminated(c, b) PROVE Runs(names, T, s, h, d, h2, d2)
    OBVIOUS
  <2>2. Runs(names, T, s1, h, d, h, d)
    BY <1>1, <2>1, EvalOf DEF Parts
  <2>3. Runs(names, T, ReleaseAll(rs), h, d, h2, d2)
    BY <1>10, Releasing
  <2>4. Runs(names, T, <<i>>, h2, d2, h2, d2)
    <3>1. {block} \in SUBSET BlocksOf(u) /\ {block} \subseteq NamesOf(u)
          /\ \A y \in {block} : HeldIn(u, y) \subseteq h2 /\ (TidyIn(u) => h2 \subseteq HeldIn(u, y))
      BY <1>8, <1>13, <2>1
    <3> HIDE DEF block, h2, d2
    <3> QED BY <3>1, RunBranch
  <2> HIDE DEF s1, T, names, h2, d2, h, d, i
  <2>5. Runs(names, T, s1 \o ReleaseAll(rs), h, d, h2, d2)
    BY <2>2, <2>3, RunBoth
  <2>6. Runs(names, T, s1 \o ReleaseAll(rs) \o <<i>>, h, d, h2, d2)
    BY <2>4, <2>5, RunBoth
  <2> QED BY <2>6
<1> HIDE DEF s, e, h2, d2, h, d
<1>15. Continued(u, c, b, s, h2, d2, e)
  <2>1. CaughtIn(u) /\ WellBlocks(c) /\ (s # <<>> => ~Terminated(c, b)) =>
          Runs(NamesOf(u), Typing(u), s, Held(t, c, b), Gone(c, b), h2, d2)
    BY <1>12, <1>14 DEF h, d
  <2> QED BY <1>1, <1>12, <2>1, Emits DEF e
<1>16. Fills(u, e, {}, {}, e) /\ Was(e, block) = <<>>
  <2>1. Fills(u, e, {}, {}, e) /\ \A y : y[1] = L => Was(e, y) = <<>>
    BY <1>1, <1>2, <1>15, Fresh
  <2> QED BY <1>8, <2>1
<1>17. j \in Instructions(names) /\ <<j>> \in Seq(Instructions(names)) /\ IsTerminator(j)
  <2>1. CASE OpenIn(t, f, {"try"}) # {}
    <3>1. Top(ps) \in names
      <4>1. ps \in Seq(NamesOf(t)) /\ ps # <<>>
        BY <1>2, <2>1 DEF PadsMatch
      <4>2. Top(ps) \in NamesOf(t)
        BY <4>1, TopAndPop
      <4> QED BY <1>1, <4>2, NamesGrow
    <3>2. {Top(ps)} \in SUBSET names
      BY <3>1
    <3>3. j = Br({Top(ps)})
      BY <2>1
    <3> QED BY <3>2, <3>3, BranchNamed
  <2>2. CASE OpenIn(t, f, {"try"}) = {}
    <3>1. j = Raise
      BY <2>2
    <3>2. Raise \in Instructions(names) /\ IsTerminator(Raise)
      BY DEF Raise, Instructions, IsTerminator
    <3> QED BY <3>1, <3>2
  <2> QED BY <2>1, <2>2
<1>18. CaughtIn(u) => /\ Runs(names, T, <<j>>, HeldIn(u, block), {}, HeldIn(u, block), {})
                      /\ Outward(u, f, j)
  <2>1. SUFFICES ASSUME CaughtIn(u) PROVE Runs(names, T, <<j>>, HeldIn(u, block), {}, HeldIn(u, block), {})
                                          /\ Outward(u, f, j)
    OBVIOUS
  <2>2. CASE OpenIn(t, f, {"try"}) # {}
    <3>1. PICK k : PadReached(u, f, ps, L, k)
      BY <2>1, <2>2, PadTarget
    <3>2. j = Br({Blk(k, "pad")})
      BY <2>2, <3>1 DEF PadReached
    <3>3. {Blk(k, "pad")} \in SUBSET BlocksOf(u) /\ {Blk(k, "pad")} \subseteq NamesOf(u)
          /\ \A y \in {Blk(k, "pad")} : HeldIn(u, y) \subseteq HeldIn(u, block)
                                        /\ (TidyIn(u) => HeldIn(u, block) \subseteq HeldIn(u, y))
      BY <1>9, <3>1 DEF PadReached
    <3>4. Runs(names, T, <<Br({Blk(k, "pad")})>>, HeldIn(u, block), {}, HeldIn(u, block), {})
      <4> DEFINE pad == Blk(k, "pad")
      <4> HIDE DEF pad, block
      <4>1. {pad} \in SUBSET BlocksOf(u) /\ {pad} \subseteq NamesOf(u)
            /\ \A y \in {pad} : HeldIn(u, y) \subseteq HeldIn(u, block)
                                        /\ (TidyIn(u) => HeldIn(u, block) \subseteq HeldIn(u, y))
        BY <3>3 DEF pad
      <4>2. Runs(names, T, <<Br({pad})>>, HeldIn(u, block), {}, HeldIn(u, block), {})
        BY <4>1, RunBranch
      <4> QED BY <4>2 DEF pad
    <3>5. Outward(u, f, j)
      <4>1. k \in OpenIn(u, f, Breakable \cup {"try"}) /\ Blk(k, "pad")[1] = k
        BY <3>1 DEF PadReached, Blk
      <4> QED BY <3>2, <4>1 DEF Outward, Br
    <3> QED BY <3>2, <3>4, <3>5
  <2>3. CASE OpenIn(t, f, {"try"}) = {}
    <3>1. HeldIn(u, block) = {}
      <4>1. TargetIn(u, L) = 0
        BY <2>1, <2>3, NoTryAround
      <4> QED BY <1>1, <1>9, <4>1, Nowhere
    <3>2. j = Raise /\ Raise.op # "br"
      BY <2>3 DEF Raise
    <3> QED BY <3>1, <3>2, Leaving DEF Outward
  <2> QED BY <2>2, <2>3
<1> HIDE DEF block, j, c2
<1>19. Fills(u, e, {block}, {block}, c2) /\ c2[block] = <<j>>
  <2>1. {} \cup {block} = {block} /\ block \notin {}
    OBVIOUS
  <2>2. FilledOne(u, e, {}, {}, block, <<j>>, c2)
    BY <1>8, <1>16, <1>17, <1>18, <2>1, FillOne DEF c2
  <2> QED BY <2>1, <2>2 DEF FilledOne
<1>20. Terminated(c2, block) /\ (CaughtIn(u) => PlaceIsRight(u, f, c2, block))
  <2>1. c2[block] # <<>> /\ Top(c2[block]) = j
    BY <1>19 DEF Top
  <2>2. Terminated(c2, block)
    BY <1>17, <2>1 DEF Terminated
  <2> QED BY <1>18, <2>1, <2>2 DEF PlaceIsRight, Outward
<1>21. Branched(u, f, ex, ls, bs, ps, c, b, c2, block)
  <2>1. Owned({block}, L) /\ block \in {block} /\ Made(u, L) \subseteq {block}
    BY <1>8 DEF Owned
  <2>2. x.kind \in LeafKinds \ {"closure"}
    BY DEF LeafKinds, JumpKinds
  <2> QED BY <1>12, <1>15, <1>19, <1>20, <2>1, <2>2, LeafBranches
<1>22. ScopesMatch(u, f, Deinitialized(ss), c2, block)
  <2>1. WellBlocks(c2) => WellBlocks(c) /\ ~Terminated(c, b)
    BY <1>21 DEF Branched
  <2> QED BY <1>2, <1>20, <2>1, ScopesFlagged
<1>23. Matches(u, f, ex, ls, bs, ps, Deinitialized(ss), c2, block)
  BY <1>21, <1>22 DEF Matches, Branched
<1> QED BY <1>4, <1>23 DEF c2, e, s, j, block

(* A call that is known to throw, inside a try statement.                  *)
LEMMA InvokeStep ==
  ASSUME NEW t, NEW f, NEW x, NEW u, NEW L, NEW ex, NEW ls, NEW bs, NEW ps, NEW ss, NEW c, NEW b,
         Ready(t, f, x, u, L, ex, ls, bs, ps, ss, c, b), x.kind = "call", "known" \in x.opts,
         OpenIn(t, f, {"try"}) # {}, ps # <<>>
  PROVE  Matches(u, f, ex, ls, bs, ps, ss,
                 c ++ In(b, <<Eval(Blk(L, "eval")), Br({Blk(L, "continue"), Top(ps)})>>)
                   ++ In(Blk(L, "continue"), <<>>), Blk(L, "continue"))
<1>1. Len(u) = L /\ L \in 1..Len(u) /\ u[L] = x /\ Grows(t, u) /\ Shaped(t) /\ Shaped(u)
      /\ CodeMatches(t, f, c, b) /\ b \in DOMAIN c
      /\ (CaughtIn(u) /\ WellBlocks(c) /\ ~Terminated(c, b) => HeldAs(u, L, Held(t, c, b)))
  BY Begins
<1>2. Stands(t, f, x, u) /\ L = Len(t) + 1 /\ Nested(t, f) /\ PadsMatch(t, f, ps, c, b)
  BY DEF Ready, Stands, Matches, Stacked
<1> DEFINE names == NamesOf(u)
           next == Blk(L, "continue")
           ev == Blk(L, "eval")
           ts == {next, Top(ps)}
           s == <<Eval(ev), Br(ts)>>
           e == c ++ In(b, s)
           h == Held(t, c, b)  d == Gone(c, b)
           c2 == e ++ In(next, <<>>)
<1>3. OpenIn(u, f, {"try"}) = OpenIn(t, f, {"try"})
  BY <1>1, <1>2, SameSets DEF Alike
<1>4. next \in names /\ ev \in names /\ next[1] = L /\ ev[1] = L /\ next[2] # "pad"
  BY <1>1, Names DEF Parts, Blk
<1>5. Made(u, L) = {next} /\ next \in BlocksOf(u)
  <2>1. Found(u, L, {"try"}) # {}
    <3>1. Found(u, L, {"try"}) = OpenIn(u, f, {"try"})
      BY <1>2, Standing
    <3> QED BY <1>3, <3>1
  <2>2. Made(u, L) = {next}
    BY <1>1, <2>1 DEF Made
  <2> QED BY <1>1, <2>2 DEF BlocksOf
<1>6. HeldIn(u, next) = ScopeIn(u, L)
  <2>1. HeldIn(u, Blk(L, "continue")) = ScopeIn(u, L) \cup OwnHeld(u, L, "continue")
    BY <1>1, HeldAre
  <2>2. OwnHeld(u, L, "continue") = {}
    BY <1>1 DEF OwnHeld
  <2> QED BY <2>1, <2>2
<1>7. ts \in SUBSET names
  <2>1. Top(ps) \in NamesOf(t)
    BY <1>2, TopAndPop DEF PadsMatch
  <2> QED BY <1>1, <1>4, <2>1, NamesGrow
<1> HIDE DEF next, ev, h, d
<1>8. CaughtIn(u) /\ WellBlocks(c) /\ ~Terminated(c, b) => Runs(names, Typing(u), s, h, d, h, d)
  <2>1. SUFFICES ASSUME CaughtIn(u), WellBlocks(c), ~Terminated(c, b) PROVE Runs(names, Typing(u), s, h, d, h, d)
    OBVIOUS
  <2>2. PICK k : PadReached(u, f, ps, L, k)
    BY <2>1, PadTarget
  <2>3. ScopeIn(u, k) \subseteq ScopeIn(u, L) /\ (TidyIn(u) => ScopeIn(u, L) \subseteq ScopeIn(u, k))
    <3>1. k \in OpenTries(u, f) /\ TargetIn(u, L) = k /\ <<k, 1>> \in Opened(f) /\ Keeps(u, k, 1) = {}
      BY <2>2 DEF PadReached
    <3>2. ScopeIn(u, <<k, 1>>[1]) \cup Keeps(u, <<k, 1>>[1], <<k, 1>>[2]) \subseteq ScopeIn(u, L)
      BY <1>2, <3>1, ScopeWithin
    <3>3. TidyIn(u) => ScopeIn(u, L) = ScopeIn(u, k)
      <4>1. SUFFICES ASSUME TidyIn(u) PROVE ScopeIn(u, L) = ScopeIn(u, k)
        OBVIOUS
      <4>2. x.kind \in (JumpKinds \cup {"call"}) \ {"return", "throw"}
        BY DEF JumpKinds
      <4>3. \A o \in Opened(f) : TargetIn(u, L) = o[1] =>
              ScopeIn(u, L) = ScopeIn(u, o[1]) \cup Keeps(u, o[1], o[2])
        BY <1>2, <4>1, <4>2, JumpClears
      <4>4. TargetIn(u, L) = <<k, 1>>[1] =>
              ScopeIn(u, L) = ScopeIn(u, <<k, 1>>[1]) \cup Keeps(u, <<k, 1>>[1], <<k, 1>>[2])
        BY <3>1, <4>3
      <4> QED BY <3>1, <4>4
    <3> QED BY <3>2, <3>3
  <2>4. HeldAs(u, L, h)
    BY <1>1, <2>1 DEF h
  <2>5. Top(ps) \in BlocksOf(u) /\ HeldIn(u, Top(ps)) = ScopeIn(u, k)
    BY <2>2 DEF PadReached
  <2>6. ts \in SUBSET BlocksOf(u) /\ ScopeIn(u, ev[1]) \subseteq h
        /\ \A y \in ts : HeldIn(u, y) \subseteq h /\ (TidyIn(u) => h \subseteq HeldIn(u, y))
    BY <1>4, <1>5, <1>6, <2>3, <2>4, <2>5 DEF HeldAs
  <2> HIDE DEF ts
  <2> QED BY <1>4, <1>7, <2>6, RunTest
<1>9. s \in Seq(Instructions(names)) /\ s # <<>>
  <2>1. Eval(ev) \in Instructions(names) /\ Br(ts) \in Instructions(names)
    BY <1>4, <1>7, EvalNamed, BranchNamed
  <2> QED BY <2>1
<1> HIDE DEF s, e
<1>10. Continued(u, c, b, s, h, d, e)
  <2>1. CaughtIn(u) /\ WellBlocks(c) /\ (s # <<>> => ~Terminated(c, b)) =>
          Runs(NamesOf(u), Typing(u), s, Held(t, c, b), Gone(c, b), h, d)
    BY <1>8, <1>9 DEF h, d
  <2> QED BY <1>1, <1>9, <2>1, Emits DEF e
<1>11. Fills(u, e, {}, {}, e) /\ Was(e, next) = <<>>
  <2>1. Fills(u, e, {}, {}, e) /\ \A y : y[1] = L => Was(e, y) = <<>>
    BY <1>1, <1>2, <1>10, Fresh
  <2> QED BY <1>4, <2>1
<1> HIDE DEF c2
<1>12. Fills(u, e, {}, {next}, c2) /\ c2[next] = <<>>
  <2>1. {} \cup {next} = {next} /\ next \notin {}
    OBVIOUS
  <2>2. Fills(u, e, {}, {} \cup {next}, c2) /\ c2[next] = <<>>
    BY <1>4, <1>11, <2>1, FillEmpty DEF c2
  <2> QED BY <2>1, <2>2
<1>13. PlaceIsRight(u, f, c2, next)
  <2>1. Now(u, f) = ScopeIn(u, L)
    BY <1>2, NowHere
  <2> QED BY <1>6, <1>12, <2>1, PlaceEmpty
<1>14. Branched(u, f, ex, ls, bs, ps, c, b, c2, next)
  <2>1. Owned({}, L) /\ Owned({next}, L) /\ next \in {next} /\ Made(u, L) \subseteq {next}
    BY <1>4, <1>5 DEF Owned
  <2>2. x.kind \in LeafKinds \ {"closure"}
    BY DEF LeafKinds
  <2> QED BY <1>9, <1>10, <1>12, <1>13, <2>1, <2>2, LeafBranches
<1>15. Matches(u, f, ex, ls, bs, ps, ss, c2, next)
  BY <1>14, BranchedMatches
<1> QED BY <1>15 DEF c2, e, s, next, ev

-----------------------------------------------------------------------------
(* A handler begins *)

Begun(t, f, x, u, L, slot, g) ==
  /\ Stands(t, f, x, u) /\ L = Len(t) + 1 /\ x.kind \notin LeafKinds
  /\ slot \in Nat /\ Fits(u, L, slot) /\ (x.kind = "try" => slot = 1)
  /\ g = Append(f, Frame(L, slot))

(* The handlers in progress where one has begun. *)
LEMMA Began ==
  ASSUME NEW t, NEW f, NEW x, NEW u, NEW L, NEW slot, NEW g, Begun(t, f, x, u, L, slot, g)
  PROVE  /\ Nested(u, g) /\ Enters(f, g, L, slot) /\ More(u, f, g, L, slot) /\ Top(g) = Frame(L, slot)
         /\ Now(u, g) = ScopeIn(u, L) \cup Keeps(u, L, slot)
         /\ \A c2, b2 : CatchBegins(u, g, c2, b2)
<1>1. /\ Nested(u, f) /\ Shaped(u) /\ Len(u) = L /\ L \in 1..Len(u) /\ u[L] = x
      /\ Path(u, L) = Opened(f) /\ ScopeIn(u, L) = Kept(u, Opened(f))
      /\ \A o \in Opened(f) : o[1] \in 1..(L - 1)
  BY Standing DEF Begun
<1>2. x.parent = Top(f).node /\ x.slot = Top(f).slot
  BY DEF Begun, Stands, Belongs
<1>3. \A o \in Opened(f) : o[1] < L
  BY <1>1
<1>4. slot \in Nat /\ u[L].kind \notin LeafKinds /\ Fits(u, L, slot) /\ g = Append(f, Frame(L, slot))
  BY <1>1 DEF Begun
<1>5. /\ Nested(u, g) /\ Opened(g) = Opened(f) \cup {<<L, slot>>} /\ Top(g) = Frame(L, slot)
  BY <1>1, <1>2, <1>3, <1>4, Entered
<1>6. Enters(f, g, L, slot)
  BY <1>5 DEF Enters
<1>7. More(u, f, g, L, slot)
  BY <1>6, MoreSets
<1>8. ~(u[Top(g).node].kind = "try" /\ Top(g).slot = 2) /\ Top(g).node = L
  BY <1>1, <1>5 DEF Begun, Frame
<1>9. Now(u, g) = ScopeIn(u, L) \cup Keeps(u, L, slot)
  BY <1>1, <1>7, <1>8 DEF Now, More
<1>10. \A c2, b2 : CatchBegins(u, g, c2, b2)
  BY <1>8 DEF CatchBegins
<1> QED BY <1>5, <1>6, <1>7, <1>9, <1>10

Pushed(cond, s, y) == IF cond THEN Append(s, y) ELSE s

(* The stacks where a handler has begun. *)
LEMMA OpenStacks ==
  ASSUME NEW t, NEW f, NEW x, NEW u, NEW L, NEW slot, NEW g, Begun(t, f, x, u, L, slot, g),
         NEW ex, NEW ls, NEW bs, NEW ps, NEW c, NEW b, Stacked(t, f, ex, ls, bs, ps, c, b),
         NEW c2, NEW b2, Touched(c, b, c2, b2, L),
         x.kind = "try" => Blk(L, "pad") \in DOMAIN c2 /\ Was(c2, Blk(L, "pad")) = <<>> /\ Blk(L, "pad") # b2
  PROVE  Stacked(u, g, Pushed(x.kind \in Breakable, ex, Blk(L, "exiting")),
                 Pushed(x.kind \in LoopKinds, ls, Blk(L, "latch")), Pushed(x.kind = "for", bs, L),
                 Pushed(x.kind = "try", ps, Blk(L, "pad")), c2, b2)
<1>1. /\ Grows(t, u) /\ Shaped(u) /\ Len(u) = L /\ L \in 1..Len(u) /\ u[L] = x /\ L = Len(t) + 1
      /\ \A o \in Opened(f) : o[1] \in 1..(L - 1) /\ o[1] \in 1..Len(t) /\ u[o[1]] = t[o[1]]
  BY Standing DEF Begun
<1>2. Nested(t, f) /\ Len(t) \in Nat
  <2>1. Nested(t, f)
    BY DEF Begun, Stands
  <2>2. Len(t) \in Nat
    BY <1>1, NamesGrow
  <2> QED BY <2>1, <2>2
<1>3. \A kinds : OpenIn(u, f, kinds) = OpenIn(t, f, kinds)
  BY <1>1, <1>2, SameSets DEF Alike
<1>4. OpenTries(u, f) = OpenTries(t, f)
  BY <1>1, <1>2, SameSets DEF Alike
<1>5. More(u, f, g, L, slot)
  BY Began
<1>6. \A m \in 1..Len(u) : m = L \/ m \in 1..Len(t)
  BY <1>1, <1>2
<1>7. ExitsMatch(u, g, Pushed(x.kind \in Breakable, ex, Blk(L, "exiting")))
  <2>1. ExitsMatch(t, f, ex)
    BY DEF Stacked
  <2>2. CASE x.kind \in Breakable
    <3>1. OpenIn(u, g, Breakable) = OpenIn(u, f, Breakable) \cup {L}
      BY <1>1, <1>5, <2>2 DEF More
    <3>2. OpenIn(u, g, Breakable) = OpenIn(t, f, Breakable) \cup {L}
      BY <1>3, <3>1
    <3>3. OpenIn(t, f, Breakable) \subseteq 1..Len(t)
      BY <1>1 DEF OpenIn
    <3>4. ExitsMatch(u, g, Append(ex, Blk(L, "exiting")))
      BY <1>1, <2>1, <3>2, <3>3, ExitsPush
    <3> QED BY <2>2, <3>4 DEF Pushed
  <2>3. CASE x.kind \notin Breakable
    <3>1. OpenIn(u, g, Breakable) = OpenIn(u, f, Breakable)
      BY <1>1, <1>5, <2>3 DEF More
    <3>2. OpenIn(u, g, Breakable) = OpenIn(t, f, Breakable)
      BY <1>3, <3>1
    <3>3. \A m \in 1..Len(u) : u[m].kind \in LeavesExit => m \in 1..Len(t)
      BY <1>1, <1>6, <2>3 DEF Breakable, LeavesExit, Begun, LeafKinds
    <3>4. ExitsMatch(u, g, ex)
      BY <1>1, <2>1, <3>2, <3>3, ExitsKept
    <3> QED BY <2>3, <3>4 DEF Pushed
  <2> QED BY <2>2, <2>3
<1>8. LatchesMatch(u, Pushed(x.kind \in LoopKinds, ls, Blk(L, "latch")))
  <2>1. LatchesMatch(t, ls)
    BY DEF Stacked
  <2>2. CASE x.kind \in LoopKinds
    <3>1. LatchesMatch(u, Append(ls, Blk(L, "latch")))
      BY <1>1, <2>1, <2>2, LatchesPush
    <3> QED BY <2>2, <3>1 DEF Pushed
  <2>3. CASE x.kind \notin LoopKinds
    <3>1. \A m \in 1..Len(u) : u[m].kind \in LoopKinds => m \in 1..Len(t)
      BY <1>1, <1>6, <2>3
    <3>2. LatchesMatch(u, ls)
      BY <1>1, <2>1, <3>1, LatchesKept
    <3> QED BY <2>3, <3>2 DEF Pushed
  <2> QED BY <2>2, <2>3
<1>9. BodyExitsMatch(u, g, Pushed(x.kind = "for", bs, L))
  <2>1. BodyExitsMatch(t, f, bs)
    BY DEF Stacked
  <2>2. CASE x.kind = "for"
    <3>1. OpenIn(u, g, {"for"}) = OpenIn(u, f, {"for"}) \cup {L}
      BY <1>1, <1>5, <2>2 DEF More
    <3>2. OpenIn(u, g, {"for"}) = OpenIn(t, f, {"for"}) \cup {L}
      BY <1>3, <3>1
    <3>3. BodyExitsMatch(u, g, Append(bs, L))
      BY <1>1, <2>1, <3>2, BodyExitsPush
    <3> QED BY <2>2, <3>3 DEF Pushed
  <2>3. CASE x.kind # "for"
    <3>1. OpenIn(u, g, {"for"}) = OpenIn(u, f, {"for"})
      BY <1>1, <1>5, <2>3 DEF More
    <3>2. OpenIn(u, g, {"for"}) = OpenIn(t, f, {"for"})
      BY <1>3, <3>1
    <3>3. BodyExitsMatch(u, g, bs)
      BY <1>1, <2>1, <3>2, BodyExitsKept
    <3> QED BY <2>3, <3>3 DEF Pushed
  <2> QED BY <2>2, <2>3
<1>10. PadsMatch(u, g, Pushed(x.kind = "try", ps, Blk(L, "pad")), c2, b2)
  <2>1. PadsMatch(t, f, ps, c, b)
    BY DEF Stacked
  <2>2. CASE x.kind = "try"
    <3>1. OpenTries(u, g) = OpenTries(t, f) \cup {L}
      BY <1>1, <1>4, <1>5, <2>2 DEF More, Begun
    <3>2. PadsMatch(u, g, Append(ps, Blk(L, "pad")), c2, b2)
      BY <1>1, <2>1, <2>2, <3>1, PadsPush
    <3> QED BY <2>2, <3>2 DEF Pushed
  <2>3. CASE x.kind # "try"
    <3>1. OpenTries(u, g) = OpenTries(t, f)
      BY <1>1, <1>4, <1>5, <2>3 DEF More
    <3>2. \A m \in 1..Len(u) : u[m].kind = "try" => m \in 1..Len(t)
      BY <1>1, <1>6, <2>3
    <3>3. PadsMatch(u, g, ps, c2, b2)
      BY <1>1, <2>1, <3>1, <3>2, PadsKept
    <3> QED BY <2>3, <3>3 DEF Pushed
  <2> QED BY <2>2, <2>3
<1> QED BY <1>7, <1>8, <1>9, <1>10 DEF Stacked

(* The code where a handler has begun. *)
LEMMA OpenCode ==
  ASSUME NEW t, NEW f, NEW x, NEW u, NEW L, NEW slot, NEW g, Begun(t, f, x, u, L, slot, g),
         NEW c, NEW b, CodeMatches(t, f, c, b),
         NEW c2, NEW b2, Touched(c, b, c2, b2, L), Written(NamesOf(u), Typing(u), c2),
         Made(u, L) \subseteq DOMAIN c2 \cup Reserved(u, L, slot), Ahead(u, L) \subseteq DOMAIN c2,
         \A y \in Reserved(u, L, slot) : y # b2 /\ Was(c2, y) = <<>>,
         CaughtIn(u) /\ WellBlocks(c2) => PlaceIsRight(u, g, c2, b2)
  PROVE  CodeMatches(u, g, c2, b2)
<1>1. /\ Grows(t, u) /\ Len(u) = L /\ L = Len(t) + 1 /\ \A o \in Opened(f) : o[1] \in 1..(L - 1)
  BY Standing DEF Begun
<1>2. Nested(t, f)
  BY DEF Begun, Stands
<1>3. Expected(u, f) = Expected(t, f)
  BY <1>1, <1>2, SameSets DEF Alike
<1>4. Expected(u, g) = Expected(t, f) \cup Reserved(u, L, slot)
  BY <1>3, Began DEF More
<1>5. \A y \in Expected(t, f) : y[1] # L
  <2> SUFFICES ASSUME NEW y \in Expected(t, f) PROVE y[1] # L
    OBVIOUS
  <2>1. PICK o \in Opened(f) : y[1] = o[1]
    BY ExpectedOwn
  <2>2. o[1] \in 1..(L - 1) /\ L \in Nat
    <3>1. L \in Nat
      BY <1>1, NamesGrow
    <3> QED BY <1>1, <3>1
  <2> QED BY <2>1, <2>2
<1>6. BlocksOf(u) = BlocksOf(t) \cup Made(u, L)
  BY <1>1, BlocksMore
<1>7. Settled(t, u, f, g, c2, b2, L, Expected(t, f), Reserved(u, L, slot))
  BY <1>4, <1>5, <1>6 DEF Settled
<1>8. CatchBegins(u, g, c2, b2)
  BY Began
<1>9. Built(u, g, c2)
  <2>1. \A o \in Opened(f) : u[o[1]] = t[o[1]]
    BY Standing DEF Begun
  <2>2. Enters(f, g, L, slot)
    BY Began
  <2>3. \A o \in Opened(g) : o \in Opened(f) \/ (o[1] = L /\ o[2] = slot)
    BY <2>2 DEF Enters
  <2>4. u[L].kind = "try" => slot = 1
    BY Standing DEF Begun
  <2>5. \A o : o[1] = L /\ o[2] = slot => AfterTry(u, o, c2)
    BY <2>4 DEF AfterTry
  <2> QED BY <2>1, <2>3, <2>5, BuiltKept
<1> QED BY <1>7, <1>8, <1>9, CodeFrame

(* A statement other than a block: it has written s where the compiler     *)
(* stood, filled blocks of its own, and goes on in one of them.            *)
Opens(u, g, x, L, ex, ls, bs, ps, ss, c2, b2) ==
  Matches(u, g, Pushed(x.kind \in Breakable, ex, Blk(L, "exiting")),
          Pushed(x.kind \in LoopKinds, ls, Blk(L, "latch")), Pushed(x.kind = "for", bs, L),
          Pushed(x.kind = "try", ps, Blk(L, "pad")), Pushed(Scoped(u, L), ss, Scope(Declared(u, L))), c2, b2)

Prepared(u, g, L, slot, e, F, D, c2, b2) ==
  /\ Fills(u, e, F, D, c2) /\ Owned(F, L) /\ b2 \in D /\ Owned({b2}, L)
  /\ Made(u, L) \subseteq D \cup Reserved(u, L, slot)
  /\ \A y \in Reserved(u, L, slot) : y # b2 /\ y \notin F
  /\ Ahead(u, L) \subseteq D
  /\ u[L].kind = "try" => Blk(L, "pad") \in D
  /\ CaughtIn(u) /\ WellBlocks(c2) => PlaceIsRight(u, g, c2, b2)

(* A handler begins, on the whole. *)
LEMMA Opening ==
  ASSUME NEW t, NEW f, NEW x, NEW u, NEW L, NEW ex, NEW ls, NEW bs, NEW ps, NEW ss, NEW c, NEW b,
         Ready(t, f, x, u, L, ex, ls, bs, ps, ss, c, b), x.kind # "block",
         NEW slot, NEW g, Begun(t, f, x, u, L, slot, g),
         NEW s, s # <<>>, NEW h, NEW d, NEW e, Continued(u, c, b, s, h, d, e),
         NEW F, NEW D, NEW c2, NEW b2, Prepared(u, g, L, slot, e, F, D, c2, b2)
  PROVE  Opens(u, g, x, L, ex, ls, bs, ps, ss, c2, b2)
<1>0. /\ Fills(u, e, F, D, c2) /\ Owned(F, L) /\ b2 \in D /\ Owned({b2}, L)
      /\ Made(u, L) \subseteq D \cup Reserved(u, L, slot)
      /\ \A y \in Reserved(u, L, slot) : y # b2 /\ y \notin F
      /\ Ahead(u, L) \subseteq D
      /\ x.kind = "try" => Blk(L, "pad") \in D
      /\ CaughtIn(u) /\ WellBlocks(c2) => PlaceIsRight(u, g, c2, b2)
  <2>1. u[L] = x
    BY Begins
  <2> QED BY <2>1 DEF Prepared
<1>1. /\ Grows(t, u) /\ CodeMatches(t, f, c, b) /\ Len(u) = L /\ u[L] = x /\ Shaped(t)
      /\ Shaped(u) /\ L \in 1..Len(u)
  BY Begins
<1>2. Stands(t, f, x, u) /\ L = Len(t) + 1 /\ Stacked(t, f, ex, ls, bs, ps, c, b) /\
      ScopesMatch(t, f, ss, c, b) /\ Nested(t, f)
  BY DEF Ready, Matches, Stands
<1>3. Only(c, b, e) /\ (WellBlocks(e) => WellBlocks(c) /\ ~Terminated(c, b))
  BY DEF Continued
<1>4. DOMAIN c2 = DOMAIN e \cup D /\ (WellBlocks(c2) => WellBlocks(e)) /\ Written(NamesOf(u), Typing(u), c2)
      /\ \A y : y \notin F => Was(c2, y) = Was(e, y)
  BY <1>0 DEF Fills
<1>5. Touched(c, b, c2, b2, L)
  <2>1. \A y \in F : y[1] = L /\ y[2] # "pad"
    BY <1>0 DEF Owned
  <2>2. b2 \in DOMAIN c2 /\ b2[1] = L /\ b2[2] # "pad"
    BY <1>0, <1>4 DEF Owned
  <2> QED BY <1>0, <1>3, <2>1, <2>2, TouchedBy
<1>6. \A y : y[1] = L => Was(e, y) = <<>>
  BY <1>1, <1>2, Fresh
<1>7. \A y \in Reserved(u, L, slot) : y # b2 /\ Was(c2, y) = <<>>
  <2> SUFFICES ASSUME NEW y \in Reserved(u, L, slot) PROVE y # b2 /\ Was(c2, y) = <<>>
    OBVIOUS
  <2>1. y[1] = L
    BY ReservedOwn
  <2> QED BY <1>0, <1>4, <1>6, <2>1
<1>8. CodeMatches(u, g, c2, b2)
  <2>1. Made(u, L) \subseteq DOMAIN c2 \cup Reserved(u, L, slot) /\ Ahead(u, L) \subseteq DOMAIN c2
    BY <1>0, <1>4
  <2> QED BY <1>0, <1>1, <1>4, <1>5, <1>7, <2>1, OpenCode
<1>9. x.kind = "try" => Blk(L, "pad") \in DOMAIN c2 /\ Was(c2, Blk(L, "pad")) = <<>> /\ Blk(L, "pad") # b2
  <2>1. Blk(L, "pad")[1] = L /\ Blk(L, "pad")[2] = "pad"
    BY DEF Blk
  <2>2. Blk(L, "pad") \notin F /\ Blk(L, "pad") # b2
    BY <1>0, <2>1 DEF Owned
  <2> QED BY <1>0, <1>4, <1>6, <2>1, <2>2
<1>10. Stacked(u, g, Pushed(x.kind \in Breakable, ex, Blk(L, "exiting")),
               Pushed(x.kind \in LoopKinds, ls, Blk(L, "latch")), Pushed(x.kind = "for", bs, L),
               Pushed(x.kind = "try", ps, Blk(L, "pad")), c2, b2)
  BY <1>2, <1>5, <1>9, OpenStacks
<1>11. Good(u, c2) => Good(t, c) /\ NoFlags(ss)
  <2>1. Good(u, c2) => Good(t, c) /\ ~Terminated(c, b)
    BY <1>1, <1>3, <1>4, SameMatching DEF Good
  <2> QED BY <1>1, <1>2, <2>1, NoFlagsHere
<1>12. Enters(f, g, L, slot) /\ More(u, f, g, L, slot)
  BY Began
<1>13. ScopesMatch(u, g, Pushed(Scoped(u, L), ss, Scope(Declared(u, L))), c2, b2)
  <2>1. CASE Scoped(u, L)
    <3>1. ScopesMatch(u, g, Append(ss, Scope(Declared(u, L))), c2, b2)
      <4>1. Declared(u, L) \subseteq NamesOf(u)
        BY <1>1, DeclaredNames
      <4> QED BY <1>1, <1>2, <1>11, <1>12, <2>1, <4>1, ScopesPush
    <3> QED BY <2>1, <3>1 DEF Pushed
  <2>2. CASE ~Scoped(u, L)
    <3>1. ScopedIn(u, f) = ScopedIn(t, f) /\ \A o \in Opened(f) : u[o[1]] = t[o[1]]
      BY <1>1, <1>2, SameSets DEF Alike
    <3>2. ScopedIn(u, g) = ScopedIn(t, f)
      BY <1>12, <2>2, <3>1 DEF More
    <3>3. ScopesMatch(u, g, ss, c2, b2)
      BY <1>1, <1>2, <1>11, <3>1, <3>2, ScopesKept
    <3> QED BY <2>2, <3>3 DEF Pushed
  <2> QED BY <2>1, <2>2
<1> QED BY <1>8, <1>10, <1>13 DEF Matches, Opens

(* What the block of a catch clause takes where it begins, and what a      *)
(* block declares.                                                         *)
CaughtHere(t, f) == IF t[Top(f).node].kind = "try" /\ Top(f).slot = 2 THEN {Blk(Top(f).node, "caught")} ELSE {}
VariableHere(t, f) ==
  IF CaughtHere(t, f) # {} /\ "var" \in t[Top(f).node].opts THEN {Blk(Top(f).node, "e")} ELSE {}
Local(x, L) == IF x.decl THEN {Blk(L, "local")} ELSE {}
NoneYet(t, f) ==
  t[Top(f).node].kind = "try" => ~\E m \in 1..Len(t) : t[m].parent = Top(f).node /\ t[m].slot = Top(f).slot

(* The resources a block takes are not held yet, and with them all is held *)
(* that its statements may use.                                            *)
LEMMA BlockTakes ==
  ASSUME NEW t, NEW f, NEW x, NEW u, NEW L, NEW ex, NEW ls, NEW bs, NEW ps, NEW ss, NEW c, NEW b,
         Ready(t, f, x, u, L, ex, ls, bs, ps, ss, c, b), NoneYet(t, f), CaughtIn(u),
         NEW h, NEW d, h = Held(t, c, b), d = Gone(c, b),
         NEW taken, taken = CaughtHere(t, f) \cup VariableHere(t, f)
  PROVE  /\ taken \cap (h \cup d) = {} /\ Local(x, L) \cap ((h \cup taken) \cup d) = {}
         /\ Now(t, f) \cup taken = ScopeIn(u, L)
         /\ taken \subseteq NamesOf(t)
<1>1. Stands(t, f, x, u) /\ L = Len(t) + 1 /\ CodeMatches(t, f, c, b) /\ Shaped(t) /\ Nested(t, f) /\ b \in DOMAIN c
  BY DEF Ready, Stands, Matches, CodeMatches
<1>2. Grows(t, u) /\ ScopeIn(u, L) = Kept(u, Opened(f)) /\ Openings(u, Opened(f), Top(f).node, Top(f).slot)
      /\ \A o \in Opened(f) : o[1] \in 1..Len(t) /\ u[o[1]] = t[o[1]]
  BY <1>1, Standing
<1>3. ScopeIn(u, L) = Kept(t, Opened(f))
  BY <1>1, <1>2, SameSets
<1>4. Openings(t, Opened(f), Top(f).node, Top(f).slot)
  BY <1>1, Frames
<1> DEFINE n == Top(f).node
<1>5. Kept(t, Opened(f)) = ScopeIn(t, n) \cup Keeps(t, n, Top(f).slot)
  <2> DEFINE O == Opened(f)  slot == Top(f).slot
  <2>1. Openings(t, O, n, slot)
    BY <1>4
  <2> HIDE DEF O, slot, n
  <2>2. KeptInside(t, O, n, slot)
    BY <2>1, OpenScopes
  <2> QED BY <2>2 DEF KeptInside, O, slot
<1>6. n \in 1..Len(t)
  BY <1>4 DEF Openings
<1>7. Named(NamesOf(t), c)
  BY <1>1 DEF CodeMatches, Written
<1>8. h \subseteq NamesOf(t) /\ d \subseteq NamesOf(t) /\ b \in NamesOf(t)
  BY <1>1, <1>7, HeldHere
<1>9. taken \subseteq NamesOf(t)
  <2>1. Blk(n, "caught") \in NamesOf(t) /\ Blk(n, "e") \in NamesOf(t)
    BY <1>6, Names DEF Parts
  <2> QED BY <2>1 DEF CaughtHere, VariableHere
<1>10. Local(x, L) \cap ((h \cup taken) \cup d) = {}
  <2>1. L \in Int /\ L \notin 1..Len(t)
    BY <1>1, <1>2, NamesGrow
  <2>2. Blk(L, "local") \notin h \cup taken \cup d
    <3>1. h \cup taken \cup d \in SUBSET NamesOf(t)
      BY <1>8, <1>9
    <3> QED BY <2>1, <3>1, NothingOf
  <2> QED BY <2>2 DEF Local
<1>11. CASE CaughtHere(t, f) = {}
  <2>1. ~(t[n].kind = "try" /\ Top(f).slot = 2)
    BY <1>11 DEF CaughtHere
  <2>2. taken = {}
    BY <1>11 DEF VariableHere
  <2>3. Now(t, f) = Kept(t, Opened(f))
    BY <2>1 DEF Now
  <2> QED BY <1>3, <1>9, <1>10, <2>2, <2>3
<1>12. CASE CaughtHere(t, f) # {}
  <2>1. t[n].kind = "try" /\ Top(f).slot = 2
    BY <1>12 DEF CaughtHere
  <2>2. ~\E m \in 1..Len(t) : t[m].parent = n /\ t[m].slot = 2
    BY <2>1 DEF NoneYet
  <2>3. taken = {Blk(n, "caught")} \cup (IF "var" \in t[n].opts THEN {Blk(n, "e")} ELSE {})
    BY <2>1 DEF CaughtHere, VariableHere
  <2>4. Keeps(t, n, Top(f).slot) = taken
    BY <2>1, <2>3 DEF Keeps
  <2>5. Now(t, f) = ScopeIn(t, n)
    BY <2>1, <2>2 DEF Now
  <2>6. b = Blk(n, "pad") /\ c[b] = <<>>
    <3>1. CaughtIn(t)
      BY <1>2, SameMatching
    <3> QED BY <1>1, <2>1, <2>2, <3>1 DEF CodeMatches, CatchBegins
  <2>7. h = ScopeIn(t, n) /\ d = {}
    <3>1. h = HeldIn(t, b) /\ d = {}
      BY <2>6 DEF Held, Gone, After, Dropped, Before, Gains, Drops
    <3>2. HeldIn(t, b) = ScopeIn(t, n) \cup OwnHeld(t, n, "pad")
      BY <2>1, <2>6, HeldAre
    <3>3. OwnHeld(t, n, "pad") = {}
      BY <2>1 DEF OwnHeld
    <3> QED BY <3>1, <3>2, <3>3
  <2>8. \A r \in ScopeIn(t, n) : r[1] \in 1..(n - 1)
    <3>1. n \in 0..Len(t)
      BY <1>6
    <3> QED BY <1>1, <3>1, ScopeBelow
  <2>9. \A r \in taken : r[1] = n
    BY <2>3 DEF Blk
  <2>10. taken \cap ScopeIn(t, n) = {}
    BY <1>6, <2>8, <2>9
  <2> QED BY <1>3, <1>5, <1>9, <1>10, <2>4, <2>5, <2>7, <2>10
<1> QED BY <1>11, <1>12

(* Acquiring names of the program. *)
LEMMA AcquireNamed ==
  ASSUME NEW names, NEW rs \in SUBSET names
  PROVE  AcquireAll(rs) \in Seq(Instructions(names))
<1>1. [op |-> "acquire", res |-> rs] \in Instructions(names)
  BY DEF Instructions
<1> QED BY <1>1 DEF AcquireAll

(* A sequence of acquisitions ends in none but an acquisition.             *)
Taking(p, r1, r2, s) ==
  /\ s = <<>> <=> r1 = {} /\ r2 = {}
  /\ s # <<>> => p \o s # <<>> /\ ~IsTerminator(Top(p \o s))
  /\ s = <<>> => p \o s = p

(* Acquiring at the end of a block. *)
LEMMA TakesEnd ==
  ASSUME NEW names, NEW p \in Seq(Instructions(names)), NEW r1 \in SUBSET names, NEW r2 \in SUBSET names,
         NEW s, s = AcquireAll(r1) \o AcquireAll(r2)
  PROVE  Taking(p, r1, r2, s)
<1> DEFINE S == Instructions(names)
           a1 == [op |-> "acquire", res |-> r1]  a2 == [op |-> "acquire", res |-> r2]
<1>1. a1 \in S /\ a2 \in S /\ ~IsTerminator(a1) /\ ~IsTerminator(a2)
  BY DEF Instructions, IsTerminator
<1>2. AcquireAll(r1) = (IF r1 = {} THEN <<>> ELSE <<a1>>) /\ AcquireAll(r2) = (IF r2 = {} THEN <<>> ELSE <<a2>>)
  BY DEF AcquireAll
<1> HIDE DEF S, a1, a2
<1>3. CASE r1 = {} /\ r2 = {}
  <2>1. s = <<>>
    BY <1>2, <1>3
  <2>2. p \o <<>> = p
    BY DEF S
  <2> QED BY <1>3, <2>1, <2>2 DEF Taking
<1>4. CASE r2 # {}
  <2>1. PICK q \in Seq(S) : s = q \o <<a2>>
    <3>1. AcquireAll(r1) \in Seq(S) /\ s = AcquireAll(r1) \o <<a2>>
      BY <1>1, <1>2, <1>4
    <3> QED BY <3>1
  <2>2. p \o (q \o <<a2>>) # <<>> /\ Top(p \o (q \o <<a2>>)) = a2 /\ q \o <<a2>> # <<>>
    BY <1>1, <2>1, EndOf DEF S
  <2> QED BY <1>1, <1>4, <2>1, <2>2 DEF Taking
<1>5. CASE r1 # {} /\ r2 = {}
  <2>1. s = <<a1>>
    BY <1>1, <1>2, <1>5
  <2>2. p \o <<a1>> # <<>> /\ Top(p \o <<a1>>) = a1 /\ <<a1>> # <<>>
    BY <1>1, EndOf DEF S
  <2> QED BY <1>1, <1>5, <2>1, <2>2 DEF Taking
<1> QED BY <1>3, <1>4, <1>5 DEF Taking

(* A block begins and roots what it declares. *)
LEMMA OpenBlockStep ==
  ASSUME NEW t, NEW f, NEW x, NEW u, NEW L, NEW ex, NEW ls, NEW bs, NEW ps, NEW ss, NEW c, NEW b,
         Ready(t, f, x, u, L, ex, ls, bs, ps, ss, c, b), x.kind = "block", NoneYet(t, f),
         NEW g, g = Append(f, Frame(L, 1))
  PROVE  Matches(u, g, ex, ls, bs, ps, Append(ss, Scope(VariableHere(t, f) \cup Local(x, L))),
                 c ++ In(b, AcquireAll(CaughtHere(t, f) \cup VariableHere(t, f)) \o AcquireAll(Local(x, L))), b)
<1>1. Stands(t, f, x, u) /\ L = Len(t) + 1 /\ CodeMatches(t, f, c, b) /\ Shaped(t) /\ Nested(t, f) /\ b \in DOMAIN c
      /\ Stacked(t, f, ex, ls, bs, ps, c, b) /\ ScopesMatch(t, f, ss, c, b)
  BY DEF Ready, Stands, Matches, CodeMatches
<1>2. Grows(t, u) /\ Len(u) = L /\ L \in 1..Len(u) /\ u[L] = x /\ Shaped(u)
      /\ Openings(t, Opened(f), Top(f).node, Top(f).slot) /\ ScopeIn(u, L) = Kept(u, Opened(f))
      /\ \A o \in Opened(f) : u[o[1]] = t[o[1]]
  BY <1>1, Standing, Frames
<1>3. Begun(t, f, x, u, L, 1, g)
  <2>1. x.kind \notin LeafKinds /\ Fits(u, L, 1)
    BY <1>2 DEF LeafKinds, JumpKinds, Fits
  <2> QED BY <1>1, <2>1 DEF Begun
<1> DEFINE taken == CaughtHere(t, f) \cup VariableHere(t, f)
           loc == Local(x, L)
           s == AcquireAll(taken) \o AcquireAll(loc)
           h == Held(t, c, b)  d == Gone(c, b)
           h2 == (h \cup taken) \cup loc
           c2 == c ++ In(b, s)
<1>4. taken \in SUBSET NamesOf(u) /\ loc \in SUBSET NamesOf(u) /\ NamesOf(t) \subseteq NamesOf(u)
  <2>1. Top(f).node \in 1..Len(t)
    BY <1>2 DEF Openings
  <2>2. Blk(Top(f).node, "caught") \in NamesOf(t) /\ Blk(Top(f).node, "e") \in NamesOf(t) /\
        Blk(L, "local") \in NamesOf(u)
    BY <1>2, <2>1, Names DEF Parts
  <2>3. NamesOf(t) \subseteq NamesOf(u)
    BY <1>2, NamesGrow
  <2> QED BY <2>2, <2>3 DEF CaughtHere, VariableHere, Local
<1>5. s \in Seq(Instructions(NamesOf(u)))
  <2>1. AcquireAll(taken) \in Seq(Instructions(NamesOf(u))) /\ AcquireAll(loc) \in Seq(Instructions(NamesOf(u)))
    BY <1>4, AcquireNamed
  <2> HIDE DEF taken, loc
  <2> QED BY <2>1
<1>6. CaughtIn(u) => /\ taken \cap (h \cup d) = {} /\ loc \cap ((h \cup taken) \cup d) = {}
                     /\ Now(t, f) \cup taken = ScopeIn(u, L)
  <2>1. SUFFICES ASSUME CaughtIn(u)
                 PROVE  /\ taken \cap (h \cup d) = {} /\ loc \cap ((h \cup taken) \cup d) = {}
                        /\ Now(t, f) \cup taken = ScopeIn(u, L)
    OBVIOUS
  <2>2. h = Held(t, c, b) /\ d = Gone(c, b) /\ taken = CaughtHere(t, f) \cup VariableHere(t, f)
    OBVIOUS
  <2> HIDE DEF h, d, taken
  <2>3. /\ taken \cap (h \cup d) = {} /\ Local(x, L) \cap ((h \cup taken) \cup d) = {}
        /\ Now(t, f) \cup taken = ScopeIn(u, L)
        /\ taken \subseteq NamesOf(t)
    BY <2>1, <2>2, BlockTakes
  <2> QED BY <2>3
<1> HIDE DEF taken, loc, h, d
<1>7. CaughtIn(u) => Runs(NamesOf(u), Typing(u), s, h, d, h2, d)
  <2>1. SUFFICES ASSUME CaughtIn(u) PROVE Runs(NamesOf(u), Typing(u), s, h, d, h2, d)
    OBVIOUS
  <2>2. Runs(NamesOf(u), Typing(u), AcquireAll(taken), h, d, h \cup taken, d)
    BY <1>4, <1>6, <2>1, Acquiring
  <2>3. Runs(NamesOf(u), Typing(u), AcquireAll(loc), h \cup taken, d, h2, d)
    BY <1>4, <1>6, <2>1, Acquiring
  <2> HIDE DEF h2
  <2> QED BY <2>2, <2>3, RunBoth
<1> HIDE DEF s, h2, c2
<1>8. Continued(u, c, b, s, h2, d, c2)
  <2>1. CaughtIn(u) /\ WellBlocks(c) /\ (s # <<>> => ~Terminated(c, b)) =>
          Runs(NamesOf(u), Typing(u), s, Held(t, c, b), Gone(c, b), h2, d)
    BY <1>7 DEF h, d
  <2> QED BY <1>1, <1>2, <1>5, <2>1, Emits DEF c2
<1>9. /\ Written(NamesOf(u), Typing(u), c2) /\ Only(c, b, c2) /\ b \in DOMAIN c2
      /\ c2[b] = c[b] \o s /\ c[b] \in Seq(Instructions(NamesOf(u)))
      /\ (WellBlocks(c2) => WellBlocks(c) /\ (s # <<>> => ~Terminated(c, b)))
      /\ (CaughtIn(u) /\ WellBlocks(c2) => Held(u, c2, b) = h2)
  BY <1>8 DEF Continued
<1>10. /\ s = <<>> <=> taken = {} /\ loc = {}
       /\ s # <<>> => c2[b] # <<>> /\ ~IsTerminator(Top(c2[b]))
       /\ s = <<>> => c2[b] = c[b]
  <2>1. s = AcquireAll(taken) \o AcquireAll(loc)
    BY DEF s
  <2>2. Taking(c[b], taken, loc, s)
    BY <1>4, <1>9, <2>1, TakesEnd
  <2> QED BY <1>9, <2>2 DEF Taking
<1>11. Touched(c, b, c2, b, L)
  BY <1>9 DEF Only, Touched
<1>12. Now(u, g) = ScopeIn(u, L) \cup loc
  <2>1. Now(u, g) = ScopeIn(u, L) \cup Keeps(u, L, 1)
    BY <1>3, Began
  <2>2. Keeps(u, L, 1) = loc
    BY <1>2 DEF Keeps, Local, loc
  <2> QED BY <2>1, <2>2
<1>13. ASSUME CaughtIn(u), WellBlocks(c2)
       PROVE  PlaceIsRight(u, g, c2, b)
  <2>1. CaughtIn(t) /\ (TidyIn(u) => TidyIn(t)) /\ WellBlocks(c)
    BY <1>2, <1>9, <1>13, SameMatching
  <2>2. PlaceIsRight(t, f, c, b)
    BY <1>1, <2>1 DEF CodeMatches
  <2>3. CASE Terminated(c, b)
    <3>1. c2[b] = c[b] /\ Terminated(c2, b)
      BY <1>9, <1>10, <1>13, <2>3 DEF Terminated
    <3>2. OpenIn(t, f, Breakable \cup {"try"}) \subseteq OpenIn(u, g, Breakable \cup {"try"})
      <4>1. OpenIn(u, f, Breakable \cup {"try"}) = OpenIn(t, f, Breakable \cup {"try"})
        BY <1>1, <1>2, SameSets DEF Alike
      <4>2. OpenIn(u, g, Breakable \cup {"try"}) = OpenIn(u, f, Breakable \cup {"try"})
        <5>1. u[L].kind \notin Breakable \cup {"try"}
          BY <1>2 DEF Breakable, LoopKinds
        <5>2. \A kinds : u[L].kind \notin kinds => OpenIn(u, g, kinds) = OpenIn(u, f, kinds)
          BY <1>3, Began DEF More
        <5> QED BY <5>1, <5>2
      <4> QED BY <4>1, <4>2
    <3> QED BY <2>2, <2>3, <3>1, <3>2 DEF PlaceIsRight
  <2>4. CASE ~Terminated(c, b)
    <3>1. ~Terminated(c2, b)
      BY <1>10, <2>4 DEF Terminated
    <3>2. Now(t, f) \subseteq h /\ (TidyIn(t) => h \subseteq Now(t, f))
      BY <2>2, <2>4 DEF PlaceIsRight, h, Held
    <3>3. After(HeldIn(u, b), c2[b]) = h2
      BY <1>9, <1>13 DEF Held
    <3>4. Now(u, g) \subseteq h2 /\ (TidyIn(u) => h2 \subseteq Now(u, g))
      BY <1>6, <1>12, <1>13, <2>1, <3>2 DEF h2
    <3> QED BY <3>1, <3>3, <3>4 DEF PlaceIsRight
  <2> QED BY <2>3, <2>4
<1>14. CodeMatches(u, g, c2, b)
  <2>1. Made(u, L) = {} /\ Reserved(u, L, 1) = {} /\ Ahead(u, L) = {}
    BY <1>2 DEF Made, Reserved, Ahead
  <2>2. /\ Made(u, L) \subseteq DOMAIN c2 \cup Reserved(u, L, 1) /\ Ahead(u, L) \subseteq DOMAIN c2
        /\ \A y \in Reserved(u, L, 1) : y # b /\ Was(c2, y) = <<>>
    BY <2>1
  <2> QED BY <1>1, <1>3, <1>9, <1>11, <1>13, <2>2, OpenCode, SMTT(60)
<1>15. Stacked(u, g, ex, ls, bs, ps, c2, b)
  <2>1. Stacked(u, g, Pushed(x.kind \in Breakable, ex, Blk(L, "exiting")),
                 Pushed(x.kind \in LoopKinds, ls, Blk(L, "latch")), Pushed(x.kind = "for", bs, L),
                 Pushed(x.kind = "try", ps, Blk(L, "pad")), c2, b)
    <3>1. x.kind # "try"
      OBVIOUS
    <3> QED BY <1>1, <1>3, <1>11, <3>1, OpenStacks
  <2>2. x.kind \notin Breakable /\ x.kind \notin LoopKinds /\ x.kind # "for" /\ x.kind # "try"
    BY DEF Breakable, LoopKinds
  <2> QED BY <2>1, <2>2 DEF Pushed
<1>16. Declared(u, L) = VariableHere(t, f) \cup loc /\ Declared(u, L) \subseteq NamesOf(u) /\ Scoped(u, L)
  <2>1. L # 1 /\ u[L].parent = Top(f).node /\ u[L].slot = Top(f).slot /\ u[Top(f).node] = t[Top(f).node]
    <3>1. <<Top(f).node, Top(f).slot>> \in Opened(f)
      BY <1>2 DEF Openings
    <3>2. u[<<Top(f).node, Top(f).slot>>[1]] = t[<<Top(f).node, Top(f).slot>>[1]]
      BY <1>2, <3>1
    <3>3. Len(t) \in Nat \ {0}
      BY <1>2, NamesGrow
    <3>4. <<Top(f).node, Top(f).slot>>[1] = Top(f).node
      OBVIOUS
    <3>5. x.parent = Top(f).node /\ x.slot = Top(f).slot
      BY <1>1 DEF Stands, Belongs
    <3>6. L # 1
      BY <1>1, <3>3
    <3> QED BY <1>2, <3>2, <3>4, <3>5, <3>6
  <2>2. Declared(u, L) = VariableHere(t, f) \cup loc
    BY <1>2, <2>1 DEF Declared, VariableHere, CaughtHere, loc, Local
  <2>3. Declared(u, L) \subseteq NamesOf(u)
    BY <1>2, DeclaredNames
  <2> QED BY <1>2, <2>2, <2>3 DEF Scoped
<1>17. ScopesMatch(u, g, Append(ss, Scope(Declared(u, L))), c2, b)
  <2>1. Good(u, c2) => Good(t, c) /\ (NoFlags(ss) \/ (u[L].kind = "block" /\ (Terminated(c, b) => Terminated(c2, b))))
    <3>1. SUFFICES ASSUME Good(u, c2) PROVE Good(t, c) /\ u[L].kind = "block" /\ (Terminated(c, b) => Terminated(c2, b))
      OBVIOUS
    <3>2. Good(t, c) /\ (s # <<>> => ~Terminated(c, b))
      BY <1>2, <1>9, <3>1, SameMatching DEF Good
    <3>3. Terminated(c, b) => Terminated(c2, b)
      BY <1>10, <3>2 DEF Terminated
    <3> QED BY <1>2, <3>2, <3>3
  <2>2. Enters(f, g, L, 1)
    BY <1>3, Began
  <2> QED BY <1>1, <1>2, <1>16, <2>1, <2>2, ScopesPush
<1>18. Matches(u, g, ex, ls, bs, ps, Append(ss, Scope(VariableHere(t, f) \cup loc)), c2, b)
  BY <1>14, <1>15, <1>16, <1>17 DEF Matches
<1> QED BY <1>18 DEF c2, s, loc, taken

-----------------------------------------------------------------------------
(* The statements that begin with a branch *)

(* A statement whose first instruction is a branch to its own blocks. *)
LEMMA FirstBranch ==
  ASSUME NEW t, NEW f, NEW x, NEW u, NEW L, NEW ex, NEW ls, NEW bs, NEW ps, NEW ss, NEW c, NEW b,
         Ready(t, f, x, u, L, ex, ls, bs, ps, ss, c, b), x.kind # "block",
         NEW ts \in SUBSET BlocksOf(u), ts \subseteq NamesOf(u), \A y \in ts : HeldIn(u, y) = ScopeIn(u, L)
  PROVE  Continued(u, c, b, <<Br(ts)>>, Held(t, c, b), Gone(c, b), c ++ In(b, <<Br(ts)>>))
<1>1. Grows(t, u) /\ CodeMatches(t, f, c, b)
      /\ (CaughtIn(u) /\ WellBlocks(c) /\ ~Terminated(c, b) => HeldAs(u, L, Held(t, c, b)))
  BY Begins
<1> DEFINE s == <<Br(ts)>>
<1>2. \A h, d : HeldAs(u, L, h) => Runs(NamesOf(u), Typing(u), s, h, d, h, d)
  <2>1. SUFFICES ASSUME NEW h, NEW d, HeldAs(u, L, h) PROVE Runs(NamesOf(u), Typing(u), s, h, d, h, d)
    OBVIOUS
  <2>2. \A y \in ts : HeldIn(u, y) \subseteq h /\ (TidyIn(u) => h \subseteq HeldIn(u, y))
    BY <2>1 DEF HeldAs
  <2> QED BY <2>2, RunBranch
<1>3. s \in Seq(Instructions(NamesOf(u))) /\ s # <<>>
  BY BranchNamed
<1> HIDE DEF s
<1>4. CaughtIn(u) /\ WellBlocks(c) /\ (s # <<>> => ~Terminated(c, b)) =>
        Runs(NamesOf(u), Typing(u), s, Held(t, c, b), Gone(c, b), Held(t, c, b), Gone(c, b))
  BY <1>1, <1>2, <1>3
<1>5. Continued(u, c, b, s, Held(t, c, b), Gone(c, b), c ++ In(b, s))
  BY <1>1, <1>3, <1>4, Emits
<1> QED BY <1>5 DEF s

(* Going on in a block of one's own that is still empty.                   *)
LEMMA PlaceFresh ==
  ASSUME NEW u, NEW g, NEW e, NEW F, NEW D, NEW c2, Fills(u, e, F, D, c2), NEW b2 \in D, b2 \notin F,
         Was(e, b2) = <<>>, HeldIn(u, b2) = Now(u, g)
  PROVE  PlaceIsRight(u, g, c2, b2)
<1>1. c2[b2] = <<>>
  BY DEF Fills, Was
<1> QED BY <1>1, PlaceEmpty

(* The blocks of the last node, and what is held where they begin.         *)
OwnBlocks(u, L, S) ==
  /\ Owned(S, L) /\ S \subseteq NamesOf(u) /\ S \subseteq BlocksOf(u)
  /\ \A y \in S : HeldIn(u, y) = ScopeIn(u, L) \cup OwnHeld(u, L, y[2])

(* The blocks of a statement are what the program has more with it. *)
LEMMA OwnBlocksAre ==
  ASSUME NEW t, NEW f, NEW x, NEW u, NEW L, NEW ex, NEW ls, NEW bs, NEW ps, NEW ss, NEW c, NEW b,
         Ready(t, f, x, u, L, ex, ls, bs, ps, ss, c, b), x.kind \notin {"block", "throw"},
         NEW P \in SUBSET (Parts \ {"pad"}), \A part \in P : Blk(L, part) \in Made(u, L)
  PROVE  OwnBlocks(u, L, {Blk(L, part) : part \in P})
<1>1. L \in 1..Len(u) /\ u[L] = x
  BY Begins
<1>2. \A part \in P : /\ Blk(L, part) \in NamesOf(u) /\ Blk(L, part) \in BlocksOf(u)
                      /\ Blk(L, part)[1] = L /\ Blk(L, part)[2] = part
                      /\ HeldIn(u, Blk(L, part)) = ScopeIn(u, L) \cup OwnHeld(u, L, part)
  <2> SUFFICES ASSUME NEW part \in P
               PROVE  /\ Blk(L, part) \in NamesOf(u) /\ Blk(L, part) \in BlocksOf(u)
                      /\ Blk(L, part)[1] = L /\ Blk(L, part)[2] = part
                      /\ HeldIn(u, Blk(L, part)) = ScopeIn(u, L) \cup OwnHeld(u, L, part)
    OBVIOUS
  <2>1. Blk(L, part) \in NamesOf(u)
    BY <1>1, Names
  <2>2. Blk(L, part) \in BlocksOf(u)
    BY <1>1 DEF BlocksOf
  <2>3. HeldIn(u, Blk(L, part)) = ScopeIn(u, L) \cup OwnHeld(u, L, part)
    BY <1>1, HeldAre
  <2> QED BY <2>1, <2>2, <2>3 DEF Blk
<1> QED BY <1>2 DEF OwnBlocks, Owned

(* An if statement begins. *)
LEMMA OpenIfStep ==
  ASSUME NEW t, NEW f, NEW x, NEW u, NEW L, NEW ex, NEW ls, NEW bs, NEW ps, NEW ss, NEW c, NEW b,
         Ready(t, f, x, u, L, ex, ls, bs, ps, ss, c, b), x.kind = "if",
         NEW g, g = Append(f, Frame(L, 1))
  PROVE  Matches(u, g, ex, ls, bs, ps, ss,
                 c ++ In(b, <<Eval(Blk(L, "cond")), Br({Blk(L, "then"), Blk(L, "else")})>>)
                   ++ In(Blk(L, "then"), <<>>) ++ In(Blk(L, "else"), <<>>) ++ In(Blk(L, "endif"), <<>>),
                 Blk(L, "then"))
<1> DEFINE then == Blk(L, "then")  else == Blk(L, "else")  end == Blk(L, "endif")
           s == <<Eval(Blk(L, "cond")), Br({then, else})>>
           e == c ++ In(b, s)
           c2 == e ++ In(then, <<>>)
           c3 == c2 ++ In(else, <<>>)
           c4 == c3 ++ In(end, <<>>)
<1>1. Len(u) = L /\ L \in 1..Len(u) /\ u[L] = x /\ Grows(t, u) /\ CodeMatches(t, f, c, b)
  BY Begins
<1>0. Ahead(u, L) = {else, end}
  BY <1>1 DEF Ahead
<1>2. Begun(t, f, x, u, L, 1, g)
  BY <1>1 DEF Begun, Ready, Fits, LeafKinds, JumpKinds
<1>3. Made(u, L) = {then, else, end} /\ Reserved(u, L, 1) = {else, end} /\ (\A part : OwnHeld(u, L, part) = {})
      /\ Keeps(u, L, 1) = {} /\ ~Scoped(u, L)
  BY <1>1 DEF Made, Reserved, OwnHeld, Keeps, Scoped
<1>4. OwnBlocks(u, L, {then, else, end})
  <2> DEFINE P == {"then", "else", "endif"}
  <2>1. P \in SUBSET (Parts \ {"pad"}) /\ x.kind \notin {"block", "throw"}
    BY DEF Parts
  <2>2. \A part \in P : Blk(L, part) \in Made(u, L)
    BY <1>3
  <2>3. {Blk(L, part) : part \in P} = {then, else, end}
    OBVIOUS
  <2> HIDE DEF P
  <2>4. OwnBlocks(u, L, {Blk(L, part) : part \in P})
    BY <2>1, <2>2, OwnBlocksAre
  <2> QED BY <2>3, <2>4
<1>5. \A y \in {then, else, end} : HeldIn(u, y) = ScopeIn(u, L) /\ y \in NamesOf(u) /\ y \in BlocksOf(u) /\
      y[1] = L /\ y[2] # "pad"
  BY <1>3, <1>4 DEF OwnBlocks, Owned
<1>6. then # else /\ then # end /\ else # end
  BY DEF Blk
<1>7. Continued(u, c, b, s, Held(t, c, b), Gone(c, b), e) /\ s # <<>>
  <2>1. {then, else} \in SUBSET BlocksOf(u) /\ {then, else} \subseteq NamesOf(u)
        /\ \A y \in {then, else} : HeldIn(u, y) = ScopeIn(u, L)
    BY <1>5
  <2>2. "cond" \in Parts /\ x.kind # "block"
    BY DEF Parts
  <2>3. s # <<>>
    OBVIOUS
  <2> HIDE DEF then, else
  <2>4. Continued(u, c, b, s, Held(t, c, b), Gone(c, b), e)
    BY <2>1, <2>2, FirstTest
  <2> QED BY <2>3, <2>4
<1> HIDE DEF then, else, end, s, e, c2, c3, c4
<1>8. Fills(u, e, {}, {}, e) /\ Was(e, then) = <<>> /\ Was(e, else) = <<>> /\ Was(e, end) = <<>>
  BY <1>1, <1>5, <1>7, Fresh DEF Ready
<1>9. Fills(u, e, {}, {then}, c2)
  <2>1. then \notin {} /\ then \in NamesOf(u) /\ {} \cup {then} = {then}
    BY <1>5
  <2>2. Fills(u, e, {}, {} \cup {then}, c2)
    BY <1>8, <2>1, FillEmpty DEF c2
  <2> QED BY <2>1, <2>2
<1>10. Fills(u, e, {}, {then, else}, c3)
  <2>1. else \notin {} /\ else \in NamesOf(u) /\ {then} \cup {else} = {then, else}
    BY <1>5
  <2>2. Fills(u, e, {}, {then} \cup {else}, c3)
    BY <1>8, <1>9, <2>1, FillEmpty DEF c3
  <2> QED BY <2>1, <2>2
<1>11. Fills(u, e, {}, {then, else, end}, c4)
  <2>1. end \notin {} /\ end \in NamesOf(u) /\ {then, else} \cup {end} = {then, else, end}
    BY <1>5
  <2>2. Fills(u, e, {}, {then, else} \cup {end}, c4)
    BY <1>8, <1>10, <2>1, FillEmpty DEF c4
  <2> QED BY <2>1, <2>2
<1>12. PlaceIsRight(u, g, c4, then)
  <2>1. Now(u, g) = ScopeIn(u, L) \cup Keeps(u, L, 1)
    BY <1>2, Began
  <2>2. HeldIn(u, then) = Now(u, g)
    BY <1>3, <1>5, <2>1
  <2> QED BY <1>8, <1>11, <2>2, PlaceFresh
<1>13. Opens(u, g, x, L, ex, ls, bs, ps, ss, c4, then)
  <2>1. Owned({}, L) /\ Owned({then}, L) /\ then \in {then, else, end}
    BY <1>5 DEF Owned
  <2>2. Made(u, L) \subseteq {then, else, end} \cup Reserved(u, L, 1) /\
        \A y \in Reserved(u, L, 1) : y # then /\ y \notin {}
    BY <1>3, <1>6
  <2>3. Prepared(u, g, L, 1, e, {}, {then, else, end}, c4, then)
    BY <1>0, <1>1, <1>11, <1>12, <2>1, <2>2 DEF Prepared
  <2> QED BY <1>2, <1>7, <2>3, Opening
<1>14. x.kind \notin Breakable /\ x.kind \notin LoopKinds /\ x.kind # "for" /\ x.kind # "try"
  BY DEF Breakable, LoopKinds
<1>15. Matches(u, g, ex, ls, bs, ps, ss, c4, then)
  BY <1>3, <1>13, <1>14 DEF Pushed, Opens
<1> QED BY <1>15 DEF c4, c3, c2, e, s, then, else, end

(* A while loop begins. *)
LEMMA OpenWhileStep ==
  ASSUME NEW t, NEW f, NEW x, NEW u, NEW L, NEW ex, NEW ls, NEW bs, NEW ps, NEW ss, NEW c, NEW b,
         Ready(t, f, x, u, L, ex, ls, bs, ps, ss, c, b), x.kind = "while",
         NEW g, g = Append(f, Frame(L, 1))
  PROVE  Matches(u, g, Append(ex, Blk(L, "exiting")), Append(ls, Blk(L, "latch")), bs, ps, Append(ss, Scope({})),
                 c ++ In(b, <<Br({Blk(L, "cond")})>>)
                   ++ In(Blk(L, "cond"), <<Eval(Blk(L, "cond")), Br({Blk(L, "body"), Blk(L, "exiting")})>>)
                   ++ In(Blk(L, "latch"), <<Br({Blk(L, "cond")})>>) ++ In(Blk(L, "exiting"), <<Br({Blk(L, "end")})>>)
                   ++ In(Blk(L, "body"), <<>>),
                 Blk(L, "body"))
<1> DEFINE cond == Blk(L, "cond")  body == Blk(L, "body")  latch == Blk(L, "latch")  exit == Blk(L, "exiting")
         end == Blk(L, "end")
           s == <<Br({cond})>>
           e == c ++ In(b, s)
           c2 == e ++ In(cond, <<Eval(cond), Br({body, exit})>>)
           c3 == c2 ++ In(latch, <<Br({cond})>>)
           c4 == c3 ++ In(exit, <<Br({end})>>)
           c5 == c4 ++ In(body, <<>>)
<1>1. Len(u) = L /\ L \in 1..Len(u) /\ u[L] = x /\ Grows(t, u) /\ CodeMatches(t, f, c, b)
  BY Begins
<1>0. Ahead(u, L) = {}
  BY <1>1 DEF Ahead
<1>2. Begun(t, f, x, u, L, 1, g)
  BY <1>1 DEF Begun, Ready, Fits, LeafKinds, JumpKinds
<1>3. Made(u, L) = {cond, body, latch, exit, end} /\ Reserved(u, L, 1) = {end} /\ (\A part : OwnHeld(u, L, part) = {})
      /\ Keeps(u, L, 1) = {} /\ Scoped(u, L) /\ Declared(u, L) = {}
  BY <1>1 DEF Made, Reserved, OwnHeld, Keeps, Scoped, Declared
<1>4. OwnBlocks(u, L, {cond, body, latch, exit, end})
  <2> DEFINE P == {"cond", "body", "latch", "exiting", "end"}
  <2>1. P \in SUBSET (Parts \ {"pad"}) /\ x.kind \notin {"block", "throw"}
    BY DEF Parts
  <2>2. \A part \in P : Blk(L, part) \in Made(u, L)
    BY <1>3
  <2>3. {Blk(L, part) : part \in P} = {cond, body, latch, exit, end}
    OBVIOUS
  <2> HIDE DEF P
  <2>4. OwnBlocks(u, L, {Blk(L, part) : part \in P})
    BY <2>1, <2>2, OwnBlocksAre
  <2> QED BY <2>3, <2>4
<1>5. \A y \in {cond, body, latch, exit, end} :
        HeldIn(u, y) = ScopeIn(u, L) /\ y \in NamesOf(u) /\ y \in BlocksOf(u) /\ y[1] = L /\ y[2] # "pad"
  BY <1>3, <1>4 DEF OwnBlocks, Owned
<1>6. cond # body /\ cond # latch /\ cond # exit /\ cond # end /\ body # latch /\ body # exit /\
      body # end /\ latch # exit /\ latch # end /\ exit # end
  BY DEF Blk
<1>7. Continued(u, c, b, s, Held(t, c, b), Gone(c, b), e) /\ s # <<>>
  <2>1. {cond} \in SUBSET BlocksOf(u) /\ {cond} \subseteq NamesOf(u)
        /\ \A y \in {cond} : HeldIn(u, y) = ScopeIn(u, L)
    BY <1>5
  <2>2. x.kind # "block" /\ s # <<>>
    OBVIOUS
  <2> HIDE DEF cond, body, latch, exit, end
  <2>3. Continued(u, c, b, s, Held(t, c, b), Gone(c, b), e)
    BY <2>1, <2>2, FirstBranch
  <2> QED BY <2>2, <2>3
<1> HIDE DEF cond, body, latch, exit, end, s, e, c2, c3, c4, c5
<1>8. Fills(u, e, {}, {}, e) /\ \A y \in {cond, body, latch, exit, end} : Was(e, y) = <<>>
  BY <1>1, <1>5, <1>7, Fresh DEF Ready
<1>9. Fills(u, e, {cond}, {cond}, c2)
  <2>1. cond \notin {} /\ cond \in NamesOf(u) /\ {} \cup {cond} = {cond} /\ {} \cup {cond} = {cond}
    BY <1>5, <1>6
  <2>2. {body, exit} \in SUBSET BlocksOf(u) /\ {body, exit} \subseteq NamesOf(u) /\
        ScopeIn(u, cond[1]) \subseteq HeldIn(u, cond)
        /\ \A y \in {body, exit} : HeldIn(u, y) = HeldIn(u, cond)
    BY <1>5
  <2>3. Fills(u, e, {} \cup {cond}, {} \cup {cond}, c2)
    BY <1>8, <1>8, <2>1, <2>2, FillTest DEF c2
  <2> QED BY <2>1, <2>3
<1>10. Fills(u, e, {cond, latch}, {cond, latch}, c3)
  <2>1. latch \notin {cond} /\ latch \in NamesOf(u) /\ {cond} \cup {latch} = {cond, latch} /\
        {cond} \cup {latch} = {cond, latch}
    BY <1>5, <1>6
  <2>2. {cond} \in SUBSET BlocksOf(u) /\ {cond} \subseteq NamesOf(u)
        /\ \A y \in {cond} : HeldIn(u, y) = HeldIn(u, latch)
    BY <1>5
  <2>3. Fills(u, e, {cond} \cup {latch}, {cond} \cup {latch}, c3)
    BY <1>8, <1>9, <2>1, <2>2, FillBranch DEF c3
  <2> QED BY <2>1, <2>3
<1>11. Fills(u, e, {cond, latch, exit}, {cond, latch, exit}, c4)
  <2>1. exit \notin {cond, latch} /\ exit \in NamesOf(u) /\
        {cond, latch} \cup {exit} = {cond, latch, exit} /\ {cond, latch} \cup {exit} = {cond, latch, exit}
    BY <1>5, <1>6
  <2>2. {end} \in SUBSET BlocksOf(u) /\ {end} \subseteq NamesOf(u)
        /\ \A y \in {end} : HeldIn(u, y) = HeldIn(u, exit)
    BY <1>5
  <2>3. Fills(u, e, {cond, latch} \cup {exit}, {cond, latch} \cup {exit}, c4)
    BY <1>8, <1>10, <2>1, <2>2, FillBranch DEF c4
  <2> QED BY <2>1, <2>3
<1>12. Fills(u, e, {cond, latch, exit}, {cond, latch, exit, body}, c5)
  <2>1. body \notin {cond, latch, exit} /\ body \in NamesOf(u) /\
        {cond, latch, exit} \cup {body} = {cond, latch, exit, body}
    BY <1>5, <1>6
  <2>2. Fills(u, e, {cond, latch, exit}, {cond, latch, exit} \cup {body}, c5)
    BY <1>8, <1>11, <2>1, FillEmpty DEF c5
  <2> QED BY <2>1, <2>2
<1>13. PlaceIsRight(u, g, c5, body)
  <2>1. Now(u, g) = ScopeIn(u, L) \cup Keeps(u, L, 1)
    BY <1>2, Began
  <2>2. HeldIn(u, body) = Now(u, g)
    BY <1>3, <1>5, <2>1
  <2>3. body \in {cond, latch, exit, body} /\ body \notin {cond, latch, exit}
    BY <1>6
  <2> QED BY <1>8, <1>12, <2>2, <2>3, PlaceFresh
<1>14. Opens(u, g, x, L, ex, ls, bs, ps, ss, c5, body)
  <2>1. Owned({cond, latch, exit}, L) /\ Owned({body}, L) /\ body \in {cond, latch, exit, body}
    BY <1>5 DEF Owned
  <2>2. Made(u, L) \subseteq {cond, latch, exit, body} \cup Reserved(u, L, 1) /\
        \A y \in Reserved(u, L, 1) : y # body /\ y \notin {cond, latch, exit}
    BY <1>3, <1>6
  <2>3. Prepared(u, g, L, 1, e, {cond, latch, exit}, {cond, latch, exit, body}, c5, body)
    BY <1>0, <1>1, <1>12, <1>13, <2>1, <2>2 DEF Prepared
  <2> QED BY <1>2, <1>7, <2>3, Opening
<1>15. x.kind \in Breakable /\ x.kind \in LoopKinds /\ x.kind # "for" /\ x.kind # "try"
  BY DEF Breakable, LoopKinds
<1>16. Matches(u, g, Append(ex, Blk(L, "exiting")), Append(ls, Blk(L, "latch")), bs, ps, Append(ss, Scope({})), c5, body)
  BY <1>3, <1>14, <1>15 DEF Pushed, Opens
<1> QED BY <1>16 DEF c5, c4, c3, c2, e, s, cond, body, latch, exit, end

(* A do loop begins. *)
LEMMA OpenDoStep ==
  ASSUME NEW t, NEW f, NEW x, NEW u, NEW L, NEW ex, NEW ls, NEW bs, NEW ps, NEW ss, NEW c, NEW b,
         Ready(t, f, x, u, L, ex, ls, bs, ps, ss, c, b), x.kind = "do",
         NEW g, g = Append(f, Frame(L, 1))
  PROVE  Matches(u, g, Append(ex, Blk(L, "exiting")), Append(ls, Blk(L, "latch")), bs, ps, Append(ss, Scope({})),
                 c ++ In(b, <<Br({Blk(L, "body")})>>) ++ In(Blk(L, "body"), <<>>) ++ In(Blk(L, "cond"), <<>>)
                   ++ In(Blk(L, "latch"), <<>>) ++ In(Blk(L, "exiting"), <<>>) ++ In(Blk(L, "end"), <<>>),
                 Blk(L, "body"))
<1> DEFINE cond == Blk(L, "cond")  body == Blk(L, "body")  latch == Blk(L, "latch")  exit == Blk(L, "exiting")
         end == Blk(L, "end")
           s == <<Br({body})>>
           e == c ++ In(b, s)
           c2 == e ++ In(body, <<>>)
           c3 == c2 ++ In(cond, <<>>)
           c4 == c3 ++ In(latch, <<>>)
           c5 == c4 ++ In(exit, <<>>)
           c6 == c5 ++ In(end, <<>>)
<1>1. Len(u) = L /\ L \in 1..Len(u) /\ u[L] = x /\ Grows(t, u) /\ CodeMatches(t, f, c, b)
  BY Begins
<1>0. Ahead(u, L) = {exit, end}
  BY <1>1 DEF Ahead
<1>2. Begun(t, f, x, u, L, 1, g)
  BY <1>1 DEF Begun, Ready, Fits, LeafKinds, JumpKinds
<1>3. Made(u, L) = {cond, body, latch, exit, end} /\ Reserved(u, L, 1) = {cond, latch, exit, end} /\
      (\A part : OwnHeld(u, L, part) = {})
      /\ Keeps(u, L, 1) = {} /\ Scoped(u, L) /\ Declared(u, L) = {}
  BY <1>1 DEF Made, Reserved, OwnHeld, Keeps, Scoped, Declared
<1>4. OwnBlocks(u, L, {cond, body, latch, exit, end})
  <2> DEFINE P == {"cond", "body", "latch", "exiting", "end"}
  <2>1. P \in SUBSET (Parts \ {"pad"}) /\ x.kind \notin {"block", "throw"}
    BY DEF Parts
  <2>2. \A part \in P : Blk(L, part) \in Made(u, L)
    BY <1>3
  <2>3. {Blk(L, part) : part \in P} = {cond, body, latch, exit, end}
    OBVIOUS
  <2> HIDE DEF P
  <2>4. OwnBlocks(u, L, {Blk(L, part) : part \in P})
    BY <2>1, <2>2, OwnBlocksAre
  <2> QED BY <2>3, <2>4
<1>5. \A y \in {cond, body, latch, exit, end} :
        HeldIn(u, y) = ScopeIn(u, L) /\ y \in NamesOf(u) /\ y \in BlocksOf(u) /\ y[1] = L /\ y[2] # "pad"
  BY <1>3, <1>4 DEF OwnBlocks, Owned
<1>6. cond # body /\ cond # latch /\ cond # exit /\ cond # end /\ body # latch /\ body # exit /\
      body # end /\ latch # exit /\ latch # end /\ exit # end
  BY DEF Blk
<1>7. Continued(u, c, b, s, Held(t, c, b), Gone(c, b), e) /\ s # <<>>
  <2>1. {body} \in SUBSET BlocksOf(u) /\ {body} \subseteq NamesOf(u)
        /\ \A y \in {body} : HeldIn(u, y) = ScopeIn(u, L)
    BY <1>5
  <2>2. x.kind # "block" /\ s # <<>>
    OBVIOUS
  <2> HIDE DEF cond, body, latch, exit, end
  <2>3. Continued(u, c, b, s, Held(t, c, b), Gone(c, b), e)
    BY <2>1, <2>2, FirstBranch
  <2> QED BY <2>2, <2>3
<1> HIDE DEF cond, body, latch, exit, end, s, e, c2, c3, c4, c5, c6
<1>8. Fills(u, e, {}, {}, e) /\ \A y \in {cond, body, latch, exit, end} : Was(e, y) = <<>>
  BY <1>1, <1>5, <1>7, Fresh DEF Ready
<1>9. Fills(u, e, {}, {body}, c2)
  <2>1. body \notin {} /\ body \in NamesOf(u) /\ {} \cup {body} = {body}
    BY <1>5, <1>6
  <2>2. Fills(u, e, {}, {} \cup {body}, c2)
    BY <1>8, <1>8, <2>1, FillEmpty DEF c2
  <2> QED BY <2>1, <2>2
<1>10. Fills(u, e, {}, {body, cond}, c3)
  <2>1. cond \notin {} /\ cond \in NamesOf(u) /\ {body} \cup {cond} = {body, cond}
    BY <1>5, <1>6
  <2>2. Fills(u, e, {}, {body} \cup {cond}, c3)
    BY <1>8, <1>9, <2>1, FillEmpty DEF c3
  <2> QED BY <2>1, <2>2
<1>11. Fills(u, e, {}, {body, cond, latch}, c4)
  <2>1. latch \notin {} /\ latch \in NamesOf(u) /\ {body, cond} \cup {latch} = {body, cond, latch}
    BY <1>5, <1>6
  <2>2. Fills(u, e, {}, {body, cond} \cup {latch}, c4)
    BY <1>8, <1>10, <2>1, FillEmpty DEF c4
  <2> QED BY <2>1, <2>2
<1>12. Fills(u, e, {}, {body, cond, latch, exit}, c5)
  <2>1. exit \notin {} /\ exit \in NamesOf(u) /\ {body, cond, latch} \cup {exit} = {body, cond, latch, exit}
    BY <1>5, <1>6
  <2>2. Fills(u, e, {}, {body, cond, latch} \cup {exit}, c5)
    BY <1>8, <1>11, <2>1, FillEmpty DEF c5
  <2> QED BY <2>1, <2>2
<1>13. Fills(u, e, {}, {body, cond, latch, exit, end}, c6)
  <2>1. end \notin {} /\ end \in NamesOf(u) /\ {body, cond, latch, exit} \cup {end} = {body, cond, latch, exit, end}
    BY <1>5, <1>6
  <2>2. Fills(u, e, {}, {body, cond, latch, exit} \cup {end}, c6)
    BY <1>8, <1>12, <2>1, FillEmpty DEF c6
  <2> QED BY <2>1, <2>2
<1>14. PlaceIsRight(u, g, c6, body)
  <2>1. Now(u, g) = ScopeIn(u, L) \cup Keeps(u, L, 1)
    BY <1>2, Began
  <2>2. HeldIn(u, body) = Now(u, g)
    BY <1>3, <1>5, <2>1
  <2>3. body \in {body, cond, latch, exit, end} /\ body \notin {}
    BY <1>6
  <2> QED BY <1>8, <1>13, <2>2, <2>3, PlaceFresh
<1>15. Opens(u, g, x, L, ex, ls, bs, ps, ss, c6, body)
  <2>1. Owned({}, L) /\ Owned({body}, L) /\ body \in {body, cond, latch, exit, end}
    BY <1>5 DEF Owned
  <2>2. Made(u, L) \subseteq {body, cond, latch, exit, end} \cup Reserved(u, L, 1) /\
        \A y \in Reserved(u, L, 1) : y # body /\ y \notin {}
    BY <1>3, <1>6
  <2>3. Prepared(u, g, L, 1, e, {}, {body, cond, latch, exit, end}, c6, body)
    BY <1>0, <1>1, <1>13, <1>14, <2>1, <2>2 DEF Prepared
  <2> QED BY <1>2, <1>7, <2>3, Opening
<1>16. x.kind \in Breakable /\ x.kind \in LoopKinds /\ x.kind # "for" /\ x.kind # "try"
  BY DEF Breakable, LoopKinds
<1>17. Matches(u, g, Append(ex, Blk(L, "exiting")), Append(ls, Blk(L, "latch")), bs, ps, Append(ss, Scope({})), c6, body)
  BY <1>3, <1>15, <1>16 DEF Pushed, Opens
<1> QED BY <1>17 DEF c6, c5, c4, c3, c2, e, s, cond, body, latch, exit, end

-----------------------------------------------------------------------------
(* The for loop *)

ForOpened(x, L, c, b) ==
  IF x.decl
  THEN c ++ In(b, <<Br({Blk(L, "start")})>>)
         ++ In(Blk(L, "start"), <<Acquire(Blk(L, "counter"))>> \o <<Br({IterationOf(L, x.opts)})>>)
         ++ In(Blk(L, "body"), <<Acquire(Blk(L, "copy"))>>)
  ELSE c ++ In(b, <<Br({IterationOf(L, x.opts)})>>) ++ In(Blk(L, "body"), <<>>)
ForTurned(x, L, c) ==
  c ++ In(Blk(L, "latch"), <<Br({AfterIteration(L, x.opts)})>>) ++ In(Blk(L, "exiting"), <<Br({Blk(L, "end")})>>)
ForTested(x, L, c) ==
  IF "cond" \in x.opts
  THEN c ++ In(Blk(L, "cond"), <<Eval(Blk(L, "cond")), Br({Blk(L, "body"), Blk(L, "exiting")})>>)
  ELSE c

(* What is held where an iteration begins, besides what the scopes around  *)
(* the loop keep.                                                          *)
Counters(x, L) == IF x.decl THEN {Blk(L, "counter")} ELSE {}

ForBlock(u, x, L, y, part) ==
  /\ y[1] = L /\ y[2] = part /\ y \in NamesOf(u) /\ y \in BlocksOf(u)
  /\ HeldIn(u, y) = ScopeIn(u, L) \cup (IF part = "start" THEN {} ELSE Counters(x, L))

ForBlocks(u, x, L) ==
  /\ \A part \in {"body", "latch", "exiting", "end"} : ForBlock(u, x, L, Blk(L, part), part)
  /\ x.decl => ForBlock(u, x, L, Blk(L, "start"), "start")
  /\ "cond" \in x.opts => ForBlock(u, x, L, Blk(L, "cond"), "cond")
  /\ "inc" \in x.opts => ForBlock(u, x, L, Blk(L, "inc"), "inc")
  /\ ForBlock(u, x, L, IterationOf(L, x.opts), IterationOf(L, x.opts)[2])
  /\ IterationOf(L, x.opts)[2] # "start"
  /\ ForBlock(u, x, L, AfterIteration(L, x.opts), AfterIteration(L, x.opts)[2])
  /\ AfterIteration(L, x.opts)[2] # "start"

(* A block of a statement.                                                 *)
Inside1(t, n, part) ==
  /\ Blk(n, part) \in NamesOf(t) /\ Blk(n, part) \in BlocksOf(t) /\ Blk(n, part)[1] = n /\ Blk(n, part)[2] = part
  /\ HeldIn(t, Blk(n, part)) = ScopeIn(t, n) \cup OwnHeld(t, n, part)

(* A block that its handler makes is a block of the program. *)
LEMMA InsideIs ==
  ASSUME NEW t, NEW n \in 1..Len(t), t[n].kind # "throw", NEW part \in Parts, Blk(n, part) \in Made(t, n)
  PROVE  Inside1(t, n, part)
<1>1. Blk(n, part) \in NamesOf(t)
  BY Names
<1>2. Blk(n, part) \in BlocksOf(t)
  BY DEF BlocksOf
<1>3. HeldIn(t, Blk(n, part)) = ScopeIn(t, n) \cup OwnHeld(t, n, part)
  BY HeldAre
<1> QED BY <1>1, <1>2, <1>3 DEF Inside1, Blk

(* The blocks of a for loop, as its parts ask for them. *)
LEMMA ForBlocksAre ==
  ASSUME NEW u, NEW L \in 1..Len(u), NEW x, u[L] = x, x.kind = "for"
  PROVE  ForBlocks(u, x, L)
<1> DEFINE P == {"body", "latch", "exiting", "end"} \cup (IF x.decl THEN {"start"} ELSE {})
                \cup (IF "cond" \in x.opts THEN {"cond"} ELSE {}) \cup (IF "inc" \in x.opts THEN {"inc"} ELSE {})
<1>2. P \in SUBSET (Parts \ {"pad"}) /\ x.kind \notin {"block", "throw"}
  BY DEF Parts
<1>3. \A part \in P : Blk(L, part) \in Made(u, L)
  BY DEF Made
<1>4. \A part \in {"body", "latch", "exiting", "end"} : part \in P
  OBVIOUS
<1>5. (x.decl => "start" \in P) /\ ("cond" \in x.opts => "cond" \in P) /\ ("inc" \in x.opts => "inc" \in P)
  OBVIOUS
<1> HIDE DEF P
<1>6. \A part \in P : Inside1(u, L, part)
  BY <1>2, <1>3, InsideIs
<1>7. ASSUME NEW part \in P
      PROVE  ForBlock(u, x, L, Blk(L, part), part)
  <2>1. Blk(L, part)[1] = L /\ Blk(L, part)[2] = part
    BY DEF Blk
  <2>3. /\ Blk(L, part) \in NamesOf(u) /\ Blk(L, part) \in BlocksOf(u)
        /\ HeldIn(u, Blk(L, part)) = ScopeIn(u, L) \cup OwnHeld(u, L, part)
    BY <1>6 DEF Inside1
  <2>4. OwnHeld(u, L, part) = IF part = "start" THEN {} ELSE Counters(x, L)
    BY DEF OwnHeld, Counters
  <2> QED BY <2>1, <2>3, <2>4 DEF ForBlock
<1>8. IterationOf(L, x.opts) = (IF "cond" \in x.opts THEN Blk(L, "cond") ELSE Blk(L, "body"))
      /\ AfterIteration(L, x.opts) = (IF "inc" \in x.opts THEN Blk(L, "inc") ELSE IterationOf(L, x.opts))
  BY DEF IterationOf, AfterIteration
<1>9. Blk(L, "cond")[2] = "cond" /\ Blk(L, "body")[2] = "body" /\ Blk(L, "inc")[2] = "inc"
  BY DEF Blk
<1>10. ForBlock(u, x, L, IterationOf(L, x.opts), IterationOf(L, x.opts)[2]) /\ IterationOf(L, x.opts)[2] # "start"
  <2>1. CASE "cond" \in x.opts
    <3>1. IterationOf(L, x.opts) = Blk(L, "cond") /\ IterationOf(L, x.opts)[2] = "cond"
      BY <1>8, <1>9, <2>1
    <3> QED BY <1>5, <1>7, <2>1, <3>1
  <2>2. CASE "cond" \notin x.opts
    <3>1. IterationOf(L, x.opts) = Blk(L, "body") /\ IterationOf(L, x.opts)[2] = "body"
      BY <1>8, <1>9, <2>2
    <3> QED BY <1>4, <1>7, <3>1
  <2> QED BY <2>1, <2>2
<1>11. ForBlock(u, x, L, AfterIteration(L, x.opts), AfterIteration(L, x.opts)[2]) /\
      AfterIteration(L, x.opts)[2] # "start"
  <2>1. CASE "inc" \in x.opts
    <3>1. AfterIteration(L, x.opts) = Blk(L, "inc") /\ AfterIteration(L, x.opts)[2] = "inc"
      BY <1>8, <1>9, <2>1
    <3> QED BY <1>5, <1>7, <2>1, <3>1
  <2>2. CASE "inc" \notin x.opts
    <3>1. AfterIteration(L, x.opts) = IterationOf(L, x.opts)
      BY <1>8, <2>2
    <3> QED BY <1>10, <3>1
  <2> QED BY <2>1, <2>2
<1>12. \A part \in {"body", "latch", "exiting", "end"} : ForBlock(u, x, L, Blk(L, part), part)
  BY <1>4, <1>7
<1>13. /\ x.decl => ForBlock(u, x, L, Blk(L, "start"), "start")
       /\ "cond" \in x.opts => ForBlock(u, x, L, Blk(L, "cond"), "cond")
       /\ "inc" \in x.opts => ForBlock(u, x, L, Blk(L, "inc"), "inc")
  BY <1>5, <1>7
<1> QED BY <1>10, <1>11, <1>12, <1>13 DEF ForBlocks

(* After its first branch, and the blocks in which it acquires.            *)
ForBegun(u, x, L, c, b, h, d, s, e, F, D) ==
  /\ Continued(u, c, b, s, h, d, e) /\ s # <<>>
  /\ Fills(u, e, F, D, ForOpened(x, L, c, b))
  /\ F = (IF x.decl THEN {Blk(L, "start"), Blk(L, "body")} ELSE {})
  /\ D = (IF x.decl THEN {Blk(L, "start"), Blk(L, "body")} ELSE {Blk(L, "body")})
  /\ x.decl => ForOpened(x, L, c, b)[Blk(L, "body")] = <<Acquire(Blk(L, "copy"))>>

(* The counter of a for loop is acquired and its header written. *)
LEMMA ForBegins ==
  ASSUME NEW t, NEW f, NEW x, NEW u, NEW L, NEW ex, NEW ls, NEW bs, NEW ps, NEW ss, NEW c, NEW b,
         Ready(t, f, x, u, L, ex, ls, bs, ps, ss, c, b), x.kind = "for"
  PROVE  \E s, e, F, D : ForBegun(u, x, L, c, b, Held(t, c, b), Gone(c, b), s, e, F, D)
<1> DEFINE start == Blk(L, "start")  body == Blk(L, "body")  next == IterationOf(L, x.opts)
           counter == Blk(L, "counter")  copy == Blk(L, "copy")
<1>1. Len(u) = L /\ L \in 1..Len(u) /\ u[L] = x /\ Grows(t, u) /\ Shaped(u) /\ CodeMatches(t, f, c, b) /\ L = Len(t) + 1
  BY Begins DEF Ready
<1>2. ForBlocks(u, x, L)
  BY <1>1, ForBlocksAre
<1>3. body[1] = L /\ body \in NamesOf(u) /\ HeldIn(u, body) = ScopeIn(u, L) \cup Counters(x, L)
  <2>1. ForBlock(u, x, L, body, "body")
    BY <1>2 DEF ForBlocks
  <2> QED BY <2>1 DEF ForBlock
<1>4. next[1] = L /\ next \in NamesOf(u) /\ next \in BlocksOf(u) /\ HeldIn(u, next) = ScopeIn(u, L) \cup Counters(x, L)
  <2>1. ForBlock(u, x, L, next, next[2]) /\ next[2] # "start"
    BY <1>2 DEF ForBlocks
  <2> QED BY <2>1 DEF ForBlock
<1>5. CASE ~x.decl
  <2> DEFINE s == <<Br({next})>>  e == c ++ In(b, s)  c2 == e ++ In(body, <<>>)
  <2>1. Continued(u, c, b, s, Held(t, c, b), Gone(c, b), e) /\ s # <<>>
    <3>1. {next} \in SUBSET BlocksOf(u) /\ {next} \subseteq NamesOf(u) /\ \A y \in {next} : HeldIn(u, y) = ScopeIn(u, L)
      BY <1>4, <1>5 DEF Counters
    <3>2. x.kind # "block" /\ s # <<>>
      OBVIOUS
    <3> HIDE DEF next
    <3> QED BY <3>1, <3>2, FirstBranch
  <2> HIDE DEF body, next, s, e, c2
  <2>2. Fills(u, e, {}, {}, e) /\ Was(e, body) = <<>>
    BY <1>1, <1>3, <2>1, Fresh
  <2>3. {} \cup {body} = {body} /\ body \notin {}
    OBVIOUS
  <2>4. Fills(u, e, {}, {} \cup {body}, c2)
    BY <1>3, <2>2, <2>3, FillEmpty DEF c2
  <2>5. ForOpened(x, L, c, b) = c2
    BY <1>5 DEF ForOpened, c2, e, s, next, body
  <2>6. ForBegun(u, x, L, c, b, Held(t, c, b), Gone(c, b), s, e, {}, {body})
    BY <1>5, <2>1, <2>3, <2>4, <2>5 DEF ForBegun, body
  <2> QED BY <2>6
<1>6. CASE x.decl
  <2> DEFINE s == <<Br({start})>>  e == c ++ In(b, s)
             s2 == <<Acquire(counter)>> \o <<Br({next})>>  c2 == e ++ In(start, s2)
             s3 == <<Acquire(copy)>>  c3 == c2 ++ In(body, s3)
             N == NamesOf(u)  T == Typing(u)
  <2>1. start[1] = L /\ start \in N /\ start \in BlocksOf(u) /\ HeldIn(u, start) = ScopeIn(u, L)
    <3>1. ForBlock(u, x, L, start, "start")
      BY <1>2, <1>6 DEF ForBlocks
    <3> QED BY <3>1 DEF ForBlock
  <2>2. Continued(u, c, b, s, Held(t, c, b), Gone(c, b), e) /\ s # <<>>
    <3>1. {start} \in SUBSET BlocksOf(u) /\ {start} \subseteq NamesOf(u) /\
          \A y \in {start} : HeldIn(u, y) = ScopeIn(u, L)
      BY <2>1
    <3>2. x.kind # "block" /\ s # <<>>
      OBVIOUS
    <3> HIDE DEF start
    <3> QED BY <3>1, <3>2, FirstBranch
  <2>3. counter \in N /\ copy \in N /\ counter[1] = L /\ copy[1] = L /\ counter # copy /\ start # body
    <3>1. counter \in N /\ copy \in N
      BY <1>1, Names DEF Parts
    <3> QED BY <3>1 DEF Blk
  <2>4. counter \notin ScopeIn(u, L) /\ copy \notin ScopeIn(u, L)
    <3>1. \A r \in ScopeIn(u, L) : r[1] \in 1..(L - 1)
      <4>1. L \in 0..Len(u)
        BY <1>1
      <4> QED BY <1>1, <4>1, ScopeBelow
    <3>2. L \notin 1..(L - 1)
      BY <1>1
    <3> QED BY <2>3, <3>1, <3>2
  <2>5. AcquireAll({counter}) = <<Acquire(counter)>> /\ AcquireAll({copy}) = s3
    BY DEF AcquireAll, Acquire
  <2> HIDE DEF start, body, next, counter, copy, s, s2, s3, e, c2, c3, N, T
  <2>6. Fills(u, e, {}, {}, e) /\ Was(e, body) = <<>> /\ Was(e, start) = <<>>
    BY <1>1, <1>3, <2>1, <2>2, Fresh
  <2>7. Runs(N, T, <<Acquire(counter)>>, ScopeIn(u, L), {}, ScopeIn(u, L) \cup {counter}, {})
    <3>1. {counter} \in SUBSET N /\ {counter} \cap (ScopeIn(u, L) \cup {}) = {}
      BY <2>3, <2>4
    <3> QED BY <2>5, <3>1, Acquiring
  <2>8. Runs(N, T, s2, ScopeIn(u, L), {}, ScopeIn(u, L) \cup {counter}, {}) /\ s2 \in Seq(Instructions(N))
    <3>1. {next} \in SUBSET BlocksOf(u) /\ {next} \subseteq NamesOf(u)
          /\ \A y \in {next} : HeldIn(u, y) \subseteq ScopeIn(u, L) \cup {counter}
                               /\ (TidyIn(u) => ScopeIn(u, L) \cup {counter} \subseteq HeldIn(u, y))
      BY <1>4, <1>6 DEF Counters, counter
    <3>2. Runs(NamesOf(u), Typing(u), <<Br({next})>>, ScopeIn(u, L) \cup {counter}, {}, ScopeIn(u, L) \cup {counter}, {})
      BY <3>1, RunBranch
    <3>3. Runs(N, T, s2, ScopeIn(u, L), {}, ScopeIn(u, L) \cup {counter}, {})
      BY <2>7, <3>2, RunBoth DEF s2, N, T
    <3> QED BY <3>3 DEF Runs
  <2>9. Fills(u, e, {start}, {start}, c2)
    <3>1. start \notin {} /\ {} \cup {start} = {start}
      OBVIOUS
    <3>2. CaughtIn(u) => Runs(NamesOf(u), Typing(u), s2, HeldIn(u, start), {}, ScopeIn(u, L) \cup {counter}, {})
      BY <2>1, <2>8 DEF N, T
    <3>3. start \in NamesOf(u) /\ s2 \in Seq(Instructions(NamesOf(u)))
      BY <2>1, <2>8 DEF N
    <3>4. FilledOne(u, e, {}, {}, start, s2, e ++ In(start, s2))
      BY <2>6, <3>1, <3>2, <3>3, FillOne
    <3> QED BY <3>1, <3>4 DEF FilledOne, c2
  <2>10. Runs(N, T, s3, ScopeIn(u, L) \cup {counter}, {}, (ScopeIn(u, L) \cup {counter}) \cup {copy}, {})
         /\ s3 \in Seq(Instructions(N))
    <3>1. {copy} \in SUBSET N /\ {copy} \cap ((ScopeIn(u, L) \cup {counter}) \cup {}) = {}
      BY <2>3, <2>4
    <3>2. Runs(N, T, AcquireAll({copy}), ScopeIn(u, L) \cup {counter}, {}, (ScopeIn(u, L) \cup {counter}) \cup {copy}, {})
      BY <3>1, Acquiring
    <3> QED BY <2>5, <3>2 DEF Runs
  <2>11. Fills(u, e, {start, body}, {start, body}, c3) /\ c3[body] = s3
    <3>1. body \notin {start} /\ {start} \cup {body} = {start, body}
      BY <2>3
    <3>2. CaughtIn(u) => Runs(NamesOf(u), Typing(u), s3, HeldIn(u, body), {}, (ScopeIn(u, L) \cup {counter}) \cup {copy}, {})
      BY <1>3, <1>6, <2>10 DEF N, T, Counters, counter
    <3>3. s3 \in Seq(Instructions(NamesOf(u)))
      BY <2>10 DEF N
    <3>4. FilledOne(u, e, {start}, {start}, body, s3, c2 ++ In(body, s3))
      BY <1>3, <2>6, <2>9, <3>1, <3>2, <3>3, FillOne
    <3> QED BY <3>1, <3>4 DEF FilledOne, c3
  <2>12. ForOpened(x, L, c, b) = c3
    BY <1>6 DEF ForOpened, c3, c2, e, s, s2, s3, next, body, start, counter, copy
  <2>13. ForBegun(u, x, L, c, b, Held(t, c, b), Gone(c, b), s, e, {start, body}, {start, body})
    BY <1>6, <2>2, <2>11, <2>12 DEF ForBegun, body, start, s3, copy
  <2> QED BY <2>13
<1> QED BY <1>5, <1>6

(* A for loop begins. *)
LEMMA OpenForStep ==
  ASSUME NEW t, NEW f, NEW x, NEW u, NEW L, NEW ex, NEW ls, NEW bs, NEW ps, NEW ss, NEW c, NEW b,
         Ready(t, f, x, u, L, ex, ls, bs, ps, ss, c, b), x.kind = "for",
         NEW g, g = Append(f, Frame(L, 1))
  PROVE  Matches(u, g, Append(ex, Blk(L, "exiting")), Append(ls, Blk(L, "latch")), Append(bs, L), ps,
                 IF x.decl THEN Append(ss, Scope({Blk(L, "copy")})) ELSE ss,
                 ForTested(x, L, ForTurned(x, L, ForOpened(x, L, c, b))), Blk(L, "body"))
<1> DEFINE cond == Blk(L, "cond")  body == Blk(L, "body")  latch == Blk(L, "latch")
           exit == Blk(L, "exiting")  end == Blk(L, "end")  next == AfterIteration(L, x.opts)
           copy == Blk(L, "copy")
           c2 == ForOpened(x, L, c, b)
           c3 == c2 ++ In(latch, <<Br({next})>>)
           c4 == c3 ++ In(exit, <<Br({end})>>)
           c5 == ForTested(x, L, c4)
<1>1. Len(u) = L /\ L \in 1..Len(u) /\ u[L] = x /\ Grows(t, u) /\ Shaped(u) /\ CodeMatches(t, f, c, b) /\ L = Len(t) + 1
  BY Begins DEF Ready
<1>0. Ahead(u, L) = {}
  BY <1>1 DEF Ahead
<1>2. Begun(t, f, x, u, L, 1, g)
  BY <1>1 DEF Begun, Ready, Fits, LeafKinds, JumpKinds
<1>3. ForBlocks(u, x, L)
  BY <1>1, ForBlocksAre
<1>4. \A y \in {body, latch, exit, end} :
        y[1] = L /\ y[2] # "pad" /\ y \in NamesOf(u) /\ y \in BlocksOf(u) /\
              HeldIn(u, y) = ScopeIn(u, L) \cup Counters(x, L)
  <2>1. /\ ForBlock(u, x, L, body, "body") /\ ForBlock(u, x, L, latch, "latch")
        /\ ForBlock(u, x, L, exit, "exiting") /\ ForBlock(u, x, L, end, "end")
    BY <1>3 DEF ForBlocks
  <2> HIDE DEF body, latch, exit, end
  <2> QED BY <2>1 DEF ForBlock
<1>5. next[1] = L /\ next \in NamesOf(u) /\ next \in BlocksOf(u) /\ HeldIn(u, next) = ScopeIn(u, L) \cup Counters(x, L)
  <2>1. ForBlock(u, x, L, next, next[2]) /\ next[2] # "start"
    BY <1>3 DEF ForBlocks
  <2> QED BY <2>1 DEF ForBlock
<1>6. "cond" \in x.opts =>
        cond[1] = L /\ cond \in NamesOf(u) /\ cond \in BlocksOf(u) /\
              HeldIn(u, cond) = ScopeIn(u, L) \cup Counters(x, L)
  <2>1. "cond" \in x.opts => ForBlock(u, x, L, cond, "cond")
    BY <1>3 DEF ForBlocks
  <2> QED BY <2>1 DEF ForBlock
<1>7. PICK s, e, F, D : ForBegun(u, x, L, c, b, Held(t, c, b), Gone(c, b), s, e, F, D)
  BY ForBegins
<1>8. /\ Continued(u, c, b, s, Held(t, c, b), Gone(c, b), e) /\ s # <<>> /\ Fills(u, e, F, D, c2)
      /\ F = (IF x.decl THEN {Blk(L, "start"), body} ELSE {})
      /\ D = (IF x.decl THEN {Blk(L, "start"), body} ELSE {body})
      /\ x.decl => c2[body] = <<Acquire(copy)>>
  BY <1>7 DEF ForBegun
<1>9. \A y : y[1] = L => Was(e, y) = <<>>
  BY <1>1, <1>8, Fresh
<1>10. /\ latch \notin F /\ exit \notin F /\ end \notin F /\ cond \notin F /\ Blk(L, "inc") \notin F
       /\ Owned(F, L) /\ body \in D /\ (~x.decl => body \notin F) /\ (x.decl => Blk(L, "start") \in D)
  <2>1. CASE x.decl
    <3>1. F = {Blk(L, "start"), body} /\ D = F
      BY <1>8, <2>1
    <3> QED BY <2>1, <3>1 DEF Blk, Owned
  <2>2. CASE ~x.decl
    <3>1. F = {} /\ D = {body}
      BY <1>8, <2>2
    <3> QED BY <2>2, <3>1 DEF Blk, Owned
  <2> QED BY <2>1, <2>2
<1>11. latch # exit /\ latch # cond /\ exit # cond /\ body # latch /\ body # exit /\ body # cond /\ body # end
       /\ end # latch /\ end # exit /\ end # cond
       /\ Blk(L, "inc") # body /\ Blk(L, "inc") # latch /\ Blk(L, "inc") # exit /\ Blk(L, "inc") # cond
       /\ cond[1] = L /\ cond[2] # "pad"
  BY DEF Blk
<1> HIDE DEF cond, body, latch, exit, end, next, copy, c2, c3, c4, c5
<1>12. Fills(u, e, F \cup {latch}, D \cup {latch}, c3)
  <2>1. {next} \in SUBSET BlocksOf(u) /\ {next} \subseteq NamesOf(u) /\
        \A y \in {next} : HeldIn(u, y) = HeldIn(u, latch)
    BY <1>4, <1>5
  <2> QED BY <1>4, <1>8, <1>9, <1>10, <2>1, FillBranch DEF c3
<1> DEFINE F4 == (F \cup {latch}) \cup {exit}  D4 == (D \cup {latch}) \cup {exit}
<1>13. Fills(u, e, F4, D4, c4)
  <2>1. {end} \in SUBSET BlocksOf(u) /\ {end} \subseteq NamesOf(u) /\ \A y \in {end} : HeldIn(u, y) = HeldIn(u, exit)
    BY <1>4
  <2>2. exit \notin F \cup {latch}
    BY <1>10, <1>11
  <2> QED BY <1>4, <1>9, <1>12, <2>1, <2>2, FillBranch DEF c4
<1> DEFINE F5 == IF "cond" \in x.opts THEN F4 \cup {cond} ELSE F4
           D5 == IF "cond" \in x.opts THEN D4 \cup {cond} ELSE D4
<1>14. Fills(u, e, F5, D5, c5)
  <2>1. CASE "cond" \in x.opts
    <3>1. {body, exit} \in SUBSET BlocksOf(u) /\ {body, exit} \subseteq NamesOf(u)
          /\ ScopeIn(u, cond[1]) \subseteq HeldIn(u, cond)
          /\ \A y \in {body, exit} : HeldIn(u, y) = HeldIn(u, cond)
      BY <1>4, <1>6, <2>1
    <3>2. cond \notin F4 /\ cond \in NamesOf(u) /\ Was(e, cond) = <<>>
      BY <1>6, <1>9, <1>10, <1>11, <2>1
    <3> HIDE DEF F4, D4
    <3>3. Fills(u, e, F4 \cup {cond}, D4 \cup {cond}, c4 ++ In(cond, <<Eval(cond), Br({body, exit})>>))
      BY <1>13, <3>1, <3>2, FillTest
    <3>4. c5 = c4 ++ In(cond, <<Eval(cond), Br({body, exit})>>)
      BY <2>1 DEF c5, ForTested, cond, body, exit
    <3> QED BY <2>1, <3>3, <3>4
  <2>2. CASE "cond" \notin x.opts
    <3>1. c5 = c4
      BY <2>2 DEF c5, ForTested
    <3> QED BY <1>13, <2>2, <3>1
  <2> QED BY <2>1, <2>2
<1>15. Now(u, g) = ScopeIn(u, L) \cup Keeps(u, L, 1) /\
      Keeps(u, L, 1) = (IF x.decl THEN {Blk(L, "counter"), copy} ELSE {})
  <2>1. Now(u, g) = ScopeIn(u, L) \cup Keeps(u, L, 1)
    BY <1>2, Began
  <2> QED BY <1>1, <2>1 DEF Keeps, copy
<1>16. PlaceIsRight(u, g, c5, body)
  <2>1. CASE ~x.decl
    <3>1. HeldIn(u, body) = Now(u, g)
      BY <1>4, <1>15, <2>1 DEF Counters
    <3>2. body \in D5 /\ body \notin F5 /\ Was(e, body) = <<>>
      BY <1>4, <1>9, <1>10, <1>11, <2>1
    <3> HIDE DEF F5, D5
    <3> QED BY <1>14, <3>1, <3>2, PlaceFresh
  <2>2. CASE x.decl
    <3>1. c5[body] = <<Acquire(copy)>>
      <4>1. body \in DOMAIN c2 /\ body \in DOMAIN c5
        <5>1. DOMAIN c2 = DOMAIN e \cup D /\ DOMAIN c5 = DOMAIN e \cup D5
          BY <1>8, <1>14 DEF Fills
        <5>2. body \in D /\ body \in D5
          BY <1>10
        <5> QED BY <5>1, <5>2
      <4>2. Was(c3, body) = Was(c2, body) /\ Was(c4, body) = Was(c3, body)
        <5>1. \A y : Was(c3, y) = IF y = latch THEN Was(c2, latch) \o <<Br({next})>> ELSE Was(c2, y)
          <6>1. Named(NamesOf(u), c2)
            BY <1>8 DEF Fills, Written
          <6>2. <<Br({next})>> \in Seq(Instructions(NamesOf(u)))
            BY <1>5, BranchNamed
          <6>3. Extends(c2, latch, <<Br({next})>>, c3)
            BY <1>4, <6>1, <6>2, Adding DEF c3
          <6> QED BY <6>3 DEF Extends
        <5>2. \A y : Was(c4, y) = IF y = exit THEN Was(c3, exit) \o <<Br({end})>> ELSE Was(c3, y)
          <6>1. Named(NamesOf(u), c3)
            BY <1>12 DEF Fills, Written
          <6>2. <<Br({end})>> \in Seq(Instructions(NamesOf(u)))
            BY <1>4, BranchNamed
          <6>3. Extends(c3, exit, <<Br({end})>>, c4)
            BY <1>4, <6>1, <6>2, Adding DEF c4
          <6> QED BY <6>3 DEF Extends
        <5> QED BY <1>11, <5>1, <5>2
      <4>3. Was(c5, body) = Was(c4, body)
        <5>1. CASE "cond" \in x.opts
          <6>1. Named(NamesOf(u), c4) /\ cond \in NamesOf(u)
            BY <1>6, <1>13, <5>1 DEF Fills, Written
          <6>2. <<Eval(cond), Br({body, exit})>> \in Seq(Instructions(NamesOf(u)))
            <7>1. Eval(cond) \in Instructions(NamesOf(u)) /\ Br({body, exit}) \in Instructions(NamesOf(u))
              <8>1. {body, exit} \in SUBSET NamesOf(u)
                BY <1>4
              <8> QED BY <6>1, <8>1, EvalNamed, BranchNamed
            <7> QED BY <7>1
          <6>3. Extends(c4, cond, <<Eval(cond), Br({body, exit})>>, c4 ++ In(cond, <<Eval(cond), Br({body, exit})>>))
            BY <6>1, <6>2, Adding
          <6>4. c5 = c4 ++ In(cond, <<Eval(cond), Br({body, exit})>>)
            BY <5>1 DEF c5, ForTested, cond, body, exit
          <6> QED BY <1>11, <6>3, <6>4 DEF Extends
        <5>2. CASE "cond" \notin x.opts
          BY <5>2 DEF c5, ForTested
        <5> QED BY <5>1, <5>2
      <4> QED BY <1>8, <2>2, <4>1, <4>2, <4>3 DEF Was
    <3>2. copy \notin HeldIn(u, body) /\ copy \in NamesOf(u)
      <4>1. copy \in NamesOf(u) /\ copy[1] = L /\ copy # Blk(L, "counter")
        <5>1. copy \in NamesOf(u)
          BY <1>1, Names DEF Parts, copy
        <5> QED BY <5>1 DEF copy, Blk
      <4>2. \A r \in ScopeIn(u, L) : r[1] \in 1..(L - 1)
        <5>1. L \in 0..Len(u)
          BY <1>1
        <5> QED BY <1>1, <5>1, ScopeBelow
      <4>3. L \notin 1..(L - 1)
        BY <1>1
      <4> QED BY <1>4, <4>1, <4>2, <4>3 DEF Counters
    <3>3. Runs(NamesOf(u), Typing(u), <<Acquire(copy)>>, HeldIn(u, body), {}, HeldIn(u, body) \cup {copy}, {})
      <4>1. {copy} \in SUBSET NamesOf(u) /\ {copy} \cap (HeldIn(u, body) \cup {}) = {}
        BY <3>2
      <4>2. AcquireAll({copy}) = <<Acquire(copy)>>
        BY DEF AcquireAll, Acquire
      <4> QED BY <4>1, <4>2, Acquiring
    <3>4. After(HeldIn(u, body), <<Acquire(copy)>>) = HeldIn(u, body) \cup {copy}
      <4>1. Leads(Typing(u), HeldIn(u, body), <<>>, HeldIn(u, body), {})
        BY Starting
      <4>2. <<>> \in Seq(Instructions(NamesOf(u))) /\ <<>> \o <<Acquire(copy)>> = <<Acquire(copy)>>
        OBVIOUS
      <4>3. Leads(Typing(u), HeldIn(u, body), <<>> \o <<Acquire(copy)>>, HeldIn(u, body) \cup {copy}, {})
        BY <3>3, <4>1, <4>2 DEF Runs
      <4> QED BY <4>2, <4>3 DEF Leads, After
    <3>5. HeldIn(u, body) \cup {copy} = Now(u, g)
      BY <1>4, <1>15, <2>2 DEF Counters
    <3>6. ~Terminated(c5, body)
      <4>1. Top(<<Acquire(copy)>>) = Acquire(copy)
        BY DEF Top
      <4> QED BY <3>1, <4>1 DEF Terminated, IsTerminator, Acquire
    <3> QED BY <3>1, <3>4, <3>5, <3>6 DEF PlaceIsRight
  <2> QED BY <2>1, <2>2
<1>17. Made(u, L) \subseteq D5 \cup Reserved(u, L, 1) /\ \A y \in Reserved(u, L, 1) : y # body /\ y \notin F5
  <2>1. Reserved(u, L, 1) = {end} \cup (IF "inc" \in x.opts THEN {Blk(L, "inc")} ELSE {})
    BY <1>1 DEF Reserved, end
  <2>2. Made(u, L) = {body, latch, exit, end} \cup (IF x.decl THEN {Blk(L, "start")} ELSE {})
                     \cup (IF "cond" \in x.opts THEN {cond} ELSE {}) \cup (IF "inc" \in x.opts THEN {Blk(L, "inc")} ELSE {})
    BY <1>1 DEF Made, body, latch, exit, end, cond
  <2> QED BY <1>10, <1>11, <2>1, <2>2
<1>18. Owned(F5, L) /\ Owned({body}, L) /\ body \in D5
  BY <1>4, <1>10, <1>11 DEF Owned
<1> HIDE DEF F4, D4, F5, D5
<1>19. Prepared(u, g, L, 1, e, F5, D5, c5, body)
  BY <1>0, <1>1, <1>14, <1>16, <1>17, <1>18 DEF Prepared
<1>20. Opens(u, g, x, L, ex, ls, bs, ps, ss, c5, body)
  BY <1>2, <1>8, <1>19, Opening
<1>21. x.kind \in Breakable /\ x.kind \in LoopKinds /\ x.kind # "try" /\ (Scoped(u, L) <=> x.decl) /\
      Declared(u, L) = {copy}
  BY <1>1 DEF Breakable, LoopKinds, Scoped, Declared, copy
<1>22. Matches(u, g, Append(ex, Blk(L, "exiting")), Append(ls, Blk(L, "latch")), Append(bs, L), ps,
               IF x.decl THEN Append(ss, Scope({copy})) ELSE ss, c5, body)
  BY <1>20, <1>21 DEF Opens, Pushed
<1>23. c4 = ForTurned(x, L, ForOpened(x, L, c, b))
  BY DEF c4, c3, c2, ForTurned, latch, exit, end, next
<1> QED BY <1>22, <1>23 DEF c5, body, copy

-----------------------------------------------------------------------------
(* Loops over an iterator *)

IteratorOpened(L, c, b) ==
  c ++ In(b, <<Acquire(Blk(L, "element"))>> \o <<Br({Blk(L, "latch")})>>)
    ++ In(Blk(L, "latch"), <<Br({Blk(L, "cond")})>>)
    ++ In(Blk(L, "cond"), <<Eval(Blk(L, "cond")), Br({Blk(L, "exiting"), Blk(L, "incrementor")})>>)
    ++ In(Blk(L, "incrementor"), <<Br({Blk(L, "body")})>>)
    ++ In(Blk(L, "body"), <<>>) ++ In(Blk(L, "exiting"), <<>>) ++ In(Blk(L, "end"), <<>>)

(* A loop over an iterator begins, given what it evaluates. *)
LEMMA IterateStep ==
  ASSUME NEW t, NEW f, NEW x, NEW u, NEW L, NEW ex, NEW ls, NEW bs, NEW ps, NEW ss, NEW c, NEW b,
         Ready(t, f, x, u, L, ex, ls, bs, ps, ss, c, b), x.kind \in {"forof", "forin"},
         NEW g, g = Append(f, Frame(L, 1))
  PROVE  Opens(u, g, x, L, ex, ls, bs, ps, ss, IteratorOpened(L, c, b), Blk(L, "body"))
<1> DEFINE cond == Blk(L, "cond")  inc == Blk(L, "incrementor")  body == Blk(L, "body")
         latch == Blk(L, "latch")  exit == Blk(L, "exiting")  end == Blk(L, "end")  element == Blk(L, "element")
           s == <<Acquire(element)>> \o <<Br({latch})>>
           h == Held(t, c, b)  d == Gone(c, b)
           e == c ++ In(b, s)
           c2 == e ++ In(latch, <<Br({cond})>>)
           c3 == c2 ++ In(cond, <<Eval(cond), Br({exit, inc})>>)
           c4 == c3 ++ In(inc, <<Br({body})>>)
           c5 == c4 ++ In(body, <<>>)
           c6 == c5 ++ In(exit, <<>>)
           c7 == c6 ++ In(end, <<>>)
<1>1. Len(u) = L /\ L \in 1..Len(u) /\ u[L] = x /\ Grows(t, u) /\ Shaped(t) /\ CodeMatches(t, f, c, b) /\ b \in DOMAIN c
      /\ L = Len(t) + 1 /\ (CaughtIn(u) /\ WellBlocks(c) /\ ~Terminated(c, b) => HeldAs(u, L, h))
  BY Begins DEF Ready
<1>0. Ahead(u, L) = {exit, end}
  BY <1>1 DEF Ahead
<1>2. Begun(t, f, x, u, L, 1, g)
  <2>1. Stands(t, f, x, u)
    BY DEF Ready
  <2>2. Fits(u, L, 1) /\ x.kind \notin LeafKinds /\ x.kind # "try"
    BY <1>1 DEF Fits, LeafKinds, JumpKinds
  <2> QED BY <1>1, <2>1, <2>2 DEF Begun
<1>3. Made(u, L) = {cond, inc, body, latch, exit, end} /\ Reserved(u, L, 1) = {exit, end} /\
      (\A part : OwnHeld(u, L, part) = {element})
      /\ Keeps(u, L, 1) = {element}
  BY <1>1 DEF Made, Reserved, OwnHeld, Keeps
<1>4. OwnBlocks(u, L, {cond, inc, body, latch, exit, end})
  <2> DEFINE P == {"cond", "incrementor", "body", "latch", "exiting", "end"}
  <2>1. P \in SUBSET (Parts \ {"pad"}) /\ x.kind \notin {"block", "throw"}
    BY DEF Parts
  <2>2. \A part \in P : Blk(L, part) \in Made(u, L)
    BY <1>3
  <2>3. {Blk(L, part) : part \in P} = {cond, inc, body, latch, exit, end}
    OBVIOUS
  <2> HIDE DEF P
  <2>4. OwnBlocks(u, L, {Blk(L, part) : part \in P})
    BY <2>1, <2>2, OwnBlocksAre
  <2> QED BY <2>3, <2>4
<1>5. \A y \in {cond, inc, body, latch, exit, end} : /\ HeldIn(u, y) = ScopeIn(u, L) \cup {element}
        /\ y \in NamesOf(u) /\ y \in BlocksOf(u) /\ y[1] = L /\ y[2] # "pad"
  BY <1>3, <1>4 DEF OwnBlocks, Owned
<1>6. cond # inc /\ cond # body /\ cond # latch /\ cond # exit /\ cond # end /\ inc # body /\ inc # latch /\
      inc # exit /\ inc # end /\ body # latch /\ body # exit /\ body # end /\ latch # exit /\ latch # end /\
      exit # end
  BY DEF Blk
<1>7. {element} \in SUBSET NamesOf(u) /\ {element} \cap (h \cup d) = {}
  <2>1. element \in NamesOf(u)
    BY <1>1, Names DEF Parts
  <2>2. Named(NamesOf(t), c)
    BY <1>1 DEF CodeMatches, Written
  <2>3. h \in SUBSET NamesOf(t) /\ d \in SUBSET NamesOf(t)
    BY <1>1, <2>2, HeldHere
  <2>4. L \in Int /\ L \notin 1..Len(t)
    BY <1>1, NamesGrow
  <2> HIDE DEF h, d
  <2>5. element \notin h /\ element \notin d
    BY <2>3, <2>4, NothingOf
  <2> QED BY <2>1, <2>5
<1>8. AcquireAll({element}) = <<Acquire(element)>>
  BY DEF AcquireAll, Acquire
<1>9. s \in Seq(Instructions(NamesOf(u))) /\ s # <<>>
  <2>1. <<Acquire(element)>> \in Seq(Instructions(NamesOf(u)))
    BY <1>7, <1>8, AcquireNamed
  <2>2. {latch} \in SUBSET NamesOf(u)
    BY <1>5
  <2> HIDE DEF latch, element
  <2>3. Br({latch}) \in Instructions(NamesOf(u)) /\ <<Br({latch})>> \in Seq(Instructions(NamesOf(u)))
    BY <2>2, BranchNamed
  <2> QED BY <2>1, <2>3
<1> HIDE DEF cond, inc, body, latch, exit, end, element, h, d
<1>10. CaughtIn(u) /\ WellBlocks(c) /\ ~Terminated(c, b) =>
         Runs(NamesOf(u), Typing(u), s, h, d, h \cup {element}, d)
  <2>1. SUFFICES ASSUME HeldAs(u, L, h)
                 PROVE  Runs(NamesOf(u), Typing(u), s, h, d, h \cup {element}, d)
    BY <1>1
  <2>2. Runs(NamesOf(u), Typing(u), <<Acquire(element)>>, h, d, h \cup {element}, d)
    BY <1>7, <1>8, Acquiring
  <2>3. {latch} \in SUBSET BlocksOf(u) /\ {latch} \subseteq NamesOf(u)
        /\ \A y \in {latch} : HeldIn(u, y) \subseteq h \cup {element} /\
              (TidyIn(u) => h \cup {element} \subseteq HeldIn(u, y))
    BY <1>5, <2>1 DEF HeldAs
  <2>4. Runs(NamesOf(u), Typing(u), <<Br({latch})>>, h \cup {element}, d, h \cup {element}, d)
    BY <2>3, RunBranch
  <2> QED BY <2>2, <2>4, RunBoth
<1> HIDE DEF s
<1>11. Continued(u, c, b, s, h \cup {element}, d, e)
  <2>1. CaughtIn(u) /\ WellBlocks(c) /\ (s # <<>> => ~Terminated(c, b)) =>
          Runs(NamesOf(u), Typing(u), s, Held(t, c, b), Gone(c, b), h \cup {element}, d)
    BY <1>9, <1>10 DEF h, d
  <2> QED BY <1>1, <1>9, <2>1, Emits
<1> HIDE DEF e, c2, c3, c4, c5, c6, c7
<1>12. Fills(u, e, {}, {}, e) /\ \A y \in {cond, inc, body, latch, exit, end} : Was(e, y) = <<>>
  BY <1>1, <1>5, <1>11, Fresh
<1>13. Fills(u, e, {latch}, {latch}, c2)
  <2>1. latch \notin {} /\ latch \in NamesOf(u) /\ {} \cup {latch} = {latch} /\ {} \cup {latch} = {latch}
    BY <1>5, <1>6
  <2>2. {cond} \in SUBSET BlocksOf(u) /\ {cond} \subseteq NamesOf(u)
        /\ \A y \in {cond} : HeldIn(u, y) = HeldIn(u, latch)
    BY <1>5
  <2>3. Fills(u, e, {} \cup {latch}, {} \cup {latch}, c2)
    BY <1>12, <1>12, <2>1, <2>2, FillBranch DEF c2
  <2> QED BY <2>1, <2>3
<1>14. Fills(u, e, {latch, cond}, {latch, cond}, c3)
  <2>1. cond \notin {latch} /\ cond \in NamesOf(u) /\ {latch} \cup {cond} = {latch, cond} /\
        {latch} \cup {cond} = {latch, cond}
    BY <1>5, <1>6
  <2>2. {exit, inc} \in SUBSET BlocksOf(u) /\ {exit, inc} \subseteq NamesOf(u) /\
        ScopeIn(u, cond[1]) \subseteq HeldIn(u, cond)
        /\ \A y \in {exit, inc} : HeldIn(u, y) = HeldIn(u, cond)
    BY <1>5
  <2>3. Fills(u, e, {latch} \cup {cond}, {latch} \cup {cond}, c3)
    BY <1>12, <1>13, <2>1, <2>2, FillTest DEF c3
  <2> QED BY <2>1, <2>3
<1>15. Fills(u, e, {latch, cond, inc}, {latch, cond, inc}, c4)
  <2>1. inc \notin {latch, cond} /\ inc \in NamesOf(u) /\ {latch, cond} \cup {inc} = {latch, cond, inc} /\
        {latch, cond} \cup {inc} = {latch, cond, inc}
    BY <1>5, <1>6
  <2>2. {body} \in SUBSET BlocksOf(u) /\ {body} \subseteq NamesOf(u)
        /\ \A y \in {body} : HeldIn(u, y) = HeldIn(u, inc)
    BY <1>5
  <2>3. Fills(u, e, {latch, cond} \cup {inc}, {latch, cond} \cup {inc}, c4)
    BY <1>12, <1>14, <2>1, <2>2, FillBranch DEF c4
  <2> QED BY <2>1, <2>3
<1>16. Fills(u, e, {latch, cond, inc}, {latch, cond, inc, body}, c5)
  <2>1. body \notin {latch, cond, inc} /\ body \in NamesOf(u) /\
        {latch, cond, inc} \cup {body} = {latch, cond, inc, body}
    BY <1>5, <1>6
  <2>2. Fills(u, e, {latch, cond, inc}, {latch, cond, inc} \cup {body}, c5)
    BY <1>12, <1>15, <2>1, FillEmpty DEF c5
  <2> QED BY <2>1, <2>2
<1>17. Fills(u, e, {latch, cond, inc}, {latch, cond, inc, body, exit}, c6)
  <2>1. exit \notin {latch, cond, inc} /\ exit \in NamesOf(u) /\
        {latch, cond, inc, body} \cup {exit} = {latch, cond, inc, body, exit}
    BY <1>5, <1>6
  <2>2. Fills(u, e, {latch, cond, inc}, {latch, cond, inc, body} \cup {exit}, c6)
    BY <1>12, <1>16, <2>1, FillEmpty DEF c6
  <2> QED BY <2>1, <2>2
<1>18. Fills(u, e, {latch, cond, inc}, {latch, cond, inc, body, exit, end}, c7)
  <2>1. end \notin {latch, cond, inc} /\ end \in NamesOf(u) /\
        {latch, cond, inc, body, exit} \cup {end} = {latch, cond, inc, body, exit, end}
    BY <1>5, <1>6
  <2>2. Fills(u, e, {latch, cond, inc}, {latch, cond, inc, body, exit} \cup {end}, c7)
    BY <1>12, <1>17, <2>1, FillEmpty DEF c7
  <2> QED BY <2>1, <2>2
<1>19. PlaceIsRight(u, g, c7, body)
  <2>1. Now(u, g) = ScopeIn(u, L) \cup Keeps(u, L, 1)
    BY <1>2, Began
  <2>2. HeldIn(u, body) = Now(u, g)
    BY <1>3, <1>5, <2>1
  <2>3. body \in {latch, cond, inc, body, exit, end} /\ body \notin {latch, cond, inc}
    BY <1>6
  <2> QED BY <1>12, <1>18, <2>2, <2>3, PlaceFresh
<1>20. Opens(u, g, x, L, ex, ls, bs, ps, ss, c7, body)
  <2>1. Owned({latch, cond, inc}, L) /\ Owned({body}, L) /\ body \in {latch, cond, inc, body, exit, end}
    BY <1>5 DEF Owned
  <2>2. Made(u, L) \subseteq {latch, cond, inc, body, exit, end} \cup Reserved(u, L, 1) /\
        \A y \in Reserved(u, L, 1) : y # body /\ y \notin {latch, cond, inc}
    BY <1>3, <1>6
  <2>3. x.kind # "try" /\ x.kind # "block"
    OBVIOUS
  <2>4. Prepared(u, g, L, 1, e, {latch, cond, inc}, {latch, cond, inc, body, exit, end}, c7, body)
    BY <1>0, <1>1, <1>18, <1>19, <2>1, <2>2, <2>3 DEF Prepared
  <2> QED BY <1>2, <1>9, <1>11, <2>3, <2>4, Opening
<1> QED BY <1>20 DEF c7, c6, c5, c4, c3, c2, e, s, cond, inc, body, latch, exit, end, element, IteratorOpened

(* A for..of or for..in loop begins. *)
LEMMA OpenForOfStep ==
  ASSUME NEW t, NEW f, NEW x, NEW u, NEW L, NEW ex, NEW ls, NEW bs, NEW ps, NEW ss, NEW c, NEW b,
         Ready(t, f, x, u, L, ex, ls, bs, ps, ss, c, b), x.kind \in {"forof", "forin"},
         NEW g, g = Append(f, Frame(L, 1))
  PROVE  Matches(u, g, Append(ex, Blk(L, "exiting")), Append(ls, Blk(L, "latch")), bs, ps,
                 Append(ss, Scope(IF x.kind = "forof" /\ "tuple" \in x.opts THEN {} ELSE {Blk(L, "element")})),
                 IteratorOpened(L, c, b), Blk(L, "body"))
<1>1. L \in 1..Len(u) /\ u[L] = x
  BY Begins
<1>2. Opens(u, g, x, L, ex, ls, bs, ps, ss, IteratorOpened(L, c, b), Blk(L, "body"))
  BY IterateStep
<1>3. x.kind \in Breakable /\ x.kind \in LoopKinds /\ x.kind # "for" /\ x.kind # "try" /\ Scoped(u, L)
      /\ Declared(u, L) = IF x.kind = "forof" /\ "tuple" \in x.opts THEN {} ELSE {Blk(L, "element")}
  BY <1>1 DEF Breakable, LoopKinds, Scoped, Declared
<1> QED BY <1>2, <1>3 DEF Opens, Pushed

-----------------------------------------------------------------------------
(* Try and switch *)

(* A try statement begins. *)
LEMMA OpenTryStep ==
  ASSUME NEW t, NEW f, NEW x, NEW u, NEW L, NEW ex, NEW ls, NEW bs, NEW ps, NEW ss, NEW c, NEW b,
         Ready(t, f, x, u, L, ex, ls, bs, ps, ss, c, b), x.kind = "try",
         NEW g, g = Append(f, Frame(L, 1))
  PROVE  Matches(u, g, ex, ls, bs, Append(ps, Blk(L, "pad")), ss,
                 c ++ In(b, <<Br({Blk(L, "try")})>>) ++ In(Blk(L, "try"), <<>>) ++ In(Blk(L, "pad"), <<>>),
                 Blk(L, "try"))
<1> DEFINE try == Blk(L, "try")  pad == Blk(L, "pad")
           s == <<Br({try})>>
           e == c ++ In(b, s)
           c2 == e ++ In(try, <<>>)
           c3 == c2 ++ In(pad, <<>>)
<1>1. Len(u) = L /\ L \in 1..Len(u) /\ u[L] = x /\ Grows(t, u) /\ CodeMatches(t, f, c, b)
  BY Begins
<1>0. Ahead(u, L) = {}
  BY <1>1 DEF Ahead
<1>2. Begun(t, f, x, u, L, 1, g)
  BY <1>1 DEF Begun, Ready, Fits, LeafKinds, JumpKinds
<1>3. Made(u, L) = {try, pad, Blk(L, "after")} /\ Reserved(u, L, 1) = {Blk(L, "after")} /\
      (\A part : OwnHeld(u, L, part) = {})
      /\ Keeps(u, L, 1) = {} /\ ~Scoped(u, L)
  BY <1>1 DEF Made, Reserved, OwnHeld, Keeps, Scoped
<1>4. pad \in NamesOf(u) /\ pad[1] = L /\ pad[2] = "pad"
  <2>1. pad \in NamesOf(u)
    BY <1>1, Names DEF Parts
  <2> QED BY <2>1 DEF Blk
<1>5. HeldIn(u, try) = ScopeIn(u, L) /\ try \in NamesOf(u) /\ try \in BlocksOf(u) /\ try[1] = L /\ try[2] # "pad"
  <2>1. try \in NamesOf(u) /\ try[1] = L /\ try[2] = "try"
    <3>1. try \in NamesOf(u)
      BY <1>1, Names DEF Parts
    <3> QED BY <3>1 DEF Blk
  <2>2. try \in BlocksOf(u)
    BY <1>1, <1>3 DEF BlocksOf
  <2>3. HeldIn(u, Blk(L, "try")) = ScopeIn(u, L) \cup OwnHeld(u, L, "try")
    BY <1>1, HeldAre
  <2> QED BY <1>3, <2>1, <2>2, <2>3
<1>6. try # pad /\ Blk(L, "after") # try
  BY DEF Blk
<1> HIDE DEF try, pad
<1>7. Continued(u, c, b, s, Held(t, c, b), Gone(c, b), e) /\ s # <<>>
  <2>1. {try} \in SUBSET BlocksOf(u) /\ {try} \subseteq NamesOf(u) /\ \A y \in {try} : HeldIn(u, y) = ScopeIn(u, L)
    BY <1>5
  <2>2. x.kind # "block" /\ s # <<>>
    OBVIOUS
  <2>3. Continued(u, c, b, s, Held(t, c, b), Gone(c, b), e)
    BY <2>1, <2>2, FirstBranch
  <2> QED BY <2>2, <2>3
<1> HIDE DEF s, e, c2, c3
<1>8. Fills(u, e, {}, {}, e) /\ Was(e, try) = <<>> /\ Was(e, pad) = <<>>
  BY <1>1, <1>4, <1>5, <1>7, Fresh DEF Ready
<1>9. Fills(u, e, {}, {try}, c2)
  <2>1. try \notin {} /\ {} \cup {try} = {try}
    OBVIOUS
  <2>2. Fills(u, e, {}, {} \cup {try}, c2)
    BY <1>5, <1>8, <2>1, FillEmpty DEF c2
  <2> QED BY <2>1, <2>2
<1>10. Fills(u, e, {}, {try, pad}, c3)
  <2>1. pad \notin {} /\ {try} \cup {pad} = {try, pad}
    OBVIOUS
  <2>2. Fills(u, e, {}, {try} \cup {pad}, c3)
    BY <1>4, <1>8, <1>9, <2>1, FillEmpty DEF c3
  <2> QED BY <2>1, <2>2
<1>11. PlaceIsRight(u, g, c3, try)
  <2>1. Now(u, g) = ScopeIn(u, L) \cup Keeps(u, L, 1)
    BY <1>2, Began
  <2>2. HeldIn(u, try) = Now(u, g) /\ try \in {try, pad} /\ try \notin {}
    BY <1>3, <1>5, <2>1
  <2> QED BY <1>8, <1>10, <2>2, PlaceFresh
<1>12. Opens(u, g, x, L, ex, ls, bs, ps, ss, c3, try)
  <2>1. Owned({}, L) /\ Owned({try}, L) /\ try \in {try, pad} /\ Blk(L, "pad") \in {try, pad}
    BY <1>5 DEF Owned, pad
  <2>2. Made(u, L) \subseteq {try, pad} \cup Reserved(u, L, 1) /\ \A y \in Reserved(u, L, 1) : y # try /\ y \notin {}
    BY <1>3, <1>6
  <2>3. Prepared(u, g, L, 1, e, {}, {try, pad}, c3, try)
    BY <1>0, <1>1, <1>10, <1>11, <2>1, <2>2 DEF Prepared
  <2> QED BY <1>2, <1>7, <2>3, Opening
<1>13. x.kind \notin Breakable /\ x.kind \notin LoopKinds /\ x.kind # "for" /\ x.kind = "try"
  BY DEF Breakable, LoopKinds
<1>14. Matches(u, g, ex, ls, bs, Append(ps, pad), ss, c3, try)
  BY <1>3, <1>12, <1>13 DEF Pushed, Opens, pad
<1> QED BY <1>14 DEF c3, c2, e, s, try, pad

(* Several empty blocks at once.                                           *)
LEMMA FillEmpties ==
  ASSUME NEW t, NEW c, NEW F, NEW D, NEW e, Fills(t, c, F, D, e),
         NEW B \in SUBSET NamesOf(t), \A y \in B : y \notin F /\ Was(c, y) = <<>>
  PROVE  Fills(t, c, F, D \cup B, e ++ [y \in B |-> <<>>])
<1> DEFINE new == [y \in B |-> <<>>]  e2 == e ++ new  T == Typing(t)
<1>1. Written(NamesOf(t), T, e) /\ DOMAIN e = DOMAIN c \cup D /\ (\A x : x \notin F => Was(e, x) = Was(c, x))
      /\ (WellBlocks(e) => WellBlocks(c)) /\ F \subseteq D
  BY DEF Fills
<1>2. DOMAIN new = B /\ \A y \in B : new[y] = <<>>
  OBVIOUS
<1>3. \A m : TypedSeq(T, m, <<>>)
  BY Starting DEF Leads
<1>4. <<>> \in Seq(Instructions(NamesOf(t)))
  BY EmptySeq
<1> HIDE DEF new, T
<1>5. Fillable(NamesOf(t), T, e, new)
  BY <1>1, <1>2, <1>3, <1>4 DEF Fillable
<1>6. AllFilled(NamesOf(t), T, e, new, e2)
  BY <1>1, <1>5, FillingAll
<1> HIDE DEF e2
<1>7. Written(NamesOf(t), T, e2) /\ DOMAIN e2 = DOMAIN e \cup B /\ (WellBlocks(e2) => WellBlocks(e))
      /\ \A x : Was(e2, x) = IF x \in B THEN <<>> ELSE Was(e, x)
  BY <1>2, <1>6 DEF AllFilled
<1>8. \A x : x \notin F => Was(e2, x) = Was(c, x)
  BY <1>1, <1>7
<1>9. Fills(t, c, F, D \cup B, e2)
  BY <1>1, <1>7, <1>8 DEF Fills, T
<1> QED BY <1>9 DEF e2, new

(* The clauses of a switch in the order of their code, and its cases. *)
Order(q, o, cs) ==
  /\ Len(q) \in Nat \ {0} /\ DOMAIN q = 1..Len(q)
  /\ o \in Seq(1..Len(q)) /\ Len(o) = Len(q) /\ DOMAIN o = 1..Len(q)
  /\ cs \in Seq(1..Len(q)) /\ Len(cs) \in Nat /\ Len(cs) <= Len(q)
  /\ \A k \in 1..Len(cs) : cs[k] = o[k]
  /\ \A i \in 1..Len(q) : \E k \in 1..Len(q) : o[k] = i
  /\ \A j, k \in 1..Len(q) : o[j] = o[k] => j = k

Shift(k, d, n) == IF k < d THEN k ELSE IF k < n THEN k + 1 ELSE d

(* Moving the default clause to the end keeps places apart. *)
LEMMA ShiftedPlaces ==
  ASSUME NEW n \in Nat \ {0}, NEW d \in 1..n, NEW j \in 1..n, NEW k \in 1..n, Shift(j, d, n) = Shift(k, d, n)
  PROVE  j = k
<1>1. j \in Int /\ k \in Int /\ d \in Int /\ n \in Int /\ 1 <= j /\ j <= n /\ 1 <= k /\ k <= n /\ 1 <= d /\ d <= n
  OBVIOUS
<1>2. CASE j < d /\ k < d
  BY <1>1, <1>2 DEF Shift
<1>3. CASE j < d /\ ~(k < d) /\ k < n
  BY <1>1, <1>3 DEF Shift
<1>4. CASE j < d /\ ~(k < d) /\ ~(k < n)
  BY <1>1, <1>4 DEF Shift
<1>5. CASE ~(j < d) /\ j < n /\ k < d
  BY <1>1, <1>5 DEF Shift
<1>6. CASE ~(j < d) /\ j < n /\ ~(k < d) /\ k < n
  BY <1>1, <1>6 DEF Shift
<1>7. CASE ~(j < d) /\ j < n /\ ~(k < d) /\ ~(k < n)
  BY <1>1, <1>7 DEF Shift
<1>8. CASE ~(j < d) /\ ~(j < n) /\ k < d
  BY <1>1, <1>8 DEF Shift
<1>9. CASE ~(j < d) /\ ~(j < n) /\ ~(k < d) /\ k < n
  BY <1>1, <1>9 DEF Shift
<1>10. CASE ~(j < d) /\ ~(j < n) /\ ~(k < d) /\ ~(k < n)
  BY <1>1, <1>10
<1> QED BY <1>2, <1>3, <1>4, <1>5, <1>6, <1>7, <1>8, <1>9, <1>10

(* The order in which a switch compiles its clauses has each once. *)
LEMMA OrderIs ==
  ASSUME NEW S, NEW q \in Seq(S), q # <<>>, \A j, k \in Defaults(q) : j = k
  PROVE  Order(q, Ordered(q), Cases(q))
<1> DEFINE N == Len(q)  o == Ordered(q)
<1>1. N \in Nat \ {0} /\ DOMAIN q = 1..N
  OBVIOUS
<1>2. CASE Defaults(q) = {}
  <2>1. o = [k \in 1..N |-> k]
    BY <1>2 DEF Ordered
  <2> HIDE DEF o
  <2>2. o \in Seq(1..N) /\ Len(o) = N /\ DOMAIN o = 1..N /\ \A k \in 1..N : o[k] = k
    BY <1>1, <2>1
  <2>3. Cases(q) = o
    BY <1>2 DEF Cases, o
  <2> QED BY <1>1, <2>2, <2>3 DEF Order, o
<1>3. CASE Defaults(q) # {}
  <2>1. PICK d \in 1..N : Defaults(q) = {d}
    BY <1>1, <1>3 DEF Defaults
  <2>2. (CHOOSE x \in Defaults(q) : TRUE) = d
    BY <2>1
  <2>3. o = [k \in 1..N |-> IF k < d THEN k ELSE IF k < N THEN k + 1 ELSE d]
    BY <2>1, <2>2 DEF Ordered
  <2> HIDE DEF o
  <2>4. DOMAIN o = 1..N /\ \A k \in 1..N : o[k] = IF k < d THEN k ELSE IF k < N THEN k + 1 ELSE d
    BY <2>3
  <2>5. \A k \in 1..N : o[k] \in 1..N
    BY <1>1, <2>4
  <2>6. o \in Seq(1..N) /\ Len(o) = N
    <3>1. o \in [1..N -> 1..N]
      BY <2>3, <2>4, <2>5
    <3> QED BY <1>1, <3>1
  <2>7. \A i \in 1..N : \E k \in 1..N : o[k] = i
    <3> SUFFICES ASSUME NEW i \in 1..N
                 PROVE  \E k \in 1..N : o[k] = i
      OBVIOUS
    <3>1. CASE i < d
      BY <1>1, <2>4, <3>1
    <3>2. CASE i = d
      <4>1. N \in 1..N /\ ~(N < d) /\ ~(N < N)
        BY <1>1
      <4> QED BY <2>4, <3>2, <4>1
    <3>3. CASE i > d
      <4>1. i - 1 \in 1..N /\ ~(i - 1 < d) /\ i - 1 < N /\ (i - 1) + 1 = i
        BY <1>1, <3>3
      <4> QED BY <2>4, <4>1
    <3> QED BY <1>1, <3>1, <3>2, <3>3
  <2>8. \A j, k \in 1..N : o[j] = o[k] => j = k
    <3> SUFFICES ASSUME NEW j \in 1..N, NEW k \in 1..N, o[j] = o[k]
                 PROVE  j = k
      OBVIOUS
    <3>1. Shift(j, d, N) = Shift(k, d, N)
      BY <2>4 DEF Shift
    <3> QED BY <1>1, <3>1, ShiftedPlaces
  <2>9. Cases(q) = Pop(o)
    BY <1>3 DEF Cases, o
  <2>10. Pop(o) \in Seq(1..N) /\ Len(Pop(o)) = N - 1 /\ \A k \in 1..(N - 1) : Pop(o)[k] = o[k]
    <3>1. o # <<>>
      BY <1>1, <2>6
    <3>2. \A i \in 1..(Len(o) - 1) : Pop(o)[i] = o[i]
      BY <2>6, <3>1, TopAndPop
    <3>3. Pop(o) \in Seq(1..N) /\ Len(Pop(o)) = Len(o) - 1
      BY <2>6, <3>1, TopAndPop
    <3> QED BY <2>6, <3>2, <3>3
  <2> DEFINE cs == Cases(q)
  <2> HIDE DEF cs
  <2>11. cs \in Seq(1..N) /\ Len(cs) = N - 1
    BY <2>9, <2>10 DEF cs
  <2>12. Len(cs) \in Nat /\ Len(cs) <= N
    BY <1>1, <2>11
  <2>13. \A k \in 1..Len(cs) : cs[k] = o[k]
    BY <2>9, <2>10, <2>11 DEF cs
  <2> HIDE DEF N
  <2>14. Order(q, o, cs)
    BY <1>1, <2>4, <2>6, <2>7, <2>8, <2>11, <2>12, <2>13 DEF Order, N
  <2> QED BY <2>14 DEF o, cs
<1> QED BY <1>2, <1>3

(* The blocks of a switch. *)
SwitchBlock(u, L, y) == y \in NamesOf(u) /\ y[1] = L /\ y[2] # "pad" /\ HeldIn(u, y) = ScopeIn(u, L)

(* The blocks of a switch. *)
LEMMA SwitchBlocks ==
  ASSUME NEW u, NEW L \in 1..Len(u), u[L].kind = "switch"
  PROVE  /\ \A part \in {"switch", "exiting", "end"} : SwitchBlock(u, L, Blk(L, part))
         /\ \A i \in Nat : SwitchBlock(u, L, Clause(L, i)) /\ SwitchBlock(u, L, Test(L, i))
<1>1. \A part : OwnHeld(u, L, part) = {}
  BY DEF OwnHeld
<1>2. ASSUME NEW part \in {"switch", "exiting", "end", "clause", "test"}, NEW i \in Nat
      PROVE  SwitchBlock(u, L, Part(L, part, i)) /\ SwitchBlock(u, L, Blk(L, part))
  <2>1. part \in Parts /\ part # "pad" /\ u[L].kind # "throw"
    BY DEF Parts
  <2>2. Part(L, part, i) \in NamesOf(u) /\ Blk(L, part) \in NamesOf(u)
    BY <2>1, Names
  <2>3. HeldIn(u, Part(L, part, i)) = ScopeIn(u, L) /\ HeldIn(u, Blk(L, part)) = ScopeIn(u, L)
    BY <1>1, <2>1, HeldAre
  <2>4. Part(L, part, i)[1] = L /\ Part(L, part, i)[2] = part /\ Blk(L, part)[1] = L /\ Blk(L, part)[2] = part
    BY DEF Part, Blk
  <2> QED BY <2>1, <2>2, <2>3, <2>4 DEF SwitchBlock
<1>3. \A part \in {"switch", "exiting", "end"} : SwitchBlock(u, L, Blk(L, part))
  BY <1>2
<1>4. \A i \in Nat : SwitchBlock(u, L, Clause(L, i)) /\ SwitchBlock(u, L, Test(L, i))
  BY <1>2 DEF Clause, Test
<1> QED BY <1>3, <1>4

(* A switch begins. *)
LEMMA OpenSwitchStep ==
  ASSUME NEW t, NEW f, NEW x, NEW u, NEW L, NEW ex, NEW ls, NEW bs, NEW ps, NEW ss, NEW c, NEW b,
         Ready(t, f, x, u, L, ex, ls, bs, ps, ss, c, b), x.kind = "switch",
         NEW slot, slot = Ordered(x.clauses)[1], NEW g, g = Append(f, Frame(L, slot))
  PROVE  Matches(u, g, Append(ex, Blk(L, "exiting")), ls, bs, ps, ss,
                 c ++ In(b, <<Br({Blk(L, "switch")})>>) ++ In(Blk(L, "switch"), <<>>)
                   ++ In(Blk(L, "exiting"), <<Br({Blk(L, "end")})>>) ++ In(Blk(L, "end"), <<>>)
                   ++ [y \in {Clause(L, i) : i \in 1..Len(x.clauses)} |-> <<>>],
                 Clause(L, slot))
<1> DEFINE switch == Blk(L, "switch")  exit == Blk(L, "exiting")  end == Blk(L, "end")  first == Clause(L, slot)
           B == {Clause(L, i) : i \in 1..Len(x.clauses)}
           q == x.clauses  o == Ordered(q)  N == Len(q)
           s == <<Br({switch})>>
           e == c ++ In(b, s)
           c1 == e ++ In(switch, <<>>)
           c2 == c1 ++ In(exit, <<Br({end})>>)
           c3 == c2 ++ In(end, <<>>)
           c4 == c3 ++ [y \in B |-> <<>>]
           F == {exit}
           D == {switch, exit, end} \cup B
           R == Reserved(u, L, slot)
<1>1. Len(u) = L /\ L \in 1..Len(u) /\ u[L] = x /\ Grows(t, u) /\ CodeMatches(t, f, c, b)
  BY Begins
<1>0. Ahead(u, L) = {switch, end} \cup {Clause(L, i) : i \in DOMAIN q}
  BY <1>1 DEF Ahead
<1>2. Order(q, o, Cases(q))
  <2>1. x \in NodeRecords /\ q # <<>> /\ \A j, k \in Defaults(q) : j = k
    BY DEF Ready, Stands, Belongs
  <2>2. q \in Seq(Clauses)
    BY <2>1 DEF NodeRecords
  <2> QED BY <2>1, <2>2, OrderIs
<1> HIDE DEF q, o
<1>3. N \in Nat \ {0} /\ slot \in 1..N /\ slot = o[1] /\ DOMAIN q = 1..N
  <2>1. N \in Nat \ {0} /\ o \in Seq(1..N) /\ Len(o) = N /\ DOMAIN q = 1..N
    BY <1>2 DEF Order
  <2>2. slot = o[1]
    BY DEF o, q
  <2>3. 1 \in 1..Len(o)
    BY <2>1
  <2>4. o[1] \in 1..N
    <3>1. \A i \in 1..Len(o) : o[i] \in 1..N
      BY <2>1, Sequence
    <3> QED BY <2>3, <3>1
  <2> QED BY <2>1, <2>2, <2>4
<1>4. Begun(t, f, x, u, L, slot, g)
  <2>1. Fits(u, L, slot)
    BY <1>1, <1>3 DEF Fits, q
  <2> QED BY <1>1, <1>3, <2>1 DEF Begun, Ready, LeafKinds, JumpKinds
<1>5. SwitchBlock(u, L, switch) /\ SwitchBlock(u, L, exit) /\ SwitchBlock(u, L, end)
      /\ \A i \in Nat : SwitchBlock(u, L, Clause(L, i)) /\ SwitchBlock(u, L, Test(L, i))
  BY <1>1, SwitchBlocks
<1>6. Made(u, L) = {switch, exit, end} \cup B \cup {Test(L, i) : i \in Elements(Cases(q))}
  BY <1>1, <1>3 DEF Made, q
<1>7. R = {switch, end}
          \cup {Clause(L, o[j]) : j \in {l \in DOMAIN o : \E k \in 1..(l - 1) : o[k] = slot}}
          \cup {Test(L, i) : i \in Elements(Cases(q))}
  BY <1>1 DEF Reserved, o, q
<1>8. Keeps(u, L, slot) = {} /\ ~Scoped(u, L)
  BY <1>1 DEF Keeps, Scoped
<1>9. switch # exit /\ end # exit /\ end # switch /\ (\A i : Clause(L, i) \notin {switch, exit, end} /\
      Test(L, i) \notin {switch, exit, end})
      /\ (\A i, j : Clause(L, i) # Test(L, j)) /\ (\A i, j : Clause(L, i) = Clause(L, j) => i = j)
  BY DEF Blk, Clause, Test, Part
<1> HIDE DEF N
<1>10. switch \in BlocksOf(u) /\ end \in BlocksOf(u)
  BY <1>1, <1>6 DEF BlocksOf
<1> HIDE DEF switch, exit, end
<1>11. Continued(u, c, b, s, Held(t, c, b), Gone(c, b), e) /\ s # <<>>
  <2>1. {switch} \in SUBSET BlocksOf(u) /\ {switch} \subseteq NamesOf(u) /\
        \A y \in {switch} : HeldIn(u, y) = ScopeIn(u, L)
    BY <1>5, <1>10 DEF SwitchBlock
  <2>2. x.kind # "block" /\ s # <<>>
    OBVIOUS
  <2>3. Continued(u, c, b, s, Held(t, c, b), Gone(c, b), e)
    BY <2>1, <2>2, FirstBranch
  <2> QED BY <2>2, <2>3
<1> HIDE DEF s, e, c1, c2, c3, c4
<1>12. Fills(u, e, {}, {}, e) /\ \A y : y[1] = L => Was(e, y) = <<>>
  BY <1>1, <1>11, Fresh DEF Ready
<1>13. switch \in NamesOf(u) /\ exit \in NamesOf(u) /\ end \in NamesOf(u) /\ switch[1] = L /\ exit[1] = L /\ end[1] = L
       /\ HeldIn(u, end) = HeldIn(u, exit) /\ exit[2] # "pad"
  BY <1>5 DEF SwitchBlock
<1>14. Fills(u, e, {}, {switch}, c1)
  <2>1. switch \notin {} /\ {} \cup {switch} = {switch} /\ Was(e, switch) = <<>>
    BY <1>12, <1>13
  <2>2. Fills(u, e, {}, {} \cup {switch}, c1)
    BY <1>12, <1>13, <2>1, FillEmpty DEF c1
  <2> QED BY <2>1, <2>2
<1>15. Fills(u, e, F, {switch, exit}, c2)
  <2>1. exit \notin {} /\ {} \cup {exit} = F /\ {switch} \cup {exit} = {switch, exit} /\ Was(e, exit) = <<>>
    BY <1>12, <1>13
  <2>2. {end} \in SUBSET BlocksOf(u) /\ {end} \subseteq NamesOf(u) /\ \A y \in {end} : HeldIn(u, y) = HeldIn(u, exit)
    BY <1>10, <1>13
  <2>3. Fills(u, e, {} \cup {exit}, {switch} \cup {exit}, c2)
    BY <1>13, <1>14, <2>1, <2>2, FillBranch DEF c2
  <2> QED BY <2>1, <2>3
<1>16. Fills(u, e, F, {switch, exit, end}, c3)
  <2>1. end \notin F /\ {switch, exit} \cup {end} = {switch, exit, end} /\ Was(e, end) = <<>>
    BY <1>9, <1>12, <1>13
  <2>2. Fills(u, e, F, {switch, exit} \cup {end}, c3)
    BY <1>13, <1>15, <2>1, FillEmpty DEF c3
  <2> QED BY <2>1, <2>2
<1>17. \A i \in 1..N : Clause(L, i) \in NamesOf(u) /\ Clause(L, i)[1] = L /\ Clause(L, i)[2] # "pad"
  <2>1. \A i \in 1..N : i \in Nat
    BY <1>3
  <2> QED BY <1>5, <2>1 DEF SwitchBlock
<1>18. Fills(u, e, F, D, c4)
  <2>1. B \in SUBSET NamesOf(u)
    BY <1>17 DEF N, q
  <2>2. \A y \in B : y \notin F /\ Was(e, y) = <<>>
    BY <1>9, <1>12, <1>17 DEF N, q
  <2> HIDE DEF B, F
  <2>3. Fills(u, e, F, {switch, exit, end} \cup B, c4)
    BY <1>16, <2>1, <2>2, FillEmpties DEF c4
  <2> QED BY <2>3
<1>19. first \in B /\ first \in NamesOf(u) /\ first[1] = L /\ first[2] # "pad" /\ HeldIn(u, first) = ScopeIn(u, L)
  <2>1. slot \in 1..Len(x.clauses) /\ slot \in Nat
    BY <1>3 DEF N, q
  <2>2. SwitchBlock(u, L, Clause(L, slot))
    BY <1>5, <2>1
  <2> QED BY <2>1, <2>2 DEF SwitchBlock
<1>20. first # exit /\ first # switch /\ first # end /\ \A i : first # Test(L, i)
  BY <1>9
<1>21. \A y \in R : y # first /\ y \notin F
  <2> SUFFICES ASSUME NEW y \in R
               PROVE  y # first /\ y \notin F
    OBVIOUS
  <2>1. CASE y \in {switch, end}
    BY <1>9, <1>20, <2>1
  <2>2. CASE \E i : y = Test(L, i)
    BY <1>9, <1>20, <2>2
  <2>3. ASSUME NEW j \in DOMAIN o, NEW k \in 1..(j - 1), o[k] = slot, y = Clause(L, o[j])
        PROVE  y # first /\ y \notin F
    <3>1. DOMAIN o = 1..N /\ \A i, m \in 1..N : o[i] = o[m] => i = m
      BY <1>2 DEF Order, N
    <3>2. j \in 1..N /\ k \in 1..N /\ k # j
      BY <1>3, <2>3, <3>1
    <3>3. o[j] # slot
      BY <2>3, <3>1, <3>2
    <3> QED BY <1>9, <2>3, <3>3
  <2> HIDE DEF first, F, R
  <2>4. CASE \E j \in DOMAIN o : \E k \in 1..(j - 1) : o[k] = slot /\ y = Clause(L, o[j])
    BY <2>3, <2>4
  <2> QED BY <1>7, <2>1, <2>2, <2>4
<1>22. Now(u, g) = ScopeIn(u, L)
  <2>1. Now(u, g) = ScopeIn(u, L) \cup Keeps(u, L, slot)
    BY <1>4, Began
  <2> QED BY <1>8, <2>1
<1>23. PlaceIsRight(u, g, c4, first)
  <2>1. first \in D /\ first \notin F /\ Was(e, first) = <<>> /\ HeldIn(u, first) = Now(u, g)
    BY <1>12, <1>19, <1>20, <1>22
  <2> HIDE DEF first, D, F
  <2> QED BY <1>18, <2>1, PlaceFresh
<1>24. Owned(F, L) /\ Owned({first}, L) /\ first \in D /\ Made(u, L) \subseteq D \cup R
  BY <1>6, <1>7, <1>13, <1>19 DEF Owned
<1>25. u[L].kind # "try"
  BY <1>1
<1> HIDE DEF first, D, F, R, B
<1>26. Opens(u, g, x, L, ex, ls, bs, ps, ss, c4, first)
  <2>0. Ahead(u, L) \subseteq D
    <3>1. DOMAIN q = 1..Len(q)
      BY <1>2 DEF Order
    <3> QED BY <1>0, <3>1 DEF D, B, q
  <2>1. Prepared(u, g, L, slot, e, F, D, c4, first)
    BY <1>18, <1>21, <1>23, <1>24, <1>25, <2>0 DEF Prepared, R
  <2> QED BY <1>4, <1>11, <2>1, Opening
<1>27. x.kind \in Breakable /\ x.kind \notin LoopKinds /\ x.kind # "for" /\ x.kind # "try"
  BY DEF Breakable, LoopKinds
<1>28. Matches(u, g, Append(ex, exit), ls, bs, ps, ss, c4, first)
  BY <1>8, <1>26, <1>27 DEF Pushed, Opens, exit
<1> QED BY <1>28 DEF c4, c3, c2, c1, e, s, switch, exit, end, first, B
=============================================================================

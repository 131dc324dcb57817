------------------------ MODULE SyntaxManagerProofs ------------------------
(***************************************************************************)
(* The trees of the syntax manager, its pending edits and its Ready, for   *)
(* any texts, languages, viewports, limits and any number of events.       *)
(***************************************************************************)
EXTENDS SyntaxManager, SequenceTheorems, WellFoundedInduction, TLAPS

(* Time limits; SMT has further tries. *)
USE SMTT(20), ZenonT(20), SMTT(30), SMTT(40)

(* A property that fails for a length fails for a least one.               *)
LEMMA LeastLength ==
  ASSUME NEW T, T \subseteq Nat, T # {}
  PROVE  \E m \in T : \A k \in T : m <= k
<1>1. PICK m \in T : \A k \in T : ~(<<k, m>> \in OpToRel(<, Nat))
  BY NatLessThanWellFounded, WFMin, ZenonT(20)
<1>2. \A k \in T : ~(k < m)
  BY <1>1, ZenonT(20) DEF OpToRel
<1>3. \A k \in T : k \in Nat /\ m \in Nat  OBVIOUS
<1>. QED  BY <1>2, <1>3

(* What Only keeps of the first i elements.                                *)
Kept(s, S, g, i) ==
  IF i = 0 THEN <<>> ELSE IF s[i] \in S THEN Append(g[i - 1], s[i]) ELSE g[i - 1]

(* The recursive function of Only exists.                                  *)
LEMMA KeptExists ==
  ASSUME NEW s, NEW S, NEW n \in Nat
  PROVE  \E g : g = [i \in 0..n |-> Kept(s, S, g, i)]
<1> DEFINE P(k) == \E g : g = [i \in 0..k |-> Kept(s, S, g, i)]
<1> DEFINE T == {k \in Nat : ~P(k)}
<1> SUFFICES ASSUME T # {} PROVE FALSE
  OBVIOUS
<1>1. PICK m \in T : \A k \in T : m <= k
  <2>1. T \subseteq Nat  OBVIOUS
  <2> HIDE DEF T
  <2>. QED  BY <2>1, LeastLength, ZenonT(20)
<1>2. m # 0
  <2> DEFINE g == [i \in 0..0 |-> <<>>]
  <2>1. g = [i \in 0..0 |-> Kept(s, S, g, i)]  BY DEF Kept
  <2>. QED  BY <1>1, <2>1, ZenonT(20)
<1>3. m \in Nat /\ m - 1 \in Nat /\ P(m - 1)  BY <1>1, <1>2
<1>4. PICK g : g = [i \in 0..(m - 1) |-> Kept(s, S, g, i)]  BY <1>3
<1> DEFINE h == [i \in 0..m |-> IF i = m THEN Kept(s, S, g, m) ELSE g[i]]
<1>5. \A i \in 0..m : h[i] = Kept(s, S, h, i)
  <2> SUFFICES ASSUME NEW i \in 0..m PROVE h[i] = Kept(s, S, h, i)
    OBVIOUS
  <2>1. \A j \in 0..(m - 1) : g[j] = Kept(s, S, g, j)  BY <1>4
  <2>2. CASE i = m
    <3>1. h[i] = Kept(s, S, g, m) /\ h[m - 1] = g[m - 1]  BY <1>3, <2>2
    <3> HIDE DEF h
    <3>. QED  BY <1>2, <2>2, <3>1 DEF Kept
  <2>3. CASE i # m /\ i # 0
    <3>1. h[i - 1] = g[i - 1] /\ h[i] = g[i] /\ i \in 0..(m - 1)  BY <1>3, <2>3
    <3> HIDE DEF h
    <3>. QED  BY <2>1, <2>3, <3>1 DEF Kept
  <2>4. CASE i = 0
    <3>1. h[0] = g[0] /\ 0 \in 0..(m - 1)  BY <1>2, <1>3
    <3> HIDE DEF h
    <3>. QED  BY <2>1, <2>4, <3>1 DEF Kept
  <2>. QED  BY <2>2, <2>3, <2>4
<1>6. h = [i \in 0..m |-> Kept(s, S, h, i)]
  <2>1. h = [i \in 0..m |-> h[i]]  OBVIOUS
  <2> HIDE DEF h
  <2>. QED  BY <1>5, <2>1
<1>. QED  BY <1>1, <1>6, ZenonT(20)

(* Only keeps elements of the sequence and of the set, and drops none.     *)
LEMMA OnlyKeeps ==
  ASSUME NEW R, NEW s \in Seq(R), NEW S
  PROVE  /\ Only(s, S) \in Seq(R) /\ Only(s, S) \in Seq(S)
         /\ (\E i \in 1..Len(s) : s[i] \in S) => Only(s, S) # <<>>
<1> DEFINE n == Len(s)
<1>1. n \in Nat /\ \A i \in 1..n : s[i] \in R  BY LenProperties, ElementOfSeq
<1>2. PICK g : g = [i \in 0..n |-> Kept(s, S, g, i)] /\ Only(s, S) = g[n]
  <2>1. \E g : g = [i \in 0..n |-> Kept(s, S, g, i)]  BY <1>1, KeptExists, ZenonT(20)
  <2>. QED  BY <2>1, ZenonT(20) DEF Only, Kept
<1> DEFINE Good(k) == /\ g[k] \in Seq(R) /\ g[k] \in Seq(S)
                      /\ (\E i \in 1..k : s[i] \in S) => g[k] # <<>>
<1> DEFINE T == {k \in Nat : k <= n /\ ~Good(k)}
<1>0. n \notin T => Good(n)  BY <1>1
<1> SUFFICES ASSUME T # {} PROVE FALSE
  BY <1>0, <1>2, ZenonT(20)
<1>3. PICK m \in T : \A k \in T : m <= k
  <2>1. T \subseteq Nat  OBVIOUS
  <2> HIDE DEF T
  <2>. QED  BY <2>1, LeastLength, ZenonT(20)
<1>4. m \in 0..n /\ g[m] = Kept(s, S, g, m)
  <2>1. \A i \in 0..n : g[i] = Kept(s, S, g, i)  BY <1>2
  <2>. QED  BY <1>1, <1>3, <2>1
<1>5. m # 0
  <2>1. <<>> \in Seq(R) /\ <<>> \in Seq(S)  BY EmptySeq
  <2>2. ASSUME m = 0 PROVE Good(m)  BY <1>4, <2>1, <2>2 DEF Kept
  <2>. QED  BY <1>3, <2>2
<1>6. Good(m - 1) /\ s[m] \in R  BY <1>1, <1>3, <1>4, <1>5
<1>7. CASE s[m] \notin S
  <2>1. g[m] = g[m - 1]  BY <1>4, <1>5, <1>7 DEF Kept
  <2>2. (\E i \in 1..m : s[i] \in S) => \E i \in 1..(m - 1) : s[i] \in S
    BY <1>4, <1>7
  <2>. QED  BY <1>3, <1>6, <2>1, <2>2
<1>8. CASE s[m] \in S
  <2> DEFINE r == g[m - 1]
  <2> DEFINE w == s[m]
  <2>1. r \in Seq(R) /\ w \in R /\ r \in Seq(S) /\ w \in S  BY <1>6, <1>8
  <2>2. g[m] = Append(r, w)  BY <1>4, <1>5, <1>8 DEF Kept
  <2> HIDE DEF r, w
  <2>3. Append(r, w) \in Seq(R) /\ Append(r, w) \in Seq(S) /\ Append(r, w) # <<>>
    BY <2>1, AppendProperties
  <2>. QED  BY <1>3, <2>2, <2>3, ZenonT(20)
<1>. QED  BY <1>7, <1>8
-----------------------------------------------------------------------------
(* The sound values of the parts of a DocEntry, for the history h of the   *)
(* document, the language l and the injection policy o of the entry.       *)
TreeOf(t, l, h) == t.ver \in 0 .. Len(h) - 1 /\ t.of = h[t.ver + 1] /\ t.lang = l

SlotOk(c, l, o, h) ==
  /\ DOMAIN c = {"key", "a", "aFailed", "b", "bTried", "bCooling"}
  /\ c.a # None => TreeOf(c.a, l, h) /\ o = "disabled"
  /\ c.b # None => TreeOf(c.b, l, h) /\ o = "disabled"

CacheOk(s, l, o, h) == \E S : s \in Seq(S) /\ \A c \in S : SlotOk(c, l, o, h)

MemoryOk(s, l) ==
  \E S : s \in Seq(S) /\ \A m \in S : m.content \in Texts /\ m.of \in {m.content, Torn} /\ m.lang = l

TaskOk(t, h) ==
  /\ DOMAIN t = {"lane", "epoch", "ver", "lang", "inj", "key", "win", "of", "res"}
  /\ t.lane \in Lanes /\ t.epoch \in Nat
  /\ t.ver \in 0 .. Len(h) - 1 /\ t.of \in {h[t.ver + 1], Torn}
  /\ t.lane # "bg" => t.of = h[t.ver + 1]

CompletedOk(s, o, h) ==
  \E S : s \in Seq(S) /\ \A t \in S : TaskOk(t, h) /\ (t.lane # "bg" => o = "disabled")

Trees == [ver : Nat, of : Texts \cup {Torn}, lang : Langs \cup {None}]

FullOk(f, l, h) ==
  f \in Trees /\ f.ver <= Len(h) - 1 /\ f.of \in {h[f.ver + 1], Torn} /\ f.lang = l

PendingOk(p, h) ==
  /\ DOMAIN p = {"base", "old", "new"}
  /\ p.base \in 0 .. Len(h) - 1 /\ p.old = h[p.base + 1] /\ p.new = h[Len(h)]

HistOk(h) == h \in Seq(Texts) /\ h # <<>>

(* The lemmas on the cache: what is made of sound slots is sound.          *)
LEMMA CacheEmpty == ASSUME NEW l, NEW o, NEW h PROVE CacheOk(<<>>, l, o, h)
<1> DEFINE S == {}
<1>1. <<>> \in Seq(S) /\ \A c \in S : SlotOk(c, l, o, h)  BY EmptySeq
<1> HIDE DEF S
<1>. QED  BY <1>1, ZenonT(20) DEF CacheOk

LEMMA CacheConcat ==
  ASSUME NEW l, NEW o, NEW h, NEW s, NEW t, CacheOk(s, l, o, h), CacheOk(t, l, o, h)
  PROVE  CacheOk(s \o t, l, o, h)
<1>1. PICK S : s \in Seq(S) /\ \A c \in S : SlotOk(c, l, o, h)  BY ZenonT(20) DEF CacheOk
<1>2. PICK T : t \in Seq(T) /\ \A c \in T : SlotOk(c, l, o, h)  BY ZenonT(20) DEF CacheOk
<1>3. s \in Seq(S \cup T) /\ t \in Seq(S \cup T)  BY <1>1, <1>2
<1>4. s \o t \in Seq(S \cup T)  BY <1>3, ConcatProperties
<1>5. \A c \in S \cup T : SlotOk(c, l, o, h)  BY <1>1, <1>2
<1>. QED  BY <1>4, <1>5, ZenonT(20) DEF CacheOk

LEMMA CacheOnly ==
  ASSUME NEW l, NEW o, NEW h, NEW s, NEW X, CacheOk(s, l, o, h)
  PROVE  CacheOk(Only(s, X), l, o, h)
<1>1. PICK S : s \in Seq(S) /\ \A c \in S : SlotOk(c, l, o, h)  BY ZenonT(20) DEF CacheOk
<1>2. Only(s, X) \in Seq(S)  BY <1>1, OnlyKeeps, ZenonT(20)
<1>. QED  BY <1>1, <1>2, ZenonT(20) DEF CacheOk

LEMMA CacheSub ==
  ASSUME NEW l, NEW o, NEW h, NEW s, NEW n \in Nat, CacheOk(s, l, o, h), n <= Len(s)
  PROVE  CacheOk(SubSeq(s, 1, n), l, o, h)
<1>1. PICK S : s \in Seq(S) /\ \A c \in S : SlotOk(c, l, o, h)  BY ZenonT(20) DEF CacheOk
<1>2. SubSeq(s, 1, n) \in Seq(S)
  <2>1. Len(s) \in Nat  BY <1>1, LenProperties
  <2>2. \A i \in 1..n : s[i] \in S  BY <1>1, <2>1, ElementOfSeq
  <2>. QED  BY <1>1, <2>2, SubSeqProperties
<1>. QED  BY <1>1, <1>2, ZenonT(20) DEF CacheOk

LEMMA CacheOne ==
  ASSUME NEW l, NEW o, NEW h, NEW c, SlotOk(c, l, o, h)
  PROVE  CacheOk(<<c>>, l, o, h)
<1> DEFINE S == {c}
<1>1. <<c>> \in Seq(S) /\ \A d \in S : SlotOk(d, l, o, h)  OBVIOUS
<1> HIDE DEF S
<1>. QED  BY <1>1, ZenonT(20) DEF CacheOk

LEMMA CacheUpdate ==
  ASSUME NEW l, NEW o, NEW h, NEW s, CacheOk(s, l, o, h), NEW i \in DOMAIN s, NEW c, SlotOk(c, l, o, h)
  PROVE  CacheOk([s EXCEPT ![i] = c], l, o, h)
<1>1. PICK S : s \in Seq(S) /\ \A d \in S : SlotOk(d, l, o, h)  BY ZenonT(20) DEF CacheOk
<1>2. s \in Seq(S \cup {c}) /\ i \in 1..Len(s)  BY <1>1, LenProperties
<1>3. [s EXCEPT ![i] = c] \in Seq(S \cup {c})  BY <1>2, ExceptSeq
<1>4. \A d \in S \cup {c} : SlotOk(d, l, o, h)  BY <1>1
<1>. QED  BY <1>3, <1>4, ZenonT(20) DEF CacheOk

LEMMA CacheAt ==
  ASSUME NEW l, NEW o, NEW h, NEW s, CacheOk(s, l, o, h)
  PROVE  Len(s) \in Nat /\ DOMAIN s = 1..Len(s) /\ \A i \in DOMAIN s : SlotOk(s[i], l, o, h)
<1>1. PICK S : s \in Seq(S) /\ \A c \in S : SlotOk(c, l, o, h)  BY ZenonT(20) DEF CacheOk
<1>2. Len(s) \in Nat /\ DOMAIN s = 1..Len(s) /\ \A i \in DOMAIN s : s[i] \in S
  BY <1>1, LenProperties, ElementOfSeq
<1>. QED  BY <1>1, <1>2

(* Every tree of a sound cache is of its version, and a cache of an entry  *)
(* with injections has none.                                               *)
LEMMA CacheTreesOk ==
  ASSUME NEW l, NEW o, NEW h, NEW s, CacheOk(s, l, o, h), NEW t \in CacheTrees(s)
  PROVE  TreeOf(t, l, h) /\ o = "disabled"
<1>1. \A i \in DOMAIN s : SlotOk(s[i], l, o, h)  BY CacheAt
<1>2. PICK i \in DOMAIN s : (t = s[i].a \/ t = s[i].b) /\ t # None
  <2> DEFINE F == {{s[i].a, s[i].b} : i \in DOMAIN s}
  <2>0. CacheTrees(s) = (UNION F) \ {None}  BY DEF CacheTrees
  <2>1. t \in UNION F /\ t # None
    <3> HIDE DEF F
    <3>. QED  BY <2>0
  <2>2. PICK X \in F : t \in X  BY <2>1, ZenonT(20)
  <2>3. PICK i \in DOMAIN s : X = {s[i].a, s[i].b}  BY <2>2
  <2>. QED  BY <2>1, <2>2, <2>3
<1>. QED  BY <1>1, <1>2 DEF SlotOk

LEMMA CacheTreesEmpty == CacheTrees(<<>>) = {}
BY DEF CacheTrees

(* The memory of full trees.                                               *)
SnapOk(m, l) == m.content \in Texts /\ m.of \in {m.content, Torn} /\ m.lang = l

LEMMA MemoryEmpty == ASSUME NEW l PROVE MemoryOk(<<>>, l)
<1> DEFINE S == {}
<1>1. <<>> \in Seq(S) /\ \A m \in S : SnapOk(m, l)  BY EmptySeq
<1> HIDE DEF S
<1>. QED  BY <1>1, ZenonT(20) DEF MemoryOk, SnapOk

LEMMA MemoryPush ==
  ASSUME NEW l, NEW s, MemoryOk(s, l), NEW m, SnapOk(m, l), NEW X, NEW k \in Nat
  PROVE  LET r == Only(s, X)
         IN  /\ MemoryOk(<<m>> \o r, l)
             /\ MemoryOk(<<m>> \o SubSeq(r, 1, Least(Len(r), k)), l)
<1>1. PICK S : s \in Seq(S) /\ \A x \in S : SnapOk(x, l)  BY ZenonT(20) DEF MemoryOk, SnapOk
<1> DEFINE r == Only(s, X)
<1> DEFINE R == S \cup {m}
<1> DEFINE n == Least(Len(r), k)
<1>2. r \in Seq(S)  BY <1>1, OnlyKeeps, ZenonT(20)
<1>3. r \in Seq(R) /\ <<m>> \in Seq(R)  BY <1>2
<1>4. Len(r) \in Nat /\ \A i \in 1..Len(r) : r[i] \in R  BY <1>3, LenProperties, ElementOfSeq
<1>5. n \in Nat /\ n <= Len(r)  BY <1>4 DEF Least
<1>6. SubSeq(r, 1, n) \in Seq(R)
  <2>1. \A i \in 1..n : r[i] \in R  BY <1>4, <1>5
  <2> HIDE DEF r, R, n
  <2>. QED  BY <1>5, <2>1, SubSeqProperties
<1>7. \A x \in R : SnapOk(x, l)  BY <1>1
<1> HIDE DEF r, R, n
<1>8. <<m>> \o r \in Seq(R) /\ <<m>> \o SubSeq(r, 1, n) \in Seq(R)  BY <1>3, <1>6, ConcatProperties
<1>. QED  BY <1>7, <1>8, ZenonT(20) DEF MemoryOk, SnapOk, r, n

Found(s, c) == Only(s, {x \in Range(s) : x.content = c})[1]

LEMMA MemoryFind ==
  ASSUME NEW l, NEW s, MemoryOk(s, l), NEW c, \E i \in DOMAIN s : s[i].content = c
  PROVE  SnapOk(Found(s, c), l) /\ Found(s, c).content = c
<1>1. PICK S : s \in Seq(S) /\ \A x \in S : SnapOk(x, l)  BY ZenonT(20) DEF MemoryOk, SnapOk
<1> DEFINE X == {x \in Range(s) : x.content = c}
<1> DEFINE r == Only(s, X)
<1>2. \E i \in 1..Len(s) : s[i] \in X
  <2>1. DOMAIN s = 1..Len(s)  BY <1>1, LenProperties
  <2>. QED  BY <2>1 DEF Range
<1>3. r \in Seq(S) /\ r \in Seq(X) /\ r # <<>>
  <2> HIDE DEF X
  <2>. QED  BY <1>1, <1>2, OnlyKeeps, ZenonT(20)
<1>4. r[1] \in S /\ r[1] \in X
  <2> HIDE DEF X, r
  <2>1. Len(r) \in Nat \ {0}  BY <1>3, EmptySeq
  <2>2. 1 \in 1..Len(r)  BY <2>1
  <2>. QED  BY <1>3, <2>2, ElementOfSeq
<1>. QED  BY <1>1, <1>4, ZenonT(20) DEF Found

LEMMA MemoryAt ==
  ASSUME NEW l, NEW s, MemoryOk(s, l), NEW i \in DOMAIN s
  PROVE  SnapOk(s[i], l)
<1>1. PICK S : s \in Seq(S) /\ \A x \in S : SnapOk(x, l)  BY ZenonT(20) DEF MemoryOk, SnapOk
<1>2. s[i] \in S  BY <1>1, LenProperties, ElementOfSeq
<1>. QED  BY <1>1, <1>2

(* The queue of completions.                                               *)
LEMMA CompletedEmpty == ASSUME NEW o, NEW h PROVE CompletedOk(<<>>, o, h)
<1> DEFINE S == {}
<1>1. <<>> \in Seq(S) /\ \A t \in S : TaskOk(t, h) /\ (t.lane # "bg" => o = "disabled")  BY EmptySeq
<1> HIDE DEF S
<1>. QED  BY <1>1, ZenonT(20) DEF CompletedOk

LEMMA CompletedAppend ==
  ASSUME NEW o, NEW h, NEW s, CompletedOk(s, o, h), NEW t, TaskOk(t, h), t.lane # "bg" => o = "disabled"
  PROVE  CompletedOk(Append(s, t), o, h)
<1>1. PICK S : s \in Seq(S) /\ \A x \in S : TaskOk(x, h) /\ (x.lane # "bg" => o = "disabled")
  BY ZenonT(20) DEF CompletedOk
<1> DEFINE R == S \cup {t}
<1>2. s \in Seq(R) /\ t \in R  BY <1>1
<1>3. \A x \in R : TaskOk(x, h) /\ (x.lane # "bg" => o = "disabled")  BY <1>1
<1> HIDE DEF R
<1>4. Append(s, t) \in Seq(R)  BY <1>2, AppendProperties
<1>. QED  BY <1>3, <1>4, ZenonT(20) DEF CompletedOk

LEMMA CompletedAt ==
  ASSUME NEW o, NEW h, NEW s, CompletedOk(s, o, h)
  PROVE  /\ Len(s) \in Nat /\ DOMAIN s = 1..Len(s)
         /\ \A i \in DOMAIN s : TaskOk(s[i], h) /\ (s[i].lane # "bg" => o = "disabled")
<1>1. PICK S : s \in Seq(S) /\ \A x \in S : TaskOk(x, h) /\ (x.lane # "bg" => o = "disabled")
  BY ZenonT(20) DEF CompletedOk
<1>2. Len(s) \in Nat /\ DOMAIN s = 1..Len(s) /\ \A i \in DOMAIN s : s[i] \in S
  BY <1>1, LenProperties, ElementOfSeq
<1>. QED  BY <1>1, <1>2
-----------------------------------------------------------------------------
(* What is sound stays sound when the document gets another version.       *)
LEMMA HistGrows ==
  ASSUME NEW h, HistOk(h), NEW c \in Texts
  PROVE  LET g == Append(h, c)
         IN  /\ HistOk(g) /\ Len(g) = Len(h) + 1 /\ Len(h) \in Nat \ {0} /\ g[Len(g)] = c
             /\ \A i \in 1 .. Len(h) : g[i] = h[i] /\ h[i] \in Texts
             /\ h[Len(h)] \in Texts
<1>1. Len(h) \in Nat \ {0}  BY EmptySeq DEF HistOk
<1>2. \A i \in 1..Len(h) : h[i] \in Texts  BY ElementOfSeq DEF HistOk
<1>3. /\ Append(h, c) \in Seq(Texts) /\ Append(h, c) # <<>> /\ Len(Append(h, c)) = Len(h) + 1
      /\ \A i \in 1..Len(h) : Append(h, c)[i] = h[i]
      /\ Append(h, c)[Len(h) + 1] = c
  BY AppendProperties DEF HistOk
<1>. QED  BY <1>1, <1>2, <1>3 DEF HistOk

(* The later history.                                                      *)
Extends(g, h) == /\ Len(g) \in Nat /\ Len(h) \in Nat /\ Len(h) <= Len(g)
                 /\ \A i \in 1 .. Len(h) : g[i] = h[i]

LEMMA GrowTree ==
  ASSUME NEW g, NEW h, Extends(g, h), NEW t, NEW l, TreeOf(t, l, h) PROVE TreeOf(t, l, g)
BY DEF TreeOf, Extends

LEMMA GrowTask ==
  ASSUME NEW g, NEW h, Extends(g, h), NEW t, TaskOk(t, h) PROVE TaskOk(t, g)
<1>1. t.ver + 1 \in 1 .. Len(h)  BY DEF TaskOk, Extends
<1>. QED  BY <1>1 DEF TaskOk, Extends

LEMMA GrowFull ==
  ASSUME NEW g, NEW h, Extends(g, h), NEW f, NEW l, FullOk(f, l, h) PROVE FullOk(f, l, g)
<1>1. f.ver \in Nat /\ f.ver + 1 \in 1 .. Len(h)  BY DEF FullOk, Trees, Extends
<1>. QED  BY <1>1 DEF FullOk, Extends

LEMMA GrowCache ==
  ASSUME NEW g, NEW h, Extends(g, h), NEW s, NEW l, NEW o, CacheOk(s, l, o, h) PROVE CacheOk(s, l, o, g)
<1>1. PICK S : s \in Seq(S) /\ \A c \in S : SlotOk(c, l, o, h)  BY ZenonT(20) DEF CacheOk
<1>2. \A c \in S : SlotOk(c, l, o, g)  BY <1>1, GrowTree DEF SlotOk
<1>. QED  BY <1>1, <1>2, ZenonT(20) DEF CacheOk

LEMMA GrowCompleted ==
  ASSUME NEW g, NEW h, Extends(g, h), NEW s, NEW o, CompletedOk(s, o, h) PROVE CompletedOk(s, o, g)
<1>1. PICK S : s \in Seq(S) /\ \A x \in S : TaskOk(x, h) /\ (x.lane # "bg" => o = "disabled")
  BY ZenonT(20) DEF CompletedOk
<1>2. \A x \in S : TaskOk(x, g)  BY <1>1, GrowTask
<1>. QED  BY <1>1, <1>2, ZenonT(20) DEF CompletedOk
-----------------------------------------------------------------------------
(* The inductive invariant.  The trees of an entry are of their versions;  *)
(* a full tree that is not dirty is current; no full tree, no snapshots;   *)
(* viewport trees, and parses on their way to one, exist only under the    *)
(* injection policy of large documents.                                    *)
Fields ==
  {"full", "memory", "cache", "dirty", "lang", "pending", "opts", "booted", "tier", "epoch", "active",
   "requested", "cooling", "completed", "force", "source", "focus", "debounce", "expired"}

BodyOk(e, h) ==
  /\ DOMAIN e = Fields
  /\ e.lang \in Langs \cup {None} /\ e.epoch \in Nat /\ e.dirty \in BOOLEAN
  /\ e.full = None => e.memory = <<>>
  /\ e.full # None => FullOk(e.full, e.lang, h) /\ (e.dirty \/ e.full.ver = Len(h) - 1)
  /\ MemoryOk(e.memory, e.lang)
  /\ CacheOk(e.cache, e.lang, e.opts, h)
  /\ CompletedOk(e.completed, e.opts, h)

EntryOk(e, h) == BodyOk(e, h) /\ (e.pending # None => PendingOk(e.pending, h))

(* A parse that the entry still waits for is of its epoch, and one of an   *)
(* earlier epoch is never delivered.                                       *)
Awaited(e, ts) ==
  \A t \in ts : t.epoch <= e.epoch /\ (t.epoch = e.epoch /\ t.lane # "bg" => e.opts = "disabled")

StateOk(e, ts, h) == EntryOk(e, h) /\ Awaited(e, ts) /\ \A t \in ts : TaskOk(t, h)

SyntaxInv ==
  /\ HistOk(hist) /\ language \in Langs \cup {None}
  /\ EntryOk(entry, hist)
  /\ \A t \in tasks : TaskOk(t, hist)
  /\ IsOpen => Awaited(entry, tasks)

(* No older tree: f comes after e.                                         *)
NoOlder(e, f) == e.full # None /\ f.full # None => f.full.ver >= e.full.ver

(* An update of other fields than the ones the invariant is about.         *)
LEMMA SameEntry ==
  ASSUME NEW e, NEW f, NEW h, EntryOk(e, h), DOMAIN f = Fields,
         f.full = e.full, f.memory = e.memory, f.cache = e.cache, f.dirty = e.dirty, f.lang = e.lang,
         f.pending = e.pending, f.opts = e.opts, f.completed = e.completed, f.epoch \in Nat
  PROVE  EntryOk(f, h)
BY DEF EntryOk, BodyOk

LEMMA SameEpoch ==
  ASSUME NEW e, NEW f, NEW ts, NEW h, StateOk(e, ts, h), EntryOk(f, h), f.epoch = e.epoch, f.opts = e.opts
  PROVE  StateOk(f, ts, h)
BY DEF StateOk, Awaited

LEMMA NextEpoch ==
  ASSUME NEW e, NEW f, NEW ts, NEW h, StateOk(e, ts, h), EntryOk(f, h), f.epoch = e.epoch + 1
  PROVE  StateOk(f, ts, h)
<1>1. e.epoch \in Nat  BY DEF StateOk, EntryOk, BodyOk
<1>2. \A t \in ts : t.epoch \in Nat /\ t.epoch <= e.epoch  BY DEF StateOk, Awaited, TaskOk
<1>3. Awaited(f, ts)  BY <1>1, <1>2 DEF Awaited
<1>. QED  BY <1>3 DEF StateOk

LEMMA NewEntryOk ==
  ASSUME NEW h PROVE EntryOk(NewEntry, h)
<1>1. /\ DOMAIN NewEntry = Fields /\ NewEntry.lang = None /\ NewEntry.epoch = 0 /\ NewEntry.dirty = FALSE
      /\ NewEntry.full = None /\ NewEntry.memory = <<>> /\ NewEntry.cache = <<>>
      /\ NewEntry.completed = <<>> /\ NewEntry.pending = None
  BY DEF NewEntry, Fields
<1>2. MemoryOk(<<>>, None)  BY MemoryEmpty
<1>3. CacheOk(<<>>, None, NewEntry.opts, h) /\ CompletedOk(<<>>, NewEntry.opts, h)
  BY CacheEmpty, CompletedEmpty
<1> DEFINE e == NewEntry
<1> HIDE DEF e
<1>4. e.lang \in Langs \cup {None} /\ e.epoch \in Nat  BY <1>1 DEF e
<1>5. e.dirty \in BOOLEAN  BY <1>1, ZenonT(20) DEF e
<1>6. e.full = None => e.memory = <<>>  BY <1>1 DEF e
<1>7. e.full # None => FullOk(e.full, e.lang, h) /\ (e.dirty \/ e.full.ver = Len(h) - 1)  BY <1>1 DEF e
<1>8. e.pending # None => PendingOk(e.pending, h)  BY <1>1 DEF e
<1>9. MemoryOk(e.memory, e.lang) /\ CacheOk(e.cache, e.lang, e.opts, h) /\ CompletedOk(e.completed, e.opts, h)
  BY <1>1, <1>2, <1>3 DEF e
<1>. QED  BY <1>1, <1>4, <1>5, <1>6, <1>7, <1>8, <1>9, ZenonT(20) DEF EntryOk, BodyOk, e

LEMMA InvalidateOk ==
  ASSUME NEW e, NEW h, EntryOk(e, h)
  PROVE  LET f == Invalidate(e)
         IN  /\ EntryOk(f, h) /\ f.epoch = e.epoch + 1 /\ f.opts = e.opts /\ f.lang = e.lang
             /\ f.full = e.full /\ f.memory = e.memory /\ f.cache = e.cache /\ f.completed = <<>>
             /\ f.dirty = e.dirty /\ f.pending = e.pending /\ f.tier = e.tier
<1> DEFINE f == Invalidate(e)
<1>1. DOMAIN e = Fields /\ e.epoch \in Nat  BY DEF EntryOk, BodyOk
<1>2. /\ DOMAIN f = Fields /\ f.epoch = e.epoch + 1 /\ f.opts = e.opts /\ f.lang = e.lang
      /\ f.full = e.full /\ f.memory = e.memory /\ f.cache = e.cache /\ f.completed = <<>>
      /\ f.dirty = e.dirty /\ f.pending = e.pending /\ f.tier = e.tier
  BY <1>1 DEF Invalidate, Fields
<1> HIDE DEF f
<1>3. EntryOk(f, h)  BY <1>1, <1>2, CompletedEmpty DEF EntryOk, BodyOk
<1>. QED  BY <1>2, <1>3 DEF f

LEMMA DropTreeOk ==
  ASSUME NEW e, NEW h, EntryOk(e, h)
  PROVE  LET f == DropTree(e)
         IN  /\ EntryOk(f, h) /\ f.epoch = e.epoch /\ f.opts = e.opts /\ f.lang = e.lang
             /\ f.full = None /\ f.memory = <<>> /\ f.cache = <<>> /\ f.completed = e.completed
             /\ f.dirty = e.dirty /\ f.pending = None /\ f.tier = e.tier
<1> DEFINE f == DropTree(e)
<1>1. DOMAIN e = Fields  BY DEF EntryOk, BodyOk
<1>2. /\ DOMAIN f = Fields /\ f.epoch = e.epoch /\ f.opts = e.opts /\ f.lang = e.lang
      /\ f.full = None /\ f.memory = <<>> /\ f.cache = <<>> /\ f.completed = e.completed
      /\ f.dirty = e.dirty /\ f.pending = None /\ f.tier = e.tier
  BY <1>1 DEF DropTree, Fields
<1> HIDE DEF f
<1>3. EntryOk(f, h)  BY <1>2, CacheEmpty, MemoryEmpty DEF EntryOk, BodyOk
<1>. QED  BY <1>2, <1>3 DEF f

(* The cache operations.                                                   *)
LEMMA TouchOk ==
  ASSUME NEW l, NEW o, NEW h, NEW s, NEW k, CacheOk(s, l, o, h)
  PROVE  CacheOk(KeyAt(s, k), l, o, h) /\ CacheOk(Touch(s, k), l, o, h)
<1>1. CacheOk(KeyAt(s, k), l, o, h)  BY CacheOnly DEF KeyAt
<1> DEFINE r == Only(s, {c \in Range(s) : c.key # k})
<1>2. CacheOk(r, l, o, h)  BY CacheOnly
<1>3. Touch(s, k) = KeyAt(s, k) \o r  BY DEF Touch
<1> HIDE DEF r
<1>. QED  BY <1>1, <1>2, <1>3, CacheConcat, ZenonT(20)

LEMMA GetMutOrInsertOk ==
  ASSUME NEW l, NEW o, NEW h, NEW s, NEW k, CacheOk(s, l, o, h)
  PROVE  LET r == GetMutOrInsert(s, k)
         IN  CacheOk(r, l, o, h) /\ 1 \in DOMAIN r /\ SlotOk(r[1], l, o, h)
<1> DEFINE r == GetMutOrInsert(s, k)
<1>1. CacheOk(r, l, o, h) /\ r # <<>>
  <2>1. CASE HasKey(s, k)
    <3> DEFINE a == KeyAt(s, k)
    <3> DEFINE b == Only(s, {c \in Range(s) : c.key # k})
    <3>1. r = Touch(s, k) /\ Touch(s, k) = a \o b  BY <2>1 DEF GetMutOrInsert, Touch
    <3>2. a # <<>>  BY <2>1 DEF HasKey
    <3>3. CacheOk(a, l, o, h) /\ CacheOk(b, l, o, h) /\ CacheOk(r, l, o, h)  BY <3>1, TouchOk, CacheOnly, ZenonT(20)
    <3> HIDE DEF a, b
    <3>4. PICK S : a \in Seq(S)  BY <3>3, ZenonT(20) DEF CacheOk
    <3>5. PICK T : b \in Seq(T)  BY <3>3, ZenonT(20) DEF CacheOk
    <3>6. a \in Seq(S \cup T) /\ b \in Seq(S \cup T)  BY <3>4, <3>5
    <3>7. Len(a \o b) = Len(a) + Len(b) /\ Len(b) \in Nat  BY <3>6, ConcatProperties, LenProperties
    <3>8. Len(a) \in Nat \ {0}  BY <3>2, <3>6, EmptySeq
    <3>9. Len(<<>>) = 0  OBVIOUS
    <3>10. a \o b # <<>>  BY <3>7, <3>8, <3>9
    <3>. QED  BY <3>1, <3>3, <3>10
  <2>2. CASE ~HasKey(s, k)
    <3> DEFINE c == [key |-> k, a |-> None, aFailed |-> None, b |-> None, bTried |-> None, bCooling |-> FALSE]
    <3> DEFINE b == SubSeq(s, 1, Least(Len(s), CacheCap - 1))
    <3>1. r = <<c>> \o b  BY <2>2, ZenonT(20) DEF GetMutOrInsert
    <3>2. Len(s) \in Nat  BY CacheAt
    <3>3. Least(Len(s), CacheCap - 1) \in Nat /\ Least(Len(s), CacheCap - 1) <= Len(s)
      BY <3>2, SyntaxAssumption DEF Least
    <3>4. CacheOk(b, l, o, h)
      <4> DEFINE n == Least(Len(s), CacheCap - 1)
      <4> HIDE DEF n
      <4>1. n \in Nat /\ n <= Len(s)  BY <3>3 DEF n
      <4>2. CacheOk(SubSeq(s, 1, n), l, o, h)  BY <4>1, CacheSub
      <4>. QED  BY <4>2 DEF n
    <3>5. SlotOk(c, l, o, h)  BY DEF SlotOk
    <3> HIDE DEF c, b
    <3>6. CacheOk(<<c>>, l, o, h)  BY <3>5, CacheOne
    <3>7. CacheOk(<<c>> \o b, l, o, h)  BY <3>4, <3>6, CacheConcat
    <3>8. PICK T : b \in Seq(T)  BY <3>4, ZenonT(20) DEF CacheOk
    <3>9. b \in Seq(T \cup {c}) /\ <<c>> \in Seq(T \cup {c}) /\ Len(<<c>>) = 1  BY <3>8
    <3>10. Len(<<c>> \o b) = 1 + Len(b) /\ Len(b) \in Nat  BY <3>9, ConcatProperties, LenProperties
    <3>11. Len(<<>>) = 0  OBVIOUS
    <3>. QED  BY <3>1, <3>7, <3>10, <3>11
  <2>. QED  BY <2>1, <2>2
<1> HIDE DEF r
<1>2. PICK S : r \in Seq(S)  BY <1>1, ZenonT(20) DEF CacheOk
<1>3. 1 \in DOMAIN r
  <2>1. Len(r) \in Nat \ {0} /\ DOMAIN r = 1..Len(r)  BY <1>1, <1>2, EmptySeq, LenProperties
  <2>. QED  BY <2>1
<1>4. SlotOk(r[1], l, o, h)  BY <1>1, <1>3, CacheAt
<1>. QED  BY <1>1, <1>3, <1>4 DEF r
-----------------------------------------------------------------------------
(* An edit.  The history grows from h to g; all that is sound but the      *)
(* pending window stays sound, and the entry is dirty.                     *)
LEMMA RememberOk ==
  ASSUME NEW e, NEW g, BodyOk(e, g), NEW c \in Texts, e.full # None, e.full.of \in {c, Torn}
  PROVE  LET f == Remember(e, c)
         IN  /\ BodyOk(f, g) /\ f.full = e.full /\ f.epoch = e.epoch /\ f.opts = e.opts /\ f.dirty = e.dirty
             /\ f.lang = e.lang /\ f.cache = e.cache /\ f.completed = e.completed /\ f.pending = e.pending
<1>1. CASE Remember(e, c) = e  BY <1>1
<1>2. CASE Remember(e, c) # e
  <2> DEFINE r == Only(e.memory, {m \in Range(e.memory) : m.content # c})
  <2> DEFINE m == [content |-> c, of |-> e.full.of, lang |-> e.full.lang]
  <2> DEFINE q == <<m>> \o SubSeq(r, 1, Least(Len(r), FULL_TREE_MEMORY_CAP - 1))
  <2> DEFINE f == [e EXCEPT !.memory = q]
  <2>1. Remember(e, c) = f  BY <1>2 DEF Remember
  <2>2. DOMAIN e = Fields /\ MemoryOk(e.memory, e.lang) /\ e.full.lang = e.lang  BY DEF BodyOk, FullOk
  <2>3. SnapOk(m, e.lang)  BY <2>2 DEF SnapOk
  <2>4. MemoryOk(q, e.lang)
    <3> DEFINE X == {x \in Range(e.memory) : x.content # c}
    <3> DEFINE k == FULL_TREE_MEMORY_CAP - 1
    <3>1. k \in Nat  BY SyntaxAssumption
    <3> HIDE DEF X, k, m
    <3>2. MemoryOk(<<m>> \o SubSeq(Only(e.memory, X), 1, Least(Len(Only(e.memory, X)), k)), e.lang)
      BY <2>2, <2>3, <3>1, MemoryPush, ZenonT(20)
    <3>. QED  BY <3>2, ZenonT(20) DEF X, k
  <2> HIDE DEF q
  <2>5. /\ DOMAIN f = Fields /\ f.memory = q /\ f.full = e.full /\ f.epoch = e.epoch /\ f.opts = e.opts
        /\ f.dirty = e.dirty /\ f.lang = e.lang /\ f.cache = e.cache /\ f.completed = e.completed
        /\ f.pending = e.pending
    BY <2>2 DEF Fields
  <2> HIDE DEF f
  <2>6. BodyOk(f, g)  BY <2>4, <2>5 DEF BodyOk
  <2>. QED  BY <2>1, <2>5, <2>6
<1>. QED  BY <1>1, <1>2

LEMMA TreesAreSome == \A t \in Trees : t # None
BY SyntaxAssumption DEF Trees

Cleaned(e) == [e EXCEPT !.pending = None, !.dirty = FALSE]

RestoredOk(e, f, v, g) ==
  /\ BodyOk(f, g) /\ f.full # None /\ f.full.ver = v /\ f.epoch = e.epoch /\ f.opts = e.opts
  /\ BodyOk(Cleaned(f), g)

LEMMA RestoreOk ==
  ASSUME NEW e, NEW g, BodyOk(e, g), HistOk(g), NEW v, v = Len(g) - 1, NEW c, c = g[Len(g)], Remembers(e, c)
  PROVE  RestoredOk(e, Restore(e, c, v), v, g)
<1> DEFINE m == Only(e.memory, {x \in Range(e.memory) : x.content = c})[1]
<1> DEFINE full == [ver |-> v, of |-> m.of, lang |-> m.lang]
<1> DEFINE q == <<m>> \o Only(e.memory, {x \in Range(e.memory) : x.content # c})
<1> DEFINE f == [e EXCEPT !.full = full, !.memory = q]
<1>1. Restore(e, c, v) = f  BY DEF Restore
<1>2. DOMAIN e = Fields /\ MemoryOk(e.memory, e.lang) /\ e.lang \in Langs \cup {None}  BY DEF BodyOk
<1>3. SnapOk(m, e.lang) /\ m.content = c
  <2> DEFINE s == e.memory
  <2> DEFINE l == e.lang
  <2>1. MemoryOk(s, l) /\ \E i \in DOMAIN s : s[i].content = c  BY <1>2 DEF Remembers
  <2> HIDE DEF s, l
  <2>2. SnapOk(Found(s, c), l) /\ Found(s, c).content = c  BY <2>1, MemoryFind
  <2>. QED  BY <2>2, ZenonT(20) DEF s, l, Found
<1>4. Len(g) \in Nat \ {0}  BY EmptySeq DEF HistOk
<1>5. MemoryOk(q, e.lang)
  <2> DEFINE X == {x \in Range(e.memory) : x.content # c}
  <2> HIDE DEF X, m
  <2>1. 0 \in Nat  OBVIOUS
  <2>2. MemoryOk(<<m>> \o Only(e.memory, X), e.lang)  BY <1>2, <1>3, <2>1, MemoryPush, ZenonT(20)
  <2>. QED  BY <2>2, ZenonT(20) DEF X
<1> HIDE DEF m, q
<1>6. full \in Trees /\ full.ver = v /\ full.of \in {c, Torn} /\ full.lang = e.lang
  BY <1>2, <1>3, <1>4 DEF SnapOk, Trees
<1> HIDE DEF full
<1>7. full # None  BY <1>6, TreesAreSome
<1>8. FullOk(full, e.lang, g)  BY <1>4, <1>6 DEF FullOk
<1>9. /\ DOMAIN f = Fields /\ f.memory = q /\ f.full = full /\ f.epoch = e.epoch /\ f.opts = e.opts
      /\ f.dirty = e.dirty /\ f.lang = e.lang /\ f.cache = e.cache /\ f.completed = e.completed
  BY <1>2 DEF Fields
<1> HIDE DEF f
<1>10. BodyOk(f, g)  BY <1>5, <1>6, <1>7, <1>8, <1>9 DEF BodyOk
<1> DEFINE d == Cleaned(f)
<1>11. /\ DOMAIN d = Fields /\ d.memory = q /\ d.full = full /\ d.epoch = e.epoch /\ d.opts = e.opts
       /\ d.dirty = FALSE /\ d.lang = e.lang /\ d.cache = e.cache /\ d.completed = e.completed
  BY <1>9 DEF Fields, Cleaned
<1> HIDE DEF d
<1>12. BodyOk(d, g)
  <2>1. d.dirty \in BOOLEAN  BY <1>11, ZenonT(20)
  <2>. QED  BY <1>5, <1>6, <1>7, <1>8, <1>11, <2>1 DEF BodyOk
<1>. QED  BY <1>1, <1>6, <1>7, <1>9, <1>10, <1>12, ZenonT(20) DEF d, RestoredOk

LEMMA ExtendPendingOk ==
  ASSUME NEW h, HistOk(h), NEW c \in Texts, NEW p, p # None => PendingOk(p, h), NEW anchor,
         ExtendPending(p, anchor, Len(h), h[Len(h)], c) # None
  PROVE  PendingOk(ExtendPending(p, anchor, Len(h), h[Len(h)], c), Append(h, c))
<1> DEFINE g == Append(h, c)
<1>1. /\ Len(g) = Len(h) + 1 /\ Len(h) \in Nat \ {0} /\ g[Len(g)] = c
      /\ \A i \in 1 .. Len(h) : g[i] = h[i]
  BY HistGrows
<1> HIDE DEF g
<1>2. CASE p # None
  <2>1. ExtendPending(p, anchor, Len(h), h[Len(h)], c) = [p EXCEPT !.new = c]  BY <1>2 DEF ExtendPending
  <2>2. /\ DOMAIN p = {"base", "old", "new"} /\ p.base \in 0 .. Len(h) - 1 /\ p.old = h[p.base + 1]
    BY <1>2 DEF PendingOk
  <2> DEFINE q == [p EXCEPT !.new = c]
  <2>3. DOMAIN q = {"base", "old", "new"} /\ q.base = p.base /\ q.old = p.old /\ q.new = c  BY <2>2
  <2> HIDE DEF q
  <2>4. p.base + 1 \in 1 .. Len(h)  BY <1>1, <2>2
  <2>5. PendingOk(q, g)  BY <1>1, <2>2, <2>3, <2>4 DEF PendingOk
  <2>. QED  BY <2>1, <2>5 DEF q, g
<1>3. CASE p = None
  <2> DEFINE q == [base |-> anchor, old |-> h[Len(h)], new |-> c]
  <2>1. anchor = Len(h) - 1 /\ ExtendPending(p, anchor, Len(h), h[Len(h)], c) = q
    BY <1>3 DEF ExtendPending
  <2>2. DOMAIN q = {"base", "old", "new"} /\ q.base = Len(h) - 1 /\ q.old = h[Len(h)] /\ q.new = c
    BY <2>1
  <2> HIDE DEF q
  <2>3. Len(h) - 1 + 1 = Len(h) /\ Len(h) - 1 \in 0 .. Len(g) - 1 /\ Len(h) \in 1 .. Len(h)  BY <1>1
  <2>4. PendingOk(q, g)  BY <1>1, <2>2, <2>3 DEF PendingOk
  <2>. QED  BY <2>1, <2>4 DEF g
<1>. QED  BY <1>2, <1>3

LEMMA GrowBody ==
  ASSUME NEW g, NEW h, Extends(g, h), NEW e, BodyOk(e, h), NEW f, DOMAIN f = Fields,
         f.full = e.full, f.memory = e.memory, f.cache = e.cache, f.lang = e.lang, f.epoch = e.epoch,
         f.opts = e.opts, f.completed = e.completed, f.dirty = TRUE
  PROVE  BodyOk(f, g)
<1>1. CacheOk(e.cache, e.lang, e.opts, g)  BY GrowCache DEF BodyOk
<1>2. CompletedOk(e.completed, e.opts, g)  BY GrowCompleted DEF BodyOk
<1>3. e.full # None => FullOk(e.full, e.lang, g)  BY GrowFull DEF BodyOk
<1>4. f.dirty \in BOOLEAN  BY ZenonT(20)
<1>. QED  BY <1>1, <1>2, <1>3, <1>4 DEF BodyOk

(* What note_edit_incremental starts from: the entry marked dirty, with    *)
(* the tree of the text before the edit remembered and the edit added to   *)
(* the pending window.                                                     *)
Noted(e, source) ==
  [e EXCEPT !.debounce = TRUE, !.source = source, !.dirty = TRUE, !.force = @ \/ source = "history"]
Anchor(e) == IF e.full # None THEN e.full.ver ELSE BestDocVersion(e.cache)
Saved(e, v, old, source) ==
  IF e.full # None /\ e.full.ver = v - 1 THEN Remember(Noted(e, source), old) ELSE Noted(e, source)

LEMMA NotedOk ==
  ASSUME NEW e, NEW h, EntryOk(e, h), HistOk(h), NEW c \in Texts, NEW source
  PROVE  LET g == Append(h, c)
             f == Saved(e, Len(h), h[Len(h)], source)
             d == Noted(e, source)
         IN  /\ BodyOk(d, g) /\ BodyOk(f, g)
             /\ f.full = e.full /\ f.epoch = e.epoch /\ f.opts = e.opts /\ f.dirty = TRUE
             /\ d.full = e.full /\ d.epoch = e.epoch /\ d.opts = e.opts
<1> DEFINE g == Append(h, c)
<1> DEFINE d == Noted(e, source)
<1> DEFINE f == Saved(e, Len(h), h[Len(h)], source)
<1>1. /\ Len(g) = Len(h) + 1 /\ Len(h) \in Nat \ {0} /\ g[Len(g)] = c
      /\ \A i \in 1 .. Len(h) : g[i] = h[i] /\ h[i] \in Texts
  BY HistGrows
<1> HIDE DEF g
<1>2. Extends(g, h)  BY <1>1 DEF Extends
<1>3. DOMAIN e = Fields /\ BodyOk(e, h)  BY DEF EntryOk, BodyOk
<1>4. /\ DOMAIN d = Fields /\ d.full = e.full /\ d.memory = e.memory /\ d.cache = e.cache
      /\ d.lang = e.lang /\ d.epoch = e.epoch /\ d.opts = e.opts /\ d.completed = e.completed
      /\ d.dirty = TRUE /\ d.pending = e.pending
  BY <1>3 DEF Fields, Noted
<1> HIDE DEF d
<1>5. BodyOk(d, g)  BY <1>2, <1>3, <1>4, GrowBody, ZenonT(20)
<1>6. CASE ~(e.full # None /\ e.full.ver = Len(h) - 1)
  <2>1. f = d  BY <1>6 DEF Saved, d
  <2>. QED  BY <1>4, <1>5, <2>1 DEF d, g
<1>7. CASE e.full # None /\ e.full.ver = Len(h) - 1
  <2>1. f = Remember(d, h[Len(h)])  BY <1>7 DEF Saved, d
  <2>2. Len(h) - 1 + 1 = Len(h) /\ h[Len(h)] \in Texts  BY <1>1
  <2>3. d.full.of \in {h[Len(h)], Torn}  BY <1>3, <1>4, <1>7, <2>2 DEF BodyOk, FullOk
  <2> DEFINE old == h[Len(h)]
  <2>4. old \in Texts /\ d.full # None /\ d.full.of \in {old, Torn} /\ f = Remember(d, old)
    BY <1>4, <1>7, <2>1, <2>2, <2>3
  <2> HIDE DEF old, f
  <2>5. /\ BodyOk(f, g) /\ f.full = d.full /\ f.epoch = d.epoch /\ f.opts = d.opts /\ f.dirty = d.dirty
    BY <1>5, <2>4, RememberOk, ZenonT(20)
  <2>. QED  BY <1>4, <1>5, <2>5 DEF d, f, g
<1>. QED  BY <1>6, <1>7, ZenonT(20)

LEMMA NoteEditOk ==
  ASSUME NEW e, NEW h, EntryOk(e, h), HistOk(h), NEW c \in Texts,
         NEW source \in {"typing", "history"}, NEW synced \in BOOLEAN
  PROVE  LET f == NoteEditIncremental(e, Len(h), h[Len(h)], c, source, synced)
         IN  EntryOk(f, Append(h, c)) /\ f.epoch = e.epoch /\ f.opts = e.opts /\ NoOlder(e, f)
<1> DEFINE g == Append(h, c)
<1> DEFINE v == Len(h)
<1> DEFINE old == h[Len(h)]
<1> DEFINE d == Noted(e, source)
<1> DEFINE s == Saved(e, v, old, source)
<1> DEFINE p == ExtendPending(e.pending, Anchor(e), v, old, c)
<1> DEFINE m == [s EXCEPT !.pending = p]
<1> DEFINE f == NoteEditIncremental(e, v, old, c, source, synced)
<1> DEFINE aligned == p # None /\ e.full # None /\ e.full.ver = p.base
<1> DEFINE restored == [Restore(m, c, v) EXCEPT !.pending = None, !.dirty = FALSE]
<1> DEFINE updated == [m EXCEPT !.pending = None, !.dirty = FALSE, !.full.ver = v,
                                !.full.of = Update(e.full.of, p, c)]
<1> DEFINE torn == [m EXCEPT !.full.of = Torn]
<1>1. f = CASE Anchor(e) = None -> [d EXCEPT !.pending = None]
            [] Anchor(e) # None /\ source = "history" -> IF Remembers(m, c) THEN restored ELSE m
            [] Anchor(e) # None /\ source = "typing" /\ e.full = None -> [m EXCEPT !.force = TRUE]
            [] Anchor(e) # None /\ source = "typing" /\ e.full # None ->
                 IF ~aligned THEN m ELSE IF synced THEN updated ELSE torn
  BY DEF NoteEditIncremental, Noted, Saved, Anchor
<1> HIDE DEF g, d, s, p, m, f, old, aligned, restored, updated, torn
<1>2. /\ HistOk(g) /\ Len(g) = v + 1 /\ v \in Nat \ {0} /\ g[Len(g)] = c
      /\ \A i \in 1 .. v : g[i] = h[i] /\ h[i] \in Texts
  BY HistGrows DEF g
<1>3. /\ BodyOk(d, g) /\ BodyOk(s, g)
      /\ s.full = e.full /\ s.epoch = e.epoch /\ s.opts = e.opts /\ s.dirty = TRUE
      /\ d.full = e.full /\ d.epoch = e.epoch /\ d.opts = e.opts
  BY NotedOk, ZenonT(20) DEF d, s, g, old
<1>4. p # None => PendingOk(p, g)
  <2> DEFINE q == e.pending
  <2> DEFINE a == Anchor(e)
  <2>1. q # None => PendingOk(q, h)  BY DEF EntryOk
  <2> HIDE DEF q, a
  <2>2. p # None => PendingOk(ExtendPending(q, a, Len(h), h[Len(h)], c), Append(h, c))
    BY <2>1, ExtendPendingOk, ZenonT(20) DEF q, a, p, old
  <2>. QED  BY <2>2 DEF q, a, p, old, g
<1>5. (e.full # None => FullOk(e.full, e.lang, h)) /\ DOMAIN s = Fields /\ DOMAIN d = Fields
  BY <1>3 DEF EntryOk, BodyOk
<1>6. /\ DOMAIN m = Fields /\ m.pending = p /\ m.full = e.full /\ m.memory = s.memory /\ m.cache = s.cache
      /\ m.dirty = TRUE /\ m.lang = s.lang /\ m.opts = e.opts /\ m.epoch = e.epoch /\ m.completed = s.completed
  BY <1>3, <1>5 DEF Fields, m
<1>7. BodyOk(m, g) /\ EntryOk(m, g) /\ NoOlder(e, m)
  <2>1. BodyOk(m, g)  BY <1>3, <1>6, ZenonT(20) DEF BodyOk
  <2>2. NoOlder(e, m)  BY <1>5, <1>6 DEF NoOlder, FullOk, Trees
  <2>. QED  BY <1>4, <1>6, <2>1, <2>2 DEF EntryOk
<1>8. CASE Anchor(e) = None
  <2>1. f = [d EXCEPT !.pending = None]  BY <1>1, <1>8
  <2>2. /\ DOMAIN f = Fields /\ f.pending = None /\ f.full = d.full /\ f.memory = d.memory
        /\ f.cache = d.cache /\ f.dirty = d.dirty /\ f.lang = d.lang /\ f.opts = d.opts
        /\ f.epoch = d.epoch /\ f.completed = d.completed
    BY <1>5, <2>1 DEF Fields
  <2>3. EntryOk(f, g)  BY <1>3, <2>2 DEF EntryOk, BodyOk
  <2>4. NoOlder(e, f)  BY <1>3, <1>5, <2>2 DEF NoOlder, FullOk, Trees
  <2>. QED  BY <1>3, <2>2, <2>3, <2>4 DEF f, g, old
<1>9. CASE Anchor(e) # None /\ source = "history"
  <2>1. f = IF Remembers(m, c) THEN restored ELSE m  BY <1>1, <1>9
  <2>2. CASE ~Remembers(m, c)
    <3>1. f = m  BY <2>1, <2>2
    <3>. QED  BY <1>6, <1>7, <3>1 DEF f, g, old
  <2>3. CASE Remembers(m, c)
    <3> DEFINE r == Restore(m, c, v)
    <3>1. v = Len(g) - 1 /\ c = g[Len(g)]  BY <1>2
    <3> HIDE DEF v
    <3>2. /\ BodyOk(r, g) /\ r.full # None /\ r.full.ver = v /\ r.epoch = m.epoch /\ r.opts = m.opts
          /\ BodyOk(Cleaned(r), g)
      <4>1. RestoredOk(m, r, v, g)  BY <1>2, <1>7, <2>3, <3>1, RestoreOk
      <4> HIDE DEF r
      <4>. QED  BY <4>1 DEF RestoredOk
    <3>3. DOMAIN r = Fields  BY <3>2, ZenonT(20) DEF BodyOk
    <3> HIDE DEF r
    <3>4. f = Cleaned(r)  BY <2>1, <2>3 DEF r, Cleaned, restored
    <3>5. f.pending = None /\ f.full = r.full /\ f.epoch = r.epoch /\ f.opts = r.opts
      BY <3>3, <3>4 DEF Fields, Cleaned
    <3>6. EntryOk(f, g)  BY <3>2, <3>4, <3>5 DEF EntryOk
    <3>7. NoOlder(e, f)  BY <1>2, <1>5, <3>2, <3>5 DEF NoOlder, FullOk, Trees, v
    <3>. QED  BY <1>6, <3>2, <3>5, <3>6, <3>7 DEF f, g, old, v
  <2>. QED  BY <2>2, <2>3
<1>10. CASE Anchor(e) # None /\ source = "typing" /\ e.full = None
  <2>1. f = [m EXCEPT !.force = TRUE]  BY <1>1, <1>10
  <2>2. /\ DOMAIN f = Fields /\ f.pending = m.pending /\ f.full = m.full /\ f.memory = m.memory
        /\ f.cache = m.cache /\ f.dirty = m.dirty /\ f.lang = m.lang /\ f.opts = m.opts
        /\ f.epoch = m.epoch /\ f.completed = m.completed
    BY <1>6, <2>1 DEF Fields
  <2>3. EntryOk(f, g)  BY <1>7, <2>2, ZenonT(20) DEF EntryOk, BodyOk
  <2>4. NoOlder(e, f)  BY <1>7, <2>2 DEF NoOlder
  <2>. QED  BY <1>6, <2>2, <2>3, <2>4 DEF f, g, old
<1>11. CASE Anchor(e) # None /\ source = "typing" /\ e.full # None
  <2>1. f = IF ~aligned THEN m ELSE IF synced THEN updated ELSE torn  BY <1>1, <1>11
  <2>2. CASE ~aligned
    <3>1. f = m  BY <2>1, <2>2
    <3>. QED  BY <1>6, <1>7, <3>1 DEF f, g, old
  <2> DEFINE of == Update(e.full.of, p, c)
  <2>3. FullOk(e.full, e.lang, h) /\ FullOk(m.full, m.lang, g) /\ m.full = e.full
    BY <1>5, <1>6, <1>7, <1>11, ZenonT(20) DEF BodyOk
  <2>4. CASE aligned /\ synced
    <3>1. f = updated  BY <2>1, <2>4
    <3>2. PendingOk(p, g) /\ e.full.ver = p.base  BY <1>4, <2>4 DEF aligned
    <3>3. e.full.of \in {p.old, Torn} /\ p.new = c
      <4>1. e.full.ver + 1 \in 1 .. v  BY <1>2, <2>3 DEF FullOk, Trees
      <4>. QED  BY <1>2, <2>3, <3>2, <4>1 DEF FullOk, PendingOk
    <3>4. of \in {c, Torn}  BY <3>3 DEF Update
    <3> HIDE DEF of
    <3> DEFINE u == [ver |-> v, of |-> of, lang |-> e.full.lang]
    <3>5. f.full = u /\ DOMAIN f = Fields /\ f.pending = None /\ f.memory = m.memory
          /\ f.cache = m.cache /\ f.dirty = FALSE /\ f.lang = m.lang /\ f.opts = m.opts
          /\ f.epoch = m.epoch /\ f.completed = m.completed
      <4>1. f = [m EXCEPT !.pending = None, !.dirty = FALSE, !.full.ver = v, !.full.of = of]
        BY <3>1 DEF of, updated
      <4>2. DOMAIN f = Fields /\ f.pending = None /\ f.memory = m.memory
          /\ f.cache = m.cache /\ f.dirty = FALSE /\ f.lang = m.lang /\ f.opts = m.opts
          /\ f.epoch = m.epoch /\ f.completed = m.completed
        BY <1>6, <4>1 DEF Fields
      <4>3. f.full = [m.full EXCEPT !.ver = v, !.of = of]  BY <1>6, <4>1, ZenonT(20) DEF Fields
      <4>4. m.full \in Trees  BY <2>3 DEF FullOk
      <4>5. f.full = u  BY <2>3, <4>3, <4>4, ZenonT(20) DEF Trees
      <4>. QED  BY <4>2, <4>5
    <3>6. u \in Trees /\ u.ver = v /\ u.of \in {c, Torn} /\ u.lang = m.lang
      BY <1>2, <2>3, <3>4 DEF FullOk, Trees
    <3> HIDE DEF u
    <3>7. u # None  BY <3>6, TreesAreSome
    <3>8. FullOk(u, m.lang, g)  BY <1>2, <3>6 DEF FullOk
    <3>9. f.dirty \in BOOLEAN /\ f.full.ver = Len(g) - 1
      <4>1. f.dirty \in BOOLEAN  BY <3>5, ZenonT(20)
      <4>2. f.full.ver = v /\ v = Len(g) - 1  BY <1>2, <3>5, <3>6
      <4>. QED  BY <4>1, <4>2
    <3>10. BodyOk(f, g)  BY <1>7, <3>5, <3>7, <3>8, <3>9 DEF BodyOk
    <3>11. NoOlder(e, f)  BY <1>2, <2>3, <3>5, <3>6 DEF NoOlder, FullOk, Trees
    <3>12. EntryOk(f, g)  BY <3>5, <3>10 DEF EntryOk
    <3>. QED  BY <1>6, <3>5, <3>11, <3>12 DEF f, g, old
  <2>5. CASE aligned /\ ~synced
    <3>1. f = torn  BY <2>1, <2>5
    <3> DEFINE u == [m.full EXCEPT !.of = Torn]
    <3>2. f.full = u /\ DOMAIN f = Fields /\ f.pending = m.pending /\ f.memory = m.memory
          /\ f.cache = m.cache /\ f.dirty = m.dirty /\ f.lang = m.lang /\ f.opts = m.opts
          /\ f.epoch = m.epoch /\ f.completed = m.completed
      BY <1>6, <3>1 DEF Fields, torn
    <3>3. u \in Trees /\ u.ver = m.full.ver /\ u.of = Torn /\ u.lang = m.full.lang
      BY <2>3 DEF FullOk, Trees
    <3> HIDE DEF u
    <3>4. u # None  BY <3>3, TreesAreSome
    <3>5. FullOk(u, m.lang, g)  BY <2>3, <3>3 DEF FullOk
    <3>6. BodyOk(f, g)  BY <1>6, <1>7, <3>2, <3>4, <3>5 DEF BodyOk
    <3>7. NoOlder(e, f)
      <4>1. e.full.ver \in Nat  BY <2>3 DEF FullOk, Trees
      <4>2. f.full.ver = e.full.ver  BY <2>3, <3>2, <3>3
      <4>. QED  BY <4>1, <4>2 DEF NoOlder
    <3>8. EntryOk(f, g)  BY <1>7, <3>2, <3>6 DEF EntryOk
    <3>. QED  BY <1>6, <3>2, <3>7, <3>8, ZenonT(20) DEF f, g, old
  <2>. QED  BY <2>2, <2>4, <2>5
<1>. QED  BY <1>8, <1>9, <1>10, <1>11
-----------------------------------------------------------------------------
(* A poll, step by step: normalize.                                        *)
LEMMA CacheRetag ==
  ASSUME NEW l, NEW o, NEW h, NEW s, CacheOk(s, l, o, h), NEW l2, NEW o2,
         CacheTrees(s) = {} \/ (l2 = l /\ o # "disabled")
  PROVE  CacheOk(s, l2, o2, h)
<1>1. \A i \in DOMAIN s : SlotOk(s[i], l, o, h)  BY CacheAt
<1>2. ASSUME NEW i \in DOMAIN s PROVE SlotOk(s[i], l2, o2, h)
  <2>1. CASE CacheTrees(s) = {}
    <3> DEFINE F == {{s[j].a, s[j].b} : j \in DOMAIN s}
    <3>1. (UNION F) \ {None} = {}  BY <2>1 DEF CacheTrees
    <3>2. {s[i].a, s[i].b} \in F  OBVIOUS
    <3> HIDE DEF F
    <3>3. s[i].a = None /\ s[i].b = None  BY <3>1, <3>2
    <3>. QED  BY <1>1, <3>3 DEF SlotOk
  <2>2. CASE l2 = l /\ o # "disabled"  BY <1>1, <2>2 DEF SlotOk
  <2>. QED  BY <2>1, <2>2
<1>3. PICK S : s \in Seq(S)  BY ZenonT(20) DEF CacheOk
<1> DEFINE T == {s[i] : i \in DOMAIN s}
<1>4. \A c \in T : SlotOk(c, l2, o2, h)  BY <1>2
<1>5. s \in Seq(T)
  <2>1. Len(s) \in Nat /\ s \in [1..Len(s) -> S] /\ DOMAIN s = 1..Len(s)  BY <1>3, LenProperties
  <2>2. s \in [1..Len(s) -> T]  BY <2>1
  <2> HIDE DEF T
  <2>. QED  BY <2>1, <2>2
<1> HIDE DEF T
<1>. QED  BY <1>4, <1>5, ZenonT(20) DEF CacheOk

LEMMA CompletedRetag ==
  ASSUME NEW o, NEW h, NEW s, CompletedOk(s, o, h), NEW o2, o # "disabled"
  PROVE  CompletedOk(s, o2, h)
<1>1. PICK S : s \in Seq(S) /\ \A x \in S : TaskOk(x, h) /\ (x.lane # "bg" => o = "disabled")
  BY ZenonT(20) DEF CompletedOk
<1>2. \A x \in S : TaskOk(x, h) /\ (x.lane # "bg" => o2 = "disabled")  BY <1>1
<1>. QED  BY <1>1, <1>2, ZenonT(20) DEF CompletedOk

(* An entry without trees after a change of language.                      *)
LEMMA BareOk ==
  ASSUME NEW e, NEW h, EntryOk(e, h)
  PROVE  LET f == IF HasAnyTree(e) THEN DropTree(e) ELSE e
         IN  /\ EntryOk(f, h) /\ f.full = None /\ f.memory = <<>> /\ CacheTrees(f.cache) = {}
             /\ f.epoch = e.epoch /\ f.opts = e.opts /\ f.lang = e.lang /\ f.dirty = e.dirty
             /\ f.completed = e.completed /\ f.tier = e.tier
<1>1. CASE HasAnyTree(e)  BY <1>1, DropTreeOk, CacheTreesEmpty, ZenonT(20)
<1>2. CASE ~HasAnyTree(e)  BY <1>2, ZenonT(20) DEF HasAnyTree, EntryOk, BodyOk
<1>. QED  BY <1>1, <1>2

LEMMA NewLangOk ==
  ASSUME NEW e, NEW h, EntryOk(e, h), e.full = None, e.memory = <<>>, CacheTrees(e.cache) = {},
         NEW l \in Langs \cup {None}, NEW f, DOMAIN f = Fields, f.lang = l, f.full = None, f.memory = <<>>,
         f.cache = e.cache, f.dirty \in BOOLEAN, f.opts = e.opts, f.epoch \in Nat, f.completed = e.completed,
         f.pending = e.pending
  PROVE  EntryOk(f, h)
<1>1. CacheOk(e.cache, e.lang, e.opts, h)  BY DEF EntryOk, BodyOk
<1>2. CacheOk(f.cache, f.lang, f.opts, h)
  <2> DEFINE s == e.cache
  <2> DEFINE o == e.opts
  <2> DEFINE k == e.lang
  <2>1. CacheOk(s, k, o, h) /\ CacheTrees(s) = {}  BY <1>1
  <2> HIDE DEF s, o, k
  <2>2. CacheOk(s, l, o, h)  BY <2>1, CacheRetag
  <2>. QED  BY <2>2 DEF s, o
<1>3. MemoryOk(f.memory, f.lang)  BY MemoryEmpty
<1>. QED  BY <1>2, <1>3, ZenonT(20) DEF EntryOk, BodyOk

(* The injection policy of the entry changes: from none, or with all that  *)
(* was parsed under the old one dropped.                                   *)
LEMMA NewOptsOk ==
  ASSUME NEW e, NEW ts, NEW h, StateOk(e, ts, h), NEW o, e.opts = o \/ e.opts # "disabled",
         NEW f, DOMAIN f = Fields, f.lang = e.lang, f.full = e.full, f.memory = e.memory,
         f.cache = e.cache, f.dirty = e.dirty, f.opts = o, f.epoch = e.epoch, f.completed = e.completed,
         f.pending = e.pending
  PROVE  StateOk(f, ts, h)
<1>1. CASE e.opts = o
  <2>1. EntryOk(f, h)  BY <1>1, SameEntry, ZenonT(20) DEF StateOk, EntryOk, BodyOk
  <2>. QED  BY <1>1, <2>1, SameEpoch
<1>2. CASE e.opts # "disabled"
  <2>1. CacheOk(e.cache, e.lang, e.opts, h) /\ CompletedOk(e.completed, e.opts, h)
    BY DEF StateOk, EntryOk, BodyOk
  <2>2. CacheOk(e.cache, e.lang, o, h)
    <3> DEFINE s == e.cache
    <3> DEFINE l == e.lang
    <3> DEFINE p == e.opts
    <3>1. CacheOk(s, l, p, h) /\ p # "disabled"  BY <1>2, <2>1
    <3> HIDE DEF s, l, p
    <3>2. CacheOk(s, l, o, h)  BY <3>1, CacheRetag
    <3>. QED  BY <3>2 DEF s, l
  <2>3. CompletedOk(e.completed, o, h)
    <3> DEFINE s == e.completed
    <3> DEFINE p == e.opts
    <3>1. CompletedOk(s, p, h) /\ p # "disabled"  BY <1>2, <2>1
    <3> HIDE DEF s, p
    <3>2. CompletedOk(s, o, h)  BY <3>1, CompletedRetag
    <3>. QED  BY <3>2 DEF s
  <2>4. EntryOk(f, h)  BY <2>2, <2>3, ZenonT(20) DEF StateOk, EntryOk, BodyOk
  <2>5. Awaited(f, ts)  BY <1>2 DEF StateOk, Awaited
  <2>. QED  BY <2>4, <2>5 DEF StateOk
<1>. QED  BY <1>1, <1>2

NormalizedOk(e, f, ctx, ts, h) ==
  /\ StateOk(f, ts, h) /\ f.lang = ctx.lang /\ f.opts = Injections(ctx.tier)
  /\ f.full = e.full \/ (f.full = None /\ f.completed = <<>>)

LEMMA NormalizeOk ==
  ASSUME NEW e, NEW ts, NEW h, StateOk(e, ts, h), NEW ctx, ctx.lang \in Langs \cup {None}
  PROVE  NormalizedOk(e, Normalize(e, ctx), ctx, ts, h)
<1> DEFINE a == IF HasAnyTree(e) THEN DropTree(e) ELSE e
<1> DEFINE b == Invalidate(a)
<1> DEFINE e1 == IF e.lang # ctx.lang THEN [b EXCEPT !.lang = ctx.lang] ELSE e
<1> DEFINE e2 == IF ctx.hot # "cold" THEN [e1 EXCEPT !.expired = FALSE] ELSE e1
<1> DEFINE inj == Injections(ctx.tier)
<1> DEFINE c == Invalidate(e2)
<1> DEFINE d == [c EXCEPT !.dirty = TRUE]
<1> DEFINE e3 == IF e2.opts \notin {None, inj} THEN DropTree(d) ELSE e2
<1> DEFINE f == [e3 EXCEPT !.opts = inj, !.tier = ctx.tier]
<1>0. Normalize(e, ctx) = f  BY DEF Normalize
<1> HIDE DEF a, b, e1, e2, inj, c, d, e3, f
<1>1. EntryOk(e, h) /\ DOMAIN e = Fields /\ e.epoch \in Nat  BY DEF StateOk, EntryOk, BodyOk
<1>2. /\ EntryOk(a, h) /\ a.full = None /\ a.memory = <<>> /\ CacheTrees(a.cache) = {}
      /\ a.epoch = e.epoch /\ a.opts = e.opts /\ a.dirty = e.dirty
  BY <1>1, BareOk DEF a
<1>3. /\ EntryOk(b, h) /\ b.full = None /\ b.memory = <<>> /\ CacheTrees(b.cache) = {}
      /\ b.epoch = e.epoch + 1 /\ b.opts = e.opts /\ b.dirty = e.dirty /\ b.completed = <<>>
  BY <1>2, InvalidateOk, ZenonT(20) DEF b
<1>4. StateOk(e1, ts, h) /\ e1.lang = ctx.lang /\ (e1.full = e.full \/ (e1.full = None /\ e1.completed = <<>>))
  <2>1. CASE e.lang = ctx.lang  BY <2>1 DEF e1
  <2>2. CASE e.lang # ctx.lang
    <3>1. DOMAIN b = Fields /\ b.dirty \in BOOLEAN /\ b.epoch \in Nat  BY <1>3 DEF EntryOk, BodyOk
    <3>2. /\ DOMAIN e1 = Fields /\ e1.lang = ctx.lang /\ e1.full = None /\ e1.memory = <<>>
          /\ e1.cache = b.cache /\ e1.dirty = b.dirty /\ e1.opts = b.opts /\ e1.epoch = b.epoch
          /\ e1.completed = b.completed /\ e1.pending = b.pending
      BY <1>3, <2>2, <3>1 DEF Fields, e1
    <3>3. EntryOk(e1, h)
      <4> DEFINE l == ctx.lang
      <4>1. l \in Langs \cup {None} /\ e1.lang = l  BY <3>2
      <4> HIDE DEF l
      <4>. QED  BY <1>3, <3>1, <3>2, <4>1, NewLangOk, ZenonT(20)
    <3>. QED  BY <1>3, <3>2, <3>3, NextEpoch
  <2>. QED  BY <2>1, <2>2
<1>5. /\ StateOk(e2, ts, h) /\ e2.lang = ctx.lang /\ (e2.full = e.full \/ (e2.full = None /\ e2.completed = <<>>))
  <2>1. EntryOk(e1, h) /\ DOMAIN e1 = Fields /\ e1.epoch \in Nat  BY <1>4, ZenonT(20) DEF StateOk, EntryOk, BodyOk
  <2>2. /\ DOMAIN e2 = Fields /\ e2.full = e1.full /\ e2.memory = e1.memory /\ e2.cache = e1.cache
        /\ e2.dirty = e1.dirty /\ e2.lang = e1.lang /\ e2.pending = e1.pending /\ e2.opts = e1.opts
        /\ e2.completed = e1.completed /\ e2.epoch = e1.epoch
    BY <2>1 DEF Fields, e2
  <2>3. EntryOk(e2, h)  BY <2>1, <2>2, SameEntry
  <2>. QED  BY <1>4, <2>2, <2>3, SameEpoch
<1>6. EntryOk(e2, h) /\ DOMAIN e2 = Fields /\ e2.epoch \in Nat  BY <1>5, ZenonT(20) DEF StateOk, EntryOk, BodyOk
<1>7. CASE e2.opts \in {None, inj}
  <2>1. f = [e2 EXCEPT !.opts = inj, !.tier = ctx.tier]  BY <1>7, ZenonT(20) DEF f, e3
  <2>2. /\ DOMAIN f = Fields /\ f.full = e2.full /\ f.memory = e2.memory /\ f.cache = e2.cache
        /\ f.dirty = e2.dirty /\ f.lang = e2.lang /\ f.pending = e2.pending /\ f.opts = inj
        /\ f.completed = e2.completed /\ f.epoch = e2.epoch
    BY <1>6, <2>1 DEF Fields
  <2>3. e2.opts = inj \/ e2.opts # "disabled"  BY <1>7, SyntaxAssumption
  <2>4. StateOk(f, ts, h)  BY <1>5, <2>2, <2>3, NewOptsOk
  <2>. QED  BY <1>0, <1>5, <2>2, <2>4 DEF NormalizedOk, inj
<1>8. CASE e2.opts \notin {None, inj}
  <2>1. EntryOk(c, h) /\ c.epoch = e2.epoch + 1 /\ c.lang = e2.lang /\ c.completed = <<>>
    BY <1>6, InvalidateOk, ZenonT(20) DEF c
  <2>2. DOMAIN c = Fields  BY <2>1 DEF EntryOk, BodyOk
  <2>3. /\ DOMAIN d = Fields /\ d.full = c.full /\ d.memory = c.memory /\ d.cache = c.cache /\ d.dirty = TRUE
        /\ d.lang = c.lang /\ d.pending = c.pending /\ d.opts = c.opts /\ d.completed = c.completed
        /\ d.epoch = c.epoch
    BY <2>2 DEF Fields, d
  <2>4. EntryOk(d, h)
    <3>1. d.dirty \in BOOLEAN  BY <2>3, ZenonT(20)
    <3>. QED  BY <2>1, <2>3, <3>1 DEF EntryOk, BodyOk
  <2> DEFINE g == DropTree(d)
  <2>5. /\ EntryOk(g, h) /\ g.epoch = e2.epoch + 1 /\ g.lang = e2.lang /\ g.full = None /\ g.completed = <<>>
        /\ g.memory = <<>> /\ g.cache = <<>> /\ g.pending = None
    BY <2>1, <2>3, <2>4, DropTreeOk, ZenonT(20)
  <2>6. f = [g EXCEPT !.opts = inj, !.tier = ctx.tier]  BY <1>8 DEF f, e3
  <2> HIDE DEF g
  <2>7. DOMAIN g = Fields /\ g.dirty \in BOOLEAN /\ g.lang \in Langs \cup {None} /\ g.epoch \in Nat
    BY <2>5 DEF EntryOk, BodyOk
  <2>8. /\ DOMAIN f = Fields /\ f.full = None /\ f.memory = <<>> /\ f.cache = <<>>
        /\ f.dirty = g.dirty /\ f.lang = g.lang /\ f.pending = None /\ f.opts = inj
        /\ f.completed = <<>> /\ f.epoch = g.epoch
    BY <2>5, <2>6, <2>7 DEF Fields
  <2>9. EntryOk(f, h)
    <3>1. MemoryOk(<<>>, f.lang) /\ CacheOk(<<>>, f.lang, f.opts, h) /\ CompletedOk(<<>>, f.opts, h)
      BY MemoryEmpty, CacheEmpty, CompletedEmpty
    <3>. QED  BY <2>7, <2>8, <3>1 DEF EntryOk, BodyOk
  <2>10. StateOk(f, ts, h)  BY <1>5, <2>5, <2>8, <2>9, NextEpoch
  <2>. QED  BY <1>0, <1>5, <2>5, <2>8, <2>10 DEF NormalizedOk, inj
<1>. QED  BY <1>7, <1>8

(* install_completions: one result.                                        *)
InstalledOk(e, f, h) ==
  /\ EntryOk(f, h) /\ f.epoch = e.epoch /\ f.opts = e.opts /\ f.lang = e.lang /\ f.completed = e.completed
  /\ e.full # None => f.full # None /\ f.full.ver >= e.full.ver

LEMMA FullVer ==
  ASSUME NEW e, NEW h, EntryOk(e, h), e.full # None
  PROVE  e.full.ver \in Nat
BY DEF EntryOk, BodyOk, FullOk, Trees

(* The cache alone changes.                                                *)
LEMMA NewCacheOk ==
  ASSUME NEW e, NEW h, EntryOk(e, h), NEW f, DOMAIN f = Fields, CacheOk(f.cache, e.lang, e.opts, h),
         f.full = e.full, f.memory = e.memory, f.lang = e.lang, f.dirty \in BOOLEAN,
         f.dirty = e.dirty \/ f.dirty = TRUE,
         f.pending = e.pending, f.opts = e.opts, f.completed = e.completed, f.epoch = e.epoch
  PROVE  InstalledOk(e, f, h)
<1>1. EntryOk(f, h)  BY DEF EntryOk, BodyOk
<1>2. e.full # None => f.full # None /\ f.full.ver >= e.full.ver  BY FullVer
<1>. QED  BY <1>1, <1>2 DEF InstalledOk

LEMMA ApplyFailureOk ==
  ASSUME NEW e, NEW h, EntryOk(e, h), NEW t, TaskOk(t, h)
  PROVE  InstalledOk(e, ApplyFailure(e, t), h)
<1> DEFINE s == e.cache
<1> DEFINE k == t.key
<1> DEFINE r == GetMutOrInsert(s, k)
<1> DEFINE l == e.lang
<1> DEFINE o == e.opts
<1> DEFINE f == ApplyFailure(e, t)
<1>1. CacheOk(s, l, o, h) /\ DOMAIN e = Fields /\ e.dirty \in BOOLEAN  BY DEF EntryOk, BodyOk
<1>2. CacheOk(r, l, o, h) /\ 1 \in DOMAIN r /\ SlotOk(r[1], l, o, h)
  <2> HIDE DEF s, k, l, o
  <2>. QED  BY <1>1, GetMutOrInsertOk
<1>3. t.lane \in {"urgent", "enrich", "bg"}  BY DEF TaskOk, Lanes
<1>4. CASE t.lane = "bg"
  <2>1. f = [e EXCEPT !.cooling = @ \cup {"bg"}]  BY <1>4 DEF ApplyFailure
  <2>2. /\ DOMAIN f = Fields /\ f.cache = e.cache /\ f.full = e.full /\ f.memory = e.memory /\ f.lang = e.lang
        /\ f.dirty = e.dirty /\ f.pending = e.pending /\ f.opts = e.opts /\ f.completed = e.completed
        /\ f.epoch = e.epoch
    BY <1>1, <2>1 DEF Fields
  <2> HIDE DEF f
  <2>. QED  BY <1>1, <2>2, NewCacheOk, ZenonT(20) DEF f
<1>5. CASE t.lane = "enrich"
  <2> DEFINE c == [r[1] EXCEPT !.bCooling = TRUE, !.bTried = None]
  <2> DEFINE q == [r EXCEPT ![1] = c]
  <2>1. f = [e EXCEPT !.cache = [r EXCEPT ![1].bCooling = TRUE, ![1].bTried = None]]  BY <1>5 DEF ApplyFailure
  <2> HIDE DEF r
  <2>2. [r EXCEPT ![1].bCooling = TRUE, ![1].bTried = None] = q  BY <1>2, ZenonT(20)
  <2>3. SlotOk(c, l, o, h)  BY <1>2 DEF SlotOk
  <2> HIDE DEF c
  <2>4. CacheOk(q, l, o, h)
    <3> HIDE DEF l, o
    <3>. QED  BY <1>2, <2>3, CacheUpdate
  <2> HIDE DEF q
  <2>5. /\ DOMAIN f = Fields /\ f.cache = q /\ f.full = e.full /\ f.memory = e.memory /\ f.lang = e.lang
        /\ f.dirty = e.dirty /\ f.pending = e.pending /\ f.opts = e.opts /\ f.completed = e.completed
        /\ f.epoch = e.epoch
    BY <1>1, <2>1, <2>2, ZenonT(20) DEF Fields
  <2> HIDE DEF f
  <2>. QED  BY <1>1, <2>4, <2>5, NewCacheOk, ZenonT(20) DEF f
<1>6. CASE t.lane = "urgent"
  <2> DEFINE c == [r[1] EXCEPT !.aFailed = t.ver]
  <2> DEFINE q == [r EXCEPT ![1] = c]
  <2>1. f = [e EXCEPT !.cache = [r EXCEPT ![1].aFailed = t.ver], !.cooling = @ \cup {"urgent"}]
    BY <1>6 DEF ApplyFailure
  <2> HIDE DEF r
  <2>2. [r EXCEPT ![1].aFailed = t.ver] = q  BY <1>2
  <2>3. SlotOk(c, l, o, h)  BY <1>2 DEF SlotOk
  <2> HIDE DEF c
  <2>4. CacheOk(q, l, o, h)
    <3> HIDE DEF l, o
    <3>. QED  BY <1>2, <2>3, CacheUpdate
  <2> HIDE DEF q
  <2>5. /\ DOMAIN f = Fields /\ f.cache = q /\ f.full = e.full /\ f.memory = e.memory /\ f.lang = e.lang
        /\ f.dirty = e.dirty /\ f.pending = e.pending /\ f.opts = e.opts /\ f.completed = e.completed
        /\ f.epoch = e.epoch
    BY <1>1, <2>1, <2>2 DEF Fields
  <2> HIDE DEF f
  <2>. QED  BY <1>1, <2>4, <2>5, NewCacheOk, ZenonT(20) DEF f
<1>. QED  BY <1>3, <1>4, <1>5, <1>6

LEMMA ApplyViewportInstallOk ==
  ASSUME NEW e, NEW h, EntryOk(e, h), NEW t, TaskOk(t, h), t.lane # "bg", e.opts = "disabled", t.lang = e.lang
  PROVE  InstalledOk(e, ApplyViewportInstall(e, t), h)
<1> DEFINE s == e.cache
<1> DEFINE k == t.key
<1> DEFINE r == GetMutOrInsert(s, k)
<1> DEFINE l == e.lang
<1> DEFINE o == e.opts
<1> DEFINE f == ApplyViewportInstall(e, t)
<1> DEFINE u == [ver |-> t.ver, of |-> t.of, lang |-> t.lang, inj |-> t.inj, win |-> t.win]
<1>1. CacheOk(s, l, o, h) /\ DOMAIN e = Fields /\ e.dirty \in BOOLEAN  BY DEF EntryOk, BodyOk
<1>2. CacheOk(r, l, o, h) /\ 1 \in DOMAIN r /\ SlotOk(r[1], l, o, h)
  <2> HIDE DEF s, k, l, o
  <2>. QED  BY <1>1, GetMutOrInsertOk
<1>3. TreeOf(u, l, h)  BY DEF TaskOk, TreeOf
<1>4. CASE t.lane = "urgent"
  <2> DEFINE c == [r[1] EXCEPT !.a = u, !.aFailed = None, !.bTried = None]
  <2> DEFINE q == [r EXCEPT ![1] = c]
  <2>1. f = [e EXCEPT !.cache = [r EXCEPT ![1].a = u, ![1].aFailed = None, ![1].bTried = None],
                      !.dirty = TRUE, !.force = TRUE]
    BY <1>4 DEF ApplyViewportInstall
  <2> HIDE DEF r, u
  <2>2. [r EXCEPT ![1].a = u, ![1].aFailed = None, ![1].bTried = None] = q  BY <1>2, ZenonT(20)
  <2>3. SlotOk(c, l, o, h)  BY <1>2, <1>3 DEF SlotOk
  <2> HIDE DEF c
  <2>4. CacheOk(q, l, o, h)
    <3> HIDE DEF l, o
    <3>. QED  BY <1>2, <2>3, CacheUpdate
  <2> HIDE DEF q
  <2>5. /\ DOMAIN f = Fields /\ f.cache = q /\ f.full = e.full /\ f.memory = e.memory /\ f.lang = e.lang
        /\ f.dirty = TRUE /\ f.pending = e.pending /\ f.opts = e.opts /\ f.completed = e.completed
        /\ f.epoch = e.epoch
    BY <1>1, <2>1, <2>2 DEF Fields
  <2> HIDE DEF f
  <2>6. f.dirty \in BOOLEAN  BY <2>5, ZenonT(20)
  <2>. QED  BY <2>4, <2>5, <2>6, NewCacheOk, ZenonT(20) DEF f
<1>5. CASE t.lane # "urgent"
  <2> DEFINE c == [r[1] EXCEPT !.b = u, !.bCooling = FALSE]
  <2> DEFINE q == [r EXCEPT ![1] = c]
  <2>1. f = [e EXCEPT !.cache = [r EXCEPT ![1].b = u, ![1].bCooling = FALSE]]
    BY <1>5 DEF ApplyViewportInstall
  <2> HIDE DEF r, u
  <2>2. [r EXCEPT ![1].b = u, ![1].bCooling = FALSE] = q  BY <1>2, ZenonT(20)
  <2>3. SlotOk(c, l, o, h)  BY <1>2, <1>3 DEF SlotOk
  <2> HIDE DEF c
  <2>4. CacheOk(q, l, o, h)
    <3> HIDE DEF l, o
    <3>. QED  BY <1>2, <2>3, CacheUpdate
  <2> HIDE DEF q
  <2>5. /\ DOMAIN f = Fields /\ f.cache = q /\ f.full = e.full /\ f.memory = e.memory /\ f.lang = e.lang
        /\ f.dirty = e.dirty /\ f.pending = e.pending /\ f.opts = e.opts /\ f.completed = e.completed
        /\ f.epoch = e.epoch
    BY <1>1, <2>1, <2>2 DEF Fields
  <2> HIDE DEF f
  <2>. QED  BY <1>1, <2>4, <2>5, NewCacheOk, ZenonT(20) DEF f
<1>. QED  BY <1>4, <1>5

LEMMA ApplyFullInstallOk ==
  ASSUME NEW e, NEW h, EntryOk(e, h), HistOk(h), NEW t, TaskOk(t, h), t.lang = e.lang,
         NEW ctx, ctx.ver = Len(h) - 1, e.full # None => t.ver >= e.full.ver
  PROVE  InstalledOk(e, ApplyFullInstall(e, t, ctx), h)
<1> DEFINE f == ApplyFullInstall(e, t, ctx)
<1> DEFINE u == [ver |-> t.ver, of |-> t.of, lang |-> t.lang]
<1>1. DOMAIN e = Fields /\ e.lang \in Langs \cup {None} /\ (e.pending # None => PendingOk(e.pending, h))
  BY ZenonT(20) DEF EntryOk, BodyOk
<1>2. /\ f.full = u /\ f.pending \in {e.pending, None} /\ DOMAIN f = Fields /\ f.memory = e.memory
      /\ f.cache = e.cache /\ f.lang = e.lang /\ f.opts = e.opts /\ f.completed = e.completed
      /\ f.epoch = e.epoch
  BY <1>1 DEF ApplyFullInstall, Fields
<1>3. f.dirty = (t.ver # Len(h) - 1)  BY <1>1 DEF ApplyFullInstall, Fields
<1>4. Len(h) \in Nat \ {0} /\ \A i \in 1 .. Len(h) : h[i] \in Texts  BY EmptySeq, ElementOfSeq DEF HistOk
<1>5. t.ver \in 0 .. Len(h) - 1 /\ t.of \in {h[t.ver + 1], Torn}  BY DEF TaskOk
<1>6. t.ver + 1 \in 1 .. Len(h)  BY <1>4, <1>5
<1>7. u \in Trees /\ u.ver = t.ver /\ u.of = t.of /\ u.lang = e.lang
  BY <1>1, <1>4, <1>5, <1>6 DEF Trees
<1> HIDE DEF u, f
<1>8. u # None  BY <1>7, TreesAreSome
<1>9. FullOk(u, e.lang, h)  BY <1>4, <1>5, <1>7 DEF FullOk
<1>10. f.dirty \in BOOLEAN /\ (f.dirty \/ f.full.ver = Len(h) - 1)
  <2>1. f.dirty \in BOOLEAN  BY <1>3
  <2>2. f.dirty \/ f.full.ver = Len(h) - 1  BY <1>2, <1>3, <1>7, ZenonT(20)
  <2>. QED  BY <2>1, <2>2
<1>11. BodyOk(f, h)
  <2>1. BodyOk(e, h)  BY DEF EntryOk
  <2>. QED  BY <1>2, <1>8, <1>9, <1>10, <2>1 DEF BodyOk
<1>12. EntryOk(f, h)  BY <1>1, <1>2, <1>11 DEF EntryOk
<1>13. e.full # None => f.full # None /\ f.full.ver >= e.full.ver  BY <1>2, <1>7, <1>8
<1>. QED  BY <1>2, <1>12, <1>13, ZenonT(20) DEF InstalledOk, f

LEMMA InstallOneOk ==
  ASSUME NEW e, NEW h, EntryOk(e, h), HistOk(h), NEW t, TaskOk(t, h), t.lane # "bg" => e.opts = "disabled",
         NEW ctx, ctx.ver = Len(h) - 1, ctx.lang = e.lang
  PROVE  InstalledOk(e, InstallOne(e, t, ctx), h)
<1>1. InstalledOk(e, e, h)  BY FullVer DEF InstalledOk
<1>2. CASE t.res = "failed"  BY <1>2, ApplyFailureOk DEF InstallOne
<1>3. CASE t.res # "failed" /\ ~IdentityOk(t, ctx)  BY <1>1, <1>3 DEF InstallOne
<1>4. CASE t.res # "failed" /\ IdentityOk(t, ctx) /\ t.lane = "bg"
  <2>1. t.lang = e.lang  BY <1>4 DEF IdentityOk
  <2>2. InstallOne(e, t, ctx) = IF FullAllowInstall(t, ctx, e) THEN ApplyFullInstall(e, t, ctx) ELSE e
    BY <1>4 DEF InstallOne
  <2>3. FullAllowInstall(t, ctx, e) => (e.full # None => t.ver >= e.full.ver)
    BY DEF FullAllowInstall, ShouldInstall
  <2>. QED  BY <1>1, <2>1, <2>2, <2>3, ApplyFullInstallOk
<1>5. CASE t.res # "failed" /\ IdentityOk(t, ctx) /\ t.lane # "bg"
  <2>1. t.lang = e.lang  BY <1>5 DEF IdentityOk
  <2>2. InstallOne(e, t, ctx) = IF ViewportAllowInstall(t, ctx, e) THEN ApplyViewportInstall(e, t) ELSE e
    BY <1>5 DEF InstallOne
  <2>. QED  BY <1>1, <1>5, <2>1, <2>2, ApplyViewportInstallOk
<1>. QED  BY <1>2, <1>3, <1>4, <1>5

(* All results, in the order they arrived.                                 *)
Step(e, ctx, g, i) ==
  IF i = 0 THEN [e EXCEPT !.completed = <<>>] ELSE InstallOne(g[i - 1], e.completed[i], ctx)

LEMMA StepExists ==
  ASSUME NEW e, NEW ctx, NEW n \in Nat
  PROVE  \E g : g = [i \in 0..n |-> Step(e, ctx, g, i)]
<1> DEFINE P(k) == \E g : g = [i \in 0..k |-> Step(e, ctx, g, i)]
<1> DEFINE T == {k \in Nat : ~P(k)}
<1> SUFFICES ASSUME T # {} PROVE FALSE
  OBVIOUS
<1>1. PICK m \in T : \A k \in T : m <= k
  <2>1. T \subseteq Nat  OBVIOUS
  <2> HIDE DEF T
  <2>. QED  BY <2>1, LeastLength, ZenonT(20)
<1>2. m # 0
  <2> DEFINE x == [e EXCEPT !.completed = <<>>]
  <2> DEFINE g == [i \in 0..0 |-> x]
  <2>1. \A i \in 0..0 : Step(e, ctx, g, i) = x  BY DEF Step
  <2> HIDE DEF x
  <2>2. g = [i \in 0..0 |-> Step(e, ctx, g, i)]  BY <2>1
  <2>. QED  BY <1>1, <2>2, ZenonT(20)
<1>3. m \in Nat /\ m - 1 \in Nat /\ P(m - 1)  BY <1>1, <1>2
<1>4. PICK g : g = [i \in 0..(m - 1) |-> Step(e, ctx, g, i)]  BY <1>3
<1> DEFINE h == [i \in 0..m |-> IF i = m THEN Step(e, ctx, g, m) ELSE g[i]]
<1>5. \A i \in 0..m : h[i] = Step(e, ctx, h, i)
  <2> SUFFICES ASSUME NEW i \in 0..m PROVE h[i] = Step(e, ctx, h, i)
    OBVIOUS
  <2>1. \A j \in 0..(m - 1) : g[j] = Step(e, ctx, g, j)  BY <1>4
  <2>2. CASE i = m
    <3>1. h[i] = Step(e, ctx, g, m) /\ h[m - 1] = g[m - 1]  BY <1>3, <2>2
    <3> HIDE DEF h
    <3>. QED  BY <1>2, <2>2, <3>1 DEF Step
  <2>3. CASE i # m /\ i # 0
    <3>1. h[i - 1] = g[i - 1] /\ h[i] = g[i] /\ i \in 0..(m - 1)  BY <1>3, <2>3
    <3> HIDE DEF h
    <3>. QED  BY <2>1, <2>3, <3>1 DEF Step
  <2>4. CASE i = 0
    <3>1. h[0] = g[0] /\ 0 \in 0..(m - 1)  BY <1>2, <1>3
    <3>2. g[0] = Step(e, ctx, g, 0) /\ Step(e, ctx, g, 0) = Step(e, ctx, h, 0)  BY <2>1, <3>1 DEF Step
    <3> HIDE DEF h
    <3>. QED  BY <2>4, <3>1, <3>2
  <2>. QED  BY <2>2, <2>3, <2>4
<1>6. h = [i \in 0..m |-> Step(e, ctx, h, i)]
  <2>1. h = [i \in 0..m |-> h[i]]  OBVIOUS
  <2> HIDE DEF h
  <2>. QED  BY <1>5, <2>1
<1>. QED  BY <1>1, <1>6, ZenonT(20)

InstalledAllOk(e, f, h) ==
  /\ EntryOk(f, h) /\ f.epoch = e.epoch /\ f.opts = e.opts /\ f.lang = e.lang /\ f.completed = <<>>
  /\ e.full # None => f.full # None /\ f.full.ver >= e.full.ver
  /\ e.full = None /\ e.completed = <<>> => f.full = None

LEMMA InstallCompletionsOk ==
  ASSUME NEW e, NEW h, EntryOk(e, h), HistOk(h), NEW ctx, ctx.ver = Len(h) - 1, ctx.lang = e.lang
  PROVE  InstalledAllOk(e, InstallCompletions(e, ctx), h)
<1> DEFINE n == Len(e.completed)
<1>1. /\ n \in Nat
      /\ \A i \in 1..n : TaskOk(e.completed[i], h) /\ (e.completed[i].lane # "bg" => e.opts = "disabled")
  <2> DEFINE s == e.completed
  <2> DEFINE o == e.opts
  <2>1. CompletedOk(s, o, h)  BY DEF EntryOk, BodyOk
  <2> HIDE DEF s, o
  <2>2. /\ Len(s) \in Nat /\ DOMAIN s = 1..Len(s)
        /\ \A i \in DOMAIN s : TaskOk(s[i], h) /\ (s[i].lane # "bg" => o = "disabled")
    BY <2>1, CompletedAt
  <2>. QED  BY <2>2 DEF s, o
<1>2. PICK g : g = [i \in 0..n |-> Step(e, ctx, g, i)] /\ InstallCompletions(e, ctx) = g[n]
  <2>1. \E g : g = [i \in 0..n |-> Step(e, ctx, g, i)]  BY <1>1, StepExists, ZenonT(20)
  <2>. QED  BY <2>1, ZenonT(20) DEF InstallCompletions, Step
<1> DEFINE Good(k) ==
      /\ EntryOk(g[k], h) /\ g[k].epoch = e.epoch /\ g[k].opts = e.opts /\ g[k].lang = e.lang
      /\ g[k].completed = <<>>
      /\ e.full # None => g[k].full # None /\ g[k].full.ver >= e.full.ver
      /\ k = 0 => g[k].full = e.full
<1> DEFINE T == {k \in Nat : k <= n /\ ~Good(k)}
<1>0. \A i \in 0..n : g[i] = Step(e, ctx, g, i)  BY <1>2
<1>3. ASSUME T # {} PROVE FALSE
  <2>1. PICK m \in T : \A k \in T : m <= k
    <3>1. T \subseteq Nat  OBVIOUS
    <3> HIDE DEF T
    <3>. QED  BY <1>3, <3>1, LeastLength, ZenonT(20)
  <2>2. m \in 0..n /\ g[m] = Step(e, ctx, g, m) /\ ~Good(m)  BY <1>0, <1>1, <2>1
  <2>3. CASE m = 0
    <3> DEFINE f == [e EXCEPT !.completed = <<>>]
    <3>1. g[m] = f  BY <2>2, <2>3 DEF Step
    <3>2. DOMAIN e = Fields /\ e.epoch \in Nat  BY ZenonT(20) DEF EntryOk, BodyOk
    <3>3. /\ DOMAIN f = Fields /\ f.full = e.full /\ f.memory = e.memory /\ f.cache = e.cache
          /\ f.dirty = e.dirty /\ f.lang = e.lang /\ f.pending = e.pending /\ f.opts = e.opts
          /\ f.completed = <<>> /\ f.epoch = e.epoch
      BY <3>2 DEF Fields
    <3> HIDE DEF f
    <3>4. EntryOk(f, h)  BY <3>3, CompletedEmpty, ZenonT(20) DEF EntryOk, BodyOk
    <3>5. e.full # None => f.full # None /\ f.full.ver >= e.full.ver  BY <3>3, FullVer
    <3>. QED  BY <2>2, <3>1, <3>3, <3>4, <3>5
  <2>4. CASE m # 0
    <3> DEFINE x == g[m - 1]
    <3> DEFINE t == e.completed[m]
    <3>1. m - 1 \in 0..n /\ m \in 1..n /\ m - 1 \notin T
      <4>1. n \in Nat /\ m \in 0..n /\ m # 0  BY <1>1, <2>2, <2>4, ZenonT(20)
      <4>2. \A k \in T : m <= k  BY <2>1, ZenonT(20)
      <4> HIDE DEF n, T
      <4>. QED  BY <4>1, <4>2
    <3>2. Good(m - 1)  BY <3>1
    <3>3. g[m] = InstallOne(x, t, ctx)  BY <2>2, <2>4 DEF Step
    <3>4. EntryOk(x, h) /\ TaskOk(t, h) /\ (t.lane # "bg" => x.opts = "disabled") /\ ctx.lang = x.lang
      BY <1>1, <3>1, <3>2, ZenonT(20)
    <3>5. /\ x.epoch = e.epoch /\ x.opts = e.opts /\ x.lang = e.lang /\ x.completed = <<>>
          /\ e.full # None => x.full # None /\ x.full.ver >= e.full.ver
      BY <3>2
    <3> HIDE DEF x, t
    <3>6. InstalledOk(x, g[m], h)  BY <3>3, <3>4, InstallOneOk
    <3> DEFINE f == g[m]
    <3>7. /\ EntryOk(f, h) /\ f.epoch = x.epoch /\ f.opts = x.opts /\ f.lang = x.lang /\ f.completed = x.completed
          /\ x.full # None => f.full # None /\ f.full.ver >= x.full.ver
      BY <3>6 DEF InstalledOk
    <3> HIDE DEF f
    <3>8. e.full # None => f.full # None /\ f.full.ver >= e.full.ver
      <4> SUFFICES ASSUME e.full # None PROVE f.full # None /\ f.full.ver >= e.full.ver
        OBVIOUS
      <4>1. e.full.ver \in Nat /\ x.full.ver \in Nat /\ f.full.ver \in Nat
        BY <3>4, <3>5, <3>7, FullVer
      <4>. QED  BY <3>5, <3>7, <4>1
    <3>. QED  BY <2>2, <2>4, <3>5, <3>7, <3>8 DEF f
  <2>. QED  BY <2>3, <2>4
<1>4. Good(n)  BY <1>1, <1>3
<1>5. e.completed = <<>> => n = 0  OBVIOUS
<1> DEFINE f == g[n]
<1>6. f = InstallCompletions(e, ctx)  BY <1>2
<1>. QED  BY <1>4, <1>5, <1>6 DEF InstalledAllOk

(* Steps that leave the trees, the dirty flag and the epoch alone.         *)
LateralOk(e, f, h) ==
  /\ EntryOk(f, h) /\ f.epoch = e.epoch /\ f.opts = e.opts /\ f.lang = e.lang
  /\ f.full = e.full /\ f.dirty = e.dirty

LEMMA OtherCacheOk ==
  ASSUME NEW e, NEW h, EntryOk(e, h), NEW f, DOMAIN f = Fields, CacheOk(f.cache, e.lang, e.opts, h),
         f.full = e.full, f.memory = e.memory, f.lang = e.lang, f.dirty = e.dirty,
         f.pending = e.pending, f.opts = e.opts, f.completed = e.completed, f.epoch = e.epoch
  PROVE  LateralOk(e, f, h)
<1>1. BodyOk(f, h)  BY DEF EntryOk, BodyOk
<1>2. EntryOk(f, h)  BY <1>1 DEF EntryOk
<1>. QED  BY <1>2 DEF LateralOk

LEMMA NoteViewportOk ==
  ASSUME NEW e, NEW h, EntryOk(e, h), NEW ctx
  PROVE  LateralOk(e, NoteViewport(e, ctx), h)
<1> DEFINE f == NoteViewport(e, ctx)
<1> DEFINE k == FocusKey(e.cache, ctx.vp)
<1>1. DOMAIN e = Fields /\ CacheOk(e.cache, e.lang, e.opts, h)  BY DEF EntryOk, BodyOk
<1>2. LateralOk(e, e, h)  BY DEF LateralOk
<1>3. CASE ctx.vp = None  BY <1>2, <1>3 DEF NoteViewport
<1>4. CASE ctx.vp # None
  <2>1. /\ DOMAIN f = Fields /\ f.cache = Touch(e.cache, k) /\ f.full = e.full /\ f.memory = e.memory
        /\ f.lang = e.lang /\ f.dirty = e.dirty /\ f.pending = e.pending /\ f.opts = e.opts
        /\ f.completed = e.completed /\ f.epoch = e.epoch
    BY <1>1, <1>4 DEF NoteViewport, Fields
  <2> HIDE DEF f, k
  <2>2. CacheOk(Touch(e.cache, k), e.lang, e.opts, h)  BY <1>1, TouchOk
  <2>3. LateralOk(e, f, h)  BY <2>1, <2>2, OtherCacheOk
  <2>. QED  BY <2>3 DEF f
<1>. QED  BY <1>3, <1>4

LEMMA LateralState ==
  ASSUME NEW e, NEW f, NEW ts, NEW h, StateOk(e, ts, h), LateralOk(e, f, h)
  PROVE  StateOk(f, ts, h)
BY SameEpoch DEF LateralOk

(* The tasks a poll may spawn.                                             *)
LEMMA TaskIsOk ==
  ASSUME NEW h, Len(h) \in Nat \ {0}, NEW e, e.epoch \in Nat, NEW ctx, ctx.ver = Len(h) - 1,
         NEW lane \in Lanes, NEW inj, NEW key, NEW win, NEW of \in {h[Len(h)], Torn},
         lane # "bg" => of = h[Len(h)]
  PROVE  LET t == Task(e, ctx, lane, inj, key, win, of)
         IN  TaskOk(t, h) /\ t.epoch = e.epoch /\ t.lane = lane
<1> DEFINE t == Task(e, ctx, lane, inj, key, win, of)
<1>1. /\ DOMAIN t = {"lane", "epoch", "ver", "lang", "inj", "key", "win", "of", "res"}
      /\ t.lane = lane /\ t.epoch = e.epoch /\ t.ver = Len(h) - 1 /\ t.of = of
  BY DEF Task
<1> HIDE DEF t
<1>2. Len(h) - 1 + 1 = Len(h) /\ Len(h) - 1 \in 0 .. Len(h) - 1  OBVIOUS
<1>3. TaskOk(t, h)  BY <1>1, <1>2 DEF TaskOk
<1>. QED  BY <1>1, <1>3 DEF t

SpawnedOk(e, s, h) ==
  /\ StateOk(s.entry, s.tasks, h) /\ s.entry.full = e.full
  /\ s.entry.epoch = e.epoch /\ s.entry.opts = e.opts

LEMMA SpawnLaneOk ==
  ASSUME NEW e, NEW h, NEW s, SpawnedOk(e, s, h), NEW ctx,
         NEW t, TaskOk(t, h), t.epoch = e.epoch, t.lane # "bg" => e.opts = "disabled"
  PROVE  SpawnedOk(e, SpawnLane(s, ctx, t), h)
<1> DEFINE x == s.entry
<1> DEFINE y == Spawned(s, ctx, t).entry
<1> DEFINE ts == Spawned(s, ctx, t).tasks
<1>1. /\ EntryOk(x, h) /\ Awaited(x, s.tasks) /\ \A u \in s.tasks : TaskOk(u, h)
      /\ x.full = e.full /\ x.epoch = e.epoch /\ x.opts = e.opts /\ t.lane \in Lanes /\ t.epoch \in Nat
  BY DEF SpawnedOk, StateOk, TaskOk
<1>2. DOMAIN x = Fields /\ CacheOk(x.cache, x.lang, x.opts, h)  BY <1>1, ZenonT(20) DEF EntryOk, BodyOk
<1> DEFINE z == [x EXCEPT !.active[t.lane] = x.epoch, !.requested[t.lane] = ctx.ver]
<1>3. /\ DOMAIN z = Fields /\ z.cache = x.cache /\ z.full = x.full /\ z.memory = x.memory /\ z.lang = x.lang
      /\ z.dirty = x.dirty /\ z.pending = x.pending /\ z.opts = x.opts /\ z.completed = x.completed
      /\ z.epoch = x.epoch
  BY <1>2 DEF Fields
<1>4. y = CASE t.lane = "urgent" -> z
            [] t.lane = "enrich" ->
                 [z EXCEPT !.cache = [GetMutOrInsert(@, t.key) EXCEPT ![1].bTried = ctx.ver, ![1].bCooling = FALSE]]
            [] t.lane = "bg" -> [z EXCEPT !.force = FALSE]
  BY ZenonT(20) DEF Spawned
<1>5. ts = s.tasks \cup {t}  BY DEF Spawned
<1> HIDE DEF x, y, z, ts
<1>6. LateralOk(x, y, h)
  <2>1. CASE t.lane = "urgent"
    <3>1. y = z  BY <1>4, <2>1
    <3>. QED  BY <1>1, <1>2, <1>3, <3>1, OtherCacheOk, ZenonT(20)
  <2>2. CASE t.lane = "bg"
    <3>1. y = [z EXCEPT !.force = FALSE]  BY <1>4, <2>2
    <3>2. /\ DOMAIN y = Fields /\ y.cache = x.cache /\ y.full = x.full /\ y.memory = x.memory /\ y.lang = x.lang
          /\ y.dirty = x.dirty /\ y.pending = x.pending /\ y.opts = x.opts /\ y.completed = x.completed
          /\ y.epoch = x.epoch
      BY <1>3, <3>1 DEF Fields
    <3>. QED  BY <1>1, <1>2, <3>2, OtherCacheOk, ZenonT(20)
  <2>3. CASE t.lane = "enrich"
    <3> DEFINE r == GetMutOrInsert(x.cache, t.key)
    <3> DEFINE c == [r[1] EXCEPT !.bTried = ctx.ver, !.bCooling = FALSE]
    <3>1. CacheOk(r, x.lang, x.opts, h) /\ 1 \in DOMAIN r /\ SlotOk(r[1], x.lang, x.opts, h)
      BY <1>2, GetMutOrInsertOk, ZenonT(20)
    <3>2. y = [z EXCEPT !.cache = [r EXCEPT ![1].bTried = ctx.ver, ![1].bCooling = FALSE]]
      BY <1>3, <1>4, <2>3
    <3>3. [r EXCEPT ![1].bTried = ctx.ver, ![1].bCooling = FALSE] = [r EXCEPT ![1] = c]
      BY <3>1
    <3>4. SlotOk(c, x.lang, x.opts, h)
      <4>1. c.a = r[1].a /\ c.b = r[1].b /\ DOMAIN c = DOMAIN r[1]  BY <3>1 DEF SlotOk
      <4> HIDE DEF c
      <4>. QED  BY <3>1, <4>1, ZenonT(20) DEF SlotOk
    <3> HIDE DEF r, c
    <3>5. CacheOk([r EXCEPT ![1] = c], x.lang, x.opts, h)  BY <3>1, <3>4, CacheUpdate
    <3> DEFINE q == [r EXCEPT ![1] = c]
    <3>6. y = [z EXCEPT !.cache = q]  BY <3>2, <3>3
    <3> HIDE DEF q
    <3>7. /\ DOMAIN y = Fields /\ y.cache = q /\ y.full = x.full /\ y.memory = x.memory /\ y.lang = x.lang
          /\ y.dirty = x.dirty /\ y.pending = x.pending /\ y.opts = x.opts /\ y.completed = x.completed
          /\ y.epoch = x.epoch
      BY <1>3, <3>6 DEF Fields
    <3>8. CacheOk(q, x.lang, x.opts, h)  BY <3>5 DEF q
    <3>. QED  BY <1>1, <3>7, <3>8, OtherCacheOk, ZenonT(20)
  <2>. QED  BY <1>1, <2>1, <2>2, <2>3, ZenonT(20) DEF Lanes
<1>7. EntryOk(y, h) /\ y.epoch = e.epoch /\ y.opts = e.opts /\ y.full = e.full
  BY <1>1, <1>6 DEF LateralOk
<1>8. e.epoch \in Nat  BY <1>1, ZenonT(20) DEF EntryOk, BodyOk
<1>9. Awaited(y, ts)
  <2> SUFFICES ASSUME NEW u \in ts
               PROVE  u.epoch <= y.epoch /\ (u.epoch = y.epoch /\ u.lane # "bg" => y.opts = "disabled")
    BY DEF Awaited
  <2>1. CASE u \in s.tasks  BY <1>1, <1>7, <2>1 DEF Awaited
  <2>2. CASE u = t  BY <1>7, <1>8, <2>2
  <2>. QED  BY <1>5, <2>1, <2>2
<1>10. \A u \in ts : TaskOk(u, h)  BY <1>1, <1>5
<1>11. SpawnedOk(e, Spawned(s, ctx, t), h)
  BY <1>7, <1>9, <1>10, ZenonT(20) DEF SpawnedOk, StateOk, y, ts
<1>. QED  BY <1>11 DEF SpawnLane

LEMMA SpawnPlanOk ==
  ASSUME NEW e, NEW h, StateOk(e, tasks, h), HistOk(h),
         NEW ctx, ctx.ver = Len(h) - 1, ctx.text = h[Len(h)], e.opts = Injections(ctx.tier), NEW cheap
  PROVE  SpawnedOk(e, SpawnPlan(e, ctx, cheap), h)
<1> DEFINE s0 == [entry |-> e, tasks |-> tasks]
<1> DEFINE a == PlansStageA(e, ctx)
<1> DEFINE s1 == IF a THEN SpawnLane(s0, ctx, StageA(e, ctx)) ELSE s0
<1> DEFINE b == ~a /\ PlansStageB(e, ctx, cheap)
<1> DEFINE s2 == IF b THEN SpawnLane(s1, ctx, StageB(e, ctx)) ELSE s1
<1> DEFINE s3 == IF PlansBg(e) THEN SpawnLane(s2, ctx, Background(e, ctx)) ELSE s2
<1>1. EntryOk(e, h) /\ e.epoch \in Nat /\ Len(h) \in Nat \ {0}
  BY EmptySeq, LenProperties, ZenonT(20) DEF StateOk, EntryOk, BodyOk, HistOk
<1>2. SpawnedOk(e, s0, h)
  <2>1. s0.entry = e /\ s0.tasks = tasks  BY ZenonT(20)
  <2> HIDE DEF s0
  <2>. QED  BY <2>1 DEF SpawnedOk
<1>3. SpawnedOk(e, s1, h)
  <2>1. CASE ~a  BY <1>2, <2>1
  <2>2. CASE a
    <3> DEFINE t == StageA(e, ctx)
    <3>1. e.opts = "disabled"  BY <2>2 DEF PlansStageA, Injections
    <3>2. TaskOk(t, h) /\ t.epoch = e.epoch
      <4> DEFINE inj == IF e.source = "history" THEN "eager" ELSE "disabled"
      <4> DEFINE key == ViewportKey(ctx.vp)
      <4> DEFINE win == StageAWindow(ctx.vp, Bytes[ctx.text])
      <4>1. t = Task(e, ctx, "urgent", inj, key, win, ctx.text)  BY DEF StageA
      <4>2. "urgent" \in Lanes  BY DEF Lanes
      <4> HIDE DEF t, inj, key, win
      <4>3. TaskOk(Task(e, ctx, "urgent", inj, key, win, ctx.text), h)  BY <1>1, <4>2, TaskIsOk, ZenonT(20)
      <4>4. Task(e, ctx, "urgent", inj, key, win, ctx.text).epoch = e.epoch  BY DEF Task
      <4>. QED  BY <4>1, <4>3, <4>4, ZenonT(20)
    <3> HIDE DEF t, s0, a
    <3>3. SpawnedOk(e, SpawnLane(s0, ctx, t), h)  BY <1>2, <3>1, <3>2, SpawnLaneOk, ZenonT(20)
    <3>. QED  BY <2>2, <3>3 DEF t
  <2>. QED  BY <2>1, <2>2, ZenonT(20)
<1>4. SpawnedOk(e, s2, h)
  <2>1. CASE ~b  BY <1>3, <2>1, ZenonT(20)
  <2>2. CASE b
    <3> DEFINE t == StageB(e, ctx)
    <3>1. e.opts = "disabled"  BY <2>2 DEF PlansStageB, Injections
    <3>2. TaskOk(t, h) /\ t.epoch = e.epoch
      <4> DEFINE key == FocusKey(e.cache, ctx.vp)
      <4> DEFINE win == StageBWindowOf(e, ctx)
      <4>1. t = Task(e, ctx, "enrich", "eager", key, win, ctx.text)  BY DEF StageB
      <4>2. "enrich" \in Lanes  BY DEF Lanes
      <4> HIDE DEF t, key, win
      <4>3. TaskOk(Task(e, ctx, "enrich", "eager", key, win, ctx.text), h)  BY <1>1, <4>2, TaskIsOk, ZenonT(20)
      <4>4. Task(e, ctx, "enrich", "eager", key, win, ctx.text).epoch = e.epoch  BY DEF Task
      <4>. QED  BY <4>1, <4>3, <4>4
    <3> HIDE DEF t, s1, b
    <3>3. SpawnedOk(e, SpawnLane(s1, ctx, t), h)  BY <1>3, <3>1, <3>2, SpawnLaneOk, ZenonT(20)
    <3>. QED  BY <2>2, <3>3 DEF t
  <2>. QED  BY <2>1, <2>2, ZenonT(20)
<1>5. SpawnedOk(e, s3, h)
  <2>1. CASE ~PlansBg(e)  BY <1>4, <2>1, ZenonT(20)
  <2>2. CASE PlansBg(e)
    <3> DEFINE t == Background(e, ctx)
    <3> DEFINE of == IF e.pending # None /\ e.full # None /\ e.full.ver = e.pending.base
                     THEN Update(e.full.of, e.pending, ctx.text) ELSE ctx.text
    <3>1. of \in {h[Len(h)], Torn}
      <4>1. e.pending # None => e.pending.old = h[e.pending.base + 1] /\ e.pending.new = h[Len(h)]
        BY <1>1 DEF EntryOk, PendingOk
      <4>2. e.full # None => e.full.of \in {h[e.full.ver + 1], Torn}
        BY <1>1, ZenonT(20) DEF EntryOk, BodyOk, FullOk
      <4>. QED  BY <4>1, <4>2 DEF Update
    <3>2. TaskOk(t, h) /\ t.epoch = e.epoch /\ t.lane = "bg"
      <4> DEFINE inj == Injections(ctx.tier)
      <4>1. t = Task(e, ctx, "bg", inj, None, None, of)  BY DEF Background
      <4> HIDE DEF t, of, inj
      <4>2. "bg" \in Lanes  BY DEF Lanes
      <4>3. TaskOk(Task(e, ctx, "bg", inj, None, None, of), h)  BY <1>1, <3>1, <4>2, TaskIsOk, ZenonT(20)
      <4>4. /\ Task(e, ctx, "bg", inj, None, None, of).epoch = e.epoch
            /\ Task(e, ctx, "bg", inj, None, None, of).lane = "bg"
        BY ZenonT(20) DEF Task
      <4>. QED  BY <4>1, <4>3, <4>4
    <3> HIDE DEF t, s2, of
    <3>3. SpawnedOk(e, SpawnLane(s2, ctx, t), h)  BY <1>4, <3>2, SpawnLaneOk, ZenonT(20)
    <3>. QED  BY <2>2, <3>3, ZenonT(20) DEF t
  <2>. QED  BY <2>1, <2>2, ZenonT(20)
<1>. QED  BY <1>5, ZenonT(20) DEF SpawnPlan

(* The retention sweep drops trees and tasks, and never brings one.        *)
SweptOk(e, f, ts, h) ==
  StateOk(f, ts, h) /\ (f.full = e.full \/ f.full = None) /\ f.tier = e.tier

LEMMA SweepOk ==
  ASSUME NEW e, NEW ts, NEW h, StateOk(e, ts, h)
  PROVE  SweptOk(e, Sweep(e), ts, h)
<1> DEFINE idle == IF AnyActive(e) \/ e.completed # <<>> THEN Invalidate(e) ELSE e
<1> DEFINE df == (e.full # None \/ e.dirty) /\ (e.tier = "L" \/ (e.tier = "M" /\ e.expired))
<1> DEFINE dv == CacheTrees(e.cache) # {} /\ e.tier # "S" /\ e.expired
<1> DEFINE x == [idle EXCEPT !.full = None, !.memory = <<>>, !.dirty = FALSE, !.pending = None]
<1> DEFINE y == IF df THEN x ELSE idle
<1> DEFINE z == [y EXCEPT !.cache = <<>>]
<1>0. EntryOk(e, h)  BY DEF StateOk
<1>1. StateOk(idle, ts, h) /\ idle.full = e.full /\ idle.tier = e.tier
  <2> DEFINE i == Invalidate(e)
  <2>1. EntryOk(i, h) /\ i.epoch = e.epoch + 1 /\ i.full = e.full /\ i.tier = e.tier
    BY <1>0, InvalidateOk
  <2> HIDE DEF i
  <2>2. StateOk(i, ts, h)  BY <2>1, NextEpoch
  <2>. QED  BY <2>1, <2>2, ZenonT(20) DEF i
<1> HIDE DEF idle, df, dv
<1>2. DOMAIN idle = Fields /\ EntryOk(idle, h)  BY <1>1, ZenonT(20) DEF StateOk, EntryOk, BodyOk
<1>3. StateOk(x, ts, h) /\ x.full = None /\ x.tier = idle.tier
  <2>1. /\ DOMAIN x = Fields /\ x.full = None /\ x.memory = <<>> /\ x.dirty = FALSE /\ x.pending = None
        /\ x.cache = idle.cache /\ x.lang = idle.lang /\ x.opts = idle.opts /\ x.tier = idle.tier
        /\ x.completed = idle.completed /\ x.epoch = idle.epoch
    BY <1>2 DEF Fields
  <2> HIDE DEF x
  <2>2. EntryOk(x, h)  BY <1>2, <2>1, MemoryEmpty, ZenonT(20) DEF EntryOk, BodyOk
  <2>. QED  BY <1>1, <2>1, <2>2, SameEpoch
<1> HIDE DEF x
<1>4. StateOk(y, ts, h) /\ (y.full = e.full \/ y.full = None) /\ y.tier = e.tier
  BY <1>1, <1>3
<1> HIDE DEF y
<1>5. StateOk(z, ts, h) /\ z.full = y.full /\ z.tier = y.tier
  <2>0. EntryOk(y, h) /\ DOMAIN y = Fields  BY <1>4, ZenonT(20) DEF StateOk, EntryOk, BodyOk
  <2>1. /\ DOMAIN z = Fields /\ z.full = y.full /\ z.memory = y.memory /\ z.dirty = y.dirty
        /\ z.pending = y.pending /\ z.cache = <<>> /\ z.lang = y.lang /\ z.opts = y.opts
        /\ z.tier = y.tier /\ z.completed = y.completed /\ z.epoch = y.epoch
    BY <2>0 DEF Fields
  <2> HIDE DEF z
  <2>2. CacheOk(z.cache, y.lang, y.opts, h)  BY <2>1, CacheEmpty
  <2>3. LateralOk(y, z, h)  BY <2>0, <2>1, <2>2, OtherCacheOk
  <2>. QED  BY <1>4, <2>1, <2>3, LateralState
<1>6. Sweep(e) = IF e.tier = None \/ hot # "cold" THEN e ELSE IF dv THEN z ELSE y
  BY DEF Sweep, idle, df, dv, x, y
<1> HIDE DEF z
<1>. QED  BY <1>4, <1>5, <1>6 DEF SweptOk

LEMMA NoLanguageOk ==
  ASSUME NEW e, NEW ts, NEW h, StateOk(e, ts, h)
  PROVE  StateOk(NoLanguage(e), ts, h) /\ NoLanguage(e).full = None
<1> DEFINE b == IF HasAnyTree(e) THEN DropTree(e) ELSE e
<1> DEFINE f == [b EXCEPT !.lang = None, !.dirty = FALSE, !.cooling = {}]
<1>0. EntryOk(e, h)  BY DEF StateOk
<1>1. /\ EntryOk(b, h) /\ b.full = None /\ b.memory = <<>> /\ CacheTrees(b.cache) = {}
      /\ b.epoch = e.epoch /\ b.opts = e.opts
  BY <1>0, BareOk, ZenonT(20)
<1>2. f = NoLanguage(e)  BY DEF NoLanguage
<1> HIDE DEF b
<1>3. DOMAIN b = Fields /\ b.epoch \in Nat  BY <1>1, ZenonT(20) DEF EntryOk, BodyOk
<1>4. /\ DOMAIN f = Fields /\ f.lang = None /\ f.full = None /\ f.memory = <<>> /\ f.cache = b.cache
      /\ f.dirty = FALSE /\ f.opts = b.opts /\ f.epoch = b.epoch /\ f.completed = b.completed
      /\ f.pending = b.pending
  BY <1>1, <1>3 DEF Fields
<1> HIDE DEF f
<1>5. None \in Langs \cup {None}  OBVIOUS
<1>6. EntryOk(f, h)  BY <1>1, <1>3, <1>4, <1>5, NewLangOk, ZenonT(20)
<1>7. StateOk(f, ts, h)  BY <1>1, <1>4, <1>6, SameEpoch
<1>. QED  BY <1>2, <1>4, <1>7

LEMMA ResetSyntaxOk ==
  ASSUME NEW e, NEW ts, NEW h, StateOk(e, ts, h)
  PROVE  StateOk(ResetSyntax(e), ts, h) /\ ResetSyntax(e).full = None /\ ResetSyntax(e).pending = None
<1> DEFINE b == IF HasAnyTree(e) THEN DropTree(e) ELSE e
<1> DEFINE d == [b EXCEPT !.dirty = TRUE, !.pending = None]
<1> DEFINE f == Invalidate(d)
<1>0. EntryOk(e, h)  BY DEF StateOk
<1>1. EntryOk(b, h) /\ b.full = None /\ b.epoch = e.epoch  BY <1>0, BareOk, ZenonT(20)
<1>2. f = ResetSyntax(e)  BY DEF ResetSyntax
<1> HIDE DEF b
<1>3. DOMAIN b = Fields /\ b.epoch \in Nat  BY <1>1, ZenonT(20) DEF EntryOk, BodyOk
<1>4. /\ DOMAIN d = Fields /\ d.lang = b.lang /\ d.full = None /\ d.memory = b.memory /\ d.cache = b.cache
      /\ d.dirty = TRUE /\ d.opts = b.opts /\ d.epoch = b.epoch /\ d.completed = b.completed
      /\ d.pending = None
  BY <1>1, <1>3 DEF Fields
<1> HIDE DEF d
<1>5. EntryOk(d, h)  BY <1>1, <1>4, ZenonT(20) DEF EntryOk, BodyOk
<1>6. EntryOk(f, h) /\ f.epoch = d.epoch + 1 /\ f.full = d.full /\ f.pending = d.pending
  BY <1>5, InvalidateOk
<1> HIDE DEF f
<1>7. StateOk(f, ts, h)  BY <1>1, <1>4, <1>6, NextEpoch
<1>. QED  BY <1>2, <1>4, <1>6, <1>7

LEMMA BootedOk ==
  ASSUME NEW e, NEW ts, NEW h, StateOk(e, ts, h), HistOk(h),
         NEW ctx, ctx.ver = Len(h) - 1, ctx.text = h[Len(h)], ctx.lang = e.lang
  PROVE  LET f == Booted(e, ctx) IN StateOk(f, ts, h) /\ f.full.ver = Len(h) - 1
<1> DEFINE u == [ver |-> ctx.ver, of |-> ctx.text, lang |-> ctx.lang]
<1> DEFINE f == Booted(e, ctx)
<1>1. EntryOk(e, h) /\ DOMAIN e = Fields /\ e.lang \in Langs \cup {None}  BY ZenonT(20) DEF StateOk, EntryOk, BodyOk
<1>2. /\ DOMAIN f = Fields /\ f.full = u /\ f.memory = e.memory /\ f.cache = e.cache /\ f.dirty = FALSE
      /\ f.lang = e.lang /\ f.opts = e.opts /\ f.pending = None /\ f.completed = e.completed
      /\ f.epoch = e.epoch
  BY <1>1 DEF Booted, Fields
<1>3. Len(h) \in Nat \ {0} /\ h[Len(h)] \in Texts  BY EmptySeq, ElementOfSeq DEF HistOk
<1>4. u \in Trees /\ u.ver = Len(h) - 1 /\ u.of = h[Len(h)] /\ u.lang = e.lang
  BY <1>1, <1>3 DEF Trees
<1> HIDE DEF u, f
<1>5. u # None  BY <1>4, TreesAreSome
<1>6. FullOk(u, e.lang, h)  BY <1>3, <1>4 DEF FullOk
<1>7. BodyOk(f, h)  BY <1>1, <1>2, <1>4, <1>5, <1>6, ZenonT(20) DEF EntryOk, BodyOk
<1>8. EntryOk(f, h)  BY <1>2, <1>7 DEF EntryOk
<1>9. StateOk(f, ts, h)  BY <1>2, <1>8, SameEpoch
<1>. QED  BY <1>2, <1>4, <1>9 DEF f
-----------------------------------------------------------------------------
(* One poll.                                                               *)
LEMMA DeriveIs ==
  ASSUME HistOk(hist)
  PROVE  /\ Derive.ver = Len(hist) - 1 /\ Derive.text = hist[Len(hist)] /\ Derive.lang = language
         /\ Derive.hot = hot /\ Derive.disabled = (hot = "cold")
BY ZenonT(20) DEF Derive, version, text

(* What the stages before the gate leave.                                  *)
GatedOk(e, f, ctx, ts, h) ==
  /\ StateOk(f, ts, h) /\ NoOlder(e, f) /\ f.lang = ctx.lang /\ f.opts = Injections(ctx.tier)

LEMMA InstalledIsGated ==
  ASSUME NEW e, NEW ts, NEW h, StateOk(e, ts, h), HistOk(h),
         NEW ctx, ctx.ver = Len(h) - 1, ctx.lang \in Langs \cup {None}
  PROVE  GatedOk(e, InstallCompletions(Normalize(e, ctx), ctx), ctx, ts, h)
<1> DEFINE n == Normalize(e, ctx)
<1> DEFINE f == InstallCompletions(n, ctx)
<1>1. NormalizedOk(e, n, ctx, ts, h)  BY NormalizeOk
<1> HIDE DEF n
<1>2. /\ StateOk(n, ts, h) /\ EntryOk(n, h) /\ n.lang = ctx.lang /\ n.opts = Injections(ctx.tier)
      /\ n.full = e.full \/ (n.full = None /\ n.completed = <<>>)
  BY <1>1 DEF NormalizedOk, StateOk
<1>3. InstalledAllOk(n, f, h)  BY <1>2, InstallCompletionsOk
<1> HIDE DEF f
<1>4. /\ EntryOk(f, h) /\ f.epoch = n.epoch /\ f.opts = n.opts /\ f.lang = n.lang
      /\ n.full # None => f.full # None /\ f.full.ver >= n.full.ver
      /\ n.full = None /\ n.completed = <<>> => f.full = None
  BY <1>3 DEF InstalledAllOk
<1>5. StateOk(f, ts, h)  BY <1>2, <1>4, SameEpoch
<1>6. NoOlder(e, f)  BY <1>2, <1>4 DEF NoOlder
<1>7. GatedOk(e, f, ctx, ts, h)  BY <1>2, <1>4, <1>5, <1>6 DEF GatedOk
<1>. QED  BY <1>7 DEF f, n

LEMMA ViewedIsGated ==
  ASSUME NEW e, NEW g, NEW ctx, NEW ts, NEW h, GatedOk(e, g, ctx, ts, h)
  PROVE  GatedOk(e, NoteViewport(g, ctx), ctx, ts, h)
<1> DEFINE f == NoteViewport(g, ctx)
<1>1. StateOk(g, ts, h) /\ EntryOk(g, h)  BY DEF GatedOk, StateOk
<1>2. LateralOk(g, f, h)  BY <1>1, NoteViewportOk
<1> HIDE DEF f
<1>3. StateOk(f, ts, h)  BY <1>1, <1>2, LateralState
<1>4. f.full = g.full /\ f.lang = g.lang /\ f.opts = g.opts  BY <1>2 DEF LateralOk
<1>5. GatedOk(e, f, ctx, ts, h)  BY <1>3, <1>4 DEF GatedOk, NoOlder
<1>. QED  BY <1>5 DEF f

PolledOk(e, s, h) == StateOk(s.entry, s.tasks, h) /\ NoOlder(e, s.entry)

LEMMA StopOk ==
  ASSUME NEW e, NEW f, NEW ts, NEW h, StateOk(f, ts, h), NoOlder(e, f)
  PROVE  PolledOk(e, [entry |-> f, tasks |-> ts], h)
<1> DEFINE s == [entry |-> f, tasks |-> ts]
<1>1. s.entry = f /\ s.tasks = ts  OBVIOUS
<1> HIDE DEF s
<1>2. PolledOk(e, s, h)  BY <1>1 DEF PolledOk
<1>. QED  BY <1>2 DEF s

LEMMA SpawnIsOk ==
  ASSUME NEW e, NEW f, NEW h, GatedOk(e, f, Derive, tasks, h), h = hist, HistOk(hist), NEW cheap
  PROVE  PolledOk(e, SpawnPlan(f, Derive, cheap), h)
<1> DEFINE ctx == Derive
<1>1. ctx.ver = Len(h) - 1 /\ ctx.text = h[Len(h)]  BY DeriveIs
<1> HIDE DEF ctx
<1>2. StateOk(f, tasks, h) /\ NoOlder(e, f) /\ f.opts = Injections(ctx.tier)  BY DEF GatedOk, ctx
<1> DEFINE s == SpawnPlan(f, ctx, cheap)
<1>3. SpawnedOk(f, s, h)  BY <1>1, <1>2, SpawnPlanOk
<1> HIDE DEF s
<1>4. PolledOk(e, s, h)  BY <1>2, <1>3 DEF SpawnedOk, PolledOk, NoOlder
<1>. QED  BY <1>4 DEF s, ctx

(* An entry that differs from a gated one in the flags only.               *)
LEMMA FlagsAreGated ==
  ASSUME NEW e, NEW g, NEW ctx, NEW ts, NEW h, GatedOk(e, g, ctx, ts, h)
  PROVE  /\ GatedOk(e, [g EXCEPT !.force = FALSE], ctx, ts, h)
         /\ GatedOk(e, [g EXCEPT !.booted = TRUE], ctx, ts, h)
<1> DEFINE x == [g EXCEPT !.force = FALSE]
<1> DEFINE y == [g EXCEPT !.booted = TRUE]
<1>1. StateOk(g, ts, h) /\ EntryOk(g, h) /\ DOMAIN g = Fields /\ CacheOk(g.cache, g.lang, g.opts, h)
  BY ZenonT(20) DEF GatedOk, StateOk, EntryOk, BodyOk
<1>2. /\ DOMAIN x = Fields /\ x.cache = g.cache /\ x.full = g.full /\ x.memory = g.memory
      /\ x.lang = g.lang /\ x.dirty = g.dirty /\ x.pending = g.pending /\ x.opts = g.opts
      /\ x.completed = g.completed /\ x.epoch = g.epoch
  BY <1>1 DEF Fields
<1>3. /\ DOMAIN y = Fields /\ y.cache = g.cache /\ y.full = g.full /\ y.memory = g.memory
      /\ y.lang = g.lang /\ y.dirty = g.dirty /\ y.pending = g.pending /\ y.opts = g.opts
      /\ y.completed = g.completed /\ y.epoch = g.epoch
  BY <1>1 DEF Fields
<1> HIDE DEF x, y
<1>4. LateralOk(g, x, h) /\ LateralOk(g, y, h)  BY <1>1, <1>2, <1>3, OtherCacheOk, ZenonT(20)
<1>5. StateOk(x, ts, h) /\ StateOk(y, ts, h)  BY <1>1, <1>4, LateralState
<1>6. GatedOk(e, x, ctx, ts, h)  BY <1>2, <1>5 DEF GatedOk, NoOlder
<1>7. GatedOk(e, y, ctx, ts, h)  BY <1>3, <1>5 DEF GatedOk, NoOlder
<1>. QED  BY <1>6, <1>7 DEF x, y

LEMMA EnsureSyntaxOk ==
  ASSUME NEW e, StateOk(e, tasks, hist), HistOk(hist), language \in Langs \cup {None}, NEW quick
  PROVE  PolledOk(e, EnsureSyntax(e, quick), hist)
<1> DEFINE ctx == Derive
<1> DEFINE f == InstallCompletions(Normalize(e, ctx), ctx)
<1> DEFINE g == NoteViewport(f, ctx)
<1> DEFINE b == [g EXCEPT !.booted = TRUE]
<1>1. ctx.ver = Len(hist) - 1 /\ ctx.text = hist[Len(hist)] /\ ctx.lang = language  BY DeriveIs
<1> HIDE DEF ctx
<1>2. GatedOk(e, f, ctx, tasks, hist)  BY <1>1, InstalledIsGated
<1> HIDE DEF f
<1>3. GatedOk(e, g, ctx, tasks, hist)  BY <1>2, ViewedIsGated
<1>4. StateOk(f, tasks, hist) /\ EntryOk(f, hist) /\ NoOlder(e, f)  BY <1>2 DEF GatedOk, StateOk
<1> HIDE DEF g
<1>5. GatedOk(e, [g EXCEPT !.force = FALSE], ctx, tasks, hist) /\ GatedOk(e, b, ctx, tasks, hist)
  BY <1>3, FlagsAreGated
<1> HIDE DEF b
<1>6. CASE ctx.lang = None
  <2> DEFINE x == NoLanguage(f)
  <2>1. StateOk(x, tasks, hist) /\ x.full = None  BY <1>4, NoLanguageOk
  <2>2. EnsureSyntax(e, quick) = [entry |-> x, tasks |-> tasks]  BY <1>6 DEF EnsureSyntax, ctx, f
  <2> HIDE DEF x
  <2>3. NoOlder(e, x)  BY <2>1 DEF NoOlder
  <2>. QED  BY <2>1, <2>2, <2>3, StopOk
<1>7. CASE ctx.lang # None /\ ctx.disabled
  <2> DEFINE x == IF AnyActive(f) THEN Invalidate(f) ELSE f
  <2> DEFINE i == Invalidate(f)
  <2>0. EntryOk(i, hist) /\ i.epoch = f.epoch + 1 /\ i.full = f.full  BY <1>4, InvalidateOk
  <2> HIDE DEF i
  <2>1. StateOk(i, tasks, hist)  BY <1>4, <2>0, NextEpoch
  <2>2. StateOk(x, tasks, hist) /\ x.full = f.full  BY <1>4, <2>0, <2>1 DEF i
  <2>3. EnsureSyntax(e, quick) = [entry |-> x, tasks |-> tasks]  BY <1>7 DEF EnsureSyntax, ctx, f
  <2> HIDE DEF x
  <2>4. NoOlder(e, x)  BY <1>4, <2>2 DEF NoOlder
  <2>. QED  BY <2>2, <2>3, <2>4, StopOk
<1>8. CASE ctx.lang # None /\ ~ctx.disabled
  <2>0. EnsureSyntax(e, quick) =
          IF ReadyFast(g, ctx) THEN [entry |-> [g EXCEPT !.force = FALSE], tasks |-> tasks]
          ELSE IF Debounced(g) THEN [entry |-> g, tasks |-> tasks]
          ELSE IF Boots(g, ctx) /\ quick /\ ~AnyActive(g) THEN [entry |-> Booted(g, ctx), tasks |-> tasks]
          ELSE IF Boots(g, ctx) THEN SpawnPlan(b, ctx, quick)
          ELSE SpawnPlan(g, ctx, quick)
    BY <1>8 DEF EnsureSyntax, ctx, f, g, b
  <2>1. PolledOk(e, [entry |-> [g EXCEPT !.force = FALSE], tasks |-> tasks], hist)
    <3> DEFINE x == [g EXCEPT !.force = FALSE]
    <3> HIDE DEF x
    <3>1. StateOk(x, tasks, hist) /\ NoOlder(e, x)  BY <1>5 DEF GatedOk, x
    <3>2. PolledOk(e, [entry |-> x, tasks |-> tasks], hist)  BY <3>1, StopOk
    <3>. QED  BY <3>2 DEF x
  <2>2. PolledOk(e, [entry |-> g, tasks |-> tasks], hist)
    BY <1>3, StopOk DEF GatedOk
  <2>3. PolledOk(e, [entry |-> Booted(g, ctx), tasks |-> tasks], hist)
    <3> DEFINE x == Booted(g, ctx)
    <3>1. StateOk(g, tasks, hist) /\ ctx.lang = g.lang  BY <1>3 DEF GatedOk
    <3>2. StateOk(x, tasks, hist) /\ x.full.ver = Len(hist) - 1  BY <1>1, <3>1, BootedOk
    <3> HIDE DEF x
    <3>3. e.full # None => e.full.ver \in Nat /\ e.full.ver <= Len(hist) - 1
      BY ZenonT(20) DEF StateOk, EntryOk, BodyOk, FullOk, Trees
    <3>4. Len(hist) \in Nat  BY LenProperties DEF HistOk
    <3>5. NoOlder(e, x)  BY <3>2, <3>3, <3>4 DEF NoOlder
    <3>6. PolledOk(e, [entry |-> x, tasks |-> tasks], hist)  BY <3>2, <3>5, StopOk
    <3>. QED  BY <3>6 DEF x
  <2>4. PolledOk(e, SpawnPlan(b, ctx, quick), hist) /\ PolledOk(e, SpawnPlan(g, ctx, quick), hist)
    BY <1>3, <1>5, SpawnIsOk DEF ctx
  <2>. QED  BY <2>0, <2>1, <2>2, <2>3, <2>4
<1>. QED  BY <1>6, <1>7, <1>8

LEMMA FrameOk ==
  ASSUME StateOk(entry, tasks, hist), HistOk(hist), language \in Langs \cup {None}, NEW quick
  PROVE  PolledOk(entry, Polled(quick), hist)
<1> DEFINE w == Sweep(entry)
<1>1. SweptOk(entry, w, tasks, hist)  BY SweepOk
<1>2. InWorkset(w) => w = entry
  <2>1. w.tier = entry.tier  BY <1>1 DEF SweptOk
  <2>2. entry.tier = None \/ hot # "cold" => w = entry  BY DEF Sweep
  <2> HIDE DEF w
  <2>. QED  BY <2>1, <2>2 DEF InWorkset
<1>3. Polled(quick) = IF InWorkset(w) THEN EnsureSyntax(w, quick) ELSE [entry |-> w, tasks |-> tasks]
  BY DEF Polled
<1> HIDE DEF w
<1>4. CASE InWorkset(w)  BY <1>2, <1>3, <1>4, EnsureSyntaxOk
<1>5. CASE ~InWorkset(w)
  <2>1. StateOk(w, tasks, hist) /\ (w.full = entry.full \/ w.full = None)  BY <1>1 DEF SweptOk
  <2>2. entry.full # None => entry.full.ver \in Nat
    BY ZenonT(20) DEF StateOk, EntryOk, BodyOk, FullOk, Trees
  <2>3. NoOlder(entry, w)  BY <2>1, <2>2 DEF NoOlder
  <2>. QED  BY <1>3, <1>5, <2>1, <2>3, StopOk
<1>. QED  BY <1>4, <1>5
-----------------------------------------------------------------------------
(* Every step keeps the invariant and brings no older tree.                *)
LEMMA NoTreeGrows ==
  ASSUME NEW g, NEW h, Extends(g, h), NEW e, EntryOk(e, h), e.full = None, e.pending = None
  PROVE  EntryOk(e, g)
<1>1. BodyOk(e, h)  BY ZenonT(20) DEF EntryOk
<1>2. CacheOk(e.cache, e.lang, e.opts, g)  BY <1>1, GrowCache DEF BodyOk
<1>3. CompletedOk(e.completed, e.opts, g)  BY <1>1, GrowCompleted DEF BodyOk
<1>4. BodyOk(e, g)  BY <1>1, <1>2, <1>3, ZenonT(20) DEF BodyOk
<1>. QED  BY <1>4, ZenonT(20) DEF EntryOk

LEMMA InvIsState ==
  ASSUME SyntaxInv, IsOpen
  PROVE  StateOk(entry, tasks, hist) /\ HistOk(hist) /\ language \in Langs \cup {None}
BY DEF SyntaxInv, StateOk

LEMMA StateIsInv ==
  ASSUME HistOk(hist)', language' \in Langs \cup {None}, StateOk(entry, tasks, hist)'
  PROVE  SyntaxInv'
BY DEF SyntaxInv, StateOk

SyntaxInit == Init => SyntaxInv

LEMMA InitOk == SyntaxInit
<1> SUFFICES ASSUME Init PROVE SyntaxInv  BY DEF SyntaxInit
<1>1. HistOk(hist)  BY SyntaxAssumption DEF Init, HistOk
<1>2. EntryOk(entry, hist)  BY NewEntryOk DEF Init
<1>3. tasks = {} /\ language \in Langs  BY DEF Init
<1>. QED  BY <1>1, <1>2, <1>3 DEF SyntaxInv, Awaited

Advances == SyntaxInv' /\ NoOlder(entry, entry')

(* The history extends its past.                                           *)
LEMMA NewTextExtends ==
  ASSUME HistOk(hist), NEW c \in Texts, hist' = Append(hist, c)
  PROVE  /\ HistOk(hist)' /\ Extends(hist', hist) /\ version + 1 = Len(hist) /\ text = hist[Len(hist)]
<1> DEFINE g == Append(hist, c)
<1>1. /\ HistOk(g) /\ Len(g) = Len(hist) + 1 /\ Len(hist) \in Nat \ {0}
      /\ \A i \in 1 .. Len(hist) : g[i] = hist[i]
  BY HistGrows
<1> HIDE DEF g
<1>2. Extends(g, hist)  BY <1>1 DEF Extends
<1>3. hist' = g  BY DEF g
<1>4. HistOk(hist')  BY <1>1, <1>3
<1>. QED  BY <1>1, <1>2, <1>3, <1>4 DEF version, text, HistOk

LEMMA EditStep ==
  ASSUME SyntaxInv, NEW c \in Texts, NEW source \in {"typing", "history"}, NEW synced \in BOOLEAN,
         NewText(c), entry' = NoteEditIncremental(entry, version + 1, text, c, source, synced),
         UNCHANGED <<language, hot, view, tasks>>
  PROVE  Advances
<1>1. IsOpen /\ hist' = Append(hist, c)  BY DEF NewText, Happens
<1>2. StateOk(entry, tasks, hist) /\ HistOk(hist) /\ language \in Langs \cup {None}  BY <1>1, InvIsState
<1>3. HistOk(hist)' /\ Extends(hist', hist) /\ version + 1 = Len(hist) /\ text = hist[Len(hist)]
  BY <1>1, <1>2, NewTextExtends
<1> DEFINE f == NoteEditIncremental(entry, Len(hist), hist[Len(hist)], c, source, synced)
<1>4. EntryOk(entry, hist)  BY <1>2 DEF StateOk
<1>5. EntryOk(f, Append(hist, c)) /\ f.epoch = entry.epoch /\ f.opts = entry.opts /\ NoOlder(entry, f)
  BY <1>2, <1>4, NoteEditOk
<1>6. entry' = f  BY <1>3
<1> HIDE DEF f
<1>7. \A t \in tasks : TaskOk(t, hist')  BY <1>2, <1>3, GrowTask DEF StateOk
<1>8. Awaited(f, tasks)  BY <1>2, <1>5 DEF StateOk, Awaited
<1>9. StateOk(f, tasks, hist')  BY <1>1, <1>5, <1>7, <1>8, ZenonT(20) DEF StateOk
<1>10. StateOk(entry, tasks, hist)'
  <2>1. tasks' = tasks  OBVIOUS
  <2>2. StateOk(entry', tasks', hist')  BY <1>6, <1>9, <2>1
  <2>. QED  BY <2>2
<1>11. language' \in Langs \cup {None}  BY <1>2
<1>12. SyntaxInv'  BY <1>3, <1>10, <1>11, StateIsInv
<1>. QED  BY <1>5, <1>6, <1>12 DEF Advances

LEMMA ResetStep ==
  ASSUME SyntaxInv, IsOpen, entry' = ResetSyntax(entry), UNCHANGED <<language, hot, view, tasks>>,
         hist' = hist \/ \E c \in Texts : hist' = Append(hist, c)
  PROVE  Advances
<1> DEFINE f == ResetSyntax(entry)
<1>1. StateOk(entry, tasks, hist) /\ HistOk(hist) /\ language \in Langs \cup {None}  BY InvIsState
<1>2. StateOk(f, tasks, hist) /\ f.full = None /\ f.pending = None  BY <1>1, ResetSyntaxOk
<1> HIDE DEF f
<1>3. StateOk(f, tasks, hist') /\ HistOk(hist')
  <2>1. CASE hist' = hist  BY <1>1, <1>2, <2>1
  <2>2. ASSUME NEW c \in Texts, hist' = Append(hist, c) PROVE StateOk(f, tasks, hist') /\ HistOk(hist')
    <3>1. HistOk(hist)' /\ Extends(hist', hist)  BY <1>1, <2>2, NewTextExtends
    <3>2. EntryOk(f, hist')  BY <1>2, <3>1, NoTreeGrows DEF StateOk
    <3>3. \A t \in tasks : TaskOk(t, hist')  BY <1>2, <3>1, GrowTask DEF StateOk
    <3>4. HistOk(hist')  BY <3>1 DEF HistOk
    <3>. QED  BY <1>2, <3>2, <3>3, <3>4, ZenonT(20) DEF StateOk
  <2>. QED  BY <2>1, <2>2
<1>4. entry' = f /\ tasks' = tasks  BY DEF f
<1>5. StateOk(entry', tasks', hist')  BY <1>3, <1>4
<1>6. StateOk(entry, tasks, hist)' /\ HistOk(hist)'  BY <1>3, <1>5 DEF HistOk
<1>7. SyntaxInv'  BY <1>1, <1>6, StateIsInv
<1>. QED  BY <1>2, <1>4, <1>7 DEF Advances, NoOlder

(* Only the entry changes, in fields the invariant says nothing of.        *)
LEMMA LateralStep ==
  ASSUME SyntaxInv, IsOpen, LateralOk(entry, entry', hist), UNCHANGED <<hist, language, tasks>>
  PROVE  Advances
<1>1. StateOk(entry, tasks, hist) /\ HistOk(hist) /\ language \in Langs \cup {None}  BY InvIsState
<1>2. StateOk(entry', tasks, hist)  BY <1>1, LateralState
<1>3. StateOk(entry', tasks', hist') /\ HistOk(hist')  BY <1>1, <1>2
<1>4. StateOk(entry, tasks, hist)' /\ HistOk(hist)'  BY <1>3 DEF HistOk
<1>5. SyntaxInv'  BY <1>1, <1>4, StateIsInv
<1>6. entry.full # None => entry.full.ver \in Nat  BY <1>1, ZenonT(20) DEF StateOk, EntryOk, BodyOk, FullOk, Trees
<1>. QED  BY <1>5, <1>6 DEF Advances, NoOlder, LateralOk

(* The entry stays.                                                        *)
LEMMA SameStep ==
  ASSUME SyntaxInv, UNCHANGED <<hist, entry>>, language' \in Langs \cup {None},
         \A t \in tasks' : TaskOk(t, hist), IsOpen' => Awaited(entry, tasks')
  PROVE  Advances
<1>1. HistOk(hist)' /\ EntryOk(entry, hist)' /\ (\A t \in tasks : TaskOk(t, hist))'
  <2>1. HistOk(hist') /\ EntryOk(entry', hist') /\ \A t \in tasks' : TaskOk(t, hist')  BY DEF SyntaxInv
  <2>. QED  BY <2>1 DEF HistOk
<1>2. (IsOpen => Awaited(entry, tasks))'
  <2>1. IsOpen' => Awaited(entry', tasks')  OBVIOUS
  <2>. QED  BY <2>1
<1>3. SyntaxInv'  BY <1>1, <1>2 DEF SyntaxInv
<1>4. entry.full # None => entry.full.ver \in Nat  BY ZenonT(20) DEF SyntaxInv, EntryOk, BodyOk, FullOk, Trees
<1>. QED  BY <1>3, <1>4 DEF Advances, NoOlder

LEMMA ReturnStep ==
  ASSUME SyntaxInv, NEW t \in tasks, NEW res, Returns(t, res)
  PROVE  Advances
<1> DEFINE u == [t EXCEPT !.res = res]
<1>1. TaskOk(t, hist)  BY DEF SyntaxInv
<1>2. /\ DOMAIN u = DOMAIN t /\ u.lane = t.lane /\ u.epoch = t.epoch /\ u.ver = t.ver /\ u.of = t.of
  BY <1>1 DEF TaskOk
<1>3. tasks' = (tasks \ {t}) \cup {u}  BY DEF Returns
<1> HIDE DEF u
<1>4. TaskOk(u, hist)  BY <1>1, <1>2 DEF TaskOk
<1>5. \A x \in tasks' : TaskOk(x, hist)  BY <1>3, <1>4 DEF SyntaxInv
<1>6. IsOpen' => Awaited(entry, tasks')
  <2>1. IsOpen' => Awaited(entry, tasks)  BY DEF SyntaxInv, IsOpen, Returns
  <2> SUFFICES ASSUME IsOpen', NEW x \in tasks'
               PROVE  x.epoch <= entry.epoch /\ (x.epoch = entry.epoch /\ x.lane # "bg" => entry.opts = "disabled")
    BY DEF Awaited
  <2>2. CASE x \in tasks  BY <2>1, <2>2 DEF Awaited
  <2>3. CASE x = u  BY <1>2, <2>1, <2>3 DEF Awaited
  <2>. QED  BY <1>3, <2>2, <2>3
<1>. QED  BY <1>5, <1>6, SameStep DEF Returns, SyntaxInv

LEMMA DrainStep ==
  ASSUME SyntaxInv, NEW t \in tasks, DrainFinished(t)
  PROVE  Advances
<1> DEFINE x == [entry EXCEPT !.active[t.lane] = IF @ = t.epoch THEN None ELSE @]
<1> DEFINE y == [x EXCEPT !.completed = Append(@, t)]
<1> DEFINE d == IsOpen /\ t.res # "panicked"
<1>1. /\ entry' = IF d /\ t.epoch = entry.epoch THEN y ELSE IF d THEN x ELSE entry
      /\ tasks' = tasks \ {t} /\ UNCHANGED <<hist, language, hot>>
  BY DEF DrainFinished
<1>2. TaskOk(t, hist) /\ EntryOk(entry, hist) /\ DOMAIN entry = Fields /\ entry.epoch \in Nat
  BY ZenonT(20) DEF SyntaxInv, EntryOk, BodyOk
<1>3. /\ DOMAIN x = Fields /\ x.full = entry.full /\ x.memory = entry.memory /\ x.cache = entry.cache
      /\ x.dirty = entry.dirty /\ x.lang = entry.lang /\ x.pending = entry.pending /\ x.opts = entry.opts
      /\ x.completed = entry.completed /\ x.epoch = entry.epoch
  BY <1>2 DEF Fields
<1> HIDE DEF x
<1>4. /\ DOMAIN y = Fields /\ y.full = x.full /\ y.memory = x.memory /\ y.cache = x.cache
      /\ y.dirty = x.dirty /\ y.lang = x.lang /\ y.pending = x.pending /\ y.opts = x.opts
      /\ y.completed = Append(x.completed, t) /\ y.epoch = x.epoch
  BY <1>3 DEF Fields
<1> HIDE DEF y
<1>5. EntryOk(x, hist)  BY <1>2, <1>3, SameEntry
<1>6. \A u \in tasks' : TaskOk(u, hist)  BY <1>1 DEF SyntaxInv
<1>7. IsOpen => Awaited(entry, tasks')  BY <1>1 DEF SyntaxInv, Awaited
<1>8. CASE ~d
  <2>1. entry' = entry  BY <1>1, <1>8
  <2>2. IsOpen' => Awaited(entry, tasks')  BY <1>1, <1>7 DEF IsOpen
  <2>. QED  BY <1>1, <1>6, <2>1, <2>2, SameStep, ZenonT(20) DEF SyntaxInv
<1> DEFINE f == entry'
<1>9. ASSUME d, EntryOk(f, hist), f.full = entry.full, f.epoch = entry.epoch, f.opts = entry.opts PROVE Advances
  <2>1. Awaited(f, tasks')  BY <1>7, <1>9 DEF Awaited
  <2>2. StateOk(f, tasks', hist)  BY <1>6, <1>9, <2>1 DEF StateOk
  <2>3. StateOk(entry', tasks', hist') /\ HistOk(hist') /\ language' \in Langs \cup {None}
    BY <1>1, <2>2 DEF SyntaxInv
  <2>4. StateOk(entry, tasks, hist)' /\ HistOk(hist)'  BY <2>3 DEF HistOk
  <2>5. SyntaxInv'  BY <2>3, <2>4, StateIsInv
  <2>6. entry.full # None => entry.full.ver \in Nat  BY <1>2, ZenonT(20) DEF EntryOk, BodyOk, FullOk, Trees
  <2>. QED  BY <1>9, <2>5, <2>6 DEF Advances, NoOlder
<1>10. CASE d /\ t.epoch = entry.epoch
  <2>1. f = y  BY <1>1, <1>10
  <2>2. t.lane # "bg" => entry.opts = "disabled"  BY <1>10 DEF SyntaxInv, Awaited
  <2>3. CompletedOk(x.completed, x.opts, hist)  BY <1>5 DEF EntryOk, BodyOk
  <2>4. CompletedOk(Append(x.completed, t), x.opts, hist)
    BY <1>2, <1>3, <2>2, <2>3, CompletedAppend
  <2>5. EntryOk(y, hist)  BY <1>4, <1>5, <2>4, ZenonT(20) DEF EntryOk, BodyOk
  <2>. QED  BY <1>3, <1>4, <1>9, <1>10, <2>1, <2>5
<1>11. CASE d /\ t.epoch # entry.epoch
  <2>1. f = x  BY <1>1, <1>11
  <2>. QED  BY <1>3, <1>5, <1>9, <1>11, <2>1, ZenonT(20)
<1>. QED  BY <1>8, <1>10, <1>11

LEMMA TimeStep ==
  ASSUME SyntaxInv,
         \/ DebounceEnds \/ (\E l \in Lanes : LaneCools(l)) \/ RetentionEnds
         \/ \E i \in DOMAIN entry.cache : StageBCools(i)
  PROVE  Advances
<1> DEFINE f == entry'
<1>1. EntryOk(entry, hist) /\ DOMAIN entry = Fields /\ CacheOk(entry.cache, entry.lang, entry.opts, hist)
  BY ZenonT(20) DEF SyntaxInv, EntryOk, BodyOk
<1>2. IsOpen /\ UNCHANGED <<hist, language, tasks>>
  BY DEF DebounceEnds, LaneCools, RetentionEnds, StageBCools, Elapses
<1>3. ASSUME NEW r, f = [entry EXCEPT !.debounce = r] \/ f = [entry EXCEPT !.cooling = r]
                    \/ f = [entry EXCEPT !.expired = r]
      PROVE  LateralOk(entry, f, hist)
  <2>1. /\ DOMAIN f = Fields /\ f.full = entry.full /\ f.memory = entry.memory /\ f.cache = entry.cache
        /\ f.dirty = entry.dirty /\ f.lang = entry.lang /\ f.pending = entry.pending /\ f.opts = entry.opts
        /\ f.completed = entry.completed /\ f.epoch = entry.epoch
    BY <1>1, <1>3 DEF Fields
  <2> HIDE DEF f
  <2>. QED  BY <1>1, <2>1, OtherCacheOk, ZenonT(20)
<1>4. ASSUME NEW i \in DOMAIN entry.cache, StageBCools(i)
      PROVE  LateralOk(entry, f, hist)
  <2> DEFINE s == entry.cache
  <2> DEFINE c == [s[i] EXCEPT !.bCooling = FALSE]
  <2> DEFINE q == [s EXCEPT ![i] = c]
  <2>1. f = [entry EXCEPT !.cache[i].bCooling = FALSE]  BY <1>4 DEF StageBCools, Elapses
  <2>2. f = [entry EXCEPT !.cache = q]  BY <1>1, <2>1 DEF Fields
  <2>3. SlotOk(s[i], entry.lang, entry.opts, hist)  BY <1>1, CacheAt
  <2>4. SlotOk(c, entry.lang, entry.opts, hist)
    <3>1. c.a = s[i].a /\ c.b = s[i].b /\ DOMAIN c = DOMAIN s[i]  BY <2>3 DEF SlotOk
    <3> HIDE DEF c
    <3>. QED  BY <2>3, <3>1 DEF SlotOk
  <2> HIDE DEF c
  <2>5. CacheOk(q, entry.lang, entry.opts, hist)  BY <1>1, <2>4, CacheUpdate
  <2> HIDE DEF q, s
  <2>6. /\ DOMAIN f = Fields /\ f.full = entry.full /\ f.memory = entry.memory /\ f.cache = q
        /\ f.dirty = entry.dirty /\ f.lang = entry.lang /\ f.pending = entry.pending /\ f.opts = entry.opts
        /\ f.completed = entry.completed /\ f.epoch = entry.epoch
    BY <1>1, <2>2 DEF Fields
  <2> HIDE DEF f
  <2>. QED  BY <1>1, <2>5, <2>6, OtherCacheOk, ZenonT(20)
<1>5. LateralOk(entry, f, hist)
  <2>1. CASE DebounceEnds  BY <1>3, <2>1, ZenonT(20) DEF DebounceEnds, Elapses
  <2>2. ASSUME NEW l \in Lanes, LaneCools(l) PROVE LateralOk(entry, f, hist)
    BY <1>3, <2>2, ZenonT(20) DEF LaneCools, Elapses
  <2>3. CASE RetentionEnds  BY <1>3, <2>3, ZenonT(20) DEF RetentionEnds, Elapses
  <2>. QED  BY <1>4, <2>1, <2>2, <2>3
<1>. QED  BY <1>2, <1>5, LateralStep

LEMMA DrawStep ==
  ASSUME SyntaxInv, NEW quick, Frame(quick)
  PROVE  Advances
<1> DEFINE p == Polled(quick)
<1>1. IsOpen /\ entry' = p.entry /\ tasks' = p.tasks /\ UNCHANGED <<hist, language>>  BY DEF Frame
<1>2. StateOk(entry, tasks, hist) /\ HistOk(hist) /\ language \in Langs \cup {None}  BY <1>1, InvIsState
<1>3. PolledOk(entry, p, hist)  BY <1>2, FrameOk
<1> HIDE DEF p
<1>4. StateOk(entry', tasks', hist') /\ NoOlder(entry, entry') /\ HistOk(hist')
  BY <1>1, <1>2, <1>3 DEF PolledOk
<1>5. StateOk(entry, tasks, hist)' /\ HistOk(hist)'  BY <1>4 DEF HistOk
<1>6. SyntaxInv'  BY <1>1, <1>2, <1>5, StateIsInv
<1>. QED  BY <1>4, <1>6 DEF Advances

(* The invariant is inductive, and no step replaces a tree by an older one. *)
LEMMA SyntaxStep ==
  ASSUME SyntaxInv, [Next]_vars
  PROVE  Advances
<1>0. language \in Langs \cup {None} /\ (\A t \in tasks : TaskOk(t, hist)) /\ (IsOpen => Awaited(entry, tasks))
  BY DEF SyntaxInv
<1>1. ASSUME NEW c \in Texts, NEW synced \in BOOLEAN, Typing(c, synced) PROVE Advances
  BY <1>1, EditStep DEF Typing
<1>2. ASSUME NEW c \in Texts, History(c) PROVE Advances
  BY <1>2, EditStep, ZenonT(20) DEF History
<1>3. ASSUME NEW c \in Texts, ResetContent(c) PROVE Advances
  BY <1>3, ResetStep DEF ResetContent, NewText, Happens
<1>4. CASE ReparseSyntax
  BY <1>4, ResetStep DEF ReparseSyntax, Happens
<1>5. ASSUME NEW l \in Langs \cup {None}, SetLanguage(l) PROVE Advances
  <2>1. /\ UNCHANGED <<hist, entry>> /\ language' \in Langs \cup {None} /\ tasks' = tasks /\ IsOpen
    BY <1>5 DEF SetLanguage, Happens
  <2>. QED  BY <1>0, <2>1, SameStep
<1>6. ASSUME NEW vp \in Viewports, Show(vp) PROVE Advances
  <2>1. /\ UNCHANGED <<hist, entry>> /\ language' \in Langs \cup {None} /\ tasks' = tasks /\ IsOpen
    BY <1>0, <1>6 DEF Show, Happens
  <2>. QED  BY <1>0, <2>1, SameStep
<1>7. CASE Hide
  <2>1. /\ UNCHANGED <<hist, entry>> /\ language' \in Langs \cup {None} /\ tasks' = tasks /\ IsOpen
    BY <1>0, <1>7 DEF Hide, Happens
  <2>. QED  BY <1>0, <2>1, SameStep
<1>8. CASE Chill
  <2>1. /\ UNCHANGED <<hist, entry>> /\ language' \in Langs \cup {None} /\ tasks' = tasks /\ IsOpen
    BY <1>0, <1>8 DEF Chill, IsOpen
  <2>. QED  BY <1>0, <2>1, SameStep
<1>9. CASE OnDocumentClose
  <2>1. /\ entry' = NewEntry /\ hist' = hist /\ language' = language /\ tasks' = tasks /\ ~IsOpen'
    BY <1>9 DEF OnDocumentClose, IsOpen
  <2>2. EntryOk(NewEntry, hist) /\ NewEntry.full = None  BY NewEntryOk, ZenonT(20) DEF NewEntry
  <2>3. EntryOk(entry', hist') /\ HistOk(hist') /\ \A t \in tasks' : TaskOk(t, hist')
    BY <1>0, <2>1, <2>2 DEF SyntaxInv
  <2>4. EntryOk(entry, hist)' /\ HistOk(hist)' /\ (\A t \in tasks : TaskOk(t, hist))'  BY <2>3 DEF HistOk
  <2>5. SyntaxInv'  BY <1>0, <2>1, <2>4 DEF SyntaxInv
  <2>. QED  BY <2>1, <2>2, <2>5 DEF Advances, NoOlder
<1>10. ASSUME NEW t \in tasks, TaskFails(t) \/ TaskPanics(t) \/ TaskFinishes(t) PROVE Advances
  BY <1>10, ReturnStep DEF TaskFails, TaskPanics, TaskFinishes
<1>11. ASSUME NEW t \in tasks, DrainFinished(t) PROVE Advances
  BY <1>11, DrainStep
<1>12. ASSUME NEW quick \in BOOLEAN, Frame(quick) PROVE Advances
  BY <1>12, DrawStep
<1>13. CASE TimePasses \/ RetentionEnds
  BY <1>13, TimeStep DEF TimePasses
<1>14. CASE UNCHANGED vars
  <2>1. UNCHANGED <<hist, entry>> /\ language' \in Langs \cup {None} /\ tasks' = tasks /\ (IsOpen' => IsOpen)
    BY <1>0, <1>14 DEF vars, IsOpen
  <2>. QED  BY <1>0, <2>1, SameStep
<1>. QED
  BY <1>1, <1>2, <1>3, <1>4, <1>5, <1>6, <1>7, <1>8, <1>9, <1>10, <1>11, <1>12, <1>13, <1>14
  DEF Next, Parses, Drains, Draws
-----------------------------------------------------------------------------
LEMMA TreesOfVersion == ASSUME SyntaxInv PROVE TreesAreOfTheirVersion
<1>1. /\ EntryOk(entry, hist) /\ BodyOk(entry, hist) /\ \A t \in tasks : TaskOk(t, hist)
  BY DEF SyntaxInv, EntryOk
<1>2. entry.full # None => IsParseOf(entry.full) /\ entry.full.lang = entry.lang
  BY <1>1, ZenonT(20) DEF BodyOk, FullOk, IsParseOf
<1>3. ASSUME NEW t \in CacheTrees(entry.cache) PROVE t.of = hist[t.ver + 1] /\ t.lang = entry.lang
  <2>1. CacheOk(entry.cache, entry.lang, entry.opts, hist)  BY <1>1, ZenonT(20) DEF BodyOk
  <2>2. TreeOf(t, entry.lang, hist)  BY <1>3, <2>1, CacheTreesOk
  <2>. QED  BY <2>2 DEF TreeOf
<1>4. ASSUME NEW t \in tasks \cup Range(entry.completed) PROVE IsParseOf(t)
  <2>1. CompletedOk(entry.completed, entry.opts, hist)  BY <1>1, ZenonT(20) DEF BodyOk
  <2>2. \A i \in DOMAIN entry.completed : TaskOk(entry.completed[i], hist)  BY <2>1, CompletedAt
  <2>3. TaskOk(t, hist)  BY <1>1, <1>4, <2>2 DEF Range
  <2>. QED  BY <2>3 DEF TaskOk, IsParseOf
<1>5. ASSUME NEW i \in DOMAIN entry.memory PROVE entry.memory[i].of \in {entry.memory[i].content, Torn}
  <2>1. MemoryOk(entry.memory, entry.lang)  BY <1>1, ZenonT(20) DEF BodyOk
  <2>2. SnapOk(entry.memory[i], entry.lang)  BY <1>5, <2>1, MemoryAt
  <2>. QED  BY <2>2 DEF SnapOk
<1>. QED  BY <1>2, <1>3, <1>4, <1>5 DEF TreesAreOfTheirVersion

(* note_edit_incremental, the installs, the updates and the snapshots of   *)
(* full trees never let a tree pass for the tree of another version, for   *)
(* any texts, any limits and any number of edits.                          *)
THEOREM TreesTheorem == Spec => []TreesAreOfTheirVersion
<1>1. Init => SyntaxInv  BY InitOk DEF SyntaxInit
<1>2. SyntaxInv /\ [Next]_vars => SyntaxInv'  BY SyntaxStep DEF Advances
<1>3. SyntaxInv => TreesAreOfTheirVersion  BY TreesOfVersion
<1>. QED  BY <1>1, <1>2, <1>3, PTL DEF Spec

(* The pending window always leads from its base to the current text.      *)
THEOREM PendingTheorem == Spec => []PendingIsExact
<1>1. Init => SyntaxInv  BY InitOk DEF SyntaxInit
<1>2. SyntaxInv /\ [Next]_vars => SyntaxInv'  BY SyntaxStep DEF Advances
<1>3. SyntaxInv => PendingIsExact
  BY ZenonT(20) DEF SyntaxInv, EntryOk, PendingOk, PendingIsExact, text
<1>. QED  BY <1>1, <1>2, <1>3, PTL DEF Spec

(* should_install_completed_parse, the snapshots and the bootstrap: no     *)
(* step of any kind puts an older full tree in the place of a newer one.   *)
THEOREM NoRegressTheorem == Spec => TreeNeverRegresses
<1>1. Init => SyntaxInv  BY InitOk DEF SyntaxInit
<1>2. SyntaxInv /\ [Next]_vars => SyntaxInv'  BY SyntaxStep DEF Advances
<1>3. SyntaxInv /\ [Next]_vars
        => [entry.full # None /\ entry'.full # None => entry'.full.ver >= entry.full.ver]_vars
  BY SyntaxStep DEF Advances, NoOlder
<1>. QED  BY <1>1, <1>2, <1>3, PTL DEF Spec, TreeNeverRegresses

(* A slot found by its key is one of the cache.                            *)
LEMMA KeyAtIsInCache ==
  ASSUME NEW l, NEW o, NEW h, NEW s, CacheOk(s, l, o, h), NEW k, KeyAt(s, k) # <<>>
  PROVE  \E i \in DOMAIN s : KeyAt(s, k)[1] = s[i]
<1> DEFINE S == {c \in Range(s) : c.key = k}
<1> DEFINE c == Only(s, S)
<1>1. PICK R : s \in Seq(R)  BY DEF CacheOk
<1>2. c = KeyAt(s, k)  BY DEF KeyAt
<1>3. \A x \in S : \E i \in DOMAIN s : x = s[i]  BY DEF Range
<1> HIDE DEF S
<1>4. c \in Seq(S)  BY <1>1, OnlyKeeps
<1>5. c # <<>>  BY <1>2
<1> HIDE DEF c
<1>6. c[1] \in S  BY <1>4, <1>5, EmptySeq, ElementOfSeq
<1>. QED  BY <1>2, <1>3, <1>6

LEMMA ViewIsPair ==
  ASSUME HistOk(hist), view \in Nat \X Nat, hot = "visible"
  PROVE  Derive.vp # None
<1> DEFINE b == Bytes[text]
<1> DEFINE from == Least(view[1], b)
<1> DEFINE to == Least(Least(Greatest(view[2], from), b), from + span_cap)
<1>1. text \in Texts  BY EmptySeq, ElementOfSeq DEF HistOk, text
<1>2. b \in Nat  BY <1>1, SyntaxAssumption
<1>3. Derive.vp = <<from, to>>  BY DEF Derive
<1> HIDE DEF b
<1>4. from \in Nat  BY <1>2 DEF Least
<1> HIDE DEF from
<1>5. to \in Nat  BY <1>2, <1>4 DEF Least, Greatest, span_cap
<1> HIDE DEF to
<1>6. <<from, to>> \in Nat \X Nat  BY <1>4, <1>5
<1>. QED  BY <1>3, <1>6, SyntaxAssumption

LEMMA ReadyCurrent ==
  ASSUME SyntaxInv, view \in Nat \X Nat
  PROVE  ReadyIsCurrent
<1> DEFINE ctx == Derive
<1> DEFINE g == InstallCompletions(Normalize(entry, ctx), ctx)
<1> DEFINE e == NoteViewport(g, ctx)
<1>0. ReadyIsCurrent =
        (IsOpen /\ ctx.lang # None /\ ~ctx.disabled /\ ReadyFast(e, ctx)
          => /\ e.full # None => e.full.ver = version
             /\ hot = "visible" =>
                  e.full # None \/ \E t \in CacheTrees(e.cache) : Exact(t, ctx.vp, version))
  BY ZenonT(20) DEF ReadyIsCurrent
<1>1. HistOk(hist)  BY DEF SyntaxInv
<1>2. ctx.ver = Len(hist) - 1 /\ ctx.lang = language /\ (hot = "visible" => ctx.vp # None)
  BY <1>1, DeriveIs, ViewIsPair
<1> HIDE DEF ctx
<1>3. IsOpen => GatedOk(entry, e, ctx, tasks, hist)
  <2> SUFFICES ASSUME IsOpen PROVE GatedOk(entry, e, ctx, tasks, hist)
    OBVIOUS
  <2>1. StateOk(entry, tasks, hist) /\ HistOk(hist) /\ language \in Langs \cup {None}  BY InvIsState
  <2>2. GatedOk(entry, g, ctx, tasks, hist)  BY <1>2, <2>1, InstalledIsGated
  <2> HIDE DEF g
  <2>. QED  BY <2>2, ViewedIsGated
<1> HIDE DEF e
<1> SUFFICES ASSUME IsOpen, ReadyFast(e, ctx)
             PROVE  /\ e.full # None => e.full.ver = version
                    /\ hot = "visible" =>
                         e.full # None \/ \E t \in CacheTrees(e.cache) : Exact(t, ctx.vp, version)
  BY <1>0, ZenonT(20)
<1>4. BodyOk(e, hist) /\ e.opts = Injections(ctx.tier)  BY <1>3 DEF GatedOk, StateOk, EntryOk
<1>5. HasAnyTree(e) /\ ~e.dirty /\ ~WantEnrich(e, ctx)  BY DEF ReadyFast
<1>6. e.full # None => e.full.ver = version  BY <1>4, <1>5, ZenonT(20) DEF BodyOk, version
<1>7. CacheOk(e.cache, e.lang, e.opts, hist)  BY <1>4, ZenonT(20) DEF BodyOk
<1>8. ASSUME hot = "visible"
      PROVE  e.full # None \/ \E t \in CacheTrees(e.cache) : Exact(t, ctx.vp, version)
  <2>1. CASE ctx.tier = "L"
    <3> DEFINE k == CoveringKey(e.cache, ctx.vp)
    <3> DEFINE c == KeyAt(e.cache, k)
    <3>1. StageBExact(e, ctx.vp, ctx.ver)  BY <1>2, <1>5, <1>8, <2>1 DEF WantEnrich
    <3>2. c # <<>> /\ Exact(c[1].b, ctx.vp, ctx.ver)  BY <3>1 DEF StageBExact
    <3> HIDE DEF k
    <3>3. PICK i \in DOMAIN e.cache : c[1] = e.cache[i]  BY <1>7, <3>2, KeyAtIsInCache
    <3> HIDE DEF c
    <3> DEFINE t == e.cache[i].b
    <3>4. t # None /\ Exact(t, ctx.vp, ctx.ver)  BY <3>2, <3>3 DEF Exact, Covers
    <3>5. t \in CacheTrees(e.cache)
      <4> DEFINE F == {{e.cache[j].a, e.cache[j].b} : j \in DOMAIN e.cache}
      <4>1. {e.cache[i].a, e.cache[i].b} \in F  BY <3>3
      <4>2. t \in {e.cache[i].a, e.cache[i].b}  OBVIOUS
      <4>3. CacheTrees(e.cache) = (UNION F) \ {None}  BY DEF CacheTrees
      <4> HIDE DEF F
      <4>4. t \in UNION F  BY <4>1, <4>2
      <4>. QED  BY <3>4, <4>3, <4>4
    <3>6. ctx.ver = version  BY <1>2 DEF version
    <3>. QED  BY <3>4, <3>5, <3>6
  <2>2. CASE ctx.tier # "L"
    <3>1. e.opts = "eager"  BY <1>4, <2>2 DEF Injections
    <3>2. CacheTrees(e.cache) = {}
      <4> SUFFICES ASSUME NEW t \in CacheTrees(e.cache) PROVE FALSE
        OBVIOUS
      <4>1. e.opts = "disabled"  BY <1>7, CacheTreesOk
      <4>. QED  BY <3>1, <4>1
    <3>. QED  BY <1>5, <3>2 DEF HasAnyTree
  <2>. QED  BY <2>1, <2>2
<1>. QED  BY <1>6, <1>8

(* The gate's fast path: a document that is Ready without any work has     *)
(* nothing stale in view.                                                  *)
THEOREM ReadyTheorem == Spec => []ReadyIsCurrent
<1>1. Init => SyntaxInv  BY InitOk DEF SyntaxInit
<1>2. SyntaxInv /\ [Next]_vars => SyntaxInv'  BY SyntaxStep DEF Advances
<1> DEFINE ViewInv == view \in Nat \X Nat
<1>3. Init => ViewInv  BY SyntaxAssumption DEF Init
<1>4. ViewInv /\ [Next]_vars => ViewInv'
  BY SyntaxAssumption, ZenonT(20) DEF Next, vars, Typing, History, ResetContent, ReparseSyntax, SetLanguage, Show, Hide,
     Chill, OnDocumentClose, TaskFails, TaskPanics, Parses, TaskFinishes, Returns, Drains, DrainFinished,
     Draws, Frame, TimePasses, DebounceEnds, LaneCools, StageBCools, RetentionEnds, Elapses
<1>5. SyntaxInv /\ ViewInv => ReadyIsCurrent  BY ReadyCurrent
<1>. QED  BY <1>1, <1>2, <1>3, <1>4, <1>5, PTL DEF Spec
=============================================================================

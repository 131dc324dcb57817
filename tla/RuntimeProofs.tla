---------------------------- MODULE RuntimeProofs ----------------------------
(***************************************************************************)
(* The books of the event loop, the stale results it ignores and the truth *)
(* of what a language server is told of its edits, for any kinds of hooks, *)
(* any edits and any bounds.                                               *)
(***************************************************************************)
EXTENDS Runtime, FiniteSetTheorems, SequenceTheorems, WellFoundedInduction, TLAPS

(* Time limits; SMT has further tries. *)
USE SMTT(20), ZenonT(20), SMTT(30), SMTT(40)

(* Induction over a queue: a property that fails for a length fails for a  *)
(* least one.                                                              *)
LEMMA LeastLength ==
  ASSUME NEW T, T \subseteq Nat, T # {}
  PROVE  \E m \in T : \A k \in T : m <= k
<1>1. PICK m \in T : \A k \in T : ~(<<k, m>> \in OpToRel(<, Nat))
  BY NatLessThanWellFounded, WFMin, ZenonT(20)
<1>2. \A k \in T : ~(k < m)
  BY <1>1, ZenonT(20) DEF OpToRel
<1>3. \A k \in T : k \in Nat /\ m \in Nat  OBVIOUS
<1>. QED  BY <1>2, <1>3

Drops(w, gen) == w.kind = "nu" /\ w.scope = gen

Kept(q, gen, g, i) ==
  IF i = 0 THEN <<>> ELSE IF Drops(q[i], gen) THEN g[i - 1] ELSE Append(g[i - 1], q[i])

(* The recursive function of remove_scope exists.                          *)
LEMMA KeptExists ==
  ASSUME NEW q, NEW gen, NEW n \in Nat
  PROVE  \E g : g = [i \in 0..n |-> Kept(q, gen, g, i)]
<1> DEFINE P(k) == \E g : g = [i \in 0..k |-> Kept(q, gen, g, i)]
<1> DEFINE T == {k \in Nat : ~P(k)}
<1> SUFFICES ASSUME T # {} PROVE FALSE
  OBVIOUS
<1>1. PICK m \in T : \A k \in T : m <= k
  <2>1. T \subseteq Nat  OBVIOUS
  <2> HIDE DEF T
  <2>. QED  BY <2>1, LeastLength, ZenonT(20)
<1>2. m # 0
  <2> DEFINE g == [i \in 0..0 |-> <<>>]
  <2>1. g = [i \in 0..0 |-> Kept(q, gen, g, i)]  BY DEF Kept
  <2>. QED  BY <1>1, <2>1
<1>3. m \in Nat /\ m - 1 \in Nat /\ P(m - 1)  BY <1>1, <1>2
<1>4. PICK g : g = [i \in 0..(m - 1) |-> Kept(q, gen, g, i)]  BY <1>3
<1> DEFINE h == [i \in 0..m |-> IF i = m THEN Kept(q, gen, g, m) ELSE g[i]]
<1>5. \A i \in 0..m : h[i] = Kept(q, gen, h, i)
  <2> SUFFICES ASSUME NEW i \in 0..m PROVE h[i] = Kept(q, gen, h, i)
    OBVIOUS
  <2>1. \A j \in 0..(m - 1) : g[j] = Kept(q, gen, g, j)  BY <1>4
  <2>2. CASE i = m
    <3>1. h[i] = Kept(q, gen, g, m) /\ h[m - 1] = g[m - 1]  BY <1>3, <2>2
    <3> HIDE DEF h
    <3>. QED  BY <1>2, <2>2, <3>1 DEF Kept
  <2>3. CASE i # m /\ i # 0
    <3>1. h[i - 1] = g[i - 1] /\ h[i] = g[i] /\ i \in 0..(m - 1)  BY <1>3, <2>3
    <3> HIDE DEF h
    <3>. QED  BY <2>1, <2>3, <3>1 DEF Kept
  <2>4. CASE i = 0
    <3>1. h[0] = g[0] /\ 0 \in 0..(m - 1)  BY <1>2, <1>3
    <3> HIDE DEF h
    <3>. QED  BY <2>1, <2>4, <3>1 DEF Kept
  <2>. QED  BY <2>2, <2>3, <2>4
<1>6. h = [i \in 0..m |-> Kept(q, gen, h, i)]
  <2>1. h = [i \in 0..m |-> h[i]]  OBVIOUS
  <2> HIDE DEF h
  <2>. QED  BY <1>5, <2>1
<1>. QED  BY <1>1, <1>6, ZenonT(20)

(* remove_scope keeps what is not Nu work of the generation, no more.      *)
LEMMA ScopeRemoved ==
  ASSUME NEW S, NEW q \in Seq(S), NEW gen
  PROVE  remove_scope(q, gen) \in Seq({w \in S : ~Drops(w, gen)})
<1> DEFINE n == Len(q)
<1> DEFINE R == {w \in S : ~Drops(w, gen)}
<1>1. n \in Nat /\ \A i \in 1..n : q[i] \in S  BY LenProperties, ElementOfSeq
<1>2. PICK g : g = [i \in 0..n |-> Kept(q, gen, g, i)] /\ remove_scope(q, gen) = g[n]
  <2>1. \E g : g = [i \in 0..n |-> Kept(q, gen, g, i)]  BY <1>1, KeptExists, ZenonT(20)
  <2>. QED  BY <2>1, ZenonT(20) DEF remove_scope, Kept, Drops
<1> DEFINE T == {k \in Nat : k <= n /\ g[k] \notin Seq(R)}
<1>0. n \notin T => g[n] \in Seq(R)  BY <1>1
<1> SUFFICES ASSUME T # {} PROVE FALSE
  BY <1>0, <1>2, ZenonT(20)
<1>3. PICK m \in T : \A k \in T : m <= k
  <2>1. T \subseteq Nat  OBVIOUS
  <2> HIDE DEF T
  <2>. QED  BY <2>1, LeastLength, ZenonT(20)
<1>4. m \in 0..n /\ g[m] = Kept(q, gen, g, m)
  <2>1. \A i \in 0..n : g[i] = Kept(q, gen, g, i)  BY <1>2
  <2>. QED  BY <1>1, <1>3, <2>1
<1>5. m # 0
  <2>1. <<>> \in Seq(R)  BY EmptySeq
  <2>. QED  BY <1>3, <1>4, <2>1, ZenonT(20) DEF Kept
<1>6. g[m - 1] \in Seq(R) /\ q[m] \in S  BY <1>1, <1>3, <1>4, <1>5
<1>7. CASE Drops(q[m], gen)  BY <1>3, <1>4, <1>5, <1>6, <1>7 DEF Kept
<1>8. CASE ~Drops(q[m], gen)
  <2>1. q[m] \in R  BY <1>6, <1>8
  <2> DEFINE r == g[m - 1]
  <2> DEFINE w == q[m]
  <2>2. r \in Seq(R) /\ w \in R  BY <1>6, <2>1
  <2> HIDE DEF r, w, R
  <2>3. Append(r, w) \in Seq(R)  BY <2>2, AppendProperties
  <2>. QED  BY <1>3, <1>4, <1>5, <1>8, <2>3, ZenonT(20) DEF Kept, r, w
<1>. QED  BY <1>7, <1>8
-----------------------------------------------------------------------------
(* Queues of elements of several shapes.                                   *)
IsQueue(s) == \E S : s \in Seq(S)

LEMMA QueueAppend ==
  ASSUME NEW s, IsQueue(s), NEW x
  PROVE  /\ IsQueue(Append(s, x)) /\ Len(s) \in Nat /\ DOMAIN s = 1..Len(s) /\ Len(Append(s, x)) = Len(s) + 1
         /\ DOMAIN Append(s, x) = 1..(Len(s) + 1) /\ Append(s, x)[Len(s) + 1] = x
         /\ \A i \in 1..Len(s) : Append(s, x)[i] = s[i]
<1>1. PICK S : s \in Seq(S)  BY DEF IsQueue
<1>2. s \in Seq(S \cup {x})  BY <1>1, SeqDef
<1>3. x \in S \cup {x}  OBVIOUS
<1>4. /\ Append(s, x) \in Seq(S \cup {x}) /\ Len(Append(s, x)) = Len(s) + 1
      /\ Append(s, x)[Len(s) + 1] = x /\ \A i \in 1..Len(s) : Append(s, x)[i] = s[i]
  BY <1>2, <1>3, AppendProperties
<1>5. Len(s) \in Nat /\ DOMAIN s = 1..Len(s) /\ DOMAIN Append(s, x) = 1..Len(Append(s, x))
  BY <1>1, <1>4, LenProperties
<1>. QED  BY <1>4, <1>5 DEF IsQueue

LEMMA QueueTail ==
  ASSUME NEW s, IsQueue(s), s # <<>>
  PROVE  /\ IsQueue(Tail(s)) /\ Len(s) \in Nat /\ DOMAIN s = 1..Len(s) /\ Len(s) >= 1
         /\ Head(s) = s[1] /\ DOMAIN Tail(s) = 1..(Len(s) - 1) /\ Len(Tail(s)) = Len(s) - 1
         /\ \A i \in 1..(Len(s) - 1) : Tail(s)[i] = s[i + 1]
<1>1. PICK S : s \in Seq(S)  BY DEF IsQueue
<1>2. /\ Tail(s) \in Seq(S) /\ Len(Tail(s)) = Len(s) - 1 /\ Head(s) = s[1]
      /\ \A i \in 1..Len(Tail(s)) : Tail(s)[i] = s[i + 1]
  BY <1>1, HeadTailProperties
<1>3. Len(s) \in Nat /\ Len(s) # 0 /\ DOMAIN s = 1..Len(s)  BY <1>1, LenProperties, EmptySeq
<1>4. DOMAIN Tail(s) = 1..Len(Tail(s))  BY <1>2, LenProperties
<1>. QED  BY <1>2, <1>3, <1>4 DEF IsQueue

(* What a concatenation holds comes from one of its parts.                 *)
Joins(r, s, t) ==
  /\ IsQueue(r)
  /\ \A k \in DOMAIN r : (\E i \in DOMAIN s : r[k] = s[i]) \/ (\E i \in DOMAIN t : r[k] = t[i])

LEMMA QueueConcat ==
  ASSUME NEW s, IsQueue(s), NEW t, IsQueue(t)
  PROVE  Joins(s \o t, s, t)
<1> DEFINE r == s \o t
<1>1. PICK S : s \in Seq(S)  BY DEF IsQueue
<1>2. PICK U : t \in Seq(U)  BY DEF IsQueue
<1>3. s \in Seq(S \cup U) /\ t \in Seq(S \cup U)  BY <1>1, <1>2, SeqDef
<1>4. /\ s \o t \in Seq(S \cup U) /\ Len(s \o t) = Len(s) + Len(t)
      /\ \A i \in 1..(Len(s) + Len(t)) : (s \o t)[i] = IF i <= Len(s) THEN s[i] ELSE t[i - Len(s)]
  BY <1>3, ConcatProperties
<1>5. /\ Len(s) \in Nat /\ DOMAIN s = 1..Len(s) /\ Len(t) \in Nat /\ DOMAIN t = 1..Len(t)
      /\ DOMAIN (s \o t) = 1..(Len(s) + Len(t))
  BY <1>1, <1>2, <1>4, LenProperties
<1> HIDE DEF r
<1>6. \A k \in 1..(Len(s) + Len(t)) : \/ k \in DOMAIN s /\ r[k] = s[k]
                                      \/ k - Len(s) \in DOMAIN t /\ r[k] = t[k - Len(s)]
  BY <1>4, <1>5 DEF r
<1>7. \A k \in DOMAIN r : (\E i \in DOMAIN s : r[k] = s[i]) \/ (\E i \in DOMAIN t : r[k] = t[i])
  BY <1>5, <1>6 DEF r
<1>8. IsQueue(r)  BY <1>4 DEF IsQueue, r
<1>9. Joins(r, s, t)  BY <1>7, <1>8 DEF Joins
<1>. QED  BY <1>9 DEF r
-----------------------------------------------------------------------------
(* NuCoordinatorState.                                                     *)
NuType ==
  [decl : BOOLEAN, epoch : Nat, seq : Nat, gen : Nat, hooks : Seq(Kinds), inFlight : Nat \X Nat,
   sched : Nat, asleep : BOOLEAN, schedSeq : Nat]

NuSound(n) ==
  /\ n \in NuType /\ n.epoch >= 1
  /\ n.inFlight = NoToken \/ n.inFlight[1] = n.epoch
  /\ ~n.decl => n.hooks = <<>> /\ n.inFlight = NoToken
  /\ n.asleep => n.sched # 0
  /\ Len(n.hooks) <= MaxHooks

(* The runtime was replaced, or the hook in flight is the same.            *)
Follows(n, o) ==
  /\ NuSound(o) /\ o.gen = n.gen
  /\ \/ o.epoch = n.epoch /\ o.inFlight = n.inFlight
     \/ o.epoch = n.epoch + 1 /\ o.inFlight = NoToken

LEMMA ScheduleFollows ==
  ASSUME NEW n, NuSound(n)
  PROVE  /\ Follows(n, n) /\ Follows(n, cancel_schedule(n)) /\ Follows(n, schedule_macro(n))
         /\ cancel_schedule(n).epoch = n.epoch /\ schedule_macro(n).epoch = n.epoch
         /\ cancel_schedule(n).inFlight = n.inFlight /\ schedule_macro(n).inFlight = n.inFlight
<1>1. Follows(n, n)  BY DEF Follows, NuSound, NuType
<1>2. /\ Follows(n, cancel_schedule(n)) /\ cancel_schedule(n).epoch = n.epoch
      /\ cancel_schedule(n).inFlight = n.inFlight
  BY ZenonT(20) DEF Follows, NuSound, NuType, cancel_schedule
<1>3. /\ Follows(n, schedule_macro(n)) /\ schedule_macro(n).epoch = n.epoch
      /\ schedule_macro(n).inFlight = n.inFlight
  <2> DEFINE o == schedule_macro(n)
  <2> DEFINE c == n.schedSeq + 1
  <2>0. o = [n EXCEPT !.schedSeq = c, !.sched = c, !.asleep = TRUE]  BY DEF schedule_macro
  <2>3. c # 0 /\ c \in Nat  BY DEF NuSound, NuType
  <2> HIDE DEF c, o
  <2>1. o \in NuType /\ o.asleep /\ o.sched = c
    BY <2>0, <2>3, ZenonT(20) DEF NuSound, NuType
  <2>2. /\ o.decl = n.decl /\ o.epoch = n.epoch /\ o.gen = n.gen /\ o.hooks = n.hooks
        /\ o.inFlight = n.inFlight
    BY <2>0 DEF NuSound, NuType
  <2>4. NuSound(o)  BY <2>1, <2>2, <2>3 DEF NuSound
  <2>. QED  BY <2>2, <2>4 DEF Follows, o
<1>. QED  BY <1>1, <1>2, <1>3

LEMMA RuntimeFollows ==
  ASSUME NEW n, NuSound(n), NEW d \in BOOLEAN
  PROVE  Follows(n, set_runtime(n, d))
<1>1. <<>> \in Seq(Kinds) /\ Len(<<>>) = 0 /\ NoToken \in Nat \X Nat  BY DEF NoToken
<1>2. cancel_schedule(n) \in NuType /\ cancel_schedule(n).epoch = n.epoch /\ cancel_schedule(n).gen = n.gen
      /\ ~cancel_schedule(n).asleep
  BY ZenonT(20) DEF NuSound, NuType, cancel_schedule
<1> DEFINE m == cancel_schedule(n)
<1>3. set_runtime(n, d) = [m EXCEPT !.decl = d, !.epoch = @ + 1, !.seq = 0, !.hooks = <<>>, !.inFlight = NoToken]
  BY DEF set_runtime
<1>4. n.epoch \in Nat /\ n.epoch >= 1 /\ MaxHooks \in Nat  BY RuntimeAssumption DEF NuSound, NuType
<1> DEFINE c == n.epoch + 1
<1> HIDE DEF m, c
<1>5. m \in NuType /\ m.epoch = n.epoch /\ m.gen = n.gen /\ ~m.asleep  BY <1>2 DEF m
<1> DEFINE o == set_runtime(n, d)
<1>6. c \in Nat /\ c >= 1 /\ c = n.epoch + 1  BY <1>4 DEF c
<1>7. o = [m EXCEPT !.decl = d, !.epoch = c, !.seq = 0, !.hooks = <<>>, !.inFlight = NoToken]
  BY <1>3, <1>5, <1>6
<1> HIDE DEF o
<1>8. o \in NuType  BY <1>1, <1>5, <1>6, <1>7, ZenonT(20) DEF NuType
<1>9. o.epoch = c /\ o.gen = n.gen /\ ~o.asleep /\ o.hooks = <<>> /\ o.inFlight = NoToken
  BY <1>5, <1>7 DEF NuType
<1>10. NuSound(o)  BY <1>1, <1>4, <1>6, <1>8, <1>9 DEF NuSound
<1>. QED  BY <1>6, <1>9, <1>10 DEF Follows, o

LEMMA EnqueueFollows ==
  ASSUME NEW n, NuSound(n), NEW k \in Kinds, NEW drain
  PROVE  LET o == enqueue_nu_hook(n, k, drain)
         IN  NuSound(o) /\ o.gen = n.gen /\ o.epoch = n.epoch /\ o.inFlight = n.inFlight
<1> DEFINE q == n.hooks
<1> DEFINE r == enqueue_hook(q, k)
<1>1. q \in Seq(Kinds) /\ Len(q) \in Nat /\ Len(q) <= MaxHooks /\ MaxHooks \in Nat /\ MaxHooks >= 1
  BY RuntimeAssumption DEF NuSound, NuType
<1>2. r \in Seq(Kinds) /\ Len(r) <= MaxHooks
  <2> HIDE DEF q
  <2>1. CASE q # <<>> /\ q[Len(q)] = k  BY <1>1, <2>1 DEF enqueue_hook
  <2>2. CASE ~(q # <<>> /\ q[Len(q)] = k) /\ Len(q) >= MaxHooks
    <3>1. q # <<>>  BY <1>1, <2>2, EmptySeq
    <3>2. Tail(q) \in Seq(Kinds) /\ Len(Tail(q)) = Len(q) - 1  BY <1>1, <3>1, HeadTailProperties
    <3>3. Append(Tail(q), k) \in Seq(Kinds) /\ Len(Append(Tail(q), k)) = Len(Tail(q)) + 1
      BY <3>2, AppendProperties
    <3>. QED  BY <1>1, <2>2, <3>2, <3>3 DEF enqueue_hook
  <2>3. CASE ~(q # <<>> /\ q[Len(q)] = k) /\ ~(Len(q) >= MaxHooks)
    <3>1. Append(q, k) \in Seq(Kinds) /\ Len(Append(q, k)) = Len(q) + 1  BY <1>1, AppendProperties
    <3>. QED  BY <1>1, <2>3, <3>1 DEF enqueue_hook
  <2>. QED  BY <2>1, <2>2, <2>3
<1>3. CASE drain \/ ~n.decl  BY <1>3 DEF enqueue_nu_hook
<1>4. CASE ~(drain \/ ~n.decl)
  <2>1. enqueue_nu_hook(n, k, drain) = [n EXCEPT !.hooks = r]  BY <1>4 DEF enqueue_nu_hook
  <2> HIDE DEF r
  <2>. QED  BY <1>2, <1>4, <2>1, ZenonT(20) DEF NuSound, NuType
<1>. QED  BY <1>3, <1>4
-----------------------------------------------------------------------------
(* Tokens.  A hook evaluation of the current epoch is the one in flight,   *)
(* and either its task still runs or its result is in the channel, once.   *)
EvalType == [token : Nat \X Nat, st : {"start", "sent", "running"}]

DoneAt(ms, i) == ms[i].kind = "done"
CurrentAt(ms, i, ep) == DoneAt(ms, i) /\ ms[i].token[1] = ep

TokenOf(t, ep, fl) ==
  t \in Nat \X Nat /\ 1 <= t[1] /\ t[1] <= ep /\ (t[1] = ep => t = fl)

TokensSound(ep, fl, es, ms) ==
  /\ IsQueue(ms) /\ es \subseteq EvalType
  /\ \A e \in es : TokenOf(e.token, ep, fl)
  /\ \A e, f \in es : e.token[1] = ep /\ f.token[1] = ep => e = f
  /\ \A i \in DOMAIN ms : DoneAt(ms, i) => TokenOf(ms[i].token, ep, fl)
  /\ \A i \in DOMAIN ms : CurrentAt(ms, i, ep) => \A e \in es : e.token[1] # ep
  /\ \A i, j \in DOMAIN ms : CurrentAt(ms, i, ep) /\ CurrentAt(ms, j, ep) => i = j

(* The hook in flight is as it was, or the runtime was replaced.           *)
LEMMA TokensFollow ==
  ASSUME NEW n, NuSound(n), NEW o, Follows(n, o), NEW es, NEW ms,
         TokensSound(n.epoch, n.inFlight, es, ms)
  PROVE  TokensSound(o.epoch, o.inFlight, es, ms)
<1>1. CASE o.epoch = n.epoch /\ o.inFlight = n.inFlight  BY <1>1
<1>2. CASE o.epoch = n.epoch + 1 /\ o.inFlight = NoToken
  <2> DEFINE ep == n.epoch
  <2> DEFINE fl == n.inFlight
  <2>1. ep \in Nat  BY DEF NuSound, NuType
  <2>2. TokensSound(ep, fl, es, ms)  OBVIOUS
  <2> HIDE DEF ep, fl
  <2>3. \A t : TokenOf(t, ep, fl) => TokenOf(t, ep + 1, NoToken) /\ t[1] # ep + 1
    BY <2>1 DEF TokenOf
  <2>4. \A e \in es : TokenOf(e.token, ep, fl)  BY <2>2 DEF TokensSound
  <2>5. \A i \in DOMAIN ms : DoneAt(ms, i) => TokenOf(ms[i].token, ep, fl)  BY <2>2 DEF TokensSound
  <2>6. \A e \in es : TokenOf(e.token, ep + 1, NoToken) /\ e.token[1] # ep + 1  BY <2>3, <2>4
  <2>7. \A i \in DOMAIN ms : ~CurrentAt(ms, i, ep + 1)  BY <2>3, <2>5 DEF CurrentAt
  <2>8. \A i \in DOMAIN ms : DoneAt(ms, i) => TokenOf(ms[i].token, ep + 1, NoToken)  BY <2>3, <2>5
  <2>9. TokensSound(ep + 1, NoToken, es, ms)  BY <2>2, <2>6, <2>7, <2>8 DEF TokensSound
  <2>. QED  BY <1>2, <2>9 DEF ep
<1>. QED  BY <1>1, <1>2 DEF Follows

(* kick_nu_hook_eval: while no hook is in flight, no task is current.      *)
LEMMA TokensStart ==
  ASSUME NEW ep \in Nat, ep >= 1, NEW s \in Nat, NEW es, NEW ms, TokensSound(ep, NoToken, es, ms)
  PROVE  TokensSound(ep, <<ep, s>>, es \cup {[token |-> <<ep, s>>, st |-> "start"]}, ms)
<1> DEFINE t == <<ep, s>>
<1> DEFINE x == [token |-> t, st |-> "start"]
<1> DEFINE fs == es \cup {x}
<1>1. t \in Nat \X Nat /\ t[1] = ep /\ x \in EvalType /\ x.token = t  BY DEF EvalType
<1>2. NoToken[1] = 0  BY DEF NoToken
<1> HIDE DEF t, x
<1>3. \A u : TokenOf(u, ep, NoToken) => u[1] # ep /\ TokenOf(u, ep, t)  BY <1>2 DEF TokenOf
<1>4. TokenOf(t, ep, t)  BY <1>1 DEF TokenOf
<1>5. \A e \in es : TokenOf(e.token, ep, NoToken)  BY DEF TokensSound
<1>6. \A i \in DOMAIN ms : DoneAt(ms, i) => TokenOf(ms[i].token, ep, NoToken)  BY DEF TokensSound
<1>7. \A e \in fs : TokenOf(e.token, ep, t) /\ (e.token[1] = ep => e = x)
  BY <1>1, <1>3, <1>4, <1>5
<1>8. fs \subseteq EvalType /\ IsQueue(ms)  BY <1>1 DEF TokensSound
<1>9. \A i \in DOMAIN ms : /\ DoneAt(ms, i) => TokenOf(ms[i].token, ep, t)
                          /\ ~CurrentAt(ms, i, ep)
  BY <1>3, <1>6 DEF CurrentAt
<1> HIDE DEF fs
<1>10. TokensSound(ep, t, fs, ms)  BY <1>7, <1>8, <1>9 DEF TokensSound
<1>. QED  BY <1>10 DEF t, x, fs

(* A message is taken; the result of the hook in flight ends it.           *)
LEMMA TokensTail ==
  ASSUME NEW ep \in Nat, NEW fl, NEW es, NEW ms, ms # <<>>, TokensSound(ep, fl, es, ms)
  PROVE  /\ TokensSound(ep, fl, es, Tail(ms))
         /\ DoneAt(ms, 1) /\ ms[1].token = fl /\ fl[1] = ep => TokensSound(ep, NoToken, es, Tail(ms))
<1> DEFINE q == Tail(ms)
<1>1. /\ IsQueue(q) /\ Len(ms) \in Nat /\ Len(ms) >= 1 /\ DOMAIN ms = 1..Len(ms)
      /\ DOMAIN q = 1..(Len(ms) - 1) /\ \A i \in 1..(Len(ms) - 1) : q[i] = ms[i + 1]
  BY QueueTail DEF TokensSound
<1> HIDE DEF q
<1>2. \A i \in DOMAIN q : i + 1 \in DOMAIN ms /\ i + 1 # 1 /\ q[i] = ms[i + 1] /\ i \in Nat  BY <1>1
<1>3. \A i \in DOMAIN q : \E j \in DOMAIN ms :
        /\ j = i + 1 /\ j # 1 /\ q[i] = ms[j]
        /\ DoneAt(q, i) <=> DoneAt(ms, j)
        /\ CurrentAt(q, i, ep) <=> CurrentAt(ms, j, ep)
  <2> SUFFICES ASSUME NEW i \in DOMAIN q
               PROVE  \E j \in DOMAIN ms : /\ j = i + 1 /\ j # 1 /\ q[i] = ms[j]
                                           /\ DoneAt(q, i) <=> DoneAt(ms, j)
                                           /\ CurrentAt(q, i, ep) <=> CurrentAt(ms, j, ep)
    OBVIOUS
  <2> DEFINE j == i + 1
  <2>1. j \in DOMAIN ms /\ j # 1 /\ q[i] = ms[j] /\ j = i + 1  BY <1>2
  <2> HIDE DEF j
  <2>2. DoneAt(q, i) <=> DoneAt(ms, j)  BY <2>1 DEF DoneAt
  <2>3. CurrentAt(q, i, ep) <=> CurrentAt(ms, j, ep)  BY <2>1, <2>2 DEF CurrentAt
  <2>. QED  BY <2>1, <2>2, <2>3
<1>4. TokensSound(ep, fl, es, q)
  <2>1. \A i \in DOMAIN q : DoneAt(q, i) => TokenOf(q[i].token, ep, fl)  BY <1>3 DEF TokensSound
  <2>2. \A i \in DOMAIN q : CurrentAt(q, i, ep) => \A e \in es : e.token[1] # ep
    BY <1>3 DEF TokensSound
  <2>3. \A i, j \in DOMAIN q : CurrentAt(q, i, ep) /\ CurrentAt(q, j, ep) => i + 1 = j + 1
    BY <1>3 DEF TokensSound
  <2>. QED  BY <1>1, <1>2, <2>1, <2>2, <2>3 DEF TokensSound
<1>5. ASSUME DoneAt(ms, 1), ms[1].token = fl, fl[1] = ep  PROVE TokensSound(ep, NoToken, es, q)
  <2>1. 1 \in DOMAIN ms  BY <1>1
  <2>0. CurrentAt(ms, 1, ep)  BY <1>5 DEF CurrentAt
  <2>2. \A e \in es : e.token[1] # ep  BY <2>0, <2>1 DEF TokensSound
  <2>3. \A i \in DOMAIN q : ~CurrentAt(q, i, ep)  BY <1>3, <2>0, <2>1 DEF TokensSound
  <2>4. \A t : TokenOf(t, ep, fl) /\ t[1] # ep => TokenOf(t, ep, NoToken)  BY DEF TokenOf
  <2>5. \A e \in es : TokenOf(e.token, ep, NoToken)  BY <2>2, <2>4 DEF TokensSound
  <2>6. \A i \in DOMAIN q : DoneAt(q, i) => TokenOf(q[i].token, ep, NoToken)  
    BY <1>4, <2>3, <2>4 DEF TokensSound, CurrentAt
  <2>. QED  BY <1>4, <2>2, <2>3, <2>5, <2>6 DEF TokensSound
<1>. QED  BY <1>4, <1>5 DEF q

(* A task reports, and ends.                                               *)
LEMMA TokensReport ==
  ASSUME NEW ep \in Nat, NEW fl, NEW es, NEW ms, TokensSound(ep, fl, es, ms), NEW e \in es, NEW r
  PROVE  TokensSound(ep, fl, es \ {e}, Append(ms, [kind |-> "done", token |-> e.token, result |-> r]))
<1> DEFINE m == [kind |-> "done", token |-> e.token, result |-> r]
<1> DEFINE q == Append(ms, m)
<1> DEFINE n == Len(ms)
<1> DEFINE fs == es \ {e}
<1>1. m.kind = "done" /\ m.token = e.token  OBVIOUS
<1> HIDE DEF m
<1>2. /\ IsQueue(q) /\ n \in Nat /\ DOMAIN ms = 1..n /\ DOMAIN q = 1..(n + 1) /\ q[n + 1] = m
      /\ \A i \in 1..n : q[i] = ms[i]
  BY QueueAppend DEF TokensSound
<1> HIDE DEF q, n
<1>3. \A i \in DOMAIN q : \/ i \in DOMAIN ms /\ q[i] = ms[i] /\ i # n + 1
                          \/ i = n + 1 /\ q[i] = m
  BY <1>2
<1>4. TokenOf(e.token, ep, fl)  BY DEF TokensSound
<1>5. \A i \in DOMAIN q : DoneAt(q, i) => TokenOf(q[i].token, ep, fl)
  BY <1>1, <1>3, <1>4 DEF TokensSound, DoneAt
<1>6. e.token[1] = ep => \A f \in fs : f.token[1] # ep  BY DEF TokensSound
<1>11. \A i \in DOMAIN q :
         CurrentAt(q, i, ep) => (i \in DOMAIN ms /\ CurrentAt(ms, i, ep)) \/ (i = n + 1 /\ e.token[1] = ep)
  <2> SUFFICES ASSUME NEW i \in DOMAIN q, CurrentAt(q, i, ep)
               PROVE  (i \in DOMAIN ms /\ CurrentAt(ms, i, ep)) \/ (i = n + 1 /\ e.token[1] = ep)
    OBVIOUS
  <2>1. CASE i = n + 1 /\ q[i] = m  BY <1>1, <2>1 DEF CurrentAt
  <2>2. CASE i \in DOMAIN ms /\ q[i] = ms[i]  BY <2>2 DEF CurrentAt, DoneAt
  <2>. QED  BY <1>3, <2>1, <2>2
<1>7. \A i \in DOMAIN q : CurrentAt(q, i, ep) => \A f \in fs : f.token[1] # ep
  BY <1>6, <1>11 DEF TokensSound
<1>8. e.token[1] = ep => \A i \in DOMAIN ms : ~CurrentAt(ms, i, ep)  BY DEF TokensSound
<1>9. \A i, j \in DOMAIN q : CurrentAt(q, i, ep) /\ CurrentAt(q, j, ep) => i = j
  BY <1>8, <1>11 DEF TokensSound
<1>10. TokensSound(ep, fl, fs, q)
  BY <1>2, <1>5, <1>7, <1>9 DEF TokensSound
<1>. QED  BY <1>10 DEF q, m

(* A timer reports.                                                        *)
LEMMA TokensFired ==
  ASSUME NEW ep \in Nat, NEW fl, NEW es, NEW ms, TokensSound(ep, fl, es, ms), NEW k
  PROVE  TokensSound(ep, fl, es, Append(ms, [kind |-> "fired", token |-> k]))
<1> DEFINE m == [kind |-> "fired", token |-> k]
<1> DEFINE q == Append(ms, m)
<1> DEFINE n == Len(ms)
<1>1. m.kind # "done"  OBVIOUS
<1> HIDE DEF m
<1>2. /\ IsQueue(q) /\ n \in Nat /\ DOMAIN ms = 1..n /\ DOMAIN q = 1..(n + 1) /\ q[n + 1] = m
      /\ \A i \in 1..n : q[i] = ms[i]
  BY QueueAppend DEF TokensSound
<1> HIDE DEF q, n
<1>3. \A i \in DOMAIN q : DoneAt(q, i) => i \in DOMAIN ms /\ q[i] = ms[i] /\ DoneAt(ms, i)
  BY <1>1, <1>2 DEF DoneAt
<1>4. \A i \in DOMAIN q : CurrentAt(q, i, ep) => i \in DOMAIN ms /\ CurrentAt(ms, i, ep)
  BY <1>3 DEF CurrentAt
<1>5. TokensSound(ep, fl, es, q)  BY <1>2, <1>3, <1>4 DEF TokensSound
<1>. QED  BY <1>5 DEF q, m

(* A task goes on.                                                         *)
LEMMA TokensAdvance ==
  ASSUME NEW ep \in Nat, NEW fl, NEW es, NEW ms, TokensSound(ep, fl, es, ms), NEW e \in es,
         NEW st \in {"sent", "running"}
  PROVE  TokensSound(ep, fl, (es \ {e}) \cup {[e EXCEPT !.st = st]}, ms)
<1> DEFINE x == [e EXCEPT !.st = st]
<1> DEFINE fs == (es \ {e}) \cup {x}
<1>1. e \in EvalType  BY DEF TokensSound
<1>2. x \in EvalType /\ x.token = e.token  BY <1>1 DEF EvalType
<1> HIDE DEF x
<1>3. fs \subseteq EvalType /\ IsQueue(ms)  BY <1>2 DEF TokensSound
<1>4. \A f \in fs : \E g \in es : f.token = g.token /\ (f = g \/ (f = x /\ g = e))  BY <1>2
<1>5. \A f \in fs : f = x \/ (f \in es /\ f # e)  OBVIOUS
<1> HIDE DEF fs
<1>6. \A f, g \in fs : f.token[1] = ep /\ g.token[1] = ep => f = g
  <2>1. e.token[1] = ep => \A f \in es : f.token[1] = ep => f = e  BY DEF TokensSound
  <2>. QED  BY <1>2, <1>5, <2>1 DEF TokensSound
<1>7. \A f \in fs : TokenOf(f.token, ep, fl)  BY <1>4 DEF TokensSound
<1>8. \A i \in DOMAIN ms : CurrentAt(ms, i, ep) => \A f \in fs : f.token[1] # ep
  BY <1>4 DEF TokensSound
<1>9. TokensSound(ep, fl, fs, ms)  BY <1>3, <1>6, <1>7, <1>8 DEF TokensSound
<1>. QED  BY <1>9 DEF fs, x
-----------------------------------------------------------------------------
(* Queued Nu work is of the current stop scope.                            *)
WorkSound(w, gen) ==
  IsQueue(w) /\ \A i \in DOMAIN w : w[i].kind = "nu" => w[i].scope = gen

CoreInv ==
  /\ NuSound(nu) /\ TokensSound(nu.epoch, nu.inFlight, evals, msgs)
  /\ WorkSound(work, nu.gen) /\ IsQueue(chan)

LEMMA WorkAppend ==
  ASSUME NEW w, NEW g, WorkSound(w, g), NEW x, x.kind = "nu" => x.scope = g
  PROVE  WorkSound(Append(w, x), g) /\ Append(w, x) # <<>>
<1> DEFINE q == Append(w, x)
<1> DEFINE n == Len(w)
<1>1. /\ IsQueue(q) /\ n \in Nat /\ DOMAIN w = 1..n /\ DOMAIN q = 1..(n + 1) /\ Len(q) = n + 1
      /\ q[n + 1] = x /\ \A i \in 1..n : q[i] = w[i]
  BY QueueAppend DEF WorkSound
<1> HIDE DEF q, n
<1>2. \A i \in DOMAIN q : (i \in DOMAIN w /\ q[i] = w[i]) \/ q[i] = x  BY <1>1
<1>3. \A i \in DOMAIN q : q[i].kind = "nu" => q[i].scope = g  BY <1>2 DEF WorkSound
<1>4. q # <<>>  BY <1>1
<1>. QED  BY <1>1, <1>3, <1>4 DEF WorkSound, q

LEMMA WorkTail ==
  ASSUME NEW w, NEW g, WorkSound(w, g), w # <<>>
  PROVE  WorkSound(Tail(w), g) /\ Head(w) = w[1] /\ 1 \in DOMAIN w
<1> DEFINE q == Tail(w)
<1>1. /\ IsQueue(q) /\ Len(w) \in Nat /\ Len(w) >= 1 /\ DOMAIN w = 1..Len(w) /\ Head(w) = w[1]
      /\ DOMAIN q = 1..(Len(w) - 1) /\ \A i \in 1..(Len(w) - 1) : q[i] = w[i + 1]
  BY QueueTail DEF WorkSound
<1> HIDE DEF q
<1>2. \A i \in DOMAIN q : \E j \in DOMAIN w : q[i] = w[j]  BY <1>1
<1>3. \A i \in DOMAIN q : q[i].kind = "nu" => q[i].scope = g  BY <1>2 DEF WorkSound
<1>. QED  BY <1>1, <1>3 DEF WorkSound, q

(* The tick appends edits only.                                            *)
LEMMA WorkTick ==
  ASSUME NEW w, NEW g, WorkSound(w, g), NEW ch, IsQueue(ch), NEW c
  PROVE  WorkSound(w \o [i \in DOMAIN ch |-> [kind |-> "edit", edit |-> ch[i], cause |-> c]], g)
<1> DEFINE R(x) == [kind |-> "edit", edit |-> x, cause |-> c]
<1> DEFINE t == [i \in DOMAIN ch |-> R(ch[i])]
<1>1. \A x : R(x).kind # "nu"  OBVIOUS
<1> HIDE DEF R
<1>2. DOMAIN ch = 1..Len(ch) /\ Len(ch) \in Nat
  <2>1. PICK S : ch \in Seq(S)  BY DEF IsQueue
  <2>. QED  BY <2>1, LenProperties
<1>3. \A i \in DOMAIN t : t[i].kind # "nu"  BY <1>1
<1>4. IsQueue(t)
  <2> DEFINE S == {t[i] : i \in 1..Len(ch)}
  <2>1. t = [i \in 1..Len(ch) |-> R(ch[i])]  BY <1>2
  <2>2. t \in [1..Len(ch) -> S]  BY <2>1
  <2>3. t \in Seq(S)  BY <1>2, <2>2, SeqDef
  <2>. QED  BY <2>3 DEF IsQueue
<1> HIDE DEF t
<1> DEFINE q == w \o t
<1>5. Joins(q, w, t)
  <2>1. IsQueue(w)  BY DEF WorkSound
  <2>. QED  BY <1>4, <2>1, QueueConcat
<1> HIDE DEF q
<1>6. WorkSound(q, g)  BY <1>3, <1>5 DEF WorkSound, Joins
<1>. QED  BY <1>6 DEF q, t, R

(* A stop leaves no Nu work of the scope it ends.                          *)
LEMMA WorkStop ==
  ASSUME NEW w, NEW g \in Nat, WorkSound(w, g)
  PROVE  WorkSound(remove_scope(w, g), g + 1)
<1> DEFINE S == {w[i] : i \in DOMAIN w}
<1> DEFINE R == {x \in S : ~Drops(x, g)}
<1> DEFINE q == remove_scope(w, g)
<1>1. w \in Seq(S)
  <2>1. PICK U : w \in Seq(U)  BY DEF WorkSound, IsQueue
  <2>2. Len(w) \in Nat /\ DOMAIN w = 1..Len(w) /\ w \in [1..Len(w) -> U]  BY <2>1, LenProperties, SeqDef
  <2>3. w \in [1..Len(w) -> S]  BY <2>2
  <2>. QED  BY <2>2, <2>3, SeqDef
<1>2. \A x \in S : x.kind = "nu" => x.scope = g  BY DEF WorkSound
<1> HIDE DEF S
<1>3. q \in Seq(R)  BY <1>1, ScopeRemoved
<1>4. \A x \in R : x.kind # "nu"  BY <1>2 DEF Drops
<1> HIDE DEF q, R
<1>5. \A i \in DOMAIN q : q[i] \in R
  <2>1. Len(q) \in Nat /\ DOMAIN q = 1..Len(q)  BY <1>3, LenProperties
  <2>. QED  BY <1>3, <2>1, ElementOfSeq
<1>6. IsQueue(q)  BY <1>3 DEF IsQueue
<1>7. WorkSound(q, g + 1)  BY <1>4, <1>5, <1>6 DEF WorkSound
<1>. QED  BY <1>7 DEF q

LEMMA CoreInit ==
  ASSUME Init PROVE CoreInv
<1>1. NuSound(nu)
  <2>1. <<>> \in Seq(Kinds) /\ Len(<<>>) = 0 /\ NoToken \in Nat \X Nat /\ MaxHooks \in Nat
    BY RuntimeAssumption DEF NoToken
  <2>2. nu = [decl |-> TRUE, epoch |-> 1, seq |-> 0, gen |-> 0, hooks |-> <<>>,
              inFlight |-> NoToken, sched |-> 0, asleep |-> FALSE, schedSeq |-> 0]
    BY DEF Init
  <2>. QED  BY <2>1, <2>2 DEF NuSound, NuType
<1>2. IsQueue(<<>>)  BY DEF IsQueue
<1>3. DOMAIN <<>> = {}  OBVIOUS
<1>4. TokensSound(nu.epoch, nu.inFlight, evals, msgs)  BY <1>2, <1>3 DEF Init, TokensSound
<1>5. WorkSound(work, nu.gen)  BY <1>2, <1>3 DEF Init, WorkSound
<1>. QED  BY <1>1, <1>2, <1>4, <1>5 DEF CoreInv, Init

(* What an invocation does to the Nu state and to the queue.               *)
LEMMA InvocationKept ==
  ASSUME CoreInv, NEW c, NEW popped \in BOOLEAN, NEW drain, run_invocation(c, popped, drain),
         popped => work # <<>>
  PROVE  /\ NuSound(nu') /\ TokensSound(nu'.epoch, nu'.inFlight, evals, msgs)
         /\ WorkSound(work', nu'.gen)
<1>1. /\ NuSound(nu) /\ TokensSound(nu.epoch, nu.inFlight, evals, msgs) /\ WorkSound(work, nu.gen)
  BY DEF CoreInv
<1>2. ASSUME NEW o \in Outcomes(c), NEW k \in Kinds, nu' = enqueue_nu_hook(o.nu, k, drain),
             work' = IF popped THEN Tail(o.work) ELSE o.work
      PROVE  /\ NuSound(nu') /\ TokensSound(nu'.epoch, nu'.inFlight, evals, msgs)
             /\ WorkSound(work', nu'.gen)
  <2> DEFINE n == o.nu
  <2> DEFINE w == o.work
  <2>1. /\ Follows(nu, nu) /\ Follows(nu, cancel_schedule(nu)) /\ Follows(nu, schedule_macro(nu))
    BY <1>1, ScheduleFollows
  <2>2. \A d \in BOOLEAN : Follows(nu, set_runtime(nu, d))  BY <1>1, RuntimeFollows
  <2>3. \/ n \in {nu, cancel_schedule(nu), schedule_macro(nu)}
        \/ \E d \in BOOLEAN : n = set_runtime(nu, d)
    BY DEF Outcomes
  <2>4. w = work \/ w = Append(work, Plain(c))  BY DEF Outcomes
  <2>5. nu' = enqueue_nu_hook(n, k, drain) /\ work' = IF popped THEN Tail(w) ELSE w  BY <1>2
  <2> HIDE DEF n, w
  <2>6. Follows(nu, n)  BY <2>1, <2>2, <2>3
  <2>7. NuSound(n) /\ n.gen = nu.gen  BY <2>6 DEF Follows
  <2>8. NuSound(nu') /\ nu'.gen = nu.gen /\ nu'.epoch = n.epoch /\ nu'.inFlight = n.inFlight
    BY <2>5, <2>7, EnqueueFollows
  <2>9. TokensSound(n.epoch, n.inFlight, evals, msgs)  BY <1>1, <2>6, TokensFollow
  <2>10. Plain(c).kind # "nu"  BY DEF Plain
  <2>11. WorkSound(w, nu.gen) /\ (popped => w # <<>>)  BY <1>1, <2>4, <2>10, WorkAppend, ZenonT(20)
  <2>12. WorkSound(work', nu.gen)  BY <2>5, <2>11, WorkTail
  <2>. QED  BY <2>8, <2>9, <2>12
<1>3. ASSUME work' = IF popped THEN Tail(work) ELSE work, nu' = nu
      PROVE  /\ NuSound(nu') /\ TokensSound(nu'.epoch, nu'.inFlight, evals, msgs)
             /\ WorkSound(work', nu'.gen)
  BY <1>1, <1>3, WorkTail
<1>. QED  BY <1>2, <1>3 DEF run_invocation

(* The result of a hook: with the hook ended, and its effects applied.     *)
LEMMA HookKept ==
  ASSUME CoreInv, msgs # <<>>, HookDone(Head(msgs)), msgs' = Tail(msgs)
  PROVE  /\ NuSound(nu') /\ TokensSound(nu'.epoch, nu'.inFlight, evals, msgs')
         /\ WorkSound(work', nu'.gen)
<1> DEFINE m == Head(msgs)
<1> DEFINE ep == nu.epoch
<1> DEFINE fl == nu.inFlight
<1>1. /\ NuSound(nu) /\ TokensSound(ep, fl, evals, msgs) /\ WorkSound(work, nu.gen) /\ ep \in Nat
  BY DEF CoreInv, NuSound, NuType
<1>2. m = msgs[1] /\ 1 \in DOMAIN msgs  BY <1>1, QueueTail DEF TokensSound
<1>3. TokensSound(ep, fl, evals, msgs')  BY <1>1, TokensTail
<1>4. m.kind = "done"  BY DEF HookDone
<1>5. CASE UNCHANGED <<nu, work>>  BY <1>1, <1>3, <1>5
<1>6. CASE complete_hook_eval(nu, m.token) /\ apply_hook_effect_batch([nu EXCEPT !.inFlight = NoToken], m.result)
  <2>1. m.token = fl  BY <1>6 DEF complete_hook_eval
  <2>2. TokenOf(m.token, ep, fl)  BY <1>1, <1>2, <1>4 DEF TokensSound, DoneAt
  <2>3. fl # NoToken  BY <2>1, <2>2 DEF TokenOf, NoToken
  <2>4. fl[1] = ep  BY <1>1, <2>3 DEF NuSound
  <2>5. TokensSound(ep, NoToken, evals, msgs')  BY <1>1, <1>2, <1>4, <2>1, <2>4, TokensTail, ZenonT(20) DEF DoneAt
  <2> DEFINE n == [nu EXCEPT !.inFlight = NoToken]
  <2>6. NuSound(n) /\ n.gen = nu.gen /\ n.epoch = ep /\ n.inFlight = NoToken
    BY <1>1, ZenonT(20) DEF NuSound, NuType, NoToken
  <2>7. apply_hook_effect_batch(n, m.result)  BY <1>6
  <2> HIDE DEF n
  <2>8. n.gen \in Nat  BY <2>6 DEF NuSound, NuType
  <2>9. CASE nu' = [n EXCEPT !.gen = @ + 1, !.hooks = <<>>] /\ work' = remove_scope(work, n.gen)
    <3> DEFINE g == n.gen + 1
    <3>1. g \in Nat /\ nu' = [n EXCEPT !.gen = g, !.hooks = <<>>]  BY <2>8, <2>9
    <3>2. WorkSound(work', g)  BY <1>1, <2>6, <2>8, <2>9, WorkStop
    <3> HIDE DEF g
    <3>3. <<>> \in Seq(Kinds) /\ Len(<<>>) = 0 /\ MaxHooks \in Nat  BY RuntimeAssumption
    <3>4. n \in NuType  BY <2>6 DEF NuSound
    <3>5. /\ nu' \in NuType /\ nu'.gen = g /\ nu'.epoch = n.epoch /\ nu'.inFlight = n.inFlight
          /\ nu'.hooks = <<>> /\ nu'.asleep = n.asleep /\ nu'.sched = n.sched
      BY <3>1, <3>3, <3>4, ZenonT(20) DEF NuType
    <3>6. NuSound(nu')  BY <2>6, <3>3, <3>5 DEF NuSound
    <3>. QED  BY <2>5, <2>6, <3>2, <3>5, <3>6
  <2>10. CASE nu' = n /\ work' = enqueue_runtime_nu_invocation(n, active)
    <3> DEFINE x == [kind |-> "nu", scope |-> n.gen, cause |-> active]
    <3>1. x.scope = n.gen  OBVIOUS
    <3>2. work' = Append(work, x)  BY <2>10 DEF enqueue_runtime_nu_invocation
    <3> HIDE DEF x
    <3>3. WorkSound(work', nu.gen)  BY <1>1, <2>6, <3>1, <3>2, WorkAppend
    <3>. QED  BY <2>5, <2>6, <2>10, <3>3
  <2>11. CASE nu' = schedule_macro(n) /\ UNCHANGED work
    BY <1>1, <2>5, <2>6, <2>11, ScheduleFollows DEF Follows
  <2>12. CASE nu' = n /\ UNCHANGED work  BY <1>1, <2>5, <2>6, <2>12
  <2>. QED  BY <2>7, <2>9, <2>10, <2>11, <2>12 DEF apply_hook_effect_batch
<1>. QED  BY <1>5, <1>6 DEF HookDone

LEMMA FiredKept ==
  ASSUME CoreInv, msgs # <<>>, ScheduleFired(Head(msgs)), msgs' = Tail(msgs)
  PROVE  /\ NuSound(nu') /\ TokensSound(nu'.epoch, nu'.inFlight, evals, msgs')
         /\ WorkSound(work', nu'.gen)
<1>1. /\ NuSound(nu) /\ TokensSound(nu.epoch, nu.inFlight, evals, msgs) /\ WorkSound(work, nu.gen)
      /\ nu.epoch \in Nat
  BY DEF CoreInv, NuSound, NuType
<1>2. TokensSound(nu.epoch, nu.inFlight, evals, msgs')
  <2> DEFINE ep == nu.epoch
  <2> DEFINE fl == nu.inFlight
  <2>1. TokensSound(ep, fl, evals, msgs) /\ ep \in Nat  BY <1>1
  <2> HIDE DEF ep, fl
  <2>2. TokensSound(ep, fl, evals, msgs')  BY <2>1, TokensTail
  <2>. QED  BY <2>2 DEF ep, fl
<1>3. CASE UNCHANGED <<nu, work>>  BY <1>1, <1>2, <1>3
<1>4. CASE nu' = cancel_schedule(nu) /\ work' = enqueue_runtime_nu_invocation(nu, active)
  <2> DEFINE x == [kind |-> "nu", scope |-> nu.gen, cause |-> active]
  <2>1. x.scope = nu.gen  OBVIOUS
  <2>2. work' = Append(work, x)  BY <1>4 DEF enqueue_runtime_nu_invocation
  <2> HIDE DEF x
  <2>3. WorkSound(work', nu.gen)  BY <1>1, <2>1, <2>2, WorkAppend
  <2>. QED  BY <1>1, <1>2, <1>4, <2>3, ScheduleFollows DEF Follows
<1>. QED  BY <1>3, <1>4 DEF ScheduleFired

LEMMA KickKept ==
  ASSUME CoreInv, Kick
  PROVE  NuSound(nu') /\ nu'.gen = nu.gen /\ TokensSound(nu'.epoch, nu'.inFlight, evals', msgs)
<1>1. NuSound(nu) /\ TokensSound(nu.epoch, nu.inFlight, evals, msgs)  BY DEF CoreInv
<1>2. CASE UNCHANGED <<nu, evals>>  BY <1>1, <1>2
<1>3. ASSUME nu.inFlight = NoToken, nu.hooks # <<>>,
             nu' = [nu EXCEPT !.hooks = Tail(@), !.seq = @ + 1, !.inFlight = <<nu.epoch, nu.seq>>],
             evals' = evals \cup {[token |-> <<nu.epoch, nu.seq>>, st |-> "start"]}
      PROVE  NuSound(nu') /\ nu'.gen = nu.gen /\ TokensSound(nu'.epoch, nu'.inFlight, evals', msgs)
  <2> DEFINE ep == nu.epoch
  <2> DEFINE s == nu.seq
  <2> DEFINE k == nu.seq + 1
  <2> DEFINE h == Tail(nu.hooks)
  <2> DEFINE t == <<ep, s>>
  <2>1. ep \in Nat /\ ep >= 1 /\ s \in Nat /\ k \in Nat  BY <1>1 DEF NuSound, NuType
  <2>2. nu.hooks \in Seq(Kinds) /\ Len(nu.hooks) <= MaxHooks  BY <1>1 DEF NuSound, NuType
  <2>3. h \in Seq(Kinds) /\ Len(h) = Len(nu.hooks) - 1  BY <1>3, <2>2, HeadTailProperties
  <2>4. Len(h) <= MaxHooks
    <3>1. Len(nu.hooks) \in Nat /\ MaxHooks \in Nat  BY <2>2, LenProperties, RuntimeAssumption
    <3>. QED  BY <2>2, <2>3, <3>1
  <2>5. nu' = [nu EXCEPT !.hooks = h, !.seq = k, !.inFlight = t]  BY <1>3
  <2>6. t \in Nat \X Nat /\ t[1] = ep  BY <2>1
  <2>7. TokensSound(ep, t, evals', msgs)
    <3>1. evals' = evals \cup {[token |-> <<ep, s>>, st |-> "start"]} /\ TokensSound(ep, NoToken, evals, msgs)
      BY <1>1, <1>3
    <3> HIDE DEF ep, s
    <3>. QED  BY <2>1, <3>1, TokensStart
  <2>8. nu.decl  BY <1>1, <1>3 DEF NuSound
  <2>0. ep = nu.epoch  OBVIOUS
  <2> HIDE DEF ep, s, k, h, t
  <2>9. nu \in NuType  BY <1>1 DEF NuSound
  <2>10. /\ nu' \in NuType /\ nu'.epoch = nu.epoch /\ nu'.gen = nu.gen /\ nu'.hooks = h
         /\ nu'.inFlight = t /\ nu'.decl = nu.decl /\ nu'.asleep = nu.asleep /\ nu'.sched = nu.sched
    BY <2>1, <2>3, <2>5, <2>6, <2>9, ZenonT(20) DEF NuType
  <2>11. NuSound(nu')  BY <1>1, <2>0, <2>4, <2>6, <2>8, <2>10 DEF NuSound
  <2>. QED  BY <2>0, <2>7, <2>10, <2>11
<1>. QED  BY <1>2, <1>3 DEF Kick

LEMMA TimerKept ==
  ASSUME CoreInv, TimerFire
  PROVE  NuSound(nu') /\ nu'.gen = nu.gen /\ TokensSound(nu'.epoch, nu'.inFlight, evals, msgs')
<1> DEFINE ep == nu.epoch
<1> DEFINE fl == nu.inFlight
<1> DEFINE k == nu.sched
<1>1. NuSound(nu) /\ TokensSound(ep, fl, evals, msgs) /\ ep \in Nat  BY DEF CoreInv, NuSound, NuType
<1>2. nu' = [nu EXCEPT !.asleep = FALSE] /\ msgs' = Append(msgs, [kind |-> "fired", token |-> k])
  BY DEF TimerFire
<1>3. NuSound(nu') /\ nu'.gen = nu.gen /\ nu'.epoch = ep /\ nu'.inFlight = fl
  BY <1>1, <1>2, ZenonT(20) DEF NuSound, NuType
<1> HIDE DEF ep, fl, k
<1>4. TokensSound(ep, fl, evals, msgs')  BY <1>1, <1>2, TokensFired
<1>. QED  BY <1>3, <1>4

LEMMA EvalKept ==
  ASSUME CoreInv, NEW e \in evals, EvalSend(e) \/ EvalTake(e) \/ EvalCancelled(e) \/ EvalEnd(e)
  PROVE  UNCHANGED <<nu, work, chan>> /\ TokensSound(nu.epoch, nu.inFlight, evals', msgs')
<1> DEFINE ep == nu.epoch
<1> DEFINE fl == nu.inFlight
<1>1. TokensSound(ep, fl, evals, msgs) /\ ep \in Nat  BY DEF CoreInv, NuSound, NuType
<1>2. UNCHANGED <<nu, work, chan>>
  BY DEF EvalSend, EvalTake, EvalCancelled, EvalEnd, TaskRest, edits
<1>3. \/ \E r \in {"err", "stop", "dispatch", "schedule"} : Report(e, r)
      \/ \E st \in {"sent", "running"} : Advance(e, st)
  BY DEF EvalSend, EvalTake, EvalCancelled, EvalEnd
<1> HIDE DEF ep, fl
<1>4. ASSUME NEW r, Report(e, r)  PROVE TokensSound(ep, fl, evals', msgs')
  BY <1>1, <1>4, TokensReport DEF Report
<1>5. ASSUME NEW st \in {"sent", "running"}, Advance(e, st)  PROVE TokensSound(ep, fl, evals', msgs')
  BY <1>1, <1>5, TokensAdvance, ZenonT(20) DEF Advance
<1>6. TokensSound(ep, fl, evals', msgs')  BY <1>3, <1>4, <1>5
<1>. QED  BY <1>2, <1>6 DEF ep, fl

(* The invariant is inductive.                                             *)
LEMMA CoreStep ==
  ASSUME CoreInv, [Next]_vars
  PROVE  CoreInv'
<1>0. /\ NuSound(nu) /\ TokensSound(nu.epoch, nu.inFlight, evals, msgs) /\ WorkSound(work, nu.gen)
      /\ IsQueue(chan)
  BY DEF CoreInv
<1>1. ASSUME UNCHANGED <<nu, evals, msgs, work>>, IsQueue(chan')  PROVE CoreInv'
  BY <1>0, <1>1 DEF CoreInv
<1>2. CASE Submit  BY <1>0, <1>1, <1>2 DEF Submit, tasks, edits
<1>3. CASE TakeEvent
  BY <1>0, <1>3, InvocationKept, ZenonT(20) DEF TakeEvent, edits, CoreInv
<1>4. CASE IdleMaintenance  BY <1>0, <1>1, <1>4 DEF IdleMaintenance, tasks, edits
<1>5. CASE Tick
  <2>1. WorkSound(work', nu.gen)  BY <1>0, <1>5, WorkTick, ZenonT(20) DEF Tick
  <2>2. IsQueue(<<>>)  BY DEF IsQueue
  <2>. QED  BY <1>0, <1>5, <2>1, <2>2 DEF Tick, tasks, CoreInv
<1>6. CASE DrainMessage
  BY <1>0, <1>6, HookKept, FiredKept DEF DrainMessage, tasks, edits, CoreInv
<1>7. CASE Kick  BY <1>0, <1>7, KickKept DEF Kick, edits, CoreInv
<1>8. CASE RunItem
  BY <1>0, <1>8, InvocationKept, ZenonT(20) DEF RunItem, Pop, edits, CoreInv
<1>9. CASE SkipEdit  BY <1>0, <1>9, WorkTail DEF SkipEdit, Pop, tasks, CoreInv
<1>10. CASE ApplyEdit  BY <1>0, <1>10, WorkTail DEF ApplyEdit, Pop, tasks, edits, CoreInv
<1>11. CASE EditDone  BY <1>0, <1>1, <1>11 DEF EditDone, tasks
<1>12. CASE EndRound
  <2>1. UNCHANGED <<nu, tasks, msgs, work, edits>>  BY <1>12 DEF EndRound
  <2>. QED  BY <1>0, <1>1, <2>1 DEF tasks, edits
<1>13. ASSUME NEW e \in evals, EvalSend(e) \/ EvalTake(e) \/ EvalCancelled(e) \/ EvalEnd(e)  PROVE CoreInv'
  BY <1>0, <1>13, EvalKept DEF CoreInv
<1>14. CASE TimerFire  BY <1>0, <1>14, TimerKept DEF TimerFire, tasks, edits, CoreInv
<1>15. ASSUME NEW e \in Edits, EditRequest(e) \/ EditDeadline(e) \/ EditTimeout(e)  PROVE CoreInv'
  <2>1. UNCHANGED <<nu, evals, msgs, work>>
    BY <1>15 DEF EditRequest, EditDeadline, EditTimeout, EditRest, tasks
  <2>2. chan' = chan \/ chan' = Append(chan, e)  BY <1>15 DEF EditRequest, EditDeadline, EditTimeout
  <2>3. IsQueue(Append(chan, e))  BY <1>0, QueueAppend
  <2>4. IsQueue(chan')  BY <1>0, <2>2, <2>3, ZenonT(20)
  <2>. QED  BY <1>1, <2>1, <2>4
<1>16. CASE UNCHANGED vars  BY <1>0, <1>1, <1>16 DEF vars, tasks, edits
<1>. QED
  BY <1>2, <1>3, <1>4, <1>5, <1>6, <1>7, <1>8, <1>9, <1>10, <1>11, <1>12, <1>13, <1>14, <1>15, <1>16
     DEF Next, PumpStep, EvalStep
-----------------------------------------------------------------------------
(* The maintenance cycle.                                                  *)
LoopInv ==
  /\ drained \in 0..MaxItems /\ round \in 0..MaxRounds
  /\ ~skipped => IF phase = "apply" THEN cur.cause = cycle ELSE active = cycle

LEMMA LoopStep ==
  ASSUME LoopInv, [Next]_vars
  PROVE  LoopInv'
<1>0. MaxItems \in Nat /\ MaxItems >= 1 /\ MaxRounds \in Nat /\ MaxRounds >= 1  BY RuntimeAssumption
<1>1. ASSUME UNCHANGED <<phase, loop, cur, active>>  PROVE LoopInv'
  BY <1>1 DEF LoopInv, loop
<1>2. CASE Submit  BY <1>1, <1>2 DEF Submit
<1>3. ASSUME NEW c, phase = "idle", StartCycle(c)  PROVE LoopInv'
  BY <1>0, <1>3 DEF StartCycle, LoopInv
<1>4. CASE TakeEvent  BY <1>3, <1>4 DEF TakeEvent
<1>5. CASE IdleMaintenance  BY <1>3, <1>5 DEF IdleMaintenance
<1>6. CASE Tick  BY <1>6 DEF Tick, LoopInv, loop
<1>7. CASE DrainMessage  BY <1>7 DEF DrainMessage, LoopInv
<1>8. CASE Kick
  <2>1. /\ phase = "messages" /\ phase' = "work" /\ drained' = 0
        /\ UNCHANGED <<round, cycle, skipped, active>>
    BY <1>8 DEF Kick
  <2>. QED  BY <1>0, <2>1 DEF LoopInv
<1>9. CASE RunItem
  <2>1. /\ drained < MaxItems /\ drained' = drained + 1
        /\ UNCHANGED <<phase, round, cycle, skipped, active, cur>>
    BY <1>9 DEF RunItem, Pop
  <2>. QED  BY <1>0, <2>1 DEF LoopInv
<1>10. CASE SkipEdit
  <2>1. drained < MaxItems /\ drained' = drained + 1 /\ skipped' = TRUE /\ UNCHANGED round
    BY <1>10 DEF SkipEdit, Pop
  <2>. QED  BY <1>0, <2>1 DEF LoopInv
<1>11. CASE ApplyEdit
  <2>1. /\ phase = "work" /\ phase' = "apply" /\ drained < MaxItems /\ drained' = drained + 1
        /\ cur' = [edit |-> Head(work).edit, cause |-> active] /\ UNCHANGED <<round, cycle, skipped>>
    BY <1>11 DEF ApplyEdit, Pop
  <2>2. cur'.cause = active  BY <2>1
  <2>. QED  BY <1>0, <2>1, <2>2 DEF LoopInv
<1>12. CASE EditDone
  <2>1. phase = "apply" /\ phase' = "work" /\ active' = cur.cause /\ UNCHANGED loop
    BY <1>12 DEF EditDone
  <2>. QED  BY <2>1 DEF LoopInv, loop
<1>13. CASE EndRound
  <2>1. phase = "work" /\ drained' = 0  BY <1>13 DEF EndRound
  <2>2. \/ phase' = "quit" /\ UNCHANGED <<round, cycle, active, skipped>>
        \/ round < MaxRounds /\ phase' = "tick" /\ round' = round + 1 /\ UNCHANGED <<cycle, active, skipped>>
        \/ phase' = "idle" /\ round' = 0 /\ cycle' = NoCause /\ active' = NoCause
    BY <1>13 DEF EndRound
  <2>. QED  BY <1>0, <2>1, <2>2 DEF LoopInv
<1>14. ASSUME NEW e \in evals, EvalSend(e) \/ EvalTake(e) \/ EvalCancelled(e) \/ EvalEnd(e)  PROVE LoopInv'
  BY <1>1, <1>14 DEF EvalSend, EvalTake, EvalCancelled, EvalEnd, TaskRest
<1>15. CASE TimerFire  BY <1>1, <1>15 DEF TimerFire
<1>16. ASSUME NEW e \in Edits, EditRequest(e) \/ EditDeadline(e) \/ EditTimeout(e)  PROVE LoopInv'
  BY <1>1, <1>16 DEF EditRequest, EditDeadline, EditTimeout, EditRest
<1>17. CASE UNCHANGED vars  BY <1>1, <1>17 DEF vars
<1>. QED
  BY <1>2, <1>4, <1>5, <1>6, <1>7, <1>8, <1>9, <1>10, <1>11, <1>12, <1>13, <1>14, <1>15, <1>16, <1>17
     DEF Next, PumpStep, EvalStep
-----------------------------------------------------------------------------
(* What a server is told of its edits: an edit that changed the workspace  *)
(* has been answered, or its time ran out while it was being applied.      *)
TruthOf(a, f, over, applying) ==
  /\ a = "applied" => f = "full"
  /\ a = "timeout" /\ f # "no" => over
  /\ f # "no" => a \in {"applied", "failed", "timeout"}
  /\ applying /\ a = "timeout" => over

EditInv ==
  /\ answer = [e \in Edits |-> answer[e]] /\ effect = [e \in Edits |-> effect[e]]
  /\ \A e \in Edits : TruthOf(answer[e], effect[e], e \in overran, phase = "apply" /\ cur.edit = e)

LEMMA EditStep ==
  ASSUME EditInv, [Next]_vars
  PROVE  EditInv'
<1>0. /\ answer = [e \in Edits |-> answer[e]] /\ effect = [e \in Edits |-> effect[e]]
      /\ \A e \in Edits : TruthOf(answer[e], effect[e], e \in overran, phase = "apply" /\ cur.edit = e)
  BY DEF EditInv
<1>1. ASSUME UNCHANGED <<cur, answer, effect, overran>>, phase' = "apply" => phase = "apply"
      PROVE  EditInv'
  BY <1>0, <1>1 DEF EditInv, TruthOf
<1>2. CASE Submit  BY <1>1, <1>2 DEF Submit, edits
<1>3. CASE TakeEvent  BY <1>1, <1>3 DEF TakeEvent, StartCycle, edits
<1>4. CASE IdleMaintenance  BY <1>1, <1>4 DEF IdleMaintenance, StartCycle, edits
<1>5. CASE Tick  BY <1>1, <1>5 DEF Tick
<1>6. CASE DrainMessage  BY <1>1, <1>6 DEF DrainMessage, edits
<1>7. CASE Kick
  <2>1. phase' = "work" /\ UNCHANGED <<cur, edits>>  BY <1>7 DEF Kick
  <2>. QED  BY <1>1, <2>1 DEF edits
<1>8. CASE RunItem
  <2>1. UNCHANGED <<phase, cur, edits>>  BY <1>8 DEF RunItem
  <2>. QED  BY <1>1, <2>1 DEF edits
<1>9. CASE EndRound
  <2>1. phase' # "apply" /\ UNCHANGED <<cur, edits>>  BY <1>9 DEF EndRound
  <2>. QED  BY <1>1, <2>1 DEF edits
<1>10. CASE SkipEdit
  <2> DEFINE x == Head(work).edit
  <2>1. /\ phase = "work" /\ answer[x] \in {"late", "timeout"}
        /\ answer' = [answer EXCEPT ![x] = IF @ = "late" THEN "failed" ELSE @]
        /\ UNCHANGED <<phase, cur, effect, overran>>
    BY <1>10 DEF SkipEdit, Pop, Stale
  <2> HIDE DEF x
  <2>2. answer' = [e \in Edits |-> answer'[e]]  BY <1>0, <2>1
  <2>3. \A e \in Edits : \/ answer'[e] = answer[e]
                         \/ answer[e] = "late" /\ answer'[e] = "failed"
    BY <1>0, <2>1
  <2>. QED  BY <1>0, <2>1, <2>2, <2>3 DEF EditInv, TruthOf
<1>11. CASE ApplyEdit
  <2> DEFINE x == Head(work).edit
  <2>1. /\ phase' = "apply" /\ answer[x] \notin {"late", "timeout"}
        /\ cur' = [edit |-> x, cause |-> active] /\ UNCHANGED <<answer, effect, overran>>
    BY <1>11 DEF ApplyEdit, Pop, Stale, edits
  <2> HIDE DEF x
  <2>2. cur'.edit = x  BY <2>1
  <2>. QED  BY <1>0, <2>1, <2>2 DEF EditInv, TruthOf
<1>12. CASE EditDone
  <2> DEFINE x == cur.edit
  <2>1. PICK r \in {"applied", "failed"}, f \in {"no", "partial", "full"} :
          /\ r = "applied" => f = "full"
          /\ effect' = [effect EXCEPT ![x] = f]
          /\ answer' = [answer EXCEPT ![x] = IF @ = "timeout" THEN @ ELSE r]
    BY <1>12, ZenonT(20) DEF EditDone
  <2>2. phase = "apply" /\ phase' = "work" /\ UNCHANGED overran  BY <1>12 DEF EditDone
  <2>0. x = cur.edit  OBVIOUS
  <2> HIDE DEF x
  <2>3. answer' = [e \in Edits |-> answer'[e]] /\ effect' = [e \in Edits |-> effect'[e]]
    BY <1>0, <2>1, ZenonT(20)
  <2>4. ASSUME NEW e \in Edits, e # x  PROVE answer'[e] = answer[e] /\ effect'[e] = effect[e]
    BY <1>0, <2>1, <2>4, ZenonT(20)
  <2>5. ASSUME NEW e \in Edits, e = x
        PROVE  effect'[e] = f /\ answer'[e] = IF answer[e] = "timeout" THEN "timeout" ELSE r
    BY <1>0, <2>1, <2>5
  <2>6. ASSUME NEW e \in Edits
        PROVE  TruthOf(answer'[e], effect'[e], e \in overran, FALSE)
    <3>1. TruthOf(answer[e], effect[e], e \in overran, phase = "apply" /\ cur.edit = e)  BY <1>0
    <3>2. CASE e # x  BY <2>4, <3>1, <3>2 DEF TruthOf
    <3>3. CASE e = x /\ answer[e] = "timeout"  BY <2>0, <2>2, <2>5, <3>1, <3>3 DEF TruthOf
    <3>4. CASE e = x /\ answer[e] # "timeout"  BY <2>1, <2>5, <3>4 DEF TruthOf
    <3>. QED  BY <3>2, <3>3, <3>4, ZenonT(20)
  <2>7. phase' # "apply"  BY <2>2
  <2>. QED  BY <2>2, <2>3, <2>6, <2>7 DEF EditInv, TruthOf
<1>13. ASSUME NEW e \in evals, EvalSend(e) \/ EvalTake(e) \/ EvalCancelled(e) \/ EvalEnd(e)  PROVE EditInv'
  BY <1>1, <1>13 DEF EvalSend, EvalTake, EvalCancelled, EvalEnd, TaskRest, edits
<1>14. CASE TimerFire  BY <1>1, <1>14 DEF TimerFire, edits
<1>15. ASSUME NEW x \in Edits, EditRequest(x) \/ EditDeadline(x) \/ EditTimeout(x)  PROVE EditInv'
  <2>1. UNCHANGED <<phase, cur, effect>>
    BY <1>15, ZenonT(20) DEF EditRequest, EditDeadline, EditTimeout, EditRest
  <2>2. \/ /\ answer[x] = "none" /\ answer' = [answer EXCEPT ![x] = "waiting"] /\ UNCHANGED overran
        \/ /\ answer[x] = "waiting" /\ answer' = [answer EXCEPT ![x] = "late"] /\ UNCHANGED overran
        \/ /\ answer[x] = "late" /\ answer' = [answer EXCEPT ![x] = "timeout"]
           /\ overran' = IF cur.edit = x THEN overran \cup {x} ELSE overran
    BY <1>15 DEF EditRequest, EditDeadline, EditTimeout
  <2>3. answer' = [e \in Edits |-> answer'[e]]  BY <1>0, <2>2
  <2>4. \A e \in Edits : e # x => answer'[e] = answer[e] /\ (e \in overran' <=> e \in overran)
    BY <1>0, <2>2
  <2>5. \/ answer[x] = "none" /\ answer'[x] = "waiting"
        \/ answer[x] = "waiting" /\ answer'[x] = "late"
        \/ answer[x] = "late" /\ answer'[x] = "timeout" /\ (cur.edit = x => x \in overran')
    BY <1>0, <2>2
  <2>6. TruthOf(answer'[x], effect[x], x \in overran', phase = "apply" /\ cur.edit = x)
    BY <1>0, <2>5 DEF TruthOf
  <2>7. \A e \in Edits : TruthOf(answer'[e], effect[e], e \in overran', phase = "apply" /\ cur.edit = e)
    BY <1>0, <2>4, <2>6 DEF TruthOf
  <2>. QED  BY <1>0, <2>1, <2>3, <2>7 DEF EditInv
<1>16. CASE UNCHANGED vars  BY <1>1, <1>16 DEF vars, edits
<1>. QED
  BY <1>2, <1>3, <1>4, <1>5, <1>6, <1>7, <1>8, <1>9, <1>10, <1>11, <1>12, <1>13, <1>14, <1>15, <1>16
     DEF Next, PumpStep, EvalStep
-----------------------------------------------------------------------------
LEMMA CoreSound ==
  ASSUME CoreInv, LoopInv
  PROVE  RuntimeTypeOK
<1> DEFINE C == {e \in evals : Current(e)}
<1>1. \A e, f \in C : e = f  BY ZenonT(20) DEF Current, CoreInv, TokensSound
<1>2. Cardinality(C) <= 1
  <2>1. CASE C = {}
    <3>1. Cardinality(C) = 0  BY <2>1, FS_EmptySet
    <3>. QED  BY <3>1
  <2>2. CASE C # {}
    <3>1. PICK x : x \in C  BY <2>2
    <3>2. C = {x}  BY <1>1, <3>1
    <3> HIDE DEF C
    <3>3. Cardinality(C) = 1  BY <3>2, FS_Singleton
    <3>. QED  BY <3>3
  <2>. QED  BY <2>1, <2>2
<1>3. \A i \in DOMAIN work : work[i].kind = "nu" => work[i].scope = nu.gen  BY DEF CoreInv, WorkSound
<1>4. /\ ~nu.decl => nu.hooks = <<>> /\ nu.inFlight = NoToken
      /\ nu.asleep => nu.sched # 0
      /\ Len(nu.hooks) <= MaxHooks
  BY ZenonT(20) DEF CoreInv, NuSound
<1>5. drained <= MaxItems /\ round <= MaxRounds  BY RuntimeAssumption DEF LoopInv
<1>6. ~skipped => IF phase = "apply" THEN cur.cause = cycle ELSE active = cycle  BY DEF LoopInv
<1>. QED  BY <1>2, <1>3, <1>4, <1>5, <1>6 DEF RuntimeTypeOK

(* The result of an evaluation by an earlier runtime is not that of the    *)
(* hook in flight, and only the loop takes messages.                       *)
LEMMA StaleStep ==
  ASSUME CoreInv, Next, msgs # <<>>, msgs' = Tail(msgs), StaleMessage(Head(msgs))
  PROVE  UNCHANGED <<nu, work>>
<1>1. NuSound(nu) /\ TokensSound(nu.epoch, nu.inFlight, evals, msgs)  BY DEF CoreInv
<1>2. IsQueue(msgs)  BY <1>1 DEF TokensSound
<1>3. Len(msgs) \in Nat /\ Len(Tail(msgs)) = Len(msgs) - 1 /\ Head(msgs) = msgs[1] /\ 1 \in DOMAIN msgs
  BY <1>2, QueueTail
<1>4. msgs' # msgs
  <2> DEFINE l == Len(Tail(msgs))
  <2> DEFINE n == Len(msgs)
  <2>1. n \in Nat /\ l = n - 1 /\ (msgs' = msgs => l = n)  BY <1>3, ZenonT(20)
  <2> HIDE DEF l, n
  <2>. QED  BY <2>1
<1>5. \A x : msgs' # Append(msgs, x)
  <2> SUFFICES ASSUME NEW x, msgs' = Append(msgs, x) PROVE FALSE
    OBVIOUS
  <2>1. Len(Append(msgs, x)) = Len(msgs) + 1  BY <1>2, QueueAppend
  <2>. QED  BY <1>3, <2>1
<1>6. HookDone(Head(msgs)) \/ ScheduleFired(Head(msgs))
  <2>1. CASE Submit  BY <1>4, <2>1 DEF Submit
  <2>2. CASE TakeEvent  BY <1>4, <2>2 DEF TakeEvent
  <2>3. CASE IdleMaintenance  BY <1>4, <2>3 DEF IdleMaintenance
  <2>4. CASE Tick  BY <1>4, <2>4 DEF Tick
  <2>5. CASE DrainMessage  BY <2>5 DEF DrainMessage
  <2>6. CASE Kick  BY <1>4, <2>6 DEF Kick
  <2>7. CASE RunItem  BY <1>4, <2>7 DEF RunItem
  <2>8. CASE SkipEdit  BY <1>4, <2>8 DEF SkipEdit
  <2>9. CASE ApplyEdit  BY <1>4, <2>9 DEF ApplyEdit
  <2>10. CASE EditDone  BY <1>4, <2>10 DEF EditDone
  <2>11. CASE EndRound
    <3>1. UNCHANGED msgs  BY <2>11 DEF EndRound
    <3>. QED  BY <1>4, <3>1
  <2>12. ASSUME NEW e \in evals, EvalSend(e) \/ EvalTake(e) \/ EvalCancelled(e) \/ EvalEnd(e)  PROVE FALSE
    <3>1. (\E r : Report(e, r)) \/ (\E st : Advance(e, st))
      BY <2>12 DEF EvalSend, EvalTake, EvalCancelled, EvalEnd
    <3>2. ASSUME NEW r, Report(e, r)  PROVE FALSE  BY <1>5, <3>2 DEF Report
    <3>3. ASSUME NEW st, Advance(e, st)  PROVE FALSE  BY <1>4, <3>3 DEF Advance
    <3>. QED  BY <3>1, <3>2, <3>3
  <2>13. CASE TimerFire  BY <1>5, <2>13 DEF TimerFire
  <2>14. ASSUME NEW e \in Edits, EditRequest(e) \/ EditDeadline(e) \/ EditTimeout(e)  PROVE FALSE
    BY <1>4, <2>14, ZenonT(20) DEF EditRequest, EditDeadline, EditTimeout, EditRest
  <2>. QED
    BY <2>1, <2>2, <2>3, <2>4, <2>5, <2>6, <2>7, <2>8, <2>9, <2>10, <2>11, <2>12, <2>13, <2>14
       DEF Next, PumpStep, EvalStep
<1>7. CASE HookDone(Head(msgs))
  <2> DEFINE m == Head(msgs)
  <2>1. m.kind = "done" /\ m.token[1] # nu.epoch  BY <1>7 DEF HookDone, StaleMessage
  <2>2. TokenOf(m.token, nu.epoch, nu.inFlight)  BY <1>1, <1>3, <2>1, ZenonT(20) DEF TokensSound, DoneAt
  <2>3. m.token # NoToken
    <3>1. NoToken[1] = 0  BY DEF NoToken
    <3>2. m.token[1] \in Nat /\ 1 <= m.token[1]  BY <2>2 DEF TokenOf
    <3>. QED  BY <3>1, <3>2
  <2>4. m.token # nu.inFlight  BY <1>1, <2>1, <2>3 DEF NuSound
  <2>. QED  BY <1>7, <2>4 DEF HookDone, complete_hook_eval
<1>8. CASE ScheduleFired(Head(msgs))
  BY <1>8 DEF ScheduleFired, StaleMessage
<1>. QED  BY <1>6, <1>7, <1>8

(* RuntimeTypeOK: whatever the hooks do, and however often the runtime is  *)
(* reloaded, the work that a stop leaves in the queue is of the scope it   *)
(* opened, one hook at a time is evaluated by the current runtime, and the *)
(* loop stays within its bounds and attributes work to the right cause.    *)
THEOREM LoopBooksAreExact == Spec => []RuntimeTypeOK
<1>1. Init => CoreInv  BY CoreInit
<1>2. Init => LoopInv  BY RuntimeAssumption DEF Init, LoopInv
<1>3. CoreInv /\ [Next]_vars => CoreInv'  BY CoreStep
<1>4. LoopInv /\ [Next]_vars => LoopInv'  BY LoopStep
<1>5. CoreInv /\ LoopInv => RuntimeTypeOK  BY CoreSound
<1>. QED  BY <1>1, <1>2, <1>3, <1>4, <1>5, PTL DEF Spec

(* EditTruth: an edit reported as applied has been applied in full, and    *)
(* one reported as timed out changed nothing unless the time ran out while *)
(* apply_workspace_edit was at work on it.                                 *)
THEOREM ServerIsToldTheTruth == Spec => []EditTruth
<1>1. Init => EditInv  BY DEF Init, EditInv, TruthOf
<1>2. EditInv /\ [Next]_vars => EditInv'  BY EditStep
<1>3. EditInv => EditTruth  BY DEF EditInv, TruthOf, EditTruth
<1>. QED  BY <1>1, <1>2, <1>3, PTL DEF Spec

(* StaleIgnored: complete_hook_eval and the schedule token let nothing     *)
(* through that an earlier runtime or an earlier schedule has sent.        *)
THEOREM StaleResultsAreIgnored == Spec => StaleIgnored
<1>1. Init => CoreInv  BY CoreInit
<1>2. CoreInv /\ [Next]_vars => CoreInv'  BY CoreStep
<1> DEFINE A == msgs # <<>> /\ msgs' = Tail(msgs) /\ StaleMessage(Head(msgs)) => UNCHANGED <<nu, work>>
<1>3. CoreInv /\ [Next]_vars => [A]_vars  BY StaleStep
<1>. QED  BY <1>1, <1>2, <1>3, PTL DEF Spec, StaleIgnored
=============================================================================

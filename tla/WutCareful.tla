------------------------------ MODULE WutCareful ------------------------------
(***************************************************************************)
(* Theorems about Wut for clients that cancel with care (CarefulCancel),    *)
(* for every number of threads and every such client: no wake-up is lost,   *)
(* no thread runs after its end, and every join reports its thread.         *)
(*                                                                         *)
(* World states the bookkeeping of wut.c as one relation between the array  *)
(* a, the heap h, the queue q, the running thread c and the TCB j that it    *)
(* joins (c and j are NONE between the save of a context and the next       *)
(* thread's start).  A lemma per operation shows that it keeps World.       *)
(***************************************************************************)
EXTENDS WutProofs, FiniteSetTheorems

Among(q, t) == \E i \in 1..Len(q) : q[i] = t
Distinct(q) == \A i, k \in 1..Len(q) : q[i] = q[k] => i = k

Alive(h, t) == h[t].status = NONE

(* The TCB that t waits for, or NONE outside of wut_join. *)
Inside(h, c, j, t) == IF t = c THEN j ELSE h[t].ucontext.joined

Waiting(h, q, c, t) == t # c /\ ~Among(q, t) /\ Alive(h, t)

(* t is suspended in a wut_join of u, and both know it. *)
Held(h, t, u) ==
  /\ h[t].ucontext.joined = u
  /\ Alive(h, u)
  /\ h[u].join = 1 /\ h[u].join_from = h[t].id
  /\ h[t].block = 1 /\ h[t].join_to = h[u].id

(* The array leads to every live thread, whose context is its own. *)
Indexed(a, h) ==
  \A t \in DOMAIN h : Alive(h, t) => a[h[t].id] = t /\ h[t].ucontext.thread = t

RunnerAlive(h, c, j) ==
  c # NONE => c \in DOMAIN h /\ Alive(h, c) /\ (j # NONE => ~Alive(h, j))

(* The queue has live threads that wait for nobody alive. *)
QueueReady(h, q, c) ==
  \A t \in DOMAIN h : Among(q, t) =>
    /\ t # c /\ Alive(h, t)
    /\ h[t].ucontext.joined # NONE => ~Alive(h, h[t].ucontext.joined)

WaitersHeld(h, q, c) ==
  \A t \in DOMAIN h : Waiting(h, q, c, t) => \E u \in DOMAIN h : Held(h, t, u)

JoinedHeld(h, q, c) ==
  \A u \in DOMAIN h : Alive(h, u) /\ (h[u].join = 1 \/ h[u].join_from # NONE) =>
    \E t \in DOMAIN h : Waiting(h, q, c, t) /\ Held(h, t, u)

(* Who is in a wut_join keeps the slot of its thread, and is alone there. *)
Reserved(h, c, j) ==
  \A t \in DOMAIN h : Alive(h, t) /\ Inside(h, c, j, t) # NONE =>
    h[Inside(h, c, j, t)].enable = 0
Single(h, c, j) ==
  \A t, u \in DOMAIN h :
    Alive(h, t) /\ Alive(h, u) /\ Inside(h, c, j, t) # NONE /\
    Inside(h, c, j, t) = Inside(h, c, j, u) => t = u

World(a, h, q, c, j) ==
  /\ Distinct(q)
  /\ Indexed(a, h)
  /\ RunnerAlive(h, c, j)
  /\ QueueReady(h, q, c)
  /\ WaitersHeld(h, q, c)
  /\ JoinedHeld(h, q, c)
  /\ Reserved(h, c, j)
  /\ Single(h, c, j)

(* What World takes from the types. *)
Shaped(h, q) ==
  /\ NONE \notin DOMAIN h
  /\ \A t \in DOMAIN h : /\ h[t].ucontext.joined \in DOMAIN h \cup {NONE}
                         /\ h[t].id # NONE
  /\ \A t : Among(q, t) => t \in DOMAIN h

(* The inductive invariant, with IInv. *)
Waits ==
  process = "running" =>
    Cur = cpu.thread /\ World(TCB_ARRAY, heap, Q_head, cpu.thread, cpu.joined)

-----------------------------------------------------------------------------
(* Queues *)

LEMMA AmongAppend ==
  ASSUME NEW S, NEW q \in Seq(S), NEW x \in S
  PROVE  /\ \A t : Among(Append(q, x), t) <=> Among(q, t) \/ t = x
         /\ Distinct(q) /\ ~Among(q, x) => Distinct(Append(q, x))
<1>1. /\ Len(q) \in Nat /\ Len(Append(q, x)) = Len(q) + 1
      /\ \A i \in 1..Len(q) : Append(q, x)[i] = q[i]
      /\ Append(q, x)[Len(q) + 1] = x
  OBVIOUS
<1> DEFINE r == Append(q, x)
<1> HIDE DEF r
<1>2. \A i \in 1..Len(r) : i = Len(q) + 1 \/ i \in 1..Len(q)
  BY <1>1 DEF r
<1>3. ASSUME NEW t
      PROVE  Among(r, t) <=> Among(q, t) \/ t = x
  BY <1>1, <1>2 DEF Among, r
<1>4. ASSUME Distinct(q), ~Among(q, x)
      PROVE  Distinct(r)
  BY <1>1, <1>2, <1>4 DEF Distinct, Among, r
<1> QED
  BY <1>3, <1>4 DEF r

LEMMA AmongTail ==
  ASSUME NEW S, NEW q \in Seq(S), q # <<>>
  PROVE  /\ Among(q, Head(q)) /\ Head(q) \in S
         /\ Distinct(q) => /\ Distinct(Tail(q))
                           /\ \A t : Among(Tail(q), t) <=> Among(q, t) /\ t # Head(q)
<1>1. /\ Len(q) \in Nat \ {0} /\ Len(Tail(q)) = Len(q) - 1
      /\ \A i \in 1..Len(Tail(q)) : Tail(q)[i] = q[i + 1]
      /\ q[1] = Head(q)
  OBVIOUS
<1>2. Among(q, Head(q)) /\ Head(q) \in S
  BY <1>1 DEF Among
<1> DEFINE r == Tail(q)
           x == Head(q)
<1> HIDE DEF r, x
<1>3. \A i \in 1..Len(q) : i = 1 \/ (i - 1 \in 1..Len(r) /\ (i - 1) + 1 = i)
  BY <1>1 DEF r
<1>4. \A i \in 1..Len(r) : i + 1 \in 1..Len(q) /\ i + 1 # 1
  BY <1>1 DEF r
<1>5. ASSUME Distinct(q)
      PROVE  Distinct(r)
  <2> SUFFICES ASSUME NEW i \in 1..Len(r), NEW k \in 1..Len(r), r[i] = r[k]
               PROVE  i = k
    BY DEF Distinct
  <2>1. q[i + 1] = q[k + 1]
    BY <1>1 DEF r
  <2>2. i + 1 = k + 1
    BY <1>4, <1>5, <2>1 DEF Distinct
  <2> QED
    BY <2>2
<1>6. ASSUME Distinct(q), NEW t
      PROVE  Among(r, t) <=> Among(q, t) /\ t # x
  <2>1. Among(r, t) => Among(q, t) /\ t # x
    <3> SUFFICES ASSUME NEW i \in 1..Len(r), r[i] = t
                 PROVE  Among(q, t) /\ t # x
      BY DEF Among
    <3>1. q[i + 1] = t /\ i + 1 \in 1..Len(q) /\ 1 \in 1..Len(q) /\ q[1] = x /\ i + 1 # 1
      BY <1>1, <1>4 DEF r, x
    <3> QED
      BY <1>6, <3>1 DEF Among, Distinct
  <2>2. Among(q, t) /\ t # x => Among(r, t)
    BY <1>1, <1>3 DEF Among, r, x
  <2> QED
    BY <2>1, <2>2
<1> QED
  BY <1>2, <1>5, <1>6 DEF r, x

LEMMA AmongRemoved ==
  ASSUME NEW S, NEW q \in Seq(S), NEW k \in 1..Len(q), Distinct(q)
  PROVE  /\ Distinct(RemoveAt(q, k))
         /\ \A t : Among(RemoveAt(q, k), t) <=> Among(q, t) /\ t # q[k]
<1> DEFINE r == RemoveAt(q, k)
<1>1. /\ Len(q) \in Nat /\ k \in Nat /\ 1 <= k /\ k <= Len(q)
  OBVIOUS
<1>2. /\ Len(r) = Len(q) - 1
      /\ \A i \in 1..Len(r) : r[i] = IF i < k THEN q[i] ELSE q[i + 1]
  <2> DEFINE s == SubSeq(q, 1, k - 1)
             u == SubSeq(q, k + 1, Len(q))
  <2>1. s \in Seq(S) /\ Len(s) = k - 1 /\ \A i \in 1..(k - 1) : s[i] = q[i]
    BY <1>1
  <2>2. u \in Seq(S) /\ Len(u) = Len(q) - k /\ \A i \in 1..(Len(q) - k) : u[i] = q[k + i]
    BY <1>1
  <2>3. r = s \o u
    BY DEF RemoveAt
  <2> HIDE DEF s, u, r
  <2>4. /\ Len(r) = Len(s) + Len(u)
        /\ \A i \in 1..Len(r) : r[i] = IF i <= Len(s) THEN s[i] ELSE u[i - Len(s)]
    <3>1. /\ Len(s \o u) = Len(s) + Len(u)
          /\ \A i \in 1..(Len(s) + Len(u)) :
               (s \o u)[i] = IF i <= Len(s) THEN s[i] ELSE u[i - Len(s)]
      BY <2>1, <2>2, ConcatProperties, Zenon
    <3> QED
      BY <2>3, <3>1
  <2>5. Len(r) = Len(q) - 1
    BY <1>1, <2>1, <2>2, <2>4
  <2>6. ASSUME NEW i \in 1..Len(r)
        PROVE  r[i] = IF i < k THEN q[i] ELSE q[i + 1]
    <3>1. CASE i < k
      BY <1>1, <2>1, <2>4, <3>1
    <3>2. CASE ~(i < k)
      <4>1. i - (k - 1) \in 1..(Len(q) - k) /\ k + (i - (k - 1)) = i + 1 /\ ~(i <= k - 1)
        BY <1>1, <2>5, <3>2
      <4> QED
        BY <2>1, <2>2, <2>4, <3>2, <4>1
    <3> QED
      BY <3>1, <3>2
  <2> QED
    BY <2>5, <2>6
<1> HIDE DEF r
<1>3. \A i \in 1..Len(r) :
        \E m \in 1..Len(q) : m # k /\ r[i] = q[m] /\ (m = i \/ m = i + 1) /\ (m = i <=> i < k)
  <2> TAKE i \in 1..Len(r)
  <2>1. CASE i < k
    <3>1. i \in 1..Len(q) /\ i # k /\ r[i] = q[i]
      BY <1>1, <1>2, <2>1
    <3> QED
      BY <2>1, <3>1
  <2>2. CASE ~(i < k)
    <3>1. i + 1 \in 1..Len(q) /\ i + 1 # k /\ r[i] = q[i + 1] /\ i + 1 # i
      BY <1>1, <1>2, <2>2
    <3> QED
      BY <2>2, <3>1
  <2> QED
    BY <2>1, <2>2
<1>4. Distinct(r)
  <2> SUFFICES ASSUME NEW i \in 1..Len(r), NEW n \in 1..Len(r), r[i] = r[n]
               PROVE  i = n
    BY DEF Distinct
  <2>1. PICK m \in 1..Len(q) : m # k /\ r[i] = q[m] /\ (m = i \/ m = i + 1) /\ (m = i <=> i < k)
    BY <1>3
  <2>2. PICK o \in 1..Len(q) : o # k /\ r[n] = q[o] /\ (o = n \/ o = n + 1) /\ (o = n <=> n < k)
    BY <1>3
  <2>3. m = o
    BY <2>1, <2>2 DEF Distinct
  <2> QED
    BY <1>1, <2>1, <2>2, <2>3
<1>5. ASSUME NEW t
      PROVE  Among(r, t) <=> Among(q, t) /\ t # q[k]
  <2>1. Among(r, t) => Among(q, t) /\ t # q[k]
    BY <1>3 DEF Among, Distinct
  <2>2. ASSUME NEW m \in 1..Len(q), q[m] = t, t # q[k]
        PROVE  Among(r, t)
    <3>1. m # k
      BY <2>2
    <3>2. CASE m < k
      <4>1. m \in 1..Len(r) /\ r[m] = q[m]
        BY <1>1, <1>2, <3>2
      <4> QED
        BY <2>2, <4>1 DEF Among
    <3>3. CASE m > k
      <4>1. m - 1 \in 1..Len(r) /\ r[m - 1] = q[m]
        BY <1>1, <1>2, <3>3
      <4> QED
        BY <2>2, <4>1 DEF Among
    <3> QED
      BY <1>1, <3>1, <3>2, <3>3
  <2> QED
    BY <2>1, <2>2 DEF Among
<1> QED
  BY <1>4, <1>5 DEF r

-----------------------------------------------------------------------------
(* The operations *)

(* A thread that is joined has one joiner, which its join_from_ leads to.   *)
LEMMA JoinerOf ==
  ASSUME NEW a, NEW h, NEW q, NEW c, NEW j, World(a, h, q, c, j), Shaped(h, q),
         NEW u \in DOMAIN h, Alive(h, u), h[u].join = 1 \/ h[u].join_from # NONE
  PROVE  LET w == a[h[u].join_from]
         IN /\ w \in DOMAIN h /\ Waiting(h, q, c, w) /\ Held(h, w, u)
            /\ h[u].join = 1 /\ h[u].join_from # NONE
            /\ \A t \in DOMAIN h : Waiting(h, q, c, t) /\ Held(h, t, u) => t = w
<1>1. \A t \in DOMAIN h : Waiting(h, q, c, t) /\ Held(h, t, u) => t = a[h[u].join_from]
  BY DEF World, Indexed, Waiting, Held
<1>2. PICK t \in DOMAIN h : Waiting(h, q, c, t) /\ Held(h, t, u)
  BY DEF World, JoinedHeld
<1> QED
  BY <1>1, <1>2 DEF Held, Shaped

(* The first thread of the queue starts.                                   *)
LEMMA SwitchWorld ==
  ASSUME NEW a, NEW h, NEW q, NEW r, NEW n, World(a, h, q, NONE, NONE), Shaped(h, q),
         Among(q, n), Distinct(r), \A t : Among(r, t) <=> Among(q, t) /\ t # n
  PROVE  World(a, h, r, n, h[n].ucontext.joined)
<1> DEFINE j == h[n].ucontext.joined
<1>1. n \in DOMAIN h /\ n # NONE /\ Alive(h, n) /\ (j # NONE => ~Alive(h, j))
  BY DEF Shaped, World, QueueReady
<1>2. \A t \in DOMAIN h : t # NONE /\ Inside(h, n, j, t) = Inside(h, NONE, NONE, t)
  BY DEF Shaped, Inside
<1>3. \A t \in DOMAIN h : Waiting(h, r, n, t) <=> Waiting(h, q, NONE, t)
  BY <1>2 DEF Waiting
<1>4. RunnerAlive(h, n, j)
  BY <1>1 DEF RunnerAlive
<1>5. QueueReady(h, r, n)
  BY DEF World, QueueReady
<1>6. WaitersHeld(h, r, n) /\ JoinedHeld(h, r, n)
  BY <1>3 DEF World, WaitersHeld, JoinedHeld
<1>7. Reserved(h, n, j) /\ Single(h, n, j)
  <2> HIDE DEF j
  <2> QED
    BY <1>2 DEF World, Reserved, Single
<1> QED
  BY <1>4, <1>5, <1>6, <1>7 DEF World

(* The fields of a TCB but its context. *)
SameFields(g, h, t) ==
  /\ g[t].id = h[t].id /\ g[t].status = h[t].status
  /\ g[t].join = h[t].join /\ g[t].join_from = h[t].join_from
  /\ g[t].join_to = h[t].join_to /\ g[t].block = h[t].block
  /\ g[t].enable = h[t].enable

(* wut_yield: the running thread is saved and goes to the queue.           *)
LEMMA YieldWorld ==
  ASSUME NEW a, NEW h, NEW q, NEW c, World(a, h, q, c, NONE), Shaped(h, q),
         c \in DOMAIN h,
         NEW g, DOMAIN g = DOMAIN h, \A t \in DOMAIN h : SameFields(g, h, t),
         \A t \in DOMAIN h \ {c} : g[t].ucontext = h[t].ucontext,
         g[c].ucontext.thread = c, g[c].ucontext.joined = NONE,
         NEW r, Distinct(r), \A t : Among(r, t) <=> Among(q, t) \/ t = c
  PROVE  World(a, g, r, NONE, NONE)
<1>1. \A t \in DOMAIN h :
        /\ t # NONE /\ (Alive(g, t) <=> Alive(h, t))
        /\ Inside(g, NONE, NONE, t) = Inside(h, c, NONE, t)
  BY DEF Shaped, SameFields, Alive, Inside
<1>2. \A t \in DOMAIN h : Waiting(g, r, NONE, t) <=> Waiting(h, q, c, t)
  BY <1>1 DEF Waiting
<1>3. Indexed(a, g)
  BY <1>1 DEF World, Indexed, SameFields
<1>4. RunnerAlive(g, NONE, NONE)
  BY DEF RunnerAlive
<1>5. QueueReady(g, r, NONE)
  <2> SUFFICES ASSUME NEW t \in DOMAIN h, Among(r, t)
               PROVE  /\ t # NONE /\ Alive(g, t)
                      /\ g[t].ucontext.joined # NONE => ~Alive(g, g[t].ucontext.joined)
    BY DEF QueueReady
  <2>1. CASE t = c
    BY <1>1, <2>1 DEF World, RunnerAlive
  <2>2. CASE t # c
    <3>1. /\ Among(q, t) /\ g[t].ucontext = h[t].ucontext
          /\ h[t].ucontext.joined \in DOMAIN h \cup {NONE}
      BY <2>2 DEF Shaped
    <3> QED
      BY <1>1, <3>1 DEF World, QueueReady
  <2> QED
    BY <2>1, <2>2
<1>6. \A t, u \in DOMAIN h : t # c => (Held(g, t, u) <=> Held(h, t, u))
  BY <1>1 DEF Held, SameFields
<1>7. WaitersHeld(g, r, NONE) /\ JoinedHeld(g, r, NONE)
  <2>1. \A t \in DOMAIN h : Waiting(h, q, c, t) => t # c
    BY DEF Waiting
  <2> QED
    BY <1>1, <1>2, <1>6, <2>1 DEF World, WaitersHeld, JoinedHeld, SameFields
<1>8. Reserved(g, NONE, NONE)
  <2> SUFFICES ASSUME NEW t \in DOMAIN h, Alive(g, t), Inside(g, NONE, NONE, t) # NONE
               PROVE  g[Inside(g, NONE, NONE, t)].enable = 0
    BY DEF Reserved
  <2>1. Inside(h, c, NONE, t) \in DOMAIN h
    BY <1>1 DEF Shaped, Inside
  <2>2. h[Inside(h, c, NONE, t)].enable = 0
    BY <1>1 DEF World, Reserved
  <2> QED
    BY <1>1, <2>1, <2>2 DEF SameFields
<1>9. Single(g, NONE, NONE)
  BY <1>1 DEF World, Single
<1> QED
  BY <1>3, <1>4, <1>5, <1>7, <1>8, <1>9 DEF World

(* wut_join: the running thread is saved, to wait for u.                   *)
LEMMA JoinWorld ==
  ASSUME NEW a, NEW h, NEW q, NEW c, World(a, h, q, c, NONE), Shaped(h, q),
         c \in DOMAIN h, NEW u \in DOMAIN h, u # c, Alive(h, u), h[u].join # 1,
         NEW g, DOMAIN g = DOMAIN h,
         \A t \in DOMAIN h : g[t].id = h[t].id /\ g[t].status = h[t].status,
         \A t \in DOMAIN h \ {u} : /\ g[t].join = h[t].join
                                   /\ g[t].join_from = h[t].join_from
                                   /\ g[t].enable = h[t].enable,
         \A t \in DOMAIN h \ {c} : /\ g[t].block = h[t].block
                                   /\ g[t].join_to = h[t].join_to
                                   /\ g[t].ucontext = h[t].ucontext,
         g[c].block = 1, g[c].join_to = h[u].id,
         g[c].ucontext.thread = c, g[c].ucontext.joined = u,
         g[u].join = 1, g[u].enable = 0, g[u].join_from = h[c].id
  PROVE  World(a, g, q, NONE, NONE)
<1>1. \A t \in DOMAIN h :
        /\ t # NONE /\ (Alive(g, t) <=> Alive(h, t))
        /\ Inside(g, NONE, NONE, t) = IF t = c THEN u ELSE Inside(h, c, NONE, t)
  BY DEF Shaped, Alive, Inside
<1>2. Alive(h, c) /\ ~Among(q, c)
  BY <1>1 DEF World, RunnerAlive, QueueReady
<1>3. \A t \in DOMAIN h : Waiting(g, q, NONE, t) <=> Waiting(h, q, c, t) \/ t = c
  BY <1>1, <1>2 DEF Waiting
<1>4. Indexed(a, g)
  BY <1>1 DEF World, Indexed
<1>5. RunnerAlive(g, NONE, NONE)
  BY DEF RunnerAlive
<1>6. QueueReady(g, q, NONE)
  <2> SUFFICES ASSUME NEW t \in DOMAIN h, Among(q, t)
               PROVE  /\ t # NONE /\ Alive(g, t)
                      /\ g[t].ucontext.joined # NONE => ~Alive(g, g[t].ucontext.joined)
    BY DEF QueueReady
  <2>1. /\ t # c /\ g[t].ucontext = h[t].ucontext
        /\ h[t].ucontext.joined \in DOMAIN h \cup {NONE}
    BY <1>2 DEF Shaped
  <2> QED
    BY <1>1, <2>1 DEF World, QueueReady
<1>7. Held(g, c, u)
  BY <1>1, <1>2 DEF Held
<1>8. \A t, v \in DOMAIN h : t # c /\ v # u => (Held(g, t, v) <=> Held(h, t, v))
  BY <1>1 DEF Held
<1>9. \A t \in DOMAIN h : ~Held(h, t, u)
  BY DEF Held
<1>10. WaitersHeld(g, q, NONE)
  <2> SUFFICES ASSUME NEW t \in DOMAIN h, Waiting(g, q, NONE, t)
               PROVE  \E v \in DOMAIN h : Held(g, t, v)
    BY DEF WaitersHeld
  <2>1. CASE t = c
    BY <1>7, <2>1
  <2>2. CASE t # c
    <3>1. PICK v \in DOMAIN h : Held(h, t, v)
      BY <1>3, <2>2 DEF World, WaitersHeld
    <3> QED
      BY <1>8, <1>9, <2>2, <3>1
  <2> QED
    BY <2>1, <2>2
<1>11. JoinedHeld(g, q, NONE)
  <2> SUFFICES ASSUME NEW v \in DOMAIN h, Alive(g, v),
                      g[v].join = 1 \/ g[v].join_from # NONE
               PROVE  \E t \in DOMAIN h : Waiting(g, q, NONE, t) /\ Held(g, t, v)
    BY DEF JoinedHeld
  <2>1. CASE v = u
    BY <1>3, <1>7, <2>1
  <2>2. CASE v # u
    <3>1. PICK t \in DOMAIN h : Waiting(h, q, c, t) /\ Held(h, t, v)
      BY <1>1, <2>2 DEF World, JoinedHeld
    <3>2. t # c
      BY <3>1 DEF Waiting
    <3> QED
      BY <1>3, <1>8, <2>2, <3>1, <3>2
  <2> QED
    BY <2>1, <2>2
<1>12. Reserved(g, NONE, NONE)
  <2> SUFFICES ASSUME NEW t \in DOMAIN h, Alive(g, t), Inside(g, NONE, NONE, t) # NONE
               PROVE  g[Inside(g, NONE, NONE, t)].enable = 0
    BY DEF Reserved
  <2>1. CASE t = c \/ Inside(h, c, NONE, t) = u
    BY <1>1, <2>1
  <2>2. CASE t # c /\ Inside(h, c, NONE, t) # u
    <3>1. /\ Inside(g, NONE, NONE, t) = Inside(h, c, NONE, t)
          /\ Inside(h, c, NONE, t) \in DOMAIN h
      BY <1>1, <2>2 DEF Shaped, Inside
    <3>2. h[Inside(h, c, NONE, t)].enable = 0
      BY <1>1, <3>1 DEF World, Reserved
    <3> QED
      BY <2>2, <3>1, <3>2
  <2> QED
    BY <2>1, <2>2
<1>13. Single(g, NONE, NONE)
  <2>1. ASSUME NEW t \in DOMAIN h, t # c, Alive(h, t)
        PROVE  Inside(h, c, NONE, t) # u
    <3>1. CASE Among(q, t)
      BY <2>1, <3>1 DEF World, QueueReady, Inside, NONE, Shaped
    <3>2. CASE ~Among(q, t)
      <4>1. PICK v \in DOMAIN h : Held(h, t, v)
        BY <2>1, <3>2 DEF World, WaitersHeld, Waiting
      <4>2. v # u /\ h[t].ucontext.joined = v
        BY <1>9, <4>1 DEF Held
      <4> QED
        BY <2>1, <4>2 DEF Inside
    <3> QED
      BY <3>1, <3>2
  <2> QED
    BY <1>1, <2>1 DEF World, Single
<1> QED
  BY <1>4, <1>5, <1>6, <1>10, <1>11, <1>12, <1>13 DEF World

(* wut_join returns: the slot of the thread it waited for may be reused.    *)
LEMMA ReturnsWorld ==
  ASSUME NEW a, NEW h, NEW q, NEW c, NEW j, World(a, h, q, c, j), Shaped(h, q),
         c \in DOMAIN h, j \in DOMAIN h,
         NEW g, DOMAIN g = DOMAIN h,
         \A t \in DOMAIN h : /\ g[t].id = h[t].id /\ g[t].status = h[t].status
                             /\ g[t].join = h[t].join /\ g[t].join_from = h[t].join_from
                             /\ g[t].join_to = h[t].join_to /\ g[t].block = h[t].block
                             /\ g[t].ucontext = h[t].ucontext,
         \A t \in DOMAIN h \ {j} : g[t].enable = h[t].enable
  PROVE  World(a, g, q, c, NONE)
<1>1. \A t \in DOMAIN h :
        /\ Alive(g, t) <=> Alive(h, t)
        /\ Inside(g, c, NONE, t) = IF t = c THEN NONE ELSE Inside(h, c, j, t)
  BY DEF Alive, Inside
<1>2. \A t \in DOMAIN h : Waiting(g, q, c, t) <=> Waiting(h, q, c, t)
  BY <1>1 DEF Waiting
<1>3. \A t, u \in DOMAIN h : Held(g, t, u) <=> Held(h, t, u)
  BY <1>1 DEF Held
<1>4. Indexed(a, g) /\ RunnerAlive(g, c, NONE)
  BY <1>1 DEF World, Indexed, RunnerAlive
<1>5. QueueReady(g, q, c)
  <2> SUFFICES ASSUME NEW t \in DOMAIN h, Among(q, t)
               PROVE  /\ t # c /\ Alive(g, t)
                      /\ g[t].ucontext.joined # NONE => ~Alive(g, g[t].ucontext.joined)
    BY DEF QueueReady
  <2>1. g[t].ucontext.joined \in DOMAIN h \cup {NONE}
    BY DEF Shaped
  <2> QED
    BY <1>1, <2>1 DEF World, QueueReady
<1>6. WaitersHeld(g, q, c) /\ JoinedHeld(g, q, c)
  BY <1>1, <1>2, <1>3 DEF World, WaitersHeld, JoinedHeld
<1>7. \A t \in DOMAIN h : Alive(h, t) /\ t # c => Inside(h, c, j, t) # j
  <2>1. NONE \notin DOMAIN h /\ Inside(h, c, j, c) = j /\ (c # NONE => Alive(h, c))
    BY DEF Shaped, Inside, World, RunnerAlive
  <2> QED
    BY <2>1 DEF World, Single
<1>8. Reserved(g, c, NONE)
  <2> SUFFICES ASSUME NEW t \in DOMAIN h, Alive(g, t), Inside(g, c, NONE, t) # NONE
               PROVE  g[Inside(g, c, NONE, t)].enable = 0
    BY DEF Reserved
  <2>1. /\ t # c /\ Inside(g, c, NONE, t) = Inside(h, c, j, t)
        /\ Inside(h, c, j, t) \in DOMAIN h \ {j}
    BY <1>1, <1>7 DEF Shaped, Inside
  <2> QED
    BY <1>1, <2>1 DEF World, Reserved
<1>9. Single(g, c, NONE)
  BY <1>1 DEF World, Single
<1> QED
  BY <1>4, <1>5, <1>6, <1>8, <1>9 DEF World

(* wut_exit: the running thread ends, and its joiner goes to the queue.     *)
LEMMA ExitWorld ==
  ASSUME NEW a, NEW h, NEW q, NEW c, World(a, h, q, c, NONE), Shaped(h, q),
         c \in DOMAIN h,
         NEW g, DOMAIN g = DOMAIN h, ~Alive(g, c),
         \A t \in DOMAIN h : g[t].id = h[t].id /\ g[t].ucontext = h[t].ucontext,
         \A t \in DOMAIN h \ {c} : SameFields(g, h, t),
         \A t \in DOMAIN h : g[t].enable = h[t].enable,
         NEW r, Distinct(r),
         \A t : Among(r, t) <=>
                  Among(q, t) \/ (h[c].join = 1 /\ t = a[h[c].join_from])
  PROVE  World(a, g, r, NONE, NONE)
<1> DEFINE w == a[h[c].join_from]
           wakes == h[c].join = 1
<1> HIDE DEF w, wakes
<1>1. \A t \in DOMAIN h :
        /\ t # NONE /\ (Alive(g, t) <=> Alive(h, t) /\ t # c)
        /\ t # c => Inside(g, NONE, NONE, t) = Inside(h, c, NONE, t)
  BY DEF Shaped, Alive, Inside, SameFields
<1>2. Alive(h, c) /\ ~Among(q, c)
  BY <1>1 DEF World, RunnerAlive, QueueReady
<1>3. wakes => w \in DOMAIN h /\ Waiting(h, q, c, w) /\ Held(h, w, c)
  BY <1>2, JoinerOf DEF w, wakes
<1>4. \A t \in DOMAIN h : Waiting(h, q, c, t) /\ Held(h, t, c) => wakes /\ t = w
  BY <1>2, JoinerOf DEF w, wakes, Held
<1>5. \A t : Among(r, t) <=> Among(q, t) \/ (wakes /\ t = w)
  BY DEF w, wakes
<1>6. \A t \in DOMAIN h :
        Waiting(g, r, NONE, t) <=> Waiting(h, q, c, t) /\ ~(wakes /\ t = w)
  BY <1>1, <1>5 DEF Waiting
<1>7. Indexed(a, g)
  BY <1>1 DEF World, Indexed
<1>8. RunnerAlive(g, NONE, NONE)
  BY DEF RunnerAlive
<1>9. QueueReady(g, r, NONE)
  <2> SUFFICES ASSUME NEW t \in DOMAIN h, Among(r, t)
               PROVE  /\ t # NONE /\ Alive(g, t)
                      /\ g[t].ucontext.joined # NONE => ~Alive(g, g[t].ucontext.joined)
    BY DEF QueueReady
  <2>1. h[t].ucontext.joined \in DOMAIN h \cup {NONE} /\ g[t].ucontext = h[t].ucontext
    BY DEF Shaped
  <2>2. CASE Among(q, t)
    BY <1>1, <1>2, <2>1, <2>2 DEF World, QueueReady
  <2>3. CASE wakes /\ t = w
    BY <1>1, <1>3, <2>1, <2>3 DEF Waiting, Held
  <2> QED
    BY <1>5, <2>2, <2>3
<1>10. \A t, u \in DOMAIN h : t # c /\ u # c => (Held(g, t, u) <=> Held(h, t, u))
  BY <1>1 DEF Held, SameFields
<1>11. WaitersHeld(g, r, NONE)
  <2> SUFFICES ASSUME NEW t \in DOMAIN h, Waiting(g, r, NONE, t)
               PROVE  \E u \in DOMAIN h : Held(g, t, u)
    BY DEF WaitersHeld
  <2>1. PICK u \in DOMAIN h : Held(h, t, u)
    BY <1>6 DEF World, WaitersHeld
  <2>2. u # c /\ t # c
    BY <1>4, <1>6, <2>1 DEF Waiting
  <2> QED
    BY <1>10, <2>1, <2>2
<1>12. JoinedHeld(g, r, NONE)
  <2> SUFFICES ASSUME NEW u \in DOMAIN h, Alive(g, u),
                      g[u].join = 1 \/ g[u].join_from # NONE
               PROVE  \E t \in DOMAIN h : Waiting(g, r, NONE, t) /\ Held(g, t, u)
    BY DEF JoinedHeld
  <2>1. u # c /\ Alive(h, u) /\ (h[u].join = 1 \/ h[u].join_from # NONE)
    BY <1>1 DEF SameFields
  <2>2. PICK t \in DOMAIN h : Waiting(h, q, c, t) /\ Held(h, t, u)
    BY <2>1 DEF World, JoinedHeld
  <2>3. t # c /\ ~(wakes /\ t = w)
    BY <1>3, <2>1, <2>2 DEF Waiting, Held
  <2> QED
    BY <1>6, <1>10, <2>1, <2>2, <2>3
<1>13. Reserved(g, NONE, NONE)
  <2> SUFFICES ASSUME NEW t \in DOMAIN h, Alive(g, t), Inside(g, NONE, NONE, t) # NONE
               PROVE  g[Inside(g, NONE, NONE, t)].enable = 0
    BY DEF Reserved
  <2>1. /\ Inside(g, NONE, NONE, t) = Inside(h, c, NONE, t)
        /\ Inside(h, c, NONE, t) \in DOMAIN h /\ Alive(h, t)
    BY <1>1 DEF Shaped, Inside
  <2> QED
    BY <2>1 DEF World, Reserved
<1>14. Single(g, NONE, NONE)
  BY <1>1 DEF World, Single
<1> QED
  BY <1>7, <1>8, <1>9, <1>11, <1>12, <1>13, <1>14 DEF World

(* wut_cancel: t ends, its joiner goes to the queue, and the thread that t  *)
(* itself waits for is no longer joined.                                    *)
LEMMA CancelWorld ==
  ASSUME NEW a, NEW h, NEW q, NEW c, World(a, h, q, c, NONE), Shaped(h, q),
         c \in DOMAIN h, NEW t \in DOMAIN h, t # c, Alive(h, t),
         NEW w, w = a[h[t].join_from],
         h[t].join_from # NONE => h[w].join = 0,
         NEW g, DOMAIN g = DOMAIN h, ~Alive(g, t),
         \A v \in DOMAIN h \ {t} :
           /\ g[v].id = h[v].id /\ g[v].status = h[v].status
           /\ g[v].ucontext = h[v].ucontext /\ g[v].enable = h[v].enable
           /\ ~(h[t].join_from # NONE /\ v = w) => g[v].block = h[v].block /\ g[v].join_to = h[v].join_to
           /\ IF ~Among(q, t) /\ h[t].ucontext.joined = v
              THEN g[v].join # 1 /\ g[v].join_from = NONE
              ELSE g[v].join = h[v].join /\ g[v].join_from = h[v].join_from,
         \A v \in DOMAIN h : g[v].enable = h[v].enable,
         NEW r, Distinct(r),
         \A v : Among(r, v) <=> (Among(q, v) /\ v # t) \/ (h[t].join_from # NONE /\ v = w)
  PROVE  World(a, g, r, c, NONE)
<1> DEFINE wakes == h[t].join_from # NONE
<1>1. \A v \in DOMAIN h :
        /\ v # NONE /\ (Alive(g, v) <=> Alive(h, v) /\ v # t)
        /\ v # t => Inside(g, c, NONE, v) = Inside(h, c, NONE, v)
  BY DEF Shaped, Alive, Inside
<1>2. wakes => w \in DOMAIN h /\ Waiting(h, q, c, w) /\ Held(h, w, t)
  <2>1. wakes => h[t].join = 1 \/ h[t].join_from # NONE
    OBVIOUS
  <2> QED
    BY <2>1, JoinerOf
<1>3. \A v \in DOMAIN h : Waiting(h, q, c, v) /\ Held(h, v, t) => wakes /\ v = w
  BY JoinerOf DEF Held
<1>4. \A v \in DOMAIN h :
        Waiting(g, r, c, v) <=> Waiting(h, q, c, v) /\ v # t /\ ~(wakes /\ v = w)
  BY <1>1 DEF Waiting
<1>5. Indexed(a, g)
  BY <1>1 DEF World, Indexed
<1>6. RunnerAlive(g, c, NONE)
  BY <1>1 DEF World, RunnerAlive
<1>7. QueueReady(g, r, c)
  <2> SUFFICES ASSUME NEW v \in DOMAIN h, Among(r, v)
               PROVE  /\ v # c /\ Alive(g, v)
                      /\ g[v].ucontext.joined # NONE => ~Alive(g, g[v].ucontext.joined)
    BY DEF QueueReady
  <2>1. h[v].ucontext.joined \in DOMAIN h \cup {NONE}
    BY DEF Shaped
  <2>2. CASE Among(q, v) /\ v # t
    BY <1>1, <2>1, <2>2 DEF World, QueueReady
  <2>3. CASE wakes /\ v = w
    <3>1. /\ v # c /\ Alive(h, v) /\ h[v].ucontext.joined = t /\ h[v].join = 0
          /\ h[t].join = 1
      BY <1>2, <2>3 DEF Waiting, Held
    <3>2. v # t
      BY <3>1
    <3> QED
      BY <1>1, <3>1, <3>2
  <2> QED
    BY <2>2, <2>3
<1>8. \A v, u \in DOMAIN h :
        /\ v # t /\ u # t /\ ~(wakes /\ v = w)
        /\ ~(~Among(q, t) /\ h[t].ucontext.joined = u)
        => (Held(g, v, u) <=> Held(h, v, u))
  BY <1>1 DEF Held
<1>9. \A u, v \in DOMAIN h :
        /\ ~Among(q, t) /\ h[t].ucontext.joined = u
        /\ Waiting(h, q, c, v) /\ Held(h, v, u)
        => v = t
  <2> SUFFICES ASSUME NEW u \in DOMAIN h, NEW v \in DOMAIN h,
                      ~Among(q, t), h[t].ucontext.joined = u,
                      Waiting(h, q, c, v), Held(h, v, u)
               PROVE  v = t
    OBVIOUS
  <2>1. Alive(h, v) /\ v # c /\ h[v].ucontext.joined = u /\ u # NONE
    BY <1>1 DEF Waiting, Held
  <2>2. Inside(h, c, NONE, v) = u /\ Inside(h, c, NONE, t) = u
    BY <2>1 DEF Inside
  <2> QED
    BY <2>1, <2>2 DEF World, Single
<1>10. WaitersHeld(g, r, c)
  <2> SUFFICES ASSUME NEW v \in DOMAIN h, Waiting(g, r, c, v)
               PROVE  \E u \in DOMAIN h : Held(g, v, u)
    BY DEF WaitersHeld
  <2>1. Waiting(h, q, c, v) /\ v # t /\ ~(wakes /\ v = w)
    BY <1>4
  <2>2. PICK u \in DOMAIN h : Held(h, v, u)
    BY <2>1 DEF World, WaitersHeld
  <2>3. u # t
    BY <1>3, <2>1, <2>2
  <2>4. ~(~Among(q, t) /\ h[t].ucontext.joined = u)
    BY <1>9, <2>1, <2>2
  <2> QED
    BY <1>8, <2>1, <2>2, <2>3, <2>4
<1>11. JoinedHeld(g, r, c)
  <2> SUFFICES ASSUME NEW u \in DOMAIN h, Alive(g, u),
                      g[u].join = 1 \/ g[u].join_from # NONE
               PROVE  \E v \in DOMAIN h : Waiting(g, r, c, v) /\ Held(g, v, u)
    BY DEF JoinedHeld
  <2>1. u # t /\ Alive(h, u)
    BY <1>1
  <2>2. ~(~Among(q, t) /\ h[t].ucontext.joined = u)
    BY <2>1
  <2>3. h[u].join = 1 \/ h[u].join_from # NONE
    BY <2>1, <2>2
  <2>4. PICK v \in DOMAIN h : Waiting(h, q, c, v) /\ Held(h, v, u)
    BY <2>1, <2>3 DEF World, JoinedHeld
  <2>5. ~(wakes /\ v = w)
    BY <1>2, <2>1, <2>4 DEF Held
  <2>6. v # t
    BY <2>2, <2>4 DEF Waiting, Held
  <2> QED
    BY <1>4, <1>8, <2>1, <2>2, <2>4, <2>5, <2>6
<1>12. Reserved(g, c, NONE)
  <2> SUFFICES ASSUME NEW v \in DOMAIN h, Alive(g, v), Inside(g, c, NONE, v) # NONE
               PROVE  g[Inside(g, c, NONE, v)].enable = 0
    BY DEF Reserved
  <2>1. /\ Inside(g, c, NONE, v) = Inside(h, c, NONE, v) /\ Alive(h, v)
        /\ Inside(h, c, NONE, v) \in DOMAIN h
    BY <1>1 DEF Shaped, Inside
  <2> QED
    BY <2>1 DEF World, Reserved
<1>13. Single(g, c, NONE)
  BY <1>1 DEF World, Single
<1> QED
  BY <1>5, <1>6, <1>7, <1>10, <1>11, <1>12, <1>13 DEF World

(* The heap g has a TCB n that h has not, and b leads to it and to the live *)
(* threads of h.                                                            *)
Added(h, g, b, n) ==
  /\ n \notin DOMAIN h /\ n # NONE
  /\ DOMAIN g = DOMAIN h \cup {n}
  /\ \A t \in DOMAIN h : g[t] = h[t]
  /\ Alive(g, n) /\ g[n].join = 0 /\ g[n].join_from = NONE
  /\ g[n].ucontext.thread = n /\ g[n].ucontext.joined = NONE
  /\ b[g[n].id] = n
  /\ \A t \in DOMAIN h : Alive(h, t) => b[h[t].id] = t

(* wut_create: a new thread n in a slot that no live thread has.            *)
LEMMA CreateWorld ==
  ASSUME NEW a, NEW h, NEW q, NEW c, World(a, h, q, c, NONE), Shaped(h, q),
         c \in DOMAIN h, NEW n, NEW g, NEW b, Added(h, g, b, n),
         NEW r, Distinct(r), \A t : Among(r, t) <=> Among(q, t) \/ t = n
  PROVE  World(b, g, r, c, NONE)
<1> USE DEF Added
<1>1. \A t \in DOMAIN h : /\ t # NONE /\ t # n /\ (Alive(g, t) <=> Alive(h, t))
                          /\ Inside(g, c, NONE, t) = Inside(h, c, NONE, t)
                          /\ Inside(h, c, NONE, t) \in DOMAIN h \cup {NONE}
  BY DEF Shaped, Alive, Inside
<1>2. Inside(g, c, NONE, n) = NONE
  BY DEF Inside
<1>3. \A t \in DOMAIN h : Waiting(g, r, c, t) <=> Waiting(h, q, c, t)
  BY <1>1 DEF Waiting
<1>4. ~Waiting(g, r, c, n)
  BY DEF Waiting
<1>5. \A t, u \in DOMAIN h : Held(g, t, u) <=> Held(h, t, u)
  BY <1>1 DEF Held
<1>6. Indexed(b, g)
  BY <1>1 DEF World, Indexed
<1>7. RunnerAlive(g, c, NONE)
  BY <1>1 DEF World, RunnerAlive
<1>8. QueueReady(g, r, c)
  <2> SUFFICES ASSUME NEW t \in DOMAIN g, Among(r, t)
               PROVE  /\ t # c /\ Alive(g, t)
                      /\ g[t].ucontext.joined # NONE => ~Alive(g, g[t].ucontext.joined)
    BY DEF QueueReady
  <2>1. CASE t = n
    BY <2>1
  <2>2. CASE t # n
    <3>1. t \in DOMAIN h /\ h[t].ucontext.joined \in DOMAIN h \cup {NONE}
      BY <2>2 DEF Shaped
    <3> QED
      BY <1>1, <2>2, <3>1 DEF World, QueueReady
  <2> QED
    BY <2>1, <2>2
<1>9. WaitersHeld(g, r, c)
  BY <1>3, <1>4, <1>5 DEF World, WaitersHeld
<1>10. JoinedHeld(g, r, c)
  <2> SUFFICES ASSUME NEW u \in DOMAIN g, Alive(g, u),
                      g[u].join = 1 \/ g[u].join_from # NONE
               PROVE  \E t \in DOMAIN g : Waiting(g, r, c, t) /\ Held(g, t, u)
    BY DEF JoinedHeld
  <2>1. u \in DOMAIN h
    OBVIOUS
  <2>2. PICK t \in DOMAIN h : Waiting(h, q, c, t) /\ Held(h, t, u)
    BY <1>1, <2>1 DEF World, JoinedHeld
  <2> QED
    BY <1>3, <1>5, <2>1, <2>2
<1>11. Reserved(g, c, NONE)
  BY <1>1, <1>2 DEF World, Reserved
<1>12. Single(g, c, NONE)
  BY <1>1, <1>2 DEF World, Single
<1> QED
  BY <1>6, <1>7, <1>8, <1>9, <1>10, <1>11, <1>12 DEF World

-----------------------------------------------------------------------------
(* The steps that keep the processor or give it away *)

LEMMA ShapeGood ==
  ASSUME IInv, NEW h, GoodHeap(h), NEW q \in Seq(Address)
  PROVE  DOMAIN h = Address /\ Shaped(h, q)
<1>1. DOMAIN h = Address /\ NONE \notin Address
  BY DEF GoodHeap, Address, NONE
<1>2. \A t \in Address : h[t].ucontext.joined \in Address \cup {NONE} /\ h[t].id # NONE
  BY DEF GoodHeap, TCB, Contexts, OptAddress, NULL_CONTEXT, Context, NONE
<1>3. \A t : Among(q, t) => t \in Address
  BY ElementOfSeq, LenProperties DEF Among
<1> QED
  BY <1>1, <1>2, <1>3 DEF Shaped

(* The running process. *)
LEMMA RunningWorld ==
  ASSUME IInv, Waits, process = "running"
  PROVE  /\ Cur = cpu.thread /\ cpu.thread \in Address /\ cpu.joined \in OptAddress
         /\ World(TCB_ARRAY, heap, Q_head, cpu.thread, cpu.joined)
         /\ DOMAIN heap = Address /\ Shaped(heap, Q_head)
         /\ Alive(heap, cpu.thread) /\ ~Queued(Cur)
         /\ heap[Cur].id = CURRENT_RUNNING_THREAD_ID
<1>1. Cur = cpu.thread /\ World(TCB_ARRAY, heap, Q_head, cpu.thread, cpu.joined)
  BY DEF Waits
<1>2. cpu.thread \in Address /\ cpu.joined \in OptAddress
  BY Running
<1>3. DOMAIN heap = Address /\ Shaped(heap, Q_head)
  BY HeapIsGood, ShapeGood DEF IInv, TypeOK
<1>4. Alive(heap, cpu.thread)
  BY <1>1, <1>2 DEF World, RunnerAlive, Address, NONE
<1>5. ~Queued(Cur)
  BY <1>1, <1>2, <1>3 DEF World, QueueReady, Queued, Among
<1>6. heap[Cur].id = CURRENT_RUNNING_THREAD_ID
  BY DEF IInv, SlotsConsistent, LinksLeadToThreads, TypeOK, Cur
<1> QED
  BY <1>1, <1>2, <1>3, <1>4, <1>5, <1>6

(* The first thread of q has got the processor, with the context h has.     *)
Dispatched(h, q) ==
  /\ q # <<>>
  /\ heap' = h /\ Q_head' = Tail(q)
  /\ cpu' = h[Head(q)].ucontext /\ cpu'.thread = Head(q)
  /\ process' = "running"

LEMMA SwitchWaits ==
  ASSUME IInv, process = "running", NEW h, GoodHeap(h), NEW q \in Seq(Address),
         q # <<>>, World(TCB_ARRAY, h, q, NONE, NONE), SwitchTo(h, q)
  PROVE  Waits' /\ process' = "running" /\ Dispatched(h, q)
<1> DEFINE n == Head(q)
<1>1. Among(q, n) /\ n \in Address /\ Distinct(Tail(q))
      /\ \A t : Among(Tail(q), t) <=> Among(q, t) /\ t # n
  BY AmongTail DEF World
<1>2. DOMAIN h = Address /\ Shaped(h, q)
  BY ShapeGood
<1>3. World(TCB_ARRAY, h, Tail(q), n, h[n].ucontext.joined)
  BY <1>1, <1>2, SwitchWorld
<1>4. TCB_ARRAY[h[n].id] = n /\ h[n].ucontext.thread = n
  BY <1>1, <1>2 DEF World, Indexed, QueueReady
<1>5. h[n].ucontext # NULL_CONTEXT
  BY <1>1, <1>4 DEF NULL_CONTEXT, Context, Address, NONE
<1>6. /\ heap' = h /\ Q_head' = Tail(q)
      /\ CURRENT_RUNNING_THREAD_ID' = h[n].id
      /\ cpu' = h[n].ucontext /\ process' = "running"
      /\ UNCHANGED TCB_ARRAY
  BY <1>4, <1>5 DEF SwitchTo
<1> HIDE DEF n
<1>7. Cur' = cpu'.thread
  BY <1>4, <1>6 DEF Cur
<1>8. World(TCB_ARRAY', heap', Q_head', cpu'.thread, cpu'.joined)
  BY <1>3, <1>4, <1>6
<1>9. Dispatched(h, q)
  BY <1>4, <1>6 DEF Dispatched, n
<1> QED
  BY <1>6, <1>7, <1>8, <1>9 DEF Waits

LEMMA YieldWaits ==
  ASSUME IInv, Waits, wut_yield
  PROVE  /\ Waits' /\ process' = "running"
         /\ Dispatched(SaveContext(heap, NONE), YieldQueue)
<1> DEFINE c == cpu.thread
           g == SaveContext(heap, NONE)
<1>1. /\ process = "running" /\ cpu.joined = NONE
      /\ SwitchTo(g, YieldQueue)
  BY DEF wut_yield, Calling
<1>2. /\ Cur = c /\ c \in Address /\ World(TCB_ARRAY, heap, Q_head, c, NONE)
      /\ DOMAIN heap = Address /\ Shaped(heap, Q_head) /\ ~Among(Q_head, c)
  BY <1>1, RunningWorld DEF Queued, Among
<1>3. Q_head \in Seq(Address) /\ GoodHeap(heap)
  BY <1>1, HeapIsGood DEF IInv, TypeOK
<1>4. GoodHeap(g)
  BY <1>1, <1>3, SaveContextGood DEF OptAddress
<1>5. /\ YieldQueue \in Seq(Address) /\ YieldQueue # <<>>
      /\ Distinct(YieldQueue)
      /\ \A t : Among(YieldQueue, t) <=> Among(Q_head, t) \/ t = c
  BY <1>2, <1>3, AmongAppend, AppendProperties DEF YieldQueue, World
<1>6. /\ DOMAIN g = Address
      /\ \A t \in Address : SameFields(g, heap, t)
      /\ \A t \in Address \ {c} : g[t].ucontext = heap[t].ucontext
      /\ g[c].ucontext.thread = c /\ g[c].ucontext.joined = NONE
  BY <1>2, <1>3 DEF SaveContext, GoodHeap, TCB, SameFields, Context
<1> HIDE DEF g, c
<1>7. World(TCB_ARRAY, g, YieldQueue, NONE, NONE)
  BY <1>2, <1>5, <1>6, YieldWorld
<1>8. Waits' /\ process' = "running" /\ Dispatched(g, YieldQueue)
  BY <1>1, <1>4, <1>5, <1>7, SwitchWaits
<1> QED
  BY <1>8 DEF g

LEMMA JoinWaits ==
  ASSUME IInv, Waits, NEW id \in Nat, wut_join(id)
  PROVE  /\ Waits' /\ process' = "running"
         /\ Dispatched(SaveContext(JoinHeap(id), TCB_ARRAY[id]), Q_head)
<1> DEFINE c == cpu.thread
           u == TCB_ARRAY[id]
           g == SaveContext(JoinHeap(id), u)
<1>1. /\ process = "running" /\ cpu.joined = NONE
      /\ id # CURRENT_RUNNING_THREAD_ID /\ id < THREAD_NUM
      /\ u # NONE /\ heap[u].status = NONE /\ heap[u].join # 1
      /\ Q_head # <<>> /\ SwitchTo(g, Q_head)
  BY DEF wut_join, JoinBlocks, Joining, Calling
<1>2. /\ Cur = c /\ c \in Address /\ World(TCB_ARRAY, heap, Q_head, c, NONE)
      /\ DOMAIN heap = Address /\ Shaped(heap, Q_head)
      /\ heap[c].id = CURRENT_RUNNING_THREAD_ID
  BY <1>1, RunningWorld
<1>3. Q_head \in Seq(Address) /\ GoodHeap(heap)
  BY <1>1, HeapIsGood DEF IInv, TypeOK
<1>4. id \in 0..(MAX_THREAD_NUM - 1)
  BY <1>1 DEF IInv, TypeOK, SlotsConsistent
<1>5. u \in Address /\ heap[u].id = id
  BY <1>1, <1>4 DEF IInv, TypeOK, SlotsConsistent, OptAddress
<1>6. u # c
  BY <1>1, <1>2, <1>5
<1>7. GoodHeap(g)
  BY <1>1, <1>4, JoinHeapGood, SaveContextGood DEF IInv, TypeOK
<1> HIDE DEF c, u
<1>8. /\ DOMAIN g = Address
      /\ \A t \in Address : g[t].id = heap[t].id /\ g[t].status = heap[t].status
      /\ \A t \in Address \ {u} : /\ g[t].join = heap[t].join
                                  /\ g[t].join_from = heap[t].join_from
                                  /\ g[t].enable = heap[t].enable
      /\ \A t \in Address \ {c} : /\ g[t].block = heap[t].block
                                  /\ g[t].join_to = heap[t].join_to
                                  /\ g[t].ucontext = heap[t].ucontext
      /\ g[c].block = 1 /\ g[c].join_to = heap[u].id
      /\ g[c].ucontext.thread = c /\ g[c].ucontext.joined = u
      /\ g[u].join = 1 /\ g[u].enable = 0 /\ g[u].join_from = heap[c].id
  <2>1. heap \in [Address -> TCB]
    BY <1>3 DEF GoodHeap
  <2>2. g = [heap EXCEPT ![c].block = 1, ![c].join_to = id,
                         ![u].join = 1, ![u].enable = 0,
                         ![u].join_from = CURRENT_RUNNING_THREAD_ID,
                         ![c].ucontext = Context(c, u)]
    BY <1>2 DEF SaveContext, JoinHeap, c, u
  <2> HIDE DEF g
  <2>3. /\ DOMAIN g = Address
        /\ g[c] = [heap[c] EXCEPT !.block = 1, !.join_to = id,
                                  !.ucontext = Context(c, u)]
        /\ g[u] = [heap[u] EXCEPT !.join = 1, !.enable = 0,
                                  !.join_from = CURRENT_RUNNING_THREAD_ID]
        /\ \A t \in Address \ {c, u} : g[t] = heap[t]
    BY <1>2, <1>5, <1>6, <2>1, <2>2
  <2>4. heap[c] \in TCB /\ heap[u] \in TCB
    BY <1>2, <1>5, <2>1
  <2>5. /\ g[c].id = heap[c].id /\ g[c].status = heap[c].status
        /\ g[c].join = heap[c].join /\ g[c].join_from = heap[c].join_from
        /\ g[c].enable = heap[c].enable
        /\ g[c].block = 1 /\ g[c].join_to = id
        /\ g[c].ucontext.thread = c /\ g[c].ucontext.joined = u
    BY <2>3, <2>4 DEF TCB, Context
  <2>6. /\ g[u].id = heap[u].id /\ g[u].status = heap[u].status
        /\ g[u].block = heap[u].block /\ g[u].join_to = heap[u].join_to
        /\ g[u].ucontext = heap[u].ucontext
        /\ g[u].join = 1 /\ g[u].enable = 0
        /\ g[u].join_from = CURRENT_RUNNING_THREAD_ID
    BY <2>3, <2>4 DEF TCB
  <2> QED
    BY <1>2, <1>5, <2>3, <2>5, <2>6
<1> HIDE DEF g
<1>9. World(TCB_ARRAY, g, Q_head, NONE, NONE)
  <2>1. Alive(heap, u) /\ heap[u].join # 1
    BY <1>1 DEF Alive, u
  <2> QED
    BY <1>2, <1>5, <1>6, <1>8, <2>1, JoinWorld
<1>10. Waits' /\ process' = "running" /\ Dispatched(g, Q_head)
  BY <1>1, <1>3, <1>7, <1>9, SwitchWaits
<1> QED
  BY <1>10 DEF g, u

LEMMA ReturnsWaits ==
  ASSUME IInv, Waits, wut_join_returns
  PROVE  Waits' /\ process' = "running"
<1> DEFINE c == cpu.thread
           j == cpu.joined
<1>1. /\ process = "running" /\ j # NONE
      /\ heap' = [heap EXCEPT ![j].enable = 1]
      /\ cpu' = [cpu EXCEPT !.joined = NONE]
      /\ UNCHANGED <<TCB_ARRAY, CURRENT_RUNNING_THREAD_ID, Q_head, process>>
  BY DEF wut_join_returns
<1>2. /\ Cur = c /\ c \in Address /\ j \in Address
      /\ World(TCB_ARRAY, heap, Q_head, c, j)
      /\ DOMAIN heap = Address /\ Shaped(heap, Q_head)
  BY <1>1, RunningWorld DEF OptAddress
<1>3. heap \in [Address -> TCB]
  BY DEF IInv, TypeOK
<1>4. cpu'.thread = c /\ cpu'.joined = NONE
  BY <1>1, Running
<1> HIDE DEF c, j
<1>5. /\ DOMAIN heap' = Address
      /\ \A t \in Address :
           /\ heap'[t].id = heap[t].id /\ heap'[t].status = heap[t].status
           /\ heap'[t].join = heap[t].join /\ heap'[t].join_from = heap[t].join_from
           /\ heap'[t].join_to = heap[t].join_to /\ heap'[t].block = heap[t].block
           /\ heap'[t].ucontext = heap[t].ucontext
      /\ \A t \in Address \ {j} : heap'[t].enable = heap[t].enable
  BY <1>1, <1>2, <1>3 DEF TCB
<1> DEFINE g == heap'
<1>6. World(TCB_ARRAY, g, Q_head, c, NONE)
  <2> HIDE DEF g
  <2>1. /\ DOMAIN g = Address
        /\ \A t \in Address :
             /\ g[t].id = heap[t].id /\ g[t].status = heap[t].status
             /\ g[t].join = heap[t].join /\ g[t].join_from = heap[t].join_from
             /\ g[t].join_to = heap[t].join_to /\ g[t].block = heap[t].block
             /\ g[t].ucontext = heap[t].ucontext
        /\ \A t \in Address \ {j} : g[t].enable = heap[t].enable
    BY <1>5 DEF g
  <2> QED
    BY <1>2, <2>1, ReturnsWorld
<1>7. Cur' = c
  BY <1>1, <1>2 DEF Cur
<1> QED
  BY <1>1, <1>4, <1>6, <1>7 DEF Waits

LEMMA ExitWaits ==
  ASSUME ConstantsAssumption, IInv, Waits, process = "running", cpu.joined = NONE,
         NEW arg \in Int, NEW onOwnStack, wut_exit(arg, onOwnStack)
  PROVE  /\ Waits' /\ process' \notin {"corrupt_queue", "crash_null_context"}
         /\ \/ Dispatched(ExitHeap(arg), ExitQueue)
            \/ exit_last(arg, onOwnStack)
<1> DEFINE c == cpu.thread
           g == ExitHeap(arg)
           w == TCB_ARRAY[heap[c].join_from]
<1>1. /\ Cur = c /\ c \in Address /\ World(TCB_ARRAY, heap, Q_head, c, NONE)
      /\ DOMAIN heap = Address /\ Shaped(heap, Q_head) /\ Alive(heap, c)
  BY RunningWorld
<1>2. Q_head \in Seq(Address) /\ GoodHeap(heap) /\ GoodHeap(g)
  BY HeapIsGood, ExitHeapGood DEF IInv, TypeOK
<1>3. heap[c].join = 1 => /\ w \in Address /\ Joiner(Cur) = w
                          /\ ~Among(Q_head, w)
  BY <1>1, JoinerOf DEF Joiner, Waiting
<1>4. /\ ExitQueue \in Seq(Address) /\ Distinct(ExitQueue)
      /\ \A t : Among(ExitQueue, t) <=> Among(Q_head, t) \/ (heap[c].join = 1 /\ t = w)
  <2> HIDE DEF w
  <2>1. CASE heap[c].join = 1
    BY <1>1, <1>2, <1>3, <2>1, AmongAppend, AppendProperties
       DEF ExitQueue, ExitWakes, World
  <2>2. CASE heap[c].join # 1
    BY <1>1, <1>2, <2>2 DEF ExitQueue, ExitWakes, World
  <2> QED
    BY <2>1, <2>2
<1>5. ExitStatus(arg) \in 0..255 /\ ExitStatus(arg) # NONE
  BY <1>1 DEF ExitStatus, Alive, NONE
<1> HIDE DEF w, c
<1>6. /\ DOMAIN g = Address /\ ~Alive(g, c)
      /\ \A t \in Address : g[t].id = heap[t].id /\ g[t].ucontext = heap[t].ucontext
      /\ \A t \in Address \ {c} : SameFields(g, heap, t)
      /\ \A t \in Address : g[t].enable = heap[t].enable
  <2>1. heap \in [Address -> TCB]
    BY <1>2 DEF GoodHeap
  <2> DEFINE h == [heap EXCEPT ![c].status = ExitStatus(arg)]
  <2>2. g = IF heap[c].join = 1 THEN [h EXCEPT ![c].join = 0, ![c].join_from = NONE] ELSE h
    BY <1>1 DEF ExitHeap, ExitWakes
  <2> HIDE DEF g
  <2>3. DOMAIN g = Address /\ \A t \in Address \ {c} : g[t] = heap[t]
    BY <1>1, <2>1, <2>2
  <2>4. /\ g[c].id = heap[c].id /\ g[c].ucontext = heap[c].ucontext
        /\ g[c].enable = heap[c].enable /\ g[c].status = ExitStatus(arg)
    BY <1>1, <2>1, <2>2 DEF TCB
  <2> QED
    BY <1>5, <2>3, <2>4 DEF Alive, SameFields
<1> HIDE DEF g
<1>7. World(TCB_ARRAY, g, ExitQueue, NONE, NONE)
  BY <1>1, <1>4, <1>6, ExitWorld DEF w
<1>8. CASE exit_switches(arg)
  <2>1. ExitQueue # <<>> /\ SwitchTo(g, ExitQueue)
    BY <1>8 DEF exit_switches, g
  <2>2. Waits' /\ process' = "running" /\ Dispatched(g, ExitQueue)
    BY <1>2, <1>4, <1>7, <2>1, SwitchWaits
  <2> QED
    BY <2>2 DEF g
<1>9. ~exit_corrupts
  BY <1>1, <1>3 DEF exit_corrupts, ExitWakes, Queued, Among
<1>10. CASE exit_last(arg, onOwnStack)
  BY <1>10 DEF exit_last, Waits
<1> QED
  BY <1>8, <1>9, <1>10 DEF wut_exit

(* The thread that a careful client cancels, its joiner and the queue.      *)
LEMMA CancelFacts ==
  ASSUME CarefulCancel, IInv, Waits, NEW id \in Nat, Cancelling(id),
         NEW t, t = TCB_ARRAY[id], NEW w, w = TCB_ARRAY[heap[t].join_from],
         NEW c, c = cpu.thread
  PROVE  /\ t \in Address /\ t # c /\ Alive(heap, t)
         /\ heap[t].join_from # NONE =>
              /\ w \in Address /\ w # t /\ heap[w].join = 0
              /\ Waiting(heap, Q_head, c, w) /\ Held(heap, w, t)
         /\ heap[t].block = 1 => Waiting(heap, Q_head, c, t)
         /\ heap[t].block = 0 => Among(Q_head, t)
         /\ ~CancelFreesLinked(t)
         /\ CancelQueue(t) \in Seq(Address) /\ Distinct(CancelQueue(t))
         /\ \A v : Among(CancelQueue(t), v) <=>
                     Among(Q_head, v) \/ (heap[t].join_from # NONE /\ v = w)
<1>1. /\ process = "running" /\ id # CURRENT_RUNNING_THREAD_ID
      /\ id < MAX_THREAD_NUM /\ t # NONE /\ CancelIsSafe(t)
  BY DEF Cancelling, Calling
<1>2. /\ World(TCB_ARRAY, heap, Q_head, c, cpu.joined)
      /\ DOMAIN heap = Address /\ Shaped(heap, Q_head) /\ c \in Address
      /\ heap[c].id = CURRENT_RUNNING_THREAD_ID
  BY <1>1, RunningWorld
<1>3. t \in Address /\ Alive(heap, t) /\ CancelQueue(t) \in Seq(Address)
  BY CancelTarget DEF Alive
<1>4. heap[t].id = id
  BY <1>1 DEF IInv, TypeOK, SlotsConsistent
<1>5. t # c
  BY <1>1, <1>2, <1>4
<1>6. heap[t].join_from # NONE =>
        /\ w \in Address /\ w # t /\ heap[w].join = 0
        /\ Waiting(heap, Q_head, c, w) /\ Held(heap, w, t)
  <2> SUFFICES ASSUME heap[t].join_from # NONE
               PROVE  /\ w \in Address /\ w # t /\ heap[w].join = 0
                      /\ Waiting(heap, Q_head, c, w) /\ Held(heap, w, t)
    OBVIOUS
  <2>1. /\ w \in Address /\ heap[t].join = 1
        /\ Waiting(heap, Q_head, c, w) /\ Held(heap, w, t)
    BY <1>2, <1>3, JoinerOf
  <2>2. heap[w].join = 0
    BY <1>1 DEF CancelIsSafe
  <2> QED
    BY <2>1, <2>2
<1>7. heap[t].block = 1 => Waiting(heap, Q_head, c, t)
  BY <1>1, <1>3, <1>5 DEF CancelIsSafe, Queued, Among, Waiting
<1>8. heap[t].block = 0 => Among(Q_head, t)
  BY <1>2, <1>3, <1>5 DEF Waiting, World, WaitersHeld, Held
<1>9. ~CancelFreesLinked(t)
  BY <1>6 DEF CancelFreesLinked, HasJoiner, Joiner, Queued, Waiting, Among
<1>10. /\ Distinct(CancelQueue(t))
       /\ \A v : Among(CancelQueue(t), v) <=>
                   Among(Q_head, v) \/ (heap[t].join_from # NONE /\ v = w)
  <2>1. Q_head \in Seq(Address) /\ Distinct(Q_head)
    BY <1>2 DEF World, IInv, TypeOK
  <2>2. CASE heap[t].join_from # NONE
    <3>1. CancelQueue(t) = Append(Q_head, w) /\ w \in Address /\ ~Among(Q_head, w)
      BY <1>6, <2>2 DEF CancelQueue, HasJoiner, Joiner, Waiting
    <3> QED
      BY <2>1, <2>2, <3>1, AmongAppend
  <2>3. CASE heap[t].join_from = NONE
    BY <2>1, <2>3 DEF CancelQueue, HasJoiner
  <2> QED
    BY <2>2, <2>3
<1> QED
  BY <1>3, <1>5, <1>6, <1>7, <1>8, <1>9, <1>10

(* h has the TCBs that CancelWake leaves: t ends, and w is woken.           *)
WakeTCBs(t, w, wakes, h) ==
  /\ DOMAIN h = Address
  /\ h[t] = [heap[t] EXCEPT !.status = 128]
  /\ wakes => h[w] = [heap[w] EXCEPT !.join = 0, !.join_to = NONE, !.block = 0]
  /\ \A v \in Address \ {t} : ~(wakes /\ v = w) => h[v] = heap[v]

LEMMA WakeEntries ==
  ASSUME IInv, NEW t \in Address, HasJoiner(t) => Joiner(t) \in Address \ {t}
  PROVE  WakeTCBs(t, Joiner(t), HasJoiner(t), CancelWake(t))
<1> DEFINE k == [heap EXCEPT ![t].status = 128]
           w == Joiner(t)
           h == CancelWake(t)
<1>1. DOMAIN heap = Address
  BY DEF IInv, TypeOK
<1>2. /\ DOMAIN k = Address /\ k[t] = [heap[t] EXCEPT !.status = 128]
      /\ \A v \in Address \ {t} : k[v] = heap[v]
  BY <1>1
<1>3. h = IF HasJoiner(t)
          THEN [k EXCEPT ![w].join = 0, ![w].join_to = NONE, ![w].block = 0]
          ELSE k
  BY DEF CancelWake
<1> HIDE DEF k, w, h
<1>4. CASE HasJoiner(t)
  <2>1. w \in Address \ {t}
    BY <1>4 DEF w
  <2>2. h = [k EXCEPT ![w].join = 0, ![w].join_to = NONE, ![w].block = 0]
    BY <1>3, <1>4
  <2>3. /\ DOMAIN h = Address /\ \A v \in Address \ {w} : h[v] = k[v]
        /\ h[w] = [k[w] EXCEPT !.join = 0, !.join_to = NONE, !.block = 0]
    BY <1>2, <2>1, <2>2
  <2>4. WakeTCBs(t, w, TRUE, h)
    BY <1>2, <2>1, <2>3 DEF WakeTCBs
  <2> QED
    BY <1>4, <2>4 DEF w, h, WakeTCBs
<1>5. CASE ~HasJoiner(t)
  BY <1>2, <1>3, <1>5 DEF WakeTCBs, h
<1> QED
  BY <1>4, <1>5

LEMMA CancelBlockedWaits ==
  ASSUME CarefulCancel, IInv, Waits, NEW id \in Nat, cancel_blocked(id)
  PROVE  Waits' /\ process' = "running"
<1> DEFINE t == TCB_ARRAY[id]
           w == TCB_ARRAY[heap[t].join_from]
           c == cpu.thread
<1>1. /\ Cancelling(id) /\ process = "running" /\ cpu.joined = NONE
      /\ heap[t].block = 1
      /\ heap' = Unjoin([CancelWake(t) EXCEPT ![t].block = 0],
                        TCB_ARRAY[heap[t].join_to])
      /\ Q_head' = CancelQueue(t)
      /\ UNCHANGED <<TCB_ARRAY, CURRENT_RUNNING_THREAD_ID, cpu, process>>
  BY DEF cancel_blocked, Cancelling, Calling
<1>2. /\ Cur = c /\ c \in Address /\ World(TCB_ARRAY, heap, Q_head, c, NONE)
      /\ DOMAIN heap = Address /\ Shaped(heap, Q_head)
  BY <1>1, RunningWorld
<1>3. heap \in [Address -> TCB]
  BY DEF IInv, TypeOK
<1> HIDE DEF c
<1>4. /\ t \in Address /\ t # c /\ Alive(heap, t)
      /\ heap[t].join_from # NONE =>
           /\ w \in Address /\ w # t /\ heap[w].join = 0
           /\ Waiting(heap, Q_head, c, w) /\ Held(heap, w, t)
      /\ Waiting(heap, Q_head, c, t)
      /\ Distinct(CancelQueue(t))
      /\ \A v : Among(CancelQueue(t), v) <=>
                  Among(Q_head, v) \/ (heap[t].join_from # NONE /\ v = w)
  <2> HIDE DEF t, w
  <2>1. Cancelling(id) /\ heap[t].block = 1 /\ t = TCB_ARRAY[id]
        /\ w = TCB_ARRAY[heap[t].join_from] /\ c = cpu.thread
    BY <1>1 DEF t, w, c
  <2> QED
    BY <2>1, CancelFacts
<1> DEFINE wakes == heap[t].join_from # NONE
<1>5. w = Joiner(t) /\ (wakes <=> HasJoiner(t))
  BY DEF Joiner, HasJoiner
<1>6. PICK u \in Address : Held(heap, t, u)
  BY <1>2, <1>4 DEF World, WaitersHeld
<1>7. TCB_ARRAY[heap[t].join_to] = u
  BY <1>2, <1>6 DEF World, Indexed, Held
<1>8. u # t /\ (wakes => u # w)
  <2>1. u = t => wakes /\ w = t
    BY <1>2, <1>4, <1>6, JoinerOf DEF Held
  <2>2. wakes => u # w
    BY <1>4, <1>6 DEF Held
  <2> QED
    BY <1>4, <2>1, <2>2
<1> HIDE DEF t, w, wakes
<1> DEFINE g == heap'
<1>9. /\ DOMAIN g = Address
      /\ g[t] = [heap[t] EXCEPT !.status = 128, !.block = 0]
      /\ g[u] = [heap[u] EXCEPT !.join_from = NONE, !.join = 0]
      /\ wakes => g[w] = [heap[w] EXCEPT !.join = 0, !.join_to = NONE, !.block = 0]
      /\ \A v \in Address \ {t, u} : ~(wakes /\ v = w) => g[v] = heap[v]
  <2> DEFINE h == CancelWake(t)
  <2>1. t \in Address /\ (wakes => w \in Address /\ w # t)
    BY <1>4 DEF t, w, wakes
  <2>2. WakeTCBs(t, w, wakes, h)
    <3>1. WakeTCBs(t, Joiner(t), HasJoiner(t), CancelWake(t))
      BY <1>5, <2>1, WakeEntries
    <3> QED
      BY <1>5, <3>1 DEF WakeTCBs
  <2>3. g = Unjoin([h EXCEPT ![t].block = 0], u)
    BY <1>1, <1>7 DEF t
  <2> HIDE DEF h, g
  <2>4. /\ DOMAIN g = Address
        /\ g[t] = [h[t] EXCEPT !.block = 0]
        /\ g[u] = [h[u] EXCEPT !.join_from = NONE, !.join = 0]
        /\ \A v \in Address \ {t, u} : g[v] = h[v]
    BY <1>8, <2>1, <2>2, <2>3 DEF Unjoin, WakeTCBs
  <2> QED
    BY <1>8, <2>1, <2>2, <2>4 DEF WakeTCBs
<1> HIDE DEF g
<1>10. /\ DOMAIN g = Address /\ ~Alive(g, t)
       /\ \A v \in Address \ {t} :
            /\ g[v].id = heap[v].id /\ g[v].status = heap[v].status
            /\ g[v].ucontext = heap[v].ucontext /\ g[v].enable = heap[v].enable
            /\ ~(wakes /\ v = w) => g[v].block = heap[v].block /\ g[v].join_to = heap[v].join_to
            /\ IF v = u
               THEN g[v].join # 1 /\ g[v].join_from = NONE
               ELSE g[v].join = heap[v].join /\ g[v].join_from = heap[v].join_from
       /\ g[t].enable = heap[t].enable
  <2>1. \A v \in Address : heap[v] \in TCB
    BY <1>3
  <2>2. g[t].status = 128 /\ g[t].enable = heap[t].enable
    <3>1. t \in Address /\ heap[t] \in TCB
      BY <1>4, <2>1 DEF t
    <3> QED
      BY <1>9, <3>1 DEF TCB
  <2>3. \A v \in Address \ {t} :
          IF v = u THEN g[v] = [heap[v] EXCEPT !.join_from = NONE, !.join = 0]
          ELSE IF wakes /\ v = w
               THEN g[v] = [heap[v] EXCEPT !.join = 0, !.join_to = NONE, !.block = 0]
          ELSE g[v] = heap[v]
    BY <1>8, <1>9
  <2>4. wakes => heap[w].join = 0
    BY <1>4 DEF wakes, w, t
  <2>5. ASSUME NEW v \in Address \ {t}
        PROVE  /\ g[v].id = heap[v].id /\ g[v].status = heap[v].status
               /\ g[v].ucontext = heap[v].ucontext /\ g[v].enable = heap[v].enable
               /\ ~(wakes /\ v = w) => g[v].block = heap[v].block /\ g[v].join_to = heap[v].join_to
               /\ IF v = u
                  THEN g[v].join # 1 /\ g[v].join_from = NONE
                  ELSE g[v].join = heap[v].join /\ g[v].join_from = heap[v].join_from
    <3>1. heap[v] \in TCB
      BY <2>1
    <3>2. CASE v = u
      <4>1. g[v] = [heap[v] EXCEPT !.join_from = NONE, !.join = 0]
        BY <2>3, <3>2
      <4> QED
        BY <3>1, <3>2, <4>1 DEF TCB
    <3>3. CASE v # u /\ wakes /\ v = w
      <4>1. g[v] = [heap[v] EXCEPT !.join = 0, !.join_to = NONE, !.block = 0]
        BY <2>3, <3>3
      <4>2. heap[v].join = 0
        BY <2>4, <3>3
      <4> QED
        BY <3>1, <3>3, <4>1, <4>2 DEF TCB
    <3>4. CASE v # u /\ ~(wakes /\ v = w)
      BY <2>3, <3>4
    <3> QED
      BY <3>2, <3>3, <3>4
  <2> QED
    BY <1>9, <2>2, <2>5 DEF Alive, NONE
<1>11. ~Among(Q_head, t) /\ heap[t].ucontext.joined = u
  BY <1>4, <1>6 DEF Waiting, Held, t
<1>12. ~Among(Q_head, t) /\ \A v : Among(CancelQueue(t), v) <=>
         (Among(Q_head, v) /\ v # t) \/ (wakes /\ v = w)
  BY <1>4, <1>11 DEF t, w, wakes
<1>13. World(TCB_ARRAY, g, CancelQueue(t), c, NONE)
  <2>1. /\ t \in Address /\ t # c /\ Alive(heap, t) /\ Distinct(CancelQueue(t))
        /\ w = TCB_ARRAY[heap[t].join_from]
        /\ wakes => heap[w].join = 0
    BY <1>4 DEF t, w, wakes
  <2> QED
    BY <1>2, <1>10, <1>11, <1>12, <2>1, CancelWorld DEF wakes
<1>14. Cur' = c /\ cpu' = cpu
  BY <1>1, <1>2 DEF Cur
<1> QED
  BY <1>1, <1>13, <1>14 DEF Waits, g, t, c

LEMMA CancelReadyWaits ==
  ASSUME CarefulCancel, IInv, Waits, NEW id \in Nat, cancel_ready(id)
  PROVE  Waits' /\ process' = "running"
<1> DEFINE t == TCB_ARRAY[id]
           w == TCB_ARRAY[heap[t].join_from]
           c == cpu.thread
<1>1. /\ Cancelling(id) /\ process = "running" /\ cpu.joined = NONE
      /\ heap[t].block = 0
      /\ heap' = [CancelWake(t) EXCEPT ![t].ucontext = NULL_CONTEXT]
      /\ UNCHANGED <<TCB_ARRAY, CURRENT_RUNNING_THREAD_ID, cpu, process>>
  BY DEF cancel_ready, Cancelling, Calling
<1>2. PICK k \in 1..Len(Q_head) : Q_head[k] = t /\ Q_head' = RemoveAt(CancelQueue(t), k)
  BY DEF cancel_ready, WithoutNode
<1>3. /\ Cur = c /\ c \in Address /\ World(TCB_ARRAY, heap, Q_head, c, NONE)
      /\ DOMAIN heap = Address /\ Shaped(heap, Q_head)
  BY <1>1, RunningWorld
<1>4. heap \in [Address -> TCB] /\ Q_head \in Seq(Address)
  BY DEF IInv, TypeOK
<1> HIDE DEF c
<1>5. /\ t \in Address /\ t # c /\ Alive(heap, t)
      /\ heap[t].join_from # NONE =>
           /\ w \in Address /\ w # t /\ heap[w].join = 0
           /\ Waiting(heap, Q_head, c, w) /\ Held(heap, w, t)
      /\ Among(Q_head, t)
      /\ CancelQueue(t) \in Seq(Address) /\ Distinct(CancelQueue(t))
      /\ \A v : Among(CancelQueue(t), v) <=>
                  Among(Q_head, v) \/ (heap[t].join_from # NONE /\ v = w)
  BY <1>1, CancelFacts DEF c
<1> DEFINE wakes == heap[t].join_from # NONE
<1>6. w = Joiner(t) /\ (wakes <=> HasJoiner(t))
  BY DEF Joiner, HasJoiner
<1>7. k \in 1..Len(CancelQueue(t)) /\ CancelQueue(t)[k] = t
  <2>1. CASE wakes
    <3>1. CancelQueue(t) = Append(Q_head, w) /\ w \in Address
      BY <1>5, <1>6, <2>1 DEF CancelQueue
    <3> HIDE DEF t, w
    <3> QED
      BY <1>2, <1>4, <3>1
  <2>2. CASE ~wakes
    BY <1>2, <1>6, <2>2 DEF CancelQueue
  <2> QED
    BY <2>1, <2>2
<1>8. /\ Distinct(Q_head')
      /\ \A v : Among(Q_head', v) <=>
                  (Among(Q_head, v) /\ v # t) \/ (wakes /\ v = w)
  BY <1>2, <1>5, <1>7, AmongRemoved
<1> HIDE DEF t, w, wakes
<1> DEFINE g == heap'
<1>9. /\ DOMAIN g = Address /\ ~Alive(g, t)
      /\ \A v \in Address \ {t} :
           /\ g[v].id = heap[v].id /\ g[v].status = heap[v].status
           /\ g[v].ucontext = heap[v].ucontext /\ g[v].enable = heap[v].enable
           /\ ~(wakes /\ v = w) => g[v].block = heap[v].block /\ g[v].join_to = heap[v].join_to
           /\ g[v].join = heap[v].join /\ g[v].join_from = heap[v].join_from
      /\ g[t].enable = heap[t].enable
  <2>1. \A v \in Address : heap[v] \in TCB
    BY <1>4
  <2> DEFINE h == CancelWake(t)
  <2>2. t \in Address /\ (wakes => w \in Address /\ w # t)
    BY <1>5 DEF t, w, wakes
  <2>3. WakeTCBs(t, w, wakes, h)
    <3>1. WakeTCBs(t, Joiner(t), HasJoiner(t), CancelWake(t))
      BY <1>6, <2>2, WakeEntries
    <3> QED
      BY <1>6, <3>1 DEF WakeTCBs
  <2>4. g = [h EXCEPT ![t].ucontext = NULL_CONTEXT]
    BY <1>1 DEF t
  <2> HIDE DEF h, g
  <2>7. /\ DOMAIN g = Address /\ \A v \in Address \ {t} : g[v] = h[v]
        /\ g[t] = [h[t] EXCEPT !.ucontext = NULL_CONTEXT]
    BY <2>2, <2>3, <2>4 DEF WakeTCBs
  <2>8. g[t].status = 128 /\ g[t].enable = heap[t].enable
    <3>1. heap[t] \in TCB
      BY <2>1, <2>2
    <3> QED
      BY <2>3, <2>7, <3>1 DEF TCB, WakeTCBs
  <2>5. wakes => heap[w].join = 0
    BY <1>5 DEF wakes, w, t
  <2>6. ASSUME NEW v \in Address \ {t}
        PROVE  /\ g[v].id = heap[v].id /\ g[v].status = heap[v].status
               /\ g[v].ucontext = heap[v].ucontext /\ g[v].enable = heap[v].enable
               /\ ~(wakes /\ v = w) => g[v].block = heap[v].block /\ g[v].join_to = heap[v].join_to
               /\ g[v].join = heap[v].join /\ g[v].join_from = heap[v].join_from
    <3>1. heap[v] \in TCB
      BY <2>1
    <3>2. CASE wakes /\ v = w
      <4>1. g[v] = [heap[v] EXCEPT !.join = 0, !.join_to = NONE, !.block = 0]
        BY <2>3, <2>7, <3>2 DEF WakeTCBs
      <4>2. heap[v].join = 0
        BY <2>5, <3>2
      <4> QED
        BY <3>1, <3>2, <4>1, <4>2 DEF TCB
    <3>3. CASE ~(wakes /\ v = w)
      BY <2>3, <2>7, <3>3 DEF WakeTCBs
    <3> QED
      BY <3>2, <3>3
  <2> QED
    BY <2>6, <2>7, <2>8 DEF Alive, NONE
<1> DEFINE r == Q_head'
<1> HIDE DEF g
<1>10. World(TCB_ARRAY, g, r, c, NONE)
  <2>1. /\ t \in Address /\ t # c /\ Alive(heap, t) /\ Among(Q_head, t)
        /\ w = TCB_ARRAY[heap[t].join_from]
        /\ wakes => heap[w].join = 0
    BY <1>5 DEF t, w, wakes
  <2>2. Distinct(r) /\ \A v : Among(r, v) <=>
                         (Among(Q_head, v) /\ v # t) \/ (wakes /\ v = w)
    BY <1>8
  <2> HIDE DEF r
  <2> QED
    BY <1>3, <1>9, <2>1, <2>2, CancelWorld DEF wakes
<1>11. Cur' = c /\ cpu' = cpu
  BY <1>1, <1>3 DEF Cur
<1> QED
  BY <1>1, <1>10, <1>11 DEF Waits, g, c

LEMMA CreateWaits ==
  ASSUME IInv, Waits, wut_create
  PROVE  Waits' /\ process' = "running"
<1> DEFINE c == cpu.thread
           n == THREAD_NUM
           g == heap'
           b == TCB_ARRAY'
           r == Append(Q_head, n)
<1>1. /\ process = "running" /\ cpu.joined = NONE
      /\ Q_head' = r
      /\ UNCHANGED <<CURRENT_RUNNING_THREAD_ID, cpu, process>>
  BY DEF wut_create, Calling
<1>2. PICK slot \in 0..(NewMax - 1) :
        /\ FirstFree(slot)
        /\ b = [Resized EXCEPT ![slot] = n]
        /\ g = [t \in 0..n |-> IF t = n THEN NewTCB(slot, t, TRUE) ELSE heap[t]]
  BY DEF wut_create
<1>3. /\ Cur = c /\ c \in Address /\ World(TCB_ARRAY, heap, Q_head, c, NONE)
      /\ DOMAIN heap = Address /\ Shaped(heap, Q_head) /\ Alive(heap, c)
      /\ heap[c].id = CURRENT_RUNNING_THREAD_ID
  BY <1>1, RunningWorld
<1>4. /\ heap \in [Address -> TCB] /\ Q_head \in Seq(Address)
      /\ n \in Nat \ {0} /\ MAX_THREAD_NUM \in Nat \ {0}
  BY DEF IInv, TypeOK
<1>5. Address = 0..(n - 1) /\ n \notin Address /\ n # NONE
      /\ 0..n = Address \cup {n}
  BY <1>4 DEF Address, NONE
<1> HIDE DEF c, n, g, b
<1>6. /\ DOMAIN g = Address \cup {n}
      /\ \A t \in Address : g[t] = heap[t]
      /\ g[n] = NewTCB(slot, n, TRUE)
  BY <1>2, <1>5
<1>7. /\ Alive(g, n) /\ g[n].join = 0 /\ g[n].join_from = NONE /\ g[n].id = slot
      /\ g[n].ucontext.thread = n /\ g[n].ucontext.joined = NONE
  BY <1>6 DEF NewTCB, Context, Alive
<1>8. /\ Resized \in [0..(NewMax - 1) -> OptAddress]
      /\ \A i \in 0..(MAX_THREAD_NUM - 1) :
           i \in 0..(NewMax - 1) /\ Resized[i] = TCB_ARRAY[i]
  BY <1>1, ResizedArray
<1>9. b[slot] = n
  BY <1>2, <1>8
<1>10. \A t \in Address : Alive(heap, t) => b[heap[t].id] = t
  <2> SUFFICES ASSUME NEW t \in Address, Alive(heap, t)
               PROVE  b[heap[t].id] = t
    OBVIOUS
  <2>1. TCB_ARRAY[heap[t].id] = t /\ heap[t].id \in 0..(MAX_THREAD_NUM - 1)
    BY <1>3, <1>4 DEF World, Indexed, TCB
  <2>2. Resized[heap[t].id] = t /\ heap[t].id \in 0..(NewMax - 1) /\ t # NONE
    BY <1>3, <1>8, <2>1 DEF Shaped
  <2>3. heap[t].id # slot
    BY <1>2, <2>2 DEF FirstFree, SlotFree, Alive
  <2> QED
    BY <1>2, <1>8, <2>2, <2>3
<1>11. Distinct(r) /\ \A t : Among(r, t) <=> Among(Q_head, t) \/ t = n
  <2>1. Q_head \in Seq(Address \cup {n}) /\ n \in Address \cup {n}
    BY <1>4, SeqMonotonic
  <2>2. ~Among(Q_head, n)
    BY <1>3, <1>5 DEF Shaped
  <2> QED
    BY <1>3, <2>1, <2>2, AmongAppend DEF World
<1> HIDE DEF r
<1>12. World(b, g, r, c, NONE)
  <2>1. Added(heap, g, b, n)
    BY <1>3, <1>5, <1>6, <1>7, <1>9, <1>10 DEF Added
  <2> QED
    BY <1>3, <1>11, <2>1, CreateWorld
<1>13. Cur' = c /\ cpu'.joined = NONE /\ cpu'.thread = c
  BY <1>1, <1>3, <1>10 DEF Cur, b, c
<1> QED
  BY <1>1, <1>12, <1>13 DEF Waits, g, b

-----------------------------------------------------------------------------
(* The invariant and what follows from it *)

CInv == IInv /\ Waits /\ FreedIsUnlinked

IdsKept ==
  \A i \in DOMAIN TCB_ARRAY :
    TCB_ARRAY[i] # NONE /\ TCB_ARRAY'[i] # TCB_ARRAY[i] /\ process' = "running"
      => \A t \in DOMAIN heap : Live(t) => ~WaitsFor(t, TCB_ARRAY[i])

LEMMA CreateKeepsIds ==
  ASSUME IInv, Waits, wut_create
  PROVE  IdsKept
<1>1. process = "running" /\ cpu.joined = NONE
  BY DEF wut_create, Calling
<1>2. PICK slot \in 0..(NewMax - 1) :
        SlotFree(slot) /\ TCB_ARRAY' = [Resized EXCEPT ![slot] = THREAD_NUM]
  BY DEF wut_create, FirstFree
<1>3. \A i \in DOMAIN TCB_ARRAY : i \in 0..(NewMax - 1) /\ Resized[i] = TCB_ARRAY[i]
  BY <1>1, ResizedArray DEF IInv, TypeOK
<1>4. Reserved(heap, cpu.thread, NONE)
  BY <1>1, RunningWorld DEF World
<1> SUFFICES ASSUME NEW i \in DOMAIN TCB_ARRAY, TCB_ARRAY[i] # NONE,
                    TCB_ARRAY'[i] # TCB_ARRAY[i],
                    NEW t \in DOMAIN heap, Live(t), WaitsFor(t, TCB_ARRAY[i])
             PROVE  FALSE
  BY DEF IdsKept
<1>5. i = slot
  BY <1>1, <1>2, <1>3, ResizedArray
<1>6. heap[TCB_ARRAY[i]].enable = 1
  BY <1>2, <1>3, <1>5 DEF SlotFree
<1>7. Alive(heap, t) /\ Inside(heap, cpu.thread, NONE, t) = TCB_ARRAY[i]
  BY DEF Live, Alive, WaitsFor, Inside
<1> QED
  BY <1>4, <1>6, <1>7 DEF Reserved

(* A step that leaves the array alone, or ends the process.                *)
LEMMA ArrayKeepsIds ==
  ASSUME UNCHANGED TCB_ARRAY \/ process' # "running"
  PROVE  IdsKept
  BY DEF IdsKept

LEMMA InitCareful ==
  ASSUME ConstantsAssumption, Init
  PROVE  CInv
<1>1. /\ heap = [t \in {0} |-> NewTCB(0, 0, FALSE)]
      /\ TCB_ARRAY[0] = 0
      /\ CURRENT_RUNNING_THREAD_ID = 0 /\ Q_head = <<>>
      /\ cpu = Context(0, NONE) /\ process = "running"
  BY DEF Init, ConstantsAssumption
<1>2. Cur = cpu.thread /\ cpu.thread = 0 /\ cpu.joined = NONE
  BY <1>1 DEF Cur, Context
<1>3. \A t : ~Among(Q_head, t)
  BY <1>1 DEF Among
<1>4. /\ DOMAIN heap = {0} /\ heap[0].status = NONE /\ heap[0].id = 0
      /\ heap[0].join = 0 /\ heap[0].join_from = NONE
      /\ heap[0].ucontext.thread = 0 /\ heap[0].ucontext.joined = NONE
  <2>1. DOMAIN heap = {0} /\ heap[0] = NewTCB(0, 0, FALSE)
    BY <1>1
  <2> QED
    BY <2>1 DEF NewTCB, Context
<1>5. Distinct(Q_head) /\ Indexed(TCB_ARRAY, heap) /\ RunnerAlive(heap, 0, NONE)
  <2>1. Distinct(Q_head)
    BY <1>1 DEF Distinct
  <2>2. Indexed(TCB_ARRAY, heap)
    BY <1>1, <1>4 DEF Indexed
  <2>3. RunnerAlive(heap, 0, NONE)
    BY <1>4 DEF RunnerAlive, Alive
  <2> QED
    BY <2>1, <2>2, <2>3
<1>6. QueueReady(heap, Q_head, 0) /\ WaitersHeld(heap, Q_head, 0)
  BY <1>3, <1>4 DEF QueueReady, WaitersHeld, Waiting
<1>7. JoinedHeld(heap, Q_head, 0)
  BY <1>4 DEF JoinedHeld
<1>8. Reserved(heap, 0, NONE) /\ Single(heap, 0, NONE)
  BY <1>4 DEF Reserved, Single, Inside
<1> QED
  BY <1>1, <1>2, <1>5, <1>6, <1>7, <1>8, InitInv DEF CInv, Waits, World, FreedIsUnlinked

LEMMA NextCareful ==
  ASSUME ConstantsAssumption, CarefulCancel, CInv, [Next]_vars
  PROVE  CInv' /\ IdsKept
<1>0. IInv /\ Waits /\ FreedIsUnlinked /\ \A id \in Ids : id \in Nat
  BY DEF CInv, Ids
<1>1. IInv'
  BY <1>0, NextInv
<1> DEFINE Good == /\ Waits' /\ IdsKept
                   /\ process' \notin {"corrupt_queue", "crash_null_context"}
<1>2. ASSUME Waits', UNCHANGED TCB_ARRAY, process' = "running"
      PROVE  Good
  BY <1>2, ArrayKeepsIds
<1>3. ASSUME process' \in {"exited", "crash_null_tcb", "crash_empty_queue",
                           "crash_own_stack", "out_of_bounds"}
      PROVE  Good
  BY <1>3, ArrayKeepsIds DEF Waits
<1> SUFFICES Good
  BY <1>1 DEF CInv, FreedIsUnlinked
<1> HIDE DEF Good
<1>4. CASE wut_create
  BY <1>0, <1>4, CreateWaits, CreateKeepsIds DEF Good
<1>5. CASE \/ wut_create_dies
           \/ cancel_out_of_bounds
           \/ \E id \in Ids : join_null_tcb(id)
           \/ \E id \in Ids : join_empty_queue(id)
           \/ quit
  BY <1>3, <1>5 DEF wut_create_dies, cancel_out_of_bounds, join_null_tcb,
                    join_empty_queue, quit, End
<1>6. ASSUME NEW id \in Ids, cancel_blocked(id)
      PROVE  Good
  <2>1. Waits' /\ process' = "running"
    BY <1>0, <1>6, CancelBlockedWaits
  <2> QED
    BY <1>2, <1>6, <2>1 DEF cancel_blocked
<1>7. ASSUME NEW id \in Ids, cancel_ready(id)
      PROVE  Good
  <2>1. Waits' /\ process' = "running"
    BY <1>0, <1>7, CancelReadyWaits
  <2> QED
    BY <1>2, <1>7, <2>1 DEF cancel_ready
<1>8. ASSUME NEW id \in Ids, cancel_corrupts(id)
      PROVE  Good
  <2>1. Cancelling(id) /\ id \in Nat
    BY <1>0, <1>8 DEF cancel_corrupts
  <2> DEFINE t == TCB_ARRAY[id]
  <2>2. ~CancelFreesLinked(t) /\ (heap[t].block = 0 => Among(Q_head, t))
    BY <1>0, <2>1, CancelFacts
  <2> QED
    BY <1>8, <2>2 DEF cancel_corrupts, Queued, Among
<1>9. ASSUME NEW id \in Ids, wut_join(id)
      PROVE  Good
  <2>1. Waits' /\ process' = "running"
    BY <1>0, <1>9, JoinWaits
  <2> QED
    BY <1>2, <1>9, <2>1 DEF wut_join, SwitchTo
<1>10. CASE wut_join_returns
  <2>1. Waits' /\ process' = "running"
    BY <1>0, <1>10, ReturnsWaits
  <2> QED
    BY <1>2, <1>10, <2>1 DEF wut_join_returns
<1>11. CASE wut_yield
  <2>1. Waits' /\ process' = "running"
    BY <1>0, <1>11, YieldWaits
  <2> QED
    BY <1>2, <1>11, <2>1 DEF wut_yield, SwitchTo
<1>12. CASE yield_corrupts
  BY <1>0, <1>12, RunningWorld DEF yield_corrupts, Calling
<1>13. ASSUME NEW arg \in Int, NEW onOwnStack, wut_exit(arg, onOwnStack),
              process = "running", cpu.joined = NONE
       PROVE  Good
  <2>1. Waits' /\ process' \notin {"corrupt_queue", "crash_null_context"}
    BY <1>0, <1>13, ExitWaits
  <2>2. UNCHANGED TCB_ARRAY \/ process' # "running"
    BY <1>13 DEF wut_exit, exit_switches, exit_corrupts, exit_last, SwitchTo, End
  <2> QED
    BY <2>1, <2>2, ArrayKeepsIds DEF Good
<1>14. ASSUME NEW arg \in ExitArgs, explicit_exit(arg)
       PROVE  Good
  BY <1>13, <1>14 DEF explicit_exit, Calling, ConstantsAssumption
<1>15. CASE implicit_exit
  <2>1. process = "running" /\ cpu.joined = NONE /\ wut_exit(0, FALSE)
    BY <1>15 DEF implicit_exit, Calling
  <2>2. 0 \in Int
    OBVIOUS
  <2> QED
    BY <1>13, <2>1, <2>2, Zenon
<1>16. CASE Halted \/ UNCHANGED vars
  <2>1. UNCHANGED vars
    BY <1>16 DEF Halted
  <2> QED
    BY <1>0, <2>1, ArrayKeepsIds DEF vars, Good, Waits, Cur, FreedIsUnlinked
<1> QED
  BY <1>4, <1>5, <1>6, <1>7, <1>8, <1>9, <1>10, <1>11, <1>12, <1>14, <1>15, <1>16
     DEF Next

LEMMA CarefulInv ==
  ASSUME CarefulCancel
  PROVE  Spec => []CInv
<1>1. Init => CInv
  BY InitCareful, ConstantsAssumption
<1>2. CInv /\ [Next]_vars => CInv'
  BY NextCareful, ConstantsAssumption
<1> QED
  BY <1>1, <1>2, PTL DEF Spec

LEMMA OnceInQueue ==
  ASSUME NEW S, NEW q \in Seq(S), Distinct(q), NEW t, Among(q, t)
  PROVE  Cardinality({i \in 1..Len(q) : q[i] = t}) = 1
<1>1. PICK k \in 1..Len(q) : q[k] = t
  BY DEF Among
<1>2. {i \in 1..Len(q) : q[i] = t} = {k}
  BY <1>1 DEF Distinct
<1> QED
  BY <1>2, FS_Singleton

LEMMA NothingLost ==
  ASSUME CInv
  PROVE  NoLostWakeup /\ TerminatedNeverRuns /\ JoinReturnsTerminated
<1> SUFFICES ASSUME process = "running"
             PROVE  NoLostWakeup /\ TerminatedNeverRuns /\ JoinReturnsTerminated
  BY DEF NoLostWakeup, TerminatedNeverRuns, JoinReturnsTerminated
<1> DEFINE c == cpu.thread
<1>1. /\ World(TCB_ARRAY, heap, Q_head, c, cpu.joined)
      /\ DOMAIN heap = Address /\ Shaped(heap, Q_head) /\ Alive(heap, c)
      /\ c \in Address
  BY RunningWorld DEF CInv
<1>2. Q_head \in Seq(Address)
  BY DEF CInv, IInv, TypeOK
<1>3. \A t : Queued(t) <=> Among(Q_head, t)
  BY DEF Queued, Among
<1>4. TerminatedNeverRuns
  <2>1. \A t : Among(Q_head, t) => Alive(heap, t)
    BY <1>1 DEF World, QueueReady, Shaped
  <2> QED
    BY <1>1, <2>1 DEF TerminatedNeverRuns, Live, Alive, Among
<1>5. JoinReturnsTerminated
  BY <1>1 DEF JoinReturnsTerminated, World, RunnerAlive, Shaped, Live, Alive
<1>6. ASSUME NEW t \in DOMAIN heap, Live(t)
      PROVE  \/ t = c /\ ~Queued(t)
             \/ t # c /\ QueuedOnce(t)
             \/ /\ ~Queued(t)
                /\ \E u \in DOMAIN heap :
                     /\ WaitsFor(t, u) /\ Live(u)
                     /\ heap[u].join = 1
                     /\ heap[u].join_from # NONE /\ Joiner(u) = t
  <2>1. CASE Among(Q_head, t)
    BY <1>1, <1>2, <2>1, OnceInQueue DEF QueuedOnce, World, QueueReady
  <2>2. CASE t = c /\ ~Among(Q_head, t)
    BY <1>3, <2>2
  <2>3. CASE t # c /\ ~Among(Q_head, t)
    <3>1. Waiting(heap, Q_head, c, t)
      BY <1>6, <2>3 DEF Waiting, Alive, Live
    <3>2. PICK u \in DOMAIN heap : Held(heap, t, u)
      BY <1>1, <3>1 DEF World, WaitersHeld
    <3>3. heap[u].join_from # NONE /\ Joiner(u) = t
      BY <1>1, <1>6, <3>2 DEF Held, World, Indexed, Shaped, Alive, Live, Joiner
    <3>4. WaitsFor(t, u) /\ Live(u) /\ heap[u].join = 1
      BY <1>1, <2>3, <3>2 DEF WaitsFor, Held, Alive, Live, Shaped
    <3> QED
      BY <1>3, <2>3, <3>3, <3>4
  <2> QED
    BY <2>1, <2>2, <2>3
<1>7. NoLostWakeup
  BY <1>6 DEF NoLostWakeup
<1> QED
  BY <1>4, <1>5, <1>7

(* A careful client loses no wake-up: a live thread runs, is queued exactly  *)
(* once, or waits for a live thread whose TCB leads back to it.              *)
THEOREM WakeupsNeverLost ==
  ASSUME CarefulCancel
  PROVE  Spec => []NoLostWakeup
<1>1. CInv => NoLostWakeup
  BY NothingLost
<1> QED
  BY <1>1, CarefulInv, PTL

(* No thread that a careful client cancelled, or that has exited, runs again *)
(* or is in the ready queue.                                                 *)
THEOREM TerminatedNeverRunAgain ==
  ASSUME CarefulCancel
  PROVE  Spec => []TerminatedNeverRuns
<1>1. CInv => TerminatedNeverRuns
  BY NothingLost
<1> QED
  BY <1>1, CarefulInv, PTL

(* When wut_join has been resumed, the thread it names has terminated.       *)
THEOREM JoinsReturnTerminated ==
  ASSUME CarefulCancel
  PROVE  Spec => []JoinReturnsTerminated
<1>1. CInv => JoinReturnsTerminated
  BY NothingLost
<1> QED
  BY <1>1, CarefulInv, PTL

(* No queue node is freed while it is linked, and no freed context is        *)
(* switched to, however many threads a careful client cancels.               *)
THEOREM FreedAlwaysUnlinked ==
  ASSUME CarefulCancel
  PROVE  Spec => []FreedIsUnlinked
<1>1. CInv => FreedIsUnlinked
  BY DEF CInv
<1> QED
  BY <1>1, CarefulInv, PTL

(* wut_create gives the slot of a terminated thread away only when no live   *)
(* thread is still inside the wut_join that reports its status.              *)
THEOREM IdsKeptForJoiners ==
  ASSUME CarefulCancel
  PROVE  Spec => IdKeptForJoiner
<1>1. CInv /\ [Next]_vars =>
        [\A i \in DOMAIN TCB_ARRAY :
           TCB_ARRAY[i] # NONE /\ TCB_ARRAY'[i] # TCB_ARRAY[i] /\ process' = "running"
             => \A t \in DOMAIN heap : Live(t) => ~WaitsFor(t, TCB_ARRAY[i])]_vars
  BY NextCareful, ConstantsAssumption DEF IdsKept
<1> QED
  BY <1>1, CarefulInv, PTL DEF Spec, IdKeptForJoiner
==============================================================================

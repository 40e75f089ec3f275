---------------------------- MODULE ScriptProofs ----------------------------
(* What the locking scripts ask of a spender: Spends, token by token, as a *)
(* condition on the witness, for each body a template is put together      *)
(* from, any number of keys and witnesses of any length; and what follows  *)
(* for the templates.                                                      *)
EXTENDS Templates, EngineProofs

-----------------------------------------------------------------------------
(* What a script computes, for every list of tokens.  The place of         *)
(* induction is again taken by the least counterexample.                   *)

(* The evaluations one token leads to. *)
Steps(ms, token, digest) == UNION {Exec(m, token, digest) : m \in ms}

LEMMA StepsOfOne ==
    ASSUME NEW m, NEW token, NEW digest
    PROVE  Steps({m}, token, digest) = Exec(m, token, digest)
BY DEF Steps

(* f lists the evaluations after each of the first n tokens. *)
IsAfter(f, script, starts, digest, n) ==
    f = [k \in 0 .. n |-> IF k = 0 THEN starts ELSE Steps(f[k - 1], script[k], digest)]

(* The same said step by step. *)
IsTrace(f, script, starts, digest, n) ==
    /\ f[0] = starts
    /\ \A k \in 1 .. n : f[k] = Steps(f[k - 1], script[k], digest)

LEMMA AfterExists ==
    ASSUME NEW script, NEW starts, NEW digest, NEW n \in Nat
    PROVE  \E f : IsAfter(f, script, starts, digest, n)
<1> DEFINE T == {m \in Nat : ~\E f : IsAfter(f, script, starts, digest, m)}
<1> SUFFICES ASSUME T # {} PROVE FALSE
  OBVIOUS
<1>1. PICK m \in T : \A y \in T : m <= y
  <2> HIDE DEF T
  <2>1. T \subseteq Nat
    BY DEF T
  <2> QED BY <2>1, LeastNat
<1>2. m # 0
  <2> DEFINE f == [k \in 0 .. 0 |-> starts]
  <2>1. IsAfter(f, script, starts, digest, 0)
    BY DEF IsAfter
  <2> QED BY <2>1
<1>3. m - 1 \in Nat /\ m - 1 \notin T
  BY <1>1, <1>2
<1>4. PICK f : IsAfter(f, script, starts, digest, m - 1)
  BY <1>3
<1> DEFINE g == [k \in 0 .. m |-> IF k = m THEN Steps(f[m - 1], script[m], digest) ELSE f[k]]
<1>5. \A k \in 0 .. m - 1 : g[k] = f[k]
  BY <1>3
<1>6. \A k \in 0 .. m : g[k] = IF k = 0 THEN starts ELSE Steps(g[k - 1], script[k], digest)
  <2> SUFFICES ASSUME NEW k \in 0 .. m
               PROVE  g[k] = IF k = 0 THEN starts ELSE Steps(g[k - 1], script[k], digest)
    OBVIOUS
  <2>1. CASE k = m
    <3>1. g[k] = Steps(f[m - 1], script[m], digest)
      BY <2>1
    <3> QED BY <1>2, <1>3, <1>5, <2>1, <3>1
  <2>2. CASE k # m
    <3>1. k \in 0 .. m - 1 /\ (k # 0 => k - 1 \in 0 .. m - 1)
      BY <1>3, <2>2
    <3>2. f[k] = IF k = 0 THEN starts ELSE Steps(f[k - 1], script[k], digest)
      BY <1>4, <3>1 DEF IsAfter
    <3> HIDE DEF g
    <3> QED BY <1>5, <3>1, <3>2
  <2> QED BY <2>1, <2>2
<1>7. IsAfter(g, script, starts, digest, m)
  <2>1. g = [k \in 0 .. m |-> g[k]]
    OBVIOUS
  <2> HIDE DEF g
  <2> QED BY <1>6, <2>1 DEF IsAfter
<1> QED BY <1>7

(* One step of a run. *)
LEMMA AfterStep ==
    ASSUME NEW f, NEW script, NEW starts, NEW digest, NEW n \in Nat,
           IsAfter(f, script, starts, digest, n)
    PROVE  IsTrace(f, script, starts, digest, n)
<1>1. 0 \in 0 .. n /\ \A k \in 1 .. n : k \in 0 .. n /\ k # 0
  OBVIOUS
<1> QED BY <1>1 DEF IsAfter, IsTrace

(* Whoever takes these steps arrives where Evaluate does. *)
LEMMA EvaluateEnds ==
    ASSUME NEW f, NEW script, NEW starts, NEW digest, NEW n \in Nat, Len(script) = n,
           IsTrace(f, script, starts, digest, n)
    PROVE  Evaluate(script, starts, digest) = f[n]
<1> DEFINE after == CHOOSE g : IsAfter(g, script, starts, digest, n)
           T == {k \in 0 .. n : f[k] # after[k]}
<1>1. IsAfter(after, script, starts, digest, n)
  BY AfterExists
<1>2. Evaluate(script, starts, digest) = after[n]
  BY DEF Evaluate, IsAfter, Steps
<1>3. n \in 0 .. n
  OBVIOUS
<1> HIDE DEF after
<1>4. IsTrace(after, script, starts, digest, n)
  BY <1>1, AfterStep
<1>5. T = {}
  <2> SUFFICES ASSUME T # {} PROVE FALSE
    OBVIOUS
  <2>1. T \subseteq Nat
    OBVIOUS
  <2>2. PICK k \in T : \A y \in T : k <= y
    <3> HIDE DEF T
    <3> QED BY <2>1, LeastNat
  <2>3. k # 0
    BY <1>4 DEF IsTrace
  <2>4. k \in 1 .. n /\ k - 1 \in 0 .. n /\ k - 1 \notin T
    BY <2>2, <2>3
  <2>5. f[k - 1] = after[k - 1] /\ f[k] # after[k]
    BY <2>4
  <2> QED BY <1>4, <2>4, <2>5 DEF IsTrace
<1> QED BY <1>2, <1>3, <1>5

LEMMA ListConcat ==
    ASSUME NEW u, NEW v, IsList(u), IsList(v)
    PROVE  /\ IsList(u \o v) /\ Len(u \o v) = Len(u) + Len(v)
           /\ \A i \in 1 .. Len(u) : (u \o v)[i] = u[i]
           /\ \A i \in 1 .. Len(v) : (u \o v)[Len(u) + i] = v[i]
<1> DEFINE m == Len(u)
           n == Len(v)
           X == {u[i] : i \in 1 .. m} \cup {v[i] : i \in 1 .. n}
           z == u \o v
<1>1. /\ m \in Nat /\ u = [i \in 1 .. m |-> u[i]]
      /\ n \in Nat /\ v = [i \in 1 .. n |-> v[i]]
  BY DEF IsList
<1> HIDE DEF m, n
<1>2. u \in [1 .. m -> X] /\ v \in [1 .. n -> X] /\ Len(u) = m /\ Len(v) = n
  BY <1>1 DEF m, n
<1>3. u \in Seq(X) /\ v \in Seq(X)
  <2> HIDE DEF X
  <2> QED BY <1>1, <1>2
<1> HIDE DEF X
<1>4. /\ z \in Seq(X) /\ Len(z) = m + n
      /\ \A i \in 1 .. m : z[i] = u[i]
      /\ \A i \in 1 .. n : z[m + i] = v[i]
  BY <1>1, <1>2, <1>3
<1> HIDE DEF z
<1>5. z \in [1 .. Len(z) -> X] /\ Len(z) \in Nat
  BY <1>4
<1>6. IsList(z)
  BY <1>5 DEF IsList
<1> QED BY <1>4, <1>6 DEF z, m, n

(* A script is executed part by part. *)
LEMMA EvaluateParts ==
    ASSUME NEW a, NEW b, NEW c, NEW starts, NEW digest,
           NEW m \in Nat, NEW n \in Nat, NEW p \in Nat,
           p = m + n, Len(a) = m, Len(b) = n, Len(c) = p,
           \A k \in 1 .. m : c[k] = a[k],
           \A k \in 1 .. n : c[m + k] = b[k]
    PROVE  Evaluate(c, starts, digest) = Evaluate(b, Evaluate(a, starts, digest), digest)
<1>1. PICK f : IsAfter(f, c, starts, digest, p)
  BY AfterExists
<1>2. IsTrace(f, c, starts, digest, p)
  BY <1>1, AfterStep
<1>3. Evaluate(c, starts, digest) = f[p]
  BY <1>2, EvaluateEnds
<1>4. IsTrace(f, a, starts, digest, m)
  <2>1. \A k \in 1 .. m : k \in 1 .. p
    OBVIOUS
  <2> QED BY <1>2, <2>1 DEF IsTrace
<1>5. Evaluate(a, starts, digest) = f[m]
  BY <1>4, EvaluateEnds
<1> DEFINE g == [k \in 0 .. n |-> f[m + k]]
<1>6. g[0] = f[m] /\ g[n] = f[p]
  OBVIOUS
<1>7. \A k \in 1 .. n : g[k] = Steps(g[k - 1], b[k], digest)
  <2> SUFFICES ASSUME NEW k \in 1 .. n PROVE g[k] = Steps(g[k - 1], b[k], digest)
    OBVIOUS
  <2>1. /\ m + k \in 1 .. p /\ g[k] = f[m + k] /\ g[k - 1] = f[m + k - 1]
        /\ c[m + k] = b[k]
    <3>1. k - 1 \in 0 .. n /\ m + (k - 1) = m + k - 1
      OBVIOUS
    <3> QED BY <3>1
  <2>2. f[m + k] = Steps(f[m + k - 1], c[m + k], digest)
    BY <1>2, <2>1 DEF IsTrace
  <2> HIDE DEF g
  <2> QED BY <2>1, <2>2
<1> HIDE DEF g
<1>8. IsTrace(g, b, f[m], digest, n)
  BY <1>6, <1>7 DEF IsTrace
<1>9. Evaluate(b, f[m], digest) = g[n]
  BY <1>8, EvaluateEnds
<1> QED BY <1>3, <1>5, <1>6, <1>9

LEMMA EvaluateConcat ==
    ASSUME NEW a, NEW b, IsList(a), IsList(b), NEW starts, NEW digest
    PROVE  Evaluate(a \o b, starts, digest) = Evaluate(b, Evaluate(a, starts, digest), digest)
<1> DEFINE m == Len(a)
           n == Len(b)
           c == a \o b
           p == m + n
<1>1. /\ m \in Nat /\ n \in Nat /\ p \in Nat /\ p = m + n
      /\ Len(a) = m /\ Len(b) = n /\ Len(c) = p
      /\ \A k \in 1 .. m : c[k] = a[k]
      /\ \A k \in 1 .. n : c[m + k] = b[k]
  BY ListConcat DEF IsList
<1> HIDE DEF c, m, n, p
<1>2. Evaluate(c, starts, digest) = Evaluate(b, Evaluate(a, starts, digest), digest)
  BY <1>1, EvaluateParts
<1> QED BY <1>2 DEF c

LEMMA EvaluateToken ==
    ASSUME NEW token, NEW starts, NEW digest
    PROVE  /\ IsList(<<token>>)
           /\ Evaluate(<<token>>, starts, digest) = Steps(starts, token, digest)
<1> DEFINE s == <<token>>
           n == Len(s)
           f == [k \in 0 .. 1 |-> IF k = 0 THEN starts ELSE Steps(starts, token, digest)]
<1>1. n = 1 /\ s[1] = token /\ IsList(s)
  BY DEF IsList
<1>2. f[0] = starts /\ f[1] = Steps(f[0], s[1], digest)
  BY <1>1
<1>3. n \in Nat /\ Len(s) = n
  BY <1>1
<1> HIDE DEF s, f, n
<1>4. IsTrace(f, s, starts, digest, n)
  BY <1>1, <1>2 DEF IsTrace
<1>5. Evaluate(s, starts, digest) = f[n]
  BY <1>3, <1>4, EvaluateEnds
<1> QED BY <1>1, <1>2, <1>5 DEF s, f

(* A failed script stays failed. *)
LEMMA EvaluateNothing ==
    ASSUME NEW script, IsList(script), NEW digest
    PROVE  Evaluate(script, {}, digest) = {}
<1> DEFINE n == Len(script)
           f == [k \in 0 .. n |-> {}]
<1>1. n \in Nat /\ Len(script) = n
  BY DEF IsList
<1>2. f[0] = {} /\ f[n] = {} /\ \A k \in 1 .. n : f[k] = {} /\ f[k - 1] = {}
  BY <1>1
<1>3. \A token : Steps({}, token, digest) = {}
  BY DEF Steps
<1> HIDE DEF f, n
<1>4. IsTrace(f, script, {}, digest, n)
  BY <1>2, <1>3 DEF IsTrace
<1> QED BY <1>1, <1>2, <1>4, EvaluateEnds

-----------------------------------------------------------------------------
(* Stacks. *)

(* Lists with the same elements are the same list. *)
LEMMA ListsEqual ==
    ASSUME NEW u, NEW v, IsList(u), IsList(v), Len(u) = Len(v),
           \A i \in 1 .. Len(u) : u[i] = v[i]
    PROVE  u = v
BY DEF IsList

LEMMA EmptyList == IsList(<< >>) /\ Len(<< >>) = 0
BY DEF IsList

LEMMA ListPop ==
    ASSUME NEW s, IsList(s), NEW n \in 0 .. Len(s)
    PROVE  /\ IsList(Pop(s, n)) /\ Len(Pop(s, n)) = Len(s) - n
           /\ \A i \in 1 .. Len(s) - n : Pop(s, n)[i] = s[i]
<1> DEFINE l == Len(s)
           X == {s[i] : i \in 1 .. l}
           v == SubSeq(s, 1, l - n)
<1>1. l \in Nat /\ s = [i \in 1 .. l |-> s[i]] /\ n \in 0 .. l
  BY DEF IsList
<1> HIDE DEF l
<1>2. s \in Seq(X) /\ Len(s) = l
  BY <1>1, ListIsSeq
<1> HIDE DEF X
<1>3. l - n \in Nat /\ l - n <= l
  BY <1>1
<1>4. /\ v \in Seq(X) /\ Len(v) = l - n
      /\ \A i \in 1 .. l - n : v[i] = s[i]
  BY <1>2, <1>3
<1> HIDE DEF v
<1>5. v \in [1 .. Len(v) -> X] /\ Len(v) \in Nat
  BY <1>4
<1>6. IsList(v)
  BY <1>5 DEF IsList
<1> QED BY <1>4, <1>6 DEF v, l, Pop

(* Replace takes off the top and pushes. *)
LEMMA ListReplace ==
    ASSUME NEW s, IsList(s), NEW n \in 0 .. Len(s), NEW x
    PROVE  /\ IsList(Replace(s, n, x)) /\ Len(Replace(s, n, x)) = Len(s) - n + 1
           /\ \A i \in 1 .. Len(s) - n : Replace(s, n, x)[i] = s[i]
           /\ Top(Replace(s, n, x), 0) = x
<1> DEFINE u == Pop(s, n)
           v == Append(u, x)
           l == Len(u)
<1>1. IsList(u) /\ l = Len(s) - n /\ l \in Nat /\ \A i \in 1 .. l : u[i] = s[i]
  BY ListPop DEF IsList
<1>2. /\ IsList(v) /\ Len(v) = l + 1 /\ v[l + 1] = x
      /\ \A i \in 1 .. l : v[i] = u[i]
  BY <1>1, ListAppend
<1>3. Replace(s, n, x) = v
  BY DEF Replace
<1> HIDE DEF u, v, l
<1>4. Len(v) - 0 = l + 1
  BY <1>1, <1>2
<1> QED BY <1>1, <1>2, <1>3, <1>4 DEF Top

LEMMA TruthOf ==
    ASSUME NEW b \in BOOLEAN
    PROVE  Truthy(Bool(b)) <=> b
BY DEF Truthy, Bool

-----------------------------------------------------------------------------
(* Tokens other than IF, ELSE and ENDIF leave the conditions alone and,    *)
(* where these all hold, act on the stack.                                 *)

AllTrue(conds) == \A i \in DOMAIN conds : conds[i]
PlainToken(token) == token \notin {op("IF"), op("ELSE"), op("ENDIF")}
Machines(stacks, conds) == {Evaluation(s, conds) : s \in stacks}

LEMMA Parts ==
    ASSUME NEW s, NEW c
    PROVE  Evaluation(s, c).stack = s /\ Evaluation(s, c).conds = c
BY DEF Evaluation

LEMMA PlainStep ==
    ASSUME NEW s, NEW c, AllTrue(c), NEW token, PlainToken(token), NEW digest
    PROVE  Exec(Evaluation(s, c), token, digest) = Machines(Apply(s, token, digest), c)
<1> DEFINE m == Evaluation(s, c)
<1>1. m.stack = s /\ m.conds = c
  BY Parts
<1>2. Runs(m)
  BY <1>1 DEF Runs, AllTrue
<1> HIDE DEF m
<1>3. Exec(m, token, digest) = {Evaluation(t, m.conds) : t \in Apply(m.stack, token, digest)}
  BY <1>2 DEF Exec, PlainToken
<1> QED BY <1>1, <1>3 DEF Machines, m

-----------------------------------------------------------------------------
(* Pushes: tokens that are no opcodes. *)

LEMMA PushStep ==
    ASSUME NEW s, NEW token, token[1] # "op", NEW digest
    PROVE  Exec(Evaluation(s, << >>), token, digest) = {Evaluation(Append(s, token), << >>)}
<1>1. PlainToken(token)
  BY DEF op, PlainToken
<1>2. Apply(s, token, digest) = {Append(s, token)}
  BY DEF Apply, op
<1>3. AllTrue(<< >>)
  BY DEF AllTrue
<1>4. Exec(Evaluation(s, << >>), token, digest) = Machines(Apply(s, token, digest), << >>)
  BY <1>1, <1>3, PlainStep
<1> QED BY <1>2, <1>4 DEF Machines

(* They end up on the stack in their order. *)
LEMMA PushAll ==
    ASSUME NEW s, NEW b, IsList(s), IsList(b), NEW digest, \A i \in 1 .. Len(b) : b[i][1] # "op"
    PROVE  Evaluate(b, {Evaluation(s, << >>)}, digest) = {Evaluation(s \o b, << >>)}
<1> DEFINE n == Len(b)
           part(k) == SubSeq(b, 1, k)
           f == [k \in 0 .. n |-> {Evaluation(s \o part(k), << >>)}]
<1>1. n \in Nat /\ Len(b) = n
  BY DEF IsList
<1>2. \A k \in 0 .. n : /\ IsList(part(k)) /\ Len(part(k)) = k
                        /\ \A i \in 1 .. k : part(k)[i] = b[i]
  <2> SUFFICES ASSUME NEW k \in 0 .. n
               PROVE  /\ IsList(part(k)) /\ Len(part(k)) = k
                      /\ \A i \in 1 .. k : part(k)[i] = b[i]
    OBVIOUS
  <2> DEFINE d == n - k
  <2>1. d \in 0 .. Len(b) /\ Len(b) - d = k
    BY <1>1
  <2>2. Pop(b, d) = part(k)
    BY <2>1 DEF Pop
  <2> HIDE DEF part, n, d
  <2>3. /\ IsList(Pop(b, d)) /\ Len(Pop(b, d)) = Len(b) - d
        /\ \A i \in 1 .. Len(b) - d : Pop(b, d)[i] = b[i]
    BY <2>1, ListPop, ZenonT(30)
  <2> QED BY <2>1, <2>2, <2>3, ZenonT(30)
<1>3. s \o part(0) = s /\ s \o part(n) = s \o b
  <2>1. part(n) = b
    <3>1. n \in 0 .. n
      BY <1>1
    <3>2. IsList(part(n)) /\ Len(part(n)) = n /\ \A i \in 1 .. n : part(n)[i] = b[i]
      BY <1>2, <3>1
    <3> HIDE DEF part, n
    <3> QED BY <1>1, <3>2, ListsEqual
  <2>2. IsList(part(0)) /\ Len(part(0)) = 0
    BY <1>1, <1>2
  <2> HIDE DEF part
  <2> DEFINE u == s \o part(0)
  <2>3. IsList(u) /\ Len(u) = Len(s) + Len(part(0)) /\ \A i \in 1 .. Len(s) : u[i] = s[i]
    BY <2>2, ListConcat
  <2> HIDE DEF u
  <2>4. Len(s) \in Nat
    BY DEF IsList
  <2>5. Len(u) = Len(s) /\ \A i \in 1 .. Len(u) : u[i] = s[i]
    BY <2>2, <2>3, <2>4
  <2>6. u = s
    BY <2>3, <2>5, ListsEqual
  <2> QED BY <2>1, <2>6 DEF u
<1>4. \A k \in 1 .. n : Append(s \o part(k - 1), b[k]) = s \o part(k)
  <2> SUFFICES ASSUME NEW k \in 1 .. n
               PROVE  Append(s \o part(k - 1), b[k]) = s \o part(k)
    OBVIOUS
  <2> DEFINE p == part(k - 1)
             q == part(k)
             l == Len(s)
             u == s \o p
             v == s \o q
             a == Append(u, b[k])
  <2>1. k \in 0 .. n /\ k - 1 \in 0 .. n
    BY <1>1
  <2>2. /\ IsList(p) /\ Len(p) = k - 1 /\ \A i \in 1 .. k - 1 : p[i] = b[i]
        /\ IsList(q) /\ Len(q) = k /\ \A i \in 1 .. k : q[i] = b[i]
    BY <1>2, <2>1
  <2>3. l \in Nat /\ Len(s) = l
    BY DEF IsList
  <2> HIDE DEF p, q, part, l
  <2>4. /\ IsList(u) /\ Len(u) = l + (k - 1)
        /\ \A i \in 1 .. l : u[i] = s[i]
        /\ \A i \in 1 .. k - 1 : u[l + i] = p[i]
    BY <2>2, <2>3, ListConcat
  <2>5. /\ IsList(v) /\ Len(v) = l + k
        /\ \A i \in 1 .. l : v[i] = s[i]
        /\ \A i \in 1 .. k : v[l + i] = q[i]
    <3>1. /\ IsList(v) /\ Len(v) = Len(s) + Len(q)
          /\ \A i \in 1 .. Len(s) : v[i] = s[i]
          /\ \A i \in 1 .. Len(q) : v[Len(s) + i] = q[i]
      BY <2>2, ListConcat
    <3> HIDE DEF v
    <3> QED BY <2>2, <2>3, <3>1
  <2> HIDE DEF u, v
  <2>6. /\ IsList(a) /\ Len(a) = Len(u) + 1 /\ a[Len(u) + 1] = b[k]
        /\ \A i \in 1 .. Len(u) : a[i] = u[i]
    BY <2>4, ListAppend
  <2> HIDE DEF a
  <2>7. Len(a) = l + k /\ a[l + k] = b[k] /\ \A i \in 1 .. l + (k - 1) : a[i] = u[i]
    BY <2>1, <2>3, <2>4, <2>6
  <2>8. \A i \in 1 .. l + k : a[i] = v[i]
    <3> SUFFICES ASSUME NEW i \in 1 .. l + k PROVE a[i] = v[i]
      OBVIOUS
    <3>1. CASE i \in 1 .. l
      <4>1. i \in 1 .. l + (k - 1)
        BY <2>1, <2>3, <3>1
      <4> QED BY <2>4, <2>5, <2>7, <3>1, <4>1
    <3>2. CASE i \in l + 1 .. l + k - 1
      <4> DEFINE j == i - l
      <4>1. i = l + j /\ j \in 1 .. k - 1 /\ j \in 1 .. k /\ i \in 1 .. l + (k - 1)
        BY <2>1, <2>3, <3>2
      <4>2. u[l + j] = p[j] /\ v[l + j] = q[j] /\ p[j] = b[j] /\ q[j] = b[j]
        BY <2>2, <2>4, <2>5, <4>1
      <4> QED BY <2>7, <4>1, <4>2
    <3>3. CASE i = l + k
      <4>1. k \in 1 .. k
        BY <2>1
      <4>2. v[l + k] = q[k] /\ q[k] = b[k]
        BY <2>2, <2>5, <4>1
      <4> QED BY <2>7, <3>3, <4>2
    <3> QED BY <2>1, <2>3, <3>1, <3>2, <3>3
  <2>9. a = v
    BY <2>5, <2>6, <2>7, <2>8, ListsEqual
  <2> QED BY <2>9 DEF a, u, v, p, q
<1>5. /\ f[0] = {Evaluation(s \o part(0), << >>)} /\ f[n] = {Evaluation(s \o part(n), << >>)}
      /\ \A k \in 1 .. n : /\ f[k - 1] = {Evaluation(s \o part(k - 1), << >>)}
                           /\ f[k] = {Evaluation(s \o part(k), << >>)}
  <2> HIDE DEF part, n
  <2>1. 0 \in 0 .. n /\ n \in 0 .. n /\ \A k \in 1 .. n : k \in 0 .. n /\ k - 1 \in 0 .. n
    BY <1>1
  <2> QED BY <2>1
<1> HIDE DEF f, part, n
<1>6. \A k \in 1 .. n : f[k] = Steps(f[k - 1], b[k], digest)
  <2> SUFFICES ASSUME NEW k \in 1 .. n PROVE f[k] = Steps(f[k - 1], b[k], digest)
    OBVIOUS
  <2>1. b[k][1] # "op"
    BY <1>1
  <2>2. Exec(Evaluation(s \o part(k - 1), << >>), b[k], digest)
          = {Evaluation(Append(s \o part(k - 1), b[k]), << >>)}
    BY <2>1, PushStep
  <2>3. Steps(f[k - 1], b[k], digest) = Exec(Evaluation(s \o part(k - 1), << >>), b[k], digest)
    BY <1>5, StepsOfOne
  <2> QED BY <1>4, <1>5, <2>2, <2>3
<1>7. IsTrace(f, b, {Evaluation(s, << >>)}, digest, n)
  BY <1>3, <1>5, <1>6 DEF IsTrace
<1>8. Evaluate(b, {Evaluation(s, << >>)}, digest) = f[n]
  BY <1>1, <1>7, EvaluateEnds
<1> QED BY <1>3, <1>5, <1>8

-----------------------------------------------------------------------------
(* n of n. *)

(* Signatures in the order of n keys, one for each, are the keys' own. *)
LEMMA AscendingIsIdentity ==
    ASSUME NEW n \in Nat, NEW f \in [1 .. n -> 1 .. n], \A i \in 2 .. n : f[i - 1] < f[i]
    PROVE  \A i \in 1 .. n : f[i] = i
<1> DEFINE Low == {i \in 1 .. n : f[i] < i}
           High == {k \in 0 .. n - 1 : f[n - k] > n - k}
<1>1. Low = {}
  <2> SUFFICES ASSUME Low # {} PROVE FALSE
    OBVIOUS
  <2>1. Low \subseteq Nat
    OBVIOUS
  <2>2. PICK i \in Low : \A y \in Low : i <= y
    <3> HIDE DEF Low
    <3> QED BY <2>1, LeastNat
  <2>3. i \in 1 .. n /\ f[i] \in 1 .. n /\ f[i] < i
    OBVIOUS
  <2>4. i \in 2 .. n /\ i - 1 \in 1 .. n /\ i - 1 \notin Low
    BY <2>2, <2>3
  <2>5. f[i - 1] \in 1 .. n /\ f[i - 1] >= i - 1 /\ f[i - 1] < f[i]
    BY <2>4
  <2> QED BY <2>3, <2>5
<1>2. High = {}
  <2> SUFFICES ASSUME High # {} PROVE FALSE
    OBVIOUS
  <2>1. High \subseteq Nat
    OBVIOUS
  <2>2. PICK k \in High : \A y \in High : k <= y
    <3> HIDE DEF High
    <3> QED BY <2>1, LeastNat
  <2> DEFINE i == n - k
  <2>3. i \in 1 .. n /\ f[i] \in 1 .. n /\ f[i] > i /\ k \in 0 .. n - 1
    OBVIOUS
  <2>4. i < n /\ k - 1 \in 0 .. n - 1 /\ k - 1 \notin High /\ n - (k - 1) = i + 1
    <3>1. i < n
      BY <2>3
    <3>2. k \in Nat /\ k # 0 /\ k - 1 \in 0 .. n - 1 /\ n - (k - 1) = i + 1
      BY <2>3, <3>1
    <3>3. ~(k <= k - 1)
      BY <3>2
    <3> HIDE DEF High
    <3> QED BY <2>2, <3>1, <3>2, <3>3
  <2>5. f[i + 1] <= i + 1
    <3>1. i + 1 \in 1 .. n /\ f[i + 1] \in 1 .. n
      BY <2>3, <2>4
    <3>2. ~(f[n - (k - 1)] > n - (k - 1))
      BY <2>4
    <3> QED BY <2>4, <3>1, <3>2
  <2>6. f[i] < f[i + 1]
    <3>1. i + 1 \in 2 .. n /\ (i + 1) - 1 = i
      BY <2>3, <2>4
    <3> QED BY <3>1
  <2> DEFINE a == f[i]
             b == f[i + 1]
  <2>7. a \in Int /\ b \in Int /\ i \in Int
    BY <2>3, <2>4
  <2>8. i < a /\ a < b /\ b <= i + 1
    BY <2>3, <2>5, <2>6
  <2> HIDE DEF a, b, i, High, Low
  <2> QED BY <2>7, <2>8
<1>3. \A i \in 1 .. n : f[i] \in 1 .. n /\ f[i] >= i
  <2> SUFFICES ASSUME NEW i \in 1 .. n PROVE f[i] \in 1 .. n /\ f[i] >= i
    OBVIOUS
  <2>1. f[i] \in 1 .. n /\ ~(f[i] < i)
    BY <1>1
  <2> QED BY <2>1
<1>4. \A i \in 1 .. n : f[i] <= i
  <2> SUFFICES ASSUME NEW i \in 1 .. n PROVE f[i] <= i
    OBVIOUS
  <2> DEFINE k == n - i
  <2>1. k \in 0 .. n - 1 /\ n - k = i
    OBVIOUS
  <2>2. ~(f[n - k] > n - k)
    <3> HIDE DEF k
    <3> QED BY <1>2, <2>1
  <2>3. f[i] \in Nat
    OBVIOUS
  <2> HIDE DEF k
  <2> QED BY <2>1, <2>2, <2>3
<1> QED BY <1>3, <1>4

(* What CHECKMULTISIG does where it finds the same number twice. *)
LEMMA CheckQuorum ==
    ASSUME NEW s, NEW n \in Nat, NEW digest,
           Top(s, 0) = pushNumber(n), Top(s, n + 1) = pushNumber(n)
    PROVE  CheckMultisig(s, digest) =
             IF Len(s) < n + n + 3 THEN {}
             ELSE {Replace(s, n + n + 3,
                     Bool(\A i \in 1 .. n :
                            Same(Top(s, n + n + 2 - i), Sig(Top(s, n + 1 - i)[2], digest))))}
<1> DEFINE key(i) == Top(s, n + 1 - i)[2]
           sig(i) == Top(s, n + n + 2 - i)
           Ascending == {f \in [1 .. n -> 1 .. n] : \A i \in 2 .. n : f[i - 1] < f[i]}
           found == \E f \in Ascending : \A i \in 1 .. n : Same(sig(i), Sig(key(f[i]), digest))
           signed == \A i \in 1 .. n : Same(sig(i), Sig(key(i), digest))
<1>1. Top(s, 0)[2] = n /\ Top(s, n + 1)[2] = n
  BY DEF pushNumber
<1>2. CheckMultisig(s, digest)
        = IF Len(s) < n + n + 3 THEN {} ELSE {Replace(s, n + n + 3, Bool(found))}
  BY <1>1 DEF CheckMultisig
<1>3. found <=> signed
  <2> HIDE DEF key, sig
  <2>1. ASSUME found PROVE signed
    <3>1. PICK f \in Ascending : \A i \in 1 .. n : Same(sig(i), Sig(key(f[i]), digest))
      BY <2>1
    <3>2. \A i \in 1 .. n : f[i] = i
      BY AscendingIsIdentity
    <3> QED BY <3>1, <3>2
  <2>2. ASSUME signed PROVE found
    <3> DEFINE f == [i \in 1 .. n |-> i]
    <3>1. f \in Ascending /\ \A i \in 1 .. n : f[i] = i
      OBVIOUS
    <3> HIDE DEF f
    <3> QED BY <2>2, <3>1
  <2> QED BY <2>1, <2>2
<1>4. found = signed
  BY <1>3
<1> HIDE DEF found
<1> QED BY <1>2, <1>4

(* The last stacks satisfy the script. *)
Satisfied(stacks) == \E s \in stacks : Len(s) >= 1 /\ Truthy(Top(s, 0))

LEMMA SpendsByStacks ==
    ASSUME NEW script, NEW w, NEW digest, NEW stacks, NEW c,
           Evaluate(script, {Evaluation(w, << >>)}, digest) = Machines(stacks, c)
    PROVE  Spends(script, w, digest) <=> Satisfied(stacks)
<1>1. \A s : Evaluation(s, c).stack = s
  BY Parts
<1>2. Spends(script, w, digest) <=> \E m \in Machines(stacks, c) :
                                        Len(m.stack) >= 1 /\ Truthy(Top(m.stack, 0))
  BY DEF Spends
<1> QED BY <1>1, <1>2 DEF Machines, Satisfied

(* A list of two tokens. *)
LEMMA ListOfTwo ==
    ASSUME NEW x, NEW y
    PROVE  <<x, y>> = <<x>> \o <<y>> /\ IsList(<<x, y>>)
           /\ IsList(<<x>>) /\ IsList(<<y>>) /\ Len(<<x>>) = 1 /\ <<x>>[1] = x
<1> DEFINE u == <<x>>
           v == <<y>>
           z == <<x, y>>
           c == u \o v
<1>1. /\ IsList(u) /\ Len(u) = 1 /\ u[1] = x
      /\ IsList(v) /\ Len(v) = 1 /\ v[1] = y
      /\ IsList(z) /\ Len(z) = 2 /\ z[1] = x /\ z[2] = y
  BY DEF IsList
<1> HIDE DEF u, v, z
<1>2. IsList(u) /\ IsList(v)
  BY <1>1
<1>3. /\ IsList(c) /\ Len(c) = Len(u) + Len(v)
      /\ \A i \in 1 .. Len(u) : c[i] = u[i]
      /\ \A i \in 1 .. Len(v) : c[Len(u) + i] = v[i]
  BY <1>2, ListConcat
<1> HIDE DEF c
<1>4. c[1] = x /\ c[1 + 1] = y /\ Len(c) = 2
  BY <1>1, <1>3
<1>5. \A i \in 1 .. Len(c) : c[i] = z[i]
  BY <1>1, <1>4
<1>6. c = z
  BY <1>1, <1>3, <1>4, <1>5, ListsEqual
<1> QED BY <1>1, <1>6 DEF u, v, z, c

(* The numbers and the keys that CHECKMULTISIG finds. *)
LEMMA QuorumStack ==
    ASSUME NEW keys, IsList(keys), NEW w, IsList(w), NEW digest, NEW n \in Nat, Len(keys) = n
    PROVE  \E s : /\ IsList(s) /\ Len(s) = Len(w) + n + 2
                  /\ Top(s, 0) = pushNumber(n) /\ Top(s, n + 1) = pushNumber(n)
                  /\ \A i \in 1 .. n : Top(s, n + 1 - i) = pushPubkey(keys[i])
                  /\ \A i \in 1 .. Len(w) : s[i] = w[i]
                  /\ Evaluate(MultisigBody(keys), {Evaluation(w, << >>)}, digest)
                       = Machines(CheckMultisig(s, digest), << >>)
<1> DEFINE l == Len(w)
           x == pushNumber(n)
           A == <<x>>
           K == [i \in DOMAIN keys |-> pushPubkey(keys[i])]
           B == A \o K
           C == <<x>>
           o == op("CHECKMULTISIG")
           u == w \o B
           s == u \o C
<1>1. l \in Nat /\ Len(w) = l
  BY DEF IsList
<1>2. IsList(K) /\ Len(K) = n /\ \A i \in 1 .. n : K[i] = pushPubkey(keys[i])
  <2>1. DOMAIN keys = 1 .. n
    BY DEF IsList
  <2>2. K = [i \in 1 .. n |-> K[i]] /\ \A i \in 1 .. n : K[i] = pushPubkey(keys[i])
    BY <2>1
  <2> HIDE DEF K
  <2> QED BY <2>2, ListIsSeq
<1>3. IsList(A) /\ Len(A) = 1 /\ A[1] = x
  BY ListOfTwo
<1>4. MultisigBody(keys) = B \o <<x, o>>
  BY DEF MultisigBody
<1>5. x[1] # "op" /\ \A i \in 1 .. n : K[i][1] # "op"
  BY <1>2 DEF pushNumber, pushPubkey
<1> HIDE DEF A, K, x, l
<1>6. /\ IsList(B) /\ Len(B) = 1 + n /\ B[1] = x
      /\ \A i \in 1 .. n : B[1 + i] = K[i]
  <2>1. /\ IsList(B) /\ Len(B) = Len(A) + Len(K)
        /\ \A i \in 1 .. Len(A) : B[i] = A[i]
        /\ \A i \in 1 .. Len(K) : B[Len(A) + i] = K[i]
    <3>1. IsList(A) /\ IsList(K)
      BY <1>2, <1>3
    <3> QED BY <3>1, ListConcat
  <2> HIDE DEF B
  <2>2. 1 \in 1 .. Len(A)
    BY <1>3
  <2> QED BY <1>2, <1>3, <2>1, <2>2
<1> HIDE DEF B
<1>7. \A i \in 1 .. Len(B) : B[i][1] # "op"
  <2> SUFFICES ASSUME NEW i \in 1 .. Len(B) PROVE B[i][1] # "op"
    OBVIOUS
  <2>1. CASE i = 1
    BY <1>5, <1>6, <2>1
  <2>2. CASE i # 1
    <3> DEFINE j == i - 1
    <3>1. j \in 1 .. n /\ i = 1 + j
      BY <1>6, <2>2
    <3> QED BY <1>5, <1>6, <3>1
  <2> QED BY <2>1, <2>2
<1>8. Evaluate(B, {Evaluation(w, << >>)}, digest) = {Evaluation(u, << >>)}
  BY <1>6, <1>7, PushAll
<1>9. /\ IsList(u) /\ Len(u) = l + (1 + n)
      /\ \A i \in 1 .. l : u[i] = w[i]
      /\ \A i \in 1 .. 1 + n : u[l + i] = B[i]
  <2>1. /\ IsList(u) /\ Len(u) = Len(w) + Len(B)
        /\ \A i \in 1 .. Len(w) : u[i] = w[i]
        /\ \A i \in 1 .. Len(B) : u[Len(w) + i] = B[i]
    BY <1>6, ListConcat
  <2> HIDE DEF u
  <2> QED BY <1>1, <1>6, <2>1
<1> HIDE DEF u
<1>10. IsList(C) /\ Len(C) = 1 /\ C[1] = x /\ \A i \in 1 .. Len(C) : C[i][1] # "op"
  <2>1. IsList(C) /\ Len(C) = 1 /\ C[1] = x
    BY ListOfTwo
  <2> HIDE DEF C
  <2> QED BY <1>5, <2>1
<1>11. <<x, o>> = C \o <<o>> /\ IsList(<<x, o>>)
  BY ListOfTwo
<1> HIDE DEF C
<1>12. Evaluate(C, {Evaluation(u, << >>)}, digest) = {Evaluation(s, << >>)}
  BY <1>9, <1>10, PushAll
<1>13. /\ IsList(s) /\ Len(s) = l + n + 2
       /\ \A i \in 1 .. l + (1 + n) : s[i] = u[i]
       /\ s[l + n + 2] = x
  <2>1. /\ IsList(s) /\ Len(s) = Len(u) + Len(C)
        /\ \A i \in 1 .. Len(u) : s[i] = u[i]
        /\ \A i \in 1 .. Len(C) : s[Len(u) + i] = C[i]
    <3>1. IsList(u) /\ IsList(C)
      BY <1>9, <1>10
    <3> QED BY <3>1, ListConcat
  <2> HIDE DEF s
  <2>2. 1 \in 1 .. Len(C) /\ Len(u) + 1 = l + n + 2 /\ Len(u) + Len(C) = l + n + 2
    BY <1>1, <1>9, <1>10
  <2> QED BY <1>9, <1>10, <2>1, <2>2
<1> HIDE DEF s
<1>14. /\ Evaluate(MultisigBody(keys), {Evaluation(w, << >>)}, digest)
            = Evaluate(<<x, o>>, {Evaluation(u, << >>)}, digest)
       /\ Evaluate(<<x, o>>, {Evaluation(u, << >>)}, digest)
            = Evaluate(<<o>>, {Evaluation(s, << >>)}, digest)
  <2>1. IsList(<<o>>)
    BY ListOfTwo
  <2>2. Evaluate(B \o <<x, o>>, {Evaluation(w, << >>)}, digest)
          = Evaluate(<<x, o>>, Evaluate(B, {Evaluation(w, << >>)}, digest), digest)
    BY <1>6, <1>11, EvaluateConcat
  <2>3. Evaluate(C \o <<o>>, {Evaluation(u, << >>)}, digest)
          = Evaluate(<<o>>, Evaluate(C, {Evaluation(u, << >>)}, digest), digest)
    BY <1>10, <2>1, EvaluateConcat
  <2> QED BY <1>4, <1>8, <1>11, <1>12, <2>2, <2>3
<1>15. Evaluate(<<o>>, {Evaluation(s, << >>)}, digest) = Machines(CheckMultisig(s, digest), << >>)
  <2>1. Evaluate(<<o>>, {Evaluation(s, << >>)}, digest) = Exec(Evaluation(s, << >>), o, digest)
    BY EvaluateToken, StepsOfOne
  <2>2. PlainToken(o) /\ AllTrue(<< >>)
    BY DEF PlainToken, op, AllTrue
  <2>3. Apply(s, o, digest) = CheckMultisig(s, digest)
    BY DEF Apply, op
  <2> HIDE DEF o
  <2> QED BY <2>1, <2>2, <2>3, PlainStep
<1>16. Top(s, 0) = x /\ Top(s, n + 1) = x
  <2>1. Len(s) - 0 = l + n + 2 /\ Len(s) - (n + 1) = l + 1 /\ 1 \in 1 .. 1 + n
        /\ l + 1 \in 1 .. l + (1 + n)
    BY <1>1, <1>13
  <2>2. s[l + 1] = u[l + 1] /\ u[l + 1] = B[1]
    BY <1>9, <1>13, <2>1
  <2> QED BY <1>6, <1>13, <2>1, <2>2 DEF Top
<1>17. \A i \in 1 .. n : Top(s, n + 1 - i) = pushPubkey(keys[i])
  <2> SUFFICES ASSUME NEW i \in 1 .. n PROVE Top(s, n + 1 - i) = pushPubkey(keys[i])
    OBVIOUS
  <2>1. Len(s) - (n + 1 - i) = l + (1 + i) /\ 1 + i \in 1 .. 1 + n
        /\ l + (1 + i) \in 1 .. l + (1 + n)
    BY <1>1, <1>13
  <2>2. s[l + (1 + i)] = u[l + (1 + i)] /\ u[l + (1 + i)] = B[1 + i]
    BY <1>9, <1>13, <2>1
  <2> QED BY <1>2, <1>6, <2>1, <2>2 DEF Top
<1>18. \A i \in 1 .. l : s[i] = w[i]
  <2>1. \A i \in 1 .. l : i \in 1 .. l + (1 + n)
    BY <1>1
  <2> QED BY <1>9, <1>13, <2>1
<1> QED BY <1>1, <1>13, <1>14, <1>15, <1>16, <1>17, <1>18 DEF x

(* An n-of-n script wants the signature of every key, the keys in their    *)
(* order, and one element below them.                                      *)
LEMMA SpendsMultisig ==
    ASSUME NEW keys, IsList(keys), NEW w, IsList(w), NEW digest, NEW n \in Nat, Len(keys) = n
    PROVE  Spends(MultisigBody(keys), w, digest) <=>
             /\ Len(w) >= n + 1
             /\ \A i \in 1 .. n : Same(w[Len(w) - n + i], Sig(keys[i], digest))
<1> DEFINE l == Len(w)
<1>1. l \in Nat /\ Len(w) = l
  BY DEF IsList
<1>2. PICK s : /\ IsList(s) /\ Len(s) = Len(w) + n + 2
               /\ Top(s, 0) = pushNumber(n) /\ Top(s, n + 1) = pushNumber(n)
               /\ \A i \in 1 .. n : Top(s, n + 1 - i) = pushPubkey(keys[i])
               /\ \A i \in 1 .. Len(w) : s[i] = w[i]
               /\ Evaluate(MultisigBody(keys), {Evaluation(w, << >>)}, digest)
                    = Machines(CheckMultisig(s, digest), << >>)
  BY QuorumStack
<1> HIDE DEF l
<1> DEFINE signed ==
             \A i \in 1 .. n : Same(Top(s, n + n + 2 - i), Sig(Top(s, n + 1 - i)[2], digest))
           t == Replace(s, n + n + 3, Bool(signed))
<1>3. CheckMultisig(s, digest) = IF Len(s) < n + n + 3 THEN {} ELSE {t}
  <2>1. Top(s, 0) = pushNumber(n) /\ Top(s, n + 1) = pushNumber(n)
    BY <1>2
  <2> QED BY <2>1, CheckQuorum, ZenonT(30)
<1>4. Spends(MultisigBody(keys), w, digest) <=> Satisfied(CheckMultisig(s, digest))
  BY <1>2, SpendsByStacks
<1>5. Len(s) < n + n + 3 <=> ~(l >= n + 1)
  BY <1>1, <1>2
<1>6. CASE l >= n + 1
  <2>1. n + n + 3 \in 0 .. Len(s)
    BY <1>1, <1>2, <1>6
  <2>2. Len(t) = Len(s) - (n + n + 3) + 1 /\ Top(t, 0) = Bool(signed)
    <3> DEFINE k == n + n + 3
               b == Bool(signed)
    <3> HIDE DEF k, b, signed
    <3>1. k \in 0 .. Len(s)
      BY <2>1 DEF k
    <3>2. Len(Replace(s, k, b)) = Len(s) - k + 1 /\ Top(Replace(s, k, b), 0) = b
      BY <1>2, <3>1, ListReplace
    <3> QED BY <3>2 DEF k, b
  <2>3. Len(t) >= 1
    <3> HIDE DEF t
    <3> QED BY <1>1, <1>2, <2>1, <2>2
  <2>4. Truthy(Bool(signed)) <=> signed
    <3>1. signed \in BOOLEAN
      OBVIOUS
    <3> HIDE DEF signed
    <3> QED BY <3>1, TruthOf
  <2>5. signed <=> \A i \in 1 .. n : Same(w[l - n + i], Sig(keys[i], digest))
    <3>1. \A i \in 1 .. n : /\ Top(s, n + n + 2 - i) = w[l - n + i]
                            /\ Top(s, n + 1 - i)[2] = keys[i]
      <4> SUFFICES ASSUME NEW i \in 1 .. n
                   PROVE  /\ Top(s, n + n + 2 - i) = w[l - n + i]
                          /\ Top(s, n + 1 - i)[2] = keys[i]
        OBVIOUS
      <4>1. Len(s) - (n + n + 2 - i) = l - n + i /\ l - n + i \in 1 .. l
        BY <1>1, <1>2, <1>6
      <4>2. s[l - n + i] = w[l - n + i]
        BY <1>1, <1>2, <4>1
      <4>3. pushPubkey(keys[i])[2] = keys[i]
        BY DEF pushPubkey
      <4> QED BY <1>2, <4>1, <4>2, <4>3 DEF Top
    <3> QED BY <3>1
  <2> HIDE DEF signed, t
  <2>6. CheckMultisig(s, digest) = {t}
    BY <1>3, <1>5, <1>6
  <2>7. Satisfied({t}) <=> signed
    BY <2>2, <2>3, <2>4 DEF Satisfied
  <2> QED BY <1>1, <1>4, <1>6, <2>5, <2>6, <2>7
<1>7. CASE ~(l >= n + 1)
  BY <1>1, <1>3, <1>4, <1>5, <1>7 DEF Satisfied
<1> QED BY <1>6, <1>7

-----------------------------------------------------------------------------
(* Branches.  A body is executed, or skipped, as one. *)

StacksOf(body, w, digest) == {m.stack : m \in Evaluate(body, {Evaluation(w, << >>)}, digest)}

Block(body, digest) ==
    /\ IsList(body)
    /\ \A c, stacks : IsList(c) /\ ~AllTrue(c) =>
          Evaluate(body, Machines(stacks, c), digest) = Machines(stacks, c)
    /\ \A c, w : IsList(c) /\ AllTrue(c) =>
          Evaluate(body, {Evaluation(w, c)}, digest) = Machines(StacksOf(body, w, digest), c)

LEMMA StacksOfMachines ==
    ASSUME NEW stacks, NEW c
    PROVE  {m.stack : m \in Machines(stacks, c)} = stacks
<1>1. \A s : Evaluation(s, c).stack = s
  BY Parts
<1> QED BY <1>1 DEF Machines

LEMMA SpendsStacks ==
    ASSUME NEW script, NEW w, NEW digest
    PROVE  Spends(script, w, digest) <=> Satisfied(StacksOf(script, w, digest))
BY DEF Spends, Satisfied, StacksOf

(* A token that does to each evaluation the same. *)
LEMMA StepsMap ==
    ASSUME NEW stacks, NEW c, NEW e, NEW token, NEW digest,
           \A s : Exec(Evaluation(s, c), token, digest) = {Evaluation(s, e)}
    PROVE  Steps(Machines(stacks, c), token, digest) = Machines(stacks, e)
BY DEF Steps, Machines

LEMMA PlainSteps ==
    ASSUME NEW stacks, NEW c, AllTrue(c), NEW token, PlainToken(token), NEW digest
    PROVE  Steps(Machines(stacks, c), token, digest)
             = Machines(UNION {Apply(s, token, digest) : s \in stacks}, c)
<1>1. \A s : Exec(Evaluation(s, c), token, digest) = Machines(Apply(s, token, digest), c)
  BY PlainStep
<1> QED BY <1>1 DEF Steps, Machines

LEMMA PlainSkips ==
    ASSUME NEW s, NEW c, ~AllTrue(c), NEW token, PlainToken(token), NEW digest
    PROVE  Exec(Evaluation(s, c), token, digest) = {Evaluation(s, c)}
<1> DEFINE m == Evaluation(s, c)
<1>1. m.stack = s /\ m.conds = c
  BY Parts
<1>2. ~Runs(m)
  BY <1>1 DEF Runs, AllTrue
<1> HIDE DEF m
<1>3. Exec(m, token, digest) = {m}
  BY <1>2 DEF Exec, PlainToken
<1> QED BY <1>3 DEF m

(* A body without IF, ELSE and ENDIF. *)
LEMMA PlainBlock ==
    ASSUME NEW body, IsList(body), NEW digest, \A i \in 1 .. Len(body) : PlainToken(body[i])
    PROVE  Block(body, digest)
<1> DEFINE n == Len(body)
<1>1. n \in Nat /\ Len(body) = n /\ \A i \in 1 .. n : PlainToken(body[i])
  BY DEF IsList
<1> HIDE DEF n
<1>2. ASSUME NEW c, NEW stacks, IsList(c), ~AllTrue(c)
      PROVE  Evaluate(body, Machines(stacks, c), digest) = Machines(stacks, c)
  <2> DEFINE f == [k \in 0 .. n |-> Machines(stacks, c)]
  <2>1. /\ f[0] = Machines(stacks, c) /\ f[n] = Machines(stacks, c)
        /\ \A k \in 1 .. n : f[k] = Machines(stacks, c) /\ f[k - 1] = Machines(stacks, c)
    BY <1>1
  <2> HIDE DEF f
  <2>2. \A k \in 1 .. n : Steps(Machines(stacks, c), body[k], digest) = Machines(stacks, c)
    <3> SUFFICES ASSUME NEW k \in 1 .. n
                 PROVE  Steps(Machines(stacks, c), body[k], digest) = Machines(stacks, c)
      OBVIOUS
    <3>1. \A s : Exec(Evaluation(s, c), body[k], digest) = {Evaluation(s, c)}
      BY <1>1, <1>2, PlainSkips
    <3> QED BY <3>1, StepsMap
  <2>3. IsTrace(f, body, Machines(stacks, c), digest, n)
    BY <2>1, <2>2 DEF IsTrace
  <2>4. Evaluate(body, Machines(stacks, c), digest) = f[n]
    BY <1>1, <2>3, EvaluateEnds
  <2> QED BY <2>1, <2>4
<1>3. ASSUME NEW c, NEW w, IsList(c), AllTrue(c)
      PROVE  Evaluate(body, {Evaluation(w, c)}, digest) = Machines(StacksOf(body, w, digest), c)
  <2>1. PICK g : IsAfter(g, body, {Evaluation(w, << >>)}, digest, n)
    BY <1>1, AfterExists
  <2>2. IsTrace(g, body, {Evaluation(w, << >>)}, digest, n)
    BY <1>1, <2>1, AfterStep
  <2>3. Evaluate(body, {Evaluation(w, << >>)}, digest) = g[n]
    BY <1>1, <2>2, EvaluateEnds
  <2>4. AllTrue(<< >>)
    BY DEF AllTrue
  <2> DEFINE h(k) == {m.stack : m \in g[k]}
             next(k) == UNION {Apply(s, body[k], digest) : s \in h(k - 1)}
             T == {k \in 0 .. n : g[k] # Machines(h(k), << >>)}
  <2>5. g[0] = {Evaluation(w, << >>)} /\ h(0) = {w}
    <3>1. g[0] = {Evaluation(w, << >>)}
      BY <2>2 DEF IsTrace
    <3> QED BY <3>1, Parts
  <2>6. \A k \in 1 .. n : g[k - 1] = Machines(h(k - 1), << >>) =>
           g[k] = Machines(next(k), << >>) /\ h(k) = next(k)
    <3> SUFFICES ASSUME NEW k \in 1 .. n, g[k - 1] = Machines(h(k - 1), << >>)
                 PROVE  g[k] = Machines(next(k), << >>) /\ h(k) = next(k)
      OBVIOUS
    <3>1. g[k] = Steps(g[k - 1], body[k], digest)
      BY <2>2 DEF IsTrace
    <3> DEFINE p == h(k - 1)
               q == next(k)
    <3>2. Steps(Machines(p, << >>), body[k], digest)
            = Machines(UNION {Apply(s, body[k], digest) : s \in p}, << >>)
      <4> HIDE DEF p
      <4> QED BY <1>1, <2>4, PlainSteps
    <3>3. g[k] = Machines(q, << >>)
      BY <3>1, <3>2
    <3>4. h(k) = q
      <4> HIDE DEF q
      <4> QED BY <3>3, StacksOfMachines
    <3> QED BY <3>3, <3>4
  <2>7. T = {}
    <3> SUFFICES ASSUME T # {} PROVE FALSE
      OBVIOUS
    <3>1. T \subseteq Nat
      BY <1>1
    <3>2. PICK k \in T : \A y \in T : k <= y
      <4> HIDE DEF T
      <4> QED BY <3>1, LeastNat
    <3>3. g[0] = Machines(h(0), << >>)
      BY <2>5 DEF Machines
    <3> HIDE DEF h, next
    <3>4. k \in 0 .. n /\ k # 0 /\ g[k] # Machines(h(k), << >>)
      BY <3>3
    <3>5. k \in 1 .. n /\ k - 1 \in 0 .. n /\ ~(k <= k - 1)
      BY <1>1, <3>4
    <3>6. k - 1 \notin T
      <4> HIDE DEF T
      <4> QED BY <3>2, <3>5
    <3>7. g[k - 1] = Machines(h(k - 1), << >>)
      BY <3>5, <3>6
    <3> QED BY <2>6, <3>4, <3>5, <3>7
  <2>8. \A k \in 1 .. n : h(k) = next(k)
    <3> SUFFICES ASSUME NEW k \in 1 .. n PROVE h(k) = next(k)
      OBVIOUS
    <3> HIDE DEF h, next
    <3>1. k - 1 \in 0 .. n
      BY <1>1
    <3> QED BY <2>6, <2>7, <3>1
  <2> DEFINE f == [k \in 0 .. n |-> Machines(h(k), c)]
  <2>9. /\ f[0] = Machines(h(0), c) /\ f[n] = Machines(h(n), c)
        /\ \A k \in 1 .. n : f[k] = Machines(h(k), c) /\ f[k - 1] = Machines(h(k - 1), c)
    <3> HIDE DEF h
    <3>1. 0 \in 0 .. n /\ n \in 0 .. n /\ \A k \in 1 .. n : k \in 0 .. n /\ k - 1 \in 0 .. n
      BY <1>1
    <3> QED BY <3>1
  <2>10. \A k \in 1 .. n : Steps(Machines(h(k - 1), c), body[k], digest) = Machines(next(k), c)
    <3> SUFFICES ASSUME NEW k \in 1 .. n
                 PROVE  Steps(Machines(h(k - 1), c), body[k], digest) = Machines(next(k), c)
      OBVIOUS
    <3> DEFINE p == h(k - 1)
    <3>1. Steps(Machines(p, c), body[k], digest)
            = Machines(UNION {Apply(s, body[k], digest) : s \in p}, c)
      <4> HIDE DEF p
      <4> QED BY <1>1, <1>3, PlainSteps
    <3> QED BY <3>1
  <2>11. f[0] = {Evaluation(w, c)}
    BY <2>5, <2>9 DEF Machines
  <2>12. h(n) = StacksOf(body, w, digest)
    BY <2>3 DEF StacksOf
  <2> HIDE DEF f, h, next
  <2>13. IsTrace(f, body, {Evaluation(w, c)}, digest, n)
    BY <2>8, <2>9, <2>10, <2>11 DEF IsTrace
  <2>14. Evaluate(body, {Evaluation(w, c)}, digest) = f[n]
    BY <1>1, <2>13, EvaluateEnds
  <2> QED BY <2>9, <2>12, <2>14
<1> QED BY <1>2, <1>3 DEF Block

LEMMA PopAppend ==
    ASSUME NEW s, IsList(s), NEW x
    PROVE  /\ IsList(Append(s, x)) /\ Len(Append(s, x)) = Len(s) + 1
           /\ Top(Append(s, x), 0) = x /\ Pop(Append(s, x), 1) = s
<1> DEFINE l == Len(s)
           u == Append(s, x)
           v == Pop(u, 1)
<1>1. l \in Nat /\ Len(s) = l
  BY DEF IsList
<1>2. /\ IsList(u) /\ Len(u) = l + 1 /\ u[l + 1] = x
      /\ \A i \in 1 .. l : u[i] = s[i]
  BY ListAppend
<1> HIDE DEF l, u
<1>3. 1 \in 0 .. Len(u) /\ Len(u) - 1 = l /\ Len(u) - 0 = l + 1
  BY <1>1, <1>2
<1>4. IsList(v) /\ Len(v) = Len(u) - 1 /\ \A i \in 1 .. Len(u) - 1 : v[i] = u[i]
  BY <1>2, <1>3, ListPop
<1> HIDE DEF v
<1>5. Len(v) = Len(s) /\ \A i \in 1 .. Len(v) : v[i] = s[i]
  BY <1>1, <1>2, <1>3, <1>4
<1>6. v = s
  BY <1>4, <1>5, ListsEqual
<1> QED BY <1>1, <1>2, <1>3, <1>6 DEF u, v, Top

LEMMA AllTrueAppend ==
    ASSUME NEW c, IsList(c), NEW b \in BOOLEAN
    PROVE  AllTrue(Append(c, b)) <=> AllTrue(c) /\ b
<1> DEFINE l == Len(c)
           u == Append(c, b)
<1>1. l \in Nat /\ DOMAIN c = 1 .. l
  BY DEF IsList
<1>2. /\ IsList(u) /\ Len(u) = l + 1 /\ u[l + 1] = b
      /\ \A i \in 1 .. l : u[i] = c[i]
  BY ListAppend
<1> HIDE DEF l, u
<1>3. DOMAIN u = 1 .. l + 1
  BY <1>1, <1>2 DEF IsList
<1>4. ASSUME AllTrue(u) PROVE AllTrue(c) /\ b
  <2>1. l + 1 \in 1 .. l + 1 /\ \A i \in 1 .. l : i \in 1 .. l + 1
    BY <1>1
  <2>2. \A i \in 1 .. l + 1 : u[i]
    BY <1>3, <1>4 DEF AllTrue
  <2>3. b
    BY <1>2, <2>1, <2>2
  <2>4. \A i \in 1 .. l : c[i]
    BY <1>2, <2>1, <2>2
  <2> QED BY <1>1, <2>3, <2>4 DEF AllTrue
<1>5. ASSUME AllTrue(c), b PROVE AllTrue(u)
  <2>1. \A i \in 1 .. l : c[i]
    BY <1>1, <1>5 DEF AllTrue
  <2>2. ASSUME NEW i \in 1 .. l + 1 PROVE u[i]
    <3>1. CASE i \in 1 .. l
      BY <1>2, <2>1, <3>1
    <3>2. CASE i = l + 1
      BY <1>2, <1>5, <3>2
    <3> QED BY <1>1, <3>1, <3>2
  <2> QED BY <1>3, <2>2 DEF AllTrue
<1> QED BY <1>4, <1>5 DEF u

LEMMA IfSkips ==
    ASSUME NEW s, NEW c, ~AllTrue(c), NEW digest
    PROVE  Exec(Evaluation(s, c), op("IF"), digest) = {Evaluation(s, Append(c, FALSE))}
<1> DEFINE m == Evaluation(s, c)
<1>1. m.stack = s /\ m.conds = c
  BY Parts
<1>2. ~Runs(m)
  BY <1>1 DEF Runs, AllTrue
<1> HIDE DEF m
<1>3. Exec(m, op("IF"), digest) = {Evaluation(m.stack, Append(m.conds, FALSE))}
  BY <1>2 DEF Exec, op
<1> QED BY <1>1, <1>3 DEF m

LEMMA IfTakes ==
    ASSUME NEW s, NEW c, AllTrue(c), NEW digest
    PROVE  Exec(Evaluation(s, c), op("IF"), digest) =
             IF Len(s) < 1 THEN {}
             ELSE {Evaluation(Pop(s, 1), Append(c, Truthy(Top(s, 0))))}
<1> DEFINE m == Evaluation(s, c)
<1>1. m.stack = s /\ m.conds = c
  BY Parts
<1>2. Runs(m)
  BY <1>1 DEF Runs, AllTrue
<1> HIDE DEF m
<1>3. Exec(m, op("IF"), digest) =
        IF Len(m.stack) < 1 THEN {}
        ELSE {Evaluation(Pop(m.stack, 1), Append(m.conds, Truthy(Top(m.stack, 0))))}
  BY <1>2 DEF Exec, op
<1> QED BY <1>1, <1>3 DEF m

LEMMA ElseFlips ==
    ASSUME NEW s, NEW c, IsList(c), NEW b, NEW digest
    PROVE  Exec(Evaluation(s, Append(c, b)), op("ELSE"), digest) = {Evaluation(s, Append(c, ~b))}
<1> DEFINE e == Append(c, b)
           m == Evaluation(s, e)
<1>1. m.stack = s /\ m.conds = e
  BY Parts
<1>2. Top(e, 0) = b /\ Pop(e, 1) = c
  BY PopAppend
<1> HIDE DEF m, e
<1>3. Exec(m, op("ELSE"), digest) = {Evaluation(m.stack, Append(Pop(m.conds, 1), ~Top(m.conds, 0)))}
  BY DEF Exec, op
<1> QED BY <1>1, <1>2, <1>3 DEF m, e

LEMMA EndifPops ==
    ASSUME NEW s, NEW c, IsList(c), NEW b, NEW digest
    PROVE  Exec(Evaluation(s, Append(c, b)), op("ENDIF"), digest) = {Evaluation(s, c)}
<1> DEFINE e == Append(c, b)
           m == Evaluation(s, e)
<1>1. m.stack = s /\ m.conds = e
  BY Parts
<1>2. Pop(e, 1) = c
  BY PopAppend
<1> HIDE DEF m, e
<1>3. Exec(m, op("ENDIF"), digest) = {Evaluation(m.stack, Pop(m.conds, 1))}
  BY DEF Exec, op
<1> QED BY <1>1, <1>2, <1>3 DEF m, e

LEMMA EitherSteps ==
    ASSUME NEW b, NEW o, IsList(b), IsList(o), NEW ms, NEW digest
    PROVE  /\ IsList(Either(b, o))
           /\ Evaluate(Either(b, o), ms, digest)
                = Steps(Evaluate(o, Steps(Evaluate(b, Steps(ms, op("IF"), digest), digest),
                                          op("ELSE"), digest), digest),
                        op("ENDIF"), digest)
<1> DEFINE i == <<op("IF")>>
           e == <<op("ELSE")>>
           f == <<op("ENDIF")>>
           p == i \o b
           q == p \o e
           r == q \o o
<1>1. /\ IsList(i) /\ IsList(e) /\ IsList(f)
      /\ \A s : /\ Evaluate(i, s, digest) = Steps(s, op("IF"), digest)
                /\ Evaluate(e, s, digest) = Steps(s, op("ELSE"), digest)
                /\ Evaluate(f, s, digest) = Steps(s, op("ENDIF"), digest)
  BY EvaluateToken
<1>2. Either(b, o) = r \o f
  BY DEF Either
<1> HIDE DEF i, e, f
<1>3. IsList(p) /\ \A s : Evaluate(p, s, digest) = Evaluate(b, Evaluate(i, s, digest), digest)
  BY <1>1, ListConcat, EvaluateConcat
<1> HIDE DEF p
<1>4. IsList(q) /\ \A s : Evaluate(q, s, digest) = Evaluate(e, Evaluate(p, s, digest), digest)
  BY <1>1, <1>3, ListConcat, EvaluateConcat
<1> HIDE DEF q
<1>5. IsList(r) /\ \A s : Evaluate(r, s, digest) = Evaluate(o, Evaluate(q, s, digest), digest)
  BY <1>4, ListConcat, EvaluateConcat
<1> HIDE DEF r
<1>6. IsList(r \o f)
      /\ \A s : Evaluate(r \o f, s, digest) = Evaluate(f, Evaluate(r, s, digest), digest)
  BY <1>1, <1>5, ListConcat, EvaluateConcat
<1> QED BY <1>1, <1>2, <1>3, <1>4, <1>5, <1>6

(* The stacks of the branch that the top of the stack selects. *)
Chosen(b, o, w, digest) ==
    IF Len(w) < 1 THEN {}
    ELSE IF Truthy(Top(w, 0)) THEN StacksOf(b, Pop(w, 1), digest)
    ELSE StacksOf(o, Pop(w, 1), digest)

LEMMA EitherRuns ==
    ASSUME NEW b, NEW o, NEW digest, Block(b, digest), Block(o, digest),
           NEW c, IsList(c), AllTrue(c), NEW w
    PROVE  Evaluate(Either(b, o), {Evaluation(w, c)}, digest) = Machines(Chosen(b, o, w, digest), c)
<1> DEFINE t == Append(c, TRUE)
           u == Append(c, FALSE)
           p == Pop(w, 1)
           v == Truthy(Top(w, 0))
<1>1. IsList(b) /\ IsList(o)
  BY DEF Block
<1>2. IsList(t) /\ IsList(u) /\ AllTrue(t) /\ ~AllTrue(u)
  <2>1. IsList(t) /\ IsList(u)
    BY ListAppend
  <2>2. (AllTrue(t) <=> AllTrue(c) /\ TRUE) /\ (AllTrue(u) <=> AllTrue(c) /\ FALSE)
    BY AllTrueAppend
  <2> QED BY <2>1, <2>2
<1>3. \A s : /\ Exec(Evaluation(s, t), op("ELSE"), digest) = {Evaluation(s, u)}
             /\ Exec(Evaluation(s, u), op("ELSE"), digest) = {Evaluation(s, t)}
  <2>1. \A s, z : Exec(Evaluation(s, Append(c, z)), op("ELSE"), digest)
                    = {Evaluation(s, Append(c, ~z))}
    BY ElseFlips
  <2>2. (~TRUE) = FALSE /\ (~FALSE) = TRUE
    OBVIOUS
  <2> QED BY <2>1, <2>2
<1>4. \A s : /\ Exec(Evaluation(s, t), op("ENDIF"), digest) = {Evaluation(s, c)}
             /\ Exec(Evaluation(s, u), op("ENDIF"), digest) = {Evaluation(s, c)}
  BY EndifPops
<1> DEFINE m0 == {Evaluation(w, c)}
           m1 == Steps(m0, op("IF"), digest)
           m2 == Evaluate(b, m1, digest)
           m3 == Steps(m2, op("ELSE"), digest)
           m4 == Evaluate(o, m3, digest)
           m5 == Steps(m4, op("ENDIF"), digest)
<1>5. Evaluate(Either(b, o), m0, digest) = m5
  BY <1>1, EitherSteps
<1>6. m1 = IF Len(w) < 1 THEN {} ELSE {Evaluation(p, Append(c, v))}
  <2>1. m1 = Exec(Evaluation(w, c), op("IF"), digest)
    BY StepsOfOne
  <2>2. Exec(Evaluation(w, c), op("IF"), digest)
          = IF Len(w) < 1 THEN {} ELSE {Evaluation(Pop(w, 1), Append(c, Truthy(Top(w, 0))))}
    BY IfTakes
  <2> HIDE DEF m1
  <2> QED BY <2>1, <2>2
<1>7. v \in BOOLEAN
  BY DEF Truthy
<1> HIDE DEF t, u, p, v, m0, m1
<1>8. CASE Len(w) < 1
  <2>1. m1 = {}
    BY <1>6, <1>8
  <2>2. \A token : Steps({}, token, digest) = {}
    BY DEF Steps
  <2>3. m2 = {}
    BY <1>1, <2>1, EvaluateNothing
  <2>4. m3 = {}
    BY <2>2, <2>3
  <2> HIDE DEF m3
  <2>5. m4 = {}
    BY <1>1, <2>4, EvaluateNothing
  <2> HIDE DEF m4
  <2>6. m5 = {}
    BY <2>2, <2>5
  <2> QED BY <1>5, <1>8, <2>6 DEF Chosen, Machines, m0
<1>9. CASE ~(Len(w) < 1) /\ v
  <2> DEFINE x == StacksOf(b, p, digest)
  <2>1. m1 = {Evaluation(p, t)}
    <3>1. v = TRUE
      BY <1>7, <1>9
    <3> QED BY <1>6, <1>9, <3>1 DEF t
  <2>2. m2 = Machines(x, t)
    BY <1>2, <2>1 DEF Block
  <2> HIDE DEF x, m2
  <2>3. m3 = Machines(x, u)
    BY <1>3, <2>2, StepsMap
  <2> HIDE DEF m3
  <2>4. m4 = Machines(x, u)
    BY <1>2, <2>3 DEF Block
  <2> HIDE DEF m4
  <2>5. m5 = Machines(x, c)
    BY <1>4, <2>4, StepsMap
  <2>6. Chosen(b, o, w, digest) = x
    BY <1>9 DEF Chosen, x, p, v
  <2> QED BY <1>5, <2>5, <2>6 DEF m0
<1>10. CASE ~(Len(w) < 1) /\ ~v
  <2> DEFINE x == StacksOf(o, p, digest)
             y == {p}
  <2>1. m1 = Machines(y, u)
    <3>1. v = FALSE
      BY <1>7, <1>10
    <3> QED BY <1>6, <1>10, <3>1 DEF u, Machines
  <2>2. Machines(y, t) = {Evaluation(p, t)}
    BY DEF Machines
  <2> HIDE DEF y
  <2>3. m2 = Machines(y, u)
    BY <1>2, <2>1 DEF Block
  <2> HIDE DEF m2
  <2>4. m3 = Machines(y, t)
    BY <1>3, <2>3, StepsMap
  <2> HIDE DEF m3
  <2>5. m4 = Machines(x, t)
    BY <1>2, <2>2, <2>4 DEF Block
  <2> HIDE DEF m4, x
  <2>6. m5 = Machines(x, c)
    BY <1>4, <2>5, StepsMap
  <2>7. Chosen(b, o, w, digest) = x
    BY <1>10 DEF Chosen, x, p, v
  <2> QED BY <1>5, <2>6, <2>7 DEF m0
<1> QED BY <1>8, <1>9, <1>10 DEF m0

(* Two branches are a body again, and only the selected one counts. *)
LEMMA EitherBlock ==
    ASSUME NEW b, NEW o, NEW digest, Block(b, digest), Block(o, digest)
    PROVE  /\ Block(Either(b, o), digest)
           /\ \A w : StacksOf(Either(b, o), w, digest) = Chosen(b, o, w, digest)
<1> DEFINE e == Either(b, o)
<1>1. IsList(b) /\ IsList(o)
  BY DEF Block
<1>2. IsList(e)
  BY <1>1, EitherSteps
<1>3. ASSUME NEW w PROVE StacksOf(e, w, digest) = Chosen(b, o, w, digest)
  <2>1. IsList(<< >>) /\ AllTrue(<< >>)
    BY EmptyList DEF AllTrue
  <2>2. Evaluate(e, {Evaluation(w, << >>)}, digest) = Machines(Chosen(b, o, w, digest), << >>)
    BY <2>1, EitherRuns
  <2> HIDE DEF e
  <2> QED BY <2>2, StacksOfMachines DEF StacksOf
<1>4. ASSUME NEW c, NEW w, IsList(c), AllTrue(c)
      PROVE  Evaluate(e, {Evaluation(w, c)}, digest) = Machines(StacksOf(e, w, digest), c)
  BY <1>3, <1>4, EitherRuns
<1>5. ASSUME NEW c, NEW stacks, IsList(c), ~AllTrue(c)
      PROVE  Evaluate(e, Machines(stacks, c), digest) = Machines(stacks, c)
  <2> DEFINE t == Append(c, TRUE)
             u == Append(c, FALSE)
             m1 == Steps(Machines(stacks, c), op("IF"), digest)
             m2 == Evaluate(b, m1, digest)
             m3 == Steps(m2, op("ELSE"), digest)
             m4 == Evaluate(o, m3, digest)
             m5 == Steps(m4, op("ENDIF"), digest)
  <2>1. IsList(t) /\ IsList(u) /\ ~AllTrue(t) /\ ~AllTrue(u)
    BY <1>5, AllTrueAppend, ListAppend
  <2>2. Evaluate(e, Machines(stacks, c), digest) = m5
    BY <1>1, EitherSteps
  <2>3. \A s : Exec(Evaluation(s, c), op("IF"), digest) = {Evaluation(s, u)}
    BY <1>5, IfSkips
  <2>4. \A s : Exec(Evaluation(s, u), op("ELSE"), digest) = {Evaluation(s, t)}
    <3>1. \A s, z : Exec(Evaluation(s, Append(c, z)), op("ELSE"), digest)
                      = {Evaluation(s, Append(c, ~z))}
      BY <1>5, ElseFlips
    <3>2. (~FALSE) = TRUE
      OBVIOUS
    <3> QED BY <3>1, <3>2
  <2>5. \A s : Exec(Evaluation(s, t), op("ENDIF"), digest) = {Evaluation(s, c)}
    BY <1>5, EndifPops
  <2> HIDE DEF e, t, u
  <2>6. m1 = Machines(stacks, u)
    BY <2>3, StepsMap
  <2> HIDE DEF m1
  <2>7. m2 = Machines(stacks, u)
    BY <2>1, <2>6 DEF Block
  <2> HIDE DEF m2
  <2>8. m3 = Machines(stacks, t)
    BY <2>4, <2>7, StepsMap
  <2> HIDE DEF m3
  <2>9. m4 = Machines(stacks, t)
    BY <2>1, <2>8 DEF Block
  <2> HIDE DEF m4
  <2>10. m5 = Machines(stacks, c)
    BY <2>5, <2>9, StepsMap
  <2> QED BY <2>2, <2>10
<1> HIDE DEF e
<1>6. Block(e, digest)
  BY <1>2, <1>4, <1>5 DEF Block
<1> QED BY <1>3, <1>6 DEF e

(* Either is spent through the branch that the witness selects. *)
LEMMA SpendsEither ==
    ASSUME NEW b, NEW o, NEW digest, Block(b, digest), Block(o, digest), NEW w
    PROVE  Spends(Either(b, o), w, digest) <=>
             /\ ~(Len(w) < 1)
             /\ IF Truthy(Top(w, 0)) THEN Spends(b, Pop(w, 1), digest)
                ELSE Spends(o, Pop(w, 1), digest)
<1>1. Spends(Either(b, o), w, digest) <=> Satisfied(Chosen(b, o, w, digest))
  BY EitherBlock, SpendsStacks
<1>2. /\ Spends(b, Pop(w, 1), digest) <=> Satisfied(StacksOf(b, Pop(w, 1), digest))
      /\ Spends(o, Pop(w, 1), digest) <=> Satisfied(StacksOf(o, Pop(w, 1), digest))
  BY SpendsStacks
<1>3. ~Satisfied({})
  BY DEF Satisfied
<1> QED BY <1>1, <1>2, <1>3 DEF Chosen

-----------------------------------------------------------------------------
(* What the bodies of the templates ask for. *)

(* One plain token at a time. *)
LEMMA PlainRun ==
    ASSUME NEW token, PlainToken(token), NEW s, NEW t, NEW digest, Apply(s, token, digest) = {t}
    PROVE  Evaluate(<<token>>, {Evaluation(s, << >>)}, digest) = {Evaluation(t, << >>)}
<1>1. AllTrue(<< >>)
  BY DEF AllTrue
<1>2. Evaluate(<<token>>, {Evaluation(s, << >>)}, digest)
        = Exec(Evaluation(s, << >>), token, digest)
  BY EvaluateToken, StepsOfOne
<1>3. Exec(Evaluation(s, << >>), token, digest) = Machines(Apply(s, token, digest), << >>)
  BY <1>1, PlainStep, ZenonT(30)
<1>4. Machines({t}, << >>) = {Evaluation(t, << >>)}
  BY DEF Machines
<1> QED BY <1>2, <1>3, <1>4

LEMMA PlainFails ==
    ASSUME NEW token, PlainToken(token), NEW s, NEW digest, Apply(s, token, digest) = {}
    PROVE  Evaluate(<<token>>, {Evaluation(s, << >>)}, digest) = {}
<1>1. AllTrue(<< >>)
  BY DEF AllTrue
<1>2. Evaluate(<<token>>, {Evaluation(s, << >>)}, digest)
        = Exec(Evaluation(s, << >>), token, digest)
  BY EvaluateToken, StepsOfOne
<1>3. Exec(Evaluation(s, << >>), token, digest) = Machines({}, << >>)
  BY <1>1, PlainStep
<1> QED BY <1>2, <1>3 DEF Machines

LEMMA PlainTokens ==
    /\ \A name \in {"HASH", "EQUALVERIFY", "CHECKSIG", "CHECKMULTISIG", "RETURN"} :
          PlainToken(op(name))
    /\ \A x : PlainToken(pushNumber(x)) /\ PlainToken(pushPubkey(x)) /\ PlainToken(pushHash32(x))
BY DEF PlainToken, op, pushNumber, pushPubkey, pushHash32

(* Bodies put together from plain bodies. *)
PlainList(body) == IsList(body) /\ \A i \in 1 .. Len(body) : PlainToken(body[i])

LEMMA PlainListOne ==
    ASSUME NEW token, PlainToken(token)
    PROVE  PlainList(<<token>>)
<1> DEFINE u == <<token>>
<1>1. IsList(u) /\ Len(u) = 1 /\ u[1] = token
  BY ListOfTwo
<1> HIDE DEF u
<1>2. PlainList(u)
  BY <1>1 DEF PlainList
<1> QED BY <1>2 DEF u

LEMMA PlainListConcat ==
    ASSUME NEW u, NEW v, PlainList(u), PlainList(v)
    PROVE  PlainList(u \o v)
<1> DEFINE z == u \o v
           m == Len(u)
           n == Len(v)
<1>1. IsList(u) /\ IsList(v)
  BY DEF PlainList
<1>2. m \in Nat /\ n \in Nat
  BY <1>1 DEF IsList
<1>3. /\ IsList(z) /\ Len(z) = m + n
      /\ \A i \in 1 .. m : z[i] = u[i]
      /\ \A i \in 1 .. n : z[m + i] = v[i]
  BY <1>1, ListConcat
<1>4. (\A i \in 1 .. m : PlainToken(u[i])) /\ (\A i \in 1 .. n : PlainToken(v[i]))
  BY DEF PlainList
<1> HIDE DEF z, m, n
<1>5. ASSUME NEW i \in 1 .. m + n PROVE PlainToken(z[i])
  <2>1. CASE i \in 1 .. m
    BY <1>3, <1>4, <2>1
  <2>2. CASE i \notin 1 .. m
    <3> DEFINE j == i - m
    <3>1. j \in 1 .. n /\ i = m + j
      BY <1>2, <2>2
    <3> HIDE DEF j
    <3> QED BY <1>3, <1>4, <3>1
  <2> QED BY <2>1, <2>2
<1>6. PlainList(z)
  BY <1>3, <1>5 DEF PlainList
<1> QED BY <1>6 DEF z

LEMMA PlainSig == ASSUME NEW key PROVE PlainList(SigBody(key))
<1>1. PlainList(<<pushPubkey(key)>>) /\ PlainList(<<op("CHECKSIG")>>)
  BY PlainTokens, PlainListOne
<1>2. SigBody(key) = <<pushPubkey(key)>> \o <<op("CHECKSIG")>>
  BY ListOfTwo DEF SigBody
<1> QED BY <1>1, <1>2, PlainListConcat

LEMMA PlainMultisig ==
    ASSUME NEW keys, IsList(keys)
    PROVE  PlainList(MultisigBody(keys))
<1> DEFINE n == Len(keys)
           x == pushNumber(n)
           K == [i \in DOMAIN keys |-> pushPubkey(keys[i])]
           o == op("CHECKMULTISIG")
<1>1. PlainList(<<x>>) /\ PlainList(<<o>>)
  BY PlainTokens, PlainListOne
<1>2. PlainList(K)
  <2>1. n \in Nat /\ DOMAIN keys = 1 .. n
    BY DEF IsList
  <2>2. K = [i \in 1 .. n |-> K[i]] /\ \A i \in 1 .. n : K[i] = pushPubkey(keys[i])
    BY <2>1
  <2> HIDE DEF K, n
  <2>3. IsList(K) /\ Len(K) = n
    BY <2>1, <2>2, ListIsSeq
  <2> QED BY <2>2, <2>3, PlainTokens DEF PlainList
<1>3. <<x, o>> = <<x>> \o <<o>>
  BY ListOfTwo
<1>4. MultisigBody(keys) = (<<x>> \o K) \o <<x, o>>
  BY DEF MultisigBody
<1> HIDE DEF x, o, K
<1>5. PlainList(<<x>> \o K) /\ PlainList(<<x, o>>)
  BY <1>1, <1>2, <1>3, PlainListConcat
<1> QED BY <1>4, <1>5, PlainListConcat

(* The first tokens of a PreimageBody, one after the other. *)
LEMMA PreimageParts ==
    ASSUME NEW hash, NEW body
    PROVE  PreimageBody(hash, body)
             = ((<<op("HASH")>> \o <<pushHash32(hash)>>) \o <<op("EQUALVERIFY")>>) \o body
<1> DEFINE x == op("HASH")
           y == pushHash32(hash)
           e == op("EQUALVERIFY")
           u == <<x, y>>
           v == <<e>>
           z == <<x, y, e>>
           c == u \o v
<1>1. /\ IsList(u) /\ Len(u) = 2 /\ u[1] = x /\ u[2] = y
      /\ IsList(v) /\ Len(v) = 1 /\ v[1] = e
      /\ IsList(z) /\ Len(z) = 3 /\ z[1] = x /\ z[2] = y /\ z[3] = e
  <2> HIDE DEF x, y, e
  <2> QED BY DEF IsList
<1>2. u = <<x>> \o <<y>>
  BY ListOfTwo
<1>3. PreimageBody(hash, body) = z \o body
  BY DEF PreimageBody
<1> HIDE DEF u, v, z
<1>4. IsList(u) /\ IsList(v)
  BY <1>1
<1>5. /\ IsList(c) /\ Len(c) = Len(u) + Len(v)
      /\ \A i \in 1 .. Len(u) : c[i] = u[i]
      /\ \A i \in 1 .. Len(v) : c[Len(u) + i] = v[i]
  BY <1>4, ListConcat
<1> HIDE DEF c, x, y, e
<1>6. c[1] = x /\ c[2] = y /\ c[2 + 1] = e /\ Len(c) = 3
  BY <1>1, <1>5
<1>7. \A i \in 1 .. Len(c) : c[i] = z[i]
  BY <1>1, <1>6
<1>8. c = z
  BY <1>1, <1>5, <1>6, <1>7, ListsEqual
<1> QED BY <1>2, <1>3, <1>8 DEF c, v, x, y, e

LEMMA PlainPreimage ==
    ASSUME NEW hash, NEW body, PlainList(body)
    PROVE  PlainList(PreimageBody(hash, body))
<1> DEFINE x == <<op("HASH")>>
           y == <<pushHash32(hash)>>
           e == <<op("EQUALVERIFY")>>
<1>1. PlainList(x) /\ PlainList(y) /\ PlainList(e)
  BY PlainTokens, PlainListOne
<1>2. PreimageBody(hash, body) = ((x \o y) \o e) \o body
  BY PreimageParts
<1> HIDE DEF x, y, e
<1>3. PlainList(x \o y)
  BY <1>1, PlainListConcat
<1>4. PlainList((x \o y) \o e)
  BY <1>1, <1>3, PlainListConcat
<1> QED BY <1>2, <1>4, PlainListConcat

(* A signature body wants the signature of its key on top. *)
LEMMA SpendsSig ==
    ASSUME NEW key, NEW w, IsList(w), NEW digest
    PROVE  Spends(SigBody(key), w, digest) <=>
             Len(w) >= 1 /\ Same(Top(w, 0), Sig(key, digest))
<1> DEFINE x == pushPubkey(key)
           o == op("CHECKSIG")
           s == Append(w, x)
           l == Len(w)
           good == Same(Top(w, 0), Sig(key, digest))
           t == Replace(s, 2, Bool(good))
<1>1. l \in Nat /\ Len(w) = l
  BY DEF IsList
<1>2. SigBody(key) = <<x>> \o <<o>> /\ IsList(<<x>>) /\ IsList(<<o>>)
  BY ListOfTwo DEF SigBody
<1>3. PlainToken(x) /\ PlainToken(o)
  BY PlainTokens
<1>4. Apply(w, x, digest) = {s}
  BY DEF Apply, pushPubkey, op
<1>5. x[2] = key
  BY DEF pushPubkey
<1>6. Apply(s, o, digest) = IF Len(s) < 2 THEN {}
                            ELSE {Replace(s, 2, Bool(Same(Top(s, 1), Sig(Top(s, 0)[2], digest))))}
  BY DEF Apply, op
<1> HIDE DEF l, x, o
<1>7. IsList(s) /\ Len(s) = l + 1 /\ s[l + 1] = x /\ \A i \in 1 .. l : s[i] = w[i]
  BY <1>1, ListAppend
<1> HIDE DEF s
<1>8. Evaluate(SigBody(key), {Evaluation(w, << >>)}, digest)
        = Evaluate(<<o>>, {Evaluation(s, << >>)}, digest)
  <2>1. Evaluate(<<x>> \o <<o>>, {Evaluation(w, << >>)}, digest)
          = Evaluate(<<o>>, Evaluate(<<x>>, {Evaluation(w, << >>)}, digest), digest)
    BY <1>2, EvaluateConcat
  <2>2. Evaluate(<<x>>, {Evaluation(w, << >>)}, digest) = {Evaluation(s, << >>)}
    BY <1>3, <1>4, PlainRun
  <2> QED BY <1>2, <2>1, <2>2
<1>9. CASE l >= 1
  <2>1. Len(s) - 0 = l + 1 /\ Len(s) - 1 = l /\ Len(w) - 0 = l /\ l \in 1 .. l
        /\ ~(Len(s) < 2) /\ 2 \in 0 .. Len(s)
    BY <1>1, <1>7, <1>9
  <2>2. Top(s, 0) = x /\ Top(s, 1) = Top(w, 0)
    BY <1>7, <2>1 DEF Top
  <2>3. Apply(s, o, digest) = {t}
    BY <1>5, <1>6, <2>1, <2>2
  <2>4. Len(t) = Len(s) - 2 + 1 /\ Top(t, 0) = Bool(good)
    <3> HIDE DEF good
    <3> QED BY <1>7, <2>1, ListReplace
  <2>5. Truthy(Bool(good)) <=> good
    <3>1. good \in BOOLEAN
      BY DEF Same
    <3> HIDE DEF good
    <3> QED BY <3>1, TruthOf
  <2> HIDE DEF t
  <2>6. Len(t) >= 1
    BY <1>1, <1>7, <1>9, <2>4
  <2>7. Evaluate(<<o>>, {Evaluation(s, << >>)}, digest) = {Evaluation(t, << >>)}
    BY <1>3, <2>3, PlainRun
  <2>8. Evaluate(SigBody(key), {Evaluation(w, << >>)}, digest) = Machines({t}, << >>)
    BY <1>8, <2>7 DEF Machines
  <2>9. Spends(SigBody(key), w, digest) <=> Satisfied({t})
    BY <2>8, SpendsByStacks
  <2> QED BY <1>1, <1>9, <2>4, <2>5, <2>6, <2>9 DEF Satisfied
<1>10. CASE ~(l >= 1)
  <2>1. Len(s) < 2
    BY <1>1, <1>7, <1>10
  <2>2. Apply(s, o, digest) = {}
    BY <1>6, <2>1
  <2>3. Evaluate(SigBody(key), {Evaluation(w, << >>)}, digest) = {}
    BY <1>3, <1>8, <2>2, PlainFails
  <2> QED BY <1>1, <1>10, <2>3 DEF Spends
<1> QED BY <1>9, <1>10

(* A hash lock in front of a body takes the preimage off the top. *)
LEMMA SpendsPreimage ==
    ASSUME NEW hash, NEW body, IsList(body), NEW w, IsList(w), NEW digest
    PROVE  Spends(PreimageBody(hash, body), w, digest) <=>
             /\ Len(w) >= 1
             /\ Same(pushHash32(hash), HashOf(Top(w, 0)))
             /\ Spends(body, Pop(w, 1), digest)
<1> DEFINE x == op("HASH")
           y == pushHash32(hash)
           e == op("EQUALVERIFY")
           h == HashOf(Top(w, 0))
           l == Len(w)
           r == Replace(w, 1, h)
           s == Append(r, y)
           p == Pop(w, 1)
           xy == <<x>> \o <<y>>
           xye == xy \o <<e>>
           start == {Evaluation(w, << >>)}
<1>1. l \in Nat /\ Len(w) = l
  BY DEF IsList
<1>2. PreimageBody(hash, body) = xye \o body
  BY PreimageParts
<1>3. PlainToken(x) /\ PlainToken(y) /\ PlainToken(e)
  BY PlainTokens
<1>4. Apply(w, x, digest) = IF Len(w) < 1 THEN {} ELSE {r}
  BY DEF Apply, op
<1>5. Apply(r, y, digest) = {s}
  BY DEF Apply, op, pushHash32
<1>6. Apply(s, e, digest) = IF Len(s) < 2 \/ ~Same(Top(s, 0), Top(s, 1)) THEN {} ELSE {Pop(s, 2)}
  BY DEF Apply, op
<1> HIDE DEF x, y, e, h, l, start
<1>7. IsList(<<x>>) /\ IsList(<<y>>) /\ IsList(<<e>>)
  BY ListOfTwo
<1>8. /\ IsList(xy)
      /\ Evaluate(xy, start, digest) = Evaluate(<<y>>, Evaluate(<<x>>, start, digest), digest)
  BY <1>7, ListConcat, EvaluateConcat
<1> HIDE DEF xy
<1>9. /\ IsList(xye)
      /\ Evaluate(xye, start, digest) = Evaluate(<<e>>, Evaluate(xy, start, digest), digest)
  BY <1>7, <1>8, ListConcat, EvaluateConcat
<1> HIDE DEF xye
<1>10. Evaluate(PreimageBody(hash, body), start, digest)
         = Evaluate(body, Evaluate(xye, start, digest), digest)
  BY <1>2, <1>9, EvaluateConcat
<1>11. CASE ~(l >= 1)
  <2>1. Len(w) < 1
    BY <1>1, <1>11
  <2>2. Evaluate(<<x>>, start, digest) = {}
    BY <1>3, <1>4, <2>1, PlainFails DEF start
  <2>3. Evaluate(PreimageBody(hash, body), start, digest) = {}
    BY <1>7, <1>8, <1>9, <1>10, <2>2, EvaluateNothing
  <2> QED BY <1>1, <1>11, <2>3 DEF Spends, start
<1>12. CASE l >= 1
  <2>1. 1 \in 0 .. Len(w) /\ ~(Len(w) < 1)
    BY <1>1, <1>12
  <2>2. /\ IsList(r) /\ Len(r) = Len(w) - 1 + 1 /\ Top(r, 0) = h
        /\ \A i \in 1 .. Len(w) - 1 : r[i] = w[i]
    BY <2>1, ListReplace
  <2>3. Evaluate(<<x>>, start, digest) = {Evaluation(r, << >>)}
    <3> HIDE DEF r
    <3> QED BY <1>3, <1>4, <2>1, PlainRun DEF start
  <2> HIDE DEF r
  <2>4. Len(r) = l /\ r[l] = h /\ \A i \in 1 .. l - 1 : r[i] = w[i]
    <3>1. Len(r) = l /\ Len(r) - 0 = l
      BY <1>1, <2>2
    <3> QED BY <1>1, <2>2, <3>1 DEF Top
  <2>5. IsList(s) /\ Len(s) = l + 1 /\ s[l + 1] = y /\ \A i \in 1 .. l : s[i] = r[i]
    <3>1. /\ IsList(s) /\ Len(s) = Len(r) + 1 /\ s[Len(r) + 1] = y
          /\ \A i \in 1 .. Len(r) : s[i] = r[i]
      BY <2>2, ListAppend
    <3> HIDE DEF s
    <3> QED BY <2>4, <3>1
  <2>6. Evaluate(xy, start, digest) = {Evaluation(s, << >>)}
    <3>1. Evaluate(<<y>>, {Evaluation(r, << >>)}, digest) = {Evaluation(s, << >>)}
      <4> HIDE DEF s
      <4> QED BY <1>3, <1>5, PlainRun
    <3> QED BY <1>8, <2>3, <3>1
  <2> HIDE DEF s
  <2>7. Len(s) - 0 = l + 1 /\ Len(s) - 1 = l /\ ~(Len(s) < 2) /\ l \in 1 .. l /\ 2 \in 0 .. Len(s)
    BY <1>1, <1>12, <2>5
  <2>8. Top(s, 0) = y /\ Top(s, 1) = h
    BY <2>4, <2>5, <2>7 DEF Top
  <2>9. Pop(s, 2) = p
    <3> DEFINE q == Pop(s, 2)
    <3>1. IsList(q) /\ Len(q) = Len(s) - 2 /\ \A i \in 1 .. Len(s) - 2 : q[i] = s[i]
      BY <2>5, <2>7, ListPop
    <3>2. IsList(p) /\ Len(p) = Len(w) - 1 /\ \A i \in 1 .. Len(w) - 1 : p[i] = w[i]
      BY <2>1, ListPop
    <3> HIDE DEF p, q
    <3>3. Len(s) - 2 = l - 1 /\ Len(w) - 1 = l - 1 /\ \A i \in 1 .. l - 1 : i \in 1 .. l
      BY <1>1, <2>5
    <3>4. Len(q) = Len(p) /\ \A i \in 1 .. Len(q) : q[i] = p[i]
      BY <2>4, <2>5, <3>1, <3>2, <3>3
    <3>5. q = p
      BY <3>1, <3>2, <3>4, ListsEqual
    <3> QED BY <3>5 DEF q
  <2> HIDE DEF p
  <2>10. CASE Same(y, h)
    <3>1. Apply(s, e, digest) = {p}
      BY <1>6, <2>7, <2>8, <2>9, <2>10
    <3>2. Evaluate(xye, start, digest) = {Evaluation(p, << >>)}
      BY <1>3, <1>9, <2>6, <3>1, PlainRun
    <3>3. Spends(PreimageBody(hash, body), w, digest) <=> Spends(body, p, digest)
      BY <1>10, <3>2 DEF Spends, start
    <3> QED BY <1>1, <1>12, <2>10, <3>3 DEF p, y, h
  <2>11. CASE ~Same(y, h)
    <3>1. Apply(s, e, digest) = {}
      BY <1>6, <2>8, <2>11
    <3>2. Evaluate(xye, start, digest) = {}
      BY <1>3, <1>9, <2>6, <3>1, PlainFails
    <3>3. Evaluate(PreimageBody(hash, body), start, digest) = {}
      BY <1>10, <3>2, EvaluateNothing
    <3> QED BY <2>11, <3>3 DEF Spends, start, y, h
  <2> QED BY <2>10, <2>11
<1> QED BY <1>11, <1>12

(* Nothing spends RETURN. *)
LEMMA SpendsReturn ==
    ASSUME NEW w, NEW digest
    PROVE  ~Spends(<<op("RETURN")>>, w, digest)
<1> DEFINE o == op("RETURN")
<1>1. PlainToken(o)
  BY PlainTokens
<1>2. Apply(w, o, digest) = {}
  BY DEF Apply, op
<1> HIDE DEF o
<1>3. Evaluate(<<o>>, {Evaluation(w, << >>)}, digest) = {}
  BY <1>1, <1>2, PlainFails
<1> QED BY <1>3 DEF Spends, o

-----------------------------------------------------------------------------
(* Who can spend a template, for witnesses of any length. *)

(* A witness put together from the elements of E spends the script. *)
Over(w, E) == IsList(w) /\ \A i \in 1 .. Len(w) : w[i] \in E
Opens(script, E) == \E w : Over(w, E) /\ Spends(script, w, "tx")

LEMMA ElementPairs ==
    /\ \A x \in Elements : x = <<x[1], x[2]>>
    /\ \A x \in Elements : \A key : Same(x, Sig(key, "tx")) => x = Sig(key, "tx")
    /\ \A x \in Elements : \A hash : Same(pushHash32(hash), HashOf(x)) => x = Preimage(hash)
<1>1. \A x \in Elements : x = <<x[1], x[2]>>
  BY DEF Elements, Sig, Preimage, Bool
<1>2. \A x \in Elements : \A key : Same(x, Sig(key, "tx")) => x = Sig(key, "tx")
  BY <1>1 DEF Same, Sig
<1>3. ASSUME NEW x \in Elements, NEW hash, Same(pushHash32(hash), HashOf(x))
      PROVE  x = Preimage(hash)
  <2>1. x[1] = "pre"
    BY <1>3 DEF Same, HashOf, pushHash32
  <2>2. x[2] = hash
    BY <1>3, <2>1 DEF Same, HashOf, pushHash32
  <2> QED BY <1>1, <2>1, <2>2 DEF Preimage
<1> QED BY <1>1, <1>2, <1>3

LEMMA OverPop ==
    ASSUME NEW w, NEW E, Over(w, E), Len(w) >= 1
    PROVE  Over(Pop(w, 1), E) /\ Top(w, 0) \in E
<1> DEFINE l == Len(w)
           p == Pop(w, 1)
<1>1. IsList(w) /\ l \in Nat /\ Len(w) = l /\ l >= 1
  BY DEF Over, IsList
<1> HIDE DEF l
<1>2. 1 \in 0 .. Len(w) /\ Len(w) - 0 = l /\ l \in 1 .. l /\ \A i \in 1 .. l - 1 : i \in 1 .. l
  BY <1>1
<1>3. IsList(p) /\ Len(p) = Len(w) - 1 /\ \A i \in 1 .. Len(w) - 1 : p[i] = w[i]
  BY <1>1, <1>2, ListPop
<1> HIDE DEF p
<1>4. \A i \in 1 .. l : w[i] \in E
  BY <1>1 DEF Over
<1>5. \A i \in 1 .. Len(p) : p[i] \in E
  BY <1>1, <1>2, <1>3, <1>4
<1> QED BY <1>2, <1>3, <1>4, <1>5 DEF p, Over, Top

LEMMA OpensSig ==
    ASSUME NEW E \in SUBSET Elements, NEW key, Opens(SigBody(key), E)
    PROVE  Sig(key, "tx") \in E
<1>1. PICK w : Over(w, E) /\ Spends(SigBody(key), w, "tx")
  BY DEF Opens
<1>2. Len(w) >= 1 /\ Same(Top(w, 0), Sig(key, "tx"))
  BY <1>1, SpendsSig DEF Over
<1>3. Top(w, 0) \in E
  BY <1>1, <1>2, OverPop
<1> QED BY <1>2, <1>3, ElementPairs

LEMMA OpensMultisig ==
    ASSUME NEW E \in SUBSET Elements, NEW keys, IsList(keys), Opens(MultisigBody(keys), E)
    PROVE  \A i \in 1 .. Len(keys) : Sig(keys[i], "tx") \in E
<1> DEFINE n == Len(keys)
<1>1. n \in Nat /\ Len(keys) = n
  BY DEF IsList
<1>2. PICK w : Over(w, E) /\ Spends(MultisigBody(keys), w, "tx")
  BY DEF Opens
<1> DEFINE l == Len(w)
<1>3. IsList(w) /\ l \in Nat /\ Len(w) = l /\ \A i \in 1 .. l : w[i] \in E
  BY <1>2 DEF Over, IsList
<1> HIDE DEF n, l
<1>4. Len(w) >= n + 1 /\ \A i \in 1 .. n : Same(w[Len(w) - n + i], Sig(keys[i], "tx"))
  BY <1>1, <1>2, <1>3, SpendsMultisig
<1>5. ASSUME NEW i \in 1 .. n PROVE Sig(keys[i], "tx") \in E
  <2> DEFINE j == l - n + i
  <2>1. j \in 1 .. l
    BY <1>1, <1>3, <1>4
  <2>2. w[j] \in E /\ Same(w[j], Sig(keys[i], "tx"))
    BY <1>3, <1>4, <2>1
  <2> HIDE DEF j
  <2> QED BY <2>2, ElementPairs
<1> QED BY <1>1, <1>5

LEMMA OpensPreimage ==
    ASSUME NEW E \in SUBSET Elements, NEW hash, NEW body, IsList(body),
           Opens(PreimageBody(hash, body), E)
    PROVE  Preimage(hash) \in E /\ Opens(body, E)
<1>1. PICK w : Over(w, E) /\ Spends(PreimageBody(hash, body), w, "tx")
  BY DEF Opens
<1>2. /\ Len(w) >= 1
      /\ Same(pushHash32(hash), HashOf(Top(w, 0)))
      /\ Spends(body, Pop(w, 1), "tx")
  BY <1>1, SpendsPreimage DEF Over
<1>3. Over(Pop(w, 1), E) /\ Top(w, 0) \in E
  BY <1>1, <1>2, OverPop
<1>4. Top(w, 0) = Preimage(hash)
  BY <1>2, <1>3, ElementPairs
<1> QED BY <1>2, <1>3, <1>4 DEF Opens

LEMMA OpensEither ==
    ASSUME NEW E, NEW b, NEW o, Block(b, "tx"), Block(o, "tx"), Opens(Either(b, o), E)
    PROVE  Opens(b, E) \/ Opens(o, E)
<1>1. PICK w : Over(w, E) /\ Spends(Either(b, o), w, "tx")
  BY DEF Opens
<1>2. /\ ~(Len(w) < 1)
      /\ Spends(b, Pop(w, 1), "tx") \/ Spends(o, Pop(w, 1), "tx")
  BY <1>1, SpendsEither
<1>3. Len(w) >= 1
  <2>1. Len(w) \in Nat
    BY <1>1 DEF Over, IsList
  <2> QED BY <1>2, <2>1
<1>4. Over(Pop(w, 1), E)
  BY <1>1, <1>3, OverPop
<1> QED BY <1>2, <1>4 DEF Opens

(* The bodies in the templates are blocks. *)
LEMMA TemplateBlocks ==
    /\ IsList(<<"P", "O">>) /\ Len(<<"P", "O">>) = 2 /\ IsList(<<"O">>) /\ Len(<<"O">>) = 1
    /\ \A key : PlainList(SigBody(key)) /\ Block(SigBody(key), "tx")
    /\ \A hash, key : Block(PreimageBody(hash, SigBody(key)), "tx")
    /\ \A keys : IsList(keys) => PlainList(MultisigBody(keys)) /\ Block(MultisigBody(keys), "tx")
    /\ \A hash, keys : IsList(keys) => Block(PreimageBody(hash, MultisigBody(keys)), "tx")
    /\ Block(<<op("RETURN")>>, "tx")
<1>1. \A body : PlainList(body) => Block(body, "tx")
  BY PlainBlock DEF PlainList
<1>2. IsList(<<"P", "O">>) /\ Len(<<"P", "O">>) = 2 /\ IsList(<<"O">>) /\ Len(<<"O">>) = 1
  BY DEF IsList
<1>3. \A key : PlainList(SigBody(key))
  BY PlainSig
<1>4. \A keys : IsList(keys) => PlainList(MultisigBody(keys))
  BY PlainMultisig
<1>5. \A hash, body : PlainList(body) => PlainList(PreimageBody(hash, body))
  BY PlainPreimage
<1>6. PlainList(<<op("RETURN")>>)
  BY PlainTokens, PlainListOne
<1> QED BY <1>1, <1>2, <1>3, <1>4, <1>5, <1>6

TemplatesInv == template \in DOMAIN Locks /\ Over(witness, Elements)

LEMMA TemplatesInvInit == TemplatesInit => TemplatesInv
<1> SUFFICES ASSUME TemplatesInit PROVE TemplatesInv
  OBVIOUS
<1>1. Over(<< >>, Elements)
  BY EmptyList DEF Over
<1> QED BY <1>1 DEF TemplatesInit, TemplatesInv

LEMMA TemplatesInvNext ==
    TemplatesInv /\ [TemplatesNext]_<<template, witness>> => TemplatesInv'
<1> SUFFICES ASSUME TemplatesInv, [TemplatesNext]_<<template, witness>>
             PROVE  TemplatesInv'
  OBVIOUS
<1>1. CASE TemplatesNext
  <2>1. PICK x \in Elements : PushElement(x)
    BY <1>1 DEF TemplatesNext
  <2> DEFINE l == Len(witness)
             u == Append(witness, x)
  <2>2. IsList(witness) /\ l \in Nat /\ \A i \in 1 .. l : witness[i] \in Elements
    BY DEF TemplatesInv, Over, IsList
  <2>3. /\ IsList(u) /\ Len(u) = l + 1 /\ u[l + 1] = x
        /\ \A i \in 1 .. l : u[i] = witness[i]
    BY <2>2, ListAppend
  <2>4. witness' = u /\ template' = template
    BY <2>1 DEF PushElement
  <2> HIDE DEF u, l
  <2>5. \A i \in 1 .. l + 1 : i \in 1 .. l \/ i = l + 1
    BY <2>2
  <2>6. Over(u, Elements)
    BY <2>2, <2>3, <2>5 DEF Over
  <2> QED BY <2>4, <2>6 DEF TemplatesInv, Locks
<1>2. CASE UNCHANGED <<template, witness>>
  BY <1>2 DEF TemplatesInv, Locks
<1> QED BY <1>1, <1>2

LEMMA PushOne ==
    ASSUME NEW w, IsList(w), NEW x
    PROVE  w \o <<x>> = Append(w, x)
<1> DEFINE u == w \o <<x>>
           v == Append(w, x)
           l == Len(w)
           y == <<x>>
<1>1. IsList(y) /\ Len(y) = 1 /\ y[1] = x
  BY ListOfTwo
<1>2. l \in Nat /\ Len(w) = l
  BY DEF IsList
<1> HIDE DEF y, l
<1>3. /\ IsList(u) /\ Len(u) = l + 1 /\ u[l + 1] = x
      /\ \A i \in 1 .. l : u[i] = w[i]
  <2>1. /\ IsList(w \o y) /\ Len(w \o y) = Len(w) + Len(y)
        /\ \A i \in 1 .. Len(w) : (w \o y)[i] = w[i]
        /\ \A i \in 1 .. Len(y) : (w \o y)[Len(w) + i] = y[i]
    BY <1>1, ListConcat
  <2>2. u = w \o y
    BY DEF y
  <2>3. 1 \in 1 .. Len(y)
    BY <1>1
  <2> HIDE DEF u
  <2> QED BY <1>1, <1>2, <2>1, <2>2, <2>3
<1>4. /\ IsList(v) /\ Len(v) = l + 1 /\ v[l + 1] = x
      /\ \A i \in 1 .. l : v[i] = w[i]
  BY <1>2, ListAppend
<1> HIDE DEF u, v
<1>5. \A i \in 1 .. l + 1 : i \in 1 .. l \/ i = l + 1
  BY <1>2
<1>6. \A i \in 1 .. Len(u) : u[i] = v[i]
  BY <1>3, <1>4, <1>5
<1>7. u = v
  BY <1>3, <1>4, <1>6, ListsEqual
<1> QED BY <1>7 DEF u, v

LEMMA OverPopTwo ==
    ASSUME NEW w, NEW E, Over(w, E), Len(w) >= 2
    PROVE  Over(Pop(w, 2), E)
<1> DEFINE l == Len(w)
           p == Pop(w, 2)
<1>1. IsList(w) /\ l \in Nat /\ Len(w) = l /\ l >= 2 /\ \A i \in 1 .. l : w[i] \in E
  BY DEF Over, IsList
<1> HIDE DEF l
<1>2. 2 \in 0 .. Len(w) /\ \A i \in 1 .. Len(w) - 2 : i \in 1 .. l
  BY <1>1
<1>3. IsList(p) /\ Len(p) = Len(w) - 2 /\ \A i \in 1 .. Len(w) - 2 : p[i] = w[i]
  BY <1>1, <1>2, ListPop
<1> HIDE DEF p
<1>4. \A i \in 1 .. Len(p) : p[i] \in E
  BY <1>1, <1>2, <1>3
<1> QED BY <1>3, <1>4 DEF p, Over

TemplateNames == {"table_root", "stake_lock", "pot_lock", "entropy_commit", "entropy_commit_alone",
                  "card_custody", "round_state", "timeout_branch", "recovery", "fold_surrender",
                  "settle_claim", "reveal_proof"}

(* A spender of a script with two nested IFs takes one of its branches.    *)
LEMMA SpendsNested ==
    ASSUME NEW w, IsList(w), NEW b, NEW p, NEW o,
           Block(b, "tx"), Block(p, "tx"), Block(o, "tx"),
           Spends(Either(b, Either(p, o)), w, "tx")
    PROVE  \/ Len(w) >= 1 /\ Truthy(Top(w, 0)) /\ Spends(b, Pop(w, 1), "tx")
           \/ /\ Len(w) >= 2 /\ ~Truthy(Top(w, 0)) /\ Truthy(Top(w, 1))
              /\ Spends(p, Pop(w, 2), "tx")
           \/ /\ Len(w) >= 2 /\ ~Truthy(Top(w, 0)) /\ ~Truthy(Top(w, 1))
              /\ Spends(o, Pop(w, 2), "tx")
<1> DEFINE l == Len(w)
           v == Pop(w, 1)
           u == Pop(v, 1)
           z == Pop(w, 2)
<1>1. l \in Nat /\ Len(w) = l
  BY DEF IsList
<1>2. /\ ~(Len(w) < 1)
      /\ IF Truthy(Top(w, 0)) THEN Spends(b, v, "tx") ELSE Spends(Either(p, o), v, "tx")
  BY EitherBlock, SpendsEither
<1> HIDE DEF l, v, u, z
<1>3. l >= 1
  BY <1>1, <1>2
<1>4. IsList(v) /\ Len(v) = l - 1 /\ \A i \in 1 .. l - 1 : v[i] = w[i]
  <2>1. 1 \in 0 .. Len(w)
    BY <1>1, <1>3
  <2> QED BY <1>1, <2>1, ListPop DEF v
<1>5. CASE Truthy(Top(w, 0))
  BY <1>1, <1>2, <1>3, <1>5 DEF v
<1>6. CASE ~Truthy(Top(w, 0))
  <2>1. /\ ~(Len(v) < 1)
        /\ IF Truthy(Top(v, 0)) THEN Spends(p, u, "tx") ELSE Spends(o, u, "tx")
    BY <1>2, <1>6, SpendsEither DEF u
  <2>2. l >= 2
    BY <1>1, <1>4, <2>1
  <2>3. Top(v, 0) = Top(w, 1)
    <3>1. Len(v) - 0 = l - 1 /\ Len(w) - 1 = l - 1 /\ l - 1 \in 1 .. l - 1
      BY <1>1, <1>4, <2>2
    <3> QED BY <1>4, <3>1 DEF Top
  <2>4. u = z
    <3>1. 1 \in 0 .. Len(v) /\ 2 \in 0 .. Len(w)
      BY <1>1, <1>4, <2>2
    <3>2. IsList(u) /\ Len(u) = Len(v) - 1 /\ \A i \in 1 .. Len(v) - 1 : u[i] = v[i]
      BY <1>4, <3>1, ListPop DEF u
    <3>3. IsList(z) /\ Len(z) = Len(w) - 2 /\ \A i \in 1 .. Len(w) - 2 : z[i] = w[i]
      BY <3>1, ListPop DEF z
    <3>4. Len(v) - 1 = l - 2 /\ Len(w) - 2 = l - 2 /\ \A i \in 1 .. l - 2 : i \in 1 .. l - 1
      BY <1>1, <1>4, <2>2
    <3>5. Len(u) = Len(z) /\ \A i \in 1 .. Len(u) : u[i] = z[i]
      BY <1>4, <3>2, <3>3, <3>4
    <3> QED BY <3>2, <3>3, <3>5, ListsEqual
  <2> QED BY <1>1, <1>6, <2>1, <2>2, <2>3, <2>4 DEF z
<1> QED BY <1>5, <1>6

-----------------------------------------------------------------------------
(* v holds what body asks for. *)
HoldsAll(body, v) == \A i \in DOMAIN body : body[i] = Bool(FALSE) \/ body[i] \in Range(v)

LEMMA HoldsOne ==
    ASSUME NEW x, NEW v, x = Bool(FALSE) \/ x \in Range(v)
    PROVE  IsList(<<x>>) /\ HoldsAll(<<x>>, v)
<1> DEFINE w == <<x>>
<1>1. IsList(w) /\ Len(w) = 1 /\ w[1] = x
  BY ListOfTwo
<1>2. DOMAIN w = 1 .. 1
  OBVIOUS
<1> HIDE DEF w
<1>3. \A i \in DOMAIN w : w[i] = x
  BY <1>1, <1>2
<1>4. HoldsAll(w, v)
  BY <1>3 DEF HoldsAll
<1> QED BY <1>1, <1>4 DEF w

LEMMA HoldsConcat ==
    ASSUME NEW a, NEW b, IsList(a), IsList(b), NEW v, HoldsAll(a, v), HoldsAll(b, v)
    PROVE  IsList(a \o b) /\ HoldsAll(a \o b, v)
<1> DEFINE c == a \o b
           m == Len(a)
           n == Len(b)
<1>1. /\ m \in Nat /\ n \in Nat /\ Len(a) = m /\ Len(b) = n
      /\ DOMAIN a = 1 .. m /\ DOMAIN b = 1 .. n
  BY DEF IsList
<1>2. /\ IsList(c) /\ Len(c) = Len(a) + Len(b)
      /\ \A i \in 1 .. Len(a) : c[i] = a[i]
      /\ \A i \in 1 .. Len(b) : c[Len(a) + i] = b[i]
  BY ListConcat
<1> HIDE DEF c, m, n
<1>3. DOMAIN c = 1 .. m + n
  BY <1>1, <1>2 DEF IsList
<1>4. ASSUME NEW i \in DOMAIN c PROVE c[i] = Bool(FALSE) \/ c[i] \in Range(v)
  <2>1. CASE i \in 1 .. m
    <3>1. c[i] = a[i] /\ i \in DOMAIN a
      BY <1>1, <1>2, <2>1
    <3> QED BY <3>1 DEF HoldsAll
  <2>2. CASE i \notin 1 .. m
    <3> DEFINE j == i - m
    <3>1. j \in 1 .. n /\ m + j = i
      BY <1>1, <1>3, <2>2
    <3> HIDE DEF j
    <3>2. c[i] = b[j] /\ j \in DOMAIN b
      BY <1>1, <1>2, <3>1
    <3> QED BY <3>2 DEF HoldsAll
  <2> QED BY <2>1, <2>2
<1>5. HoldsAll(c, v)
  BY <1>4 DEF HoldsAll
<1> QED BY <1>2, <1>5 DEF c

(* A list of two with one more at its end. *)
LEMMA ListOfThree ==
    ASSUME NEW x, NEW y, NEW z
    PROVE  <<x, y>> \o <<z>> = <<x, y, z>>
<1> DEFINE s == <<x, y>>
           t == <<x, y, z>>
           r == Append(s, z)
<1>1. IsList(s) /\ Len(s) = 2 /\ s[1] = x /\ s[2] = y
  BY DEF IsList
<1>2. IsList(t) /\ Len(t) = 3 /\ t[1] = x /\ t[2] = y /\ t[3] = z
  BY DEF IsList
<1> HIDE DEF s, t
<1>3. IsList(r) /\ Len(r) = Len(s) + 1 /\ r[Len(s) + 1] = z /\ \A i \in 1 .. Len(s) : r[i] = s[i]
  <2>1. IsList(s)
    BY <1>1
  <2> QED BY <2>1, ListAppend
<1>4. s \o <<z>> = r
  BY <1>1, PushOne
<1> HIDE DEF r
<1>5. Len(r) = 3 /\ r[3] = z /\ r[1] = x /\ r[2] = y
  BY <1>1, <1>3
<1>6. \A i \in 1 .. 3 : i = 1 \/ i = 2 \/ i = 3
  OBVIOUS
<1>7. \A i \in 1 .. Len(r) : r[i] = t[i]
  BY <1>2, <1>5, <1>6
<1>8. r = t
  BY <1>2, <1>3, <1>5, <1>7, ListsEqual
<1> QED BY <1>4, <1>8 DEF s, t

(* The bodies of the templates are spent only with what their exit asks.   *)
LEMMA SpendsHolds ==
    ASSUME NEW v, Over(v, Elements)
    PROVE  /\ \A key : Spends(SigBody(key), v, "tx") => HoldsAll(Alone(key), v)
           /\ Spends(MultisigBody(<<"P", "O">>), v, "tx") => HoldsAll(Quorum, v)
           /\ Spends(MultisigBody(<<"O">>), v, "tx") => HoldsAll(<<Bool(FALSE)>> \o Alone("O"), v)
           /\ Spends(PreimageBody("H", SigBody("P")), v, "tx")
                => HoldsAll(Alone("P") \o <<Preimage("H")>>, v)
           /\ Spends(PreimageBody("T", MultisigBody(<<"P", "O">>)), v, "tx")
                => HoldsAll(Quorum \o <<Preimage("T")>>, v)
<1> DEFINE E == Range(v)
           PO == <<"P", "O">>
           O == <<"O">>
<1>1. E \in SUBSET Elements /\ \A script : Spends(script, v, "tx") => Opens(script, E)
  <2> DEFINE l == Len(v)
  <2>1. IsList(v) /\ DOMAIN v = 1 .. l /\ \A i \in 1 .. l : v[i] \in Elements
    BY DEF Over, IsList
  <2>2. E \in SUBSET Elements /\ Over(v, E)
    BY <2>1 DEF Range, Over
  <2> QED BY <2>2 DEF Opens
<1>2. \A x : x \in E => IsList(<<x>>) /\ HoldsAll(<<x>>, v)
  BY HoldsOne
<1>3. IsList(<<Bool(FALSE)>>) /\ HoldsAll(<<Bool(FALSE)>>, v)
  BY HoldsOne
<1> HIDE DEF E
<1>4. \A key : Opens(SigBody(key), E) => Sig(key, "tx") \in E
  BY <1>1, OpensSig
<1>5. Opens(MultisigBody(PO), E) => Sig("P", "tx") \in E /\ Sig("O", "tx") \in E
  <2>1. IsList(PO) /\ Len(PO) = 2
    BY TemplateBlocks
  <2>2. PO[1] = "P" /\ PO[2] = "O"
    OBVIOUS
  <2> HIDE DEF PO
  <2>3. ASSUME Opens(MultisigBody(PO), E) PROVE Sig("P", "tx") \in E /\ Sig("O", "tx") \in E
    <3>1. \A i \in 1 .. Len(PO) : Sig(PO[i], "tx") \in E
      BY <1>1, <2>1, <2>3, OpensMultisig
    <3>2. 1 \in 1 .. Len(PO) /\ 2 \in 1 .. Len(PO)
      BY <2>1
    <3> QED BY <2>2, <3>1, <3>2
  <2> QED BY <2>3
<1>6. Opens(MultisigBody(O), E) => Sig("O", "tx") \in E
  <2>1. IsList(O) /\ Len(O) = 1
    BY TemplateBlocks
  <2>2. O[1] = "O"
    OBVIOUS
  <2> HIDE DEF O
  <2>3. ASSUME Opens(MultisigBody(O), E) PROVE Sig("O", "tx") \in E
    <3>1. \A i \in 1 .. Len(O) : Sig(O[i], "tx") \in E
      BY <1>1, <2>1, <2>3, OpensMultisig
    <3>2. 1 \in 1 .. Len(O)
      BY <2>1
    <3> QED BY <2>2, <3>1, <3>2
  <2> QED BY <2>3
<1>7. IsList(SigBody("P")) /\ IsList(MultisigBody(PO))
  BY TemplateBlocks DEF PlainList
<1>8. Opens(PreimageBody("H", SigBody("P")), E) => Preimage("H") \in E /\ Sig("P", "tx") \in E
  BY <1>1, <1>4, <1>7, OpensPreimage
<1>9. Opens(PreimageBody("T", MultisigBody(PO)), E)
        => Preimage("T") \in E /\ Opens(MultisigBody(PO), E)
  BY <1>1, <1>7, OpensPreimage
<1>10. \A key : Sig(key, "tx") \in E => IsList(Alone(key)) /\ HoldsAll(Alone(key), v)
  BY <1>2 DEF Alone
<1>11. Sig("P", "tx") \in E /\ Sig("O", "tx") \in E => IsList(Quorum) /\ HoldsAll(Quorum, v)
  <2> DEFINE x == Bool(FALSE)
             y == Sig("P", "tx")
             z == Sig("O", "tx")
             xy == <<x>> \o <<y>>
  <2>1. Quorum = xy \o <<z>>
    <3> HIDE DEF x, y, z
    <3>1. xy = <<x, y>>
      BY ListOfTwo
    <3>2. <<x, y>> \o <<z>> = <<x, y, z>>
      BY ListOfThree
    <3> QED BY <3>1, <3>2 DEF Quorum, x, y, z
  <2>2. IsList(<<x>>) /\ HoldsAll(<<x>>, v)
    BY <1>3
  <2>3. ASSUME y \in E, z \in E PROVE IsList(Quorum) /\ HoldsAll(Quorum, v)
    <3> HIDE DEF x, y, z
    <3>1. IsList(<<y>>) /\ HoldsAll(<<y>>, v) /\ IsList(<<z>>) /\ HoldsAll(<<z>>, v)
      BY <1>2, <2>3
    <3>2. IsList(xy) /\ HoldsAll(xy, v)
      BY <2>2, <3>1, HoldsConcat
    <3> HIDE DEF xy
    <3> QED BY <2>1, <3>1, <3>2, HoldsConcat
  <2> QED BY <2>3
<1>12. \A key : Spends(SigBody(key), v, "tx") => HoldsAll(Alone(key), v)
  BY <1>1, <1>4, <1>10
<1>13. Spends(MultisigBody(PO), v, "tx") => HoldsAll(Quorum, v)
  BY <1>1, <1>5, <1>11
<1>14. Spends(MultisigBody(O), v, "tx") => HoldsAll(<<Bool(FALSE)>> \o Alone("O"), v)
  BY <1>1, <1>3, <1>6, <1>10, HoldsConcat
<1>15. Spends(PreimageBody("H", SigBody("P")), v, "tx")
         => HoldsAll(Alone("P") \o <<Preimage("H")>>, v)
  BY <1>1, <1>2, <1>8, <1>10, HoldsConcat
<1>16. Spends(PreimageBody("T", MultisigBody(PO)), v, "tx")
         => HoldsAll(Quorum \o <<Preimage("T")>>, v)
  BY <1>1, <1>2, <1>5, <1>9, <1>11, HoldsConcat
<1> QED BY <1>12, <1>13, <1>14, <1>15, <1>16

(* The exit a witness spends through, by the selectors on top of it.       *)
LEMMA UsesExit ==
    ASSUME IsList(witness), NEW body
    PROVE  /\ HoldsAll(body, witness) => Takes(Exit(body, << >>)) /\ Holds(Exit(body, << >>))
           /\ Len(witness) >= 1 /\ Truthy(Top(witness, 0)) /\ HoldsAll(body, Pop(witness, 1))
                => Takes(Exit(body, First)) /\ Holds(Exit(body, First))
           /\ (/\ Len(witness) >= 2 /\ ~Truthy(Top(witness, 0)) /\ Truthy(Top(witness, 1))
               /\ HoldsAll(body, Pop(witness, 2)))
                => Takes(Exit(body, Second)) /\ Holds(Exit(body, Second))
           /\ (/\ Len(witness) >= 2 /\ ~Truthy(Top(witness, 0)) /\ ~Truthy(Top(witness, 1))
               /\ HoldsAll(body, Pop(witness, 2)))
                => Takes(Exit(body, Third)) /\ Holds(Exit(body, Third))
<1> DEFINE l == Len(witness)
<1>1. l \in Nat /\ Len(witness) = l
  BY DEF IsList
<1>2. \A selectors : LET e == Exit(body, selectors) IN e.body = body /\ e.selectors = selectors
  BY DEF Exit
<1>3. Truthy(Bool(TRUE)) /\ ~Truthy(Bool(FALSE))
  BY TruthOf
<1>4. \A selectors : HoldsAll(body, Pop(witness, Len(selectors))) => Holds(Exit(body, selectors))
  BY <1>2 DEF Holds, HoldsAll
<1>5. \A selectors :
        /\ Len(witness) >= Len(selectors)
        /\ \A i \in 1 .. Len(selectors) :
              Truthy(Top(witness, Len(selectors) - i)) <=> Truthy(selectors[i])
        => Takes(Exit(body, selectors))
  BY <1>2 DEF Takes
<1>6. ASSUME HoldsAll(body, witness)
      PROVE  Takes(Exit(body, << >>)) /\ Holds(Exit(body, << >>))
  <2> DEFINE s == << >>
             p == Pop(witness, 0)
  <2>1. Len(s) = 0
    OBVIOUS
  <2>2. 0 \in 0 .. Len(witness) /\ Len(witness) - 0 = l /\ Len(witness) >= 0
    BY <1>1
  <2>3. IsList(p) /\ Len(p) = l /\ \A i \in 1 .. l : p[i] = witness[i]
    BY <2>2, ListPop
  <2> HIDE DEF s, p
  <2>4. p = witness
    BY <1>1, <2>3, ListsEqual
  <2>5. Holds(Exit(body, s))
    BY <1>4, <1>6, <2>1, <2>4 DEF p
  <2>6. Takes(Exit(body, s))
    BY <1>5, <2>1, <2>2
  <2> QED BY <2>5, <2>6 DEF s
<1>7. ASSUME Len(witness) >= 1, Truthy(Top(witness, 0)), HoldsAll(body, Pop(witness, 1))
      PROVE  Takes(Exit(body, First)) /\ Holds(Exit(body, First))
  <2>1. Len(First) = 1 /\ First[1] = Bool(TRUE)
    BY DEF First
  <2>2. \A i \in 1 .. Len(First) : i = 1 /\ Len(First) - i = 0
    BY <2>1
  <2>3. \A i \in 1 .. Len(First) : Truthy(Top(witness, Len(First) - i)) <=> Truthy(First[i])
    BY <1>3, <1>7, <2>1, <2>2
  <2> QED BY <1>4, <1>5, <1>7, <2>1, <2>3
<1>8. ASSUME Len(witness) >= 2, ~Truthy(Top(witness, 0)), Truthy(Top(witness, 1)),
             HoldsAll(body, Pop(witness, 2))
      PROVE  Takes(Exit(body, Second)) /\ Holds(Exit(body, Second))
  <2>1. Len(Second) = 2 /\ Second[1] = Bool(TRUE) /\ Second[2] = Bool(FALSE)
    <3> DEFINE x == Bool(TRUE)
               y == Bool(FALSE)
    <3>1. Second = <<x, y>>
      BY DEF Second
    <3> HIDE DEF x, y
    <3>2. Len(Second) = 2 /\ Second[1] = x /\ Second[2] = y
      BY <3>1
    <3> QED BY <3>2 DEF x, y
  <2>2. \A i \in 1 .. Len(Second) : (i = 1 /\ Len(Second) - i = 1) \/ (i = 2 /\ Len(Second) - i = 0)
    BY <2>1
  <2>3. \A i \in 1 .. Len(Second) : Truthy(Top(witness, Len(Second) - i)) <=> Truthy(Second[i])
    BY <1>3, <1>8, <2>1, <2>2
  <2> QED BY <1>4, <1>5, <1>8, <2>1, <2>3
<1>9. ASSUME Len(witness) >= 2, ~Truthy(Top(witness, 0)), ~Truthy(Top(witness, 1)),
             HoldsAll(body, Pop(witness, 2))
      PROVE  Takes(Exit(body, Third)) /\ Holds(Exit(body, Third))
  <2>1. Len(Third) = 2 /\ Third[1] = Bool(FALSE) /\ Third[2] = Bool(FALSE)
    <3> DEFINE y == Bool(FALSE)
    <3>1. Third = <<y, y>>
      BY DEF Third
    <3> HIDE DEF y
    <3>2. Len(Third) = 2 /\ Third[1] = y /\ Third[2] = y
      BY <3>1
    <3> QED BY <3>2 DEF y
  <2>2. \A i \in 1 .. Len(Third) : (i = 1 /\ Len(Third) - i = 1) \/ (i = 2 /\ Len(Third) - i = 0)
    BY <2>1
  <2>3. \A i \in 1 .. Len(Third) : Truthy(Top(witness, Len(Third) - i)) <=> Truthy(Third[i])
    BY <1>3, <1>9, <2>1, <2>2
  <2> QED BY <1>4, <1>5, <1>9, <2>1, <2>3
<1>10. HoldsAll(body, witness) => Takes(Exit(body, << >>)) /\ Holds(Exit(body, << >>))
  BY <1>6
<1>11. Len(witness) >= 1 /\ Truthy(Top(witness, 0)) /\ HoldsAll(body, Pop(witness, 1))
         => Takes(Exit(body, First)) /\ Holds(Exit(body, First))
  BY <1>7
<1>12. (/\ Len(witness) >= 2 /\ ~Truthy(Top(witness, 0)) /\ Truthy(Top(witness, 1))
        /\ HoldsAll(body, Pop(witness, 2)))
         => Takes(Exit(body, Second)) /\ Holds(Exit(body, Second))
  BY <1>8
<1>13. (/\ Len(witness) >= 2 /\ ~Truthy(Top(witness, 0)) /\ ~Truthy(Top(witness, 1))
        /\ HoldsAll(body, Pop(witness, 2)))
         => Takes(Exit(body, Third)) /\ Holds(Exit(body, Third))
  BY <1>9
<1> QED BY <1>10, <1>11, <1>12, <1>13

LEMMA OnlyExits == TemplatesInv => OnlyDocumentedExits
<1> SUFFICES ASSUME TemplatesInv, Spends(Locks[template], witness, "tx")
             PROVE  \E e \in Branches[template] : Takes(e) /\ Holds(e)
  BY DEF OnlyDocumentedExits
<1> DEFINE signed == MultisigBody(<<"P", "O">>)
           other == MultisigBody(<<"O">>)
           p == SigBody("P")
           o == SigBody("O")
           hp == PreimageBody("H", p)
           ts == PreimageBody("T", signed)
           return == <<op("RETURN")>>
           hpw == Alone("P") \o <<Preimage("H")>>
           tsw == Quorum \o <<Preimage("T")>>
           ow == <<Bool(FALSE)>> \o Alone("O")
           first == Pop(witness, 1)
           second == Pop(witness, 2)
           On1 == Len(witness) >= 1 /\ Truthy(Top(witness, 0))
           On2 == Len(witness) >= 2 /\ ~Truthy(Top(witness, 0)) /\ Truthy(Top(witness, 1))
           On3 == Len(witness) >= 2 /\ ~Truthy(Top(witness, 0)) /\ ~Truthy(Top(witness, 1))
           Asks(script, body) ==
               \A v : Over(v, Elements) /\ Spends(script, v, "tx") => HoldsAll(body, v)
           Uses(body, selectors) == Takes(Exit(body, selectors)) /\ Holds(Exit(body, selectors))
<1>1. template \in TemplateNames
  BY DEF TemplatesInv, Locks, TemplateNames
<1>2. IsList(witness) /\ Over(witness, Elements)
  BY DEF TemplatesInv, Over
<1>3. /\ Len(witness) >= 1 => Over(first, Elements)
      /\ Len(witness) >= 2 => Over(second, Elements)
  BY <1>2, OverPop, OverPopTwo
<1>4. /\ Block(signed, "tx") /\ Block(other, "tx") /\ Block(p, "tx") /\ Block(o, "tx")
      /\ Block(hp, "tx") /\ Block(ts, "tx") /\ Block(return, "tx")
  BY TemplateBlocks
<1>5. /\ Asks(signed, Quorum) /\ Asks(other, ow) /\ Asks(p, Alone("P")) /\ Asks(o, Alone("O"))
      /\ Asks(hp, hpw) /\ Asks(ts, tsw)
  BY SpendsHolds
<1>6. \A v : ~Spends(return, v, "tx")
  BY SpendsReturn
<1>7. \A body : /\ HoldsAll(body, witness) => Uses(body, << >>)
                /\ On1 /\ HoldsAll(body, first) => Uses(body, First)
                /\ On2 /\ HoldsAll(body, second) => Uses(body, Second)
                /\ On3 /\ HoldsAll(body, second) => Uses(body, Third)
  BY <1>2, UsesExit
<1>8. \A a, b, c : Block(a, "tx") /\ Block(b, "tx") /\ Block(c, "tx")
                   /\ Spends(Either(a, Either(b, c)), witness, "tx")
        => \/ On1 /\ Spends(a, first, "tx")
           \/ On2 /\ Spends(b, second, "tx")
           \/ On3 /\ Spends(c, second, "tx")
  BY <1>2, SpendsNested
<1> HIDE DEF signed, other, p, o, hp, ts, return, hpw, tsw, ow, first, second
<1>9. (On1 => Over(first, Elements)) /\ (On2 \/ On3 => Over(second, Elements))
  BY <1>3
<1> HIDE DEF On1, On2, On3
<1>10. ASSUME NEW a, NEW b, NEW c, NEW x, NEW y, NEW z,
              Block(a, "tx"), Block(b, "tx"), Block(c, "tx"),
              Asks(a, x), Asks(b, y), Asks(c, z),
              Spends(Either(a, Either(b, c)), witness, "tx")
       PROVE  Uses(x, First) \/ Uses(y, Second) \/ Uses(z, Third)
  <2>1. CASE On1 /\ Spends(a, first, "tx")
    <3>1. HoldsAll(x, first)
      BY <1>9, <1>10, <2>1
    <3> QED BY <1>7, <2>1, <3>1
  <2>2. CASE On2 /\ Spends(b, second, "tx")
    <3>1. HoldsAll(y, second)
      BY <1>9, <1>10, <2>2
    <3> QED BY <1>7, <2>2, <3>1
  <2>3. CASE On3 /\ Spends(c, second, "tx")
    <3>1. HoldsAll(z, second)
      BY <1>9, <1>10, <2>3
    <3> QED BY <1>7, <2>3, <3>1
  <2> QED BY <1>8, <1>10, <2>1, <2>2, <2>3
<1>11. ASSUME NEW a, NEW x, Asks(a, x), Spends(a, witness, "tx") PROVE Uses(x, << >>)
  <2>1. HoldsAll(x, witness)
    BY <1>2, <1>11
  <2> QED BY <1>7, <2>1
<1> HIDE DEF Asks
<1>12. CASE template = "table_root"
  <2>1. Locks[template] = signed /\ Exit(Quorum, << >>) \in Branches[template]
    BY <1>12 DEF Locks, buildTableRoot, Branches, signed
  <2>2. Uses(Quorum, << >>)
    BY <1>5, <1>11, <2>1
  <2> QED BY <2>1, <2>2
<1>13. CASE template = "stake_lock"
  <2>1. Locks[template] = Either(signed, Either(hp, p))
    BY <1>13 DEF Locks, buildStakeLock, signed, hp, p
  <2>2. /\ Exit(Quorum, First) \in Branches[template]
        /\ Exit(hpw, Second) \in Branches[template]
        /\ Exit(Alone("P"), Third) \in Branches[template]
    BY <1>13 DEF Branches, hpw
  <2>3. Spends(Either(signed, Either(hp, p)), witness, "tx")
    BY <2>1
  <2>4. Uses(Quorum, First) \/ Uses(hpw, Second) \/ Uses(Alone("P"), Third)
    BY <1>4, <1>5, <1>10, <2>3
  <2> QED BY <2>2, <2>4
<1>14. CASE template = "pot_lock"
  <2>1. Locks[template] = Either(signed, Either(hp, o))
    BY <1>14 DEF Locks, buildPotLock, signed, hp, p, o
  <2>2. /\ Exit(Quorum, First) \in Branches[template]
        /\ Exit(hpw, Second) \in Branches[template]
        /\ Exit(Alone("O"), Third) \in Branches[template]
    BY <1>14 DEF Branches, hpw
  <2>3. Spends(Either(signed, Either(hp, o)), witness, "tx")
    BY <2>1
  <2>4. Uses(Quorum, First) \/ Uses(hpw, Second) \/ Uses(Alone("O"), Third)
    BY <1>4, <1>5, <1>10, <2>3
  <2> QED BY <2>2, <2>4
<1>15. CASE template = "entropy_commit"
  <2>1. Locks[template] = Either(hp, Either(other, p))
    BY <1>15 DEF Locks, buildEntropyCommit, hp, p, other
  <2>2. /\ Exit(hpw, First) \in Branches[template]
        /\ Exit(ow, Second) \in Branches[template]
        /\ Exit(Alone("P"), Third) \in Branches[template]
    BY <1>15 DEF Branches, hpw, ow
  <2>3. Spends(Either(hp, Either(other, p)), witness, "tx")
    BY <2>1
  <2>4. Uses(hpw, First) \/ Uses(ow, Second) \/ Uses(Alone("P"), Third)
    BY <1>4, <1>5, <1>10, <2>3
  <2> QED BY <2>2, <2>4
<1>16. CASE template = "entropy_commit_alone"
  <2>1. Locks[template] = Either(hp, Either(return, p))
    BY <1>16 DEF Locks, buildEntropyCommit, hp, p, return
  <2>2. Exit(hpw, First) \in Branches[template] /\ Exit(Alone("P"), Third) \in Branches[template]
    BY <1>16 DEF Branches, hpw
  <2>3. (On1 /\ Spends(hp, first, "tx")) \/ (On3 /\ Spends(p, second, "tx"))
    BY <1>4, <1>6, <1>8, <2>1
  <2>4. (On1 /\ HoldsAll(hpw, first)) \/ (On3 /\ HoldsAll(Alone("P"), second))
    BY <1>5, <1>9, <2>3 DEF Asks
  <2> QED BY <1>7, <2>2, <2>4
<1>17. CASE template = "card_custody"
  <2>1. Locks[template] = Either(hp, Either(p, o))
    BY <1>17 DEF Locks, buildCardCustody, hp, p, o
  <2>2. /\ Exit(hpw, First) \in Branches[template]
        /\ Exit(Alone("P"), Second) \in Branches[template]
        /\ Exit(Alone("O"), Third) \in Branches[template]
    BY <1>17 DEF Branches, hpw
  <2>3. Spends(Either(hp, Either(p, o)), witness, "tx")
    BY <2>1
  <2>4. Uses(hpw, First) \/ Uses(Alone("P"), Second) \/ Uses(Alone("O"), Third)
    BY <1>4, <1>5, <1>10, <2>3
  <2> QED BY <2>2, <2>4
<1>18. CASE template = "round_state"
  <2>1. Locks[template] = Either(hp, Either(ts, signed))
    BY <1>18 DEF Locks, buildRoundState, hp, p, ts, signed
  <2>2. /\ Exit(hpw, First) \in Branches[template]
        /\ Exit(tsw, Second) \in Branches[template]
        /\ Exit(Quorum, Third) \in Branches[template]
    BY <1>18 DEF Branches, hpw, tsw
  <2>3. Spends(Either(hp, Either(ts, signed)), witness, "tx")
    BY <2>1
  <2>4. Uses(hpw, First) \/ Uses(tsw, Second) \/ Uses(Quorum, Third)
    BY <1>4, <1>5, <1>10, <2>3
  <2> QED BY <2>2, <2>4
<1>19. CASE template = "timeout_branch"
  <2>1. Locks[template] = ts /\ Exit(tsw, << >>) \in Branches[template]
    BY <1>19 DEF Locks, buildTimeoutBranch, Branches, ts, signed, tsw
  <2>2. Uses(tsw, << >>)
    BY <1>5, <1>11, <2>1
  <2> QED BY <2>1, <2>2
<1>20. CASE template = "recovery"
  <2>1. Locks[template] = p /\ Exit(Alone("P"), << >>) \in Branches[template]
    BY <1>20 DEF Locks, buildRecoveryBranchTemplate, Branches, p
  <2>2. Uses(Alone("P"), << >>)
    BY <1>5, <1>11, <2>1
  <2> QED BY <2>1, <2>2
<1>21. CASE template = "fold_surrender"
  <2>1. Locks[template] = o /\ Exit(Alone("O"), << >>) \in Branches[template]
    BY <1>21 DEF Locks, buildFoldSurrender, Branches, o
  <2>2. Uses(Alone("O"), << >>)
    BY <1>5, <1>11, <2>1
  <2> QED BY <2>1, <2>2
<1>22. CASE template = "settle_claim"
  <2>1. Locks[template] = hp /\ Exit(hpw, << >>) \in Branches[template]
    BY <1>22 DEF Locks, buildSettleClaimScript, Branches, hp, p, hpw
  <2>2. Uses(hpw, << >>)
    BY <1>5, <1>11, <2>1
  <2> QED BY <2>1, <2>2
<1>23. CASE template = "reveal_proof"
  <2>1. Locks[template] = hp /\ Exit(hpw, << >>) \in Branches[template]
    BY <1>23 DEF Locks, buildRevealProofScript, Branches, hp, p, hpw
  <2>2. Uses(hpw, << >>)
    BY <1>5, <1>11, <2>1
  <2> QED BY <2>1, <2>2
<1> QED BY <1>1, <1>12, <1>13, <1>14, <1>15, <1>16, <1>17, <1>18, <1>19, <1>20, <1>21, <1>22, <1>23
        DEF TemplateNames

(* The script templates: whatever a spender pushes, and in whatever order  *)
(* and number, an output is spent only through the branch of an exit that  *)
(* its template lists, and with all that this exit asks for.               *)
THEOREM NoOtherExit == TemplatesSpec => []OnlyDocumentedExits
BY OnlyExits, TemplatesInvInit, TemplatesInvNext, PTL DEF TemplatesSpec

-----------------------------------------------------------------------------
(* Every listed exit is open. *)

LEMMA PushTwo ==
    ASSUME NEW w, IsList(w), NEW x, NEW y
    PROVE  w \o <<x, y>> = Append(Append(w, x), y)
<1> DEFINE z == <<x, y>>
           u == w \o z
           a == Append(w, x)
           v == Append(a, y)
           l == Len(w)
<1>1. IsList(z) /\ Len(z) = 2 /\ z[1] = x /\ z[2] = y
  BY DEF IsList
<1>2. l \in Nat /\ Len(w) = l
  BY DEF IsList
<1> HIDE DEF z, l
<1>3. /\ IsList(u) /\ Len(u) = l + 2 /\ u[l + 1] = x /\ u[l + 2] = y
      /\ \A i \in 1 .. l : u[i] = w[i]
  <2>1. /\ IsList(u) /\ Len(u) = Len(w) + Len(z)
        /\ \A i \in 1 .. Len(w) : u[i] = w[i]
        /\ \A i \in 1 .. Len(z) : u[Len(w) + i] = z[i]
    <3>1. IsList(z)
      BY <1>1
    <3> QED BY <3>1, ListConcat
  <2>2. 1 \in 1 .. Len(z) /\ 2 \in 1 .. Len(z)
    BY <1>1
  <2> HIDE DEF u
  <2> QED BY <1>1, <1>2, <2>1, <2>2
<1>4. /\ IsList(a) /\ Len(a) = l + 1 /\ a[l + 1] = x
      /\ \A i \in 1 .. l : a[i] = w[i]
  BY <1>2, ListAppend
<1> HIDE DEF a
<1>5. /\ IsList(v) /\ Len(v) = l + 2 /\ v[l + 2] = y
      /\ \A i \in 1 .. l + 1 : v[i] = a[i]
  <2>1. /\ IsList(v) /\ Len(v) = Len(a) + 1 /\ v[Len(a) + 1] = y
        /\ \A i \in 1 .. Len(a) : v[i] = a[i]
    BY <1>4, ListAppend
  <2> HIDE DEF v
  <2>2. Len(a) + 1 = l + 2
    BY <1>2, <1>4
  <2> QED BY <1>4, <2>1, <2>2
<1> HIDE DEF u, v
<1>6. \A i \in 1 .. l + 2 : (i \in 1 .. l /\ i \in 1 .. l + 1) \/ i = l + 1 \/ i = l + 2
  BY <1>2
<1>7. l + 1 \in 1 .. l + 1
  BY <1>2
<1>8. \A i \in 1 .. Len(u) : u[i] = v[i]
  BY <1>3, <1>4, <1>5, <1>6, <1>7
<1>9. u = v
  BY <1>3, <1>5, <1>8, ListsEqual
<1> QED BY <1>9 DEF u, v, a, z

(* The selector on top opens its branch. *)
LEMMA OpenEither ==
    ASSUME NEW b, NEW o, Block(b, "tx"), Block(o, "tx"), NEW w, IsList(w)
    PROVE  /\ Spends(b, w, "tx") => Spends(Either(b, o), Append(w, Bool(TRUE)), "tx")
           /\ Spends(o, w, "tx") => Spends(Either(b, o), Append(w, Bool(FALSE)), "tx")
<1>1. Len(w) \in Nat
  BY DEF IsList
<1>2. \A x : LET u == Append(w, x) IN ~(Len(u) < 1) /\ Top(u, 0) = x /\ Pop(u, 1) = w
  <2> SUFFICES ASSUME NEW x
               PROVE  /\ ~(Len(Append(w, x)) < 1)
                      /\ Top(Append(w, x), 0) = x /\ Pop(Append(w, x), 1) = w
    OBVIOUS
  <2>1. Len(Append(w, x)) = Len(w) + 1 /\ Top(Append(w, x), 0) = x /\ Pop(Append(w, x), 1) = w
    BY PopAppend
  <2>2. ~(Len(Append(w, x)) < 1)
    <3> DEFINE n == Len(Append(w, x))
    <3>1. n = Len(w) + 1
      BY <2>1
    <3> HIDE DEF n
    <3>2. ~(n < 1)
      BY <1>1, <3>1
    <3> QED BY <3>2 DEF n
  <2> QED BY <2>1, <2>2
<1>3. Truthy(Bool(TRUE)) /\ ~Truthy(Bool(FALSE))
  BY TruthOf
<1> DEFINE t == Append(w, Bool(TRUE))
           f == Append(w, Bool(FALSE))
<1>4. /\ ~(Len(t) < 1) /\ Truthy(Top(t, 0)) /\ Pop(t, 1) = w
      /\ ~(Len(f) < 1) /\ ~Truthy(Top(f, 0)) /\ Pop(f, 1) = w
  BY <1>2, <1>3
<1> HIDE DEF t, f
<1>5. /\ Spends(b, w, "tx") => Spends(Either(b, o), t, "tx")
      /\ Spends(o, w, "tx") => Spends(Either(b, o), f, "tx")
  BY <1>4, SpendsEither
<1> QED BY <1>5 DEF t, f

LEMMA OpenFirst ==
    ASSUME NEW b, NEW o, Block(b, "tx"), Block(o, "tx"), NEW w, IsList(w), Spends(b, w, "tx")
    PROVE  Spends(Either(b, o), w \o First, "tx")
<1>1. w \o First = Append(w, Bool(TRUE))
  BY PushOne DEF First
<1> QED BY <1>1, OpenEither

LEMMA OpenSecond ==
    ASSUME NEW b, NEW p, NEW o, Block(b, "tx"), Block(p, "tx"), Block(o, "tx"),
           NEW w, IsList(w), Spends(p, w, "tx")
    PROVE  Spends(Either(b, Either(p, o)), w \o Second, "tx")
<1>1. w \o Second = Append(Append(w, Bool(TRUE)), Bool(FALSE))
  <2> DEFINE x == Bool(TRUE)
             y == Bool(FALSE)
  <2>1. Second = <<x, y>>
    BY DEF Second
  <2> HIDE DEF x, y
  <2>2. w \o <<x, y>> = Append(Append(w, x), y)
    BY PushTwo
  <2> QED BY <2>1, <2>2 DEF x, y
<1>2. IsList(Append(w, Bool(TRUE))) /\ Block(Either(p, o), "tx")
  BY PopAppend, EitherBlock
<1>3. Spends(Either(p, o), Append(w, Bool(TRUE)), "tx")
  BY OpenEither
<1> QED BY <1>1, <1>2, <1>3, OpenEither

LEMMA OpenThird ==
    ASSUME NEW b, NEW p, NEW o, Block(b, "tx"), Block(p, "tx"), Block(o, "tx"),
           NEW w, IsList(w), Spends(o, w, "tx")
    PROVE  Spends(Either(b, Either(p, o)), w \o Third, "tx")
<1>1. w \o Third = Append(Append(w, Bool(FALSE)), Bool(FALSE))
  <2> DEFINE y == Bool(FALSE)
  <2>1. Third = <<y, y>>
    BY DEF Third
  <2> HIDE DEF y
  <2>2. w \o <<y, y>> = Append(Append(w, y), y)
    BY PushTwo
  <2> QED BY <2>1, <2>2 DEF y
<1>2. IsList(Append(w, Bool(FALSE))) /\ Block(Either(p, o), "tx")
  BY PopAppend, EitherBlock
<1>3. Spends(Either(p, o), Append(w, Bool(FALSE)), "tx")
  BY OpenEither
<1> QED BY <1>1, <1>2, <1>3, OpenEither

LEMMA OpenPreimage ==
    ASSUME NEW hash, NEW body, IsList(body), NEW w, IsList(w), Spends(body, w, "tx")
    PROVE  /\ IsList(w \o <<Preimage(hash)>>)
           /\ Spends(PreimageBody(hash, body), w \o <<Preimage(hash)>>, "tx")
<1> DEFINE x == Preimage(hash)
           u == Append(w, x)
<1>1. w \o <<x>> = u
  BY PushOne
<1>2. IsList(u) /\ Len(u) = Len(w) + 1 /\ Top(u, 0) = x /\ Pop(u, 1) = w
  BY PopAppend
<1>3. HashOf(x) = pushHash32(hash)
  BY DEF HashOf, Preimage
<1>4. Same(pushHash32(hash), HashOf(x))
  BY <1>3 DEF Same
<1>5. Len(w) \in Nat
  BY DEF IsList
<1> HIDE DEF u, x
<1>6. Len(u) >= 1
  BY <1>2, <1>5
<1>7. Spends(PreimageBody(hash, body), u, "tx")
  BY <1>2, <1>4, <1>6, SpendsPreimage
<1> QED BY <1>1, <1>2, <1>7 DEF x

(* A single signature, and the signatures of two players. *)
LEMMA OpenSig == ASSUME NEW key PROVE IsList(Alone(key)) /\ Spends(SigBody(key), Alone(key), "tx")
<1> DEFINE x == Sig(key, "tx")
           w == <<x>>
<1>1. IsList(w) /\ Len(w) = 1 /\ w[1] = x
  BY ListOfTwo
<1> HIDE DEF w
<1>2. Len(w) >= 1 /\ Len(w) - 0 = 1
  BY <1>1
<1>3. Top(w, 0) = x
  BY <1>1, <1>2 DEF Top
<1>4. Same(Top(w, 0), x)
  BY <1>3 DEF Same
<1>5. Spends(SigBody(key), w, "tx")
  BY <1>1, <1>2, <1>4, SpendsSig
<1> QED BY <1>1, <1>5 DEF w, Alone

LEMMA OpenQuorum == IsList(Quorum) /\ Spends(MultisigBody(<<"P", "O">>), Quorum, "tx")
<1> DEFINE keys == <<"P", "O">>
           n == Len(keys)
           x == Bool(FALSE)
           y == Sig("P", "tx")
           z == Sig("O", "tx")
           w == <<x, y, z>>
<1>1. IsList(keys) /\ n = 2 /\ keys[1] = "P" /\ keys[2] = "O"
  BY TemplateBlocks
<1>2. IsList(w) /\ Len(w) = 3 /\ w[2] = y /\ w[3] = z
  <2> HIDE DEF x, y, z
  <2> QED BY DEF IsList
<1>3. Quorum = w
  BY DEF Quorum
<1>4. n \in Nat /\ Len(keys) = n
  BY <1>1
<1> HIDE DEF w, keys, n
<1>5. \A i \in 1 .. n : Same(w[Len(w) - n + i], Sig(keys[i], "tx"))
  <2> SUFFICES ASSUME NEW i \in 1 .. n PROVE Same(w[Len(w) - n + i], Sig(keys[i], "tx"))
    OBVIOUS
  <2>1. CASE i = 1
    <3>1. Len(w) - n + i = 2
      BY <1>1, <1>2, <2>1
    <3> QED BY <1>1, <1>2, <2>1, <3>1 DEF Same
  <2>2. CASE i = 2
    <3>1. Len(w) - n + i = 3
      BY <1>1, <1>2, <2>2
    <3> QED BY <1>1, <1>2, <2>2, <3>1 DEF Same
  <2> QED BY <1>1, <2>1, <2>2
<1>6. Len(w) >= n + 1
  BY <1>1, <1>2
<1>7. Spends(MultisigBody(keys), w, "tx")
  BY <1>1, <1>2, <1>4, <1>5, <1>6, SpendsMultisig
<1> QED BY <1>2, <1>3, <1>7 DEF keys

LEMMA OpenOther ==
    /\ IsList(<<Bool(FALSE)>> \o Alone("O"))
    /\ Spends(MultisigBody(<<"O">>), <<Bool(FALSE)>> \o Alone("O"), "tx")
<1> DEFINE keys == <<"O">>
           n == Len(keys)
           x == Bool(FALSE)
           y == Sig("O", "tx")
           w == <<x, y>>
<1>1. IsList(keys) /\ n = 1 /\ keys[1] = "O"
  BY TemplateBlocks
<1>2. IsList(w) /\ Len(w) = 2 /\ w[2] = y
  <2> HIDE DEF x, y
  <2> QED BY DEF IsList
<1>3. <<x>> \o Alone("O") = w
  BY ListOfTwo DEF Alone
<1>4. n \in Nat /\ Len(keys) = n
  BY <1>1
<1> HIDE DEF w, keys, n
<1>5. \A i \in 1 .. n : Same(w[Len(w) - n + i], Sig(keys[i], "tx"))
  <2> SUFFICES ASSUME NEW i \in 1 .. n PROVE Same(w[Len(w) - n + i], Sig(keys[i], "tx"))
    OBVIOUS
  <2>1. i = 1 /\ Len(w) - n + i = 2
    BY <1>1, <1>2
  <2> QED BY <1>1, <1>2, <2>1 DEF Same
<1>6. Len(w) >= n + 1
  BY <1>1, <1>2
<1>7. Spends(MultisigBody(keys), w, "tx")
  BY <1>1, <1>2, <1>4, <1>5, <1>6, SpendsMultisig
<1> QED BY <1>2, <1>3, <1>7 DEF keys

LEMMA ConcatNothing ==
    ASSUME NEW w, IsList(w)
    PROVE  w \o << >> = w
<1> DEFINE s == << >>
           u == w \o s
<1>1. IsList(s) /\ Len(s) = 0 /\ Len(w) \in Nat
  BY EmptyList DEF IsList
<1> HIDE DEF s
<1>2. IsList(u) /\ Len(u) = Len(w) + Len(s) /\ \A i \in 1 .. Len(w) : u[i] = w[i]
  BY <1>1, ListConcat
<1> HIDE DEF u
<1>3. Len(u) = Len(w) /\ \A i \in 1 .. Len(u) : u[i] = w[i]
  BY <1>1, <1>2
<1>4. u = w
  BY <1>2, <1>3, ListsEqual
<1> QED BY <1>4 DEF u, s

LEMMA OpenExits == template \in DOMAIN Locks => ExitsAreOpen
<1> SUFFICES ASSUME template \in DOMAIN Locks, NEW e \in Branches[template],
                    witness = e.body \o e.selectors
             PROVE  Spends(Locks[template], witness, "tx")
  BY DEF ExitsAreOpen
<1> DEFINE PO == <<"P", "O">>
           O == <<"O">>
           signed == MultisigBody(PO)
           other == MultisigBody(O)
           p == SigBody("P")
           o == SigBody("O")
           hp == PreimageBody("H", p)
           ts == PreimageBody("T", signed)
           return == <<op("RETURN")>>
           hpw == Alone("P") \o <<Preimage("H")>>
           tsw == Quorum \o <<Preimage("T")>>
           ow == <<Bool(FALSE)>> \o Alone("O")
<1>1. template \in TemplateNames
  BY DEF Locks, TemplateNames
<1>2. /\ Block(signed, "tx") /\ Block(other, "tx") /\ Block(p, "tx") /\ Block(o, "tx")
      /\ Block(hp, "tx") /\ Block(ts, "tx") /\ Block(return, "tx")
      /\ IsList(p) /\ IsList(signed)
  BY TemplateBlocks DEF PlainList
<1>3. /\ IsList(Alone("P")) /\ Spends(p, Alone("P"), "tx")
      /\ IsList(Alone("O")) /\ Spends(o, Alone("O"), "tx")
  BY OpenSig
<1>4. IsList(Quorum) /\ Spends(signed, Quorum, "tx")
  BY OpenQuorum
<1>5. IsList(hpw) /\ Spends(hp, hpw, "tx")
  BY <1>2, <1>3, OpenPreimage
<1>6. IsList(tsw) /\ Spends(ts, tsw, "tx")
  BY <1>2, <1>4, OpenPreimage
<1>7. IsList(ow) /\ Spends(other, ow, "tx")
  BY OpenOther
<1>20. \A w : IsList(w) => w \o << >> = w
  BY ConcatNothing
<1>21. \A b, s : e = Exit(b, s) => witness = b \o s
  BY DEF Exit
<1>8. CASE template = "table_root"
  <2>1. Locks[template] = signed /\ e = Exit(Quorum, << >>)
    BY <1>8 DEF Locks, buildTableRoot, Branches
  <2>2. witness = Quorum
    BY <1>3, <1>4, <1>5, <1>6, <1>20, <1>21, <2>1
  <2> QED BY <1>4, <2>1, <2>2
<1>9. CASE template = "stake_lock"
  <2>1. Locks[template] = Either(signed, Either(hp, p))
    BY <1>9 DEF Locks, buildStakeLock
  <2>2. e = Exit(Quorum, First) \/ e = Exit(hpw, Second) \/ e = Exit(Alone("P"), Third)
    BY <1>9 DEF Branches
  <2>3. witness \in {Quorum \o First, hpw \o Second, Alone("P") \o Third}
    BY <1>21, <2>2
  <2> HIDE DEF signed, hp, p, hpw
  <2>4. Block(Either(hp, p), "tx")
    BY <1>2, EitherBlock
  <2> QED BY <1>2, <1>3, <1>4, <1>5, <2>1, <2>3, <2>4, OpenFirst, OpenSecond, OpenThird
<1>10. CASE template = "pot_lock"
  <2>1. Locks[template] = Either(signed, Either(hp, o))
    BY <1>10 DEF Locks, buildPotLock
  <2>2. e = Exit(Quorum, First) \/ e = Exit(hpw, Second) \/ e = Exit(Alone("O"), Third)
    BY <1>10 DEF Branches
  <2>3. witness \in {Quorum \o First, hpw \o Second, Alone("O") \o Third}
    BY <1>21, <2>2
  <2> HIDE DEF signed, hp, o, hpw
  <2>4. Block(Either(hp, o), "tx")
    BY <1>2, EitherBlock
  <2> QED BY <1>2, <1>3, <1>4, <1>5, <2>1, <2>3, <2>4, OpenFirst, OpenSecond, OpenThird
<1>11. CASE template = "entropy_commit"
  <2>1. Locks[template] = Either(hp, Either(other, p))
    BY <1>11 DEF Locks, buildEntropyCommit
  <2>2. e = Exit(hpw, First) \/ e = Exit(ow, Second) \/ e = Exit(Alone("P"), Third)
    BY <1>11 DEF Branches
  <2>3. witness \in {hpw \o First, ow \o Second, Alone("P") \o Third}
    BY <1>21, <2>2
  <2> HIDE DEF other, hp, p, hpw, ow
  <2>4. Block(Either(other, p), "tx")
    BY <1>2, EitherBlock
  <2> QED BY <1>2, <1>3, <1>5, <1>7, <2>1, <2>3, <2>4, OpenFirst, OpenSecond, OpenThird
<1>12. CASE template = "entropy_commit_alone"
  <2>1. Locks[template] = Either(hp, Either(return, p))
    BY <1>12 DEF Locks, buildEntropyCommit
  <2>2. e = Exit(hpw, First) \/ e = Exit(Alone("P"), Third)
    BY <1>12 DEF Branches
  <2>3. witness \in {hpw \o First, Alone("P") \o Third}
    BY <1>21, <2>2
  <2> HIDE DEF return, hp, p, hpw
  <2>4. Block(Either(return, p), "tx")
    BY <1>2, EitherBlock
  <2> QED BY <1>2, <1>3, <1>5, <2>1, <2>3, <2>4, OpenFirst, OpenThird
<1>13. CASE template = "card_custody"
  <2>1. Locks[template] = Either(hp, Either(p, o))
    BY <1>13 DEF Locks, buildCardCustody
  <2>2. e = Exit(hpw, First) \/ e = Exit(Alone("P"), Second) \/ e = Exit(Alone("O"), Third)
    BY <1>13 DEF Branches
  <2>3. witness \in {hpw \o First, Alone("P") \o Second, Alone("O") \o Third}
    BY <1>21, <2>2
  <2> HIDE DEF o, hp, p, hpw
  <2>4. Block(Either(p, o), "tx")
    BY <1>2, EitherBlock
  <2> QED BY <1>2, <1>3, <1>5, <2>1, <2>3, <2>4, OpenFirst, OpenSecond, OpenThird
<1>14. CASE template = "round_state"
  <2>1. Locks[template] = Either(hp, Either(ts, signed))
    BY <1>14 DEF Locks, buildRoundState
  <2>2. e = Exit(hpw, First) \/ e = Exit(tsw, Second) \/ e = Exit(Quorum, Third)
    BY <1>14 DEF Branches
  <2>3. witness \in {hpw \o First, tsw \o Second, Quorum \o Third}
    BY <1>21, <2>2
  <2> HIDE DEF hp, ts, signed, hpw, tsw
  <2>4. Block(Either(ts, signed), "tx")
    BY <1>2, EitherBlock
  <2> QED BY <1>2, <1>4, <1>5, <1>6, <2>1, <2>3, <2>4, OpenFirst, OpenSecond, OpenThird
<1>15. CASE template = "timeout_branch"
  <2>1. Locks[template] = ts /\ e = Exit(tsw, << >>)
    BY <1>15 DEF Locks, buildTimeoutBranch, Branches
  <2>2. witness = tsw
    BY <1>3, <1>4, <1>5, <1>6, <1>20, <1>21, <2>1
  <2> QED BY <1>6, <2>1, <2>2
<1>16. CASE template = "recovery"
  <2>1. Locks[template] = p /\ e = Exit(Alone("P"), << >>)
    BY <1>16 DEF Locks, buildRecoveryBranchTemplate, Branches
  <2>2. witness = Alone("P")
    BY <1>3, <1>4, <1>5, <1>6, <1>20, <1>21, <2>1
  <2> QED BY <1>3, <2>1, <2>2
<1>17. CASE template = "fold_surrender"
  <2>1. Locks[template] = o /\ e = Exit(Alone("O"), << >>)
    BY <1>17 DEF Locks, buildFoldSurrender, Branches
  <2>2. witness = Alone("O")
    BY <1>3, <1>4, <1>5, <1>6, <1>20, <1>21, <2>1
  <2> QED BY <1>3, <2>1, <2>2
<1>18. CASE template = "settle_claim"
  <2>1. Locks[template] = hp /\ e = Exit(hpw, << >>)
    BY <1>18 DEF Locks, buildSettleClaimScript, Branches
  <2>2. witness = hpw
    BY <1>3, <1>4, <1>5, <1>6, <1>20, <1>21, <2>1
  <2> QED BY <1>5, <2>1, <2>2
<1>19. CASE template = "reveal_proof"
  <2>1. Locks[template] = hp /\ e = Exit(hpw, << >>)
    BY <1>19 DEF Locks, buildRevealProofScript, Branches
  <2>2. witness = hpw
    BY <1>3, <1>4, <1>5, <1>6, <1>20, <1>21, <2>1
  <2> QED BY <1>5, <2>1, <2>2
<1> QED BY <1>1, <1>8, <1>9, <1>10, <1>11, <1>12, <1>13, <1>14, <1>15, <1>16, <1>17, <1>18, <1>19
        DEF TemplateNames

(* The script templates: each listed exit has a witness that spends the    *)
(* output, its signatures and preimages below the selectors that the       *)
(* script's IFs ask for, so that no fallback of a session is locked in.    *)
THEOREM EveryExitOpens == TemplatesSpec => []ExitsAreOpen
<1>1. TemplatesInv => ExitsAreOpen
  BY OpenExits DEF TemplatesInv
<1> QED BY <1>1, TemplatesInvInit, TemplatesInvNext, PTL DEF TemplatesSpec
=============================================================================

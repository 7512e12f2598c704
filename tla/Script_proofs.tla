---------------------------- MODULE Script_proofs ----------------------------
(***************************************************************************)
(* Proofs about the scripts that expressions are encoded as: how they      *)
(* change the stack, by the type of the expression.                        *)
(***************************************************************************)
EXTENDS Script, FiniteSetTheorems, FunctionTheorems, DataLemmas

-----------------------------------------------------------------------------
(* Executing a script: how it changes the stack. *)

St(st, alt, conds) == [stack |-> st, alt |-> alt, conds |-> conds, wit |-> <<>>]

IsRun(r) ==
    \E st, alt, conds : IsSeq(st) /\ IsSeq(alt) /\ IsSeq(conds) /\ r = St(st, alt, conds)

\* env offers no elements to guess, and s leads from run r to run q.
Does(env, s, r, q) ==
    \E f : /\ f[0] = r /\ f[Len(s)] = q
           /\ \A i \in 0..Len(s) : IsRun(f[i])
           /\ \A i \in 1..Len(s) : f[i] \in exec_ins(s[i], f[i - 1], env)

Live(conds) == IsSeq(conds) /\ \A i \in DOMAIN conds : conds[i]
Dead(conds) == IsSeq(conds) /\ \E i \in DOMAIN conds : conds[i] = FALSE

\* In a branch that is taken s turns the stack x into y and leaves the rest.
Maps(env, s, x, y) ==
    \A alt, conds : IsSeq(alt) /\ Live(conds) => Does(env, s, St(x, alt, conds), St(y, alt, conds))

\* In a branch that is not taken s does nothing.
Skips(env, s) ==
    \A st, alt, conds : IsSeq(st) /\ IsSeq(alt) /\ Dead(conds) =>
        Does(env, s, St(st, alt, conds), St(st, alt, conds))

LEMMA StRun ==
    ASSUME NEW st, NEW alt, NEW conds, IsSeq(st), IsSeq(alt), IsSeq(conds)
    PROVE  IsRun(St(st, alt, conds))
  BY Zenon DEF IsRun

LEMMA DoesOne ==
    ASSUME NEW env, NEW ins, NEW r, NEW q, IsRun(r), IsRun(q), q \in exec_ins(ins, r, env)
    PROVE  Does(env, <<ins>>, r, q)
<1> DEFINE f == [i \in 0..1 |-> IF i = 0 THEN r ELSE q]
           s == <<ins>>
<1>1. f[0] = r /\ f[1] = q /\ \A i \in 0..1 : i = 0 \/ i = 1
  OBVIOUS
<1>2. Len(s) = 1 /\ s[1] = ins
  OBVIOUS
<1>3. \A i \in 0..1 : IsRun(f[i])
  BY <1>1
<1>4. \A i \in 1..1 : f[i] \in exec_ins(s[i], f[i - 1], env)
  <2>1. \A i \in 1..1 : i = 1 /\ i - 1 = 0
    OBVIOUS
  <2> HIDE DEF f, s
  <2> QED  BY <1>1, <1>2, <2>1
<1> HIDE DEF f, s
<1>5. Does(env, s, r, q)
  BY <1>1, <1>2, <1>3, <1>4, Zenon DEF Does
<1> QED  BY <1>5 DEF s

LEMMA DoesNone ==
    ASSUME NEW env, NEW r, IsRun(r)
    PROVE  Does(env, <<>>, r, r)
<1> DEFINE f == [i \in 0..0 |-> r]
<1>1. f[0] = r /\ \A i \in 0..0 : f[i] = r
  OBVIOUS
<1>2. Len(<<>>) = 0 /\ 1..0 = {}
  OBVIOUS
<1> HIDE DEF f
<1> QED  BY <1>1, <1>2 DEF Does

LEMMA DoesCat ==
    ASSUME NEW env, NEW a, NEW b, IsSeq(a), IsSeq(b), NEW r, NEW q, NEW p,
           Does(env, a, r, q), Does(env, b, q, p)
    PROVE  Does(env, a ++ b, r, p)
<1> DEFINE n == Len(a)
           m == Len(b)
           c == a ++ b
<1>1. /\ n \in Nat /\ m \in Nat /\ Len(c) = n + m
      /\ \A i \in 1..n : c[i] = a[i]
      /\ \A i \in 1..m : c[n + i] = b[i]
  BY CatElems DEF CatShape
<1>2. PICK f : /\ f[0] = r /\ f[n] = q
               /\ \A i \in 0..n : IsRun(f[i])
               /\ \A i \in 1..n : f[i] \in exec_ins(a[i], f[i - 1], env)
  BY DEF Does
<1>3. PICK g : /\ g[0] = q /\ g[m] = p
               /\ \A i \in 0..m : IsRun(g[i])
               /\ \A i \in 1..m : g[i] \in exec_ins(b[i], g[i - 1], env)
  BY DEF Does
<1> HIDE DEF n, m, c
<1> DEFINE h == [i \in 0..(n + m) |-> IF i <= n THEN f[i] ELSE g[i - n]]
<1>4. \A i \in 0..n : h[i] = f[i]
  BY <1>1
<1>5. ASSUME NEW i \in 0..m  PROVE h[n + i] = g[i]
  <2>1. CASE i = 0
    BY <1>1, <1>2, <1>3, <2>1
  <2>2. CASE i # 0
    <3>1. n + i \in 0..(n + m) /\ ~(n + i <= n) /\ (n + i) - n = i
      BY <1>1, <2>2
    <3> QED  BY <3>1
  <2> QED  BY <2>1, <2>2
<1> HIDE DEF h
<1>6. ASSUME NEW i \in 0..(n + m)
      PROVE  i \in 0..n \/ \E j \in 1..m : i = n + j
  <2>1. CASE i <= n
    BY <1>1, <2>1
  <2>2. CASE ~(i <= n)
    <3>1. i - n \in 1..m /\ i = n + (i - n)
      BY <1>1, <2>2
    <3> QED  BY <3>1
  <2> QED  BY <2>1, <2>2
<1>7. ASSUME NEW i \in 0..(n + m)  PROVE IsRun(h[i])
  <2>1. CASE i \in 0..n
    BY <1>2, <1>4, <2>1
  <2>2. ASSUME NEW j \in 1..m, i = n + j  PROVE IsRun(h[i])
    <3>1. j \in 0..m
      BY <1>1
    <3> QED  BY <1>3, <1>5, <2>2, <3>1
  <2> QED  BY <1>6, <2>1, <2>2
<1>8. ASSUME NEW i \in 1..(n + m)  PROVE h[i] \in exec_ins(c[i], h[i - 1], env)
  <2>0. i \in 0..(n + m)
    BY <1>1
  <2>1. CASE i \in 0..n
    <3>1. i \in 1..n /\ i - 1 \in 0..n
      BY <1>1, <2>1
    <3>2. h[i] = f[i] /\ h[i - 1] = f[i - 1] /\ c[i] = a[i]
      BY <1>1, <1>4, <2>1, <3>1
    <3> QED  BY <1>2, <3>1, <3>2
  <2>2. ASSUME NEW j \in 1..m, i = n + j  PROVE h[i] \in exec_ins(c[i], h[i - 1], env)
    <3>1. j \in 0..m /\ j - 1 \in 0..m /\ i - 1 = n + (j - 1)
      BY <1>1, <2>2
    <3>2. h[i] = g[j] /\ h[i - 1] = g[j - 1] /\ c[i] = b[j]
      BY <1>1, <1>5, <2>2, <3>1
    <3> QED  BY <1>3, <3>2
  <2> QED  BY <1>6, <2>0, <2>1, <2>2
<1>9. h[0] = r /\ h[n + m] = p
  <2>1. 0 \in 0..n /\ m \in 0..m
    BY <1>1
  <2> QED  BY <1>2, <1>3, <1>4, <1>5, <2>1
<1>10. \E x : /\ x[0] = r /\ x[Len(c)] = p
              /\ \A i \in 0..Len(c) : IsRun(x[i])
              /\ \A i \in 1..Len(c) : x[i] \in exec_ins(c[i], x[i - 1], env)
  <2>1. Len(c) = n + m
    BY <1>1 DEF n, m, c
  <2> QED  BY <1>7, <1>8, <1>9, <2>1, Zenon
<1> QED  BY <1>10 DEF Does, c

-----------------------------------------------------------------------------
(* Single instructions. *)

LEMMA Enough ==
    ASSUME NEW r, NEW n \in Nat, Len(r.stack) \in Nat, Len(r.stack) >= n, NEW avail
    PROVE  Need(r, n, avail) = {r}
<1>1. n - Len(r.stack) <= 0
  OBVIOUS
<1> QED  BY <1>1, Zenon DEF Need

\* The instructions that exec_op executes.
Plain(op) == op \notin {"If", "NotIf", "Else", "EndIf", "CheckMultiSig", "CheckMultiSigVerify"}

LEMMA PlainMaps ==
    ASSUME NEW env, NEW ins, Plain(ins[1]), NEW x, NEW y, IsSeq(x), IsSeq(y),
           arity(ins[1]) \in Nat, arity(ins[1]) <= Len(x),
           \A alt, conds : St(y, alt, conds) \in exec_op(ins[1], ins, St(x, alt, conds), env.tx)
    PROVE  Maps(env, <<ins>>, x, y)
<1> SUFFICES ASSUME NEW alt, NEW conds, IsSeq(alt), Live(conds)
             PROVE  Does(env, <<ins>>, St(x, alt, conds), St(y, alt, conds))
  BY DEF Maps
<1> DEFINE r == St(x, alt, conds)
           q == St(y, alt, conds)
<1>1. IsRun(r) /\ IsRun(q)
  BY StRun DEF Live
<1>2. Len(r.stack) \in Nat /\ Len(r.stack) >= arity(ins[1])
  <2>1. Len(x) \in Nat /\ r.stack = x
    BY SeqForm DEF St
  <2> QED  BY <2>1
<1>3. Need(r, arity(ins[1]), env.avail) = {r}
  BY <1>2, Enough
<1>4. q \in exec_op(ins[1], ins, r, env.tx)
  OBVIOUS
<1>5. \A i \in DOMAIN r.conds : r.conds[i]
  BY DEF Live, St
<1> HIDE DEF r, q
<1>6. q \in UNION {exec_op(ins[1], ins, s, env.tx) : s \in Need(r, arity(ins[1]), env.avail)}
  BY <1>3, <1>4
<1>7. q \in exec_ins(ins, r, env)
  BY <1>5, <1>6 DEF exec_ins, Plain
<1> QED  BY <1>1, <1>7, DoesOne DEF r, q

LEMMA PlainSkips ==
    ASSUME NEW env, NEW ins, Plain(ins[1]) \/ ins[1] \in {"CheckMultiSig", "CheckMultiSigVerify"}
    PROVE  Skips(env, <<ins>>)
<1> SUFFICES ASSUME NEW st, NEW alt, NEW conds, IsSeq(st), IsSeq(alt), Dead(conds)
             PROVE  Does(env, <<ins>>, St(st, alt, conds), St(st, alt, conds))
  BY DEF Skips
<1> DEFINE r == St(st, alt, conds)
<1>1. IsRun(r)
  BY StRun DEF Dead
<1>2. ~(\A i \in DOMAIN r.conds : r.conds[i])
  BY DEF Dead, St
<1> HIDE DEF r
<1>3. r \in exec_ins(ins, r, env)
  BY <1>2 DEF exec_ins, Plain
<1> QED  BY <1>1, <1>3, DoesOne DEF r

LEMMA SkipsCat ==
    ASSUME NEW env, NEW a, NEW b, IsSeq(a), IsSeq(b), Skips(env, a), Skips(env, b)
    PROVE  Skips(env, a ++ b)
  BY DoesCat DEF Skips

LEMMA MapsCat ==
    ASSUME NEW env, NEW a, NEW b, IsSeq(a), IsSeq(b), NEW x, NEW y, NEW z,
           Maps(env, a, x, y), Maps(env, b, y, z)
    PROVE  Maps(env, a ++ b, x, z)
  BY DoesCat DEF Maps

Cut(st, n) == SubSeq(st, 1, Len(st) - n)

LEMMA ReplaceIs ==
    \A st, alt, conds, n, es : Replace(St(st, alt, conds), n, es) = St(Cut(st, n) ++ es, alt, conds)
<1> TAKE st, alt, conds, n, es
<1> DEFINE r == St(st, alt, conds)
           w == Cut(st, n) ++ es
<1>1. r.stack = st
  BY DEF St
<1>2. Replace(r, n, es) = [r EXCEPT !.stack = w]
  BY <1>1, Zenon DEF Replace, ++, Cut
<1> HIDE DEF w
<1>3. [r EXCEPT !.stack = w] = St(w, alt, conds)
  BY DEF St
<1> QED  BY <1>2, <1>3 DEF w

(* The top of the stack.                                                    *)
LEMMA StackOps ==
    /\ \A st, alt, conds, a : IsSeq(st) => Nth(St(On(st, a), alt, conds), 1) = a
    /\ \A st, alt, conds, a : \A i \in 1..Len(st) : IsSeq(st) =>
            Nth(St(On(st, a), alt, conds), i + 1) = Nth(St(st, alt, conds), i)
    /\ \A st, alt, conds, a, es : \A n \in 0..Len(st) : IsSeq(st) =>
            Replace(St(On(st, a), alt, conds), n + 1, es) = Replace(St(st, alt, conds), n, es)
    /\ \A st, alt, conds, es : IsSeq(st) => Replace(St(st, alt, conds), 0, es) = St(st ++ es, alt, conds)
<1>1. ASSUME NEW st, NEW alt, NEW conds, NEW a, IsSeq(st)
      PROVE  Nth(St(On(st, a), alt, conds), 1) = a
  <2>1. Len(On(st, a)) + 1 - 1 = Len(st) + 1 /\ On(st, a)[Len(st) + 1] = a
    BY <1>1, OnLaws, OnElems
  <2> QED  BY <2>1 DEF Nth, St
<1>2. ASSUME NEW st, NEW alt, NEW conds, NEW a, NEW i \in 1..Len(st), IsSeq(st)
      PROVE  Nth(St(On(st, a), alt, conds), i + 1) = Nth(St(st, alt, conds), i)
  <2>1. /\ Len(st) \in Nat /\ Len(On(st, a)) = Len(st) + 1
        /\ \A j \in 1..Len(st) : On(st, a)[j] = st[j]
    BY <1>2, OnLaws, OnElems
  <2>2. /\ Len(On(st, a)) + 1 - (i + 1) = Len(st) + 1 - i
        /\ Len(st) + 1 - i \in 1..Len(st)
    BY <2>1
  <2> QED  BY <2>1, <2>2 DEF Nth, St
<1>3. ASSUME NEW st, NEW alt, NEW conds, NEW a, NEW es, NEW n, n \in 0..Len(st), IsSeq(st)
      PROVE  Replace(St(On(st, a), alt, conds), n + 1, es) = Replace(St(st, alt, conds), n, es)
  <2>1. Len(st) \in Nat /\ Len(On(st, a)) = Len(st) + 1
    BY <1>3, OnLaws
  <2>2. /\ Len(On(st, a)) - (n + 1) = Len(st) - n
        /\ Len(st) - n \in Nat /\ Len(st) - n <= Len(st)
    BY <1>3, <2>1
  <2>3. SubSeq(On(st, a), 1, Len(On(st, a)) - (n + 1)) = SubSeq(st, 1, Len(st) - n)
    BY <1>3, <2>2, FrontOn
  <2>4. Cut(On(st, a), n + 1) = Cut(st, n)
    BY <2>3 DEF Cut
  <2> DEFINE m == n + 1
  <2> HIDE DEF m
  <2>5. Cut(On(st, a), m) = Cut(st, n)
    BY <2>4 DEF m
  <2>6. Replace(St(On(st, a), alt, conds), m, es) = Replace(St(st, alt, conds), n, es)
    BY <2>5, ReplaceIs
  <2> QED  BY <2>6 DEF m
<1>4. ASSUME NEW st, NEW alt, NEW conds, NEW es, IsSeq(st)
      PROVE  Replace(St(st, alt, conds), 0, es) = St(st ++ es, alt, conds)
  <2>1. Len(st) \in Nat /\ Len(st) - 0 = Len(st)
    BY <1>4, OnLaws
  <2>2. Cut(st, 0) = st
    BY <1>4, <2>1, FrontOn, SMTT(30) DEF Cut
  <2> QED  BY <2>2, ReplaceIs
<1> QED  BY <1>1, <1>2, <1>3, <1>4

LEMMA PushTop ==
    ASSUME NEW st, NEW alt, NEW conds, NEW e, IsSeq(st)
    PROVE  Replace(St(st, alt, conds), 0, <<e>>) = St(On(st, e), alt, conds)
<1>1. Len(st) \in Nat /\ Len(st) - 0 = Len(st)
  BY OnLaws
<1>2. Cut(st, 0) = st
  BY <1>1, FrontOn, SMTT(30) DEF Cut
<1> QED  BY <1>2, ReplaceIs DEF On

(* The first three elements.                                                *)
LEMMA Tops ==
    /\ \A st, alt, conds, a : IsSeq(st) =>
        LET r == St(On(st, a), alt, conds)
        IN  /\ Nth(r, 1) = a
            /\ Replace(r, 1, <<>>) = St(st, alt, conds)
            /\ \A e : Replace(r, 1, <<e>>) = St(On(st, e), alt, conds)
    /\ \A st, alt, conds, a, b : IsSeq(st) =>
        LET r == St(On(On(st, b), a), alt, conds)
        IN  /\ Nth(r, 2) = b
            /\ Replace(r, 2, <<>>) = St(st, alt, conds)
            /\ \A e : Replace(r, 2, <<e>>) = St(On(st, e), alt, conds)
            /\ \A e, d : Replace(r, 2, <<e, d>>) = St(On(On(st, e), d), alt, conds)
    /\ \A st, alt, conds, a, b, c : IsSeq(st) =>
        LET r == St(On(On(On(st, c), b), a), alt, conds)
        IN  /\ Nth(r, 3) = c
            /\ \A e : Replace(r, 3, <<e>>) = St(On(st, e), alt, conds)
    /\ \A st, alt, conds, e : IsSeq(st) =>
            Replace(St(st, alt, conds), 0, <<e>>) = St(On(st, e), alt, conds)
<1> DEFINE Pops(st, alt, conds, n, r) ==
            /\ Replace(r, n, <<>>) = St(st, alt, conds)
            /\ \A e : Replace(r, n, <<e>>) = St(On(st, e), alt, conds)
            /\ \A e, d : Replace(r, n, <<e, d>>) = St(On(On(st, e), d), alt, conds)
<1>1. ASSUME NEW st, NEW alt, NEW conds, NEW n, NEW r,
             IsSeq(st), \A es : Replace(r, n, es) = Replace(St(st, alt, conds), 0, es)
      PROVE  Pops(st, alt, conds, n, r)
  <2>1. \A es : Replace(r, n, es) = St(st ++ es, alt, conds)
    BY <1>1, StackOps
  <2>2. st ++ <<>> = st
    BY <1>1, OnLaws
  <2>3. ASSUME NEW e, NEW d  PROVE st ++ <<e, d>> = On(On(st, e), d)
    <3> DEFINE x == <<e>>
               y == <<d>>
               z == <<e, d>>
    <3>1. IsSeq(x) /\ IsSeq(y) /\ x ++ y = z
      BY ShortSeqs DEF ++
    <3> HIDE DEF x, y, z
    <3>2. (st ++ x) ++ y = st ++ z
      BY <1>1, <3>1, CatLaws
    <3> QED  BY <3>2 DEF On, x, y, z
  <2> QED  BY <2>1, <2>2, <2>3 DEF On
<1> DEFINE P(st, alt, conds, a, b, c) ==
            /\ \A es : Replace(St(On(st, a), alt, conds), 1, es) = Replace(St(st, alt, conds), 0, es)
            /\ \A es : Replace(St(On(On(st, b), a), alt, conds), 2, es) = Replace(St(st, alt, conds), 0, es)
            /\ \A es : Replace(St(On(On(On(st, c), b), a), alt, conds), 3, es)
                           = Replace(St(st, alt, conds), 0, es)
            /\ Nth(St(On(On(st, b), a), alt, conds), 2) = b
            /\ Nth(St(On(On(On(st, c), b), a), alt, conds), 3) = c
            /\ Nth(St(On(st, a), alt, conds), 1) = a
<1>2. ASSUME NEW st, NEW alt, NEW conds, NEW a, NEW b, NEW c, IsSeq(st)
      PROVE  P(st, alt, conds, a, b, c)
  <2> DEFINE s1 == On(st, c)
             s2 == On(s1, b)
             t1 == On(st, b)
  <2>1. /\ IsSeq(s1) /\ IsSeq(s2) /\ IsSeq(t1) /\ Len(st) \in Nat
        /\ Len(s1) = Len(st) + 1 /\ Len(s2) = Len(s1) + 1 /\ Len(t1) = Len(st) + 1
    BY <1>2, OnLaws
  <2>2. /\ 0 \in 0..Len(st) /\ 0 \in 0..Len(s1) /\ 1 \in 0..Len(s1) /\ 1 \in 1..Len(s1)
        /\ 2 \in 0..Len(s2) /\ 2 \in 1..Len(s2) /\ 1 \in 0..Len(t1) /\ 1 \in 1..Len(t1)
        /\ 0 + 1 = 1 /\ 1 + 1 = 2 /\ 2 + 1 = 3
    BY <2>1
  <2>3. /\ \A es, x : Replace(St(On(st, x), alt, conds), 1, es) = Replace(St(st, alt, conds), 0, es)
        /\ Nth(St(On(st, a), alt, conds), 1) = a
    BY <1>2, <2>2, StackOps
  <2>4. /\ \A es : Replace(St(On(t1, a), alt, conds), 2, es) = Replace(St(t1, alt, conds), 1, es)
        /\ \A es : Replace(St(On(s2, a), alt, conds), 3, es) = Replace(St(s2, alt, conds), 2, es)
        /\ \A es : Replace(St(On(s1, b), alt, conds), 2, es) = Replace(St(s1, alt, conds), 1, es)
    <3> HIDE DEF s1, s2, t1
    <3> QED  BY <2>1, <2>2, StackOps
  <2>5. /\ Nth(St(On(t1, a), alt, conds), 2) = Nth(St(t1, alt, conds), 1)
        /\ Nth(St(On(s2, a), alt, conds), 3) = Nth(St(s2, alt, conds), 2)
        /\ Nth(St(On(s1, b), alt, conds), 2) = Nth(St(s1, alt, conds), 1)
    <3> HIDE DEF s1, s2, t1
    <3> QED  BY <2>1, <2>2, StackOps
  <2>6. Nth(St(t1, alt, conds), 1) = b /\ Nth(St(s1, alt, conds), 1) = c
    BY <1>2, StackOps
  <2> QED  BY <2>3, <2>4, <2>5, <2>6
<1>3. ASSUME NEW st, NEW alt, NEW conds, NEW a, IsSeq(st)
      PROVE  LET r == St(On(st, a), alt, conds)
             IN  /\ Nth(r, 1) = a
                 /\ Replace(r, 1, <<>>) = St(st, alt, conds)
                 /\ \A e : Replace(r, 1, <<e>>) = St(On(st, e), alt, conds)
  <2>1. /\ \A es : Replace(St(On(st, a), alt, conds), 1, es) = Replace(St(st, alt, conds), 0, es)
        /\ Nth(St(On(st, a), alt, conds), 1) = a
    <3> HIDE DEF P
    <3>1. P(st, alt, conds, a, a, a)
      BY <1>2, <1>3, Zenon
    <3> QED  BY <3>1 DEF P
  <2>2. Pops(st, alt, conds, 1, St(On(st, a), alt, conds))
    <3> HIDE DEF Pops
    <3> QED  BY <1>1, <1>3, <2>1, Zenon
  <2> QED  BY <2>1, <2>2
<1>4. ASSUME NEW st, NEW alt, NEW conds, NEW a, NEW b, IsSeq(st)
      PROVE  LET r == St(On(On(st, b), a), alt, conds)
             IN  /\ Nth(r, 2) = b
                 /\ Replace(r, 2, <<>>) = St(st, alt, conds)
                 /\ \A e : Replace(r, 2, <<e>>) = St(On(st, e), alt, conds)
                 /\ \A e, d : Replace(r, 2, <<e, d>>) = St(On(On(st, e), d), alt, conds)
  <2>1. /\ \A es : Replace(St(On(On(st, b), a), alt, conds), 2, es) = Replace(St(st, alt, conds), 0, es)
        /\ Nth(St(On(On(st, b), a), alt, conds), 2) = b
    <3> HIDE DEF P
    <3>1. P(st, alt, conds, a, b, b)
      BY <1>2, <1>4, Zenon
    <3> QED  BY <3>1 DEF P
  <2>2. Pops(st, alt, conds, 2, St(On(On(st, b), a), alt, conds))
    <3> HIDE DEF Pops
    <3> QED  BY <1>1, <1>4, <2>1, Zenon
  <2> QED  BY <2>1, <2>2
<1>5. ASSUME NEW st, NEW alt, NEW conds, NEW a, NEW b, NEW c, IsSeq(st)
      PROVE  LET r == St(On(On(On(st, c), b), a), alt, conds)
             IN  /\ Nth(r, 3) = c
                 /\ \A e : Replace(r, 3, <<e>>) = St(On(st, e), alt, conds)
  <2>1. /\ \A es : Replace(St(On(On(On(st, c), b), a), alt, conds), 3, es)
                        = Replace(St(st, alt, conds), 0, es)
        /\ Nth(St(On(On(On(st, c), b), a), alt, conds), 3) = c
    <3> HIDE DEF P
    <3>1. P(st, alt, conds, a, b, c)
      BY <1>2, <1>5, Zenon
    <3> QED  BY <3>1 DEF P
  <2>2. Pops(st, alt, conds, 3, St(On(On(On(st, c), b), a), alt, conds))
    <3> HIDE DEF Pops
    <3> QED  BY <1>1, <1>5, <2>1, Zenon
  <2> QED  BY <2>1, <2>2
<1>6. ASSUME NEW st, NEW alt, NEW conds, NEW e, IsSeq(st)
      PROVE  Replace(St(st, alt, conds), 0, <<e>>) = St(On(st, e), alt, conds)
  BY <1>6, PushTop
<1> QED  BY <1>3, <1>4, <1>5, <1>6

(* What an instruction leaves on the stack.                                 *)
LEMMA OpDup ==
    ASSUME NEW env, NEW st, NEW a, IsSeq(st)
    PROVE  /\ Maps(env, <<Op("Dup")>>, On(st, a), On(On(st, a), a))
           /\ Maps(env, <<Op("Size")>>, On(st, a), On(On(st, a), number(elem_size(a))))
           /\ Maps(env, <<Op("Drop")>>, On(st, a), st)
           /\ is_true(a) => Maps(env, <<Op("IfDup")>>, On(st, a), On(On(st, a), a))
           /\ ~is_true(a) => Maps(env, <<Op("IfDup")>>, On(st, a), On(st, a))
           /\ is_true(a) => Maps(env, <<Op("Verify")>>, On(st, a), st)
           /\ \A h \in HashFrags : Maps(env, <<Op(h)>>, On(st, a), On(st, digest(a)))
<1> DEFINE x == On(st, a)
<1>1. IsSeq(x) /\ Len(x) >= 1 /\ Len(x) \in Nat
  BY OnLaws
<1>2. \A alt, conds : /\ Nth(St(x, alt, conds), 1) = a
                      /\ Replace(St(x, alt, conds), 1, <<>>) = St(st, alt, conds)
                      /\ \A e : Replace(St(x, alt, conds), 1, <<e>>) = St(On(st, e), alt, conds)
                      /\ \A e : Replace(St(x, alt, conds), 0, <<e>>) = St(On(x, e), alt, conds)
  BY <1>1, Tops
<1>3. \A e : IsSeq(On(x, e)) /\ IsSeq(On(st, e))
  BY <1>1, OnLaws
<1> HIDE DEF x
<1>4. ASSUME NEW op \in {"Dup", "Size", "Drop", "IfDup", "Verify"} \cup HashFrags
      PROVE  Plain(Op(op)[1]) /\ arity(Op(op)[1]) = 1 /\ Op(op)[1] = op
  BY DEF Plain, arity, Op, HashFrags
<1>5. ASSUME NEW op \in {"Dup", "Size", "Drop", "IfDup", "Verify"} \cup HashFrags, NEW y, IsSeq(y),
             \A alt, conds : St(y, alt, conds) \in exec_op(op, Op(op), St(x, alt, conds), env.tx)
      PROVE  Maps(env, <<Op(op)>>, x, y)
  BY <1>1, <1>4, <1>5, PlainMaps
<1>6. Maps(env, <<Op("Dup")>>, x, On(x, a))
  <2>1. \A alt, conds : St(On(x, a), alt, conds) \in exec_op("Dup", Op("Dup"), St(x, alt, conds), env.tx)
    BY <1>2 DEF exec_op, HashFrags
  <2> QED  BY <1>3, <1>5, <2>1
<1>7. Maps(env, <<Op("Size")>>, x, On(x, number(elem_size(a))))
  <2>1. \A alt, conds : St(On(x, number(elem_size(a))), alt, conds)
                            \in exec_op("Size", Op("Size"), St(x, alt, conds), env.tx)
    BY <1>2 DEF exec_op, HashFrags
  <2> QED  BY <1>3, <1>5, <2>1
<1>8. Maps(env, <<Op("Drop")>>, x, st)
  <2>1. \A alt, conds : St(st, alt, conds) \in exec_op("Drop", Op("Drop"), St(x, alt, conds), env.tx)
    BY <1>2 DEF exec_op, HashFrags
  <2> QED  BY <1>5, <2>1
<1>9. ASSUME is_true(a)  PROVE Maps(env, <<Op("IfDup")>>, x, On(x, a))
  <2>1. \A alt, conds : St(On(x, a), alt, conds) \in exec_op("IfDup", Op("IfDup"), St(x, alt, conds), env.tx)
    BY <1>2, <1>9 DEF exec_op, HashFrags
  <2> QED  BY <1>3, <1>5, <2>1
<1>10. ASSUME ~is_true(a)  PROVE Maps(env, <<Op("IfDup")>>, x, x)
  <2>1. \A alt, conds : St(x, alt, conds) \in exec_op("IfDup", Op("IfDup"), St(x, alt, conds), env.tx)
    BY <1>2, <1>10 DEF exec_op, HashFrags
  <2> QED  BY <1>1, <1>5, <2>1
<1>11. ASSUME is_true(a)  PROVE Maps(env, <<Op("Verify")>>, x, st)
  <2>1. \A alt, conds : St(st, alt, conds) \in exec_op("Verify", Op("Verify"), St(x, alt, conds), env.tx)
    BY <1>2, <1>11 DEF exec_op, HashFrags, When
  <2> QED  BY <1>5, <2>1
<1>12. ASSUME NEW h \in HashFrags  PROVE Maps(env, <<Op(h)>>, x, On(st, digest(a)))
  <2>0. \A r : exec_op(h, Op(h), r, env.tx) = {Replace(r, 1, <<digest(Nth(r, 1))>>)}
    BY DEF exec_op, HashFrags
  <2>1. \A alt, conds : St(On(st, digest(a)), alt, conds) \in exec_op(h, Op(h), St(x, alt, conds), env.tx)
    <3> TAKE alt, conds
    <3> DEFINE r == St(x, alt, conds)
    <3>1. Nth(r, 1) = a /\ Replace(r, 1, <<digest(a)>>) = St(On(st, digest(a)), alt, conds)
      BY <1>2
    <3> HIDE DEF r
    <3>2. exec_op(h, Op(h), r, env.tx) = {Replace(r, 1, <<digest(Nth(r, 1))>>)}
      BY <2>0
    <3> QED  BY <3>1, <3>2 DEF r
  <2> QED  BY <1>3, <1>5, <2>1
<1> QED  BY <1>6, <1>7, <1>8, <1>9, <1>10, <1>11, <1>12 DEF x

LEMMA OpNumbers ==
    ASSUME NEW env, NEW st, NEW m, NEW n, IsSeq(st)
    PROVE  /\ Maps(env, <<Op("Swap")>>, On(On(st, m), n), On(On(st, n), m))
           /\ Maps(env, <<Op("Equal")>>, On(On(st, m), n), On(st, truth(n = m)))
           /\ m = n => Maps(env, <<Op("EqualVerify")>>, On(On(st, m), n), st)
           /\ Maps(env, <<Op("ZeroNotEqual")>>, On(st, number(m)), On(st, truth(is_true(number(m)))))
           /\ Maps(env, <<Op("BoolAnd")>>, On(On(st, number(m)), number(n)),
                   On(st, truth(is_true(number(n)) /\ is_true(number(m)))))
           /\ Maps(env, <<Op("BoolOr")>>, On(On(st, number(m)), number(n)),
                   On(st, truth(is_true(number(n)) \/ is_true(number(m)))))
           /\ Maps(env, <<Op("Add")>>, On(On(st, number(m)), number(n)), On(st, number(n + m)))
           /\ Maps(env, <<Op("NumEqual")>>, On(On(st, number(m)), number(n)),
                   On(st, truth(number(n) = number(m))))
<1>1. \A e : IsSeq(On(st, e)) /\ Len(On(st, e)) >= 1 /\ Len(On(st, e)) \in Nat
  BY OnLaws
<1>2. \A e, d : IsSeq(On(On(st, e), d)) /\ Len(On(On(st, e), d)) >= 2 /\ Len(On(On(st, e), d)) \in Nat
  BY <1>1, OnLaws
<1>3. \A e, d, alt, conds :
            /\ Nth(St(On(On(st, e), d), alt, conds), 1) = d
            /\ Nth(St(On(On(st, e), d), alt, conds), 2) = e
            /\ Replace(St(On(On(st, e), d), alt, conds), 2, <<>>) = St(st, alt, conds)
            /\ \A y : Replace(St(On(On(st, e), d), alt, conds), 2, <<y>>) = St(On(st, y), alt, conds)
            /\ \A y, z : Replace(St(On(On(st, e), d), alt, conds), 2, <<y, z>>)
                            = St(On(On(st, y), z), alt, conds)
  BY <1>1, Tops
<1>4. \A e, alt, conds :
            /\ Nth(St(On(st, e), alt, conds), 1) = e
            /\ \A y : Replace(St(On(st, e), alt, conds), 1, <<y>>) = St(On(st, y), alt, conds)
  BY Tops
<1>5. ASSUME NEW op \in {"Swap", "Equal", "EqualVerify", "BoolAnd", "BoolOr", "Add", "NumEqual"}
      PROVE  Plain(Op(op)[1]) /\ arity(Op(op)[1]) = 2 /\ Op(op)[1] = op
  BY DEF Plain, arity, Op
<1>6. ASSUME NEW op \in {"Swap", "Equal", "EqualVerify", "BoolAnd", "BoolOr", "Add", "NumEqual"},
             NEW e, NEW d, NEW y, IsSeq(y),
             \A alt, conds : St(y, alt, conds)
                                \in exec_op(op, Op(op), St(On(On(st, e), d), alt, conds), env.tx)
      PROVE  Maps(env, <<Op(op)>>, On(On(st, e), d), y)
  BY <1>2, <1>5, <1>6, PlainMaps
<1>7. Maps(env, <<Op("Swap")>>, On(On(st, m), n), On(On(st, n), m))
  <2>1. \A alt, conds : St(On(On(st, n), m), alt, conds)
                            \in exec_op("Swap", Op("Swap"), St(On(On(st, m), n), alt, conds), env.tx)
    BY <1>3 DEF exec_op, HashFrags
  <2> QED  BY <1>2, <1>6, <2>1
<1>8. Maps(env, <<Op("Equal")>>, On(On(st, m), n), On(st, truth(n = m)))
  <2>1. \A alt, conds : St(On(st, truth(n = m)), alt, conds)
                            \in exec_op("Equal", Op("Equal"), St(On(On(st, m), n), alt, conds), env.tx)
    BY <1>3 DEF exec_op, HashFrags
  <2> QED  BY <1>1, <1>6, <2>1
<1>9. ASSUME m = n  PROVE Maps(env, <<Op("EqualVerify")>>, On(On(st, m), n), st)
  <2>1. \A alt, conds : St(st, alt, conds)
                            \in exec_op("EqualVerify", Op("EqualVerify"), St(On(On(st, m), n), alt, conds), env.tx)
    BY <1>3, <1>9 DEF exec_op, HashFrags, When
  <2> QED  BY <1>6, <2>1
<1>10. Maps(env, <<Op("ZeroNotEqual")>>, On(st, number(m)), On(st, truth(is_true(number(m)))))
  <2>1. \A alt, conds : St(On(st, truth(is_true(number(m)))), alt, conds)
              \in exec_op("ZeroNotEqual", Op("ZeroNotEqual"), St(On(st, number(m)), alt, conds), env.tx)
    <3>1. number(m)[1] = "num"
      BY DEF number
    <3> QED  BY <1>4, <3>1 DEF exec_op, HashFrags, When
  <2>2. Plain(Op("ZeroNotEqual")[1]) /\ arity(Op("ZeroNotEqual")[1]) = 1 /\ Op("ZeroNotEqual")[1] = "ZeroNotEqual"
    BY DEF Plain, arity, Op
  <2> QED  BY <1>1, <2>1, <2>2, PlainMaps
<1>11. \A e, d, alt, conds : Both(St(On(On(st, number(e)), number(d)), alt, conds), 2, "num")
  BY <1>3 DEF Both, number
<1>12. Maps(env, <<Op("BoolAnd")>>, On(On(st, number(m)), number(n)),
            On(st, truth(is_true(number(n)) /\ is_true(number(m)))))
  <2>1. \A alt, conds : St(On(st, truth(is_true(number(n)) /\ is_true(number(m)))), alt, conds)
              \in exec_op("BoolAnd", Op("BoolAnd"), St(On(On(st, number(m)), number(n)), alt, conds), env.tx)
    BY <1>3, <1>11 DEF exec_op, HashFrags, When
  <2> QED  BY <1>1, <1>6, <2>1
<1>13. Maps(env, <<Op("BoolOr")>>, On(On(st, number(m)), number(n)),
            On(st, truth(is_true(number(n)) \/ is_true(number(m)))))
  <2>1. \A alt, conds : St(On(st, truth(is_true(number(n)) \/ is_true(number(m)))), alt, conds)
              \in exec_op("BoolOr", Op("BoolOr"), St(On(On(st, number(m)), number(n)), alt, conds), env.tx)
    BY <1>3, <1>11 DEF exec_op, HashFrags, When
  <2> QED  BY <1>1, <1>6, <2>1
<1>14. Maps(env, <<Op("Add")>>, On(On(st, number(m)), number(n)), On(st, number(n + m)))
  <2>1. \A alt, conds : St(On(st, number(n + m)), alt, conds)
              \in exec_op("Add", Op("Add"), St(On(On(st, number(m)), number(n)), alt, conds), env.tx)
    <3>1. number(n)[2] = n /\ number(m)[2] = m
      BY DEF number
    <3> QED  BY <1>3, <1>11, <3>1 DEF exec_op, HashFrags, When
  <2> QED  BY <1>1, <1>6, <2>1
<1>15. Maps(env, <<Op("NumEqual")>>, On(On(st, number(m)), number(n)), On(st, truth(number(n) = number(m))))
  <2>1. \A alt, conds : St(On(st, truth(number(n) = number(m))), alt, conds)
              \in exec_op("NumEqual", Op("NumEqual"), St(On(On(st, number(m)), number(n)), alt, conds), env.tx)
    BY <1>3, <1>11 DEF exec_op, HashFrags, When
  <2> QED  BY <1>1, <1>6, <2>1
<1> QED  BY <1>7, <1>8, <1>9, <1>10, <1>12, <1>13, <1>14, <1>15

LEMMA OpSigs ==
    ASSUME NEW env, NEW st, NEW key, IsSeq(st)
    PROVE  LET sig == <<"sig", key>>
               pk == <<"key", key>>
               no == number(0)
           IN  /\ Maps(env, <<Op("CheckSig")>>, On(On(st, sig), pk), On(st, number(1)))
               /\ Maps(env, <<Op("CheckSig")>>, On(On(st, no), pk), On(st, number(0)))
               /\ \A m : Maps(env, <<Op("CheckSigAdd")>>, On(On(On(st, sig), number(m)), pk), On(st, number(m + 1)))
               /\ \A m : Maps(env, <<Op("CheckSigAdd")>>, On(On(On(st, no), number(m)), pk), On(st, number(m + 0)))
<1> DEFINE sig == <<"sig", key>>
           pk == <<"key", key>>
           no == number(0)
<1>1. \A e : IsSeq(On(st, e))
  BY OnLaws
<1>2. \A e, d : IsSeq(On(On(st, e), d)) /\ Len(On(On(st, e), d)) >= 2 /\ Len(On(On(st, e), d)) \in Nat
  BY <1>1, OnLaws
<1>3. \A e, d, c : /\ IsSeq(On(On(On(st, e), d), c))
                   /\ Len(On(On(On(st, e), d), c)) >= 3 /\ Len(On(On(On(st, e), d), c)) \in Nat
  BY <1>2, OnLaws
<1>4. \A e, d, alt, conds :
            /\ Nth(St(On(On(st, e), d), alt, conds), 1) = d
            /\ Nth(St(On(On(st, e), d), alt, conds), 2) = e
            /\ \A y : Replace(St(On(On(st, e), d), alt, conds), 2, <<y>>) = St(On(st, y), alt, conds)
  BY <1>1, Tops
<1>5. \A e, d, c, alt, conds :
            /\ Nth(St(On(On(On(st, e), d), c), alt, conds), 1) = c
            /\ Nth(St(On(On(On(st, e), d), c), alt, conds), 2) = d
            /\ Nth(St(On(On(On(st, e), d), c), alt, conds), 3) = e
            /\ \A y : Replace(St(On(On(On(st, e), d), c), alt, conds), 3, <<y>>) = St(On(st, y), alt, conds)
  BY <1>1, <1>2, Tops
<1>6. /\ sig_or_empty(sig, pk) /\ sig_ok(sig, pk) = TRUE
      /\ sig_or_empty(no, pk) /\ sig_ok(no, pk) = FALSE
      /\ truth(TRUE) = number(1) /\ truth(FALSE) = number(0)
  BY DEF sig_or_empty, sig_ok, number, truth
<1>7. \A m : number(m)[1] = "num" /\ number(m)[2] = m
  BY DEF number
<1> HIDE DEF sig, pk, no
<1>8. ASSUME NEW e \in {sig, no}, NEW b, b = sig_ok(e, pk)
      PROVE  Maps(env, <<Op("CheckSig")>>, On(On(st, e), pk), On(st, truth(b)))
  <2>1. \A alt, conds : St(On(st, truth(b)), alt, conds)
              \in exec_op("CheckSig", Op("CheckSig"), St(On(On(st, e), pk), alt, conds), env.tx)
    BY <1>4, <1>6, <1>8 DEF exec_op, HashFrags, When
  <2>2. Plain(Op("CheckSig")[1]) /\ arity(Op("CheckSig")[1]) = 2 /\ Op("CheckSig")[1] = "CheckSig"
    BY DEF Plain, arity, Op
  <2> QED  BY <1>1, <1>2, <2>1, <2>2, PlainMaps
<1>9. ASSUME NEW e \in {sig, no}, NEW b, b = (IF sig_ok(e, pk) THEN 1 ELSE 0), NEW m
      PROVE  Maps(env, <<Op("CheckSigAdd")>>, On(On(On(st, e), number(m)), pk), On(st, number(m + b)))
  <2> DEFINE op == "CheckSigAdd"
             x == On(On(On(st, e), number(m)), pk)
  <2>1. \A alt, conds : St(On(st, number(m + b)), alt, conds) \in exec_op(op, Op(op), St(x, alt, conds), env.tx)
    BY <1>5, <1>6, <1>7, <1>9 DEF exec_op, HashFrags, When
  <2>2. Plain(Op(op)[1]) /\ arity(Op(op)[1]) = 3 /\ Op(op)[1] = op
    BY DEF Plain, arity, Op
  <2>3. IsSeq(x) /\ IsSeq(On(st, number(m + b))) /\ Len(x) >= 3 /\ Len(x) \in Nat
    BY <1>1, <1>3
  <2> DEFINE y == On(st, number(m + b))
             ins == Op(op)
  <2> HIDE DEF x, y, ins
  <2>4. Maps(env, <<ins>>, x, y)
    <3>1. Plain(ins[1]) /\ arity(ins[1]) = 3 /\ ins[1] = op
      BY <2>2 DEF ins
    <3>2. \A alt, conds : St(y, alt, conds) \in exec_op(ins[1], ins, St(x, alt, conds), env.tx)
      BY <2>1, <3>1 DEF y, ins
    <3>3. IsSeq(y)
      BY <2>3 DEF y
    <3> QED  BY <2>3, <3>1, <3>2, <3>3, PlainMaps, SMTT(30)
  <2> QED  BY <2>4 DEF x, y, ins
<1>10. /\ Maps(env, <<Op("CheckSig")>>, On(On(st, sig), pk), On(st, number(1)))
       /\ Maps(env, <<Op("CheckSig")>>, On(On(st, no), pk), On(st, number(0)))
  BY <1>6, <1>8
<1>11. \A m : Maps(env, <<Op("CheckSigAdd")>>, On(On(On(st, sig), number(m)), pk), On(st, number(m + 1)))
  BY <1>6, <1>9
<1>12. \A m : Maps(env, <<Op("CheckSigAdd")>>, On(On(On(st, no), number(m)), pk), On(st, number(m + 0)))
  BY <1>6, <1>9
<1> QED  BY <1>10, <1>11, <1>12 DEF sig, pk, no

\* The instructions that leave the stack as it is, or push.
LEMMA PushMaps ==
    ASSUME NEW env, NEW st, IsSeq(st), NEW ins, ins[1] \in {"Num", "Hash20", "Bytes32", "Bytes33", "Bytes65"}
    PROVE  Maps(env, <<ins>>, st, On(st, pushed(ins)))
<1>1. IsSeq(On(st, pushed(ins))) /\ Len(st) \in Nat
  BY OnLaws
<1>2. \A alt, conds, e : Replace(St(st, alt, conds), 0, <<e>>) = St(On(st, e), alt, conds)
  BY PushTop
<1>3. \A r : exec_op(ins[1], ins, r, env.tx) = {Replace(r, 0, <<pushed(ins)>>)}
  BY DEF exec_op, HashFrags
<1>4. \A alt, conds : St(On(st, pushed(ins)), alt, conds) \in exec_op(ins[1], ins, St(st, alt, conds), env.tx)
  BY <1>2, <1>3
<1>5. Plain(ins[1]) /\ arity(ins[1]) = 0
  BY DEF Plain, arity
<1> QED  BY <1>1, <1>4, <1>5, PlainMaps, SMTT(30)

LEMMA OpPush ==
    ASSUME NEW env, NEW st, IsSeq(st)
    PROVE  /\ \A ins : ins[1] \in {"Num", "Hash20", "Bytes32", "Bytes33", "Bytes65"} =>
                    Maps(env, <<ins>>, st, On(st, pushed(ins)))
           /\ \A ins : ins[1] = "Inscription" => Maps(env, <<ins>>, st, st)
           /\ \A n : abs_is_implied_by(n, env.tx.lock_time) /\ env.tx.sequence # -1 =>
                    Maps(env, <<Op("CheckLockTimeVerify")>>, On(st, number(n)), On(st, number(n)))
           /\ \A n : env.tx.sequence >= 0 /\ rel_is_implied_by(n, env.tx.sequence) =>
                    Maps(env, <<Op("CheckSequenceVerify")>>, On(st, number(n)), On(st, number(n)))
           /\ \A e : e = <<"digest", env.tx.template>> =>
                    Maps(env, <<Op("CheckTemplateVerify")>>, On(st, e), On(st, e))
<1>1. \A e : IsSeq(On(st, e)) /\ Len(On(st, e)) >= 1 /\ Len(On(st, e)) \in Nat
  BY OnLaws
<1>2. Len(st) \in Nat
  BY OnLaws
<1>3. \A alt, conds, e : Replace(St(st, alt, conds), 0, <<e>>) = St(On(st, e), alt, conds)
  BY PushTop
<1>31. \A alt, conds, e : Nth(St(On(st, e), alt, conds), 1) = e
  BY StackOps
<1>4. ASSUME NEW ins, ins[1] \in {"Num", "Hash20", "Bytes32", "Bytes33", "Bytes65"}
      PROVE  Maps(env, <<ins>>, st, On(st, pushed(ins)))
  BY <1>4, PushMaps
<1>5. ASSUME NEW ins, ins[1] = "Inscription"  PROVE Maps(env, <<ins>>, st, st)
  <2>1. \A alt, conds : St(st, alt, conds) \in exec_op(ins[1], ins, St(st, alt, conds), env.tx)
    BY <1>5 DEF exec_op, HashFrags
  <2>2. Plain(ins[1]) /\ arity(ins[1]) = 0
    BY <1>5 DEF Plain, arity
  <2> QED  BY <1>2, <2>1, <2>2, PlainMaps
<1>6. ASSUME NEW op \in {"CheckLockTimeVerify", "CheckSequenceVerify", "CheckTemplateVerify"}, NEW e,
             \A alt, conds : St(On(st, e), alt, conds) \in exec_op(op, Op(op), St(On(st, e), alt, conds), env.tx)
      PROVE  Maps(env, <<Op(op)>>, On(st, e), On(st, e))
  <2>1. Plain(Op(op)[1]) /\ arity(Op(op)[1]) = 1 /\ Op(op)[1] = op
    BY DEF Plain, arity, Op
  <2> QED  BY <1>1, <1>6, <2>1, PlainMaps
<1>7. \A n : number(n)[2] = n
  BY DEF number
<1>8. ASSUME NEW n, abs_is_implied_by(n, env.tx.lock_time), env.tx.sequence # -1
      PROVE  Maps(env, <<Op("CheckLockTimeVerify")>>, On(st, number(n)), On(st, number(n)))
  <2> DEFINE op == "CheckLockTimeVerify"
  <2>1. \A alt, conds : St(On(st, number(n)), alt, conds)
                            \in exec_op(op, Op(op), St(On(st, number(n)), alt, conds), env.tx)
    BY <1>31, <1>7, <1>8 DEF exec_op, HashFrags, When
  <2> QED  BY <1>6, <2>1
<1>9. ASSUME NEW n, env.tx.sequence >= 0, rel_is_implied_by(n, env.tx.sequence)
      PROVE  Maps(env, <<Op("CheckSequenceVerify")>>, On(st, number(n)), On(st, number(n)))
  <2> DEFINE op == "CheckSequenceVerify"
  <2>1. \A alt, conds : St(On(st, number(n)), alt, conds)
                            \in exec_op(op, Op(op), St(On(st, number(n)), alt, conds), env.tx)
    BY <1>31, <1>7, <1>9 DEF exec_op, HashFrags, When
  <2> QED  BY <1>6, <2>1
<1>10. ASSUME NEW e, e = <<"digest", env.tx.template>>
       PROVE  Maps(env, <<Op("CheckTemplateVerify")>>, On(st, e), On(st, e))
  <2> DEFINE op == "CheckTemplateVerify"
  <2>1. \A alt, conds : St(On(st, e), alt, conds) \in exec_op(op, Op(op), St(On(st, e), alt, conds), env.tx)
    BY <1>31, <1>10 DEF exec_op, HashFrags, When
  <2> QED  BY <1>6, <2>1
<1> QED  BY <1>4, <1>5, <1>8, <1>9, <1>10

-----------------------------------------------------------------------------
(* Branches. *)

LEMMA OnConds ==
    ASSUME NEW conds, IsSeq(conds)
    PROVE  /\ \A b : IsSeq(On(conds, b))
           /\ Live(conds) => Live(On(conds, TRUE))
           /\ Dead(On(conds, FALSE))
           /\ \A b : Dead(conds) => Dead(On(conds, b))
           /\ \A b : SubSeq(On(conds, b), 1, Len(On(conds, b)) - 1) = conds
           /\ \A b \in BOOLEAN : [On(conds, b) EXCEPT ![Len(On(conds, b))] = ~@] = On(conds, ~b)
<1>1. /\ Len(conds) \in Nat /\ DOMAIN conds = 1..Len(conds)
      /\ \A b : /\ IsSeq(On(conds, b)) /\ Len(On(conds, b)) = Len(conds) + 1
                /\ DOMAIN On(conds, b) = 1..(Len(conds) + 1)
                /\ On(conds, b)[Len(conds) + 1] = b
                /\ \A i \in 1..Len(conds) : On(conds, b)[i] = conds[i]
  BY OnLaws, OnElems, SeqForm
<1>2. \A i \in 1..(Len(conds) + 1) : i \in 1..Len(conds) \/ i = Len(conds) + 1
  BY <1>1
<1>3. Live(conds) => Live(On(conds, TRUE))
  BY <1>1, <1>2 DEF Live
<1>4. Dead(On(conds, FALSE))
  <2>1. Len(conds) + 1 \in 1..(Len(conds) + 1)
    BY <1>1
  <2> QED  BY <1>1, <2>1 DEF Dead
<1>5. ASSUME NEW b, Dead(conds)  PROVE Dead(On(conds, b))
  <2>1. PICK i \in 1..Len(conds) : conds[i] = FALSE
    BY <1>1, <1>5 DEF Dead
  <2>2. i \in 1..(Len(conds) + 1)
    BY <1>1
  <2> QED  BY <1>1, <2>1, <2>2 DEF Dead
<1>6. ASSUME NEW b  PROVE SubSeq(On(conds, b), 1, Len(On(conds, b)) - 1) = conds
  <2>1. Len(On(conds, b)) - 1 = Len(conds)
    BY <1>1
  <2> QED  BY <1>1, <2>1, FrontOn
<1>7. ASSUME NEW b \in BOOLEAN
      PROVE  [On(conds, b) EXCEPT ![Len(On(conds, b))] = ~@] = On(conds, ~b)
  <2> DEFINE c == On(conds, b)
             d == On(conds, ~b)
             n == Len(conds) + 1
             z == [i \in 1..n |-> IF i = n THEN ~c[i] ELSE c[i]]
  <2>1. n \in Nat /\ Len(c) = n /\ DOMAIN c = 1..n /\ IsSeq(d) /\ Len(d) = n
    BY <1>1
  <2>2. [c EXCEPT ![n] = ~@] = z
    BY <2>1
  <2>3. IsSeq(z) /\ Len(z) = n
    <3> DEFINE f == [i \in 1..n |-> IF i = n THEN ~c[i] ELSE c[i]]
    <3>1. z = [i \in 1..n |-> f[i]]
      BY <2>1
    <3> HIDE DEF z, f
    <3> QED  BY <2>1, <3>1, FnIsSeq
  <2>4. ASSUME NEW i \in 1..n  PROVE z[i] = d[i]
    <3>1. CASE i = n
      BY <1>1, <3>1
    <3>2. CASE i # n
      <4>1. i \in 1..Len(conds)
        BY <1>1, <1>2, <3>2
      <4>2. z[i] = c[i]
        BY <3>2
      <4>3. c[i] = conds[i] /\ d[i] = conds[i]
        BY <1>1, <4>1
      <4> QED  BY <4>2, <4>3
    <3> QED  BY <3>1, <3>2
  <2> HIDE DEF z, c, d, n
  <2>5. z = d
    BY <2>1, <2>3, <2>4, SeqEq
  <2>6. [c EXCEPT ![Len(c)] = ~@] = d
    BY <2>1, <2>2, <2>5
  <2> QED  BY <2>6 DEF c, d
<1> QED  BY <1>1, <1>3, <1>4, <1>5, <1>6, <1>7

LEMMA Enter ==
    ASSUME NEW env, NEW op \in {"If", "NotIf"}, NEW b \in BOOLEAN, NEW x, NEW alt, NEW conds,
           IsSeq(x), IsSeq(alt), Live(conds)
    PROVE  Does(env, <<Op(op)>>, St(On(x, truth(b)), alt, conds), St(x, alt, On(conds, b = (op = "If"))))
<1> DEFINE r == St(On(x, truth(b)), alt, conds)
           c == (b = (op = "If"))
           q == St(x, alt, On(conds, c))
           s1 == Replace(r, 1, <<>>)
<1>1. IsSeq(On(x, truth(b))) /\ Len(On(x, truth(b))) \in Nat /\ Len(On(x, truth(b))) >= 1
  BY OnLaws
<1>2. IsSeq(conds) /\ IsSeq(On(conds, c))
  BY OnLaws DEF Live
<1>3. IsRun(r) /\ IsRun(q)
  BY <1>1, <1>2, StRun
<1>4. Nth(r, 1) = truth(b) /\ s1 = St(x, alt, conds)
  BY Tops
<1>5. truth(b) \in {number(0), number(1)} /\ is_true(truth(b)) = b
  BY DEF truth, number, is_true
<1>6. Need(r, 1, env.avail) = {r}
  <2>1. Len(r.stack) \in Nat /\ Len(r.stack) >= 1
    BY <1>1 DEF St
  <2> HIDE DEF r
  <2> QED  BY <2>1, Enough
<1>7. \A i \in DOMAIN r.conds : r.conds[i]
  BY DEF St, Live
<1>8. [s1 EXCEPT !.conds = Append(@, c)] = q
  <2>0. Append(conds, c) = On(conds, c)
    BY <1>2, AppendOn
  <2>1. s1.conds = conds /\ Append(conds, c) = On(conds, c)
    <3>1. s1 = St(x, alt, conds)
      BY <1>4
    <3> HIDE DEF s1, c
    <3> QED  BY <2>0, <3>1 DEF St
  <2> DEFINE d == On(conds, c)
  <2> HIDE DEF d, s1
  <2>2. [s1 EXCEPT !.conds = Append(@, c)] = [s1 EXCEPT !.conds = d]
    BY <2>1 DEF d
  <2>3. [St(x, alt, conds) EXCEPT !.conds = d] = St(x, alt, d)
    BY DEF St
  <2> QED  BY <1>4, <2>2, <2>3 DEF d
<1> DEFINE ins == Op(op)
<1>9. ins[1] = op
  BY DEF Op
<1>10. q \in When(Nth(r, 1) \in {number(0), number(1)},
                  [Replace(r, 1, <<>>) EXCEPT !.conds = Append(@, is_true(Nth(r, 1)) = (op = "If"))])
  <2>1. is_true(Nth(r, 1)) = (op = "If") <=> c
    BY <1>4, <1>5
  <2> QED  BY <1>4, <1>5, <1>8 DEF When
<1> HIDE DEF r, q, s1, ins, c
<1>11. q \in exec_ins(ins, r, env)
  BY <1>6, <1>7, <1>9, <1>10 DEF exec_ins
<1> QED  BY <1>3, <1>11, DoesOne DEF r, q, ins, c

LEMMA Control ==
    ASSUME NEW env, NEW x, NEW alt, NEW conds, NEW b \in BOOLEAN, IsSeq(x), IsSeq(alt), IsSeq(conds)
    PROVE  /\ \A op \in {"If", "NotIf"} : Dead(conds) =>
                Does(env, <<Op(op)>>, St(x, alt, conds), St(x, alt, On(conds, FALSE)))
           /\ Does(env, <<Op("Else")>>, St(x, alt, On(conds, b)), St(x, alt, On(conds, ~b)))
           /\ Does(env, <<Op("EndIf")>>, St(x, alt, On(conds, b)), St(x, alt, conds))
<1>1. \A c : IsSeq(On(conds, c))
  BY OnLaws
<1>2. IsRun(St(x, alt, conds)) /\ \A c : IsRun(St(x, alt, On(conds, c)))
  BY <1>1, StRun
<1>3. ASSUME NEW op \in {"If", "NotIf"}, Dead(conds)
      PROVE  Does(env, <<Op(op)>>, St(x, alt, conds), St(x, alt, On(conds, FALSE)))
  <2> DEFINE r == St(x, alt, conds)
             q == St(x, alt, On(conds, FALSE))
             ins == Op(op)
  <2>1. ins[1] = op
    BY DEF Op
  <2>2. ~\A i \in DOMAIN r.conds : r.conds[i]
    BY <1>3 DEF Dead, St
  <2>3. [r EXCEPT !.conds = Append(@, FALSE)] = q
    <3>1. Append(conds, FALSE) = On(conds, FALSE)
      BY AppendOn
    <3> DEFINE d == Append(conds, FALSE)
    <3>2. r.conds = conds
      BY DEF St
    <3>3. [r EXCEPT !.conds = Append(@, FALSE)] = [r EXCEPT !.conds = d]
      BY <3>2
    <3> HIDE DEF d
    <3>4. [r EXCEPT !.conds = d] = St(x, alt, d)
      BY DEF St
    <3> QED  BY <3>1, <3>3, <3>4 DEF d
  <2> HIDE DEF r, q, ins
  <2>4. q \in exec_ins(ins, r, env)
    BY <2>1, <2>2, <2>3 DEF exec_ins
  <2>5. IsRun(r) /\ IsRun(q)
    BY <1>2 DEF r, q
  <2>6. Does(env, <<ins>>, r, q)
    BY <2>4, <2>5, DoesOne
  <2> QED  BY <2>6 DEF ins, r, q
<1>4. Does(env, <<Op("Else")>>, St(x, alt, On(conds, b)), St(x, alt, On(conds, ~b)))
  <2> DEFINE r == St(x, alt, On(conds, b))
             q == St(x, alt, On(conds, ~b))
             ins == Op("Else")
  <2>1. ins[1] = "Else"
    BY DEF Op
  <2>2. [r EXCEPT !.conds[Len(r.conds)] = ~@] = q
    <3> DEFINE c == On(conds, b)
               d == On(conds, ~b)
    <3>1. [c EXCEPT ![Len(c)] = ~@] = d
      BY OnConds
    <3> HIDE DEF c, d
    <3>2. St(x, alt, c).conds = c
      BY DEF St
    <3>3. [St(x, alt, c) EXCEPT !.conds[Len(c)] = ~@] = St(x, alt, [c EXCEPT ![Len(c)] = ~@])
      BY DEF St
    <3> QED  BY <3>1, <3>2, <3>3 DEF c, d
  <2> HIDE DEF r, q, ins
  <2>4. q \in exec_ins(ins, r, env)
    BY <2>1, <2>2 DEF exec_ins
  <2>5. IsRun(r) /\ IsRun(q)
    BY <1>2 DEF r, q
  <2>6. Does(env, <<ins>>, r, q)
    BY <2>4, <2>5, DoesOne
  <2> QED  BY <2>6 DEF ins, r, q
<1>5. Does(env, <<Op("EndIf")>>, St(x, alt, On(conds, b)), St(x, alt, conds))
  <2> DEFINE r == St(x, alt, On(conds, b))
             q == St(x, alt, conds)
             ins == Op("EndIf")
  <2>1. ins[1] = "EndIf"
    BY DEF Op
  <2>2. [r EXCEPT !.conds = SubSeq(@, 1, Len(@) - 1)] = q
    <3> DEFINE c == On(conds, b)
    <3>1. SubSeq(c, 1, Len(c) - 1) = conds
      BY OnConds
    <3> HIDE DEF c
    <3>2. [St(x, alt, c) EXCEPT !.conds = SubSeq(@, 1, Len(@) - 1)] = St(x, alt, SubSeq(c, 1, Len(c) - 1))
      BY DEF St
    <3> QED  BY <3>1, <3>2 DEF c
  <2> HIDE DEF r, q, ins
  <2>4. q \in exec_ins(ins, r, env)
    BY <2>1, <2>2 DEF exec_ins
  <2>5. IsRun(r) /\ IsRun(q)
    BY <1>2 DEF r, q
  <2>6. Does(env, <<ins>>, r, q)
    BY <2>4, <2>5, DoesOne
  <2> QED  BY <2>6 DEF ins, r, q
<1> QED  BY <1>3, <1>4, <1>5

(* op a ENDIF, when a runs and when it does not.                            *)
LEMMA Block ==
    ASSUME NEW env, NEW op \in {"If", "NotIf"}, NEW a, IsSeq(a)
    PROVE  LET s == <<Op(op)>> ++ a ++ <<Op("EndIf")>>
           IN  /\ IsSeq(s)
               /\ \A x, y : IsSeq(x) /\ IsSeq(y) /\ Maps(env, a, x, y) =>
                    Maps(env, s, On(x, truth(op = "If")), y)
               /\ \A x : IsSeq(x) /\ Skips(env, a) => Maps(env, s, On(x, truth(op # "If")), x)
               /\ Skips(env, a) => Skips(env, s)
<1> DEFINE h == <<Op(op)>>
           e == <<Op("EndIf")>>
           s == h ++ a ++ e
<1>1. IsSeq(h) /\ IsSeq(e)
  BY ShortSeqs
<1>21. ASSUME NEW b \in BOOLEAN, NEW x, NEW alt, NEW conds, IsSeq(x), IsSeq(alt), Live(conds)
       PROVE  Does(env, h, St(On(x, truth(b)), alt, conds), St(x, alt, On(conds, b = (op = "If"))))
  BY <1>21, Enter
<1>22. ASSUME NEW x, NEW alt, NEW conds, IsSeq(x), IsSeq(alt), Dead(conds)
       PROVE  Does(env, h, St(x, alt, conds), St(x, alt, On(conds, FALSE)))
  <2>1. IsSeq(conds)
    BY <1>22 DEF Dead
  <2> QED  BY <1>22, <2>1, Control
<1>23. ASSUME NEW b \in BOOLEAN, NEW x, NEW alt, NEW conds, IsSeq(x), IsSeq(alt), IsSeq(conds)
       PROVE  Does(env, e, St(x, alt, On(conds, b)), St(x, alt, conds))
  BY <1>23, Control
<1>2. /\ \A b \in BOOLEAN : \A x, alt, conds : IsSeq(x) /\ IsSeq(alt) /\ Live(conds) =>
            Does(env, h, St(On(x, truth(b)), alt, conds), St(x, alt, On(conds, b = (op = "If"))))
      /\ \A x, alt, conds : IsSeq(x) /\ IsSeq(alt) /\ Dead(conds) =>
            Does(env, h, St(x, alt, conds), St(x, alt, On(conds, FALSE)))
      /\ \A b \in BOOLEAN : \A x, alt, conds : IsSeq(x) /\ IsSeq(alt) /\ IsSeq(conds) =>
            Does(env, e, St(x, alt, On(conds, b)), St(x, alt, conds))
  BY <1>21, <1>22, <1>23
<1> HIDE DEF h, e
<1>3. IsSeq(h ++ a) /\ IsSeq(s)
  BY <1>1, CatLaws
<1>4. ASSUME NEW x, NEW y, IsSeq(x), IsSeq(y), Maps(env, a, x, y)
      PROVE  Maps(env, s, On(x, truth(op = "If")), y)
  <2> SUFFICES ASSUME NEW alt, NEW conds, IsSeq(alt), Live(conds)
               PROVE  Does(env, s, St(On(x, truth(op = "If")), alt, conds), St(y, alt, conds))
    BY DEF Maps
  <2> DEFINE c == On(conds, TRUE)
  <2>1. Does(env, h, St(On(x, truth(op = "If")), alt, conds), St(x, alt, c))
    <3>1. (op = "If") \in BOOLEAN /\ ((op = "If") = (op = "If")) = TRUE
      OBVIOUS
    <3> QED  BY <1>2, <1>4, <3>1
  <2>2. Does(env, a, St(x, alt, c), St(y, alt, c))
    BY <1>4, OnConds DEF Maps, Live
  <2>3. Does(env, e, St(y, alt, c), St(y, alt, conds))
    BY <1>2, <1>4 DEF Live
  <2> QED  BY <1>1, <1>3, <2>1, <2>2, <2>3, DoesCat
<1>5. ASSUME NEW x, IsSeq(x), Skips(env, a)  PROVE Maps(env, s, On(x, truth(op # "If")), x)
  <2> SUFFICES ASSUME NEW alt, NEW conds, IsSeq(alt), Live(conds)
               PROVE  Does(env, s, St(On(x, truth(op # "If")), alt, conds), St(x, alt, conds))
    BY DEF Maps
  <2> DEFINE c == On(conds, FALSE)
  <2>1. Does(env, h, St(On(x, truth(op # "If")), alt, conds), St(x, alt, c))
    <3>1. (op # "If") \in BOOLEAN /\ ((op # "If") = (op = "If")) = FALSE
      OBVIOUS
    <3> QED  BY <1>2, <1>5, <3>1
  <2>2. Does(env, a, St(x, alt, c), St(x, alt, c))
    BY <1>5, OnConds DEF Skips, Live
  <2>3. Does(env, e, St(x, alt, c), St(x, alt, conds))
    BY <1>2, <1>5 DEF Live
  <2> QED  BY <1>1, <1>3, <2>1, <2>2, <2>3, DoesCat
<1>6. ASSUME Skips(env, a)  PROVE Skips(env, s)
  <2> SUFFICES ASSUME NEW x, NEW alt, NEW conds, IsSeq(x), IsSeq(alt), Dead(conds)
               PROVE  Does(env, s, St(x, alt, conds), St(x, alt, conds))
    BY DEF Skips
  <2> DEFINE c == On(conds, FALSE)
  <2>1. Does(env, h, St(x, alt, conds), St(x, alt, c))
    BY <1>2
  <2>2. Does(env, a, St(x, alt, c), St(x, alt, c))
    BY <1>6, OnConds DEF Skips, Dead
  <2>3. Does(env, e, St(x, alt, c), St(x, alt, conds))
    BY <1>2 DEF Dead
  <2> QED  BY <1>1, <1>3, <2>1, <2>2, <2>3, DoesCat
<1> QED  BY <1>3, <1>4, <1>5, <1>6 DEF s, h, e

(* op a ELSE b ENDIF.                                                       *)
LEMMA Branch ==
    ASSUME NEW env, NEW op \in {"If", "NotIf"}, NEW a, NEW b, IsSeq(a), IsSeq(b)
    PROVE  LET s == <<Op(op)>> ++ a ++ <<Op("Else")>> ++ b ++ <<Op("EndIf")>>
           IN  /\ IsSeq(s)
               /\ \A x, y : IsSeq(x) /\ IsSeq(y) /\ Maps(env, a, x, y) /\ Skips(env, b) =>
                    Maps(env, s, On(x, truth(op = "If")), y)
               /\ \A x, y : IsSeq(x) /\ IsSeq(y) /\ Maps(env, b, x, y) /\ Skips(env, a) =>
                    Maps(env, s, On(x, truth(op # "If")), y)
               /\ Skips(env, a) /\ Skips(env, b) => Skips(env, s)
<1> DEFINE h == <<Op(op)>>
           m == <<Op("Else")>>
           e == <<Op("EndIf")>>
           s == h ++ a ++ m ++ b ++ e
<1>1. IsSeq(h) /\ IsSeq(m) /\ IsSeq(e)
  BY ShortSeqs
<1>21. ASSUME NEW c \in BOOLEAN, NEW x, NEW alt, NEW conds, IsSeq(x), IsSeq(alt), Live(conds)
       PROVE  Does(env, h, St(On(x, truth(c)), alt, conds), St(x, alt, On(conds, c = (op = "If"))))
  BY <1>21, Enter, SMTT(30)
<1>22. ASSUME NEW x, NEW alt, NEW conds, IsSeq(x), IsSeq(alt), Dead(conds)
       PROVE  Does(env, h, St(x, alt, conds), St(x, alt, On(conds, FALSE)))
  <2>1. IsSeq(conds)
    BY <1>22 DEF Dead
  <2> QED  BY <1>22, <2>1, Control
<1>23. ASSUME NEW c \in BOOLEAN, NEW x, NEW alt, NEW conds, IsSeq(x), IsSeq(alt), IsSeq(conds)
       PROVE  /\ Does(env, e, St(x, alt, On(conds, c)), St(x, alt, conds))
              /\ Does(env, m, St(x, alt, On(conds, c)), St(x, alt, On(conds, ~c)))
  BY <1>23, Control
<1> HIDE DEF h, m, e
<1>3. IsSeq(h ++ a) /\ IsSeq(h ++ a ++ m) /\ IsSeq(h ++ a ++ m ++ b) /\ IsSeq(s)
  BY <1>1, CatLaws
<1>4. ASSUME NEW r, NEW q1, NEW q2, NEW q3, NEW q4, NEW q, Does(env, h, r, q1), Does(env, a, q1, q2),
             Does(env, m, q2, q3), Does(env, b, q3, q4), Does(env, e, q4, q)
      PROVE  Does(env, s, r, q)
  <2>1. Does(env, h ++ a, r, q2)
    BY <1>1, <1>4, DoesCat
  <2>2. Does(env, h ++ a ++ m, r, q3)
    BY <1>1, <1>3, <1>4, <2>1, DoesCat
  <2>3. Does(env, h ++ a ++ m ++ b, r, q4)
    BY <1>1, <1>3, <1>4, <2>2, DoesCat
  <2> QED  BY <1>1, <1>3, <1>4, <2>3, DoesCat
<1>5. ASSUME NEW x, NEW y, IsSeq(x), IsSeq(y), Maps(env, a, x, y), Skips(env, b)
      PROVE  Maps(env, s, On(x, truth(op = "If")), y)
  <2> SUFFICES ASSUME NEW alt, NEW conds, IsSeq(alt), Live(conds)
               PROVE  Does(env, s, St(On(x, truth(op = "If")), alt, conds), St(y, alt, conds))
    BY DEF Maps
  <2>0. IsSeq(conds) /\ ~TRUE = FALSE
    BY DEF Live
  <2>1. Does(env, h, St(On(x, truth(op = "If")), alt, conds), St(x, alt, On(conds, TRUE)))
    <3>1. (op = "If") \in BOOLEAN /\ ((op = "If") = (op = "If")) = TRUE
      OBVIOUS
    <3> QED  BY <1>5, <1>21, <3>1
  <2>2. Does(env, a, St(x, alt, On(conds, TRUE)), St(y, alt, On(conds, TRUE)))
    BY <1>5, <2>0, OnConds DEF Maps
  <2>3. Does(env, m, St(y, alt, On(conds, TRUE)), St(y, alt, On(conds, FALSE)))
    BY <1>5, <1>23, <2>0
  <2>4. Does(env, b, St(y, alt, On(conds, FALSE)), St(y, alt, On(conds, FALSE)))
    BY <1>5, <2>0, OnConds DEF Skips
  <2>5. Does(env, e, St(y, alt, On(conds, FALSE)), St(y, alt, conds))
    BY <1>5, <1>23, <2>0
  <2> QED  BY <1>4, <2>1, <2>2, <2>3, <2>4, <2>5
<1>6. ASSUME NEW x, NEW y, IsSeq(x), IsSeq(y), Maps(env, b, x, y), Skips(env, a)
      PROVE  Maps(env, s, On(x, truth(op # "If")), y)
  <2> SUFFICES ASSUME NEW alt, NEW conds, IsSeq(alt), Live(conds)
               PROVE  Does(env, s, St(On(x, truth(op # "If")), alt, conds), St(y, alt, conds))
    BY DEF Maps
  <2>0. IsSeq(conds) /\ ~FALSE = TRUE
    BY DEF Live
  <2>1. Does(env, h, St(On(x, truth(op # "If")), alt, conds), St(x, alt, On(conds, FALSE)))
    <3>1. (op # "If") \in BOOLEAN /\ ((op # "If") = (op = "If")) = FALSE
      OBVIOUS
    <3> QED  BY <1>6, <1>21, <3>1
  <2>2. Does(env, a, St(x, alt, On(conds, FALSE)), St(x, alt, On(conds, FALSE)))
    BY <1>6, <2>0, OnConds DEF Skips
  <2>3. Does(env, m, St(x, alt, On(conds, FALSE)), St(x, alt, On(conds, TRUE)))
    BY <1>6, <1>23, <2>0
  <2>4. Does(env, b, St(x, alt, On(conds, TRUE)), St(y, alt, On(conds, TRUE)))
    BY <1>6, <2>0, OnConds DEF Maps
  <2>5. Does(env, e, St(y, alt, On(conds, TRUE)), St(y, alt, conds))
    BY <1>6, <1>23, <2>0
  <2> QED  BY <1>4, <2>1, <2>2, <2>3, <2>4, <2>5
<1>7. ASSUME Skips(env, a), Skips(env, b)  PROVE Skips(env, s)
  <2> SUFFICES ASSUME NEW x, NEW alt, NEW conds, IsSeq(x), IsSeq(alt), Dead(conds)
               PROVE  Does(env, s, St(x, alt, conds), St(x, alt, conds))
    BY DEF Skips
  <2>0. IsSeq(conds) /\ Dead(On(conds, FALSE)) /\ Dead(On(conds, TRUE)) /\ ~FALSE = TRUE
    <3>1. IsSeq(conds)
      BY DEF Dead
    <3> QED  BY <3>1, OnConds
  <2>1. Does(env, h, St(x, alt, conds), St(x, alt, On(conds, FALSE)))
    BY <1>22
  <2>2. Does(env, a, St(x, alt, On(conds, FALSE)), St(x, alt, On(conds, FALSE)))
    BY <1>7, <2>0 DEF Skips
  <2>3. Does(env, m, St(x, alt, On(conds, FALSE)), St(x, alt, On(conds, TRUE)))
    BY <1>23, <2>0
  <2>4. Does(env, b, St(x, alt, On(conds, TRUE)), St(x, alt, On(conds, TRUE)))
    BY <1>7, <2>0 DEF Skips
  <2>5. Does(env, e, St(x, alt, On(conds, TRUE)), St(x, alt, conds))
    BY <1>23, <2>0
  <2> QED  BY <1>4, <2>1, <2>2, <2>3, <2>4, <2>5
<1> QED  BY <1>3, <1>5, <1>6, <1>7 DEF s, h, m, e

(* An expression between TOALTSTACK and FROMALTSTACK.                       *)
LEMMA Aside ==
    ASSUME NEW env, NEW a, IsSeq(a)
    PROVE  LET s == <<Op("ToAltStack")>> ++ a ++ <<Op("FromAltStack")>>
           IN  /\ IsSeq(s)
               /\ \A st, y, x : IsSeq(st) /\ IsSeq(y) /\ Maps(env, a, st, y) => Maps(env, s, On(st, x), On(y, x))
               /\ Skips(env, a) => Skips(env, s)
<1> DEFINE h == <<Op("ToAltStack")>>
           e == <<Op("FromAltStack")>>
           s == h ++ a ++ e
<1>1. IsSeq(h) /\ IsSeq(e)
  BY ShortSeqs
<1>2. ASSUME NEW st, NEW x, NEW alt, NEW conds, IsSeq(st), IsSeq(alt), Live(conds)
      PROVE  Does(env, h, St(On(st, x), alt, conds), St(st, On(alt, x), conds))
  <2> DEFINE r == St(On(st, x), alt, conds)
             q == St(st, On(alt, x), conds)
             ins == Op("ToAltStack")
             w == Replace(r, 1, <<>>)
  <2>1. IsSeq(On(st, x)) /\ Len(On(st, x)) \in Nat /\ Len(On(st, x)) >= 1 /\ IsSeq(On(alt, x)) /\ IsSeq(conds)
    BY <1>2, OnLaws DEF Live
  <2>2. IsRun(r) /\ IsRun(q)
    BY <1>2, <2>1, StRun
  <2>3. Nth(r, 1) = x /\ w = St(st, alt, conds)
    BY <1>2, Tops
  <2>4. Need(r, 1, env.avail) = {r}
    <3>1. Len(r.stack) \in Nat /\ Len(r.stack) >= 1
      BY <2>1 DEF St
    <3> HIDE DEF r
    <3> QED  BY <3>1, Enough
  <2>5. \A i \in DOMAIN r.conds : r.conds[i]
    BY <1>2 DEF St, Live
  <2>6. [w EXCEPT !.alt = Append(@, x)] = q
    <3> DEFINE d == Append(alt, x)
    <3> HIDE DEF w
    <3>1. w.alt = alt
      BY <2>3 DEF St
    <3>2. [w EXCEPT !.alt = Append(@, x)] = [w EXCEPT !.alt = d]
      BY <3>1
    <3>3. d = On(alt, x)
      BY <1>2, AppendOn
    <3> HIDE DEF d
    <3>4. [w EXCEPT !.alt = d] = St(st, d, conds)
      BY <2>3 DEF St
    <3> QED  BY <3>2, <3>3, <3>4
  <2>7. q \in exec_op("ToAltStack", ins, r, env.tx)
    <3>1. exec_op("ToAltStack", ins, r, env.tx) = {[Replace(r, 1, <<>>) EXCEPT !.alt = Append(@, Nth(r, 1))]}
      <4> HIDE DEF r, ins
      <4> QED  BY DEF exec_op, HashFrags
    <3> QED  BY <2>3, <2>6, <3>1
  <2>8. Plain(ins[1]) /\ arity(ins[1]) = 1 /\ ins[1] = "ToAltStack"
    BY DEF Plain, arity, Op
  <2> HIDE DEF r, q, ins, w
  <2>9. q \in UNION {exec_op(ins[1], ins, z, env.tx) : z \in Need(r, arity(ins[1]), env.avail)}
    BY <2>4, <2>7, <2>8
  <2>10. q \in exec_ins(ins, r, env)
    BY <2>5, <2>8, <2>9 DEF exec_ins, Plain
  <2> QED  BY <2>2, <2>10, DoesOne DEF r, q, ins
<1>3. ASSUME NEW y, NEW x, NEW alt, NEW conds, IsSeq(y), IsSeq(alt), Live(conds)
      PROVE  Does(env, e, St(y, On(alt, x), conds), St(On(y, x), alt, conds))
  <2> DEFINE r == St(y, On(alt, x), conds)
             q == St(On(y, x), alt, conds)
             ins == Op("FromAltStack")
             w == Replace(r, 0, <<x>>)
  <2>1. IsSeq(On(y, x)) /\ Len(y) \in Nat /\ IsSeq(On(alt, x)) /\ IsSeq(conds)
    BY <1>3, OnLaws DEF Live
  <2>2. IsRun(r) /\ IsRun(q)
    BY <1>3, <2>1, StRun
  <2>3. w = St(On(y, x), On(alt, x), conds)
    BY <1>3, PushTop
  <2>4. Need(r, 0, env.avail) = {r}
    <3>1. Len(r.stack) \in Nat /\ Len(r.stack) >= 0
      BY <2>1 DEF St
    <3> HIDE DEF r
    <3> QED  BY <3>1, Enough
  <2>5. \A i \in DOMAIN r.conds : r.conds[i]
    BY <1>3 DEF St, Live
  <2>6. [w EXCEPT !.alt = SubSeq(@, 1, Len(@) - 1)] = q
    <3> DEFINE c == On(alt, x)
               d == SubSeq(c, 1, Len(c) - 1)
    <3> HIDE DEF w
    <3>1. w.alt = c
      BY <2>3 DEF St
    <3>2. [w EXCEPT !.alt = SubSeq(@, 1, Len(@) - 1)] = [w EXCEPT !.alt = d]
      BY <3>1
    <3>3. d = alt
      BY <1>3, OnConds
    <3> HIDE DEF d
    <3>4. [w EXCEPT !.alt = d] = St(On(y, x), d, conds)
      BY <2>3 DEF St
    <3> QED  BY <3>2, <3>3, <3>4
  <2>61. r.alt[Len(r.alt)] = x
    <3>1. r.alt = On(alt, x)
      BY DEF St
    <3>2. On(alt, x)[Len(On(alt, x))] = x
      BY <1>3, OnLaws, OnElems
    <3> QED  BY <3>1, <3>2
  <2>7. q \in exec_op("FromAltStack", ins, r, env.tx)
    <3>1. exec_op("FromAltStack", ins, r, env.tx) =
            {[Replace(r, 0, <<r.alt[Len(r.alt)]>>) EXCEPT !.alt = SubSeq(@, 1, Len(@) - 1)]}
      <4> HIDE DEF r, ins
      <4> QED  BY DEF exec_op, HashFrags
    <3> QED  BY <2>6, <2>61, <3>1
  <2>8. Plain(ins[1]) /\ arity(ins[1]) = 0 /\ ins[1] = "FromAltStack"
    BY DEF Plain, arity, Op
  <2> HIDE DEF r, q, ins, w
  <2>9. q \in UNION {exec_op(ins[1], ins, z, env.tx) : z \in Need(r, arity(ins[1]), env.avail)}
    BY <2>4, <2>7, <2>8
  <2>10. q \in exec_ins(ins, r, env)
    BY <2>5, <2>8, <2>9 DEF exec_ins, Plain
  <2> QED  BY <2>2, <2>10, DoesOne DEF r, q, ins
<1>4. Skips(env, h) /\ Skips(env, e)
  <2>1. Plain(Op("ToAltStack")[1]) /\ Plain(Op("FromAltStack")[1])
    BY DEF Plain, Op
  <2> QED  BY <2>1, PlainSkips
<1> HIDE DEF h, e
<1>5. IsSeq(h ++ a) /\ IsSeq(s)
  BY <1>1, CatLaws
<1>6. ASSUME NEW st, NEW y, NEW x, IsSeq(st), IsSeq(y), Maps(env, a, st, y)
      PROVE  Maps(env, s, On(st, x), On(y, x))
  <2> SUFFICES ASSUME NEW alt, NEW conds, IsSeq(alt), Live(conds)
               PROVE  Does(env, s, St(On(st, x), alt, conds), St(On(y, x), alt, conds))
    BY DEF Maps
  <2>1. Does(env, h, St(On(st, x), alt, conds), St(st, On(alt, x), conds))
    BY <1>2, <1>6
  <2>2. Does(env, a, St(st, On(alt, x), conds), St(y, On(alt, x), conds))
    BY <1>6, OnLaws DEF Maps
  <2>3. Does(env, e, St(y, On(alt, x), conds), St(On(y, x), alt, conds))
    BY <1>3, <1>6
  <2> QED  BY <1>1, <1>5, <2>1, <2>2, <2>3, DoesCat
<1>7. ASSUME Skips(env, a)  PROVE Skips(env, s)
  BY <1>1, <1>4, <1>5, <1>7, SkipsCat
<1> QED  BY <1>5, <1>6, <1>7 DEF s, h, e

-----------------------------------------------------------------------------
(* The last instruction turned into its VERIFY form. *)

Front(s) == SubSeq(s, 1, Len(s) - 1)

LEMMA FrontLast ==
    ASSUME NEW s, IsSeq(s), s # <<>>
    PROVE  /\ IsSeq(Front(s)) /\ Len(s) \in Nat /\ Len(s) >= 1 /\ s = On(Front(s), s[Len(s)])
           /\ \A v : [s EXCEPT ![Len(s)] = v] = On(Front(s), v)
<1> DEFINE n == Len(s)
           f == Front(s)
<1>1. n \in Nat /\ n # 0 /\ DOMAIN s = 1..n /\ s = [i \in 1..n |-> s[i]]
  <2>1. n \in Nat /\ DOMAIN s = 1..n /\ s = [i \in 1..n |-> s[i]]
    BY SeqForm
  <2>2. n # 0
    <3> SUFFICES ASSUME n = 0 PROVE FALSE
      OBVIOUS
    <3>1. s = [i \in 1..0 |-> s[i]]
      BY <2>1
    <3>2. 1..0 = {}
      OBVIOUS
    <3> QED  BY <3>1, <3>2
  <2> QED  BY <2>1, <2>2
<1>2. IsSeq(f) /\ Len(f) = n - 1 /\ \A i \in 1..(n - 1) : f[i] = s[i]
  <2> DEFINE S == {s[i] : i \in DOMAIN s}
  <2>1. s \in Seq(S)
    BY DEF IsSeq
  <2> HIDE DEF S
  <2>2. f \in Seq(S) /\ Len(f) = n - 1 /\ \A i \in 1..(n - 1) : f[i] = s[i]
    BY <1>1, <2>1 DEF Front
  <2> QED  BY <2>2, SeqIsSeq
<1> HIDE DEF f
<1>3. ASSUME NEW v, NEW z, IsSeq(z), Len(z) = n, z[n] = v, \A i \in 1..(n - 1) : z[i] = s[i]
      PROVE  z = On(f, v)
  <2>1. IsSeq(On(f, v)) /\ Len(On(f, v)) = n
    BY <1>1, <1>2, OnLaws
  <2>2. On(f, v)[n] = v /\ \A i \in 1..(n - 1) : On(f, v)[i] = f[i]
    <3>1. Len(f) + 1 = n
      BY <1>1, <1>2
    <3> QED  BY <1>2, <3>1, OnElems
  <2>3. \A i \in 1..n : i \in 1..(n - 1) \/ i = n
    BY <1>1
  <2>4. \A i \in 1..n : z[i] = On(f, v)[i]
    BY <1>2, <1>3, <2>2, <2>3
  <2> QED  BY <1>3, <2>1, <2>4, SeqEq
<1>4. s = On(f, s[n])
  BY <1>1, <1>3
<1>5. ASSUME NEW v  PROVE [s EXCEPT ![n] = v] = On(f, v)
  <2> DEFINE z == [s EXCEPT ![n] = v]
  <2>1. z = [i \in 1..n |-> IF i = n THEN v ELSE s[i]]
    BY <1>1
  <2>2. z[n] = v /\ \A i \in 1..(n - 1) : z[i] = s[i]
    BY <1>1
  <2>3. IsSeq(z) /\ Len(z) = n
    <3>1. z = [i \in 1..n |-> z[i]]
      BY <2>1
    <3> HIDE DEF z
    <3> QED  BY <1>1, <3>1, FnSeq
  <2> HIDE DEF z
  <2>4. z = On(f, v)
    BY <1>3, <2>2, <2>3
  <2> QED  BY <2>4 DEF z
<1> QED  BY <1>1, <1>2, <1>4, <1>5 DEF f

LEMMA OnInjective ==
    ASSUME NEW a, NEW x, NEW b, NEW y, IsSeq(a), IsSeq(b), On(a, x) = On(b, y)
    PROVE  a = b /\ x = y
<1>1. SubSeq(On(a, x), 1, Len(On(a, x)) - 1) = a /\ SubSeq(On(b, y), 1, Len(On(b, y)) - 1) = b
  BY OnConds
<1>2. a = b
  BY <1>1
<1>3. On(a, x)[Len(a) + 1] = x /\ On(b, y)[Len(b) + 1] = y
  BY OnElems
<1> QED  BY <1>2, <1>3

LEMMA DoesOn ==
    ASSUME NEW env, NEW f, NEW v, IsSeq(f), NEW r, NEW q
    PROVE  Does(env, On(f, v), r, q) <=>
                IsRun(q) /\ \E p : IsRun(p) /\ Does(env, f, r, p) /\ q \in exec_ins(v, p, env)
<1> DEFINE s == On(f, v)
           n == Len(f)
<1>1. n \in Nat /\ Len(s) = n + 1 /\ s[n + 1] = v /\ \A i \in 1..n : s[i] = f[i]
  BY OnLaws, OnElems
<1> HIDE DEF s
<1>2. ASSUME Does(env, s, r, q)
      PROVE  IsRun(q) /\ \E p : IsRun(p) /\ Does(env, f, r, p) /\ q \in exec_ins(v, p, env)
  <2>1. PICK g : /\ g[0] = r /\ g[n + 1] = q
                 /\ \A i \in 0..(n + 1) : IsRun(g[i])
                 /\ \A i \in 1..(n + 1) : g[i] \in exec_ins(s[i], g[i - 1], env)
    BY <1>1, <1>2 DEF Does
  <2>2. n + 1 \in 1..(n + 1) /\ n + 1 \in 0..(n + 1) /\ n \in 0..(n + 1) /\ (n + 1) - 1 = n
    BY <1>1
  <2>3. IsRun(q) /\ IsRun(g[n]) /\ q \in exec_ins(v, g[n], env)
    <3>1. q \in exec_ins(s[n + 1], g[(n + 1) - 1], env)
      BY <2>1, <2>2
    <3> QED  BY <1>1, <2>1, <2>2, <3>1
  <2>4. \A i \in 0..n : IsRun(g[i])
    <3>1. \A i \in 0..n : i \in 0..(n + 1)
      BY <1>1
    <3> QED  BY <2>1, <3>1
  <2>5. \A i \in 1..n : g[i] \in exec_ins(f[i], g[i - 1], env)
    <3>1. \A i \in 1..n : i \in 1..(n + 1)
      BY <1>1
    <3> QED  BY <1>1, <2>1, <3>1
  <2>6. Does(env, f, r, g[n])
    BY <2>1, <2>4, <2>5 DEF Does
  <2> QED  BY <2>3, <2>6
<1>3. ASSUME IsRun(q), NEW p, IsRun(p), Does(env, f, r, p), q \in exec_ins(v, p, env)
      PROVE  Does(env, s, r, q)
  <2>1. Does(env, <<v>>, p, q)
    BY <1>3, DoesOne
  <2>2. IsSeq(<<v>>)
    BY ShortSeqs
  <2> DEFINE t == <<v>>
  <2> HIDE DEF t
  <2>3. Does(env, f ++ t, r, q)
    BY <1>3, <2>1, <2>2, DoesCat DEF t
  <2> QED  BY <2>3 DEF s, On, t
<1> QED  BY <1>2, <1>3 DEF s

Merged == {"Equal", "NumEqual", "CheckSig", "CheckMultiSig"}

LEMMA VerifyForms ==
    /\ DOMAIN VerifyForm = Merged
    /\ VerifyForm["Equal"] = "EqualVerify" /\ VerifyForm["NumEqual"] = "NumEqualVerify"
    /\ VerifyForm["CheckSig"] = "CheckSigVerify" /\ VerifyForm["CheckMultiSig"] = "CheckMultiSigVerify"
  BY DEF VerifyForm, Merged

LEMMA NeedNone ==
    ASSUME NEW r, NEW n \in Nat, NEW z, z \in Need(r, n, {}), Len(r.stack) \in Nat
    PROVE  z = r /\ Len(r.stack) >= n
<1> DEFINE lacks == n - Len(r.stack)
<1>1. CASE lacks <= 0
  BY <1>1, Enough
<1>2. CASE ~(lacks <= 0)
  <2>1. [1..lacks -> {}] = {}
    <3>1. 1 \in 1..lacks
      BY <1>2
    <3> QED  BY <3>1
  <2>2. Need(r, n, {}) = {[r EXCEPT !.stack = es \o @, !.wit = es \o @] : es \in [1..lacks -> {}]}
    BY <1>2, Zenon DEF Need
  <2> QED  BY <2>1, <2>2
<1> QED  BY <1>1, <1>2

(* The plain instructions with a VERIFY form.                               *)
LEMMA MergedOps ==
    ASSUME NEW env, env.avail = {}, NEW op \in {"Equal", "NumEqual", "CheckSig"}, NEW ins, ins[1] = op,
           NEW st, NEW alt, NEW conds, IsSeq(st), IsSeq(alt), Live(conds),
           NEW q, q \in exec_ins(ins, St(st, alt, conds), env)
    PROVE  \E b \in BOOLEAN :
              /\ Len(st) >= 2
              /\ q = St(Cut(st, 2) ++ <<truth(b)>>, alt, conds)
              /\ b => St(Cut(st, 2) ++ <<>>, alt, conds) \in
                        exec_ins(Op(VerifyForm[op]), St(st, alt, conds), env)
<1> DEFINE p == St(st, alt, conds)
           vop == VerifyForm[op]
<1>1. Len(p.stack) \in Nat /\ p.stack = st /\ \A i \in DOMAIN p.conds : p.conds[i]
  BY SeqForm DEF St, Live
<1>2. arity(op) = 2 /\ arity(vop) = 2 /\ Op(vop)[1] = vop /\ Plain(op) /\ Plain(vop)
  BY VerifyForms DEF arity, Plain, Op
<1>3. \A es : Replace(p, 2, es) = St(Cut(st, 2) ++ es, alt, conds)
  BY ReplaceIs
<1> HIDE DEF p, vop
<1>4. q \in UNION {exec_op(op, ins, z, env.tx) : z \in Need(p, 2, env.avail)}
  BY <1>1, <1>2 DEF exec_ins, Plain, p
<1>5. PICK z \in Need(p, 2, {}) : q \in exec_op(op, ins, z, env.tx)
  BY <1>4
<1>6. z = p /\ Len(st) >= 2
  BY <1>1, <1>5, NeedNone
<1>7. Need(p, 2, env.avail) = {p}
  BY <1>1, <1>6, Enough
<1>8. \A x : x \in exec_op(vop, Op(vop), p, env.tx) => x \in exec_ins(Op(vop), p, env)
  <2> TAKE x
  <2> HAVE x \in exec_op(vop, Op(vop), p, env.tx)
  <2> DEFINE i2 == Op(vop)
  <2>1. i2[1] = vop
    BY <1>2
  <2> HIDE DEF i2
  <2>2. x \in UNION {exec_op(i2[1], i2, s, env.tx) : s \in Need(p, arity(i2[1]), env.avail)}
    BY <1>2, <1>7, <2>1 DEF i2
  <2>3. x \in exec_ins(i2, p, env)
    BY <1>1, <1>2, <2>1, <2>2 DEF exec_ins, Plain
  <2> QED  BY <2>3 DEF i2
<1>9. CASE op = "Equal"
  <2>1. exec_op(op, ins, p, env.tx) = {Replace(p, 2, <<truth(Nth(p, 1) = Nth(p, 2))>>)}
    BY <1>9 DEF exec_op, HashFrags
  <2>2. exec_op(vop, Op(vop), p, env.tx) = When(Nth(p, 1) = Nth(p, 2), Replace(p, 2, <<>>))
    <3>1. vop = "EqualVerify"
      BY <1>9, VerifyForms DEF vop
    <3> QED  BY <3>1 DEF exec_op, HashFrags
  <2> WITNESS (Nth(p, 1) = Nth(p, 2)) \in BOOLEAN
  <2> QED  BY <1>3, <1>5, <1>6, <1>8, <2>1, <2>2 DEF When, p, vop
<1>10. CASE op = "NumEqual"
  <2>1. exec_op(op, ins, p, env.tx) =
            When(Both(p, 2, "num"), Replace(p, 2, <<truth(Nth(p, 1) = Nth(p, 2))>>))
    BY <1>10 DEF exec_op, HashFrags
  <2>2. exec_op(vop, Op(vop), p, env.tx) = When(Both(p, 2, "num") /\ Nth(p, 1) = Nth(p, 2), Replace(p, 2, <<>>))
    <3>1. vop = "NumEqualVerify"
      BY <1>10, VerifyForms DEF vop
    <3> QED  BY <3>1 DEF exec_op, HashFrags
  <2> WITNESS (Nth(p, 1) = Nth(p, 2)) \in BOOLEAN
  <2> QED  BY <1>3, <1>5, <1>6, <1>8, <2>1, <2>2 DEF When, p, vop
<1>11. CASE op = "CheckSig"
  <2>1. exec_op(op, ins, p, env.tx) =
            When(sig_or_empty(Nth(p, 2), Nth(p, 1)), Replace(p, 2, <<truth(sig_ok(Nth(p, 2), Nth(p, 1)))>>))
    BY <1>11 DEF exec_op, HashFrags
  <2>2. exec_op(vop, Op(vop), p, env.tx) = When(sig_ok(Nth(p, 2), Nth(p, 1)), Replace(p, 2, <<>>))
    <3>1. vop = "CheckSigVerify"
      BY <1>11, VerifyForms DEF vop
    <3> QED  BY <3>1 DEF exec_op, HashFrags
  <2>3. sig_ok(Nth(p, 2), Nth(p, 1)) \in BOOLEAN
    BY DEF sig_ok
  <2> WITNESS sig_ok(Nth(p, 2), Nth(p, 1)) \in BOOLEAN
  <2> QED  BY <1>3, <1>5, <1>6, <1>8, <2>1, <2>2 DEF When, p, vop
<1> QED  BY <1>9, <1>10, <1>11

LEMMA MultisigKeeps ==
    ASSUME NEW st, NEW alt, NEW conds, NEW avail, NEW q \in exec_multisig(St(st, alt, conds), avail)
    PROVE  q.conds = conds
<1> DEFINE p == St(st, alt, conds)
           n == Nth(p, 1)[2]
           k == Nth(p, n + 2)[2]
<1>0. p.conds = conds
  BY DEF St
<1> HIDE DEF p
<1>1. \A N : \A z \in Need(p, N, avail) : z.conds = conds
  <2> SUFFICES ASSUME NEW N, NEW z \in Need(p, N, avail)  PROVE z.conds = conds
    OBVIOUS
  <2>1. \A a, b : [p EXCEPT !.stack = a, !.wit = b].conds = p.conds
    OBVIOUS
  <2>2. z = p \/ \E es : z = [p EXCEPT !.stack = es \o @, !.wit = es \o @]
    BY Zenon DEF Need
  <2> QED  BY <1>0, <2>1, <2>2
<1>2. \E z \in Need(p, n + k + 3, avail) : \E es : q = Replace(z, n + k + 3, es)
  BY DEF exec_multisig, When, p
<1>3. \A z, N, es : Replace(z, N, es).conds = z.conds
  BY DEF Replace
<1> QED  BY <1>1, <1>2, <1>3

(* A live run keeps its branches in an instruction with a VERIFY form.      *)
LEMMA MergedKeeps ==
    ASSUME NEW env, env.avail = {}, NEW ins, ins[1] \in Merged,
           NEW st, NEW alt, NEW conds, IsSeq(st), IsSeq(alt), Live(conds),
           NEW q, q \in exec_ins(ins, St(st, alt, conds), env)
    PROVE  q.conds = conds
<1>1. CASE ins[1] = "CheckMultiSig"
  <2>1. \A i \in DOMAIN St(st, alt, conds).conds : St(st, alt, conds).conds[i]
    BY DEF Live, St
  <2>2. q \in exec_multisig(St(st, alt, conds), env.avail)
    BY <1>1, <2>1 DEF exec_ins
  <2> QED  BY <2>2, MultisigKeeps
<1>2. CASE ins[1] # "CheckMultiSig"
  <2>1. ins[1] \in {"Equal", "NumEqual", "CheckSig"}
    BY <1>2 DEF Merged
  <2>2. \E b : q = St(Cut(st, 2) ++ <<truth(b)>>, alt, conds)
    BY <2>1, MergedOps
  <2> QED  BY <2>2 DEF St
<1> QED  BY <1>1, <1>2

LEMMA DeadStays ==
    ASSUME NEW env, NEW ins, NEW r, NEW q \in exec_ins(ins, r, env), ~(\A i \in DOMAIN r.conds : r.conds[i]),
           ins[1] \notin {"If", "NotIf", "Else", "EndIf"}
    PROVE  q = r
  BY DEF exec_ins

LEMMA PushVerify ==
    ASSUME NEW env, env.avail = {}, NEW s, IsSeq(s), s # <<>>
    PROVE  /\ IsSeq(push_verify(s)) /\ push_verify(s) # <<>>
           /\ Skips(env, s) => Skips(env, push_verify(s))
           /\ \A x, y, v : IsSeq(x) /\ IsSeq(y) /\ is_true(v) /\ Maps(env, s, x, On(y, v)) =>
                    Maps(env, push_verify(s), x, y)
<1> DEFINE f == Front(s)
           ins == s[Len(s)]
           vop == VerifyForm[ins[1]]
<1>1. IsSeq(f) /\ s = On(f, ins) /\ \A v : [s EXCEPT ![Len(s)] = v] = On(f, v)
  BY FrontLast
<1>2. \A g, w : IsSeq(g) => IsSeq(On(g, w)) /\ On(g, w) # <<>>
  <2> SUFFICES ASSUME NEW g, NEW w, IsSeq(g)  PROVE IsSeq(On(g, w)) /\ On(g, w) # <<>>
    OBVIOUS
  <2>1. IsSeq(On(g, w)) /\ Len(On(g, w)) = Len(g) + 1 /\ Len(g) \in Nat /\ Len(<<>>) = 0
    BY OnLaws
  <2> QED  BY <2>1
<1>3. CASE ins[1] \notin Merged
  <2> DEFINE vf == Op("Verify")
  <2>1. push_verify(s) = On(s, vf)
    <3>1. push_verify(s) = Append(s, vf)
      BY <1>3, VerifyForms DEF push_verify
    <3> QED  BY <3>1, AppendOn
  <2>2. Skips(env, <<vf>>)
    <3>1. vf[1] = "Verify" /\ Plain("Verify")
      BY DEF Op, Plain
    <3> HIDE DEF vf
    <3> QED  BY <3>1, PlainSkips
  <2>3. IsSeq(<<vf>>)
    BY ShortSeqs
  <2>4. ASSUME NEW x, NEW y, NEW v, IsSeq(x), IsSeq(y), is_true(v), Maps(env, s, x, On(y, v))
        PROVE  Maps(env, On(s, vf), x, y)
    <3>1. Maps(env, <<vf>>, On(y, v), y)
      BY <2>4, OpDup
    <3> HIDE DEF vf
    <3> QED  BY <2>3, <2>4, <3>1, MapsCat DEF On
  <2>5. Skips(env, s) => Skips(env, On(s, vf))
    <3> HIDE DEF vf
    <3> QED  BY <2>2, <2>3, SkipsCat DEF On
  <2> QED  BY <1>2, <2>1, <2>4, <2>5
<1>4. CASE ins[1] \in Merged
  <2> DEFINE w == Op(vop)
             u == On(f, w)
  <2>1. push_verify(s) = u
    BY <1>1, <1>4, VerifyForms DEF push_verify
  <2>2. /\ ins[1] \notin {"If", "NotIf", "Else", "EndIf"}
        /\ w[1] = vop
        /\ vop \in {"EqualVerify", "NumEqualVerify", "CheckSigVerify", "CheckMultiSigVerify"}
    BY <1>4, VerifyForms DEF Merged, Op
  <2>3. ASSUME Skips(env, s)  PROVE Skips(env, u)
    <3> SUFFICES ASSUME NEW st, NEW alt, NEW conds, IsSeq(st), IsSeq(alt), Dead(conds)
                 PROVE  Does(env, u, St(st, alt, conds), St(st, alt, conds))
      BY DEF Skips
    <3> DEFINE r == St(st, alt, conds)
    <3>1. Does(env, On(f, ins), r, r) /\ IsRun(r)
      BY <1>1, <2>3, StRun DEF Skips, Dead
    <3>2. r.conds = conds /\ ~(\A i \in DOMAIN conds : conds[i])
      BY DEF St, Dead
    <3> HIDE DEF r
    <3>3. PICK p : IsRun(p) /\ Does(env, f, r, p) /\ r \in exec_ins(ins, p, env)
      BY <1>1, <3>1, DoesOn
    <3>4. PICK st2, alt2, conds2 : IsSeq(st2) /\ IsSeq(alt2) /\ IsSeq(conds2) /\ p = St(st2, alt2, conds2)
      BY <3>3 DEF IsRun
    <3>5. p.conds = conds2
      BY <3>4 DEF St
    <3>6. CASE \A i \in DOMAIN conds2 : conds2[i]
      <4>1. r.conds = conds2
        BY <1>4, <3>3, <3>4, <3>6, MergedKeeps DEF Live
      <4> QED  BY <3>2, <3>6, <4>1
    <3>7. CASE ~(\A i \in DOMAIN conds2 : conds2[i])
      <4>1. p = r
        BY <2>2, <3>3, <3>5, <3>7, DeadStays
      <4> HIDE DEF w
      <4>2. r \in exec_ins(w, r, env)
        <5>1. w[1] \notin {"If", "NotIf", "Else", "EndIf"} /\ ~(\A i \in DOMAIN r.conds : r.conds[i])
          BY <2>2, <3>2
        <5> QED  BY <5>1 DEF exec_ins
      <4>3. Does(env, On(f, w), r, r)
        BY <1>1, <3>1, <3>3, <4>1, <4>2, DoesOn
      <4> QED  BY <4>3 DEF r
    <3> QED  BY <3>6, <3>7
  <2>4. ASSUME NEW x, NEW y, NEW v, IsSeq(x), IsSeq(y), is_true(v), Maps(env, s, x, On(y, v))
        PROVE  Maps(env, u, x, y)
    <3> SUFFICES ASSUME NEW alt, NEW conds, IsSeq(alt), Live(conds)
                 PROVE  Does(env, u, St(x, alt, conds), St(y, alt, conds))
      BY DEF Maps
    <3> DEFINE r == St(x, alt, conds)
               q == St(On(y, v), alt, conds)
               z == St(y, alt, conds)
    <3>1. Does(env, On(f, ins), r, q) /\ IsRun(q) /\ IsRun(z) /\ IsSeq(On(y, v))
      BY <1>1, <1>2, <2>4, StRun DEF Maps, Live
    <3> HIDE DEF r
    <3>3. PICK p : IsRun(p) /\ Does(env, f, r, p) /\ q \in exec_ins(ins, p, env)
      BY <1>1, <3>1, DoesOn
    <3>4. PICK st2, alt2, conds2 : IsSeq(st2) /\ IsSeq(alt2) /\ IsSeq(conds2) /\ p = St(st2, alt2, conds2)
      BY <3>3 DEF IsRun
    <3>5. p.conds = conds2 /\ q.conds = conds /\ q.stack = On(y, v) /\ q.alt = alt
      BY <3>4 DEF St
    <3>6. Live(conds2)
      <4> SUFFICES ASSUME ~(\A i \in DOMAIN conds2 : conds2[i])  PROVE FALSE
        BY <3>4 DEF Live
      <4>1. q = p
        BY <2>2, <3>3, <3>5, DeadStays
      <4> QED  BY <3>5, <4>1 DEF Live
    <3>7. z \in exec_ins(w, p, env)
      <4>1. CASE ins[1] = "CheckMultiSig"
        <5>1. \A i \in DOMAIN p.conds : p.conds[i]
          BY <3>5, <3>6 DEF Live
        <5>2. q \in exec_multisig(p, env.avail)
          BY <3>3, <4>1, <5>1 DEF exec_ins
        <5>3. Nth(q, 1) = v /\ Replace(q, 1, <<>>) = z
          BY <2>4, Tops
        <5>4. w[1] = "CheckMultiSigVerify"
          BY <2>2, <4>1, VerifyForms
        <5> HIDE DEF w, q, z
        <5>5. z \in {Replace(t, 1, <<>>) : t \in {t2 \in exec_multisig(p, env.avail) : is_true(Nth(t2, 1))}}
          BY <2>4, <5>2, <5>3
        <5> QED  BY <5>1, <5>4, <5>5 DEF exec_ins
      <4>2. CASE ins[1] # "CheckMultiSig"
        <5>1. ins[1] \in {"Equal", "NumEqual", "CheckSig"}
          BY <1>4, <4>2 DEF Merged
        <5> DEFINE op == ins[1]
        <5>2. PICK b \in BOOLEAN :
                /\ Len(st2) >= 2
                /\ q = St(Cut(st2, 2) ++ <<truth(b)>>, alt2, conds2)
                /\ b => St(Cut(st2, 2) ++ <<>>, alt2, conds2) \in exec_ins(w, St(st2, alt2, conds2), env)
          <6>1. op \in {"Equal", "NumEqual", "CheckSig"} /\ ins[1] = op
            BY <5>1
          <6>2. q \in exec_ins(ins, St(st2, alt2, conds2), env)
            BY <3>3, <3>4
          <6> HIDE DEF q, op
          <6>3. \E b \in BOOLEAN :
                /\ Len(st2) >= 2
                /\ q = St(Cut(st2, 2) ++ <<truth(b)>>, alt2, conds2)
                /\ b => St(Cut(st2, 2) ++ <<>>, alt2, conds2) \in
                          exec_ins(Op(VerifyForm[op]), St(st2, alt2, conds2), env)
            BY <3>4, <3>6, <6>1, <6>2, MergedOps, SMTT(30)
          <6> QED  BY <6>3 DEF op
        <5> DEFINE c == Cut(st2, 2)
        <5>3. IsSeq(c)
          <6>1. Len(st2) \in Nat /\ DOMAIN st2 = 1..Len(st2) /\ st2 \in Seq({st2[i] : i \in DOMAIN st2})
            BY <3>4, SeqForm DEF IsSeq
          <6>2. c \in Seq({st2[i] : i \in DOMAIN st2})
            BY <5>2, <6>1 DEF Cut
          <6> QED  BY <6>2, SeqIsSeq
        <5> HIDE DEF c
        <5>4. q = St(On(c, truth(b)), alt2, conds2)
          BY <5>2 DEF On, c
        <5>5. On(c, truth(b)) = On(y, v) /\ alt2 = alt /\ conds2 = conds
          BY <5>4 DEF St
        <5>6. c = y /\ truth(b) = v
          BY <2>4, <5>3, <5>5, OnInjective
        <5>7. b
          BY <2>4, <5>6 DEF is_true, truth
        <5>8. c ++ <<>> = y
          BY <5>3, <5>6, CatLaws
        <5> QED  BY <3>4, <5>2, <5>5, <5>7, <5>8 DEF c
      <4> QED  BY <4>1, <4>2
    <3> QED  BY <1>1, <3>1, <3>3, <3>7, DoesOn DEF r
  <2> QED  BY <1>1, <1>2, <2>1, <2>3, <2>4
<1> QED  BY <1>3, <1>4

-----------------------------------------------------------------------------
(* What an expression of a type does with a witness. *)

\* A satisfaction leaves a number other than 0, a dissatisfaction leaves 0.
Value(c, ok, m) == m \in Nat /\ (ok <=> m # 0) /\ (c.unit /\ ok => m = 1)

EndsB(env, c, s, x, ok) ==
    \E m : Value(c, ok, m) /\ \A st : IsSeq(st) => Maps(env, s, st ++ x, On(st, number(m)))
EndsK(env, s, x, ok) ==
    \E key : \A st : IsSeq(st) =>
        Maps(env, s, st ++ x, On(On(st, IF ok THEN <<"sig", key>> ELSE number(0)), <<"key", key>>))
EndsV(env, s, x, ok) == ok /\ \A st : IsSeq(st) => Maps(env, s, st ++ x, st)

\* Base W: the result is put above or below the element on top of the input.
Over(env, s, x, m) == \A st, y : IsSeq(st) => Maps(env, s, On(st ++ x, y), On(On(st, y), number(m)))
Under(env, s, x, m) == \A st, y : IsSeq(st) => Maps(env, s, On(st ++ x, y), On(On(st, number(m)), y))
EndsW(env, c, s, x, ok) ==
    \E m : Value(c, ok, m) /\ (Over(env, s, x, m) \/ Under(env, s, x, m))

Ends(env, c, s, x, ok) ==
    /\ c.base \in {"B", "K", "V", "W"}
    /\ c.base = "B" => EndsB(env, c, s, x, ok)
    /\ c.base = "K" => EndsK(env, s, x, ok)
    /\ c.base = "V" => EndsV(env, s, x, ok)
    /\ c.base = "W" => EndsW(env, c, s, x, ok)

\* The input property.
Fits(c, ok, x) ==
    /\ c.input = "Zero" => x = <<>>
    /\ c.input \in {"One", "OneNonZero"} => \E e : x = <<e>>
    /\ ok /\ c.input \in {"OneNonZero", "AnyNonZero"} =>
            \E f, e : IsSeq(f) /\ x = On(f, e) /\ elem_size(e) > 0

Gives(env, c, s, x, ok) == IsSeq(x) /\ Fits(c, ok, x) /\ Ends(env, c, s, x, ok)

LEMMA Transfer ==
    ASSUME NEW env, NEW c, NEW d, NEW s, NEW u, NEW x, NEW w, NEW ok,
           Ends(env, c, s, x, ok), c.base # "W", d.base = c.base, d.unit => c.unit,
           \A st, z : IsSeq(st) /\ IsSeq(z) /\ Maps(env, s, st ++ x, z) => Maps(env, u, st ++ w, z)
    PROVE  Ends(env, d, u, w, ok)
<1>0. \A st, e, f : IsSeq(st) => IsSeq(On(st, e)) /\ IsSeq(On(On(st, e), f))
  BY OnLaws
<1>1. CASE c.base = "B"
  <2>1. PICK m : Value(c, ok, m) /\ \A st : IsSeq(st) => Maps(env, s, st ++ x, On(st, number(m)))
    BY <1>1 DEF Ends, EndsB
  <2>2. Value(d, ok, m)
    BY <2>1 DEF Value
  <2>3. EndsB(env, d, u, w, ok)
    BY <1>0, <2>1, <2>2 DEF EndsB
  <2> QED  BY <1>1, <2>3 DEF Ends
<1>2. CASE c.base = "K"
  <2>1. PICK key : \A st : IsSeq(st) =>
            Maps(env, s, st ++ x, On(On(st, IF ok THEN <<"sig", key>> ELSE number(0)), <<"key", key>>))
    BY <1>2 DEF Ends, EndsK
  <2> DEFINE e == IF ok THEN <<"sig", key>> ELSE number(0)
  <2> HIDE DEF e
  <2>2. \A st : IsSeq(st) => Maps(env, u, st ++ w, On(On(st, e), <<"key", key>>))
    BY <1>0, <2>1 DEF e
  <2>3. EndsK(env, u, w, ok)
    BY <2>2 DEF EndsK, e
  <2> QED  BY <1>2, <2>3 DEF Ends
<1>3. CASE c.base = "V"
  <2>1. EndsV(env, u, w, ok)
    BY <1>3 DEF Ends, EndsV
  <2> QED  BY <1>3, <2>1 DEF Ends
<1> QED  BY <1>1, <1>2, <1>3 DEF Ends

\* What every encoding is: it has instructions, and does nothing in a branch
\* that is not taken.
Code(env, s) == IsSeq(s) /\ s # <<>> /\ Skips(env, s)

LEMMA CodeCat ==
    ASSUME NEW env, NEW a, NEW b, Code(env, a), IsSeq(b), Skips(env, b)
    PROVE  Code(env, a ++ b) /\ Code(env, b ++ a)
<1>1. IsSeq(a ++ b) /\ Skips(env, a ++ b) /\ IsSeq(b ++ a) /\ Skips(env, b ++ a)
  BY CatLaws, SkipsCat DEF Code
<1>2. Len(a) \in Nat /\ Len(b) \in Nat /\ Len(a) # 0
  <2>1. Len(a) = 0 => a = <<>>
    BY SeqEq, ShortSeqs DEF Code
  <2> QED  BY <2>1, SeqForm DEF Code
<1>3. Len(a ++ b) = Len(a) + Len(b) /\ Len(b ++ a) = Len(b) + Len(a)
  BY CatElems DEF Code, CatShape
<1>4. a ++ b # <<>> /\ b ++ a # <<>>
  BY <1>2, <1>3, ShortSeqs
<1> QED  BY <1>1, <1>4 DEF Code

LEMMA CodeOne ==
    ASSUME NEW env, NEW ins, Plain(ins[1]) \/ ins[1] \in {"CheckMultiSig", "CheckMultiSigVerify"}
    PROVE  Code(env, <<ins>>)
  BY PlainSkips, ShortSeqs DEF Code

LEMMA CodeOps ==
    \A env : /\ \A op : Plain(op) \/ op \in {"CheckMultiSig", "CheckMultiSigVerify"} => Code(env, <<Op(op)>>)
             /\ \A n : Code(env, <<Num(n)>>)
             /\ \A h : Code(env, <<<<"Hash20", h>>>>) /\ Code(env, <<<<"Bytes32", h>>>>)
             /\ \A h : Code(env, <<<<"Inscription", h>>>>)
             /\ \A key : Code(env, <<PushKey(key)>>)
<1>1. ASSUME NEW env, NEW ins,
             Plain(ins[1]) \/ ins[1] \in {"CheckMultiSig", "CheckMultiSigVerify"}
      PROVE  Code(env, <<ins>>)
  BY <1>1, CodeOne
<1>2. \A op : Op(op)[1] = op
  BY DEF Op
<1>3. \A n : Num(n)[1] = "Num"
  BY DEF Num
<1>4. \A h : <<"Hash20", h>>[1] = "Hash20" /\ <<"Bytes32", h>>[1] = "Bytes32" /\ <<"Inscription", h>>[1] = "Inscription"
  OBVIOUS
<1>5. \A key : PushKey(key)[1] \in {"Bytes32", "Bytes65", "Bytes33"}
  BY DEF PushKey
<1>6. Plain("Num") /\ Plain("Hash20") /\ Plain("Bytes32") /\ Plain("Bytes65") /\ Plain("Bytes33") /\ Plain("Inscription")
  BY DEF Plain
<1>7. ASSUME NEW env, NEW key  PROVE Code(env, <<PushKey(key)>>)
  BY <1>1, <1>5, <1>6
<1>8. ASSUME NEW env, NEW op, Plain(op) \/ op \in {"CheckMultiSig", "CheckMultiSigVerify"}
      PROVE  Code(env, <<Op(op)>>)
  BY <1>1, <1>2, <1>8
<1>9. ASSUME NEW env, NEW h
      PROVE  /\ Code(env, <<Num(h)>>) /\ Code(env, <<<<"Hash20", h>>>>)
             /\ Code(env, <<<<"Bytes32", h>>>>) /\ Code(env, <<<<"Inscription", h>>>>)
  BY <1>1, <1>3, <1>4, <1>6
<1> QED  BY <1>7, <1>8, <1>9

(* Wrappers. *)

LEMMA AltGives ==
    ASSUME NEW env, NEW c, NEW s, NEW x, NEW ok, NEW d, Code(env, s),
           c.base = "B", d.base = "W", d.input = "Any", d.unit => c.unit
    PROVE  LET u == <<Op("ToAltStack")>> ++ s ++ <<Op("FromAltStack")>>
           IN  Code(env, u) /\ (Gives(env, c, s, x, ok) => Gives(env, d, u, x, ok))
<1> DEFINE t == <<Op("ToAltStack")>>
           f == <<Op("FromAltStack")>>
           u == t ++ s ++ f
<1>1. Code(env, t) /\ Code(env, f)
  BY CodeOps DEF Plain
<1>2. /\ \A st, y, z : IsSeq(st) /\ IsSeq(y) /\ Maps(env, s, st, y) => Maps(env, u, On(st, z), On(y, z))
      /\ Skips(env, u)
  BY Aside DEF Code
<1> HIDE DEF t, f
<1>3. Code(env, u)
  BY <1>1, CodeCat DEF Code
<1> HIDE DEF u
<1>4. ASSUME Gives(env, c, s, x, ok)  PROVE Gives(env, d, u, x, ok)
  <2>1. PICK m : Value(c, ok, m) /\ \A st : IsSeq(st) => Maps(env, s, st ++ x, On(st, number(m)))
    BY <1>4 DEF Gives, Ends, EndsB
  <2>2. IsSeq(x) /\ Fits(d, ok, x)
    BY <1>4 DEF Gives, Fits
  <2>3. Under(env, u, x, m)
    <3> SUFFICES ASSUME NEW st, NEW y, IsSeq(st)
                 PROVE  Maps(env, u, On(st ++ x, y), On(On(st, number(m)), y))
      BY DEF Under
    <3>1. IsSeq(st ++ x) /\ IsSeq(On(st, number(m)))
      BY <2>2, OnLaws
    <3> QED  BY <1>2, <2>1, <3>1
  <2>4. Value(d, ok, m)
    BY <2>1 DEF Value
  <2>5. EndsW(env, d, u, x, ok)
    BY <2>3, <2>4 DEF EndsW
  <2> QED  BY <2>2, <2>5 DEF Gives, Ends
<1> QED  BY <1>3, <1>4 DEF u, t, f

LEMMA SwapGives ==
    ASSUME NEW env, NEW c, NEW s, NEW x, NEW ok, NEW d, Code(env, s),
           c.base = "B", c.input \in {"One", "OneNonZero"}, d.base = "W", d.input = "Any", d.unit => c.unit
    PROVE  LET u == <<Op("Swap")>> ++ s
           IN  Code(env, u) /\ (Gives(env, c, s, x, ok) => Gives(env, d, u, x, ok))
<1> DEFINE t == <<Op("Swap")>>
           u == t ++ s
<1>1. Code(env, t)
  BY CodeOps DEF Plain
<1>2. \A st, m, n : IsSeq(st) => Maps(env, t, On(On(st, m), n), On(On(st, n), m))
  BY OpNumbers
<1> HIDE DEF t
<1>3. Code(env, u)
  BY <1>1, CodeCat DEF Code
<1>4. ASSUME Gives(env, c, s, x, ok)  PROVE Gives(env, d, u, x, ok)
  <2>1. PICK m : Value(c, ok, m) /\ \A st : IsSeq(st) => Maps(env, s, st ++ x, On(st, number(m)))
    BY <1>4 DEF Gives, Ends, EndsB
  <2>2. IsSeq(x) /\ Fits(d, ok, x)
    BY <1>4 DEF Gives, Fits
  <2>3. PICK e : x = <<e>>
    BY <1>4 DEF Gives, Fits
  <2>4. \A st : st ++ x = On(st, e)
    BY <2>3 DEF On
  <2>5. Over(env, u, x, m)
    <3> SUFFICES ASSUME NEW st, NEW y, IsSeq(st)
                 PROVE  Maps(env, u, On(st ++ x, y), On(On(st, y), number(m)))
      BY DEF Over
    <3>1. IsSeq(On(st, y))
      BY OnLaws
    <3>2. Maps(env, s, On(On(st, y), e), On(On(st, y), number(m)))
      BY <2>1, <2>4, <3>1
    <3>3. Maps(env, t, On(On(st, e), y), On(On(st, y), e))
      BY <1>2
    <3> QED  BY <1>1, <2>4, <3>2, <3>3, MapsCat DEF Code
  <2>6. Value(d, ok, m)
    BY <2>1 DEF Value
  <2>7. EndsW(env, d, u, x, ok)
    BY <2>5, <2>6 DEF EndsW
  <2> QED  BY <2>2, <2>7 DEF Gives, Ends
<1> HIDE DEF u
<1> QED  BY <1>3, <1>4 DEF u, t

LEMMA CheckGives ==
    ASSUME NEW env, NEW c, NEW s, NEW x, NEW ok \in BOOLEAN, NEW d, Code(env, s),
           c.base = "K", d.base = "B", d.input = c.input
    PROVE  LET u == s ++ <<Op("CheckSig")>>
           IN  Code(env, u) /\ (Gives(env, c, s, x, ok) => Gives(env, d, u, x, ok))
<1> DEFINE t == <<Op("CheckSig")>>
           u == s ++ t
<1>1. Code(env, t)
  BY CodeOps DEF Plain
<1>2. \A st, key : IsSeq(st) =>
        /\ Maps(env, t, On(On(st, <<"sig", key>>), <<"key", key>>), On(st, number(1)))
        /\ Maps(env, t, On(On(st, number(0)), <<"key", key>>), On(st, number(0)))
  BY OpSigs
<1> HIDE DEF t
<1>3. Code(env, u)
  BY <1>1, CodeCat DEF Code
<1>4. ASSUME Gives(env, c, s, x, ok)  PROVE Gives(env, d, u, x, ok)
  <2>1. PICK key : \A st : IsSeq(st) =>
            Maps(env, s, st ++ x, On(On(st, IF ok THEN <<"sig", key>> ELSE number(0)), <<"key", key>>))
    BY <1>4 DEF Gives, Ends, EndsK
  <2>2. IsSeq(x) /\ Fits(d, ok, x)
    BY <1>4 DEF Gives, Fits
  <2> DEFINE m == IF ok THEN 1 ELSE 0
  <2>3. Value(d, ok, m)
    BY DEF Value
  <2>4. ASSUME NEW st, IsSeq(st)  PROVE Maps(env, u, st ++ x, On(st, number(m)))
    <3>1. CASE ok
      <4>1. Maps(env, s, st ++ x, On(On(st, <<"sig", key>>), <<"key", key>>))
        BY <2>1, <2>4, <3>1
      <4>2. Maps(env, t, On(On(st, <<"sig", key>>), <<"key", key>>), On(st, number(m)))
        BY <1>2, <2>4, <3>1
      <4> QED  BY <1>1, <4>1, <4>2, MapsCat DEF Code
    <3>2. CASE ~ok
      <4>1. Maps(env, s, st ++ x, On(On(st, number(0)), <<"key", key>>))
        BY <2>1, <2>4, <3>2
      <4>2. Maps(env, t, On(On(st, number(0)), <<"key", key>>), On(st, number(m)))
        BY <1>2, <2>4, <3>2
      <4> QED  BY <1>1, <4>1, <4>2, MapsCat DEF Code
    <3> QED  BY <3>1, <3>2
  <2> HIDE DEF m, u
  <2>5. EndsB(env, d, u, x, ok)
    BY <2>3, <2>4 DEF EndsB
  <2> QED  BY <2>2, <2>5 DEF Gives, Ends
<1> HIDE DEF u
<1> QED  BY <1>3, <1>4 DEF u, t

LEMMA ZeroNotEqualGives ==
    ASSUME NEW env, NEW c, NEW s, NEW x, NEW ok \in BOOLEAN, NEW d, Code(env, s),
           c.base = "B", d.base = "B", d.input = c.input
    PROVE  LET u == s ++ <<Op("ZeroNotEqual")>>
           IN  Code(env, u) /\ (Gives(env, c, s, x, ok) => Gives(env, d, u, x, ok))
<1> DEFINE t == <<Op("ZeroNotEqual")>>
           u == s ++ t
<1>1. Code(env, t)
  BY CodeOps DEF Plain
<1>2. \A st, m : IsSeq(st) => Maps(env, t, On(st, number(m)), On(st, truth(is_true(number(m)))))
  BY OpNumbers
<1> HIDE DEF t
<1>3. Code(env, u)
  BY <1>1, CodeCat DEF Code
<1>4. ASSUME Gives(env, c, s, x, ok)  PROVE Gives(env, d, u, x, ok)
  <2>1. PICK m : Value(c, ok, m) /\ \A st : IsSeq(st) => Maps(env, s, st ++ x, On(st, number(m)))
    BY <1>4 DEF Gives, Ends, EndsB
  <2>2. IsSeq(x) /\ Fits(d, ok, x)
    BY <1>4 DEF Gives, Fits
  <2> DEFINE n == IF ok THEN 1 ELSE 0
  <2>3. Value(d, ok, n)
    BY DEF Value
  <2>4. truth(is_true(number(m))) = number(n)
    BY <2>1 DEF truth, is_true, number, Value
  <2> HIDE DEF n
  <2>5. ASSUME NEW st, IsSeq(st)  PROVE Maps(env, u, st ++ x, On(st, number(n)))
    <3>1. Maps(env, s, st ++ x, On(st, number(m))) /\ Maps(env, t, On(st, number(m)), On(st, number(n)))
      BY <1>2, <2>1, <2>4, <2>5
    <3> QED  BY <1>1, <3>1, MapsCat DEF Code
  <2> HIDE DEF u
  <2>6. EndsB(env, d, u, x, ok)
    BY <2>3, <2>5 DEF EndsB
  <2> QED  BY <2>2, <2>6 DEF Gives, Ends
<1> HIDE DEF u
<1> QED  BY <1>3, <1>4 DEF u, t

LEMMA VerifyGives ==
    ASSUME NEW env, env.avail = {}, NEW c, NEW s, NEW x, NEW d, Code(env, s),
           c.base = "B", d.base = "V", d.input = c.input
    PROVE  /\ Code(env, push_verify(s))
           /\ Gives(env, c, s, x, TRUE) => Gives(env, d, push_verify(s), x, TRUE)
<1>1. Code(env, push_verify(s))
  BY PushVerify DEF Code
<1>2. ASSUME Gives(env, c, s, x, TRUE)  PROVE Gives(env, d, push_verify(s), x, TRUE)
  <2>1. PICK m : Value(c, TRUE, m) /\ \A st : IsSeq(st) => Maps(env, s, st ++ x, On(st, number(m)))
    BY <1>2 DEF Gives, Ends, EndsB
  <2>2. IsSeq(x) /\ Fits(d, TRUE, x)
    BY <1>2 DEF Gives, Fits
  <2>3. is_true(number(m))
    BY <2>1 DEF Value, is_true, number
  <2>4. ASSUME NEW st, IsSeq(st)  PROVE Maps(env, push_verify(s), st ++ x, st)
    <3>1. IsSeq(st ++ x)
      BY <2>2, <2>4, OnLaws
    <3> QED  BY <2>1, <2>3, <2>4, <3>1, PushVerify DEF Code
  <2>5. EndsV(env, push_verify(s), x, TRUE)
    BY <2>4 DEF EndsV
  <2> QED  BY <2>2, <2>5 DEF Gives, Ends
<1> QED  BY <1>1, <1>2

LEMMA DupIfGives ==
    ASSUME NEW env, NEW c, NEW s, NEW d, Code(env, s),
           c.base = "V", c.input = "Zero", d.base = "B", d.input = "OneNonZero"
    PROVE  LET u == <<Op("Dup")>> ++ (<<Op("If")>> ++ s ++ <<Op("EndIf")>>)
           IN  /\ Code(env, u)
               /\ \A x : Gives(env, c, s, x, TRUE) => Gives(env, d, u, On(x, number(1)), TRUE)
               /\ Gives(env, d, u, <<number(0)>>, FALSE)
<1> DEFINE t == <<Op("Dup")>>
           b == <<Op("If")>> ++ s ++ <<Op("EndIf")>>
           u == t ++ b
<1>1. Code(env, t)
  BY CodeOps DEF Plain
<1>2. \A st, a : IsSeq(st) => Maps(env, t, On(st, a), On(On(st, a), a))
  BY OpDup
<1>3. /\ IsSeq(b) /\ Skips(env, b)
      /\ \A x, y : IsSeq(x) /\ IsSeq(y) /\ Maps(env, s, x, y) => Maps(env, b, On(x, truth(TRUE)), y)
      /\ \A x : IsSeq(x) => Maps(env, b, On(x, truth(FALSE)), x)
  BY Block DEF Code
<1> HIDE DEF t, b
<1>4. Code(env, u)
  BY <1>1, <1>3, CodeCat
<1> HIDE DEF u
<1>5. ASSUME NEW x, Gives(env, c, s, x, TRUE)  PROVE Gives(env, d, u, On(x, number(1)), TRUE)
  <2>1. x = <<>> /\ IsSeq(x) /\ \A st : IsSeq(st) => Maps(env, s, st ++ x, st)
    BY <1>5 DEF Gives, Fits, Ends, EndsV
  <2>2. IsSeq(On(x, number(1)))
    BY <2>1, OnLaws
  <2>3. Fits(d, TRUE, On(x, number(1)))
    <3>1. On(x, number(1)) = <<number(1)>>
      BY <2>1, ShortSeqs, OnLaws DEF On
    <3>2. elem_size(number(1)) > 0
      BY DEF elem_size, number
    <3> QED  BY <2>1, <3>1, <3>2 DEF Fits
  <2>4. ASSUME NEW st, IsSeq(st)  PROVE Maps(env, u, st ++ On(x, number(1)), On(st, number(1)))
    <3>1. st ++ On(x, number(1)) = On(st, number(1)) /\ IsSeq(On(st, number(1))) /\ On(st, number(1)) ++ x = On(st, number(1))
      BY <2>1, <2>4, OnLaws
    <3>2. Maps(env, s, On(st, number(1)), On(st, number(1)))
      BY <2>1, <3>1
    <3>3. truth(TRUE) = number(1)
      BY DEF truth
    <3>4. Maps(env, b, On(On(st, number(1)), number(1)), On(st, number(1)))
      BY <1>3, <3>1, <3>2, <3>3
    <3>5. Maps(env, t, On(st, number(1)), On(On(st, number(1)), number(1)))
      BY <1>2, <2>4
    <3>6. Maps(env, u, On(st, number(1)), On(st, number(1)))
      BY <1>1, <1>3, <3>4, <3>5, MapsCat DEF u, Code
    <3> QED  BY <3>1, <3>6
  <2>5. Value(d, TRUE, 1)
    BY DEF Value
  <2>6. EndsB(env, d, u, On(x, number(1)), TRUE)
    BY <2>4, <2>5 DEF EndsB
  <2> QED  BY <2>2, <2>3, <2>6 DEF Gives, Ends
<1>6. Gives(env, d, u, <<number(0)>>, FALSE)
  <2>1. IsSeq(<<number(0)>>) /\ Fits(d, FALSE, <<number(0)>>)
    BY ShortSeqs DEF Fits
  <2>2. ASSUME NEW st, IsSeq(st)  PROVE Maps(env, u, st ++ <<number(0)>>, On(st, number(0)))
    <3>1. st ++ <<number(0)>> = On(st, number(0)) /\ IsSeq(On(st, number(0)))
      BY <2>2, OnLaws DEF On
    <3>2. truth(FALSE) = number(0)
      BY DEF truth
    <3>3. Maps(env, b, On(On(st, number(0)), number(0)), On(st, number(0)))
      BY <1>3, <3>1, <3>2
    <3>4. Maps(env, t, On(st, number(0)), On(On(st, number(0)), number(0)))
      BY <1>2, <2>2
    <3>5. Maps(env, u, On(st, number(0)), On(st, number(0)))
      BY <1>1, <1>3, <3>3, <3>4, MapsCat DEF u, Code
    <3> QED  BY <3>1, <3>5
  <2>3. Value(d, FALSE, 0)
    BY DEF Value
  <2>4. EndsB(env, d, u, <<number(0)>>, FALSE)
    BY <2>2, <2>3 DEF EndsB
  <2> QED  BY <2>1, <2>4 DEF Gives, Ends
<1> QED  BY <1>4, <1>5, <1>6 DEF u, t, b

LEMMA NonZeroGives ==
    ASSUME NEW env, NEW c, NEW s, NEW d, Code(env, s),
           c.base = "B", c.input \in {"OneNonZero", "AnyNonZero"},
           d.base = "B", d.input = c.input, d.unit => c.unit
    PROVE  LET u == (<<Op("Size")>> ++ <<Op("ZeroNotEqual")>>) ++ (<<Op("If")>> ++ s ++ <<Op("EndIf")>>)
           IN  /\ Code(env, u)
               /\ \A x : Gives(env, c, s, x, TRUE) => Gives(env, d, u, x, TRUE)
               /\ Gives(env, d, u, <<number(0)>>, FALSE)
<1> DEFINE t == <<Op("Size")>> ++ <<Op("ZeroNotEqual")>>
           b == <<Op("If")>> ++ s ++ <<Op("EndIf")>>
           u == t ++ b
<1>1. /\ Code(env, t)
      /\ \A st, a : IsSeq(st) =>
            Maps(env, t, On(st, a), On(On(st, a), truth(is_true(number(elem_size(a))))))
  <2> DEFINE t1 == <<Op("Size")>>
             t2 == <<Op("ZeroNotEqual")>>
  <2>1. Code(env, t1) /\ Code(env, t2)
    BY CodeOps DEF Plain
  <2>2. \A st, a : IsSeq(st) => Maps(env, t1, On(st, a), On(On(st, a), number(elem_size(a))))
    BY OpDup
  <2>3. \A st, m : IsSeq(st) => Maps(env, t2, On(st, number(m)), On(st, truth(is_true(number(m)))))
    BY OpNumbers
  <2> HIDE DEF t1, t2
  <2>4. ASSUME NEW st, NEW a, IsSeq(st)
        PROVE  Maps(env, t1 ++ t2, On(st, a), On(On(st, a), truth(is_true(number(elem_size(a))))))
    <3>1. IsSeq(On(st, a))
      BY <2>4, OnLaws
    <3> QED  BY <2>1, <2>2, <2>3, <2>4, <3>1, MapsCat DEF Code
  <2> QED  BY <2>1, <2>4, CodeCat DEF Code, t1, t2
<1>2. /\ IsSeq(b) /\ Skips(env, b)
      /\ \A x, y : IsSeq(x) /\ IsSeq(y) /\ Maps(env, s, x, y) => Maps(env, b, On(x, truth(TRUE)), y)
      /\ \A x : IsSeq(x) => Maps(env, b, On(x, truth(FALSE)), x)
  BY Block DEF Code
<1> HIDE DEF t, b
<1>3. Code(env, u)
  BY <1>1, <1>2, CodeCat
<1> HIDE DEF u
<1>4. ASSUME NEW x, Gives(env, c, s, x, TRUE)  PROVE Gives(env, d, u, x, TRUE)
  <2>1. PICK m : Value(c, TRUE, m) /\ \A st : IsSeq(st) => Maps(env, s, st ++ x, On(st, number(m)))
    BY <1>4 DEF Gives, Ends, EndsB
  <2>2. IsSeq(x) /\ Fits(d, TRUE, x)
    BY <1>4 DEF Gives, Fits
  <2>3. PICK f, e : IsSeq(f) /\ x = On(f, e) /\ elem_size(e) > 0
    BY <1>4 DEF Gives, Fits
  <2>4. is_true(number(elem_size(e)))
    BY <2>3 DEF is_true, number
  <2>5. ASSUME NEW st, IsSeq(st)  PROVE Maps(env, u, st ++ x, On(st, number(m)))
    <3>1. st ++ x = On(st ++ f, e) /\ IsSeq(st ++ f) /\ IsSeq(st ++ x) /\ IsSeq(On(st, number(m)))
      BY <2>2, <2>3, <2>5, OnLaws
    <3>2. Maps(env, t, st ++ x, On(st ++ x, truth(TRUE)))
      BY <1>1, <2>4, <3>1
    <3>3. Maps(env, b, On(st ++ x, truth(TRUE)), On(st, number(m)))
      BY <1>2, <2>1, <2>5, <3>1
    <3> QED  BY <1>1, <1>2, <3>2, <3>3, MapsCat DEF u, Code
  <2>6. Value(d, TRUE, m)
    BY <2>1 DEF Value
  <2>7. EndsB(env, d, u, x, TRUE)
    BY <2>5, <2>6 DEF EndsB
  <2> QED  BY <2>2, <2>7 DEF Gives, Ends
<1>5. Gives(env, d, u, <<number(0)>>, FALSE)
  <2>1. IsSeq(<<number(0)>>) /\ Fits(d, FALSE, <<number(0)>>)
    BY ShortSeqs DEF Fits
  <2>2. ASSUME NEW st, IsSeq(st)  PROVE Maps(env, u, st ++ <<number(0)>>, On(st, number(0)))
    <3>1. st ++ <<number(0)>> = On(st, number(0)) /\ IsSeq(On(st, number(0)))
      BY <2>2, OnLaws DEF On
    <3>2. truth(is_true(number(elem_size(number(0))))) = truth(FALSE)
      BY DEF elem_size, number, is_true, truth
    <3>3. Maps(env, b, On(On(st, number(0)), truth(FALSE)), On(st, number(0)))
      BY <1>2, <3>1
    <3>4. Maps(env, t, On(st, number(0)), On(On(st, number(0)), truth(FALSE)))
      BY <1>1, <2>2, <3>2
    <3>5. Maps(env, u, On(st, number(0)), On(st, number(0)))
      BY <1>1, <1>2, <3>3, <3>4, MapsCat DEF u, Code
    <3> QED  BY <3>1, <3>5
  <2>3. Value(d, FALSE, 0)
    BY DEF Value
  <2>4. EndsB(env, d, u, <<number(0)>>, FALSE)
    BY <2>2, <2>3 DEF EndsB
  <2> QED  BY <2>1, <2>4 DEF Gives, Ends
<1> QED  BY <1>3, <1>4, <1>5 DEF u, t, b

\* Instructions without an effect on the stack.
Idle(env, p) == IsSeq(p) /\ Skips(env, p) /\ \A st : IsSeq(st) => Maps(env, p, st, st)

LEMMA InscribeGives ==
    ASSUME NEW env, NEW c, NEW s, NEW p, NEW x, NEW ok, Code(env, s), Idle(env, p)
    PROVE  /\ Code(env, p ++ s) /\ Code(env, s ++ p)
           /\ Gives(env, c, s, x, ok) => Gives(env, c, p ++ s, x, ok) /\ Gives(env, c, s ++ p, x, ok)
<1>1. Code(env, p ++ s) /\ Code(env, s ++ p)
  BY CodeCat DEF Idle
<1>2. ASSUME NEW y, NEW z, IsSeq(y), IsSeq(z), Maps(env, s, y, z)
      PROVE  Maps(env, p ++ s, y, z) /\ Maps(env, s ++ p, y, z)
  BY <1>2, MapsCat DEF Idle, Code
<1>3. ASSUME Gives(env, c, s, x, ok), NEW u, \A y, z : IsSeq(y) /\ IsSeq(z) /\ Maps(env, s, y, z) => Maps(env, u, y, z)
      PROVE  Gives(env, c, u, x, ok)
  <2>0. IsSeq(x)
    BY <1>3 DEF Gives
  <2>1. CASE c.base # "W"
    <3>1. \A st, z : IsSeq(st) /\ IsSeq(z) /\ Maps(env, s, st ++ x, z) => Maps(env, u, st ++ x, z)
      BY <1>3, <2>0, CatLaws
    <3>2. Ends(env, c, s, x, ok) /\ (c.unit => c.unit)
      BY <1>3 DEF Gives
    <3>3. Ends(env, c, u, x, ok)
      BY <2>1, <3>1, <3>2, Transfer
    <3> QED  BY <1>3, <3>3 DEF Gives
  <2>2. CASE c.base = "W"
    <3>1. PICK m : Value(c, ok, m) /\ (Over(env, s, x, m) \/ Under(env, s, x, m))
      BY <1>3, <2>2 DEF Gives, Ends, EndsW
    <3>2. \A st, y, e, f : IsSeq(st) => IsSeq(On(st ++ x, y)) /\ IsSeq(On(On(st, e), f))
      BY <2>0, OnLaws
    <3>3. Over(env, s, x, m) => Over(env, u, x, m)
      BY <1>3, <3>2 DEF Over
    <3>4. Under(env, s, x, m) => Under(env, u, x, m)
      BY <1>3, <3>2 DEF Under
    <3>5. EndsW(env, c, u, x, ok)
      BY <3>1, <3>3, <3>4 DEF EndsW
    <3> QED  BY <1>3, <2>2, <3>5 DEF Gives, Ends
  <2> QED  BY <2>1, <2>2
<1>4. ASSUME Gives(env, c, s, x, ok)
      PROVE  Gives(env, c, p ++ s, x, ok) /\ Gives(env, c, s ++ p, x, ok)
  BY <1>2, <1>3, <1>4
<1> QED  BY <1>1, <1>4

(* Conjunctions and disjunctions.  The child that runs first takes its      *)
(* witness from the top.                                                    *)

LEMMA BothFit ==
    ASSUME NEW c, NEW e, NEW d, NEW x, NEW y, NEW ok \in BOOLEAN, NEW ok1 \in BOOLEAN, NEW ok2 \in BOOLEAN,
           IsSeq(x), IsSeq(y), Fits(c, ok1, x), Fits(e, ok2, y), ok => ok1 /\ ok2,
           d.input = C!and_input(c.input, e.input)
    PROVE  Fits(d, ok, y ++ x)
<1>1. CASE c.input = "Zero"
  <2>1. d.input = e.input
    BY <1>1 DEF C!and_input
  <2>2. x = <<>> /\ y ++ x = y
    BY <1>1, CatLaws DEF Fits
  <2> QED  BY <2>1, <2>2 DEF Fits
<1>2. CASE c.input # "Zero" /\ e.input = "Zero"
  <2>1. d.input = c.input
    BY <1>2 DEF C!and_input
  <2>2. y = <<>> /\ y ++ x = x
    BY <1>2, CatLaws DEF Fits
  <2> QED  BY <2>1, <2>2 DEF Fits
<1>3. CASE c.input # "Zero" /\ e.input # "Zero" /\ c.input \in {"OneNonZero", "AnyNonZero"}
  <2>1. d.input = "AnyNonZero"
    BY <1>3 DEF C!and_input
  <2>2. ASSUME ok  PROVE \E f, v : IsSeq(f) /\ y ++ x = On(f, v) /\ elem_size(v) > 0
    <3>1. PICK f, v : IsSeq(f) /\ x = On(f, v) /\ elem_size(v) > 0
      BY <1>3, <2>2 DEF Fits
    <3>2. y ++ x = On(y ++ f, v) /\ IsSeq(y ++ f)
      BY <3>1, OnLaws
    <3> QED  BY <3>1, <3>2
  <2> QED  BY <2>1, <2>2 DEF Fits
<1>4. CASE c.input # "Zero" /\ e.input # "Zero" /\ c.input \notin {"OneNonZero", "AnyNonZero"}
  <2>1. d.input = "Any"
    BY <1>4 DEF C!and_input
  <2> QED  BY <2>1 DEF Fits
<1> QED  BY <1>1, <1>2, <1>3, <1>4

LEMMA AndVGives ==
    ASSUME NEW env, NEW c, NEW e, NEW s, NEW u, NEW d, Code(env, s), Code(env, u),
           c.base = "V", e.base \in {"B", "K", "V"}, d.base = e.base, d.unit => e.unit,
           d.input = C!and_input(c.input, e.input)
    PROVE  /\ Code(env, s ++ u)
           /\ \A x, y : \A ok \in BOOLEAN : Gives(env, c, s, x, TRUE) /\ Gives(env, e, u, y, ok) =>
                    Gives(env, d, s ++ u, y ++ x, ok)
<1>1. Code(env, s ++ u)
  BY CodeCat DEF Code
<1>2. ASSUME NEW x, NEW y, NEW ok \in BOOLEAN, Gives(env, c, s, x, TRUE), Gives(env, e, u, y, ok)
      PROVE  Gives(env, d, s ++ u, y ++ x, ok)
  <2>1. IsSeq(x) /\ IsSeq(y) /\ IsSeq(y ++ x) /\ \A st : IsSeq(st) => Maps(env, s, st ++ x, st)
    BY <1>2, CatLaws DEF Gives, Ends, EndsV
  <2>2. ASSUME NEW st, NEW z, IsSeq(st), IsSeq(z), Maps(env, u, st ++ y, z)
        PROVE  Maps(env, s ++ u, st ++ (y ++ x), z)
    <3>1. st ++ (y ++ x) = (st ++ y) ++ x /\ IsSeq(st ++ y)
      BY <2>1, <2>2, CatLaws
    <3>2. Maps(env, s, (st ++ y) ++ x, st ++ y)
      BY <2>1, <3>1
    <3> QED  BY <2>2, <3>1, <3>2, MapsCat DEF Code
  <2>3. Ends(env, e, u, y, ok) /\ e.base # "W"
    BY <1>2 DEF Gives
  <2>4. Ends(env, d, s ++ u, y ++ x, ok)
    BY <2>2, <2>3, Transfer
  <2>5. Fits(d, ok, y ++ x)
    BY <1>2, BothFit DEF Gives
  <2> QED  BY <2>1, <2>4, <2>5 DEF Gives
<1> QED  BY <1>1, <1>2

LEMMA AndBGives ==
    ASSUME NEW env, NEW c, NEW e, NEW s, NEW u, NEW d, NEW op \in {"BoolAnd", "BoolOr"},
           Code(env, s), Code(env, u),
           c.base = "B", e.base = "W", d.base = "B"
    PROVE  LET w == s ++ u ++ <<Op(op)>>
           IN  /\ Code(env, w)
               /\ \A x, y : \A ok1, ok2 \in BOOLEAN :
                    LET ok == IF op = "BoolAnd" THEN ok1 /\ ok2 ELSE ok1 \/ ok2
                    IN  Gives(env, c, s, x, ok1) /\ Gives(env, e, u, y, ok2) /\ Fits(d, ok, y ++ x)
                            => Gives(env, d, w, y ++ x, ok)
<1> DEFINE t == <<Op(op)>>
           Bool(m, n) == truth(IF op = "BoolAnd" THEN is_true(number(n)) /\ is_true(number(m))
                               ELSE is_true(number(n)) \/ is_true(number(m)))
           w == s ++ u ++ t
<1>1. Code(env, t)
  BY CodeOps DEF Plain
<1>2. \A st, m, n : IsSeq(st) => Maps(env, t, On(On(st, number(m)), number(n)), On(st, Bool(m, n)))
  BY OpNumbers
<1> HIDE DEF t
<1>3. Code(env, w) /\ IsSeq(s ++ u)
  BY <1>1, CodeCat DEF Code
<1>4. ASSUME NEW x, NEW y, NEW ok1 \in BOOLEAN, NEW ok2 \in BOOLEAN, NEW ok \in BOOLEAN,
             ok = IF op = "BoolAnd" THEN ok1 /\ ok2 ELSE ok1 \/ ok2,
             Gives(env, c, s, x, ok1), Gives(env, e, u, y, ok2), Fits(d, ok, y ++ x)
      PROVE  Gives(env, d, w, y ++ x, ok)
  <2>1. PICK m : Value(c, ok1, m) /\ \A st : IsSeq(st) => Maps(env, s, st ++ x, On(st, number(m)))
    BY <1>4 DEF Gives, Ends, EndsB
  <2>2. PICK n : Value(e, ok2, n) /\ (Over(env, u, y, n) \/ Under(env, u, y, n))
    BY <1>4 DEF Gives, Ends, EndsW
  <2>3. IsSeq(x) /\ IsSeq(y) /\ IsSeq(y ++ x)
    BY <1>4, CatLaws DEF Gives
  <2> DEFINE v == IF ok THEN 1 ELSE 0
  <2>4. Value(d, ok, v)
    BY DEF Value
  <2>5. Bool(m, n) = number(v) /\ Bool(n, m) = number(v)
    <3>1. (is_true(number(m)) <=> ok1) /\ (is_true(number(n)) <=> ok2)
      BY <2>1, <2>2 DEF is_true, number, Value
    <3> QED  BY <1>4, <3>1 DEF truth
  <2> HIDE DEF v, Bool
  <2>6. ASSUME NEW st, IsSeq(st)  PROVE Maps(env, w, st ++ (y ++ x), On(st, number(v)))
    <3>1. st ++ (y ++ x) = (st ++ y) ++ x /\ IsSeq(st ++ y)
      BY <2>3, <2>6, CatLaws
    <3>2. Maps(env, s, (st ++ y) ++ x, On(st ++ y, number(m)))
      BY <2>1, <3>1
    <3>3. \E p, q : /\ Maps(env, u, On(st ++ y, number(m)), On(On(st, number(p)), number(q)))
                    /\ Bool(p, q) = number(v)
      BY <2>2, <2>5, <2>6 DEF Over, Under
    <3>4. PICK p, q : /\ Maps(env, u, On(st ++ y, number(m)), On(On(st, number(p)), number(q)))
                      /\ Bool(p, q) = number(v)
      BY <3>3
    <3>5. Maps(env, t, On(On(st, number(p)), number(q)), On(st, number(v)))
      BY <1>2, <2>6, <3>4
    <3>6. Maps(env, s ++ u, (st ++ y) ++ x, On(On(st, number(p)), number(q)))
      BY <3>2, <3>4, MapsCat DEF Code
    <3>7. Maps(env, w, (st ++ y) ++ x, On(st, number(v)))
      BY <1>1, <1>3, <3>5, <3>6, MapsCat DEF Code
    <3> QED  BY <3>1, <3>7
  <2> HIDE DEF w
  <2>7. EndsB(env, d, w, y ++ x, ok)
    BY <2>4, <2>6 DEF EndsB
  <2> QED  BY <1>4, <2>3, <2>7 DEF Gives, Ends
<1> HIDE DEF w
<1>5. ASSUME NEW x, NEW y, NEW ok1 \in BOOLEAN, NEW ok2 \in BOOLEAN
      PROVE  LET ok == IF op = "BoolAnd" THEN ok1 /\ ok2 ELSE ok1 \/ ok2
             IN  Gives(env, c, s, x, ok1) /\ Gives(env, e, u, y, ok2) /\ Fits(d, ok, y ++ x)
                            => Gives(env, d, w, y ++ x, ok)
  <2> DEFINE ok == IF op = "BoolAnd" THEN ok1 /\ ok2 ELSE ok1 \/ ok2
  <2>1. ok \in BOOLEAN
    OBVIOUS
  <2> HIDE DEF ok
  <2>2. ok = IF op = "BoolAnd" THEN ok1 /\ ok2 ELSE ok1 \/ ok2
    BY DEF ok
  <2>3. Gives(env, c, s, x, ok1) /\ Gives(env, e, u, y, ok2) /\ Fits(d, ok, y ++ x) => Gives(env, d, w, y ++ x, ok)
    BY <1>4, <2>1, <2>2
  <2> QED  BY <2>3 DEF ok
<1> QED  BY <1>3, <1>5 DEF w, t

\* The results of a child that decides a branch: 1 or 0.
LEMMA UnitEnds ==
    ASSUME NEW env, NEW c, NEW s, NEW x, NEW ok \in BOOLEAN, Gives(env, c, s, x, ok), c.base = "B", c.unit
    PROVE  IsSeq(x) /\ \A st : IsSeq(st) => Maps(env, s, st ++ x, On(st, truth(ok)))
<1>1. PICK m : Value(c, ok, m) /\ \A st : IsSeq(st) => Maps(env, s, st ++ x, On(st, number(m)))
  BY DEF Gives, Ends, EndsB
<1>2. number(m) = truth(ok)
  BY <1>1 DEF Value, truth
<1> QED  BY <1>1, <1>2 DEF Gives

\* Inputs of or_d and or_c.
LEMMA OrFit ==
    ASSUME NEW c, NEW e, NEW d, NEW x, NEW ok, NEW ok1,
           Fits(c, ok1, x), IsSeq(x), d.input = C!or_input(c.input, e.input)
    PROVE  /\ Fits(d, ok, x)
           /\ \A y : IsSeq(y) /\ Fits(e, ok, y) => Fits(d, ok, y ++ x)
<1>1. CASE c.input = "Zero" /\ e.input = "Zero"
  <2>1. d.input = "Zero"
    BY <1>1 DEF C!or_input, C!One
  <2>2. x = <<>> /\ \A y : Fits(e, ok, y) => y = <<>>
    BY <1>1 DEF Fits
  <2>3. <<>> ++ <<>> = <<>>
    BY CatLaws
  <2> QED  BY <2>1, <2>2, <2>3 DEF Fits
<1>2. CASE c.input \in C!One /\ e.input = "Zero"
  <2>1. d.input = "One"
    BY <1>2 DEF C!or_input, C!One
  <2>2. (\E v : x = <<v>>) /\ \A y : Fits(e, ok, y) => y = <<>>
    BY <1>2 DEF Fits, C!One
  <2>3. <<>> ++ x = x
    BY CatLaws
  <2> QED  BY <2>1, <2>2, <2>3 DEF Fits
<1>3. CASE ~(c.input = "Zero" /\ e.input = "Zero") /\ ~(c.input \in C!One /\ e.input = "Zero")
  <2>1. d.input = "Any"
    BY <1>3 DEF C!or_input
  <2> QED  BY <2>1 DEF Fits
<1> QED  BY <1>1, <1>2, <1>3

LEMMA OrDGives ==
    ASSUME NEW env, NEW c, NEW e, NEW s, NEW u, NEW d, Code(env, s), Code(env, u),
           c.base = "B", c.unit, e.base = "B", d.base = "B", d.unit => e.unit,
           d.input = C!or_input(c.input, e.input)
    PROVE  LET w == s ++ (<<Op("IfDup")>> ++ (<<Op("NotIf")>> ++ u ++ <<Op("EndIf")>>))
           IN  /\ Code(env, w)
               /\ \A x : Gives(env, c, s, x, TRUE) => Gives(env, d, w, x, TRUE)
               /\ \A x, y : \A ok \in BOOLEAN : Gives(env, c, s, x, FALSE) /\ Gives(env, e, u, y, ok) =>
                    Gives(env, d, w, y ++ x, ok)
<1> DEFINE t == <<Op("IfDup")>>
           b == <<Op("NotIf")>> ++ u ++ <<Op("EndIf")>>
           w == s ++ (t ++ b)
<1>1. Code(env, t)
  BY CodeOps DEF Plain
<1>2. \A st : IsSeq(st) => /\ Maps(env, t, On(st, truth(TRUE)), On(On(st, truth(TRUE)), truth(TRUE)))
                           /\ Maps(env, t, On(st, truth(FALSE)), On(st, truth(FALSE)))
  <2>1. is_true(truth(TRUE)) /\ ~is_true(truth(FALSE))
    BY DEF is_true, truth, number
  <2> QED  BY <2>1, OpDup
<1>3. /\ IsSeq(b) /\ Skips(env, b)
      /\ \A x, y : IsSeq(x) /\ IsSeq(y) /\ Maps(env, u, x, y) => Maps(env, b, On(x, truth(FALSE)), y)
      /\ \A x : IsSeq(x) => Maps(env, b, On(x, truth(TRUE)), x)
  BY Block DEF Code
<1> HIDE DEF t, b
<1>4. Code(env, t ++ b) /\ Code(env, w)
  BY <1>1, <1>3, CodeCat DEF Code
<1>5. ASSUME NEW x, Gives(env, c, s, x, TRUE)  PROVE Gives(env, d, w, x, TRUE)
  <2>1. IsSeq(x) /\ \A st : IsSeq(st) => Maps(env, s, st ++ x, On(st, truth(TRUE)))
    BY <1>5, UnitEnds
  <2>2. ASSUME NEW st, IsSeq(st)  PROVE Maps(env, w, st ++ x, On(st, number(1)))
    <3>1. IsSeq(On(st, truth(TRUE)))
      BY <2>2, OnLaws
    <3>2. Maps(env, b, On(On(st, truth(TRUE)), truth(TRUE)), On(st, truth(TRUE)))
      BY <1>3, <3>1
    <3>3. Maps(env, t ++ b, On(st, truth(TRUE)), On(st, truth(TRUE)))
      BY <1>1, <1>2, <1>3, <2>2, <3>2, MapsCat DEF Code
    <3>4. Maps(env, w, st ++ x, On(st, truth(TRUE)))
      BY <1>4, <2>1, <2>2, <3>3, MapsCat DEF Code
    <3> QED  BY <3>4 DEF truth
  <2>3. Value(d, TRUE, 1)
    BY DEF Value
  <2> HIDE DEF w
  <2>4. EndsB(env, d, w, x, TRUE)
    BY <2>2, <2>3 DEF EndsB
  <2>5. Fits(d, TRUE, x)
    BY <1>5, <2>1, OrFit DEF Gives
  <2> QED  BY <2>1, <2>4, <2>5 DEF Gives, Ends
<1>6. ASSUME NEW x, NEW y, NEW ok \in BOOLEAN, Gives(env, c, s, x, FALSE), Gives(env, e, u, y, ok)
      PROVE  Gives(env, d, w, y ++ x, ok)
  <2>1. IsSeq(x) /\ \A st : IsSeq(st) => Maps(env, s, st ++ x, On(st, truth(FALSE)))
    BY <1>6, UnitEnds
  <2>2. IsSeq(y) /\ IsSeq(y ++ x)
    BY <1>6, <2>1, CatLaws DEF Gives
  <2>3. ASSUME NEW st, NEW z, IsSeq(st), IsSeq(z), Maps(env, u, st ++ y, z)
        PROVE  Maps(env, w, st ++ (y ++ x), z)
    <3>1. st ++ (y ++ x) = (st ++ y) ++ x /\ IsSeq(st ++ y)
      BY <2>1, <2>2, <2>3, CatLaws
    <3>2. Maps(env, b, On(st ++ y, truth(FALSE)), z)
      BY <1>3, <2>3, <3>1
    <3>3. Maps(env, t ++ b, On(st ++ y, truth(FALSE)), z)
      BY <1>1, <1>2, <1>3, <3>1, <3>2, MapsCat DEF Code
    <3>4. Maps(env, s, (st ++ y) ++ x, On(st ++ y, truth(FALSE)))
      BY <2>1, <3>1
    <3> QED  BY <1>4, <3>1, <3>3, <3>4, MapsCat DEF Code
  <2> HIDE DEF w
  <2>4. Ends(env, e, u, y, ok) /\ e.base # "W"
    BY <1>6 DEF Gives
  <2>5. Ends(env, d, w, y ++ x, ok)
    BY <2>3, <2>4, Transfer
  <2>6. Fits(d, ok, y ++ x)
    BY <1>6, OrFit DEF Gives
  <2> QED  BY <2>2, <2>5, <2>6 DEF Gives
<1> HIDE DEF w
<1> QED  BY <1>4, <1>5, <1>6 DEF w, t, b

LEMMA OrCGives ==
    ASSUME NEW env, NEW c, NEW e, NEW s, NEW u, NEW d, Code(env, s), Code(env, u),
           c.base = "B", c.unit, e.base = "V", d.base = "V",
           d.input = C!or_input(c.input, e.input)
    PROVE  LET w == s ++ (<<Op("NotIf")>> ++ u ++ <<Op("EndIf")>>)
           IN  /\ Code(env, w)
               /\ \A x : Gives(env, c, s, x, TRUE) => Gives(env, d, w, x, TRUE)
               /\ \A x, y : Gives(env, c, s, x, FALSE) /\ Gives(env, e, u, y, TRUE) =>
                    Gives(env, d, w, y ++ x, TRUE)
<1> DEFINE b == <<Op("NotIf")>> ++ u ++ <<Op("EndIf")>>
           w == s ++ b
<1>1. /\ IsSeq(b) /\ Skips(env, b)
      /\ \A x, y : IsSeq(x) /\ IsSeq(y) /\ Maps(env, u, x, y) => Maps(env, b, On(x, truth(FALSE)), y)
      /\ \A x : IsSeq(x) => Maps(env, b, On(x, truth(TRUE)), x)
  BY Block DEF Code
<1> HIDE DEF b
<1>2. Code(env, w)
  BY <1>1, CodeCat DEF Code
<1>3. ASSUME NEW x, Gives(env, c, s, x, TRUE)  PROVE Gives(env, d, w, x, TRUE)
  <2>1. IsSeq(x) /\ \A st : IsSeq(st) => Maps(env, s, st ++ x, On(st, truth(TRUE)))
    BY <1>3, UnitEnds
  <2>2. ASSUME NEW st, IsSeq(st)  PROVE Maps(env, w, st ++ x, st)
    BY <1>1, <2>1, <2>2, MapsCat DEF Code
  <2> HIDE DEF w
  <2>3. EndsV(env, w, x, TRUE)
    BY <2>2 DEF EndsV
  <2>4. Fits(d, TRUE, x)
    BY <1>3, <2>1, OrFit DEF Gives
  <2> QED  BY <2>1, <2>3, <2>4 DEF Gives, Ends
<1>4. ASSUME NEW x, NEW y, Gives(env, c, s, x, FALSE), Gives(env, e, u, y, TRUE)
      PROVE  Gives(env, d, w, y ++ x, TRUE)
  <2>1. IsSeq(x) /\ \A st : IsSeq(st) => Maps(env, s, st ++ x, On(st, truth(FALSE)))
    BY <1>4, UnitEnds
  <2>2. IsSeq(y) /\ IsSeq(y ++ x) /\ \A st : IsSeq(st) => Maps(env, u, st ++ y, st)
    BY <1>4, <2>1, CatLaws DEF Gives, Ends, EndsV
  <2>3. ASSUME NEW st, IsSeq(st)  PROVE Maps(env, w, st ++ (y ++ x), st)
    <3>1. st ++ (y ++ x) = (st ++ y) ++ x /\ IsSeq(st ++ y)
      BY <2>1, <2>2, <2>3, CatLaws
    <3>2. Maps(env, b, On(st ++ y, truth(FALSE)), st)
      BY <1>1, <2>2, <2>3, <3>1
    <3>3. Maps(env, s, (st ++ y) ++ x, On(st ++ y, truth(FALSE)))
      BY <2>1, <3>1
    <3> QED  BY <1>1, <3>1, <3>2, <3>3, MapsCat DEF Code
  <2> HIDE DEF w
  <2>4. EndsV(env, w, y ++ x, TRUE)
    BY <2>3 DEF EndsV
  <2>5. Fits(d, TRUE, y ++ x)
    BY <1>4, OrFit DEF Gives
  <2> QED  BY <2>2, <2>4, <2>5 DEF Gives, Ends
<1> HIDE DEF w
<1> QED  BY <1>2, <1>3, <1>4 DEF w, b

LEMMA OrIGives ==
    ASSUME NEW env, NEW c, NEW e, NEW s, NEW u, NEW d, Code(env, s), Code(env, u),
           c.base \in {"B", "V", "K"}, e.base = c.base, d.base = c.base, d.unit => c.unit /\ e.unit,
           d.input = IF c.input = "Zero" /\ e.input = "Zero" THEN "One" ELSE "Any"
    PROVE  LET w == <<Op("If")>> ++ s ++ <<Op("Else")>> ++ u ++ <<Op("EndIf")>>
           IN  /\ Code(env, w)
               /\ \A x : \A ok \in BOOLEAN : Gives(env, c, s, x, ok) => Gives(env, d, w, On(x, number(1)), ok)
               /\ \A x : \A ok \in BOOLEAN : Gives(env, e, u, x, ok) => Gives(env, d, w, On(x, number(0)), ok)
<1> DEFINE w == <<Op("If")>> ++ s ++ <<Op("Else")>> ++ u ++ <<Op("EndIf")>>
           t == <<Op("EndIf")>>
<1>1. /\ IsSeq(w) /\ Skips(env, w)
      /\ \A x, y : IsSeq(x) /\ IsSeq(y) /\ Maps(env, s, x, y) => Maps(env, w, On(x, truth(TRUE)), y)
      /\ \A x, y : IsSeq(x) /\ IsSeq(y) /\ Maps(env, u, x, y) => Maps(env, w, On(x, truth(FALSE)), y)
  BY Branch DEF Code
<1>2. w # <<>>
  <2> DEFINE f == <<Op("If")>> ++ s ++ <<Op("Else")>> ++ u
  <2>1. IsSeq(f)
    <3> DEFINE a1 == <<Op("If")>>
               a2 == <<Op("Else")>>
    <3>1. IsSeq(a1) /\ IsSeq(a2)
      BY ShortSeqs
    <3> HIDE DEF a1, a2
    <3>2. IsSeq(a1 ++ s ++ a2 ++ u)
      BY <3>1, CatLaws DEF Code
    <3> QED  BY <3>2 DEF a1, a2
  <2> HIDE DEF f
  <2>2. Len(On(f, Op("EndIf"))) = Len(f) + 1 /\ Len(f) \in Nat /\ Len(<<>>) = 0
    BY <2>1, OnLaws
  <2>3. On(f, Op("EndIf")) # <<>>
    BY <2>2
  <2> QED  BY <2>3 DEF On, f
<1> HIDE DEF w
<1>3. \A x, v : IsSeq(x) => IsSeq(On(x, v)) /\ \A st : IsSeq(st) => IsSeq(st ++ x) /\ st ++ On(x, v) = On(st ++ x, v)
  BY OnLaws
<1>4. ASSUME NEW x, NEW v, NEW ok \in BOOLEAN, NEW b, NEW r, Gives(env, b, r, x, ok), b \in {c, e},
             \A y, z : IsSeq(y) /\ IsSeq(z) /\ Maps(env, r, y, z) => Maps(env, w, On(y, v), z)
      PROVE  Gives(env, d, w, On(x, v), ok)
  <2>1. Ends(env, b, r, x, ok) /\ b.base # "W" /\ d.base = b.base /\ (d.unit => b.unit) /\ IsSeq(x)
    BY <1>4 DEF Gives
  <2>2. \A st, z : IsSeq(st) /\ IsSeq(z) /\ Maps(env, r, st ++ x, z) => Maps(env, w, st ++ On(x, v), z)
    BY <1>3, <1>4, <2>1
  <2>3. Ends(env, d, w, On(x, v), ok)
    BY <2>1, <2>2, Transfer
  <2>4. Fits(d, ok, On(x, v))
    <3>1. CASE c.input = "Zero" /\ e.input = "Zero"
      <4>1. x = <<>>
        BY <1>4, <3>1 DEF Gives, Fits
      <4>2. On(x, v) = <<v>>
        BY <4>1, OnLaws, ShortSeqs DEF On
      <4> QED  BY <3>1, <4>2 DEF Fits
    <3>2. CASE ~(c.input = "Zero" /\ e.input = "Zero")
      BY <3>2 DEF Fits
    <3> QED  BY <3>1, <3>2
  <2> QED  BY <1>3, <2>1, <2>3, <2>4 DEF Gives
<1>5. truth(TRUE) = number(1) /\ truth(FALSE) = number(0)
  BY DEF truth
<1>6. ASSUME NEW x, NEW ok \in BOOLEAN
      PROVE  /\ Gives(env, c, s, x, ok) => Gives(env, d, w, On(x, number(1)), ok)
             /\ Gives(env, e, u, x, ok) => Gives(env, d, w, On(x, number(0)), ok)
  BY <1>1, <1>4, <1>5
<1> QED  BY <1>1, <1>2, <1>6 DEF Code, w

AndOrInput(a, b, c) ==
    CASE {a.input, b.input, c.input} = {"Zero"} -> "Zero"
      [] a.input = "Zero" /\ b.input \in C!One /\ c.input \in C!One -> "One"
      [] a.input \in C!One /\ b.input = "Zero" /\ c.input = "Zero" -> "One"
      [] OTHER -> "Any"

LEMMA AndOrGives ==
    ASSUME NEW env, NEW a, NEW b, NEW c, NEW d, NEW p, NEW s, NEW u, Code(env, p), Code(env, s), Code(env, u),
           a.base = "B", a.unit, b.base \in {"B", "V", "K"}, c.base = b.base, d.base = b.base,
           d.unit => b.unit /\ c.unit,
           d.input = AndOrInput(a, b, c)
    PROVE  LET w == p ++ (<<Op("NotIf")>> ++ u ++ <<Op("Else")>> ++ s ++ <<Op("EndIf")>>)
           IN  /\ Code(env, w)
               /\ \A x, y : Gives(env, a, p, x, TRUE) /\ Gives(env, b, s, y, TRUE) => Gives(env, d, w, y ++ x, TRUE)
               /\ \A x, y : \A ok \in BOOLEAN : Gives(env, a, p, x, FALSE) /\ Gives(env, c, u, y, ok) =>
                    Gives(env, d, w, y ++ x, ok)
<1> DEFINE t == <<Op("NotIf")>> ++ u ++ <<Op("Else")>> ++ s ++ <<Op("EndIf")>>
           w == p ++ t
<1>1. /\ IsSeq(t) /\ Skips(env, t)
      /\ \A x, y : IsSeq(x) /\ IsSeq(y) /\ Maps(env, u, x, y) => Maps(env, t, On(x, truth(FALSE)), y)
      /\ \A x, y : IsSeq(x) /\ IsSeq(y) /\ Maps(env, s, x, y) => Maps(env, t, On(x, truth(TRUE)), y)
  BY Branch, ZenonT(30) DEF Code
<1> HIDE DEF t
<1>2. Code(env, w)
  BY <1>1, CodeCat
<1>4. ASSUME NEW x, NEW y, NEW ok1 \in BOOLEAN, NEW ok \in BOOLEAN, NEW q, NEW r,
             Gives(env, a, p, x, ok1), Gives(env, q, r, y, ok), q \in {b, c},
             \A v, z : IsSeq(v) /\ IsSeq(z) /\ Maps(env, r, v, z) => Maps(env, t, On(v, truth(ok1)), z)
      PROVE  Gives(env, d, w, y ++ x, ok)
  <2>1. Ends(env, q, r, y, ok) /\ q.base # "W" /\ d.base = q.base /\ (d.unit => q.unit) /\ IsSeq(y)
    BY <1>4 DEF Gives
  <2>2. IsSeq(x) /\ \A st : IsSeq(st) => Maps(env, p, st ++ x, On(st, truth(ok1)))
    BY <1>4, UnitEnds
  <2>3. ASSUME NEW st, NEW z, IsSeq(st), IsSeq(z), Maps(env, r, st ++ y, z)
        PROVE  Maps(env, w, st ++ (y ++ x), z)
    <3>1. st ++ (y ++ x) = (st ++ y) ++ x /\ IsSeq(st ++ y)
      BY <2>1, <2>2, <2>3, CatLaws
    <3>2. Maps(env, t, On(st ++ y, truth(ok1)), z)
      BY <1>4, <2>3, <3>1
    <3>3. Maps(env, p, (st ++ y) ++ x, On(st ++ y, truth(ok1)))
      BY <2>2, <3>1
    <3> QED  BY <1>1, <3>1, <3>2, <3>3, MapsCat DEF Code
  <2> HIDE DEF w
  <2>4. Ends(env, d, w, y ++ x, ok)
    BY <2>1, <2>3, Transfer
  <2>5. Fits(d, ok, y ++ x)
    <3>1. CASE {a.input, b.input, c.input} = {"Zero"}
      <4>0. a.input = "Zero" /\ b.input = "Zero" /\ c.input = "Zero"
        BY <3>1
      <4>1. d.input = "Zero"
        BY <3>1, <4>0 DEF AndOrInput, C!One
      <4>2. x = <<>> /\ y = <<>>
        BY <1>4, <4>0 DEF Gives, Fits
      <4> QED  BY <4>1, <4>2, CatLaws DEF Fits
    <3>2. CASE a.input = "Zero" /\ b.input \in C!One /\ c.input \in C!One
      <4>0. d.input = "One"
        BY <3>2 DEF AndOrInput, C!One
      <4>1. x = <<>> /\ (\E v : y = <<v>>) /\ d.input = "One"
        <5>1. CASE q = b
          BY <1>4, <3>2, <4>0, <5>1 DEF Gives, Fits, C!One
        <5>2. CASE q = c
          BY <1>4, <3>2, <4>0, <5>2 DEF Gives, Fits, C!One
        <5> QED  BY <1>4, <5>1, <5>2
      <4>2. y ++ x = y
        BY <2>1, <4>1, CatLaws
      <4> QED  BY <4>1, <4>2 DEF Fits
    <3>3. CASE a.input \in C!One /\ b.input = "Zero" /\ c.input = "Zero"
      <4>0. d.input = "One"
        BY <3>3 DEF AndOrInput, C!One
      <4>1. y = <<>> /\ (\E v : x = <<v>>) /\ d.input = "One"
        <5>1. CASE q = b
          BY <1>4, <3>3, <4>0, <5>1 DEF Gives, Fits, C!One
        <5>2. CASE q = c
          BY <1>4, <3>3, <4>0, <5>2 DEF Gives, Fits, C!One
        <5> QED  BY <1>4, <5>1, <5>2
      <4>2. y ++ x = x
        BY <2>2, <4>1, CatLaws
      <4> QED  BY <4>1, <4>2 DEF Fits
    <3>4. CASE /\ {a.input, b.input, c.input} # {"Zero"}
               /\ ~(a.input = "Zero" /\ b.input \in C!One /\ c.input \in C!One)
               /\ ~(a.input \in C!One /\ b.input = "Zero" /\ c.input = "Zero")
      <4>1. d.input = "Any"
        BY <3>4 DEF AndOrInput
      <4> QED  BY <4>1 DEF Fits
    <3> QED  BY <3>1, <3>2, <3>3, <3>4
  <2>6. IsSeq(y ++ x)
    BY <2>1, <2>2, CatLaws
  <2> QED  BY <2>4, <2>5, <2>6 DEF Gives
<1>5. ASSUME NEW x, NEW y, Gives(env, a, p, x, TRUE), Gives(env, b, s, y, TRUE)
      PROVE  Gives(env, d, w, y ++ x, TRUE)
  BY <1>1, <1>4, <1>5
<1>6. ASSUME NEW x, NEW y, NEW ok \in BOOLEAN, Gives(env, a, p, x, FALSE), Gives(env, c, u, y, ok)
      PROVE  Gives(env, d, w, y ++ x, ok)
  BY <1>1, <1>4, <1>6
<1> HIDE DEF w
<1> QED  BY <1>2, <1>5, <1>6 DEF w, t

-----------------------------------------------------------------------------
(* Lists of scripts. *)

\* Parts of a script that are skipped together.
Parts(env, ss) == IsSeq(ss) /\ \A i \in 1..Len(ss) : IsSeq(ss[i]) /\ Skips(env, ss[i])

\* X are the stacks before, between and after the parts.
Steps(env, ss, X) == \A i \in 1..Len(ss) : Maps(env, ss[i], X[i - 1], X[i])

LEMMA Chain ==
    ASSUME NEW env, NEW ss, Parts(env, ss)
    PROVE  /\ IsSeq(Cat(ss)) /\ Skips(env, Cat(ss))
           /\ \A X : Steps(env, ss, X) /\ IsSeq(X[0]) => Maps(env, Cat(ss), X[0], X[Len(ss)])
           /\ Len(ss) >= 1 /\ Code(env, ss[1]) => Code(env, Cat(ss))
<1> DEFINE n == Len(ss)
<1>0. n \in Nat /\ IsSeq(ss) /\ \A i \in 1..n : IsSeq(ss[i])
  BY SeqForm DEF Parts
<1>1. PICK W : CatArray(ss, W)
  BY <1>0, CatArrayExists
<1>2. Cat(ss) = W[n] /\ \A i \in 0..n : IsSeq(W[i])
  BY <1>0, <1>1, CatIs, CatArraySeqs
<1>3. W[0] = <<>> /\ \A i \in 1..n : W[i] = W[i - 1] ++ ss[i]
  BY <1>1 DEF CatArray
<1>4. Skips(env, <<>>) /\ \A x : IsSeq(x) => Maps(env, <<>>, x, x)
  <2>1. ASSUME NEW st, NEW alt, NEW conds, IsSeq(st), IsSeq(alt), IsSeq(conds)
        PROVE  Does(env, <<>>, St(st, alt, conds), St(st, alt, conds))
    BY <2>1, StRun, DoesNone
  <2> QED  BY <2>1 DEF Skips, Maps, Dead, Live
<1> HIDE DEF n
<1>5. ASSUME NEW k \in Nat, k + 1 <= n
      PROVE  /\ k + 1 \in 1..n /\ k \in 0..n /\ k + 1 \in 0..n /\ (k + 1) - 1 = k
             /\ W[k + 1] = W[k] ++ ss[k + 1]
  BY <1>0, <1>3, <1>5
<1>6. Skips(env, W[n])
  <2> DEFINE T == {k \in Nat : k <= n => Skips(env, W[k])}
  <2>1. 0 \in T
    BY <1>3, <1>4
  <2>2. ASSUME NEW k \in Nat, k \in T  PROVE k + 1 \in T
    <3> SUFFICES ASSUME k + 1 <= n  PROVE Skips(env, W[k + 1])
      OBVIOUS
    <3>1. k \in 0..n /\ k + 1 \in 1..n /\ k <= n /\ W[k + 1] = W[k] ++ ss[k + 1]
      BY <1>0, <1>5
    <3>2. IsSeq(W[k]) /\ IsSeq(ss[k + 1]) /\ Skips(env, ss[k + 1])
      BY <1>0, <1>2, <3>1 DEF Parts, n
    <3>3. Skips(env, W[k])
      BY <2>2, <3>1
    <3> QED  BY <3>1, <3>2, <3>3, SkipsCat
  <2> HIDE DEF T
  <2>3. Nat \subseteq T
    BY <2>1, <2>2, SetInduction
  <2> QED  BY <1>0, <2>3 DEF T
<1>7. ASSUME NEW X, Steps(env, ss, X), IsSeq(X[0])  PROVE Maps(env, W[n], X[0], X[n])
  <2> DEFINE T == {k \in Nat : k <= n => Maps(env, W[k], X[0], X[k])}
  <2>1. 0 \in T
    BY <1>3, <1>4, <1>7
  <2>2. ASSUME NEW k \in Nat, k \in T  PROVE k + 1 \in T
    <3> SUFFICES ASSUME k + 1 <= n  PROVE Maps(env, W[k + 1], X[0], X[k + 1])
      OBVIOUS
    <3>1. k \in 0..n /\ k + 1 \in 1..n /\ k <= n /\ (k + 1) - 1 = k /\ W[k + 1] = W[k] ++ ss[k + 1]
      BY <1>0, <1>5
    <3>2. IsSeq(W[k]) /\ IsSeq(ss[k + 1])
      BY <1>0, <1>2, <3>1
    <3>3. Maps(env, W[k], X[0], X[k]) /\ Maps(env, ss[k + 1], X[k], X[k + 1])
      BY <1>7, <2>2, <3>1 DEF Steps, n
    <3> QED  BY <3>1, <3>2, <3>3, MapsCat
  <2> HIDE DEF T
  <2>3. Nat \subseteq T
    BY <2>1, <2>2, SetInduction
  <2> QED  BY <1>0, <2>3 DEF T
<1>8. ASSUME n >= 1, Code(env, ss[1])  PROVE Code(env, W[n])
  <2> DEFINE T == {k \in Nat : k >= 1 /\ k <= n => Code(env, W[k])}
  <2>1. 0 \in T
    OBVIOUS
  <2>2. ASSUME NEW k \in Nat, k \in T  PROVE k + 1 \in T
    <3> SUFFICES ASSUME k + 1 <= n  PROVE Code(env, W[k + 1])
      OBVIOUS
    <3>1. k \in 0..n /\ k + 1 \in 1..n /\ k <= n /\ (k + 1) - 1 = k /\ W[k + 1] = W[k] ++ ss[k + 1]
      BY <1>0, <1>5
    <3>2. CASE k = 0
      <4>1. W[k + 1] = ss[1]
        BY <1>3, <1>8, <3>1, <3>2, CatLaws DEF Code
      <4> QED  BY <1>8, <4>1
    <3>3. CASE k # 0
      <4>1. Code(env, W[k])
        BY <2>2, <3>1, <3>3
      <4>2. IsSeq(ss[k + 1]) /\ Skips(env, ss[k + 1])
        BY <3>1 DEF Parts, n
      <4> QED  BY <3>1, <4>1, <4>2, CodeCat
    <3> QED  BY <3>2, <3>3
  <2> HIDE DEF T
  <2>3. Nat \subseteq T
    BY <2>1, <2>2, SetInduction
  <2> QED  BY <1>0, <1>8, <2>3 DEF T
<1> QED  BY <1>2, <1>6, <1>7, <1>8 DEF n

\* The witnesses xs, the first on top.
Piles(xs, n, Z) == Z[0] = <<>> /\ \A i \in 1..n : IsSeq(xs[i]) /\ Z[i] = xs[i] ++ Z[i - 1]

LEMMA PilesSeq ==
    ASSUME NEW n \in Nat, NEW xs, NEW Z, Piles(xs, n, Z)
    PROVE  \A i \in 0..n : IsSeq(Z[i])
<1> DEFINE T == {k \in Nat : k <= n => IsSeq(Z[k])}
<1>1. 0 \in T
  BY ShortSeqs DEF Piles
<1>2. ASSUME NEW k \in Nat, k \in T  PROVE k + 1 \in T
  <2> SUFFICES ASSUME k + 1 <= n  PROVE IsSeq(Z[k + 1])
    OBVIOUS
  <2>1. k + 1 \in 1..n /\ k <= n /\ (k + 1) - 1 = k
    OBVIOUS
  <2>2. IsSeq(xs[k + 1]) /\ Z[k + 1] = xs[k + 1] ++ Z[k] /\ IsSeq(Z[k])
    BY <1>2, <2>1 DEF Piles
  <2> QED  BY <2>2, CatLaws
<1> HIDE DEF T
<1>3. Nat \subseteq T
  BY <1>1, <1>2, SetInduction
<1> QED  BY <1>3 DEF T

ThreshInput(cs, n) ==
    CASE \A i \in 1..n : cs[i].input = "Zero" -> "Zero"
      [] \E i \in 1..n : /\ cs[i].input \in C!One
                         /\ \A j \in (1..n) \ {i} : cs[j].input = "Zero" -> "One"
      [] OTHER -> "Any"

LEMMA ThreshFit ==
    ASSUME NEW n \in Nat, NEW cs, NEW oks, NEW xs, NEW Z, Piles(xs, n, Z),
           \A i \in 1..n : Fits(cs[i], oks[i], xs[i]),
           NEW d, NEW ok,
           d.input = ThreshInput(cs, n)
    PROVE  Fits(d, ok, Z[n])
<1>0. \A i \in 0..n : IsSeq(Z[i])
  BY PilesSeq
<1>1. CASE \A i \in 1..n : cs[i].input = "Zero"
  <2>1. d.input = "Zero"
    BY <1>1 DEF ThreshInput, C!One
  <2> DEFINE T == {k \in Nat : k <= n => Z[k] = <<>>}
  <2>2. 0 \in T
    BY DEF Piles
  <2>3. ASSUME NEW k \in Nat, k \in T  PROVE k + 1 \in T
    <3> SUFFICES ASSUME k + 1 <= n  PROVE Z[k + 1] = <<>>
      OBVIOUS
    <3>1. k + 1 \in 1..n /\ k <= n /\ (k + 1) - 1 = k
      OBVIOUS
    <3>2. xs[k + 1] = <<>> /\ Z[k + 1] = xs[k + 1] ++ Z[k] /\ Z[k] = <<>>
      BY <1>1, <2>3, <3>1 DEF Piles, Fits
    <3> QED  BY <3>2, CatLaws
  <2> HIDE DEF T
  <2>4. Nat \subseteq T
    BY <2>2, <2>3, SetInduction
  <2>5. Z[n] = <<>>
    BY <2>4 DEF T
  <2> QED  BY <2>1, <2>5 DEF Fits
<1>2. ASSUME NEW i \in 1..n, cs[i].input \in C!One, \A j \in (1..n) \ {i} : cs[j].input = "Zero"
      PROVE  Fits(d, ok, Z[n])
  <2>1. d.input = "One"
    BY <1>2 DEF ThreshInput, C!One
  <2>2. PICK e : xs[i] = <<e>>
    BY <1>2 DEF Fits, C!One
  <2> DEFINE T == {k \in Nat : k <= n => Z[k] = IF k < i THEN <<>> ELSE xs[i]}
  <2>3. 0 \in T
    BY DEF Piles
  <2>4. ASSUME NEW k \in Nat, k \in T  PROVE k + 1 \in T
    <3> SUFFICES ASSUME k + 1 <= n  PROVE Z[k + 1] = IF k + 1 < i THEN <<>> ELSE xs[i]
      OBVIOUS
    <3>1. k + 1 \in 1..n /\ k <= n /\ (k + 1) - 1 = k
      OBVIOUS
    <3>2. Z[k + 1] = xs[k + 1] ++ Z[k] /\ Z[k] = (IF k < i THEN <<>> ELSE xs[i]) /\ IsSeq(xs[i])
      BY <2>4, <3>1 DEF Piles
    <3>3. CASE k + 1 = i
      <4>1. Z[k] = <<>>
        BY <3>2, <3>3
      <4> QED  BY <3>2, <3>3, <4>1, CatLaws
    <3>4. CASE k + 1 # i
      <4>1. k + 1 \in (1..n) \ {i}
        BY <3>1, <3>4
      <4>2. xs[k + 1] = <<>>
        BY <1>2, <3>1, <4>1 DEF Fits
      <4>3. (k < i) = (k + 1 < i)
        BY <3>4
      <4>4. IsSeq(Z[k])
        BY <1>0, <3>1
      <4>5. Z[k + 1] = Z[k]
        BY <3>2, <4>2, <4>4, CatLaws
      <4> QED  BY <3>2, <4>3, <4>5
    <3> QED  BY <3>3, <3>4
  <2> HIDE DEF T
  <2>5. Nat \subseteq T
    BY <2>3, <2>4, SetInduction
  <2>6. Z[n] = xs[i]
    BY <2>5 DEF T
  <2> QED  BY <2>1, <2>2, <2>6 DEF Fits
<1>3. CASE /\ ~(\A i \in 1..n : cs[i].input = "Zero")
           /\ ~(\E i \in 1..n : /\ cs[i].input \in C!One
                                /\ \A j \in (1..n) \ {i} : cs[j].input = "Zero")
  <2>1. d.input = "Any"
    BY <1>3 DEF ThreshInput
  <2> QED  BY <2>1 DEF Fits
<1> QED  BY <1>1, <1>2, <1>3

\* Every child but the first is followed by an addition.
Adding(subs) == [i \in DOMAIN subs |-> IF i = 1 THEN subs[1] ELSE Append(subs[i], Op("Add"))]

LEMMA AddingParts ==
    ASSUME NEW env, NEW subs, IsSeq(subs), \A i \in 1..Len(subs) : Code(env, subs[i])
    PROVE  /\ Parts(env, Adding(subs)) /\ Len(Adding(subs)) = Len(subs)
           /\ \A i \in 1..Len(subs) : i = 1 => Adding(subs)[i] = subs[1]
           /\ \A i \in 1..Len(subs) : i # 1 => Adding(subs)[i] = subs[i] ++ <<Op("Add")>>
<1> DEFINE n == Len(subs)
           t == <<Op("Add")>>
           f == [i \in 1..n |-> IF i = 1 THEN subs[1] ELSE Append(subs[i], Op("Add"))]
<1>0. n \in Nat /\ DOMAIN subs = 1..n
  BY SeqForm
<1>1. Adding(subs) = f
  BY <1>0 DEF Adding
<1>2. f = [i \in 1..n |-> f[i]]
  OBVIOUS
<1>3. ASSUME NEW i \in 1..n, i # 1  PROVE f[i] = subs[i] ++ t
  <2>1. f[i] = Append(subs[i], Op("Add")) /\ IsSeq(subs[i])
    BY <1>3 DEF Code
  <2> QED  BY <2>1, AppendOn DEF On
<1>4. \A i \in 1..n : i = 1 => f[i] = subs[1]
  OBVIOUS
<1>5. Code(env, t)
  BY CodeOps DEF Plain
<1> HIDE DEF f, t
<1>6. IsSeq(f) /\ Len(f) = n
  BY <1>0, <1>2, FnSeq
<1>7. ASSUME NEW i \in 1..n  PROVE IsSeq(f[i]) /\ Skips(env, f[i])
  <2>1. CASE i = 1
    BY <1>4, <2>1 DEF Code
  <2>2. CASE i # 1
    <3>1. Code(env, subs[i] ++ t)
      BY <1>5, CodeCat DEF Code
    <3> QED  BY <1>3, <2>2, <3>1 DEF Code
  <2> QED  BY <2>1, <2>2
<1> QED  BY <1>1, <1>3, <1>4, <1>6, <1>7 DEF Parts, t

ThreshWorks(env, subs, n, cs, k, d, w) ==
    \A oks, xs, Z :
        LET ok == k = Count({j \in 1..n : oks[j]}, n)
        IN  /\ Piles(xs, n, Z)
            /\ \A i \in 1..n : oks[i] \in BOOLEAN /\ Gives(env, cs[i], subs[i], xs[i], oks[i])
            /\ Fits(d, ok, Z[n])
            => Gives(env, d, w, Z[n], ok)

LEMMA ThreshGives ==
    ASSUME NEW env, NEW subs, IsSeq(subs), NEW n \in Nat, n = Len(subs), n >= 1, NEW cs,
           \A i \in 1..n : Code(env, subs[i]) /\ cs[i].base = (IF i = 1 THEN "B" ELSE "W") /\ cs[i].unit,
           NEW k \in Nat, NEW d, d.base = "B"
    PROVE  LET w == Cat(Adding(subs)) ++ (<<Num(k)>> ++ <<Op("Equal")>>)
           IN  Code(env, w) /\ ThreshWorks(env, subs, n, cs, k, d, w)
<1> DEFINE ss == Adding(subs)
           t1 == <<Num(k)>>
           t2 == <<Op("Equal")>>
           t == t1 ++ t2
           w == Cat(ss) ++ t
           add == <<Op("Add")>>
<1>1. /\ Parts(env, ss) /\ Len(ss) = n
      /\ \A i \in 1..n : i = 1 => ss[i] = subs[1]
      /\ \A i \in 1..n : i # 1 => ss[i] = subs[i] ++ add
  <2>1. \A i \in 1..Len(subs) : Code(env, subs[i])
    OBVIOUS
  <2>2. Parts(env, ss) /\ Len(ss) = Len(subs)
    BY <2>1, AddingParts
  <2>3. \A i \in 1..Len(subs) : i = 1 => ss[i] = subs[1]
    BY <2>1, AddingParts
  <2>4. \A i \in 1..Len(subs) : i # 1 => ss[i] = subs[i] ++ add
    BY <2>1, AddingParts
  <2> QED  BY <2>2, <2>3, <2>4
<1>2. Code(env, t1) /\ Code(env, t2) /\ Code(env, add)
  BY CodeOps DEF Plain
<1>3. Code(env, t)
  BY <1>2, CodeCat DEF Code
<1>4. ASSUME NEW st, NEW m, IsSeq(st)  PROVE Maps(env, t, On(st, number(m)), On(st, truth(number(k) = number(m))))
  <2>1. Maps(env, t1, On(st, number(m)), On(On(st, number(m)), number(k)))
    <3>1. Num(k)[1] = "Num" /\ pushed(Num(k)) = number(k)
      BY DEF pushed, Num
    <3>2. IsSeq(On(st, number(m)))
      BY <1>4, OnLaws
    <3> QED  BY <3>1, <3>2, PushMaps
  <2>2. Maps(env, t2, On(On(st, number(m)), number(k)), On(st, truth(number(k) = number(m))))
    BY <1>4, OpNumbers
  <2> HIDE DEF t1, t2
  <2> QED  BY <1>2, <2>1, <2>2, MapsCat DEF Code
<1>5. \A st, m, l : IsSeq(st) => Maps(env, add, On(On(st, number(m)), number(l)), On(st, number(l + m)))
  BY OpNumbers
<1> HIDE DEF ss, t, add
<1>6. Code(env, w) /\ IsSeq(Cat(ss)) /\ Skips(env, Cat(ss))
  <2>1. Code(env, ss[1])
    BY <1>1
  <2> QED  BY <1>1, <1>3, <2>1, Chain, CodeCat DEF Code
<1>7. ASSUME NEW oks, NEW xs, NEW Z, NEW S, S = {j \in 1..n : oks[j]}, Piles(xs, n, Z),
             \A i \in 1..n : oks[i] \in BOOLEAN /\ Gives(env, cs[i], subs[i], xs[i], oks[i]),
             NEW ok \in BOOLEAN, ok <=> k = Count(S, n), Fits(d, ok, Z[n])
      PROVE  Gives(env, d, w, Z[n], ok)
  <2>0. \A i \in 0..n : IsSeq(Z[i])
    BY <1>7, PilesSeq
  <2>1. PICK W : CatArray(ss, W)
    BY <1>1, CatArrayExists DEF Parts
  <2>2. Cat(ss) = W[n] /\ (\A i \in 0..n : IsSeq(W[i])) /\ W[0] = <<>> /\ \A i \in 1..n : W[i] = W[i - 1] ++ ss[i]
    <3>1. IsSeq(ss) /\ Len(ss) = n /\ \A i \in 1..Len(ss) : IsSeq(ss[i])
      BY <1>1 DEF Parts
    <3>2. Cat(ss) = W[Len(ss)]
      BY <2>1, <3>1, CatIs
    <3>3. \A i \in 0..Len(ss) : IsSeq(W[i])
      BY <2>1, <3>1, CatArraySeqs
    <3>4. W[0] = <<>> /\ \A i \in 1..Len(ss) : W[i] = W[i - 1] ++ ss[i]
      BY <2>1 DEF CatArray
    <3> QED  BY <3>1, <3>2, <3>3, <3>4, Zenon
  <2> DEFINE T == {q \in Nat : 1 <= q /\ q <= n =>
                        \A st : IsSeq(st) => Maps(env, W[q], st ++ Z[q], On(st, number(Count(S, q))))}
  <2>3. 0 \in T
    OBVIOUS
  <2>4. ASSUME NEW q \in Nat, q \in T  PROVE q + 1 \in T
    <3> SUFFICES ASSUME q + 1 <= n, NEW st, IsSeq(st)
                 PROVE  Maps(env, W[q + 1], st ++ Z[q + 1], On(st, number(Count(S, q + 1))))
      OBVIOUS
    <3>1. q + 1 \in 1..n /\ q <= n /\ (q + 1) - 1 = q /\ q \in 0..n /\ q + 1 \in 0..n
      OBVIOUS
    <3>2. W[q + 1] = W[q] ++ ss[q + 1] /\ IsSeq(W[q]) /\ Z[q + 1] = xs[q + 1] ++ Z[q] /\ IsSeq(xs[q + 1]) /\ IsSeq(Z[q])
      BY <1>7, <2>0, <2>2, <3>1 DEF Piles
    <3> DEFINE b == IF oks[q + 1] THEN 1 ELSE 0
    <3>3. Count(S, q + 1) = Count(S, q) + b /\ Count(S, q) \in Nat /\ b \in Nat
      <4>1. (q + 1 \in S) = oks[q + 1]
        BY <1>7, <3>1
      <4> QED  BY <4>1, CountLaws
    <3>4. Gives(env, cs[q + 1], subs[q + 1], xs[q + 1], oks[q + 1]) /\ cs[q + 1].unit /\ Code(env, subs[q + 1])
      BY <1>7, <3>1
    <3>5. \A m : Value(cs[q + 1], oks[q + 1], m) => m = b
      BY <1>7, <3>1, <3>4 DEF Value
    <3> HIDE DEF b
    <3>6. CASE q = 0
      <4>1. Z[q + 1] = xs[q + 1] /\ W[q + 1] = subs[1] /\ q + 1 = 1
        <5>1. Z[q] = <<>> /\ W[q] = <<>> /\ ss[q + 1] = subs[1] /\ IsSeq(subs[1])
          BY <1>1, <1>7, <2>2, <3>1, <3>4, <3>6 DEF Piles, Code
        <5> QED  BY <3>2, <3>6, <5>1, CatLaws
      <4>2. \E m : Value(cs[1], oks[1], m) /\ \A z : IsSeq(z) => Maps(env, subs[1], z ++ xs[1], On(z, number(m)))
        BY <3>1, <3>4, <3>6 DEF Gives, Ends, EndsB
      <4>3. Maps(env, subs[1], st ++ xs[1], On(st, number(b)))
        BY <3>5, <3>6, <4>2
      <4>4. Count(S, q + 1) = b
        BY <3>3, <3>6, CountLaws
      <4> QED  BY <3>6, <4>1, <4>3, <4>4
    <3>7. CASE q # 0
      <4>1. ss[q + 1] = subs[q + 1] ++ add /\ cs[q + 1].base = "W"
        BY <1>1, <3>1, <3>7
      <4>2. PICK m : /\ Value(cs[q + 1], oks[q + 1], m)
                     /\ Over(env, subs[q + 1], xs[q + 1], m) \/ Under(env, subs[q + 1], xs[q + 1], m)
        BY <3>4, <4>1 DEF Gives, Ends, EndsW
      <4>3. m = b
        BY <3>5, <4>2
      <4> DEFINE z == st ++ xs[q + 1]
                 c == Count(S, q)
      <4>4. IsSeq(z) /\ st ++ Z[q + 1] = z ++ Z[q]
        BY <3>2, CatLaws
      <4>5. Maps(env, W[q], z ++ Z[q], On(z, number(c)))
        BY <2>4, <3>1, <3>7, <4>4
      <4>6. Maps(env, ss[q + 1], On(z, number(c)), On(st, number(c + b)))
        <5>1. CASE Over(env, subs[q + 1], xs[q + 1], m)
          <6>1. Maps(env, subs[q + 1], On(z, number(c)), On(On(st, number(c)), number(b)))
            BY <4>3, <5>1 DEF Over
          <6>2. Maps(env, add, On(On(st, number(c)), number(b)), On(st, number(b + c)))
            BY <1>5
          <6>3. b + c = c + b
            BY <3>3
          <6> QED  BY <1>2, <3>4, <4>1, <6>1, <6>2, <6>3, MapsCat DEF Code
        <5>2. CASE Under(env, subs[q + 1], xs[q + 1], m)
          <6>1. Maps(env, subs[q + 1], On(z, number(c)), On(On(st, number(b)), number(c)))
            BY <4>3, <5>2 DEF Under
          <6>2. Maps(env, add, On(On(st, number(b)), number(c)), On(st, number(c + b)))
            BY <1>5
          <6> QED  BY <1>2, <3>4, <4>1, <6>1, <6>2, MapsCat DEF Code
        <5> QED  BY <4>2, <5>1, <5>2
      <4>7. IsSeq(ss[q + 1])
        BY <1>1, <3>1 DEF Parts
      <4> HIDE DEF z, c
      <4>8. Maps(env, W[q + 1], st ++ Z[q + 1], On(st, number(c + b)))
        BY <3>2, <4>4, <4>5, <4>6, <4>7, MapsCat
      <4> QED  BY <3>3, <4>8 DEF c
    <3> QED  BY <3>6, <3>7
  <2> HIDE DEF T
  <2>5. Nat \subseteq T
    BY <2>3, <2>4, SetInduction
  <2>6. \A st : IsSeq(st) => Maps(env, Cat(ss), st ++ Z[n], On(st, number(Count(S, n))))
    BY <2>2, <2>5 DEF T
  <2> DEFINE v == IF ok THEN 1 ELSE 0
  <2>7. truth(number(k) = number(Count(S, n))) = number(v)
    <3>1. (number(k) = number(Count(S, n))) <=> ok
      BY <1>7 DEF number
    <3> QED  BY <3>1 DEF truth
  <2>8. Value(d, ok, v)
    BY DEF Value
  <2> HIDE DEF v
  <2>9. ASSUME NEW st, IsSeq(st)  PROVE Maps(env, w, st ++ Z[n], On(st, number(v)))
    <3>1. Maps(env, Cat(ss), st ++ Z[n], On(st, number(Count(S, n))))
      BY <2>6, <2>9
    <3>2. Maps(env, t, On(st, number(Count(S, n))), On(st, number(v)))
      BY <1>4, <2>7, <2>9
    <3> QED  BY <1>3, <1>6, <3>1, <3>2, MapsCat DEF Code
  <2> HIDE DEF w
  <2>10. EndsB(env, d, w, Z[n], ok)
    BY <2>8, <2>9 DEF EndsB
  <2>11. IsSeq(Z[n])
    BY <2>0
  <2> QED  BY <1>7, <2>10, <2>11 DEF Gives, Ends
<1> HIDE DEF w
<1>8. ASSUME NEW oks, NEW xs, NEW Z
      PROVE  LET ok == k = Count({j \in 1..n : oks[j]}, n)
             IN  /\ Piles(xs, n, Z)
                 /\ \A i \in 1..n : oks[i] \in BOOLEAN /\ Gives(env, cs[i], subs[i], xs[i], oks[i])
                 /\ Fits(d, ok, Z[n])
                 => Gives(env, d, w, Z[n], ok)
  <2> DEFINE S == {j \in 1..n : oks[j]}
             ok == k = Count(S, n)
  <2>1. ok \in BOOLEAN
    OBVIOUS
  <2>2. S = {j \in 1..n : oks[j]}
    OBVIOUS
  <2> HIDE DEF S
  <2>3. ok <=> k = Count(S, n)
    OBVIOUS
  <2> HIDE DEF ok
  <2>4. /\ Piles(xs, n, Z)
        /\ \A i \in 1..n : oks[i] \in BOOLEAN /\ Gives(env, cs[i], subs[i], xs[i], oks[i])
        /\ Fits(d, ok, Z[n])
        => Gives(env, d, w, Z[n], ok)
    <3> SUFFICES ASSUME Piles(xs, n, Z), Fits(d, ok, Z[n]),
                        \A i \in 1..n : oks[i] \in BOOLEAN /\ Gives(env, cs[i], subs[i], xs[i], oks[i])
                 PROVE  Gives(env, d, w, Z[n], ok)
      OBVIOUS
    <3> QED  BY <1>7, <2>1, <2>2, <2>3
  <2> QED  BY <2>4 DEF ok, S
<1> QED  BY <1>6, <1>8 DEF ThreshWorks, w, ss, t

-----------------------------------------------------------------------------
(* Signatures of several keys. *)

\* The stack st with the arguments of CHECKMULTISIG on top: 0, the
\* signatures, their number, the keys and their number.
MultisigStack(S, st, k, sigs, n, keys) ==
    /\ IsSeq(S) /\ IsSeq(st) /\ k \in Nat /\ n \in Nat
    /\ Len(S) = Len(st) + n + k + 3
    /\ \A i \in 1..Len(st) : S[i] = st[i]
    /\ S[Len(st) + 1] = number(0)
    /\ \A i \in 1..k : S[Len(st) + 1 + i] = sigs[i]
    /\ S[Len(st) + k + 2] = number(k)
    /\ \A i \in 1..n : S[Len(st) + k + 2 + i] = <<"key", keys[i]>>
    /\ S[Len(st) + n + k + 3] = number(n)

\* The signatures are made with the keys f[1] < f[2] < ...
Signed(sigs, k, keys, n, f) ==
    /\ f \in [1..k -> 1..n]
    /\ \A i, j \in 1..k : i < j => f[i] < f[j]
    /\ \A i \in 1..k : sigs[i] = <<"sig", keys[f[i]]>>

LEMMA MultisigDone ==
    ASSUME NEW env, NEW S, NEW st, NEW k, NEW sigs, NEW n, NEW keys, NEW ok \in BOOLEAN,
           MultisigStack(S, st, k, sigs, n, keys),
           ok => \E f : Signed(sigs, k, keys, n, f),
           ~ok => k >= 1 /\ \A i \in 1..k : sigs[i] = number(0)
    PROVE  Maps(env, <<Op("CheckMultiSig")>>, S, On(st, truth(ok)))
<1> SUFFICES ASSUME NEW alt, NEW conds, IsSeq(alt), Live(conds)
             PROVE  Does(env, <<Op("CheckMultiSig")>>, St(S, alt, conds), St(On(st, truth(ok)), alt, conds))
  BY DEF Maps
<1> DEFINE r == St(S, alt, conds)
           L == Len(st)
           q == St(On(st, truth(ok)), alt, conds)
<1>1. /\ k \in Nat /\ n \in Nat /\ L \in Nat /\ Len(S) = L + n + k + 3 /\ r.stack = S
      /\ IsSeq(S) /\ IsSeq(st)
  BY SeqForm DEF MultisigStack, St
<1>2. ASSUME NEW i \in 1..(n + k + 3)
      PROVE  Nth(r, i) = S[L + n + k + 4 - i]
  <2>1. Len(r.stack) + 1 - i = L + n + k + 4 - i
    BY <1>1
  <2> HIDE DEF r, L
  <2> QED  BY <1>1, <2>1 DEF Nth
<1>3. Nth(r, 1) = number(n) /\ Nth(r, n + 2) = number(k) /\ Nth(r, n + k + 3) = number(0)
  <2>1. 1 \in 1..(n + k + 3) /\ n + 2 \in 1..(n + k + 3) /\ n + k + 3 \in 1..(n + k + 3)
        /\ L + n + k + 4 - 1 = L + n + k + 3 /\ L + n + k + 4 - (n + 2) = L + k + 2
        /\ L + n + k + 4 - (n + k + 3) = L + 1
    BY <1>1
  <2>2. S[L + 1] = number(0) /\ S[L + k + 2] = number(k) /\ S[L + n + k + 3] = number(n)
    BY DEF MultisigStack
  <2> HIDE DEF r, L
  <2>3. Nth(r, 1) = S[L + n + k + 4 - 1] /\ Nth(r, n + 2) = S[L + n + k + 4 - (n + 2)]
        /\ Nth(r, n + k + 3) = S[L + n + k + 4 - (n + k + 3)]
    BY <1>2, <2>1
  <2> QED  BY <2>1, <2>2, <2>3
<1>4. \A i \in 1..n : Nth(r, n + 2 - i) = <<"key", keys[i]>>
  <2> TAKE i \in 1..n
  <2>1. n + 2 - i \in 1..(n + k + 3) /\ L + n + k + 4 - (n + 2 - i) = L + k + 2 + i
    BY <1>1
  <2>2. S[L + k + 2 + i] = <<"key", keys[i]>>
    BY DEF MultisigStack
  <2> HIDE DEF r, L
  <2> QED  BY <1>2, <2>1, <2>2
<1>5. \A i \in 1..k : Nth(r, n + k + 3 - i) = sigs[i]
  <2> TAKE i \in 1..k
  <2>1. n + k + 3 - i \in 1..(n + k + 3) /\ L + n + k + 4 - (n + k + 3 - i) = L + 1 + i
    BY <1>1
  <2>2. S[L + 1 + i] = sigs[i]
    BY DEF MultisigStack
  <2> HIDE DEF r, L
  <2> QED  BY <1>2, <2>1, <2>2
<1> DEFINE ks == [i \in 1..n |-> Nth(r, n + 2 - i)]
           ss == [i \in 1..k |-> Nth(r, n + k + 3 - i)]
<1>6. DOMAIN ks = 1..n /\ DOMAIN ss = 1..k /\ (\A i \in 1..n : ks[i] = <<"key", keys[i]>>)
      /\ \A i \in 1..k : ss[i] = sigs[i]
  BY <1>4, <1>5
<1>7. Cut(S, n + k + 3) = st
  <2>1. Len(S) - (n + k + 3) = L
    BY <1>1
  <2> DEFINE y == SubSeq(S, 1, L)
             T == {S[i] : i \in DOMAIN S}
  <2>2. S \in Seq(T)
    BY <1>1 DEF IsSeq
  <2> HIDE DEF T
  <2>3. y \in Seq(T) /\ Len(y) = L /\ \A i \in 1..L : y[i] = S[i]
    BY <1>1, <2>2
  <2>4. IsSeq(y)
    BY <2>3, SeqIsSeq
  <2>5. \A i \in 1..L : y[i] = st[i]
    BY <2>3 DEF MultisigStack
  <2>6. y = st
    <3> HIDE DEF y
    <3> QED  BY <1>1, <2>3, <2>4, <2>5, SeqEq
  <2> HIDE DEF L
  <2> QED  BY <2>1, <2>6 DEF Cut
<1>8. Replace(r, n + k + 3, <<truth(ok)>>) = q
  <2>1. Replace(r, n + k + 3, <<truth(ok)>>) = St(Cut(S, n + k + 3) ++ <<truth(ok)>>, alt, conds)
    BY ReplaceIs DEF r
  <2> QED  BY <1>7, <2>1, Zenon DEF On, q
<1>9. Need(r, n + k + 3, env.avail) = {r}
  <2>1. n + k + 3 \in Nat /\ Len(r.stack) \in Nat /\ Len(r.stack) >= n + k + 3
    BY <1>1
  <2> HIDE DEF r
  <2> QED  BY <2>1, Enough
<1> HIDE DEF ks, ss
<1>10. multisig_ok(ss, ks) <=> ok
  <2>1. CASE ok
    <3>1. PICK f : Signed(sigs, k, keys, n, f)
      BY <2>1
    <3>2. \A i \in 1..k : sig_ok(ss[i], ks[f[i]])
      <4> TAKE i \in 1..k
      <4>1. f[i] \in 1..n /\ sigs[i] = <<"sig", keys[f[i]]>>
        BY <3>1 DEF Signed
      <4>2. ks[f[i]] = <<"key", keys[f[i]]>> /\ ss[i] = <<"sig", keys[f[i]]>>
        BY <1>6, <4>1
      <4> QED  BY <4>2 DEF sig_ok
    <3>3. f \in [DOMAIN ss -> DOMAIN ks] /\ \A i, j \in DOMAIN ss : i < j => f[i] < f[j]
      BY <1>6, <3>1 DEF Signed
    <3>4. multisig_ok(ss, ks)
      BY <1>6, <3>2, <3>3, Zenon DEF multisig_ok
    <3> QED  BY <2>1, <3>4
  <2>2. CASE ~ok
    <3>1. 1 \in 1..k /\ sigs[1] = number(0)
      BY <1>1, <2>2
    <3>2. ss[1] = <<"num", 0>> /\ 1 \in DOMAIN ss
      BY <1>6, <3>1 DEF number
    <3>3. \A key : ~sig_ok(ss[1], key)
      BY <3>2 DEF sig_ok
    <3>4. ~multisig_ok(ss, ks)
      BY <3>2, <3>3 DEF multisig_ok
    <3> QED  BY <2>2, <3>4
  <2> QED  BY <2>1, <2>2
<1>11. multisig_ok(ss, ks) \/ \A i \in 1..k : ss[i] = number(0)
  BY <1>6, <1>10
<1>12. When(/\ Nth(r, n + k + 3) = number(0)
            /\ multisig_ok(ss, ks) \/ \A i \in 1..k : ss[i] = number(0),
            Replace(r, n + k + 3, <<truth(multisig_ok(ss, ks))>>)) = {q}
  <2>1. truth(multisig_ok(ss, ks)) = truth(ok)
    BY <1>10 DEF truth
  <2> HIDE DEF r, q
  <2> QED  BY <1>3, <1>8, <1>11, <2>1, Zenon DEF When
<1>13. q \in exec_multisig(r, env.avail)
  <2>1. Nth(r, 1)[2] = n /\ Nth(r, n + 2)[2] = k
    BY <1>3 DEF number
  <2> DEFINE Keys1(a, s) == [i \in 1..a |-> Nth(s, a + 2 - i)]
             Sigs1(a, b, s) == [i \in 1..b |-> Nth(s, a + b + 3 - i)]
             After1(a, b, s) ==
                When(/\ Nth(s, a + b + 3) = number(0)
                     /\ \/ multisig_ok(Sigs1(a, b, s), Keys1(a, s))
                        \/ \A i \in 1..b : Sigs1(a, b, s)[i] = number(0),
                     Replace(s, a + b + 3, <<truth(multisig_ok(Sigs1(a, b, s), Keys1(a, s)))>>))
             n1 == Nth(r, 1)[2]
             k1 == Nth(r, n1 + 2)[2]
  <2>2. exec_multisig(r, env.avail) = UNION {After1(n1, k1, s) : s \in Need(r, n1 + k1 + 3, env.avail)}
    BY DEF exec_multisig
  <2>3. n1 = n /\ k1 = k
    <3> HIDE DEF r
    <3> QED  BY <2>1
  <2>4. Sigs1(n, k, r) = ss /\ Keys1(n, r) = ks
    BY DEF ks, ss
  <2> HIDE DEF r, q, Keys1, Sigs1, n1, k1
  <2>5. After1(n, k, r) = {q}
    BY <1>12, <2>4
  <2> HIDE DEF After1
  <2>6. exec_multisig(r, env.avail) = UNION {After1(n, k, s) : s \in Need(r, n + k + 3, env.avail)}
    BY <2>2, <2>3
  <2>7. r \in Need(r, n + k + 3, env.avail) /\ q \in After1(n, k, r)
    BY <1>9, <2>5
  <2> QED  BY <2>6, <2>7
<1>14. IsRun(r) /\ IsRun(q)
  BY <1>1, StRun, OnLaws DEF Live
<1>15. \A i \in DOMAIN r.conds : r.conds[i]
  BY DEF Live, St
<1>16. q \in exec_ins(Op("CheckMultiSig"), r, env)
  <2> HIDE DEF r, q
  <2> QED  BY <1>13, <1>15 DEF exec_ins, Op
<1> QED  BY <1>14, <1>16, DoesOne DEF r, q

LEMMA KeyPushed ==
    ASSUME NEW key \in Keys
    PROVE  /\ PushKey(key)[1] \in {"Bytes32", "Bytes33", "Bytes65"}
           /\ pushed(PushKey(key)) = <<"key", key>>
<1> DEFINE op == CASE Ctx = "Tap" -> "Bytes32"
                   [] Ctx # "Tap" /\ key \in Uncompressed -> "Bytes65"
                   [] OTHER -> "Bytes33"
<1>1. PushKey(key) = <<op, key>>
  BY DEF PushKey
<1>2. op \in {"Bytes32", "Bytes33", "Bytes65"}
  OBVIOUS
<1> HIDE DEF op
<1>3. PushKey(key)[1] = op /\ PushKey(key)[2] = key
  BY <1>1
<1>4. op # "Num" /\ op # "Hash20"
  BY <1>2
<1> QED  BY <1>2, <1>3, <1>4 DEF pushed

(* Pushing keys.                                                            *)
LEMMA PushKeys ==
    ASSUME NEW env, NEW st, IsSeq(st), NEW args, IsSeq(args), \A i \in 1..Len(args) : args[i] \in Keys
    PROVE  LET keys == [i \in 1..Len(args) |-> <<PushKey(args[i])>>]
               on == [i \in 1..Len(args) |-> <<"key", args[i]>>]
           IN  /\ Parts(env, keys) /\ Len(keys) = Len(args)
               /\ Maps(env, Cat(keys), st, st ++ Upto(on, Len(args)))
<1> DEFINE n == Len(args)
           keys == [i \in 1..n |-> <<PushKey(args[i])>>]
           on == [i \in 1..n |-> <<"key", args[i]>>]
           X == [i \in 0..n |-> st ++ Upto(on, i)]
<1>0. n \in Nat
  BY SeqForm
<1>1. IsSeq(keys) /\ Len(keys) = n /\ \A i \in 1..n : keys[i] = <<PushKey(args[i])>>
  <2> DEFINE f == [i \in 1..n |-> <<PushKey(args[i])>>]
  <2>1. keys = [i \in 1..n |-> f[i]]
    OBVIOUS
  <2>2. IsSeq(keys) /\ Len(keys) = n
    <3> HIDE DEF f
    <3>1. LET s == [i \in 1..n |-> f[i]] IN IsSeq(s) /\ Len(s) = n
      BY <1>0, FnIsSeq
    <3> HIDE DEF keys
    <3> QED  BY <2>1, <3>1
  <2> QED  BY <2>2
<1>2. Parts(env, keys)
  <2>1. \A i \in 1..n : IsSeq(<<PushKey(args[i])>>) /\ Skips(env, <<PushKey(args[i])>>)
    BY CodeOps DEF Code
  <2> HIDE DEF keys
  <2> QED  BY <1>1, <2>1 DEF Parts
<1>3. X[0] = st /\ X[n] = st ++ Upto(on, n)
  <2> HIDE DEF on, n
  <2>1. X[0] = st ++ Upto(on, 0) /\ X[n] = st ++ Upto(on, n)
    BY <1>0
  <2>2. Upto(on, 0) = <<>>
    BY Grow
  <2>3. st ++ <<>> = st
    BY OnLaws
  <2> QED  BY <2>1, <2>2, <2>3
<1>4. Steps(env, keys, X)
  <2> SUFFICES ASSUME NEW i \in 1..n  PROVE Maps(env, keys[i], X[i - 1], X[i])
    BY <1>1 DEF Steps
  <2>1. i - 1 \in Nat /\ i - 1 \in 0..n /\ i \in 0..n /\ (i - 1) + 1 = i
    BY <1>0
  <2>2. on[i] = <<"key", args[i]>>
    OBVIOUS
  <2>3. args[i] \in Keys
    OBVIOUS
  <2> DEFINE U == Upto(on, i - 1)
             V == Upto(on, i)
  <2>4. X[i - 1] = st ++ U /\ X[i] = st ++ V
    BY <2>1
  <2> HIDE DEF on, X, n
  <2>5. IsSeq(U)
    BY <2>1, Grow
  <2>6. V = On(U, on[i])
    <3>1. Upto(on, (i - 1) + 1) = On(Upto(on, i - 1), on[(i - 1) + 1])
      BY <2>1, Grow
    <3> QED  BY <2>1, <3>1
  <2> HIDE DEF U, V
  <2>7. X[i] = On(st ++ U, <<"key", args[i]>>)
    BY <2>2, <2>4, <2>5, <2>6, OnLaws
  <2>8. PushKey(args[i])[1] \in {"Num", "Hash20", "Bytes32", "Bytes33", "Bytes65"}
        /\ pushed(PushKey(args[i])) = <<"key", args[i]>>
    BY <2>3, KeyPushed
  <2>9. IsSeq(st ++ U)
    BY <2>5, CatLaws
  <2>10. Maps(env, <<PushKey(args[i])>>, st ++ U, On(st ++ U, pushed(PushKey(args[i]))))
    BY <2>8, <2>9, PushMaps
  <2> QED  BY <1>1, <2>4, <2>7, <2>8, <2>10 DEF n
<1> HIDE DEF keys, on, X
<1>5. Maps(env, Cat(keys), X[0], X[Len(keys)])
  BY <1>2, <1>3, <1>4, Chain
<1>6. Maps(env, Cat(keys), st, st ++ Upto(on, n))
  BY <1>1, <1>3, <1>5
<1> QED  BY <1>1, <1>2, <1>6 DEF keys, on

LEMMA MultiMaps ==
    ASSUME NEW env, NEW args, IsSeq(args), \A i \in 1..Len(args) : args[i] \in Keys,
           NEW k \in Nat, NEW sigs, IsSeq(sigs), Len(sigs) = k, NEW ok \in BOOLEAN,
           ok => \E f : Signed(sigs, k, args, Len(args), f),
           ~ok => k >= 1 /\ \A i \in 1..k : sigs[i] = number(0),
           NEW st, IsSeq(st)
    PROVE  LET keys == [i \in 1..Len(args) |-> <<PushKey(args[i])>>]
           IN  Maps(env, <<Num(k)>> ++ Cat(keys) ++ (<<Num(Len(args))>> ++ <<Op("CheckMultiSig")>>),
                    st ++ (<<number(0)>> ++ sigs), On(st, truth(ok)))
<1> DEFINE n == Len(args)
           L == Len(st)
           keys == [i \in 1..n |-> <<PushKey(args[i])>>]
           on == [i \in 1..n |-> <<"key", args[i]>>]
           x == <<number(0)>> ++ sigs
           A == st ++ x
           B == On(A, number(k))
           P == Upto(on, n)
           D == B ++ P
           S == On(D, number(n))
<1>0. n \in Nat /\ L \in Nat
  BY SeqForm
<1>1. /\ IsSeq(x) /\ Len(x) = k + 1 /\ x[1] = number(0)
      /\ \A i \in 1..k : x[1 + i] = sigs[i]
  <2> DEFINE z == <<number(0)>>
  <2>1. IsSeq(z) /\ Len(z) = 1 /\ z[1] = number(0)
    BY ShortSeqs
  <2> HIDE DEF z
  <2>2. CatShape(z, sigs, z ++ sigs) /\ IsSeq(z ++ sigs)
    BY <2>1, CatElems, CatLaws
  <2>3. 1 \in 1..1
    OBVIOUS
  <2>4. IsSeq(z ++ sigs) /\ Len(z ++ sigs) = k + 1 /\ (z ++ sigs)[1] = number(0)
        /\ \A i \in 1..k : (z ++ sigs)[1 + i] = sigs[i]
    BY <2>1, <2>2, <2>3 DEF CatShape
  <2> QED  BY <2>4 DEF z
<1> HIDE DEF x
<1>2. IsSeq(A) /\ Len(A) = L + k + 1 /\ (\A i \in 1..L : A[i] = st[i]) /\ A[L + 1] = number(0)
      /\ \A i \in 1..k : A[L + 1 + i] = sigs[i]
  <2>1. CatShape(st, x, A) /\ IsSeq(A)
    BY <1>1, CatElems, CatLaws
  <2>2. \A i \in 1..k : 1 + i \in 1..Len(x) /\ L + (1 + i) = L + 1 + i
    BY <1>0, <1>1
  <2>3. 1 \in 1..Len(x) /\ L + (k + 1) = L + k + 1
    BY <1>0, <1>1
  <2> HIDE DEF A
  <2>4. \A i \in 1..k : A[L + 1 + i] = sigs[i]
    <3> TAKE i \in 1..k
    <3>1. A[L + (1 + i)] = x[1 + i]
      BY <2>1, <2>2 DEF CatShape
    <3> QED  BY <1>1, <2>2, <3>1
  <2> QED  BY <1>0, <1>1, <2>1, <2>3, <2>4 DEF CatShape
<1> HIDE DEF A
<1>3. IsSeq(B) /\ Len(B) = L + k + 2 /\ (\A i \in 1..(L + k + 1) : B[i] = A[i]) /\ B[L + k + 2] = number(k)
  <2>1. L + k + 1 + 1 = L + k + 2
    BY <1>0
  <2> QED  BY <1>2, <2>1, OnLaws, OnElems
<1> HIDE DEF B
<1>4. IsSeq(P) /\ Len(P) = n /\ \A i \in 1..n : P[i] = <<"key", args[i]>>
  <2>1. \A i \in 1..n : on[i] = <<"key", args[i]>>
    OBVIOUS
  <2> HIDE DEF on
  <2> QED  BY <1>0, <2>1, Grow
<1> HIDE DEF P
<1>5. /\ IsSeq(D) /\ Len(D) = L + n + k + 2
      /\ \A i \in 1..(L + k + 2) : D[i] = B[i]
      /\ \A i \in 1..n : D[L + k + 2 + i] = <<"key", args[i]>>
  <2>1. CatShape(B, P, D) /\ IsSeq(D)
    BY <1>3, <1>4, CatElems, CatLaws
  <2>2. L + k + 2 + n = L + n + k + 2
    BY <1>0
  <2> HIDE DEF D
  <2> QED  BY <1>3, <1>4, <2>1, <2>2 DEF CatShape
<1> HIDE DEF D
<1>6. IsSeq(S) /\ Len(S) = L + n + k + 3 /\ (\A i \in 1..(L + n + k + 2) : S[i] = D[i]) /\ S[L + n + k + 3] = number(n)
  <2>1. L + n + k + 2 + 1 = L + n + k + 3
    BY <1>0
  <2> HIDE DEF L, n
  <2>2. IsSeq(S) /\ Len(S) = Len(D) + 1
    BY <1>5, OnLaws
  <2>3. S[Len(D) + 1] = number(n) /\ \A i \in 1..Len(D) : S[i] = D[i]
    BY <1>5, OnElems
  <2> HIDE DEF S
  <2> QED  BY <1>5, <2>1, <2>2, <2>3
<1> HIDE DEF S
<1>7. MultisigStack(S, st, k, sigs, n, args)
  <2>1. \A i \in 1..(L + k + 1) : S[i] = A[i]
    <3>1. \A i \in 1..(L + k + 1) : i \in 1..(L + n + k + 2) /\ i \in 1..(L + k + 2)
      BY <1>0
    <3> QED  BY <1>3, <1>5, <1>6, <3>1
  <2>2. (\A i \in 1..L : S[i] = st[i]) /\ S[L + 1] = number(0)
    <3>1. (\A i \in 1..L : i \in 1..(L + k + 1)) /\ L + 1 \in 1..(L + k + 1)
      BY <1>0
    <3> QED  BY <1>2, <2>1, <3>1
  <2>3. \A i \in 1..k : S[L + 1 + i] = sigs[i]
    <3>1. \A i \in 1..k : L + 1 + i \in 1..(L + k + 1)
      BY <1>0
    <3> QED  BY <1>2, <2>1, <3>1
  <2>4. S[L + k + 2] = number(k)
    <3>1. L + k + 2 \in 1..(L + n + k + 2) /\ L + k + 2 \in 1..(L + k + 2)
      BY <1>0
    <3> QED  BY <1>3, <1>5, <1>6, <3>1
  <2>5. \A i \in 1..n : S[L + k + 2 + i] = <<"key", args[i]>>
    <3>1. \A i \in 1..n : L + k + 2 + i \in 1..(L + n + k + 2)
      BY <1>0
    <3> QED  BY <1>5, <1>6, <3>1
  <2> QED  BY <1>0, <1>6, <2>2, <2>3, <2>4, <2>5 DEF MultisigStack
<1>8. Maps(env, <<Num(k)>>, A, B)
  <2>1. Num(k)[1] = "Num" /\ pushed(Num(k)) = number(k)
    BY DEF Num, pushed
  <2>2. Maps(env, <<Num(k)>>, A, On(A, pushed(Num(k))))
    BY <1>2, <2>1, PushMaps
  <2> QED  BY <2>1, <2>2 DEF B
<1>9. Parts(env, keys) /\ Maps(env, Cat(keys), B, D)
  <2>1. LET w == [i \in 1..Len(args) |-> <<PushKey(args[i])>>]
            o == [i \in 1..Len(args) |-> <<"key", args[i]>>]
        IN  Parts(env, w) /\ Maps(env, Cat(w), B, B ++ Upto(o, Len(args)))
    BY <1>3, PushKeys
  <2> QED  BY <2>1 DEF D, P
<1>10. Maps(env, <<Num(n)>>, D, S)
  <2>1. Num(n)[1] = "Num" /\ pushed(Num(n)) = number(n)
    BY DEF Num, pushed
  <2> HIDE DEF n
  <2>2. Maps(env, <<Num(n)>>, D, On(D, pushed(Num(n))))
    BY <1>5, <2>1, PushMaps
  <2> QED  BY <2>1, <2>2 DEF S
<1>11. Maps(env, <<Op("CheckMultiSig")>>, S, On(st, truth(ok)))
  <2> HIDE DEF L
  <2> QED  BY <1>7, MultisigDone
<1>12. IsSeq(Cat(keys))
  BY <1>9, Chain
<1> DEFINE c == Cat(keys)
           p == <<Num(k)>>
           q == <<Num(n)>>
           m == <<Op("CheckMultiSig")>>
<1>13. IsSeq(p) /\ IsSeq(q) /\ IsSeq(m)
  BY ShortSeqs
<1>14. Maps(env, p, A, B) /\ Maps(env, c, B, D) /\ Maps(env, q, D, S) /\ Maps(env, m, S, On(st, truth(ok)))
  BY <1>8, <1>9, <1>10, <1>11
<1>15. IsSeq(c)
  BY <1>12
<1> HIDE DEF c, p, q, m
<1>16. Maps(env, p ++ c, A, D) /\ IsSeq(p ++ c)
  BY <1>13, <1>14, <1>15, MapsCat, CatLaws
<1>17. Maps(env, q ++ m, D, On(st, truth(ok))) /\ IsSeq(q ++ m)
  BY <1>13, <1>14, MapsCat, CatLaws
<1>18. Maps(env, p ++ c ++ (q ++ m), A, On(st, truth(ok)))
  BY <1>16, <1>17, MapsCat
<1> QED  BY <1>18 DEF p, q, m, c, A, x

(* Multi: a dummy 0 and the signatures.                                     *)
LEMMA MultiGives ==
    ASSUME NEW env, NEW args, IsSeq(args), \A i \in 1..Len(args) : args[i] \in Keys,
           NEW k \in Nat, k >= 1, NEW d, d.base = "B", d.input = "AnyNonZero"
    PROVE  LET keys == [i \in 1..Len(args) |-> <<PushKey(args[i])>>]
               w == <<Num(k)>> ++ Cat(keys) ++ (<<Num(Len(args))>> ++ <<Op("CheckMultiSig")>>)
           IN  /\ Code(env, w)
               /\ \A sigs : /\ IsSeq(sigs) /\ Len(sigs) = k
                            /\ \E f : Signed(sigs, k, args, Len(args), f)
                            => Gives(env, d, w, <<number(0)>> ++ sigs, TRUE)
               /\ \A sigs : /\ IsSeq(sigs) /\ Len(sigs) = k
                            /\ \A i \in 1..k : sigs[i] = number(0)
                            => Gives(env, d, w, <<number(0)>> ++ sigs, FALSE)
<1> DEFINE n == Len(args)
           keys == [i \in 1..n |-> <<PushKey(args[i])>>]
           w == <<Num(k)>> ++ Cat(keys) ++ (<<Num(n)>> ++ <<Op("CheckMultiSig")>>)
<1>1. Code(env, w)
  <2>1. Parts(env, keys)
    <3>1. IsSeq(<<>>)
      BY ShortSeqs
    <3>2. LET v == [i \in 1..Len(args) |-> <<PushKey(args[i])>>]
          IN  Parts(env, v)
      BY <3>1, PushKeys
    <3> QED  BY <3>2
  <2> HIDE DEF keys
  <2>2. IsSeq(Cat(keys)) /\ Skips(env, Cat(keys))
    BY <2>1, Chain
  <2>3. Code(env, <<Num(k)>>) /\ Code(env, <<Num(n)>>) /\ Code(env, <<Op("CheckMultiSig")>>)
    BY CodeOps
  <2>4. Code(env, <<Num(k)>> ++ Cat(keys))
    BY <2>2, <2>3, CodeCat
  <2>5. Code(env, <<Num(n)>> ++ <<Op("CheckMultiSig")>>)
    BY <2>3, CodeCat DEF Code
  <2> QED  BY <2>4, <2>5, CodeCat DEF Code
<1>2. ASSUME NEW sigs, IsSeq(sigs), Len(sigs) = k, NEW ok \in BOOLEAN,
             ok => \E f : Signed(sigs, k, args, n, f),
             ~ok => \A i \in 1..k : sigs[i] = number(0)
      PROVE  Gives(env, d, w, <<number(0)>> ++ sigs, ok)
  <2> DEFINE x == <<number(0)>> ++ sigs
  <2>1. IsSeq(x)
    BY <1>2, CatLaws
  <2>2. \A st : IsSeq(st) => Maps(env, w, st ++ x, On(st, truth(ok)))
    <3> SUFFICES ASSUME NEW st, IsSeq(st)  PROVE Maps(env, w, st ++ x, On(st, truth(ok)))
      OBVIOUS
    <3>1. ~ok => k >= 1 /\ \A i \in 1..k : sigs[i] = number(0)
      BY <1>2
    <3>2. LET v == [i \in 1..Len(args) |-> <<PushKey(args[i])>>]
          IN  Maps(env, <<Num(k)>> ++ Cat(v) ++ (<<Num(Len(args))>> ++ <<Op("CheckMultiSig")>>),
                    st ++ (<<number(0)>> ++ sigs), On(st, truth(ok)))
      BY <1>2, <3>1, MultiMaps
    <3> QED  BY <3>2
  <2>3. EndsB(env, d, w, x, ok)
    <3> DEFINE m == IF ok THEN 1 ELSE 0
    <3>1. Value(d, ok, m) /\ truth(ok) = number(m)
      BY DEF Value, truth
    <3> HIDE DEF m, w, x
    <3> QED  BY <2>2, <3>1 DEF EndsB
  <2>4. ok => \E f, e : IsSeq(f) /\ x = On(f, e) /\ elem_size(e) > 0
    <3> SUFFICES ASSUME ok  PROVE \E f, e : IsSeq(f) /\ x = On(f, e) /\ elem_size(e) > 0
      OBVIOUS
    <3>1. PICK g : Signed(sigs, k, args, n, g)
      BY <1>2
    <3>2. k \in 1..k /\ sigs[k] = <<"sig", args[g[k]]>>
      BY <3>1 DEF Signed
    <3>3. elem_size(sigs[k]) > 0
      <4> DEFINE a == args[g[k]]
      <4>1. elem_size(<<"sig", a>>) = 72
        BY DEF elem_size
      <4> QED  BY <3>2, <4>1
    <3>4. sigs # <<>>
      BY <1>2, ShortSeqs
    <3>5. IsSeq(Front(sigs)) /\ sigs = On(Front(sigs), sigs[k])
      BY <1>2, <3>4, FrontLast
    <3> DEFINE z == <<number(0)>>
               f == Front(sigs)
    <3>6. IsSeq(z)
      BY ShortSeqs
    <3>7. x = z ++ sigs
      OBVIOUS
    <3> HIDE DEF z, f, x
    <3>8. x = On(z ++ f, sigs[k]) /\ IsSeq(z ++ f)
      BY <3>5, <3>6, <3>7, OnLaws, CatLaws DEF f
    <3> QED  BY <3>3, <3>8
  <2>5. Fits(d, ok, x)
    <3> HIDE DEF x
    <3> QED  BY <2>4 DEF Fits
  <2> HIDE DEF w, x
  <2>6. Ends(env, d, w, x, ok)
    BY <2>3 DEF Ends
  <2> QED  BY <2>1, <2>5, <2>6, Zenon DEF Gives, x
<1> HIDE DEF w
<1>3. \A sigs : /\ IsSeq(sigs) /\ Len(sigs) = k
                /\ \E f : Signed(sigs, k, args, n, f)
                => Gives(env, d, w, <<number(0)>> ++ sigs, TRUE)
  BY <1>2
<1>4. \A sigs : /\ IsSeq(sigs) /\ Len(sigs) = k
                /\ \A i \in 1..k : sigs[i] = number(0)
                => Gives(env, d, w, <<number(0)>> ++ sigs, FALSE)
  BY <1>2
<1> QED  BY <1>1, <1>3, <1>4 DEF w, n, keys

\* The check of key i, which adds to the count of the keys before it.
CheckKey(i) == Op(IF i = 1 THEN "CheckSig" ELSE "CheckSigAdd")

\* The witness with the signatures of the used keys, the first key on top.
UsedSigs(args, used) ==
    [i \in 1..Len(args) |-> IF Len(args) + 1 - i \in used THEN <<"sig", args[Len(args) + 1 - i]>> ELSE number(0)]

LEMMA UsedSigsSeq ==
    ASSUME NEW args, IsSeq(args), NEW used
    PROVE  /\ IsSeq(UsedSigs(args, used)) /\ Len(UsedSigs(args, used)) = Len(args) /\ Len(args) \in Nat
           /\ Upto(UsedSigs(args, used), Len(args)) = UsedSigs(args, used)
           /\ \A i \in 1..Len(args) : UsedSigs(args, used)[Len(args) + 1 - i] =
                    IF i \in used THEN <<"sig", args[i]>> ELSE number(0)
<1> DEFINE n == Len(args)
           x == UsedSigs(args, used)
<1>0. n \in Nat
  BY SeqForm
<1>1. x = [i \in 1..n |-> x[i]]
  BY DEF UsedSigs
<1>2. IsSeq(x) /\ Len(x) = n
  <2> HIDE DEF x, n
  <2> QED  BY <1>0, <1>1, FnSeq
<1>3. Upto(x, n) = x
  BY <1>1, Zenon DEF Upto
<1>4. ASSUME NEW i \in 1..n  PROVE x[n + 1 - i] = IF i \in used THEN <<"sig", args[i]>> ELSE number(0)
  <2>1. n + 1 - i \in 1..n /\ n + 1 - (n + 1 - i) = i
    BY <1>0
  <2> HIDE DEF n
  <2>2. x[n + 1 - i] = IF n + 1 - (n + 1 - i) \in used THEN <<"sig", args[n + 1 - (n + 1 - i)]>> ELSE number(0)
    BY <2>1 DEF UsedSigs, n
  <2> QED  BY <2>1, <2>2
<1> QED  BY <1>0, <1>2, <1>3, <1>4

LEMMA MultiASteps ==
    ASSUME NEW env, NEW args, IsSeq(args), \A i \in 1..Len(args) : args[i] \in Keys, Len(args) >= 1,
           NEW used, NEW st, IsSeq(st), NEW i \in 1..Len(args)
    PROVE  LET Y(m) == st ++ Upto(UsedSigs(args, used), m)
           IN  /\ i = 1 => Maps(env, <<PushKey(args[i])>> ++ <<CheckKey(i)>>,
                                Y(Len(args)), On(Y(Len(args) - i), number(Count(used, i))))
               /\ i # 1 => Maps(env, <<PushKey(args[i])>> ++ <<CheckKey(i)>>,
                                On(Y(Len(args) - i + 1), number(Count(used, i - 1))),
                                On(Y(Len(args) - i), number(Count(used, i))))
<1> DEFINE n == Len(args)
           x == UsedSigs(args, used)
           Y(m) == st ++ Upto(x, m)
           key == <<"key", args[i]>>
           e == IF i \in used THEN <<"sig", args[i]>> ELSE number(0)
           p == <<PushKey(args[i])>>
           c == <<CheckKey(i)>>
           Z == Y(n - i)
<1>0. n \in Nat /\ n - i \in Nat /\ n - i + 1 = n + 1 - i
  BY SeqForm
<1>1. IsSeq(Z)
  <2> HIDE DEF n, x
  <2> QED  BY <1>0, Grow, CatLaws
<1>2. Y(n - i + 1) = On(Z, e)
  <2>1. x[n + 1 - i] = e
    BY UsedSigsSeq
  <2> HIDE DEF n, x, e
  <2>2. Upto(x, n - i + 1) = On(Upto(x, n - i), x[n - i + 1]) /\ IsSeq(Upto(x, n - i))
    BY <1>0, Grow
  <2>3. Upto(x, n - i + 1) = On(Upto(x, n - i), e)
    BY <1>0, <2>1, <2>2
  <2> DEFINE U == Upto(x, n - i)
             V == Upto(x, n - i + 1)
  <2>4. V = On(U, e) /\ IsSeq(U)
    BY <2>2, <2>3
  <2> HIDE DEF U, V
  <2>5. st ++ V = On(st ++ U, e)
    BY <2>4, OnLaws
  <2> QED  BY <2>5 DEF U, V
<1>3. \A a : IsSeq(a) => Maps(env, p, a, On(a, key))
  <2>1. args[i] \in Keys
    OBVIOUS
  <2>2. PushKey(args[i])[1] \in {"Num", "Hash20", "Bytes32", "Bytes33", "Bytes65"}
        /\ pushed(PushKey(args[i])) = key
    BY <2>1, KeyPushed
  <2> SUFFICES ASSUME NEW a, IsSeq(a)  PROVE Maps(env, p, a, On(a, key))
    OBVIOUS
  <2>3. Maps(env, <<PushKey(args[i])>>, a, On(a, pushed(PushKey(args[i]))))
    BY <2>2, PushMaps
  <2> HIDE DEF key
  <2> QED  BY <2>2, <2>3
<1>4. /\ Count(used, i - 1) \in Nat /\ Count(used, 0) = 0
      /\ Count(used, i) = Count(used, i - 1) + (IF i \in used THEN 1 ELSE 0)
  <2>1. i - 1 \in Nat /\ (i - 1) + 1 = i
    OBVIOUS
  <2>2. Count(used, (i - 1) + 1) = Count(used, i - 1) + (IF (i - 1) + 1 \in used THEN 1 ELSE 0)
        /\ Count(used, i - 1) \in Nat /\ Count(used, 0) = 0
    BY <2>1, CountLaws
  <2> QED  BY <2>1, <2>2
<1> DEFINE k == Count(used, i - 1)
           b == IF i \in used THEN 1 ELSE 0
<1>5. IsSeq(p) /\ IsSeq(c) /\ IsSeq(On(Z, e)) /\ IsSeq(On(On(Z, e), number(k)))
  BY <1>1, OnLaws, CatLaws
<1>6. CASE i = 1
  <2>1. c = <<Op("CheckSig")>>
    BY <1>6 DEF CheckKey
  <2>2. k + b = b /\ Count(used, i) = b
    BY <1>4, <1>6
  <2>3. Maps(env, c, On(On(Z, e), key), On(Z, number(b)))
    <3> HIDE DEF Z, c
    <3>1. CASE i \in used
      <4>1. e = <<"sig", args[i]>> /\ b = 1
        BY <3>1
      <4> HIDE DEF e, b
      <4> QED  BY <1>1, <2>1, <4>1, OpSigs
    <3>2. CASE i \notin used
      <4>1. e = number(0) /\ b = 0
        BY <3>2
      <4> HIDE DEF e, b
      <4> QED  BY <1>1, <2>1, <4>1, OpSigs
    <3> QED  BY <3>1, <3>2
  <2>4. Maps(env, p, On(Z, e), On(On(Z, e), key))
    <3> HIDE DEF p, Z, e, key
    <3> QED  BY <1>3, <1>5
  <2> HIDE DEF p, c, e, b, Z, key
  <2>5. Maps(env, p ++ c, On(Z, e), On(Z, number(b)))
    BY <1>5, <2>3, <2>4, MapsCat
  <2>6. n - i + 1 = n
    BY <1>0, <1>6
  <2>7. Maps(env, p ++ c, Y(n), On(Z, number(Count(used, i))))
    BY <1>2, <2>2, <2>5, <2>6
  <2> QED  BY <1>6, <2>7 DEF p, c, Z
<1>7. CASE i # 1
  <2>1. c = <<Op("CheckSigAdd")>>
    BY <1>7 DEF CheckKey
  <2>2. Maps(env, c, On(On(On(Z, e), number(k)), key), On(Z, number(k + b)))
    <3> HIDE DEF Z, c, k
    <3>1. CASE i \in used
      <4>1. e = <<"sig", args[i]>> /\ b = 1
        BY <3>1
      <4> HIDE DEF e, b
      <4> QED  BY <1>1, <2>1, <4>1, OpSigs
    <3>2. CASE i \notin used
      <4>1. e = number(0) /\ b = 0
        BY <3>2
      <4> HIDE DEF e, b
      <4> QED  BY <1>1, <2>1, <4>1, OpSigs
    <3> QED  BY <3>1, <3>2
  <2>3. Maps(env, p, On(On(Z, e), number(k)), On(On(On(Z, e), number(k)), key))
    <3> HIDE DEF p, Z, e, key, k
    <3> QED  BY <1>3, <1>5
  <2>4. Count(used, i) = k + b
    BY <1>4
  <2> HIDE DEF p, c, e, b, Z, key, k
  <2>5. Maps(env, p ++ c, On(On(Z, e), number(k)), On(Z, number(k + b)))
    BY <1>5, <2>2, <2>3, MapsCat
  <2>6. Maps(env, p ++ c, On(Y(n - i + 1), number(k)), On(Z, number(Count(used, i))))
    BY <1>2, <2>4, <2>5
  <2> QED  BY <1>7, <2>6 DEF p, c, Z, k
<1> QED  BY <1>6, <1>7

(* MultiA: for each key, from the last to the first, a signature or 0.      *)
LEMMA MultiAGives ==
    ASSUME NEW env, NEW args, IsSeq(args), \A i \in 1..Len(args) : args[i] \in Keys, Len(args) >= 1,
           NEW k \in Nat, NEW d, d.base = "B", d.input = "Any"
    PROVE  LET keys == [i \in 1..Len(args) |-> <<PushKey(args[i])>> ++ <<CheckKey(i)>>]
               w == Cat(keys) ++ (<<Num(k)>> ++ <<Op("NumEqual")>>)
           IN  /\ Code(env, w)
               /\ \A used : Gives(env, d, w, UsedSigs(args, used), k = Count(used, Len(args)))
<1> DEFINE n == Len(args)
           keys == [i \in 1..n |-> <<PushKey(args[i])>> ++ <<CheckKey(i)>>]
           q == <<Num(k)>> ++ <<Op("NumEqual")>>
           w == Cat(keys) ++ q
<1>0. n \in Nat /\ 1 \in 1..n
  BY SeqForm
<1>1. IsSeq(keys) /\ Len(keys) = n /\ \A i \in 1..n : keys[i] = <<PushKey(args[i])>> ++ <<CheckKey(i)>>
  <2>1. \A i \in 1..n : keys[i] = <<PushKey(args[i])>> ++ <<CheckKey(i)>>
    OBVIOUS
  <2>2. keys = [i \in 1..n |-> keys[i]]
    OBVIOUS
  <2> HIDE DEF keys, n
  <2>3. IsSeq(keys) /\ Len(keys) = n
    BY <1>0, <2>2, FnSeq
  <2> QED  BY <2>1, <2>3
<1>2. \A i \in 1..n : Code(env, keys[i])
  <2> TAKE i \in 1..n
  <2>1. Code(env, <<PushKey(args[i])>>) /\ Code(env, <<CheckKey(i)>>)
    BY CodeOps DEF CheckKey, Plain
  <2>2. Code(env, <<PushKey(args[i])>> ++ <<CheckKey(i)>>)
    BY <2>1, CodeCat DEF Code
  <2> QED  BY <1>1, <2>2
<1>3. Parts(env, keys)
  <2> HIDE DEF keys
  <2> QED  BY <1>1, <1>2 DEF Parts, Code
<1>4. Code(env, q) /\ IsSeq(<<Num(k)>>) /\ IsSeq(<<Op("NumEqual")>>)
  <2>1. Code(env, <<Num(k)>>) /\ Code(env, <<Op("NumEqual")>>)
    BY CodeOps DEF Plain
  <2> QED  BY <2>1, CodeCat DEF Code
<1>5. IsSeq(Cat(keys)) /\ Code(env, Cat(keys))
  <2> HIDE DEF keys
  <2> QED  BY <1>0, <1>1, <1>2, <1>3, Chain
<1>6. Code(env, w)
  <2> HIDE DEF q, keys
  <2> QED  BY <1>4, <1>5, CodeCat DEF Code
<1>7. ASSUME NEW used  PROVE Gives(env, d, w, UsedSigs(args, used), k = Count(used, n))
  <2> DEFINE x == UsedSigs(args, used)
             m == Count(used, n)
             Y(st, i) == st ++ Upto(x, i)
             T(st, i) == IF i = 0 THEN Y(st, n) ELSE On(Y(st, n - i), number(Count(used, i)))
             X(st) == [i \in 0..n |-> T(st, i)]
             v == IF k = m THEN 1 ELSE 0
  <2>1. IsSeq(x) /\ Upto(x, n) = x /\ Len(x) = n
    BY UsedSigsSeq
  <2>2. m \in Nat
    BY <1>0, CountLaws
  <2>3. ASSUME NEW st, IsSeq(st)  PROVE Steps(env, keys, X(st))
    <3> SUFFICES ASSUME NEW i \in 1..n  PROVE Maps(env, keys[i], X(st)[i - 1], X(st)[i])
      BY <1>1 DEF Steps
    <3>1. i - 1 \in 0..n /\ i \in 0..n /\ i # 0 /\ n - (i - 1) = n - i + 1
      BY <1>0
    <3>2. X(st)[i] = On(Y(st, n - i), number(Count(used, i))) /\ X(st)[i - 1] = T(st, i - 1)
      BY <3>1
    <3>3. i = 1 => X(st)[i - 1] = Y(st, n)
      BY <3>2
    <3>4. i # 1 => X(st)[i - 1] = On(Y(st, n - i + 1), number(Count(used, i - 1)))
      <4>1. i # 1 => i - 1 # 0
        OBVIOUS
      <4> HIDE DEF X, Y, n
      <4> QED  BY <3>1, <3>2, <4>1
    <3>5. LET U(j) == st ++ Upto(UsedSigs(args, used), j)
           IN  /\ i = 1 => Maps(env, <<PushKey(args[i])>> ++ <<CheckKey(i)>>,
                                U(Len(args)), On(U(Len(args) - i), number(Count(used, i))))
               /\ i # 1 => Maps(env, <<PushKey(args[i])>> ++ <<CheckKey(i)>>,
                                On(U(Len(args) - i + 1), number(Count(used, i - 1))),
                                On(U(Len(args) - i), number(Count(used, i))))
      BY <2>3, MultiASteps
    <3>6. keys[i] = <<PushKey(args[i])>> ++ <<CheckKey(i)>>
      BY <1>1
    <3> DEFINE ki == keys[i]
               a == X(st)[i - 1]
               b == X(st)[i]
    <3>7. i = 1 => Maps(env, ki, Y(st, n), On(Y(st, n - i), number(Count(used, i))))
      BY <3>5, <3>6
    <3>8. i # 1 => Maps(env, ki, On(Y(st, n - i + 1), number(Count(used, i - 1))),
                                On(Y(st, n - i), number(Count(used, i))))
      BY <3>5, <3>6
    <3> HIDE DEF ki, X, Y, n, keys
    <3>9. i = 1 => Maps(env, ki, a, b)
      BY <3>2, <3>3, <3>7
    <3>10. i # 1 => Maps(env, ki, a, b)
      BY <3>2, <3>4, <3>8
    <3> QED  BY <3>9, <3>10 DEF ki
  <2>4. ASSUME NEW st, IsSeq(st)  PROVE Maps(env, w, st ++ x, On(st, number(v)))
    <3>1. X(st)[0] = st ++ x
      <4>1. X(st)[0] = Y(st, n)
        BY <1>0
      <4> QED  BY <2>1, <4>1
    <3>2. X(st)[n] = On(st, number(m))
      <4>1. X(st)[n] = On(Y(st, n - n), number(m))
        BY <1>0
      <4>2. n - n = 0 /\ Upto(x, 0) = <<>>
        BY <1>0, Grow
      <4>3. Y(st, n - n) = st ++ <<>>
        <5> HIDE DEF n, x
        <5> QED  BY <4>2
      <4>4. st ++ <<>> = st
        BY <2>4, CatLaws
      <4> HIDE DEF X, Y, n, m
      <4> QED  BY <4>1, <4>3, <4>4
    <3>3. Steps(env, keys, X(st))
      BY <2>3, <2>4
    <3>4. IsSeq(st ++ x)
      BY <2>1, <2>4, CatLaws
    <3> HIDE DEF X, n, keys
    <3>5. Maps(env, Cat(keys), st ++ x, On(st, number(m)))
      <4> DEFINE Z == X(st)
      <4>1. Steps(env, keys, Z) /\ Z[0] = st ++ x /\ Z[n] = On(st, number(m))
        BY <3>1, <3>2, <3>3
      <4> HIDE DEF Z, x, m
      <4>2. IsSeq(Z[0])
        BY <3>4, <4>1
      <4>3. Maps(env, Cat(keys), Z[0], Z[Len(keys)])
        BY <1>3, <4>1, <4>2, Chain
      <4> QED  BY <1>1, <4>1, <4>3
    <3>6. IsSeq(On(st, number(m))) /\ IsSeq(On(On(st, number(m)), number(k)))
      BY <2>4, OnLaws
    <3>7. Maps(env, <<Num(k)>>, On(st, number(m)), On(On(st, number(m)), number(k)))
      <4>1. Num(k)[1] = "Num" /\ pushed(Num(k)) = number(k)
        BY DEF Num, pushed
      <4>2. Maps(env, <<Num(k)>>, On(st, number(m)), On(On(st, number(m)), pushed(Num(k))))
        <5> HIDE DEF m
        <5> QED  BY <3>6, <4>1, PushMaps
      <4> QED  BY <4>1, <4>2
    <3>8. Maps(env, <<Op("NumEqual")>>, On(On(st, number(m)), number(k)), On(st, truth(number(k) = number(m))))
      <4> HIDE DEF m
      <4> QED  BY <2>4, OpNumbers
    <3>9. truth(number(k) = number(m)) = number(v)
      <4> HIDE DEF m
      <4>1. number(k) = number(m) <=> k = m
        BY DEF number
      <4> QED  BY <4>1 DEF truth
    <3>10. Maps(env, <<Op("NumEqual")>>, On(On(st, number(m)), number(k)), On(st, number(v)))
      BY <3>8, <3>9, Zenon
    <3> DEFINE h == <<Num(k)>>
               g == <<Op("NumEqual")>>
    <3>11. Maps(env, h, On(st, number(m)), On(On(st, number(m)), number(k)))
           /\ Maps(env, g, On(On(st, number(m)), number(k)), On(st, number(v)))
           /\ IsSeq(h) /\ IsSeq(g)
      BY <1>4, <3>7, <3>10
    <3> HIDE DEF h, g, m, v
    <3>12. Maps(env, h ++ g, On(st, number(m)), On(st, number(v))) /\ IsSeq(h ++ g)
      BY <3>11, MapsCat, CatLaws
    <3>13. Maps(env, q, On(st, number(m)), On(st, number(v))) /\ IsSeq(q)
      BY <3>12 DEF h, g
    <3> HIDE DEF q, x
    <3> QED  BY <1>5, <3>5, <3>13, MapsCat
  <2>5. EndsB(env, d, w, x, k = m)
    <3>1. Value(d, k = m, v)
      BY DEF Value
    <3> HIDE DEF v, w, x, m
    <3> QED  BY <2>4, <3>1 DEF EndsB
  <2>6. Fits(d, k = m, x)
    BY DEF Fits
  <2> HIDE DEF x, w, m
  <2>7. Ends(env, d, w, x, k = m)
    BY <2>5 DEF Ends
  <2> QED  BY <2>1, <2>6, <2>7, Zenon DEF Gives, x, m
<1> HIDE DEF w
<1>8. \A used : Gives(env, d, w, UsedSigs(args, used), k = Count(used, n))
  BY <1>7
<1> QED  BY <1>6, <1>8 DEF w, keys, n, q

-----------------------------------------------------------------------------
(* Leaves. *)

LEMMA Chained ==
    ASSUME NEW env, NEW a, NEW s, Code(env, <<a>>), Code(env, s)
    PROVE  /\ Code(env, <<a>> ++ s)
           /\ \A x, y, z : Maps(env, <<a>>, x, y) /\ Maps(env, s, y, z) => Maps(env, <<a>> ++ s, x, z)
<1>1. IsSeq(<<a>>) /\ IsSeq(s)
  BY DEF Code
<1>2. Code(env, <<a>> ++ s)
  BY CodeCat DEF Code
<1>3. \A x, y, z : Maps(env, <<a>>, x, y) /\ Maps(env, s, y, z) => Maps(env, <<a>> ++ s, x, z)
  BY <1>1, MapsCat
<1> QED  BY <1>2, <1>3

LEMMA ConstantGives ==
    ASSUME NEW env, NEW d, d.base = "B", d.input = "Zero", NEW n \in {0, 1}
    PROVE  Code(env, <<Num(n)>>) /\ Gives(env, d, <<Num(n)>>, <<>>, n = 1)
<1>1. Code(env, <<Num(n)>>)
  BY CodeOps
<1>2. ASSUME NEW st, IsSeq(st)  PROVE Maps(env, <<Num(n)>>, st ++ <<>>, On(st, number(n)))
  <2>1. Num(n)[1] = "Num" /\ pushed(Num(n)) = number(n)
    BY DEF Num, pushed
  <2>2. Maps(env, <<Num(n)>>, st, On(st, pushed(Num(n))))
    BY <1>2, <2>1, PushMaps
  <2>3. st ++ <<>> = st
    BY <1>2, OnLaws
  <2> QED  BY <2>1, <2>2, <2>3
<1>3. Value(d, n = 1, n)
  BY DEF Value
<1>4. EndsB(env, d, <<Num(n)>>, <<>>, n = 1)
  BY <1>2, <1>3 DEF EndsB
<1>5. Fits(d, n = 1, <<>>)
  BY DEF Fits
<1>6. Ends(env, d, <<Num(n)>>, <<>>, n = 1)
  BY <1>4 DEF Ends
<1> QED  BY <1>1, <1>5, <1>6, CatLaws, Zenon DEF Gives

LEMMA PkKGives ==
    ASSUME NEW env, NEW key \in Keys, NEW d, d.base = "K", d.input = "OneNonZero"
    PROVE  /\ Code(env, <<PushKey(key)>>)
           /\ Gives(env, d, <<PushKey(key)>>, <<<<"sig", key>>>>, TRUE)
           /\ Gives(env, d, <<PushKey(key)>>, <<number(0)>>, FALSE)
<1> DEFINE s == <<PushKey(key)>>
           e(ok) == IF ok THEN <<"sig", key>> ELSE number(0)
<1>1. Code(env, s)
  BY CodeOps
<1>2. ASSUME NEW ok \in BOOLEAN  PROVE Gives(env, d, s, <<e(ok)>>, ok)
  <2>1. \A st : IsSeq(st) => Maps(env, s, st ++ <<e(ok)>>, On(On(st, e(ok)), <<"key", key>>))
    <3> SUFFICES ASSUME NEW st, IsSeq(st)
                 PROVE  Maps(env, s, On(st, e(ok)), On(On(st, e(ok)), <<"key", key>>))
      BY DEF On
    <3>1. PushKey(key)[1] \in {"Num", "Hash20", "Bytes32", "Bytes33", "Bytes65"}
          /\ pushed(PushKey(key)) = <<"key", key>>
      BY KeyPushed
    <3> DEFINE Z == On(st, e(ok))
    <3>2. IsSeq(Z)
      BY OnLaws
    <3> HIDE DEF Z
    <3>3. Maps(env, <<PushKey(key)>>, Z, On(Z, pushed(PushKey(key))))
      BY <3>1, <3>2, PushMaps
    <3> QED  BY <3>1, <3>3 DEF Z
  <2>2. EndsK(env, s, <<e(ok)>>, ok)
    BY <2>1, Zenon DEF EndsK
  <2>3. IsSeq(<<e(ok)>>) /\ <<e(ok)>> = On(<<>>, e(ok)) /\ IsSeq(<<>>)
    BY CatLaws DEF On
  <2>4. ok => elem_size(e(ok)) > 0
    BY DEF elem_size
  <2> DEFINE v == e(ok)
  <2>5. Fits(d, ok, <<v>>)
    <3>1. \E f : <<v>> = <<f>>
      OBVIOUS
    <3>2. ok => \E f, g : IsSeq(f) /\ <<v>> = On(f, g) /\ elem_size(g) > 0
      BY <2>3, <2>4
    <3> HIDE DEF v, e
    <3> QED  BY <3>1, <3>2 DEF Fits
  <2>6. Ends(env, d, s, <<v>>, ok)
    <3> HIDE DEF s, e
    <3> QED  BY <2>2 DEF Ends
  <2> HIDE DEF s, e
  <2> QED  BY <2>3, <2>5, <2>6, Zenon DEF Gives
<1>3. e(TRUE) = <<"sig", key>> /\ e(FALSE) = number(0)
  OBVIOUS
<1>4. Gives(env, d, s, <<e(TRUE)>>, TRUE) /\ Gives(env, d, s, <<e(FALSE)>>, FALSE)
  BY <1>2
<1> QED  BY <1>1, <1>3, <1>4

LEMMA PkHGives ==
    ASSUME NEW env, NEW key, NEW d, d.base = "K", d.input = "AnyNonZero"
    PROVE  LET w == <<Op("Dup")>> ++ (<<Op("Hash160")>> ++ (<<<<"Hash20", key>>>> ++ <<Op("EqualVerify")>>))
           IN  /\ Code(env, w)
               /\ Gives(env, d, w, <<<<"sig", key>>, <<"key", key>>>>, TRUE)
               /\ Gives(env, d, w, <<number(0), <<"key", key>>>>, FALSE)
<1> DEFINE w1 == <<<<"Hash20", key>>>> ++ <<Op("EqualVerify")>>
           w2 == <<Op("Hash160")>> ++ w1
           w == <<Op("Dup")>> ++ w2
           pk == <<"key", key>>
           h == <<"digest", key>>
           e(ok) == IF ok THEN <<"sig", key>> ELSE number(0)
<1>1. Code(env, <<Op("Dup")>>) /\ Code(env, <<Op("Hash160")>>) /\ Code(env, <<<<"Hash20", key>>>>)
      /\ Code(env, <<Op("EqualVerify")>>)
  BY CodeOps DEF Plain
<1>2. Code(env, w1) /\ Code(env, w2) /\ Code(env, w)
  <2>1. Code(env, w1)
    BY <1>1, Chained DEF Op
  <2> HIDE DEF w1
  <2>2. Code(env, w2)
    BY <1>1, <2>1, Chained DEF Op
  <2> HIDE DEF w2
  <2>3. Code(env, w)
    BY <1>1, <2>2, Chained DEF Op
  <2> QED  BY <2>1, <2>2, <2>3
<1>3. ASSUME NEW st, IsSeq(st)  PROVE Maps(env, w, On(st, pk), On(st, pk))
  <2> DEFINE Z == On(st, pk)
  <2>1. IsSeq(Z) /\ IsSeq(On(Z, pk)) /\ IsSeq(On(Z, h))
    BY <1>3, OnLaws
  <2>2. Maps(env, <<Op("Dup")>>, Z, On(Z, pk))
    <3> HIDE DEF pk
    <3> QED  BY <1>3, OpDup
  <2> HIDE DEF Z
  <2>3. Maps(env, <<Op("Hash160")>>, On(Z, pk), On(Z, h))
    <3>1. Maps(env, <<Op("Hash160")>>, On(Z, pk), On(Z, digest(pk)))
      <4>1. "Hash160" \in HashFrags
        BY DEF HashFrags
      <4>2. \A g \in HashFrags : Maps(env, <<Op(g)>>, On(Z, pk), On(Z, digest(pk)))
        <5> HIDE DEF pk
        <5> QED  BY <2>1, OpDup
      <4> HIDE DEF pk
      <4> QED  BY <4>1, <4>2
    <3>2. digest(pk) = h
      BY DEF digest
    <3> QED  BY <3>1, <3>2
  <2>4. Maps(env, <<<<"Hash20", key>>>>, On(Z, h), On(On(Z, h), h))
    <3> DEFINE ins == <<"Hash20", key>>
    <3>1. ins[1] = "Hash20" /\ ins[2] = key
      OBVIOUS
    <3> HIDE DEF ins
    <3>2. pushed(ins) = h
      BY <3>1 DEF pushed
    <3> HIDE DEF h
    <3>3. Maps(env, <<ins>>, On(Z, h), On(On(Z, h), pushed(ins)))
      BY <2>1, <3>1, PushMaps
    <3> QED  BY <3>2, <3>3 DEF ins
  <2>5. Maps(env, <<Op("EqualVerify")>>, On(On(Z, h), h), Z)
    <3> HIDE DEF h
    <3> QED  BY <2>1, OpNumbers
  <2> HIDE DEF h, pk
  <2>6. Maps(env, w1, On(Z, h), Z)
    BY <1>1, <2>4, <2>5, Chained
  <2> HIDE DEF w1
  <2>7. Maps(env, w2, On(Z, pk), Z)
    BY <1>1, <1>2, <2>3, <2>6, Chained
  <2> HIDE DEF w2
  <2>8. Maps(env, w, Z, Z)
    BY <1>1, <1>2, <2>2, <2>7, Chained
  <2> QED  BY <2>8 DEF Z
<1>4. ASSUME NEW ok \in BOOLEAN  PROVE Gives(env, d, w, <<e(ok), pk>>, ok)
  <2> DEFINE v == e(ok)
             x == <<v, pk>>
  <2>1. IsSeq(x) /\ x = On(On(<<>>, v), pk) /\ IsSeq(On(<<>>, v)) /\ IsSeq(<<>>)
    <3>1. IsSeq(<<v, pk>>) /\ <<v>> \o <<pk>> = <<v, pk>> /\ <<>> ++ <<v>> = <<v>>
      <4> HIDE DEF v, pk
      <4> QED  BY ShortSeqs, CatLaws
    <3>2. IsSeq(<<>>) /\ IsSeq(On(<<>>, v))
      BY OnLaws
    <3> HIDE DEF v, pk
    <3> QED  BY <3>1, <3>2 DEF On, ++
  <2> HIDE DEF x
  <2>2. \A st : IsSeq(st) => st ++ x = On(On(st, v), pk)
    <3> HIDE DEF v, pk
    <3> QED  BY <2>1, OnLaws
  <2>3. \A st : IsSeq(st) => Maps(env, w, st ++ x, On(On(st, v), pk))
    <3> SUFFICES ASSUME NEW st, IsSeq(st)  PROVE Maps(env, w, st ++ x, On(On(st, v), pk))
      OBVIOUS
    <3>1. IsSeq(On(st, v))
      BY OnLaws
    <3> DEFINE Z == On(st, v)
    <3> HIDE DEF Z, w, pk
    <3>2. Maps(env, w, On(Z, pk), On(Z, pk))
      BY <1>3, <3>1 DEF Z
    <3> QED  BY <2>2, <3>2 DEF Z
  <2>4. EndsK(env, w, x, ok)
    <3> HIDE DEF w, x
    <3> QED  BY <2>3, Zenon DEF EndsK
  <2>5. elem_size(pk) > 0
    <3>1. elem_size(pk) = pk_len(key) - 1
      BY DEF elem_size
    <3>2. pk_len(key) \in {33, 66, 34}
      BY DEF pk_len
    <3> HIDE DEF pk
    <3> QED  BY <3>1, <3>2
  <2>6. Fits(d, ok, x)
    <3> HIDE DEF pk, v, e
    <3> QED  BY <2>1, <2>5 DEF Fits
  <2> HIDE DEF w, x, v
  <2>7. Ends(env, d, w, x, ok)
    BY <2>4 DEF Ends
  <2> QED  BY <2>1, <2>6, <2>7, Zenon DEF Gives, x, v
<1>5. e(TRUE) = <<"sig", key>> /\ e(FALSE) = number(0)
  OBVIOUS
<1>6. Gives(env, d, w, <<e(TRUE), pk>>, TRUE) /\ Gives(env, d, w, <<e(FALSE), pk>>, FALSE)
  <2> HIDE DEF w, pk, e
  <2> QED  BY <1>4
<1> QED  BY <1>2, <1>5, <1>6

(* A timelock leaves its number, which is not 0.                            *)
LEMMA TimelockGives ==
    ASSUME NEW env, NEW d, d.base = "B", d.input = "Zero", ~d.unit, NEW n \in Nat, n # 0,
           NEW op \in {"CheckLockTimeVerify", "CheckSequenceVerify"}
    PROVE  LET w == <<Num(n)>> ++ <<Op(op)>>
           IN  /\ Code(env, w)
               /\ /\ op = "CheckLockTimeVerify" => abs_is_implied_by(n, env.tx.lock_time) /\ env.tx.sequence # -1
                  /\ op = "CheckSequenceVerify" => env.tx.sequence >= 0 /\ rel_is_implied_by(n, env.tx.sequence)
                  => Gives(env, d, w, <<>>, TRUE)
<1> DEFINE w == <<Num(n)>> ++ <<Op(op)>>
<1>1. Code(env, <<Num(n)>>) /\ Code(env, <<Op(op)>>)
  BY CodeOps DEF Plain
<1>2. Code(env, w)
  BY <1>1, Chained
<1>3. ASSUME op = "CheckLockTimeVerify" => abs_is_implied_by(n, env.tx.lock_time) /\ env.tx.sequence # -1,
             op = "CheckSequenceVerify" => env.tx.sequence >= 0 /\ rel_is_implied_by(n, env.tx.sequence)
      PROVE  Gives(env, d, w, <<>>, TRUE)
  <2>1. ASSUME NEW st, IsSeq(st)  PROVE Maps(env, w, st ++ <<>>, On(st, number(n)))
    <3>1. Num(n)[1] = "Num" /\ pushed(Num(n)) = number(n)
      BY DEF Num, pushed
    <3>2. Maps(env, <<Num(n)>>, st, On(st, pushed(Num(n))))
      BY <2>1, <3>1, PushMaps
    <3>3. st ++ <<>> = st
      BY <2>1, OnLaws
    <3>4. Maps(env, <<Op(op)>>, On(st, number(n)), On(st, number(n)))
      <4>1. CASE op = "CheckLockTimeVerify"
        <5>1. abs_is_implied_by(n, env.tx.lock_time) /\ env.tx.sequence # -1
          BY <1>3, <4>1
        <5>2. Maps(env, <<Op("CheckLockTimeVerify")>>, On(st, number(n)), On(st, number(n)))
          BY <2>1, <5>1, OpPush
        <5> QED  BY <4>1, <5>2
      <4>2. CASE op = "CheckSequenceVerify"
        <5>1. env.tx.sequence >= 0 /\ rel_is_implied_by(n, env.tx.sequence)
          BY <1>3, <4>2
        <5>2. Maps(env, <<Op("CheckSequenceVerify")>>, On(st, number(n)), On(st, number(n)))
          BY <2>1, <5>1, OpPush
        <5> QED  BY <4>2, <5>2
      <4> QED  BY <4>1, <4>2
    <3> QED  BY <1>1, <3>1, <3>2, <3>3, <3>4, Chained
  <2>2. Value(d, TRUE, n)
    BY DEF Value
  <2> HIDE DEF w
  <2>3. EndsB(env, d, w, <<>>, TRUE)
    BY <2>1, <2>2 DEF EndsB
  <2>4. Ends(env, d, w, <<>>, TRUE)
    BY <2>3 DEF Ends
  <2>5. Fits(d, TRUE, <<>>)
    BY DEF Fits
  <2> QED  BY <2>4, <2>5, CatLaws, Zenon DEF Gives
<1> QED  BY <1>2, <1>3

(* The preimage of a hash, or a string that is not.                         *)
LEMMA HashGives ==
    ASSUME NEW env, NEW d, d.base = "B", d.input = "OneNonZero", NEW h, h \notin Keys, h # "zeros",
           NEW f \in HashFrags, NEW push \in {"Bytes32", "Hash20"}
    PROVE  LET w == <<Op("Size")>> ++ (<<Num(32)>> ++ (<<Op("EqualVerify")>> ++
                        (<<Op(f)>> ++ (<<<<push, h>>>> ++ <<Op("Equal")>>))))
           IN  /\ Code(env, w)
               /\ Gives(env, d, w, <<<<"pre", h>>>>, TRUE)
               /\ Gives(env, d, w, <<<<"pre", "zeros">>>>, FALSE)
<1> DEFINE w1 == <<<<push, h>>>> ++ <<Op("Equal")>>
           w2 == <<Op(f)>> ++ w1
           w3 == <<Op("EqualVerify")>> ++ w2
           w4 == <<Num(32)>> ++ w3
           w == <<Op("Size")>> ++ w4
           g == <<"digest", h>>
<1>1. Code(env, <<Op("Size")>>) /\ Code(env, <<Num(32)>>) /\ Code(env, <<Op("EqualVerify")>>)
      /\ Code(env, <<Op(f)>>) /\ Code(env, <<<<push, h>>>>) /\ Code(env, <<Op("Equal")>>)
  <2>1. Plain("Size") /\ Plain("EqualVerify") /\ Plain("Equal") /\ Plain(f)
    BY DEF Plain, HashFrags
  <2>2. Code(env, <<<<push, h>>>>)
    BY CodeOps
  <2> QED  BY <2>1, <2>2, CodeOps
<1>2. Code(env, w1) /\ Code(env, w2) /\ Code(env, w3) /\ Code(env, w4) /\ Code(env, w)
  <2>1. Code(env, w1)
    BY <1>1, Chained
  <2> HIDE DEF w1
  <2>2. Code(env, w2)
    BY <1>1, <2>1, Chained
  <2> HIDE DEF w2
  <2>3. Code(env, w3)
    BY <1>1, <2>2, Chained
  <2> HIDE DEF w3
  <2>4. Code(env, w4)
    BY <1>1, <2>3, Chained
  <2> HIDE DEF w4
  <2>5. Code(env, w)
    BY <1>1, <2>4, Chained
  <2> QED  BY <2>1, <2>2, <2>3, <2>4, <2>5
<1>3. ASSUME NEW e, NEW ok \in BOOLEAN, elem_size(e) = 32, digest(e) = g <=> ok
      PROVE  Gives(env, d, w, <<e>>, ok)
  <2> DEFINE v == IF ok THEN 1 ELSE 0
  <2>1. ASSUME NEW st, IsSeq(st)  PROVE Maps(env, w, On(st, e), On(st, number(v)))
    <3> DEFINE Z == On(st, e)
               D == On(st, digest(e))
    <3>1. IsSeq(Z) /\ IsSeq(D) /\ IsSeq(On(Z, number(32)))
      BY <2>1, OnLaws
    <3>2. Maps(env, <<Op("Size")>>, Z, On(Z, number(32)))
      <4>1. Maps(env, <<Op("Size")>>, On(st, e), On(On(st, e), number(elem_size(e))))
        BY <2>1, OpDup
      <4> QED  BY <1>3, <4>1
    <3>3. Maps(env, <<Op(f)>>, Z, D)
      <4>1. \A hh \in HashFrags : Maps(env, <<Op(hh)>>, On(st, e), On(st, digest(e)))
        BY <2>1, OpDup
      <4> QED  BY <4>1
    <3> HIDE DEF Z
    <3>4. Maps(env, <<Num(32)>>, On(Z, number(32)), On(On(Z, number(32)), number(32)))
      <4>1. Num(32)[1] = "Num" /\ pushed(Num(32)) = number(32)
        BY DEF Num, pushed
      <4>2. Maps(env, <<Num(32)>>, On(Z, number(32)), On(On(Z, number(32)), pushed(Num(32))))
        BY <3>1, <4>1, PushMaps
      <4> QED  BY <4>1, <4>2
    <3>5. Maps(env, <<Op("EqualVerify")>>, On(On(Z, number(32)), number(32)), Z)
      BY <3>1, OpNumbers
    <3>6. Maps(env, <<<<push, h>>>>, D, On(D, g))
      <4> DEFINE ins == <<push, h>>
      <4>1. ins[1] = push /\ ins[2] = h
        OBVIOUS
      <4> HIDE DEF ins
      <4>2. pushed(ins) = g
        BY <4>1 DEF pushed
      <4> HIDE DEF g, D
      <4>3. Maps(env, <<ins>>, D, On(D, pushed(ins)))
        BY <3>1, <4>1, PushMaps
      <4> QED  BY <4>2, <4>3 DEF ins
    <3>7. Maps(env, <<Op("Equal")>>, On(D, g), On(st, number(v)))
      <4>1. Maps(env, <<Op("Equal")>>, On(On(st, digest(e)), g), On(st, truth(g = digest(e))))
        <5> HIDE DEF g
        <5> QED  BY <2>1, OpNumbers
      <4>2. truth(g = digest(e)) = number(v)
        BY <1>3 DEF truth
      <4> QED  BY <4>1, <4>2
    <3> HIDE DEF g, D, v
    <3>8. Maps(env, w1, D, On(st, number(v)))
      BY <1>1, <3>6, <3>7, Chained
    <3> HIDE DEF w1
    <3>9. Maps(env, w2, Z, On(st, number(v)))
      BY <1>1, <1>2, <3>3, <3>8, Chained
    <3> HIDE DEF w2
    <3>10. Maps(env, w3, On(On(Z, number(32)), number(32)), On(st, number(v)))
      BY <1>1, <1>2, <3>5, <3>9, Chained
    <3> HIDE DEF w3
    <3>11. Maps(env, w4, On(Z, number(32)), On(st, number(v)))
      BY <1>1, <1>2, <3>4, <3>10, Chained
    <3> HIDE DEF w4
    <3>12. Maps(env, w, Z, On(st, number(v)))
      BY <1>1, <1>2, <3>2, <3>11, Chained
    <3> QED  BY <3>12 DEF Z
  <2>2. Value(d, ok, v)
    BY DEF Value
  <2> HIDE DEF w, v
  <2>3. \A st : IsSeq(st) => Maps(env, w, st ++ <<e>>, On(st, number(v)))
    BY <2>1, Zenon DEF On
  <2>4. EndsB(env, d, w, <<e>>, ok)
    BY <2>2, <2>3 DEF EndsB
  <2>5. IsSeq(<<e>>) /\ <<e>> = On(<<>>, e) /\ IsSeq(<<>>)
    BY CatLaws DEF On
  <2>6. Fits(d, ok, <<e>>)
    <3>1. elem_size(e) > 0
      BY <1>3
    <3>2. \E z : <<e>> = <<z>>
      OBVIOUS
    <3>3. \E z, y : IsSeq(z) /\ <<e>> = On(z, y) /\ elem_size(y) > 0
      BY <2>5, <3>1
    <3> QED  BY <3>2, <3>3 DEF Fits
  <2>7. Ends(env, d, w, <<e>>, ok)
    BY <2>4 DEF Ends
  <2> QED  BY <2>5, <2>6, <2>7, Zenon DEF Gives
<1>4. Gives(env, d, w, <<<<"pre", h>>>>, TRUE)
  <2> DEFINE e == <<"pre", h>>
  <2>1. elem_size(e) = 32 /\ digest(e) = g
    BY DEF elem_size, digest
  <2> HIDE DEF e, g, w
  <2>2. Gives(env, d, w, <<e>>, TRUE)
    BY <1>3, <2>1
  <2> QED  BY <2>2 DEF e
<1>5. Gives(env, d, w, <<<<"pre", "zeros">>>>, FALSE)
  <2> DEFINE e == <<"pre", "zeros">>
  <2>1. elem_size(e) = 32 /\ digest(e) # g
    BY DEF elem_size, digest
  <2> HIDE DEF e, g, w
  <2>2. Gives(env, d, w, <<e>>, FALSE)
    BY <1>3, <2>1
  <2> QED  BY <2>2 DEF e
<1> QED  BY <1>2, <1>4, <1>5

LEMMA TemplateGives ==
    ASSUME NEW env, NEW d, d.base = "V", d.input = "Zero", NEW h, h \notin Keys
    PROVE  LET w == <<<<"Bytes32", h>>>> ++ (<<Op("CheckTemplateVerify")>> ++ <<Op("Drop")>>)
           IN  /\ Code(env, w)
               /\ env.tx.template = h => Gives(env, d, w, <<>>, TRUE)
<1> DEFINE w1 == <<Op("CheckTemplateVerify")>> ++ <<Op("Drop")>>
           w == <<<<"Bytes32", h>>>> ++ w1
           g == <<"digest", h>>
<1>1. Code(env, <<<<"Bytes32", h>>>>) /\ Code(env, <<Op("CheckTemplateVerify")>>) /\ Code(env, <<Op("Drop")>>)
  BY CodeOps DEF Plain
<1>2. Code(env, w1) /\ Code(env, w)
  <2>1. Code(env, w1)
    BY <1>1, Chained
  <2> HIDE DEF w1
  <2>2. Code(env, w)
    BY <1>1, <2>1, Chained
  <2> QED  BY <2>1, <2>2
<1>3. ASSUME env.tx.template = h  PROVE Gives(env, d, w, <<>>, TRUE)
  <2>1. ASSUME NEW st, IsSeq(st)  PROVE Maps(env, w, st ++ <<>>, st)
    <3>0. st ++ <<>> = st
      BY <2>1, OnLaws
    <3>1. Maps(env, <<<<"Bytes32", h>>>>, st, On(st, g))
      <4> DEFINE ins == <<"Bytes32", h>>
      <4>1. ins[1] = "Bytes32" /\ ins[2] = h
        OBVIOUS
      <4> HIDE DEF ins
      <4>2. pushed(ins) = g
        BY <4>1 DEF pushed
      <4> HIDE DEF g
      <4>3. Maps(env, <<ins>>, st, On(st, pushed(ins)))
        BY <2>1, <4>1, PushMaps
      <4> QED  BY <4>2, <4>3 DEF ins
    <3>2. Maps(env, <<Op("CheckTemplateVerify")>>, On(st, g), On(st, g))
      <4>1. g = <<"digest", env.tx.template>>
        BY <1>3
      <4> HIDE DEF g
      <4>2. \A e : e = <<"digest", env.tx.template>> =>
                     Maps(env, <<Op("CheckTemplateVerify")>>, On(st, e), On(st, e))
        BY <2>1, OpPush
      <4> QED  BY <4>1, <4>2
    <3> HIDE DEF g
    <3>3. Maps(env, <<Op("Drop")>>, On(st, g), st)
      BY <2>1, OpDup
    <3>4. Maps(env, w1, On(st, g), st)
      BY <1>1, <3>2, <3>3, Chained
    <3> HIDE DEF w1
    <3>5. Maps(env, w, st, st)
      BY <1>1, <1>2, <3>1, <3>4, Chained
    <3> QED  BY <3>0, <3>5
  <2> HIDE DEF w
  <2>2. EndsV(env, w, <<>>, TRUE)
    BY <2>1 DEF EndsV
  <2>3. Ends(env, d, w, <<>>, TRUE)
    BY <2>2 DEF Ends
  <2>4. Fits(d, TRUE, <<>>)
    BY DEF Fits
  <2> QED  BY <2>3, <2>4, CatLaws, Zenon DEF Gives
<1> QED  BY <1>2, <1>3

LEMMA EnvelopesIdle ==
    ASSUME NEW env, NEW args, IsSeq(args)
    PROVE  Idle(env, [i \in DOMAIN args |-> <<"Inscription", args[i]>>])
<1> DEFINE n == Len(args)
           f == [i \in DOMAIN args |-> <<"Inscription", args[i]>>]
           S == {m \in Nat : m <= n => Idle(env, Upto(f, m))}
<1>0. n \in Nat /\ DOMAIN args = 1..n
  BY SeqForm
<1>1. 0 \in S
  <2>1. Upto(f, 0) = <<>>
    BY Grow
  <2>2. IsSeq(<<>>) /\ \A st : IsSeq(st) => st ++ <<>> = st
    BY CatLaws
  <2>3. \A st, alt, conds : IsSeq(st) /\ IsSeq(alt) /\ IsSeq(conds) =>
            Does(env, <<>>, St(st, alt, conds), St(st, alt, conds))
    BY StRun, DoesNone
  <2>4. Idle(env, <<>>)
    BY <2>2, <2>3, Zenon DEF Idle, Skips, Maps, Live, Dead
  <2> QED  BY <2>1, <2>4
<1>2. ASSUME NEW m \in Nat, m \in S  PROVE m + 1 \in S
  <2> SUFFICES ASSUME m + 1 <= n  PROVE Idle(env, Upto(f, m + 1))
    OBVIOUS
  <2> DEFINE ins == <<"Inscription", args[m + 1]>>
             U == Upto(f, m)
  <2>1. m + 1 \in DOMAIN args
    BY <1>0
  <2>2. f[m + 1] = ins
    BY <2>1
  <2>3. Idle(env, U)
    BY <1>0, <1>2
  <2>4. Code(env, <<ins>>)
    BY CodeOps
  <2>5. ins[1] = "Inscription"
    OBVIOUS
  <2> HIDE DEF ins, f
  <2>6. \A st : IsSeq(st) => Maps(env, <<ins>>, st, st)
    BY <2>5, OpPush
  <2>7. Upto(f, m + 1) = U ++ <<ins>>
    <3>1. Upto(f, m + 1) = On(Upto(f, m), f[m + 1])
      BY Grow
    <3> QED  BY <2>2, <3>1 DEF On
  <2> HIDE DEF U
  <2>8. IsSeq(U) /\ IsSeq(<<ins>>) /\ Skips(env, U) /\ Skips(env, <<ins>>)
    BY <2>3, <2>4 DEF Idle, Code
  <2>9. IsSeq(U ++ <<ins>>) /\ Skips(env, U ++ <<ins>>)
    BY <2>8, SkipsCat, CatLaws
  <2>10. \A st : IsSeq(st) => Maps(env, U ++ <<ins>>, st, st)
    BY <2>3, <2>6, <2>8, MapsCat DEF Idle
  <2> QED  BY <2>7, <2>9, <2>10 DEF Idle
<1> HIDE DEF S
<1>3. n \in S
  BY <1>0, <1>1, <1>2, SetInduction
<1>4. Idle(env, Upto(f, n))
  BY <1>0, <1>3 DEF S
<1>5. Upto(f, n) = f
  BY <1>0 DEF Upto
<1> QED  BY <1>4, <1>5
=============================================================================

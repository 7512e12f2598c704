------------------------------- MODULE Satisfy -------------------------------
(***************************************************************************)
(* Satisfactions and dissatisfactions of an expression                     *)
(* (src/src/miniscript/satisfy.rs): the witness template that the          *)
(* malleable and the non-malleable satisfier build from the assets at hand, *)
(* and its completion.                                                     *)
(*                                                                         *)
(* The assets are a record: the keys with a signature (sigs), the key      *)
(* hashes for which a full key (raw_pk), an x-only key (raw_x_only) or a   *)
(* key with its signature (raw_sigs) can be looked up, the hashes with a   *)
(* known preimage (preimages), and the transaction's lock_time, sequence   *)
(* and template hash.                                                      *)
(***************************************************************************)
EXTENDS Miniscript

-----------------------------------------------------------------------------
(* Witness elements.  A Placeholder is named by the element it stands for; *)
(* only a key to be looked up by its hash is completed later.              *)

PushZero == <<"num", 0>>
PushOne == <<"num", 1>>
Sig(key) == <<"sig", key>>
Pubkey(key) == <<"key", key>>
PubkeyHash(key) == <<"pkh", key>>
Preimage(h) == <<"pre", h>>
HashDissatisfaction == <<"pre", "zeros">>

SchnorrSigSize == 64    \* a signature with the default sighash type

pk_len(key) ==
    CASE Ctx = "Tap" -> 33
      [] Ctx \in {"Bare", "Legacy"} /\ key \in Uncompressed -> 66
      [] OTHER -> 34

\* ItemSize of a Placeholder.
size(e) ==
    CASE e[1] \in {"key", "pkh"} -> pk_len(e[2])
      [] e[1] = "sig" -> IF Ctx = "Tap" THEN SchnorrSigSize + 1 ELSE 73
      [] e[1] = "pre" -> 33
      [] e = PushOne -> 2
      [] e = PushZero -> 1

\* Fewer than 253 elements: their number takes one byte.
witness_size(items) ==
    LET sum[n \in 0..Len(items)] == IF n = 0 THEN 1 ELSE sum[n - 1] + size(items[n])
    IN  sum[Len(items)]

-----------------------------------------------------------------------------
(* Witness and Satisfaction.  A timelock of 0 is None: no locktime of a    *)
(* Miniscript is 0.  panic tells that an assertion failed on the way.      *)

Stack(items) == [tag |-> "Stack", items |-> items]
Unavailable == [tag |-> "Unavailable", items |-> <<>>]
Impossible == [tag |-> "Impossible", items |-> <<>>]

combine(one, two) ==
    CASE "Impossible" \in {one.tag, two.tag} -> Impossible
      [] {one.tag, two.tag} = {"Stack"} -> Stack(one.items \o two.items)
      [] OTHER -> Unavailable

\* Ord of Witness: available and small first.
less(w, v) ==
    LET rank == [Stack |-> 1, Impossible |-> 2, Unavailable |-> 3]
    IN  \/ rank[w.tag] < rank[v.tag]
        \/ w.tag = "Stack" /\ v.tag = "Stack" /\ witness_size(w.items) < witness_size(v.items)

Satisfaction(stack, has_sig) ==
    [stack |-> stack, has_sig |-> has_sig, relative_timelock |-> 0,
     absolute_timelock |-> 0, panic |-> FALSE]

\* Wrong: the stacks in the order of the arguments; a timelock forgotten.
concatenate_rev_forward(one, two) ==
    [one EXCEPT !.stack = combine(one.stack, two.stack), !.has_sig = @ \/ two.has_sig]
concatenate_rev_one_lock(one, two) ==
    [one EXCEPT !.stack = combine(two.stack, one.stack), !.has_sig = @ \/ two.has_sig]

\* The stack of `two' goes before the stack of `one'.
concatenate_rev(one, two) ==
    [stack |-> combine(two.stack, one.stack),
     has_sig |-> one.has_sig \/ two.has_sig,
     relative_timelock |-> Max({one.relative_timelock, two.relative_timelock}),
     absolute_timelock |-> Max({one.absolute_timelock, two.absolute_timelock}),
     panic |-> one.panic \/ two.panic]

\* Folds the satisfactions from the first to the last.
Flatten(sats) ==
    LET cat[i \in 0..Len(sats)] ==
            IF i = 0 THEN Satisfaction(Stack(<<>>), FALSE)
            ELSE concatenate_rev(cat[i - 1], sats[i])
    IN  cat[Len(sats)]

Push(sat, e) == [sat EXCEPT !.stack = combine(sat.stack, Stack(<<e>>))]

-----------------------------------------------------------------------------
(* Choosing between satisfactions. *)

Cheaper(s, t) == IF less(s.stack, t.stack) THEN s ELSE t

\* Wrong: an impossible second satisfaction is not set aside first.
minimum_of_possible(s, t) ==
    CASE s.stack = Impossible \/ (s.has_sig /\ ~t.has_sig) -> t
      [] s.stack # Impossible /\ ~s.has_sig /\ t.has_sig -> s
      [] OTHER -> Cheaper(s, t)

\* Without a choice that a third party could reverse.
minimum(s, t) ==
    LET chosen ==
            CASE s.stack = Impossible -> t
              [] s.stack # Impossible /\ t.stack = Impossible -> s
              [] OTHER ->
                    CASE ~s.has_sig /\ ~t.has_sig -> Satisfaction(Unavailable, FALSE)
                      [] ~s.has_sig /\ t.has_sig -> s
                      [] s.has_sig /\ ~t.has_sig -> t
                      [] OTHER -> Cheaper(s, t)
    IN  [chosen EXCEPT !.panic = s.panic \/ t.panic]

\* Wrong: the second satisfaction is only looked at to compare costs.
minimum_mall_first(s, t) ==
    IF s.stack.tag # "Stack" \/ t.stack.tag # "Stack" THEN s ELSE Cheaper(s, t)

minimum_mall(s, t) ==
    LET chosen ==
            CASE s.stack.tag # "Stack" -> t
              [] s.stack.tag = "Stack" /\ t.stack.tag # "Stack" -> s
              [] OTHER -> [Cheaper(s, t) EXCEPT !.has_sig = s.has_sig /\ t.has_sig]
    IN  [chosen EXCEPT !.panic = s.panic \/ t.panic]

min_fn(mall, s, t) == IF mall THEN minimum_mall(s, t) ELSE minimum(s, t)

LexLess(s, t) ==
    \E n \in DOMAIN s : s[n] < t[n] /\ \A m \in 1..(n - 1) : s[m] = t[m]

\* More and less than any weight: i64::MAX and i64::MIN.
I64 == 1000000

stack_weight(sat, dis) ==
    CASE sat.stack.tag # "Stack" -> I64
      [] sat.stack.tag = "Stack" /\ dis.stack.tag # "Stack" -> 0 - I64
      [] OTHER -> witness_size(sat.stack.items) - witness_size(dis.stack.items)

\* What thresh and thresh_mall sort the children by.
sort_key(mall, sat, dis, i) ==
    LET bit(b) == IF b THEN 1 ELSE 0
    IN  IF mall THEN <<stack_weight(sat, dis), i>>
        ELSE <<bit(sat.stack = Impossible), bit(sat.has_sig), stack_weight(sat, dis), i>>

\* thresh and thresh_mall, for k smaller than the number of children: the
\* first k children of a stable sort are satisfied, the others dissatisfied.
thresh(mall, k, sats, diss) ==
    LET key(i) == sort_key(mall, sats[i], diss[i], i)
        rank == [i \in DOMAIN sats |->
                    Cardinality({j \in DOMAIN sats : LexLess(key(j), key(i))})]
        ret_stack == [i \in DOMAIN sats |-> IF rank[i] < k THEN sats[i] ELSE diss[i]]
        \* what the source reads in sats after the swap of the first k
        at(n) == LET i == CHOOSE j \in DOMAIN sats : rank[j] = n
                 IN  IF n < k THEN diss[i] ELSE sats[i]
        chosen ==
            CASE mall -> Flatten(ret_stack)
              [] ~mall /\ at(k - 1).stack = Impossible -> Satisfaction(Impossible, FALSE)
              [] /\ ~mall /\ at(k - 1).stack # Impossible
                 /\ ~at(k).has_sig /\ at(k).stack # Impossible ->
                    [Satisfaction(Unavailable, FALSE) EXCEPT
                        !.panic = \E i \in DOMAIN ret_stack : ret_stack[i].has_sig]
              [] OTHER -> Flatten(ret_stack)
    IN  [chosen EXCEPT !.panic =
            @ \/ \E i \in DOMAIN sats : sats[i].panic \/ diss[i].panic]

-----------------------------------------------------------------------------
(* Locktimes: height and time do not compare. *)

LOCK_TIME_THRESHOLD == 500000000

abs_is_implied_by(n, lock_time) ==
    (n < LOCK_TIME_THRESHOLD) = (lock_time < LOCK_TIME_THRESHOLD) /\ n <= lock_time

\* Bit 22 of a sequence is its unit, the low 16 bits are its value.  A
\* sequence with bit 31, which disables the lock, is a negative number here
\* (two's complement of 32 bits).
rel_is_implied_by(n, sequence) ==
    /\ (n \div 4194304) % 2 = (sequence \div 4194304) % 2
    /\ n % 65536 <= sequence % 65536

check_after(a, n) == abs_is_implied_by(n, a.lock_time)
check_older(a, n) == a.sequence >= 0 /\ rel_is_implied_by(n, a.sequence)

-----------------------------------------------------------------------------
(* satisfy_helper and dissatisfy_helper. *)

signature(a, key) == IF key \in a.sigs THEN Stack(<<Sig(key)>>) ELSE Impossible

pkh_public_key(a, key) ==
    IF key \in (IF Ctx = "Tap" THEN a.raw_x_only ELSE a.raw_pk)
    THEN Stack(<<PubkeyHash(key)>>) ELSE Unavailable

pkh_signature(a, key) ==
    IF key \in a.raw_sigs THEN Stack(<<Sig(key), PubkeyHash(key)>>) ELSE Impossible

timelock(ok, root_has_sig) ==
    CASE ok -> Stack(<<>>)
      [] ~ok /\ root_has_sig -> Impossible
      [] OTHER -> Unavailable

\* The first k signatures at hand, in the order of the keys.
multi_witness(a, k, keys) ==
    LET has == {i \in DOMAIN keys : keys[i] \in a.sigs}
        nth(n) == CHOOSE i \in has : Cardinality({j \in has : j < i}) = n - 1
    IN  IF Cardinality(has) < k THEN Satisfaction(Impossible, FALSE)
        ELSE Satisfaction(Stack(<<PushZero>> \o [i \in 1..k |-> Sig(keys[nth(i)])]), TRUE)

\* Wrong: the signatures in the order of the keys.
multi_a_witness_forward(a, k, keys) ==
    IF Cardinality({i \in DOMAIN keys : keys[i] \in a.sigs}) < k THEN Satisfaction(Impossible, FALSE)
    ELSE Satisfaction(Stack([i \in DOMAIN keys |->
            IF keys[i] \in a.sigs THEN Sig(keys[i]) ELSE PushZero]), TRUE)

\* The last k signatures at hand, from the last key to the first.
multi_a_witness(a, k, keys) ==
    LET n == Len(keys)
        has == {i \in 1..n : keys[i] \in a.sigs}
        used == {i \in has : Cardinality({j \in has : j > i}) < k}
    IN  IF Cardinality(has) < k THEN Satisfaction(Impossible, FALSE)
        ELSE Satisfaction(
                Stack([i \in 1..n |->
                    IF n + 1 - i \in used THEN Sig(keys[n + 1 - i]) ELSE PushZero]), TRUE)

\* s and d are the children's satisfactions and dissatisfactions.
satisfy_helper(t, a, root_has_sig, mall, s, d) ==
    LET f == t.frag
    IN  CASE f = "PkK" -> Satisfaction(signature(a, t.args[1]), TRUE)
          [] f = "PkH" ->
                Satisfaction(combine(signature(a, t.args[1]),
                                     Stack(<<Pubkey(t.args[1])>>)), TRUE)
          [] f = "RawPkH" -> Satisfaction(pkh_signature(a, t.args[1]), TRUE)
          [] f = "After" ->
                [Satisfaction(timelock(check_after(a, t.k), root_has_sig), FALSE) EXCEPT
                    !.absolute_timelock = IF check_after(a, t.k) THEN t.k ELSE 0]
          [] f = "Older" ->
                [Satisfaction(timelock(check_older(a, t.k), root_has_sig), FALSE) EXCEPT
                    !.relative_timelock = IF check_older(a, t.k) THEN t.k ELSE 0]
          [] f \in HashFrags ->
                Satisfaction(IF t.args[1] \in a.preimages
                             THEN Stack(<<Preimage(t.args[1])>>) ELSE Unavailable, FALSE)
          [] f = "TxTemplate" ->
                Satisfaction(IF a.template = t.args[1] THEN Stack(<<>>) ELSE Impossible, FALSE)
          [] f = "True" -> Satisfaction(Stack(<<>>), FALSE)
          [] f = "False" -> Satisfaction(Impossible, FALSE)
          [] f \in (WrapFrags \ {"DupIf"}) \cup InscribeFrags -> s[1]
          [] f = "DupIf" -> Push(s[1], PushOne)
          [] f \in {"AndV", "AndB"} -> concatenate_rev(s[1], s[2])
          [] f = "AndOr" ->
                min_fn(mall, concatenate_rev(s[1], s[2]), concatenate_rev(d[1], s[3]))
          [] f = "OrB" ->
                LET m == min_fn(mall, concatenate_rev(d[1], s[2]), concatenate_rev(s[1], d[2]))
                IN  [m EXCEPT !.panic = @ \/ d[1].has_sig \/ d[2].has_sig]
          [] f \in {"OrD", "OrC"} ->
                LET m == min_fn(mall, s[1], concatenate_rev(d[1], s[2]))
                IN  [m EXCEPT !.panic = @ \/ d[1].has_sig]
          [] f = "OrI" -> min_fn(mall, Push(s[1], PushOne), Push(s[2], PushZero))
          [] f = "Thresh" ->
                IF t.k = Len(s) THEN Flatten(s) ELSE thresh(mall, t.k, s, d)
          [] f = "Multi" -> multi_witness(a, t.k, t.args)
          [] f = "MultiA" -> multi_a_witness(a, t.k, t.args)

NoTimelocks(sat) == [sat EXCEPT !.relative_timelock = 0, !.absolute_timelock = 0]

dissatisfy_helper(t, a, s, d) ==
    LET f == t.frag
        zeros(n) == Stack([i \in 1..n |-> PushZero])
    IN  CASE f = "PkK" -> Satisfaction(zeros(1), FALSE)
          [] f = "PkH" -> Satisfaction(Stack(<<PushZero, Pubkey(t.args[1])>>), FALSE)
          [] f = "RawPkH" ->
                Satisfaction(combine(zeros(1), pkh_public_key(a, t.args[1])), FALSE)
          [] f = "False" -> Satisfaction(Stack(<<>>), FALSE)
          [] f \in {"True", "TxTemplate", "Older", "After", "Verify", "OrC"} ->
                Satisfaction(Impossible, FALSE)
          [] f \in HashFrags -> Satisfaction(Stack(<<HashDissatisfaction>>), FALSE)
          [] f \in InscribeFrags \cup {"Alt", "Swap", "Check", "ZeroNotEqual"} -> d[1]
          [] f \in {"DupIf", "NonZero"} -> Satisfaction(zeros(1), FALSE)
          [] f = "AndV" -> concatenate_rev(s[1], d[2])
          [] f \in {"AndB", "OrB", "OrD"} -> concatenate_rev(d[1], d[2])
          [] f = "AndOr" -> concatenate_rev(d[1], d[3])
          [] f = "OrI" -> minimum_mall(NoTimelocks(Push(d[1], PushOne)),
                                       NoTimelocks(Push(d[2], PushZero)))
          [] f = "Thresh" -> Flatten(d)
          [] f = "Multi" -> Satisfaction(zeros(t.k + 1), FALSE)
          [] f = "MultiA" -> Satisfaction(zeros(Len(t.args)), FALSE)

\* The satisfaction and dissatisfaction of every node of the arena.
Satisfactions(nodes, a, root_has_sig, mall) ==
    LET upto[n \in 0..Len(nodes)] ==
            IF n = 0 THEN <<>>
            ELSE LET done == upto[n - 1]
                     t == nodes[n]
                     s == [j \in DOMAIN t.subs |-> done[t.subs[j]].sat]
                     d == [j \in DOMAIN t.subs |-> done[t.subs[j]].dis]
                 IN  Append(done, [sat |-> satisfy_helper(t, a, root_has_sig, mall, s, d),
                                   dis |-> dissatisfy_helper(t, a, s, d)])
    IN  upto[Len(nodes)]

build_template(nodes, root, a, mall) ==
    Satisfactions(nodes, a, nodes[root].ty.mall.safe, mall)[root].sat

-----------------------------------------------------------------------------
(* Placeholder::satisfy_self: a key hash is looked up again, through other *)
(* functions of the satisfier than the template was built with.  They give *)
(* a full key, whose size is not the one that a Tapscript template holds   *)
(* (debug assertion).                                                      *)

completes(a, e) ==
    e[1] = "pkh" => Ctx # "Tap" /\ e[2] \in a.raw_pk \cup a.raw_sigs

satisfy_self(e) == IF e[1] = "pkh" THEN Pubkey(e[2]) ELSE e

\* Satisfaction::try_completing, and the expect(..) of its callers.
try_completing(sat, items, a) ==
    IF \A i \in DOMAIN items : completes(a, items[i])
    THEN [sat EXCEPT !.stack.items = [i \in DOMAIN items |-> satisfy_self(items[i])]]
    ELSE [sat EXCEPT !.panic = TRUE]

Completed(sat, a) == try_completing(sat, sat.stack.items, a)

\* Satisfaction::satisfy and satisfy_mall.
satisfy(nodes, root, a, mall) == Completed(build_template(nodes, root, a, mall), a)
=============================================================================

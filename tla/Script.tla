------------------------------- MODULE Script -------------------------------
(***************************************************************************)
(* External: how Bitcoin executes a script that Miniscript encodes, with   *)
(* the rules that Miniscript relies on (MINIMALIF, NULLFAIL, NULLDUMMY,    *)
(* CLEANSTACK, strict signatures).  It is the reference that satisfactions *)
(* and interpretations are compared with.                                  *)
(*                                                                         *)
(* A run may also find its own witness: when it needs an element that is   *)
(* not on the stack, it takes any element of env.avail.  As a run has to   *)
(* end with one element, all witnesses over avail that a script accepts    *)
(* are found this way, whatever their length.                              *)
(***************************************************************************)
EXTENDS Satisfy

CONSTANT Keys          \* the names that are public keys

\* A 32-byte string that is the preimage of nothing is <<"pre", ...>> too;
\* <<"junk", ...>> is a string of another size that is no number.
elem_size(e) ==
    CASE e[1] = "num" -> IF e[2] = 0 THEN 0 ELSE 1
      [] e[1] = "pre" -> 32
      [] e[1] = "key" -> pk_len(e[2]) - 1
      [] e[1] = "digest" -> 32
      [] OTHER -> 72

digest(e) == <<"digest", IF e[1] \in {"pre", "key"} THEN e[2] ELSE "unknown">>

number(n) == <<"num", n>>
truth(b) == number(IF b THEN 1 ELSE 0)
is_true(e) == e # number(0)

\* What a push instruction pushes.
pushed(ins) ==
    CASE ins[1] = "Num" -> number(ins[2])
      [] ins[1] # "Num" /\ ins[1] # "Hash20" /\ ins[2] \in Keys -> <<"key", ins[2]>>
      [] OTHER -> <<"digest", ins[2]>>

-----------------------------------------------------------------------------
(* A run: the stacks (top last), the branches it is in and the witness     *)
(* elements it took.                                                       *)

Run(stack) == [stack |-> stack, alt |-> <<>>, conds |-> <<>>, wit |-> <<>>]

\* The runs with at least n elements on the stack.
Need(r, n, avail) ==
    LET lacks == n - Len(r.stack)
    IN  IF lacks <= 0 THEN {r}
        ELSE {[r EXCEPT !.stack = es \o @, !.wit = es \o @] : es \in [1..lacks -> avail]}

Nth(r, i) == r.stack[Len(r.stack) + 1 - i]
Replace(r, n, es) == [r EXCEPT !.stack = SubSeq(@, 1, Len(@) - n) \o es]
When(ok, r) == IF ok THEN {r} ELSE {}

Both(r, i, kind) == Nth(r, 1)[1] = kind /\ Nth(r, i)[1] = kind

sig_ok(sig, key) == key[1] = "key" /\ sig = <<"sig", key[2]>>
sig_or_empty(sig, key) == key[1] = "key" /\ (sig_ok(sig, key) \/ sig = number(0))

\* Signatures match keys in the same order.
multisig_ok(sigs, keys) ==
    \E f \in [DOMAIN sigs -> DOMAIN keys] :
        /\ \A i, j \in DOMAIN sigs : i < j => f[i] < f[j]
        /\ \A i \in DOMAIN sigs : sig_ok(sigs[i], keys[f[i]])

exec_multisig(r, avail) ==
    LET n == Nth(r, 1)[2]
        k == Nth(r, n + 2)[2]
        after(s) ==
            LET keys == [i \in 1..n |-> Nth(s, n + 2 - i)]
                sigs == [i \in 1..k |-> Nth(s, n + k + 3 - i)]
                dummy == Nth(s, n + k + 3)
                ok == multisig_ok(sigs, keys)
            IN  When(/\ dummy = number(0)
                     /\ ok \/ \A i \in 1..k : sigs[i] = number(0),
                     Replace(s, n + k + 3, <<truth(ok)>>))
    IN  UNION {after(s) : s \in Need(r, n + k + 3, avail)}

\* The number of elements an opcode looks at.
arity(op) ==
    CASE op \in {"BoolAnd", "BoolOr", "Add", "Equal", "EqualVerify", "NumEqual",
                 "NumEqualVerify", "CheckSig", "CheckSigVerify", "Swap"} -> 2
      [] op = "CheckSigAdd" -> 3
      [] op \in {"FromAltStack", "Inscription", "Num", "Hash20", "Bytes32",
                 "Bytes33", "Bytes65"} -> 0
      [] OTHER -> 1

exec_op(op, ins, r, tx) ==
    LET e == Nth(r, 1)
        below == Nth(r, 2)
    IN
    CASE op \in {"Num", "Hash20", "Bytes32", "Bytes33", "Bytes65"} ->
            {Replace(r, 0, <<pushed(ins)>>)}
      [] op = "Inscription" -> {r}
      [] op = "Dup" -> {Replace(r, 0, <<e>>)}
      [] op = "IfDup" -> {IF is_true(e) THEN Replace(r, 0, <<e>>) ELSE r}
      [] op = "Drop" -> {Replace(r, 1, <<>>)}
      [] op = "Swap" -> {Replace(r, 2, <<e, below>>)}
      [] op = "Size" -> {Replace(r, 0, <<number(elem_size(e))>>)}
      [] op = "ToAltStack" -> {[Replace(r, 1, <<>>) EXCEPT !.alt = Append(@, e)]}
      [] op = "FromAltStack" ->
            {[Replace(r, 0, <<r.alt[Len(r.alt)]>>) EXCEPT !.alt = SubSeq(@, 1, Len(@) - 1)]}
      [] op = "Verify" -> When(is_true(e), Replace(r, 1, <<>>))
      [] op = "ZeroNotEqual" ->
            When(e[1] = "num", Replace(r, 1, <<truth(is_true(e))>>))
      [] op = "Add" ->
            When(Both(r, 2, "num"), Replace(r, 2, <<number(e[2] + below[2])>>))
      [] op = "BoolAnd" ->
            When(Both(r, 2, "num"), Replace(r, 2, <<truth(is_true(e) /\ is_true(below))>>))
      [] op = "BoolOr" ->
            When(Both(r, 2, "num"), Replace(r, 2, <<truth(is_true(e) \/ is_true(below))>>))
      [] op = "Equal" -> {Replace(r, 2, <<truth(e = below)>>)}
      [] op = "EqualVerify" -> When(e = below, Replace(r, 2, <<>>))
      [] op = "NumEqual" ->
            When(Both(r, 2, "num"), Replace(r, 2, <<truth(e = below)>>))
      [] op = "NumEqualVerify" ->
            When(Both(r, 2, "num") /\ e = below, Replace(r, 2, <<>>))
      [] op \in HashFrags -> {Replace(r, 1, <<digest(e)>>)}
      [] op = "CheckSig" ->
            When(sig_or_empty(below, e), Replace(r, 2, <<truth(sig_ok(below, e))>>))
      [] op = "CheckSigVerify" -> When(sig_ok(below, e), Replace(r, 2, <<>>))
      [] op = "CheckSigAdd" ->
            When(/\ below[1] = "num"
                 /\ sig_or_empty(Nth(r, 3), e),
                 Replace(r, 3, <<number(below[2] + (IF sig_ok(Nth(r, 3), e) THEN 1 ELSE 0))>>))
      [] op = "CheckLockTimeVerify" ->
            When(abs_is_implied_by(e[2], tx.lock_time) /\ tx.sequence # -1, r)
      [] op = "CheckSequenceVerify" ->
            When(tx.sequence >= 0 /\ rel_is_implied_by(e[2], tx.sequence), r)
      [] op = "CheckTemplateVerify" -> When(e = <<"digest", tx.template>>, r)

\* The runs after one instruction.
exec_ins(ins, r, env) ==
    LET op == ins[1]
        live == \A i \in DOMAIN r.conds : r.conds[i]
        taken(s) ==
            When(Nth(s, 1) \in {number(0), number(1)},
                 [Replace(s, 1, <<>>) EXCEPT !.conds =
                    Append(@, is_true(Nth(s, 1)) = (op = "If"))])
    IN
    CASE op \in {"If", "NotIf"} ->
            IF live THEN UNION {taken(s) : s \in Need(r, 1, env.avail)}
            ELSE {[r EXCEPT !.conds = Append(@, FALSE)]}
      [] op = "Else" -> {[r EXCEPT !.conds[Len(r.conds)] = ~@]}
      [] op = "EndIf" -> {[r EXCEPT !.conds = SubSeq(@, 1, Len(@) - 1)]}
      [] op \notin {"If", "NotIf", "Else", "EndIf"} /\ ~live -> {r}
      [] OTHER ->
            CASE op = "CheckMultiSig" -> exec_multisig(r, env.avail)
              [] op = "CheckMultiSigVerify" ->
                    {Replace(s, 1, <<>>) :
                        s \in {v \in exec_multisig(r, env.avail) : is_true(Nth(v, 1))}}
              [] OTHER ->
                    UNION {exec_op(op, ins, s, env.tx) : s \in Need(r, arity(op), env.avail)}

\* The runs of a script that succeed.
exec(script, stack, env) ==
    LET runs[n \in 0..Len(script)] ==
            IF n = 0 THEN {Run(stack)}
            ELSE UNION {exec_ins(script[n], r, env) : r \in runs[n - 1]}
    IN  {r \in runs[Len(script)] : Len(r.stack) = 1 /\ is_true(r.stack[1])}

accepts(script, stack, tx) == exec(script, stack, [avail |-> {}, tx |-> tx]) # {}

\* All witnesses over avail that the script accepts.
witnesses(script, avail, tx) ==
    {r.wit : r \in exec(script, <<>>, [avail |-> avail, tx |-> tx])}
=============================================================================

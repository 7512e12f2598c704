------------------------------ MODULE SatData ------------------------------
(***************************************************************************)
(* Worst-case sizes of satisfactions and dissatisfactions                  *)
(* (src/src/miniscript/types/extra_props.rs) and the limits that           *)
(* ScriptContext::check_local_validity (context.rs) puts on them.          *)
(*                                                                         *)
(* An Option is a sequence of at most one element.  The data of a node is  *)
(* a record: static_ops, sat (sat_data) and dis (dissat_data).             *)
(***************************************************************************)
EXTENDS Satisfy

\* Witness bytes, witness elements, scriptSig bytes, extra stack elements
\* during the execution, executed opcodes.
SatData(bytes, count, script_sig, exec, ops) ==
    << [size |-> bytes, count |-> count, script_sig |-> script_sig, exec |-> exec, ops |-> ops] >>
NoData == <<>>
Data(static_ops, sat, dis) == [static_ops |-> static_ops, sat |-> sat, dis |-> dis]

fieldwise_max_opt(x, y) ==
    IF x = NoData \/ y = NoData THEN x \o y
    ELSE << [f \in DOMAIN x[1] |-> Max({x[1][f], y[1][f]})] >>

\* Both in a row; held is the number of results of the first that the
\* second one has under it.
in_sequence(x, y, held) ==
    IF x = NoData \/ y = NoData THEN NoData
    ELSE SatData(x[1].size + y[1].size, x[1].count + y[1].count,
                 x[1].script_sig + y[1].script_sig,
                 Max({x[1].exec, y[1].exec + held}), x[1].ops + y[1].ops)

Selector(x, bytes) ==
    IF x = NoData THEN NoData
    ELSE SatData(x[1].size + bytes, x[1].count + 1, x[1].script_sig + 1, x[1].exec, x[1].ops)
with_0(x) == Selector(x, 1)

\* Wrong: a 1 takes one byte, as OP_1 does in a scriptSig.
With1AsOpcode(x) == Selector(x, 1)

with_1(x) == Selector(x, 2)

-----------------------------------------------------------------------------

sig_bytes == IF Ctx = "Tap" THEN 66 ELSE 73
Trivial == SatData(0, 0, 0, 1, 0)
OneZero == SatData(1, 1, 1, 1, 0)

pk_h_data(unknown, key) ==
    LET bytes == IF unknown /\ Ctx # "Tap" THEN 34 ELSE key_bytes(Ctx = "Tap", key \in Uncompressed)
    IN  Data(3, SatData(bytes + sig_bytes, 2, bytes + sig_bytes, 2, 0),
                SatData(bytes + 1, 2, bytes + 1, 2, 0))

multi_data(k, n) ==
    Data(1, SatData(1 + 73 * k, k + 1, 1 + 73 * k, n, n), SatData(1 + k, k + 1, 1 + k, n, n))

multi_a_data(k, n) ==
    Data(0, SatData((n - k) + 66 * k, n, 0, 2, 0), SatData(n, n, 0, 2, 0))

leaf_data(frag, k, args) ==
    CASE frag = "True" -> Data(0, Trivial, NoData)
      [] frag = "False" -> Data(0, NoData, Trivial)
      [] frag = "PkK" -> Data(0, SatData(sig_bytes, 1, sig_bytes, 1, 0), OneZero)
      [] frag \in {"PkH", "RawPkH"} -> pk_h_data(frag = "RawPkH", args[1])
      [] frag \in {"After", "Older"} -> Data(1, Trivial, NoData)
      [] frag \in HashFrags -> Data(4, SatData(33, 1, 33, 2, 0), SatData(33, 2, 33, 2, 0))
      [] frag = "TxTemplate" -> Data(2, Trivial, NoData)
      [] frag = "Multi" -> multi_data(k, Len(args))
      [] frag = "MultiA" -> multi_a_data(k, Len(args))

\* The wrappers that leave the witness alone, with their opcodes.
Transparent == [Alt |-> 2, Swap |-> 1, Check |-> 1, ZeroNotEqual |-> 1]

wrap_data(frag, x, has_free_verify) ==
    CASE frag \in DOMAIN Transparent -> [x EXCEPT !.static_ops = @ + Transparent[frag]]
      [] frag = "Verify" ->
            Data(x.static_ops + (IF has_free_verify THEN 0 ELSE 1), x.sat, NoData)
      [] frag = "NonZero" -> Data(x.static_ops + 4, x.sat, OneZero)
      [] frag = "DupIf" ->
            \* one byte and two elements more: the bytes and elements of a
            \* 1 the other way round
            Data(x.static_ops + 3,
                 IF x.sat = NoData THEN NoData
                 ELSE SatData(x.sat[1].size + 1, x.sat[1].count + 2, x.sat[1].script_sig + 1,
                              Max({1, x.sat[1].exec}), x.sat[1].ops),
                 OneZero)

inscribing_data(x, n, postfix) ==
    LET exec(d) == IF d = NoData THEN NoData
                   ELSE << [d[1] EXCEPT !.exec = IF postfix THEN @ + 1 ELSE Max({@, 1})] >>
    IN  Data(x.static_ops + 2 * n, exec(x.sat), exec(x.dis))

or_sat(l, r) == fieldwise_max_opt(l.sat, in_sequence(l.dis, r.sat, 0))

binary_data(frag, l, r) ==
    LET ops == l.static_ops + r.static_ops
    IN  CASE frag = "AndV" -> Data(ops, in_sequence(l.sat, r.sat, 0), NoData)
          [] frag = "AndB" ->
                Data(ops + 1, in_sequence(l.sat, r.sat, 1), in_sequence(l.dis, r.dis, 1))
          [] frag = "OrB" ->
                Data(ops + 1,
                     fieldwise_max_opt(in_sequence(l.sat, r.dis, 1), in_sequence(l.dis, r.sat, 1)),
                     in_sequence(l.dis, r.dis, 1))
          [] frag = "OrD" -> Data(ops + 3, or_sat(l, r), in_sequence(l.dis, r.dis, 0))
          [] frag = "OrC" -> Data(ops + 2, or_sat(l, r), NoData)
          [] frag = "OrI" ->
                Data(ops + 3, fieldwise_max_opt(with_1(l.sat), with_0(r.sat)),
                              fieldwise_max_opt(with_1(l.dis), with_0(r.dis)))

and_or_data(a, b, c) ==
    Data(a.static_ops + b.static_ops + c.static_ops + 3,
         fieldwise_max_opt(in_sequence(a.sat, b.sat, 0), in_sequence(a.dis, c.sat, 0)),
         in_sequence(a.dis, c.dis, 0))

-----------------------------------------------------------------------------
(* Thresholds.  For every field the children are sorted by the difference  *)
(* between satisfying and dissatisfying them, and the dearest are          *)
(* satisfied.                                                              *)

Fields == <<"count", "size", "script_sig", "exec", "ops">>   \* in the order of the sorts
HasBoth(d) == d.sat # NoData /\ d.dis # NoData

accumulate(f, acc, x) ==
    IF f = "exec" THEN Max({acc, x + (IF acc > 0 THEN 1 ELSE 0)}) ELSE acc + x

\* The value of the m-th field.  The sorts are stable: ties keep the order
\* of the sort before.  A child without data sorts first.  The sorted
\* children are read from the last to the first.
threshold_field(k, subs, m) ==
    LET f == Fields[m]
        key(i) == [j \in 1..(m + 1) |->
                      CASE j = m + 1 -> i
                        [] j <= m /\ ~HasBoth(subs[i]) -> 0 - I64
                        [] OTHER -> subs[i].sat[1][Fields[m + 1 - j]] - subs[i].dis[1][Fields[m + 1 - j]]]
        place == [i \in DOMAIN subs |-> Cardinality({j \in DOMAIN subs : LexLess(key(i), key(j))})]
        \* i <= k of the source: one child more than the threshold
        part(p) == LET d == subs[CHOOSE i \in DOMAIN subs : place[i] = p]
                   IN  IF p <= k THEN d.sat ELSE d.dis
        upto[p \in 0..Len(subs)] ==
            IF p = 0 THEN <<0>>
            ELSE LET acc == upto[p - 1]
                     x == part(p - 1)
                 IN  IF acc = <<>> \/ x = NoData THEN <<>>
                     ELSE << accumulate(f, acc[1], x[1][f]) >>
    IN  upto[Len(subs)]

threshold_data(k, subs) ==
    LET all(f) == LET upto[p \in 0..Len(subs)] ==
                          IF p = 0 THEN 0 ELSE upto[p - 1] + subs[p].dis[1][f]
                  IN  upto[Len(subs)]
        v == [m \in DOMAIN Fields |-> threshold_field(k, subs, m)]
    IN  Data(SumOver(DOMAIN subs, LAMBDA i : subs[i].static_ops) + Len(subs),
             IF \E m \in DOMAIN v : v[m] = <<>> THEN NoData
             ELSE SatData(v[2][1], v[1][1], v[3][1], v[4][1], v[5][1]),
             IF \E i \in DOMAIN subs : subs[i].dis = NoData THEN NoData
             ELSE SatData(all("size"), all("count"), all("script_sig"),
                          Max({subs[i].dis[1].exec : i \in DOMAIN subs}), all("ops")))

-----------------------------------------------------------------------------
(* ExtData::type_check, for every node of the arena. *)

data_of(t, ext, d) ==
    CASE t.frag \in LeafFrags -> leaf_data(t.frag, t.k, t.args)
      [] t.frag \in WrapFrags -> wrap_data(t.frag, d[1], ext[1].has_free_verify)
      [] t.frag \in InscribeFrags -> inscribing_data(d[1], Len(t.args), t.frag = "InscribePost")
      [] t.frag \in BinaryFrags -> binary_data(t.frag, d[1], d[2])
      [] t.frag = "AndOr" -> and_or_data(d[1], d[2], d[3])
      [] t.frag = "Thresh" -> threshold_data(t.k, d)

all_data(nodes) ==
    LET upto[n \in 0..Len(nodes)] ==
            IF n = 0 THEN <<>>
            ELSE LET done == upto[n - 1]
                     subs == nodes[n].subs
                 IN  Append(done, data_of(nodes[n], [j \in DOMAIN subs |-> nodes[subs[j]].ext],
                                          [j \in DOMAIN subs |-> done[subs[j]]]))
    IN  upto[Len(nodes)]

data(nodes, root) == all_data(nodes)[root]

sat_op_count(d) == IF d.sat = NoData THEN <<>> ELSE << d.static_ops + d.sat[1].ops >>

\* Miniscript::max_satisfaction_witness_elements and max_satisfaction_size.
max_satisfaction_witness_elements(d) == IF d.sat = NoData THEN <<>> ELSE << d.sat[1].count + 1 >>
max_satisfaction_size(d) ==
    IF d.sat = NoData THEN <<>>
    ELSE << IF Ctx \in {"Bare", "Legacy"} THEN d.sat[1].script_sig ELSE d.sat[1].size >>

-----------------------------------------------------------------------------
(* Miniscript::script_size: a second count of the bytes of the script, in  *)
(* one pass over the nodes of an expression.                               *)

OwnBytes ==
    [TxTemplate |-> 35, AndV |-> 0, True |-> 1, False |-> 1, Swap |-> 1, Check |-> 1,
     ZeroNotEqual |-> 1, AndB |-> 1, OrB |-> 1, Alt |-> 2, OrC |-> 2, DupIf |-> 3, AndOr |-> 3,
     OrD |-> 3, OrI |-> 3, NonZero |-> 4, PkH |-> 24, RawPkH |-> 24, Ripemd160 |-> 27,
     Hash160 |-> 27, Sha256 |-> 39, Hash256 |-> 39]

script_size(nodes) ==
    LET keys(t) == SumOver(DOMAIN t.args, LAMBDA j : pk_len(t.args[j]))
        own(i) ==
            LET t == nodes[i]
            IN  CASE t.frag \in DOMAIN OwnBytes -> OwnBytes[t.frag]
                  [] t.frag \in InscribeFrags -> InscriptionSize * Len(t.args)
                  [] t.frag = "PkK" -> keys(t)
                  [] t.frag \in {"After", "Older"} -> script_num_size(t.k) + 1
                  [] t.frag = "Verify" -> IF nodes[t.subs[1]].ext.has_free_verify THEN 0 ELSE 1
                  [] t.frag = "Thresh" -> script_num_size(t.k) + 1 + Len(t.subs) - 1
                  [] t.frag = "Multi" -> script_num_size(t.k) + 1 + script_num_size(Len(t.args)) + keys(t)
                  [] t.frag = "MultiA" -> script_num_size(t.k) + 1 + keys(t) + Len(t.args)
    IN  SumOver(DOMAIN nodes, own)

-----------------------------------------------------------------------------
(* context.rs, limits.rs *)

AtMost(opt, limit) == opt # <<>> /\ opt[1] <= limit

check_local_consensus_validity(d) ==
    IF Ctx = "Tap" THEN d.sat # NoData => d.sat[1].count + d.sat[1].exec <= 1000
    ELSE AtMost(sat_op_count(d), 201)

check_local_policy_validity(d) ==
    CASE Ctx = "Legacy" -> AtMost(max_satisfaction_size(d), 1650)
      [] Ctx = "Segwitv0" -> AtMost(max_satisfaction_witness_elements(d), 100)
      [] OTHER -> TRUE

\* analyzable.rs; the global checks were passed in from_ast.
within_resource_limits(d) == check_local_consensus_validity(d) /\ check_local_policy_validity(d)
=============================================================================

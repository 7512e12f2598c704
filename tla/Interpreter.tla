----------------------------- MODULE Interpreter -----------------------------
(***************************************************************************)
(* The interpreter of a spent output (src/src/interpreter): it runs an     *)
(* expression over the witness and yields the constraints that hold.  One  *)
(* action is one turn of the loop of Iter::iter_next (mod.rs).             *)
(*                                                                         *)
(* A stack element is Satisfied, Dissatisfied or a push; Satisfied is the  *)
(* byte string 1, Dissatisfied the empty one (stack.rs), so a witness is   *)
(* read as it is.                                                          *)
(***************************************************************************)
EXTENDS Satisfy

VARIABLES
    program,             \* Inner::Script: arena of the expression, its root last
    output_key,          \* Inner::PublicKey: the key of an output without a script
    tx,                  \* lock_time, sequence and template of the transaction
    state,               \* stack of the fragments to evaluate, top last
    public_key,          \* the key that is still to be checked, or "none"
    witness,             \* Interpreter.stack, from which stack is cloned
    stack,               \* Stack: the elements, top last
    yielded,             \* the SatisfiedConstraints, in the order of next()
    result               \* "idle", "running", "ok", "err", "panic"

given == <<program, output_key, tx, witness>>
ivars == <<given, state, public_key, stack, yielded, result>>

Satisfied_ == PushOne
Dissatisfied == PushZero
Bool(b) == IF b THEN Satisfied_ ELSE Dissatisfied
\* Wrong: any push chooses a branch.
IsBool_any(e) == TRUE
IsBool(e) == e \in {Satisfied_, Dissatisfied}

NodeState(node, n_evaluated, n_satisfied) ==
    [node |-> node, n_evaluated |-> n_evaluated, n_satisfied |-> n_satisfied]

-----------------------------------------------------------------------------
(* The fragment in hand and the elements it may pop. *)

This == state[Len(state)]
Node == program[This.node]
Rest == SubSeq(state, 1, Len(state) - 1)
\* Wrong: a child starts with its parent's counters.
Sub_resumed(i) == NodeState(Node.subs[i], This.n_evaluated, This.n_satisfied)
Sub(i) == NodeState(Node.subs[i], 0, 0)
Self(evaluated, satisfied) == NodeState(This.node, evaluated, satisfied)

Peek(i) == stack[Len(stack) + 1 - i]
Pop(n) == SubSeq(stack, 1, Len(stack) - n)

At(frags) ==
    /\ result = "running"
    /\ state # <<>>
    /\ Node.frag \in frags

\* Go on with the given stack, fragments and constraints.
Goto(stack_, push, constraints) ==
    /\ stack' = stack_
    /\ state' = Rest \o push
    /\ yielded' = yielded \o constraints
    /\ UNCHANGED <<given, public_key, result>>

\* next() returns an error, and nothing afterwards: has_errored is set and
\* what is left on the stack is not read again.
Fail(how) ==
    /\ result' = how
    /\ UNCHANGED <<given, state, public_key, stack, yielded>>

\* debug_assert: the fragment has not been evaluated in part.
Fresh(A) == IF This.n_evaluated = 0 /\ This.n_satisfied = 0 THEN A ELSE Fail("panic")

-----------------------------------------------------------------------------
(* stack.rs.  A signature is valid for its key; every other push is not. *)

\* Wrong: a signature of any key.
verify_sersig_any(key, e) == e[1] = "sig"
verify_sersig(key, e) == e = Sig(key)

EvalPk ==
    /\ At({"PkK"})
    /\ LET key == Node.args[1]
       IN  Fresh(CASE stack = <<>> -> Fail("err")
                   [] stack # <<>> /\ Peek(1) = Dissatisfied -> Goto(stack, <<>>, <<>>)
                   [] stack # <<>> /\ verify_sersig(key, Peek(1)) ->
                        Goto(Append(Pop(1), Satisfied_), <<>>, <<<<"PublicKey", key>>>>)
                   [] OTHER -> Fail("err"))

EvalPkh ==
    /\ At({"PkH", "RawPkH"})
    /\ LET key == Node.args[1]
       IN  Fresh(IF Len(stack) < 2 \/ Peek(1) # Pubkey(key) THEN Fail("err")
                 ELSE CASE Peek(2) = Dissatisfied ->
                             Goto(Append(Pop(2), Dissatisfied), <<>>, <<>>)
                        [] verify_sersig(key, Peek(2)) ->
                             Goto(Append(Pop(2), Satisfied_), <<>>,
                                  <<<<"PublicKeyHash", key>>>>)
                        [] OTHER -> Fail("err"))

EvalConst ==
    /\ At({"True", "False"})
    /\ Fresh(Goto(Append(stack, Bool(Node.frag = "True")), <<>>, <<>>))

EvalTxTemplate ==
    /\ At({"TxTemplate"})
    /\ Fresh(IF tx.template = Node.args[1]
             THEN Goto(stack, <<>>, <<<<"TxTemplate", Node.args[1]>>>>)
             ELSE Fail("err"))

EvalAfter ==
    /\ At({"After"})
    /\ Fresh(IF abs_is_implied_by(Node.k, tx.lock_time)
             THEN Goto(Append(stack, Satisfied_), <<>>, <<<<"AbsoluteTimelock", Node.k>>>>)
             ELSE Fail("err"))

EvalOlder ==
    /\ At({"Older"})
    /\ Fresh(IF tx.sequence >= 0 /\ rel_is_implied_by(Node.k, tx.sequence)
             THEN Goto(Append(stack, Satisfied_), <<>>, <<<<"RelativeTimelock", Node.k>>>>)
             ELSE Fail("err"))

\* A push of 32 bytes: a string that preimages are drawn from or an x-only key.
Is32(e) == e[1] = "pre" \/ (e[1] = "key" /\ Ctx = "Tap")

EvalHash ==
    /\ At(HashFrags)
    /\ LET h == Node.args[1]
       IN  Fresh(CASE stack = <<>> -> Fail("err")
                   [] stack # <<>> /\ Peek(1) = Preimage(h) ->
                        Goto(Append(Pop(1), Satisfied_), <<>>, <<<<"HashLock", h>>>>)
                   [] stack # <<>> /\ Peek(1) # Preimage(h) /\ Is32(Peek(1)) ->
                        Goto(Append(Pop(1), Dissatisfied), <<>>, <<>>)
                   [] OTHER -> Fail("err"))

-----------------------------------------------------------------------------
(* Wrappers. *)

Descend ==
    /\ At({"Alt", "Swap", "Check"} \cup InscribeFrags)
    /\ Fresh(Goto(stack, <<Sub(1)>>, <<>>))

EvalDupIf ==
    /\ At({"DupIf"})
    /\ IF This.n_evaluated = 1 THEN Goto(Append(stack, Satisfied_), <<>>, <<>>)
       ELSE IF stack = <<>> \/ ~IsBool(Peek(1)) THEN Fail("err")
       ELSE IF Peek(1) = Dissatisfied THEN Goto(stack, <<>>, <<>>)
       ELSE Goto(Pop(1), <<Self(1, 1), Sub(1)>>, <<>>)

EvalVerify ==
    /\ At({"Verify"})
    /\ IF This.n_evaluated = 0 THEN Goto(stack, <<Self(1, 0), Sub(1)>>, <<>>)
       ELSE IF stack # <<>> /\ Peek(1) = Satisfied_ THEN Goto(Pop(1), <<>>, <<>>)
       ELSE Fail("err")

EvalZeroNotEqual ==
    /\ At({"ZeroNotEqual"})
    /\ IF This.n_evaluated = 0 THEN Goto(stack, <<Self(1, 0), Sub(1)>>, <<>>)
       ELSE IF stack = <<>> THEN Fail("err")
       ELSE Goto(Append(Pop(1), Bool(Peek(1) # Dissatisfied)), <<>>, <<>>)

EvalNonZero ==
    /\ At({"NonZero"})
    /\ Fresh(CASE stack = <<>> -> Fail("err")
               [] stack # <<>> /\ Peek(1) = Dissatisfied -> Goto(stack, <<>>, <<>>)
               [] OTHER -> Goto(stack, <<Sub(1)>>, <<>>))

-----------------------------------------------------------------------------
(* Conjunctions and disjunctions. *)

EvalAndV == At({"AndV"}) /\ Fresh(Goto(stack, <<Sub(2), Sub(1)>>, <<>>))

\* and_b and or_b evaluate the left child, then the right one, then combine.
EvalBoth ==
    /\ At({"AndB", "OrB"})
    /\ CASE This.n_evaluated = 0 -> Goto(stack, <<Self(1, 0), Sub(1)>>, <<>>)
         [] This.n_evaluated = 1 ->
                IF stack = <<>> \/ ~IsBool(Peek(1)) THEN Fail("err")
                ELSE Goto(Pop(1), <<Self(2, IF Peek(1) = Satisfied_ THEN 1 ELSE 0), Sub(2)>>, <<>>)
         [] OTHER ->
                IF stack = <<>> THEN Fail("err")
                ELSE LET left == This.n_satisfied = 1
                     IN  Goto(Append(Pop(1),
                                 Bool(IF Node.frag = "AndB" THEN left /\ Peek(1) = Satisfied_
                                      ELSE left \/ Peek(1) # Dissatisfied)), <<>>, <<>>)

EvalLeft ==
    /\ At({"AndOr", "OrC", "OrD"})
    /\ This.n_evaluated = 0
    /\ Goto(stack, <<Self(1, 0), Sub(1)>>, <<>>)

\* What to leave on the stack, and to evaluate, after a satisfied or a
\* dissatisfied left child; or_i pops its choice from the witness.
Branch(push, subs) == [push |-> push, subs |-> subs]

\* Wrong: andor evaluates its children in the order of their encoding.
Branches_as_encoded ==
    [OrC |-> <<Branch(<<>>, <<>>), Branch(<<>>, <<2>>)>>,
     OrD |-> <<Branch(<<Satisfied_>>, <<>>), Branch(<<>>, <<2>>)>>,
     AndOr |-> <<Branch(<<>>, <<3>>), Branch(<<>>, <<2>>)>>,
     OrI |-> <<Branch(<<>>, <<1>>), Branch(<<>>, <<2>>)>>]

Branches ==
    [OrC |-> <<Branch(<<>>, <<>>), Branch(<<>>, <<2>>)>>,
     OrD |-> <<Branch(<<Satisfied_>>, <<>>), Branch(<<>>, <<2>>)>>,
     AndOr |-> <<Branch(<<>>, <<2>>), Branch(<<>>, <<3>>)>>,
     OrI |-> <<Branch(<<>>, <<1>>), Branch(<<>>, <<2>>)>>]

EvalBranch ==
    /\ At({"AndOr", "OrC", "OrD", "OrI"})
    /\ Node.frag = "OrI" \/ This.n_evaluated = 1
    /\ IF stack = <<>> \/ ~IsBool(Peek(1)) THEN Fail("err")
       ELSE LET b == Branches[Node.frag][IF Peek(1) = Satisfied_ THEN 1 ELSE 2]
            IN  Goto(Pop(1) \o b.push, [i \in DOMAIN b.subs |-> Sub(b.subs[i])], <<>>)

EvalThresh ==
    /\ At({"Thresh"})
    /\ LET n == Len(Node.subs)
           satisfied == This.n_satisfied + (IF Peek(1) = Satisfied_ THEN 1 ELSE 0)
       IN  IF This.n_evaluated = 0 THEN Goto(stack, <<Self(1, 0), Sub(1)>>, <<>>)
           ELSE IF stack = <<>> \/ ~IsBool(Peek(1)) THEN Fail("err")
           ELSE IF This.n_evaluated = n
                THEN Goto(Append(Pop(1), Bool(satisfied = Node.k)), <<>>, <<>>)
                ELSE Goto(Pop(1), <<Self(This.n_evaluated + 1, satisfied),
                                    Sub(This.n_evaluated + 1)>>, <<>>)

-----------------------------------------------------------------------------
(* Multisignatures. *)

\* Wrong: more signatures than needed will do.
multi_a_result_at_least(n_satisfied, k) == Bool(n_satisfied >= k)
multi_a_result(n_satisfied, k) == Bool(n_satisfied = k)

EvalMultiA ==
    /\ At({"MultiA"})
    /\ LET n == This.n_evaluated
           key == Node.args[n + 1]
       IN  CASE n = Len(Node.args) ->
                    Goto(Append(stack, multi_a_result(This.n_satisfied, Node.k)), <<>>, <<>>)
             [] n # Len(Node.args) /\ stack # <<>> /\ verify_sersig(key, Peek(1)) ->
                    Goto(Pop(1), <<Self(n + 1, This.n_satisfied + 1)>>, <<<<"PublicKey", key>>>>)
             [] n # Len(Node.args) /\ stack # <<>> /\ Peek(1) = Dissatisfied ->
                    Goto(Pop(1), <<Self(n + 1, This.n_satisfied)>>, <<>>)
             [] OTHER -> Fail("err")

\* evaluate_multi: keys from the last to the first; a signature that does
\* not fit stays for the next key.  Wrong: the key stays too.
MultiKey_same ==
    LET n == This.n_evaluated
        key == Node.args[Len(Node.args) - n]
    IN  IF stack = <<>> \/ IsBool(Peek(1)) THEN Fail("err")
        ELSE IF verify_sersig(key, Peek(1))
             THEN Goto(Pop(1), <<Self(n + 1, This.n_satisfied + 1)>>, <<<<"PublicKey", key>>>>)
             ELSE Goto(stack, <<This>>, <<>>)

MultiKey ==
    LET n == This.n_evaluated
        key == Node.args[Len(Node.args) - n]
    IN  IF stack = <<>> \/ IsBool(Peek(1)) THEN Fail("err")
        ELSE IF verify_sersig(key, Peek(1))
             THEN Goto(Pop(1), <<Self(n + 1, This.n_satisfied + 1)>>, <<<<"PublicKey", key>>>>)
             ELSE Goto(stack, <<Self(n + 1, This.n_satisfied)>>, <<>>)

EvalMulti ==
    /\ At({"Multi"})
    /\ CASE This.n_evaluated = 0 ->
                IF Len(stack) < Node.k + 1 THEN Fail("err")
                ELSE IF Peek(1) # Dissatisfied THEN MultiKey
                ELSE IF \A i \in 1..(Node.k + 1) : Peek(i) = Dissatisfied
                     THEN Goto(Append(Pop(Node.k + 1), Dissatisfied), <<>>, <<>>)
                     ELSE Fail("err")
         [] This.n_evaluated # 0 /\ This.n_satisfied = Node.k ->
                IF stack # <<>> /\ Peek(1) = Dissatisfied
                THEN Goto(Append(Pop(1), Satisfied_), <<>>, <<>>) ELSE Fail("err")
         [] OTHER ->
                IF This.n_evaluated = Len(Node.args) THEN Fail("err") ELSE MultiKey

-----------------------------------------------------------------------------

\* An output without a script: the witness is a signature.
EvalPublicKey ==
    /\ result = "running" /\ state = <<>> /\ public_key # "none"
    /\ IF stack # <<>> /\ verify_sersig(public_key, Peek(1))
       THEN /\ public_key' = "none"
            /\ stack' = Append(Pop(1), Satisfied_)
            /\ yielded' = Append(yielded, <<"PublicKey", public_key>>)
            /\ UNCHANGED <<given, state, result>>
       ELSE Fail("err")

\* All has been evaluated: one Satisfied element must be left.
Finish ==
    /\ result = "running" /\ state = <<>> /\ public_key = "none"
    /\ IF stack = <<Satisfied_>>
       THEN /\ result' = "ok"
            /\ stack' = <<>>
            /\ UNCHANGED <<given, state, public_key, yielded>>
       ELSE Fail("err")

NoTx == [lock_time |-> 0, sequence |-> 0, template |-> "none"]

InterpreterInit ==
    /\ program = <<>> /\ output_key = "none" /\ tx = NoTx /\ witness = <<>>
    /\ state = <<>> /\ public_key = "none" /\ stack = <<>> /\ yielded = <<>>
    /\ result = "idle"

\* iter_custom, for a transaction and the output and witness that
\* inner::from_txdata found: an expression, or a key if nodes is empty.
iter_custom(nodes, key, t, wit) ==
    /\ result = "idle"
    /\ program' = nodes
    /\ output_key' = key
    /\ tx' = t
    /\ witness' = wit
    /\ state' = IF nodes = <<>> THEN <<>> ELSE <<NodeState(Len(nodes), 0, 0)>>
    /\ public_key' = key
    /\ stack' = wit
    /\ yielded' = <<>>
    /\ result' = "running"

iter_next ==
    \/ EvalConst \/ EvalPk \/ EvalPkh \/ EvalTxTemplate \/ EvalAfter \/ EvalOlder
    \/ EvalHash \/ Descend \/ EvalDupIf \/ EvalVerify \/ EvalZeroNotEqual
    \/ EvalNonZero \/ EvalAndV \/ EvalBoth \/ EvalLeft \/ EvalBranch
    \/ EvalThresh \/ EvalMultiA \/ EvalMulti \/ EvalPublicKey \/ Finish

-----------------------------------------------------------------------------

\* The counters with which each fragment may be resumed.
Evaluated(t) ==
    CASE t.frag \in {"DupIf", "Verify", "ZeroNotEqual", "AndOr", "OrC", "OrD"} -> 0..1
      [] t.frag \in {"AndB", "OrB"} -> 0..2
      [] t.frag = "Thresh" -> 0..Len(t.subs)
      [] t.frag \in {"Multi", "MultiA"} -> 0..Len(t.args)
      [] OTHER -> {0}

(* Every fragment is resumed with the counters that a match arm of          *)
(* iter_next handles: no debug assertion fails, and CouldNotEvaluate is not *)
(* reached.                                                                 *)
Resumable ==
    /\ result # "panic"
    /\ \A i \in DOMAIN state :
        LET s == state[i] IN
        /\ s.node \in DOMAIN program
        /\ s.n_evaluated \in Evaluated(program[s.node])
        /\ s.n_satisfied \in 0..s.n_evaluated

\* The witness or the transaction shows that the constraint holds.
Proven(c) ==
    CASE c[1] \in {"PublicKey", "PublicKeyHash"} -> Sig(c[2]) \in Range(witness)
      [] c[1] = "HashLock" -> Preimage(c[2]) \in Range(witness)
      [] c[1] = "AbsoluteTimelock" -> abs_is_implied_by(c[2], tx.lock_time)
      [] c[1] = "RelativeTimelock" -> tx.sequence >= 0 /\ rel_is_implied_by(c[2], tx.sequence)
      [] c[1] = "TxTemplate" -> tx.template = c[2]

(* Every constraint that next() yields holds, also on the way to an error:  *)
(* its signature or preimage was in the witness, though the results that    *)
(* fragments leave on the stack are mixed with the elements of the witness. *)
Backed == \A i \in DOMAIN yielded : Proven(yielded[i])
=============================================================================

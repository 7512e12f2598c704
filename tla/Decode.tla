------------------------------- MODULE Decode -------------------------------
(***************************************************************************)
(* Reading a Miniscript out of a Script: the lexer (lex.rs) and the        *)
(* shift-reduce parser (decode.rs) behind Miniscript::decode_consensus     *)
(* (mod.rs).  The parser reads the tokens from the last to the first.  It  *)
(* keeps a stack non_term of what it still expects and a stack term of the *)
(* expressions it has built, here indices into the arena nodes.  One       *)
(* action is one turn of the loop of decode.                               *)
(***************************************************************************)
EXTENDS Miniscript

CONSTANTS
    Scripts              \* the scripts to decode, sequences of instructions

VARIABLES
    script,              \* the script being decoded
    tokens,              \* TokenIter: the tokens not yet read, last one next
    non_term,            \* stack of NonTerm, top last
    nodes,               \* arena of the expressions built so far
    term,                \* TerminalStack: roots in the arena, top last
    status               \* "idle", "decoding", "done", "err", "panic"

vars == <<script, tokens, non_term, nodes, term, status>>

-----------------------------------------------------------------------------
(* lex.rs.  An instruction that is neither in Ops nor a push of a known    *)
(* size is refused, so are a VERIFY that could have been merged and a      *)
(* 0 IF that does not open an inscription envelope.                        *)

Ops == {"BoolAnd", "BoolOr", "Add", "Equal", "NumEqual", "CheckSig",
        "CheckSigAdd", "CheckMultiSig", "CheckSequenceVerify",
        "CheckLockTimeVerify", "CheckTemplateVerify", "FromAltStack",
        "ToAltStack", "Drop", "Dup", "If", "IfDup", "NotIf", "Else", "EndIf",
        "ZeroNotEqual", "Size", "Swap", "Verify", "Ripemd160", "Hash160",
        "Sha256", "Hash256"}
Pushes == {"Num", "Hash20", "Bytes32", "Bytes33", "Bytes65", "Inscription"}
Merged == [EqualVerify |-> "Equal", NumEqualVerify |-> "NumEqual",
           CheckSigVerify |-> "CheckSig", CheckMultiSigVerify |-> "CheckMultiSig"]

\* The instructions of a script: an opcode, or a push with its operand.  The
\* size of a key's push says whether the key is compressed (Uncompressed only
\* has keys that are not).
Instruction(x) ==
    /\ x = IF x[1] \in Pushes THEN <<x[1], x[2]>> ELSE <<x[1]>>
    /\ x[1] = "Num" => x[2] \in Int
    /\ Ctx # "Tap" /\ x[1] \in {"Bytes33", "Bytes65"} =>
            (x[1] = "Bytes65" <=> x[2] \in Uncompressed)

ASSUME ScriptsAssumption ==
    \A s \in Scripts : /\ s \in Seq({s[i] : i \in DOMAIN s})
                       /\ \A i \in DOMAIN s : Instruction(s[i])

\* The instruction does not add a token to what was read so far: the lexer
\* returns an error at the i-th instruction.
lex_error(s, i) ==
    LET last == IF i = 1 THEN <<"none">> ELSE s[i - 1]
    IN  \/ s[i][1] \notin Ops \cup Pushes \cup DOMAIN Merged
        \/ s[i][1] = "Verify" /\ last[1] \in {"Equal", "CheckSig", "CheckMultiSig"}
        \/ s[i][1] = "If" /\ last = Num(0)

lex_ok(s) == \A i \in DOMAIN s : ~lex_error(s, i)

lex(s) ==
    ConcatAll([i \in DOMAIN s |->
        IF s[i][1] \in DOMAIN Merged THEN <<Op(Merged[s[i][1]]), Op("Verify")>>
        ELSE <<s[i]>>])

-----------------------------------------------------------------------------
(* Reading tokens: Kind(i) and Arg(i) are of the i-th next token. *)

Kind(i) == IF i <= Len(tokens) THEN tokens[Len(tokens) + 1 - i][1] ELSE "none"
Arg(i) == tokens[Len(tokens) + 1 - i][2]

Reads(from, kinds) ==
    \A i \in DOMAIN kinds : Kind(from + i - 1) = kinds[i]

IsNum(i, n) == Kind(i) = "Num" /\ Arg(i) = n

Skip(n) == SubSeq(tokens, 1, Len(tokens) - n)

\* <Ctx::Key>::from_slice accepts the token's bytes.
IsKey(i) == Kind(i) \in IF Ctx = "Tap" THEN {"Bytes32"} ELSE {"Bytes33", "Bytes65"}

\* The tokens of a hash fragment from its hash on, read backwards.
HashAt(i, frag) ==
    /\ Kind(i) = IF frag \in {"Sha256", "Hash256"} THEN "Bytes32" ELSE "Hash20"
    /\ Reads(i + 1, <<frag, "Verify", "Equal">>)
    /\ IsNum(i + 4, 32)
    /\ Kind(i + 5) = "Size"

\* A wrong lookahead: the token that ends an a: wrapper goes unnoticed.
is_and_v_past_alt == Kind(1) \notin {"none", "If", "NotIf", "Else", "Swap"}

is_and_v == Kind(1) \notin {"none", "If", "NotIf", "Else", "ToAltStack", "Swap"}

\* take_inscriptions: the run of envelopes read next, in script order.
InscriptionRun ==
    Max({n \in 0..Len(tokens) : \A i \in 1..n : Kind(i) = "Inscription"})
Inscriptions == [i \in 1..InscriptionRun |-> Arg(InscriptionRun + 1 - i)]

NT(name) == <<name>>

-----------------------------------------------------------------------------
(* What the parser finds at an Expression: it reads n tokens, pushes the   *)
(* non-terminals push and the leaves leaf (at most one).  The set is empty *)
(* when match_token returns an error.                                      *)

Match(ok, n, push, leaf) ==
    IF ok THEN {[n |-> n, push |-> push, leaf |-> leaf]} ELSE {}

Leaf(frag, k, args) == <<Terminal(frag, <<>>, k, args)>>

MatchKey == Match(IsKey(1), 1, <<>>, Leaf("PkK", 0, <<Arg(1)>>))

MatchTxTemplate ==
    Match(Reads(1, <<"Drop", "CheckTemplateVerify", "Bytes32">>), 3, <<>>,
          Leaf("TxTemplate", 0, <<Arg(3)>>))

\* A hash fragment or a threshold ends in EQUAL; under v: in EQUAL VERIFY.
MatchHash(verify) ==
    LET i == IF verify THEN 2 ELSE 1
    IN  UNION {Match(Kind(i) = "Equal" /\ HashAt(i + 1, f), i + 6,
                     IF verify THEN <<NT("Verify")>> ELSE <<>>,
                     Leaf(f, 0, <<Arg(i + 1)>>)) : f \in HashFrags}

MatchThresh(verify) ==
    LET i == IF verify THEN 2 ELSE 1
    IN  Match(Reads(i, <<"Equal", "Num">>), i + 1,
              (IF verify THEN <<NT("Verify")>> ELSE <<>>)
                  \o <<<<"ThreshW", Arg(i + 1), 0>>>>, <<>>)

MatchVerify ==
    IF Kind(2) # "Equal"
    THEN Match(Kind(2) # "none", 1, <<NT("Verify"), NT("Expression")>>, <<>>)
    ELSE MatchHash(TRUE) \cup MatchThresh(TRUE)
            \cup Match(Reads(3, <<"Hash20", "Hash160", "Dup">>), 5, <<>>,
                       Leaf("RawPkH", 0, <<Arg(3)>>))

\* RelLockTime::from_consensus and AbsLockTime::from_consensus refuse 0; a
\* script number has no bit 31.
MatchTimelock ==
    Match(Reads(1, <<"CheckSequenceVerify", "Num">>) /\ Arg(2) > 0, 2, <<>>,
          Leaf("Older", Arg(2), <<>>))
    \cup
    Match(Reads(1, <<"CheckLockTimeVerify", "Num">>) /\ Arg(2) > 0, 2, <<>>,
          Leaf("After", Arg(2), <<>>))

MatchConst ==
    Match(IsNum(1, 0), 1, <<>>, Leaf("False", 0, <<>>))
    \cup Match(IsNum(1, 1), 1, <<>>, Leaf("True", 0, <<>>))

MAX_PUBKEYS_PER_MULTISIG == 20
MAX_PUBKEYS_IN_CHECKSIGADD == 999

MatchMulti ==
    IF ~Reads(1, <<"CheckMultiSig", "Num">>) THEN {}
    ELSE LET n == Arg(2)
         IN  Match(/\ validate_k_n(1, n, MAX_PUBKEYS_PER_MULTISIG)
                   /\ \A i \in 1..n : Kind(2 + i) \in {"Bytes33", "Bytes65"} /\ IsKey(2 + i)
                   /\ Kind(n + 3) = "Num"
                   /\ validate_k_n(Arg(n + 3), n, MAX_PUBKEYS_PER_MULTISIG),
                   n + 3, <<>>,
                   Leaf("Multi", Arg(n + 3), [i \in 1..n |-> Arg(n + 3 - i)]))

MatchMultiA ==
    IF ~Reads(1, <<"NumEqual", "Num">>) THEN {}
    ELSE LET m == Max({j \in 0..Len(tokens) :
                        \A i \in 1..j : Reads(2 * i + 1, <<"CheckSigAdd", "Bytes32">>)})
         IN  Match(/\ validate_k_n(Arg(2), Arg(2), MAX_PUBKEYS_IN_CHECKSIGADD)
                   /\ Reads(2 * m + 3, <<"CheckSig", "Bytes32">>)
                   /\ \A i \in 1..(m + 1) : IsKey(2 * i + 2)
                   /\ validate_k_n(Arg(2), m + 1, MAX_PUBKEYS_IN_CHECKSIGADD),
                   2 * m + 4, <<>>,
                   Leaf("MultiA", Arg(2), [i \in 1..(m + 1) |-> Arg(2 * (m + 1 - i) + 4)]))

\* Tokens that only say what comes before them.
MatchSuffix ==
    LET pushes == [CheckSig |-> <<NT("Check"), NT("Expression")>>,
                   ZeroNotEqual |-> <<NT("ZeroNotEqual"), NT("Expression")>>,
                   EndIf |-> <<NT("EndIf"), NT("MaybeAndV"), NT("Expression")>>,
                   BoolAnd |-> <<NT("AndB"), NT("Expression"), NT("WExpression")>>,
                   BoolOr |-> <<NT("OrB"), NT("Expression"), NT("WExpression")>>]
    IN  IF Kind(1) \in DOMAIN pushes
        THEN Match(TRUE, 1, pushes[Kind(1)], <<>>) ELSE {}

MatchInscription ==
    Match(Kind(1) = "Inscription" /\ InscriptionsValid(Inscriptions),
          InscriptionRun,
          <<<<"InscribePost", Inscriptions>>, NT("Expression")>>, <<>>)

ExpressionMatches ==
    CASE Kind(1) = "Inscription" -> MatchInscription
      [] Kind(1) = "Verify" -> MatchVerify
      [] Kind(1) = "Equal" -> MatchHash(FALSE) \cup MatchThresh(FALSE)
      [] OTHER -> MatchKey \cup MatchTxTemplate \cup MatchTimelock \cup MatchConst
                    \cup MatchMulti \cup MatchMultiA \cup MatchSuffix

-----------------------------------------------------------------------------
(* The steps of the parser. *)

Top == non_term[Len(non_term)]
Below == SubSeq(non_term, 1, Len(non_term) - 1)

At(name) ==
    /\ status = "decoding"
    /\ non_term # <<>>
    /\ Top[1] = name

Halt(how) ==
    /\ status' = how
    /\ UNCHANGED <<script, tokens, non_term, nodes, term>>

\* Read n tokens and go on with the non-terminals push on top.
Shift(n, push) ==
    /\ tokens' = Skip(n)
    /\ non_term' = Below \o push
    /\ UNCHANGED <<script, nodes, term, status>>

\* Pop the children subs (indices from the top of term), apply from_ast and
\* push the result.  An unwrap of a pop from an empty stack panics.
Reduce(n, pops, subs, t, push) ==
    IF Len(term) < pops THEN Halt("panic")
    ELSE LET below == SubSeq(term, 1, Len(term) - pops)
             u == [t EXCEPT !.subs = [i \in DOMAIN subs |-> term[Len(term) + 1 - subs[i]]]]
         IN  IF ~from_ast_ok(nodes, u) THEN Halt("err")
             ELSE /\ tokens' = Skip(n)
                  /\ non_term' = Below \o push
                  /\ nodes' = Append(nodes, Annotate(nodes, u))
                  /\ term' = Append(below, Len(nodes) + 1)
                  /\ UNCHANGED <<script, status>>

reduce1(n, frag, args) == Reduce(n, 1, <<1>>, Terminal(frag, <<>>, 0, args), <<>>)
reduce2(n, frag) == Reduce(n, 2, <<1, 2>>, Terminal(frag, <<>>, 0, <<>>), <<>>)

\* A leaf constructor of mod.rs annotates without the checks of from_ast;
\* only TxTemplate goes through from_ast.
PushLeaf(m, t) ==
    IF t.frag = "TxTemplate" /\ ~from_ast_ok(nodes, t) THEN Halt("err")
    ELSE /\ tokens' = Skip(m.n)
         /\ non_term' = Below \o <<NT("InscribePre")>> \o m.push
         /\ nodes' = Append(nodes, Annotate(nodes, t))
         /\ term' = Append(term, Len(nodes) + 1)
         /\ UNCHANGED <<script, status>>

Expression ==
    /\ At("Expression")
    /\ IF ExpressionMatches = {} THEN Halt("err")
       ELSE \E m \in ExpressionMatches :
                IF m.leaf = <<>> THEN Shift(m.n, <<NT("InscribePre")>> \o m.push)
                ELSE PushLeaf(m, m.leaf[1])

WExpression ==
    /\ At("WExpression")
    /\ CASE Kind(1) = "Inscription" ->
                IF InscriptionsValid(Inscriptions)
                THEN Shift(InscriptionRun,
                           <<NT("InscribePre"), <<"InscribePost", Inscriptions>>,
                             NT("WExpression")>>)
                ELSE Halt("err")
         [] Kind(1) = "FromAltStack" ->
                Shift(1, <<NT("InscribePre"), NT("Alt"), NT("MaybeAndV"), NT("Expression")>>)
         [] Kind(1) = "none" -> Halt("err")
         [] OTHER ->
                Shift(0, <<NT("InscribePre"), NT("Swap"), NT("MaybeAndV"), NT("Expression")>>)

InscribePre ==
    /\ At("InscribePre")
    /\ IF Kind(1) # "Inscription" THEN Shift(0, <<>>)
       ELSE IF InscriptionsValid(Inscriptions)
            THEN reduce1(InscriptionRun, "InscribePre", Inscriptions)
            ELSE Halt("err")

InscribePost == At("InscribePost") /\ reduce1(0, "InscribePost", Top[2])

MaybeAndV ==
    /\ At("MaybeAndV")
    /\ Shift(0, IF is_and_v THEN <<NT("AndV"), NT("Expression")>> ELSE <<>>)

\* A wrong step: it waits for the conjunction without reading it.
AndV_waits ==
    /\ At("AndV")
    /\ IF is_and_v THEN Shift(0, <<NT("AndV")>>) ELSE reduce2(0, "AndV")

AndV ==
    /\ At("AndV")
    /\ IF is_and_v THEN Shift(0, <<NT("AndV"), NT("MaybeAndV")>>)
       ELSE reduce2(0, "AndV")

Swap ==
    /\ At("Swap")
    /\ IF Kind(1) = "Swap" THEN reduce1(1, "Swap", <<>>) ELSE Halt("err")

Alt ==
    /\ At("Alt")
    /\ IF Kind(1) = "ToAltStack" THEN reduce1(1, "Alt", <<>>) ELSE Halt("err")

Wrapper ==
    \E w \in {"Check", "DupIf", "Verify", "NonZero", "ZeroNotEqual"} :
        At(w) /\ reduce1(0, w, <<>>)

Binary ==
    \E b \in {"AndB", "OrB", "OrC", "OrD"} : At(b) /\ reduce2(0, b)

\* A wrong reduction: the operands in the order they are popped.
Tern_as_popped ==
    /\ At("Tern")
    /\ Reduce(0, 3, <<1, 2, 3>>, Terminal("AndOr", <<>>, 0, <<>>), <<>>)

\* Popped in the order a, b, c; the script had a NOTIF c ELSE b ENDIF, so c
\* was pushed after b.
Tern ==
    /\ At("Tern")
    /\ Reduce(0, 3, <<1, 3, 2>>, Terminal("AndOr", <<>>, 0, <<>>), <<>>)

\* A wrong count: the last operand is counted twice.
ThreshW_twice ==
    /\ At("ThreshW")
    /\ CASE Kind(1) = "none" -> Halt("err")
         [] Kind(1) = "Add" ->
                Shift(1, <<<<"ThreshW", Top[2], Top[3] + 1>>, NT("WExpression")>>)
         [] OTHER ->
                Shift(0, <<<<"ThreshE", Top[2], Top[3] + 2>>, NT("Expression")>>)

ThreshW ==
    /\ At("ThreshW")
    /\ CASE Kind(1) = "none" -> Halt("err")
         [] Kind(1) = "Add" ->
                Shift(1, <<<<"ThreshW", Top[2], Top[3] + 1>>, NT("WExpression")>>)
         [] OTHER ->
                Shift(0, <<<<"ThreshE", Top[2], Top[3] + 1>>, NT("Expression")>>)

ThreshE ==
    /\ At("ThreshE")
    /\ IF Len(term) < Top[3] THEN Halt("panic")
       ELSE IF ~validate_k_n(Top[2], Top[3], 0) THEN Halt("err")
            ELSE Reduce(0, Top[3], [i \in 1..Top[3] |-> i],
                        Terminal("Thresh", <<>>, Top[2], <<>>), <<>>)

EndIf ==
    /\ At("EndIf")
    /\ CASE Kind(1) = "Else" ->
                Shift(1, <<NT("EndIfElse"), NT("MaybeAndV"), NT("Expression")>>)
         [] Reads(1, <<"If", "Dup">>) -> Shift(2, <<NT("DupIf")>>)
         [] Reads(1, <<"If", "ZeroNotEqual", "Size">>) -> Shift(3, <<NT("NonZero")>>)
         [] Kind(1) = "NotIf" -> Shift(1, <<NT("EndIfNotIf")>>)
         [] OTHER -> Halt("err")

EndIfNotIf ==
    /\ At("EndIfNotIf")
    /\ CASE Kind(1) = "none" -> Halt("err")
         [] Kind(1) = "IfDup" -> Shift(1, <<NT("OrD"), NT("Expression")>>)
         [] OTHER -> Shift(0, <<NT("OrC"), NT("Expression")>>)

EndIfElse ==
    /\ At("EndIfElse")
    /\ CASE Kind(1) = "If" -> reduce2(1, "OrI")
         [] Kind(1) = "NotIf" -> Shift(1, <<NT("Tern"), NT("Expression")>>)
         [] OTHER -> Halt("err")

\* The loop ends: decode asserts that one expression is left, and
\* decode_with_ext checks it (with ExtParams::allow_all).
Finish ==
    /\ status = "decoding"
    /\ non_term = <<>>
    /\ LET top == nodes[term[1]]
       IN  IF Len(term) # 1 THEN Halt("panic")
           ELSE IF /\ check_global_validity(top, top.ext)
                   /\ top.ty.corr.base = "B"
                   /\ tokens = <<>>
                THEN Halt("done") ELSE Halt("err")

-----------------------------------------------------------------------------

Init ==
    /\ status = "idle"
    /\ script = <<>> /\ tokens = <<>> /\ non_term = <<>>
    /\ nodes = <<>> /\ term = <<>>

\* decode_with_ext is called with the script s: lex, then start the parser.
decode(s) ==
    /\ status = "idle"
    /\ script' = s
    /\ tokens' = IF lex_ok(s) THEN lex(s) ELSE <<>>
    /\ non_term' = <<NT("MaybeAndV"), NT("Expression")>>
    /\ status' = IF lex_ok(s) THEN "decoding" ELSE "err"
    /\ UNCHANGED <<nodes, term>>

\* One turn of the parser's loop, or its end.
Step ==
    \/ Expression \/ WExpression
    \/ InscribePre \/ InscribePost
    \/ MaybeAndV \/ AndV
    \/ Swap \/ Alt \/ Wrapper \/ Binary \/ Tern
    \/ ThreshW \/ ThreshE
    \/ EndIf \/ EndIfNotIf \/ EndIfElse
    \/ Finish

Next == (\E s \in Scripts : decode(s)) \/ Step

Spec == Init /\ [][Next]_vars

-----------------------------------------------------------------------------
(* Properties. *)

Root == term[1]

(* Type invariant: the stacks hold what their Rust types say, and a node of *)
(* the arena refers to earlier nodes only.                                  *)
TypeOK ==
    /\ status \in {"idle", "decoding", "done", "err", "panic"}
    /\ \A i \in DOMAIN term : term[i] \in DOMAIN nodes
    /\ \A i \in DOMAIN nodes :
            /\ nodes[i].frag \in Frags
            /\ nodes[i].ty \in Type
            /\ \A j \in DOMAIN nodes[i].subs : nodes[i].subs[j] \in 1..(i - 1)

(* The unwraps of TerminalStack::pop and the two assertions at the end of   *)
(* decode never fail, whatever script is read.                              *)
NoPanic == status # "panic"

(* The debug assertions of Type::sanity_checks and                          *)
(* Correctness::sanity_checks hold of every expression the parser builds.   *)
SanityChecks ==
    \A i \in DOMAIN nodes :
        sanity_checks(nodes[i].ty) /\ C!sanity_checks(nodes[i].ty.corr)

\* The lexer does not refuse NUMEQUAL VERIFY, so that two scripts are read
\* as the same expression.
HasSplitNumEqualVerify ==
    \E i \in 1..(Len(script) - 1) :
        script[i] = Op("NumEqual") /\ script[i + 1] = Op("Verify")

(* A Miniscript is a commitment to exact script bytes: an accepted script   *)
(* is the encoding of the expression decode returns (but for NUMEQUAL       *)
(* VERIFY).                                                                 *)
RoundTrip ==
    status = "done" => HasSplitNumEqualVerify \/ encode(nodes, Root) = script
=============================================================================

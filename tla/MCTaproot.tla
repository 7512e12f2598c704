----------------------------- MODULE MCTaproot -----------------------------
(***************************************************************************)
(* Model checking of Taproot: all short strings, and longer ones of the    *)
(* shape of Taproot trees or with nothing but parentheses.                 *)
(***************************************************************************)
EXTENDS Taproot

CONSTANT ShortLen    \* bound: characters of a string of any shape

TreeLike(s) ==
    \A i \in DOMAIN s :
        /\ s[i] \in {"{", "}", ",", Name}
        /\ i > 1 =>
            CASE s[i] \in {"{", Name} -> s[i - 1] \in {"{", ","}
              [] OTHER -> s[i - 1] \in {Name, "}"}

MCMayWrite(s) == Len(s) <= ShortLen \/ TreeLike(s) \/ (\A i \in DOMAIN s : s[i] \in {"(", ")"})
=============================================================================

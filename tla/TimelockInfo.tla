---------------------------- MODULE TimelockInfo ----------------------------
(***************************************************************************)
(* What a fragment or a policy says about timelocks                        *)
(* (src/src/miniscript/types/extra_props.rs): a set of flags, one for each *)
(* kind of lock in it and one if a path may need a height and a time.      *)
(***************************************************************************)
EXTENDS Integers, Sequences, SequencesExt

\* Units of locktimes (external: rust-bitcoin).
is_block_time(t) == t >= 500000000
is_time_locked(t) == (t \div 4194304) % 2 = 1

after_info(t) == {IF is_block_time(t) THEN "cltv_with_time" ELSE "cltv_with_height"}
older_info(t) == {IF is_time_locked(t) THEN "csv_with_time" ELSE "csv_with_height"}

height_and_time(a, t) ==
    \E lock \in { <<"csv_with_height", "csv_with_time">>, <<"cltv_with_height", "cltv_with_time">> } :
        (lock[1] \in a /\ lock[2] \in t) \/ (lock[2] \in a /\ lock[1] \in t)

\* Wrong: the flags of each child are compared with those of the first one.
CombineWithFirst(k, infos) ==
    UNION ToSet(infos)
        \cup (IF k > 1 /\ (\E i \in DOMAIN infos : height_and_time(infos[1], infos[i]))
              THEN {"contains_combination"} ELSE {})

combine_threshold(k, infos) ==
    FoldLeft(LAMBDA acc, t :
                acc \cup t \cup (IF k > 1 /\ height_and_time(acc, t)
                                 THEN {"contains_combination"} ELSE {}),
             {}, infos)

combine_and(a, b) == combine_threshold(2, <<a, b>>)
combine_or(a, b) == combine_threshold(1, <<a, b>>)

contains_unspendable_path(info) == "contains_combination" \in info
=============================================================================

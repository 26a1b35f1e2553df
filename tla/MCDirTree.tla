------------------------------ MODULE MCDirTree ------------------------------
(* Names: a short one, two long ones whose short names differ in the       *)
(* number alone, and a short one that is the first of those.               *)
EXTENDS DirTree, TLC

A == "a"
L1 == "long one"
L2 == "long two"
N1 == "LONG~1"
LongNames == {L1, L2}
LongOf == A :> <<"A">> @@ L1 :> <<"LONG ONE">> @@ L2 :> <<"LONG TWO">>
          @@ N1 :> <<"LONG~1">>
BasisOf == A :> <<"A", 0>> @@ L1 :> <<"LONG", 0>> @@ L2 :> <<"LONG", 0>>
           @@ N1 :> <<"LONG", 1>>
SumOf == [n \in {<<"A", 0>>, <<"LONG", 0>>, <<"LONG", 1>>, <<"LONG", 2>>,
                 <<"LONG", 3>>, Dot, DotDot, <<"GHOST", 0>>} |-> n]
Names3 == {A, L1, N1}
Paths4 == {<<A>>, <<L1>>, <<A, L1>>, <<A, N1>>}

(* What the last call was decides nothing.                                 *)
NoHistory == <<fs_type, disk, win, winsect, wflag, torn, calls, struck>>
=============================================================================

------------------------------- MODULE NameSpace -------------------------------
(***************************************************************************)
(* What the functions on names promise: a tree of objects, the part of it  *)
(* that would survive the loss of power, and calls that either do all they *)
(* were asked for, durably, or one of the few things a fault may leave.    *)
(* Implemented by DirTree.                                                 *)
(***************************************************************************)
EXTENDS Integers, Sequences, FiniteSets

CONSTANTS Names, Long, Basis, NS_LFN, NS_LOSS, MaxSeq, Paths

VARIABLES
    tree,       \* objects [at, short, long, dir, ro]
    stable,     \* what is on the medium
    ret,        \* the last call, [f, p, q], and what it returned, res
    scarred,    \* a fault has struck a call
    broken      \* no promise holds any more

ns == <<tree, stable, ret, scarred, broken>>

(* The objects of the directory at that answer to n: at most one.          *)
Answer(at, n) == {o \in tree : /\ o.at = at
                               /\ \/ o.long = Long[n]
                                  \/ n \notin NS_LOSS /\ o.short = Basis[n]}
Within(o) == Append(o.at, o.short)

(* The directories a path leads to: the short names of its segments.       *)
Place[k \in 0 .. 3, p \in Paths] ==
    IF k = 0 THEN {<<>>}
    ELSE UNION {{Within(o) : o \in {d \in Answer(at, p[k]) : d.dir}}
                : at \in Place[k - 1, p]}
Parents(p) == Place[Len(p) - 1, p]
Named(p) == UNION {Answer(at, p[Len(p)]) : at \in Parents(p)}

Prefixed(s, pre) == Len(s) >= Len(pre) /\ SubSeq(s, 1, Len(pre)) = pre
Subtree(o) == {d \in tree : Prefixed(d.at, Within(o))}

(* The long names a failed call may have left without an object: a new     *)
(* object that is given the short name they were meant for takes one over. *)
Adopted(n) == IF scarred
              THEN {Long[m] : m \in {l \in NS_LFN : Basis[l][1] = Basis[n][1]}}
              ELSE {}

(* What a new object for p can be: a number, when its short name takes     *)
(* one, that no other short name of the directory has.                     *)
New(p, dir, ro) ==
    LET n == p[Len(p)]
        shorts == IF n \in NS_LOSS THEN {<<Basis[n][1], i>> : i \in 1 .. MaxSeq}
                                   ELSE {Basis[n]}
        all == [at : Parents(p), short : shorts, dir : {dir}, ro : {ro},
                long : IF n \in NS_LFN THEN {Long[n]} ELSE {<<>>} \cup Adopted(n)]
    IN  IF Named(p) # {} THEN {}
        ELSE {o \in all : \A d \in tree : d.at = o.at => d.short # o.short}

Init == tree = {} /\ stable = {} /\ ret.res = "ok" /\ scarred = FALSE /\ broken = FALSE

(* Nothing done: an error, and the reason when it is one of the tree's.    *)
Refused(reasons) ==
    /\ ret'.res \in reasons
    /\ tree' = tree /\ stable' \in {stable, tree}
    /\ UNCHANGED <<scarred, broken>>

(* Done, and on the medium.                                                *)
Done(to) == ret'.res = "ok" /\ tree' = to /\ stable' = to /\ UNCHANGED <<scarred, broken>>

(* A call that found no room, or a fault on the way: one of the states in   *)
(* ways, in memory and on the medium, or nothing; without the power, what   *)
(* was on the medium.                                                      *)
NoRoom == Refused({"denied"})
Faulted(ways) ==
    /\ scarred'
    /\ stable' \in ways \cup {tree, stable}
    /\ \/ ret'.res = "lost" /\ tree' = stable'
       \/ ret'.res \in {"disk_err", "denied"} /\ tree' \in ways \cup {tree}
    /\ UNCHANGED broken

-----------------------------------------------------------------------------

(* A path that leads nowhere, or nowhere where it must.                    *)
Absent(p) ==
    \/ Parents(p) = {} /\ Refused({"no_path"})
    \/ Parents(p) # {} /\ Named(p) = {} /\ Refused({"no_file"})
Present(p) ==
    \/ Parents(p) = {} /\ Refused({"no_path"})
    \/ Named(p) # {} /\ Refused({"exist"})

(* A new file is in memory when f_open returns, a directory on the medium. *)
Create(p) ==
    \/ Present(p)
    \/ \E o \in New(p, FALSE, FALSE) :
        /\ ret'.res = "ok" /\ tree' = tree \cup {o}
        /\ stable' \in {stable, tree, tree'} /\ UNCHANGED <<scarred, broken>>
    \/ \E o \in New(p, FALSE, FALSE) : Faulted({tree \cup {o}})

Mkdir(p) ==
    \/ Present(p)
    \/ \E o \in New(p, TRUE, FALSE) :
        Done(tree \cup {o}) \/ Faulted({tree \cup {o}})

(* An object may lose its long name before it goes.                        *)
Bare(o) == [o EXCEPT !.long = <<>>]

Unlink(p) ==
    \/ Absent(p)
    \/ \E o \in Named(p) :
        \/ /\ ~o.ro /\ Subtree(o) = {}
           /\ \/ Done(tree \ {o})
              \/ Faulted({tree \ {o}, (tree \ {o}) \cup {Bare(o)}})

(* The subtree goes with a directory; a file may be left under both names. *)
Moved(o, n) ==
    LET below == Subtree(o)
        len == Len(Within(o))
        to(d) == [d EXCEPT !.at = Within(n) \o SubSeq(d.at, len + 1, Len(d.at))]
    IN  (tree \ (below \cup {o})) \cup {n} \cup {to(d) : d \in below}

Rename(p, q) ==
    \/ Absent(p)
    \/ Named(p) # {} /\ Present(q)
    \/ \E o \in Named(p) : \E n \in New(q, o.dir, o.ro) :
        \/ Done(Moved(o, n))
        \/ Faulted({Moved(o, n)}
                   \cup IF o.dir THEN {}
                        ELSE {tree \cup {n},
                              (tree \ {o}) \cup {Bare(o), n}})

Chmod(p, ro) ==
    \/ Absent(p)
    \/ \E o \in Named(p) :
        LET new == (tree \ {o}) \cup {[o EXCEPT !.ro = ro]}
        IN  Done(new) \/ Faulted({new})

Sync == Done(tree)

(* Any call may find no room, or fail with nothing done.                   *)
Fail == NoRoom \/ Faulted({})

Break == broken' = TRUE /\ scarred' /\ tree' = {} /\ stable' = {}

Next ==
    LET p == ret'.p
    IN  \/ ret'.f = "f_open" /\ Create(p)
        \/ ret'.f = "f_mkdir" /\ Mkdir(p)
        \/ ret'.f = "f_unlink" /\ Unlink(p)
        \/ ret'.f = "f_rename" /\ Rename(p, ret'.q)
        \/ ret'.f = "f_chmod" /\ Chmod(p, TRUE)
        \/ ret'.f = "f_sync" /\ Sync
        \/ Fail \/ Break

Spec == Init /\ [][Next]_ns
=============================================================================

------------------------------- MODULE ByteFile -------------------------------
(***************************************************************************)
(* What an open file promises, whatever sectors, clusters and buffers      *)
(* there are: a sequence of bytes and a place in it.  Implemented by       *)
(* FileData.                                                               *)
(***************************************************************************)
EXTENDS Integers, Sequences

VARIABLES
    content,    \* the bytes
    place,      \* bytes before the read/write pointer
    todo,       \* the bytes the running write has still to put
    got,        \* the bytes the last turn of a read took
    doubt,      \* the places of the running, or failed, write
    clean       \* f_sync said OK, and no write or change of size succeeded since

file == <<content, place, todo, got, doubt, clean>>

Init == /\ content = <<>> /\ place = 0
        /\ todo = <<>> /\ got = <<>> /\ doubt = {} /\ clean = TRUE

(* content with bytes over it from place p on.                             *)
Over(bytes, p) ==
    [i \in 1 .. (IF Len(content) > p + Len(bytes) THEN Len(content)
                                                 ELSE p + Len(bytes)) |->
        IF i > p /\ i <= p + Len(bytes) THEN bytes[i - p] ELSE content[i]]

(* Every byte that is in no doubt is what it was.                          *)
OnlyDoubtful == \A i \in DOMAIN content \ doubt :
    i \in DOMAIN content' /\ content'[i] = content[i]

StartWrite ==
    /\ todo = <<>> /\ todo' # <<>> /\ got' = <<>>
    /\ doubt' = place + 1 .. place + Len(todo')
    /\ UNCHANGED <<content, place, clean>>

Put == \E n \in 1 .. Len(todo) :
    /\ content' = Over(SubSeq(todo, 1, n), place)
    /\ place' = place + n
    /\ todo' = SubSeq(todo, n + 1, Len(todo))
    /\ UNCHANGED <<got, doubt, clean>>

(* All is put, or the disk is full; what was put stays.                    *)
EndWrite ==
    /\ doubt # {} /\ doubt' = {}
    /\ todo' = <<>> /\ clean' = FALSE
    /\ UNCHANGED <<content, place, got>>

(* A failed write damages only the bytes it was to put.                    *)
FailWrite ==
    /\ doubt # {} /\ todo' = <<>>
    /\ OnlyDoubtful
    /\ UNCHANGED <<place, got, doubt, clean>>

Get ==
    /\ \E n \in 1 .. Len(content) - place :
           got' = SubSeq(content, place + 1, place + n) /\ place' = place + n
    /\ UNCHANGED <<content, todo, doubt, clean>>

Forget == got' = <<>> /\ UNCHANGED <<content, place, todo, doubt, clean>>

(* Moving past the end stretches the file by bytes nobody wrote.           *)
Move ==
    /\ doubt = {} /\ place' \in Nat
    /\ IF place' <= Len(content)
       THEN UNCHANGED <<content, clean>>
       ELSE /\ Len(content') = place' /\ OnlyDoubtful
            /\ clean' = FALSE
    /\ UNCHANGED <<todo, got, doubt>>

Cut ==
    /\ doubt = {} /\ place < Len(content)
    /\ content' = SubSeq(content, 1, place)
    /\ clean' = FALSE
    /\ UNCHANGED <<place, todo, got, doubt>>

Sync == clean' = TRUE /\ UNCHANGED <<content, place, todo, got, doubt>>

(* The file is opened again, after f_close, or after power was lost when   *)
(* it was clean.                                                           *)
Reopen ==
    /\ clean
    /\ OnlyDoubtful
    /\ place' = 0 /\ todo' = <<>> /\ doubt' = {}
    /\ UNCHANGED <<got, clean>>

Next == StartWrite \/ Put \/ EndWrite \/ FailWrite \/ Get \/ Forget \/ Move
            \/ Cut \/ Sync \/ Reopen

Spec == Init /\ [][Next]_file
=============================================================================

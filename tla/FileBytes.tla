----------------------------- MODULE FileBytes -----------------------------
(***************************************************************************)
(* What sqlfs.h promises of a file's contents: a sequence of bytes that is *)
(* written over, extended with zeroes and cut off. No blocks.              *)
(***************************************************************************)
EXTENDS Integers, Sequences

CONSTANTS MaxSize, Buffers

VARIABLES content, err

vars == <<content, err>>

Longer(j, k) == IF j > k THEN j ELSE k

Init == content = <<>> /\ err = "OK"

\* A write past the end fills the gap with zeroes.
Write(off, buf) ==
    /\ content' = [k \in 1..Longer(Len(content), off + Len(buf)) |->
                    IF off < k /\ k <= off + Len(buf) THEN buf[k - off]
                    ELSE IF k <= Len(content) THEN content[k] ELSE 0]
    /\ err' = "OK"

Truncate(n) ==
    /\ content' = [k \in 1..n |-> IF k <= Len(content) THEN content[k] ELSE 0]
    /\ err' = "OK"

Fail == err' = "EIO" /\ UNCHANGED content

Next ==
    \/ \E off \in 0..MaxSize, buf \in Buffers : Write(off, buf)
    \/ \E n \in 0..MaxSize : Truncate(n)
    \/ Fail

Spec == Init /\ [][Next]_vars
=============================================================================

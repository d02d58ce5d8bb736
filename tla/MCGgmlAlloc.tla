---------------------------- MODULE MCGgmlAlloc ----------------------------
(* Instances of GgmlAlloc for TLC.                                         *)
EXTENDS GgmlAlloc

\* Tensor 1 is an input, 2 a weight; 3 to 6 are nodes.  A node is a view of an earlier
\* tensor, an operation that can work in place, with the size of its first source, or
\* another one, of size 1 or 2, the larger with scratch memory.
Earlier(t) == {1} \cup 3 .. t - 1
Sources(t) == {<<p>> : p \in Earlier(t)} \cup {<<p, q>> : p, q \in Earlier(t)}
Kinds(t) ==
    [kind : {"view"}, src : {<<p>> : p \in Earlier(t)}, size : {1}]
    \cup [kind : {"inplace"}, src : Sources(t), size : {1}]
    \cup [kind : {"op"}, src : {s \in Sources(t) : Len(s) = 1 \/ s[1] < s[2]}, size : {1, 2}]

Build(n, out) ==
    LET view[t \in 1 .. 6] ==
            IF t < 3 \/ n[t].kind # "view" THEN 0
            ELSE LET p == n[t].src[1] IN IF view[p] = 0 THEN p ELSE view[p]
        size[t \in 1 .. 6] ==
            IF t < 3 THEN 1 ELSE IF n[t].kind = "op" THEN n[t].size ELSE size[n[t].src[1]]
    IN  [leafs |-> <<1, 2>>, nodes |-> <<3, 4, 5, 6>>,
         src |-> [t \in 1 .. 6 |-> IF t < 3 THEN <<>>
                                   ELSE IF t = 3 THEN n[t].src \o <<2>> ELSE n[t].src],
         view |-> view, size |-> size,
         extra |-> [t \in 1 .. 6 |->
                       IF t >= 3 /\ n[t].kind = "op" /\ n[t].size = 2 THEN 1 ELSE 0],
         inplace |-> {t \in 3 .. 6 : n[t].kind = "inplace"},
         output |-> out, input |-> {1}, external |-> {2}]

GraphsOfFour ==
    {Build([t \in 3 .. 6 |-> IF t = 3 THEN a ELSE IF t = 4 THEN b ELSE IF t = 5 THEN c ELSE d],
           out) :
        a \in {x \in Kinds(3) : x.kind # "view"}, b \in Kinds(4), c \in Kinds(5),
        d \in {x \in Kinds(6) : x.kind = "op" /\ x.size = 1},
        out \in {{6}, {3, 6}}}
=============================================================================

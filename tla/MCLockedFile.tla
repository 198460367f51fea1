---------------------------- MODULE MCLockedFile ----------------------------
(* An instance of LockedFile for TLC. *)
EXTENDS LockedFile, TLC

CONSTANTS g, h, i, P, Q

\* Two goroutines in one process and one in another.
Kinds == [kind : {"flock", "fcntl"}, process : {(g :> P @@ h :> P @@ i :> Q)}]

\* Every byte moves, and each transformation has its own effect.
Grow == [s \in Contents |-> IF Len(s) < MaxLen THEN <<IF s = <<>> THEN 0 ELSE 1 - Head(s)>> \o s ELSE s]
Shrunk == [s \in Contents |-> IF s = <<>> THEN s ELSE Tail(s)]
Changes == {Grow, Shrunk}

Texts == {<<1>>, <<0, 0>>}

Budget(ops, m, n, faults, crashes) ==
  [ops |-> ops, calls |-> (g :> m @@ h :> 1 @@ i :> n), faults |-> faults, crashes |-> crashes]

\* Three goroutines; two of one process, or of two, whose system calls fail and that die.
Work == {Budget({"read", "transform"}, 1, 1, 0, 0),
         Budget({"read", "write", "transform"}, 1, 0, 1, 0),
         Budget({"read", "write", "transform"}, 0, 1, 2, 1),
         Budget({"mutex"}, 1, 1, 1, 1)}
=============================================================================

------------------------------ MODULE FilePath ------------------------------
(***************************************************************************)
(* The functions of Go's path/filepath that drone-cache builds its local   *)
(* paths with, on Unix.  They only look at the path, never at the disk.    *)
(*                                                                         *)
(* A path is absolute or not and has elements; "." and empty elements are  *)
(* gone, so the relative path without elements is ".".                     *)
(***************************************************************************)
EXTENDS SequencesExt, Naturals

(* A string; the provers know of these three that they are strings. *)
Element == STRING \cup {"", ".", ".."}

Path == [abs: BOOLEAN, elems: Seq(Element)]

Absolute(elems) == [abs |-> TRUE, elems |-> elems]
Relative(elems) == [abs |-> FALSE, elems |-> elems]

(* A row of names, none of them "." or "..". *)
Plain(s) == \A k \in 1..Len(s) : s[k] # "." /\ s[k] # ".."

(* One more element: ".." takes the last one away, except a ".." that is kept
   in a relative path; "/.." is "/". *)
Resolve(p, e) ==
    IF e = "." THEN p
    ELSE IF e # ".." THEN [p EXCEPT !.elems = Append(@, e)]
    ELSE IF p.elems # <<>> /\ Last(p.elems) # ".." THEN [p EXCEPT !.elems = Front(@)]
    ELSE IF p.abs THEN p
    ELSE [p EXCEPT !.elems = Append(@, e)]

(* Join(p, q), the result cleaned: one element of q after the other. *)
Join(p, q) ==
    LET join[n \in 0..Len(q.elems)] ==
            IF n = 0 THEN p ELSE Resolve(join[n - 1], q.elems[n])
    IN  join[Len(q.elems)]

Clean(p) == Join([p EXCEPT !.elems = <<>>], p)

(* What p means to a process whose working directory is cwd. *)
Abs(cwd, p) == IF p.abs THEN Clean(p) ELSE Join(cwd, p)

Base(p) == Relative(IF p.elems = <<>> THEN <<>> ELSE <<Last(p.elems)>>)

Dir(p) == IF p.elems = <<>> THEN p ELSE [p EXCEPT !.elems = Front(@)]

(* The number of elements p and q begin with in common. *)
Shared(p, q) == Len(LongestCommonPrefix({p.elems, q.elems}))

(* Rel(base, targ) fails when it depends on the working directory. *)
RelFails(base, targ) ==
    \/ base.abs # targ.abs
    \/ Shared(base, targ) < Len(base.elems) /\ base.elems[Shared(base, targ) + 1] = ".."

Ups(n) == [k \in 1..n |-> ".."]

(* The elements of Rel(base, targ).  When targ is "." the result goes up and
   may end in that ".": the code does not clean it, its documentation does. *)
RelElems(base, targ) ==
    LET up   == Ups(Len(base.elems) - Shared(base, targ))
        down == SubSeq(targ.elems, Shared(base, targ) + 1, Len(targ.elems))
    IN  IF targ = Relative(<<>>) /\ up # <<>> THEN {up, Append(up, ".")}
        ELSE {up \o down}
=============================================================================

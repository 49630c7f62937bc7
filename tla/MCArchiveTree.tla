--------------------------- MODULE MCArchiveTree ----------------------------
(***************************************************************************)
(* Values of the constants of ArchiveTree for the model checker: paths are *)
(* 1, 1/1, 1/1/1, 1/2 and, outside the mounts, 2.                          *)
(***************************************************************************)
EXTENDS ArchiveTree

M == <<1>>
MA == <<1, 1>>
MAX == <<1, 1, 1>>
MB == <<1, 2>>
Other == <<2>>

Absent == [kind |-> "absent"]

(* A tree by its nodes: what is absent, or in no directory, is left out. *)
Nodes(m, a, x, b, o) ==
    LET at == M :> m @@ MA :> a @@ MAX :> x @@ MB :> b @@ Other :> o
        there(p) == \A k \in 1..Len(p) :
                        /\ at[SubSeq(p, 1, k)] # Absent
                        /\ k < Len(p) => at[SubSeq(p, 1, k)].kind = "dir"
    IN  [p \in {q \in DOMAIN at : there(q)} |-> at[p]]

Dirs == {Dir(TRUE), Dir(FALSE)}

(* A directory, a file or a link as the mount; in the directory a directory, a
   file or a link, with something in it, and anything next to it. *)
SomeTrees ==
    {Nodes(m, a, x, b, Absent) :
        m \in Dirs \cup {RegularFile(TRUE, <<M>>)},
        a \in Dirs \cup {RegularFile(FALSE, <<MA>>), Link(MB), Link(Other)},
        x \in {Absent, RegularFile(TRUE, <<MAX>>), Link(MB)},
        b \in {Absent, RegularFile(TRUE, <<MB>>), Special("pipe"), Special("socket")}}
        \cup {Nodes(Link(Other), Absent, Absent, Absent, Absent)}

OldFile == RegularFile(TRUE, <<<<>>, <<>>>>)

(* Nothing, or longer files, directories and links where entries belong. *)
SomeDisks ==
    {Nodes(m, a, x, b, Dir(TRUE)) :
        m \in {Absent, Dir(TRUE)},
        a \in {Absent, Dir(TRUE), OldFile, Link(Other)},
        x \in {Absent, OldFile},
        b \in {OldFile}}
        \cup {Nodes(Absent, Absent, Absent, Absent, Absent)}

(* One mount, at the top or not, or one inside the other. *)
SomeMountLists == {{M}, {MA}, {M, MA}}
=============================================================================

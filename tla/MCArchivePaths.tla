--------------------------- MODULE MCArchivePaths ---------------------------
(***************************************************************************)
(* Values of the constants of ArchivePaths for the model checker.          *)
(***************************************************************************)
EXTENDS ArchivePaths

Names == {"a", "b", "w"}

UpTo2 == {<<>>} \cup {<<x>> : x \in Names} \cup (Names \X Names)

SomeDirs == {Absolute(<<>>), Absolute(<<"w">>), Absolute(<<"a", "b">>)}

(* ".", "a", "b/w", ... *)
SomeFiles == {Relative(e) : e \in UpTo2}

(* "/", "/w", "/a/b", ... *)
AbsoluteMounts == {Absolute(e) : e \in UpTo2}

AnyMount == SomeFiles \cup AbsoluteMounts \cup {Relative(<<"..", x>>) : x \in Names}

DefaultRoot == {Unset}

AnyRoot == DefaultRoot \cup AbsoluteMounts \cup {Relative(<<"a">>)}
=============================================================================

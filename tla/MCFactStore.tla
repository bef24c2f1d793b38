---------------------------- MODULE MCFactStore ----------------------------
(***************************************************************************)
(* Model checking of FactStore on small instances.                          *)
(***************************************************************************)
EXTENDS FactStore

CONSTANTS plain, padded, other   \* contents: padded is plain with blanks around

T == INSTANCE TLC

Interchangeable == T!Permutations(Workers)

TrimBlanks == [content \in Contents |-> IF content = padded THEN plain ELSE content]

NoWindows == {<<Null, Null>>}

\* Windows that begin in the past or the future, or end.
AnyWindows == {<<Null, Null>>, <<1, Null>>, <<2, Null>>, <<Null, 2>>, <<1, 2>>}
=============================================================================

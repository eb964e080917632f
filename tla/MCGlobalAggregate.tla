-------------------------- MODULE MCGlobalAggregate --------------------------
(* Columns of a toy integer type: "Int32" has the values -4..3 and "Int64"    *)
(* -16..15, so that three rows can leave the narrow type but not the wide one.*)
EXTENDS GlobalAggregate

Rows == {3, 2, -4, Null}
Small == {<<>>} \cup {<<a>> : a \in Rows} \cup {<<3, a>> : a \in Rows}
MCInputs ==
    {<<a, b, c>> : a, b, c \in Small}
    \cup {<<a, Broken, <<2>> >> : a \in Small}
    \cup {<<a, Unsupported, b>> : a \in {<<>>, <<2>>}, b \in {<<3>>, Unsupported}}
=============================================================================

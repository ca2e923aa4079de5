--------------------------------- MODULE Rows ---------------------------------
(* What the tables and the handlers that write them have in common. *)
CONSTANT
    Null   \* SQL NULL, or no row

\* What a row becomes when a handler that loaded it commits: the ORM writes the
\* columns whose new value differs from the loaded one.
Written(row, loaded, new) == [c \in DOMAIN row |-> IF new[c] = loaded[c] THEN row[c] ELSE new[c]]
=============================================================================

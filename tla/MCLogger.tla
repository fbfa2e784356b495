------------------------------ MODULE MCLogger ------------------------------
(***************************************************************************)
(* TLC instance of Logger: every format of up to three characters, with    *)
(* none, one or two values, of which the second is a string of two.        *)
(***************************************************************************)
EXTENDS Logger

Formats == UNION {[1 .. n -> {"%", "x"}] : n \in 0 .. 3}
ValueLists == {<<>>, << <<"1">> >>, << <<"1">>, <<"a", "b">> >>}
=============================================================================

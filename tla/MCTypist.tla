------------------------------ MODULE MCTypist ------------------------------
(***************************************************************************)
(* Typist with a queue of two keys and lines of up to four, one key longer *)
(* than the C64 takes, made of the letters that are commands too.          *)
(***************************************************************************)
EXTENDS Typist

Lines == {<<"H", "M", "H", "M">>, <<"M", "H", "H">>, <<"M">>}

=============================================================================

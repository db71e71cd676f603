------------------------------- MODULE MCRio -------------------------------
(***************************************************************************)
(* Messages of two bytes, of as many as the buffer takes, and of more.     *)
(***************************************************************************)
EXTENDS Rio

SmallMessages ==
    {<<"x", Newline>>, <<"y", "x", Newline>>, <<"x", "y", "x", "y", Newline>>}
=============================================================================

---------------------------- MODULE MCNamePaging ----------------------------
(* TLC instance of NamePaging. *)
EXTENDS NamePaging

\* One and two bytes, with names that are beginnings of others, and the zero
\* byte that calc_range_start_str appends.
MCNames == {<<1>>, <<1, 0>>, <<1, 1>>, <<2>>, <<2, 0>>}

=============================================================================

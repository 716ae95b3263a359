---------------------------- MODULE MC_H5Version ----------------------------
(***************************************************************************)
(* Instance of the version guard: a 1.14.2 library with the exception      *)
(* table {0} of H5.c, headers that match, differ in release only (one of   *)
(* them the excepted release 0), or differ in minor or major; and the      *)
(* override unset, set to a letter, and set to 1, 2, 0x2, 08 and 010.      *)
(***************************************************************************)
EXTENDS H5Version

MCHeaders == {<<1, 14, 2>>, <<1, 14, 5>>, <<1, 14, 0>>, <<1, 12, 2>>,
              <<2, 14, 2>>}

MCEnv == {<<>>, <<"a">>, <<"1">>, <<"2">>, <<"0", "x", "2">>,
          <<"0", "8">>, <<"0", "1", "0">>}

MCExceptions == <<0>>
=============================================================================

--------------------------- MODULE MC_H5DebugMask ---------------------------
(***************************************************************************)
(* Two packages and HDF5_DEBUG values that exercise each branch: a plain   *)
(* name, a descriptor with a package and ttop, a descriptor that is not    *)
(* open, an octal descriptor, stderr's own descriptor, a cleared trace     *)
(* with an unknown name, a bare sign before a repeated descriptor, two      *)
(* descriptors with a clear in between, and hexadecimal and 08.           *)
(***************************************************************************)
EXTENDS H5DebugMask

MCPkgs == {"a", "f"}

MCEnvInputs ==
    { <<>>,
      <<"all">>,
      <<"3", ",", "+", "a", ",", "ttop">>,
      <<"9", ",", "f", ",", "trace">>,
      <<"0", "1", "0", ",", "f">>,
      <<"2", ",", "all">>,
      <<"-", "trace", " ", "zz", ",", "ttimes">>,
      <<"+", ",", "3", ",", "3", "-", "ttop">>,
      <<"1", ",", "all", ",", "-", "f", ",", "8", ",", "+", "ttimes">>,
      <<"0", "x", "3", " ", "a", ",", "0", "8">> }
=============================================================================

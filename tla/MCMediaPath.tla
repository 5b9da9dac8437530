----------------------------- MODULE MCMediaPath -----------------------------
(***************************************************************************)
(* A recording for MediaPath: parameter sets in front of the first and the *)
(* last unit, start codes of both sizes, an escaped 00 00 03 in a payload. *)
(* With 8 bytes to a fragment the three units that have a successor take   *)
(* two full fragments, exactly one, and one byte more than one.            *)
(***************************************************************************)
EXTENDS MediaPath

NAL(prefix, header, body) == [prefix |-> prefix, header |-> header, body |-> body]

MCNals == << NAL(4, 103, <<>>), NAL(3, 104, <<>>), NAL(4, 101, <<>>),
             NAL(3, 65, <<9, 9>>),
             NAL(3, 65, <<0, 0, 3>>),
             NAL(4, 103, <<>>), NAL(4, 101, <<>>) >>

MCLengths == {16, 8, 9, 12}

=============================================================================

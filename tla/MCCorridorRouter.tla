-------------------------- MODULE MCCorridorRouter --------------------------
(* The searches of the instances of CorridorRouter. *)
EXTENDS CorridorRouter

(* On three times three cells: any cells blocked but the farm's, with and  *)
(* without a road and a ridge.                                             *)
SmallCorridors ==
    [start : {<<0, 0>>}, goal : {<<2, 2>>, <<1, 2>>}, blocked : SUBSET (Cells \ {<<0, 0>>}),
     road : {{}, {<<0, 1>>, <<0, 2>>, <<1, 2>>}}, raised : {{}, {<<1, 0>>, <<1, 1>>}},
     maxDeflection : {40, 90}]

(* One lake to go round, with the limit of the 66 kV lines. *)
LakeCorridors ==
    [start : {<<0, 0>>}, goal : {<<0, 3>>}, blocked : {{<<0, 1>>}}, road : {{}},
     raised : {{}}, maxDeflection : {45}]
=============================================================================

---------------------------- MODULE MCAlgorithms ----------------------------
(* Algorithms over small sets of inputs. *)
EXTENDS Algorithms

MCTableHashes == {<<0, 1>>, <<0, 255>>, <<1, 0>>, <<58, 57>>, <<255, 0>>, <<255, 255>>}
=============================================================================

---------------------------- MODULE MCNormalizer ----------------------------
(***************************************************************************)
(* The normalizer as it is configured, with a population of four that was  *)
(* calibrated after five generations, on a plateau or with some spread.    *)
(***************************************************************************)
EXTENDS Normalizer

Plateau(n) == [i \in 1 .. n |-> 10]
TwentyReadings == {Plateau(20), Plateau(16) \o <<11, 11, 12, 12>>}

\* All workers as before, or two of them twice as good.
FourWorkers == {Plateau(4), <<10, 10, 20, 20>>, <<10, 10, 5, 5>>}
=============================================================================

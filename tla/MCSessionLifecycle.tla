------------------------- MODULE MCSessionLifecycle -------------------------
(***************************************************************************)
(* Two sessions that behave alike; enough run ids for both starts and two  *)
(* further turns (resumes or auto-replies) before no new turn begins.      *)
(***************************************************************************)
EXTENDS SessionLifecycle, TLC

CONSTANTS s1, s2

MCSessions == {s1, s2}
Symmetric == Permutations(MCSessions)

=============================================================================

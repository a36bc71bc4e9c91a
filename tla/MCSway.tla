-------------------------------- MODULE MCSway --------------------------------
(* Two names for compositors, ticks of half a second and a threshold of a    *)
(* second and a half, which swayidle has to round up to two.                  *)
EXTENDS Sway
=============================================================================

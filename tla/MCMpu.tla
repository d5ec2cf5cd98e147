------------------------------- MODULE MCMpu --------------------------------
(* Bounds around the powers of two of an address space of 256 granules,     *)
(* which is enough for a hole too fine for two regions, and one off the     *)
(* granules.                                                                *)
EXTENDS Mpu

MCPoints ==
  {0, 1, 3, 4, 16, 17, 31, 32, 48, 63, 64, 96, 113, 127, 128, 130, 160, 192,
   223, 224, 240, 251, 255}
MCRanges ==
  {r \in {<<8 * s, 8 * e>> : s \in MCPoints, e \in MCPoints} : r[2] = 0 \/ r[1] < r[2]}
    \cup {<<12, 64>>, <<64, 68>>, <<64, 40>>}
=============================================================================

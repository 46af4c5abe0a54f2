----------------------------- MODULE MCTokenSmash -----------------------------
(* Model checking of TokenSmash: a star and small meshes, with few cycles.   *)
(* A single token is a short one (-r 100), two are both long (the default).  *)
EXTENDS TokenSmash

Short(tokens) == IF tokens = 1 THEN 1 ELSE 0

Star(size, tokens, cycles, check, walltime) ==
  [topology |-> "STAR", mpi_size |-> size, xsize |-> 0, ysize |-> 0, zsize |-> 0,
   tokens |-> tokens, short |-> Short(tokens), count |-> cycles, check |-> check, walltime |-> walltime]

Torus(topology, x, y, z, cycles, check, walltime) ==
  [topology |-> topology, mpi_size |-> x * y * z, xsize |-> x, ysize |-> y, zsize |-> z,
   tokens |-> 1, short |-> Short(1), count |-> cycles, check |-> check, walltime |-> walltime]

MCSetups ==
  { Star(3, 2, 2, 2, FALSE), Star(2, 1, 3, 2, FALSE), Star(2, 2, 1, 0, TRUE),
    Torus("MESH_2D", 2, 1, 1, 1, 1, FALSE), Torus("MESH_2D", 3, 1, 1, 1, 0, FALSE),
    Torus("MESH_2D", 2, 1, 1, 1, 0, TRUE), Torus("MESH_3D", 2, 1, 1, 1, 0, FALSE) }
================================================================================

----------------------------- MODULE MCSurfaces -----------------------------
(***************************************************************************)
(* Surfaces on a small instance: two modes of the same area and different  *)
(* stride, so that a buffer of the right length is not one of the right    *)
(* size.                                                                   *)
(***************************************************************************)
EXTENDS Surfaces

\* One thing goes wrong, or the GPU frame and then the software frame do.
Cases == {{}} \union {{m} : m \in {"window", "pixmap", "texture", "egl", "compose",
                                   "pool", "attach", "busy"}}
             \union {{"busy", "buffer"}, {"egl", "buffer"}, {"egl", "attach"}}

Modes == {<<1, 2>>, <<2, 1>>}
=============================================================================

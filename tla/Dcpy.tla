-------------------------------- MODULE Dcpy --------------------------------
(***************************************************************************)
(* The agent's bounded buffers (utils/dcpy.c).  A source is what is left   *)
(* to read; a destination is what was written and the room that is left.   *)
(* A call that would go beyond the end does nothing else than to empty the *)
(* buffer and to mark it as out of bounds.                                 *)
(***************************************************************************)
EXTENDS Naturals, Sequences

Src(octets) == [buf |-> octets, oob |-> FALSE]
Dst(size) == [out |-> <<>>, room |-> size, oob |-> FALSE]

(* Every reading call moves the source like dcpy_skip. *)
Skip(src, num) ==
    IF Len(src.buf) < num THEN [buf |-> <<>>, oob |-> TRUE]
    ELSE [src EXCEPT !.buf = SubSeq(@, num + 1, Len(@))]

(* What dcpy_get, dcpy_get8 and dcpy_get16b return. *)
Get(src, num) == IF Len(src.buf) < num THEN <<>> ELSE SubSeq(src.buf, 1, num)
Get8(src) == IF src.buf = <<>> THEN 0 ELSE Head(src.buf)
Get16b(src) == IF Len(src.buf) < 2 THEN 0 ELSE 256 * src.buf[1] + src.buf[2]

Put(dst, octets) ==
    IF dst.room < Len(octets) THEN [dst EXCEPT !.room = 0, !.oob = TRUE]
    ELSE [dst EXCEPT !.out = @ \o octets, !.room = @ - Len(octets)]

Cpy(dst, src, num) == IF Len(src.buf) < num THEN dst ELSE Put(dst, SubSeq(src.buf, 1, num))
=============================================================================

------------------------------ MODULE MCCodecs ------------------------------
(* Inputs for Codecs: the two bytes that are escaped, the one that an empty *)
(* buffer is made of, and another; numbers at the limits of their widths,   *)
(* and data that fills a message, or just exceeds it.                       *)
EXTENDS Codecs

SomeBytes == {IDLE_CHAR, ESCAPE_CHAR, 255, 1}

SomeValues == {0, 255, 256, 65535, 2147483647}
SomeBlocks == {65519, 65521, 65523, 65525, 65527, 65531, 65540, 131066}

SomeFillers == {IDLE_CHAR, ESCAPE_CHAR, 255}
=============================================================================

--------------------------- MODULE MCUploadExchange ---------------------------
EXTENDS UploadExchange

CONSTANTS c1, c2, d1, d2

SomeFiles == [c \in Commands |-> IF c = c1 THEN {d1, d2} ELSE {d1}]
=============================================================================

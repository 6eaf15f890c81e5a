--------------------------- MODULE MCScanPipeline ---------------------------
(* A library r with a subdirectory d, and a directory x outside of it.     *)
EXTENDS ScanPipeline, TLC

CONSTANTS r, d, x, f, g, w1, w2

Tree == [e \in Dirs |-> IF e = r THEN {d} ELSE {}]
Songs == [e \in Dirs |-> CASE e = r -> {} [] e = d -> {f} [] OTHER -> {g}]

\* Links to the root, to itself, to a sibling, to a file, twice to one directory.
Detected == {{<<d, r>>}, {<<r, d>>, <<d, d>>}, {<<r, x>>, <<x, x>>}, {<<r, x>>, <<d, x>>, <<d, g>>}}

\* Two directories linked to each other, and one linked outside and back.
Round == {{<<d, x>>, <<x, d>>}, {<<r, x>>, <<x, r>>}, {<<d, x>>, <<x, r>>}}

AllLinks == Detected \cup Round
=============================================================================

--------------------------- MODULE MCSelectCache ---------------------------
(* Thread a serves a followed connection 0 and a listening socket 1 that   *)
(* other processes listen on too, thread b a followed connection 2.        *)
EXTENDS SelectCache

CONSTANTS a, b

MCThreads == {a, b}
MCOwn == [t \in MCThreads |-> IF t = a THEN {0, 1} ELSE {2}]
MCBuffered == {0, 2}
MCShared == {1}
MCAsks ==
  {{<<0, VFD_SEL_READ>>, <<0, VFD_SEL_WRITE>>, <<1, VFD_SEL_READ>>}}
    \cup {{<<f, VFD_SEL_READ>>} : f \in 0..2} \cup {{<<0, VFD_SEL_WRITE>>}}
=============================================================================

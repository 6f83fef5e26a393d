--------------------------- MODULE MCLoRAAdapters ---------------------------
(* Instances of LoRAAdapters for TLC.                                      *)
EXTENDS LoRAAdapters

CONSTANTS r1, r2, r3, x, y, z

\* Two requests for the same adapter, and a list of one that is pinned; a third
\* adapter is loaded by the administrator only.
MCSinglePaths == [r \in Req |-> IF r = r3 THEN <<z>> ELSE <<x>>]

\* A batch of two prompts with different adapters beside a single request.
MCListPaths == [r \in Req |-> IF r = r1 THEN <<x, y>> ELSE <<z>>]

MCPinnedFirst == <<z, x>>
MCPair == <<x, y>>
MCId == 1 .. 6
=============================================================================

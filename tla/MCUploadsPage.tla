--------------------------- MODULE MCUploadsPage ---------------------------
EXTENDS UploadsPage, TLC

CONSTANTS v, w

MCParts == (v :> 2) @@ [i \in Files |-> 1]

\* Both may be videos.  An image goes the way of a video that needs no
\* processing, without the engine.
MCKinds == (v :> {"video"}) @@ [i \in Files |-> {"video", "invalid"}]
=============================================================================

----------------------------- MODULE MCPanelPages -----------------------------
(***************************************************************************)
(* PanelPages with model values for its servers, in two orders, and the    *)
(* range a chart can be zoomed to.                                         *)
(***************************************************************************)
EXTENDS PanelPages

CONSTANTS s1, s2, s3

ServerRows    == <<s2, s1, s3>>
ServersByName == <<s1, s2, s3>>
ZoomedRanges  == {<<4, 10>>}
=============================================================================

--------------------------- MODULE MCLiquidCache ---------------------------
(***************************************************************************)
(* Instances of LiquidCache for TLC.  Entries are named for what they are: *)
(* "plain" transcodes and squeezes, "swell" grows when transcoded and does *)
(* not squeeze, "opaque" cannot be transcoded, "variant" is a variant      *)
(* struct shredded by path.  "huge" exceeds every budget used here.        *)
(***************************************************************************)
EXTENDS LiquidCacheProperties

MCKind == [e \in Entries |-> IF e \in {"opaque", "variant"} THEN e ELSE "plain"]
MCSqueezable == [e \in Entries |-> e \in {"plain", "huge"}]
MCHint == [e \in Entries |-> IF e = "variant" THEN {"x"} \cap Paths ELSE {}]
MCArrowSize == [e \in Entries |-> CASE e = "swell" -> 1 [] e = "huge" -> 9 [] OTHER -> 3]
MCLiquidSize == [e \in Entries |-> CASE e = "huge" -> 8 [] OTHER -> 2]
MCSqueezedSize == [e \in Entries |-> CASE e = "huge" -> 7 [] OTHER -> 1]
=============================================================================

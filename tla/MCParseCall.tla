---------------------------- MODULE MCParseCall ----------------------------
(* Instances of ParseCall for TLC. *)
EXTENDS ParseCall, TLC

Req(surface, remote, input, selected, pipeline) ==
  [surface |-> surface, remote |-> remote, input |-> input, selected |-> selected,
   pipeline |-> pipeline]
\* A conversion by two collectors, one named twice; a routed workbook that streams
\* its chunks; a fetched PDF under each pipeline.
Mixed == {Req("convert", FALSE, "raster", <<"cv", "xml", "cv">>, "STANDARD"),
          Req("stream", FALSE, "workbook", <<>>, "STANDARD"),
          Req("chunk", TRUE, "pdf", <<>>, "STANDARD"),
          Req("convert", FALSE, "pdf", <<>>, "NATIVE"),
          Req("convert", FALSE, "raster", <<>>, "NATIVE"),
          Req("convert", FALSE, "pdf", <<>>, "VLM")}
Fetched == {Req("stream", TRUE, "pdf", <<>>, "STANDARD")}
CallSymmetry == Permutations(Calls) \cup Permutations(Workers)
============================================================================

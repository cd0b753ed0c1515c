------------------------------ MODULE MCCleanUp ------------------------------
(***************************************************************************)
(* Two items for the clean-up: `b` with one thing to remove, `a` with both   *)
(* things, with one, and with what a plan refuses.                          *)
(***************************************************************************)
EXTENDS CleanUp

T(kind, name, low) == [kind |-> kind, name |-> name, low |-> low]
Res(name) == T("res", name, FALSE)

MCTag ==
  {Res("1080p"), T("res", "1080p", TRUE), Res("720p"), T("res", "720p", TRUE),
   T("retired", "x", FALSE), T("legacy", "x", FALSE), T("keyword", "x", FALSE)}

\* A row may still have the legacy tags of a time before the prefix changed.
Row(res, ts) == {[res |-> res, tags |-> ts]}
MCStarts ==
  [a |-> {[tags |-> {Res("1080p"), Res("720p"), T("retired", "x", FALSE), T("keyword", "x", FALSE)},
           row |-> Row("720p", {Res("720p"), T("legacy", "x", FALSE)})],
          [tags |-> {Res("1080p"), T("res", "720p", TRUE)}, row |-> Row("720p", {Res("720p")})],
          [tags |-> {Res("1080p"), Res("720p")}, row |-> Row("720p", {})],
          [tags |-> {T("keyword", "x", FALSE)}, row |-> {}]},
   b |-> {[tags |-> {Res("1080p"), T("retired", "x", FALSE)}, row |-> Row("1080p", {Res("1080p")})]}]
=============================================================================

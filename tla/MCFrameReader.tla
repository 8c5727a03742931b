---------------------------- MODULE MCFrameReader ----------------------------
(***************************************************************************)
(* Frames with payloads of up to three bytes: texts, and what continues    *)
(* them, whole, cut and wrong; some binary and control frames; one frame   *)
(* for every fault of a header; and frames longer than max_message_size,   *)
(* with which the sum of the sizes wraps or does not.  The key of a frame  *)
(* differs from those of other kinds.                                      *)
(***************************************************************************)
EXTENDS FrameReader

Short == UNION {[1..n -> {"single", "lead", "tail"}] : n \in 0..1}
Payloads ==
  Short \cup
  {<<"single", "single">>, <<"lead", "tail">>, <<"single", "lead">>, <<"tail", "single">>,
   <<"single", "lead", "tail">>, <<"lead", "single", "single">>}

\* A frame without a fault in its header, unless its kind does not allow the length.
Frame(op, fin, payload) ==
  [op |-> op, fin |-> fin, rsv |-> FALSE, masked |-> TRUE,
   code |-> CASE Len(payload) <= 1 -> "basic" [] Len(payload) = 2 -> "16" [] OTHER -> "64",
   key |-> CASE op = "continuation" -> 1 [] op = "control" -> 2 [] OTHER -> 0,
   payload |-> payload]

Texts ==
  {Frame(op, fin, payload) : op \in {"text", "continuation"}, fin \in BOOLEAN, payload \in Payloads}
Binaries == {Frame("binary", fin, payload) : fin \in BOOLEAN, payload \in Short}
Controls == {Frame("control", TRUE, payload) : payload \in Short}

Empty == Frame("text", TRUE, <<>>)
Faulty ==
  {[Empty EXCEPT !.rsv = TRUE], [Empty EXCEPT !.op = "reserved"],
   [Empty EXCEPT !.masked = FALSE], [Empty EXCEPT !.code = "16"],
   [Empty EXCEPT !.code = "64"], Frame("control", FALSE, <<>>),
   Frame("control", TRUE, <<"single", "single">>)}

\* Five bytes: after one of a message the sum of the sizes is six, which is zero.
Five == [i \in 1..5 |-> "single"]
Wrapping == {Frame("continuation", fin, Five) : fin \in BOOLEAN} \cup {Frame("binary", TRUE, Five)}

MCInputs == Texts \cup Binaries \cup Controls \cup Faulty \cup Wrapping
=============================================================================

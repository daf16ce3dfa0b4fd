----------------------------- MODULE MCFraming -----------------------------
(* Payloads for SnifferFraming: nothing, every byte that must be escaped, *)
(* and a byte that looks like the second half of an escape.               *)
EXTENDS SnifferFraming

MCPayloads ==
  {<<>>, <<SLIP_START>>, <<SLIP_ESC, SLIP_END>>, <<SLIP_ESC_START, 7>>}
=============================================================================

----------------------------- MODULE MCUartTap -----------------------------
(* Values of UartTap's constants for model checking.                       *)
EXTENDS UartTap

MCWords  == {<<"esc", "b">>, <<"b", "b">>}
MCIdCode == <<"a">>
=============================================================================

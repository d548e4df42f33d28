----------------------------- MODULE MCTagCodec -----------------------------
(* An instance of TagCodec for TLC: fields with each character that means    *)
(* something to the protocol, at their beginning, middle and end, and the    *)
(* identities with a leading zero, with two digits and past two digits.      *)
EXTENDS TagCodec

MCCommands ==
  {<<>>, <<"a">>, <<"A">>, <<"A", "K">>, <<"A", "K", "a">>, <<"X", "X">>,
   <<"a", ":">>, <<";", "a">>, <<"!", "1">>}

MCMessages ==
  {<<>>, <<"b">>, <<"b", ":", "b">>, <<";", "b">>, <<"!">>, <<"b", "!", "1">>,
   <<"!", "1", ":", "b">>, <<"A", "K">>, <<"1", "!">>}

MCSizes == <<109, 12>>
=============================================================================

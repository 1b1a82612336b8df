----------------------------- MODULE MCTerminal -----------------------------
(* Small screens with the layout of the code: windows of two lines with two
   places each.  The heights leave as many rows over as 1600x900 and 1024x768. *)
EXTENDS Terminal

Graphics(w, h) == [type |-> "graphics", width |-> w, height |-> h]
MCModes == {Graphics(40, 100), Graphics(40, 112), [type |-> "text", width |-> 8, height |-> 6]}
WideModes == {Graphics(44, 112)}    \* 44 as 1024: the last places are cut
TextModes == {[type |-> "text", width |-> 8, height |-> 6]}
MCTitle == <<"t", "t">>
MCWelcome == <<"w", "nl">>
MCHeader == <<"h">>
MCMessages == {<<"a">>, <<"a", "a", "a">>, <<"cr", "a", "nl">>, <<"tab", "bs", "a">>}
=============================================================================

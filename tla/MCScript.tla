------------------------------ MODULE MCScript ------------------------------
(* The files of up to five tokens, whole delimiters among them: every way  *)
(* to nest, to repeat and to leave open that two scripts can show.  A page *)
(* with a text on either side of its script, and one of two scripts and a  *)
(* text behind them, are those that act.                                   *)
EXTENDS Script

Token == { <<>>, <<"<", "?", "space">>, <<"?", ">">>, <<"other">>, <<"<">>, <<">">>, <<"nul">> }

Joined(S, T) == {a \o b : a \in S, b \in T}
Two  == Joined(Token, Token)
Four == Joined(Two, Two)

Script == <<"<", "?", "space", "?", ">">>
MCActing == { <<"other">> \o Script \o <<"other">>, Script \o Script \o <<"other">> }
MCSource == Joined(Four, Token)
=============================================================================

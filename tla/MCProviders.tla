----------------------------- MODULE MCProviders ------------------------------
(* Providers for one thing with two versions or values and two tags: every  *)
(* ID of a thing, in every file, with every other.                          *)
EXTENDS Providers

CONSTANTS t1, a, b, dev, cli

MCTagOrder == <<dev, cli>>
MCAll == Packages \cup Settings \cup Others
MCSettings == Settings
MCByHand == {<<"main", cli>>, <<"local", dev>>}
MCScripts == {Bash @@ Nothing, BashUnchecked @@ Nothing}
=============================================================================

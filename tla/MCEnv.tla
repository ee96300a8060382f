------------------------------- MODULE MCEnv -------------------------------
(***************************************************************************)
(* Module Env for TLC: an address and the load address, which the board    *)
(* keeps copies of, the baud rate, a console and a server address; two     *)
(* values, of one and of two cells, and room for two variables.            *)
(***************************************************************************)
EXTENDS Env

MCSize == [n \in Name |-> [v \in Value |-> IF v = "long" THEN 2 ELSE 1]]
MCDefault == Chars("ipaddr", "short")
MCRanges == {<<1, 5>>}
MCJunk == <<"junk">>
=============================================================================

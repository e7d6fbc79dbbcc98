------------------------------ MODULE MCClient -------------------------------
(* Instances of Client for TLC.                                            *)
EXTENDS Client

CONSTANTS a1, a2

TwoPackets == {<<a1, a2>>, <<a2, a1>>}
OnePacket == {<<a1, a2>>}

(* Both addresses are in one chain.                                        *)
OneChain == [a \in Addr |-> 7]

(* Sound with these packets and this chain, which treat addresses alike.   *)
AddrSymmetry == Permutations(Addr)

NoOptions == {<<FALSE, FALSE>>}
NumericOrNot == BOOLEAN \X {FALSE}

LowLoad == {<<0, 0>>}

(* A command with more behind it, and the beginning of another.            *)
FewWords == {<<"un">>, <<"un", "force", "up">>}
HelpWords == {<<"up">>, <<"delay", "-quit">>}
NoWords == {}

(* Keys and resizes at any time, keys before main's loop, and resizes while *)
(* its select() waits.                                                     *)
AnyTime == PC \ Dead
Early == {"wait"}
Waiting == {"loop"}

(* Signals before main has its handlers, and while select() waits.         *)
Outside == {"init", "open", "wait", "loop"}
===============================================================================

------------------------------- MODULE MCGateway -------------------------------
(***************************************************************************)
(* Small instances of Gateway for TLC: a name that may be bound to one or  *)
(* two addresses, public or not, and an address that is the host itself.   *)
(***************************************************************************)
EXTENDS Gateway, TLC

CONSTANTS pub1, pub2, priv

NoAnswer == << >>

Lists == {NoAnswer, <<pub1>>, <<pub1, pub2, pub1>>, <<pub2, priv>>, <<priv>>}

At(form, address) ==
    [form |-> form, origin |-> "llm.example:443", dialled |-> "llm.example:443",
     address |-> address]

BaseUrls ==
    {At("malformed", pub1), At("forbidden", pub1), At("name", pub1), At("literal", pub2),
     At("literal", priv),
     [At("name", pub1) EXCEPT !.dialled = "xn--llm.example:443"]}

Hosts == {"llm.example:443", "xn--llm.example:443"}
=============================================================================
